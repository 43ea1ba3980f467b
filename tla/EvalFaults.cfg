CONSTANTS
  Last = 1
  MaxAttempts = 2
  Verdicts <- MCAll
  MaxStarts = 3
  MaxFaults = 3
SPECIFICATION FairSpec
INVARIANTS
  EachAttemptSpawnedOnce
PROPERTIES
  AttemptsEnd
CHECK_DEADLOCK FALSE
