CONSTANTS
  Last = 2
  MaxAttempts = 2
  Verdicts <- MCDecisive
  MaxStarts = 2
  MaxFaults = 1
SPECIFICATION Spec
INVARIANTS
  LedgerAgreesWithBucket
  FailureIsEvidenced
  AcceptanceStopsLearner
  RetryOnlyAfterExpiry
PROPERTIES
  LastResultCounts
  KeepsPromises
CHECK_DEADLOCK FALSE
