CONSTANTS
  Last = 1
  MaxAttempts = 2
  Verdicts <- MCDecisive
  MaxStarts = 1
  MaxFaults = 1
SPECIFICATION Spec
INVARIANTS
  SucceededIsTerminal
CHECK_DEADLOCK FALSE
