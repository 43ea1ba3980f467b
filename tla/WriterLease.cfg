SPECIFICATION Spec
CONSTANTS
  s1 = s1
  s2 = s2
  o1 = o1
  e1 = e1
  Supervisors = {s1}
  Operators = {o1}
  Evaluators = {e1}
  None = None
  Skew <- MCSkew3
  TTL = 6
  RenewEvery = 1
  MaxMisses = 2
  MaxGap = 1
  MaxSkew = 1
  MaxTime = 6
  MaxGen = 3
INVARIANTS
  WritesBeforeExpiry
  WriterOwnsLease
PROPERTIES
  ReleaseRemovesOwn
CHECK_DEADLOCK FALSE
