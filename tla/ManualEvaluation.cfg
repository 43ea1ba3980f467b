SPECIFICATION Spec
CONSTANTS
  Checkpoints = {1, 2}
  b1 = b1
  b2 = b2
  b3 = b3
  b4 = b4
  q1 = q1
  q2 = q2
  Batches = {b1, b2, b3, b4}
  Queues = {q1, q2}
  Selection <- MCSelection
  Home <- MCHome
  Casts <- MCCasts
  Evaluated = {2}
  Verdicts = {"accepted", "rejected"}
  MaxAttempts <- MCMaxAttempts
INVARIANTS
  SucceededIsBacked
  ProjectedIsLogged
  OneLiveEvaluation
PROPERTIES
  WaitsForTraining
CHECK_DEADLOCK FALSE
