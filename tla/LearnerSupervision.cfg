SPECIFICATION FairSpec
CONSTANTS
  EvalRequired = TRUE
  Outcomes = {"failure"}
  Pids = {1}
  MaxAttempts = 2
  MaxTasks = 3
  MaxFaults = 1
CHECK_DEADLOCK FALSE
INVARIANTS StateIsOwn GroupIsTornDown EarlyStopStands OwnCapIsReached
PROPERTY SupervisionEnds
