SPECIFICATION FairSpec
CONSTANTS
    c1 = c1
    c2 = c2
    Clients = {c1, c2}
    Jobs = {1, 2}
    Reports <- MCReports
    Progress = {"running"}
    MaxDeaths = 1
    None = None
INVARIANTS Attended RunningIsAdvanced StartedLed
PROPERTIES VerdictsStand QueuedIsServed WorkersExit
CHECK_DEADLOCK FALSE
