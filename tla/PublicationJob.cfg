SPECIFICATION Spec
CONSTANTS
    MaxSessions = 2
    Chunks = 2
    MaxForeign = 2
    MaxFaults = 2
    MaxDeaths = 2
    MaxRetries = 2
INVARIANTS PublishedOnce SucceededIsPublished
PROPERTIES 
CHECK_DEADLOCK FALSE
