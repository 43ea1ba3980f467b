SPECIFICATION MetricSpec
CONSTANTS
    Events = {e1, e2, v1}
    EvalEvents = {v1}
    SegmentEvents = 2
    BatchFrames = 1
    MaxAttempts = 3
    MaxFaults = 2
    Nothing = Nothing
SYMMETRY Symmetry
INVARIANTS JournalIsKept CompleteIsDelivered
CHECK_DEADLOCK FALSE
