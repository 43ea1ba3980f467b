SPECIFICATION Spec
CONSTANTS
    Writers <- MCWriters
    Write <- MCWrite
    Projectors <- MCProjectors
    MaxAttempts = 2
    MaxCatalogFaults = 1
    Absent = "absent"
    Updaters <- MCUpdaters
    Rows = {"c1", "c2"}
    Names <- MCNames
    Promoters <- MCPromoters
    MaxRounds = 2
    MaxIndexFaults = 1
    None = "none"
    Worker = "worker"
    Operator = "operator"
    Casts <- MCCasts
    MaxLapses = 1
INVARIANTS ShownIsStored RowIsComplete ReturnedIsShown
PROPERTIES CatalogGrows LostOnlyUnread
CHECK_DEADLOCK FALSE
