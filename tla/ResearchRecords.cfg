SPECIFICATION MCSpec
CONSTANTS
    Series = {s1, s2}
    Profiles <- MCProfiles
    Day = 2
    MaxClock = 2
    MaxRevisions = 2
    MaxFetches = 2
    Processes = {p1, p2}
    Predictions <- MCPredictions
    Labels <- MCLabels
    StoreProcesses = {p1, p2}
    Rows = {x1, x2}
SYMMETRY Symmetry
CHECK_DEADLOCK FALSE
INVARIANTS NothingFromTheFuture LatestWhereOrdered SnapshotHonest SavedStored PairsSound SavedReadable
PROPERTIES SettledPast PairsKept ImplementsWriteOnce
