SPECIFICATION FairSpec
CONSTANTS
    Jobs = {j1}
    Runners = {r1, r2}
    LastPage = 3
    Rows <- MCRowsFew
    IdByFetch = FALSE
    MaxPages = 2
    MaxEmptyPages = 1
    Repeats = TRUE
    MaxClock = 1
    MaxCrashes = 0
    MaxDamage = 0
INVARIANTS SinglePageCopy
PROPERTIES EveryRunEnds
