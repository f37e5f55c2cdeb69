SPECIFICATION FairSpec
CONSTANTS
    Jobs = {j1}
    Runners = {r1}
    LastPage = 2
    Rows <- MCRowsOne
    IdByFetch = FALSE
    MaxPages = 2
    MaxEmptyPages = 1
    Repeats = FALSE
    MaxClock = 1
    MaxCrashes = 1
    MaxDamage = 0
PROPERTIES EventuallyPublished
