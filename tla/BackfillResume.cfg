SPECIFICATION FairSpec
CONSTANTS
    Jobs = {j1}
    Runners = {r1}
    LastPage = 4
    Rows <- MCRows
    IdByFetch = TRUE
    MaxPages = 2
    MaxEmptyPages = 1
    Repeats = FALSE
    MaxClock = 2
    MaxCrashes = 2
    MaxDamage = 1
PROPERTIES CheckpointForward EventuallyPublished
