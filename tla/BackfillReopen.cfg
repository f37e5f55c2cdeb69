SPECIFICATION Spec
CONSTANTS
    Jobs = {j1}
    Runners = {r1, r2}
    LastPage = 2
    Rows <- MCRowsOne
    IdByFetch = TRUE
    MaxPages = 2
    MaxEmptyPages = 1
    Repeats = FALSE
    MaxClock = 0
    MaxCrashes = 0
    MaxDamage = 0
PROPERTIES CompletedNotReopened
