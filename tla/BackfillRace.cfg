SPECIFICATION Spec
CONSTANTS
    Jobs = {j1, j2}
    Runners = {r1, r2}
    LastPage = 2
    Rows <- MCRowsOne
    IdByFetch = TRUE
    MaxPages = 2
    MaxEmptyPages = 1
    Repeats = FALSE
    MaxClock = 1
    MaxCrashes = 0
    MaxDamage = 0
SYMMETRY Symmetry
INVARIANTS CheckpointCovered ProvenanceBacked ManifestComplete
PROPERTIES ImplementsProgress
