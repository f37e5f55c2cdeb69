SPECIFICATION OpsSpec
CONSTANTS
    Workers = {w1, w2}
    Horizons = {"1d", "1w"}
    HorizonOrder <- MCHorizonOrder
    Facts <- MCFacts
    Files <- MCFiles
    Cooldown = 2
    MaxClock = 2
    MaxStarts <- MCMaxStarts
    MaxRaises = 1
    MaxBackups = 1
    MaxRestores = 1
INVARIANTS RunTold RestoreSound
PROPERTIES SnapshotsForward JobRunsAgain
CHECK_DEADLOCK FALSE
