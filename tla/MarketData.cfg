SPECIFICATION MCSpec
CONSTANTS
    Prices = {1, 2, 3}
    MaxQty = 1
    Extras <- MCExtras
    TimeSteps = {0, 2}
    MaxGap = 3
    MaxUpdates = 4
    MaxAttempts = 3
    RetryBase = 2
    RetryCap = 4
    RetryAsks <- MCAsks
    NoAsk = NoAsk
    Providers = {p1, p2, p3}
    ClosePrices = {100, 102, 110}
    CloseTimes = {2, 3}
    MaxCandles = 4
    Now = 3
    MaxAge = 1
    MinProviders = 2
    MaxSpread = 20
    OutlierDeviation = 30
    AlignmentTolerance = 1
INVARIANTS BookExact RaisesOnlySpent PausesKept MinorityOutvoted
PROPERTIES ServedForward DynamicsExact
CHECK_DEADLOCK FALSE
