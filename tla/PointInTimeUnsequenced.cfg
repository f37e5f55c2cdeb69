SPECIFICATION CatalogSpec
CONSTANTS
    Series = {s1}
    Profiles <- MCUnsequenced
    Day = 2
    MaxClock = 3
    MaxRevisions = 2
    MaxFetches = 2
SYMMETRY Symmetry
CHECK_DEADLOCK FALSE
INVARIANTS LatestOrAmbiguous
