SPECIFICATION MCSpec
CONSTANTS
    Datasets <- MCDatasets
    Sizes = {1, 2, 3}
    Embargoes = {1}
    Kinds <- MCKinds
    Scores = {9, 25, 41}
    Whole = 50
    Loss <- MCLoss
    Resolutions = {5}
    MaxRevised = 0
    MinSample = 2
    MinClass = 1
    FitSample = 2
    FitClass = 1
    FitCutoffs = {}
    RegimePolicy <- CanonicalRegimePolicy
    Profiles <- MCProfiles
    FeatureSets <- MCFeatureSets
    ChallengePolicies <- MCPolicies
    MaxRelabeled = 1
INVARIANTS AnalogsKnown PredictedOrSuppressed ComparedOnSameRows AnalogsEarned AlwaysComparable
CHECK_DEADLOCK FALSE
