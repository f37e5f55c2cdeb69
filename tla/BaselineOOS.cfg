SPECIFICATION MCSpec
CONSTANTS
    Times = {1, 4, 7, 10}
    Delays = {1, 5}
    Datasets <- MCDatasets
    Sizes = {1, 2, 3}
    Embargoes = {1}
    Kinds <- MCKinds
    Scores = {9, 25, 41}
    Whole = 50
    Loss <- MCLoss
    Resolutions = {6}
    MaxRevised = 1
    MinSample = 3
    MinClass = 1
    FitSample = 2
    FitClass = 1
    FitCutoffs = {7, 10}
INVARIANTS NoLeakage WindowForward TestsForward TrainedOnThePast PlannedRunsAccepted JudgedAlike ChallengerEarned CalibratedOnThePast
CHECK_DEADLOCK FALSE
