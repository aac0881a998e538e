CONSTANTS
    Diagonal = Diagonal
    Back = Back
    Cameras <- MCCameras
    Weight <- MCWeight
    Scores <- MCScores
    MaxImages = 1
    Raws <- MCSiteRaws
    MaxDays = 4
    MaxRecomputes = 1
SPECIFICATION EstimateSpec
INVARIANT AdvancesOnEvidence
CHECK_DEADLOCK FALSE
