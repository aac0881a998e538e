CONSTANTS
    Diagonal = Diagonal
    Back = Back
    Cameras <- MCCameras
    Weight <- MCWeight
    Scores <- MCScores
    MaxImages = 4
    Raws <- MCSiteRaws
    MaxDays = 5
    MaxRecomputes = 1
    TrainScores = {1, 3}
    FrozenEpochs = 1
    MaxEpochs = 4
    Patience = 2
    LrPatience = 1
    RunDirs = {d1, d2}
    MaxResumes = 2
    Resnet = Resnet
    Mobilenet = Mobilenet
    Stub = Stub
    Calibrated = Calibrated
    Cropped = Cropped
    Weights = {Resnet, Mobilenet, Stub}
    Pipelines = {Calibrated, Cropped}
    TrainedThrough <- MCTrainedThrough
    Unstamped = Unstamped
    NoModel = NoModel
    Processes = {w1, w2}
    Calls = {c1}
    MaxDeploys = 2
    MaxCrashes = 1
    Photographs = {1, 2, 3, 4, 5, 6}
    Folder <- MCFolder
    Label <- MCLabel
    Poor = {6}
    FirstRaw = {1, 2, 3, 4}
    Ratio <- MCRatio
    MaxSplitRuns = 3
SPECIFICATION NumbersSpec
INVARIANTS ShownWasMeasured FallsAreToldOnce LabelWithinReach
INVARIANTS OneTreeIsOneSplit ResumesWhereItWas NothingIsLost ServedAsTrained
PROPERTY ReadFairly
CHECK_DEADLOCK FALSE
