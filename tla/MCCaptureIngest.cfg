CONSTANTS
    Faces = {f1}
    Cameras = {k1, k2}
    Codes = {c1}
    Requests = {r1, r2}
    Weights = {1}
    DefaultWeight = 1
    NoFace = NoFace
    CodeLifetime = 1
    OfflineAfter = 0
    AlertAfter = 0
    DedupeWindow = 0
    MaxTime = 1
    Captures = {p1, p2}
    Stamps <- MCStamps
    MaxDailySequence = 2
    MaxFaults = 1
SPECIFICATION SiteSpec
INVARIANTS OneCameraPerFace FiledUnderItsOwnName
PROPERTIES UnpairedIsCutOff SilenceIsNoticed KeptUntilStored
CHECK_DEADLOCK FALSE
