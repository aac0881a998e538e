CONSTANTS
    Images = {i1, i2}
    MaxPredictions = 3
    MaxDowngrades = 5
    Alice = Alice
    Bruno = Bruno
    Stub = Stub
    Flagship = Flagship
    Partner = Partner
    Camera = Camera
    Frame = Frame
    Vote = Vote
    Day = Day
    Note = Note
    Dana = Dana
    DanaProject = DanaProject
    DanaImage = DanaImage
    DanaPrediction = DanaPrediction
    ApprovedProject = ApprovedProject
    AliceProject = AliceProject
    AliceUpload = AliceUpload
    AliceReport = AliceReport
    AliceEntry = AliceEntry
    CameraEntry = CameraEntry
    DanaMembership = DanaMembership
    Namesake = Namesake
    Others <- MCOthers
    Theirs <- MCTheirs
    SameKey <- MCSameKey
    Files = {f1, f2}
    MaxDisasters = 1
    Presses = {c1}
    Given = {"viewer", "manager"}
    MaxMoves = 1
    MaxDisturbances = 1
    Ids = {1, 2, 3}
    Limit = 1
    MaxStamp = 1
    MaxChanges = 1
    Users = {u1, u2, u3}
    Creator = u1
    Assets = {a1}
    Requests = {r1, r2}
    MaxInvitations = 2
    MaxFaults = 1
SPECIFICATION SiteSpec
INVARIANTS HeadIsReachedFromHere RestoredHasBytes RefusedIsOutOfDate OwnActionShows StillIsSeen
INVARIANTS NobodyJoinsUnasked ListedHasBytes
PROPERTY WipeSparesOthers
CHECK_DEADLOCK FALSE
