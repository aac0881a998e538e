CONSTANTS
    Reports = {r1, r2}
    Workers = {w1, w2}
    MaxRetries = 1
    MaxFaults = 2
    MaxOverlaps = 1
    Emitters = {e1, e2}
    Window = 1
    REJECTION_STREAK = 1
    NoteTypes = {"delay"}
    NoteSeverities = {"info", "critical"}
    MaxNotes = 1
    MaxChanges = 2
    MaxDeaths = 1
    MaxDoubles = 1
    FirstDay = 0
    LastDay = 40
    DayLength = 3
    Unmeasured = Unmeasured
    RemarkLimit = 50
    Midnight <- SiteMidnight
    FirstOf <- TenDayMonths
SPECIFICATION MaintenanceSpec
INVARIANTS FilesMatchRows
PROPERTIES ReadyIsFinal Answered SaidOnceAndRestated
CHECK_DEADLOCK FALSE
