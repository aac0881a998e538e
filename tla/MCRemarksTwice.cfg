CONSTANTS
    Emitters = {e1, e2}
    Window = 1
    REJECTION_STREAK = 1
    NoteTypes = {"delay"}
    NoteSeverities = {"critical"}
    MaxNotes = 0
    MaxChanges = 2
    MaxDeaths = 0
    MaxDoubles = 1
SPECIFICATION RemarksSpec
INVARIANT NeverSaidTwice
CHECK_DEADLOCK FALSE
