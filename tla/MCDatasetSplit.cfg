CONSTANTS
    Photographs = {1, 2, 3, 4, 5, 6}
    Folder <- MCFolder
    Label <- MCLabel
    Poor = {6}
    FirstRaw = {1, 2, 3, 4}
    Ratio <- MCRatio
    MaxSplitRuns = 3
SPECIFICATION DatasetSpec
INVARIANT HeldOutIsUnseen
CHECK_DEADLOCK FALSE
