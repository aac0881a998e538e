CONSTANTS
    Recomputers = {r1, r2}
    Callers = {c1, c2}
    MaxVotes = 3
    Displayed <- MCDisplayed
    Span <- MCSpan
    MaxApprovals = 1
    MaxWrites = 1
    MaxDeaths = 0
SPECIFICATION ProjectSpec
CHECK_DEADLOCK FALSE
PROPERTY ApprovalStands
