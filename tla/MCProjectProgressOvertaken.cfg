CONSTANTS
    Recomputers = {r1, r2}
    Callers = {c1}
    MaxVotes = 3
    Displayed <- MCDisplayed
    Span <- MCSpan
    MaxApprovals = 2
    MaxWrites = 1
    MaxDeaths = 0
SPECIFICATION ProjectFairSpec
INVARIANT OneTimeline
CHECK_DEADLOCK FALSE
