CONSTANTS
    Facade = Facade
    NoImage = NoImage
    Images = {Facade}
    Verdicts <- MCVerdicts
    Workers = {w1, w2}
    Requests = {r1, r2}
    MaxRetries = 2
    MaxFaults = 2
    MaxReopens = 2
    Recomputers = {p1, p2}
    Callers = {c1}
    MaxVotes = 3
    Displayed <- MCDisplayed
    Span <- MCSpan
    MaxApprovals = 2
    MaxWrites = 1
    MaxDeaths = 1
SPECIFICATION QueueSpec
INVARIANTS OneVote PendingIsOwed RecomputeFollows
    CeilingNeedsApproval TimelineOfTheLast TimelineCaughtUp
PROPERTIES LedgerSpec Settles NobodyWaitsForever ProjectSettles
CHECK_DEADLOCK FALSE
