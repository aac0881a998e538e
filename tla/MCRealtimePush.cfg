CONSTANTS
    Processes = {a1}
    Sockets = {s1, s2}
    NoSocket = NoSocket
    MaxChanges = 2
    MaxMissed = 2
    MaxFaults = 1
    Calls = {q1, q2}
    Pairs = {p1, p2, p3, p4}
    NoPair = NoPair
    MaxFailures = 1
    MaxLapses = 1
    Nobody = Nobody
    Unscored = Unscored
    RecentLimit = 1
    TimelineLimit = 1
SPECIFICATION PageSpec
INVARIANT NoSocketLeaks
PROPERTIES SubscriptionHolds CatchesUp CallsEnd DeadSessionEnds
CHECK_DEADLOCK FALSE
