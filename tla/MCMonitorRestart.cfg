SPECIFICATION FairSpec
CONSTANTS
    c1 = c1
    r1 = r1
    r1b = r1b
    x = x
    y = y
    p1 = p1
    p2 = p2
    Absent = Absent
    Clients <- OneClient
    Items <- OneItem
    IntervalOf <- Interval
    Replies <- OneReply
    ReplyOwner <- OwnerOfOne
    BaseOf <- OneBase
    Rank <- RankOfOne
    Params <- OneParam
    Catalogs <- OneCatalog
    MaxSends = 2
    MaxSessions = 2
    MaxRestarts = 1
    MaxFaults = 1
    MaxClock = 0
    MaxNotices = 0
    MaxQueue = 1
INVARIANTS
    PromisesAreDurable
PROPERTIES
    PendingIsApplied
    GoneIsSuspended
\* The session loop, the clients and the timers are bounded.
CHECK_DEADLOCK FALSE
