SPECIFICATION Spec
CONSTANTS
    c1 = c1
    r1 = r1
    r1b = r1b
    x = x
    y = y
    p1 = p1
    p2 = p2
    Absent = Absent
    Clients <- OneClient
    Items <- OneItem
    IntervalOf <- Interval
    Replies <- Restarted
    ReplyOwner <- OwnerOfAll
    BaseOf <- OneBase
    Rank <- RankOfOne
    Params <- TwoParams
    Catalogs <- AnyCatalog
    MaxSends = 2
    MaxSessions = 2
    MaxRestarts = 0
    MaxFaults = 0
    MaxClock = 1
    MaxNotices = 1
    MaxQueue = 1
SYMMETRY Alike
INVARIANTS
    TypeOK
    ActiveIsMonitored
    NothingMonitoredUnasked
    SuspendedOnlyIfGone
\* The session loop, the clients and the timers are bounded.
CHECK_DEADLOCK FALSE
