SPECIFICATION Spec
CONSTANTS
    c1 = c1
    r1 = r1
    r1b = r1b
    x = x
    y = y
    p1 = p1
    p2 = p2
    Absent = Absent
    Clients <- OneClient
    Items <- TwoItems
    IntervalOf <- Interval
    Replies <- OneReply
    ReplyOwner <- OwnerOfOne
    BaseOf <- SameBase
    Rank <- XBeforeY
    Params <- OneParam
    Catalogs <- LosingY
    MaxSends = 2
    MaxSessions = 2
    MaxRestarts = 1
    MaxFaults = 0
    MaxClock = 0
    MaxNotices = 0
    MaxQueue = 1
PROPERTIES
    UnlistedDeleteFinds
CHECK_DEADLOCK FALSE
