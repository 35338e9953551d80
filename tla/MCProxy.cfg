SPECIFICATION FairSpec
CONSTANTS
    None = None
    Counts <- OneReconnection
    Top = 1
    MaxWire = 1
    MaxLate = 1
    MaxTroubles = 3
INVARIANTS
    ToldTheTruth
    AskedTheServiceThatRuns
    BoundUnlessOverlapped
PROPERTIES
    StatusSettles
\* A service that is down need not come back, and a handler may get stuck.
CHECK_DEADLOCK FALSE
