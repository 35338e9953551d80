SPECIFICATION FairSpec
CONSTANTS
    None = None
    MaxFaults = 1
    MaxQueue = 1
    MaxDue = 1
    MaxCalls = 2
INVARIANTS
    ClosedAfterStop
    EnabledIsPending
PROPERTIES
    HeartbeatsGoOn
    TransportIsALink
\* A stopped service does nothing more.
CHECK_DEADLOCK FALSE
