SPECIFICATION FairSpec
CONSTANTS
    t1 = t1
    t2 = t2
    Task = Task
    Nobody = Nobody
    Threads <- TwoThreads
    MaxUnflushed = 1
    LinesPerFile = 2
    MaxCalls = 3
    MaxFaults = 0
PROPERTIES
    CallsReturn
CHECK_DEADLOCK FALSE
