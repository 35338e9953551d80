SPECIFICATION FairSpec
CONSTANTS
    t1 = t1
    t2 = t2
    Task = Task
    Nobody = Nobody
    Threads <- TwoThreads
    MaxUnflushed = 1
    LinesPerFile = 2
    MaxCalls = 4
    MaxFaults = 1
INVARIANTS
    TypeOK
    QueueBounded
    NothingLostInside
    StopWritesAll
    WaitsForAFlush
PROPERTIES
    FlushDrains
    CallsEnd
    EverythingWritten
\* Callers are bounded, and a caller that waits for a flush keeps the task out.
CHECK_DEADLOCK FALSE
