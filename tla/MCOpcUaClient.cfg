SPECIFICATION FairSpec
CONSTANTS
    t1 = t1
    t2 = t2
    None = None
    Callers <- TwoCallers
    StoreBuffers = TRUE
    MaxConnects = 2
    MaxOpens = 2
    MaxBreaks = 1
INVARIANTS
    TypeOK
    NoneLost
    EndsWithMain
PROPERTIES
    CallsNotCut
    AlarmKept
    CallsEndWithMain
\* The loop ends with the process.
CHECK_DEADLOCK FALSE
