SPECIFICATION Spec
CONSTANTS
    n1 = n1
    n2 = n2
    get1 = get1
    get1b = get1b
    set1 = set1
    set1b = set1b
    bad2 = bad2
    exec1 = exec1
    refusal = refusal
    Initial = Initial
    Good = Good
    Bad = Bad
    Unserved = Unserved
    MaxBatch = 2
    Unencodable <- OrderUnencodable
    Nodes <- AllNodes
    Commands <- OrderCommands
    KindOf <- OrderKindOf
    NodeOf <- OrderNodeOf
INVARIANTS
    TypeOK
    ArrivalOrder
    RunsAreUniform
    ReadsFollowArrivalOrder
\* After Complete or a cancelled token the reader stops for good.
CHECK_DEADLOCK FALSE
