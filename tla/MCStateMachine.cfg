SPECIFICATION Spec
CONSTANTS
    States <- MCStates
    InitialState = "Initial"
    Path <- MCPath
    First <- MCFirst
    Triggers <- MCTriggers
    MoveToState = "MoveToState"
    Declared <- Plain
    None = None
    MaxFires = 6
    MaxNested = 1
    MaxFaults = 1
INVARIANTS
    TypeOK
    SeesItsTrigger
    DestinationKept
    RestsInLeaf
    ReportedIsState
\* Triggers are bounded.
CHECK_DEADLOCK FALSE
