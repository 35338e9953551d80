SPECIFICATION Spec
CONSTANTS
    States <- MCStates
    InitialState = "Initial"
    Path <- MCPath
    First <- MCFirst
    Triggers <- MCTriggers
    MoveToState = "MoveToState"
    Declared <- Direct
    None = None
    MaxFires = 4
    MaxNested = 0
    MaxFaults = 0
INVARIANTS
    DestinationKept
\* Triggers are bounded.
CHECK_DEADLOCK FALSE
