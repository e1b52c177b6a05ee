SPECIFICATION FairSpec
CONSTANTS
    Calls = {c1, c2, c3}
    Faults <- FaultKinds
INVARIANTS
    TypeOK
    NextInLine
    IInv
PROPERTIES
    ImplementsApi
    WaitEnds
CHECK_DEADLOCK FALSE
