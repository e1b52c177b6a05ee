SPECIFICATION FairSpecEither
CONSTANTS
    Fills <- One
    Payments <- One
    Withdrawals <- One
    MaxOps <- TwoTwoOps
    Faults <- FaultKinds
    FilledBal <- TwoTwo
INVARIANTS
    IInv
    CreditInv
    TakenInv
    SameMoney
PROPERTIES
    ImplementsSettlement
    AskedKeepsShare
    GuardReleased
CHECK_DEADLOCK FALSE
