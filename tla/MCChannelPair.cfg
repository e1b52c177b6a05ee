SPECIFICATION Spec
CONSTANTS
    InitBal <- MCInitBal
    Amounts <- MCAmounts
    MaxSeq = 4
INVARIANTS
    TypeOK
    BalanceLiveness
    NeverRefused
    AccrualBounded
    UniqueUpdate
    IInv
PROPERTY
    SeqMonotonic
