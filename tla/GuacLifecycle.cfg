SPECIFICATION SpecEither
CONSTANTS
    Fills <- OneTwo
    Payments <- One
    Withdrawals <- One
    MaxOps <- ThreeTwo
    Faults <- FaultKinds
    FilledBal <- TwoTwo
INVARIANTS
    TypeOK
    CreatingAgreed
    ReDrawAgreed
    SettlementsValid
    FundsBacked
    OwnShareLeast
    CreditBounded
PROPERTY
    OwnBalanceKept
CHECK_DEADLOCK FALSE
