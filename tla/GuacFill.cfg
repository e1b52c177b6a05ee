SPECIFICATION FairSpec
CONSTANTS
    Fills <- OneTwo
    Payments <- One
    Withdrawals <- One
    MaxOps <- FourZero
    Faults <- LateOnly
    FilledBal <- TwoTwo
PROPERTY
    FillOpens
CHECK_DEADLOCK FALSE
