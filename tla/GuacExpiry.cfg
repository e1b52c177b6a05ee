SPECIFICATION FairSpecReported
CONSTANTS
    Fills <- One
    Payments <- None
    Withdrawals <- None
    MaxOps <- OneZero
    Faults <- TimeoutsOnly
    FilledBal <- TwoTwo
PROPERTY
    OtherCreatingEnds
CHECK_DEADLOCK FALSE
