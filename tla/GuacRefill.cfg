SPECIFICATION SpecFilled
CONSTANTS
    Fills <- One
    Payments <- None
    Withdrawals <- None
    MaxOps <- ThreeZero
    Faults <- None
    FilledBal <- TwoTwo
INVARIANT
    ReDrawNotRefused
CHECK_DEADLOCK FALSE
