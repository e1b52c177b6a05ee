SPECIFICATION SpecFilled
CONSTANTS
    Fills <- None
    Payments <- One
    Withdrawals <- None
    MaxOps <- OneOne
    Faults <- None
    FilledBal <- TwoTwo
INVARIANT
    PaidExactly
CHECK_DEADLOCK FALSE
