SPECIFICATION SpecPaid
CONSTANTS
    Fills <- None
    Payments <- One
    Withdrawals <- None
    MaxOps <- OneZero
    Faults <- TimeoutsOnly
    FilledBal <- TwoTwo
INVARIANT
    BalanceLiveness
CHECK_DEADLOCK FALSE
