SPECIFICATION SpecPaid
CONSTANTS
    Fills <- None
    Payments <- OneTwo
    Withdrawals <- None
    MaxOps <- ThreeThree
    Faults <- None
    FilledBal <- TwoTwo
INVARIANTS
    PaidExactly
    CopiesAgree
    PaymentsInv
CHECK_DEADLOCK FALSE
