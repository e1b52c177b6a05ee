SPECIFICATION SpecCrossing
CONSTANTS
    Fills <- One
    Payments <- None
    Withdrawals <- None
    MaxOps <- OneOne
    Faults <- TimeoutsOnly
    FilledBal <- TwoTwo
INVARIANT
    OneProposalSucceeds
CHECK_DEADLOCK FALSE
