SPECIFICATION Spec
CONSTANTS
    Ops = {o1}
    Procs = {p1, p2}
    Kinds = {"Processing", "Completed", "Failed", "Reversed"}
    Amount <- MCAmount
    Quote = 1
    ActualFees = {0, 2}
    Deposit = 3
    MaxFaults = 1
SYMMETRY MCSymmetry
INVARIANTS
    OneTransferPerOperation
    MoneyIsConserved
PROPERTIES
    ImplementsPayout
CHECK_DEADLOCK FALSE
