SPECIFICATION Spec
CONSTANTS
    Ops = {o1}
    Procs = {p1, p2}
    Kinds = {"Completed"}
    Amount <- MCAmount
    Quote = 1
    ActualFees = {1}
    Deposit = 3
    MaxFaults = 1
INVARIANTS
    OutcomeIsReported
CHECK_DEADLOCK FALSE
