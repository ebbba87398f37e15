SPECIFICATION FairSpec
CONSTANTS
    Ops = {o1}
    Procs = {p1, p2}
    Kinds = {"Completed", "Failed"}
    Amount <- MCAmount
    Quote = 1
    ActualFees = {1}
    Deposit = 3
    MaxFaults = 1
PROPERTIES
    OutcomeIsBooked
    ReservationEnds
CHECK_DEADLOCK FALSE
