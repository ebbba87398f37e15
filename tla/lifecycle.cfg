SPECIFICATION Spec
CONSTANTS
    issue = issue  pause = pause  resume = resume  cancel = cancel  retire = retire
    auto = auto  w1 = w1  w2 = w2
    Ops = {issue, resume, cancel, auto}
    AutoRetire = auto
    Kind <- MCKind
    Runs = {w1, w2}
    Allocation = 1
    Fee = 1
    Deposit = 3
    MaxFaults = 1
SYMMETRY MCSymmetry
INVARIANTS
    WritesAreSerial
PROPERTIES
    NeverRevived
    RetirementEmpties
    OutcomeIsFinal
CHECK_DEADLOCK FALSE
