SPECIFICATION FairSpec
CONSTANTS
    issue = issue  pause = pause  resume = resume  cancel = cancel  retire = retire
    auto = auto  w1 = w1  w2 = w2
    Ops = {issue, resume, cancel, auto}
    AutoRetire = auto
    Kind <- MCKind
    Runs = {w1}
    Allocation = 1
    Fee = 0
    Deposit = 1
    MaxFaults = 1
PROPERTIES
    RetirementEnds
    RevivalIsUndone
CHECK_DEADLOCK FALSE
