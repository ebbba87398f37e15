SPECIFICATION Spec
CONSTANTS
    issue = issue  pause = pause  resume = resume  cancel = cancel  retire = retire
    auto = auto  w1 = w1  w2 = w2
    Ops = {issue, auto}
    AutoRetire = auto
    Kind <- MCKind
    Runs = {w1, w2}
    Allocation = 1
    Fee = 1
    Deposit = 2
    MaxFaults = 1
INVARIANT RetiredIsEmpty
CHECK_DEADLOCK FALSE
