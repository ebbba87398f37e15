SPECIFICATION SetupSpec
CONSTANTS
    Requests = {r1, r2}
    MaxIdentities = 1
    MaxFaults = 0
INVARIANT ReadyWhenComplete
CHECK_DEADLOCK FALSE
