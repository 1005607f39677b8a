CONSTANTS
    k1 = k1
    k2 = k2
    Keys <- MCKeys
    Capacity = 2
    Window = 3
    Idle = 3
    Hour = 2
    Threshold = 2
    MaxTracked = 1
    MaxTime = 6
    MaxRequests = 6
SPECIFICATION Spec
INVARIANTS WithinRate HeadersHonest
CHECK_DEADLOCK FALSE
