CONSTANTS
    c1 = c1
    c2 = c2
    Calls = {c1, c2}
    NSessions = 3
    NLinks = 1
    MaxFailures = 2
    MaxCalls = 4
    MaxFaults = 1
SPECIFICATION Spec
INVARIANT GoodOnce
SYMMETRY Symmetry
CHECK_DEADLOCK FALSE
