CONSTANTS
    c1 = c1
    c2 = c2
    Calls = {c1, c2}
    NRows = 2
    NListings = 2
    MaxAmount = 2
    MaxTotal = 3
    MaxCalls = 6
    MaxFaults = 1
SPECIFICATION Spec
INVARIANTS NothingUnexplained MovedOnce
SYMMETRY Symmetry
CHECK_DEADLOCK FALSE
