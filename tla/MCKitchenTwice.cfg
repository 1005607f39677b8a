CONSTANTS
    c1 = c1
    c2 = c2
    Calls = {c1}
    NRows = 1
    NListings = 1
    MaxAmount = 2
    MaxTotal = 4
    MaxCalls = 5
    MaxFaults = 0
SPECIFICATION Spec
INVARIANT NeverDoubleCounts
CHECK_DEADLOCK FALSE
