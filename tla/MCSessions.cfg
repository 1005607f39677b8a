CONSTANTS
    c1 = c1
    c2 = c2
    Calls = {c1, c2}
    NSessions = 3
    NLinks = 1
    MaxFailures = 2
    MaxCalls = 5
    MaxFaults = 1
SPECIFICATION Spec
INVARIANTS NoLineOutlives BarredStaysOut NoFalseAlarm ChainHolds UsedIsBurnt LockWasEarned
SYMMETRY Symmetry
CHECK_DEADLOCK FALSE
