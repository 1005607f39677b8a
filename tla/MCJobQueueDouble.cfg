SPECIFICATION Spec
CONSTANTS
    NJobs = 1
    Owned <- MCOwned
    Operated <- Nobodys
    MaxAttempts <- MCMaxAttempts
    Concurrency = 2
    Ticks <- MCTicks
    Slots <- MCSlots
    Requests <- MCOneRequest
    MaxRestarts = 0
    MaxErrors = 0
    MaxUserOps = 2
    t1 = t1
    t2 = t2
    s1 = s1
    s2 = s2
    s3 = s3
    r1 = r1
    r2 = r2
SYMMETRY Symmetric
INVARIANT OneHandlerPerJob
