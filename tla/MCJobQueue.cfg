SPECIFICATION Spec
CONSTANTS
    NJobs = 2
    Owned <- MCOwned
    Operated <- MCOperated
    MaxAttempts <- MCMaxAttempts
    Concurrency = 1
    Ticks <- MCTicks
    Slots <- MCSlots
    Requests <- MCOneRequest
    MaxRestarts = 1
    MaxErrors = 1
    MaxUserOps = 1
    t1 = t1
    t2 = t2
    s1 = s1
    s2 = s2
    s3 = s3
    r1 = r1
    r2 = r2
SYMMETRY Symmetric
INVARIANT OneStartPerProcess
INVARIANT Recoverable
INVARIANT CancelWins
PROPERTY ImplementsLifecycle
