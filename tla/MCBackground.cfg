CONSTANTS
    c1 = c1
    c2 = c2
    p1 = p1
    p2 = p2
    Calls = {c1, c2}
    Cap = 2
    PerMinute = 2
    Threshold = 2
    NDays = 2
    MaxCalls = 4
    MaxFaults = 1
    Places = {p1, p2}
    NameOf <- MCNameOf
    NSeeds = 2
    Searches = {c1, c2}
    MaxImports = 2
    MaxEdits = 1
    MaxPlaceFaults = 1
    Streams = {c1, c2}
    Workers = 2
    MaxClaims = 3
    MaxAsks = 2
    MaxStreamFaults = 1
    MaxRead = 2
    Lifetime = 5
    MaxTime = 6
    MaxSettles = 2
    MaxRuns = 3
    Requests = {c1, c2}
    MaxRetries = 1
    MaxCrashes = 1
    MaxImages = 3
    MaxRecipeImages = 2
    Savers = {c1, c2}
    MaxSaves = 6
SPECIFICATION BackgroundSpec
INVARIANTS DailyCap BreakerHolds OneAutoImport
INVARIANTS NobodyWaitsInVain AppliedOnce PrimaryStands
SYMMETRY Symmetry
CHECK_DEADLOCK FALSE
