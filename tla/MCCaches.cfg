CONSTANTS
    c1 = c1
    c2 = c2
    p1 = p1
    Jobs = {1, 2, 3, 4, 5}
    MaxCrashes = 2
    MaxThrows = 1
    NKeys = 1
    Places = {p1}
    PlaceOf <- MCPlaceOf
    Cooks = {c1, c2}
    NFlights = 2
    MaxAsks = 3
    MaxFetches = 1
    MaxAnswers = 2
    MaxFaults = 1
    FailClosed = TRUE
    Readers = {c1, c2}
    FlagsTTL = 3
    FlagsMaxRead = 2
    FlagsMaxTime = 8
    MaxSwitches = 2
    TuningTTL = 3
    TuningMaxRead = 2
    TuningMaxTime = 9
    MaxTunings = 2
    Processes = {c1, c2}
    Sends = {1, 2}
    ProviderTTL = 1
    ProviderMaxTime = 2
    MaxChoices = 1
    WeekJobs = {1, 2}
    MaxWeeks = 2
    MaxRefusals = 1
    Vendors <- MCRestaurants
    MaxVendors = 3
    DayLength = 8
    NDays = 2
    Unknown = 100
    Dishes = {"jollof", "egusi"}
    NRecipes = 2
    Calls = {c1, c2}
    MaxCalls = 4
    MaxLapses = 1
SPECIFICATION CachesSpec
INVARIANTS ChainAlive CachesCatchUp RowIsRight TrailAccounts
PROPERTIES NeverOlder CooksAnswered ReadingCatchesUp
CHECK_DEADLOCK FALSE
