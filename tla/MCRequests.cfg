CONSTANTS
    rice = rice
    ofada = ofada
    salt = salt
    egg = egg
    owner = owner
    colleague = colleague
    spoken = spoken
    typed = typed
    note = note
    c1 = c1
    c2 = c2
    j1 = j1
    j2 = j2
    j3 = j3
    NoMeal = NoMeal
    Meals = {1, 2, 3}
    Recipes <- MCRecipes
    Things = {rice, ofada, salt, egg}
    Staples = {rice, ofada}
    Pantry = {salt}
    SwapGroups = {{rice, ofada}}
    Requests <- MCRequestsMade
    Skies <- MCSkies
    Tuning <- MCTuning
    Parts = 4
    PoolSize = 3
    ForModel = 2
    Owner = owner
    Colleagues = {colleague}
    NInvites = 3
    Calls = {c1, c2}
    MaxCalls = 7
    MaxDeaths = 1
    NSessions = 2
    NTokens = 4
    MaxChanges = 4
    Spoken = {spoken}
    Typed = {typed}
    FollowUps = {}
    Notes = {note}
    MaxAttempts = 2
    Limit = 1
    MaxAskFaults = 2
    Names = {rice, egg}
    Questions = {1}
    MaxTools = 2
    MaxMoves = 1
    MaxChatFaults = 1
    Jobs = {j1, j2, j3}
    Resends = {"again"}
    Gap = 2
    Days = 2
    MaxSwitches = 1
    MaxMailFaults = 1
SPECIFICATION ExchangesSpec
INVARIANTS LastDecisionStands NotesCarried EndedJobsLeaveNothing ShutStaysShut
INVARIANTS UsesWhatTheyHave OverrunsAlone ReceiptsHonest CapHolds
SYMMETRY Symmetry
CHECK_DEADLOCK FALSE
