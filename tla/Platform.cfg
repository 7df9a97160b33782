CONSTANTS
    None = None
    Coroutines = {"u", "v"}
    Keys = {1, 2, 3}
    ExchangeOf <- SmallExchanges
    MaxPool = 1
    MaxClients = 3
    Connections = {"c", "d"}
    Viewers = {"u", "v"}
    Topics = {"strategy", "price"}
    Protected = {"strategy"}
    Owner <- SmallOwners
    MaxPerUser = 1
    MaxTotal = 2
    MaxEvents = 1
    Customers = {"u", "v", "w"}
    Codes = {"abc", "abcd"}
    Invitations = {"abcde"}
    Prefixes <- SmallPrefixes
    Newcomers = {"r", "s"}
    MaxRegistrations = 2
    MaxMembershipChanges = 2
    Accounts = {"a"}
    Agents = {"g"}
    MaxDay = 2
    MaxLevel = 2
    MaxMoves = 2
    Orders = {"o"}
    Callers = {"c", "d"}
    Size = 3
    MaxRestarts = 2
    Instances = {"i", "j"}
    LockTTL = 2
    CycleTimeout = 2
    Window = 4
    MaxErrors = 3
    Accidents = {"slow", "error", "init", "stall", "crash", "lost", "flat", "raise", "trigger"}
    MaxAccidents = 2
    MaxOrders = 2
    MaxChanges = 3
    Providers = {"p"}
    Models = {"m", "n"}
    Requests = {"r", "s"}
    Presets = {"m"}
    MaxServed = 4
    MaxTries = 2
    MaxRequests = 2
    MaxCrashes = 1
    Services = {"c", "d", "e"}
    Blocks = {"e"}
    FailMax = 2
    ResetTimeout = 2
    ExcludesTimeouts = FALSE
    MaxTurns = 3
    MaxResets = 1
SPECIFICATION Spec
CHECK_DEADLOCK FALSE
INVARIANTS
    ClientsAccounted
    TablesAgree
    ChannelsConsistent
    PeriodsAddUp
    EndIsFinal
    RowKnowsOrders
    SettingsKept
    QueueConsistent
    OutagesOpen
