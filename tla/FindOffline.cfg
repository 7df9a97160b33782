CONSTANTS
    Accounts = {a}
    Providers = {}
    Models = {}
    Requests = {r}
    None = None
    Presets = {}
    MaxServed = 3
SPECIFICATION Spec
CHECK_DEADLOCK FALSE
PROPERTIES
    FailureShows
