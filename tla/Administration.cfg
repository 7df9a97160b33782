CONSTANTS
    Strategies = {s1, s2}
    Agents = {a1, a2}
    Accounts = {c1, c2}
    Symbols = {y1}
    Names = {n1, n2, n3}
    Configs = {k1, k2}
    None = None
    Keep = Keep
    Whole = 1
    MaxVersions = 2
    MaxRequests = 6
SYMMETRY AdminSymmetry
SPECIFICATION Spec
CHECK_DEADLOCK FALSE
INVARIANTS
    ConfigsRecoverable
    ActiveAgentsRunWhatTheyStarted
    ReferencesHold
