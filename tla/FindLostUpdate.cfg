CONSTANTS
    u1 = u1
    o1 = o1
    o2 = o2
    s1 = s1
    s2 = s2
    None = None
    Users = {u1}
    Orders = {o1}
    Sessions = {s1, s2}
    Amounts = {1}
    Kinds = {"gift"}
    Concurrent = TRUE
    Crashes = FALSE
    MaxRequests = 3
SPECIFICATION Spec
CHECK_DEADLOCK FALSE
INVARIANTS
    BalanceMatchesTransactions
