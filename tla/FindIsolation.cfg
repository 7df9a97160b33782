CONSTANTS
    a1 = a1
    a2 = a2
    a3 = a3
    s1 = s1
    r1 = r1
    r2 = r2
    c1 = c1
    c2 = c2
    None = None
    Recon = Recon
    Agents = {a1, a2}
    Symbols = {s1}
    Rows = {r1, r2}
    Cycles = {c1, c2}
    Accumulators = {a1, a2}
    Capital <- TwoUnits
    MaxOpens = 2
    Overlap = FALSE
    Reconciling = FALSE
    Faults = {}
    Estimates = {2}
SPECIFICATION Spec
PROPERTIES
    CloseSparesOtherAgents
