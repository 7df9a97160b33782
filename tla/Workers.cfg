CONSTANTS
    i1 = i1
    i2 = i2
    None = None
    Instances = {i1, i2}
    Incidents = {"crash", "shutdown", "stall", "slow", "error", "init", "byhand", "trigger"}
    MaxIncidents = 2
    MaxChanges = 3
SPECIFICATION FairSpec
CHECK_DEADLOCK FALSE
INVARIANTS
    TypeOK
    CyclesExclusive
    WorkersExclusive
PROPERTIES
    LostOwnerStops
    StoppedAgentRests
    ActiveAgentRuns
