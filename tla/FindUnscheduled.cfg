CONSTANTS
    None = None
    MaxTries = 2
    MaxRequests = 1
    MaxCrashes = 0
SPECIFICATION FairSpec
CHECK_DEADLOCK FALSE
PROPERTIES
    AgentRunsAgain
