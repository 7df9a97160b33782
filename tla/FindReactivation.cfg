CONSTANTS
    i1 = i1
    i2 = i2
    None = None
    Instances = {i1, i2}
    Incidents = {}
    MaxIncidents = 0
    MaxChanges = 3
SPECIFICATION FairSpec
CHECK_DEADLOCK FALSE
PROPERTIES
    OrphansArePickedUp
