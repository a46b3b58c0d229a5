SPECIFICATION Spec
CONSTANTS
    c1 = c1
    c2 = c2
    Callers <- OneCaller
    Hosts = {TRUE}
    Overlaps = TRUE
    MaxEpoch = 2
    MaxCalls = 3
    MaxQueued = 1
    MaxWork = 1
    MaxSnapshots = 2
    MaxFaults = 1
    MaxPurges = 0
CHECK_DEADLOCK FALSE
PROPERTY MarkerMeansRestored
