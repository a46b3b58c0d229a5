SPECIFICATION Spec
CONSTANTS
    c1 = c1
    c2 = c2
    Callers <- OneCaller
    Hosts = {TRUE, FALSE}
    Overlaps = FALSE
    MaxEpoch = 1
    MaxCalls = 3
    MaxQueued = 1
    MaxWork = 1
    MaxSnapshots = 2
    MaxFaults = 1
    MaxPurges = 1
CHECK_DEADLOCK FALSE
INVARIANT LatestBackupExists
INVARIANT PurgedLeavesNothing
INVARIANT WaitersAreServed
PROPERTY IdleStopKeepsWork
PROPERTY WakeOpensRestored
PROPERTY WorkspaceIsDurable
