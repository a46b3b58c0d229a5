SPECIFICATION QueueSpec
CONSTANTS
    s1 = s1
    s2 = s2
    Sessions <- TwoSessions
    Prompted <- NoSession
    Initialized <- TwoSessions
    Sweeps = FALSE
    RequestsFail = FALSE
    MaxOps = 2
    MaxHubCrashes = 0
CHECK_DEADLOCK FALSE
PROPERTY DeletionsAttempted
