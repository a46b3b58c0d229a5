SPECIFICATION Spec
CONSTANTS
    IdleTimeout = 1
    BusyInterval = 1
    IdleInterval = 1
    ConfirmInterval = 1
    RecoveryInterval = 1
    MaxBackoff = 1
    FailureWindow = 1
    LeaseTtls <- MCLeaseTtls
    SnapshotLag = 1
    UncalledRpcs = TRUE
    Resurrects = TRUE
    PromptMirror = FALSE
    MaxTime = 3
    MaxFresh = 4
    MaxRevision = 4
    MaxLeases = 1
    FailureCap = 1
CHECK_DEADLOCK FALSE
 
INVARIANT LeasesOnlyWhileAdmitting
INVARIANT IdleWindowAfterWork
PROPERTY IdleStopWaitsOutWindow
