SPECIFICATION Spec
CONSTANTS
    IdleTimeout = 1
    BusyInterval = 1
    IdleInterval = 1
    ConfirmInterval = 1
    RecoveryInterval = 1
    MaxBackoff = 1
    FailureWindow = 1
    LeaseTtls <- MCLeaseTtls
    SnapshotLag = 1
    UncalledRpcs = FALSE
    Resurrects = TRUE
    PromptMirror = TRUE
    MaxTime = 4
    MaxFresh = 6
    MaxRevision = 5
    MaxLeases = 1
    FailureCap = 1
CHECK_DEADLOCK FALSE
INVARIANT AlarmArmed
PROPERTY AdmissionOpensOnAnswer
