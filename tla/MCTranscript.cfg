SPECIFICATION Spec
CONSTANTS
    MaxCreates = 2
    MaxMessages = 2
    MaxEpoch = 2
    MaxChain = 2
    MaxStops = 1
    MaxFaults = 1
CHECK_DEADLOCK FALSE
INVARIANT IdleExportIsComplete
INVARIANT NoticedIsRemembered
PROPERTY MirrorNeverGoesBack
PROPERTY MirrorCatchesUp
