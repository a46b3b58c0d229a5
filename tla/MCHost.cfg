SPECIFICATION MCSpec
CONSTANTS
    Sessions <- MCSessions
    Requests <- MCRequests
    Images <- MCImages
    PortTtl = 1
    MaxTime = 1
    MaxCalls = 4
    MaxProxied = 1
    MaxFaults = 2
    Exchanges <- MCExchanges
CHECK_DEADLOCK FALSE
INVARIANT RemovedStaysRemoved
INVARIANT OneServer
 
INVARIANT ClientUnderstands
PROPERTY EverythingIsAnswered
