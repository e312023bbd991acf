SPECIFICATION FairSpec
CONSTANTS
    Nobody = Nobody
    LoopRoutine = LoopRoutine
    Main = main
    HTTPCallers = {h1}
    Monitors = {m1}
    Callers = {main, h1, m1}
    MaxRequests = 1
    MaxFaults = 1
    MaxHeals = 1
    MayShutdown = TRUE
    MayPreempt = TRUE
    MayExitCleanly = TRUE
    MaySignalLate = TRUE
CHECK_DEADLOCK FALSE
PROPERTIES EveryCallReturnsOrWedges CrashRecovers
