SPECIFICATION Spec
CONSTANTS
    Nobody = Nobody
    LoopRoutine = LoopRoutine
    Main = main
    HTTPCallers = {h1}
    Monitors = {m1}
    Callers = {main, h1, m1}
    MaxRequests = 2
    MaxFaults = 2
    MaxHeals = 2
    MayShutdown = FALSE
    MayPreempt = FALSE
    MayExitCleanly = FALSE
    MaySignalLate = TRUE
CHECK_DEADLOCK FALSE
PROPERTIES RefinesLoopStatus
