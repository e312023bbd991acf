SPECIFICATION FairSpec
CONSTANTS
    Nobody = Nobody
    LoopRoutine = LoopRoutine
    Main = main
    HTTPCallers = {h1}
    Monitors = {m1}
    Callers = {main, h1, m1}
    MaxRequests = 1
    MaxFaults = 1
    MaxHeals = 0
    MayShutdown = FALSE
    MayPreempt = FALSE
    MayExitCleanly = FALSE
    MaySignalLate = FALSE
CHECK_DEADLOCK FALSE
PROPERTIES CrashIsPublished
