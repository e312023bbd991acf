SPECIFICATION Spec
CONSTANTS
    Nobody = Nobody
    LoopRoutine = LoopRoutine
    Main = main
    HTTPCallers = {h1}
    Monitors = {m1}
    Callers = {main, h1, m1}
    MaxRequests = 2
    MaxFaults = 2
    MaxHeals = 1
    MayShutdown = TRUE
    MayPreempt = TRUE
    MayExitCleanly = FALSE
    MaySignalLate = TRUE
CHECK_DEADLOCK FALSE
INVARIANTS TypeOK StoppedMeansDown TransientIsOwned FreshOutcome
PROPERTIES OneConnection StaysStopped
