SPECIFICATION FairSpec
CONSTANTS
    Ups = {u1, u2, u3}
    Initially = initially
    RestartVPN = TRUE
    MaxSignals = 1
    MaxFaults = 1
    MaxRequests = 1
    CleanupOverlaps = TRUE
CHECK_DEADLOCK FALSE
INVARIANTS TypeOK  
PROPERTIES EndedConnectionsLetGo
