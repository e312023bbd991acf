SPECIFICATION FairSpec
CONSTANTS
    Internals = {1, 2}
    Externals = {1, 3}
    UserPorts = {4}
    MaxUpdates = 3
    MaxSets = 2
    MaxFaults = 2
CHECK_DEADLOCK FALSE
INVARIANTS TypeOK  PortsFollowTheTunnel
PROPERTIES CallsReturnOrWedge
