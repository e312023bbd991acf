CONSTANTS
    Connections = {"s1", "s2"}
    Tunnels = {"tun0"}
    Routes <- MCRoutes
    Device <- MCDevice
    Family <- MCFamily
    Subnets <- MCSubnets
    Ports = {1, 2}
    Exchanges = {"e1"}
    MaxFaults = 2
    OutboundFamily <- MCOutboundFamily
    RoutingFaults = 2
    RoutingRuns = 2
    DeviceRuns = 3
    StepFailures = 2
    Physical = 24
    MinMTU = 4
    Paths = {4, 9, 10, 17, 24}
    TCPHeaders = 2
    MSSs = {1, 7, 16, 22, 26}
    TCPServers = {t1, t2}
    ICMPServers = 2
    TestsLength = 4
    Margin = 8
    SafetyBuffer = 6
    MaxLost = 2
    Connections5 = 2
    Failures = 2
    Associations = {a1, a2, a3}
    Addresses5 = {"x", "y"}
    Ports5 = {1}
    QueueSize = 1
    Packets = 2
SPECIFICATION Spec
INVARIANTS TypeOK  NothingIsLeft MTUIsCarried
CHECK_DEADLOCK FALSE
