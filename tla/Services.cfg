SPECIFICATION Spec
CONSTANTS
    Callers = {h1, u1}
    Nobody = Nobody
    LoopRoutine = LoopRoutine
    UpdaterCallers = {c1, c2}
    UpdaterRequests = 2
    UpdaterFaults = 2
    UpdaterPeriods = 1
    DNSConnections = {u1}
    DNSRequests = 2
    DNSFaults = 1
    DNSPeriods = 1
    HTTPRequests = 3
    HTTPFaults = 2
    SSStarter = s0
    SSCallers = {c1, c2}
    SSRequests = 3
    SSFaults = 2
    Runners = {r1}
    Updaters = {w1}
    IPs = {i1, i2}
    Paths = {p1, p2}
    Unset = Unset
    IPRequests = 3
    IPFaults = 1
    Addresses = 2
    SmallTries = 2
    FullTries = 2
    DNSServers = 2
    Connections = 3
    Slow = {0, 5}
INVARIANTS
    TypeOK StoppedMeansDown OneAtATime BlockedOnlyIfWedged 
    PanicsOnlyAfterStop WhatIsShownIsTrue 
CHECK_DEADLOCK FALSE
