CONSTANTS
    Poller = Poller
    Handlers = {h1, h2}
    Streams = {s1}
    ChannelSize = 2
    Refreshes = 3
    MaxOperations = 2
    Engines <- MCEngines
    WatchRefreshes = 4
    WatchChanges = 2
    Counters = 1
    Requests = {r1, r2, r3}
    Countries = {ch}
    Cities = {}
    RequestFaults = 2
    Seeds = {p1}
    Added = {p2}
    Versions = {v1, v2}
    MaxEvents = 2
    FileChanges = 4
    Crashes = 2
    FileFaults = 2
    Capacity = 2
    Rate = 1
    CleanupAfter = 2
    Duration = 2
    Clients = {c1, c2}
    Tokens = {t1, t2}
    MaxTime = 4
    MaxAllowed = 4
    Servings = {q1, q2}
    RoleFiles <- MCRoleFiles
    DefaultRoles <- MCDefaultRoles
    Secrets <- MCSecrets
    MaxServed = 2
SPECIFICATION Spec
INVARIANTS
     LastOperationWins 
     AccessIsLimited
CHECK_DEADLOCK FALSE
