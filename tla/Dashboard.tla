------------------------------ MODULE Dashboard -----------------------------
(* The dashboard: its state and its event streams, what it makes of the      *)
(* answers of the engine, its operations on the VPN, its files, and who may  *)
(* use it; and the control server of the engine, which it calls. As in       *)
(* Services, a behaviour is one of these alone: they meet only in handlers,  *)
(* which call them one after the other.                                      *)
EXTENDS Naturals

CONSTANTS
    Poller, Handlers, Streams, ChannelSize, Refreshes, MaxOperations,
    Engines, WatchRefreshes, WatchChanges, Counters,
    Requests, Countries, Cities, RequestFaults,
    Seeds, Added, Versions, MaxEvents, FileChanges, Crashes, FileFaults,
    Capacity, Rate, CleanupAfter, Duration, Clients, Tokens, MaxTime, MaxAllowed,
    Servings, RoleFiles, DefaultRoles, Secrets, MaxServed

VARIABLES
    part,                               \* the part of this behaviour
    dash, watch, ops, disk, access, ctl \* the state of each

vars == <<part, dash, watch, ops, disk, access, ctl>>

Streaming == INSTANCE SnapshotStreams
Watch == INSTANCE EngineWatch WITH Refreshes <- WatchRefreshes, Changes <- WatchChanges
VPN == INSTANCE VPNOperations WITH Faults <- RequestFaults
Stores == INSTANCE DashboardStores WITH Changes <- FileChanges, Faults <- FileFaults
Access == INSTANCE DashboardAccess WITH Handlers <- Clients
Control == INSTANCE ControlServer

ASSUME DashboardAssumption ==
    /\ Streaming!StreamsConstants /\ Watch!WatchConstants /\ VPN!OperationsConstants
    /\ Stores!StoresConstants /\ Access!AccessConstants /\ Control!ControlServerConstants
-----------------------------------------------------------------------------
(* The parts that do not take part rest in one of their initial states.      *)
Resting ==
    /\ part # "watch" => watch.engine = CHOOSE e \in Engines : TRUE
    /\ part # "operations" => ~ops.engine.running /\ ops.engine.selection = VPN!NoFilter
    /\ part # "stores" => disk.file = disk.profiles
    /\ part # "control" => ctl = Control!Started({}, CHOOSE d \in DefaultRoles : d.auth = "", "openvpn")

Init ==
    /\ part \in {"streams", "watch", "operations", "stores", "access", "control"}
    /\ Streaming!Init /\ Watch!Init /\ VPN!Init /\ Stores!Init /\ Access!Init /\ Control!Init
    /\ Resting

StreamsNext == part = "streams" /\ Streaming!Next /\ UNCHANGED <<part, watch, ops, disk, access, ctl>>
WatchNext == part = "watch" /\ Watch!Next /\ UNCHANGED <<part, dash, ops, disk, access, ctl>>
OperationsNext == part = "operations" /\ VPN!Next /\ UNCHANGED <<part, dash, watch, disk, access, ctl>>
StoresNext == part = "stores" /\ Stores!Next /\ UNCHANGED <<part, dash, watch, ops, access, ctl>>
AccessNext == part = "access" /\ Access!Next /\ UNCHANGED <<part, dash, watch, ops, disk, ctl>>
ControlNext == part = "control" /\ Control!Next /\ UNCHANGED <<part, dash, watch, ops, disk, access>>

Next == StreamsNext \/ WatchNext \/ OperationsNext \/ StoresNext \/ AccessNext \/ ControlNext

Spec == Init /\ [][Next]_vars
-----------------------------------------------------------------------------
(* Every part is in a state of its type.                                     *)
TypeOK ==
    /\ Streaming!TypeOK /\ Watch!TypeOK /\ VPN!TypeOK /\ Stores!TypeOK /\ Access!TypeOK
    /\ Control!TypeOK

(* The properties of the parts are stated, in words and as formulas, in      *)
(* their modules.                                                            *)

(* state: refreshes reach the streams in their order, and once all is quiet  *)
(* what was sent last does not show an operation that is over.               *)
StreamsEndUpRight == Streaming!RefreshesInOrder /\ Streaming!LastSentTellsIdle

(* state, api: one operation on the VPN at a time, and the engine is as the  *)
(* last client that was told of a success knows it.                          *)
LastOperationWins == Streaming!OneOperation /\ VPN!OneOperation /\ VPN!LastOperationWins

(* state: connections are counted once, the changes of address and of port   *)
(* make one story, and no traffic is shown that did not flow.                *)
EngineIsToldRight ==
    Watch!ConnectionsAreCountedOnce /\ Watch!HistoryIsAChain /\ Watch!NoPhantomTraffic

(* profiles, history: what a client was told is done survives crashes, and a *)
(* crash costs the newest events only.                                       *)
AcknowledgedIsSaved == Stores!AcknowledgedIsSaved /\ Stores!HistoryLosesTheNewest

(* auth, server: the rate holds in every window of time, a request is served *)
(* only with a session that lived when it came; at the control server the    *)
(* roles decide, every route is served, and restarts end with loops that run.*)
AccessIsLimited ==
    /\ Access!RateIsBounded /\ Access!ServedSessionsAreLive
    /\ Control!RolesDecide /\ Control!RoutesAreServed /\ Control!RestartsEndRunning
=============================================================================
