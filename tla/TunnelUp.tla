------------------------------ MODULE TunnelUp ------------------------------
(***************************************************************************)
(* internal/vpn/tunnelup.go and cleanup.go: what is started when a tunnel  *)
(* is up and undone when its connection ends.                              *)
(*                                                                         *)
(* onTunnelUp runs in a goroutine of its own and hands over to a second    *)
(* one, collectHealthErrors, which watches the health checker.  Both may   *)
(* outlive their connection and meet those of the next.  The VPN loop and  *)
(* the DNS loop are reduced to what LoopStatus promises their callers.     *)
(***************************************************************************)
EXTENDS FiniteSets, Naturals

CONSTANTS
    Ups,                \* calls of onTunnelUp that may overlap
    Initially,          \* the closed channel NewLoop leaves in healthDone
    RestartVPN,         \* healthSettings.RestartVPN
    MaxSignals,         \* "Initialization Sequence Completed" per connection
    MaxFaults,          \* bound: crashes, failed setups, checks and fetches
    MaxRequests,        \* bound: stops and starts by the user
    CleanupOverlaps     \* a connection may end while its onTunnelUp is at work

ASSUME TunnelUpAssumption ==
    /\ IsFiniteSet(Ups) /\ Initially \notin Ups
    /\ {RestartVPN, CleanupOverlaps} \subseteq BOOLEAN
    /\ {MaxSignals, MaxFaults, MaxRequests} \subseteq Nat

VARIABLES
    loop,           \* the VPN loop: a stable status, or where it is in cleanup
    next,           \* the status after the cleanup under way
    signals,        \* times tunnelReady was signalled by this connection
    live,           \* calls whose vpnCtx is not cancelled
    up,             \* where each onTunnelUp is
    watch,          \* where each collectHealthErrors is
    healthDone,     \* l.healthDone: the call whose channel it is
    awaited,        \* the channel each onTunnelUp took from l.healthDone
    checking,       \* calls whose periodic health checks run
    stopper,        \* the call whose checks healthChecker.Stop stops
    targets,        \* the health checker has addresses to check
    dns,            \* status of the DNS loop
    portAllowed,    \* a VPN input port is open in the firewall
    ipData,         \* the public IP address is known
    forwarding,     \* the port forwarding loop has VPNIsUp = true
    faults, requests

vpn == <<loop, next, signals, live>>
health == <<healthDone, awaited, checking, stopper, targets>>
services == <<dns, portAllowed, ipData, forwarding>>
bounds == <<faults, requests>>
vars == <<vpn, up, watch, health, services, bounds>>

Cleaning == {"removePorts", "clearData", "stopForwarding", "cancel"}
Restarting == {"restartStop", "restartRun"}
UpPCs == {"idle", "ports", "dns", "dnsWait", "takeHealth", "awaitHealth", "start", "publicIP",
          "forward"} \union Restarting
WatchPCs == {"idle", "watch"} \union Restarting

TypeOK ==
    /\ loop \in {"stopped", "starting", "crashed", "running"} \union Cleaning
    /\ next \in {"stopped", "crashed"}
    /\ signals \in 0..MaxSignals
    /\ live \subseteq Ups /\ checking \subseteq Ups
    /\ up \in [Ups -> UpPCs] /\ watch \in [Ups -> WatchPCs]
    /\ {healthDone, stopper} \subseteq Ups \union {Initially}
    /\ awaited \in [Ups -> Ups \union {Initially}]
    /\ dns \in {"stopped", "starting", "running"}
    /\ {targets, portAllowed, ipData, forwarding} \subseteq BOOLEAN
    /\ faults \in 0..MaxFaults /\ requests \in 0..MaxRequests

Init ==
    /\ loop = "starting" /\ next = "stopped" /\ signals = 0
    /\ live = {} /\ checking = {}
    /\ up = [u \in Ups |-> "idle"] /\ watch = [u \in Ups |-> "idle"]
    /\ healthDone = Initially /\ awaited = [u \in Ups |-> Initially]
    /\ stopper = Initially /\ targets = FALSE
    /\ dns = "stopped"
    /\ portAllowed = FALSE /\ ipData = FALSE /\ forwarding = FALSE
    /\ faults = 0 /\ requests = 0

-----------------------------------------------------------------------------
(* The VPN loop.                                                           *)

Fault == faults < MaxFaults /\ faults' = faults + 1 /\ UNCHANGED requests
Request == requests < MaxRequests /\ requests' = requests + 1 /\ UNCHANGED faults

\* Mutant: the status to publish after the cleanup is not set.
CleanupKeepsStatus(status) ==
    /\ loop = "running" /\ status # loop
    /\ loop' = "removePorts" /\ next' = loop
    /\ UNCHANGED <<signals, live>>

\* The select of Run receives a stop or an error, and starts l.cleanup().
BeginCleanup(status) ==
    /\ loop = "running"
    /\ CleanupOverlaps \/ \A u \in Ups : up[u] = "idle" \/ up[u] \in Restarting
    /\ loop' = "removePorts" /\ next' = status
    /\ UNCHANGED <<signals, live>>

Crash ==
    /\ Fault
    /\ BeginCleanup("crashed")
    /\ UNCHANGED <<up, watch, health, services>>

\* A connection is set up and reported running.
Connect ==
    /\ loop \in {"starting", "crashed"}
    /\ loop' = "running" /\ signals' = 0
    /\ UNCHANGED <<next, live, up, watch, health, services, bounds>>

SetupFails ==
    /\ Fault
    /\ loop = "starting" /\ loop' = "crashed"
    /\ UNCHANGED <<next, signals, live, up, watch, health, services>>

\* case <-tunnelReady: go l.onTunnelUp(vpnCtx, ...)
TunnelReady(u) ==
    /\ loop = "running" /\ signals < MaxSignals
    /\ up[u] = "idle" /\ watch[u] = "idle"
    /\ u \notin {healthDone, stopper} \union checking \union {awaited[v] : v \in Ups}
    /\ up' = [up EXCEPT ![u] = "ports"]
    /\ live' = live \union {u}
    /\ signals' = signals + 1
    /\ UNCHANGED <<loop, next, watch, health, services, bounds>>

\* cleanup, one service after the other.
RemovePorts ==
    /\ loop = "removePorts" /\ loop' = "clearData"
    /\ portAllowed' = FALSE
    /\ UNCHANGED <<next, signals, live, up, watch, health, dns, ipData, forwarding, bounds>>

ClearData ==
    /\ loop = "clearData" /\ loop' = "stopForwarding"
    /\ ipData' = FALSE
    /\ UNCHANGED <<next, signals, live, up, watch, health, dns, portAllowed, forwarding, bounds>>

\* Mutant: port forwarding is left to itself.
ForgetForwarding ==
    /\ loop = "stopForwarding" /\ loop' = "cancel"
    /\ UNCHANGED <<next, signals, live, up, watch, health, services, bounds>>

StopForwarding ==
    /\ loop = "stopForwarding" /\ loop' = "cancel"
    /\ forwarding' = FALSE
    /\ UNCHANGED <<next, signals, live, up, watch, health, dns, portAllowed, ipData, bounds>>

\* vpnCancel(), and the runner ends.
Cancel ==
    /\ loop = "cancel" /\ loop' = next
    /\ live' = {}
    /\ UNCHANGED <<next, signals, up, watch, health, services, bounds>>

\* ApplyStatus by the control server.
UserStop ==
    /\ Request
    /\ BeginCleanup("stopped")
    /\ UNCHANGED <<up, watch, health, services>>

UserStart ==
    /\ Request
    /\ loop = "stopped" /\ loop' = "starting"
    /\ UNCHANGED <<next, signals, live, up, watch, health, services>>

-----------------------------------------------------------------------------
(* restartVPN, called by onTunnelUp (u at place up) or by                  *)
(* collectHealthErrors (u at place watch).                                 *)

\* ApplyStatus(Stopped): accepted, refused, or waiting for loopMu.
RestartStop ==
    \/ BeginCleanup("stopped")
    \/ loop \in {"stopped", "crashed"} /\ UNCHANGED vpn

\* ApplyStatus(Running), its outcome is ignored.
RestartRun ==
    \/ loop = "stopped" /\ loop' = "starting" /\ UNCHANGED <<next, signals, live>>
    \/ loop \in {"running", "crashed"} /\ UNCHANGED vpn

UpRestarts(u) ==
    /\ \/ up[u] = "restartStop" /\ RestartStop /\ up' = [up EXCEPT ![u] = "restartRun"]
       \/ up[u] = "restartRun" /\ RestartRun /\ up' = [up EXCEPT ![u] = "idle"]
    /\ UNCHANGED <<watch, health, services, bounds>>

WatchRestarts(u) ==
    /\ \/ watch[u] = "restartStop" /\ RestartStop /\ watch' = [watch EXCEPT ![u] = "restartRun"]
       \/ watch[u] = "restartRun" /\ RestartRun /\ watch' = [watch EXCEPT ![u] = "idle"]
    /\ UNCHANGED <<up, health, services, bounds>>

-----------------------------------------------------------------------------
(* onTunnelUp.                                                             *)

Go(u, from, to) == up[u] = from /\ up' = [up EXCEPT ![u] = to]

\* l.fw.SetAllowedPort(ctx, ...): its commands fail once ctx is cancelled.
AllowPorts(u) ==
    /\ Go(u, "ports", "dns")
    /\ portAllowed' = (portAllowed \/ u \in live)
    /\ UNCHANGED <<vpn, watch, health, dns, ipData, forwarding, bounds>>

\* l.dnsLooper.ApplyStatus(ctx, Running), one call at a time.
StartDNS(u) ==
    /\ \A v \in Ups : up[v] # "dnsWait"
    /\ IF dns = "stopped"
       THEN Go(u, "dns", "dnsWait") /\ dns' = "starting"
       ELSE Go(u, "dns", "takeHealth") /\ UNCHANGED dns
    /\ UNCHANGED <<vpn, watch, health, portAllowed, ipData, forwarding, bounds>>

\* Mutant: the outcome is not published.
DNSUnpublished(u) ==
    /\ Go(u, "dnsWait", "takeHealth")
    /\ UNCHANGED <<vpn, watch, health, services, bounds>>

DNSStarted(u) ==
    /\ Go(u, "dnsWait", "takeHealth")
    /\ dns' = "running"
    /\ UNCHANGED <<vpn, watch, health, portAllowed, ipData, forwarding, bounds>>

\* case <-ctx.Done() of ApplyStatus: the status stays at starting.
DNSAbandoned(u) ==
    /\ u \notin live
    /\ Go(u, "dnsWait", "takeHealth")
    /\ UNCHANGED <<vpn, watch, health, services, bounds>>

\* <-l.healthDone: the field is read, and then its channel is waited for.
TakeHealthDone(u) ==
    /\ Go(u, "takeHealth", "awaitHealth")
    /\ awaited' = [awaited EXCEPT ![u] = healthDone]
    /\ UNCHANGED <<vpn, watch, healthDone, checking, stopper, targets, services, bounds>>

\* l.healthChecker.SetConfig
SetConfig(u) ==
    /\ Go(u, "awaitHealth", "start")
    /\ awaited' = [awaited EXCEPT ![u] = Initially]
    /\ targets' = TRUE
    /\ UNCHANGED <<vpn, watch, healthDone, checking, stopper, services, bounds>>

Closed(done) == \A v \in Ups : v = done => watch[v] = "idle"

\* Mutant: the previous checks are not waited for.
AwaitNothing(u) == SetConfig(u)

AwaitHealth(u) == Closed(awaited[u]) /\ SetConfig(u)

\* healthChecker.Start returns without an error; go l.collectHealthErrors.
\* A failed startup check is only reported when it does not restart the VPN.
StartChecker(u) ==
    /\ u \in live \/ ~RestartVPN
    /\ Go(u, "start", "publicIP")
    /\ checking' = checking \union {u} /\ stopper' = u
    /\ healthDone' = u /\ watch' = [watch EXCEPT ![u] = "watch"]
    /\ UNCHANGED <<vpn, awaited, targets, services, bounds>>

\* The startup check fails, by a fault or because ctx is cancelled.
StartFails(u) ==
    /\ RestartVPN
    /\ IF u \in live THEN Fault ELSE UNCHANGED bounds
    /\ Go(u, "start", "restartStop")
    /\ UNCHANGED <<vpn, watch, health, services>>

\* l.publicip.RunOnce(ctx) fetches and stores the address.
FetchIP(u) ==
    /\ u \in live
    /\ Go(u, "publicIP", "forward")
    /\ ipData' = TRUE
    /\ UNCHANGED <<vpn, watch, health, dns, portAllowed, forwarding, bounds>>

FetchFails(u) ==
    /\ IF u \in live THEN Fault ELSE UNCHANGED bounds
    /\ Go(u, "publicIP", "forward")
    /\ UNCHANGED <<vpn, watch, health, services>>

\* l.startPortForwarding(data), whether ctx is cancelled or not.
StartForwarding(u) ==
    /\ Go(u, "forward", "idle")
    /\ forwarding' = TRUE
    /\ UNCHANGED <<vpn, watch, health, dns, portAllowed, ipData, bounds>>

OnTunnelUp(u) ==
    \/ AllowPorts(u) \/ StartDNS(u) \/ DNSStarted(u) \/ DNSAbandoned(u)
    \/ TakeHealthDone(u) \/ AwaitHealth(u) \/ StartChecker(u) \/ StartFails(u)
    \/ FetchIP(u) \/ FetchFails(u) \/ StartForwarding(u) \/ UpRestarts(u)

-----------------------------------------------------------------------------
(* collectHealthErrors.                                                    *)

\* healthChecker.Stop()
StopChecker ==
    /\ checking' = checking \ {stopper}
    /\ targets' = FALSE
    /\ UNCHANGED <<healthDone, awaited, stopper>>

\* Mutant: the checks are not stopped with their connection.
WatchEndsOnly(u) ==
    /\ watch[u] = "watch" /\ u \notin live
    /\ watch' = [watch EXCEPT ![u] = "idle"]
    /\ UNCHANGED <<vpn, up, health, services, bounds>>

\* Mutant: the checks are stopped and healthDone is never closed.
WatchNeverDone(u) ==
    /\ watch[u] = "watch" /\ u \notin live
    /\ StopChecker
    /\ UNCHANGED <<vpn, up, watch, services, bounds>>

\* case <-ctx.Done()
WatchEnds(u) ==
    /\ watch[u] = "watch" /\ u \notin live
    /\ watch' = [watch EXCEPT ![u] = "idle"]
    /\ StopChecker
    /\ UNCHANGED <<vpn, up, services, bounds>>

\* case healthErr := <-healthErrCh
HealthFails(u) ==
    /\ watch[u] = "watch" /\ u \in checking /\ RestartVPN
    /\ Fault
    /\ watch' = [watch EXCEPT ![u] = "restartStop"]
    /\ StopChecker
    /\ UNCHANGED <<vpn, up, services>>

CollectHealthErrors(u) == WatchEnds(u) \/ HealthFails(u) \/ WatchRestarts(u)

Cleanup == RemovePorts \/ ClearData \/ StopForwarding \/ Cancel

Next ==
    \/ Crash \/ Connect \/ SetupFails \/ Cleanup \/ UserStop \/ UserStart
    \/ \E u \in Ups : TunnelReady(u) \/ OnTunnelUp(u) \/ CollectHealthErrors(u)

Spec == Init /\ [][Next]_vars

(* Goroutines run, a retry follows a failure, and a call that waits for a  *)
(* mutex is served (SF).  Nothing makes a tunnel come up or a check fail.  *)
Fairness ==
    /\ WF_vars(Cleanup) /\ WF_vars(Connect)
    /\ \A u \in Ups : SF_vars(OnTunnelUp(u)) /\ SF_vars(WatchEnds(u) \/ WatchRestarts(u))

FairSpec == Spec /\ Fairness

-----------------------------------------------------------------------------
(* Properties.                                                             *)

Quiet == \A u \in Ups : up[u] = "idle" /\ watch[u] = "idle"

\* Once a stop is confirmed and the goroutines of its connection are through,
\* nothing that onTunnelUp started is left.
NothingLeft ==
    loop = "stopped" /\ Quiet =>
        ~portAllowed /\ ~ipData /\ ~forwarding /\ checking = {}

\* The checks of two connections do not run together, and a check never runs
\* without addresses (it would divide by their number): the order of Stop,
\* SetConfig and Start that healthDone is there for.
OneChecker == (\A u, v \in checking : u = v) /\ (checking # {} => targets)

\* The checks that run are those somebody listens to: collectHealthErrors stops
\* its own and no other's, so that none is left and none is lost.
ChecksAreWatched == checking = {u \in Ups : watch[u] = "watch"}

\* Every goroutine of a connection that has ended comes to its end, unless it
\* read healthDone too late and waits for the checks of the next connection.
EndedConnectionsLetGo ==
    \A u \in Ups : (u \notin live /\ (up[u] # "idle" \/ watch[u] # "idle"))
        ~> \/ up[u] = "idle" /\ watch[u] = "idle"
           \/ up[u] = "awaitHealth" /\ ~Closed(awaited[u])

\* apply.go:11-15: the DNS status is transient only while a call settles it.
DNSStatusSettles == dns = "starting" => \E u \in Ups : up[u] = "dnsWait"
=============================================================================
