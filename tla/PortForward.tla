---------------------------- MODULE PortForward ----------------------------
(* internal/portforward and its service: the loop that restarts the service  *)
(* when the VPN comes up or goes down, the goroutine that keeps the ports    *)
(* forwarded, the calls of the VPN loop, a control server handler that sets  *)
(* ports, and the stop at shutdown. Of the firewall only the allowed ports   *)
(* are kept.                                                                 *)
EXTENDS Naturals, FiniteSets

CONSTANTS
    Internals,      \* the ports a provider may map, to which the program listens
    Externals,      \* the ports it may map them to
    UserPorts,      \* the ports a user sets
    MaxUpdates,     \* calls of UpdateWith
    MaxSets,        \* calls of SetPortsForwarded
    MaxFaults       \* firewall or file operations that fail, and keep-alive crashes

Internal(m) == {p[1] : p \in m}
External(m) == {p[2] : p \in m}

(* What a provider may assign, and what the user sets, <<internal, external>>*)
(* each: a port of the user is mapped to itself.                             *)
Assigned ==
    {m \in SUBSET (Internals \X Externals) : m # {} /\ \A p, q \in m : p[1] = q[1] => p = q}
SetByUser == {<<p, p>> : p \in UserPorts}
AllMappings == UNION (Assigned \cup {SetByUser})

ASSUME PortForwardConstants ==
    /\ Internals \cup Externals \cup UserPorts \subseteq Nat \ {0}
    /\ MaxUpdates \in Nat /\ MaxSets \in Nat /\ MaxFaults \in Nat

(* onTunnelUp says that the VPN is up, cleanup that it is down.              *)
Callers == {"onTunnelUp", "cleanup"}

VARIABLES
    supported,  \* the provider has port forwarding code
    valid,      \* the settings are valid for a start
    caller,     \* per caller: "idle", "sending" its update, "awaiting" the result
    loop,       \* where run is
    answering,  \* run owes a result to a caller
    retry,      \* the retry timer runs
    vpnIsUp,    \* settings.VPNIsUp
    ports,      \* ports of the service, as <<internal, external>>
    keep,       \* where the goroutine of KeepPortForward is
    lock,       \* holder of the service's startStopMutex (and portMutex)
    created,    \* there is a service, made for a provider
    setter,     \* handler: "idle", or the service it has read: "this", "replaced"
    allowed,    \* ports allowed in the firewall
    main,       \* the end of main: "select", "stopping", "locking", "locked", ...
    runCtx,     \* FALSE once runCtx is cancelled
    overtaken,  \* a handler set ports on a service stopped or replaced
    updates, sets, faults

budget == <<updates, sets, faults>>
config == <<supported, valid, created>>
vars == <<config, caller, loop, answering, retry, vpnIsUp, ports,
          keep, lock, setter, allowed, main, runCtx, overtaken, budget>>

Fault(n) == faults + n <= MaxFaults /\ faults' = faults + n /\ UNCHANGED <<updates, sets>>
-----------------------------------------------------------------------------
Init ==
    /\ supported \in BOOLEAN /\ valid \in BOOLEAN
    /\ caller = [c \in Callers |-> "idle"]
    /\ loop = "select" /\ answering = FALSE /\ retry = FALSE
    /\ vpnIsUp = FALSE
    /\ ports = {} /\ keep = "none" /\ lock = "free"
    /\ created = FALSE /\ setter = "idle" /\ allowed = {} /\ overtaken = FALSE
    /\ main = "select" /\ runCtx = TRUE
    /\ updates = 0 /\ sets = 0 /\ faults = 0

CleanupFile(error) == Fault(IF error THEN 1 ELSE 0) /\ ports' = {} /\ UNCHANGED allowed

(* Service.cleanup, its error and what it leaves: external ports are blocked *)
(* up to a failure, then the ports are forgotten and the file cleared.       *)
Cleanup(error) ==
    \/ /\ ~error /\ Fault(0)
       /\ allowed' = allowed \ External(ports) /\ ports' = {}
    \/ /\ error /\ Fault(1)
       /\ \/ \E done \in SUBSET External(ports) :
                allowed' = allowed \ done /\ UNCHANGED ports
          \/ allowed' = allowed \ External(ports) /\ ports' = {}

NewPortsAndZero(m, error) ==
    /\ ~error /\ Fault(0)
    /\ allowed' = allowed \cup Internal(m) /\ ports' = m \cup {<<0, 0>>}

(* Service.onNewPorts: internal ports are allowed up to a failure; the ports *)
(* are recorded once the file is written. The cleanup after a failure to     *)
(* write it does not know them.                                              *)
OnNewPorts(m, error) ==
    \/ /\ ~error /\ Fault(0)
       /\ allowed' = allowed \cup Internal(m) /\ ports' = m
    \/ /\ error /\ Fault(1)
       /\ \E done \in SUBSET Internal(m) : allowed' = allowed \cup done
       /\ UNCHANGED ports
-----------------------------------------------------------------------------
(* The callers: UpdateWith.                                                  *)

Call(c) ==
    /\ caller[c] = "idle"
    /\ updates < MaxUpdates /\ updates' = updates + 1
    /\ caller' = [caller EXCEPT ![c] = "sending"]
    /\ UNCHANGED <<config, loop, answering, retry, vpnIsUp, ports, keep,
                   lock, setter, allowed, main, runCtx, overtaken, sets, faults>>

GiveUp(c) ==
    /\ caller[c] # "idle" /\ ~runCtx
    /\ caller' = [caller EXCEPT ![c] = "idle"]
    /\ UNCHANGED <<config, loop, answering, retry, vpnIsUp, ports, keep,
                   lock, setter, allowed, main, runCtx, overtaken, budget>>

Refused == vpnIsUp /\ ~valid     \* settings.validate

RefuseSilently(c) ==
    /\ loop = "select" /\ caller[c] = "sending"
    /\ caller' = [caller EXCEPT ![c] = "awaiting"]
    /\ answering' = ~Refused
    /\ IF Refused
       THEN UNCHANGED <<loop, vpnIsUp>>
       ELSE loop' = "stop" /\ vpnIsUp' = (c = "onTunnelUp")
    /\ UNCHANGED <<config, retry, ports, keep, lock, setter, allowed,
                   main, runCtx, overtaken, budget>>

(* The cases of run's select. An update is validated for a start if the VPN  *)
(* was up before it; refused, it changes nothing.                            *)
ReceiveUpdate(c) ==
    /\ loop = "select" /\ caller[c] = "sending"
    /\ caller' = [caller EXCEPT ![c] = "awaiting"]
    /\ answering' = TRUE
    /\ IF Refused
       THEN loop' = "reply" /\ UNCHANGED vpnIsUp
       ELSE loop' = "stop" /\ vpnIsUp' = (c = "onTunnelUp")
    /\ UNCHANGED <<config, retry, ports, keep, lock, setter, allowed,
                   main, runCtx, overtaken, budget>>

ReceiveRunError ==
    /\ loop = "select" /\ keep = "reporting"
    /\ loop' = "stop" /\ answering' = FALSE
    /\ keep' = "unlocking"
    /\ UNCHANGED <<config, caller, retry, vpnIsUp, ports, lock, setter,
                   allowed, main, runCtx, overtaken, budget>>

RetryAfter ==
    /\ loop = "select" /\ retry
    /\ retry' = FALSE /\ loop' = "stop" /\ answering' = FALSE
    /\ UNCHANGED <<config, caller, vpnIsUp, ports, keep, lock, setter,
                   allowed, main, runCtx, overtaken, budget>>

RunCtxDone ==
    /\ loop = "select" /\ ~runCtx
    /\ loop' = "done"
    /\ UNCHANGED <<config, caller, answering, retry, vpnIsUp, ports,
                   keep, lock, setter, allowed, main, runCtx, overtaken, budget>>

(* Service.Stop, called by run and at shutdown by main through Loop.Stop:    *)
(* nothing to do, or the lock is taken, the keep-alive cancelled and waited  *)
(* for, and what the service did undone.                                     *)
StopLock(here, next, by, rest) ==
    /\ here /\ lock = "free"
    /\ IF ports = {} /\ keep = "none"
       THEN next /\ UNCHANGED lock
       ELSE rest /\ lock' = by

LoopStops ==
    /\ StopLock(loop = "stop", loop' = "new", "loop", loop' = "cancelled")
    /\ UNCHANGED <<config, caller, answering, retry, vpnIsUp, ports,
                   keep, setter, allowed, main, runCtx, overtaken, budget>>

LoopStopped ==
    /\ loop = "cancelled" /\ keep = "none"
    /\ \/ Cleanup(FALSE) /\ loop' = "new"
       \/ Cleanup(TRUE) /\ loop' = "crash"
    /\ lock' = "free"
    /\ UNCHANGED <<config, caller, answering, retry, vpnIsUp, keep,
                   setter, main, runCtx, overtaken>>

(* run reports that the service could not be stopped, and returns. Only the  *)
(* end of main listens.                                                      *)
Crash ==
    /\ loop = "crash" /\ main = "select"
    /\ loop' = "done" /\ main' = "crashed"
    /\ UNCHANGED <<config, caller, answering, retry, vpnIsUp, ports,
                   keep, lock, setter, allowed, runCtx, overtaken, budget>>

(* service.New, then the part of Start that asks the provider.               *)
NewService ==
    /\ loop = "new"
    /\ loop' = IF vpnIsUp THEN "starting" ELSE IF answering THEN "reply" ELSE "select"
    /\ ports' = {}
    /\ overtaken' = (overtaken \/ ports # {})
    /\ created' = (created \/ vpnIsUp)
    /\ setter' = IF setter = "this" THEN "replaced" ELSE setter
    /\ UNCHANGED <<supported, valid, caller, answering, retry, vpnIsUp, keep,
                   lock, allowed, main, runCtx, budget>>

(* Start asks the provider, which may refuse or fail, then opens its ports.  *)
StartFails ==
    \/ Fault(0) /\ UNCHANGED <<allowed, ports>>
    \/ supported /\ \E m \in Assigned : OnNewPorts(m, TRUE)

StartSucceeds == supported /\ runCtx /\ \E m \in Assigned : OnNewPorts(m, FALSE)

(* From now on the ports are kept forwarded. Only a start that no caller     *)
(* waits for is retried.                                                     *)
Started ==
    /\ loop = "starting" /\ lock = "free"
    /\ loop' = IF answering THEN "reply" ELSE "select"
    /\ \/ StartFails /\ retry' = (retry \/ ~answering) /\ UNCHANGED keep
       \/ StartSucceeds /\ keep' = "running" /\ UNCHANGED retry
    /\ UNCHANGED <<config, caller, answering, vpnIsUp, lock, setter,
                   main, runCtx, overtaken>>

Reply(c) ==
    /\ loop = "reply" /\ caller[c] = "awaiting"
    /\ loop' = "select" /\ answering' = FALSE
    /\ caller' = [caller EXCEPT ![c] = "idle"]
    /\ UNCHANGED <<config, retry, vpnIsUp, ports, keep, lock, setter,
                   allowed, main, runCtx, overtaken, budget>>
-----------------------------------------------------------------------------
(* The goroutine of KeepPortForward. A crash is one that ends before it is   *)
(* cancelled; it takes both locks, cleans up, and reports holding them.      *)

Cancelled == lock \in {"loop", "main"}

KeepCrashes ==
    /\ keep = "running" /\ ~Cancelled
    /\ Fault(1) /\ keep' = "crashed"
    /\ UNCHANGED <<config, caller, loop, answering, retry, vpnIsUp,
                   ports, lock, setter, allowed, main, runCtx, overtaken>>

KeepEndsSilently ==
    /\ keep = "crashed" /\ lock = "free"
    /\ lock' = "keep" /\ keep' = "unlocking"
    /\ UNCHANGED <<config, caller, loop, answering, retry, vpnIsUp, ports,
                   setter, allowed, main, runCtx, overtaken, budget>>

KeepCleansUp ==
    /\ keep = "crashed" /\ lock = "free"
    /\ lock' = "keep" /\ keep' = "reporting"
    /\ \E error \in BOOLEAN : Cleanup(error)
    /\ UNCHANGED <<config, caller, loop, answering, retry, vpnIsUp,
                   setter, main, runCtx, overtaken>>

KeepUnlocks ==
    /\ keep = "unlocking"
    /\ keep' = "unlocked" /\ lock' = "free"
    /\ UNCHANGED <<config, caller, loop, answering, retry, vpnIsUp,
                   ports, setter, allowed, main, runCtx, overtaken, budget>>

KeepEnds ==
    /\ \/ keep = "unlocked"
       \/ keep = "running" /\ Cancelled
    /\ keep' = "none"
    /\ UNCHANGED <<config, caller, loop, answering, retry, vpnIsUp,
                   ports, lock, setter, allowed, main, runCtx, overtaken, budget>>
-----------------------------------------------------------------------------
(* The control server: Loop.SetPortsForwarded reads the service, which is    *)
(* refused to providers with code, and sets its ports under both locks.      *)

ReadService ==
    /\ ~supported /\ created /\ setter = "idle"
    /\ sets < MaxSets /\ sets' = sets + 1
    /\ setter' = "this"
    /\ UNCHANGED <<config, caller, loop, answering, retry, vpnIsUp, ports,
                   keep, lock, allowed, main, runCtx, overtaken, updates, faults>>

SetPortsForwarded ==
    /\ \/ /\ setter = "this" /\ lock = "free"
          /\ ports # SetByUser
          /\ \E error \in BOOLEAN :
                LET left == allowed \ External(ports) IN
                IF error
                THEN Cleanup(TRUE) \/ (/\ Fault(1)
                                       /\ \E done \in SUBSET Internal(SetByUser) :
                                            allowed' = left \cup done
                                       /\ ports' = {})
                ELSE /\ Fault(0)
                     /\ allowed' = left \cup Internal(SetByUser)
                     /\ ports' = SetByUser
          /\ UNCHANGED overtaken
       \/ /\ setter = "this" /\ lock = "free" /\ ports = SetByUser
          /\ UNCHANGED <<allowed, ports, overtaken, budget>>
       \/ /\ setter = "replaced"
          /\ allowed' = allowed \cup Internal(SetByUser)
          /\ overtaken' = TRUE
          /\ UNCHANGED <<ports, budget>>
    /\ setter' = "idle"
    /\ UNCHANGED <<config, caller, loop, answering, retry, vpnIsUp,
                   keep, lock, main, runCtx>>
-----------------------------------------------------------------------------
(* Loop.Stop, called by the end of main before everything else is stopped.   *)

Shutdown ==
    /\ main = "select"
    /\ main' = "stopping" /\ runCtx' = FALSE
    /\ UNCHANGED <<config, caller, loop, answering, retry, vpnIsUp,
                   ports, keep, lock, setter, allowed, overtaken, budget>>

MainStops ==
    /\ loop = "done"
    /\ StopLock(main = "stopping", main' = "stopped", "main", main' = "cancelled")
    /\ UNCHANGED <<config, caller, loop, answering, retry, vpnIsUp, ports,
                   keep, setter, allowed, runCtx, overtaken, budget>>

MainStopped ==
    /\ main = "cancelled" /\ keep = "none"
    /\ \E error \in BOOLEAN : Cleanup(error)
    /\ main' = "stopped" /\ lock' = "free"
    /\ UNCHANGED <<config, caller, loop, answering, retry, vpnIsUp,
                   keep, setter, runCtx, overtaken>>

LoopStep ==
    \/ \E c \in Callers : ReceiveUpdate(c) \/ Reply(c)
    \/ ReceiveRunError \/ RunCtxDone \/ LoopStops \/ LoopStopped \/ Crash
    \/ NewService \/ Started
KeepStep == KeepCleansUp \/ KeepUnlocks \/ KeepEnds
MainStep == MainStops \/ MainStopped

Next ==
    \/ LoopStep \/ RetryAfter
    \/ KeepStep \/ KeepCrashes
    \/ MainStep \/ Shutdown
    \/ ReadService \/ SetPortsForwarded
    \/ \E c \in Callers : Call(c) \/ GiveUp(c)

Spec == Init /\ [][Next]_vars

(* Goroutines that can run do; whoever waits for a lock gets it in turn.     *)
FairSpec ==
    /\ Spec
    /\ WF_vars(LoopStep) /\ WF_vars(RetryAfter) /\ SF_vars(RunCtxDone)
    /\ WF_vars(KeepStep) /\ SF_vars(KeepCleansUp)
    /\ SF_vars(LoopStops) /\ SF_vars(Started) /\ SF_vars(MainStops) /\ WF_vars(MainStopped)
    /\ WF_vars(SetPortsForwarded)
    /\ \A c \in Callers : WF_vars(GiveUp(c)) /\ SF_vars(ReceiveUpdate(c))
-----------------------------------------------------------------------------
Places == {"select", "stop", "cancelled", "new", "starting", "reply", "crash", "done"}

TypeOK ==
    /\ supported \in BOOLEAN /\ valid \in BOOLEAN
    /\ caller \in [Callers -> {"idle", "sending", "awaiting"}]
    /\ loop \in Places /\ answering \in BOOLEAN /\ retry \in BOOLEAN
    /\ vpnIsUp \in BOOLEAN /\ created \in BOOLEAN
    /\ ports \subseteq AllMappings
    /\ keep \in {"none", "running", "crashed", "reporting", "unlocking", "unlocked"}
    /\ lock \in {"free", "loop", "main", "keep"}
    /\ setter \in {"idle", "this", "replaced"}
    /\ allowed \subseteq Internal(AllMappings)
    /\ main \in {"select", "crashed", "stopping", "cancelled", "stopped"}
    /\ runCtx \in BOOLEAN /\ overtaken \in BOOLEAN
    /\ updates \in 0 .. MaxUpdates /\ sets \in 0 .. MaxSets /\ faults \in 0 .. MaxFaults

(* A port is open in the firewall only while it is forwarded, unless the     *)
(* provider maps it to another (cleanup blocks external ports), a firewall   *)
(* or file operation failed, or a handler set ports on a service that run    *)
(* had stopped meanwhile.                                                    *)
OpenPortsAreForwarded ==
    faults = 0 /\ ~overtaken =>
        \A p \in allowed \ Internal(ports) : \E m \in AllMappings : m[1] = p /\ m[2] # p

(* Once run is back in its select after the VPN went down, or has answered   *)
(* cleanup, nothing is forwarded or kept forwarded, whatever crashed; and    *)
(* ports a provider assigned are never taken for forwarded with nobody left  *)
(* to renew them or to tell run.                                             *)
PortsFollowTheTunnel ==
    supported =>
        /\ ~vpnIsUp /\ loop \in {"select", "reply"} => ports = {} /\ keep = "none"
        /\ ports # {} /\ loop = "select" => keep # "none"

(* Who waits for ever, and for whom: the crashed keep-alive reports with the *)
(* lock Stop needs; it needs the lock Stop holds; run answers a caller that  *)
(* gave up; run has ended and nobody will answer; run reports an error main  *)
(* no longer listens to.                                                     *)
Wedged ==
    \/ keep = "reporting" /\ loop # "select"
    \/ keep = "crashed" /\ Cancelled
    \/ loop = "reply" /\ \A c \in Callers : caller[c] # "awaiting"
    \/ loop = "done" /\ runCtx
    \/ loop = "crash" /\ main # "select"

(* UpdateWith returns and Stop returns, but for these.                       *)
CallsReturnOrWedge ==
    /\ \A c \in Callers : caller[c] # "idle" ~> caller[c] = "idle" \/ Wedged
    /\ main = "stopping" ~> main = "stopped" \/ Wedged
=============================================================================
