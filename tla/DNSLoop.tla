------------------------------- MODULE DNSLoop -------------------------------
(* internal/dns: Run, which keeps the DNS server (or plain resolvers) up,    *)
(* and RunRestartTicker, which updates its block lists, with their callers:  *)
(* onTunnelUp, under the context of its connection, the control server, and  *)
(* SetSettings (exported, and without a caller in the program today).        *)
EXTENDS LoopState

CONSTANTS
    DNSConnections,     \* the callers that are onTunnelUp
    DNSRequests,        \* how many calls are made
    DNSFaults,          \* setups that fail and servers that crash
    DNSPeriods          \* changes of the update period

DNSConstants ==
    /\ DNSConnections \subseteq Callers
    /\ DNSRequests \in Nat /\ DNSFaults \in Nat /\ DNSPeriods \in Nat

(* A record with the fields:                                                 *)
(*   loop       where Run is; userTrigger its field                          *)
(*   server     the server of setupServer: "none", "running", "failed": it   *)
(*              sends its error, "stopped"                                   *)
(*   ticker     where RunRestartTicker is; armed: its timer runs             *)
(*   period     the update period is more than 0                             *)
(*   setter     SetSettings sends on updateTicker                            *)
(*   shutdown   1 control server, 2 ticker, 3 loop have their ctx cancelled   *)
(*   requests, faults, periods   used so far                                 *)
VARIABLE dns

dnsVars == <<stateVars, dns>>
-----------------------------------------------------------------------------
Init ==
    /\ StateInit("stopped")
    /\ \E period \in BOOLEAN :
       dns = [loop |-> "idle", userTrigger |-> TRUE, server |-> "none",
              ticker |-> "select", armed |-> period, period |-> period,
              setter |-> FALSE, shutdown |-> 0, requests |-> 0, faults |-> 0, periods |-> 0]

Set(update) == dns' = update /\ UNCHANGED stateVars
Place(place) == dns.loop = place

Call(c, o) ==
    /\ dns.requests < DNSRequests
    /\ c \notin cancelled
    /\ Request(c, o)
    /\ dns' = [dns EXCEPT !.requests = @ + 1]

(* The connection of an onTunnelUp ends; the control server is shut down.    *)
ConnectionEnds(c) ==
    /\ c \in DNSConnections \ cancelled /\ ~At(c, "idle")
    /\ cancelled' = cancelled \cup {c}
    /\ UNCHANGED <<status, loopMu, pc, op, result, dns>>

Shutdown ==
    /\ dns.shutdown < 3
    /\ dns' = [dns EXCEPT !.shutdown = @ + 1]
    /\ cancelled' = Callers
    /\ UNCHANGED <<status, loopMu, pc, op, result>>

Caller(c) == CallerStep(c) /\ UNCHANGED dns
-----------------------------------------------------------------------------
(* Run. ServerEnabled FALSE uses plain resolvers, without a server.          *)

ReceiveStart(c) ==
    /\ dns.loop \in {"idle", "wait"}
    /\ SendStart(c)
    /\ dns' = [dns EXCEPT !.loop = "setup", !.userTrigger = TRUE]

(* ctx is looked at before a first attempt, and after a failed one.          *)
SetUp ==
    /\ dns.loop \in {"setup", "retry"}
    /\ IF Place("setup") /\ dns.shutdown = 3
       THEN Set([dns EXCEPT !.loop = "exited"])
       ELSE \/ \E server \in {"running", "none"} :
                 Set([dns EXCEPT !.loop = "ready", !.server = server])
            \/ /\ dns.faults < DNSFaults
               /\ Set([dns EXCEPT !.loop = "failed", !.faults = @ + 1])

\* Mutant: the report waits for its receiver.
ReportAnyway(newStatus, from, to) ==
    /\ Place(from)
    /\ dns' = [dns EXCEPT !.loop = to, !.userTrigger = FALSE]
    /\ IF dns.userTrigger
       THEN \E c \in Callers : ReceiveRunning(c, newStatus)
       ELSE SetStatus(newStatus)

(* signalOrSetStatus: a report nobody is receiving is dropped.               *)
SignalOrSetStatus(newStatus, from, to) ==
    /\ Place(from)
    /\ dns' = [dns EXCEPT !.loop = to, !.userTrigger = FALSE]
    /\ IF dns.userTrigger
       THEN \/ \E c \in Callers : ReceiveRunning(c, newStatus)
            \/ (\A c \in Callers : ~At(c, "awaitRunning")) /\ UNCHANGED stateVars
       ELSE SetStatus(newStatus)

ReportRunning == SignalOrSetStatus("running", "ready", "leakCheck")
ReportCrashed == SignalOrSetStatus("crashed", "failed", IF dns.shutdown = 3 THEN "exited" ELSE "retry")

LeakChecked == Place("leakCheck") /\ Set([dns EXCEPT !.loop = "wait"])

Stopped == [dns EXCEPT !.server = IF @ = "none" THEN @ ELSE "stopped"]

ReceiveStop(c) ==
    /\ Place("wait")
    /\ SendStop(c)
    /\ dns' = [Stopped EXCEPT !.loop = "confirm", !.userTrigger = TRUE]

ConfirmStop(c) ==
    /\ Place("confirm")
    /\ ReceiveStopped(c)
    /\ dns' = [dns EXCEPT !.loop = "wait"]

ServerCrashes ==
    /\ dns.server = "running" /\ dns.faults < DNSFaults
    /\ Set([dns EXCEPT !.server = "failed", !.faults = @ + 1])

(* The status is set without loopMu.                                         *)
RunError ==
    /\ Place("wait") /\ dns.server = "failed"
    /\ SetStatus("crashed")
    /\ dns' = [dns EXCEPT !.loop = "setup", !.server = "none"]

CtxDone ==
    /\ dns.loop \in {"idle", "wait"} /\ dns.shutdown = 3
    /\ Set([Stopped EXCEPT !.loop = "exited"])
-----------------------------------------------------------------------------
(* RunRestartTicker: the period is read before the update, which takes long. *)

Tick ==
    /\ dns.ticker = "select" /\ dns.armed
    /\ Set([dns EXCEPT !.ticker = "updating", !.armed = FALSE])

(* A period set to 0 during the update is seen only with its notification.   *)
Updated ==
    /\ dns.ticker = "updating"
    /\ Set([dns EXCEPT !.ticker = "select", !.armed = TRUE])

SetSettings ==
    /\ ~dns.setter /\ dns.periods < DNSPeriods
    /\ Set([dns EXCEPT !.period = ~@, !.setter = TRUE, !.periods = @ + 1])

\* Mutant: the notification is dropped.
ForgetTimer ==
    /\ dns.ticker = "select" /\ dns.setter
    /\ Set([dns EXCEPT !.setter = FALSE])

(* A timer that does not run is drained all the same.                        *)
ReceiveUpdate ==
    /\ dns.ticker = "select" /\ dns.setter
    /\ Set([dns EXCEPT !.setter = FALSE,
                       !.ticker = IF dns.armed THEN "select" ELSE "draining",
                       !.armed = dns.armed /\ dns.period])

TickerDone ==
    /\ dns.ticker = "select" /\ dns.shutdown >= 2
    /\ Set([dns EXCEPT !.ticker = "ended", !.armed = FALSE])
-----------------------------------------------------------------------------
Progress ==
    \/ \E c \in Callers : Caller(c) \/ ReceiveStart(c) \/ ReceiveStop(c) \/ ConfirmStop(c)
    \/ SetUp \/ ReportRunning \/ ReportCrashed \/ LeakChecked \/ RunError \/ CtxDone
    \/ Updated \/ ReceiveUpdate \/ TickerDone

Next ==
    \/ Progress
    \/ \E c \in Callers : ConnectionEnds(c) \/ \E o \in Operations : Call(c, o)
    \/ ServerCrashes \/ Tick \/ SetSettings \/ Shutdown

Spec == Init /\ [][Next]_dnsVars
-----------------------------------------------------------------------------
TypeOK ==
    /\ StateTypeOK
    /\ dns \in [loop : {"idle", "setup", "retry", "ready", "failed", "leakCheck", "wait", "confirm", "exited"},
                userTrigger : BOOLEAN, server : {"none", "running", "failed", "stopped"},
                ticker : {"select", "updating", "draining", "ended"}, armed : BOOLEAN,
                period : BOOLEAN, setter : BOOLEAN, shutdown : 0 .. 3,
                requests : 0 .. DNSRequests, faults : 0 .. DNSFaults, periods : 0 .. DNSPeriods]

(* "Stopped" is only ever said of a server that is down.                     *)
StoppedMeansDown ==
    status = "stopped" => dns.server \in {"none", "stopped"} /\ dns.loop \in {"idle", "wait", "exited"}

(* Who waits for ever: a caller whose report was dropped; the loop confirms  *)
(* to a caller that gave up; the ticker drains a timer that was not running; *)
(* the loop, or the ticker, has ended.                                       *)
Wedged ==
    \/ \E c \in Callers : At(c, "awaitRunning") /\ dns.loop \in {"leakCheck", "wait", "exited"}
    \/ Place("confirm") /\ \A c \in Callers : ~At(c, "awaitStopped")
    \/ dns.ticker = "draining"
    \/ Place("exited") /\ \E c \in Callers : pc[c] \in {"sendStart", "sendStop"}
    \/ dns.ticker = "ended" /\ dns.setter

(* When nothing can go on, every call has returned and a program that was    *)
(* shut down has ended, but for these.                                       *)
BlockedOnlyIfWedged ==
    \/ ENABLED Progress
    \/ Wedged
    \/ /\ ~dns.setter /\ \A c \in Callers : At(c, "idle")
       /\ dns.shutdown = 3 => Place("exited") /\ dns.ticker = "ended"

(* The timer runs with its period set to 0 only until the ticker, which may  *)
(* be busy with an update, is told.                                          *)
TimerFollowsPeriod ==
    dns.ticker = "select" /\ dns.armed => dns.period \/ dns.setter
=============================================================================
