------------------------------- MODULE VPNLoop -------------------------------
(***************************************************************************)
(* internal/vpn: Loop.Run, the goroutine that owns the VPN connection,     *)
(* with the runner goroutine it launches (OpenVPN process or Wireguard     *)
(* device), the callers of ApplyStatus (main, the control server, the      *)
(* health monitor) and the shutdown sequence of cmd/gluetun/main.go.       *)
(***************************************************************************)
EXTENDS LoopState

CONSTANTS
    Main,               \* main.go: the first, blocking ApplyStatus(ctx, Running)
    HTTPCallers,        \* handlers of the control server
    Monitors,           \* onTunnelUp / collectHealthErrors goroutines
    MaxRequests,        \* bound: requests of the control server
    MaxFaults,          \* bound: setup errors and unexpected runner ends
    MaxHeals,           \* bound: restarts asked for by health monitors
    MayShutdown,        \* whether the program is told to stop
    MayPreempt,         \* whether a setup that fails at once can be reported
                        \* before the starting caller reaches its select
    MayExitCleanly,     \* whether OpenVPN may exit with code 0 by itself
    MaySignalLate       \* whether the runner may signal tunnelReady after
                        \* its context is cancelled

ASSUME VPNLoopAssumption ==
    /\ Callers = {Main} \union HTTPCallers \union Monitors
    /\ Main \notin HTTPCallers \union Monitors
    /\ HTTPCallers \intersect Monitors = {}
    /\ MaxRequests \in Nat /\ MaxFaults \in Nat /\ MaxHeals \in Nat
    /\ MayShutdown \in BOOLEAN /\ MayPreempt \in BOOLEAN
    /\ MayExitCleanly \in BOOLEAN /\ MaySignalLate \in BOOLEAN

VARIABLES
    loop,           \* where Run is
    userTrigger,    \* Loop.userTrigger
    report,         \* the status signalOrSetStatus is about to publish
    runner,         \* the goroutine vpnRunner.Run of the current connection
    vpnCancelled,   \* vpnCtx is cancelled
    monitoring,     \* monitors that may still ask for a restart
    shutdown,       \* how far main.go's shutdown sequence has come
    requests, faults, heals     \* what the bounds count

reporting == <<userTrigger, report>>
connection == <<runner, vpnCancelled>>
counters == <<requests, faults, heals>>
around == <<monitoring, shutdown, counters>>
loopVars == <<loop, reporting, connection, around>>
vars == <<stateVars, loopVars>>

LoopPCs == {"waitStart", "setup", "waitForError", "report", "backoff", "select",
            "stopWait", "stopSend", "crashLock", "crashBackoff", "exitWait",
            "done", "panicked"}

\* "signalling": blocked on tunnelReady <- ; "failed": blocked on waitError <- ;
\* "closed": over, and waitForError closed the waitError channel;
\* "off": over, and the waitError channel is open.
RunnerStates == {"off", "connecting", "signalling", "up", "failed", "exited", "closed"}

\* Shutdown cancels main's context, then the control server's, then the loop's.
ShutdownPhases == {"no", "root", "control", "vpn"}

TypeOK ==
    /\ StateTypeOK
    /\ loop \in LoopPCs
    /\ userTrigger \in BOOLEAN
    /\ report \in {"none", "running", "crashed"}
    /\ runner \in RunnerStates
    /\ vpnCancelled \in BOOLEAN
    /\ monitoring \subseteq Monitors
    /\ shutdown \in ShutdownPhases
    /\ requests \in 0..MaxRequests
    /\ faults \in 0..MaxFaults
    /\ heals \in 0..MaxHeals

\* main.go: NewLoop and go Run, then the first ApplyStatus(ctx, Running).
Init ==
    /\ status = "stopped"
    /\ loopMu = Nobody
    /\ pc = [c \in Callers |-> IF c = Main THEN "acquire" ELSE "idle"]
    /\ op = [c \in Callers |-> IF c = Main THEN "run" ELSE "none"]
    /\ result = [c \in Callers |-> "none"]
    /\ cancelled = {}
    /\ loop = "waitStart"
    /\ userTrigger = TRUE
    /\ report = "none"
    /\ runner = "off"
    /\ vpnCancelled = FALSE
    /\ monitoring = {}
    /\ shutdown = "no"
    /\ requests = 0 /\ faults = 0 /\ heals = 0

LoopCtxDone == shutdown = "vpn"

-----------------------------------------------------------------------------
(* The callers.                                                            *)

\* PUT /v1/vpn/status, the openvpn aliases, /v0 restart and PUT settings.
HTTPRequest(c, o) ==
    /\ shutdown \in {"no", "root"}
    /\ requests < MaxRequests
    /\ requests' = requests + 1
    /\ Request(c, o)
    /\ UNCHANGED <<loop, reporting, connection, monitoring, shutdown, faults, heals>>

\* A failed health check, at startup or later: restartVPN.
HealthRestart(m) ==
    /\ m \in monitoring
    /\ heals < MaxHeals
    /\ heals' = heals + 1
    /\ monitoring' = monitoring \ {m}
    /\ Request(m, "restart")
    /\ UNCHANGED <<loop, reporting, connection, shutdown, requests, faults>>

\* collectHealthErrors: case <-ctx.Done(), where ctx is vpnCtx.
MonitorEnds(m) ==
    /\ m \in monitoring
    /\ vpnCancelled
    /\ monitoring' = monitoring \ {m}
    /\ UNCHANGED <<stateVars, loop, reporting, connection, shutdown, counters>>

Caller(c) == CallerStep(c) /\ UNCHANGED loopVars

\* The shutdown sequence cancels one context after the other; it waits for
\* each group at most for its timeout.
Shutdown ==
    /\ MayShutdown
    /\ \/ /\ shutdown = "no"
          /\ shutdown' = "root"
          /\ cancelled' = cancelled \union {Main}
       \/ /\ shutdown = "root"
          /\ shutdown' = "control"
          /\ cancelled' = cancelled \union HTTPCallers
       \/ /\ shutdown = "control"
          /\ shutdown' = "vpn"
          /\ cancelled' = Callers
    /\ UNCHANGED <<status, loopMu, pc, op, result, loop, reporting, connection, monitoring, counters>>

-----------------------------------------------------------------------------
(* Run, up to the report of the new status.                                *)

Step(from, to) == loop = from /\ loop' = to

\* case <-l.start of the first select.
FirstStart ==
    /\ Step("waitStart", "setup")
    /\ \E c \in Callers : SendStart(c)
    /\ UNCHANGED <<reporting, connection, around>>

\* case <-ctx.Done() of the first select, and the condition of the for loop.
ExitIdle ==
    /\ loop \in {"waitStart", "setup"}
    /\ LoopCtxDone
    /\ loop' = "done"
    /\ UNCHANGED <<stateVars, reporting, connection, around>>

\* setupOpenVPN, setupWireguard or setupAmneziaWg succeeds; go vpnRunner.Run.
Launch ==
    /\ Step("setup", "waitForError")
    /\ ~LoopCtxDone
    /\ runner' = "connecting"
    /\ vpnCancelled' = FALSE
    /\ UNCHANGED <<stateVars, reporting, around>>

\* The setup function fails: crashed(ctx, err).
SetupFails ==
    /\ Step("setup", "report")
    /\ ~LoopCtxDone
    /\ faults < MaxFaults
    /\ faults' = faults + 1
    /\ report' = "crashed"
    /\ UNCHANGED <<stateVars, userTrigger, connection, monitoring, shutdown, requests, heals>>

\* A timer of the loop (100ms, or a backoff of at least 15s) outlasts the few
\* instructions a caller runs between two channel operations.
CallersSettled == \A c \in Callers : pc[c] \notin {"sentStart", "setStatus"}

\* waitForError: the 100ms pass without an error.
NoEarlyError ==
    /\ Step("waitForError", "report")
    /\ CallersSettled
    /\ report' = "running"
    /\ UNCHANGED <<stateVars, userTrigger, connection, around>>

\* Mutant: the error of an early failure is lost.
EarlyErrorLost ==
    /\ loop = "waitForError"
    /\ runner \in {"failed", "exited"}
    /\ runner' = "closed"
    /\ loop' = "report" /\ report' = "running"
    /\ UNCHANGED <<stateVars, userTrigger, vpnCancelled, around>>

\* waitForError receives and closes waitError.  A nil error counts as none.
EarlyEnd ==
    /\ Step("waitForError", "report")
    /\ runner \in {"failed", "exited"}
    /\ runner' = "closed"
    /\ vpnCancelled' = (runner = "failed")
    /\ report' = IF runner = "failed" THEN "crashed" ELSE "running"
    /\ UNCHANGED <<stateVars, userTrigger, around>>

\* waitForError: case <-ctx.Done(); the runner is cancelled and left behind.
EarlyCtxDone ==
    /\ Step("waitForError", "report")
    /\ LoopCtxDone
    /\ vpnCancelled' = TRUE
    /\ report' = "crashed"
    /\ UNCHANGED <<stateVars, userTrigger, runner, around>>

AfterReport == IF report = "running" THEN "select" ELSE "backoff"

\* signalOrSetStatus after a user trigger: the receiver is there.
SignalStatus ==
    /\ Step("report", AfterReport)
    /\ userTrigger
    /\ userTrigger' = FALSE
    /\ \E c \in Callers : ReceiveRunning(c, report)
    /\ report' = "none"
    /\ UNCHANGED <<connection, around>>

\* signalOrSetStatus: the default case, nobody is receiving.
DropStatus ==
    /\ Step("report", AfterReport)
    /\ userTrigger
    /\ \A c \in Callers : ~At(c, "awaitRunning")
    /\ MayPreempt \/ \A c \in Callers : ~At(c, "sentStart")
    /\ userTrigger' = FALSE
    /\ report' = "none"
    /\ UNCHANGED <<stateVars, connection, around>>

\* signalOrSetStatus without a user trigger: SetStatus.
PublishStatus ==
    /\ Step("report", AfterReport)
    /\ ~userTrigger
    /\ SetStatus(report)
    /\ report' = "none"
    /\ UNCHANGED <<userTrigger, connection, around>>

\* logAndWait after crashed: the timer or ctx.Done, then continue.
BackoffEnds ==
    /\ Step("backoff", "setup")
    /\ CallersSettled \/ LoopCtxDone
    /\ UNCHANGED <<stateVars, reporting, connection, around>>

-----------------------------------------------------------------------------
(* Run, the select loop around an established connection.                  *)

\* case <-tunnelReady: go l.onTunnelUp(...), one more health monitor.
TunnelReady ==
    /\ loop = "select"
    /\ runner = "signalling"
    /\ runner' = "up"
    /\ LET free == {m \in Monitors \ monitoring : At(m, "idle")}
       IN  IF free = {}
           THEN UNCHANGED monitoring
           ELSE \E m \in free : monitoring' = monitoring \union {m}
    /\ UNCHANGED <<stateVars, loop, reporting, vpnCancelled, shutdown, counters>>

\* case <-l.stop: cleanup and vpnCancel.
Stop ==
    /\ Step("select", "stopWait")
    /\ \E c \in Callers : SendStop(c)
    /\ userTrigger' = TRUE
    /\ vpnCancelled' = TRUE
    /\ UNCHANGED <<report, runner, around>>

\* Mutant: the stop case does not wait for the runner.
StopWithoutWaiting ==
    /\ Step("stopWait", "stopSend")
    /\ UNCHANGED <<stateVars, reporting, connection, around>>

\* <-waitError of the stop case; a closed channel yields at once.
RunnerStopped ==
    /\ Step("stopWait", "stopSend")
    /\ runner \in {"failed", "exited", "closed"}
    /\ runner' = IF runner = "closed" THEN "closed" ELSE "off"
    /\ UNCHANGED <<stateVars, reporting, vpnCancelled, around>>

\* Mutant: the stop is not confirmed.
ForgetToConfirm ==
    /\ Step("stopSend", "select")
    /\ UNCHANGED <<stateVars, reporting, connection, around>>

\* l.stopped <- struct{}{}; back to the select.
ConfirmStop ==
    /\ Step("stopSend", "select")
    /\ \E c \in Callers : ReceiveStopped(c)
    /\ UNCHANGED <<reporting, connection, around>>

\* case <-l.start, and the vpnCancel after the inner loop.
Restart ==
    /\ Step("select", "setup")
    /\ \E c \in Callers : SendStart(c)
    /\ userTrigger' = TRUE
    /\ vpnCancelled' = TRUE
    /\ UNCHANGED <<report, runner, around>>

\* case err := <-waitError, before statusManager.Lock().
UnexpectedEnd ==
    /\ Step("select", "crashLock")
    /\ runner \in {"failed", "exited", "closed"}
    /\ runner' = IF runner = "closed" THEN "closed" ELSE "off"
    /\ UNCHANGED <<stateVars, reporting, vpnCancelled, around>>

\* Mutant: the crash is published without statusManager.Lock().
CrashUnlocked ==
    /\ Step("crashLock", "backoff")
    /\ SetStatus("crashed")
    /\ vpnCancelled' = TRUE
    /\ UNCHANGED <<reporting, runner, around>>

\* statusManager.Lock() obtained: cleanup, vpnCancel, SetStatus(Crashed).
Crash ==
    /\ Step("crashLock", "crashBackoff")
    /\ loopMu = Nobody
    /\ loopMu' = LoopRoutine
    /\ status' = "crashed"
    /\ vpnCancelled' = TRUE
    /\ UNCHANGED <<pc, op, result, cancelled, reporting, runner, around>>

\* Mutant: stayHere is not reset after a crash.
StayAfterCrash ==
    /\ Step("crashBackoff", "select")
    /\ loopMu' = Nobody
    /\ UNCHANGED <<status, pc, op, result, cancelled, reporting, connection, around>>

\* logAndWait returns, statusManager.Unlock().
CrashBackoffEnds ==
    /\ Step("crashBackoff", "setup")
    /\ loopMu' = Nobody
    /\ UNCHANGED <<status, pc, op, result, cancelled, reporting, connection, around>>

\* case <-ctx.Done(): cleanup and vpnCancel.
CtxDone ==
    /\ Step("select", "exitWait")
    /\ LoopCtxDone
    /\ vpnCancelled' = TRUE
    /\ UNCHANGED <<stateVars, reporting, runner, around>>

\* <-waitError, close(waitError) and return; closing it twice panics.
Exit ==
    /\ loop = "exitWait"
    /\ runner \in {"failed", "exited", "closed"}
    /\ loop' = IF runner = "closed" THEN "panicked" ELSE "done"
    /\ runner' = "closed"
    /\ UNCHANGED <<stateVars, reporting, vpnCancelled, around>>

-----------------------------------------------------------------------------
(* The runner goroutine: openvpn.Runner.Run with streamLines, or           *)
(* wireguard.Run.                                                          *)

Alive == {"connecting", "up"}

\* tunnelReady <- / ready <- : neither sender watches the context.
RunnerSignals ==
    /\ runner \in Alive
    /\ vpnCancelled => MaySignalLate
    /\ runner' = "signalling"
    /\ UNCHANGED <<stateVars, loop, reporting, vpnCancelled, around>>

\* The connection fails, or OpenVPN exits by itself.
RunnerFails ==
    /\ runner \in Alive
    /\ faults < MaxFaults
    /\ faults' = faults + 1
    /\ \/ runner' = "failed"
       \/ MayExitCleanly /\ runner' = "exited"
    /\ UNCHANGED <<stateVars, loop, reporting, vpnCancelled, monitoring, shutdown, requests, heals>>

\* The cancelled context ends the runner: waitError <- ctx.Err().
RunnerCancelled ==
    /\ runner \in Alive
    /\ vpnCancelled
    /\ runner' = "failed"
    /\ UNCHANGED <<stateVars, loop, reporting, vpnCancelled, around>>

-----------------------------------------------------------------------------
LoopStep ==
    \/ FirstStart \/ ExitIdle \/ Launch \/ SetupFails
    \/ NoEarlyError \/ EarlyEnd \/ EarlyCtxDone
    \/ SignalStatus \/ DropStatus \/ PublishStatus \/ BackoffEnds
    \/ TunnelReady \/ Stop \/ RunnerStopped \/ ConfirmStop \/ Restart
    \/ UnexpectedEnd \/ Crash \/ CrashBackoffEnds \/ CtxDone \/ Exit

RunnerStep == RunnerSignals \/ RunnerFails \/ RunnerCancelled

Next ==
    \/ \E c \in HTTPCallers, o \in Operations : HTTPRequest(c, o)
    \/ \E m \in Monitors : HealthRestart(m) \/ MonitorEnds(m)
    \/ \E c \in Callers : Caller(c)
    \/ Shutdown
    \/ LoopStep
    \/ RunnerStep

Spec == Init /\ [][Next]_vars

(***************************************************************************)
(* Fairness.  A goroutine that can run does run.  A blocked mutex.Lock is  *)
(* served (sync.Mutex hands over to a waiter after 1ms), hence SF where a  *)
(* step waits for loopMu.  A select picks at random among its ready cases, *)
(* so none that stays ready is passed over for ever.  Nothing makes a      *)
(* connection come up, fail or signal, a request arrive or the program     *)
(* stop.                                                                   *)
(***************************************************************************)
LoopFairness ==
    /\ WF_vars(FirstStart) /\ WF_vars(ExitIdle)
    /\ WF_vars(Launch) /\ WF_vars(NoEarlyError) /\ WF_vars(EarlyEnd)
    /\ WF_vars(EarlyCtxDone)
    /\ WF_vars(SignalStatus \/ DropStatus \/ PublishStatus)
    /\ WF_vars(BackoffEnds) /\ WF_vars(CrashBackoffEnds)
    /\ WF_vars(TunnelReady) /\ WF_vars(Stop) /\ WF_vars(Restart)
    /\ WF_vars(RunnerStopped) /\ WF_vars(ConfirmStop)
    /\ WF_vars(UnexpectedEnd) /\ SF_vars(Crash)
    /\ WF_vars(CtxDone) /\ WF_vars(Exit)

Fairness ==
    /\ LoopFairness
    /\ WF_vars(RunnerCancelled)
    /\ \A c \in Callers :
        /\ WF_vars(Caller(c))
        /\ SF_vars((Refuse(c) \/ AcceptRunning(c) \/ AcceptStopped(c)) /\ UNCHANGED loopVars)

FairSpec == Spec /\ Fairness

-----------------------------------------------------------------------------
(* Properties.                                                             *)

\* "stopped" is only published once the runner has ended, and until the next
\* start the loop does nothing but wait: run.go receives from waitError before
\* it confirms the stop.
StoppedMeansDown ==
    status = "stopped" =>
        /\ runner \in {"off", "closed"}
        /\ loop \in {"waitStart", "select", "exitWait", "done"}

\* A connection is only launched when the previous runner has ended, whichever
\* of restart, crash and early error led there: two runners would fight over
\* the interface, the routes and the firewall.
OneConnection ==
    [][runner' = "connecting" /\ runner # "connecting"
        => runner \in {"off", "closed"}]_vars

\* A transient status has a call under way that will settle it, or is what a
\* call whose context was cancelled left behind.
TransientIsOwned ==
    status \in {"starting", "stopping"} =>
        (\E c \in Callers : pc[c] \in Holding) \/ cancelled # {}

\* Only a request ends "stopped": no crash, retry or late report does.
StaysStopped ==
    [][status = "stopped" /\ status' # "stopped" => status' = "starting"]_vars

\* The outcome a caller is about to publish is still what the loop is in: the
\* unexpected error case takes loopMu so that it cannot publish first.
FreshOutcome ==
    \A c \in Callers : At(c, "setStatus") =>
       /\ result[c] = "running" => loop \in {"select", "crashLock", "exitWait", "done"}
       /\ result[c] = "crashed" => loop \in {"backoff", "setup", "done"}
       /\ result[c] = "stopped" => loop \in {"select", "exitWait", "done"}

\* A crashed connection is retried until one is established again, with no
\* request, provided that it does not fail for ever.
Established == loop = "select" /\ runner \in {"connecting", "signalling", "up"}
CrashRecovers == status = "crashed" ~> (Established \/ LoopCtxDone)

\* The waits from which ApplyStatus or Run cannot come back.
CrashMeetsCall ==       \* the loop waits for loopMu, its holder for the loop
    loop = "crashLock" /\ \E c \in Callers : pc[c] \in {"sendStart", "sendStop"}
StopMeetsSignal ==      \* the loop waits for the runner, the runner for the loop
    loop \in {"stopWait", "exitWait"} /\ runner = "signalling"
ExitAfterStop ==        \* the loop waits for a runner that ended at the stop
    loop = "exitWait" /\ runner = "off"
StopAbandoned ==        \* the loop confirms a stop nobody waits for any more
    loop = "stopSend" /\ \A c \in Callers : ~At(c, "awaitStopped")
ReportLost ==           \* the caller waits for a report that was dropped
    ~userTrigger /\ \E c \in Callers : pc[c] \in {"sentStart", "awaitRunning"}
LoopGone ==             \* the caller sends to a loop that has returned
    loop \in {"done", "panicked"}

CircularWait == CrashMeetsCall \/ StopMeetsSignal \/ ExitAfterStop
Wedged == CircularWait \/ StopAbandoned \/ ReportLost \/ LoopGone

\* The list above is complete: every call returns, every restart makes both
\* its calls and returns, unless one of these waits occurs, and so does Run once
\* its context is cancelled.
EveryCallReturnsOrWedges ==
    /\ \A c \in Callers : op[c] # "none" ~> (op[c] = "none" \/ Wedged)
    /\ LoopCtxDone ~> (loop \in {"done", "panicked"} \/ CircularWait \/ StopAbandoned)

\* What the loop promises its callers when no context is cancelled.
Promise == INSTANCE LoopStatus
    WITH owner <- IF loopMu = LoopRoutine THEN Nobody ELSE loopMu
RefinesLoopStatus == Promise!Spec

-----------------------------------------------------------------------------
(* What a comment or a document says and the code does not do.             *)

\* vpn/run.go:115: the crash case takes the lock to keep SetStatus out; it
\* gets the lock and goes on to publish the crash.
CrashIsPublished == loop = "crashLock" ~> status = "crashed"
=============================================================================
