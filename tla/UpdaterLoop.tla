---------------------------- MODULE UpdaterLoop -----------------------------
(* internal/updater/loop: the loop that updates the server lists, the        *)
(* ticker that starts it, the callers of SetStatus (control server handlers) *)
(* and of SetSettings. Three locks (statusMu, loopLock, periodMu), five      *)
(* unbuffered channels and the WaitGroup of the goroutine that updates.      *)
EXTENDS Naturals

CONSTANTS
    UpdaterCallers,     \* callers of SetStatus
    UpdaterRequests,    \* how many calls they make
    UpdaterFaults,      \* how many updates fail
    UpdaterPeriods      \* how many times SetSettings changes the period

None == "none"

UpdaterConstants ==
    /\ UpdaterRequests \in Nat /\ UpdaterFaults \in Nat /\ UpdaterPeriods \in Nat
    /\ None \notin UpdaterCallers

(* A record with the fields:                                                 *)
(*   status, statusMu, loopLock  the status and who holds the two locks      *)
(*   pc, op     where each caller is, and whether it asks to run or to stop  *)
(*   loop       where Run is; crashed its variable                           *)
(*   goroutine  "none", "updating", "failing": sending its error,            *)
(*              "completing": about to publish completed                     *)
(*   cancelled  updateCtx is cancelled                                       *)
(*   ticker     where RunRestartTicker is; armed: its timer runs             *)
(*   period     whether the period is more than 0                            *)
(*   setter     SetSettings: "idle", or "sending" with periodMu held         *)
(*   shutdown   1 control server, 2 tickers, 3 loops have their ctx cancelled *)
(*   requests, faults, periods   used so far                                 *)
VARIABLE updater
-----------------------------------------------------------------------------
Init ==
    \E period \in BOOLEAN :
    updater = [
        status |-> "stopped", statusMu |-> None, loopLock |-> None,
        pc |-> [c \in UpdaterCallers |-> "idle"],
        op |-> [c \in UpdaterCallers |-> "run"],
        loop |-> "idle", crashed |-> FALSE, goroutine |-> "none", cancelled |-> FALSE,
        ticker |-> "select", armed |-> period, period |-> period, setter |-> "idle",
        shutdown |-> 0, requests |-> 0, faults |-> 0, periods |-> 0]

Free == updater.statusMu = None
At(c, place) == updater.pc[c] = place
Receives(channel) ==
    \/ channel = "start" /\ updater.loop \in {"idle", "select"}
    \/ channel = "stop" /\ updater.loop = "select"
-----------------------------------------------------------------------------
(* SetStatus. What the status refuses is refused with statusMu held; else    *)
(* loopLock is waited for with statusMu held.                                *)
Call(c, op) ==
    /\ At(c, "idle") /\ Free /\ updater.shutdown = 0
    /\ updater.requests < UpdaterRequests
    /\ updater.status \in IF op = "run" THEN {"stopped", "completed"} ELSE {"running", "completed"}
    /\ updater' = [updater EXCEPT !.requests = @ + 1, !.statusMu = c,
                                  !.pc[c] = "locking", !.op[c] = op]

TakeLoopLock(c) ==
    /\ At(c, "locking") /\ updater.loopLock = None
    /\ updater' = [updater EXCEPT
           !.loopLock = c, !.statusMu = None, !.pc[c] = "sending",
           !.status = IF updater.op[c] = "run" THEN "starting" ELSE "stopping"]

GiveUp(c) ==
    /\ At(c, "awaiting") /\ updater.shutdown >= 1
    /\ updater' = [updater EXCEPT !.pc[c] = IF updater.op[c] = "run" THEN "starting" ELSE "stopping"]

(* The new status the caller holds is kept as its place.                     *)
Publish(c) ==
    /\ updater.pc[c] \in {"starting", "stopping", "running", "stopped"}
    /\ Free
    /\ updater' = [updater EXCEPT !.status = updater.pc[c], !.loopLock = None,
                                  !.pc[c] = "idle"]
-----------------------------------------------------------------------------
(* Run.                                                                      *)

ReceiveStart(c) ==
    /\ At(c, "sending") /\ updater.op[c] = "run" /\ Receives("start")
    /\ updater' = [updater EXCEPT !.pc[c] = "awaiting", !.cancelled = TRUE,
                                  !.loop = "restarting"]

ReceiveTick ==
    /\ updater.ticker = "starting" /\ Receives("start")
    /\ updater' = [updater EXCEPT !.ticker = "resetting", !.cancelled = TRUE,
                                  !.loop = "restarting"]

WaitForUpdate ==
    /\ updater.loop = "restarting" /\ updater.goroutine = "none"
    /\ updater' = [updater EXCEPT !.loop = "launch"]

(* Once it has crashed the loop never reports to a caller again.             *)
Launch ==
    /\ updater.loop = "launch"
    /\ updater.setter = "idle"                      \* GetSettings
    /\ updater' = IF updater.shutdown = 3
                  THEN [updater EXCEPT !.loop = "exited"]
                  ELSE [updater EXCEPT !.goroutine = "updating", !.cancelled = FALSE,
                                       !.loop = IF updater.crashed THEN "recovered" ELSE "report"]

ReportRunning(c) ==
    /\ updater.loop = "report" /\ At(c, "awaiting") /\ updater.op[c] = "run"
    /\ updater' = [updater EXCEPT !.loop = "select", !.pc[c] = "running"]

PublishRunning ==
    /\ updater.loop = "recovered" /\ Free
    /\ updater' = [updater EXCEPT !.loop = "select", !.status = "running"]

ReceiveStop(c) ==
    /\ At(c, "sending") /\ updater.op[c] = "stop" /\ Receives("stop")
    /\ updater' = [updater EXCEPT !.pc[c] = "awaiting", !.cancelled = TRUE,
                                  !.loop = "stopping"]

\* Mutant: a stop does not wait for the update.
ConfirmAtOnce ==
    /\ updater.loop = "stopping"
    /\ updater' = [updater EXCEPT !.loop = "confirm"]

UpdateStopped ==
    /\ updater.loop = "stopping" /\ updater.goroutine = "none"
    /\ updater' = [updater EXCEPT !.loop = "confirm"]

ConfirmStop(c) ==
    /\ updater.loop = "confirm" /\ At(c, "awaiting") /\ updater.op[c] = "stop"
    /\ updater' = [updater EXCEPT !.loop = "select", !.pc[c] = "stopped"]

(* A failed update: the goroutine ends when its error is received.           *)
ReceiveError ==
    /\ updater.loop = "select" /\ updater.goroutine = "failing"
    /\ updater' = [updater EXCEPT !.loop = "crash", !.goroutine = "none"]

PublishCrash ==
    /\ updater.loop = "crash" /\ Free
    /\ updater' = [updater EXCEPT !.loop = "backoff", !.status = "crashed"]

BackoffEnds ==
    /\ updater.loop = "backoff"
    /\ updater' = [updater EXCEPT !.loop = "launch", !.crashed = TRUE, !.cancelled = TRUE]

CtxDone ==
    /\ updater.loop \in {"idle", "select"} /\ updater.shutdown = 3
    /\ updater' = [updater EXCEPT !.loop = "ending", !.cancelled = TRUE]

Exit ==
    /\ updater.loop = "ending" /\ updater.goroutine = "none"
    /\ updater' = [updater EXCEPT !.loop = "exited"]
-----------------------------------------------------------------------------
(* The goroutine of UpdateServers: whether it was cancelled is read before   *)
(* its error is sent.                                                        *)
UpdateSucceeds ==
    /\ updater.goroutine = "updating"
    /\ updater' = [updater EXCEPT !.goroutine = "completing"]

UpdateFails ==
    /\ updater.goroutine = "updating" /\ ~updater.cancelled
    /\ updater.faults < UpdaterFaults
    /\ updater' = [updater EXCEPT !.goroutine = "failing", !.faults = @ + 1]

UpdateCancelled ==
    /\ updater.goroutine = "updating" /\ updater.cancelled
    /\ updater' = [updater EXCEPT !.goroutine = "none"]

Completed ==
    /\ updater.goroutine = "completing" /\ Free
    /\ updater' = [updater EXCEPT !.goroutine = "none", !.status = "completed"]
-----------------------------------------------------------------------------
(* RunRestartTicker and SetSettings. GetSettings waits for periodMu.         *)

Tick ==
    /\ updater.ticker = "select" /\ updater.armed
    /\ updater' = [updater EXCEPT !.ticker = "starting", !.armed = FALSE]

ResetTimer ==
    /\ updater.ticker = "resetting" /\ updater.setter = "idle"
    /\ updater' = [updater EXCEPT !.ticker = "select", !.armed = TRUE]

SetSettings ==
    /\ updater.setter = "idle" /\ updater.periods < UpdaterPeriods
    /\ updater' = [updater EXCEPT !.setter = "sending", !.period = ~@, !.periods = @ + 1]

\* Mutant: the timer is drained whether it runs or not.
DrainTimer ==
    /\ updater.ticker = "select" /\ updater.setter = "sending"
    /\ updater' = [updater EXCEPT !.ticker = IF updater.armed THEN "reading" ELSE "draining",
                                  !.setter = "idle", !.armed = FALSE]

(* The timer is stopped, and drained only if it was started.                 *)
ReceiveUpdate ==
    /\ updater.ticker = "select" /\ updater.setter = "sending"
    /\ updater' = [updater EXCEPT !.ticker = "reading", !.setter = "idle", !.armed = FALSE]

ReadPeriod ==
    /\ updater.ticker = "reading" /\ updater.setter = "idle"
    /\ updater' = [updater EXCEPT !.ticker = "select", !.armed = updater.period]

TickerDone ==
    /\ updater.ticker = "select" /\ updater.shutdown >= 2
    /\ updater' = [updater EXCEPT !.ticker = "ended", !.armed = FALSE]

Shutdown ==
    /\ updater.shutdown < 3
    /\ updater' = [updater EXCEPT !.shutdown = @ + 1]
-----------------------------------------------------------------------------
CallerStep(c) ==
    \/ TakeLoopLock(c) \/ GiveUp(c) \/ Publish(c)
    \/ ReceiveStart(c) \/ ReceiveStop(c) \/ ReportRunning(c) \/ ConfirmStop(c)

(* What goroutines do as soon as they can.                                   *)
Progress ==
    \/ \E c \in UpdaterCallers : CallerStep(c)
    \/ WaitForUpdate \/ Launch \/ PublishRunning \/ UpdateStopped \/ PublishCrash
    \/ BackoffEnds \/ ReceiveTick \/ ReceiveError \/ CtxDone \/ Exit
    \/ UpdateSucceeds \/ UpdateCancelled \/ Completed
    \/ ResetTimer \/ ReceiveUpdate \/ ReadPeriod \/ TickerDone

Next ==
    \/ Progress
    \/ \E c \in UpdaterCallers, op \in {"run", "stop"} : Call(c, op)
    \/ UpdateFails \/ Tick \/ SetSettings \/ Shutdown

Spec == Init /\ [][Next]_updater
-----------------------------------------------------------------------------
TypeOK ==
    updater \in [
        status : {"stopped", "starting", "running", "stopping", "completed", "crashed"},
        statusMu : UpdaterCallers \cup {None}, loopLock : UpdaterCallers \cup {None},
        pc : [UpdaterCallers -> {"idle", "locking", "sending", "awaiting", "starting", "stopping",
                          "running", "stopped"}],
        op : [UpdaterCallers -> {"run", "stop"}],
        loop : {"idle", "report", "recovered", "select", "restarting", "launch", "stopping",
                "confirm", "crash", "backoff", "ending", "exited"},
        crashed : BOOLEAN, goroutine : {"none", "updating", "failing", "completing"},
        cancelled : BOOLEAN,
        ticker : {"select", "starting", "resetting", "reading", "ended"},
        armed : BOOLEAN, period : BOOLEAN, setter : {"idle", "sending"},
        shutdown : 0 .. 3, requests : 0 .. UpdaterRequests, faults : 0 .. UpdaterFaults,
        periods : 0 .. UpdaterPeriods]

(* An update is launched, a stop confirmed and the loop left only when       *)
(* nothing updates, so that two updates never write the server lists.        *)
OneUpdateAtATime ==
    updater.loop \in {"launch", "confirm", "crash", "backoff", "exited"} => updater.goroutine = "none"

(* The status says stopped during an update only if the ticker started it,   *)
(* and then Run is stuck with its report, or had crashed once.               *)
StoppedTellsTheTruth ==
    updater.status = "stopped" =>
        updater.goroutine = "none" \/ updater.loop = "report" \/ updater.crashed

(* Who waits for ever: the loop reports to a ticker's start, or to a caller  *)
(* that gave up; a caller awaits a report after the first crash; a caller    *)
(* holds statusMu, which the holder of loopLock needs to publish; the loop   *)
(* waits for an update that sends it an error; the ticker, or the loop,      *)
(* needs periodMu of a SetSettings that waits for the ticker; the loop has   *)
(* ended.                                                                    *)
Wedged ==
    \/ updater.crashed /\ \E c \in UpdaterCallers : At(c, "awaiting") /\ updater.op[c] = "run"
    \/ updater.loop = "report" /\ \A c \in UpdaterCallers : ~(At(c, "awaiting") /\ updater.op[c] = "run")
    \/ updater.loop = "confirm" /\ \A c \in UpdaterCallers : ~(At(c, "awaiting") /\ updater.op[c] = "stop")
    \/ updater.statusMu # None /\ updater.loopLock # None
    \/ updater.goroutine = "failing" /\ updater.loop \in {"stopping", "restarting", "ending"}
    \/ updater.setter = "sending" /\ updater.ticker # "select"
    \/ updater.loop = "exited" /\ (updater.ticker = "starting" \/ \E c \in UpdaterCallers : At(c, "sending"))

(* When nothing can go on, every SetStatus and SetSettings has returned, the *)
(* ticker's start was received, and a program that was shut down has ended,  *)
(* but for these.                                                            *)
BlockedOnlyIfWedged ==
    \/ ENABLED Progress
    \/ Wedged
    \/ /\ \A c \in UpdaterCallers : At(c, "idle")
       /\ updater.setter = "idle" /\ updater.ticker # "starting"
       /\ updater.shutdown = 3 => updater.loop = "exited" /\ updater.ticker = "ended"
=============================================================================
