--------------------------- MODULE ShadowsocksLoop --------------------------
(* internal/shadowsocks: Run, which keeps the server listening, and the      *)
(* calls of SetStatus: that of the goroutine Run starts when the server is   *)
(* enabled, and those of SetSettings (exported, and without a caller in the  *)
(* program today).                                                           *)
EXTENDS Naturals

CONSTANTS
    SSStarter,      \* the goroutine that Run starts
    SSCallers,      \* callers of SetSettings
    SSRequests,     \* how many calls they make
    SSFaults        \* servers that cannot be made or fail to listen

SSConstants == SSStarter \notin SSCallers /\ SSRequests \in Nat /\ SSFaults \in Nat

Goroutines == SSCallers \cup {SSStarter}
Free == "free"

(* A record with the fields:                                                 *)
(*   status, statusMu, loopLock, pc, op   of SetStatus; "restart" is its two *)
(*              calls                                                        *)
(*   loop       where Run is; crashed its variable                           *)
(*   listen     the goroutine that listens: "none", "up", "ended": it sends  *)
(*              on waitError; closed: that channel is closed                 *)
(*   timer      isStableTimer: "running", "received"                         *)
(*   stops      whether a stop was ever received                             *)
(*   shutdown, requests, faults                                              *)
VARIABLE ss
-----------------------------------------------------------------------------
Init ==
    \E enabled \in BOOLEAN :
    ss = [status |-> "stopped", statusMu |-> Free, loopLock |-> Free,
          pc |-> [g \in Goroutines |-> IF g = SSStarter /\ enabled THEN "call" ELSE "idle"],
          op |-> [g \in Goroutines |-> "run"],
          loop |-> "idle", crashed |-> FALSE, listen |-> "none", closed |-> FALSE,
          timer |-> "received", stops |-> FALSE, shutdown |-> FALSE, requests |-> 0, faults |-> 0]

At(g, place) == ss.pc[g] = place
Place(place) == ss.loop = place
Cancelled == ss.shutdown \/ ss.loop \in {"restarting", "stopping", "ending"}

(* The end of one SetStatus: a restart goes on with its second call.         *)
Returned(g) == IF ss.op[g] = "restart" THEN "call" ELSE "idle"
NextOp(g) == IF ss.op[g] = "restart" THEN "run" ELSE ss.op[g]
-----------------------------------------------------------------------------
SetSettings(g, op) ==
    /\ g \in SSCallers /\ At(g, "idle") /\ ss.requests < SSRequests
    /\ ss' = [ss EXCEPT !.pc[g] = "call", !.op[g] = op, !.requests = @ + 1]

Accepts(g) ==
    ss.status \in IF ss.op[g] = "run" THEN {"stopped", "completed"} ELSE {"running", "completed"}

Refuse(g) ==
    /\ At(g, "call") /\ ss.statusMu = Free /\ ~Accepts(g)
    /\ ss' = [ss EXCEPT !.pc[g] = Returned(g), !.op[g] = NextOp(g)]

(* loopLock is waited for with statusMu held.                                *)
Accept(g) ==
    /\ At(g, "call") /\ ss.statusMu = Free /\ Accepts(g)
    /\ ss' = [ss EXCEPT !.pc[g] = "locking", !.statusMu = g]

TakeLoopLock(g) ==
    /\ At(g, "locking") /\ ss.loopLock = Free
    /\ ss' = [ss EXCEPT !.pc[g] = "sending", !.statusMu = Free, !.loopLock = g,
                        !.status = IF ss.op[g] = "run" THEN "starting" ELSE "stopping"]

GiveUp(g) ==
    /\ At(g, "awaiting") /\ ss.shutdown
    /\ ss' = [ss EXCEPT !.pc[g] = IF ss.op[g] = "run" THEN "starting" ELSE "stopping"]

(* The place of a caller that has its outcome is that outcome.               *)
Publish(g) ==
    /\ ss.pc[g] \in {"starting", "stopping", "running", "stopped"}
    /\ ss.statusMu = Free
    /\ ss' = [ss EXCEPT !.status = ss.pc[g], !.loopLock = Free,
                        !.pc[g] = Returned(g), !.op[g] = NextOp(g)]
-----------------------------------------------------------------------------
(* Run. A server that cannot be made counts as a crash.                      *)
Launch ==
    /\ Place("launch")
    /\ \/ ss.shutdown /\ ss' = [ss EXCEPT !.loop = "exited"]
       \/ /\ ~ss.shutdown /\ ss.faults < SSFaults
          /\ ss' = [ss EXCEPT !.crashed = TRUE, !.faults = @ + 1]
       \/ /\ ~ss.shutdown
          /\ ss' = [ss EXCEPT !.loop = "select", !.listen = "up", !.closed = FALSE,
                              !.timer = "running"]

ListenEnds ==
    /\ ss.listen = "up"
    /\ \/ Cancelled /\ ss' = [ss EXCEPT !.listen = "ended"]
       \/ /\ ~Cancelled /\ ss.faults < SSFaults
          /\ ss' = [ss EXCEPT !.listen = "ended", !.faults = @ + 1]

(* The server has listened for a second.                                     *)
Stable ==
    /\ Place("select") /\ ss.timer = "running"
    /\ ss' = [ss EXCEPT !.timer = "received",
                        !.loop = IF ss.crashed THEN "recovered" ELSE "report"]

ReportRunning(g) ==
    /\ Place("report") /\ At(g, "awaiting") /\ ss.op[g] = "run"
    /\ ss' = [ss EXCEPT !.pc[g] = "running", !.loop = "select"]

PublishRunning ==
    /\ Place("recovered") /\ ss.statusMu = Free
    /\ ss' = [ss EXCEPT !.status = "running", !.loop = "select"]

ReceiveStart(g) ==
    /\ At(g, "sending") /\ ss.op[g] = "run" /\ ss.loop \in {"idle", "select"}
    /\ ss' = [ss EXCEPT !.pc[g] = "awaiting",
                        !.loop = IF @ = "idle" THEN "launch" ELSE "restarting"]

ReceiveStop(g) ==
    /\ At(g, "sending") /\ ss.op[g] # "run" /\ Place("select")
    /\ ss' = [ss EXCEPT !.pc[g] = "awaiting", !.loop = "stopping", !.stops = TRUE]

CtxDone ==
    /\ ss.loop \in {"idle", "select"} /\ ss.shutdown
    /\ ss' = [ss EXCEPT !.loop = IF @ = "idle" THEN "exited" ELSE "ending"]

\* Mutant: the channel is closed without receiving from it.
CloseOnly(from, to) ==
    /\ Place(from)
    /\ ss' = [ss EXCEPT !.closed = TRUE,
                        !.loop = IF ss.closed \/ ss.listen = "ended" THEN "panicked" ELSE to]

(* <-waitError, then close(waitError): received from the goroutine, or at    *)
(* once when it is closed, and a second close panics.                        *)
WaitError(from, to) ==
    /\ Place(from) /\ (ss.listen = "ended" \/ ss.closed)
    /\ ss' = [ss EXCEPT !.listen = IF ss.closed THEN @ ELSE "none", !.closed = TRUE,
                        !.loop = IF ss.closed THEN "panicked" ELSE to]

ConfirmStop(g) ==
    /\ Place("confirm") /\ At(g, "awaiting") /\ ss.op[g] # "run"
    /\ ss' = [ss EXCEPT !.pc[g] = "stopped", !.loop = "select"]

(* An error received once ctx is done ends Run.                              *)
Crash ==
    /\ Place("crash")
    /\ \/ ss.shutdown /\ ss' = [ss EXCEPT !.loop = "exited"]
       \/ /\ ~ss.shutdown /\ ss.statusMu = Free
          /\ ss' = [ss EXCEPT !.loop = "drain", !.status = "crashed", !.crashed = TRUE]

(* A timer that was received from before is drained for ever.                *)
DrainTimer ==
    /\ Place("drain") /\ ss.timer = "running"
    /\ ss' = [ss EXCEPT !.loop = "launch"]

Shutdown ==
    /\ ~ss.shutdown
    /\ ss' = [ss EXCEPT !.shutdown = TRUE]
-----------------------------------------------------------------------------
Progress ==
    \/ \E g \in Goroutines :
         \/ Refuse(g) \/ Accept(g) \/ TakeLoopLock(g) \/ GiveUp(g) \/ Publish(g)
         \/ ReportRunning(g) \/ ReceiveStart(g) \/ ReceiveStop(g) \/ ConfirmStop(g)
    \/ Launch \/ Stable \/ PublishRunning \/ CtxDone \/ Crash \/ DrainTimer
    \/ Cancelled /\ ListenEnds
    \/ WaitError("restarting", "drain") \/ WaitError("stopping", "confirm")
    \/ WaitError("ending", "exited") \/ WaitError("select", "crash")

Next ==
    /\ ~Place("panicked")
    /\ \/ Progress
       \/ \E g \in SSCallers, op \in {"run", "stop", "restart"} : SetSettings(g, op)
       \/ ListenEnds \/ Shutdown

Spec == Init /\ [][Next]_ss
-----------------------------------------------------------------------------
TypeOK ==
    ss \in [status : {"stopped", "starting", "running", "stopping", "crashed"},
            statusMu : Goroutines \cup {Free}, loopLock : Goroutines \cup {Free},
            pc : [Goroutines -> {"idle", "call", "locking", "sending", "awaiting", "starting",
                                 "stopping", "running", "stopped"}],
            op : [Goroutines -> {"run", "stop", "restart"}],
            loop : {"idle", "launch", "select", "report", "recovered", "restarting", "stopping",
                    "confirm", "crash", "drain", "ending", "exited", "panicked"},
            crashed : BOOLEAN, listen : {"none", "up", "ended"}, closed : BOOLEAN,
            timer : {"running", "received"}, stops : BOOLEAN, shutdown : BOOLEAN,
            requests : 0 .. SSRequests, faults : 0 .. SSFaults]

(* Closing the channel twice needs a stop before it: never in a program that *)
(* only starts the server and shuts it down.                                 *)
PanicsOnlyAfterStop == Place("panicked") => ss.stops

(* Two servers never listen at once.                                         *)
OneServer == Place("launch") => ss.listen = "none"

(* Who waits for ever: the loop, with a report nobody awaits, with a timer   *)
(* that it had received from, or with a confirmation nobody awaits; a caller *)
(* that awaits a report of a loop that crashed; a caller that holds          *)
(* statusMu, which the holder of loopLock or the loop needs; those who call  *)
(* a loop that ended or that waits for ever; and a panic ends all.           *)
Wedged ==
    \/ Place("report") /\ \A g \in Goroutines : ~(At(g, "awaiting") /\ ss.op[g] = "run")
    \/ Place("confirm") /\ \A g \in Goroutines : ~(At(g, "awaiting") /\ ss.op[g] # "run")
    \/ Place("drain") /\ ss.timer = "received"
    \/ ss.crashed /\ \E g \in Goroutines : At(g, "awaiting") /\ ss.op[g] = "run"
    \/ ss.statusMu # Free /\ ss.loopLock # Free
    \/ Place("exited") /\ \E g \in Goroutines : At(g, "sending")
    \/ Place("panicked")

(* When nothing can go on, every call has returned and a loop that was shut  *)
(* down has ended, but for these.                                            *)
BlockedOnlyIfWedged ==
    \/ ENABLED Progress
    \/ Wedged
    \/ (\A g \in Goroutines : At(g, "idle")) /\ (ss.shutdown => Place("exited"))
=============================================================================
