------------------------------ MODULE LoopState ------------------------------
(***************************************************************************)
(* internal/loopstate: the status of a service loop, and ApplyStatus, by   *)
(* which other goroutines ask the loop to start or to stop.                *)
(*                                                                         *)
(* The module holds the callers' half of the protocol.  The four channels  *)
(* (start, running, stop, stopped) are unbuffered: a send and its receive  *)
(* are one step, whose loop half the module of each loop conjoins with     *)
(* SendStart, ReceiveRunning, SendStop and ReceiveStopped below.           *)
(***************************************************************************)
EXTENDS FiniteSets, Naturals

CONSTANTS
    Callers,        \* goroutines that call ApplyStatus
    Nobody,         \* loopMu is free
    LoopRoutine     \* the loop's own goroutine, which may hold loopMu too

ASSUME LoopStateAssumption ==
    /\ Nobody \notin Callers
    /\ LoopRoutine \notin Callers
    /\ Nobody # LoopRoutine

VARIABLES
    status,     \* State.status
    loopMu,     \* the holder of State.loopMu
    pc,         \* where each caller is inside ApplyStatus
    op,         \* what each caller still has to ask for
    result,     \* the outcome of each caller's last ApplyStatus
    cancelled   \* callers whose context is cancelled

stateVars == <<status, loopMu, pc, op, result, cancelled>>

Statuses == {"starting", "running", "stopping", "stopped", "crashed", "completed"}

\* A restart is ApplyStatus(Stopped) and then ApplyStatus(Running).
Operations == {"run", "stop", "restart"}

CallerPCs == {"idle", "acquire", "sendStart", "sentStart", "awaitRunning",
              "sendStop", "awaitStopped", "setStatus"}

\* Places of ApplyStatus at which the call holds loopMu.
Holding == CallerPCs \ {"idle", "acquire"}

StateTypeOK ==
    /\ status \in Statuses
    /\ loopMu \in Callers \union {Nobody, LoopRoutine}
    /\ pc \in [Callers -> CallerPCs]
    /\ op \in [Callers -> Operations \union {"none"}]
    /\ result \in [Callers -> Statuses \union {"none", "refused"}]
    /\ cancelled \subseteq Callers

\* New(status, ...), before any call.
StateInit(initial) ==
    /\ status = initial
    /\ loopMu = Nobody
    /\ pc = [c \in Callers |-> "idle"]
    /\ op = [c \in Callers |-> "none"]
    /\ result = [c \in Callers |-> "none"]
    /\ cancelled = {}

-----------------------------------------------------------------------------
At(c, place) == pc[c] = place

Goto(c, place) == pc' = [pc EXCEPT ![c] = place]

\* The status the current ApplyStatus of c asks for.
Target(c) == IF op[c] = "run" THEN "running" ELSE "stopped"

\* The end of one ApplyStatus: a restart goes on with its second call.
Return(c) ==
    /\ op' = [op EXCEPT ![c] = IF @ = "restart" THEN "run" ELSE "none"]
    /\ Goto(c, IF op[c] = "restart" THEN "acquire" ELSE "idle")

\* A goroutine enters ApplyStatus (or a restart).
Request(c, o) ==
    /\ At(c, "idle")
    /\ op' = [op EXCEPT ![c] = o]
    /\ result' = [result EXCEPT ![c] = "none"]
    /\ Goto(c, "acquire")
    /\ UNCHANGED <<status, loopMu, cancelled>>

CanStart == status \in {"stopped", "completed"}

\* Mutant: a refused request goes on to publish its outcome.
RefuseAndPublish(c) ==
    /\ At(c, "acquire")
    /\ loopMu = Nobody
    /\ IF Target(c) = "running" THEN ~CanStart ELSE status # "running"
    /\ loopMu' = c
    /\ result' = [result EXCEPT ![c] = "refused"]
    /\ Goto(c, "setStatus")
    /\ UNCHANGED <<status, op, cancelled>>

\* loopMu.Lock, then under statusMu: the request is refused ("already ...").
Refuse(c) ==
    /\ At(c, "acquire")
    /\ loopMu = Nobody
    /\ IF Target(c) = "running" THEN ~CanStart ELSE status # "running"
    /\ result' = [result EXCEPT ![c] = "refused"]
    /\ Return(c)
    /\ UNCHANGED <<status, loopMu, cancelled>>

\* loopMu.Lock, then under statusMu: Running is accepted, status = Starting.
AcceptRunning(c) ==
    /\ At(c, "acquire")
    /\ loopMu = Nobody
    /\ Target(c) = "running"
    /\ CanStart
    /\ loopMu' = c
    /\ status' = "starting"
    /\ Goto(c, "sendStart")
    /\ UNCHANGED <<op, result, cancelled>>

\* loopMu.Lock, then under statusMu: Stopped is accepted, status = Stopping.
AcceptStopped(c) ==
    /\ At(c, "acquire")
    /\ loopMu = Nobody
    /\ Target(c) = "stopped"
    /\ status = "running"
    /\ loopMu' = c
    /\ status' = "stopping"
    /\ Goto(c, "sendStop")
    /\ UNCHANGED <<op, result, cancelled>>

\* s.start <- struct{}{}: the send watches no context.
SendStart(c) ==
    /\ At(c, "sendStart")
    /\ Goto(c, "sentStart")
    /\ UNCHANGED <<status, loopMu, op, result, cancelled>>

\* From the completed send to the select that receives from running.
EnterSelect(c) ==
    /\ At(c, "sentStart")
    /\ Goto(c, "awaitRunning")
    /\ UNCHANGED <<status, loopMu, op, result, cancelled>>

\* newStatus = <-s.running
ReceiveRunning(c, newStatus) ==
    /\ At(c, "awaitRunning")
    /\ result' = [result EXCEPT ![c] = newStatus]
    /\ Goto(c, "setStatus")
    /\ UNCHANGED <<status, loopMu, op, cancelled>>

\* s.stop <- struct{}{}: the send watches no context.
SendStop(c) ==
    /\ At(c, "sendStop")
    /\ Goto(c, "awaitStopped")
    /\ UNCHANGED <<status, loopMu, op, result, cancelled>>

\* <-s.stopped
ReceiveStopped(c) ==
    /\ At(c, "awaitStopped")
    /\ result' = [result EXCEPT ![c] = "stopped"]
    /\ Goto(c, "setStatus")
    /\ UNCHANGED <<status, loopMu, op, cancelled>>

\* <-ctx.Done() in either select: newStatus keeps its value for a cancelled context.
GiveUp(c) ==
    /\ c \in cancelled
    /\ \/ /\ At(c, "awaitRunning")
          /\ result' = [result EXCEPT ![c] = "starting"]
       \/ /\ At(c, "awaitStopped")
          /\ result' = [result EXCEPT ![c] = "stopping"]
    /\ Goto(c, "setStatus")
    /\ UNCHANGED <<status, loopMu, op, cancelled>>

\* Mutant: the outcome is not published.
FinishSilently(c) ==
    /\ At(c, "setStatus")
    /\ loopMu' = Nobody
    /\ Return(c)
    /\ UNCHANGED <<status, result, cancelled>>

\* s.SetStatus(newStatus), then the deferred loopMu.Unlock.
Finish(c) ==
    /\ At(c, "setStatus")
    /\ status' = result[c]
    /\ loopMu' = Nobody
    /\ Return(c)
    /\ UNCHANGED <<result, cancelled>>

\* The steps of ApplyStatus that involve no channel.
CallerStep(c) ==
    \/ Refuse(c)
    \/ AcceptRunning(c)
    \/ AcceptStopped(c)
    \/ EnterSelect(c)
    \/ GiveUp(c)
    \/ Finish(c)

\* SetStatus, called by the loop.
SetStatus(newStatus) ==
    /\ status' = newStatus
    /\ UNCHANGED <<loopMu, pc, op, result, cancelled>>

-----------------------------------------------------------------------------
\* loopMu is held by a caller exactly between the decision and the return of
\* its ApplyStatus.
MutexHeldInCall == \A c \in Callers : (pc[c] \in Holding) <=> (loopMu = c)
=============================================================================
