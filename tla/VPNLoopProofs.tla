---------------------------- MODULE VPNLoopProofs ----------------------------
(***************************************************************************)
(* Theorems about VPNLoop, for any number of callers and any bounds.       *)
(***************************************************************************)
EXTENDS VPNLoop, TLAPS

Ended == {"off", "closed"}
Waiting == {"waitStart", "select", "exitWait", "done"}

\* loopMu is held by a caller exactly between the decision and the return of
\* its ApplyStatus, by the loop exactly during the backoff after a crash.
LockInv ==
    /\ MutexHeldInCall
    /\ loopMu = LoopRoutine <=> loop = "crashBackoff"

\* While a change is under way the status is not "stopped"; the loop has no
\* connection when it is asked to start and when its stop is confirmed.
CallInv == \A c \in Callers :
    /\ pc[c] \in Holding => status # "stopped"
    /\ pc[c] = "sendStart" => loop \in Waiting /\ runner \in Ended
    /\ pc[c] = "setStatus" => result[c] \in {"starting", "running", "stopping", "stopped", "crashed"}
    /\ pc[c] = "setStatus" /\ result[c] = "stopped"
        => loop \in {"select", "exitWait", "done"} /\ runner = "off"

\* No connection survives the way back to the setup, and the waitError channel
\* of a connection that was reported running is not closed before Run returns.
ConnectionInv ==
    /\ loop = "waitStart" => runner = "off"
    /\ loop = "stopSend" => runner = "off"
    /\ loop \in {"crashLock", "crashBackoff"} => runner = "off"
    /\ loop \in {"setup", "backoff"} \/ (loop = "report" /\ report = "crashed")
        => LoopCtxDone \/ runner \in Ended
    /\ runner = "closed" => loop \in {"report", "backoff", "setup", "done"}
    /\ runner = "closed" /\ loop = "report" => report = "crashed"
    /\ loop = "report" => report # "none"
    /\ runner # "exited"
    /\ status # "completed"

IInv == TypeOK /\ LockInv /\ CallInv /\ ConnectionInv /\ StoppedMeansDown

-----------------------------------------------------------------------------
(* The invariant is inductive.  "USE" names the definitions every step of a *)
(* proof expands: the invariant, and the frame of the actions.              *)

USE LoopStateAssumption, VPNLoopAssumption

LEMMA InitIInv == Init => IInv
<1> SUFFICES ASSUME Init PROVE IInv
  OBVIOUS
<1> USE DEF IInv, TypeOK, StateTypeOK, LockInv, MutexHeldInCall, CallInv, ConnectionInv,
            StoppedMeansDown, Statuses, Operations, CallerPCs, Holding, LoopPCs,
            RunnerStates, ShutdownPhases, Ended, Waiting, Init
<1>1. TypeOK
  <2>1. StateTypeOK
    OBVIOUS
  <2>2. requests \in 0..MaxRequests /\ faults \in 0..MaxFaults /\ heals \in 0..MaxHeals
    OBVIOUS
  <2>3. QED
    BY <2>1, <2>2
<1>2. LockInv /\ CallInv
  OBVIOUS
<1>3. ConnectionInv /\ StoppedMeansDown
  OBVIOUS
<1>4. QED
  BY <1>1, <1>2, <1>3

\* A step of Run.
LEMMA LoopStepIInv ==
  ASSUME ~MayExitCleanly, IInv, LoopStep
  PROVE  IInv'
<1> USE DEF IInv, TypeOK, StateTypeOK, LockInv, MutexHeldInCall, CallInv, ConnectionInv,
            StoppedMeansDown, Statuses, Operations, CallerPCs, Holding, LoopPCs,
            RunnerStates, ShutdownPhases, Ended, Waiting, LoopCtxDone, At, Goto,
            stateVars, loopVars, reporting, connection, around, counters, Step, AfterReport
<1>1. CASE FirstStart
  BY <1>1 DEF FirstStart, SendStart
<1>2. CASE ExitIdle
  BY <1>2 DEF ExitIdle
<1>3. CASE Launch
  BY <1>3 DEF Launch
<1>4. CASE SetupFails
  BY <1>4 DEF SetupFails
<1>5. CASE NoEarlyError
  BY <1>5 DEF NoEarlyError
<1>6. CASE EarlyEnd
  BY <1>6 DEF EarlyEnd
<1>7. CASE EarlyCtxDone
  BY <1>7 DEF EarlyCtxDone
<1>8. CASE SignalStatus
  <2>1. PICK c \in Callers : ReceiveRunning(c, report)
    BY <1>8 DEF SignalStatus
  <2> USE <1>8, <2>1 DEF SignalStatus, ReceiveRunning
  <2>2. TypeOK'
    OBVIOUS
  <2>3. LockInv'
    OBVIOUS
  <2>4. CallInv'
    OBVIOUS
  <2>5. ConnectionInv'
    OBVIOUS
  <2>6. StoppedMeansDown'
    OBVIOUS
  <2>7. QED
    BY <2>2, <2>3, <2>4, <2>5, <2>6
<1>9. CASE DropStatus
  <2> USE <1>9 DEF DropStatus
  <2>1. TypeOK'
    OBVIOUS
  <2>2. LockInv'
    OBVIOUS
  <2>3. CallInv'
    OBVIOUS
  <2>4. ConnectionInv'
    OBVIOUS
  <2>5. StoppedMeansDown'
    OBVIOUS
  <2>6. QED
    BY <2>1, <2>2, <2>3, <2>4, <2>5
<1>10. CASE PublishStatus
  BY <1>10 DEF PublishStatus, SetStatus
<1>11. CASE BackoffEnds
  BY <1>11 DEF BackoffEnds
<1>12. CASE TunnelReady
  BY <1>12 DEF TunnelReady
<1>13. CASE Stop
  BY <1>13 DEF Stop, SendStop
<1>14. CASE RunnerStopped
  BY <1>14 DEF RunnerStopped
<1>15. CASE ConfirmStop
  BY <1>15 DEF ConfirmStop, ReceiveStopped
<1>16. CASE Restart
  BY <1>16 DEF Restart, SendStart
<1>17. CASE UnexpectedEnd
  BY <1>17 DEF UnexpectedEnd
<1>18. CASE Crash
  BY <1>18 DEF Crash
<1>19. CASE CrashBackoffEnds
  BY <1>19 DEF CrashBackoffEnds
<1>20. CASE CtxDone
  BY <1>20 DEF CtxDone
<1>21. CASE Exit
  BY <1>21 DEF Exit
<1>22. QED
  BY <1>1, <1>2, <1>3, <1>4, <1>5, <1>6, <1>7, <1>8, <1>9, <1>10, <1>11, <1>12, <1>13, <1>14, <1>15, <1>16, <1>17, <1>18, <1>19, <1>20, <1>21 DEF LoopStep

\* A step of the runner.
LEMMA RunnerStepIInv ==
  ASSUME ~MayExitCleanly, IInv, RunnerStep
  PROVE  IInv'
<1> USE DEF IInv, TypeOK, StateTypeOK, LockInv, MutexHeldInCall, CallInv, ConnectionInv,
            StoppedMeansDown, Statuses, Operations, CallerPCs, Holding, LoopPCs,
            RunnerStates, ShutdownPhases, Ended, Waiting, LoopCtxDone, At, Goto,
            stateVars, loopVars, reporting, connection, around, counters
<1>1. CASE RunnerSignals
  BY <1>1 DEF RunnerSignals, Alive
<1>2. CASE RunnerFails
  BY <1>2 DEF RunnerFails, Alive
<1>3. CASE RunnerCancelled
  BY <1>3 DEF RunnerCancelled, Alive
<1>4. QED
  BY <1>1, <1>2, <1>3 DEF RunnerStep

\* A step of ApplyStatus that uses no channel.
LEMMA CallerIInv ==
  ASSUME ~MayExitCleanly, IInv, NEW c \in Callers, Caller(c)
  PROVE  IInv'
<1> USE DEF IInv, TypeOK, StateTypeOK, LockInv, MutexHeldInCall, CallInv, ConnectionInv,
            StoppedMeansDown, Statuses, Operations, CallerPCs, Holding, LoopPCs,
            RunnerStates, ShutdownPhases, Ended, Waiting, LoopCtxDone, At, Goto,
            stateVars, loopVars, reporting, connection, around, counters, Caller
<1>1. CASE Refuse(c)
  BY <1>1 DEF Refuse, Return, Target, CanStart
<1>2. CASE AcceptRunning(c)
  BY <1>2 DEF AcceptRunning, Target, CanStart
<1>3. CASE AcceptStopped(c)
  BY <1>3 DEF AcceptStopped, Target, CanStart
<1>4. CASE EnterSelect(c)
  BY <1>4 DEF EnterSelect
<1>5. CASE GiveUp(c)
  BY <1>5 DEF GiveUp
<1>6. CASE Finish(c)
  BY <1>6 DEF Finish, Return
<1>7. QED
  BY <1>1, <1>2, <1>3, <1>4, <1>5, <1>6 DEF CallerStep

\* A request, the end of a monitor or a step of the shutdown sequence.
LEMMA EnvironmentIInv ==
  ASSUME ~MayExitCleanly, IInv, 
         \/ \E c \in HTTPCallers, o \in Operations : HTTPRequest(c, o)
         \/ \E m \in Monitors : HealthRestart(m) \/ MonitorEnds(m)
         \/ Shutdown
  PROVE  IInv'
<1> USE DEF IInv, TypeOK, StateTypeOK, LockInv, MutexHeldInCall, CallInv, ConnectionInv,
            StoppedMeansDown, Statuses, Operations, CallerPCs, Holding, LoopPCs,
            RunnerStates, ShutdownPhases, Ended, Waiting, LoopCtxDone, At, Goto,
            stateVars, loopVars, reporting, connection, around, counters
<1>1. ASSUME NEW c \in HTTPCallers, NEW o \in Operations, HTTPRequest(c, o)
      PROVE  IInv'
  BY <1>1 DEF HTTPRequest, Request
<1>2. ASSUME NEW m \in Monitors, HealthRestart(m)
      PROVE  IInv'
  BY <1>2 DEF HealthRestart, Request
<1>3. ASSUME NEW m \in Monitors, MonitorEnds(m)
      PROVE  IInv'
  BY <1>3 DEF MonitorEnds
<1>4. CASE Shutdown
  BY <1>4 DEF Shutdown
<1>5. QED
  BY <1>1, <1>2, <1>3, <1>4 DEF Operations

LEMMA IInvStep ==
  ASSUME ~MayExitCleanly, IInv, [Next]_vars
  PROVE  IInv'
<1>1. CASE Next
  BY <1>1, LoopStepIInv, RunnerStepIInv, CallerIInv, EnvironmentIInv DEF Next
<1>2. CASE UNCHANGED vars
  BY <1>2 DEF IInv, TypeOK, StateTypeOK, LockInv, MutexHeldInCall, CallInv, ConnectionInv,
            StoppedMeansDown, Statuses, Operations, CallerPCs, Holding, LoopPCs,
            RunnerStates, ShutdownPhases, Ended, Waiting, LoopCtxDone, stateVars, loopVars,
            reporting, connection, around, counters, vars
<1>3. QED
  BY <1>1, <1>2

LEMMA Invariance == ASSUME ~MayExitCleanly PROVE Spec => []IInv
<1>1. IInv /\ [Next]_vars => IInv'
  BY IInvStep
<1>2. QED
  BY <1>1, InitIInv, PTL DEF Spec

-----------------------------------------------------------------------------
(* The theorems.                                                           *)

\* Every variable keeps its type.
THEOREM TypeCorrect == ASSUME ~MayExitCleanly PROVE Spec => []TypeOK
<1>1. IInv => TypeOK
  BY DEF IInv
<1>2. QED
  BY <1>1, Invariance, PTL

\* "stopped" is published only when the runner has ended and the loop waits.
THEOREM StoppedIsDown == ASSUME ~MayExitCleanly PROVE Spec => []StoppedMeansDown
<1>1. IInv => StoppedMeansDown
  BY DEF IInv
<1>2. QED
  BY <1>1, Invariance, PTL

\* No connection is launched while another is alive.
THEOREM SingleConnection == ASSUME ~MayExitCleanly PROVE Spec => OneConnection
<1>1. IInv /\ [Next]_vars =>
        [runner' = "connecting" /\ runner # "connecting" => runner \in {"off", "closed"}]_vars
  <2> SUFFICES ASSUME IInv, [Next]_vars, runner' = "connecting", runner # "connecting"
               PROVE  runner \in {"off", "closed"}
    OBVIOUS
  <2>1. Launch
    BY DEF IInv, TypeOK, StateTypeOK, Next, vars, loopVars, reporting, connection, around,
        counters, HTTPRequest, HealthRestart, MonitorEnds, Caller, Shutdown, LoopStep,
        FirstStart, ExitIdle, SetupFails, NoEarlyError, EarlyEnd, EarlyCtxDone, SignalStatus,
        DropStatus, PublishStatus, BackoffEnds, TunnelReady, Stop, RunnerStopped, ConfirmStop,
        Restart, UnexpectedEnd, Crash, CrashBackoffEnds, CtxDone, Exit,
        RunnerStep, RunnerSignals, RunnerFails, RunnerCancelled, Alive
  <2>2. QED
    BY <2>1 DEF Launch, Step, IInv, ConnectionInv, Ended
<1>2. QED
  BY <1>1, Invariance, PTL DEF OneConnection, Spec

\* A status "stopped" is left for "starting" alone: whoever publishes anything
\* else is a call under way or a loop that does not wait.
THEOREM StoppedStaysStopped == ASSUME ~MayExitCleanly PROVE Spec => StaysStopped
<1>1. IInv /\ [Next]_vars =>
        [status = "stopped" /\ status' # "stopped" => status' = "starting"]_vars
  <2> SUFFICES ASSUME IInv, [Next]_vars, status = "stopped", status' # "stopped"
               PROVE  status' = "starting"
    OBVIOUS
  <2>1. loop \in Waiting /\ \A c \in Callers : pc[c] # "setStatus"
    <3>1. loop \in Waiting
      BY DEF IInv, StoppedMeansDown, Waiting
    <3>2. \A c \in Callers : pc[c] \notin Holding
      BY DEF IInv, CallInv
    <3>3. QED
      BY <3>1, <3>2 DEF Holding, CallerPCs
  <2>2. /\ ~UNCHANGED status /\ Next
    BY DEF vars, stateVars
  <2>3. ~PublishStatus /\ ~Crash
    BY <2>1 DEF PublishStatus, Crash, Step, Waiting
  <2>4. PICK c \in Callers : CallerStep(c)
    BY <2>2, <2>3 DEF Next, stateVars, HTTPRequest, HealthRestart, Request, MonitorEnds, Caller, Shutdown, LoopStep,
        FirstStart, ExitIdle, Launch, SetupFails, NoEarlyError, EarlyEnd, EarlyCtxDone, SignalStatus, DropStatus,
        BackoffEnds, TunnelReady, Stop, RunnerStopped, ConfirmStop, Restart, UnexpectedEnd, CrashBackoffEnds,
        CtxDone, Exit, SendStart, SendStop, ReceiveRunning, ReceiveStopped,
        RunnerStep, RunnerSignals, RunnerFails, RunnerCancelled
  <2>5. AcceptRunning(c)
    BY <2>1, <2>2, <2>4 DEF CallerStep, Refuse, AcceptStopped, EnterSelect, GiveUp, Finish, At
  <2>6. QED
    BY <2>5 DEF AcceptRunning
<1>2. QED
  BY <1>1, Invariance, PTL DEF StaysStopped, Spec

-----------------------------------------------------------------------------
(* The outcome a call carries from the loop to the status.                 *)

\* A transient status is held by a call, and an outcome is transient only when a
\* context was cancelled; an outcome not yet published is still what the loop is
\* in, for a loop past its backoff only if it is about to return.
OutcomeInv ==
    /\ status \in {"starting", "stopping"} => loopMu \in Callers \/ cancelled # {}
    /\ \A c \in Callers : pc[c] = "setStatus" =>
        /\ result[c] \in {"starting", "stopping"} => cancelled # {}
        /\ result[c] = "crashed" /\ loop = "setup" => LoopCtxDone
    /\ FreshOutcome

LEMMA OutcomeStep ==
  ASSUME ~MayExitCleanly, IInv, OutcomeInv, [Next]_vars
  PROVE  OutcomeInv'
<1> USE DEF IInv, TypeOK, StateTypeOK, LockInv, MutexHeldInCall, CallInv, ConnectionInv,
            CallerPCs, Holding, Ended, Waiting, LoopCtxDone, OutcomeInv, FreshOutcome, At, Goto,
            stateVars, loopVars, reporting, connection, around, counters
<1>1. ASSUME NEW c \in Callers, Caller(c)
      PROVE  OutcomeInv'
  <2> USE <1>1 DEF Caller
  <2>1. CASE Refuse(c)
    BY <2>1 DEF Refuse, Return
  <2>2. CASE AcceptRunning(c)
    BY <2>2 DEF AcceptRunning
  <2>3. CASE AcceptStopped(c)
    BY <2>3 DEF AcceptStopped
  <2>4. CASE EnterSelect(c)
    BY <2>4 DEF EnterSelect
  <2>5. CASE GiveUp(c)
    BY <2>5 DEF GiveUp
  <2>6. CASE Finish(c)
    BY <2>6 DEF Finish, Return
  <2>7. QED
    BY <2>1, <2>2, <2>3, <2>4, <2>5, <2>6 DEF CallerStep
<1>2. CASE LoopStep
  <2> USE DEF Step, AfterReport
  <2>1. CASE FirstStart
    BY <2>1 DEF FirstStart, SendStart
  <2>2. CASE ExitIdle
    BY <2>2 DEF ExitIdle
  <2>3. CASE Launch
    BY <2>3 DEF Launch
  <2>4. CASE SetupFails
    BY <2>4 DEF SetupFails
  <2>5. CASE NoEarlyError
    BY <2>5 DEF NoEarlyError
  <2>6. CASE EarlyEnd
    BY <2>6 DEF EarlyEnd
  <2>7. CASE EarlyCtxDone
    BY <2>7 DEF EarlyCtxDone
  <2>8. CASE SignalStatus
    BY <2>8 DEF SignalStatus, ReceiveRunning
  <2>9. CASE DropStatus
    BY <2>9 DEF DropStatus
  <2>10. CASE PublishStatus
    BY <2>10 DEF PublishStatus, SetStatus
  <2>11. CASE BackoffEnds
    BY <2>11 DEF BackoffEnds, CallersSettled
  <2>12. CASE TunnelReady
    BY <2>12 DEF TunnelReady
  <2>13. CASE Stop
    BY <2>13 DEF Stop, SendStop
  <2>14. CASE RunnerStopped
    BY <2>14 DEF RunnerStopped
  <2>15. CASE ConfirmStop
    BY <2>15 DEF ConfirmStop, ReceiveStopped
  <2>16. CASE Restart
    BY <2>16 DEF Restart, SendStart
  <2>17. CASE UnexpectedEnd
    BY <2>17 DEF UnexpectedEnd
  <2>18. CASE Crash
    BY <2>18 DEF Crash
  <2>19. CASE CrashBackoffEnds
    BY <2>19 DEF CrashBackoffEnds
  <2>20. CASE CtxDone
    BY <2>20 DEF CtxDone
  <2>21. CASE Exit
    BY <2>21 DEF Exit
  <2>22. QED
    BY <1>2, <2>1, <2>2, <2>3, <2>4, <2>5, <2>6, <2>7, <2>8, <2>9,
       <2>10, <2>11, <2>12, <2>13, <2>14, <2>15, <2>16, <2>17, <2>18, <2>19, <2>20, <2>21
    DEF LoopStep
<1>3. CASE RunnerStep
  BY <1>3 DEF RunnerStep, RunnerSignals, RunnerFails, RunnerCancelled
<1>4. ASSUME NEW c \in HTTPCallers, NEW o \in Operations, HTTPRequest(c, o)
      PROVE  OutcomeInv'
  BY <1>4 DEF HTTPRequest, Request
<1>5. ASSUME NEW m \in Monitors, HealthRestart(m)
      PROVE  OutcomeInv'
  BY <1>5 DEF HealthRestart, Request
<1>6. ASSUME NEW m \in Monitors, MonitorEnds(m)
      PROVE  OutcomeInv'
  BY <1>6 DEF MonitorEnds
<1>7. CASE Shutdown
  BY <1>7 DEF Shutdown
<1>8. CASE UNCHANGED vars
  BY <1>8 DEF vars
<1>9. QED
  BY <1>1, <1>2, <1>3, <1>4, <1>5, <1>6, <1>7, <1>8 DEF Next

LEMMA OutcomeInvariance == ASSUME ~MayExitCleanly PROVE Spec => []OutcomeInv
<1>1. Init => OutcomeInv
  BY DEF Init, OutcomeInv, FreshOutcome, At
<1>2. IInv /\ OutcomeInv /\ [Next]_vars => OutcomeInv'
  BY OutcomeStep
<1>3. QED
  BY <1>1, <1>2, Invariance, PTL DEF Spec

\* A transient status has a call under way that will settle it, or was left by a
\* call whose context was cancelled.
THEOREM TransientStatusIsOwned == ASSUME ~MayExitCleanly PROVE Spec => []TransientIsOwned
<1>1. IInv /\ OutcomeInv => TransientIsOwned
  BY DEF IInv, TypeOK, StateTypeOK, LockInv, MutexHeldInCall, OutcomeInv, TransientIsOwned
<1>2. QED
  BY <1>1, Invariance, OutcomeInvariance, PTL

\* run.go:115: what a call publishes is still what the loop is in.
THEOREM OutcomeIsFresh == ASSUME ~MayExitCleanly PROVE Spec => []FreshOutcome
<1>1. OutcomeInv => FreshOutcome
  BY DEF OutcomeInv
<1>2. QED
  BY <1>1, OutcomeInvariance, PTL

-----------------------------------------------------------------------------
(* VPNLoop implements LoopStatus, for any number of callers and any bounds,  *)
(* as long as no context is cancelled, no caller is preempted for long       *)
(* between its send on start and its select, and OpenVPN does not exit by    *)
(* itself with code 0.                                                       *)
Undisturbed == ~MayShutdown /\ ~MayPreempt /\ ~MayExitCleanly

\* No context is cancelled, so that Run is never on its way out.
NotCancelled ==
    /\ cancelled = {} /\ shutdown = "no"
    /\ loop \notin {"exitWait", "done", "panicked"}

\* A call under way keeps the status transient until it publishes the outcome,
\* and nothing else makes it transient.
CallStatusInv ==
    /\ \A c \in Callers :
        /\ pc[c] \in {"sendStart", "sentStart", "awaitRunning"} => status = "starting"
        /\ pc[c] \in {"sendStop", "awaitStopped"} => status = "stopping"
        /\ pc[c] = "setStatus" =>
            \/ result[c] \in {"running", "crashed"} /\ status = "starting"
            \/ result[c] = "stopped" /\ status = "stopping"
    /\ status \in {"starting", "stopping"} => loopMu \in Callers

Outcome(s) == \E c \in Callers : pc[c] = "setStatus" /\ result[c] = s

\* On its way to a report the loop either answers a caller that waits for it or
\* retries what has been published as crashed.
ReportInv ==
    /\ loop = "waitStart" => userTrigger
    /\ loop \in {"setup", "waitForError", "report"} =>
        IF userTrigger
        THEN \E c \in Callers : pc[c] \in {"sentStart", "awaitRunning"}
        ELSE status = "crashed"
    /\ loop = "backoff" => ~userTrigger /\ (status = "crashed" \/ Outcome("crashed"))
    /\ loop = "crashBackoff" => ~userTrigger /\ status = "crashed"

\* Where an established connection is published as running, or is about to be.
RunningInv ==
    /\ loop = "crashLock" => ~userTrigger
    /\ loop = "select" /\ userTrigger => runner = "off"
    /\ loop \in {"stopWait", "stopSend"} => userTrigger
    /\ loop \in {"select", "crashLock"} /\ ~userTrigger =>
        \/ status = "running"
        \/ Outcome("running")
        \/ \E c \in Callers : pc[c] = "sendStop"
    /\ status = "running" \/ Outcome("running") => loop \in {"select", "crashLock"}

RInv == NotCancelled /\ CallStatusInv /\ ReportInv /\ RunningInv

-----------------------------------------------------------------------------
(* The invariant is inductive, on top of IInv.                             *)

LEMMA InitRInv == Init => RInv
BY DEF Init, RInv, NotCancelled, CallStatusInv, ReportInv, RunningInv, Outcome

\* The steps of Run.
LEMMA LoopStepRInv ==
  ASSUME Undisturbed, IInv, RInv, LoopStep
  PROVE  RInv'
<1> USE DEF Undisturbed, IInv, TypeOK, StateTypeOK, LockInv, MutexHeldInCall, CallInv,
            ConnectionInv, StoppedMeansDown, CallerPCs, Holding, Ended, Waiting, LoopCtxDone,
            RInv, NotCancelled, CallStatusInv, ReportInv, RunningInv, Outcome, At, Goto,
            Step, AfterReport, stateVars, reporting, connection, around, counters
<1>1. CASE FirstStart
  BY <1>1 DEF FirstStart, SendStart
<1>2. CASE ExitIdle
  BY <1>2 DEF ExitIdle
<1>3. CASE Launch
  BY <1>3 DEF Launch
<1>4. CASE SetupFails
  BY <1>4 DEF SetupFails
<1>5. CASE NoEarlyError
  BY <1>5 DEF NoEarlyError, CallersSettled
<1>6. CASE EarlyEnd
  BY <1>6 DEF EarlyEnd
<1>7. CASE EarlyCtxDone
  BY <1>7 DEF EarlyCtxDone
<1>8. CASE SignalStatus
  BY <1>8 DEF SignalStatus, ReceiveRunning
<1>9. CASE DropStatus
  BY <1>9 DEF DropStatus
<1>10. CASE PublishStatus
  BY <1>10 DEF PublishStatus, SetStatus
<1>11. CASE BackoffEnds
  BY <1>11 DEF BackoffEnds, CallersSettled
<1>12. CASE TunnelReady
  BY <1>12 DEF TunnelReady
<1>13. CASE Stop
  BY <1>13 DEF Stop, SendStop
<1>14. CASE RunnerStopped
  BY <1>14 DEF RunnerStopped
<1>15. CASE ConfirmStop
  BY <1>15 DEF ConfirmStop, ReceiveStopped
<1>16. CASE Restart
  BY <1>16 DEF Restart, SendStart
<1>17. CASE UnexpectedEnd
  BY <1>17 DEF UnexpectedEnd
<1>18. CASE Crash
  <2> USE <1>18 DEF Crash
  <2>1. \A c \in Callers : pc[c] \in {"idle", "acquire"}
    BY LoopStateAssumption DEF LoopStateAssumption
  <2>2. NotCancelled'
    OBVIOUS
  <2>3. CallStatusInv'
    BY <2>1
  <2>4. ReportInv'
    OBVIOUS
  <2>5. RunningInv'
    BY <2>1
  <2>6. QED
    BY <2>2, <2>3, <2>4, <2>5
<1>19. CASE CrashBackoffEnds
  BY <1>19 DEF CrashBackoffEnds
<1>20. CASE CtxDone
  BY <1>20 DEF CtxDone
<1>21. CASE Exit
  BY <1>21 DEF Exit
<1>22. QED
  BY <1>1, <1>2, <1>3, <1>4, <1>5, <1>6, <1>7, <1>8, <1>9, <1>10, <1>11, <1>12, <1>13, <1>14, <1>15, <1>16, <1>17, <1>18, <1>19, <1>20, <1>21 DEF LoopStep

\* The steps of the runner and of the environment.
LEMMA AroundRInv ==
  ASSUME Undisturbed, IInv, RInv,
         \/ RunnerStep
         \/ \E c \in HTTPCallers, o \in Operations : HTTPRequest(c, o)
         \/ \E m \in Monitors : HealthRestart(m) \/ MonitorEnds(m)
         \/ Shutdown
  PROVE  RInv'
<1> USE DEF Undisturbed, IInv, TypeOK, StateTypeOK, LockInv, MutexHeldInCall, CallInv,
            ConnectionInv, StoppedMeansDown, CallerPCs, Holding, Ended, Waiting, LoopCtxDone,
            RInv, NotCancelled, CallStatusInv, ReportInv, RunningInv, Outcome, At, Goto,
            stateVars, reporting, connection, around, counters
<1>1. CASE RunnerStep
  BY <1>1 DEF RunnerStep, RunnerSignals, RunnerFails, RunnerCancelled, Alive
<1>2. ASSUME NEW c \in HTTPCallers, NEW o \in Operations, HTTPRequest(c, o)
      PROVE  RInv'
  BY <1>2 DEF HTTPRequest, Request
<1>3. ASSUME NEW m \in Monitors, HealthRestart(m)
      PROVE  RInv'
  BY <1>3 DEF HealthRestart, Request
<1>4. ASSUME NEW m \in Monitors, MonitorEnds(m)
      PROVE  RInv'
  BY <1>4 DEF MonitorEnds
<1>5. ~Shutdown
  BY DEF Shutdown
<1>6. QED
  BY <1>1, <1>2, <1>3, <1>4, <1>5

\* The steps of ApplyStatus that use no channel.
LEMMA CallerRInv ==
  ASSUME Undisturbed, IInv, RInv, NEW c \in Callers, Caller(c)
  PROVE  RInv'
<1> USE DEF Undisturbed, IInv, TypeOK, StateTypeOK, LockInv, MutexHeldInCall, CallInv,
            ConnectionInv, StoppedMeansDown, CallerPCs, Holding, Ended, Waiting, LoopCtxDone,
            RInv, NotCancelled, CallStatusInv, ReportInv, RunningInv, Outcome, At, Goto,
            stateVars, loopVars, reporting, connection, around, counters, Caller
<1>1. CASE Refuse(c)
  BY <1>1 DEF Refuse, Return, Target, CanStart
<1>2. CASE AcceptRunning(c)
  BY <1>2 DEF AcceptRunning, Target, CanStart
<1>3. CASE AcceptStopped(c)
  BY <1>3 DEF AcceptStopped, Target, CanStart
<1>4. CASE EnterSelect(c)
  BY <1>4 DEF EnterSelect
<1>5. CASE GiveUp(c)
  BY <1>5 DEF GiveUp
<1>6. CASE Finish(c)
  BY <1>6 DEF Finish, Return
<1>7. QED
  BY <1>1, <1>2, <1>3, <1>4, <1>5, <1>6 DEF CallerStep

LEMMA RInvStep ==
  ASSUME Undisturbed, IInv, RInv, [Next]_vars
  PROVE  RInv'
<1>1. CASE Next
  BY <1>1, LoopStepRInv, AroundRInv, CallerRInv DEF Next
<1>2. CASE UNCHANGED vars
  BY <1>2 DEF RInv, NotCancelled, CallStatusInv, ReportInv, RunningInv, Outcome,
              vars, stateVars, loopVars, reporting, connection, around, counters
<1>3. QED
  BY <1>1, <1>2

-----------------------------------------------------------------------------
(* Each step is a step of LoopStatus or changes nothing it speaks of.      *)

\* Who makes the change under way, as in the mapping of Promise.
Owner == IF loopMu = LoopRoutine THEN Nobody ELSE loopMu

LEMMA InitMaps == Init => Promise!Init
BY LoopStateAssumption DEF LoopStateAssumption, Init, Promise!Init

LEMMA StepMaps ==
  ASSUME Undisturbed, IInv, RInv, [Next]_vars
  PROVE  [Promise!Next]_<<status, Owner>>
<1> USE DEF Undisturbed, Owner, RInv, NotCancelled
<1>1. ASSUME NEW c \in Callers, Caller(c)
      PROVE  [Promise!Next]_<<status, Owner>>
  <2>1. CASE AcceptRunning(c)
    <3>1. Promise!BeginStart(c)
      BY <2>1, LoopStateAssumption DEF LoopStateAssumption, AcceptRunning, CanStart, Promise!BeginStart
    <3>2. QED
      BY <3>1 DEF Promise!Next
  <2>2. CASE AcceptStopped(c)
    <3>1. Promise!BeginStop(c)
      BY <2>2, LoopStateAssumption DEF LoopStateAssumption, AcceptStopped, Promise!BeginStop
    <3>2. QED
      BY <3>1 DEF Promise!Next
  <2>3. CASE Finish(c)
    <3>1. loopMu = c /\ loopMu' = Nobody /\ status' = result[c]
      BY <2>3 DEF Finish, At, IInv, LockInv, MutexHeldInCall, Holding, CallerPCs
    <3>2. Promise!EndStart(c) \/ Promise!EndStop(c)
      BY <2>3, <3>1, LoopStateAssumption
      DEF LoopStateAssumption, Finish, At, CallStatusInv, Promise!EndStart, Promise!EndStop
    <3>3. QED
      BY <3>2 DEF Promise!Next
  <2>4. CASE Refuse(c) \/ EnterSelect(c) \/ GiveUp(c)
    BY <2>4 DEF Refuse, EnterSelect, GiveUp
  <2>5. QED
    BY <1>1, <2>1, <2>2, <2>3, <2>4 DEF Caller, CallerStep
<1>2. CASE Crash
  <2>1. status = "running"
    BY <1>2, LoopStateAssumption
    DEF LoopStateAssumption, Crash, Step, RunningInv, Outcome, IInv, LockInv, MutexHeldInCall,
        Holding, CallerPCs
  <2>2. Promise!Crash
    BY <1>2, <2>1 DEF Crash, Promise!Crash
  <2>3. QED
    BY <2>2 DEF Promise!Next
<1>3. CASE PublishStatus
  <2>1. status = "crashed" /\ report \in {"running", "crashed"}
    BY <1>3 DEF PublishStatus, Step, ReportInv, IInv, TypeOK, ConnectionInv
  <2>2. loopMu \in {Nobody, LoopRoutine}
    BY <2>1 DEF CallStatusInv, IInv, TypeOK, StateTypeOK, LockInv, MutexHeldInCall, Holding,
                CallerPCs
  <2>3. Promise!Retry
    BY <1>3, <2>1, <2>2, LoopStateAssumption
    DEF LoopStateAssumption, PublishStatus, SetStatus, Promise!Retry
  <2>4. QED
    BY <2>3 DEF Promise!Next
<1>4. CASE CrashBackoffEnds
  BY <1>4, LoopStateAssumption
  DEF LoopStateAssumption, CrashBackoffEnds, Step, IInv, LockInv
<1>5. CASE LoopStep /\ ~Crash /\ ~PublishStatus /\ ~CrashBackoffEnds
  BY <1>5 DEF LoopStep, FirstStart, SendStart, ExitIdle, Launch, SetupFails, NoEarlyError,
    EarlyEnd, EarlyCtxDone, SignalStatus, ReceiveRunning, DropStatus, BackoffEnds, TunnelReady,
    Stop, SendStop, RunnerStopped, ConfirmStop, ReceiveStopped, Restart, UnexpectedEnd, CtxDone,
    Exit, stateVars
<1>6. CASE RunnerStep
  BY <1>6 DEF RunnerStep, RunnerSignals, RunnerFails, RunnerCancelled, stateVars
<1>7. ASSUME NEW c \in HTTPCallers, NEW o \in Operations, HTTPRequest(c, o)
      PROVE  [Promise!Next]_<<status, Owner>>
  BY <1>7 DEF HTTPRequest, Request
<1>8. ASSUME NEW m \in Monitors, HealthRestart(m) \/ MonitorEnds(m)
      PROVE  [Promise!Next]_<<status, Owner>>
  BY <1>8 DEF HealthRestart, MonitorEnds, Request, stateVars
<1>9. CASE UNCHANGED vars
  BY <1>9 DEF vars, stateVars
<1>10. ~Shutdown
  BY DEF Shutdown
<1>11. QED
  BY <1>1, <1>2, <1>3, <1>4, <1>5, <1>6, <1>7, <1>8, <1>9, <1>10 DEF Next

-----------------------------------------------------------------------------
\* apply.go:11-15: seen from its callers, ApplyStatus makes one change at a time,
\* from a transient status to the outcome of the loop, and between the changes
\* the loop only crashes and recovers.
THEOREM Refinement == ASSUME Undisturbed PROVE Spec => RefinesLoopStatus
<1>1. IInv /\ RInv /\ [Next]_vars => RInv'
  BY RInvStep
<1>2. IInv /\ RInv /\ [Next]_vars => [Promise!Next]_<<status, Owner>>
  BY StepMaps
<1>3. Spec => []IInv
  BY Invariance DEF Undisturbed
<1>4. QED
  BY <1>1, <1>2, <1>3, InitRInv, InitMaps, PTL
  DEF Spec, RefinesLoopStatus, Promise!Spec, Owner
=============================================================================
