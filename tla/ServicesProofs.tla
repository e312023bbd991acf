---------------------------- MODULE ServicesProofs ---------------------------
(* Theorems about Services, for any callers, addresses, files, periods and   *)
(* bounds.  Each service has an invariant of its own, which its steps        *)
(* preserve; a behaviour of the whole is one of each service, which takes    *)
(* its steps or rests.                                                       *)
EXTENDS Services, TLAPS, SequenceTheorems, FunctionTheorems

USE ServicesAssumption
-----------------------------------------------------------------------------
(* UpdaterLoop: who holds the locks, and what the loop still has running.   *)

UpdaterInv ==
    /\ UpdaterService!TypeOK
    \* The locks are held by those who are where they hold them.
    /\ \A c \in UpdaterCallers :
         /\ updater.pc[c] \in {"sending", "awaiting", "starting", "stopping", "running", "stopped"}
              <=> updater.loopLock = c
         /\ updater.pc[c] \in {"starting", "running"} => updater.op[c] = "run"
         /\ updater.pc[c] \in {"stopping", "stopped"} => updater.op[c] = "stop"
    \* Nothing updates where the loop says so.
    /\ updater.loop \in {"idle", "launch", "confirm", "crash", "backoff", "exited"} =>
         updater.goroutine = "none"
    /\ updater.loop = "recovered" => updater.crashed
    \* What says stopped, or is about to, is true; who asks to run has undone it.
    /\ updater.status = "stopped" \/ (\E c \in UpdaterCallers : updater.pc[c] = "stopped") =>
         updater.goroutine = "none" \/ updater.loop = "report" \/ updater.crashed
    /\ \A c \in UpdaterCallers :
         updater.loopLock = c /\ updater.op[c] = "run" => updater.status # "stopped"

UpdaterPlaces ==
    [UpdaterCallers -> {"idle", "locking", "sending", "awaiting", "starting", "stopping", "running", "stopped"}]

LEMMA UpdaterLocks ==
  /\ "none" \notin UpdaterCallers
  /\ UpdaterRequests \in Nat /\ UpdaterFaults \in Nat /\ UpdaterPeriods \in Nat
BY DEF ServicesAssumption, UpdaterService!UpdaterConstants, UpdaterService!None

LEMMA UpdaterInitInv == UpdaterService!Init => UpdaterInv
BY UpdaterLocks DEF UpdaterService!Init, UpdaterInv, UpdaterService!TypeOK, UpdaterService!None

LEMMA UpdaterCallerSteps ==
  ASSUME UpdaterInv, NEW c \in UpdaterCallers,
         UpdaterService!CallerStep(c) \/ (\E o \in {"run", "stop"} : UpdaterService!Call(c, o))
  PROVE  UpdaterInv'
<1>0. /\ UpdaterService!TypeOK
      /\ updater.op \in [UpdaterCallers -> {"run", "stop"}]
      /\ updater.pc \in UpdaterPlaces
  BY DEF UpdaterInv, UpdaterService!TypeOK, UpdaterPlaces
<1>1. ASSUME NEW o \in {"run", "stop"}, UpdaterService!Call(c, o) PROVE UpdaterInv'
  <2>1. /\ updater.pc[c] = "idle" /\ updater.requests + 1 \in 0 .. UpdaterRequests
    BY <1>0, <1>1, UpdaterLocks DEF UpdaterService!TypeOK, UpdaterService!Call,
       UpdaterService!At, UpdaterService!Free
  <2> DEFINE places == [updater.pc EXCEPT ![c] = "locking"]
             ops == [updater.op EXCEPT ![c] = o]
             requests == updater.requests + 1
  <2>2. updater' = [updater EXCEPT !.requests = requests, !.statusMu = c, !.pc = places, !.op = ops]
    BY <1>0, <1>1 DEF UpdaterService!TypeOK, UpdaterService!Call, UpdaterService!At,
       UpdaterService!Free
  <2>3. /\ places \in UpdaterPlaces /\ ops \in [UpdaterCallers -> {"run", "stop"}]
        /\ requests \in 0 .. UpdaterRequests
    BY <1>0, <2>1 DEF UpdaterPlaces
  <2> HIDE DEF places, ops, requests
  <2>4. UpdaterService!TypeOK'
    BY <1>0, <2>2, <2>3 DEF UpdaterService!TypeOK, UpdaterPlaces
  <2>5. /\ updater'.status = updater.status /\ updater'.loopLock = updater.loopLock
        /\ updater'.pc = [updater.pc EXCEPT ![c] = "locking"]
        /\ updater'.op = [updater.op EXCEPT ![c] = o]
        /\ updater'.loop = updater.loop /\ updater'.goroutine = updater.goroutine
        /\ updater'.crashed = updater.crashed
    BY <1>0, <1>1, <2>1 DEF UpdaterService!TypeOK, UpdaterService!Call,
       UpdaterService!At, UpdaterService!Free
  <2>6. QED
    BY <1>0, <2>1, <2>2, <2>3, <2>4, <2>5, UpdaterLocks DEF UpdaterInv, UpdaterPlaces
<1>2. ASSUME UpdaterService!TakeLoopLock(c) PROVE UpdaterInv'
  <2>1. /\ updater.loopLock = "none" /\ updater.pc[c] = "locking"
    BY <1>2 DEF UpdaterService!TakeLoopLock, UpdaterService!At, UpdaterService!None
  <2>2. UpdaterService!TypeOK'
    BY <1>0, <1>2, <2>1, ZenonT(60) DEF UpdaterService!TypeOK, UpdaterService!TakeLoopLock,
       UpdaterService!At, UpdaterService!None
  <2>3. /\ updater'.status = (IF updater.op[c] = "run" THEN "starting" ELSE "stopping")
        /\ updater'.loopLock = c
        /\ updater'.pc = [updater.pc EXCEPT ![c] = "sending"]
        /\ updater'.op = updater.op /\ updater'.loop = updater.loop
        /\ updater'.goroutine = updater.goroutine
        /\ updater'.crashed = updater.crashed
    BY <1>0, <1>2, <2>1 DEF UpdaterService!TypeOK, UpdaterService!TakeLoopLock,
       UpdaterService!At, UpdaterService!None
  <2>4. QED
    BY <1>0, <2>1, <2>2, <2>3, UpdaterLocks DEF UpdaterInv, UpdaterPlaces
<1>3. ASSUME UpdaterService!GiveUp(c) PROVE UpdaterInv'
  <2>1. /\ updater.pc[c] = "awaiting"
    BY <1>3 DEF UpdaterService!GiveUp, UpdaterService!At
  <2>2. UpdaterService!TypeOK'
    BY <1>0, <1>3, <2>1 DEF UpdaterService!TypeOK, UpdaterService!GiveUp,
       UpdaterService!At
  <2>3. /\ updater'.status = updater.status /\ updater'.loopLock = updater.loopLock
        /\ updater'.pc = [updater.pc EXCEPT ![c] = (IF updater.op[c] = "run" THEN "starting" ELSE "stopping")]
        /\ updater'.op = updater.op /\ updater'.loop = updater.loop
        /\ updater'.goroutine = updater.goroutine
        /\ updater'.crashed = updater.crashed
    BY <1>0, <1>3, <2>1 DEF UpdaterService!TypeOK, UpdaterService!GiveUp,
       UpdaterService!At
  <2>4. QED
    BY <1>0, <2>1, <2>2, <2>3, UpdaterLocks DEF UpdaterInv, UpdaterPlaces
<1>4. ASSUME UpdaterService!Publish(c) PROVE UpdaterInv'
  <2>1. /\ updater.pc[c] \in {"starting", "stopping", "running", "stopped"}
    BY <1>4 DEF UpdaterService!Publish, UpdaterService!Free, UpdaterService!None
  <2> DEFINE place == updater.pc[c]
             places == [updater.pc EXCEPT ![c] = "idle"]
  <2>2. updater' = [updater EXCEPT !.status = place, !.loopLock = UpdaterService!None, !.pc = places]
    BY <1>0, <1>4 DEF UpdaterService!TypeOK, UpdaterService!Publish,
       UpdaterService!Free, UpdaterService!None
  <2>3. /\ place \in {"starting", "stopping", "running", "stopped"}
        /\ places \in UpdaterPlaces
    BY <1>0, <2>1 DEF UpdaterPlaces
  <2> HIDE DEF place, places
  <2>4. UpdaterService!TypeOK'
    BY <1>0, <2>2, <2>3 DEF UpdaterService!TypeOK, UpdaterPlaces
  <2>5. /\ updater'.status = updater.pc[c] /\ updater'.loopLock = "none"
        /\ updater'.pc = [updater.pc EXCEPT ![c] = "idle"]
        /\ updater'.op = updater.op /\ updater'.loop = updater.loop
        /\ updater'.goroutine = updater.goroutine
        /\ updater'.crashed = updater.crashed
    BY <1>0, <1>4, <2>1 DEF UpdaterService!TypeOK, UpdaterService!Publish,
       UpdaterService!Free, UpdaterService!None
  <2>6. QED
    BY <1>0, <2>1, <2>2, <2>3, <2>4, <2>5, UpdaterLocks DEF UpdaterInv, UpdaterPlaces
<1>5. ASSUME UpdaterService!ReceiveStart(c) PROVE UpdaterInv'
  <2>1. /\ updater.pc[c] = "sending" /\ updater.op[c] = "run"
    BY <1>5 DEF UpdaterService!ReceiveStart, UpdaterService!At
  <2>2. UpdaterService!TypeOK'
    BY <1>0, <1>5, <2>1 DEF UpdaterService!TypeOK, UpdaterService!ReceiveStart,
       UpdaterService!At
  <2>3. /\ updater'.status = updater.status /\ updater'.loopLock = updater.loopLock
        /\ updater'.pc = [updater.pc EXCEPT ![c] = "awaiting"]
        /\ updater'.op = updater.op /\ updater'.loop = "restarting"
        /\ updater'.goroutine = updater.goroutine
        /\ updater'.crashed = updater.crashed
    BY <1>0, <1>5, <2>1 DEF UpdaterService!TypeOK, UpdaterService!ReceiveStart,
       UpdaterService!At
  <2>4. QED
    BY <1>0, <2>1, <2>2, <2>3, UpdaterLocks DEF UpdaterInv, UpdaterPlaces
<1>6. ASSUME UpdaterService!ReceiveStop(c) PROVE UpdaterInv'
  <2>1. /\ updater.pc[c] = "sending" /\ updater.op[c] = "stop"
        /\ updater.loop = "select"
    BY <1>6 DEF UpdaterService!ReceiveStop, UpdaterService!At,
       UpdaterService!Receives
  <2>2. UpdaterService!TypeOK'
    BY <1>0, <1>6, <2>1 DEF UpdaterService!TypeOK, UpdaterService!ReceiveStop,
       UpdaterService!At, UpdaterService!Receives
  <2>3. /\ updater'.status = updater.status /\ updater'.loopLock = updater.loopLock
        /\ updater'.pc = [updater.pc EXCEPT ![c] = "awaiting"]
        /\ updater'.op = updater.op /\ updater'.loop = "stopping"
        /\ updater'.goroutine = updater.goroutine
        /\ updater'.crashed = updater.crashed
    BY <1>0, <1>6, <2>1 DEF UpdaterService!TypeOK, UpdaterService!ReceiveStop,
       UpdaterService!At, UpdaterService!Receives
  <2>4. QED
    BY <1>0, <2>1, <2>2, <2>3, UpdaterLocks DEF UpdaterInv, UpdaterPlaces
<1>7. ASSUME UpdaterService!ReportRunning(c) PROVE UpdaterInv'
  <2>1. /\ updater.loop = "report" /\ updater.pc[c] = "awaiting"
        /\ updater.op[c] = "run"
    BY <1>7 DEF UpdaterService!ReportRunning, UpdaterService!At
  <2>2. UpdaterService!TypeOK'
    BY <1>0, <1>7, <2>1 DEF UpdaterService!TypeOK, UpdaterService!ReportRunning,
       UpdaterService!At
  <2>3. /\ updater'.status = updater.status /\ updater'.loopLock = updater.loopLock
        /\ updater'.pc = [updater.pc EXCEPT ![c] = "running"]
        /\ updater'.op = updater.op /\ updater'.loop = "select"
        /\ updater'.goroutine = updater.goroutine
        /\ updater'.crashed = updater.crashed
    BY <1>0, <1>7, <2>1 DEF UpdaterService!TypeOK, UpdaterService!ReportRunning,
       UpdaterService!At
  <2>4. QED
    BY <1>0, <2>1, <2>2, <2>3, UpdaterLocks DEF UpdaterInv, UpdaterPlaces
<1>8. ASSUME UpdaterService!ConfirmStop(c) PROVE UpdaterInv'
  <2>1. /\ updater.loop = "confirm" /\ updater.pc[c] = "awaiting"
        /\ updater.op[c] = "stop"
    BY <1>8 DEF UpdaterService!ConfirmStop, UpdaterService!At
  <2>2. UpdaterService!TypeOK'
    BY <1>0, <1>8, <2>1 DEF UpdaterService!TypeOK, UpdaterService!ConfirmStop,
       UpdaterService!At
  <2>3. /\ updater'.status = updater.status /\ updater'.loopLock = updater.loopLock
        /\ updater'.pc = [updater.pc EXCEPT ![c] = "stopped"]
        /\ updater'.op = updater.op /\ updater'.loop = "select"
        /\ updater'.goroutine = updater.goroutine
        /\ updater'.crashed = updater.crashed
    BY <1>0, <1>8, <2>1 DEF UpdaterService!TypeOK, UpdaterService!ConfirmStop,
       UpdaterService!At
  <2>4. QED
    BY <1>0, <2>1, <2>2, <2>3, UpdaterLocks DEF UpdaterInv, UpdaterPlaces
<1>9. QED
  BY <1>1, <1>2, <1>3, <1>4, <1>5, <1>6, <1>7, <1>8 DEF UpdaterService!CallerStep

LEMMA UpdaterLoopSteps ==
  ASSUME UpdaterInv,
         \/ UpdaterService!WaitForUpdate \/ UpdaterService!Launch \/
            UpdaterService!PublishRunning \/ UpdaterService!UpdateStopped \/
            UpdaterService!PublishCrash \/ UpdaterService!BackoffEnds \/
            UpdaterService!ReceiveTick \/ UpdaterService!ReceiveError \/
            UpdaterService!CtxDone \/ UpdaterService!Exit \/
            UpdaterService!UpdateSucceeds \/ UpdaterService!UpdateFails \/
            UpdaterService!UpdateCancelled \/ UpdaterService!Completed
  PROVE  UpdaterInv'
<1>0. /\ UpdaterService!TypeOK
      /\ updater.op \in [UpdaterCallers -> {"run", "stop"}]
      /\ updater.pc \in UpdaterPlaces
  BY DEF UpdaterInv, UpdaterService!TypeOK, UpdaterPlaces
<1>1. CASE UpdaterService!WaitForUpdate
  <2>1. /\ updater.loop = "restarting" /\ updater.goroutine = "none"
    BY <1>1 DEF UpdaterService!WaitForUpdate
  <2>2. UpdaterService!TypeOK'
    BY <1>0, <1>1, <2>1 DEF UpdaterService!TypeOK, UpdaterService!WaitForUpdate
  <2>3. /\ updater'.status = updater.status /\ updater'.loopLock = updater.loopLock
        /\ updater'.pc = updater.pc /\ updater'.op = updater.op
        /\ updater'.loop = "launch" /\ updater'.goroutine = updater.goroutine
        /\ updater'.crashed = updater.crashed
    BY <1>0, <1>1, <2>1 DEF UpdaterService!TypeOK, UpdaterService!WaitForUpdate
  <2>4. QED
    BY <1>0, <2>1, <2>2, <2>3, UpdaterLocks DEF UpdaterInv, UpdaterPlaces
<1>2. CASE UpdaterService!Launch
  <2>1. /\ updater.loop = "launch"
    BY <1>2 DEF UpdaterService!Launch
  <2>2. UpdaterService!TypeOK'
    BY <1>0, <1>2, <2>1, ZenonT(60) DEF UpdaterService!TypeOK, UpdaterService!Launch
  <2>3. /\ updater'.status = updater.status /\ updater'.loopLock = updater.loopLock
        /\ updater'.pc = updater.pc /\ updater'.op = updater.op
        /\ updater'.loop = (IF updater.shutdown = 3 THEN "exited" ELSE IF updater.crashed THEN "recovered" ELSE "report")
        /\ updater'.goroutine = (IF updater.shutdown = 3 THEN updater.goroutine ELSE "updating")
        /\ updater'.crashed = updater.crashed
    BY <1>0, <1>2, <2>1 DEF UpdaterService!TypeOK, UpdaterService!Launch
  <2>4. QED
    BY <1>0, <2>1, <2>2, <2>3, UpdaterLocks DEF UpdaterInv, UpdaterPlaces
<1>3. CASE UpdaterService!PublishRunning
  <2>1. /\ updater.loop = "recovered"
    BY <1>3 DEF UpdaterService!PublishRunning, UpdaterService!Free
  <2>2. UpdaterService!TypeOK'
    BY <1>0, <1>3, <2>1, ZenonT(60) DEF UpdaterService!TypeOK, UpdaterService!PublishRunning,
       UpdaterService!Free
  <2>3. /\ updater'.status = "running" /\ updater'.loopLock = updater.loopLock
        /\ updater'.pc = updater.pc /\ updater'.op = updater.op
        /\ updater'.loop = "select" /\ updater'.goroutine = updater.goroutine
        /\ updater'.crashed = updater.crashed
    BY <1>0, <1>3, <2>1 DEF UpdaterService!TypeOK, UpdaterService!PublishRunning,
       UpdaterService!Free
  <2>4. QED
    BY <1>0, <2>1, <2>2, <2>3, UpdaterLocks DEF UpdaterInv, UpdaterPlaces
<1>4. CASE UpdaterService!UpdateStopped
  <2>1. /\ updater.goroutine = "none"
    BY <1>4 DEF UpdaterService!UpdateStopped
  <2>2. UpdaterService!TypeOK'
    BY <1>0, <1>4, <2>1 DEF UpdaterService!TypeOK, UpdaterService!UpdateStopped
  <2>3. /\ updater'.status = updater.status /\ updater'.loopLock = updater.loopLock
        /\ updater'.pc = updater.pc /\ updater'.op = updater.op
        /\ updater'.loop = "confirm" /\ updater'.goroutine = updater.goroutine
        /\ updater'.crashed = updater.crashed
    BY <1>0, <1>4, <2>1 DEF UpdaterService!TypeOK, UpdaterService!UpdateStopped
  <2>4. QED
    BY <1>0, <2>1, <2>2, <2>3, UpdaterLocks DEF UpdaterInv, UpdaterPlaces
<1>5. CASE UpdaterService!PublishCrash
  <2>1. /\ updater.loop = "crash"
    BY <1>5 DEF UpdaterService!PublishCrash, UpdaterService!Free
  <2>2. UpdaterService!TypeOK'
    BY <1>0, <1>5, <2>1, ZenonT(60) DEF UpdaterService!TypeOK, UpdaterService!PublishCrash,
       UpdaterService!Free
  <2>3. /\ updater'.status = "crashed" /\ updater'.loopLock = updater.loopLock
        /\ updater'.pc = updater.pc /\ updater'.op = updater.op
        /\ updater'.loop = "backoff" /\ updater'.goroutine = updater.goroutine
        /\ updater'.crashed = updater.crashed
    BY <1>0, <1>5, <2>1 DEF UpdaterService!TypeOK, UpdaterService!PublishCrash,
       UpdaterService!Free
  <2>4. QED
    BY <1>0, <2>1, <2>2, <2>3, UpdaterLocks DEF UpdaterInv, UpdaterPlaces
<1>6. CASE UpdaterService!BackoffEnds
  <2>1. /\ updater.loop = "backoff"
    BY <1>6 DEF UpdaterService!BackoffEnds
  <2>2. UpdaterService!TypeOK'
    BY <1>0, <1>6, <2>1 DEF UpdaterService!TypeOK, UpdaterService!BackoffEnds
  <2>3. /\ updater'.status = updater.status /\ updater'.loopLock = updater.loopLock
        /\ updater'.pc = updater.pc /\ updater'.op = updater.op
        /\ updater'.loop = "launch" /\ updater'.goroutine = updater.goroutine
        /\ updater'.crashed = TRUE
    BY <1>0, <1>6, <2>1 DEF UpdaterService!TypeOK, UpdaterService!BackoffEnds
  <2>4. QED
    BY <1>0, <2>1, <2>2, <2>3, UpdaterLocks DEF UpdaterInv, UpdaterPlaces
<1>7. CASE UpdaterService!ReceiveTick
  <2>1. /\ updater.loop \in {"idle", "select"}
    BY <1>7 DEF UpdaterService!ReceiveTick, UpdaterService!Receives
  <2>2. UpdaterService!TypeOK'
    BY <1>0, <1>7, <2>1 DEF UpdaterService!TypeOK, UpdaterService!ReceiveTick,
       UpdaterService!Receives
  <2>3. /\ updater'.status = updater.status /\ updater'.loopLock = updater.loopLock
        /\ updater'.pc = updater.pc /\ updater'.op = updater.op
        /\ updater'.loop = "restarting" /\ updater'.goroutine = updater.goroutine
        /\ updater'.crashed = updater.crashed
    BY <1>0, <1>7, <2>1 DEF UpdaterService!TypeOK, UpdaterService!ReceiveTick,
       UpdaterService!Receives
  <2>4. QED
    BY <1>0, <2>1, <2>2, <2>3, UpdaterLocks DEF UpdaterInv, UpdaterPlaces
<1>8. CASE UpdaterService!ReceiveError
  <2>1. /\ updater.loop = "select"
    BY <1>8 DEF UpdaterService!ReceiveError
  <2>2. UpdaterService!TypeOK'
    BY <1>0, <1>8, <2>1 DEF UpdaterService!TypeOK, UpdaterService!ReceiveError
  <2>3. /\ updater'.status = updater.status /\ updater'.loopLock = updater.loopLock
        /\ updater'.pc = updater.pc /\ updater'.op = updater.op
        /\ updater'.loop = "crash" /\ updater'.goroutine = "none"
        /\ updater'.crashed = updater.crashed
    BY <1>0, <1>8, <2>1 DEF UpdaterService!TypeOK, UpdaterService!ReceiveError
  <2>4. QED
    BY <1>0, <2>1, <2>2, <2>3, UpdaterLocks DEF UpdaterInv, UpdaterPlaces
<1>9. CASE UpdaterService!CtxDone
  <2>1. /\ updater.loop \in {"idle", "select"}
    BY <1>9 DEF UpdaterService!CtxDone
  <2>2. UpdaterService!TypeOK'
    BY <1>0, <1>9, <2>1 DEF UpdaterService!TypeOK, UpdaterService!CtxDone
  <2>3. /\ updater'.status = updater.status /\ updater'.loopLock = updater.loopLock
        /\ updater'.pc = updater.pc /\ updater'.op = updater.op
        /\ updater'.loop = "ending" /\ updater'.goroutine = updater.goroutine
        /\ updater'.crashed = updater.crashed
    BY <1>0, <1>9, <2>1 DEF UpdaterService!TypeOK, UpdaterService!CtxDone
  <2>4. QED
    BY <1>0, <2>1, <2>2, <2>3, UpdaterLocks DEF UpdaterInv, UpdaterPlaces
<1>10. CASE UpdaterService!Exit
  <2>1. /\ updater.goroutine = "none"
    BY <1>10 DEF UpdaterService!Exit
  <2>2. UpdaterService!TypeOK'
    BY <1>0, <1>10, <2>1 DEF UpdaterService!TypeOK, UpdaterService!Exit
  <2>3. /\ updater'.status = updater.status /\ updater'.loopLock = updater.loopLock
        /\ updater'.pc = updater.pc /\ updater'.op = updater.op
        /\ updater'.loop = "exited" /\ updater'.goroutine = updater.goroutine
        /\ updater'.crashed = updater.crashed
    BY <1>0, <1>10, <2>1 DEF UpdaterService!TypeOK, UpdaterService!Exit
  <2>4. QED
    BY <1>0, <2>1, <2>2, <2>3, UpdaterLocks DEF UpdaterInv, UpdaterPlaces
<1>11. CASE UpdaterService!UpdateSucceeds
  <2>1. /\ updater.goroutine = "updating"
    BY <1>11 DEF UpdaterService!UpdateSucceeds
  <2>2. UpdaterService!TypeOK'
    BY <1>0, <1>11, <2>1 DEF UpdaterService!TypeOK, UpdaterService!UpdateSucceeds
  <2>3. /\ updater'.status = updater.status /\ updater'.loopLock = updater.loopLock
        /\ updater'.pc = updater.pc /\ updater'.op = updater.op
        /\ updater'.loop = updater.loop /\ updater'.goroutine = "completing"
        /\ updater'.crashed = updater.crashed
    BY <1>0, <1>11, <2>1 DEF UpdaterService!TypeOK, UpdaterService!UpdateSucceeds
  <2>4. QED
    BY <1>0, <2>1, <2>2, <2>3, UpdaterLocks DEF UpdaterInv, UpdaterPlaces
<1>12. CASE UpdaterService!UpdateFails
  <2>1. /\ updater.goroutine = "updating"
        /\ updater.faults + 1 \in 0 .. UpdaterFaults
    BY <1>0, <1>12, UpdaterLocks DEF UpdaterService!TypeOK,
       UpdaterService!UpdateFails
  <2>2. UpdaterService!TypeOK'
    BY <1>0, <1>12, <2>1 DEF UpdaterService!TypeOK, UpdaterService!UpdateFails
  <2>3. /\ updater'.status = updater.status /\ updater'.loopLock = updater.loopLock
        /\ updater'.pc = updater.pc /\ updater'.op = updater.op
        /\ updater'.loop = updater.loop /\ updater'.goroutine = "failing"
        /\ updater'.crashed = updater.crashed
    BY <1>0, <1>12, <2>1 DEF UpdaterService!TypeOK, UpdaterService!UpdateFails
  <2>4. QED
    BY <1>0, <2>1, <2>2, <2>3, UpdaterLocks DEF UpdaterInv, UpdaterPlaces
<1>13. CASE UpdaterService!UpdateCancelled
  <2>1. /\ updater.goroutine = "updating"
    BY <1>13 DEF UpdaterService!UpdateCancelled
  <2>2. UpdaterService!TypeOK'
    BY <1>0, <1>13, <2>1 DEF UpdaterService!TypeOK, UpdaterService!UpdateCancelled
  <2>3. /\ updater'.status = updater.status /\ updater'.loopLock = updater.loopLock
        /\ updater'.pc = updater.pc /\ updater'.op = updater.op
        /\ updater'.loop = updater.loop /\ updater'.goroutine = "none"
        /\ updater'.crashed = updater.crashed
    BY <1>0, <1>13, <2>1 DEF UpdaterService!TypeOK, UpdaterService!UpdateCancelled
  <2>4. QED
    BY <1>0, <2>1, <2>2, <2>3, UpdaterLocks DEF UpdaterInv, UpdaterPlaces
<1>14. CASE UpdaterService!Completed
  <2>1. /\ updater.goroutine = "completing"
    BY <1>14 DEF UpdaterService!Completed, UpdaterService!Free
  <2>2. UpdaterService!TypeOK'
    BY <1>0, <1>14, <2>1, ZenonT(60) DEF UpdaterService!TypeOK, UpdaterService!Completed,
       UpdaterService!Free
  <2>3. /\ updater'.status = "completed" /\ updater'.loopLock = updater.loopLock
        /\ updater'.pc = updater.pc /\ updater'.op = updater.op
        /\ updater'.loop = updater.loop /\ updater'.goroutine = "none"
        /\ updater'.crashed = updater.crashed
    BY <1>0, <1>14, <2>1 DEF UpdaterService!TypeOK, UpdaterService!Completed,
       UpdaterService!Free
  <2>4. QED
    BY <1>0, <2>1, <2>2, <2>3, UpdaterLocks DEF UpdaterInv, UpdaterPlaces
<1>15. QED
  BY <1>1, <1>2, <1>3, <1>4, <1>5, <1>6, <1>7, <1>8, <1>9, <1>10, <1>11, <1>12,
     <1>13, <1>14

LEMMA UpdaterTickerSteps ==
  ASSUME UpdaterInv,
         \/ UpdaterService!Tick \/ UpdaterService!ResetTimer \/
            UpdaterService!SetSettings \/ UpdaterService!ReceiveUpdate \/
            UpdaterService!ReadPeriod \/ UpdaterService!TickerDone \/
            UpdaterService!Shutdown
  PROVE  UpdaterInv'
<1>0. /\ UpdaterService!TypeOK
      /\ updater.op \in [UpdaterCallers -> {"run", "stop"}]
      /\ updater.pc \in UpdaterPlaces
  BY DEF UpdaterInv, UpdaterService!TypeOK, UpdaterPlaces
<1>1. CASE UpdaterService!Tick
  <2>1. UpdaterService!TypeOK'
    BY <1>0, <1>1 DEF UpdaterService!TypeOK, UpdaterService!Tick
  <2>2. /\ updater'.status = updater.status /\ updater'.loopLock = updater.loopLock
        /\ updater'.pc = updater.pc /\ updater'.op = updater.op
        /\ updater'.loop = updater.loop /\ updater'.goroutine = updater.goroutine
        /\ updater'.crashed = updater.crashed
    BY <1>0, <1>1 DEF UpdaterService!TypeOK, UpdaterService!Tick
  <2>3. QED
    BY <1>0, <2>1, <2>2, UpdaterLocks DEF UpdaterInv, UpdaterPlaces
<1>2. CASE UpdaterService!ResetTimer
  <2>1. UpdaterService!TypeOK'
    BY <1>0, <1>2 DEF UpdaterService!TypeOK, UpdaterService!ResetTimer
  <2>2. /\ updater'.status = updater.status /\ updater'.loopLock = updater.loopLock
        /\ updater'.pc = updater.pc /\ updater'.op = updater.op
        /\ updater'.loop = updater.loop /\ updater'.goroutine = updater.goroutine
        /\ updater'.crashed = updater.crashed
    BY <1>0, <1>2 DEF UpdaterService!TypeOK, UpdaterService!ResetTimer
  <2>3. QED
    BY <1>0, <2>1, <2>2, UpdaterLocks DEF UpdaterInv, UpdaterPlaces
<1>3. CASE UpdaterService!SetSettings
  <2>1. /\ updater.periods + 1 \in 0 .. UpdaterPeriods
    BY <1>0, <1>3, UpdaterLocks DEF UpdaterService!TypeOK,
       UpdaterService!SetSettings
  <2>2. UpdaterService!TypeOK'
    BY <1>0, <1>3, <2>1, ZenonT(60) DEF UpdaterService!TypeOK, UpdaterService!SetSettings
  <2>3. /\ updater'.status = updater.status /\ updater'.loopLock = updater.loopLock
        /\ updater'.pc = updater.pc /\ updater'.op = updater.op
        /\ updater'.loop = updater.loop /\ updater'.goroutine = updater.goroutine
        /\ updater'.crashed = updater.crashed
    BY <1>0, <1>3, <2>1 DEF UpdaterService!TypeOK, UpdaterService!SetSettings
  <2>4. QED
    BY <1>0, <2>1, <2>2, <2>3, UpdaterLocks DEF UpdaterInv, UpdaterPlaces
<1>4. CASE UpdaterService!ReceiveUpdate
  <2>1. UpdaterService!TypeOK'
    BY <1>0, <1>4 DEF UpdaterService!TypeOK, UpdaterService!ReceiveUpdate
  <2>2. /\ updater'.status = updater.status /\ updater'.loopLock = updater.loopLock
        /\ updater'.pc = updater.pc /\ updater'.op = updater.op
        /\ updater'.loop = updater.loop /\ updater'.goroutine = updater.goroutine
        /\ updater'.crashed = updater.crashed
    BY <1>0, <1>4 DEF UpdaterService!TypeOK, UpdaterService!ReceiveUpdate
  <2>3. QED
    BY <1>0, <2>1, <2>2, UpdaterLocks DEF UpdaterInv, UpdaterPlaces
<1>5. CASE UpdaterService!ReadPeriod
  <2>1. UpdaterService!TypeOK'
    BY <1>0, <1>5 DEF UpdaterService!TypeOK, UpdaterService!ReadPeriod
  <2>2. /\ updater'.status = updater.status /\ updater'.loopLock = updater.loopLock
        /\ updater'.pc = updater.pc /\ updater'.op = updater.op
        /\ updater'.loop = updater.loop /\ updater'.goroutine = updater.goroutine
        /\ updater'.crashed = updater.crashed
    BY <1>0, <1>5 DEF UpdaterService!TypeOK, UpdaterService!ReadPeriod
  <2>3. QED
    BY <1>0, <2>1, <2>2, UpdaterLocks DEF UpdaterInv, UpdaterPlaces
<1>6. CASE UpdaterService!TickerDone
  <2>1. UpdaterService!TypeOK'
    BY <1>0, <1>6 DEF UpdaterService!TypeOK, UpdaterService!TickerDone
  <2>2. /\ updater'.status = updater.status /\ updater'.loopLock = updater.loopLock
        /\ updater'.pc = updater.pc /\ updater'.op = updater.op
        /\ updater'.loop = updater.loop /\ updater'.goroutine = updater.goroutine
        /\ updater'.crashed = updater.crashed
    BY <1>0, <1>6 DEF UpdaterService!TypeOK, UpdaterService!TickerDone
  <2>3. QED
    BY <1>0, <2>1, <2>2, UpdaterLocks DEF UpdaterInv, UpdaterPlaces
<1>7. CASE UpdaterService!Shutdown
  <2>1. UpdaterService!TypeOK'
    BY <1>0, <1>7 DEF UpdaterService!TypeOK, UpdaterService!Shutdown
  <2>2. /\ updater'.status = updater.status /\ updater'.loopLock = updater.loopLock
        /\ updater'.pc = updater.pc /\ updater'.op = updater.op
        /\ updater'.loop = updater.loop /\ updater'.goroutine = updater.goroutine
        /\ updater'.crashed = updater.crashed
    BY <1>0, <1>7 DEF UpdaterService!TypeOK, UpdaterService!Shutdown
  <2>3. QED
    BY <1>0, <2>1, <2>2, UpdaterLocks DEF UpdaterInv, UpdaterPlaces
<1>8. QED
  BY <1>1, <1>2, <1>3, <1>4, <1>5, <1>6, <1>7

LEMMA UpdaterIInv == UpdaterService!Spec => []UpdaterInv
<1>1. ASSUME UpdaterInv, [UpdaterService!Next]_updater PROVE UpdaterInv'
  <2>1. CASE UpdaterService!Next
    BY <1>1, <2>1, UpdaterCallerSteps, UpdaterLoopSteps, UpdaterTickerSteps
       DEF UpdaterService!Next, UpdaterService!Progress
  <2>2. CASE UNCHANGED updater
    BY <1>1, <2>2 DEF UpdaterInv, UpdaterService!TypeOK
  <2>3. QED
    BY <1>1, <2>1, <2>2
<1>2. QED
  BY UpdaterInitInv, <1>1, PTL DEF UpdaterService!Spec

LEMMA UpdaterImplemented == Spec => UpdaterService!Spec
<1>1. Init => UpdaterService!Init
  BY DEF Init
<1>2. [Next]_vars => [UpdaterService!Next]_updater
  BY DEF Next, vars, UpdaterNext, DNSNext, HTTPNext, SSNext, IPNext, HealthNext, MainNext
<1>3. QED
  BY <1>1, <1>2, PTL DEF Spec, UpdaterService!Spec

-----------------------------------------------------------------------------
(* ShadowsocksLoop: where the server listens, and what a stop leaves behind.*)

SSInv ==
    /\ SSService!TypeOK
    /\ ss.loop \in {"idle", "launch", "confirm", "crash", "drain"} => ss.listen = "none"
    /\ ss.closed => ss.listen = "none"
    /\ ss.closed /\ ss.loop \in {"select", "report", "recovered", "restarting", "ending"} => ss.stops
    /\ ss.loop \in {"stopping", "confirm", "panicked"} => ss.stops

ShadowsocksPlaces ==
    [SSService!Goroutines -> {"idle", "call", "locking", "sending", "awaiting", "starting",
                              "stopping", "running", "stopped"}]
ShadowsocksOps == [SSService!Goroutines -> {"run", "stop", "restart"}]

LEMMA ShadowsocksBounds == SSRequests \in Nat /\ SSFaults \in Nat
BY DEF ServicesAssumption, SSService!SSConstants

LEMMA SSInitInv == SSService!Init => SSInv
<1> SUFFICES ASSUME SSService!Init PROVE SSInv
  OBVIOUS
<1>1. PICK enabled \in BOOLEAN : SSService!Init!(enabled)
  BY DEF SSService!Init
<1>2. SSService!TypeOK
  BY <1>1, ShadowsocksBounds DEF SSService!TypeOK
<1>3. ss.loop = "idle" /\ ss.listen = "none" /\ ss.closed = FALSE
  BY <1>1
<1>4. QED
  BY <1>2, <1>3 DEF SSInv

LEMMA SSCallerSteps ==
  ASSUME SSInv, NEW g \in SSService!Goroutines,
         \/ SSService!Refuse(g) \/ SSService!Accept(g) \/ SSService!TakeLoopLock(g)
         \/ SSService!GiveUp(g) \/ SSService!Publish(g) \/ SSService!ReportRunning(g)
         \/ SSService!ReceiveStart(g) \/ SSService!ReceiveStop(g) \/ SSService!ConfirmStop(g)
         \/ \E o \in {"run", "stop", "restart"} : SSService!SetSettings(g, o)
  PROVE  SSInv'
<1>0. /\ SSService!TypeOK
      /\ ss.op \in ShadowsocksOps /\ ss.pc \in ShadowsocksPlaces
  BY DEF SSInv, SSService!TypeOK, ShadowsocksOps, ShadowsocksPlaces
<1>1. ASSUME NEW o \in {"run", "stop", "restart"}, SSService!SetSettings(g, o) PROVE SSInv'
  <2>1. /\ ss.requests + 1 \in 0 .. SSRequests
    BY <1>0, <1>1, ShadowsocksBounds DEF SSService!TypeOK, SSService!SetSettings,
       SSService!At
  <2> DEFINE places == [ss.pc EXCEPT ![g] = "call"]
             ops == [ss.op EXCEPT ![g] = o]
             requests == ss.requests + 1
  <2>2. ss' = [ss EXCEPT !.pc = places, !.op = ops, !.requests = requests]
    BY <1>0, <1>1 DEF SSService!TypeOK, SSService!SetSettings, SSService!At
  <2>3. /\ places \in ShadowsocksPlaces /\ ops \in ShadowsocksOps
        /\ requests \in 0 .. SSRequests
    BY <1>0, <2>1 DEF ShadowsocksPlaces, ShadowsocksOps
  <2> HIDE DEF places, ops, requests
  <2>4. SSService!TypeOK'
    BY <1>0, <2>2, <2>3 DEF SSService!TypeOK, ShadowsocksPlaces, ShadowsocksOps
  <2>5. /\ ss'.loop = ss.loop /\ ss'.listen = ss.listen /\ ss'.closed = ss.closed
        /\ ss'.stops = ss.stops
    BY <1>0, <1>1, <2>1 DEF SSService!TypeOK, SSService!SetSettings, SSService!At
  <2>6. QED
    BY <1>0, <2>1, <2>2, <2>3, <2>4, <2>5, ShadowsocksBounds
    DEF SSInv, ShadowsocksPlaces, ShadowsocksOps
<1>2. CASE SSService!Refuse(g)
  <2>1. /\ ss.op[g] \in {"run", "stop", "restart"}
    BY <1>0, <1>2, ShadowsocksBounds DEF SSService!TypeOK, SSService!Refuse,
       SSService!Returned, SSService!NextOp
  <2> DEFINE places == [ss.pc EXCEPT ![g] = (IF ss.op[g] = "restart" THEN "call" ELSE "idle")]
             ops == [ss.op EXCEPT ![g] = (IF ss.op[g] = "restart" THEN "run" ELSE ss.op[g])]
  <2>2. ss' = [ss EXCEPT !.pc = places, !.op = ops]
    BY <1>0, <1>2 DEF SSService!TypeOK, SSService!Refuse, SSService!Returned,
       SSService!NextOp
  <2>3. /\ places \in ShadowsocksPlaces /\ ops \in ShadowsocksOps
    BY <1>0, <2>1 DEF ShadowsocksPlaces, ShadowsocksOps
  <2> HIDE DEF places, ops
  <2>4. SSService!TypeOK'
    BY <1>0, <2>2, <2>3 DEF SSService!TypeOK, ShadowsocksPlaces, ShadowsocksOps
  <2>5. /\ ss'.loop = ss.loop /\ ss'.listen = ss.listen /\ ss'.closed = ss.closed
        /\ ss'.stops = ss.stops
    BY <1>0, <1>2, <2>1 DEF SSService!TypeOK, SSService!Refuse, SSService!Returned,
       SSService!NextOp
  <2>6. QED
    BY <1>0, <2>1, <2>2, <2>3, <2>4, <2>5, ShadowsocksBounds
    DEF SSInv, ShadowsocksPlaces, ShadowsocksOps
<1>3. CASE SSService!Accept(g)
  <2>1. SSService!TypeOK'
    BY <1>0, <1>3 DEF SSService!TypeOK, SSService!Accept
  <2>2. /\ ss'.loop = ss.loop /\ ss'.listen = ss.listen /\ ss'.closed = ss.closed
        /\ ss'.stops = ss.stops
    BY <1>0, <1>3 DEF SSService!TypeOK, SSService!Accept
  <2>3. QED
    BY <1>0, <2>1, <2>2, ShadowsocksBounds DEF SSInv, ShadowsocksPlaces, ShadowsocksOps
<1>4. CASE SSService!TakeLoopLock(g)
  <2>1. SSService!TypeOK'
    BY <1>0, <1>4, ZenonT(60) DEF SSService!TypeOK, SSService!TakeLoopLock, SSService!Free
  <2>2. /\ ss'.loop = ss.loop /\ ss'.listen = ss.listen /\ ss'.closed = ss.closed
        /\ ss'.stops = ss.stops
    BY <1>0, <1>4 DEF SSService!TypeOK, SSService!TakeLoopLock, SSService!Free
  <2>3. QED
    BY <1>0, <2>1, <2>2, ShadowsocksBounds DEF SSInv, ShadowsocksPlaces, ShadowsocksOps
<1>5. CASE SSService!GiveUp(g)
  <2>1. SSService!TypeOK'
    BY <1>0, <1>5 DEF SSService!TypeOK, SSService!GiveUp
  <2>2. /\ ss'.loop = ss.loop /\ ss'.listen = ss.listen /\ ss'.closed = ss.closed
        /\ ss'.stops = ss.stops
    BY <1>0, <1>5 DEF SSService!TypeOK, SSService!GiveUp
  <2>3. QED
    BY <1>0, <2>1, <2>2, ShadowsocksBounds DEF SSInv, ShadowsocksPlaces, ShadowsocksOps
<1>6. CASE SSService!Publish(g)
  <2>1. /\ ss.op[g] \in {"run", "stop", "restart"}
        /\ ss.pc[g] \in {"starting", "stopping", "running", "stopped"}
    BY <1>0, <1>6, ShadowsocksBounds DEF SSService!TypeOK, SSService!Publish,
       SSService!Returned, SSService!NextOp
  <2> DEFINE place == ss.pc[g]
             places == [ss.pc EXCEPT ![g] = (IF ss.op[g] = "restart" THEN "call" ELSE "idle")]
             ops == [ss.op EXCEPT ![g] = (IF ss.op[g] = "restart" THEN "run" ELSE ss.op[g])]
  <2>2. ss' = [ss EXCEPT !.status = place, !.loopLock = SSService!Free, !.pc = places, !.op = ops]
    BY <1>0, <1>6 DEF SSService!TypeOK, SSService!Publish, SSService!Returned,
       SSService!NextOp
  <2>3. /\ place \in {"starting", "stopping", "running", "stopped"}
        /\ places \in ShadowsocksPlaces /\ ops \in ShadowsocksOps
    BY <1>0, <2>1 DEF ShadowsocksPlaces, ShadowsocksOps
  <2> HIDE DEF place, places, ops
  <2>4. SSService!TypeOK'
    BY <1>0, <2>2, <2>3 DEF SSService!TypeOK, ShadowsocksPlaces, ShadowsocksOps
  <2>5. /\ ss'.loop = ss.loop /\ ss'.listen = ss.listen /\ ss'.closed = ss.closed
        /\ ss'.stops = ss.stops
    BY <1>0, <1>6, <2>1 DEF SSService!TypeOK, SSService!Publish, SSService!Returned,
       SSService!NextOp
  <2>6. QED
    BY <1>0, <2>1, <2>2, <2>3, <2>4, <2>5, ShadowsocksBounds
    DEF SSInv, ShadowsocksPlaces, ShadowsocksOps
<1>7. CASE SSService!ReportRunning(g)
  <2>1. /\ ss.loop = "report"
    BY <1>7 DEF SSService!ReportRunning, SSService!Place
  <2>2. SSService!TypeOK'
    BY <1>0, <1>7, <2>1 DEF SSService!TypeOK, SSService!ReportRunning,
       SSService!Place
  <2>3. /\ ss'.loop = "select" /\ ss'.listen = ss.listen /\ ss'.closed = ss.closed
        /\ ss'.stops = ss.stops
    BY <1>0, <1>7, <2>1 DEF SSService!TypeOK, SSService!ReportRunning,
       SSService!Place
  <2>4. QED
    BY <1>0, <2>1, <2>2, <2>3, ShadowsocksBounds DEF SSInv, ShadowsocksPlaces, ShadowsocksOps
<1>8. CASE SSService!ReceiveStart(g)
  <2>1. /\ ss.loop \in {"idle", "select"}
    BY <1>8 DEF SSService!ReceiveStart
  <2>2. SSService!TypeOK'
    BY <1>0, <1>8, <2>1 DEF SSService!TypeOK, SSService!ReceiveStart
  <2>3. /\ ss'.loop = (IF ss.loop = "idle" THEN "launch" ELSE "restarting")
        /\ ss'.listen = ss.listen /\ ss'.closed = ss.closed /\ ss'.stops = ss.stops
    BY <1>0, <1>8, <2>1 DEF SSService!TypeOK, SSService!ReceiveStart
  <2>4. QED
    BY <1>0, <2>1, <2>2, <2>3, ShadowsocksBounds DEF SSInv, ShadowsocksPlaces, ShadowsocksOps
<1>9. CASE SSService!ReceiveStop(g)
  <2>1. /\ ss.loop = "select"
    BY <1>9 DEF SSService!ReceiveStop, SSService!Place
  <2>2. SSService!TypeOK'
    BY <1>0, <1>9, <2>1 DEF SSService!TypeOK, SSService!ReceiveStop, SSService!Place
  <2>3. /\ ss'.loop = "stopping" /\ ss'.listen = ss.listen
        /\ ss'.closed = ss.closed /\ ss'.stops = TRUE
    BY <1>0, <1>9, <2>1 DEF SSService!TypeOK, SSService!ReceiveStop, SSService!Place
  <2>4. QED
    BY <1>0, <2>1, <2>2, <2>3, ShadowsocksBounds DEF SSInv, ShadowsocksPlaces, ShadowsocksOps
<1>10. CASE SSService!ConfirmStop(g)
  <2>1. /\ ss.loop = "confirm"
    BY <1>10 DEF SSService!ConfirmStop, SSService!Place
  <2>2. SSService!TypeOK'
    BY <1>0, <1>10, <2>1 DEF SSService!TypeOK, SSService!ConfirmStop,
       SSService!Place
  <2>3. /\ ss'.loop = "select" /\ ss'.listen = ss.listen /\ ss'.closed = ss.closed
        /\ ss'.stops = ss.stops
    BY <1>0, <1>10, <2>1 DEF SSService!TypeOK, SSService!ConfirmStop,
       SSService!Place
  <2>4. QED
    BY <1>0, <2>1, <2>2, <2>3, ShadowsocksBounds DEF SSInv, ShadowsocksPlaces, ShadowsocksOps
<1>11. QED
  BY <1>1, <1>2, <1>3, <1>4, <1>5, <1>6, <1>7, <1>8, <1>9, <1>10

LEMMA SSLoopSteps ==
  ASSUME SSInv, \/ SSService!Stable \/ SSService!PublishRunning \/ SSService!CtxDone
                \/ SSService!DrainTimer \/ SSService!Shutdown
  PROVE  SSInv'
<1>0. /\ SSService!TypeOK
      /\ ss.op \in ShadowsocksOps /\ ss.pc \in ShadowsocksPlaces
  BY DEF SSInv, SSService!TypeOK, ShadowsocksOps, ShadowsocksPlaces
<1>1. CASE SSService!Stable
  <2>1. /\ ss.loop = "select"
    BY <1>1 DEF SSService!Stable, SSService!Place
  <2>2. SSService!TypeOK'
    BY <1>0, <1>1, <2>1, ZenonT(60) DEF SSService!TypeOK, SSService!Stable, SSService!Place
  <2>3. /\ ss'.loop = (IF ss.crashed THEN "recovered" ELSE "report")
        /\ ss'.listen = ss.listen /\ ss'.closed = ss.closed /\ ss'.stops = ss.stops
    BY <1>0, <1>1, <2>1 DEF SSService!TypeOK, SSService!Stable, SSService!Place
  <2>4. QED
    BY <1>0, <2>1, <2>2, <2>3, ShadowsocksBounds DEF SSInv, ShadowsocksPlaces, ShadowsocksOps
<1>2. CASE SSService!PublishRunning
  <2>1. /\ ss.loop = "recovered"
    BY <1>2 DEF SSService!PublishRunning, SSService!Place
  <2>2. SSService!TypeOK'
    BY <1>0, <1>2, <2>1 DEF SSService!TypeOK, SSService!PublishRunning,
       SSService!Place
  <2>3. /\ ss'.loop = "select" /\ ss'.listen = ss.listen /\ ss'.closed = ss.closed
        /\ ss'.stops = ss.stops
    BY <1>0, <1>2, <2>1 DEF SSService!TypeOK, SSService!PublishRunning,
       SSService!Place
  <2>4. QED
    BY <1>0, <2>1, <2>2, <2>3, ShadowsocksBounds DEF SSInv, ShadowsocksPlaces, ShadowsocksOps
<1>3. CASE SSService!CtxDone
  <2>1. /\ ss.loop \in {"idle", "select"}
    BY <1>3 DEF SSService!CtxDone
  <2>2. SSService!TypeOK'
    BY <1>0, <1>3, <2>1 DEF SSService!TypeOK, SSService!CtxDone
  <2>3. /\ ss'.loop = (IF ss.loop = "idle" THEN "exited" ELSE "ending")
        /\ ss'.listen = ss.listen /\ ss'.closed = ss.closed /\ ss'.stops = ss.stops
    BY <1>0, <1>3, <2>1 DEF SSService!TypeOK, SSService!CtxDone
  <2>4. QED
    BY <1>0, <2>1, <2>2, <2>3, ShadowsocksBounds DEF SSInv, ShadowsocksPlaces, ShadowsocksOps
<1>4. CASE SSService!DrainTimer
  <2>1. /\ ss.loop = "drain"
    BY <1>4 DEF SSService!DrainTimer, SSService!Place
  <2>2. SSService!TypeOK'
    BY <1>0, <1>4, <2>1 DEF SSService!TypeOK, SSService!DrainTimer, SSService!Place
  <2>3. /\ ss'.loop = "launch" /\ ss'.listen = ss.listen /\ ss'.closed = ss.closed
        /\ ss'.stops = ss.stops
    BY <1>0, <1>4, <2>1 DEF SSService!TypeOK, SSService!DrainTimer, SSService!Place
  <2>4. QED
    BY <1>0, <2>1, <2>2, <2>3, ShadowsocksBounds DEF SSInv, ShadowsocksPlaces, ShadowsocksOps
<1>5. CASE SSService!Shutdown
  <2>1. SSService!TypeOK'
    BY <1>0, <1>5 DEF SSService!TypeOK, SSService!Shutdown
  <2>2. /\ ss'.loop = ss.loop /\ ss'.listen = ss.listen /\ ss'.closed = ss.closed
        /\ ss'.stops = ss.stops
    BY <1>0, <1>5 DEF SSService!TypeOK, SSService!Shutdown
  <2>3. QED
    BY <1>0, <2>1, <2>2, ShadowsocksBounds DEF SSInv, ShadowsocksPlaces, ShadowsocksOps
<1>6. QED
  BY <1>1, <1>2, <1>3, <1>4, <1>5

LEMMA SSServerSteps ==
  ASSUME SSInv, \/ SSService!Launch \/ SSService!ListenEnds \/ SSService!Crash
                \/ SSService!WaitError("restarting", "drain") \/ SSService!WaitError("stopping", "confirm")
                \/ SSService!WaitError("ending", "exited") \/ SSService!WaitError("select", "crash")
  PROVE  SSInv'
<1>0. SSService!TypeOK
  BY DEF SSInv
<1>1. ss.faults < SSFaults => ss.faults + 1 \in 0 .. SSFaults
  BY <1>0, ShadowsocksBounds DEF SSService!TypeOK
<1>2. CASE SSService!Launch
  <2> DEFINE faults == ss.faults + 1
  <2>1. SSService!TypeOK'
    <3>1. CASE ss' = [ss EXCEPT !.loop = "exited"]
      BY <1>0, <3>1 DEF SSService!TypeOK
    <3>2. CASE ss.faults < SSFaults /\ ss' = [ss EXCEPT !.crashed = TRUE, !.faults = faults]
      <4>1. faults \in 0 .. SSFaults
        BY <1>1, <3>2
      <4> HIDE DEF faults
      <4>2. QED
        BY <1>0, <3>2, <4>1 DEF SSService!TypeOK
    <3>3. CASE ss' = [ss EXCEPT !.loop = "select", !.listen = "up", !.closed = FALSE, !.timer = "running"]
      BY <1>0, <3>3 DEF SSService!TypeOK
    <3>4. QED
      BY <1>2, <3>1, <3>2, <3>3 DEF SSService!Launch
  <2>2. /\ ss.loop = "launch" /\ ss'.stops = ss.stops
        /\ \/ ss'.loop \in {"exited", "launch"} /\ ss'.listen = ss.listen /\ ss'.closed = ss.closed
           \/ ss'.loop = "select" /\ ss'.listen = "up" /\ ss'.closed = FALSE
    <3>1. ss.loop = "launch"
      BY <1>2 DEF SSService!Launch, SSService!Place
    <3>2. CASE ss' = [ss EXCEPT !.loop = "exited"]
      BY <1>0, <3>1, <3>2 DEF SSService!TypeOK
    <3>3. CASE ss' = [ss EXCEPT !.crashed = TRUE, !.faults = faults]
      BY <1>0, <3>1, <3>3 DEF SSService!TypeOK
    <3>4. CASE ss' = [ss EXCEPT !.loop = "select", !.listen = "up", !.closed = FALSE, !.timer = "running"]
      BY <1>0, <3>1, <3>4 DEF SSService!TypeOK
    <3>5. QED
      BY <1>2, <3>2, <3>3, <3>4 DEF SSService!Launch
  <2>3. QED
    BY <1>0, <2>1, <2>2 DEF SSInv
<1>3. CASE SSService!ListenEnds
  <2>1. SSService!TypeOK'
    <3> DEFINE faults == ss.faults + 1
    <3>1. CASE ss' = [ss EXCEPT !.listen = "ended"]
      BY <1>0, <3>1 DEF SSService!TypeOK
    <3>2. CASE ss.faults < SSFaults /\ ss' = [ss EXCEPT !.listen = "ended", !.faults = faults]
      <4>1. faults \in 0 .. SSFaults
        BY <1>1, <3>2
      <4> HIDE DEF faults
      <4>2. QED
        BY <1>0, <3>2, <4>1 DEF SSService!TypeOK
    <3>3. QED
      BY <1>3, <3>1, <3>2 DEF SSService!ListenEnds
  <2>2. /\ ss.listen = "up" /\ ss'.listen = "ended"
        /\ ss'.loop = ss.loop /\ ss'.closed = ss.closed /\ ss'.stops = ss.stops
    BY <1>0, <1>3, ZenonT(60) DEF SSService!TypeOK, SSService!ListenEnds
  <2>3. QED
    BY <1>0, <2>1, <2>2 DEF SSInv
<1>4. CASE SSService!Crash
  <2>1. SSService!TypeOK'
    <3>1. CASE ss' = [ss EXCEPT !.loop = "exited"]
      BY <1>0, <3>1 DEF SSService!TypeOK
    <3>2. CASE ss' = [ss EXCEPT !.loop = "drain", !.status = "crashed", !.crashed = TRUE]
      BY <1>0, <3>2 DEF SSService!TypeOK
    <3>3. QED
      BY <1>4, <3>1, <3>2 DEF SSService!Crash
  <2>2. /\ ss.loop = "crash" /\ ss'.loop \in {"exited", "drain"}
        /\ ss'.listen = ss.listen /\ ss'.closed = ss.closed /\ ss'.stops = ss.stops
    <3>1. ss.loop = "crash"
      BY <1>4 DEF SSService!Crash, SSService!Place
    <3>2. CASE ss' = [ss EXCEPT !.loop = "exited"]
      BY <1>0, <3>1, <3>2 DEF SSService!TypeOK
    <3>3. CASE ss' = [ss EXCEPT !.loop = "drain", !.status = "crashed", !.crashed = TRUE]
      BY <1>0, <3>1, <3>3 DEF SSService!TypeOK
    <3>4. QED
      BY <1>4, <3>2, <3>3 DEF SSService!Crash
  <2>3. QED
    BY <1>0, <2>1, <2>2 DEF SSInv
<1>5. ASSUME NEW from, NEW to, SSService!WaitError(from, to),
             <<from, to>> \in {<<"restarting", "drain">>, <<"stopping", "confirm">>,
                              <<"ending", "exited">>, <<"select", "crash">>}
      PROVE  SSInv'
  <2>1. /\ from \in {"restarting", "stopping", "ending", "select"}
        /\ to \in {"drain", "confirm", "exited", "crash"}
        /\ to = "confirm" => from = "stopping"
    BY <1>5
  <2>2. SSService!TypeOK'
    <3>1. CASE ss.closed
      <4>1. ss' = [ss EXCEPT !.listen = ss.listen, !.closed = TRUE, !.loop = "panicked"]
        BY <1>0, <1>5, <3>1 DEF SSService!TypeOK, SSService!WaitError
      <4>2. QED
        BY <1>0, <4>1 DEF SSService!TypeOK
    <3>2. CASE ~ss.closed
      <4>1. ss' = [ss EXCEPT !.listen = "none", !.closed = TRUE, !.loop = to]
        BY <1>0, <1>5, <3>2 DEF SSService!TypeOK, SSService!WaitError
      <4>2. QED
        BY <1>0, <2>1, <4>1 DEF SSService!TypeOK
    <3>3. QED
      BY <3>1, <3>2
  <2>3. /\ ss.loop = from /\ ss'.stops = ss.stops /\ ss'.closed = TRUE
        /\ IF ss.closed THEN ss'.listen = ss.listen /\ ss'.loop = "panicked"
                        ELSE ss'.listen = "none" /\ ss'.loop = to
    BY <1>0, <1>5 DEF SSService!TypeOK, SSService!WaitError, SSService!Place
  <2>4. QED
    BY <1>0, <2>1, <2>2, <2>3 DEF SSInv
<1>6. QED
  BY <1>2, <1>3, <1>4, <1>5

LEMMA SSIInv == SSService!Spec => []SSInv
<1>1. ASSUME SSInv, [SSService!Next]_ss PROVE SSInv'
  <2>1. CASE SSService!Next
    BY <1>1, <2>1, SSCallerSteps, SSLoopSteps, SSServerSteps
       DEF SSService!Next, SSService!Progress, SSService!Goroutines
  <2>2. CASE UNCHANGED ss
    BY <1>1, <2>2 DEF SSInv, SSService!TypeOK
  <2>3. QED
    BY <1>1, <2>1, <2>2
<1>2. QED
  BY SSInitInv, <1>1, PTL DEF SSService!Spec

LEMMA SSImplemented == Spec => SSService!Spec
<1>1. Init => SSService!Init
  BY DEF Init
<1>2. [Next]_vars => [SSService!Next]_ss
  BY DEF Next, vars, UpdaterNext, DNSNext, HTTPNext, SSNext, IPNext, HealthNext, MainNext
<1>3. QED
  BY <1>1, <1>2, PTL DEF Spec, SSService!Spec

-----------------------------------------------------------------------------
(* HealthChecker: who checks, and what was found but is not shown yet.      *)

HealthChannels == {<<>>, <<"ok">>, <<"failed">>}

HealthStates ==
    [restartVPN : BOOLEAN, icmp : BOOLEAN, smallCheck : {"", "dns", "icmp"},
     notPermitted : BOOLEAN, dnsIndex : 0 .. DNSServers - 1, startup : 0 .. Addresses,
     passed : BOOLEAN, routine : {"none", "select", "small", "full", "sendSmall", "sendFull"},
     try : 0 .. SmallTries + FullTries, result : {"ok", "failed"}, small : BOOLEAN,
     full : BOOLEAN, channel : HealthChannels,
     collector : {"none", "starting", "receiving", "stopping", "stopAndRestart", "restart"},
     up : BOOLEAN, stop : BOOLEAN, server : {"ok", "failed"}, last : {"ok", "failed"},
     connections : 0 .. Connections]

HealthInv ==
    /\ health \in HealthStates
    /\ health.routine = "small" => health.try < SmallTries
    /\ health.routine = "full" => health.try < FullTries
    /\ health.collector \in {"none", "starting", "restart"} => health.routine = "none"
    /\ health.collector = "receiving" /\ health.channel # <<>> => health.channel = <<health.last>>
    /\ HealthService!FailuresAreShown
    /\ HealthService!FallbackIsPermanent

LEMMA HealthBounds ==
  /\ Addresses \in Nat \ {0} /\ SmallTries \in Nat \ {0} /\ FullTries \in Nat \ {0}
  /\ DNSServers \in Nat \ {0} /\ Connections \in Nat
BY DEF ServicesAssumption, HealthService!HealthConstants

LEMMA HealthRanges ==
  /\ Addresses \in 0 .. Addresses /\ 0 \in 0 .. SmallTries + FullTries
  /\ 0 < SmallTries /\ 0 < FullTries
BY HealthBounds

LEMMA OneMoreTry ==
  ASSUME NEW try \in 0 .. SmallTries + FullTries, NEW tries \in {SmallTries, FullTries},
         try < tries, try + 1 # tries
  PROVE  try + 1 < tries /\ try + 1 \in 0 .. SmallTries + FullTries
BY HealthBounds

LEMMA InsideModulus == \A n \in Nat, m \in Nat \ {0} : n % m \in 0 .. m - 1
OBVIOUS

LEMMA Shown ==
  ASSUME NEW answer \in {"ok", "failed"}
  PROVE  <<answer>> \in HealthChannels /\ Head(<<answer>>) = answer /\ <<answer>> # <<>>
BY DEF HealthChannels

LEMMA NothingShown == <<>> \in HealthChannels
BY DEF HealthChannels

LEMMA HealthInitInv == HealthService!Init => HealthInv
<1> SUFFICES ASSUME HealthService!Init PROVE HealthInv
  OBVIOUS
<1>1. PICK restartVPN \in BOOLEAN, icmp \in BOOLEAN : HealthService!Init!(restartVPN, icmp)
  BY DEF HealthService!Init
<1>2. 0 \in 0 .. DNSServers - 1 /\ 0 \in 0 .. Addresses /\ 0 \in 0 .. SmallTries + FullTries /\ 0 \in 0 .. Connections
  BY HealthBounds
<1>3. health \in HealthStates
  BY <1>1, <1>2, NothingShown DEF HealthStates
<1>4. /\ health.routine = "none" /\ health.channel = <<>> /\ health.collector = "none"
      /\ health.notPermitted = FALSE
  BY <1>1
<1>5. QED
  BY <1>3, <1>4 DEF HealthInv, HealthService!FailuresAreShown, HealthService!FallbackIsPermanent

\* A try is the last of its check, or there is one more to go.
LEMMA TryEnds ==
  ASSUME NEW state \in HealthStates, NEW ok \in BOOLEAN, NEW tries \in {SmallTries, FullTries},
         state.routine \in {"small", "full"}, state.try < tries
  PROVE  LET ended == HealthService!Ended(state, ok, tries) IN
         /\ ended \in HealthStates
         /\ \/ ended.routine \in {"sendSmall", "sendFull"}
            \/ ended.routine = state.routine /\ ended.try < tries
         /\ ended.smallCheck = state.smallCheck /\ ended.notPermitted = state.notPermitted
         /\ ended.channel = state.channel /\ ended.collector = state.collector
         /\ ended.server = state.server /\ ended.last = state.last
<1> DEFINE routine == IF state.routine = "small" THEN "sendSmall" ELSE "sendFull"
           answer == IF ok THEN "ok" ELSE "failed"
           try == state.try + 1
           last == ok \/ state.stop \/ try = tries
           ended == HealthService!Ended(state, ok, tries)
<1>1. ended = IF last THEN [state EXCEPT !.routine = routine, !.result = answer]
                      ELSE [state EXCEPT !.try = try]
  BY DEF HealthService!Ended, HealthStates
<1>2. /\ routine \in {"sendSmall", "sendFull"} /\ answer \in {"ok", "failed"}
      /\ ~last => try < tries /\ try \in 0 .. SmallTries + FullTries
  <2>1. state.try \in 0 .. SmallTries + FullTries
    BY DEF HealthStates
  <2>2. QED
    BY <2>1, OneMoreTry
<1> HIDE DEF routine, answer, try, last, ended
<1>3. CASE last
  <2>1. ended = [state EXCEPT !.routine = routine, !.result = answer]
    BY <1>1, <1>3
  <2>2. ended \in HealthStates
    BY <1>2, <2>1 DEF HealthStates
  <2>3. QED
    BY <1>2, <2>1, <2>2 DEF HealthStates, ended
<1>4. CASE ~last
  <2>1. ended = [state EXCEPT !.try = try]
    BY <1>1, <1>4
  <2>2. ended \in HealthStates
    BY <1>2, <1>4, <2>1 DEF HealthStates
  <2>3. QED
    BY <1>2, <1>4, <2>1, <2>2 DEF HealthStates, ended
<1>5. QED
  BY <1>3, <1>4

LEMMA NextServer ==
  ASSUME NEW state \in HealthStates, NEW ok \in BOOLEAN
  PROVE  (IF ok THEN state.dnsIndex ELSE (state.dnsIndex + 1) % DNSServers) \in 0 .. DNSServers - 1
<1>1. state.dnsIndex \in 0 .. DNSServers - 1
  BY DEF HealthStates
<1>2. state.dnsIndex + 1 \in Nat
  BY <1>1, HealthBounds
<1>3. QED
  BY <1>1, <1>2, InsideModulus, HealthBounds

LEMMA DNSCheckEnds ==
  ASSUME NEW state \in HealthStates, NEW ok \in BOOLEAN,
         state.routine = "small", state.try < SmallTries
  PROVE  LET ended == HealthService!DNSChecked(state, ok) IN
         /\ ended \in HealthStates
         /\ \/ ended.routine \in {"sendSmall", "sendFull"}
            \/ ended.routine = state.routine /\ ended.try < SmallTries
         /\ ended.smallCheck = state.smallCheck /\ ended.notPermitted = state.notPermitted
         /\ ended.channel = state.channel /\ ended.collector = state.collector
         /\ ended.server = state.server /\ ended.last = state.last
<1> DEFINE index == IF ok THEN state.dnsIndex ELSE (state.dnsIndex + 1) % DNSServers
           tried == [state EXCEPT !.dnsIndex = index]
<1>1. HealthService!DNSChecked(state, ok) = HealthService!Ended(tried, ok, SmallTries)
  BY DEF HealthService!DNSChecked
<1>2. index \in 0 .. DNSServers - 1
  BY NextServer
<1> HIDE DEF index
<1>3. /\ tried \in HealthStates
      /\ tried.routine = state.routine /\ tried.try = state.try
      /\ tried.smallCheck = state.smallCheck /\ tried.notPermitted = state.notPermitted
      /\ tried.channel = state.channel /\ tried.collector = state.collector
      /\ tried.server = state.server /\ tried.last = state.last
  BY <1>2 DEF HealthStates
<1> HIDE DEF tried
<1>4. QED
  BY <1>1, <1>3, TryEnds

LEMMA HealthConnectionSteps ==
  ASSUME HealthInv, \/ HealthService!Start \/ HealthService!ConnectionEnds
                    \/ HealthService!StartupPassed \/ HealthService!StartupFailed
                    \/ \E ok \in BOOLEAN : HealthService!StartupAttempt(ok)
  PROVE  HealthInv'
<1>0. /\ health \in HealthStates
      /\ health.connections \in 0 .. Connections /\ health.startup \in 0 .. Addresses
  BY DEF HealthInv, HealthStates
<1>1. CASE HealthService!Start
  <2>1. /\ health.collector = "none" /\ health.connections + 1 \in 0 .. Connections
    BY <1>0, <1>1, HealthBounds DEF HealthService!Start
  <2> DEFINE small == IF health.icmp /\ ~health.notPermitted THEN "icmp" ELSE "dns"
             connections == health.connections + 1
  <2>2. health' = [health EXCEPT !.connections = connections, !.up = TRUE, !.startup = Addresses, !.passed = FALSE,
                                !.collector = "starting", !.smallCheck = small]
    BY <1>0, <1>1 DEF HealthStates, HealthService!Start
  <2>3. /\ small \in {"", "dns", "icmp"} /\ connections \in 0 .. Connections
    BY <1>0, <2>1
    DEF HealthStates, HealthService!FailuresAreShown, HealthService!FallbackIsPermanent
  <2> HIDE DEF small, connections
  <2>4. health' \in HealthStates
    BY <1>0, <2>2, <2>3, HealthRanges, ZenonT(60) DEF HealthStates
  <2>5. /\ health'.smallCheck # "icmp" \/ ~health.notPermitted
        /\ health'.notPermitted = health.notPermitted
        /\ health'.routine = health.routine /\ health'.try = health.try
        /\ health'.result = health.result /\ health'.channel = health.channel
        /\ health'.collector = "starting" /\ health'.server = health.server
        /\ health'.last = health.last
    BY <1>0, <1>1, <2>1 DEF HealthStates, HealthService!Start
  <2>6. QED
    BY <1>0, <2>1, <2>2, <2>3, <2>4, <2>5, HealthBounds DEF HealthInv,
       HealthService!FailuresAreShown, HealthService!FallbackIsPermanent
<1>2. CASE HealthService!ConnectionEnds
  <2>1. health' \in HealthStates
    BY <1>0, <1>2 DEF HealthStates, HealthService!ConnectionEnds
  <2>2. /\ health'.smallCheck = health.smallCheck
        /\ health'.notPermitted = health.notPermitted
        /\ health'.routine = health.routine /\ health'.try = health.try
        /\ health'.result = health.result /\ health'.channel = health.channel
        /\ health'.collector = health.collector /\ health'.server = health.server
        /\ health'.last = health.last
    BY <1>0, <1>2 DEF HealthStates, HealthService!ConnectionEnds
  <2>3. QED
    BY <1>0, <2>1, <2>2, HealthBounds DEF HealthInv,
       HealthService!FailuresAreShown, HealthService!FallbackIsPermanent
<1>3. ASSUME NEW ok \in BOOLEAN, HealthService!StartupAttempt(ok) PROVE HealthInv'
  <2>1. /\ health.startup > 0
    BY <1>3 DEF HealthService!StartupAttempt
  <2> DEFINE startup == health.startup - 1
             passed == health.passed \/ ok
  <2>2. health' = [health EXCEPT !.startup = startup, !.passed = passed]
    BY <1>0, <1>3 DEF HealthStates, HealthService!StartupAttempt
  <2>3. /\ startup \in 0 .. Addresses /\ passed \in BOOLEAN
    BY <1>0, <2>1, HealthBounds
  <2> HIDE DEF startup, passed
  <2>4. health' \in HealthStates
    BY <1>0, <2>2, <2>3 DEF HealthStates
  <2>5. /\ health'.smallCheck = health.smallCheck
        /\ health'.notPermitted = health.notPermitted
        /\ health'.routine = health.routine /\ health'.try = health.try
        /\ health'.result = health.result /\ health'.channel = health.channel
        /\ health'.collector = health.collector /\ health'.server = health.server
        /\ health'.last = health.last
    BY <1>0, <1>3, <2>1 DEF HealthStates, HealthService!StartupAttempt
  <2>6. QED
    BY <1>0, <2>1, <2>2, <2>3, <2>4, <2>5, HealthBounds DEF HealthInv,
       HealthService!FailuresAreShown, HealthService!FallbackIsPermanent
<1>4. CASE HealthService!StartupPassed
  <2>1. /\ health.collector = "starting"
    BY <1>4 DEF HealthService!StartupPassed, HealthService!Launched
  <2> DEFINE none == <<>>
  <2>2. health' = [health EXCEPT !.routine = "select", !.small = TRUE, !.full = TRUE, !.stop = FALSE,
                                !.collector = "receiving", !.server = "ok", !.last = "ok", !.channel = none]
    BY <1>0, <1>4 DEF HealthStates, HealthService!StartupPassed,
       HealthService!Launched
  <2>3. /\ none \in HealthChannels
    BY NothingShown
  <2> HIDE DEF none
  <2>4. health' \in HealthStates
    BY <1>0, <2>2, <2>3, ZenonT(60) DEF HealthStates
  <2>5. /\ health'.smallCheck = health.smallCheck
        /\ health'.notPermitted = health.notPermitted /\ health'.routine = "select"
        /\ health'.try = health.try /\ health'.result = health.result
        /\ health'.channel = <<>> /\ health'.collector = "receiving"
        /\ health'.server = "ok" /\ health'.last = "ok"
    BY <1>0, <1>4, <2>1 DEF HealthStates, HealthService!StartupPassed,
       HealthService!Launched
  <2>6. QED
    BY <1>0, <2>1, <2>2, <2>3, <2>4, <2>5, HealthBounds DEF HealthInv,
       HealthService!FailuresAreShown, HealthService!FallbackIsPermanent
<1>5. CASE HealthService!StartupFailed
  <2>1. CASE health.restartVPN
    <3>1. /\ health' = [health EXCEPT !.last = "failed", !.server = "failed", !.collector = "restart"]
          /\ health.collector = "starting"
      BY <1>0, <1>5, <2>1 DEF HealthStates, HealthService!StartupFailed
    <3>2. health' \in HealthStates
      BY <1>0, <3>1 DEF HealthStates
    <3>3. /\ health'.collector = "restart" /\ health'.smallCheck = health.smallCheck
          /\ health'.notPermitted = health.notPermitted /\ health'.routine = health.routine
      BY <1>0, <3>1 DEF HealthStates
    <3>4. QED
      BY <1>0, <3>1, <3>2, <3>3
      DEF HealthInv, HealthService!FailuresAreShown, HealthService!FallbackIsPermanent
  <2>2. CASE ~health.restartVPN
    <3>1. health' = [health EXCEPT !.routine = "select", !.small = TRUE, !.full = TRUE, !.stop = FALSE,
                                   !.collector = "receiving", !.server = "ok",
                                   !.last = "failed", !.channel = <<"failed">>]
      BY <1>0, <1>5, <2>2 DEF HealthStates, HealthService!StartupFailed, HealthService!Launched
    <3>2. health' \in HealthStates
      <4>1. <<"failed">> \in HealthChannels
        BY Shown
      <4>2. QED
        BY <1>0, <3>1, <4>1, ZenonT(60) DEF HealthStates
    <3>3. /\ health'.collector = "receiving" /\ health'.smallCheck = health.smallCheck
          /\ health'.notPermitted = health.notPermitted /\ health'.routine = "select"
          /\ health'.channel = <<"failed">> /\ health'.last = "failed"
      BY <1>0, <3>1 DEF HealthStates
    <3>4. QED
      BY <1>0, <3>2, <3>3
      DEF HealthInv, HealthService!FailuresAreShown, HealthService!FallbackIsPermanent
  <2>3. QED
    BY <2>1, <2>2
<1>6. QED
  BY <1>1, <1>2, <1>3, <1>4, <1>5

\* A try of a check leaves alone what is shown.
LEMMA HealthTry ==
  ASSUME HealthInv, health' \in HealthStates, health.routine \in {"small", "full"},
         \/ health'.routine \in {"sendSmall", "sendFull"}
         \/ health'.routine = health.routine /\ health'.routine = "small" /\ health'.try < SmallTries
         \/ health'.routine = health.routine /\ health'.routine = "full" /\ health'.try < FullTries,
         \/ health'.smallCheck = health.smallCheck /\ health'.notPermitted = health.notPermitted
         \/ health'.smallCheck = "dns",
         health'.channel = health.channel, health'.collector = health.collector,
         health'.server = health.server, health'.last = health.last
  PROVE  HealthInv'
BY DEF HealthInv, HealthService!FailuresAreShown, HealthService!FallbackIsPermanent

LEMMA HealthTrySteps ==
  ASSUME HealthInv, NEW ok \in BOOLEAN,
         \/ HealthService!DNSTry(ok) \/ HealthService!EchoTry(ok)
         \/ HealthService!EchoNotPermitted(ok) \/ HealthService!FullTry(ok)
  PROVE  HealthInv'
<1>0. /\ health \in HealthStates
      /\ health.routine = "small" => health.try < SmallTries
      /\ health.routine = "full" => health.try < FullTries
  BY DEF HealthInv
<1>1. CASE HealthService!DNSTry(ok)
  <2>1. health.routine = "small" /\ health' = HealthService!DNSChecked(health, ok)
    BY <1>1 DEF HealthService!DNSTry, HealthService!Routine
  <2>2. QED
    BY <1>0, <2>1, DNSCheckEnds, HealthTry
<1>2. CASE HealthService!EchoTry(ok)
  <2>1. health.routine = "small" /\ health' = HealthService!Ended(health, ok, SmallTries)
    BY <1>2 DEF HealthService!EchoTry, HealthService!Routine
  <2>2. QED
    BY <1>0, <2>1, TryEnds, HealthTry
<1>3. CASE HealthService!EchoNotPermitted(ok)
  <2> DEFINE fallen == [health EXCEPT !.notPermitted = TRUE, !.smallCheck = "dns"]
  <2>1. health.routine = "small" /\ health' = HealthService!DNSChecked(fallen, ok)
    BY <1>3 DEF HealthService!EchoNotPermitted, HealthService!Routine
  <2>2. /\ fallen \in HealthStates
        /\ fallen.routine = health.routine /\ fallen.try = health.try /\ fallen.smallCheck = "dns"
        /\ fallen.channel = health.channel /\ fallen.collector = health.collector
        /\ fallen.server = health.server /\ fallen.last = health.last
    BY <1>0 DEF HealthStates
  <2> HIDE DEF fallen
  <2>3. QED
    BY <1>0, <2>1, <2>2, DNSCheckEnds, HealthTry
<1>4. CASE HealthService!FullTry(ok)
  <2>1. health.routine = "full" /\ health' = HealthService!Ended(health, ok, FullTries)
    BY <1>4 DEF HealthService!FullTry, HealthService!Routine
  <2>2. QED
    BY <1>0, <2>1, TryEnds, HealthTry
<1>5. QED
  BY <1>1, <1>2, <1>3, <1>4

LEMMA HealthRoutineSteps ==
  ASSUME HealthInv, \/ HealthService!SmallTimer \/ HealthService!FullTimer
                    \/ HealthService!RoutineEnds \/ HealthService!Send
  PROVE  HealthInv'
<1>0. /\ health \in HealthStates
      /\ health.connections \in 0 .. Connections /\ health.startup \in 0 .. Addresses
  BY DEF HealthInv, HealthStates
<1>1. CASE HealthService!SmallTimer
  <2>1. /\ health.routine = "select"
    BY <1>1 DEF HealthService!SmallTimer, HealthService!Routine
  <2>2. health' \in HealthStates
    BY <1>0, <1>1, <2>1, HealthRanges DEF HealthStates, HealthService!SmallTimer,
       HealthService!Routine
  <2>3. /\ health'.smallCheck = health.smallCheck
        /\ health'.notPermitted = health.notPermitted /\ health'.routine = "small"
        /\ health'.try = 0 /\ health'.result = health.result
        /\ health'.channel = health.channel /\ health'.collector = health.collector
        /\ health'.server = health.server /\ health'.last = health.last
    BY <1>0, <1>1, <2>1 DEF HealthStates, HealthService!SmallTimer,
       HealthService!Routine
  <2>4. QED
    BY <1>0, <2>1, <2>2, <2>3, HealthBounds DEF HealthInv,
       HealthService!FailuresAreShown, HealthService!FallbackIsPermanent
<1>2. CASE HealthService!FullTimer
  <2>1. /\ health.routine = "select"
    BY <1>2 DEF HealthService!FullTimer, HealthService!Routine
  <2>2. health' \in HealthStates
    BY <1>0, <1>2, <2>1, HealthRanges DEF HealthStates, HealthService!FullTimer,
       HealthService!Routine
  <2>3. /\ health'.smallCheck = health.smallCheck
        /\ health'.notPermitted = health.notPermitted /\ health'.routine = "full"
        /\ health'.try = 0 /\ health'.result = health.result
        /\ health'.channel = health.channel /\ health'.collector = health.collector
        /\ health'.server = health.server /\ health'.last = health.last
    BY <1>0, <1>2, <2>1 DEF HealthStates, HealthService!FullTimer,
       HealthService!Routine
  <2>4. QED
    BY <1>0, <2>1, <2>2, <2>3, HealthBounds DEF HealthInv,
       HealthService!FailuresAreShown, HealthService!FallbackIsPermanent
<1>3. CASE HealthService!RoutineEnds
  <2>1. /\ health.routine = "select"
    BY <1>3 DEF HealthService!RoutineEnds, HealthService!Routine
  <2>2. health' \in HealthStates
    BY <1>0, <1>3, <2>1 DEF HealthStates, HealthService!RoutineEnds,
       HealthService!Routine
  <2>3. /\ health'.smallCheck = health.smallCheck
        /\ health'.notPermitted = health.notPermitted /\ health'.routine = "none"
        /\ health'.try = health.try /\ health'.result = health.result
        /\ health'.channel = health.channel /\ health'.collector = health.collector
        /\ health'.server = health.server /\ health'.last = health.last
    BY <1>0, <1>3, <2>1 DEF HealthStates, HealthService!RoutineEnds,
       HealthService!Routine
  <2>4. QED
    BY <1>0, <2>1, <2>2, <2>3, HealthBounds DEF HealthInv,
       HealthService!FailuresAreShown, HealthService!FallbackIsPermanent
<1>4. CASE HealthService!Send
  <2>1. health.routine \in {"sendSmall", "sendFull"}
    BY <1>4 DEF HealthService!Send
  <2>2. CASE health' = [health EXCEPT !.routine = "select"]
    <3>1. health' \in HealthStates
      BY <1>0, <2>2 DEF HealthStates
    <3>2. /\ health'.routine = "select" /\ health'.smallCheck = health.smallCheck
          /\ health'.notPermitted = health.notPermitted /\ health'.channel = health.channel
          /\ health'.collector = health.collector /\ health'.server = health.server
          /\ health'.last = health.last
      BY <1>0, <2>2 DEF HealthStates
    <3>3. QED
      BY <1>0, <2>1, <3>1, <3>2
      DEF HealthInv, HealthService!FailuresAreShown, HealthService!FallbackIsPermanent
  <2>3. CASE health.channel = <<>> /\ ~(health' = [health EXCEPT !.routine = "select"])
    <3> DEFINE channel == <<health.result>>
               answer == health.result
               small == health.small \/ health.routine = "sendSmall"
               full == health.full \/ health.routine = "sendFull"
    <3>1. health' = [health EXCEPT !.routine = "select", !.channel = channel, !.last = answer,
                                   !.small = small, !.full = full]
      BY <1>4, <2>3 DEF HealthService!Send, HealthService!Routine
    <3>2. /\ channel \in HealthChannels /\ answer \in {"ok", "failed"} /\ channel = <<answer>>
      BY <1>0, Shown DEF HealthStates
    <3>3. small \in BOOLEAN /\ full \in BOOLEAN
      OBVIOUS
    <3> DEFINE sent == [health EXCEPT !.routine = "select", !.channel = channel, !.last = answer]
    <3> HIDE DEF channel, answer, small, full
    <3>4. health' \in HealthStates
      <4>1. sent \in HealthStates
        BY <1>0, <3>2 DEF HealthStates
      <4>2. health' = [sent EXCEPT !.small = small, !.full = full]
        BY <3>1
      <4> HIDE DEF sent
      <4>3. QED
        BY <3>3, <4>1, <4>2 DEF HealthStates
    <3>5. /\ health'.routine = "select" /\ health'.smallCheck = health.smallCheck
          /\ health'.notPermitted = health.notPermitted /\ health'.channel = <<health'.last>>
          /\ health'.collector = health.collector /\ health'.server = health.server
      BY <1>0, <3>1, <3>2 DEF HealthStates
    <3>6. health'.last \in {"ok", "failed"}
      BY <3>4 DEF HealthStates
    <3>7. QED
      BY <1>0, <2>1, <3>4, <3>5, <3>6
      DEF HealthInv, HealthService!FailuresAreShown, HealthService!FallbackIsPermanent
  <2>4. QED
    BY <1>4, <2>2, <2>3 DEF HealthService!Send
<1>5. QED
  BY <1>1, <1>2, <1>3, <1>4

LEMMA HealthCollectorSteps ==
  ASSUME HealthInv, \/ HealthService!CollectorDone \/ HealthService!Stopped
                    \/ HealthService!Restart \/ HealthService!Receive
  PROVE  HealthInv'
<1>0. /\ health \in HealthStates
      /\ health.connections \in 0 .. Connections /\ health.startup \in 0 .. Addresses
  BY DEF HealthInv, HealthStates
<1>1. CASE HealthService!CollectorDone
  <2>1. health' \in HealthStates
    BY <1>0, <1>1 DEF HealthStates, HealthService!CollectorDone
  <2>2. /\ health'.smallCheck = health.smallCheck
        /\ health'.notPermitted = health.notPermitted
        /\ health'.routine = health.routine /\ health'.try = health.try
        /\ health'.result = health.result /\ health'.channel = health.channel
        /\ health'.collector = "stopping" /\ health'.server = health.server
        /\ health'.last = health.last
    BY <1>0, <1>1 DEF HealthStates, HealthService!CollectorDone
  <2>3. QED
    BY <1>0, <2>1, <2>2, HealthBounds DEF HealthInv,
       HealthService!FailuresAreShown, HealthService!FallbackIsPermanent
<1>2. CASE HealthService!Stopped
  <2>1. /\ health.routine = "none"
    BY <1>2 DEF HealthService!Stopped, HealthService!Routine
  <2>2. health' \in HealthStates
    BY <1>0, <1>2, <2>1 DEF HealthStates, HealthService!Stopped,
       HealthService!Routine
  <2>3. /\ health'.smallCheck = "" /\ health'.notPermitted = health.notPermitted
        /\ health'.routine = health.routine /\ health'.try = health.try
        /\ health'.result = health.result /\ health'.channel = health.channel
        /\ health'.collector = (IF health.collector = "stopping" THEN "none" ELSE "restart")
        /\ health'.server = health.server /\ health'.last = health.last
    BY <1>0, <1>2, <2>1 DEF HealthStates, HealthService!Stopped,
       HealthService!Routine
  <2>4. QED
    BY <1>0, <2>1, <2>2, <2>3, HealthBounds DEF HealthInv,
       HealthService!FailuresAreShown, HealthService!FallbackIsPermanent
<1>3. CASE HealthService!Restart
  <2>1. /\ health.collector = "restart"
    BY <1>3 DEF HealthService!Restart
  <2>2. health' \in HealthStates
    BY <1>0, <1>3, <2>1 DEF HealthStates, HealthService!Restart
  <2>3. /\ health'.smallCheck = health.smallCheck
        /\ health'.notPermitted = health.notPermitted
        /\ health'.routine = health.routine /\ health'.try = health.try
        /\ health'.result = health.result /\ health'.channel = health.channel
        /\ health'.collector = "none" /\ health'.server = health.server
        /\ health'.last = health.last
    BY <1>0, <1>3, <2>1 DEF HealthStates, HealthService!Restart
  <2>4. QED
    BY <1>0, <2>1, <2>2, <2>3, HealthBounds DEF HealthInv,
       HealthService!FailuresAreShown, HealthService!FallbackIsPermanent
<1>4. CASE HealthService!Receive
  <2> DEFINE answer == Head(health.channel)
             fails == answer = "failed" /\ health.restartVPN
             collector == IF fails THEN "stopAndRestart" ELSE "receiving"
  <2>1. health.collector = "receiving" /\ health.channel # <<>>
    BY <1>4 DEF HealthService!Receive
  <2>2. health.channel = <<health.last>>
    BY <2>1 DEF HealthInv
  <2>3. answer = health.last /\ answer \in {"ok", "failed"}
    <3>1. health.last \in {"ok", "failed"}
      BY <1>0 DEF HealthStates
    <3>2. answer = Head(<<health.last>>)
      BY <2>2, Zenon
    <3> HIDE DEF answer
    <3> QED BY <3>1, <3>2, Shown, Zenon
  <2>4. fails \in BOOLEAN /\ collector \in {"receiving", "stopAndRestart"}
    <3>1. (answer = "failed" /\ health.restartVPN) \in BOOLEAN
      BY Zenon
    <3>2. fails \in BOOLEAN
      BY <3>1
    <3> HIDE DEF fails
    <3>3. collector \in {"receiving", "stopAndRestart"}
      BY Zenon
    <3> QED BY <3>2, <3>3
  <2>5. health' = [health EXCEPT !.channel = <<>>, !.server = answer, !.collector = collector, !.stop = fails]
    BY <1>4, <2>1 DEF HealthService!Receive
  <2> HIDE DEF answer, fails, collector
  <2>6. health' \in HealthStates
    BY <1>0, <2>3, <2>4, <2>5, NothingShown, ZenonT(60) DEF HealthStates
  <2>7. /\ health'.routine = health.routine /\ health'.smallCheck = health.smallCheck
        /\ health'.notPermitted = health.notPermitted /\ health'.channel = <<>>
        /\ health'.collector = collector /\ health'.server = health'.last /\ health'.try = health.try
    BY <1>0, <2>3, <2>5 DEF HealthStates
  <2>8. QED
    BY <1>0, <2>1, <2>4, <2>6, <2>7
    DEF HealthInv, HealthService!FailuresAreShown, HealthService!FallbackIsPermanent
<1>5. QED
  BY <1>1, <1>2, <1>3, <1>4

LEMMA HealthIInv == HealthService!Spec => []HealthInv
<1>1. ASSUME HealthInv, [HealthService!Next]_health PROVE HealthInv'
  <2>1. CASE HealthService!Next
    BY <1>1, <2>1, HealthConnectionSteps, HealthTrySteps, HealthRoutineSteps, HealthCollectorSteps
       DEF HealthService!Next, HealthService!RoutineStep
  <2>2. CASE UNCHANGED health
    BY <1>1, <2>2
    DEF HealthInv, HealthService!FailuresAreShown, HealthService!FallbackIsPermanent,
        HealthService!TypeOK
  <2>3. QED
    BY <1>1, <2>1, <2>2
<1>2. QED
  BY HealthInitInv, <1>1, PTL DEF HealthService!Spec

LEMMA HealthImplemented == Spec => HealthService!Spec
<1>1. Init => HealthService!Init
  BY DEF Init
<1>2. [Next]_vars => [HealthService!Next]_health
  BY DEF Next, vars, UpdaterNext, DNSNext, HTTPNext, SSNext, IPNext, HealthNext, MainNext
<1>3. QED
  BY <1>1, <1>2, PTL DEF Spec, HealthService!Spec

-----------------------------------------------------------------------------
(* PublicIPLoop: what the loop holds, and what the files show.              *)

Written(file, path, text) == [file EXCEPT ![path] = text]

\* The file could not be opened, holds the text, or may hold anything.
WrittenOrNot(state, path, text, left) ==
    \/ path = Unset /\ left.file = state.file /\ left.ok = FALSE /\ left.faults = state.faults
    \/ /\ path \in Paths /\ left.file = Written(state.file, path, text)
       /\ left.ok = state.ok /\ left.faults = state.faults
    \/ left.faults > 0 /\ left.ok = FALSE

IPStates ==
    [loop : {"select", "fetching", "keeping", "persisting", "updating", "answering", "ended"},
     for : Runners \cup Updaters \cup {IPService!None}, ok : BOOLEAN, found : IPs \cup {IPService!None},
     pc : [Runners \cup Updaters -> {"idle", "sending", "awaiting"}],
     gone : SUBSET Runners, data : IPs \cup {IPService!None}, enabled : BOOLEAN,
     path : Paths \cup {Unset}, file : [Paths -> IPService!Text], overtaken : IPs \cup {IPService!None},
     stopping : {"no", "waiting", "stopped"},
     requests : 0 .. IPRequests, faults : 0 .. IPFaults]

\* What the loop found is what it keeps, unless ClearData came in between; it
\* has the settings it changes in hand, and ends before Stop clears.
IPInv ==
    /\ pip \in IPStates
    /\ IPService!FileShowsKnownAddress
    /\ IPService!OneFile
    /\ pip.loop = "persisting" => pip.found \in {pip.data, pip.overtaken}
    /\ pip.loop = "updating" => pip.ok = TRUE
    /\ pip.stopping = "stopped" => pip.data = IPService!None /\ pip.loop = "ended"

LEMMA IPConstants ==
  /\ Unset \notin Paths /\ IPs \cap IPService!NoAddress = {}
  /\ IPRequests \in Nat /\ IPFaults \in Nat
BY DEF ServicesAssumption, IPService!PublicIPConstants

LEMMA IPTexts ==
  /\ "" \in IPService!Text /\ "" \notin IPs
  /\ "invalid IP" \in IPService!Text /\ "invalid IP" \notin IPs
  /\ IPService!None \in IPService!Text /\ IPService!None \notin IPs
  /\ IPs \subseteq IPService!Text
BY IPConstants DEF IPService!Text, IPService!NoAddress

LEMMA IPInitInv == IPService!Init => IPInv
<1> SUFFICES ASSUME IPService!Init PROVE IPInv
  OBVIOUS
<1>1. PICK enabled \in BOOLEAN, path \in Paths \cup {Unset} : IPService!Init!(enabled, path)
  BY DEF IPService!Init
<1>2. 0 \in 0 .. IPRequests /\ 0 \in 0 .. IPFaults
  BY IPConstants
<1>3. pip \in IPStates
  BY <1>1, <1>2, IPTexts DEF IPStates
<1>4. /\ pip.file = [p \in Paths |-> IPService!None] /\ pip.loop = "select"
      /\ pip.stopping = "no"
  BY <1>1
<1>5. QED
  BY <1>3, <1>4, IPTexts DEF IPInv, IPService!FileShowsKnownAddress, IPService!OneFile

LEMMA OneMoreFault == pip \in IPStates /\ IPService!MayFail => pip.faults + 1 \in 0 .. IPFaults /\ pip.faults + 1 > 0
<1> SUFFICES ASSUME pip \in IPStates, IPService!MayFail PROVE pip.faults + 1 \in 0 .. IPFaults /\ pip.faults + 1 > 0
  OBVIOUS
<1>1. pip.faults \in 0 .. IPFaults /\ pip.faults < IPFaults
  BY DEF IPStates, IPService!MayFail
<1>2. QED
  BY <1>1, IPConstants

\* What persistPublicIP leaves: no file that could be opened, the text in the
\* file, or a failed write.
LEMMA WhatIsPersisted ==
  ASSUME NEW state \in IPStates, NEW path \in Paths \cup {Unset}, NEW text \in IPService!Text,
         pip \in IPStates, state.faults = pip.faults,
         NEW left \in IPService!Persisted(state, path, text)
  PROVE  /\ left \in IPStates
         /\ left.loop = state.loop /\ left.for = state.for /\ left.found = state.found
         /\ left.pc = state.pc /\ left.data = state.data /\ left.enabled = state.enabled
         /\ left.path = state.path /\ left.overtaken = state.overtaken
         /\ left.stopping = state.stopping
         /\ WrittenOrNot(state, path, text, left)
<1>1. CASE path = Unset
  <2>1. left = [state EXCEPT !.ok = FALSE]
    BY <1>1 DEF IPService!Persisted
  <2>2. QED
    BY <1>1, <2>1 DEF IPStates, WrittenOrNot
<1>2. CASE path \in Paths /\ left = [state EXCEPT !.file[path] = text]
  <2> DEFINE file == [state.file EXCEPT ![path] = text]
  <2>1. left = [state EXCEPT !.file = file]
    BY <1>2
  <2>2. file \in [Paths -> IPService!Text]
    BY <1>2 DEF IPStates
  <2> HIDE DEF file
  <2>3. left \in IPStates
    BY <2>1, <2>2 DEF IPStates
  <2>4. /\ left.loop = state.loop /\ left.for = state.for /\ left.found = state.found
        /\ left.pc = state.pc /\ left.data = state.data /\ left.enabled = state.enabled
        /\ left.path = state.path /\ left.overtaken = state.overtaken
        /\ left.stopping = state.stopping /\ left.file = file
        /\ left.ok = state.ok /\ left.faults = state.faults
    BY <2>1 DEF IPStates
  <2>5. QED
    BY <1>2, <2>3, <2>4 DEF file, Written, WrittenOrNot
<1>3. CASE path \in Paths /\ left # [state EXCEPT !.file[path] = text]
  <2>1. PICK held \in IF IPService!MayFail THEN {state.file[path], ""} ELSE {} :
          left = [state EXCEPT !.file[path] = held, !.ok = FALSE, !.faults = state.faults + 1]
    BY <1>3, IPConstants DEF IPService!Persisted
  <2> DEFINE file == [state.file EXCEPT ![path] = held]
             faults == state.faults + 1
  <2>2. left = [state EXCEPT !.file = file, !.ok = FALSE, !.faults = faults]
    BY <2>1
  <2>3. file \in [Paths -> IPService!Text] /\ faults \in 0 .. IPFaults /\ faults > 0
    <3>1. state.file \in [Paths -> IPService!Text]
      BY DEF IPStates
    <3>2. held \in IPService!Text
      BY <1>3, <2>1, <3>1, IPTexts
    <3>3. QED
      BY <2>1, <3>1, <3>2, OneMoreFault
  <2> HIDE DEF file, faults
  <2>4. left \in IPStates
    BY <2>2, <2>3 DEF IPStates
  <2>5. /\ left.loop = state.loop /\ left.for = state.for /\ left.found = state.found
        /\ left.pc = state.pc /\ left.data = state.data /\ left.enabled = state.enabled
        /\ left.path = state.path /\ left.overtaken = state.overtaken
        /\ left.stopping = state.stopping /\ left.ok = FALSE /\ left.faults = faults
    BY <2>2 DEF IPStates
  <2>6. QED
    BY <1>3, <2>3, <2>4, <2>5 DEF WrittenOrNot
<1>4. QED
  BY <1>1, <1>2, <1>3

\* The callers come and go without a change to what is known or written.
LEMMA IPCallerSteps ==
  ASSUME IPInv, NEW c \in Runners \cup Updaters,
         \/ IPService!Request(c) \/ IPService!ContextEnds(c)
         \/ IPService!RunAbandoned(c) \/ IPService!UpdateAbandoned(c)
  PROVE  IPInv'
<1>0. /\ pip \in IPStates /\ pip.requests \in 0 .. IPRequests
      /\ pip.pc \in [Runners \cup Updaters -> {"idle", "sending", "awaiting"}] /\ pip.gone \subseteq Runners
  BY DEF IPInv, IPStates
<1>1. /\ pip' \in IPStates
      /\ pip'.loop = pip.loop /\ pip'.ok = pip.ok /\ pip'.found = pip.found /\ pip'.data = pip.data
      /\ pip'.path = pip.path /\ pip'.file = pip.file /\ pip'.overtaken = pip.overtaken
      /\ pip'.stopping = pip.stopping /\ pip'.faults = pip.faults
  <2>1. CASE IPService!Request(c)
    <3> DEFINE places == [pip.pc EXCEPT ![c] = "sending"]
               requests == pip.requests + 1
               gone == pip.gone \ {c}
    <3>1. pip' = [pip EXCEPT !.pc = places, !.requests = requests, !.gone = gone]
      BY <2>1 DEF IPService!Request
    <3>2. pip.requests < IPRequests
      BY <2>1 DEF IPService!Request
    <3>3. /\ places \in [Runners \cup Updaters -> {"idle", "sending", "awaiting"}]
          /\ requests \in 0 .. IPRequests /\ gone \subseteq Runners
      BY <1>0, <3>2, IPConstants
    <3> HIDE DEF places, requests, gone
    <3>4. QED
      BY <1>0, <3>1, <3>3 DEF IPStates
  <2>2. CASE IPService!ContextEnds(c)
    <3> DEFINE gone == pip.gone \cup {c}
    <3>1. pip' = [pip EXCEPT !.gone = gone] /\ gone \subseteq Runners
      BY <1>0, <2>2 DEF IPService!ContextEnds
    <3> HIDE DEF gone
    <3>2. QED
      BY <1>0, <3>1 DEF IPStates
  <2>3. CASE IPService!RunAbandoned(c) \/ IPService!UpdateAbandoned(c)
    <3> DEFINE places == [pip.pc EXCEPT ![c] = "idle"]
    <3>1. pip' = [pip EXCEPT !.pc = places] /\ places \in [Runners \cup Updaters -> {"idle", "sending", "awaiting"}]
      BY <1>0, <2>3 DEF IPService!RunAbandoned, IPService!UpdateAbandoned
    <3> HIDE DEF places
    <3>2. QED
      BY <1>0, <3>1 DEF IPStates
  <2>4. QED
    BY <2>1, <2>2, <2>3
<1>2. QED
  BY <1>1 DEF IPInv, IPService!FileShowsKnownAddress, IPService!OneFile

LEMMA IPLoopSteps ==
  ASSUME IPInv, \/ \E c \in Runners \cup Updaters : IPService!RunAccepted(c) \/ IPService!UpdateAccepted(c)
                \/ \E ip \in IPs : IPService!FetchSucceeds(ip)
                \/ IPService!KeepData \/ IPService!UpdateRefused \/ IPService!Answer
                \/ IPService!Stop \/ IPService!RunEnds \/ IPService!FetchFails
  PROVE  IPInv'
<1>0. /\ pip \in IPStates
      /\ pip.pc \in [Runners \cup Updaters -> {"idle", "sending", "awaiting"}]
  BY DEF IPInv, IPStates
<1>1. ASSUME NEW c \in Runners \cup Updaters, IPService!RunAccepted(c) PROVE IPInv'
  <2>1. /\ pip.loop = "select" /\ c \in Runners \cup Updaters
    BY <1>1 DEF IPService!RunAccepted, IPService!At
  <2> DEFINE places == [pip.pc EXCEPT ![c] = "awaiting"]
             goOn == IF pip.enabled THEN "fetching" ELSE "answering"
  <2>2. pip' = [pip EXCEPT !.pc = places, !.for = c, !.ok = TRUE, !.loop = goOn]
    BY <1>0, <1>1 DEF IPStates, IPService!RunAccepted, IPService!At
  <2>3. /\ places \in [Runners \cup Updaters -> {"idle", "sending", "awaiting"}]
        /\ goOn \in {"fetching", "answering"}
    BY <1>0, <2>1 DEF IPStates, IPService!FileShowsKnownAddress, IPService!OneFile
  <2> HIDE DEF places, goOn
  <2>4. pip' \in IPStates
    BY <1>0, <2>2, <2>3 DEF IPStates
  <2>5. /\ pip'.loop \in {"fetching", "answering"} /\ pip'.ok = TRUE
        /\ pip'.found = pip.found /\ pip'.data = pip.data /\ pip'.path = pip.path
        /\ pip'.file = pip.file /\ pip'.overtaken = pip.overtaken
        /\ pip'.stopping = pip.stopping /\ pip'.faults = pip.faults
    BY <1>0, <1>1, <2>1 DEF IPStates, IPService!RunAccepted, IPService!At
  <2>6. QED
    BY <1>0, <2>1, <2>2, <2>3, <2>4, <2>5, IPTexts DEF IPInv,
       IPService!FileShowsKnownAddress, IPService!OneFile
<1>2. ASSUME NEW c \in Runners \cup Updaters, IPService!UpdateAccepted(c) PROVE IPInv'
  <2>1. /\ pip.loop = "select" /\ c \in Runners \cup Updaters
    BY <1>2 DEF IPService!UpdateAccepted, IPService!At
  <2> DEFINE places == [pip.pc EXCEPT ![c] = "awaiting"]
  <2>2. pip' = [pip EXCEPT !.pc = places, !.for = c, !.ok = TRUE, !.loop = "updating"]
    BY <1>0, <1>2 DEF IPStates, IPService!UpdateAccepted, IPService!At
  <2>3. /\ places \in [Runners \cup Updaters -> {"idle", "sending", "awaiting"}]
    BY <1>0, <2>1 DEF IPStates, IPService!FileShowsKnownAddress, IPService!OneFile
  <2> HIDE DEF places
  <2>4. pip' \in IPStates
    BY <1>0, <2>2, <2>3 DEF IPStates
  <2>5. /\ pip'.loop = "updating" /\ pip'.ok = TRUE /\ pip'.found = pip.found
        /\ pip'.data = pip.data /\ pip'.path = pip.path /\ pip'.file = pip.file
        /\ pip'.overtaken = pip.overtaken /\ pip'.stopping = pip.stopping
        /\ pip'.faults = pip.faults
    BY <1>0, <1>2, <2>1 DEF IPStates, IPService!UpdateAccepted, IPService!At
  <2>6. QED
    BY <1>0, <2>1, <2>2, <2>3, <2>4, <2>5, IPTexts, ZenonT(60) DEF IPInv,
       IPService!FileShowsKnownAddress, IPService!OneFile
<1>3. ASSUME NEW ip \in IPs, IPService!FetchSucceeds(ip) PROVE IPInv'
  <2>1. /\ pip.loop = "fetching"
    BY <1>3 DEF IPService!FetchSucceeds
  <2>2. pip' \in IPStates
    BY <1>0, <1>3, <2>1 DEF IPStates, IPService!FetchSucceeds
  <2>3. /\ pip'.loop = "keeping" /\ pip'.ok = pip.ok /\ pip'.found = ip
        /\ pip'.data = pip.data /\ pip'.path = pip.path /\ pip'.file = pip.file
        /\ pip'.overtaken = pip.overtaken /\ pip'.stopping = pip.stopping
        /\ pip'.faults = pip.faults
    BY <1>0, <1>3, <2>1 DEF IPStates, IPService!FetchSucceeds
  <2>4. QED
    BY <1>0, <2>1, <2>2, <2>3, IPTexts DEF IPInv,
       IPService!FileShowsKnownAddress, IPService!OneFile
<1>4. CASE IPService!KeepData
  <2>1. /\ pip.loop = "keeping"
    BY <1>4 DEF IPService!KeepData
  <2>2. pip' \in IPStates
    BY <1>0, <1>4, <2>1 DEF IPStates, IPService!KeepData
  <2>3. /\ pip'.loop = "persisting" /\ pip'.ok = pip.ok /\ pip'.found = pip.found
        /\ pip'.data = pip.found /\ pip'.path = pip.path /\ pip'.file = pip.file
        /\ pip'.overtaken = pip.overtaken /\ pip'.stopping = pip.stopping
        /\ pip'.faults = pip.faults
    BY <1>0, <1>4, <2>1 DEF IPStates, IPService!KeepData
  <2>4. QED
    BY <1>0, <2>1, <2>2, <2>3, IPTexts DEF IPInv,
       IPService!FileShowsKnownAddress, IPService!OneFile
<1>5. CASE IPService!UpdateRefused
  <2>1. /\ pip.loop = "updating"
    BY <1>5 DEF IPService!UpdateRefused
  <2>2. pip' \in IPStates
    BY <1>0, <1>5, <2>1 DEF IPStates, IPService!UpdateRefused
  <2>3. /\ pip'.loop = "answering" /\ pip'.ok = FALSE /\ pip'.found = pip.found
        /\ pip'.data = pip.data /\ pip'.path = pip.path /\ pip'.file = pip.file
        /\ pip'.overtaken = pip.overtaken /\ pip'.stopping = pip.stopping
        /\ pip'.faults = pip.faults
    BY <1>0, <1>5, <2>1 DEF IPStates, IPService!UpdateRefused
  <2>4. QED
    BY <1>0, <2>1, <2>2, <2>3, IPTexts DEF IPInv,
       IPService!FileShowsKnownAddress, IPService!OneFile
<1>6. CASE IPService!Answer
  <2>1. /\ pip.loop = "answering"
    BY <1>6 DEF IPService!Answer, IPService!At
  <2> DEFINE places == [pip.pc EXCEPT ![pip.for] = "idle"]
  <2>2. pip' = [pip EXCEPT !.loop = "select", !.pc = places, !.for = IPService!None, !.found = IPService!None]
    BY <1>0, <1>6 DEF IPStates, IPService!Answer, IPService!At
  <2>3. /\ places \in [Runners \cup Updaters -> {"idle", "sending", "awaiting"}]
    BY <1>0, <2>1 DEF IPStates, IPService!FileShowsKnownAddress, IPService!OneFile
  <2> HIDE DEF places
  <2>4. pip' \in IPStates
    BY <1>0, <2>2, <2>3 DEF IPStates
  <2>5. /\ pip'.loop = "select" /\ pip'.ok = pip.ok /\ pip'.found = IPService!None
        /\ pip'.data = pip.data /\ pip'.path = pip.path /\ pip'.file = pip.file
        /\ pip'.overtaken = pip.overtaken /\ pip'.stopping = pip.stopping
        /\ pip'.faults = pip.faults
    BY <1>0, <1>6, <2>1 DEF IPStates, IPService!Answer, IPService!At
  <2>6. QED
    BY <1>0, <2>1, <2>2, <2>3, <2>4, <2>5, IPTexts DEF IPInv,
       IPService!FileShowsKnownAddress, IPService!OneFile
<1>7. CASE IPService!Stop
  <2>1. /\ pip.stopping = "no"
    BY <1>7 DEF IPService!Stop
  <2>2. pip' \in IPStates
    BY <1>0, <1>7, <2>1 DEF IPStates, IPService!Stop
  <2>3. /\ pip'.loop = pip.loop /\ pip'.ok = pip.ok /\ pip'.found = pip.found
        /\ pip'.data = pip.data /\ pip'.path = pip.path /\ pip'.file = pip.file
        /\ pip'.overtaken = pip.overtaken /\ pip'.stopping = "waiting"
        /\ pip'.faults = pip.faults
    BY <1>0, <1>7, <2>1 DEF IPStates, IPService!Stop
  <2>4. QED
    BY <1>0, <2>1, <2>2, <2>3, IPTexts DEF IPInv,
       IPService!FileShowsKnownAddress, IPService!OneFile
<1>8. CASE IPService!RunEnds
  <2>1. /\ pip.loop = "select"
    BY <1>8 DEF IPService!RunEnds
  <2>2. pip' \in IPStates
    BY <1>0, <1>8, <2>1 DEF IPStates, IPService!RunEnds
  <2>3. /\ pip'.loop = "ended" /\ pip'.ok = pip.ok /\ pip'.found = pip.found
        /\ pip'.data = pip.data /\ pip'.path = pip.path /\ pip'.file = pip.file
        /\ pip'.overtaken = pip.overtaken /\ pip'.stopping = pip.stopping
        /\ pip'.faults = pip.faults
    BY <1>0, <1>8, <2>1 DEF IPStates, IPService!RunEnds
  <2>4. QED
    BY <1>0, <2>1, <2>2, <2>3, IPTexts DEF IPInv,
       IPService!FileShowsKnownAddress, IPService!OneFile
<1>9. CASE IPService!FetchFails
  <2>1. pip.loop = "fetching"
    BY <1>9 DEF IPService!FetchFails
  <2>2. /\ pip' \in IPStates
        /\ pip'.loop = "answering" /\ pip'.ok = FALSE /\ pip'.found = pip.found /\ pip'.data = pip.data
        /\ pip'.path = pip.path /\ pip'.file = pip.file /\ pip'.overtaken = pip.overtaken
        /\ pip'.stopping = pip.stopping /\ (pip'.faults = pip.faults \/ pip'.faults > 0)
    <3>1. CASE pip' = [pip EXCEPT !.loop = "answering", !.ok = FALSE]
      BY <1>0, <3>1 DEF IPStates
    <3>2. CASE IPService!MayFail /\ pip' = [pip EXCEPT !.loop = "answering", !.ok = FALSE, !.faults = pip.faults + 1]
      <4> DEFINE faults == pip.faults + 1
      <4>1. faults \in 0 .. IPFaults /\ faults > 0
        BY <1>0, <3>2, OneMoreFault
      <4> HIDE DEF faults
      <4>2. pip' = [pip EXCEPT !.loop = "answering", !.ok = FALSE, !.faults = faults]
        BY <3>2 DEF faults
      <4>3. QED
        BY <1>0, <4>1, <4>2 DEF IPStates
    <3>3. QED
      BY <1>9, <3>1, <3>2 DEF IPService!FetchFails
  <2>3. QED
    BY <1>0, <2>1, <2>2
    DEF Written, WrittenOrNot, IPInv, IPService!FileShowsKnownAddress, IPService!OneFile
<1>10. QED
  BY <1>1, <1>2, <1>3, <1>4, <1>5, <1>6, <1>7, <1>8, <1>9

LEMMA AnotherFile ==
  ASSUME IPInv, NEW p \in Paths, pip.file[p] \in IPs, p # pip.path
  PROVE  pip.faults > 0
BY IPTexts DEF IPInv, IPService!OneFile

LEMMA KnownFile ==
  ASSUME IPInv, pip.loop # "persisting", NEW p \in Paths, pip.file[p] \in IPs
  PROVE  pip.file[p] \in {pip.data, pip.overtaken} \/ pip.faults > 0
BY DEF IPInv, IPService!FileShowsKnownAddress

LEMMA IPPersist ==
  ASSUME IPInv, IPService!PersistData
  PROVE  IPInv'
<1>0. /\ pip \in IPStates /\ pip.found \in IPService!Text /\ pip.path \in Paths \cup {Unset}
      /\ pip.file \in [Paths -> IPService!Text] /\ pip.loop = "persisting"
      /\ pip.faults \in 0 .. IPFaults
  BY IPTexts DEF IPInv, IPStates, IPService!PersistData
<1>1. PICK state \in IPService!Persisted(pip, pip.path, pip.found) : pip' = [state EXCEPT !.loop = "answering"]
  BY DEF IPService!PersistData
<1>2. /\ state \in IPStates /\ state.data = pip.data /\ state.path = pip.path
      /\ state.overtaken = pip.overtaken /\ state.stopping = pip.stopping
      /\ WrittenOrNot(pip, pip.path, pip.found, state)
  BY <1>0, <1>1, WhatIsPersisted
<1>3. /\ pip' \in IPStates /\ pip'.loop = "answering" /\ pip'.data = state.data /\ pip'.path = state.path
      /\ pip'.overtaken = state.overtaken /\ pip'.stopping = state.stopping
      /\ pip'.file = state.file /\ pip'.faults = state.faults
  BY <1>1, <1>2 DEF IPStates
<1>4. IPService!OneFile'
  BY <1>0, <1>2, <1>3, IPConstants
  DEF Written, WrittenOrNot, IPInv, IPService!FileShowsKnownAddress, IPService!OneFile
<1>5. ASSUME NEW p \in Paths, pip'.file[p] \in IPs
      PROVE  pip'.file[p] \in {pip'.data, pip'.overtaken} \/ pip'.faults > 0
  <2>1. pip.found \in {pip.data, pip.overtaken}
    BY <1>0 DEF IPInv
  <2>2. CASE p = pip.path
    BY <1>0, <1>2, <1>3, <1>5, <2>1, <2>2, IPConstants DEF Written, WrittenOrNot
  <2>3. CASE p # pip.path
    BY <1>0, <1>2, <1>3, <1>5, <2>3, AnotherFile DEF Written, WrittenOrNot
  <2>4. QED
    BY <2>2, <2>3
<1>6. IPService!FileShowsKnownAddress'
  BY <1>5 DEF IPService!FileShowsKnownAddress
<1>7. QED
  BY <1>0, <1>2, <1>3, <1>4, <1>6 DEF IPInv

LEMMA IPUpdate ==
  ASSUME IPInv, NEW path \in Paths \cup {Unset}, NEW enabled \in BOOLEAN, IPService!Update(path, enabled)
  PROVE  IPInv'
<1> DEFINE old == pip.path
           held == IF old = Unset THEN IPService!None ELSE pip.file[old]
           renamed == [p \in Paths |-> CASE p = old -> IPService!None [] p = path -> held
                                         [] OTHER -> pip.file[p]]
           text == IF pip.data = IPService!None THEN "invalid IP" ELSE pip.data
           outcomes == IF path = old THEN {pip}
                       ELSE IF old = Unset THEN IPService!Persisted(pip, path, text)
                       ELSE IF held = IPService!None THEN {[pip EXCEPT !.ok = FALSE]}
                       ELSE {[pip EXCEPT !.file = renamed]}
<1>0. /\ pip \in IPStates /\ old \in Paths \cup {Unset} /\ pip.data \in IPs \cup {IPService!None}
      /\ pip.file \in [Paths -> IPService!Text] /\ pip.loop = "updating" /\ pip.ok = TRUE
      /\ pip.stopping # "stopped" /\ pip.faults \in 0 .. IPFaults
  BY DEF IPInv, IPStates, IPService!Update
<1>1. PICK state \in outcomes : pip' = [state EXCEPT !.loop = "answering",
                                                   !.path = IF state.ok THEN path ELSE state.path,
                                                   !.enabled = IF state.ok THEN enabled ELSE state.enabled]
  BY DEF IPService!Update
<1>2. text \in IPService!Text /\ (text \in IPs => text = pip.data)
  BY <1>0, IPTexts
<1>3. held \in IPService!Text /\ renamed \in [Paths -> IPService!Text]
  BY <1>0, IPTexts
\* The file that is renamed, or made, is the one file.
<1>4. /\ state \in IPStates /\ state.data = pip.data /\ state.overtaken = pip.overtaken
      /\ state.stopping = pip.stopping /\ state.path = old
      /\ \/ state.faults > 0
         \/ state.faults = pip.faults /\ state.ok = FALSE /\ state.file = pip.file
         \/ /\ state.faults = pip.faults /\ state.ok = TRUE
            /\ \/ path = old /\ state.file = pip.file
               \/ old = Unset /\ path \in Paths /\ state.file = Written(pip.file, path, text)
               \/ old \in Paths /\ path # old /\ state.file = renamed
  <2>1. CASE path = old
    <3>1. state = pip
      BY <1>1, <2>1
    <3>2. QED
      BY <1>0, <2>1, <3>1
  <2>2. CASE path # old /\ old = Unset
    <3>1. state \in IPService!Persisted(pip, path, text)
      BY <1>1, <2>2
    <3> HIDE DEF text, held, renamed, outcomes
    <3>2. /\ state \in IPStates /\ state.data = pip.data /\ state.overtaken = pip.overtaken
          /\ state.stopping = pip.stopping /\ state.path = pip.path
          /\ WrittenOrNot(pip, path, text, state)
      BY <1>0, <1>2, <3>1, WhatIsPersisted
    <3>3. QED
      BY <1>0, <2>2, <3>2 DEF WrittenOrNot
  <2>3. CASE path # old /\ old # Unset /\ held = IPService!None
    <3>1. state = [pip EXCEPT !.ok = FALSE]
      BY <1>1, <2>3
    <3> HIDE DEF held, renamed, text, outcomes
    <3>2. QED
      BY <1>0, <3>1 DEF IPStates
  <2>4. CASE path # old /\ old # Unset /\ held # IPService!None
    <3>1. state = [pip EXCEPT !.file = renamed]
      BY <1>1, <2>4
    <3> HIDE DEF held, renamed, text, outcomes
    <3>2. /\ state \in IPStates /\ state.data = pip.data /\ state.overtaken = pip.overtaken
          /\ state.stopping = pip.stopping /\ state.path = old /\ state.faults = pip.faults
          /\ state.ok = TRUE /\ state.file = renamed
      BY <1>0, <1>3, <3>1 DEF IPStates
    <3>3. QED
      BY <1>0, <2>4, <3>2
  <2>5. QED
    BY <2>1, <2>2, <2>3, <2>4
<1> HIDE DEF outcomes
<1>5. /\ pip' \in IPStates /\ pip'.loop = "answering" /\ pip'.data = pip.data
      /\ pip'.overtaken = pip.overtaken /\ pip'.stopping = pip.stopping
      /\ pip'.file = state.file /\ pip'.faults = state.faults
      /\ pip'.path = IF state.ok THEN path ELSE old
  <2> DEFINE newPath == IF state.ok THEN path ELSE state.path
             newEnabled == IF state.ok THEN enabled ELSE state.enabled
  <2>1. pip' = [state EXCEPT !.loop = "answering", !.path = newPath, !.enabled = newEnabled]
    BY <1>1
  <2>2. newPath \in Paths \cup {Unset} /\ newEnabled \in BOOLEAN
    BY <1>4 DEF IPStates
  <2>3. newPath = IF state.ok THEN path ELSE old
    BY <1>4
  <2> HIDE DEF newPath, newEnabled, old, held, renamed, text
  <2>4. /\ pip' \in IPStates /\ pip'.loop = "answering" /\ pip'.data = state.data
        /\ pip'.overtaken = state.overtaken /\ pip'.stopping = state.stopping
        /\ pip'.file = state.file /\ pip'.faults = state.faults /\ pip'.path = newPath
    BY <1>4, <2>1, <2>2 DEF IPStates
  <2>5. QED
    BY <1>4, <2>3, <2>4
<1>6. \/ pip'.faults > 0
      \/ /\ pip'.faults = pip.faults
         /\ \/ pip'.path = old /\ pip'.file = pip.file
            \/ old = Unset /\ pip'.path = path /\ path \in Paths /\ pip'.file = Written(pip.file, path, text)
            \/ old \in Paths /\ path # old /\ pip'.path = path /\ pip'.file = renamed
  <2> HIDE DEF old, held, renamed, text
  <2>1. QED
    BY <1>4, <1>5
<1>7. IPService!OneFile'
  <2> SUFFICES ASSUME NEW p \in Paths, pip'.file[p] # IPService!None
               PROVE  p = pip'.path \/ pip'.faults > 0
    BY Zenon DEF IPService!OneFile
  <2>1. pip.file[p] # IPService!None => p = old \/ pip.faults > 0
    BY Zenon DEF IPInv, IPService!OneFile
  <2>2. CASE pip'.faults = pip.faults /\ pip'.path = old /\ pip'.file = pip.file
    BY <2>1, <2>2
  <2>3. CASE /\ pip'.faults = pip.faults /\ old = Unset /\ pip'.path = path /\ path \in Paths
             /\ pip'.file = Written(pip.file, path, text)
    <3>1. p # path => pip'.file[p] = pip.file[p]
      <4> HIDE DEF old, held, renamed, text
      <4> QED BY <1>0, <2>3 DEF Written
    <3>2. p # old
      BY <2>3, IPConstants
    <3> QED BY <2>1, <2>3, <3>1, <3>2
  <2>4. CASE /\ pip'.faults = pip.faults /\ old \in Paths /\ path # old
             /\ pip'.path = path /\ pip'.file = renamed
    <3>1. renamed[p] = CASE p = old -> IPService!None [] p = path -> held [] OTHER -> pip.file[p]
      OBVIOUS
    <3> HIDE DEF old, held, renamed, text
    <3>2. CASE p # old /\ p # path
      BY <2>1, <2>4, <3>1, <3>2
    <3> QED BY <2>4, <3>1, <3>2
  <2> HIDE DEF old, held, renamed, text
  <2> QED BY <1>6, <2>2, <2>3, <2>4
<1>8. ASSUME NEW p \in Paths, pip'.file[p] \in IPs
      PROVE  pip'.file[p] \in {pip'.data, pip'.overtaken} \/ pip'.faults > 0
  <2>1. \A q \in Paths : pip.file[q] \in IPs => pip.file[q] \in {pip.data, pip.overtaken} \/ pip.faults > 0
    BY <1>0, KnownFile
  <2>2. CASE pip'.file = pip.file
    BY <1>5, <1>6, <1>8, <2>1, <2>2
  <2>3. CASE path \in Paths /\ pip'.file = Written(pip.file, path, text)
    BY <1>0, <1>2, <1>5, <1>6, <1>8, <2>1, <2>3 DEF Written, WrittenOrNot
  <2>4. CASE pip'.file = renamed /\ path # old
    <3>1. CASE p = old
      BY <1>8, <2>4, <3>1, IPTexts
    <3>2. CASE p # old /\ p = path
      <4>1. pip'.file[p] = held
        BY <2>4, <3>2
      <4>2. old \in Paths /\ held = pip.file[old]
        BY <1>0, <1>8, <4>1, IPTexts
      <4>3. QED
        BY <1>5, <1>6, <1>8, <2>1, <4>1, <4>2
    <3>3. CASE p # old /\ p # path
      <4>1. pip'.file[p] = pip.file[p]
        BY <2>4, <3>3
      <4>2. QED
        BY <1>5, <1>6, <1>8, <2>1, <4>1
    <3>4. QED
      BY <3>1, <3>2, <3>3
  <2>5. QED
    BY <1>6, <2>2, <2>3, <2>4
<1>9. IPService!FileShowsKnownAddress'
  BY <1>8 DEF IPService!FileShowsKnownAddress
<1>10. QED
  BY <1>0, <1>5, <1>7, <1>9 DEF IPInv

\* ClearData and the end of Stop.
LEMMA IPClear ==
  ASSUME IPInv, NEW goOn \in {"no", "waiting", "stopped"}, IPService!Clear(goOn),
         goOn = "stopped" => pip.loop = "ended"
  PROVE  IPInv'
<1> DEFINE overtaken == IF pip.loop = "persisting" THEN pip.found ELSE pip.overtaken
           cleared == [pip EXCEPT !.data = IPService!None, !.stopping = goOn, !.overtaken = overtaken]
<1>0. /\ pip \in IPStates /\ pip.path \in Paths \cup {Unset} /\ pip.ok \in BOOLEAN
      /\ pip.file \in [Paths -> IPService!Text] /\ pip.faults \in 0 .. IPFaults
      /\ overtaken \in IPs \cup {IPService!None}
  BY DEF IPInv, IPStates
<1>1. PICK state \in IPService!Persisted(cleared, pip.path, "") : pip' = [state EXCEPT !.ok = pip.ok]
  BY DEF IPService!Clear
<1>2. overtaken = IF pip.loop = "persisting" THEN pip.found ELSE pip.overtaken
  OBVIOUS
<1> HIDE DEF overtaken
<1>3. /\ cleared \in IPStates /\ cleared.data = IPService!None /\ cleared.stopping = goOn
      /\ cleared.overtaken = overtaken /\ cleared.loop = pip.loop /\ cleared.found = pip.found
      /\ cleared.path = pip.path /\ cleared.file = pip.file /\ cleared.faults = pip.faults
  <2>1. IPService!None \in IPs \cup {IPService!None}
    OBVIOUS
  <2>2. cleared \in IPStates
    BY <1>0, <2>1 DEF IPStates
  <2>3. /\ cleared.data = IPService!None /\ cleared.stopping = goOn
        /\ cleared.overtaken = overtaken
    BY <1>0 DEF IPStates
  <2>4. /\ cleared.loop = pip.loop /\ cleared.found = pip.found
        /\ cleared.path = pip.path /\ cleared.file = pip.file /\ cleared.faults = pip.faults
    BY <1>0 DEF IPStates
  <2>5. QED
    BY <2>2, <2>3, <2>4
<1> HIDE DEF cleared
<1>4. /\ state \in IPStates /\ state.data = IPService!None /\ state.stopping = goOn
      /\ state.overtaken = overtaken /\ state.loop = pip.loop /\ state.found = pip.found
      /\ state.path = pip.path
      /\ WrittenOrNot(cleared, pip.path, "", state)
  <2>1. "" \in IPService!Text
    BY IPTexts
  <2>2. state \in IPService!Persisted(cleared, pip.path, "")
    BY <1>1
  <2>3. /\ state \in IPStates
        /\ state.loop = cleared.loop /\ state.for = cleared.for /\ state.found = cleared.found
        /\ state.pc = cleared.pc /\ state.data = cleared.data /\ state.enabled = cleared.enabled
        /\ state.path = cleared.path /\ state.overtaken = cleared.overtaken
        /\ state.stopping = cleared.stopping
        /\ WrittenOrNot(cleared, pip.path, "", state)
    BY <1>0, <1>3, <2>1, <2>2, WhatIsPersisted
  <2>4. QED
    BY <1>3, <2>3
<1>5. /\ pip' \in IPStates /\ pip'.data = IPService!None /\ pip'.stopping = goOn
      /\ pip'.overtaken = overtaken /\ pip'.loop = pip.loop /\ pip'.found = pip.found
      /\ pip'.path = pip.path /\ pip'.file = state.file /\ pip'.faults = state.faults
      /\ pip'.ok = pip.ok
  BY <1>0, <1>1, <1>4, ZenonT(60) DEF IPStates
<1>6. IPService!OneFile'
  <2>1. ASSUME NEW p \in Paths, pip'.file[p] # IPService!None, p # pip.path
        PROVE  pip'.faults > 0
    <3>1. pip'.faults > 0 \/ (pip'.file[p] = pip.file[p] /\ pip'.faults = pip.faults)
      BY <1>0, <1>3, <1>4, <1>5, <2>1 DEF Written, WrittenOrNot
    <3>2. QED
      BY <2>1, <3>1 DEF IPInv, IPService!OneFile
  <2>2. QED
    BY <1>5, <2>1 DEF IPService!OneFile
<1>7. ASSUME NEW p \in Paths, pip'.file[p] \in IPs
      PROVE  pip'.faults > 0
  <2>1. CASE p = pip.path
    BY <1>0, <1>3, <1>4, <1>5, <1>7, <2>1, IPTexts, IPConstants DEF Written, WrittenOrNot
  <2>2. CASE p # pip.path
    BY <1>0, <1>3, <1>4, <1>5, <1>7, <2>2, AnotherFile DEF Written, WrittenOrNot
  <2>3. QED
    BY <2>1, <2>2
<1>8. IPService!FileShowsKnownAddress'
  BY <1>7 DEF IPService!FileShowsKnownAddress
<1>9. QED
  BY <1>0, <1>2, <1>5, <1>6, <1>8 DEF IPInv

LEMMA IPIInv == IPService!Spec => []IPInv
<1>1. ASSUME IPInv, [IPService!Next]_pip PROVE IPInv'
  <2>1. CASE IPService!ClearData
    <3>1. pip.stopping \in {"no", "waiting"}
      BY <1>1, <2>1 DEF IPService!ClearData, IPInv, IPStates
    <3>2. QED
      BY <1>1, <2>1, <3>1, IPClear DEF IPService!ClearData
  <2>2. CASE IPService!Stopped
    BY <1>1, <2>2, IPClear DEF IPService!Stopped
  <2>3. CASE IPService!Next /\ ~IPService!ClearData /\ ~IPService!Stopped
    BY <1>1, <2>3, IPCallerSteps, IPLoopSteps, IPPersist, IPUpdate
       DEF IPService!Next, IPService!Progress
  <2>4. CASE UNCHANGED pip
    BY <1>1, <2>4
    DEF Written, WrittenOrNot, IPInv, IPService!FileShowsKnownAddress, IPService!OneFile
  <2>5. QED
    BY <1>1, <2>1, <2>2, <2>3, <2>4
<1>2. QED
  BY IPInitInv, <1>1, PTL DEF IPService!Spec

LEMMA IPImplemented == Spec => IPService!Spec
<1>1. Init => IPService!Init
  BY DEF Init
<1>2. [Next]_vars => [IPService!Next]_pip
  BY DEF Next, vars, UpdaterNext, DNSNext, HTTPNext, SSNext, IPNext, HealthNext, MainNext
<1>3. QED
  BY <1>1, <1>2, PTL DEF Spec, IPService!Spec

-----------------------------------------------------------------------------
(* Program: the order of the start, and the groups in which all ends.       *)

Kinds == {"start", "go", "serve"}

ServiceNames == {Main!Startup[i][2] : i \in DOMAIN Main!Startup}

ProgramStates ==
    [pprof : BOOLEAN, at : 1 .. 26,
     phase : {"start", "unready", "select", "stop", "shutdown", "return"},
     signal : BOOLEAN, elapsed : Nat,
     up : SUBSET ServiceNames, late : SUBSET ServiceNames, crashed : SUBSET Main!Reporting, heard : BOOLEAN, routes : BOOLEAN,
     hung : BOOLEAN, err : BOOLEAN, exit : {"no", "zero", "one", "killed"}]

\* Who is up is stopped by name or in a group; what was started is up or has
\* crashed, and what was stopped is down or late.
ServicesInv ==
    /\ \A s \in prog.up : s \in Main!Reporting \/ \E j \in 1 .. 5 : s \in Main!Groups[j].services
    /\ prog.phase = "start" =>
         \A i \in 1 .. prog.at - 1 :
           Main!Startup[i][1] \in Kinds /\ Main!Startup[i][2] # "pprof" =>
             Main!Startup[i][2] \in prog.up \cup prog.crashed
    /\ prog.phase \in {"start", "unready", "select", "stop"} => prog.late = {}
    /\ prog.phase = "select" => prog.at = 1
    /\ prog.phase = "stop" => prog.at \in 1 .. 4 /\ \A k \in 1 .. prog.at - 1 : Main!Stoppers[k] \notin prog.up
    /\ prog.phase = "shutdown" =>
         /\ prog.at \in 1 .. 5
         /\ \A j \in 1 .. prog.at - 1 : Main!Groups[j].services \cap prog.up \subseteq prog.late
    /\ prog.phase = "shutdown" /\ ~prog.heard => prog.up \cap Main!Reporting = {}

\* What _main returns is FALSE only of a program that was told to end, and whose services have ended.
ResultInv ==
    /\ prog.phase = "stop" => prog.signal
    /\ prog.phase = "shutdown" => prog.signal \/ prog.heard
    /\ prog.phase = "shutdown" /\ ~prog.err => prog.late = {}
    /\ prog.phase = "return" /\ ~prog.err =>
         /\ prog.up \subseteq (IF prog.heard THEN Main!Reporting ELSE {})
         /\ prog.signal \/ prog.heard

\* The time that is spent, when no stop takes more than its share.
TimeInv ==
    (\A t \in Slow : 4 * t + Main!Total <= Main!Grace) =>
      /\ prog.phase \in {"start", "unready", "select"} => prog.elapsed = 0
      /\ prog.phase = "stop" => prog.elapsed <= 5 * (prog.at - 1)
      /\ prog.phase = "shutdown" => prog.elapsed <= 20 + (IF prog.at = 5 THEN 22 ELSE 4 * (prog.at - 1))
      /\ prog.phase = "return" => prog.elapsed <= 46

MainInv ==
    /\ prog \in ProgramStates
    /\ ServicesInv /\ ResultInv /\ TimeInv /\ Main!ProgramEndsInOrder

LEMMA StartupIs ==
  /\ Len(Main!Startup) = 26 /\ DOMAIN Main!Startup = 1 .. 26
  /\ Main!Startup[1][1] = "step" /\ Main!Startup[1][2] = "settings"
  /\ Main!Startup[2][1] = "start" /\ Main!Startup[2][2] = "metrics"
  /\ Main!Startup[3][1] = "step" /\ Main!Startup[3][2] = "default routes"
  /\ Main!Startup[4][1] = "step" /\ Main!Startup[4][2] = "firewall"
  /\ Main!Startup[5][1] = "step" /\ Main!Startup[5][2] = "storage"
  /\ Main!Startup[6][1] = "step" /\ Main!Startup[6][2] = "validation"
  /\ Main!Startup[7][1] = "step" /\ Main!Startup[7][2] = "versions"
  /\ Main!Startup[8][1] = "step" /\ Main!Startup[8][2] = "routing"
  /\ Main!Startup[9][1] = "step" /\ Main!Startup[9][2] = "subnets and ports"
  /\ Main!Startup[10][1] = "serve" /\ Main!Startup[10][2] = "pprof"
  /\ Main!Startup[11][1] = "start" /\ Main!Startup[11][2] = "port forwarding"
  /\ Main!Startup[12][1] = "step" /\ Main!Startup[12][2] = "dns settings"
  /\ Main!Startup[13][1] = "go" /\ Main!Startup[13][2] = "dns"
  /\ Main!Startup[14][1] = "go" /\ Main!Startup[14][2] = "dns ticker"
  /\ Main!Startup[15][1] = "start" /\ Main!Startup[15][2] = "public ip"
  /\ Main!Startup[16][1] = "start" /\ Main!Startup[16][2] = "socks5"
  /\ Main!Startup[17][1] = "go" /\ Main!Startup[17][2] = "health server"
  /\ Main!Startup[18][1] = "step" /\ Main!Startup[18][2] = "resolver"
  /\ Main!Startup[19][1] = "go" /\ Main!Startup[19][2] = "vpn"
  /\ Main!Startup[20][1] = "go" /\ Main!Startup[20][2] = "updater"
  /\ Main!Startup[21][1] = "go" /\ Main!Startup[21][2] = "updater ticker"
  /\ Main!Startup[22][1] = "go" /\ Main!Startup[22][2] = "http proxy"
  /\ Main!Startup[23][1] = "go" /\ Main!Startup[23][2] = "shadowsocks"
  /\ Main!Startup[24][1] = "step" /\ Main!Startup[24][2] = "control settings"
  /\ Main!Startup[25][1] = "serve" /\ Main!Startup[25][2] = "control"
  /\ Main!Startup[26][1] = "apply" /\ Main!Startup[26][2] = "vpn"
<1>1. Len(Main!Startup) = 26 /\ DOMAIN Main!Startup = 1 .. 26
  BY DEF Main!Startup
<1>2. /\ Main!Startup[1][1] = "step" /\ Main!Startup[1][2] = "settings"
      /\ Main!Startup[2][1] = "start" /\ Main!Startup[2][2] = "metrics"
      /\ Main!Startup[3][1] = "step" /\ Main!Startup[3][2] = "default routes"
      /\ Main!Startup[4][1] = "step" /\ Main!Startup[4][2] = "firewall"
      /\ Main!Startup[5][1] = "step" /\ Main!Startup[5][2] = "storage"
  BY DEF Main!Startup
<1>3. /\ Main!Startup[6][1] = "step" /\ Main!Startup[6][2] = "validation"
      /\ Main!Startup[7][1] = "step" /\ Main!Startup[7][2] = "versions"
      /\ Main!Startup[8][1] = "step" /\ Main!Startup[8][2] = "routing"
      /\ Main!Startup[9][1] = "step" /\ Main!Startup[9][2] = "subnets and ports"
      /\ Main!Startup[10][1] = "serve" /\ Main!Startup[10][2] = "pprof"
  BY DEF Main!Startup
<1>4. /\ Main!Startup[11][1] = "start" /\ Main!Startup[11][2] = "port forwarding"
      /\ Main!Startup[12][1] = "step" /\ Main!Startup[12][2] = "dns settings"
      /\ Main!Startup[13][1] = "go" /\ Main!Startup[13][2] = "dns"
      /\ Main!Startup[14][1] = "go" /\ Main!Startup[14][2] = "dns ticker"
      /\ Main!Startup[15][1] = "start" /\ Main!Startup[15][2] = "public ip"
  BY DEF Main!Startup
<1>5. /\ Main!Startup[16][1] = "start" /\ Main!Startup[16][2] = "socks5"
      /\ Main!Startup[17][1] = "go" /\ Main!Startup[17][2] = "health server"
      /\ Main!Startup[18][1] = "step" /\ Main!Startup[18][2] = "resolver"
      /\ Main!Startup[19][1] = "go" /\ Main!Startup[19][2] = "vpn"
      /\ Main!Startup[20][1] = "go" /\ Main!Startup[20][2] = "updater"
  BY DEF Main!Startup
<1>6. /\ Main!Startup[21][1] = "go" /\ Main!Startup[21][2] = "updater ticker"
      /\ Main!Startup[22][1] = "go" /\ Main!Startup[22][2] = "http proxy"
      /\ Main!Startup[23][1] = "go" /\ Main!Startup[23][2] = "shadowsocks"
      /\ Main!Startup[24][1] = "step" /\ Main!Startup[24][2] = "control settings"
      /\ Main!Startup[25][1] = "serve" /\ Main!Startup[25][2] = "control"
  BY DEF Main!Startup
<1>7. /\ Main!Startup[26][1] = "apply" /\ Main!Startup[26][2] = "vpn"
  BY DEF Main!Startup
<1> QED BY <1>1, <1>2, <1>3, <1>4, <1>5, <1>6, <1>7

LEMMA CallsAre ==
  ASSUME NEW call \in Main!Calls
  PROVE  \/ call[1] = "vpn" /\ call[2] \in {"port forwarding", "public ip", "dns"}
         \/ call[1] = "control" /\ call[2] \in {"vpn", "port forwarding", "dns", "updater", "public ip"}
         \/ call[1] = "updater ticker" /\ call[2] = "updater"
         \/ call[1] = "dns ticker" /\ call[2] = "dns"
<1>1. \/ \E s \in {"port forwarding", "public ip", "dns"} : call = <<"vpn", s>>
      \/ \E s \in {"vpn", "port forwarding", "dns", "updater", "public ip"} : call = <<"control", s>>
      \/ call = <<"updater ticker", "updater">>
      \/ call = <<"dns ticker", "dns">>
  BY DEF Main!Calls
<1>2. ASSUME NEW s \in {"port forwarding", "public ip", "dns"}, call = <<"vpn", s>>
      PROVE  call[1] = "vpn" /\ call[2] \in {"port forwarding", "public ip", "dns"}
  BY <1>2
<1>3. ASSUME NEW s \in {"vpn", "port forwarding", "dns", "updater", "public ip"},
             call = <<"control", s>>
      PROVE  call[1] = "control"
             /\ call[2] \in {"vpn", "port forwarding", "dns", "updater", "public ip"}
  BY <1>3
<1>4. \A a, b : call = <<a, b>> => call[1] = a /\ call[2] = b
  OBVIOUS
<1> QED BY <1>1, <1>2, <1>3, <1>4, Zenon

LEMMA StoppersAre ==
  /\ Main!Reporting = {"port forwarding", "public ip", "socks5", "metrics"}
  /\ Len(Main!Stoppers) = 4 /\ \A k \in 1 .. 4 : Main!Stoppers[k] \in Main!Reporting
  /\ \A s \in Main!Reporting : \E k \in 1 .. 4 : s = Main!Stoppers[k]
<1>1. /\ Len(Main!Stoppers) = 4 /\ DOMAIN Main!Stoppers = 1 .. 4
      /\ Main!Stoppers[1] = "port forwarding" /\ Main!Stoppers[2] = "public ip"
      /\ Main!Stoppers[3] = "socks5" /\ Main!Stoppers[4] = "metrics"
  BY DEF Main!Stoppers
<1>2. Main!Reporting = {Main!Stoppers[k] : k \in 1 .. 4}
  BY <1>1 DEF Main!Reporting, Main!ToSet
<1>3. 1 \in 1 .. 4 /\ 2 \in 1 .. 4 /\ 3 \in 1 .. 4 /\ 4 \in 1 .. 4
      /\ \A k \in 1 .. 4 : k = 1 \/ k = 2 \/ k = 3 \/ k = 4
  OBVIOUS
<1>4. \A s : s \in Main!Reporting <=> \E k \in 1 .. 4 : s = Main!Stoppers[k]
  BY <1>2
<1>5. \A s : s \in Main!Reporting <=> s \in {"port forwarding", "public ip", "socks5", "metrics"}
  <2>1. ASSUME NEW s \in Main!Reporting
        PROVE  s \in {"port forwarding", "public ip", "socks5", "metrics"}
    <3>1. PICK k \in 1 .. 4 : s = Main!Stoppers[k]
      BY <1>4, Zenon
    <3>2. s = Main!Stoppers[1] \/ s = Main!Stoppers[2] \/ s = Main!Stoppers[3] \/ s = Main!Stoppers[4]
      BY <1>3, <3>1, Zenon
    <3> QED BY <1>1, <3>2, Zenon
  <2>2. ASSUME NEW s \in {"port forwarding", "public ip", "socks5", "metrics"}
        PROVE  s \in Main!Reporting
    <3>1. s = Main!Stoppers[1] \/ s = Main!Stoppers[2] \/ s = Main!Stoppers[3] \/ s = Main!Stoppers[4]
      BY <1>1, Zenon
    <3> QED BY <1>3, <1>4, <3>1, Zenon
  <2> QED BY <2>1, <2>2, Zenon
<1>6. Main!Reporting = {"port forwarding", "public ip", "socks5", "metrics"}
  <2> DEFINE all == {"port forwarding", "public ip", "socks5", "metrics"}
  <2>1. \A s : s \in Main!Reporting <=> s \in all
    BY <1>5
  <2> HIDE DEF all
  <2>2. Main!Reporting = all
    BY <2>1
  <2> QED BY <2>2 DEF all
<1>7. \A k \in 1 .. 4 : Main!Stoppers[k] \in Main!Reporting
  BY <1>4, Zenon
<1>8. \A s \in Main!Reporting : \E k \in 1 .. 4 : s = Main!Stoppers[k]
  BY <1>4, Zenon
<1>9. Len(Main!Stoppers) = 4
  BY <1>1
<1> QED BY <1>6, <1>7, <1>8, <1>9, Zenon

LEMMA GroupsAre ==
  /\ Len(Main!Groups) = 5
  /\ Main!Groups[1].services = {"dns ticker", "updater ticker", "control"}
  /\ Main!Groups[2].services = {"updater"}
  /\ Main!Groups[3].services = {"health server"}
  /\ Main!Groups[4].services = {"vpn"}
  /\ Main!Groups[5].services = {"dns", "http proxy", "shadowsocks", "pprof"}
  /\ Main!Groups[1].timeout = 4 /\ Main!Groups[2].timeout = 4 /\ Main!Groups[3].timeout = 4
  /\ Main!Groups[4].timeout = 10 /\ Main!Groups[5].timeout = 4
BY DEF Main!Groups, Main!Group

Positions(i) ==
  \/ i = 1 \/ i = 2 \/ i = 3 \/ i = 4 \/ i = 5 \/ i = 6 \/ i = 7 \/ i = 8 \/ i = 9 \/ i = 10
  \/ i = 11 \/ i = 12 \/ i = 13 \/ i = 14 \/ i = 15 \/ i = 16 \/ i = 17 \/ i = 18 \/ i = 19
  \/ i = 20 \/ i = 21 \/ i = 22 \/ i = 23 \/ i = 24 \/ i = 25 \/ i = 26

LEMMA PositionsAre == \A i \in 1 .. 26 : Positions(i)
BY DEF Positions

\* The positions at which a service is launched.
LaunchedAt(i) ==
  \/ i = 2 \/ i = 10 \/ i = 11 \/ i = 13 \/ i = 14 \/ i = 15 \/ i = 16 \/ i = 17
  \/ i = 19 \/ i = 20 \/ i = 21 \/ i = 22 \/ i = 23 \/ i = 25

LEMMA LaunchedAre ==
  \A i \in 1 .. 26 : Main!Startup[i][1] \in Kinds => LaunchedAt(i)
<1>1. /\ Main!Startup[1][1] \notin Kinds /\ Main!Startup[3][1] \notin Kinds
      /\ Main!Startup[4][1] \notin Kinds /\ Main!Startup[5][1] \notin Kinds
      /\ Main!Startup[6][1] \notin Kinds /\ Main!Startup[7][1] \notin Kinds
      /\ Main!Startup[8][1] \notin Kinds /\ Main!Startup[9][1] \notin Kinds
      /\ Main!Startup[12][1] \notin Kinds /\ Main!Startup[18][1] \notin Kinds
      /\ Main!Startup[24][1] \notin Kinds /\ Main!Startup[26][1] \notin Kinds
  BY StartupIs, ZenonT(30) DEF Kinds
<1> QED BY <1>1, PositionsAre DEF Positions, LaunchedAt

\* The services that others call.
LEMMA CalledAt ==
  /\ Main!Startup[11][1] \in Kinds /\ Main!Startup[11][2] # "pprof" /\ Main!Startup[11][2] = "port forwarding"
  /\ Main!Startup[13][1] \in Kinds /\ Main!Startup[13][2] # "pprof" /\ Main!Startup[13][2] = "dns"
  /\ Main!Startup[15][1] \in Kinds /\ Main!Startup[15][2] # "pprof" /\ Main!Startup[15][2] = "public ip"
  /\ Main!Startup[19][1] \in Kinds /\ Main!Startup[19][2] # "pprof" /\ Main!Startup[19][2] = "vpn"
  /\ Main!Startup[20][1] \in Kinds /\ Main!Startup[20][2] # "pprof" /\ Main!Startup[20][2] = "updater"
<1>1. Main!Startup[11][1] \in Kinds /\ Main!Startup[11][2] # "pprof" /\ Main!Startup[11][2] = "port forwarding"
  <2>1. Main!Startup[11][1] = "start" /\ Main!Startup[11][2] = "port forwarding"
    BY StartupIs
  <2> QED BY <2>1, Zenon DEF Kinds
<1>2. Main!Startup[13][1] \in Kinds /\ Main!Startup[13][2] # "pprof" /\ Main!Startup[13][2] = "dns"
  <2>1. Main!Startup[13][1] = "go" /\ Main!Startup[13][2] = "dns"
    BY StartupIs
  <2> QED BY <2>1, Zenon DEF Kinds
<1>3. Main!Startup[15][1] \in Kinds /\ Main!Startup[15][2] # "pprof" /\ Main!Startup[15][2] = "public ip"
  <2>1. Main!Startup[15][1] = "start" /\ Main!Startup[15][2] = "public ip"
    BY StartupIs
  <2> QED BY <2>1, Zenon DEF Kinds
<1>4. Main!Startup[19][1] \in Kinds /\ Main!Startup[19][2] # "pprof" /\ Main!Startup[19][2] = "vpn"
  <2>1. Main!Startup[19][1] = "go" /\ Main!Startup[19][2] = "vpn"
    BY StartupIs
  <2> QED BY <2>1, Zenon DEF Kinds
<1>5. Main!Startup[20][1] \in Kinds /\ Main!Startup[20][2] # "pprof" /\ Main!Startup[20][2] = "updater"
  <2>1. Main!Startup[20][1] = "go" /\ Main!Startup[20][2] = "updater"
    BY StartupIs
  <2> QED BY <2>1, Zenon DEF Kinds
<1> QED BY <1>1, <1>2, <1>3, <1>4, <1>5, Zenon

\* What a service calls is started before it...
LEMMA CalledBefore ==
  ASSUME NEW call \in Main!Calls, NEW i \in 1 .. 26,
         Main!Startup[i][1] \in Kinds, Main!Startup[i][2] = call[1]
  PROVE  \E j \in 1 .. i - 1 : /\ Main!Startup[j][1] \in Kinds /\ Main!Startup[j][2] # "pprof"
                               /\ Main!Startup[j][2] = call[2]
<1>0. LaunchedAt(i)
  BY LaunchedAre
<1>1. CASE call[1] = "vpn"
  <2>1. i = 19
    <3>1. /\ Main!Startup[2][2] # call[1] /\ Main!Startup[10][2] # call[1]
          /\ Main!Startup[11][2] # call[1] /\ Main!Startup[13][2] # call[1]
          /\ Main!Startup[14][2] # call[1] /\ Main!Startup[15][2] # call[1]
          /\ Main!Startup[16][2] # call[1] /\ Main!Startup[17][2] # call[1]
          /\ Main!Startup[20][2] # call[1] /\ Main!Startup[21][2] # call[1]
          /\ Main!Startup[22][2] # call[1] /\ Main!Startup[23][2] # call[1]
          /\ Main!Startup[25][2] # call[1]
      <4>1. /\ Main!Startup[2][2] = "metrics" /\ Main!Startup[10][2] = "pprof"
            /\ Main!Startup[11][2] = "port forwarding" /\ Main!Startup[13][2] = "dns"
            /\ Main!Startup[14][2] = "dns ticker" /\ Main!Startup[15][2] = "public ip"
            /\ Main!Startup[16][2] = "socks5" /\ Main!Startup[17][2] = "health server"
            /\ Main!Startup[20][2] = "updater" /\ Main!Startup[21][2] = "updater ticker"
            /\ Main!Startup[22][2] = "http proxy" /\ Main!Startup[23][2] = "shadowsocks"
            /\ Main!Startup[25][2] = "control"
        BY StartupIs, ZenonT(30)
      <4> QED BY <1>1, <4>1, ZenonT(30)
    <3> QED BY <1>0, <3>1 DEF LaunchedAt
  <2>2. call[2] = "port forwarding" \/ call[2] = "public ip" \/ call[2] = "dns"
    BY <1>1, CallsAre
  <2>3. CASE call[2] = "port forwarding"
    <3>1. 11 \in 1 .. i - 1
      BY <2>1
    <3>2. Main!Startup[11][1] \in Kinds /\ Main!Startup[11][2] # "pprof" /\ Main!Startup[11][2] = call[2]
      BY <2>3, CalledAt, Zenon
    <3> QED BY <3>1, <3>2
  <2>4. CASE call[2] = "public ip"
    <3>1. 15 \in 1 .. i - 1
      BY <2>1
    <3>2. Main!Startup[15][1] \in Kinds /\ Main!Startup[15][2] # "pprof" /\ Main!Startup[15][2] = call[2]
      BY <2>4, CalledAt, Zenon
    <3> QED BY <3>1, <3>2
  <2>5. CASE call[2] = "dns"
    <3>1. 13 \in 1 .. i - 1
      BY <2>1
    <3>2. Main!Startup[13][1] \in Kinds /\ Main!Startup[13][2] # "pprof" /\ Main!Startup[13][2] = call[2]
      BY <2>5, CalledAt, Zenon
    <3> QED BY <3>1, <3>2
  <2> QED BY <2>2, <2>3, <2>4, <2>5
<1>2. CASE call[1] = "control"
  <2>1. i = 25
    <3>1. /\ Main!Startup[2][2] # call[1] /\ Main!Startup[10][2] # call[1]
          /\ Main!Startup[11][2] # call[1] /\ Main!Startup[13][2] # call[1]
          /\ Main!Startup[14][2] # call[1] /\ Main!Startup[15][2] # call[1]
          /\ Main!Startup[16][2] # call[1] /\ Main!Startup[17][2] # call[1]
          /\ Main!Startup[19][2] # call[1] /\ Main!Startup[20][2] # call[1]
          /\ Main!Startup[21][2] # call[1] /\ Main!Startup[22][2] # call[1]
          /\ Main!Startup[23][2] # call[1]
      <4>1. /\ Main!Startup[2][2] = "metrics" /\ Main!Startup[10][2] = "pprof"
            /\ Main!Startup[11][2] = "port forwarding" /\ Main!Startup[13][2] = "dns"
            /\ Main!Startup[14][2] = "dns ticker" /\ Main!Startup[15][2] = "public ip"
            /\ Main!Startup[16][2] = "socks5" /\ Main!Startup[17][2] = "health server"
            /\ Main!Startup[19][2] = "vpn" /\ Main!Startup[20][2] = "updater"
            /\ Main!Startup[21][2] = "updater ticker" /\ Main!Startup[22][2] = "http proxy"
            /\ Main!Startup[23][2] = "shadowsocks"
        BY StartupIs, ZenonT(30)
      <4> QED BY <1>2, <4>1, ZenonT(30)
    <3> QED BY <1>0, <3>1 DEF LaunchedAt
  <2>2. call[2] = "vpn" \/ call[2] = "port forwarding" \/ call[2] = "dns" \/ call[2] = "updater" \/ call[2] = "public ip"
    BY <1>2, CallsAre
  <2>3. CASE call[2] = "vpn"
    <3>1. 19 \in 1 .. i - 1
      BY <2>1
    <3>2. Main!Startup[19][1] \in Kinds /\ Main!Startup[19][2] # "pprof" /\ Main!Startup[19][2] = call[2]
      BY <2>3, CalledAt, Zenon
    <3> QED BY <3>1, <3>2
  <2>4. CASE call[2] = "port forwarding"
    <3>1. 11 \in 1 .. i - 1
      BY <2>1
    <3>2. Main!Startup[11][1] \in Kinds /\ Main!Startup[11][2] # "pprof" /\ Main!Startup[11][2] = call[2]
      BY <2>4, CalledAt, Zenon
    <3> QED BY <3>1, <3>2
  <2>5. CASE call[2] = "dns"
    <3>1. 13 \in 1 .. i - 1
      BY <2>1
    <3>2. Main!Startup[13][1] \in Kinds /\ Main!Startup[13][2] # "pprof" /\ Main!Startup[13][2] = call[2]
      BY <2>5, CalledAt, Zenon
    <3> QED BY <3>1, <3>2
  <2>6. CASE call[2] = "updater"
    <3>1. 20 \in 1 .. i - 1
      BY <2>1
    <3>2. Main!Startup[20][1] \in Kinds /\ Main!Startup[20][2] # "pprof" /\ Main!Startup[20][2] = call[2]
      BY <2>6, CalledAt, Zenon
    <3> QED BY <3>1, <3>2
  <2>7. CASE call[2] = "public ip"
    <3>1. 15 \in 1 .. i - 1
      BY <2>1
    <3>2. Main!Startup[15][1] \in Kinds /\ Main!Startup[15][2] # "pprof" /\ Main!Startup[15][2] = call[2]
      BY <2>7, CalledAt, Zenon
    <3> QED BY <3>1, <3>2
  <2> QED BY <2>2, <2>3, <2>4, <2>5, <2>6, <2>7
<1>3. CASE call[1] = "updater ticker"
  <2>1. i = 21
    <3>1. /\ Main!Startup[2][2] # call[1] /\ Main!Startup[10][2] # call[1]
          /\ Main!Startup[11][2] # call[1] /\ Main!Startup[13][2] # call[1]
          /\ Main!Startup[14][2] # call[1] /\ Main!Startup[15][2] # call[1]
          /\ Main!Startup[16][2] # call[1] /\ Main!Startup[17][2] # call[1]
          /\ Main!Startup[19][2] # call[1] /\ Main!Startup[20][2] # call[1]
          /\ Main!Startup[22][2] # call[1] /\ Main!Startup[23][2] # call[1]
          /\ Main!Startup[25][2] # call[1]
      <4>1. /\ Main!Startup[2][2] = "metrics" /\ Main!Startup[10][2] = "pprof"
            /\ Main!Startup[11][2] = "port forwarding" /\ Main!Startup[13][2] = "dns"
            /\ Main!Startup[14][2] = "dns ticker" /\ Main!Startup[15][2] = "public ip"
            /\ Main!Startup[16][2] = "socks5" /\ Main!Startup[17][2] = "health server"
            /\ Main!Startup[19][2] = "vpn" /\ Main!Startup[20][2] = "updater"
            /\ Main!Startup[22][2] = "http proxy" /\ Main!Startup[23][2] = "shadowsocks"
            /\ Main!Startup[25][2] = "control"
        BY StartupIs, ZenonT(30)
      <4> QED BY <1>3, <4>1, ZenonT(30)
    <3> QED BY <1>0, <3>1 DEF LaunchedAt
  <2>2. call[2] = "updater"
    BY <1>3, CallsAre
  <2>3. CASE call[2] = "updater"
    <3>1. 20 \in 1 .. i - 1
      BY <2>1
    <3>2. Main!Startup[20][1] \in Kinds /\ Main!Startup[20][2] # "pprof" /\ Main!Startup[20][2] = call[2]
      BY <2>3, CalledAt, Zenon
    <3> QED BY <3>1, <3>2
  <2> QED BY <2>2, <2>3
<1>4. CASE call[1] = "dns ticker"
  <2>1. i = 14
    <3>1. /\ Main!Startup[2][2] # call[1] /\ Main!Startup[10][2] # call[1]
          /\ Main!Startup[11][2] # call[1] /\ Main!Startup[13][2] # call[1]
          /\ Main!Startup[15][2] # call[1] /\ Main!Startup[16][2] # call[1]
          /\ Main!Startup[17][2] # call[1] /\ Main!Startup[19][2] # call[1]
          /\ Main!Startup[20][2] # call[1] /\ Main!Startup[21][2] # call[1]
          /\ Main!Startup[22][2] # call[1] /\ Main!Startup[23][2] # call[1]
          /\ Main!Startup[25][2] # call[1]
      <4>1. /\ Main!Startup[2][2] = "metrics" /\ Main!Startup[10][2] = "pprof"
            /\ Main!Startup[11][2] = "port forwarding" /\ Main!Startup[13][2] = "dns"
            /\ Main!Startup[15][2] = "public ip" /\ Main!Startup[16][2] = "socks5"
            /\ Main!Startup[17][2] = "health server" /\ Main!Startup[19][2] = "vpn"
            /\ Main!Startup[20][2] = "updater" /\ Main!Startup[21][2] = "updater ticker"
            /\ Main!Startup[22][2] = "http proxy" /\ Main!Startup[23][2] = "shadowsocks"
            /\ Main!Startup[25][2] = "control"
        BY StartupIs, ZenonT(30)
      <4> QED BY <1>4, <4>1, ZenonT(30)
    <3> QED BY <1>0, <3>1 DEF LaunchedAt
  <2>2. call[2] = "dns"
    BY <1>4, CallsAre
  <2>3. CASE call[2] = "dns"
    <3>1. 13 \in 1 .. i - 1
      BY <2>1
    <3>2. Main!Startup[13][1] \in Kinds /\ Main!Startup[13][2] # "pprof" /\ Main!Startup[13][2] = call[2]
      BY <2>3, CalledAt, Zenon
    <3> QED BY <3>1, <3>2
  <2> QED BY <2>2, <2>3
<1> QED BY <1>1, <1>2, <1>3, <1>4, CallsAre

\* ... and ends after it.
LEMMA CalledAfter ==
  ASSUME NEW call \in Main!Calls, NEW m \in 1 .. 5, call[2] \in Main!Groups[m].services
  PROVE  \E j \in 1 .. m - 1 : call[1] \in Main!Groups[j].services
<1>1. m = 1 \/ m = 2 \/ m = 3 \/ m = 4 \/ m = 5
  OBVIOUS
<1>2. \/ m = 2 /\ call[2] = "updater" /\ call[1] \in {"control", "updater ticker"}
      \/ m = 4 /\ call[2] = "vpn" /\ call[1] = "control"
      \/ m = 5 /\ call[2] = "dns" /\ call[1] \in {"vpn", "control", "dns ticker"}
  <2>1. call[2] = "port forwarding" \/ call[2] = "public ip" \/ call[2] = "dns"
        \/ call[2] = "vpn" \/ call[2] = "updater"
    BY CallsAre, Zenon
  <2>2. m # 1
    <3>1. call[2] \notin {"dns ticker", "updater ticker", "control"}
      BY <2>1, Zenon
    <3> QED BY <3>1, GroupsAre, Zenon
  <2>3. m # 3
    <3>1. call[2] \notin {"health server"}
      BY <2>1, Zenon
    <3> QED BY <3>1, GroupsAre, Zenon
  <2>4. CASE m = 2
    <3>1. call[2] = "updater"
      <4>1. Main!Groups[2].services = {"updater"}
        BY GroupsAre
      <4> QED BY <2>4, <4>1, Zenon
    <3>2. call[1] \in {"control", "updater ticker"}
      BY <3>1, CallsAre, Zenon
    <3> QED BY <2>4, <3>1, <3>2, Zenon
  <2>5. CASE m = 4
    <3>1. call[2] = "vpn"
      <4>1. Main!Groups[4].services = {"vpn"}
        BY GroupsAre
      <4> QED BY <2>5, <4>1, Zenon
    <3>2. call[1] = "control"
      BY <3>1, CallsAre, Zenon
    <3> QED BY <2>5, <3>1, <3>2, Zenon
  <2>6. CASE m = 5
    <3>1. call[2] = "dns"
      <4>1. call[2] \in {"dns", "http proxy", "shadowsocks", "pprof"}
        BY <2>6, GroupsAre, Zenon
      <4> QED BY <2>1, <4>1, Zenon
    <3>2. call[1] \in {"vpn", "control", "dns ticker"}
      BY <3>1, CallsAre, Zenon
    <3> QED BY <2>6, <3>1, <3>2, Zenon
  <2> QED BY <1>1, <2>2, <2>3, <2>4, <2>5, <2>6, Zenon
<1>3. CASE call[1] = "vpn"
  <2>1. 4 \in 1 .. m - 1
    BY <1>2, <1>3
  <2> QED BY <1>3, <2>1, GroupsAre
<1>4. CASE call[1] # "vpn"
  <2>1. 1 \in 1 .. m - 1
    <3>1. m = 2 \/ m = 4 \/ m = 5
      BY <1>2
    <3> QED BY <3>1
  <2>2. call[1] \in {"dns ticker", "updater ticker", "control"}
    BY <1>2, <1>4
  <2> QED BY <2>1, <2>2, GroupsAre
<1> QED BY <1>3, <1>4

LEMMA StartedIsStopped ==
  ASSUME NEW i \in 1 .. 26, Main!Startup[i][1] \in Kinds
  PROVE  Main!Startup[i][2] \in Main!Reporting
         \/ \E j \in 1 .. 5 : Main!Startup[i][2] \in Main!Groups[j].services
<1>1. i = 2 \/ i = 10 \/ i = 11 \/ i = 13 \/ i = 14 \/ i = 15 \/ i = 16 \/ i = 17
      \/ i = 19 \/ i = 20 \/ i = 21 \/ i = 22 \/ i = 23 \/ i = 25
  BY LaunchedAre DEF LaunchedAt
<1>2. CASE i = 2 \/ i = 11 \/ i = 15 \/ i = 16
  <2>1. Main!Startup[i][2] \in {"port forwarding", "public ip", "socks5", "metrics"}
    <3>1. /\ Main!Startup[2][2] = "metrics" /\ Main!Startup[11][2] = "port forwarding"
          /\ Main!Startup[15][2] = "public ip" /\ Main!Startup[16][2] = "socks5"
      BY StartupIs
    <3> QED BY <1>2, <3>1
  <2> QED BY <2>1, StoppersAre
<1>3. CASE i = 14 \/ i = 21 \/ i = 25
  <2>1. Main!Startup[i][2] \in Main!Groups[1].services
    <3>1. Main!Startup[i][2] \in {"dns ticker", "updater ticker", "control"}
      <4>1. /\ Main!Startup[14][2] = "dns ticker" /\ Main!Startup[21][2] = "updater ticker"
            /\ Main!Startup[25][2] = "control"
        BY StartupIs
      <4> QED BY <1>3, <4>1
    <3> QED BY <3>1, GroupsAre
  <2>2. 1 \in 1 .. 5
    OBVIOUS
  <2> QED BY <2>1, <2>2
<1>4. CASE i = 20
  <2>1. Main!Startup[i][2] \in Main!Groups[2].services
    BY <1>4, StartupIs, GroupsAre
  <2>2. 2 \in 1 .. 5
    OBVIOUS
  <2> QED BY <2>1, <2>2
<1>5. CASE i = 17
  <2>1. Main!Startup[i][2] \in Main!Groups[3].services
    BY <1>5, StartupIs, GroupsAre
  <2>2. 3 \in 1 .. 5
    OBVIOUS
  <2> QED BY <2>1, <2>2
<1>6. CASE i = 19
  <2>1. Main!Startup[i][2] \in Main!Groups[4].services
    BY <1>6, StartupIs, GroupsAre
  <2>2. 4 \in 1 .. 5
    OBVIOUS
  <2> QED BY <2>1, <2>2
<1>7. CASE i = 10 \/ i = 13 \/ i = 22 \/ i = 23
  <2>1. Main!Startup[i][2] \in Main!Groups[5].services
    <3>1. Main!Startup[i][2] \in {"dns", "http proxy", "shadowsocks", "pprof"}
      <4>1. /\ Main!Startup[10][2] = "pprof" /\ Main!Startup[13][2] = "dns"
            /\ Main!Startup[22][2] = "http proxy" /\ Main!Startup[23][2] = "shadowsocks"
        BY StartupIs
      <4> QED BY <1>7, <4>1
    <3> QED BY <3>1, GroupsAre
  <2>2. 5 \in 1 .. 5
    OBVIOUS
  <2> QED BY <2>1, <2>2
<1> QED BY <1>1, <1>2, <1>3, <1>4, <1>5, <1>6, <1>7

LEMMA ApplyIsLast ==
  /\ Len(Main!Startup) = 26 /\ DOMAIN Main!Startup = 1 .. 26
  /\ \A i \in 1 .. 26 : /\ Main!Startup[i][1] # "apply" => i \in 1 .. 25
                        /\ Main!Startup[i][1] = "apply" => i = 26
<1>1. ASSUME NEW i \in 1 .. 26, Main!Startup[i][1] # "apply"
      PROVE  i \in 1 .. 25
  <2>1. Main!Startup[26][1] = "apply"
    BY StartupIs
  <2>2. i # 26
    BY <1>1, <2>1
  <2> QED BY <2>2
<1>2. ASSUME NEW i \in 1 .. 26, Main!Startup[i][1] = "apply"
      PROVE  i = 26
  <2>1. /\ Main!Startup[1][1] # "apply" /\ Main!Startup[2][1] # "apply"
        /\ Main!Startup[3][1] # "apply" /\ Main!Startup[4][1] # "apply"
        /\ Main!Startup[5][1] # "apply" /\ Main!Startup[6][1] # "apply"
        /\ Main!Startup[7][1] # "apply" /\ Main!Startup[8][1] # "apply"
        /\ Main!Startup[9][1] # "apply" /\ Main!Startup[10][1] # "apply"
        /\ Main!Startup[11][1] # "apply" /\ Main!Startup[12][1] # "apply"
        /\ Main!Startup[13][1] # "apply" /\ Main!Startup[14][1] # "apply"
        /\ Main!Startup[15][1] # "apply" /\ Main!Startup[16][1] # "apply"
        /\ Main!Startup[17][1] # "apply" /\ Main!Startup[18][1] # "apply"
        /\ Main!Startup[19][1] # "apply" /\ Main!Startup[20][1] # "apply"
        /\ Main!Startup[21][1] # "apply" /\ Main!Startup[22][1] # "apply"
        /\ Main!Startup[23][1] # "apply" /\ Main!Startup[24][1] # "apply"
        /\ Main!Startup[25][1] # "apply"
    BY StartupIs, ZenonT(30)
  <2> QED BY <1>2, <2>1, PositionsAre DEF Positions
<1>3. Len(Main!Startup) = 26 /\ DOMAIN Main!Startup = 1 .. 26
  BY StartupIs
<1> QED BY <1>1, <1>2, <1>3

LEMMA MainStep ==
  ASSUME MainInv, Main!Next
  PROVE  MainInv'
<1>0. /\ prog \in ProgramStates /\ ServicesInv /\ ResultInv /\ TimeInv /\ Main!ProgramEndsInOrder
      /\ Slow \subseteq Nat /\ prog.at \in 1 .. 26 /\ prog.elapsed \in Nat
  BY DEF MainInv, ProgramStates, ServicesAssumption, Main!ProgramConstants
<1>1. CASE Main!Step
  <2>1. /\ prog.exit = "no" /\ prog.phase = "start"
        /\ Main!Startup[prog.at][1] = "step" /\ prog.at \in 1 .. 25
    BY <1>0, <1>1, ApplyIsLast DEF ProgramStates, Main!Step, Main!Starting,
       Main!Running, Main!Current
  <2> DEFINE ROUTES == prog.routes \/ Main!Startup[prog.at][2] = "routing"
  <2>a. Main!Next1 = [phase |-> "start", at |-> prog.at + 1]
    <3>1. prog.at # 26
      BY <2>1
    <3> QED BY <3>1, ApplyIsLast DEF Main!Next1
  <2>b. Main!Advance = [prog EXCEPT !.phase = "start", !.at = prog.at + 1]
    BY <2>a DEF Main!Advance
  <2>2. prog' = [prog EXCEPT !.phase = "start", !.at = prog.at + 1, !.routes = ROUTES]
    BY <1>0, <1>1, <2>1, <2>b DEF ProgramStates, Main!Step, Main!Starting,
       Main!Running, Main!Current
  <2>3. prog' \in ProgramStates
    <3>1. prog.at + 1 \in 1 .. 26
      BY <2>1
    <3>2. ROUTES \in BOOLEAN
      OBVIOUS
    <3> HIDE DEF ROUTES
    <3> QED BY <1>0, <2>2, <3>1, <3>2 DEF ProgramStates
  <2>4. /\ prog'.pprof = prog.pprof /\ prog'.at = prog.at + 1
        /\ prog'.phase = "start" /\ prog'.signal = prog.signal
        /\ prog'.elapsed = prog.elapsed /\ prog'.up = prog.up
        /\ prog'.late = prog.late /\ prog'.crashed = prog.crashed
        /\ prog'.heard = prog.heard /\ prog'.routes = ROUTES
        /\ prog'.hung = prog.hung /\ prog'.err = prog.err /\ prog'.exit = prog.exit
    BY <1>0, <2>2 DEF ProgramStates
  <2> HIDE DEF ROUTES
  <2>5. ServicesInv'
    <3>1. ASSUME NEW i \in 1 .. prog.at, Main!Startup[i][1] \in Kinds, Main!Startup[i][2] # "pprof"
          PROVE  Main!Startup[i][2] \in prog.up \cup prog.crashed
      <4>1. i # prog.at
        BY <2>1, <3>1 DEF Kinds
      <4>2. i \in 1 .. prog.at - 1
        BY <1>0, <4>1
      <4> QED BY <1>0, <2>1, <3>1, <4>2 DEF ServicesInv
    <3>2. prog'.at - 1 = prog.at
      <4>1. prog.at \in Int
        BY <1>0
      <4> QED BY <2>4, <4>1
    <3> QED BY <1>0, <2>1, <2>4, <3>1, <3>2 DEF ServicesInv
  <2>6. ResultInv'
    BY <1>0, <2>1, <2>3, <2>4 DEF ResultInv, ServicesInv
  <2>7. TimeInv'
    BY <1>0, <2>1, <2>3, <2>4
    DEF TimeInv, Main!Total, Main!Grace, ServicesInv, ResultInv, ProgramStates
  <2>8. Main!ProgramEndsInOrder'
    BY <1>0, <2>1, <2>3, <2>4
    DEF Main!ProgramEndsInOrder, Main!StartedAfterCalled, Main!CallersStopFirst,
       Main!KilledOnlyIfHung, Main!RoutesAreRemoved, Main!ZeroMeansEnded, Main!FailureIsTold, ServicesInv, ResultInv, ProgramStates
  <2> QED BY <2>3, <2>5, <2>6, <2>7, <2>8 DEF MainInv
<1>2. CASE Main!Fail
  <2>1. /\ prog.exit = "no" /\ prog.phase = "start" /\ prog.at \in 1 .. 25
    BY <1>0, <1>2, ApplyIsLast DEF ProgramStates, Main!Fail, Main!Starting,
       Main!Running, Main!Current
  <2>2. prog' = [prog EXCEPT !.phase = "return", !.err = TRUE]
    BY <1>0, <1>2, <2>1 DEF ProgramStates, Main!Fail, Main!Starting, Main!Running,
       Main!Current
  <2>3. prog' \in ProgramStates
    BY <1>0, <2>1, <2>2 DEF ProgramStates, ServiceNames
  <2>4. /\ prog'.pprof = prog.pprof /\ prog'.at = prog.at /\ prog'.phase = "return"
        /\ prog'.signal = prog.signal /\ prog'.elapsed = prog.elapsed
        /\ prog'.up = prog.up /\ prog'.late = prog.late
        /\ prog'.crashed = prog.crashed /\ prog'.heard = prog.heard
        /\ prog'.routes = prog.routes /\ prog'.hung = prog.hung /\ prog'.err = TRUE
        /\ prog'.exit = prog.exit
    BY <1>0, <2>2 DEF ProgramStates
  <2>5. ServicesInv'
    BY <1>0, <2>1, <2>3, <2>4 DEF ServicesInv, ProgramStates
  <2>6. ResultInv'
    BY <1>0, <2>1, <2>3, <2>4 DEF ResultInv, ServicesInv
  <2>7. TimeInv'
    BY <1>0, <2>1, <2>3, <2>4
    DEF TimeInv, Main!Total, Main!Grace, ServicesInv, ResultInv, ProgramStates
  <2>8. Main!ProgramEndsInOrder'
    BY <1>0, <2>1, <2>3, <2>4
    DEF Main!ProgramEndsInOrder, Main!StartedAfterCalled, Main!CallersStopFirst,
       Main!KilledOnlyIfHung, Main!RoutesAreRemoved, Main!ZeroMeansEnded, Main!FailureIsTold, ServicesInv, ResultInv, ProgramStates
  <2> QED BY <2>3, <2>5, <2>6, <2>7, <2>8 DEF MainInv
<1>3. CASE Main!Start
  <2>1. /\ prog.exit = "no" /\ prog.phase = "start"
        /\ Main!Startup[prog.at][1] \in Kinds /\ prog.at \in 1 .. 25
    <3>1. prog.exit = "no" /\ prog.phase = "start" /\ Main!Startup[prog.at][1] \in Kinds
      BY <1>3 DEF Main!Start, Main!Starting, Main!Running, Main!Current, Kinds
    <3>2. Main!Startup[prog.at][1] # "apply"
      BY <3>1 DEF Kinds
    <3> QED BY <1>0, <3>1, <3>2, ApplyIsLast
  <2> DEFINE UP == IF Main!Skipped THEN prog.up ELSE prog.up \cup {Main!Startup[prog.at][2]}
  <2>a. Main!Next1 = [phase |-> "start", at |-> prog.at + 1]
    <3>1. prog.at # 26
      BY <2>1
    <3> QED BY <3>1, ApplyIsLast DEF Main!Next1
  <2>b. Main!Advance = [prog EXCEPT !.phase = "start", !.at = prog.at + 1]
    BY <2>a DEF Main!Advance
  <2>2. prog' = [prog EXCEPT !.phase = "start", !.at = prog.at + 1, !.up = UP]
    BY <1>0, <1>3, <2>1, <2>b DEF ProgramStates, Main!Start, Main!Starting,
       Main!Running, Main!Current
  <2>3. prog' \in ProgramStates
    <3>1. prog.at + 1 \in 1 .. 26
      BY <2>1
    <3>2. UP \in SUBSET ServiceNames
      <4>1. prog.up \in SUBSET ServiceNames
        BY <1>0 DEF ProgramStates
      <4>2. Main!Startup[prog.at][2] \in ServiceNames
        BY <1>0, ApplyIsLast DEF ServiceNames
      <4> QED BY <4>1, <4>2
    <3> HIDE DEF UP
    <3> QED BY <1>0, <2>2, <3>1, <3>2 DEF ProgramStates
  <2>4. /\ prog'.pprof = prog.pprof /\ prog'.at = prog.at + 1
        /\ prog'.phase = "start" /\ prog'.signal = prog.signal
        /\ prog'.elapsed = prog.elapsed /\ prog'.up = UP /\ prog'.late = prog.late
        /\ prog'.crashed = prog.crashed /\ prog'.heard = prog.heard
        /\ prog'.routes = prog.routes /\ prog'.hung = prog.hung
        /\ prog'.err = prog.err /\ prog'.exit = prog.exit
    BY <1>0, <2>2 DEF ProgramStates
  <2> HIDE DEF UP
  <2>5. ServicesInv'
    <3>1. ASSUME NEW i \in 1 .. prog.at, Main!Startup[i][1] \in Kinds, Main!Startup[i][2] # "pprof"
          PROVE  Main!Startup[i][2] \in UP \cup prog.crashed
      <4>1. CASE i = prog.at
        BY <3>1, <4>1 DEF UP, Main!Skipped, Main!Current
      <4>2. CASE i # prog.at
        <5>1. i \in 1 .. prog.at - 1
          BY <1>0, <4>2
        <5>2. Main!Startup[i][2] \in prog.up \cup prog.crashed
          BY <1>0, <2>1, <3>1, <5>1 DEF ServicesInv
        <5> QED BY <5>2 DEF UP
      <4> QED BY <4>1, <4>2
    <3>2. prog'.at - 1 = prog.at
      <4>1. prog.at \in Int
        BY <1>0
      <4> QED BY <2>4, <4>1
    <3>3. \A s \in UP : s \in Main!Reporting \/ \E j \in 1 .. 5 : s \in Main!Groups[j].services
      BY <1>0, <2>1, StartedIsStopped DEF UP, ServicesInv
    <3> QED BY <1>0, <2>1, <2>4, <3>1, <3>2, <3>3 DEF ServicesInv
  <2>6. ResultInv'
    BY <1>0, <2>1, <2>3, <2>4 DEF ResultInv, ServicesInv
  <2>7. TimeInv'
    BY <1>0, <2>1, <2>3, <2>4
    DEF TimeInv, Main!Total, Main!Grace, ServicesInv, ResultInv, ProgramStates
  <2>8. Main!ProgramEndsInOrder'
    <3>1. ASSUME NEW call \in Main!Calls, call[1] \in UP
          PROVE  call[2] \in UP \cup prog.crashed
      <4>1. CASE call[1] \in prog.up
        BY <1>0, <2>1, <4>1 DEF UP, Main!ProgramEndsInOrder, Main!StartedAfterCalled
      <4>2. CASE call[1] \notin prog.up
        <5>1. Main!Startup[prog.at][2] = call[1]
          BY <3>1, <4>2 DEF UP
        <5>2. PICK j \in 1 .. prog.at - 1 : /\ Main!Startup[j][1] \in Kinds
                                           /\ Main!Startup[j][2] # "pprof"
                                           /\ Main!Startup[j][2] = call[2]
          BY <1>0, <2>1, <5>1, CalledBefore
        <5>3. call[2] \in prog.up \cup prog.crashed
          BY <1>0, <2>1, <5>2 DEF ServicesInv
        <5> QED BY <5>3 DEF UP
      <4> QED BY <4>1, <4>2
    <3>2. prog.crashed \subseteq Main!Reporting
      BY <1>0 DEF ProgramStates
    <3> QED
      BY <1>0, <2>1, <2>4, <3>1, <3>2
      DEF Main!ProgramEndsInOrder, Main!StartedAfterCalled, Main!CallersStopFirst,
          Main!KilledOnlyIfHung, Main!RoutesAreRemoved, Main!ZeroMeansEnded, Main!FailureIsTold
  <2> QED BY <2>3, <2>5, <2>6, <2>7, <2>8 DEF MainInv
<1>4. CASE Main!ListenFails
  <2>1. /\ prog.exit = "no" /\ prog.phase = "start"
    BY <1>4 DEF Main!ListenFails, Main!Starting, Main!Running
  <2>2. prog' = [prog EXCEPT !.phase = "unready", !.hung = TRUE]
    BY <1>0, <1>4, <2>1 DEF ProgramStates, Main!ListenFails, Main!Starting,
       Main!Running
  <2>3. prog' \in ProgramStates
    BY <1>0, <2>1, <2>2 DEF ProgramStates, ServiceNames
  <2>4. /\ prog'.pprof = prog.pprof /\ prog'.at = prog.at
        /\ prog'.phase = "unready" /\ prog'.signal = prog.signal
        /\ prog'.elapsed = prog.elapsed /\ prog'.up = prog.up
        /\ prog'.late = prog.late /\ prog'.crashed = prog.crashed
        /\ prog'.heard = prog.heard /\ prog'.routes = prog.routes
        /\ prog'.hung = TRUE /\ prog'.err = prog.err /\ prog'.exit = prog.exit
    BY <1>0, <2>2 DEF ProgramStates
  <2>5. ServicesInv'
    BY <1>0, <2>1, <2>3, <2>4 DEF ServicesInv, ProgramStates
  <2>6. ResultInv'
    BY <1>0, <2>1, <2>3, <2>4 DEF ResultInv, ServicesInv
  <2>7. TimeInv'
    BY <1>0, <2>1, <2>3, <2>4
    DEF TimeInv, Main!Total, Main!Grace, ServicesInv, ResultInv, ProgramStates
  <2>8. Main!ProgramEndsInOrder'
    BY <1>0, <2>1, <2>3, <2>4
    DEF Main!ProgramEndsInOrder, Main!StartedAfterCalled, Main!CallersStopFirst,
       Main!KilledOnlyIfHung, Main!RoutesAreRemoved, Main!ZeroMeansEnded, Main!FailureIsTold, ServicesInv, ResultInv, ProgramStates
  <2> QED BY <2>3, <2>5, <2>6, <2>7, <2>8 DEF MainInv
<1>5. CASE Main!ApplyStatus
  <2>1. /\ prog.exit = "no" /\ prog.phase = "start" /\ prog.at = 26
    BY <1>0, <1>5, ApplyIsLast DEF ProgramStates, Main!ApplyStatus, Main!Starting,
       Main!Running, Main!Current
  <2>a. Main!Next1 = [phase |-> "select", at |-> 1]
    BY <2>1, ApplyIsLast DEF Main!Next1
  <2>b. Main!Advance = [prog EXCEPT !.phase = "select", !.at = 1]
    BY <2>a DEF Main!Advance
  <2>2. prog' = [prog EXCEPT !.phase = "select", !.at = 1]
    BY <1>0, <1>5, <2>1, <2>b DEF ProgramStates, Main!ApplyStatus, Main!Starting,
       Main!Running, Main!Current
  <2>3. prog' \in ProgramStates
    <3>1. 1 \in 1 .. 26
      OBVIOUS
    <3> QED BY <1>0, <2>2, <3>1 DEF ProgramStates
  <2>4. /\ prog'.pprof = prog.pprof /\ prog'.at = 1 /\ prog'.phase = "select"
        /\ prog'.signal = prog.signal /\ prog'.elapsed = prog.elapsed
        /\ prog'.up = prog.up /\ prog'.late = prog.late
        /\ prog'.crashed = prog.crashed /\ prog'.heard = prog.heard
        /\ prog'.routes = prog.routes /\ prog'.hung = prog.hung
        /\ prog'.err = prog.err /\ prog'.exit = prog.exit
    BY <1>0, <2>2 DEF ProgramStates
  <2>5. ServicesInv'
    BY <1>0, <2>1, <2>3, <2>4 DEF ServicesInv, ProgramStates
  <2>6. ResultInv'
    BY <1>0, <2>1, <2>3, <2>4 DEF ResultInv, ServicesInv
  <2>7. TimeInv'
    BY <1>0, <2>1, <2>3, <2>4
    DEF TimeInv, Main!Total, Main!Grace, ServicesInv, ResultInv, ProgramStates
  <2>8. Main!ProgramEndsInOrder'
    BY <1>0, <2>1, <2>3, <2>4
    DEF Main!ProgramEndsInOrder, Main!StartedAfterCalled, Main!CallersStopFirst,
       Main!KilledOnlyIfHung, Main!RoutesAreRemoved, Main!ZeroMeansEnded, Main!FailureIsTold, ServicesInv, ResultInv, ProgramStates
  <2> QED BY <2>3, <2>5, <2>6, <2>7, <2>8 DEF MainInv
<1>6. ASSUME NEW s \in Main!Reporting, Main!Crash(s) PROVE MainInv'
  <2>1. /\ prog.exit = "no" /\ s \in prog.up /\ prog.crashed = {}
    BY <1>6 DEF Main!Crash, Main!Running
  <2>2. prog' = [prog EXCEPT !.up = prog.up \ {s}, !.crashed = {s}]
    BY <1>0, <1>6, <2>1 DEF ProgramStates, Main!Crash, Main!Running
  <2>3. prog' \in ProgramStates
    BY <1>0, <2>1, <2>2 DEF ProgramStates, ServiceNames
  <2>4. /\ prog'.pprof = prog.pprof /\ prog'.at = prog.at
        /\ prog'.phase = prog.phase /\ prog'.signal = prog.signal
        /\ prog'.elapsed = prog.elapsed /\ prog'.up = prog.up \ {s}
        /\ prog'.late = prog.late /\ prog'.crashed = {s}
        /\ prog'.heard = prog.heard /\ prog'.routes = prog.routes
        /\ prog'.hung = prog.hung /\ prog'.err = prog.err /\ prog'.exit = prog.exit
    BY <1>0, <2>2 DEF ProgramStates
  <2>5. ServicesInv'
    BY <1>0, <2>1, <2>3, <2>4 DEF ServicesInv, ProgramStates
  <2>6. ResultInv'
    BY <1>0, <2>1, <2>3, <2>4 DEF ResultInv, ServicesInv
  <2>7. TimeInv'
    BY <1>0, <2>1, <2>3, <2>4
    DEF TimeInv, Main!Total, Main!Grace, ServicesInv, ResultInv, ProgramStates
  <2>8. Main!ProgramEndsInOrder'
    BY <1>0, <2>1, <2>3, <2>4
    DEF Main!ProgramEndsInOrder, Main!StartedAfterCalled, Main!CallersStopFirst,
       Main!KilledOnlyIfHung, Main!RoutesAreRemoved, Main!ZeroMeansEnded, Main!FailureIsTold, ServicesInv, ResultInv, ProgramStates
  <2> QED BY <2>3, <2>5, <2>6, <2>7, <2>8 DEF MainInv
<1>7. CASE Main!Signal
  <2>1. /\ prog.exit = "no" /\ prog.phase # "return"
    BY <1>7 DEF Main!Signal, Main!Running
  <2>2. prog' = [prog EXCEPT !.signal = TRUE]
    BY <1>0, <1>7, <2>1 DEF ProgramStates, Main!Signal, Main!Running
  <2>3. prog' \in ProgramStates
    BY <1>0, <2>1, <2>2 DEF ProgramStates, ServiceNames
  <2>4. /\ prog'.pprof = prog.pprof /\ prog'.at = prog.at
        /\ prog'.phase = prog.phase /\ prog'.signal = TRUE
        /\ prog'.elapsed = prog.elapsed /\ prog'.up = prog.up
        /\ prog'.late = prog.late /\ prog'.crashed = prog.crashed
        /\ prog'.heard = prog.heard /\ prog'.routes = prog.routes
        /\ prog'.hung = prog.hung /\ prog'.err = prog.err /\ prog'.exit = prog.exit
    BY <1>0, <2>2 DEF ProgramStates
  <2>5. ServicesInv'
    BY <1>0, <2>1, <2>3, <2>4 DEF ServicesInv, ProgramStates
  <2>6. ResultInv'
    BY <1>0, <2>1, <2>3, <2>4 DEF ResultInv, ServicesInv
  <2>7. TimeInv'
    BY <1>0, <2>1, <2>3, <2>4
    DEF TimeInv, Main!Total, Main!Grace, ServicesInv, ResultInv, ProgramStates
  <2>8. Main!ProgramEndsInOrder'
    BY <1>0, <2>1, <2>3, <2>4
    DEF Main!ProgramEndsInOrder, Main!StartedAfterCalled, Main!CallersStopFirst,
       Main!KilledOnlyIfHung, Main!RoutesAreRemoved, Main!ZeroMeansEnded, Main!FailureIsTold, ServicesInv, ResultInv, ProgramStates
  <2> QED BY <2>3, <2>5, <2>6, <2>7, <2>8 DEF MainInv
<1>8. CASE Main!Stopping
  <2>1. /\ prog.exit = "no" /\ prog.phase = "select" /\ prog.signal
    BY <1>8 DEF Main!Stopping, Main!Running
  <2>2. prog' = [prog EXCEPT !.phase = "stop"]
    BY <1>0, <1>8, <2>1 DEF ProgramStates, Main!Stopping, Main!Running
  <2>3. prog' \in ProgramStates
    BY <1>0, <2>1, <2>2 DEF ProgramStates, ServiceNames
  <2>4. /\ prog'.pprof = prog.pprof /\ prog'.at = prog.at /\ prog'.phase = "stop"
        /\ prog'.signal = prog.signal /\ prog'.elapsed = prog.elapsed
        /\ prog'.up = prog.up /\ prog'.late = prog.late
        /\ prog'.crashed = prog.crashed /\ prog'.heard = prog.heard
        /\ prog'.routes = prog.routes /\ prog'.hung = prog.hung
        /\ prog'.err = prog.err /\ prog'.exit = prog.exit
    BY <1>0, <2>2 DEF ProgramStates
  <2>5. ServicesInv'
    BY <1>0, <2>1, <2>3, <2>4 DEF ServicesInv, ProgramStates
  <2>6. ResultInv'
    BY <1>0, <2>1, <2>3, <2>4 DEF ResultInv, ServicesInv
  <2>7. TimeInv'
    BY <1>0, <2>1, <2>3, <2>4
    DEF TimeInv, Main!Total, Main!Grace, ServicesInv, ResultInv, ProgramStates
  <2>8. Main!ProgramEndsInOrder'
    BY <1>0, <2>1, <2>3, <2>4
    DEF Main!ProgramEndsInOrder, Main!StartedAfterCalled, Main!CallersStopFirst,
       Main!KilledOnlyIfHung, Main!RoutesAreRemoved, Main!ZeroMeansEnded, Main!FailureIsTold, ServicesInv, ResultInv, ProgramStates
  <2> QED BY <2>3, <2>5, <2>6, <2>7, <2>8 DEF MainInv
<1>9. CASE Main!HearCrash
  <2>1. /\ prog.exit = "no" /\ prog.phase = "select"
    BY <1>9 DEF Main!HearCrash, Main!Running
  <2>2. prog' = [prog EXCEPT !.phase = "shutdown", !.heard = TRUE]
    BY <1>0, <1>9, <2>1 DEF ProgramStates, Main!HearCrash, Main!Running
  <2>3. prog' \in ProgramStates
    BY <1>0, <2>1, <2>2 DEF ProgramStates, ServiceNames
  <2>4. /\ prog'.pprof = prog.pprof /\ prog'.at = prog.at
        /\ prog'.phase = "shutdown" /\ prog'.signal = prog.signal
        /\ prog'.elapsed = prog.elapsed /\ prog'.up = prog.up
        /\ prog'.late = prog.late /\ prog'.crashed = prog.crashed
        /\ prog'.heard = TRUE /\ prog'.routes = prog.routes
        /\ prog'.hung = prog.hung /\ prog'.err = prog.err /\ prog'.exit = prog.exit
    BY <1>0, <2>2 DEF ProgramStates
  <2>5. ServicesInv'
    BY <1>0, <2>1, <2>3, <2>4 DEF ServicesInv, ProgramStates
  <2>6. ResultInv'
    BY <1>0, <2>1, <2>3, <2>4 DEF ResultInv, ServicesInv
  <2>7. TimeInv'
    BY <1>0, <2>1, <2>3, <2>4
    DEF TimeInv, Main!Total, Main!Grace, ServicesInv, ResultInv, ProgramStates
  <2>8. Main!ProgramEndsInOrder'
    BY <1>0, <2>1, <2>3, <2>4
    DEF Main!ProgramEndsInOrder, Main!StartedAfterCalled, Main!CallersStopFirst,
       Main!KilledOnlyIfHung, Main!RoutesAreRemoved, Main!ZeroMeansEnded, Main!FailureIsTold, ServicesInv, ResultInv, ProgramStates
  <2> QED BY <2>3, <2>5, <2>6, <2>7, <2>8 DEF MainInv
<1>10. CASE Main!Return
  <2>1. /\ prog.exit = "no" /\ prog.phase = "return"
    BY <1>10 DEF Main!Return, Main!Running
  <2>2. prog' = [prog EXCEPT !.routes = FALSE, !.exit = IF prog.err THEN "one" ELSE "zero"]
    BY <1>0, <1>10, <2>1 DEF ProgramStates, Main!Return, Main!Running
  <2>3. prog' \in ProgramStates
    BY <1>0, <2>1, <2>2 DEF ProgramStates, ServiceNames
  <2>4. /\ prog'.pprof = prog.pprof /\ prog'.at = prog.at
        /\ prog'.phase = prog.phase /\ prog'.signal = prog.signal
        /\ prog'.elapsed = prog.elapsed /\ prog'.up = prog.up
        /\ prog'.late = prog.late /\ prog'.crashed = prog.crashed
        /\ prog'.heard = prog.heard /\ prog'.routes = FALSE
        /\ prog'.hung = prog.hung /\ prog'.err = prog.err
        /\ prog'.exit = IF prog.err THEN "one" ELSE "zero"
    BY <1>0, <2>2 DEF ProgramStates
  <2>5. ServicesInv'
    BY <1>0, <2>1, <2>3, <2>4 DEF ServicesInv, ProgramStates
  <2>6. ResultInv'
    BY <1>0, <2>1, <2>3, <2>4 DEF ResultInv, ServicesInv
  <2>7. TimeInv'
    BY <1>0, <2>1, <2>3, <2>4
    DEF TimeInv, Main!Total, Main!Grace, ServicesInv, ResultInv, ProgramStates
  <2>8. Main!ProgramEndsInOrder'
    BY <1>0, <2>1, <2>3, <2>4
    DEF Main!ProgramEndsInOrder, Main!StartedAfterCalled, Main!CallersStopFirst,
       Main!KilledOnlyIfHung, Main!RoutesAreRemoved, Main!ZeroMeansEnded, Main!FailureIsTold, ServicesInv, ResultInv, ProgramStates
  <2> QED BY <2>3, <2>5, <2>6, <2>7, <2>8 DEF MainInv
<1>11. CASE Main!GraceExpires
  <2>1. prog.exit = "no" /\ (prog.hung \/ prog.elapsed >= 50)
    BY <1>11 DEF Main!GraceExpires, Main!Running, Main!Grace
  <2>2. prog' = [prog EXCEPT !.exit = "killed"]
    BY <1>0, <1>11, <2>1 DEF ProgramStates, Main!GraceExpires, Main!Running,
       Main!Grace
  <2>3. prog' \in ProgramStates
    BY <1>0, <2>1, <2>2 DEF ProgramStates, ServiceNames
  <2>4. /\ prog'.pprof = prog.pprof /\ prog'.at = prog.at
        /\ prog'.phase = prog.phase /\ prog'.signal = prog.signal
        /\ prog'.elapsed = prog.elapsed /\ prog'.up = prog.up
        /\ prog'.late = prog.late /\ prog'.crashed = prog.crashed
        /\ prog'.heard = prog.heard /\ prog'.routes = prog.routes
        /\ prog'.hung = prog.hung /\ prog'.err = prog.err /\ prog'.exit = "killed"
    BY <1>0, <2>2 DEF ProgramStates
  <2>5. ServicesInv'
    BY <1>0, <2>1, <2>3, <2>4 DEF ServicesInv, ProgramStates
  <2>6. ResultInv'
    BY <1>0, <2>1, <2>3, <2>4 DEF ResultInv, ServicesInv
  <2>7. TimeInv'
    BY <1>0, <2>1, <2>3, <2>4
    DEF TimeInv, Main!Total, Main!Grace, ServicesInv, ResultInv, ProgramStates
  <2>8. Main!ProgramEndsInOrder'
    <3>1. CASE prog.hung
      BY <1>0, <2>1, <2>4, <3>1
      DEF Main!ProgramEndsInOrder, Main!StartedAfterCalled, Main!CallersStopFirst,
          Main!KilledOnlyIfHung, Main!RoutesAreRemoved, Main!ZeroMeansEnded, Main!FailureIsTold
    <3>2. CASE prog.elapsed >= 50
      <4>1. \E t \in Slow : 4 * t + Main!Total > Main!Grace
        <5> SUFFICES ASSUME \A t \in Slow : 4 * t + Main!Total <= Main!Grace
                     PROVE  FALSE
          BY <1>0 DEF Main!Total, Main!Grace
        <5>1. prog.phase \in {"start", "unready", "select", "stop", "shutdown", "return"}
          BY <1>0 DEF ProgramStates
        <5>2. prog.elapsed < 50
          BY <1>0, <5>1 DEF TimeInv, ServicesInv
        <5> QED BY <1>0, <3>2, <5>2
      <4> QED
        BY <1>0, <2>1, <2>4, <4>1
        DEF Main!ProgramEndsInOrder, Main!StartedAfterCalled, Main!CallersStopFirst,
            Main!KilledOnlyIfHung, Main!RoutesAreRemoved, Main!ZeroMeansEnded, Main!FailureIsTold
    <3> QED BY <2>1, <3>1, <3>2
  <2> QED BY <2>3, <2>5, <2>6, <2>7, <2>8 DEF MainInv
<1>12. CASE Main!Stop
  <2>1. prog.exit = "no" /\ prog.phase = "stop" /\ ~prog.hung /\ prog.signal
        /\ prog.at \in 1 .. 4 /\ prog.late = {}
    BY <1>0, <1>12 DEF Main!Stop, Main!Running, ResultInv, ServicesInv
  <2>2. CASE prog' = [prog EXCEPT !.hung = TRUE]
    <3>3. prog' \in ProgramStates
      BY <1>0, <2>2 DEF ProgramStates
    <3>4. /\ prog'.pprof = prog.pprof /\ prog'.at = prog.at
          /\ prog'.phase = prog.phase /\ prog'.signal = prog.signal
          /\ prog'.elapsed = prog.elapsed /\ prog'.up = prog.up
          /\ prog'.late = prog.late /\ prog'.crashed = prog.crashed
          /\ prog'.heard = prog.heard /\ prog'.routes = prog.routes
          /\ prog'.hung = TRUE /\ prog'.err = prog.err /\ prog'.exit = prog.exit
      BY <1>0, <2>2 DEF ProgramStates
    <3>5. ServicesInv'
      BY <1>0, <2>1, <3>4 DEF ServicesInv
    <3>6. ResultInv'
      BY <1>0, <2>1, <3>4 DEF ResultInv, ServicesInv
    <3>7. TimeInv'
      BY <1>0, <2>1, <3>4 DEF TimeInv
    <3>8. Main!ProgramEndsInOrder'
      BY <1>0, <2>1, <3>3, <3>4
      DEF Main!ProgramEndsInOrder, Main!StartedAfterCalled, Main!CallersStopFirst,
          Main!KilledOnlyIfHung, Main!RoutesAreRemoved, Main!ZeroMeansEnded, Main!FailureIsTold,
          ServicesInv, ResultInv, ProgramStates
    <3> QED BY <3>3, <3>5, <3>6, <3>7, <3>8 DEF MainInv
  <2>3. ASSUME NEW t \in Slow,
               prog' = [prog EXCEPT !.up = @ \ {Main!Stoppers[prog.at]}, !.elapsed = Main!Spend(t),
                          !.at = IF prog.at = Len(Main!Stoppers) THEN 1 ELSE prog.at + 1,
                          !.phase = IF prog.at = Len(Main!Stoppers) THEN "shutdown" ELSE @]
        PROVE  MainInv'
    <3> DEFINE ELAPSED == prog.elapsed + t
               AT == IF prog.at = 4 THEN 1 ELSE prog.at + 1
               PHASE == IF prog.at = 4 THEN "shutdown" ELSE "stop"
    <3>1. prog' = [prog EXCEPT !.up = prog.up \ {Main!Stoppers[prog.at]}, !.elapsed = ELAPSED,
                               !.at = AT, !.phase = PHASE]
      BY <1>0, <2>1, <2>3, StoppersAre DEF Main!Spend, ProgramStates
    <3>2. /\ ELAPSED \in Nat /\ AT \in 1 .. 5 /\ PHASE \in {"stop", "shutdown"} /\ t \in Nat
          /\ prog.at = 4 => AT = 1 /\ PHASE = "shutdown"
          /\ prog.at # 4 => AT = prog.at + 1 /\ AT \in 1 .. 4 /\ PHASE = "stop"
      BY <1>0, <2>1
    <3> HIDE DEF AT, PHASE
    <3>3. prog' \in ProgramStates
      <4>1. AT \in 1 .. 26
        BY <3>2
      <4> HIDE DEF ELAPSED
      <4> QED BY <1>0, <3>1, <3>2, <4>1 DEF ProgramStates
    <3>4. /\ prog'.pprof = prog.pprof /\ prog'.at = AT /\ prog'.phase = PHASE
          /\ prog'.signal = prog.signal /\ prog'.elapsed = ELAPSED
          /\ prog'.up = prog.up \ {Main!Stoppers[prog.at]}
          /\ prog'.late = prog.late /\ prog'.crashed = prog.crashed
          /\ prog'.heard = prog.heard /\ prog'.routes = prog.routes
          /\ prog'.hung = prog.hung /\ prog'.err = prog.err
          /\ prog'.exit = prog.exit
      BY <1>0, <3>1 DEF ProgramStates
    <3>5. ServicesInv'
      <4>1. ASSUME NEW k \in 1 .. prog.at
            PROVE  Main!Stoppers[k] \notin prog.up \ {Main!Stoppers[prog.at]}
        <5>1. CASE k = prog.at
          BY <5>1
        <5>2. CASE k # prog.at
          <6>1. k \in 1 .. prog.at - 1
            BY <2>1, <5>2
          <6> QED BY <1>0, <2>1, <6>1 DEF ServicesInv
        <5> QED BY <5>1, <5>2
      <4>2. ASSUME prog.at = 4
            PROVE  prog'.up \cap Main!Reporting = {}
        <5> SUFFICES ASSUME NEW s \in Main!Reporting
                     PROVE  s \notin prog'.up
          OBVIOUS
        <5>1. PICK k \in 1 .. 4 : s = Main!Stoppers[k]
          BY StoppersAre
        <5>2. k \in 1 .. prog.at
          BY <4>2
        <5> QED BY <3>4, <4>1, <5>1, <5>2
      <4>3. prog.at # 4 => AT - 1 = prog.at
        BY <2>1, <3>2
      <4>4. 1 \in 1 .. 5 /\ AT \in 1 .. 5
        BY <3>2
      <4>5. CASE prog.at = 4
        BY <1>0, <2>1, <3>2, <3>4, <4>2, <4>4, <4>5 DEF ServicesInv
      <4>6. CASE prog.at # 4
        BY <1>0, <2>1, <3>2, <3>4, <4>1, <4>3, <4>6 DEF ServicesInv
      <4> QED BY <4>5, <4>6
    <3>6. ResultInv'
      BY <1>0, <2>1, <3>2, <3>4 DEF ResultInv, ServicesInv
    <3>7. TimeInv'
      BY <1>0, <2>1, <3>2, <3>4 DEF TimeInv, Main!Total, Main!Grace
    <3>8. Main!ProgramEndsInOrder'
      <4>1. Main!StartedAfterCalled'
        BY <3>2, <3>4 DEF Main!StartedAfterCalled
      <4>2. Main!CallersStopFirst'
        <5>1. Main!Stoppers[prog.at] \in Main!Reporting
          BY <2>1, StoppersAre
        <5> QED BY <1>0, <3>4, <5>1 DEF Main!ProgramEndsInOrder, Main!CallersStopFirst
      <4>3. prog'.exit = "no"
        BY <2>1, <3>4
      <4> QED BY <4>1, <4>2, <4>3
           DEF Main!ProgramEndsInOrder, Main!KilledOnlyIfHung, Main!RoutesAreRemoved,
               Main!ZeroMeansEnded, Main!FailureIsTold
    <3> QED BY <3>3, <3>5, <3>6, <3>7, <3>8 DEF MainInv
  <2> QED BY <1>12, <2>2, <2>3 DEF Main!Stop
<1>13. CASE Main!Shutdown
  <2>1. prog.exit = "no" /\ prog.phase = "shutdown" /\ prog.at \in 1 .. 5
    BY <1>0, <1>13 DEF Main!Shutdown, Main!Running, ServicesInv
  <2>2. PICK late \in SUBSET (Main!Groups[prog.at].services \cap prog.up) :
          prog' = [prog EXCEPT !.up = @ \ (Main!Groups[prog.at].services \ late), !.late = @ \cup late,
                     !.elapsed = Main!Spend(IF late = {} THEN 0 ELSE Main!Groups[prog.at].timeout),
                     !.at = IF prog.at = Len(Main!Groups) THEN 1 ELSE prog.at + 1,
                     !.phase = IF prog.at = Len(Main!Groups) THEN "return" ELSE @,
                     !.err = (@ \/ late # {})]
    BY <1>13 DEF Main!Shutdown, Main!ShutdownOrder
  <2> QED
    <3> DEFINE ELAPSED == Main!Spend(IF late = {} THEN 0 ELSE Main!Groups[prog.at].timeout)
               AT == IF prog.at = 5 THEN 1 ELSE prog.at + 1
               PHASE == IF prog.at = 5 THEN "return" ELSE "shutdown"
               UP == prog.up \ (Main!Groups[prog.at].services \ late)
               LATE == prog.late \cup late
               ERR == prog.err \/ late # {}
    <3>1. prog' = [prog EXCEPT !.up = UP, !.late = LATE, !.elapsed = ELAPSED,
                               !.at = AT, !.phase = PHASE, !.err = ERR]
      BY <1>0, <2>1, <2>2, GroupsAre DEF ProgramStates
    <3>2. /\ AT \in 1 .. 5 /\ PHASE \in {"return", "shutdown"}
          /\ prog.at = 5 => AT = 1 /\ PHASE = "return"
          /\ prog.at # 5 => AT = prog.at + 1 /\ PHASE = "shutdown"
      BY <1>0, <2>1
    <3>9. /\ ELAPSED \in Nat
          /\ prog.at = 4 => ELAPSED <= prog.elapsed + 10
          /\ prog.at # 4 => ELAPSED <= prog.elapsed + 4
      <4>1. prog.at = 1 \/ prog.at = 2 \/ prog.at = 3 \/ prog.at = 4 \/ prog.at = 5
        BY <2>1
      <4>2. Main!Groups[prog.at].timeout = (IF prog.at = 4 THEN 10 ELSE 4)
        BY <4>1, GroupsAre
      <4>3. prog.elapsed \in Nat
        BY <1>0
      <4> QED BY <4>2, <4>3 DEF Main!Spend
    <3>10. UP \in SUBSET ServiceNames /\ LATE \in SUBSET ServiceNames /\ ERR \in BOOLEAN
      BY <1>0, <2>2 DEF ProgramStates
    <3> HIDE DEF AT, PHASE, ELAPSED, UP, LATE, ERR
    <3>3. prog' \in ProgramStates
      <4>1. AT \in 1 .. 26
        BY <3>2
      <4>2. PHASE \in {"start", "unready", "select", "stop", "shutdown", "return"} /\ ELAPSED \in Nat
        <5>1. ELAPSED \in Nat
          BY <3>9
        <5>2. PHASE = "return" \/ PHASE = "shutdown"
          BY <3>2
        <5> QED BY <5>1, <5>2
      <4> QED BY <1>0, <3>1, <3>10, <4>1, <4>2 DEF ProgramStates
    <3>4. /\ prog'.pprof = prog.pprof /\ prog'.at = AT /\ prog'.phase = PHASE
          /\ prog'.signal = prog.signal /\ prog'.elapsed = ELAPSED /\ prog'.up = UP
          /\ prog'.late = LATE /\ prog'.crashed = prog.crashed
          /\ prog'.heard = prog.heard /\ prog'.routes = prog.routes
          /\ prog'.hung = prog.hung /\ prog'.err = ERR /\ prog'.exit = prog.exit
      BY <1>0, <3>1 DEF ProgramStates
    <3>11. /\ UP \subseteq prog.up /\ prog.late \subseteq LATE /\ (~ERR => ~prog.err /\ LATE = prog.late)
           /\ prog.up \subseteq UP \cup Main!Groups[prog.at].services
           /\ \A j \in 1 .. prog.at : Main!Groups[j].services \cap UP \subseteq LATE
      <4>1. Main!Groups[prog.at].services \cap UP \subseteq LATE
        BY DEF UP, LATE
      <4>2. UP \subseteq prog.up /\ prog.late \subseteq LATE
        BY DEF UP, LATE
      <4>3. ASSUME NEW j \in 1 .. prog.at
            PROVE  Main!Groups[j].services \cap UP \subseteq LATE
        <5>1. CASE j = prog.at
          BY <4>1, <5>1
        <5>2. CASE j # prog.at
          <6>1. j \in 1 .. prog.at - 1
            BY <2>1, <5>2
          <6>2. Main!Groups[j].services \cap prog.up \subseteq prog.late
            BY <1>0, <2>1, <6>1 DEF ServicesInv
          <6> QED BY <4>2, <6>2
        <5> QED BY <5>1, <5>2
      <4>4. ~ERR => ~prog.err /\ LATE = prog.late
        BY DEF ERR, LATE
      <4>5. prog.up \subseteq UP \cup Main!Groups[prog.at].services
        BY DEF UP
      <4> QED BY <4>2, <4>3, <4>4, <4>5
    <3>5. ServicesInv'
      <4>1. PHASE = "shutdown" => AT \in 1 .. 5 /\ AT - 1 = prog.at
        BY <2>1, <3>2
      <4> QED BY <1>0, <2>1, <3>2, <3>4, <3>11, <4>1 DEF ServicesInv
    <3>6. ResultInv'
      <4>1. ASSUME PHASE = "return", ~ERR
            PROVE  UP \subseteq (IF prog.heard THEN Main!Reporting ELSE {})
        <5>1. prog.at = 5 /\ LATE = {}
          BY <1>0, <2>1, <3>2, <3>11, <4>1 DEF ResultInv
        <5>2. ASSUME NEW s \in UP
              PROVE  s \in Main!Reporting
          BY <1>0, <3>11, <5>1 DEF ServicesInv
        <5>3. ~prog.heard => UP \cap Main!Reporting = {}
          BY <1>0, <2>1, <3>11 DEF ServicesInv
        <5> QED BY <5>2, <5>3
      <4> QED BY <1>0, <2>1, <3>2, <3>4, <3>11, <4>1 DEF ResultInv
    <3>7. TimeInv'
      <4>1. prog.at = 1 \/ prog.at = 2 \/ prog.at = 3 \/ prog.at = 4 \/ prog.at = 5
        BY <2>1
      <4> SUFFICES ASSUME \A t \in Slow : 4 * t + Main!Total <= Main!Grace
                   PROVE  /\ PHASE = "shutdown" => ELAPSED <= 20 + (IF AT = 5 THEN 22 ELSE 4 * (AT - 1))
                          /\ PHASE = "return" => ELAPSED <= 46
        BY <2>1, <3>2, <3>4 DEF TimeInv
      <4>2. prog.elapsed <= 20 + (IF prog.at = 5 THEN 22 ELSE 4 * (prog.at - 1))
        BY <1>0, <2>1 DEF TimeInv
      <4>3. prog.elapsed \in Nat
        BY <1>0
      <4>4. CASE prog.at = 5
        <5>1. ELAPSED <= 46 /\ PHASE = "return"
          <6>1. prog.elapsed <= 42 /\ ELAPSED <= prog.elapsed + 4 /\ ELAPSED \in Nat
            BY <3>9, <4>2, <4>4
          <6> QED BY <3>2, <4>3, <4>4, <6>1
        <5> QED BY <5>1
      <4>5. CASE prog.at # 5
        <5>1. PHASE = "shutdown" /\ AT = prog.at + 1
          BY <3>2, <4>5
        <5>2. prog.elapsed <= 20 + 4 * (prog.at - 1)
          BY <4>2, <4>5
        <5>3. ELAPSED <= 20 + (IF AT = 5 THEN 22 ELSE 4 * (AT - 1))
          <6>1. CASE prog.at = 4
            <7>1. ELAPSED <= prog.elapsed + 10 /\ ELAPSED \in Nat /\ AT = 5 /\ prog.elapsed <= 32
              BY <3>9, <5>1, <5>2, <6>1
            <7> QED BY <4>3, <7>1
          <6>2. CASE prog.at # 4
            <7>1. ELAPSED <= prog.elapsed + 4 /\ ELAPSED \in Nat /\ AT # 5 /\ AT = prog.at + 1
              BY <3>9, <4>1, <4>5, <5>1, <6>2
            <7>2. prog.at \in Int
              BY <2>1
            <7> QED BY <4>3, <5>2, <7>1, <7>2
          <6> QED BY <6>1, <6>2
        <5> QED BY <5>1, <5>3
      <4> QED BY <4>4, <4>5
    <3>8. Main!ProgramEndsInOrder'
      <4>1. ASSUME NEW call \in Main!Calls, call[1] \in UP \ LATE
            PROVE  call[2] \in UP \cup LATE \cup Main!Reporting
        <5>1. call[2] \in prog.up \cup prog.late \cup Main!Reporting
          BY <1>0, <3>11, <4>1 DEF Main!ProgramEndsInOrder, Main!CallersStopFirst
        <5>2. ASSUME call[2] \in Main!Groups[prog.at].services
              PROVE  FALSE
          <6>1. PICK j \in 1 .. prog.at - 1 : call[1] \in Main!Groups[j].services
            BY <2>1, <5>2, CalledAfter
          <6>2. j \in 1 .. prog.at
            BY <2>1
          <6> QED BY <3>11, <4>1, <6>1, <6>2
        <5> QED BY <3>11, <5>1, <5>2
      <4> QED
        BY <1>0, <2>1, <3>2, <3>4, <4>1
        DEF Main!ProgramEndsInOrder, Main!StartedAfterCalled, Main!CallersStopFirst,
            Main!KilledOnlyIfHung, Main!RoutesAreRemoved, Main!ZeroMeansEnded, Main!FailureIsTold
    <3> QED BY <3>3, <3>5, <3>6, <3>7, <3>8 DEF MainInv
<1> QED BY <1>0, <1>1, <1>2, <1>3, <1>4, <1>5, <1>6, <1>7, <1>8, <1>9, <1>10, <1>11, <1>12, <1>13
        DEF Main!Next

LEMMA MainInitInv == Main!Init => MainInv
<1> SUFFICES ASSUME Main!Init
             PROVE  MainInv
  OBVIOUS
<1>1. PICK pprof \in BOOLEAN :
        prog = [pprof |-> pprof, at |-> 1, phase |-> "start", signal |-> FALSE, elapsed |-> 0,
                up |-> {}, late |-> {}, crashed |-> {}, heard |-> FALSE, routes |-> FALSE,
                hung |-> FALSE, err |-> FALSE, exit |-> "no"]
  BY DEF Main!Init
<1>2. prog \in ProgramStates
  BY <1>1 DEF ProgramStates
<1>3. ServicesInv /\ ResultInv
  BY <1>1 DEF ServicesInv, ResultInv
<1>4. TimeInv
  BY <1>1 DEF TimeInv
<1>5. Main!ProgramEndsInOrder
  BY <1>1 DEF Main!ProgramEndsInOrder, Main!StartedAfterCalled, Main!CallersStopFirst,
     Main!KilledOnlyIfHung, Main!RoutesAreRemoved, Main!ZeroMeansEnded, Main!FailureIsTold
<1> QED BY <1>2, <1>3, <1>4, <1>5 DEF MainInv

LEMMA MainIInv == Spec => []MainInv
<1>1. ASSUME MainInv, [Main!Next]_prog PROVE MainInv'
  <2>1. CASE Main!Next
    BY <1>1, <2>1, MainStep
  <2>2. CASE UNCHANGED prog
    <3>1. ProgramStates' = ProgramStates
      BY DEF ProgramStates
    <3>2. ServicesInv' /\ ResultInv' /\ TimeInv'
      BY <1>1, <2>2 DEF MainInv, ServicesInv, ResultInv, TimeInv
    <3>3. Main!ProgramEndsInOrder'
      BY <1>1, <2>2 DEF MainInv, Main!ProgramEndsInOrder, Main!StartedAfterCalled,
         Main!CallersStopFirst, Main!KilledOnlyIfHung, Main!RoutesAreRemoved,
         Main!ZeroMeansEnded, Main!FailureIsTold
    <3> QED BY <1>1, <2>2, <3>1, <3>2, <3>3 DEF MainInv
  <2>3. QED
    BY <1>1, <2>1, <2>2
<1>2. QED
  <2>1. Init => MainInv
    BY MainInitInv DEF Init
  <2>2. [Next]_vars => [Main!Next]_prog
    BY DEF Next, vars, UpdaterNext, DNSNext, HTTPNext, SSNext, IPNext, HealthNext, MainNext
  <2> QED BY <1>1, <2>1, <2>2, PTL DEF Spec

-----------------------------------------------------------------------------
(* DNSLoop and HTTPProxyLoop: the calls of ApplyStatus, which both are told *)
(* by, and the shape of each loop.                                          *)

CallersInv ==
    /\ DNSService!StateTypeOK
    /\ DNSService!MutexHeldInCall
    /\ \A c \in Callers :
         /\ pc[c] = "setStatus" => result[c] \in DNSService!Statuses
         /\ pc[c] \in {"sendStart", "sentStart", "awaitRunning", "sendStop", "awaitStopped"} =>
              status # "stopped"

SaysStopped == status = "stopped" \/ \E c \in Callers : pc[c] = "setStatus" /\ result[c] = "stopped"

\* What the loop may be told: the calls of CallersInv are kept, and no call but
\* the one that was confirmed comes to say that the loop is stopped.
LEMMA CallerSteps ==
  ASSUME CallersInv, NEW c \in Callers
  PROVE  /\ \A o \in DNSService!Operations :
              DNSService!Request(c, o) => CallersInv' /\ (SaysStopped' => SaysStopped)
         /\ DNSService!CallerStep(c) => CallersInv' /\ (SaysStopped' => SaysStopped)
         /\ DNSService!SendStart(c) \/ DNSService!SendStop(c) => CallersInv' /\ ~SaysStopped'
         /\ \A s \in {"running", "crashed"} :
              DNSService!ReceiveRunning(c, s) => CallersInv' /\ ~SaysStopped'
         /\ DNSService!ReceiveStopped(c) => CallersInv'
<1>0. CallersInv /\ DNSService!StateTypeOK /\ DNSService!MutexHeldInCall /\ Nobody \notin Callers
  BY DEF CallersInv, ServicesAssumption
<1>1. ASSUME NEW o \in DNSService!Operations, DNSService!Request(c, o)
      PROVE  CallersInv' /\ (SaysStopped' => SaysStopped)
  <2>1. /\ pc[c] = "idle"
    BY <1>0, <1>1 DEF DNSService!Request, DNSService!At, DNSService!Goto
  <2>2. /\ status' = status
        /\ loopMu' = loopMu
        /\ pc' = [pc EXCEPT ![c] = "acquire"]
        /\ op' = [op EXCEPT ![c] = o]
        /\ result' = [result EXCEPT ![c] = "none"]
        /\ cancelled' = cancelled
    BY <1>0, <1>1, <2>1 DEF DNSService!Request, DNSService!At, DNSService!Goto
  <2>3. DNSService!StateTypeOK'
    BY <1>0, <2>1, <2>2
    DEF DNSService!StateTypeOK, DNSService!Statuses, DNSService!CallerPCs, DNSService!Operations
  <2>4. CallersInv'
    BY <1>0, <2>1, <2>2, <2>3 DEF CallersInv, DNSService!StateTypeOK, DNSService!MutexHeldInCall,
       DNSService!Holding, DNSService!CallerPCs, DNSService!Statuses
  <2> QED BY <1>0, <2>1, <2>2, <2>4 DEF SaysStopped, CallersInv, DNSService!StateTypeOK, DNSService!MutexHeldInCall,
       DNSService!Holding, DNSService!CallerPCs, DNSService!Statuses
<1>2. ASSUME DNSService!Refuse(c)
      PROVE  CallersInv' /\ (SaysStopped' => SaysStopped)
  <2>1. /\ pc[c] = "acquire" /\ loopMu = Nobody
    BY <1>0, <1>2 DEF DNSService!Refuse, DNSService!At, DNSService!Goto,
       DNSService!Return
  <2>2. /\ status' = status
        /\ loopMu' = loopMu
        /\ pc' = [pc EXCEPT ![c] = IF op[c] = "restart" THEN "acquire" ELSE "idle"]
        /\ op' = [op EXCEPT ![c] = IF @ = "restart" THEN "run" ELSE "none"]
        /\ result' = [result EXCEPT ![c] = "refused"]
        /\ cancelled' = cancelled
    BY <1>0, <1>2, <2>1 DEF DNSService!Refuse, DNSService!At, DNSService!Goto,
       DNSService!Return
  <2>3. DNSService!StateTypeOK'
    BY <1>0, <2>1, <2>2
    DEF DNSService!StateTypeOK, DNSService!Statuses, DNSService!CallerPCs, DNSService!Operations
  <2>4. CallersInv'
    BY <1>0, <2>1, <2>2, <2>3 DEF CallersInv, DNSService!StateTypeOK, DNSService!MutexHeldInCall,
       DNSService!Holding, DNSService!CallerPCs, DNSService!Statuses
  <2> QED BY <1>0, <2>1, <2>2, <2>4 DEF SaysStopped, CallersInv, DNSService!StateTypeOK, DNSService!MutexHeldInCall,
       DNSService!Holding, DNSService!CallerPCs, DNSService!Statuses
<1>3. ASSUME DNSService!AcceptRunning(c)
      PROVE  CallersInv' /\ (SaysStopped' => SaysStopped)
  <2>1. /\ pc[c] = "acquire" /\ loopMu = Nobody
    BY <1>0, <1>3 DEF DNSService!AcceptRunning, DNSService!At, DNSService!Goto
  <2>2. /\ status' = "starting"
        /\ loopMu' = c
        /\ pc' = [pc EXCEPT ![c] = "sendStart"]
        /\ op' = op
        /\ result' = result
        /\ cancelled' = cancelled
    BY <1>0, <1>3, <2>1 DEF DNSService!AcceptRunning, DNSService!At, DNSService!Goto
  <2>3. DNSService!StateTypeOK'
    BY <1>0, <2>1, <2>2
    DEF DNSService!StateTypeOK, DNSService!Statuses, DNSService!CallerPCs, DNSService!Operations
  <2>4. CallersInv'
    BY <1>0, <2>1, <2>2, <2>3 DEF CallersInv, DNSService!StateTypeOK, DNSService!MutexHeldInCall,
       DNSService!Holding, DNSService!CallerPCs, DNSService!Statuses
  <2> QED BY <1>0, <2>1, <2>2, <2>4 DEF SaysStopped, CallersInv, DNSService!StateTypeOK, DNSService!MutexHeldInCall,
       DNSService!Holding, DNSService!CallerPCs, DNSService!Statuses
<1>4. ASSUME DNSService!AcceptStopped(c)
      PROVE  CallersInv' /\ (SaysStopped' => SaysStopped)
  <2>1. /\ pc[c] = "acquire" /\ loopMu = Nobody
    BY <1>0, <1>4 DEF DNSService!AcceptStopped, DNSService!At, DNSService!Goto
  <2>2. /\ status' = "stopping"
        /\ loopMu' = c
        /\ pc' = [pc EXCEPT ![c] = "sendStop"]
        /\ op' = op
        /\ result' = result
        /\ cancelled' = cancelled
    BY <1>0, <1>4, <2>1 DEF DNSService!AcceptStopped, DNSService!At, DNSService!Goto
  <2>3. DNSService!StateTypeOK'
    BY <1>0, <2>1, <2>2
    DEF DNSService!StateTypeOK, DNSService!Statuses, DNSService!CallerPCs, DNSService!Operations
  <2>4. CallersInv'
    BY <1>0, <2>1, <2>2, <2>3 DEF CallersInv, DNSService!StateTypeOK, DNSService!MutexHeldInCall,
       DNSService!Holding, DNSService!CallerPCs, DNSService!Statuses
  <2> QED BY <1>0, <2>1, <2>2, <2>4 DEF SaysStopped, CallersInv, DNSService!StateTypeOK, DNSService!MutexHeldInCall,
       DNSService!Holding, DNSService!CallerPCs, DNSService!Statuses
<1>5. ASSUME DNSService!EnterSelect(c)
      PROVE  CallersInv' /\ (SaysStopped' => SaysStopped)
  <2>1. /\ pc[c] = "sentStart"
    BY <1>0, <1>5 DEF DNSService!EnterSelect, DNSService!At, DNSService!Goto
  <2>2. /\ status' = status
        /\ loopMu' = loopMu
        /\ pc' = [pc EXCEPT ![c] = "awaitRunning"]
        /\ op' = op
        /\ result' = result
        /\ cancelled' = cancelled
    BY <1>0, <1>5, <2>1 DEF DNSService!EnterSelect, DNSService!At, DNSService!Goto
  <2>3. DNSService!StateTypeOK'
    BY <1>0, <2>1, <2>2
    DEF DNSService!StateTypeOK, DNSService!Statuses, DNSService!CallerPCs, DNSService!Operations
  <2>4. CallersInv'
    BY <1>0, <2>1, <2>2, <2>3 DEF CallersInv, DNSService!StateTypeOK, DNSService!MutexHeldInCall,
       DNSService!Holding, DNSService!CallerPCs, DNSService!Statuses
  <2> QED BY <1>0, <2>1, <2>2, <2>4 DEF SaysStopped, CallersInv, DNSService!StateTypeOK, DNSService!MutexHeldInCall,
       DNSService!Holding, DNSService!CallerPCs, DNSService!Statuses
<1>6. ASSUME DNSService!Finish(c)
      PROVE  CallersInv' /\ (SaysStopped' => SaysStopped)
  <2>1. /\ pc[c] = "setStatus" /\ result[c] \in DNSService!Statuses
    BY <1>0, <1>6 DEF CallersInv, DNSService!Finish, DNSService!At, DNSService!Goto,
       DNSService!Return
  <2>2. /\ status' = result[c]
        /\ loopMu' = Nobody
        /\ pc' = [pc EXCEPT ![c] = IF op[c] = "restart" THEN "acquire" ELSE "idle"]
        /\ op' = [op EXCEPT ![c] = IF @ = "restart" THEN "run" ELSE "none"]
        /\ result' = result
        /\ cancelled' = cancelled
    BY <1>0, <1>6, <2>1 DEF DNSService!Finish, DNSService!At, DNSService!Goto,
       DNSService!Return
  <2>3. DNSService!StateTypeOK'
    BY <1>0, <2>1, <2>2
    DEF DNSService!StateTypeOK, DNSService!Statuses, DNSService!CallerPCs, DNSService!Operations
  <2>4. CallersInv'
    BY <1>0, <2>1, <2>2, <2>3 DEF CallersInv, DNSService!StateTypeOK, DNSService!MutexHeldInCall,
       DNSService!Holding, DNSService!CallerPCs, DNSService!Statuses
  <2> QED BY <1>0, <2>1, <2>2, <2>4 DEF SaysStopped, CallersInv, DNSService!StateTypeOK, DNSService!MutexHeldInCall,
       DNSService!Holding, DNSService!CallerPCs, DNSService!Statuses
<1>7. ASSUME DNSService!SendStart(c)
      PROVE  CallersInv' /\ ~SaysStopped'
  <2>1. /\ pc[c] = "sendStart"
    BY <1>0, <1>7 DEF DNSService!SendStart, DNSService!At, DNSService!Goto
  <2>2. /\ status' = status
        /\ loopMu' = loopMu
        /\ pc' = [pc EXCEPT ![c] = "sentStart"]
        /\ op' = op
        /\ result' = result
        /\ cancelled' = cancelled
    BY <1>0, <1>7, <2>1 DEF DNSService!SendStart, DNSService!At, DNSService!Goto
  <2>3. DNSService!StateTypeOK'
    BY <1>0, <2>1, <2>2
    DEF DNSService!StateTypeOK, DNSService!Statuses, DNSService!CallerPCs, DNSService!Operations
  <2>4. CallersInv'
    BY <1>0, <2>1, <2>2, <2>3 DEF CallersInv, DNSService!StateTypeOK, DNSService!MutexHeldInCall,
       DNSService!Holding, DNSService!CallerPCs, DNSService!Statuses
  <2> QED BY <1>0, <2>1, <2>2, <2>4 DEF SaysStopped, CallersInv, DNSService!StateTypeOK, DNSService!MutexHeldInCall,
       DNSService!Holding, DNSService!CallerPCs, DNSService!Statuses
<1>8. ASSUME NEW s \in {"running", "crashed"}, DNSService!ReceiveRunning(c, s)
      PROVE  CallersInv' /\ ~SaysStopped'
  <2>1. /\ pc[c] = "awaitRunning"
    BY <1>0, <1>8 DEF DNSService!ReceiveRunning, DNSService!At, DNSService!Goto
  <2>2. /\ status' = status
        /\ loopMu' = loopMu
        /\ pc' = [pc EXCEPT ![c] = "setStatus"]
        /\ op' = op
        /\ result' = [result EXCEPT ![c] = s]
        /\ cancelled' = cancelled
    BY <1>0, <1>8, <2>1 DEF DNSService!ReceiveRunning, DNSService!At,
       DNSService!Goto
  <2>3. DNSService!StateTypeOK'
    BY <1>0, <2>1, <2>2
    DEF DNSService!StateTypeOK, DNSService!Statuses, DNSService!CallerPCs, DNSService!Operations
  <2>4. CallersInv'
    BY <1>0, <2>1, <2>2, <2>3 DEF CallersInv, DNSService!StateTypeOK, DNSService!MutexHeldInCall,
       DNSService!Holding, DNSService!CallerPCs, DNSService!Statuses
  <2> QED BY <1>0, <2>1, <2>2, <2>4 DEF SaysStopped, CallersInv, DNSService!StateTypeOK, DNSService!MutexHeldInCall,
       DNSService!Holding, DNSService!CallerPCs, DNSService!Statuses
<1>9. ASSUME DNSService!SendStop(c)
      PROVE  CallersInv' /\ ~SaysStopped'
  <2>1. /\ pc[c] = "sendStop"
    BY <1>0, <1>9 DEF DNSService!SendStop, DNSService!At, DNSService!Goto
  <2>2. /\ status' = status
        /\ loopMu' = loopMu
        /\ pc' = [pc EXCEPT ![c] = "awaitStopped"]
        /\ op' = op
        /\ result' = result
        /\ cancelled' = cancelled
    BY <1>0, <1>9, <2>1 DEF DNSService!SendStop, DNSService!At, DNSService!Goto
  <2>3. DNSService!StateTypeOK'
    BY <1>0, <2>1, <2>2
    DEF DNSService!StateTypeOK, DNSService!Statuses, DNSService!CallerPCs, DNSService!Operations
  <2>4. CallersInv'
    BY <1>0, <2>1, <2>2, <2>3 DEF CallersInv, DNSService!StateTypeOK, DNSService!MutexHeldInCall,
       DNSService!Holding, DNSService!CallerPCs, DNSService!Statuses
  <2> QED BY <1>0, <2>1, <2>2, <2>4 DEF SaysStopped, CallersInv, DNSService!StateTypeOK, DNSService!MutexHeldInCall,
       DNSService!Holding, DNSService!CallerPCs, DNSService!Statuses
<1>10. ASSUME DNSService!ReceiveStopped(c)
      PROVE  CallersInv'
  <2>1. /\ pc[c] = "awaitStopped"
    BY <1>0, <1>10 DEF DNSService!ReceiveStopped, DNSService!At, DNSService!Goto
  <2>2. /\ status' = status
        /\ loopMu' = loopMu
        /\ pc' = [pc EXCEPT ![c] = "setStatus"]
        /\ op' = op
        /\ result' = [result EXCEPT ![c] = "stopped"]
        /\ cancelled' = cancelled
    BY <1>0, <1>10, <2>1 DEF DNSService!ReceiveStopped, DNSService!At,
       DNSService!Goto
  <2>3. DNSService!StateTypeOK'
    BY <1>0, <2>1, <2>2
    DEF DNSService!StateTypeOK, DNSService!Statuses, DNSService!CallerPCs, DNSService!Operations
  <2>4. CallersInv'
    BY <1>0, <2>1, <2>2, <2>3 DEF CallersInv, DNSService!StateTypeOK, DNSService!MutexHeldInCall,
       DNSService!Holding, DNSService!CallerPCs, DNSService!Statuses
  <2> QED BY <1>0, <2>1, <2>2, <2>4 DEF SaysStopped, CallersInv, DNSService!StateTypeOK, DNSService!MutexHeldInCall,
       DNSService!Holding, DNSService!CallerPCs, DNSService!Statuses
<1>11. ASSUME DNSService!GiveUp(c)
      PROVE  CallersInv' /\ (SaysStopped' => SaysStopped)
  <2>1. ASSUME NEW old \in {"starting", "stopping"}, pc[c] \in {"awaitRunning", "awaitStopped"},
               result' = [result EXCEPT ![c] = old], pc' = [pc EXCEPT ![c] = "setStatus"],
               UNCHANGED <<status, loopMu, op, cancelled>>
        PROVE  CallersInv' /\ (SaysStopped' => SaysStopped)
    <3>1. DNSService!StateTypeOK'
      BY <1>0, <2>1 DEF DNSService!StateTypeOK, DNSService!Statuses, DNSService!CallerPCs
    <3>2. CallersInv'
      BY <1>0, <2>1, <3>1 DEF CallersInv, DNSService!StateTypeOK, DNSService!MutexHeldInCall,
       DNSService!Holding, DNSService!CallerPCs, DNSService!Statuses
    <3> QED BY <1>0, <2>1, <3>2 DEF SaysStopped, CallersInv, DNSService!StateTypeOK, DNSService!MutexHeldInCall,
       DNSService!Holding, DNSService!CallerPCs, DNSService!Statuses
  <2> QED BY <1>11, <2>1 DEF DNSService!GiveUp, DNSService!At, DNSService!Goto
<1> QED BY <1>1, <1>2, <1>3, <1>4, <1>5, <1>6, <1>7, <1>8, <1>9, <1>10, <1>11 DEF DNSService!CallerStep

LEMMA LoopSetsStatus ==
  ASSUME CallersInv, NEW s \in {"running", "crashed"}, DNSService!SetStatus(s)
  PROVE  CallersInv' /\ (SaysStopped' => SaysStopped)
BY DEF SaysStopped, DNSService!SetStatus, CallersInv, DNSService!StateTypeOK,
   DNSService!MutexHeldInCall,
       DNSService!Holding, DNSService!CallerPCs, DNSService!Statuses

LEMMA StateUnchanged ==
  ASSUME CallersInv, UNCHANGED <<status, loopMu, pc, op, result>>, cancelled' \subseteq Callers
  PROVE  CallersInv' /\ (SaysStopped' <=> SaysStopped)
BY DEF SaysStopped, CallersInv, DNSService!StateTypeOK, DNSService!MutexHeldInCall,
       DNSService!Holding, DNSService!CallerPCs, DNSService!Statuses

DNSStates ==
  [loop : {"idle", "setup", "retry", "ready", "failed", "leakCheck", "wait", "confirm", "exited"},
   userTrigger : BOOLEAN, server : {"none", "running", "failed", "stopped"},
   ticker : {"select", "updating", "draining", "ended"}, armed : BOOLEAN,
   period : BOOLEAN, setter : BOOLEAN, shutdown : 0 .. 3,
   requests : 0 .. DNSRequests, faults : 0 .. DNSFaults, periods : 0 .. DNSPeriods]

DNSShape ==
  /\ dns.ticker = "updating" \/ (dns.ticker = "select" /\ dns.armed) => dns.period \/ dns.setter
  /\ SaysStopped => dns.server \in {"none", "stopped"} /\ dns.loop \in {"idle", "wait", "exited"}
  /\ dns.loop = "confirm" => dns.server \in {"none", "stopped"}

LEMMA DNSFields ==
  /\ DNSService!TypeOK <=> DNSService!StateTypeOK /\ dns \in DNSStates
  /\ DNSRequests \in Nat /\ DNSFaults \in Nat /\ DNSPeriods \in Nat
BY DEF DNSService!TypeOK, DNSStates, ServicesAssumption, DNSService!DNSConstants

LEMMA DNSSteps ==
  ASSUME CallersInv, dns \in DNSStates, DNSShape, DNSService!Next
  PROVE  CallersInv' /\ (dns \in DNSStates)' /\ DNSShape'
<1>0. /\ CallersInv /\ dns \in DNSStates /\ DNSShape
      /\ DNSRequests \in Nat /\ DNSFaults \in Nat /\ DNSPeriods \in Nat
  BY DNSFields
<1>1. ASSUME NEW c \in Callers, NEW o \in DNSService!Operations, DNSService!Call(c, o)
      PROVE  CallersInv' /\ (dns \in DNSStates)' /\ DNSShape'
  <2>1. /\ dns.requests + 1 \in 0 .. DNSRequests
    BY <1>0, <1>1 DEF DNSStates, DNSService!Call
  <2>2. CallersInv' /\ (SaysStopped' => SaysStopped)
    BY <1>0, <1>1, CallerSteps DEF DNSService!Call
  <2>3. dns' \in DNSStates
    BY <1>0, <1>1, <2>1 DEF DNSStates, DNSService!Call
  <2>4. /\ dns'.loop = dns.loop /\ dns'.userTrigger = dns.userTrigger
        /\ dns'.server = dns.server /\ dns'.ticker = dns.ticker
        /\ dns'.armed = dns.armed /\ dns'.period = dns.period
        /\ dns'.setter = dns.setter
    BY <1>0, <1>1, <2>1 DEF DNSStates, DNSService!Call
  <2> QED BY <1>0, <2>1, <2>2, <2>3, <2>4 DEF DNSShape, DNSStates
<1>2. ASSUME NEW c \in Callers, DNSService!ConnectionEnds(c)
      PROVE  CallersInv' /\ (dns \in DNSStates)' /\ DNSShape'
  <2>1. CallersInv' /\ (SaysStopped' => SaysStopped)
    BY <1>0, <1>2, StateUnchanged
    DEF DNSService!ConnectionEnds, CallersInv, DNSService!StateTypeOK, ServicesAssumption,
        DNSService!DNSConstants
  <2>2. dns' \in DNSStates
    BY <1>0, <1>2 DEF DNSStates, DNSService!ConnectionEnds
  <2>3. /\ dns'.loop = dns.loop /\ dns'.userTrigger = dns.userTrigger
        /\ dns'.server = dns.server /\ dns'.ticker = dns.ticker
        /\ dns'.armed = dns.armed /\ dns'.period = dns.period
        /\ dns'.setter = dns.setter
    BY <1>0, <1>2 DEF DNSStates, DNSService!ConnectionEnds
  <2> QED BY <1>0, <2>1, <2>2, <2>3 DEF DNSShape, DNSStates
<1>3. ASSUME DNSService!Shutdown
      PROVE  CallersInv' /\ (dns \in DNSStates)' /\ DNSShape'
  <2>1. /\ dns.shutdown + 1 \in 0 .. 3
    BY <1>0, <1>3 DEF DNSStates, DNSService!Shutdown
  <2>2. CallersInv' /\ (SaysStopped' => SaysStopped)
    BY <1>0, <1>3, StateUnchanged DEF DNSService!Shutdown
  <2>3. dns' \in DNSStates
    BY <1>0, <1>3, <2>1 DEF DNSStates, DNSService!Shutdown
  <2>4. /\ dns'.loop = dns.loop /\ dns'.userTrigger = dns.userTrigger
        /\ dns'.server = dns.server /\ dns'.ticker = dns.ticker
        /\ dns'.armed = dns.armed /\ dns'.period = dns.period
        /\ dns'.setter = dns.setter
    BY <1>0, <1>3, <2>1 DEF DNSStates, DNSService!Shutdown
  <2> QED BY <1>0, <2>1, <2>2, <2>3, <2>4 DEF DNSShape, DNSStates
<1>4. ASSUME NEW c \in Callers, DNSService!Caller(c)
      PROVE  CallersInv' /\ (dns \in DNSStates)' /\ DNSShape'
  <2>1. CallersInv' /\ (SaysStopped' => SaysStopped)
    BY <1>0, <1>4, CallerSteps DEF DNSService!Caller
  <2>2. dns' \in DNSStates
    BY <1>0, <1>4 DEF DNSStates, DNSService!Caller
  <2>3. /\ dns'.loop = dns.loop /\ dns'.userTrigger = dns.userTrigger
        /\ dns'.server = dns.server /\ dns'.ticker = dns.ticker
        /\ dns'.armed = dns.armed /\ dns'.period = dns.period
        /\ dns'.setter = dns.setter
    BY <1>0, <1>4 DEF DNSStates, DNSService!Caller
  <2> QED BY <1>0, <2>1, <2>2, <2>3 DEF DNSShape, DNSStates
<1>5. ASSUME NEW c \in Callers, DNSService!ReceiveStart(c)
      PROVE  CallersInv' /\ (dns \in DNSStates)' /\ DNSShape'
  <2>1. CallersInv' /\ ~SaysStopped'
    BY <1>0, <1>5, CallerSteps DEF DNSService!ReceiveStart
  <2>2. dns' \in DNSStates
    BY <1>0, <1>5 DEF DNSStates, DNSService!ReceiveStart
  <2>3. /\ dns'.loop = "setup" /\ dns'.userTrigger = TRUE
        /\ dns'.server = dns.server /\ dns'.ticker = dns.ticker
        /\ dns'.armed = dns.armed /\ dns'.period = dns.period
        /\ dns'.setter = dns.setter
    BY <1>0, <1>5 DEF DNSStates, DNSService!ReceiveStart
  <2> QED BY <1>0, <2>1, <2>2, <2>3 DEF DNSShape, DNSStates
<1>6. ASSUME DNSService!LeakChecked
      PROVE  CallersInv' /\ (dns \in DNSStates)' /\ DNSShape'
  <2>1. /\ dns.loop = "leakCheck"
    BY <1>0, <1>6 DEF DNSService!LeakChecked, DNSService!Place, DNSService!Set
  <2>2. CallersInv' /\ (SaysStopped' => SaysStopped)
    <3>1. UNCHANGED <<status, loopMu, pc, op, result, cancelled>>
      BY <1>6 DEF DNSService!LeakChecked, DNSService!Set, DNSService!stateVars
    <3> QED BY <1>0, <3>1, StateUnchanged DEF CallersInv, DNSService!StateTypeOK
  <2>3. dns' \in DNSStates
    BY <1>0, <1>6, <2>1 DEF DNSStates, DNSService!LeakChecked, DNSService!Place,
       DNSService!Set
  <2>4. /\ dns'.loop = "wait" /\ dns'.userTrigger = dns.userTrigger
        /\ dns'.server = dns.server /\ dns'.ticker = dns.ticker
        /\ dns'.armed = dns.armed /\ dns'.period = dns.period
        /\ dns'.setter = dns.setter
    BY <1>0, <1>6, <2>1 DEF DNSStates, DNSService!LeakChecked, DNSService!Place,
       DNSService!Set
  <2> QED BY <1>0, <2>1, <2>2, <2>3, <2>4 DEF DNSShape, DNSStates
<1>7. ASSUME NEW c \in Callers, DNSService!ReceiveStop(c)
      PROVE  CallersInv' /\ (dns \in DNSStates)' /\ DNSShape'
  <2>1. /\ dns.loop = "wait"
    BY <1>0, <1>7 DEF DNSService!ReceiveStop, DNSService!Place, DNSService!Stopped
  <2>2. CallersInv' /\ ~SaysStopped'
    BY <1>0, <1>7, CallerSteps DEF DNSService!ReceiveStop
  <2>3. dns' \in DNSStates
    BY <1>0, <1>7, <2>1 DEF DNSStates, DNSService!ReceiveStop, DNSService!Place,
       DNSService!Stopped
  <2>4. /\ dns'.loop = "confirm" /\ dns'.userTrigger = TRUE
        /\ dns'.server = (IF dns.server = "none" THEN "none" ELSE "stopped")
        /\ dns'.ticker = dns.ticker /\ dns'.armed = dns.armed
        /\ dns'.period = dns.period /\ dns'.setter = dns.setter
    BY <1>0, <1>7, <2>1 DEF DNSStates, DNSService!ReceiveStop, DNSService!Place,
       DNSService!Stopped
  <2> QED BY <1>0, <2>1, <2>2, <2>3, <2>4 DEF DNSShape, DNSStates
<1>8. ASSUME NEW c \in Callers, DNSService!ConfirmStop(c)
      PROVE  CallersInv' /\ (dns \in DNSStates)' /\ DNSShape'
  <2>1. /\ dns.loop = "confirm"
    BY <1>0, <1>8 DEF DNSService!ConfirmStop, DNSService!Place
  <2>2. CallersInv'
    BY <1>0, <1>8, CallerSteps DEF DNSService!ConfirmStop
  <2>3. dns' \in DNSStates
    BY <1>0, <1>8, <2>1 DEF DNSStates, DNSService!ConfirmStop, DNSService!Place
  <2>4. /\ dns'.loop = "wait" /\ dns'.userTrigger = dns.userTrigger
        /\ dns'.server = dns.server /\ dns'.ticker = dns.ticker
        /\ dns'.armed = dns.armed /\ dns'.period = dns.period
        /\ dns'.setter = dns.setter
    BY <1>0, <1>8, <2>1 DEF DNSStates, DNSService!ConfirmStop, DNSService!Place
  <2> QED BY <1>0, <2>1, <2>2, <2>3, <2>4 DEF DNSShape, DNSStates
<1>9. ASSUME DNSService!ServerCrashes
      PROVE  CallersInv' /\ (dns \in DNSStates)' /\ DNSShape'
  <2>1. /\ dns.server = "running" /\ dns.faults + 1 \in 0 .. DNSFaults
    BY <1>0, <1>9 DEF DNSStates, DNSService!ServerCrashes, DNSService!Set
  <2>2. CallersInv' /\ (SaysStopped' => SaysStopped)
    <3>1. UNCHANGED <<status, loopMu, pc, op, result, cancelled>>
      BY <1>9 DEF DNSService!ServerCrashes, DNSService!Set, DNSService!stateVars
    <3> QED BY <1>0, <3>1, StateUnchanged DEF CallersInv, DNSService!StateTypeOK
  <2>3. dns' \in DNSStates
    BY <1>0, <1>9, <2>1 DEF DNSStates, DNSService!ServerCrashes, DNSService!Set
  <2>4. /\ dns'.loop = dns.loop /\ dns'.userTrigger = dns.userTrigger
        /\ dns'.server = "failed" /\ dns'.ticker = dns.ticker
        /\ dns'.armed = dns.armed /\ dns'.period = dns.period
        /\ dns'.setter = dns.setter
    BY <1>0, <1>9, <2>1 DEF DNSStates, DNSService!ServerCrashes, DNSService!Set
  <2> QED BY <1>0, <2>1, <2>2, <2>3, <2>4 DEF DNSShape, DNSStates
<1>10. ASSUME DNSService!RunError
      PROVE  CallersInv' /\ (dns \in DNSStates)' /\ DNSShape'
  <2>1. /\ dns.loop = "wait" /\ dns.server = "failed"
    BY <1>0, <1>10 DEF DNSService!RunError, DNSService!Place
  <2>2. CallersInv' /\ (SaysStopped' => SaysStopped)
    BY <1>0, <1>10, LoopSetsStatus DEF DNSService!RunError
  <2>3. dns' \in DNSStates
    BY <1>0, <1>10, <2>1 DEF DNSStates, DNSService!RunError, DNSService!Place
  <2>4. /\ dns'.loop = "setup" /\ dns'.userTrigger = dns.userTrigger
        /\ dns'.server = "none" /\ dns'.ticker = dns.ticker
        /\ dns'.armed = dns.armed /\ dns'.period = dns.period
        /\ dns'.setter = dns.setter
    BY <1>0, <1>10, <2>1 DEF DNSStates, DNSService!RunError, DNSService!Place
  <2> QED BY <1>0, <2>1, <2>2, <2>3, <2>4 DEF DNSShape, DNSStates
<1>11. ASSUME DNSService!CtxDone
      PROVE  CallersInv' /\ (dns \in DNSStates)' /\ DNSShape'
  <2>1. /\ dns.loop \in {"idle", "wait"}
    BY <1>0, <1>11 DEF DNSService!CtxDone, DNSService!Set, DNSService!Stopped
  <2>2. CallersInv' /\ (SaysStopped' => SaysStopped)
    <3>1. UNCHANGED <<status, loopMu, pc, op, result, cancelled>>
      BY <1>11 DEF DNSService!CtxDone, DNSService!Set, DNSService!stateVars
    <3> QED BY <1>0, <3>1, StateUnchanged DEF CallersInv, DNSService!StateTypeOK
  <2>3. dns' \in DNSStates
    BY <1>0, <1>11, <2>1 DEF DNSStates, DNSService!CtxDone, DNSService!Set,
       DNSService!Stopped
  <2>4. /\ dns'.loop = "exited" /\ dns'.userTrigger = dns.userTrigger
        /\ dns'.server = (IF dns.server = "none" THEN "none" ELSE "stopped")
        /\ dns'.ticker = dns.ticker /\ dns'.armed = dns.armed
        /\ dns'.period = dns.period /\ dns'.setter = dns.setter
    BY <1>0, <1>11, <2>1 DEF DNSStates, DNSService!CtxDone, DNSService!Set,
       DNSService!Stopped
  <2> QED BY <1>0, <2>1, <2>2, <2>3, <2>4 DEF DNSShape, DNSStates
<1>12. ASSUME DNSService!Tick
      PROVE  CallersInv' /\ (dns \in DNSStates)' /\ DNSShape'
  <2>1. /\ dns.ticker = "select" /\ dns.armed
    BY <1>0, <1>12 DEF DNSService!Tick, DNSService!Set
  <2>2. CallersInv' /\ (SaysStopped' => SaysStopped)
    <3>1. UNCHANGED <<status, loopMu, pc, op, result, cancelled>>
      BY <1>12 DEF DNSService!Tick, DNSService!Set, DNSService!stateVars
    <3> QED BY <1>0, <3>1, StateUnchanged DEF CallersInv, DNSService!StateTypeOK
  <2>3. dns' \in DNSStates
    BY <1>0, <1>12, <2>1 DEF DNSStates, DNSService!Tick, DNSService!Set
  <2>4. /\ dns'.loop = dns.loop /\ dns'.userTrigger = dns.userTrigger
        /\ dns'.server = dns.server /\ dns'.ticker = "updating"
        /\ dns'.armed = FALSE /\ dns'.period = dns.period
        /\ dns'.setter = dns.setter
    BY <1>0, <1>12, <2>1 DEF DNSStates, DNSService!Tick, DNSService!Set
  <2> QED BY <1>0, <2>1, <2>2, <2>3, <2>4 DEF DNSShape, DNSStates
<1>13. ASSUME DNSService!Updated
      PROVE  CallersInv' /\ (dns \in DNSStates)' /\ DNSShape'
  <2>1. /\ dns.ticker = "updating"
    BY <1>0, <1>13 DEF DNSService!Updated, DNSService!Set
  <2>2. CallersInv' /\ (SaysStopped' => SaysStopped)
    <3>1. UNCHANGED <<status, loopMu, pc, op, result, cancelled>>
      BY <1>13 DEF DNSService!Updated, DNSService!Set, DNSService!stateVars
    <3> QED BY <1>0, <3>1, StateUnchanged DEF CallersInv, DNSService!StateTypeOK
  <2>3. dns' \in DNSStates
    BY <1>0, <1>13, <2>1 DEF DNSStates, DNSService!Updated, DNSService!Set
  <2>4. /\ dns'.loop = dns.loop /\ dns'.userTrigger = dns.userTrigger
        /\ dns'.server = dns.server /\ dns'.ticker = "select" /\ dns'.armed = TRUE
        /\ dns'.period = dns.period /\ dns'.setter = dns.setter
    BY <1>0, <1>13, <2>1 DEF DNSStates, DNSService!Updated, DNSService!Set
  <2> QED BY <1>0, <2>1, <2>2, <2>3, <2>4 DEF DNSShape, DNSStates
<1>14. ASSUME DNSService!SetSettings
      PROVE  CallersInv' /\ (dns \in DNSStates)' /\ DNSShape'
  <2>1. /\ dns.periods + 1 \in 0 .. DNSPeriods
    BY <1>0, <1>14 DEF DNSStates, DNSService!SetSettings, DNSService!Set
  <2>2. CallersInv' /\ (SaysStopped' => SaysStopped)
    <3>1. UNCHANGED <<status, loopMu, pc, op, result, cancelled>>
      BY <1>14 DEF DNSService!SetSettings, DNSService!Set, DNSService!stateVars
    <3> QED BY <1>0, <3>1, StateUnchanged DEF CallersInv, DNSService!StateTypeOK
  <2>3. dns' \in DNSStates
    BY <1>0, <1>14, <2>1 DEF DNSStates, DNSService!SetSettings, DNSService!Set
  <2>4. /\ dns'.loop = dns.loop /\ dns'.userTrigger = dns.userTrigger
        /\ dns'.server = dns.server /\ dns'.ticker = dns.ticker
        /\ dns'.armed = dns.armed /\ dns'.period = ~dns.period
        /\ dns'.setter = TRUE
    BY <1>0, <1>14, <2>1 DEF DNSStates, DNSService!SetSettings, DNSService!Set
  <2> QED BY <1>0, <2>1, <2>2, <2>3, <2>4 DEF DNSShape, DNSStates
<1>15. ASSUME DNSService!ReceiveUpdate
      PROVE  CallersInv' /\ (dns \in DNSStates)' /\ DNSShape'
  <2>1. /\ dns.ticker = "select" /\ dns.setter
    BY <1>0, <1>15 DEF DNSService!ReceiveUpdate, DNSService!Set
  <2>2. CallersInv' /\ (SaysStopped' => SaysStopped)
    <3>1. UNCHANGED <<status, loopMu, pc, op, result, cancelled>>
      BY <1>15 DEF DNSService!ReceiveUpdate, DNSService!Set, DNSService!stateVars
    <3> QED BY <1>0, <3>1, StateUnchanged DEF CallersInv, DNSService!StateTypeOK
  <2>3. dns' \in DNSStates
    BY <1>0, <1>15, <2>1 DEF DNSStates, DNSService!ReceiveUpdate, DNSService!Set
  <2>4. /\ dns'.loop = dns.loop /\ dns'.userTrigger = dns.userTrigger
        /\ dns'.server = dns.server
        /\ dns'.ticker = (IF dns.armed THEN "select" ELSE "draining")
        /\ dns'.armed = (dns.armed /\ dns.period) /\ dns'.period = dns.period
        /\ dns'.setter = FALSE
    BY <1>0, <1>15, <2>1 DEF DNSStates, DNSService!ReceiveUpdate, DNSService!Set
  <2> QED BY <1>0, <2>1, <2>2, <2>3, <2>4 DEF DNSShape, DNSStates
<1>16. ASSUME DNSService!TickerDone
      PROVE  CallersInv' /\ (dns \in DNSStates)' /\ DNSShape'
  <2>1. /\ dns.ticker = "select"
    BY <1>0, <1>16 DEF DNSService!TickerDone, DNSService!Set
  <2>2. CallersInv' /\ (SaysStopped' => SaysStopped)
    <3>1. UNCHANGED <<status, loopMu, pc, op, result, cancelled>>
      BY <1>16 DEF DNSService!TickerDone, DNSService!Set, DNSService!stateVars
    <3> QED BY <1>0, <3>1, StateUnchanged DEF CallersInv, DNSService!StateTypeOK
  <2>3. dns' \in DNSStates
    BY <1>0, <1>16, <2>1 DEF DNSStates, DNSService!TickerDone, DNSService!Set
  <2>4. /\ dns'.loop = dns.loop /\ dns'.userTrigger = dns.userTrigger
        /\ dns'.server = dns.server /\ dns'.ticker = "ended" /\ dns'.armed = FALSE
        /\ dns'.period = dns.period /\ dns'.setter = dns.setter
    BY <1>0, <1>16, <2>1 DEF DNSStates, DNSService!TickerDone, DNSService!Set
  <2> QED BY <1>0, <2>1, <2>2, <2>3, <2>4 DEF DNSShape, DNSStates
<1>17. ASSUME DNSService!SetUp
      PROVE  CallersInv' /\ (dns \in DNSStates)' /\ DNSShape'
  <2>1. UNCHANGED <<status, loopMu, pc, op, result, cancelled>> /\ ~SaysStopped
    BY <1>0, <1>17 DEF DNSShape, DNSService!SetUp, DNSService!Set, DNSService!stateVars
  <2>2. CallersInv' /\ ~SaysStopped'
    BY <1>0, <2>1, StateUnchanged DEF CallersInv, DNSService!StateTypeOK
  <2>3. ASSUME NEW place \in {"exited", "ready"}, NEW server \in {"running", "none", "failed", "stopped"},
               dns' = [dns EXCEPT !.loop = place, !.server = server]
        PROVE  (dns \in DNSStates)' /\ DNSShape'
    BY <1>0, <2>2, <2>3 DEF DNSStates, DNSShape
  <2>4. CASE dns' = [dns EXCEPT !.loop = "exited"]
    BY <1>0, <2>2, <2>4 DEF DNSStates, DNSShape
  <2>5. ASSUME dns.faults < DNSFaults, dns' = [dns EXCEPT !.loop = "failed", !.faults = @ + 1]
        PROVE  (dns \in DNSStates)' /\ DNSShape'
    <3>1. dns.faults + 1 \in 0 .. DNSFaults
      BY <1>0, <2>5 DEF DNSStates
    <3> QED BY <1>0, <2>2, <2>5, <3>1 DEF DNSStates, DNSShape
  <2> QED BY <1>17, <2>2, <2>3, <2>4, <2>5 DEF DNSService!SetUp, DNSService!Set
<1>18. ASSUME NEW s \in {"running", "crashed"}, NEW from \in {"ready", "failed"},
             NEW to \in {"leakCheck", "exited", "retry"}, DNSService!SignalOrSetStatus(s, from, to)
      PROVE  CallersInv' /\ (dns \in DNSStates)' /\ DNSShape'
  <2>1. dns.loop \in {"ready", "failed"}
    BY <1>18 DEF DNSService!SignalOrSetStatus, DNSService!Place
  <2>2. ~SaysStopped
    BY <1>0, <2>1 DEF DNSShape
  <2>3. CallersInv' /\ ~SaysStopped'
    <3>1. CASE \E c \in Callers : DNSService!ReceiveRunning(c, s)
      BY <1>0, <3>1, CallerSteps
    <3>2. CASE UNCHANGED DNSService!stateVars
      <4>1. UNCHANGED <<status, loopMu, pc, op, result, cancelled>>
        BY <3>2 DEF DNSService!stateVars
      <4> QED BY <1>0, <2>2, <4>1, StateUnchanged DEF CallersInv, DNSService!StateTypeOK
    <3>3. CASE DNSService!SetStatus(s)
      BY <1>0, <2>2, <3>3, LoopSetsStatus
    <3> QED BY <1>18, <3>1, <3>2, <3>3 DEF DNSService!SignalOrSetStatus
  <2>4. dns' = [dns EXCEPT !.loop = to, !.userTrigger = FALSE]
    BY <1>18 DEF DNSService!SignalOrSetStatus
  <2>5. dns' \in DNSStates
    BY <1>0, <2>4 DEF DNSStates
  <2> QED BY <1>0, <2>3, <2>4, <2>5 DEF DNSStates, DNSShape
<1>19. CASE DNSService!ReportRunning
  BY <1>19, <1>18 DEF DNSService!ReportRunning
<1>20. CASE DNSService!ReportCrashed
  BY <1>20, <1>18 DEF DNSService!ReportCrashed
<1> QED
  BY <1>1, <1>2, <1>3, <1>4, <1>5, <1>6, <1>7, <1>8, <1>9, <1>10, <1>11, <1>12,
     <1>13, <1>14, <1>15, <1>16, <1>17, <1>18, <1>19, <1>20
  DEF DNSService!Next, DNSService!Progress

HTTPStates ==
  [loop : {"idle", "launch", "report", "select", "parked", "restarting", "stopping",
           "confirm", "ending", "exited", "panicked"},
   userTrigger : BOOLEAN, server : {"none", "up", "ended"}, shutdown : BOOLEAN,
   requests : 0 .. HTTPRequests, faults : 0 .. HTTPFaults]

HTTPShape ==
  /\ http.loop \in {"idle", "launch", "confirm", "exited"} => http.server = "none"
  /\ SaysStopped =>
       \/ http.server = "none" /\ http.loop # "launch"
       \/ http.loop \in {"launch", "report"} /\ http.userTrigger

LEMMA HTTPFields ==
  /\ HTTPService!TypeOK <=> DNSService!StateTypeOK /\ http \in HTTPStates
  /\ HTTPRequests \in Nat /\ HTTPFaults \in Nat
BY DEF HTTPService!TypeOK, HTTPStates, HTTPService!StateTypeOK, DNSService!StateTypeOK,
   HTTPService!Statuses,
       DNSService!Statuses, HTTPService!CallerPCs, DNSService!CallerPCs, HTTPService!Operations,
       DNSService!Operations, ServicesAssumption, HTTPService!HTTPConstants

\* The two loops are told to start and to stop by the same calls.
LEMMA SameCalls ==
  ASSUME NEW c
  PROVE  /\ HTTPService!Operations = DNSService!Operations
         /\ \A o : HTTPService!Request(c, o) <=> DNSService!Request(c, o)
         /\ HTTPService!CallerStep(c) <=> DNSService!CallerStep(c)
         /\ HTTPService!SendStart(c) <=> DNSService!SendStart(c)
         /\ HTTPService!SendStop(c) <=> DNSService!SendStop(c)
         /\ \A s : HTTPService!ReceiveRunning(c, s) <=> DNSService!ReceiveRunning(c, s)
         /\ HTTPService!ReceiveStopped(c) <=> DNSService!ReceiveStopped(c)
         /\ \A s : HTTPService!SetStatus(s) <=> DNSService!SetStatus(s)
<1>1. \A o : HTTPService!Request(c, o) <=> DNSService!Request(c, o)
  BY DEF HTTPService!Request, DNSService!Request, HTTPService!At, DNSService!At,
     HTTPService!Goto, DNSService!Goto
<1>2. HTTPService!Refuse(c) <=> DNSService!Refuse(c)
  BY DEF HTTPService!Refuse, DNSService!Refuse, HTTPService!At, DNSService!At,
     HTTPService!Goto, DNSService!Goto, HTTPService!Return, DNSService!Return,
     HTTPService!Target, DNSService!Target, HTTPService!CanStart,
     DNSService!CanStart
<1>3. HTTPService!AcceptRunning(c) <=> DNSService!AcceptRunning(c)
  BY DEF HTTPService!AcceptRunning, DNSService!AcceptRunning, HTTPService!At,
     DNSService!At, HTTPService!Goto, DNSService!Goto, HTTPService!Target,
     DNSService!Target, HTTPService!CanStart, DNSService!CanStart
<1>4. HTTPService!AcceptStopped(c) <=> DNSService!AcceptStopped(c)
  BY DEF HTTPService!AcceptStopped, DNSService!AcceptStopped, HTTPService!At,
     DNSService!At, HTTPService!Goto, DNSService!Goto, HTTPService!Target,
     DNSService!Target, HTTPService!CanStart, DNSService!CanStart
<1>5. HTTPService!EnterSelect(c) <=> DNSService!EnterSelect(c)
  BY DEF HTTPService!EnterSelect, DNSService!EnterSelect, HTTPService!At,
     DNSService!At, HTTPService!Goto, DNSService!Goto
<1>6. HTTPService!GiveUp(c) <=> DNSService!GiveUp(c)
  BY DEF HTTPService!GiveUp, DNSService!GiveUp, HTTPService!At, DNSService!At,
     HTTPService!Goto, DNSService!Goto
<1>7. HTTPService!Finish(c) <=> DNSService!Finish(c)
  BY DEF HTTPService!Finish, DNSService!Finish, HTTPService!At, DNSService!At,
     HTTPService!Goto, DNSService!Goto, HTTPService!Return, DNSService!Return
<1>8. (HTTPService!SendStart(c) <=> DNSService!SendStart(c)) /\ (HTTPService!SendStop(c) <=> DNSService!SendStop(c))
  BY DEF HTTPService!SendStart, DNSService!SendStart, HTTPService!SendStop,
     DNSService!SendStop, HTTPService!At, DNSService!At, HTTPService!Goto,
     DNSService!Goto
<1>9. \A s : HTTPService!ReceiveRunning(c, s) <=> DNSService!ReceiveRunning(c, s)
  BY DEF HTTPService!ReceiveRunning, DNSService!ReceiveRunning, HTTPService!At,
     DNSService!At, HTTPService!Goto, DNSService!Goto
<1>10. HTTPService!ReceiveStopped(c) <=> DNSService!ReceiveStopped(c)
  BY DEF HTTPService!ReceiveStopped, DNSService!ReceiveStopped, HTTPService!At,
     DNSService!At, HTTPService!Goto, DNSService!Goto
<1>11. \A s : HTTPService!SetStatus(s) <=> DNSService!SetStatus(s)
  BY DEF HTTPService!SetStatus, DNSService!SetStatus
<1>12. HTTPService!Operations = DNSService!Operations
  BY DEF HTTPService!Operations, DNSService!Operations
<1> QED BY <1>1, <1>2, <1>3, <1>4, <1>5, <1>6, <1>7, <1>8, <1>9, <1>10, <1>11, <1>12
        DEF HTTPService!CallerStep, DNSService!CallerStep

LEMMA HTTPSteps ==
  ASSUME CallersInv, http \in HTTPStates, HTTPShape, HTTPService!Next
  PROVE  CallersInv' /\ (http \in HTTPStates)' /\ HTTPShape'
<1>0. /\ CallersInv /\ http \in HTTPStates /\ HTTPShape
      /\ HTTPRequests \in Nat /\ HTTPFaults \in Nat
  BY HTTPFields
<1>1. ASSUME NEW c \in Callers, NEW o \in HTTPService!Operations, HTTPService!Call(c, o)
      PROVE  CallersInv' /\ (http \in HTTPStates)' /\ HTTPShape'
  <2>1. /\ http.requests + 1 \in 0 .. HTTPRequests
    BY <1>0, <1>1 DEF HTTPStates, HTTPService!Call
  <2>2. CallersInv' /\ (SaysStopped' => SaysStopped)
    BY <1>0, <1>1, CallerSteps, SameCalls DEF HTTPService!Call
  <2>3. http' \in HTTPStates
    BY <1>0, <1>1, <2>1 DEF HTTPStates, HTTPService!Call
  <2>4. /\ http'.loop = http.loop /\ http'.userTrigger = http.userTrigger
        /\ http'.server = http.server
    BY <1>0, <1>1, <2>1 DEF HTTPStates, HTTPService!Call
  <2> QED BY <1>0, <2>1, <2>2, <2>3, <2>4 DEF HTTPShape, HTTPStates
<1>2. ASSUME HTTPService!Shutdown
      PROVE  CallersInv' /\ (http \in HTTPStates)' /\ HTTPShape'
  <2>1. CallersInv' /\ (SaysStopped' => SaysStopped)
    BY <1>0, <1>2, StateUnchanged DEF HTTPService!Shutdown
  <2>2. http' \in HTTPStates
    BY <1>0, <1>2 DEF HTTPStates, HTTPService!Shutdown
  <2>3. /\ http'.loop = (IF http.loop = "parked" THEN "ending" ELSE http.loop)
        /\ http'.userTrigger = http.userTrigger /\ http'.server = http.server
    BY <1>0, <1>2 DEF HTTPStates, HTTPService!Shutdown
  <2> QED BY <1>0, <2>1, <2>2, <2>3 DEF HTTPShape, HTTPStates
<1>3. ASSUME NEW c \in Callers, HTTPService!Caller(c)
      PROVE  CallersInv' /\ (http \in HTTPStates)' /\ HTTPShape'
  <2>1. CallersInv' /\ (SaysStopped' => SaysStopped)
    BY <1>0, <1>3, CallerSteps, SameCalls DEF HTTPService!Caller
  <2>2. http' \in HTTPStates
    BY <1>0, <1>3 DEF HTTPStates, HTTPService!Caller
  <2>3. /\ http'.loop = http.loop /\ http'.userTrigger = http.userTrigger
        /\ http'.server = http.server
    BY <1>0, <1>3 DEF HTTPStates, HTTPService!Caller
  <2> QED BY <1>0, <2>1, <2>2, <2>3 DEF HTTPShape, HTTPStates
<1>4. ASSUME HTTPService!ServerEnds
      PROVE  CallersInv' /\ (http \in HTTPStates)' /\ HTTPShape'
  <2>1. /\ http.server = "up"
    BY <1>0, <1>4 DEF HTTPService!ServerEnds, HTTPService!Set
  <2>2. CallersInv' /\ (SaysStopped' => SaysStopped)
    <3>1. UNCHANGED <<status, loopMu, pc, op, result, cancelled>>
      BY <1>4 DEF HTTPService!ServerEnds, HTTPService!Set, HTTPService!stateVars
    <3> QED BY <1>0, <3>1, StateUnchanged DEF CallersInv, DNSService!StateTypeOK
  <2>3. http' \in HTTPStates
    BY <1>0, <1>4, <2>1 DEF HTTPStates, HTTPService!ServerEnds, HTTPService!Set
  <2>4. /\ http'.loop = http.loop /\ http'.userTrigger = http.userTrigger
        /\ http'.server = "ended"
    BY <1>0, <1>4, <2>1 DEF HTTPStates, HTTPService!ServerEnds, HTTPService!Set
  <2> QED BY <1>0, <2>1, <2>2, <2>3, <2>4 DEF HTTPShape, HTTPStates
<1>5. ASSUME HTTPService!ServerFails
      PROVE  CallersInv' /\ (http \in HTTPStates)' /\ HTTPShape'
  <2>1. /\ http.server = "up" /\ http.faults + 1 \in 0 .. HTTPFaults
    BY <1>0, <1>5 DEF HTTPStates, HTTPService!ServerFails, HTTPService!Set
  <2>2. CallersInv' /\ (SaysStopped' => SaysStopped)
    <3>1. UNCHANGED <<status, loopMu, pc, op, result, cancelled>>
      BY <1>5 DEF HTTPService!ServerFails, HTTPService!Set, HTTPService!stateVars
    <3> QED BY <1>0, <3>1, StateUnchanged DEF CallersInv, DNSService!StateTypeOK
  <2>3. http' \in HTTPStates
    BY <1>0, <1>5, <2>1 DEF HTTPStates, HTTPService!ServerFails, HTTPService!Set
  <2>4. /\ http'.loop = http.loop /\ http'.userTrigger = http.userTrigger
        /\ http'.server = "ended"
    BY <1>0, <1>5, <2>1 DEF HTTPStates, HTTPService!ServerFails, HTTPService!Set
  <2> QED BY <1>0, <2>1, <2>2, <2>3, <2>4 DEF HTTPShape, HTTPStates
<1>6. ASSUME HTTPService!Launch
      PROVE  CallersInv' /\ (http \in HTTPStates)' /\ HTTPShape'
  <2>1. /\ http.loop = "launch"
    BY <1>0, <1>6 DEF HTTPService!Launch, HTTPService!Place, HTTPService!Set
  <2>2. CallersInv' /\ (SaysStopped' => SaysStopped)
    <3>1. UNCHANGED <<status, loopMu, pc, op, result, cancelled>>
      BY <1>6 DEF HTTPService!Launch, HTTPService!Set, HTTPService!stateVars
    <3> QED BY <1>0, <3>1, StateUnchanged DEF CallersInv, DNSService!StateTypeOK
  <2>3. http' \in HTTPStates
    BY <1>0, <1>6, <2>1 DEF HTTPStates, HTTPService!Launch, HTTPService!Place,
       HTTPService!Set
  <2>4. /\ http'.loop = (IF http.shutdown THEN "exited" ELSE "report")
        /\ http'.userTrigger = http.userTrigger
        /\ http'.server = (IF http.shutdown THEN http.server ELSE "up")
    BY <1>0, <1>6, <2>1 DEF HTTPStates, HTTPService!Launch, HTTPService!Place,
       HTTPService!Set
  <2> QED BY <1>0, <2>1, <2>2, <2>3, <2>4 DEF HTTPShape, HTTPStates
<1>7. ASSUME NEW c \in Callers, HTTPService!ReportRunning(c)
      PROVE  CallersInv' /\ (http \in HTTPStates)' /\ HTTPShape'
  <2>1. /\ http.loop = "report" /\ http.userTrigger
    BY <1>0, <1>7 DEF HTTPService!ReportRunning, HTTPService!Place
  <2>2. CallersInv' /\ ~SaysStopped'
    BY <1>0, <1>7, CallerSteps, SameCalls DEF HTTPService!ReportRunning
  <2>3. http' \in HTTPStates
    BY <1>0, <1>7, <2>1 DEF HTTPStates, HTTPService!ReportRunning, HTTPService!Place
  <2>4. /\ http'.loop = "select" /\ http'.userTrigger = FALSE
        /\ http'.server = http.server
    BY <1>0, <1>7, <2>1 DEF HTTPStates, HTTPService!ReportRunning, HTTPService!Place
  <2> QED BY <1>0, <2>1, <2>2, <2>3, <2>4 DEF HTTPShape, HTTPStates
<1>8. ASSUME HTTPService!PublishRunning
      PROVE  CallersInv' /\ (http \in HTTPStates)' /\ HTTPShape'
  <2>1. /\ http.loop = "report" /\ ~http.userTrigger
    BY <1>0, <1>8 DEF HTTPService!PublishRunning, HTTPService!Place
  <2>2. CallersInv' /\ (SaysStopped' => SaysStopped)
    BY <1>0, <1>8, LoopSetsStatus, SameCalls DEF HTTPService!PublishRunning
  <2>3. http' \in HTTPStates
    BY <1>0, <1>8, <2>1 DEF HTTPStates, HTTPService!PublishRunning,
       HTTPService!Place
  <2>4. /\ http'.loop = "select" /\ http'.userTrigger = http.userTrigger
        /\ http'.server = http.server
    BY <1>0, <1>8, <2>1 DEF HTTPStates, HTTPService!PublishRunning,
       HTTPService!Place
  <2> QED BY <1>0, <2>1, <2>2, <2>3, <2>4 DEF HTTPShape, HTTPStates
<1>9. ASSUME HTTPService!Park
      PROVE  CallersInv' /\ (http \in HTTPStates)' /\ HTTPShape'
  <2>1. /\ http.loop = "select"
    BY <1>0, <1>9 DEF HTTPService!Park, HTTPService!Place, HTTPService!Set
  <2>2. CallersInv' /\ (SaysStopped' => SaysStopped)
    <3>1. UNCHANGED <<status, loopMu, pc, op, result, cancelled>>
      BY <1>9 DEF HTTPService!Park, HTTPService!Set, HTTPService!stateVars
    <3> QED BY <1>0, <3>1, StateUnchanged DEF CallersInv, DNSService!StateTypeOK
  <2>3. http' \in HTTPStates
    BY <1>0, <1>9, <2>1 DEF HTTPStates, HTTPService!Park, HTTPService!Place,
       HTTPService!Set
  <2>4. /\ http'.loop = "parked" /\ http'.userTrigger = http.userTrigger
        /\ http'.server = http.server
    BY <1>0, <1>9, <2>1 DEF HTTPStates, HTTPService!Park, HTTPService!Place,
       HTTPService!Set
  <2> QED BY <1>0, <2>1, <2>2, <2>3, <2>4 DEF HTTPShape, HTTPStates
<1>10. ASSUME NEW c \in Callers, HTTPService!ReceiveStart(c)
      PROVE  CallersInv' /\ (http \in HTTPStates)' /\ HTTPShape'
  <2>1. /\ http.loop \in {"idle", "select", "parked"}
    BY <1>0, <1>10 DEF HTTPService!ReceiveStart, HTTPService!Place,
       HTTPService!Selecting
  <2>2. CallersInv' /\ ~SaysStopped'
    BY <1>0, <1>10, CallerSteps, SameCalls DEF HTTPService!ReceiveStart
  <2>3. http' \in HTTPStates
    BY <1>0, <1>10, <2>1 DEF HTTPStates, HTTPService!ReceiveStart,
       HTTPService!Place, HTTPService!Selecting
  <2>4. /\ http'.loop = (IF http.loop = "idle" THEN "launch" ELSE "restarting")
        /\ http'.userTrigger = TRUE /\ http'.server = http.server
    BY <1>0, <1>10, <2>1 DEF HTTPStates, HTTPService!ReceiveStart,
       HTTPService!Place, HTTPService!Selecting
  <2> QED BY <1>0, <2>1, <2>2, <2>3, <2>4 DEF HTTPShape, HTTPStates
<1>11. ASSUME NEW c \in Callers, HTTPService!ReceiveStop(c)
      PROVE  CallersInv' /\ (http \in HTTPStates)' /\ HTTPShape'
  <2>1. /\ http.loop \in {"select", "parked"}
    BY <1>0, <1>11 DEF HTTPService!ReceiveStop, HTTPService!Selecting
  <2>2. CallersInv' /\ ~SaysStopped'
    BY <1>0, <1>11, CallerSteps, SameCalls DEF HTTPService!ReceiveStop
  <2>3. http' \in HTTPStates
    BY <1>0, <1>11, <2>1 DEF HTTPStates, HTTPService!ReceiveStop,
       HTTPService!Selecting
  <2>4. /\ http'.loop = "stopping" /\ http'.userTrigger = TRUE
        /\ http'.server = http.server
    BY <1>0, <1>11, <2>1 DEF HTTPStates, HTTPService!ReceiveStop,
       HTTPService!Selecting
  <2> QED BY <1>0, <2>1, <2>2, <2>3, <2>4 DEF HTTPShape, HTTPStates
<1>12. ASSUME HTTPService!ServerStopped
      PROVE  CallersInv' /\ (http \in HTTPStates)' /\ HTTPShape'
  <2>1. /\ http.loop \in {"restarting", "stopping", "ending"}
        /\ http.server = "ended"
    BY <1>0, <1>12 DEF HTTPService!ServerStopped, HTTPService!Set, HTTPService!After
  <2>2. CallersInv' /\ (SaysStopped' => SaysStopped)
    <3>1. UNCHANGED <<status, loopMu, pc, op, result, cancelled>>
      BY <1>12 DEF HTTPService!ServerStopped, HTTPService!Set, HTTPService!stateVars
    <3> QED BY <1>0, <3>1, StateUnchanged DEF CallersInv, DNSService!StateTypeOK
  <2>3. http' \in HTTPStates
    <3> DEFINE to == CASE http.loop = "restarting" -> "launch" [] http.loop = "stopping" -> "confirm"
                       [] http.loop = "ending" -> "exited"
    <3>1. to \in {"launch", "confirm", "exited"}
      BY <2>1
    <3>2. http' = [http EXCEPT !.loop = to, !.server = "none"]
      <4>1. HTTPService!After[http.loop] = to
        BY <2>1 DEF HTTPService!After
      <4>2. http' = [http EXCEPT !.loop = HTTPService!After[http.loop], !.server = "none"]
        BY <1>0, <1>12 DEF HTTPService!ServerStopped, HTTPService!Set
      <4> QED BY <4>1, <4>2
    <3> HIDE DEF to
    <3> QED BY <1>0, <3>1, <3>2 DEF HTTPStates
  <2>4. /\ http'.loop = (CASE http.loop = "restarting" -> "launch" [] http.loop = "stopping" -> "confirm" [] http.loop = "ending" -> "exited")
        /\ http'.userTrigger = http.userTrigger /\ http'.server = "none"
    BY <1>0, <1>12, <2>1 DEF HTTPStates, HTTPService!ServerStopped, HTTPService!Set,
       HTTPService!After
  <2> QED BY <1>0, <2>1, <2>2, <2>3, <2>4 DEF HTTPShape, HTTPStates
<1>13. ASSUME NEW c \in Callers, HTTPService!ConfirmStop(c)
      PROVE  CallersInv' /\ (http \in HTTPStates)' /\ HTTPShape'
  <2>1. /\ http.loop = "confirm"
    BY <1>0, <1>13 DEF HTTPService!ConfirmStop, HTTPService!Place
  <2>2. CallersInv'
    BY <1>0, <1>13, CallerSteps, SameCalls DEF HTTPService!ConfirmStop
  <2>3. http' \in HTTPStates
    BY <1>0, <1>13, <2>1 DEF HTTPStates, HTTPService!ConfirmStop, HTTPService!Place
  <2>4. /\ http'.loop = "select" /\ http'.userTrigger = http.userTrigger
        /\ http'.server = http.server
    BY <1>0, <1>13, <2>1 DEF HTTPStates, HTTPService!ConfirmStop, HTTPService!Place
  <2> QED BY <1>0, <2>1, <2>2, <2>3, <2>4 DEF HTTPShape, HTTPStates
<1>14. ASSUME HTTPService!CtxDone
      PROVE  CallersInv' /\ (http \in HTTPStates)' /\ HTTPShape'
  <2>1. /\ http.loop \in {"idle", "select", "parked"}
    BY <1>0, <1>14 DEF HTTPService!CtxDone, HTTPService!Place,
       HTTPService!Selecting, HTTPService!Set
  <2>2. CallersInv' /\ (SaysStopped' => SaysStopped)
    <3>1. UNCHANGED <<status, loopMu, pc, op, result, cancelled>>
      BY <1>14 DEF HTTPService!CtxDone, HTTPService!Set, HTTPService!stateVars
    <3> QED BY <1>0, <3>1, StateUnchanged DEF CallersInv, DNSService!StateTypeOK
  <2>3. http' \in HTTPStates
    BY <1>0, <1>14, <2>1 DEF HTTPStates, HTTPService!CtxDone, HTTPService!Place,
       HTTPService!Selecting, HTTPService!Set
  <2>4. /\ http'.loop = (IF http.loop = "idle" THEN "exited" ELSE "ending")
        /\ http'.userTrigger = http.userTrigger /\ http'.server = http.server
    BY <1>0, <1>14, <2>1 DEF HTTPStates, HTTPService!CtxDone, HTTPService!Place,
       HTTPService!Selecting, HTTPService!Set
  <2> QED BY <1>0, <2>1, <2>2, <2>3, <2>4 DEF HTTPShape, HTTPStates
<1>15. ASSUME HTTPService!ReceiveError
      PROVE  CallersInv' /\ (http \in HTTPStates)' /\ HTTPShape'
  <2>1. /\ http.loop \in {"select", "parked"} /\ http.server = "ended"
    BY <1>0, <1>15 DEF HTTPService!ReceiveError, HTTPService!Selecting
  <2>2. CallersInv' /\ (SaysStopped' => SaysStopped)
    BY <1>0, <1>15, LoopSetsStatus, SameCalls DEF HTTPService!ReceiveError
  <2>3. http' \in HTTPStates
    BY <1>0, <1>15, <2>1 DEF HTTPStates, HTTPService!ReceiveError,
       HTTPService!Selecting
  <2>4. /\ http'.loop = (IF http.shutdown THEN "panicked" ELSE "launch")
        /\ http'.userTrigger = http.userTrigger /\ http'.server = "none"
    BY <1>0, <1>15, <2>1 DEF HTTPStates, HTTPService!ReceiveError,
       HTTPService!Selecting
  <2> QED BY <1>0, <2>1, <2>2, <2>3, <2>4 DEF HTTPShape, HTTPStates
<1> QED
  BY <1>1, <1>2, <1>3, <1>4, <1>5, <1>6, <1>7, <1>8, <1>9, <1>10, <1>11, <1>12,
     <1>13, <1>14, <1>15
  DEF HTTPService!Next, HTTPService!Progress

DNSInv ==
  /\ dns \in DNSStates /\ DNSShape
  /\ part # "dns" => dns.server = "none" /\ dns.loop = "idle"

HTTPInv == http \in HTTPStates /\ (part = "http" => HTTPShape)

LEMMA LoopsInit == Init => CallersInv /\ DNSInv /\ HTTPInv
<1> SUFFICES ASSUME Init
             PROVE  CallersInv /\ DNSInv /\ HTTPInv
  OBVIOUS
<1>1. /\ status = "stopped" /\ loopMu = Nobody /\ cancelled = {}
      /\ pc = [c \in Callers |-> "idle"] /\ op = [c \in Callers |-> "none"]
      /\ result = [c \in Callers |-> "none"]
  BY DEF Init, DNSService!Init, DNSService!StateInit
<1>2. CallersInv
  BY <1>1 DEF CallersInv, DNSService!StateTypeOK, DNSService!Statuses, DNSService!CallerPCs,
     DNSService!MutexHeldInCall, DNSService!Holding, ServicesAssumption
<1>3. PICK period \in BOOLEAN :
        dns = [loop |-> "idle", userTrigger |-> TRUE, server |-> "none", ticker |-> "select",
               armed |-> period, period |-> period, setter |-> FALSE, shutdown |-> 0,
               requests |-> 0, faults |-> 0, periods |-> 0]
  BY DEF Init, DNSService!Init
<1>4. DNSInv
  BY <1>3, DNSFields DEF DNSInv, DNSStates, DNSShape
<1>5. PICK loop \in {"idle", "launch"} :
        http = [loop |-> loop, userTrigger |-> TRUE, server |-> "none", shutdown |-> FALSE,
                requests |-> 0, faults |-> 0]
  BY DEF Init, HTTPService!Init
<1>6. HTTPInv
  BY <1>5, HTTPFields DEF HTTPInv, HTTPStates, HTTPShape
<1> QED BY <1>2, <1>4, <1>6

LEMMA LoopsInvariant == Spec => [](CallersInv /\ DNSInv /\ HTTPInv)
<1>1. ASSUME CallersInv, DNSInv, HTTPInv, [Next]_vars
      PROVE  CallersInv' /\ DNSInv' /\ HTTPInv'
  <2>0. DNSStates' = DNSStates /\ HTTPStates' = HTTPStates
    BY DEF DNSStates, HTTPStates
  <2>1. CASE DNSNext
    <3>1. part = "dns" /\ part' = "dns" /\ http' = http
      BY <2>1 DEF DNSNext
    <3>2. CallersInv' /\ (dns \in DNSStates)' /\ DNSShape'
      BY <1>1, <2>1, DNSSteps DEF DNSNext, DNSInv
    <3> QED BY <1>1, <2>0, <3>1, <3>2 DEF DNSInv, HTTPInv
  <2>2. CASE HTTPNext
    <3>1. part = "http" /\ part' = "http" /\ dns' = dns
      BY <2>2 DEF HTTPNext
    <3>2. CallersInv' /\ (http \in HTTPStates)' /\ HTTPShape'
      BY <1>1, <2>2, <3>1, HTTPSteps DEF HTTPNext, HTTPInv
    <3>3. DNSInv'
      BY <1>1, <2>0, <3>1 DEF DNSInv, DNSShape
    <3> QED BY <3>1, <3>2, <3>3 DEF HTTPInv
  <2>3. CASE UNCHANGED <<part, stateVars, dns, http>>
    <3>1. /\ UNCHANGED <<status, loopMu, pc, op, result, cancelled>>
          /\ part' = part /\ dns' = dns /\ http' = http
      BY <2>3 DEF stateVars
    <3>2. CallersInv' /\ (SaysStopped' <=> SaysStopped)
      BY <1>1, <3>1, StateUnchanged DEF CallersInv, DNSService!StateTypeOK
    <3>3. DNSInv' /\ HTTPInv'
      BY <1>1, <2>0, <3>1, <3>2 DEF DNSInv, HTTPInv, DNSShape, HTTPShape
    <3> QED BY <3>2, <3>3
  <2>4. DNSNext \/ HTTPNext \/ UNCHANGED <<part, stateVars, dns, http>>
    BY <1>1 DEF Next, vars, UpdaterNext, SSNext, IPNext, HealthNext, MainNext
  <2> QED BY <2>1, <2>2, <2>3, <2>4
<1>2. QED
  BY LoopsInit, <1>1, PTL DEF Spec

-----------------------------------------------------------------------------
(* The promises of the services.                                             *)

LEMMA TypesOfLoops == CallersInv /\ DNSInv /\ HTTPInv => DNSService!TypeOK /\ HTTPService!TypeOK
BY DNSFields, HTTPFields DEF CallersInv, DNSInv, HTTPInv

LEMMA TypesOfHealth == HealthInv => HealthService!TypeOK
BY DEF HealthInv, HealthStates, HealthChannels, HealthService!TypeOK

LEMMA TypesOfAddresses == IPInv => IPService!TypeOK
BY DEF IPInv, IPStates, IPService!TypeOK

LEMMA TypesOfMain == MainInv => Main!TypeOK
<1> SUFFICES ASSUME prog \in ProgramStates
             PROVE  Main!TypeOK
  BY DEF MainInv
<1>1. prog.at \in 1 .. Len(Main!Startup)
  BY ApplyIsLast DEF ProgramStates
<1>2. prog.up \cup prog.late \subseteq ServiceNames
  BY DEF ProgramStates
<1> QED BY <1>1, <1>2 DEF ProgramStates, ServiceNames, Main!TypeOK

(* Every variable of every service keeps its type, whatever the services are *)
(* asked and whatever fails.                                                 *)
THEOREM ServicesAreTyped == Spec => []TypeOK
<1>1. UpdaterInv => UpdaterService!TypeOK
  BY DEF UpdaterInv
<1>2. SSInv => SSService!TypeOK
  BY DEF SSInv
<1>3. (/\ UpdaterInv /\ SSInv /\ HealthInv /\ IPInv /\ MainInv
       /\ CallersInv /\ DNSInv /\ HTTPInv) => TypeOK
  BY <1>1, <1>2, TypesOfLoops, TypesOfHealth, TypesOfAddresses, TypesOfMain DEF TypeOK
<1>4. QED
  BY <1>3, UpdaterImplemented, UpdaterIInv, SSImplemented, SSIInv, HealthImplemented, HealthIInv,
     IPImplemented, IPIInv, MainIInv, LoopsInvariant, PTL

(* updater, dns, httpproxy: nothing runs of a service that says it is        *)
(* stopped, however its starts, stops, crashes and reports fall together.    *)
THEOREM StoppedServicesAreDown == Spec => []StoppedMeansDown
<1>1. UpdaterInv => UpdaterService!StoppedTellsTheTruth
  BY DEF UpdaterInv, UpdaterService!StoppedTellsTheTruth
<1>2. DNSInv => DNSService!StoppedMeansDown
  BY DEF DNSInv, DNSShape, SaysStopped, DNSService!StoppedMeansDown
<1>3. HTTPInv => (part = "http" => HTTPService!StoppedTellsTheTruth)
  BY DEF HTTPInv, HTTPShape, SaysStopped, HTTPService!StoppedTellsTheTruth, HTTPService!Place
<1>4. UpdaterInv /\ CallersInv /\ DNSInv /\ HTTPInv => StoppedMeansDown
  BY <1>1, <1>2, <1>3 DEF StoppedMeansDown
<1>5. QED
  BY <1>4, UpdaterImplemented, UpdaterIInv, LoopsInvariant, PTL

(* updater, shadowsocks, healthcheck: there is never a second update, server *)
(* or checking routine, whoever starts and stops while one is ending.        *)
THEOREM OneOfEachAtATime == Spec => []OneAtATime
<1>1. UpdaterInv => UpdaterService!OneUpdateAtATime
  BY DEF UpdaterInv, UpdaterService!OneUpdateAtATime
<1>2. SSInv => SSService!OneServer
  BY DEF SSInv, SSService!OneServer, SSService!Place
<1>3. HealthInv => HealthService!OneRoutine
  BY DEF HealthInv, HealthService!OneRoutine, HealthService!Routine
<1>4. UpdaterInv /\ SSInv /\ HealthInv => OneAtATime
  BY <1>1, <1>2, <1>3 DEF OneAtATime
<1>5. QED
  BY <1>4, UpdaterImplemented, UpdaterIInv, SSImplemented, SSIInv, HealthImplemented, HealthIInv,
     PTL

(* dns: a ticker that waits has a timer only for a period that asks for one, *)
(* or is about to be told of the change.                                     *)
THEOREM DNSTimerFollowsPeriod == Spec => []TimerFollowsPeriod
<1>1. DNSInv => TimerFollowsPeriod
  BY DEF DNSInv, DNSShape, TimerFollowsPeriod, DNSService!TimerFollowsPeriod
<1>2. QED
  BY <1>1, LoopsInvariant, PTL

(* shadowsocks: Run closes a channel twice only after a stop.                *)
THEOREM PanicNeedsAStop == Spec => []PanicsOnlyAfterStop
<1>1. SSInv => PanicsOnlyAfterStop
  BY DEF SSInv, PanicsOnlyAfterStop, SSService!PanicsOnlyAfterStop, SSService!Place
<1>2. QED
  BY <1>1, SSImplemented, SSIInv, PTL

(* publicip, healthcheck: the files and the health server show what is so,   *)
(* whatever overtakes or fails to write what is shown.                       *)
THEOREM ShownOutsideIsTrue == Spec => []WhatIsShownIsTrue
<1>1. IPInv => IPService!FileShowsKnownAddress /\ IPService!OneFile /\ IPService!StoppedMeansCleared
  BY DEF IPInv, IPService!StoppedMeansCleared
<1>2. HealthInv => HealthService!FailuresAreShown /\ HealthService!FallbackIsPermanent
  BY DEF HealthInv
<1>3. IPInv /\ HealthInv => WhatIsShownIsTrue
  BY <1>1, <1>2 DEF WhatIsShownIsTrue
<1>4. QED
  BY <1>3, IPImplemented, IPIInv, HealthImplemented, HealthIInv, PTL

(* main: whatever fails, crashes, hangs or is given up, what is called starts*)
(* before its callers and ends after them, the groups stay inside the grace  *)
(* period, and the exit code tells a failure but a crash.                    *)
THEOREM MainEndsInOrder == Spec => []ProgramEndsInOrder
<1>1. MainInv => ProgramEndsInOrder
  BY DEF MainInv, ProgramEndsInOrder
<1>2. QED
  BY <1>1, MainIInv, PTL
=============================================================================
