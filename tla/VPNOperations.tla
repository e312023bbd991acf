---------------------------- MODULE VPNOperations ---------------------------
(* The operations of the dashboard on the VPN, from the handler of a request *)
(* through the operation lock and the client to the control server of the    *)
(* engine and back. A request ends with its context, by a timeout or because *)
(* the browser left, while the engine goes on with what it was asked.        *)
EXTENDS Naturals

CONSTANTS
    Requests,       \* requests to the dashboard; each is one operation
    Countries, Cities,
    Faults          \* how many contexts end, and requests the engine refuses

Nobody == "nobody"

OperationsConstants == Faults \in Nat /\ Nobody \notin Requests

Any == "any"        \* no filter
NoFilter == [country |-> Any, city |-> Any]
Selection == [country : Countries \cup {Any}, city : Cities \cup {Any}]
Engine == [running : BOOLEAN, selection : Selection]

(* A record with the fields:                                                 *)
(*   pc, kind, asks  each request: its place, its operation, its selection   *)
(*   lock            who holds the operation lock                            *)
(*   call            the call to the engine each request has made: "none",   *)
(*                   "stop", "start", or of PUT /v1/vpn/settings: "read" and *)
(*                   "write"; copied is what it read                         *)
(*   engine          whether the VPN was last asked to run, and its settings *)
(*   history         per request, what was written to the history            *)
(*   faults          used so far                                             *)
(*   told            the engine as the last client to be told of a success   *)
(*                   knows it, or no engine, as a set: kept for a property,  *)
(*   overtaken       with whether a call whose request had ended took effect *)
(*                   since the lock was taken                                *)
VARIABLE ops
-----------------------------------------------------------------------------
Init ==
    \E e \in Engine :
      /\ e.selection.city = Any
      /\ ops = [pc |-> [r \in Requests |-> "new"], kind |-> [r \in Requests |-> "connect"],
                asks |-> [r \in Requests |-> NoFilter], lock |-> Nobody,
                call |-> [r \in Requests |-> "none"], copied |-> [r \in Requests |-> e.selection],
                engine |-> e, history |-> [r \in Requests |-> "nothing"], faults |-> 0,
                told |-> {}, overtaken |-> FALSE]

At(r, place) == ops.pc[r] = place
Waited(r) == At(r, "calling")

FirstCall(kind) == CASE kind = "connect" -> "start"
                     [] kind = "select" -> "read"
                     [] OTHER -> "stop"

Locked(r, kind, asks) ==
    [ops EXCEPT !.lock = r, !.pc[r] = "calling", !.kind[r] = kind, !.asks[r] = asks,
                !.call[r] = FirstCall(kind), !.overtaken = FALSE]

Operations == {"connect", "disconnect", "reconnect"} \X {NoFilter} \cup {"select"} \X (Selection \ {NoFilter})

\* Mutant: the lock is not looked at.
LockAnyway(r) ==
    /\ At(r, "new")
    /\ \E o \in Operations : ops' = Locked(r, o[1], o[2])

TryLockOperation(r) ==
    /\ At(r, "new")
    /\ \E o \in Operations :
         ops' = IF ops.lock = Nobody THEN Locked(r, o[1], o[2]) ELSE [ops EXCEPT !.pc[r] = "conflict"]

(* PUT /v1/vpn/status, whether somebody still waits for the answer or not.   *)
ApplyStatus(r) ==
    /\ ops.call[r] \in {"stop", "start"}
    /\ ops' = [ops EXCEPT !.engine.running = ops.call[r] = "start",
                          !.call[r] = IF Waited(r) THEN "answered" ELSE "none",
                          !.told = IF Waited(r) THEN @ ELSE {}, !.overtaken = @ \/ ~Waited(r)]

(* PUT /v1/vpn/settings: the settings are copied, overridden and validated,  *)
(* and set later. A filter that is not given stays.                          *)
GetSettings(r) ==
    /\ ops.call[r] = "read"
    /\ ops' = [ops EXCEPT !.call[r] = "write", !.copied[r] = ops.engine.selection]

Override(old, new) == [f \in DOMAIN old |-> IF new[f] = Any THEN old[f] ELSE new[f]]

(* Unchanged settings restart nothing.                                       *)
SetSettings(r) ==
    /\ ops.call[r] = "write"
    /\ LET updated == Override(ops.copied[r], ops.asks[r])
       IN  ops' = [ops EXCEPT !.engine.running = @ \/ updated # ops.engine.selection,
                              !.engine.selection = updated,
                              !.call[r] = IF Waited(r) THEN "answered" ELSE "none",
                              !.told = IF Waited(r) THEN @ ELSE {}, !.overtaken = @ \/ ~Waited(r)]

Known(r) ==
    LET told == ops.engine
    IN  CASE ops.kind[r] = "disconnect" -> [told EXCEPT !.running = FALSE]
          [] ops.kind[r] \in {"connect", "reconnect"} -> [told EXCEPT !.running = TRUE]
          [] OTHER -> [told EXCEPT !.selection = Override(@, ops.asks[r])]

Succeeds(r) ==
    [ops EXCEPT !.pc[r] = "unlock", !.call[r] = "none", !.history[r] = "done", 
                !.told = IF ops.overtaken THEN {} ELSE {Known(r)}]
Fails(r, call) ==
    [ops EXCEPT !.pc[r] = "unlock", !.call[r] = call, !.history[r] = "failed",
                !.faults = @ + 1, !.told = {}]

(* The stop of a reconnection is followed by its start, whatever its answer. *)
Restarts(r) == ops.kind[r] = "reconnect" /\ At(r, "calling") /\ ops.history[r] = "nothing"
SecondCall(r) == [ops EXCEPT !.call[r] = "start", !.history[r] = "stopped"]

Answered(r) ==
    /\ At(r, "calling") /\ ops.call[r] = "answered"
    /\ ops' = IF Restarts(r) THEN SecondCall(r) ELSE Succeeds(r)

Refused(r) ==
    /\ At(r, "calling") /\ ops.call[r] \in {"stop", "start", "read"} /\ ops.faults < Faults
    /\ ops' = IF Restarts(r) THEN [SecondCall(r) EXCEPT !.faults = @ + 1] ELSE Fails(r, "none")

(* The context ends. What the engine was asked it may do or have done; what  *)
(* it was not asked yet it is not asked any more.                            *)
ContextEnds(r) ==
    /\ At(r, "calling") /\ ops.faults < Faults
    /\ ops' = Fails(r, IF ops.call[r] = "answered" THEN "none" ELSE ops.call[r])

Unlock(r) ==
    /\ At(r, "unlock")
    /\ ops' = [ops EXCEPT !.pc[r] = "over", !.lock = Nobody]

Next ==
    \E r \in Requests :
      \/ TryLockOperation(r) \/ Answered(r) \/ Refused(r) \/ ContextEnds(r) \/ Unlock(r)
      \/ ApplyStatus(r) \/ GetSettings(r) \/ SetSettings(r)

Spec == Init /\ [][Next]_ops
-----------------------------------------------------------------------------
TypeOK ==
    /\ ops.engine \in Engine /\ ops.lock \in Requests \cup {Nobody}
    /\ ops.told \in SUBSET Engine
    /\ \A r \in Requests :
         /\ ops.pc[r] \in {"new", "conflict", "calling", "unlock", "over"}
         /\ ops.call[r] \in {"none", "stop", "start", "read", "write", "answered"}
         /\ ops.history[r] \in {"nothing", "stopped", "done", "failed"}

(* Two operations never run at once.                                         *)
OneOperation == \A r \in Requests : ops.pc[r] \in {"calling", "unlock"} => ops.lock = r

(* While no operation runs the engine is as the last client that was told of *)
(* a success knows it - unless a call whose request had ended came after it, *)
(* in which case nobody knows.                                               *)
LastOperationWins == ops.lock = Nobody => ops.told \subseteq {ops.engine}
=============================================================================
