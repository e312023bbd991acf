----------------------------- MODULE LoopStatus -----------------------------
(***************************************************************************)
(* What a service loop promises to whoever reads its status or calls       *)
(* ApplyStatus: changes asked for by callers are made one at a time, each  *)
(* runs from its transient status to an outcome of the loop, and in        *)
(* between the loop changes the status by itself only to report that it    *)
(* crashed and that it recovered.                                          *)
(***************************************************************************)
CONSTANTS Callers, Nobody

VARIABLES
    status,     \* what GetStatus returns
    owner       \* the caller whose change is under way

Init == status = "stopped" /\ owner = Nobody

\* A change is accepted when no other is under way.
BeginStart(c) ==
    /\ owner = Nobody /\ owner' = c
    /\ status \in {"stopped", "completed"} /\ status' = "starting"

BeginStop(c) ==
    /\ owner = Nobody /\ owner' = c
    /\ status = "running" /\ status' = "stopping"

\* The loop has reacted.
EndStart(c) ==
    /\ owner = c /\ owner' = Nobody
    /\ status = "starting" /\ status' \in {"running", "crashed"}

EndStop(c) ==
    /\ owner = c /\ owner' = Nobody
    /\ status = "stopping" /\ status' = "stopped"

\* The loop reports what happens to it outside any change.
Crash ==
    /\ owner = Nobody /\ UNCHANGED owner
    /\ status = "running" /\ status' = "crashed"

Retry ==
    /\ owner = Nobody /\ UNCHANGED owner
    /\ status = "crashed" /\ status' \in {"crashed", "running"}

Next ==
    \/ \E c \in Callers : BeginStart(c) \/ BeginStop(c) \/ EndStart(c) \/ EndStop(c)
    \/ Crash
    \/ Retry

Spec == Init /\ [][Next]_<<status, owner>>
=============================================================================
