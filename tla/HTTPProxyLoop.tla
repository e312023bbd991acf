---------------------------- MODULE HTTPProxyLoop ---------------------------
(* internal/httpproxy: Run, which keeps the proxy server listening, and its  *)
(* callers: SetSettings, which stops, starts or restarts it (exported, and   *)
(* without a caller in the program today).                                   *)
EXTENDS LoopState

CONSTANTS
    HTTPRequests,   \* how many calls are made
    HTTPFaults      \* how many times listening fails

HTTPConstants == HTTPRequests \in Nat /\ HTTPFaults \in Nat

(* A record with the fields:                                                 *)
(*   loop       where Run is: it is "parked" in its select once it found     *)
(*              nothing to receive                                           *)
(*   userTrigger its field                                                   *)
(*   server     "none", "up", or "ended": it sends on errorCh                *)
(*   shutdown   the context of Run is cancelled                              *)
(*   requests, faults   used so far                                          *)
VARIABLE http

httpVars == <<stateVars, http>>
-----------------------------------------------------------------------------
(* With the proxy enabled Run starts it unasked.                             *)
Init ==
    /\ StateInit("stopped")
    /\ \E loop \in {"idle", "launch"} :
       http = [loop |-> loop, userTrigger |-> TRUE, server |-> "none", shutdown |-> FALSE,
               requests |-> 0, faults |-> 0]

Set(update) == http' = update /\ UNCHANGED stateVars
Place(place) == http.loop = place
Selecting == http.loop \in {"select", "parked"}
\* Where Run waits for the server it cancelled, and where it goes on.
After == [restarting |-> "launch", stopping |-> "confirm", ending |-> "exited"]
Cancelled == http.shutdown \/ http.loop \in DOMAIN After

Call(c, o) ==
    /\ http.requests < HTTPRequests /\ ~http.shutdown
    /\ Request(c, o)
    /\ http' = [http EXCEPT !.requests = @ + 1]

(* A loop that is parked is woken by its context, before the server ends.    *)
Shutdown ==
    /\ ~http.shutdown
    /\ http' = [http EXCEPT !.shutdown = TRUE, !.loop = IF @ = "parked" THEN "ending" ELSE @]
    /\ cancelled' = Callers
    /\ UNCHANGED <<status, loopMu, pc, op, result>>

Caller(c) == CallerStep(c) /\ UNCHANGED http
-----------------------------------------------------------------------------
(* Server.Run: a server that is cancelled sends a nil error.                 *)
ServerEnds ==
    /\ http.server = "up" /\ Cancelled
    /\ Set([http EXCEPT !.server = "ended"])

ServerFails ==
    /\ http.server = "up" /\ ~Cancelled /\ http.faults < HTTPFaults
    /\ Set([http EXCEPT !.server = "ended", !.faults = @ + 1])

Launch ==
    /\ Place("launch")
    /\ Set(IF http.shutdown THEN [http EXCEPT !.loop = "exited"]
                            ELSE [http EXCEPT !.loop = "report", !.server = "up"])

ReportRunning(c) ==
    /\ Place("report") /\ http.userTrigger
    /\ ReceiveRunning(c, "running")
    /\ http' = [http EXCEPT !.loop = "select", !.userTrigger = FALSE]

PublishRunning ==
    /\ Place("report") /\ ~http.userTrigger
    /\ SetStatus("running")
    /\ http' = [http EXCEPT !.loop = "select"]

Park ==
    /\ Place("select") /\ http.server # "ended" /\ ~http.shutdown
    /\ Set([http EXCEPT !.loop = "parked"])

ReceiveStart(c) ==
    /\ Place("idle") \/ Selecting
    /\ SendStart(c)
    /\ http' = [http EXCEPT !.userTrigger = TRUE,
                            !.loop = IF @ = "idle" THEN "launch" ELSE "restarting"]

ReceiveStop(c) ==
    /\ Selecting
    /\ SendStop(c)
    /\ http' = [http EXCEPT !.userTrigger = TRUE, !.loop = "stopping"]

(* A start, a stop and the end of ctx wait for what the server sends: for    *)
(* ever, when a stop received it before.                                     *)
ServerStopped ==
    /\ http.loop \in DOMAIN After /\ http.server = "ended"
    /\ Set([http EXCEPT !.loop = After[@], !.server = "none"])

ConfirmStop(c) ==
    /\ Place("confirm")
    /\ ReceiveStopped(c)
    /\ http' = [http EXCEPT !.loop = "select"]

CtxDone ==
    /\ Place("idle") \/ Selecting
    /\ http.shutdown
    /\ Set([http EXCEPT !.loop = IF @ = "idle" THEN "exited" ELSE "ending"])

(* The error of a server that was cancelled is nil, which logAndWait         *)
(* dereferences.                                                             *)
ReceiveError ==
    /\ Selecting /\ http.server = "ended"
    /\ SetStatus("crashed")
    /\ http' = [http EXCEPT !.server = "none",
                            !.loop = IF http.shutdown THEN "panicked" ELSE "launch"]
-----------------------------------------------------------------------------
Progress ==
    \/ \E c \in Callers :
         Caller(c) \/ ReceiveStart(c) \/ ReceiveStop(c) \/ ReportRunning(c) \/ ConfirmStop(c)
    \/ ServerEnds \/ Launch \/ PublishRunning \/ Park \/ ServerStopped
    \/ CtxDone \/ ReceiveError

Next ==
    /\ ~Place("panicked")
    /\ \/ Progress
       \/ \E c \in Callers, o \in Operations : Call(c, o)
       \/ ServerFails \/ Shutdown

Spec == Init /\ [][Next]_httpVars
-----------------------------------------------------------------------------
TypeOK ==
    /\ StateTypeOK
    /\ http \in [loop : {"idle", "launch", "report", "select", "parked", "restarting", "stopping",
                         "confirm", "ending", "exited", "panicked"},
                 userTrigger : BOOLEAN, server : {"none", "up", "ended"}, shutdown : BOOLEAN,
                 requests : 0 .. HTTPRequests, faults : 0 .. HTTPFaults]

(* The status says stopped of a server that listens only when it was started *)
(* unasked: Run is then stuck with a report nobody will receive.             *)
StoppedTellsTheTruth ==
    status = "stopped" /\ http.server # "none" => Place("report") /\ http.userTrigger

(* Who waits for ever: the first report of a proxy nobody asked for; the     *)
(* confirmation to a caller that gave up; whoever waits for the server after *)
(* a stop; callers, once the loop has ended; and a panic ends all.           *)
Wedged ==
    \/ Place("report") /\ \A c \in Callers : ~At(c, "awaitRunning")
    \/ Place("confirm") /\ \A c \in Callers : ~At(c, "awaitStopped")
    \/ http.loop \in {"restarting", "stopping", "ending"} /\ http.server = "none"
    \/ Place("exited") /\ \E c \in Callers : pc[c] \in {"sendStart", "sendStop"}
    \/ Place("panicked")

(* When nothing can go on, every call has returned and a loop that was shut  *)
(* down has ended, but for these.                                            *)
BlockedOnlyIfWedged ==
    \/ ENABLED Progress
    \/ Wedged
    \/ (\A c \in Callers : At(c, "idle")) /\ (http.shutdown => Place("exited"))
=============================================================================
