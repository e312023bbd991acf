--------------------------- MODULE SnapshotStreams --------------------------
(* internal/dashboard: the last snapshot of the Coordinator and the requests *)
(* it is sent to, with the poller that refreshes it and the handlers of the  *)
(* operations on the VPN. What a snapshot says of the VPN is in the module   *)
(* EngineWatch; here it is its number.                                       *)
EXTENDS Naturals, Sequences

CONSTANTS
    Poller,             \* the goroutine of Start
    Handlers,           \* requests that operate on the VPN
    Streams,            \* requests that stream events
    ChannelSize,        \* how many snapshots the channel of a stream holds
    Refreshes, MaxOperations   \* how many there are

Nobody == "nobody"

StreamsConstants ==
    /\ Poller \notin Handlers /\ Handlers \cap Streams = {}
    /\ Nobody \notin {Poller} \cup Handlers \cup Streams
    /\ ChannelSize \in Nat \ {0} /\ {Refreshes, MaxOperations} \subseteq Nat

Refreshers == Handlers \cup {Poller}

(* A snapshot is its number, whether an operation was in progress, and who   *)
(* sends it: Nobody stands for a refresh. A record with the fields:          *)
(*   mutex      who holds the mutex to refresh; busy: what it read of the    *)
(*              operation in progress                                        *)
(*   pc         where each refresher is                                      *)
(*   last       lastSnapshot                                                 *)
(*   held       the snapshot that each goroutine is about to send            *)
(*   operation  who runs the operation in progress                           *)
(*   stream     each request: "none", "joining", "sending", "open"           *)
(*   channel    what its channel holds                                       *)
(*   refreshed, operated   used so far                                       *)
(*   released, sent        who unlocked last and what was sent last: kept    *)
(*              for the properties                                           *)
VARIABLE dash
-----------------------------------------------------------------------------
Snapshot(number, busy, by) == [number |-> number, busy |-> busy, by |-> by]
First == Snapshot(0, FALSE, Nobody)

Init ==
    dash = [mutex |-> Nobody, busy |-> FALSE, pc |-> [r \in Refreshers |-> "idle"], last |-> First,
            held |-> [r \in Handlers \cup Streams |-> First], operation |-> Nobody,
            stream |-> [s \in Streams |-> "none"], channel |-> [s \in Streams |-> <<>>],
            refreshed |-> 0, operated |-> 0, released |-> Nobody, sent |-> First]

At(r, place) == dash.pc[r] = place
Readable == dash.mutex = Nobody
Busy == dash.operation # Nobody

(* A full channel loses the snapshot.                                        *)
Offer(channel, snapshot) == IF Len(channel) < ChannelSize THEN Append(channel, snapshot) ELSE channel

Broadcast(state, snapshot) ==
    [state EXCEPT !.sent = snapshot,
                  !.channel = [s \in Streams |-> IF dash.stream[s] = "none" THEN @[s]
                                                 ELSE Offer(@[s], snapshot)]]
-----------------------------------------------------------------------------
(* Refresh holds the mutex while it asks the engine, and while it broadcasts.*)

Start(r) ==
    /\ At(r, IF r = Poller THEN "idle" ELSE "refresh")
    /\ Readable /\ dash.refreshed < Refreshes
    /\ dash' = [dash EXCEPT !.mutex = r, !.busy = Busy, !.pc[r] = "asking", !.refreshed = @ + 1]

Refreshed(r) ==
    LET snapshot == Snapshot(dash.refreshed, dash.busy, Nobody)
    IN  [dash EXCEPT !.mutex = Nobody, !.last = snapshot, !.pc[r] = IF r = Poller THEN "idle" ELSE "unlock"]

\* Mutant: a handler releases the mutex before it broadcasts.
FinishThenSend(r) ==
    /\ At(r, "asking")
    /\ dash' = IF r = Poller THEN Broadcast(Refreshed(r), Refreshed(r).last)
               ELSE [Refreshed(r) EXCEPT !.held[r] = Refreshed(r).last, !.pc[r] = "sendUnlocked"]

Finish(r) ==
    /\ At(r, "asking")
    /\ dash' = Broadcast(Refreshed(r), Refreshed(r).last)
-----------------------------------------------------------------------------
(* The handlers: TryLockOperation, the operation, a refresh unless it failed,*)
(* and unlock. Both ends notify the streams.                                 *)

\* Mutant: an operation in progress is no obstacle.
LockAnyway(h) ==
    /\ At(h, "idle") /\ dash.operated < MaxOperations
    /\ dash' = [dash EXCEPT !.operated = @ + 1, !.operation = h, !.pc[h] = "locked"]

TryLockOperation(h) ==
    /\ At(h, "idle") /\ dash.operated < MaxOperations
    /\ dash' = IF Busy THEN [dash EXCEPT !.operated = @ + 1]
                       ELSE [dash EXCEPT !.operated = @ + 1, !.operation = h, !.pc[h] = "locked"]

(* notifyStateChange: the snapshot is read, and sent later.                  *)
ReadSnapshot(h, from, to) ==
    /\ At(h, from) /\ Readable
    /\ dash' = [dash EXCEPT !.pc[h] = to, !.held[h] = [dash.last EXCEPT !.busy = Busy, !.by = h]]

SendSnapshot(h, from, to) ==
    /\ At(h, from)
    /\ dash' = Broadcast([dash EXCEPT !.pc[h] = to], dash.held[h])

Operate(h) ==
    /\ At(h, "operating")
    /\ \E place \in {"refresh", "unlock"} : dash' = [dash EXCEPT !.pc[h] = place]

Unlock(h) ==
    /\ At(h, "unlock")
    /\ dash' = [dash EXCEPT !.operation = Nobody, !.released = h, !.pc[h] = "unlocked"]

Notify(h) ==
    \/ ReadSnapshot(h, "locked", "sendLocked") \/ SendSnapshot(h, "sendLocked", "operating")
    \/ ReadSnapshot(h, "unlocked", "sendUnlocked") \/ SendSnapshot(h, "sendUnlocked", "idle")
-----------------------------------------------------------------------------
(* The event streams: Subscribe registers the channel, and then sends it the *)
(* snapshot it reads.                                                        *)

Subscribe(s) ==
    /\ dash.stream[s] = "none"
    /\ dash' = [dash EXCEPT !.stream[s] = "joining"]

ReadCurrent(s) ==
    /\ dash.stream[s] = "joining" /\ Readable
    /\ dash' = [dash EXCEPT !.stream[s] = "sending", !.held[s] = [dash.last EXCEPT !.by = s]]

SendCurrent(s) ==
    /\ dash.stream[s] = "sending"
    /\ dash' = [dash EXCEPT !.stream[s] = "open", !.channel[s] = Offer(@, dash.held[s]), !.held[s] = First]

Receive(s) ==
    /\ dash.stream[s] = "open" /\ dash.channel[s] # <<>>
    /\ dash' = [dash EXCEPT !.channel[s] = Tail(@)]

Unsubscribe(s) ==
    /\ dash.stream[s] = "open"
    /\ dash' = [dash EXCEPT !.stream[s] = "none", !.channel[s] = <<>>]
-----------------------------------------------------------------------------
Next ==
    \/ \E r \in Refreshers : Start(r) \/ Finish(r)
    \/ \E h \in Handlers : TryLockOperation(h) \/ Notify(h) \/ Operate(h) \/ Unlock(h)
    \/ \E s \in Streams :
         Subscribe(s) \/ ReadCurrent(s) \/ SendCurrent(s) \/ Receive(s) \/ Unsubscribe(s)

Spec == Init /\ [][Next]_dash
-----------------------------------------------------------------------------
Snapshots == [number : 0 .. Refreshes, busy : BOOLEAN, by : Handlers \cup Streams \cup {Nobody}]

TypeOK ==
    /\ dash.last \in Snapshots /\ dash.sent \in Snapshots
    /\ dash.mutex \in Refreshers \cup {Nobody} /\ dash.operation \in Handlers \cup {Nobody}
    /\ \A s \in Streams : dash.channel[s] \in Seq(Snapshots) /\ Len(dash.channel[s]) <= ChannelSize

(* The snapshots of refreshes reach a stream in the order of the refreshes:  *)
(* only a notification, or the first snapshot of a stream, is ever older     *)
(* than one before it.                                                       *)
RefreshesInOrder ==
    \A s \in Streams : \A i, j \in DOMAIN dash.channel[s] :
        LET early == dash.channel[s][i]
            late == dash.channel[s][j]
        IN  i < j /\ early.number > late.number => late.by # Nobody

(* Two operations never run at once.                                         *)
OneOperation ==
    \A h \in Handlers :
      dash.pc[h] \in {"locked", "sendLocked", "operating", "refresh", "asking", "unlock"}
        => dash.operation = h

(* Once no operation runs and nothing is about to be sent, what was sent     *)
(* last says so, unless an earlier operation's notification, read during     *)
(* the last operation, was sent after that had ended.                        *)
LastSentTellsIdle ==
    /\ ~Busy /\ dash.sent.busy
    /\ \A r \in Refreshers : At(r, "idle")
    => dash.sent.by \in Handlers \ {dash.released}
=============================================================================
