--------------------------- MODULE DashboardProofs --------------------------
(* Theorems about Dashboard, for any clients, streams, profiles, roles and   *)
(* bounds. Each part has an invariant of its own, which its steps preserve   *)
(* whatever the other parts do; a behaviour of the whole is one of each part.*)
EXTENDS Dashboard, TLAPS, SequenceTheorems

USE DashboardAssumption
-----------------------------------------------------------------------------
(* SnapshotStreams: the types of its state, and what makes RefreshesInOrder  *)
(* and LastSentTellsIdle inductive.                                          *)

StreamPlaces ==
    {"idle", "locked", "sendLocked", "operating", "refresh", "asking", "unlock", "unlocked", "sendUnlocked"}

StreamTypes ==
    dash \in [mutex : Streaming!Refreshers \cup {Streaming!Nobody}, busy : BOOLEAN,
              pc : [Streaming!Refreshers -> StreamPlaces], last : Streaming!Snapshots,
              held : [Handlers \cup Streams -> Streaming!Snapshots],
              operation : Handlers \cup {Streaming!Nobody},
              stream : [Streams -> {"none", "joining", "sending", "open"}],
              channel : [Streams -> Seq(Streaming!Snapshots)],
              refreshed : 0 .. Refreshes, operated : Nat,
              released : Handlers \cup {Streaming!Nobody}, sent : Streaming!Snapshots]

\* Who asks the engine holds the mutex; the poller does nothing else.
MutexInv ==
    /\ \A r \in Streaming!Refreshers : dash.pc[r] = "asking" <=> dash.mutex = r
    /\ dash.pc[Poller] \in {"idle", "asking"}

\* What is read to be sent is the reader's, and no newer than the last refresh.
HeldInv ==
    /\ dash.last.number <= dash.refreshed
    /\ \A r \in Handlers \cup Streams : dash.held[r].number <= dash.refreshed
    /\ \A h \in Handlers : dash.pc[h] \in {"sendLocked", "sendUnlocked"} => dash.held[h].by = h
    /\ \A s \in Streams : dash.stream[s] = "sending" => dash.held[s].by = s

\* A channel that is in order, with nothing newer than a refresh.
InOrder(channel, refreshed) ==
    /\ channel \in Seq(Streaming!Snapshots) /\ Len(channel) <= ChannelSize
    /\ \A i \in DOMAIN channel : channel[i].number <= refreshed
    /\ \A i, j \in DOMAIN channel :
         i < j /\ channel[i].number > channel[j].number => channel[j].by # Streaming!Nobody

ChannelInv == \A s \in Streams : InOrder(dash.channel[s], dash.refreshed)

\* A refresh that saw an operation that is over by now, a notification that
\* tells of it, and what was sent of it, will be followed by the notification
\* of its end; or was sent for another operation.
IdleInv ==
    dash.operation = Streaming!Nobody =>
      /\ dash.mutex # Streaming!Nobody /\ dash.busy =>
           dash.released \in Handlers /\ dash.pc[dash.released] = "unlocked"
      /\ dash.released \in Handlers /\ dash.pc[dash.released] = "sendUnlocked" =>
           ~dash.held[dash.released].busy
      /\ dash.sent.busy =>
           \/ dash.sent.by \in Handlers \ {dash.released}
           \/ dash.released \in Handlers /\ dash.pc[dash.released] \in {"unlocked", "sendUnlocked"}

StreamInv ==
    /\ StreamTypes /\ MutexInv /\ HeldInv /\ ChannelInv /\ IdleInv
    /\ Streaming!OneOperation

LEMMA StreamConstants ==
  /\ Poller \notin Handlers /\ Handlers \cap Streams = {}
  /\ Streaming!Nobody \notin {Poller} \cup Handlers \cup Streams
  /\ ChannelSize \in Nat \ {0} /\ Refreshes \in Nat /\ MaxOperations \in Nat
BY DEF DashboardAssumption, Streaming!StreamsConstants

LEMMA SnapshotTyped ==
  ASSUME NEW snapshot \in Streaming!Snapshots
  PROVE  /\ snapshot.number \in Nat /\ snapshot.busy \in BOOLEAN
         /\ snapshot.by \in Handlers \cup Streams \cup {Streaming!Nobody}
BY StreamConstants DEF Streaming!Snapshots

LEMMA OfferInOrder ==
  ASSUME NEW refreshed \in Nat, NEW channel, InOrder(channel, refreshed),
         NEW snapshot \in Streaming!Snapshots, snapshot.number <= refreshed,
         snapshot.by = Streaming!Nobody => snapshot.number = refreshed
  PROVE  InOrder(Streaming!Offer(channel, snapshot), refreshed)
<1> USE StreamConstants DEF InOrder
<1>1. CASE Len(channel) < ChannelSize
  <2> DEFINE new == Append(channel, snapshot)
  <2>1. Streaming!Offer(channel, snapshot) = new
    BY <1>1 DEF Streaming!Offer
  <2>2. new \in Seq(Streaming!Snapshots) /\ Len(new) = Len(channel) + 1
    OBVIOUS
  <2>3. \A i \in DOMAIN new : new[i] = IF i = Len(channel) + 1 THEN snapshot ELSE channel[i]
    OBVIOUS
  <2>4. \A i \in DOMAIN new : i \in DOMAIN channel \/ i = Len(channel) + 1
    OBVIOUS
  <2>5. DOMAIN new \subseteq Nat
    OBVIOUS
  <2> HIDE DEF new
  <2>6. \A i \in DOMAIN new : new[i].number <= refreshed
    BY <2>3, <2>4
  <2>7. \A i, j \in DOMAIN new :
         i < j /\ new[i].number > new[j].number => new[j].by # Streaming!Nobody
    <3> SUFFICES ASSUME NEW i \in DOMAIN new, NEW j \in DOMAIN new, i < j, new[i].number > new[j].number
                 PROVE  new[j].by # Streaming!Nobody
      OBVIOUS
    <3>1. CASE j \in DOMAIN channel
      BY <3>1, <2>3, <2>4, <2>5
    <3>2. CASE j = Len(channel) + 1
      <4>1. new[j] = snapshot
        BY <3>2, <2>3
      <4>2. new[i].number \in Nat /\ new[i].number <= refreshed
        BY <2>2, <2>6, SnapshotTyped
      <4>3. snapshot.number \in Nat
        BY SnapshotTyped
      <4>4. QED
        BY <4>1, <4>2, <4>3
    <3>3. QED
      BY <3>1, <3>2, <2>4
  <2>8. QED
    BY <1>1, <2>1, <2>2, <2>6, <2>7
<1>2. CASE ~(Len(channel) < ChannelSize)
  BY <1>2 DEF Streaming!Offer
<1>3. QED
  BY <1>1, <1>2

LEMMA TailInOrder ==
  ASSUME NEW refreshed \in Nat, NEW channel, InOrder(channel, refreshed), channel # <<>>
  PROVE  InOrder(Tail(channel), refreshed)
<1> USE DEF InOrder
<1> DEFINE new == Tail(channel)
<1>1. new \in Seq(Streaming!Snapshots) /\ Len(new) = Len(channel) - 1 /\ Len(channel) \in Nat
  OBVIOUS
<1>2. \A i \in DOMAIN new : i \in Nat /\ i + 1 \in DOMAIN channel /\ new[i] = channel[i + 1]
  OBVIOUS
<1> HIDE DEF new
<1>3. Len(new) <= ChannelSize
  BY <1>1, StreamConstants
<1>4. \A i \in DOMAIN new : new[i].number <= refreshed
  BY <1>2
<1>5. \A i, j \in DOMAIN new :
        i < j /\ new[i].number > new[j].number => new[j].by # Streaming!Nobody
  BY <1>2
<1>6. QED
  BY <1>1, <1>3, <1>4, <1>5 DEF new

LEMMA LaterInOrder ==
  ASSUME NEW channel, NEW refreshed \in Nat, InOrder(channel, refreshed)
  PROVE  InOrder(channel, refreshed + 1)
<1>1. \A i \in DOMAIN channel : channel[i].number \in Nat /\ channel[i].number <= refreshed
  BY SnapshotTyped DEF InOrder
<1>2. QED
  BY <1>1 DEF InOrder

LEMMA StreamInit == Streaming!Init => StreamInv
<1> SUFFICES ASSUME Streaming!Init PROVE StreamInv
  OBVIOUS
<1> USE StreamConstants DEF Streaming!Init
<1>1. Streaming!First \in Streaming!Snapshots /\ Streaming!First.number = 0 /\ Streaming!First.busy = FALSE
  BY DEF Streaming!First, Streaming!Snapshot, Streaming!Snapshots
<1>2. StreamTypes
  BY <1>1 DEF StreamTypes, StreamPlaces
<1>3. MutexInv
  BY DEF MutexInv, Streaming!Refreshers
<1>4. HeldInv
  BY <1>1 DEF HeldInv, Streaming!Refreshers
<1>5. ChannelInv
  <2>1. InOrder(<<>>, 0)
    BY DEF InOrder
  <2>2. QED
    BY <2>1 DEF ChannelInv
<1>6. IdleInv
  BY <1>1 DEF IdleInv
<1>7. Streaming!OneOperation
  BY DEF Streaming!OneOperation, Streaming!Refreshers
<1>8. QED
  BY <1>2, <1>3, <1>4, <1>5, <1>6, <1>7 DEF StreamInv

LEMMA StreamStart ==
  ASSUME StreamInv, NEW r \in Streaming!Refreshers, Streaming!Start(r)
  PROVE  StreamInv'
<1>0. StreamTypes /\ MutexInv /\ HeldInv /\ ChannelInv /\ IdleInv /\ Streaming!OneOperation
  BY DEF StreamInv
<1>1. /\ dash' = [dash EXCEPT !.mutex = r, !.busy = dash.operation # Streaming!Nobody,
                              !.pc[r] = "asking", !.refreshed = dash.refreshed + 1]
      /\ dash.mutex = Streaming!Nobody /\ dash.refreshed < Refreshes
      /\ dash.pc[r] = IF r = Poller THEN "idle" ELSE "refresh"
  BY <1>0, Zenon DEF Streaming!Start, Streaming!At, Streaming!Readable, Streaming!Busy
<1>2. dash.refreshed + 1 \in 0 .. Refreshes /\ dash.refreshed \in Nat
  BY <1>0, <1>1, StreamConstants DEF StreamTypes
<1>3. (dash.operation # Streaming!Nobody) \in BOOLEAN
  BY Zenon
<1>4. StreamTypes'
  BY <1>0, <1>1, <1>2, <1>3 DEF StreamTypes, StreamPlaces
<1>5. MutexInv'
  BY <1>0, <1>1, StreamConstants DEF StreamTypes, MutexInv, Streaming!Refreshers
<1>6. HeldInv'
  BY <1>0, <1>1, StreamConstants, SnapshotTyped DEF StreamTypes, HeldInv, Streaming!Refreshers
<1>7. ChannelInv'
  BY <1>0, <1>1, <1>2, LaterInOrder DEF StreamTypes, ChannelInv
<1>8. IdleInv'
  BY <1>0, <1>1, StreamConstants DEF StreamTypes, IdleInv, Streaming!Refreshers
<1>9. Streaming!OneOperation'
  BY <1>0, <1>1, StreamConstants DEF StreamTypes, Streaming!OneOperation, Streaming!Refreshers
<1>10. QED
  BY <1>4, <1>5, <1>6, <1>7, <1>8, <1>9 DEF StreamInv

\* What a broadcast does to the channels.
LEMMA BroadcastInOrder ==
  ASSUME StreamInv, NEW snapshot \in Streaming!Snapshots, snapshot.number <= dash.refreshed,
         snapshot.by = Streaming!Nobody => snapshot.number = dash.refreshed
  PROVE  \A s \in Streams : InOrder(IF dash.stream[s] = "none" THEN dash.channel[s]
                                    ELSE Streaming!Offer(dash.channel[s], snapshot), dash.refreshed)
<1>1. dash.refreshed \in Nat
  BY StreamConstants DEF StreamInv, StreamTypes
<1>2. \A s \in Streams : InOrder(dash.channel[s], dash.refreshed)
  BY DEF StreamInv, ChannelInv
<1>3. \A s \in Streams : InOrder(Streaming!Offer(dash.channel[s], snapshot), dash.refreshed)
  BY <1>1, <1>2, OfferInOrder
<1>4. QED
  BY <1>2, <1>3

LEMMA StreamFinish ==
  ASSUME StreamInv, NEW r \in Streaming!Refreshers, Streaming!Finish(r)
  PROVE  StreamInv'
<1>0. StreamTypes /\ MutexInv /\ HeldInv /\ ChannelInv /\ IdleInv /\ Streaming!OneOperation
  BY DEF StreamInv
<1> DEFINE snapshot == [number |-> dash.refreshed, busy |-> dash.busy, by |-> Streaming!Nobody]
           channel == [s \in Streams |-> IF dash.stream[s] = "none" THEN dash.channel[s]
                                         ELSE Streaming!Offer(dash.channel[s], snapshot)]
<1>1. snapshot \in Streaming!Snapshots
  <2>1. dash.refreshed \in 0 .. Refreshes /\ dash.busy \in BOOLEAN
    BY <1>0 DEF StreamTypes
  <2>2. QED
    BY <2>1 DEF Streaming!Snapshots
<1>2. snapshot.number = dash.refreshed /\ snapshot.by = Streaming!Nobody /\ snapshot.busy = dash.busy
  OBVIOUS
<1>3. dash' = [dash EXCEPT !.mutex = Streaming!Nobody, !.last = snapshot,
                           !.pc[r] = IF r = Poller THEN "idle" ELSE "unlock",
                           !.sent = snapshot, !.channel = channel]
  <2>1. dash' = Streaming!Broadcast(Streaming!Refreshed(r), Streaming!Refreshed(r).last)
    BY DEF Streaming!Finish
  <2>2. Streaming!Refreshed(r) = [dash EXCEPT !.mutex = Streaming!Nobody, !.last = snapshot,
                           !.pc[r] = IF r = Poller THEN "idle" ELSE "unlock"]
    BY Zenon DEF Streaming!Refreshed, Streaming!Snapshot
  <2>3. Streaming!Refreshed(r).last = snapshot /\ Streaming!Refreshed(r).channel = dash.channel
    BY <1>0, <2>2 DEF StreamTypes
  <2>4. dash' = [Streaming!Refreshed(r) EXCEPT !.sent = snapshot, !.channel = channel]
    BY <2>1, <2>3 DEF Streaming!Broadcast
  <2>5. QED
    BY <2>2, <2>4, Zenon
<1>4. dash.pc[r] = "asking"
  BY DEF Streaming!Finish, Streaming!At
<1>5. dash.refreshed \in Nat
  BY <1>0, StreamConstants DEF StreamTypes
<1> HIDE DEF snapshot
<1>6. \A s \in Streams : InOrder(channel[s], dash.refreshed)
  <2>1. snapshot.number <= dash.refreshed
    BY <1>2, <1>5
  <2>2. QED
    BY <1>1, <1>2, <2>1, BroadcastInOrder
<1>7. channel \in [Streams -> Seq(Streaming!Snapshots)]
  BY <1>6 DEF InOrder
<1> HIDE DEF channel
<1>8. StreamTypes'
  BY <1>0, <1>1, <1>3, <1>7 DEF StreamTypes, StreamPlaces
<1>9. MutexInv'
  BY <1>0, <1>3, <1>4, StreamConstants DEF StreamTypes, MutexInv, Streaming!Refreshers
<1>10. HeldInv'
  BY <1>0, <1>2, <1>3, <1>4, <1>5, StreamConstants DEF StreamTypes, HeldInv, Streaming!Refreshers
<1>11. ChannelInv'
  BY <1>0, <1>3, <1>6 DEF StreamTypes, ChannelInv
<1>12. IdleInv'
  <2>1. dash.mutex = r
    BY <1>0, <1>4 DEF MutexInv
  <2>2. r \in Handlers => dash.operation = r
    BY <1>0, <1>4 DEF Streaming!OneOperation
  <2>3. QED
    BY <1>0, <1>2, <1>3, <1>4, <2>1, <2>2, StreamConstants
    DEF StreamTypes, IdleInv, Streaming!Refreshers
<1>13. Streaming!OneOperation'
  BY <1>0, <1>3, <1>4, StreamConstants DEF StreamTypes, Streaming!OneOperation, Streaming!Refreshers
<1>14. QED
  BY <1>8, <1>9, <1>10, <1>11, <1>12, <1>13 DEF StreamInv

LEMMA StreamOperation ==
  ASSUME StreamInv, NEW h \in Handlers,
         Streaming!TryLockOperation(h) \/ Streaming!Operate(h) \/ Streaming!Unlock(h)
  PROVE  StreamInv'
<1>0. StreamTypes /\ MutexInv /\ HeldInv /\ ChannelInv /\ IdleInv /\ Streaming!OneOperation
  BY DEF StreamInv
<1>1. CASE Streaming!TryLockOperation(h)
  <2> DEFINE operated == dash.operated + 1
  <2>1. dash.pc[h] = "idle" /\ operated \in Nat
    BY <1>0, <1>1 DEF Streaming!TryLockOperation, Streaming!At, StreamTypes
  <2>2. CASE dash.operation # Streaming!Nobody
    <3>1. dash' = [dash EXCEPT !.operated = operated]
      BY <1>1, <2>2, Zenon DEF Streaming!TryLockOperation, Streaming!Busy
    <3> HIDE DEF operated
    <3>2. StreamTypes'
      BY <1>0, <2>1, <3>1 DEF StreamTypes
    <3>3. MutexInv' /\ HeldInv' /\ ChannelInv' /\ Streaming!OneOperation'
      BY <1>0, <3>1 DEF StreamTypes, MutexInv, HeldInv, ChannelInv, Streaming!OneOperation
    <3>4. IdleInv'
      BY <1>0, <3>1 DEF StreamTypes, IdleInv
    <3>5. QED
      BY <3>2, <3>3, <3>4 DEF StreamInv
  <2>3. CASE dash.operation = Streaming!Nobody
    <3>1. dash' = [dash EXCEPT !.operated = operated, !.operation = h, !.pc[h] = "locked"]
      BY <1>1, <2>3, Zenon DEF Streaming!TryLockOperation, Streaming!Busy
    <3> HIDE DEF operated
    <3>2. StreamTypes'
      BY <1>0, <2>1, <3>1 DEF StreamTypes, StreamPlaces, Streaming!Refreshers
    <3>3. MutexInv'
      BY <1>0, <2>1, <3>1, StreamConstants DEF StreamTypes, MutexInv, Streaming!Refreshers
    <3>4. HeldInv' /\ ChannelInv'
      BY <1>0, <2>1, <3>1, StreamConstants
      DEF StreamTypes, HeldInv, ChannelInv, Streaming!Refreshers
    <3>5. IdleInv'
      BY <1>0, <3>1, StreamConstants DEF StreamTypes, IdleInv
    <3>6. Streaming!OneOperation'
      BY <1>0, <2>3, <3>1, StreamConstants
      DEF StreamTypes, Streaming!OneOperation, Streaming!Refreshers
    <3>7. QED
      BY <3>2, <3>3, <3>4, <3>5, <3>6 DEF StreamInv
  <2>4. QED
    BY <2>2, <2>3
<1>2. CASE Streaming!Operate(h)
  <2>1. PICK place \in {"refresh", "unlock"} : dash' = [dash EXCEPT !.pc[h] = place]
    BY <1>2 DEF Streaming!Operate
  <2>2. dash.pc[h] = "operating"
    BY <1>2 DEF Streaming!Operate, Streaming!At
  <2>3. StreamTypes'
    BY <1>0, <2>1 DEF StreamTypes, StreamPlaces, Streaming!Refreshers
  <2>4. MutexInv' /\ HeldInv' /\ ChannelInv' /\ Streaming!OneOperation'
    BY <1>0, <2>1, <2>2, StreamConstants
    DEF StreamTypes, MutexInv, HeldInv, ChannelInv, Streaming!OneOperation, Streaming!Refreshers
  <2>5. IdleInv'
    BY <1>0, <2>1, <2>2, StreamConstants
    DEF StreamTypes, IdleInv, Streaming!OneOperation, Streaming!Refreshers
  <2>6. QED
    BY <2>3, <2>4, <2>5 DEF StreamInv
<1>3. CASE Streaming!Unlock(h)
  <2>1. dash' = [dash EXCEPT !.operation = Streaming!Nobody, !.released = h, !.pc[h] = "unlocked"]
        /\ dash.pc[h] = "unlock"
    BY <1>3 DEF Streaming!Unlock, Streaming!At
  <2>2. StreamTypes'
    BY <1>0, <2>1 DEF StreamTypes, StreamPlaces, Streaming!Refreshers
  <2>3. MutexInv' /\ HeldInv' /\ ChannelInv' /\ Streaming!OneOperation'
    BY <1>0, <2>1, StreamConstants
    DEF StreamTypes, MutexInv, HeldInv, ChannelInv, Streaming!OneOperation, Streaming!Refreshers
  <2>4. IdleInv'
    BY <1>0, <2>1, StreamConstants DEF StreamTypes, IdleInv, Streaming!Refreshers
  <2>5. QED
    BY <2>2, <2>3, <2>4 DEF StreamInv
<1>4. QED
  BY <1>1, <1>2, <1>3

LEMMA StreamRead ==
  ASSUME StreamInv, NEW h \in Handlers,
         \/ Streaming!ReadSnapshot(h, "locked", "sendLocked")
         \/ Streaming!ReadSnapshot(h, "unlocked", "sendUnlocked")
  PROVE  StreamInv'
<1>0. StreamTypes /\ MutexInv /\ HeldInv /\ ChannelInv /\ IdleInv /\ Streaming!OneOperation
  BY DEF StreamInv
<1> DEFINE snapshot == [dash.last EXCEPT !.busy = dash.operation # Streaming!Nobody, !.by = h]
<1>1. snapshot \in Streaming!Snapshots
  <2>1. (dash.operation # Streaming!Nobody) \in BOOLEAN
    BY Zenon
  <2>2. QED
    BY <1>0, <2>1 DEF StreamTypes, Streaming!Snapshots
<1>2. snapshot.by = h /\ snapshot.number = dash.last.number
      /\ (snapshot.busy <=> dash.operation # Streaming!Nobody)
  BY <1>0 DEF StreamTypes, Streaming!Snapshots
<1>3. PICK from \in {"locked", "unlocked"}, to \in {"sendLocked", "sendUnlocked"} :
        /\ from = "locked" <=> to = "sendLocked"
        /\ dash.pc[h] = from /\ dash.mutex = Streaming!Nobody
        /\ dash' = [dash EXCEPT !.pc[h] = to, !.held[h] = snapshot]
  BY Zenon DEF Streaming!ReadSnapshot, Streaming!At, Streaming!Readable, Streaming!Busy
<1> HIDE DEF snapshot
<1>4. StreamTypes'
  BY <1>0, <1>1, <1>3, ZenonT(60) DEF StreamTypes, StreamPlaces, Streaming!Refreshers
<1>5. MutexInv' /\ ChannelInv' /\ Streaming!OneOperation'
  BY <1>0, <1>3, StreamConstants
  DEF StreamTypes, MutexInv, ChannelInv, Streaming!OneOperation, Streaming!Refreshers
<1>6. HeldInv'
  BY <1>0, <1>2, <1>3, StreamConstants DEF StreamTypes, HeldInv, Streaming!Refreshers
<1>7. IdleInv'
  BY <1>0, <1>2, <1>3, StreamConstants DEF StreamTypes, IdleInv, Streaming!Refreshers
<1>8. QED
  BY <1>4, <1>5, <1>6, <1>7 DEF StreamInv

LEMMA StreamSend ==
  ASSUME StreamInv, NEW h \in Handlers,
         \/ Streaming!SendSnapshot(h, "sendLocked", "operating")
         \/ Streaming!SendSnapshot(h, "sendUnlocked", "idle")
  PROVE  StreamInv'
<1>0. StreamTypes /\ MutexInv /\ HeldInv /\ ChannelInv /\ IdleInv /\ Streaming!OneOperation
  BY DEF StreamInv
<1> DEFINE snapshot == dash.held[h]
           channel == [s \in Streams |-> IF dash.stream[s] = "none" THEN dash.channel[s]
                                         ELSE Streaming!Offer(dash.channel[s], snapshot)]
<1>1. PICK from \in {"sendLocked", "sendUnlocked"}, to \in {"operating", "idle"} :
        /\ from = "sendLocked" <=> to = "operating"
        /\ dash.pc[h] = from
        /\ dash' = Streaming!Broadcast([dash EXCEPT !.pc[h] = to], snapshot)
  BY Zenon DEF Streaming!SendSnapshot, Streaming!At
<1>1a. dash.pc[h] = from /\ (from = "sendLocked" <=> to = "operating")
  BY <1>1
<1>2. dash' = [dash EXCEPT !.pc[h] = to, !.sent = snapshot, !.channel = channel]
  <2>1. [dash EXCEPT !.pc[h] = to].channel = dash.channel
    BY <1>0 DEF StreamTypes
  <2>2. dash' = [[dash EXCEPT !.pc[h] = to] EXCEPT !.sent = snapshot, !.channel = channel]
    BY <1>1, <2>1 DEF Streaming!Broadcast
  <2>3. QED
    BY <2>2, Zenon
<1>3. /\ snapshot \in Streaming!Snapshots /\ snapshot.by = h /\ snapshot.number <= dash.refreshed
      /\ snapshot.by # Streaming!Nobody
  BY <1>0, <1>1, StreamConstants DEF StreamTypes, HeldInv
<1>4. \A s \in Streams : InOrder(channel[s], dash.refreshed)
  BY <1>3, BroadcastInOrder
<1>5. channel \in [Streams -> Seq(Streaming!Snapshots)]
  BY <1>4 DEF InOrder
<1> HIDE DEF channel
<1>6. StreamTypes'
  BY <1>0, <1>2, <1>3, <1>5 DEF StreamTypes, StreamPlaces, Streaming!Refreshers
<1>7. MutexInv' /\ Streaming!OneOperation'
  BY <1>0, <1>1a, <1>2, StreamConstants
  DEF StreamTypes, MutexInv, Streaming!OneOperation, Streaming!Refreshers
<1>8. HeldInv' /\ ChannelInv'
  BY <1>0, <1>1a, <1>2, <1>4, StreamConstants
  DEF StreamTypes, HeldInv, ChannelInv, Streaming!Refreshers
<1>9. IdleInv'
  BY <1>0, <1>1a, <1>2, <1>3, StreamConstants
  DEF StreamTypes, IdleInv, Streaming!OneOperation, Streaming!Refreshers
<1>10. QED
  BY <1>6, <1>7, <1>8, <1>9 DEF StreamInv

\* The steps of a stream touch its own channel only.
LEMMA StreamSteps ==
  ASSUME StreamInv, NEW s \in Streams,
         \/ Streaming!Subscribe(s) \/ Streaming!ReadCurrent(s) \/ Streaming!SendCurrent(s)
         \/ Streaming!Receive(s) \/ Streaming!Unsubscribe(s)
  PROVE  StreamInv'
<1>0. StreamTypes /\ MutexInv /\ HeldInv /\ ChannelInv /\ IdleInv /\ Streaming!OneOperation
  BY DEF StreamInv
<1>1. dash.refreshed \in Nat /\ InOrder(dash.channel[s], dash.refreshed)
  BY <1>0, StreamConstants DEF StreamTypes, ChannelInv
<1>2. PICK place \in {"none", "joining", "sending", "open"}, held \in Streaming!Snapshots,
           channel \in Seq(Streaming!Snapshots) :
        /\ dash' = [dash EXCEPT !.stream[s] = place, !.held[s] = held, !.channel[s] = channel]
        /\ held.number <= dash.refreshed
        /\ place = "sending" => held.by = s
        /\ InOrder(channel, dash.refreshed)
  <2>1. CASE Streaming!Subscribe(s)
    <3>1. dash' = [dash EXCEPT !.stream[s] = "joining", !.held[s] = dash.held[s], !.channel[s] = dash.channel[s]]
      BY <1>0, <2>1 DEF Streaming!Subscribe, StreamTypes
    <3>2. QED
      BY <1>0, <1>1, <3>1 DEF StreamTypes, HeldInv
  <2>2. CASE Streaming!ReadCurrent(s)
    <3> DEFINE held == [dash.last EXCEPT !.by = s]
    <3>1. held \in Streaming!Snapshots /\ held.by = s /\ held.number = dash.last.number
      BY <1>0 DEF StreamTypes, Streaming!Snapshots
    <3> HIDE DEF held
    <3>2. dash' = [dash EXCEPT !.stream[s] = "sending", !.held[s] = held, !.channel[s] = dash.channel[s]]
      <4>1. dash' = [dash EXCEPT !.stream[s] = "sending", !.held[s] = held]
        BY <2>2 DEF Streaming!ReadCurrent, held
      <4>2. QED
        BY <1>0, <4>1 DEF StreamTypes
    <3>3. QED
      BY <1>0, <1>1, <3>1, <3>2 DEF StreamTypes, HeldInv
  <2>3. CASE Streaming!SendCurrent(s)
    <3> DEFINE channel == Streaming!Offer(dash.channel[s], dash.held[s])
    <3>1. dash' = [dash EXCEPT !.stream[s] = "open", !.held[s] = Streaming!First, !.channel[s] = channel]
      <4>1. dash' = [dash EXCEPT !.stream[s] = "open", !.channel[s] = channel, !.held[s] = Streaming!First]
        BY <2>3 DEF Streaming!SendCurrent
      <4>2. QED
        BY <1>0, <4>1 DEF StreamTypes
    <3>2. Streaming!First \in Streaming!Snapshots /\ Streaming!First.number = 0
      BY StreamConstants DEF Streaming!First, Streaming!Snapshot, Streaming!Snapshots
    <3>3. /\ dash.held[s] \in Streaming!Snapshots /\ dash.held[s].number <= dash.refreshed
          /\ dash.held[s].by # Streaming!Nobody
      BY <1>0, <2>3, StreamConstants DEF StreamTypes, HeldInv, Streaming!SendCurrent
    <3>4. InOrder(channel, dash.refreshed)
      BY <1>1, <3>3, OfferInOrder
    <3>5. channel \in Seq(Streaming!Snapshots)
      BY <3>4 DEF InOrder
    <3>6. Streaming!First.number <= dash.refreshed
      BY <1>1, <3>2
    <3> HIDE DEF channel
    <3>7. QED
      BY <3>1, <3>2, <3>4, <3>5, <3>6
  <2>4. CASE Streaming!Receive(s)
    <3> DEFINE channel == Tail(dash.channel[s])
    <3>1. dash' = [dash EXCEPT !.stream[s] = "open", !.held[s] = dash.held[s], !.channel[s] = channel]
      BY <1>0, <2>4 DEF Streaming!Receive, StreamTypes
    <3>2. InOrder(channel, dash.refreshed)
      BY <1>1, <2>4, TailInOrder DEF Streaming!Receive
    <3>3. channel \in Seq(Streaming!Snapshots)
      BY <3>2 DEF InOrder
    <3> HIDE DEF channel
    <3>4. QED
      BY <1>0, <1>1, <3>1, <3>2, <3>3, ZenonT(60) DEF StreamTypes, HeldInv
  <2>5. CASE Streaming!Unsubscribe(s)
    <3>1. dash' = [dash EXCEPT !.stream[s] = "none", !.held[s] = dash.held[s], !.channel[s] = <<>>]
      BY <1>0, <2>5 DEF Streaming!Unsubscribe, StreamTypes
    <3>2. InOrder(<<>>, dash.refreshed) /\ <<>> \in Seq(Streaming!Snapshots)
      BY <1>1, StreamConstants DEF InOrder
    <3>3. QED
      BY <1>0, <1>1, <3>1, <3>2 DEF StreamTypes, HeldInv
  <2>6. QED
    BY <2>1, <2>2, <2>3, <2>4, <2>5
<1>3. s \notin Handlers
  BY StreamConstants
<1>4. StreamTypes'
  BY <1>0, <1>2 DEF StreamTypes
<1>5. MutexInv' /\ Streaming!OneOperation'
  BY <1>0, <1>2 DEF StreamTypes, MutexInv, Streaming!OneOperation
<1>6. HeldInv' /\ ChannelInv'
  BY <1>0, <1>2, <1>3 DEF StreamTypes, HeldInv, ChannelInv
<1>7. IdleInv'
  BY <1>0, <1>2, <1>3 DEF StreamTypes, IdleInv
<1>8. QED
  BY <1>4, <1>5, <1>6, <1>7 DEF StreamInv

LEMMA StreamIInv == Streaming!Spec => []StreamInv
<1>1. StreamInv /\ [Streaming!Next]_dash => StreamInv'
  <2> SUFFICES ASSUME StreamInv, [Streaming!Next]_dash PROVE StreamInv'
    OBVIOUS
  <2>1. CASE Streaming!Next
    BY <2>1, StreamStart, StreamFinish, StreamOperation, StreamRead, StreamSend, StreamSteps
    DEF Streaming!Next, Streaming!Notify
  <2>2. CASE UNCHANGED dash
    BY <2>2
    DEF StreamInv, StreamTypes, MutexInv, HeldInv, ChannelInv, IdleInv, Streaming!OneOperation
  <2>3. QED
    BY <2>1, <2>2
<1>2. QED
  BY StreamInit, <1>1, PTL DEF Streaming!Spec

LEMMA StreamsImplemented == Spec => Streaming!Spec
<1>1. Init => Streaming!Init
  BY DEF Init
<1>2. [Next]_vars => [Streaming!Next]_dash
  BY DEF Next, vars, StreamsNext, WatchNext, OperationsNext, StoresNext, AccessNext, ControlNext
<1>3. QED
  BY <1>1, <1>2, PTL DEF Spec, Streaming!Spec

(* state: any number of refreshes, operations and streams send the          *)
(* snapshots of the refreshes in their order, and what was sent last, once  *)
(* all is quiet, shows no operation that is over.                           *)
THEOREM StreamsAreRight == Spec => []StreamsEndUpRight
<1>1. StreamInv => StreamsEndUpRight
  <2> SUFFICES ASSUME StreamInv PROVE StreamsEndUpRight
    OBVIOUS
  <2>1. Streaming!RefreshesInOrder
    BY DEF StreamInv, ChannelInv, InOrder, Streaming!RefreshesInOrder
  <2>2. Streaming!LastSentTellsIdle
    BY StreamConstants DEF StreamInv, IdleInv, Streaming!LastSentTellsIdle, Streaming!Busy,
       Streaming!At, Streaming!Refreshers
  <2>3. QED
    BY <2>1, <2>2 DEF StreamsEndUpRight
<1>2. QED
  BY StreamsImplemented, StreamIInv, <1>1, PTL

-----------------------------------------------------------------------------
(* EngineWatch.                                                              *)

Addresses == {e.ip : e \in Engines} \cup {Watch!NoIP}
Statuses == {e.status : e \in Engines} \cup {"none"}

WatchTypes ==
    watch \in [engine : Engines, carried : Nat, asking : {"none", "status", "dns", "ip", "port", "ready"},
               read : [status : Statuses, dns : BOOLEAN, ip : Addresses, port : Nat],
               state : {"unknown", "error", "disconnected", "connecting", "connected", "degraded"},
               since : BOOLEAN, reconnections : Nat, ip : Addresses, port : Nat,
               lastRx : Nat, rate : Nat, ips : Seq(Addresses \X Addresses), ports : Seq(Nat \X Nat),
               refreshed : Nat, changed : Nat, stops : Nat, moved : Nat, real : Nat]

\* A connection that goes on has been counted.
CountInv == watch.reconnections <= watch.stops + (IF watch.since THEN 1 ELSE 0)

\* Nothing is known before the first change.
StoryInv ==
    /\ Watch!HistoryIsAChain
    /\ watch.ip = Watch!NoIP => watch.ips = <<>>
    /\ watch.port = 0 => watch.ports = <<>>

\* What the counter has gained since it was read was carried since.
TrafficInv == watch.carried <= watch.lastRx + watch.moved /\ Watch!NoPhantomTraffic

WatchInv == WatchTypes /\ CountInv /\ StoryInv /\ TrafficInv

LEMMA ChainGrows ==
  ASSUME NEW S, NEW events \in Seq(S \X S), NEW old \in S, NEW new \in S, new # old,
         Watch!IsChain(events, old)
  PROVE  /\ Watch!IsChain(Append(events, <<old, new>>), new)
         /\ Append(events, <<old, new>>) \in Seq(S \X S)
         /\ Append(events, <<old, new>>) # <<>>
         /\ Append(events, <<old, new>>)[1] = IF events = <<>> THEN <<old, new>> ELSE events[1]
<1> DEFINE more == Append(events, <<old, new>>)
<1>1. /\ more \in Seq(S \X S) /\ Len(more) = Len(events) + 1 /\ Len(events) \in Nat
      /\ DOMAIN more = 1 .. Len(events) + 1 /\ DOMAIN events = 1 .. Len(events)
      /\ events # <<>> => Len(events) > 0
  OBVIOUS
<1>2. \A i \in 1 .. Len(events) : more[i] = events[i]
  OBVIOUS
<1>3. more[Len(events) + 1] = <<old, new>>
  OBVIOUS
<1>4. more # <<>> /\ more[1] = IF events = <<>> THEN <<old, new>> ELSE events[1]
  BY <1>1, <1>2, <1>3
<1> HIDE DEF more
<1>5. \A i \in 1 .. Len(more) - 1 : more[i][2] = more[i + 1][1]
  <2> SUFFICES ASSUME NEW i \in 1 .. Len(events) PROVE more[i][2] = more[i + 1][1]
    BY <1>1
  <2>1. CASE i < Len(events)
    BY <1>1, <1>2, <2>1 DEF Watch!IsChain
  <2>2. CASE i = Len(events)
    BY <1>1, <1>2, <1>3, <2>2 DEF Watch!IsChain
  <2>3. i < Len(events) \/ i = Len(events)
    <3>1. Len(events) \in Nat
      BY <1>1
    <3>2. QED
      BY <3>1
  <2>4. QED
    BY <2>1, <2>2, <2>3, Zenon
<1>6. more[Len(more)][2] = new
  BY <1>1, <1>3
<1>7. \A i \in DOMAIN more : more[i][1] # more[i][2]
  <2> SUFFICES ASSUME NEW i \in 1 .. Len(events) + 1 PROVE more[i][1] # more[i][2]
    BY <1>1
  <2>1. CASE i \in 1 .. Len(events)
    BY <1>1, <1>2, <2>1 DEF Watch!IsChain
  <2>2. CASE i = Len(events) + 1
    BY <1>3, <2>2
  <2>3. i \in 1 .. Len(events) \/ i = Len(events) + 1
    BY <1>1
  <2>4. QED
    BY <2>1, <2>2, <2>3
<1>8. Watch!IsChain(more, new)
  BY <1>5, <1>6, <1>7 DEF Watch!IsChain
<1>9. QED
  BY <1>1, <1>4, <1>8 DEF more

LEMMA WatchInit == Watch!Init => WatchInv
<1> SUFFICES ASSUME Watch!Init PROVE WatchInv
  OBVIOUS
<1> USE DEF Watch!Init, Watch!Nothing
<1>1. WatchTypes
  BY DEF WatchTypes, Addresses, Statuses
<1>2. CountInv /\ TrafficInv
  BY DEF CountInv, TrafficInv, Watch!NoPhantomTraffic
<1>3. StoryInv
  BY DEF StoryInv, Watch!HistoryIsAChain, Watch!IsChain
<1>4. QED
  BY <1>1, <1>2, <1>3 DEF WatchInv

LEMMA WatchEngine ==
  ASSUME WatchInv, Watch!EngineChanges \/ Watch!Carry
  PROVE  WatchInv'
<1>0. WatchTypes /\ CountInv /\ StoryInv /\ TrafficInv
  BY DEF WatchInv
<1>1. CASE Watch!EngineChanges
  <2>1. PICK e \in Engines, carried \in Nat, changed \in Nat :
          /\ watch' = [watch EXCEPT !.engine = e, !.changed = changed, !.carried = carried]
          /\ carried <= watch.carried
    <3>1. PICK e \in Engines : watch' = [watch EXCEPT !.engine = e, !.changed = watch.changed + 1,
                           !.carried = IF e.status = watch.engine.status THEN watch.carried ELSE 0]
      BY <1>1, Zenon DEF Watch!EngineChanges
    <3>2. /\ watch.changed + 1 \in Nat /\ watch.carried \in Nat
          /\ 0 <= watch.carried /\ watch.carried <= watch.carried
      BY <1>0 DEF WatchTypes
    <3>3. CASE e.status = watch.engine.status
      BY <3>1, <3>2, <3>3, Zenon
    <3>4. CASE e.status # watch.engine.status
      BY <3>1, <3>2, <3>4
    <3>5. QED
      BY <3>3, <3>4
  <2>2. WatchTypes'
    BY <1>0, <2>1 DEF WatchTypes
  <2>3. CountInv' /\ TrafficInv'
    BY <1>0, <2>1, SMTT(30) DEF WatchTypes, CountInv, TrafficInv, Watch!NoPhantomTraffic
  <2>4. StoryInv'
    BY <1>0, <2>1 DEF WatchTypes, StoryInv, Watch!HistoryIsAChain
  <2>5. QED
    BY <2>2, <2>3, <2>4 DEF WatchInv
<1>2. CASE Watch!Carry
  <2> DEFINE carried == watch.carried + 1
             moved == watch.moved + 1
  <2>1. watch' = [watch EXCEPT !.carried = carried, !.moved = moved]
    BY <1>2, Zenon DEF Watch!Carry
  <2>2. carried \in Nat /\ moved \in Nat /\ carried <= watch.lastRx + moved
    <3>1. watch.carried \in Nat /\ watch.moved \in Nat /\ watch.lastRx \in Nat
      BY <1>0 DEF WatchTypes
    <3>2. watch.carried <= watch.lastRx + watch.moved
      BY <1>0, Zenon DEF TrafficInv
    <3>3. QED
      BY <3>1, <3>2
  <2> HIDE DEF carried, moved
  <2>3. WatchTypes'
    BY <1>0, <2>1, <2>2 DEF WatchTypes
  <2>4. CountInv' /\ TrafficInv'
    BY <1>0, <2>1, <2>2 DEF WatchTypes, CountInv, TrafficInv, Watch!NoPhantomTraffic
  <2>5. StoryInv'
    BY <1>0, <2>1 DEF WatchTypes, StoryInv, Watch!HistoryIsAChain
  <2>6. QED
    BY <2>3, <2>4, <2>5 DEF WatchInv
<1>3. QED
  BY <1>1, <1>2

\* A refresh that begins, ends without an answer, or gets one.
LEMMA WatchAnswer ==
  ASSUME WatchInv, 
         \/ Watch!Refresh \/ Watch!Unreachable \/ Watch!GetVPNStatus
         \/ Watch!GetDNSStatus \/ Watch!GetPublicIP \/ Watch!GetPortForwarded
  PROVE  WatchInv'
<1>0. WatchTypes /\ CountInv /\ StoryInv /\ TrafficInv
  BY DEF WatchInv
<1> DEFINE Read == [status : Statuses, dns : BOOLEAN, ip : Addresses, port : Nat]
           Places == {"none", "status", "dns", "ip", "port", "ready"}
           States == {"unknown", "error", "disconnected", "connecting", "connected", "degraded"}
<1>1. PICK asking \in Places, read \in Read, state \in States, refreshed \in Nat :
        watch' = [watch EXCEPT !.asking = asking, !.read = read, !.state = state, !.refreshed = refreshed]
  <2>1. watch.read \in Read /\ watch.state \in States /\ watch.refreshed \in Nat /\ watch.engine \in Engines
    BY <1>0 DEF WatchTypes
  <2>2. CASE Watch!Refresh
    <3>1. watch' = [watch EXCEPT !.asking = "status", !.read = Watch!Nothing,
                                 !.state = watch.state, !.refreshed = watch.refreshed]
      BY <1>0, <2>2 DEF Watch!Refresh, WatchTypes
    <3>2. Watch!Nothing \in Read
      BY DEF Watch!Nothing, Statuses, Addresses
    <3>3. QED
      BY <2>1, <3>1, <3>2
  <2>3. CASE Watch!Unreachable
    <3>1. watch' = [watch EXCEPT !.asking = "none", !.read = watch.read,
                                 !.state = "error", !.refreshed = watch.refreshed + 1]
      BY <1>0, <2>3 DEF Watch!Unreachable, WatchTypes
    <3>2. watch.refreshed + 1 \in Nat
      BY <2>1
    <3>3. QED
      BY <2>1, <3>1, <3>2
  <2>4. ASSUME NEW from, NEW to \in Places, NEW field, NEW values, Watch!Answer(from, to, field, values),
               \/ field = "status" /\ values \subseteq Statuses
               \/ field = "dns" /\ values \subseteq BOOLEAN
               \/ field = "ip" /\ values \subseteq Addresses
               \/ field = "port" /\ values \subseteq Nat
        PROVE  \E read \in Read : watch' = [watch EXCEPT !.asking = to, !.read = read,
                                       !.state = watch.state, !.refreshed = watch.refreshed]
    <3>1. PICK v \in values : watch' = [watch EXCEPT !.asking = to,
              !.read = [k \in DOMAIN watch.read |-> IF k = field THEN v ELSE watch.read[k]]]
      BY <2>4, Zenon DEF Watch!Answer
    <3> DEFINE read == [k \in DOMAIN watch.read |-> IF k = field THEN v ELSE watch.read[k]]
    <3>2. read \in Read
      <4>1. read = [status |-> IF field = "status" THEN v ELSE watch.read.status,
                    dns |-> IF field = "dns" THEN v ELSE watch.read.dns,
                    ip |-> IF field = "ip" THEN v ELSE watch.read.ip,
                    port |-> IF field = "port" THEN v ELSE watch.read.port]
        BY <2>1
      <4>2. QED
        BY <2>1, <2>4, <4>1
    <3> HIDE DEF read
    <3>3. watch' = [watch EXCEPT !.asking = to, !.read = read,
                                 !.state = watch.state, !.refreshed = watch.refreshed]
      BY <1>0, <3>1 DEF WatchTypes, read
    <3>4. QED
      BY <3>2, <3>3
  <2>5. \A e \in Engines : e.port \in Nat /\ e.dns \in BOOLEAN
    BY DEF DashboardAssumption, Watch!WatchConstants
  <2>6. CASE Watch!GetVPNStatus
    <3>1. {watch.engine.status} \subseteq Statuses
      BY <2>1 DEF Statuses
    <3>2. PICK read \in Read : watch' = [watch EXCEPT !.asking = "dns", !.read = read,
                                   !.state = watch.state, !.refreshed = watch.refreshed]
      BY <2>4, <2>6, <3>1, Zenon DEF Watch!GetVPNStatus
    <3>3. QED
      BY <2>1, <3>2, Zenon
  <2>7. CASE Watch!GetDNSStatus
    <3>1. {watch.engine.dns, TRUE} \subseteq BOOLEAN
      BY <2>1, <2>5
    <3>2. PICK to \in Places : to = IF watch.read.status = "running" THEN "ip" ELSE "ready"
      OBVIOUS
    <3>3. PICK read \in Read : watch' = [watch EXCEPT !.asking = to, !.read = read,
                                   !.state = watch.state, !.refreshed = watch.refreshed]
      BY <2>4, <2>7, <3>1, <3>2, Zenon DEF Watch!GetDNSStatus
    <3> HIDE DEF Places, Read, States
    <3>4. QED
      BY <2>1, <3>3
  <2>8. CASE Watch!GetPublicIP
    <3>1. {watch.engine.ip, Watch!NoIP} \subseteq Addresses
      BY <2>1 DEF Addresses
    <3>2. PICK read \in Read : watch' = [watch EXCEPT !.asking = "port", !.read = read,
                                   !.state = watch.state, !.refreshed = watch.refreshed]
      BY <2>4, <2>8, <3>1, Zenon DEF Watch!GetPublicIP
    <3>3. QED
      BY <2>1, <3>2, Zenon
  <2>9. CASE Watch!GetPortForwarded
    <3>1. {watch.engine.port, 0} \subseteq Nat
      BY <2>1, <2>5
    <3>2. PICK read \in Read : watch' = [watch EXCEPT !.asking = "ready", !.read = read,
                                   !.state = watch.state, !.refreshed = watch.refreshed]
      BY <2>4, <2>9, <3>1, Zenon DEF Watch!GetPortForwarded
    <3>3. QED
      BY <2>1, <3>2, Zenon
  <2>10. QED
    BY <2>2, <2>3, <2>6, <2>7, <2>8, <2>9
<1>2. WatchTypes'
  BY <1>0, <1>1, ZenonT(60) DEF WatchTypes
<1>3. CountInv' /\ TrafficInv'
  BY <1>0, <1>1 DEF WatchTypes, CountInv, TrafficInv, Watch!NoPhantomTraffic
<1>4. StoryInv'
  BY <1>0, <1>1 DEF WatchTypes, StoryInv, Watch!HistoryIsAChain
<1>5. QED
  BY <1>2, <1>3, <1>4 DEF WatchInv

LEMMA ConnectionCases ==
  ASSUME WatchTypes
  PROVE  /\ Watch!Up <=> watch.read.status = "running" /\ watch.read.ip # Watch!NoIP
         /\ Watch!ConnectionState = "disconnected" <=> watch.read.status = "stopped"
         /\ Watch!ConnectionState \in {"unknown", "disconnected", "connecting", "connected", "degraded"}
<1>1. watch.read.dns \in BOOLEAN
  BY DEF WatchTypes
<1>2. CASE watch.read.status = "stopped"
  <2>1. Watch!ConnectionState = "disconnected"
    BY <1>2, Zenon DEF Watch!ConnectionState
  <2>2. QED
    BY <1>2, <2>1 DEF Watch!Up
<1>3. CASE watch.read.status = "running" /\ watch.read.ip = Watch!NoIP
  <2>1. Watch!ConnectionState = "connecting"
    BY <1>3, Zenon DEF Watch!ConnectionState
  <2>2. QED
    BY <1>3, <2>1 DEF Watch!Up
<1>4. CASE watch.read.status = "running" /\ watch.read.ip # Watch!NoIP /\ ~watch.read.dns
  <2>1. Watch!ConnectionState = "degraded"
    BY <1>4, Zenon DEF Watch!ConnectionState
  <2>2. QED
    BY <1>4, <2>1 DEF Watch!Up
<1>5. CASE watch.read.status = "running" /\ watch.read.ip # Watch!NoIP /\ watch.read.dns
  <2>1. Watch!ConnectionState = "connected"
    BY <1>5, Zenon DEF Watch!ConnectionState
  <2>2. QED
    BY <1>5, <2>1 DEF Watch!Up
<1>6. CASE watch.read.status \notin {"running", "stopped"}
  <2>1. Watch!ConnectionState = "unknown"
    BY <1>6, Zenon DEF Watch!ConnectionState
  <2>2. QED
    BY <1>6, <2>1 DEF Watch!Up
<1>7. QED
  BY <1>1, <1>2, <1>3, <1>4, <1>5, <1>6

\* The changes of a field that is known from the first change on.
LEMMA ChangedIsChain ==
  ASSUME NEW S, NEW events \in Seq(S \X S), NEW old \in S, NEW new \in S, NEW none \in S,
         Watch!IsChain(events, old)
  PROVE  /\ Watch!Changed(events, old, new, none) \in Seq(S \X S)
         /\ Watch!IsChain(Watch!Changed(events, old, new, none), IF new = none THEN old ELSE new)
<1>1. CASE new = none \/ new = old
  BY <1>1 DEF Watch!Changed
<1>2. CASE ~(new = none \/ new = old)
  BY <1>2, ChainGrows DEF Watch!Changed
<1>3. QED
  BY <1>1, <1>2

LEMMA WatchConclude ==
  ASSUME WatchInv, Watch!Conclude
  PROVE  WatchInv'
<1>0. WatchTypes /\ CountInv /\ StoryInv /\ TrafficInv
  BY DEF WatchInv
<1> DEFINE sampled == Watch!Up /\ watch.engine.status = "running"
           rate == IF sampled THEN Watch!TrafficRate ELSE 0
           lastRx == IF sampled THEN watch.carried ELSE watch.lastRx
           real == IF sampled THEN watch.moved ELSE watch.real
           moved == IF sampled THEN 0 ELSE watch.moved
           refreshed == watch.refreshed + 1
           reconnections == IF Watch!IsReconnection THEN watch.reconnections + 1 ELSE watch.reconnections
           ip == IF watch.read.ip = Watch!NoIP THEN watch.ip ELSE watch.read.ip
           stops == IF Watch!ConnectionState = "disconnected" /\ watch.since THEN watch.stops + 1 ELSE watch.stops
           since == Watch!Since
           state == Watch!ConnectionState
           ips == Watch!IPChanges
           ports == Watch!PortChanges
           port == Watch!KnownPort
<1>1. watch' = [watch EXCEPT !.rate = rate, !.lastRx = lastRx, !.real = real, !.moved = moved,
                   !.asking = "none", !.refreshed = refreshed, !.state = state, !.since = since,
                   !.reconnections = reconnections, !.ips = ips, !.ports = ports,
                   !.ip = ip, !.port = port, !.stops = stops]
  <2>1. Watch!Sample(watch) = [watch EXCEPT !.rate = rate, !.lastRx = lastRx, !.real = real, !.moved = moved]
    <3>1. CASE sampled
      BY <3>1 DEF Watch!Sample
    <3>2. CASE ~sampled
      <4>1. Watch!Sample(watch) = [watch EXCEPT !.rate = 0]
        BY <3>2 DEF Watch!Sample
      <4>2. QED
        BY <1>0, <3>2, <4>1 DEF WatchTypes
    <3>3. QED
      BY <3>1, <3>2
  <2> DEFINE w == Watch!Sample(watch)
  <2>2. /\ w.refreshed = watch.refreshed /\ w.reconnections = watch.reconnections
        /\ w.ip = watch.ip /\ w.stops = watch.stops
    BY <1>0, <2>1 DEF WatchTypes
  <2>3. watch' = [w EXCEPT !.asking = "none", !.refreshed = refreshed, !.state = state, !.since = since,
                   !.reconnections = reconnections, !.ips = ips, !.ports = ports,
                   !.ip = ip, !.port = port, !.stops = stops]
    BY <2>2 DEF Watch!Conclude
  <2>4. QED
    BY <2>1, <2>3, Zenon
<1>2. /\ watch.since \in BOOLEAN /\ watch.engine \in Engines /\ watch.changed \in Nat
      /\ {watch.carried, watch.lastRx, watch.moved, watch.real, watch.rate, watch.port} \subseteq Nat
      /\ {watch.refreshed, watch.reconnections, watch.stops, watch.read.port} \subseteq Nat
      /\ {watch.ip, watch.read.ip, Watch!NoIP} \subseteq Addresses
      /\ watch.ips \in Seq(Addresses \X Addresses) /\ watch.ports \in Seq(Nat \X Nat)
  BY <1>0 DEF WatchTypes, Addresses
<1>3. /\ rate \in Nat /\ lastRx \in Nat /\ real \in Nat /\ moved \in Nat
      /\ lastRx + moved >= watch.carried /\ rate <= real
  <2>1. watch.carried <= watch.lastRx + watch.moved /\ watch.rate <= watch.real
    BY <1>0, Zenon DEF TrafficInv, Watch!NoPhantomTraffic
  <2>2. QED
    BY <1>2, <2>1, SMTT(30) DEF Watch!TrafficRate
<1>4. refreshed \in Nat /\ reconnections \in Nat /\ stops \in Nat /\ since \in BOOLEAN
  <2>1. since \in BOOLEAN
    BY Zenon DEF Watch!Since
  <2>2. watch.refreshed + 1 \in Nat /\ watch.reconnections + 1 \in Nat /\ watch.stops + 1 \in Nat
        /\ watch.reconnections \in Nat /\ watch.stops \in Nat
    BY <1>0, SMTT(30) DEF WatchTypes
  <2>3. QED
    BY <2>1, <2>2, Zenon
<1>5. reconnections <= stops + (IF since THEN 1 ELSE 0)
  <2>1. watch.reconnections <= watch.stops + (IF watch.since THEN 1 ELSE 0)
    BY <1>0, Zenon DEF CountInv
  <2>2. CASE Watch!Up
    BY <1>0, <1>2, <2>1, <2>2, ConnectionCases, SMTT(30) DEF Watch!Since, Watch!IsReconnection
  <2>3. CASE ~Watch!Up
    BY <1>0, <1>2, <2>1, <2>3, ConnectionCases DEF Watch!Since, Watch!IsReconnection
  <2>4. QED
    BY <2>2, <2>3
<1>6. /\ ips \in Seq(Addresses \X Addresses) /\ ip \in Addresses
      /\ Watch!IsChain(ips, ip)
      /\ ip = Watch!NoIP => ips = <<>>
  <2>1. Watch!IsChain(watch.ips, watch.ip) /\ (watch.ip = Watch!NoIP => watch.ips = <<>>)
    BY <1>0 DEF StoryInv, Watch!HistoryIsAChain
  <2>2. CASE watch.ip = Watch!NoIP
    BY <1>2, <2>1, <2>2 DEF Watch!IPChanges, Watch!IsChain
  <2>3. CASE watch.ip # Watch!NoIP
    BY <1>2, <2>1, <2>3, ChangedIsChain DEF Watch!IPChanges
  <2>4. QED
    BY <2>2, <2>3
<1>7. /\ ports \in Seq(Nat \X Nat) /\ port \in Nat
      /\ Watch!IsChain(ports, port)
      /\ port > 0 => ports # <<>> /\ ports[1][1] = 0
      /\ port = 0 => ports = <<>>
  <2>1. /\ Watch!IsChain(watch.ports, watch.port) /\ (watch.port = 0 => watch.ports = <<>>)
        /\ (watch.port > 0 => watch.ports # <<>> /\ watch.ports[1][1] = 0)
    BY <1>0 DEF StoryInv, Watch!HistoryIsAChain
  <2>2. port = IF watch.read.port = 0 THEN watch.port ELSE watch.read.port
    BY <1>2 DEF Watch!KnownPort
  <2>3. ports \in Seq(Nat \X Nat) /\ Watch!IsChain(ports, port)
    BY <1>2, <2>1, <2>2, ChangedIsChain DEF Watch!PortChanges
  <2>4. CASE watch.read.port = 0 \/ watch.read.port = watch.port
    BY <1>2, <2>1, <2>2, <2>4 DEF Watch!PortChanges, Watch!Changed
  <2>5. CASE ~(watch.read.port = 0 \/ watch.read.port = watch.port)
    <3>1. ports = Append(watch.ports, <<watch.port, watch.read.port>>) /\ port = watch.read.port
      BY <2>2, <2>5 DEF Watch!PortChanges, Watch!Changed
    <3>2. ports # <<>> /\ ports[1] = IF watch.ports = <<>> THEN <<watch.port, watch.read.port>> ELSE watch.ports[1]
      BY <1>2, <2>1, <2>5, <3>1, ChainGrows
    <3>3. ports[1][1] = 0
      <4>1. CASE watch.port = 0
        BY <2>1, <3>2, <4>1
      <4>2. CASE watch.port > 0
        BY <2>1, <3>2, <4>2
      <4>3. QED
        BY <1>2, <4>1, <4>2
    <3>4. QED
      BY <1>2, <2>3, <2>5, <3>1, <3>2, <3>3
  <2>6. QED
    BY <2>2, <2>3, <2>4, <2>5, <1>2
<1>8. state \in {"unknown", "disconnected", "connecting", "connected", "degraded"}
  BY <1>0, ConnectionCases
<1> HIDE DEF sampled, rate, lastRx, real, moved, refreshed, reconnections, ip, stops, since, state, ips, ports, port
<1>9. WatchTypes'
  <2>1. watch' = [engine |-> watch.engine, carried |-> watch.carried, asking |-> "none", read |-> watch.read,
                  state |-> state, since |-> since, reconnections |-> reconnections, ip |-> ip,
                  port |-> port, lastRx |-> lastRx, rate |-> rate, ips |-> ips, ports |-> ports,
                  refreshed |-> refreshed, changed |-> watch.changed, stops |-> stops, moved |-> moved,
                  real |-> real]
    BY <1>0, <1>1 DEF WatchTypes
  <2>2. /\ watch.engine \in Engines /\ watch.carried \in Nat /\ watch.changed \in Nat
        /\ watch.read \in [status : Statuses, dns : BOOLEAN, ip : Addresses, port : Nat]
    BY <1>0 DEF WatchTypes
  <2>3. QED
    BY <1>3, <1>4, <1>6, <1>7, <1>8, <2>1, <2>2 DEF WatchTypes
<1>10. CountInv' /\ TrafficInv'
  BY <1>0, <1>1, <1>3, <1>5 DEF WatchTypes, CountInv, TrafficInv, Watch!NoPhantomTraffic
<1>11. StoryInv'
  <2>1. watch'.ips = ips /\ watch'.ports = ports /\ watch'.ip = ip /\ watch'.port = port
    BY <1>0, <1>1 DEF WatchTypes
  <2>2. QED
    BY <1>6, <1>7, <2>1 DEF StoryInv, Watch!HistoryIsAChain
<1>12. QED
  BY <1>9, <1>10, <1>11 DEF WatchInv

LEMMA WatchIInv == Watch!Spec => []WatchInv
<1>1. WatchInv /\ [Watch!Next]_watch => WatchInv'
  <2> SUFFICES ASSUME WatchInv, [Watch!Next]_watch PROVE WatchInv'
    OBVIOUS
  <2>1. CASE Watch!Next
    BY <2>1, WatchEngine, WatchAnswer, WatchConclude DEF Watch!Next
  <2>2. CASE UNCHANGED watch
    BY <2>2 DEF WatchInv, WatchTypes, CountInv, StoryInv, TrafficInv, Watch!NoPhantomTraffic,
                Watch!HistoryIsAChain
  <2>3. QED
    BY <2>1, <2>2
<1>2. QED
  BY WatchInit, <1>1, PTL DEF Watch!Spec

LEMMA WatchImplemented == Spec => Watch!Spec
<1>1. Init => Watch!Init
  BY DEF Init
<1>2. [Next]_vars => [Watch!Next]_watch
  BY DEF Next, vars, StreamsNext, WatchNext, OperationsNext, StoresNext, AccessNext, ControlNext
<1>3. QED
  BY <1>1, <1>2, PTL DEF Spec, Watch!Spec

(* state: whatever the engine does between refreshes, its connections are   *)
(* counted once, its addresses and its ports make one story each, and no    *)
(* traffic is shown that did not flow.                                      *)
THEOREM EngineIsTold == Spec => []EngineIsToldRight
<1>1. WatchInv => EngineIsToldRight
  <2> SUFFICES ASSUME WatchInv PROVE EngineIsToldRight
    OBVIOUS
  <2>1. Watch!HistoryIsAChain /\ Watch!NoPhantomTraffic
    BY DEF WatchInv, StoryInv, TrafficInv
  <2>2. Watch!ConnectionsAreCountedOnce
    <3>1. watch.reconnections \in Nat /\ watch.stops \in Nat
      BY DEF WatchInv, WatchTypes
    <3>2. watch.reconnections <= watch.stops + (IF watch.since THEN 1 ELSE 0)
      BY Zenon DEF WatchInv, CountInv
    <3>3. QED
      BY <3>1, <3>2 DEF Watch!ConnectionsAreCountedOnce
  <2>3. QED
    BY <2>1, <2>2 DEF EngineIsToldRight
<1>2. QED
  BY WatchImplemented, WatchIInv, <1>1, PTL

-----------------------------------------------------------------------------
(* VPNOperations: the lock, the calls an operation is made of, and what is   *)
(* known of the engine when they are answered.                               *)

VPNTypes ==
    ops \in [pc : [Requests -> {"new", "conflict", "calling", "unlock", "over"}],
             kind : [Requests -> {"connect", "disconnect", "reconnect", "select"}],
             asks : [Requests -> VPN!Selection], lock : Requests \cup {VPN!Nobody},
             call : [Requests -> {"none", "stop", "start", "read", "write", "answered"}],
             copied : [Requests -> VPN!Selection], engine : VPN!Engine,
             history : [Requests -> {"nothing", "stopped", "done", "failed"}],
             faults : Nat, told : SUBSET VPN!Engine, overtaken : BOOLEAN]

\* A request that has not begun has asked for nothing, and the one that waits
\* for the engine has made the call that its operation is made of.
CallInv ==
    \A r \in Requests :
      /\ ops.pc[r] = "new" => ops.history[r] = "nothing" /\ ops.call[r] = "none"
      /\ ops.pc[r] = "calling" =>
           /\ ops.kind[r] = "connect" => ops.call[r] \in {"start", "answered"}
           /\ ops.kind[r] = "disconnect" => ops.call[r] \in {"stop", "answered"}
           /\ ops.kind[r] = "select" => ops.call[r] \in {"read", "write", "answered"}
           /\ ops.kind[r] = "reconnect" /\ ops.history[r] = "nothing" => ops.call[r] \in {"stop", "answered"}
           /\ ops.kind[r] = "reconnect" /\ ops.history[r] # "nothing" => ops.call[r] \in {"start", "answered"}

\* What an answered request knows of the engine is true, if no call of an
\* earlier request took effect in between.
AnswerInv ==
    \A r \in Requests :
      ops.pc[r] = "calling" /\ ops.call[r] = "answered" /\ ~ops.overtaken =>
        /\ ops.kind[r] = "disconnect" => ~ops.engine.running
        /\ ops.kind[r] = "connect" => ops.engine.running
        /\ ops.kind[r] = "reconnect" /\ ops.history[r] # "nothing" => ops.engine.running
        /\ ops.kind[r] = "select" => VPN!Override(ops.engine.selection, ops.asks[r]) = ops.engine.selection

ToldInv ==
    (\A r \in Requests : ops.pc[r] # "calling") => ops.told \subseteq {ops.engine}

VPNInv == VPNTypes /\ VPN!OneOperation /\ CallInv /\ AnswerInv /\ ToldInv

LEMMA VPNImplemented == Spec => VPN!Spec
<1>1. Init => VPN!Init
  BY DEF Init
<1>2. [Next]_vars => [VPN!Next]_ops
  BY DEF Next, vars, StreamsNext, WatchNext, OperationsNext, StoresNext, AccessNext, ControlNext
<1>3. QED
  BY <1>1, <1>2, PTL DEF Spec, VPN!Spec

LEMMA OverrideTyped ==
  ASSUME NEW old \in VPN!Selection, NEW new \in VPN!Selection
  PROVE  /\ VPN!Override(old, new) \in VPN!Selection
         /\ VPN!Override(VPN!Override(old, new), new) = VPN!Override(old, new)
BY DEF VPN!Override, VPN!Selection

LEMMA KnownCases ==
  ASSUME VPNTypes, NEW r \in Requests
  PROVE  /\ ops.kind[r] = "disconnect" => VPN!Known(r) = [ops.engine EXCEPT !.running = FALSE]
         /\ ops.kind[r] \in {"connect", "reconnect"} => VPN!Known(r) = [ops.engine EXCEPT !.running = TRUE]
         /\ ops.kind[r] = "select" =>
              VPN!Known(r) = [ops.engine EXCEPT !.selection = VPN!Override(@, ops.asks[r])]
<1>1. CASE ops.kind[r] = "disconnect"
  BY <1>1, Zenon DEF VPN!Known
<1>2. CASE ops.kind[r] \in {"connect", "reconnect"}
  BY <1>2, Zenon DEF VPN!Known
<1>3. CASE ops.kind[r] = "select"
  BY <1>3, Zenon DEF VPN!Known
<1>4. QED
  BY <1>1, <1>2, <1>3

\* Setting a field to the value it has changes nothing.
LEMMA EngineUnchanged ==
  ASSUME NEW e \in VPN!Engine
  PROVE  /\ \A b \in BOOLEAN : e.running = b => [e EXCEPT !.running = b] = e
         /\ \A s : e.selection = s => [e EXCEPT !.selection = s] = e
BY DEF VPN!Engine

\* The engine as a record.
LEMMA EngineFields ==
  ASSUME NEW e \in VPN!Engine, NEW b \in BOOLEAN, NEW s \in VPN!Selection
  PROVE  /\ [e EXCEPT !.running = b] = [running |-> b, selection |-> e.selection]
         /\ [e EXCEPT !.running = b, !.selection = s] = [running |-> b, selection |-> s]
<1>1. [e EXCEPT !.running = b] = [running |-> b, selection |-> e.selection]
  BY DEF VPN!Engine
<1>2. [e EXCEPT !.running = b, !.selection = s]
        = [[running |-> b, selection |-> e.selection] EXCEPT !.selection = s]
  BY <1>1, Zenon
<1>3. QED
  BY <1>1, <1>2

LEMMA VPNInitInv == VPN!Init => VPNInv
<1> SUFFICES ASSUME VPN!Init PROVE VPNInv
  OBVIOUS
<1>1. VPNTypes
  BY DEF VPN!Init, VPNTypes, VPN!NoFilter, VPN!Any, VPN!Selection, VPN!Engine, VPN!Nobody
<1>2. VPN!OneOperation /\ CallInv /\ AnswerInv /\ ToldInv
  BY DEF VPN!Init, VPN!OneOperation, CallInv, AnswerInv, ToldInv
<1>3. QED
  BY <1>1, <1>2 DEF VPNInv

LEMMA VPNLockInv ==
  ASSUME VPNInv, NEW r \in Requests, VPN!TryLockOperation(r)
  PROVE  VPNInv'
<1>0. VPNTypes /\ VPN!OneOperation /\ CallInv /\ AnswerInv /\ ToldInv
  BY DEF VPNInv
<1> USE <1>0
<1> USE DEF VPN!At
<1>1. PICK o \in VPN!Operations : ops' = IF ops.lock = VPN!Nobody THEN VPN!Locked(r, o[1], o[2])
                                         ELSE [ops EXCEPT !.pc[r] = "conflict"]
  BY DEF VPN!TryLockOperation
<1>2. o[1] \in {"connect", "disconnect", "reconnect", "select"} /\ o[2] \in VPN!Selection
  BY DEF VPN!Operations, VPN!NoFilter, VPN!Selection, VPN!Any
<1>3. ops.pc[r] = "new"
  BY DEF VPN!TryLockOperation
<1>4. CASE ops.lock = VPN!Nobody
  <2>1. ops' = [ops EXCEPT !.lock = r, !.pc[r] = "calling", !.kind[r] = o[1], !.asks[r] = o[2],
                !.call[r] = VPN!FirstCall(o[1]), !.overtaken = FALSE]
    BY <1>1, <1>4 DEF VPN!Locked
  <2>2. VPN!FirstCall(o[1]) = CASE o[1] = "connect" -> "start" [] o[1] = "select" -> "read" [] OTHER -> "stop"
    BY DEF VPN!FirstCall
  <2>3. VPNTypes'
    BY <2>1, <2>2, <1>2, ZenonT(60) DEF VPNTypes
  <2>4. \A q \in Requests : ops.pc[q] \notin {"calling", "unlock"}
    BY <1>4, DashboardAssumption DEF VPN!OneOperation, VPN!OperationsConstants
  <2>5. VPN!OneOperation' /\ CallInv'
    BY <2>1, <2>2, <2>4, <1>2, <1>3 DEF VPN!OneOperation, CallInv, VPNTypes
  <2>6. AnswerInv' /\ ToldInv'
    BY <2>1, <2>2, <2>4, <1>2 DEF AnswerInv, ToldInv, VPNTypes
  <2>7. QED
    BY <2>3, <2>5, <2>6 DEF VPNInv
<1>5. CASE ops.lock # VPN!Nobody
  <2>1. ops' = [ops EXCEPT !.pc[r] = "conflict"]
    BY <1>1, <1>5
  <2>2. VPNTypes' /\ VPN!OneOperation' /\ CallInv'
    BY <2>1, <1>3, SMTT(30) DEF VPNTypes, VPN!OneOperation, CallInv
  <2>3. AnswerInv'
    BY <2>1, <1>3 DEF VPNTypes, AnswerInv
  <2>4. ToldInv'
    BY <2>1, <1>3 DEF VPNTypes, ToldInv
  <2>5. QED
    BY <2>2, <2>3, <2>4 DEF VPNInv
<1>6. QED
  BY <1>4, <1>5

\* A call takes effect while its request waits: it is answered.
LEMMA VPNAnsweredEffect ==
  ASSUME VPNInv, NEW r \in Requests, ops.call[r] \in {"stop", "start", "write"},
         NEW engine \in VPN!Engine,
         ops.call[r] = "stop" => ~engine.running,
         ops.call[r] = "start" => engine.running,
         ops.call[r] = "write" => VPN!Override(engine.selection, ops.asks[r]) = engine.selection,
         ops.pc[r] = "calling",
         ops' = [ops EXCEPT !.engine = engine, !.call[r] = "answered"]
  PROVE  VPNInv'
<1>0. VPNTypes /\ VPN!OneOperation /\ CallInv /\ AnswerInv /\ ToldInv
  BY DEF VPNInv
<1> USE <1>0
<1>1. VPNTypes'
  BY DEF VPNTypes
<1>2. VPN!OneOperation' /\ CallInv'
  BY DEF VPNTypes, VPN!OneOperation, CallInv
<1>3. AnswerInv'
  <2> SUFFICES ASSUME NEW q \in Requests, ops'.pc[q] = "calling"
               PROVE  /\ ops'.kind[q] = "disconnect" => ~ops'.engine.running
                      /\ ops'.kind[q] = "connect" => ops'.engine.running
                      /\ ops'.kind[q] = "reconnect" /\ ops'.history[q] # "nothing" => ops'.engine.running
                      /\ ops'.kind[q] = "select" =>
                           VPN!Override(ops'.engine.selection, ops'.asks[q]) = ops'.engine.selection
    BY Zenon DEF AnswerInv
  <2>1. q = r
    BY DEF VPNTypes, VPN!OneOperation
  <2>2. ops'.kind = ops.kind /\ ops'.engine = engine /\ ops'.history = ops.history /\ ops'.asks = ops.asks
    BY DEF VPNTypes
  <2>3. QED
    BY <2>1, <2>2 DEF CallInv
<1>4. ToldInv'
  BY DEF ToldInv, VPNTypes
<1>5. QED
  BY <1>1, <1>2, <1>3, <1>4 DEF VPNInv

\* A call takes effect when nobody waits for it any more.
LEMMA VPNLateEffect ==
  ASSUME VPNInv, NEW r \in Requests, NEW engine \in VPN!Engine, ops.pc[r] # "calling",
         ops' = [ops EXCEPT !.engine = engine, !.call[r] = "none", !.told = {}, !.overtaken = TRUE]
  PROVE  VPNInv'
<1>0. VPNTypes /\ VPN!OneOperation /\ CallInv /\ AnswerInv /\ ToldInv
  BY DEF VPNInv
<1> USE <1>0
<1>1. VPNTypes'
  BY DEF VPNTypes
<1>2. VPN!OneOperation' /\ CallInv'
  BY DEF VPNTypes, VPN!OneOperation, CallInv
<1>3. AnswerInv' /\ ToldInv'
  BY DEF VPNTypes, AnswerInv, ToldInv
<1>4. QED
  BY <1>1, <1>2, <1>3 DEF VPNInv

\* What a call of the engine sets, whether its request still waits or not.
LEMMA VPNEffectInv ==
  ASSUME VPNInv, NEW r \in Requests, ops.call[r] \in {"stop", "start", "write"},
         NEW engine \in VPN!Engine,
         ops.call[r] = "stop" => ~engine.running,
         ops.call[r] = "start" => engine.running,
         ops.call[r] = "write" => VPN!Override(engine.selection, ops.asks[r]) = engine.selection,
         ops' = [ops EXCEPT !.engine = engine,
                            !.call[r] = IF VPN!Waited(r) THEN "answered" ELSE "none",
                            !.told = IF VPN!Waited(r) THEN @ ELSE {},
                            !.overtaken = @ \/ ~VPN!Waited(r)]
  PROVE  VPNInv'
<1>0. VPNTypes
  BY DEF VPNInv
<1>1. CASE ops.pc[r] = "calling"
  <2>1. VPN!Waited(r) /\ (ops.overtaken \/ ~VPN!Waited(r)) = ops.overtaken
    BY <1>0, <1>1, Zenon DEF VPNTypes, VPN!Waited, VPN!At
  <2>2. ops' = [ops EXCEPT !.engine = engine, !.call[r] = "answered"]
    BY <1>0, <2>1 DEF VPNTypes
  <2>3. QED
    BY <1>1, <2>2, VPNAnsweredEffect
<1>2. CASE ops.pc[r] # "calling"
  <2>1. ~VPN!Waited(r) /\ (ops.overtaken \/ ~VPN!Waited(r)) = TRUE
    BY <1>2, Zenon DEF VPN!Waited, VPN!At
  <2>2. ops' = [ops EXCEPT !.engine = engine, !.call[r] = "none", !.told = {}, !.overtaken = TRUE]
    BY <1>0, <2>1 DEF VPNTypes
  <2>3. QED
    BY <1>2, <2>2, VPNLateEffect
<1>3. QED
  BY <1>1, <1>2

LEMMA VPNLateInv ==
  ASSUME VPNInv, NEW r \in Requests, VPN!ApplyStatus(r) \/ VPN!GetSettings(r) \/ VPN!SetSettings(r)
  PROVE  VPNInv'
<1>0. VPNTypes /\ VPN!OneOperation /\ CallInv /\ AnswerInv /\ ToldInv
  BY DEF VPNInv
<1> USE <1>0
<1>1. CASE VPN!ApplyStatus(r)
  <2> DEFINE engine == [running |-> ops.call[r] = "start", selection |-> ops.engine.selection]
  <2>1. engine \in VPN!Engine
    <3>1. (ops.call[r] = "start") \in BOOLEAN
      BY Zenon
    <3>2. QED
      BY <3>1 DEF VPNTypes, VPN!Engine
  <2>2. ops' = [ops EXCEPT !.engine = engine,
                            !.call[r] = IF VPN!Waited(r) THEN "answered" ELSE "none",
                            !.told = IF VPN!Waited(r) THEN @ ELSE {},
                            !.overtaken = @ \/ ~VPN!Waited(r)]
    <3>1. engine = [ops.engine EXCEPT !.running = ops.call[r] = "start"]
      BY DEF VPNTypes, VPN!Engine
    <3>2. QED
      BY <1>1, <3>1, Zenon DEF VPN!ApplyStatus
  <2>3. ops.call[r] \in {"stop", "start"}
    BY <1>1 DEF VPN!ApplyStatus
  <2>4. QED
    BY <2>1, <2>2, <2>3, VPNEffectInv
<1>2. CASE VPN!GetSettings(r)
  <2> USE <1>2 DEF VPN!GetSettings
  <2>1. VPNTypes'
    BY DEF VPNTypes, VPN!Engine
  <2>2. VPN!OneOperation' /\ CallInv'
    BY DEF VPN!OneOperation, CallInv, VPNTypes
  <2>3. AnswerInv' /\ ToldInv'
    BY DEF AnswerInv, ToldInv, VPNTypes
  <2>4. QED
    BY <2>1, <2>2, <2>3 DEF VPNInv
<1>3. CASE VPN!SetSettings(r)
  <2> DEFINE updated == VPN!Override(ops.copied[r], ops.asks[r])
             engine == [running |-> ops.engine.running \/ updated # ops.engine.selection,
                        selection |-> updated]
  <2>1. updated \in VPN!Selection /\ VPN!Override(updated, ops.asks[r]) = updated
    BY OverrideTyped DEF VPNTypes
  <2>2. ops.call[r] = "write"
    BY <1>3 DEF VPN!SetSettings
  <2>3. ops' = [ops EXCEPT !.engine.running = @ \/ updated # ops.engine.selection,
                              !.engine.selection = updated,
                              !.call[r] = IF VPN!Waited(r) THEN "answered" ELSE "none",
                              !.told = IF VPN!Waited(r) THEN @ ELSE {}, !.overtaken = @ \/ ~VPN!Waited(r)]
    BY <1>3 DEF VPN!SetSettings
  <2> HIDE DEF updated
  <2>4. engine \in VPN!Engine
    <3>1. (ops.engine.running \/ updated # ops.engine.selection) \in BOOLEAN
      BY Zenon
    <3>2. QED
      BY <2>1, <3>1 DEF VPN!Engine
  <2>5. ops' = [ops EXCEPT !.engine = engine,
                            !.call[r] = IF VPN!Waited(r) THEN "answered" ELSE "none",
                            !.told = IF VPN!Waited(r) THEN @ ELSE {},
                            !.overtaken = @ \/ ~VPN!Waited(r)]
    <3>1. ops.engine \in VPN!Engine
      BY DEF VPNTypes
    <3>2. (ops.engine.running \/ updated # ops.engine.selection) \in BOOLEAN
      BY Zenon
    <3>3. engine = [ops.engine EXCEPT !.running = ops.engine.running \/ updated # ops.engine.selection,
                                      !.selection = updated]
      BY <2>1, <3>1, <3>2, EngineFields
    <3>4. QED
      BY <2>3, <3>3, Zenon
  <2>6. QED
    BY <2>1, <2>2, <2>4, <2>5, VPNEffectInv
<1>4. QED
  BY <1>1, <1>2, <1>3

\* A failure or an end: the request unlocks, and nobody is told of a success.
LEMMA VPNFailsInv ==
  ASSUME VPNInv, NEW r \in Requests, ops.pc[r] = "calling", NEW faults \in Nat,
         NEW call \in {"none", "stop", "start", "read", "write"},
         ops' = [ops EXCEPT !.pc[r] = "unlock", !.call[r] = call, !.history[r] = "failed",
                            !.faults = faults, !.told = {}]
  PROVE  VPNInv'
<1>0. VPNTypes /\ VPN!OneOperation /\ CallInv /\ AnswerInv /\ ToldInv
  BY DEF VPNInv
<1> USE <1>0
<1>1. VPNTypes'
  BY DEF VPNTypes
<1>2. VPN!OneOperation' /\ CallInv'
  BY DEF VPNTypes, VPN!OneOperation, CallInv
<1>3. AnswerInv' /\ ToldInv'
  BY DEF VPNTypes, AnswerInv, ToldInv
<1>4. QED
  BY <1>1, <1>2, <1>3 DEF VPNInv

\* The second call of a reconnection.
LEMMA VPNRestartInv ==
  ASSUME VPNInv, NEW r \in Requests, VPN!Restarts(r), NEW faults \in Nat,
         ops' = [ops EXCEPT !.call[r] = "start", !.history[r] = "stopped", !.faults = faults]
  PROVE  VPNInv'
<1> USE DEF VPN!Restarts, VPN!At
<1>1. VPNTypes'
  BY DEF VPNInv, VPNTypes
<1>2. VPN!OneOperation' /\ CallInv'
  BY DEF VPNInv, VPNTypes, VPN!OneOperation, CallInv
<1>3. AnswerInv' /\ ToldInv'
  BY DEF VPNInv, VPNTypes, AnswerInv, ToldInv
<1>4. QED
  BY <1>1, <1>2, <1>3 DEF VPNInv

LEMMA VPNRequestInv ==
  ASSUME VPNInv, NEW r \in Requests,
         VPN!Answered(r) \/ VPN!Refused(r) \/ VPN!ContextEnds(r) \/ VPN!Unlock(r)
  PROVE  VPNInv'
<1>0. VPNTypes /\ VPN!OneOperation /\ CallInv /\ AnswerInv /\ ToldInv
  BY DEF VPNInv
<1> USE <1>0
<1> USE DEF VPN!At
<1>1. CASE VPN!Answered(r)
  <2>1. ops.pc[r] = "calling" /\ ops.call[r] = "answered"
    BY <1>1 DEF VPN!Answered
  <2>2. CASE VPN!Restarts(r)
    <3>1. ops' = [ops EXCEPT !.call[r] = "start", !.history[r] = "stopped"]
      BY <1>1, <2>2 DEF VPN!Answered, VPN!SecondCall
    <3>2. ops' = [ops EXCEPT !.call[r] = "start", !.history[r] = "stopped", !.faults = ops.faults]
      BY <3>1 DEF VPNTypes
    <3>3. ops.faults \in Nat
      BY DEF VPNTypes
    <3>4. QED
      BY <2>2, <3>2, <3>3, VPNRestartInv
  <2>3. CASE ~VPN!Restarts(r)
    <3>1. ops' = [ops EXCEPT !.pc[r] = "unlock", !.call[r] = "none", !.history[r] = "done",
                !.told = IF ops.overtaken THEN {} ELSE {VPN!Known(r)}]
      BY <1>1, <2>3 DEF VPN!Answered, VPN!Succeeds
    <3>2. ~ops.overtaken => VPN!Known(r) = ops.engine
      <4> SUFFICES ASSUME ~ops.overtaken PROVE VPN!Known(r) = ops.engine
        OBVIOUS
      <4>1. CASE ops.kind[r] = "disconnect"
        <5>1. ops.engine.running = FALSE
          BY <2>1, <4>1 DEF AnswerInv, VPNTypes, VPN!Engine
        <5>2. QED
          BY <4>1, <5>1, KnownCases, EngineUnchanged DEF VPNTypes
      <4>2. CASE ops.kind[r] \in {"connect", "reconnect"}
        <5>1. ops.engine.running = TRUE
          BY <2>1, <2>3, <4>2 DEF AnswerInv, VPN!Restarts, VPNTypes, VPN!Engine
        <5>2. QED
          BY <4>2, <5>1, KnownCases, EngineUnchanged DEF VPNTypes
      <4>3. CASE ops.kind[r] = "select"
        <5>1. VPN!Override(ops.engine.selection, ops.asks[r]) = ops.engine.selection
          BY <2>1, <4>3 DEF AnswerInv
        <5>2. QED
          BY <4>3, <5>1, KnownCases, EngineUnchanged DEF VPNTypes
      <4>4. QED
        BY <4>1, <4>2, <4>3 DEF VPNTypes
    <3>3. ops' = [ops EXCEPT !.pc[r] = "unlock", !.call[r] = "none", !.history[r] = "done",
                !.told = IF ops.overtaken THEN {} ELSE {ops.engine}]
      BY <3>1, <3>2
    <3>4. VPNTypes'
      <4>1. (IF ops.overtaken THEN {} ELSE {ops.engine}) \in SUBSET VPN!Engine
        BY DEF VPNTypes
      <4>2. QED
        BY <3>3, <4>1 DEF VPNTypes
    <3>5. VPN!OneOperation' /\ CallInv'
      BY <2>1, <3>3 DEF VPNTypes, VPN!OneOperation, CallInv
    <3>6. AnswerInv' /\ ToldInv'
      BY <2>1, <3>3 DEF VPNTypes, AnswerInv, ToldInv
    <3>7. QED
      BY <3>4, <3>5, <3>6 DEF VPNInv
  <2>4. QED
    BY <2>2, <2>3
<1>2. CASE VPN!Refused(r)
  <2>1. CASE VPN!Restarts(r)
    <3>1. ops' = [[ops EXCEPT !.call[r] = "start", !.history[r] = "stopped"] EXCEPT !.faults = @ + 1]
      BY <1>2, <2>1, Zenon DEF VPN!Refused, VPN!SecondCall
    <3>2. ops' = [ops EXCEPT !.call[r] = "start", !.history[r] = "stopped", !.faults = ops.faults + 1]
      BY <3>1 DEF VPNTypes
    <3>3. ops.faults + 1 \in Nat
      BY DEF VPNTypes
    <3>4. QED
      BY <2>1, <3>2, <3>3, VPNRestartInv
  <2>2. CASE ~VPN!Restarts(r)
    <3>1. ops' = [ops EXCEPT !.pc[r] = "unlock", !.call[r] = "none", !.history[r] = "failed",
                            !.faults = ops.faults + 1, !.told = {}]
      BY <1>2, <2>2, Zenon DEF VPN!Refused, VPN!Fails
    <3>2. ops.faults + 1 \in Nat /\ ops.pc[r] = "calling"
      BY <1>2 DEF VPNTypes, VPN!Refused
    <3>3. QED
      BY <3>1, <3>2, VPNFailsInv
  <2>3. QED
    BY <2>1, <2>2 DEF VPNInv
<1>3. CASE VPN!ContextEnds(r)
  <2>1. (IF ops.call[r] = "answered" THEN "none" ELSE ops.call[r]) \in {"none", "stop", "start", "read", "write"}
    BY DEF VPNTypes
  <2>2. QED
    <3>1. ops' = [ops EXCEPT !.pc[r] = "unlock",
                            !.call[r] = IF ops.call[r] = "answered" THEN "none" ELSE ops.call[r],
                            !.history[r] = "failed", !.faults = ops.faults + 1, !.told = {}]
      BY <1>3, Zenon DEF VPN!ContextEnds, VPN!Fails
    <3>2. ops.faults + 1 \in Nat /\ ops.pc[r] = "calling"
      BY <1>3 DEF VPNTypes, VPN!ContextEnds
    <3>3. QED
      BY <2>1, <3>1, <3>2, VPNFailsInv
<1>4. CASE VPN!Unlock(r)
  <2> USE <1>4 DEF VPN!Unlock
  <2>1. VPNTypes' /\ VPN!OneOperation' /\ CallInv'
    BY ZenonT(60) DEF VPNTypes, VPN!OneOperation, CallInv
  <2>2. AnswerInv' /\ ToldInv'
    BY DEF VPNTypes, AnswerInv, ToldInv
  <2>3. QED
    BY <2>1, <2>2 DEF VPNInv
<1>5. QED
  BY <1>1, <1>2, <1>3, <1>4

LEMMA VPNIInv == VPN!Spec => []VPNInv
<1>1. VPNInv /\ [VPN!Next]_ops => VPNInv'
  <2> SUFFICES ASSUME VPNInv, [VPN!Next]_ops PROVE VPNInv'
    OBVIOUS
  <2>1. CASE VPN!Next
    BY <2>1, VPNLockInv, VPNLateInv, VPNRequestInv DEF VPN!Next
  <2>2. CASE UNCHANGED ops
    BY <2>2 DEF VPNInv, VPNTypes, VPN!OneOperation, CallInv, AnswerInv, ToldInv
  <2>3. QED
    BY <2>1, <2>2 DEF VPNInv
<1>2. QED
  BY VPNInitInv, <1>1, PTL DEF VPN!Spec

(* state, api: there is one operation at a time, and however many requests  *)
(* are given up while their calls go on, with no operation under way and    *)
(* nothing overtaken the engine is as the last client was told.             *)
THEOREM OperationsWin == Spec => []LastOperationWins
<1>1. VPNInv => VPN!OneOperation /\ VPN!LastOperationWins
  BY DEF VPNInv, VPN!OneOperation, VPN!LastOperationWins, ToldInv, VPN!OperationsConstants,
     DashboardAssumption
<1>2. StreamInv => Streaming!OneOperation
  BY DEF StreamInv
<1>3. StreamInv /\ VPNInv => LastOperationWins
  BY <1>1, <1>2 DEF LastOperationWins
<1>4. QED
  BY VPNImplemented, VPNIInv, StreamsImplemented, StreamIInv, <1>3, PTL

-----------------------------------------------------------------------------
(* DashboardStores: what is in memory, in the temporary file and in the file.*)

StoreTypes ==
    disk \in [up : BOOLEAN, profiles : [Stores!Ids -> Stores!Contents], file : [Stores!Ids -> Stores!Contents],
              temp : [Stores!Ids -> Stores!Contents \cup {Stores!Unknown}],
              saving : {"none", "write", "rename"}, request : Stores!Ids \cup {"quiet"},
              told : [Stores!Ids -> Stores!Contents \cup {Stores!Unknown}],
              events : Seq(Nat), eventFile : Seq(Nat), changed : Nat, crashed : Nat, faults : Nat]

\* The temporary file is renamed when it holds the profiles; what a client was
\* told is in memory as well as in the file.
SavedInv ==
    /\ disk.saving # "none" => disk.up
    /\ disk.saving = "rename" => disk.temp = disk.profiles
    /\ \A i \in Stores!Ids :
         /\ disk.told[i] \in {Stores!Unknown, disk.file[i]}
         /\ disk.up => disk.told[i] \in {Stores!Unknown, disk.profiles[i]}

\* A history: capped, newest first, and nothing in it newer than the last change.
History(events, changed) ==
    /\ events \in Seq(Nat) /\ Len(events) <= MaxEvents
    /\ \A i \in DOMAIN events : events[i] < changed
    /\ \A i, j \in DOMAIN events : i < j => events[i] > events[j]

\* The k newest events, with those of the file after them.
Extends(events, file, k) ==
    /\ Len(events) = IF k + Len(file) < MaxEvents THEN k + Len(file) ELSE MaxEvents
    /\ \A i \in DOMAIN events : i > k => events[i] = file[i - k]

EventsInv ==
    /\ History(disk.events, disk.changed) /\ History(disk.eventFile, disk.changed)
    /\ disk.up => \E k \in 0 .. Len(disk.events) : Extends(disk.events, disk.eventFile, k)

StoreInv == StoreTypes /\ SavedInv /\ EventsInv

LEMMA StoreConstants ==
  /\ MaxEvents \in Nat /\ MaxEvents > 0
  /\ Stores!Unknown \notin Stores!Contents /\ \E i \in Stores!Ids : TRUE
  /\ Stores!Absent \in Stores!Contents /\ Stores!Seeded \in Stores!Contents
  /\ Versions \subseteq Stores!Contents
BY DEF DashboardAssumption, Stores!StoresConstants, Stores!Ids, Stores!Contents, Stores!Unknown,
       Stores!Absent, Stores!Seeded

\* What the file lacks is at the front, up to the cap.
LEMMA ExtendedIsCapped ==
  ASSUME NEW events \in Seq(Nat), NEW file \in Seq(Nat), NEW k \in 0 .. Len(events),
         Len(events) <= MaxEvents, Extends(events, file, k)
  PROVE  events = Stores!Capped(SubSeq(events, 1, k) \o file)
<1> DEFINE whole == SubSeq(events, 1, k) \o file
           n == IF Len(whole) < MaxEvents THEN Len(whole) ELSE MaxEvents
<1>1. Len(events) \in Nat /\ Len(file) \in Nat /\ MaxEvents \in Nat /\ k \in Nat /\ k <= Len(events)
  BY StoreConstants
<1>2. SubSeq(events, 1, k) \in Seq(Nat) /\ Len(SubSeq(events, 1, k)) = k
      /\ \A i \in 1 .. k : SubSeq(events, 1, k)[i] = events[i]
  BY <1>1, SubSeqProperties
<1>3. whole \in Seq(Nat) /\ Len(whole) = k + Len(file)
      /\ \A i \in 1 .. k + Len(file) : whole[i] = IF i <= k THEN events[i] ELSE file[i - k]
  BY <1>1, <1>2, ConcatProperties, SMTT(30)
<1>4. n = Len(events) /\ n \in Nat /\ n <= Len(whole)
  BY <1>1, <1>3 DEF Extends
<1> HIDE DEF whole
<1>5. SubSeq(whole, 1, n) \in Seq(Nat) /\ Len(SubSeq(whole, 1, n)) = n
      /\ \A i \in 1 .. n : SubSeq(whole, 1, n)[i] = whole[i]
  <2>1. 1 \in Int /\ n \in Int /\ \A i \in 1 .. n : whole[i] \in Nat
    BY <1>1, <1>3, <1>4
  <2>2. /\ SubSeq(whole, 1, n) \in Seq(Nat)
        /\ Len(SubSeq(whole, 1, n)) = IF 1 <= n THEN n - 1 + 1 ELSE 0
        /\ \A i \in 1 .. n - 1 + 1 : SubSeq(whole, 1, n)[i] = whole[1 + i - 1]
    BY <2>1, SubSeqProperties
  <2>3. (IF 1 <= n THEN n - 1 + 1 ELSE 0) = n /\ n - 1 + 1 = n /\ \A i \in 1 .. n : 1 + i - 1 = i
    BY <1>4
  <2>4. QED
    BY <2>2, <2>3
<1>6. \A i \in 1 .. Len(events) : whole[i] = events[i]
  <2> SUFFICES ASSUME NEW i \in 1 .. Len(events) PROVE whole[i] = events[i]
    OBVIOUS
  <2>1. i \in Nat /\ i <= Len(events) /\ i >= 1 /\ i \in DOMAIN events
    BY <1>1
  <2>2. i \in 1 .. k + Len(file)
    BY <1>1, <1>3, <1>4, <2>1
  <2>3. CASE i <= k
    BY <1>3, <2>2, <2>3
  <2>4. CASE i > k
    <3>1. events[i] = file[i - k]
      BY <2>1, <2>4 DEF Extends
    <3>2. whole[i] = file[i - k]
      BY <1>1, <1>3, <2>1, <2>2, <2>4
    <3>3. QED
      BY <3>1, <3>2
  <2>5. QED
    BY <1>1, <2>1, <2>3, <2>4
<1>7. SubSeq(whole, 1, n) = events
  BY <1>4, <1>5, <1>6, SeqEqual
<1>8. QED
  BY <1>7 DEF Stores!Capped, whole

LEMMA StoreInit == Stores!Init => StoreInv
<1> SUFFICES ASSUME Stores!Init PROVE StoreInv
  OBVIOUS
<1>1. Stores!Empty \in [Stores!Ids -> Stores!Contents] /\ Stores!Defaults \in [Stores!Ids -> Stores!Contents]
  BY StoreConstants DEF Stores!Empty, Stores!Defaults
<1>2. PICK file \in {Stores!Empty, Stores!Defaults} :
      disk = [up |-> TRUE, profiles |-> Stores!Defaults, file |-> file, temp |-> Stores!Empty,
              saving |-> "none", request |-> "quiet", told |-> [i \in Stores!Ids |-> Stores!Unknown],
              events |-> <<>>, eventFile |-> <<>>, changed |-> 0, crashed |-> 0, faults |-> 0]
  BY DEF Stores!Init
<1>3. StoreTypes
  BY <1>1, <1>2 DEF StoreTypes
<1>4. SavedInv
  BY <1>2 DEF SavedInv
<1>5. EventsInv
  <2>1. History(<<>>, 0)
    BY StoreConstants DEF History
  <2>2. Extends(<<>>, <<>>, 0)
    BY StoreConstants DEF Extends
  <2>3. QED
    BY <1>2, <2>1, <2>2 DEF EventsInv
<1>6. QED
  BY <1>3, <1>4, <1>5 DEF StoreInv

LEMMA HistoryLater ==
  ASSUME NEW events, NEW changed \in Nat, History(events, changed)
  PROVE  History(events, changed + 1)
<1>1. \A i \in DOMAIN events : events[i] \in Nat
  BY DEF History
<1>2. QED
  BY <1>1 DEF History

\* A change of the profiles, of which nobody is told yet.
LEMMA StoreChange ==
  ASSUME StoreInv, NEW request \in Stores!Ids \cup {"quiet"},
         NEW profiles \in [Stores!Ids -> Stores!Contents],
         Stores!Idle, Stores!Change(request, profiles)
  PROVE  StoreInv'
<1>0. StoreTypes /\ SavedInv /\ EventsInv
  BY DEF StoreInv
<1> DEFINE told == [i \in Stores!Ids |-> IF profiles[i] = disk.profiles[i] THEN disk.told[i] ELSE Stores!Unknown]
           changed == disk.changed + 1
<1>1. disk' = [disk EXCEPT !.profiles = profiles, !.request = request, !.saving = "write",
                           !.changed = changed, !.told = told]
  BY Zenon DEF Stores!Change
<1>2. told \in [Stores!Ids -> Stores!Contents \cup {Stores!Unknown}] /\ changed \in Nat /\ disk.changed \in Nat
  BY <1>0 DEF StoreTypes
<1>3. disk.up
  BY DEF Stores!Idle
<1>4. StoreTypes'
  <2> HIDE DEF told, changed
  <2>1. QED
    BY <1>0, <1>1, <1>2 DEF StoreTypes
<1>5. disk'.told = told /\ disk'.profiles = profiles /\ disk'.file = disk.file /\ disk'.saving = "write"
      /\ disk'.up = disk.up /\ disk'.events = disk.events /\ disk'.eventFile = disk.eventFile
      /\ disk'.changed = disk.changed + 1
  <2> HIDE DEF told
  <2>1. QED
    BY <1>0, <1>1 DEF StoreTypes
<1>6. SavedInv'
  BY <1>0, <1>3, <1>5 DEF SavedInv
<1>7. EventsInv'
  BY <1>0, <1>2, <1>5, HistoryLater DEF EventsInv
<1>8. QED
  BY <1>4, <1>6, <1>7 DEF StoreInv

LEMMA StoreSteps ==
  ASSUME StoreInv, Stores!WriteTemp \/ Stores!Rename \/ Stores!SaveFails
  PROVE  StoreInv'
<1>0. StoreTypes /\ SavedInv /\ EventsInv
  BY DEF StoreInv
<1>1. CASE Stores!WriteTemp
  <2>1. disk' = [disk EXCEPT !.temp = disk.profiles, !.saving = "rename"] /\ disk.saving = "write"
    BY <1>1 DEF Stores!WriteTemp
  <2>2. StoreTypes'
    BY <1>0, <2>1 DEF StoreTypes
  <2>3. SavedInv' /\ EventsInv'
    BY <1>0, <2>1 DEF StoreTypes, SavedInv, EventsInv
  <2>4. QED
    BY <2>2, <2>3 DEF StoreInv
<1>2. CASE Stores!Rename
  <2> DEFINE told == [i \in Stores!Ids |-> IF i # disk.request THEN disk.told[i] ELSE disk.profiles[i]]
  <2>1. disk.saving = "rename"
    BY <1>2 DEF Stores!Rename
  <2>2. disk.up /\ disk.temp = disk.profiles
    BY <1>0, <2>1 DEF SavedInv
  <2>3. disk' = [disk EXCEPT !.file = disk.profiles, !.saving = "none", !.request = "quiet", !.told = told]
    <3>1. [disk EXCEPT !.file = disk.temp].told = disk.told
      BY <1>0 DEF StoreTypes
    <3>2. disk' = [[disk EXCEPT !.file = disk.temp] EXCEPT !.saving = "none", !.request = "quiet", !.told = told]
      BY <1>2, <3>1 DEF Stores!Rename, Stores!Answer
    <3>3. QED
      BY <2>2, <3>2
  <2>4. told \in [Stores!Ids -> Stores!Contents \cup {Stores!Unknown}]
    BY <1>0 DEF StoreTypes
  <2>5. \A i \in Stores!Ids : told[i] \in {Stores!Unknown, disk.profiles[i]}
    BY <1>0, <2>2 DEF SavedInv
  <2> HIDE DEF told
  <2>6. StoreTypes'
    BY <1>0, <2>3, <2>4 DEF StoreTypes
  <2>7. SavedInv' /\ EventsInv'
    BY <1>0, <2>3, <2>5 DEF StoreTypes, SavedInv, EventsInv
  <2>8. QED
    BY <2>6, <2>7 DEF StoreInv
<1>3. CASE Stores!SaveFails
  <2> DEFINE told == [i \in Stores!Ids |-> IF i # disk.request THEN disk.told[i] ELSE Stores!Unknown]
             faults == disk.faults + 1
             temp == IF disk.saving = "write" THEN Stores!Broken ELSE disk.temp
  <2>1. disk' = [disk EXCEPT !.faults = faults, !.temp = temp, !.saving = "none", !.request = "quiet", !.told = told]
    <3>1. [disk EXCEPT !.faults = faults, !.temp = temp].told = disk.told
      BY <1>0 DEF StoreTypes
    <3>2. disk' = [[disk EXCEPT !.faults = faults, !.temp = temp]
                     EXCEPT !.saving = "none", !.request = "quiet", !.told = told]
      BY <1>3, <3>1 DEF Stores!SaveFails, Stores!Answer
    <3>3. QED
      BY <3>2
  <2>2. told \in [Stores!Ids -> Stores!Contents \cup {Stores!Unknown}] /\ faults \in Nat
    BY <1>0 DEF StoreTypes
  <2>3. temp \in [Stores!Ids -> Stores!Contents \cup {Stores!Unknown}]
    BY <1>0 DEF StoreTypes, Stores!Broken
  <2>4. \A i \in Stores!Ids : told[i] \in {Stores!Unknown, disk.told[i]}
    OBVIOUS
  <2> HIDE DEF told, faults, temp
  <2>5. StoreTypes'
    BY <1>0, <2>1, <2>2, <2>3 DEF StoreTypes
  <2>6. SavedInv' /\ EventsInv'
    BY <1>0, <2>1, <2>4 DEF StoreTypes, SavedInv, EventsInv
  <2>7. QED
    BY <2>5, <2>6 DEF StoreInv
<1>4. QED
  BY <1>1, <1>2, <1>3

\* A new event is the newest, and the cap drops the oldest.
LEMMA CappedEvent ==
  ASSUME NEW changed \in Nat, NEW events, History(events, changed)
  PROVE  /\ History(Stores!Capped(<<changed>> \o events), changed + 1)
         /\ \A file \in Seq(Nat), k \in 0 .. Len(events) : Extends(events, file, k) =>
              \E m \in 0 .. Len(Stores!Capped(<<changed>> \o events)) :
                Extends(Stores!Capped(<<changed>> \o events), file, m)
<1> DEFINE whole == <<changed>> \o events
           n == IF Len(whole) < MaxEvents THEN Len(whole) ELSE MaxEvents
           new == Stores!Capped(whole)
<1>1. events \in Seq(Nat) /\ Len(events) \in Nat /\ Len(events) <= MaxEvents /\ MaxEvents \in Nat /\ MaxEvents > 0
  BY StoreConstants DEF History
<1>2. /\ whole \in Seq(Nat) /\ Len(whole) = 1 + Len(events)
      /\ \A i \in 1 .. 1 + Len(events) : whole[i] = IF i = 1 THEN changed ELSE events[i - 1]
  <2>1. <<changed>> \in Seq(Nat) /\ Len(<<changed>>) = 1 /\ <<changed>>[1] = changed
    OBVIOUS
  <2>2. /\ whole \in Seq(Nat) /\ Len(whole) = Len(<<changed>>) + Len(events)
        /\ \A i \in 1 .. Len(<<changed>>) + Len(events) : whole[i] =
             IF i <= Len(<<changed>>) THEN <<changed>>[i] ELSE events[i - Len(<<changed>>)]
    BY <1>1, <2>1, ConcatProperties
  <2>3. QED
    BY <1>1, <2>1, <2>2
<1> HIDE DEF whole
<1>3. n \in Nat /\ n <= Len(whole) /\ n <= MaxEvents /\ n >= 1
      /\ n = IF 1 + Len(events) < MaxEvents THEN 1 + Len(events) ELSE MaxEvents
  BY <1>1, <1>2
<1>4. new = SubSeq(whole, 1, n)
  BY DEF Stores!Capped
<1>5. new \in Seq(Nat) /\ Len(new) = n /\ \A i \in 1 .. n : new[i] = whole[i]
  <2>1. 1 \in Int /\ n \in Int /\ \A i \in 1 .. n : whole[i] \in Nat
    BY <1>1, <1>2, <1>3
  <2>2. /\ SubSeq(whole, 1, n) \in Seq(Nat)
        /\ Len(SubSeq(whole, 1, n)) = IF 1 <= n THEN n - 1 + 1 ELSE 0
        /\ \A i \in 1 .. n - 1 + 1 : SubSeq(whole, 1, n)[i] = whole[1 + i - 1]
    BY <2>1, SubSeqProperties
  <2>3. (IF 1 <= n THEN n - 1 + 1 ELSE 0) = n /\ n - 1 + 1 = n /\ \A i \in 1 .. n : 1 + i - 1 = i
    BY <1>3
  <2>4. QED
    BY <1>4, <2>2, <2>3
<1> HIDE DEF new, n
<1>6. \A i \in 1 .. n : new[i] = IF i = 1 THEN changed ELSE events[i - 1]
  <2> SUFFICES ASSUME NEW i \in 1 .. n PROVE new[i] = IF i = 1 THEN changed ELSE events[i - 1]
    OBVIOUS
  <2>1. i \in 1 .. 1 + Len(events)
    BY <1>1, <1>2, <1>3
  <2>2. QED
    BY <1>2, <1>5, <2>1
<1>7. \A i \in 1 .. Len(events) : events[i] \in Nat /\ events[i] < changed
  BY <1>1 DEF History
<1>8. \A i \in 2 .. n : i - 1 \in 1 .. Len(events) /\ i - 1 \in DOMAIN events
  BY <1>1, <1>3
<1>9. History(new, changed + 1)
  <2>1. \A i \in DOMAIN new : new[i] < changed + 1
    <3> SUFFICES ASSUME NEW i \in 1 .. n PROVE new[i] < changed + 1
      BY <1>5
    <3>1. CASE i = 1
      BY <1>6, <3>1
    <3>2. CASE i # 1
      <4>1. i \in 2 .. n
        BY <1>3, <3>2
      <4>2. new[i] = events[i - 1] /\ events[i - 1] \in Nat /\ events[i - 1] < changed
        BY <1>6, <1>7, <1>8, <3>2, <4>1
      <4>3. QED
        BY <4>2
    <3>3. QED
      BY <3>1, <3>2
  <2>2. \A i, j \in DOMAIN new : i < j => new[i] > new[j]
    <3> SUFFICES ASSUME NEW i \in 1 .. n, NEW j \in 1 .. n, i < j PROVE new[i] > new[j]
      BY <1>5
    <3>1. j \in 2 .. n /\ new[j] = events[j - 1] /\ j - 1 \in 1 .. Len(events) /\ j - 1 \in DOMAIN events
      BY <1>3, <1>6, <1>8
    <3>2. CASE i = 1
      BY <1>3, <1>6, <1>7, <3>1, <3>2
    <3>3. CASE i # 1
      <4>1. new[i] = events[i - 1] /\ i - 1 \in DOMAIN events /\ i - 1 < j - 1
        BY <1>3, <1>6, <1>8, <3>3
      <4>2. QED
        BY <3>1, <4>1 DEF History
    <3>4. QED
      BY <3>2, <3>3
  <2>3. QED
    BY <1>3, <1>5, <2>1, <2>2 DEF History
<1>10. ASSUME NEW file \in Seq(Nat), NEW k \in 0 .. Len(events), Extends(events, file, k)
       PROVE  \E m \in 0 .. Len(new) : Extends(new, file, m)
  <2> DEFINE m == IF k + 1 < MaxEvents THEN k + 1 ELSE MaxEvents
  <2>0. Len(file) \in Nat /\ k \in Nat /\ k <= Len(events)
    BY <1>1
  <2>1. Len(events) = IF k + Len(file) < MaxEvents THEN k + Len(file) ELSE MaxEvents
    BY <1>10 DEF Extends
  <2>2. m \in 0 .. n /\ n = IF m + Len(file) < MaxEvents THEN m + Len(file) ELSE MaxEvents
    BY <1>1, <1>3, <2>0, <2>1
  <2>3. \A i \in DOMAIN new : i > m => new[i] = file[i - m]
    <3> SUFFICES ASSUME NEW i \in 1 .. n, i > m PROVE new[i] = file[i - m]
      BY <1>5
    <3>1. m = k + 1 /\ i \in 2 .. n /\ i - 1 > k /\ (i - 1) - k = i - m
      BY <1>1, <1>3, <2>0
    <3>2. new[i] = events[i - 1] /\ i - 1 \in DOMAIN events
      BY <1>6, <1>8, <3>1
    <3>3. events[i - 1] = file[(i - 1) - k]
      BY <1>10, <3>1, <3>2 DEF Extends
    <3>4. QED
      BY <3>1, <3>2, <3>3
  <2>4. QED
    BY <1>5, <2>2, <2>3 DEF Extends
<1>11. QED
  BY <1>9, <1>10 DEF new, whole

LEMMA StoreAddEvent ==
  ASSUME StoreInv, Stores!AddEvent
  PROVE  StoreInv'
<1>0. StoreTypes /\ SavedInv /\ EventsInv
  BY DEF StoreInv
<1> DEFINE events == Stores!Capped(<<disk.changed>> \o disk.events)
           changed == disk.changed + 1
<1>1. PICK eventFile \in {events, disk.eventFile}, faults \in Nat :
        disk' = [disk EXCEPT !.events = events, !.eventFile = eventFile, !.changed = changed, !.faults = faults]
  <2>1. disk.faults \in Nat /\ disk.faults + 1 \in Nat
    BY <1>0 DEF StoreTypes
  <2>2. CASE disk' = [disk EXCEPT !.events = events, !.eventFile = events, !.changed = @ + 1]
    <3>1. disk' = [disk EXCEPT !.events = events, !.eventFile = events, !.changed = changed, !.faults = disk.faults]
      BY <1>0, <2>2 DEF StoreTypes
    <3>2. QED
      BY <2>1, <3>1
  <2>3. CASE disk' = [disk EXCEPT !.events = events, !.changed = @ + 1, !.faults = @ + 1]
    <3>1. disk' = [disk EXCEPT !.events = events, !.eventFile = disk.eventFile, !.changed = changed,
                               !.faults = disk.faults + 1]
      BY <1>0, <2>3 DEF StoreTypes
    <3>2. QED
      BY <2>1, <3>1
  <2>4. QED
    BY <2>2, <2>3 DEF Stores!AddEvent, Stores!Record
<1>2. /\ disk.changed \in Nat /\ History(disk.events, disk.changed) /\ History(disk.eventFile, disk.changed)
      /\ disk.eventFile \in Seq(Nat) /\ disk.up
  BY <1>0 DEF StoreTypes, EventsInv, Stores!AddEvent, Stores!Idle
<1>3. PICK k \in 0 .. Len(disk.events) : Extends(disk.events, disk.eventFile, k)
  BY <1>0, <1>2 DEF EventsInv
<1>4. History(events, changed) /\ History(disk.eventFile, changed) /\ changed \in Nat
  BY <1>2, CappedEvent, HistoryLater
<1>5. \E m \in 0 .. Len(events) : Extends(events, disk.eventFile, m)
  BY <1>2, <1>3, CappedEvent
<1>6. \E m \in 0 .. Len(events) : Extends(events, events, m)
  <2>1. Extends(events, events, 0) /\ 0 \in 0 .. Len(events)
    BY <1>4, StoreConstants, SMTT(30) DEF History, Extends
  <2>2. QED
    BY <2>1
<1>7. events \in Seq(Nat)
  BY <1>4 DEF History
<1> HIDE DEF events, changed
<1>8. StoreTypes'
  BY <1>0, <1>1, <1>2, <1>4, <1>7 DEF StoreTypes
<1>9. disk'.up = disk.up /\ disk'.events = events /\ disk'.eventFile = eventFile /\ disk'.changed = changed
  BY <1>0, <1>1 DEF StoreTypes
<1>10. SavedInv'
  BY <1>0, <1>1 DEF StoreTypes, SavedInv
<1>11. EventsInv'
  BY <1>1, <1>4, <1>5, <1>6, <1>9 DEF EventsInv
<1>12. QED
  BY <1>8, <1>10, <1>11 DEF StoreInv

LEMMA StoreCrash ==
  ASSUME StoreInv, Stores!Crash
  PROVE  StoreInv'
<1>0. StoreTypes /\ SavedInv /\ EventsInv
  BY DEF StoreInv
<1> DEFINE crashed == disk.crashed + 1
<1>1. disk' = [disk EXCEPT !.up = FALSE, !.crashed = crashed, !.saving = "none", !.request = "quiet",
                            !.profiles = Stores!Empty, !.events = <<>>]
  BY Zenon DEF Stores!Crash
<1>2. crashed \in Nat /\ Stores!Empty \in [Stores!Ids -> Stores!Contents]
  BY <1>0, StoreConstants DEF StoreTypes, Stores!Empty
<1> HIDE DEF crashed
<1>3. StoreTypes'
  <2>1. <<>> \in Seq(Nat) /\ FALSE \in BOOLEAN
    OBVIOUS
  <2> DEFINE events == <<>>
             empty == Stores!Empty
  <2>2. events \in Seq(Nat) /\ empty \in [Stores!Ids -> Stores!Contents]
        /\ disk' = [disk EXCEPT !.up = FALSE, !.crashed = crashed, !.saving = "none", !.request = "quiet",
                                !.profiles = empty, !.events = events]
    BY <1>1, <1>2, <2>1
  <2> HIDE DEF events, empty
  <2>3. QED
    BY <1>0, <1>2, <2>1, <2>2 DEF StoreTypes
<1>4. SavedInv'
  BY <1>0, <1>1 DEF StoreTypes, SavedInv
<1>5. EventsInv'
  <2>1. History(<<>>, disk.changed)
    BY StoreConstants DEF History
  <2>2. disk'.up = FALSE /\ disk'.events = <<>> /\ disk'.eventFile = disk.eventFile /\ disk'.changed = disk.changed
    BY <1>0, <1>1 DEF StoreTypes
  <2>3. QED
    BY <1>0, <2>1, <2>2 DEF EventsInv
<1>6. QED
  BY <1>3, <1>4, <1>5 DEF StoreInv

\* Started again from the file, or with the seeds if it is empty.
LEMMA StoreRestart ==
  ASSUME StoreInv, Stores!Restart \/ Stores!Reseed
  PROVE  StoreInv'
<1>0. StoreTypes /\ SavedInv /\ EventsInv
  BY DEF StoreInv
<1>1. PICK profiles \in [Stores!Ids -> Stores!Contents], file \in [Stores!Ids -> Stores!Contents],
           told \in [Stores!Ids -> Stores!Contents \cup {Stores!Unknown}] :
        /\ disk' = [disk EXCEPT !.up = TRUE, !.profiles = profiles, !.events = disk.eventFile,
                                !.file = file, !.told = told]
        /\ \A i \in Stores!Ids : told[i] \in {Stores!Unknown, file[i]} /\ told[i] \in {Stores!Unknown, profiles[i]}
  <2>1. disk.file \in [Stores!Ids -> Stores!Contents]
        /\ disk.told \in [Stores!Ids -> Stores!Contents \cup {Stores!Unknown}]
    BY <1>0 DEF StoreTypes
  <2>2. CASE Stores!Restart
    <3>1. disk' = [disk EXCEPT !.up = TRUE, !.profiles = disk.file, !.events = disk.eventFile,
                               !.file = disk.file, !.told = disk.told]
      BY <1>0, <2>2 DEF Stores!Restart, Stores!Restarted, StoreTypes
    <3>2. \A i \in Stores!Ids : disk.told[i] \in {Stores!Unknown, disk.file[i]}
      BY <1>0 DEF SavedInv
    <3>3. QED
      BY <2>1, <3>1, <3>2
  <2>3. CASE Stores!Reseed
    <3> DEFINE told == [i \in Stores!Ids |-> IF i \in Seeds THEN Stores!Unknown ELSE disk.told[i]]
    <3>1. PICK file \in {Stores!Empty, Stores!Defaults} :
            disk' = [Stores!Restarted(Stores!Defaults) EXCEPT !.file = file,
                       !.told = [i \in Stores!Ids |-> IF i \in Seeds THEN Stores!Unknown ELSE @[i]]]
      BY <2>3 DEF Stores!Reseed
    <3>2. Stores!Restarted(Stores!Defaults).told = disk.told
      BY <1>0 DEF Stores!Restarted, StoreTypes
    <3>3. disk' = [disk EXCEPT !.up = TRUE, !.profiles = Stores!Defaults, !.events = disk.eventFile,
                               !.file = file, !.told = told]
      BY <3>1, <3>2 DEF Stores!Restarted
    <3>4. /\ Stores!Empty \in [Stores!Ids -> Stores!Contents]
          /\ Stores!Defaults \in [Stores!Ids -> Stores!Contents]
      BY StoreConstants DEF Stores!Empty, Stores!Defaults
    <3>5. told \in [Stores!Ids -> Stores!Contents \cup {Stores!Unknown}]
      BY <2>1
    <3>6. \A i \in Stores!Ids : disk.told[i] \in {Stores!Unknown, Stores!Absent}
      BY <1>0, <2>3 DEF SavedInv, Stores!Reseed, Stores!Empty
    <3>7. \A i \in Stores!Ids : told[i] \in {Stores!Unknown, file[i]}
                                /\ told[i] \in {Stores!Unknown, Stores!Defaults[i]}
      BY <3>1, <3>6 DEF Stores!Empty, Stores!Defaults
    <3>8. file \in [Stores!Ids -> Stores!Contents]
      BY <3>1, <3>4
    <3> HIDE DEF told
    <3>9. QED
      BY <3>3, <3>4, <3>5, <3>7, <3>8, Zenon
  <2>4. QED
    BY <2>2, <2>3
<1>3. ~disk.up
  BY DEF Stores!Restart, Stores!Reseed
<1>4. disk.saving = "none" /\ disk.eventFile \in Seq(Nat)
  BY <1>0, <1>3 DEF StoreTypes, SavedInv
<1>5. StoreTypes'
  BY <1>0, <1>1, <1>4 DEF StoreTypes
<1>6. SavedInv'
  BY <1>0, <1>1, <1>4 DEF StoreTypes, SavedInv
<1>7. EventsInv'
  <2>1. disk'.events = disk.eventFile /\ disk'.eventFile = disk.eventFile /\ disk'.changed = disk.changed
    BY <1>0, <1>1 DEF StoreTypes
  <2>2. Extends(disk.eventFile, disk.eventFile, 0) /\ 0 \in 0 .. Len(disk.eventFile)
    BY <1>0, <1>4, StoreConstants DEF EventsInv, History, Extends
  <2>3. QED
    BY <1>0, <2>1, <2>2 DEF EventsInv
<1>8. QED
  BY <1>5, <1>6, <1>7 DEF StoreInv

LEMMA StoreIInv == Stores!Spec => []StoreInv
<1>1. StoreInv /\ [Stores!Next]_disk => StoreInv'
  <2> SUFFICES ASSUME StoreInv, [Stores!Next]_disk PROVE StoreInv'
    OBVIOUS
  <2>0. /\ disk.profiles \in [Stores!Ids -> Stores!Contents]
        /\ \A i \in Stores!Ids, v \in Stores!Contents :
             [disk.profiles EXCEPT ![i] = v] \in [Stores!Ids -> Stores!Contents]
    BY DEF StoreInv, StoreTypes
  <2>1. ASSUME NEW i \in Stores!Ids, NEW v \in Versions, Stores!Put(i, v) \/ Stores!Import(i, v)
        PROVE  StoreInv'
    BY <2>0, <2>1, StoreChange, StoreConstants DEF Stores!Put, Stores!Import
  <2>2. ASSUME NEW i \in Stores!Ids, Stores!Delete(i)
        PROVE  StoreInv'
    BY <2>0, <2>2, StoreChange, StoreConstants DEF Stores!Delete
  <2>3. CASE Stores!WriteTemp \/ Stores!Rename \/ Stores!SaveFails
    BY <2>3, StoreSteps
  <2>4. CASE Stores!AddEvent
    BY <2>4, StoreAddEvent
  <2>5. CASE Stores!Crash
    BY <2>5, StoreCrash
  <2>6. CASE Stores!Restart \/ Stores!Reseed
    BY <2>6, StoreRestart
  <2>7. CASE UNCHANGED disk
    BY <2>7 DEF StoreInv, StoreTypes, SavedInv, EventsInv
  <2>8. QED
    BY <2>1, <2>2, <2>3, <2>4, <2>5, <2>6, <2>7 DEF Stores!Next
<1>2. QED
  BY StoreInit, <1>1, PTL DEF Stores!Spec

LEMMA StoresImplemented == Spec => Stores!Spec
<1>1. Init => Stores!Init
  BY DEF Init
<1>2. [Next]_vars => [Stores!Next]_disk
  BY DEF Next, vars, StreamsNext, WatchNext, OperationsNext, StoresNext, AccessNext, ControlNext
<1>3. QED
  BY <1>1, <1>2, PTL DEF Spec, Stores!Spec

(* profiles, history: after any number of changes, failed saves and         *)
(* crashes, what a client was told is done is in a file that can be read,   *)
(* and a crash costs the history its newest events only.                    *)
THEOREM WhatIsAcknowledgedIsSaved == Spec => []AcknowledgedIsSaved
<1>1. StoreInv => AcknowledgedIsSaved
  <2> SUFFICES ASSUME StoreInv PROVE AcknowledgedIsSaved
    OBVIOUS
  <2>1. disk.file # Stores!Broken
    BY StoreConstants DEF StoreInv, StoreTypes, Stores!Broken
  <2>2. Stores!AcknowledgedIsSaved
    BY <2>1 DEF StoreInv, SavedInv, Stores!AcknowledgedIsSaved
  <2>3. Stores!HistoryLosesTheNewest
    <3>1. /\ disk.events \in Seq(Nat) /\ disk.eventFile \in Seq(Nat) /\ Len(disk.events) <= MaxEvents
          /\ \A i, j \in DOMAIN disk.events : i < j => disk.events[i] > disk.events[j]
      BY DEF StoreInv, EventsInv, History
    <3>2. disk.up => \E k \in 0 .. Len(disk.events) :
            disk.events = Stores!Capped(SubSeq(disk.events, 1, k) \o disk.eventFile)
      BY <3>1, ExtendedIsCapped DEF StoreInv, EventsInv
    <3>3. QED
      BY <3>1, <3>2 DEF Stores!HistoryLosesTheNewest
  <2>4. QED
    BY <2>2, <2>3 DEF AcknowledgedIsSaved
<1>2. QED
  BY StoresImplemented, StoreIInv, <1>1, PTL

-----------------------------------------------------------------------------
(* DashboardAccess.                                                          *)

Request == [at : {"none", "read", "served"}, token : Tokens \cup {Access!NoToken}, expiry : Int,
            since : Nat, revoked : SUBSET Tokens]

AccessTypes ==
    access \in [now : Nat, tokens : 0 .. Capacity, last : Int, cleanup : Nat, expires : [Tokens -> Int],
                issued : SUBSET Tokens, revoked : SUBSET Tokens, request : [Clients -> Request],
                allowed : Seq(Nat)]

\* A bucket with tokens left allowed that much less than a full one and what
\* refilled it since allow.
BucketInv ==
    /\ access.last # Access!None => access.last \in 0 .. access.now
    /\ access.last = Access!None => access.allowed = <<>>
    /\ \A i \in 1 .. Len(access.allowed) :
         /\ access.allowed[i] <= access.last
         /\ Len(access.allowed) - i + 1 <= (Capacity - access.tokens) + Rate * (access.last - access.allowed[i])
    /\ \A i, j \in 1 .. Len(access.allowed) :
         i <= j => j - i + 1 <= Capacity + Rate * (access.allowed[j] - access.allowed[i])

\* What is logged out stays so, and a request has read a session that lived.
SessionInv ==
    /\ access.revoked \subseteq access.issued
    /\ \A t \in Tokens : access.expires[t] # Access!None => t \in access.issued \ access.revoked
    /\ \A h \in Clients :
         LET r == access.request[h]
         IN  /\ r.at # "none" => r.token \in access.issued /\ r.token \notin r.revoked /\ r.since <= access.now
             /\ r.at = "served" => r.since <= r.expiry

AccessInv == AccessTypes /\ BucketInv /\ SessionInv

LEMMA AccessConstants ==
  /\ Capacity \in Nat /\ Capacity >= 1 /\ Rate \in Nat /\ Rate >= 1
  /\ Duration \in Nat /\ CleanupAfter \in Nat /\ CleanupAfter * Rate >= Capacity
<1>1. Capacity \in Nat \ {0} /\ Rate \in Nat \ {0} /\ Duration \in Nat \ {0} /\ CleanupAfter \in Nat
      /\ CleanupAfter * Rate >= Capacity
  BY DEF DashboardAssumption, Access!AccessConstants
<1>2. QED
  BY <1>1

\* What is refilled in two stretches of time, one after the other.
LEMMA RefilledInParts ==
  ASSUME NEW rate \in Nat, NEW a \in Int, NEW b \in Int, NEW c \in Int
  PROVE  rate * (c - a) = rate * (b - a) + (c - b) * rate /\ rate * (b - a) \in Int /\ (c - b) * rate \in Int
OBVIOUS

LEMMA RefilledMore ==
  ASSUME NEW rate \in Nat, NEW a \in Nat, NEW b \in Nat, a <= b
  PROVE  a * rate <= b * rate /\ a * rate \in Nat /\ b * rate \in Nat
OBVIOUS

\* What a call of Allow makes of the bucket: it is full when it is new, and
\* refilled otherwise; a token is taken if there is one.
Bucket(tokens) ==
    IF access.last = Access!None \/ Access!Forgotten THEN tokens = Capacity - 1
    ELSE tokens = IF Access!Refilled >= 1 THEN Access!Refilled - 1 ELSE Access!Refilled

Granted == access.last = Access!None \/ Access!Forgotten \/ Access!Refilled >= 1

LEMMA RefilledIsCapped ==
  ASSUME AccessTypes, BucketInv, access.last # Access!None
  PROVE  Access!Refilled \in 0 .. Capacity
<1>1. access.now \in Nat /\ access.tokens \in 0 .. Capacity /\ access.last \in 0 .. access.now
  BY DEF AccessTypes, BucketInv
<1>2. (access.now - access.last) * Rate \in Nat
  BY <1>1, AccessConstants, RefilledMore
<1>3. QED
  BY <1>1, <1>2, AccessConstants DEF Access!Refilled

\* What was allowed before, seen from the next call.
LEMMA OlderActions ==
  ASSUME AccessTypes, BucketInv, NEW tokens \in Int, Bucket(tokens), access.last # Access!None,
         NEW i \in 1 .. Len(access.allowed)
  PROVE  /\ access.allowed[i] <= access.now
         /\ Len(access.allowed) - i + 1 + (IF Granted THEN 1 ELSE 0)
              <= (Capacity - tokens) + Rate * (access.now - access.allowed[i])
<1> DEFINE now == access.now
           last == access.last
           at == access.allowed[i]
           len == Len(access.allowed)
           old == Rate * (last - at)
           new == (now - last) * Rate
           more == IF Granted THEN 1 ELSE 0
           sum == Rate * (now - at)
<1> SUFFICES at <= now /\ len - i + 1 + more <= (Capacity - tokens) + sum
  OBVIOUS
<1>1. i \in 1 .. len /\ now \in Nat /\ last \in 0 .. now /\ access.tokens \in 0 .. Capacity /\ at \in Nat /\ len \in Nat /\ at <= last
  BY SMTT(30) DEF AccessTypes, BucketInv
<1>2. len - i + 1 <= (Capacity - access.tokens) + old
  BY DEF BucketInv
<1>3. sum = old + new /\ old \in Int /\ new \in Int
  BY <1>1, AccessConstants, RefilledInParts, SMTT(30)
<1>4. CASE Access!Forgotten
  <2>1. CleanupAfter <= now - last /\ now - last \in Nat
    BY <1>1, <1>4, AccessConstants DEF Access!Forgotten
  <2>2. new >= Capacity
    BY <2>1, AccessConstants, RefilledMore
  <2>3. tokens = Capacity - 1 /\ more = 1
    BY <1>4 DEF Bucket, Granted
  <2> HIDE DEF old, new, now, last, at, len, more, sum
  <2>4. QED
    BY <1>1, <1>2, <1>3, <2>2, <2>3, AccessConstants
<1>5. CASE ~Access!Forgotten
  <2> DEFINE refilled == Access!Refilled
  <2>1. refilled = IF access.tokens + new < Capacity THEN access.tokens + new ELSE Capacity
    BY DEF Access!Refilled
  <2>2. tokens = (IF refilled >= 1 THEN refilled - 1 ELSE refilled) /\ more = IF refilled >= 1 THEN 1 ELSE 0
    BY <1>5 DEF Bucket, Granted
  <2> HIDE DEF old, new, now, last, at, len, more, sum, refilled
  <2>3. Capacity \in Nat /\ Capacity >= 1
    BY AccessConstants
  <2>4. CASE access.tokens + new < Capacity
    <3>1. refilled = access.tokens + new /\ refilled \in Int /\ at <= now
      BY <1>1, <1>3, <2>1, <2>4
    <3>2. len - i + 1 + more <= (Capacity - tokens) + sum
      <4>1. (Capacity - tokens) - more = Capacity - refilled
        BY <2>2, <2>3, <3>1
      <4>2. more \in Int
        BY <2>2
      <4>3. QED
        BY <1>1, <1>2, <1>3, <2>3, <3>1, <4>1, <4>2, SMTT(30)
    <3>3. QED
      BY <3>1, <3>2
  <2>5. CASE ~(access.tokens + new < Capacity)
    BY <1>1, <1>2, <1>3, <2>1, <2>2, <2>3, <2>5
  <2>6. QED
    BY <2>4, <2>5
<1>6. QED
  BY <1>4, <1>5

\* One call of Allow, of which only the bucket and the actions are looked at.
LEMMA AllowBucket ==
  ASSUME AccessTypes, AccessTypes', BucketInv, NEW tokens \in 0 .. Capacity, Bucket(tokens),
         access'.tokens = tokens, access'.last = access.now, access'.now = access.now,
         access'.allowed = IF Granted THEN Append(access.allowed, access.now) ELSE access.allowed
  PROVE  BucketInv'
<1> DEFINE now == access.now
           allowed == access.allowed
           n == Len(allowed)
           sum(i) == Rate * (now - allowed[i])
<1>1. now \in Nat /\ allowed \in Seq(Nat) /\ n \in Nat /\ tokens \in Nat /\ tokens <= Capacity /\ 0 <= now
  BY AccessConstants DEF AccessTypes
<1>2. access.last = Access!None => n = 0
  BY DEF BucketInv
<1>3. \A i \in 1 .. n : allowed[i] <= now /\ n - i + 1 + (IF Granted THEN 1 ELSE 0) <= (Capacity - tokens) + sum(i)
  <2> SUFFICES ASSUME NEW i \in 1 .. n
               PROVE  allowed[i] <= now /\ n - i + 1 + (IF Granted THEN 1 ELSE 0) <= (Capacity - tokens) + sum(i)
    OBVIOUS
  <2>1. access.last # Access!None /\ tokens \in Int
    BY <1>1, <1>2
  <2>2. QED
    BY <2>1, OlderActions
<1>4. \A i \in 1 .. n : sum(i) \in Int
  BY <1>1, AccessConstants
<1>5. Rate * (now - now) = 0
  BY <1>1, AccessConstants
<1>6. access'.last # Access!None /\ access'.last \in 0 .. access'.now
  BY <1>1 DEF Access!None
<1>7. \A i, j \in 1 .. n : i <= j => j - i + 1 <= Capacity + Rate * (allowed[j] - allowed[i])
  BY DEF BucketInv
<1>8. Capacity \in Nat /\ Capacity >= 1
  BY AccessConstants
<1>9. CASE ~Granted
  <2>1. access'.allowed = allowed
    BY <1>9
  <2>2. \A i \in 1 .. n : n - i + 1 <= (Capacity - tokens) + sum(i)
    BY <1>1, <1>3, <1>9
  <2>3. QED
    BY <1>3, <1>6, <1>7, <2>1, <2>2 DEF BucketInv
<1>10. CASE Granted
  <2> DEFINE new == Append(allowed, now)
  <2>1. /\ new \in Seq(Nat) /\ Len(new) = n + 1 /\ new[n + 1] = now
        /\ \A i \in 1 .. n : new[i] = allowed[i]
    BY <1>1, AppendProperties
  <2>2. access'.allowed = new
    BY <1>10
  <2>3. tokens <= Capacity - 1
    BY <1>10, <1>8, RefilledIsCapped DEF Bucket, Granted
  <2> HIDE DEF new
  <2>4. \A i \in 1 .. n + 1 : new[i] <= now /\ (n + 1) - i + 1 <= (Capacity - tokens) + Rate * (now - new[i])
    <3> SUFFICES ASSUME NEW i \in 1 .. n + 1
                 PROVE  new[i] <= now /\ (n + 1) - i + 1 <= (Capacity - tokens) + Rate * (now - new[i])
      OBVIOUS
    <3>1. CASE i = n + 1
      <4>1. Rate * (now - new[i]) = 0
        BY <1>5, <2>1, <3>1
      <4>2. QED
        BY <1>1, <1>8, <2>1, <2>3, <3>1, <4>1
    <3>2. CASE i # n + 1
      <4>1. i \in 1 .. n /\ i \in Int
        BY <1>1, <3>2
      <4>2. allowed[i] <= now /\ n - i + 1 + 1 <= (Capacity - tokens) + sum(i)
        BY <1>3, <1>10, <4>1
      <4>3. new[i] = allowed[i] /\ (n + 1) - i + 1 = n - i + 1 + 1
        BY <1>1, <2>1, <4>1
      <4>4. QED
        BY <4>2, <4>3
    <3>3. QED
      BY <3>1, <3>2
  <2>5. \A i, j \in 1 .. n + 1 : i <= j => j - i + 1 <= Capacity + Rate * (new[j] - new[i])
    <3> SUFFICES ASSUME NEW i \in 1 .. n + 1, NEW j \in 1 .. n + 1, i <= j
                 PROVE  j - i + 1 <= Capacity + Rate * (new[j] - new[i])
      OBVIOUS
    <3>1. CASE j = n + 1
      <4> DEFINE rest == Rate * (now - new[i])
      <4>1. new[i] \in Nat
        BY <1>1, <2>1, SMTT(30)
      <4>5. rest \in Int
        BY <1>1, <4>1, AccessConstants
      <4>2. j - i + 1 <= (Capacity - tokens) + rest
        BY <2>4, <3>1
      <4>3. Rate * (new[j] - new[i]) = rest
        BY <2>1, <3>1
      <4> HIDE DEF rest
      <4>4. QED
        BY <1>1, <1>8, <4>5, <4>2, <4>3
    <3>2. CASE j # n + 1
      <4>1. j \in 1 .. n /\ i \in 1 .. n
        BY <1>1, <3>2, SMTT(30)
      <4>2. QED
        BY <1>7, <2>1, <4>1
    <3>3. QED
      BY <3>1, <3>2
  <2>6. QED
    BY <1>6, <2>1, <2>2, <2>4, <2>5 DEF BucketInv
<1>11. QED
  BY <1>9, <1>10

LEMMA AccessInit == Access!Init => AccessInv
<1> SUFFICES ASSUME Access!Init PROVE AccessInv
  OBVIOUS
<1> DEFINE expires == [t \in Tokens |-> Access!None]
           request == [h \in Clients |-> Access!NoRequest]
<1>1. access = [now |-> 0, tokens |-> 0, last |-> Access!None, cleanup |-> 0, expires |-> expires,
                issued |-> {}, revoked |-> {}, request |-> request, allowed |-> <<>>]
  BY DEF Access!Init
<1>2. expires \in [Tokens -> Int] /\ request \in [Clients -> Request] /\ Access!None \in Int /\ 0 \in 0 .. Capacity
  BY AccessConstants DEF Request, Access!NoRequest, Access!None
<1>3. SessionInv
  BY <1>1 DEF SessionInv, Access!NoRequest
<1> HIDE DEF expires, request
<1>4. AccessTypes
  <2>1. <<>> \in Seq(Nat)
    OBVIOUS
  <2>2. QED
    BY <1>1, <1>2, <2>1 DEF AccessTypes
<1>5. BucketInv
  <2>1. Len(access.allowed) = 0
    BY <1>1
  <2>2. QED
    BY <1>1, <2>1 DEF BucketInv
<1>6. QED
  BY <1>3, <1>4, <1>5 DEF AccessInv

\* What no call of Allow has a part in leaves the bucket as it is.
LEMMA BucketUnchanged ==
  ASSUME AccessTypes, BucketInv, access'.now \in {access.now, access.now + 1},
         access'.last = access.last, access'.tokens = access.tokens, access'.allowed = access.allowed
  PROVE  BucketInv'
<1>1. access.now \in Nat /\ access.last \in Int
  BY DEF AccessTypes
<1>2. access'.last # Access!None => access'.last \in 0 .. access'.now
  BY <1>1 DEF BucketInv
<1>3. QED
  BY <1>2 DEF BucketInv

\* The requests, of which only the one that moves is changed.
LEMMA RequestMoves ==
  ASSUME AccessTypes, NEW h \in Clients, NEW r \in Request
  PROVE  [access.request EXCEPT ![h] = r] \in [Clients -> Request]
BY DEF AccessTypes

LEMMA NoRequestIsRequest == Access!NoRequest \in Request
BY DEF Access!NoRequest, Request

LEMMA AccessAllow ==
  ASSUME AccessInv, NEW h \in Clients, Access!ControlAction(h)
  PROVE  AccessInv'
<1>0. AccessTypes /\ BucketInv /\ SessionInv
  BY DEF AccessInv
<1> DEFINE request == [access.request EXCEPT ![h] = Access!NoRequest]
           cleanup == Access!Cleanup
           now == access.now
           allowed == IF Granted THEN Append(access.allowed, now) ELSE access.allowed
           Is(tokens) == access' = [access EXCEPT !.request = request, !.cleanup = cleanup, !.last = now,
                                                  !.tokens = tokens, !.allowed = allowed]
<1>1. now \in Nat /\ cleanup \in Nat /\ access.tokens \in 0 .. Capacity /\ access.allowed \in Seq(Nat)
  BY <1>0 DEF AccessTypes, Access!Cleanup
<1>2. PICK tokens \in 0 .. Capacity : Is(tokens) /\ Bucket(tokens)
  <2> DEFINE clean == [access EXCEPT !.request = request, !.cleanup = cleanup, !.last = now]
  <2>1. access' = IF access.last = Access!None \/ Access!Forgotten
                  THEN [clean EXCEPT !.tokens = Capacity - 1, !.allowed = Append(@, now)]
                  ELSE IF Access!Refilled >= 1
                  THEN [clean EXCEPT !.tokens = Access!Refilled - 1, !.allowed = Append(@, now)]
                  ELSE [clean EXCEPT !.tokens = Access!Refilled]
    BY DEF Access!ControlAction, Access!Allow, Access!Over
  <2>2. clean.allowed = access.allowed
    BY <1>0 DEF AccessTypes
  <2>3. CASE access.last = Access!None \/ Access!Forgotten
    <3>1. Granted /\ Bucket(Capacity - 1) /\ Capacity - 1 \in 0 .. Capacity
      BY <2>3, AccessConstants DEF Granted, Bucket
    <3>2. Is(Capacity - 1)
      BY <2>1, <2>2, <2>3, <3>1
    <3>3. QED
      BY <3>1, <3>2
  <2>4. CASE ~(access.last = Access!None \/ Access!Forgotten)
    <3>1. Access!Refilled \in 0 .. Capacity
      BY <1>0, <2>4, RefilledIsCapped
    <3>2. CASE Access!Refilled >= 1
      <4>1. Granted /\ Bucket(Access!Refilled - 1) /\ Access!Refilled - 1 \in 0 .. Capacity
        BY <2>4, <3>1, <3>2, AccessConstants DEF Granted, Bucket
      <4>2. Is(Access!Refilled - 1)
        BY <2>1, <2>2, <2>4, <3>2, <4>1
      <4>3. QED
        BY <4>1, <4>2
    <3>3. CASE ~(Access!Refilled >= 1)
      <4>1. ~Granted /\ Bucket(Access!Refilled)
        BY <2>4, <3>3 DEF Granted, Bucket
      <4>2. allowed = access.allowed
        BY <4>1
      <4>3. Is(Access!Refilled)
        <5>1. access' = [clean EXCEPT !.tokens = Access!Refilled]
          BY <2>1, <2>4, <3>3
        <5> HIDE DEF allowed
        <5>2. QED
          BY <1>0, <4>2, <5>1 DEF AccessTypes
      <4>4. QED
        BY <3>1, <4>1, <4>3
    <3>4. QED
      BY <3>2, <3>3
  <2>5. QED
    BY <2>3, <2>4
<1>3. request \in [Clients -> Request] /\ allowed \in Seq(Nat)
  BY <1>0, <1>1, RequestMoves, NoRequestIsRequest, AppendProperties
<1>4. \A g \in Clients : request[g] \in {access.request[g], Access!NoRequest}
  BY <1>0 DEF AccessTypes
<1> HIDE DEF request, cleanup, allowed
<1>5. AccessTypes'
  <2>1. tokens \in 0 .. Capacity /\ now \in Int
    BY <1>1
  <2>2. QED
    BY <1>0, <1>1, <1>2, <1>3, <2>1 DEF AccessTypes
<1>6. access'.tokens = tokens /\ access'.last = now /\ access'.now = now /\ access'.allowed = allowed
      /\ access'.request = request /\ access'.expires = access.expires
      /\ access'.issued = access.issued /\ access'.revoked = access.revoked
  BY <1>0, <1>2 DEF AccessTypes
<1>7. BucketInv'
  BY <1>0, <1>2, <1>5, <1>6, AllowBucket DEF allowed
<1>8. SessionInv'
  BY <1>0, <1>4, <1>6 DEF SessionInv, Access!NoRequest
<1>9. QED
  BY <1>5, <1>7, <1>8 DEF AccessInv

\* A request that is under way, with a session that lived when it came.
Served(r, issued) ==
    /\ r.token \in issued /\ r.token \notin r.revoked /\ r.since <= access.now
    /\ r.at = "served" => r.since <= r.expiry

Sessions(expires, issued, revoked) ==
    /\ expires \in [Tokens -> Int] /\ issued \subseteq Tokens /\ revoked \subseteq issued
    /\ access.issued \subseteq issued
    /\ \A t \in Tokens : expires[t] # Access!None => t \in issued \ revoked

LEMMA SessionStep ==
  ASSUME AccessInv, NEW h \in Clients, NEW expires, NEW issued, NEW revoked, NEW r \in Request,
         Sessions(expires, issued, revoked),
         r \in {access.request[h], Access!NoRequest} \/ Served(r, issued),
         access' = [access EXCEPT !.expires = expires, !.issued = issued, !.revoked = revoked,
                                  !.request = [access.request EXCEPT ![h] = r]]
  PROVE  AccessInv'
<1>0. AccessTypes /\ BucketInv /\ SessionInv
  BY DEF AccessInv
<1> DEFINE request == [access.request EXCEPT ![h] = r]
<1>1. request \in [Clients -> Request] /\ \A g \in Clients : request[g] = IF g = h THEN r ELSE access.request[g]
  BY <1>0 DEF AccessTypes
<1>2. expires \in [Tokens -> Int] /\ issued \in SUBSET Tokens /\ revoked \in SUBSET Tokens /\ revoked \subseteq issued
      /\ access.issued \subseteq issued
      /\ \A t \in Tokens : expires[t] # Access!None => t \in issued \ revoked
  BY DEF Sessions
<1>3. access' = [access EXCEPT !.expires = expires, !.issued = issued, !.revoked = revoked, !.request = request]
  OBVIOUS
<1> HIDE DEF request
<1>4. AccessTypes'
  BY <1>0, <1>1, <1>2, <1>3 DEF AccessTypes
<1>5. access'.now = access.now /\ access'.last = access.last /\ access'.tokens = access.tokens
      /\ access'.allowed = access.allowed /\ access'.request = request /\ access'.expires = expires
      /\ access'.issued = issued /\ access'.revoked = revoked
  BY <1>0, <1>3 DEF AccessTypes
<1>6. BucketInv'
  BY <1>0, <1>5, BucketUnchanged
<1>7. SessionInv'
  <2> SUFFICES ASSUME NEW g \in Clients
               PROVE  LET s == access'.request[g]
                      IN  /\ s.at # "none" => s.token \in issued /\ s.token \notin s.revoked /\ s.since <= access.now
                          /\ s.at = "served" => s.since <= s.expiry
    BY <1>2, <1>5 DEF SessionInv
  <2>1. CASE request[g] = access.request[g]
    BY <1>0, <1>2, <1>5, <2>1 DEF SessionInv
  <2>2. CASE request[g] = Access!NoRequest
    <3>1. access'.request[g] = Access!NoRequest
      BY <1>5, <2>2
    <3>2. Access!NoRequest.at = "none"
      BY DEF Access!NoRequest
    <3>3. QED
      BY <3>1, <3>2
  <2>3. CASE Served(request[g], issued)
    BY <1>5, <2>3 DEF Served
  <2>4. QED
    BY <1>1, <2>1, <2>2, <2>3
<1>8. QED
  BY <1>4, <1>6, <1>7 DEF AccessInv

LEMMA SessionForgotten ==
  ASSUME NEW expires, NEW issued, NEW revoked, NEW t, Sessions(expires, issued, revoked)
  PROVE  /\ Sessions([expires EXCEPT ![t] = Access!None], issued, revoked)
         /\ t \in issued => Sessions([expires EXCEPT ![t] = Access!None], issued, revoked \cup {t})
<1> DEFINE left == [expires EXCEPT ![t] = Access!None]
<1>1. Access!None \in Int
  BY DEF Access!None
<1>2. expires \in [Tokens -> Int]
  BY DEF Sessions
<1>3. left \in [Tokens -> Int]
  BY <1>1, <1>2
<1>4. \A s \in Tokens : left[s] # Access!None => s # t /\ expires[s] # Access!None
  BY <1>2
<1> HIDE DEF left
<1>5. Sessions(left, issued, revoked) /\ (t \in issued => Sessions(left, issued, revoked \cup {t}))
  BY <1>3, <1>4 DEF Sessions
<1>6. QED
  BY <1>5 DEF left

LEMMA AccessSteps ==
  ASSUME AccessInv, NEW h \in Clients,
         Access!Login(h) \/ Access!Arrive(h) \/ Access!CheckExpiry(h) \/ Access!Logout(h)
  PROVE  AccessInv'
<1>0. AccessTypes /\ BucketInv /\ SessionInv
  BY DEF AccessInv
<1> DEFINE at == access.request[h]
           Is(expires, issued, revoked, r) ==
             access' = [access EXCEPT !.expires = expires, !.issued = issued, !.revoked = revoked,
                                      !.request = [access.request EXCEPT ![h] = r]]
<1>2. access.expires \in [Tokens -> Int] /\ access.issued \in SUBSET Tokens /\ access.revoked \in SUBSET Tokens
      /\ access.request \in [Clients -> Request] /\ access.now \in Nat /\ at \in Request
  BY <1>0 DEF AccessTypes
<1>3. Sessions(access.expires, access.issued, access.revoked)
      /\ access.revoked \subseteq access.issued
      /\ \A t \in Tokens : access.expires[t] # Access!None => t \in access.issued \ access.revoked
  BY <1>0, <1>2 DEF SessionInv, Sessions
<1>4. CASE Access!Login(h)
  <2>1. PICK t \in Tokens \ access.issued :
          access' = [access EXCEPT !.expires[t] = access.now + Duration, !.issued = @ \cup {t}]
    BY <1>4 DEF Access!Login
  <2> DEFINE expires == [access.expires EXCEPT ![t] = access.now + Duration]
             issued == access.issued \cup {t}
  <2>2. access' = [access EXCEPT !.expires = expires, !.issued = issued]
    BY <2>1
  <2>3. access.now + Duration \in Int
    BY <1>2, AccessConstants
  <2>4. Sessions(expires, issued, access.revoked)
    BY <1>2, <1>3, <2>3 DEF Sessions
  <2>5. [access.request EXCEPT ![h] = at] = access.request
    BY <1>2
  <2> HIDE DEF expires, issued
  <2>6. Is(expires, issued, access.revoked, at)
    BY <1>0, <2>2, <2>5 DEF AccessTypes
  <2>7. QED
    BY <1>2, <2>4, <2>6, SessionStep
<1>5. CASE Access!Arrive(h)
  <2>1. PICK t \in Tokens : /\ access.expires[t] # Access!None
                            /\ access' = [access EXCEPT !.request[h] =
                                 [at |-> "read", token |-> t, expiry |-> access.expires[t],
                                  since |-> access.now, revoked |-> access.revoked]]
    BY <1>5 DEF Access!Arrive
  <2> DEFINE r == [at |-> "read", token |-> t, expiry |-> access.expires[t],
                   since |-> access.now, revoked |-> access.revoked]
             request == [access.request EXCEPT ![h] = r]
  <2>2. r \in Request
    BY <1>2 DEF Request
  <2>3. Served(r, access.issued)
    BY <1>2, <1>3, <2>1 DEF Served
  <2>4. access' = [access EXCEPT !.request = request]
    BY <2>1
  <2> HIDE DEF r, request
  <2>5. access' = [access EXCEPT !.expires = access.expires, !.issued = access.issued,
                                 !.revoked = access.revoked, !.request = request]
    BY <1>0, <2>4 DEF AccessTypes
  <2>6. QED
    BY <1>3, <2>2, <2>3, <2>5, SessionStep DEF request
<1>6. CASE Access!CheckExpiry(h) /\ access.now > at.expiry
  <2> DEFINE expires == [access.expires EXCEPT ![at.token] = Access!None]
             request == [access.request EXCEPT ![h] = Access!NoRequest]
  <2>1. access' = [access EXCEPT !.expires = expires, !.request = request]
    BY <1>6 DEF Access!CheckExpiry, Access!Over
  <2>2. Sessions(expires, access.issued, access.revoked)
    BY <1>2, <1>3, SessionForgotten
  <2> HIDE DEF request, expires
  <2>3. access' = [access EXCEPT !.expires = expires, !.issued = access.issued,
                                 !.revoked = access.revoked, !.request = request]
    BY <1>0, <2>1 DEF AccessTypes
  <2>4. QED
    BY <2>2, <2>3, SessionStep, NoRequestIsRequest DEF request
<1>7. CASE Access!CheckExpiry(h) /\ ~(access.now > at.expiry)
  <2> DEFINE r == [at EXCEPT !.at = "served"]
             request == [access.request EXCEPT ![h] = r]
  <2>1. access' = [access EXCEPT !.request = request]
    BY <1>7 DEF Access!CheckExpiry, Access!Served
  <2>2. r \in Request /\ r.token = at.token /\ r.revoked = at.revoked /\ r.since = at.since /\ r.expiry = at.expiry
    BY <1>2 DEF Request
  <2>3. at.at # "none"
    BY <1>7 DEF Access!CheckExpiry, Access!At
  <2>4. at.token \in access.issued /\ at.token \notin at.revoked /\ at.since <= access.now
    BY <1>0, <2>3 DEF SessionInv
  <2>5. at.since \in Nat /\ at.expiry \in Int
    BY <1>2 DEF Request
  <2>6. at.since <= at.expiry
    BY <1>2, <1>7, <2>4, <2>5
  <2>7. Served(r, access.issued)
    BY <2>2, <2>4, <2>6 DEF Served
  <2> HIDE DEF request, r
  <2>8. access' = [access EXCEPT !.expires = access.expires, !.issued = access.issued,
                                 !.revoked = access.revoked, !.request = request]
    BY <1>0, <2>1 DEF AccessTypes
  <2>9. QED
    BY <1>3, <2>2, <2>7, <2>8, SessionStep DEF request
<1>8. CASE Access!Logout(h)
  <2> DEFINE t == at.token
             expires == [access.expires EXCEPT ![t] = Access!None]
             revoked == access.revoked \cup {t}
             request == [access.request EXCEPT ![h] = Access!NoRequest]
  <2>1. access' = [access EXCEPT !.expires = expires, !.revoked = revoked, !.request = request]
    BY <1>8 DEF Access!Logout, Access!Over
  <2>2. t \in access.issued
    BY <1>0, <1>8 DEF SessionInv, Access!Logout, Access!At
  <2>3. Sessions(expires, access.issued, revoked)
    <3>1. Sessions(expires, access.issued, access.revoked \cup {t})
      BY <1>3, <2>2, SessionForgotten
    <3>2. QED
      BY <3>1
  <2> HIDE DEF request, expires, revoked
  <2>4. access' = [access EXCEPT !.expires = expires, !.issued = access.issued,
                                 !.revoked = revoked, !.request = request]
    BY <1>0, <2>1 DEF AccessTypes
  <2>5. QED
    BY <2>3, <2>4, SessionStep, NoRequestIsRequest DEF request
<1>9. QED
  BY <1>4, <1>5, <1>6, <1>7, <1>8

LEMMA AccessIInv == Access!Spec => []AccessInv
<1>1. AccessInv /\ [Access!Next]_access => AccessInv'
  <2> SUFFICES ASSUME AccessInv, [Access!Next]_access PROVE AccessInv'
    OBVIOUS
  <2>0. AccessTypes /\ BucketInv /\ SessionInv
    BY DEF AccessInv
  <2>1. CASE Access!Tick
    <3> DEFINE now == access.now + 1
    <3>1. access' = [access EXCEPT !.now = now] /\ now \in Nat /\ access.now \in Nat
      BY <2>0, <2>1 DEF Access!Tick, AccessTypes
    <3>2. AccessTypes'
      <4> HIDE DEF now
      <4>1. QED
        BY <2>0, <3>1 DEF AccessTypes
    <3>3. /\ access'.now = now /\ access'.last = access.last /\ access'.tokens = access.tokens
          /\ access'.allowed = access.allowed /\ access'.request = access.request
          /\ access'.expires = access.expires /\ access'.issued = access.issued /\ access'.revoked = access.revoked
      <4> HIDE DEF now
      <4>1. QED
        BY <2>0, <3>1 DEF AccessTypes
    <3>4. BucketInv'
      BY <2>0, <3>3, BucketUnchanged
    <3>5. SessionInv'
      <4>1. \A h \in Clients : access.request[h].since \in Nat
        BY <2>0 DEF AccessTypes, Request
      <4>2. QED
        BY <2>0, <3>1, <3>3, <4>1 DEF SessionInv
    <3>6. QED
      BY <3>2, <3>4, <3>5 DEF AccessInv
  <2>2. ASSUME NEW h \in Clients, Access!ControlAction(h) PROVE AccessInv'
    BY <2>2, AccessAllow
  <2>3. ASSUME NEW h \in Clients,
               Access!Login(h) \/ Access!Arrive(h) \/ Access!CheckExpiry(h) \/ Access!Logout(h)
        PROVE  AccessInv'
    BY <2>3, AccessSteps
  <2>4. CASE UNCHANGED access
    BY <2>4 DEF AccessInv, AccessTypes, BucketInv, SessionInv
  <2>5. QED
    BY <2>1, <2>2, <2>3, <2>4 DEF Access!Next
<1>2. QED
  BY AccessInit, <1>1, PTL DEF Access!Spec

LEMMA AccessImplemented == Spec => Access!Spec
<1>1. Init => Access!Init
  BY DEF Init
<1>2. [Next]_vars => [Access!Next]_access
  BY DEF Next, vars, StreamsNext, WatchNext, OperationsNext, StoresNext, AccessNext, ControlNext
<1>3. QED
  BY <1>1, <1>2, PTL DEF Spec, Access!Spec

LEMMA AccessInvIsEnough == AccessInv => Access!RateIsBounded /\ Access!ServedSessionsAreLive
<1> SUFFICES ASSUME AccessInv PROVE Access!RateIsBounded /\ Access!ServedSessionsAreLive
  OBVIOUS
<1>1. access.allowed \in Seq(Nat)
  BY DEF AccessInv, AccessTypes
<1>2. Access!RateIsBounded
  <2>1. DOMAIN access.allowed = 1 .. Len(access.allowed)
    BY <1>1
  <2>2. QED
    BY <2>1 DEF AccessInv, BucketInv, Access!RateIsBounded
<1>3. Access!ServedSessionsAreLive
  BY DEF AccessInv, SessionInv, Access!ServedSessionsAreLive
<1>4. QED
  BY <1>2, <1>3

-----------------------------------------------------------------------------
(* ControlServer.                                                            *)

\* The roles are valid ones from the start, and the last answer was given as
\* they say.
RolesInv ==
    /\ Control!Validate(ctl.file, ctl.default)
    /\ Control!RolesDecide /\ Control!RoutesAreServed

Running(loop) == Control!Status(loop, "running")

\* What a request may have still to do.
Calls ==
    {Control!Show} \cup {Control!Status(l, s) : l \in Control!Loops, s \in {"stopped", "running"}}
    \cup {Control!Restart(l) : l \in Control!Loops} \cup {Control!SetSettings(t) : t \in {"openvpn", "wireguard"}}

\* A loop that does not run is asked to be stopped, or about to be started.
RestartInv ==
    ~ctl.ended => \A l \in Control!Loops :
      ctl.on[l] \/ l \in ctl.asked \/ \E r \in Servings : ctl.todo[r] = Running(l)

Last == [answer : {"none", "unknown", "denied", "unsupported", "served"}, plain : BOOLEAN, allowed : BOOLEAN]

ControlTypes ==
    ctl \in [file : RoleFiles, default : DefaultRoles, on : [Control!Loops -> BOOLEAN],
             type : {"openvpn", "wireguard"}, todo : [Servings -> Calls], asked : SUBSET Control!Loops,
             ended : BOOLEAN, served : Nat, last : Last]

ControlInv == ControlTypes /\ RolesInv /\ RestartInv

LEMMA Counted == \A n, m \in Nat : n + m \in Nat
OBVIOUS

LEMMA ControlConstants ==
  /\ \A role \in DefaultRoles : role = [auth |-> role.auth, key |-> role.key, routes |-> {}]
  /\ \A secret \in Secrets : secret[1] \in {"apikey", "basic"}
BY DEF DashboardAssumption, Control!ControlServerConstants

LEMMA PathsOfReads ==
  \A path \in Control!Reads : path[1] \in {"v0", "openvpn", "publicip", "v1"} /\ path[1] # "vpn"
BY DEF Control!Reads

LEMMA PathsOfWrites ==
  \A path \in Control!Writes :
     /\ path[1] \in {"vpn", "openvpn", "dns", "updater", "portforward"}
     /\ path[1] = "vpn" => path[2] \in {"status", "settings"}
     /\ path[1] = "openvpn" => path[2] = "status"
<1> SUFFICES ASSUME NEW path \in Control!Writes
             PROVE  /\ path[1] \in {"vpn", "openvpn", "dns", "updater", "portforward"}
                    /\ path[1] = "vpn" => path[2] \in {"status", "settings"}
                    /\ path[1] = "openvpn" => path[2] = "status"
  OBVIOUS
<1>1. CASE path \in {<<"vpn", "status">>, <<"vpn", "settings">>, <<"openvpn", "status">>}
  BY <1>1
<1>2. CASE path \in {<<"dns", "status">>, <<"updater", "status">>}
  BY <1>2
<1>3. CASE path = <<"portforward", "">>
  BY <1>3
<1>4. QED
  BY <1>1, <1>2, <1>3 DEF Control!Writes

LEMMA PathsOfOpenVPN ==
  \A path \in Control!Reads : path[1] = "openvpn" => path[2] # "status"
BY DEF Control!Reads

LEMMA ReadsAreNoWrites == Control!Reads \cap Control!Writes = {}
BY PathsOfReads, PathsOfWrites, PathsOfOpenVPN

\* A handler knows every route of its path.
LEMMA EveryRouteIsKnown ==
  ASSUME NEW path \in Control!Reads \cup Control!Writes, NEW method \in {"GET", "PUT"},
         <<path, method>> \in Control!validRoutes
  PROVE  <<path[2], method>> \in DOMAIN Control!Dispatch(path)
<1>1. CASE path \in Control!Reads
  <2>1. method = "GET"
    BY <1>1, ReadsAreNoWrites DEF Control!validRoutes
  <2>2. QED
    BY <1>1, <2>1 DEF Control!Reads, Control!Dispatch, Control!handlerV0, Control!handlerV1,
       Control!openvpnHandler, Control!publicIPHandler
<1>2. CASE path \in Control!Writes
  <2>1. path[1] # "v0" /\ path[1] # "publicip"
    BY <1>2, PathsOfWrites
  <2>2. Control!Dispatch(path) = Control!handlerV1[path[1]]
    BY <2>1 DEF Control!Dispatch
  <2>3. CASE path \in {<<"vpn", "status">>, <<"vpn", "settings">>}
    BY <2>2, <2>3 DEF Control!handlerV1, Control!vpnHandler
  <2>4. CASE path = <<"openvpn", "status">>
    BY <2>2, <2>4 DEF Control!handlerV1, Control!openvpnHandler
  <2>5. CASE path = <<"dns", "status">>
    BY <2>2, <2>5 DEF Control!handlerV1, Control!dnsHandler, Control!StatusHandler
  <2>6. CASE path = <<"updater", "status">>
    BY <2>2, <2>6 DEF Control!handlerV1, Control!updaterHandler, Control!StatusHandler
  <2>7. CASE path = <<"portforward", "">>
    BY <2>2, <2>7 DEF Control!handlerV1, Control!portForwardHandler
  <2>8. QED
    BY <1>2, <2>3, <2>4, <2>5, <2>6, <2>7, Zenon DEF Control!Writes
<1>3. QED
  BY <1>1, <1>2

LEMMA NothingToDo == <<>> \in Calls
BY DEF Calls, Control!Show

LEMMA RestartCalls ==
  \A l \in Control!Loops : Control!Restart(l) \in Calls /\ Control!Status(l, "stopped") \in Calls /\ Running(l) \in Calls
BY DEF Calls, Running

Makes(handler) == \A known \in DOMAIN handler : handler[known] \subseteq Calls

\* Whatever a handler does for a route it knows is one of the calls.
LEMMA HandlersMakeCalls ==
  ASSUME NEW path \in Control!Reads \cup Control!Writes
  PROVE  Makes(Control!Dispatch(path))
<1>1. /\ Control!Show \in Calls
      /\ \A l \in Control!Loops : Control!Restart(l) \in Calls /\ Control!SetStatus(l) \subseteq Calls
      /\ \A t \in {"openvpn", "wireguard"} : Control!SetSettings(t) \in Calls
  BY DEF Calls, Control!SetStatus
<1>2. Control!PatchSettings \subseteq Calls /\ Control!SetOpenVPNStatus \subseteq Calls
  <2>1. Control!Status("vpn", "stopped") \in Calls
    BY DEF Calls, Control!Loops
  <2>2. "vpn" \in Control!Loops
    BY DEF Control!Loops
  <2>3. QED
    BY <1>1, <2>1, <2>2 DEF Control!PatchSettings, Control!SetOpenVPNStatus
<1>3. {"vpn", "dns", "updater"} \subseteq Control!Loops
  BY DEF Control!Loops
<1>4. Makes(Control!handlerV0)
  BY <1>1, <1>3 DEF Makes, Control!handlerV0
<1>5. Makes(Control!vpnHandler)
  BY <1>1, <1>2, <1>3 DEF Makes, Control!vpnHandler
<1>6. Makes(Control!openvpnHandler)
  BY <1>1, <1>2 DEF Makes, Control!openvpnHandler
<1>7. \A l \in Control!Loops : Makes(Control!StatusHandler(l))
  BY <1>1 DEF Makes, Control!StatusHandler
<1>8. Makes(Control!publicIPHandler)
  BY <1>1 DEF Makes, Control!publicIPHandler
<1>9. Makes(Control!portForwardHandler)
  BY <1>1 DEF Makes, Control!portForwardHandler
<1>10. CASE path[1] = "v0"
  BY <1>4, <1>10 DEF Control!Dispatch
<1>11. CASE path[1] # "v0"
  <2>1. path[1] \in {"v1", "vpn", "openvpn", "dns", "updater", "publicip", "portforward"}
    BY <1>11, PathsOfReads, PathsOfWrites
  <2>2. Control!Dispatch(path) = Control!handlerV1[path[1]]
    BY <1>11 DEF Control!Dispatch
  <2>3. Control!dnsHandler = Control!StatusHandler("dns") /\ Control!updaterHandler = Control!StatusHandler("updater")
    BY DEF Control!dnsHandler, Control!updaterHandler
  <2>4. CASE path[1] = "v1"
    BY <1>1, <2>2, <2>4 DEF Control!handlerV1, Makes
  <2>5. CASE path[1] \in {"vpn", "openvpn", "publicip", "portforward"}
    BY <1>5, <1>6, <1>8, <1>9, <2>2, <2>5 DEF Control!handlerV1
  <2>6. CASE path[1] \in {"dns", "updater"}
    BY <1>3, <1>7, <2>2, <2>3, <2>6 DEF Control!handlerV1
  <2>7. QED
    BY <2>1, <2>4, <2>5, <2>6
<1>12. QED
  BY <1>10, <1>11

LEMMA ControlInit == Control!Init => ControlInv
<1> SUFFICES ASSUME Control!Init PROVE ControlInv
  OBVIOUS
<1>1. PICK file \in RoleFiles, default \in DefaultRoles, type \in {"openvpn", "wireguard"} :
        Control!Validate(file, default) /\ ctl = Control!Started(file, default, type)
  BY DEF Control!Init
<1> DEFINE on == [l \in Control!Loops |-> l # "updater"]
           todo == [r \in Servings |-> <<>>]
           last == [answer |-> "none", plain |-> TRUE, allowed |-> FALSE]
<1>2. ctl = [file |-> file, default |-> default, on |-> on, type |-> type, todo |-> todo, asked |-> {"updater"},
             ended |-> FALSE, served |-> 0, last |-> last]
  BY <1>1 DEF Control!Started
<1>3. todo \in [Servings -> Calls] /\ last \in Last /\ {"updater"} \subseteq Control!Loops
  BY DEF Calls, Control!Show, Last, Control!Loops
<1>4. on \in [Control!Loops -> BOOLEAN]
  BY Zenon
<1>5. \A l \in Control!Loops : on[l] \/ l \in {"updater"}
  BY Zenon
<1>6. last.answer = "none"
  OBVIOUS
<1> HIDE DEF on, todo, last
<1>7. ControlTypes
  BY <1>1, <1>2, <1>3, <1>4 DEF ControlTypes
<1>8. ctl.file = file /\ ctl.default = default /\ ctl.last = last /\ ctl.on = on /\ ctl.asked = {"updater"}
  BY <1>2
<1>9. RolesInv
  BY <1>1, <1>6, <1>8 DEF RolesInv, Control!RolesDecide, Control!RoutesAreServed
<1>10. RestartInv
  BY <1>5, <1>8 DEF RestartInv
<1>11. QED
  BY <1>7, <1>9, <1>10 DEF ControlInv

\* The middleware lets through what the roles allow, and nothing else.
LEMMA MiddlewareDecides ==
  ASSUME ctl.file \in RoleFiles, ctl.default \in DefaultRoles, Control!Validate(ctl.file, ctl.default),
         NEW route \in Control!validRoutes, NEW holds \in SUBSET Secrets
  PROVE  (\E checker \in Control!RouteToRoles(route) : Control!Authorized(checker, holds))
           <=> Control!Allowed(route, holds)
<1> DEFINE file == ctl.file
           default == ctl.default
           added == Control!SetDefaultRole(file, default)
           named == {role \in file : route \in role.routes}
           Passes(role) == Control!Authorized(Control!Checker(role), holds)
           Matches(role) == role.auth = "none" \/ Control!Checker(role) \in holds
<1>1. \A role : Control!Checker(role) = <<role.auth, role.key>>
  BY DEF Control!Checker
<1>2. \A role : Matches(role) => Passes(role)
  BY <1>1 DEF Control!Authorized
<1>3. \A role : Control!ValidRole(role) /\ Passes(role) => Matches(role)
  <2> SUFFICES ASSUME NEW role, Control!ValidRole(role), Passes(role), role.auth # "none"
               PROVE  Control!Checker(role) \in holds
    OBVIOUS
  <2>1. role.key # ""
    BY DEF Control!ValidRole
  <2>2. Control!Checker(role) # <<"apikey", "">> /\ Control!Checker(role)[1] # "none"
    BY <1>1, <2>1
  <2>3. QED
    BY <2>2 DEF Control!Authorized
<1>4. \A role \in file \cup added : Control!ValidRole(role)
  BY DEF Control!Validate
<1>5. /\ default.auth = "" => added = {} /\ ~Matches(default)
      /\ default.auth # "" => \E role \in added : /\ added = {role} /\ role.auth = default.auth /\ role.key = default.key
                                                 /\ (route \in role.routes <=> named = {})
  <2>1. default = [auth |-> default.auth, key |-> default.key, routes |-> {}]
    BY ControlConstants
  <2>2. CASE default.auth = ""
    <3>1. \A checker \in holds : checker[1] # ""
      BY ControlConstants
    <3>2. Control!Checker(default)[1] = ""
      BY <1>1, <2>2
    <3>3. QED
      BY <2>2, <3>1, <3>2 DEF Control!SetDefaultRole
  <2>3. CASE default.auth # ""
    <3> DEFINE routes == Control!validRoutes \ UNION {role.routes : role \in file}
               role == [default EXCEPT !.routes = routes]
    <3>1. added = {role}
      BY <2>3 DEF Control!SetDefaultRole
    <3>2. route \in routes <=> named = {}
      OBVIOUS
    <3> HIDE DEF routes
    <3>3. role.auth = default.auth /\ role.key = default.key /\ role.routes = routes
      BY <2>1
    <3> HIDE DEF role
    <3>4. QED
      BY <2>3, <3>1, <3>2, <3>3
  <2>4. QED
    BY <2>2, <2>3
<1> HIDE DEF added
<1>6. (\E checker \in Control!RouteToRoles(route) : Control!Authorized(checker, holds))
        <=> \E role \in file \cup added : route \in role.routes /\ Passes(role)
  BY DEF Control!RouteToRoles, added
<1>7. Control!Allowed(route, holds) <=> \E role \in (IF named = {} THEN {default} ELSE named) : Matches(role)
  BY DEF Control!Allowed
<1> HIDE DEF Passes
<1>8. CASE named # {}
  <2>1. \A role \in added : route \notin role.routes
    <3>1. CASE default.auth = ""
      BY <1>5, <3>1
    <3>2. CASE default.auth # ""
      <4>1. PICK role \in added : added = {role} /\ (route \in role.routes <=> named = {})
        BY <1>5, <3>2
      <4>2. QED
        BY <1>8, <4>1
    <3>3. QED
      BY <3>1, <3>2
  <2>2. QED
    BY <1>2, <1>3, <1>4, <1>6, <1>7, <1>8, <2>1
<1>9. CASE named = {}
  <2>1. \A role \in file : route \notin role.routes
    BY <1>9
  <2>2. CASE default.auth = ""
    BY <1>5, <1>6, <1>7, <1>9, <2>1, <2>2
  <2>3. CASE default.auth # ""
    <3>1. PICK role \in added : /\ added = {role} /\ role.auth = default.auth /\ role.key = default.key
                                /\ route \in role.routes
      BY <1>5, <1>9, <2>3
    <3>2. Matches(role) <=> Matches(default)
      BY <1>1, <3>1
    <3>3. Passes(role) <=> Matches(role)
      BY <1>2, <1>3, <1>4, <3>1
    <3>4. QED
      BY <1>6, <1>7, <1>9, <2>1, <3>1, <3>2, <3>3
  <2>4. QED
    BY <2>2, <2>3
<1>10. QED
  BY <1>8, <1>9

Answers(last) ==
    /\ last \in Last
    /\ last.answer \in {"served", "unsupported"} => last.allowed
    /\ last.answer = "denied" => ~last.allowed
    /\ last.answer = "unsupported" => ~last.plain

\* An answer is given as the roles say; what is served makes its calls.
LEMMA AnsweredRight ==
  ASSUME ControlInv, NEW r \in Servings, Control!ServeHTTP(r)
  PROVE  \E last : /\ Answers(last)
                   /\ \/ ctl' = [ctl EXCEPT !.last = last]
                      \/ \E calls \in Calls, served \in Nat :
                           ctl' = [ctl EXCEPT !.last = last, !.todo[r] = calls, !.served = served]
<1>0. ControlTypes /\ RolesInv
  BY DEF ControlInv
<1>1. ctl.file \in RoleFiles /\ ctl.default \in DefaultRoles /\ ctl.served \in Nat
      /\ Control!Validate(ctl.file, ctl.default)
  BY <1>0 DEF ControlTypes, RolesInv
<1>2. PICK route \in (Control!Reads \cup Control!Writes) \X {"GET", "PUT", "POST"},
           holds \in SUBSET Secrets, plain \in BOOLEAN :
        LET path == route[1]
            known == <<IF plain THEN path[2] ELSE "with query", route[2]>>
            handler == Control!Dispatch(path)
        IN  IF route \notin Control!validRoutes
            THEN ctl' = Control!Answered(route, holds, plain, "unknown")
            ELSE IF ~ \E checker \in Control!RouteToRoles(route) : Control!Authorized(checker, holds)
            THEN ctl' = Control!Answered(route, holds, plain, "denied")
            ELSE IF known \notin DOMAIN handler
            THEN ctl' = Control!Answered(route, holds, plain, "unsupported")
            ELSE \E calls \in handler[known] :
                   ctl' = [Control!Answered(route, holds, plain, "served")
                             EXCEPT !.todo[r] = calls, !.served = @ + (IF calls = Control!Show THEN 0 ELSE 1)]
  BY DEF Control!ServeHTTP
<1> DEFINE path == route[1]
           known == <<IF plain THEN path[2] ELSE "with query", route[2]>>
           handler == Control!Dispatch(path)
           allowed == Control!Allowed(route, holds)
           last(answer) == [answer |-> answer, plain |-> plain, allowed |-> allowed]
           passes == \E checker \in Control!RouteToRoles(route) : Control!Authorized(checker, holds)
<1>3. route \in Control!validRoutes => (passes <=> allowed)
  BY <1>1, MiddlewareDecides
<1>4. allowed \in BOOLEAN
  BY Zenon DEF Control!Allowed
<1>5. \A answer : Control!Answered(route, holds, plain, answer) = [ctl EXCEPT !.last = last(answer)]
  BY DEF Control!Answered
<1> HIDE DEF allowed, passes
<1>6. \A answer \in {"unknown", "denied", "unsupported", "served"} : last(answer) \in Last
  BY <1>4 DEF Last
<1>7. CASE route \notin Control!validRoutes
  <2>1. ctl' = [ctl EXCEPT !.last = last("unknown")]
    BY <1>2, <1>5, <1>7 DEF passes
  <2>2. Answers(last("unknown"))
    BY <1>6 DEF Answers
  <2>3. QED
    BY <2>1, <2>2
<1>8. CASE route \in Control!validRoutes /\ ~passes
  <2>1. ctl' = [ctl EXCEPT !.last = last("denied")]
    BY <1>2, <1>5, <1>8 DEF passes
  <2>2. Answers(last("denied"))
    BY <1>3, <1>6, <1>8 DEF Answers
  <2>3. QED
    BY <2>1, <2>2
<1>9. CASE route \in Control!validRoutes /\ passes /\ known \notin DOMAIN handler
  <2>1. ctl' = [ctl EXCEPT !.last = last("unsupported")]
    BY <1>2, <1>5, <1>9 DEF passes
  <2>2. ~plain
    <3>1. path \in Control!Reads \cup Control!Writes /\ route[2] \in {"GET", "PUT"} /\ route = <<path, route[2]>>
      <4>1. route \in (Control!Reads \cup Control!Writes) \X {"GET", "PUT"}
        BY <1>9 DEF Control!validRoutes
      <4>2. QED
        BY <4>1
    <3>2. <<path[2], route[2]>> \in DOMAIN handler
      BY <1>9, <3>1, EveryRouteIsKnown
    <3>3. QED
      BY <1>9, <3>2
  <2>3. Answers(last("unsupported"))
    BY <1>3, <1>6, <1>9, <2>2 DEF Answers
  <2>4. QED
    BY <2>1, <2>3
<1>10. CASE route \in Control!validRoutes /\ passes /\ known \in DOMAIN handler
  <2>1. PICK calls \in handler[known] :
          ctl' = [[ctl EXCEPT !.last = last("served")]
                    EXCEPT !.todo[r] = calls, !.served = @ + (IF calls = Control!Show THEN 0 ELSE 1)]
    BY <1>2, <1>5, <1>10 DEF passes
  <2>2. calls \in Calls
    BY <1>2, <1>10, <2>1, HandlersMakeCalls DEF Makes
  <2> DEFINE served == ctl.served + (IF calls = Control!Show THEN 0 ELSE 1)
  <2>3. served \in Nat
    <3>1. (IF calls = Control!Show THEN 0 ELSE 1) \in Nat /\ ctl.served \in Nat
      BY <1>1
    <3>2. QED
      BY <3>1, Counted
  <2>4. [ctl EXCEPT !.last = last("served")].served = ctl.served
        /\ [ctl EXCEPT !.last = last("served")].todo = ctl.todo
    BY <1>0 DEF ControlTypes
  <2>5. ctl' = [ctl EXCEPT !.last = last("served"), !.todo[r] = calls, !.served = served]
    BY <2>1, <2>4
  <2>6. Answers(last("served"))
    BY <1>3, <1>6, <1>10 DEF Answers
  <2> HIDE DEF served
  <2>7. QED
    BY <2>2, <2>3, <2>5, <2>6
<1>11. QED
  BY <1>7, <1>8, <1>9, <1>10

LEMMA OneThenTwo ==
  ASSUME NEW a, NEW b, NEW c
  PROVE  <<a>> \o <<b, c>> = <<a, b, c>>
<1> DEFINE S == {a, b, c}
<1>1. <<a>> \in Seq(S) /\ <<b, c>> \in Seq(S) /\ <<a, b, c>> \in Seq(S)
  OBVIOUS
<1>2. Len(<<a>>) = 1 /\ Len(<<b, c>>) = 2 /\ Len(<<a, b, c>>) = 3
  OBVIOUS
<1>3. /\ <<a>> \o <<b, c>> \in Seq(S) /\ Len(<<a>> \o <<b, c>>) = 3
  BY <1>1, <1>2, ConcatProperties
<1>4. \A i \in 1 .. 3 : (<<a>> \o <<b, c>>)[i] = <<a, b, c>>[i]
  BY <1>1, <1>2, ConcatProperties
<1>5. QED
  BY <1>1, <1>2, <1>3, <1>4, SeqEqual

\* The calls of a request, one after the other.
LEMMA CallsInTurn ==
  /\ \A l \in Control!Loops, s \in {"stopped", "running"} :
       Head(Control!Status(l, s)) = <<l, s>> /\ Tail(Control!Status(l, s)) = <<>>
  /\ \A l \in Control!Loops : Head(Control!Restart(l)) = <<l, "stopped">> /\ Tail(Control!Restart(l)) = Running(l)
  /\ \A t \in {"openvpn", "wireguard"} :
       Head(Control!SetSettings(t)) = <<"type", t>> /\ Tail(Control!SetSettings(t)) = Control!Restart("vpn")
<1>1. /\ \A l \in Control!Loops, s \in {"stopped", "running"} :
           Head(Control!Status(l, s)) = <<l, s>> /\ Tail(Control!Status(l, s)) = <<>>
      /\ \A l \in Control!Loops :
           Head(Control!Restart(l)) = <<l, "stopped">> /\ Tail(Control!Restart(l)) = Running(l)
  BY DEF Control!Status, Control!Restart, Running
<1>2. \A t \in {"openvpn", "wireguard"} :
        Control!SetSettings(t) = <<<<"type", t>>, <<"vpn", "stopped">>, <<"vpn", "running">>>>
  BY OneThenTwo DEF Control!SetSettings, Control!Restart
<1>3. \A a, b, c : Head(<<a, b, c>>) = a /\ Tail(<<a, b, c>>) = <<b, c>>
  OBVIOUS
<1>4. \A t \in {"openvpn", "wireguard"} :
        Head(Control!SetSettings(t)) = <<"type", t>> /\ Tail(Control!SetSettings(t)) = Control!Restart("vpn")
  <2> SUFFICES ASSUME NEW t \in {"openvpn", "wireguard"}
               PROVE  /\ Head(Control!SetSettings(t)) = <<"type", t>>
                      /\ Tail(Control!SetSettings(t)) = Control!Restart("vpn")
    OBVIOUS
  <2> DEFINE a == <<"type", t>>
             b == <<"vpn", "stopped">>
             c == <<"vpn", "running">>
  <2>1. Control!Restart("vpn") = <<b, c>>
    BY DEF Control!Restart
  <2>2. Control!SetSettings(t) = <<a, b, c>>
    BY <1>2
  <2> HIDE DEF a, b, c
  <2>3. Head(Control!SetSettings(t)) = a /\ Tail(Control!SetSettings(t)) = Control!Restart("vpn")
    BY <1>3, <2>1, <2>2
  <2>4. QED
    BY <2>3 DEF a
<1>5. QED
  BY <1>1, <1>4

LEMMA ControlFrame ==
  ASSUME ControlInv, ControlTypes', ctl'.file = ctl.file, ctl'.default = ctl.default,
         ctl'.last = ctl.last \/ Answers(ctl'.last), RestartInv'
  PROVE  ControlInv'
<1>1. RolesInv
  BY DEF ControlInv
<1>2. Control!Validate(ctl.file, ctl.default)'
  BY <1>1 DEF RolesInv, Control!Validate, Control!SetDefaultRole
<1>3. Control!RolesDecide' /\ Control!RoutesAreServed'
  BY <1>1 DEF RolesInv, Control!RolesDecide, Control!RoutesAreServed, Answers
<1>4. QED
  BY <1>2, <1>3 DEF ControlInv, RolesInv

LEMMA ControlServe ==
  ASSUME ControlInv, NEW r \in Servings, Control!ServeHTTP(r)
  PROVE  ControlInv'
<1>0. ControlTypes /\ RestartInv
  BY DEF ControlInv
<1>1. PICK last : /\ Answers(last)
                  /\ \/ ctl' = [ctl EXCEPT !.last = last]
                     \/ \E calls \in Calls, served \in Nat :
                          ctl' = [ctl EXCEPT !.last = last, !.todo[r] = calls, !.served = served]
  BY AnsweredRight
<1>2. ctl.todo \in [Servings -> Calls] /\ ctl.served \in Nat /\ last \in Last
  BY <1>0, <1>1 DEF ControlTypes, Answers
<1>3. PICK todo \in [Servings -> Calls], served \in Nat :
        /\ ctl' = [ctl EXCEPT !.last = last, !.todo = todo, !.served = served]
        /\ \A q \in Servings : q # r => todo[q] = ctl.todo[q]
  <2>1. CASE ctl' = [ctl EXCEPT !.last = last]
    <3>1. ctl' = [ctl EXCEPT !.last = last, !.todo = ctl.todo, !.served = ctl.served]
      BY <1>0, <2>1 DEF ControlTypes
    <3>2. QED
      BY <1>2, <3>1
  <2>2. ASSUME NEW calls \in Calls, NEW served \in Nat,
               ctl' = [ctl EXCEPT !.last = last, !.todo[r] = calls, !.served = served]
        PROVE  \E todo \in [Servings -> Calls], n \in Nat :
                 /\ ctl' = [ctl EXCEPT !.last = last, !.todo = todo, !.served = n]
                 /\ \A q \in Servings : q # r => todo[q] = ctl.todo[q]
    <3> DEFINE todo == [ctl.todo EXCEPT ![r] = calls]
    <3>1. todo \in [Servings -> Calls] /\ \A q \in Servings : q # r => todo[q] = ctl.todo[q]
      BY <1>2
    <3>2. ctl' = [ctl EXCEPT !.last = last, !.todo = todo, !.served = served]
      BY <2>2
    <3> HIDE DEF todo
    <3>3. QED
      BY <3>1, <3>2
  <2>3. QED
    BY <1>1, <2>1, <2>2
<1>4. ControlTypes'
  BY <1>0, <1>2, <1>3 DEF ControlTypes
<1>5. /\ ctl'.file = ctl.file /\ ctl'.default = ctl.default /\ ctl'.last = last /\ ctl'.ended = ctl.ended
      /\ ctl'.on = ctl.on /\ ctl'.asked = ctl.asked /\ ctl'.todo = todo
  BY <1>0, <1>3 DEF ControlTypes
<1>6. ctl.todo[r] = <<>> /\ \A l \in Control!Loops : Running(l) # <<>>
  BY DEF Control!ServeHTTP, Running, Control!Status
<1>7. RestartInv'
  BY <1>0, <1>3, <1>5, <1>6 DEF RestartInv
<1>8. QED
  BY <1>1, <1>4, <1>5, <1>7, ControlFrame

LEMMA ControlCall ==
  ASSUME ControlInv, NEW r \in Servings, Control!Call(r)
  PROVE  ControlInv'
<1>0. ControlTypes /\ RestartInv
  BY DEF ControlInv
<1>1. ctl.todo \in [Servings -> Calls] /\ ctl.on \in [Control!Loops -> BOOLEAN] /\ ctl.asked \subseteq Control!Loops
  BY <1>0 DEF ControlTypes
<1> DEFINE calls == ctl.todo[r]
           rest == Tail(calls)
           TodoIs(left) == [ctl.todo EXCEPT ![r] = left]
<1>2. calls \in Calls /\ calls # <<>>
  BY <1>1 DEF Control!Call
<1>3. ASSUME NEW t \in {"openvpn", "wireguard"}, calls = Control!SetSettings(t)
      PROVE  ControlInv'
  <2>1. Head(calls) = <<"type", t>> /\ rest = Control!Restart("vpn")
    BY <1>3, CallsInTurn
  <2> DEFINE left == IF ctl.type = t THEN <<>> ELSE rest
             todo == [ctl.todo EXCEPT ![r] = left]
  <2>2. ctl' = [ctl EXCEPT !.todo = todo, !.type = t]
    <3>1. Control!SetType(r, t)
      <4>1. Head(calls)[1] = "type" /\ Head(calls)[2] = t
        BY <2>1
      <4>2. QED
        BY <4>1 DEF Control!Call
    <3>2. QED
      BY <3>1 DEF Control!SetType
  <2>3. left \in Calls
    <3>1. "vpn" \in Control!Loops
      BY DEF Control!Loops
    <3>2. QED
      BY <2>1, <3>1, RestartCalls, NothingToDo
  <2>4. todo \in [Servings -> Calls] /\ \A q \in Servings : q # r => todo[q] = ctl.todo[q]
    BY <1>1, <2>3
  <2> HIDE DEF todo, left
  <2>5. ControlTypes'
    BY <1>0, <2>2, <2>4 DEF ControlTypes
  <2>6. /\ ctl'.file = ctl.file /\ ctl'.default = ctl.default /\ ctl'.last = ctl.last /\ ctl'.ended = ctl.ended
        /\ ctl'.on = ctl.on /\ ctl'.asked = ctl.asked /\ ctl'.todo = todo
    BY <1>0, <2>2 DEF ControlTypes
  <2>7. \A l \in Control!Loops : Running(l) # calls
    <3>1. \A l \in Control!Loops : Head(Running(l)) = <<l, "running">> /\ l # "type"
      BY CallsInTurn DEF Running, Control!Loops
    <3>2. QED
      BY <2>1, <3>1
  <2>8. RestartInv'
    BY <1>0, <2>4, <2>6, <2>7 DEF RestartInv
  <2>9. QED
    BY <2>5, <2>6, <2>8, ControlFrame
<1>4. ASSUME NEW l \in Control!Loops, NEW s \in {"stopped", "running"},
             Head(calls) = <<l, s>>, rest \in {<<>>, Running(l)},
             s = "running" \/ calls # Running(l), s = "running" => rest = <<>>,
             \A k \in Control!Loops : k # l => calls # Running(k)
      PROVE  ControlInv'
  <2>1. Control!ApplyStatus(r, l, s)
    <3>1. l # "type"
      BY DEF Control!Loops
    <3>2. QED
      BY <1>4, <3>1 DEF Control!Call
  <2> DEFINE todo == [ctl.todo EXCEPT ![r] = rest]
             on == [ctl.on EXCEPT ![l] = (s = "running")]
             asked == IF s = "running" THEN ctl.asked \ {l}
                      ELSE IF rest = <<>> THEN ctl.asked \cup {l} ELSE ctl.asked
  <2>2. \/ ctl' = [ctl EXCEPT !.todo = todo, !.on = on, !.asked = asked]
        \/ ctl.ended /\ ctl' = [ctl EXCEPT !.todo = todo]
    BY <2>1 DEF Control!ApplyStatus
  <2>3. rest \in Calls
    BY <1>4, RestartCalls, NothingToDo
  <2>4. todo \in [Servings -> Calls] /\ \A q \in Servings : todo[q] = IF q = r THEN rest ELSE ctl.todo[q]
    BY <1>1, <2>3
  <2>5. on \in [Control!Loops -> BOOLEAN]
    <3>1. (s = "running") \in BOOLEAN
      BY Zenon
    <3>2. QED
      BY <1>1, <3>1, Zenon
  <2>6. asked \in SUBSET Control!Loops
    BY <1>1
  <2>7. CASE ctl.ended /\ ctl' = [ctl EXCEPT !.todo = todo]
    <3> HIDE DEF todo
    <3>1. ControlTypes'
      BY <1>0, <2>4, <2>7 DEF ControlTypes
    <3>2. ctl'.file = ctl.file /\ ctl'.default = ctl.default /\ ctl'.last = ctl.last /\ ctl'.ended
      BY <1>0, <2>7 DEF ControlTypes
    <3>3. QED
      BY <3>1, <3>2, ControlFrame DEF RestartInv
  <2>8. CASE ctl' = [ctl EXCEPT !.todo = todo, !.on = on, !.asked = asked]
    <3>1. \A k \in Control!Loops : k # l => on[k] = ctl.on[k] /\ (k \in ctl.asked => k \in asked)
      BY <1>1
    <3>2. on[l] = (s = "running")
      BY <1>1, Zenon
    <3>3. on[l] \/ l \in asked \/ todo[r] = Running(l)
      BY <1>4, <2>4, <3>2
    <3> HIDE DEF todo, on, asked
    <3>4. ControlTypes'
      BY <1>0, <2>4, <2>5, <2>6, <2>8 DEF ControlTypes
    <3>5. /\ ctl'.file = ctl.file /\ ctl'.default = ctl.default /\ ctl'.last = ctl.last /\ ctl'.ended = ctl.ended
          /\ ctl'.on = on /\ ctl'.asked = asked /\ ctl'.todo = todo
      BY <1>0, <2>8 DEF ControlTypes
    <3>6. RestartInv'
      <4> SUFFICES ASSUME ~ctl.ended, NEW k \in Control!Loops
                   PROVE  on[k] \/ k \in asked \/ \E q \in Servings : todo[q] = Running(k)
        BY <3>5 DEF RestartInv
      <4>1. CASE k = l
        BY <3>3, <4>1
      <4>2. CASE k # l
        <5>1. ctl.on[k] \/ k \in ctl.asked \/ \E q \in Servings : ctl.todo[q] = Running(k)
          BY <1>0 DEF RestartInv
        <5>2. CASE ctl.on[k] \/ k \in ctl.asked
          BY <3>1, <4>2, <5>2
        <5>3. ASSUME NEW q \in Servings, ctl.todo[q] = Running(k) PROVE todo[q] = Running(k)
          BY <1>4, <2>4, <4>2, <5>3
        <5>4. QED
          BY <5>1, <5>2, <5>3
      <4>3. QED
        BY <4>1, <4>2
    <3>7. QED
      BY <3>4, <3>5, <3>6, ControlFrame
  <2>9. QED
    BY <2>2, <2>7, <2>8
<1>5. ASSUME NEW l \in Control!Loops, NEW s \in {"stopped", "running"}, calls = Control!Status(l, s)
      PROVE  ControlInv'
  <2>1. Head(calls) = <<l, s>> /\ rest = <<>>
    BY <1>5, CallsInTurn
  <2>2. \A k \in Control!Loops : Head(Running(k)) = <<k, "running">>
    BY CallsInTurn DEF Running
  <2>3. \A k \in Control!Loops : calls = Running(k) => k = l /\ s = "running"
    BY <2>1, <2>2
  <2>4. s = "running" \/ calls # Running(l)
    BY <2>3
  <2>5. QED
    BY <1>4, <2>1, <2>3, <2>4
<1>6. ASSUME NEW l \in Control!Loops, calls = Control!Restart(l)
      PROVE  ControlInv'
  <2>1. Head(calls) = <<l, "stopped">> /\ rest = Running(l)
    BY <1>6, CallsInTurn
  <2>2. \A k \in Control!Loops : Head(Running(k)) = <<k, "running">>
    BY CallsInTurn DEF Running
  <2>3. \A k \in Control!Loops : calls # Running(k)
    BY <2>1, <2>2
  <2>4. QED
    BY <1>4, <2>1, <2>3
<1>7. QED
  BY <1>2, <1>3, <1>5, <1>6 DEF Calls, Control!Show

LEMMA ControlIInv == Control!Spec => []ControlInv
<1>1. ControlInv /\ [Control!Next]_ctl => ControlInv'
  <2> SUFFICES ASSUME ControlInv, [Control!Next]_ctl PROVE ControlInv'
    OBVIOUS
  <2>0. ControlTypes /\ RestartInv
    BY DEF ControlInv
  <2>1. CASE Control!Shutdown
    <3>1. ctl' = [ctl EXCEPT !.ended = TRUE]
      BY <2>1 DEF Control!Shutdown
    <3>2. ControlTypes'
      BY <2>0, <3>1 DEF ControlTypes
    <3>3. ctl'.file = ctl.file /\ ctl'.default = ctl.default /\ ctl'.last = ctl.last /\ ctl'.ended
      BY <2>0, <3>1 DEF ControlTypes
    <3>4. QED
      BY <3>2, <3>3, ControlFrame DEF RestartInv
  <2>2. ASSUME NEW r \in Servings, Control!ServeHTTP(r) PROVE ControlInv'
    BY <2>2, ControlServe
  <2>3. ASSUME NEW r \in Servings, Control!Call(r) PROVE ControlInv'
    BY <2>3, ControlCall
  <2>4. CASE UNCHANGED ctl
    <3>1. ControlTypes' /\ RestartInv'
      BY <2>0, <2>4 DEF ControlTypes, RestartInv
    <3>2. QED
      BY <2>4, <3>1, ControlFrame
  <2>5. QED
    BY <2>1, <2>2, <2>3, <2>4 DEF Control!Next
<1>2. QED
  BY ControlInit, <1>1, PTL DEF Control!Spec

LEMMA ControlImplemented == Spec => Control!Spec
<1>1. Init => Control!Init
  BY DEF Init
<1>2. [Next]_vars => [Control!Next]_ctl
  BY DEF Next, vars, StreamsNext, WatchNext, OperationsNext, StoresNext, AccessNext, ControlNext
<1>3. QED
  BY <1>1, <1>2, PTL DEF Spec, Control!Spec

LEMMA ControlInvIsEnough ==
  ControlInv => Control!RolesDecide /\ Control!RoutesAreServed /\ Control!RestartsEndRunning
<1>1. \A l \in Control!Loops : Running(l) # <<>>
  BY DEF Running, Control!Status
<1>2. QED
  BY <1>1 DEF ControlInv, RolesInv, RestartInv, Control!RestartsEndRunning

(* auth, server: the rate holds in every window of time, sessions are       *)
(* served while they live, the roles decide, every route has a handler, and *)
(* restarts that overlap leave no loop stopped that nobody asked to stop.   *)
THEOREM AccessIsLimitedByRules == Spec => []AccessIsLimited
<1>1. AccessInv /\ ControlInv => AccessIsLimited
  BY AccessInvIsEnough, ControlInvIsEnough DEF AccessIsLimited
<1>2. QED
  BY AccessImplemented, AccessIInv, ControlImplemented, ControlIInv, <1>1, PTL
=============================================================================
