--------------------------- MODULE UDPAssociations ---------------------------
(* internal/socks5, udp_router.go: which UDP packets of the clients belong   *)
(* to which association of the SOCKS5 server, and where answers go.          *)
EXTENDS Naturals, Sequences, SequencesExt

CONSTANTS Associations, Addresses5, Ports5,
          QueueSize, Packets

AssociationConstants ==
    /\ QueueSize \in Nat \ {0} /\ Packets \in Nat
    /\ 0 \notin Ports5

Endpoints == [addr : Addresses5, port : Ports5]
NoEndpoint == [addr |-> "any", port |-> 0]

(* What a client may announce: an endpoint, only one half of it, or nothing. *)
Announced == [addr : Addresses5 \cup {"any"}, port : Ports5 \cup {0}]

(* A record with the fields:                                                 *)
(*   of         per association: its place, the address of its control       *)
(*              connection, what its client announced, and its packets       *)
(*   routes     clientAddrPortToAssociation: endpoint to association         *)
(*   bound      associationIDToClientAddrPort                                *)
(*   pending    clientIPToPendingAssociations: address to associations       *)
(*   received   packets so far                                               *)
(*   shared     endpoints that two associations claimed: kept for the        *)
(*              properties                                                   *)
VARIABLE router

NoAssociation == [at |-> "new", control |-> "any", expected |-> NoEndpoint, queue |-> <<>>]

Init ==
    router = [of |-> [a \in Associations |-> NoAssociation], routes |-> [e \in Endpoints |-> {}],
              bound |-> [a \in Associations |-> NoEndpoint], pending |-> [i \in Addresses5 |-> <<>>],
              received |-> 0, shared |-> {}]
-----------------------------------------------------------------------------
Claimed(e) == \E a \in Associations : router.bound[a] = e

(* An endpoint that is announced in full is taken at once, maybe from        *)
(* another association; the others wait for a packet.                        *)
Register(a) ==
    /\ router.of[a].at = "new"
    /\ \E control \in Addresses5, expected \in Announced :
         LET r == [router EXCEPT !.of[a] = [at |-> "open", control |-> control, expected |-> expected, queue |-> <<>>]]
         IN  router' =
               IF expected.addr # "any" /\ expected.port # 0
               THEN [r EXCEPT !.routes[expected] = {a}, !.bound[a] = expected,
                              !.shared = IF Claimed(expected) THEN @ \cup {expected} ELSE @]
               ELSE [r EXCEPT !.pending[control] = Append(@, a)]

(* The control connection or the server has ended, and the handler with it:  *)
(* the endpoint is forgotten, whoever holds it by now.                       *)
Unregister(a) ==
    /\ router.of[a].at = "open"
    /\ router' = [router EXCEPT
         !.of[a] = [NoAssociation EXCEPT !.at = "ended"],
         !.bound[a] = NoEndpoint,
         !.routes = [e \in Endpoints |-> IF e = router.bound[a] THEN {} ELSE @[e]],
         !.pending[router.of[a].control] = RemoveFirst(@, a)]
-----------------------------------------------------------------------------
(* matchesExpectedClientEndpoint                                             *)
Matches(a, e) ==
    /\ router.of[a].expected.addr \in {"any", e.addr}
    /\ router.of[a].expected.port \in {0, e.port}

(* findClientAssociation: the one that has the endpoint, or else the first   *)
(* one waiting from that address that it matches, which takes it.            *)
Fitting(e) == {i \in DOMAIN router.pending[e.addr] : Matches(router.pending[e.addr][i], e)}

Find(e) ==
    IF router.routes[e] # {} THEN router
    ELSE IF Fitting(e) = {} THEN router
    ELSE LET i == CHOOSE i \in Fitting(e) : \A j \in Fitting(e) : i <= j
             a == router.pending[e.addr][i]
         IN  [router EXCEPT !.pending[e.addr] = RemoveAt(@, i), !.routes[e] = {a}, !.bound[a] = e,
                            !.shared = IF Claimed(e) THEN @ \cup {e} ELSE @]

(* routePacket: a packet without association, or for one whose queue is full,*)
(* is dropped.                                                               *)
Receive(e) ==
    /\ router.received < Packets
    /\ LET r == [Find(e) EXCEPT !.received = @ + 1]
       IN  router' = IF \E a \in r.routes[e] : Len(r.of[a].queue) < QueueSize
                     THEN [r EXCEPT !.of[CHOOSE a \in r.routes[e] : TRUE].queue = Append(@, e)] ELSE r

Forward(a) ==
    /\ router.of[a].at = "open" /\ router.of[a].queue # <<>>
    /\ router' = [router EXCEPT !.of[a].queue = Tail(@)]
-----------------------------------------------------------------------------
Next ==
    \/ \E a \in Associations : Register(a) \/ Unregister(a) \/ Forward(a)
    \/ \E e \in Endpoints : Receive(e)

Spec == Init /\ [][Next]_router
-----------------------------------------------------------------------------
TypeOK ==
    /\ \A a \in Associations :
         /\ router.of[a].at \in {"new", "open", "ended"}
         /\ router.of[a].queue \in Seq(Endpoints) /\ Len(router.of[a].queue) <= QueueSize
         /\ router.bound[a] \in Endpoints \cup {NoEndpoint}
    /\ \A e \in Endpoints : router.routes[e] \subseteq Associations
    /\ \A i \in Addresses5 : router.pending[i] \in Seq(Associations)

(* Nothing is routed to an association that has ended, and none that waits   *)
(* for its first packet has an endpoint already.                             *)
RoutesAreLive ==
    /\ \A e \in Endpoints : \A a \in router.routes[e] : router.of[a].at = "open" /\ router.bound[a] = e
    /\ \A i \in Addresses5 : \A k \in DOMAIN router.pending[i] :
         LET a == router.pending[i][k]
         IN  router.of[a].at = "open" /\ router.of[a].control = i /\ router.bound[a] = NoEndpoint

(* What an association forwards comes from the client its answers go to, and *)
(* a client that has an association is heard, unless another one has claimed *)
(* its endpoint too: when one of two that share it ends, the other is deaf.  *)
ClientsAreHeard ==
    \A a \in Associations :
      router.of[a].at = "open" =>
        /\ \A k \in DOMAIN router.of[a].queue : router.of[a].queue[k] = router.bound[a]
        /\ router.bound[a] # NoEndpoint /\ router.bound[a] \notin router.shared
             => router.routes[router.bound[a]] = {a}
=============================================================================
