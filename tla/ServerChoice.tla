---------------------------- MODULE ServerChoice -----------------------------
(* internal/storage, filter.go, and internal/provider/utils, connection.go   *)
(* and pick.go: which server a connection is made to. The VPN loop asks at   *)
(* every start and restart, with the selection the settings have by then.    *)
EXTENDS Naturals, Sequences, FiniteSets

CONSTANTS
    Catalogue,      \* servers: [vpn, country, forward, ips], a family per IP
    Wanted,         \* selections: [vpn, countries, forwardOnly, target]
    Picks           \* how many connections are asked for

ChoiceConstants ==
    /\ IsFiniteSet(Catalogue)
    /\ \A s \in Catalogue : s.ips \in Seq({4, 6}) /\ s.vpn \in {"openvpn", "wireguard"}
    /\ \A w \in Wanted : w.countries \subseteq {s.country : s \in Catalogue}
    /\ Picks \in Nat

(* A connection is to an address of a server.                                *)
Connection(server, i) == [server |-> server, ip |-> i]

(* A record with the fields:                                                 *)
(*   pool, next    ConnectionPicker: the connections fingerprint stands for, *)
(*                 and nextIndex                                             *)
(*   asked         the selection and IPv6 support of the last call           *)
(*   picked        the connections picked since these have changed: kept for *)
(*                 the properties                                            *)
(*   calls         count what happens                                        *)
VARIABLE choice

Init == choice = [pool |-> <<>>, next |-> 1, asked |-> <<>>, picked |-> <<>>, calls |-> 0]
-----------------------------------------------------------------------------
(* filterServer                                                              *)
Chosen(w) ==
    {s \in Catalogue : /\ s.vpn = w.vpn
                       /\ w.forwardOnly => s.forward
                       /\ w.countries # {} => s.country \in w.countries}

(* GetConnection: every address of a server, those of IPv6 if it is there,   *)
Addresses(s, ipv6) == {Connection(s, i) : i \in {i \in DOMAIN s.ips : ipv6 \/ s.ips[i] = 4}}

Pool(w, ipv6) == UNION {Addresses(s, ipv6) : s \in Chosen(w)}

(* sorted with those of IPv6 first, else as the servers were shuffled and    *)
(* each lists its addresses.                                                 *)
Orders(servers) ==
    {order \in [servers -> 1 .. Cardinality(servers)] : \A s, t \in servers : order[s] = order[t] => s = t}

Family(c) == c.server.ips[c.ip]

Before(order, c, d) ==
    IF Family(c) # Family(d) THEN Family(c) = 6
    ELSE IF c.server # d.server THEN order[c.server] < order[d.server]
    ELSE c.ip < d.ip

Connections(pool, order) ==
    [i \in 1 .. Cardinality(pool) |-> CHOOSE c \in pool : Cardinality({d \in pool : Before(order, d, c)}) = i - 1]
-----------------------------------------------------------------------------
(* ConnectionPicker.pickConnection: from the first again for another pool;   *)
(* the same connections in another order are another pool.                   *)
NextOf(c, connections) == IF c.pool # connections \/ c.next > Len(connections) THEN 1 ELSE c.next

Cycle(c, connections) ==
    LET i == NextOf(c, connections)
    IN  [c EXCEPT !.pool = connections, !.next = IF i = Len(connections) THEN 1 ELSE i + 1,
                  !.picked = Append(@, connections[i])]

(* pickConnection: Wireguard needs the connection with the address and its   *)
(* public key, OpenVPN connects to the address whatever the server.          *)
PickConnection(c, w, connections) ==
    LET fits == {i \in DOMAIN connections : connections[i] \in w.target}
        first == CHOOSE i \in fits : \A j \in fits : i <= j
    IN  IF connections = <<>> THEN c
        ELSE IF w.vpn # "wireguard" \/ w.target = {} THEN Cycle(c, connections)
        ELSE IF fits = {} THEN c ELSE [c EXCEPT !.picked = Append(@, connections[first])]

GetConnection(w, ipv6) ==
    /\ choice.calls < Picks
    /\ \E order \in Orders(Chosen(w)) :
         LET asked == [choice EXCEPT !.calls = @ + 1, !.asked = <<w, ipv6>>,
                                     !.picked = IF choice.asked = <<w, ipv6>> THEN @ ELSE <<>>]
         IN  choice' = PickConnection(asked, w, Connections(Pool(w, ipv6), order))
-----------------------------------------------------------------------------
Next == \E w \in Wanted, ipv6 \in BOOLEAN : GetConnection(w, ipv6)

Spec == Init /\ [][Next]_choice
-----------------------------------------------------------------------------
TypeOK ==
    /\ choice.next \in 1 .. Len(choice.pool) + 1
    /\ choice.calls \in 0 .. Picks
    /\ \A i \in DOMAIN choice.picked : choice.picked[i].server \in Catalogue

(* The pool the selection leaves, and connections of which none comes again  *)
(* before all others came.                                                   *)
Asked == Pool(choice.asked[1], choice.asked[2])

Different(picked) == \A i, j \in DOMAIN picked : i < j /\ j - i < Cardinality(Asked) => picked[i] # picked[j]

(* A connection that is picked is one the selection wants, with the address  *)
(* asked for if there is one, and as long as one server is left its          *)
(* addresses are used in turn, so that restarts get past one that is dead.   *)
PicksAreWanted ==
    LET w == choice.asked[1]
        picked == choice.picked
    IN  picked # <<>> =>
          /\ \A i \in DOMAIN picked : picked[i] \in Asked
          /\ w.vpn = "wireguard" /\ w.target # {} => \A i \in DOMAIN picked : picked[i] \in w.target
          /\ Cardinality(Chosen(w)) = 1 /\ ~(w.vpn = "wireguard" /\ w.target # {}) => Different(picked)

(* pick.go:76: "Otherwise, it cycles through the pool of connections."       *)
PoolIsCycled ==
    choice.picked # <<>> /\ choice.asked[1].target = {} => Different(choice.picked)
=============================================================================
