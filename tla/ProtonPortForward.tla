-------------------------- MODULE ProtonPortForward --------------------------
(* internal/provider/protonvpn, portforward.go, and internal/natpmp: ports   *)
(* mapped by the gateway with NAT-PMP, each for UDP and for TCP, and mapped  *)
(* again before they expire. Packets are lost, which takes time, and ports   *)
(* that have expired go to others. A unit of time is 15 seconds.             *)
EXTENDS Naturals, FiniteSets

CONSTANTS
    Externals,      \* ports of the gateway
    NonSymmetric,   \* nonSymmetricPortStart
    PortsCounts,    \* how many ports the settings may ask for
    Tries,          \* maxRetries, each lost one taking a unit of time
    PMPTime, PMPLosses, Thefts

ProtonConstants ==
    /\ Externals \subseteq Nat \ {0, 1} /\ PortsCounts \subseteq Nat \ {0}
    /\ NonSymmetric \in Nat \ {0, 1} /\ Tries \in Nat \ {0} /\ {PMPTime, PMPLosses, Thefts} \subseteq Nat

Lifetime == 4
RefreshTimeout == 3
Protocols == {"udp", "tcp"}

Mapping(internal, until) == [internal |-> internal, until |-> until]
Unmapped == Mapping(0, 0)
Other == 1              \* what the gateway maps for another client

(* A record with the fields:                                                 *)
(*   count      PortsCount                                                   *)
(*   at         "adding", "waiting", "refreshing" or "failed"                *)
(*   ports      internalToExternalPorts                                      *)
(*   first      the external port of the first mapping                       *)
(*   internal, external, protocol   the mapping asked for                    *)
(*   udp        the port given for UDP                                       *)
(*   todo       internal ports still to refresh                              *)
(*   tries      of this request; losses, thefts count what happens           *)
(*   now, due   time, and that of the next refresh                           *)
(*   since, took   when the last round of requests began, how long it took   *)
(*   gateway    per protocol and external port its mapping                   *)
VARIABLE pmp

Init ==
    \E count \in PortsCounts :
      pmp = [count |-> count, at |-> "adding", ports |-> [p \in {} |-> 0], first |-> 0, internal |-> 0, external |-> 1,
             protocol |-> "udp", udp |-> 0, todo |-> {}, tries |-> 0, losses |-> 0, thefts |-> 0, now |-> 0,
             due |-> 0, since |-> 0, took |-> 0, gateway |-> [t \in Protocols |-> [e \in Externals |-> Unmapped]]]
-----------------------------------------------------------------------------
(* The gateway, as the code relies on it: a port that is mapped is renewed,  *)
(* else the port asked for is given if it is free, or else another one.      *)
Live(m) == m.internal = Other \/ m.until >= pmp.now
Free(t) == {e \in Externals : pmp.gateway[t][e] = Unmapped \/ ~Live(pmp.gateway[t][e])}

Answers(t, internal, external) ==
    LET mine == {e \in Externals \ Free(t) : internal # 0 /\ pmp.gateway[t][e].internal = internal}
    IN  IF mine # {} THEN mine ELSE IF external \in Free(t) THEN {external} ELSE Free(t)

Given(s, e) ==
    [s EXCEPT !.gateway[s.protocol][e] = Mapping(IF s.internal = 0 THEN e ELSE s.internal, s.now + Lifetime)]

Steal ==
    /\ pmp.thefts < Thefts
    /\ \E t \in Protocols : \E e \in Free(t) :
         pmp' = [pmp EXCEPT !.thefts = @ + 1, !.gateway[t][e] = Mapping(Other, 0)]
-----------------------------------------------------------------------------
Asking == pmp.at \in {"adding", "refreshing"}
Ask(s, internal, external) ==
    [s EXCEPT !.internal = internal, !.external = external, !.protocol = "udp", !.udp = 0, !.tries = 0]

Due(now) == now + RefreshTimeout

Wait(s) == [s EXCEPT !.at = "waiting", !.due = Due(s.now), !.took = s.now - s.since]

(* PortForward: the first mapping is of a port to itself; the others are of  *)
(* fixed internal ports, one further if the first port is the first of them. *)
First == [internal |-> 0, external |-> 1]
StartMinusOne(s) == IF s.first = NonSymmetric THEN NonSymmetric ELSE NonSymmetric - 1

AddNext(s, i) == IF i < s.count THEN Ask(s, StartMinusOne(s) + i, 0) ELSE Wait(s)

With(ports, internal, e) == [p \in DOMAIN ports \cup {internal} |-> IF p = internal THEN e ELSE ports[p]]

Added(s, e) ==
    IF s.internal = 0 THEN AddNext([s EXCEPT !.ports = With(@, e, e), !.first = e], 1)
    ELSE AddNext([s EXCEPT !.ports = With(@, s.internal, e)], s.internal - StartMinusOne(s) + 1)

(* KeepPortForward: all mappings, in any order, then the timer starts again. *)
RefreshNext(s) ==
    IF s.todo = {} THEN {Wait(s)} ELSE {Ask(s, p, s.ports[p]) : p \in s.todo}

Refreshed(s) == RefreshNext([s EXCEPT !.todo = @ \ {s.internal}])

Refresh ==
    /\ pmp.at = "waiting" /\ pmp.now >= pmp.due
    /\ pmp' \in RefreshNext([pmp EXCEPT !.at = "refreshing", !.todo = DOMAIN pmp.ports, !.since = pmp.now])

(* addPortMappingTCPUDP: UDP, then TCP, which must give the same port, that  *)
(* asked for if one was.                                                     *)
Concluded(s, e) == IF s.at = "adding" THEN {Added(s, e)} ELSE Refreshed(s)

addPortMappingTCPUDP(s, e) ==
    LET failed == [s EXCEPT !.at = "failed"]
    IN  IF s.external \notin {0, 1, e} THEN {failed}
        ELSE IF s.protocol = "udp" THEN {[s EXCEPT !.protocol = "tcp", !.udp = e, !.tries = 0]}
        ELSE IF s.udp # e THEN {failed} ELSE Concluded(s, e)

(* rpc: the request or its answer is lost and sent again, or it is answered. *)
Answered ==
    /\ Asking
    /\ \E e \in Answers(pmp.protocol, pmp.internal, pmp.external) : pmp' \in addPortMappingTCPUDP(Given(pmp, e), e)

Lost ==
    /\ Asking
    /\ pmp.losses < PMPLosses /\ pmp.now < PMPTime
    /\ \E e \in Answers(pmp.protocol, pmp.internal, pmp.external), handled \in BOOLEAN :
         LET s == IF handled THEN Given(pmp, e) ELSE pmp
         IN  pmp' = [s EXCEPT !.now = @ + 1, !.losses = @ + 1, !.tries = @ + 1,
                              !.at = IF pmp.tries + 1 = Tries THEN "failed" ELSE @]

(* No port is left, or the gateway answers with an error.                    *)
Refused == Asking /\ Answers(pmp.protocol, pmp.internal, pmp.external) = {} /\ pmp' = [pmp EXCEPT !.at = "failed"]

Tick ==
    /\ pmp.at = "waiting" /\ pmp.now < pmp.due /\ pmp.now < PMPTime
    /\ pmp' = [pmp EXCEPT !.now = @ + 1]
-----------------------------------------------------------------------------
Next == Steal \/ Refresh \/ Answered \/ Lost \/ Refused \/ Tick

Spec == Init /\ [][Next]_pmp
-----------------------------------------------------------------------------
TypeOK ==
    /\ pmp.at \in {"adding", "waiting", "refreshing", "failed"}
    /\ pmp.todo \subseteq DOMAIN pmp.ports
    /\ \A p \in DOMAIN pmp.ports : pmp.ports[p] \in Externals
    /\ pmp.tries \in 0 .. Tries

(* A port that is kept is mapped to the internal port it is redirected from, *)
(* for both protocols, unless packets were lost for longer in the last round *)
(* than the time between two rounds leaves: the timer starts after a round.  *)
KeptPortsAreMapped ==
    pmp.at = "waiting" /\ pmp.took <= Lifetime - RefreshTimeout =>
      \A p \in DOMAIN pmp.ports, t \in Protocols :
        LET m == pmp.gateway[t][pmp.ports[p]] IN m.internal = p /\ Live(m)

(* As many ports are forwarded as were asked for, but if the first port is   *)
(* one of the fixed internal ports past the first; and no two of them are the*)
(* same, unless packets were lost for longer in the last round than a mapping*)
(* lives: what was mapped first is then given again.                         *)
AllPortsAreForwarded ==
    pmp.at = "waiting" =>
      /\ pmp.first \notin NonSymmetric + 1 .. NonSymmetric + pmp.count - 2 => Cardinality(DOMAIN pmp.ports) = pmp.count
      /\ pmp.took <= Lifetime =>
           \A p, q \in DOMAIN pmp.ports : pmp.ports[p] = pmp.ports[q] => p = q
=============================================================================
