--------------------------- MODULE NetworkProofs ----------------------------
(* Theorems about Network, for any routes, subnets, servers, paths,          *)
(* associations and bounds. As in ServicesProofs, a behaviour of the whole   *)
(* is a behaviour of each part, and each part has an invariant of its own.   *)
EXTENDS Network, SequenceTheorems, FunctionTheorems, FiniteSetTheorems, WellFoundedInduction, TLAPS

(* A set of numbers has a smallest one.                                      *)
LEMMA Least == ASSUME NEW T \in SUBSET Nat, T # {} PROVE \E x \in T : \A y \in T : x <= y
<1> DEFINE R == {ss \in Nat \X Nat : ss[1] < ss[2]}
<1>1. R = OpToRel(<, Nat)
  BY DEF OpToRel
<1>2. IsWellFoundedOn(R, Nat)
  BY <1>1, NatLessThanWellFounded
<1> HIDE DEF R
<1>3. PICK x \in T : \A y \in T : ~(<<y, x>> \in R)
  BY <1>2, WFMin
<1>4. ASSUME NEW y \in T PROVE x <= y
  <2>1. y \in Nat /\ x \in Nat
    OBVIOUS
  <2>2. <<y, x>> \in Nat \X Nat /\ <<y, x>>[1] = y /\ <<y, x>>[2] = x
    BY <2>1
  <2>3. y < x => <<y, x>> \in R
    BY <2>2 DEF R
  <2>4. QED
    BY <1>3, <2>1, <2>3
<1>5. QED
  BY <1>4

-----------------------------------------------------------------------------
(* UDPAssociations: who is waited for and heard, whose route is whose.       *)

(* A sequence of associations, none of them twice, of which one is removed.  *)
Once(s) == \A k, l \in 1 .. Len(s) : s[k] = s[l] => k = l

LEMMA RemovedAt ==
  ASSUME NEW s \in Seq(Associations), Once(s), NEW i \in 1 .. Len(s), NEW t, t = UDP!RemoveAt(s, i)
  PROVE  /\ t \in Seq(Associations) /\ Once(t)
         /\ \A k \in 1 .. Len(t) : t[k] # s[i] /\ \E l \in 1 .. Len(s) : t[k] = s[l]
<1> DEFINE u == SubSeq(s, 1, i - 1)
           v == SubSeq(s, i + 1, Len(s))
           n == Len(s)
<1>1. n \in Nat /\ i \in Nat /\ \A k \in 1 .. n : s[k] \in Associations
  BY LenProperties, ElementOfSeq
<1>2. (\A k \in 1 .. i - 1 : s[k] \in Associations) /\ (\A k \in i + 1 .. n : s[k] \in Associations)
  BY <1>1
<1>3. u \in Seq(Associations) /\ Len(u) = i - 1 /\ \A k \in 1 .. i - 1 : u[k] = s[k]
  <2>1. 1 \in Int /\ i - 1 \in Int
    BY <1>1
  <2>2. /\ SubSeq(s, 1, i - 1) \in Seq(Associations)
        /\ Len(SubSeq(s, 1, i - 1)) = IF 1 <= i - 1 THEN i - 1 - 1 + 1 ELSE 0
        /\ \A k \in 1 .. i - 1 - 1 + 1 : SubSeq(s, 1, i - 1)[k] = s[1 + k - 1]
    BY <1>2, <2>1, SubSeqProperties
  <2>3. QED
    BY <1>1, <2>2
<1>4. v \in Seq(Associations) /\ Len(v) = n - i /\ \A k \in 1 .. n - i : v[k] = s[i + k]
  <2>1. i + 1 \in Int /\ n \in Int
    BY <1>1
  <2>2. /\ SubSeq(s, i + 1, n) \in Seq(Associations)
        /\ Len(SubSeq(s, i + 1, n)) = IF i + 1 <= n THEN n - (i + 1) + 1 ELSE 0
        /\ \A k \in 1 .. n - (i + 1) + 1 : SubSeq(s, i + 1, n)[k] = s[i + 1 + k - 1]
    BY <1>2, <2>1, SubSeqProperties
  <2>3. QED
    BY <1>1, <2>2
<1>5. t = u \o v
  BY DEF UDP!RemoveAt
<1> HIDE DEF u, v
<1>6. t \in Seq(Associations) /\ Len(t) = n - 1
  BY <1>1, <1>3, <1>4, <1>5, ConcatProperties
<1>7. \A k \in 1 .. n - 1 : t[k] = IF k <= i - 1 THEN u[k] ELSE v[k - (i - 1)]
  <2>1. \A k \in 1 .. Len(u) + Len(v) : (u \o v)[k] = IF k <= Len(u) THEN u[k] ELSE v[k - Len(u)]
    BY <1>3, <1>4, ConcatProperties
  <2>2. QED
    BY <1>1, <1>3, <1>4, <1>5, <2>1
<1>8. \A k \in 1 .. n - 1 : t[k] = IF k < i THEN s[k] ELSE s[k + 1]
  BY <1>1, <1>3, <1>4, <1>7
<1>9. Once(t)
  BY <1>1, <1>6, <1>8 DEF Once
<1>10. \A k \in 1 .. n - 1 : t[k] # s[i]
  BY <1>1, <1>8 DEF Once
<1>11. \A k \in 1 .. n - 1 : \E l \in 1 .. n : t[k] = s[l]
  BY <1>1, <1>8
<1>12. QED
  BY <1>6, <1>9, <1>10, <1>11

LEMMA RemovedFirst ==
  ASSUME NEW s \in Seq(Associations), Once(s), NEW a, NEW t, t = UDP!RemoveFirst(s, a)
  PROVE  /\ t \in Seq(Associations) /\ Once(t)
         /\ \A k \in 1 .. Len(t) : t[k] # a /\ \E l \in 1 .. Len(s) : t[k] = s[l]
<1>1. CASE \E i \in 1 .. Len(s) : s[i] = a
  <2>1. PICK i \in 1 .. Len(s) : s[i] = a
    BY <1>1
  <2>2. {k \in 1 .. Len(s) : s[k] = a} = {i}
    BY <2>1 DEF Once
  <2>3. i \in Nat /\ i <= i
    BY <2>1
  <2>4. UDP!Min({i}) = i
    BY <2>3 DEF UDP!Min
  <2>5. UDP!SelectInSeq(s, LAMBDA x : x = a) = i
    BY <2>2, <2>4 DEF UDP!SelectInSeq
  <2>6. t = UDP!RemoveAt(s, i)
    BY <1>1, <2>5 DEF UDP!RemoveFirst
  <2>7. QED
    BY <2>1, <2>6, RemovedAt
<1>2. CASE ~\E i \in 1 .. Len(s) : s[i] = a
  <2>1. t = s
    BY <1>2 DEF UDP!RemoveFirst
  <2>2. QED
    BY <1>2, <2>1
<1>3. QED
  BY <1>1, <1>2

-----------------------------------------------------------------------------
Places5 == {"new", "open", "ended"}
AnAssociation ==
    [at : Places5, control : Addresses5 \cup {"any"}, expected : UDP!Announced, queue : Seq(UDP!Endpoints)]

UDPStates ==
    [of : [Associations -> AnAssociation], routes : [UDP!Endpoints -> SUBSET Associations],
     bound : [Associations -> UDP!Endpoints \cup {UDP!NoEndpoint}],
     pending : [Addresses5 -> Seq(Associations)], received : Nat, shared : SUBSET UDP!Endpoints]

(* Only an association that is open has an endpoint or packets, and each     *)
(* endpoint leads to one of them at most.                                    *)
OpenInv(r, a) ==
    /\ Len(r.of[a].queue) <= QueueSize
    /\ r.of[a].at = "open" => r.of[a].control \in Addresses5
    /\ r.of[a].at # "open" => r.bound[a] = UDP!NoEndpoint /\ r.of[a].queue = <<>>

RouteInv(r, e) ==
    /\ \A a \in r.routes[e] : r.of[a].at = "open" /\ r.bound[a] = e
    /\ \A a, b \in r.routes[e] : a = b

(* Those that wait do so once, where their client comes from.                *)
Waits(r, i, a) == r.of[a].at = "open" /\ r.of[a].control = i /\ r.bound[a] = UDP!NoEndpoint
WaitInv(r, i) == Once(r.pending[i]) /\ \A k \in 1 .. Len(r.pending[i]) : Waits(r, i, r.pending[i][k])

HeardInv(r, a) ==
    r.of[a].at = "open" =>
      /\ \A k \in 1 .. Len(r.of[a].queue) : r.of[a].queue[k] = r.bound[a]
      /\ r.bound[a] # UDP!NoEndpoint /\ r.bound[a] \notin r.shared => r.routes[r.bound[a]] = {a}

UInv(r) ==
    /\ r \in UDPStates
    /\ \A a \in Associations : OpenInv(r, a) /\ HeardInv(r, a)
    /\ \A e \in UDP!Endpoints : RouteInv(r, e)
    /\ \A i \in Addresses5 : WaitInv(r, i)

LEMMA UDPConstants ==
  /\ QueueSize \in Nat \ {0} /\ 0 \notin Ports5 /\ UDP!NoEndpoint \notin UDP!Endpoints
  /\ UDP!NoEndpoint \in UDP!Announced
<1>1. UDP!AssociationConstants
  BY NetworkAssumption DEF NetworkAssumption
<1>2. QED
  BY <1>1 DEF UDP!AssociationConstants, UDP!NoEndpoint, UDP!Endpoints, UDP!Announced

LEMMA UInvIsEnough == ASSUME UInv(router) PROVE UDP!TypeOK /\ UDP!RoutesAreLive /\ UDP!ClientsAreHeard
<1>1. router \in UDPStates
  BY DEF UInv
<1>2. \A a \in Associations : /\ router.of[a] \in AnAssociation
                             /\ router.bound[a] \in UDP!Endpoints \cup {UDP!NoEndpoint}
  BY <1>1 DEF UDPStates
<1>3. \A i \in Addresses5 : router.pending[i] \in Seq(Associations)
  BY <1>1 DEF UDPStates
<1>4. \A e \in UDP!Endpoints : router.routes[e] \subseteq Associations
  BY <1>1 DEF UDPStates
<1>5. \A a \in Associations :
        /\ router.of[a].at \in {"new", "open", "ended"}
        /\ router.of[a].queue \in Seq(UDP!Endpoints) /\ Len(router.of[a].queue) <= QueueSize
  BY <1>2 DEF UInv, OpenInv, AnAssociation, Places5
<1>6. UDP!TypeOK
  BY <1>2, <1>3, <1>4, <1>5 DEF UDP!TypeOK
<1>7. \A i \in Addresses5 : DOMAIN router.pending[i] = 1 .. Len(router.pending[i])
  BY <1>3, LenProperties
<1>8. UDP!RoutesAreLive
  BY <1>7 DEF UInv, RouteInv, WaitInv, Waits, UDP!RoutesAreLive
<1>9. \A a \in Associations : DOMAIN router.of[a].queue = 1 .. Len(router.of[a].queue)
  BY <1>5, LenProperties
<1>10. UDP!ClientsAreHeard
  BY <1>9 DEF UInv, HeardInv, UDP!ClientsAreHeard
<1>11. QED
  BY <1>6, <1>8, <1>10

(* What the invariant says of an association, when another one changes.      *)
LEMMA OthersKeep ==
  ASSUME NEW r, NEW q, NEW a \in Associations, q.of[a] = r.of[a], q.bound[a] = r.bound[a], r.shared \subseteq q.shared
  PROVE  /\ OpenInv(r, a) => OpenInv(q, a)
         /\ \A i : Waits(r, i, a) => Waits(q, i, a)
         /\ HeardInv(r, a) /\ (r.bound[a] # UDP!NoEndpoint /\ r.bound[a] \notin q.shared
                                => q.routes[r.bound[a]] = r.routes[r.bound[a]])
              => HeardInv(q, a)
BY DEF OpenInv, Waits, HeardInv

LEMMA UDPRegister == ASSUME UInv(router), NEW a \in Associations, UDP!Register(a) PROVE UInv(router')
<1>0. PICK control \in Addresses5, expected \in UDP!Announced :
        LET rec == [at |-> "open", control |-> control, expected |-> expected, queue |-> <<>>]
            r == [router EXCEPT !.of[a] = rec]
        IN  router' =
              IF expected.addr # "any" /\ expected.port # 0
              THEN [r EXCEPT !.routes[expected] = {a}, !.bound[a] = expected,
                             !.shared = IF UDP!Claimed(expected) THEN r.shared \cup {expected} ELSE r.shared]
              ELSE [r EXCEPT !.pending[control] = Append(r.pending[control], a)]
  BY DEF UDP!Register
<1> DEFINE rec == [at |-> "open", control |-> control, expected |-> expected, queue |-> <<>>]
           of == [router.of EXCEPT ![a] = rec]
<1>1. /\ router \in UDPStates /\ router.of[a].at = "new" /\ router.bound[a] = UDP!NoEndpoint
      /\ \A e \in UDP!Endpoints : \A b \in router.routes[e] : router.of[b].at = "open" /\ router.bound[b] = e
  BY DEF UInv, OpenInv, RouteInv, UDP!Register
<1>2. rec \in AnAssociation /\ Len(rec.queue) = 0
  BY <1>0 DEF AnAssociation, Places5
<1>3. of \in [Associations -> AnAssociation] /\ of[a] = rec /\ \A b \in Associations : b # a => of[b] = router.of[b]
  BY <1>1, <1>2 DEF UDPStates
<1>4. rec.at = "open" /\ rec.control = control /\ rec.queue = <<>>
  OBVIOUS
<1>5. CASE expected.addr # "any" /\ expected.port # 0
  <2> DEFINE routes == [router.routes EXCEPT ![expected] = {a}]
             bound == [router.bound EXCEPT ![a] = expected]
             shared == IF UDP!Claimed(expected) THEN router.shared \cup {expected} ELSE router.shared
  <2>1. expected \in UDP!Endpoints /\ expected # UDP!NoEndpoint
    BY <1>0, <1>5, UDPConstants DEF UDP!Announced, UDP!Endpoints
  <2>2. /\ routes \in [UDP!Endpoints -> SUBSET Associations] /\ routes[expected] = {a}
        /\ \A e \in UDP!Endpoints : e # expected => routes[e] = router.routes[e]
    BY <1>1, <2>1 DEF UDPStates
  <2>3. /\ bound \in [Associations -> UDP!Endpoints \cup {UDP!NoEndpoint}] /\ bound[a] = expected
        /\ \A b \in Associations : b # a => bound[b] = router.bound[b]
    BY <1>1, <2>1 DEF UDPStates
  <2>4. shared \in SUBSET UDP!Endpoints /\ router.shared \subseteq shared
    BY <1>1, <2>1 DEF UDPStates
  <2>5. \A b \in Associations : router.bound[b] = expected => expected \in shared
    BY DEF UDP!Claimed
  <2>6. router' = [router EXCEPT !.of = of, !.routes = routes, !.bound = bound, !.shared = shared]
    BY <1>0, <1>1, <1>5 DEF UDPStates
  <2> HIDE DEF of, routes, bound, shared, rec
  <2>7. /\ router' \in UDPStates /\ router'.of = of /\ router'.routes = routes /\ router'.bound = bound
        /\ router'.shared = shared /\ router'.pending = router.pending
    BY <1>1, <1>3, <2>2, <2>3, <2>4, <2>6 DEF UDPStates
  <2>8. ASSUME NEW b \in Associations PROVE OpenInv(router', b) /\ HeardInv(router', b)
    <3>1. CASE b = a
      BY <1>0, <1>2, <1>3, <1>4, <2>2, <2>3, <2>7, <3>1, UDPConstants DEF OpenInv, HeardInv
    <3>2. CASE b # a
      <4>1. router.bound[b] # UDP!NoEndpoint /\ router.bound[b] \notin router'.shared
            => router'.routes[router.bound[b]] = router.routes[router.bound[b]]
        <5>1. router.bound[b] \in UDP!Endpoints \cup {UDP!NoEndpoint}
          BY <1>1 DEF UDPStates
        <5>2. QED
          BY <2>2, <2>5, <2>7, <5>1
      <4>2. router'.of[b] = router.of[b] /\ router'.bound[b] = router.bound[b] /\ router.shared \subseteq router'.shared
        BY <1>3, <2>3, <2>4, <2>7, <3>2
      <4>3. OpenInv(router, b) /\ HeardInv(router, b)
        BY DEF UInv
      <4>4. QED
        BY <4>1, <4>2, <4>3, OthersKeep
    <3>3. QED
      BY <3>1, <3>2
  <2>9. ASSUME NEW e \in UDP!Endpoints PROVE RouteInv(router', e)
    <3>1. CASE e = expected
      BY <1>3, <1>4, <2>2, <2>3, <2>7, <3>1 DEF RouteInv
    <3>2. CASE e # expected
      <4>1. router'.routes[e] = router.routes[e] /\ RouteInv(router, e)
        BY <2>2, <2>7, <3>2 DEF UInv
      <4>2. \A b \in router.routes[e] : b \in Associations /\ b # a
        BY <1>1 DEF UDPStates
      <4>3. QED
        BY <1>3, <2>3, <2>7, <4>1, <4>2 DEF RouteInv
    <3>3. QED
      BY <3>1, <3>2
  <2>10. ASSUME NEW i \in Addresses5 PROVE WaitInv(router', i)
    <3>1. WaitInv(router, i) /\ router.pending[i] \in Seq(Associations)
      BY <1>1 DEF UInv, UDPStates
    <3>2. \A k \in 1 .. Len(router.pending[i]) :
            router.pending[i][k] \in Associations /\ router.pending[i][k] # a
      BY <1>1, <3>1, ElementOfSeq DEF WaitInv, Waits
    <3>3. QED
      BY <1>3, <2>3, <2>7, <3>1, <3>2 DEF WaitInv, Waits
  <2>11. QED
    BY <2>7, <2>8, <2>9, <2>10 DEF UInv
<1>6. CASE ~(expected.addr # "any" /\ expected.port # 0)
  <2> DEFINE waiting == Append(router.pending[control], a)
             pending == [router.pending EXCEPT ![control] = waiting]
  <2>1. router.pending[control] \in Seq(Associations) /\ WaitInv(router, control)
    BY <1>0, <1>1 DEF UInv, UDPStates
  <2>2. /\ waiting \in Seq(Associations) /\ Len(waiting) = Len(router.pending[control]) + 1
        /\ \A k \in 1 .. Len(router.pending[control]) : waiting[k] = router.pending[control][k]
        /\ waiting[Len(router.pending[control]) + 1] = a
    BY <2>1, AppendProperties
  <2>3. \A k \in 1 .. Len(router.pending[control]) : router.pending[control][k] # a
    BY <1>1, <2>1 DEF WaitInv, Waits
  <2>4. Len(router.pending[control]) \in Nat
    BY <2>1, LenProperties
  <2> HIDE DEF waiting
  <2>5. /\ pending \in [Addresses5 -> Seq(Associations)] /\ pending[control] = waiting
        /\ \A i \in Addresses5 : i # control => pending[i] = router.pending[i]
    BY <1>0, <1>1, <2>2 DEF UDPStates
  <2>6. router' = [router EXCEPT !.of = of, !.pending = pending]
    BY <1>0, <1>1, <1>6 DEF UDPStates, waiting
  <2> HIDE DEF of, pending, rec
  <2>7. /\ router' \in UDPStates /\ router'.of = of /\ router'.routes = router.routes
        /\ router'.bound = router.bound /\ router'.shared = router.shared /\ router'.pending = pending
    BY <1>1, <1>3, <2>5, <2>6 DEF UDPStates
  <2>8. ASSUME NEW b \in Associations PROVE OpenInv(router', b) /\ HeardInv(router', b)
    <3>1. CASE b = a
      BY <1>0, <1>1, <1>2, <1>3, <1>4, <2>7, <3>1, UDPConstants DEF OpenInv, HeardInv
    <3>2. CASE b # a
      BY <1>3, <2>7, <3>2, OthersKeep DEF UInv
    <3>3. QED
      BY <3>1, <3>2
  <2>9. ASSUME NEW e \in UDP!Endpoints PROVE RouteInv(router', e)
    <3>1. \A b \in router.routes[e] : b \in Associations /\ b # a
      BY <1>1 DEF UDPStates
    <3>2. QED
      BY <1>3, <2>7, <3>1 DEF RouteInv, UInv
  <2>10. ASSUME NEW i \in Addresses5 PROVE WaitInv(router', i)
    <3>1. WaitInv(router, i) /\ router.pending[i] \in Seq(Associations)
      BY <1>1 DEF UInv, UDPStates
    <3>2. \A k \in 1 .. Len(router.pending[i]) :
            router.pending[i][k] \in Associations /\ router.pending[i][k] # a
      BY <1>1, <3>1, ElementOfSeq DEF WaitInv, Waits
    <3>3. \A k \in 1 .. Len(router.pending[i]) : Waits(router', i, router.pending[i][k])
      BY <1>3, <2>7, <3>1, <3>2 DEF WaitInv, Waits
    <3>4. CASE i # control
      BY <2>5, <2>7, <3>1, <3>3, <3>4 DEF WaitInv
    <3>5. CASE i = control
      <4>1. Waits(router', i, a)
        BY <1>1, <1>3, <1>4, <2>7, <3>5 DEF Waits
      <4>2. \A k \in 1 .. Len(waiting) : k \in 1 .. Len(router.pending[control]) \/ k = Len(router.pending[control]) + 1
        BY <2>2, <2>4
      <4>3. Once(waiting)
        BY <2>1, <2>2, <2>3, <4>2 DEF Once, WaitInv
      <4>4. \A k \in 1 .. Len(waiting) : Waits(router', i, waiting[k])
        BY <2>2, <3>3, <3>5, <4>1, <4>2
      <4>5. QED
        BY <2>5, <2>7, <3>5, <4>3, <4>4 DEF WaitInv
    <3>6. QED
      BY <3>4, <3>5
  <2>11. QED
    BY <2>7, <2>8, <2>9, <2>10 DEF UInv
<1>7. QED
  BY <1>5, <1>6

LEMMA UDPUnregister == ASSUME UInv(router), NEW a \in Associations, UDP!Unregister(a) PROVE UInv(router')
<1> DEFINE rec == [UDP!NoAssociation EXCEPT !.at = "ended"]
           of == [router.of EXCEPT ![a] = rec]
           old == router.bound[a]
           bound == [router.bound EXCEPT ![a] = UDP!NoEndpoint]
           routes == [e \in UDP!Endpoints |-> IF e = old THEN {} ELSE router.routes[e]]
           control == router.of[a].control
           waiting == UDP!RemoveFirst(router.pending[control], a)
           pending == [router.pending EXCEPT ![control] = waiting]
<1>1. /\ router \in UDPStates /\ router.of[a].at = "open" /\ control \in Addresses5
      /\ \A e \in UDP!Endpoints : \A b \in router.routes[e] : router.of[b].at = "open" /\ router.bound[b] = e
  BY DEF UInv, OpenInv, RouteInv, UDP!Unregister
<1>2. rec = [at |-> "ended", control |-> "any", expected |-> UDP!NoEndpoint, queue |-> <<>>]
  BY DEF UDP!NoAssociation
<1>3. rec \in AnAssociation /\ Len(rec.queue) = 0 /\ rec.at = "ended" /\ rec.queue = <<>>
  <2> HIDE DEF rec
  <2>1. rec.at = "ended" /\ rec.queue = <<>>
    BY <1>2
  <2>2. Len(rec.queue) = 0 /\ <<>> \in Seq(UDP!Endpoints)
    BY <2>1
  <2>3. rec \in AnAssociation
    BY <1>2, <2>2, UDPConstants DEF AnAssociation, Places5
  <2>4. QED
    BY <2>1, <2>2, <2>3
<1>4. of \in [Associations -> AnAssociation] /\ of[a] = rec /\ \A b \in Associations : b # a => of[b] = router.of[b]
  BY <1>1, <1>3 DEF UDPStates
<1>5. /\ bound \in [Associations -> UDP!Endpoints \cup {UDP!NoEndpoint}] /\ bound[a] = UDP!NoEndpoint
      /\ \A b \in Associations : b # a => bound[b] = router.bound[b]
  BY <1>1 DEF UDPStates
<1>6. /\ routes \in [UDP!Endpoints -> SUBSET Associations]
      /\ \A e \in UDP!Endpoints : routes[e] = IF e = old THEN {} ELSE router.routes[e]
  BY <1>1 DEF UDPStates
<1>7. router.pending[control] \in Seq(Associations) /\ WaitInv(router, control)
  BY <1>1 DEF UInv, UDPStates
<1>8. /\ waiting \in Seq(Associations) /\ Once(waiting)
      /\ \A k \in 1 .. Len(waiting) : waiting[k] # a /\ \E l \in 1 .. Len(router.pending[control]) :
                                       waiting[k] = router.pending[control][l]
  <2> DEFINE before == router.pending[control]
  <2>1. before \in Seq(Associations) /\ Once(before)
    BY <1>7 DEF WaitInv
  <2>2. waiting = UDP!RemoveFirst(before, a)
    OBVIOUS
  <2> HIDE DEF before, waiting
  <2>3. /\ waiting \in Seq(Associations) /\ Once(waiting)
        /\ \A k \in 1 .. Len(waiting) : waiting[k] # a /\ \E l \in 1 .. Len(before) : waiting[k] = before[l]
    BY <2>1, <2>2, RemovedFirst
  <2> QED BY <2>3 DEF before
<1>9. router' = [router EXCEPT !.of = of, !.bound = bound, !.routes = routes, !.pending = pending]
  BY <1>1 DEF UDP!Unregister, UDPStates
<1> HIDE DEF waiting
<1>10. /\ pending \in [Addresses5 -> Seq(Associations)] /\ pending[control] = waiting
       /\ \A i \in Addresses5 : i # control => pending[i] = router.pending[i]
  BY <1>1, <1>8 DEF UDPStates
<1> HIDE DEF rec, of, bound, routes, pending
<1>11. /\ router' \in UDPStates /\ router'.of = of /\ router'.routes = routes /\ router'.bound = bound
       /\ router'.shared = router.shared /\ router'.pending = pending
  BY <1>1, <1>4, <1>5, <1>6, <1>9, <1>10 DEF UDPStates
<1>12. ASSUME NEW b \in Associations PROVE OpenInv(router', b) /\ HeardInv(router', b)
  <2>1. CASE b = a
    BY <1>3, <1>4, <1>5, <1>11, <2>1, UDPConstants DEF OpenInv, HeardInv
  <2>2. CASE b # a
    <3>1. router'.of[b] = router.of[b] /\ router'.bound[b] = router.bound[b]
      BY <1>4, <1>5, <1>11, <2>2
    <3>2. OpenInv(router', b)
      BY <1>11, <3>1, OthersKeep DEF UInv
    <3>3. CASE router.bound[b] # old
      <4>1. router.bound[b] \in UDP!Endpoints \cup {UDP!NoEndpoint}
        BY <1>1 DEF UDPStates
      <4>2. router.bound[b] # UDP!NoEndpoint => router'.routes[router.bound[b]] = router.routes[router.bound[b]]
        BY <1>6, <1>11, <3>3, <4>1
      <4>3. QED
        BY <1>11, <3>1, <3>2, <4>2, OthersKeep DEF UInv
    <3>4. CASE router.bound[b] = old
      <4>1. CASE router.of[b].at = "open" /\ old # UDP!NoEndpoint /\ old \notin router.shared
        <5>1. router.routes[old] = {b} /\ router.routes[old] = {a}
          BY <1>1, <3>4, <4>1 DEF UInv, HeardInv
        <5>2. QED
          BY <2>2, <5>1
      <4>2. CASE ~(router.of[b].at = "open" /\ old # UDP!NoEndpoint /\ old \notin router.shared)
        BY <1>11, <3>1, <3>2, <3>4, <4>2 DEF UInv, HeardInv
      <4>3. QED
        BY <4>1, <4>2
    <3>5. QED
      BY <3>3, <3>4
  <2>3. QED
    BY <2>1, <2>2
<1>13. ASSUME NEW e \in UDP!Endpoints PROVE RouteInv(router', e)
  <2>1. CASE e = old
    BY <1>6, <1>11, <2>1 DEF RouteInv
  <2>2. CASE e # old
    <3>1. router'.routes[e] = router.routes[e] /\ RouteInv(router, e)
      BY <1>6, <1>11, <2>2 DEF UInv
    <3>2. \A b \in router.routes[e] : b \in Associations /\ b # a
      BY <1>1, <2>2 DEF UDPStates
    <3>3. QED
      BY <1>4, <1>5, <1>11, <3>1, <3>2 DEF RouteInv
  <2>3. QED
    BY <2>1, <2>2
<1>14. ASSUME NEW i \in Addresses5 PROVE WaitInv(router', i)
  <2>1. WaitInv(router, i) /\ router.pending[i] \in Seq(Associations)
    BY <1>1 DEF UInv, UDPStates
  <2>2. \A k \in 1 .. Len(router.pending[i]) : router.pending[i][k] \in Associations
    BY <2>1, ElementOfSeq
  <2>3. \A b \in Associations : b # a /\ Waits(router, i, b) => Waits(router', i, b)
    BY <1>4, <1>5, <1>11 DEF Waits
  <2>4. CASE i # control
    <3>1. \A k \in 1 .. Len(router.pending[i]) : router.pending[i][k] # a
      BY <2>1, <2>4 DEF WaitInv, Waits
    <3>2. QED
      BY <1>10, <1>11, <2>1, <2>2, <2>3, <2>4, <3>1 DEF WaitInv
  <2>5. CASE i = control
    <3>1. \A k \in 1 .. Len(waiting) : waiting[k] \in Associations /\ waiting[k] # a /\ Waits(router, i, waiting[k])
      BY <1>8, <2>1, <2>2, <2>5 DEF WaitInv
    <3>2. QED
      BY <1>8, <1>10, <1>11, <2>3, <2>5, <3>1 DEF WaitInv
  <2>6. QED
    BY <2>4, <2>5
<1>15. QED
  BY <1>11, <1>12, <1>13, <1>14 DEF UInv

(* A packet from an endpoint that no association has.                        *)
LEMMA UDPFind == ASSUME UInv(router), NEW e \in UDP!Endpoints PROVE UInv(UDP!Find(e))
<1>1. CASE router.routes[e] # {} \/ UDP!Fitting(e) = {}
  BY <1>1 DEF UDP!Find
<1>2. CASE router.routes[e] = {} /\ UDP!Fitting(e) # {}
  <2> DEFINE here == router.pending[e.addr]
             i == CHOOSE k \in UDP!Fitting(e) : \A j \in UDP!Fitting(e) : k <= j
             a == here[i]
             waiting == UDP!RemoveAt(here, i)
             pending == [router.pending EXCEPT ![e.addr] = waiting]
             routes == [router.routes EXCEPT ![e] = {a}]
             bound == [router.bound EXCEPT ![a] = e]
             shared == IF UDP!Claimed(e) THEN router.shared \cup {e} ELSE router.shared
             r == [router EXCEPT !.pending = pending, !.routes = routes, !.bound = bound, !.shared = shared]
  <2>1. /\ router \in UDPStates /\ e.addr \in Addresses5 /\ e # UDP!NoEndpoint
        /\ here \in Seq(Associations) /\ WaitInv(router, e.addr)
    BY UDPConstants DEF UInv, UDPStates, UDP!Endpoints
  <2>2. UDP!Fitting(e) \subseteq 1 .. Len(here) /\ Len(here) \in Nat /\ DOMAIN here = 1 .. Len(here)
    BY <2>1, LenProperties DEF UDP!Fitting
  <2>3. UDP!Fitting(e) \in SUBSET Nat
    BY <2>2
  <2>4. i \in UDP!Fitting(e)
    BY <1>2, <2>3, Least
  <2> HIDE DEF i
  <2>5. i \in 1 .. Len(here) /\ a \in Associations /\ Waits(router, e.addr, a)
    BY <2>1, <2>2, <2>4, ElementOfSeq DEF WaitInv
  <2>6. /\ waiting \in Seq(Associations) /\ Once(waiting)
        /\ \A k \in 1 .. Len(waiting) : waiting[k] # a /\ \E l \in 1 .. Len(here) : waiting[k] = here[l]
    <3>1. Once(here)
      BY <2>1 DEF WaitInv
    <3>2. here \in Seq(Associations) /\ i \in 1 .. Len(here)
      BY <2>1, <2>5
    <3> HIDE DEF here
    <3>3. QED
      BY <3>1, <3>2, RemovedAt
  <2>7. UDP!Find(e) = r
    BY <1>2, <2>1 DEF UDP!Find, UDPStates, i
  <2>8. router.of[a].at = "open" /\ router.of[a].control = e.addr /\ router.bound[a] = UDP!NoEndpoint
    BY <2>5 DEF Waits
  <2> HIDE DEF waiting, a
  <2>9. /\ pending \in [Addresses5 -> Seq(Associations)] /\ pending[e.addr] = waiting
        /\ \A j \in Addresses5 : j # e.addr => pending[j] = router.pending[j]
    BY <2>1, <2>6 DEF UDPStates
  <2>10. /\ routes \in [UDP!Endpoints -> SUBSET Associations] /\ routes[e] = {a}
         /\ \A f \in UDP!Endpoints : f # e => routes[f] = router.routes[f]
    BY <2>1, <2>5 DEF UDPStates
  <2>11. /\ bound \in [Associations -> UDP!Endpoints \cup {UDP!NoEndpoint}] /\ bound[a] = e
         /\ \A b \in Associations : b # a => bound[b] = router.bound[b]
    BY <2>1, <2>5 DEF UDPStates
  <2>12. shared \in SUBSET UDP!Endpoints /\ router.shared \subseteq shared
    BY <2>1 DEF UDPStates
  <2>13. \A b \in Associations : router.bound[b] = e => e \in shared
    BY DEF UDP!Claimed
  <2> HIDE DEF pending, routes, bound, shared
  <2>14. /\ r \in UDPStates /\ r.of = router.of /\ r.routes = routes /\ r.bound = bound
         /\ r.shared = shared /\ r.pending = pending
    BY <2>1, <2>9, <2>10, <2>11, <2>12 DEF UDPStates
  <2> HIDE DEF r
  <2>15. ASSUME NEW b \in Associations PROVE OpenInv(r, b) /\ HeardInv(r, b)
    <3>1. CASE b = a
      <4>1. router.of[a].queue \in Seq(UDP!Endpoints) /\ OpenInv(router, a) /\ HeardInv(router, a)
        BY <2>1, <2>5 DEF UInv, UDPStates, AnAssociation
      <4>2. \A k \in 1 .. Len(router.of[a].queue) : router.of[a].queue[k] \in UDP!Endpoints
        BY <4>1, ElementOfSeq
      <4>3. \A k \in 1 .. Len(router.of[a].queue) : FALSE
        BY <2>8, <4>1, <4>2, UDPConstants DEF HeardInv
      <4>4. OpenInv(r, a)
        BY <2>8, <2>14, <4>1 DEF OpenInv
      <4>5. HeardInv(r, a)
        BY <2>10, <2>11, <2>14, <4>3 DEF HeardInv
      <4>6. QED
        BY <3>1, <4>4, <4>5
    <3>2. CASE b # a
      <4>1. router.bound[b] # UDP!NoEndpoint /\ router.bound[b] \notin r.shared
            => r.routes[router.bound[b]] = router.routes[router.bound[b]]
        <5>1. router.bound[b] \in UDP!Endpoints \cup {UDP!NoEndpoint}
          BY <2>1 DEF UDPStates
        <5>2. QED
          BY <2>10, <2>13, <2>14, <5>1
      <4>2. r.of[b] = router.of[b] /\ r.bound[b] = router.bound[b] /\ router.shared \subseteq r.shared
        BY <2>11, <2>12, <2>14, <3>2
      <4>3. OpenInv(router, b) /\ HeardInv(router, b)
        BY DEF UInv
      <4>4. QED
        BY <4>1, <4>2, <4>3, OthersKeep
    <3>3. QED
      BY <3>1, <3>2
  <2>16. ASSUME NEW f \in UDP!Endpoints PROVE RouteInv(r, f)
    <3>1. CASE f = e
      BY <2>8, <2>10, <2>11, <2>14, <3>1 DEF RouteInv
    <3>2. CASE f # e
      <4>1. r.routes[f] = router.routes[f] /\ RouteInv(router, f)
        BY <2>10, <2>14, <3>2 DEF UInv
      <4>2. \A b \in router.routes[f] : b \in Associations /\ router.bound[b] = f
        BY <2>1, <4>1 DEF UDPStates, RouteInv
      <4>3. \A b \in router.routes[f] : b # a
        BY <2>8, <4>2, UDPConstants
      <4>4. QED
        BY <2>11, <2>14, <4>1, <4>2, <4>3 DEF RouteInv
    <3>3. QED
      BY <3>1, <3>2
  <2>17. ASSUME NEW j \in Addresses5 PROVE WaitInv(r, j)
    <3>1. WaitInv(router, j) /\ router.pending[j] \in Seq(Associations)
      BY <2>1 DEF UInv, UDPStates
    <3>2. \A k \in 1 .. Len(router.pending[j]) : router.pending[j][k] \in Associations
      BY <3>1, ElementOfSeq
    <3>3. \A b \in Associations : b # a /\ Waits(router, j, b) => Waits(r, j, b)
      BY <2>11, <2>14 DEF Waits
    <3>4. CASE j # e.addr
      <4>1. \A k \in 1 .. Len(router.pending[j]) : router.pending[j][k] # a
        BY <2>8, <3>1, <3>4 DEF WaitInv, Waits
      <4>2. QED
        BY <2>9, <2>14, <3>1, <3>2, <3>3, <3>4, <4>1 DEF WaitInv
    <3>5. CASE j = e.addr
      <4>1. \A k \in 1 .. Len(waiting) : waiting[k] \in Associations /\ waiting[k] # a /\ Waits(router, j, waiting[k])
        BY <2>6, <3>1, <3>2, <3>5 DEF WaitInv
      <4>2. QED
        BY <2>6, <2>9, <2>14, <3>3, <3>5, <4>1 DEF WaitInv
    <3>6. QED
      BY <3>4, <3>5
  <2>18. QED
    BY <2>7, <2>14, <2>15, <2>16, <2>17 DEF UInv
<1>3. QED
  BY <1>1, <1>2

(* Only the queue of an association that is open changes.                    *)
LEMMA UDPQueue ==
  ASSUME NEW r, UInv(r), NEW a \in Associations, r.of[a].at = "open", NEW s \in Seq(UDP!Endpoints),
         Len(s) <= QueueSize, \A k \in 1 .. Len(s) : s[k] = r.bound[a]
  PROVE  UInv([r EXCEPT !.of[a].queue = s])
<1> DEFINE rec == [r.of[a] EXCEPT !.queue = s]
           of == [r.of EXCEPT ![a] = rec]
           q == [r EXCEPT !.of = of]
<1>1. r \in UDPStates /\ r.of[a] \in AnAssociation
  BY DEF UInv, UDPStates
<1>2. rec \in AnAssociation /\ rec.at = r.of[a].at /\ rec.control = r.of[a].control /\ rec.queue = s
  BY <1>1 DEF AnAssociation
<1>3. [r EXCEPT !.of[a].queue = s] = q
  BY <1>1 DEF UDPStates
<1> HIDE DEF rec
<1>4. of \in [Associations -> AnAssociation] /\ of[a] = rec /\ \A b \in Associations : b # a => of[b] = r.of[b]
  BY <1>1, <1>2 DEF UDPStates
<1> HIDE DEF of
<1>5. /\ q \in UDPStates /\ q.of = of /\ q.routes = r.routes /\ q.bound = r.bound
      /\ q.shared = r.shared /\ q.pending = r.pending
  BY <1>1, <1>4 DEF UDPStates
<1> HIDE DEF q
<1>6. \A b \in Associations : q.of[b].at = r.of[b].at /\ q.of[b].control = r.of[b].control
  BY <1>2, <1>4, <1>5
<1>7. ASSUME NEW b \in Associations PROVE OpenInv(q, b) /\ HeardInv(q, b)
  <2>1. CASE b = a
    BY <1>2, <1>4, <1>5, <2>1 DEF UInv, OpenInv, HeardInv
  <2>2. CASE b # a
    BY <1>4, <1>5, <2>2, OthersKeep DEF UInv
  <2>3. QED
    BY <2>1, <2>2
<1>8. ASSUME NEW e \in UDP!Endpoints PROVE RouteInv(q, e)
  <2>1. r.routes[e] \subseteq Associations /\ RouteInv(r, e)
    BY <1>1 DEF UInv, UDPStates
  <2>2. QED
    BY <1>5, <1>6, <2>1 DEF RouteInv
<1>9. ASSUME NEW i \in Addresses5 PROVE WaitInv(q, i)
  <2>1. WaitInv(r, i) /\ r.pending[i] \in Seq(Associations)
    BY <1>1 DEF UInv, UDPStates
  <2>2. \A k \in 1 .. Len(r.pending[i]) : r.pending[i][k] \in Associations
    BY <2>1, ElementOfSeq
  <2>3. QED
    BY <1>5, <1>6, <2>1, <2>2, SMTT(30) DEF WaitInv, Waits
<1>10. QED
  BY <1>3, <1>5, <1>7, <1>8, <1>9 DEF UInv

LEMMA UDPForward == ASSUME UInv(router), NEW a \in Associations, UDP!Forward(a) PROVE UInv(router')
<1> DEFINE old == router.of[a].queue
           s == Tail(old)
<1>1. router \in UDPStates /\ router.of[a].at = "open" /\ router.of[a] \in AnAssociation /\ old # <<>>
  BY DEF UInv, UDPStates, UDP!Forward
<1>2. old \in Seq(UDP!Endpoints) /\ Len(old) <= QueueSize /\ \A k \in 1 .. Len(old) : old[k] = router.bound[a]
  BY <1>1 DEF UInv, OpenInv, HeardInv, AnAssociation
<1>3. router' = [router EXCEPT !.of[a].queue = s]
  BY <1>1 DEF UDP!Forward, UDPStates, AnAssociation
<1> HIDE DEF old
<1>4. s \in Seq(UDP!Endpoints) /\ Len(s) = Len(old) - 1 /\ \A k \in 1 .. Len(s) : s[k] = old[k + 1]
  BY <1>1, <1>2, HeadTailProperties
<1>5. Len(old) \in Nat /\ Len(s) \in Nat /\ QueueSize \in Nat
  BY <1>2, <1>4, LenProperties, UDPConstants
<1> HIDE DEF s
<1>6. Len(s) <= QueueSize /\ \A k \in 1 .. Len(s) : s[k] = router.bound[a]
  BY <1>2, <1>4, <1>5
<1>7. QED
  BY <1>1, <1>3, <1>4, <1>6, UDPQueue

LEMMA UDPReceive == ASSUME UInv(router), NEW e \in UDP!Endpoints, UDP!Receive(e) PROVE UInv(router')
<1> DEFINE q == UDP!Find(e)
           more == q.received + 1
           r == [q EXCEPT !.received = more]
           a == CHOOSE b \in r.routes[e] : TRUE
           s == Append(r.of[a].queue, e)
<1>1. UInv(q)
  BY UDPFind
<1>2. router' = IF \E b \in r.routes[e] : Len(r.of[b].queue) < QueueSize
                THEN [r EXCEPT !.of[a].queue = s] ELSE r
  BY DEF UDP!Receive
<1> HIDE DEF q
<1>3. q \in UDPStates /\ more \in Nat
  BY <1>1 DEF UInv, UDPStates
<1> HIDE DEF more
<1>4. /\ r \in UDPStates /\ r.of = q.of /\ r.routes = q.routes /\ r.bound = q.bound
      /\ r.shared = q.shared /\ r.pending = q.pending
  BY <1>3 DEF UDPStates
<1> HIDE DEF r
<1>5. UInv(r)
  BY <1>1, <1>4 DEF UInv, OpenInv, HeardInv, RouteInv, WaitInv, Waits
<1>6. CASE \E b \in r.routes[e] : Len(r.of[b].queue) < QueueSize
  <2>1. PICK b \in r.routes[e] : Len(r.of[b].queue) < QueueSize
    BY <1>6
  <2>2. a \in r.routes[e]
    BY <2>1
  <2> HIDE DEF a
  <2>3. a = b /\ a \in Associations /\ r.of[a].at = "open" /\ r.bound[a] = e
    BY <1>4, <1>5, <2>1, <2>2 DEF UInv, RouteInv, UDPStates
  <2>4. r.of[a].queue \in Seq(UDP!Endpoints) /\ \A k \in 1 .. Len(r.of[a].queue) : r.of[a].queue[k] = e
    BY <1>4, <1>5, <2>3 DEF UInv, HeardInv, UDPStates, AnAssociation
  <2> DEFINE old == r.of[a].queue
  <2>5. Len(old) \in Nat /\ Len(old) < QueueSize /\ QueueSize \in Nat
    BY <2>1, <2>3, <2>4, LenProperties, UDPConstants
  <2> HIDE DEF old
  <2>6. /\ s \in Seq(UDP!Endpoints) /\ Len(s) = Len(old) + 1
        /\ \A k \in 1 .. Len(old) : s[k] = old[k]
        /\ s[Len(old) + 1] = e
    BY <2>4, AppendProperties DEF old
  <2> HIDE DEF s
  <2>7. Len(s) <= QueueSize
    BY <2>5, <2>6
  <2>8. \A k \in 1 .. Len(s) : s[k] = r.bound[a]
    <3>1. \A k \in 1 .. Len(s) : k \in 1 .. Len(old) \/ k = Len(old) + 1
      BY <2>5, <2>6
    <3>2. QED
      BY <2>3, <2>4, <2>6, <3>1 DEF old
  <2>9. router' = [r EXCEPT !.of[a].queue = s]
    BY <1>2, <1>6
  <2>10. QED
    BY <1>5, <2>3, <2>6, <2>7, <2>8, <2>9, UDPQueue
<1>7. CASE ~\E b \in r.routes[e] : Len(r.of[b].queue) < QueueSize
  BY <1>2, <1>5, <1>7
<1>8. QED
  BY <1>6, <1>7

LEMMA UInvariance == UDP!Spec => []UInv(router)
<1>1. UDP!Init => UInv(router)
  <2> SUFFICES ASSUME UDP!Init PROVE UInv(router)
    OBVIOUS
  <2> DEFINE rec == UDP!NoAssociation
  <2>1. rec.at = "new" /\ rec.queue = <<>>
    BY DEF UDP!NoAssociation
  <2>2. Len(rec.queue) = 0 /\ rec.queue \in Seq(UDP!Endpoints)
    BY <2>1
  <2>3. rec \in AnAssociation
    BY <2>1, <2>2, UDPConstants DEF AnAssociation, Places5, UDP!NoAssociation
  <2> HIDE DEF rec
  <2>4. router = [of |-> [a \in Associations |-> rec], routes |-> [e \in UDP!Endpoints |-> {}],
                  bound |-> [a \in Associations |-> UDP!NoEndpoint], pending |-> [i \in Addresses5 |-> <<>>],
                  received |-> 0, shared |-> {}]
    BY DEF UDP!Init, rec
  <2>5. router \in UDPStates
    BY <2>3, <2>4 DEF UDPStates
  <2>6. \A a \in Associations : router.of[a] = rec /\ router.bound[a] = UDP!NoEndpoint
    BY <2>4
  <2>7. \A a \in Associations : OpenInv(router, a) /\ HeardInv(router, a)
    BY <2>1, <2>2, <2>6, UDPConstants DEF OpenInv, HeardInv
  <2>8. \A e \in UDP!Endpoints : RouteInv(router, e)
    BY <2>4 DEF RouteInv
  <2>9. \A i \in Addresses5 : router.pending[i] = <<>> /\ Len(router.pending[i]) = 0
    BY <2>4
  <2>10. \A i \in Addresses5 : WaitInv(router, i)
    BY <2>9 DEF WaitInv, Once
  <2>11. QED
    BY <2>5, <2>7, <2>8, <2>10 DEF UInv
<1>2. UInv(router) /\ [UDP!Next]_router => UInv(router)'
  <2> SUFFICES ASSUME UInv(router), [UDP!Next]_router PROVE UInv(router')
    OBVIOUS
  <2>1. CASE UNCHANGED router
    BY <2>1
  <2>2. CASE UDP!Next
    BY <2>2, UDPRegister, UDPUnregister, UDPForward, UDPReceive DEF UDP!Next
  <2>3. QED
    BY <2>1, <2>2
<1>3. QED
  BY <1>1, <1>2, PTL DEF UDP!Spec

-----------------------------------------------------------------------------
(* PathMTU: what a test may be answered, and the largest size that is        *)
(* carried.                                                                  *)

(* A finite set of numbers has a largest one: else take the smallest         *)
(* cardinality of a set that has none, and remove an element.                *)
LEMMA Largest == ASSUME NEW T \in SUBSET Nat, T # {}, IsFiniteSet(T) PROVE \E x \in T : \A y \in T : x >= y
<1> DEFINE HasLargest(A) == \E x \in A : \A y \in A : x >= y
           Bad == {n \in Nat : \E A \in SUBSET Nat : /\ A # {} /\ IsFiniteSet(A) /\ Cardinality(A) = n
                                                     /\ ~HasLargest(A)}
<1>1. SUFFICES Bad = {}
  <2>1. Cardinality(T) \in Nat
    BY FS_CardinalityType
  <2>2. QED
    BY <1>1, <2>1
<1>2. SUFFICES ASSUME Bad # {} PROVE FALSE
  OBVIOUS
<1>3. PICK n \in Bad : \A m \in Bad : n <= m
  <2> HIDE DEF Bad
  <2>1. Bad \in SUBSET Nat
    BY DEF Bad
  <2>2. QED
    BY <1>2, <2>1, Least
<1>4. PICK A \in SUBSET Nat : A # {} /\ IsFiniteSet(A) /\ Cardinality(A) = n /\ ~HasLargest(A)
  BY <1>3
<1>5. PICK z \in A : TRUE
  BY <1>4
<1> DEFINE B == A \ {z}
<1>6. IsFiniteSet(B) /\ Cardinality(B) = n - 1
  BY <1>4, <1>5, FS_RemoveElement
<1>7. CASE B = {}
  <2>1. A = {z} /\ z \in Nat
    BY <1>4, <1>5, <1>7
  <2>2. HasLargest(A)
    BY <2>1
  <2>3. QED
    BY <1>4, <2>2
<1>8. CASE B # {}
  <2>1. n - 1 \in Nat /\ ~(n <= n - 1)
    BY <1>3, <1>6, FS_CardinalityType
  <2>2. n - 1 \notin Bad
    BY <1>3, <2>1
  <2>3. HasLargest(B)
    BY <1>4, <1>6, <1>8, <2>1, <2>2
  <2>4. PICK x \in B : \A y \in B : x >= y
    BY <2>3
  <2>5. z \in Nat /\ x \in Nat /\ \A y \in A : y \in B \/ y = z
    BY <1>4, <1>5
  <2>6. HasLargest(A)
    <3>1. CASE x >= z
      BY <2>4, <2>5, <3>1
    <3>2. CASE z >= x
      <4>1. \A y \in A : z >= y
        BY <1>4, <2>4, <2>5, <3>2
      <4>2. QED
        BY <1>5, <4>1
    <3>3. QED
      BY <2>5, <3>1, <3>2
  <2>7. QED
    BY <1>4, <2>6
<1>9. QED
  BY <1>7, <1>8

LEMMA MTUMax ==
  ASSUME NEW T \in SUBSET Nat, T # {}, IsFiniteSet(T) PROVE MTU!Max(T) \in T /\ \A y \in T : MTU!Max(T) >= y
BY Largest DEF MTU!Max

LEMMA MTUMin == ASSUME NEW T \in SUBSET Nat, T # {} PROVE MTU!Min(T) \in T /\ \A y \in T : MTU!Min(T) <= y
BY Least DEF MTU!Min

LEMMA MTUCardinality == \A S : MTU!Cardinality(S) = Cardinality(S) /\ MTU!IsFiniteSet(S) = IsFiniteSet(S)
BY DEF MTU!Cardinality, Cardinality, MTU!IsFiniteSet, IsFiniteSet

LEMMA MTUConstants ==
  /\ MinMTU \in Nat /\ Physical \in Nat /\ TCPHeaders \in Nat /\ Margin \in Nat /\ SafetyBuffer \in Nat
  /\ MaxLost \in Nat /\ ICMPServers \in Nat /\ TestsLength \in Nat /\ TestsLength >= 2 /\ MinMTU < Physical
  /\ Paths \subseteq MinMTU .. Physical /\ MSSs \subseteq Nat \ {0} /\ IsFiniteSet(TCPServers)
<1>1. MTU!PathMTUConstants
  BY NetworkAssumption DEF NetworkAssumption
<1>2. QED
  BY <1>1, MTUCardinality DEF MTU!PathMTUConstants

LEMMA PathsAreNat == \A path \in Paths : path \in Nat
BY MTUConstants

-----------------------------------------------------------------------------
LEMMA Times == ASSUME NEW a \in Nat, NEW b \in Nat PROVE a * b \in Nat
OBVIOUS

(* The sizes of a round lie below the largest, which is one of them.         *)
LEMMA TestsAre ==
  ASSUME NEW lo \in Nat, NEW hi \in Nat, lo <= hi
  PROVE  MTU!MTUsToTest(lo, hi) \subseteq 0 .. hi /\ hi \in MTU!MTUsToTest(lo, hi)
<1> DEFINE n == TestsLength - 1
           d == hi - lo
           size(k) == lo + (2 * k * (hi - lo) + n) \div (2 * n)
<1>1. n \in Nat /\ n >= 1 /\ d \in Nat /\ hi = lo + d
  BY MTUConstants
<1>2. CASE hi - lo <= TestsLength
  BY <1>2 DEF MTU!MTUsToTest
<1>3. CASE ~(hi - lo <= TestsLength)
  <2>1. MTU!MTUsToTest(lo, hi) = {size(k) : k \in 0 .. n - 1} \cup {hi}
    BY <1>3 DEF MTU!MTUsToTest
  <2>2. ASSUME NEW k \in 0 .. n - 1 PROVE size(k) \in 0 .. hi
    <3> DEFINE rest == n - 1 - k
               top == 2 * k * (hi - lo) + n
               m == 2 * n
    <3>1. k \in Nat /\ rest \in Nat /\ n = k + 1 + rest
      BY <1>1
    <3>2. rest * d \in Nat /\ k * d \in Nat
      BY <1>1, <3>1, Times
    <3>3. n * d = k * d + d + rest * d
      BY <1>1, <3>1, <3>2
    <3>4. top = 2 * (k * d) + n
      BY <1>1, <3>1
    <3>5. m * (d + 1) = 2 * (n * d) + 2 * n
      BY <1>1
    <3>6. n * d \in Nat
      BY <1>1, Times
    <3>7. top \in Nat /\ top < m * (d + 1) /\ m \in Nat /\ m > 0
      <4> HIDE DEF rest, d, n
      <4> DEFINE kd == k * d
                 rd == rest * d
                 nd == n * d
      <4>1. kd \in Nat /\ rd \in Nat /\ nd \in Nat /\ nd = kd + d + rd
        BY <3>2, <3>3, <3>6
      <4>2. top = 2 * kd + n /\ m * (d + 1) = 2 * nd + 2 * n
        BY <3>4, <3>5
      <4> HIDE DEF kd, rd, nd, top
      <4>3. QED
        BY <1>1, <4>1, <4>2
    <3>8. top \div m \in 0 .. d
      <4> HIDE DEF top, m, d
      <4>1. QED
        BY <1>1, <3>7
    <3>9. size(k) = lo + top \div m
      OBVIOUS
    <3> HIDE DEF size, top, m
    <3>10. QED
      BY <1>1, <3>8, <3>9
  <2>3. QED
    BY <2>1, <2>2
<1>4. QED
  BY <1>2, <1>3

(* After a round the sizes still to tell apart are those from the largest    *)
(* that passed to just below the next one tested: what the path carries is   *)
(* among them, when all that it carries passed.                              *)
NarrowedTo(next, tests, ok, hi, path) ==
    /\ next.lo \in ok /\ next.hi \in Nat /\ next.lo <= next.hi /\ next.hi < hi
    /\ (\A t \in tests : t <= path => t \in ok) => path <= next.hi

LEMMA NarrowIs ==
  ASSUME NEW hi \in Nat, NEW tests \in SUBSET (0 .. hi), hi \in tests, NEW ok \in SUBSET tests, ok # {},
         hi \notin ok, NEW path \in Nat
  PROVE  NarrowedTo(MTU!Narrow(tests, ok), tests, ok, hi, path)
<1> DEFINE high == MTU!Max(ok)
           above == {t \in tests : t > high}
           low == MTU!Min(above)
           next == MTU!Narrow(tests, ok)
<1>1. tests \in SUBSET Nat /\ ok \in SUBSET Nat /\ \A t \in tests : t <= hi
  OBVIOUS
<1>2. IsFiniteSet(ok)
  BY <1>1, FS_BoundedSetOfNaturals
<1>3. high \in ok /\ \A t \in ok : high >= t
  BY <1>1, <1>2, MTUMax
<1> HIDE DEF high
<1>4. high \in Nat /\ high < hi
  <2>1. high \in tests /\ high # hi
    BY <1>3
  <2>2. QED
    BY <1>1, <2>1
<1>5. above \in SUBSET Nat /\ hi \in above
  BY <1>1, <1>4
<1>6. low \in above /\ \A t \in above : low <= t
  BY <1>5, MTUMin
<1> HIDE DEF low
<1>7. low \in Nat /\ low > high /\ low <= hi /\ low \in tests
  BY <1>1, <1>5, <1>6
<1>8. next = [lo |-> high, hi |-> low - 1]
  BY DEF MTU!Narrow, low, high
<1>9. low \notin ok
  BY <1>1, <1>3, <1>4, <1>7
<1> HIDE DEF next
<1>10. next.lo = high /\ next.hi = low - 1
  BY <1>8
<1>11. next.hi \in Nat /\ next.lo <= next.hi /\ next.hi < hi
  BY <1>4, <1>7, <1>10
<1>12. ASSUME \A t \in tests : t <= path => t \in ok PROVE path <= next.hi
  <2>1. ~(low <= path)
    BY <1>7, <1>9, <1>12
  <2>2. QED
    BY <1>7, <1>10, <2>1
<1>13. NarrowedTo(next, tests, ok, hi, path)
  BY <1>3, <1>10, <1>11, <1>12 DEF NarrowedTo
<1>14. QED
  BY <1>13 DEF next

(* The same of the places a search goes to.                                  *)
LEMMA MinusIs == \A a, b \in Nat : MTU!Minus(a, b) \in Nat /\ (b <= a => MTU!Minus(a, b) = a - b)
<1>1. MTU!Wrapped \in Nat
  BY DEF MTU!Wrapped
<1>2. QED
  BY <1>1 DEF MTU!Minus
-----------------------------------------------------------------------------
MTUPlaces == {"nextHop", "echo", "mss", "tcp", "found", "error", "panic"}
MTUStates ==
    [path : Paths, marks : BOOLEAN, at : MTUPlaces, icmpTried : 0 .. ICMPServers, icmp : Nat,
     lo : Nat, hi : Nat, mtu : Nat, lost : 0 .. MaxLost, mss : Nat, alone : BOOLEAN]

(* What TCP may find: up to the limit of the server.                         *)
Limit(s) == TCPHeaders + s.mss

(* Before the first round nothing is known, and there is more than one size; *)
(* after it the path carries the smallest, and not more than the largest     *)
(* unless a packet was lost.                                                 *)
TCPInv(s) ==
    \/ s.hi = Limit(s) /\ s.lo < s.hi
    \/ s.lo <= s.path /\ (s.lost = 0 => s.path <= s.hi /\ s.path <= Limit(s))

FoundInv(s) ==
    /\ s.mtu <= s.path
    /\ s.lost = 0 => s.mtu = IF s.path < Limit(s) THEN s.path ELSE Limit(s)

MTUInv(s) ==
    /\ s \in MTUStates
    /\ s.at = "nextHop" => s.icmpTried < ICMPServers
    /\ s.at \in {"nextHop", "echo", "tcp"} => s.lo <= s.hi
    /\ s.at = "tcp" /\ ~s.alone => TCPInv(s)
    /\ s.at = "found" /\ s.marks /\ ~s.alone => FoundInv(s)
    /\ s.at = "panic" => Limit(s) < MTU!Larger(MinMTU, SafetyBuffer)

LEMMA MTUInvIsEnough ==
  ASSUME MTUInv(pm) PROVE MTU!TypeOK /\ MTU!FoundIsCarried /\ MTU!FoundIsLargest /\ MTU!PanicsOnTinyMSS
<1>1. MTU!TypeOK
  BY DEF MTUInv, MTUStates, MTUPlaces, MTU!TypeOK
<1>2. MTU!FoundIsCarried /\ MTU!FoundIsLargest /\ MTU!PanicsOnTinyMSS
  BY DEF MTUInv, FoundInv, Limit, MTU!FoundIsCarried, MTU!FoundIsLargest, MTU!PanicsOnTinyMSS
<1>3. QED
  BY <1>1, <1>2

LEMMA MTUInit == MTU!Init => MTUInv(pm)
<1> SUFFICES ASSUME MTU!Init PROVE MTUInv(pm)
  OBVIOUS
<1>1. PICK path \in Paths, marks \in BOOLEAN :
        pm = [path |-> path, marks |-> marks, at |-> IF ICMPServers = 0 THEN "mss" ELSE "nextHop",
              icmpTried |-> 0, icmp |-> 0, lo |-> MinMTU, hi |-> Physical, mtu |-> 0, lost |-> 0, mss |-> 0,
              alone |-> FALSE]
  BY DEF MTU!Init
<1>2. pm \in MTUStates /\ pm.lo <= pm.hi /\ pm.icmpTried = 0 /\ pm.at = IF ICMPServers = 0 THEN "mss" ELSE "nextHop"
  BY <1>1, MTUConstants DEF MTUStates, MTUPlaces
<1>3. QED
  BY <1>2, MTUConstants DEF MTUInv

(* The steps of ICMP: where they lead to there is nothing to keep but types. *)
LEMMA ICMPSteps ==
  ASSUME NEW s \in MTUStates
  PROVE  /\ MTUInv(MTU!NextAddress(s))
         /\ \A mtu \in Nat : MTUInv(MTU!FoundByICMP(s, mtu))
         /\ MTUInv(MTU!Failed(s, "error"))
<1>1. MTUInv(MTU!Failed(s, "error"))
  BY DEF MTUInv, MTUStates, MTUPlaces, MTU!Failed
<1>2. ASSUME NEW mtu \in Nat PROVE MTUInv(MTU!FoundByICMP(s, mtu))
  <2> DEFINE lo == MTU!Larger(MTU!Minus(mtu, Margin), MinMTU)
  <2>1. lo \in Nat
    BY MinusIs, MTUConstants DEF MTU!Larger
  <2>2. MTU!FoundByICMP(s, mtu) = [s EXCEPT !.at = "mss", !.icmp = mtu, !.hi = mtu, !.lo = lo]
    BY DEF MTU!FoundByICMP
  <2> HIDE DEF lo
  <2>3. QED
    BY <2>1, <2>2, ZenonT(60) DEF MTUInv, MTUStates, MTUPlaces
<1>3. MTUInv(MTU!NextAddress(s))
  <2> DEFINE place == IF s.icmpTried < ICMPServers THEN "nextHop" ELSE "mss"
             t == [s EXCEPT !.at = place, !.lo = MinMTU, !.hi = Physical]
  <2>1. MTU!NextAddress(s) = t
    BY DEF MTU!NextAddress
  <2>2. place \in {"nextHop", "mss"} /\ (place = "nextHop" => s.icmpTried < ICMPServers)
    OBVIOUS
  <2> HIDE DEF place
  <2>3. /\ t \in MTUStates /\ t.at = place /\ t.icmpTried = s.icmpTried
        /\ t.lo = MinMTU /\ t.hi = Physical
    BY <2>2, MTUConstants DEF MTUStates, MTUPlaces
  <2> HIDE DEF t
  <2>4. t.lo <= t.hi
    BY <2>3, MTUConstants
  <2>5. QED
    BY <2>1, <2>2, <2>3, <2>4 DEF MTUInv
<1>4. QED
  BY <1>1, <1>2, <1>3

LEMMA MTUNextHop == ASSUME MTUInv(pm), MTU!NextHop PROVE MTUInv(pm')
<1> DEFINE tried == pm.icmpTried + 1
           s == [pm EXCEPT !.icmpTried = tried]
<1>1. pm \in MTUStates /\ tried \in 0 .. ICMPServers /\ pm.lo <= pm.hi
  BY MTUConstants DEF MTUInv, MTUStates, MTU!NextHop
<1>2. \/ pm' = MTU!FoundByICMP(s, Physical)
      \/ \E hop \in pm.path .. Physical - 1 : pm' = MTU!FoundByICMP(s, hop)
      \/ pm' = [s EXCEPT !.at = "echo"]
      \/ pm' = MTU!NextAddress(s)
      \/ pm' = MTU!Failed(s, "error")
  BY DEF MTU!NextHop
<1> HIDE DEF tried
<1>3. s \in MTUStates /\ s.lo <= s.hi
  BY <1>1 DEF MTUStates
<1> HIDE DEF s
<1>4. \A hop \in pm.path .. Physical - 1 : hop \in Nat
  BY <1>1, PathsAreNat DEF MTUStates
<1>5. CASE pm' = [s EXCEPT !.at = "echo"]
  BY <1>3, <1>5 DEF MTUInv, MTUStates, MTUPlaces
<1>6. QED
  BY <1>2, <1>3, <1>4, <1>5, ICMPSteps, MTUConstants

(* What is tested, and what is lost.                                         *)
LEMMA Rounds ==
  ASSUME MTUInv(pm), pm.at \in {"echo", "tcp"}
  PROVE  LET tests == MTU!MTUsToTest(pm.lo, pm.hi)
             fits == {t \in tests : t <= pm.path}
         IN  /\ tests \in SUBSET (0 .. pm.hi) /\ pm.hi \in tests /\ pm.hi \in Nat /\ pm.lo \in Nat
             /\ pm.path \in Nat /\ pm \in MTUStates /\ pm.lo <= pm.hi
             /\ \A ok \in SUBSET fits :
                  /\ ok \in SUBSET tests
                  /\ \A t \in ok : t <= pm.path /\ t \in Nat
                  /\ MTU!Cardinality(fits \ ok) \in Nat
                  /\ MTU!Cardinality(tests \ ok) \in Nat
                  /\ MTU!Cardinality(fits \ ok) = 0 => \A t \in tests : t <= pm.path => t \in ok
<1> DEFINE tests == MTU!MTUsToTest(pm.lo, pm.hi)
           fits == {t \in tests : t <= pm.path}
<1>1. pm \in MTUStates /\ pm.lo <= pm.hi /\ pm.lo \in Nat /\ pm.hi \in Nat /\ pm.path \in Nat
  BY PathsAreNat DEF MTUInv, MTUStates
<1>2. tests \in SUBSET (0 .. pm.hi) /\ pm.hi \in tests
  BY <1>1, TestsAre
<1> HIDE DEF tests
<1>3. tests \in SUBSET Nat /\ \A t \in tests : t <= pm.hi
  BY <1>1, <1>2
<1>4. IsFiniteSet(tests)
  BY <1>1, <1>3, FS_BoundedSetOfNaturals
<1>5. ASSUME NEW ok \in SUBSET fits
      PROVE  /\ ok \in SUBSET tests
             /\ \A t \in ok : t <= pm.path /\ t \in Nat
             /\ MTU!Cardinality(fits \ ok) \in Nat
             /\ MTU!Cardinality(tests \ ok) \in Nat
             /\ MTU!Cardinality(fits \ ok) = 0 => \A t \in tests : t <= pm.path => t \in ok
  <2>1. ok \in SUBSET tests /\ \A t \in ok : t <= pm.path /\ t \in Nat
    BY <1>3
  <2>2. IsFiniteSet(fits \ ok) /\ IsFiniteSet(tests \ ok)
    BY <1>4, FS_Subset
  <2>3. Cardinality(fits \ ok) \in Nat /\ Cardinality(tests \ ok) \in Nat
    BY <2>2, FS_CardinalityType
  <2>4. Cardinality(fits \ ok) = 0 => fits \ ok = {}
    BY <2>2, FS_EmptySet
  <2>5. QED
    BY <2>1, <2>3, <2>4, MTUCardinality
<1>6. QED
  BY <1>1, <1>2, <1>5 DEF tests

LEMMA MTUEcho == ASSUME MTUInv(pm), MTU!Echo PROVE MTUInv(pm')
<1> DEFINE tests == MTU!MTUsToTest(pm.lo, pm.hi)
           fits == {t \in tests : t <= pm.path}
<1>1. /\ tests \in SUBSET (0 .. pm.hi) /\ pm.hi \in tests /\ pm.hi \in Nat /\ pm.lo \in Nat
      /\ pm.path \in Nat /\ pm \in MTUStates /\ pm.lo <= pm.hi
      /\ \A ok \in SUBSET fits :
           /\ ok \in SUBSET tests
           /\ MTU!Cardinality(fits \ ok) \in Nat
           /\ MTU!Cardinality(tests \ ok) \in Nat
  BY Rounds DEF MTU!Echo
<1>2. CASE pm.lo = pm.hi
  <2>1. pm' = MTU!FoundByICMP(pm, pm.lo)
    BY <1>2 DEF MTU!Echo
  <2>2. QED
    BY <1>1, <2>1, ICMPSteps
<1>3. CASE pm.lo # pm.hi
  <2>1. PICK ok \in SUBSET fits, doubled \in BOOLEAN :
          LET lost == MTU!Cardinality(fits \ ok) + (IF doubled THEN MTU!Cardinality(tests \ ok) ELSE 0)
              s == [pm EXCEPT !.lost = pm.lost + lost]
          IN  /\ MTU!Lose(lost)
              /\ pm' = IF ok = tests \/ doubled THEN MTU!FoundByICMP(s, pm.hi)
                       ELSE IF ok \ {pm.hi} = {} THEN MTU!NextAddress(s)
                       ELSE LET next == MTU!Narrow(tests, ok \ {pm.hi})
                            IN  [s EXCEPT !.lo = next.lo, !.hi = next.hi]
    BY <1>3 DEF MTU!Echo
  <2> DEFINE lost == MTU!Cardinality(fits \ ok) + (IF doubled THEN MTU!Cardinality(tests \ ok) ELSE 0)
             total == pm.lost + lost
             s == [pm EXCEPT !.lost = total]
             passed == ok \ {pm.hi}
             next == MTU!Narrow(tests, passed)
  <2>2. total \in 0 .. MaxLost
    <3>1. lost \in Nat
      BY <1>1
    <3>2. MTU!Lose(lost)
      BY <2>1
    <3> HIDE DEF lost
    <3>3. QED
      BY <1>1, <3>1, <3>2, MTUConstants DEF MTU!Lose, MTUStates
  <2>3. \/ pm' = MTU!FoundByICMP(s, pm.hi)
        \/ pm' = MTU!NextAddress(s)
        \/ passed # {} /\ pm' = [s EXCEPT !.lo = next.lo, !.hi = next.hi]
    BY <2>1
  <2> HIDE DEF total, tests
  <2>4. s \in MTUStates /\ s.at = "echo"
    BY <1>1, <2>2 DEF MTUStates, MTU!Echo
  <2> HIDE DEF s
  <2>5. CASE passed # {} /\ pm' = [s EXCEPT !.lo = next.lo, !.hi = next.hi]
    <3>1. passed \in SUBSET tests /\ pm.hi \notin passed /\ \A t \in passed : t \in Nat
      <4>1. tests \in SUBSET (0 .. pm.hi) /\ ok \in SUBSET tests
        BY <1>1
      <4>2. \A t \in tests : t \in Nat
        BY <4>1
      <4>3. passed \in SUBSET tests /\ pm.hi \notin passed
        BY <4>1
      <4>4. QED
        BY <4>2, <4>3
    <3> HIDE DEF passed
    <3>2. NarrowedTo(next, tests, passed, pm.hi, pm.path)
      BY <1>1, <2>5, <3>1, NarrowIs
    <3> HIDE DEF next
    <3>3. next.lo \in Nat /\ next.hi \in Nat /\ next.lo <= next.hi
      BY <3>1, <3>2 DEF NarrowedTo
    <3>4. QED
      BY <2>4, <2>5, <3>3 DEF MTUInv, MTUStates
  <2>6. QED
    BY <1>1, <2>3, <2>4, <2>5, ICMPSteps
<1>4. QED
  BY <1>2, <1>3

LEMMA MTUConnect == ASSUME MTUInv(pm), MTU!Connect PROVE MTUInv(pm')
<1> DEFINE tests == MTU!MTUsToTest(pm.lo, pm.hi)
           fits == {t \in tests : t <= pm.path}
<1>1. /\ tests \in SUBSET (0 .. pm.hi) /\ pm.hi \in tests /\ pm.hi \in Nat /\ pm.lo \in Nat
      /\ pm.path \in Nat /\ pm \in MTUStates /\ pm.lo <= pm.hi
      /\ \A ok \in SUBSET fits :
           /\ ok \in SUBSET tests
           /\ \A t \in ok : t <= pm.path /\ t \in Nat
           /\ MTU!Cardinality(fits \ ok) \in Nat
           /\ MTU!Cardinality(fits \ ok) = 0 => \A t \in tests : t <= pm.path => t \in ok
  BY Rounds DEF MTU!Connect
<1>2. pm.at = "tcp" /\ (~pm.alone => TCPInv(pm)) /\ pm.mss \in Nat /\ Limit(pm) \in Nat /\ pm.lost \in Nat
  <2>1. pm.at = "tcp" /\ (~pm.alone => TCPInv(pm))
    BY DEF MTU!Connect, MTUInv
  <2>2. pm.mss \in Nat /\ pm.lost \in 0 .. MaxLost
    BY <1>1 DEF MTUStates
  <2>3. QED
    BY <2>1, <2>2, MTUConstants DEF Limit
<1>3. CASE pm.lo = pm.hi
  <2>1. pm' = [pm EXCEPT !.at = "found", !.mtu = pm.lo]
    BY <1>3 DEF MTU!Connect
  <2>2. pm' \in MTUStates /\ pm'.at = "found" /\ pm'.mtu = pm.lo /\ pm'.path = pm.path /\ pm'.lost = pm.lost
        /\ pm'.mss = pm.mss /\ pm'.alone = pm.alone
    BY <1>1, <2>1 DEF MTUStates, MTUPlaces
  <2>3. ~pm.alone => FoundInv(pm')
    BY <1>1, <1>2, <1>3, <2>2 DEF TCPInv, FoundInv, Limit
  <2>4. QED
    BY <2>2, <2>3 DEF MTUInv
<1>4. CASE pm.lo # pm.hi
  <2>1. PICK ok \in SUBSET fits :
          LET s == [pm EXCEPT !.lost = pm.lost + MTU!Cardinality(fits \ ok)]
          IN  /\ MTU!Lose(MTU!Cardinality(fits \ ok))
              /\ pm' = IF pm.hi \in ok THEN [s EXCEPT !.at = "found", !.mtu = pm.hi]
                       ELSE IF ok = {} THEN MTU!Failed(s, "error")
                       ELSE LET next == MTU!Narrow(tests, ok)
                            IN  [s EXCEPT !.lo = next.lo, !.hi = next.hi]
    BY <1>4 DEF MTU!Connect
  <2> DEFINE lost == MTU!Cardinality(fits \ ok)
             total == pm.lost + lost
             s == [pm EXCEPT !.lost = total]
             next == MTU!Narrow(tests, ok)
  <2>2. ok \in SUBSET tests /\ (\A t \in ok : t <= pm.path /\ t \in Nat) /\ lost \in Nat
    BY <1>1
  <2>3. lost = 0 => \A t \in tests : t <= pm.path => t \in ok
    BY <1>1
  <2>4. total \in 0 .. MaxLost /\ (total = 0 => pm.lost = 0 /\ lost = 0)
    <3>1. MTU!Lose(lost)
      BY <2>1
    <3> HIDE DEF lost
    <3>2. QED
      BY <1>2, <2>2, <3>1, MTUConstants DEF MTU!Lose
  <2>5. pm' = IF pm.hi \in ok THEN [s EXCEPT !.at = "found", !.mtu = pm.hi]
              ELSE IF ok = {} THEN MTU!Failed(s, "error")
              ELSE [s EXCEPT !.lo = next.lo, !.hi = next.hi]
    BY <2>1
  <2> HIDE DEF total, lost
  <2>6. /\ s \in MTUStates /\ s.at = "tcp" /\ s.path = pm.path /\ s.mss = pm.mss /\ s.alone = pm.alone
        /\ s.lo = pm.lo /\ s.hi = pm.hi /\ s.lost = total
    BY <1>1, <1>2, <2>4 DEF MTUStates
  <2> HIDE DEF s, tests
  <2>7. CASE pm.hi \in ok
    <3>1. pm' = [s EXCEPT !.at = "found", !.mtu = pm.hi]
      BY <2>5, <2>7
    <3>2. pm' \in MTUStates /\ pm'.at = "found" /\ pm'.mtu = pm.hi /\ pm'.path = pm.path /\ pm'.lost = total
          /\ pm'.mss = pm.mss /\ pm'.alone = pm.alone
      BY <1>1, <2>6, <3>1 DEF MTUStates, MTUPlaces
    <3>3. pm.hi <= pm.path
      BY <2>2, <2>7
    <3>4. ~pm.alone => FoundInv(pm')
      BY <1>1, <1>2, <2>4, <3>2, <3>3 DEF TCPInv, FoundInv, Limit
    <3>5. QED
      BY <3>2, <3>4 DEF MTUInv
  <2>8. CASE pm.hi \notin ok /\ ok = {}
    BY <2>5, <2>6, <2>8, ICMPSteps
  <2>9. CASE pm.hi \notin ok /\ ok # {}
    <3>1. pm' = [s EXCEPT !.lo = next.lo, !.hi = next.hi]
      BY <2>5, <2>9
    <3>2. NarrowedTo(next, tests, ok, pm.hi, pm.path)
      BY <1>1, <2>2, <2>9, NarrowIs
    <3> HIDE DEF next
    <3>3. /\ next.lo \in Nat /\ next.hi \in Nat /\ next.lo <= next.hi /\ next.hi < pm.hi
          /\ next.lo <= pm.path
          /\ (\A t \in tests : t <= pm.path => t \in ok) => pm.path <= next.hi
      BY <2>2, <3>2 DEF NarrowedTo
    <3>4. /\ pm' \in MTUStates /\ pm'.at = "tcp" /\ pm'.path = pm.path /\ pm'.mss = pm.mss
          /\ pm'.alone = pm.alone /\ pm'.lost = total /\ pm'.lo = next.lo /\ pm'.hi = next.hi
      BY <2>6, <3>1, <3>3 DEF MTUStates
    <3>5. total = 0 /\ ~pm.alone => pm.path <= next.hi /\ pm.path <= Limit(pm)
      <4>1. total = 0 => pm.path <= next.hi
        BY <2>3, <2>4, <3>3
      <4>2. total = 0 => pm.path < pm.hi
        BY <1>1, <3>3, <4>1
      <4>3. ~pm.alone => pm.hi = Limit(pm) \/ (pm.lost = 0 => pm.path <= Limit(pm))
        BY <1>2 DEF TCPInv
      <4>4. QED
        BY <1>1, <1>2, <2>4, <4>1, <4>2, <4>3
    <3>6. ~pm.alone => TCPInv(pm')
      BY <3>3, <3>4, <3>5 DEF TCPInv, Limit
    <3>7. QED
      BY <3>3, <3>4, <3>6 DEF MTUInv
  <2>10. QED
    BY <2>7, <2>8, <2>9
<1>5. QED
  BY <1>3, <1>4

(* The server that TCP is tested against has a size of its own.              *)
LEMMA DestinationIs ==
  ASSUME TCPServers # {}, NEW of \in [TCPServers -> MSSs],
         NEW mss \in MTU!Destination({of[s] : s \in TCPServers})
  PROVE  mss \in MSSs
<1> DEFINE announced == {of[s] : s \in TCPServers}
<1>1. announced \in SUBSET MSSs /\ announced # {}
  OBVIOUS
<1>2. IsFiniteSet(announced)
  <2>1. of \in Surjection(TCPServers, announced)
    BY DEF Surjection
  <2> HIDE DEF announced
  <2>2. QED
    BY <2>1, FS_Surjection, MTUConstants
<1> HIDE DEF announced
<1>3. announced \in SUBSET Nat
  BY <1>1, MTUConstants
<1>4. MTU!Max(announced) \in announced
  BY <1>1, <1>2, <1>3, MTUMax
<1>5. mss \in announced
  BY <1>4 DEF MTU!Destination, announced
<1>6. QED
  BY <1>1, <1>5

LEMMA MTUFindMSS == ASSUME MTUInv(pm), MTU!FindMSS PROVE MTUInv(pm')
<1>1. pm \in MTUStates /\ pm.at = "mss" /\ pm.lo \in Nat
  BY DEF MTUInv, MTUStates, MTU!FindMSS
<1>2. CASE pm' = MTU!Failed(pm, "error")
  BY <1>1, <1>2, ICMPSteps
<1>3. CASE ~pm.marks /\ pm' = [pm EXCEPT !.at = "found", !.mtu = pm.icmp]
  BY <1>1, <1>3 DEF MTUInv, MTUStates, MTUPlaces
<1>4. CASE /\ TCPServers # {}
           /\ \E of \in [TCPServers -> MSSs] : \E mss \in MTU!Destination({of[s] : s \in TCPServers}) :
                LET hi == TCPHeaders + mss
                    lo == IF pm.lo > hi THEN MTU!Minus(hi, SafetyBuffer) ELSE pm.lo
                IN  pm' = [pm EXCEPT !.lo = lo, !.hi = hi, !.mss = mss, !.alone = lo = hi,
                                     !.at = IF lo > hi THEN "panic" ELSE "tcp"]
  <2>1. PICK of \in [TCPServers -> MSSs] : \E mss \in MTU!Destination({of[s] : s \in TCPServers}) :
          LET hi == TCPHeaders + mss
              lo == IF pm.lo > hi THEN MTU!Minus(hi, SafetyBuffer) ELSE pm.lo
          IN  pm' = [pm EXCEPT !.lo = lo, !.hi = hi, !.mss = mss, !.alone = lo = hi,
                               !.at = IF lo > hi THEN "panic" ELSE "tcp"]
    BY <1>4
  <2>2. PICK mss \in MTU!Destination({of[s] : s \in TCPServers}) :
          LET hi == TCPHeaders + mss
              lo == IF pm.lo > hi THEN MTU!Minus(hi, SafetyBuffer) ELSE pm.lo
          IN  pm' = [pm EXCEPT !.lo = lo, !.hi = hi, !.mss = mss, !.alone = lo = hi,
                               !.at = IF lo > hi THEN "panic" ELSE "tcp"]
    BY <2>1
  <2> DEFINE hi == TCPHeaders + mss
             lo == IF pm.lo > hi THEN MTU!Minus(hi, SafetyBuffer) ELSE pm.lo
             alone == lo = hi
             place == IF lo > hi THEN "panic" ELSE "tcp"
  <2>3. mss \in Nat
    BY <1>4, DestinationIs, MTUConstants
  <2>4. hi \in Nat
    BY <2>3, MTUConstants
  <2>5. pm' = [pm EXCEPT !.lo = lo, !.hi = hi, !.mss = mss, !.alone = alone, !.at = place]
    BY <2>2
  <2> DEFINE minus == MTU!Minus(hi, SafetyBuffer)
  <2>6. minus \in Nat /\ (SafetyBuffer <= hi => minus = hi - SafetyBuffer)
    BY <2>4, MinusIs, MTUConstants
  <2>7. lo \in Nat /\ (lo > hi => hi < MTU!Larger(MinMTU, SafetyBuffer))
    <3>1. lo = IF pm.lo > hi THEN minus ELSE pm.lo
      OBVIOUS
    <3> HIDE DEF minus, hi, lo
    <3>2. lo \in Nat
      BY <1>1, <2>4, <2>6, <3>1
    <3>3. lo > hi => hi < SafetyBuffer
      BY <1>1, <2>4, <2>6, <3>1, MTUConstants
    <3>4. QED
      BY <2>4, <3>2, <3>3, MTUConstants DEF MTU!Larger
  <2>8. hi = TCPHeaders + mss
    OBVIOUS
  <2> HIDE DEF minus, hi, lo
  <2>9. alone \in BOOLEAN /\ place \in {"panic", "tcp"} /\ (place = "panic" => lo > hi) /\ (place = "tcp" => ~(lo > hi))
    OBVIOUS
  <2>10. alone <=> lo = hi
    OBVIOUS
  <2> HIDE DEF alone, place
  <2>11. /\ pm' \in MTUStates /\ pm'.lo = lo /\ pm'.hi = hi /\ pm'.mss = mss /\ pm'.alone = alone
         /\ pm'.at = place
    BY <1>1, <2>3, <2>4, <2>5, <2>7, <2>9 DEF MTUStates, MTUPlaces
  <2>12. Limit(pm') = hi
    BY <2>8, <2>11 DEF Limit
  <2>13. place = "tcp" => lo <= hi
    BY <2>4, <2>7, <2>9
  <2>14. place = "tcp" /\ ~alone => TCPInv(pm')
    BY <2>4, <2>7, <2>10, <2>11, <2>12, <2>13 DEF TCPInv
  <2>15. QED
    BY <2>7, <2>9, <2>11, <2>12, <2>13, <2>14 DEF MTUInv
<1>5. QED
  BY <1>2, <1>3, <1>4 DEF MTU!FindMSS

LEMMA MTUInvariance == MTU!Spec => []MTUInv(pm)
<1>1. MTUInv(pm) /\ [MTU!Next]_pm => MTUInv(pm)'
  <2> SUFFICES ASSUME MTUInv(pm), [MTU!Next]_pm PROVE MTUInv(pm')
    OBVIOUS
  <2>1. CASE UNCHANGED pm
    BY <2>1
  <2>2. CASE MTU!Abort
    BY <2>2, ICMPSteps DEF MTU!Abort, MTUInv
  <2>3. QED
    BY <2>1, <2>2, MTUNextHop, MTUEcho, MTUFindMSS, MTUConnect DEF MTU!Next
<1>2. QED
  BY <1>1, MTUInit, PTL DEF MTU!Spec

-----------------------------------------------------------------------------
(* Socks5Server: what listens while the loop and the server are at each of   *)
(* their places.                                                             *)

SocksStates ==
    [enabled : BOOLEAN, loop : {"starting", "running", "retry", "stopping", "sending", "ended"},
     stop : {"none", "waiting", "returned"},
     run : {"none", "select", "tcp", "udp", "stopTCP", "stopUDP", "report", "error", "done"},
     told : BOOLEAN, tcp : {"off", "on", "failed"}, udp : {"off", "on", "failed"},
     conns : Nat, cancelled : BOOLEAN, accepted : Nat, failures : Nat]

(* What the listeners are doing while the server is at each of its places.   *)
ListenersInv ==
    /\ socks.run = "none" => socks.tcp = "off" /\ socks.udp = "off" /\ socks.conns = 0
    /\ socks.run = "select" => socks.tcp # "off" /\ socks.udp # "off"
    /\ socks.run = "tcp" => socks.tcp = "failed" /\ socks.udp = "off" /\ socks.cancelled
    /\ socks.run = "udp" => socks.tcp = "off" /\ socks.udp = "failed" /\ socks.cancelled
    /\ socks.run = "stopTCP" => socks.tcp = "failed" /\ socks.udp # "off" /\ socks.cancelled
    /\ socks.run = "stopUDP" => socks.tcp = "off" /\ socks.udp = "failed" /\ socks.cancelled
    /\ socks.run \in {"report", "error", "done"} => socks.tcp = "off" /\ socks.udp = "off" /\ socks.cancelled

(* Where the loop is while the server runs; it is told to stop only when the *)
(* loop waits for it.                                                        *)
SocksLoopInv ==
    /\ socks.loop \in {"starting", "retry", "sending", "ended"} => socks.run \in {"none", "done"}
    /\ ~socks.enabled => socks.run = "none"
    /\ socks.loop = "running" /\ socks.enabled =>
         ~socks.told /\ socks.run \in {"select", "tcp", "udp", "report"}
    /\ socks.loop = "stopping" => socks.run # "none" /\ socks.told
    /\ socks.run \in {"stopTCP", "stopUDP", "error"} => socks.told
    /\ socks.stop = "returned" => socks.loop = "ended"

SocksInv ==
    /\ socks \in SocksStates /\ socks.conns \in 0 .. socks.accepted
    /\ ListenersInv /\ SocksLoopInv

SocksIsRight == Socks!TypeOK /\ Socks!StopHangsOnlyAfterCrash /\ Socks!NothingListens

LEMMA SocksInvIsEnough == ASSUME SocksInv PROVE SocksIsRight
<1> USE DEF SocksInv, SocksStates
<1>1. Socks!TypeOK
  BY DEF Socks!TypeOK
<1>2. Socks!StopHangsOnlyAfterCrash
  BY DEF Socks!StopHangsOnlyAfterCrash, Socks!Wedged, ListenersInv, SocksLoopInv
<1>3. Socks!NothingListens
  <2>1. \A n \in Nat : n = 0 => ~(n > 0)
    OBVIOUS
  <2>2. socks.stop = "returned" \/ socks.loop = "retry" => socks.run \in {"none", "done"}
    BY DEF SocksLoopInv
  <2>3. socks.conns = 0 => ~(socks.conns > 0)
    BY <2>1
  <2>4. QED
    BY <2>2, <2>3 DEF Socks!NothingListens, ListenersInv
<1>4. QED
  BY <1>1, <1>2, <1>3 DEF SocksIsRight

LEMMA SocksInit == Socks!Init => SocksInv
BY DEF Socks!Init, SocksInv, SocksStates, ListenersInv, SocksLoopInv

LEMMA SocksLoopStep ==
  ASSUME SocksInv,
         \/ Socks!Start \/ Socks!Retry \/ Socks!StopServer \/ Socks!Stopped \/ Socks!Crashed
         \/ Socks!Stop \/ Socks!StopReturns
  PROVE  SocksInv'
<1>0. socks.failures + 1 \in Nat
  BY DEF SocksInv, SocksStates
<1> USE DEF SocksInv, SocksStates, ListenersInv, SocksLoopInv, Socks!Stopping
<1>1. CASE Socks!Start
  <2>1. CASE socks' = [socks EXCEPT !.loop = "ended"]
    BY <1>1, <2>1 DEF Socks!Start
  <2>2. CASE ~socks.enabled /\ socks' = [socks EXCEPT !.loop = "running"]
    BY <1>1, <2>2 DEF Socks!Start, Socks!Stopping
  <2>3. CASE /\ socks.enabled
             /\ socks' = [socks EXCEPT !.loop = "running", !.run = "select", !.told = FALSE, !.tcp = "on",
                                      !.udp = "on", !.cancelled = FALSE]
    BY <1>1, <2>3 DEF Socks!Start
  <2>4. CASE socks' = [socks EXCEPT !.loop = "retry", !.failures = socks.failures + 1]
    BY <1>0, <1>1, <2>4 DEF Socks!Start
  <2>5. QED
    BY <1>1, <2>1, <2>2, <2>3, <2>4 DEF Socks!Start
<1>2. CASE Socks!Retry
  BY <1>2 DEF Socks!Retry
<1>3. CASE Socks!StopServer
  BY <1>3 DEF Socks!StopServer
<1>4. CASE Socks!Stopped
  BY <1>4 DEF Socks!Stopped
<1>5. CASE Socks!Crashed
  BY <1>5 DEF Socks!Crashed
<1>6. CASE Socks!Stop
  BY <1>6 DEF Socks!Stop
<1>7. CASE Socks!StopReturns
  BY <1>7 DEF Socks!StopReturns
<1>8. QED
  BY <1>1, <1>2, <1>3, <1>4, <1>5, <1>6, <1>7

LEMMA SocksServerStep ==
  ASSUME SocksInv,
         \/ Socks!SelectStop \/ Socks!UDPFailed \/ Socks!TCPFailed \/ Socks!TCPEnded \/ Socks!UDPEnded
  PROVE  SocksInv'
<1> USE DEF SocksInv, SocksStates, ListenersInv, SocksLoopInv, Socks!Close
<1>1. CASE Socks!SelectStop
  BY <1>1 DEF Socks!SelectStop
<1>2. CASE Socks!UDPFailed
  BY <1>2 DEF Socks!UDPFailed
<1>3. CASE Socks!TCPFailed
  BY <1>3 DEF Socks!TCPFailed
<1>4. CASE Socks!TCPEnded
  BY <1>4 DEF Socks!TCPEnded
<1>5. CASE Socks!UDPEnded
  <2>1. PICK end \in {"report", "done", "error"} : socks' = [socks EXCEPT !.udp = "off", !.run = end]
    BY <1>5 DEF Socks!UDPEnded
  <2>2. /\ socks.run \in {"udp", "stopUDP"} /\ socks.udp = "failed"
        /\ socks.run = "udp" => socks'.run = "report"
        /\ socks.run = "stopUDP" => socks'.run \in {"done", "error"}
    BY <1>5 DEF Socks!UDPEnded
  <2>3. socks' \in SocksStates /\ socks'.conns \in 0 .. socks'.accepted
    BY <2>1
  <2>4. /\ socks'.udp = "off" /\ socks'.run = end
        /\ socks'.tcp = socks.tcp /\ socks'.conns = socks.conns /\ socks'.cancelled = socks.cancelled
        /\ socks'.loop = socks.loop /\ socks'.enabled = socks.enabled /\ socks'.told = socks.told
        /\ socks'.stop = socks.stop
    BY <2>1
  <2> QED BY <2>2, <2>3, <2>4
<1>6. QED
  BY <1>1, <1>2, <1>3, <1>4, <1>5

LEMMA SocksListenerStep ==
  ASSUME SocksInv,
         \/ Socks!Accept \/ Socks!AcceptFails \/ Socks!ReadFails \/ Socks!ConnectionEnds
  PROVE  SocksInv'
<1>0. /\ socks \in SocksStates /\ socks.conns \in 0 .. socks.accepted
      /\ socks.accepted \in Nat /\ socks.failures + 1 \in Nat
  BY DEF SocksInv, SocksStates
<1>1. CASE Socks!Accept
  <2> DEFINE conns == socks.conns + 1
             accepted == socks.accepted + 1
  <2>1. socks.run # "none" /\ socks' = [socks EXCEPT !.conns = conns, !.accepted = accepted]
    BY <1>0, <1>1 DEF Socks!Accept, SocksInv, ListenersInv
  <2>2. conns \in Nat /\ accepted \in Nat /\ conns \in 0 .. accepted
    BY <1>0
  <2> HIDE DEF conns, accepted
  <2>3. socks' \in SocksStates /\ socks'.conns \in 0 .. socks'.accepted
    BY <1>0, <2>1, <2>2 DEF SocksStates
  <2>4. QED
    BY <1>0, <2>1, <2>3 DEF SocksInv, SocksStates, ListenersInv, SocksLoopInv
<1>2. CASE Socks!AcceptFails
  <2>1. /\ socks.tcp = "on"
        /\ socks' = [socks EXCEPT !.tcp = "failed", !.cancelled = TRUE, !.failures = socks.failures + 1]
    BY <1>0, <1>2 DEF Socks!AcceptFails
  <2>2. socks' \in SocksStates /\ socks'.conns \in 0 .. socks'.accepted
    BY <1>0, <2>1 DEF SocksStates
  <2>3. QED
    BY <1>0, <2>1, <2>2 DEF SocksInv, SocksStates, ListenersInv, SocksLoopInv
<1>3. CASE Socks!ReadFails
  <2>1. /\ socks.udp = "on"
        /\ socks' = [socks EXCEPT !.udp = "failed", !.failures = socks.failures + 1]
    BY <1>0, <1>3 DEF Socks!ReadFails
  <2>2. socks' \in SocksStates /\ socks'.conns \in 0 .. socks'.accepted
    BY <1>0, <2>1 DEF SocksStates
  <2>3. QED
    BY <1>0, <2>1, <2>2 DEF SocksInv, SocksStates, ListenersInv, SocksLoopInv
<1>4. CASE Socks!ConnectionEnds
  <2> DEFINE conns == socks.conns - 1
  <2>1. socks.run # "none" /\ socks' = [socks EXCEPT !.conns = conns]
    BY <1>0, <1>4 DEF Socks!ConnectionEnds, SocksInv, ListenersInv
  <2>2. conns \in Nat /\ conns \in 0 .. socks.accepted
    BY <1>0, <1>4 DEF Socks!ConnectionEnds
  <2> HIDE DEF conns
  <2>3. socks' \in SocksStates /\ socks'.conns \in 0 .. socks'.accepted
    BY <1>0, <2>1, <2>2 DEF SocksStates
  <2>4. QED
    BY <1>0, <2>1, <2>3 DEF SocksInv, SocksStates, ListenersInv, SocksLoopInv
<1>5. QED
  BY <1>1, <1>2, <1>3, <1>4

LEMMA SocksInvariance == Socks!Spec => []SocksInv
<1>1. SocksInv /\ [Socks!Next]_socks => SocksInv'
  <2>1. ASSUME SocksInv, Socks!Next PROVE SocksInv'
    BY <2>1, SocksLoopStep, SocksServerStep, SocksListenerStep DEF Socks!Next
  <2>2. ASSUME SocksInv, UNCHANGED socks PROVE SocksInv'
    BY <2>2 DEF SocksInv, SocksStates, ListenersInv, SocksLoopInv
  <2>3. QED
    BY <2>1, <2>2
<1>2. QED
  BY <1>1, SocksInit, PTL DEF Socks!Spec

-----------------------------------------------------------------------------
(* Routing: what a run made, and what a run before it left.                  *)

Places == {"setup", "outbound", "local", "up", "teardown", "unroute", "ended"}

RtStates ==
    [families : {{"v4"}, {"v4", "v6"}}, wanted : SUBSET Kernel!Prefixes, outbound : SUBSET Kernel!Prefixes,
     rules : SUBSET Kernel!Items, routes : SUBSET (Kernel!Items \ {Kernel!Local}),
     left : (SUBSET Kernel!Items) \X (SUBSET Kernel!Items), at : Places, failed : SUBSET Places,
     killed : BOOLEAN, faults : 0 .. RoutingFaults, runs : Nat]

Carried == {n \in rt.wanted : OutboundFamily[n] \in rt.families}
In == Kernel!Inbound(rt.families)
Out == Kernel!Outbound(rt.outbound)
Halfway == IF "outbound" \in rt.failed THEN Kernel!Outbound(rt.wanted) ELSE {}
NewRules == rt.rules \ rt.left[1]
NewRoutes == rt.routes \ rt.left[2]

(* What the program has made so far, by the place where it is.               *)
MadeInv ==
    /\ rt.at = "setup" => NewRules = {} /\ NewRoutes = {}
    /\ rt.at \in {"outbound", "local", "up"} => In \subseteq rt.rules \cap rt.routes
    /\ rt.at \in {"local", "up"} => rt.outbound = Carried /\ Out \subseteq rt.rules \cap rt.routes
    /\ rt.at \in {"outbound", "local", "up", "teardown"} =>
         /\ NewRules \subseteq In \cup Out \cup {Kernel!Local}
         /\ NewRoutes \subseteq In \cup Out \cup Halfway
    /\ rt.at = "unroute" =>
         NewRules \subseteq Out \cup {Kernel!Local} /\ NewRoutes \subseteq Out \cup Halfway

(* What failed before, and what TearDown may therefore find.                 *)
FailedInv ==
    /\ rt.at \in {"setup", "outbound", "local", "up"} => rt.failed = {}
    /\ rt.at \in {"setup", "outbound"} => rt.outbound = {}
    /\ rt.at = "teardown" =>
         /\ "setup" \notin rt.failed => In \subseteq rt.routes
         /\ "setup" \in rt.failed =>
              rt.outbound = {} /\ "outbound" \notin rt.failed /\ NewRoutes \subseteq Kernel!Inbound({"v4"})

RtInv == rt \in RtStates /\ MadeInv /\ FailedInv /\ Kernel!RunsLeaveNothing

LEMMA RoutingConstantsHold ==
    /\ OutboundFamily \in [Kernel!Prefixes -> {"v4", "v6"}] /\ IsFiniteSet(Kernel!Prefixes)
    /\ RoutingFaults \in Nat
<1>1. Kernel!RoutingConstants
  BY NetworkAssumption DEF NetworkAssumption
<1>2. /\ OutboundFamily \in [DOMAIN OutboundFamily -> {"v4", "v6"}]
      /\ IsFiniteSet(DOMAIN OutboundFamily)
      /\ RoutingFaults \in Nat
  BY <1>1 DEF Kernel!RoutingConstants, Kernel!IsFiniteSet, IsFiniteSet
<1>3. QED
  BY <1>2 DEF Kernel!Prefixes

LEMMA RtInvIsEnough == ASSUME RtInv PROVE Kernel!TypeOK /\ Kernel!RoutesAreSetUp /\ Kernel!RunsLeaveNothing
<1>1. Kernel!TypeOK
  BY DEF RtInv, RtStates, Kernel!TypeOK, Places
<1>2. Kernel!RoutesAreSetUp
  BY DEF RtInv, MadeInv, Kernel!RoutesAreSetUp, Carried, In, Out, Kernel!Inbound, Kernel!Outbound
<1>3. QED
  BY <1>1, <1>2 DEF RtInv

-----------------------------------------------------------------------------
LEMMA Halves ==
  /\ \A A, B : Kernel!Outbound(A \cup B) = Kernel!Outbound(A) \cup Kernel!Outbound(B)
  /\ \A A, B : A \subseteq B => Kernel!Inbound(A) \subseteq Kernel!Inbound(B)
  /\ \A A, B : A \subseteq B => Kernel!Outbound(A) \subseteq Kernel!Outbound(B)
  /\ Kernel!Outbound({}) = {} /\ Kernel!Inbound({}) = {}
  /\ \A A, f : <<"inbound", f>> \in Kernel!Inbound(A) <=> f \in A
<1>1. \A A, B : Kernel!Outbound(A \cup B) = Kernel!Outbound(A) \cup Kernel!Outbound(B)
  BY DEF Kernel!Outbound
<1>2. \A A, B : A \subseteq B => Kernel!Inbound(A) \subseteq Kernel!Inbound(B)
  BY DEF Kernel!Inbound
<1>3. \A A, B : A \subseteq B => Kernel!Outbound(A) \subseteq Kernel!Outbound(B)
  BY DEF Kernel!Outbound
<1>4. Kernel!Outbound({}) = {} /\ Kernel!Inbound({}) = {}
  BY DEF Kernel!Outbound, Kernel!Inbound
<1>5. \A A, f : <<"inbound", f>> \in Kernel!Inbound(A) <=> f \in A
  BY DEF Kernel!Inbound
<1>6. QED
  BY <1>1, <1>2, <1>3, <1>4, <1>5

LEMMA ItemsOf ==
  /\ \A A \in SUBSET {"v4", "v6"} : Kernel!Inbound(A) \subseteq Kernel!Items \ {Kernel!Local}
  /\ \A B \in SUBSET Kernel!Prefixes : Kernel!Outbound(B) \subseteq Kernel!Items \ {Kernel!Local}
  /\ Kernel!Local \in Kernel!Items
BY DEF Kernel!Inbound, Kernel!Outbound, Kernel!Items, Kernel!Local

(* What the helpers of the model change, and what they leave.                *)
Kept(s, t) ==
    /\ t.families = s.families /\ t.wanted = s.wanted /\ t.left = s.left /\ t.killed = s.killed
    /\ t.at = s.at /\ t.failed = s.failed /\ t.faults = s.faults /\ t.runs = s.runs

LEMMA RulesAndRoutes ==
  ASSUME NEW s \in RtStates, NEW items \in SUBSET (Kernel!Items \ {Kernel!Local})
  PROVE  /\ LET t == Kernel!addRouteVia(s, items)
            IN  t \in RtStates /\ Kept(s, t) /\ t.outbound = s.outbound /\ t.rules = s.rules
                /\ t.routes = s.routes \cup items
         /\ LET t == Kernel!deleteRouteVia(s, items)
            IN  t \in RtStates /\ Kept(s, t) /\ t.outbound = s.outbound /\ t.rules = s.rules
                /\ t.routes = s.routes \ items
         /\ LET t == Kernel!addIPRule(s, items)
            IN  t \in RtStates /\ Kept(s, t) /\ t.outbound = s.outbound /\ t.routes = s.routes
                /\ t.rules = s.rules \cup items
         /\ LET t == Kernel!deleteIPRule(s, items)
            IN  t \in RtStates /\ Kept(s, t) /\ t.outbound = s.outbound /\ t.routes = s.routes
                /\ t.rules = s.rules \ items
<1>1. s.routes \cup items \in SUBSET (Kernel!Items \ {Kernel!Local}) /\ s.rules \cup items \in SUBSET Kernel!Items
  BY DEF RtStates
<1>2. s.routes \ items \in SUBSET (Kernel!Items \ {Kernel!Local}) /\ s.rules \ items \in SUBSET Kernel!Items
  BY DEF RtStates
<1>3. QED
  BY <1>1, <1>2 DEF RtStates, Kept, Kernel!addRouteVia, Kernel!deleteRouteVia, Kernel!addIPRule, Kernel!deleteIPRule

LEMMA FailingIs ==
  ASSUME rt \in RtStates, NEW s \in RtStates, NEW n \in Nat, Kept(rt, s), Kernel!Budget(n),
         NEW place \in Places, rt' = Kernel!Failing(s, n, place)
  PROVE  /\ rt' \in RtStates
         /\ rt'.families = rt.families /\ rt'.wanted = rt.wanted /\ rt'.left = rt.left
         /\ rt'.killed = rt.killed /\ rt'.outbound = s.outbound /\ rt'.rules = s.rules
         /\ rt'.routes = s.routes /\ rt'.at = place
         /\ rt'.failed = IF n = 0 THEN rt.failed ELSE rt.failed \cup {rt.at}
<1> DEFINE failures == s.faults + n
           failed == IF n = 0 THEN s.failed ELSE s.failed \cup {rt.at}
<1>1. failures \in 0 .. RoutingFaults
  BY DEF RtStates, Kernel!Budget, Kept
<1>2. failed \in SUBSET Places
  BY DEF RtStates
<1>3. rt' = [s EXCEPT !.faults = failures, !.at = place, !.failed = failed]
  BY DEF Kernel!Failing
<1>4. failed = IF n = 0 THEN rt.failed ELSE rt.failed \cup {rt.at}
  BY DEF Kept
<1> HIDE DEF failures, failed
<1>5. QED
  BY <1>1, <1>2, <1>3, <1>4, ZenonT(60) DEF RtStates, Kept

-----------------------------------------------------------------------------
(* Setup.                                                                    *)
LEMMA RtTyping ==
  ASSUME RtInv
  PROVE  /\ rt \in RtStates /\ rt.families \in SUBSET {"v4", "v6"} /\ rt.outbound \in SUBSET Kernel!Prefixes
         /\ rt.wanted \in SUBSET Kernel!Prefixes /\ rt.failed \in SUBSET Places
         /\ In \in SUBSET (Kernel!Items \ {Kernel!Local})
         /\ \A f \in rt.families : /\ Kernel!Before(f) \subseteq rt.families
                                   /\ Kernel!Before(f) \subseteq {"v4"}
                                   /\ Kernel!Inbound(Kernel!Before(f)) \in SUBSET (Kernel!Items \ {Kernel!Local})
                                   /\ Kernel!Inbound(Kernel!Before(f)) \subseteq In
                                   /\ Kernel!Inbound(Kernel!Before(f)) \subseteq Kernel!Inbound({"v4"})
<1>1. /\ rt \in RtStates /\ rt.families \in SUBSET {"v4", "v6"} /\ rt.outbound \in SUBSET Kernel!Prefixes
      /\ rt.wanted \in SUBSET Kernel!Prefixes /\ rt.failed \in SUBSET Places
  BY DEF RtInv, RtStates
<1>2. \A f : Kernel!Before(f) \subseteq rt.families /\ Kernel!Before(f) \subseteq {"v4"}
  BY DEF Kernel!Before
<1>3. \A f : /\ Kernel!Inbound(Kernel!Before(f)) \subseteq In
             /\ Kernel!Inbound(Kernel!Before(f)) \subseteq Kernel!Inbound({"v4"})
  BY <1>2, Halves DEF In
<1>4. In \in SUBSET (Kernel!Items \ {Kernel!Local})
  BY <1>1, ItemsOf DEF In
<1>5. QED
  BY <1>1, <1>2, <1>3, <1>4

LEMMA RtSetup == ASSUME RtInv, Kernel!Setup PROVE RtInv'
<1>0. /\ rt.at = "setup" /\ rt.outbound = {} /\ rt.failed = {} /\ NewRules = {} /\ NewRoutes = {}
      /\ rt \in RtStates /\ In \in SUBSET (Kernel!Items \ {Kernel!Local})
  BY RtTyping DEF RtInv, Kernel!Setup, MadeInv, FailedInv
<1>1. ASSUME NEW done \in SUBSET rt.families, NEW t, t = Kernel!routeInbound(done)
      PROVE  /\ t \in RtStates /\ Kept(rt, t) /\ t.outbound = rt.outbound
             /\ t.rules = rt.rules \cup In /\ t.routes = rt.routes \cup Kernel!Inbound(done)
  <2> DEFINE u == Kernel!addIPRule(rt, In)
  <2>1. u \in RtStates /\ Kept(rt, u) /\ u.outbound = rt.outbound /\ u.routes = rt.routes /\ u.rules = rt.rules \cup In
    BY <1>0, RulesAndRoutes
  <2>2. Kernel!Inbound(done) \in SUBSET (Kernel!Items \ {Kernel!Local})
    BY RtTyping, ItemsOf
  <2>3. t = Kernel!addRouteVia(u, Kernel!Inbound(done))
    BY <1>1 DEF Kernel!routeInbound, In
  <2> HIDE DEF u
  <2>4. QED
    BY <2>1, <2>2, <2>3, RulesAndRoutes DEF Kept
<1>2. CASE rt' = Kernel!Failing(Kernel!routeInbound(rt.families), 0, "outbound")
  <2> DEFINE s == Kernel!routeInbound(rt.families)
  <2>1. /\ s \in RtStates /\ Kept(rt, s) /\ s.outbound = {}
        /\ s.rules = rt.rules \cup In /\ s.routes = rt.routes \cup In
    BY <1>0, <1>1 DEF In
  <2>2. Kernel!Budget(0)
    BY <1>0 DEF RtStates, Kernel!Budget
  <2>6. rt' = Kernel!Failing(s, 0, "outbound") /\ "outbound" \in Places
    BY <1>2 DEF Places
  <2> HIDE DEF s
  <2>3. /\ rt' \in RtStates /\ rt'.families = rt.families /\ rt'.wanted = rt.wanted /\ rt'.left = rt.left
        /\ rt'.outbound = {} /\ rt'.rules = rt.rules \cup In /\ rt'.routes = rt.routes \cup In
        /\ rt'.at = "outbound" /\ rt'.failed = {}
    BY <1>0, <2>1, <2>2, <2>6, FailingIs
  <2>4. In' = In
    BY <2>3 DEF In
  <2>5. QED
    BY <1>0, <2>3, <2>4 DEF RtInv, MadeInv, FailedInv, NewRules, NewRoutes, Kernel!RunsLeaveNothing
<1>3. CASE Kernel!Budget(1) /\ rt' = Kernel!Failing(rt, 1, "ended")
  <2>1. /\ rt' \in RtStates /\ rt'.left = rt.left /\ rt'.rules = rt.rules /\ rt'.routes = rt.routes
        /\ rt'.at = "ended"
    <3>1. Kept(rt, rt) /\ "ended" \in Places
      BY DEF Kept, Places
    <3>2. QED
      BY <1>0, <1>3, <3>1, FailingIs
  <2>2. QED
    BY <1>0, <2>1 DEF RtInv, MadeInv, FailedInv, NewRules, NewRoutes, Kernel!RunsLeaveNothing
<1>4. ASSUME Kernel!Budget(1), NEW f \in rt.families,
             \/ rt' = Kernel!Failing(Kernel!addIPRule(rt, Kernel!Inbound(Kernel!Before(f))), 1, "teardown")
             \/ rt' = Kernel!Failing(Kernel!routeInbound(Kernel!Before(f)), 1, "teardown")
      PROVE  RtInv'
  <2> DEFINE before == Kernel!Inbound(Kernel!Before(f))
  <2>1. PICK s : /\ s \in RtStates /\ Kept(rt, s) /\ s.outbound = {}
                 /\ s.rules \subseteq rt.rules \cup In /\ s.routes \subseteq rt.routes \cup before
                 /\ rt' = Kernel!Failing(s, 1, "teardown")
    <3>1. CASE rt' = Kernel!Failing(Kernel!addIPRule(rt, before), 1, "teardown")
      BY <1>0, <3>1, RtTyping, RulesAndRoutes
    <3>2. CASE rt' = Kernel!Failing(Kernel!routeInbound(Kernel!Before(f)), 1, "teardown")
      BY <1>0, <1>1, <3>2, RtTyping
    <3>3. QED
      BY <1>4, <3>1, <3>2
  <2>2. /\ rt' \in RtStates /\ rt'.families = rt.families /\ rt'.wanted = rt.wanted /\ rt'.left = rt.left
        /\ rt'.outbound = {} /\ rt'.rules = s.rules /\ rt'.routes = s.routes
        /\ rt'.at = "teardown" /\ rt'.failed = {"setup"}
    <3>1. "teardown" \in Places
      BY DEF Places
    <3>2. QED
      BY <1>0, <1>4, <2>1, <3>1, FailingIs
  <2>3. In' = In /\ before \subseteq In /\ before \subseteq Kernel!Inbound({"v4"})
    BY <2>2, RtTyping DEF In
  <2> HIDE DEF before
  <2>4. QED
    BY <1>0, <2>1, <2>2, <2>3 DEF RtInv, MadeInv, FailedInv, NewRules, NewRoutes, Kernel!RunsLeaveNothing
<1>5. QED
  BY <1>2, <1>3, <1>4 DEF Kernel!Setup

-----------------------------------------------------------------------------
(* The outbound subnets.                                                     *)
LEMMA KernelCardinality == \A S : Kernel!Cardinality(S) = Cardinality(S)
BY DEF Kernel!Cardinality, Cardinality

LEMMA Counting ==
  ASSUME NEW A \in SUBSET Kernel!Prefixes, NEW B \in SUBSET Kernel!Prefixes
  PROVE  /\ Kernel!Cardinality(A) + Kernel!Cardinality(B) \in Nat
         /\ Kernel!Cardinality(A) + Kernel!Cardinality(B) = 0 => A = {} /\ B = {}
<1>1. IsFiniteSet(A) /\ IsFiniteSet(B)
  BY RoutingConstantsHold, FS_Subset
<1>2. Cardinality(A) \in Nat /\ Cardinality(B) \in Nat
  BY <1>1, FS_CardinalityType
<1>3. (Cardinality(A) = 0 => A = {}) /\ (Cardinality(B) = 0 => B = {})
  BY <1>1, FS_EmptySet
<1>4. QED
  BY <1>2, <1>3, KernelCardinality

RemovedFrom(s, subnets, keptRoutes, keptRules) ==
    /\ s \in RtStates /\ Kept(rt, s) /\ s.outbound = rt.outbound \ (subnets \ keptRules)
    /\ s.rules = rt.rules \ Kernel!Outbound(subnets \ keptRules)
    /\ s.routes = rt.routes \ Kernel!Outbound(subnets \ keptRoutes)

LEMMA Removed ==
  ASSUME rt \in RtStates, NEW subnets \in SUBSET Kernel!Prefixes, NEW keptRoutes \in SUBSET subnets,
         NEW keptRules \in SUBSET subnets
  PROVE  RemovedFrom(Kernel!removeOutboundSubnets(subnets, keptRoutes, keptRules), subnets, keptRoutes, keptRules)
<1> DEFINE s == Kernel!removeOutboundSubnets(subnets, keptRoutes, keptRules)
           routes == Kernel!Outbound(subnets \ keptRoutes)
           ruled == Kernel!Outbound(subnets \ keptRules)
           t == Kernel!deleteRouteVia(rt, routes)
           u == Kernel!deleteIPRule(t, ruled)
           gone == subnets \ keptRules
<1>1. routes \in SUBSET (Kernel!Items \ {Kernel!Local}) /\ ruled \in SUBSET (Kernel!Items \ {Kernel!Local})
  BY ItemsOf
<1>2. t \in RtStates /\ Kept(rt, t) /\ t.outbound = rt.outbound /\ t.rules = rt.rules /\ t.routes = rt.routes \ routes
  BY <1>1, RulesAndRoutes
<1>3. s = [u EXCEPT !.outbound = u.outbound \ gone]
  BY DEF Kernel!removeOutboundSubnets
<1> HIDE DEF t, ruled, routes
<1>4. u \in RtStates /\ Kept(t, u) /\ u.outbound = t.outbound /\ u.routes = t.routes /\ u.rules = t.rules \ ruled
  BY <1>1, <1>2, RulesAndRoutes
<1> HIDE DEF u
<1>5. u.outbound \ gone \in SUBSET Kernel!Prefixes
  BY <1>4 DEF RtStates
<1> HIDE DEF s
<1>6. s \in RtStates /\ Kept(u, s) /\ s.outbound = u.outbound \ gone /\ s.rules = u.rules /\ s.routes = u.routes
  BY <1>3, <1>4, <1>5 DEF RtStates, Kept
<1>7. RemovedFrom(s, subnets, keptRoutes, keptRules)
  BY <1>2, <1>4, <1>6 DEF Kept, RemovedFrom, ruled, routes
<1>8. QED
  BY <1>7 DEF s

AddedTo(s, t, done, routed) ==
    /\ t \in RtStates /\ Kept(s, t) /\ t.outbound = s.outbound \cup done
    /\ t.rules = s.rules \cup Kernel!Outbound(done)
    /\ t.routes = s.routes \cup Kernel!Outbound(done \cup routed)

LEMMA Added ==
  ASSUME NEW s \in RtStates, NEW done \in SUBSET Kernel!Prefixes, NEW routed \in SUBSET Kernel!Prefixes
  PROVE  AddedTo(s, Kernel!addOutboundSubnets(s, done, routed), done, routed)
<1> DEFINE t == Kernel!addOutboundSubnets(s, done, routed)
           ruled == Kernel!Outbound(done)
           routes == Kernel!Outbound(done \cup routed)
           u == Kernel!addIPRule(s, ruled)
           v == Kernel!addRouteVia(u, routes)
<1>1. routes \in SUBSET (Kernel!Items \ {Kernel!Local}) /\ ruled \in SUBSET (Kernel!Items \ {Kernel!Local})
  BY ItemsOf
<1>2. u \in RtStates /\ Kept(s, u) /\ u.outbound = s.outbound /\ u.routes = s.routes /\ u.rules = s.rules \cup ruled
  BY <1>1, RulesAndRoutes
<1>3. t = [v EXCEPT !.outbound = v.outbound \cup done]
  BY DEF Kernel!addOutboundSubnets
<1> HIDE DEF u, ruled, routes
<1>4. v \in RtStates /\ Kept(u, v) /\ v.outbound = u.outbound /\ v.rules = u.rules /\ v.routes = u.routes \cup routes
  BY <1>1, <1>2, RulesAndRoutes
<1> HIDE DEF v
<1>5. v.outbound \cup done \in SUBSET Kernel!Prefixes
  BY <1>4 DEF RtStates
<1> HIDE DEF t
<1>6. t \in RtStates /\ Kept(v, t) /\ t.outbound = v.outbound \cup done /\ t.rules = v.rules /\ t.routes = v.routes
  BY <1>3, <1>4, <1>5 DEF RtStates, Kept
<1>7. AddedTo(s, t, done, routed)
  BY <1>2, <1>4, <1>6 DEF Kept, AddedTo, ruled, routes
<1>8. QED
  BY <1>7 DEF t

(* What setOutboundRoutes leaves: subnets it removed (but for those kept) and*)
(* those it added, all of them unless it counts a failure.                   *)
Changed(subnets, place, keptRoutes, keptRules, done, routed) ==
    LET gone == rt.outbound \ subnets
    IN  /\ rt' \in RtStates
        /\ rt'.families = rt.families /\ rt'.wanted = rt.wanted /\ rt'.left = rt.left /\ rt'.killed = rt.killed
        /\ rt'.outbound = (rt.outbound \ (gone \ keptRules)) \cup done
        /\ rt'.rules = (rt.rules \ Kernel!Outbound(gone \ keptRules)) \cup Kernel!Outbound(done)
        /\ rt'.routes = (rt.routes \ Kernel!Outbound(gone \ keptRoutes)) \cup Kernel!Outbound(done \cup routed)
        /\ rt'.at = place

ToAdd(subnets) == {n \in subnets \ rt.outbound : OutboundFamily[n] \in rt.families}

LEMMA SetOutbound ==
  ASSUME RtInv, NEW subnets \in SUBSET Kernel!Prefixes, NEW next \in Places, NEW otherwise \in Places,
         Kernel!setOutboundRoutes(subnets, next, otherwise)
  PROVE  \E keptRoutes \in SUBSET (rt.outbound \ subnets), keptRules \in SUBSET (rt.outbound \ subnets) :
           \/ /\ Changed(subnets, next, keptRoutes, keptRules, ToAdd(subnets), {})
              /\ IF keptRoutes = {} /\ keptRules = {} THEN rt'.failed = rt.failed
                 ELSE rt'.failed = rt.failed \cup {rt.at}
           \/ \E done \in SUBSET ToAdd(subnets), routed \in SUBSET ToAdd(subnets) :
                /\ Changed(subnets, otherwise, keptRoutes, keptRules, done, routed)
                /\ rt'.failed = rt.failed \cup {rt.at}
<1> DEFINE toRemove == rt.outbound \ subnets
           toAdd == ToAdd(subnets)
<1>1. PICK keptRoutes \in SUBSET toRemove, keptRules \in SUBSET toRemove :
        LET warnings == Kernel!Cardinality(keptRoutes) + Kernel!Cardinality(keptRules)
            removed == Kernel!removeOutboundSubnets(toRemove, keptRoutes, keptRules)
        IN  \/ /\ Kernel!Budget(warnings)
               /\ rt' = Kernel!Failing(Kernel!addOutboundSubnets(removed, toAdd, {}), warnings, next)
            \/ /\ Kernel!Budget(warnings + 1)
               /\ \E done \in SUBSET toAdd : \E n \in toAdd \ done : \E routed \in {{}, {n}} :
                    rt' = Kernel!Failing(Kernel!addOutboundSubnets(removed, done, routed), warnings + 1, otherwise)
  BY DEF Kernel!setOutboundRoutes, ToAdd
<1> DEFINE warnings == Kernel!Cardinality(keptRoutes) + Kernel!Cardinality(keptRules)
           removed == Kernel!removeOutboundSubnets(toRemove, keptRoutes, keptRules)
<1>2. rt \in RtStates /\ toRemove \in SUBSET Kernel!Prefixes /\ toAdd \in SUBSET Kernel!Prefixes
  BY RtTyping DEF ToAdd
<1> HIDE DEF toRemove
<1>10. RemovedFrom(removed, toRemove, keptRoutes, keptRules)
  BY <1>2, Removed
<1> HIDE DEF removed
<1>3. /\ removed \in RtStates /\ Kept(rt, removed) /\ removed.outbound = rt.outbound \ (toRemove \ keptRules)
      /\ removed.rules = rt.rules \ Kernel!Outbound(toRemove \ keptRules)
      /\ removed.routes = rt.routes \ Kernel!Outbound(toRemove \ keptRoutes)
  BY <1>10 DEF RemovedFrom
<1>4. warnings \in Nat /\ (warnings = 0 => keptRoutes = {} /\ keptRules = {})
  BY <1>2, Counting DEF toRemove
<1>5. keptRoutes = {} /\ keptRules = {} => warnings = 0
  BY KernelCardinality, FS_EmptySet
<1> HIDE DEF warnings
<1>6. CASE Kernel!Budget(warnings) /\ rt' = Kernel!Failing(Kernel!addOutboundSubnets(removed, toAdd, {}), warnings, next)
  <2> DEFINE s == Kernel!addOutboundSubnets(removed, toAdd, {})
  <2>1. /\ s \in RtStates /\ Kept(removed, s) /\ s.outbound = removed.outbound \cup toAdd
        /\ s.rules = removed.rules \cup Kernel!Outbound(toAdd)
        /\ s.routes = removed.routes \cup Kernel!Outbound(toAdd \cup {})
    <3> HIDE DEF toAdd
    <3>1. AddedTo(removed, s, toAdd, {})
      BY <1>2, <1>3, Added
    <3> HIDE DEF s
    <3>2. QED
      BY <3>1 DEF AddedTo
  <2>2. Kept(rt, s) /\ rt' = Kernel!Failing(s, warnings, next)
    BY <1>3, <1>6, <2>1 DEF Kept
  <2> HIDE DEF s, toAdd
  <2>3. /\ rt' \in RtStates
        /\ rt'.families = rt.families /\ rt'.wanted = rt.wanted /\ rt'.left = rt.left
        /\ rt'.killed = rt.killed /\ rt'.outbound = s.outbound /\ rt'.rules = s.rules
        /\ rt'.routes = s.routes /\ rt'.at = next
        /\ rt'.failed = IF warnings = 0 THEN rt.failed ELSE rt.failed \cup {rt.at}
    BY <1>2, <1>4, <1>6, <2>1, <2>2, FailingIs
  <2>4. Changed(subnets, next, keptRoutes, keptRules, toAdd, {})
    BY <1>3, <2>1, <2>3 DEF Changed, toRemove
  <2>5. QED
    BY <1>4, <1>5, <2>3, <2>4 DEF toAdd, toRemove
<1> HIDE DEF toAdd
<1>7. ASSUME Kernel!Budget(warnings + 1), NEW done \in SUBSET toAdd, NEW n \in toAdd \ done, NEW routed \in {{}, {n}},
             rt' = Kernel!Failing(Kernel!addOutboundSubnets(removed, done, routed), warnings + 1, otherwise)
      PROVE  /\ routed \in SUBSET toAdd
             /\ Changed(subnets, otherwise, keptRoutes, keptRules, done, routed)
             /\ rt'.failed = rt.failed \cup {rt.at}
  <2> DEFINE s == Kernel!addOutboundSubnets(removed, done, routed)
  <2>1. routed \in SUBSET toAdd /\ done \in SUBSET Kernel!Prefixes /\ routed \in SUBSET Kernel!Prefixes
    BY <1>2, <1>7
  <2>2. /\ s \in RtStates /\ Kept(removed, s) /\ s.outbound = removed.outbound \cup done
        /\ s.rules = removed.rules \cup Kernel!Outbound(done)
        /\ s.routes = removed.routes \cup Kernel!Outbound(done \cup routed)
    <3>1. AddedTo(removed, s, done, routed)
      BY <1>3, <2>1, Added
    <3> HIDE DEF s
    <3>2. QED
      BY <3>1 DEF AddedTo
  <2>3. /\ Kept(rt, s) /\ rt' = Kernel!Failing(s, warnings + 1, otherwise)
        /\ warnings + 1 \in Nat /\ warnings + 1 # 0
    BY <1>3, <1>4, <1>7, <2>2 DEF Kept
  <2> HIDE DEF s, toAdd
  <2>4. /\ rt' \in RtStates
        /\ rt'.families = rt.families /\ rt'.wanted = rt.wanted /\ rt'.left = rt.left
        /\ rt'.killed = rt.killed /\ rt'.outbound = s.outbound /\ rt'.rules = s.rules
        /\ rt'.routes = s.routes /\ rt'.at = otherwise
        /\ rt'.failed = rt.failed \cup {rt.at}
    <3> DEFINE more == warnings + 1
    <3>1. more \in Nat /\ more # 0 /\ Kernel!Budget(more) /\ rt' = Kernel!Failing(s, more, otherwise) /\ Kept(rt, s)
      BY <1>7, <2>3
    <3> HIDE DEF more
    <3>2. /\ rt' \in RtStates
          /\ rt'.families = rt.families /\ rt'.wanted = rt.wanted /\ rt'.left = rt.left
          /\ rt'.killed = rt.killed /\ rt'.outbound = s.outbound /\ rt'.rules = s.rules
          /\ rt'.routes = s.routes /\ rt'.at = otherwise
          /\ rt'.failed = IF more = 0 THEN rt.failed ELSE rt.failed \cup {rt.at}
      BY <1>2, <2>2, <3>1, FailingIs
    <3>3. QED
      BY <3>1, <3>2
  <2>5. Changed(subnets, otherwise, keptRoutes, keptRules, done, routed)
    BY <1>3, <2>2, <2>4 DEF Changed, toRemove
  <2>6. QED
    BY <2>1, <2>4, <2>5
<1>8. CASE /\ Kernel!Budget(warnings + 1)
           /\ \E done \in SUBSET toAdd : \E n \in toAdd \ done : \E routed \in {{}, {n}} :
                rt' = Kernel!Failing(Kernel!addOutboundSubnets(removed, done, routed), warnings + 1, otherwise)
  <2>1. PICK done \in SUBSET toAdd : \E n \in toAdd \ done : \E routed \in {{}, {n}} :
          rt' = Kernel!Failing(Kernel!addOutboundSubnets(removed, done, routed), warnings + 1, otherwise)
    BY <1>8
  <2>2. PICK n \in toAdd \ done : \E routed \in {{}, {n}} :
          rt' = Kernel!Failing(Kernel!addOutboundSubnets(removed, done, routed), warnings + 1, otherwise)
    BY <2>1
  <2>3. PICK routed \in {{}, {n}} :
          rt' = Kernel!Failing(Kernel!addOutboundSubnets(removed, done, routed), warnings + 1, otherwise)
    BY <2>2
  <2>4. /\ routed \in SUBSET toAdd
        /\ Changed(subnets, otherwise, keptRoutes, keptRules, done, routed)
        /\ rt'.failed = rt.failed \cup {rt.at}
    <3>1. Kernel!Budget(warnings + 1)
      BY <1>8
    <3> HIDE DEF toAdd
    <3>2. QED
      BY <1>7, <2>3, <3>1, Zenon
  <2>5. QED
    BY <2>4 DEF toAdd, toRemove
<1>9. QED
  BY <1>1, <1>6, <1>8 DEF warnings, removed, toAdd

LEMMA SetOutboundRoutesKeeps == ASSUME RtInv, Kernel!SetOutboundRoutes PROVE RtInv'
<1>0. /\ rt \in RtStates /\ rt.at = "outbound" /\ rt.outbound = {} /\ rt.failed = {}
      /\ In \subseteq rt.rules \cap rt.routes
      /\ NewRules \subseteq In \cup {Kernel!Local} /\ NewRoutes \subseteq In
  <2>1. Out = {}
    BY Halves DEF Out, RtInv, FailedInv, Kernel!SetOutboundRoutes
  <2>2. Halfway = {}
    BY DEF Halfway, RtInv, FailedInv, Kernel!SetOutboundRoutes
  <2>3. QED
    BY <2>1, <2>2 DEF RtInv, MadeInv, FailedInv, Kernel!SetOutboundRoutes
<1>1. CASE Kernel!setOutboundRoutes(rt.wanted, "local", "teardown")
  <2>1. rt.wanted \in SUBSET Kernel!Prefixes /\ {"local", "teardown"} \subseteq Places
    BY RtTyping DEF Places
  <2>2. ToAdd(rt.wanted) = Carried /\ rt.outbound \ rt.wanted = {}
    BY <1>0 DEF Carried, ToAdd
  <2>3. \/ Changed(rt.wanted, "local", {}, {}, Carried, {}) /\ rt'.failed = rt.failed
        \/ \E done \in SUBSET Carried, routed \in SUBSET Carried :
             Changed(rt.wanted, "teardown", {}, {}, done, routed) /\ rt'.failed = rt.failed \cup {rt.at}
    <3>1. PICK keptRoutes \in SUBSET (rt.outbound \ rt.wanted), keptRules \in SUBSET (rt.outbound \ rt.wanted) :
            \/ /\ Changed(rt.wanted, "local", keptRoutes, keptRules, ToAdd(rt.wanted), {})
               /\ IF keptRoutes = {} /\ keptRules = {} THEN rt'.failed = rt.failed
                  ELSE rt'.failed = rt.failed \cup {rt.at}
            \/ \E done \in SUBSET ToAdd(rt.wanted), routed \in SUBSET ToAdd(rt.wanted) :
                 /\ Changed(rt.wanted, "teardown", keptRoutes, keptRules, done, routed)
                 /\ rt'.failed = rt.failed \cup {rt.at}
      <4>1. "local" \in Places /\ "teardown" \in Places
        BY <2>1
      <4>2. QED
        BY <1>1, <2>1, <4>1, SetOutbound, SMTT(30)
    <3>2. keptRoutes = {} /\ keptRules = {}
      BY <2>2, <3>1
    <3>3. QED
      BY <2>2, <3>1, <3>2
  <2>4. ASSUME NEW place \in Places, NEW done \in SUBSET Carried, NEW routed \in SUBSET Carried,
               Changed(rt.wanted, place, {}, {}, done, routed)
        PROVE  /\ rt' \in RtStates
               /\ rt'.families = rt.families /\ rt'.wanted = rt.wanted /\ rt'.left = rt.left
               /\ rt'.outbound = done /\ rt'.rules = rt.rules \cup Kernel!Outbound(done)
               /\ rt'.routes = rt.routes \cup Kernel!Outbound(done \cup routed)
               /\ rt'.at = place
    BY <1>0, <2>2, <2>4, Halves DEF Changed
  <2>5. CASE Changed(rt.wanted, "local", {}, {}, Carried, {}) /\ rt'.failed = rt.failed
    <3>1. /\ rt' \in RtStates
          /\ rt'.families = rt.families /\ rt'.wanted = rt.wanted /\ rt'.left = rt.left
          /\ rt'.outbound = Carried /\ rt'.rules = rt.rules \cup Kernel!Outbound(Carried)
          /\ rt'.routes = rt.routes \cup Kernel!Outbound(Carried)
          /\ rt'.at = "local"
      <4>1. Carried \cup {} = Carried /\ Carried \in SUBSET Carried /\ {} \in SUBSET Carried
        OBVIOUS
      <4>2. QED
        BY <2>1, <2>4, <2>5, <4>1
    <3>2. In' = In /\ Out' = Kernel!Outbound(Carried) /\ Carried' = Carried
      BY <3>1 DEF In, Out, Carried
    <3>3. QED
      BY <1>0, <2>5, <3>1, <3>2 DEF RtInv, MadeInv, FailedInv, NewRules, NewRoutes, Kernel!RunsLeaveNothing
  <2>6. CASE \E done \in SUBSET Carried, routed \in SUBSET Carried :
             Changed(rt.wanted, "teardown", {}, {}, done, routed) /\ rt'.failed = rt.failed \cup {rt.at}
    <3>1. PICK done \in SUBSET Carried, routed \in SUBSET Carried :
             Changed(rt.wanted, "teardown", {}, {}, done, routed) /\ rt'.failed = {"outbound"}
      BY <1>0, <2>6
    <3>2. /\ rt' \in RtStates
          /\ rt'.families = rt.families /\ rt'.wanted = rt.wanted /\ rt'.left = rt.left
          /\ rt'.outbound = done /\ rt'.rules = rt.rules \cup Kernel!Outbound(done)
          /\ rt'.routes = rt.routes \cup Kernel!Outbound(done \cup routed)
          /\ rt'.at = "teardown"
      BY <2>1, <2>4, <3>1
    <3>3. In' = In /\ Out' = Kernel!Outbound(done) /\ Halfway' = Kernel!Outbound(rt.wanted)
      BY <3>1, <3>2 DEF In, Out, Halfway
    <3>4. Kernel!Outbound(done \cup routed) \subseteq Kernel!Outbound(rt.wanted)
      <4>1. done \cup routed \subseteq rt.wanted
        BY <3>1 DEF Carried
      <4>2. QED
        BY <4>1, Halves
    <3>5. QED
      BY <1>0, <3>1, <3>2, <3>3, <3>4 DEF RtInv, MadeInv, FailedInv, NewRules, NewRoutes, Kernel!RunsLeaveNothing
  <2>7. QED
    BY <2>3, <2>5, <2>6
<1>2. CASE Kernel!Budget(1) /\ rt' = Kernel!Failing(rt, 1, "teardown")
  <2>1. Kept(rt, rt) /\ "teardown" \in Places
    BY DEF Kept, Places
  <2>2. /\ rt' \in RtStates
        /\ rt'.families = rt.families /\ rt'.wanted = rt.wanted /\ rt'.left = rt.left
        /\ rt'.outbound = {} /\ rt'.rules = rt.rules /\ rt'.routes = rt.routes
        /\ rt'.at = "teardown" /\ rt'.failed = {"outbound"}
    BY <1>0, <1>2, <2>1, FailingIs
  <2>3. In' = In
    BY <2>2 DEF In
  <2>4. QED
    BY <1>0, <2>2, <2>3 DEF RtInv, MadeInv, FailedInv, NewRules, NewRoutes, Kernel!RunsLeaveNothing
<1>3. QED
  BY <1>1, <1>2 DEF Kernel!SetOutboundRoutes

LEMMA AddLocalRulesKeeps == ASSUME RtInv, Kernel!AddLocalRules PROVE RtInv'
<1>0. /\ rt \in RtStates /\ rt.at = "local" /\ rt.failed = {}
      /\ In \subseteq rt.rules \cap rt.routes /\ rt.outbound = Carried /\ Out \subseteq rt.rules \cap rt.routes
      /\ NewRules \subseteq In \cup Out \cup {Kernel!Local} /\ NewRoutes \subseteq In \cup Out \cup Halfway
  BY DEF RtInv, MadeInv, FailedInv, Kernel!AddLocalRules
<1>1. CASE rt' = Kernel!Failing(Kernel!addIPRule(rt, {Kernel!Local}), 0, "up")
  <2> DEFINE s == Kernel!addIPRule(rt, {Kernel!Local})
             withLocal == rt.rules \cup {Kernel!Local}
  <2>1. withLocal \in SUBSET Kernel!Items
    BY <1>0, ItemsOf DEF RtStates
  <2>2. s = [rt EXCEPT !.rules = withLocal]
    BY <1>0 DEF Kernel!addIPRule, RtStates
  <2> HIDE DEF withLocal, s
  <2>3. s \in RtStates /\ Kept(rt, s) /\ s.outbound = rt.outbound /\ s.rules = withLocal /\ s.routes = rt.routes
    BY <1>0, <2>1, <2>2 DEF RtStates, Kept
  <2>4. Kernel!Budget(0) /\ rt' = Kernel!Failing(s, 0, "up") /\ "up" \in Places
    BY <1>0, <1>1 DEF RtStates, Kernel!Budget, Places, s
  <2>5. /\ rt' \in RtStates
        /\ rt'.families = rt.families /\ rt'.wanted = rt.wanted /\ rt'.left = rt.left
        /\ rt'.outbound = rt.outbound /\ rt'.rules = rt.rules \cup {Kernel!Local} /\ rt'.routes = rt.routes
        /\ rt'.at = "up" /\ rt'.failed = {}
    BY <1>0, <2>3, <2>4, FailingIs DEF withLocal
  <2>6. In' = In /\ Out' = Out /\ Carried' = Carried /\ Halfway' = Halfway
    BY <1>0, <2>5 DEF In, Out, Carried, Halfway
  <2>7. QED
    BY <1>0, <2>5, <2>6 DEF RtInv, MadeInv, FailedInv, NewRules, NewRoutes, Kernel!RunsLeaveNothing
<1>2. CASE Kernel!Budget(1) /\ rt' = Kernel!Failing(rt, 1, "teardown")
  <2>1. Kept(rt, rt) /\ "teardown" \in Places
    BY DEF Kept, Places
  <2>2. /\ rt' \in RtStates
        /\ rt'.families = rt.families /\ rt'.wanted = rt.wanted /\ rt'.left = rt.left
        /\ rt'.outbound = rt.outbound /\ rt'.rules = rt.rules /\ rt'.routes = rt.routes
        /\ rt'.at = "teardown" /\ rt'.failed = {"local"}
    BY <1>0, <1>2, <2>1, FailingIs
  <2>3. In' = In /\ Out' = Out /\ Halfway' = Halfway
    BY <1>0, <2>2 DEF In, Out, Halfway
  <2>4. QED
    BY <1>0, <2>2, <2>3 DEF RtInv, MadeInv, FailedInv, NewRules, NewRoutes, Kernel!RunsLeaveNothing
<1>3. QED
  BY <1>1, <1>2 DEF Kernel!AddLocalRules

LEMMA ReturnKeeps == ASSUME RtInv, Kernel!Return PROVE RtInv'
<1>1. /\ rt \in RtStates /\ rt.at = "up" /\ rt' = [rt EXCEPT !.at = "teardown"] /\ "teardown" \in Places
  BY DEF RtInv, Kernel!Return, Places
<1>2. /\ rt' \in RtStates /\ rt'.families = rt.families /\ rt'.wanted = rt.wanted /\ rt'.left = rt.left
      /\ rt'.outbound = rt.outbound /\ rt'.rules = rt.rules /\ rt'.routes = rt.routes
      /\ rt'.at = "teardown" /\ rt'.failed = rt.failed
  BY <1>1 DEF RtStates
<1>3. In' = In /\ Out' = Out /\ Halfway' = Halfway /\ NewRules' = NewRules /\ NewRoutes' = NewRoutes
  BY <1>2 DEF In, Out, Halfway, NewRules, NewRoutes
<1>4. QED
  BY <1>1, <1>2, <1>3 DEF RtInv, MadeInv, FailedInv, Kernel!RunsLeaveNothing

LEMMA UnrouteInboundKeeps == ASSUME RtInv, Kernel!UnrouteInbound PROVE RtInv'
<1>0. /\ rt \in RtStates /\ rt.at = "teardown" /\ In \in SUBSET (Kernel!Items \ {Kernel!Local})
      /\ NewRules \subseteq In \cup Out \cup {Kernel!Local} /\ NewRoutes \subseteq In \cup Out \cup Halfway
      /\ "setup" \notin rt.failed => In \subseteq rt.routes
      /\ "setup" \in rt.failed =>
           rt.outbound = {} /\ "outbound" \notin rt.failed /\ NewRoutes \subseteq Kernel!Inbound({"v4"})
  BY RtTyping DEF RtInv, MadeInv, FailedInv, Kernel!UnrouteInbound
<1>1. ASSUME NEW s \in RtStates, Kept(rt, s), NEW n \in Nat, n # 0, Kernel!Budget(n),
             rt' = Kernel!Failing(s, n, "ended")
      PROVE  RtInv'
  <2>1. "ended" \in Places
    BY DEF Places
  <2>2. rt' \in RtStates /\ rt'.at = "ended" /\ rt'.failed = rt.failed \cup {"teardown"}
    BY <1>0, <1>1, <2>1, FailingIs
  <2>3. QED
    BY <2>2 DEF RtInv, MadeInv, FailedInv, Kernel!RunsLeaveNothing
<1>2. Kept(rt, rt) /\ 1 \in Nat /\ 1 # 0
  BY DEF Kept
<1>3. CASE Kernel!Budget(1) /\ rt' = Kernel!Failing(rt, 1, "ended")
  BY <1>0, <1>1, <1>2, <1>3
<1>4. ASSUME NEW f \in rt.families, \A g \in Kernel!Before(f) : ~Kernel!Missing(g),
             Kernel!Budget(IF Kernel!Missing(f) THEN 0 ELSE 1),
             rt' = Kernel!Failing(Kernel!deleteRouteVia(rt, Kernel!Inbound(Kernel!Before(f))),
                                  IF Kernel!Missing(f) THEN 0 ELSE 1, "ended")
      PROVE  RtInv'
  <2> DEFINE before == Kernel!Inbound(Kernel!Before(f))
             s == Kernel!deleteRouteVia(rt, before)
  <2>1. before \in SUBSET (Kernel!Items \ {Kernel!Local})
    BY <1>0, RtTyping
  <2> HIDE DEF before
  <2>2. s \in RtStates /\ Kept(rt, s) /\ s.outbound = rt.outbound /\ s.rules = rt.rules /\ s.routes = rt.routes \ before
    BY <1>0, <2>1, RulesAndRoutes
  <2> HIDE DEF s
  <2>3. CASE ~Kernel!Missing(f)
    <3>1. Kernel!Budget(1) /\ rt' = Kernel!Failing(s, 1, "ended")
      BY <1>4, <2>3 DEF s, before
    <3>2. QED
      BY <1>1, <1>2, <2>2, <3>1
  <2>4. CASE Kernel!Missing(f)
    <3>1. Kernel!Budget(0) /\ rt' = Kernel!Failing(s, 0, "ended") /\ "ended" \in Places
      BY <1>4, <2>4 DEF s, before, Places
    <3>2. /\ rt' \in RtStates
          /\ rt'.families = rt.families /\ rt'.left = rt.left
          /\ rt'.rules = rt.rules /\ rt'.routes = rt.routes \ before
          /\ rt'.at = "ended" /\ rt'.failed = rt.failed
      BY <1>0, <2>2, <3>1, FailingIs
    <3>3. "setup" \in rt.failed
      BY <1>0, <2>4, Halves DEF Kernel!Missing, In
    <3>4. NewRoutes \subseteq {<<"inbound", "v4">>} /\ Out = {}
      BY <1>0, <3>3, Halves DEF Kernel!Inbound, Out
    <3>5. f = "v6" => <<"inbound", "v4">> \in before
      BY <1>0, Halves DEF before, Kernel!Before, RtStates
    <3>6. f # "v6" => f = "v4" /\ <<"inbound", "v4">> \notin rt.routes
      BY <1>0, <2>4 DEF RtStates, Kernel!Missing
    <3>7. NewRoutes' = {}
      BY <3>2, <3>4, <3>5, <3>6 DEF NewRoutes
    <3>8. NewRules' \subseteq {Kernel!Local} \cup In /\ In' = In
      BY <1>0, <3>2, <3>4 DEF NewRules, In
    <3>9. Kernel!RunsLeaveNothing'
      BY <1>0, <3>2, <3>3, <3>7, <3>8 DEF Kernel!RunsLeaveNothing, NewRules, NewRoutes, In
    <3>10. QED
      BY <3>2, <3>9 DEF RtInv, MadeInv, FailedInv
  <2>5. QED
    BY <2>3, <2>4
<1>5. ASSUME NEW ruled \in SUBSET rt.families
      PROVE  LET s == Kernel!unrouteInbound(ruled)
             IN  /\ s \in RtStates /\ Kept(rt, s) /\ s.outbound = rt.outbound
                 /\ s.rules = rt.rules \ Kernel!Inbound(ruled) /\ s.routes = rt.routes \ In
  <2> DEFINE s == Kernel!unrouteInbound(ruled)
             t == Kernel!deleteRouteVia(rt, In)
             items == Kernel!Inbound(ruled)
  <2>1. items \in SUBSET (Kernel!Items \ {Kernel!Local})
    BY RtTyping, ItemsOf
  <2>2. t \in RtStates /\ Kept(rt, t) /\ t.outbound = rt.outbound /\ t.rules = rt.rules /\ t.routes = rt.routes \ In
    BY <1>0, RulesAndRoutes
  <2>3. s = Kernel!deleteIPRule(t, items)
    BY DEF Kernel!unrouteInbound, In
  <2> HIDE DEF t, items, s
  <2>4. s \in RtStates /\ Kept(t, s) /\ s.outbound = t.outbound /\ s.routes = t.routes /\ s.rules = t.rules \ items
    BY <2>1, <2>2, <2>3, RulesAndRoutes
  <2>5. QED
    BY <2>2, <2>4 DEF Kept, items, s
<1>6. CASE rt' = Kernel!Failing(Kernel!unrouteInbound(rt.families), 0, "unroute")
  <2> DEFINE s == Kernel!unrouteInbound(rt.families)
  <2>1. s \in RtStates /\ Kept(rt, s) /\ s.outbound = rt.outbound /\ s.rules = rt.rules \ In /\ s.routes = rt.routes \ In
    BY <1>5 DEF In
  <2>2. Kernel!Budget(0) /\ rt' = Kernel!Failing(s, 0, "unroute") /\ "unroute" \in Places
    BY <1>0, <1>6 DEF RtStates, Kernel!Budget, Places
  <2> HIDE DEF s
  <2>3. /\ rt' \in RtStates
        /\ rt'.families = rt.families /\ rt'.wanted = rt.wanted /\ rt'.left = rt.left
        /\ rt'.outbound = rt.outbound /\ rt'.rules = rt.rules \ In /\ rt'.routes = rt.routes \ In
        /\ rt'.at = "unroute" /\ rt'.failed = rt.failed
    BY <1>0, <2>1, <2>2, FailingIs
  <2>4. Out' = Out /\ Halfway' = Halfway
    BY <2>3 DEF Out, Halfway
  <2>5. NewRules' \subseteq Out \cup {Kernel!Local} /\ NewRoutes' \subseteq Out \cup Halfway
    BY <1>0, <2>3 DEF NewRules, NewRoutes
  <2>6. QED
    BY <2>3, <2>4, <2>5 DEF RtInv, MadeInv, FailedInv, Kernel!RunsLeaveNothing
<1>7. ASSUME Kernel!Budget(1), NEW f \in rt.families,
             rt' = Kernel!Failing(Kernel!unrouteInbound(Kernel!Before(f)), 1, "ended")
      PROVE  RtInv'
  <2>1. Kernel!unrouteInbound(Kernel!Before(f)) \in RtStates /\ Kept(rt, Kernel!unrouteInbound(Kernel!Before(f)))
    BY <1>5, RtTyping
  <2>2. QED
    BY <1>1, <1>2, <1>7, <2>1
<1>8. QED
  BY <1>3, <1>4, <1>6, <1>7 DEF Kernel!UnrouteInbound

LEMMA UnrouteOutboundKeeps == ASSUME RtInv, Kernel!UnrouteOutbound PROVE RtInv'
<1>0. /\ rt \in RtStates /\ rt.at = "unroute"
      /\ NewRules \subseteq Out \cup {Kernel!Local} /\ NewRoutes \subseteq Out \cup Halfway
  BY DEF RtInv, MadeInv, Kernel!UnrouteOutbound
<1>1. PICK keptRoutes \in SUBSET (rt.outbound \ {}), keptRules \in SUBSET (rt.outbound \ {}) :
        \/ /\ Changed({}, "ended", keptRoutes, keptRules, ToAdd({}), {})
           /\ IF keptRoutes = {} /\ keptRules = {} THEN rt'.failed = rt.failed
              ELSE rt'.failed = rt.failed \cup {rt.at}
        \/ \E done \in SUBSET ToAdd({}), routed \in SUBSET ToAdd({}) :
             /\ Changed({}, "ended", keptRoutes, keptRules, done, routed)
             /\ rt'.failed = rt.failed \cup {rt.at}
  <2>1. Kernel!setOutboundRoutes({}, "ended", "ended") /\ {} \in SUBSET Kernel!Prefixes /\ "ended" \in Places
    BY DEF Kernel!UnrouteOutbound, Places
  <2>2. QED
    BY <2>1, SetOutbound
<1>2. rt' \in RtStates /\ rt'.at = "ended"
  BY <1>1 DEF Changed
<1>3. CASE rt'.failed = rt.failed \cup {rt.at}
  BY <1>0, <1>2, <1>3 DEF RtInv, MadeInv, FailedInv, Kernel!RunsLeaveNothing
<1>4. CASE Changed({}, "ended", {}, {}, {}, {}) /\ rt'.failed = rt.failed
  <2>1. /\ rt'.rules = rt.rules \ Out /\ rt'.routes = rt.routes \ Out
        /\ rt'.left = rt.left /\ rt'.wanted = rt.wanted
    <3>1. (rt.outbound \ {}) \ {} = rt.outbound /\ {} \cup {} = {}
      OBVIOUS
    <3>2. QED
      BY <1>4, <3>1, Halves DEF Changed, Out
  <2>2. NewRules' \subseteq {Kernel!Local} /\ NewRoutes' \subseteq Halfway /\ Halfway' = Halfway
    BY <1>0, <1>4, <2>1 DEF NewRules, NewRoutes, Halfway
  <2>3. Kernel!RunsLeaveNothing'
    BY <2>2 DEF Kernel!RunsLeaveNothing, NewRules, NewRoutes, Halfway
  <2>4. QED
    BY <1>2, <2>3 DEF RtInv, MadeInv, FailedInv
<1>5. QED
  BY <1>1, <1>3, <1>4 DEF ToAdd

LEMMA KillKeeps == ASSUME RtInv, Kernel!Kill PROVE RtInv'
<1>1. rt \in RtStates /\ rt' = [rt EXCEPT !.at = "ended", !.killed = TRUE] /\ "ended" \in Places
  BY DEF RtInv, Kernel!Kill, Places
<1>2. rt' \in RtStates /\ rt'.at = "ended" /\ rt'.killed
  BY <1>1 DEF RtStates
<1>3. QED
  BY <1>2 DEF RtInv, MadeInv, FailedInv, Kernel!RunsLeaveNothing

LEMMA StartAgainKeeps == ASSUME RtInv, Kernel!StartAgain PROVE RtInv'
<1>1. PICK wanted \in SUBSET Kernel!Prefixes :
        rt' = [rt EXCEPT !.at = "setup", !.runs = rt.runs + 1, !.wanted = wanted, !.outbound = {},
                         !.left = <<rt.rules, rt.routes>>, !.failed = {}, !.killed = FALSE]
  BY DEF Kernel!StartAgain
<1>2. rt \in RtStates /\ "setup" \in Places /\ rt.runs + 1 \in Nat
  BY DEF RtInv, Places, RtStates
<1>3. <<rt.rules, rt.routes>> \in (SUBSET Kernel!Items) \X (SUBSET Kernel!Items)
  <2>1. rt.rules \in SUBSET Kernel!Items /\ rt.routes \in SUBSET Kernel!Items
    BY <1>2 DEF RtStates
  <2>2. QED
    BY <2>1
<1>4. /\ rt' \in RtStates /\ rt'.at = "setup" /\ rt'.failed = {} /\ rt'.outbound = {}
      /\ rt'.left[1] = rt'.rules /\ rt'.left[2] = rt'.routes
  BY <1>1, <1>2, <1>3 DEF RtStates
<1>5. QED
  BY <1>4 DEF RtInv, MadeInv, FailedInv, NewRules, NewRoutes, Kernel!RunsLeaveNothing

-----------------------------------------------------------------------------
LEMMA RtInvariance == Kernel!Spec => []RtInv
<1>1. Kernel!Init => RtInv
  <2> SUFFICES ASSUME Kernel!Init PROVE RtInv
    OBVIOUS
  <2>1. PICK families \in {{"v4"}, {"v4", "v6"}}, wanted \in SUBSET Kernel!Prefixes :
          rt = [families |-> families, wanted |-> wanted, outbound |-> {}, rules |-> {}, routes |-> {},
                left |-> <<{}, {}>>, at |-> "setup", failed |-> {}, killed |-> FALSE, faults |-> 0, runs |-> 1]
    BY DEF Kernel!Init
  <2>2. rt \in RtStates
    <3>1. <<{}, {}>> \in (SUBSET Kernel!Items) \X (SUBSET Kernel!Items) /\ "setup" \in Places
      BY DEF Places
    <3>2. 0 \in 0 .. RoutingFaults /\ 1 \in Nat
      BY RoutingConstantsHold
    <3>3. QED
      BY <2>1, <3>1, <3>2 DEF RtStates
  <2>3. QED
    BY <2>1, <2>2 DEF RtInv, MadeInv, FailedInv, NewRules, NewRoutes, Kernel!RunsLeaveNothing
<1>2. RtInv /\ [Kernel!Next]_rt => RtInv'
  <2> SUFFICES ASSUME RtInv, [Kernel!Next]_rt PROVE RtInv'
    OBVIOUS
  <2>1. CASE UNCHANGED rt
    <3>1. In' = In /\ Out' = Out /\ Halfway' = Halfway /\ Carried' = Carried
          /\ NewRules' = NewRules /\ NewRoutes' = NewRoutes
      BY <2>1 DEF In, Out, Halfway, Carried, NewRules, NewRoutes
    <3>2. QED
      BY <2>1, <3>1 DEF RtInv, MadeInv, FailedInv, Kernel!RunsLeaveNothing
  <2>2. QED
    BY <2>1, RtSetup, SetOutboundRoutesKeeps, AddLocalRulesKeeps, ReturnKeeps, UnrouteInboundKeeps,
       UnrouteOutboundKeeps, KillKeeps, StartAgainKeeps DEF Kernel!Next
<1>3. QED
  BY <1>1, <1>2, PTL DEF Kernel!Spec

-----------------------------------------------------------------------------
(* TunnelDevice: what is there is what a clean up still to be done removes.  *)

(* The steps of a runner: those of its implementation, those of all, and the *)
(* rules. Each step is done once, at a place of its own.                     *)
Common == <<"addresses", "config", "up", "routes">>
Rules(ipv6) == IF ipv6 THEN <<"rule6", "rule4">> ELSE <<"rule4">>

Things == {"client", "noOldLink", "link", "node", "tun", "bind", "device", "uapiFile", "uapiListener", "uapi",
           "accept", "addresses", "config", "up", "routes", "rule4", "rule6"}

CommonPlace == [addresses |-> 1, config |-> 2, up |-> 3, routes |-> 4]
OwnPlace(variant) ==
    CASE variant = "kernel" -> [client |-> 1, noOldLink |-> 2, link |-> 3]
      [] variant = "userspace" ->
           [node |-> 1, client |-> 2, tun |-> 3, link |-> 4, bind |-> 5, device |-> 6, uapiFile |-> 7,
            uapiListener |-> 8, accept |-> 9]
      [] variant = "amneziawg" ->
           [client |-> 1, tun |-> 2, link |-> 3, bind |-> 4, device |-> 5, uapiFile |-> 6,
            uapiListener |-> 7, uapi |-> 8, accept |-> 9]
Own(variant) == Len(Runner!Setup[variant])

Place(variant, ipv6, name) ==
    IF name \in {"rule4", "rule6"} THEN Own(variant) + 4 + (IF name = "rule4" THEN Len(Rules(ipv6)) ELSE 1)
    ELSE IF name \in {"addresses", "config", "up", "routes"} THEN Own(variant) + CommonPlace[name]
    ELSE OwnPlace(variant)[name]

LEMMA VariantsAre == Runner!Variants = {"kernel", "userspace", "amneziawg"}
BY DEF Runner!Variants, Runner!Setup

LEMMA Joined ==
  ASSUME NEW r \in Seq(Things), NEW s \in Seq(Things), NEW t \in Seq(Things)
  PROVE  /\ Len((r \o s) \o t) = Len(r) + Len(s) + Len(t)
         /\ \A i \in 1 .. Len(r) : ((r \o s) \o t)[i] = r[i]
         /\ \A i \in 1 .. Len(s) : ((r \o s) \o t)[Len(r) + i] = s[i]
         /\ \A i \in 1 .. Len(t) : ((r \o s) \o t)[Len(r) + Len(s) + i] = t[i]
<1> DEFINE u == r \o s
<1>1. u \in Seq(Things) /\ Len(u) = Len(r) + Len(s)
      /\ \A i \in 1 .. Len(r) + Len(s) : u[i] = IF i <= Len(r) THEN r[i] ELSE s[i - Len(r)]
  BY ConcatProperties
<1>2. Len(r) \in Nat /\ Len(s) \in Nat /\ Len(t) \in Nat
  BY LenProperties
<1> HIDE DEF u
<1>3. Len(u \o t) = Len(u) + Len(t)
  BY <1>1, ConcatProperties
<1>4. \A i \in 1 .. Len(u) + Len(t) : (u \o t)[i] = IF i <= Len(u) THEN u[i] ELSE t[i - Len(u)]
  BY <1>1, ConcatProperties
<1>5. \A i \in 1 .. Len(r) : (u \o t)[i] = r[i]
  BY <1>1, <1>2, <1>4
<1>6. \A i \in 1 .. Len(s) : (u \o t)[Len(r) + i] = s[i]
  BY <1>1, <1>2, <1>4
<1>7. \A i \in 1 .. Len(t) : (u \o t)[Len(r) + Len(s) + i] = t[i]
  BY <1>1, <1>2, <1>4
<1>8. QED
  BY <1>1, <1>3, <1>5, <1>6, <1>7 DEF u

(* What an implementation makes by itself.                                   *)
OwnStep(variant, i, name) ==
    /\ name \in Things \ {"addresses", "config", "up", "routes", "rule4", "rule6"}
    /\ OwnPlace(variant)[name] = i
    /\ name = "tun" => i < OwnPlace(variant)["link"] /\ i < OwnPlace(variant)["device"]
    /\ variant = "kernel" => name \notin {"tun", "device"}

LEMMA OwnSteps ==
  ASSUME NEW variant \in Runner!Variants
  PROVE  /\ Runner!Setup[variant] \in Seq(Things) /\ Own(variant) \in Nat
         /\ \A i \in 1 .. Own(variant) : OwnStep(variant, i, Runner!Setup[variant][i])
         /\ OwnPlace(variant)["link"] \in 1 .. Own(variant)
         /\ Runner!Setup[variant][OwnPlace(variant)["link"]] = "link"
<1>1. CASE variant = "kernel"
  <2>1. Runner!Setup[variant] = <<"client", "noOldLink", "link">>
    BY <1>1 DEF Runner!Setup, Runner!setupKernelSpace
  <2>2. OwnPlace(variant) = [client |-> 1, noOldLink |-> 2, link |-> 3]
    BY <1>1 DEF OwnPlace
  <2>3. QED
    BY <1>1, <2>1, <2>2 DEF Own, Things, OwnStep
<1>2. CASE variant = "userspace"
  <2>1. Runner!Setup[variant] =
          <<"node", "client", "tun", "link", "bind", "device", "uapiFile", "uapiListener", "accept">>
    BY <1>2 DEF Runner!Setup, Runner!setupUserSpace
  <2>2. OwnPlace(variant) =
          [node |-> 1, client |-> 2, tun |-> 3, link |-> 4, bind |-> 5, device |-> 6, uapiFile |-> 7,
           uapiListener |-> 8, accept |-> 9]
    BY <1>2 DEF OwnPlace
  <2>3. QED
    BY <1>2, <2>1, <2>2 DEF Own, Things, OwnStep
<1>3. CASE variant = "amneziawg"
  <2>1. Runner!Setup[variant] =
          <<"client", "tun", "link", "bind", "device", "uapiFile", "uapiListener", "uapi", "accept">>
    BY <1>3 DEF Runner!Setup, Runner!setupAmneziaWG
  <2>2. OwnPlace(variant) =
          [client |-> 1, tun |-> 2, link |-> 3, bind |-> 4, device |-> 5, uapiFile |-> 6,
           uapiListener |-> 7, uapi |-> 8, accept |-> 9]
    BY <1>3 DEF OwnPlace
  <2>3. QED
    BY <1>3, <2>1, <2>2 DEF Own, Things, OwnStep
<1>4. QED
  BY <1>1, <1>2, <1>3, VariantsAre

LEMMA CommonSteps ==
  /\ Common \in Seq(Things) /\ Len(Common) = 4
  /\ \A i \in 1 .. 4 : Common[i] \in {"addresses", "config", "up", "routes"} /\ CommonPlace[Common[i]] = i
  /\ Common[3] = "up"
BY DEF Common, CommonPlace, Things

LEMMA RuleSteps ==
  ASSUME NEW ipv6 \in BOOLEAN
  PROVE  /\ Rules(ipv6) \in Seq(Things) /\ Len(Rules(ipv6)) \in Nat
         /\ \A i \in 1 .. Len(Rules(ipv6)) :
              /\ Rules(ipv6)[i] \in {"rule4", "rule6"}
              /\ i = IF Rules(ipv6)[i] = "rule4" THEN Len(Rules(ipv6)) ELSE 1
<1>1. CASE ipv6
  <2>1. Rules(ipv6) = <<"rule6", "rule4">>
    BY <1>1 DEF Rules
  <2>2. Rules(ipv6) \in Seq(Things) /\ Len(Rules(ipv6)) = 2
    BY <2>1 DEF Things
  <2>3. \A i \in 1 .. 2 : i = 1 \/ i = 2
    OBVIOUS
  <2>4. \A i \in 1 .. Len(Rules(ipv6)) :
          /\ Rules(ipv6)[i] \in {"rule4", "rule6"}
          /\ i = IF Rules(ipv6)[i] = "rule4" THEN Len(Rules(ipv6)) ELSE 1
    BY <2>1, <2>2, <2>3
  <2>5. Len(Rules(ipv6)) \in Nat
    BY <2>2
  <2>6. QED
    BY <2>2, <2>4, <2>5
<1>2. CASE ~ipv6
  <2>1. Rules(ipv6) = <<"rule4">>
    BY <1>2 DEF Rules
  <2>2. QED
    BY <1>2, <2>1 DEF Things
<1>3. QED
  BY <1>1, <1>2

LEMMA StepsAre ==
  ASSUME NEW variant \in Runner!Variants, NEW ipv6 \in BOOLEAN, NEW all, all = Runner!Steps(variant, ipv6)
  PROVE  /\ Len(all) \in Nat
         /\ \A i \in 1 .. Len(all) :
              /\ all[i] \in Things /\ Place(variant, ipv6, all[i]) = i
              /\ all[i] \in {"addresses", "config"} => \E j \in 1 .. i - 1 : all[j] = "link"
              /\ all[i] = "routes" => \E j \in 1 .. i - 1 : all[j] = "up"
              /\ all[i] = "tun" => \A j \in 1 .. i - 1 : all[j] \notin {"link", "device"}
              /\ variant = "kernel" => all[i] \notin {"tun", "device"}
<1> DEFINE n == Own(variant)
           r == Runner!Setup[variant]
           t == Rules(ipv6)
<1>1. all = (r \o Common) \o t
  BY DEF Runner!Steps, Common, Rules
<1>2. r \in Seq(Things) /\ Common \in Seq(Things) /\ t \in Seq(Things) /\ Len(r) = n /\ n \in Nat
  BY OwnSteps, CommonSteps, RuleSteps DEF Own
<1> HIDE DEF r, t, n
<1>3. /\ Len(all) = n + 4 + Len(t) /\ Len(t) \in Nat
      /\ \A i \in 1 .. n : all[i] = r[i]
      /\ \A i \in 1 .. 4 : all[n + i] = Common[i]
      /\ \A i \in 1 .. Len(t) : all[n + 4 + i] = t[i]
  <2>1. Len(Common) = 4 /\ Len(t) \in Nat
    BY CommonSteps, RuleSteps DEF t
  <2>2. /\ Len((r \o Common) \o t) = Len(r) + Len(Common) + Len(t)
        /\ \A i \in 1 .. Len(r) : ((r \o Common) \o t)[i] = r[i]
        /\ \A i \in 1 .. Len(Common) : ((r \o Common) \o t)[Len(r) + i] = Common[i]
        /\ \A i \in 1 .. Len(t) : ((r \o Common) \o t)[Len(r) + Len(Common) + i] = t[i]
    BY <1>2, Joined
  <2>3. QED
    BY <1>1, <1>2, <2>1, <2>2
<1>4. \A i \in 1 .. n : OwnStep(variant, i, all[i])
  <2>1. \A i \in 1 .. n : OwnStep(variant, i, r[i])
    BY OwnSteps DEF r, n
  <2>2. QED
    BY <1>3, <2>1
<1>5. \E j \in 1 .. n : all[j] = "link"
  <2>1. OwnPlace(variant)["link"] \in 1 .. n /\ r[OwnPlace(variant)["link"]] = "link"
    BY OwnSteps DEF r, n
  <2>2. QED
    BY <1>3, <2>1
<1>6. all[n + 3] = "up"
  BY <1>3, CommonSteps
<1>7. \A i \in 1 .. 4 : all[n + i] \in {"addresses", "config", "up", "routes"} /\ CommonPlace[all[n + i]] = i
  BY <1>3, CommonSteps
<1>8. \A i \in 1 .. Len(t) : all[n + 4 + i] \in {"rule4", "rule6"} /\ i = IF all[n + 4 + i] = "rule4" THEN Len(t) ELSE 1
  BY <1>3, RuleSteps DEF t
<1>9. \A i \in 1 .. Len(all) : i \in 1 .. n \/ (\E k \in 1 .. 4 : i = n + k) \/ (\E k \in 1 .. Len(t) : i = n + 4 + k)
  <2> SUFFICES ASSUME NEW i \in 1 .. Len(all), i \notin 1 .. n, ~\E k \in 1 .. 4 : i = n + k
               PROVE  \E k \in 1 .. Len(t) : i = n + 4 + k
    OBVIOUS
  <2>1. i > n /\ i - n \in Nat
    BY <1>2, <1>3
  <2>2. i - n \notin 1 .. 4
    BY <1>2, <2>1
  <2>3. i - n - 4 \in 1 .. Len(t) /\ i = n + 4 + (i - n - 4)
    BY <1>2, <1>3, <2>1, <2>2
  <2>4. QED
    BY <2>3
<1>10. ASSUME NEW i \in 1 .. n
       PROVE  /\ all[i] \in Things /\ Place(variant, ipv6, all[i]) = i
              /\ all[i] \notin {"addresses", "config", "routes"}
              /\ all[i] = "tun" => \A j \in 1 .. i - 1 : all[j] \notin {"link", "device"}
              /\ variant = "kernel" => all[i] \notin {"tun", "device"}
  <2>1. all[i] = "tun" => \A j \in 1 .. i - 1 : all[j] \notin {"link", "device"}
    BY <1>2, <1>4 DEF OwnStep
  <2>2. QED
    BY <1>4, <2>1 DEF Place, OwnStep
<1>11. ASSUME NEW i \in Nat, NEW k \in 1 .. 4, i = n + k
       PROVE  /\ all[i] \in Things /\ Place(variant, ipv6, all[i]) = i
              /\ \E j \in 1 .. i - 1 : all[j] = "link"
              /\ all[i] = "routes" => \E j \in 1 .. i - 1 : all[j] = "up"
              /\ all[i] \notin {"tun", "device"}
  <2>1. all[i] \in {"addresses", "config", "up", "routes"} /\ CommonPlace[all[i]] = k
    BY <1>7, <1>11
  <2>2. Place(variant, ipv6, all[i]) = i
    BY <1>11, <2>1 DEF Place, n
  <2>3. \E j \in 1 .. i - 1 : all[j] = "link"
    BY <1>2, <1>5, <1>11
  <2>4. all[i] = "routes" => k = 4
    BY <2>1 DEF CommonPlace
  <2>5. k = 4 => n + 3 \in 1 .. i - 1
    BY <1>2, <1>11
  <2>6. QED
    BY <1>6, <2>1, <2>2, <2>3, <2>4, <2>5 DEF Things
<1>12. ASSUME NEW i \in Nat, NEW k \in 1 .. Len(t), i = n + 4 + k
       PROVE  all[i] \in {"rule4", "rule6"} /\ Place(variant, ipv6, all[i]) = i
  <2>1. all[i] \in {"rule4", "rule6"} /\ k = IF all[i] = "rule4" THEN Len(t) ELSE 1
    BY <1>8, <1>12
  <2>2. QED
    BY <1>12, <2>1 DEF Place, n, t
<1>13. QED
  <2>1. Len(all) \in Nat
    BY <1>2, <1>3
  <2>2. ASSUME NEW i \in 1 .. Len(all)
        PROVE  /\ all[i] \in Things /\ Place(variant, ipv6, all[i]) = i
               /\ all[i] \in {"addresses", "config"} => \E j \in 1 .. i - 1 : all[j] = "link"
               /\ all[i] = "routes" => \E j \in 1 .. i - 1 : all[j] = "up"
               /\ all[i] = "tun" => \A j \in 1 .. i - 1 : all[j] \notin {"link", "device"}
               /\ variant = "kernel" => all[i] \notin {"tun", "device"}
    <3>1. i \in Nat
      BY <2>1
    <3>2. CASE i \in 1 .. n
      BY <1>10, <3>2
    <3>3. CASE \E k \in 1 .. 4 : i = n + k
      BY <1>11, <3>1, <3>3
    <3>4. CASE \E k \in 1 .. Len(t) : i = n + 4 + k
      BY <1>12, <3>1, <3>4 DEF Things
    <3>5. QED
      BY <1>9, <3>2, <3>3, <3>4
  <2>3. QED
    BY <2>1, <2>2

-----------------------------------------------------------------------------
Cleaned == {"client", "rule4", "rule6", "uapiListener", "uapiFile", "up", "link", "device", "tun", "bind"}

LEMMA CleanedIs == DOMAIN Runner!CleanupOrder = Cleaned
BY DEF Runner!CleanupOrder, Cleaned

LEMMA WithIs ==
  /\ \A op \in Cleaned :
       /\ op \in Runner!With(op)
       /\ "rule4" \in Runner!With(op) => op = "rule4"
       /\ "rule6" \in Runner!With(op) => op = "rule6"
       /\ "tun" \in Runner!With(op) => op \in {"tun", "device"}
       /\ "link" \in Runner!With(op) => op \in {"link", "tun", "device"}
  /\ "link" \in Runner!With("tun") /\ {"addresses", "config"} \subseteq Runner!With("link")
  /\ "routes" \in Runner!With("up")
BY DEF Cleaned, Runner!With

DevStates ==
    [variant : Runner!Variants, ipv6 : BOOLEAN, at : {"off", "setup", "up", "report", "cleanup", "ending"},
     step : Nat, todo : SUBSET Cleaned, there : SUBSET Things, accept : BOOLEAN, left : BOOLEAN,
     runs : Nat, failures : Nat, kept : BOOLEAN, refused : BOOLEAN, late : BOOLEAN]

(* What the clean ups of a set remove.                                       *)
Covered(ops) == UNION {Runner!With(op) : op \in ops}

(* What is there is what a clean up still to be done removes; while a runner *)
(* is set up these are the clean ups of the steps it has done.               *)
DevInv ==
    /\ dev \in DevStates /\ dev.step <= Len(Runner!All)
    /\ dev.at = "setup" => dev.todo = {name \in Cleaned : \E i \in 1 .. dev.step : Runner!All[i] = name}
    /\ dev.at = "off" => dev.todo = {}
    /\ ~dev.kept => dev.there \subseteq Covered(dev.todo)
    /\ dev.refused => dev.kept
    /\ dev.left => dev.late
    /\ dev.at \in {"report", "cleanup"} /\ dev.accept => dev.late

LEMMA DevInvIsEnough ==
  ASSUME DevInv
  PROVE  Runner!TypeOK /\ Runner!NothingIsLeft /\ Runner!NoRunnerIsRefused /\ Runner!GoroutinesEnd
<1>1. Len(Runner!All) \in Nat
  BY StepsAre DEF DevInv, DevStates, Runner!All
<1>2. dev.step \in 0 .. Len(Runner!All)
  BY <1>1 DEF DevInv, DevStates
<1>3. Runner!TypeOK
  BY <1>2, CleanedIs DEF DevInv, DevStates, Runner!TypeOK
<1>4. Runner!NothingIsLeft
  BY DEF DevInv, Covered, Runner!NothingIsLeft
<1>5. Runner!NoRunnerIsRefused /\ Runner!GoroutinesEnd
  BY DEF DevInv, Runner!NoRunnerIsRefused, Runner!GoroutinesEnd
<1>6. QED
  BY <1>3, <1>4, <1>5

(* The step that is next, and what was done before it.                       *)
LEMMA Next1 ==
  ASSUME DevInv, dev.at = "setup", dev.step < Len(Runner!All)
  PROVE  /\ Runner!Current \in Things /\ dev.step + 1 <= Len(Runner!All) /\ Len(Runner!All) \in Nat
         /\ Runner!Current \notin dev.todo
         /\ Runner!Current \in {"addresses", "config"} => "link" \in dev.todo
         /\ Runner!Current = "routes" => "up" \in dev.todo
         /\ Runner!Current = "tun" => "link" \notin dev.todo /\ "device" \notin dev.todo
         /\ dev.variant = "kernel" => "tun" \notin dev.todo /\ "device" \notin dev.todo
<1> DEFINE all == Runner!All
           i == dev.step + 1
<1>1. dev.variant \in Runner!Variants /\ dev.ipv6 \in BOOLEAN /\ dev.step \in Nat
      /\ all = Runner!Steps(dev.variant, dev.ipv6)
  BY DEF DevInv, DevStates, Runner!All
<1> HIDE DEF all
<1>2. Len(all) \in Nat
  BY <1>1, StepsAre
<1>3. i \in 1 .. Len(all) /\ i - 1 = dev.step
  BY <1>1, <1>2 DEF all
<1>4. \A k \in 1 .. Len(all) :
        /\ all[k] \in Things /\ Place(dev.variant, dev.ipv6, all[k]) = k
        /\ all[k] \in {"addresses", "config"} => \E j \in 1 .. k - 1 : all[j] = "link"
        /\ all[k] = "routes" => \E j \in 1 .. k - 1 : all[j] = "up"
        /\ all[k] = "tun" => \A j \in 1 .. k - 1 : all[j] \notin {"link", "device"}
        /\ dev.variant = "kernel" => all[k] \notin {"tun", "device"}
  BY <1>1, StepsAre
<1>5. dev.todo = {name \in Cleaned : \E k \in 1 .. dev.step : all[k] = name}
  BY DEF DevInv, all
<1>6. Runner!Current = all[i]
  BY DEF Runner!Current, all
<1> HIDE DEF i
<1>7. /\ all[i] \in Things
      /\ all[i] \in {"addresses", "config"} => \E j \in 1 .. dev.step : all[j] = "link"
      /\ all[i] = "routes" => \E j \in 1 .. dev.step : all[j] = "up"
      /\ all[i] = "tun" => \A j \in 1 .. dev.step : all[j] \notin {"link", "device"}
  BY <1>3, <1>4
<1>8. \A j \in 1 .. dev.step : j \in 1 .. Len(all) /\ j # i
  BY <1>1, <1>2, <1>3
<1>9. all[i] \notin dev.todo
  BY <1>3, <1>4, <1>5, <1>8
<1>10. dev.variant = "kernel" => "tun" \notin dev.todo /\ "device" \notin dev.todo
  BY <1>4, <1>5, <1>8
<1>11. "link" \in Cleaned /\ "up" \in Cleaned
  BY DEF Cleaned
<1>12. dev.step + 1 <= Len(all)
  BY <1>1, <1>2 DEF all
<1>13. QED
  BY <1>2, <1>5, <1>6, <1>7, <1>9, <1>10, <1>11, <1>12 DEF all

LEMMA NothingInTheWay ==
  ASSUME DevInv, dev.at = "setup", dev.step < Len(Runner!All), ~dev.kept
  PROVE  ~Runner!Exists(Runner!Current)
<1>1. dev.there \subseteq Covered(dev.todo) /\ dev.todo \subseteq Cleaned
  BY DEF DevInv, DevStates
<1>2. \A x \in dev.there : \E op \in dev.todo : op \in Cleaned /\ x \in Runner!With(op)
  BY <1>1 DEF Covered
<1> DEFINE name == Runner!Current
<1>3. name \notin dev.todo
      /\ (name = "tun" => "link" \notin dev.todo /\ "device" \notin dev.todo)
      /\ (dev.variant = "kernel" => "tun" \notin dev.todo /\ "device" \notin dev.todo)
  BY Next1
<1> HIDE DEF name
<1>4. name \in {"rule4", "rule6", "tun"} => name \notin dev.there
  BY <1>2, <1>3, WithIs
<1>5. name = "tun" => "link" \notin dev.there
  BY <1>2, <1>3, WithIs
<1>6. name = "link" /\ dev.variant = "kernel" => "link" \notin dev.there
  BY <1>2, <1>3, WithIs
<1>7. ~Runner!Exists(name)
  BY <1>4, <1>5, <1>6 DEF Runner!Exists
<1>8. QED
  BY <1>7 DEF name

LEMMA DevStart == ASSUME DevInv, Runner!Start PROVE DevInv'
<1>1. PICK ipv6 \in BOOLEAN :
        dev' = [dev EXCEPT !.at = "setup", !.step = 0, !.ipv6 = ipv6, !.runs = dev.runs + 1, !.refused = FALSE]
  BY DEF Runner!Start
<1>2. dev \in DevStates /\ dev.runs + 1 \in Nat /\ dev.at = "off" /\ dev.todo = {}
  BY DEF DevInv, DevStates, Runner!Start
<1>3. /\ dev' \in DevStates /\ dev'.at = "setup" /\ dev'.step = 0 /\ dev'.todo = {} /\ dev'.there = dev.there
      /\ dev'.kept = dev.kept /\ ~dev'.refused /\ dev'.left = dev.left /\ dev'.late = dev.late
  BY <1>1, <1>2 DEF DevStates
<1>4. Len(Runner!All)' \in Nat
  <2>1. dev'.variant \in Runner!Variants /\ dev'.ipv6 \in BOOLEAN
    BY <1>3 DEF DevStates
  <2>2. QED
    BY <2>1, StepsAre DEF Runner!All
<1>5. dev'.step <= Len(Runner!All)'
  BY <1>3, <1>4
<1>6. {name \in Cleaned : \E i \in 1 .. dev'.step : Runner!All'[i] = name} = {}
  BY <1>3
<1>7. QED
  BY <1>2, <1>3, <1>5, <1>6 DEF DevInv

LEMMA DevStep == ASSUME DevInv, Runner!Step PROVE DevInv'
<1> DEFINE name == Runner!Current
           there == IF name = "noOldLink" THEN dev.there \ Runner!With("link")
                    ELSE IF name = "tun" THEN dev.there \cup {"tun", "link"}
                    ELSE IF name \in {"node", "uapi", "accept"} THEN dev.there ELSE dev.there \cup {name}
           accept == dev.accept \/ name = "accept"
           todo == IF name \in Cleaned THEN dev.todo \cup {name} ELSE dev.todo
           at == IF dev.step + 1 = Len(Runner!All) THEN "up" ELSE "setup"
<1>1. /\ dev \in DevStates /\ dev.at = "setup" /\ dev.step < Len(Runner!All)
      /\ dev' = [Runner!Made(dev, name) EXCEPT !.step = Runner!Made(dev, name).step + 1, !.at = at]
  BY DEF DevInv, Runner!Step
<1>2. Runner!Made(dev, name) = [dev EXCEPT !.there = there, !.accept = accept, !.todo = todo]
  BY CleanedIs DEF Runner!Made
<1>3. name \in Things /\ dev.step + 1 <= Len(Runner!All)
      /\ (name \in {"addresses", "config"} => "link" \in dev.todo)
      /\ (name = "routes" => "up" \in dev.todo)
  BY <1>1, Next1
<1>4. there \in SUBSET Things /\ todo \in SUBSET Cleaned /\ at \in {"setup", "up"} /\ dev.step + 1 \in Nat
  BY <1>1, <1>3 DEF DevStates, Things
<1>5. accept \in BOOLEAN
  OBVIOUS
<1> HIDE DEF there, accept, todo, at
<1>6. dev' = [dev EXCEPT !.there = there, !.accept = accept, !.todo = todo, !.step = dev.step + 1, !.at = at]
  BY <1>1, <1>2 DEF DevStates
<1>7. /\ dev' \in DevStates /\ dev'.variant = dev.variant /\ dev'.ipv6 = dev.ipv6 /\ dev'.at = at
      /\ dev'.step = dev.step + 1 /\ dev'.todo = todo /\ dev'.there = there
      /\ dev'.kept = dev.kept /\ dev'.refused = dev.refused /\ dev'.left = dev.left /\ dev'.late = dev.late
  BY <1>1, <1>4, <1>5, <1>6 DEF DevStates
<1>8. Runner!All' = Runner!All
  BY <1>7 DEF Runner!All
<1>9. todo = {x \in Cleaned : \E i \in 1 .. dev.step + 1 : Runner!All[i] = x}
  <2>1. \A i \in 1 .. dev.step + 1 : i \in 1 .. dev.step \/ i = dev.step + 1
    BY <1>1 DEF DevStates
  <2>2. dev.step + 1 \in 1 .. dev.step + 1 /\ (\A i \in 1 .. dev.step : i \in 1 .. dev.step + 1)
    BY <1>1 DEF DevStates
  <2>3. name = Runner!All[dev.step + 1]
    BY DEF Runner!Current
  <2>4. dev.todo = {x \in Cleaned : \E i \in 1 .. dev.step : Runner!All[i] = x}
    BY <1>1 DEF DevInv
  <2> HIDE DEF name
  <2>5. QED
    BY <2>1, <2>2, <2>3, <2>4 DEF todo
<1>10. ~dev.kept => there \subseteq Covered(todo)
  <2> SUFFICES ASSUME ~dev.kept, NEW x \in there PROVE x \in Covered(todo)
    OBVIOUS
  <2> HIDE DEF name
  <2>1. \A y \in dev.there : \E op \in dev.todo : y \in Runner!With(op)
    BY DEF DevInv, Covered
  <2>2. dev.todo \subseteq todo /\ (name \in Cleaned => name \in todo)
    BY DEF todo
  <2>3. x \in dev.there \/ (name = "tun" /\ x \in {"tun", "link"})
        \/ (x = name /\ name \notin {"noOldLink", "node", "uapi", "accept"})
    BY DEF there
  <2>4. CASE x \in dev.there
    BY <2>1, <2>2, <2>4 DEF Covered
  <2>5. CASE name = "tun" /\ x \in {"tun", "link"}
    <3>1. "tun" \in todo /\ x \in Runner!With("tun")
      BY <2>2, <2>5, WithIs DEF Cleaned
    <3>2. QED
      BY <3>1 DEF Covered
  <2>6. CASE x = name /\ name \in Cleaned
    BY <2>2, <2>6, WithIs DEF Covered
  <2>7. CASE x = name /\ name \in {"addresses", "config"}
    <3>1. "link" \in todo /\ x \in Runner!With("link")
      BY <1>3, <2>2, <2>7, WithIs
    <3>2. QED
      BY <3>1 DEF Covered
  <2>8. CASE x = name /\ name = "routes"
    <3>1. "up" \in todo /\ x \in Runner!With("up")
      BY <1>3, <2>2, <2>8, WithIs
    <3>2. QED
      BY <3>1 DEF Covered
  <2>9. QED
    BY <1>3, <2>3, <2>4, <2>5, <2>6, <2>7, <2>8 DEF Things, Cleaned
<1>11. QED
  BY <1>3, <1>4, <1>7, <1>8, <1>9, <1>10 DEF DevInv

LEMMA DevStepFails == ASSUME DevInv, Runner!StepFails PROVE DevInv'
<1> DEFINE refused == Runner!Exists(Runner!Current)
           failures == IF refused THEN dev.failures ELSE dev.failures + 1
           late == dev.late \/ dev.accept
<1>1. /\ dev \in DevStates /\ dev.at = "setup" /\ dev.step < Len(Runner!All)
      /\ dev' = [dev EXCEPT !.at = "report", !.refused = refused, !.late = late, !.failures = failures]
  BY DEF DevInv, Runner!StepFails
<1>2. refused \in BOOLEAN /\ late \in BOOLEAN
  BY DEF Runner!Exists
<1>3. failures \in Nat
  BY <1>1 DEF DevStates
<1>4. refused => dev.kept
  BY <1>1, NothingInTheWay
<1>5. (dev.accept => late) /\ (dev.late => late)
  OBVIOUS
<1> HIDE DEF refused, failures, late
<1>6. /\ dev' \in DevStates /\ dev'.variant = dev.variant /\ dev'.ipv6 = dev.ipv6 /\ dev'.at = "report"
      /\ dev'.step = dev.step /\ dev'.todo = dev.todo /\ dev'.there = dev.there /\ dev'.accept = dev.accept
      /\ dev'.kept = dev.kept /\ dev'.refused = refused /\ dev'.left = dev.left /\ dev'.late = late
  BY <1>1, <1>2, <1>3 DEF DevStates
<1>7. Runner!All' = Runner!All
  BY <1>6 DEF Runner!All
<1>8. dev'.step <= Len(Runner!All)'
  BY <1>6, <1>7 DEF DevInv
<1>9. QED
  BY <1>4, <1>5, <1>6, <1>8 DEF DevInv

(* The steps that change neither what is there nor the clean ups.            *)
LEMMA DevMoves ==
  ASSUME DevInv, dev' \in DevStates, dev'.variant = dev.variant, dev'.ipv6 = dev.ipv6, dev'.step = dev.step,
         dev'.todo = dev.todo, dev'.there = dev.there, dev'.kept = dev.kept, dev'.refused = dev.refused,
         dev'.left = dev.left, dev'.late = dev.late, dev'.accept => dev.accept,
         dev'.at = "off" => dev.todo = {},
         dev'.at # "setup", dev'.at \in {"report", "cleanup"} => dev.at \in {"report", "cleanup"}
  PROVE  DevInv'
<1>1. Runner!All' = Runner!All
  BY DEF Runner!All
<1>2. QED
  BY <1>1 DEF DevInv

LEMMA DevEnds == ASSUME DevInv, Runner!End \/ Runner!AcceptFails \/ Runner!Report \/ Runner!Ended PROVE DevInv'
<1>0. dev \in DevStates
  BY DEF DevInv
<1>1. CASE Runner!End
  BY <1>0, <1>1, DevMoves DEF Runner!End, DevStates
<1>2. CASE Runner!AcceptFails
  <2>1. dev.failures + 1 \in Nat
    BY <1>0 DEF DevStates
  <2>2. dev' = [dev EXCEPT !.at = "ending", !.accept = FALSE, !.failures = dev.failures + 1]
    BY <1>2 DEF Runner!AcceptFails
  <2>3. QED
    BY <1>0, <2>1, <2>2, DevMoves DEF DevStates
<1>3. CASE Runner!Report
  BY <1>0, <1>3, DevMoves DEF Runner!Report, DevStates
<1>4. CASE Runner!Ended
  BY <1>0, <1>4, DevMoves DEF Runner!Ended, DevStates
<1>5. QED
  BY <1>1, <1>2, <1>3, <1>4

LEMMA DevClean == ASSUME DevInv, Runner!Clean PROVE DevInv'
<1>0. dev \in DevStates /\ dev.at \in {"cleanup", "ending"}
  BY DEF DevInv, Runner!Clean
<1>1. ASSUME NEW op \in dev.todo,
             dev' = [dev EXCEPT !.todo = dev.todo \ {op}, !.there = dev.there \ Runner!With(op),
                                !.accept = dev.accept /\ ~Runner!AcceptEnds(op),
                                !.left = dev.left \/ (Runner!AcceptEnds(op) /\ dev.at = "cleanup")]
      PROVE  DevInv'
  <2> DEFINE todo == dev.todo \ {op}
             there == dev.there \ Runner!With(op)
             accept == dev.accept /\ ~Runner!AcceptEnds(op)
             left == dev.left \/ (Runner!AcceptEnds(op) /\ dev.at = "cleanup")
  <2>1. todo \in SUBSET Cleaned /\ there \in SUBSET Things
    BY <1>0 DEF DevStates
  <2>2. accept \in BOOLEAN /\ left \in BOOLEAN /\ (accept => dev.accept)
    OBVIOUS
  <2>3. left => dev.left \/ (dev.accept /\ dev.at = "cleanup")
    BY DEF Runner!AcceptEnds
  <2>4. ~dev.kept => there \subseteq Covered(todo)
    BY DEF DevInv, Covered
  <2>5. dev' = [dev EXCEPT !.todo = todo, !.there = there, !.accept = accept, !.left = left]
    BY <1>1
  <2> HIDE DEF todo, there, accept, left
  <2>6. /\ dev' \in DevStates /\ dev'.variant = dev.variant /\ dev'.ipv6 = dev.ipv6 /\ dev'.at = dev.at
        /\ dev'.step = dev.step /\ dev'.todo = todo /\ dev'.there = there /\ dev'.accept = accept
        /\ dev'.kept = dev.kept /\ dev'.refused = dev.refused /\ dev'.left = left /\ dev'.late = dev.late
    BY <1>0, <2>1, <2>2, <2>5 DEF DevStates
  <2>7. Runner!All' = Runner!All
    BY <2>6 DEF Runner!All
  <2>8. dev'.left => dev'.late
    BY <2>3, <2>6 DEF DevInv
  <2>9. QED
    BY <1>0, <2>2, <2>4, <2>6, <2>7, <2>8 DEF DevInv
<1>2. ASSUME NEW op \in dev.todo,
             dev' = [dev EXCEPT !.todo = dev.todo \ {op}, !.failures = dev.failures + 1, !.kept = TRUE]
      PROVE  DevInv'
  <2>1. dev.todo \ {op} \in SUBSET Cleaned /\ dev.failures + 1 \in Nat
    BY <1>0 DEF DevStates
  <2>2. /\ dev' \in DevStates /\ dev'.variant = dev.variant /\ dev'.ipv6 = dev.ipv6 /\ dev'.at = dev.at
        /\ dev'.step = dev.step /\ dev'.accept = dev.accept
        /\ dev'.kept /\ dev'.left = dev.left /\ dev'.late = dev.late
    BY <1>0, <1>2, <2>1 DEF DevStates
  <2>3. Runner!All' = Runner!All
    BY <2>2 DEF Runner!All
  <2>4. QED
    BY <1>0, <2>2, <2>3 DEF DevInv
<1>3. QED
  BY <1>1, <1>2 DEF Runner!Clean, Runner!Firsts

LEMMA DevInvariance == Runner!Spec => []DevInv
<1>1. Runner!Init => DevInv
  <2> SUFFICES ASSUME Runner!Init PROVE DevInv
    OBVIOUS
  <2>1. PICK variant \in Runner!Variants, ipv6 \in BOOLEAN :
          dev = [variant |-> variant, ipv6 |-> ipv6, at |-> "off", step |-> 0, todo |-> {}, there |-> {},
                 accept |-> FALSE, left |-> FALSE, runs |-> 0, failures |-> 0, kept |-> FALSE,
                 refused |-> FALSE, late |-> FALSE]
    BY DEF Runner!Init
  <2>2. dev \in DevStates /\ dev.step = 0
    BY <2>1 DEF DevStates
  <2>3. Len(Runner!All) \in Nat
    BY <2>2, StepsAre DEF DevStates, Runner!All
  <2>4. dev.step <= Len(Runner!All)
    BY <2>2, <2>3
  <2>5. QED
    BY <2>1, <2>2, <2>4 DEF DevInv
<1>2. DevInv /\ [Runner!Next]_dev => DevInv'
  <2> SUFFICES ASSUME DevInv, [Runner!Next]_dev PROVE DevInv'
    OBVIOUS
  <2>1. CASE UNCHANGED dev
    <3>1. Runner!All' = Runner!All
      BY <2>1 DEF Runner!All
    <3>2. QED
      BY <2>1, <3>1 DEF DevInv
  <2>2. QED
    BY <2>1, DevStart, DevStep, DevStepFails, DevEnds, DevClean DEF Runner!Next
<1>3. QED
  BY <1>1, <1>2, PTL DEF Runner!Spec

-----------------------------------------------------------------------------
(* Firewall: what each kind of rule is asked for, and what failures leave    *)
(* over.                                                                     *)

(* The state of the firewall as one record, as the other parts have theirs.  *)
Now ==
    [on |-> enabled, rules |-> rules, conn |-> vpnConnection, intf |-> vpnIntf, subnets |-> outboundSubnets,
     ports |-> allowedInputPorts, redirs |-> portRedirections, open |-> exchanges]

Intfs == Filter!Devices \cup Tunnels

FireStates ==
    [on : BOOLEAN, rules : [Filter!Rule -> Nat], conn : Connections \cup {Filter!None}, intf : Tunnels \cup {Filter!None},
     subnets : SUBSET Subnets, ports : SUBSET (Intfs \X Ports),
     redirs : SUBSET (Tunnels \X Ports \X (Ports \cup {0})), open : SUBSET Exchanges]

RedirsTo(s, i, p) == {a \in s.redirs : a[1] = i /\ a[3] = p}

ExpectedOf(s, x) ==
    IF ~s.on THEN 0 ELSE
    (IF x = Filter!Base THEN 1 ELSE 0)
    + (IF \E d \in Filter!Devices : x = Filter!ToServer(d, s.conn) THEN Filter!Via(Routes, x[2]) ELSE 0)
    + (IF x = Filter!Through(s.intf) THEN 1 ELSE 0)
    + (IF \E a \in s.ports : x = Filter!Input(a[1], a[2]) THEN 1 ELSE 0)
    + Filter!Cardinality({a \in s.redirs : x \in Filter!RedirectPortRules(a[1], a[2], a[3])})
    + (IF \E n \in s.subnets : \E r \in Filter!RoutesTo(n) : x = Filter!ToSubnet(r, n) THEN 1 ELSE 0)
    + (IF \E e \in s.open : x = Filter!Exchange(e) THEN 1 ELSE 0)

LEMMA ExpectedIs == \A x : Filter!Expected(x) = ExpectedOf(Now, x)
BY DEF Filter!Expected, ExpectedOf, Now

LEMMA ExpectedNextIs == \A x : Filter!Expected(x)' = ExpectedOf(Now', x)
BY DEF Filter!Expected, ExpectedOf, Now

LEMMA FireCardinality == \A S : Filter!Cardinality(S) = Cardinality(S) /\ Filter!IsFiniteSet(S) = IsFiniteSet(S)
BY DEF Filter!Cardinality, Cardinality, Filter!IsFiniteSet, IsFiniteSet

LEMMA FireConstants ==
  /\ IsFiniteSet(Routes) /\ IsFiniteSet(Subnets) /\ Ports \subseteq Nat \ {0} /\ MaxFaults \in Nat
  /\ Filter!None \notin Connections /\ Filter!None \notin Tunnels
<1>1. Filter!FirewallConstants
  BY NetworkAssumption DEF NetworkAssumption
<1>2. QED
  BY <1>1, FireCardinality DEF Filter!FirewallConstants

LEMMA ViaIs == \A d : \A A \in SUBSET Routes : Filter!Via(A, d) \in Nat
<1>1. ASSUME NEW A \in SUBSET Routes, NEW d PROVE Filter!Via(A, d) \in Nat
  <2>1. IsFiniteSet({r \in A : Device[r] = d})
    BY FireConstants, FS_Subset
  <2>2. QED
    BY <2>1, FS_CardinalityType, FireCardinality DEF Filter!Via
<1>2. QED
  BY <1>1

(* The kinds of rules, and how many copies of each are asked for.            *)
LEMMA Kinds ==
  ASSUME NEW x \in Filter!Rule
  PROVE  \/ \E d \in Filter!Devices, c \in Connections : x = Filter!ToServer(d, c)
         \/ \E i \in Tunnels : x = Filter!Through(i)
         \/ \E i \in Intfs, p \in Ports \cup {0} : x = Filter!Input(i, p)
         \/ \E i \in Tunnels, p \in Ports, q \in Ports \cup {0} : x = Filter!Redirect(i, p, q)
         \/ \E r \in Routes, n \in Subnets : x = Filter!ToSubnet(r, n)
         \/ \E e \in Exchanges : x = Filter!Exchange(e)
         \/ x = Filter!PublicOnly
         \/ x = Filter!Base
BY DEF Filter!Rule, Intfs

LEMMA Tags ==
  /\ \A d, c : Filter!ToServer(d, c)[1] = "toServer" /\ Filter!ToServer(d, c)[2] = d /\ Filter!ToServer(d, c)[3] = c
  /\ \A i : Filter!Through(i)[1] = "through" /\ Filter!Through(i)[2] = i
  /\ \A i, p : Filter!Input(i, p)[1] = "input" /\ Filter!Input(i, p)[2] = i /\ Filter!Input(i, p)[3] = p
  /\ \A i, p, q : /\ Filter!Redirect(i, p, q)[1] = "redirect" /\ Filter!Redirect(i, p, q)[2] = i
                  /\ Filter!Redirect(i, p, q)[3] = p /\ Filter!Redirect(i, p, q)[4] = q
  /\ \A r, n : Filter!ToSubnet(r, n)[1] = "toSubnet" /\ Filter!ToSubnet(r, n)[2] = r /\ Filter!ToSubnet(r, n)[3] = n
  /\ \A e : Filter!Exchange(e)[1] = "exchange" /\ Filter!Exchange(e)[2] = e
  /\ Filter!PublicOnly[1] = "publicOnly" /\ Filter!Base[1] = "base"
BY DEF Filter!ToServer, Filter!Through, Filter!Input, Filter!Redirect, Filter!ToSubnet, Filter!Exchange,
       Filter!PublicOnly, Filter!Base

LEMMA Asked ==
  ASSUME NEW s \in FireStates, s.on, IsFiniteSet(s.redirs)
  PROVE  /\ \A d \in Filter!Devices, c \in Connections :
              ExpectedOf(s, Filter!ToServer(d, c)) = IF c = s.conn THEN Filter!Via(Routes, d) ELSE 0
         /\ \A i \in Tunnels : ExpectedOf(s, Filter!Through(i)) = IF i = s.intf THEN 1 ELSE 0
         /\ \A r \in Routes, n \in Subnets :
              ExpectedOf(s, Filter!ToSubnet(r, n)) = IF n \in s.subnets /\ r \in Filter!RoutesTo(n) THEN 1 ELSE 0
         /\ \A e \in Exchanges : ExpectedOf(s, Filter!Exchange(e)) = IF e \in s.open THEN 1 ELSE 0
         /\ ExpectedOf(s, Filter!PublicOnly) = 0 /\ ExpectedOf(s, Filter!Base) = 1
         /\ \A i \in Intfs, p \in Ports \cup {0} :
              ExpectedOf(s, Filter!Input(i, p)) =
                (IF <<i, p>> \in s.ports THEN 1 ELSE 0) + Filter!Cardinality(RedirsTo(s, i, p))
         /\ \A i \in Tunnels, p \in Ports, q \in Ports \cup {0} :
              ExpectedOf(s, Filter!Redirect(i, p, q)) = IF <<i, p, q>> \in s.redirs THEN 1 ELSE 0
<1> DEFINE Redirected(x) == {a \in s.redirs : x \in Filter!RedirectPortRules(a[1], a[2], a[3])}
<1>1. Filter!Cardinality({}) = 0
  BY FS_EmptySet, FireCardinality
<1>2. \A x : (\A i, p : x # Filter!Input(i, p)) /\ (\A i, p, q : x # Filter!Redirect(i, p, q)) => Redirected(x) = {}
  BY DEF Filter!RedirectPortRules
<1>3. \A x : ExpectedOf(s, x) =
        (IF x = Filter!Base THEN 1 ELSE 0)
        + (IF \E d \in Filter!Devices : x = Filter!ToServer(d, s.conn) THEN Filter!Via(Routes, x[2]) ELSE 0)
        + (IF x = Filter!Through(s.intf) THEN 1 ELSE 0)
        + (IF \E a \in s.ports : x = Filter!Input(a[1], a[2]) THEN 1 ELSE 0)
        + Filter!Cardinality(Redirected(x))
        + (IF \E n \in s.subnets : \E r \in Filter!RoutesTo(n) : x = Filter!ToSubnet(r, n) THEN 1 ELSE 0)
        + (IF \E e \in s.open : x = Filter!Exchange(e) THEN 1 ELSE 0)
  BY DEF ExpectedOf
<1> HIDE DEF Redirected
<1>4. \A d : Filter!Via(Routes, d) \in Nat
  BY ViaIs
<1>5. ASSUME NEW d \in Filter!Devices, NEW c \in Connections
      PROVE  ExpectedOf(s, Filter!ToServer(d, c)) = IF c = s.conn THEN Filter!Via(Routes, d) ELSE 0
  <2> DEFINE x == Filter!ToServer(d, c)
  <2>1. x[1] = "toServer" /\ x[2] = d /\ x[3] = c
    BY Tags
  <2>2. (\E f \in Filter!Devices : x = Filter!ToServer(f, s.conn)) <=> c = s.conn
    <3>1. c = s.conn => \E f \in Filter!Devices : x = Filter!ToServer(f, s.conn)
      OBVIOUS
    <3> HIDE DEF x
    <3>2. QED
      BY <2>1, <3>1, Tags
  <2> HIDE DEF x
  <2>3. Redirected(x) = {}
    BY <1>2, <2>1, Tags
  <2>4. /\ x # Filter!Base /\ x # Filter!Through(s.intf) /\ ~(\E a \in s.ports : x = Filter!Input(a[1], a[2]))
        /\ ~(\E n \in s.subnets : \E r \in Filter!RoutesTo(n) : x = Filter!ToSubnet(r, n))
        /\ ~(\E e \in s.open : x = Filter!Exchange(e))
    BY <2>1, Tags
  <2>5. ExpectedOf(s, x) = 0 + (IF c = s.conn THEN Filter!Via(Routes, d) ELSE 0) + 0 + 0 + 0 + 0 + 0
    <3>1. Filter!Cardinality(Redirected(x)) = 0
      BY <1>1, <2>3
    <3> DEFINE via == Filter!Via(Routes, d)
    <3>2. Filter!Via(Routes, x[2]) = via /\ via \in Nat
      BY <1>4, <2>1
    <3> HIDE DEF via
    <3>3. (IF \E f \in Filter!Devices : x = Filter!ToServer(f, s.conn) THEN Filter!Via(Routes, x[2]) ELSE 0)
          = IF c = s.conn THEN via ELSE 0
      BY <2>2, <3>2
    <3>4. ExpectedOf(s, x) = 0 + (IF c = s.conn THEN via ELSE 0) + 0 + 0 + 0 + 0 + 0
      BY <1>3, <2>4, <3>1, <3>3
    <3>5. QED
      BY <3>4 DEF via
  <2>6. QED
    BY <1>4, <2>5 DEF x
<1>6. ASSUME NEW i \in Tunnels PROVE ExpectedOf(s, Filter!Through(i)) = IF i = s.intf THEN 1 ELSE 0
  <2> DEFINE x == Filter!Through(i)
  <2>1. x[1] = "through" /\ (x = Filter!Through(s.intf) <=> i = s.intf)
    BY Tags
  <2> HIDE DEF x
  <2>2. Redirected(x) = {}
    BY <1>2, <2>1, Tags
  <2>3. /\ x # Filter!Base /\ ~(\E d \in Filter!Devices : x = Filter!ToServer(d, s.conn))
        /\ ~(\E a \in s.ports : x = Filter!Input(a[1], a[2]))
        /\ ~(\E n \in s.subnets : \E r \in Filter!RoutesTo(n) : x = Filter!ToSubnet(r, n))
        /\ ~(\E e \in s.open : x = Filter!Exchange(e))
    BY <2>1, Tags
  <2>4. Filter!Cardinality(Redirected(x)) = 0
    BY <1>1, <2>2
  <2>5. ExpectedOf(s, x) = 0 + 0 + (IF i = s.intf THEN 1 ELSE 0) + 0 + 0 + 0 + 0
    BY <1>3, <2>1, <2>3, <2>4
  <2>6. QED
    BY <2>5 DEF x
<1>7. ASSUME NEW r \in Routes, NEW n \in Subnets
      PROVE  ExpectedOf(s, Filter!ToSubnet(r, n)) = IF n \in s.subnets /\ r \in Filter!RoutesTo(n) THEN 1 ELSE 0
  <2> DEFINE x == Filter!ToSubnet(r, n)
  <2>1. x[1] = "toSubnet" /\ x[2] = r /\ x[3] = n
    BY Tags
  <2>2. (\E m \in s.subnets : \E q \in Filter!RoutesTo(m) : x = Filter!ToSubnet(q, m))
        <=> n \in s.subnets /\ r \in Filter!RoutesTo(n)
    <3>1. n \in s.subnets /\ r \in Filter!RoutesTo(n)
          => \E m \in s.subnets : \E q \in Filter!RoutesTo(m) : x = Filter!ToSubnet(q, m)
      OBVIOUS
    <3> HIDE DEF x
    <3>2. QED
      BY <2>1, <3>1, Tags
  <2> HIDE DEF x
  <2>3. Redirected(x) = {}
    BY <1>2, <2>1, Tags
  <2>4. /\ x # Filter!Base /\ ~(\E d \in Filter!Devices : x = Filter!ToServer(d, s.conn))
        /\ x # Filter!Through(s.intf) /\ ~(\E a \in s.ports : x = Filter!Input(a[1], a[2]))
        /\ ~(\E e \in s.open : x = Filter!Exchange(e))
    BY <2>1, Tags
  <2>5. Filter!Cardinality(Redirected(x)) = 0
    BY <1>1, <2>3
  <2>6. ExpectedOf(s, x) = 0 + 0 + 0 + 0 + 0 + (IF n \in s.subnets /\ r \in Filter!RoutesTo(n) THEN 1 ELSE 0) + 0
    BY <1>3, <2>2, <2>4, <2>5
  <2>7. QED
    BY <2>6 DEF x
<1>8. ASSUME NEW e \in Exchanges PROVE ExpectedOf(s, Filter!Exchange(e)) = IF e \in s.open THEN 1 ELSE 0
  <2> DEFINE x == Filter!Exchange(e)
  <2>1. x[1] = "exchange" /\ x[2] = e
    BY Tags
  <2>2. (\E f \in s.open : x = Filter!Exchange(f)) <=> e \in s.open
    BY <2>1, Tags
  <2> HIDE DEF x
  <2>3. Redirected(x) = {}
    BY <1>2, <2>1, Tags
  <2>4. /\ x # Filter!Base /\ ~(\E d \in Filter!Devices : x = Filter!ToServer(d, s.conn))
        /\ x # Filter!Through(s.intf) /\ ~(\E a \in s.ports : x = Filter!Input(a[1], a[2]))
        /\ ~(\E n \in s.subnets : \E r \in Filter!RoutesTo(n) : x = Filter!ToSubnet(r, n))
    BY <2>1, Tags
  <2>5. Filter!Cardinality(Redirected(x)) = 0
    BY <1>1, <2>3
  <2>6. ExpectedOf(s, x) = 0 + 0 + 0 + 0 + 0 + 0 + (IF e \in s.open THEN 1 ELSE 0)
    BY <1>3, <2>2, <2>4, <2>5
  <2>7. QED
    BY <2>6 DEF x
<1>9. ASSUME NEW x \in {Filter!PublicOnly, Filter!Base}
      PROVE  ExpectedOf(s, x) = IF x = Filter!Base THEN 1 ELSE 0
  <2>1. x[1] \in {"publicOnly", "base"}
    BY Tags
  <2>2. Redirected(x) = {}
    BY <1>2, <2>1, Tags
  <2>3. /\ ~(\E d \in Filter!Devices : x = Filter!ToServer(d, s.conn))
        /\ x # Filter!Through(s.intf) /\ ~(\E a \in s.ports : x = Filter!Input(a[1], a[2]))
        /\ ~(\E n \in s.subnets : \E r \in Filter!RoutesTo(n) : x = Filter!ToSubnet(r, n))
        /\ ~(\E e \in s.open : x = Filter!Exchange(e))
    BY <2>1, Tags
  <2>4. Filter!Cardinality(Redirected(x)) = 0
    BY <1>1, <2>2
  <2>5. QED
    BY <1>3, <2>3, <2>4
<1>10. Filter!PublicOnly # Filter!Base
  BY Tags
<1>11. \A a \in s.redirs : a = <<a[1], a[2], a[3]>>
  BY DEF FireStates
<1>12. ASSUME NEW i \in Intfs, NEW p \in Ports \cup {0}
       PROVE  ExpectedOf(s, Filter!Input(i, p)) =
                (IF <<i, p>> \in s.ports THEN 1 ELSE 0) + Filter!Cardinality(RedirsTo(s, i, p))
  <2> DEFINE x == Filter!Input(i, p)
  <2>1. x[1] = "input" /\ x[2] = i /\ x[3] = p
    BY Tags
  <2>2. (\E a \in s.ports : x = Filter!Input(a[1], a[2])) <=> <<i, p>> \in s.ports
    <3>1. \A a \in s.ports : a = <<a[1], a[2]>>
      BY DEF FireStates
    <3>2. <<i, p>> \in s.ports => \E a \in s.ports : x = Filter!Input(a[1], a[2])
      BY DEF x
    <3> HIDE DEF x
    <3>3. QED
      BY <2>1, <3>1, <3>2, Tags
  <2>3. \A j, q : Filter!Input(j, q) = x <=> j = i /\ q = p
    BY Tags
  <2> HIDE DEF x
  <2>4. \A a : x \in Filter!RedirectPortRules(a[1], a[2], a[3]) <=> a[1] = i /\ a[3] = p
    <3>1. \A j, q, o : x # Filter!Redirect(j, q, o)
      BY <2>1, Tags
    <3>2. QED
      BY <2>3, <3>1 DEF Filter!RedirectPortRules
  <2>5. Redirected(x) = RedirsTo(s, i, p)
    BY <2>4 DEF Redirected, RedirsTo
  <2>6. /\ x # Filter!Base /\ ~(\E d \in Filter!Devices : x = Filter!ToServer(d, s.conn))
        /\ x # Filter!Through(s.intf)
        /\ ~(\E n \in s.subnets : \E r \in Filter!RoutesTo(n) : x = Filter!ToSubnet(r, n))
        /\ ~(\E e \in s.open : x = Filter!Exchange(e))
    BY <2>1, Tags
  <2>7. Filter!Cardinality(RedirsTo(s, i, p)) \in Nat
    <3>1. IsFiniteSet(RedirsTo(s, i, p))
      BY FS_Subset DEF RedirsTo
    <3>2. QED
      BY <3>1, FS_CardinalityType, FireCardinality
  <2>8. ExpectedOf(s, x) = 0 + 0 + 0 + (IF <<i, p>> \in s.ports THEN 1 ELSE 0)
                           + Filter!Cardinality(RedirsTo(s, i, p)) + 0 + 0
    BY <1>3, <2>2, <2>5, <2>6
  <2>9. QED
    BY <2>7, <2>8 DEF x
<1>13. ASSUME NEW i \in Tunnels, NEW p \in Ports, NEW q \in Ports \cup {0}
       PROVE  ExpectedOf(s, Filter!Redirect(i, p, q)) = IF <<i, p, q>> \in s.redirs THEN 1 ELSE 0
  <2> DEFINE x == Filter!Redirect(i, p, q)
  <2>1. x[1] = "redirect"
    BY Tags
  <2>2. \A j, o, m : Filter!Redirect(j, o, m) = x <=> j = i /\ o = p /\ m = q
    BY Tags
  <2> HIDE DEF x
  <2>3. \A a : x \in Filter!RedirectPortRules(a[1], a[2], a[3]) <=> a[1] = i /\ a[2] = p /\ a[3] = q
    <3>1. \A j, o : x # Filter!Input(j, o)
      BY <2>1, Tags
    <3>2. QED
      BY <2>2, <3>1 DEF Filter!RedirectPortRules
  <2>4. Redirected(x) = IF <<i, p, q>> \in s.redirs THEN {<<i, p, q>>} ELSE {}
    <3>1. \A a \in s.redirs : a \in Redirected(x) <=> a = <<i, p, q>>
      BY <1>11, <2>3 DEF Redirected
    <3>2. Redirected(x) \subseteq s.redirs
      BY DEF Redirected
    <3>3. QED
      BY <3>1, <3>2
  <2>5. Filter!Cardinality(Redirected(x)) = IF <<i, p, q>> \in s.redirs THEN 1 ELSE 0
    BY <1>1, <2>4, FS_Singleton, FireCardinality
  <2>6. /\ x # Filter!Base /\ ~(\E d \in Filter!Devices : x = Filter!ToServer(d, s.conn))
        /\ x # Filter!Through(s.intf) /\ ~(\E a \in s.ports : x = Filter!Input(a[1], a[2]))
        /\ ~(\E n \in s.subnets : \E r \in Filter!RoutesTo(n) : x = Filter!ToSubnet(r, n))
        /\ ~(\E e \in s.open : x = Filter!Exchange(e))
    BY <2>1, Tags
  <2>7. QED
    BY <1>3, <2>5, <2>6 DEF x
<1>14. QED
  BY <1>5, <1>6, <1>7, <1>8, <1>9, <1>10, <1>12, <1>13

LEMMA NotAsked == \A s, x : ~s.on => ExpectedOf(s, x) = 0
BY DEF ExpectedOf

-----------------------------------------------------------------------------
(* The copies of rules that nobody asked for.                                *)
Extra(s) == UNION {{x} \X (1 .. s.rules[x] - ExpectedOf(s, x)) : x \in Filter!Rule}

(* Nothing is set while the firewall is off, and a port of an interface is   *)
(* redirected to one other at most.                                          *)
FireShape(s) ==
    /\ s \in FireStates /\ IsFiniteSet(s.redirs)
    /\ ~s.on => /\ s.conn = Filter!None /\ s.intf = Filter!None /\ s.subnets = {} /\ s.ports = {}
                /\ s.redirs = {} /\ s.open = {} /\ \A x \in Filter!Rule : s.rules[x] = 0
    /\ \A a, b \in s.redirs : a[1] = b[1] /\ a[2] = b[2] => a = b

FireRight(s) ==
    /\ FireShape(s) /\ IsFiniteSet(Extra(s))
    /\ \A x \in Filter!Rule : s.rules[x] >= ExpectedOf(s, x)

(* From one state to the next, at most the copies of D are in excess.        *)
MoreBy(s, t, D) ==
    \A x \in Filter!Rule :
      /\ t.rules[x] >= ExpectedOf(t, x)
      /\ \A k \in 1 .. t.rules[x] - ExpectedOf(t, x) : k \in 1 .. s.rules[x] - ExpectedOf(s, x) \/ <<x, k>> \in D

LEMMA AskedNat == ASSUME NEW s, FireShape(s), NEW x \in Filter!Rule PROVE ExpectedOf(s, x) \in Nat /\ s.rules[x] \in Nat
<1>1. s \in FireStates /\ IsFiniteSet(s.redirs) /\ s.rules[x] \in Nat
  BY DEF FireShape, FireStates
<1>2. \A i, p : Filter!Cardinality(RedirsTo(s, i, p)) \in Nat
  <2>1. ASSUME NEW i, NEW p PROVE Filter!Cardinality(RedirsTo(s, i, p)) \in Nat
    <3>1. IsFiniteSet(RedirsTo(s, i, p))
      BY <1>1, FS_Subset DEF RedirsTo
    <3>2. QED
      BY <3>1, FS_CardinalityType, FireCardinality
  <2>2. QED
    BY <2>1
<1>3. \A d : Filter!Via(Routes, d) \in Nat
  BY ViaIs
<1>4. CASE ~s.on
  BY <1>1, <1>4, NotAsked
<1>5. CASE s.on
  <2>1. CASE \E d \in Filter!Devices, c \in Connections : x = Filter!ToServer(d, c)
    BY <1>1, <1>3, <1>5, <2>1, Asked
  <2>2. CASE \E i \in Intfs, p \in Ports \cup {0} : x = Filter!Input(i, p)
    <3>1. PICK i \in Intfs, p \in Ports \cup {0} : x = Filter!Input(i, p)
      BY <2>2
    <3> DEFINE n == Filter!Cardinality(RedirsTo(s, i, p))
    <3>2. ExpectedOf(s, x) = (IF <<i, p>> \in s.ports THEN 1 ELSE 0) + n /\ n \in Nat
      BY <1>1, <1>2, <1>5, <3>1, Asked
    <3> HIDE DEF n
    <3>3. QED
      BY <1>1, <3>2
  <2>3. CASE \/ \E i \in Tunnels : x = Filter!Through(i)
             \/ \E i \in Tunnels, p \in Ports, q \in Ports \cup {0} : x = Filter!Redirect(i, p, q)
             \/ \E r \in Routes, n \in Subnets : x = Filter!ToSubnet(r, n)
             \/ \E e \in Exchanges : x = Filter!Exchange(e)
             \/ x = Filter!PublicOnly
             \/ x = Filter!Base
    <3>1. /\ \A i \in Tunnels : ExpectedOf(s, Filter!Through(i)) \in {0, 1}
          /\ \A i \in Tunnels, p \in Ports, q \in Ports \cup {0} : ExpectedOf(s, Filter!Redirect(i, p, q)) \in {0, 1}
          /\ \A r \in Routes, n \in Subnets : ExpectedOf(s, Filter!ToSubnet(r, n)) \in {0, 1}
          /\ \A e \in Exchanges : ExpectedOf(s, Filter!Exchange(e)) \in {0, 1}
          /\ ExpectedOf(s, Filter!PublicOnly) \in {0, 1} /\ ExpectedOf(s, Filter!Base) \in {0, 1}
      BY <1>1, <1>5, Asked
    <3>2. ExpectedOf(s, x) \in {0, 1}
      BY <2>3, <3>1
    <3>3. QED
      BY <1>1, <3>2
  <2>4. QED
    BY <2>1, <2>2, <2>3, Kinds
<1>6. QED
  BY <1>4, <1>5

LEMMA Grows ==
  ASSUME NEW s, FireRight(s), NEW t, FireShape(t), NEW D, IsFiniteSet(D), MoreBy(s, t, D)
  PROVE  FireRight(t) /\ Cardinality(Extra(t)) <= Cardinality(Extra(s)) + Cardinality(D)
<1>1. Extra(t) \subseteq Extra(s) \cup D
  BY DEF Extra, MoreBy
<1>2. IsFiniteSet(Extra(s) \cup D)
      /\ Cardinality(Extra(s) \cup D) = Cardinality(Extra(s)) + Cardinality(D) - Cardinality(Extra(s) \cap D)
  BY FS_Union DEF FireRight
<1>3. IsFiniteSet(Extra(s)) /\ IsFiniteSet(Extra(s) \cap D)
  BY FS_Subset DEF FireRight
<1>4. IsFiniteSet(Extra(t)) /\ Cardinality(Extra(t)) <= Cardinality(Extra(s) \cup D)
  BY <1>1, <1>2, FS_Subset
<1>5. /\ Cardinality(Extra(t)) \in Nat /\ Cardinality(Extra(s)) \in Nat /\ Cardinality(D) \in Nat
      /\ Cardinality(Extra(s) \cap D) \in Nat
  BY <1>3, <1>4, FS_CardinalityType
<1>6. Cardinality(Extra(t)) <= Cardinality(Extra(s)) + Cardinality(D)
  BY <1>2, <1>4, <1>5
<1>7. FireRight(t)
  BY <1>4 DEF FireRight, MoreBy
<1>8. QED
  BY <1>6, <1>7

(* One copy more of each rule of a set.                                      *)
OneMore(s, X) == {<<x, s.rules[x] - ExpectedOf(s, x) + 1>> : x \in X}

LEMMA OneMoreIs ==
  ASSUME NEW s, NEW X, IsFiniteSet(X)
  PROVE  IsFiniteSet(OneMore(s, X)) /\ Cardinality(OneMore(s, X)) <= Cardinality(X)
<1> DEFINE f == [x \in X |-> <<x, s.rules[x] - ExpectedOf(s, x) + 1>>]
<1>1. f \in Surjection(X, OneMore(s, X))
  BY DEF OneMore, Surjection
<1>2. QED
  BY <1>1, FS_Surjection

(* What the kernel has of a rule follows what is asked for, but for the      *)
(* rules of a set, of which it may have one copy more.                       *)
Follows(s, t, x) ==
    \/ t.rules[x] = s.rules[x] /\ ExpectedOf(t, x) = ExpectedOf(s, x)
    \/ t.rules[x] = s.rules[x] + 1 /\ ExpectedOf(t, x) = ExpectedOf(s, x) + 1
    \/ t.rules[x] = s.rules[x] - 1 /\ ExpectedOf(t, x) = ExpectedOf(s, x) - 1

Lags(s, t, x) ==
    \/ t.rules[x] = s.rules[x] /\ ExpectedOf(t, x) = ExpectedOf(s, x) - 1
    \/ t.rules[x] = s.rules[x] + 1 /\ ExpectedOf(t, x) = ExpectedOf(s, x)

KeptBut(s, t, n) == FireRight(t) /\ Cardinality(Extra(t)) <= Cardinality(Extra(s)) + n

LEMMA Keeps ==
  ASSUME NEW s, FireRight(s), NEW t, FireShape(t), NEW X, IsFiniteSet(X),
         \A x \in Filter!Rule : Follows(s, t, x) \/ (x \in X /\ Lags(s, t, x))
  PROVE  KeptBut(s, t, Cardinality(X))
<1>1. MoreBy(s, t, OneMore(s, X))
  <2>1. ASSUME NEW x \in Filter!Rule
        PROVE  /\ t.rules[x] >= ExpectedOf(t, x)
               /\ \A k \in 1 .. t.rules[x] - ExpectedOf(t, x) :
                    \/ k \in 1 .. s.rules[x] - ExpectedOf(s, x)
                    \/ <<x, k>> \in OneMore(s, X)
    <3>1. s.rules[x] \in Nat /\ ExpectedOf(s, x) \in Nat /\ s.rules[x] >= ExpectedOf(s, x)
      BY AskedNat DEF FireRight
    <3>2. CASE x \in X
      <4>1. <<x, s.rules[x] - ExpectedOf(s, x) + 1>> \in OneMore(s, X)
        BY <3>2 DEF OneMore
      <4>2. /\ t.rules[x] >= ExpectedOf(t, x)
            /\ \A k \in 1 .. t.rules[x] - ExpectedOf(t, x) :
                 k \in 1 .. s.rules[x] - ExpectedOf(s, x) \/ k = s.rules[x] - ExpectedOf(s, x) + 1
        BY <3>1 DEF Follows, Lags
      <4>3. QED
        BY <4>1, <4>2
    <3>3. CASE x \notin X
      BY <3>1, <3>3 DEF Follows
    <3>4. QED
      BY <3>2, <3>3
  <2>2. QED
    BY <2>1 DEF MoreBy
<1>2. IsFiniteSet(OneMore(s, X)) /\ Cardinality(OneMore(s, X)) <= Cardinality(X)
  BY OneMoreIs
<1>3. FireRight(t) /\ Cardinality(Extra(t)) <= Cardinality(Extra(s)) + Cardinality(OneMore(s, X))
  BY <1>1, <1>2, Grows
<1>4. /\ Cardinality(Extra(s)) \in Nat /\ Cardinality(X) \in Nat /\ Cardinality(OneMore(s, X)) \in Nat
      /\ Cardinality(Extra(t)) \in Nat
  BY <1>2, <1>3, FS_CardinalityType DEF FireRight
<1>5. QED
  BY <1>2, <1>3, <1>4 DEF KeptBut

LEMMA KeepsAll ==
  ASSUME NEW s, FireRight(s), NEW t, FireShape(t), \A x \in Filter!Rule : Follows(s, t, x)
  PROVE  KeptBut(s, t, 0)
<1>1. IsFiniteSet({}) /\ Cardinality({}) = 0
  BY FS_EmptySet
<1> DEFINE none == {}
<1>2. \A x \in Filter!Rule : Follows(s, t, x) \/ (x \in none /\ Lags(s, t, x))
  OBVIOUS
<1>3. IsFiniteSet(none) /\ Cardinality(none) = 0
  BY <1>1
<1> HIDE DEF none
<1>4. KeptBut(s, t, Cardinality(none))
  BY <1>2, <1>3, Keeps
<1>5. QED
  BY <1>3, <1>4

LEMMA KeptThenKept ==
  ASSUME NEW s, FireRight(s), NEW t, NEW u, NEW m \in Nat, NEW n \in Nat, KeptBut(s, t, m), KeptBut(t, u, n)
  PROVE  KeptBut(s, u, m + n)
<1>1. /\ Cardinality(Extra(s)) \in Nat /\ Cardinality(Extra(t)) \in Nat
      /\ Cardinality(Extra(u)) \in Nat
  BY FS_CardinalityType DEF KeptBut, FireRight
<1>2. QED
  BY <1>1 DEF KeptBut

LEMMA BagsAre ==
  ASSUME NEW b \in [Filter!Rule -> Nat], NEW R
  PROVE  /\ LET t == Filter!Append(b, R)
            IN  /\ t \in [Filter!Rule -> Nat]
                /\ \A x \in Filter!Rule : t[x] = IF x \in R THEN b[x] + 1 ELSE b[x]
         /\ LET t == Filter!deleteIPTablesRule(b, R)
            IN  /\ t \in [Filter!Rule -> Nat]
                /\ \A x \in Filter!Rule : t[x] = IF x \in R /\ b[x] > 0 THEN b[x] - 1 ELSE b[x]
BY DEF Filter!Append, Filter!deleteIPTablesRule

(* What is asked for of a kind of rules depends on one part of the state.    *)
LEMMA AskedSame ==
  ASSUME NEW s, NEW t, FireShape(s), FireShape(t), s.on, t.on, NEW x \in Filter!Rule
  PROVE  /\ x[1] = "toServer" /\ t.conn = s.conn => ExpectedOf(t, x) = ExpectedOf(s, x)
         /\ x[1] = "through" /\ t.intf = s.intf => ExpectedOf(t, x) = ExpectedOf(s, x)
         /\ x[1] = "input" /\ t.ports = s.ports /\ t.redirs = s.redirs => ExpectedOf(t, x) = ExpectedOf(s, x)
         /\ x[1] = "redirect" /\ t.redirs = s.redirs => ExpectedOf(t, x) = ExpectedOf(s, x)
         /\ x[1] = "toSubnet" /\ t.subnets = s.subnets => ExpectedOf(t, x) = ExpectedOf(s, x)
         /\ x[1] = "exchange" /\ t.open = s.open => ExpectedOf(t, x) = ExpectedOf(s, x)
         /\ x[1] \in {"publicOnly", "base"} => ExpectedOf(t, x) = ExpectedOf(s, x)
         /\ x[1] \in {"toServer", "through", "input", "redirect", "toSubnet", "exchange", "publicOnly", "base"}
<1>1. s \in FireStates /\ t \in FireStates /\ IsFiniteSet(s.redirs) /\ IsFiniteSet(t.redirs)
  BY DEF FireShape
<1>2. CASE \E d \in Filter!Devices, c \in Connections : x = Filter!ToServer(d, c)
  BY <1>1, <1>2, Asked, Tags
<1>3. CASE \E i \in Tunnels : x = Filter!Through(i)
  BY <1>1, <1>3, Asked, Tags
<1>4. CASE \E i \in Intfs, p \in Ports \cup {0} : x = Filter!Input(i, p)
  <2>1. PICK i \in Intfs, p \in Ports \cup {0} : x = Filter!Input(i, p)
    BY <1>4
  <2> DEFINE m == Filter!Cardinality(RedirsTo(s, i, p))
             n == Filter!Cardinality(RedirsTo(t, i, p))
  <2>2. t.redirs = s.redirs => m = n
    BY DEF RedirsTo
  <2>3. /\ ExpectedOf(s, x) = (IF <<i, p>> \in s.ports THEN 1 ELSE 0) + m
        /\ ExpectedOf(t, x) = (IF <<i, p>> \in t.ports THEN 1 ELSE 0) + n
    BY <1>1, <2>1, Asked
  <2>4. x[1] = "input"
    BY <2>1, Tags
  <2> HIDE DEF m, n
  <2>5. QED
    BY <2>2, <2>3, <2>4
<1>5. CASE \E i \in Tunnels, p \in Ports, q \in Ports \cup {0} : x = Filter!Redirect(i, p, q)
  <2>1. PICK i \in Tunnels, p \in Ports, q \in Ports \cup {0} : x = Filter!Redirect(i, p, q)
    BY <1>5
  <2>2. /\ ExpectedOf(s, x) = IF <<i, p, q>> \in s.redirs THEN 1 ELSE 0
        /\ ExpectedOf(t, x) = IF <<i, p, q>> \in t.redirs THEN 1 ELSE 0
    BY <1>1, <2>1, Asked
  <2>3. x[1] = "redirect"
    BY <2>1, Tags
  <2>4. QED
    BY <2>2, <2>3
<1>6. CASE \E r \in Routes, n \in Subnets : x = Filter!ToSubnet(r, n)
  BY <1>1, <1>6, Asked, Tags
<1>7. CASE \E e \in Exchanges : x = Filter!Exchange(e)
  BY <1>1, <1>7, Asked, Tags
<1>8. CASE x = Filter!PublicOnly \/ x = Filter!Base
  BY <1>1, <1>8, Asked, Tags
<1>9. QED
  BY <1>2, <1>3, <1>4, <1>5, <1>6, <1>7, <1>8, Kinds

-----------------------------------------------------------------------------
(* The steps, as changes of the record.                                      *)
Reachable(s) == FireRight(s) /\ s.on

LEMMA FireAllowPort ==
  ASSUME NEW s, Reachable(s), NEW i \in Intfs, NEW p \in Ports, <<i, p>> \notin s.ports
  PROVE  KeptBut(s, [s EXCEPT !.rules = Filter!Append(s.rules, {Filter!Input(i, p)}),
                              !.ports = s.ports \cup {<<i, p>>}], 0)
<1> DEFINE ruled == Filter!Append(s.rules, {Filter!Input(i, p)})
           ports == s.ports \cup {<<i, p>>}
           t == [s EXCEPT !.rules = ruled, !.ports = ports]
<1>1. s \in FireStates /\ FireShape(s) /\ s.on /\ s.rules \in [Filter!Rule -> Nat] /\ IsFiniteSet(s.redirs)
  BY DEF Reachable, FireRight, FireShape, FireStates
<1>2. /\ ruled \in [Filter!Rule -> Nat]
      /\ \A x \in Filter!Rule : ruled[x] = IF x = Filter!Input(i, p) THEN s.rules[x] + 1 ELSE s.rules[x]
  BY <1>1, BagsAre
<1>3. ports \in SUBSET (Intfs \X Ports) /\ \A a : a \in ports <=> a \in s.ports \/ a = <<i, p>>
  BY <1>1 DEF FireStates
<1> HIDE DEF ruled, ports
<1>4. /\ t \in FireStates /\ t.rules = ruled /\ t.ports = ports /\ t.on /\ t.conn = s.conn /\ t.intf = s.intf
      /\ t.subnets = s.subnets /\ t.redirs = s.redirs /\ t.open = s.open
  BY <1>1, <1>2, <1>3 DEF FireStates
<1> HIDE DEF t
<1>5. FireShape(t)
  BY <1>1, <1>4 DEF FireShape
<1>6. ASSUME NEW x \in Filter!Rule PROVE Follows(s, t, x)
  <2>1. CASE x[1] # "input"
    <3>1. ExpectedOf(t, x) = ExpectedOf(s, x)
      BY <1>1, <1>4, <1>5, <2>1, AskedSame
    <3>2. x # Filter!Input(i, p)
      BY <2>1, Tags
    <3>3. QED
      BY <1>2, <1>4, <3>1, <3>2 DEF Follows
  <2>2. CASE x[1] = "input"
    <3>1. PICK j \in Intfs, q \in Ports \cup {0} : x = Filter!Input(j, q)
      BY <2>2, Kinds, Tags
    <3> DEFINE n == Filter!Cardinality(RedirsTo(s, j, q))
    <3>2. RedirsTo(t, j, q) = RedirsTo(s, j, q)
      BY <1>4 DEF RedirsTo
    <3>3. /\ ExpectedOf(s, x) = (IF <<j, q>> \in s.ports THEN 1 ELSE 0) + n
          /\ ExpectedOf(t, x) = (IF <<j, q>> \in t.ports THEN 1 ELSE 0) + n
      BY <1>1, <1>4, <3>1, <3>2, Asked
    <3>4. x = Filter!Input(i, p) <=> j = i /\ q = p
      BY <3>1, Tags
    <3>5. s.rules[x] \in Nat /\ ExpectedOf(s, x) \in Nat /\ n \in Nat
      <4>1. IsFiniteSet(RedirsTo(s, j, q))
        BY <1>1, FS_Subset DEF RedirsTo
      <4>2. QED
        BY <1>1, <4>1, FS_CardinalityType, FireCardinality, AskedNat
    <3> HIDE DEF n
    <3>6. CASE x = Filter!Input(i, p)
      BY <1>2, <1>3, <1>4, <3>3, <3>4, <3>5, <3>6 DEF Follows
    <3>7. CASE x # Filter!Input(i, p)
      <4>1. <<j, q>> \in t.ports <=> <<j, q>> \in s.ports
        BY <1>3, <1>4, <3>4, <3>7
      <4>2. QED
        BY <1>2, <1>4, <3>3, <3>7, <4>1 DEF Follows
    <3>8. QED
      BY <3>6, <3>7
  <2>3. QED
    BY <2>1, <2>2
<1>7. KeptBut(s, t, 0)
  BY <1>5, <1>6, KeepsAll DEF Reachable
<1>8. QED
  BY <1>7 DEF t, ruled, ports

LEMMA RedirsToIs ==
  ASSUME NEW s, FireShape(s), NEW j, NEW r
  PROVE  IsFiniteSet(RedirsTo(s, j, r)) /\ Filter!Cardinality(RedirsTo(s, j, r)) \in Nat
<1>1. IsFiniteSet(RedirsTo(s, j, r))
  BY FS_Subset DEF RedirsTo, FireShape
<1>2. QED
  BY <1>1, FS_CardinalityType, FireCardinality

LEMMA FireRemovePorts ==
  ASSUME NEW s, Reachable(s), NEW p \in Ports, NEW done \in SUBSET Intfs, \A i \in done : <<i, p>> \in s.ports
  PROVE  KeptBut(s, [s EXCEPT !.rules = Filter!deleteIPTablesRule(s.rules, {Filter!Input(i, p) : i \in done}),
                              !.ports = s.ports \ {<<i, p>> : i \in done}], 0)
<1> DEFINE ruled == Filter!deleteIPTablesRule(s.rules, {Filter!Input(i, p) : i \in done})
           ports == s.ports \ {<<i, p>> : i \in done}
           t == [s EXCEPT !.rules = ruled, !.ports = ports]
<1>1. s \in FireStates /\ FireShape(s) /\ s.on /\ s.rules \in [Filter!Rule -> Nat] /\ IsFiniteSet(s.redirs)
  BY DEF Reachable, FireRight, FireShape, FireStates
<1>2. /\ ruled \in [Filter!Rule -> Nat]
      /\ \A x \in Filter!Rule : ruled[x] = IF x \in {Filter!Input(i, p) : i \in done} /\ s.rules[x] > 0
                                           THEN s.rules[x] - 1 ELSE s.rules[x]
  BY <1>1, BagsAre
<1>3. /\ ports \in SUBSET (Intfs \X Ports)
      /\ \A j, q : <<j, q>> \in ports <=> <<j, q>> \in s.ports /\ ~(j \in done /\ q = p)
  BY <1>1 DEF FireStates
<1> HIDE DEF ruled, ports
<1>4. /\ t \in FireStates /\ t.rules = ruled /\ t.ports = ports /\ t.on /\ t.conn = s.conn /\ t.intf = s.intf
      /\ t.subnets = s.subnets /\ t.redirs = s.redirs /\ t.open = s.open
  BY <1>1, <1>2, <1>3 DEF FireStates
<1> HIDE DEF t
<1>5. FireShape(t)
  BY <1>1, <1>4 DEF FireShape
<1>6. ASSUME NEW x \in Filter!Rule PROVE Follows(s, t, x)
  <2>1. CASE x[1] # "input"
    <3>1. ExpectedOf(t, x) = ExpectedOf(s, x)
      BY <1>1, <1>4, <1>5, <2>1, AskedSame
    <3>2. x \notin {Filter!Input(i, p) : i \in done}
      BY <2>1, Tags
    <3>3. QED
      BY <1>2, <1>4, <3>1, <3>2 DEF Follows
  <2>2. CASE x[1] = "input"
    <3>1. PICK j \in Intfs, q \in Ports \cup {0} : x = Filter!Input(j, q)
      BY <2>2, Kinds, Tags
    <3> DEFINE n == Filter!Cardinality(RedirsTo(s, j, q))
    <3>2. RedirsTo(t, j, q) = RedirsTo(s, j, q)
      BY <1>4 DEF RedirsTo
    <3>3. /\ ExpectedOf(s, x) = (IF <<j, q>> \in s.ports THEN 1 ELSE 0) + n
          /\ ExpectedOf(t, x) = (IF <<j, q>> \in t.ports THEN 1 ELSE 0) + n
      BY <1>1, <1>4, <3>1, <3>2, Asked
    <3>4. x \in {Filter!Input(i, p) : i \in done} <=> j \in done /\ q = p
      BY <3>1, Tags
    <3>5. s.rules[x] \in Nat /\ ExpectedOf(s, x) \in Nat /\ n \in Nat /\ s.rules[x] >= ExpectedOf(s, x)
      BY <1>1, AskedNat, RedirsToIs DEF Reachable, FireRight
    <3> HIDE DEF n
    <3>6. CASE j \in done /\ q = p
      <4>1. <<j, q>> \in s.ports /\ <<j, q>> \notin t.ports
        BY <1>3, <1>4, <3>6
      <4>2. ExpectedOf(s, x) = 1 + n /\ ExpectedOf(t, x) = n
        BY <3>3, <3>5, <4>1
      <4>3. QED
        BY <1>2, <1>4, <3>4, <3>5, <3>6, <4>2 DEF Follows
    <3>7. CASE ~(j \in done /\ q = p)
      <4>1. <<j, q>> \in t.ports <=> <<j, q>> \in s.ports
        BY <1>3, <1>4, <3>7
      <4>2. QED
        BY <1>2, <1>4, <3>3, <3>4, <3>7, <4>1 DEF Follows
    <3>8. QED
      BY <3>6, <3>7
  <2>3. QED
    BY <2>1, <2>2
<1>7. KeptBut(s, t, 0)
  BY <1>5, <1>6, KeepsAll DEF Reachable
<1>8. QED
  BY <1>7 DEF t, ruled, ports

LEMMA FireRedirect ==
  ASSUME NEW s, Reachable(s), NEW i \in Tunnels, NEW p \in Ports, NEW q \in Ports \cup {0},
         \A a \in s.redirs : ~(a[1] = i /\ a[2] = p)
  PROVE  KeptBut(s, [s EXCEPT !.rules = Filter!Append(s.rules, Filter!RedirectPortRules(i, p, q)),
                              !.redirs = s.redirs \cup {<<i, p, q>>}], 0)
<1> DEFINE ruled == Filter!Append(s.rules, Filter!RedirectPortRules(i, p, q))
           redirs == s.redirs \cup {<<i, p, q>>}
           t == [s EXCEPT !.rules = ruled, !.redirs = redirs]
<1>1. s \in FireStates /\ FireShape(s) /\ s.on /\ s.rules \in [Filter!Rule -> Nat] /\ IsFiniteSet(s.redirs)
  BY DEF Reachable, FireRight, FireShape, FireStates
<1>2. /\ ruled \in [Filter!Rule -> Nat]
      /\ \A x \in Filter!Rule : ruled[x] = IF x = Filter!Redirect(i, p, q) \/ x = Filter!Input(i, q)
                                           THEN s.rules[x] + 1 ELSE s.rules[x]
  BY <1>1, BagsAre DEF Filter!RedirectPortRules
<1>3. <<i, p, q>> \notin s.redirs
  OBVIOUS
<1>4. redirs \in SUBSET (Tunnels \X Ports \X (Ports \cup {0})) /\ IsFiniteSet(redirs)
  <2>1. IsFiniteSet(redirs)
    BY <1>1, FS_AddElement
  <2>2. s.redirs \in SUBSET (Tunnels \X Ports \X (Ports \cup {0}))
    BY <1>1 DEF FireStates
  <2>3. <<i, p, q>> \in Tunnels \X Ports \X (Ports \cup {0})
    OBVIOUS
  <2>4. QED
    BY <2>1, <2>2, <2>3
<1>5. \A a, b \in redirs : a[1] = b[1] /\ a[2] = b[2] => a = b
  BY <1>1 DEF FireShape
<1>6. \A a : a \in redirs <=> a \in s.redirs \/ a = <<i, p, q>>
  OBVIOUS
<1> HIDE DEF ruled, redirs
<1>7. /\ t \in FireStates /\ t.rules = ruled /\ t.redirs = redirs /\ t.on /\ t.conn = s.conn /\ t.intf = s.intf
      /\ t.subnets = s.subnets /\ t.ports = s.ports /\ t.open = s.open
  BY <1>1, <1>2, <1>4 DEF FireStates
<1> HIDE DEF t
<1>8. FireShape(t)
  BY <1>1, <1>4, <1>5, <1>7 DEF FireShape
<1>9. ASSUME NEW x \in Filter!Rule PROVE Follows(s, t, x)
  <2>1. CASE x[1] # "input" /\ x[1] # "redirect"
    <3>1. ExpectedOf(t, x) = ExpectedOf(s, x)
      BY <1>1, <1>7, <1>8, <2>1, AskedSame
    <3>2. x # Filter!Redirect(i, p, q) /\ x # Filter!Input(i, q)
      BY <2>1, Tags
    <3>3. QED
      BY <1>2, <1>7, <3>1, <3>2 DEF Follows
  <2>2. CASE x[1] = "input"
    <3>1. PICK j \in Intfs, r \in Ports \cup {0} : x = Filter!Input(j, r)
      BY <2>2, Kinds, Tags
    <3> DEFINE n == Filter!Cardinality(RedirsTo(s, j, r))
               m == Filter!Cardinality(RedirsTo(t, j, r))
               here == IF <<j, r>> \in s.ports THEN 1 ELSE 0
    <3>2. here \in {0, 1} /\ ExpectedOf(s, x) = here + n /\ ExpectedOf(t, x) = here + m
      BY <1>1, <1>4, <1>7, <3>1, Asked
    <3>3. x # Filter!Redirect(i, p, q) /\ (x = Filter!Input(i, q) <=> j = i /\ r = q)
      BY <2>2, <3>1, Tags
    <3>4. s.rules[x] \in Nat /\ n \in Nat
      BY <1>1, RedirsToIs, AskedNat
    <3>5. m = IF j = i /\ r = q THEN n + 1 ELSE n
      <4>1. CASE j = i /\ r = q
        <5>1. RedirsTo(t, j, r) = RedirsTo(s, j, r) \cup {<<i, p, q>>}
          BY <1>6, <1>7, <4>1 DEF RedirsTo
        <5>2. <<i, p, q>> \notin RedirsTo(s, j, r)
          BY <1>3 DEF RedirsTo
        <5>3. QED
          <6> DEFINE before == RedirsTo(s, j, r)
          <6>1. IsFiniteSet(before)
            BY <1>1, RedirsToIs
          <6> HIDE DEF before
          <6>2. Cardinality(before \cup {<<i, p, q>>}) = Cardinality(before) + 1
            BY <5>2, <6>1, FS_AddElement DEF before
          <6>3. QED
            BY <4>1, <5>1, <6>2, FireCardinality DEF before
      <4>2. CASE ~(j = i /\ r = q)
        <5>1. RedirsTo(t, j, r) = RedirsTo(s, j, r)
          BY <1>6, <1>7, <4>2 DEF RedirsTo
        <5>2. QED
          BY <4>2, <5>1
      <4>3. QED
        BY <4>1, <4>2
    <3> HIDE DEF n, m, here
    <3>6. QED
      BY <1>2, <1>7, <3>2, <3>3, <3>4, <3>5 DEF Follows
  <2>3. CASE x[1] = "redirect"
    <3>1. PICK j \in Tunnels, o \in Ports, r \in Ports \cup {0} : x = Filter!Redirect(j, o, r)
      BY <2>3, Kinds, Tags
    <3>2. x # Filter!Input(i, q) /\ (x = Filter!Redirect(i, p, q) <=> <<j, o, r>> = <<i, p, q>>)
      BY <2>3, <3>1, Tags
    <3>3. /\ ExpectedOf(s, x) = IF <<j, o, r>> \in s.redirs THEN 1 ELSE 0
          /\ ExpectedOf(t, x) = IF <<j, o, r>> \in redirs THEN 1 ELSE 0
      BY <1>1, <1>4, <1>7, <3>1, Asked
    <3>4. CASE <<j, o, r>> = <<i, p, q>>
      BY <1>2, <1>3, <1>6, <1>7, <3>2, <3>3, <3>4 DEF Follows
    <3>5. CASE <<j, o, r>> # <<i, p, q>>
      BY <1>2, <1>6, <1>7, <3>2, <3>3, <3>5 DEF Follows
    <3>6. QED
      BY <3>4, <3>5
  <2>4. QED
    BY <2>1, <2>2, <2>3
<1>10. KeptBut(s, t, 0)
  BY <1>8, <1>9, KeepsAll DEF Reachable
<1>11. QED
  BY <1>10 DEF t, ruled, redirs

LEMMA FireUnredirect ==
  ASSUME NEW s, Reachable(s), NEW i \in Tunnels, NEW p \in Ports, NEW q \in Ports \cup {0},
         <<i, p, q>> \in s.redirs
  PROVE  KeptBut(s, [s EXCEPT !.rules = Filter!deleteIPTablesRule(s.rules, Filter!RedirectPortRules(i, p, q)),
                              !.redirs = s.redirs \ {<<i, p, q>>}], 0)
<1> DEFINE ruled == Filter!deleteIPTablesRule(s.rules, Filter!RedirectPortRules(i, p, q))
           redirs == s.redirs \ {<<i, p, q>>}
           t == [s EXCEPT !.rules = ruled, !.redirs = redirs]
<1>1. s \in FireStates /\ FireShape(s) /\ s.on /\ s.rules \in [Filter!Rule -> Nat] /\ IsFiniteSet(s.redirs)
  BY DEF Reachable, FireRight, FireShape, FireStates
<1>2. /\ ruled \in [Filter!Rule -> Nat]
      /\ \A x \in Filter!Rule :
           ruled[x] = IF (x = Filter!Redirect(i, p, q) \/ x = Filter!Input(i, q)) /\ s.rules[x] > 0
                      THEN s.rules[x] - 1 ELSE s.rules[x]
  BY <1>1, BagsAre DEF Filter!RedirectPortRules
<1>4. redirs \in SUBSET (Tunnels \X Ports \X (Ports \cup {0})) /\ IsFiniteSet(redirs)
  BY <1>1, FS_RemoveElement DEF FireStates
<1>5. \A a, b \in redirs : a[1] = b[1] /\ a[2] = b[2] => a = b
  BY <1>1 DEF FireShape
<1>6. \A a : a \in redirs <=> a \in s.redirs /\ a # <<i, p, q>>
  OBVIOUS
<1> HIDE DEF ruled, redirs
<1>7. /\ t \in FireStates /\ t.rules = ruled /\ t.redirs = redirs /\ t.on /\ t.conn = s.conn /\ t.intf = s.intf
      /\ t.subnets = s.subnets /\ t.ports = s.ports /\ t.open = s.open
  BY <1>1, <1>2, <1>4 DEF FireStates
<1> HIDE DEF t
<1>8. FireShape(t)
  BY <1>1, <1>4, <1>5, <1>7 DEF FireShape
<1>9. ASSUME NEW x \in Filter!Rule PROVE Follows(s, t, x)
  <2>0. s.rules[x] \in Nat /\ ExpectedOf(s, x) \in Nat /\ s.rules[x] >= ExpectedOf(s, x)
    BY <1>1, AskedNat DEF Reachable, FireRight
  <2>1. CASE x[1] # "input" /\ x[1] # "redirect"
    <3>1. ExpectedOf(t, x) = ExpectedOf(s, x)
      BY <1>1, <1>7, <1>8, <2>1, AskedSame
    <3>2. x # Filter!Redirect(i, p, q) /\ x # Filter!Input(i, q)
      BY <2>1, Tags
    <3>3. QED
      BY <1>2, <1>7, <3>1, <3>2 DEF Follows
  <2>2. CASE x[1] = "input"
    <3>1. PICK j \in Intfs, r \in Ports \cup {0} : x = Filter!Input(j, r)
      BY <2>2, Kinds, Tags
    <3> DEFINE n == Filter!Cardinality(RedirsTo(s, j, r))
               m == Filter!Cardinality(RedirsTo(t, j, r))
               here == IF <<j, r>> \in s.ports THEN 1 ELSE 0
    <3>2. here \in {0, 1} /\ ExpectedOf(s, x) = here + n /\ ExpectedOf(t, x) = here + m
      BY <1>1, <1>4, <1>7, <3>1, Asked
    <3>3. x # Filter!Redirect(i, p, q) /\ (x = Filter!Input(i, q) <=> j = i /\ r = q)
      BY <2>2, <3>1, Tags
    <3>4. n \in Nat /\ m \in Nat
      BY <1>1, <1>8, RedirsToIs
    <3>5. m = IF j = i /\ r = q THEN n - 1 ELSE n
      <4>1. CASE j = i /\ r = q
        <5>1. RedirsTo(t, j, r) = RedirsTo(s, j, r) \ {<<i, p, q>>}
          BY <1>6, <1>7, <4>1 DEF RedirsTo
        <5>2. <<i, p, q>> \in RedirsTo(s, j, r)
          BY <4>1 DEF RedirsTo
        <5>3. QED
          <6> DEFINE before == RedirsTo(s, j, r)
          <6>1. IsFiniteSet(before)
            BY <1>1, RedirsToIs
          <6> HIDE DEF before
          <6>2. Cardinality(before \ {<<i, p, q>>}) = Cardinality(before) - 1
            BY <5>2, <6>1, FS_RemoveElement DEF before
          <6>3. QED
            BY <4>1, <5>1, <6>2, FireCardinality DEF before
      <4>2. CASE ~(j = i /\ r = q)
        <5>1. RedirsTo(t, j, r) = RedirsTo(s, j, r)
          BY <1>6, <1>7, <4>2 DEF RedirsTo
        <5>2. QED
          BY <4>2, <5>1
      <4>3. QED
        BY <4>1, <4>2
    <3> HIDE DEF n, m, here
    <3>6. QED
      BY <1>2, <1>7, <2>0, <3>2, <3>3, <3>4, <3>5 DEF Follows
  <2>3. CASE x[1] = "redirect"
    <3>1. PICK j \in Tunnels, o \in Ports, r \in Ports \cup {0} : x = Filter!Redirect(j, o, r)
      BY <2>3, Kinds, Tags
    <3>2. x # Filter!Input(i, q) /\ (x = Filter!Redirect(i, p, q) <=> <<j, o, r>> = <<i, p, q>>)
      BY <2>3, <3>1, Tags
    <3>3. /\ ExpectedOf(s, x) = IF <<j, o, r>> \in s.redirs THEN 1 ELSE 0
          /\ ExpectedOf(t, x) = IF <<j, o, r>> \in redirs THEN 1 ELSE 0
      BY <1>1, <1>4, <1>7, <3>1, Asked
    <3>4. CASE <<j, o, r>> = <<i, p, q>>
      BY <1>2, <1>6, <1>7, <2>0, <3>2, <3>3, <3>4 DEF Follows
    <3>5. CASE <<j, o, r>> # <<i, p, q>>
      BY <1>2, <1>6, <1>7, <3>2, <3>3, <3>5 DEF Follows
    <3>6. QED
      BY <3>4, <3>5
  <2>4. QED
    BY <2>1, <2>2, <2>3
<1>10. KeptBut(s, t, 0)
  BY <1>8, <1>9, KeepsAll DEF Reachable
<1>11. QED
  BY <1>10 DEF t, ruled, redirs

LEMMA FireOpen ==
  ASSUME NEW s, Reachable(s), NEW e \in Exchanges, e \notin s.open
  PROVE  KeptBut(s, [s EXCEPT !.rules = Filter!Append(s.rules, {Filter!Exchange(e)}), !.open = s.open \cup {e}], 0)
<1> DEFINE ruled == Filter!Append(s.rules, {Filter!Exchange(e)})
           open == s.open \cup {e}
           t == [s EXCEPT !.rules = ruled, !.open = open]
<1>1. s \in FireStates /\ FireShape(s) /\ s.on /\ s.rules \in [Filter!Rule -> Nat] /\ IsFiniteSet(s.redirs)
  BY DEF Reachable, FireRight, FireShape, FireStates
<1>2. /\ ruled \in [Filter!Rule -> Nat]
      /\ \A x \in Filter!Rule : ruled[x] = IF x = Filter!Exchange(e) THEN s.rules[x] + 1 ELSE s.rules[x]
  BY <1>1, BagsAre
<1>3. open \in SUBSET Exchanges /\ \A f : f \in open <=> f \in s.open \/ f = e
  BY <1>1 DEF FireStates
<1> HIDE DEF ruled, open
<1>4. /\ t \in FireStates /\ t.rules = ruled /\ t.open = open /\ t.on /\ t.conn = s.conn /\ t.intf = s.intf
      /\ t.subnets = s.subnets /\ t.redirs = s.redirs /\ t.ports = s.ports
  BY <1>1, <1>2, <1>3 DEF FireStates
<1> HIDE DEF t
<1>5. FireShape(t)
  BY <1>1, <1>4 DEF FireShape
<1>6. ASSUME NEW x \in Filter!Rule PROVE Follows(s, t, x)
  <2>1. CASE x[1] # "exchange"
    BY <1>1, <1>2, <1>4, <1>5, <2>1, AskedSame, Tags DEF Follows
  <2>2. CASE x[1] = "exchange"
    <3>1. PICK f \in Exchanges : x = Filter!Exchange(f)
      BY <2>2, Kinds, Tags
    <3>2. x = Filter!Exchange(e) <=> f = e
      BY <3>1, Tags
    <3>3. /\ ExpectedOf(s, x) = IF f \in s.open THEN 1 ELSE 0
          /\ ExpectedOf(t, x) = IF f \in open THEN 1 ELSE 0
      BY <1>1, <1>4, <3>1, Asked
    <3>4. QED
      BY <1>2, <1>3, <1>4, <3>2, <3>3 DEF Follows
  <2>3. QED
    BY <2>1, <2>2
<1>7. KeptBut(s, t, 0)
  BY <1>5, <1>6, KeepsAll DEF Reachable
<1>8. QED
  BY <1>7 DEF t, ruled, open

(* The rule of an exchange goes with it, or stays.                           *)
LEMMA FireClose ==
  ASSUME NEW s, Reachable(s), NEW e \in s.open, NEW stays \in BOOLEAN
  PROVE  KeptBut(s, [s EXCEPT !.rules = IF stays THEN s.rules
                                        ELSE Filter!deleteIPTablesRule(s.rules, {Filter!Exchange(e)}),
                              !.open = s.open \ {e}], IF stays THEN 1 ELSE 0)
<1> DEFINE deleted == Filter!deleteIPTablesRule(s.rules, {Filter!Exchange(e)})
           ruled == IF stays THEN s.rules ELSE deleted
           open == s.open \ {e}
           t == [s EXCEPT !.rules = ruled, !.open = open]
           X == IF stays THEN {Filter!Exchange(e)} ELSE {}
<1>1. s \in FireStates /\ FireShape(s) /\ s.on /\ s.rules \in [Filter!Rule -> Nat] /\ IsFiniteSet(s.redirs)
  BY DEF Reachable, FireRight, FireShape, FireStates
<1>2. /\ deleted \in [Filter!Rule -> Nat]
      /\ \A x \in Filter!Rule : deleted[x] = IF x = Filter!Exchange(e) /\ s.rules[x] > 0
                                             THEN s.rules[x] - 1 ELSE s.rules[x]
  BY <1>1, BagsAre
<1>3. open \in SUBSET Exchanges /\ \A f : f \in open <=> f \in s.open /\ f # e
  BY <1>1 DEF FireStates
<1> HIDE DEF deleted
<1>4. /\ ruled \in [Filter!Rule -> Nat]
      /\ \A x \in Filter!Rule : ruled[x] = IF x = Filter!Exchange(e) /\ s.rules[x] > 0 /\ ~stays
                                           THEN s.rules[x] - 1 ELSE s.rules[x]
  BY <1>1, <1>2
<1>5. IsFiniteSet(X) /\ Cardinality(X) = IF stays THEN 1 ELSE 0
  BY FS_EmptySet, FS_Singleton
<1>6. Filter!Exchange(e) \in X <=> stays
  OBVIOUS
<1> HIDE DEF ruled, open, X
<1>7. /\ t \in FireStates /\ t.rules = ruled /\ t.open = open /\ t.on /\ t.conn = s.conn /\ t.intf = s.intf
      /\ t.subnets = s.subnets /\ t.redirs = s.redirs /\ t.ports = s.ports
  BY <1>1, <1>3, <1>4 DEF FireStates
<1> HIDE DEF t
<1>8. FireShape(t)
  BY <1>1, <1>7 DEF FireShape
<1>9. ASSUME NEW x \in Filter!Rule PROVE Follows(s, t, x) \/ (x \in X /\ Lags(s, t, x))
  <2>1. s.rules[x] \in Nat /\ ExpectedOf(s, x) \in Nat /\ s.rules[x] >= ExpectedOf(s, x)
    BY <1>1, AskedNat DEF Reachable, FireRight
  <2>2. CASE x[1] # "exchange"
    BY <1>1, <1>4, <1>7, <1>8, <2>2, AskedSame, Tags DEF Follows
  <2>3. CASE x[1] = "exchange"
    <3>1. PICK f \in Exchanges : x = Filter!Exchange(f)
      BY <2>3, Kinds, Tags
    <3>2. x = Filter!Exchange(e) <=> f = e
      BY <3>1, Tags
    <3>3. /\ ExpectedOf(s, x) = IF f \in s.open THEN 1 ELSE 0
          /\ ExpectedOf(t, x) = IF f \in open THEN 1 ELSE 0
      BY <1>1, <1>7, <3>1, Asked
    <3>4. CASE f = e
      BY <1>3, <1>4, <1>6, <1>7, <2>1, <3>2, <3>3, <3>4 DEF Follows, Lags
    <3>5. CASE f # e
      BY <1>3, <1>4, <1>7, <3>2, <3>3, <3>5 DEF Follows
    <3>6. QED
      BY <3>4, <3>5
  <2>4. QED
    BY <2>2, <2>3
<1>10. KeptBut(s, t, Cardinality(X))
  BY <1>5, <1>8, <1>9, Keeps DEF Reachable
<1>11. QED
  BY <1>5, <1>10 DEF t, ruled, open, deleted

-----------------------------------------------------------------------------
(* Subnets: the rules of those removed, but for some, are deleted, and those *)
(* of some that are new are appended, and of another one a part.             *)
SubnetRules(N) == UNION {{Filter!ToSubnet(r, n) : r \in Filter!RoutesTo(n)} : n \in N}

LEMMA SubnetRulesAre ==
  /\ \A N, r, n : Filter!ToSubnet(r, n) \in SubnetRules(N) <=> n \in N /\ r \in Filter!RoutesTo(n)
  /\ \A N : \A x \in SubnetRules(N) : x[1] = "toSubnet"
<1>1. ASSUME NEW N, NEW r, NEW n PROVE Filter!ToSubnet(r, n) \in SubnetRules(N) <=> n \in N /\ r \in Filter!RoutesTo(n)
  <2>1. \A q, m : Filter!ToSubnet(q, m) = Filter!ToSubnet(r, n) <=> q = r /\ m = n
    BY Tags
  <2>2. QED
    BY <2>1 DEF SubnetRules
<1>2. ASSUME NEW N, NEW x \in SubnetRules(N) PROVE x[1] = "toSubnet"
  BY Tags DEF SubnetRules
<1>3. QED
  BY <1>1, <1>2

LEMMA FireSubnets ==
  ASSUME NEW s, Reachable(s), NEW gone \in SUBSET s.subnets, NEW kept \in SUBSET SubnetRules(gone),
         NEW done \in SUBSET (Subnets \ s.subnets), NEW other \in SUBSET SubnetRules(Subnets \ s.subnets),
         other \cap SubnetRules(done) = {}, IsFiniteSet(kept), IsFiniteSet(other)
  PROVE  KeptBut(s, [s EXCEPT !.rules = Filter!Append(Filter!deleteIPTablesRule(s.rules, SubnetRules(gone) \ kept),
                                                      SubnetRules(done) \cup other),
                              !.subnets = (s.subnets \ gone) \cup done], Cardinality(kept) + Cardinality(other))
<1> DEFINE deleted == Filter!deleteIPTablesRule(s.rules, SubnetRules(gone) \ kept)
           ruled == Filter!Append(deleted, SubnetRules(done) \cup other)
           subnets == (s.subnets \ gone) \cup done
           t == [s EXCEPT !.rules = ruled, !.subnets = subnets]
           X == kept \cup other
<1>1. s \in FireStates /\ FireShape(s) /\ s.on /\ s.rules \in [Filter!Rule -> Nat] /\ IsFiniteSet(s.redirs)
  BY DEF Reachable, FireRight, FireShape, FireStates
<1>2. /\ deleted \in [Filter!Rule -> Nat]
      /\ \A x \in Filter!Rule : deleted[x] = IF x \in SubnetRules(gone) \ kept /\ s.rules[x] > 0
                                             THEN s.rules[x] - 1 ELSE s.rules[x]
  BY <1>1, BagsAre
<1> HIDE DEF deleted
<1>3. /\ ruled \in [Filter!Rule -> Nat]
      /\ \A x \in Filter!Rule : ruled[x] = IF x \in SubnetRules(done) \cup other THEN deleted[x] + 1 ELSE deleted[x]
  BY <1>2, BagsAre
<1>4. subnets \in SUBSET Subnets /\ \A n : n \in subnets <=> (n \in s.subnets /\ n \notin gone) \/ n \in done
  BY <1>1 DEF FireStates
<1>5. s.subnets \in SUBSET Subnets
  BY <1>1 DEF FireStates
<1> HIDE DEF ruled, subnets
<1>6. /\ t \in FireStates /\ t.rules = ruled /\ t.subnets = subnets /\ t.on /\ t.conn = s.conn /\ t.intf = s.intf
      /\ t.open = s.open /\ t.redirs = s.redirs /\ t.ports = s.ports
  BY <1>1, <1>3, <1>4 DEF FireStates
<1> HIDE DEF t
<1>7. FireShape(t)
  BY <1>1, <1>6 DEF FireShape
<1>8. ASSUME NEW x \in Filter!Rule PROVE Follows(s, t, x) \/ (x \in X /\ Lags(s, t, x))
  <2>1. s.rules[x] \in Nat /\ ExpectedOf(s, x) \in Nat /\ s.rules[x] >= ExpectedOf(s, x)
    BY <1>1, AskedNat DEF Reachable, FireRight
  <2>2. CASE x[1] # "toSubnet"
    <3>1. x \notin SubnetRules(gone) /\ x \notin SubnetRules(done) /\ x \notin other
      BY <2>2, SubnetRulesAre
    <3>2. ExpectedOf(t, x) = ExpectedOf(s, x)
      BY <1>1, <1>6, <1>7, <2>2, AskedSame
    <3>3. QED
      BY <1>2, <1>3, <1>6, <3>1, <3>2 DEF Follows
  <2>3. CASE x[1] = "toSubnet"
    <3>1. PICK r \in Routes, n \in Subnets : x = Filter!ToSubnet(r, n)
      BY <2>3, Kinds, Tags
    <3>2. /\ ExpectedOf(s, x) = IF n \in s.subnets /\ r \in Filter!RoutesTo(n) THEN 1 ELSE 0
          /\ ExpectedOf(t, x) = IF n \in subnets /\ r \in Filter!RoutesTo(n) THEN 1 ELSE 0
      BY <1>1, <1>6, <3>1, Asked
    <3>3. /\ x \in SubnetRules(gone) <=> n \in gone /\ r \in Filter!RoutesTo(n)
          /\ x \in SubnetRules(done) <=> n \in done /\ r \in Filter!RoutesTo(n)
          /\ x \in other => n \in Subnets \ s.subnets /\ r \in Filter!RoutesTo(n)
          /\ x \in other => n \notin done
          /\ x \in kept => x \in SubnetRules(gone)
      BY <3>1, SubnetRulesAre
    <3>4. CASE r \notin Filter!RoutesTo(n)
      BY <1>2, <1>3, <1>6, <3>2, <3>3, <3>4 DEF Follows
    <3>5. CASE r \in Filter!RoutesTo(n) /\ n \in gone
      <4>1. n \in s.subnets /\ n \notin subnets /\ n \notin done /\ x \notin other
        BY <1>4, <3>3, <3>5
      <4>2. x \in SubnetRules(gone) /\ x \notin SubnetRules(done) /\ ExpectedOf(s, x) = 1 /\ ExpectedOf(t, x) = 0
        BY <3>2, <3>3, <3>5, <4>1
      <4>3. QED
        BY <1>2, <1>3, <1>6, <2>1, <4>1, <4>2 DEF Follows, Lags
    <3>6. CASE r \in Filter!RoutesTo(n) /\ n \in done
      <4>1. n \notin s.subnets /\ n \in subnets /\ n \notin gone
        BY <1>4, <3>6
      <4>2. QED
        BY <1>2, <1>3, <1>6, <3>2, <3>3, <3>6, <4>1 DEF Follows
    <3>7. CASE r \in Filter!RoutesTo(n) /\ n \notin gone /\ n \notin done
      <4>1. n \in s.subnets <=> n \in subnets
        BY <1>4, <3>7
      <4>2. QED
        BY <1>2, <1>3, <1>6, <3>2, <3>3, <3>7, <4>1 DEF Follows, Lags
    <3>8. QED
      BY <3>4, <3>5, <3>6, <3>7
  <2>4. QED
    BY <2>2, <2>3
<1>9. /\ IsFiniteSet(X) /\ Cardinality(X) \in Nat /\ Cardinality(kept) \in Nat /\ Cardinality(other) \in Nat
      /\ Cardinality(X) <= Cardinality(kept) + Cardinality(other)
  <2>1. IsFiniteSet(kept \cap other)
    BY FS_Subset
  <2>2. IsFiniteSet(X) /\ Cardinality(X) = Cardinality(kept) + Cardinality(other) - Cardinality(kept \cap other)
    BY FS_Union
  <2>3. /\ Cardinality(kept) \in Nat /\ Cardinality(other) \in Nat /\ Cardinality(kept \cap other) \in Nat
        /\ Cardinality(X) \in Nat
    BY <2>1, <2>2, FS_CardinalityType
  <2>4. QED
    BY <2>2, <2>3
<1> HIDE DEF X
<1>10. KeptBut(s, t, Cardinality(X))
  BY <1>7, <1>8, <1>9, Keeps DEF Reachable
<1>11. Cardinality(Extra(s)) \in Nat /\ Cardinality(Extra(t)) \in Nat
  BY <1>10, FS_CardinalityType DEF Reachable, KeptBut, FireRight
<1>12. KeptBut(s, t, Cardinality(kept) + Cardinality(other))
  BY <1>9, <1>10, <1>11 DEF KeptBut
<1>13. QED
  BY <1>12 DEF t, ruled, subnets, deleted

-----------------------------------------------------------------------------
(* The rules to a server: one copy per route, so that the routes a command   *)
(* failed for give the copies that stay.                                     *)
Excess(s, d, c) == s.rules[Filter!ToServer(d, c)] - ExpectedOf(s, Filter!ToServer(d, c))

LEMMA CopiesAre ==
  ASSUME NEW s, NEW c, NEW A \in SUBSET Routes
  PROVE  \E D : /\ IsFiniteSet(D) /\ Cardinality(D) <= Cardinality(A)
                /\ \A d : \A j \in 1 .. Filter!Via(A, d) : <<Filter!ToServer(d, c), Excess(s, d, c) + j>> \in D
<1> DEFINE On(d) == {r \in A : Device[r] = d}
           number(d) == CHOOSE f \in Bijection(On(d), 1 .. Filter!Via(A, d)) : TRUE
           h == [r \in A |-> <<Filter!ToServer(Device[r], c), Excess(s, Device[r], c) + number(Device[r])[r]>>]
           D == {h[r] : r \in A}
<1>1. IsFiniteSet(A)
  BY FireConstants, FS_Subset
<1>2. ASSUME NEW d PROVE number(d) \in Bijection(On(d), 1 .. Filter!Via(A, d))
  <2>1. IsFiniteSet(On(d))
    BY <1>1, FS_Subset
  <2>2. Filter!Via(A, d) = Cardinality(On(d)) /\ Filter!Via(A, d) \in Nat
    BY <2>1, FS_CardinalityType, FireCardinality DEF Filter!Via
  <2> HIDE DEF On
  <2>3. ExistsBijection(1 .. Filter!Via(A, d), On(d))
    BY <2>1, <2>2, FS_CardinalityType
  <2>4. ExistsBijection(On(d), 1 .. Filter!Via(A, d))
    BY <2>3, Fun_ExistsBijSymmetric
  <2>5. QED
    BY <2>4 DEF ExistsBijection
<1>3. h \in Surjection(A, D)
  <2> HIDE DEF number
  <2>1. QED
    BY DEF Surjection
<1>4. IsFiniteSet(D) /\ Cardinality(D) <= Cardinality(A)
  <2> HIDE DEF D, h
  <2>1. QED
    BY <1>1, <1>3, FS_Surjection
<1>5. ASSUME NEW d, NEW j \in 1 .. Filter!Via(A, d) PROVE <<Filter!ToServer(d, c), Excess(s, d, c) + j>> \in D
  <2>1. PICK r \in On(d) : number(d)[r] = j
    <3> DEFINE f == number(d)
    <3>1. f \in Surjection(On(d), 1 .. Filter!Via(A, d))
      BY <1>2 DEF Bijection
    <3> HIDE DEF f, On
    <3>2. QED
      BY <3>1 DEF Surjection, f
  <2>2. r \in A /\ Device[r] = d
    OBVIOUS
  <2> HIDE DEF number
  <2>3. h[r] = <<Filter!ToServer(d, c), Excess(s, d, c) + j>>
    BY <2>1, <2>2
  <2> HIDE DEF h
  <2>4. QED
    BY <2>2, <2>3
<1>6. QED
  <2> HIDE DEF D
  <2>1. QED
    BY <1>4, <1>5

LEMMA KeepsServers ==
  ASSUME NEW s, FireRight(s), NEW t, FireShape(t), NEW A \in SUBSET Routes, NEW c,
         \A x \in Filter!Rule :
           \/ Follows(s, t, x)
           \/ \E d \in Filter!Devices :
                /\ x = Filter!ToServer(d, c) /\ t.rules[x] >= ExpectedOf(t, x)
                /\ t.rules[x] - ExpectedOf(t, x) = Excess(s, d, c) + Filter!Via(A, d)
  PROVE  KeptBut(s, t, Cardinality(A))
<1>1. PICK D : /\ IsFiniteSet(D) /\ Cardinality(D) <= Cardinality(A)
               /\ \A d : \A j \in 1 .. Filter!Via(A, d) : <<Filter!ToServer(d, c), Excess(s, d, c) + j>> \in D
  BY CopiesAre
<1>2. ASSUME NEW x \in Filter!Rule
      PROVE  /\ t.rules[x] >= ExpectedOf(t, x)
             /\ \A k \in 1 .. t.rules[x] - ExpectedOf(t, x) : k \in 1 .. s.rules[x] - ExpectedOf(s, x) \/ <<x, k>> \in D
  <2>1. s.rules[x] \in Nat /\ ExpectedOf(s, x) \in Nat /\ s.rules[x] >= ExpectedOf(s, x)
    BY AskedNat DEF FireRight
  <2>2. CASE Follows(s, t, x)
    BY <2>1, <2>2 DEF Follows
  <2>3. CASE ~Follows(s, t, x)
    <3>1. PICK d \in Filter!Devices :
            /\ x = Filter!ToServer(d, c) /\ t.rules[x] >= ExpectedOf(t, x)
            /\ t.rules[x] - ExpectedOf(t, x) = Excess(s, d, c) + Filter!Via(A, d)
      BY <2>3
    <3> DEFINE m == Excess(s, d, c)
               n == Filter!Via(A, d)
    <3>2. m = s.rules[x] - ExpectedOf(s, x) /\ n \in Nat
      BY <3>1, ViaIs DEF Excess
    <3>3. \A j \in 1 .. n : <<x, m + j>> \in D
      BY <1>1, <3>1
    <3>4. t.rules[x] - ExpectedOf(t, x) = m + n
      BY <3>1
    <3> HIDE DEF m, n
    <3>5. m \in Nat
      BY <2>1, <3>2
    <3>6. ASSUME NEW k \in 1 .. m + n, k \notin 1 .. m PROVE <<x, k>> \in D
      <4>1. k - m \in 1 .. n /\ m + (k - m) = k
        BY <3>2, <3>5, <3>6
      <4>2. QED
        BY <3>3, <4>1
    <3>7. QED
      BY <3>1, <3>2, <3>4, <3>6
  <2>4. QED
    BY <2>2, <2>3
<1>3. MoreBy(s, t, D)
  BY <1>2 DEF MoreBy
<1>4. FireRight(t) /\ Cardinality(Extra(t)) <= Cardinality(Extra(s)) + Cardinality(D)
  BY <1>1, <1>3, Grows
<1>5. IsFiniteSet(A)
  BY FireConstants, FS_Subset
<1>6. /\ Cardinality(Extra(s)) \in Nat /\ Cardinality(A) \in Nat /\ Cardinality(D) \in Nat
      /\ Cardinality(Extra(t)) \in Nat
  BY <1>1, <1>4, <1>5, FS_CardinalityType DEF FireRight
<1>7. QED
  BY <1>1, <1>4, <1>6 DEF KeptBut

LEMMA ViaSplits ==
  ASSUME NEW A \in SUBSET Routes, NEW d
  PROVE  Filter!Via(A, d) + Filter!Via(Routes \ A, d) = Filter!Via(Routes, d)
<1> DEFINE On(R) == {r \in R : Device[r] = d}
<1>1. /\ IsFiniteSet(On(A)) /\ IsFiniteSet(On(Routes \ A)) /\ IsFiniteSet(On(Routes))
      /\ On(A) \cap On(Routes \ A) = {} /\ On(A) \cup On(Routes \ A) = On(Routes)
  <2>1. IsFiniteSet(On(Routes))
    BY FireConstants, FS_Subset
  <2>2. IsFiniteSet(On(A)) /\ IsFiniteSet(On(Routes \ A))
    BY FireConstants, FS_Subset
  <2>3. QED
    BY <2>1, <2>2
<1>2. /\ Filter!Via(A, d) = Cardinality(On(A)) /\ Filter!Via(Routes \ A, d) = Cardinality(On(Routes \ A))
      /\ Filter!Via(Routes, d) = Cardinality(On(Routes))
  BY FireCardinality DEF Filter!Via
<1> DEFINE X == On(A)  Y == On(Routes \ A)  Z == On(Routes)
<1>3. /\ IsFiniteSet(X) /\ IsFiniteSet(Y) /\ X \cap Y = {} /\ X \cup Y = Z
  BY <1>1
<1> HIDE DEF X, Y, Z
<1>4. Cardinality(X \cup Y) = Cardinality(X) + Cardinality(Y) - Cardinality(X \cap Y)
  BY <1>3, FS_Union
<1>5. Cardinality(X) \in Nat /\ Cardinality(Y) \in Nat /\ Cardinality(X \cap Y) = 0
  BY <1>3, FS_CardinalityType, FS_EmptySet
<1>6. Cardinality(Z) = Cardinality(X) + Cardinality(Y)
  BY <1>3, <1>4, <1>5
<1>7. QED
  BY <1>2, <1>6 DEF X, Y, Z

ServersAdded(b, t, A, c) ==
    /\ t \in [Filter!Rule -> Nat]
    /\ \A x \in Filter!Rule : x[1] = "toServer" /\ x[3] = c /\ x[2] \in Filter!Devices
                              => t[x] = b[x] + Filter!Via(A, x[2])
    /\ \A x \in Filter!Rule : ~(x[1] = "toServer" /\ x[3] = c) => t[x] = b[x]

ServersGone(b, t, A, c) ==
    /\ t \in [Filter!Rule -> Nat]
    /\ \A x \in Filter!Rule : x[1] = "toServer" /\ x[3] = c /\ x[2] \in Filter!Devices
                              => t[x] = IF b[x] > Filter!Via(A, x[2]) THEN b[x] - Filter!Via(A, x[2]) ELSE 0
    /\ \A x \in Filter!Rule : ~(x[1] = "toServer" /\ x[3] = c) => t[x] = b[x]

LEMMA ServerBags ==
  ASSUME NEW b \in [Filter!Rule -> Nat], NEW A \in SUBSET Routes, NEW c
  PROVE  ServersAdded(b, Filter!AppendToServer(b, A, c), A, c) /\ ServersGone(b, Filter!DeleteToServer(b, A, c), A, c)
<1>1. \A x \in Filter!Rule : (\E d \in Filter!Devices : x = Filter!ToServer(d, c))
                             <=> x[1] = "toServer" /\ x[3] = c /\ x[2] \in Filter!Devices
  <2>1. ASSUME NEW x \in Filter!Rule, x[1] = "toServer", x[3] = c, x[2] \in Filter!Devices
        PROVE  \E d \in Filter!Devices : x = Filter!ToServer(d, c)
    <3>1. PICK d \in Filter!Devices, e \in Connections : x = Filter!ToServer(d, e)
      BY <2>1, Kinds, Tags
    <3>2. QED
      BY <2>1, <3>1, Tags
  <2>2. QED
    BY <2>1, Tags
<1>2. \A x \in Filter!Rule : x[1] = "toServer" => x[2] \in Filter!Devices
  BY Kinds, Tags
<1>3. \A d : Filter!Via(A, d) \in Nat
  BY ViaIs
<1> DEFINE f == [x \in Filter!Rule |-> Filter!Via(A, x[2])]
           To(x) == x[1] = "toServer" /\ x[3] = c
<1>4. \A x \in Filter!Rule : f[x] \in Nat /\ b[x] \in Nat /\ f[x] = Filter!Via(A, x[2])
  BY <1>3
<1>5. \A x \in Filter!Rule : (\E d \in Filter!Devices : x = Filter!ToServer(d, c)) <=> To(x)
  BY <1>1, <1>2
<1> HIDE DEF To, f
<1>6. /\ Filter!AppendToServer(b, A, c) = [x \in Filter!Rule |-> IF To(x) THEN b[x] + f[x] ELSE b[x]]
      /\ Filter!DeleteToServer(b, A, c)
         = [x \in Filter!Rule |-> IF To(x) THEN IF b[x] > f[x] THEN b[x] - f[x] ELSE 0 ELSE b[x]]
  BY <1>4, <1>5 DEF Filter!AppendToServer, Filter!DeleteToServer
<1>7. /\ [x \in Filter!Rule |-> IF To(x) THEN b[x] + f[x] ELSE b[x]] \in [Filter!Rule -> Nat]
      /\ [x \in Filter!Rule |-> IF To(x) THEN IF b[x] > f[x] THEN b[x] - f[x] ELSE 0 ELSE b[x]] \in [Filter!Rule -> Nat]
  BY <1>4
<1>8. QED
  BY <1>4, <1>6, <1>7 DEF To, ServersAdded, ServersGone

-----------------------------------------------------------------------------
(* The rules to the server that is left are deleted, but for some routes.    *)
LEMMA FireDisconnect ==
  ASSUME NEW s, Reachable(s), NEW kept \in SUBSET Routes, s.conn = Filter!None => kept = {}
  PROVE  KeptBut(s, [s EXCEPT !.rules = Filter!DeleteToServer(s.rules, Routes \ kept, s.conn),
                              !.conn = Filter!None], Cardinality(kept))
<1> DEFINE ruled == Filter!DeleteToServer(s.rules, Routes \ kept, s.conn)
           t == [s EXCEPT !.rules = ruled, !.conn = Filter!None]
<1>1. /\ s \in FireStates /\ FireShape(s) /\ s.on /\ s.rules \in [Filter!Rule -> Nat] /\ IsFiniteSet(s.redirs)
      /\ FireRight(s)
  BY DEF Reachable, FireRight, FireShape, FireStates
<1>2. /\ ruled \in [Filter!Rule -> Nat]
      /\ \A x \in Filter!Rule :
           x[1] = "toServer" /\ x[3] = s.conn /\ x[2] \in Filter!Devices
           => ruled[x] = IF s.rules[x] > Filter!Via(Routes \ kept, x[2])
                         THEN s.rules[x] - Filter!Via(Routes \ kept, x[2]) ELSE 0
      /\ \A x \in Filter!Rule : ~(x[1] = "toServer" /\ x[3] = s.conn) => ruled[x] = s.rules[x]
  <2>1. Routes \ kept \in SUBSET Routes
    OBVIOUS
  <2>2. ServersGone(s.rules, ruled, Routes \ kept, s.conn)
    BY <1>1, <2>1, ServerBags
  <2> HIDE DEF ruled
  <2>3. QED
    BY <2>2 DEF ServersGone
<1> HIDE DEF ruled
<1>3. /\ t \in FireStates /\ t.rules = ruled /\ t.open = s.open /\ t.on /\ t.conn = Filter!None /\ t.intf = s.intf
      /\ t.subnets = s.subnets /\ t.redirs = s.redirs /\ t.ports = s.ports
  BY <1>1, <1>2 DEF FireStates
<1> HIDE DEF t
<1>4. FireShape(t)
  BY <1>1, <1>3 DEF FireShape
<1>5. ASSUME NEW x \in Filter!Rule
      PROVE  \/ Follows(s, t, x)
             \/ \E d \in Filter!Devices :
                  /\ x = Filter!ToServer(d, s.conn) /\ t.rules[x] >= ExpectedOf(t, x)
                  /\ t.rules[x] - ExpectedOf(t, x) = Excess(s, d, s.conn) + Filter!Via(kept, d)
  <2>1. s.rules[x] \in Nat /\ ExpectedOf(s, x) \in Nat /\ s.rules[x] >= ExpectedOf(s, x)
    BY <1>1, AskedNat DEF FireRight
  <2>2. CASE x[1] # "toServer"
    <3>1. ExpectedOf(t, x) = ExpectedOf(s, x)
      BY <1>1, <1>3, <1>4, <2>2, AskedSame
    <3>2. QED
      BY <1>2, <1>3, <2>2, <3>1 DEF Follows
  <2>3. CASE x[1] = "toServer"
    <3>1. PICK d \in Filter!Devices, c \in Connections : x = Filter!ToServer(d, c)
      BY <2>3, Kinds, Tags
    <3>2. x[2] = d /\ x[3] = c /\ c # Filter!None
      BY <3>1, FireConstants, Tags
    <3>3. /\ ExpectedOf(s, x) = IF c = s.conn THEN Filter!Via(Routes, d) ELSE 0
          /\ ExpectedOf(t, x) = 0
      BY <1>1, <1>3, <3>1, <3>2, Asked
    <3>4. CASE c # s.conn
      BY <1>2, <1>3, <3>2, <3>3, <3>4 DEF Follows
    <3>5. CASE c = s.conn
      <4> DEFINE v == Filter!Via(Routes, d)
                 l == Filter!Via(Routes \ kept, d)
                 k == Filter!Via(kept, d)
      <4>1. k + l = v
        BY ViaSplits
      <4>2. k \in Nat /\ l \in Nat /\ v \in Nat
        <5>1. Routes \in SUBSET Routes /\ Routes \ kept \in SUBSET Routes
          OBVIOUS
        <5>2. QED
          BY <5>1, ViaIs
      <4>3. /\ ruled[x] = IF s.rules[x] > l THEN s.rules[x] - l ELSE 0
            /\ ExpectedOf(s, x) = v /\ Excess(s, d, s.conn) = s.rules[x] - ExpectedOf(s, x)
        BY <1>2, <2>3, <3>1, <3>2, <3>3, <3>5 DEF Excess
      <4> HIDE DEF k, l, v
      <4>4. /\ t.rules[x] >= ExpectedOf(t, x)
            /\ t.rules[x] - ExpectedOf(t, x) = Excess(s, d, s.conn) + k
        BY <1>3, <2>1, <3>3, <4>1, <4>2, <4>3
      <4>5. QED
        BY <3>1, <3>5, <4>4 DEF k
    <3>6. QED
      BY <3>4, <3>5
  <2>4. QED
    BY <2>2, <2>3
<1> DEFINE c == s.conn
<1>6. \A x \in Filter!Rule :
        \/ Follows(s, t, x)
        \/ \E d \in Filter!Devices :
             /\ x = Filter!ToServer(d, c) /\ t.rules[x] >= ExpectedOf(t, x)
             /\ t.rules[x] - ExpectedOf(t, x) = Excess(s, d, c) + Filter!Via(kept, d)
  BY <1>5
<1> HIDE DEF c
<1>7. KeptBut(s, t, Cardinality(kept))
  BY <1>1, <1>4, <1>6, KeepsServers
<1>8. QED
  BY <1>7 DEF t, ruled

(* The rules to a new server are appended, for all routes or for some.       *)
LEMMA FireConnect ==
  ASSUME NEW s, Reachable(s), s.conn = Filter!None, NEW added \in SUBSET Routes, NEW c \in Connections
  PROVE  KeptBut(s, [s EXCEPT !.rules = Filter!AppendToServer(s.rules, added, c),
                              !.conn = IF added = Routes THEN c ELSE Filter!None],
                 IF added = Routes THEN 0 ELSE Cardinality(added))
<1> DEFINE ruled == Filter!AppendToServer(s.rules, added, c)
           conn == IF added = Routes THEN c ELSE Filter!None
           left == IF added = Routes THEN {} ELSE added
           t == [s EXCEPT !.rules = ruled, !.conn = conn]
<1>1. /\ s \in FireStates /\ FireShape(s) /\ s.on /\ s.rules \in [Filter!Rule -> Nat] /\ IsFiniteSet(s.redirs)
      /\ FireRight(s)
  BY DEF Reachable, FireRight, FireShape, FireStates
<1>2. /\ ruled \in [Filter!Rule -> Nat]
      /\ \A x \in Filter!Rule : x[1] = "toServer" /\ x[3] = c /\ x[2] \in Filter!Devices
                                => ruled[x] = s.rules[x] + Filter!Via(added, x[2])
      /\ \A x \in Filter!Rule : ~(x[1] = "toServer" /\ x[3] = c) => ruled[x] = s.rules[x]
  <2>1. ServersAdded(s.rules, ruled, added, c)
    BY <1>1, ServerBags
  <2> HIDE DEF ruled
  <2>2. QED
    BY <2>1 DEF ServersAdded
<1>3. conn \in Connections \cup {Filter!None}
  OBVIOUS
<1>4. left \in SUBSET Routes /\ Cardinality(left) = IF added = Routes THEN 0 ELSE Cardinality(added)
  BY FS_EmptySet
<1>5. /\ added = Routes => conn = c /\ left = {}
      /\ added # Routes => conn = Filter!None /\ left = added
  OBVIOUS
<1> HIDE DEF ruled, conn, left
<1>6. /\ t \in FireStates /\ t.rules = ruled /\ t.open = s.open /\ t.on /\ t.conn = conn /\ t.intf = s.intf
      /\ t.subnets = s.subnets /\ t.redirs = s.redirs /\ t.ports = s.ports
  BY <1>1, <1>2, <1>3 DEF FireStates
<1> HIDE DEF t
<1>7. FireShape(t)
  BY <1>1, <1>6 DEF FireShape
<1>8. ASSUME NEW x \in Filter!Rule
      PROVE  \/ Follows(s, t, x)
             \/ \E d \in Filter!Devices :
                  /\ x = Filter!ToServer(d, c) /\ t.rules[x] >= ExpectedOf(t, x)
                  /\ t.rules[x] - ExpectedOf(t, x) = Excess(s, d, c) + Filter!Via(left, d)
  <2>1. s.rules[x] \in Nat /\ ExpectedOf(s, x) \in Nat /\ s.rules[x] >= ExpectedOf(s, x)
    BY <1>1, AskedNat DEF FireRight
  <2>2. CASE x[1] # "toServer"
    <3>1. ExpectedOf(t, x) = ExpectedOf(s, x)
      BY <1>1, <1>6, <1>7, <2>2, AskedSame
    <3>2. QED
      BY <1>2, <1>6, <2>2, <3>1 DEF Follows
  <2>3. CASE x[1] = "toServer"
    <3>1. PICK d \in Filter!Devices, e \in Connections : x = Filter!ToServer(d, e)
      BY <2>3, Kinds, Tags
    <3>2. x[2] = d /\ x[3] = e /\ e # Filter!None
      BY <3>1, FireConstants, Tags
    <3>3. /\ ExpectedOf(s, x) = 0
          /\ ExpectedOf(t, x) = IF e = conn THEN Filter!Via(Routes, d) ELSE 0
      BY <1>1, <1>6, <3>1, <3>2, Asked
    <3>4. CASE e # c
      BY <1>2, <1>5, <1>6, <3>2, <3>3, <3>4 DEF Follows
    <3>5. CASE e = c
      <4>1. ruled[x] = s.rules[x] + Filter!Via(added, d) /\ Excess(s, d, c) = s.rules[x]
        BY <1>2, <2>1, <2>3, <3>1, <3>2, <3>3, <3>5 DEF Excess
      <4>2. Filter!Via(left, d) \in Nat /\ Filter!Via(added, d) \in Nat
        BY <1>4, ViaIs
      <4> DEFINE v == Filter!Via(Routes, d)
                 l == Filter!Via(left, d)
                 a == Filter!Via(added, d)
      <4>3. CASE added = Routes
        <5>1. v = a /\ l = 0
          <6>1. {r \in left : Device[r] = d} = {}
            BY <1>5, <4>3
          <6>2. QED
            BY <4>3, <6>1, FS_EmptySet, FireCardinality DEF Filter!Via
        <5>2. ExpectedOf(t, x) = v
          BY <1>5, <3>3, <3>5, <4>3
        <5> HIDE DEF v, l
        <5>3. t.rules[x] >= ExpectedOf(t, x) /\ t.rules[x] - ExpectedOf(t, x) = Excess(s, d, c) + l
          BY <1>6, <2>1, <4>1, <4>2, <5>1, <5>2
        <5>4. QED
          BY <3>1, <3>5, <5>3 DEF l
      <4>4. CASE added # Routes
        <5>1. l = a /\ ExpectedOf(t, x) = 0
          BY <1>5, <3>2, <3>3, <4>4
        <5> HIDE DEF l
        <5>2. t.rules[x] >= ExpectedOf(t, x) /\ t.rules[x] - ExpectedOf(t, x) = Excess(s, d, c) + l
          BY <1>6, <2>1, <4>1, <4>2, <5>1
        <5>3. QED
          BY <3>1, <3>5, <5>2 DEF l
      <4>5. QED
        BY <4>3, <4>4
    <3>6. QED
      BY <3>4, <3>5
  <2>4. QED
    BY <2>2, <2>3
<1>9. KeptBut(s, t, Cardinality(left))
  BY <1>1, <1>4, <1>7, <1>8, KeepsServers
<1>10. QED
  BY <1>4, <1>9 DEF t, ruled, conn

(* The rule through the VPN interface is deleted, or stays.                  *)
LEMMA FireDropIntf ==
  ASSUME NEW s, Reachable(s), NEW stays \in BOOLEAN
  PROVE  KeptBut(s, [s EXCEPT !.rules = IF stays THEN s.rules
                                        ELSE Filter!deleteIPTablesRule(s.rules, {Filter!Through(s.intf)}),
                              !.intf = Filter!None], IF stays THEN 1 ELSE 0)
<1> DEFINE deleted == Filter!deleteIPTablesRule(s.rules, {Filter!Through(s.intf)})
           ruled == IF stays THEN s.rules ELSE deleted
           t == [s EXCEPT !.rules = ruled, !.intf = Filter!None]
           X == IF stays THEN {Filter!Through(s.intf)} ELSE {}
<1>1. s \in FireStates /\ FireShape(s) /\ s.on /\ s.rules \in [Filter!Rule -> Nat] /\ IsFiniteSet(s.redirs)
  BY DEF Reachable, FireRight, FireShape, FireStates
<1>2. /\ deleted \in [Filter!Rule -> Nat]
      /\ \A x \in Filter!Rule : deleted[x] = IF x = Filter!Through(s.intf) /\ s.rules[x] > 0
                                             THEN s.rules[x] - 1 ELSE s.rules[x]
  BY <1>1, BagsAre
<1> HIDE DEF deleted
<1>3. /\ ruled \in [Filter!Rule -> Nat]
      /\ \A x \in Filter!Rule : ruled[x] = IF x = Filter!Through(s.intf) /\ s.rules[x] > 0 /\ ~stays
                                           THEN s.rules[x] - 1 ELSE s.rules[x]
  BY <1>1, <1>2
<1>4. IsFiniteSet(X) /\ Cardinality(X) = IF stays THEN 1 ELSE 0
  BY FS_EmptySet, FS_Singleton
<1>5. Filter!Through(s.intf) \in X <=> stays
  OBVIOUS
<1> HIDE DEF ruled, X
<1>6. /\ t \in FireStates /\ t.rules = ruled /\ t.intf = Filter!None /\ t.on /\ t.conn = s.conn /\ t.open = s.open
      /\ t.subnets = s.subnets /\ t.redirs = s.redirs /\ t.ports = s.ports
  BY <1>1, <1>3 DEF FireStates
<1> HIDE DEF t
<1>7. FireShape(t)
  BY <1>1, <1>6 DEF FireShape
<1>8. ASSUME NEW x \in Filter!Rule PROVE Follows(s, t, x) \/ (x \in X /\ Lags(s, t, x))
  <2>1. s.rules[x] \in Nat /\ ExpectedOf(s, x) \in Nat /\ s.rules[x] >= ExpectedOf(s, x)
    BY <1>1, AskedNat DEF Reachable, FireRight
  <2>2. CASE x[1] # "through"
    BY <1>1, <1>3, <1>6, <1>7, <2>2, AskedSame, Tags DEF Follows
  <2>3. CASE x[1] = "through"
    <3>1. PICK i \in Tunnels : x = Filter!Through(i)
      BY <2>3, Kinds, Tags
    <3>2. (x = Filter!Through(s.intf) <=> i = s.intf) /\ i # Filter!None
      BY <3>1, FireConstants, Tags
    <3>3. ExpectedOf(s, x) = (IF i = s.intf THEN 1 ELSE 0) /\ ExpectedOf(t, x) = 0
      BY <1>1, <1>6, <3>1, <3>2, Asked
    <3>4. CASE i = s.intf
      BY <1>3, <1>5, <1>6, <2>1, <3>2, <3>3, <3>4 DEF Follows, Lags
    <3>5. CASE i # s.intf
      BY <1>3, <1>6, <3>2, <3>3, <3>5 DEF Follows
    <3>6. QED
      BY <3>4, <3>5
  <2>4. QED
    BY <2>2, <2>3
<1>9. KeptBut(s, t, Cardinality(X))
  BY <1>4, <1>7, <1>8, Keeps DEF Reachable
<1>10. QED
  BY <1>4, <1>9 DEF t, ruled, deleted

LEMMA FireAddIntf ==
  ASSUME NEW s, Reachable(s), s.intf = Filter!None, NEW i \in Tunnels
  PROVE  KeptBut(s, [s EXCEPT !.rules = Filter!Append(s.rules, {Filter!Through(i)}), !.intf = i], 0)
<1> DEFINE ruled == Filter!Append(s.rules, {Filter!Through(i)})
           t == [s EXCEPT !.rules = ruled, !.intf = i]
<1>1. s \in FireStates /\ FireShape(s) /\ s.on /\ s.rules \in [Filter!Rule -> Nat] /\ IsFiniteSet(s.redirs)
  BY DEF Reachable, FireRight, FireShape, FireStates
<1>2. /\ ruled \in [Filter!Rule -> Nat]
      /\ \A x \in Filter!Rule : ruled[x] = IF x = Filter!Through(i) THEN s.rules[x] + 1 ELSE s.rules[x]
  BY <1>1, BagsAre
<1> HIDE DEF ruled
<1>3. /\ t \in FireStates /\ t.rules = ruled /\ t.intf = i /\ t.on /\ t.conn = s.conn /\ t.open = s.open
      /\ t.subnets = s.subnets /\ t.redirs = s.redirs /\ t.ports = s.ports
  BY <1>1, <1>2 DEF FireStates
<1> HIDE DEF t
<1>4. FireShape(t)
  BY <1>1, <1>3 DEF FireShape
<1>5. ASSUME NEW x \in Filter!Rule PROVE Follows(s, t, x)
  <2>1. CASE x[1] # "through"
    BY <1>1, <1>2, <1>3, <1>4, <2>1, AskedSame, Tags DEF Follows
  <2>2. CASE x[1] = "through"
    <3>1. PICK j \in Tunnels : x = Filter!Through(j)
      BY <2>2, Kinds, Tags
    <3>2. (x = Filter!Through(i) <=> j = i) /\ j # Filter!None
      BY <3>1, FireConstants, Tags
    <3>3. ExpectedOf(s, x) = 0 /\ ExpectedOf(t, x) = IF j = i THEN 1 ELSE 0
      BY <1>1, <1>3, <3>1, <3>2, Asked
    <3>4. QED
      BY <1>2, <1>3, <3>2, <3>3 DEF Follows
  <2>3. QED
    BY <2>1, <2>2
<1>6. KeptBut(s, t, 0)
  BY <1>4, <1>5, KeepsAll DEF Reachable
<1>7. QED
  BY <1>6 DEF t, ruled

(* Enabling: one set of rules more than nothing, or two.                     *)
LEMMA FireEnable ==
  ASSUME NEW s, FireRight(s), ~s.on, NEW stays \in BOOLEAN
  PROVE  KeptBut(s, [s EXCEPT !.rules = Filter!Append(s.rules, IF stays THEN {Filter!Base, Filter!PublicOnly}
                                                               ELSE {Filter!Base}),
                              !.on = TRUE], IF stays THEN 1 ELSE 0)
<1> DEFINE added == IF stays THEN {Filter!Base, Filter!PublicOnly} ELSE {Filter!Base}
           ruled == Filter!Append(s.rules, added)
           t == [s EXCEPT !.rules = ruled, !.on = TRUE]
           X == IF stays THEN {Filter!PublicOnly} ELSE {}
<1>1. /\ s \in FireStates /\ FireShape(s) /\ s.rules \in [Filter!Rule -> Nat] /\ IsFiniteSet(s.redirs)
      /\ s.conn = Filter!None /\ s.intf = Filter!None /\ s.subnets = {} /\ s.ports = {} /\ s.redirs = {}
      /\ s.open = {} /\ \A x \in Filter!Rule : s.rules[x] = 0
  BY DEF FireRight, FireShape, FireStates
<1>2. /\ ruled \in [Filter!Rule -> Nat]
      /\ \A x \in Filter!Rule : ruled[x] = IF x \in added THEN s.rules[x] + 1 ELSE s.rules[x]
  BY <1>1, BagsAre
<1>3. \A x : /\ x \in added <=> x = Filter!Base \/ (stays /\ x = Filter!PublicOnly)
             /\ x \in X <=> stays /\ x = Filter!PublicOnly
  OBVIOUS
<1>4. IsFiniteSet(X) /\ Cardinality(X) = IF stays THEN 1 ELSE 0
  BY FS_EmptySet, FS_Singleton
<1> HIDE DEF added, ruled, X
<1>5. /\ t \in FireStates /\ t.rules = ruled /\ t.on /\ t.intf = s.intf /\ t.conn = s.conn /\ t.open = s.open
      /\ t.subnets = s.subnets /\ t.redirs = s.redirs /\ t.ports = s.ports
  BY <1>1, <1>2 DEF FireStates
<1> HIDE DEF t
<1>6. FireShape(t)
  BY <1>1, <1>5 DEF FireShape
<1>7. ASSUME NEW x \in Filter!Rule PROVE Follows(s, t, x) \/ (x \in X /\ Lags(s, t, x))
  <2>1. s.rules[x] = 0 /\ ExpectedOf(s, x) = 0
    BY <1>1, NotAsked
  <2>2. ExpectedOf(t, x) = IF x = Filter!Base THEN 1 ELSE 0
    <3>1. \A i, p : Filter!Cardinality(RedirsTo(t, i, p)) = 0
      <4>1. \A i, p : RedirsTo(t, i, p) = {}
        BY <1>1, <1>5 DEF RedirsTo
      <4>2. QED
        BY <4>1, FS_EmptySet, FireCardinality
    <3>2. IsFiniteSet(t.redirs)
      BY <1>1, <1>5
    <3>3. CASE \E i \in Intfs, p \in Ports \cup {0} : x = Filter!Input(i, p)
      <4>1. PICK i \in Intfs, p \in Ports \cup {0} : x = Filter!Input(i, p)
        BY <3>3
      <4>2. ExpectedOf(t, x) = (IF <<i, p>> \in t.ports THEN 1 ELSE 0) + Filter!Cardinality(RedirsTo(t, i, p))
        BY <1>5, <3>2, <4>1, Asked
      <4>3. x # Filter!Base /\ <<i, p>> \notin t.ports
        BY <1>1, <1>5, <4>1, Tags
      <4>4. QED
        BY <3>1, <4>2, <4>3
    <3>4. CASE \E d \in Filter!Devices, c \in Connections : x = Filter!ToServer(d, c)
      <4>1. PICK d \in Filter!Devices, c \in Connections : x = Filter!ToServer(d, c)
        BY <3>4
      <4>2. ExpectedOf(t, x) = IF c = t.conn THEN Filter!Via(Routes, d) ELSE 0
        BY <1>5, <3>2, <4>1, Asked
      <4>3. x # Filter!Base /\ c # t.conn
        BY <1>1, <1>5, <4>1, Tags, FireConstants
      <4>4. QED
        BY <4>2, <4>3
    <3>5. CASE \E i \in Tunnels : x = Filter!Through(i)
      <4>1. PICK i \in Tunnels : x = Filter!Through(i)
        BY <3>5
      <4>2. ExpectedOf(t, x) = IF i = t.intf THEN 1 ELSE 0
        BY <1>5, <3>2, <4>1, Asked
      <4>3. x # Filter!Base /\ i # t.intf
        BY <1>1, <1>5, <4>1, Tags, FireConstants
      <4>4. QED
        BY <4>2, <4>3
    <3>6. CASE \E i \in Tunnels, p \in Ports, q \in Ports \cup {0} : x = Filter!Redirect(i, p, q)
      <4>1. PICK i \in Tunnels, p \in Ports, q \in Ports \cup {0} : x = Filter!Redirect(i, p, q)
        BY <3>6
      <4>2. ExpectedOf(t, x) = IF <<i, p, q>> \in t.redirs THEN 1 ELSE 0
        BY <1>5, <3>2, <4>1, Asked
      <4>3. x # Filter!Base /\ <<i, p, q>> \notin t.redirs
        BY <1>1, <1>5, <4>1, Tags
      <4>4. QED
        BY <4>2, <4>3
    <3>7. CASE \E r \in Routes, n \in Subnets : x = Filter!ToSubnet(r, n)
      <4>1. PICK r \in Routes, n \in Subnets : x = Filter!ToSubnet(r, n)
        BY <3>7
      <4>2. ExpectedOf(t, x) = IF n \in t.subnets /\ r \in Filter!RoutesTo(n) THEN 1 ELSE 0
        BY <1>5, <3>2, <4>1, Asked
      <4>3. x # Filter!Base /\ n \notin t.subnets
        BY <1>1, <1>5, <4>1, Tags
      <4>4. QED
        BY <4>2, <4>3
    <3>8. CASE \E e \in Exchanges : x = Filter!Exchange(e)
      <4>1. PICK e \in Exchanges : x = Filter!Exchange(e)
        BY <3>8
      <4>2. ExpectedOf(t, x) = IF e \in t.open THEN 1 ELSE 0
        BY <1>5, <3>2, <4>1, Asked
      <4>3. x # Filter!Base /\ e \notin t.open
        BY <1>1, <1>5, <4>1, Tags
      <4>4. QED
        BY <4>2, <4>3
    <3>9. CASE x = Filter!PublicOnly \/ x = Filter!Base
      <4>1. ExpectedOf(t, Filter!PublicOnly) = 0 /\ ExpectedOf(t, Filter!Base) = 1
        BY <1>5, <3>2, Asked
      <4>2. QED
        BY <3>9, <4>1, Tags
    <3>10. QED
      BY <3>3, <3>4, <3>5, <3>6, <3>7, <3>8, <3>9, Kinds
  <2>3. Filter!Base # Filter!PublicOnly
    BY Tags
  <2>4. QED
    BY <1>2, <1>3, <1>5, <2>1, <2>2, <2>3 DEF Follows, Lags
<1>8. KeptBut(s, t, Cardinality(X))
  BY <1>4, <1>6, <1>7, Keeps
<1>9. QED
  BY <1>4, <1>8 DEF t, ruled, added

-----------------------------------------------------------------------------
(* What a failure may leave behind, and the invariant.                       *)
Left == IF Cardinality(Routes) > 1 THEN Cardinality(Routes) - 1 ELSE 1

FireSound(s, n) == FireRight(s) /\ n \in 0 .. MaxFaults /\ Cardinality(Extra(s)) <= n * Left

FireInv == FireSound(Now, faults)

Fields == {"on", "rules", "conn", "intf", "subnets", "ports", "redirs", "open"}

LEMMA NowIs ==
  /\ DOMAIN Now = Fields /\ Now = [x \in Fields |-> Now[x]]
  /\ Now.on = enabled /\ Now.rules = rules /\ Now.conn = vpnConnection /\ Now.intf = vpnIntf
  /\ Now.subnets = outboundSubnets /\ Now.ports = allowedInputPorts /\ Now.redirs = portRedirections
  /\ Now.open = exchanges
BY DEF Now, Fields

LEMMA NowNextIs ==
  /\ DOMAIN Now' = Fields /\ Now' = [x \in Fields |-> Now'[x]]
  /\ Now'.on = enabled' /\ Now'.rules = rules' /\ Now'.conn = vpnConnection' /\ Now'.intf = vpnIntf'
  /\ Now'.subnets = outboundSubnets' /\ Now'.ports = allowedInputPorts' /\ Now'.redirs = portRedirections'
  /\ Now'.open = exchanges'
BY DEF Now, Fields

LEMMA FireInvNextIs == FireInv' <=> FireSound(Now', faults')
BY DEF FireInv, FireSound, FireRight, FireShape, FireStates, Extra, ExpectedOf, Left, Intfs

LEMMA LeftIs == Left \in Nat /\ Left >= 1 /\ \A n \in Nat : n <= n * Left
<1>1. Cardinality(Routes) \in Nat
  BY FireConstants, FS_CardinalityType
<1>2. Left \in Nat /\ Left >= 1
  BY <1>1 DEF Left
<1>3. ASSUME NEW n \in Nat PROVE n <= n * Left
  <2>1. \E m \in Nat : Left = m + 1
    <3>1. Left - 1 \in Nat /\ Left = (Left - 1) + 1
      BY <1>2
    <3>2. QED
      BY <3>1
  <2>2. PICK m \in Nat : Left = m + 1
    BY <2>1
  <2>3. n * (m + 1) = n * m + n /\ n * m \in Nat
    OBVIOUS
  <2>4. QED
    BY <2>2, <2>3
<1>4. QED
  BY <1>2, <1>3

LEMMA FireBound ==
  ASSUME FireInv, NEW m \in Nat, NEW n \in Nat, m <= n * Left, KeptBut(Now, Now', m), Filter!Fault(n)
  PROVE  FireInv'
<1>1. faults \in Nat /\ faults' = faults + n /\ faults + n <= MaxFaults /\ MaxFaults \in Nat
  BY FireConstants DEF FireInv, FireSound, Filter!Fault
<1>2. Cardinality(Extra(Now)) <= faults * Left /\ Cardinality(Extra(Now')) <= Cardinality(Extra(Now)) + m
      /\ FireRight(Now')
  BY DEF FireInv, FireSound, KeptBut
<1>3. Cardinality(Extra(Now)) \in Nat /\ Cardinality(Extra(Now')) \in Nat
  BY <1>2, FS_CardinalityType DEF FireInv, FireSound, FireRight
<1>4. Left \in Nat
  BY LeftIs
<1>5. (faults + n) * Left = faults * Left + n * Left /\ faults * Left \in Nat /\ n * Left \in Nat
  BY <1>1, <1>4
<1>6. Cardinality(Extra(Now')) <= (faults + n) * Left
  <2> DEFINE x == Cardinality(Extra(Now))
             y == Cardinality(Extra(Now'))
             p == faults * Left
             q == n * Left
             r == (faults + n) * Left
  <2>1. x <= p /\ y <= x + m /\ m <= q /\ r = p + q /\ x \in Nat /\ y \in Nat /\ p \in Nat /\ q \in Nat
    BY <1>2, <1>3, <1>5
  <2> HIDE DEF x, y, p, q, r
  <2>2. y <= r
    BY <2>1
  <2>3. QED
    BY <2>2 DEF y, r
<1>7. faults' \in 0 .. MaxFaults
  BY <1>1
<1>8. FireSound(Now', faults')
  BY <1>1, <1>2, <1>6, <1>7 DEF FireSound
<1>9. QED
  BY <1>8, FireInvNextIs

LEMMA FireSame == ASSUME FireInv, Now' = Now, NEW n \in Nat, Filter!Fault(n) PROVE FireInv'
<1>1. KeptBut(Now, Now', 0)
  <2>1. FireRight(Now) /\ Cardinality(Extra(Now)) \in Nat
    BY FS_CardinalityType DEF FireInv, FireSound, FireRight
  <2>2. QED
    BY <2>1 DEF KeptBut
<1>2. 0 <= n * Left
  <2>1. n * Left \in Nat
    BY LeftIs
  <2>2. QED
    BY <2>1
<1>3. QED
  BY <1>1, <1>2, FireBound

LEMMA FireReachable == ASSUME FireInv, enabled PROVE Reachable(Now)
BY DEF FireInv, FireSound, Reachable, Now

LEMMA FireSetEnabled == ASSUME FireInv, Filter!SetEnabled PROVE FireInv'
<1>1. FireRight(Now) /\ ~Now.on
  BY DEF FireInv, FireSound, Now, Filter!SetEnabled
<1>2. CASE UNCHANGED <<enabled, rules>>
  <2>1. Now' = Now
    BY <1>2 DEF Now, Filter!SetEnabled, Filter!tracked
  <2>2. Filter!Fault(1)
    BY <1>1, <1>2 DEF Now, Filter!SetEnabled
  <2>3. QED
    BY <2>1, <2>2, FireSame
<1>3. CASE ~UNCHANGED <<enabled, rules>>
  <2>1. PICK n \in 0 .. 4, stays \in BOOLEAN :
          /\ Filter!FlushExistingConnections(n, stays)
          /\ rules' = Filter!Append(rules, IF stays THEN {Filter!Base, Filter!PublicOnly} ELSE {Filter!Base})
    BY <1>3 DEF Filter!SetEnabled
  <2>2. enabled' = TRUE
    BY <1>3 DEF Filter!SetEnabled
  <2>3. Now' = [Now EXCEPT !.rules = Filter!Append(Now.rules, IF stays THEN {Filter!Base, Filter!PublicOnly}
                                                              ELSE {Filter!Base}),
                           !.on = TRUE]
    BY NowIs, NowNextIs, <2>1, <2>2 DEF Fields, Filter!SetEnabled, Filter!tracked
  <2>4. KeptBut(Now, Now', IF stays THEN 1 ELSE 0)
    BY <1>1, <2>3, FireEnable
  <2>5. Filter!Fault(n) /\ n \in Nat /\ (stays => n >= 1)
    BY <2>1 DEF Filter!FlushExistingConnections
  <2> DEFINE m == IF stays THEN 1 ELSE 0
  <2>6. m \in Nat /\ m <= n
    BY <2>5
  <2> HIDE DEF m
  <2>7. m <= n * Left
    <3>1. n <= n * Left /\ n * Left \in Nat
      BY <2>5, LeftIs
    <3>2. QED
      BY <2>5, <2>6, <3>1
  <2>8. KeptBut(Now, Now', m)
    BY <2>4 DEF m
  <2>9. QED
    BY <2>5, <2>6, <2>7, <2>8, FireBound
<1>4. QED
  BY <1>2, <1>3

LEMMA FireSetAllowedPort ==
  ASSUME FireInv, NEW p \in Ports, NEW i \in Intfs, Filter!SetAllowedPort(p, i) PROVE FireInv'
<1>1. Reachable(Now) /\ <<i, p>> \notin Now.ports
  BY FireReachable DEF Filter!SetAllowedPort, Now
<1>2. CASE UNCHANGED <<rules, allowedInputPorts>> /\ Filter!Fault(1)
  <2>1. Now' = Now
    BY <1>2 DEF Now, Filter!SetAllowedPort
  <2>2. QED
    BY <1>2, <2>1, FireSame
<1>3. CASE /\ Filter!Fault(0) /\ rules' = Filter!Append(rules, Filter!AcceptInputToPort(i, p))
           /\ allowedInputPorts' = allowedInputPorts \cup {<<i, p>>}
  <2>1. Now' = [Now EXCEPT !.rules = Filter!Append(Now.rules, {Filter!Input(i, p)}), !.ports = Now.ports \cup {<<i, p>>}]
    BY NowIs, NowNextIs, <1>3 DEF Fields, Filter!SetAllowedPort, Filter!AcceptInputToPort
  <2>2. KeptBut(Now, Now', 0)
    BY <1>1, <2>1, FireAllowPort
  <2>3. 0 <= 0 * Left
    BY LeftIs
  <2>4. QED
    BY <1>3, <2>2, <2>3, FireBound
<1>4. QED
  BY <1>2, <1>3 DEF Filter!SetAllowedPort

LEMMA FireRemoveAllowedPort == ASSUME FireInv, NEW p \in Ports, Filter!RemoveAllowedPort(p) PROVE FireInv'
<1> DEFINE intfs == {i \in Filter!Devices \cup Tunnels : <<i, p>> \in allowedInputPorts}
<1>1. PICK done \in SUBSET intfs :
        /\ Filter!Fault(IF done = intfs THEN 0 ELSE 1)
        /\ rules' = Filter!deleteIPTablesRule(rules, {Filter!Input(i, p) : i \in done})
        /\ allowedInputPorts' = allowedInputPorts \ {<<i, p>> : i \in done}
  BY DEF Filter!RemoveAllowedPort
<1>2. Reachable(Now)
  BY FireReachable DEF Filter!RemoveAllowedPort
<1>3. done \in SUBSET Intfs /\ \A i \in done : <<i, p>> \in Now.ports
  BY DEF Intfs, Now
<1>4. Now' = [Now EXCEPT !.rules = Filter!deleteIPTablesRule(Now.rules, {Filter!Input(i, p) : i \in done}),
                         !.ports = Now.ports \ {<<i, p>> : i \in done}]
  BY NowIs, NowNextIs, <1>1 DEF Fields, Filter!RemoveAllowedPort
<1>5. KeptBut(Now, Now', 0)
  BY <1>2, <1>3, <1>4, FireRemovePorts
<1> DEFINE n == IF done = intfs THEN 0 ELSE 1
<1>6. n \in Nat /\ Filter!Fault(n)
  BY <1>1
<1> HIDE DEF n
<1>7. 0 <= n * Left
  <2>1. n * Left \in Nat
    BY <1>6, LeftIs
  <2>2. QED
    BY <2>1
<1>8. QED
  BY <1>5, <1>6, <1>7, FireBound

LEMMA FireOpenExchange == ASSUME FireInv, NEW e \in Exchanges, Filter!OpenExchange(e) PROVE FireInv'
<1>1. Reachable(Now) /\ e \notin Now.open
  BY FireReachable DEF Filter!OpenExchange, Now
<1>2. CASE UNCHANGED <<rules, exchanges>> /\ Filter!Fault(1)
  <2>1. Now' = Now
    BY <1>2 DEF Now, Filter!OpenExchange, Filter!tracked
  <2>2. QED
    BY <1>2, <2>1, FireSame
<1>3. CASE /\ Filter!Fault(0) /\ rules' = Filter!Append(rules, {Filter!Exchange(e)})
           /\ exchanges' = exchanges \cup {e}
  <2>1. Now' = [Now EXCEPT !.rules = Filter!Append(Now.rules, {Filter!Exchange(e)}), !.open = Now.open \cup {e}]
    BY NowIs, NowNextIs, <1>3 DEF Fields, Filter!OpenExchange, Filter!tracked
  <2>2. KeptBut(Now, Now', 0)
    BY <1>1, <2>1, FireOpen
  <2>3. 0 <= 0 * Left
    BY LeftIs
  <2>4. QED
    BY <1>3, <2>2, <2>3, FireBound
<1>4. QED
  BY <1>2, <1>3 DEF Filter!OpenExchange

LEMMA FireCloseExchange == ASSUME FireInv, NEW e \in Exchanges, Filter!CloseExchange(e) PROVE FireInv'
<1>1. FireRight(Now) /\ e \in Now.open
  BY DEF Filter!CloseExchange, Now, FireInv, FireSound
<1>2. Reachable(Now)
  BY <1>1 DEF FireRight, FireShape, Reachable
<1>3. PICK stays \in BOOLEAN :
        /\ Filter!Fault(IF stays THEN 1 ELSE 0)
        /\ rules' = IF stays THEN rules ELSE Filter!deleteIPTablesRule(rules, {Filter!Exchange(e)})
  <2>1. CASE Filter!Fault(0) /\ rules' = Filter!deleteIPTablesRule(rules, {Filter!Exchange(e)})
    BY <2>1
  <2>2. CASE Filter!Fault(1) /\ rules' = rules
    BY <2>2
  <2>3. QED
    BY <2>1, <2>2 DEF Filter!CloseExchange
<1>4. Now' = [Now EXCEPT !.rules = IF stays THEN Now.rules
                                   ELSE Filter!deleteIPTablesRule(Now.rules, {Filter!Exchange(e)}),
                         !.open = Now.open \ {e}]
  BY NowIs, NowNextIs, <1>3 DEF Fields, Filter!CloseExchange, Filter!tracked
<1> DEFINE n == IF stays THEN 1 ELSE 0
<1>5. KeptBut(Now, Now', n)
  BY <1>1, <1>2, <1>4, FireClose
<1>6. n \in Nat /\ Filter!Fault(n)
  BY <1>3
<1> HIDE DEF n
<1>7. n <= n * Left
  BY <1>6, LeftIs
<1>8. QED
  BY <1>5, <1>6, <1>7, FireBound

-----------------------------------------------------------------------------
LEMMA PartOfRoutes == ASSUME NEW n \in Nat, n <= Cardinality(Routes) - 1 PROVE n <= Left
<1>1. Cardinality(Routes) \in Nat
  BY FireConstants, FS_CardinalityType
<1>2. QED
  BY <1>1 DEF Left

LEMMA TimesLeft == ASSUME NEW a \in Nat, NEW b \in Nat, b <= Left PROVE a + b <= (a + 1) * Left
<1>1. a <= a * Left /\ Left \in Nat /\ a * Left \in Nat
  BY LeftIs
<1>2. (a + 1) * Left = a * Left + Left
  BY <1>1
<1>3. QED
  BY <1>1, <1>2

(* A new connection: disconnect, forget the interface, connect, and set the  *)
(* interface, of which the last two may not be reached.                      *)
LEMMA FireSetVPNConnection ==
  ASSUME FireInv, NEW c \in Connections, NEW i \in Tunnels, Filter!SetVPNConnection(c, i)
  PROVE  FireInv'
<1>1. PICK kept \in SUBSET Routes, added \in SUBSET Routes, keptIntf \in BOOLEAN, addedIntf \in BOOLEAN :
        LET connected == added = Routes
            b1 == Filter!DeleteToServer(rules, Routes \ kept, vpnConnection)
            b2 == IF keptIntf THEN b1 ELSE Filter!deleteIPTablesRule(b1, {Filter!Through(vpnIntf)})
            b3 == Filter!AppendToServer(b2, added, c)
        IN /\ vpnConnection = Filter!None => kept = {}
           /\ vpnIntf = Filter!None => ~keptIntf
           /\ addedIntf => connected
           /\ Filter!Fault(Filter!Cardinality(kept) + (IF keptIntf THEN 1 ELSE 0)
                           + (IF addedIntf THEN 0 ELSE 1))
           /\ rules' = IF addedIntf THEN Filter!Append(b3, {Filter!Through(i)}) ELSE b3
           /\ vpnConnection' = IF connected THEN c ELSE Filter!None
           /\ vpnIntf' = IF addedIntf THEN i ELSE Filter!None
  BY DEF Filter!SetVPNConnection
<1>2. Reachable(Now) /\ FireRight(Now)
  BY FireReachable DEF Filter!SetVPNConnection, Reachable
<1> DEFINE b1 == Filter!DeleteToServer(rules, Routes \ kept, vpnConnection)
           b2 == IF keptIntf THEN b1 ELSE Filter!deleteIPTablesRule(b1, {Filter!Through(vpnIntf)})
           b3 == Filter!AppendToServer(b2, added, c)
<1>rest. /\ enabled' = enabled /\ outboundSubnets' = outboundSubnets /\ allowedInputPorts' = allowedInputPorts
         /\ portRedirections' = portRedirections /\ exchanges' = exchanges
         /\ rules' = (IF addedIntf THEN Filter!Append(b3, {Filter!Through(i)}) ELSE b3)
         /\ vpnConnection' = (IF added = Routes THEN c ELSE Filter!None)
         /\ vpnIntf' = (IF addedIntf THEN i ELSE Filter!None)
  BY <1>1 DEF Filter!SetVPNConnection
<1> HIDE DEF b1, b2, b3
<1> DEFINE s1 == [Now EXCEPT !.rules = Filter!DeleteToServer(Now.rules, Routes \ kept, Now.conn), !.conn = Filter!None]
           s2 == [s1 EXCEPT !.rules = IF keptIntf THEN s1.rules
                                      ELSE Filter!deleteIPTablesRule(s1.rules, {Filter!Through(s1.intf)}),
                            !.intf = Filter!None]
           s3 == [s2 EXCEPT !.rules = Filter!AppendToServer(s2.rules, added, c),
                            !.conn = IF added = Routes THEN c ELSE Filter!None]
           s4 == [s3 EXCEPT !.rules = Filter!Append(s3.rules, {Filter!Through(i)}), !.intf = i]
           k == Cardinality(kept)
           stays == IF keptIntf THEN 1 ELSE 0
           some == IF added = Routes THEN 0 ELSE Cardinality(added)
<1>3. /\ DOMAIN s1 = Fields /\ s1.on = enabled /\ s1.conn = Filter!None /\ s1.intf = vpnIntf
      /\ s1.subnets = outboundSubnets /\ s1.ports = allowedInputPorts /\ s1.redirs = portRedirections
      /\ s1.open = exchanges
      /\ s1.rules = b1
  BY NowIs DEF Fields, b1
<1>4. KeptBut(Now, s1, k)
  BY <1>1, <1>2, NowIs, FireDisconnect
<1> HIDE DEF s1
<1>5. Reachable(s1) /\ FireRight(s1)
  BY <1>2, <1>3, <1>4, NowIs DEF KeptBut, Reachable
<1>6. /\ DOMAIN s2 = Fields /\ s2.on = enabled /\ s2.conn = Filter!None /\ s2.intf = Filter!None
      /\ s2.subnets = outboundSubnets /\ s2.ports = allowedInputPorts /\ s2.redirs = portRedirections
      /\ s2.open = exchanges
      /\ s2.rules = b2
  BY <1>3 DEF Fields, b2
<1>7. KeptBut(s1, s2, stays)
  BY <1>5, FireDropIntf
<1> HIDE DEF s2
<1>8. Reachable(s2) /\ FireRight(s2)
  BY <1>3, <1>5, <1>6, <1>7 DEF KeptBut, Reachable
<1>9. /\ DOMAIN s3 = Fields /\ s3.on = enabled /\ s3.conn = (IF added = Routes THEN c ELSE Filter!None)
      /\ s3.intf = Filter!None
      /\ s3.subnets = outboundSubnets /\ s3.ports = allowedInputPorts /\ s3.redirs = portRedirections
      /\ s3.open = exchanges
      /\ s3.rules = b3
  BY <1>6 DEF Fields, b3
<1>10. KeptBut(s2, s3, some)
  BY <1>6, <1>8, FireConnect
<1>11. s3 = [x \in Fields |-> s3[x]]
  BY <1>6 DEF Fields
<1> HIDE DEF s3
<1>12. Reachable(s3) /\ FireRight(s3)
  BY <1>6, <1>8, <1>9, <1>10 DEF KeptBut, Reachable
<1>13. KeptBut(s3, s4, 0)
  BY <1>9, <1>12, FireAddIntf
<1>14. /\ k \in Nat /\ stays \in Nat /\ some \in Nat /\ some <= Left /\ k = Filter!Cardinality(kept)
  <2>1. IsFiniteSet(kept) /\ IsFiniteSet(added) /\ IsFiniteSet(Routes)
    BY FireConstants, FS_Subset
  <2>2. Cardinality(kept) \in Nat /\ Cardinality(added) \in Nat /\ Cardinality(Routes) \in Nat
    BY <2>1, FS_CardinalityType
  <2>3. added # Routes => Cardinality(added) <= Cardinality(Routes) - 1
    <3>1. SUFFICES ASSUME added # Routes PROVE Cardinality(added) < Cardinality(Routes)
      BY <2>2
    <3>2. Cardinality(added) <= Cardinality(Routes) /\ Cardinality(added) # Cardinality(Routes)
      BY <2>1, <3>1, FS_Subset
    <3>3. QED
      BY <2>2, <3>2
  <2>4. added # Routes => Cardinality(added) <= Left
    BY <2>2, <2>3, PartOfRoutes
  <2>5. QED
    BY <2>2, <2>4, LeftIs, FireCardinality
<1> HIDE DEF k, stays, some
<1>15. KeptBut(Now, s2, k + stays)
  BY <1>2, <1>4, <1>7, <1>14, KeptThenKept
<1>16. k + stays \in Nat /\ k + stays + some \in Nat
  BY <1>14
<1>17. KeptBut(Now, s3, k + stays + some)
  <2> DEFINE m == k + stays
  <2>1. m \in Nat /\ KeptBut(Now, s2, m)
    BY <1>15, <1>16
  <2> HIDE DEF m
  <2>2. KeptBut(Now, s3, m + some)
    BY <1>2, <1>10, <1>14, <2>1, KeptThenKept
  <2>3. QED
    BY <2>2 DEF m
<1> DEFINE m == k + stays + some
<1>18. m \in Nat /\ KeptBut(Now, s3, m)
  BY <1>16, <1>17
<1>19. Filter!Fault(k + stays + (IF addedIntf THEN 0 ELSE 1))
  BY <1>1, <1>14 DEF stays
<1>20. CASE addedIntf
  <2>1. added = Routes
    BY <1>1, <1>20
  <2>2. Now' = s4
    BY <1>rest, <1>9, <1>11, <1>20, <2>1, NowNextIs DEF Fields
  <2> HIDE DEF m
  <2>3. KeptBut(Now, s4, m + 0)
    BY <1>2, <1>13, <1>18, KeptThenKept
  <2> HIDE DEF s4
  <2>4. KeptBut(Now, Now', m)
    <3>1. m + 0 = m
      BY <1>18
    <3>2. QED
      BY <2>2, <2>3, <3>1
  <2>5. some = 0
    BY <2>1 DEF some
  <2>6. m = k + stays /\ Filter!Fault(m)
    <3>1. m = k + stays /\ k + stays + 0 = m
      BY <1>14, <2>5 DEF m
    <3>2. QED
      BY <1>19, <1>20, <3>1
  <2>7. m <= m * Left
    BY <1>18, LeftIs
  <2>8. QED
    BY <1>18, <2>4, <2>6, <2>7, FireBound
<1>21. CASE ~addedIntf
  <2>1. Now' = s3
    BY <1>rest, <1>9, <1>11, <1>21, NowNextIs DEF Fields
  <2>2. KeptBut(Now, Now', m)
    BY <1>18, <2>1
  <2> DEFINE n == k + stays
  <2>3. n \in Nat /\ m = n + some /\ Filter!Fault(n + 1)
    BY <1>14, <1>19, <1>21
  <2> HIDE DEF m, n
  <2>4. m <= (n + 1) * Left
    BY <1>14, <2>3, TimesLeft
  <2> DEFINE more == n + 1
  <2>5. more \in Nat /\ m <= more * Left /\ Filter!Fault(more)
    BY <2>3, <2>4
  <2> HIDE DEF more
  <2>6. QED
    BY <1>18, <2>2, <2>5, FireBound
<1>22. QED
  BY <1>20, <1>21

(* A redirection to elsewhere is removed first.                              *)
LEMMA FireRedirectPort ==
  ASSUME FireInv, NEW i \in Tunnels, NEW p \in Ports, NEW q \in Ports \cup {0}, Filter!RedirectPort(i, p, q)
  PROVE  FireInv'
<1> DEFINE conflict == Filter!Conflicts(i, p, q)
           cleared == IF conflict = {} THEN rules
                      ELSE LET x == CHOOSE x \in conflict : TRUE
                           IN Filter!deleteIPTablesRule(rules, Filter!RedirectPortRules(i, p, x[3]))
           s1 == [Now EXCEPT !.rules = cleared, !.redirs = portRedirections \ conflict]
           s2 == [s1 EXCEPT !.rules = Filter!Append(s1.rules, Filter!RedirectPortRules(i, p, q)),
                            !.redirs = s1.redirs \cup {<<i, p, q>>}]
<1>1. /\ Reachable(Now) /\ FireRight(Now) /\ <<i, p, q>> \notin portRedirections
      /\ portRedirections \in SUBSET (Tunnels \X Ports \X (Ports \cup {0}))
      /\ \A a, b \in portRedirections : a[1] = b[1] /\ a[2] = b[2] => a = b
  <2>1. Reachable(Now) /\ FireRight(Now) /\ FireShape(Now) /\ Now \in FireStates
    BY FireReachable DEF Filter!RedirectPort, Reachable, FireRight, FireShape
  <2>2. QED
    BY <2>1, NowIs DEF Filter!RedirectPort, FireShape, FireStates
<1>2. \A a \in portRedirections : a[1] \in Tunnels /\ a[2] \in Ports /\ a[3] \in Ports \cup {0} /\ a = <<a[1], a[2], a[3]>>
  BY <1>1
<1>3. /\ \/ /\ Filter!Fault(0)
            /\ rules' = Filter!Append(cleared, Filter!RedirectPortRules(i, p, q))
            /\ portRedirections' = (portRedirections \ conflict) \cup {<<i, p, q>>}
         \/ /\ Filter!Fault(1) /\ rules' = cleared /\ portRedirections' = portRedirections \ conflict
         \/ Filter!Fault(1) /\ UNCHANGED <<rules, portRedirections>>
      /\ UNCHANGED <<enabled, vpnConnection, vpnIntf, outboundSubnets, allowedInputPorts, exchanges>>
  BY DEF Filter!RedirectPort
<1>4. KeptBut(Now, s1, 0)
  <2>1. CASE conflict = {}
    <3>1. s1 = Now
      BY <2>1, NowIs DEF Fields
    <3>2. Cardinality(Extra(Now)) \in Nat
      BY <1>1, FS_CardinalityType DEF FireRight
    <3> HIDE DEF s1
    <3>3. QED
      BY <1>1, <3>1, <3>2 DEF KeptBut
  <2>2. CASE conflict # {}
    <3> DEFINE x == CHOOSE x \in conflict : TRUE
    <3>1. x \in conflict
      BY <2>2
    <3> HIDE DEF x
    <3>2. x \in portRedirections /\ x[1] = i /\ x[2] = p
      BY <3>1 DEF Filter!Conflicts
    <3>3. x = <<i, p, x[3]>> /\ x[3] \in Ports \cup {0}
      BY <1>2, <3>2
    <3>4. conflict = {<<i, p, x[3]>>}
      BY <1>1, <3>1, <3>2, <3>3 DEF Filter!Conflicts
    <3>5. cleared = Filter!deleteIPTablesRule(Now.rules, Filter!RedirectPortRules(i, p, x[3]))
      BY <2>2, NowIs DEF x
    <3> DEFINE r == x[3]
    <3>6. /\ s1 = [Now EXCEPT !.rules = Filter!deleteIPTablesRule(Now.rules, Filter!RedirectPortRules(i, p, r)),
                              !.redirs = Now.redirs \ {<<i, p, r>>}]
          /\ r \in Ports \cup {0} /\ <<i, p, r>> \in Now.redirs
      <4> HIDE DEF cleared, conflict
      <4>1. QED
        BY <3>2, <3>3, <3>4, <3>5, NowIs
    <3> HIDE DEF r, s1
    <3>7. QED
      BY <1>1, <3>6, FireUnredirect
  <2>3. QED
    BY <2>1, <2>2
<1>5. \A a \in portRedirections \ conflict : ~(a[1] = i /\ a[2] = p)
  <2>1. SUFFICES ASSUME NEW a \in portRedirections, a \notin conflict, a[1] = i, a[2] = p PROVE FALSE
    OBVIOUS
  <2>2. a[3] = q
    BY <2>1 DEF Filter!Conflicts
  <2>3. QED
    BY <1>1, <1>2, <2>1, <2>2
<1> HIDE DEF cleared, conflict
<1>6. /\ DOMAIN s1 = Fields /\ s1.on = enabled /\ s1.conn = vpnConnection /\ s1.intf = vpnIntf
      /\ s1.subnets = outboundSubnets /\ s1.ports = allowedInputPorts
      /\ s1.redirs = portRedirections \ conflict /\ s1.open = exchanges /\ s1.rules = cleared
      /\ s1 = [x \in Fields |-> s1[x]]
  BY NowIs DEF Fields
<1> HIDE DEF s1
<1>7. Reachable(s1)
  BY <1>1, <1>4, <1>6, NowIs DEF KeptBut, Reachable
<1>8. KeptBut(s1, s2, 0)
  BY <1>5, <1>6, <1>7, FireRedirect
<1>9. KeptBut(Now, s2, 0)
  <2> HIDE DEF s2
  <2>1. KeptBut(Now, s2, 0 + 0)
    BY <1>1, <1>4, <1>8, KeptThenKept
  <2>2. QED
    BY <2>1
<1>10. 0 <= 0 * Left /\ 0 <= 1 * Left
  BY LeftIs
<1>11. CASE /\ Filter!Fault(0)
            /\ rules' = Filter!Append(cleared, Filter!RedirectPortRules(i, p, q))
            /\ portRedirections' = (portRedirections \ conflict) \cup {<<i, p, q>>}
  <2>1. Now' = s2
    BY <1>3, <1>6, <1>11, NowNextIs DEF Fields
  <2> HIDE DEF s2
  <2>2. QED
    BY <1>9, <1>10, <1>11, <2>1, FireBound
<1>12. CASE Filter!Fault(1) /\ rules' = cleared /\ portRedirections' = portRedirections \ conflict
  <2>1. Now' = s1
    BY <1>3, <1>6, <1>12, NowNextIs DEF Fields
  <2>2. QED
    BY <1>4, <1>10, <1>12, <2>1, FireBound
<1>13. CASE Filter!Fault(1) /\ UNCHANGED <<rules, portRedirections>>
  <2>1. Now' = Now
    BY <1>3, <1>13, NowIs, NowNextIs DEF Fields
  <2>2. QED
    BY <1>13, <2>1, FireSame
<1>14. QED
  BY <1>3, <1>11, <1>12, <1>13

-----------------------------------------------------------------------------
LEMMA SubnetRulesFinite ==
  /\ \A N \in SUBSET Subnets : IsFiniteSet(SubnetRules(N))
  /\ \A n \in Subnets : Cardinality(SubnetRules({n})) <= Cardinality(Routes)
<1>1. IsFiniteSet(Routes) /\ IsFiniteSet(Subnets)
  BY FireConstants
<1>2. ASSUME NEW N \in SUBSET Subnets
      PROVE  IsFiniteSet(SubnetRules(N))
  <2> DEFINE all == Routes \X Subnets
             f == [a \in all |-> Filter!ToSubnet(a[1], a[2])]
             rs == {f[a] : a \in all}
  <2>1. IsFiniteSet(all)
    BY <1>1, FS_Product
  <2>2. f \in Surjection(all, rs)
    <3> HIDE DEF all
    <3>1. QED
      BY DEF Surjection
  <2>3. SubnetRules(N) \subseteq rs
    <3>1. ASSUME NEW n \in N, NEW r \in Filter!RoutesTo(n) PROVE Filter!ToSubnet(r, n) \in rs
      <4>1. <<r, n>> \in all
        BY DEF Filter!RoutesTo
      <4>2. f[<<r, n>>] = Filter!ToSubnet(r, n)
        BY <4>1
      <4> HIDE DEF f, all
      <4>3. QED
        BY <4>1, <4>2
    <3> HIDE DEF rs
    <3>2. QED
      BY <3>1 DEF SubnetRules
  <2> HIDE DEF all, f, rs
  <2>4. IsFiniteSet(rs)
    BY <2>1, <2>2, FS_Surjection
  <2>5. QED
    BY <2>3, <2>4, FS_Subset
<1>3. ASSUME NEW n \in Subnets PROVE Cardinality(SubnetRules({n})) <= Cardinality(Routes)
  <2> DEFINE rs == Filter!RoutesTo(n)
             f == [r \in rs |-> Filter!ToSubnet(r, n)]
  <2>1. rs \in SUBSET Routes
    BY DEF Filter!RoutesTo
  <2> HIDE DEF rs
  <2>2. IsFiniteSet(rs) /\ Cardinality(rs) <= Cardinality(Routes)
    BY <1>1, <2>1, FS_Subset
  <2>3. SubnetRules({n}) = {f[r] : r \in rs}
    BY DEF SubnetRules, rs
  <2>4. f \in Surjection(rs, SubnetRules({n}))
    BY <2>3 DEF Surjection
  <2> HIDE DEF f
  <2>5. Cardinality(SubnetRules({n})) <= Cardinality(rs) /\ IsFiniteSet(SubnetRules({n}))
    BY <2>2, <2>4, FS_Surjection
  <2>6. Cardinality(SubnetRules({n})) \in Nat /\ Cardinality(rs) \in Nat /\ Cardinality(Routes) \in Nat
    BY <1>1, <2>2, <2>5, FS_CardinalityType
  <2>7. QED
    BY <2>2, <2>5, <2>6
<1>4. QED
  BY <1>2, <1>3

LEMMA FireSetOutboundSubnets ==
  ASSUME FireInv, NEW subnets \in SUBSET Subnets, Filter!SetOutboundSubnets(subnets) PROVE FireInv'
<1> DEFINE gone == {n \in outboundSubnets \ subnets : SubnetRules({n}) # {}}
           new == {n \in subnets \ outboundSubnets : SubnetRules({n}) # {}}
<1>1. gone = {n \in outboundSubnets \ subnets : Filter!RoutesTo(n) # {}}
      /\ new = {n \in subnets \ outboundSubnets : Filter!RoutesTo(n) # {}}
  <2>1. \A n : SubnetRules({n}) # {} <=> Filter!RoutesTo(n) # {}
    BY DEF SubnetRules
  <2>2. QED
    BY <2>1
<1>2. PICK kept \in SUBSET SubnetRules(gone), done \in SUBSET new, other \in SUBSET SubnetRules(new) :
        /\ \/ done = new /\ other = {} /\ Filter!Fault(Filter!Cardinality(kept))
           \/ /\ \E n \in new \ done : other \subseteq SubnetRules({n}) /\ other # SubnetRules({n})
              /\ Filter!Fault(Filter!Cardinality(kept) + 1)
        /\ rules' = Filter!Append(Filter!deleteIPTablesRule(rules, SubnetRules(gone) \ kept),
                                  SubnetRules(done) \cup other)
        /\ outboundSubnets' = (outboundSubnets \ gone) \cup done
  <2> HIDE DEF gone, new
  <2>1. QED
    BY <1>1 DEF Filter!SetOutboundSubnets, SubnetRules
<1>3. /\ Reachable(Now) /\ outboundSubnets \in SUBSET Subnets
      /\ UNCHANGED <<enabled, vpnConnection, vpnIntf, allowedInputPorts, portRedirections, exchanges>>
  <2>1. Reachable(Now) /\ Now \in FireStates
    BY FireReachable DEF Filter!SetOutboundSubnets, Reachable, FireRight, FireShape
  <2>2. QED
    BY <2>1, NowIs DEF Filter!SetOutboundSubnets, FireStates
<1>4. /\ gone \in SUBSET outboundSubnets /\ done \in SUBSET (Subnets \ outboundSubnets) /\ new \in SUBSET Subnets
      /\ new \in SUBSET (Subnets \ outboundSubnets)
  OBVIOUS
<1> HIDE DEF gone, new
<1>5. other \in SUBSET SubnetRules(Subnets \ outboundSubnets)
  BY <1>4 DEF SubnetRules
<1>6. other \cap SubnetRules(done) = {}
  <2>1. CASE other = {}
    BY <2>1
  <2>2. CASE \E n \in new \ done : other \subseteq SubnetRules({n}) /\ other # SubnetRules({n})
    <3>1. PICK n \in new \ done : other \subseteq SubnetRules({n})
      BY <2>2
    <3>2. SUFFICES ASSUME NEW x \in SubnetRules({n}), x \in SubnetRules(done) PROVE FALSE
      BY <3>1
    <3>3. PICK r \in Filter!RoutesTo(n) : x = Filter!ToSubnet(r, n)
      BY DEF SubnetRules
    <3>4. n \in done
      BY <3>2, <3>3, SubnetRulesAre
    <3>5. QED
      BY <3>1, <3>4
  <2>3. QED
    BY <1>2, <2>1, <2>2
<1>7. IsFiniteSet(kept) /\ IsFiniteSet(other)
  <2>1. gone \in SUBSET Subnets
    BY <1>3, <1>4
  <2>2. IsFiniteSet(SubnetRules(gone)) /\ IsFiniteSet(SubnetRules(new))
    BY <1>4, <2>1, SubnetRulesFinite
  <2>3. QED
    BY <2>2, FS_Subset
<1>8. Now' = [Now EXCEPT !.rules = Filter!Append(Filter!deleteIPTablesRule(Now.rules, SubnetRules(gone) \ kept),
                                                 SubnetRules(done) \cup other),
                         !.subnets = (Now.subnets \ gone) \cup done]
  BY <1>2, <1>3, NowIs, NowNextIs DEF Fields
<1> DEFINE k == Cardinality(kept)
           o == Cardinality(other)
<1>9. KeptBut(Now, Now', k + o)
  <2>1. gone \in SUBSET Now.subnets /\ done \in SUBSET (Subnets \ Now.subnets)
        /\ other \in SUBSET SubnetRules(Subnets \ Now.subnets)
    BY <1>4, <1>5, NowIs
  <2>2. QED
    BY <1>3, <1>6, <1>7, <1>8, <2>1, FireSubnets
<1>10. k \in Nat /\ o \in Nat /\ k = Filter!Cardinality(kept)
  BY <1>7, FS_CardinalityType, FireCardinality
<1>11. CASE done = new /\ other = {} /\ Filter!Fault(Filter!Cardinality(kept))
  <2>1. o = 0
    BY <1>11, FS_EmptySet
  <2> HIDE DEF k, o
  <2>2. KeptBut(Now, Now', k)
    <3>1. k + o = k
      BY <1>10, <2>1
    <3>2. QED
      BY <1>9, <3>1
  <2>3. k <= k * Left
    BY <1>10, LeftIs
  <2>4. QED
    BY <1>10, <1>11, <2>2, <2>3, FireBound
<1>12. CASE /\ \E n \in new \ done : other \subseteq SubnetRules({n}) /\ other # SubnetRules({n})
            /\ Filter!Fault(Filter!Cardinality(kept) + 1)
  <2>1. PICK n \in new \ done : other \subseteq SubnetRules({n}) /\ other # SubnetRules({n})
    BY <1>12
  <2>2. o <= Left
    <3>1. n \in Subnets /\ {n} \in SUBSET Subnets
      BY <1>4
    <3>2. IsFiniteSet(SubnetRules({n})) /\ Cardinality(SubnetRules({n})) <= Cardinality(Routes)
      BY <3>1, SubnetRulesFinite
    <3>3. Cardinality(SubnetRules({n})) \in Nat /\ Cardinality(Routes) \in Nat
      BY <3>2, FireConstants, FS_CardinalityType
    <3>4. o <= Cardinality(SubnetRules({n})) /\ o # Cardinality(SubnetRules({n}))
      BY <2>1, <3>2, FS_Subset
    <3> HIDE DEF o
    <3>5. o <= Cardinality(Routes) - 1
      BY <1>10, <3>2, <3>3, <3>4
    <3>6. QED
      BY <1>10, <3>5, PartOfRoutes
  <2> HIDE DEF k, o
  <2>3. k + o <= (k + 1) * Left
    BY <1>10, <2>2, TimesLeft
  <2> DEFINE m == k + o
             n1 == k + 1
  <2>4. m \in Nat /\ n1 \in Nat /\ m <= n1 * Left /\ Filter!Fault(n1) /\ KeptBut(Now, Now', m)
    BY <1>9, <1>10, <1>12, <2>3
  <2> HIDE DEF m, n1
  <2>5. QED
    BY <2>4, FireBound
<1>13. QED
  BY <1>2, <1>11, <1>12

LEMMA FireInit == Filter!Init => FireInv
<1>1. SUFFICES ASSUME Filter!Init PROVE FireInv
  OBVIOUS
<1>2. /\ Now.on = FALSE /\ Now.rules = [x \in Filter!Rule |-> 0] /\ Now.conn = Filter!None /\ Now.intf = Filter!None
      /\ Now.subnets = {} /\ Now.ports = {} /\ Now.redirs = {} /\ Now.open = {} /\ faults = 0
  BY <1>1, NowIs DEF Filter!Init
<1>3. Now \in FireStates
  BY <1>1 DEF FireStates, Now, Filter!Init
<1>4. \A x \in Filter!Rule : Now.rules[x] = 0 /\ ExpectedOf(Now, x) = 0
  BY <1>2, NotAsked
<1>5. FireShape(Now)
  BY <1>2, <1>3, <1>4, FS_EmptySet DEF FireShape
<1>6. Extra(Now) = {}
  BY <1>4 DEF Extra
<1>7. IsFiniteSet(Extra(Now)) /\ Cardinality(Extra(Now)) = 0
  BY <1>6, FS_EmptySet
<1>8. 0 <= 0 * Left /\ faults \in 0 .. MaxFaults
  BY <1>2, LeftIs, FireConstants
<1>9. FireRight(Now)
  BY <1>4, <1>5, <1>7 DEF FireRight
<1>10. QED
  BY <1>2, <1>7, <1>8, <1>9 DEF FireInv, FireSound

LEMMA FireStep == FireInv /\ [Filter!Next]_(Filter!vars) => FireInv'
<1>1. SUFFICES ASSUME FireInv, [Filter!Next]_(Filter!vars) PROVE FireInv'
  OBVIOUS
<1>2. CASE Filter!SetEnabled
  BY <1>1, <1>2, FireSetEnabled
<1>3. ASSUME NEW c \in Connections, NEW i \in Tunnels, Filter!SetVPNConnection(c, i) PROVE FireInv'
  BY <1>1, <1>3, FireSetVPNConnection
<1>4. ASSUME NEW p \in Ports, NEW i \in Filter!Devices \cup Tunnels, Filter!SetAllowedPort(p, i) PROVE FireInv'
  BY <1>1, <1>4, FireSetAllowedPort DEF Intfs
<1>5. ASSUME NEW p \in Ports, Filter!RemoveAllowedPort(p) PROVE FireInv'
  BY <1>1, <1>5, FireRemoveAllowedPort
<1>6. ASSUME NEW i \in Tunnels, NEW p \in Ports, NEW q \in Ports \cup {0}, Filter!RedirectPort(i, p, q) PROVE FireInv'
  BY <1>1, <1>6, FireRedirectPort
<1>7. ASSUME NEW subnets \in SUBSET Subnets, Filter!SetOutboundSubnets(subnets) PROVE FireInv'
  BY <1>1, <1>7, FireSetOutboundSubnets
<1>8. ASSUME NEW e \in Exchanges, Filter!OpenExchange(e) PROVE FireInv'
  BY <1>1, <1>8, FireOpenExchange
<1>9. ASSUME NEW e \in Exchanges, Filter!CloseExchange(e) PROVE FireInv'
  BY <1>1, <1>9, FireCloseExchange
<1>10. CASE UNCHANGED Filter!vars
  <2>1. Now' = Now /\ faults' = faults
    BY <1>10 DEF Now, Filter!vars, Filter!tracked
  <2>2. QED
    BY <1>1, <2>1, FireInvNextIs DEF FireInv
<1>11. QED
  BY <1>1, <1>2, <1>3, <1>4, <1>5, <1>6, <1>7, <1>8, <1>9, <1>10 DEF Filter!Next

LEMMA FireInvIsEnough == FireInv => Filter!TypeOK /\ Filter!StateIsInstalled /\ Filter!NothingElseIsAllowed
<1>1. SUFFICES ASSUME FireInv PROVE Filter!TypeOK /\ Filter!StateIsInstalled /\ Filter!NothingElseIsAllowed
  OBVIOUS
<1>2. /\ Now \in FireStates /\ faults \in 0 .. MaxFaults /\ Cardinality(Extra(Now)) <= faults * Left
      /\ \A x \in Filter!Rule : Now.rules[x] >= ExpectedOf(Now, x)
  BY <1>1 DEF FireInv, FireSound, FireRight, FireShape
<1>3. Filter!TypeOK
  BY <1>2, NowIs DEF Filter!TypeOK, FireStates, Intfs
<1>4. Filter!StateIsInstalled
  BY <1>2, NowIs, ExpectedIs DEF Filter!StateIsInstalled
<1>5. Filter!Superfluous = Extra(Now)
  BY NowIs, ExpectedIs DEF Filter!Superfluous, Extra
<1>6. Filter!NothingElseIsAllowed
  BY <1>2, <1>5, FireCardinality DEF Filter!NothingElseIsAllowed, Left
<1>7. QED
  BY <1>3, <1>4, <1>6

LEMMA FireInvariance == Filter!Spec => []FireInv
BY FireInit, FireStep, PTL DEF Filter!Spec

-----------------------------------------------------------------------------
(* The whole: a step of one part is a step of each of the others that        *)
(* changes nothing.                                                          *)
LEMMA PartsImplemented ==
  Spec => Filter!Spec /\ Kernel!Spec /\ Runner!Spec /\ MTU!Spec /\ Socks!Spec /\ UDP!Spec
<1>1. Init => Filter!Init /\ Kernel!Init /\ Runner!Init /\ MTU!Init /\ Socks!Init /\ UDP!Init
  BY DEF Init
<1>2. [Next]_vars => [Filter!Next]_(Filter!vars)
  BY DEF Next, vars, firewall, Filter!vars, Filter!tracked, FirewallNext, RoutingNext, RunnerNext, MTUNext,
         SocksNext, UDPNext
<1>3. [Next]_vars => [Kernel!Next]_rt
  BY DEF Next, vars, FirewallNext, RoutingNext, RunnerNext, MTUNext, SocksNext, UDPNext
<1>4. [Next]_vars => [Runner!Next]_dev
  BY DEF Next, vars, FirewallNext, RoutingNext, RunnerNext, MTUNext, SocksNext, UDPNext
<1>5. [Next]_vars => [MTU!Next]_pm
  BY DEF Next, vars, FirewallNext, RoutingNext, RunnerNext, MTUNext, SocksNext, UDPNext
<1>6. [Next]_vars => [Socks!Next]_socks
  BY DEF Next, vars, FirewallNext, RoutingNext, RunnerNext, MTUNext, SocksNext, UDPNext
<1>7. [Next]_vars => [UDP!Next]_router
  BY DEF Next, vars, FirewallNext, RoutingNext, RunnerNext, MTUNext, SocksNext, UDPNext
<1>8. QED
  BY <1>1, <1>2, <1>3, <1>4, <1>5, <1>6, <1>7, PTL
     DEF Spec, Filter!Spec, Kernel!Spec, Runner!Spec, MTU!Spec, Socks!Spec, UDP!Spec

(* Every part is always in a state of its type.                              *)
THEOREM NetworkIsTyped == Spec => []TypeOK
<1>1. FireInv /\ RtInv /\ DevInv /\ MTUInv(pm) /\ SocksInv /\ UInv(router) => TypeOK
  BY FireInvIsEnough, RtInvIsEnough, DevInvIsEnough, MTUInvIsEnough, SocksInvIsEnough, UInvIsEnough
     DEF TypeOK, SocksIsRight
<1>2. QED
  BY <1>1, PartsImplemented, FireInvariance, RtInvariance, DevInvariance, MTUInvariance, SocksInvariance,
     UInvariance, PTL

(* firewall: whatever command fails, the kernel has every rule the firewall  *)
(* believes in, and of all others no more copies than the failures account   *)
(* for: one each, or one less than there are routes.                         *)
THEOREM FirewallIsExact == Spec => []KillSwitchIsExact
<1>1. FireInv => KillSwitchIsExact
  BY FireInvIsEnough DEF KillSwitchIsExact
<1>2. QED
  BY <1>1, PartsImplemented, FireInvariance, PTL

(* routing, runners, socks5: whatever fails, is killed or crashes, what has  *)
(* ended leaves nothing behind that holds up what comes after it.            *)
THEOREM RunsLeaveNothingBehind == Spec => []NothingIsLeft
<1>1. RtInv /\ DevInv /\ SocksInv /\ UInv(router) => NothingIsLeft
  BY RtInvIsEnough, DevInvIsEnough, SocksInvIsEnough, UInvIsEnough DEF NothingIsLeft, SocksIsRight
<1>2. QED
  BY <1>1, PartsImplemented, RtInvariance, DevInvariance, SocksInvariance, UInvariance, PTL

(* pmtud: for every path and server, the size the search ends with is        *)
(* carried, no larger one of those it may find is, and the one panic is for  *)
(* an MSS below the smallest test.                                           *)
THEOREM SearchFindsThePath == Spec => []MTUIsCarried
<1>1. MTUInv(pm) => MTUIsCarried
  BY MTUInvIsEnough DEF MTUIsCarried
<1>2. QED
  BY <1>1, PartsImplemented, MTUInvariance, PTL
=============================================================================
