------------------------------- MODULE PathMTU -------------------------------
(* internal/pmtud: the search for the largest packet the path carries, with  *)
(* ICMP against one address after the other, then with TCP against the       *)
(* server of the largest MSS, in rounds of tests that run at the same time   *)
(* and may each be lost. Sizes are small numbers with the order and the      *)
(* distances that matter.                                                    *)
EXTENDS Naturals, FiniteSets, FiniteSetsExt

CONSTANTS
    Physical,       \* physicalLinkMTU
    MinMTU,         \* MinIPv4MTU
    Paths,          \* what the path may carry
    TCPHeaders,     \* length of the headers of IP and TCP
    MSSs,           \* what a server may announce
    TCPServers,     \* tcpAddrs
    ICMPServers,    \* how many icmpAddrs
    TestsLength,    \* mtusLength
    Margin,         \* mtuMargin
    SafetyBuffer,
    MaxLost         \* how many packets the path may lose or double

PathMTUConstants ==
    /\ {MinMTU, Physical, TCPHeaders, Margin, SafetyBuffer, MaxLost, ICMPServers} \subseteq Nat
    /\ TestsLength \in Nat \ {0, 1} /\ MinMTU < Physical
    /\ Paths \subseteq MinMTU .. Physical
    /\ MSSs \subseteq Nat \ {0} /\ IsFiniteSet(TCPServers)

(* A record with the fields:                                                 *)
(*   path       what the path carries                                        *)
(*   marks      the kernel has the modules to match marks                    *)
(*   at         "nextHop", "echo", "mss", "tcp", "found",                    *)
(*              "error" or "panic"                                           *)
(*   icmpTried  addresses done; icmp: what ICMP found, or 0                  *)
(*   lo, hi     the sizes still to tell apart                                *)
(*   mtu        the result                                                   *)
(*   lost       packets lost, or come twice                                  *)
(*   mss        of the server TCP tests against                              *)
(*   alone      TCP was left one size to choose: kept for the properties     *)
VARIABLE pm

Init ==
    \E path \in Paths, marks \in BOOLEAN :
      pm = [path |-> path, marks |-> marks, at |-> IF ICMPServers = 0 THEN "mss" ELSE "nextHop", icmpTried |-> 0,
            icmp |-> 0, lo |-> MinMTU, hi |-> Physical, mtu |-> 0, lost |-> 0, mss |-> 0, alone |-> FALSE]
-----------------------------------------------------------------------------
(* A difference of uint32: one below zero is larger than any size.           *)
Wrapped == 2 ^ 16
Minus(a, b) == IF a < b THEN Wrapped ELSE a - b
Larger(a, b) == IF a < b THEN b ELSE a

(* MakeMTUsToTest: all sizes, or as many as may be tested, evenly spaced and *)
(* rounded, with both ends.                                                  *)
MTUsToTest(lo, hi) ==
    LET n == TestsLength - 1
    IN  IF hi - lo <= TestsLength THEN lo .. hi
        ELSE {lo + (2 * k * (hi - lo) + n) \div (2 * n) : k \in 0 .. n - 1} \cup {hi}

\* Mutant: the size that passed is not tested again, the next one is.
PastPassed(tests, ok) ==
    LET high == Max(ok)
    IN  [lo |-> high + 1, hi |-> Min({t \in tests : t > high})]

(* Between the largest size that passed and the next one tested.             *)
Narrow(tests, ok) ==
    LET high == Max(ok)
    IN  [lo |-> high, hi |-> Min({t \in tests : t > high}) - 1]

Lose(n) == pm.lost + n <= MaxLost
Failed(s, err) == [s EXCEPT !.at = err]
-----------------------------------------------------------------------------
(* icmp.PathMTUDiscover: a packet of the largest size. It is answered, a     *)
(* router tells what it can carry - maybe one before the narrowest - or      *)
(* refuses, or nothing comes and sizes are tried; what the router tells may  *)
(* be out of range, or the socket may not be permitted.                      *)
NextAddress(s) ==
    IF s.icmpTried < ICMPServers THEN [s EXCEPT !.at = "nextHop", !.lo = MinMTU, !.hi = Physical]
    ELSE [s EXCEPT !.at = "mss", !.lo = MinMTU, !.hi = Physical]

FoundByICMP(s, mtu) ==
    [s EXCEPT !.at = "mss", !.icmp = mtu, !.hi = mtu, !.lo = Larger(Minus(mtu, Margin), MinMTU)]

NextHop ==
    /\ pm.at = "nextHop"
    /\ LET s == [pm EXCEPT !.icmpTried = @ + 1]
       IN  \/ pm.path = Physical /\ pm' = FoundByICMP(s, Physical)
           \/ \E hop \in pm.path .. Physical - 1 : pm' = FoundByICMP(s, hop)
           \/ pm' = [s EXCEPT !.at = "echo"]
           \/ pm' = NextAddress(s)
           \/ pm' = Failed(s, "error")

(* pmtudMultiSizes: a round of echoes. Replies are counted, whichever echo   *)
(* they are to: as many as there are echoes mean that the largest passed.    *)
Echo ==
    /\ pm.at = "echo"
    /\ LET tests == MTUsToTest(pm.lo, pm.hi)
           fits == {t \in tests : t <= pm.path}
       IN  IF pm.lo = pm.hi THEN pm' = FoundByICMP(pm, pm.lo)
           ELSE \E ok \in SUBSET fits, doubled \in BOOLEAN :
                  LET lost == Cardinality(fits \ ok) + (IF doubled THEN Cardinality(tests \ ok) ELSE 0)
                      s == [pm EXCEPT !.lost = @ + lost]
                  IN  /\ Lose(lost)
                      /\ doubled => ok # {} /\ ok # tests
                      /\ pm' = IF ok = tests \/ doubled THEN FoundByICMP(s, pm.hi)
                               ELSE IF ok \ {pm.hi} = {} THEN NextAddress(s)
                               ELSE LET next == Narrow(tests, ok \ {pm.hi})
                                    IN  [s EXCEPT !.lo = next.lo, !.hi = next.hi]
-----------------------------------------------------------------------------
(* findHighestMSSDestination: the answers come in any order; one as large as *)
(* needed is taken, or else the largest.                                     *)
Needed == Minus(pm.hi, TCPHeaders)

Destination(announced) ==
    LET enough == {m \in announced : m >= Needed}
    IN  IF enough # {} THEN enough ELSE {Max(announced)}

(* Then the largest size becomes that of the MSS - larger or smaller than    *)
(* what was asked for.                                                       *)
FindMSS ==
    /\ pm.at = "mss"
    /\ IF ~pm.marks
       THEN pm' = IF pm.icmp # 0 THEN [pm EXCEPT !.at = "found", !.mtu = pm.icmp] ELSE Failed(pm, "error")
       ELSE \/ pm' = Failed(pm, "error")
            \/ /\ TCPServers # {}
               /\ \E of \in [TCPServers -> MSSs] : \E mss \in Destination({of[s] : s \in TCPServers}) :
                    LET hi == TCPHeaders + mss
                        lo == IF pm.lo > hi THEN Minus(hi, SafetyBuffer) ELSE pm.lo
                    IN  pm' = [pm EXCEPT !.lo = lo, !.hi = hi, !.mss = mss, !.alone = lo = hi,
                                           !.at = IF lo > hi THEN "panic" ELSE "tcp"]

(* pathMTUDiscover: a round of connections, each with one packet of its size *)
(* that is answered or not.                                                  *)
Connect ==
    /\ pm.at = "tcp"
    /\ LET tests == MTUsToTest(pm.lo, pm.hi)
           fits == {t \in tests : t <= pm.path}
       IN  IF pm.lo = pm.hi THEN pm' = [pm EXCEPT !.at = "found", !.mtu = pm.lo]
           ELSE \E ok \in SUBSET fits :
                  LET s == [pm EXCEPT !.lost = @ + Cardinality(fits \ ok)]
                  IN  /\ Lose(Cardinality(fits \ ok))
                      /\ pm' = IF pm.hi \in ok THEN [s EXCEPT !.at = "found", !.mtu = pm.hi]
                               ELSE IF ok = {} THEN Failed(s, "error")
                               ELSE LET next == Narrow(tests, ok)
                                    IN  [s EXCEPT !.lo = next.lo, !.hi = next.hi]

(* The listener of the answers fails, or the context ends.                   *)
Abort == pm.at \in {"echo", "mss", "tcp"} /\ pm' = Failed(pm, "error")
-----------------------------------------------------------------------------
Next == NextHop \/ Echo \/ FindMSS \/ Connect \/ Abort

Spec == Init /\ [][Next]_pm
-----------------------------------------------------------------------------
TypeOK ==
    /\ pm.at \in {"nextHop", "echo", "mss", "tcp", "found", "error", "panic"}
    /\ pm.icmpTried \in 0 .. ICMPServers /\ pm.lost \in 0 .. MaxLost
    /\ pm.at \in {"echo", "tcp"} => pm.lo <= pm.hi

(* The MTU given to the tunnel is one the path carries, whatever was lost -  *)
(* unless TCP could not be used, so that a router or a doubled echo was      *)
(* believed, or only one size was left to choose, which is taken untested.   *)
FoundIsCarried ==
    pm.at = "found" /\ pm.marks /\ ~pm.alone => pm.mtu <= pm.path

(* And when nothing was lost it is the largest, up to the limit of the       *)
(* server that was asked.                                                    *)
FoundIsLargest ==
    pm.at = "found" /\ pm.marks /\ pm.lost = 0 /\ ~pm.alone =>
      pm.mtu = IF pm.path < TCPHeaders + pm.mss THEN pm.path ELSE TCPHeaders + pm.mss

(* The bounds wrap below zero for an MSS next to nothing only.               *)
PanicsOnTinyMSS == pm.at = "panic" => TCPHeaders + pm.mss < Larger(MinMTU, SafetyBuffer)
=============================================================================
