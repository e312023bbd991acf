------------------------- MODULE PortForwardProofs --------------------------
(* Theorems about PortForward, for any assignments of ports and any bounds.  *)
EXTENDS PortForward, TLAPS

(* What the places of run, of the keep-alive and of the lock have to do with *)
(* one another. A service is stopped, and its keep-alive has ended, before   *)
(* the next one starts; the lock of a stop is held at one place; a keep-alive*)
(* that has reported its crash is waited for before anything else.           *)
PlaceInv ==
    /\ loop = "starting" => vpnIsUp
    /\ loop \in {"new", "starting"} => keep = "none"
    /\ lock = "loop" => loop = "cancelled"
    /\ lock = "main" => loop = "done"
    /\ keep \in {"unlocking", "unlocked"} => loop \in {"stop", "cancelled"}

(* What a provider's ports have to do with these; handlers set ports only    *)
(* where the provider has none.                                              *)
PortInv ==
    supported =>
        /\ setter = "idle"
        /\ loop \in {"new", "starting"} => ports = {}
        /\ loop \in {"select", "reply"} =>
            /\ ports # {} => keep # "none"
            /\ ~vpnIsUp => ports = {} /\ keep = "none"

IInv == TypeOK /\ PlaceInv /\ PortInv
-----------------------------------------------------------------------------
(* The sets of ports, and the operations of the service on them.             *)

LEMMA AssignedPorts ==
    ASSUME NEW m \in Assigned \cup {SetByUser}
    PROVE  m \subseteq AllMappings /\ Internal(m) \subseteq Internal(AllMappings)
BY DEF AllMappings, Internal

LEMMA FaultTypes ==
    ASSUME TypeOK, NEW n \in {0, 1}, Fault(n)
    PROVE  /\ updates' \in 0 .. MaxUpdates /\ sets' \in 0 .. MaxSets /\ faults' \in 0 .. MaxFaults
           /\ n = 1 => faults' # 0
           /\ faults' = 0 => faults = 0
BY PortForwardConstants DEF TypeOK, Fault

LEMMA CleanupTypes ==
    ASSUME TypeOK, NEW error \in BOOLEAN, Cleanup(error)
    PROVE  /\ ports' \in SUBSET AllMappings /\ allowed' \in SUBSET Internal(AllMappings)
           /\ updates' \in 0 .. MaxUpdates /\ sets' \in 0 .. MaxSets /\ faults' \in 0 .. MaxFaults
<1>1. ports' \in SUBSET AllMappings /\ allowed' \in SUBSET Internal(AllMappings)
  BY DEF Cleanup, TypeOK
<1>2. \E n \in {0, 1} : Fault(n)
  BY DEF Cleanup
<1>3. QED
  BY <1>1, <1>2, FaultTypes

LEMMA NewPortsTypes ==
    ASSUME TypeOK, NEW m \in Assigned, NEW error \in BOOLEAN, OnNewPorts(m, error)
    PROVE  /\ ports' \in SUBSET AllMappings /\ allowed' \in SUBSET Internal(AllMappings)
           /\ updates' \in 0 .. MaxUpdates /\ sets' \in 0 .. MaxSets /\ faults' \in 0 .. MaxFaults
<1>1. ports' \in SUBSET AllMappings /\ allowed' \in SUBSET Internal(AllMappings)
  BY AssignedPorts DEF OnNewPorts, TypeOK
<1>2. \E n \in {0, 1} : Fault(n)
  BY DEF OnNewPorts
<1>3. QED
  BY <1>1, <1>2, FaultTypes

LEMMA StartTypes ==
    ASSUME TypeOK, Started
    PROVE  /\ ports' \in SUBSET AllMappings /\ allowed' \in SUBSET Internal(AllMappings)
           /\ updates' \in 0 .. MaxUpdates /\ sets' \in 0 .. MaxSets /\ faults' \in 0 .. MaxFaults
<1>1. CASE Fault(0) /\ UNCHANGED <<allowed, ports>>
  BY <1>1, FaultTypes DEF TypeOK
<1>2. CASE \E m \in Assigned : OnNewPorts(m, TRUE)
  BY <1>2, NewPortsTypes
<1>3. CASE StartSucceeds
  BY <1>3, NewPortsTypes DEF StartSucceeds
<1>4. QED
  BY <1>1, <1>2, <1>3 DEF Started, StartFails

LEMMA SetPortsTypes ==
    ASSUME TypeOK, SetPortsForwarded
    PROVE  /\ ports' \in SUBSET AllMappings /\ allowed' \in SUBSET Internal(AllMappings)
           /\ updates' \in 0 .. MaxUpdates /\ sets' \in 0 .. MaxSets /\ faults' \in 0 .. MaxFaults
<1>1. SetByUser \subseteq AllMappings /\ Internal(SetByUser) \subseteq Internal(AllMappings)
  BY AssignedPorts
<1>2. CASE Cleanup(TRUE)
  BY <1>2, CleanupTypes
<1>3. CASE /\ Fault(1)
           /\ \E done \in SUBSET Internal(SetByUser) : allowed' = (allowed \ External(ports)) \cup done
           /\ ports' = {}
  BY <1>1, <1>3, FaultTypes DEF TypeOK
<1>4. CASE /\ Fault(0)
           /\ allowed' = (allowed \ External(ports)) \cup Internal(SetByUser) /\ ports' = SetByUser
  BY <1>1, <1>4, FaultTypes DEF TypeOK
<1>5. CASE UNCHANGED <<allowed, ports, budget>>
  BY <1>5 DEF TypeOK, budget
<1>6. CASE allowed' = allowed \cup Internal(SetByUser) /\ UNCHANGED <<ports, budget>>
  BY <1>1, <1>6 DEF TypeOK, budget
<1>7. QED
  BY <1>2, <1>3, <1>4, <1>5, <1>6 DEF SetPortsForwarded
-----------------------------------------------------------------------------
(* The invariant is inductive, one step per action.                          *)

LEMMA InitIInv == Init => IInv
<1> SUFFICES ASSUME Init PROVE IInv
  OBVIOUS
<1>1. answering \in BOOLEAN /\ retry \in BOOLEAN /\ vpnIsUp \in BOOLEAN /\ created \in BOOLEAN
  BY Zenon DEF Init
<1>2. overtaken \in BOOLEAN /\ runCtx \in BOOLEAN
  BY Zenon DEF Init
<1>3. TypeOK
  BY <1>1, <1>2, PortForwardConstants DEF Init, TypeOK, Places
<1>4. QED
  BY <1>3 DEF Init, IInv, PlaceInv, PortInv

LEMMA NextTypeOK ==
    ASSUME TypeOK, [Next]_vars PROVE TypeOK'
<1>1. CASE \E c \in Callers : ReceiveUpdate(c)
  <2>1. answering' \in BOOLEAN /\ vpnIsUp' \in BOOLEAN
    BY <1>1, Zenon DEF ReceiveUpdate, Refused, TypeOK
  <2>2. QED
    BY <1>1, <2>1 DEF ReceiveUpdate, Refused, TypeOK, Places, config, budget
<1>2. CASE \E c \in Callers : Reply(c)
  <2>1. answering' \in BOOLEAN
    BY <1>2, Zenon DEF Reply, TypeOK
  <2>2. QED
    BY <1>2, <2>1 DEF Reply, TypeOK, Places, config, budget
<1>3. CASE ReceiveRunError
  <2>1. answering' \in BOOLEAN
    BY <1>3, Zenon DEF ReceiveRunError, TypeOK
  <2>2. QED
    BY <1>3, <2>1 DEF ReceiveRunError, TypeOK, Places, config, budget
<1>4. CASE RunCtxDone
  BY <1>4 DEF RunCtxDone, TypeOK, Places, config, budget
<1>5. CASE LoopStops
  BY <1>5 DEF LoopStops, StopLock, TypeOK, Places, config, budget
<1>6. CASE LoopStopped
  <2>1. /\ ports' \subseteq AllMappings /\ allowed' \subseteq Internal(AllMappings)
        /\ updates' \in 0 .. MaxUpdates /\ sets' \in 0 .. MaxSets /\ faults' \in 0 .. MaxFaults
    BY <1>6, CleanupTypes DEF LoopStopped
  <2>2. loop' \in Places /\ lock' = "free"
    BY <1>6 DEF LoopStopped, Places
  <2>3. UNCHANGED <<config, caller, answering, retry, vpnIsUp, keep, setter, main, runCtx, overtaken>>
    BY <1>6 DEF LoopStopped
  <2>4. QED
    BY <2>1, <2>2, <2>3 DEF TypeOK, config
<1>7. CASE Crash
  BY <1>7 DEF Crash, TypeOK, Places, config, budget
<1>8. CASE NewService
  BY <1>8 DEF NewService, TypeOK, Places, config, budget
<1>9. CASE Started
  <2>1. retry' \in BOOLEAN
    BY <1>9, Zenon DEF Started, TypeOK
  <2>2. /\ ports' \subseteq AllMappings /\ allowed' \subseteq Internal(AllMappings)
        /\ updates' \in 0 .. MaxUpdates /\ sets' \in 0 .. MaxSets /\ faults' \in 0 .. MaxFaults
    BY <1>9, StartTypes DEF Started
  <2>3. QED
    BY <1>9, <2>1, <2>2 DEF Started, TypeOK, Places, config, budget
<1>10. CASE RetryAfter
  <2>1. answering' \in BOOLEAN /\ retry' \in BOOLEAN
    BY <1>10, Zenon DEF RetryAfter, TypeOK
  <2>2. QED
    BY <1>10, <2>1 DEF RetryAfter, TypeOK, Places, config, budget
<1>11. CASE KeepCleansUp
  <2>1. /\ ports' \subseteq AllMappings /\ allowed' \subseteq Internal(AllMappings)
        /\ updates' \in 0 .. MaxUpdates /\ sets' \in 0 .. MaxSets /\ faults' \in 0 .. MaxFaults
    BY <1>11, CleanupTypes DEF KeepCleansUp
  <2>2. QED
    BY <1>11, <2>1 DEF KeepCleansUp, TypeOK, Places, config, budget
<1>12. CASE KeepUnlocks
  BY <1>12 DEF KeepUnlocks, TypeOK, Places, config, budget
<1>13. CASE KeepEnds
  BY <1>13 DEF KeepEnds, Cancelled, TypeOK, Places, config, budget
<1>14. CASE KeepCrashes
  <2>1. updates' \in 0 .. MaxUpdates /\ sets' \in 0 .. MaxSets /\ faults' \in 0 .. MaxFaults
    BY <1>14, FaultTypes DEF KeepCrashes, Cancelled
  <2>2. QED
    BY <1>14, <2>1 DEF KeepCrashes, Cancelled, TypeOK, Places, config, budget
<1>15. CASE MainStops
  BY <1>15 DEF MainStops, StopLock, TypeOK, Places, config, budget
<1>16. CASE MainStopped
  <2>1. /\ ports' \subseteq AllMappings /\ allowed' \subseteq Internal(AllMappings)
        /\ updates' \in 0 .. MaxUpdates /\ sets' \in 0 .. MaxSets /\ faults' \in 0 .. MaxFaults
    BY <1>16, CleanupTypes DEF MainStopped
  <2>2. QED
    BY <1>16, <2>1 DEF MainStopped, TypeOK, Places, config, budget
<1>17. CASE Shutdown
  <2>1. runCtx' \in BOOLEAN
    BY <1>17, Zenon DEF Shutdown, TypeOK
  <2>2. QED
    BY <1>17, <2>1 DEF Shutdown, TypeOK, Places, config, budget
<1>18. CASE ReadService
  BY <1>18, PortForwardConstants DEF ReadService, TypeOK, Places, config, budget
<1>19. CASE SetPortsForwarded
  <2>1. overtaken' \in BOOLEAN
    BY <1>19, Zenon DEF SetPortsForwarded, TypeOK
  <2>2. /\ ports' \subseteq AllMappings /\ allowed' \subseteq Internal(AllMappings)
        /\ updates' \in 0 .. MaxUpdates /\ sets' \in 0 .. MaxSets /\ faults' \in 0 .. MaxFaults
    BY <1>19, SetPortsTypes DEF SetPortsForwarded
  <2>3. QED
    BY <1>19, <2>1, <2>2 DEF SetPortsForwarded, TypeOK, Places, config, budget
<1>20. CASE \E c \in Callers : Call(c)
  BY <1>20, PortForwardConstants DEF Call, TypeOK, Places, config, budget
<1>21. CASE \E c \in Callers : GiveUp(c)
  BY <1>21 DEF GiveUp, TypeOK, Places, config, budget
<1>22. CASE UNCHANGED vars
  BY <1>22 DEF vars, TypeOK, Places, config, budget
<1>23. QED
  BY <1>1, <1>2, <1>3, <1>4, <1>5, <1>6, <1>7, <1>8, <1>9, <1>10, <1>11, <1>12, <1>13, <1>14, <1>15, <1>16, <1>17, <1>18, <1>19, <1>20, <1>21, <1>22 DEF Next, LoopStep, KeepStep, MainStep

LEMMA NextPlaceInv ==
    ASSUME TypeOK, PlaceInv, [Next]_vars PROVE PlaceInv'
<1>1. CASE \E c \in Callers : ReceiveUpdate(c)
  BY <1>1 DEF ReceiveUpdate, Refused, PlaceInv, TypeOK
<1>2. CASE \E c \in Callers : Reply(c)
  BY <1>2 DEF Reply, PlaceInv, TypeOK
<1>3. CASE ReceiveRunError
  BY <1>3 DEF ReceiveRunError, PlaceInv, TypeOK
<1>4. CASE RunCtxDone
  BY <1>4 DEF RunCtxDone, PlaceInv, TypeOK
<1>5. CASE LoopStops
  BY <1>5 DEF LoopStops, StopLock, PlaceInv, TypeOK
<1>6. CASE LoopStopped
  BY <1>6 DEF LoopStopped, PlaceInv, TypeOK
<1>7. CASE Crash
  BY <1>7 DEF Crash, PlaceInv, TypeOK
<1>8. CASE NewService
  BY <1>8 DEF NewService, PlaceInv, TypeOK
<1>9. CASE Started
  BY <1>9 DEF Started, PlaceInv, TypeOK
<1>10. CASE RetryAfter
  BY <1>10 DEF RetryAfter, PlaceInv, TypeOK
<1>11. CASE KeepCleansUp
  BY <1>11 DEF KeepCleansUp, PlaceInv, TypeOK
<1>12. CASE KeepUnlocks
  BY <1>12 DEF KeepUnlocks, PlaceInv, TypeOK
<1>13. CASE KeepEnds
  BY <1>13 DEF KeepEnds, Cancelled, PlaceInv, TypeOK
<1>14. CASE KeepCrashes
  BY <1>14 DEF KeepCrashes, Cancelled, Fault, PlaceInv, TypeOK
<1>15. CASE MainStops
  BY <1>15 DEF MainStops, StopLock, PlaceInv, TypeOK
<1>16. CASE MainStopped
  BY <1>16 DEF MainStopped, PlaceInv, TypeOK
<1>17. CASE Shutdown
  BY <1>17 DEF Shutdown, PlaceInv, TypeOK
<1>18. CASE ReadService
  BY <1>18 DEF ReadService, PlaceInv, TypeOK
<1>19. CASE SetPortsForwarded
  BY <1>19 DEF SetPortsForwarded, PlaceInv, TypeOK
<1>20. CASE \E c \in Callers : Call(c)
  BY <1>20 DEF Call, PlaceInv, TypeOK
<1>21. CASE \E c \in Callers : GiveUp(c)
  BY <1>21 DEF GiveUp, PlaceInv, TypeOK
<1>22. CASE UNCHANGED vars
  BY <1>22 DEF vars, PlaceInv, TypeOK
<1>23. QED
  BY <1>1, <1>2, <1>3, <1>4, <1>5, <1>6, <1>7, <1>8, <1>9, <1>10, <1>11, <1>12, <1>13, <1>14, <1>15, <1>16, <1>17, <1>18, <1>19, <1>20, <1>21, <1>22 DEF Next, LoopStep, KeepStep, MainStep

LEMMA NextPortInv ==
    ASSUME IInv, [Next]_vars PROVE PortInv'
<1>1. CASE \E c \in Callers : ReceiveUpdate(c)
  BY <1>1 DEF ReceiveUpdate, Refused, IInv, PortInv, PlaceInv, config, budget
<1>2. CASE \E c \in Callers : Reply(c)
  BY <1>2 DEF Reply, IInv, PortInv, PlaceInv, config, budget
<1>3. CASE ReceiveRunError
  BY <1>3 DEF ReceiveRunError, IInv, PortInv, PlaceInv, config, budget
<1>4. CASE RunCtxDone
  BY <1>4 DEF RunCtxDone, IInv, PortInv, PlaceInv, config, budget
<1>5. CASE LoopStops
  BY <1>5 DEF LoopStops, StopLock, IInv, PortInv, PlaceInv, config, budget
<1>6. CASE LoopStopped
  BY <1>6 DEF LoopStopped, Cleanup, IInv, PortInv, PlaceInv, config, budget
<1>7. CASE Crash
  BY <1>7 DEF Crash, IInv, PortInv, PlaceInv, config, budget
<1>8. CASE NewService
  BY <1>8 DEF NewService, IInv, PortInv, PlaceInv, config, budget
<1>9. CASE Started
  BY <1>9 DEF Started, StartFails, StartSucceeds, OnNewPorts, IInv, PortInv, PlaceInv, config, budget
<1>10. CASE RetryAfter
  BY <1>10 DEF RetryAfter, IInv, PortInv, PlaceInv, config, budget
<1>11. CASE KeepCleansUp
  BY <1>11 DEF KeepCleansUp, Cleanup, IInv, PortInv, PlaceInv, config, budget
<1>12. CASE KeepUnlocks
  BY <1>12 DEF KeepUnlocks, IInv, PortInv, PlaceInv, config, budget
<1>13. CASE KeepEnds
  BY <1>13 DEF KeepEnds, Cancelled, IInv, PortInv, PlaceInv, config, budget
<1>14. CASE KeepCrashes
  BY <1>14 DEF KeepCrashes, Cancelled, Fault, IInv, PortInv, PlaceInv, config, budget
<1>15. CASE MainStops
  BY <1>15 DEF MainStops, StopLock, IInv, PortInv, PlaceInv, config, budget
<1>16. CASE MainStopped
  BY <1>16 DEF MainStopped, Cleanup, IInv, PortInv, PlaceInv, config, budget
<1>17. CASE Shutdown
  BY <1>17 DEF Shutdown, IInv, PortInv, PlaceInv, config, budget
<1>18. CASE ReadService
  BY <1>18 DEF ReadService, IInv, PortInv, PlaceInv, config, budget
<1>19. CASE SetPortsForwarded
  BY <1>19 DEF SetPortsForwarded, IInv, PortInv, PlaceInv, config, budget
<1>20. CASE \E c \in Callers : Call(c)
  BY <1>20 DEF Call, IInv, PortInv, PlaceInv, config, budget
<1>21. CASE \E c \in Callers : GiveUp(c)
  BY <1>21 DEF GiveUp, IInv, PortInv, PlaceInv, config, budget
<1>22. CASE UNCHANGED vars
  BY <1>22 DEF vars, IInv, PortInv, PlaceInv, config, budget
<1>23. QED
  BY <1>1, <1>2, <1>3, <1>4, <1>5, <1>6, <1>7, <1>8, <1>9, <1>10, <1>11, <1>12, <1>13, <1>14, <1>15, <1>16, <1>17, <1>18, <1>19, <1>20, <1>21, <1>22 DEF Next, LoopStep, KeepStep, MainStep

LEMMA IInvAlways == Spec => []IInv
<1>1. IInv /\ [Next]_vars => IInv'
  BY NextTypeOK, NextPlaceInv, NextPortInv DEF IInv
<1>2. QED
  BY InitIInv, <1>1, PTL DEF Spec
-----------------------------------------------------------------------------
(* PortForward keeps its types: every set of ports it opens, keeps or shows  *)
(* is one it was assigned or given, and every goroutine is at a known place. *)
THEOREM PortsAreTyped == Spec => []TypeOK
BY IInvAlways, PTL DEF IInv

(* The service follows the tunnel: with the VPN down run is back in its      *)
(* select only when nothing is forwarded or kept forwarded, and the ports of *)
(* a provider always have somebody who renews them or will tell run.         *)
THEOREM ForwardingFollowsTheTunnel == Spec => []PortsFollowTheTunnel
<1>1. IInv => PortsFollowTheTunnel
  BY DEF IInv, PortInv, PortsFollowTheTunnel
<1>2. QED
  BY <1>1, IInvAlways, PTL
-----------------------------------------------------------------------------
(* A port that is still open after its external port was blocked was mapped  *)
(* to another.                                                               *)
LEMMA LeftByCleanup ==
    ASSUME TypeOK, OpenPortsAreForwarded, faults = 0, ~overtaken,
           NEW p \in allowed, p \notin External(ports)
    PROVE  \E m \in AllMappings : m[1] = p /\ m[2] # p
<1>1. CASE p \in Internal(ports)
  <2>1. PICK m \in ports : m[1] = p
    BY <1>1 DEF Internal
  <2>2. m[2] # p
    BY DEF External
  <2>3. m \in AllMappings
    BY DEF TypeOK
  <2>4. QED
    BY <2>1, <2>2, <2>3
<1>2. CASE p \notin Internal(ports)
  BY <1>2 DEF OpenPortsAreForwarded
<1>3. QED
  BY <1>1, <1>2

LEMMA CleanupCloses ==
    ASSUME TypeOK, OpenPortsAreForwarded, ~overtaken,
           NEW error \in BOOLEAN, Cleanup(error), faults' = 0,
           NEW p \in allowed'
    PROVE  \E m \in AllMappings : m[1] = p /\ m[2] # p
<1>1. faults = 0 /\ ~error
  BY PortForwardConstants DEF TypeOK, Cleanup, Fault
<1>2. allowed' = allowed \ External(ports)
  BY <1>1 DEF Cleanup
<1>3. QED
  BY <1>1, <1>2, LeftByCleanup

LEMMA NextOpenPorts ==
    ASSUME IInv, OpenPortsAreForwarded, [Next]_vars PROVE OpenPortsAreForwarded'
<1> SUFFICES ASSUME faults' = 0, ~overtaken', NEW p \in allowed' \ Internal(ports')
             PROVE  \E m \in AllMappings : m[1] = p /\ m[2] # p
  BY DEF OpenPortsAreForwarded
<1>1. CASE UNCHANGED <<ports, allowed, overtaken, faults>>
  BY <1>1 DEF OpenPortsAreForwarded, Internal
<1>2. CASE LoopStopped
  <2>1. ~overtaken /\ \E error \in BOOLEAN : Cleanup(error)
    BY <1>2 DEF LoopStopped
  <2>2. QED
    BY <2>1, CleanupCloses DEF IInv
<1>3. CASE KeepCleansUp
  <2>1. ~overtaken /\ \E error \in BOOLEAN : Cleanup(error)
    BY <1>3 DEF KeepCleansUp
  <2>2. QED
    BY <2>1, CleanupCloses DEF IInv
<1>4. CASE MainStopped
  <2>1. ~overtaken /\ \E error \in BOOLEAN : Cleanup(error)
    BY <1>4 DEF MainStopped
  <2>2. QED
    BY <2>1, CleanupCloses DEF IInv
<1>5. CASE NewService
  BY <1>5 DEF NewService, budget, OpenPortsAreForwarded, Internal
<1>6. CASE Started
  <2>1. CASE StartFails
    <3>1. CASE Fault(0) /\ UNCHANGED <<allowed, ports>>
      BY <1>6, <3>1 DEF Started, Fault, IInv, TypeOK, OpenPortsAreForwarded, Internal
    <3>2. CASE \E m \in Assigned : OnNewPorts(m, TRUE)
      BY <3>2, PortForwardConstants DEF OnNewPorts, Fault, IInv, TypeOK
    <3>3. QED
      BY <2>1, <3>1, <3>2 DEF StartFails
  <2>2. CASE StartSucceeds
    <3>1. ports = {}
      BY <1>6, <2>2 DEF Started, StartSucceeds, IInv, PortInv
    <3>2. PICK m \in Assigned : Fault(0) /\ allowed' = allowed \cup Internal(m) /\ ports' = m
      BY <2>2 DEF StartSucceeds, OnNewPorts
    <3>3. p \in allowed \ Internal(ports)
      BY <3>1, <3>2 DEF Internal
    <3>4. faults = 0 /\ ~overtaken
      BY <1>6, <3>2 DEF Started, Fault, IInv, TypeOK
    <3>5. QED
      BY <3>3, <3>4 DEF OpenPortsAreForwarded
  <2>3. QED
    BY <1>6, <2>1, <2>2 DEF Started
<1>7. CASE SetPortsForwarded
  <2>1. CASE Cleanup(TRUE) \/ Fault(1)
    BY <2>1, PortForwardConstants DEF Cleanup, Fault, IInv, TypeOK
  <2>2. CASE /\ Fault(0) /\ UNCHANGED overtaken
             /\ allowed' = (allowed \ External(ports)) \cup Internal(SetByUser) /\ ports' = SetByUser
    <3>1. p \in allowed /\ p \notin External(ports)
      BY <2>2
    <3>2. faults = 0 /\ ~overtaken
      BY <2>2 DEF Fault, IInv, TypeOK
    <3>3. QED
      BY <3>1, <3>2, LeftByCleanup DEF IInv
  <2>3. CASE UNCHANGED <<allowed, ports, overtaken, budget>>
    BY <2>3, <1>1 DEF budget
  <2>4. QED
    BY <1>7, <2>1, <2>2, <2>3 DEF SetPortsForwarded
<1>8. CASE KeepCrashes
  BY <1>8, <1>1 DEF KeepCrashes, Fault, IInv, TypeOK
<1>9. CASE \/ \E c \in Callers : ReceiveUpdate(c) \/ Reply(c) \/ Call(c) \/ GiveUp(c)
           \/ ReceiveRunError \/ RunCtxDone \/ Crash \/ RetryAfter \/ LoopStops
  BY <1>9, <1>1 DEF ReceiveUpdate, Reply, Call, GiveUp, ReceiveRunError, RunCtxDone, Crash,
                    RetryAfter, LoopStops, budget
<1>10. CASE KeepUnlocks \/ KeepEnds \/ MainStops \/ Shutdown \/ ReadService
  BY <1>10, <1>1 DEF KeepUnlocks, KeepEnds, MainStops, Shutdown, ReadService, budget
<1>11. CASE UNCHANGED vars
  BY <1>11, <1>1 DEF vars, budget
<1>12. QED
  BY <1>2, <1>3, <1>4, <1>5, <1>6, <1>7, <1>8, <1>9, <1>10, <1>11
     DEF Next, LoopStep, KeepStep, MainStep

(* The firewall of the service: without a failed operation, and unless a     *)
(* handler set ports on a service that was replaced meanwhile, every port    *)
(* that is open is forwarded, or was mapped to another port - whatever       *)
(* crashes, restarts and stops come together.                                *)
THEOREM OpenIsForwarded == Spec => []OpenPortsAreForwarded
<1>1. Init => OpenPortsAreForwarded
  BY DEF Init, OpenPortsAreForwarded
<1>2. IInv /\ OpenPortsAreForwarded /\ [Next]_vars => OpenPortsAreForwarded'
  BY NextOpenPorts
<1>3. QED
  BY <1>1, <1>2, IInvAlways, PTL DEF Spec
=============================================================================
