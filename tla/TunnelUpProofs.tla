--------------------------- MODULE TunnelUpProofs ---------------------------
(***************************************************************************)
(* The health checker of overlapping connections: with restarts enabled    *)
(* (an onTunnelUp whose connection has ended does not start the checker)   *)
(* and one ready signal per connection, healthDone does what it is for.    *)
(***************************************************************************)
EXTENDS TunnelUp, TLAPS

\* At most one connection is alive, and none outside a running tunnel and its
\* cleanup, nor before it has signalled that it is ready.
LiveInv ==
    /\ \A u, v \in live : u = v
    /\ loop \in {"stopped", "starting", "crashed"} => live = {}
    /\ loop = "running" /\ signals = 0 => live = {}

\* Only the last call to start the checker may still be watching it, and Stop
\* stops the checks it watches.
WatchInv == \A v \in Ups : watch[v] = "watch" => v = healthDone /\ v = stopper

\* The onTunnelUp of the live connection waits for the checks that run, and
\* when it is past that wait no checks run and the addresses are set.
AwaitInv == \A u \in live :
    /\ up[u] = "awaitHealth" => awaited[u] = healthDone
    /\ up[u] = "start" => targets /\ \A v \in Ups : watch[v] # "watch"

TargetsInv == checking # {} => targets

IInv == TypeOK /\ LiveInv /\ WatchInv /\ AwaitInv /\ TargetsInv /\ ChecksAreWatched

-----------------------------------------------------------------------------
USE TunnelUpAssumption

LEMMA InitIInv == Init => IInv
<1> SUFFICES ASSUME Init PROVE IInv
  OBVIOUS
<1> USE DEF Init
<1>1. 0 \in 0..MaxSignals /\ 0 \in 0..MaxFaults /\ 0 \in 0..MaxRequests
  BY DEF TunnelUpAssumption
<1>2. TypeOK
  BY <1>1 DEF TypeOK, Cleaning, Restarting, UpPCs, WatchPCs
<1>3. LiveInv /\ WatchInv /\ AwaitInv /\ TargetsInv /\ ChecksAreWatched
  BY DEF LiveInv, WatchInv, AwaitInv, TargetsInv, ChecksAreWatched
<1>4. QED
  BY <1>2, <1>3 DEF IInv

\* The steps of the loop and of the user.
LEMMA LoopIInv ==
  ASSUME IInv, Crash \/ Connect \/ SetupFails \/ Cleanup \/ UserStop \/ UserStart
  PROVE  IInv'
<1> USE DEF IInv, TypeOK, LiveInv, WatchInv, AwaitInv, TargetsInv, ChecksAreWatched,
            Cleaning, Fault, Request, vpn, health, services, bounds
<1>1. CASE Crash
  BY <1>1 DEF Crash, BeginCleanup
<1>2. CASE Connect
  BY <1>2 DEF Connect
<1>3. CASE SetupFails
  BY <1>3 DEF SetupFails
<1>4. CASE Cleanup
  <2>1. CASE RemovePorts
    BY <2>1 DEF RemovePorts
  <2>2. CASE ClearData
    BY <2>2 DEF ClearData
  <2>3. CASE StopForwarding
    BY <2>3 DEF StopForwarding
  <2>4. CASE Cancel
    BY <2>4 DEF Cancel
  <2>5. QED
    BY <1>4, <2>1, <2>2, <2>3, <2>4 DEF Cleanup
<1>5. CASE UserStop
  BY <1>5 DEF UserStop, BeginCleanup
<1>6. CASE UserStart
  BY <1>6 DEF UserStart
<1>7. QED
  BY <1>1, <1>2, <1>3, <1>4, <1>5, <1>6

\* A connection signals that it is ready: it is then the only one alive.
LEMMA TunnelReadyIInv ==
  ASSUME MaxSignals = 1, IInv, NEW u \in Ups, TunnelReady(u)
  PROVE  IInv'
<1> USE DEF IInv, TypeOK, TunnelReady, vpn, health, services, bounds
<1>1. signals = 0 /\ live = {} /\ live' = {u} /\ signals' = 1 /\ loop' = "running"
  BY DEF LiveInv
<1>2. TypeOK'
  BY <1>1 DEF UpPCs
<1>3. LiveInv'
  BY <1>1 DEF LiveInv
<1>4. WatchInv' /\ TargetsInv' /\ ChecksAreWatched'
  BY DEF WatchInv, TargetsInv, ChecksAreWatched
<1>5. AwaitInv'
  BY <1>1 DEF AwaitInv
<1>6. QED
  BY <1>2, <1>3, <1>4, <1>5

\* The steps of onTunnelUp.
LEMMA OnTunnelUpIInv ==
  ASSUME RestartVPN, IInv, NEW u \in Ups, OnTunnelUp(u)
  PROVE  IInv'
<1> USE DEF IInv, TypeOK, LiveInv, WatchInv, AwaitInv, TargetsInv, ChecksAreWatched,
            Cleaning, Restarting, UpPCs, WatchPCs, Go, Fault, vpn, health, services, bounds
<1>1. CASE AllowPorts(u)
  BY <1>1 DEF AllowPorts
<1>2. CASE StartDNS(u)
  BY <1>2 DEF StartDNS
<1>3. CASE DNSStarted(u)
  BY <1>3 DEF DNSStarted
<1>4. CASE DNSAbandoned(u)
  BY <1>4 DEF DNSAbandoned
<1>5. CASE TakeHealthDone(u)
  BY <1>5 DEF TakeHealthDone
<1>6. CASE AwaitHealth(u)
  BY <1>6 DEF AwaitHealth, SetConfig, Closed
<1>7. CASE StartChecker(u)
  BY <1>7 DEF StartChecker
<1>8. CASE StartFails(u)
  BY <1>8 DEF StartFails
<1>9. CASE FetchIP(u)
  BY <1>9 DEF FetchIP
<1>10. CASE FetchFails(u)
  BY <1>10 DEF FetchFails
<1>11. CASE StartForwarding(u)
  BY <1>11 DEF StartForwarding
<1>12. CASE UpRestarts(u)
  BY <1>12 DEF UpRestarts, RestartStop, RestartRun, BeginCleanup
<1>13. QED
  BY <1>1, <1>2, <1>3, <1>4, <1>5, <1>6, <1>7, <1>8, <1>9, <1>10, <1>11, <1>12
  DEF OnTunnelUp

\* The steps of collectHealthErrors.
LEMMA CollectIInv ==
  ASSUME IInv, NEW u \in Ups, CollectHealthErrors(u)
  PROVE  IInv'
<1> USE DEF IInv, TypeOK, LiveInv, WatchInv, AwaitInv, TargetsInv, ChecksAreWatched,
            Cleaning, Restarting, UpPCs, WatchPCs, Fault, vpn, health, services, bounds
<1>1. CASE WatchEnds(u)
  BY <1>1 DEF WatchEnds, StopChecker
<1>2. CASE HealthFails(u)
  <2> USE <1>2 DEF HealthFails, StopChecker
  <2>1. TypeOK'
    <3>1. faults' \in 0..MaxFaults /\ requests' \in 0..MaxRequests
      BY DEF TunnelUpAssumption
    <3>2. watch' \in [Ups -> WatchPCs] /\ checking' \subseteq Ups /\ targets' \in BOOLEAN
      OBVIOUS
    <3>3. UNCHANGED <<vpn, up, healthDone, awaited, stopper, services>>
      OBVIOUS
    <3>4. QED
      BY <3>1, <3>2, <3>3
  <2>2. LiveInv' /\ WatchInv' /\ TargetsInv' /\ ChecksAreWatched'
    OBVIOUS
  <2>3. AwaitInv'
    OBVIOUS
  <2>4. QED
    BY <2>1, <2>2, <2>3
<1>3. CASE WatchRestarts(u)
  BY <1>3 DEF WatchRestarts, RestartStop, RestartRun, BeginCleanup
<1>4. QED
  BY <1>1, <1>2, <1>3 DEF CollectHealthErrors

LEMMA Invariance == ASSUME RestartVPN, MaxSignals = 1 PROVE Spec => []IInv
<1>1. IInv /\ [Next]_vars => IInv'
  <2> SUFFICES ASSUME IInv, [Next]_vars PROVE IInv'
    OBVIOUS
  <2>1. CASE Next
    BY <2>1, LoopIInv, TunnelReadyIInv, OnTunnelUpIInv, CollectIInv DEF Next
  <2>2. CASE UNCHANGED vars
    BY <2>2 DEF IInv, TypeOK, LiveInv, WatchInv, AwaitInv, TargetsInv, ChecksAreWatched,
                vars, vpn, health, services, bounds
  <2>3. QED
    BY <2>1, <2>2
<1>2. QED
  BY <1>1, InitIInv, PTL DEF Spec

-----------------------------------------------------------------------------
(* The theorems.                                                           *)

\* tunnelup.go:108-110: each periodic check that runs has its collectHealthErrors
\* listening, which stops it and no other.
THEOREM EveryCheckIsWatched ==
  ASSUME RestartVPN, MaxSignals = 1 PROVE Spec => []ChecksAreWatched
<1>1. IInv => ChecksAreWatched
  BY DEF IInv
<1>2. QED
  BY <1>1, Invariance, PTL

\* tunnelup.go:84: the checks of two connections do not run together, and none
\* runs after Stop has taken its addresses away.
THEOREM ChecksOfOneConnection ==
  ASSUME RestartVPN, MaxSignals = 1 PROVE Spec => []OneChecker
<1>1. IInv => OneChecker
  BY DEF IInv, WatchInv, TargetsInv, ChecksAreWatched, OneChecker
<1>2. QED
  BY <1>1, Invariance, PTL

-----------------------------------------------------------------------------
(* Connections that outlive their onTunnelUp.                              *)

AtWork(u) == up[u] \notin {"idle"} \union Restarting

\* Whoever is at work is on a live connection, each service is up no longer than
\* the step of cleanup that ends it, and the call that starts DNS is there.
ServicesInv ==
    /\ \A u \in Ups : AtWork(u) => loop = "running" /\ u \in live
    /\ portAllowed => loop \in {"running", "removePorts"}
    /\ ipData => loop \in {"running", "removePorts", "clearData"}
    /\ forwarding => loop \in {"running", "removePorts", "clearData", "stopForwarding"}
    /\ DNSStatusSettles

LEMMA ServicesStep ==
  ASSUME ~CleanupOverlaps, IInv, ServicesInv, [Next]_vars
  PROVE  ServicesInv'
<1> USE DEF IInv, TypeOK, LiveInv, ServicesInv, AtWork, DNSStatusSettles, Cleaning,
            Restarting, UpPCs, Go, Fault, Request, vpn, health, services, bounds
<1>1. CASE Crash \/ UserStop \/ UserStart
  BY <1>1 DEF Crash, UserStop, UserStart, BeginCleanup
<1>2. CASE Connect \/ SetupFails
  BY <1>2 DEF Connect, SetupFails
<1>3. CASE Cleanup
  BY <1>3 DEF Cleanup, RemovePorts, ClearData, StopForwarding, Cancel
<1>4. ASSUME NEW u \in Ups, TunnelReady(u)
      PROVE  ServicesInv'
  BY <1>4 DEF TunnelReady
<1>5. ASSUME NEW u \in Ups, OnTunnelUp(u)
      PROVE  ServicesInv'
  <2>1. CASE AllowPorts(u)
    BY <2>1 DEF AllowPorts
  <2>2. CASE StartDNS(u)
    BY <2>2 DEF StartDNS
  <2>3. CASE DNSStarted(u)
    BY <2>3 DEF DNSStarted
  <2>4. CASE DNSAbandoned(u)
    BY <2>4 DEF DNSAbandoned
  <2>5. CASE TakeHealthDone(u)
    BY <2>5 DEF TakeHealthDone
  <2>6. CASE AwaitHealth(u)
    BY <2>6 DEF AwaitHealth, SetConfig
  <2>7. CASE StartChecker(u)
    BY <2>7 DEF StartChecker
  <2>8. CASE StartFails(u)
    BY <2>8 DEF StartFails
  <2>9. CASE FetchIP(u)
    BY <2>9 DEF FetchIP
  <2>10. CASE FetchFails(u)
    BY <2>10 DEF FetchFails
  <2>11. CASE StartForwarding(u)
    BY <2>11 DEF StartForwarding
  <2>12. CASE UpRestarts(u)
    BY <2>12 DEF UpRestarts, RestartStop, RestartRun, BeginCleanup
  <2>13. QED
    BY <1>5, <2>1, <2>2, <2>3, <2>4, <2>5, <2>6, <2>7, <2>8, <2>9, <2>10, <2>11, <2>12
    DEF OnTunnelUp
<1>6. ASSUME NEW u \in Ups, CollectHealthErrors(u)
      PROVE  ServicesInv'
  <2>1. CASE WatchEnds(u) \/ HealthFails(u)
    BY <2>1 DEF WatchEnds, HealthFails, StopChecker
  <2>2. CASE WatchRestarts(u)
    BY <2>2 DEF WatchRestarts, RestartStop, RestartRun, BeginCleanup
  <2>3. QED
    BY <1>6, <2>1, <2>2 DEF CollectHealthErrors
<1>7. CASE UNCHANGED vars
  BY <1>7 DEF vars
<1>8. QED
  BY <1>1, <1>2, <1>3, <1>4, <1>5, <1>6, <1>7 DEF Next

LEMMA ServicesInvariance ==
  ASSUME RestartVPN, MaxSignals = 1, ~CleanupOverlaps PROVE Spec => []ServicesInv
<1>1. Init => ServicesInv
  BY DEF Init, ServicesInv, AtWork, DNSStatusSettles
<1>2. IInv /\ ServicesInv /\ [Next]_vars => ServicesInv'
  BY ServicesStep
<1>3. QED
  BY <1>1, <1>2, Invariance, PTL DEF Spec

\* cleanup.go: a confirmed stop leaves no port open, no address published, no port
\* forwarding and no health check of a connection that outlived its onTunnelUp.
THEOREM NothingLeftBehind ==
  ASSUME RestartVPN, MaxSignals = 1, ~CleanupOverlaps PROVE Spec => []NothingLeft
<1>1. IInv /\ ServicesInv => NothingLeft
  BY DEF IInv, ServicesInv, ChecksAreWatched, NothingLeft, Quiet
<1>2. QED
  BY <1>1, Invariance, ServicesInvariance, PTL

\* tunnelup.go:82: and the status of the DNS loop is settled by the call that
\* started it.
THEOREM DNSIsSettled ==
  ASSUME RestartVPN, MaxSignals = 1, ~CleanupOverlaps PROVE Spec => []DNSStatusSettles
<1>1. ServicesInv => DNSStatusSettles
  BY DEF ServicesInv
<1>2. QED
  BY <1>1, ServicesInvariance, PTL
-----------------------------------------------------------------------------
(* Types need no assumption about restarts, signals or overlaps.           *)

LEMMA UpKeepsType ==
  ASSUME TypeOK, NEW u \in Ups, OnTunnelUp(u)
  PROVE  TypeOK'
<1> USE DEF TypeOK, Cleaning, Restarting, UpPCs, WatchPCs, Go, Fault, vpn, health, services,
            bounds
<1>1. CASE AllowPorts(u)
  BY <1>1 DEF AllowPorts
<1>2. CASE StartDNS(u)
  BY <1>2 DEF StartDNS
<1>3. CASE DNSStarted(u)
  BY <1>3 DEF DNSStarted
<1>4. CASE DNSAbandoned(u)
  BY <1>4 DEF DNSAbandoned
<1>5. CASE TakeHealthDone(u)
  BY <1>5 DEF TakeHealthDone
<1>6. CASE AwaitHealth(u)
  BY <1>6 DEF AwaitHealth, SetConfig
<1>7. CASE StartChecker(u)
  BY <1>7 DEF StartChecker
<1>8. CASE StartFails(u) \/ FetchFails(u)
  BY <1>8 DEF StartFails, FetchFails
<1>9. CASE FetchIP(u)
  BY <1>9 DEF FetchIP
<1>10. CASE StartForwarding(u)
  BY <1>10 DEF StartForwarding
<1>11. CASE UpRestarts(u)
  BY <1>11 DEF UpRestarts, RestartStop, RestartRun, BeginCleanup
<1>12. QED
  BY <1>1, <1>2, <1>3, <1>4, <1>5, <1>6, <1>7, <1>8, <1>9, <1>10, <1>11 DEF OnTunnelUp

LEMMA CollectKeepsType ==
  ASSUME TypeOK, NEW u \in Ups, CollectHealthErrors(u)
  PROVE  TypeOK'
<1> USE DEF TypeOK, Cleaning, Restarting, UpPCs, WatchPCs, Fault, vpn, health, services, bounds
<1>1. CASE WatchEnds(u)
  BY <1>1 DEF WatchEnds, StopChecker
<1>2. CASE HealthFails(u)
  <2> USE <1>2 DEF HealthFails, StopChecker
  <2>1. faults' \in 0..MaxFaults /\ requests' \in 0..MaxRequests
    BY DEF TunnelUpAssumption
  <2>2. watch' \in [Ups -> WatchPCs] /\ checking' \subseteq Ups /\ targets' \in BOOLEAN
    OBVIOUS
  <2>3. UNCHANGED <<vpn, up, healthDone, awaited, stopper, services>>
    OBVIOUS
  <2>4. QED
    BY <2>1, <2>2, <2>3
<1>3. CASE WatchRestarts(u)
  BY <1>3 DEF WatchRestarts, RestartStop, RestartRun, BeginCleanup
<1>4. QED
  BY <1>1, <1>2, <1>3 DEF CollectHealthErrors

\* tunnelup.go and cleanup.go: a call of onTunnelUp, of its collectHealthErrors
\* and the loop are always at a place of their code, and the fields they share
\* hold a channel of one of the calls, however many connections overlap.
THEOREM TunnelUpIsTyped == Spec => []TypeOK
<1>1. Init => TypeOK
  BY InitIInv DEF IInv
<1>2. TypeOK /\ [Next]_vars => TypeOK'
  <2> SUFFICES ASSUME TypeOK, [Next]_vars PROVE TypeOK'
    OBVIOUS
  <2> USE DEF TypeOK, Cleaning, Fault, Request, vpn, health, services, bounds
  <2>1. CASE Crash \/ UserStop \/ UserStart
    BY <2>1 DEF Crash, UserStop, UserStart, BeginCleanup
  <2>2. CASE Connect \/ SetupFails
    BY <2>2 DEF Connect, SetupFails
  <2>3. CASE Cleanup
    BY <2>3 DEF Cleanup, RemovePorts, ClearData, StopForwarding, Cancel
  <2>4. ASSUME NEW u \in Ups, TunnelReady(u)
        PROVE  TypeOK'
    BY <2>4 DEF TunnelReady, UpPCs
  <2>5. CASE UNCHANGED vars
    BY <2>5 DEF vars
  <2>6. QED
    BY <2>1, <2>2, <2>3, <2>4, <2>5, UpKeepsType, CollectKeepsType DEF Next
<1>3. QED
  BY <1>1, <1>2, PTL DEF Spec
=============================================================================
