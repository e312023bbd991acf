----------------------------- MODULE EngineWatch ----------------------------
(* internal/dashboard/state: what Refresh makes of the engine. It asks for   *)
(* the VPN status, the DNS status, the public IP address and the forwarded   *)
(* port one request after the other, while the engine goes on; from the      *)
(* answers it tells connections, addresses and ports from the ones before.   *)
EXTENDS Naturals, Sequences

CONSTANTS
    Engines,            \* what the engine may be: status, dns, ip, port
    Refreshes, Changes, \* how many refreshes, and changes of the engine
    Counters            \* what the interface has carried: 0 .. Counters bytes

WatchConstants ==
    /\ \A e \in Engines : e.port \in Nat /\ e.dns \in BOOLEAN
    /\ {Refreshes, Changes, Counters} \subseteq Nat

NoIP == "no address"

(* A record with the fields:                                                 *)
(*   engine, carried    the engine, and the counter of its interface         *)
(*   asking             the next request of the refresh under way            *)
(*   read               its answers so far                                   *)
(*   state, since, reconnections, ip, port    the Coordinator: the state of  *)
(*                      lastSnapshot, whether connectedSince is set, ...     *)
(*   lastRx, rate       the TrafficMonitor                                   *)
(*   ips, ports         the changes written to the history, as pairs         *)
(*   refreshed, changed used so far                                          *)
(*   stops, moved, real stops the refreshes saw, bytes carried since the     *)
(*                      counter was read, and until it was: kept for the     *)
(*                      properties                                           *)
VARIABLE watch
-----------------------------------------------------------------------------
Nothing == [status |-> "none", dns |-> FALSE, ip |-> NoIP, port |-> 0]

Init ==
    \E e \in Engines :
      watch = [engine |-> e, carried |-> 0, asking |-> "none", read |-> Nothing,
               state |-> "unknown", since |-> FALSE, reconnections |-> 0, ip |-> NoIP, port |-> 0,
               lastRx |-> 0, rate |-> 0, ips |-> <<>>, ports |-> <<>>,
               refreshed |-> 0, changed |-> 0, stops |-> 0, moved |-> 0, real |-> 0]

(* The engine connects, disconnects or crashes; the interface of a new       *)
(* connection counts from 0.                                                 *)
EngineChanges ==
    /\ watch.changed < Changes
    /\ \E e \in Engines \ {watch.engine} :
         watch' = [watch EXCEPT !.engine = e, !.changed = @ + 1,
                                !.carried = IF e.status = watch.engine.status THEN @ ELSE 0]

Carry ==
    /\ watch.engine.status = "running" /\ watch.carried < Counters
    /\ watch' = [watch EXCEPT !.carried = @ + 1, !.moved = @ + 1]
-----------------------------------------------------------------------------
(* GetVersion and GetVPNStatus: without an answer the refresh ends there.    *)
Unreachable ==
    /\ watch.asking \in {"none", "status"} /\ watch.refreshed < Refreshes
    /\ watch' = [watch EXCEPT !.state = "error", !.asking = "none", !.refreshed = @ + 1]

Refresh ==
    /\ watch.asking = "none" /\ watch.refreshed < Refreshes
    /\ watch' = [watch EXCEPT !.asking = "status", !.read = Nothing]

Answer(from, to, field, values) ==
    /\ watch.asking = from
    /\ \E v \in values :
         watch' = [watch EXCEPT !.asking = to, !.read =
                     [k \in DOMAIN @ |-> IF k = field THEN v ELSE @[k]]]

(* A request that gets no answer: no address, no port, and a DNS status      *)
(* that is not "stopped".                                                    *)
GetVPNStatus == Answer("status", "dns", "status", {watch.engine.status})
GetDNSStatus == Answer("dns", IF watch.read.status = "running" THEN "ip" ELSE "ready", "dns", {watch.engine.dns, TRUE})
GetPublicIP == Answer("ip", "port", "ip", {watch.engine.ip, NoIP})
GetPortForwarded == Answer("port", "ready", "port", {watch.engine.port, 0})
-----------------------------------------------------------------------------
ConnectionState ==
    LET r == watch.read
    IN  CASE r.status = "stopped" -> "disconnected"
          [] r.status = "running" /\ r.ip = NoIP -> "connecting"
          [] r.status = "running" /\ r.ip # NoIP /\ ~r.dns -> "degraded"
          [] r.status = "running" /\ r.ip # NoIP /\ r.dns -> "connected"
          [] OTHER -> "unknown"

Up == ConnectionState \in {"connected", "degraded"}

\* Mutant: any state but a connected one ends the connection.
SinceUnlessUp == Up

Since == IF ConnectionState = "disconnected" THEN FALSE ELSE watch.since \/ Up

(* A connection is counted when the one before it ended, as far as the       *)
(* refresh before shows.                                                     *)
IsReconnection == Up /\ ~watch.since /\ watch.state \in {"disconnected", "connecting"}

Changed(events, old, new, none) ==
    IF new = none \/ new = old THEN events ELSE Append(events, <<old, new>>)

KnownPort == IF watch.read.port > 0 THEN watch.read.port ELSE watch.port

(* The first address is no change; the first port is.                        *)
IPChanges == IF watch.ip = NoIP THEN watch.ips ELSE Changed(watch.ips, watch.ip, watch.read.ip, NoIP)
PortChanges == Changed(watch.ports, watch.port, watch.read.port, 0)

TrafficRate == IF watch.lastRx > 0 /\ watch.carried >= watch.lastRx THEN watch.carried - watch.lastRx ELSE 0

(* Without a connection no counter is read; nor when the interface is gone.  *)
Sample(state) ==
    IF Up /\ watch.engine.status = "running"
    THEN [state EXCEPT !.rate = TrafficRate, !.lastRx = watch.carried, !.real = watch.moved, !.moved = 0]
    ELSE [state EXCEPT !.rate = 0]

Conclude ==
    /\ watch.asking = "ready"
    /\ watch' = [Sample(watch) EXCEPT
                   !.asking = "none", !.refreshed = @ + 1, !.state = ConnectionState, !.since = Since,
                   !.reconnections = IF IsReconnection THEN @ + 1 ELSE @,
                   !.ips = IPChanges, !.ports = PortChanges,
                   !.ip = IF watch.read.ip = NoIP THEN @ ELSE watch.read.ip, !.port = KnownPort,
                   !.stops = IF ConnectionState = "disconnected" /\ watch.since THEN @ + 1 ELSE @]
-----------------------------------------------------------------------------
Next ==
    \/ EngineChanges \/ Carry
    \/ Refresh \/ Unreachable \/ GetVPNStatus \/ GetDNSStatus \/ GetPublicIP \/ GetPortForwarded
    \/ Conclude

Spec == Init /\ [][Next]_watch
-----------------------------------------------------------------------------
TypeOK ==
    /\ watch.engine \in Engines /\ watch.carried \in 0 .. Counters
    /\ watch.state \in {"unknown", "error", "disconnected", "connecting", "connected", "degraded"}
    /\ {watch.lastRx, watch.rate, watch.moved, watch.reconnections} \subseteq Nat
    /\ watch.since \in BOOLEAN

(* However the answers of one refresh come from different moments, and       *)
(* refreshes fail in between: one connection is counted once.                *)
ConnectionsAreCountedOnce == watch.reconnections <= watch.stops + 1

(* The history of addresses, and that of ports, tells one story: each change *)
(* goes on from the one before, and the last leads to what is known.         *)
IsChain(events, last) ==
    /\ \A i \in 1 .. Len(events) - 1 : events[i][2] = events[i + 1][1]
    /\ events # <<>> => events[Len(events)][2] = last
    /\ \A i \in DOMAIN events : events[i][1] # events[i][2]

HistoryIsAChain ==
    /\ IsChain(watch.ips, watch.ip) /\ IsChain(watch.ports, watch.port)
    /\ watch.port > 0 => watch.ports # <<>> /\ watch.ports[1][1] = 0

(* The counters wrap at 2^64 and restart with each interface: the rate never *)
(* exceeds what was carried since they were read before.                     *)
NoPhantomTraffic == watch.rate <= watch.real
=============================================================================
