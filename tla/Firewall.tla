------------------------------ MODULE Firewall ------------------------------
(* internal/firewall and internal/firewall/iptables: the state the firewall  *)
(* keeps in memory against the rules the kernel has, where any iptables      *)
(* command may fail. The kernel may hold one rule several times, so the      *)
(* rules are a bag: a function from rules to how many copies there are. Each *)
(* call into package iptables saves the rules, runs its instructions and     *)
(* restores the rules if one fails, all under iptablesMutex: it is done as a *)
(* whole or not at all. An operation of Config makes several such calls      *)
(* under stateMutex; calls that do not hold it only add and remove rules of  *)
(* their own, so an operation is one action.                                 *)
EXTENDS Naturals, FiniteSets

CONSTANTS
    Connections,    \* VPN servers (address, port and protocol)
    Tunnels,        \* names of the VPN interface
    Routes,         \* default routes
    Device,         \* the network interface of each default route
    Family,         \* the IP family of each default route and subnet
    Subnets,        \* outbound subnets
    Ports,          \* ports other than 0
    Exchanges,      \* exchanges restrictednet and pmtud make an exception for
    MaxFaults       \* how many iptables commands may fail

None == "none"
Devices == {Device[r] : r \in Routes}

FirewallConstants ==
    /\ IsFiniteSet(Routes) /\ IsFiniteSet(Subnets)
    /\ DOMAIN Device = Routes
    /\ DOMAIN Family = Routes \cup Subnets
    /\ Ports \subseteq Nat \ {0}
    /\ MaxFaults \in Nat
    /\ None \notin Connections \cup Tunnels

VARIABLES
    enabled,
    rules,                \* rule |-> copies of it in the kernel
    vpnConnection, vpnIntf,
    outboundSubnets,
    allowedInputPorts,    \* set of <<interface, port>>
    portRedirections,     \* set of <<interface, source, destination>>
    exchanges,            \* exchanges under way
    faults                \* iptables commands that failed so far

tracked == <<vpnConnection, vpnIntf, outboundSubnets, allowedInputPorts,
             portRedirections>>
vars == <<enabled, rules, tracked, exchanges, faults>>
-----------------------------------------------------------------------------
(* Rules, by what the instructions of package iptables match on.             *)

ToServer(d, c) == <<"toServer", d, c>>
Through(i) == <<"through", i>>
Input(i, p) == <<"input", i, p>>
Redirect(i, s, d) == <<"redirect", i, s, d>>
ToSubnet(r, n) == <<"toSubnet", r, n>>
Exchange(e) == <<"exchange", e>>
PublicOnly == <<"publicOnly">>     \* the chain made when conntrack is not flushed
Base == <<"base">>                  \* DROP policies, loopback, local networks

AcceptInputToPort(i, p) == {Input(i, p)}
RedirectPortRules(i, s, d) == {Redirect(i, s, d), Input(i, d)}

Rule == {ToServer(d, c) : d \in Devices, c \in Connections}
        \cup {Through(i) : i \in Tunnels}
        \cup {Input(i, p) : i \in Devices \cup Tunnels, p \in Ports \cup {0}}
        \cup {Redirect(i, s, d) : i \in Tunnels, s \in Ports, d \in Ports \cup {0}}
        \cup {ToSubnet(r, n) : r \in Routes, n \in Subnets}
        \cup {Exchange(e) : e \in Exchanges}
        \cup {PublicOnly, Base}

(* Appending the rules of one call, and deleting them: a deletion lists the  *)
(* chain and deletes the first rule that matches, or nothing.                *)
Append(b, rs) == [r \in Rule |-> IF r \in rs THEN b[r] + 1 ELSE b[r]]
deleteIPTablesRule(b, rs) ==
    [r \in Rule |-> IF r \in rs /\ b[r] > 0 THEN b[r] - 1 ELSE b[r]]

(* The rule to a server is appended, or deleted, once per route in rs, and   *)
(* routes may share a device.                                                *)
Via(rs, d) == Cardinality({r \in rs : Device[r] = d})
AppendToServer(b, rs, c) ==
    [x \in Rule |-> IF \E d \in Devices : x = ToServer(d, c)
                    THEN b[x] + Via(rs, x[2]) ELSE b[x]]
DeleteToServer(b, rs, c) ==
    [x \in Rule |-> IF \E d \in Devices : x = ToServer(d, c)
                    THEN IF b[x] > Via(rs, x[2]) THEN b[x] - Via(rs, x[2]) ELSE 0
                    ELSE b[x]]

Fault(n) == faults + n <= MaxFaults /\ faults' = faults + n
RoutesTo(n) == {r \in Routes : Family[r] = Family[n]}
-----------------------------------------------------------------------------
Init ==
    /\ enabled = FALSE
    /\ rules = [r \in Rule |-> 0]
    /\ vpnConnection = None /\ vpnIntf = None
    /\ outboundSubnets = {} /\ allowedInputPorts = {} /\ portRedirections = {}
    /\ exchanges = {}
    /\ faults = 0

(* Connections that exist are killed by flushing conntrack, else by a chain *)
(* that lets only marked packets through, else by rejecting and at last by   *)
(* dropping them for one second: n failures, after which a chain is left for *)
(* good if marking worked or if the last revert failed.                      *)
FlushExistingConnections(n, left) ==
    /\ n \in 0 .. 4
    /\ Fault(n)
    /\ n \in {0, 2} => ~left
    /\ n = 1 => left

(* At start-up, when there is nothing to allow yet. Any other failed command *)
(* restores the rules there were, and the program ends.                      *)
SetEnabled ==
    /\ ~enabled
    /\ \/ /\ \E n \in 0 .. 4, left \in BOOLEAN :
               /\ FlushExistingConnections(n, left)
               /\ rules' = Append(rules, IF left THEN {Base, PublicOnly} ELSE {Base})
          /\ enabled' = TRUE
       \/ Fault(1) /\ UNCHANGED <<enabled, rules>>
    /\ UNCHANGED <<tracked, exchanges>>

(* The rules of the connection before are deleted, a failure being logged    *)
(* only (kept: the routes it happened for); those of the new one are         *)
(* appended up to the first failure (added: the routes done by then).        *)
SetVPNConnection(c, i) ==
    /\ enabled
    /\ vpnConnection # c
    /\ \E kept, added \in SUBSET Routes, keptIntf, addedIntf \in BOOLEAN :
        LET connected == added = Routes
            b1 == DeleteToServer(rules, Routes \ kept, vpnConnection)
            b2 == IF keptIntf THEN b1 ELSE deleteIPTablesRule(b1, {Through(vpnIntf)})
            b3 == AppendToServer(b2, added, c)
        IN /\ vpnConnection = None => kept = {}
           /\ vpnIntf = None => ~keptIntf
           /\ addedIntf => connected
           /\ Fault(Cardinality(kept) + (IF keptIntf THEN 1 ELSE 0)
                    + (IF addedIntf THEN 0 ELSE 1))
           /\ rules' = IF addedIntf THEN Append(b3, {Through(i)}) ELSE b3
           /\ vpnConnection' = IF connected THEN c ELSE None
           /\ vpnIntf' = IF addedIntf THEN i ELSE None
    /\ UNCHANGED <<enabled, outboundSubnets, allowedInputPorts,
                   portRedirections, exchanges>>

SetAllowedPort(p, i) ==
    /\ enabled
    /\ <<i, p>> \notin allowedInputPorts
    /\ \/ /\ Fault(0)
          /\ rules' = Append(rules, AcceptInputToPort(i, p))
          /\ allowedInputPorts' = allowedInputPorts \cup {<<i, p>>}
       \/ Fault(1) /\ UNCHANGED <<rules, allowedInputPorts>>
    /\ UNCHANGED <<enabled, vpnConnection, vpnIntf, outboundSubnets,
                   portRedirections, exchanges>>

(* The interfaces are a map: they are done in any order, up to a failure.    *)
RemoveAllowedPort(p) ==
    LET intfs == {i \in Devices \cup Tunnels : <<i, p>> \in allowedInputPorts} IN
    /\ enabled
    /\ \E done \in SUBSET intfs :
        /\ Fault(IF done = intfs THEN 0 ELSE 1)
        /\ rules' = deleteIPTablesRule(rules, {Input(i, p) : i \in done})
        /\ allowedInputPorts' = allowedInputPorts \ {<<i, p>> : i \in done}
    /\ UNCHANGED <<enabled, vpnConnection, vpnIntf, outboundSubnets,
                   portRedirections, exchanges>>

(* check: a redirection of the same port of the interface to elsewhere.      *)
Conflicts(i, s, d) ==
    {x \in portRedirections : x[1] = i /\ x[2] = s /\ x[3] # d}

KeepConflict(i, s, d) ==
    /\ enabled
    /\ <<i, s, d>> \notin portRedirections
    /\ Fault(0)
    /\ rules' = Append(rules, RedirectPortRules(i, s, d))
    /\ portRedirections' = (portRedirections \ Conflicts(i, s, d)) \cup {<<i, s, d>>}
    /\ UNCHANGED <<enabled, vpnConnection, vpnIntf, outboundSubnets,
                   allowedInputPorts, exchanges>>

RecordSwapped(i, s, d) ==
    /\ enabled
    /\ <<i, s, d>> \notin portRedirections
    /\ Fault(0)
    /\ rules' = Append(rules, RedirectPortRules(i, s, d))
    /\ portRedirections' = portRedirections \cup {<<i, d, s>>}
    /\ UNCHANGED <<enabled, vpnConnection, vpnIntf, outboundSubnets,
                   allowedInputPorts, exchanges>>

RedirectPort(i, s, d) ==
    /\ enabled
    /\ <<i, s, d>> \notin portRedirections
    /\ LET conflict == Conflicts(i, s, d)
           cleared == IF conflict = {} THEN rules
                      ELSE LET x == CHOOSE x \in conflict : TRUE
                           IN deleteIPTablesRule(rules, RedirectPortRules(i, s, x[3]))
       IN \/ /\ Fault(0)
             /\ rules' = Append(cleared, RedirectPortRules(i, s, d))
             /\ portRedirections' = (portRedirections \ conflict) \cup {<<i, s, d>>}
          \/ /\ Fault(1)
             /\ rules' = cleared
             /\ portRedirections' = portRedirections \ conflict
          \/ conflict # {} /\ Fault(1) /\ UNCHANGED <<rules, portRedirections>>
    /\ UNCHANGED <<enabled, vpnConnection, vpnIntf, outboundSubnets,
                   allowedInputPorts, exchanges>>

(* Removed subnets are forgotten whether or not their rules were (kept: the  *)
(* rules that were not); new ones are added up to the first failure (part:   *)
(* the routes of the failed subnet that were done). A subnet of a family     *)
(* without default route is ignored.                                         *)
SetOutboundSubnets(subnets) ==
    LET RulesTo(ns) == UNION {{ToSubnet(r, n) : r \in RoutesTo(n)} : n \in ns}
        toRemove == {n \in outboundSubnets \ subnets : RoutesTo(n) # {}}
        toAdd == {n \in subnets \ outboundSubnets : RoutesTo(n) # {}}
    IN
    /\ enabled
    /\ \E kept \in SUBSET RulesTo(toRemove), done \in SUBSET toAdd, part \in SUBSET RulesTo(toAdd) :
        /\ \/ done = toAdd /\ part = {} /\ Fault(Cardinality(kept))
           \/ /\ \E n \in toAdd \ done : part \subseteq RulesTo({n}) /\ part # RulesTo({n})
              /\ Fault(Cardinality(kept) + 1)
        /\ rules' = Append(deleteIPTablesRule(rules, RulesTo(toRemove) \ kept), RulesTo(done) \cup part)
        /\ outboundSubnets' = (outboundSubnets \ toRemove) \cup done
    /\ UNCHANGED <<enabled, vpnConnection, vpnIntf, allowedInputPorts,
                   portRedirections, exchanges>>

(* restrictednet opens one destination to one source port and closes it      *)
(* after the exchange, or at once if it cannot connect; pmtud drops the RST  *)
(* packets of one probe. A failed removal is reported or logged.             *)
OpenExchange(e) ==
    /\ enabled
    /\ e \notin exchanges
    /\ \/ /\ Fault(0)
          /\ rules' = Append(rules, {Exchange(e)})
          /\ exchanges' = exchanges \cup {e}
       \/ Fault(1) /\ UNCHANGED <<rules, exchanges>>
    /\ UNCHANGED <<enabled, tracked>>

CloseExchange(e) ==
    /\ e \in exchanges
    /\ exchanges' = exchanges \ {e}
    /\ \/ Fault(0) /\ rules' = deleteIPTablesRule(rules, {Exchange(e)})
       \/ Fault(1) /\ UNCHANGED rules
    /\ UNCHANGED <<enabled, tracked>>

Next ==
    \/ SetEnabled
    \/ \E c \in Connections, i \in Tunnels : SetVPNConnection(c, i)
    \/ \E p \in Ports, i \in Devices \cup Tunnels : SetAllowedPort(p, i)
    \/ \E p \in Ports : RemoveAllowedPort(p)
    \/ \E i \in Tunnels, s \in Ports, d \in Ports \cup {0} : RedirectPort(i, s, d)
    \/ \E subnets \in SUBSET Subnets : SetOutboundSubnets(subnets)
    \/ \E e \in Exchanges : OpenExchange(e) \/ CloseExchange(e)

Spec == Init /\ [][Next]_vars
-----------------------------------------------------------------------------
(* How many copies of a rule the state in memory stands for.                 *)
Expected(x) ==
    IF ~enabled THEN 0 ELSE
    (IF x = Base THEN 1 ELSE 0)
    + (IF \E d \in Devices : x = ToServer(d, vpnConnection)
       THEN Via(Routes, x[2]) ELSE 0)
    + (IF x = Through(vpnIntf) THEN 1 ELSE 0)
    + (IF \E a \in allowedInputPorts : x = Input(a[1], a[2]) THEN 1 ELSE 0)
    + Cardinality({a \in portRedirections : x \in RedirectPortRules(a[1], a[2], a[3])})
    + (IF \E n \in outboundSubnets : \E r \in RoutesTo(n) : x = ToSubnet(r, n)
       THEN 1 ELSE 0)
    + (IF \E e \in exchanges : x = Exchange(e) THEN 1 ELSE 0)

TypeOK ==
    /\ enabled \in BOOLEAN
    /\ rules \in [Rule -> Nat]
    /\ vpnConnection \in Connections \cup {None} /\ vpnIntf \in Tunnels \cup {None}
    /\ outboundSubnets \subseteq Subnets
    /\ allowedInputPorts \subseteq (Devices \cup Tunnels) \X Ports
    /\ portRedirections \subseteq Tunnels \X Ports \X (Ports \cup {0})
    /\ exchanges \subseteq Exchanges
    /\ faults \in 0 .. MaxFaults

-----------------------------------------------------------------------------
(* Whatever failed, the firewall never believes in a rule the kernel does    *)
(* not have.                                                                 *)
StateIsInstalled == \A x \in Rule : rules[x] >= Expected(x)

(* The kill switch is exact: but for what a failed command left behind,      *)
(* nothing is let through that the state does not ask for, no copy of a rule *)
(* survives its removal, and traffic may leave only to the current server,   *)
(* through the tunnel, to the outbound subnets and in an exchange under way. *)
Superfluous == UNION {{x} \X (1 .. rules[x] - Expected(x)) : x \in Rule}

NothingElseIsAllowed ==
    LET left == IF Cardinality(Routes) > 1 THEN Cardinality(Routes) - 1 ELSE 1
    IN  Cardinality(Superfluous) <= faults * left

(* "If the destination port is zero, the redirection for the source port is  *)
(* removed and no new redirection is added."                                 *)
ZeroClearsRedirection ==
    \A i \in Tunnels, s \in Ports : rules[Redirect(i, s, 0)] = 0
=============================================================================
