------------------------------- MODULE Network ------------------------------
(* What touches the kernel and the network below the VPN loop: the firewall, *)
(* the routes around the tunnel, the device of a runner, the search of the   *)
(* path MTU, and the SOCKS5 server with the associations of its UDP router.  *)
(* As in Services, a behaviour is one of these alone: they share no state.   *)
EXTENDS Naturals

CONSTANTS
    Connections, Tunnels, Routes, Device, Family, Subnets, Ports, Exchanges, MaxFaults,
    OutboundFamily, RoutingFaults, RoutingRuns,
    DeviceRuns, StepFailures,
    Physical, MinMTU, Paths, TCPHeaders, MSSs, TCPServers, ICMPServers, TestsLength, Margin,
    SafetyBuffer, MaxLost,
    Connections5, Failures,
    Associations, Addresses5, Ports5, QueueSize, Packets

VARIABLES
    part,                               \* the part of this behaviour
    enabled, rules, vpnConnection, vpnIntf, outboundSubnets, allowedInputPorts,
    portRedirections, exchanges, faults,
    rt, dev, pm, socks, router          \* the state of each other part

Filter == INSTANCE Firewall
Kernel == INSTANCE Routing
Runner == INSTANCE TunnelDevice
MTU == INSTANCE PathMTU
Socks == INSTANCE Socks5Server
UDP == INSTANCE UDPAssociations

firewall == <<enabled, rules, vpnConnection, vpnIntf, outboundSubnets, allowedInputPorts,
              portRedirections, exchanges, faults>>
vars == <<part, firewall, rt, dev, pm, socks, router>>

ASSUME NetworkAssumption ==
    /\ Filter!FirewallConstants /\ Kernel!RoutingConstants /\ Runner!DeviceConstants /\ MTU!PathMTUConstants
    /\ Socks!SocksConstants /\ UDP!AssociationConstants
-----------------------------------------------------------------------------
(* The parts that do not take part rest in one of their initial states.      *)
Resting ==
    /\ part # "routing" => rt.families = {"v4"} /\ rt.wanted = {}
    /\ part # "runner" => dev.variant = "kernel" /\ ~dev.ipv6
    /\ part # "mtu" => pm.path = Physical /\ pm.marks
    /\ part # "socks" => ~socks.enabled

Init ==
    /\ part \in {"firewall", "routing", "runner", "mtu", "socks", "udp"}
    /\ Filter!Init /\ Kernel!Init /\ Runner!Init /\ MTU!Init /\ Socks!Init /\ UDP!Init
    /\ Resting

FirewallNext == part = "firewall" /\ Filter!Next /\ UNCHANGED <<part, rt, dev, pm, socks, router>>
RoutingNext == part = "routing" /\ Kernel!Next /\ UNCHANGED <<part, firewall, dev, pm, socks, router>>
RunnerNext == part = "runner" /\ Runner!Next /\ UNCHANGED <<part, firewall, rt, pm, socks, router>>
MTUNext == part = "mtu" /\ MTU!Next /\ UNCHANGED <<part, firewall, rt, dev, socks, router>>
SocksNext == part = "socks" /\ Socks!Next /\ UNCHANGED <<part, firewall, rt, dev, pm, router>>
UDPNext == part = "udp" /\ UDP!Next /\ UNCHANGED <<part, firewall, rt, dev, pm, socks>>

Next == FirewallNext \/ RoutingNext \/ RunnerNext \/ MTUNext \/ SocksNext \/ UDPNext

Spec == Init /\ [][Next]_vars
-----------------------------------------------------------------------------
(* Every part is in a state of its type.                                     *)
TypeOK ==
    Filter!TypeOK /\ Kernel!TypeOK /\ Runner!TypeOK /\ MTU!TypeOK /\ Socks!TypeOK /\ UDP!TypeOK

(* The properties of the parts are stated, in words and as formulas, in      *)
(* their modules.                                                            *)

(* firewall: whatever fails, the kernel has the rules the firewall believes  *)
(* in, and no more than failures left.                                       *)
KillSwitchIsExact == part = "firewall" => Filter!StateIsInstalled /\ Filter!NothingElseIsAllowed

(* routing, runners, socks5: what has ended leaves nothing behind that holds *)
(* up what comes after it: no rule of the program, no device, rule or        *)
(* goroutine of a runner, no listener of a server, no route of an            *)
(* association.                                                              *)
NothingIsLeft ==
    /\ Kernel!RoutesAreSetUp /\ Kernel!RunsLeaveNothing
    /\ Runner!NothingIsLeft /\ Runner!NoRunnerIsRefused /\ Runner!GoroutinesEnd
    /\ Socks!StopHangsOnlyAfterCrash /\ Socks!NothingListens
    /\ UDP!RoutesAreLive /\ UDP!ClientsAreHeard

(* pmtud: the size that is set is carried, and the largest that is.          *)
MTUIsCarried == MTU!FoundIsCarried /\ MTU!FoundIsLargest /\ MTU!PanicsOnTinyMSS
=============================================================================
