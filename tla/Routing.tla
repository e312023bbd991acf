------------------------------- MODULE Routing -------------------------------
(* internal/routing and internal/subnet: the rules and routes that keep      *)
(* answers to the default interfaces, and traffic to outbound subnets, out   *)
(* of the tunnel. main sets them up before everything else and tears them    *)
(* down when it returns; any call of netlink may fail, and the program may   *)
(* be killed and be started again where the rules of its last run remain.    *)
EXTENDS Naturals, FiniteSets

CONSTANTS
    OutboundFamily,    \* the family of each subnet that may be configured
    RoutingFaults,     \* how many calls of netlink fail
    RoutingRuns        \* how many times the program is started

VARIABLE rt
(* families: the families with a default route, one each, v4 listed first    *)
(* wanted: FIREWALL_OUTBOUND_SUBNETS; outbound: Routing.outboundSubnets      *)
(* rules, routes: what the kernel has in the tables 199, 200 and local       *)
(* left: what it had when this run started                                   *)
(* failed: where calls failed in this run; killed: it ended without TearDown *)

RoutingConstants ==
    /\ OutboundFamily \in [DOMAIN OutboundFamily -> {"v4", "v6"}]
    /\ IsFiniteSet(DOMAIN OutboundFamily)
    /\ RoutingFaults \in Nat /\ RoutingRuns \in Nat \ {0}

Prefixes == DOMAIN OutboundFamily
Inbound(families) == {<<"inbound", f>> : f \in families}
Outbound(subnets) == {<<"outbound", n>> : n \in subnets}
Local == <<"local", "subnet">>

Init ==
    \E families \in {{"v4"}, {"v4", "v6"}}, wanted \in SUBSET Prefixes :
      rt = [families |-> families, wanted |-> wanted, outbound |-> {}, rules |-> {}, routes |-> {},
            left |-> <<{}, {}>>, at |-> "setup", failed |-> {}, killed |-> FALSE, faults |-> 0, runs |-> 1]

Budget(n) == rt.faults + n <= RoutingFaults
(* n calls failed, so that main goes on at the place given.                  *)
Failing(s, n, place) ==
    [s EXCEPT !.faults = @ + n, !.at = place, !.failed = IF n = 0 THEN @ ELSE @ \cup {rt.at}]
Before(f) == IF f = "v6" THEN rt.families \cap {"v4"} ELSE {}

(* Adding what is there already, and deleting a rule that is not, succeeds.  *)
addIPRule(s, items) == [s EXCEPT !.rules = @ \cup items]
deleteIPRule(s, items) == [s EXCEPT !.rules = @ \ items]
addRouteVia(s, items) == [s EXCEPT !.routes = @ \cup items]
deleteRouteVia(s, items) == [s EXCEPT !.routes = @ \ items]

-----------------------------------------------------------------------------
(* Setup: the rules of all default routes, then their routes. When one fails *)
(* it tears down what it has done and main returns. The outbound subnets are *)
(* those of the Routing, none so early.                                      *)
routeInbound(done) == addRouteVia(addIPRule(rt, Inbound(rt.families)), Inbound(done))

Setup ==
    /\ rt.at = "setup"
    /\ \/ rt' = Failing(routeInbound(rt.families), 0, "outbound")
       \/ /\ Budget(1)
          /\ \/ rt' = Failing(rt, 1, "ended")     \* DefaultRoutes
             \/ \E f \in rt.families :
                  \/ rt' = Failing(addIPRule(rt, Inbound(Before(f))), 1, "teardown")
                  \/ rt' = Failing(routeInbound(Before(f)), 1, "teardown")

(* setOutboundRoutes: a route that cannot be removed is given up; a rule     *)
(* that cannot be removed keeps its subnet in the list. Subnets are added as *)
(* far as the first that fails, whose route may be there already; those of a *)
(* family without default route are passed over.                             *)
removeOutboundSubnets(subnets, keptRoutes, keptRules) ==
    [deleteIPRule(deleteRouteVia(rt, Outbound(subnets \ keptRoutes)), Outbound(subnets \ keptRules))
     EXCEPT !.outbound = @ \ (subnets \ keptRules)]

addOutboundSubnets(s, done, routed) ==
    [addRouteVia(addIPRule(s, Outbound(done)), Outbound(done \cup routed))
     EXCEPT !.outbound = @ \cup done]

setOutboundRoutes(subnets, next, otherwise) ==
    LET toRemove == rt.outbound \ subnets
        toAdd == {n \in subnets \ rt.outbound : OutboundFamily[n] \in rt.families}
    IN  \E keptRoutes \in SUBSET toRemove, keptRules \in SUBSET toRemove :
          LET warnings == Cardinality(keptRoutes) + Cardinality(keptRules)
              removed == removeOutboundSubnets(toRemove, keptRoutes, keptRules)
          IN  \/ /\ Budget(warnings)
                 /\ rt' = Failing(addOutboundSubnets(removed, toAdd, {}), warnings, next)
              \/ /\ Budget(warnings + 1)
                 /\ \E done \in SUBSET toAdd : \E n \in toAdd \ done : \E routed \in {{}, {n}} :
                      rt' = Failing(addOutboundSubnets(removed, done, routed), warnings + 1, otherwise)

(* main: the subnets of the settings, then the rules of the local networks,  *)
(* of which one stands for all.                                              *)
SetOutboundRoutes ==
    /\ rt.at = "outbound"
    /\ \/ setOutboundRoutes(rt.wanted, "local", "teardown")
       \/ Budget(1) /\ rt' = Failing(rt, 1, "teardown")     \* DefaultRoutes

AddLocalRules ==
    /\ rt.at = "local"
    /\ \/ rt' = Failing(addIPRule(rt, {Local}), 0, "up")
       \/ Budget(1) /\ rt' = Failing(rt, 1, "teardown")

(* The program runs until a signal or a crash ends it.                       *)
Return == rt.at = "up" /\ rt' = [rt EXCEPT !.at = "teardown"]

(* TearDown: the routes of the default routes first, and no further than one *)
(* that cannot be removed, also because it is not there; then their rules.   *)
Missing(f) == <<"inbound", f>> \notin rt.routes

unrouteInbound(ruled) ==
    deleteIPRule(deleteRouteVia(rt, Inbound(rt.families)), Inbound(ruled))

UnrouteInbound ==
    /\ rt.at = "teardown"
    /\ \/ Budget(1) /\ rt' = Failing(rt, 1, "ended")     \* DefaultRoutes
       \/ \E f \in rt.families :
            LET n == IF Missing(f) THEN 0 ELSE 1
            IN  /\ \A g \in Before(f) : ~Missing(g)
                /\ Budget(n)
                /\ rt' = Failing(deleteRouteVia(rt, Inbound(Before(f))), n, "ended")
       \/ /\ \A f \in rt.families : ~Missing(f)
          /\ \/ rt' = Failing(unrouteInbound(rt.families), 0, "unroute")
             \/ /\ Budget(1)
                /\ \E f \in rt.families : rt' = Failing(unrouteInbound(Before(f)), 1, "ended")

(* Then the outbound subnets. The local rules are left.                      *)
UnrouteOutbound == rt.at = "unroute" /\ setOutboundRoutes({}, "ended", "ended")

(* The grace period ends, or the container is killed.                        *)
Kill == rt.at # "ended" /\ rt' = [rt EXCEPT !.at = "ended", !.killed = TRUE]

(* The container is started again in the same network namespace, maybe with  *)
(* other settings.                                                           *)
StartAgain ==
    /\ rt.at = "ended" /\ rt.runs < RoutingRuns
    /\ \E wanted \in SUBSET Prefixes :
         rt' = [rt EXCEPT !.at = "setup", !.runs = @ + 1, !.wanted = wanted, !.outbound = {},
                          !.left = <<rt.rules, rt.routes>>, !.failed = {}, !.killed = FALSE]

Next ==
    \/ Setup \/ SetOutboundRoutes \/ AddLocalRules \/ Return
    \/ UnrouteInbound \/ UnrouteOutbound \/ Kill \/ StartAgain

Spec == Init /\ [][Next]_rt
-----------------------------------------------------------------------------
Items == Inbound({"v4", "v6"}) \cup Outbound(Prefixes) \cup {Local}

TypeOK ==
    /\ rt.at \in {"setup", "outbound", "local", "up", "teardown", "unroute", "ended"}
    /\ rt.rules \subseteq Items /\ rt.routes \subseteq Items \ {Local}
    /\ rt.outbound \subseteq Prefixes /\ rt.faults \in 0 .. RoutingFaults

(* A program that runs has the rule and the route of every default route and *)
(* of every subnet it was given that one of them can carry, whatever an      *)
(* earlier run left.                                                         *)
RoutesAreSetUp ==
    rt.at = "up" =>
      LET subnets == {n \in rt.wanted : OutboundFamily[n] \in rt.families}
      IN  /\ Inbound(rt.families) \cup Outbound(subnets) \subseteq rt.rules \cap rt.routes
          /\ rt.outbound = subnets

(* A run that returns leaves nothing behind that TearDown did not fail to    *)
(* remove, but for the local rule, the route of an outbound subnet whose rule*)
(* could not be added, and, after Setup failed, rules of default routes:     *)
(* TearDown stops at the first route that Setup had not come to.             *)
RunsLeaveNothing ==
    rt.at = "ended" /\ ~rt.killed /\ rt.failed \cap {"teardown", "unroute"} = {} =>
      /\ rt.rules \ rt.left[1] \subseteq
           {Local} \cup (IF "setup" \in rt.failed THEN Inbound(rt.families) ELSE {})
      /\ rt.routes \ rt.left[2] \subseteq
           (IF "outbound" \in rt.failed THEN Outbound(rt.wanted) ELSE {})
=============================================================================
