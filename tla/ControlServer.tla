---------------------------- MODULE ControlServer ---------------------------
(* internal/server: which request is let through by the roles, to which      *)
(* handler it goes, and what that does to the loops. A request is checked by *)
(* its path and dispatched by its URI, query included; it then makes one or  *)
(* two calls, between which other requests make theirs.                      *)
EXTENDS Naturals, Sequences

CONSTANTS
    Servings,               \* requests that are served at a time
    RoleFiles,              \* the roles a file of roles may hold
    DefaultRoles,           \* the roles for what these do not name
    Secrets,                \* what a request may come with
    MaxServed               \* how many requests change anything

(* A path is its handler and the rest; "v0" is that of the paths without v1. *)
Reads ==
    {<<"v0", "openvpn/actions/restart">>, <<"v0", "openvpn/portforwarded">>, <<"v0", "openvpn/settings">>,
     <<"v0", "unbound/actions/restart">>, <<"v0", "updater/restart">>, <<"v1", "version">>,
     <<"openvpn", "portforwarded">>, <<"openvpn", "settings">>, <<"publicip", "ip">>}
Writes ==
    {<<"vpn", "status">>, <<"vpn", "settings">>, <<"openvpn", "status">>, <<"dns", "status">>,
     <<"updater", "status">>, <<"portforward", "">>}

validRoutes == (Reads \X {"GET"}) \cup (Writes \X {"GET", "PUT"})

Loops == {"vpn", "dns", "updater"}

(* A record with the fields:                                                 *)
(*   file, default  the roles of the file, and the one for the other routes  *)
(*   on, type       which loops run, and the type of VPN that is selected    *)
(*   todo           what each request has still to do, one call after the    *)
(*                  other                                                    *)
(*   last           the last request that was answered or dispatched, and    *)
(*                  whether the roles allow it: kept for the properties      *)
(*   asked          loops that somebody asked to stop since they started     *)
(*   ended          the context of the server has ended                      *)
(*   served         counts the requests that change anything                 *)
VARIABLE ctl
-----------------------------------------------------------------------------
(* Roles                                                                     *)

Checker(role) == <<role.auth, role.key>>

ValidRole(role) ==
    /\ role.auth \in {"none", "apikey", "basic"}
    /\ role.auth = "none" \/ role.key # ""
    /\ role.routes \subseteq validRoutes

ControlServerConstants ==
    /\ \A file \in RoleFiles : \A role \in file : {role.auth, role.key} \subseteq STRING
    /\ \A role \in DefaultRoles : role = [auth |-> role.auth, key |-> role.key, routes |-> {}]
    /\ \A secret \in Secrets : secret[1] \in {"apikey", "basic"}
    /\ MaxServed \in Nat

(* The default role is that of the routes no role of the file names.         *)
SetDefaultRole(file, default) ==
    IF default.auth = "" THEN {}
    ELSE {[default EXCEPT !.routes = validRoutes \ UNION {role.routes : role \in file}]}

(* With a role that is not valid there is no server.                         *)
Validate(file, default) == \A role \in file \cup SetDefaultRole(file, default) : ValidRole(role)

(* settingsToLookupMap: a checker is kept once for a route.                  *)
RouteToRoles(route) ==
    {Checker(role) : role \in {r \in ctl.file \cup SetDefaultRole(ctl.file, ctl.default) : route \in r.routes}}

(* A request without a key comes with the empty one.                         *)
Authorized(checker, holds) ==
    checker[1] = "none" \/ checker \in (IF \E s \in holds : s[1] = "apikey" THEN holds ELSE holds \cup {<<"apikey", "">>})

Started(file, default, type) ==
    [file |-> file, default |-> default, on |-> [l \in Loops |-> l # "updater"], type |-> type,
     todo |-> [r \in Servings |-> <<>>], asked |-> {"updater"}, ended |-> FALSE, served |-> 0,
     last |-> [answer |-> "none", plain |-> TRUE, allowed |-> FALSE]]

Init ==
    \E file \in RoleFiles, default \in DefaultRoles, type \in {"openvpn", "wireguard"} :
        Validate(file, default) /\ ctl = Started(file, default, type)
-----------------------------------------------------------------------------
(* Handlers: what is done for each path and method they know. A function     *)
(* stands for a switch, and what is not in its domain is not supported.      *)

Show == <<>>
Restart(loop) == <<<<loop, "stopped">>, <<loop, "running">>>>
Status(loop, status) == <<<<loop, status>>>>

handlerV0 ==
    [known \in {"openvpn/actions/restart", "unbound/actions/restart", "updater/restart", "version",
               "openvpn/portforwarded", "openvpn/settings"} \X {"GET"} |->
       CASE known[1] = "openvpn/actions/restart" -> {Restart("vpn")}
         [] known[1] = "unbound/actions/restart" -> {Restart("dns")}
         [] known[1] = "updater/restart" -> {Restart("updater")}
         [] OTHER -> {Show}]

(* Only these two statuses may be asked for; any other one is refused, which *)
(* does nothing.                                                             *)
SetStatus(loop) == {Status(loop, "stopped"), Status(loop, "running"), Show}

(* Settings that are refused, or the same as those there are, change nothing.*)
SetSettings(type) == <<<<"type", type>>>> \o Restart("vpn")
PatchSettings == {SetSettings("openvpn"), SetSettings("wireguard"), Show}

vpnHandler ==
    [known \in {"status", "settings"} \X {"GET", "PUT"} |->
       CASE known = <<"status", "PUT">> -> SetStatus("vpn")
         [] known = <<"settings", "PUT">> -> PatchSettings
         [] OTHER -> {Show}]

(* To start OpenVPN when it is not the selected type selects it, without a   *)
(* look at whether the settings are then valid.                              *)
SetOpenVPNStatus ==
    IF ctl.type = "openvpn" THEN SetStatus("vpn") ELSE {Status("vpn", "stopped"), SetSettings("openvpn"), Show}

openvpnHandler ==
    [known \in {<<"status", "PUT">>} \cup {"status", "settings", "portforwarded"} \X {"GET"} |->
       IF known[2] = "PUT" THEN SetOpenVPNStatus ELSE {Show}]

StatusHandler(loop) ==
    [known \in {"status"} \X {"GET", "PUT"} |-> IF known[2] = "PUT" THEN SetStatus(loop) ELSE {Show}]

dnsHandler == StatusHandler("dns")
updaterHandler == StatusHandler("updater")
publicIPHandler == [known \in {<<"ip", "GET">>} |-> {Show}]
(* It does not look at the path; the loop it tells of ports is PortForward.  *)
portForwardHandler == [any \in {"", "with query"} \X {"GET", "PUT"} |-> {Show}]

handlerV1 ==
    [v1 |-> [known \in {<<"version", "GET">>} |-> {Show}], vpn |-> vpnHandler, openvpn |-> openvpnHandler, dns |-> dnsHandler,
     updater |-> updaterHandler, publicip |-> publicIPHandler, portforward |-> portForwardHandler]

Dispatch(path) == IF path[1] = "v0" THEN handlerV0 ELSE handlerV1[path[1]]
-----------------------------------------------------------------------------
(* What the roles say of a request, for the properties: those of the file    *)
(* that name its route decide, or the default role when there is none.       *)
Allowed(route, holds) ==
    LET named == {role \in ctl.file : route \in role.routes}
        deciding == IF named = {} THEN {ctl.default} ELSE named
    IN  \E role \in deciding : role.auth = "none" \/ Checker(role) \in holds

(* The middleware looks at the path and the handlers at the URI, which has   *)
(* the query.                                                                *)
Answered(route, holds, plain, answer) ==
    [ctl EXCEPT !.last = [answer |-> answer, plain |-> plain, allowed |-> Allowed(route, holds)]]

ServeHTTP(r) ==
    /\ ctl.todo[r] = <<>> /\ ctl.served < MaxServed
    /\ \E route \in (Reads \cup Writes) \X {"GET", "PUT", "POST"}, holds \in SUBSET Secrets, plain \in BOOLEAN :
         LET path == route[1]
             known == <<IF plain THEN path[2] ELSE "with query", route[2]>>
         IN  IF route \notin validRoutes
             THEN ctl' = Answered(route, holds, plain, "unknown")
             ELSE IF ~ \E checker \in RouteToRoles(route) : Authorized(checker, holds)
             THEN ctl' = Answered(route, holds, plain, "denied")
             ELSE IF known \notin DOMAIN Dispatch(path)
             THEN ctl' = Answered(route, holds, plain, "unsupported")
             ELSE \E calls \in Dispatch(path)[known] :
                    ctl' = [Answered(route, holds, plain, "served")
                              EXCEPT !.todo[r] = calls, !.served = @ + (IF calls = Show THEN 0 ELSE 1)]

(* State.SetSettings of the VPN loop: what is already so is left alone.      *)
SetType(r, type) ==
    ctl' = [ctl EXCEPT !.todo[r] = IF ctl.type = type THEN <<>> ELSE Tail(@), !.type = type]

(* ApplyStatus and SetStatus, of which the restarts ignore the error. Once   *)
(* the context has ended nothing is certain.                                 *)
ApplyStatus(r, loop, status) ==
    LET rest == Tail(ctl.todo[r])
    IN  \/ ctl' = [ctl EXCEPT !.todo[r] = rest, !.on[loop] = (status = "running"),
                   !.asked = IF status = "running" THEN @ \ {loop} ELSE IF rest = <<>> THEN @ \cup {loop} ELSE @]
        \/ ctl.ended /\ ctl' = [ctl EXCEPT !.todo[r] = rest]

Call(r) ==
    /\ ctl.todo[r] # <<>>
    /\ LET call == Head(ctl.todo[r])
       IN  IF call[1] = "type" THEN SetType(r, call[2]) ELSE ApplyStatus(r, call[1], call[2])

Shutdown == ~ctl.ended /\ ctl' = [ctl EXCEPT !.ended = TRUE]

Next == Shutdown \/ \E r \in Servings : ServeHTTP(r) \/ Call(r)

Spec == Init /\ [][Next]_ctl
-----------------------------------------------------------------------------
TypeOK ==
    /\ ctl.on \in [Loops -> BOOLEAN] /\ ctl.type \in {"openvpn", "wireguard"}
    /\ \A r \in Servings : Len(ctl.todo[r]) <= 3
    /\ ctl.asked \subseteq Loops /\ ctl.served \in 0 .. MaxServed

(* A request is let through if a role of the file that names its route       *)
(* matches, or the default role when none names it - and only then.          *)
RolesDecide ==
    /\ ctl.last.answer \in {"served", "unsupported"} => ctl.last.allowed
    /\ ctl.last.answer = "denied" => ~ctl.last.allowed

(* Every route a role may name is one that a handler knows: it is not        *)
(* supported only with a query.                                              *)
RoutesAreServed == ctl.last.answer = "unsupported" => ~ctl.last.plain

(* A loop is stopped, with no request under way, only if somebody asked for  *)
(* it: requests that restart it, however they overlap, leave it running.     *)
RestartsEndRunning ==
    ~ctl.ended /\ (\A r \in Servings : ctl.todo[r] = <<>>) =>
      \A l \in Loops : ctl.on[l] \/ l \in ctl.asked
=============================================================================
