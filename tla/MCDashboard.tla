---------------------------- MODULE MCDashboard -----------------------------
(* What the dashboard may find: the engine stopped, crashed, connecting, and *)
(* with an address and port, with or without DNS; and the roles at its       *)
(* control server.                                                           *)
EXTENDS Dashboard

NoAddress == "no address"
Found(status, dns, ip, port) == [status |-> status, dns |-> dns, ip |-> ip, port |-> port]

MCEngines ==
    {Found("stopped", FALSE, NoAddress, 0), Found("crashed", TRUE, NoAddress, 0),
     Found("running", TRUE, NoAddress, 0), Found("running", TRUE, "a", 1), Found("running", FALSE, "b", 2)}

(* No file of roles, one whose roles share a route, and one without a key.   *)
Role(auth, key, routes) == [auth |-> auth, key |-> key, routes |-> routes]
Reading == <<<<"vpn", "status">>, "GET">>
Writing == <<<<"vpn", "status">>, "PUT">>
Version == <<<<"v1", "version">>, "GET">>
MCRoleFiles ==
    {{}, {Role("apikey", "", {Reading})},
     {Role("apikey", "k", {Reading}), Role("basic", "p", {Reading, Writing}), Role("none", "", {Version})}}
MCDefaultRoles == {Role("", "", {}), Role("apikey", "k", {})}
MCSecrets == {<<"apikey", "k">>, <<"basic", "p">>}
=============================================================================
