----------------------------- MODULE MCProviders ----------------------------
(* Two lists of services, of which Cloudflare cannot tell of any address;    *)
(* every provider alone and some after each other; servers with addresses of *)
(* both families, and what may be wanted of them. Every field of the settings*)
(* is followed.                                                              *)
EXTENDS Providers

Table == INSTANCE ProviderUpdate WITH Hosts <- {}, Lists <- {}, Existing <- {}, Tenths <- 0
Known == INSTANCE Settings WITH Handlers <- {}, Followed <- {}

Service(api, token) == [api |-> api, token |-> token]
MCFetcherLists ==
    {<<Service("ipinfo", "t"), Service("echoip", ""), Service("cloudflare", "")>>,
     <<Service("ip2location", "t"), Service("ipinfo", "t")>>}
Place(country, region, city) == [country |-> country, region |-> region, city |-> city]
MCPlaces ==
    {Place("iran", "fars", "shiraz"), Place("iraq", "yazd", "shiraz"), Place("chad", "fars", "jahrom")}
MCAlike == {{"iran", "iraq"}}

MCLists ==
    {<<p>> : p \in DOMAIN Table!ProviderOf}
    \cup {<<"airvpn", "slickvpn">>, <<"hidemyass", "mullvad">>, <<"purevpn", "expressvpn">>}

Server(vpn, country, forward, ips) == [vpn |-> vpn, country |-> country, forward |-> forward, ips |-> ips]
OneAddress == Server("wireguard", "nl", FALSE, <<4>>)
MCCatalogue ==
    {Server("openvpn", "ch", TRUE, <<4, 6>>), Server("openvpn", "nl", FALSE, <<4, 4, 6>>),
     Server("wireguard", "ch", FALSE, <<4, 6>>), OneAddress}

Want(vpn, countries, forward, target) ==
    [vpn |-> vpn, countries |-> countries, forwardOnly |-> forward, target |-> target]
MCWanted ==
    {Want("openvpn", {}, FALSE, {}), Want("openvpn", {"nl"}, FALSE, {}), Want("openvpn", {}, TRUE, {}),
     Want("wireguard", {}, FALSE, {}), Want("wireguard", {}, FALSE, {[server |-> OneAddress, ip |-> 1]})}

MCFollowed == Known!Field
=============================================================================
