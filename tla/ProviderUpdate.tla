--------------------------- MODULE ProviderUpdate ---------------------------
(* internal/updater, internal/updater/resolver and the updaters under        *)
(* internal/provider: how the lists of servers are fetched, one provider     *)
(* after the other, and when the result replaces the servers in storage. A   *)
(* provider is the sequence of steps its FetchServers takes.                 *)
EXTENDS Naturals, Sequences, FiniteSets

CONSTANTS
    Hosts,          \* what a provider may list
    Lists,          \* the providers of an update: sequences of names
    Existing,       \* how many servers there may be in storage
    Tenths          \* minRatio, in tenths

-----------------------------------------------------------------------------
(* The steps of FetchServers, the servers a host is worth at most, and the   *)
(* MaxFailRatio of its resolution, in tenths.                                *)
Provider(steps, servers, ratio) == [steps |-> steps, servers |-> servers, ratio |-> ratio]

Airvpn == Provider(<<"list", "project", "skip">>, 6, 0)
Cyberghost == Provider(<<"known", "resolve", "found", "adapt">>, 1, 10)
Example == Provider(<<"list", "count", "resolve", "found">>, 1, 1)
Expressvpn == Provider(<<"known", "resolve", "adapt", "count">>, 1, 4)
Fastestvpn == Provider(<<"list", "resolve", "adapt", "count">>, 2, 1)
Giganews == Provider(<<"list", "hosts", "skip", "hosts", "resolve", "found", "adapt">>, 1, 1)
Hidemyass == Provider(<<"refuse">>, 1, 0)
Ipvanish == Provider(<<"list", "hosts", "skip", "hosts", "resolve", "found", "adapt">>, 1, 1)
Ivpn == Provider(<<"list", "hosts", "resolve", "found">>, 1, 1)
Mullvad == Provider(<<"list", "skip", "hosts">>, 1, 0)
Nordvpn == Provider(<<"list", "skip", "count">>, 2, 0)
Privado == Provider(<<"list", "hosts">>, 1, 0)
PrivateInternetAccess == Provider(<<"list", "skip", "count">>, 1, 0)
Privatevpn == Provider(<<"list", "skip", "count", "resolve", "adapt", "count">>, 1, 1)
Protonvpn == Provider(<<"credentials", "list", "hosts", "skip", "count">>, 2, 0)
Purevpn == Provider(<<"able", "list", "hosts", "skip", "hosts", "resolve", "found", "adapt", "locate">>, 1, 1)
Slickvpn == Provider(<<"known", "resolve", "found">>, 1, 1)
Surfshark == Provider(<<"list", "resolve", "adapt", "hosts">>, 2, 1)
Torguard == Provider(<<"list", "skip", "hosts", "addresses", "resolve", "found", "count">>, 1, 1)
Vpnsecure == Provider(<<"list", "skip", "count", "resolve", "found", "adapt">>, 1, 1)
Vpnunlimited == Provider(<<"known", "resolve", "found", "adapt">>, 1, 1)
Vyprvpn == Provider(<<"list", "hosts", "skip", "hosts", "resolve", "found", "adapt">>, 1, 1)
Windscribe == Provider(<<"list", "count">>, 2, 0)

ProviderOf ==
    [airvpn |-> Airvpn, cyberghost |-> Cyberghost, example |-> Example, expressvpn |-> Expressvpn,
     fastestvpn |-> Fastestvpn, giganews |-> Giganews, hidemyass |-> Hidemyass, ipvanish |-> Ipvanish,
     ivpn |-> Ivpn, mullvad |-> Mullvad, nordvpn |-> Nordvpn, privado |-> Privado,
     pia |-> PrivateInternetAccess, privatevpn |-> Privatevpn, protonvpn |-> Protonvpn, purevpn |-> Purevpn,
     slickvpn |-> Slickvpn, surfshark |-> Surfshark, torguard |-> Torguard, vpnsecure |-> Vpnsecure,
     vpnunlimited |-> Vpnunlimited, vyprvpn |-> Vyprvpn, windscribe |-> Windscribe]

UpdateConstants ==
    /\ IsFiniteSet(Hosts) /\ Existing \subseteq Nat /\ Tenths \in 0 .. 10
    /\ \A list \in Lists : list \in Seq(DOMAIN ProviderOf) /\ list # <<>>

(* What is wrong with a host: the provider ignores it, its name does not     *)
(* resolve, or a key or protocol is missing.                                 *)
Kinds == {"good", "ignored", "silent", "bare"}

(* A record with the fields:                                                 *)
(*   names, left  the providers of the update, and those still to do         *)
(*   direct       preferDirectDownload: "no", or whether the manifest of     *)
(*                gluetun's own lists is still "wanted" or "here"            *)
(*   at           the steps of the current one that are done                 *)
(*   kind         the hosts it listed, each with its kind                    *)
(*   resolving    whether Resolve runs; pending, resolved: hosts without     *)
(*                an answer yet, and with addresses; warnings, cancelled     *)
(*   addressed    hosts that came with addresses                             *)
(*   min          minServers                                                 *)
(*   stored       per provider, how many servers, and whether all are usable *)
(*   done         the context of the update has ended                        *)
(*   result       "running", "nil" or "error"                                *)
(*   short        providers that stored fewer than minServers, and           *)
(*   tried        those fetched: kept for the properties                     *)
VARIABLE upd

None == [h \in {} |-> "good"]
Idle(u) ==
    [u EXCEPT !.at = 0, !.kind = None, !.resolving = FALSE, !.pending = {}, !.resolved = {},
              !.addressed = {}, !.warnings = 0, !.cancelled = FALSE, !.min = 0]

MinServers(u) ==
    IF u.left = <<>> THEN u ELSE [u EXCEPT !.min = (Tenths * u.stored[Head(u.left)].count) \div 10]

Init ==
    \E names \in Lists, n \in Existing, direct \in {"no", "wanted"} :
      upd = MinServers(
        [names |-> names, left |-> names, direct |-> direct, at |-> 0, kind |-> None, resolving |-> FALSE, pending |-> {},
         resolved |-> {}, addressed |-> {}, warnings |-> 0, cancelled |-> FALSE, min |-> 0,
         stored |-> [p \in DOMAIN ProviderOf |-> [count |-> n, usable |-> TRUE]],
         done |-> FALSE, result |-> "running", short |-> {}, tried |-> {}])

(* The file of gluetun's list replaces what the provider does.               *)
Downloaded == Provider(<<"list", "hosts">>, 1, 0)

Current == IF upd.direct = "here" THEN Downloaded ELSE ProviderOf[Head(upd.left)]
Listed == DOMAIN upd.kind
At(step) ==
    /\ upd.result = "running" /\ upd.left # <<>> /\ ~upd.resolving /\ upd.direct # "wanted"
    /\ upd.at < Len(Current.steps) /\ Current.steps[upd.at + 1] = step
Only(hosts) == [h \in hosts |-> upd.kind[h]]
-----------------------------------------------------------------------------
(* UpdateServers: the context may end at any time. The error of the only     *)
(* provider is returned, that of another logged unless the context has ended.*)
Cancel == upd.result = "running" /\ ~upd.done /\ upd' = [upd EXCEPT !.done = TRUE]

FetchManifest ==
    /\ upd.result = "running" /\ upd.direct = "wanted"
    /\ \/ ~upd.done /\ upd' = [upd EXCEPT !.direct = "here"]
       \/ upd' = [upd EXCEPT !.result = "error", !.left = <<>>]

NextProvider(u) == MinServers([Idle(u) EXCEPT !.left = Tail(@), !.tried = @ \cup {Head(u.left)}])

Failed(u) ==
    IF Len(u.names) = 1 \/ u.done THEN [Idle(u) EXCEPT !.result = "error", !.left = <<>>] ELSE NextProvider(u)

Return == upd.result = "running" /\ upd.left = <<>> /\ upd' = [upd EXCEPT !.result = "nil"]
-----------------------------------------------------------------------------
(* The steps of FetchServers                                                 *)

Advance(u) == [u EXCEPT !.at = @ + 1]

(* Requests of an API, archives and web pages.                               *)
List ==
    /\ At("list")
    /\ \/ /\ ~upd.done
          /\ \E hosts \in SUBSET Hosts : \E kind \in [hosts -> Kinds] : upd' = Advance([upd EXCEPT !.kind = kind])
       \/ upd' = Failed(upd)

(* Hosts named in the program.                                               *)
Known == At("known") /\ \E kind \in [Hosts -> {"good", "silent"}] : upd' = Advance([upd EXCEPT !.kind = kind])

(* hidemyass has no servers any more; purevpn wants a fetcher that can tell  *)
(* of any address where it is.                                               *)
Refuse == At("refuse") /\ upd' = Failed(upd)
Able == At("able") /\ (upd' = Advance(upd) \/ upd' = Failed(upd))

(* Without credentials the provider is left out, with a warning.             *)
Credentials == At("credentials") /\ (upd' = Advance(upd) \/ upd' = NextProvider(upd))

Skip == At("skip") /\ upd' = Advance([upd EXCEPT !.kind = Only({h \in Listed : upd.kind[h] # "ignored"})])

\* Mutant: the first shortage only is noticed.
AtLeastOne(n) == upd' = IF n = 0 /\ upd.min > 0 THEN Failed(upd) ELSE Advance(upd)

AtLeast(n) == upd' = IF n < upd.min THEN Failed(upd) ELSE Advance(upd)

(* airvpn expects 10 servers of each host, and makes 6.                      *)
Project == At("project") /\ AtLeast(10 * Cardinality(Listed))
CountHosts == At("hosts") /\ AtLeast(Cardinality(Listed))
CountServers == At("count") /\ AtLeast(Current.servers * Cardinality(Listed))
CountFound == At("found") /\ AtLeast(Cardinality(upd.resolved))

(* torguard's files have addresses, used when a name does not resolve.       *)
Addresses == At("addresses") /\ upd' = Advance([upd EXCEPT !.addressed = Listed])

Adapt == At("adapt") /\ upd' = Advance([upd EXCEPT !.kind = Only(Listed \cap upd.resolved)])

(* FetchMultiInfo: all or nothing.                                           *)
Locate == At("locate") /\ ((~upd.done /\ upd' = Advance(upd)) \/ upd' = Failed(upd))
-----------------------------------------------------------------------------
(* Parallel.Resolve. From the maximum of failures on, which may be zero, all *)
(* lookups under way are cancelled: those that have found an address by then *)
(* succeed. The failures never exceed the maximum: no error is returned.     *)
MaxFails == (Current.ratio * Cardinality(Listed)) \div 10

Resolve == At("resolve") /\ upd' = [upd EXCEPT !.resolving = TRUE, !.pending = Listed]

Found(h) ==
    /\ upd.resolving /\ h \in upd.pending
    /\ upd.kind[h] # "silent"
    /\ upd' = [upd EXCEPT !.pending = @ \ {h}, !.resolved = @ \cup {h}]

NotFound(h) ==
    /\ upd.resolving /\ h \in upd.pending
    /\ upd.kind[h] = "silent" \/ upd.cancelled \/ upd.done
    /\ LET warnings == IF upd.warnings < MaxFails THEN upd.warnings + 1 ELSE upd.warnings
       IN  upd' = [upd EXCEPT !.pending = @ \ {h}, !.warnings = warnings, !.cancelled = @ \/ warnings = MaxFails]

Resolved == upd.resolving /\ upd.pending = {} /\ upd' = Advance([upd EXCEPT !.resolving = FALSE])
-----------------------------------------------------------------------------
(* updateProvider                                                            *)

Complete(h) ==
    /\ upd.kind[h] # "bare"
    /\ (\E i \in DOMAIN Current.steps : Current.steps[i] = "resolve") => h \in upd.resolved \cup upd.addressed

HasMinimumInformation(h) == Complete(h)

Usable == \A h \in Listed : Complete(h)

(* One server without the information refuses the whole list. A list equal   *)
(* to the one stored is not written. A write that fails is an error, although*)
(* the servers in memory are the new ones.                                   *)
UpdateProvider ==
    /\ upd.result = "running" /\ upd.left # <<>> /\ ~upd.resolving
    /\ upd.direct # "wanted" /\ upd.at = Len(Current.steps)
    /\ IF \E h \in Listed : ~HasMinimumInformation(h) THEN upd' = Failed(upd)
       ELSE LET n == Current.servers * Cardinality(Listed)
                u == [upd EXCEPT !.stored[Head(upd.left)] = [count |-> n, usable |-> Usable],
                                 !.short = IF n < upd.min THEN @ \cup {Head(upd.left)} ELSE @]
            IN  upd' = NextProvider(u) \/ upd' = Failed(u)
-----------------------------------------------------------------------------
Next ==
    \/ Cancel \/ FetchManifest \/ Return
    \/ List \/ Known \/ Refuse \/ Able \/ Credentials \/ Skip
    \/ Project \/ CountHosts \/ CountServers \/ CountFound \/ Addresses \/ Adapt \/ Locate
    \/ Resolve \/ Resolved \/ \E h \in Hosts : Found(h) \/ NotFound(h)
    \/ UpdateProvider

Spec == Init /\ [][Next]_upd
-----------------------------------------------------------------------------
TypeOK ==
    /\ upd.names \in Lists
    /\ upd.pending \cup upd.resolved \cup upd.addressed \subseteq Hosts
    /\ Listed \subseteq Hosts
    /\ upd.warnings \in 0 .. Cardinality(Hosts)
    /\ upd.result \in {"running", "nil", "error"}

(* A server gluetun could not connect to never enters the storage, whichever *)
(* names failed to resolve and however the resolution was cut short.         *)
StoredServersAreUsable == \A p \in DOMAIN ProviderOf : upd.stored[p].usable

(* minRatio: an update never leaves fewer servers than that share of those   *)
(* there were, but for airvpn, which counts what it will not make.           *)
EnoughServersAreKept == upd.short \subseteq {"airvpn"}

(* A provider that fails does not keep the others from being updated.        *)
OthersAreUpdated == upd.result = "nil" => upd.tried = {upd.names[i] : i \in DOMAIN upd.names}
=============================================================================
