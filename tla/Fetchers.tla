------------------------------ MODULE Fetchers ------------------------------
(* internal/publicip/api: the resilient fetcher, which asks several services *)
(* for the public IP address and the place it is in, takes the most popular  *)
(* answer and leaves services that refuse alone for a month. The loop, the   *)
(* updater and the settings of the user call it at the same time.            *)
EXTENDS Naturals, Sequences, FiniteSets

CONSTANTS
    FetcherLists,       \* what the settings may name: sequences of [api, token]
    Places,             \* what they may tell: [country, region, city]
    Alike,              \* pairs of names that differ in one letter
    Callers,            \* calls of FetchInfo, each made once
    BanDuration, FetchTime, FetcherUpdates

FetcherConstants ==
    /\ \A list \in FetcherLists :
         /\ list \in Seq([api : {"cloudflare", "echoip", "ipinfo", "ip2location"}, token : STRING])
         /\ \A i, j \in DOMAIN list : list[i].api = list[j].api => i = j
    /\ {BanDuration, FetchTime, FetcherUpdates} \subseteq Nat

NoPlace == [country |-> "", region |-> "", city |-> ""]
Never == 0 - 1

(* A record with the fields:                                                 *)
(*   fetchers     the list in use                                            *)
(*   bannedAt     fetcherToBanTime: per fetcher of the list                  *)
(*   now, updates the time, and how often the list was replaced              *)
(*   call         each FetchInfo: its place, how many fetchers it has        *)
(*                started, and those it could: kept for the properties       *)
(*   places, result     the places the last call to end was told, per fetcher*)
(*                that told one, and what it made of them: kept for the      *)
(*                properties                                                 *)
(*   refused      fetchers that have refused, with when: likewise            *)
VARIABLE fetch
-----------------------------------------------------------------------------
Call(at, started, eligible) == [at |-> at, started |-> started, eligible |-> eligible]

Init ==
    \E list \in FetcherLists :
      fetch = [fetchers |-> list, bannedAt |-> [i \in DOMAIN list |-> Never], now |-> 0, updates |-> 0,
               call |-> [c \in Callers |-> Call("new", 0, {})],
               places |-> <<>>, result |-> NoPlace, refused |-> {}]

Tick == fetch.now < FetchTime /\ fetch' = [fetch EXCEPT !.now = @ + 1]

IsBanned(i) == fetch.bannedAt[i] # Never /\ fetch.now <= fetch.bannedAt[i] + BanDuration

(* Cloudflare answers for the address of the machine only.                   *)
CanFetchAnyIP(fetcher) == fetcher.api # "cloudflare"

Eligible(other) ==
    {i \in DOMAIN fetch.fetchers : ~IsBanned(i) /\ (other => CanFetchAnyIP(fetch.fetchers[i]))}
-----------------------------------------------------------------------------
(* FetchInfo looks at the fetcher after those it has started, once for each  *)
(* fetcher: one that is not eligible it looks at again and again.            *)
Started(eligible) ==
    LET firsts == {n \in 0 .. Len(fetch.fetchers) : 1 .. n \subseteq eligible}
    IN  CHOOSE n \in firsts : \A k \in firsts : k <= n

FetchInfo(c) ==
    /\ fetch.call[c].at = "new"
    /\ \E other \in BOOLEAN :
         LET eligible == Eligible(other)
         IN  fetch' = [fetch EXCEPT !.call[c] = Call("asking", Started(eligible), eligible)]

(* The answers of the services; "forbidden" is HTTP 403, "refused" is 429.   *)
(* echoip and cloudflare take the former for any failure.                    *)
CloudflareRefuses == {"refused"}
EchoIPRefuses == {"refused"}
IPInfoRefuses == {"refused", "forbidden"}
IP2LocationRefuses == {"refused", "forbidden"}

Refuses(api, reply) ==
    reply.status \in CASE api = "cloudflare" -> CloudflareRefuses
                       [] api = "echoip" -> EchoIPRefuses
                       [] api = "ipinfo" -> IPInfoRefuses
                       [] api = "ip2location" -> IP2LocationRefuses

Reply(status, place) == [status |-> status, place |-> place]
Replies ==
    {Reply("ok", p) : p \in Places} \cup {Reply(status, NoPlace) : status \in {"failed", "refused", "forbidden"}}
-----------------------------------------------------------------------------
(* getMostPopularResult                                                      *)

\* Two names are alike when at most one of their letters differs.
LikeName(a, b) == a = b \/ {a, b} \in Alike

(* getMostPopularString: each value joins the first group whose first member *)
(* it is like, or else is the first of a group of its own; the first of the  *)
(* largest groups wins, and stands for it.                                   *)
Firsts(values) ==
    CHOOSE F \in SUBSET DOMAIN values :
      \A n \in DOMAIN values : n \in F <=> \A m \in F : m < n => ~LikeName(values[n], values[m])

Group(values, first) ==
    LET earlier == {m \in Firsts(values) : m < first}
    IN  {n \in DOMAIN values : /\ first <= n /\ LikeName(values[n], values[first])
                              /\ \A m \in earlier : ~LikeName(values[n], values[m])}

MostPopular(values) ==
    LET firsts == Firsts(values)
        size == [f \in firsts |-> Cardinality(Group(values, f))]
        best == {f \in firsts : \A g \in firsts : size[g] <= size[f]}
    IN  CHOOSE f \in best : \A g \in best : f <= g

\* Mutant: the first answer is as good as any.
FirstResult(results) == results[CHOOSE i \in DOMAIN results : \A j \in DOMAIN results : i <= j]

(* filterInPlace                                                             *)
Names(results, field) == [i \in DOMAIN results |-> results[i][field]]
Filtered(results, field) ==
    LET names == Names(results, field) IN [i \in Group(names, MostPopular(names)) |-> results[i]]

MostPopularResult(results) ==
    LET local == Filtered(Filtered(results, "country"), "region")
    IN  local[MostPopular(Names(local, "city"))]
-----------------------------------------------------------------------------
Succeeded(answers) ==
    [i \in {i \in DOMAIN answers : answers[i].status = "ok"} |-> answers[i].place]

(* Nothing is done with the answers, kept in the order of the fetchers, until*)
(* the last has come: then those that refuse are banned. Without a place the *)
(* call fails.                                                               *)
Conclude(c, replies) ==
    LET refusing == {i \in DOMAIN replies : Refuses(fetch.fetchers[i].api, replies[i])}
        good == Succeeded(replies)
    IN  fetch' = [fetch EXCEPT
          !.bannedAt = [i \in DOMAIN @ |-> IF i \in refusing THEN fetch.now ELSE @[i]],
          !.refused = @ \cup {<<fetch.fetchers[i], fetch.now>> : i \in refusing},
          !.call[c] = Call("done", 0, {}), !.places = good,
          !.result = IF DOMAIN good = {} THEN NoPlace ELSE MostPopularResult(good)]

Finish(c) ==
    /\ fetch.call[c].at = "asking"
    /\ \E replies \in [1 .. fetch.call[c].started -> Replies] : Conclude(c, replies)

(* UpdateFetchers waits for the calls under way. A ban goes with its name    *)
(* and token.                                                                *)
Kept(list, i) ==
    LET same == {j \in DOMAIN fetch.fetchers : fetch.fetchers[j] = list[i] /\ IsBanned(j)}
    IN  IF same = {} THEN Never ELSE fetch.bannedAt[CHOOSE j \in same : TRUE]

Replace(list) ==
    fetch' = [fetch EXCEPT !.fetchers = list, !.updates = @ + 1, !.bannedAt = [i \in DOMAIN list |-> Kept(list, i)],
                           !.refused = {r \in @ : \E i \in DOMAIN list : list[i] = r[1]}]

UpdateFetchers ==
    /\ fetch.updates < FetcherUpdates
    /\ \A c \in Callers : fetch.call[c].at # "asking"
    /\ \E list \in FetcherLists : Replace(list)
-----------------------------------------------------------------------------
Next == Tick \/ UpdateFetchers \/ \E c \in Callers : FetchInfo(c) \/ Finish(c)

Spec == Init /\ [][Next]_fetch
-----------------------------------------------------------------------------
TypeOK ==
    /\ fetch.fetchers \in FetcherLists
    /\ fetch.bannedAt \in [DOMAIN fetch.fetchers -> 0 .. FetchTime \cup {Never}]
    /\ \A c \in Callers :
         /\ fetch.call[c].at \in {"new", "asking", "done"}
         /\ fetch.call[c].started \in 0 .. Len(fetch.fetchers)
    /\ \A i \in DOMAIN fetch.places : fetch.places[i] \in Places
    /\ fetch.result \in Places \cup {NoPlace}

(* A service that has refused is not asked again for a month, however often  *)
(* the list is replaced by one that still names it with the same token.      *)
RefusalsAreRespected ==
    \A r \in fetch.refused : \A i \in DOMAIN fetch.fetchers :
      fetch.fetchers[i] = r[1] /\ fetch.now <= r[2] + BanDuration => i \notin Eligible(FALSE)

(* A place that more than half of the answers name is the one returned: its  *)
(* city, up to a letter, and the country and region up to a letter from a    *)
(* name that another answer gave them both.                                  *)
Near(place, field) ==
    \E i \in DOMAIN fetch.places :
      LET name == fetch.places[i][field] IN LikeName(fetch.result[field], name) /\ LikeName(place[field], name)

MajorityWins ==
    \A p \in Places :
      2 * Cardinality({i \in DOMAIN fetch.places : fetch.places[i] = p}) > Cardinality(DOMAIN fetch.places)
        => Near(p, "country") /\ Near(p, "region") /\ LikeName(fetch.result.city, p.city)

(* resilient.go:104: "It queries all non-banned fetchers in parallel to      *)
(* obtain the most popular result."                                          *)
AllAreAsked ==
    \A c \in Callers :
      fetch.call[c].at = "asking" => 1 .. fetch.call[c].started = fetch.call[c].eligible
=============================================================================
