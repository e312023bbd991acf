--------------------------- MODULE DashboardAccess --------------------------
(* internal/dashboard/auth and the middleware of api/router: who may do      *)
(* what, and how often. A token bucket per client, the sessions, and the     *)
(* requests of one client that logs in, acts, logs out and sleeps.           *)
EXTENDS Naturals, Sequences

CONSTANTS
    Capacity, Rate,     \* of the bucket: its size, and tokens per tick
    CleanupAfter,       \* ticks after which an idle bucket is forgotten
    Duration,           \* of a session, in ticks
    Handlers, Tokens,   \* concurrent requests; the sessions there may be
    MaxTime, MaxAllowed \* how long it lasts, how many actions are allowed

AccessConstants ==
    /\ {Capacity, Rate, Duration} \subseteq Nat \ {0} /\ {CleanupAfter, MaxTime, MaxAllowed} \subseteq Nat
    /\ CleanupAfter * Rate >= Capacity      \* 10 minutes refill any bucket

NoToken == "no token"
None == 0 - 1

(* A record with the fields:                                                 *)
(*   now            the time                                                 *)
(*   tokens, last   the bucket of the client, last is None if it has none    *)
(*   cleanup        lastCleanup                                              *)
(*   expires        sessions: when each expires, None if it does not exist   *)
(*   issued, revoked   tokens given out; those logged out: kept for a        *)
(*                  property                                                 *)
(*   request        each request: its place, its token and when that         *)
(*                  expires, when it arrived and what was revoked then       *)
(*   allowed        when actions were allowed: kept for the properties       *)
VARIABLE access
-----------------------------------------------------------------------------
NoRequest == [at |-> "none", token |-> NoToken, expiry |-> 0, since |-> 0, revoked |-> {}]

Init ==
    access = [now |-> 0, tokens |-> 0, last |-> None, cleanup |-> 0,
              expires |-> [t \in Tokens |-> None], issued |-> {}, revoked |-> {},
              request |-> [h \in Handlers |-> NoRequest], allowed |-> <<>>]

Tick == access.now < MaxTime /\ access' = [access EXCEPT !.now = @ + 1]

At(h, place) == access.request[h].at = place
Over(state, h) == [state EXCEPT !.request[h] = NoRequest]
Served(h) == [access EXCEPT !.request[h].at = "served"]
-----------------------------------------------------------------------------
(* RateLimiter.Allow                                                         *)

\* Mutant: every idle bucket is forgotten.
ForgetIdle == access.last # None /\ access.now > access.last

Forgotten ==
    /\ access.last # None
    /\ access.now - access.cleanup > CleanupAfter /\ access.now - access.last > CleanupAfter

Cleanup == IF access.now - access.cleanup > CleanupAfter THEN access.now ELSE access.cleanup

Refilled ==
    LET refilled == access.tokens + (access.now - access.last) * Rate
    IN  IF refilled < Capacity THEN refilled ELSE Capacity

Allow(h, granted) ==
    /\ At(h, "served") /\ Len(access.allowed) < MaxAllowed
    /\ access' =
         LET clean == [granted EXCEPT !.cleanup = Cleanup, !.last = access.now]
         IN  IF access.last = None \/ Forgotten
             THEN [clean EXCEPT !.tokens = Capacity - 1, !.allowed = Append(@, access.now)]
             ELSE IF Refilled >= 1
             THEN [clean EXCEPT !.tokens = Refilled - 1, !.allowed = Append(@, access.now)]
             ELSE [clean EXCEPT !.tokens = Refilled]

ControlAction(h) == Allow(h, Over(access, h))
-----------------------------------------------------------------------------
(* Login with the right password: CreateSession.                             *)
Login(h) ==
    /\ At(h, "none")
    /\ \E t \in Tokens \ access.issued :
         access' = [access EXCEPT !.expires[t] = access.now + Duration, !.issued = @ \cup {t}]

(* authMiddleware: GetSession reads the session, and looks at it later.      *)
Arrive(h) ==
    /\ At(h, "none")
    /\ \E t \in Tokens :
         /\ access.expires[t] # None
         /\ access' = [access EXCEPT !.request[h] =
              [at |-> "read", token |-> t, expiry |-> access.expires[t],
               since |-> access.now, revoked |-> access.revoked]]

CheckExpiry(h) ==
    /\ At(h, "read")
    /\ LET r == access.request[h]
       IN  access' = IF access.now > r.expiry THEN Over([access EXCEPT !.expires[r.token] = None], h)
                                              ELSE Served(h)

(* handleAuthLogout, itself a request of the session.                        *)
Logout(h) ==
    /\ At(h, "served")
    /\ LET t == access.request[h].token
       IN  access' = Over([access EXCEPT !.expires[t] = None, !.revoked = @ \cup {t}], h)
-----------------------------------------------------------------------------
Next == Tick \/ \E h \in Handlers : Login(h) \/ Arrive(h) \/ CheckExpiry(h) \/ ControlAction(h) \/ Logout(h)

Spec == Init /\ [][Next]_access
-----------------------------------------------------------------------------
TypeOK ==
    /\ access.now \in 0 .. MaxTime /\ access.tokens \in 0 .. Capacity
    /\ access.last \in 0 .. MaxTime \cup {None} /\ access.cleanup \in 0 .. MaxTime
    /\ access.expires \in [Tokens -> 0 .. MaxTime + Duration \cup {None}]
    /\ \A h \in Handlers : access.request[h].at \in {"none", "read", "served"}

(* In no window of time does a client act more often than a full bucket and  *)
(* what refills it in that time allow, whatever is forgotten in between.     *)
RateIsBounded ==
    \A i, j \in DOMAIN access.allowed :
      i <= j => j - i + 1 <= Capacity + Rate * (access.allowed[j] - access.allowed[i])

(* A request is served with a session that was neither expired nor logged    *)
(* out when it came.                                                         *)
ServedSessionsAreLive ==
    \A h \in Handlers :
      LET r == access.request[h]
      IN  r.at = "served" => r.since <= r.expiry /\ r.token \notin r.revoked
=============================================================================
