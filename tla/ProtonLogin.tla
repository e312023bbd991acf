----------------------------- MODULE ProtonLogin ----------------------------
(* protonvpn/updater/api.go: the requests that log in to Proton and fetch its*)
(* servers. Any of them may be answered by a challenge of the user, after    *)
(* which it is made once more; the answers carry the session, the tokens and *)
(* the scopes the later ones depend on. This is the "list" of Protonvpn in   *)
(* ProviderUpdate.                                                           *)
EXTENDS Naturals, Sequences

CONSTANTS
    Rotations,  \* how often the server may issue another session ID
    Challenges, \* how often it may challenge the user
    Period      \* of a TOTP code; a challenge is waited for twice the unit

LoginConstants == Rotations \in Nat /\ Challenges \in Nat /\ Period \in Nat \ {0}

VARIABLE login  \* one record, see Init

Methods == {"totp", "fido2", "other"}
(* What the user gave: a secret to generate codes from, or a code; either    *)
(* may be of no use.                                                         *)
Totps == {"secret", "code", "badSecret", "badCode", "none"}

Init ==
    \E twoFA \in SUBSET Methods, vpn, genuine, late \in BOOLEAN, totp \in Totps, start \in 0 .. Period - 1 :
        login = [twoFA |-> twoFA, vpn |-> vpn,  \* the account
                 late |-> late,         \* its scope is in tokens issued after the login only
                 genuine |-> genuine,   \* the server knows the password
                 totp |-> totp,
                 start |-> start, now |-> start,
                 at |-> "version", sent |-> FALSE, challenged |-> FALSE,
                 session |-> 0,         \* the ID the server issued last
                 mine |-> 0,            \* that of the client, and of the request under way
                 carried |-> 0,
                 rotations |-> 0, challenges |-> 0,
                 token |-> "none",      \* of the cookie, and the last the server issued
                 issued |-> "none",
                 codeAt |-> 0, codeSent |-> FALSE, proven |-> FALSE,
                 why |-> "nothing", result |-> "running"]

Running == login.result = "running"
Failed(s, why) == [s EXCEPT !.sent = FALSE, !.result = "error", !.why = why]
-----------------------------------------------------------------------------
(* One request: made, answered, perhaps made again.                          *)

(* getMostRecentStableTag looks through the pages of a list of releases; it  *)
(* asks for pages past the end too.                                          *)
Version ==
    /\ Running /\ login.at = "version"
    /\ \/ login' = [login EXCEPT !.at = "sessionID"]
       \/ UNCHANGED login
       \/ login' = Failed(login, "fault")

(* setHeaders: the session ID that came last goes before the one the cookie  *)
(* was made with.                                                            *)
NewRequest(s) == [s EXCEPT !.sent = TRUE, !.carried = s.mine]
Request ==
    /\ Running /\ ~login.sent /\ ~login.challenged /\ login.at # "version"
    /\ login' = NewRequest(login)

(* doRequest takes the session ID of every answer.                           *)
Rotated(s) ==
    {s} \cup (IF s.rotations < Rotations
              THEN {[s EXCEPT !.session = @ + 1, !.mine = s.session + 1, !.rotations = @ + 1]} ELSE {})

(* A challenge is waited for and the request made again.                     *)
Challenge ==
    /\ Running /\ login.sent /\ ~login.challenged /\ login.challenges < Challenges
    /\ \E s \in Rotated(login) :
        login' = [s EXCEPT !.sent = FALSE, !.challenged = TRUE, !.challenges = @ + 1,
                           !.now = @ + 2]

Remade(s) == NewRequest(s)

Retry == Running /\ ~login.sent /\ login.challenged /\ login' = Remade(login)

Cancel ==
    /\ Running /\ (login.challenged \/ login.sent)
    /\ login' = Failed(login, "cancelled")

(* The request fails, its answer has not the status, the code or the fields  *)
(* it must have, or it is a challenge again.                                 *)
Fault ==
    /\ Running /\ login.sent
    /\ \/ login' = Failed(login, "fault")
       \/ /\ login.challenged /\ login.challenges < Challenges
          /\ login' = Failed(login, "challengedTwice")

(* What follows the answer of a request; the token is taken from the answers *)
(* that issue one.                                                           *)
Answer(at) == Running /\ login.sent /\ login.at = at
Go(s, at) == [s EXCEPT !.at = at, !.sent = FALSE, !.challenged = FALSE]
WithToken(s, token) == [s EXCEPT !.token = token, !.issued = token]
-----------------------------------------------------------------------------
(* authenticate.                                                             *)

(* The first answer must set a session ID.                                   *)
GetSessionID ==
    /\ Answer("sessionID")
    /\ login' = Go([login EXCEPT !.session = 1, !.mine = 1], "unauthSession")

GetUnauthSession ==
    Answer("unauthSession") /\ \E s \in Rotated(login) : login' = Go(s, "cookieToken")

CookieToken ==
    /\ Answer("cookieToken")
    /\ \E s \in Rotated(login) : login' = Go(WithToken(s, "anonymous"), "authInfo")

AuthInfo ==
    Answer("authInfo") /\ \E s \in Rotated(login) : login' = Go(s, "auth")

(* twoFactorCode: the secret goes before the code.                           *)
TwoFactorCode(s) ==
    CASE s.totp = "secret" -> Go([s EXCEPT !.codeAt = s.now], "secondFactor")
      [] s.totp = "code" -> Go([s EXCEPT !.codeAt = s.start], "secondFactor")
      [] OTHER -> Failed(s, "noUsableCode")

(* auth: the server proves that it knows the password, then the session has  *)
(* all its scopes, or waits for a code.                                      *)
Proven(s) == s.genuine

SecondFactor(s) ==
    IF "totp" \in s.twoFA THEN TwoFactorCode(s)
    ELSE Failed(s, "unsupportedMethod")

Auth ==
    /\ Answer("auth")
    /\ \E s \in Rotated(login) :
        login' =
            IF ~Proven(s) THEN Failed(s, "notProven")
            ELSE IF s.twoFA # {} THEN SecondFactor(WithToken([s EXCEPT !.proven = TRUE], "partial"))
            ELSE IF ~s.vpn THEN Failed(s, "noScope")
            ELSE Go(WithToken([s EXCEPT !.proven = TRUE], "login"), "servers")

(* auth2FA: the server may issue a token, else the partial one has the rest  *)
(* of the scopes from now on. It may refuse a code of an older period.       *)
Fresh == login.codeAt \div Period = login.now \div Period

Auth2FA ==
    /\ Answer("secondFactor")
    /\ \E s \in Rotated([login EXCEPT !.codeSent = TRUE]) :
        \/ ~Fresh /\ login' = Failed(s, "staleCode")
        \/ \E token \in {"partial", "login"} : login' = Go(WithToken(s, token), "scopes")

CheckVPNScope ==
    /\ Answer("scopes")
    /\ \E s \in Rotated(login) :
        login' = IF s.vpn THEN Go(s, "servers") ELSE Failed(s, "noScope")
-----------------------------------------------------------------------------
(* fetchServers.                                                             *)

(* The server refuses a token that was issued before the scope was granted.  *)
Scoped == ~(login.late /\ login.token \in {"partial", "login"})

FetchServers ==
    /\ Answer("servers")
    /\ \E s \in Rotated(login) :
        login' = IF Scoped THEN [s EXCEPT !.sent = FALSE, !.result = "servers"] ELSE Go(s, "refresh")

RefreshSessionToken ==
    /\ Answer("refresh")
    /\ \E s \in Rotated(login) : login' = Go(WithToken(s, "refreshed"), "servers")

Next ==
    \/ Version \/ Request \/ Challenge \/ Retry \/ Cancel \/ Fault
    \/ GetSessionID \/ GetUnauthSession \/ CookieToken \/ AuthInfo \/ Auth \/ Auth2FA \/ CheckVPNScope
    \/ FetchServers \/ RefreshSessionToken

Spec == Init /\ [][Next]_login
-----------------------------------------------------------------------------
TypeOK ==
    /\ login.at \in {"version", "sessionID", "unauthSession", "cookieToken", "authInfo", "auth",
                     "secondFactor", "scopes", "servers", "refresh"}
    /\ login.token \in {"none", "anonymous", "partial", "login", "refreshed"}
    /\ login.result \in {"running", "error", "servers"}
    /\ {login.sent, login.challenged, login.codeSent, login.proven} \subseteq BOOLEAN

(* A request under way carries the session ID and the token that were issued *)
(* last, also when it is made again after a challenge: the verification is   *)
(* attached to the session.                                                  *)
RequestsFollowTheSession ==
    login.sent => login.carried = login.session /\ login.token = login.issued

(* The code goes to a server only that has proven to know the password.      *)
CodeOnlyAfterProof == login.codeSent => login.proven

(* Who can log in gets the servers, but for failing requests, a challenge    *)
(* right after one, and a code that was made too long before it is sent.     *)
LoginFailsForReasonsOnly ==
    login.result = "error" =>
        \/ login.why \in {"fault", "cancelled", "challengedTwice"}
        \/ login.why = "staleCode" /\ (login.challenges > 0 \/ login.totp = "code")
        \/ ~login.genuine \/ ~login.vpn
        \/ login.twoFA # {} /\ ("totp" \notin login.twoFA \/ login.totp \notin {"secret", "code"})

LoginIsSound == RequestsFollowTheSession /\ CodeOnlyAfterProof /\ LoginFailsForReasonsOnly
=============================================================================
