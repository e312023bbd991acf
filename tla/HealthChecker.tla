---------------------------- MODULE HealthChecker ---------------------------
(* internal/healthcheck: the checker that onTunnelUp configures and starts   *)
(* for each connection, collectHealthErrors, which receives its results, and *)
(* the health server that shows the last one. Connections follow one another *)
(* here; TunnelUp has those that overlap.                                    *)
EXTENDS Naturals, Sequences

CONSTANTS
    Addresses,      \* how many addresses the startup check dials
    SmallTries,     \* tries of a small check
    FullTries,      \* tries of a full check
    DNSServers,     \* how many DNS servers the small check has
    Connections     \* how many connections there are

HealthConstants ==
    /\ {Addresses, SmallTries, FullTries, DNSServers} \subseteq Nat \ {0}
    /\ Connections \in Nat

(* A record with the fields:                                                 *)
(*   restartVPN     the setting; startupOnFail is its negation               *)
(*   icmp           the setting asks for ICMP echoes                         *)
(*   smallCheck     smallCheckType; notPermitted: icmpNotPermitted           *)
(*   dnsIndex       dnsIPIndex of the DNS client                             *)
(*   startup        attempts of the startup check still running              *)
(*   passed         whether one has succeeded                                *)
(*   routine        where the goroutine of Start is; try: its try            *)
(*   result         what it is about to send                                 *)
(*   small, full    whether its timers run                                   *)
(*   channel        runErrorCh, which has room for one                       *)
(*   collector      where collectHealthErrors is                             *)
(*   up             the connection is up; stop: the checker was told to stop  *)
(*   server         what the health server shows                             *)
(*   last           the result of the last check that ended                  *)
VARIABLE health
-----------------------------------------------------------------------------
Init ==
    \E restartVPN, icmp \in BOOLEAN :
    health = [restartVPN |-> restartVPN, icmp |-> icmp, smallCheck |-> "", notPermitted |-> FALSE,
              dnsIndex |-> 0, startup |-> 0, passed |-> FALSE, routine |-> "none", try |-> 0,
              result |-> "ok", small |-> FALSE, full |-> FALSE, channel |-> <<>>,
              collector |-> "none", up |-> FALSE, stop |-> FALSE, server |-> "failed",
              last |-> "failed", connections |-> 0]

Routine(place) == health.routine = place

\* Mutant: the fallback lasts for one connection.
StartAgain ==
    /\ health.collector = "none" /\ health.connections < Connections
    /\ health' = [health EXCEPT
           !.connections = @ + 1, !.up = TRUE, !.startup = Addresses, !.passed = FALSE,
           !.collector = "starting", !.smallCheck = IF health.icmp THEN "icmp" ELSE "dns"]

(* SetConfig and the beginning of Start: a fallback to DNS is permanent.     *)
Start ==
    /\ health.collector = "none" /\ health.connections < Connections
    /\ health' = [health EXCEPT
           !.connections = @ + 1, !.up = TRUE, !.startup = Addresses, !.passed = FALSE,
           !.collector = "starting",
           !.smallCheck = IF health.icmp /\ ~health.notPermitted THEN "icmp" ELSE "dns"]

ConnectionEnds ==
    /\ health.up
    /\ health' = [health EXCEPT !.up = FALSE]

(* startupCheck: the attempts run in parallel and one success is enough.     *)
StartupAttempt(ok) ==
    /\ health.startup > 0
    /\ ok => health.up
    /\ health' = [health EXCEPT !.startup = @ - 1, !.passed = @ \/ ok]

Launched ==
    [health EXCEPT !.routine = "select", !.small = TRUE, !.full = TRUE, !.stop = FALSE,
                   !.collector = "receiving", !.server = "ok"]

StartupPassed ==
    /\ health.collector = "starting" /\ health.startup = 0 /\ health.passed
    /\ health' = [Launched EXCEPT !.last = "ok", !.channel = <<>>]

(* Without restarts Start returns no error, and sends it to the collector:   *)
(* the health server shows a success until that receives it.                 *)
StartupFailed ==
    /\ health.collector = "starting" /\ health.startup = 0 /\ ~health.passed
    /\ health' = IF health.restartVPN
                 THEN [health EXCEPT !.last = "failed", !.server = "failed", !.collector = "restart"]
                 ELSE [Launched EXCEPT !.last = "failed", !.channel = <<"failed">>]
-----------------------------------------------------------------------------
(* The goroutine of Start. Each check runs up to its number of tries.        *)

SmallTimer ==
    /\ Routine("select") /\ health.small
    /\ health' = [health EXCEPT !.routine = "small", !.try = 0, !.small = FALSE]

FullTimer ==
    /\ Routine("select") /\ health.full
    /\ health' = [health EXCEPT !.routine = "full", !.try = 0, !.full = FALSE]

(* A try that fails because the checker is stopping is the last.             *)
Ended(state, ok, tries) ==
    IF ok \/ state.stop \/ state.try + 1 = tries
    THEN [state EXCEPT !.routine = IF @ = "small" THEN "sendSmall" ELSE "sendFull",
                       !.result = IF ok THEN "ok" ELSE "failed"]
    ELSE [state EXCEPT !.try = @ + 1]

(* The DNS client goes on to its next server when one fails.                 *)
DNSChecked(state, ok) ==
    Ended([state EXCEPT !.dnsIndex = IF ok THEN @ ELSE (@ + 1) % DNSServers], ok, SmallTries)

DNSTry(ok) ==
    /\ Routine("small") /\ health.smallCheck = "dns"
    /\ health' = DNSChecked(health, ok)

EchoTry(ok) ==
    /\ Routine("small") /\ health.smallCheck = "icmp"
    /\ health' = Ended(health, ok, SmallTries)

EchoNotPermitted(ok) ==
    /\ Routine("small") /\ health.smallCheck = "icmp" /\ ~health.notPermitted
    /\ health' = DNSChecked([health EXCEPT !.notPermitted = TRUE, !.smallCheck = "dns"], ok)

FullTry(ok) ==
    /\ Routine("full")
    /\ health' = Ended(health, ok, FullTries)

(* The timer that brought the check is reset once its result is sent.        *)
Send ==
    /\ health.routine \in {"sendSmall", "sendFull"}
    /\ \/ /\ health.channel = <<>>
          /\ health' = [health EXCEPT
                 !.routine = "select", !.channel = <<health.result>>, !.last = health.result,
                 !.small = @ \/ Routine("sendSmall"), !.full = @ \/ Routine("sendFull")]
       \/ health.stop /\ health' = [health EXCEPT !.routine = "select"]

RoutineEnds ==
    /\ Routine("select") /\ health.stop
    /\ health' = [health EXCEPT !.routine = "none", !.small = FALSE, !.full = FALSE]
-----------------------------------------------------------------------------
(* collectHealthErrors. Without restarts a failure is only shown.            *)

Receive ==
    /\ health.collector = "receiving" /\ health.channel # <<>>
    /\ LET result == Head(health.channel)
           fails == result = "failed" /\ health.restartVPN
       IN  health' = [health EXCEPT !.channel = <<>>, !.server = result,
                                    !.collector = IF fails THEN "stopAndRestart" ELSE @,
                                    !.stop = fails]

CollectorDone ==
    /\ health.collector = "receiving" /\ ~health.up
    /\ health' = [health EXCEPT !.collector = "stopping", !.stop = TRUE]

\* Mutant: Stop does not wait for the goroutine.
StopReturns ==
    /\ health.collector \in {"stopping", "stopAndRestart"}
    /\ health' = [health EXCEPT !.smallCheck = "",
                                !.collector = IF @ = "stopping" THEN "none" ELSE "restart"]

(* Stop waits for the goroutine, then forgets the configuration.             *)
Stopped ==
    /\ health.collector \in {"stopping", "stopAndRestart"} /\ Routine("none")
    /\ health' = [health EXCEPT !.smallCheck = "",
                                !.collector = IF @ = "stopping" THEN "none" ELSE "restart"]

(* restartVPN ends the connection.                                           *)
Restart ==
    /\ health.collector = "restart"
    /\ health' = [health EXCEPT !.collector = "none", !.up = FALSE]
-----------------------------------------------------------------------------
RoutineStep ==
    \/ SmallTimer \/ FullTimer \/ Send \/ RoutineEnds
    \/ \E ok \in BOOLEAN : DNSTry(ok) \/ EchoTry(ok) \/ EchoNotPermitted(ok) \/ FullTry(ok)

Next ==
    \/ Start \/ ConnectionEnds \/ StartupPassed \/ StartupFailed
    \/ \E ok \in BOOLEAN : StartupAttempt(ok)
    \/ RoutineStep
    \/ Receive \/ CollectorDone \/ Stopped \/ Restart

Spec == Init /\ [][Next]_health
-----------------------------------------------------------------------------
TypeOK ==
    health \in [restartVPN : BOOLEAN, icmp : BOOLEAN, smallCheck : {"", "dns", "icmp"},
                notPermitted : BOOLEAN, dnsIndex : 0 .. DNSServers - 1, startup : 0 .. Addresses,
                passed : BOOLEAN, routine : {"none", "select", "small", "full", "sendSmall", "sendFull"},
                try : 0 .. SmallTries + FullTries, result : {"ok", "failed"}, small : BOOLEAN,
                full : BOOLEAN, channel : {<<>>, <<"ok">>, <<"failed">>},
                collector : {"none", "starting", "receiving", "stopping", "stopAndRestart", "restart"},
                up : BOOLEAN, stop : BOOLEAN, server : {"ok", "failed"}, last : {"ok", "failed"},
                connections : 0 .. Connections]

(* The health server shows a success after a failed check only until the     *)
(* collector receives the failure, unless the connection ends before: what   *)
(* is shown then stays until the next connection is checked.                 *)
FailuresAreShown ==
    health.last = "failed" /\ health.server = "ok" /\ health.collector = "receiving" =>
        health.channel = <<"failed">>

(* Once echoes were found not to be permitted none is sent again, whatever   *)
(* the connections after ask for.                                            *)
FallbackIsPermanent == health.notPermitted => health.smallCheck # "icmp"

(* The checker is started only when its goroutine has ended, the fields of   *)
(* which Start overwrites.                                                   *)
OneRoutine == health.collector = "starting" => Routine("none")

(* Whoever stops the checker is never kept waiting by a goroutine that can   *)
(* neither send its result nor end.                                          *)
StopIsNeverStuck ==
    health.collector \in {"stopping", "stopAndRestart"} => Routine("none") \/ ENABLED RoutineStep
=============================================================================
