------------------------------ MODULE Services ------------------------------
(* The services beside the tunnel, each a goroutine or a few and their       *)
(* callers, and main, which starts and stops them. They share no state in the*)
(* program, only the shape of their calls: a behaviour of this module is one *)
(* of them alone, so that one run checks them all without the product of     *)
(* their states.                                                             *)
EXTENDS Naturals

CONSTANTS Callers, Nobody, LoopRoutine,
    UpdaterCallers, UpdaterRequests, UpdaterFaults, UpdaterPeriods,
    DNSConnections, DNSRequests, DNSFaults, DNSPeriods,
    HTTPRequests, HTTPFaults,
    SSStarter, SSCallers, SSRequests, SSFaults,
    Runners, Updaters, IPs, Paths, Unset, IPRequests, IPFaults,
    Addresses, SmallTries, FullTries, DNSServers, Connections,
    Slow

VARIABLES
    part,                                       \* the service of this behaviour
    status, loopMu, pc, op, result, cancelled,  \* State of the DNS and of the HTTP proxy loop
    dns, http, updater, ss, pip, health, prog

stateVars == <<status, loopMu, pc, op, result, cancelled>>
vars == <<part, stateVars, dns, http, updater, ss, pip, health, prog>>

UpdaterService == INSTANCE UpdaterLoop
DNSService == INSTANCE DNSLoop
HTTPService == INSTANCE HTTPProxyLoop
SSService == INSTANCE ShadowsocksLoop
IPService == INSTANCE PublicIPLoop
HealthService == INSTANCE HealthChecker
Main == INSTANCE Program

ASSUME ServicesAssumption ==
    /\ UpdaterService!UpdaterConstants /\ DNSService!DNSConstants /\ HTTPService!HTTPConstants
    /\ SSService!SSConstants /\ IPService!PublicIPConstants /\ HealthService!HealthConstants
    /\ Main!ProgramConstants
    /\ Nobody \notin Callers /\ LoopRoutine \notin Callers /\ Nobody # LoopRoutine
-----------------------------------------------------------------------------
(* The services that do not take part rest in one of their initial states.   *)
Resting ==
    /\ part # "updater" => ~updater.period
    /\ part # "dns" => ~dns.period
    /\ part # "http" => http.loop = "idle"
    /\ part # "ss" => ss.pc[SSStarter] = "idle"
    /\ part # "pip" => ~pip.enabled /\ pip.path = Unset
    /\ part # "health" => ~health.restartVPN /\ ~health.icmp
    /\ part # "main" => ~prog.pprof

Init ==
    /\ part \in {"updater", "dns", "http", "ss", "pip", "health", "main"}
    /\ DNSService!Init /\ HTTPService!Init /\ UpdaterService!Init
    /\ SSService!Init /\ IPService!Init /\ HealthService!Init
    /\ Main!Init /\ Resting

UpdaterNext ==
    part = "updater" /\ UpdaterService!Next /\ UNCHANGED <<part, stateVars, dns, http, ss, pip, health, prog>>
DNSNext ==
    part = "dns" /\ DNSService!Next /\ UNCHANGED <<part, http, updater, ss, pip, health, prog>>
HTTPNext ==
    part = "http" /\ HTTPService!Next /\ UNCHANGED <<part, dns, updater, ss, pip, health, prog>>
SSNext ==
    part = "ss" /\ SSService!Next /\ UNCHANGED <<part, stateVars, dns, http, updater, pip, health, prog>>
IPNext ==
    part = "pip" /\ IPService!Next /\ UNCHANGED <<part, stateVars, dns, http, updater, ss, health, prog>>
HealthNext ==
    part = "health" /\ HealthService!Next /\ UNCHANGED <<part, stateVars, dns, http, updater, ss, pip, prog>>
MainNext ==
    part = "main" /\ Main!Next /\ UNCHANGED <<part, stateVars, dns, http, updater, ss, pip, health>>

Next == UpdaterNext \/ DNSNext \/ HTTPNext \/ SSNext \/ IPNext \/ HealthNext \/ MainNext

Spec == Init /\ [][Next]_vars
-----------------------------------------------------------------------------
(* Every service is in a state of its type.                                  *)
TypeOK ==
    /\ UpdaterService!TypeOK /\ DNSService!TypeOK /\ HTTPService!TypeOK
    /\ SSService!TypeOK /\ IPService!TypeOK /\ HealthService!TypeOK
    /\ Main!TypeOK

(* The properties of the services are stated, in words and as formulas, in   *)
(* their modules; those that make the same promise are one property here.    *)

(* updater, dns, httpproxy: a status "stopped" means that no update runs and *)
(* that no server is up.                                                     *)
StoppedMeansDown ==
    /\ UpdaterService!StoppedTellsTheTruth
    /\ DNSService!StoppedMeansDown
    /\ part = "http" => HTTPService!StoppedTellsTheTruth

(* updater, shadowsocks, healthcheck: one update, one server, one checking   *)
(* routine at a time, whatever the order of starts and stops.                *)
OneAtATime ==
    /\ UpdaterService!OneUpdateAtATime
    /\ SSService!OneServer
    /\ HealthService!OneRoutine

(* Each service: who waits for ever does so in one of the waits its module   *)
(* names.  The Stop of the health checker is never one of them.              *)
BlockedOnlyIfWedged ==
    /\ part = "updater" => UpdaterService!BlockedOnlyIfWedged
    /\ part = "dns" => DNSService!BlockedOnlyIfWedged
    /\ part = "http" => HTTPService!BlockedOnlyIfWedged
    /\ part = "ss" => SSService!BlockedOnlyIfWedged
    /\ part = "pip" => IPService!BlockedOnlyIfWedged
    /\ HealthService!StopIsNeverStuck

(* dns: the restart timer runs exactly when the period asks for it.          *)
TimerFollowsPeriod == DNSService!TimerFollowsPeriod

(* shadowsocks: Run panics on nothing but what follows a stop.               *)
PanicsOnlyAfterStop == SSService!PanicsOnlyAfterStop

(* What is shown outside is so. publicip: the address in the file is the one *)
(* the loop holds, there is no second file that shows another, and a stopped *)
(* loop leaves none behind. healthcheck: a failure is shown by the health    *)
(* server until a check succeeds, and the fall back from ICMP to DNS lasts.  *)
WhatIsShownIsTrue ==
    /\ IPService!FileShowsKnownAddress
    /\ IPService!OneFile
    /\ IPService!StoppedMeansCleared
    /\ HealthService!FailuresAreShown
    /\ HealthService!FallbackIsPermanent

(* main: what is called is started before its callers and ends after them,   *)
(* the grace period is enough, and the exit code tells a failure but a crash.*)
ProgramEndsInOrder == Main!ProgramEndsInOrder
=============================================================================
