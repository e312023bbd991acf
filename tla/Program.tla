------------------------------- MODULE Program ------------------------------
(* cmd/gluetun/main.go: _main sets the system up and starts the services one *)
(* after the other, asks for the VPN, waits for the signal or for a crash,   *)
(* and stops what it started; main waits for it, after the signal for as long*)
(* as the grace period lasts.                                                *)
EXTENDS Naturals, Sequences, SequencesExt

CONSTANTS
    Slow        \* what a call of Stop may take, in tenths of a second

ProgramConstants == Slow \subseteq Nat

VARIABLE prog   \* one record, see Init

(* The start in the order of the code. "step" may return an error, "start"   *)
(* too and else starts a service that reports its crash, "go" starts a       *)
(* goroutine, "serve" starts one and waits until it is ready.                *)
Startup ==
    <<<<"step", "settings">>, <<"start", "metrics">>, <<"step", "default routes">>,
      <<"step", "firewall">>, <<"step", "storage">>, <<"step", "validation">>,
      <<"step", "versions">>, <<"step", "routing">>, <<"step", "subnets and ports">>,
      <<"serve", "pprof">>, <<"start", "port forwarding">>,
      <<"step", "dns settings">>, <<"go", "dns">>, <<"go", "dns ticker">>,
      <<"start", "public ip">>, <<"start", "socks5">>, <<"go", "health server">>,
      <<"step", "resolver">>, <<"go", "vpn">>, <<"go", "updater">>, <<"go", "updater ticker">>,
      <<"go", "http proxy">>, <<"go", "shadowsocks">>, <<"step", "control settings">>,
      <<"serve", "control">>, <<"apply", "vpn">>>>

(* Who calls the goroutine of whom, as the constructors are given it.        *)
Calls ==
    {<<"vpn", s>> : s \in {"port forwarding", "public ip", "dns"}}
    \cup {<<"control", s>> : s \in {"vpn", "port forwarding", "dns", "updater", "public ip"}}
    \cup {<<"updater ticker", "updater">>, <<"dns ticker", "dns">>}

Stoppers == <<"port forwarding", "public ip", "socks5", "metrics">>

(* The groups of the order handler and what each is given, in tenths of a    *)
(* second; the whole of them is given 30, and main waits for 50.             *)
Group(services, timeout) == [services |-> services, timeout |-> timeout]
Groups ==
    <<Group({"dns ticker", "updater ticker", "control"}, 4), Group({"updater"}, 4),
      Group({"health server"}, 4), Group({"vpn"}, 10),
      Group({"dns", "http proxy", "shadowsocks", "pprof"}, 4)>>
Total == 30
Grace == 50

ReversedOrder == Reverse(Groups)
ShutdownOrder == Groups

Init ==
    \E pprof \in BOOLEAN :
        prog = [pprof |-> pprof,        \* the profiling server is enabled
                at |-> 1,               \* the step of Startup, or of what follows it
                phase |-> "start",      \* of _main
                signal |-> FALSE, elapsed |-> 0,        \* since the signal
                up |-> {},              \* services that were started and have not ended
                late |-> {},            \* those that were given up
                crashed |-> {}, heard |-> FALSE,
                routes |-> FALSE,       \* the rules of routing.Setup are there
                hung |-> FALSE, err |-> FALSE, exit |-> "no"]

Running == prog.exit = "no"
Current == Startup[prog.at]
Skipped == prog.at <= Len(Startup) /\ Current = <<"serve", "pprof">> /\ ~prog.pprof

(* The services whose crash _main listens to.                                *)
Reporting == ToSet(Stoppers)
-----------------------------------------------------------------------------
(* Start up.                                                                 *)

Starting(kinds) == Running /\ prog.phase = "start" /\ Current[1] \in kinds

Next1 == IF prog.at = Len(Startup) THEN [phase |-> "select", at |-> 1]
         ELSE [phase |-> "start", at |-> prog.at + 1]
Advance == [prog EXCEPT !.phase = Next1.phase, !.at = Next1.at]

Step ==
    /\ Starting({"step"})
    /\ prog' = [Advance EXCEPT !.routes = (@ \/ Current[2] = "routing")]

(* Every return of an error leaves what was started running and the deferred *)
(* tear down of the routing to be done.                                      *)
Fail ==
    /\ Starting({"step", "start"})
    /\ prog' = [prog EXCEPT !.phase = "return", !.err = TRUE]

Start ==
    /\ Starting({"start", "go", "serve"})
    /\ prog' = [Advance EXCEPT !.up = IF Skipped THEN @ ELSE @ \cup {Current[2]}]

(* The server cannot listen on its address: httpserver.Run ends and never    *)
(* closes ready, which _main waits for.                                      *)
ListenFails ==
    /\ Starting({"serve"}) /\ ~Skipped /\ ~prog.hung
    /\ prog' = [prog EXCEPT !.phase = "unready", !.hung = TRUE]

(* ApplyStatus returns once the VPN was started, or with the context.        *)
ApplyStatus == Starting({"apply"}) /\ prog' = Advance

Crash(s) ==
    /\ Running /\ s \in prog.up \cap Reporting /\ prog.crashed = {}
    /\ prog' = [prog EXCEPT !.up = @ \ {s}, !.crashed = {s}]

(* main: the signal cancels the context and starts the grace period.         *)
Signal ==
    /\ Running /\ ~prog.signal /\ prog.phase # "return"
    /\ prog' = [prog EXCEPT !.signal = TRUE]
-----------------------------------------------------------------------------
(* Shutting down.                                                            *)

Stopping ==
    /\ Running /\ prog.phase = "select" /\ prog.signal
    /\ prog' = [prog EXCEPT !.phase = "stop"]

(* A crash ends the wait as well, and then nothing of Stoppers is stopped.   *)
HearCrash ==
    /\ Running /\ prog.phase = "select" /\ prog.crashed # {}
    /\ prog' = [prog EXCEPT !.phase = "shutdown", !.heard = TRUE]

Spend(t) == IF prog.signal THEN prog.elapsed + t ELSE 0

(* Stop has no context and no limit: it may take its time, or for ever.      *)
Stop ==
    /\ Running /\ prog.phase = "stop" /\ ~prog.hung
    /\ \E t \in Slow, hangs \in BOOLEAN :
        prog' = IF hangs THEN [prog EXCEPT !.hung = TRUE]
                ELSE [prog EXCEPT !.up = @ \ {Stoppers[prog.at]}, !.elapsed = Spend(t),
                                  !.at = IF prog.at = Len(Stoppers) THEN 1 ELSE prog.at + 1,
                                  !.phase = IF prog.at = Len(Stoppers) THEN "shutdown" ELSE @]

(* goshutdown: each group ends or is given up when its time is over.         *)
Shutdown ==
    /\ Running /\ prog.phase = "shutdown"
    /\ LET group == ShutdownOrder[prog.at] IN
       \E late \in SUBSET (group.services \cap prog.up) :
        prog' = [prog EXCEPT !.up = @ \ (group.services \ late), !.late = @ \cup late,
                             !.elapsed = Spend(IF late = {} THEN 0 ELSE group.timeout),
                             !.at = IF prog.at = Len(ShutdownOrder) THEN 1 ELSE prog.at + 1,
                             !.phase = IF prog.at = Len(ShutdownOrder) THEN "return" ELSE @,
                             !.err = (@ \/ late # {})]

(* _main returns to main, which ends the program.                            *)
Return ==
    /\ Running /\ prog.phase = "return"
    /\ prog' = [prog EXCEPT !.routes = FALSE, !.exit = IF prog.err THEN "one" ELSE "zero"]

GraceExpires ==
    /\ Running /\ prog.signal /\ (prog.hung \/ prog.elapsed >= Grace)
    /\ prog' = [prog EXCEPT !.exit = "killed"]

Next ==
    \/ Step \/ Fail \/ Start \/ ListenFails \/ ApplyStatus \/ Signal
    \/ \E s \in Reporting : Crash(s)
    \/ Stopping \/ HearCrash \/ Stop \/ Shutdown \/ Return \/ GraceExpires
-----------------------------------------------------------------------------
TypeOK ==
    /\ prog.phase \in {"start", "unready", "select", "stop", "shutdown", "return"}
    /\ prog.at \in 1 .. Len(Startup) /\ prog.elapsed \in Nat
    /\ prog.up \cup prog.late \subseteq {Startup[i][2] : i \in DOMAIN Startup}
    /\ prog.exit \in {"no", "zero", "one", "killed"}

(* A service is started after those it calls, and ends before them unless it *)
(* took too long or they report their crash: the port forwarding and the     *)
(* public IP loop end before the VPN, which still calls them when it goes    *)
(* down.                                                                     *)
CallersStopFirst ==
    \A call \in Calls :
        call[1] \in prog.up \ prog.late => call[2] \in prog.up \cup prog.late \cup Reporting

StartedAfterCalled ==
    prog.phase = "start" =>
        \A call \in Calls : call[1] \in prog.up => call[2] \in prog.up \cup prog.crashed

(* The groups never use up the grace period, and no more than all of them    *)
(* are given: it ends only where a stop or a server that is not ready has no *)
(* limit.                                                                    *)
KilledOnlyIfHung ==
    prog.exit = "killed" => prog.hung \/ \E t \in Slow : 4 * t + Total > Grace

(* The rules are removed by every way out but the end of the grace period.   *)
RoutesAreRemoved == prog.exit \in {"zero", "one"} => ~prog.routes

(* Exit code 0 means that all that was started has ended, but after a crash, *)
(* which leaves the others of Stoppers running and is not told by the code.  *)
ZeroMeansEnded ==
    prog.exit = "zero" => prog.up \subseteq (IF prog.heard THEN Reporting ELSE {})

(* The program that cannot start does not say so with exit code 0.           *)
FailureIsTold == prog.exit = "zero" => prog.signal \/ prog.heard

ProgramEndsInOrder ==
    /\ StartedAfterCalled /\ CallersStopFirst /\ KilledOnlyIfHung
    /\ RoutesAreRemoved /\ ZeroMeansEnded /\ FailureIsTold
=============================================================================
