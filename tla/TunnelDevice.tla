---------------------------- MODULE TunnelDevice -----------------------------
(* internal/wireguard, internal/amneziawg and internal/cleanup: what a       *)
(* runner of Wireguard or AmneziaWG makes in the kernel step by step, and    *)
(* undoes when it ends. Any step and any part of the clean up may fail. The  *)
(* VPN loop starts the next runner after its backoff, when the one before    *)
(* has cleaned up.                                                           *)
EXTENDS Naturals, Sequences

CONSTANTS DeviceRuns,   \* how many runners are started
          StepFailures  \* how many steps fail for no reason of gluetun

DeviceConstants == {DeviceRuns, StepFailures} \subseteq Nat

(* The steps of each implementation, named for what they make.               *)
setupKernelSpace == <<"client", "noOldLink", "link">>
setupUserSpace == <<"node", "client", "tun", "link", "bind", "device", "uapiFile", "uapiListener", "accept">>
setupAmneziaWG == <<"client", "tun", "link", "bind", "device", "uapiFile", "uapiListener", "uapi", "accept">>

Setup == [kernel |-> setupKernelSpace, userspace |-> setupUserSpace, amneziawg |-> setupAmneziaWG]
Variants == DOMAIN Setup

(* Run, the same for all.                                                    *)
Steps(variant, ipv6) ==
    Setup[variant] \o <<"addresses", "config", "up", "routes">> \o (IF ipv6 THEN <<"rule6", "rule4">> ELSE <<"rule4">>)

(* What has a clean up, and in which order these are done.                   *)
\* Mutant: the IPv6 rule is not removed.
OrderWithoutRule6 ==
    [client |-> 1, rule4 |-> 1, uapiListener |-> 2, uapiFile |-> 3, up |-> 4, link |-> 5,
     device |-> 6, tun |-> 7, bind |-> 7]

CleanupOrder ==
    [client |-> 1, rule4 |-> 1, rule6 |-> 1, uapiListener |-> 2, uapiFile |-> 3, up |-> 4, link |-> 5,
     device |-> 6, tun |-> 7, bind |-> 7]

(* What the kernel removes with each: a device that is closed closes the TUN *)
(* and the bind.                                                             *)
With(op) ==
    CASE op = "up" -> {"up", "routes"}
      [] op = "link" -> {"link", "up", "routes", "addresses", "config"}
      [] op = "tun" -> {"tun", "link", "up", "routes", "addresses", "config"}
      [] op = "device" -> {"device", "bind", "tun", "link", "up", "routes", "addresses", "config"}
      [] OTHER -> {op}

(* A record with the fields:                                                 *)
(*   variant, ipv6  of the settings                                          *)
(*   at         "off", "setup", "up", "report" an error, "cleanup" after a   *)
(*              report, "ending" before it                                   *)
(*   step       steps done; todo: clean ups that were added and are not done *)
(*   there      what exists in the kernel and the process                    *)
(*   accept     the goroutine of the UAPI of this runner runs; left: one is  *)
(*              blocked for ever on its error                                *)
(*   runs, failures   count what happens                                     *)
(*   kept       a clean up failed; refused: a step failed because what it    *)
(*              makes was there; late: a step failed after the goroutine of  *)
(*              the UAPI was started: kept for the properties                *)
VARIABLE dev

Init ==
    \E variant \in Variants, ipv6 \in BOOLEAN :
      dev = [variant |-> variant, ipv6 |-> ipv6, at |-> "off", step |-> 0, todo |-> {}, there |-> {}, accept |-> FALSE, left |-> FALSE,
             runs |-> 0, failures |-> 0, kept |-> FALSE, refused |-> FALSE, late |-> FALSE]
-----------------------------------------------------------------------------
Start ==
    /\ dev.at = "off" /\ dev.runs < DeviceRuns
    /\ \E ipv6 \in BOOLEAN :
         dev' = [dev EXCEPT !.at = "setup", !.step = 0, !.ipv6 = ipv6, !.runs = @ + 1, !.refused = FALSE]

All == Steps(dev.variant, dev.ipv6)
Current == All[dev.step + 1]

(* A rule or a device that is there already cannot be made.                  *)
Exists(name) ==
    \/ name \in {"rule4", "rule6", "tun"} /\ name \in dev.there
    \/ name = "tun" /\ "link" \in dev.there
    \/ name = "link" /\ dev.variant = "kernel" /\ "link" \in dev.there

(* The old link of the kernel is deleted; the TUN device comes with a link;  *)
(* addresses and configuration replace those there were.                     *)
Made(s, name) ==
    [s EXCEPT !.there = IF name = "noOldLink" THEN @ \ With("link")
                        ELSE IF name = "tun" THEN @ \cup {"tun", "link"}
                        ELSE IF name \in {"node", "uapi", "accept"} THEN @ ELSE @ \cup {name},
              !.accept = @ \/ name = "accept",
              !.todo = IF name \in DOMAIN CleanupOrder THEN @ \cup {name} ELSE @]

Step ==
    /\ dev.at = "setup" /\ dev.step < Len(All)
    /\ ~Exists(Current)
    /\ dev' = [Made(dev, Current) EXCEPT !.step = @ + 1, !.at = IF dev.step + 1 = Len(All) THEN "up" ELSE "setup"]

(* The error is reported before the clean up that is deferred.               *)
StepFails ==
    /\ dev.at = "setup" /\ dev.step < Len(All)
    /\ Exists(Current) \/ (dev.failures < StepFailures /\ Current \notin {"accept", "bind", "device"})
    /\ dev' = [dev EXCEPT !.at = "report", !.refused = Exists(Current), !.late = @ \/ dev.accept,
                          !.failures = IF Exists(Current) THEN @ ELSE @ + 1]

(* waitAndCleanup: the context ends, the listener of the UAPI fails, or the  *)
(* device ends.                                                              *)
End == dev.at = "up" /\ dev' = [dev EXCEPT !.at = "ending"]

AcceptFails ==
    /\ dev.at = "up" /\ dev.accept /\ dev.failures < StepFailures
    /\ dev' = [dev EXCEPT !.at = "ending", !.accept = FALSE, !.failures = @ + 1]

Report == dev.at = "report" /\ dev' = [dev EXCEPT !.at = "cleanup"]
-----------------------------------------------------------------------------
(* Cleanup: in the order of the numbers, any order among equal ones, each    *)
(* once; an error is logged. The goroutine of the UAPI ends with its         *)
(* listener, if somebody receives its error.                                 *)
Firsts == {op \in dev.todo : \A other \in dev.todo : CleanupOrder[op] <= CleanupOrder[other]}

AcceptEnds(op) == op = "uapiListener" /\ dev.accept

Clean ==
    /\ dev.at \in {"cleanup", "ending"}
    /\ \E op \in Firsts :
         \/ dev' = [dev EXCEPT !.todo = @ \ {op}, !.there = @ \ With(op),
                                  !.accept = @ /\ ~AcceptEnds(op),
                                  !.left = @ \/ (AcceptEnds(op) /\ dev.at = "cleanup")]
         \/ /\ dev.failures < StepFailures /\ op \in {"rule4", "rule6", "up", "link"}
            /\ dev' = [dev EXCEPT !.todo = @ \ {op}, !.failures = @ + 1, !.kept = TRUE]

Ended ==
    /\ dev.at \in {"cleanup", "ending"} /\ dev.todo = {}
    /\ dev' = [dev EXCEPT !.at = "off"]
-----------------------------------------------------------------------------
Next == Start \/ Step \/ StepFails \/ End \/ AcceptFails \/ Report \/ Clean \/ Ended

Spec == Init /\ [][Next]_dev
-----------------------------------------------------------------------------
TypeOK ==
    /\ dev.at \in {"off", "setup", "up", "report", "cleanup", "ending"}
    /\ dev.todo \subseteq DOMAIN CleanupOrder
    /\ {dev.accept, dev.left} \subseteq BOOLEAN
    /\ dev.step \in 0 .. Len(All)

(* A runner that has ended leaves nothing behind, wherever it failed, but    *)
(* for what a clean up could not remove.                                     *)
NothingIsLeft == dev.at = "off" /\ ~dev.kept => dev.there = {}

(* What one runner leaves never keeps the next one from starting, unless its *)
(* clean up failed: then a rule that is left refuses every later runner.     *)
NoRunnerIsRefused == dev.refused => dev.kept

(* The goroutine of the UAPI is left behind, blocked on its error, only by a *)
(* runner that failed after it had started it.                               *)
GoroutinesEnd == dev.left => dev.late
=============================================================================
