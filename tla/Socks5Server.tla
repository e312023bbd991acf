---------------------------- MODULE Socks5Server -----------------------------
(* internal/socks5, loop.go and server.go: the loop that starts the SOCKS5   *)
(* server and starts it again when it crashes, the goroutine of the server,  *)
(* those of its TCP listener and UDP router, and the call of Stop.           *)
EXTENDS Naturals

CONSTANTS Connections5,  \* how many connections may be accepted
          Failures       \* how many times a listener may fail

SocksConstants == {Connections5, Failures} \subseteq Nat

(* A record with the fields:                                                 *)
(*   enabled                                                                 *)
(*   loop     "starting", "running", "retry", in server.Stop: "stopping",    *)
(*            sending what it returned: "sending", or "ended"                *)
(*   stop     the call of Stop: "none", "waiting" or "returned"              *)
(*   run      runServer: "none", "select", waiting for a goroutine: "tcp",   *)
(*            "udp", "stopTCP", "stopUDP", sending an error: "report",     *)
(*            "error", or "done"                                             *)
(*   told     stopCh is closed                                               *)
(*   tcp, udp "off", "on", with an error to send: "failed"                   *)
(*   conns, cancelled   connections open, and whether they are to end        *)
(*   accepted, failures count what happens                                   *)
VARIABLE socks

Init ==
    \E enabled \in BOOLEAN :
      socks = [enabled |-> enabled, loop |-> "starting", stop |-> "none", run |-> "none", told |-> FALSE,
               tcp |-> "off", udp |-> "off", conns |-> 0, cancelled |-> FALSE, accepted |-> 0, failures |-> 0]

Stopping == socks.stop # "none"
Close(listener) == IF listener = "on" THEN "failed" ELSE listener
-----------------------------------------------------------------------------
(* Loop.run                                                                  *)

Start ==
    /\ socks.loop = "starting"
    /\ \/ Stopping /\ socks' = [socks EXCEPT !.loop = "ended"]
       \/ ~socks.enabled /\ socks' = [socks EXCEPT !.loop = "running"]
       \/ /\ socks.enabled
          /\ \/ socks' = [socks EXCEPT !.loop = "running", !.run = "select", !.told = FALSE, !.tcp = "on",
                                       !.udp = "on", !.cancelled = FALSE]
             \/ socks.failures < Failures /\ socks' = [socks EXCEPT !.loop = "retry", !.failures = @ + 1]

Retry == socks.loop = "retry" /\ socks' = [socks EXCEPT !.loop = IF Stopping THEN "ended" ELSE "starting"]

(* The context has ended: the server is stopped, whatever it is doing. Start *)
(* of the server does the same when it notices first.                        *)
StopServer ==
    /\ socks.loop = "running" /\ Stopping
    /\ socks' = IF socks.enabled THEN [socks EXCEPT !.loop = "stopping", !.told = TRUE]
                ELSE [socks EXCEPT !.loop = "sending"]

Stopped ==
    /\ socks.loop = "stopping" /\ socks.run \in {"done", "error"}
    /\ socks' = [socks EXCEPT !.loop = "sending", !.run = "done"]

Crashed ==
    /\ socks.loop = "running" /\ socks.run = "report"
    /\ socks' = [socks EXCEPT !.loop = IF Stopping THEN "ended" ELSE "retry", !.run = "done"]

Stop == socks.stop = "none" /\ socks' = [socks EXCEPT !.stop = "waiting"]

StopReturns ==
    /\ socks.stop = "waiting" /\ socks.loop \in {"sending", "ended"}
    /\ socks' = [socks EXCEPT !.stop = "returned", !.loop = "ended"]
-----------------------------------------------------------------------------
(* runServer                                                                 *)

SelectStop ==
    /\ socks.run = "select" /\ socks.told
    /\ socks' = [socks EXCEPT !.run = "stopTCP", !.tcp = Close(@), !.cancelled = TRUE]

UDPFailed ==
    /\ socks.run = "select" /\ socks.udp = "failed"
    /\ socks' = [socks EXCEPT !.run = "tcp", !.udp = "off", !.tcp = Close(@), !.cancelled = TRUE]

TCPFailed ==
    /\ socks.run = "select" /\ socks.tcp = "failed"
    /\ socks' = [socks EXCEPT !.run = "udp", !.tcp = "off", !.udp = Close(@), !.cancelled = TRUE]

(* The errors of the listeners are waited for, not the connections.          *)
TCPEnded ==
    /\ socks.run \in {"tcp", "stopTCP"} /\ socks.tcp = "failed"
    /\ socks' = IF socks.run = "tcp" THEN [socks EXCEPT !.tcp = "off", !.run = "report"]
                ELSE [socks EXCEPT !.tcp = "off", !.run = "stopUDP", !.udp = Close(@)]

UDPEnded ==
    /\ socks.run \in {"udp", "stopUDP"} /\ socks.udp = "failed"
    /\ \E end \in (IF socks.run = "udp" THEN {"report"} ELSE {"done", "error"}) :
         socks' = [socks EXCEPT !.udp = "off", !.run = end]
-----------------------------------------------------------------------------
(* The goroutine of the TCP listener and udpRouter.run                       *)

Accept ==
    /\ socks.tcp = "on" /\ socks.accepted < Connections5
    /\ socks' = [socks EXCEPT !.conns = @ + 1, !.accepted = @ + 1]

AcceptFails ==
    /\ socks.tcp = "on" /\ socks.failures < Failures
    /\ socks' = [socks EXCEPT !.tcp = "failed", !.cancelled = TRUE, !.failures = @ + 1]

ReadFails ==
    /\ socks.udp = "on" /\ socks.failures < Failures
    /\ socks' = [socks EXCEPT !.udp = "failed", !.failures = @ + 1]

(* A connection ends when its client or destination does, or is closed.      *)
ConnectionEnds == socks.conns > 0 /\ socks' = [socks EXCEPT !.conns = @ - 1]
-----------------------------------------------------------------------------
Next ==
    \/ Start \/ Retry \/ StopServer \/ Stopped \/ Crashed \/ Stop \/ StopReturns
    \/ SelectStop \/ UDPFailed \/ TCPFailed \/ TCPEnded \/ UDPEnded
    \/ Accept \/ AcceptFails \/ ReadFails \/ ConnectionEnds

Spec == Init /\ [][Next]_socks
-----------------------------------------------------------------------------
TypeOK ==
    /\ socks.loop \in {"starting", "running", "retry", "stopping", "sending", "ended"}
    /\ socks.run \in {"none", "select", "tcp", "udp", "stopTCP", "stopUDP", "report", "error", "done"}
    /\ {socks.tcp, socks.udp} \subseteq {"off", "on", "failed"}
    /\ socks.conns \in 0 .. socks.accepted

(* The loop left its select for the context while the server was reporting a *)
(* crash nobody receives any more: Stop never returns.                       *)
Wedged == socks.loop = "stopping" /\ socks.run = "report"

(* Whatever fails at the same time, Stop waits for ever in that case only.   *)
StopHangsOnlyAfterCrash ==
    socks.stop = "waiting" =>
      \/ Wedged
      \/ socks.loop \in {"starting", "retry", "running", "sending", "ended"}
      \/ socks.run \in {"select", "done", "error"}
      \/ socks.run \in {"tcp", "stopTCP"} /\ socks.tcp = "failed"
      \/ socks.run \in {"udp", "stopUDP"} /\ socks.udp = "failed"

(* When Stop has returned, and before a crashed server is started again,     *)
(* nothing listens any more and every connection has been told to end.       *)
NothingListens ==
    socks.stop = "returned" \/ socks.loop = "retry" =>
      socks.tcp = "off" /\ socks.udp = "off" /\ (socks.conns > 0 => socks.cancelled)
=============================================================================
