--------------------------- MODULE PIAPortForward ----------------------------
(* internal/provider/privateinternetaccess, portforward.go: how a port is    *)
(* obtained from PIA, saved to a file, bound and kept bound. The service of  *)
(* package portforward calls PortForward, then KeepPortForward, and after an *)
(* error PortForward again; the program may crash at any point.              *)
EXTENDS Naturals

CONSTANTS PIAPorts, Validity, PIATime, PIACrashes, PIAFaults

PIAConstants ==
    /\ {Validity, PIATime, PIACrashes, PIAFaults} \subseteq Nat
    /\ PIAPorts \subseteq Nat \ {0}

Data(port, expires) == [port |-> port, expires |-> expires]
NoData == Data(0, 0)

(* A record with the fields:                                                 *)
(*   file      what is saved; cut: it is only partly written                 *)
(*   at        "stopped", in PortForward: "read", "find", "token",           *)
(*             "signature", "open", "write", "bind"; then "returned",        *)
(*             "keeping", or "failed"; the program is "down"                 *)
(*   data      what PortForward, then KeepPortForward, work with             *)
(*   cancelled the context has ended                                         *)
(*   bound     what the server has bound, as it was told                     *)
(*   now, crashes, faults   count what happens                               *)
(*   saved     what was on file, valid, when PortForward read it, and        *)
(*   busy      whether the server refused it since: kept for the properties  *)
VARIABLE pia

Init ==
    pia = [file |-> NoData, cut |-> FALSE, at |-> "stopped", data |-> NoData, cancelled |-> FALSE, bound |-> NoData,
           now |-> 0, crashes |-> 0, faults |-> 0, saved |-> NoData, busy |-> FALSE]

Tick == pia.now < PIATime /\ pia' = [pia EXCEPT !.now = @ + 1]

Running == pia.at \notin {"down", "stopped", "failed"}
Cancel == Running /\ ~pia.cancelled /\ pia' = [pia EXCEPT !.cancelled = TRUE]

(* A file cannot be opened or written, or a request fails, as it does when   *)
(* the context has ended.                                                    *)
FileFails(s) == pia.faults < PIAFaults /\ pia' = [s EXCEPT !.at = "failed", !.faults = @ + 1]
Fails(s) == FileFails(s) \/ (pia.cancelled /\ pia' = [s EXCEPT !.at = "failed"])
-----------------------------------------------------------------------------
Expired(data) == data.expires <= pia.now
Found(data) == data.port > 0

(* A file that is not there is no data; one that cannot be decoded fails.    *)
readPIAPortForwardData == IF pia.cut THEN {} ELSE {pia.file}

PortForward ==
    /\ pia.at \in {"stopped", "failed"}
    /\ pia' = [pia EXCEPT !.at = "read", !.cancelled = FALSE, !.busy = FALSE]

(* Data that has expired is as good as none.                                 *)
Read ==
    /\ pia.at = "read"
    /\ \/ \E data \in readPIAPortForwardData :
            LET valid == IF Expired(data) THEN NoData ELSE data
            IN  pia' = [pia EXCEPT !.at = "find", !.data = valid, !.saved = valid]
       \/ readPIAPortForwardData = {} /\ pia' = [pia EXCEPT !.at = "failed"]

(* Both addresses of the API are tried.                                      *)
findAPIIP ==
    /\ pia.at = "find"
    /\ pia' = [pia EXCEPT !.at = IF Found(pia.data) THEN "bind" ELSE "token"] \/ Fails(pia)

(* refreshPIAPortForwardData                                                 *)
fetchToken == pia.at = "token" /\ (pia' = [pia EXCEPT !.at = "signature"] \/ Fails(pia))

fetchPortForwardData ==
    /\ pia.at = "signature"
    /\ \/ \E port \in PIAPorts : pia' = [pia EXCEPT !.at = "open", !.data = Data(port, pia.now + Validity)]
       \/ Fails(pia)

\* Mutant: what is on file is kept.
WriteOnce ==
    /\ pia.at = "open"
    /\ pia' = [pia EXCEPT !.at = "bind", !.file = IF Found(@) THEN @ ELSE pia.data]

(* writePIAPortForwardData: the file is truncated, then written.             *)
Truncate ==
    /\ pia.at = "open"
    /\ pia' = [pia EXCEPT !.at = "write", !.cut = TRUE] \/ FileFails(pia)

Open == Truncate

Write ==
    /\ pia.at = "write"
    /\ pia' = [pia EXCEPT !.at = "bind", !.cut = FALSE, !.file = pia.data] \/ FileFails(pia)
-----------------------------------------------------------------------------
(* bindPort: a port that is busy is replaced by another one. With a context  *)
(* that has ended the first binding is left out.                             *)
Bind ==
    /\ pia.at = "bind"
    /\ IF pia.cancelled THEN pia' = [pia EXCEPT !.at = "returned"] \/ Fails(pia)
       ELSE \/ pia' = [pia EXCEPT !.at = "returned", !.bound = pia.data]
            \/ pia.faults < PIAFaults /\ pia' = [pia EXCEPT !.at = "token", !.busy = TRUE, !.faults = @ + 1]
            \/ Fails(pia)

(* KeepPortForward                                                           *)
Keep ==
    /\ pia.at = "returned"
    /\ \E data \in readPIAPortForwardData : pia' = [pia EXCEPT !.at = "keeping", !.data = data]

KeepAlive ==
    /\ pia.at = "keeping"
    /\ pia' = [pia EXCEPT !.bound = pia.data] \/ Fails([pia EXCEPT !.bound = NoData])

Expire == pia.at = "keeping" /\ Expired(pia.data) /\ pia' = [pia EXCEPT !.at = "failed", !.bound = NoData]

KeepStopped == pia.at = "keeping" /\ pia.cancelled /\ pia' = [pia EXCEPT !.at = "stopped", !.bound = NoData]
-----------------------------------------------------------------------------
Crash ==
    /\ pia.at # "down" /\ pia.crashes < PIACrashes
    /\ pia' = [pia EXCEPT !.at = "down", !.crashes = @ + 1, !.bound = NoData, !.data = NoData]

Restart == pia.at = "down" /\ pia' = [pia EXCEPT !.at = "stopped"]

Next ==
    \/ Tick \/ Cancel \/ PortForward \/ Read \/ findAPIIP \/ fetchToken \/ fetchPortForwardData \/ Open \/ Write
    \/ Bind \/ Keep \/ KeepAlive \/ Expire \/ KeepStopped \/ Crash \/ Restart

Spec == Init /\ [][Next]_pia
-----------------------------------------------------------------------------
TypeOK ==
    /\ pia.at \in {"down", "stopped", "read", "find", "token", "signature", "open", "write", "bind", "returned",
                   "keeping", "failed"}
    /\ {pia.file.port, pia.data.port} \subseteq PIAPorts \cup {0}
    /\ pia.now \in 0 .. PIATime

(* A port that is announced is bound - unless the call was cancelled just    *)
(* before - and is the one on file, which the next start will ask for.       *)
AnnouncedPortIsBound ==
    pia.at \in {"returned", "keeping"} /\ ~pia.cancelled =>
      pia.bound = pia.data /\ pia.file = pia.data /\ ~pia.cut

(* The port stays the same across crashes and failures: as long as the one   *)
(* on file is valid and the server does not refuse it, it is the one bound.  *)
PortIsStable == pia.at = "returned" /\ Found(pia.saved) /\ ~pia.busy => pia.data = pia.saved

(* A write that was cut short, and nothing else, makes every later call fail.*)
FailsForEverAfterCutOnly == pia.cut => pia.at = "write" \/ pia.crashes + pia.faults > 0
=============================================================================
