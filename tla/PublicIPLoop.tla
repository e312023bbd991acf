---------------------------- MODULE PublicIPLoop ----------------------------
(* internal/publicip: the goroutine of the loop, RunOnce (onTunnelUp),       *)
(* UpdateWith (the control server), ClearData (the cleanup of a connection)  *)
(* and Stop, with the data and the file they keep.                           *)
EXTENDS Naturals

CONSTANTS
    Runners,        \* callers of RunOnce
    Updaters,       \* callers of UpdateWith
    IPs,            \* public IP addresses
    Paths,          \* file paths; the empty one is Unset
    Unset,
    IPRequests,     \* how many calls are made
    IPFaults        \* how many fetches and file operations fail

None == "none"
NoAddress == {"", "invalid IP", None}
Text == IPs \cup NoAddress

PublicIPConstants ==
    /\ Runners \cap Updaters = {} /\ Unset \notin Paths /\ IPs \cap NoAddress = {}
    /\ IPRequests \in Nat /\ IPFaults \in Nat

(* A record with the fields:                                                 *)
(*   loop       where run is; for: the caller it works for                   *)
(*   ok         whether what it is doing went well so far                    *)
(*   found      the address it fetched                                       *)
(*   pc         where the callers are; gone: those whose context ended       *)
(*   data       the address of ipData, or None                               *)
(*   enabled, path   the settings                                            *)
(*   file       what each file holds, None when there is none                *)
(*   overtaken  the result of a run that a ClearData overtook                *)
(*   stopping   Stop: "no", "waiting" for run, "clearing", "stopped"         *)
VARIABLE pip
-----------------------------------------------------------------------------
Init ==
    \E enabled \in BOOLEAN, path \in Paths \cup {Unset} :
    pip = [loop |-> "select", for |-> None, ok |-> TRUE, found |-> None,
           pc |-> [c \in Runners \cup Updaters |-> "idle"], gone |-> {},
           data |-> None, enabled |-> enabled, path |-> path,
           file |-> [p \in Paths |-> None], overtaken |-> None,
           stopping |-> "no", requests |-> 0, faults |-> 0]

At(c, place) == pip.pc[c] = place
Stopping == pip.stopping # "no"
MayFail == pip.faults < IPFaults

(* persistPublicIP: the empty path, documented as no file, cannot be opened; *)
(* a write that fails may have made or emptied the file.                     *)
Persisted(state, path, text) ==
    IF path = Unset THEN {[state EXCEPT !.ok = FALSE]}
    ELSE {[state EXCEPT !.file[path] = text]} \cup
         {[state EXCEPT !.file[path] = left, !.ok = FALSE, !.faults = @ + 1] :
            left \in IF MayFail THEN {state.file[path], ""} ELSE {}}

Request(c) ==
    /\ At(c, "idle") /\ pip.requests < IPRequests
    /\ pip' = [pip EXCEPT !.pc[c] = "sending", !.requests = @ + 1, !.gone = @ \ {c}]

ContextEnds(c) ==
    /\ c \in Runners \ pip.gone /\ ~At(c, "idle")
    /\ pip' = [pip EXCEPT !.gone = @ \cup {c}]
-----------------------------------------------------------------------------
(* RunOnce looks at its context only until its run is accepted.              *)

RunAccepted(c) ==
    /\ c \in Runners /\ At(c, "sending") /\ pip.loop = "select"
    /\ pip' = [pip EXCEPT !.pc[c] = "awaiting", !.for = c, !.ok = TRUE,
                          !.loop = IF pip.enabled THEN "fetching" ELSE "answering"]

RunAbandoned(c) ==
    /\ c \in Runners /\ At(c, "sending") /\ c \in pip.gone
    /\ pip' = [pip EXCEPT !.pc[c] = "idle"]

FetchSucceeds(ip) ==
    /\ pip.loop = "fetching"
    /\ pip' = [pip EXCEPT !.loop = "keeping", !.found = ip]

FetchFails ==
    /\ pip.loop = "fetching"
    /\ \/ (pip.for \in pip.gone \/ Stopping) /\ pip' = [pip EXCEPT !.loop = "answering", !.ok = FALSE]
       \/ MayFail /\ pip' = [pip EXCEPT !.loop = "answering", !.ok = FALSE, !.faults = @ + 1]

KeepData ==
    /\ pip.loop = "keeping"
    /\ pip' = [pip EXCEPT !.loop = "persisting", !.data = pip.found]

PersistData ==
    /\ pip.loop = "persisting"
    /\ \E state \in Persisted(pip, pip.path, pip.found) :
         pip' = [state EXCEPT !.loop = "answering"]

(* UpdateWith stops waiting for the answer when the loop is stopped.         *)
UpdateAccepted(c) ==
    /\ c \in Updaters /\ At(c, "sending") /\ pip.loop = "select"
    /\ pip' = [pip EXCEPT !.pc[c] = "awaiting", !.for = c, !.ok = TRUE, !.loop = "updating"]

UpdateAbandoned(c) ==
    /\ c \in Updaters /\ pip.pc[c] \in {"sending", "awaiting"} /\ Stopping
    /\ pip' = [pip EXCEPT !.pc[c] = "idle"]

(* update: the file is made, removed or renamed before the settings are      *)
(* kept; what cannot be done leaves them as they were.                       *)
\* Settings that are not valid, or a file that cannot be removed or renamed.
UpdateRefused ==
    /\ pip.loop = "updating"
    /\ pip' = [pip EXCEPT !.loop = "answering", !.ok = FALSE]

Update(path, enabled) ==
    /\ pip.loop = "updating"
    /\ LET old == pip.path
           held == IF old = Unset THEN None ELSE pip.file[old]
           renamed == [p \in Paths |-> CASE p = old -> None [] p = path -> held
                                         [] OTHER -> pip.file[p]]
           outcomes == IF path = old THEN {pip}
                       ELSE IF old = Unset
                       THEN Persisted(pip, path, IF pip.data = None THEN "invalid IP" ELSE pip.data)
                       ELSE IF held = None THEN {[pip EXCEPT !.ok = FALSE]}
                       ELSE {[pip EXCEPT !.file = renamed]}
       IN  \E state \in outcomes :
             pip' = [state EXCEPT !.loop = "answering",
                                  !.path = IF state.ok THEN path ELSE @,
                                  !.enabled = IF state.ok THEN enabled ELSE @]

(* The answer is sent with no alternative.                                   *)
Answer ==
    /\ pip.loop = "answering" /\ At(pip.for, "awaiting")
    /\ pip' = [pip EXCEPT !.loop = "select", !.pc[pip.for] = "idle", !.for = None,
                          !.found = None]
-----------------------------------------------------------------------------
\* Mutant: the file is kept.
ClearMemory(goOn) == pip' = [pip EXCEPT !.data = None, !.stopping = goOn]

(* ClearData, by a cleanup and by Stop; a run may be past keeping its result.*)
Clear(goOn) ==
    LET cleared == [pip EXCEPT !.data = None, !.stopping = goOn,
                               !.overtaken = IF pip.loop = "persisting" THEN pip.found ELSE @]
    IN  \E state \in Persisted(cleared, pip.path, "") :
          pip' = [state EXCEPT !.ok = pip.ok]

ClearData == pip.stopping # "stopped" /\ Clear(pip.stopping)

Stop ==
    /\ pip.stopping = "no"
    /\ pip' = [pip EXCEPT !.stopping = "waiting"]

RunEnds ==
    /\ pip.loop = "select" /\ Stopping
    /\ pip' = [pip EXCEPT !.loop = "ended"]

Stopped ==
    /\ pip.stopping = "waiting" /\ pip.loop = "ended"
    /\ Clear("stopped")
-----------------------------------------------------------------------------
Progress ==
    \/ \E c \in Runners : RunAccepted(c) \/ RunAbandoned(c)
    \/ \E c \in Updaters : UpdateAccepted(c) \/ UpdateAbandoned(c)
    \/ \E ip \in IPs : FetchSucceeds(ip)
    \/ \E path \in Paths \cup {Unset}, enabled \in BOOLEAN : Update(path, enabled)
    \/ KeepData \/ PersistData \/ Answer \/ RunEnds \/ Stopped

Next ==
    \/ Progress
    \/ \E c \in Runners \cup Updaters : Request(c) \/ ContextEnds(c)
    \/ FetchFails \/ UpdateRefused \/ ClearData \/ Stop

Spec == Init /\ [][Next]_pip
-----------------------------------------------------------------------------
TypeOK ==
    pip \in [loop : {"select", "fetching", "keeping", "persisting", "updating", "answering", "ended"},
             for : Runners \cup Updaters \cup {None}, ok : BOOLEAN, found : IPs \cup {None},
             pc : [Runners \cup Updaters -> {"idle", "sending", "awaiting"}],
             gone : SUBSET Runners, data : IPs \cup {None}, enabled : BOOLEAN,
             path : Paths \cup {Unset}, file : [Paths -> Text], overtaken : IPs \cup {None},
             stopping : {"no", "waiting", "stopped"},
             requests : 0 .. IPRequests, faults : 0 .. IPFaults]

(* A file shows an address that is no longer known only if a write failed,   *)
(* or if the run that found it was overtaken by ClearData and wrote it last. *)
FileShowsKnownAddress ==
    \A p \in Paths :
      pip.file[p] \in IPs =>
        pip.file[p] \in {pip.data, pip.overtaken} \/ pip.faults > 0 \/ pip.loop = "persisting"

(* There is one file, the one of the settings, however often they change.    *)
OneFile == \A p \in Paths : pip.file[p] # None => p = pip.path \/ pip.faults > 0

(* Nobody knows an address any more once Stop has returned.                  *)
StoppedMeansCleared == pip.stopping = "stopped" => pip.data = None

(* An update that is overtaken by Stop loses its caller, and then Stop waits *)
(* for a goroutine that sends its answer for ever; a RunOnce whose context   *)
(* does not end waits for a loop that has.                                   *)
Wedged ==
    \/ pip.loop = "answering" /\ pip.for \in Updaters /\ At(pip.for, "idle")
    \/ pip.loop = "ended" /\ \E c \in Runners : At(c, "sending")

BlockedOnlyIfWedged ==
    \/ ENABLED Progress
    \/ Wedged
    \/ /\ \A c \in Runners \cup Updaters : At(c, "idle")
       /\ Stopping => pip.stopping = "stopped"
=============================================================================
