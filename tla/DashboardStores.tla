--------------------------- MODULE DashboardStores --------------------------
(* internal/dashboard/profiles and history: what the dashboard keeps in      *)
(* memory and writes to a file after each change, by way of a temporary file *)
(* that is renamed. Any write may fail, and the program may crash at any     *)
(* point and be started again.                                               *)
EXTENDS Naturals, Sequences

CONSTANTS
    Seeds, Added,       \* profiles: those an empty store is seeded with, others
    Versions,           \* contents of a profile
    MaxEvents,          \* the cap of the history
    Changes, Crashes, Faults

Ids == Seeds \cup Added
Absent == "absent"
Unknown == "unknown"

StoresConstants ==
    /\ Seeds \cap Added = {} /\ Seeds # {} /\ Unknown \notin Versions
    /\ MaxEvents \in Nat \ {0} /\ {Changes, Crashes, Faults} \subseteq Nat

Seeded == "default"
Contents == Versions \cup {Absent, Seeded}
Empty == [i \in Ids |-> Absent]
Defaults == [i \in Ids |-> IF i \in Seeds THEN Seeded ELSE Absent]
Broken == [i \in Ids |-> Unknown]      \* a file that is no list of profiles

(* A record with the fields:                                                 *)
(*   up            the program runs                                          *)
(*   profiles, file    the profiles in memory and in the file                *)
(*   temp          the temporary file                                        *)
(*   saving        "none", or the next step of saveToFile: "write", "rename" *)
(*   request       the profile a client asked to change, or "quiet" when     *)
(*                 nobody is told of a failure (MarkUsed, ImportJSON)        *)
(*   told          of each profile, what a client was last told, or Unknown  *)
(*                 if that was an error: kept for the properties             *)
(*   events, eventFile     the history, newest first                         *)
(*   changed, crashed, faults      used so far                               *)
VARIABLE disk
-----------------------------------------------------------------------------
(* NewStore of both: an empty store is seeded, and saved if that succeeds.   *)
Init ==
    \E file \in {Empty, Defaults} :
      disk = [up |-> TRUE, profiles |-> Defaults, file |-> file, temp |-> Empty,
              saving |-> "none", request |-> "quiet", told |-> [i \in Ids |-> Unknown],
              events |-> <<>>, eventFile |-> <<>>, changed |-> 0, crashed |-> 0, faults |-> 0]

Idle == disk.up /\ disk.saving = "none" /\ disk.changed < Changes

Change(request, profiles) ==
    disk' = [disk EXCEPT !.profiles = profiles, !.request = request, !.saving = "write", !.changed = @ + 1,
                         !.told = [i \in Ids |-> IF profiles[i] = disk.profiles[i] THEN @[i] ELSE Unknown]]

(* Create and Update.                                                        *)
Put(id, version) == Idle /\ Change(id, [disk.profiles EXCEPT ![id] = version])

Delete(id) ==
    /\ Idle /\ disk.profiles[id] # Absent
    /\ Change(id, [disk.profiles EXCEPT ![id] = Absent])

(* MarkUsed and ImportJSON ignore what becomes of the save.                  *)
Import(id, version) == Idle /\ Change("quiet", [disk.profiles EXCEPT ![id] = version])
-----------------------------------------------------------------------------
Answer(state, good) ==
    [state EXCEPT !.saving = "none", !.request = "quiet",
                  !.told = [i \in Ids |-> IF i # disk.request THEN @[i]
                                          ELSE IF good THEN disk.profiles[i] ELSE Unknown]]

\* Mutant: the file itself is written.
WriteInPlace ==
    /\ disk.saving = "write"
    /\ disk' = [disk EXCEPT !.temp = disk.profiles, !.file = Broken, !.saving = "rename"]

WriteTemp ==
    /\ disk.saving = "write"
    /\ disk' = [disk EXCEPT !.temp = disk.profiles, !.saving = "rename"]

Rename ==
    /\ disk.saving = "rename"
    /\ disk' = Answer([disk EXCEPT !.file = disk.temp], TRUE)

SaveFails ==
    /\ disk.saving # "none" /\ disk.faults < Faults
    /\ disk' = Answer([disk EXCEPT !.faults = @ + 1,
                                   !.temp = IF disk.saving = "write" THEN Broken ELSE @], FALSE)
-----------------------------------------------------------------------------
(* AddEvent: prepended, capped, and saved in the same way, in one step here; *)
(* a failure is ignored.                                                     *)
Capped(events) == SubSeq(events, 1, IF Len(events) < MaxEvents THEN Len(events) ELSE MaxEvents)

Record(events) ==
    \/ disk' = [disk EXCEPT !.events = events, !.eventFile = events, !.changed = @ + 1]
    \/ /\ disk.faults < Faults
       /\ disk' = [disk EXCEPT !.events = events, !.changed = @ + 1, !.faults = @ + 1]

AddEvent == Idle /\ Record(Capped(<<disk.changed>> \o disk.events))
-----------------------------------------------------------------------------
Crash ==
    /\ disk.up /\ disk.crashed < Crashes
    /\ disk' = [disk EXCEPT !.up = FALSE, !.crashed = @ + 1, !.saving = "none", !.request = "quiet",
                            !.profiles = Empty, !.events = <<>>]

(* A file that cannot be read keeps the program from starting; an empty      *)
(* store is seeded anew, whether that can be saved or not.                   *)
Restarted(profiles) == [disk EXCEPT !.up = TRUE, !.profiles = profiles, !.events = disk.eventFile]

Reseed ==
    /\ ~disk.up /\ disk.file = Empty
    /\ \E file \in {Empty, Defaults} :
         disk' = [Restarted(Defaults) EXCEPT
                    !.file = file, !.told = [i \in Ids |-> IF i \in Seeds THEN Unknown ELSE @[i]]]

Restart ==
    /\ ~disk.up /\ disk.file \notin {Broken, Empty}
    /\ disk' = Restarted(disk.file)

Next ==
    \/ \E i \in Ids, v \in Versions : Put(i, v) \/ Import(i, v)
    \/ \E i \in Ids : Delete(i)
    \/ WriteTemp \/ Rename \/ SaveFails \/ AddEvent \/ Crash \/ Restart \/ Reseed

Spec == Init /\ [][Next]_disk
-----------------------------------------------------------------------------
TypeOK ==
    /\ disk.profiles \in [Ids -> Contents]
    /\ disk.told \in [Ids -> Contents \cup {Unknown}]
    /\ disk.saving \in {"none", "write", "rename"} /\ disk.request \in Ids \cup {"quiet"}
    /\ disk.events \in Seq(Nat) /\ disk.eventFile \in Seq(Nat)

(* Whatever crashes and fails, what a client was told is done is in the file *)
(* (so that a restart finds it) and the file can always be read.             *)
AcknowledgedIsSaved ==
    /\ disk.file # Broken
    /\ \A i \in Ids : disk.told[i] \in {Unknown, disk.file[i]}

(* The history is ordered, newest first, and its file holds it as it was at  *)
(* some moment: a crash loses the newest events and never one in between.    *)
HistoryLosesTheNewest ==
    /\ \A i, j \in DOMAIN disk.events : i < j => disk.events[i] > disk.events[j]
    /\ disk.up => \E k \in 0 .. Len(disk.events) :
         disk.events = Capped(SubSeq(disk.events, 1, k) \o disk.eventFile)
=============================================================================
