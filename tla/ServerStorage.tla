---------------------------- MODULE ServerStorage ----------------------------
(* internal/storage: the lists of servers in memory, which come with the     *)
(* program, from one file per provider that a manifest names, or from the    *)
(* single file of older versions, and are written back in place. The program *)
(* may crash at any point and come back as a newer release.                  *)
EXTENDS Naturals

CONSTANTS StoreProviders, Updates, StoreCrashes, WriteFaults, Releases, Marks

StorageConstants ==
    /\ {Updates, StoreCrashes, WriteFaults, Releases, Marks} \subseteq Nat
    /\ StoreProviders \cap {"none", "manifest"} = {}

(* The servers of a provider: their format, when they were fetched, whether  *)
(* the user prefers the file, and whether they include one he wants kept.    *)
Servers(version, time, preferred, kept) ==
    [version |-> version, time |-> time, preferred |-> preferred, kept |-> kept]
NoServers == Servers(0, 0, FALSE, FALSE)

(* A record with the fields:                                                 *)
(*   hardcoded     the servers of the release                                *)
(*   memory        mergedServers                                             *)
(*   file, broken  the files of the providers (NoServers: there is none),    *)
(*                 and those that were being written when the program stopped*)
(*   manifest      "absent", "empty", "broken" or "whole"                    *)
(*   hasLegacy, legacy   the file of older versions                          *)
(*   at            "down", "sync" and "set" while writing, "up" or "refused" *)
(*   todo, open    files still to write, and whether the one chosen is open  *)
(*   migrates      the servers were read from the legacy file                *)
(*   setting       the provider SetServers was called for                    *)
(*   clock, updates, crashes, faults, releases, marks   count what happens   *)
(*   told          per provider what was stored for good, by the time it was *)
(*                 fetched; emptied: a crash left the manifest empty: kept   *)
(*                 for the properties                                        *)
VARIABLE store
-----------------------------------------------------------------------------
OlderServers == [version : {1}, time : {1, 3}, preferred : {FALSE}, kept : BOOLEAN]

Start(hasLegacy, legacy) ==
    [hardcoded |-> Servers(1, 2, FALSE, FALSE), memory |-> [p \in StoreProviders |-> NoServers],
     file |-> [p \in StoreProviders |-> NoServers], broken |-> {}, manifest |-> "absent",
     hasLegacy |-> hasLegacy, legacy |-> legacy, at |-> "down", todo |-> {}, open |-> "none",
     migrates |-> FALSE, setting |-> "none", clock |-> 3, updates |-> 0, crashes |-> 0, faults |-> 0,
     releases |-> 0, marks |-> 0, emptied |-> FALSE,
     told |-> IF hasLegacy THEN legacy ELSE [p \in StoreProviders |-> NoServers]]

Init ==
    \E hasLegacy \in BOOLEAN, legacy \in [StoreProviders -> OlderServers] :
      /\ ~hasLegacy => \A p \in StoreProviders : legacy[p] = Servers(1, 1, FALSE, FALSE)
      /\ store = Start(hasLegacy, legacy)
-----------------------------------------------------------------------------
(* readFromFile: an empty manifest counts as none; a file that is broken     *)
(* stops the program. Servers of another format are left out.                *)
Found == store.manifest \in {"broken", "whole"}
Unreadable == store.manifest = "broken" \/ (Found /\ store.broken # {})

OnFile(p) ==
    LET servers == IF Found THEN store.file[p] ELSE IF store.hasLegacy THEN store.legacy[p] ELSE NoServers
    IN  IF servers.version = store.hardcoded.version THEN servers ELSE NoServers

(* mergeProviderServers: servers from the file that are preferred or more    *)
(* recent; else those of the release and those to keep.                      *)
Merge(servers) ==
    IF servers.preferred \/ servers.time > store.hardcoded.time THEN servers
    ELSE [store.hardcoded EXCEPT !.kept = servers.kept]

(* syncServers, which writes unless all came from the file.                  *)
Sync ==
    /\ store.at = "down"
    /\ IF Unreadable THEN store' = [store EXCEPT !.at = "refused"]
       ELSE LET memory == [p \in StoreProviders |-> Merge(OnFile(p))]
            IN  IF \A p \in StoreProviders : memory[p] = OnFile(p)
                THEN store' = [store EXCEPT !.at = "up", !.memory = memory]
                ELSE store' = [store EXCEPT !.at = "sync", !.memory = memory, !.todo = StoreProviders,
                                            !.migrates = store.hasLegacy /\ ~Found]
-----------------------------------------------------------------------------
(* SetServers replaces the servers in memory, those to keep included, whether*)
(* or not they can be written.                                               *)
SetServers(p) ==
    /\ store.at = "up" /\ store.updates < Updates
    /\ store' = [store EXCEPT !.at = "set", !.updates = @ + 1, !.clock = @ + 1, !.setting = p,
                              !.memory[p] = [@ EXCEPT !.time = store.clock + 1, !.kept = FALSE],
                              !.told[p] = [@ EXCEPT !.kept = FALSE], !.todo = StoreProviders]

(* flushToFile: every file is truncated and written, in any order, and at    *)
(* last the manifest.                                                        *)
OpenFile(p) ==
    /\ store.at \in {"sync", "set"} /\ p \in store.todo /\ store.open = "none"
    /\ store' = [store EXCEPT !.open = p, !.broken = @ \cup {p}]

WriteFile ==
    /\ store.open \in StoreProviders
    /\ store' = [store EXCEPT !.open = "none", !.todo = @ \ {store.open}, !.broken = @ \ {store.open},
                              !.file[store.open] = store.memory[store.open]]

OpenManifest ==
    /\ store.at \in {"sync", "set"} /\ store.todo = {} /\ store.open = "none"
    /\ store' = [store EXCEPT !.open = "manifest", !.manifest = "empty"]

(* Then the legacy file is removed if it was read, or by SetServers.         *)
LegacyAfter ==
    store.hasLegacy /\ ~(store.at = "set" \/ store.migrates)

Acknowledge(s) ==
    IF store.at = "set" THEN [s EXCEPT !.told[store.setting] = store.memory[store.setting]] ELSE s

WriteManifest ==
    /\ store.open = "manifest"
    /\ \E hasLegacy \in {LegacyAfter, store.hasLegacy} :
         store' = Acknowledge([store EXCEPT !.at = "up", !.open = "none", !.manifest = "whole",
                                            !.hasLegacy = hasLegacy, !.setting = "none"])

(* An error ends it at once, and the program goes on: what is broken stays.  *)
WriteFails ==
    /\ store.at \in {"sync", "set"} /\ store.faults < WriteFaults
    /\ store' = [store EXCEPT !.at = "up", !.faults = @ + 1, !.open = "none", !.todo = {}, !.setting = "none",
                              !.emptied = @ \/ store.open = "manifest"]
-----------------------------------------------------------------------------
(* The program crashes, a manifest that is being written being partly there. *)
Crash ==
    /\ store.at \in {"sync", "set", "up"} /\ store.crashes < StoreCrashes
    /\ \E manifest \in (IF store.open = "manifest" THEN {"empty", "broken"} ELSE {store.manifest}) :
         store' = [store EXCEPT !.at = "down", !.crashes = @ + 1, !.open = "none", !.todo = {}, !.setting = "none",
                                !.manifest = manifest, !.emptied = @ \/ manifest = "empty"]

(* A new release, maybe of another format.                                   *)
Upgrade ==
    /\ store.at = "down" /\ store.releases < Releases
    /\ \E version \in {store.hardcoded.version, store.hardcoded.version + 1} :
         store' = [store EXCEPT !.releases = @ + 1, !.clock = @ + 1,
                                !.hardcoded = Servers(version, store.clock + 1, FALSE, FALSE)]

(* The user marks the servers of a file.                                     *)
Mark(p) ==
    /\ store.at = "down" /\ store.marks < Marks
    /\ store.manifest = "whole" /\ p \notin store.broken /\ store.file[p] # NoServers
    /\ \E kept, preferred \in BOOLEAN :
         LET marked == [store.file[p] EXCEPT !.kept = kept, !.preferred = preferred]
         IN  store' = [store EXCEPT !.marks = @ + 1, !.file[p] = marked, !.told[p] = marked]
-----------------------------------------------------------------------------
Next ==
    \/ Sync \/ WriteFile \/ OpenManifest \/ WriteManifest \/ WriteFails \/ Crash \/ Upgrade
    \/ \E p \in StoreProviders : SetServers(p) \/ OpenFile(p) \/ Mark(p)

Spec == Init /\ [][Next]_store
-----------------------------------------------------------------------------
TypeOK ==
    /\ store.at \in {"down", "sync", "set", "up", "refused"}
    /\ store.manifest \in {"absent", "empty", "broken", "whole"}
    /\ store.broken \cup store.todo \subseteq StoreProviders
    /\ store.open \in StoreProviders \cup {"none", "manifest"}

(* What was stored for good, by an update, by an older version of the        *)
(* program or by the user, is used from then on, across crashes, releases    *)
(* and the migration from the legacy file, until something more recent or    *)
(* another format replaces it, and what he wants kept even then - if the     *)
(* manifest was not caught empty by a crash or a failure: an empty manifest  *)
(* is taken for a first start.                                               *)
StoredServersAreUsed ==
    store.at = "up" /\ ~store.emptied =>
      \A p \in StoreProviders :
        LET told == store.told[p]
            memory == store.memory[p]
        IN  told.version = store.hardcoded.version =>
              /\ memory.time >= told.time
              /\ told.preferred => memory.preferred
              /\ told.kept => memory.kept

(* Only a write that was cut short keeps the program from starting.          *)
RefusesAfterBrokenWritesOnly == store.at = "refused" => store.crashes + store.faults > 0 /\ Unreadable
=============================================================================
