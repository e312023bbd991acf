------------------------------ MODULE Providers -----------------------------
(* What comes from the user, from the providers and from other services of   *)
(* the Internet: the settings, the public IP address, the lists of servers,  *)
(* their storage, the choice of a connection, and the ports they forward. As *)
(* in Services, a behaviour is one of these alone: what one makes is an input*)
(* of the next.                                                              *)
EXTENDS Naturals

CONSTANTS
    FetcherLists, Places, Alike, Callers, BanDuration, FetchTime, FetcherUpdates,
    Hosts, Lists, Existing, Tenths,
    StoreProviders, Updates, StoreCrashes, WriteFaults, Releases, Marks,
    Catalogue, Wanted, Picks,
    PIAPorts, Validity, PIATime, PIACrashes, PIAFaults,
    Externals, NonSymmetric, PortsCounts, Tries, PMPTime, PMPLosses, Thefts,
    Handlers, Followed,
    Rotations, Challenges, Period

VARIABLES
    part,                               \* the part of this behaviour
    fetch, upd, store, choice, pia, pmp, st, login  \* the state of each

vars == <<part, fetch, upd, store, choice, pia, pmp, st, login>>

Fetching == INSTANCE Fetchers
Update == INSTANCE ProviderUpdate
Storage == INSTANCE ServerStorage
Choice == INSTANCE ServerChoice
PIA == INSTANCE PIAPortForward
Proton == INSTANCE ProtonPortForward
Config == INSTANCE Settings
ProtonSession == INSTANCE ProtonLogin

ASSUME ProvidersAssumption ==
    /\ Fetching!FetcherConstants /\ Update!UpdateConstants /\ Storage!StorageConstants
    /\ Choice!ChoiceConstants /\ PIA!PIAConstants /\ Proton!ProtonConstants
    /\ Config!SettingsConstants /\ ProtonSession!LoginConstants
-----------------------------------------------------------------------------
Some(S) == CHOOSE x \in S : TRUE

(* The parts that do not take part rest in one of their initial states.      *)
Init ==
    /\ part \in {"fetch", "update", "storage", "choice", "pia", "pmp", "settings", "login"}
    /\ Config!Init
    /\ part # "settings" =>
        st.env = {} /\ st.refused = Config!Nothing /\ ~st.used /\ st.field = Some(Followed)
    /\ Fetching!Init
    /\ part # "fetch" => fetch.fetchers = Some(FetcherLists)
    /\ Update!Init
    /\ part # "update" =>
        upd.names = Some(Lists) /\ upd.stored["airvpn"].count = Some(Existing) /\ upd.direct = "no"
    /\ Storage!Init
    /\ part # "storage" => ~store.hasLegacy
    /\ Choice!Init /\ PIA!Init /\ Proton!Init /\ ProtonSession!Init
    /\ part # "login" =>
        login.twoFA = {} /\ login.start = 0 /\ login.totp = "none"
        /\ ~login.vpn /\ ~login.genuine /\ ~login.late
    /\ part # "pmp" => pmp.count = Some(PortsCounts)

FetchNext == part = "fetch" /\ Fetching!Next /\ UNCHANGED <<part, upd, store, choice, pia, pmp, st, login>>
UpdateNext == part = "update" /\ Update!Next /\ UNCHANGED <<part, fetch, store, choice, pia, pmp, st, login>>
StorageNext == part = "storage" /\ Storage!Next /\ UNCHANGED <<part, fetch, upd, choice, pia, pmp, st, login>>
ChoiceNext == part = "choice" /\ Choice!Next /\ UNCHANGED <<part, fetch, upd, store, pia, pmp, st, login>>
PIANext == part = "pia" /\ PIA!Next /\ UNCHANGED <<part, fetch, upd, store, choice, pmp, st, login>>
ProtonNext == part = "pmp" /\ Proton!Next /\ UNCHANGED <<part, fetch, upd, store, choice, pia, st, login>>
SettingsNext == part = "settings" /\ Config!Next /\ UNCHANGED <<part, fetch, upd, store, choice, pia, pmp, login>>
LoginNext == part = "login" /\ ProtonSession!Next /\ UNCHANGED <<part, fetch, upd, store, choice, pia, pmp, st>>

Next ==
    \/ FetchNext \/ UpdateNext \/ StorageNext \/ ChoiceNext \/ PIANext \/ ProtonNext
    \/ SettingsNext \/ LoginNext

Spec == Init /\ [][Next]_vars
-----------------------------------------------------------------------------
(* Every part is in a state of its type.                                     *)
TypeOK ==
    /\ Fetching!TypeOK /\ Update!TypeOK /\ Storage!TypeOK
    /\ Choice!TypeOK /\ PIA!TypeOK /\ Proton!TypeOK /\ Config!TypeOK /\ ProtonSession!TypeOK

(* The properties of the parts are stated, in words and as formulas, in      *)
(* their modules.                                                            *)

(* publicip/api: a service that refused is left alone for the time of its    *)
(* ban, and a place most services agree on is the one that is told.          *)
FetchersAreFair == Fetching!RefusalsAreRespected /\ Fetching!MajorityWins

(* updater, storage, utils: the servers stored can be connected to and are   *)
(* not too few, who may log in to Proton gets them, they outlive crashes and *)
(* releases, and those picked are among the ones asked for.                  *)
ServersAreUsed ==
    /\ Update!StoredServersAreUsable /\ Update!EnoughServersAreKept /\ Update!OthersAreUpdated
    /\ ProtonSession!LoginIsSound
    /\ Storage!StoredServersAreUsed /\ Storage!RefusesAfterBrokenWritesOnly
    /\ Choice!PicksAreWanted

(* privateinternetaccess, protonvpn: a port that is announced is forwarded,  *)
(* and stays the same across restarts.                                       *)
PortsStayForwarded ==
    /\ PIA!AnnouncedPortIsBound /\ PIA!PortIsStable /\ PIA!FailsForEverAfterCutOnly
    /\ Proton!KeptPortsAreMapped /\ Proton!AllPortsAreForwarded

(* configuration/settings: what the user sets, or patches, is what runs, and *)
(* what is in use was validated.                                             *)
SettingsAreKept == Config!SettingsAreKept

(* resilient.go:104, see Fetchers: all services that are not banned are      *)
(* asked.                                                                    *)
AllAreAsked == Fetching!AllAreAsked
=============================================================================
