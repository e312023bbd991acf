--------------------------- MODULE ProvidersProofs --------------------------
(* What Providers checks on small instances, for any services, servers,      *)
(* providers, ports, settings and bounds: every part has an inductive        *)
(* invariant of its own, and the whole takes the steps of one of them.       *)
EXTENDS Providers, SequenceTheorems, FunctionTheorems, FiniteSetTheorems, WellFoundedInduction, TLAPS

(* A set of numbers has a smallest one.                                      *)
LEMMA Least == ASSUME NEW T \in SUBSET Nat, T # {} PROVE \E x \in T : \A y \in T : x <= y
<1> DEFINE R == {ss \in Nat \X Nat : ss[1] < ss[2]}
<1>1. R = OpToRel(<, Nat)
  BY DEF OpToRel
<1>2. IsWellFoundedOn(R, Nat)
  BY <1>1, NatLessThanWellFounded
<1> HIDE DEF R
<1>3. PICK x \in T : \A y \in T : ~(<<y, x>> \in R)
  BY <1>2, WFMin
<1>4. ASSUME NEW y \in T PROVE x <= y
  <2>1. y \in Nat /\ x \in Nat
    OBVIOUS
  <2>2. <<y, x>> \in Nat \X Nat /\ <<y, x>>[1] = y /\ <<y, x>>[2] = x
    BY <2>1
  <2>3. y < x => <<y, x>> \in R
    BY <2>2 DEF R
  <2>4. QED
    BY <1>3, <2>1, <2>3
<1>5. QED
  BY <1>4


(* Settings.                                                                 *)

(* No field is both a pointer, which always has a default, and one that has  *)
(* no default: the tables of the structures are right in this.               *)
Apart(fields) == fields.pointers \cap fields.bare = {}

LEMMA VPNStructsApart == \A s \in DOMAIN Config!VPNStructs : Apart(Config!VPNStructs[s].fields)
<1>1. Apart(Config!VPN) /\ Apart(Config!Provider) /\ Apart(Config!OpenVPNSelection)
      /\ Apart(Config!AmneziaWg) /\ Apart(Config!PMTUD)
  BY DEF Apart, Config!Fields, Config!VPN, Config!Provider, Config!OpenVPNSelection, Config!AmneziaWg, Config!PMTUD
<1>2. Apart(Config!ServerSelection)
  BY DEF Apart, Config!Fields, Config!ServerSelection, Config!Filters, Config!Locations
<1>3. Apart(Config!WireguardSelection) /\ Apart(Config!PortForwarding)
  BY DEF Apart, Config!Fields, Config!WireguardSelection, Config!PortForwarding
<1>4. Apart(Config!OpenVPN) /\ Apart(Config!Wireguard)
  BY DEF Apart, Config!Fields, Config!OpenVPN, Config!Wireguard
<1>5. QED
  BY <1>1, <1>2, <1>3, <1>4 DEF Config!VPNStructs, Config!Struct

LEMMA OtherStructsApart == \A s \in DOMAIN Config!OtherStructs : Apart(Config!OtherStructs[s].fields) \/ s = "Pprof"
<1>1. Apart(Config!DNS) /\ Apart(Config!Iptables) /\ Apart(Config!Health) /\ Apart(Config!HTTPProxy)
      /\ Apart(Config!Log) /\ Apart(Config!Metrics) /\ Apart(Config!Prometheus) /\ Apart(Config!IPv6)
      /\ Apart(Config!PublicIP) /\ Apart(Config!ControlServer)
  BY DEF Apart, Config!Fields, Config!DNS, Config!Iptables, Config!Health, Config!HTTPProxy, Config!Log,
         Config!Metrics, Config!Prometheus, Config!IPv6, Config!PublicIP, Config!ControlServer
<1>2. Apart(Config!Shadowsocks) /\ Apart(Config!Socks5) /\ Apart(Config!Storage) /\ Apart(Config!Updater)
      /\ Apart(Config!Version) /\ Apart(Config!BoringPoll)
  BY DEF Apart, Config!Fields, Config!Shadowsocks, Config!Socks5, Config!Storage, Config!Updater, Config!Version,
         Config!BoringPoll
<1>3. Apart(Config!DNSBlacklist) /\ Apart(Config!Firewall) /\ Apart(Config!System)
  BY DEF Apart, Config!Fields, Config!DNSBlacklist, Config!Firewall, Config!System
<1>4. QED
  BY <1>1, <1>2, <1>3 DEF Config!OtherStructs, Config!Struct

(* What is dereferenced is given a default, and copied, but for the rates of *)
(* the profiling server.                                                     *)
LEMMA DereferencedHasDefault ==
  ASSUME NEW f \in Config!Field, Config!Dereferenced(f), f[1] # "Pprof"
  PROVE  Config!HasDefault(f) /\ f \notin Config!Uncopied
<1>1. PICK s \in DOMAIN Config!Structs : \E n \in Config!NamesOf(s) : f = <<s, n>>
  BY DEF Config!Field
<1>2. PICK n \in Config!NamesOf(s) : f = <<s, n>>
  BY <1>1
<1>3. n \in Config!Structs[s].fields.pointers /\ s # "Pprof"
  BY <1>2 DEF Config!Dereferenced
<1>4. Apart(Config!Structs[s].fields)
  <2>1. CASE s \in DOMAIN Config!VPNStructs
    <3>1. Config!Structs[s] = Config!VPNStructs[s]
      BY <2>1 DEF Config!Structs, Config!Also
    <3>2. QED
      BY <2>1, <3>1, VPNStructsApart
  <2>2. CASE s \notin DOMAIN Config!VPNStructs
    <3>1. s \in DOMAIN Config!OtherStructs /\ Config!Structs[s] = Config!OtherStructs[s]
      BY <2>2 DEF Config!Structs, Config!Also
    <3>2. QED
      BY <1>3, <3>1, OtherStructsApart
  <2>3. QED
    BY <2>1, <2>2
<1>5. Config!HasDefault(f)
  BY <1>2, <1>3, <1>4 DEF Config!HasDefault, Apart
<1>6. Config!Structs["PortForwarding"].fields = Config!PortForwarding
  <2>1. "PortForwarding" \in DOMAIN Config!VPNStructs
        /\ Config!VPNStructs["PortForwarding"].fields = Config!PortForwarding
    BY DEF Config!VPNStructs, Config!Struct
  <2>2. QED
    BY <2>1 DEF Config!Structs, Config!Also
<1>7. "PortsCount" \notin Config!PortForwarding.pointers
  BY DEF Config!PortForwarding, Config!Fields
<1>8. f \notin Config!Uncopied
  BY <1>2, <1>3, <1>6, <1>7 DEF Config!Uncopied
<1>9. QED
  BY <1>5, <1>8

-----------------------------------------------------------------------------
(* A value is made of keys, the default and patches.                         *)
Values ==
    SUBSET ({<<"key", k>> : k \in Nat} \cup {<<"patch", h>> : h \in Handlers}
            \cup {<<"default", 0>>, <<"nothing", 0>>})

SettingsStates ==
    [field : Config!Field, env : SUBSET Nat, refused : Values, used : BOOLEAN,
     phase : {"read", "defaults", "validate", "running", "failed"}, value : Values,
     pc : [Handlers -> {"idle", "override", "validate", "done"}], copy : [Handlers -> Values],
     before : [Handlers -> Values], usedThen : [Handlers -> BOOLEAN],
     patch : [Handlers -> {"nothing", "field", "other", "used"}],
     expected : Values, overlapped : BOOLEAN, blamed : BOOLEAN]

(* What a request writes over its copy.                                      *)
Asked(h) == IF st.patch[h] = "field" THEN Config!Patch(h) ELSE Config!Unset
NeverNil == Config!Dereferenced(st.field) /\ st.field[1] # "Pprof"

(* A request works on a copy of what it saw, with its own change; no copy of *)
(* what is dereferenced is nil.                                              *)
SettingsInv ==
    /\ st \in SettingsStates
    /\ st.field \in Followed /\ st.env \subseteq Config!Keys(st.field)
    /\ NeverNil /\ st.phase \in {"validate", "running"} => st.value # Config!Unset
    /\ \A h \in Handlers :
        /\ st.pc[h] # "idle" => st.phase = "running"
        /\ st.pc[h] = "override" => st.copy[h] = Config!Copied(st.before[h])
        /\ st.pc[h] = "validate" => st.copy[h] = Config!Overridden(Config!Copied(st.before[h]), Asked(h))
        /\ NeverNil /\ st.pc[h] # "idle" => st.copy[h] # Config!Unset
    /\ Config!UsedIsValid /\ Config!AcceptedIsKept /\ Config!NotBlamedForOthers

LEMMA SomeKeyIsFirst == ASSUME NEW T \in SUBSET Nat PROVE Config!First(T) \in Values
<1>1. CASE T = {}
  BY <1>1 DEF Config!First, Config!Unset, Values
<1>2. CASE T # {}
  <2>1. Config!Min(T) \in Nat
    <3>1. PICK x \in T : \A y \in T : x <= y
      BY <1>2, Least
    <3>2. Config!Min(T) \in T
      BY <3>1 DEF Config!Min
    <3>3. QED
      BY <3>2
  <2>2. QED
    BY <1>2, <2>1 DEF Config!First, Config!FromKeys, Values
<1>3. QED
  BY <1>1, <1>2

LEMMA WhatIsReadIsAValue == ASSUME NEW f, NEW env \in SUBSET Nat PROVE Config!ReadKeys(f, env) \in Values
<1>1. /\ Config!First(env \ {0}) \in Values /\ Config!First(env \cap {0}) \in Values
      /\ Config!First(env) \in Values
  BY SomeKeyIsFirst
<1>2. Config!FromKeys(env \cap {0}) \in Values /\ Config!Unset \in Values
  BY DEF Config!FromKeys, Config!Unset, Values
<1>3. Config!FromKeys(env \cap {0}) \cup Config!First(env \ {0}) \in Values
  BY <1>1, <1>2 DEF Values
<1>4. QED
  BY <1>1, <1>2, <1>3, Zenon DEF Config!ReadKeys

LEMMA SettingsStart == ASSUME Config!SettingsConstants, Config!Init PROVE SettingsInv
<1>1. PICK f \in Followed, used \in BOOLEAN : \E env \in SUBSET Config!Keys(f) :
        \E refused \in {Config!Nothing} \cup (IF Config!MayBeRefused(f)
                THEN {Config!Unset, Config!FromKeys({0})} \cup {Config!Patch(h) : h \in Handlers} ELSE {}) :
          st = [field |-> f, env |-> env, refused |-> refused, used |-> used, phase |-> "read", value |-> Config!Unset,
                pc |-> [h \in Handlers |-> "idle"], copy |-> [h \in Handlers |-> Config!Unset],
                before |-> [h \in Handlers |-> Config!Unset], usedThen |-> [h \in Handlers |-> FALSE],
                patch |-> [h \in Handlers |-> "nothing"], expected |-> Config!Unset,
                overlapped |-> FALSE, blamed |-> FALSE]
  BY Zenon DEF Config!Init
<1>2. PICK env \in SUBSET Config!Keys(f) :
        \E refused \in {Config!Nothing} \cup (IF Config!MayBeRefused(f)
                THEN {Config!Unset, Config!FromKeys({0})} \cup {Config!Patch(h) : h \in Handlers} ELSE {}) :
          st = [field |-> f, env |-> env, refused |-> refused, used |-> used, phase |-> "read", value |-> Config!Unset,
                pc |-> [h \in Handlers |-> "idle"], copy |-> [h \in Handlers |-> Config!Unset],
                before |-> [h \in Handlers |-> Config!Unset], usedThen |-> [h \in Handlers |-> FALSE],
                patch |-> [h \in Handlers |-> "nothing"], expected |-> Config!Unset,
                overlapped |-> FALSE, blamed |-> FALSE]
  BY <1>1, Zenon
<1>3. PICK refused \in {Config!Nothing} \cup (IF Config!MayBeRefused(f)
                THEN {Config!Unset, Config!FromKeys({0})} \cup {Config!Patch(h) : h \in Handlers} ELSE {}) :
          st = [field |-> f, env |-> env, refused |-> refused, used |-> used, phase |-> "read", value |-> Config!Unset,
                pc |-> [h \in Handlers |-> "idle"], copy |-> [h \in Handlers |-> Config!Unset],
                before |-> [h \in Handlers |-> Config!Unset], usedThen |-> [h \in Handlers |-> FALSE],
                patch |-> [h \in Handlers |-> "nothing"], expected |-> Config!Unset,
                overlapped |-> FALSE, blamed |-> FALSE]
  BY <1>2, Zenon
<1>4. f \in Config!Field
  BY DEF Config!SettingsConstants
<1>5. Config!Keys(f) \subseteq Nat
  BY DEF Config!Keys
<1>6. refused \in Values /\ Config!Unset \in Values
  BY DEF Values, Config!Nothing, Config!Unset, Config!FromKeys, Config!Patch
<1>7. st \in SettingsStates
  BY <1>3, <1>4, <1>5, <1>6 DEF SettingsStates
<1>8. /\ st.field = f /\ st.env = env /\ st.phase = "read" /\ ~st.blamed /\ ~st.overlapped
      /\ \A h \in Handlers : st.pc[h] = "idle"
  BY <1>3
<1>9. QED
  BY <1>7, <1>8 DEF SettingsInv, Config!UsedIsValid, Config!AcceptedIsKept, Config!NotBlamedForOthers, Config!Running

LEMMA SettingsStep == ASSUME SettingsInv, [Config!Next]_st PROVE SettingsInv'
<1>0. st \in SettingsStates
  BY DEF SettingsInv
<1>1. CASE UNCHANGED st
  BY <1>1 DEF SettingsInv, Config!UsedIsValid, Config!AcceptedIsKept, Config!NotBlamedForOthers, Config!Running,
              NeverNil, Asked, Config!Copied, Config!Overridden
<1>2. CASE Config!Read
  <2>1. st.env \in SUBSET Nat
    BY <1>0 DEF SettingsStates
  <2>2. Config!ReadKeys(st.field, st.env) \in Values
    BY <2>1, WhatIsReadIsAValue
  <2>3. st' \in SettingsStates
    BY <1>0, <1>2, <2>2 DEF Config!Read, SettingsStates
  <2>4. /\ st'.field = st.field /\ st'.env = st.env /\ st'.phase = "defaults" /\ st'.pc = st.pc
        /\ st'.blamed = st.blamed /\ st.phase = "read"
    BY <1>0, <1>2 DEF Config!Read, SettingsStates
  <2>5. QED
    BY <2>3, <2>4 DEF SettingsInv, Config!UsedIsValid, Config!AcceptedIsKept, Config!NotBlamedForOthers, Config!Running,
             NeverNil, Asked, Config!Copied, Config!Overridden
<1>3. CASE Config!SetDefaults
  <2>1. Config!Default \in Values /\ Config!Default # Config!Unset
    BY DEF Values, Config!Default, Config!Unset
  <2>2. st' \in SettingsStates
    BY <1>0, <1>3, <2>1 DEF Config!SetDefaults, SettingsStates
  <2>3. /\ st'.field = st.field /\ st'.env = st.env /\ st'.phase = "validate" /\ st'.pc = st.pc
        /\ st'.blamed = st.blamed /\ st.phase = "defaults"
        /\ st'.value = IF st.value = Config!Unset /\ Config!HasDefault(st.field) THEN Config!Default ELSE st.value
    BY <1>0, <1>3 DEF Config!SetDefaults, SettingsStates
  <2>4. NeverNil => Config!HasDefault(st.field)
    BY <1>0, DereferencedHasDefault DEF NeverNil, SettingsStates
  <2>5. QED
    BY <2>1, <2>2, <2>3, <2>4 DEF SettingsInv, Config!UsedIsValid, Config!AcceptedIsKept, Config!NotBlamedForOthers, Config!Running,
             NeverNil, Asked, Config!Copied, Config!Overridden
<1>4. CASE Config!Validate
  <2>1. CASE Config!Valid(st.value, st.used)
    <3>1. st' = [st EXCEPT !.phase = "running", !.expected = st.value] /\ st.phase = "validate"
      BY <1>4, <2>1 DEF Config!Validate
    <3>2. st' \in SettingsStates
      BY <1>0, <3>1 DEF SettingsStates
    <3>3. /\ st'.field = st.field /\ st'.env = st.env /\ st'.phase = "running" /\ st'.pc = st.pc
          /\ st'.blamed = st.blamed /\ st'.value = st.value /\ st'.expected = st.value
          /\ st'.used = st.used /\ st'.refused = st.refused
      BY <1>0, <3>1 DEF SettingsStates
    <3>4. QED
      BY <2>1, <3>1, <3>2, <3>3 DEF Config!Valid, SettingsInv, Config!UsedIsValid, Config!AcceptedIsKept, Config!NotBlamedForOthers, Config!Running,
             NeverNil, Asked, Config!Copied, Config!Overridden
  <2>2. CASE ~Config!Valid(st.value, st.used)
    <3>1. st' = [st EXCEPT !.phase = "failed"] /\ st.phase = "validate"
      BY <1>4, <2>2 DEF Config!Validate
    <3>2. st' \in SettingsStates
      BY <1>0, <3>1 DEF SettingsStates
    <3>3. /\ st'.field = st.field /\ st'.env = st.env /\ st'.phase = "failed" /\ st'.pc = st.pc
          /\ st'.blamed = st.blamed
      BY <1>0, <3>1 DEF SettingsStates
    <3>4. QED
      BY <3>1, <3>2, <3>3 DEF SettingsInv, Config!UsedIsValid, Config!AcceptedIsKept, Config!NotBlamedForOthers, Config!Running,
             NeverNil, Asked, Config!Copied, Config!Overridden
  <2>3. QED
    BY <2>1, <2>2
<1>5. ASSUME NEW h \in Handlers, Config!GetSettings(h) PROVE SettingsInv'
  <2>1. Config!Copied(st.value) \in Values
    BY <1>0 DEF SettingsStates, Values, Config!Copied, Config!Unset
  <2>2. st' \in SettingsStates
    BY <1>0, <1>5, <2>1 DEF Config!GetSettings, SettingsStates
  <2>3. /\ st.phase = "running"
        /\ \A n \in {"field", "env", "refused", "used", "phase", "value", "patch", "expected", "overlapped", "blamed"} :
              st'[n] = st[n]
    BY <1>0, <1>5 DEF Config!GetSettings, SettingsStates
  <2>4. \A g \in Handlers :
          /\ st'.pc[g] = IF g = h THEN "override" ELSE st.pc[g]
          /\ st'.copy[g] = IF g = h THEN Config!Copied(st.value) ELSE st.copy[g]
          /\ st'.before[g] = IF g = h THEN st.value ELSE st.before[g]
    BY <1>0, <1>5 DEF Config!GetSettings, SettingsStates
  <2>5. NeverNil => Config!Copied(st.value) # Config!Unset
    BY <1>0, <2>3, DereferencedHasDefault DEF NeverNil, Config!Copied, SettingsInv, SettingsStates
  <2>6. QED
    BY <2>2, <2>3, <2>4, <2>5 DEF SettingsInv, Config!UsedIsValid, Config!AcceptedIsKept, Config!NotBlamedForOthers, Config!Running,
             NeverNil, Asked, Config!Copied, Config!Overridden
<1>6. ASSUME NEW h \in Handlers, Config!OverrideWith(h) PROVE SettingsInv'
  <2>1. PICK what \in {"field", "other", "used"} :
          st' = [st EXCEPT !.pc[h] = "validate", !.patch[h] = what,
                           !.copy[h] = Config!Overridden(@, IF what = "field" THEN Config!Patch(h) ELSE Config!Unset)]
    BY <1>6 DEF Config!OverrideWith
  <2> DEFINE c == Config!Overridden(st.copy[h], IF what = "field" THEN Config!Patch(h) ELSE Config!Unset)
  <2>2. Config!Patch(h) \in Values /\ Config!Patch(h) # Config!Unset
    BY DEF Config!Patch, Config!Unset, Values
  <2>3. c \in Values /\ (st.copy[h] # Config!Unset => c # Config!Unset)
    BY <1>0, <2>2 DEF SettingsStates, Config!Overridden
  <2>4. st' = [st EXCEPT !.pc[h] = "validate", !.patch[h] = what, !.copy[h] = c]
    BY <1>0, <2>1 DEF SettingsStates
  <2>5. c = Config!Overridden(st.copy[h], IF what = "field" THEN Config!Patch(h) ELSE Config!Unset)
    OBVIOUS
  <2> HIDE DEF c
  <2>6. st' \in SettingsStates
    BY <1>0, <2>3, <2>4 DEF SettingsStates
  <2>7. \A n \in {"field", "env", "refused", "used", "phase", "value", "before", "expected", "overlapped", "blamed"} :
          st'[n] = st[n]
    BY <1>0, <2>4 DEF SettingsStates
  <2>8. \A g \in Handlers :
          /\ st'.pc[g] = IF g = h THEN "validate" ELSE st.pc[g]
          /\ st'.patch[g] = IF g = h THEN what ELSE st.patch[g]
          /\ st'.copy[g] = IF g = h THEN c ELSE st.copy[g]
    BY <1>0, <2>4 DEF SettingsStates
  <2>9. st.pc[h] = "override"
    BY <1>6 DEF Config!OverrideWith
  <2>10. QED
    BY <2>3, <2>5, <2>6, <2>7, <2>8, <2>9 DEF SettingsInv, Config!UsedIsValid, Config!AcceptedIsKept, Config!NotBlamedForOthers, Config!Running,
             NeverNil, Asked, Config!Copied, Config!Overridden
<1>7. ASSUME NEW h \in Handlers, Config!Refuse(h) PROVE SettingsInv'
  <2>1. st' \in SettingsStates
    BY <1>0, <1>7 DEF Config!Refuse, SettingsStates
  <2>2. \A n \in {"field", "env", "refused", "used", "phase", "value", "copy", "before", "patch", "expected", "overlapped"} :
          st'[n] = st[n]
    BY <1>0, <1>7 DEF Config!Refuse, SettingsStates
  <2>3. /\ \A g \in Handlers : st'.pc[g] = IF g = h THEN "done" ELSE st.pc[g]
        /\ st'.blamed => st.blamed \/ (st.patch[h] = "other" /\ st.before[h] # st.refused)
    BY <1>0, <1>7 DEF Config!Refuse, SettingsStates
  <2>4. st.pc[h] = "validate" /\ st.copy[h] = st.refused
    BY <1>7 DEF Config!Refuse, Config!Valid
  <2>5. st.patch[h] = "other" /\ st.before[h] # st.refused => st.field \in Config!Uncopied
    BY <2>4 DEF SettingsInv, Asked, Config!Copied, Config!Overridden
  <2>6. QED
    BY <2>1, <2>2, <2>3, <2>4, <2>5 DEF SettingsInv, Config!UsedIsValid, Config!AcceptedIsKept, Config!NotBlamedForOthers, Config!Running,
             NeverNil, Asked, Config!Copied, Config!Overridden
<1>8. ASSUME NEW h \in Handlers, Config!SetSettings(h) PROVE SettingsInv'
  <2>1. Config!UsedAfter(h) \in BOOLEAN /\ Config!Patch(h) \in Values
    BY <1>0 DEF Config!UsedAfter, Config!Patch, SettingsStates, Values
  <2>2. st' \in SettingsStates
    BY <1>0, <1>8, <2>1 DEF Config!SetSettings, SettingsStates
  <2>3. \A n \in {"field", "env", "refused", "phase", "copy", "before", "patch", "blamed"} : st'[n] = st[n]
    BY <1>0, <1>8 DEF Config!SetSettings, SettingsStates
  <2>4. \A g \in Handlers : st'.pc[g] = IF g = h THEN "done" ELSE st.pc[g]
    BY <1>0, <1>8 DEF Config!SetSettings, SettingsStates
  <2>5. /\ st'.value = st.copy[h] /\ st'.used = Config!UsedAfter(h)
        /\ ~st'.overlapped => ~st.overlapped /\ st.before[h] = st.value
        /\ st'.expected = IF st.patch[h] = "field" THEN Config!Patch(h) ELSE st.expected
    BY <1>0, <1>8 DEF Config!SetSettings, SettingsStates
  <2>6. st.pc[h] = "validate" /\ Config!Valid(st.copy[h], Config!UsedAfter(h))
    BY <1>8 DEF Config!SetSettings
  <2>7. Config!Patch(h) # Config!Unset
    BY DEF Config!Patch, Config!Unset
  <2>8. Config!UsedIsValid'
    BY <2>3, <2>5, <2>6 DEF Config!UsedIsValid, Config!Valid
  <2>9. Config!AcceptedIsKept'
    BY <2>3, <2>5, <2>6, <2>7 DEF SettingsInv, Config!AcceptedIsKept, Config!Running, Asked, Config!Copied, Config!Overridden
  <2>10. QED
    BY <2>2, <2>3, <2>4, <2>5, <2>6, <2>8, <2>9
       DEF SettingsInv, Config!NotBlamedForOthers, NeverNil, Asked, Config!Copied, Config!Overridden
<1>9. QED
  BY <1>1, <1>2, <1>3, <1>4, <1>5, <1>6, <1>7, <1>8 DEF Config!Next

LEMMA SettingsInvIsEnough == SettingsInv => Config!TypeOK /\ Config!SettingsAreKept
  BY DEF SettingsInv, SettingsStates, Config!TypeOK, Config!SettingsAreKept, Config!NothingUsedIsNil, Config!Running, NeverNil

LEMMA SettingsInvariance == ASSUME Config!SettingsConstants PROVE Config!Spec => []SettingsInv
<1>1. Config!Init => SettingsInv
  BY SettingsStart
<1>2. SettingsInv /\ [Config!Next]_st => SettingsInv'
  BY SettingsStep
<1>3. QED
  BY <1>1, <1>2, PTL DEF Config!Spec

-----------------------------------------------------------------------------
(* PIAPortForward.                                                           *)

PIAData == [port : PIAPorts \cup {0}, expires : Nat]
PIAStates ==
    [file : PIAData, cut : BOOLEAN,
     at : {"down", "stopped", "read", "find", "token", "signature", "open", "write", "bind", "returned", "keeping",
           "failed"},
     data : PIAData, cancelled : BOOLEAN, bound : PIAData, now : 0 .. PIATime, crashes : Nat, faults : Nat,
     saved : PIAData, busy : BOOLEAN]

(* The file is whole while data is at work that was read from it, or will be *)
(* written to it; data is what was saved until the server refuses that.      *)
PIAInv ==
    /\ pia \in PIAStates
    /\ pia.at \in {"find", "token", "signature", "open", "bind", "returned", "keeping"} => ~pia.cut
    /\ pia.at = "find" => pia.data = pia.saved /\ (PIA!Found(pia.data) => pia.file = pia.data)
    /\ pia.at \in {"bind", "returned", "keeping"} => pia.file = pia.data
    /\ pia.at \in {"token", "signature", "open", "write"} => ~PIA!Found(pia.saved) \/ pia.busy
    /\ pia.at \in {"bind", "returned"} /\ PIA!Found(pia.saved) /\ ~pia.busy => pia.data = pia.saved
    /\ PIA!AnnouncedPortIsBound /\ PIA!FailsForEverAfterCutOnly

LEMMA PIAStart == ASSUME PIA!PIAConstants, PIA!Init PROVE PIAInv
<1>1. PIA!NoData \in PIAData
  BY DEF PIA!NoData, PIA!Data, PIAData
<1>2. pia \in PIAStates
  BY <1>1 DEF PIA!Init, PIA!PIAConstants, PIAStates
<1>3. pia.at = "stopped" /\ ~pia.cut
  BY DEF PIA!Init
<1>4. QED
  BY <1>2, <1>3 DEF PIAInv, PIA!AnnouncedPortIsBound, PIA!FailsForEverAfterCutOnly

(* A request that fails, or a file that cannot be written, ends the call.    *)
LEMMA PIAFails ==
  ASSUME PIAInv, NEW s \in PIAStates, s.faults = pia.faults, s.crashes = pia.crashes, s.cut = pia.cut,
         pia.cut => pia.at = "write" \/ pia.crashes + pia.faults > 0,
         PIA!FileFails(s) \/ (PIA!Fails(s) /\ ~pia.cut)
  PROVE  PIAInv'
<1>1. pia \in PIAStates
  BY DEF PIAInv
<1>2. CASE pia' = [s EXCEPT !.at = "failed", !.faults = @ + 1]
  <2>1. pia' \in PIAStates
    <3>1. s.faults + 1 \in Nat
      BY DEF PIAStates
    <3>2. QED
      BY <1>2, <3>1 DEF PIAStates
  <2>2. pia'.at = "failed" /\ pia'.cut = s.cut /\ pia'.faults = s.faults + 1 /\ pia'.crashes = s.crashes
    BY <1>2 DEF PIAStates
  <2>3. pia'.crashes + pia'.faults > 0
    BY <1>1, <2>2 DEF PIAStates
  <2>4. QED
    BY <2>1, <2>2, <2>3 DEF PIAInv, PIA!AnnouncedPortIsBound, PIA!FailsForEverAfterCutOnly
<1>3. CASE ~pia.cut /\ pia' = [s EXCEPT !.at = "failed"]
  <2>1. pia' \in PIAStates
    BY <1>3 DEF PIAStates
  <2>2. pia'.at = "failed" /\ pia'.cut = s.cut
    BY <1>3 DEF PIAStates
  <2>3. QED
    BY <1>3, <2>1, <2>2 DEF PIAInv, PIA!AnnouncedPortIsBound, PIA!FailsForEverAfterCutOnly
<1>4. QED
  BY <1>2, <1>3 DEF PIA!FileFails, PIA!Fails

LEMMA PIAStep == ASSUME PIA!PIAConstants, PIAInv, [PIA!Next]_pia PROVE PIAInv'
<1> USE DEF PIA!PIAConstants
<1>0. pia \in PIAStates /\ PIA!NoData \in PIAData
  BY DEF PIAInv, PIA!NoData, PIA!Data, PIAData
<1>1. CASE UNCHANGED pia
  BY <1>1 DEF PIAInv, PIA!AnnouncedPortIsBound, PIA!FailsForEverAfterCutOnly, PIA!Found
<1>2. CASE PIA!Tick
  <2>1. pia' = [pia EXCEPT !.now = @ + 1] /\ pia.now < PIATime
    BY <1>0, <1>2 DEF PIAStates, PIA!Tick
  <2>2. pia' \in PIAStates
    BY <1>0, <2>1 DEF PIAStates, PIAData
  <2>3. /\ pia'.now = pia.now + 1
        /\ \A n \in {"file", "cut", "at", "data", "cancelled", "bound", "crashes", "faults", "saved", "busy"} : pia'[n] = pia[n]
    BY <1>0, <2>1 DEF PIAStates
  <2>4. QED
    BY <1>0, <2>1, <2>2, <2>3 DEF PIAInv, PIA!AnnouncedPortIsBound, PIA!FailsForEverAfterCutOnly, PIA!Found
<1>3. CASE PIA!Cancel
  <2>1. pia' = [pia EXCEPT !.cancelled = TRUE] /\ ~pia.cancelled
    BY <1>0, <1>3 DEF PIAStates, PIA!Cancel
  <2>2. pia' \in PIAStates
    BY <1>0, <2>1 DEF PIAStates, PIAData
  <2>3. /\ pia'.cancelled = TRUE
        /\ \A n \in {"file", "cut", "at", "data", "bound", "now", "crashes", "faults", "saved", "busy"} : pia'[n] = pia[n]
    BY <1>0, <2>1 DEF PIAStates
  <2>4. QED
    BY <1>0, <2>1, <2>2, <2>3 DEF PIAInv, PIA!AnnouncedPortIsBound, PIA!FailsForEverAfterCutOnly, PIA!Found
<1>4. CASE PIA!PortForward
  <2>1. pia' = [pia EXCEPT !.at = "read", !.cancelled = FALSE, !.busy = FALSE] /\ pia.at \in {"stopped", "failed"}
    BY <1>0, <1>4 DEF PIAStates, PIA!PortForward
  <2>2. pia' \in PIAStates
    BY <1>0, <2>1 DEF PIAStates, PIAData
  <2>3. /\ pia'.at = "read" /\ pia'.cancelled = FALSE /\ pia'.busy = FALSE
        /\ \A n \in {"file", "cut", "data", "bound", "now", "crashes", "faults", "saved"} : pia'[n] = pia[n]
    BY <1>0, <2>1 DEF PIAStates
  <2>4. QED
    BY <1>0, <2>1, <2>2, <2>3 DEF PIAInv, PIA!AnnouncedPortIsBound, PIA!FailsForEverAfterCutOnly
<1>5. CASE PIA!Read
  <2> DEFINE valid == IF PIA!Expired(pia.file) THEN PIA!NoData ELSE pia.file
  <2>1. valid \in PIAData /\ (PIA!Found(valid) => pia.file = valid)
    BY <1>0 DEF PIAStates, PIA!NoData, PIA!Data, PIA!Found
  <2>2. \/ ~pia.cut /\ pia' = [pia EXCEPT !.at = "find", !.data = valid, !.saved = valid]
        \/ pia.cut /\ pia' = [pia EXCEPT !.at = "failed"]
    BY <1>5 DEF PIA!Read, PIA!readPIAPortForwardData
  <2>3. pia.at = "read"
    BY <1>5 DEF PIA!Read
  <2> HIDE DEF valid
  <2>4. CASE ~pia.cut
    <3>1. pia' = [pia EXCEPT !.at = "find", !.data = valid, !.saved = valid]
      BY <1>0, <2>2, <2>4 DEF PIAStates
    <3>2. pia' \in PIAStates
      BY <1>0, <3>1, <2>1 DEF PIAStates, PIAData
    <3>3. /\ pia'.at = "find" /\ pia'.data = valid /\ pia'.saved = valid
          /\ \A n \in {"file", "cut", "cancelled", "bound", "now", "crashes", "faults", "busy"} : pia'[n] = pia[n]
      BY <1>0, <3>1 DEF PIAStates
    <3>4. QED
      BY <1>0, <2>1, <2>4, <3>1, <3>2, <3>3 DEF PIAInv, PIA!AnnouncedPortIsBound, PIA!FailsForEverAfterCutOnly
  <2>5. CASE pia.cut
    <3>1. pia' = [pia EXCEPT !.at = "failed"]
      BY <1>0, <2>2, <2>5 DEF PIAStates
    <3>2. pia' \in PIAStates
      BY <1>0, <3>1 DEF PIAStates, PIAData
    <3>3. /\ pia'.at = "failed"
          /\ \A n \in {"file", "cut", "data", "cancelled", "bound", "now", "crashes", "faults", "saved", "busy"} : pia'[n] = pia[n]
      BY <1>0, <3>1 DEF PIAStates
    <3>4. QED
      BY <1>0, <2>3, <2>5, <3>1, <3>2, <3>3 DEF PIAInv, PIA!AnnouncedPortIsBound, PIA!FailsForEverAfterCutOnly
  <2>6. QED
    BY <2>4, <2>5
<1>6. CASE PIA!findAPIIP
  <2>1. CASE pia' = [pia EXCEPT !.at = IF PIA!Found(pia.data) THEN "bind" ELSE "token"]
    <3>1. pia' = [pia EXCEPT !.at = IF PIA!Found(pia.data) THEN "bind" ELSE "token"] /\ pia.at = "find"
      BY <1>0, <1>6, <2>1 DEF PIAStates, PIA!findAPIIP
    <3>2. pia' \in PIAStates
      BY <1>0, <3>1 DEF PIAStates, PIAData
    <3>3. /\ pia'.at = IF PIA!Found(pia.data) THEN "bind" ELSE "token"
          /\ \A n \in {"file", "cut", "data", "cancelled", "bound", "now", "crashes", "faults", "saved", "busy"} : pia'[n] = pia[n]
      BY <1>0, <3>1 DEF PIAStates
    <3>4. QED
      BY <1>0, <2>1, <3>1, <3>2, <3>3 DEF PIAInv, PIA!AnnouncedPortIsBound, PIA!FailsForEverAfterCutOnly
  <2>2. CASE PIA!Fails(pia)
    BY <1>0, <2>2, <1>6, PIAFails DEF PIA!findAPIIP, PIAInv, PIA!FailsForEverAfterCutOnly
  <2>3. QED
    BY <1>6, <2>1, <2>2 DEF PIA!findAPIIP
<1>7. CASE PIA!fetchToken
  <2>1. CASE pia' = [pia EXCEPT !.at = "signature"]
    <3>1. pia' = [pia EXCEPT !.at = "signature"] /\ pia.at = "token"
      BY <1>0, <1>7, <2>1 DEF PIAStates, PIA!fetchToken
    <3>2. pia' \in PIAStates
      BY <1>0, <3>1 DEF PIAStates, PIAData
    <3>3. /\ pia'.at = "signature"
          /\ \A n \in {"file", "cut", "data", "cancelled", "bound", "now", "crashes", "faults", "saved", "busy"} : pia'[n] = pia[n]
      BY <1>0, <3>1 DEF PIAStates
    <3>4. QED
      BY <1>0, <2>1, <3>1, <3>2, <3>3 DEF PIAInv, PIA!AnnouncedPortIsBound, PIA!FailsForEverAfterCutOnly
  <2>2. CASE PIA!Fails(pia)
    BY <1>0, <2>2, <1>7, PIAFails DEF PIA!fetchToken, PIAInv, PIA!FailsForEverAfterCutOnly
  <2>3. QED
    BY <1>7, <2>1, <2>2 DEF PIA!fetchToken
<1>8. CASE PIA!fetchPortForwardData
  <2>1. CASE \E port \in PIAPorts : pia' = [pia EXCEPT !.at = "open", !.data = PIA!Data(port, pia.now + Validity)]
    <3>1. PICK port \in PIAPorts : pia' = [pia EXCEPT !.at = "open", !.data = PIA!Data(port, pia.now + Validity)]
      BY <2>1
    <3>2. PIA!Data(port, pia.now + Validity) \in PIAData
      BY <1>0 DEF PIA!Data, PIAData, PIAStates
    <3>3. pia' \in PIAStates
      BY <1>0, <3>1, <3>2 DEF PIAStates
    <3>4. /\ pia'.at = "open" /\ pia.at = "signature"
          /\ \A n \in {"file", "cut", "cancelled", "bound", "now", "crashes", "faults", "saved", "busy"} : pia'[n] = pia[n]
      BY <1>0, <1>8, <3>1 DEF PIA!fetchPortForwardData, PIAStates
    <3>5. QED
      BY <1>0, <3>3, <3>4 DEF PIAInv, PIA!AnnouncedPortIsBound, PIA!FailsForEverAfterCutOnly
  <2>2. CASE PIA!Fails(pia)
    BY <1>0, <2>2, <1>8, PIAFails DEF PIA!fetchPortForwardData, PIAInv, PIA!FailsForEverAfterCutOnly
  <2>3. QED
    BY <1>8, <2>1, <2>2 DEF PIA!fetchPortForwardData
<1>9. CASE PIA!Open
  <2>1. CASE pia' = [pia EXCEPT !.at = "write", !.cut = TRUE]
    <3>1. pia' = [pia EXCEPT !.at = "write", !.cut = TRUE] /\ pia.at = "open"
      BY <1>0, <1>9, <2>1 DEF PIAStates, PIA!Open, PIA!Truncate
    <3>2. pia' \in PIAStates
      BY <1>0, <3>1 DEF PIAStates, PIAData
    <3>3. /\ pia'.at = "write" /\ pia'.cut = TRUE
          /\ \A n \in {"file", "data", "cancelled", "bound", "now", "crashes", "faults", "saved", "busy"} : pia'[n] = pia[n]
      BY <1>0, <3>1 DEF PIAStates
    <3>4. QED
      BY <1>0, <2>1, <3>1, <3>2, <3>3 DEF PIAInv, PIA!AnnouncedPortIsBound, PIA!FailsForEverAfterCutOnly
  <2>2. CASE PIA!FileFails(pia)
    BY <1>0, <2>2, <1>9, PIAFails DEF PIAInv, PIA!FailsForEverAfterCutOnly
  <2>3. QED
    BY <1>9, <2>1, <2>2 DEF PIA!Open, PIA!Truncate
<1>10. CASE PIA!Write
  <2>1. CASE pia' = [pia EXCEPT !.at = "bind", !.cut = FALSE, !.file = pia.data]
    <3>1. pia' = [pia EXCEPT !.at = "bind", !.cut = FALSE, !.file = pia.data] /\ pia.at = "write"
      BY <1>0, <1>10, <2>1 DEF PIAStates, PIA!Write
    <3>2. pia' \in PIAStates
      BY <1>0, <3>1 DEF PIAStates, PIAData
    <3>3. /\ pia'.at = "bind" /\ pia'.cut = FALSE /\ pia'.file = pia.data
          /\ \A n \in {"data", "cancelled", "bound", "now", "crashes", "faults", "saved", "busy"} : pia'[n] = pia[n]
      BY <1>0, <3>1 DEF PIAStates
    <3>4. QED
      BY <1>0, <2>1, <3>1, <3>2, <3>3 DEF PIAInv, PIA!AnnouncedPortIsBound, PIA!FailsForEverAfterCutOnly
  <2>2. CASE PIA!FileFails(pia)
    BY <1>0, <2>2, <1>10, PIAFails DEF PIAInv, PIA!FailsForEverAfterCutOnly
  <2>3. QED
    BY <1>10, <2>1, <2>2 DEF PIA!Write
<1>11. CASE PIA!Bind
  <2>0. pia.at = "bind"
    BY <1>11 DEF PIA!Bind
  <2>1. CASE pia.cancelled /\ pia' = [pia EXCEPT !.at = "returned"]
    <3>1. pia' = [pia EXCEPT !.at = "returned"] /\ pia.cancelled
      BY <1>0, <2>0, <2>1 DEF PIAStates
    <3>2. pia' \in PIAStates
      BY <1>0, <3>1 DEF PIAStates, PIAData
    <3>3. /\ pia'.at = "returned"
          /\ \A n \in {"file", "cut", "data", "cancelled", "bound", "now", "crashes", "faults", "saved", "busy"} : pia'[n] = pia[n]
      BY <1>0, <3>1 DEF PIAStates
    <3>4. QED
      BY <1>0, <2>0, <2>1, <3>1, <3>2, <3>3 DEF PIAInv, PIA!AnnouncedPortIsBound, PIA!FailsForEverAfterCutOnly
  <2>2. CASE pia' = [pia EXCEPT !.at = "returned", !.bound = pia.data]
    <3>1. pia' = [pia EXCEPT !.at = "returned", !.bound = pia.data]
      BY <1>0, <2>0, <2>2 DEF PIAStates
    <3>2. pia' \in PIAStates
      BY <1>0, <3>1 DEF PIAStates, PIAData
    <3>3. /\ pia'.at = "returned" /\ pia'.bound = pia.data
          /\ \A n \in {"file", "cut", "data", "cancelled", "now", "crashes", "faults", "saved", "busy"} : pia'[n] = pia[n]
      BY <1>0, <3>1 DEF PIAStates
    <3>4. QED
      BY <1>0, <2>0, <2>2, <3>1, <3>2, <3>3 DEF PIAInv, PIA!AnnouncedPortIsBound, PIA!FailsForEverAfterCutOnly
  <2>3. CASE pia' = [pia EXCEPT !.at = "token", !.busy = TRUE, !.faults = @ + 1]
    <3>1. pia' = [pia EXCEPT !.at = "token", !.busy = TRUE, !.faults = @ + 1]
      BY <1>0, <2>0, <2>3 DEF PIAStates
    <3>2. pia' \in PIAStates
      <4>1. pia.faults + 1 \in Nat
        BY <1>0 DEF PIAStates
      <4>2. QED
        BY <1>0, <3>1, <4>1 DEF PIAStates
    <3>3. /\ pia'.at = "token" /\ pia'.busy = TRUE /\ pia'.faults = pia.faults + 1
          /\ \A n \in {"file", "cut", "data", "cancelled", "bound", "now", "crashes", "saved"} : pia'[n] = pia[n]
      BY <1>0, <3>1 DEF PIAStates
    <3>4. QED
      BY <1>0, <2>0, <2>3, <3>1, <3>2, <3>3 DEF PIAInv, PIA!AnnouncedPortIsBound, PIA!FailsForEverAfterCutOnly
  <2>4. CASE PIA!Fails(pia)
    BY <1>0, <2>4, <2>0, PIAFails DEF PIAInv, PIA!FailsForEverAfterCutOnly
  <2>5. QED
    BY <1>11, <2>1, <2>2, <2>3, <2>4 DEF PIA!Bind
<1>12. CASE PIA!Keep
  <2>1. pia' = [pia EXCEPT !.at = "keeping", !.data = pia.file] /\ pia.at = "returned"
    BY <1>12 DEF PIA!Keep, PIA!readPIAPortForwardData
  <2>2. pia' \in PIAStates
    BY <1>0, <2>1 DEF PIAStates
  <2>3. /\ pia'.at = "keeping" /\ pia'.data = pia.file
        /\ \A n \in {"file", "cut", "cancelled", "bound", "now", "crashes", "faults", "saved", "busy"} : pia'[n] = pia[n]
    BY <1>0, <2>1 DEF PIAStates
  <2>4. QED
    BY <1>0, <2>1, <2>2, <2>3 DEF PIAInv, PIA!AnnouncedPortIsBound, PIA!FailsForEverAfterCutOnly
<1>13. CASE PIA!KeepAlive
  <2>1. CASE pia' = [pia EXCEPT !.bound = pia.data]
    <3>1. pia' = [pia EXCEPT !.bound = pia.data] /\ pia.at = "keeping"
      BY <1>0, <1>13, <2>1 DEF PIAStates, PIA!KeepAlive
    <3>2. pia' \in PIAStates
      BY <1>0, <3>1 DEF PIAStates, PIAData
    <3>3. /\ pia'.bound = pia.data
          /\ \A n \in {"file", "cut", "at", "data", "cancelled", "now", "crashes", "faults", "saved", "busy"} : pia'[n] = pia[n]
      BY <1>0, <3>1 DEF PIAStates
    <3>4. QED
      BY <1>0, <2>1, <3>1, <3>2, <3>3 DEF PIAInv, PIA!AnnouncedPortIsBound, PIA!FailsForEverAfterCutOnly
  <2>2. CASE PIA!Fails([pia EXCEPT !.bound = PIA!NoData])
    <3> DEFINE s == [pia EXCEPT !.bound = PIA!NoData]
    <3>1. s \in PIAStates /\ s.faults = pia.faults /\ s.crashes = pia.crashes /\ s.cut = pia.cut
      BY <1>0 DEF PIAStates
    <3>2. ~pia.cut
      BY <1>13 DEF PIA!KeepAlive, PIAInv
    <3> HIDE DEF s
    <3>3. QED
      BY <2>2, <3>1, <3>2, PIAFails DEF s
  <2>3. QED
    BY <1>13, <2>1, <2>2 DEF PIA!KeepAlive
<1>14. CASE PIA!Expire
  <2>1. pia' = [pia EXCEPT !.at = "failed", !.bound = PIA!NoData] /\ pia.at = "keeping"
    BY <1>0, <1>14 DEF PIAStates, PIA!Expire
  <2>2. pia' \in PIAStates
    BY <1>0, <2>1 DEF PIAStates, PIAData
  <2>3. /\ pia'.at = "failed" /\ pia'.bound = PIA!NoData
        /\ \A n \in {"file", "cut", "data", "cancelled", "now", "crashes", "faults", "saved", "busy"} : pia'[n] = pia[n]
    BY <1>0, <2>1 DEF PIAStates
  <2>4. QED
    BY <1>0, <2>1, <2>2, <2>3 DEF PIAInv, PIA!AnnouncedPortIsBound, PIA!FailsForEverAfterCutOnly
<1>15. CASE PIA!KeepStopped
  <2>1. pia' = [pia EXCEPT !.at = "stopped", !.bound = PIA!NoData] /\ pia.at = "keeping"
    BY <1>0, <1>15 DEF PIAStates, PIA!KeepStopped
  <2>2. pia' \in PIAStates
    BY <1>0, <2>1 DEF PIAStates, PIAData
  <2>3. /\ pia'.at = "stopped" /\ pia'.bound = PIA!NoData
        /\ \A n \in {"file", "cut", "data", "cancelled", "now", "crashes", "faults", "saved", "busy"} : pia'[n] = pia[n]
    BY <1>0, <2>1 DEF PIAStates
  <2>4. QED
    BY <1>0, <2>1, <2>2, <2>3 DEF PIAInv, PIA!AnnouncedPortIsBound, PIA!FailsForEverAfterCutOnly
<1>16. CASE PIA!Crash
  <2>1. pia' = [pia EXCEPT !.at = "down", !.crashes = @ + 1, !.bound = PIA!NoData, !.data = PIA!NoData] /\ pia.at # "down"
    BY <1>0, <1>16 DEF PIAStates, PIA!Crash
  <2>2. pia' \in PIAStates
    <3>1. pia.crashes + 1 \in Nat
      BY <1>0 DEF PIAStates
    <3>2. QED
      BY <1>0, <2>1, <3>1 DEF PIAStates
  <2>3. /\ pia'.at = "down" /\ pia'.crashes = pia.crashes + 1 /\ pia'.bound = PIA!NoData /\ pia'.data = PIA!NoData
        /\ \A n \in {"file", "cut", "cancelled", "now", "faults", "saved", "busy"} : pia'[n] = pia[n]
    BY <1>0, <2>1 DEF PIAStates
  <2>4. pia'.crashes + pia'.faults > 0
    BY <1>0, <2>3 DEF PIAStates
  <2>5. QED
    BY <1>0, <2>1, <2>2, <2>3, <2>4 DEF PIAInv, PIA!AnnouncedPortIsBound, PIA!FailsForEverAfterCutOnly
<1>17. CASE PIA!Restart
  <2>1. pia' = [pia EXCEPT !.at = "stopped"] /\ pia.at = "down"
    BY <1>0, <1>17 DEF PIAStates, PIA!Restart
  <2>2. pia' \in PIAStates
    BY <1>0, <2>1 DEF PIAStates, PIAData
  <2>3. /\ pia'.at = "stopped"
        /\ \A n \in {"file", "cut", "data", "cancelled", "bound", "now", "crashes", "faults", "saved", "busy"} : pia'[n] = pia[n]
    BY <1>0, <2>1 DEF PIAStates
  <2>4. QED
    BY <1>0, <2>1, <2>2, <2>3 DEF PIAInv, PIA!AnnouncedPortIsBound, PIA!FailsForEverAfterCutOnly
<1>18. QED
  BY <1>1, <1>2, <1>3, <1>4, <1>5, <1>6, <1>7, <1>8, <1>9, <1>10, <1>11, <1>12, <1>13, <1>14, <1>15, <1>16, <1>17 DEF PIA!Next

LEMMA PIAInvIsEnough ==
  PIAInv => PIA!TypeOK /\ PIA!AnnouncedPortIsBound /\ PIA!PortIsStable /\ PIA!FailsForEverAfterCutOnly
  BY DEF PIAInv, PIAStates, PIAData, PIA!TypeOK, PIA!PortIsStable

LEMMA PIAInvariance == ASSUME PIA!PIAConstants PROVE PIA!Spec => []PIAInv
<1>1. PIA!Init => PIAInv
  BY PIAStart
<1>2. PIAInv /\ [PIA!Next]_pia => PIAInv'
  BY PIAStep
<1>3. QED
  BY <1>1, <1>2, PTL DEF PIA!Spec

-----------------------------------------------------------------------------
(* ProtonPortForward.                                                        *)

PortMaps == UNION {[S -> Externals] : S \in SUBSET Nat}
Gateways == [Proton!Protocols -> [Externals -> [internal : Nat, until : Nat]]]
PMPStates ==
    [count : PortsCounts, at : {"adding", "waiting", "refreshing", "failed"}, ports : PortMaps, first : Nat,
     internal : Nat, external : Nat, protocol : Proton!Protocols, udp : Nat, todo : SUBSET Nat, tries : 0 .. Tries,
     losses : Nat, thefts : Nat, now : Nat, due : Nat, since : Nat, took : Nat, gateway : Gateways]

(* A port of the gateway is mapped for as long as this round began less than *)
(* the lifetime of a mapping ago.                                            *)
MappedTo(s, t, e, p) ==
    s.gateway[t][e].internal = p /\ s.gateway[t][e].until >= s.since + Proton!Lifetime
Young(s) == s.now <= s.since + Proton!Lifetime
InternalFor(s, e) == IF s.internal = 0 THEN e ELSE s.internal

RoundIsMapped(s) ==
    Young(s) => \A p \in DOMAIN s.ports \ s.todo, t \in Proton!Protocols : MappedTo(s, t, s.ports[p], p)
UDPIsMapped(s) == s.udp \in Externals /\ (Young(s) => MappedTo(s, "udp", s.udp, InternalFor(s, s.udp)))

(* The internal ports after the first that are asked for, up to the last.    *)
InternalUpTo(s, last) == Proton!StartMinusOne(s) + 1 .. last
LastInternal(s) == Proton!StartMinusOne(s) + s.count - 1
Distinct(ports) == \A p, q \in DOMAIN ports : ports[p] = ports[q] => p = q

(* Where a request stands between two actions, as it is asked for and while  *)
(* its answers are dealt with.                                               *)
FirstIsAsked(s) == s.internal = 0 /\ DOMAIN s.ports = {} /\ s.external = 1
OtherIsAsked(s) ==
    /\ s.internal \in InternalUpTo(s, LastInternal(s)) /\ s.external = 0 /\ s.first \in Externals
    /\ DOMAIN s.ports = {s.first} \cup InternalUpTo(s, s.internal - 1)
AllAreAdded(s) == s.first \in Externals /\ DOMAIN s.ports = {s.first} \cup InternalUpTo(s, LastInternal(s))

Placed(s) ==
    /\ s.at = "adding" => s.todo = {} /\ (FirstIsAsked(s) \/ OtherIsAsked(s))
    /\ s.at = "refreshing" =>
         AllAreAdded(s) /\ s.todo \subseteq DOMAIN s.ports /\ s.internal \in s.todo /\ s.external = s.ports[s.internal]
    /\ s.at = "waiting" => AllAreAdded(s) /\ s.todo = {}
    /\ s.at # "waiting" /\ s.at # "failed" => s.tries < Tries
    /\ s.at = "failed" => s.todo \subseteq DOMAIN s.ports

PMPInv(s) ==
    /\ s \in PMPStates /\ s.since <= s.now /\ Placed(s)
    /\ s.at # "failed" => RoundIsMapped(s)
    /\ s.at \in {"adding", "refreshing"} /\ s.protocol = "tcp" => UDPIsMapped(s)
    /\ s.at = "waiting" =>
         s.due = s.since + s.took + Proton!RefreshTimeout /\ s.now <= s.due
         /\ (s.took <= Proton!Lifetime => Distinct(s.ports))

LEMMA PMPStart == ASSUME Proton!ProtonConstants, Proton!Init PROVE PMPInv(pmp)
<1>1. PICK count \in PortsCounts :
        pmp = [count |-> count, at |-> "adding", ports |-> [p \in {} |-> 0], first |-> 0, internal |-> 0, external |-> 1,
               protocol |-> "udp", udp |-> 0, todo |-> {}, tries |-> 0, losses |-> 0, thefts |-> 0, now |-> 0,
               due |-> 0, since |-> 0, took |-> 0,
               gateway |-> [t \in Proton!Protocols |-> [e \in Externals |-> Proton!Unmapped]]]
  BY DEF Proton!Init
<1>2. [p \in {} |-> 0] \in PortMaps
  <2>1. [p \in {} |-> 0] \in [{} -> Externals] /\ {} \in SUBSET Nat
    OBVIOUS
  <2>2. QED
    BY <2>1 DEF PortMaps
<1>3. [t \in Proton!Protocols |-> [e \in Externals |-> Proton!Unmapped]] \in Gateways
  BY DEF Gateways, Proton!Unmapped, Proton!Mapping
<1>4. pmp \in PMPStates
  BY <1>1, <1>2, <1>3 DEF PMPStates, Proton!Protocols, Proton!ProtonConstants
<1>5. /\ pmp.at = "adding" /\ DOMAIN pmp.ports = {} /\ pmp.internal = 0 /\ pmp.external = 1 /\ pmp.todo = {}
      /\ pmp.protocol = "udp" /\ pmp.now = 0 /\ pmp.since = 0 /\ pmp.tries = 0
  BY <1>1
<1>6. Tries \in Nat \ {0}
  BY DEF Proton!ProtonConstants
<1>7. QED
  BY <1>4, <1>5, <1>6 DEF PMPInv, Placed, FirstIsAsked, RoundIsMapped

LEMMA PortsAreExternal ==
  ASSUME NEW s \in PMPStates
  PROVE  DOMAIN s.ports \subseteq Nat /\ s.ports \in [DOMAIN s.ports -> Externals]
<1>1. s.ports \in PortMaps
  BY DEF PMPStates
<1>2. PICK S \in SUBSET Nat : s.ports \in [S -> Externals]
  BY <1>1 DEF PortMaps
<1>3. QED
  BY <1>2

(* What the gateway gives is free, or was mapped to the port asked for.      *)
LEMMA AnswersAreMineOrFree ==
  ASSUME NEW t, NEW i, NEW x, NEW e \in Proton!Answers(t, i, x)
  PROVE  e \in Proton!Free(t) \/ (e \in Externals /\ i # 0 /\ pmp.gateway[t][e].internal = i)
  BY DEF Proton!Answers

LEMMA MappedIsNotFree ==
  ASSUME PMPInv(pmp), Young(pmp), NEW t \in Proton!Protocols, NEW e, NEW p, MappedTo(pmp, t, e, p)
  PROVE  e \notin Proton!Free(t)
<1>1. SUFFICES ASSUME e \in Proton!Free(t) PROVE FALSE
  OBVIOUS
<1>2. e \in Externals /\ (pmp.gateway[t][e] = Proton!Unmapped \/ ~Proton!Live(pmp.gateway[t][e]))
  BY <1>1 DEF Proton!Free
<1>3. pmp.gateway[t][e].until \in Nat /\ pmp.now \in Nat /\ pmp.since \in Nat
  BY <1>2 DEF PMPInv, PMPStates, Gateways
<1>4. pmp.gateway[t][e].until >= pmp.since + 4 /\ pmp.now <= pmp.since + 4
  BY DEF MappedTo, Young, Proton!Lifetime
<1>5. pmp.gateway[t][e].until > 0 /\ pmp.gateway[t][e].until >= pmp.now
  BY <1>3, <1>4
<1>6. pmp.gateway[t][e] # Proton!Unmapped
  BY <1>5 DEF Proton!Unmapped, Proton!Mapping
<1>7. QED
  BY <1>2, <1>5, <1>6 DEF Proton!Live

(* A mapping that is given or renewed takes none of this round away.         *)
LEMMA GivenKeeps ==
  ASSUME PMPInv(pmp), Proton!Asking, NEW e \in Proton!Answers(pmp.protocol, pmp.internal, pmp.external),
         Proton!ProtonConstants, NEW g, g = Proton!Given(pmp, e)
  PROVE  /\ g \in PMPStates /\ e \in Externals
         /\ \A n \in {"count", "at", "ports", "first", "internal", "external", "protocol", "udp", "todo", "tries",
                       "losses", "thefts", "now", "due", "since", "took"} : g[n] = pmp[n]
         /\ RoundIsMapped(g) /\ (pmp.protocol = "tcp" => UDPIsMapped(g))
         /\ MappedTo(g, pmp.protocol, e, InternalFor(pmp, e))
<1>0. pmp \in PMPStates /\ pmp.since <= pmp.now /\ Externals \subseteq Nat
  BY DEF PMPInv, Proton!ProtonConstants
<1>1. e \in Proton!Free(pmp.protocol) \/ (e \in Externals /\ pmp.internal # 0 /\ pmp.gateway[pmp.protocol][e].internal = pmp.internal)
  BY AnswersAreMineOrFree
<1>2. e \in Externals
  BY <1>1 DEF Proton!Free
<1> DEFINE m == [internal |-> InternalFor(pmp, e), until |-> pmp.now + 4]
<1>3. g = [pmp EXCEPT !.gateway[pmp.protocol][e] = m]
  BY DEF Proton!Given, Proton!Mapping, Proton!Lifetime, InternalFor
<1>4. m \in [internal : Nat, until : Nat] /\ m.internal = InternalFor(pmp, e) /\ m.until = pmp.now + 4
  BY <1>0, <1>2 DEF PMPStates, InternalFor
<1> HIDE DEF m
<1>5. g \in PMPStates
  <2>1. [pmp.gateway EXCEPT ![pmp.protocol][e] = m] \in Gateways
    BY <1>0, <1>2, <1>4 DEF PMPStates, Gateways
  <2>2. g = [pmp EXCEPT !.gateway = [pmp.gateway EXCEPT ![pmp.protocol][e] = m]]
    BY <1>0, <1>3 DEF PMPStates
  <2>3. QED
    BY <1>0, <2>1, <2>2 DEF PMPStates
<1>6. \A n \in {"count", "at", "ports", "first", "internal", "external", "protocol", "udp", "todo", "tries",
                "losses", "thefts", "now", "due", "since", "took"} : g[n] = pmp[n]
  BY <1>0, <1>3 DEF PMPStates
<1>7. \A t \in Proton!Protocols, x \in Externals :
        g.gateway[t][x] = IF t = pmp.protocol /\ x = e THEN m ELSE pmp.gateway[t][x]
  BY <1>0, <1>3 DEF PMPStates, Gateways
<1>8. pmp.now \in Nat /\ pmp.since \in Nat /\ pmp.protocol \in Proton!Protocols /\ pmp.now + 4 >= pmp.since + 4
  BY <1>0 DEF PMPStates
<1>9. MappedTo(g, pmp.protocol, e, InternalFor(pmp, e))
  BY <1>2, <1>4, <1>6, <1>7, <1>8 DEF MappedTo, Proton!Lifetime
<1>10. ASSUME Young(pmp), NEW t \in Proton!Protocols, NEW x \in Externals, NEW p, MappedTo(pmp, t, x, p)
       PROVE  MappedTo(g, t, x, p)
  <2>1. CASE t = pmp.protocol /\ x = e
    <3>1. p = pmp.internal /\ pmp.internal # 0
      BY <1>1, <1>10, <2>1, MappedIsNotFree DEF MappedTo
    <3>2. QED
      BY <1>9, <2>1, <3>1 DEF InternalFor
  <2>2. CASE ~(t = pmp.protocol /\ x = e)
    BY <1>6, <1>7, <1>10, <2>2 DEF MappedTo
  <2>3. QED
    BY <2>1, <2>2
<1>11. Young(g) = Young(pmp)
  BY <1>6 DEF Young
<1>12. RoundIsMapped(g)
  <2>1. SUFFICES ASSUME Young(pmp), NEW p \in DOMAIN pmp.ports \ pmp.todo, NEW t \in Proton!Protocols
                 PROVE  MappedTo(g, t, pmp.ports[p], p)
    BY <1>6, <1>11 DEF RoundIsMapped
  <2>2. pmp.ports[p] \in Externals
    BY <1>0, PortsAreExternal
  <2>3. MappedTo(pmp, t, pmp.ports[p], p)
    BY <2>1 DEF PMPInv, RoundIsMapped, Proton!Asking
  <2>4. QED
    BY <1>10, <2>1, <2>2, <2>3
<1>13. pmp.protocol = "tcp" => UDPIsMapped(g)
  <2>1. SUFFICES ASSUME pmp.protocol = "tcp" PROVE UDPIsMapped(g)
    OBVIOUS
  <2>2. pmp.udp \in Externals /\ (Young(pmp) => MappedTo(pmp, "udp", pmp.udp, InternalFor(pmp, pmp.udp)))
    BY <2>1 DEF PMPInv, UDPIsMapped, Proton!Asking
  <2>3. Young(pmp) => MappedTo(g, "udp", pmp.udp, InternalFor(pmp, pmp.udp))
    BY <1>10, <2>2 DEF Proton!Protocols
  <2>4. QED
    BY <1>6, <1>11, <2>2, <2>3 DEF UDPIsMapped, InternalFor
<1>14. QED
  BY <1>2, <1>5, <1>6, <1>9, <1>12, <1>13

-----------------------------------------------------------------------------
(* A round that ends leaves all ports mapped, if it was short enough.        *)
LEMMA RoundEnds ==
  ASSUME NEW s \in PMPStates, s.since <= s.now, AllAreAdded(s), s.todo = {}, RoundIsMapped(s),
         NEW w, w = Proton!Wait(s)
  PROVE  PMPInv(w)
<1>1. s.now \in Nat /\ s.since \in Nat /\ s.now - s.since \in Nat /\ s.now + 3 \in Nat
  BY DEF PMPStates
<1>2. w = [s EXCEPT !.at = "waiting", !.due = s.now + 3, !.took = s.now - s.since]
  BY DEF Proton!Wait, Proton!Due, Proton!RefreshTimeout
<1>3. w \in PMPStates
  BY <1>1, <1>2, ZenonT(30) DEF PMPStates
<1>4. /\ \A n \in {"count", "ports", "first", "internal", "external", "protocol", "udp", "todo", "tries",
                   "losses", "thefts", "now", "since", "gateway"} : w[n] = s[n]
      /\ w.at = "waiting" /\ w.due = s.now + 3 /\ w.took = s.now - s.since
  BY <1>2 DEF PMPStates
<1>5. RoundIsMapped(w)
  BY <1>4 DEF RoundIsMapped, MappedTo, Young
<1>6. Placed(w)
  BY <1>4 DEF Placed, AllAreAdded, InternalUpTo, LastInternal, Proton!StartMinusOne
<1>7. w.due = w.since + w.took + 3 /\ w.now <= w.due
  BY <1>1, <1>4
<1>8. ASSUME w.took <= 4 PROVE Distinct(w.ports)
  <2>1. Young(s)
    BY <1>1, <1>4, <1>8 DEF Young, Proton!Lifetime
  <2>2. \A p \in DOMAIN s.ports : s.gateway["udp"][s.ports[p]].internal = p
    BY <2>1 DEF RoundIsMapped, MappedTo, Proton!Protocols
  <2>3. QED
    BY <1>4, <2>2 DEF Distinct
<1>9. QED
  BY <1>1, <1>3, <1>4, <1>5, <1>6, <1>7, <1>8 DEF PMPInv, Proton!Lifetime, Proton!RefreshTimeout

(* A round goes on with a request that is placed right.                      *)
LEMMA AskIsTyped ==
  ASSUME Proton!ProtonConstants, NEW s \in PMPStates, NEW i \in Nat, NEW x \in Nat, NEW a, a = Proton!Ask(s, i, x)
  PROVE  /\ a \in PMPStates
         /\ \A n \in {"count", "at", "ports", "first", "todo", "losses", "thefts", "now", "since", "due", "took",
                       "gateway"} : a[n] = s[n]
         /\ a.internal = i /\ a.external = x /\ a.protocol = "udp" /\ a.tries = 0
<1>1. a = [s EXCEPT !.internal = i, !.external = x, !.protocol = "udp", !.udp = 0, !.tries = 0]
  BY DEF Proton!Ask
<1>2. 0 \in 0 .. Tries /\ 0 \in Nat /\ "udp" \in Proton!Protocols
  BY DEF Proton!ProtonConstants, Proton!Protocols
<1>3. a \in PMPStates
  BY <1>1, <1>2, ZenonT(30) DEF PMPStates
<1>4. QED
  BY <1>1, <1>3 DEF PMPStates

LEMMA RoundGoesOn ==
  ASSUME Proton!ProtonConstants, NEW s \in PMPStates, s.since <= s.now, RoundIsMapped(s),
         s.at \in {"adding", "refreshing"},
         NEW i \in Nat, NEW x \in Nat, NEW a, a = Proton!Ask(s, i, x), Placed(a)
  PROVE  PMPInv(a)
<1>1. /\ a \in PMPStates
      /\ \A n \in {"count", "at", "ports", "first", "todo", "losses", "thefts", "now", "since", "due", "took",
                    "gateway"} : a[n] = s[n]
      /\ a.protocol = "udp"
  BY AskIsTyped
<1>2. RoundIsMapped(a)
  BY <1>1 DEF RoundIsMapped, MappedTo, Young
<1>3. QED
  BY <1>1, <1>2 DEF PMPInv

LEMMA CountIsPositive == ASSUME Proton!ProtonConstants, NEW s \in PMPStates PROVE s.count \in Nat \ {0}
<1>1. s.count \in PortsCounts
  BY DEF PMPStates
<1>2. QED
  BY <1>1 DEF Proton!ProtonConstants

LEMMA StartIsPositive == ASSUME Proton!ProtonConstants, NEW s PROVE Proton!StartMinusOne(s) \in Nat \ {0}
  BY DEF Proton!StartMinusOne, Proton!ProtonConstants

LEMMA AddsNext ==
  ASSUME Proton!ProtonConstants, NEW s \in PMPStates, s.at = "adding", s.since <= s.now, RoundIsMapped(s),
         s.todo = {}, s.first \in Externals, NEW i \in 1 .. s.count,
         DOMAIN s.ports = {s.first} \cup InternalUpTo(s, Proton!StartMinusOne(s) + i - 1),
         NEW a, a = Proton!AddNext(s, i)
  PROVE  PMPInv(a)
<1> DEFINE start == Proton!StartMinusOne(s)
<1>1. s.count \in Nat \ {0} /\ i \in Nat /\ Tries \in Nat \ {0}
  BY CountIsPositive DEF Proton!ProtonConstants
<1>2. start \in Nat \ {0} /\ start + i \in Nat
  BY <1>1, StartIsPositive
<1>3. start = Proton!StartMinusOne(s)
  OBVIOUS
<1> HIDE DEF start
<1>4. CASE i < s.count
  <2>1. a = Proton!Ask(s, start + i, 0)
    BY <1>3, <1>4 DEF Proton!AddNext
  <2>2. /\ \A n \in {"count", "at", "ports", "first", "todo", "losses", "thefts", "now", "since", "due", "took",
                      "gateway"} : a[n] = s[n]
        /\ a.internal = start + i /\ a.external = 0 /\ a.tries = 0
    BY <2>1 DEF Proton!Ask, PMPStates
  <2>5. Proton!StartMinusOne(a) = start
    BY <1>3, <2>2 DEF Proton!StartMinusOne
  <2>6. start + i \in start + 1 .. start + s.count - 1 /\ start + i - 1 = (start + i) - 1
    BY <1>1, <1>2, <1>4
  <2>7. OtherIsAsked(a)
    BY <1>3, <2>2, <2>5, <2>6 DEF OtherIsAsked, InternalUpTo, LastInternal
  <2>8. Placed(a)
    BY <1>1, <2>2, <2>7 DEF Placed
  <2>9. QED
    BY <1>2, <2>1, <2>8, RoundGoesOn
<1>5. CASE ~(i < s.count)
  <2>1. a = Proton!Wait(s) /\ i = s.count
    BY <1>1, <1>5 DEF Proton!AddNext
  <2>2. AllAreAdded(s)
    BY <1>3, <2>1 DEF AllAreAdded, LastInternal
  <2>3. QED
    BY <2>1, <2>2, RoundEnds
<1>6. QED
  BY <1>4, <1>5

LEMMA RefreshesNext ==
  ASSUME Proton!ProtonConstants, NEW s \in PMPStates, s.at = "refreshing", s.since <= s.now, RoundIsMapped(s),
         AllAreAdded(s), s.todo \subseteq DOMAIN s.ports, NEW r \in Proton!RefreshNext(s)
  PROVE  PMPInv(r)
<1>1. CASE s.todo = {}
  BY <1>1, RoundEnds DEF Proton!RefreshNext
<1>2. CASE s.todo # {}
  <2>1. PICK p \in s.todo : r = Proton!Ask(s, p, s.ports[p])
    BY <1>2 DEF Proton!RefreshNext
  <2>2. p \in Nat /\ s.ports[p] \in Externals /\ Externals \subseteq Nat /\ Tries \in Nat \ {0}
    BY PortsAreExternal DEF Proton!ProtonConstants
  <2>3. /\ \A n \in {"count", "at", "ports", "first", "todo", "losses", "thefts", "now", "since", "due", "took",
                      "gateway"} : r[n] = s[n]
        /\ r.internal = p /\ r.external = s.ports[p] /\ r.tries = 0
    BY <2>1 DEF Proton!Ask, PMPStates
  <2>6. Placed(r)
    BY <2>2, <2>3 DEF Placed, AllAreAdded, InternalUpTo, LastInternal, Proton!StartMinusOne
  <2>7. QED
    BY <2>1, <2>2, <2>6, RoundGoesOn
<1>3. QED
  BY <1>1, <1>2

(* Both protocols have given the same port: it is added, or was refreshed.   *)
LEMMA RequestConcludes ==
  ASSUME Proton!ProtonConstants, NEW s \in PMPStates, s.at \in {"adding", "refreshing"}, s.since <= s.now,
         Placed(s), RoundIsMapped(s), NEW e \in Externals, s.at = "refreshing" => s.external = e,
         \A t \in Proton!Protocols : Young(s) => MappedTo(s, t, e, InternalFor(s, e)),
         NEW r \in Proton!Concluded(s, e)
  PROVE  PMPInv(r)
<1>0. Externals \subseteq Nat /\ e \in Nat
  BY DEF Proton!ProtonConstants
<1>1. CASE s.at = "refreshing"
  <2> DEFINE q == [s EXCEPT !.todo = @ \ {s.internal}]
  <2>1. r \in Proton!RefreshNext(q)
    BY <1>1 DEF Proton!Concluded, Proton!Refreshed
  <2>2. q \in PMPStates
    BY DEF PMPStates
  <2>3. /\ q.todo = s.todo \ {s.internal}
        /\ \A n \in {"count", "at", "ports", "first", "now", "since", "gateway"} : q[n] = s[n]
    BY DEF PMPStates
  <2> HIDE DEF q
  <2>4. AllAreAdded(s) /\ s.todo \subseteq DOMAIN s.ports /\ s.internal \in s.todo /\ e = s.ports[s.internal]
    BY <1>1 DEF Placed
  <2>5. AllAreAdded(q)
    BY <2>3, <2>4 DEF AllAreAdded, InternalUpTo, LastInternal, Proton!StartMinusOne
  <2>6. InternalFor(s, e) = s.internal
    <3>1. s.internal # 0
      <4>1. s.first \in Externals /\ s.internal \in {s.first} \cup InternalUpTo(s, LastInternal(s))
        BY <2>4 DEF AllAreAdded
      <4>2. Proton!StartMinusOne(s) \in Nat
        BY StartIsPositive
      <4>3. s.internal \in InternalUpTo(s, LastInternal(s)) => s.internal # 0
        BY <4>2 DEF InternalUpTo
      <4>4. s.first # 0
        BY <4>1 DEF Proton!ProtonConstants
      <4>5. QED
        BY <4>1, <4>3, <4>4
    <3>2. QED
      BY <3>1 DEF InternalFor
  <2>7. RoundIsMapped(q)
    BY <2>3, <2>4, <2>6 DEF RoundIsMapped, MappedTo, Young
  <2>8. QED
    BY <1>1, <2>1, <2>2, <2>3, <2>4, <2>5, <2>7, RefreshesNext
<1>2. CASE s.at = "adding"
  <2>1. r = Proton!Added(s, e) /\ s.todo = {}
    BY <1>2 DEF Proton!Concluded, Placed
  <2>2. DOMAIN s.ports \subseteq Nat /\ s.ports \in [DOMAIN s.ports -> Externals]
    BY PortsAreExternal
  <2> DEFINE p == InternalFor(s, e)
             ports == Proton!With(s.ports, p, e)
  <2>3. p \in Nat
    BY <1>0 DEF InternalFor, PMPStates
  <2>4. ports \in PortMaps /\ DOMAIN ports = DOMAIN s.ports \cup {p}
        /\ \A i \in DOMAIN ports : ports[i] = IF i = p THEN e ELSE s.ports[i]
    <3>1. ports \in [DOMAIN s.ports \cup {p} -> Externals]
      BY <2>2, <2>3 DEF Proton!With
    <3>2. DOMAIN s.ports \cup {p} \in SUBSET Nat
      BY <2>2, <2>3
    <3>3. ports \in PortMaps
      BY <3>1, <3>2 DEF PortMaps
    <3>4. QED
      BY <3>3 DEF Proton!With
  <2>5. \A t \in Proton!Protocols : Young(s) => MappedTo(s, t, e, p)
    OBVIOUS
  <2>6. p = InternalFor(s, e) /\ ports = Proton!With(s.ports, p, e)
    OBVIOUS
  <2> HIDE DEF p, ports
  <2>7. CASE s.internal = 0
    <3> DEFINE q == [s EXCEPT !.ports = ports, !.first = e]
    <3>1. p = e
      BY <2>6, <2>7 DEF InternalFor
    <3>2. r = Proton!AddNext(q, 1)
      <4>1. [s EXCEPT !.ports = Proton!With(@, e, e), !.first = e] = q
        BY <2>6, <3>1 DEF PMPStates
      <4>2. QED
        BY <2>1, <2>7, <4>1 DEF Proton!Added
    <3>3. q \in PMPStates
      BY <1>0, <2>4 DEF PMPStates
    <3>4. /\ q.ports = ports /\ q.first = e
          /\ \A n \in {"count", "at", "todo", "now", "since", "gateway"} : q[n] = s[n]
      BY DEF PMPStates
    <3> HIDE DEF q
    <3>5. DOMAIN s.ports = {}
      <4>1. FirstIsAsked(s) \/ s.internal \in InternalUpTo(s, LastInternal(s))
        BY <1>2 DEF Placed, OtherIsAsked
      <4>2. Proton!StartMinusOne(s) \in Nat
        BY StartIsPositive
      <4>3. QED
        BY <2>7, <4>1, <4>2 DEF FirstIsAsked, InternalUpTo
    <3>6. DOMAIN q.ports = {q.first} \cup InternalUpTo(q, Proton!StartMinusOne(q) + 1 - 1)
      <4>1. Proton!StartMinusOne(q) \in Nat
        BY StartIsPositive
      <4>2. InternalUpTo(q, Proton!StartMinusOne(q) + 1 - 1) = {}
        BY <4>1 DEF InternalUpTo
      <4>3. QED
        BY <2>4, <3>1, <3>4, <3>5, <4>2
    <3>7. RoundIsMapped(q)
      BY <2>4, <2>5, <3>1, <3>4, <3>5 DEF RoundIsMapped, MappedTo, Young
    <3>8. 1 \in 1 .. q.count
      BY <3>3, CountIsPositive
    <3>9. QED
      BY <1>2, <2>1, <3>2, <3>3, <3>4, <3>6, <3>7, <3>8, AddsNext
  <2>8. CASE s.internal # 0
    <3> DEFINE q == [s EXCEPT !.ports = ports]
               i == s.internal - Proton!StartMinusOne(s) + 1
    <3>1. p = s.internal
      BY <2>6, <2>8 DEF InternalFor
    <3>2. r = Proton!AddNext(q, i)
      <4>1. [s EXCEPT !.ports = Proton!With(@, s.internal, e)] = q
        BY <2>6, <3>1 DEF PMPStates
      <4>2. QED
        BY <2>1, <2>8, <4>1 DEF Proton!Added
    <3>3. q \in PMPStates
      BY <2>4 DEF PMPStates
    <3>4. /\ q.ports = ports
          /\ \A n \in {"count", "at", "first", "todo", "now", "since", "gateway"} : q[n] = s[n]
      BY DEF PMPStates
    <3>5. i = s.internal - Proton!StartMinusOne(s) + 1 /\ Proton!StartMinusOne(q) = Proton!StartMinusOne(s)
      BY <3>4 DEF Proton!StartMinusOne
    <3> HIDE DEF q, i
    <3>6. OtherIsAsked(s)
      BY <1>2, <2>8 DEF Placed, FirstIsAsked
    <3>7. Proton!StartMinusOne(s) \in Nat /\ s.count \in Nat /\ s.internal \in Nat
      BY StartIsPositive, CountIsPositive DEF PMPStates
    <3>8. i \in 1 .. s.count /\ Proton!StartMinusOne(s) + i - 1 = s.internal
      BY <3>5, <3>6, <3>7 DEF OtherIsAsked, InternalUpTo, LastInternal
    <3>9. InternalUpTo(s, s.internal - 1) \cup {s.internal} = InternalUpTo(s, s.internal)
      BY <3>6, <3>7 DEF OtherIsAsked, InternalUpTo
    <3>10. DOMAIN q.ports = {q.first} \cup InternalUpTo(q, Proton!StartMinusOne(q) + i - 1)
      BY <2>4, <3>1, <3>4, <3>5, <3>6, <3>8, <3>9 DEF OtherIsAsked, InternalUpTo
    <3>11. RoundIsMapped(q)
      BY <2>1, <2>4, <2>5, <3>4 DEF RoundIsMapped, MappedTo, Young
    <3>12. s.first \in Externals
      BY <3>6 DEF OtherIsAsked
    <3>13. q.at = "adding" /\ q.since <= q.now /\ q.todo = {} /\ q.first \in Externals /\ i \in 1 .. q.count
      BY <1>2, <2>1, <3>4, <3>8, <3>12
    <3>14. QED
      BY <3>2, <3>3, <3>10, <3>11, <3>13, AddsNext
  <2>9. QED
    BY <2>7, <2>8
<1>3. QED
  BY <1>1, <1>2

-----------------------------------------------------------------------------
LEMMA PMPFails ==
  ASSUME NEW s \in PMPStates, s.since <= s.now, s.todo \subseteq DOMAIN s.ports, NEW f, f = [s EXCEPT !.at = "failed"]
  PROVE  PMPInv(f)
<1>1. f \in PMPStates
  BY DEF PMPStates
<1>2. f.at = "failed" /\ \A n \in {"since", "now", "todo", "ports"} : f[n] = s[n]
  BY DEF PMPStates
<1>3. QED
  BY <1>1, <1>2 DEF PMPInv, Placed

LEMMA PMPAnswered == ASSUME Proton!ProtonConstants, PMPInv(pmp), Proton!Answered PROVE PMPInv(pmp')
<1>1. PICK e \in Proton!Answers(pmp.protocol, pmp.internal, pmp.external) :
        pmp' \in Proton!addPortMappingTCPUDP(Proton!Given(pmp, e), e)
  BY DEF Proton!Answered
<1> DEFINE g == Proton!Given(pmp, e)
<1>2. Proton!Asking
  BY DEF Proton!Answered
<1>3. /\ g \in PMPStates /\ e \in Externals
      /\ \A n \in {"count", "at", "ports", "first", "internal", "external", "protocol", "udp", "todo", "tries",
                    "losses", "thefts", "now", "due", "since", "took"} : g[n] = pmp[n]
      /\ RoundIsMapped(g) /\ (pmp.protocol = "tcp" => UDPIsMapped(g))
      /\ MappedTo(g, pmp.protocol, e, InternalFor(pmp, e))
  BY <1>2, GivenKeeps
<1>4. pmp' \in Proton!addPortMappingTCPUDP(g, e)
  BY <1>1
<1> HIDE DEF g
<1>5. Placed(g) /\ g.since <= g.now /\ g.at \in {"adding", "refreshing"}
  BY <1>2, <1>3 DEF PMPInv, Placed, FirstIsAsked, OtherIsAsked, AllAreAdded, InternalUpTo, LastInternal,
                    Proton!StartMinusOne, Proton!Asking
<1>6. CASE pmp' = [g EXCEPT !.at = "failed"]
  <2>1. g.todo \subseteq DOMAIN g.ports
    BY <1>5 DEF Placed
  <2>2. QED
    BY <1>3, <1>5, <1>6, <2>1, PMPFails
<1>7. CASE g.external \in {0, 1, e} /\ g.protocol = "udp" /\ pmp' = [g EXCEPT !.protocol = "tcp", !.udp = e, !.tries = 0]
  <2>1. 0 \in 0 .. Tries /\ e \in Nat /\ 0 < Tries
    <3>1. Tries \in Nat \ {0} /\ Externals \subseteq Nat
      BY DEF Proton!ProtonConstants
    <3>2. QED
      BY <1>3, <3>1
  <2>2. pmp' \in PMPStates
    BY <1>3, <1>7, <2>1 DEF PMPStates, Proton!Protocols
  <2>3. /\ \A n \in {"count", "at", "ports", "first", "internal", "external", "todo", "losses", "thefts", "now",
                      "due", "since", "took", "gateway"} : pmp'[n] = g[n]
        /\ pmp'.udp = e /\ pmp'.tries = 0
    BY <1>3, <1>7 DEF PMPStates
  <2>4. UDPIsMapped(pmp')
    BY <1>3, <1>7, <2>3 DEF UDPIsMapped, MappedTo, InternalFor, Young
  <2>5. RoundIsMapped(pmp')
    BY <1>3, <2>3 DEF RoundIsMapped, MappedTo, Young
  <2>6. Placed(pmp')
    BY <1>5, <2>1, <2>3 DEF Placed, FirstIsAsked, OtherIsAsked, AllAreAdded, InternalUpTo, LastInternal,
                            Proton!StartMinusOne
  <2>7. QED
    BY <1>5, <2>2, <2>3, <2>4, <2>5, <2>6 DEF PMPInv
<1>8. CASE g.external \in {0, 1, e} /\ g.protocol = "tcp" /\ g.udp = e /\ pmp' \in Proton!Concluded(g, e)
  <2>1. \A t \in Proton!Protocols : Young(g) => MappedTo(g, t, e, InternalFor(g, e))
    BY <1>3, <1>8 DEF UDPIsMapped, InternalFor, Proton!Protocols
  <2>2. g.at = "refreshing" => g.external = e
    <3>1. SUFFICES ASSUME g.at = "refreshing" PROVE g.external = e
      OBVIOUS
    <3>2. g.external = g.ports[g.internal] /\ g.internal \in DOMAIN g.ports
      BY <1>5, <3>1 DEF Placed
    <3>3. g.external \in Externals
      BY <1>3, <3>2, PortsAreExternal
    <3>4. QED
      BY <1>8, <3>3 DEF Proton!ProtonConstants
  <2>3. QED
    BY <1>3, <1>5, <1>8, <2>1, <2>2, RequestConcludes
<1>9. g.protocol \in {"udp", "tcp"}
  BY <1>3 DEF PMPStates, Proton!Protocols
<1>10. QED
  BY <1>4, <1>6, <1>7, <1>8, <1>9 DEF Proton!addPortMappingTCPUDP

LEMMA PMPLost == ASSUME Proton!ProtonConstants, PMPInv(pmp), Proton!Lost PROVE PMPInv(pmp')
<1>1. PICK e \in Proton!Answers(pmp.protocol, pmp.internal, pmp.external), handled \in BOOLEAN :
        pmp' = [(IF handled THEN Proton!Given(pmp, e) ELSE pmp) EXCEPT !.now = @ + 1, !.losses = @ + 1, !.tries = @ + 1,
                    !.at = IF pmp.tries + 1 = Tries THEN "failed" ELSE @]
  BY DEF Proton!Lost
<1> DEFINE g == IF handled THEN Proton!Given(pmp, e) ELSE pmp
<1>2. Proton!Asking /\ pmp \in PMPStates
  BY DEF Proton!Lost, PMPInv
<1>3. /\ g \in PMPStates
      /\ \A n \in {"count", "at", "ports", "first", "internal", "external", "protocol", "udp", "todo", "tries",
                    "losses", "thefts", "now", "due", "since", "took"} : g[n] = pmp[n]
      /\ RoundIsMapped(g) /\ (pmp.protocol = "tcp" => UDPIsMapped(g))
  <2>1. CASE handled
    BY <1>2, <2>1, GivenKeeps
  <2>2. CASE ~handled
    BY <1>2, <2>2 DEF PMPInv, Proton!Asking
  <2>3. QED
    BY <2>1, <2>2
<1>4. pmp' = [g EXCEPT !.now = @ + 1, !.losses = @ + 1, !.tries = @ + 1, !.at = IF pmp.tries + 1 = Tries THEN "failed" ELSE @]
  BY <1>1
<1> HIDE DEF g
<1>5. Placed(g) /\ g.since <= g.now /\ g.at \in {"adding", "refreshing"} /\ g.tries < Tries
  BY <1>2, <1>3 DEF PMPInv, Placed, FirstIsAsked, OtherIsAsked, AllAreAdded, InternalUpTo, LastInternal,
                    Proton!StartMinusOne, Proton!Asking
<1>6. /\ g.now + 1 \in Nat /\ g.losses + 1 \in Nat /\ g.tries + 1 \in 0 .. Tries /\ g.since <= g.now + 1
      /\ g.now + 1 <= g.since + 4 => g.now <= g.since + 4
  <2>1. g.now \in Nat /\ g.losses \in Nat /\ g.tries \in Nat /\ g.since \in Nat
    BY <1>3 DEF PMPStates
  <2>2. QED
    BY <1>5, <2>1 DEF Proton!ProtonConstants
<1>7. pmp' \in PMPStates
  BY <1>3, <1>4, <1>6, ZenonT(30) DEF PMPStates
<1>8. /\ \A n \in {"count", "ports", "first", "internal", "external", "protocol", "udp", "todo", "thefts",
                    "due", "since", "took", "gateway"} : pmp'[n] = g[n]
      /\ pmp'.now = g.now + 1 /\ pmp'.tries = g.tries + 1 /\ pmp'.at = IF g.tries + 1 = Tries THEN "failed" ELSE g.at
  BY <1>3, <1>4 DEF PMPStates
<1>9. CASE pmp'.at = "failed"
  <2>1. g.todo \subseteq DOMAIN g.ports
    BY <1>5 DEF Placed
  <2>2. QED
    BY <1>6, <1>7, <1>8, <1>9, <2>1 DEF PMPInv, Placed
<1>10. CASE pmp'.at # "failed"
  <2>1. pmp'.at = g.at /\ pmp'.tries < Tries
    <3>1. g.tries + 1 # Tries /\ g.tries \in Nat
      BY <1>3, <1>8, <1>10 DEF PMPStates
    <3>2. QED
      BY <1>5, <1>8, <3>1 DEF Proton!ProtonConstants
  <2>2. Young(pmp') => Young(g)
    BY <1>6, <1>8 DEF Young, Proton!Lifetime
  <2>3. RoundIsMapped(pmp') /\ (pmp.protocol = "tcp" => UDPIsMapped(pmp'))
    BY <1>3, <1>8, <2>2 DEF RoundIsMapped, UDPIsMapped, MappedTo, InternalFor
  <2>4. Placed(pmp')
    BY <1>5, <1>8, <2>1 DEF Placed, FirstIsAsked, OtherIsAsked, AllAreAdded, InternalUpTo, LastInternal,
                            Proton!StartMinusOne
  <2>5. QED
    BY <1>3, <1>5, <1>6, <1>7, <1>8, <2>1, <2>3, <2>4 DEF PMPInv
<1>11. QED
  BY <1>9, <1>10

LEMMA PMPSteal == ASSUME Proton!ProtonConstants, PMPInv(pmp), Proton!Steal PROVE PMPInv(pmp')
<1>0. pmp \in PMPStates
  BY DEF PMPInv
<1>1. PICK t \in Proton!Protocols : \E e \in Proton!Free(t) :
        pmp' = [pmp EXCEPT !.thefts = @ + 1, !.gateway[t][e] = Proton!Mapping(Proton!Other, 0)]
  BY DEF Proton!Steal
<1>2. PICK e \in Proton!Free(t) :
        pmp' = [pmp EXCEPT !.thefts = @ + 1, !.gateway[t][e] = Proton!Mapping(Proton!Other, 0)]
  BY <1>1
<1> DEFINE m == Proton!Mapping(Proton!Other, 0)
           gateway == [pmp.gateway EXCEPT ![t][e] = m]
<1>3. m \in [internal : Nat, until : Nat] /\ e \in Externals
  BY DEF Proton!Mapping, Proton!Other, Proton!Free
<1>4. gateway \in Gateways
  BY <1>0, <1>3 DEF PMPStates, Gateways
<1>5. \A u \in Proton!Protocols, x \in Externals :
        gateway[u][x] = IF u = t /\ x = e THEN m ELSE pmp.gateway[u][x]
  BY <1>0, <1>3 DEF PMPStates, Gateways
<1>6. pmp' = [pmp EXCEPT !.thefts = @ + 1, !.gateway = gateway]
  BY <1>0, <1>2 DEF PMPStates
<1> HIDE DEF m, gateway
<1>7. pmp.thefts + 1 \in Nat
  BY <1>0 DEF PMPStates
<1>8. pmp' \in PMPStates
  BY <1>0, <1>4, <1>6, <1>7 DEF PMPStates
<1>9. /\ \A n \in {"count", "at", "ports", "first", "internal", "external", "protocol", "udp", "todo", "tries",
                    "losses", "now", "due", "since", "took"} : pmp'[n] = pmp[n]
      /\ pmp'.gateway = gateway
  BY <1>0, <1>6 DEF PMPStates
<1>10. ASSUME Young(pmp), NEW u \in Proton!Protocols, NEW x \in Externals, NEW p, MappedTo(pmp, u, x, p)
       PROVE  MappedTo(pmp', u, x, p)
  <2>1. ~(u = t /\ x = e)
    BY <1>10, MappedIsNotFree
  <2>2. pmp'.gateway[u][x] = pmp.gateway[u][x]
    BY <1>5, <1>9, <2>1
  <2>3. QED
    BY <1>9, <1>10, <2>2 DEF MappedTo
<1>11. Young(pmp') = Young(pmp)
  BY <1>9 DEF Young
<1>12. pmp.at # "failed" => RoundIsMapped(pmp')
  <2>1. SUFFICES ASSUME pmp.at # "failed", Young(pmp), NEW p \in DOMAIN pmp.ports \ pmp.todo, NEW u \in Proton!Protocols
                 PROVE  MappedTo(pmp', u, pmp.ports[p], p)
    BY <1>9, <1>11 DEF RoundIsMapped
  <2>2. pmp.ports[p] \in Externals
    BY <1>0, PortsAreExternal
  <2>3. MappedTo(pmp, u, pmp.ports[p], p)
    BY <2>1 DEF PMPInv, RoundIsMapped
  <2>4. QED
    BY <1>10, <2>1, <2>2, <2>3
<1>13. UDPIsMapped(pmp) => UDPIsMapped(pmp')
  <2>1. SUFFICES ASSUME UDPIsMapped(pmp) PROVE UDPIsMapped(pmp')
    OBVIOUS
  <2>2. Young(pmp) => MappedTo(pmp', "udp", pmp.udp, InternalFor(pmp, pmp.udp))
    BY <1>10, <2>1 DEF UDPIsMapped, Proton!Protocols
  <2>3. QED
    BY <1>9, <1>11, <2>1, <2>2 DEF UDPIsMapped, InternalFor
<1>14. Placed(pmp')
  BY <1>9 DEF PMPInv, Placed, FirstIsAsked, OtherIsAsked, AllAreAdded, InternalUpTo, LastInternal, Proton!StartMinusOne
<1>15. QED
  BY <1>8, <1>9, <1>12, <1>13, <1>14 DEF PMPInv

LEMMA PMPStep == ASSUME Proton!ProtonConstants, PMPInv(pmp), [Proton!Next]_pmp PROVE PMPInv(pmp')
<1>0. pmp \in PMPStates /\ pmp.since <= pmp.now
  BY DEF PMPInv
<1>1. CASE UNCHANGED pmp
  BY <1>1
<1>2. CASE Proton!Steal
  BY <1>2, PMPSteal
<1>3. CASE Proton!Refresh
  <2> DEFINE s == [pmp EXCEPT !.at = "refreshing", !.todo = DOMAIN pmp.ports, !.since = pmp.now]
  <2>1. pmp' \in Proton!RefreshNext(s) /\ pmp.at = "waiting"
    BY <1>3 DEF Proton!Refresh
  <2>2. DOMAIN pmp.ports \subseteq Nat
    BY <1>0, PortsAreExternal
  <2>3. s \in PMPStates
    BY <1>0, <2>2 DEF PMPStates
  <2>4. /\ s.at = "refreshing" /\ s.todo = DOMAIN pmp.ports /\ s.since = pmp.now
        /\ \A n \in {"count", "ports", "first", "now"} : s[n] = pmp[n]
    BY <1>0 DEF PMPStates
  <2> HIDE DEF s
  <2>5. AllAreAdded(s)
    BY <2>1, <2>4 DEF PMPInv, Placed, AllAreAdded, InternalUpTo, LastInternal, Proton!StartMinusOne
  <2>6. RoundIsMapped(s)
    BY <2>4 DEF RoundIsMapped
  <2>7. s.since <= s.now
    BY <1>0, <2>4 DEF PMPStates
  <2>8. QED
    BY <2>1, <2>3, <2>4, <2>5, <2>6, <2>7, RefreshesNext
<1>4. CASE Proton!Answered
  BY <1>4, PMPAnswered
<1>5. CASE Proton!Lost
  BY <1>5, PMPLost
<1>6. CASE Proton!Refused
  <2>1. pmp.at \in {"adding", "refreshing"} /\ pmp' = [pmp EXCEPT !.at = "failed"]
    BY <1>6 DEF Proton!Refused, Proton!Asking
  <2>2. pmp.todo \subseteq DOMAIN pmp.ports
    BY <2>1 DEF PMPInv, Placed
  <2>3. QED
    BY <1>0, <2>1, <2>2, PMPFails
<1>7. CASE Proton!Tick
  <2>1. pmp.at = "waiting" /\ pmp.now < pmp.due /\ pmp' = [pmp EXCEPT !.now = @ + 1]
    BY <1>7 DEF Proton!Tick
  <2>2. /\ pmp.now + 1 \in Nat /\ pmp.since <= pmp.now + 1 /\ pmp.now + 1 <= pmp.due
        /\ pmp.now + 1 <= pmp.since + 4 => pmp.now <= pmp.since + 4
    <3>1. pmp.now \in Nat /\ pmp.since \in Nat /\ pmp.due \in Nat
      BY <1>0 DEF PMPStates
    <3>2. QED
      BY <1>0, <2>1, <3>1
  <2>3. pmp' \in PMPStates
    BY <1>0, <2>1, <2>2 DEF PMPStates
  <2>4. /\ \A n \in {"count", "at", "ports", "first", "internal", "external", "protocol", "udp", "todo", "tries",
                      "losses", "thefts", "due", "since", "took", "gateway"} : pmp'[n] = pmp[n]
        /\ pmp'.now = pmp.now + 1
    BY <1>0, <2>1 DEF PMPStates
  <2>5. RoundIsMapped(pmp')
    BY <2>1, <2>2, <2>4 DEF PMPInv, RoundIsMapped, MappedTo, Young, Proton!Lifetime
  <2>6. Placed(pmp')
    BY <2>4 DEF PMPInv, Placed, FirstIsAsked, OtherIsAsked, AllAreAdded, InternalUpTo, LastInternal,
                Proton!StartMinusOne
  <2>7. QED
    BY <2>1, <2>2, <2>3, <2>4, <2>5, <2>6 DEF PMPInv
<1>8. QED
  BY <1>1, <1>2, <1>3, <1>4, <1>5, <1>6, <1>7 DEF Proton!Next

LEMMA PMPInvIsTyped == ASSUME PMPInv(pmp) PROVE Proton!TypeOK
<1>1. pmp \in PMPStates /\ Placed(pmp)
  BY DEF PMPInv
<1>2. pmp.at \in {"adding", "waiting", "refreshing", "failed"} /\ pmp.tries \in 0 .. Tries
  BY <1>1 DEF PMPStates
<1>3. pmp.todo \subseteq DOMAIN pmp.ports
  BY <1>1, <1>2 DEF Placed
<1>4. \A p \in DOMAIN pmp.ports : pmp.ports[p] \in Externals
  BY <1>1, PortsAreExternal
<1>5. QED
  BY <1>2, <1>3, <1>4 DEF Proton!TypeOK

LEMMA PMPInvIsEnough ==
  ASSUME Proton!ProtonConstants, PMPInv(pmp)
  PROVE  Proton!KeptPortsAreMapped /\ Proton!AllPortsAreForwarded
<1>0. pmp \in PMPStates
  BY DEF PMPInv
<1>1. SUFFICES ASSUME pmp.at = "waiting" PROVE Proton!KeptPortsAreMapped /\ Proton!AllPortsAreForwarded
  BY DEF Proton!KeptPortsAreMapped, Proton!AllPortsAreForwarded
<1>2. /\ AllAreAdded(pmp) /\ pmp.todo = {} /\ RoundIsMapped(pmp)
      /\ pmp.due = pmp.since + pmp.took + 3 /\ pmp.now <= pmp.due
      /\ pmp.took <= Proton!Lifetime => Distinct(pmp.ports)
  BY <1>1 DEF PMPInv, Placed, Proton!RefreshTimeout
<1>3. Proton!KeptPortsAreMapped
  <2>1. SUFFICES ASSUME pmp.took <= 1, NEW p \in DOMAIN pmp.ports, NEW t \in Proton!Protocols
                 PROVE  LET m == pmp.gateway[t][pmp.ports[p]] IN m.internal = p /\ Proton!Live(m)
    BY DEF Proton!KeptPortsAreMapped, Proton!Lifetime, Proton!RefreshTimeout
  <2>2. pmp.took \in Nat /\ pmp.since \in Nat /\ pmp.now \in Nat /\ pmp.due \in Nat
    BY <1>0 DEF PMPStates
  <2>3. pmp.now <= pmp.since + 4
    BY <1>2, <2>1, <2>2
  <2>4. MappedTo(pmp, t, pmp.ports[p], p)
    BY <1>2, <2>3 DEF RoundIsMapped, Young, Proton!Lifetime
  <2>5. pmp.gateway[t][pmp.ports[p]].until \in Nat
    <3>1. pmp.ports[p] \in Externals
      BY <1>0, PortsAreExternal
    <3>2. QED
      BY <1>0, <3>1 DEF PMPStates, Gateways
  <2>6. pmp.gateway[t][pmp.ports[p]].until >= pmp.now
    BY <2>2, <2>3, <2>4, <2>5 DEF MappedTo, Proton!Lifetime
  <2>7. QED
    BY <2>4, <2>6 DEF MappedTo, Proton!Live
<1>4. ASSUME pmp.first \notin NonSymmetric + 1 .. NonSymmetric + pmp.count - 2
      PROVE  Cardinality(DOMAIN pmp.ports) = pmp.count
  <2> DEFINE start == Proton!StartMinusOne(pmp)
  <2>1. start \in Nat /\ pmp.count \in Nat \ {0} /\ NonSymmetric \in Nat /\ pmp.first \in Nat
    BY <1>0, StartIsPositive, CountIsPositive DEF Proton!ProtonConstants, PMPStates
  <2>2. start = IF pmp.first = NonSymmetric THEN NonSymmetric ELSE NonSymmetric - 1
    BY DEF Proton!StartMinusOne
  <2>3. DOMAIN pmp.ports = {pmp.first} \cup (start + 1 .. start + pmp.count - 1)
    BY <1>2 DEF AllAreAdded, InternalUpTo, LastInternal
  <2> HIDE DEF start
  <2>4. pmp.first \notin start + 1 .. start + pmp.count - 1
    BY <1>4, <2>1, <2>2
  <2> DEFINE a == start + 1
             b == start + pmp.count - 1
  <2>5. a \in Int /\ b \in Int /\ (IF a > b THEN 0 ELSE b - a + 1) = pmp.count - 1
    BY <2>1
  <2>6. DOMAIN pmp.ports = {pmp.first} \cup (a .. b) /\ pmp.first \notin a .. b
    BY <2>3, <2>4
  <2> HIDE DEF a, b
  <2>7. IsFiniteSet(a .. b) /\ Cardinality(a .. b) = pmp.count - 1
    BY <2>5, FS_Interval
  <2>8. (a .. b) \cup {pmp.first} = DOMAIN pmp.ports
    BY <2>6
  <2>9. Cardinality(DOMAIN pmp.ports) = pmp.count - 1 + 1
    BY <2>6, <2>7, <2>8, FS_AddElement
  <2>10. QED
    BY <2>1, <2>9
<1>5. QED
  <2>1. pmp.took <= Proton!Lifetime =>
          \A p, q \in DOMAIN pmp.ports : pmp.ports[p] = pmp.ports[q] => p = q
    BY <1>2 DEF Distinct
  <2>2. Proton!Cardinality(DOMAIN pmp.ports) = Cardinality(DOMAIN pmp.ports)
    BY DEF Cardinality, Proton!Cardinality
  <2>3. Proton!AllPortsAreForwarded
    BY <1>4, <2>1, <2>2, Zenon DEF Proton!AllPortsAreForwarded
  <2>4. QED
    BY <1>3, <2>3

LEMMA PMPInvariance == ASSUME Proton!ProtonConstants PROVE Proton!Spec => []PMPInv(pmp)
<1>1. Proton!Init => PMPInv(pmp)
  BY PMPStart
<1>2. PMPInv(pmp) /\ [Proton!Next]_pmp => PMPInv(pmp)'
  BY PMPStep
<1>3. QED
  BY <1>1, <1>2, PTL DEF Proton!Spec

-----------------------------------------------------------------------------
(* ProviderUpdate.                                                           *)

(* What k steps have made sure of: enough servers were counted, and none has *)
(* been left out since; the hosts were resolved, once, and none listed since.*)
NoneResolved(steps, k) == \A i \in 1 .. k : steps[i] # "resolve"
Counted(steps, k) ==
    \E j \in 1 .. k : /\ steps[j] \in {"hosts", "count"}
                      /\ \A i \in j + 1 .. k : steps[i] \notin {"list", "known", "skip", "adapt"}
ResolvedOnce(steps, k) ==
    \E j \in 1 .. k : /\ steps[j] = "resolve" /\ \A i \in 1 .. k : i # j => steps[i] # "resolve"
                      /\ \A i \in j + 1 .. k : steps[i] \notin {"list", "known", "skip"}
Taken(steps, k, step) == \E i \in 1 .. k : steps[i] = step

LEMMA StepsCount ==
  ASSUME NEW steps, NEW k \in Nat
  PROVE  /\ Counted(steps, k + 1) =>
              \/ steps[k + 1] \in {"hosts", "count"}
              \/ Counted(steps, k) /\ steps[k + 1] \notin {"list", "known", "skip", "adapt"}
         /\ ResolvedOnce(steps, k + 1) =>
              \/ steps[k + 1] = "resolve" /\ NoneResolved(steps, k)
              \/ ResolvedOnce(steps, k) /\ steps[k + 1] \notin {"list", "known", "skip", "resolve"}
         /\ NoneResolved(steps, k + 1) => NoneResolved(steps, k) /\ steps[k + 1] # "resolve"
         /\ \A step : Taken(steps, k + 1, step) => Taken(steps, k, step) \/ steps[k + 1] = step
<1>1. /\ \A i : i \in 1 .. k + 1 => i \in 1 .. k \/ i = k + 1
      /\ \A i : i \in 1 .. k => i \in 1 .. k + 1 /\ i # k + 1
      /\ k + 1 \in 1 .. k + 1
  OBVIOUS
<1>2. \A j \in 1 .. k : /\ \A i : i \in j + 1 .. k => i \in j + 1 .. k + 1
                        /\ k + 1 \in j + 1 .. k + 1
  OBVIOUS
<1>3. ASSUME Counted(steps, k + 1)
      PROVE  \/ steps[k + 1] \in {"hosts", "count"}
             \/ Counted(steps, k) /\ steps[k + 1] \notin {"list", "known", "skip", "adapt"}
  <2>1. PICK j \in 1 .. k + 1 : /\ steps[j] \in {"hosts", "count"}
                               /\ \A i \in j + 1 .. k + 1 : steps[i] \notin {"list", "known", "skip", "adapt"}
    BY <1>3 DEF Counted
  <2>2. CASE j = k + 1
    BY <2>1, <2>2
  <2>3. CASE j # k + 1
    BY <1>1, <1>2, <2>1, <2>3 DEF Counted
  <2>4. QED
    BY <2>2, <2>3
<1>4. ASSUME ResolvedOnce(steps, k + 1)
      PROVE  \/ steps[k + 1] = "resolve" /\ NoneResolved(steps, k)
             \/ ResolvedOnce(steps, k) /\ steps[k + 1] \notin {"list", "known", "skip", "resolve"}
  <2>1. PICK j \in 1 .. k + 1 : /\ steps[j] = "resolve" /\ \A i \in 1 .. k + 1 : i # j => steps[i] # "resolve"
                               /\ \A i \in j + 1 .. k + 1 : steps[i] \notin {"list", "known", "skip"}
    BY <1>4 DEF ResolvedOnce
  <2>2. CASE j = k + 1
    BY <1>1, <2>1, <2>2 DEF NoneResolved
  <2>3. CASE j # k + 1
    BY <1>1, <1>2, <2>1, <2>3 DEF ResolvedOnce
  <2>4. QED
    BY <2>2, <2>3
<1>5. QED
  BY <1>1, <1>3, <1>4 DEF NoneResolved, Taken

(* Every provider but airvpn makes sure, before it returns, that there are   *)
(* enough servers left.                                                      *)
IsProvider(p) == Len(p.steps) \in Nat /\ p.servers \in {1, 2, 6} /\ p.ratio \in 0 .. 10
Returns(p) == LET n == Len(p.steps) IN
    Counted(p.steps, n) \/ (ResolvedOnce(p.steps, n) /\ Taken(p.steps, n, "found")) \/ Taken(p.steps, n, "refuse")

LEMMA EndsWithCount ==
  ASSUME NEW p, Len(p.steps) \in Nat \ {0}, p.steps[Len(p.steps)] \in {"hosts", "count"},
         p.servers \in {1, 2, 6}, p.ratio \in 0 .. 10
  PROVE  IsProvider(p) /\ Returns(p)
<1> DEFINE n == Len(p.steps)
<1>1. n \in 1 .. n /\ n + 1 .. n = {}
  OBVIOUS
<1>2. Counted(p.steps, n)
  BY <1>1 DEF Counted
<1>3. QED
  BY <1>2 DEF IsProvider, Returns

LEMMA EndsWithFound ==
  ASSUME NEW p, NEW steps, NEW n \in Nat, p.steps = steps, Len(steps) = n, ResolvedOnce(steps, n),
         Taken(steps, n, "found"), p.servers \in {1, 2, 6}, p.ratio \in 0 .. 10
  PROVE  IsProvider(p) /\ Returns(p)
  BY DEF IsProvider, Returns

LEMMA ProvidersCount ==
  /\ IsProvider(Update!Expressvpn) /\ Returns(Update!Expressvpn)
  /\ IsProvider(Update!Fastestvpn) /\ Returns(Update!Fastestvpn)
  /\ IsProvider(Update!Mullvad) /\ Returns(Update!Mullvad)
  /\ IsProvider(Update!Nordvpn) /\ Returns(Update!Nordvpn)
  /\ IsProvider(Update!Privado) /\ Returns(Update!Privado)
  /\ IsProvider(Update!PrivateInternetAccess) /\ Returns(Update!PrivateInternetAccess)
  /\ IsProvider(Update!Privatevpn) /\ Returns(Update!Privatevpn)
  /\ IsProvider(Update!Protonvpn) /\ Returns(Update!Protonvpn)
  /\ IsProvider(Update!Surfshark) /\ Returns(Update!Surfshark)
  /\ IsProvider(Update!Torguard) /\ Returns(Update!Torguard)
  /\ IsProvider(Update!Windscribe) /\ Returns(Update!Windscribe)
  /\ IsProvider(Update!Downloaded) /\ Returns(Update!Downloaded)
<1>1. IsProvider(Update!Expressvpn) /\ Returns(Update!Expressvpn)
  <2>1. /\ Len(Update!Expressvpn.steps) = 4 /\ Update!Expressvpn.steps[4] = "count"
        /\ Update!Expressvpn.servers = 1 /\ Update!Expressvpn.ratio \in 0 .. 10
    BY DEF Update!Expressvpn, Update!Provider
  <2>2. QED
    BY <2>1, EndsWithCount
<1>2. IsProvider(Update!Fastestvpn) /\ Returns(Update!Fastestvpn)
  <2>1. /\ Len(Update!Fastestvpn.steps) = 4 /\ Update!Fastestvpn.steps[4] = "count"
        /\ Update!Fastestvpn.servers = 2 /\ Update!Fastestvpn.ratio \in 0 .. 10
    BY DEF Update!Fastestvpn, Update!Provider
  <2>2. QED
    BY <2>1, EndsWithCount
<1>3. IsProvider(Update!Mullvad) /\ Returns(Update!Mullvad)
  <2>1. /\ Len(Update!Mullvad.steps) = 3 /\ Update!Mullvad.steps[3] = "hosts"
        /\ Update!Mullvad.servers = 1 /\ Update!Mullvad.ratio \in 0 .. 10
    BY DEF Update!Mullvad, Update!Provider
  <2>2. QED
    BY <2>1, EndsWithCount
<1>4. IsProvider(Update!Nordvpn) /\ Returns(Update!Nordvpn)
  <2>1. /\ Len(Update!Nordvpn.steps) = 3 /\ Update!Nordvpn.steps[3] = "count"
        /\ Update!Nordvpn.servers = 2 /\ Update!Nordvpn.ratio \in 0 .. 10
    BY DEF Update!Nordvpn, Update!Provider
  <2>2. QED
    BY <2>1, EndsWithCount
<1>5. IsProvider(Update!Privado) /\ Returns(Update!Privado)
  <2>1. /\ Len(Update!Privado.steps) = 2 /\ Update!Privado.steps[2] = "hosts"
        /\ Update!Privado.servers = 1 /\ Update!Privado.ratio \in 0 .. 10
    BY DEF Update!Privado, Update!Provider
  <2>2. QED
    BY <2>1, EndsWithCount
<1>6. IsProvider(Update!PrivateInternetAccess) /\ Returns(Update!PrivateInternetAccess)
  <2>1. /\ Len(Update!PrivateInternetAccess.steps) = 3 /\ Update!PrivateInternetAccess.steps[3] = "count"
        /\ Update!PrivateInternetAccess.servers = 1 /\ Update!PrivateInternetAccess.ratio \in 0 .. 10
    BY DEF Update!PrivateInternetAccess, Update!Provider
  <2>2. QED
    BY <2>1, EndsWithCount
<1>7. IsProvider(Update!Privatevpn) /\ Returns(Update!Privatevpn)
  <2>1. /\ Len(Update!Privatevpn.steps) = 6 /\ Update!Privatevpn.steps[6] = "count"
        /\ Update!Privatevpn.servers = 1 /\ Update!Privatevpn.ratio \in 0 .. 10
    BY DEF Update!Privatevpn, Update!Provider
  <2>2. QED
    BY <2>1, EndsWithCount
<1>8. IsProvider(Update!Protonvpn) /\ Returns(Update!Protonvpn)
  <2>1. /\ Len(Update!Protonvpn.steps) = 5 /\ Update!Protonvpn.steps[5] = "count"
        /\ Update!Protonvpn.servers = 2 /\ Update!Protonvpn.ratio \in 0 .. 10
    BY DEF Update!Protonvpn, Update!Provider
  <2>2. QED
    BY <2>1, EndsWithCount
<1>9. IsProvider(Update!Surfshark) /\ Returns(Update!Surfshark)
  <2>1. /\ Len(Update!Surfshark.steps) = 4 /\ Update!Surfshark.steps[4] = "hosts"
        /\ Update!Surfshark.servers = 2 /\ Update!Surfshark.ratio \in 0 .. 10
    BY DEF Update!Surfshark, Update!Provider
  <2>2. QED
    BY <2>1, EndsWithCount
<1>10. IsProvider(Update!Torguard) /\ Returns(Update!Torguard)
  <2>1. /\ Len(Update!Torguard.steps) = 7 /\ Update!Torguard.steps[7] = "count"
        /\ Update!Torguard.servers = 1 /\ Update!Torguard.ratio \in 0 .. 10
    BY DEF Update!Torguard, Update!Provider
  <2>2. QED
    BY <2>1, EndsWithCount
<1>11. IsProvider(Update!Windscribe) /\ Returns(Update!Windscribe)
  <2>1. /\ Len(Update!Windscribe.steps) = 2 /\ Update!Windscribe.steps[2] = "count"
        /\ Update!Windscribe.servers = 2 /\ Update!Windscribe.ratio \in 0 .. 10
    BY DEF Update!Windscribe, Update!Provider
  <2>2. QED
    BY <2>1, EndsWithCount
<1>12. IsProvider(Update!Downloaded) /\ Returns(Update!Downloaded)
  <2>1. /\ Len(Update!Downloaded.steps) = 2 /\ Update!Downloaded.steps[2] = "hosts"
        /\ Update!Downloaded.servers = 1 /\ Update!Downloaded.ratio \in 0 .. 10
    BY DEF Update!Downloaded, Update!Provider
  <2>2. QED
    BY <2>1, EndsWithCount
<1>13. QED
  BY <1>1, <1>2, <1>3, <1>4, <1>5, <1>6, <1>7, <1>8, <1>9, <1>10, <1>11, <1>12

LEMMA ProvidersFind ==
  /\ IsProvider(Update!Cyberghost) /\ Returns(Update!Cyberghost)
  /\ IsProvider(Update!Vpnunlimited) /\ Returns(Update!Vpnunlimited)
  /\ IsProvider(Update!Example) /\ Returns(Update!Example)
  /\ IsProvider(Update!Giganews) /\ Returns(Update!Giganews)
  /\ IsProvider(Update!Ipvanish) /\ Returns(Update!Ipvanish)
  /\ IsProvider(Update!Vyprvpn) /\ Returns(Update!Vyprvpn)
  /\ IsProvider(Update!Ivpn) /\ Returns(Update!Ivpn)
  /\ IsProvider(Update!Purevpn) /\ Returns(Update!Purevpn)
  /\ IsProvider(Update!Slickvpn) /\ Returns(Update!Slickvpn)
  /\ IsProvider(Update!Vpnsecure) /\ Returns(Update!Vpnsecure)
<1>1. /\ IsProvider(Update!Cyberghost) /\ Returns(Update!Cyberghost)
      /\ IsProvider(Update!Vpnunlimited) /\ Returns(Update!Vpnunlimited)
  <2> DEFINE s == <<"known", "resolve", "found", "adapt">>
  <2>1. /\ Len(s) = 4
        /\ s[1] = "known" /\ s[2] = "resolve" /\ s[3] = "found" /\ s[4] = "adapt"
    OBVIOUS
  <2>2. /\ 1 .. 4 = {1, 2, 3, 4}
        /\ 3 .. 4 = {3, 4}
    OBVIOUS
  <2>3. /\ Update!Cyberghost.steps = s /\ Update!Cyberghost.servers = 1 /\ Update!Cyberghost.ratio \in 0 .. 10
        /\ Update!Vpnunlimited.steps = s /\ Update!Vpnunlimited.servers = 1 /\ Update!Vpnunlimited.ratio \in 0 .. 10
    BY DEF Update!Cyberghost, Update!Vpnunlimited, Update!Provider
  <2> HIDE DEF s
  <2>4. ResolvedOnce(s, 4) /\ Taken(s, 4, "found")
    BY <2>1, <2>2 DEF ResolvedOnce, Taken
  <2>5. QED
    BY <2>1, <2>3, <2>4, EndsWithFound
<1>2. IsProvider(Update!Example) /\ Returns(Update!Example)
  <2> DEFINE s == <<"list", "count", "resolve", "found">>
  <2>1. /\ Len(s) = 4
        /\ s[1] = "list" /\ s[2] = "count" /\ s[3] = "resolve" /\ s[4] = "found"
    OBVIOUS
  <2>2. /\ 1 .. 4 = {1, 2, 3, 4}
        /\ 4 .. 4 = {4}
    OBVIOUS
  <2>3. Update!Example.steps = s /\ Update!Example.servers = 1 /\ Update!Example.ratio \in 0 .. 10
    BY DEF Update!Example, Update!Provider
  <2> HIDE DEF s
  <2>4. ResolvedOnce(s, 4) /\ Taken(s, 4, "found")
    BY <2>1, <2>2 DEF ResolvedOnce, Taken
  <2>5. QED
    BY <2>1, <2>3, <2>4, EndsWithFound
<1>3. /\ IsProvider(Update!Giganews) /\ Returns(Update!Giganews)
      /\ IsProvider(Update!Ipvanish) /\ Returns(Update!Ipvanish)
      /\ IsProvider(Update!Vyprvpn) /\ Returns(Update!Vyprvpn)
  <2> DEFINE s == <<"list", "hosts", "skip", "hosts", "resolve", "found", "adapt">>
  <2>1. /\ Len(s) = 7
        /\ s[1] = "list" /\ s[2] = "hosts" /\ s[3] = "skip" /\ s[4] = "hosts" /\ s[5] = "resolve"
        /\ s[6] = "found" /\ s[7] = "adapt"
    OBVIOUS
  <2>2. /\ 1 .. 7 = {1, 2, 3, 4, 5, 6, 7}
        /\ 6 .. 7 = {6, 7}
    OBVIOUS
  <2>3. /\ Update!Giganews.steps = s /\ Update!Giganews.servers = 1 /\ Update!Giganews.ratio \in 0 .. 10
        /\ Update!Ipvanish.steps = s /\ Update!Ipvanish.servers = 1 /\ Update!Ipvanish.ratio \in 0 .. 10
        /\ Update!Vyprvpn.steps = s /\ Update!Vyprvpn.servers = 1 /\ Update!Vyprvpn.ratio \in 0 .. 10
    BY DEF Update!Giganews, Update!Ipvanish, Update!Vyprvpn, Update!Provider
  <2> HIDE DEF s
  <2>4. ResolvedOnce(s, 7) /\ Taken(s, 7, "found")
    BY <2>1, <2>2 DEF ResolvedOnce, Taken
  <2>5. QED
    BY <2>1, <2>3, <2>4, EndsWithFound
<1>4. IsProvider(Update!Ivpn) /\ Returns(Update!Ivpn)
  <2> DEFINE s == <<"list", "hosts", "resolve", "found">>
  <2>1. /\ Len(s) = 4
        /\ s[1] = "list" /\ s[2] = "hosts" /\ s[3] = "resolve" /\ s[4] = "found"
    OBVIOUS
  <2>2. /\ 1 .. 4 = {1, 2, 3, 4}
        /\ 4 .. 4 = {4}
    OBVIOUS
  <2>3. Update!Ivpn.steps = s /\ Update!Ivpn.servers = 1 /\ Update!Ivpn.ratio \in 0 .. 10
    BY DEF Update!Ivpn, Update!Provider
  <2> HIDE DEF s
  <2>4. ResolvedOnce(s, 4) /\ Taken(s, 4, "found")
    BY <2>1, <2>2 DEF ResolvedOnce, Taken
  <2>5. QED
    BY <2>1, <2>3, <2>4, EndsWithFound
<1>5. IsProvider(Update!Purevpn) /\ Returns(Update!Purevpn)
  <2> DEFINE s == <<"able", "list", "hosts", "skip", "hosts", "resolve", "found", "adapt", "locate">>
  <2>1. /\ Len(s) = 9
        /\ s[1] = "able" /\ s[2] = "list" /\ s[3] = "hosts" /\ s[4] = "skip" /\ s[5] = "hosts"
        /\ s[6] = "resolve" /\ s[7] = "found" /\ s[8] = "adapt" /\ s[9] = "locate"
    OBVIOUS
  <2>2. /\ 1 .. 9 = {1, 2, 3, 4, 5, 6, 7, 8, 9}
        /\ 7 .. 9 = {7, 8, 9}
    OBVIOUS
  <2>3. Update!Purevpn.steps = s /\ Update!Purevpn.servers = 1 /\ Update!Purevpn.ratio \in 0 .. 10
    BY DEF Update!Purevpn, Update!Provider
  <2> HIDE DEF s
  <2>4. ResolvedOnce(s, 9) /\ Taken(s, 9, "found")
    BY <2>1, <2>2 DEF ResolvedOnce, Taken
  <2>5. QED
    BY <2>1, <2>3, <2>4, EndsWithFound
<1>6. IsProvider(Update!Slickvpn) /\ Returns(Update!Slickvpn)
  <2> DEFINE s == <<"known", "resolve", "found">>
  <2>1. /\ Len(s) = 3
        /\ s[1] = "known" /\ s[2] = "resolve" /\ s[3] = "found"
    OBVIOUS
  <2>2. /\ 1 .. 3 = {1, 2, 3}
        /\ 3 .. 3 = {3}
    OBVIOUS
  <2>3. Update!Slickvpn.steps = s /\ Update!Slickvpn.servers = 1 /\ Update!Slickvpn.ratio \in 0 .. 10
    BY DEF Update!Slickvpn, Update!Provider
  <2> HIDE DEF s
  <2>4. ResolvedOnce(s, 3) /\ Taken(s, 3, "found")
    BY <2>1, <2>2 DEF ResolvedOnce, Taken
  <2>5. QED
    BY <2>1, <2>3, <2>4, EndsWithFound
<1>7. IsProvider(Update!Vpnsecure) /\ Returns(Update!Vpnsecure)
  <2> DEFINE s == <<"list", "skip", "count", "resolve", "found", "adapt">>
  <2>1. /\ Len(s) = 6
        /\ s[1] = "list" /\ s[2] = "skip" /\ s[3] = "count" /\ s[4] = "resolve" /\ s[5] = "found"
        /\ s[6] = "adapt"
    OBVIOUS
  <2>2. /\ 1 .. 6 = {1, 2, 3, 4, 5, 6}
        /\ 5 .. 6 = {5, 6}
    OBVIOUS
  <2>3. Update!Vpnsecure.steps = s /\ Update!Vpnsecure.servers = 1 /\ Update!Vpnsecure.ratio \in 0 .. 10
    BY DEF Update!Vpnsecure, Update!Provider
  <2> HIDE DEF s
  <2>4. ResolvedOnce(s, 6) /\ Taken(s, 6, "found")
    BY <2>1, <2>2 DEF ResolvedOnce, Taken
  <2>5. QED
    BY <2>1, <2>3, <2>4, EndsWithFound
<1>8. QED
  BY <1>1, <1>2, <1>3, <1>4, <1>5, <1>6, <1>7

LEMMA AllProvidersReturn ==
  /\ \A p \in DOMAIN Update!ProviderOf :
       IsProvider(Update!ProviderOf[p]) /\ (p = "airvpn" \/ Returns(Update!ProviderOf[p]))
  /\ IsProvider(Update!Downloaded) /\ Returns(Update!Downloaded)
<1>1. IsProvider(Update!Airvpn)
  BY DEF IsProvider, Update!Airvpn, Update!Provider
<1>2. IsProvider(Update!Hidemyass) /\ Returns(Update!Hidemyass)
  <2>1. Len(Update!Hidemyass.steps) = 1 /\ Update!Hidemyass.steps[1] = "refuse" /\ Update!Hidemyass.servers = 1 /\ Update!Hidemyass.ratio = 0
    BY DEF Update!Hidemyass, Update!Provider
  <2>2. Taken(Update!Hidemyass.steps, 1, "refuse")
    BY <2>1 DEF Taken
  <2>3. QED
    BY <2>1, <2>2 DEF IsProvider, Returns
<1>3. \A p \in DOMAIN Update!ProviderOf :
        IsProvider(Update!ProviderOf[p]) /\ (p = "airvpn" \/ Returns(Update!ProviderOf[p]))
  BY <1>1, <1>2, ProvidersCount, ProvidersFind DEF Update!ProviderOf
<1>4. QED
  BY <1>3, ProvidersCount

Elements(s) == {s[i] : i \in DOMAIN s}

LEMMA HeadAndTail ==
  ASSUME NEW S, NEW s \in Seq(S), s # <<>>
  PROVE  Head(s) \in S /\ Tail(s) \in Seq(S) /\ Elements(s) = {Head(s)} \cup Elements(Tail(s))
<1>1. /\ Len(s) \in Nat \ {0} /\ DOMAIN s = 1 .. Len(s) /\ Head(s) = s[1] /\ Head(s) \in S
      /\ Tail(s) \in Seq(S) /\ Len(Tail(s)) = Len(s) - 1
  OBVIOUS
<1>2. DOMAIN Tail(s) = 1 .. Len(s) - 1
  BY <1>1
<1>3. \A i \in 1 .. Len(s) - 1 : Tail(s)[i] = s[i + 1]
  BY <1>1
<1>4. ASSUME NEW x \in Elements(s) PROVE x = Head(s) \/ x \in Elements(Tail(s))
  <2>1. PICK i \in 1 .. Len(s) : x = s[i]
    BY <1>1 DEF Elements
  <2>2. CASE i # 1
    <3>1. i - 1 \in 1 .. Len(s) - 1 /\ (i - 1) + 1 = i
      BY <1>1, <2>2
    <3>2. Tail(s)[i - 1] = x
      BY <1>3, <2>1, <3>1
    <3>3. QED
      BY <1>2, <3>1, <3>2 DEF Elements
  <2>3. QED
    BY <1>1, <2>1, <2>2
<1>5. ASSUME NEW x \in Elements(Tail(s)) PROVE x \in Elements(s)
  <2>1. PICK i \in 1 .. Len(s) - 1 : x = Tail(s)[i]
    BY <1>2 DEF Elements
  <2>2. i + 1 \in 1 .. Len(s) /\ x = s[i + 1]
    BY <1>1, <1>3, <2>1
  <2>3. QED
    BY <1>1, <2>2 DEF Elements
<1>6. 1 \in DOMAIN s
  BY <1>1
<1>7. Head(s) \in Elements(s)
  BY <1>1, <1>6 DEF Elements
<1>8. QED
  BY <1>1, <1>4, <1>5, <1>7

HostKinds == UNION {[S -> Update!Kinds] : S \in SUBSET Hosts}
UpdStates ==
    [names : Lists, left : Seq(DOMAIN Update!ProviderOf), direct : {"no", "wanted", "here"}, at : Nat,
     kind : HostKinds, resolving : BOOLEAN, pending : SUBSET Hosts, resolved : SUBSET Hosts,
     addressed : SUBSET Hosts, warnings : Nat, cancelled : BOOLEAN, min : Nat,
     stored : [DOMAIN Update!ProviderOf -> [count : Nat, usable : {TRUE}]], done : BOOLEAN,
     result : {"running", "nil", "error"}, short : SUBSET {"airvpn"}, tried : SUBSET DOMAIN Update!ProviderOf]

CurrentOf(u) == IF u.direct = "here" THEN Update!Downloaded ELSE Update!ProviderOf[Head(u.left)]
AtWork(u) == u.left # <<>> /\ u.direct # "wanted"

(* What the steps that are done have made sure of, and holds still.          *)
Progress(u, p) ==
    /\ u.at \in 0 .. Len(p.steps) /\ ~Taken(p.steps, u.at, "refuse")
    /\ Counted(p.steps, u.at) => p.servers * Cardinality(DOMAIN u.kind) >= u.min
    /\ Taken(p.steps, u.at, "found") => Cardinality(u.resolved) >= u.min
    /\ u.resolving =>
         /\ u.at < Len(p.steps) /\ p.steps[u.at + 1] = "resolve"
         /\ NoneResolved(p.steps, u.at) => u.pending \cup u.resolved \subseteq DOMAIN u.kind
    /\ ~u.resolving =>
         /\ NoneResolved(p.steps, u.at) => u.resolved = {}
         /\ ResolvedOnce(p.steps, u.at) => u.resolved \subseteq DOMAIN u.kind

(* Each provider of the update was tried or is left.                         *)
UpdQueue(u) ==
    /\ u.result = "running" => Elements(u.names) = u.tried \cup Elements(u.left)
    /\ u.result = "nil" => Elements(u.names) = u.tried

UpdInv(u) ==
    /\ u \in UpdStates /\ UpdQueue(u)
    /\ u.warnings <= Cardinality(Hosts)
    /\ AtWork(u) => u.result = "running" /\ Progress(u, CurrentOf(u))
    /\ u.left = <<>> => ~u.resolving
    /\ u.direct = "wanted" => u.at = 0 /\ ~u.resolving /\ u.resolved = {}

LEMMA FreshProgress ==
  ASSUME NEW u \in UpdStates, NEW p, IsProvider(p), u.at = 0, ~u.resolving, u.resolved = {}
  PROVE  Progress(u, p)
<1>1. 1 .. 0 = {}
  OBVIOUS
<1>2. ~Taken(p.steps, 0, "refuse") /\ ~Taken(p.steps, 0, "found") /\ ~Counted(p.steps, 0) /\ ~ResolvedOnce(p.steps, 0)
  BY <1>1 DEF Taken, Counted, ResolvedOnce
<1>3. QED
  BY <1>2 DEF Progress, IsProvider

LEMMA CurrentIsProvider ==
  ASSUME NEW u \in UpdStates, u.left # <<>>
  PROVE  /\ Head(u.left) \in DOMAIN Update!ProviderOf /\ IsProvider(CurrentOf(u))
         /\ Returns(CurrentOf(u)) \/ Head(u.left) = "airvpn"
<1>1. Head(u.left) \in DOMAIN Update!ProviderOf
  BY DEF UpdStates
<1>2. QED
  BY <1>1, AllProvidersReturn DEF CurrentOf

LEMMA MinServersIs ==
  ASSUME Update!UpdateConstants, NEW u \in UpdStates
  PROVE  /\ Update!MinServers(u) \in UpdStates
         /\ \A n \in {"names", "left", "direct", "at", "kind", "resolving", "pending", "resolved", "addressed",
                      "warnings", "cancelled", "stored", "done", "result", "short", "tried"} :
              Update!MinServers(u)[n] = u[n]
<1>1. CASE u.left = <<>>
  BY <1>1 DEF Update!MinServers
<1>2. CASE u.left # <<>>
  <2> DEFINE c == u.stored[Head(u.left)].count
             m == (Tenths * c) \div 10
  <2>1. c \in Nat
    BY <1>2, CurrentIsProvider DEF UpdStates
  <2>2. Tenths \in Nat
    BY DEF Update!UpdateConstants
  <2>3. Tenths * c \in Nat
    BY <2>1, <2>2
  <2>4. m \in Nat
    BY <2>3
  <2>5. Update!MinServers(u) = [u EXCEPT !.min = m]
    BY <1>2 DEF Update!MinServers
  <2> HIDE DEF m
  <2>6. QED
    BY <2>4, <2>5 DEF UpdStates
<1>3. QED
  BY <1>1, <1>2

LEMMA IdleIs ==
  ASSUME NEW u \in UpdStates
  PROVE  /\ Update!Idle(u) \in UpdStates /\ Update!Idle(u).at = 0 /\ ~Update!Idle(u).resolving
         /\ Update!Idle(u).resolved = {} /\ Update!Idle(u).warnings = 0
         /\ \A n \in {"names", "left", "direct", "stored", "done", "result", "short", "tried"} :
              Update!Idle(u)[n] = u[n]
<1>1. Update!None \in HostKinds
  <2>1. Update!None \in [{} -> Update!Kinds]
    BY DEF Update!None
  <2>2. QED
    BY <2>1 DEF HostKinds
<1>2. QED
  BY <1>1 DEF Update!Idle, UpdStates

LEMMA UpdateFiniteSets ==
  (\A S : Update!Cardinality(S) = Cardinality(S)) /\ (\A S : Update!IsFiniteSet(S) <=> IsFiniteSet(S))
  BY DEF Cardinality, Update!Cardinality, IsFiniteSet, Update!IsFiniteSet

LEMMA HostsAreFinite ==
  ASSUME Update!UpdateConstants
  PROVE  /\ Cardinality(Hosts) \in Nat
         /\ \A S \in SUBSET Hosts : IsFiniteSet(S) /\ Cardinality(S) \in Nat /\ Cardinality(S) <= Cardinality(Hosts)
<1>1. IsFiniteSet(Hosts)
  BY UpdateFiniteSets DEF Update!UpdateConstants
<1>2. QED
  BY <1>1, FS_Subset, FS_CardinalityType

(* What a state is like at the end of a provider.                            *)
UpdBase(u) ==
    /\ u \in UpdStates /\ u.result = "running" /\ AtWork(u) /\ Elements(u.names) = u.tried \cup Elements(u.left)

LEMMA NextProviderKeeps ==
  ASSUME Update!UpdateConstants, NEW u, UpdBase(u) PROVE UpdInv(Update!NextProvider(u))
<1> DEFINE v == [Update!Idle(u) EXCEPT !.left = Tail(@), !.tried = @ \cup {Head(u.left)}]
           w == Update!MinServers(v)
<1>0. u \in UpdStates /\ u.left # <<>> /\ u.direct # "wanted" /\ u.result = "running"
  BY DEF UpdBase, AtWork
<1>1. u.left \in Seq(DOMAIN Update!ProviderOf)
  BY <1>0 DEF UpdStates
<1>2. /\ Head(u.left) \in DOMAIN Update!ProviderOf /\ Tail(u.left) \in Seq(DOMAIN Update!ProviderOf)
      /\ Elements(u.left) = {Head(u.left)} \cup Elements(Tail(u.left))
  BY <1>0, <1>1, HeadAndTail
<1>3. /\ v \in UpdStates /\ v.left = Tail(u.left) /\ v.tried = u.tried \cup {Head(u.left)}
      /\ v.at = 0 /\ ~v.resolving /\ v.resolved = {} /\ v.warnings = 0
      /\ v.names = u.names /\ v.direct = u.direct /\ v.result = u.result
  BY <1>0, <1>2, IdleIs, ZenonT(30) DEF UpdStates
<1> HIDE DEF v
<1>4. /\ w \in UpdStates
      /\ \A n \in {"names", "left", "direct", "at", "resolving", "resolved", "warnings", "result", "tried"} : w[n] = v[n]
  BY <1>3, MinServersIs
<1>5. w = Update!NextProvider(u)
  BY DEF v, Update!NextProvider
<1> HIDE DEF w
<1>6. UpdQueue(w)
  BY <1>0, <1>2, <1>3, <1>4 DEF UpdBase, UpdQueue
<1>7. AtWork(w) => Progress(w, CurrentOf(w))
  BY <1>3, <1>4, CurrentIsProvider, FreshProgress DEF AtWork
<1>8. Cardinality(Hosts) \in Nat
  BY HostsAreFinite
<1>9. UpdInv(w)
  BY <1>0, <1>3, <1>4, <1>6, <1>7, <1>8 DEF UpdInv
<1>10. QED
  BY <1>5, <1>9

LEMMA UpdFails ==
  ASSUME Update!UpdateConstants, NEW u, UpdBase(u) PROVE UpdInv(Update!Failed(u))
<1> DEFINE v == [Update!Idle(u) EXCEPT !.result = "error", !.left = <<>>]
<1>0. u \in UpdStates /\ u.direct # "wanted"
  BY DEF UpdBase, AtWork
<1>1. <<>> \in Seq(DOMAIN Update!ProviderOf)
  OBVIOUS
<1>2. /\ v \in UpdStates /\ v.left = <<>> /\ v.result = "error" /\ ~v.resolving /\ v.warnings = 0
      /\ v.direct = u.direct
  BY <1>0, <1>1, IdleIs, ZenonT(30) DEF UpdStates
<1> HIDE DEF v
<1>3. Cardinality(Hosts) \in Nat
  BY HostsAreFinite
<1>4. UpdInv(v)
  BY <1>0, <1>2, <1>3 DEF UpdInv, UpdQueue, AtWork
<1>5. Update!Failed(u) = v \/ Update!Failed(u) = Update!NextProvider(u)
  BY DEF v, Update!Failed
<1>6. QED
  BY <1>4, <1>5, NextProviderKeeps

(* A step other than a resolution.                                           *)
LEMMA StepKeeps ==
  ASSUME NEW u, UpdInv(u), AtWork(u), ~u.resolving, u.at < Len(CurrentOf(u).steps),
         NEW v \in UpdStates, v.at = u.at + 1,
         \A n \in {"names", "left", "direct", "resolving", "resolved", "warnings", "min", "result", "tried"} : v[n] = u[n],
         NEW step, CurrentOf(u).steps[u.at + 1] = step, step \notin {"resolve", "refuse"},
         step \in {"hosts", "count"} => CurrentOf(u).servers * Cardinality(DOMAIN u.kind) >= u.min,
         step = "found" => Cardinality(u.resolved) >= u.min,
         step \notin {"list", "known", "skip", "adapt"} => DOMAIN v.kind = DOMAIN u.kind,
         step = "adapt" => DOMAIN u.kind \cap u.resolved \subseteq DOMAIN v.kind
  PROVE  UpdInv(v)
<1> DEFINE p == CurrentOf(u)
<1>1. CurrentOf(v) = p
  BY DEF CurrentOf
<1>2. Progress(u, p) /\ u.result = "running" /\ u \in UpdStates
  BY DEF UpdInv
<1>3. u.at \in Nat /\ Len(p.steps) \in Nat
  BY <1>2, CurrentIsProvider DEF UpdStates, AtWork, IsProvider
<1> HIDE DEF p
<1>4. /\ Counted(p.steps, u.at + 1) => step \in {"hosts", "count"} \/ (Counted(p.steps, u.at) /\ step \notin {"list", "known", "skip", "adapt"})
      /\ ResolvedOnce(p.steps, u.at + 1) => ResolvedOnce(p.steps, u.at) /\ step \notin {"list", "known", "skip"}
      /\ NoneResolved(p.steps, u.at + 1) => NoneResolved(p.steps, u.at)
      /\ \A s : Taken(p.steps, u.at + 1, s) => Taken(p.steps, u.at, s) \/ step = s
  BY <1>3, StepsCount DEF p
<1>5. Progress(v, p)
  <2>1. v.at \in 0 .. Len(p.steps) /\ ~Taken(p.steps, v.at, "refuse")
    BY <1>2, <1>3, <1>4 DEF Progress, p
  <2>2. Counted(p.steps, v.at) => p.servers * Cardinality(DOMAIN v.kind) >= v.min
    BY <1>2, <1>4 DEF Progress, p
  <2>3. Taken(p.steps, v.at, "found") => Cardinality(v.resolved) >= v.min
    BY <1>2, <1>4 DEF Progress, p
  <2>4. NoneResolved(p.steps, v.at) => v.resolved = {}
    BY <1>2, <1>4 DEF Progress, p
  <2>5. ResolvedOnce(p.steps, v.at) => v.resolved \subseteq DOMAIN v.kind
    BY <1>2, <1>4 DEF Progress, p
  <2>6. QED
    BY <2>1, <2>2, <2>3, <2>4, <2>5 DEF Progress
<1>6. UpdQueue(v)
  BY DEF UpdInv, UpdQueue
<1>7. QED
  BY <1>1, <1>2, <1>5, <1>6 DEF UpdInv, AtWork

LEMMA UpdStart == ASSUME Update!UpdateConstants, Update!Init PROVE UpdInv(upd)
<1>1. PICK names \in Lists, n \in Existing, direct \in {"no", "wanted"} :
      upd = Update!MinServers(
        [names |-> names, left |-> names, direct |-> direct, at |-> 0, kind |-> Update!None, resolving |-> FALSE,
         pending |-> {}, resolved |-> {}, addressed |-> {}, warnings |-> 0, cancelled |-> FALSE, min |-> 0,
         stored |-> [p \in DOMAIN Update!ProviderOf |-> [count |-> n, usable |-> TRUE]],
         done |-> FALSE, result |-> "running", short |-> {}, tried |-> {}])
  BY DEF Update!Init
<1> DEFINE v == [names |-> names, left |-> names, direct |-> direct, at |-> 0, kind |-> Update!None, resolving |-> FALSE,
         pending |-> {}, resolved |-> {}, addressed |-> {}, warnings |-> 0, cancelled |-> FALSE, min |-> 0,
         stored |-> [p \in DOMAIN Update!ProviderOf |-> [count |-> n, usable |-> TRUE]],
         done |-> FALSE, result |-> "running", short |-> {}, tried |-> {}]
<1>2. Update!None \in HostKinds
  <2>1. Update!None \in [{} -> Update!Kinds]
    BY DEF Update!None
  <2>2. QED
    BY <2>1 DEF HostKinds
<1>3. names \in Seq(DOMAIN Update!ProviderOf) /\ n \in Nat /\ names # <<>>
  BY DEF Update!UpdateConstants
<1>4. v \in UpdStates
  BY <1>2, <1>3 DEF UpdStates
<1>5. /\ v.names = names /\ v.left = names /\ v.tried = {} /\ v.at = 0 /\ ~v.resolving /\ v.resolved = {}
      /\ v.warnings = 0 /\ v.result = "running"
  OBVIOUS
<1> HIDE DEF v
<1>6. upd = Update!MinServers(v)
  BY <1>1 DEF v
<1>7. /\ upd \in UpdStates
      /\ \A f \in {"names", "left", "direct", "at", "resolving", "resolved", "warnings", "result", "tried"} : upd[f] = v[f]
  BY <1>4, <1>6, MinServersIs
<1>8. AtWork(upd) => Progress(upd, CurrentOf(upd))
  BY <1>5, <1>7, CurrentIsProvider, FreshProgress DEF AtWork
<1>9. Cardinality(Hosts) \in Nat
  BY HostsAreFinite
<1>10. QED
  BY <1>3, <1>5, <1>7, <1>8, <1>9 DEF UpdInv, UpdQueue, Elements

(* Where a step begins.                                                      *)
LEMMA AtStep ==
  ASSUME UpdInv(upd), NEW step, Update!At(step)
  PROVE  /\ UpdBase(upd) /\ ~upd.resolving /\ upd.at < Len(CurrentOf(upd).steps)
         /\ CurrentOf(upd).steps[upd.at + 1] = step /\ Update!Current = CurrentOf(upd)
  BY DEF Update!At, UpdInv, UpdQueue, UpdBase, AtWork, Update!Current, CurrentOf

LEMMA ListedHosts == ASSUME upd \in UpdStates PROVE Update!Listed \in SUBSET Hosts
  BY DEF Update!Listed, UpdStates, HostKinds

LEMMA OnlyIs ==
  ASSUME upd \in UpdStates, NEW hosts \in SUBSET Update!Listed
  PROVE  Update!Only(hosts) \in HostKinds /\ DOMAIN Update!Only(hosts) = hosts
<1>1. PICK S \in SUBSET Hosts : upd.kind \in [S -> Update!Kinds]
  BY DEF UpdStates, HostKinds
<1>2. Update!Only(hosts) \in [hosts -> Update!Kinds] /\ hosts \in SUBSET Hosts
  BY <1>1 DEF Update!Only, Update!Listed
<1>3. QED
  BY <1>2 DEF HostKinds

(* Steps that change what is listed, or nothing.                             *)
LEMMA RelistKeeps ==
  ASSUME Update!UpdateConstants, UpdInv(upd), NEW step \in {"list", "known", "skip", "adapt"}, Update!At(step),
         NEW kind \in HostKinds, step = "adapt" => Update!Listed \cap upd.resolved \subseteq DOMAIN kind
  PROVE  UpdInv(Update!Advance([upd EXCEPT !.kind = kind]))
<1> DEFINE v == Update!Advance([upd EXCEPT !.kind = kind])
<1>0. upd \in UpdStates
  BY DEF UpdInv
<1>1. /\ AtWork(upd) /\ ~upd.resolving /\ upd.at < Len(CurrentOf(upd).steps)
      /\ CurrentOf(upd).steps[upd.at + 1] = step
  BY AtStep DEF UpdBase
<1>2. upd.at + 1 \in Nat
  BY <1>0 DEF UpdStates
<1>3. v = [upd EXCEPT !.kind = kind, !.at = upd.at + 1]
  BY <1>0 DEF Update!Advance, UpdStates
<1> HIDE DEF v
<1>4. v \in UpdStates
  BY <1>0, <1>2, <1>3 DEF UpdStates
<1>5. /\ v.at = upd.at + 1 /\ v.kind = kind
      /\ \A n \in {"names", "left", "direct", "resolving", "resolved", "warnings", "min", "result", "tried"} : v[n] = upd[n]
  BY <1>0, <1>3 DEF UpdStates
<1>6. UpdInv(v)
  BY <1>1, <1>4, <1>5, StepKeeps DEF Update!Listed
<1>7. QED
  BY <1>6 DEF v

LEMMA AdvanceKeeps ==
  ASSUME Update!UpdateConstants, UpdInv(upd), NEW step \in {"able", "credentials", "locate", "addresses", "hosts", "count", "found", "project"},
         Update!At(step), NEW addressed \in SUBSET Hosts,
         step \in {"hosts", "count"} => CurrentOf(upd).servers * Cardinality(Update!Listed) >= upd.min,
         step = "found" => Cardinality(upd.resolved) >= upd.min
  PROVE  UpdInv(Update!Advance([upd EXCEPT !.addressed = addressed]))
<1> DEFINE v == Update!Advance([upd EXCEPT !.addressed = addressed])
<1>0. upd \in UpdStates
  BY DEF UpdInv
<1>1. /\ AtWork(upd) /\ ~upd.resolving /\ upd.at < Len(CurrentOf(upd).steps)
      /\ CurrentOf(upd).steps[upd.at + 1] = step
  BY AtStep DEF UpdBase
<1>2. upd.at + 1 \in Nat
  BY <1>0 DEF UpdStates
<1>3. v = [upd EXCEPT !.addressed = addressed, !.at = upd.at + 1]
  BY <1>0 DEF Update!Advance, UpdStates
<1> HIDE DEF v
<1>4. v \in UpdStates
  BY <1>0, <1>2, <1>3 DEF UpdStates
<1>5. /\ v.at = upd.at + 1 /\ v.kind = upd.kind
      /\ \A n \in {"names", "left", "direct", "resolving", "resolved", "warnings", "min", "result", "tried"} : v[n] = upd[n]
  BY <1>0, <1>3 DEF UpdStates
<1>6. UpdInv(v)
  BY <1>1, <1>4, <1>5, StepKeeps DEF Update!Listed
<1>7. QED
  BY <1>6 DEF v

LEMMA PlainAdvance ==
  ASSUME Update!UpdateConstants, UpdInv(upd), NEW step \in {"able", "credentials", "locate", "hosts", "count", "found", "project"},
         Update!At(step), 
         step \in {"hosts", "count"} => CurrentOf(upd).servers * Cardinality(Update!Listed) >= upd.min,
         step = "found" => Cardinality(upd.resolved) >= upd.min
  PROVE  UpdInv(Update!Advance(upd))
<1>0. upd \in UpdStates
  BY DEF UpdInv
<1>1. upd.addressed \in SUBSET Hosts /\ [upd EXCEPT !.addressed = upd.addressed] = upd
  BY <1>0 DEF UpdStates
<1>2. UpdInv(Update!Advance([upd EXCEPT !.addressed = upd.addressed]))
  BY <1>1, AdvanceKeeps
<1>3. QED
  BY <1>1, <1>2

(* A shortage ends the provider.                                             *)
LEMMA AtLeastKeeps ==
  ASSUME Update!UpdateConstants, UpdInv(upd), NEW step \in {"hosts", "count", "found", "project"}, Update!At(step),
         NEW n \in Nat, Update!AtLeast(n),
         step \in {"hosts", "count"} => CurrentOf(upd).servers * Cardinality(Update!Listed) >= n,
         step = "found" => Cardinality(upd.resolved) = n
  PROVE  UpdInv(upd')
<1>0. upd \in UpdStates /\ UpdBase(upd) /\ Update!Listed \in SUBSET Hosts
  BY AtStep, ListedHosts DEF UpdInv
<1>1. CASE n < upd.min
  BY <1>0, <1>1, UpdFails DEF Update!AtLeast
<1>2. CASE ~(n < upd.min)
  <2>1. upd.min \in Nat /\ n >= upd.min
    BY <1>0, <1>2 DEF UpdStates
  <2>2. Cardinality(Update!Listed) \in Nat /\ CurrentOf(upd).servers \in Nat
    BY <1>0, HostsAreFinite, CurrentIsProvider DEF UpdBase, AtWork, IsProvider
  <2>3. CurrentOf(upd).servers * Cardinality(Update!Listed) \in Nat
    BY <2>2
  <2>4. /\ step \in {"hosts", "count"} => CurrentOf(upd).servers * Cardinality(Update!Listed) >= upd.min
        /\ step = "found" => Cardinality(upd.resolved) >= upd.min
    BY <2>1, <2>3
  <2>5. QED
    BY <1>2, <2>4, PlainAdvance DEF Update!AtLeast
<1>3. QED
  BY <1>1, <1>2

LEMMA CountsAreNat ==
  ASSUME Update!UpdateConstants, UpdInv(upd), AtWork(upd)
  PROVE  /\ Update!Cardinality(Update!Listed) = Cardinality(Update!Listed)
         /\ Update!Cardinality(upd.resolved) = Cardinality(upd.resolved)
         /\ Cardinality(Update!Listed) \in Nat /\ Cardinality(upd.resolved) \in Nat
         /\ Cardinality(Update!Listed) <= Cardinality(Hosts)
         /\ CurrentOf(upd).servers \in {1, 2, 6} /\ CurrentOf(upd).ratio \in 0 .. 10
<1>1. upd \in UpdStates
  BY DEF UpdInv
<1>2. upd.resolved \in SUBSET Hosts /\ Update!Listed \in SUBSET Hosts
  BY <1>1, ListedHosts DEF UpdStates
<1>3. QED
  BY <1>1, <1>2, HostsAreFinite, CurrentIsProvider, UpdateFiniteSets DEF AtWork, IsProvider

LEMMA UpdCounts ==
  ASSUME Update!UpdateConstants, UpdInv(upd),
         Update!Project \/ Update!CountHosts \/ Update!CountServers \/ Update!CountFound
  PROVE  UpdInv(upd')
<1> DEFINE c == Cardinality(Update!Listed)
           k == CurrentOf(upd).servers
<1>1. AtWork(upd) /\ Update!Current = CurrentOf(upd)
  BY AtStep DEF Update!Project, Update!CountHosts, Update!CountServers, Update!CountFound, UpdBase
<1>2. /\ Update!Cardinality(Update!Listed) = c /\ Update!Cardinality(upd.resolved) = Cardinality(upd.resolved)
      /\ c \in Nat /\ Cardinality(upd.resolved) \in Nat /\ k \in {1, 2, 6}
  BY <1>1, CountsAreNat
<1>3. CASE Update!Project
  <2>1. 10 * c \in Nat
    BY <1>2
  <2>2. Update!At("project") /\ Update!AtLeast(10 * c)
    BY <1>2, <1>3 DEF Update!Project
  <2> HIDE DEF c
  <2>3. QED
    BY <2>1, <2>2, AtLeastKeeps
<1>4. CASE Update!CountHosts
  <2>1. Update!At("hosts") /\ Update!AtLeast(c)
    BY <1>2, <1>4 DEF Update!CountHosts
  <2>2. k * c >= c
    <3> HIDE DEF c, k
    <3>1. QED
      BY <1>2
  <2>3. QED
    BY <1>2, <2>1, <2>2, AtLeastKeeps
<1>5. CASE Update!CountServers
  <2>1. Update!At("count") /\ Update!AtLeast(k * c)
    BY <1>1, <1>2, <1>5 DEF Update!CountServers
  <2>2. k * c \in Nat /\ k * c >= k * c
    <3> HIDE DEF c, k
    <3>1. QED
      BY <1>2
  <2> DEFINE n == k * c
  <2>3. n \in Nat /\ Update!AtLeast(n) /\ CurrentOf(upd).servers * Cardinality(Update!Listed) >= n
    BY <2>1, <2>2
  <2> HIDE DEF n
  <2>4. QED
    BY <2>1, <2>3, AtLeastKeeps
<1>6. CASE Update!CountFound
  <2>1. Update!At("found") /\ Update!AtLeast(Cardinality(upd.resolved))
    BY <1>2, <1>6 DEF Update!CountFound
  <2>2. QED
    BY <1>2, <2>1, AtLeastKeeps
<1>7. QED
  BY <1>3, <1>4, <1>5, <1>6

(* The steps that change what is listed.                                     *)
LEMMA UpdLists ==
  ASSUME Update!UpdateConstants, UpdInv(upd), Update!List \/ Update!Known \/ Update!Skip \/ Update!Adapt
  PROVE  UpdInv(upd')
<1>0. upd \in UpdStates /\ Update!Listed \in SUBSET Hosts
  BY ListedHosts DEF UpdInv
<1>1. CASE Update!List
  <2>1. Update!At("list") /\ UpdBase(upd)
    BY <1>1, AtStep DEF Update!List
  <2>2. CASE upd' = Update!Failed(upd)
    BY <2>1, <2>2, UpdFails
  <2>3. CASE \E hosts \in SUBSET Hosts : \E kind \in [hosts -> Update!Kinds] :
               upd' = Update!Advance([upd EXCEPT !.kind = kind])
    <3>1. PICK hosts \in SUBSET Hosts : \E kind \in [hosts -> Update!Kinds] :
               upd' = Update!Advance([upd EXCEPT !.kind = kind])
      BY <2>3
    <3>2. PICK kind \in [hosts -> Update!Kinds] : upd' = Update!Advance([upd EXCEPT !.kind = kind])
      BY <3>1
    <3>3. kind \in HostKinds
      BY DEF HostKinds
    <3>4. QED
      BY <2>1, <3>2, <3>3, RelistKeeps
  <2>4. QED
    BY <1>1, <2>2, <2>3 DEF Update!List
<1>2. CASE Update!Known
  <2>1. Update!At("known")
    BY <1>2 DEF Update!Known
  <2>2. PICK kind \in [Hosts -> {"good", "silent"}] : upd' = Update!Advance([upd EXCEPT !.kind = kind])
    BY <1>2 DEF Update!Known
  <2>3. kind \in [Hosts -> Update!Kinds]
    BY DEF Update!Kinds
  <2>4. kind \in HostKinds
    BY <2>3 DEF HostKinds
  <2>5. QED
    BY <2>1, <2>2, <2>4, RelistKeeps
<1>3. CASE Update!Skip
  <2> DEFINE hosts == {h \in Update!Listed : upd.kind[h] # "ignored"}
  <2>1. Update!At("skip") /\ upd' = Update!Advance([upd EXCEPT !.kind = Update!Only(hosts)])
    BY <1>3 DEF Update!Skip
  <2>2. hosts \in SUBSET Update!Listed
    OBVIOUS
  <2>3. Update!Only(hosts) \in HostKinds
    BY <1>0, <2>2, OnlyIs
  <2> HIDE DEF hosts
  <2>4. QED
    BY <2>1, <2>3, RelistKeeps
<1>4. CASE Update!Adapt
  <2> DEFINE hosts == Update!Listed \cap upd.resolved
  <2>1. Update!At("adapt") /\ upd' = Update!Advance([upd EXCEPT !.kind = Update!Only(hosts)])
    BY <1>4 DEF Update!Adapt
  <2>2. hosts \in SUBSET Update!Listed
    OBVIOUS
  <2>3. Update!Only(hosts) \in HostKinds /\ DOMAIN Update!Only(hosts) = hosts
    BY <1>0, <2>2, OnlyIs
  <2>4. Update!Listed \cap upd.resolved \subseteq DOMAIN Update!Only(hosts)
    BY <2>3
  <2> HIDE DEF hosts
  <2>5. QED
    BY <2>1, <2>3, <2>4, RelistKeeps
<1>5. QED
  BY <1>1, <1>2, <1>3, <1>4

(* The other steps.                                                          *)
LEMMA UpdOtherSteps ==
  ASSUME Update!UpdateConstants, UpdInv(upd),
         Update!Refuse \/ Update!Able \/ Update!Credentials \/ Update!Addresses \/ Update!Locate
  PROVE  UpdInv(upd')
<1>0. upd \in UpdStates /\ Update!Listed \in SUBSET Hosts
  BY ListedHosts DEF UpdInv
<1>1. CASE Update!Refuse
  BY <1>1, AtStep, UpdFails DEF Update!Refuse
<1>2. CASE Update!Able
  <2>1. Update!At("able") /\ UpdBase(upd)
    BY <1>2, AtStep DEF Update!Able
  <2>2. UpdInv(Update!Advance(upd))
    BY <2>1, PlainAdvance
  <2>3. QED
    BY <1>2, <2>1, <2>2, UpdFails DEF Update!Able
<1>3. CASE Update!Credentials
  <2>1. Update!At("credentials") /\ UpdBase(upd)
    BY <1>3, AtStep DEF Update!Credentials
  <2>2. UpdInv(Update!Advance(upd))
    BY <2>1, PlainAdvance
  <2>3. QED
    BY <1>3, <2>1, <2>2, NextProviderKeeps DEF Update!Credentials
<1>4. CASE Update!Addresses
  <2>1. Update!At("addresses") /\ upd' = Update!Advance([upd EXCEPT !.addressed = Update!Listed])
    BY <1>4 DEF Update!Addresses
  <2>2. QED
    BY <1>0, <2>1, AdvanceKeeps
<1>5. CASE Update!Locate
  <2>1. Update!At("locate") /\ UpdBase(upd)
    BY <1>5, AtStep DEF Update!Locate
  <2>2. UpdInv(Update!Advance(upd))
    BY <2>1, PlainAdvance
  <2>3. QED
    BY <1>5, <2>1, <2>2, UpdFails DEF Update!Locate
<1>6. QED
  BY <1>1, <1>2, <1>3, <1>4, <1>5

(* The resolution.                                                           *)
LEMMA UpdResolve == ASSUME Update!UpdateConstants, UpdInv(upd), Update!Resolve PROVE UpdInv(upd')
<1>0. upd \in UpdStates /\ Update!Listed \in SUBSET Hosts
  BY ListedHosts DEF UpdInv
<1>1. Update!At("resolve") /\ upd' = [upd EXCEPT !.resolving = TRUE, !.pending = Update!Listed]
  BY DEF Update!Resolve
<1>2. /\ UpdBase(upd) /\ ~upd.resolving /\ upd.at < Len(CurrentOf(upd).steps)
      /\ CurrentOf(upd).steps[upd.at + 1] = "resolve"
  BY <1>1, AtStep
<1>3. upd' \in UpdStates
  BY <1>0, <1>1 DEF UpdStates
<1>4. /\ upd'.resolving /\ upd'.pending = DOMAIN upd.kind
      /\ \A n \in {"names", "left", "direct", "at", "kind", "resolved", "warnings", "min", "result", "tried"} : upd'[n] = upd[n]
  BY <1>0, <1>1 DEF UpdStates, Update!Listed
<1>5. CurrentOf(upd') = CurrentOf(upd)
  BY <1>4 DEF CurrentOf
<1>6. Progress(upd, CurrentOf(upd))
  BY <1>2 DEF UpdInv, UpdBase
<1>7. Progress(upd', CurrentOf(upd))
  <2> DEFINE p == CurrentOf(upd)
  <2> HIDE DEF p
  <2>1. Progress(upd, p) /\ upd.at < Len(p.steps) /\ p.steps[upd.at + 1] = "resolve"
    BY <1>2, <1>6 DEF p
  <2>2. Progress(upd', p)
    BY <1>2, <1>4, <2>1 DEF Progress
  <2>3. QED
    BY <2>2 DEF p
<1>8. QED
  BY <1>2, <1>3, <1>4, <1>5, <1>7 DEF UpdInv, UpdQueue, AtWork, UpdBase

LEMMA MaxFailsIsLow ==
  ASSUME Update!UpdateConstants, UpdInv(upd), AtWork(upd)
  PROVE  Update!MaxFails \in Nat /\ Update!MaxFails <= Cardinality(Hosts)
<1> DEFINE c == Cardinality(Update!Listed)
           r == CurrentOf(upd).ratio
<1>1. Update!Current = CurrentOf(upd)
  BY DEF Update!Current, CurrentOf
<1>2. c \in Nat /\ r \in 0 .. 10 /\ c <= Cardinality(Hosts) /\ Update!MaxFails = (r * c) \div 10
  BY <1>1, CountsAreNat DEF Update!MaxFails
<1>3. Cardinality(Hosts) \in Nat
  BY HostsAreFinite
<1> HIDE DEF c, r
<1>4. r * c \in Nat /\ r * c <= 10 * c
  <2>1. r = 0 \/ r = 1 \/ r = 2 \/ r = 3 \/ r = 4 \/ r = 5 \/ r = 6 \/ r = 7 \/ r = 8 \/ r = 9 \/ r = 10
    BY <1>2
  <2>2. QED
    BY <1>2, <2>1
<1> DEFINE m == r * c
<1>5. m \in Nat /\ m <= 10 * c
  BY <1>4
<1> HIDE DEF m
<1>6. m \div 10 \in Nat /\ m \div 10 <= c
  BY <1>2, <1>5
<1>7. m \div 10 \in Nat /\ m \div 10 <= Cardinality(Hosts)
  BY <1>2, <1>3, <1>6
<1>8. QED
  BY <1>2, <1>7 DEF m

LEMMA UpdAnswers ==
  ASSUME Update!UpdateConstants, UpdInv(upd), NEW h \in Hosts, Update!Found(h) \/ Update!NotFound(h)
  PROVE  UpdInv(upd')
<1>0. upd \in UpdStates /\ upd.resolving /\ h \in upd.pending /\ upd.left # <<>> /\ AtWork(upd)
  BY DEF UpdInv, Update!Found, Update!NotFound, AtWork
<1>1. Cardinality(Hosts) \in Nat /\ Update!MaxFails \in Nat /\ Update!MaxFails <= Cardinality(Hosts)
  BY <1>0, HostsAreFinite, MaxFailsIsLow
<1> DEFINE warnings == IF upd.warnings < Update!MaxFails THEN upd.warnings + 1 ELSE upd.warnings
           cancelled == upd.cancelled \/ warnings = Update!MaxFails
<1>2. upd.warnings + 1 \in Nat /\ warnings \in Nat /\ warnings <= Cardinality(Hosts)
  BY <1>0, <1>1 DEF UpdInv, UpdStates
<1>3. \/ upd' = [upd EXCEPT !.pending = upd.pending \ {h}, !.resolved = upd.resolved \cup {h}]
      \/ upd' = [upd EXCEPT !.pending = upd.pending \ {h}, !.warnings = warnings, !.cancelled = cancelled]
  BY <1>0 DEF Update!Found, Update!NotFound, UpdStates
<1>4. cancelled \in BOOLEAN
  BY <1>0 DEF UpdStates
<1> HIDE DEF warnings, cancelled
<1>5. upd' \in UpdStates
  <2>1. upd.pending \ {h} \in SUBSET Hosts /\ upd.resolved \cup {h} \in SUBSET Hosts
    BY <1>0 DEF UpdStates
  <2>2. CASE upd' = [upd EXCEPT !.pending = upd.pending \ {h}, !.resolved = upd.resolved \cup {h}]
    BY <1>0, <2>1, <2>2 DEF UpdStates
  <2>3. CASE upd' = [upd EXCEPT !.pending = upd.pending \ {h}, !.warnings = warnings, !.cancelled = cancelled]
    BY <1>0, <1>2, <1>4, <2>1, <2>3 DEF UpdStates
  <2>4. QED
    BY <1>3, <2>2, <2>3
<1>6. /\ upd'.pending = upd.pending \ {h} /\ upd'.resolved \in {upd.resolved, upd.resolved \cup {h}}
      /\ upd'.warnings \in {upd.warnings, warnings}
      /\ \A n \in {"names", "left", "direct", "at", "kind", "resolving", "min", "result", "tried"} : upd'[n] = upd[n]
  BY <1>0, <1>3, ZenonT(30) DEF UpdStates
<1>7. CurrentOf(upd') = CurrentOf(upd)
  BY <1>6 DEF CurrentOf
<1>8. Cardinality(upd.resolved) \in Nat /\ Cardinality(upd'.resolved) \in Nat /\ Cardinality(upd.resolved) <= Cardinality(upd'.resolved)
  <2>1. upd.resolved \in SUBSET Hosts /\ upd'.resolved \in SUBSET Hosts /\ upd.resolved \subseteq upd'.resolved
    BY <1>0, <1>6 DEF UpdStates
  <2>2. QED
    BY <2>1, HostsAreFinite, FS_Subset
<1>9. upd.min \in Nat
  BY <1>0 DEF UpdStates
<1>10. Progress(upd', CurrentOf(upd))
  <2> DEFINE p == CurrentOf(upd)
  <2>1. Progress(upd, p)
    BY <1>0 DEF UpdInv
  <2> HIDE DEF p
  <2>2. Taken(p.steps, upd'.at, "found") => Cardinality(upd'.resolved) >= upd'.min
    BY <1>6, <1>8, <1>9, <2>1 DEF Progress
  <2>3. NoneResolved(p.steps, upd'.at) => upd'.pending \cup upd'.resolved \subseteq DOMAIN upd'.kind
    BY <1>0, <1>6, <2>1 DEF Progress
  <2>4. Progress(upd', p)
    BY <1>0, <1>6, <2>1, <2>2, <2>3 DEF Progress
  <2>5. QED
    BY <2>4 DEF p
<1>11. QED
  BY <1>0, <1>2, <1>5, <1>6, <1>7, <1>10 DEF UpdInv, UpdQueue, AtWork

LEMMA UpdResolved == ASSUME Update!UpdateConstants, UpdInv(upd), Update!Resolved PROVE UpdInv(upd')
<1>0. upd \in UpdStates /\ upd.resolving /\ upd.pending = {} /\ upd.left # <<>> /\ AtWork(upd)
  BY DEF UpdInv, Update!Resolved, AtWork
<1>1. upd.at + 1 \in Nat
  BY <1>0 DEF UpdStates
<1>2. upd' = [upd EXCEPT !.resolving = FALSE, !.at = upd.at + 1]
  BY <1>0 DEF Update!Resolved, Update!Advance, UpdStates
<1>3. upd' \in UpdStates
  BY <1>0, <1>1, <1>2 DEF UpdStates
<1>4. /\ ~upd'.resolving /\ upd'.at = upd.at + 1
      /\ \A n \in {"names", "left", "direct", "kind", "pending", "resolved", "warnings", "min", "result", "tried"} : upd'[n] = upd[n]
  BY <1>0, <1>2 DEF UpdStates
<1>5. CurrentOf(upd') = CurrentOf(upd)
  BY <1>4 DEF CurrentOf
<1>6. Progress(upd', CurrentOf(upd))
  <2> DEFINE p == CurrentOf(upd)
  <2>1. Progress(upd, p) /\ upd.at \in Nat /\ Len(p.steps) \in Nat
    BY <1>0, CurrentIsProvider DEF UpdInv, UpdStates, IsProvider
  <2> HIDE DEF p
  <2>2. upd.at < Len(p.steps) /\ p.steps[upd.at + 1] = "resolve"
    BY <1>0, <2>1 DEF Progress
  <2>3. /\ Counted(p.steps, upd.at + 1) => Counted(p.steps, upd.at)
        /\ ResolvedOnce(p.steps, upd.at + 1) => NoneResolved(p.steps, upd.at)
        /\ ~NoneResolved(p.steps, upd.at + 1)
        /\ \A s : Taken(p.steps, upd.at + 1, s) => Taken(p.steps, upd.at, s) \/ s = "resolve"
    BY <2>1, <2>2, StepsCount
  <2>4. upd'.at \in 0 .. Len(p.steps) /\ ~Taken(p.steps, upd'.at, "refuse")
    BY <1>4, <2>1, <2>2, <2>3 DEF Progress
  <2>5. Progress(upd', p)
    BY <1>0, <1>4, <2>1, <2>3, <2>4 DEF Progress
  <2>6. QED
    BY <2>5 DEF p
<1>7. QED
  BY <1>0, <1>3, <1>4, <1>5, <1>6 DEF UpdInv, UpdQueue, AtWork

(* The end of a provider: its servers are enough, but for airvpn.            *)
LEMMA EnoughServers ==
  ASSUME Update!UpdateConstants, UpdInv(upd), AtWork(upd), ~upd.resolving, upd.at = Len(CurrentOf(upd).steps),
         CurrentOf(upd).servers * Cardinality(Update!Listed) < upd.min
  PROVE  Head(upd.left) = "airvpn"
<1> DEFINE p == CurrentOf(upd)
<1>0. upd \in UpdStates /\ upd.min \in Nat
  BY DEF UpdInv, UpdStates
<1>1. /\ Progress(upd, p) /\ p.servers \in {1, 2, 6}
      /\ Cardinality(Update!Listed) \in Nat /\ Cardinality(upd.resolved) \in Nat
  BY CountsAreNat DEF UpdInv
<1>2. Returns(p) \/ Head(upd.left) = "airvpn"
  BY <1>0, CurrentIsProvider DEF AtWork
<1>3. p.servers * Cardinality(Update!Listed) < upd.min /\ upd.at = Len(p.steps)
  OBVIOUS
<1> HIDE DEF p
<1>4. p.servers * Cardinality(Update!Listed) \in Nat /\ p.servers * Cardinality(Update!Listed) >= Cardinality(Update!Listed)
  BY <1>1
<1>5. ~Counted(p.steps, upd.at)
  BY <1>0, <1>1, <1>3, <1>4 DEF Progress, Update!Listed
<1>6. ~(ResolvedOnce(p.steps, upd.at) /\ Taken(p.steps, upd.at, "found"))
  <2>1. SUFFICES ASSUME ResolvedOnce(p.steps, upd.at), Taken(p.steps, upd.at, "found") PROVE FALSE
    OBVIOUS
  <2>2. upd.resolved \subseteq Update!Listed /\ Cardinality(upd.resolved) >= upd.min
    BY <1>1, <2>1 DEF Progress, Update!Listed
  <2>3. IsFiniteSet(Update!Listed)
    BY <1>0, ListedHosts, HostsAreFinite
  <2>4. Cardinality(upd.resolved) <= Cardinality(Update!Listed)
    BY <2>2, <2>3, FS_Subset
  <2>5. QED
    BY <1>0, <1>1, <1>3, <1>4, <2>2, <2>4
<1>7. QED
  BY <1>1, <1>2, <1>3, <1>5, <1>6 DEF Returns, Progress

LEMMA UpdEndsProvider == ASSUME Update!UpdateConstants, UpdInv(upd), Update!UpdateProvider PROVE UpdInv(upd')
<1>0. /\ upd \in UpdStates /\ AtWork(upd) /\ ~upd.resolving /\ Update!Current = CurrentOf(upd)
      /\ upd.at = Len(CurrentOf(upd).steps)
  BY DEF UpdInv, Update!UpdateProvider, AtWork, Update!Current, CurrentOf
<1>1. UpdBase(upd)
  BY <1>0 DEF UpdInv, UpdBase, UpdQueue, Update!UpdateProvider
<1>2. CASE upd' = Update!Failed(upd)
  BY <1>1, <1>2, UpdFails
<1>3. CASE upd' # Update!Failed(upd)
  <2> DEFINE n == CurrentOf(upd).servers * Cardinality(Update!Listed)
             q == Head(upd.left)
             one == [count |-> n, usable |-> TRUE]
             short == IF n < upd.min THEN upd.short \cup {q} ELSE upd.short
             u == [upd EXCEPT !.stored[q] = one, !.short = short]
  <2>1. Update!Usable
    BY <1>3 DEF Update!UpdateProvider, Update!Usable, Update!HasMinimumInformation
  <2>2. /\ Cardinality(Update!Listed) \in Nat /\ CurrentOf(upd).servers \in {1, 2, 6}
        /\ Update!Cardinality(Update!Listed) = Cardinality(Update!Listed)
    BY <1>0, CountsAreNat
  <2>3. n \in Nat
    BY <2>2
  <2>4. q \in DOMAIN Update!ProviderOf
    BY <1>0, CurrentIsProvider DEF AtWork
  <2>5. short \in SUBSET {"airvpn"}
    BY <1>0, EnoughServers DEF UpdStates
  <2>6. Update!Usable = TRUE
    BY <2>1 DEF Update!Usable
  <2>7. upd' = Update!NextProvider(u) \/ upd' = Update!Failed(u)
    BY <1>0, <1>3, <2>2, <2>6 DEF Update!UpdateProvider
  <2> HIDE DEF n, short, q
  <2>8. one \in [count : Nat, usable : {TRUE}]
    BY <2>3
  <2> HIDE DEF one
  <2>9. upd.stored \in [DOMAIN Update!ProviderOf -> [count : Nat, usable : {TRUE}]]
    BY <1>0 DEF UpdStates
  <2>10. [upd.stored EXCEPT ![q] = one] \in [DOMAIN Update!ProviderOf -> [count : Nat, usable : {TRUE}]]
    BY <2>4, <2>8, <2>9
  <2> DEFINE stored == [upd.stored EXCEPT ![q] = one]
  <2>11. u = [upd EXCEPT !.stored = stored, !.short = short]
    BY <1>0 DEF UpdStates
  <2> HIDE DEF stored, u
  <2>12. stored \in [DOMAIN Update!ProviderOf -> [count : Nat, usable : {TRUE}]]
    BY <2>10 DEF stored
  <2>13. u \in UpdStates
    BY <1>0, <2>5, <2>11, <2>12 DEF UpdStates
  <2>14. \A f \in {"names", "left", "direct", "result", "tried"} : u[f] = upd[f]
    BY <1>0, <2>11 DEF UpdStates
  <2>15. UpdBase(u)
    BY <1>1, <2>13, <2>14 DEF UpdBase, AtWork
  <2>16. QED
    BY <2>7, <2>15, NextProviderKeeps, UpdFails
<1>4. QED
  BY <1>2, <1>3

LEMMA UpdStep == ASSUME Update!UpdateConstants, UpdInv(upd), [Update!Next]_upd PROVE UpdInv(upd')
<1>0. upd \in UpdStates
  BY DEF UpdInv
<1>1. CASE UNCHANGED upd
  BY <1>1
<1>2. CASE Update!Cancel
  <2>1. upd' = [upd EXCEPT !.done = TRUE]
    BY <1>2 DEF Update!Cancel
  <2>2. upd' \in UpdStates
    BY <1>0, <2>1 DEF UpdStates
  <2>3. \A n \in {"names", "left", "direct", "at", "kind", "resolving", "pending", "resolved", "warnings", "min", "result", "tried"} :
          upd'[n] = upd[n]
    BY <1>0, <2>1 DEF UpdStates
  <2>4. QED
    BY <2>2, <2>3 DEF UpdInv, UpdQueue, AtWork, Progress, CurrentOf
<1>3. CASE Update!FetchManifest
  <2>0. upd.result = "running" /\ upd.direct = "wanted"
    BY <1>3 DEF Update!FetchManifest
  <2>1. CASE upd' = [upd EXCEPT !.direct = "here"]
    <3>1. upd' \in UpdStates
      BY <1>0, <2>1 DEF UpdStates
    <3>2. /\ upd'.direct = "here"
          /\ \A n \in {"names", "left", "at", "resolving", "resolved", "warnings", "result", "tried"} : upd'[n] = upd[n]
      BY <1>0, <2>1 DEF UpdStates
    <3>3. AtWork(upd') => Progress(upd', CurrentOf(upd'))
      BY <2>0, <3>1, <3>2, CurrentIsProvider, FreshProgress DEF UpdInv, AtWork
    <3>4. QED
      BY <2>0, <3>1, <3>2, <3>3 DEF UpdInv, UpdQueue, AtWork
  <2>2. CASE upd' = [upd EXCEPT !.result = "error", !.left = <<>>]
    <3>1. <<>> \in Seq(DOMAIN Update!ProviderOf)
      OBVIOUS
    <3>2. upd' \in UpdStates
      BY <1>0, <2>2, <3>1 DEF UpdStates
    <3>3. /\ upd'.result = "error" /\ upd'.left = <<>>
          /\ \A n \in {"names", "direct", "at", "resolving", "resolved", "warnings", "tried"} : upd'[n] = upd[n]
      BY <1>0, <2>2 DEF UpdStates
    <3>4. QED
      BY <2>0, <3>2, <3>3 DEF UpdInv, UpdQueue, AtWork
  <2>3. QED
    BY <1>3, <2>1, <2>2 DEF Update!FetchManifest
<1>4. CASE Update!Return
  <2>1. upd.result = "running" /\ upd.left = <<>> /\ upd' = [upd EXCEPT !.result = "nil"]
    BY <1>4 DEF Update!Return
  <2>2. upd' \in UpdStates
    BY <1>0, <2>1 DEF UpdStates
  <2>3. /\ upd'.result = "nil"
        /\ \A n \in {"names", "left", "direct", "at", "resolving", "resolved", "warnings", "tried"} : upd'[n] = upd[n]
    BY <1>0, <2>1 DEF UpdStates
  <2>4. Elements(upd.left) = {}
    BY <2>1 DEF Elements
  <2>5. QED
    BY <2>1, <2>2, <2>3, <2>4 DEF UpdInv, UpdQueue, AtWork
<1>5. CASE Update!List \/ Update!Known \/ Update!Skip \/ Update!Adapt
  BY <1>5, UpdLists
<1>6. CASE Update!Refuse \/ Update!Able \/ Update!Credentials \/ Update!Addresses \/ Update!Locate
  BY <1>6, UpdOtherSteps
<1>7. CASE Update!Project \/ Update!CountHosts \/ Update!CountServers \/ Update!CountFound
  BY <1>7, UpdCounts
<1>8. CASE Update!Resolve
  BY <1>8, UpdResolve
<1>9. CASE Update!Resolved
  BY <1>9, UpdResolved
<1>10. CASE \E h \in Hosts : Update!Found(h) \/ Update!NotFound(h)
  BY <1>10, UpdAnswers
<1>11. CASE Update!UpdateProvider
  BY <1>11, UpdEndsProvider
<1>12. QED
  BY <1>1, <1>2, <1>3, <1>4, <1>5, <1>6, <1>7, <1>8, <1>9, <1>10, <1>11 DEF Update!Next

LEMMA UpdInvIsEnough ==
  ASSUME Update!UpdateConstants, UpdInv(upd)
  PROVE  /\ Update!TypeOK
         /\ Update!StoredServersAreUsable /\ Update!EnoughServersAreKept /\ Update!OthersAreUpdated
<1>0. upd \in UpdStates
  BY DEF UpdInv
<1>1. upd.warnings \in 0 .. Update!Cardinality(Hosts)
  BY <1>0, HostsAreFinite, UpdateFiniteSets DEF UpdInv, UpdStates
<1>2. Update!TypeOK
  BY <1>0, <1>1, ListedHosts DEF UpdStates, Update!TypeOK
<1>3. Update!StoredServersAreUsable
  BY <1>0 DEF UpdStates, Update!StoredServersAreUsable
<1>4. Update!EnoughServersAreKept /\ Update!OthersAreUpdated
  BY <1>0 DEF UpdStates, UpdInv, UpdQueue, Elements, Update!EnoughServersAreKept, Update!OthersAreUpdated
<1>5. QED
  BY <1>2, <1>3, <1>4

LEMMA UpdInvariance == ASSUME Update!UpdateConstants PROVE Update!Spec => []UpdInv(upd)
<1>1. Update!Init => UpdInv(upd)
  BY UpdStart
<1>2. UpdInv(upd) /\ [Update!Next]_upd => UpdInv(upd)'
  BY UpdStep
<1>3. QED
  BY <1>1, <1>2, PTL DEF Update!Spec

-----------------------------------------------------------------------------
(* ProtonLogin.                                                              *)

LoginPlaces ==
    {"version", "sessionID", "unauthSession", "cookieToken", "authInfo", "auth", "secondFactor", "scopes", "servers",
     "refresh"}
Tokens == {"none", "anonymous", "partial", "login", "refreshed"}
LoginStates ==
    [twoFA : SUBSET ProtonSession!Methods, vpn : BOOLEAN, late : BOOLEAN, genuine : BOOLEAN,
     totp : ProtonSession!Totps, start : Nat, now : Nat, at : LoginPlaces, sent : BOOLEAN, challenged : BOOLEAN,
     session : Nat, mine : Nat, carried : Nat, rotations : Nat, challenges : Nat, token : Tokens, issued : Tokens,
     codeAt : Nat, codeSent : BOOLEAN, proven : BOOLEAN,
     why : {"nothing", "fault", "cancelled", "challengedTwice", "notProven", "noScope", "noUsableCode",
            "unsupportedMethod", "staleCode"},
     result : {"running", "error", "servers"}]

(* Whom a failure is to be blamed on.                                        *)
Blame(s, why) ==
    /\ why = "staleCode" => s.challenges > 0 \/ s.totp = "code"
    /\ why = "notProven" => ~s.genuine
    /\ why = "noScope" => ~s.vpn
    /\ why = "noUsableCode" => s.twoFA # {} /\ s.totp \notin {"secret", "code"}
    /\ why = "unsupportedMethod" => s.twoFA # {} /\ "totp" \notin s.twoFA

(* The client has the session and the token that were issued last; a code is *)
(* made after the server has proven that it knows the password, and grows    *)
(* old by a challenge only.                                                  *)
LoginBase(s) ==
    /\ s \in LoginStates /\ s.session = s.mine /\ s.token = s.issued
    /\ s.at \in {"secondFactor", "scopes"} \/ s.codeSent => s.proven
    /\ s.at = "secondFactor" =>
         s.totp \in {"secret", "code"} /\ (s.totp = "secret" /\ s.challenges = 0 => s.codeAt = s.now)

LoginInv(s) ==
    /\ LoginBase(s) /\ (s.sent => s.carried = s.mine)
    /\ s.result = "error" => s.why # "nothing" /\ Blame(s, s.why)

LEMMA LoginStart == ASSUME ProtonSession!LoginConstants, ProtonSession!Init PROVE LoginInv(login)
<1>1. PICK twoFA \in SUBSET ProtonSession!Methods, vpn \in BOOLEAN, genuine \in BOOLEAN, late \in BOOLEAN,
           totp \in ProtonSession!Totps, start \in 0 .. Period - 1 :
        login = [twoFA |-> twoFA, vpn |-> vpn, late |-> late, genuine |-> genuine, totp |-> totp,
                 start |-> start, now |-> start, at |-> "version", sent |-> FALSE, challenged |-> FALSE,
                 session |-> 0, mine |-> 0, carried |-> 0, rotations |-> 0, challenges |-> 0,
                 token |-> "none", issued |-> "none", codeAt |-> 0, codeSent |-> FALSE, proven |-> FALSE,
                 why |-> "nothing", result |-> "running"]
  BY DEF ProtonSession!Init
<1>2. start \in Nat
  BY DEF ProtonSession!LoginConstants
<1>3. login \in LoginStates
  BY <1>1, <1>2 DEF LoginStates, LoginPlaces, Tokens
<1>4. /\ login.session = 0 /\ login.mine = 0 /\ login.token = "none" /\ login.issued = "none" /\ login.at = "version"
      /\ ~login.codeSent /\ ~login.sent /\ login.result = "running"
  BY <1>1
<1>5. QED
  BY <1>3, <1>4 DEF LoginInv, LoginBase

LEMMA RotatedIs ==
  ASSUME NEW s, LoginBase(s), NEW r \in ProtonSession!Rotated(s)
  PROVE  /\ LoginBase(r)
         /\ \A n \in {"twoFA", "vpn", "late", "genuine", "totp", "start", "now", "at", "sent", "challenged", "challenges",
                      "token", "codeAt", "codeSent", "proven", "result"} : r[n] = s[n]
<1>0. s \in LoginStates
  BY DEF LoginBase
<1>1. CASE r = s
  BY <1>1
<1>2. CASE r = [s EXCEPT !.session = s.session + 1, !.mine = s.session + 1, !.rotations = s.rotations + 1]
  <2>1. s.session + 1 \in Nat /\ s.rotations + 1 \in Nat
    BY <1>0 DEF LoginStates
  <2>2. r \in LoginStates
    BY <1>0, <1>2, <2>1 DEF LoginStates
  <2>3. /\ r.session = s.session + 1 /\ r.mine = s.session + 1
        /\ \A n \in {"twoFA", "vpn", "late", "genuine", "totp", "start", "now", "at", "sent", "challenged", "challenges",
                     "token", "issued", "codeAt", "codeSent", "proven", "result"} : r[n] = s[n]
    BY <1>0, <1>2 DEF LoginStates
  <2>4. QED
    BY <2>2, <2>3 DEF LoginBase
<1>3. QED
  BY <1>0, <1>1, <1>2 DEF ProtonSession!Rotated, LoginStates

LEMMA LoginGoes ==
  ASSUME NEW s, LoginBase(s), s.result = "running", NEW at \in LoginPlaces,
         at \in {"secondFactor", "scopes"} => s.proven,
         at = "secondFactor" =>
           s.totp \in {"secret", "code"} /\ (s.totp = "secret" /\ s.challenges = 0 => s.codeAt = s.now)
  PROVE  LoginInv(ProtonSession!Go(s, at))
<1> DEFINE g == ProtonSession!Go(s, at)
<1>0. s \in LoginStates
  BY DEF LoginBase
<1>1. g = [s EXCEPT !.at = at, !.sent = FALSE, !.challenged = FALSE]
  BY DEF ProtonSession!Go
<1> HIDE DEF g
<1>2. g \in LoginStates
  BY <1>0, <1>1 DEF LoginStates
<1>3. /\ g.at = at /\ ~g.sent
      /\ \A n \in {"twoFA", "vpn", "genuine", "totp", "now", "session", "mine", "challenges", "token", "issued",
                   "codeAt", "codeSent", "proven", "result"} : g[n] = s[n]
  BY <1>0, <1>1 DEF LoginStates
<1>4. LoginInv(g)
  BY <1>2, <1>3 DEF LoginInv, LoginBase
<1>5. QED
  BY <1>4 DEF g

LEMMA LoginFails ==
  ASSUME NEW s, LoginBase(s),
         NEW why \in {"fault", "cancelled", "challengedTwice", "notProven", "noScope", "noUsableCode",
                      "unsupportedMethod", "staleCode"}, Blame(s, why)
  PROVE  LoginInv(ProtonSession!Failed(s, why))
<1> DEFINE g == ProtonSession!Failed(s, why)
<1>0. s \in LoginStates
  BY DEF LoginBase
<1>1. g = [s EXCEPT !.sent = FALSE, !.result = "error", !.why = why]
  BY DEF ProtonSession!Failed
<1> HIDE DEF g
<1>2. g \in LoginStates
  BY <1>0, <1>1 DEF LoginStates
<1>3. /\ g.result = "error" /\ ~g.sent /\ g.why = why
      /\ \A n \in {"twoFA", "vpn", "genuine", "totp", "now", "at", "session", "mine", "challenges", "token", "issued",
                   "codeAt", "codeSent", "proven"} : g[n] = s[n]
  BY <1>0, <1>1 DEF LoginStates
<1>4. LoginInv(g)
  BY <1>2, <1>3 DEF LoginInv, LoginBase, Blame
<1>5. QED
  BY <1>4 DEF g

LEMMA TokenIsKept ==
  ASSUME NEW s, LoginBase(s), NEW token \in Tokens
  PROVE  /\ LoginBase(ProtonSession!WithToken(s, token))
         /\ \A n \in {"twoFA", "vpn", "genuine", "totp", "start", "now", "at", "challenges", "codeAt", "proven", "result"} :
              ProtonSession!WithToken(s, token)[n] = s[n]
<1> DEFINE g == ProtonSession!WithToken(s, token)
<1>0. s \in LoginStates
  BY DEF LoginBase
<1>1. g = [s EXCEPT !.token = token, !.issued = token]
  BY DEF ProtonSession!WithToken
<1> HIDE DEF g
<1>2. g \in LoginStates
  BY <1>0, <1>1 DEF LoginStates
<1>3. /\ g.token = token /\ g.issued = token
      /\ \A n \in {"twoFA", "vpn", "genuine", "totp", "start", "now", "at", "session", "mine", "challenges",
                   "codeAt", "codeSent", "proven", "result"} : g[n] = s[n]
  BY <1>0, <1>1 DEF LoginStates
<1>4. LoginBase(g)
  BY <1>2, <1>3 DEF LoginBase
<1>5. QED
  BY <1>3, <1>4 DEF g

(* A rotation, a token, and on.                                              *)
LEMMA AnswerGoes ==
  ASSUME LoginInv(login), NEW from, ProtonSession!Answer(from), NEW r \in ProtonSession!Rotated(login)
  PROVE  /\ LoginBase(r) /\ r.result = "running" /\ r.at = from /\ r.proven = login.proven
         /\ \A at \in LoginPlaces \ {"secondFactor", "scopes"} :
              /\ LoginInv(ProtonSession!Go(r, at))
              /\ \A token \in Tokens : LoginInv(ProtonSession!Go(ProtonSession!WithToken(r, token), at))
<1>1. LoginBase(r) /\ r.result = "running" /\ r.at = from /\ r.proven = login.proven
  BY RotatedIs DEF LoginInv, ProtonSession!Answer, ProtonSession!Running
<1>2. ASSUME NEW at \in LoginPlaces \ {"secondFactor", "scopes"}, NEW token \in Tokens
      PROVE  /\ LoginInv(ProtonSession!Go(r, at))
             /\ LoginInv(ProtonSession!Go(ProtonSession!WithToken(r, token), at))
  <2> DEFINE w == ProtonSession!WithToken(r, token)
  <2>1. LoginBase(w) /\ w.result = "running"
    BY <1>1, TokenIsKept
  <2> HIDE DEF w
  <2>2. LoginInv(ProtonSession!Go(w, at)) /\ LoginInv(ProtonSession!Go(r, at))
    BY <1>1, <2>1, LoginGoes
  <2>3. QED
    BY <2>2 DEF w
<1>3. "none" \in Tokens
  BY DEF Tokens
<1>4. QED
  BY <1>1, <1>2, <1>3

(* What is changed of a state, but for where it is.                          *)
LEMMA LoginRequests ==
  ASSUME LoginInv(login), ProtonSession!Request \/ ProtonSession!Retry
  PROVE  LoginInv(login')
<1>0. login \in LoginStates
  BY DEF LoginInv, LoginBase
<1>1. login' = [login EXCEPT !.sent = TRUE, !.carried = login.mine] /\ login.result = "running"
  BY DEF ProtonSession!Request, ProtonSession!Retry, ProtonSession!Remade, ProtonSession!NewRequest, ProtonSession!Running
<1>2. login' \in LoginStates
  BY <1>0, <1>1 DEF LoginStates
<1>3. /\ login'.carried = login.mine
      /\ \A n \in {"twoFA", "vpn", "genuine", "totp", "now", "at", "session", "mine", "challenges", "token", "issued",
                   "codeAt", "codeSent", "proven", "result", "why"} : login'[n] = login[n]
  BY <1>0, <1>1 DEF LoginStates
<1>4. QED
  BY <1>1, <1>2, <1>3 DEF LoginInv, LoginBase

LEMMA LoginChallenge == ASSUME LoginInv(login), ProtonSession!Challenge PROVE LoginInv(login')
<1>1. PICK s \in ProtonSession!Rotated(login) :
        login' = [s EXCEPT !.sent = FALSE, !.challenged = TRUE, !.challenges = @ + 1, !.now = @ + 2]
  BY DEF ProtonSession!Challenge
<1>2. LoginBase(s) /\ s.result = "running" /\ s \in LoginStates
  BY RotatedIs DEF ProtonSession!Challenge, ProtonSession!Running, LoginInv, LoginBase
<1>3. s.challenges + 1 \in Nat /\ s.challenges + 1 # 0 /\ s.now + 2 \in Nat
  BY <1>2 DEF LoginStates
<1>4. login' = [s EXCEPT !.sent = FALSE, !.challenged = TRUE, !.challenges = s.challenges + 1, !.now = s.now + 2]
  BY <1>1, <1>2 DEF LoginStates
<1>5. login' \in LoginStates
  BY <1>2, <1>3, <1>4 DEF LoginStates
<1>6. /\ login'.challenges = s.challenges + 1 /\ ~login'.sent
      /\ \A n \in {"twoFA", "vpn", "genuine", "totp", "at", "session", "mine", "token", "issued",
                   "codeAt", "codeSent", "proven", "result", "why"} : login'[n] = s[n]
  BY <1>2, <1>4 DEF LoginStates
<1>7. QED
  BY <1>2, <1>3, <1>5, <1>6 DEF LoginInv, LoginBase

LEMMA LoginAuth == ASSUME LoginInv(login), ProtonSession!Auth PROVE LoginInv(login')
<1>1. PICK s \in ProtonSession!Rotated(login) :
        login' =
            IF ~ProtonSession!Proven(s) THEN ProtonSession!Failed(s, "notProven")
            ELSE IF s.twoFA # {} THEN ProtonSession!SecondFactor(ProtonSession!WithToken([s EXCEPT !.proven = TRUE], "partial"))
            ELSE IF ~s.vpn THEN ProtonSession!Failed(s, "noScope")
            ELSE ProtonSession!Go(ProtonSession!WithToken([s EXCEPT !.proven = TRUE], "login"), "servers")
  BY DEF ProtonSession!Auth
<1>2. LoginBase(s) /\ s.result = "running" /\ s.at = "auth" /\ s \in LoginStates
  BY AnswerGoes DEF ProtonSession!Auth, LoginBase
<1> DEFINE t == [s EXCEPT !.proven = TRUE]
<1>3. t \in LoginStates /\ t.proven
      /\ \A n \in {"twoFA", "vpn", "genuine", "totp", "start", "now", "at", "session", "mine", "challenges", "token",
                   "issued", "codeAt", "codeSent", "result"} : t[n] = s[n]
  BY <1>2 DEF LoginStates
<1>4. LoginBase(t) /\ t.result = "running" /\ t.at = "auth" /\ t.twoFA = s.twoFA
  BY <1>2, <1>3 DEF LoginBase
<1>5. \A token \in Tokens :
        LET w == ProtonSession!WithToken(t, token) IN
        LoginBase(w) /\ w.result = "running" /\ w.at = "auth" /\ w.proven /\ w.twoFA = t.twoFA /\ w.totp = t.totp
  BY <1>3, <1>4, TokenIsKept
<1> HIDE DEF t
<1>6. CASE ~ProtonSession!Proven(s)
  <2>1. Blame(s, "notProven")
    BY <1>6 DEF Blame, ProtonSession!Proven
  <2>2. QED
    BY <1>1, <1>2, <1>6, <2>1, LoginFails
<1>7. CASE ProtonSession!Proven(s) /\ s.twoFA = {} /\ ~s.vpn
  <2>1. Blame(s, "noScope")
    BY <1>7 DEF Blame
  <2>2. QED
    BY <1>1, <1>2, <1>7, <2>1, LoginFails
<1>8. CASE ProtonSession!Proven(s) /\ s.twoFA = {} /\ s.vpn
  <2> DEFINE w == ProtonSession!WithToken(t, "login")
  <2>1. "login" \in Tokens /\ "servers" \in LoginPlaces
    BY DEF Tokens, LoginPlaces
  <2>2. LoginBase(w) /\ w.result = "running"
    BY <1>5, <2>1
  <2>3. login' = ProtonSession!Go(w, "servers")
    BY <1>1, <1>8 DEF t
  <2> HIDE DEF w
  <2>4. QED
    BY <2>1, <2>2, <2>3, LoginGoes
<1>9. CASE ProtonSession!Proven(s) /\ s.twoFA # {}
  <2> DEFINE w == ProtonSession!WithToken(t, "partial")
  <2>1. "partial" \in Tokens
    BY DEF Tokens
  <2>2. LoginBase(w) /\ w.result = "running" /\ w.at = "auth" /\ w.proven /\ w.twoFA # {}
    BY <1>4, <1>5, <1>9, <2>1
  <2>3. login' = ProtonSession!SecondFactor(w)
    BY <1>1, <1>9 DEF t
  <2>4. w \in LoginStates
    BY <2>2 DEF LoginBase
  <2> HIDE DEF w
  <2>5. CASE "totp" \notin w.twoFA
    <3>1. Blame(w, "unsupportedMethod")
      BY <2>2, <2>5 DEF Blame
    <3>2. QED
      BY <2>2, <2>3, <2>5, <3>1, LoginFails DEF ProtonSession!SecondFactor
  <2>6. CASE "totp" \in w.twoFA /\ w.totp \notin {"secret", "code"}
    <3>1. Blame(w, "noUsableCode")
      BY <2>2, <2>6 DEF Blame
    <3>2. login' = ProtonSession!Failed(w, "noUsableCode")
      BY <2>3, <2>6 DEF ProtonSession!SecondFactor, ProtonSession!TwoFactorCode
    <3>3. QED
      BY <2>2, <3>1, <3>2, LoginFails
  <2>7. CASE "totp" \in w.twoFA /\ w.totp \in {"secret", "code"}
    <3>1. PICK made \in Nat : /\ login' = ProtonSession!Go([w EXCEPT !.codeAt = made], "secondFactor")
                              /\ w.totp = "secret" => made = w.now
      <4>1. w.now \in Nat /\ w.start \in Nat
        BY <2>4 DEF LoginStates
      <4>2. CASE w.totp = "secret"
        BY <2>3, <2>7, <4>1, <4>2 DEF ProtonSession!SecondFactor, ProtonSession!TwoFactorCode
      <4>3. CASE w.totp = "code"
        BY <2>3, <2>7, <4>1, <4>3 DEF ProtonSession!SecondFactor, ProtonSession!TwoFactorCode
      <4>4. QED
        BY <2>7, <4>2, <4>3
    <3> DEFINE c == [w EXCEPT !.codeAt = made]
    <3>2. /\ c \in LoginStates /\ c.codeAt = made
          /\ \A n \in {"totp", "now", "at", "session", "mine", "challenges", "token", "issued", "codeSent", "proven", "result"} :
               c[n] = w[n]
      BY <2>4 DEF LoginStates
    <3>3. login' = ProtonSession!Go(c, "secondFactor")
      BY <3>1
    <3> HIDE DEF c
    <3>4. LoginBase(c)
      BY <2>2, <3>2 DEF LoginBase
    <3>5. "secondFactor" \in LoginPlaces
      BY DEF LoginPlaces
    <3>6. QED
      BY <2>2, <2>7, <3>1, <3>2, <3>3, <3>4, <3>5, LoginGoes
  <2>8. QED
    BY <2>5, <2>6, <2>7
<1>10. QED
  BY <1>6, <1>7, <1>8, <1>9

LEMMA LoginSecondFactor == ASSUME LoginInv(login), ProtonSession!Auth2FA PROVE LoginInv(login')
<1> DEFINE l == [login EXCEPT !.codeSent = TRUE]
<1>0. login \in LoginStates /\ LoginBase(login) /\ login.at = "secondFactor" /\ login.result = "running"
  BY DEF LoginInv, LoginBase, ProtonSession!Auth2FA, ProtonSession!Answer, ProtonSession!Running
<1>1. /\ l \in LoginStates
      /\ \A n \in {"twoFA", "vpn", "genuine", "totp", "now", "at", "session", "mine", "challenges", "token",
                   "issued", "codeAt", "proven", "result"} : l[n] = login[n]
  BY <1>0 DEF LoginStates
<1>2. PICK s \in ProtonSession!Rotated(l) :
        \/ ~ProtonSession!Fresh /\ login' = ProtonSession!Failed(s, "staleCode")
        \/ \E token \in {"partial", "login"} : login' = ProtonSession!Go(ProtonSession!WithToken(s, token), "scopes")
  BY DEF ProtonSession!Auth2FA
<1> HIDE DEF l
<1>3. LoginBase(l)
  BY <1>0, <1>1 DEF LoginBase
<1>4. LoginBase(s) /\ s.challenges = login.challenges /\ s.totp = login.totp /\ s.proven /\ s.result = "running"
  BY <1>0, <1>1, <1>3, RotatedIs DEF LoginBase
<1>5. CASE ~ProtonSession!Fresh /\ login' = ProtonSession!Failed(s, "staleCode")
  <2>1. login.codeAt # login.now
    BY <1>5 DEF ProtonSession!Fresh
  <2>2. login.totp # "secret" \/ login.challenges # 0
    BY <1>0, <2>1 DEF LoginBase
  <2>3. login.totp \in {"secret", "code"}
    BY <1>0 DEF LoginBase
  <2>4. login.challenges \in Nat
    BY <1>0 DEF LoginStates
  <2>5. s.challenges > 0 \/ s.totp = "code"
    BY <1>4, <2>2, <2>3, <2>4
  <2>6. Blame(s, "staleCode")
    BY <2>5 DEF Blame
  <2>7. QED
    BY <1>4, <1>5, <2>6, LoginFails
<1>6. CASE \E token \in {"partial", "login"} : login' = ProtonSession!Go(ProtonSession!WithToken(s, token), "scopes")
  <2>1. PICK token \in {"partial", "login"} : login' = ProtonSession!Go(ProtonSession!WithToken(s, token), "scopes")
    BY <1>6
  <2> DEFINE w == ProtonSession!WithToken(s, token)
  <2>2. token \in Tokens /\ "scopes" \in LoginPlaces
    BY DEF Tokens, LoginPlaces
  <2>3. LoginBase(w) /\ w.result = "running" /\ w.proven
    BY <1>4, <2>2, TokenIsKept
  <2>4. login' = ProtonSession!Go(w, "scopes")
    BY <2>1
  <2> HIDE DEF w
  <2>5. QED
    BY <2>2, <2>3, <2>4, LoginGoes
<1>7. QED
  BY <1>2, <1>5, <1>6

LEMMA LoginStep == ASSUME LoginInv(login), [ProtonSession!Next]_login PROVE LoginInv(login')
<1>0. LoginBase(login) /\ login \in LoginStates
  BY DEF LoginInv, LoginBase
<1>p. /\ \A at \in {"sessionID", "unauthSession", "cookieToken", "authInfo", "auth", "servers", "refresh"} :
           at \in LoginPlaces \ {"secondFactor", "scopes"}
      /\ "anonymous" \in Tokens /\ "refreshed" \in Tokens
  BY DEF LoginPlaces, Tokens
<1>f. \A why \in {"fault", "cancelled", "challengedTwice"} : LoginInv(ProtonSession!Failed(login, why))
  <2>1. \A why \in {"fault", "cancelled", "challengedTwice"} : Blame(login, why)
    BY DEF Blame
  <2>2. QED
    BY <1>0, <2>1, LoginFails
<1>1. CASE UNCHANGED login
  BY <1>1
<1>2. CASE ProtonSession!Version
  <2>1. CASE login' = [login EXCEPT !.at = "sessionID"]
    <3>1. login' \in LoginStates
      BY <1>0, <1>p, <2>1 DEF LoginStates
    <3>2. /\ login'.at = "sessionID"
          /\ \A n \in {"twoFA", "vpn", "genuine", "totp", "sent", "carried", "session", "mine", "challenges", "token",
                       "issued", "codeSent", "proven", "result", "why"} : login'[n] = login[n]
      BY <1>0, <2>1 DEF LoginStates
    <3>3. QED
      BY <3>1, <3>2 DEF LoginInv, LoginBase, Blame
  <2>2. QED
    BY <1>2, <1>f, <2>1 DEF ProtonSession!Version
<1>3. CASE ProtonSession!Request \/ ProtonSession!Retry
  BY <1>3, LoginRequests
<1>4. CASE ProtonSession!Challenge
  BY <1>4, LoginChallenge
<1>5. CASE ProtonSession!Cancel \/ ProtonSession!Fault
  BY <1>5, <1>f DEF ProtonSession!Cancel, ProtonSession!Fault
<1>6. CASE ProtonSession!GetSessionID
  <2> DEFINE s == [login EXCEPT !.session = 1, !.mine = 1]
  <2>1. /\ s \in LoginStates /\ s.session = 1 /\ s.mine = 1
        /\ \A n \in {"totp", "now", "at", "challenges", "token", "issued", "codeAt", "codeSent", "proven", "result"} : s[n] = login[n]
    BY <1>0 DEF LoginStates
  <2>2. login' = ProtonSession!Go(s, "unauthSession") /\ login.result = "running"
    BY <1>6 DEF ProtonSession!GetSessionID, ProtonSession!Answer, ProtonSession!Running
  <2> HIDE DEF s
  <2>3. LoginBase(s) /\ s.result = "running"
    BY <1>0, <2>1, <2>2 DEF LoginBase
  <2>4. "unauthSession" \in LoginPlaces
    BY DEF LoginPlaces
  <2>5. QED
    BY <2>2, <2>3, <2>4, LoginGoes
<1>7. CASE ProtonSession!GetUnauthSession
  <2>1. PICK s \in ProtonSession!Rotated(login) : login' = ProtonSession!Go(s, "cookieToken")
    BY <1>7 DEF ProtonSession!GetUnauthSession
  <2>2. ProtonSession!Answer("unauthSession")
    BY <1>7 DEF ProtonSession!GetUnauthSession
  <2>3. QED
    BY <1>p, <2>1, <2>2, AnswerGoes
<1>8. CASE ProtonSession!CookieToken
  <2>1. PICK s \in ProtonSession!Rotated(login) : login' = ProtonSession!Go(ProtonSession!WithToken(s, "anonymous"), "authInfo")
    BY <1>8 DEF ProtonSession!CookieToken
  <2>2. ProtonSession!Answer("cookieToken")
    BY <1>8 DEF ProtonSession!CookieToken
  <2>3. QED
    BY <1>p, <2>1, <2>2, AnswerGoes
<1>9. CASE ProtonSession!AuthInfo
  <2>1. PICK s \in ProtonSession!Rotated(login) : login' = ProtonSession!Go(s, "auth")
    BY <1>9 DEF ProtonSession!AuthInfo
  <2>2. ProtonSession!Answer("authInfo")
    BY <1>9 DEF ProtonSession!AuthInfo
  <2>3. QED
    BY <1>p, <2>1, <2>2, AnswerGoes
<1>10. CASE ProtonSession!Auth
  BY <1>10, LoginAuth
<1>11. CASE ProtonSession!Auth2FA
  BY <1>11, LoginSecondFactor
<1>12. CASE ProtonSession!CheckVPNScope
  <2>1. PICK s \in ProtonSession!Rotated(login) :
          login' = IF s.vpn THEN ProtonSession!Go(s, "servers") ELSE ProtonSession!Failed(s, "noScope")
    BY <1>12 DEF ProtonSession!CheckVPNScope
  <2>2. ProtonSession!Answer("scopes")
    BY <1>12 DEF ProtonSession!CheckVPNScope
  <2>3. LoginBase(s) /\ LoginInv(ProtonSession!Go(s, "servers"))
    BY <1>p, <2>2, AnswerGoes
  <2>4. CASE ~s.vpn
    <3>1. Blame(s, "noScope")
      BY <2>4 DEF Blame
    <3>2. QED
      BY <2>1, <2>3, <2>4, <3>1, LoginFails
  <2>5. QED
    BY <2>1, <2>3, <2>4
<1>13. CASE ProtonSession!FetchServers
  <2>1. PICK s \in ProtonSession!Rotated(login) :
          login' = [s EXCEPT !.sent = FALSE, !.result = "servers"] \/ login' = ProtonSession!Go(s, "refresh")
    BY <1>13 DEF ProtonSession!FetchServers
  <2>2. ProtonSession!Answer("servers")
    BY <1>13 DEF ProtonSession!FetchServers
  <2>3. LoginBase(s) /\ LoginInv(ProtonSession!Go(s, "refresh")) /\ s \in LoginStates
    BY <1>p, <2>2, AnswerGoes DEF LoginBase
  <2>4. CASE login' = [s EXCEPT !.sent = FALSE, !.result = "servers"]
    <3>1. login' \in LoginStates
      BY <2>3, <2>4 DEF LoginStates
    <3>2. /\ ~login'.sent /\ login'.result = "servers"
          /\ \A n \in {"twoFA", "vpn", "genuine", "totp", "now", "at", "session", "mine", "challenges", "token",
                       "issued", "codeAt", "codeSent", "proven"} : login'[n] = s[n]
      BY <2>3, <2>4 DEF LoginStates
    <3>3. QED
      BY <2>3, <3>1, <3>2 DEF LoginInv, LoginBase
  <2>5. QED
    BY <2>1, <2>3, <2>4
<1>14. CASE ProtonSession!RefreshSessionToken
  <2>1. PICK s \in ProtonSession!Rotated(login) : login' = ProtonSession!Go(ProtonSession!WithToken(s, "refreshed"), "servers")
    BY <1>14 DEF ProtonSession!RefreshSessionToken
  <2>2. ProtonSession!Answer("refresh")
    BY <1>14 DEF ProtonSession!RefreshSessionToken
  <2>3. QED
    BY <1>p, <2>1, <2>2, AnswerGoes
<1>15. QED
  BY <1>1, <1>2, <1>3, <1>4, <1>5, <1>6, <1>7, <1>8, <1>9, <1>10, <1>11, <1>12, <1>13, <1>14 DEF ProtonSession!Next

LEMMA LoginInvIsEnough ==
  ASSUME LoginInv(login) PROVE ProtonSession!TypeOK /\ ProtonSession!LoginIsSound
<1>0. login \in LoginStates
  BY DEF LoginInv, LoginBase
<1>1. ProtonSession!TypeOK
  BY <1>0 DEF LoginStates, LoginPlaces, Tokens, ProtonSession!TypeOK
<1>2. ProtonSession!RequestsFollowTheSession /\ ProtonSession!CodeOnlyAfterProof
  BY DEF LoginInv, LoginBase, ProtonSession!RequestsFollowTheSession, ProtonSession!CodeOnlyAfterProof
<1>3. ProtonSession!LoginFailsForReasonsOnly
  BY <1>0 DEF LoginInv, Blame, LoginStates, ProtonSession!LoginFailsForReasonsOnly
<1>4. QED
  BY <1>1, <1>2, <1>3 DEF ProtonSession!LoginIsSound

LEMMA LoginInvariance == ASSUME ProtonSession!LoginConstants PROVE ProtonSession!Spec => []LoginInv(login)
<1>1. ProtonSession!Init => LoginInv(login)
  BY LoginStart
<1>2. LoginInv(login) /\ [ProtonSession!Next]_login => LoginInv(login)'
  BY LoginStep
<1>3. QED
  BY <1>1, <1>2, PTL DEF ProtonSession!Spec

-----------------------------------------------------------------------------
(* ServerStorage.                                                            *)

ServerSets == [version : Nat, time : Nat, preferred : BOOLEAN, kept : BOOLEAN]
StoreStates ==
    [hardcoded : ServerSets, memory : [StoreProviders -> ServerSets], file : [StoreProviders -> ServerSets],
     broken : SUBSET StoreProviders, manifest : {"absent", "empty", "broken", "whole"}, hasLegacy : BOOLEAN,
     legacy : [StoreProviders -> ServerSets], at : {"down", "sync", "set", "up", "refused"},
     todo : SUBSET StoreProviders, open : StoreProviders \cup {"none", "manifest"}, migrates : BOOLEAN,
     setting : StoreProviders \cup {"none"}, clock : Nat, updates : Nat, crashes : Nat, faults : Nat,
     releases : Nat, marks : Nat, emptied : BOOLEAN, told : [StoreProviders -> ServerSets]]

(* What would be read of a provider: its file, or the older one.             *)
IsFound(s) == s.manifest \in {"broken", "whole"}
Source(s, p) ==
    IF IsFound(s) THEN s.file[p] ELSE IF s.hasLegacy THEN s.legacy[p] ELSE Storage!NoServers

(* Servers at least as recent as what was told, and of the same marks.       *)
Carries(servers, told, version) ==
    told.version = version =>
      /\ servers.version = version /\ servers.time >= told.time
      /\ told.preferred => servers.preferred
      /\ told.kept => servers.kept

Timely(s, servers) == servers.time <= s.clock /\ servers.version <= s.hardcoded.version
AllTimely(s) ==
    /\ s.hardcoded.version > 0 /\ s.hardcoded.time <= s.clock
    /\ \A p \in StoreProviders :
         Timely(s, s.memory[p]) /\ Timely(s, s.file[p]) /\ Timely(s, s.legacy[p])
         /\ s.told[p].version <= s.hardcoded.version

(* Files are written one after the other, then the manifest.                 *)
Writing(s) ==
    /\ s.at \in {"down", "up", "refused"} => s.open = "none" /\ s.todo = {}
    /\ s.open \in StoreProviders => s.open \in s.todo
    /\ s.open = "manifest" => s.manifest = "empty" /\ s.todo = {}
    /\ s.manifest = "empty" => s.emptied \/ s.open = "manifest"
    /\ s.at = "set" => s.setting \in StoreProviders
    /\ s.at \in {"sync", "set"} => \A p \in StoreProviders \ s.todo : s.file[p] = s.memory[p] /\ p \notin s.broken
    /\ s.crashes + s.faults = 0 => s.manifest # "broken" /\ s.broken \subseteq {s.open}

MemoryCarries(s) ==
    /\ s.at \in {"sync", "set", "up"} => \A p \in StoreProviders : s.memory[p].version = s.hardcoded.version
    /\ s.at \in {"sync", "set", "up"} /\ ~s.emptied =>
         \A p \in StoreProviders : Carries(s.memory[p], s.told[p], s.hardcoded.version)

SourceCarries(s) ==
    ~s.emptied /\ s.open # "manifest" =>
      \A p \in StoreProviders :
        (IsFound(s) => p \notin s.broken) => Carries(Source(s, p), s.told[p], s.hardcoded.version)

StoreInv(s) ==
    /\ s \in StoreStates /\ AllTimely(s) /\ Writing(s) /\ MemoryCarries(s) /\ SourceCarries(s)
    /\ s.at = "refused" => s.crashes + s.faults > 0 /\ (s.manifest = "broken" \/ (IsFound(s) /\ s.broken # {}))

LEMMA StoreStart == ASSUME Storage!StorageConstants, Storage!Init PROVE StoreInv(store)
<1>1. PICK hasLegacy \in BOOLEAN, legacy \in [StoreProviders -> Storage!OlderServers] :
        store = Storage!Start(hasLegacy, legacy)
  BY Zenon DEF Storage!Init
<1>2. /\ Storage!NoServers \in ServerSets /\ Storage!NoServers.version = 0 /\ Storage!NoServers.time = 0
      /\ Storage!Servers(1, 2, FALSE, FALSE) \in ServerSets
      /\ Storage!Servers(1, 2, FALSE, FALSE).version = 1 /\ Storage!Servers(1, 2, FALSE, FALSE).time = 2
  BY DEF Storage!NoServers, Storage!Servers, ServerSets
<1>3. \A p \in StoreProviders : legacy[p] \in ServerSets /\ legacy[p].version = 1 /\ legacy[p].time <= 3
  <2>1. SUFFICES ASSUME NEW l \in Storage!OlderServers PROVE l \in ServerSets /\ l.version = 1 /\ l.time <= 3
    OBVIOUS
  <2>2. l.version = 1 /\ l.time \in {1, 3}
    BY DEF Storage!OlderServers
  <2>3. l \in ServerSets
    <3>1. l = [version |-> l.version, time |-> l.time, preferred |-> l.preferred, kept |-> l.kept]
      BY DEF Storage!OlderServers
    <3>2. l.version \in Nat /\ l.time \in Nat /\ l.kept \in BOOLEAN
      BY <2>2 DEF Storage!OlderServers
    <3>4. l.preferred \in {FALSE}
      BY DEF Storage!OlderServers
    <3>5. l.preferred \in BOOLEAN
      BY <3>4, Zenon
    <3>3. QED
      BY <3>1, <3>2, <3>5 DEF ServerSets
  <2>4. QED
    BY <2>2, <2>3
<1>4. legacy \in [StoreProviders -> ServerSets]
  BY <1>3
<1>5. store \in StoreStates
  BY <1>1, <1>2, <1>4 DEF StoreStates, Storage!Start
<1>6. /\ store.hardcoded.version = 1 /\ store.hardcoded.time = 2 /\ store.clock = 3 /\ store.legacy = legacy
      /\ store.at = "down" /\ store.open = "none" /\ store.todo = {} /\ store.manifest = "absent" /\ store.broken = {}
      /\ store.hasLegacy = hasLegacy
      /\ \A p \in StoreProviders : /\ store.memory[p] = Storage!NoServers /\ store.file[p] = Storage!NoServers
                                   /\ store.told[p] = IF hasLegacy THEN legacy[p] ELSE Storage!NoServers
  BY <1>1, <1>2 DEF Storage!Start
<1>7. AllTimely(store)
  BY <1>2, <1>3, <1>6 DEF AllTimely, Timely
<1>8. Writing(store) /\ MemoryCarries(store)
  <2>1. store.open \notin StoreProviders
    BY <1>6 DEF Storage!StorageConstants
  <2>2. QED
    BY <1>6, <2>1 DEF Writing, MemoryCarries
<1>9. SourceCarries(store)
  BY <1>2, <1>3, <1>6 DEF SourceCarries, Source, IsFound, Carries, ServerSets
<1>10. QED
  BY <1>5, <1>6, <1>7, <1>8, <1>9 DEF StoreInv

(* What is merged has the format of the release and is of what was read.     *)
LEMMA MergedCarries ==
  ASSUME StoreInv(store), store.at = "down", ~Storage!Unreadable, NEW p \in StoreProviders
  PROVE  LET m == Storage!Merge(Storage!OnFile(p)) IN
         /\ m \in ServerSets /\ m.version = store.hardcoded.version /\ m.time <= store.clock
         /\ ~store.emptied => Carries(m, store.told[p], store.hardcoded.version)
<1> DEFINE hard == store.hardcoded
           q == Source(store, p)
           f == Storage!OnFile(p)
           m == Storage!Merge(f)
<1>0. store \in StoreStates
  BY DEF StoreInv
<1>1. hard \in ServerSets /\ hard.version \in Nat \ {0} /\ hard.time \in Nat /\ store.clock \in Nat /\ hard.time <= store.clock
  BY <1>0 DEF StoreInv, AllTimely, StoreStates, ServerSets
<1>2. Storage!NoServers \in ServerSets /\ Storage!NoServers = [version |-> 0, time |-> 0, preferred |-> FALSE, kept |-> FALSE]
  BY DEF Storage!NoServers, Storage!Servers, ServerSets
<1>3. q \in ServerSets /\ q.time <= store.clock
  <2>1. store.file[p] \in ServerSets /\ store.legacy[p] \in ServerSets
    BY <1>0 DEF StoreStates
  <2>2. store.file[p].time <= store.clock /\ store.legacy[p].time <= store.clock
    BY DEF StoreInv, AllTimely, Timely
  <2>3. Storage!NoServers.time <= store.clock
    BY <1>1, <1>2
  <2>4. QED
    BY <1>2, <2>1, <2>2, <2>3 DEF Source
<1>4. f = IF q.version = hard.version THEN q ELSE Storage!NoServers
  BY DEF Storage!OnFile, Storage!Found, Source, IsFound
<1>5. ~store.emptied => Carries(q, store.told[p], hard.version)
  <2>1. store.open = "none"
    BY DEF StoreInv, Writing
  <2>2. IsFound(store) => p \notin store.broken
    BY DEF Storage!Unreadable, Storage!Found, IsFound
  <2>3. QED
    BY <2>1, <2>2 DEF StoreInv, SourceCarries
<1>6. m = IF f.preferred \/ f.time > hard.time THEN f ELSE [hard EXCEPT !.kept = f.kept]
  BY DEF Storage!Merge
<1> HIDE DEF f, q, m, hard
<1>7. f \in ServerSets /\ (f = q \/ f = Storage!NoServers)
  BY <1>2, <1>3, <1>4
<1>8. CASE f.preferred \/ f.time > hard.time
  <2>1. f = q /\ q.version = hard.version /\ m = q
    <3>1. Storage!NoServers.preferred = FALSE /\ Storage!NoServers.time = 0
      BY <1>2
    <3>2. ~(Storage!NoServers.preferred \/ Storage!NoServers.time > hard.time)
      BY <1>1, <3>1
    <3>3. f # Storage!NoServers
      BY <1>8, <3>2
    <3>4. QED
      BY <1>4, <1>6, <1>8, <3>3
  <2>2. QED
    BY <1>3, <1>5, <2>1 DEF m, f, hard
<1>9. CASE ~(f.preferred \/ f.time > hard.time)
  <2>1. m = [hard EXCEPT !.kept = f.kept]
    BY <1>6, <1>9
  <2>2. m \in ServerSets /\ m.version = hard.version /\ m.time = hard.time /\ m.kept = f.kept
    BY <1>1, <1>7, <2>1 DEF ServerSets
  <2>3. ASSUME ~store.emptied PROVE Carries(m, store.told[p], hard.version)
    <3>1. SUFFICES ASSUME store.told[p].version = hard.version
                   PROVE  /\ m.version = hard.version /\ m.time >= store.told[p].time
                          /\ store.told[p].preferred => m.preferred
                          /\ store.told[p].kept => m.kept
      BY DEF Carries
    <3>2. /\ q.version = hard.version /\ q.time >= store.told[p].time
          /\ store.told[p].preferred => q.preferred
          /\ store.told[p].kept => q.kept
      BY <1>5, <2>3, <3>1 DEF Carries
    <3>3. f = q
      BY <1>4, <3>2
    <3>4. store.told[p] \in ServerSets
      BY <1>0 DEF StoreStates
    <3>5. store.told[p].time \in Nat /\ q.time \in Nat
      BY <1>3, <3>4 DEF ServerSets
    <3>6. QED
      BY <1>1, <1>9, <2>2, <3>2, <3>3, <3>5
  <2>4. QED
    BY <1>1, <2>2, <2>3 DEF m, f, hard
<1>10. QED
  BY <1>8, <1>9

LEMMA StoreSync == ASSUME StoreInv(store), Storage!Sync PROVE StoreInv(store')
<1>0. store \in StoreStates /\ store.at = "down" /\ store.open = "none" /\ store.todo = {}
  BY DEF StoreInv, Writing, Storage!Sync
<1> DEFINE memory == [p \in StoreProviders |-> Storage!Merge(Storage!OnFile(p))]
<1>1. CASE Storage!Unreadable
  <2>1. store' = [store EXCEPT !.at = "refused"]
    BY <1>1 DEF Storage!Sync
  <2>2. store' \in StoreStates
    BY <1>0, <2>1 DEF StoreStates
  <2>3. /\ store'.at = "refused"
        /\ \A n \in {"hardcoded", "memory", "file", "broken", "manifest", "hasLegacy", "legacy", "todo", "open", "setting",
                     "clock", "crashes", "faults", "emptied", "told"} : store'[n] = store[n]
    BY <1>0, <2>1 DEF StoreStates
  <2>4. store.manifest = "broken" \/ (IsFound(store) /\ store.broken # {})
    BY <1>1 DEF Storage!Unreadable, Storage!Found, IsFound
  <2>5. store.crashes + store.faults > 0
    <3>1. store.crashes \in Nat /\ store.faults \in Nat
      BY <1>0 DEF StoreStates
    <3>2. store.crashes + store.faults # 0
      BY <1>0, <2>4 DEF StoreInv, StoreStates, Writing
    <3>3. QED
      BY <3>1, <3>2
  <2>6. AllTimely(store')
    BY <2>3 DEF StoreInv, AllTimely, Timely
  <2>7. Writing(store') /\ MemoryCarries(store')
    BY <1>0, <2>3 DEF StoreInv, Writing, MemoryCarries
  <2>8. SourceCarries(store')
    BY <2>3 DEF StoreInv, SourceCarries, Source, IsFound
  <2>9. QED
    BY <2>2, <2>3, <2>4, <2>5, <2>6, <2>7, <2>8 DEF StoreInv, IsFound
<1>2. CASE ~Storage!Unreadable
  <2>1. \A p \in StoreProviders :
          /\ memory[p] \in ServerSets /\ memory[p].version = store.hardcoded.version /\ memory[p].time <= store.clock
          /\ ~store.emptied => Carries(memory[p], store.told[p], store.hardcoded.version)
    BY <1>0, <1>2, MergedCarries
  <2>2. PICK migrates \in BOOLEAN, todo \in {{}, StoreProviders} :
          /\ \/ store' = [store EXCEPT !.at = "up", !.memory = memory] /\ todo = {}
             \/ /\ store' = [store EXCEPT !.at = "sync", !.memory = memory, !.todo = StoreProviders, !.migrates = migrates]
                /\ todo = StoreProviders
    <3>1. store.hasLegacy \in BOOLEAN
      BY <1>0 DEF StoreStates
    <3>2. (store.hasLegacy /\ ~Storage!Found) \in BOOLEAN
      OBVIOUS
    <3>3. QED
      BY <1>2, <3>2 DEF Storage!Sync
  <2> HIDE DEF memory
  <2>3. memory \in [StoreProviders -> ServerSets]
    BY <2>1 DEF memory
  <2>4. store' \in StoreStates
    <3>1. CASE store' = [store EXCEPT !.at = "up", !.memory = memory]
      BY <1>0, <2>3, <3>1 DEF StoreStates
    <3>2. CASE store' = [store EXCEPT !.at = "sync", !.memory = memory, !.todo = StoreProviders, !.migrates = migrates]
      BY <1>0, <2>3, <3>2 DEF StoreStates
    <3>3. QED
      BY <2>2, <3>1, <3>2
  <2>5. /\ store'.at \in {"up", "sync"} /\ store'.todo = todo /\ store'.memory = memory
        /\ store'.at = "up" => todo = {}
        /\ store'.at = "sync" => todo = StoreProviders
        /\ \A n \in {"hardcoded", "file", "broken", "manifest", "hasLegacy", "legacy", "open", "setting",
                     "clock", "crashes", "faults", "emptied", "told"} : store'[n] = store[n]
    BY <1>0, <2>2 DEF StoreStates
  <2>6. AllTimely(store')
    <3>1. \A p \in StoreProviders : memory[p].version <= store.hardcoded.version
      <4>1. store.hardcoded.version \in Nat
        BY <1>0 DEF StoreStates, ServerSets
      <4>2. QED
        BY <2>1, <4>1
    <3>2. QED
      BY <2>1, <2>5, <3>1 DEF StoreInv, AllTimely, Timely
  <2>7. Writing(store')
    BY <1>0, <2>5 DEF StoreInv, Writing
  <2>8. MemoryCarries(store')
    BY <2>1, <2>5 DEF MemoryCarries
  <2>9. SourceCarries(store')
    BY <2>5 DEF StoreInv, SourceCarries, Source, IsFound
  <2>10. QED
    BY <2>4, <2>5, <2>6, <2>7, <2>8, <2>9 DEF StoreInv
<1>3. QED
  BY <1>1, <1>2

(* The servers of a provider are replaced by more recent ones.               *)
LEMMA StoreSet == ASSUME StoreInv(store), NEW p \in StoreProviders, Storage!SetServers(p) PROVE StoreInv(store')
<1> DEFINE told == [store.told[p] EXCEPT !.kept = FALSE]
           memory == [store.memory[p] EXCEPT !.time = store.clock + 1, !.kept = FALSE]
<1>0. store \in StoreStates /\ store.at = "up" /\ store.open = "none" /\ store.todo = {}
  BY DEF StoreInv, Writing, Storage!SetServers
<1>1. store.clock \in Nat /\ store.clock + 1 \in Nat /\ store.updates + 1 \in Nat /\ store.hardcoded \in ServerSets
  BY <1>0 DEF StoreStates
<1>2. store.told[p] \in ServerSets /\ store.memory[p] \in ServerSets
  BY <1>0 DEF StoreStates
<1>3. /\ told \in ServerSets /\ memory \in ServerSets
      /\ told.version = store.told[p].version /\ told.time = store.told[p].time
      /\ told.preferred = store.told[p].preferred /\ told.kept = FALSE
      /\ memory.version = store.memory[p].version /\ memory.time = store.clock + 1
      /\ memory.preferred = store.memory[p].preferred /\ memory.kept = FALSE
  BY <1>1, <1>2 DEF ServerSets
<1>4. store' = [store EXCEPT !.at = "set", !.updates = @ + 1, !.clock = @ + 1, !.setting = p,
                             !.memory = [@ EXCEPT ![p] = memory], !.told = [@ EXCEPT ![p] = told],
                             !.todo = StoreProviders]
  BY <1>0 DEF Storage!SetServers, StoreStates
<1> HIDE DEF told, memory
<1>5. store' \in StoreStates
  <2>1. /\ [store.memory EXCEPT ![p] = memory] \in [StoreProviders -> ServerSets]
        /\ [store.told EXCEPT ![p] = told] \in [StoreProviders -> ServerSets]
    BY <1>0, <1>3 DEF StoreStates
  <2>2. QED
    BY <1>0, <1>1, <1>4, <2>1 DEF StoreStates
<1>6. /\ store'.at = "set" /\ store'.clock = store.clock + 1 /\ store'.setting = p /\ store'.todo = StoreProviders
      /\ store'.memory[p] = memory /\ store'.told[p] = told
      /\ \A q \in StoreProviders \ {p} : store'.memory[q] = store.memory[q] /\ store'.told[q] = store.told[q]
      /\ \A n \in {"hardcoded", "file", "broken", "manifest", "hasLegacy", "legacy", 
                     "open", "migrates", "crashes", "faults", "releases", "marks", 
                     "emptied"} : store'[n] = store[n]
  BY <1>0, <1>4 DEF StoreStates
<1>7. AllTimely(store')
  <2>1. \A q \in StoreProviders : /\ store.memory[q].time \in Nat /\ store.file[q].time \in Nat
                                   /\ store.legacy[q].time \in Nat
    BY <1>0 DEF StoreStates, ServerSets
  <2>2. store'.hardcoded.version > 0 /\ store'.hardcoded.time <= store'.clock
    BY <1>1, <1>6 DEF StoreInv, AllTimely, ServerSets
  <2>3. ASSUME NEW q \in StoreProviders
        PROVE  /\ Timely(store', store'.memory[q]) /\ Timely(store', store'.file[q]) /\ Timely(store', store'.legacy[q])
               /\ store'.told[q].version <= store'.hardcoded.version
    <3>1. /\ Timely(store, store.memory[q]) /\ Timely(store, store.file[q]) /\ Timely(store, store.legacy[q])
          /\ store.told[q].version <= store.hardcoded.version
      BY DEF StoreInv, AllTimely
    <3>2. Timely(store', store'.file[q]) /\ Timely(store', store'.legacy[q])
      BY <1>1, <1>6, <2>1, <3>1 DEF Timely
    <3>3. CASE q = p
      BY <1>1, <1>3, <1>6, <3>1, <3>2, <3>3 DEF Timely
    <3>4. CASE q # p
      BY <1>1, <1>6, <2>1, <3>1, <3>2, <3>4 DEF Timely
    <3>5. QED
      BY <3>3, <3>4
  <2>4. QED
    BY <2>2, <2>3 DEF AllTimely
<1>8. Writing(store')
  BY <1>0, <1>6 DEF StoreInv, Writing
<1>9. MemoryCarries(store')
  <2>1. ASSUME NEW q \in StoreProviders
        PROVE  /\ store'.memory[q].version = store.hardcoded.version
               /\ ~store.emptied => Carries(store'.memory[q], store'.told[q], store.hardcoded.version)
    <3>1. /\ store.memory[q].version = store.hardcoded.version
          /\ ~store.emptied => Carries(store.memory[q], store.told[q], store.hardcoded.version)
      BY <1>0 DEF StoreInv, MemoryCarries
    <3>2. CASE q # p
      BY <1>6, <3>1, <3>2
    <3>3. CASE q = p
      <4>1. store.memory[p].time <= store.clock
        BY DEF StoreInv, AllTimely, Timely
      <4>2. store.memory[p].time \in Nat /\ store.told[p].time \in Nat
        BY <1>2 DEF ServerSets
      <4>3. QED
        BY <1>1, <1>3, <1>6, <3>1, <3>3, <4>1, <4>2 DEF Carries
    <3>4. QED
      BY <3>2, <3>3
  <2>2. QED
    BY <1>6, <2>1 DEF MemoryCarries
<1>10. SourceCarries(store')
  <2>1. \A q \in StoreProviders : Source(store', q) = Source(store, q)
    BY <1>6 DEF Source, IsFound
  <2>2. SUFFICES ASSUME ~store.emptied, NEW q \in StoreProviders, IsFound(store) => q \notin store.broken
                 PROVE  Carries(Source(store, q), store'.told[q], store.hardcoded.version)
    BY <1>6, <2>1 DEF SourceCarries, IsFound
  <2>3. Carries(Source(store, q), store.told[q], store.hardcoded.version)
    BY <1>0, <2>2 DEF StoreInv, SourceCarries
  <2>4. CASE q = p
    BY <1>3, <1>6, <2>3, <2>4 DEF Carries
  <2>5. QED
    BY <1>6, <2>3, <2>4
<1>11. QED
  BY <1>5, <1>6, <1>7, <1>8, <1>9, <1>10 DEF StoreInv

(* A file is opened, and written.                                            *)
LEMMA StoreFiles ==
  ASSUME Storage!StorageConstants, StoreInv(store), Storage!WriteFile \/ \E p \in StoreProviders : Storage!OpenFile(p)
  PROVE  StoreInv(store')
<1>0. store \in StoreStates
  BY DEF StoreInv
<1>1. ASSUME NEW p \in StoreProviders, Storage!OpenFile(p) PROVE StoreInv(store')
  <2>1. store' = [store EXCEPT !.open = p, !.broken = @ \cup {p}]
    BY <1>1 DEF Storage!OpenFile
  <2>2. store.at \in {"sync", "set"} /\ p \in store.todo /\ store.open = "none" /\ p # "manifest"
    BY <1>1 DEF Storage!OpenFile, Storage!StorageConstants
  <2>3. store' \in StoreStates
    BY <1>0, <2>1 DEF StoreStates
  <2>4. /\ store'.open = p /\ store'.broken = store.broken \cup {p}
        /\ \A n \in {"hardcoded", "memory", "file", "manifest", "hasLegacy", "legacy", "at", 
                     "todo", "migrates", "setting", "clock", "updates", "crashes", "faults", 
                     "releases", "marks", "emptied", "told"} : store'[n] = store[n]
    BY <1>0, <2>1 DEF StoreStates
  <2>5. AllTimely(store')
    BY <2>4 DEF StoreInv, AllTimely, Timely
  <2>6. Writing(store')
    <3>1. store.broken \subseteq {store.open} => store.broken = {}
      BY <1>0, <2>2 DEF StoreStates, Storage!StorageConstants
    <3>2. QED
      BY <2>2, <2>4, <3>1 DEF StoreInv, Writing
  <2>7. MemoryCarries(store')
    BY <2>4 DEF StoreInv, MemoryCarries
  <2>8. SourceCarries(store')
    BY <2>2, <2>4 DEF StoreInv, SourceCarries, Source, IsFound
  <2>9. QED
    BY <2>2, <2>3, <2>4, <2>5, <2>6, <2>7, <2>8 DEF StoreInv
<1>2. ASSUME Storage!WriteFile PROVE StoreInv(store')
  <2> DEFINE p == store.open
  <2>1. store' = [store EXCEPT !.open = "none", !.todo = @ \ {p}, !.broken = @ \ {p}, !.file = [@ EXCEPT ![p] = store.memory[p]]]
    BY <1>0, <1>2 DEF Storage!WriteFile, StoreStates
  <2>2. p \in StoreProviders /\ p # "manifest" /\ p # "none" /\ p \in store.todo
    BY <1>2 DEF StoreInv, Writing, Storage!WriteFile, Storage!StorageConstants
  <2>3. store.at \in {"sync", "set"}
    BY <1>0, <2>2 DEF StoreInv, Writing, StoreStates
  <2>4. store' \in StoreStates
    <3>1. [store.file EXCEPT ![p] = store.memory[p]] \in [StoreProviders -> ServerSets]
      BY <1>0, <2>2 DEF StoreStates
    <3>2. QED
      BY <1>0, <2>1, <3>1 DEF StoreStates
  <2>5. /\ store'.open = "none" /\ store'.broken = store.broken \ {p} /\ store'.todo = store.todo \ {p}
        /\ store'.file[p] = store.memory[p]
        /\ \A q \in StoreProviders \ {p} : store'.file[q] = store.file[q]
        /\ \A n \in {"hardcoded", "memory", "manifest", "hasLegacy", "legacy", "at", 
                     "migrates", "setting", "clock", "updates", "crashes", "faults", 
                     "releases", "marks", "emptied", "told"} : store'[n] = store[n]
    BY <1>0, <2>1, <2>2 DEF StoreStates
  <2> HIDE DEF p
  <2>6. AllTimely(store')
    BY <2>2, <2>5 DEF StoreInv, AllTimely, Timely
  <2>7. Writing(store')
    <3>1. /\ store'.at \in {"sync", "set"} => \A q \in StoreProviders \ store'.todo :
                                                store'.file[q] = store'.memory[q] /\ q \notin store'.broken
      BY <2>2, <2>3, <2>5 DEF StoreInv, Writing
    <3>2. store.crashes + store.faults = 0 => store'.broken = {} /\ store'.manifest # "broken"
      BY <2>5 DEF StoreInv, Writing, p
    <3>3. store.manifest = "empty" => store.emptied
      BY <2>2 DEF StoreInv, Writing, p
    <3>4. store'.open \notin StoreProviders
      BY <2>5 DEF Storage!StorageConstants
    <3>5. QED
      BY <2>3, <2>5, <3>1, <3>2, <3>3, <3>4 DEF StoreInv, Writing
  <2>8. MemoryCarries(store')
    BY <2>5 DEF StoreInv, MemoryCarries
  <2>9. SourceCarries(store')
    <3>1. SUFFICES ASSUME ~store.emptied, NEW q \in StoreProviders, IsFound(store) => q \notin store'.broken
                   PROVE  Carries(Source(store', q), store.told[q], store.hardcoded.version)
      BY <2>5 DEF SourceCarries, IsFound
    <3>2. store.open # "manifest"
      BY <2>2 DEF p
    <3>3. CASE IsFound(store) /\ q = p
      <4>1. Source(store', q) = store.memory[q]
        BY <2>5, <3>3 DEF Source, IsFound
      <4>2. QED
        BY <2>3, <3>1, <4>1 DEF StoreInv, MemoryCarries
    <3>4. CASE ~(IsFound(store) /\ q = p)
      <4>1. Source(store', q) = Source(store, q)
        BY <2>5, <3>4 DEF Source, IsFound
      <4>2. IsFound(store) => q \notin store.broken
        BY <2>5, <3>1, <3>4
      <4>3. QED
        BY <3>1, <3>2, <4>1, <4>2 DEF StoreInv, SourceCarries
    <3>5. QED
      BY <3>3, <3>4
  <2>10. QED
    BY <2>3, <2>4, <2>5, <2>6, <2>7, <2>8, <2>9 DEF StoreInv
<1>3. QED
  BY <1>1, <1>2

(* The manifest is opened, and written: every file is as the memory then.    *)
LEMMA StoreOpenManifest ==
  ASSUME Storage!StorageConstants, StoreInv(store), Storage!OpenManifest PROVE StoreInv(store')
<1>0. store \in StoreStates
  BY DEF StoreInv
<1>1. store' = [store EXCEPT !.open = "manifest", !.manifest = "empty"]
  BY DEF Storage!OpenManifest
<1>2. store.at \in {"sync", "set"} /\ store.todo = {} /\ store.open = "none"
  BY DEF Storage!OpenManifest
<1>3. store' \in StoreStates
  BY <1>0, <1>1 DEF StoreStates
<1>4. /\ store'.open = "manifest" /\ store'.manifest = "empty"
      /\ \A n \in {"hardcoded", "memory", "file", "broken", "hasLegacy", "legacy", "at", 
                     "todo", "migrates", "setting", "clock", "updates", "crashes", "faults", 
                     "releases", "marks", "emptied", "told"} : store'[n] = store[n]
  BY <1>0, <1>1 DEF StoreStates
<1>5. AllTimely(store')
  BY <1>4 DEF StoreInv, AllTimely, Timely
<1>6. Writing(store')
  <2>1. store.broken \subseteq {store.open} => store.broken = {}
    BY <1>0, <1>2 DEF StoreStates, Storage!StorageConstants
  <2>2. store'.open \notin StoreProviders
    BY <1>4 DEF Storage!StorageConstants
  <2>3. QED
    BY <1>2, <1>4, <2>1, <2>2 DEF StoreInv, Writing
<1>7. MemoryCarries(store') /\ SourceCarries(store')
  BY <1>4 DEF StoreInv, MemoryCarries, SourceCarries
<1>8. QED
  BY <1>2, <1>3, <1>4, <1>5, <1>6, <1>7 DEF StoreInv

LEMMA AllFilesWritten ==
  ASSUME StoreInv(store), store.open = "manifest"
  PROVE  /\ store.at \in {"sync", "set"} /\ store.todo = {} /\ store.broken = {}
         /\ \A p \in StoreProviders :
              /\ store.file[p] = store.memory[p]
              /\ ~store.emptied => Carries(store.file[p], store.told[p], store.hardcoded.version)
<1>1. store \in StoreStates
  BY DEF StoreInv
<1>2. store.at \in {"sync", "set"} /\ store.todo = {}
  BY <1>1 DEF StoreInv, Writing, StoreStates
<1>3. \A p \in StoreProviders : store.file[p] = store.memory[p] /\ p \notin store.broken
  BY <1>2 DEF StoreInv, Writing
<1>4. store.broken = {}
  BY <1>1, <1>3 DEF StoreStates
<1>5. QED
  BY <1>2, <1>3, <1>4 DEF StoreInv, MemoryCarries

LEMMA StoreWriteManifest ==
  ASSUME Storage!StorageConstants, StoreInv(store), Storage!WriteManifest PROVE StoreInv(store')
<1> DEFINE told == IF store.at = "set" THEN [store.told EXCEPT ![store.setting] = store.memory[store.setting]]
                   ELSE store.told
<1>0. store \in StoreStates /\ store.open = "manifest"
  BY DEF StoreInv, Storage!WriteManifest
<1>1. /\ store.at \in {"sync", "set"} /\ store.todo = {} /\ store.broken = {}
      /\ \A p \in StoreProviders :
           /\ store.file[p] = store.memory[p]
           /\ ~store.emptied => Carries(store.file[p], store.told[p], store.hardcoded.version)
  BY <1>0, AllFilesWritten
<1>2. store.at = "set" => store.setting \in StoreProviders
  BY DEF StoreInv, Writing
<1>3. told \in [StoreProviders -> ServerSets]
  BY <1>0, <1>2 DEF StoreStates
<1>4. PICK hasLegacy \in BOOLEAN :
        store' = [store EXCEPT !.at = "up", !.open = "none", !.manifest = "whole", !.hasLegacy = hasLegacy,
                               !.setting = "none", !.told = told]
  <2>1. Storage!LegacyAfter \in BOOLEAN /\ store.hasLegacy \in BOOLEAN
    BY <1>0 DEF Storage!LegacyAfter, StoreStates
  <2>2. PICK hasLegacy \in BOOLEAN :
          store' = Storage!Acknowledge([store EXCEPT !.at = "up", !.open = "none", !.manifest = "whole",
                                                     !.hasLegacy = hasLegacy, !.setting = "none"])
    BY <2>1 DEF Storage!WriteManifest
  <2>3. QED
    BY <1>0, <2>2 DEF Storage!Acknowledge, StoreStates
<1>5. \A p \in StoreProviders : told[p] = store.told[p] \/ told[p] = store.memory[p]
  BY <1>0, <1>2 DEF StoreStates
<1> HIDE DEF told
<1>6. store' \in StoreStates
  BY <1>0, <1>3, <1>4 DEF StoreStates
<1>7. /\ store'.at = "up" /\ store'.open = "none" /\ store'.manifest = "whole" /\ store'.told = told
      /\ \A n \in {"hardcoded", "memory", "file", "broken", "legacy", "todo", "migrates", 
                     "clock", "updates", "crashes", "faults", "releases", "marks", 
                     "emptied"} : store'[n] = store[n]
  BY <1>0, <1>4 DEF StoreStates
<1>8. AllTimely(store')
  <2>1. \A p \in StoreProviders : told[p].version <= store.hardcoded.version
    BY <1>5 DEF StoreInv, AllTimely, Timely
  <2>2. QED
    BY <1>7, <2>1 DEF StoreInv, AllTimely, Timely
<1>9. Writing(store')
  <2>1. store'.open \notin StoreProviders
    BY <1>7 DEF Storage!StorageConstants
  <2>2. QED
    BY <1>1, <1>7, <2>1 DEF StoreInv, Writing
<1>10. \A p \in StoreProviders :
         /\ store.memory[p].version = store.hardcoded.version
         /\ ~store.emptied => Carries(store.memory[p], told[p], store.hardcoded.version)
  <2>1. SUFFICES ASSUME NEW p \in StoreProviders
                 PROVE  /\ store.memory[p].version = store.hardcoded.version
                        /\ ~store.emptied => Carries(store.memory[p], told[p], store.hardcoded.version)
    OBVIOUS
  <2>2. store.memory[p].version = store.hardcoded.version /\ store.memory[p].time \in Nat
    BY <1>0, <1>1 DEF StoreInv, MemoryCarries, StoreStates, ServerSets
  <2>3. CASE told[p] = store.told[p]
    BY <1>1, <2>2, <2>3
  <2>4. CASE told[p] = store.memory[p]
    BY <2>2, <2>4 DEF Carries
  <2>5. QED
    BY <1>5, <2>3, <2>4
<1>11. MemoryCarries(store')
  BY <1>7, <1>10 DEF MemoryCarries
<1>12. SourceCarries(store')
  <2>1. \A p \in StoreProviders : Source(store', p) = store.memory[p]
    BY <1>1, <1>7 DEF Source, IsFound
  <2>2. QED
    BY <1>7, <1>10, <2>1 DEF SourceCarries
<1>13. QED
  BY <1>6, <1>7, <1>8, <1>9, <1>11, <1>12 DEF StoreInv

(* A write that fails leaves what is broken, and the manifest empty if it was*)
(* being written.                                                            *)
LEMMA StoreWriteFails ==
  ASSUME Storage!StorageConstants, StoreInv(store), Storage!WriteFails PROVE StoreInv(store')
<1>0. store \in StoreStates /\ store.at \in {"sync", "set"}
  BY DEF StoreInv, Storage!WriteFails
<1>1. store' = [store EXCEPT !.at = "up", !.faults = @ + 1, !.open = "none", !.todo = {}, !.setting = "none",
                             !.emptied = @ \/ store.open = "manifest"]
  BY DEF Storage!WriteFails
<1>2. store.crashes \in Nat /\ store.faults \in Nat /\ store.faults + 1 \in Nat
  BY <1>0 DEF StoreStates
<1>3. store' \in StoreStates
  BY <1>0, <1>1, <1>2, ZenonT(30) DEF StoreStates
<1>4. /\ store'.at = "up" /\ store'.open = "none" /\ store'.todo = {} /\ store'.faults = store.faults + 1
      /\ store'.emptied <=> store.emptied \/ store.open = "manifest"
      /\ \A n \in {"hardcoded", "memory", "file", "broken", "manifest", "hasLegacy", 
                     "legacy", "migrates", "clock", "updates", "crashes", "releases", 
                     "marks", "told"} : store'[n] = store[n]
  BY <1>0, <1>1 DEF StoreStates
<1>5. AllTimely(store')
  BY <1>4 DEF StoreInv, AllTimely, Timely
<1>6. Writing(store')
  <2>1. store'.open \notin StoreProviders
    BY <1>4 DEF Storage!StorageConstants
  <2>2. store'.crashes + store'.faults # 0
    BY <1>2, <1>4
  <2>3. QED
    BY <1>4, <2>1, <2>2 DEF StoreInv, Writing
<1>7. MemoryCarries(store')
  BY <1>0, <1>4 DEF StoreInv, MemoryCarries
<1>8. SourceCarries(store')
  BY <1>4 DEF StoreInv, SourceCarries, Source, IsFound
<1>9. QED
  BY <1>3, <1>4, <1>5, <1>6, <1>7, <1>8 DEF StoreInv

(* A crash leaves at worst a manifest that is empty or broken.               *)
LEMMA StoreCrash ==
  ASSUME Storage!StorageConstants, StoreInv(store), Storage!Crash PROVE StoreInv(store')
<1>0. store \in StoreStates
  BY DEF StoreInv
<1>1. PICK manifest \in {"absent", "empty", "broken", "whole"} :
        /\ IF store.open = "manifest" THEN manifest \in {"empty", "broken"} ELSE manifest = store.manifest
        /\ store' = [store EXCEPT !.at = "down", !.crashes = @ + 1, !.open = "none", !.todo = {}, !.setting = "none",
                                  !.manifest = manifest, !.emptied = @ \/ manifest = "empty"]
  <2>1. store.manifest \in {"absent", "empty", "broken", "whole"}
    BY <1>0 DEF StoreStates
  <2>2. QED
    BY <2>1 DEF Storage!Crash
<1>2. store.crashes \in Nat /\ store.faults \in Nat /\ store.crashes + 1 \in Nat
  BY <1>0 DEF StoreStates
<1>3. store' \in StoreStates
  <2>1. (store.emptied \/ manifest = "empty") \in BOOLEAN
    OBVIOUS
  <2>2. QED
    BY <1>0, <1>1, <1>2, <2>1, ZenonT(30) DEF StoreStates
<1>4. /\ store'.at = "down" /\ store'.open = "none" /\ store'.todo = {} /\ store'.crashes = store.crashes + 1
      /\ store'.manifest = manifest
      /\ store'.emptied <=> store.emptied \/ manifest = "empty"
      /\ \A n \in {"hardcoded", "memory", "file", "broken", "hasLegacy", "legacy", 
                     "migrates", "clock", "updates", "faults", "releases", "marks", "told"} : store'[n] = store[n]
  BY <1>0, <1>1 DEF StoreStates
<1>5. AllTimely(store')
  BY <1>4 DEF StoreInv, AllTimely, Timely
<1>6. Writing(store')
  <2>1. store'.open \notin StoreProviders
    BY <1>4 DEF Storage!StorageConstants
  <2>2. store'.crashes + store'.faults # 0
    BY <1>2, <1>4
  <2>3. QED
    BY <1>4, <2>1, <2>2 DEF Writing
<1>7. MemoryCarries(store')
  BY <1>4 DEF MemoryCarries
<1>8. SourceCarries(store')
  <2>1. CASE store.open = "manifest"
    <3>1. SUFFICES ASSUME ~store.emptied, manifest # "empty", NEW p \in StoreProviders
                   PROVE  Carries(Source(store', p), store.told[p], store.hardcoded.version)
      BY <1>4 DEF SourceCarries
    <3>2. Source(store', p) = store.file[p]
      BY <1>1, <1>4, <2>1, <3>1 DEF Source, IsFound
    <3>3. QED
      BY <2>1, <3>1, <3>2, AllFilesWritten
  <2>2. CASE store.open # "manifest"
    <3>1. manifest = store.manifest
      BY <1>1, <2>2
    <3>2. QED
      BY <1>4, <2>2, <3>1 DEF StoreInv, SourceCarries, Source, IsFound
  <2>3. QED
    BY <2>1, <2>2
<1>9. QED
  BY <1>3, <1>4, <1>5, <1>6, <1>7, <1>8 DEF StoreInv

(* A new release is more recent than all that is stored.                     *)
LEMMA StoreUpgrade ==
  ASSUME StoreInv(store), Storage!Upgrade PROVE StoreInv(store')
<1>0. store \in StoreStates /\ store.at = "down"
  BY DEF StoreInv, Storage!Upgrade
<1>1. PICK version \in {store.hardcoded.version, store.hardcoded.version + 1} :
        store' = [store EXCEPT !.releases = @ + 1, !.clock = @ + 1,
                               !.hardcoded = Storage!Servers(version, store.clock + 1, FALSE, FALSE)]
  BY DEF Storage!Upgrade
<1> DEFINE hard == Storage!Servers(version, store.clock + 1, FALSE, FALSE)
<1>2. /\ store.releases + 1 \in Nat /\ store.clock \in Nat /\ store.clock + 1 \in Nat
      /\ store.hardcoded.version \in Nat /\ version \in Nat
  BY <1>0 DEF StoreStates, ServerSets
<1>3. hard \in ServerSets /\ hard.version = version /\ hard.time = store.clock + 1
  BY <1>2 DEF ServerSets, Storage!Servers
<1> HIDE DEF hard
<1>4. store' = [store EXCEPT !.releases = @ + 1, !.clock = @ + 1, !.hardcoded = hard]
  BY <1>1 DEF hard
<1>5. store' \in StoreStates
  BY <1>0, <1>2, <1>3, <1>4 DEF StoreStates
<1>6. /\ store'.clock = store.clock + 1 /\ store'.hardcoded = hard
      /\ \A n \in {"memory", "file", "broken", "manifest", "hasLegacy", "legacy", "at", 
                     "todo", "open", "migrates", "setting", "updates", "crashes", "faults", 
                     "marks", "emptied", "told"} : store'[n] = store[n]
  BY <1>0, <1>4 DEF StoreStates
<1>7. AllTimely(store')
  <2>1. \A p \in StoreProviders : /\ store.memory[p] \in ServerSets /\ store.file[p] \in ServerSets
                                   /\ store.legacy[p] \in ServerSets /\ store.told[p] \in ServerSets
    BY <1>0 DEF StoreStates
  <2>2. ASSUME NEW servers \in ServerSets, Timely(store, servers) PROVE Timely(store', servers)
    <3>1. servers.time \in Nat /\ servers.version \in Nat
      BY DEF ServerSets
    <3>2. servers.time <= store.clock /\ servers.version <= store.hardcoded.version
      BY <2>2 DEF Timely
    <3>3. store.hardcoded.version <= version
      BY <1>1, <1>2
    <3>4. servers.time <= store.clock + 1 /\ servers.version <= version
      BY <1>2, <3>1, <3>2, <3>3
    <3>5. QED
      BY <1>3, <1>6, <3>4 DEF Timely
  <2>3. hard.version > 0 /\ hard.time <= store'.clock
    BY <1>1, <1>2, <1>3, <1>6 DEF StoreInv, AllTimely
  <2>4. \A p \in StoreProviders : store.told[p].version <= hard.version
    BY <1>1, <1>2, <1>3, <2>1 DEF StoreInv, AllTimely, ServerSets
  <2>5. QED
    BY <1>6, <2>1, <2>2, <2>3, <2>4 DEF StoreInv, AllTimely
<1>8. Writing(store')
  BY <1>6 DEF StoreInv, Writing
<1>9. MemoryCarries(store')
  BY <1>0, <1>6 DEF MemoryCarries
<1>10. SourceCarries(store')
  <2>1. SUFFICES ASSUME ~store.emptied, store.open # "manifest", NEW p \in StoreProviders,
                        IsFound(store) => p \notin store.broken
                 PROVE  Carries(Source(store, p), store.told[p], version)
    BY <1>3, <1>6 DEF SourceCarries, Source, IsFound
  <2>2. Carries(Source(store, p), store.told[p], store.hardcoded.version)
    BY <2>1 DEF StoreInv, SourceCarries
  <2>3. store.told[p].version \in Nat /\ store.told[p].version <= store.hardcoded.version
    BY <1>0 DEF StoreInv, AllTimely, StoreStates, ServerSets
  <2>4. CASE version = store.hardcoded.version
    BY <2>2, <2>4
  <2>5. CASE version = store.hardcoded.version + 1
    BY <1>2, <2>3, <2>5 DEF Carries
  <2>6. QED
    BY <1>1, <2>4, <2>5
<1>11. QED
  BY <1>0, <1>5, <1>6, <1>7, <1>8, <1>9, <1>10 DEF StoreInv

(* The user marks what is on a file that would be read.                      *)
LEMMA StoreMark ==
  ASSUME StoreInv(store), NEW p \in StoreProviders, Storage!Mark(p) PROVE StoreInv(store')
<1>0. store \in StoreStates /\ store.at = "down" /\ store.manifest = "whole" /\ p \notin store.broken
  BY DEF StoreInv, Storage!Mark
<1>1. PICK kept \in BOOLEAN, preferred \in BOOLEAN :
        LET marked == [store.file[p] EXCEPT !.kept = kept, !.preferred = preferred]
        IN  store' = [store EXCEPT !.marks = @ + 1, !.file[p] = marked, !.told[p] = marked]
  BY DEF Storage!Mark
<1> DEFINE marked == [store.file[p] EXCEPT !.kept = kept, !.preferred = preferred]
<1>2. store.file[p] \in ServerSets /\ store.marks + 1 \in Nat
  BY <1>0 DEF StoreStates
<1>3. marked \in ServerSets /\ marked.version = store.file[p].version /\ marked.time = store.file[p].time
  BY <1>2 DEF ServerSets
<1>4. store' = [store EXCEPT !.marks = @ + 1, !.file = [@ EXCEPT ![p] = marked], !.told = [@ EXCEPT ![p] = marked]]
  BY <1>0, <1>1 DEF StoreStates
<1> HIDE DEF marked
<1>5. store' \in StoreStates
  <2>1. /\ [store.file EXCEPT ![p] = marked] \in [StoreProviders -> ServerSets]
        /\ [store.told EXCEPT ![p] = marked] \in [StoreProviders -> ServerSets]
    BY <1>0, <1>3 DEF StoreStates
  <2>2. QED
    BY <1>0, <1>2, <1>4, <2>1 DEF StoreStates
<1>6. /\ store'.file[p] = marked /\ store'.told[p] = marked
      /\ \A q \in StoreProviders \ {p} : store'.file[q] = store.file[q] /\ store'.told[q] = store.told[q]
      /\ \A n \in {"hardcoded", "memory", "broken", "manifest", "hasLegacy", "legacy", 
                     "at", "todo", "open", "migrates", "setting", "clock", "updates", 
                     "crashes", "faults", "releases", "emptied"} : store'[n] = store[n]
  BY <1>0, <1>4 DEF StoreStates
<1>7. AllTimely(store')
  BY <1>3, <1>6 DEF StoreInv, AllTimely, Timely
<1>8. Writing(store')
  BY <1>0, <1>6 DEF StoreInv, Writing
<1>9. MemoryCarries(store')
  BY <1>0, <1>6 DEF MemoryCarries
<1>10. SourceCarries(store')
  <2>1. SUFFICES ASSUME ~store.emptied, store.open # "manifest", NEW q \in StoreProviders, q \notin store.broken
                 PROVE  Carries(store'.file[q], store'.told[q], store.hardcoded.version)
    BY <1>0, <1>6 DEF SourceCarries, Source, IsFound
  <2>2. CASE q = p
    <3>1. marked.time \in Nat
      BY <1>3 DEF ServerSets
    <3>2. QED
      BY <1>6, <2>2, <3>1 DEF Carries
  <2>3. CASE q # p
    <3>1. Carries(store.file[q], store.told[q], store.hardcoded.version)
      BY <1>0, <2>1 DEF StoreInv, SourceCarries, Source, IsFound
    <3>2. QED
      BY <1>6, <2>3, <3>1
  <2>4. QED
    BY <2>2, <2>3
<1>11. QED
  BY <1>0, <1>5, <1>6, <1>7, <1>8, <1>9, <1>10 DEF StoreInv

LEMMA StoreStep == ASSUME Storage!StorageConstants, StoreInv(store), [Storage!Next]_store PROVE StoreInv(store')
<1>1. CASE UNCHANGED store
  BY <1>1
<1>2. CASE Storage!Sync
  BY <1>2, StoreSync
<1>3. CASE Storage!WriteFile
  BY <1>3, StoreFiles
<1>4. CASE Storage!OpenManifest
  BY <1>4, StoreOpenManifest
<1>5. CASE Storage!WriteManifest
  BY <1>5, StoreWriteManifest
<1>6. CASE Storage!WriteFails
  BY <1>6, StoreWriteFails
<1>7. CASE Storage!Crash
  BY <1>7, StoreCrash
<1>8. CASE Storage!Upgrade
  BY <1>8, StoreUpgrade
<1>9. ASSUME NEW p \in StoreProviders, Storage!SetServers(p) PROVE StoreInv(store')
  BY <1>9, StoreSet
<1>10. ASSUME NEW p \in StoreProviders, Storage!OpenFile(p) PROVE StoreInv(store')
  BY <1>10, StoreFiles
<1>11. ASSUME NEW p \in StoreProviders, Storage!Mark(p) PROVE StoreInv(store')
  BY <1>11, StoreMark
<1>12. QED
  BY <1>1, <1>2, <1>3, <1>4, <1>5, <1>6, <1>7, <1>8, <1>9, <1>10, <1>11 DEF Storage!Next

(* What is read at a start is at least as recent as what was told, so what   *)
(* runs is too.                                                              *)
LEMMA StoreInvIsEnough ==
  ASSUME StoreInv(store) PROVE Storage!TypeOK /\ Storage!StoredServersAreUsed /\ Storage!RefusesAfterBrokenWritesOnly
<1>0. store \in StoreStates
  BY DEF StoreInv
<1>1. Storage!TypeOK
  BY <1>0 DEF Storage!TypeOK, StoreStates
<1>2. Storage!StoredServersAreUsed
  BY DEF StoreInv, MemoryCarries, Carries, Storage!StoredServersAreUsed
<1>3. Storage!RefusesAfterBrokenWritesOnly
  BY DEF StoreInv, Storage!RefusesAfterBrokenWritesOnly, Storage!Unreadable, Storage!Found, IsFound
<1>4. QED
  BY <1>1, <1>2, <1>3

LEMMA StoreInvariance == ASSUME Storage!StorageConstants PROVE Storage!Spec => []StoreInv(store)
<1>1. Storage!Init => StoreInv(store)
  BY StoreStart
<1>2. StoreInv(store) /\ [Storage!Next]_store => StoreInv(store)'
  BY StoreStep
<1>3. QED
  BY <1>1, <1>2, PTL DEF Storage!Spec

-----------------------------------------------------------------------------
(* ServerChoice.                                                             *)

(* In a finite set that is ordered every element has a place of its own, and *)
(* every place is taken.                                                     *)
LEMMA PlacesAreTaken ==
  ASSUME NEW S, IsFiniteSet(S), NEW R,
         \A c, d \in S : c # d => <<c, d>> \in R \/ <<d, c>> \in R,
         \A c \in S : <<c, c>> \notin R,
         \A c, d, e \in S : <<c, d>> \in R /\ <<d, e>> \in R => <<c, e>> \in R
  PROVE  LET place(c) == Cardinality({d \in S : <<d, c>> \in R}) IN
         /\ Cardinality(S) \in Nat
         /\ \A i \in 1 .. Cardinality(S) : \E c \in S : place(c) = i - 1
<1> DEFINE before(c) == {d \in S : <<d, c>> \in R}
           n == Cardinality(S)
           f == [c \in S |-> Cardinality(before(c)) + 1]
<1>1. n \in Nat
  BY FS_CardinalityType
<1>2. \A T \in SUBSET S : IsFiniteSet(T) /\ Cardinality(T) \in Nat /\ Cardinality(T) <= n /\ (Cardinality(T) = n => T = S)
  BY FS_Subset, FS_CardinalityType
<1>3. \A c \in S : Cardinality(before(c)) \in 0 .. n - 1
  <2>1. SUFFICES ASSUME NEW c \in S PROVE Cardinality(before(c)) \in 0 .. n - 1
    OBVIOUS
  <2>2. before(c) \in SUBSET S /\ before(c) # S
    OBVIOUS
  <2> HIDE DEF before, n
  <2>3. QED
    BY <1>1, <1>2, <2>2
<1>4. ASSUME NEW c \in S, NEW d \in S, <<c, d>> \in R PROVE Cardinality(before(c)) < Cardinality(before(d))
  <2>1. before(c) \in SUBSET before(d) /\ c \in before(d) /\ c \notin before(c)
    BY <1>4
  <2>2. IsFiniteSet(before(d)) /\ before(d) \in SUBSET S /\ before(c) \in SUBSET S
    BY <1>2
  <2> HIDE DEF before
  <2>3. Cardinality(before(c)) <= Cardinality(before(d)) /\ Cardinality(before(c)) # Cardinality(before(d))
    BY <2>1, <2>2, FS_Subset
  <2>4. QED
    BY <1>2, <2>2, <2>3
<1>5. f \in Injection(S, 1 .. n)
  <2>1. f \in [S -> 1 .. n]
    BY <1>1, <1>3
  <2>2. ASSUME NEW c \in S, NEW d \in S, f[c] = f[d] PROVE c = d
    <3>1. Cardinality(before(c)) = Cardinality(before(d))
      BY <1>3, <2>2
    <3>2. Cardinality(before(c)) \in Int
      BY <1>3
    <3> HIDE DEF before
    <3>3. ~(<<c, d>> \in R)
      BY <1>4, <3>1, <3>2
    <3>4. ~(<<d, c>> \in R)
      BY <1>4, <3>1, <3>2
    <3>5. QED
      BY <3>3, <3>4
  <2> HIDE DEF f
  <2>3. QED
    BY <2>1, <2>2 DEF Injection, IsInjective
<1>6. f \in Surjection(S, 1 .. n)
  <2>1. IsFiniteSet(1 .. n) /\ Cardinality(1 .. n) = n
    BY <1>1, FS_Interval
  <2> HIDE DEF f
  <2>2. QED
    BY <1>5, <2>1, FS_Injection
<1>7. ASSUME NEW i \in 1 .. n PROVE \E c \in S : Cardinality(before(c)) = i - 1
  <2>1. PICK c \in S : f[c] = i
    <3> HIDE DEF f
    <3>1. QED
      BY <1>6 DEF Surjection
  <2>2. f[c] = Cardinality(before(c)) + 1 /\ Cardinality(before(c)) \in Int
    BY <1>3
  <2> HIDE DEF before, f
  <2>3. QED
    BY <2>1, <2>2
<1>8. QED
  BY <1>1, <1>7

(* What can be chosen, and where it can be connected to, is finite.          *)
LEMMA PoolIsFinite ==
  ASSUME Choice!ChoiceConstants, NEW w \in Wanted, NEW ipv6 \in BOOLEAN
  PROVE  /\ IsFiniteSet(Choice!Chosen(w)) /\ Choice!Chosen(w) \subseteq Catalogue
         /\ IsFiniteSet(Choice!Pool(w, ipv6))
         /\ \A c \in Choice!Pool(w, ipv6) :
              /\ c.server \in Choice!Chosen(w) /\ c.ip \in Nat /\ Choice!Family(c) \in {4, 6}
              /\ c = [server |-> c.server, ip |-> c.ip]
<1> DEFINE C == Choice!Chosen(w)
           addresses == [s \in C |-> Choice!Addresses(s, ipv6)]
           families == {addresses[s] : s \in C}
<1>1. C \in SUBSET Catalogue
  BY DEF Choice!Chosen
<1>2. IsFiniteSet(Catalogue)
  BY DEF Choice!ChoiceConstants, Choice!IsFiniteSet, IsFiniteSet
<1>3. IsFiniteSet(C)
  BY <1>1, <1>2, FS_Subset
<1>4. \A s \in C : s.ips \in Seq({4, 6})
  BY <1>1 DEF Choice!ChoiceConstants
<1>5. ASSUME NEW s \in C PROVE IsFiniteSet(Choice!Addresses(s, ipv6))
  <2> DEFINE ips == {i \in DOMAIN s.ips : ipv6 \/ s.ips[i] = 4}
             f == [i \in ips |-> Choice!Connection(s, i)]
  <2>1. ips \in SUBSET (1 .. Len(s.ips)) /\ Len(s.ips) \in Nat
    BY <1>4
  <2>2. IsFiniteSet(1 .. Len(s.ips))
    <3>1. \A k \in Int : IsFiniteSet(1 .. k)
      BY FS_Interval
    <3>2. QED
      BY <2>1, <3>1
  <2>3. IsFiniteSet(ips)
    BY <2>1, <2>2, FS_Subset
  <2>4. Choice!Addresses(s, ipv6) = {f[i] : i \in ips}
    BY DEF Choice!Addresses
  <2> HIDE DEF ips
  <2>5. f \in Surjection(ips, {f[i] : i \in ips})
    BY DEF Surjection
  <2> HIDE DEF f
  <2>6. QED
    BY <2>3, <2>4, <2>5, FS_Surjection
<1>6. IsFiniteSet(families)
  <2>1. addresses \in Surjection(C, families)
    BY DEF Surjection
  <2> HIDE DEF addresses, families
  <2>2. QED
    BY <1>3, <2>1, FS_Surjection
<1>7. Choice!Pool(w, ipv6) = UNION families
  BY DEF Choice!Pool
<1>8. IsFiniteSet(Choice!Pool(w, ipv6))
  <2>1. \A T \in families : IsFiniteSet(T)
    BY <1>5
  <2> HIDE DEF families
  <2>2. QED
    BY <1>6, <1>7, <2>1, FS_UNION
<1>9. ASSUME NEW c \in Choice!Pool(w, ipv6)
      PROVE  /\ c.server \in C /\ c.ip \in Nat /\ Choice!Family(c) \in {4, 6} /\ c = [server |-> c.server, ip |-> c.ip]
  <2>1. PICK s \in C : c \in Choice!Addresses(s, ipv6)
    BY DEF Choice!Pool
  <2>2. PICK i \in DOMAIN s.ips : c = Choice!Connection(s, i)
    BY <2>1 DEF Choice!Addresses
  <2>3. c = [server |-> s, ip |-> i]
    BY <2>2 DEF Choice!Connection
  <2>4. i \in Nat /\ s.ips[i] \in {4, 6}
    BY <1>4
  <2>5. QED
    BY <2>3, <2>4 DEF Choice!Family
<1>10. QED
  BY <1>1, <1>3, <1>8, <1>9

(* The connections are those of the pool, each once.                         *)
LEMMA PoolIsSorted ==
  ASSUME Choice!ChoiceConstants, NEW w \in Wanted, NEW ipv6 \in BOOLEAN, NEW order \in Choice!Orders(Choice!Chosen(w))
  PROVE  LET pool == Choice!Pool(w, ipv6)
             connections == Choice!Connections(pool, order)
         IN  /\ Cardinality(pool) \in Nat /\ connections \in Seq(pool) /\ Len(connections) = Cardinality(pool)
             /\ \A i, j \in 1 .. Cardinality(pool) : connections[i] = connections[j] => i = j
<1> DEFINE pool == Choice!Pool(w, ipv6)
           connections == Choice!Connections(pool, order)
           R == {r \in pool \X pool : Choice!Before(order, r[1], r[2])}
           place(c) == Cardinality({d \in pool : <<d, c>> \in R})
<1>1. /\ IsFiniteSet(pool)
      /\ \A c \in pool : /\ c.server \in Choice!Chosen(w) /\ c.ip \in Nat /\ Choice!Family(c) \in {4, 6}
                         /\ c = [server |-> c.server, ip |-> c.ip]
  BY PoolIsFinite
<1>2. IsFiniteSet(Choice!Chosen(w))
  BY PoolIsFinite
<1>3. /\ \A s \in Choice!Chosen(w) : order[s] \in Int
      /\ \A s, t \in Choice!Chosen(w) : order[s] = order[t] => s = t
  BY DEF Choice!Orders
<1> HIDE DEF pool
<1>4. \A c, d \in pool : <<c, d>> \in R <=> Choice!Before(order, c, d)
  OBVIOUS
<1>5. \A c, d \in pool : c # d => Choice!Before(order, c, d) \/ Choice!Before(order, d, c)
  BY <1>1, <1>3 DEF Choice!Before
<1>6. \A c \in pool : ~Choice!Before(order, c, c)
  BY <1>1 DEF Choice!Before
<1>7. \A c, d, e \in pool : Choice!Before(order, c, d) /\ Choice!Before(order, d, e) => Choice!Before(order, c, e)
  BY <1>1, <1>3 DEF Choice!Before
<1> HIDE DEF R
<1>8. Cardinality(pool) \in Nat /\ \A i \in 1 .. Cardinality(pool) : \E c \in pool : place(c) = i - 1
  BY <1>1, <1>4, <1>5, <1>6, <1>7, PlacesAreTaken
<1>9. \A c \in pool : {d \in pool : <<d, c>> \in R} = {d \in pool : Choice!Before(order, d, c)}
  BY <1>4
<1>10. connections = [i \in 1 .. Cardinality(pool) |-> CHOOSE c \in pool : Cardinality({d \in pool : Choice!Before(order, d, c)}) = i - 1]
  BY DEF Choice!Connections, Choice!Cardinality, Cardinality
<1> HIDE DEF connections
<1>11. ASSUME NEW i \in 1 .. Cardinality(pool) PROVE connections[i] \in pool /\ place(connections[i]) = i - 1
  <2>1. \E c \in pool : Cardinality({d \in pool : Choice!Before(order, d, c)}) = i - 1
    BY <1>8, <1>9
  <2>2. /\ connections[i] \in pool
        /\ Cardinality({d \in pool : Choice!Before(order, d, connections[i])}) = i - 1
    BY <1>10, <2>1
  <2>3. QED
    BY <1>9, <2>2
<1>12. connections \in Seq(pool) /\ Len(connections) = Cardinality(pool)
  <2>1. connections \in [1 .. Cardinality(pool) -> pool]
    BY <1>10, <1>11
  <2> DEFINE n == Cardinality(pool)
  <2> HIDE DEF n
  <2>2. n \in Nat /\ connections \in [1 .. n -> pool]
    BY <1>8, <2>1 DEF n
  <2>3. connections \in Seq(pool) /\ Len(connections) = n
    BY <2>2
  <2>4. QED
    BY <2>3 DEF n
<1>13. ASSUME NEW i \in 1 .. Cardinality(pool), NEW j \in 1 .. Cardinality(pool), connections[i] = connections[j]
       PROVE  i = j
  <2>1. i - 1 = j - 1
    BY <1>11, <1>13
  <2>2. QED
    BY <1>8, <2>1
<1>14. QED
  BY <1>8, <1>12, <1>13 DEF pool, connections

(* Where the pick k before the last one was, of n in turn and i the next.    *)
Back(i, k, n) == IF i - 1 - k >= 1 THEN i - 1 - k ELSE i - 1 - k + n

Connected == [server : Catalogue, ip : Nat]
ChoiceStates ==
    [pool : Seq(Connected), next : Nat \ {0}, asked : Wanted \X BOOLEAN \cup {<<>>}, picked : Seq(Connected),
     calls : 0 .. Picks]

Targeted(w) == w.vpn = "wireguard" /\ w.target # {}

(* All that was picked since asked was set is asked for.                     *)
ArePicks(picked, asked) ==
    \A i \in 1 .. Len(picked) :
      /\ picked[i] \in Choice!Pool(asked[1], asked[2])
      /\ Targeted(asked[1]) => picked[i] \in asked[1].target

(* The last picks are the last ones of the pool, in turn.                    *)
InTurn(picked, pool, next) ==
    \A k \in 0 .. Len(pool) - 1 : k < Len(picked) => picked[Len(picked) - k] = pool[Back(next, k, Len(pool))]

Differ(picked, n) == \A i, j \in 1 .. Len(picked) : i < j /\ j - i < n => picked[i] # picked[j]

IsAlone(asked) == Cardinality(Choice!Chosen(asked[1])) = 1 /\ ~Targeted(asked[1])

ChoiceInv(c) ==
    /\ c \in ChoiceStates
    /\ c.next <= Len(c.pool) \/ (c.next = 1 /\ c.pool = <<>>)
    /\ c.picked # <<>> =>
         /\ c.asked \in Wanted \X BOOLEAN
         /\ ArePicks(c.picked, c.asked)
         /\ IsAlone(c.asked) =>
              /\ \E order \in Choice!Orders(Choice!Chosen(c.asked[1])) :
                   c.pool = Choice!Connections(Choice!Pool(c.asked[1], c.asked[2]), order)
              /\ InTurn(c.picked, c.pool, c.next) /\ Differ(c.picked, Len(c.pool))

(* One server has one order.                                                 *)
LEMMA OneOrder ==
  ASSUME Choice!ChoiceConstants, NEW w \in Wanted, Cardinality(Choice!Chosen(w)) = 1,
         NEW o1 \in Choice!Orders(Choice!Chosen(w)), NEW o2 \in Choice!Orders(Choice!Chosen(w))
  PROVE  o1 = o2
<1>1. o1 \in [Choice!Chosen(w) -> 1 .. 1] /\ o2 \in [Choice!Chosen(w) -> 1 .. 1]
  BY DEF Choice!Orders, Choice!Cardinality, Cardinality
<1>2. \A s \in Choice!Chosen(w) : o1[s] = 1 /\ o2[s] = 1
  BY <1>1
<1>3. QED
  BY <1>1, <1>2

(* A pick in turn.                                                           *)
LEMMA TurnsDiffer ==
  ASSUME NEW picked \in Seq(Connected), NEW pool \in Seq(Connected), NEW i \in 1 .. Len(pool),
         NEW next, next = IF i = Len(pool) THEN 1 ELSE i + 1,
         \A k, l \in 1 .. Len(pool) : pool[k] = pool[l] => k = l,
         picked # <<>> => InTurn(picked, pool, i) /\ Differ(picked, Len(pool))
  PROVE  LET more == Append(picked, pool[i]) IN InTurn(more, pool, next) /\ Differ(more, Len(pool))
<1> DEFINE more == Append(picked, pool[i])
           n == Len(pool)
           m == Len(picked)
<1>1. n \in Nat /\ m \in Nat /\ (m > 0 => picked # <<>>) /\ pool[i] \in Connected
  OBVIOUS
<1>2. Len(more) = m + 1 /\ more[m + 1] = pool[i] /\ \A k \in 1 .. m : more[k] = picked[k]
  BY <1>1
<1> HIDE DEF more
<1>3. /\ next \in 1 .. n /\ Back(next, 0, n) = i
      /\ \A k \in 0 .. n - 1 : Back(i, k, n) \in 1 .. n
      /\ \A k \in 1 .. n - 1 : Back(next, k, n) = Back(i, k - 1, n) /\ Back(i, k - 1, n) # i
  <2> HIDE DEF n
  <2>1. n \in Nat /\ i \in 1 .. n /\ next = IF i = n THEN 1 ELSE i + 1
    BY <1>1 DEF n
  <2>2. QED
    BY <2>1 DEF Back
<1>4. \A k \in 0 .. n - 1 : k < m => picked[m - k] = pool[Back(i, k, n)]
  BY <1>1 DEF InTurn
<1>5. \A k, l \in 1 .. m : k < l /\ l - k < n => picked[k] # picked[l]
  BY <1>1 DEF Differ
<1>6. ASSUME NEW k \in 0 .. n - 1, k < m + 1 PROVE more[m + 1 - k] = pool[Back(next, k, n)]
  <2> HIDE DEF n, m
  <2>1. CASE k = 0
    BY <1>1, <1>2, <1>3, <2>1
  <2>2. CASE k # 0
    <3>1. k - 1 \in 0 .. n - 1 /\ k \in 1 .. n - 1 /\ k - 1 < m /\ m - (k - 1) = m + 1 - k /\ m + 1 - k \in 1 .. m
      BY <1>1, <1>6, <2>2
    <3>2. picked[m - (k - 1)] = pool[Back(i, k - 1, n)]
      BY <1>4, <3>1
    <3>3. more[m + 1 - k] = picked[m + 1 - k]
      BY <1>2, <3>1
    <3>4. QED
      BY <1>3, <3>1, <3>2, <3>3
  <2>3. QED
    BY <2>1, <2>2
<1>7. ASSUME NEW k \in 1 .. m + 1, NEW l \in 1 .. m + 1, k < l, l - k < n PROVE more[k] # more[l]
  <2>1. CASE l # m + 1
    <3>1. k \in 1 .. m /\ l \in 1 .. m
      BY <1>1, <1>7, <2>1
    <3>2. QED
      BY <1>2, <1>5, <1>7, <3>1
  <2>2. CASE l = m + 1
    <3> DEFINE d == l - k
    <3>1. d \in 1 .. n - 1 /\ d - 1 \in 0 .. n - 1 /\ d - 1 < m /\ m - (d - 1) = k /\ k \in 1 .. m
      BY <1>1, <1>7, <2>2
    <3> HIDE DEF d, n, m
    <3>2. more[k] = pool[Back(i, d - 1, n)]
      BY <1>2, <1>4, <3>1
    <3>3. Back(i, d - 1, n) \in 1 .. n /\ Back(i, d - 1, n) # i
      BY <1>3, <3>1
    <3>4. pool[Back(i, d - 1, n)] # pool[i]
      BY <3>3 DEF n
    <3>5. QED
      BY <1>2, <2>2, <3>2, <3>4
  <2>3. QED
    BY <2>1, <2>2
<1>8. InTurn(more, pool, next)
  BY <1>2, <1>6 DEF InTurn
<1>9. Differ(more, n)
  BY <1>2, <1>7 DEF Differ
<1>10. QED
  BY <1>8, <1>9 DEF more

LEMMA ChoiceStart == ASSUME Choice!ChoiceConstants, Choice!Init PROVE ChoiceInv(choice)
<1>1. 0 \in 0 .. Picks
  BY DEF Choice!ChoiceConstants
<1>2. QED
  BY <1>1 DEF Choice!Init, ChoiceInv, ChoiceStates

(* The picks start again if something else is asked for.                     *)
LEMMA ChoiceAsked ==
  ASSUME Choice!ChoiceConstants, ChoiceInv(choice), choice.calls < Picks, NEW w \in Wanted, NEW ipv6 \in BOOLEAN,
         NEW asked, asked = [choice EXCEPT !.calls = @ + 1, !.asked = <<w, ipv6>>,
                                           !.picked = IF choice.asked = <<w, ipv6>> THEN @ ELSE <<>>]
  PROVE  ChoiceInv(asked) /\ asked.asked = <<w, ipv6>>
<1> DEFINE picked == IF choice.asked = <<w, ipv6>> THEN choice.picked ELSE <<>>
<1>1. choice \in ChoiceStates
  BY DEF ChoiceInv
<1>2. choice.calls + 1 \in 0 .. Picks
  BY <1>1 DEF Choice!ChoiceConstants, ChoiceStates
<1>3. picked \in Seq(Connected) /\ <<w, ipv6>> \in Wanted \X BOOLEAN
  BY <1>1 DEF ChoiceStates
<1>4. asked = [choice EXCEPT !.calls = @ + 1, !.asked = <<w, ipv6>>, !.picked = picked]
  BY <1>1 DEF ChoiceStates
<1>5. picked # <<>> => choice.asked = <<w, ipv6>> /\ picked = choice.picked
  OBVIOUS
<1> HIDE DEF picked
<1>6. asked \in ChoiceStates
  BY <1>1, <1>2, <1>3, <1>4 DEF ChoiceStates
<1>7. asked.pool = choice.pool /\ asked.next = choice.next /\ asked.picked = picked /\ asked.asked = <<w, ipv6>>
  BY <1>1, <1>4 DEF ChoiceStates
<1>8. QED
  BY <1>3, <1>5, <1>6, <1>7 DEF ChoiceInv

(* ConnectionPicker.pickConnection                                           *)
LEMMA ChoiceCycle ==
  ASSUME Choice!ChoiceConstants, NEW c, ChoiceInv(c), NEW w \in Wanted, NEW ipv6 \in BOOLEAN, c.asked = <<w, ipv6>>,
         ~Targeted(w), NEW order \in Choice!Orders(Choice!Chosen(w)), NEW connections,
         connections = Choice!Connections(Choice!Pool(w, ipv6), order), connections # <<>>
  PROVE  ChoiceInv(Choice!Cycle(c, connections))
<1> DEFINE pool == Choice!Pool(w, ipv6)
           n == Cardinality(pool)
           i == Choice!NextOf(c, connections)
           next == IF i = Len(connections) THEN 1 ELSE i + 1
           picked == Append(c.picked, connections[i])
           d == Choice!Cycle(c, connections)
<1>1. /\ n \in Nat /\ connections \in Seq(pool) /\ Len(connections) = n
      /\ \A k, l \in 1 .. n : connections[k] = connections[l] => k = l
  BY PoolIsSorted
<1>2. n \in Nat \ {0}
  BY <1>1
<1>3. pool \subseteq Connected
  <2>1. Choice!Chosen(w) \subseteq Catalogue
    BY PoolIsFinite
  <2>2. \A b \in pool : b.server \in Choice!Chosen(w) /\ b.ip \in Nat /\ b = [server |-> b.server, ip |-> b.ip]
    BY PoolIsFinite
  <2> HIDE DEF pool
  <2>3. QED
    BY <2>1, <2>2 DEF Connected
<1>4. c \in ChoiceStates /\ c.next \in Nat \ {0}
  BY DEF ChoiceInv, ChoiceStates
<1>5. i \in 1 .. n /\ (c.pool = connections => i = c.next)
  <2>1. c.next <= Len(c.pool) \/ (c.next = 1 /\ c.pool = <<>>)
    BY DEF ChoiceInv
  <2>2. CASE c.pool = connections
    <3>1. c.next <= n
      BY <1>1, <2>1, <2>2
    <3>2. i = c.next
      BY <1>1, <1>2, <1>4, <2>2, <3>1 DEF Choice!NextOf
    <3>3. QED
      BY <1>2, <1>4, <3>1, <3>2
  <2>3. CASE c.pool # connections
    <3>1. i = 1
      BY <2>3 DEF Choice!NextOf
    <3>2. QED
      BY <1>2, <2>3, <3>1
  <2>4. QED
    BY <2>2, <2>3
<1>6. d = [c EXCEPT !.pool = connections, !.next = next, !.picked = picked]
  BY <1>4 DEF Choice!Cycle, ChoiceStates
<1> HIDE DEF pool, n, i, d
<1>7. connections \in Seq(Connected) /\ connections[i] \in pool
  BY <1>1, <1>3, <1>5
<1>8. next \in 1 .. n
  BY <1>1, <1>2, <1>5
<1>9. c.picked \in Seq(Connected) /\ connections[i] \in Connected
  BY <1>3, <1>4, <1>7 DEF ChoiceStates
<1>10. /\ picked \in Seq(Connected) /\ Len(picked) = Len(c.picked) + 1 /\ picked # <<>>
       /\ \A k \in 1 .. Len(picked) : picked[k] = connections[i] \/ (k \in 1 .. Len(c.picked) /\ picked[k] = c.picked[k])
  BY <1>9
<1>11. c.picked # <<>> /\ IsAlone(c.asked) =>
         c.pool = connections /\ InTurn(c.picked, connections, i) /\ Differ(c.picked, Len(connections))
  <2>1. SUFFICES ASSUME c.picked # <<>>, IsAlone(c.asked)
                 PROVE  c.pool = connections /\ InTurn(c.picked, connections, i) /\ Differ(c.picked, Len(connections))
    OBVIOUS
  <2>2. PICK o \in Choice!Orders(Choice!Chosen(w)) : c.pool = Choice!Connections(pool, o)
    BY <2>1 DEF ChoiceInv, pool
  <2>3. o = order
    BY <2>1, OneOrder DEF IsAlone
  <2>4. c.pool = connections
    BY <2>2, <2>3 DEF pool
  <2>5. QED
    BY <1>5, <2>1, <2>4 DEF ChoiceInv
<1>12. IsAlone(c.asked) => InTurn(picked, connections, next) /\ Differ(picked, Len(connections))
  <2>1. SUFFICES ASSUME IsAlone(c.asked) PROVE InTurn(picked, connections, next) /\ Differ(picked, Len(connections))
    OBVIOUS
  <2>2. i \in 1 .. Len(connections) /\ \A k, l \in 1 .. Len(connections) : connections[k] = connections[l] => k = l
    BY <1>1, <1>5
  <2> HIDE DEF next
  <2>3. next = IF i = Len(connections) THEN 1 ELSE i + 1
    BY DEF next
  <2>4. QED
    BY <1>7, <1>9, <1>11, <2>1, <2>2, <2>3, TurnsDiffer
<1>13. ArePicks(picked, c.asked)
  <2>1. c.picked # <<>> => ArePicks(c.picked, c.asked)
    BY DEF ChoiceInv
  <2>2. \A k \in 1 .. Len(c.picked) : c.picked[k] \in pool
    BY <1>9, <2>1 DEF ArePicks, pool
  <2> HIDE DEF picked
  <2>3. \A k \in 1 .. Len(picked) : picked[k] \in pool
    BY <1>7, <1>10, <2>2
  <2>4. QED
    BY <2>3 DEF ArePicks, pool
<1> HIDE DEF picked, next
<1>14. d \in ChoiceStates
  <2>1. next \in Nat \ {0}
    BY <1>1, <1>8
  <2>2. QED
    BY <1>4, <1>6, <1>7, <1>10, <2>1 DEF ChoiceStates
<1>15. d.pool = connections /\ d.next = next /\ d.picked = picked /\ d.asked = c.asked
  BY <1>4, <1>6 DEF ChoiceStates
<1>16. d.next <= Len(d.pool)
  BY <1>1, <1>8, <1>15
<1>17. \E o \in Choice!Orders(Choice!Chosen(d.asked[1])) :
         d.pool = Choice!Connections(Choice!Pool(d.asked[1], d.asked[2]), o)
  BY <1>15 DEF pool
<1>18. QED
  BY <1>12, <1>13, <1>14, <1>15, <1>16, <1>17 DEF ChoiceInv, d

(* getTargetIPConnection                                                     *)
LEMMA ChoiceTarget ==
  ASSUME Choice!ChoiceConstants, NEW c, ChoiceInv(c), NEW w \in Wanted, NEW ipv6 \in BOOLEAN, c.asked = <<w, ipv6>>,
         Targeted(w), NEW order \in Choice!Orders(Choice!Chosen(w)), NEW connection,
         connection \in Choice!Pool(w, ipv6) \cap w.target
  PROVE  ChoiceInv([c EXCEPT !.picked = Append(@, connection)])
<1> DEFINE picked == Append(c.picked, connection)
           d == [c EXCEPT !.picked = Append(@, connection)]
<1>1. connection \in Connected
  <2>1. Choice!Chosen(w) \subseteq Catalogue
    BY PoolIsFinite
  <2>2. /\ connection.server \in Choice!Chosen(w) /\ connection.ip \in Nat
        /\ connection = [server |-> connection.server, ip |-> connection.ip]
    BY PoolIsFinite
  <2>3. QED
    BY <2>1, <2>2 DEF Connected
<1>2. c \in ChoiceStates /\ c.picked \in Seq(Connected)
  BY DEF ChoiceInv, ChoiceStates
<1>3. /\ picked \in Seq(Connected) /\ picked # <<>>
      /\ \A k \in 1 .. Len(picked) : picked[k] = connection \/ (k \in 1 .. Len(c.picked) /\ picked[k] = c.picked[k])
  BY <1>1, <1>2
<1>4. d = [c EXCEPT !.picked = picked]
  BY <1>2 DEF ChoiceStates
<1>5. ArePicks(picked, c.asked)
  <2>1. c.picked # <<>> => ArePicks(c.picked, c.asked)
    BY DEF ChoiceInv
  <2>2. \A k \in 1 .. Len(c.picked) : c.picked[k] \in Choice!Pool(w, ipv6) \cap w.target
    BY <1>2, <2>1 DEF ArePicks
  <2> HIDE DEF picked
  <2>3. \A k \in 1 .. Len(picked) : picked[k] \in Choice!Pool(w, ipv6) \cap w.target
    BY <1>3, <2>2
  <2>4. QED
    BY <2>3 DEF ArePicks
<1> HIDE DEF picked, d
<1>6. d \in ChoiceStates
  BY <1>2, <1>3, <1>4 DEF ChoiceStates
<1>7. d.pool = c.pool /\ d.next = c.next /\ d.picked = picked /\ d.asked = c.asked
  BY <1>2, <1>4 DEF ChoiceStates
<1>8. ~IsAlone(c.asked)
  BY DEF IsAlone
<1>9. ChoiceInv(d)
  <2>1. c.next <= Len(c.pool) \/ (c.next = 1 /\ c.pool = <<>>)
    BY DEF ChoiceInv
  <2>2. c.asked \in Wanted \X BOOLEAN
    OBVIOUS
  <2>3. QED
    BY <1>5, <1>6, <1>7, <1>8, <2>1, <2>2 DEF ChoiceInv
<1>10. QED
  BY <1>9 DEF d

LEMMA ChoiceStep ==
  ASSUME Choice!ChoiceConstants, ChoiceInv(choice), [Choice!Next]_choice PROVE ChoiceInv(choice')
<1>1. CASE UNCHANGED choice
  BY <1>1
<1>2. ASSUME NEW w \in Wanted, NEW ipv6 \in BOOLEAN, Choice!GetConnection(w, ipv6) PROVE ChoiceInv(choice')
  <2> DEFINE asked == [choice EXCEPT !.calls = @ + 1, !.asked = <<w, ipv6>>,
                                     !.picked = IF choice.asked = <<w, ipv6>> THEN @ ELSE <<>>]
             pool == Choice!Pool(w, ipv6)
  <2>1. PICK order \in Choice!Orders(Choice!Chosen(w)) :
          choice' = Choice!PickConnection(asked, w, Choice!Connections(pool, order))
    BY <1>2 DEF Choice!GetConnection
  <2>2. ChoiceInv(asked) /\ asked.asked = <<w, ipv6>>
    <3>1. choice.calls < Picks
      BY <1>2 DEF Choice!GetConnection
    <3> DEFINE a == asked
    <3>2. a = [choice EXCEPT !.calls = @ + 1, !.asked = <<w, ipv6>>,
                             !.picked = IF choice.asked = <<w, ipv6>> THEN @ ELSE <<>>]
      OBVIOUS
    <3> HIDE DEF a
    <3>3. ChoiceInv(a) /\ a.asked = <<w, ipv6>>
      BY <3>1, <3>2, ChoiceAsked
    <3>4. QED
      BY <3>3 DEF a
  <2> DEFINE connections == Choice!Connections(pool, order)
             fits == {i \in DOMAIN connections : connections[i] \in w.target}
             first == CHOOSE i \in fits : \A j \in fits : i <= j
  <2>3. connections \in Seq(pool)
    BY PoolIsSorted
  <2>4. choice' = IF connections = <<>> THEN asked
                  ELSE IF ~Targeted(w) THEN Choice!Cycle(asked, connections)
                  ELSE IF fits = {} THEN asked ELSE [asked EXCEPT !.picked = Append(@, connections[first])]
    BY <2>1 DEF Choice!PickConnection, Targeted
  <2> HIDE DEF asked
  <2>5. CASE connections # <<>> /\ ~Targeted(w)
    <3>1. connections = Choice!Connections(Choice!Pool(w, ipv6), order)
      OBVIOUS
    <3> HIDE DEF connections
    <3>2. ChoiceInv(Choice!Cycle(asked, connections))
      BY <2>2, <2>5, <3>1, ChoiceCycle
    <3>3. QED
      BY <2>4, <2>5, <3>2
  <2>6. CASE Targeted(w) /\ fits # {}
    <3>1. fits \in SUBSET Nat
      BY <2>3
    <3> HIDE DEF fits
    <3>2. first \in fits
      BY <2>6, <3>1, Least
    <3> HIDE DEF first
    <3> DEFINE connection == connections[first]
    <3>3. connection \in Choice!Pool(w, ipv6) \cap w.target
      BY <2>3, <3>2 DEF fits
    <3> HIDE DEF connection
    <3>4. ChoiceInv([asked EXCEPT !.picked = Append(@, connection)])
      BY <2>2, <2>6, <3>3, ChoiceTarget
    <3>5. connections # <<>>
      BY <3>2 DEF fits
    <3>6. QED
      BY <2>4, <2>6, <3>4, <3>5 DEF connection
  <2>7. QED
    BY <2>2, <2>4, <2>5, <2>6
<1>3. QED
  BY <1>1, <1>2 DEF Choice!Next

(* The pool has as many connections as the selection leaves.                 *)
LEMMA ChoiceInvIsEnough ==
  ASSUME Choice!ChoiceConstants, ChoiceInv(choice) PROVE Choice!TypeOK /\ Choice!PicksAreWanted
<1>0. choice \in ChoiceStates
  BY DEF ChoiceInv
<1>1. Choice!TypeOK
  <2>1. choice.next \in 1 .. Len(choice.pool) + 1
    BY <1>0 DEF ChoiceInv, ChoiceStates
  <2>2. \A i \in DOMAIN choice.picked : choice.picked[i].server \in Catalogue
    <3>1. choice.picked \in Seq(Connected) /\ \A c \in Connected : c.server \in Catalogue
      BY <1>0 DEF ChoiceStates, Connected
    <3>2. QED
      BY <3>1
  <2>3. choice.calls \in 0 .. Picks
    BY <1>0 DEF ChoiceStates
  <2>4. QED
    BY <2>1, <2>2, <2>3 DEF Choice!TypeOK
<1>2. ASSUME choice.picked # <<>>
      PROVE  /\ \A i \in DOMAIN choice.picked : choice.picked[i] \in Choice!Asked
             /\ Targeted(choice.asked[1]) => \A i \in DOMAIN choice.picked : choice.picked[i] \in choice.asked[1].target
             /\ IsAlone(choice.asked) => Choice!Different(choice.picked)
  <2>1. choice.asked \in Wanted \X BOOLEAN /\ ArePicks(choice.picked, choice.asked)
    BY <1>2 DEF ChoiceInv
  <2>2. DOMAIN choice.picked = 1 .. Len(choice.picked)
    BY <1>0 DEF ChoiceStates
  <2>3. ASSUME IsAlone(choice.asked) PROVE Choice!Different(choice.picked)
    <3> DEFINE w == choice.asked[1]
               ipv6 == choice.asked[2]
    <3>1. w \in Wanted /\ ipv6 \in BOOLEAN
      BY <2>1
    <3>2. PICK order \in Choice!Orders(Choice!Chosen(w)) : choice.pool = Choice!Connections(Choice!Pool(w, ipv6), order)
      BY <1>2, <2>3 DEF ChoiceInv
    <3> HIDE DEF w, ipv6
    <3>3. Len(choice.pool) = Cardinality(Choice!Pool(w, ipv6))
      BY <3>1, <3>2, PoolIsSorted
    <3>4. Differ(choice.picked, Cardinality(Choice!Pool(w, ipv6)))
      BY <1>2, <2>3, <3>3 DEF ChoiceInv
    <3>5. QED
      BY <2>2, <3>4 DEF Choice!Different, Differ, Choice!Asked, w, ipv6, Choice!Cardinality, Cardinality
  <2>4. QED
    BY <2>1, <2>2, <2>3 DEF ArePicks, Choice!Asked
<1>3. Choice!PicksAreWanted
  BY <1>2 DEF Choice!PicksAreWanted, Targeted, IsAlone, Choice!Cardinality, Cardinality
<1>4. QED
  BY <1>1, <1>3

LEMMA ChoiceInvariance == ASSUME Choice!ChoiceConstants PROVE Choice!Spec => []ChoiceInv(choice)
<1>1. Choice!Init => ChoiceInv(choice)
  BY ChoiceStart
<1>2. ChoiceInv(choice) /\ [Choice!Next]_choice => ChoiceInv(choice)'
  BY ChoiceStep
<1>3. QED
  BY <1>1, <1>2, PTL DEF Choice!Spec

-----------------------------------------------------------------------------
(* Fetchers.                                                                 *)

LEMMA Greatest ==
  ASSUME NEW T \in SUBSET Nat, T # {}, NEW b \in Nat, \A x \in T : x <= b PROVE \E x \in T : \A y \in T : y <= x
<1> DEFINE U == {u \in Nat : b - u \in T}
<1>1. PICK t \in T : TRUE
  OBVIOUS
<1>2. b - t \in U
  <2>1. t \in Nat /\ t <= b
    OBVIOUS
  <2>2. b - t \in Nat /\ b - (b - t) = t
    BY <2>1
  <2>3. QED
    BY <2>2
<1>3. PICK u \in U : \A y \in U : u <= y
  BY <1>2, Least
<1>4. ASSUME NEW y \in T PROVE y <= b - u
  <2>1. y \in Nat /\ y <= b
    OBVIOUS
  <2>2. b - y \in Nat /\ b - (b - y) = y
    BY <2>1
  <2>3. b - y \in U
    BY <2>2
  <2>4. u <= b - y /\ u \in Nat
    BY <1>3, <2>3
  <2>5. QED
    BY <2>1, <2>4
<1>5. QED
  BY <1>3, <1>4

LEMMA NamesAreLike == /\ \A a : Fetching!LikeName(a, a)
                      /\ \A a, b : Fetching!LikeName(a, b) => Fetching!LikeName(b, a)
<1>1. \A a, b : {a, b} = {b, a}
  OBVIOUS
<1>2. QED
  BY <1>1 DEF Fetching!LikeName

(* The groups of getMostPopularString: up to each value there is one way to  *)
(* make them.                                                                *)
AreFirsts(values, D, F) ==
    F \subseteq D /\ \A n \in D : n \in F <=> \A m \in F : m < n => ~Fetching!LikeName(values[n], values[m])

LEMMA FirstsExist ==
  ASSUME NEW values, NEW b \in Nat, DOMAIN values \subseteq 1 .. b
  PROVE  AreFirsts(values, DOMAIN values, Fetching!Firsts(values))
<1> DEFINE upTo(k) == {n \in DOMAIN values : n <= k}
           Missing == {k \in Nat : ~\E F \in SUBSET DOMAIN values : AreFirsts(values, upTo(k), F)}
<1>1. \A n \in DOMAIN values : n \in Nat /\ n >= 1 /\ n <= b
  OBVIOUS
<1>2. ASSUME Missing # {} PROVE FALSE
  <2>1. PICK k \in Missing : \A j \in Missing : k <= j
    <3>1. Missing \in SUBSET Nat
      OBVIOUS
    <3> HIDE DEF Missing
    <3>2. QED
      BY <1>2, <3>1, Least
  <2>2. k \in Nat
    OBVIOUS
  <2>3. CASE k = 0
    <3>1. upTo(k) = {}
      BY <1>1, <2>3
    <3> HIDE DEF upTo
    <3>2. AreFirsts(values, upTo(k), {})
      BY <3>1 DEF AreFirsts
    <3>3. QED
      BY <3>2
  <2>4. CASE k # 0
    <3>1. k - 1 \in Nat /\ k - 1 \notin Missing
      <4>1. k - 1 \in Nat /\ ~(k <= k - 1)
        BY <2>2, <2>4
      <4> HIDE DEF Missing
      <4>2. QED
        BY <2>1, <4>1
    <3>2. PICK F \in SUBSET DOMAIN values : AreFirsts(values, upTo(k - 1), F)
      BY <3>1
    <3>3. /\ \A n \in upTo(k) : n \in upTo(k - 1) \/ n = k
          /\ \A n \in upTo(k - 1) : n \in upTo(k) /\ n < k
      BY <1>1, <2>2
    <3>4. k \in DOMAIN values => k \in upTo(k)
      BY <2>2
    <3>5. F \subseteq upTo(k - 1)
      BY <3>2 DEF AreFirsts
    <3>6. \A n, m \in upTo(k) : n \in Nat /\ m \in Nat
      BY <1>1
    <3> HIDE DEF upTo, Missing
    <3>7. CASE k \in DOMAIN values /\ \A m \in F : ~Fetching!LikeName(values[k], values[m])
      <4>1. F \cup {k} \in SUBSET DOMAIN values
        BY <3>7
      <4>2. AreFirsts(values, upTo(k), F \cup {k})
        <5>1. F \cup {k} \subseteq upTo(k)
          BY <3>3, <3>4, <3>5, <3>7
        <5>2. ASSUME NEW n \in upTo(k)
              PROVE  n \in F \cup {k} <=> \A m \in F \cup {k} : m < n => ~Fetching!LikeName(values[n], values[m])
          <6>1. CASE n = k
            BY <3>6, <3>7, <5>1, <6>1
          <6>2. CASE n # k
            <7>1. n \in upTo(k - 1) /\ ~(k < n)
              BY <2>2, <3>3, <3>6, <6>2
            <7>2. QED
              BY <3>2, <6>2, <7>1 DEF AreFirsts
          <6>3. QED
            BY <6>1, <6>2
        <5>3. QED
          BY <5>1, <5>2 DEF AreFirsts
      <4>3. QED
        BY <4>1, <4>2 DEF Missing
    <3>8. CASE ~(k \in DOMAIN values /\ \A m \in F : ~Fetching!LikeName(values[k], values[m]))
      <4>1. AreFirsts(values, upTo(k), F)
        <5>1. F \subseteq upTo(k)
          BY <3>3, <3>5
        <5>2. ASSUME NEW n \in upTo(k)
              PROVE  n \in F <=> \A m \in F : m < n => ~Fetching!LikeName(values[n], values[m])
          <6>1. CASE n = k
            <7>1. k \notin F /\ \A m \in F : m < k
              BY <3>3, <3>5
            <7>2. k \in DOMAIN values
              BY <6>1 DEF upTo
            <7>3. QED
              BY <3>8, <6>1, <7>1, <7>2
          <6>2. CASE n # k
            <7>1. n \in upTo(k - 1)
              BY <3>3, <6>2
            <7>2. QED
              BY <3>2, <7>1 DEF AreFirsts
          <6>3. QED
            BY <6>1, <6>2
        <5>3. QED
          BY <5>1, <5>2 DEF AreFirsts
      <4>2. QED
        BY <4>1 DEF Missing
    <3>9. QED
      BY <3>7, <3>8
  <2>5. QED
    BY <2>3, <2>4
<1>3. PICK F \in SUBSET DOMAIN values : AreFirsts(values, upTo(b), F)
  BY <1>2
<1>4. upTo(b) = DOMAIN values
  BY <1>1
<1>5. QED
  BY <1>3, <1>4 DEF AreFirsts, Fetching!Firsts

(* A value is in one group, and the first of a group in its own.             *)
LEMMA GroupsAreApart ==
  ASSUME NEW values, NEW b \in Nat, DOMAIN values \subseteq 1 .. b
  PROVE  LET F == Fetching!Firsts(values)
             group(f) == Fetching!Group(values, f)
         IN  /\ F \subseteq DOMAIN values
             /\ \A f \in F : /\ f \in group(f) /\ group(f) \subseteq DOMAIN values
                             /\ \A n \in group(f) : Fetching!LikeName(values[n], values[f])
             /\ \A f, g \in F : f # g => group(f) \cap group(g) = {}
             /\ \A n \in DOMAIN values : \E f \in F :
                  f <= n /\ Fetching!LikeName(values[n], values[f])
                  /\ \A m \in F : m < f => ~Fetching!LikeName(values[n], values[m])
<1> DEFINE F == Fetching!Firsts(values)
           group(f) == Fetching!Group(values, f)
<1>1. /\ F \subseteq DOMAIN values
      /\ \A n \in DOMAIN values : n \in F <=> \A m \in F : m < n => ~Fetching!LikeName(values[n], values[m])
  BY FirstsExist DEF AreFirsts
<1>2. \A n \in DOMAIN values : n \in Nat
  OBVIOUS
<1>3. \A f \in F : group(f) = {n \in DOMAIN values : /\ f <= n /\ Fetching!LikeName(values[n], values[f])
                                                    /\ \A m \in F : m < f => ~Fetching!LikeName(values[n], values[m])}
  BY DEF Fetching!Group
<1> HIDE DEF F, group
<1>4. ASSUME NEW f \in F
      PROVE  /\ f \in group(f) /\ group(f) \subseteq DOMAIN values
             /\ \A n \in group(f) : Fetching!LikeName(values[n], values[f])
  BY <1>1, <1>2, <1>3, NamesAreLike
<1>5. ASSUME NEW f \in F, NEW g \in F, f # g PROVE group(f) \cap group(g) = {}
  <2>1. f < g \/ g < f
    BY <1>1, <1>2, <1>5
  <2>2. QED
    BY <1>3, <2>1
<1>6. ASSUME NEW n \in DOMAIN values
      PROVE  \E f \in F : f <= n /\ Fetching!LikeName(values[n], values[f])
                          /\ \A m \in F : m < f => ~Fetching!LikeName(values[n], values[m])
  <2> DEFINE fits == {f \in F : f <= n /\ Fetching!LikeName(values[n], values[f])}
  <2>1. fits # {}
    <3>1. CASE n \in F
      <4>1. n \in fits
        BY <1>2, <3>1, NamesAreLike
      <4>2. QED
        BY <4>1
    <3>2. CASE n \notin F
      <4>1. PICK m \in F : m < n /\ Fetching!LikeName(values[n], values[m])
        BY <1>1, <3>2
      <4>2. m \in fits
        BY <1>1, <1>2, <4>1
      <4>3. QED
        BY <4>2
    <3>3. QED
      BY <3>1, <3>2
  <2>2. fits \in SUBSET Nat
    BY <1>1, <1>2
  <2>3. PICK f \in fits : \A g \in fits : f <= g
    <3> HIDE DEF fits
    <3>1. QED
      BY <2>1, <2>2, Least
  <2>4. ASSUME NEW m \in F, m < f PROVE ~Fetching!LikeName(values[n], values[m])
    <3>1. m \in Nat /\ f \in Nat /\ n \in Nat /\ f <= n
      BY <1>1, <1>2, <2>2
    <3>2. m <= n /\ ~(f <= m)
      BY <2>4, <3>1
    <3>3. QED
      BY <2>3, <3>2
  <2>5. QED
    BY <2>4
<1>7. QED
  BY <1>1, <1>4, <1>5, <1>6 DEF F, group

(* There is a group that no other exceeds, and it is the one that wins.      *)
LEMMA MostPopularExists ==
  ASSUME NEW values, NEW b \in Nat, DOMAIN values \subseteq 1 .. b, DOMAIN values # {}
  PROVE  LET F == Fetching!Firsts(values)
             size(f) == Cardinality(Fetching!Group(values, f))
             popular == Fetching!MostPopular(values)
         IN  popular \in F /\ \A f \in F : size(f) \in Nat /\ size(f) <= size(popular)
<1> DEFINE F == Fetching!Firsts(values)
           group(f) == Fetching!Group(values, f)
           size == [f \in F |-> Cardinality(group(f))]
           best == {f \in F : \A g \in F : size[g] <= size[f]}
<1>1. /\ F \subseteq DOMAIN values /\ F # {}
      /\ \A f \in F : group(f) \subseteq DOMAIN values
  BY GroupsAreApart
<1>2. IsFiniteSet(DOMAIN values) /\ Cardinality(DOMAIN values) \in Nat
  <2>1. IsFiniteSet(1 .. b)
    BY FS_Interval
  <2>2. QED
    BY <2>1, FS_Subset, FS_CardinalityType
<1> DEFINE all == Cardinality(DOMAIN values)
<1>3. \A T \in SUBSET DOMAIN values : Cardinality(T) \in Nat /\ Cardinality(T) <= all
  BY <1>2, FS_Subset, FS_CardinalityType
<1> HIDE DEF F, group, all
<1>4. \A f \in F : size[f] \in Nat /\ size[f] <= all /\ size[f] = Cardinality(group(f))
  BY <1>1, <1>3
<1> HIDE DEF size
<1>5. best # {}
  <2> DEFINE sizes == {size[f] : f \in F}
  <2>1. sizes \in SUBSET Nat /\ sizes # {} /\ \A n \in sizes : n <= all
    BY <1>1, <1>4
  <2>2. all \in Nat
    BY <1>2 DEF all
  <2>3. PICK n \in sizes : \A k \in sizes : k <= n
    <3> HIDE DEF sizes
    <3>1. QED
      BY <2>1, <2>2, Greatest
  <2>4. QED
    BY <2>3
<1>6. best \in SUBSET Nat
  BY <1>1
<1>7. Fetching!MostPopular(values) = CHOOSE f \in best : \A g \in best : f <= g
  BY DEF Fetching!MostPopular, F, size, group, Fetching!Cardinality, Cardinality
<1> HIDE DEF best
<1>8. Fetching!MostPopular(values) \in best
  BY <1>5, <1>6, <1>7, Least
<1>9. QED
  BY <1>4, <1>8 DEF best, F, group

(* Values that are the same are in the same group, so that those of more than*)
(* half win.                                                                 *)
LEMMA MajorityIsPopular ==
  ASSUME NEW values, NEW b \in Nat, DOMAIN values \subseteq 1 .. b, NEW value, NEW P \in SUBSET DOMAIN values,
         \A n \in P : values[n] = value, 2 * Cardinality(P) > Cardinality(DOMAIN values)
  PROVE  LET popular == Fetching!MostPopular(values) IN
         popular \in P \cup DOMAIN values /\ P \subseteq Fetching!Group(values, popular)
<1> DEFINE F == Fetching!Firsts(values)
           group(f) == Fetching!Group(values, f)
           D == DOMAIN values
<1>1. /\ F \subseteq D
      /\ \A f \in F : /\ f \in group(f) /\ group(f) \subseteq D
                      /\ \A n \in group(f) : Fetching!LikeName(values[n], values[f])
      /\ \A f, g \in F : f # g => group(f) \cap group(g) = {}
      /\ \A n \in D : \E f \in F : f <= n /\ Fetching!LikeName(values[n], values[f])
                                   /\ \A m \in F : m < f => ~Fetching!LikeName(values[n], values[m])
  BY GroupsAreApart
<1>2. IsFiniteSet(D)
  <2>1. IsFiniteSet(1 .. b)
    BY FS_Interval
  <2>2. QED
    BY <2>1, FS_Subset
<1>3. \A T \in SUBSET D : IsFiniteSet(T) /\ Cardinality(T) \in Nat
  BY <1>2, FS_Subset, FS_CardinalityType
<1>4. Cardinality(P) \in Nat /\ Cardinality(D) \in Nat /\ 2 * Cardinality(P) > Cardinality(D)
  BY <1>3
<1>5. P # {}
  <2>1. Cardinality({}) = 0
    BY FS_EmptySet
  <2> HIDE DEF D
  <2>2. Cardinality(P) # 0
    BY <1>4
  <2>3. QED
    BY <2>1, <2>2
<1>6. P \in SUBSET Nat /\ \A n \in D : n \in Nat
  OBVIOUS
<1>7. PICK n0 \in P : \A n \in P : n0 <= n
  BY <1>5, <1>6, Least
<1>8. PICK f \in F : f <= n0 /\ Fetching!LikeName(values[n0], values[f])
                     /\ \A m \in F : m < f => ~Fetching!LikeName(values[n0], values[m])
  BY <1>1
<1>9. P \subseteq group(f)
  <2>1. SUFFICES ASSUME NEW n \in P PROVE n \in group(f)
    OBVIOUS
  <2>2. f \in Nat /\ n0 \in Nat /\ n \in Nat /\ n0 <= n
    BY <1>1, <1>6, <1>7
  <2>3. f <= n
    BY <1>8, <2>2
  <2>4. values[n] = values[n0]
    OBVIOUS
  <2>5. QED
    BY <1>8, <2>3, <2>4 DEF Fetching!Group
<1>10. /\ Fetching!MostPopular(values) \in F
       /\ \A g \in F : Cardinality(group(g)) \in Nat /\ Cardinality(group(g)) <= Cardinality(group(Fetching!MostPopular(values)))
  <2>1. D # {}
    BY <1>5
  <2>2. QED
    BY <2>1, MostPopularExists
<1> HIDE DEF F, group, D
<1>11. ASSUME NEW g \in F, g # f PROVE Cardinality(group(g)) < Cardinality(group(f))
  <2>1. group(g) \cap P = {} /\ group(g) \in SUBSET D /\ group(f) \in SUBSET D /\ P \in SUBSET D
    BY <1>1, <1>9, <1>11 DEF D
  <2>2. group(g) \cup P \in SUBSET D
    BY <2>1
  <2>3. Cardinality(group(g) \cup P) = Cardinality(group(g)) + Cardinality(P) - Cardinality(group(g) \cap P)
    BY <1>3, <2>1, FS_Union
  <2>4. Cardinality(group(g) \cup P) = Cardinality(group(g)) + Cardinality(P)
    BY <1>3, <2>1, <2>3, FS_EmptySet
  <2>5. Cardinality(group(g) \cup P) <= Cardinality(D)
    BY <1>2, <2>2, FS_Subset
  <2>6. Cardinality(P) <= Cardinality(group(f))
    BY <1>3, <1>9, <2>1, FS_Subset
  <2>7. Cardinality(group(g)) \in Nat /\ Cardinality(group(f)) \in Nat
    BY <1>3, <2>1
  <2>8. QED
    BY <1>4, <2>4, <2>5, <2>6, <2>7
<1>12. Fetching!MostPopular(values) = f
  <2> DEFINE g == Fetching!MostPopular(values)
  <2> HIDE DEF g
  <2>1. g \in F /\ Cardinality(group(f)) <= Cardinality(group(g)) /\ Cardinality(group(g)) \in Nat /\ Cardinality(group(f)) \in Nat
    BY <1>8, <1>10 DEF g
  <2>2. g # f => Cardinality(group(g)) < Cardinality(group(f))
    BY <1>11, <2>1
  <2>3. QED
    BY <2>1, <2>2 DEF g
<1>13. QED
  BY <1>1, <1>8, <1>9, <1>12 DEF D, group

(* What is left of the results by a name is a part of them, with those that  *)
(* most give it, and others whose name is like it.                           *)
LEMMA FilteredIsPart ==
  ASSUME NEW results, NEW b \in Nat, DOMAIN results \subseteq 1 .. b, DOMAIN results # {}, NEW field
  PROVE  LET left == Fetching!Filtered(results, field) IN
         /\ DOMAIN left \subseteq DOMAIN results /\ DOMAIN left # {}
         /\ \A i \in DOMAIN left : left[i] = results[i]
         /\ \E j \in DOMAIN results : \A i \in DOMAIN left : Fetching!LikeName(results[i][field], results[j][field])
         /\ \A place : 2 * Cardinality({i \in DOMAIN results : results[i] = place}) > Cardinality(DOMAIN results)
                         => {i \in DOMAIN results : results[i] = place} \subseteq DOMAIN left
<1> DEFINE names == Fetching!Names(results, field)
           popular == Fetching!MostPopular(names)
           group == Fetching!Group(names, popular)
           left == Fetching!Filtered(results, field)
<1>1. DOMAIN names = DOMAIN results /\ \A i \in DOMAIN results : names[i] = results[i][field]
  BY DEF Fetching!Names
<1>2. left = [i \in group |-> results[i]]
  BY DEF Fetching!Filtered
<1> HIDE DEF names, left
<1>3. DOMAIN names \subseteq 1 .. b /\ DOMAIN names # {}
  BY <1>1
<1>4. popular \in Fetching!Firsts(names)
  BY <1>3, MostPopularExists
<1>5. /\ popular \in DOMAIN results /\ popular \in group /\ group \subseteq DOMAIN results
      /\ \A i \in group : Fetching!LikeName(names[i], names[popular])
  BY <1>1, <1>3, <1>4, GroupsAreApart
<1>6. ASSUME NEW place, 2 * Cardinality({i \in DOMAIN results : results[i] = place}) > Cardinality(DOMAIN results)
      PROVE  {i \in DOMAIN results : results[i] = place} \subseteq group
  <2> DEFINE P == {i \in DOMAIN results : results[i] = place}
             value == place[field]
  <2>1. P \in SUBSET DOMAIN names /\ \A i \in P : names[i] = value
    BY <1>1
  <2>2. 2 * Cardinality(P) > Cardinality(DOMAIN names)
    BY <1>1, <1>6
  <2> HIDE DEF P, value
  <2>3. P \subseteq group
    BY <1>3, <2>1, <2>2, MajorityIsPopular
  <2>4. QED
    BY <2>3 DEF P
<1> HIDE DEF group, popular
<1>7. DOMAIN left = group /\ \A i \in group : left[i] = results[i]
  BY <1>2
<1>8. QED
  BY <1>1, <1>5, <1>6, <1>7 DEF left

(* Those of more than half are more than half of what is left.               *)
LEMMA MajorityStays ==
  ASSUME NEW D, NEW E, NEW P, IsFiniteSet(D), E \subseteq D, P \subseteq E, 2 * Cardinality(P) > Cardinality(D)
  PROVE  2 * Cardinality(P) > Cardinality(E)
<1>1. Cardinality(D) \in Nat /\ Cardinality(E) \in Nat /\ Cardinality(E) <= Cardinality(D) /\ Cardinality(P) \in Nat
  <2>1. E \in SUBSET D /\ P \in SUBSET D
    OBVIOUS
  <2>2. QED
    BY <2>1, FS_Subset, FS_CardinalityType
<1>2. QED
  BY <1>1

(* getMostPopularResult                                                      *)
Gives(results, place) == {i \in DOMAIN results : results[i] = place}

LEMMA MostPopularResultIs ==
  ASSUME NEW results, NEW b \in Nat, DOMAIN results \subseteq 1 .. b, DOMAIN results # {}
  PROVE  LET result == Fetching!MostPopularResult(results) IN
         /\ \E i \in DOMAIN results : result = results[i]
         /\ \A place : 2 * Cardinality(Gives(results, place)) > Cardinality(DOMAIN results) =>
              /\ \A field \in {"country", "region"} : \E j \in DOMAIN results :
                   /\ Fetching!LikeName(result[field], results[j][field])
                   /\ Fetching!LikeName(place[field], results[j][field])
              /\ Fetching!LikeName(result.city, place.city)
<1> DEFINE national == Fetching!Filtered(results, "country")
           local == Fetching!Filtered(national, "region")
           names == Fetching!Names(local, "city")
           popular == Fetching!MostPopular(names)
<1>1. /\ DOMAIN national \subseteq DOMAIN results /\ DOMAIN national # {}
      /\ \A i \in DOMAIN national : national[i] = results[i]
      /\ \E j \in DOMAIN results : \A i \in DOMAIN national : Fetching!LikeName(results[i].country, results[j].country)
      /\ \A place : 2 * Cardinality(Gives(results, place)) > Cardinality(DOMAIN results)
                      => Gives(results, place) \subseteq DOMAIN national
  BY FilteredIsPart DEF Gives
<1> HIDE DEF national
<1>2. DOMAIN national \subseteq 1 .. b
  BY <1>1
<1>3. /\ DOMAIN local \subseteq DOMAIN national /\ DOMAIN local # {}
      /\ \A i \in DOMAIN local : local[i] = national[i]
      /\ \E j \in DOMAIN national : \A i \in DOMAIN local : Fetching!LikeName(national[i].region, national[j].region)
      /\ \A place : 2 * Cardinality(Gives(national, place)) > Cardinality(DOMAIN national)
                      => Gives(national, place) \subseteq DOMAIN local
  BY <1>1, <1>2, FilteredIsPart DEF Gives
<1> HIDE DEF local
<1>4. DOMAIN names = DOMAIN local /\ \A i \in DOMAIN local : names[i] = results[i].city /\ local[i] = results[i]
  BY <1>1, <1>3 DEF Fetching!Names
<1> HIDE DEF names
<1>5. DOMAIN names \subseteq 1 .. b /\ DOMAIN names # {}
  BY <1>1, <1>2, <1>3, <1>4
<1>6. popular \in Fetching!Firsts(names)
  BY <1>5, MostPopularExists
<1>7. /\ popular \in DOMAIN names
      /\ \A n \in Fetching!Group(names, popular) : Fetching!LikeName(names[n], names[popular])
  BY <1>5, <1>6, GroupsAreApart
<1>8. Fetching!MostPopularResult(results) = local[popular]
  BY DEF Fetching!MostPopularResult, national, local, names
<1> HIDE DEF popular
<1>9. local[popular] = results[popular] /\ popular \in DOMAIN results /\ popular \in DOMAIN local /\ popular \in DOMAIN national
  BY <1>1, <1>3, <1>4, <1>7
<1>10. ASSUME NEW place, 2 * Cardinality(Gives(results, place)) > Cardinality(DOMAIN results)
       PROVE  /\ \A field \in {"country", "region"} : \E j \in DOMAIN results :
                   /\ Fetching!LikeName(results[popular][field], results[j][field])
                   /\ Fetching!LikeName(place[field], results[j][field])
              /\ Fetching!LikeName(results[popular].city, place.city)
  <2> DEFINE P == Gives(results, place)
  <2>1. IsFiniteSet(DOMAIN results)
    <3>1. IsFiniteSet(1 .. b)
      BY FS_Interval
    <3>2. QED
      BY <3>1, FS_Subset
  <2>2. P # {}
    <3>1. Cardinality({}) = 0
      BY FS_EmptySet
    <3>2. Cardinality(DOMAIN results) \in Nat
      BY <2>1, FS_CardinalityType
    <3>3. QED
      BY <1>10, <3>1, <3>2
  <2>3. P \subseteq DOMAIN national /\ 2 * Cardinality(P) > Cardinality(DOMAIN results)
    BY <1>1, <1>10
  <2>4. Gives(national, place) = P
    BY <1>1, <2>3 DEF Gives
  <2>5. 2 * Cardinality(P) > Cardinality(DOMAIN national)
    BY <1>1, <2>1, <2>3, MajorityStays
  <2>6. P \subseteq DOMAIN local
    BY <1>3, <2>4, <2>5
  <2>7. IsFiniteSet(DOMAIN national)
    <3>1. DOMAIN national \in SUBSET DOMAIN results
      BY <1>1
    <3>2. QED
      BY <2>1, <3>1, FS_Subset
  <2>8. 2 * Cardinality(P) > Cardinality(DOMAIN names)
    BY <1>3, <1>4, <2>5, <2>6, <2>7, MajorityStays
  <2>9. PICK i \in P : TRUE
    BY <2>2
  <2>10. results[i] = place /\ i \in DOMAIN national /\ i \in DOMAIN local
    BY <2>3, <2>6 DEF Gives
  <2>11. \E j \in DOMAIN results : /\ Fetching!LikeName(results[popular].country, results[j].country)
                                  /\ Fetching!LikeName(place.country, results[j].country)
    BY <1>1, <1>9, <2>10
  <2>12. \E j \in DOMAIN results : /\ Fetching!LikeName(results[popular].region, results[j].region)
                                  /\ Fetching!LikeName(place.region, results[j].region)
    BY <1>1, <1>3, <1>9, <2>10
  <2>13. Fetching!LikeName(results[popular].city, place.city)
    <3> DEFINE city == place.city
    <3>1. P \in SUBSET DOMAIN names /\ \A n \in P : names[n] = city
      BY <1>4, <2>6 DEF Gives
    <3> HIDE DEF city, P
    <3>2. P \subseteq Fetching!Group(names, popular)
      BY <1>5, <2>8, <3>1, MajorityIsPopular DEF popular
    <3>3. Fetching!LikeName(names[i], names[popular])
      BY <1>7, <3>2
    <3>4. names[i] = place.city /\ names[popular] = results[popular].city
      BY <1>4, <1>9, <2>10
    <3>5. QED
      BY <3>3, <3>4, NamesAreLike
  <2>14. QED
    BY <2>11, <2>12, <2>13
<1>11. QED
  BY <1>8, <1>9, <1>10

(* The bans: each refusal is remembered as long as it counts.                *)
Services == [api : {"cloudflare", "echoip", "ipinfo", "ip2location"}, token : STRING]
Calls == [at : {"new", "asking", "done"}, started : Nat, eligible : SUBSET Nat]
Tellings == UNION {[D -> Places] : D \in SUBSET Nat}
FetchStates ==
    [fetchers : FetcherLists, bannedAt : Seq(Int), now : Nat, updates : Nat, call : [Callers -> Calls],
     places : Tellings, result : Places \cup {Fetching!NoPlace}, refused : SUBSET (Services \X Nat)]

BansAreTimed(f) ==
    /\ f.now <= FetchTime /\ Len(f.bannedAt) = Len(f.fetchers)
    /\ \A i \in 1 .. Len(f.fetchers) : f.bannedAt[i] = 0 - 1 \/ (f.bannedAt[i] >= 0 /\ f.bannedAt[i] <= f.now)

IsRemembered(f, r) ==
    /\ r[2] <= f.now /\ \E i \in 1 .. Len(f.fetchers) : f.fetchers[i] = r[1]
    /\ \A i \in 1 .. Len(f.fetchers) : f.fetchers[i] = r[1] => f.bannedAt[i] >= r[2] \/ f.now > r[2] + BanDuration

CallsAreBounded(f) ==
    \A c \in Callers : f.call[c].started <= Len(f.fetchers) /\ (f.call[c].at # "asking" => f.call[c].started = 0)

ResultIsOfPlaces(f) ==
    /\ \E b \in Nat : DOMAIN f.places \subseteq 1 .. b
    /\ f.result = IF DOMAIN f.places = {} THEN Fetching!NoPlace ELSE Fetching!MostPopularResult(f.places)

FetchInv(f) ==
    /\ f \in FetchStates /\ BansAreTimed(f) /\ CallsAreBounded(f) /\ ResultIsOfPlaces(f)
    /\ \A r \in f.refused : IsRemembered(f, r)

LEMMA ListsAreServices ==
  ASSUME Fetching!FetcherConstants
  PROVE  /\ \A list \in FetcherLists : /\ list \in Seq(Services)
                                       /\ \A i, j \in 1 .. Len(list) : list[i] = list[j] => i = j
         /\ BanDuration \in Nat /\ FetchTime \in Nat
<1>1. BanDuration \in Nat /\ FetchTime \in Nat
  BY DEF Fetching!FetcherConstants
<1>2. ASSUME NEW list \in FetcherLists
      PROVE  list \in Seq(Services) /\ \A i, j \in 1 .. Len(list) : list[i] = list[j] => i = j
  <2>1. list \in Seq(Services) /\ \A i, j \in DOMAIN list : list[i].api = list[j].api => i = j
    BY DEF Fetching!FetcherConstants, Services
  <2>2. DOMAIN list = 1 .. Len(list)
    BY <2>1
  <2>3. QED
    BY <2>1, <2>2
<1>3. QED
  BY <1>1, <1>2

LEMMA FetchStart == ASSUME Fetching!FetcherConstants, Fetching!Init PROVE FetchInv(fetch)
<1> DEFINE never(list) == [i \in DOMAIN list |-> Fetching!Never]
           calls == [c \in Callers |-> Fetching!Call("new", 0, {})]
<1>1. PICK list \in FetcherLists :
        fetch = [fetchers |-> list, bannedAt |-> never(list), now |-> 0, updates |-> 0, call |-> calls,
                 places |-> <<>>, result |-> Fetching!NoPlace, refused |-> {}]
  BY DEF Fetching!Init
<1>2. list \in Seq(Services) /\ FetchTime \in Nat
  BY ListsAreServices
<1>3. /\ never(list) \in Seq(Int) /\ Len(never(list)) = Len(list)
      /\ \A i \in 1 .. Len(list) : never(list)[i] = 0 - 1
  <2>1. DOMAIN list = 1 .. Len(list) /\ Len(list) \in Nat
    BY <1>2
  <2>2. QED
    BY <2>1 DEF Fetching!Never
<1>4. calls \in [Callers -> Calls] /\ \A c \in Callers : calls[c].started = 0
  BY DEF Fetching!Call, Calls
<1>5. <<>> \in Tellings /\ DOMAIN <<>> = {}
  <2>1. <<>> \in [{} -> Places]
    OBVIOUS
  <2>2. QED
    BY <2>1 DEF Tellings
<1> DEFINE none == <<>>
<1> HIDE DEF never, calls
<1>6. fetch \in FetchStates
  BY <1>1, <1>3, <1>4, <1>5 DEF FetchStates
<1>7. /\ fetch.fetchers = list /\ fetch.bannedAt = never(list) /\ fetch.now = 0 /\ fetch.call = calls
      /\ fetch.places = <<>> /\ fetch.result = Fetching!NoPlace /\ fetch.refused = {}
  BY <1>1
<1>8. BansAreTimed(fetch) /\ CallsAreBounded(fetch)
  <2>1. Len(list) \in Nat
    BY <1>2
  <2>2. QED
    BY <1>2, <1>3, <1>4, <1>7, <2>1 DEF BansAreTimed, CallsAreBounded
<1>9. ResultIsOfPlaces(fetch)
  BY <1>5, <1>7 DEF ResultIsOfPlaces
<1>10. QED
  BY <1>6, <1>7, <1>8, <1>9 DEF FetchInv

LEMMA FetchTick == ASSUME Fetching!FetcherConstants, FetchInv(fetch), Fetching!Tick PROVE FetchInv(fetch')
<1>1. fetch \in FetchStates /\ fetch' = [fetch EXCEPT !.now = @ + 1] /\ fetch.now < FetchTime
  BY DEF FetchInv, Fetching!Tick
<1>2. fetch.now \in Nat /\ fetch.now + 1 \in Nat /\ BanDuration \in Nat /\ FetchTime \in Nat
  BY <1>1, ListsAreServices DEF FetchStates
<1>3. fetch' \in FetchStates
  BY <1>1, <1>2 DEF FetchStates
<1>4. /\ fetch'.now = fetch.now + 1
      /\ \A n \in {"fetchers", "bannedAt", "call", "places", "result", "refused"} : fetch'[n] = fetch[n]
  BY <1>1 DEF FetchStates
<1>5. fetch.bannedAt \in Seq(Int) /\ fetch.fetchers \in Seq(Services) /\ fetch.refused \subseteq Services \X Nat
  BY <1>1, ListsAreServices DEF FetchStates
<1>6. BansAreTimed(fetch')
  <2>1. \A i \in 1 .. Len(fetch.fetchers) : fetch.bannedAt[i] \in Int
    BY <1>5 DEF FetchInv, BansAreTimed
  <2>2. QED
    BY <1>1, <1>2, <1>4, <2>1 DEF FetchInv, BansAreTimed
<1>7. CallsAreBounded(fetch') /\ ResultIsOfPlaces(fetch')
  BY <1>4 DEF FetchInv, CallsAreBounded, ResultIsOfPlaces
<1>8. ASSUME NEW r \in fetch.refused PROVE IsRemembered(fetch', r)
  <2>1. r[2] \in Nat
    BY <1>5
  <2>2. IsRemembered(fetch, r)
    BY DEF FetchInv
  <2>3. r[2] <= fetch.now /\ \E i \in 1 .. Len(fetch.fetchers) : fetch.fetchers[i] = r[1]
    BY <2>2 DEF IsRemembered
  <2>4. r[2] <= fetch.now + 1
    BY <1>2, <2>1, <2>3
  <2>5. ASSUME NEW i \in 1 .. Len(fetch.fetchers), fetch.fetchers[i] = r[1]
        PROVE  fetch.bannedAt[i] >= r[2] \/ fetch.now + 1 > r[2] + BanDuration
    <3>1. fetch.bannedAt[i] >= r[2] \/ fetch.now > r[2] + BanDuration
      BY <2>2, <2>5 DEF IsRemembered
    <3>2. CASE fetch.now > r[2] + BanDuration
      BY <1>2, <2>1, <3>2
    <3>3. QED
      BY <3>1, <3>2
  <2>6. QED
    BY <1>4, <2>3, <2>4, <2>5 DEF IsRemembered
<1>9. QED
  BY <1>3, <1>4, <1>6, <1>7, <1>8 DEF FetchInv

LEMMA FetchAsk ==
  ASSUME Fetching!FetcherConstants, FetchInv(fetch), NEW c \in Callers, Fetching!FetchInfo(c) PROVE FetchInv(fetch')
<1>1. fetch \in FetchStates
  BY DEF FetchInv
<1>2. PICK other \in BOOLEAN :
        fetch' = [fetch EXCEPT !.call[c] = Fetching!Call("asking", Fetching!Started(Fetching!Eligible(other)),
                                                         Fetching!Eligible(other))]
  BY DEF Fetching!FetchInfo
<1> DEFINE eligible == Fetching!Eligible(other)
           started == Fetching!Started(eligible)
           call == Fetching!Call("asking", started, eligible)
<1>3. fetch.fetchers \in Seq(Services) /\ Len(fetch.fetchers) \in Nat
  BY <1>1, ListsAreServices DEF FetchStates
<1>4. eligible \in SUBSET Nat
  BY <1>3 DEF Fetching!Eligible
<1>5. started \in Nat /\ started <= Len(fetch.fetchers)
  <2> DEFINE firsts == {n \in 0 .. Len(fetch.fetchers) : 1 .. n \subseteq eligible}
  <2>1. 0 \in firsts /\ firsts \in SUBSET Nat /\ \A n \in firsts : n <= Len(fetch.fetchers)
    BY <1>3
  <2>2. started = CHOOSE n \in firsts : \A k \in firsts : k <= n
    BY DEF Fetching!Started
  <2> HIDE DEF firsts, started
  <2>3. \E n \in firsts : \A k \in firsts : k <= n
    BY <1>3, <2>1, Greatest
  <2>4. started \in firsts
    BY <2>2, <2>3
  <2>5. QED
    BY <2>1, <2>4
<1> HIDE DEF eligible, started
<1>6. call \in Calls /\ call.started = started /\ call.at = "asking"
  BY <1>4, <1>5 DEF Fetching!Call, Calls
<1>7. fetch' = [fetch EXCEPT !.call = [@ EXCEPT ![c] = call]]
  BY <1>1, <1>2 DEF FetchStates, eligible, started
<1> HIDE DEF call
<1>8. fetch' \in FetchStates
  <2>1. [fetch.call EXCEPT ![c] = call] \in [Callers -> Calls]
    BY <1>1, <1>6 DEF FetchStates
  <2>2. QED
    BY <1>1, <1>7, <2>1 DEF FetchStates
<1>9. /\ fetch'.call[c] = call /\ \A d \in Callers \ {c} : fetch'.call[d] = fetch.call[d]
      /\ \A n \in {"fetchers", "bannedAt", "now", "places", "result", "refused"} : fetch'[n] = fetch[n]
  BY <1>1, <1>7 DEF FetchStates
<1>10. BansAreTimed(fetch') /\ ResultIsOfPlaces(fetch') /\ \A r \in fetch'.refused : IsRemembered(fetch', r)
  BY <1>9 DEF FetchInv, BansAreTimed, ResultIsOfPlaces, IsRemembered
<1>11. CallsAreBounded(fetch')
  BY <1>5, <1>6, <1>9 DEF FetchInv, CallsAreBounded
<1>12. QED
  BY <1>8, <1>10, <1>11 DEF FetchInv

(* A service that refuses is banned from then on.                            *)
LEMMA FetchFinish ==
  ASSUME Fetching!FetcherConstants, FetchInv(fetch), NEW c \in Callers, Fetching!Finish(c) PROVE FetchInv(fetch')
<1>1. fetch \in FetchStates
  BY DEF FetchInv
<1> DEFINE n == fetch.call[c].started
<1>2. PICK replies \in [1 .. n -> Fetching!Replies] : Fetching!Conclude(c, replies)
  BY DEF Fetching!Finish
<1> DEFINE refusing == {i \in DOMAIN replies : Fetching!Refuses(fetch.fetchers[i].api, replies[i])}
           good == Fetching!Succeeded(replies)
           banned == [i \in DOMAIN fetch.bannedAt |-> IF i \in refusing THEN fetch.now ELSE fetch.bannedAt[i]]
           refused == fetch.refused \cup {<<fetch.fetchers[i], fetch.now>> : i \in refusing}
           result == IF DOMAIN good = {} THEN Fetching!NoPlace ELSE Fetching!MostPopularResult(good)
           call == Fetching!Call("done", 0, {})
<1>3. fetch' = [fetch EXCEPT !.bannedAt = banned, !.refused = refused, !.call[c] = call, !.places = good, !.result = result]
  BY <1>1, <1>2 DEF Fetching!Conclude, FetchStates
<1>4. /\ fetch.fetchers \in FetcherLists /\ fetch.fetchers \in Seq(Services) /\ Len(fetch.fetchers) \in Nat
      /\ fetch.now \in Nat /\ fetch.bannedAt \in Seq(Int) /\ Len(fetch.bannedAt) = Len(fetch.fetchers)
      /\ BanDuration \in Nat /\ fetch.refused \subseteq Services \X Nat
      /\ \A i, j \in 1 .. Len(fetch.fetchers) : fetch.fetchers[i] = fetch.fetchers[j] => i = j
  BY <1>1, ListsAreServices DEF FetchInv, BansAreTimed, FetchStates
<1>5. n \in Nat /\ n <= Len(fetch.fetchers)
  BY <1>1 DEF FetchInv, CallsAreBounded, FetchStates, Calls
<1>6. refusing \subseteq 1 .. Len(fetch.fetchers)
  BY <1>4, <1>5
<1>7. /\ DOMAIN good \subseteq 1 .. n /\ good \in Tellings
      /\ \A i \in DOMAIN good : good[i] \in Places
  <2> DEFINE told == {i \in DOMAIN replies : replies[i].status = "ok"}
  <2>1. good = [i \in told |-> replies[i].place]
    BY DEF Fetching!Succeeded
  <2>2. ASSUME NEW i \in told PROVE replies[i].place \in Places
    <3>1. replies[i] \in Fetching!Replies /\ replies[i].status = "ok"
      OBVIOUS
    <3>2. QED
      BY <3>1 DEF Fetching!Replies, Fetching!Reply
  <2>3. told \in SUBSET Nat /\ told \subseteq 1 .. n
    BY <1>5
  <2> HIDE DEF told, good
  <2>4. good \in [told -> Places]
    BY <2>1, <2>2
  <2>5. good \in Tellings
    BY <2>3, <2>4 DEF Tellings
  <2>6. QED
    BY <2>3, <2>4, <2>5
<1> HIDE DEF good, refusing
<1>8. result \in Places \cup {Fetching!NoPlace}
  BY <1>5, <1>7, MostPopularResultIs
<1>9. /\ banned \in Seq(Int) /\ Len(banned) = Len(fetch.fetchers)
      /\ \A i \in 1 .. Len(fetch.fetchers) : banned[i] = IF i \in refusing THEN fetch.now ELSE fetch.bannedAt[i]
  <2>1. DOMAIN fetch.bannedAt = 1 .. Len(fetch.fetchers) /\ \A i \in 1 .. Len(fetch.fetchers) : fetch.bannedAt[i] \in Int
    BY <1>4
  <2> DEFINE m == Len(fetch.fetchers)
  <2>2. banned \in [1 .. m -> Int]
    BY <1>4, <2>1
  <2>3. m \in Nat
    BY <1>4
  <2> HIDE DEF m, banned
  <2>4. banned \in Seq(Int) /\ Len(banned) = m
    BY <2>2, <2>3
  <2>5. QED
    BY <2>1, <2>4 DEF banned, m
<1>10. refused \subseteq Services \X Nat
  BY <1>4, <1>6
<1>11. call \in Calls /\ call.started = 0 /\ call.at = "done"
  BY DEF Fetching!Call, Calls
<1> HIDE DEF banned, result, call
<1>12. \A r \in refused : r \in fetch.refused \/ \E i \in refusing : r = <<fetch.fetchers[i], fetch.now>>
  OBVIOUS
<1> HIDE DEF refused
<1>13. fetch' \in FetchStates
  <2>1. [fetch.call EXCEPT ![c] = call] \in [Callers -> Calls]
    BY <1>1, <1>11 DEF FetchStates
  <2>2. QED
    BY <1>1, <1>3, <1>7, <1>8, <1>9, <1>10, <2>1 DEF FetchStates
<1>14. /\ fetch'.bannedAt = banned /\ fetch'.refused = refused /\ fetch'.places = good /\ fetch'.result = result
       /\ fetch'.call[c] = call /\ \A d \in Callers \ {c} : fetch'.call[d] = fetch.call[d]
       /\ fetch'.fetchers = fetch.fetchers /\ fetch'.now = fetch.now
  BY <1>1, <1>3 DEF FetchStates
<1>15. BansAreTimed(fetch')
  <2>1. /\ fetch.now <= FetchTime
        /\ \A i \in 1 .. Len(fetch.fetchers) :
             fetch.bannedAt[i] = 0 - 1 \/ (fetch.bannedAt[i] >= 0 /\ fetch.bannedAt[i] <= fetch.now)
    BY DEF FetchInv, BansAreTimed
  <2>2. \A i \in 1 .. Len(fetch.fetchers) :
          banned[i] = 0 - 1 \/ (banned[i] >= 0 /\ banned[i] <= fetch.now)
    <3>1. fetch.now >= 0 /\ fetch.now <= fetch.now
      BY <1>4
    <3>2. QED
      BY <1>9, <2>1, <3>1
  <2>3. QED
    BY <1>9, <1>14, <2>1, <2>2 DEF BansAreTimed
<1>16. CallsAreBounded(fetch')
  BY <1>4, <1>11, <1>14 DEF FetchInv, CallsAreBounded
<1>17. ResultIsOfPlaces(fetch')
  BY <1>5, <1>7, <1>14 DEF ResultIsOfPlaces, result
<1>18. ASSUME NEW r \in refused PROVE IsRemembered(fetch', r)
  <2>1. CASE r \in fetch.refused
    <3>1. IsRemembered(fetch, r) /\ r[2] \in Nat
      BY <1>4, <2>1 DEF FetchInv
    <3>2. QED
      BY <1>4, <1>9, <1>14, <3>1 DEF IsRemembered
  <2>2. ASSUME NEW i \in refusing, r = <<fetch.fetchers[i], fetch.now>> PROVE IsRemembered(fetch', r)
    <3>1. i \in 1 .. Len(fetch.fetchers) /\ r[1] = fetch.fetchers[i] /\ r[2] = fetch.now
      BY <1>6, <2>2
    <3>2. \A j \in 1 .. Len(fetch.fetchers) : fetch.fetchers[j] = r[1] => banned[j] = fetch.now
      BY <1>4, <1>9, <3>1
    <3>3. QED
      BY <1>4, <1>14, <3>1, <3>2 DEF IsRemembered
  <2>3. QED
    BY <1>12, <2>1, <2>2
<1>19. QED
  BY <1>13, <1>14, <1>15, <1>16, <1>17, <1>18 DEF FetchInv

(* A ban goes over to the list that names the service again.                 *)
LEMMA FetchReplace ==
  ASSUME Fetching!FetcherConstants, FetchInv(fetch), Fetching!UpdateFetchers PROVE FetchInv(fetch')
<1>1. fetch \in FetchStates /\ \A c \in Callers : fetch.call[c].at # "asking"
  BY DEF FetchInv, Fetching!UpdateFetchers
<1>2. PICK list \in FetcherLists : Fetching!Replace(list)
  BY DEF Fetching!UpdateFetchers
<1> DEFINE banned == [i \in DOMAIN list |-> Fetching!Kept(list, i)]
           refused == {r \in fetch.refused : \E i \in DOMAIN list : list[i] = r[1]}
<1>3. fetch' = [fetch EXCEPT !.fetchers = list, !.updates = @ + 1, !.bannedAt = banned, !.refused = refused]
  BY <1>1, <1>2 DEF Fetching!Replace, FetchStates
<1>4. /\ fetch.fetchers \in Seq(Services) /\ list \in Seq(Services) /\ Len(list) \in Nat
      /\ DOMAIN list = 1 .. Len(list) /\ DOMAIN fetch.fetchers = 1 .. Len(fetch.fetchers)
      /\ fetch.now \in Nat /\ fetch.bannedAt \in Seq(Int) /\ Len(fetch.bannedAt) = Len(fetch.fetchers)
      /\ BanDuration \in Nat /\ fetch.refused \subseteq Services \X Nat /\ fetch.updates + 1 \in Nat
  BY <1>1, ListsAreServices DEF FetchInv, BansAreTimed, FetchStates
<1>5. \A j \in 1 .. Len(fetch.fetchers) :
        fetch.bannedAt[j] \in Int /\ (fetch.bannedAt[j] = 0 - 1 \/ (fetch.bannedAt[j] >= 0 /\ fetch.bannedAt[j] <= fetch.now))
  <2>1. \A j \in 1 .. Len(fetch.fetchers) : fetch.bannedAt[j] \in Int
    BY <1>4
  <2>2. QED
    BY <2>1 DEF FetchInv, BansAreTimed
<1>6. ASSUME NEW i \in 1 .. Len(list)
      PROVE  LET kept == Fetching!Kept(list, i) IN
             \/ /\ kept = 0 - 1
                /\ \A j \in 1 .. Len(fetch.fetchers) : fetch.fetchers[j] = list[i] => ~Fetching!IsBanned(j)
             \/ \E j \in 1 .. Len(fetch.fetchers) :
                  fetch.fetchers[j] = list[i] /\ Fetching!IsBanned(j) /\ kept = fetch.bannedAt[j]
  <2> DEFINE same == {j \in DOMAIN fetch.fetchers : fetch.fetchers[j] = list[i] /\ Fetching!IsBanned(j)}
  <2>1. Fetching!Kept(list, i) = IF same = {} THEN 0 - 1 ELSE fetch.bannedAt[CHOOSE j \in same : TRUE]
    BY DEF Fetching!Kept, Fetching!Never
  <2>2. CASE same = {}
    BY <1>4, <2>1, <2>2
  <2>3. CASE same # {}
    <3> DEFINE j == CHOOSE j \in same : TRUE
    <3>1. j \in same
      BY <2>3
    <3>2. Fetching!Kept(list, i) = fetch.bannedAt[j]
      BY <2>1, <2>3
    <3> HIDE DEF j
    <3>3. QED
      BY <1>4, <3>1, <3>2
  <2>4. QED
    BY <2>2, <2>3
<1>7. \A i \in 1 .. Len(list) : /\ Fetching!Kept(list, i) \in Int
                               /\ \/ Fetching!Kept(list, i) = 0 - 1
                                  \/ Fetching!Kept(list, i) >= 0 /\ Fetching!Kept(list, i) <= fetch.now
  BY <1>5, <1>6
<1>8. /\ banned \in Seq(Int) /\ Len(banned) = Len(list)
      /\ \A i \in 1 .. Len(list) : banned[i] = Fetching!Kept(list, i)
  <2> DEFINE m == Len(list)
  <2>1. banned \in [1 .. m -> Int]
    BY <1>4, <1>7
  <2>2. m \in Nat
    BY <1>4
  <2> HIDE DEF m, banned
  <2>3. banned \in Seq(Int) /\ Len(banned) = m
    BY <2>1, <2>2
  <2>4. QED
    BY <1>4, <2>3 DEF banned, m
<1>9. refused \in SUBSET (Services \X Nat) /\ \A r \in refused : r \in fetch.refused /\ \E i \in 1 .. Len(list) : list[i] = r[1]
  BY <1>4
<1> HIDE DEF banned, refused
<1>10. fetch' \in FetchStates
  BY <1>1, <1>3, <1>4, <1>8, <1>9 DEF FetchStates
<1>11. /\ fetch'.fetchers = list /\ fetch'.bannedAt = banned /\ fetch'.refused = refused
       /\ \A n \in {"now", "call", "places", "result"} : fetch'[n] = fetch[n]
  BY <1>1, <1>3 DEF FetchStates
<1>12. BansAreTimed(fetch')
  BY <1>7, <1>8, <1>11 DEF FetchInv, BansAreTimed
<1>13. CallsAreBounded(fetch')
  BY <1>1, <1>4, <1>11 DEF FetchInv, CallsAreBounded
<1>14. ResultIsOfPlaces(fetch')
  BY <1>11 DEF FetchInv, ResultIsOfPlaces
<1>15. ASSUME NEW r \in refused PROVE IsRemembered(fetch', r)
  <2>1. IsRemembered(fetch, r) /\ r[2] \in Nat
    BY <1>4, <1>9 DEF FetchInv
  <2>2. ASSUME NEW i \in 1 .. Len(list), list[i] = r[1] PROVE banned[i] >= r[2] \/ fetch.now > r[2] + BanDuration
    <3>1. PICK j \in 1 .. Len(fetch.fetchers) : fetch.fetchers[j] = r[1]
      BY <2>1 DEF IsRemembered
    <3>2. CASE \E k \in 1 .. Len(fetch.fetchers) : fetch.fetchers[k] = list[i] /\ banned[i] = fetch.bannedAt[k]
      BY <2>1, <2>2, <3>2 DEF IsRemembered
    <3>3. CASE ~Fetching!IsBanned(j)
      <4>1. fetch.bannedAt[j] = 0 - 1 \/ fetch.now > fetch.bannedAt[j] + BanDuration
        BY <1>4, <1>5, <3>3, SMTT(30) DEF Fetching!IsBanned, Fetching!Never
      <4>2. fetch.bannedAt[j] >= r[2] \/ fetch.now > r[2] + BanDuration
        BY <2>1, <3>1 DEF IsRemembered
      <4>3. CASE fetch.bannedAt[j] >= r[2]
        <5>1. fetch.bannedAt[j] \in Int /\ fetch.bannedAt[j] # 0 - 1
          BY <1>4, <1>5, <2>1, <4>3
        <5>2. fetch.now > fetch.bannedAt[j] + BanDuration
          BY <4>1, <5>1
        <5>3. \A a \in Int, b, n, d \in Nat : a >= b /\ n > a + d => n > b + d
          OBVIOUS
        <5>4. fetch.now > r[2] + BanDuration
          BY <1>4, <2>1, <4>3, <5>1, <5>2, <5>3
        <5>5. QED
          BY <5>4
      <4>4. QED
        BY <4>2, <4>3
    <3>4. QED
      BY <1>6, <1>8, <2>2, <3>1, <3>2, <3>3
  <2>3. QED
    BY <1>9, <1>11, <2>1, <2>2 DEF IsRemembered
<1>16. QED
  BY <1>10, <1>11, <1>12, <1>13, <1>14, <1>15 DEF FetchInv

LEMMA FetchStep ==
  ASSUME Fetching!FetcherConstants, FetchInv(fetch), [Fetching!Next]_fetch PROVE FetchInv(fetch')
<1>1. CASE UNCHANGED fetch
  BY <1>1
<1>2. CASE Fetching!Tick
  BY <1>2, FetchTick
<1>3. CASE Fetching!UpdateFetchers
  BY <1>3, FetchReplace
<1>4. ASSUME NEW c \in Callers, Fetching!FetchInfo(c) PROVE FetchInv(fetch')
  BY <1>4, FetchAsk
<1>5. ASSUME NEW c \in Callers, Fetching!Finish(c) PROVE FetchInv(fetch')
  BY <1>5, FetchFinish
<1>6. QED
  BY <1>1, <1>2, <1>3, <1>4, <1>5 DEF Fetching!Next

LEMMA FetchInvIsEnough ==
  ASSUME Fetching!FetcherConstants, FetchInv(fetch)
  PROVE  Fetching!TypeOK /\ Fetching!RefusalsAreRespected /\ Fetching!MajorityWins
<1>1. fetch \in FetchStates
  BY DEF FetchInv
<1>2. /\ fetch.fetchers \in Seq(Services) /\ DOMAIN fetch.fetchers = 1 .. Len(fetch.fetchers)
      /\ Len(fetch.fetchers) \in Nat /\ fetch.bannedAt \in Seq(Int) /\ Len(fetch.bannedAt) = Len(fetch.fetchers)
      /\ DOMAIN fetch.bannedAt = 1 .. Len(fetch.fetchers)
      /\ fetch.now \in Nat /\ BanDuration \in Nat /\ FetchTime \in Nat /\ fetch.refused \subseteq Services \X Nat
  BY <1>1, ListsAreServices DEF FetchInv, BansAreTimed, FetchStates
<1>3. /\ \E b \in Nat : DOMAIN fetch.places \subseteq 1 .. b
      /\ fetch.result = IF DOMAIN fetch.places = {} THEN Fetching!NoPlace ELSE Fetching!MostPopularResult(fetch.places)
  BY DEF FetchInv, ResultIsOfPlaces
<1>4. Fetching!TypeOK
  <2>1. \A i \in 1 .. Len(fetch.fetchers) : fetch.bannedAt[i] \in 0 .. FetchTime \cup {0 - 1}
    <3>1. \A i \in 1 .. Len(fetch.fetchers) : fetch.bannedAt[i] \in Int
      BY <1>2
    <3>2. QED
      BY <1>2, <3>1 DEF FetchInv, BansAreTimed
  <2>2. fetch.bannedAt \in [DOMAIN fetch.fetchers -> 0 .. FetchTime \cup {Fetching!Never}]
    BY <1>2, <2>1 DEF Fetching!Never
  <2>3. \A c \in Callers : /\ fetch.call[c].at \in {"new", "asking", "done"}
                           /\ fetch.call[c].started \in 0 .. Len(fetch.fetchers)
    BY <1>1, <1>2 DEF FetchInv, CallsAreBounded, FetchStates, Calls
  <2>4. \A i \in DOMAIN fetch.places : fetch.places[i] \in Places
    <3>1. fetch.places \in Tellings
      BY <1>1 DEF FetchStates
    <3>2. PICK D \in SUBSET Nat : fetch.places \in [D -> Places]
      BY <3>1 DEF Tellings
    <3>3. QED
      BY <3>2
  <2>5. fetch.fetchers \in FetcherLists /\ fetch.result \in Places \cup {Fetching!NoPlace}
    BY <1>1 DEF FetchStates
  <2>6. QED
    BY <2>2, <2>3, <2>4, <2>5 DEF Fetching!TypeOK
<1>5. Fetching!RefusalsAreRespected
  <2>1. SUFFICES ASSUME NEW r \in fetch.refused, NEW i \in DOMAIN fetch.fetchers, fetch.fetchers[i] = r[1],
                        fetch.now <= r[2] + BanDuration
                 PROVE  i \notin Fetching!Eligible(FALSE)
    BY DEF Fetching!RefusalsAreRespected
  <2>2. IsRemembered(fetch, r) /\ r[2] \in Nat
    BY <1>2 DEF FetchInv
  <2>3. fetch.bannedAt[i] >= r[2] /\ fetch.bannedAt[i] \in Int
    <3>1. i \in 1 .. Len(fetch.fetchers) /\ fetch.bannedAt[i] \in Int
      BY <1>2, <2>1
    <3>2. fetch.bannedAt[i] >= r[2] \/ fetch.now > r[2] + BanDuration
      BY <2>1, <2>2, <3>1 DEF IsRemembered
    <3>3. ~(fetch.now > r[2] + BanDuration)
      BY <1>2, <2>1, <2>2
    <3>4. QED
      BY <3>1, <3>2, <3>3
  <2>4. fetch.bannedAt[i] # 0 - 1 /\ fetch.now <= fetch.bannedAt[i] + BanDuration
    BY <1>2, <2>1, <2>2, <2>3, SMTT(30)
  <2>5. QED
    BY <2>4 DEF Fetching!Eligible, Fetching!IsBanned, Fetching!Never
<1>6. Fetching!MajorityWins
  <2>1. SUFFICES ASSUME NEW p \in Places,
                        2 * Cardinality(Gives(fetch.places, p)) > Cardinality(DOMAIN fetch.places)
                 PROVE  Fetching!Near(p, "country") /\ Fetching!Near(p, "region")
                        /\ Fetching!LikeName(fetch.result.city, p.city)
    BY DEF Fetching!MajorityWins, Gives, Fetching!Cardinality, Cardinality
  <2>2. DOMAIN fetch.places # {}
    <3>1. ASSUME DOMAIN fetch.places = {} PROVE FALSE
      <4>1. Gives(fetch.places, p) = {}
        BY <3>1 DEF Gives
      <4>2. QED
        BY <2>1, <3>1, <4>1, FS_EmptySet
    <3>2. QED
      BY <3>1
  <2>3. PICK b \in Nat : DOMAIN fetch.places \subseteq 1 .. b
    BY <1>3
  <2> DEFINE results == fetch.places
  <2> HIDE DEF results
  <2>4. /\ DOMAIN results \subseteq 1 .. b /\ DOMAIN results # {}
        /\ 2 * Cardinality(Gives(results, p)) > Cardinality(DOMAIN results)
        /\ fetch.result = Fetching!MostPopularResult(results)
    BY <1>3, <2>1, <2>2, <2>3 DEF results
  <2>5. /\ \A field \in {"country", "region"} : \E j \in DOMAIN results :
             /\ Fetching!LikeName(fetch.result[field], results[j][field])
             /\ Fetching!LikeName(p[field], results[j][field])
        /\ Fetching!LikeName(fetch.result.city, p.city)
    BY <2>4, MostPopularResultIs
  <2>6. QED
    BY <2>5 DEF Fetching!Near, results
<1>7. QED
  BY <1>4, <1>5, <1>6

LEMMA FetchInvariance == ASSUME Fetching!FetcherConstants PROVE Fetching!Spec => []FetchInv(fetch)
<1>1. Fetching!Init => FetchInv(fetch)
  BY FetchStart
<1>2. FetchInv(fetch) /\ [Fetching!Next]_fetch => FetchInv(fetch)'
  BY FetchStep
<1>3. QED
  BY <1>1, <1>2, PTL DEF Fetching!Spec

-----------------------------------------------------------------------------
(* The whole: a step of one part is a step of each of the others that        *)
(* changes nothing.                                                          *)
LEMMA PartsImplemented ==
  Spec => /\ Config!Spec /\ PIA!Spec /\ Proton!Spec /\ Update!Spec
          /\ ProtonSession!Spec /\ Storage!Spec /\ Choice!Spec /\ Fetching!Spec
<1>1. Init => /\ Config!Init /\ PIA!Init /\ Proton!Init /\ Update!Init
              /\ ProtonSession!Init /\ Storage!Init /\ Choice!Init /\ Fetching!Init
  BY DEF Init
<1>2. [Next]_vars => [Config!Next]_st
  BY DEF Next, vars, FetchNext, UpdateNext, StorageNext, ChoiceNext, PIANext, ProtonNext, SettingsNext, LoginNext
<1>3. [Next]_vars => [PIA!Next]_pia
  BY DEF Next, vars, FetchNext, UpdateNext, StorageNext, ChoiceNext, PIANext, ProtonNext, SettingsNext, LoginNext
<1>4. [Next]_vars => [Proton!Next]_pmp
  BY DEF Next, vars, FetchNext, UpdateNext, StorageNext, ChoiceNext, PIANext, ProtonNext, SettingsNext, LoginNext
<1>5. [Next]_vars => [Update!Next]_upd
  BY DEF Next, vars, FetchNext, UpdateNext, StorageNext, ChoiceNext, PIANext, ProtonNext, SettingsNext, LoginNext
<1>6. [Next]_vars => [ProtonSession!Next]_login
  BY DEF Next, vars, FetchNext, UpdateNext, StorageNext, ChoiceNext, PIANext, ProtonNext, SettingsNext, LoginNext
<1>7. [Next]_vars => [Storage!Next]_store
  BY DEF Next, vars, FetchNext, UpdateNext, StorageNext, ChoiceNext, PIANext, ProtonNext, SettingsNext, LoginNext
<1>8. [Next]_vars => [Choice!Next]_choice
  BY DEF Next, vars, FetchNext, UpdateNext, StorageNext, ChoiceNext, PIANext, ProtonNext, SettingsNext, LoginNext
<1>9. [Next]_vars => [Fetching!Next]_fetch
  BY DEF Next, vars, FetchNext, UpdateNext, StorageNext, ChoiceNext, PIANext, ProtonNext, SettingsNext, LoginNext
<1>10. QED
  BY <1>1, <1>2, <1>3, <1>4, <1>5, <1>6, <1>7, <1>8, <1>9, PTL
     DEF Spec, Config!Spec, PIA!Spec, Proton!Spec, Update!Spec, ProtonSession!Spec, Storage!Spec, Choice!Spec, Fetching!Spec

LEMMA SettingsAlways == Spec => []SettingsInv
BY PartsImplemented, ProvidersAssumption, SettingsInvariance, PTL

LEMMA PIAAlways == Spec => []PIAInv
BY PartsImplemented, ProvidersAssumption, PIAInvariance, PTL

LEMMA PMPAlways == Spec => []PMPInv(pmp)
BY PartsImplemented, ProvidersAssumption, PMPInvariance, PTL

LEMMA UpdateAlways == Spec => []UpdInv(upd)
BY PartsImplemented, ProvidersAssumption, UpdInvariance, PTL

LEMMA LoginAlways == Spec => []LoginInv(login)
BY PartsImplemented, ProvidersAssumption, LoginInvariance, PTL

LEMMA StorageAlways == Spec => []StoreInv(store)
BY PartsImplemented, ProvidersAssumption, StoreInvariance, PTL

LEMMA ChoiceAlways == Spec => []ChoiceInv(choice)
BY PartsImplemented, ProvidersAssumption, ChoiceInvariance, PTL

LEMMA FetchAlways == Spec => []FetchInv(fetch)
BY PartsImplemented, ProvidersAssumption, FetchInvariance, PTL

(* configuration/settings: for every field, file, variable and patch, and    *)
(* handlers that patch at the same time, what the user sets is what runs and *)
(* what is in use was validated.                                             *)
THEOREM SettingsSurvive == Spec => []SettingsAreKept
<1>1. SettingsInv => SettingsAreKept
  BY SettingsInvIsEnough DEF SettingsAreKept
<1>2. QED
  BY <1>1, SettingsAlways, PTL

(* privateinternetaccess, protonvpn: whatever crashes, fails or is lost, a   *)
(* port that is announced is bound or mapped, and one that was saved is used *)
(* again.                                                                    *)
THEOREM PortsAreStable == Spec => []PortsStayForwarded
<1>1. PIAInv /\ PMPInv(pmp) => PortsStayForwarded
  BY ProvidersAssumption, PIAInvIsEnough, PMPInvIsEnough DEF PortsStayForwarded
<1>2. QED
  BY <1>1, PIAAlways, PMPAlways, PTL

(* updater, storage, utils: for any lists of hosts, servers and selections,  *)
(* and any number of updates, crashes, failed writes and releases, servers   *)
(* that are stored can be connected to and are not too few, who may log in to*)
(* Proton gets them, they outlive crashes and releases, and those picked are *)
(* among the ones asked for.                                                 *)
THEOREM ServersOutlive == Spec => []ServersAreUsed
<1>1. UpdInv(upd) /\ LoginInv(login) /\ StoreInv(store) /\ ChoiceInv(choice) => ServersAreUsed
  BY ProvidersAssumption, UpdInvIsEnough, LoginInvIsEnough, StoreInvIsEnough, ChoiceInvIsEnough DEF ServersAreUsed
<1>2. QED
  BY <1>1, UpdateAlways, LoginAlways, StorageAlways, ChoiceAlways, PTL

(* publicip/api: for any lists of services and answers, a service that       *)
(* refused is left alone for the time of its ban, also when the list is      *)
(* replaced, and a place that most of them tell is the one that is told.     *)
THEOREM FetchersStayFair == Spec => []FetchersAreFair
<1>1. FetchInv(fetch) => FetchersAreFair
  BY ProvidersAssumption, FetchInvIsEnough DEF FetchersAreFair
<1>2. QED
  BY <1>1, FetchAlways, PTL

(* Every part stays in the states of its type.                               *)
THEOREM ProvidersAreTyped == Spec => []TypeOK
<1>1. SettingsInv /\ PIAInv /\ PMPInv(pmp) /\ UpdInv(upd) /\ LoginInv(login) /\ StoreInv(store) /\ ChoiceInv(choice)
      /\ FetchInv(fetch) => TypeOK
  BY ProvidersAssumption, SettingsInvIsEnough, PIAInvIsEnough, PMPInvIsTyped, UpdInvIsEnough, LoginInvIsEnough,
     StoreInvIsEnough, ChoiceInvIsEnough, FetchInvIsEnough DEF TypeOK
<1>2. QED
  BY <1>1, SettingsAlways, PIAAlways, PMPAlways, UpdateAlways, LoginAlways, StorageAlways, ChoiceAlways, FetchAlways, PTL
=============================================================================
