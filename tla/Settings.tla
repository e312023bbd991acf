------------------------------ MODULE Settings ------------------------------
(* One field of the settings from the environment to the running program,    *)
(* and through the requests that patch it: Settings.Read, SetDefaults and    *)
(* Validate at start-up, then vpnHandler.patchSettings by two handlers that  *)
(* may overlap. Every behaviour follows one field; the rest of the settings  *)
(* is what a request patches when it does not patch this field.              *)
EXTENDS Naturals, FiniteSets, FiniteSetsExt

-----------------------------------------------------------------------------
(* The fields of every settings structure. For each structure: its fields by *)
(* what copy, overrideWith and setDefaults do with them, the fields read from*)
(* the environment with the number of older keys each may be given by, and   *)
(* the fields validate may refuse.                                           *)

(* Pointers and values with a default, and slices with and without one. Like *)
(* a nil pointer or slice, the zero value of any other field means unset.    *)
Fields(pointers, values, slices, bare) ==
    [pointers |-> pointers, values |-> values, slices |-> slices, bare |-> bare]

Plain(names) == [n \in names |-> 0]
Older(k, names) == [n \in names |-> k]
Also(f, g) == [n \in DOMAIN f \cup DOMAIN g |-> IF n \in DOMAIN f THEN f[n] ELSE g[n]]
-----------------------------------------------------------------------------
(* VPN and what it contains.                                                 *)

VPN == Fields({"UpCommand", "DownCommand"}, {"Type"}, {}, {})
ReadVPN == Plain({"Type", "UpCommand", "DownCommand"})
CheckVPN == {"Type"}

Provider == Fields({}, {"Name"}, {}, {})
ReadProvider == Older(1, {"Name"})
CheckProvider == {"Name"}

Locations == {"Countries", "Categories", "Regions", "Cities", "ISPs", "Hostnames", "Names"}
Filters == {"OwnedOnly", "FreeOnly", "PremiumOnly", "StreamOnly", "MultiHopOnly",
            "PortForwardOnly", "SecureCoreOnly", "TorOnly"}
ServerSelection == Fields(Filters, {"VPN"}, {}, Locations \cup {"Numbers"})
ReadServerSelection ==
    Also(Older(1, {"Countries", "Regions", "Cities", "Hostnames", "Names", "OwnedOnly"}),
         Plain({"VPN", "Categories", "ISPs", "Numbers"} \cup Filters))
CheckServerSelection == {"VPN"} \cup Locations \cup Filters

OpenVPNSelection == Fields({"ConfFile", "CustomPort", "PIAEncPreset"}, {"Protocol", "EndpointIP"}, {}, {})
ReadOpenVPNSelection ==
    Also(Older(3, {"CustomPort"}), Also(Older(2, {"EndpointIP", "PIAEncPreset"}),
         Also(Older(1, {"Protocol"}), Plain({"ConfFile"}))))
CheckOpenVPNSelection == {"ConfFile", "Protocol", "CustomPort", "PIAEncPreset"}

WireguardSelection == Fields({"EndpointPort"}, {"EndpointIP"}, {}, {"PublicKey"})
ReadWireguardSelection == Also(Older(1, {"EndpointIP", "EndpointPort"}), Plain({"PublicKey"}))
CheckWireguardSelection == {"EndpointIP", "EndpointPort", "PublicKey"}

PortForwarding ==
    Fields({"Enabled", "Provider", "Filepath", "UpCommand", "DownCommand"}, {"PortsCount"},
           {"ListeningPorts"}, {"Username", "Password"})
ReadPortForwarding ==
    Also(Older(2, {"Enabled", "Filepath", "Username", "Password"}), Also(Older(1, {"ListeningPorts"}),
         Plain({"Provider", "UpCommand", "DownCommand", "PortsCount"})))
CheckPortForwarding == {"Provider", "Filepath", "PortsCount", "Username", "Password", "ListeningPorts"}

OpenVPN ==
    Fields({"User", "Password", "ConfFile", "Auth", "Cert", "Key", "EncryptedKey", "KeyPassphrase",
            "PIAEncPreset", "MSSFix", "Verbosity"},
           {"Version", "Interface", "ProcessUser"}, {}, {"Ciphers", "Flags"})
ReadOpenVPN ==
    Also(Older(2, {"PIAEncPreset"}), Also(Older(1, {"User", "Password", "Ciphers", "Interface", "ProcessUser"}),
         Plain({"Version", "ConfFile", "Auth", "Cert", "Key", "EncryptedKey", "KeyPassphrase", "MSSFix",
                "Verbosity", "Flags"})))
CheckOpenVPN == {"Version", "User", "Password", "ConfFile", "Cert", "Key", "EncryptedKey",
                 "KeyPassphrase", "MSSFix", "Interface", "Verbosity"}

(* Addresses have a default for NordVPN and ProtonVPN only.                  *)
Wireguard ==
    Fields({"PrivateKey", "PreSharedKey", "PersistentKeepaliveInterval", "MTU", "GSO"},
           {"Interface", "Implementation"}, {"AllowedIPs"}, {"Addresses"})
ReadWireguard ==
    Also(Older(1, {"Interface", "Addresses"}),
         Plain({"PrivateKey", "PreSharedKey", "Implementation", "AllowedIPs",
                "PersistentKeepaliveInterval", "MTU", "GSO"}))
CheckWireguard == {"PrivateKey", "PreSharedKey", "Addresses", "AllowedIPs",
                   "PersistentKeepaliveInterval", "Interface", "Implementation"}

(* Its part that Wireguard does not have.                                    *)
AmneziaWg ==
    Fields({"JunkPacketCount", "JunkPacketMin", "JunkPacketMax", "PaddingS1", "PaddingS2", "PaddingS3",
            "PaddingS4", "HeaderH1", "HeaderH2", "HeaderH3", "HeaderH4", "InitPacketI1", "InitPacketI2",
            "InitPacketI3", "InitPacketI4", "InitPacketI5"}, {}, {}, {})
ReadAmneziaWg == Plain(AmneziaWg.pointers)
CheckAmneziaWg == {"JunkPacketCount", "JunkPacketMin", "JunkPacketMax", "HeaderH1", "HeaderH2",
                   "HeaderH3", "HeaderH4"}

PMTUD == Fields({}, {}, {"ICMPAddresses", "TCPAddresses"}, {})
ReadPMTUD == Plain({"ICMPAddresses", "TCPAddresses"})
CheckPMTUD == {"ICMPAddresses", "TCPAddresses"}
-----------------------------------------------------------------------------
(* The other sections.                                                       *)

DNS ==
    Fields({"ServerEnabled", "UpdatePeriod", "Caching", "IPv6"}, {"UpstreamType"},
           {"Providers", "UpstreamPlainAddresses", "PublicNamesAsLocal", "PublicNameserverCIDRsAsLocal"}, {})
ReadDNS ==
    Also(Older(2, {"UpstreamPlainAddresses"}), Also(Older(1, {"ServerEnabled", "Providers", "Caching", "IPv6"}),
         Plain({"UpstreamType", "UpdatePeriod", "PublicNamesAsLocal", "PublicNameserverCIDRsAsLocal"})))
CheckDNS == {"UpstreamType", "UpdatePeriod", "UpstreamPlainAddresses", "IPv6", "PublicNameserverCIDRsAsLocal"}

DNSBlacklist ==
    Fields({"BlockMalicious", "BlockAds"}, {}, {},
           {"AllowedHosts", "AddBlockedHosts", "AddBlockedIPs", "AddBlockedIPPrefixes",
            "RebindingProtectionExemptHostnames"})
ReadDNSBlacklist ==
    Also(Older(1, {"AddBlockedIPs", "AddBlockedIPPrefixes", "AllowedHosts"}),
         Plain({"BlockMalicious", "BlockAds", "RebindingProtectionExemptHostnames"}))
CheckDNSBlacklist == {"AllowedHosts", "AddBlockedHosts", "RebindingProtectionExemptHostnames"}

Firewall == Fields({"Enabled"}, {}, {}, {"VPNInputPorts", "InputPorts", "OutboundSubnets"})
ReadFirewall == Also(Older(1, {"OutboundSubnets"}), Plain({"VPNInputPorts", "InputPorts", "Enabled"}))
CheckFirewall == {"VPNInputPorts", "InputPorts", "OutboundSubnets"}

Iptables == Fields({}, {"LogLevel"}, {}, {})
ReadIptables == Older(1, {"LogLevel"})
CheckIptables == {"LogLevel"}

Health == Fields({"RestartVPN"}, {"ServerAddress", "SmallCheckType"}, {"TargetAddresses", "ICMPTargetIPs"}, {})
ReadHealth ==
    Also(Older(2, {"TargetAddresses"}), Also(Older(1, {"ICMPTargetIPs"}),
         Plain({"ServerAddress", "SmallCheckType", "RestartVPN"})))
CheckHealth == {"ServerAddress", "ICMPTargetIPs", "SmallCheckType"}

HTTPProxy ==
    Fields({"User", "Password", "Enabled", "Stealth", "Log"},
           {"ListeningAddress", "ReadHeaderTimeout", "ReadTimeout"}, {}, {})
ReadHTTPProxy ==
    Also(Older(3, {"ListeningAddress"}), Also(Older(2, {"User", "Password", "Enabled", "Log"}),
         Plain({"Stealth"})))
CheckHTTPProxy == {"ListeningAddress"}

Log == Fields({}, {"Level"}, {}, {})
ReadLog == Plain({"Level"})
CheckLog == {"Level"}

Metrics == Fields({}, {"Type"}, {}, {})
ReadMetrics == Plain({"Type"})
CheckMetrics == {"Type"}
Prometheus == Fields({}, {"ListeningAddress"}, {}, {})
ReadPrometheus == Plain({"ListeningAddress"})
CheckPrometheus == {"ListeningAddress"}

IPv6 == Fields({}, {}, {"CheckAddresses"}, {})
ReadIPv6 == Plain({"CheckAddresses"})

PublicIP == Fields({"Enabled", "IPFilepath"}, {}, {"APIs"}, {})
ReadPublicIP == Also(Older(1, {"Enabled", "IPFilepath"}), Plain({"APIs"}))
CheckPublicIP == {"IPFilepath", "APIs"}

ControlServer == Fields({"Address", "Log"}, {"AuthFilePath", "AuthDefaultRole"}, {}, {})
ReadControlServer == Plain({"Address", "Log", "AuthFilePath", "AuthDefaultRole"})
CheckControlServer == {"Address", "AuthDefaultRole"}

Shadowsocks == Fields({"Enabled", "Address", "LogAddresses", "Password"}, {"CipherName"}, {}, {})
ReadShadowsocks == Also(Older(1, {"Address", "CipherName"}), Plain({"Enabled", "LogAddresses", "Password"}))
CheckShadowsocks == {"Address", "CipherName"}

Socks5 == Fields({"Enabled", "Username", "Password"}, {"ListeningAddress"}, {"AllowedCIDRs"}, {})
ReadSocks5 == Plain({"Enabled", "ListeningAddress", "Username", "Password", "AllowedCIDRs"})
CheckSocks5 == {"ListeningAddress", "Username", "Password", "AllowedCIDRs"}

Storage == Fields({"ServersEnabled"}, {"ServersPath", "LegacyServersFilepath"}, {}, {})
ReadStorage == Also(Older(1, {"ServersEnabled", "ServersPath"}), Plain({"LegacyServersFilepath"}))
CheckStorage == {"ServersPath", "LegacyServersFilepath"}

System == Fields({"PUID", "PGID"}, {}, {}, {"Timezone"})
ReadSystem == Also(Older(1, {"PUID", "PGID"}), Plain({"Timezone"}))

Updater ==
    Fields({"Period", "PreferDirectDownload", "ProtonEmail", "ProtonPassword", "ProtonTOTPSecret",
            "ProtonTOTPCode"}, {"MinRatio"}, {"Providers"}, {})
ReadUpdater ==
    Also(Older(1, {"ProtonEmail"}),
         Plain({"Period", "MinRatio", "Providers", "PreferDirectDownload", "ProtonPassword", "ProtonTOTPSecret"}))
CheckUpdater == {"Period", "MinRatio", "Providers", "ProtonEmail", "ProtonPassword"}

Version == Fields({"Enabled"}, {}, {}, {})
ReadVersion == Plain({"Enabled"})

BoringPoll == Fields({"GluetunCom"}, {}, {}, {})
ReadBoringPoll == Plain({"GluetunCom"})

(* The two rates have no default and are dereferenced when main creates the  *)
(* server, whether it is enabled or not.                                     *)
Pprof == Fields({"Enabled"}, {"HTTPServer.Address"}, {}, {"BlockProfileRate", "MutexProfileRate"})
ReadPprof == Plain({"Enabled", "BlockProfileRate", "MutexProfileRate", "HTTPServer.Address"})
CheckPprof == {"BlockProfileRate", "MutexProfileRate", "HTTPServer.Address"}
-----------------------------------------------------------------------------
Struct(fields, read, check) == [fields |-> fields, read |-> read, check |-> check]

(* The structures a PATCH of the VPN settings reaches.                       *)
VPNStructs ==
    [VPN |-> Struct(VPN, ReadVPN, CheckVPN),
     Provider |-> Struct(Provider, ReadProvider, CheckProvider),
     ServerSelection |-> Struct(ServerSelection, ReadServerSelection, CheckServerSelection),
     OpenVPNSelection |-> Struct(OpenVPNSelection, ReadOpenVPNSelection, CheckOpenVPNSelection),
     WireguardSelection |-> Struct(WireguardSelection, ReadWireguardSelection, CheckWireguardSelection),
     PortForwarding |-> Struct(PortForwarding, ReadPortForwarding, CheckPortForwarding),
     OpenVPN |-> Struct(OpenVPN, ReadOpenVPN, CheckOpenVPN),
     Wireguard |-> Struct(Wireguard, ReadWireguard, CheckWireguard),
     AmneziaWg |-> Struct(AmneziaWg, ReadAmneziaWg, CheckAmneziaWg),
     PMTUD |-> Struct(PMTUD, ReadPMTUD, CheckPMTUD)]

OtherStructs ==
    [DNS |-> Struct(DNS, ReadDNS, CheckDNS),
     DNSBlacklist |-> Struct(DNSBlacklist, ReadDNSBlacklist, CheckDNSBlacklist),
     Firewall |-> Struct(Firewall, ReadFirewall, CheckFirewall),
     Iptables |-> Struct(Iptables, ReadIptables, CheckIptables),
     Health |-> Struct(Health, ReadHealth, CheckHealth),
     HTTPProxy |-> Struct(HTTPProxy, ReadHTTPProxy, CheckHTTPProxy),
     Log |-> Struct(Log, ReadLog, CheckLog),
     Metrics |-> Struct(Metrics, ReadMetrics, CheckMetrics),
     Prometheus |-> Struct(Prometheus, ReadPrometheus, CheckPrometheus),
     IPv6 |-> Struct(IPv6, ReadIPv6, {}),
     PublicIP |-> Struct(PublicIP, ReadPublicIP, CheckPublicIP),
     ControlServer |-> Struct(ControlServer, ReadControlServer, CheckControlServer),
     Shadowsocks |-> Struct(Shadowsocks, ReadShadowsocks, CheckShadowsocks),
     Socks5 |-> Struct(Socks5, ReadSocks5, CheckSocks5),
     Storage |-> Struct(Storage, ReadStorage, CheckStorage),
     System |-> Struct(System, ReadSystem, {}),
     Updater |-> Struct(Updater, ReadUpdater, CheckUpdater),
     Version |-> Struct(Version, ReadVersion, {}),
     BoringPoll |-> Struct(BoringPoll, ReadBoringPoll, {}),
     Pprof |-> Struct(Pprof, ReadPprof, CheckPprof)]

Structs == Also(VPNStructs, OtherStructs)

NamesOf(s) == LET f == Structs[s].fields IN f.pointers \cup f.values \cup f.slices \cup f.bare
Field == UNION {{<<s, n>> : n \in NamesOf(s)} : s \in DOMAIN Structs}
InVPN(f) == f[1] \in DOMAIN VPNStructs
Dereferenced(f) ==
    \/ f[2] \in Structs[f[1]].fields.pointers
    \/ f \in {<<"Pprof", "BlockProfileRate">>, <<"Pprof", "MutexProfileRate">>}
HasDefault(f) == f[2] \notin Structs[f[1]].fields.bare
MayBeRefused(f) == f[2] \in Structs[f[1]].check
IsRead(f) == f[2] \in DOMAIN Structs[f[1]].read
Keys(f) == IF IsRead(f) THEN 0 .. Structs[f[1]].read[f[2]] ELSE {}

-----------------------------------------------------------------------------
(* The field that a behaviour follows.                                       *)

CONSTANTS
    Handlers,       \* requests of the control server that patch the VPN settings
    Followed        \* the fields of Field that are followed

SettingsConstants == Followed \subseteq Field

VARIABLE st         \* one record, see Init

(* A value is the set of what it is made of: keys of the environment (0 is   *)
(* the current key), the default, a patch; {} is a nil pointer or a zero     *)
(* value.                                                                    *)
Unset == {}
Default == {<<"default", 0>>}
Nothing == {<<"nothing", 0>>}
FromKeys(ks) == {<<"key", k>> : k \in ks}
Patch(h) == {<<"patch", h>>}

Init ==
    \E f \in Followed, used \in BOOLEAN :
    \E env \in SUBSET Keys(f) :
    \E refused \in {Nothing} \cup (IF MayBeRefused(f) THEN {Unset, FromKeys({0})} \cup {Patch(h) : h \in Handlers} ELSE {}) :
        st = [field |-> f,
              env |-> env,              \* the keys that are set
              refused |-> refused,      \* the value validate refuses
              used |-> used,            \* what the field belongs to is enabled or selected
              phase |-> "read", value |-> Unset,
              pc |-> [h \in Handlers |-> "idle"], copy |-> [h \in Handlers |-> Unset],
              before |-> [h \in Handlers |-> Unset],     \* the value when copied, and
              usedThen |-> [h \in Handlers |-> FALSE],   \* whether it was in use
              patch |-> [h \in Handlers |-> "nothing"],
              expected |-> Unset,       \* what accepted requests ask for
              overlapped |-> FALSE,     \* settings were set from an old copy
              blamed |-> FALSE]         \* a request was refused for what it left alone

-----------------------------------------------------------------------------
(* Fields whose older keys are read first: a port that stands for an address,*)
(* a user that stands for root, a period that stands for enabled.            *)
OlderFirst ==
    {<<"HTTPProxy", "ListeningAddress">>, <<"HTTPProxy", "Log">>, <<"Shadowsocks", "Address">>,
     <<"PublicIP", "Enabled">>, <<"OpenVPN", "ProcessUser">>, <<"Storage", "ServersEnabled">>}
(* Fields whose older keys are added to the current one.                     *)
Appended ==
    {<<"DNS", "UpstreamPlainAddresses">>, <<"DNSBlacklist", "AddBlockedIPs">>,
     <<"DNSBlacklist", "AddBlockedIPPrefixes">>}
(* STORAGE_FILEPATH keeps the path of the servers from being read, and what  *)
(* FIREWALL_DEBUG sets is overwritten.                                       *)
OlderSilences == {<<"Storage", "ServersPath">>}
OlderOverwritten == {<<"Iptables", "LogLevel">>}

(* reader.Get: the current key, then the older ones.                         *)
First(ks) == IF ks = {} THEN Unset ELSE FromKeys({Min(ks)})

ReadKeys(f, env) ==
    CASE f \in Appended -> FromKeys(env \cap {0}) \cup First(env \ {0})
      [] f \in OlderFirst /\ env \ {0} # {} -> First(env \ {0})
      [] f \in OlderSilences /\ env \ {0} # {} -> Unset
      [] f \in OlderOverwritten -> First(env \cap {0})
      [] OTHER -> First(env)

Read ==
    /\ st.phase = "read"
    /\ st' = [st EXCEPT !.phase = "defaults", !.value = ReadKeys(st.field, st.env)]

SetDefaults ==
    /\ st.phase = "defaults"
    /\ st' = [st EXCEPT !.phase = "validate",
                        !.value = IF st.value = Unset /\ HasDefault(st.field) THEN Default ELSE @]

(* A section that is not enabled, or of a VPN type that is not selected, is  *)
(* not looked at.                                                            *)
Valid(value, used) == ~used \/ value # st.refused

Validate ==
    /\ st.phase = "validate"
    /\ st' = IF Valid(st.value, st.used) THEN [st EXCEPT !.phase = "running", !.expected = st.value]
             ELSE [st EXCEPT !.phase = "failed"]
-----------------------------------------------------------------------------
(* A PATCH: decoded, then the settings are copied, overridden, validated and *)
(* set, each under a lock of its own.                                        *)

Uncopied == {<<"PortForwarding", "PortsCount">>}
Copied(value) == IF st.field \in Uncopied THEN Unset ELSE value

GetSettings(h) ==
    /\ st.phase = "running" /\ st.pc[h] = "idle" /\ InVPN(st.field)
    /\ st' = [st EXCEPT !.pc[h] = "override", !.copy[h] = Copied(st.value),
                        !.before[h] = st.value, !.usedThen[h] = st.used]

ResetUnpatched(value, patch) == IF st.field \in Uncopied THEN value ELSE patch

(* A field the request does not give keeps its value.                        *)
Overridden(value, patch) ==
    IF patch = Unset \/ st.field \in Uncopied THEN value ELSE patch

(* The request patches this field, or leaves it alone, or uses what it       *)
(* belongs to.                                                               *)
OverrideWith(h) ==
    /\ st.pc[h] = "override"
    /\ \E what \in {"field", "other", "used"} :
        st' = [st EXCEPT !.pc[h] = "validate", !.patch[h] = what,
                         !.copy[h] = Overridden(@, IF what = "field" THEN Patch(h) ELSE Unset)]

UsedAfter(h) == st.usedThen[h] \/ st.patch[h] = "used"

Refuse(h) ==
    /\ st.pc[h] = "validate" /\ ~Valid(st.copy[h], UsedAfter(h))
    /\ st' = [st EXCEPT !.pc[h] = "done",
                        !.blamed = (@ \/ (st.patch[h] = "other" /\ st.before[h] # st.refused))]

SetSettings(h) ==
    /\ st.pc[h] = "validate" /\ Valid(st.copy[h], UsedAfter(h))
    /\ st' = [st EXCEPT !.pc[h] = "done", !.value = st.copy[h], !.used = UsedAfter(h),
                        !.overlapped = (@ \/ st.before[h] # st.value),
                        !.expected = IF st.patch[h] = "field" THEN Patch(h) ELSE @]

Next ==
    \/ Read \/ SetDefaults \/ Validate
    \/ \E h \in Handlers : GetSettings(h) \/ OverrideWith(h) \/ Refuse(h) \/ SetSettings(h)
Spec == Init /\ [][Next]_st
-----------------------------------------------------------------------------
TypeOK ==
    /\ st.field \in Followed /\ st.env \subseteq Keys(st.field)
    /\ st.phase \in {"read", "defaults", "validate", "running", "failed"}
    /\ st.pc \in [Handlers -> {"idle", "override", "validate", "done"}]
    /\ {st.used, st.overlapped, st.blamed} \subseteq BOOLEAN

Running == st.phase = "running"

(* What is dereferenced is not nil, but for the two rates of the profiling   *)
(* server, which only the image gives a value.                               *)
NothingUsedIsNil ==
    Running /\ Dereferenced(st.field) /\ st.field[1] # "Pprof" => st.value # Unset

(* What is in use was validated, also when it was not in use before.         *)
UsedIsValid == Running /\ st.used => st.value # st.refused

(* What was set in the environment, or by the last request that was accepted,*)
(* is what runs, unless two requests overlapped. The count of forwarded ports*)
(* is lost by the first request, whatever it patches.                        *)
AcceptedIsKept ==
    Running /\ ~st.overlapped /\ st.field \notin Uncopied => st.value = st.expected

(* A request is never refused for a field that it leaves alone and that was  *)
(* valid, but for that count.                                                *)
NotBlamedForOthers == st.blamed => st.field \in Uncopied

SettingsAreKept == NothingUsedIsNil /\ UsedIsValid /\ AcceptedIsKept /\ NotBlamedForOthers
=============================================================================
