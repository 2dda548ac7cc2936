------------------------------- MODULE Settings -------------------------------
(***************************************************************************)
(* The handlers of commands (command.c) and the setters they share          *)
(* (command_util.c), as operators.                                         *)
(*                                                                         *)
(* A text is a string; what the C library makes of one is given by the      *)
(* constants.  The argument of a command is [text, toks], toks what strtok  *)
(* splits it into.  A setter yields [res, val]: the handler's result (0     *)
(* done, 1 command error, 2 syntax error) and the variable's new value.     *)
(***************************************************************************)
EXTENDS CommandTree, FlashFiles, Util

LOCAL Rules == INSTANCE NetworkRules

CONSTANTS
  strtol, strtol16,      (* numbers of the texts that begin with one       *)
  strtof,                (* likewise, in tenths                            *)
  aton,                  (* addresses of the texts that are one            *)
  AclOf,                 (* [ip, prefix] of the texts "address/number"     *)
  RangeOf,               (* << a >> or << a, b >> of the texts "a", "a-b"  *)
  TimeOf,                (* times of the texts that are one                *)
  AuthNames,             (* names wifi_get_auth_type knows                 *)
  I2cType,               (* number (> 0) of the names of I2C sensors       *)
  KeyType,               (* the type in the bytes of the texts that are keys *)
  Valid,                 (* texts that pass each validation function       *)
  VSENSOR_COUNT, DNS_MAX_SERVERS, SNTP_MAX_SERVERS, MAX_ACL_ENTRIES, SSH_MAX_PUB_KEYS

ASSUME SettingsAssumption ==
  /\ {VSENSOR_COUNT, DNS_MAX_SERVERS, SNTP_MAX_SERVERS, MAX_ACL_ENTRIES,
      SSH_MAX_PUB_KEYS} \subseteq Nat \ {0}
  /\ NoText \notin DOMAIN strtol \cup DOMAIN strtol16 \cup DOMAIN strtof \cup DOMAIN aton
  /\ \A t \in DOMAIN AclOf : DOMAIN AclOf[t] = {"ip", "prefix"} /\ AclOf[t].prefix \in Int

(* f, and g where f has no value: what TLC's @@ is, in TLA+ *)
f ++ g == [x \in DOMAIN f \cup DOMAIN g |-> IF x \in DOMAIN f THEN f[x] ELSE g[x]]

AnyIp == "0.0.0.0"
NoAcl == [ip |-> AnyIp, prefix |-> 0]

Tok(arg, k) == IF k <= Len(arg.toks) THEN arg.toks[k] ELSE NoText
Done(val) == [res |-> 0, val |-> val]
Refused(res, old) == [res |-> res, val |-> old]

-----------------------------------------------------------------------------
(* Slips: what the definitions below would be with a mistake in them. *)

(* a list that had no good item is cleared before that is noticed *)
ClearsFirst(old, arg, len) ==
  LET good == SelectSeq(arg.toks, LAMBDA t : t \in DOMAIN aton)
  IN IF good = << >> THEN Refused(1, [i \in 1 .. len |-> AnyIp])
     ELSE Done([i \in 1 .. len |-> IF i <= Len(good) THEN aton[good[i]] ELSE AnyIp])

(* the number of the level's own segment when there is none before it *)
FallsBackToOne(stack) == IF stack = << >> THEN 0 ELSE GetCmdIndex(Last(stack)) - 1

-----------------------------------------------------------------------------
(* string_setting; `valid` is a validation function's name or "". *)
StringSetting(old, arg, valid) ==
  IF valid # NoText /\ arg.text \notin Valid[valid] THEN Refused(2, old) ELSE Done(arg.text)

(* bitmask16_setting: str_to_bitmask fails only without a text. *)
Bitmask16Setting(old, arg, len) ==
  Done(IF arg.text = "*" THEN TextToBitmask(Star, len, 1)
       ELSE LET ranges == SelectSeq(arg.toks, LAMBDA t : t \in DOMAIN RangeOf)
            IN TextToBitmask([i \in DOMAIN ranges |-> RangeOf[ranges[i]]], len, 1))

(* uint16_setting and uint8_setting: the number is cut to the variable's   *)
(* width before it is compared.                                            *)
UintSetting(bits, old, arg, min_val, max_val) ==
  IF arg.text \notin DOMAIN strtol THEN Refused(1, old)
  ELSE LET val == strtol[arg.text] % 2^bits
       IN IF val \in min_val .. max_val THEN Done(val) ELSE Refused(2, old)

(* uint32_setting: a negative int becomes a number above every max_val. *)
Uint32Setting(old, arg, min_val, max_val) ==
  IF arg.text \notin DOMAIN strtol THEN Refused(1, old)
  ELSE IF strtol[arg.text] \in min_val .. max_val THEN Done(strtol[arg.text])
  ELSE Refused(2, old)

(* float_setting: out of range is a command error too. *)
FloatSetting(old, arg, min_val, max_val) ==
  IF arg.text \in DOMAIN strtof /\ strtof[arg.text] \in min_val .. max_val
  THEN Done(strtof[arg.text]) ELSE Refused(1, old)

(* bool_setting *)
BoolSetting(old, arg) ==
  IF arg.text \in {"1", "TRUE", "ON"} THEN Done(TRUE)
  ELSE IF arg.text \in {"0", "FALSE", "OFF"} THEN Done(FALSE)
  ELSE Refused(2, old)

(* ip_change *)
IpChange(old, arg) ==
  IF arg.text \in DOMAIN aton THEN Done(aton[arg.text]) ELSE Refused(2, old)

(* The loop of ip_list_change and acl_list_change: items that are no       *)
(* address are passed over; the list ends when it is full or after one of   *)
(* the last items.                                                         *)
Collected(toks, len, item, last) ==
  LET good == {i \in DOMAIN toks : toks[i] \in DOMAIN item}
      before(i) == {j \in good : j < i}
      taken == {i \in good : /\ Cardinality(before(i)) < len
                             /\ \A j \in before(i) : item[toks[j]] \notin last}
      texts == Picked(toks, taken)
  IN [k \in DOMAIN texts |-> item[texts[k]]]
Padded(list, len, none) == [i \in 1 .. len |-> IF i <= Len(list) THEN list[i] ELSE none]

IpListChange(old, arg, len) ==
  LET list == Collected(arg.toks, len, aton, {AnyIp})
  IN IF list = << >> THEN Refused(1, old) ELSE Done(Padded(list, len, AnyIp))

ClampedAcl(acl) == [acl EXCEPT !.prefix = ClampInt(@, 0, 32)]
AclListChange(old, arg, len) ==
  LET acl == [t \in DOMAIN AclOf |-> ClampedAcl(AclOf[t])]
      list == Collected(arg.toks, len, acl, {a \in Range(acl) : a.prefix = 0})
  IN IF list = << >> THEN Refused(1, old) ELSE Done(Padded(list, len, NoAcl))

(* array_string_setting of the names of virtual sensors: their number from  *)
(* 0 comes from the subcommand before.                                     *)
PrevIndex(stack) == GetPrevCmdIndex(stack) - 1
IsSensor(idx) == idx \in 0 .. VSENSOR_COUNT - 1

-----------------------------------------------------------------------------
(* The handlers that set one variable: [kind, field] and what the setter is *)
(* given.  Each prints the variable when it is queried.                    *)
Plain(kind, field) == [kind |-> kind, field |-> field, min |-> 0, max |-> 0, valid |-> NoText]
Within(kind, field, min, max) ==
  [kind |-> kind, field |-> field, min |-> min, max |-> max, valid |-> NoText]
Text(field, valid) == [kind |-> "string", field |-> field, min |-> 0, max |-> 0, valid |-> valid]

PanelSettings ==
  [led |-> Within("led", "led_mode", 0, 2),
   backlight |-> Within("uint8", "bl_brightness", 0, 100),
   adc_vref |-> Within("float", "adc_vref", 0, 1000)]
LevelSettings ==
  [log_level |-> Plain("level", "log_level"),
   syslog_level |-> Plain("level", "syslog_level"),
   echo |-> Plain("bool", "local_echo")]
AddressSettings ==
  [wifi_ip |-> Plain("ip", "ip"), wifi_netmask |-> Plain("ip", "netmask"),
   wifi_gateway |-> Plain("ip", "gateway"),
   wifi_dns |-> Within("iplist", "dns_servers", 0, DNS_MAX_SERVERS),
   wifi_syslog_client |-> Plain("bool", "syslog_active"),
   wifi_syslog |-> Plain("ip", "syslog_server"),
   wifi_ntp_client |-> Plain("bool", "ntp_active"),
   wifi_ntp |-> Within("iplist", "ntp_servers", 0, SNTP_MAX_SERVERS)]
NetworkName == [wifi_ssid |-> Text("wifi_ssid", NoText)]
StationSettings ==
  [wifi_country |-> Text("wifi_country", "valid_wifi_country"),
   wifi_password |-> Text("wifi_passwd", NoText),
   wifi_hostname |-> Text("hostname", "valid_hostname"),
   wifi_auth_mode |-> Plain("auth", "wifi_auth_mode"),
   wifi_mode |-> Within("uint8", "wifi_mode", 0, 1)]
SshSettings ==
  [ssh_auth |-> Plain("bool", "ssh_auth"), ssh_server |-> Plain("bool", "ssh_active"),
   ssh_port |-> Within("uint16", "ssh_port", 0, 65535),
   ssh_user |-> Text("ssh_user", NoText), ssh_pass |-> Plain("passwd", "ssh_pwhash")]
SshAccess == [ssh_acls |-> Plain("acl", "ssh_acls")]
TelnetSettings ==
  [telnet_auth |-> Plain("bool", "telnet_auth"),
   telnet_rawmode |-> Plain("bool", "telnet_raw_mode"),
   telnet_server |-> Plain("bool", "telnet_active"),
   telnet_port |-> Within("uint16", "telnet_port", 0, 65535),
   telnet_user |-> Text("telnet_user", NoText), telnet_pass |-> Plain("passwd", "telnet_pwhash"),
   telnet_acls |-> Plain("acl", "telnet_acls")]
HttpSettings ==
  [http_server |-> Plain("bool", "http_active"),
   http_port |-> Within("uint16", "http_port", 0, 65535),
   http_tlsport |-> Within("uint16", "https_port", 0, 65535),
   http_mask_vsensor |-> Plain("mask", "http_vsensor_mask")]
ZoneSetting == [timezone |-> Text("timezone", NoText)]
NameSetting == [name |-> Text("name", NoText)]
BusSettings == [i2c_speed |-> Within("uint32", "i2c_speed", 10000, 3400000)]

SettingRows ==
  PanelSettings ++ LevelSettings ++ AddressSettings ++ NetworkName ++ StationSettings
    ++ SshSettings ++ SshAccess ++ TelnetSettings ++ HttpSettings ++ ZoneSetting
    ++ NameSetting ++ BusSettings

(* cmd_led passes over a number out of range, or none, and says it is done *)
LedMode(old, arg) ==
  Done(IF arg.text \in DOMAIN strtol /\ strtol[arg.text] \in 0 .. 2
       THEN strtol[arg.text] ELSE old)
(* cmd_log_level, cmd_syslog_level *)
Level(old, arg) ==
  LET pri == Rules!Str2LogPriority(arg.text) IN IF pri < 0 THEN Refused(1, old) ELSE Done(pri)
(* cmd_wifi_auth_mode *)
AuthMode(old, arg) == IF arg.text \in AuthNames THEN Done(arg.text) ELSE Refused(1, old)
(* cmd_ssh_pass, cmd_telnet_pass: a hash of the password, or none *)
PwHash(arg) == Done(IF arg.text = NoText THEN NoText ELSE "hash of " \o arg.text)

Set(row, old, arg) ==
  CASE row.kind = "bool"   -> BoolSetting(old, arg)
    [] row.kind = "uint8"  -> UintSetting(8, old, arg, row.min, row.max)
    [] row.kind = "uint16" -> UintSetting(16, old, arg, row.min, row.max)
    [] row.kind = "uint32" -> Uint32Setting(old, arg, row.min, row.max)
    [] row.kind = "float"  -> FloatSetting(old, arg, row.min, row.max)
    [] row.kind = "string" -> StringSetting(old, arg, row.valid)
    [] row.kind = "ip"     -> IpChange(old, arg)
    [] row.kind = "iplist" -> IpListChange(old, arg, row.max)
    [] row.kind = "acl"    -> AclListChange(old, arg, MAX_ACL_ENTRIES)
    [] row.kind = "mask"   -> Bitmask16Setting(old, arg, VSENSOR_COUNT)
    [] row.kind = "passwd" -> PwHash(arg)
    [] row.kind = "auth"   -> AuthMode(old, arg)
    [] row.kind = "level"  -> Level(old, arg)
    [] row.kind = "led"    -> LedMode(old, arg)

-----------------------------------------------------------------------------
(* str2vsmode by its prefixes, and vsmode2str *)
ModePrefix == << << "MAX", "max" >>, << "MIN", "min" >>, << "AVG", "avg" >>,
                 << "DELTA", "delta" >>, << "INTERNAL", "internal" >>, << "I2C", "i2c" >> >>
Str2Vsmode(s) ==
  LET i == Rules!FirstOf(ModePrefix, LAMBDA m : IsPrefix(m[1], s), 1)
  IN IF i = 0 THEN "manual" ELSE ModePrefix[i][2]

I2cReserved(addr) == addr \notin 8 .. 119

(* cmd_vsensor_source, of sensor v.  An INTERNAL source is set, and still  *)
(* a syntax error is returned.                                             *)
VsensorSource(v, arg) ==
  LET mode == Str2Vsmode(Tok(arg, 1))
      a == Tok(arg, 2)
      b == Tok(arg, 3)
      manual == a \in DOMAIN strtof /\ b \in DOMAIN strtol
      i2c == a \in DOMAIN strtol16 /\ ~I2cReserved(strtol16[a]) /\ b \in DOMAIN I2cType
      internal == a \in DOMAIN strtof /\ b \in DOMAIN strtof /\ strtof[b] # 0
  IN IF arg.toks = << >> THEN Refused(2, v)
     ELSE IF mode = "manual" /\ manual
     THEN Done([v EXCEPT !.mode = mode, !.default_temp = strtof[a],
                         !.timeout = IF strtol[b] < 0 THEN 0 ELSE strtol[b]])
     ELSE IF mode = "i2c" /\ i2c
     THEN Done([v EXCEPT !.mode = mode, !.i2c_addr = strtol16[a], !.i2c_type = I2cType[b]])
     ELSE IF mode = "internal" /\ internal
     THEN Refused(2, [v EXCEPT !.mode = mode, !.temp_offset = strtof[a],
                               !.temp_coefficient = strtof[b]])
     ELSE Refused(2, v)

(* The sensor cmd_vsensor_temp and cmd_vsensor_write mean: the subcommand   *)
(* before, if it is VSENSORn, or else their own word.                      *)
SensorOf(s, stack) ==
  IF IsPrefix("VSENSOR", GetPrevCmd(stack).w) THEN PrevIndex(stack) ELSE GetCmdIndex(s) - 1

(* cmd_vsensor_write, of the sensor's mode and temperature *)
VsensorWrite(mode, old, arg) ==
  IF mode # "manual" THEN Refused(2, old)
  ELSE IF arg.text \in DOMAIN strtof THEN Done(strtof[arg.text]) ELSE Refused(1, old)

-----------------------------------------------------------------------------
(* cmd_ssh_pubkey_add: of "user type key name"; without a user or a good   *)
(* key nothing is added, and that is no error.                             *)
PubkeyAdd(keys, arg) ==
  LET parsed == StrToSshPubkey(Tail(arg.toks), KeyType)
      free == {i \in DOMAIN keys : keys[i].key = NoText}
  IN IF arg.toks = << >> THEN Done(keys)
     ELSE IF parsed.ret # 0 THEN Done(keys)
     ELSE IF free = {} THEN Refused(2, keys)
     ELSE Done([keys EXCEPT ![CHOOSE i \in free : \A j \in free : i <= j] =
                  [parsed.key EXCEPT !.username = arg.toks[1]]])

(* cmd_ssh_pubkey_del *)
PubkeyDel(keys, arg) ==
  IF arg.text \notin DOMAIN strtol THEN Refused(2, keys)
  ELSE IF strtol[arg.text] \notin 1 .. SSH_MAX_PUB_KEYS THEN Refused(2, keys)
  ELSE Done([keys EXCEPT ![strtol[arg.text]] = NoPubkey])

(* The commands that print and change nothing: a command error unless they  *)
(* are queried; and those that take either form.                           *)
IdentityQuery == {"idn"}
UserQuery == {"who"}
BoardQueries == {"board", "version"}
SensorQueries == {"vsensors", "vsensors_sources"}
DebugQuery == {"debug"}
ConfigQuery == {"print_config"}
DisplayQueries == {"annunciators", "read", "main", "vsensors_read"}
WifiQueries == {"wifi", "wifi_mac"}
LinkQueries == {"wifi_status", "wifi_stats", "wifi_info"}
HostKeyQuery == {"ssh_pkey"}
UserKeyQuery == {"ssh_pubkey"}
UptimeQuery == {"uptime", "err"}
DirQuery == {"lfs_dir"}
FlashQuery == {"flash"}
BusQueries == {"i2c", "i2c_scan"}
QueryOnly ==
  IdentityQuery \cup UserQuery \cup BoardQueries \cup SensorQueries \cup DebugQuery
    \cup ConfigQuery \cup DisplayQueries \cup WifiQueries \cup LinkQueries
    \cup HostKeyQuery \cup UserKeyQuery \cup UptimeQuery \cup DirQuery \cup FlashQuery
    \cup BusQueries
Constants == {"one", "zero"}
MemoryReport == {"memory"}
EitherForm == {"null"} \cup Constants \cup MemoryReport

=============================================================================
