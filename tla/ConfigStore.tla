------------------------------ MODULE ConfigStore ------------------------------
(***************************************************************************)
(* The configuration, as it is cleared, written as JSON and read back       *)
(* (config.c).  A JSON object is a function from the names it has to their  *)
(* values; numbers, texts, passwords in base64 and addresses are kept as    *)
(* what they stand for.  The three log levels, which are not part of the    *)
(* structure but saved with it, are fields of `conf` too.                  *)
(***************************************************************************)
EXTENDS Settings

Sensors == 0 .. VSENSOR_COUNT - 1
AllSensors == Sensors              \* (1 << VSENSOR_COUNT) - 1, as a set of bits

Levels == {"debug", "log_level", "syslog_level"}
PlainNumbers ==
  {"led_mode", "bl_brightness", "i2c_speed", "adc_vref", "wifi_mode", "telnet_port",
   "ssh_port", "http_port", "https_port"}
Texts ==
  {"name", "timezone", "hostname", "wifi_country", "wifi_ssid", "wifi_passwd",
   "wifi_auth_mode", "telnet_user", "telnet_pwhash", "ssh_user", "ssh_pwhash"}
Flags ==
  {"syslog_active", "ntp_active", "telnet_active", "telnet_auth", "telnet_raw_mode",
   "ssh_active", "ssh_auth", "http_active"}
Ips == {"syslog_server", "ip", "netmask", "gateway"}
IpLists == {"dns_servers", "ntp_servers"}
Acls == {"telnet_acls", "ssh_acls"}
Unset == {"wifi_mode", "telnet_port", "ssh_port", "http_port", "https_port"}  \* when 0
Fields == Levels \cup PlainNumbers \cup Texts \cup Flags \cup Ips \cup IpLists \cup Acls
            \cup {"local_echo", "ssh_pubkeys", "http_vsensor_mask", "vsensors"}

(* clear_config, which leaves the log levels alone *)
ClearedSensor ==
  [name |-> NoText, mode |-> "manual", default_temp |-> 0, timeout |-> 60,
   temp_offset |-> 0, temp_coefficient |-> 10, i2c_type |-> 0, i2c_addr |-> 0]
ClearedSensors ==
  [vsensors |-> [i \in Sensors |-> ClearedSensor], vtemp |-> [i \in Sensors |-> 0]]
Cleared ==
  ClearedSensors
  ++ [led_mode |-> 0, bl_brightness |-> 100, i2c_speed |-> 1000000, adc_vref |-> 33,
      wifi_mode |-> 0, telnet_port |-> 0, ssh_port |-> 0, http_port |-> 0, https_port |-> 0,
      local_echo |-> FALSE, http_vsensor_mask |-> {}]
  ++ [f \in Texts |-> CASE f = "name" -> "lcdpico1" [] f = "wifi_country" -> "XX"
                        [] f = "wifi_auth_mode" -> "default" [] OTHER -> NoText]
  ++ [f \in Flags |-> f \in {"syslog_active", "ntp_active", "telnet_auth", "ssh_auth",
                             "http_active"}]
  ++ [f \in Ips |-> AnyIp]
  ++ [f \in IpLists |-> [i \in 1 .. IF f = "dns_servers" THEN DNS_MAX_SERVERS
                                    ELSE SNTP_MAX_SERVERS |-> AnyIp]]
  ++ [f \in Acls |-> [i \in 1 .. MAX_ACL_ENTRIES |-> NoAcl]]
  ++ [f \in {"ssh_pubkeys"} |-> [i \in 1 .. SSH_MAX_PUB_KEYS |-> NoPubkey]]
ClearConfig(conf) == Cleared ++ [f \in Levels |-> conf[f]]

-----------------------------------------------------------------------------
(* iplist2json, acllist2json, sshpubkeys2json *)
IpList2Json(list) == Picked(list, {i \in DOMAIN list : list[i] # AnyIp})
AclList2Json(list) == Picked(list, {i \in DOMAIN list : list[i].prefix > 0})
SshPubkeys2Json(keys) ==
  Picked(keys, {i \in DOMAIN keys : keys[i].key # NoText /\ keys[i].username # NoText})

(* What is kept of a sensor: what its mode uses. *)
ModeFields(mode) ==
  CASE mode = "manual"   -> {"default_temp", "timeout"}
    [] mode = "i2c"      -> {"i2c_type", "i2c_addr"}
    [] mode = "internal" -> {"temp_offset", "temp_coefficient"}
    [] OTHER             -> {}
Sensor2Json(v) == [f \in {"name", "mode"} \cup ModeFields(v.mode) |-> v[f]]

(* The fields config_to_json writes: some only if they say something the   *)
(* cleared configuration does not, the mask only if it leaves one out.     *)
Filled(conf) ==
  Levels \cup {"local_echo", "led_mode", "bl_brightness", "i2c_speed", "adc_vref", "vsensors"}
    \cup {f \in Texts : conf[f] # NoText}
    \cup {f \in Unset : conf[f] > 0}
    \cup {f \in Ips : conf[f] # AnyIp}
    \cup {f \in IpLists : conf[f][1] # AnyIp}
    \cup {f \in Acls : AclList2Json(conf[f]) # << >>}
    \cup {f \in {"ssh_pubkeys"} : SshPubkeys2Json(conf[f]) # << >>}
    \cup {f \in {"http_vsensor_mask"} : conf[f] \notin {AllSensors, {}}}
OnlyFlagsThatAreSet(conf) == Filled(conf) \cup {f \in Flags : conf[f]}     \* a slip
Written(conf) == Filled(conf) \cup {f \in Flags : conf[f] # Cleared[f]}

ConfigToJson(conf) ==
  [f \in Written(conf) |->
     IF f \in IpLists THEN IpList2Json(conf[f])
     ELSE IF f \in Acls THEN AclList2Json(conf[f])
     ELSE IF f = "ssh_pubkeys" THEN SshPubkeys2Json(conf[f])
     ELSE IF f = "vsensors" THEN [i \in Sensors |-> Sensor2Json(conf[f][i])]
     ELSE conf[f]]

-----------------------------------------------------------------------------
(* json2iplist, json2acllist, json2sshpubkeys: from the start of the list *)
Json2IpList(json, len) == Padded(json, len, AnyIp)
Json2AclList(json) == Padded([i \in DOMAIN json |-> ClampedAcl(json[i])], MAX_ACL_ENTRIES, NoAcl)
Json2SshPubkeys(json) ==
  LET good == {i \in DOMAIN json : TypeIn(KeyType, json[i].key) = json[i].type}
  IN Padded(Picked(json, good), SSH_MAX_PUB_KEYS, NoPubkey)

(* One sensor of the object: its mode first, then what the mode uses. *)
Json2Sensor(json, v) ==
  LET mode == IF "mode" \in DOMAIN json THEN json.mode ELSE v.mode
      read == ({"name"} \cup ModeFields(mode)) \cap DOMAIN json
  IN [f \in DOMAIN v |-> IF f = "mode" THEN mode ELSE IF f \in read THEN json[f] ELSE v[f]]

(* json_to_config; a manual sensor's temperature becomes its default. *)
JsonToConfig(json, conf) ==
  LET sensors == IF "vsensors" \in DOMAIN json THEN DOMAIN json.vsensors \cap Sensors ELSE {}
      vsensors == [i \in Sensors |-> IF i \in sensors
                                     THEN Json2Sensor(json.vsensors[i], conf.vsensors[i])
                                     ELSE conf.vsensors[i]]
      vtemp == [i \in Sensors |-> IF i \in sensors /\ vsensors[i].mode = "manual"
                                  THEN vsensors[i].default_temp ELSE conf.vtemp[i]]
  IN [f \in DOMAIN conf |->
        IF f = "vsensors" THEN vsensors
        ELSE IF f = "vtemp" THEN vtemp
        ELSE IF f = "ntp_servers" /\ f \notin DOMAIN json /\ "ntp_server" \in DOMAIN json
        THEN [conf[f] EXCEPT ![1] = json.ntp_server]
        ELSE IF f \notin DOMAIN json THEN conf[f]
        ELSE IF f \in IpLists THEN Json2IpList(json[f], Len(conf[f]))
        ELSE IF f \in Acls THEN Json2AclList(json[f])
        ELSE IF f = "ssh_pubkeys" THEN Json2SshPubkeys(json[f])
        ELSE json[f]]

(* What a JSON object stands for has the types of the C variables: numbers  *)
(* that are not negative, lists, and entries of access lists.              *)
Typed(json) ==
  /\ \A f \in Unset \cap DOMAIN json : json[f] \in Nat
  /\ \A f \in (Acls \cup {"ssh_pubkeys"}) \cap DOMAIN json : json[f] \in Seq(ToSet(json[f]))
  /\ \A f \in Acls \cap DOMAIN json : \A acl \in ToSet(json[f]) :
       DOMAIN acl = {"ip", "prefix"} /\ acl.prefix \in Int

(* cJSON_Parse: NoJson of a text that is no JSON object *)
NoJson == [f \in {} |-> 0]
Parsed(text) == IF "raw" \in DOMAIN text THEN NoJson ELSE text

(* read_config: of what parsing the file gave, and of the built-in default *)
ReadConfig(json, default, safemode, conf) ==
  LET loaded == JsonToConfig(IF safemode \/ json = NoJson THEN default ELSE json, ClearConfig(conf))
  IN IF safemode THEN [loaded EXCEPT !.log_level = 6, !.local_echo = TRUE] ELSE loaded

-----------------------------------------------------------------------------
(* upload_config: how it takes a line, "" if it is blank: two blank lines   *)
(* end it at the start, one after that.                                    *)
BLANK_LINE_COUNT == 2
Reading == [state |-> 0, blanks |-> 0, lines |-> << >>, ended |-> FALSE]
UploadLine(r, line) ==
  LET blanks == IF line = NoText THEN r.blanks + 1 ELSE 0
  IN IF blanks >= BLANK_LINE_COUNT \/ (r.state = 1 /\ line = NoText)
     THEN [r EXCEPT !.blanks = blanks, !.ended = TRUE]
     ELSE IF line = NoText THEN [r EXCEPT !.blanks = blanks]
     ELSE [r EXCEPT !.state = 1, !.blanks = 0, !.lines = Append(@, line)]

(* Slip: cleared before the object is known to be a configuration *)
ClearsBeforeCheck(conf, json, id_ok) ==
  IF json = NoJson THEN conf
  ELSE IF id_ok THEN JsonToConfig(json, ClearConfig(conf)) ELSE ClearConfig(conf)

(* What it does with the object it parsed: only one whose "id" begins with  *)
(* "lcdpico-config-v" clears the configuration and is loaded.              *)
UploadConfig(conf, json, id_ok) ==
  IF json = NoJson \/ ~id_ok THEN conf ELSE JsonToConfig(json, ClearConfig(conf))

(* check_for_temp_changes: the previous temperatures it keeps *)
TempPrev(prev, vtemp, threshold) ==
  [i \in Sensors |-> IF CheckForChange(prev[i], vtemp[i], threshold) THEN vtemp[i] ELSE prev[i]]

=============================================================================
