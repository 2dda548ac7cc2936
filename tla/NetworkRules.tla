----------------------------- MODULE NetworkRules -----------------------------
(***************************************************************************)
(* What the network side decides without keeping state: names of link      *)
(* states and authentication types, access lists, DHCP options, keys and   *)
(* certificates, and where a log message goes (network.c, telnetd.c,       *)
(* sshd.c, dhcp.c, tls.c, syslog.c, log.c, util_net.c).                    *)
(***************************************************************************)
EXTENDS Integers, Sequences, FiniteSets, SequencesExt

(* auth_types, in its order: name and CYW43_AUTH constant. *)
AuthTypes == << << "default", "WPA2_AES_PSK" >>, << "WPA3_WPA2", "WPA3_WPA2_AES_PSK" >>,
                << "WPA3", "WPA3_SAE_AES_PSK" >>, << "WPA2", "WPA2_AES_PSK" >>,
                << "WPA2_WPA", "WPA2_MIXED_PSK" >>, << "WPA", "WPA_TKIP_PSK" >>,
                << "OPEN", "OPEN" >> >>

FirstOf(table, Holds(_), from) ==
  LET hits == {i \in from .. Len(table) : Holds(table[i])}
  IN IF hits = {} THEN 0 ELSE CHOOSE i \in hits : \A j \in hits : i <= j

(* wifi_get_auth_type: the type and whether the name is known *)
AuthType(name) ==
  LET i == FirstOf(AuthTypes, LAMBDA e : e[1] = name, 1)
  IN [type |-> IF i = 0 THEN AuthTypes[1][2] ELSE AuthTypes[i][2], known |-> i > 0]

(* wifi_auth_type_name, which passes over "default" *)
AuthTypeName(type) ==
  LET i == FirstOf(AuthTypes, LAMBDA e : e[2] = type, 2)
  IN IF i = 0 THEN "Unknown" ELSE AuthTypes[i][1]

LinkText ==
  [DOWN |-> "Link Down", JOIN |-> "Joining", NOIP |-> "No IP", UP |-> "Link Up",
   FAIL |-> "Link Fail", NONET |-> "Network Fail", BADAUTH |-> "Auth Fail",
   INACTIVE |-> "<Inactive>"]

(* wifi_status: what SYS:WIFI:STATus? answers *)
StatusReply(initialized, link, ip, netmask, gateway) ==
  << LinkText[IF initialized THEN link ELSE "INACTIVE"], ip, netmask, gateway >>

-----------------------------------------------------------------------------
(* Addresses of Width bits.  make_netmask: the first `prefix` bits. *)
Netmask(width, prefix) ==
  2^width - 2^(width - (IF prefix < width THEN prefix ELSE width))
SameNetwork(width, a, b, prefix) ==
  LET host == 2^width - Netmask(width, prefix) IN a \div host = b \div host

(* telnet_allow_connection_cb and ssh_allow_connection_cb: the loop over   *)
(* the entries, [ip, prefix], until one matches.                           *)
Scanned(width, acls, src) ==
  FoldLeft(LAMBDA st, acl :
             IF st.ret = 1 \/ acl.prefix = 0 THEN st
             ELSE [count |-> st.count + 1,
                   ret |-> IF SameNetwork(width, acl.ip, src, acl.prefix) THEN 1 ELSE 0],
           [count |-> 0, ret |-> 0], acls)
TelnetAllows(width, acls, src) ==
  LET st == Scanned(width, acls, src) IN IF st.count > 0 THEN st.ret = 1 ELSE TRUE
SshAllows(width, acls, src) ==
  LET st == Scanned(width, acls, src) IN st.count = 0 \/ st.ret = 1

(* valid_wifi_country and valid_hostname, of sequences of character classes *)
ValidWifiCountry(c) ==
  /\ Len(c) >= 2 /\ c[1] = "upper" /\ c[2] = "upper"
  /\ Len(c) = 2 \/ c[3] = "1to9"
ValidHostname(n) == \A i \in DOMAIN n : n[i] \in {"upper", "lower", "0", "1to9", "-"}

-----------------------------------------------------------------------------
(* pico_dhcp_option_add_hook: options are [code, data]; the two parameters *)
(* go to the end of option 55.                                             *)
ParameterRequest == 55
Requested == << 7, 100 >>
Rebuilt(options, type) ==
  IF type # "REQUEST" THEN options
  ELSE [i \in DOMAIN options |->
          IF options[i].code = ParameterRequest
          THEN [options[i] EXCEPT !.data = @ \o Requested] ELSE options[i]]
OptionsLength(options) == FoldLeft(LAMBDA n, o : n + 2 + Len(o.data), 0, options)

(* pico_dhcp_option_parse_hook, option 100: the zone that is put into      *)
(* effect, of `old` in the persistent block, or "" for none.               *)
ZoneOfOption(type, len, zone, configured, old) ==
  IF type = "ACK" /\ len > 0 /\ configured = "" /\ zone # old THEN zone ELSE ""

-----------------------------------------------------------------------------
(* sshserver_init: the keys ssh_get_pkey finds, each loaded or refused;    *)
(* what is left running, and the users it knows.                           *)
SshServer(ready, keys, memory, started, pubkeys) ==
  LET loaded == {k \in DOMAIN keys : keys[k] = "good"}
  IN IF ~ready \/ loaded = {} \/ ~memory \/ ~started
     THEN [listening |-> FALSE, users |-> {}]
     ELSE [listening |-> TRUE, users |-> {"password"} \cup pubkeys]

(* telnetserver_init: [listening, authenticates] *)
TelnetServer(memory, auth) == [listening |-> memory, authenticates |-> memory /\ auth]

(* tls_server_config: a configuration only from both files, and good ones *)
TlsConfig(cert, key, accepted) == cert = "read" /\ key = "read" /\ accepted

(* read_pem_file: lines are "BEGIN", "END", "text" or ""; any but BEGIN     *)
(* ends it at the start.  The loop's state and the lines it has kept.       *)
NewPem == [state |-> 0, kept |-> << >>, done |-> FALSE]
PemLine(st, line) ==
  IF st.done THEN st
  ELSE IF st.state = 0 /\ line # "BEGIN" THEN [st EXCEPT !.done = TRUE]
  ELSE LET state == IF line = "END" /\ st.state = 1 THEN 2 ELSE 1
       IN [state |-> state, kept |-> Append(st.kept, line), done |-> state = 2]
ReadPem(lines) ==
  LET st == FoldLeft(PemLine, NewPem, lines)
  IN [res |-> IF st.state = 2 THEN 1 ELSE 0, kept |-> st.kept]

-----------------------------------------------------------------------------
(* log_priorities: its place is a priority's number, from 0. *)
Priorities == << "EMERG", "ALERT", "CRIT", "ERR", "WARNING", "NOTICE", "INFO", "DEBUG" >>
Str2LogPriority(name) == FirstOf(Priorities, LAMBDA p : p = name, 1) - 1
LogPriority2Str(pri) == IF pri \in 0 .. 7 THEN Priorities[pri + 1] ELSE "NULL"

Facilities == << "KERN", "USER", "MAIL", "DAEMON", "AUTH", "SYSLOG", "LPR", "NEWS",
                 "UUCP", "CRON", "AUTHPRIV", "FTP", "LOCAL0", "LOCAL1", "LOCAL2",
                 "LOCAL3", "LOCAL4", "LOCAL5", "LOCAL6", "LOCAL7" >>
FacilityNumber(name) ==
  LET i == FirstOf(Facilities, LAMBDA f : f = name, 1)
  IN IF i <= 12 THEN i - 1 ELSE i + 3      \* LOCAL0 is 16

(* log_msg: where a message goes; syslog_msg drops it without a client or  *)
(* without a clock.                                                        *)
LogRoute(pri, log_level, syslog_level) ==
  (IF pri <= log_level THEN {"console"} ELSE {})
    \cup (IF pri <= syslog_level THEN {"syslog"} ELSE {})
SyslogMsg(client, clock) == IF ~client THEN 1 ELSE IF ~clock THEN 2 ELSE 0
PriorityField(facility, severity) == 8 * facility + (severity % 8)

(* syslog_init: what is left after each step may have failed *)
SyslogInit(memory, pcb, bound, connected) ==
  IF memory /\ pcb /\ bound /\ connected
  THEN [context |-> TRUE, pcbs |-> 1] ELSE [context |-> FALSE, pcbs |-> 0]

(* debug() *)
DebugPrinted(level, debug_level) == level <= debug_level

=============================================================================
