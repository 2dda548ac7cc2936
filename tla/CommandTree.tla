----------------------------- MODULE CommandTree -----------------------------
(***************************************************************************)
(* The tree of SCPI commands (command.c) and the walk of run_cmd through    *)
(* it (command_util.c).                                                    *)
(*                                                                         *)
(* A row of a table is << word, subcommands, handler >>: of the word only   *)
(* its first min_match characters, which are all that run_cmd compares, in  *)
(* capitals; the name of a table, or "" for NULL; the function without its  *)
(* "cmd_", or "" for NULL.  A segment of what the user typed is             *)
(* [w, n, q]: its text in capitals, the numbers that end it (None or        *)
(* << n >>) and whether a "?" does.                                        *)
(***************************************************************************)
EXTENDS Integers, Sequences, SequencesExt

MAX_CMD_DEPTH == 16
None == << >>
NULL == ""                  \* in a row; the tables below spell it out

LfsCommands ==
  << << "COPY", "", "lfs_copy" >>, << "DEL", "", "lfs_del" >>,
     << "DIR", "", "lfs_dir" >>, << "FORMAT", "", "lfs_format" >>,
     << "REN", "", "lfs_ren" >> >>

WifiCommands ==
  << << "AUTH", "", "wifi_auth_mode" >>, << "COU", "", "wifi_country" >>,
     << "GATE", "", "wifi_gateway" >>, << "HOST", "", "wifi_hostname" >>,
     << "IP", "", "wifi_ip" >>, << "MAC", "", "wifi_mac" >>,
     << "NETM", "", "wifi_netmask" >>, << "DNS", "", "wifi_dns" >>,
     << "NTPC", "", "wifi_ntp_client" >>, << "NTP", "", "wifi_ntp" >>,
     << "MODE", "", "wifi_mode" >>, << "PASS", "", "wifi_password" >>,
     << "REJOIN", "", "wifi_rejoin" >>, << "SSID", "", "wifi_ssid" >>,
     << "STATS", "", "wifi_stats" >>, << "STAT", "", "wifi_status" >>,
     << "INFO", "", "wifi_info" >>, << "SYSLOGC", "", "wifi_syslog_client" >>,
     << "SYSLOG", "", "wifi_syslog" >> >>

HttpCommands ==
  << << "MASK", "http_mask", "" >>, << "PORT", "", "http_port" >>,
     << "TLSPORT", "", "http_tlsport" >>, << "SERV", "", "http_server" >> >>
HttpMaskCommands == << << "VSENSOR", "", "http_mask_vsensor" >> >>

SshCommands ==
  << << "ACL", "", "ssh_acls" >>, << "AUTH", "", "ssh_auth" >>,
     << "PORT", "", "ssh_port" >>, << "SERV", "", "ssh_server" >>,
     << "PASS", "", "ssh_pass" >>, << "USER", "", "ssh_user" >>,
     << "KEY", "ssh_pkey", "ssh_pkey" >>, << "PUBKEY", "ssh_pubkey", "ssh_pubkey" >> >>
SshPkeyCommands ==
  << << "CRE", "", "ssh_pkey_create" >>, << "DEL", "", "ssh_pkey_del" >>,
     << "LIST", "", "ssh_pkey" >> >>
SshPubkeyCommands ==
  << << "ADD", "", "ssh_pubkey_add" >>, << "DEL", "", "ssh_pubkey_del" >>,
     << "LIST", "", "ssh_pubkey" >> >>

TelnetCommands ==
  << << "ACL", "", "telnet_acls" >>, << "AUTH", "", "telnet_auth" >>,
     << "PORT", "", "telnet_port" >>, << "RAW", "", "telnet_rawmode" >>,
     << "SERV", "", "telnet_server" >>, << "PASS", "", "telnet_pass" >>,
     << "USER", "", "telnet_user" >> >>

TlsCommands == << << "CERT", "", "tls_cert" >>, << "PKEY", "", "tls_pkey" >> >>
I2cCommands == << << "SCAN", "", "i2c_scan" >>, << "SPEED", "", "i2c_speed" >> >>

SystemCommands ==
  << << "BOARD", "", "board" >>, << "ECHO", "", "echo" >>, << "ERR", "", "err" >>,
     << "FLASH", "", "flash" >>, << "I2C", "i2c", "i2c" >>, << "LED", "", "led" >>,
     << "BACKL", "", "backlight" >>, << "LFS", "lfs", "lfs" >>,
     << "LOG", "", "log_level" >>, << "MEMTEST", "", "memtest" >>,
     << "MEM", "", "memory" >>, << "NAME", "", "name" >>,
     << "SYSLOG", "", "syslog_level" >>, << "TIMEZONE", "", "timezone" >>,
     << "TIME", "", "time" >>, << "UPGRADE", "", "usb_boot" >>,
     << "UPTI", "", "uptime" >>, << "VER", "", "version" >>,
     << "VREF", "", "adc_vref" >>, << "VSENSORS", "", "vsensors" >>,
     << "WIFI", "wifi", "wifi" >>, << "IFCONFIG", "", "wifi_info" >>,
     << "HTTP", "http", "" >>, << "TELNET", "telnet", "" >>,
     << "SSH", "ssh", "" >>, << "TLS", "tls", "" >> >>

ConfigCommands ==
  << << "DEL", "", "delete_config" >>, << "R", "", "print_config" >>,
     << "SAV", "", "save_config" >>, << "UPLOAD", "", "upload_config" >>,
     << "VSENSORS", "vsensors_c", "vsensors_sources" >>,
     << "VSENSOR", "vsensor_c", "" >> >>
VsensorCCommands == << << "NAME", "", "vsensor_name" >>, << "SOU", "", "vsensor_source" >> >>
VsensorsCCommands == << << "SOU", "", "vsensors_sources" >> >>

MeasureCommands ==
  << << "R", "", "read" >>, << "M", "", "main" >>, << "ANN", "", "annunciators" >>,
     << "VSENSORS", "", "vsensors_read" >>, << "VSENSOR", "vsensor", "vsensor_temp" >> >>
VsensorCommands ==
  << << "HUM", "", "vsensor_humidity" >>, << "PRE", "", "vsensor_pressure" >>,
     << "R", "", "vsensor_temp" >>, << "TEMP", "", "vsensor_temp" >> >>
WriteCommands == << << "VSENSOR", "", "vsensor_write" >> >>

RootCommands ==
  << << "*CLS", "", "null" >>, << "*ESE", "", "null" >>, << "*ESR", "", "zero" >>,
     << "*IDN", "", "idn" >>, << "*OPC", "", "one" >>, << "*RST", "", "reset" >>,
     << "*SRE", "", "zero" >>, << "*STB", "", "zero" >>, << "*TST", "", "zero" >>,
     << "*WAI", "", "null" >>, << "CONF", "config", "print_config" >>,
     << "D", "", "debug" >>, << "EXIT", "", "exit" >>, << "MEA", "measure", "" >>,
     << "SYS", "system", "" >>, << "R", "", "read" >>, << "WHO", "", "who" >>,
     << "WRI", "write", "" >> >>

Tables ==
  [commands |-> RootCommands, config |-> ConfigCommands, system |-> SystemCommands,
   measure |-> MeasureCommands, write |-> WriteCommands, vsensor |-> VsensorCommands,
   vsensor_c |-> VsensorCCommands, vsensors_c |-> VsensorsCCommands, lfs |-> LfsCommands,
   wifi |-> WifiCommands, http |-> HttpCommands, http_mask |-> HttpMaskCommands,
   ssh |-> SshCommands, ssh_pkey |-> SshPkeyCommands, ssh_pubkey |-> SshPubkeyCommands,
   telnet |-> TelnetCommands, tls |-> TlsCommands, i2c |-> I2cCommands]

-----------------------------------------------------------------------------
Matches(s, row) ==
  /\ Len(s.w) >= Len(row[1])
  /\ SubSeq(s.w, 1, Len(row[1])) = row[1]

(* Found: the first row of the table that matches, in a sequence, or none *)
Found(level, s) ==
  LET hits == {i \in DOMAIN Tables[level] : Matches(s, Tables[level][i])}
  IN IF hits = {} THEN << >>
     ELSE << Tables[level][CHOOSE i \in hits : \A j \in hits : i <= j] >>

(* One turn of run_cmd's loop over the segments, `more` if one follows.    *)
(* A row without subcommands runs its handler even if a segment follows,   *)
(* and the loop goes on with that one at the same level.                   *)
Down(st, s, row) ==
  [st EXCEPT !.level = row[2],
             !.stack = IF Len(@) < MAX_CMD_DEPTH THEN Append(@, s) ELSE @]
Call(st, s, row) ==
  [st EXCEPT !.calls = Append(@, [func |-> row[3], s |-> s, stack |-> st.stack])]
Turn(st, s, more) ==
  IF st.stopped THEN st
  ELSE LET found == Found(st.level, s)
       IN IF found = << >> THEN [st EXCEPT !.stopped = TRUE]
          ELSE IF found[1][2] # NULL /\ more THEN Down(st, s, found[1])
          ELSE IF found[1][3] # NULL THEN Call(st, s, found[1])
          ELSE st

(* run_cmd: the level it leaves, and the handlers it runs, in order.  A    *)
(* command is [root, segs, arg], root if it begins with ":" or "*".  The   *)
(* stack it starts with is the caller's: process_command empties it.       *)
RunCmd(cmd, cmd_level, cmd_stack) ==
  LET start == [level |-> IF cmd.root THEN "commands" ELSE cmd_level,
                stack |-> IF cmd.root THEN << >> ELSE cmd_stack,
                calls |-> << >>, stopped |-> FALSE]
      turned[i \in 0 .. Len(cmd.segs)] ==
        IF i = 0 THEN start ELSE Turn(turned[i - 1], cmd.segs[i], i < Len(cmd.segs))
  IN turned[Len(cmd.segs)]

(* What a handler's result is as an SCPI error; no handler ran: -1 *)
ErrorNum(res) ==
  IF res < 0 THEN -113
  ELSE CASE res = 0 -> 0 [] res = 1 -> -100 [] res = 2 -> -102 [] OTHER -> -1

(* get_cmd_index, get_prev_cmd and get_prev_cmd_index with depth 0 *)
GetCmdIndex(s) == IF s.n = None THEN -3 ELSE s.n[1]
GetPrevCmd(stack) == IF stack = << >> THEN [w |-> NULL, n |-> None, q |-> FALSE] ELSE Last(stack)
GetPrevCmdIndex(stack) == IF stack = << >> THEN -2 ELSE GetCmdIndex(Last(stack))

(* error_codes: what SYS:ERR? finds for a number; it clears what it found. *)
ErrorText == [n \in {0, -100, -102, -113} |->
                CASE n = 0 -> "No Error" [] n = -100 -> "Command Error"
                  [] n = -102 -> "Syntax Error" [] OTHER -> "Undefined Header"]

=============================================================================
