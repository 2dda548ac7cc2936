------------------------------- MODULE Network -------------------------------
(***************************************************************************)
(* The Wi-Fi link as core 0 sees it (network.c, dhcp.c, syslog.c and the   *)
(* boot and main loop of lcd-pico.c): wifi_init, the callbacks of the      *)
(* TCP/IP stack, which interrupt the main program, the poll that joins     *)
(* again when the link has failed, the log server and the watchdog.        *)
(*                                                                         *)
(* The radio and the stack are external: they move `link` as               *)
(* cyw43_tcpip_link_status reports it and call back as lwIP does.  A tick   *)
(* is four seconds.                                                        *)
(***************************************************************************)
EXTENDS Integers, Sequences, FiniteSets

CONSTANTS
  Configs,       (* configurations the unit may boot with                  *)
  LogServer,     (* addresses of log servers                               *)
  Any,           (* 0.0.0.0                                                *)
  RejoinDelay,   (* WIFI_REJOIN_DELAY in ticks, 10 s                       *)
  ConnectTime,   (* ticks of a synchronous attempt, 10 s                   *)
  WatchdogDelay  (* WATCHDOG_REBOOT_DELAY in ticks, 8 s                    *)

(* What a configuration sets, of what matters here. *)
Setting == {"ssid", "passwd", "open", "sync", "static", "syslog", "ntp",
            "ntp_server", "http", "telnet", "ssh"}

ASSUME NetworkAssumption ==
  /\ Configs \subseteq [on : SUBSET Setting, syslog_server : LogServer \cup {Any}]
  /\ Any \notin LogServer
  /\ RejoinDelay \in Nat \ {0} /\ ConnectTime \in Nat \ {0}
  /\ WatchdogDelay \in Nat \ {0}

Link == {"DOWN", "JOIN", "NOIP", "UP", "FAIL", "NONET", "BADAUTH"}
Associating == {"JOIN", "NOIP"}
Joined == Associating \cup {"UP"}
Booting == {"wifi_init", "interface", "mac", "connect", "connecting",
            "services", "log_server"}
Main == {"loop", "check", "rejoin"}
Servers == {"ntp", "http", "telnet", "ssh"}
NoContext == "NULL"

VARIABLES
  cfg,                   (* [on, syslog_server]                            *)
  pc,                    (* where core 0's main program is                 *)
  link, addressed,       (* the radio's link; the interface has an address *)
  net_state,             (* [wifi_status, netif_up, syslog_server]         *)
  since,                 (* ticks since wifi_status_change, saturated      *)
  wifi_initialized, network_initialized,
  syslog,                (* the log client's server, or no client          *)
  servers,               (* those that were started                        *)
  seen,                  (* `status` of the poll's wifi_check_status       *)
  due,                   (* wifi_status_check_t has run out                *)
  attempt,               (* [left, age] of the synchronous attempt         *)
  watchdog,              (* ticks left                                     *)
  asked,                 (* the user gave a command in this tick: one each *)
  rested                 (* history: ticks since an attempt to join began,  *)
                         (* by whomever, or since the link was up          *)

radio == << link, addressed >>
inits == << wifi_initialized, network_initialized >>
vars == << cfg, pc, link, addressed, net_state, since, wifi_initialized,
           network_initialized, syslog, servers, seen, due, attempt,
           watchdog, asked, rested >>

-----------------------------------------------------------------------------
(* Slips. *)
HookIgnoresConfig(ns, server) == [ns EXCEPT !.syslog_server = server]
RejoinForgetsTime == since
OnlyWhenNew(ns, status) ==         \* a known failure is not forgotten
  IF ns.wifi_status = "INACTIVE" THEN [ns EXCEPT !.wifi_status = status] ELSE ns
NeverFromJoin(status) == status \in {"DOWN", "FAIL"} /\ since >= RejoinDelay

-----------------------------------------------------------------------------
(* wifi_check_status, up to the question of joining again. *)
Noted(ns, status) == [ns EXCEPT !.wifi_status = status]
SinceNoted(status) == IF status = net_state.wifi_status THEN since ELSE 0

Longest == 3 * RejoinDelay
Patience(status) == IF status \in Associating THEN Longest ELSE RejoinDelay
FailedLong(status) == status # "UP" /\ since >= Patience(status)

(* wifi_link_cb *)
LinkCallback(status) ==
  /\ net_state' = Noted(net_state, status)
  /\ since' = SinceNoted(status)
  /\ UNCHANGED << network_initialized, syslog >>

(* wifi_status_cb of an interface that is up: the first call opens the log *)
(* client, if the server is known by then.                                 *)
StatusCallback(ns, status) ==
  /\ net_state' = [Noted(ns, status) EXCEPT !.netif_up = TRUE]
  /\ since' = SinceNoted(status)
  /\ network_initialized' = TRUE
  /\ syslog' = IF /\ ~network_initialized
                  /\ "syslog" \in cfg.on /\ ns.syslog_server # Any
               THEN ns.syslog_server ELSE syslog

(* pico_dhcp_option_parse_hook, option 7. *)
UseLogServer(ns, server) ==
  IF cfg.syslog_server = Any THEN [ns EXCEPT !.syslog_server = server] ELSE ns

-----------------------------------------------------------------------------
(* main, before setup2. *)
Blank == [wifi_status |-> "INACTIVE", netif_up |-> FALSE, syslog_server |-> Any]
NoAttempt == [left |-> 0, age |-> 0]

Init ==
  /\ cfg \in Configs
  /\ pc = "wifi_init"
  /\ link = "DOWN" /\ addressed = FALSE
  /\ net_state = Blank /\ since = 0
  /\ wifi_initialized = FALSE /\ network_initialized = FALSE
  /\ syslog = NoContext
  /\ servers = {}
  /\ seen = "DOWN" /\ due = TRUE
  /\ attempt = NoAttempt
  /\ watchdog = WatchdogDelay
  /\ asked = FALSE
  /\ rested = Longest

Goto(from, to) == pc = from /\ pc' = to

(* cyw43_arch_init_with_country; an error ends wifi_init. *)
ArchInit ==
  /\ pc = "wifi_init" /\ pc' \in {"interface", "loop"}
  /\ UNCHANGED << cfg, radio, net_state, since, inits, syslog, servers, seen,
                  due, attempt, watchdog, asked, rested >>

(* The callbacks are set; a static address calls wifi_status_cb at once,   *)
(* in this context.                                                        *)
Interface ==
  /\ Goto("interface", "mac")
  /\ IF "static" \in cfg.on
     THEN addressed' = TRUE /\ StatusCallback(net_state, link)
     ELSE UNCHANGED << addressed, net_state, since, network_initialized, syslog >>
  /\ UNCHANGED << cfg, link, wifi_initialized, servers, seen, due, attempt,
                  watchdog, asked, rested >>

GetMac ==
  /\ pc = "mac" /\ pc' \in {"connect", "loop"}
  /\ UNCHANGED << cfg, radio, net_state, since, inits, syslog, servers, seen,
                  due, attempt, watchdog, asked, rested >>

HasCredentials == "ssid" \in cfg.on /\ cfg.on \cap {"passwd", "open"} # {}

Connect ==
  /\ pc = "connect"
  /\ \/ /\ ~HasCredentials
        /\ pc' = "loop"
        /\ UNCHANGED << link, attempt >>
     \/ /\ HasCredentials /\ "sync" \notin cfg.on
        /\ \/ pc' = "services" /\ link' = "JOIN"
           \/ pc' = "loop" /\ UNCHANGED link       \* connect_async failed
        /\ UNCHANGED attempt
     \/ /\ HasCredentials /\ "sync" \in cfg.on
        /\ pc' = "connecting" /\ link' = "JOIN"
        /\ attempt' = [left |-> 2, age |-> 0]
  /\ rested' = IF link' = "JOIN" THEN 0 ELSE rested
  /\ UNCHANGED << cfg, addressed, net_state, since, inits, syslog, servers,
                  seen, due, watchdog, asked >>

(* cyw43_arch_wifi_connect_timeout_ms returns; the loop around it. *)
Connected ==
  /\ pc = "connecting"
  /\ \/ /\ link = "UP"
        /\ pc' = "services"
        /\ UNCHANGED << link, attempt, rested >>
     \/ /\ link # "UP"
        /\ link \in {"FAIL", "BADAUTH"} \/ attempt.age = ConnectTime
        /\ attempt' = [left |-> attempt.left - 1, age |-> 0]
        /\ IF attempt.left > 1
           THEN link' = "JOIN" /\ rested' = 0 /\ UNCHANGED pc
           ELSE pc' = "loop" /\ UNCHANGED << link, rested >>
  /\ UNCHANGED << cfg, addressed, net_state, since, inits, syslog, servers,
                  seen, due, watchdog, asked >>

(* SNTP and the servers the configuration asks for.  SSH and Telnet may    *)
(* fail to start (no memory, no key); nothing is told of it.               *)
Services ==
  /\ Goto("services", "log_server")
  /\ wifi_initialized' = TRUE
  /\ \E failed \in SUBSET {"telnet", "ssh"} :
        servers' = (cfg.on \cap Servers) \ failed
  /\ UNCHANGED << cfg, radio, net_state, since, network_initialized, syslog,
                  seen, due, attempt, watchdog, asked, rested >>

(* The last lines of wifi_init: also over a server DHCP has given. *)
CopyLogServer ==
  /\ Goto("log_server", "loop")
  /\ net_state' = IF "syslog" \in cfg.on
                  THEN [net_state EXCEPT !.syslog_server = cfg.syslog_server]
                  ELSE net_state
  /\ UNCHANGED << cfg, radio, since, inits, syslog, servers, seen, due,
                  attempt, watchdog, asked, rested >>

Boot == \/ ArchInit \/ Interface \/ GetMac \/ Connect \/ Connected
        \/ Services \/ CopyLogServer

-----------------------------------------------------------------------------
(* The main loop: wifi_poll.  The callbacks may come between the link      *)
(* status it reads and the one it stores.                                  *)
PollRead ==
  /\ Goto("loop", "check")
  /\ wifi_initialized /\ due
  /\ seen' = link
  /\ due' = FALSE
  /\ UNCHANGED << cfg, radio, net_state, since, inits, syslog, servers,
                  attempt, watchdog, asked, rested >>

PollCheck ==
  /\ pc = "check"
  /\ net_state' = Noted(net_state, seen)
  /\ since' = SinceNoted(seen)
  /\ pc' = IF seen = net_state.wifi_status /\ FailedLong(seen)
           THEN "rejoin" ELSE "loop"
  /\ UNCHANGED << cfg, radio, inits, syslog, servers, seen, due, attempt,
                  watchdog, asked, rested >>

(* cmd_wifi_rejoin *)
CommandRejoin ==
  /\ Goto("loop", "rejoin")
  /\ wifi_initialized
  /\ ~asked /\ asked' = TRUE
  /\ UNCHANGED << cfg, radio, net_state, since, inits, syslog, servers, seen,
                  due, attempt, watchdog, rested >>

Stamp == 0

(* wifi_rejoin *)
Rejoin ==
  /\ Goto("rejoin", "loop")
  /\ since' = Stamp
  /\ rested' = 0
  /\ IF HasCredentials
     THEN link' \in {"JOIN", IF link \in Joined THEN "DOWN" ELSE link}
     ELSE UNCHANGED link
  /\ UNCHANGED << cfg, addressed, net_state, inits, syslog, servers, seen, due,
                  attempt, watchdog, asked >>

(* SYS:WIFI:SSID, :PASSword and :AUTHmode *)
CommandCredentials ==
  /\ pc = "loop"
  /\ ~asked /\ asked' = TRUE
  /\ \E s \in {"ssid", "passwd"} :
        cfg' = [cfg EXCEPT !.on = IF s \in @ THEN @ \ {s} ELSE @ \cup {s}]
  /\ UNCHANGED << pc, radio, net_state, since, inits, syslog, servers, seen,
                  due, attempt, watchdog, rested >>

Loop == PollRead \/ PollCheck \/ Rejoin

-----------------------------------------------------------------------------
(* The radio and the stack, in an interrupt of core 0 once the callbacks   *)
(* are set.                                                                *)
Heard == pc \notin {"wifi_init", "interface"}

Associate ==
  /\ Heard /\ link = "JOIN"
  /\ link' = IF addressed THEN "UP" ELSE "NOIP"
  /\ LinkCallback(link')
  /\ rested' = IF link' = "UP" THEN 0 ELSE rested
  /\ UNCHANGED << cfg, pc, addressed, wifi_initialized, servers, seen, due,
                  attempt, watchdog, asked >>

JoinFails ==            \* the driver calls nobody
  /\ Heard /\ link = "JOIN"
  /\ link' \in {"FAIL", "NONET", "BADAUTH"}
  /\ UNCHANGED << cfg, pc, addressed, net_state, since, inits, syslog, servers,
                  seen, due, attempt, watchdog, asked, rested >>

Lose ==
  /\ Heard /\ link \in {"NOIP", "UP"}
  /\ link' = "DOWN"
  /\ LinkCallback("DOWN")
  /\ UNCHANGED << cfg, pc, addressed, wifi_initialized, servers, seen, due,
                  attempt, watchdog, asked, rested >>

(* An acknowledgement, with a log server or without: its options are       *)
(* parsed first.  A new address calls wifi_status_cb.                      *)
Lease ==
  /\ Heard /\ link \in {"NOIP", "UP"} /\ "static" \notin cfg.on
  /\ link' = "UP" /\ addressed' = TRUE
  /\ \E server \in LogServer \cup {Any}, moved \in BOOLEAN :
       LET ns == IF server = Any THEN net_state ELSE UseLogServer(net_state, server)
       IN IF addressed /\ ~moved
          THEN /\ net_state' = ns
               /\ UNCHANGED << since, network_initialized, syslog >>
          ELSE StatusCallback(ns, "UP")
  /\ rested' = 0
  /\ UNCHANGED << cfg, pc, wifi_initialized, servers, seen, due, attempt,
                  watchdog, asked >>

Stack == Associate \/ JoinFails \/ Lose \/ Lease

-----------------------------------------------------------------------------
(* Time.  The main loop polls and feeds the watchdog before a tick is over; *)
(* only a synchronous connection takes longer than that in wifi_init.      *)
Later(t) == IF t < Longest THEN t + 1 ELSE t

Tick ==
  /\ \/ pc = "loop" /\ ~(wifi_initialized /\ due) /\ watchdog' = WatchdogDelay
     \/ pc = "connecting" /\ watchdog > 0 /\ attempt.age < ConnectTime
        /\ watchdog' = watchdog - 1
  /\ attempt' = IF pc = "connecting" THEN [attempt EXCEPT !.age = @ + 1]
                                     ELSE attempt
  /\ since' = Later(since)
  /\ rested' = IF link = "UP" THEN 0 ELSE Later(rested)
  /\ due' = TRUE
  /\ asked' = FALSE
  /\ UNCHANGED << cfg, pc, radio, net_state, inits, syslog, servers, seen >>

(* The watchdog resets the unit; main starts again. *)
Reboot ==
  /\ watchdog = 0
  /\ pc' = "wifi_init"
  /\ link' = "DOWN" /\ addressed' = FALSE
  /\ net_state' = Blank /\ since' = 0
  /\ wifi_initialized' = FALSE /\ network_initialized' = FALSE
  /\ syslog' = NoContext
  /\ servers' = {}
  /\ seen' = "DOWN" /\ due' = TRUE
  /\ attempt' = NoAttempt
  /\ watchdog' = WatchdogDelay
  /\ asked' = FALSE
  /\ rested' = Longest
  /\ UNCHANGED cfg

Next == /\ watchdog > 0 /\ (\/ Boot \/ Loop \/ CommandRejoin
                            \/ CommandCredentials \/ Stack \/ Tick)
        \/ Reboot

Spec == Init /\ [][Next]_vars

(* Core 0 runs on and time passes; nothing is asked of the network. *)
NetworkFair == /\ WF_vars(watchdog > 0 /\ (Boot \/ Loop))
               /\ WF_vars(watchdog > 0 /\ Tick)
               /\ WF_vars(Reboot)

FairSpec == Spec /\ NetworkFair

-----------------------------------------------------------------------------
(* Properties. *)

(* The log client is opened once in a boot and keeps its server; a server  *)
(* of the configuration is never replaced by one DHCP offers, whatever the *)
(* order of leases, callbacks and the end of wifi_init (syslog.c, dhcp.c). *)
LogClientStands ==
  [][(syslog' # syslog /\ watchdog > 0) =>
        /\ syslog = NoContext
        /\ cfg.syslog_server # Any => syslog' = cfg.syslog_server]_vars

(* The unit decides by itself to join again only when no attempt has begun *)
(* - the boot's, a user's or its own - and the link has not been up for    *)
(* WIFI_REJOIN_DELAY, and for three times that when it has seen a join     *)
(* under way, whatever the order of callbacks and polls (wifi_check_status;*)
(* a user's rejoin need not wait, and nothing looks at the link once more  *)
(* between the decision and wifi_rejoin).                                  *)
RejoinsPaced ==
  [][(pc = "check" /\ pc' = "rejoin") => rested >= Patience(seen)]_vars

(* Once the link stays up the status shown settles on it, although the     *)
(* poll may store a status older than the one a callback has stored.       *)
StatusFollows ==
  <>[](link = "UP" /\ wifi_initialized /\ pc \in Main)
     => <>[](net_state.wifi_status = "UP")

(* A unit that reached its servers never gives up: a link that is not up   *)
(* comes up or is joined again, as long as there are credentials           *)
(* (commands.md, SYStem:WIFI:REJOIN).                                      *)
KeepsTrying ==
  (wifi_initialized /\ link # "UP")
     ~> (link = "UP" \/ pc = "rejoin" \/ ~HasCredentials)

(* "could cause LcdPico to hang for up to 60 seconds during boot up"       *)
(* (commands.md, SYStem:WIFI:MODE): the boot comes to its end.             *)
BootEnds == <>(pc = "loop")

=============================================================================
