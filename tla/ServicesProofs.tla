----------------------------- MODULE ServicesProofs -----------------------------
(***************************************************************************)
(* Proofs about what core 0 does besides commands and pages, of components *)
(* that share no variable.                                                 *)
(*                                                                         *)
(* The Wi-Fi link and the log client, for any configurations, log servers   *)
(* and delays: core 0's main program and the callbacks of the stack store   *)
(* into the same net_state in any order; NetworkInv says what none of       *)
(* those orders can break.                                                 *)
(*                                                                         *)
(* The sensors, for any number of them, any sources and any number of       *)
(* commands, that a value written to a manual sensor stays: WriteInv is     *)
(* inductive.  Until the value has had its time, the reading is as old as   *)
(* the write, unless an update of it changes nothing.                      *)
(***************************************************************************)
EXTENDS Network, Sensors, WellFoundedInduction, TLAPS


(* Before the interface has come up for the first time there is no client, *)
(* and a configured server is never displaced: by then it is not copied or *)
(* is the one in net_state.                                                *)
ClientInv ==
  /\ ~network_initialized => syslog = NoContext
  /\ cfg.syslog_server # Any => net_state.syslog_server \in {Any, cfg.syslog_server}

Shape ==
  /\ cfg \in [on : SUBSET Setting, syslog_server : LogServer \cup {Any}]
  /\ net_state \in [wifi_status : Link \cup {"INACTIVE"}, netif_up : BOOLEAN,
                    syslog_server : LogServer \cup {Any}]
  /\ link \in Link /\ seen \in Link
  /\ since \in 0 .. Longest /\ rested \in 0 .. Longest
  /\ network_initialized \in BOOLEAN

NetworkInv == Shape /\ ClientInv

LEMMA LongestIsLonger == Longest \in Nat /\ RejoinDelay < Longest
BY NetworkAssumption DEF Longest

LEMMA BlankState ==
  /\ Blank \in [wifi_status : Link \cup {"INACTIVE"}, netif_up : BOOLEAN,
                syslog_server : LogServer \cup {Any}]
  /\ Blank.syslog_server = Any
  /\ "DOWN" \in Link
BY DEF Blank, Link

LEMMA NetworkStart == Init => NetworkInv
<1> SUFFICES ASSUME Init PROVE NetworkInv
  OBVIOUS
<1> USE NetworkAssumption, LongestIsLonger, BlankState DEF Init
<1>1. cfg \in [on : SUBSET Setting, syslog_server : LogServer \cup {Any}]
  OBVIOUS
<1>2. since \in 0 .. Longest /\ rested \in 0 .. Longest
  OBVIOUS
<1>3. Shape
  BY <1>1, <1>2 DEF Shape
<1>4. ClientInv
  BY DEF ClientInv
<1> QED BY <1>3, <1>4 DEF NetworkInv

(* What both callbacks and the poll do to the status and its clock. *)
LEMMA NotedKeeps ==
  ASSUME NetworkInv, NEW status \in Link
  PROVE  /\ Noted(net_state, status) \in
              [wifi_status : Link \cup {"INACTIVE"}, netif_up : BOOLEAN,
               syslog_server : LogServer \cup {Any}]
         /\ Noted(net_state, status).syslog_server = net_state.syslog_server
         /\ SinceNoted(status) \in 0 .. Longest
BY LongestIsLonger DEF NetworkInv, Shape, Noted, SinceNoted

(* A call of wifi_status_cb, with the server that DHCP has just offered or *)
(* with that of before.                                                    *)
LEMMA CallbackKeeps ==
  ASSUME NetworkInv, NEW status \in Link,
         NEW ns, ns \in [wifi_status : Link \cup {"INACTIVE"}, netif_up : BOOLEAN,
                         syslog_server : LogServer \cup {Any}],
         cfg.syslog_server # Any => ns.syslog_server \in {Any, cfg.syslog_server},
         StatusCallback(ns, status), UNCHANGED << cfg, seen >>, link' \in Link,
         rested' \in 0 .. Longest
  PROVE  NetworkInv' /\ (syslog' # syslog => /\ syslog = NoContext
                                             /\ cfg.syslog_server # Any
                                                  => syslog' = cfg.syslog_server)
<1>1. net_state' \in [wifi_status : Link \cup {"INACTIVE"}, netif_up : BOOLEAN,
                      syslog_server : LogServer \cup {Any}]
  BY DEF StatusCallback, Noted
<1>2. net_state'.syslog_server = ns.syslog_server
  BY DEF StatusCallback, Noted
<1>3. since' \in 0 .. Longest
  BY NotedKeeps DEF StatusCallback
<1>4. network_initialized' = TRUE
  BY DEF StatusCallback
<1>5. syslog' # syslog => /\ syslog = NoContext
                          /\ cfg.syslog_server # Any => syslog' = cfg.syslog_server
  BY DEF StatusCallback, NetworkInv, ClientInv, Shape
<1>6. Shape'
  BY <1>1, <1>3, <1>4 DEF NetworkInv, Shape
<1>7. ClientInv'
  BY <1>2, <1>4 DEF ClientInv
<1> QED BY <1>5, <1>6, <1>7 DEF NetworkInv

ClientStands ==
  syslog' # syslog => /\ syslog = NoContext
                      /\ cfg.syslog_server # Any => syslog' = cfg.syslog_server

LEMMA NetworkStep ==
  ASSUME NetworkInv, [Next]_vars
  PROVE  NetworkInv' /\ (watchdog > 0 => ClientStands)
<1> USE NetworkAssumption, LongestIsLonger DEF inits, radio
<1> DEFINE Goal == NetworkInv' /\ (watchdog > 0 => ClientStands)
<1>1. CASE UNCHANGED vars
  BY <1>1 DEF vars, NetworkInv, Shape, ClientInv, ClientStands
<1>2. ASSUME UNCHANGED << cfg, net_state, since, network_initialized, syslog >>,
             link' \in Link, seen' \in Link, rested' \in {0, rested}
      PROVE  Goal
  BY <1>2 DEF NetworkInv, Shape, ClientInv, ClientStands
<1>3. NetworkInv => link \in Link /\ seen \in Link
  BY DEF NetworkInv, Shape
<1>4. CASE ArchInit
  BY <1>2, <1>3, <1>4 DEF ArchInit
<1>5. CASE Interface
  <2>1. CASE "static" \in cfg.on
    <3>1. StatusCallback(net_state, link)
      BY <1>5, <2>1 DEF Interface
    <3> QED BY <1>3, <1>5, <3>1, CallbackKeeps
            DEF Interface, ClientStands, NetworkInv, Shape, ClientInv
  <2>2. CASE "static" \notin cfg.on
    BY <1>2, <1>3, <1>5, <2>2 DEF Interface
  <2> QED BY <2>1, <2>2
<1>6. CASE GetMac
  BY <1>2, <1>3, <1>6 DEF GetMac
<1>7. CASE Connect
  BY <1>2, <1>3, <1>7 DEF Connect, Link
<1>8. CASE Connected
  BY <1>2, <1>3, <1>8 DEF Connected, Link
<1>9. CASE Services
  BY <1>2, <1>3, <1>9 DEF Services
<1>10. CASE CopyLogServer
  <2>1. net_state' \in [wifi_status : Link \cup {"INACTIVE"}, netif_up : BOOLEAN,
                        syslog_server : LogServer \cup {Any}]
    BY <1>10 DEF CopyLogServer, NetworkInv, Shape
  <2>2. cfg.syslog_server # Any => net_state'.syslog_server \in {Any, cfg.syslog_server}
    BY <1>10 DEF CopyLogServer, NetworkInv, Shape, ClientInv
  <2> QED BY <1>10, <2>1, <2>2
          DEF CopyLogServer, NetworkInv, Shape, ClientInv, ClientStands
<1>11. CASE PollRead
  BY <1>2, <1>3, <1>11 DEF PollRead
<1>12. CASE PollCheck
  <2>1. /\ seen \in Link
        /\ net_state' = Noted(net_state, seen) /\ since' = SinceNoted(seen)
    BY <1>3, <1>12 DEF PollCheck
  <2>2. /\ net_state' \in [wifi_status : Link \cup {"INACTIVE"}, netif_up : BOOLEAN,
                           syslog_server : LogServer \cup {Any}]
        /\ net_state'.syslog_server = net_state.syslog_server
        /\ since' \in 0 .. Longest
    BY <2>1, NotedKeeps
  <2> QED BY <1>12, <2>2
          DEF PollCheck, NetworkInv, Shape, ClientInv, ClientStands
<1>13. CASE Rejoin
  <2>1. link' \in Link
    BY <1>3, <1>13 DEF Rejoin, Link
  <2> QED BY <1>13, <2>1
          DEF Rejoin, Stamp, NetworkInv, Shape, ClientInv, ClientStands
<1>14. CASE CommandRejoin
  BY <1>2, <1>3, <1>14 DEF CommandRejoin
<1>15. CASE CommandCredentials
  <2>1. cfg' \in [on : SUBSET Setting, syslog_server : LogServer \cup {Any}]
    BY <1>15 DEF CommandCredentials, NetworkInv, Shape, Setting
  <2>2. cfg'.syslog_server = cfg.syslog_server
    BY <1>15 DEF CommandCredentials, NetworkInv, Shape
  <2> QED BY <1>15, <2>1, <2>2
          DEF CommandCredentials, NetworkInv, Shape, ClientInv, ClientStands
<1>16. ASSUME NEW status \in Link, LinkCallback(status), link' \in Link,
              UNCHANGED << cfg, seen >>, rested' \in {0, rested}
       PROVE  Goal
  <2>1. /\ net_state' \in [wifi_status : Link \cup {"INACTIVE"}, netif_up : BOOLEAN,
                           syslog_server : LogServer \cup {Any}]
        /\ net_state'.syslog_server = net_state.syslog_server
        /\ since' \in 0 .. Longest
    BY <1>16, NotedKeeps DEF LinkCallback
  <2> QED BY <1>16, <2>1
          DEF LinkCallback, NetworkInv, Shape, ClientInv, ClientStands
<1>17. CASE Associate
  <2>1. link' \in Link
    BY <1>17 DEF Associate, Link
  <2> QED BY <1>16, <1>17, <2>1 DEF Associate
<1>18. CASE JoinFails
  BY <1>2, <1>3, <1>18 DEF JoinFails, Link
<1>19. CASE Lose
  <2>1. "DOWN" \in Link
    BY DEF Link
  <2> QED BY <1>16, <1>19, <2>1 DEF Lose
<1>20. CASE Lease
  <2>1. PICK server \in LogServer \cup {Any}, moved \in BOOLEAN :
          LET ns == IF server = Any THEN net_state ELSE UseLogServer(net_state, server)
          IN IF addressed /\ ~moved
             THEN /\ net_state' = ns
                  /\ UNCHANGED << since, network_initialized, syslog >>
             ELSE StatusCallback(ns, "UP")
    BY <1>20 DEF Lease
  <2> DEFINE ns == IF server = Any THEN net_state ELSE UseLogServer(net_state, server)
  <2>2. ns \in [wifi_status : Link \cup {"INACTIVE"}, netif_up : BOOLEAN,
                syslog_server : LogServer \cup {Any}]
    BY DEF UseLogServer, NetworkInv, Shape
  <2>3. cfg.syslog_server # Any => ns.syslog_server \in {Any, cfg.syslog_server}
    BY DEF UseLogServer, NetworkInv, Shape, ClientInv
  <2>4. UNCHANGED << cfg, seen >> /\ link' \in Link /\ "UP" \in Link /\ rested' = 0
    BY <1>20 DEF Lease, Link
  <2>a. rested' \in 0 .. Longest
    BY <2>4
  <2> HIDE DEF ns
  <2>5. CASE addressed /\ ~moved
    <3>1. net_state' = ns /\ UNCHANGED << since, network_initialized, syslog >>
      BY <2>1, <2>5 DEF ns
    <3> QED BY <1>3, <2>2, <2>3, <2>4, <2>a, <3>1
            DEF NetworkInv, Shape, ClientInv, ClientStands
  <2>6. CASE ~(addressed /\ ~moved)
    <3>1. StatusCallback(ns, "UP")
      BY <2>1, <2>6 DEF ns
    <3> QED BY <2>2, <2>3, <2>4, <2>a, <3>1, CallbackKeeps DEF ClientStands
  <2> QED BY <2>5, <2>6
<1>21. CASE Tick
  <2>1. since' \in 0 .. Longest /\ rested' \in 0 .. Longest
    BY <1>21 DEF Tick, Later, NetworkInv, Shape
  <2> QED BY <1>21, <2>1
          DEF Tick, NetworkInv, Shape, ClientInv, ClientStands
<1>22. CASE Reboot
  <2>1. ~(watchdog > 0)
    BY <1>22 DEF Reboot
  <2>2. Shape'
    <3>1. cfg' \in [on : SUBSET Setting, syslog_server : LogServer \cup {Any}]
      BY <1>22 DEF Reboot, NetworkInv, Shape
    <3>2. since' \in 0 .. Longest /\ rested' \in 0 .. Longest
      BY <1>22 DEF Reboot
    <3>3. /\ net_state' = Blank /\ link' = "DOWN" /\ seen' = "DOWN"
          /\ network_initialized' = FALSE
      BY <1>22 DEF Reboot
    <3> QED BY <3>1, <3>2, <3>3, BlankState DEF Shape
  <2>3. ClientInv'
    BY <1>22, BlankState DEF Reboot, ClientInv
  <2> QED BY <2>1, <2>2, <2>3 DEF NetworkInv
<1> QED
  BY <1>1, <1>4, <1>5, <1>6, <1>7, <1>8, <1>9, <1>10, <1>11, <1>12, <1>13, <1>14,
     <1>15, <1>17, <1>18, <1>19, <1>20, <1>21, <1>22 DEF Next, Boot, Loop, Stack

(* The log client is opened once in a boot, and for the configured server  *)
(* if there is one, in every order of leases, callbacks and wifi_init      *)
(* (syslog.c, dhcp.c, network.c).                                          *)
THEOREM LogClientStays == Spec => LogClientStands
<1>1. NetworkInv /\ [Next]_vars => NetworkInv'
  BY NetworkStep
<1>2. NetworkInv /\ [Next]_vars
        => [(syslog' # syslog /\ watchdog > 0) =>
              /\ syslog = NoContext
              /\ cfg.syslog_server # Any => syslog' = cfg.syslog_server]_vars
  BY NetworkStep DEF ClientStands
<1> QED BY <1>1, <1>2, NetworkStart, PTL DEF Spec, LogClientStands

-----------------------------------------------------------------------------
(* The pace of the rejoins.  A status is no older than the last attempt    *)
(* and the last time the link was up.  It may be while the link is up, and *)
(* on a boot that has not come as far as the poll; but when the link goes  *)
(* down its status was one of a link that was joined, and starts afresh.   *)
NotYetUp == {"wifi_init", "interface", "mac", "connect", "connecting", "services"}

SinceInv ==
  /\ \/ since <= rested
     \/ link = "UP"
     \/ ~wifi_initialized /\ pc \in {"connecting", "loop"}
  /\ pc \in {"wifi_init", "interface", "mac", "connect"} => since = 0

OrderInv ==
  /\ pc \in NotYetUp => wifi_initialized = FALSE
  /\ pc \in {"check", "rejoin"} => wifi_initialized = TRUE
  /\ pc \in {"wifi_init", "interface"} => link = "DOWN"
  /\ link = "NOIP" => ~addressed

(* What was noted, or read by a poll that has not noted it yet, of a link  *)
(* that is joined: only a join makes one of a link that is not.            *)
LinkInv ==
  /\ link = "UP" => net_state.wifi_status \in Joined
  /\ pc = "check" => /\ link \in Joined => seen \in Joined
                     /\ link = "UP" => "UP" \in {seen, net_state.wifi_status}

PaceInv == SinceInv /\ OrderInv /\ LinkInv

LEMMA StatusNoted ==
  ASSUME Shape, NEW status,
         NEW ns, ns \in [wifi_status : Link \cup {"INACTIVE"}, netif_up : BOOLEAN,
                         syslog_server : LogServer \cup {Any}]
  PROVE  /\ Noted(ns, status).wifi_status = status
         /\ StatusCallback(ns, status) => net_state'.wifi_status = status
         /\ SinceNoted(status) \in {0, since}
         /\ status # net_state.wifi_status => SinceNoted(status) = 0
<1>1. Noted(ns, status).wifi_status = status
  BY DEF Noted
<1>2. ASSUME StatusCallback(ns, status) PROVE net_state'.wifi_status = status
  BY <1>2 DEF StatusCallback, Noted
<1>3. SinceNoted(status) \in {0, since} /\ (status # net_state.wifi_status => SinceNoted(status) = 0)
  BY DEF SinceNoted
<1> QED BY <1>1, <1>2, <1>3

LEMMA PaceStart == Init => PaceInv
<1> SUFFICES ASSUME Init PROVE PaceInv
  OBVIOUS
<1>1. 0 <= Longest
  BY LongestIsLonger
<1>2. SinceInv
  BY <1>1 DEF Init, SinceInv
<1>3. OrderInv /\ LinkInv
  BY DEF Init, OrderInv, LinkInv, NotYetUp
<1> QED BY <1>2, <1>3 DEF PaceInv

LEMMA PaceStep ==
  ASSUME Shape, PaceInv, [Next]_vars
  PROVE  PaceInv'
<1> USE DEF inits, radio, Goto
<1> USE DEF PaceInv
<1>1. CASE UNCHANGED vars
  BY <1>1 DEF vars, SinceInv, OrderInv, LinkInv
<1>2. CASE ArchInit
  BY <1>2 DEF ArchInit, SinceInv, OrderInv, LinkInv, NotYetUp
<1>3. CASE Interface
  <2>1. since' = 0 /\ link' = "DOWN" /\ rested' = rested /\ pc' = "mac" /\ rested >= 0
    <3>1. StatusCallback(net_state, link) => since' \in {0, since}
      BY DEF StatusCallback, SinceNoted
    <3> QED BY <1>3, <3>1 DEF Interface, SinceInv, OrderInv, Shape
  <2>2. wifi_initialized' = FALSE
    BY <1>3 DEF Interface, OrderInv, NotYetUp
  <2> QED BY <2>1, <2>2 DEF SinceInv, OrderInv, LinkInv, Joined, Associating, NotYetUp
<1>4. CASE GetMac
  BY <1>4 DEF GetMac, SinceInv, OrderInv, LinkInv, NotYetUp
<1>5. CASE Connect
  <2>1. /\ since' = 0 /\ since' <= rested' /\ pc' \in {"loop", "services", "connecting"}
        /\ wifi_initialized' = FALSE
    BY <1>5 DEF Connect, SinceInv, OrderInv, NotYetUp, Shape
  <2>2. link' \in {link, "JOIN"} /\ UNCHANGED << addressed, net_state >>
    BY <1>5 DEF Connect
  <2> QED BY <2>1, <2>2 DEF SinceInv, OrderInv, LinkInv
<1>6. CASE Connected
  <2>1. wifi_initialized' = FALSE /\ UNCHANGED << addressed, net_state, since >>
    BY <1>6 DEF Connected, OrderInv, NotYetUp
  <2>2. CASE link = "UP"
    <3>1. pc' = "services" /\ link' = "UP"
      BY <1>6, <2>2 DEF Connected
    <3> QED BY <2>1, <2>2, <3>1 DEF SinceInv, OrderInv, LinkInv
  <2>3. CASE link # "UP"
    <3>1. pc' \in {"connecting", "loop"} /\ link' \in {link, "JOIN"}
      BY <1>6, <2>3 DEF Connected
    <3> QED BY <2>1, <2>3, <3>1 DEF SinceInv, OrderInv, LinkInv
  <2> QED BY <2>2, <2>3
<1>7. CASE Services
  BY <1>7 DEF Services, SinceInv, OrderInv, LinkInv, NotYetUp
<1>8. CASE CopyLogServer
  <2>1. net_state'.wifi_status = net_state.wifi_status
    BY <1>8 DEF CopyLogServer, Shape
  <2> QED BY <1>8, <2>1 DEF CopyLogServer, SinceInv, OrderInv, LinkInv, NotYetUp
<1>9. CASE PollRead
  BY <1>9 DEF PollRead, SinceInv, OrderInv, LinkInv, NotYetUp, Joined
<1>10. CASE PollCheck
  <2>1. since' \in {0, since} /\ net_state'.wifi_status = seen
    BY <1>10, StatusNoted DEF PollCheck, Shape
  <2>2. /\ pc = "check" /\ pc' \in {"loop", "rejoin"} /\ wifi_initialized = TRUE
        /\ UNCHANGED << link, addressed, wifi_initialized, rested >>
    BY <1>10 DEF PollCheck, OrderInv
  <2>3. link = "UP" => seen \in Joined
    BY <2>2 DEF LinkInv, Joined
  <2> QED BY <2>1, <2>2, <2>3 DEF SinceInv, OrderInv, LinkInv, NotYetUp, Shape
<1>11. CASE Rejoin
  <2>1. /\ since' = 0 /\ rested' = 0 /\ pc' = "loop"
        /\ UNCHANGED << addressed, net_state, wifi_initialized >>
    BY <1>11 DEF Rejoin, Stamp
  <2>2. link' \in {"JOIN", "DOWN", link}
    BY <1>11 DEF Rejoin
  <2> QED BY <2>1, <2>2 DEF SinceInv, OrderInv, LinkInv, NotYetUp
<1>12. CASE CommandRejoin
  BY <1>12 DEF CommandRejoin, SinceInv, OrderInv, LinkInv, NotYetUp
<1>13. CASE CommandCredentials
  BY <1>13 DEF CommandCredentials, SinceInv, OrderInv, LinkInv, NotYetUp
<1>14. CASE Associate
  <2>1. /\ link = "JOIN" /\ link' = IF addressed THEN "UP" ELSE "NOIP"
        /\ rested' = IF link' = "UP" THEN 0 ELSE rested
        /\ UNCHANGED << pc, addressed, wifi_initialized, seen >>
    BY <1>14 DEF Associate
  <2>2. since' \in {0, since} /\ net_state'.wifi_status = link'
    BY <1>14, StatusNoted DEF Associate, LinkCallback, Shape
  <2>3. pc = "check" => seen \in Joined
    BY <2>1 DEF LinkInv, Joined, Associating
  <2>4. pc \notin {"wifi_init", "interface"}
    BY <1>14 DEF Associate, Heard
  <2>5. SinceInv'
    BY <2>1, <2>2 DEF SinceInv, Shape
  <2>6. OrderInv'
    <3>1. link' = "NOIP" => ~addressed
      BY <2>1
    <3> QED BY <2>1, <2>4, <3>1 DEF OrderInv
  <2>7. LinkInv'
    BY <2>1, <2>2, <2>3 DEF LinkInv, Joined, Associating
  <2> QED BY <2>5, <2>6, <2>7
<1>15. CASE JoinFails
  <2>1. /\ link = "JOIN" /\ link' \in {"FAIL", "NONET", "BADAUTH"}
        /\ pc \notin {"wifi_init", "interface"}
        /\ UNCHANGED << pc, addressed, net_state, since, rested, wifi_initialized, seen >>
    BY <1>15 DEF JoinFails, Heard
  <2> QED BY <2>1 DEF SinceInv, OrderInv, LinkInv, Joined, Associating
<1>16. CASE Lose
  <2>1. /\ link \in {"NOIP", "UP"} /\ link' = "DOWN"
        /\ UNCHANGED << pc, addressed, rested, wifi_initialized, seen >>
    BY <1>16 DEF Lose
  <2>2. since' \in {0, since} /\ (net_state.wifi_status # "DOWN" => since' = 0)
    BY <1>16, StatusNoted DEF Lose, LinkCallback, Shape
  <2>3. link = "UP" => since' = 0
    BY <2>2 DEF LinkInv, Joined, Associating
  <2>4. SinceInv'
    BY <2>1, <2>2, <2>3 DEF SinceInv, Shape
  <2> QED BY <2>1, <2>4 DEF OrderInv, LinkInv, Joined, Associating
<1>17. CASE Lease
  <2>1. PICK server \in LogServer \cup {Any}, moved \in BOOLEAN :
          LET ns == IF server = Any THEN net_state ELSE UseLogServer(net_state, server)
          IN IF addressed /\ ~moved
             THEN /\ net_state' = ns
                  /\ UNCHANGED << since, network_initialized, syslog >>
             ELSE StatusCallback(ns, "UP")
    BY <1>17 DEF Lease
  <2> DEFINE ns == IF server = Any THEN net_state ELSE UseLogServer(net_state, server)
  <2>2. /\ ns \in [wifi_status : Link \cup {"INACTIVE"}, netif_up : BOOLEAN,
                    syslog_server : LogServer \cup {Any}]
        /\ ns.wifi_status = net_state.wifi_status
    BY DEF UseLogServer, Shape
  <2>3. /\ link \in {"NOIP", "UP"} /\ link' = "UP" /\ rested' = 0
        /\ pc \notin {"wifi_init", "interface"}
        /\ UNCHANGED << pc, wifi_initialized, seen >>
    BY <1>17 DEF Lease, Heard
  <2>4. pc = "check" => seen \in Joined
    BY <2>3 DEF LinkInv, Joined, Associating
  <2>5. since' \in {0, since}
    BY <2>1 DEF StatusCallback, SinceNoted
  <2> HIDE DEF ns
  <2>6. \/ link = "UP" /\ net_state'.wifi_status = net_state.wifi_status
        \/ net_state'.wifi_status = "UP"
    <3>1. CASE addressed /\ ~moved
      <4>1. link = "UP"
        BY <2>3, <3>1 DEF OrderInv
      <4> QED BY <2>1, <2>2, <3>1, <4>1 DEF ns
    <3>2. CASE ~(addressed /\ ~moved)
      <4>1. StatusCallback(ns, "UP")
        BY <2>1, <3>2 DEF ns
      <4> QED BY <2>2, <4>1, StatusNoted
    <3> QED BY <3>1, <3>2
  <2>7. SinceInv'
    BY <2>3, <2>5 DEF SinceInv
  <2>8. OrderInv'
    BY <2>3 DEF OrderInv
  <2>9. LinkInv'
    BY <2>3, <2>4, <2>6 DEF LinkInv, Joined
  <2> QED BY <2>7, <2>8, <2>9
<1>18. CASE Tick
  <2>1. /\ since' = Later(since) /\ rested' = IF link = "UP" THEN 0 ELSE Later(rested)
        /\ pc \in {"loop", "connecting"}
        /\ UNCHANGED << pc, link, addressed, net_state, wifi_initialized, seen >>
    BY <1>18 DEF Tick
  <2>2. (since <= rested /\ link # "UP") => since' <= rested'
    BY <2>1, LongestIsLonger DEF Later, Shape
  <2> QED BY <2>1, <2>2 DEF SinceInv, OrderInv, LinkInv
<1>19. CASE Reboot
  <2>1. /\ since' = 0 /\ rested' = Longest /\ link' = "DOWN" /\ pc' = "wifi_init"
        /\ wifi_initialized' = FALSE
    BY <1>19 DEF Reboot
  <2> QED BY <2>1, LongestIsLonger DEF SinceInv, OrderInv, LinkInv, NotYetUp
<1> QED
  BY <1>1, <1>2, <1>3, <1>4, <1>5, <1>6, <1>7, <1>8, <1>9, <1>10, <1>11, <1>12, <1>13,
     <1>14, <1>15, <1>16, <1>17, <1>18, <1>19 DEF Next, Boot, Loop, Stack

(* The unit decides to join again only WIFI_REJOIN_DELAY, or three times   *)
(* that if it has seen a join under way, after the last attempt of any     *)
(* kind began and the link was last up, for any delays and however the     *)
(* link comes and goes (network.c, wifi_check_status).                     *)
THEOREM RejoinsArePaced == Spec => RejoinsPaced
<1>1. NetworkInv /\ [Next]_vars => NetworkInv'
  BY NetworkStep
<1>2. NetworkInv /\ PaceInv /\ [Next]_vars => PaceInv'
  BY PaceStep DEF NetworkInv
<1>3. ASSUME NetworkInv, PaceInv, [Next]_vars, pc = "check", pc' = "rejoin"
      PROVE  rested >= Patience(seen)
  <2>1. PollCheck
    BY <1>3 DEF Next, Boot, Loop, Stack, vars, ArchInit, Interface, Goto, GetMac, Connect,
       Connected, Services, CopyLogServer, PollRead, Rejoin, CommandRejoin,
       CommandCredentials, Associate, JoinFails, Lose, Lease, Tick, Reboot
  <2>2. seen = net_state.wifi_status /\ seen # "UP" /\ since >= Patience(seen)
    BY <1>3, <2>1 DEF PollCheck, FailedLong
  <2>3. link # "UP"
    BY <1>3, <2>2 DEF PaceInv, LinkInv
  <2>4. since <= rested
    BY <1>3, <2>3 DEF PaceInv, SinceInv, OrderInv
  <2>5. Patience(seen) \in Nat
    BY LongestIsLonger, NetworkAssumption DEF Patience
  <2> QED BY <1>3, <2>2, <2>4, <2>5, LongestIsLonger DEF NetworkInv, Shape
<1>4. NetworkInv /\ PaceInv /\ [Next]_vars
        => [(pc = "check" /\ pc' = "rejoin") => rested >= Patience(seen)]_vars
  BY <1>3
<1> QED BY <1>1, <1>2, <1>4, NetworkStart, PaceStart, PTL DEF Spec, RejoinsPaced

-----------------------------------------------------------------------------
IsReading(r) == r = [temp |-> r.temp, humidity |-> r.humidity, age |-> r.age]

SensorTypes ==
  /\ vsensors \in [Sensors -> Sources]
  /\ reading = [i \in Sensors |-> reading[i]]
  /\ \A i \in Sensors : IsReading(reading[i])
  /\ write \in [Sensors -> [temp : Written \cup {Unknown}, age : Nat]]

WriteKept(v, r, w) ==
  w.temp # Unknown =>
    /\ v.mode = "manual"
    /\ r.temp # w.temp => v.timeout > 0 /\ w.age > v.timeout /\ r.temp = v.default_temp
    /\ r.temp = w.temp /\ v.timeout > 0 /\ w.temp # v.default_temp => r.age = w.age

WriteInv == SensorTypes /\ \A i \in Sensors : WriteKept(vsensors[i], reading[i], write[i])

LEMMA NextSensorIsLeft == SensorTypes /\ Left # {} => NextSensor \in Left
<1> SUFFICES ASSUME Left # {} PROVE \E i \in Left : \A j \in Left : i <= j
  BY DEF NextSensor
<1> DEFINE rest == Left
<1>1. rest \subseteq Nat /\ rest # {}
  BY SensorsAssumption DEF Left, Sensors
<1> DEFINE less == OpToRel(<, Nat)
<1>2. IsWellFoundedOn(less, Nat)
  BY NatLessThanWellFounded
<1>5. \A i, j \in Nat : i < j => << i, j >> \in less
  BY DEF OpToRel
<1> HIDE DEF less, rest
<1>3. PICK i \in rest : \A j \in rest : << j, i >> \notin less
  BY <1>1, <1>2, WFMin
<1>4. \A j \in rest : i <= j
  <2>1. ASSUME NEW j \in rest PROVE i <= j
    <3>1. i \in Nat /\ j \in Nat /\ ~(j < i)
      BY <1>1, <1>3, <1>5
    <3> QED BY <3>1
  <2> QED BY <2>1
<1> QED BY <1>4 DEF rest

(* A sensor nothing was written to                                         *)
LEMMA NothingWritten ==
  /\ NotWritten \in [temp : Written \cup {Unknown}, age : Nat]
  /\ Nowhere \in [Sensors -> [temp : Written \cup {Unknown}, age : Nat]]
  /\ \A v, r : WriteKept(v, r, NotWritten)
BY DEF NotWritten, Nowhere, WriteKept

LEMMA ReadingAged ==
  ASSUME NEW r, IsReading(r), NEW age
  PROVE  [r EXCEPT !.age = age] = [temp |-> r.temp, humidity |-> r.humidity, age |-> age]
BY DEF IsReading

LEMMA ClearedIsReading ==
  ASSUME NEW conf
  PROVE  /\ Cleared(conf) = [i \in Sensors |-> Cleared(conf)[i]]
         /\ \A i \in Sensors : IsReading(Cleared(conf)[i])
BY DEF Cleared, ClearedReading, IsReading

LEMMA WritesStart == SInit => WriteInv
<1> SUFFICES ASSUME SInit PROVE WriteInv
  OBVIOUS
<1>1. vsensors \in [Sensors -> Sources] /\ write = Nowhere /\ reading = Cleared(vsensors)
  BY SensorsAssumption DEF SInit
<1>2. SensorTypes
  BY <1>1, NothingWritten, ClearedIsReading DEF SensorTypes
<1>3. \A i \in Sensors : WriteKept(vsensors[i], reading[i], write[i])
  BY <1>1, NothingWritten DEF Nowhere
<1> QED BY <1>2, <1>3 DEF WriteInv

(* The poll of the internal and manual sensors puts the default back only   *)
(* when the write is older than the timeout.                               *)
LEMMA PollKeepsWrite ==
  ASSUME NEW v \in Sources, NEW r, IsReading(r),
         NEW w \in [temp : Written \cup {Unknown}, age : Nat], WriteKept(v, r, w)
  PROVE  IsReading(ReadTemp(v, r)) /\ WriteKept(v, ReadTemp(v, r), w)
<1>1. IsReading(ReadTemp(v, r))
  BY DEF ReadTemp, At, IsReading
<1>2. ASSUME w.temp # Unknown, v.mode = "manual" PROVE WriteKept(v, ReadTemp(v, r), w)
  <2>1. v.timeout \in Nat /\ w.age \in Nat /\ v.mode # "internal"
    BY <1>2, SensorsAssumption
  <2>2. CASE ManualWaits(v, r)
    <3>1. ReadTemp(v, r) = r
      BY <1>2, <2>1, <2>2 DEF ReadTemp
    <3> QED BY <3>1
  <2>3. CASE ~ManualWaits(v, r)
    <3>1. ReadTemp(v, r) = At(IF ManualReverts(v, r) THEN v.default_temp ELSE r.temp, Unknown)
      BY <1>2, <2>1, <2>3 DEF ReadTemp
    <3>2. ReadTemp(v, r).temp = IF ManualReverts(v, r) THEN v.default_temp ELSE r.temp
      BY <3>1 DEF At
    <3>3. CASE r.temp # w.temp
      <4>1. ReadTemp(v, r).temp = v.default_temp
        BY <1>2, <3>2, <3>3 DEF WriteKept
      <4> QED BY <1>2, <3>3, <4>1 DEF WriteKept
    <3>4. CASE r.temp = w.temp /\ (v.timeout = 0 \/ w.temp = v.default_temp)
      <4>1. ReadTemp(v, r).temp = w.temp
        BY <3>2, <3>4 DEF ManualReverts
      <4> QED BY <1>2, <2>1, <3>4, <4>1 DEF WriteKept
    <3>5. CASE r.temp = w.temp /\ v.timeout # 0 /\ w.temp # v.default_temp
      <4>1. v.timeout > 0 /\ r.age = w.age
        BY <1>2, <2>1, <3>5 DEF WriteKept
      <4>2. w.age > v.timeout /\ ManualReverts(v, r)
        BY <2>1, <2>3, <3>5, <4>1 DEF ManualWaits, ManualReverts
      <4>3. ReadTemp(v, r).temp = v.default_temp
        BY <3>2, <4>2
      <4> QED BY <1>2, <3>5, <4>1, <4>2, <4>3 DEF WriteKept
    <3> QED BY <3>3, <3>4, <3>5
  <2> QED BY <2>2, <2>3
<1> QED BY <1>1, <1>2 DEF WriteKept

LEMMA WaitKeepsWrite ==
  ASSUME NEW v \in Sources, NEW r, IsReading(r),
         NEW w \in [temp : Written \cup {Unknown}, age : Nat], WriteKept(v, r, w),
         w.temp # Unknown
  PROVE  WriteKept(v, [r EXCEPT !.age = Older(@)], [w EXCEPT !.age = Older(@)])
<1>1. v.timeout \in Nat /\ w.age \in Nat
  BY SensorsAssumption
<1>2. w.age > v.timeout => Older(w.age) > v.timeout
  BY <1>1 DEF Older
<1>3. [r EXCEPT !.age = Older(@)].temp = r.temp /\ [r EXCEPT !.age = Older(@)].age = Older(r.age)
  BY DEF IsReading
<1>4. [w EXCEPT !.age = Older(@)].temp = w.temp /\ [w EXCEPT !.age = Older(@)].age = Older(w.age)
  OBVIOUS
<1> QED BY <1>2, <1>3, <1>4 DEF WriteKept

LEMMA WritesKept == WriteInv /\ [SNext]_sensor_vars => WriteInv'
<1> SUFFICES ASSUME WriteInv, [SNext]_sensor_vars PROVE WriteInv'
  OBVIOUS
<1> USE DEF WriteInv, SensorTypes
<1>1. CASE PollInternal
  <2>1. \A i \in Sensors : reading'[i] = ReadTemp(vsensors[i], reading[i])
    BY <1>1 DEF PollInternal
  <2>2. vsensors' = vsensors /\ write' = write /\ reading' = [i \in Sensors |-> reading'[i]]
    BY <1>1 DEF PollInternal
  <2> QED BY <2>1, <2>2, PollKeepsWrite
<1>2. CASE PollGivesUp \/ StartRound \/ EndRound \/ UNCHANGED sensor_vars
  BY <1>2 DEF PollGivesUp, StartRound, EndRound, sensor_vars
<1>3. CASE ReadSensor
  <2> DEFINE n == NextSensor
  <2>1. n \in Sensors /\ vsensors[n].mode = "i2c"
    BY <1>3, NextSensorIsLeft DEF ReadSensor, Left, Polled, Measures
  <2>2. write[n].temp = Unknown
    BY <2>1 DEF WriteKept
  <2>3. vsensors' = vsensors /\ write' = write
    BY <1>3 DEF ReadSensor
  <2>4. CASE reading' = reading
    BY <2>3, <2>4
  <2>5. ASSUME NEW humidity,
               reading' = [reading EXCEPT ![n] = At(DeviceTemp(i2c_context[n]), humidity)]
        PROVE  WriteInv'
    <3>1. IsReading(At(DeviceTemp(i2c_context[n]), humidity))
      BY DEF IsReading, At
    <3> HIDE DEF n
    <3>2. \A i \in Sensors : i # n => reading'[i] = reading[i]
      BY <2>5
    <3>3. reading'[n] = At(DeviceTemp(i2c_context[n]), humidity)
      BY <2>1, <2>5
    <3>4. reading' = [i \in Sensors |-> reading'[i]]
      BY <2>5
    <3>5. \A i \in Sensors : WriteKept(vsensors[i], reading'[i], write[i])
      BY <2>2, <3>2 DEF WriteKept
    <3>6. \A i \in Sensors : IsReading(reading'[i])
      BY <3>1, <3>2, <3>3
    <3> QED BY <2>3, <3>4, <3>5, <3>6
  <2> QED BY <1>3, <2>4, <2>5 DEF ReadSensor
<1>4. CASE SetSource
  <2>1. PICK n \in Sensors, s \in Sources :
          /\ vsensors' = [vsensors EXCEPT ![n] = s]
          /\ write' = [write EXCEPT ![n] = NotWritten]
    BY <1>4 DEF SetSource
  <2>2. reading' = reading
    BY <1>4 DEF SetSource
  <2>3. /\ vsensors' \in [Sensors -> Sources]
        /\ write' \in [Sensors -> [temp : Written \cup {Unknown}, age : Nat]]
    BY <2>1, NothingWritten
  <2>4. \A i \in Sensors : i # n => vsensors'[i] = vsensors[i] /\ write'[i] = write[i]
    BY <2>1
  <2>5. write'[n] = NotWritten
    BY <2>1
  <2> QED BY <2>2, <2>3, <2>4, <2>5, NothingWritten
<1>5. CASE WriteSensor
  <2>1. PICK n \in Sensors, temp \in Written :
          /\ vsensors[n].mode = "manual"
          /\ reading' = [reading EXCEPT ![n] =
                          [temp |-> temp, humidity |-> @.humidity, age |-> 0]]
          /\ write' = [write EXCEPT ![n] = [temp |-> temp, age |-> 0]]
    BY <1>5 DEF WriteSensor
  <2>2. vsensors' = vsensors
    BY <1>5 DEF WriteSensor
  <2>3. \A i \in Sensors : i # n => reading'[i] = reading[i] /\ write'[i] = write[i]
    BY <2>1
  <2>4. write'[n] = [temp |-> temp, age |-> 0]
    BY <2>1
  <2>5. reading'[n] = [temp |-> temp, humidity |-> reading[n].humidity, age |-> 0]
    BY <2>1
  <2>6. write' \in [Sensors -> [temp : Written \cup {Unknown}, age : Nat]]
    BY <2>1
  <2>7. IsReading(reading'[n]) /\ WriteKept(vsensors[n], reading'[n], write'[n])
    BY <2>1, <2>4, <2>5 DEF IsReading, WriteKept
  <2>8. reading' = [i \in Sensors |-> reading'[i]]
    BY <2>1
  <2> QED BY <2>2, <2>3, <2>6, <2>7, <2>8
<1>6. CASE UploadSources \/ SReboot
  <2>1. vsensors' \in [Sensors -> Sources] /\ write' = Nowhere /\ reading' = Cleared(vsensors')
    BY <1>6, SensorsAssumption DEF UploadSources, SReboot
  <2>2. SensorTypes'
    BY <2>1, NothingWritten, ClearedIsReading
  <2>3. \A i \in Sensors : write'[i] = NotWritten
    BY <2>1 DEF Nowhere
  <2> QED BY <2>2, <2>3, NothingWritten
<1>7. CASE Wait
  <2>1. /\ vsensors' = vsensors /\ reading' = [i \in Sensors |-> reading'[i]]
        /\ \A i \in Sensors : reading'[i] = [reading[i] EXCEPT !.age = Older(@)]
    BY <1>7 DEF Wait
  <2>2. \A i \in Sensors : write'[i] = IF write[i].temp = Unknown THEN NotWritten
                                       ELSE [write[i] EXCEPT !.age = Older(@)]
    BY <1>7 DEF Wait
  <2>3. write' = [i \in Sensors |-> write'[i]]
    BY <1>7 DEF Wait
  <2>4. ASSUME NEW i \in Sensors
        PROVE  /\ write'[i] \in [temp : Written \cup {Unknown}, age : Nat]
               /\ IsReading(reading'[i])
               /\ WriteKept(vsensors[i], reading'[i], write'[i])
    <3>1. IsReading(reading'[i])
      <4>1. reading'[i] = [temp |-> reading[i].temp, humidity |-> reading[i].humidity,
                           age |-> Older(reading[i].age)]
        BY <2>1, ReadingAged
      <4> QED BY <4>1 DEF IsReading
    <3>2. CASE write[i].temp = Unknown
      <4>1. write'[i] = NotWritten
        BY <2>2, <3>2
      <4> QED BY <3>1, <4>1, NothingWritten
    <3>3. CASE write[i].temp # Unknown
      <4>1. Older(write[i].age) \in Nat
        BY DEF Older
      <4>2. write'[i] \in [temp : Written \cup {Unknown}, age : Nat]
        BY <2>2, <3>3, <4>1
      <4>3. WriteKept(vsensors[i], reading'[i], write'[i])
        <5>1. WriteKept(vsensors[i], [reading[i] EXCEPT !.age = Older(@)],
                        [write[i] EXCEPT !.age = Older(@)])
          BY <3>3, WaitKeepsWrite
        <5>2. /\ reading'[i] = [reading[i] EXCEPT !.age = Older(@)]
              /\ write'[i] = [write[i] EXCEPT !.age = Older(@)]
          BY <2>1, <2>2, <3>3
        <5> QED BY <5>1, <5>2
      <4> QED BY <3>1, <4>2, <4>3
    <3> QED BY <3>2, <3>3
  <2>5. write' \in [Sensors -> [temp : Written \cup {Unknown}, age : Nat]]
    BY <2>3, <2>4
  <2> QED BY <2>1, <2>4, <2>5
<1> QED BY <1>1, <1>2, <1>3, <1>4, <1>5, <1>6, <1>7 DEF SNext

(* What the user writes to a manual sensor is what it reads until it has    *)
(* been there for longer than the timeout, whatever polls of the loop,      *)
(* reads of the bus, commands for other sensors and delays come between.   *)
THEOREM WritesLive == SSpec => []WriteLives
<1>1. WriteInv => WriteLives
  BY DEF WriteInv, WriteKept, WriteLives
<1> QED BY WritesStart, WritesKept, <1>1, PTL DEF SSpec

=============================================================================
