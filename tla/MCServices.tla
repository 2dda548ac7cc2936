------------------------------ MODULE MCServices ------------------------------
(***************************************************************************)
(* What core 0 does besides commands: the Wi-Fi link and its callbacks,    *)
(* two virtual sensors with the I2C poll, and two HTTP connections.  The   *)
(* three modules share no variable, so that the run goes through the steps *)
(* of the one or of the other, not through their products.                 *)
(***************************************************************************)
EXTENDS Network, Sensors, StatusPages, UtilChecks, NetworkChecks

VARIABLE side        \* whose steps these are

(* The link *)
Config(on, server) == [on |-> on, syslog_server |-> server]
Known == {"ssid", "passwd"}

MCConfigs ==
  { Config(Known \cup {"syslog"} \cup extra, server) :
      extra \in {{}, {"sync"}, {"static", "telnet", "ssh"}},
      server \in {"log1", Any} }
  \cup {Config({"ssid", "open", "http", "ntp"}, Any), Config({}, Any)}
MCSyncConfigs == { Config(Known \cup {"sync"}, Any) }

(* The sensors *)
Manual(d, t) == [mode |-> "manual", type |-> 0, addr |-> "a", default_temp |-> d, timeout |-> t]
I2c(a, type) == [mode |-> "i2c", type |-> type, addr |-> a, default_temp |-> 0, timeout |-> 1]
Internal == [mode |-> "internal", type |-> 0, addr |-> "a", default_temp |-> 0, timeout |-> 1]
MCSources == {Manual(0, 1), Manual(1, 0), Manual(3, 2), I2c("a", 1), I2c("b", 1), I2c("a", 0), Internal}
Pair(a, b) == [i \in 0 .. 1 |-> IF i = 0 THEN a ELSE b]
Unread == Pair(Manual(0, 1), Manual(0, 1))
MCBoots == {Pair(I2c("a", 1), I2c("b", 1)), Pair(Manual(0, 1), I2c("b", 1)), Unread}
MCDeviceTemp(d) == IF d = "a" THEN 11 ELSE 12

(* Every tag of the pages (httpd-fs) is answered by the branch meant for it *)
Tags == << "csvstat", "datetime", "jsonstat", "model", "name", "refresh", "uptime",
           "version", "watchdog" >>
ASSUME EveryTagAnswered ==
  /\ \A i \in DOMAIN Tags : SsiBranch(Tags[i]) = Tags[i]
  /\ SsiBranch("vsenrow8") = "vsenrow" /\ SsiBranch("other") = "none"
  /\ {n \in 0 .. 9 : RowShown(n, {0, 7}, 8)} = {1, 8}
  /\ \A p \in 0 .. 4 : Kept(p, 3) < 3

(* All of them *)
MCInit ==
  /\ Init /\ SInit /\ PInit
  /\ side \in {"network", "sensors", "pages"}
  /\ side # "network" => cfg = CHOOSE c \in Configs : TRUE
  /\ side # "sensors" => vsensors = Unread
NetworkStep == side = "network" /\ Next /\ UNCHANGED << sensor_vars, page_vars >>
SensorStep == side = "sensors" /\ SNext /\ UNCHANGED << vars, page_vars >>
PageStep == side = "pages" /\ PNext /\ UNCHANGED << vars, sensor_vars >>
MCNext == (NetworkStep \/ SensorStep \/ PageStep) /\ UNCHANGED side
MCSpec == MCInit /\ [][MCNext]_<< vars, sensor_vars, page_vars, side >>

(* NetworkFair and SFair, each where its module takes steps *)
MCFair ==
  /\ WF_vars(side = "network" /\ watchdog > 0 /\ (Boot \/ Loop))
  /\ WF_vars(side = "network" /\ watchdog > 0 /\ Tick)
  /\ WF_vars(side = "network" /\ Reboot)
  /\ WF_sensor_vars(side = "sensors" /\ PollInternal)
  /\ WF_sensor_vars(side = "sensors" /\ PollBus)
  /\ WF_sensor_vars(side = "sensors" /\ Wait)
MCFairSpec == MCSpec /\ MCFair

(* The link alone, for the boot *)
BootSpec == side = "network" /\ MCFairSpec
=============================================================================
