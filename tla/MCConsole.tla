------------------------------- MODULE MCConsole -------------------------------
(* Module Console with two virtual sensors, at a handful of lines. *)
EXTENDS Console, CommandTreeChecks, FlashChecks

Num(w, n) == [w |-> w, n |-> << n >>, q |-> FALSE]
Wd(w) == [w |-> w, n |-> None, q |-> FALSE]
Ask(w) == [w |-> w, n |-> None, q |-> TRUE]
NoArg == [text |-> "", toks |-> << >>]
One(text) == [text |-> text, toks |-> << text >>]
Two(text, a, b) == [text |-> text, toks |-> << a, b >>]
Three(text, a, b, c) == [text |-> text, toks |-> << a, b, c >>]
Cmd(segs, a) == [root |-> FALSE, segs |-> segs, arg |-> a]
FromRoot(segs) == [root |-> TRUE, segs |-> segs, arg |-> NoArg]

MCstrtol == ("1" :> 1) @@ ("2" :> 2) @@ ("300" :> 300) @@ ("256" :> 256) @@ ("-1" :> -1)
MCstrtol16 == ("1" :> 1) @@ ("2" :> 2) @@ ("48" :> 72)
MCstrtof == ("1" :> 10) @@ ("2" :> 20) @@ ("300" :> 3000)
Mcaton == ("10.0.0.1" :> "10.0.0.1") @@ ("0.0.0.0" :> "0.0.0.0")
MCAclOf == ("10.0.0.1/24" :> [ip |-> "10.0.0.1", prefix |-> 24])
             @@ ("10.0.0.1/99" :> [ip |-> "10.0.0.1", prefix |-> 99])
MCRangeOf == ("1" :> << 1 >>) @@ ("1-2" :> << 1, 2 >>)
MCTimeOf == ("12:00" :> 1)
MCI2cType == ("TMP102" :> 1)
MCKeyType == "AAAA" :> "ssh-rsa"
MCValid == [valid_hostname |-> {"lab"}, valid_wifi_country |-> {"FI"}]

DefaultSensor(i) ==
  IF i = 0 THEN [name |-> "Internal", mode |-> "internal", temp_offset |-> 0, temp_coefficient |-> 10]
  ELSE [name |-> "vsensor2", mode |-> "manual", default_temp |-> 0, timeout |-> 30]
MCDefault ==
  [debug |-> 0, log_level |-> 5, syslog_level |-> 3, local_echo |-> TRUE, led_mode |-> 0,
   bl_brightness |-> 100, i2c_speed |-> 1000000, adc_vref |-> 33, name |-> "lcdpico1",
   wifi_country |-> "XX", wifi_auth_mode |-> "default", http_vsensor_mask |-> AllSensors,
   vsensors |-> [i \in Sensors |-> DefaultSensor(i)]]

(* A configuration of two lines, with gaps in its lists and a key that is   *)
(* not of its type; one without its "id"; and text                         *)
Gap == "0.0.0.0"
Net(prefix) == [ip |-> "10.0.0.1", prefix |-> prefix]
OddKey == [username |-> "me", type |-> "ssh-dss", name |-> "", key |-> "AAAA"]
Other ==
  [debug |-> 0, telnet_active |-> TRUE, bl_brightness |-> 50, ntp_server |-> "10.0.0.1",
   dns_servers |-> << Gap, "10.0.0.1" >>, telnet_acls |-> << Net(-1), Net(8), Net(9) >>,
   ssh_pubkeys |-> << OddKey >>]
MCDocuments ==
  (<< "{id", "}" >> :> Other) @@ (<< "{", "}" >> :> [led_mode |-> 1]) @@ (<< "text" >> :> Raw("text"))
MCIdOk(json) == "bl_brightness" \in DOMAIN json

MCNames == {"lcdpico.cfg", "key.pem", "cert.pem"} \cup {PkeyAlgorithms[i].filename : i \in 1 .. 3}
MCFaults == {{}, {"mount"}, {"write"}, {"open"}, {"memory"}}

V == Num("VSENSOR", 2)
SettingLines ==
  { << Cmd(<< Wd("SYS"), Wd("LED") >>, One("2")), Cmd(<< Wd("BACKLIGHT") >>, One("300")) >>,
    << Cmd(<< Wd("SYS"), Wd("WIFI"), Wd("DNS") >>, Two("10.0.0.1,x", "10.0.0.1", "x")),
       Cmd(<< Wd("DNS"), Wd("SSID") >>, One("x")) >>,
    << Cmd(<< Wd("SYS"), Wd("LED"), Wd("ECHO") >>, One("2")) >>,
    << Cmd(<< Wd("SYS"), Wd("TELNET"), Wd("ACL") >>, One("10.0.0.1/99")),
       Cmd(<< Wd("SERVER") >>, One("ON")) >>,
    << Cmd(<< Wd("SYS"), Wd("WIFI"), Wd("SYSLOGCLIENT") >>, One("OFF")),
       Cmd(<< Wd("COUNTRY") >>, One("XXX")) >>,
    << Cmd(<< Wd("SYS"), Wd("HTTP"), Wd("MASK"), Wd("VSENSOR") >>, One("1")) >>,
    << Cmd(<< Wd("SYS"), Wd("SSH"), Wd("PORT") >>, One("-1")), Cmd(<< Wd("ACL") >>, One("x")) >>,
    << Cmd(<< Wd("SYS"), Wd("I2C"), Wd("SPEED") >>, One("1")),
       Cmd(<< Wd("SPEED"), Ask("SPEED") >>, NoArg) >> }
SensorLines ==
  { << Cmd(<< Wd("CONF"), V, Wd("NAME") >>, One("oven")), Cmd(<< Wd("NAME") >>, One("air")) >>,
    << Cmd(<< Wd("CONF"), V, Wd("SOURCE") >>, Three("MANUAL,2,1", "MANUAL", "2", "1")),
       Cmd(<< Wd("SOURCE") >>, Three("INTERNAL,1,1", "INTERNAL", "1", "1")) >>,
    << Cmd(<< Wd("CONF"), V, Wd("SOURCE") >>, Three("INTERNAL,1,2", "INTERNAL", "1", "2")) >>,
    << Cmd(<< Wd("CONF"), V, Wd("SOURCE") >>, Three("I2C,48,TMP102", "I2C", "48", "TMP102")) >>,
    << Cmd(<< Wd("WRITE"), V >>, One("300")), Cmd(<< Wd("VSENSOR") >>, One("2")) >>,
    << Cmd(<< Wd("MEAS"), V, Ask("TEMP") >>, NoArg), Cmd(<< Ask("HUM") >>, NoArg) >> }
FileLines ==
  { << Cmd(<< Wd("CONF"), Wd("SAVE") >>, NoArg) >>, << Cmd(<< Wd("CONF"), Wd("DELETE") >>, NoArg) >>,
    << Cmd(<< Wd("SYS"), Ask("LFS") >>, NoArg),
       Cmd(<< Wd("LFS"), Wd("FORMAT") >>, NoArg) >>,
    << Cmd(<< Wd("SYS"), Wd("LFS"), Wd("DEL") >>, One("key.pem")) >>,
    << Cmd(<< Wd("SYS"), Wd("LFS"), Wd("REN") >>, Two("cert.pem,key.pem", "cert.pem", "key.pem")) >>,
    << Cmd(<< Wd("SYS"), Wd("LFS"), Wd("COPY") >>, Two("key.pem,lcdpico.cfg", "key.pem", "lcdpico.cfg")) >>,
    << Cmd(<< Wd("SYS"), Wd("SSH"), Wd("KEY"), Wd("CREATE") >>, One("RSA")),
       Cmd(<< Wd("DELETE") >>, One("RSA")) >>,
    << Cmd(<< Wd("SYS"), Wd("SSH"), Wd("PUBKEY"), Wd("ADD") >>,
           [text |-> "me ssh-rsa AAAA", toks |-> << "me", "ssh-rsa", "AAAA" >>]),
       Cmd(<< Wd("DEL") >>, One("300")) >> }
PasteLines ==
  { << Cmd(<< Wd("CONF"), Wd("UPLOAD") >>, NoArg) >>,
    << Cmd(<< Wd("SYS"), Wd("TLS"), Wd("PKEY") >>, One("2")) >>,
    << Cmd(<< Wd("SYS"), Wd("TLS"), Wd("CERT") >>, One("DELETE")) >> }
OtherLines ==
  { << FromRoot(<< Wd("*RST") >>) >>, << Cmd(<< Wd("SYS"), Wd("UPGRADE") >>, NoArg) >>,
    << Cmd(<< Wd("NONE") >>, NoArg), Cmd(<< Ask("CONF") >>, NoArg) >>,
    << Cmd(<< Wd("SYS"), Wd("TIME") >>, One("12:00")), FromRoot(<< Wd("*IDN") >>) >>,
    << Cmd(<< Wd("SYS"), Wd("WIFI"), Wd("REJOIN") >>, NoArg),
       FromRoot(<< Wd("SYS"), Wd("MEMTEST") >>), FromRoot(<< Wd("EXIT") >>) >> }
MCLines == SettingLines \cup SensorLines \cup FileLines \cup PasteLines \cup OtherLines

(* A drift that never jumps is noticed all the same: what is kept is never  *)
(* a threshold away from what was read last.                               *)
ASSUME DriftIsSeen ==
  \A a, b, c \in 0 .. 4 :
    LET at(t) == [i \in Sensors |-> t]
        kept == TempPrev(TempPrev(at(a), at(b), 2), at(c), 2)
    IN \A i \in Sensors : Abs(kept[i] - c) < 2

=============================================================================
