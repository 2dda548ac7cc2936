----------------------------- MODULE ConsoleProofs -----------------------------
(***************************************************************************)
(* Proofs about the command line, for any lines of commands, any documents  *)
(* that are pasted, any default configuration and any faults of the flash.  *)
(* ConsoleInv is inductive: the configuration in use has all of its sensors,*)
(* whatever was read into it; each handler that is still to run was called  *)
(* with a segment of the command that is being executed, after a stack of   *)
(* such segments; and a text that is being pasted has not ended.  SavedInv   *)
(* is inductive with it: what is in use can be stored, and what is stored   *)
(* can be read, so that a configuration that is saved comes back.          *)
(***************************************************************************)
EXTENDS Console, SequenceTheorems, WellFoundedInduction, TLAPS

IsMap(f) == f = [x \in DOMAIN f |-> f[x]]

SensorsWhole(c) ==
  /\ IsMap(c) /\ "vsensors" \in DOMAIN c /\ "vtemp" \in DOMAIN c
  /\ c.vsensors = [i \in Sensors |-> c.vsensors[i]]
  /\ c.vtemp = [i \in Sensors |-> c.vtemp[i]]
  /\ \A i \in Sensors : "mode" \in DOMAIN c.vsensors[i]

Listed(s) == s \in Seq(ToSet(s))
Spelled(c, cmd) == c.s \in ToSet(cmd.segs) /\ c.stack \in Seq(ToSet(cmd.segs))
Calling(cs, cmd) == Listed(cs) /\ \A k \in DOMAIN cs : Spelled(cs[k], cmd)

Queue ==
  /\ todo \in Seq(Commands)
  /\ calls # << >> => todo # << >> /\ Calling(calls, Head(todo))
  /\ task \in {"upload", "pem"} => calls # << >>

Unended(r) == DOMAIN r = {"state", "blanks", "lines", "ended"} /\ ~r.ended
Pasted == task = "upload" => Unended(paste)

ConsoleInv == SensorsWhole(conf) /\ Queue /\ Pasted /\ entered \in Nat

-----------------------------------------------------------------------------
(* What f ++ g has: the values of f, and those of g where f has none.      *)
LEMMA Joined ==
  ASSUME NEW f, NEW g
  PROVE  /\ DOMAIN (f ++ g) = DOMAIN f \cup DOMAIN g
         /\ \A x \in DOMAIN f : (f ++ g)[x] = f[x]
         /\ \A x \in DOMAIN g \ DOMAIN f : (f ++ g)[x] = g[x]
         /\ IsMap(f ++ g)
BY DEF ++, IsMap

(* The configuration has its sensors, whatever text it is read from.       *)
LEMMA JoinKeepsSensors ==
  ASSUME NEW f, NEW g, SensorsWhole(f)
  PROVE  SensorsWhole(f ++ g)
<1> DEFINE h == f ++ g
<1>1. IsMap(h) /\ DOMAIN h = DOMAIN f \cup DOMAIN g /\ \A x \in DOMAIN f : h[x] = f[x]
  BY Joined
<1> HIDE DEF h
<1>2. SensorsWhole(h)
  BY <1>1 DEF SensorsWhole
<1> QED BY <1>2 DEF h

LEMMA ClearedWhole == ASSUME NEW c PROVE SensorsWhole(ClearConfig(c))
<1>1. SensorsWhole(ClearedSensors)
  BY SMT DEF SensorsWhole, ClearedSensors, ClearedSensor, IsMap
<1>2. SensorsWhole(Cleared)
  BY <1>1, JoinKeepsSensors DEF Cleared
<1> QED BY <1>2, JoinKeepsSensors DEF ClearConfig

LEMMA ReadWhole ==
  ASSUME NEW json, NEW c, SensorsWhole(c)
  PROVE  SensorsWhole(JsonToConfig(json, c))
<1> DEFINE read == JsonToConfig(json, c)
           sensors == IF "vsensors" \in DOMAIN json THEN DOMAIN json.vsensors \cap Sensors
                      ELSE {}
           vs == [i \in Sensors |-> IF i \in sensors
                                    THEN Json2Sensor(json.vsensors[i], c.vsensors[i])
                                    ELSE c.vsensors[i]]
<1>1. IsMap(read) /\ DOMAIN read = DOMAIN c
  BY DEF JsonToConfig, IsMap
<1>2. read.vsensors = vs
  BY DEF JsonToConfig, SensorsWhole
<1>3. read.vtemp = [i \in Sensors |-> read.vtemp[i]]
  BY DEF JsonToConfig, SensorsWhole
<1>4. ASSUME NEW i \in Sensors PROVE "mode" \in DOMAIN vs[i]
  BY <1>4 DEF SensorsWhole, Json2Sensor
<1> HIDE DEF vs, read
<1>5. vs = [i \in Sensors |-> vs[i]]
  BY DEF vs
<1>6. SensorsWhole(read)
  BY <1>1, <1>2, <1>3, <1>4, <1>5 DEF SensorsWhole
<1> QED BY <1>6 DEF read

LEMMA BootWhole ==
  ASSUME NEW json, NEW safemode, NEW c
  PROVE  SensorsWhole(ReadConfig(json, Default, safemode, c))
<1> DEFINE from == IF safemode \/ json = NoJson THEN Default ELSE json
           loaded == JsonToConfig(from, ClearConfig(c))
<1>1. SensorsWhole(loaded)
  BY ClearedWhole, ReadWhole
<1>2. ReadConfig(json, Default, safemode, c) =
        IF safemode THEN [loaded EXCEPT !.log_level = 6, !.local_echo = TRUE] ELSE loaded
  BY DEF ReadConfig
<1> HIDE DEF loaded
<1>3. SensorsWhole([loaded EXCEPT !.log_level = 6, !.local_echo = TRUE])
  BY <1>1 DEF SensorsWhole, IsMap
<1> QED BY <1>1, <1>2, <1>3

LEMMA UploadedWhole ==
  ASSUME NEW lines, SensorsWhole(conf)
  PROVE  SensorsWhole(Uploaded(lines))
BY ClearedWhole, ReadWhole DEF Uploaded, UploadConfig

-----------------------------------------------------------------------------
(* Every row sets one variable, not a sensor or a public key, by a setter    *)
(* there is and that the variable has; and a setter that refuses leaves the *)
(* variable as it was.                                                     *)
Kinds ==
  {"bool", "uint8", "uint16", "uint32", "float", "string", "ip", "iplist", "acl", "mask",
   "passwd", "auth", "level", "led"}
ListLen(f) == IF f = "dns_servers" THEN DNS_MAX_SERVERS ELSE SNTP_MAX_SERVERS
GoodRow(row) ==
  /\ row.kind \in Kinds /\ row.field \notin {"vsensors", "vtemp", "ssh_pubkeys"}
  /\ row.field \in Unset => row.kind \in {"uint8", "uint16"} /\ row.min = 0
  /\ row.field \in IpLists => row.kind = "iplist" /\ row.max = ListLen(row.field)
  /\ row.field \in Acls => row.kind = "acl"
GoodRows(rows) == \A r \in DOMAIN rows : GoodRow(rows[r])

LEMMA JoinedRows ==
  ASSUME NEW f, NEW g, GoodRows(f), GoodRows(g)
  PROVE  GoodRows(f ++ g)
<1> DEFINE h == f ++ g
<1>1. /\ DOMAIN h = DOMAIN f \cup DOMAIN g
      /\ \A r \in DOMAIN f : h[r] = f[r]
      /\ \A r \in DOMAIN g \ DOMAIN f : h[r] = g[r]
  BY Joined
<1> HIDE DEF h
<1>2. GoodRows(h)
  BY <1>1 DEF GoodRows
<1> QED BY <1>2 DEF h

LEMMA GoodPanelSettings == GoodRows(PanelSettings)
BY SMT DEF GoodRows, GoodRow, ListLen, Kinds, Unset, IpLists, Acls, Plain, Within, Text,
           PanelSettings
LEMMA GoodLevelSettings == GoodRows(LevelSettings)
BY SMT DEF GoodRows, GoodRow, ListLen, Kinds, Unset, IpLists, Acls, Plain, Within, Text,
           LevelSettings
LEMMA GoodAddressSettings == GoodRows(AddressSettings)
BY SMT DEF GoodRows, GoodRow, ListLen, Kinds, Unset, IpLists, Acls, Plain, Within, Text,
           AddressSettings
LEMMA GoodNetworkName == GoodRows(NetworkName)
BY SMT DEF GoodRows, GoodRow, ListLen, Kinds, Unset, IpLists, Acls, Plain, Within, Text,
           NetworkName
LEMMA GoodStationSettings == GoodRows(StationSettings)
BY SMT DEF GoodRows, GoodRow, ListLen, Kinds, Unset, IpLists, Acls, Plain, Within, Text,
           StationSettings
LEMMA GoodSshSettings == GoodRows(SshSettings)
BY SMT DEF GoodRows, GoodRow, ListLen, Kinds, Unset, IpLists, Acls, Plain, Within, Text,
           SshSettings
LEMMA GoodSshAccess == GoodRows(SshAccess)
BY SMT DEF GoodRows, GoodRow, ListLen, Kinds, Unset, IpLists, Acls, Plain, Within, Text,
           SshAccess
LEMMA GoodTelnetSettings == GoodRows(TelnetSettings)
BY SMT DEF GoodRows, GoodRow, ListLen, Kinds, Unset, IpLists, Acls, Plain, Within, Text,
           TelnetSettings
LEMMA GoodHttpSettings == GoodRows(HttpSettings)
BY SMT DEF GoodRows, GoodRow, ListLen, Kinds, Unset, IpLists, Acls, Plain, Within, Text,
           HttpSettings
LEMMA GoodZoneSetting == GoodRows(ZoneSetting)
BY SMT DEF GoodRows, GoodRow, ListLen, Kinds, Unset, IpLists, Acls, Plain, Within, Text,
           ZoneSetting
LEMMA GoodNameSetting == GoodRows(NameSetting)
BY SMT DEF GoodRows, GoodRow, ListLen, Kinds, Unset, IpLists, Acls, Plain, Within, Text,
           NameSetting
LEMMA GoodBusSettings == GoodRows(BusSettings)
BY SMT DEF GoodRows, GoodRow, ListLen, Kinds, Unset, IpLists, Acls, Plain, Within, Text,
           BusSettings

LEMMA GoodSettingRows == GoodRows(SettingRows)
BY GoodPanelSettings, GoodLevelSettings, GoodAddressSettings, GoodNetworkName,
   GoodStationSettings, GoodSshSettings, GoodSshAccess, GoodTelnetSettings, GoodHttpSettings,
   GoodZoneSetting, GoodNameSetting, GoodBusSettings, JoinedRows DEF SettingRows

Refuses(set, old) == set.res # 0 => set.val = old

LEMMA RefusedSetting ==
  ASSUME NEW row, row.kind \in Kinds, NEW old, NEW a
  PROVE  Refuses(Set(row, old, a), old)
<1> USE DEF Refuses, Done, Refused
<1>1. CASE row.kind = "bool"
  <2>1. Set(row, old, a) = BoolSetting(old, a)
    BY <1>1 DEF Set
  <2>2. Refuses(BoolSetting(old, a), old)
    BY DEF BoolSetting
  <2> QED BY <2>1, <2>2
<1>2. CASE row.kind = "uint8"
  <2>1. Set(row, old, a) = UintSetting(8, old, a, row.min, row.max)
    BY <1>2 DEF Set
  <2>2. Refuses(UintSetting(8, old, a, row.min, row.max), old)
    BY DEF UintSetting
  <2> QED BY <2>1, <2>2
<1>3. CASE row.kind = "uint16"
  <2>1. Set(row, old, a) = UintSetting(16, old, a, row.min, row.max)
    BY <1>3 DEF Set
  <2>2. Refuses(UintSetting(16, old, a, row.min, row.max), old)
    BY DEF UintSetting
  <2> QED BY <2>1, <2>2
<1>4. CASE row.kind = "uint32"
  <2>1. Set(row, old, a) = Uint32Setting(old, a, row.min, row.max)
    BY <1>4 DEF Set
  <2>2. Refuses(Uint32Setting(old, a, row.min, row.max), old)
    BY DEF Uint32Setting
  <2> QED BY <2>1, <2>2
<1>5. CASE row.kind = "float"
  <2>1. Set(row, old, a) = FloatSetting(old, a, row.min, row.max)
    BY <1>5 DEF Set
  <2>2. Refuses(FloatSetting(old, a, row.min, row.max), old)
    BY DEF FloatSetting
  <2> QED BY <2>1, <2>2
<1>6. CASE row.kind = "string"
  <2>1. Set(row, old, a) = StringSetting(old, a, row.valid)
    BY <1>6 DEF Set
  <2>2. Refuses(StringSetting(old, a, row.valid), old)
    BY DEF StringSetting
  <2> QED BY <2>1, <2>2
<1>7. CASE row.kind = "ip"
  <2>1. Set(row, old, a) = IpChange(old, a)
    BY <1>7 DEF Set
  <2>2. Refuses(IpChange(old, a), old)
    BY DEF IpChange
  <2> QED BY <2>1, <2>2
<1>8. CASE row.kind = "iplist"
  <2>1. Set(row, old, a) = IpListChange(old, a, row.max)
    BY <1>8 DEF Set
  <2>2. Refuses(IpListChange(old, a, row.max), old)
    BY DEF IpListChange
  <2> QED BY <2>1, <2>2
<1>9. CASE row.kind = "acl"
  <2>1. Set(row, old, a) = AclListChange(old, a, MAX_ACL_ENTRIES)
    BY <1>9 DEF Set
  <2>2. Refuses(AclListChange(old, a, MAX_ACL_ENTRIES), old)
    BY DEF AclListChange
  <2> QED BY <2>1, <2>2
<1>10. CASE row.kind = "mask"
  <2>1. Set(row, old, a) = Bitmask16Setting(old, a, VSENSOR_COUNT)
    BY <1>10 DEF Set
  <2>2. Refuses(Bitmask16Setting(old, a, VSENSOR_COUNT), old)
    BY DEF Bitmask16Setting
  <2> QED BY <2>1, <2>2
<1>11. CASE row.kind = "passwd"
  <2>1. Set(row, old, a) = PwHash(a)
    BY <1>11 DEF Set
  <2>2. Refuses(PwHash(a), old)
    BY DEF PwHash
  <2> QED BY <2>1, <2>2
<1>12. CASE row.kind = "auth"
  <2>1. Set(row, old, a) = AuthMode(old, a)
    BY <1>12 DEF Set
  <2>2. Refuses(AuthMode(old, a), old)
    BY DEF AuthMode
  <2> QED BY <2>1, <2>2
<1>13. CASE row.kind = "level"
  <2>1. Set(row, old, a) = Level(old, a)
    BY <1>13 DEF Set
  <2>2. Refuses(Level(old, a), old)
    BY DEF Level
  <2> QED BY <2>1, <2>2
<1>14. CASE row.kind = "led"
  <2>1. Set(row, old, a) = LedMode(old, a)
    BY <1>14 DEF Set
  <2>2. Refuses(LedMode(old, a), old)
    BY DEF LedMode
  <2> QED BY <2>1, <2>2
<1> QED BY <1>1, <1>2, <1>3, <1>4, <1>5, <1>6, <1>7, <1>8, <1>9, <1>10, <1>11, <1>12, <1>13,
           <1>14 DEF Kinds

-----------------------------------------------------------------------------
(* The walk of run_cmd: whatever table it is in, it calls handlers with     *)
(* segments of the command, after stacks of its segments.                  *)
LEMMA CountingUp ==
  ASSUME NEW S, 0 \in S, \A n \in Nat : n \in S => n + 1 \in S
  PROVE  Nat \subseteq S
<1> SUFFICES ASSUME NEW k \in Nat, k \notin S PROVE FALSE
  OBVIOUS
<1> DEFINE missed == Nat \ S
           less == OpToRel(<, Nat)
<1>1. IsWellFoundedOn(less, Nat)
  BY NatLessThanWellFounded
<1>2. \A m, n \in Nat : m < n => << m, n >> \in less
  BY DEF OpToRel
<1>3. missed \subseteq Nat /\ missed # {}
  OBVIOUS
<1> HIDE DEF less
<1>4. PICK n \in missed : \A m \in missed : << m, n >> \notin less
  BY <1>1, <1>3, WFMin
<1>5. n # 0 /\ n - 1 \in Nat /\ n - 1 < n /\ (n - 1) + 1 = n
  BY <1>4
<1>6. n - 1 \notin missed
  BY <1>2, <1>4, <1>5
<1> QED BY <1>4, <1>5, <1>6

LEMMA ListedGrows ==
  ASSUME NEW s, Listed(s), NEW x
  PROVE  /\ Listed(Append(s, x)) /\ DOMAIN Append(s, x) = 1 .. Len(s) + 1 /\ Len(s) \in Nat
         /\ \A k \in 1 .. Len(s) : k \in DOMAIN s /\ Append(s, x)[k] = s[k]
         /\ Append(s, x)[Len(s) + 1] = x
<1> DEFINE S == ToSet(s) \cup {x}
           t == Append(s, x)
<1>1. s \in Seq(S) /\ x \in S
  BY DEF Listed
<1>2. /\ t \in Seq(S) /\ Len(t) = Len(s) + 1 /\ Len(s) \in Nat /\ DOMAIN s = 1 .. Len(s)
      /\ \A k \in 1 .. Len(s) : t[k] = s[k]
      /\ t[Len(s) + 1] = x
  BY <1>1
<1> HIDE DEF t, S
<1>3. DOMAIN t = 1 .. Len(s) + 1
  BY <1>2
<1>4. t \in Seq(ToSet(t))
  BY <1>2 DEF ToSet
<1> QED BY <1>2, <1>3, <1>4 DEF t, Listed

LEMMA CallingGrows ==
  ASSUME NEW cmd, NEW cs, Calling(cs, cmd), NEW c, Spelled(c, cmd)
  PROVE  Calling(Append(cs, c), cmd)
<1>1. Listed(cs) /\ \A k \in DOMAIN cs : Spelled(cs[k], cmd)
  BY DEF Calling
<1>2. ASSUME NEW k \in 1 .. Len(cs) + 1 PROVE Spelled(Append(cs, c)[k], cmd)
  <2>1. CASE k = Len(cs) + 1
    BY <1>1, <2>1, ListedGrows
  <2>2. CASE k # Len(cs) + 1
    <3>1. k \in 1 .. Len(cs)
      BY <1>1, <2>2, ListedGrows
    <3> QED BY <1>1, <3>1, ListedGrows
  <2> QED BY <2>1, <2>2
<1> QED BY <1>1, <1>2, ListedGrows DEF Calling

OnPath(st, cmd) ==
  /\ DOMAIN st = {"level", "stack", "calls", "stopped"}
  /\ st.stack \in Seq(ToSet(cmd.segs))
  /\ Calling(st.calls, cmd)

LEMMA TurnWalks ==
  ASSUME NEW cmd, NEW st, OnPath(st, cmd), NEW s \in ToSet(cmd.segs), NEW more
  PROVE  OnPath(Turn(st, s, more), cmd)
<1>1. ASSUME NEW row PROVE OnPath(Down(st, s, row), cmd)
  <2>1. /\ Down(st, s, row).calls = st.calls
        /\ Down(st, s, row).stack = IF Len(st.stack) < MAX_CMD_DEPTH THEN Append(st.stack, s)
                                    ELSE st.stack
        /\ DOMAIN Down(st, s, row) = DOMAIN st
    BY DEF OnPath, Down
  <2>2. Down(st, s, row).stack \in Seq(ToSet(cmd.segs))
    <3>1. st.stack \in Seq(ToSet(cmd.segs))
      BY DEF OnPath
    <3>2. Append(st.stack, s) \in Seq(ToSet(cmd.segs))
      BY <3>1, AppendProperties
    <3> QED BY <2>1, <3>1, <3>2
  <2> QED BY <2>1, <2>2 DEF OnPath
<1>2. ASSUME NEW row PROVE OnPath(Call(st, s, row), cmd)
  <2> DEFINE c == [func |-> row[3], s |-> s, stack |-> st.stack]
  <2>1. /\ Call(st, s, row).calls = Append(st.calls, c)
        /\ Call(st, s, row).stack = st.stack
        /\ DOMAIN Call(st, s, row) = DOMAIN st
    BY DEF OnPath, Call
  <2>2. Spelled(c, cmd)
    BY DEF Spelled, OnPath
  <2> HIDE DEF c
  <2>3. Calling(Append(st.calls, c), cmd)
    BY <2>2, CallingGrows DEF OnPath
  <2> QED BY <2>1, <2>3 DEF OnPath
<1>3. OnPath([st EXCEPT !.stopped = TRUE], cmd)
  BY DEF OnPath
<1> QED BY <1>1, <1>2, <1>3 DEF Turn

LEMMA NothingCalled == ASSUME NEW cmd PROVE Calling(<< >>, cmd)
BY DEF Calling, Listed, ToSet

LEMMA RunCmdSpells ==
  ASSUME NEW cmd, IsCommand(cmd), NEW lvl
  PROVE  Calling(RunCmd(cmd, lvl, << >>).calls, cmd)
<1> DEFINE n == Len(cmd.segs)
           start == [level |-> IF cmd.root THEN "commands" ELSE lvl,
                     stack |-> IF cmd.root THEN << >> ELSE << >>,
                     calls |-> << >>, stopped |-> FALSE]
           next(g, i) == Turn(g[i - 1], cmd.segs[i], i < n)
           Equation(f) == f = [i \in 0 .. n |-> IF i = 0 THEN start ELSE next(f, i)]
           Along(g, k) == g = [i \in 0 .. k |-> IF i = 0 THEN start ELSE next(g, i)]
           turned == CHOOSE f : Equation(f)
<1>1. n \in Nat /\ \A i \in 1 .. n : cmd.segs[i] \in ToSet(cmd.segs)
  BY DEF IsCommand
<1>2. OnPath(start, cmd)
  BY NothingCalled DEF OnPath
<1>3. RunCmd(cmd, lvl, << >>) = turned[n]
  BY DEF RunCmd
<1> HIDE DEF n, start
<1> DEFINE S == {k \in Nat : \E g : Along(g, k)}
<1>4. 0 \in S
  <2> DEFINE g == [i \in 0 .. 0 |-> start]
  <2>1. Along(g, 0)
    OBVIOUS
  <2> QED BY <2>1
<1>5. ASSUME NEW k \in Nat, k \in S PROVE k + 1 \in S
  <2>1. PICK g : Along(g, k)
    BY <1>5
  <2> DEFINE h == [i \in 0 .. k + 1 |-> IF i = 0 THEN start ELSE next(g, i)]
  <2>2. \A i \in 0 .. k : h[i] = g[i]
    BY <2>1
  <2>3. \A i \in 0 .. k + 1 : i # 0 => i - 1 \in 0 .. k
    OBVIOUS
  <2>4. \A i \in 0 .. k + 1 : h[i] = IF i = 0 THEN start ELSE next(h, i)
    BY <2>2, <2>3
  <2>5. h = [i \in 0 .. k + 1 |-> h[i]]
    OBVIOUS
  <2> HIDE DEF h
  <2>6. Along(h, k + 1)
    BY <2>4, <2>5
  <2> QED BY <2>6
<1> HIDE DEF S
<1>6. n \in S
  BY <1>1, <1>4, <1>5, CountingUp
<1>7. \E f : Equation(f)
  BY <1>6 DEF S
<1>8. Equation(turned)
  <2> HIDE DEF Equation
  <2> QED BY <1>7
<1> HIDE DEF turned
<1>9. turned[0] = start /\ \A i \in 1 .. n : turned[i] = Turn(turned[i - 1], cmd.segs[i], i < n)
  <2>1. \A i \in 0 .. n : turned[i] = IF i = 0 THEN start ELSE next(turned, i)
    BY <1>8
  <2>2. 0 \in 0 .. n /\ \A i \in 1 .. n : i \in 0 .. n /\ i # 0
    BY <1>1
  <2> QED BY <2>1, <2>2
<1> DEFINE W == {k \in Nat : k <= n => OnPath(turned[k], cmd)}
<1>10. 0 \in W
  BY <1>2, <1>9
<1>11. ASSUME NEW k \in Nat, k \in W PROVE k + 1 \in W
  <2>1. CASE k + 1 <= n
    <3>1. k + 1 \in 1 .. n /\ (k + 1) - 1 = k /\ OnPath(turned[k], cmd)
      BY <1>1, <1>11, <2>1
    <3>2. turned[k + 1] = Turn(turned[k], cmd.segs[k + 1], k + 1 < n)
      BY <1>9, <3>1
    <3>3. cmd.segs[k + 1] \in ToSet(cmd.segs)
      BY <1>1, <3>1
    <3>4. OnPath(turned[k + 1], cmd)
      BY <3>1, <3>2, <3>3, TurnWalks
    <3> QED BY <3>4
  <2>2. CASE ~(k + 1 <= n)
    BY <2>2
  <2> QED BY <2>1, <2>2
<1> HIDE DEF W
<1>12. n \in W
  BY <1>1, <1>10, <1>11, CountingUp
<1>13. OnPath(turned[n], cmd)
  BY <1>1, <1>12 DEF W
<1> QED BY <1>3, <1>13 DEF OnPath

-----------------------------------------------------------------------------
(* A sensor's number that a handler takes from the stack or from its own     *)
(* word is spelled out in the command.                                     *)
LEMMA SegmentSpells ==
  ASSUME NEW cmd, IsCommand(cmd), NEW s \in ToSet(cmd.segs), IsSensor(GetCmdIndex(s) - 1)
  PROVE  Spells(cmd, GetCmdIndex(s) - 1)
<1>1. PICK k \in DOMAIN cmd.segs : s = cmd.segs[k]
  BY DEF ToSet
<1>2. s.n \in Seq(Int) /\ Len(s.n) \in {0, 1}
  BY DEF IsCommand
<1>3. s.n # << >>
  BY SettingsAssumption DEF IsSensor, GetCmdIndex, None
<1>4. Len(s.n) = 1 /\ s.n[1] \in Int
  BY <1>2, <1>3
<1>5. GetCmdIndex(s) = s.n[1]
  BY <1>3 DEF GetCmdIndex, None
<1>6. s.n = << s.n[1] >>
  BY <1>2, <1>4
<1>7. s.n = << (GetCmdIndex(s) - 1) + 1 >>
  BY <1>4, <1>5, <1>6
<1> QED BY <1>1, <1>7 DEF Spells

LEMMA StackSpells ==
  ASSUME NEW cmd, IsCommand(cmd), NEW stack \in Seq(ToSet(cmd.segs)), IsSensor(PrevIndex(stack))
  PROVE  Spells(cmd, PrevIndex(stack))
<1>1. stack # << >>
  BY SettingsAssumption DEF IsSensor, PrevIndex, GetPrevCmdIndex
<1>2. Last(stack) \in ToSet(cmd.segs)
  BY <1>1 DEF Last
<1>3. PrevIndex(stack) = GetCmdIndex(Last(stack)) - 1
  BY <1>1 DEF PrevIndex, GetPrevCmdIndex
<1> QED BY <1>2, <1>3, SegmentSpells

LEMMA CallSpells ==
  ASSUME ConsoleInv, calls # << >>
  PROVE  /\ IsCommand(Head(todo))
         /\ IsSensor(PrevIndex(call.stack)) => Spells(Head(todo), PrevIndex(call.stack))
         /\ IsSensor(SensorOf(call.s, call.stack)) =>
              Spells(Head(todo), SensorOf(call.s, call.stack))
<1>1. todo \in Seq(Commands) /\ todo # << >> /\ Calling(calls, Head(todo))
  BY DEF ConsoleInv, Queue
<1>2. IsCommand(Head(todo))
  BY <1>1, LinesAssumption
<1>3. Spelled(call, Head(todo))
  BY <1>1 DEF Calling, Listed, call
<1>4. call.s \in ToSet(Head(todo).segs) /\ call.stack \in Seq(ToSet(Head(todo).segs))
  BY <1>3 DEF Spelled
<1> QED BY <1>2, <1>4, SegmentSpells, StackSpells DEF SensorOf

-----------------------------------------------------------------------------
(* What a handler does: it leaves every sensor there is, refuses without a  *)
(* change, but for the source of a sensor, and changes only sensors that    *)
(* the command spells out.                                                 *)
InternalSet(new) ==
  /\ call.func = "vsensor_source"
  /\ \E i \in Sensors : /\ new.vsensors[i].mode = "internal"
                        /\ new = [conf EXCEPT !.vsensors[i] = new.vsensors[i]]
Touches(new, i) == new.vsensors[i] # conf.vsensors[i] \/ new.vtemp[i] # conf.vtemp[i]
Acceptable(res, new) ==
  /\ SensorsWhole(new)
  /\ res # 0 /\ new # conf => InternalSet(new)
  /\ \A i \in Sensors : Touches(new, i) => Spells(Head(todo), i)

Handled ==
  /\ task = "ready" /\ calls # << >>
  /\ \/ \E res, new : Configure(res, new) /\ Acceptable(res, new)
     \/ \E res, new : File(res, new)
     \/ \E reader : Begin("upload", reader) /\ Unended(reader)
     \/ \E reader : Begin("pem", reader)

LEMMA NothingChanged == ASSUME ConsoleInv, NEW res PROVE Acceptable(res, conf)
BY DEF Acceptable, ConsoleInv, Touches

LEMMA SensorPut ==
  ASSUME SensorsWhole(conf), NEW idx \in Sensors, NEW v, "mode" \in DOMAIN v
  PROVE  LET new == [conf EXCEPT !.vsensors[idx] = v]
         IN /\ SensorsWhole(new)
            /\ \A i \in Sensors : Touches(new, i) => i = idx
            /\ new.vsensors[idx] = v
            /\ v = conf.vsensors[idx] => new = conf
<1> DEFINE new == [conf EXCEPT !.vsensors[idx] = v]
<1>1. /\ IsMap(conf) /\ "vsensors" \in DOMAIN conf /\ "vtemp" \in DOMAIN conf
      /\ conf.vsensors = [i \in Sensors |-> conf.vsensors[i]]
      /\ conf.vtemp = [i \in Sensors |-> conf.vtemp[i]]
      /\ \A i \in Sensors : "mode" \in DOMAIN conf.vsensors[i]
  BY DEF SensorsWhole
<1>2. /\ IsMap(new) /\ DOMAIN new = DOMAIN conf /\ new.vtemp = conf.vtemp
      /\ new.vsensors = [conf.vsensors EXCEPT ![idx] = v]
      /\ \A f \in DOMAIN conf \ {"vsensors"} : new[f] = conf[f]
  BY <1>1 DEF IsMap
<1> HIDE DEF new
<1>3. /\ new.vsensors = [i \in Sensors |-> new.vsensors[i]]
      /\ new.vsensors[idx] = v
      /\ \A i \in Sensors \ {idx} : new.vsensors[i] = conf.vsensors[i]
  BY <1>1, <1>2
<1>4. SensorsWhole(new)
  <2>1. \A i \in Sensors : "mode" \in DOMAIN new.vsensors[i]
    BY <1>1, <1>3
  <2> QED BY <1>1, <1>2, <1>3, <2>1 DEF SensorsWhole
<1>5. \A i \in Sensors : Touches(new, i) => i = idx
  BY <1>2, <1>3 DEF Touches
<1>6. v = conf.vsensors[idx] => new = conf
  <2> SUFFICES ASSUME v = conf.vsensors[idx] PROVE new = conf
    OBVIOUS
  <2>1. new.vsensors = conf.vsensors
    BY <1>1, <1>3
  <2>2. \A f \in DOMAIN conf : new[f] = conf[f]
    BY <1>2, <2>1
  <2> QED BY <1>1, <1>2, <2>2 DEF IsMap
<1> QED BY <1>3, <1>4, <1>5, <1>6 DEF new

(* Each handler is of this kind.                                           *)
LEMMA SettingHandled == ConsoleInv /\ Setting => Handled
<1> SUFFICES ASSUME ConsoleInv, Setting PROVE Handled
  OBVIOUS
<1> DEFINE row == SettingRows[call.func]
           set == Set(row, conf[row.field], arg)
           new == [conf EXCEPT ![row.field] = set.val]
<1>1. task = "ready" /\ calls # << >> /\ call.func \in DOMAIN SettingRows
  BY DEF Setting, Running
<1>2. row.kind \in Kinds /\ row.field \notin {"vsensors", "vtemp"}
  BY <1>1, GoodSettingRows DEF GoodRows, GoodRow
<1>3. Configure(0, conf) \/ Configure(set.res, new)
  BY DEF Setting
<1>4. Refuses(set, conf[row.field])
  BY <1>2, RefusedSetting
<1> HIDE DEF row, set
<1>5. SensorsWhole(conf)
  BY DEF ConsoleInv
<1>6. /\ SensorsWhole(new)
      /\ new.vsensors = conf.vsensors /\ new.vtemp = conf.vtemp
      /\ set.val = conf[row.field] => new = conf
  BY <1>2, <1>5 DEF SensorsWhole, IsMap
<1> HIDE DEF new
<1>7. Acceptable(set.res, new)
  BY <1>4, <1>6 DEF Acceptable, Refuses, Touches
<1> QED BY <1>1, <1>3, <1>7, NothingChanged DEF Handled

LEMMA PrintersHandled ==
  ASSUME ConsoleInv, Question \/ VsensorRead \/ Time \/ Exit \/ WifiRejoin \/ MemTest
  PROVE  Handled
<1>1. task = "ready" /\ calls # << >>
  BY DEF Question, VsensorRead, Time, Exit, WifiRejoin, MemTest, Running
<1>2. \E res : Configure(res, conf)
  BY DEF Question, VsensorRead, Time, Exit, WifiRejoin, MemTest, ActsUnlessAsked
<1> QED BY <1>1, <1>2, NothingChanged DEF Handled

LEMMA NameHandled == ConsoleInv /\ VsensorName => Handled
<1> SUFFICES ASSUME ConsoleInv, VsensorName PROVE Handled
  OBVIOUS
<1> DEFINE idx == PrevIndex(call.stack)
           v == [conf.vsensors[idx] EXCEPT !.name = arg.text]
           new == [conf EXCEPT !.vsensors[idx] = v]
<1>1. task = "ready" /\ calls # << >>
  BY DEF VsensorName, Running
<1>2. \/ \E res : Configure(res, conf)
      \/ IsSensor(idx) /\ Configure(0, [conf EXCEPT !.vsensors[idx].name = arg.text])
  BY DEF VsensorName
<1>3. [conf EXCEPT !.vsensors[idx].name = arg.text] = new
  OBVIOUS
<1>4. IsSensor(idx) => Acceptable(0, new)
  <2> SUFFICES ASSUME IsSensor(idx) PROVE Acceptable(0, new)
    OBVIOUS
  <2>1. idx \in Sensors /\ Spells(Head(todo), idx)
    BY <1>1, CallSpells DEF IsSensor, Sensors
  <2>2. SensorsWhole(conf)
    BY DEF ConsoleInv
  <2>3. "mode" \in DOMAIN v
    BY <2>1, <2>2 DEF SensorsWhole
  <2> HIDE DEF idx, v
  <2>4. SensorsWhole(new) /\ \A i \in Sensors : Touches(new, i) => i = idx
    BY <2>1, <2>2, <2>3, SensorPut
  <2> QED BY <2>1, <2>4 DEF Acceptable
<1> QED BY <1>1, <1>2, <1>3, <1>4, NothingChanged DEF Handled

LEMMA SourceSetting ==
  ASSUME NEW v, "mode" \in DOMAIN v, NEW a
  PROVE  LET set == VsensorSource(v, a)
         IN /\ "mode" \in DOMAIN set.val
            /\ set.res # 0 => set.val = v \/ set.val.mode = "internal"
BY DEF VsensorSource, Done, Refused

LEMMA SourceHandled == ConsoleInv /\ VsensorSources => Handled
<1> SUFFICES ASSUME ConsoleInv, VsensorSources PROVE Handled
  OBVIOUS
<1> DEFINE idx == PrevIndex(call.stack)
           set == VsensorSource(conf.vsensors[idx], arg)
           v == set.val
           new == [conf EXCEPT !.vsensors[idx] = v]
<1>1. task = "ready" /\ calls # << >> /\ call.func = "vsensor_source"
  BY DEF VsensorSources, Running
<1>2. \/ \E res : Configure(res, conf)
      \/ IsSensor(idx) /\ Configure(set.res, new)
  BY DEF VsensorSources
<1>3. IsSensor(idx) => Acceptable(set.res, new)
  <2> SUFFICES ASSUME IsSensor(idx) PROVE Acceptable(set.res, new)
    OBVIOUS
  <2>1. idx \in Sensors /\ Spells(Head(todo), idx)
    BY <1>1, CallSpells DEF IsSensor, Sensors
  <2>2. SensorsWhole(conf)
    BY DEF ConsoleInv
  <2>3. "mode" \in DOMAIN conf.vsensors[idx]
    BY <2>1, <2>2 DEF SensorsWhole
  <2>4. "mode" \in DOMAIN v /\ (set.res # 0 => v = conf.vsensors[idx] \/ v.mode = "internal")
    BY <2>3, SourceSetting
  <2> HIDE DEF idx, set
  <2>5. /\ SensorsWhole(new) /\ new.vsensors[idx] = v
        /\ \A i \in Sensors : Touches(new, i) => i = idx
        /\ v = conf.vsensors[idx] => new = conf
    BY <2>1, <2>2, <2>4, SensorPut
  <2>6. set.res # 0 /\ new # conf => InternalSet(new)
    BY <1>1, <2>1, <2>4, <2>5 DEF InternalSet
  <2> QED BY <2>1, <2>5, <2>6 DEF Acceptable
<1> QED BY <1>1, <1>2, <1>3, NothingChanged DEF Handled

LEMMA WriteSetting ==
  ASSUME NEW mode, NEW old, NEW a
  PROVE  Refuses(VsensorWrite(mode, old, a), old)
BY DEF VsensorWrite, Refuses, Done, Refused

LEMMA WriteHandled == ConsoleInv /\ VsensorSet => Handled
<1> SUFFICES ASSUME ConsoleInv, VsensorSet PROVE Handled
  OBVIOUS
<1> DEFINE idx == SensorOf(call.s, call.stack)
           set == VsensorWrite(conf.vsensors[idx].mode, conf.vtemp[idx], arg)
           new == [conf EXCEPT !.vtemp[idx] = set.val]
<1>1. task = "ready" /\ calls # << >>
  BY DEF VsensorSet, Running
<1>2. \/ \E res : Configure(res, conf)
      \/ IsSensor(idx) /\ Configure(set.res, new)
  BY DEF VsensorSet
<1>3. IsSensor(idx) => Acceptable(set.res, new)
  <2> SUFFICES ASSUME IsSensor(idx) PROVE Acceptable(set.res, new)
    OBVIOUS
  <2>1. idx \in Sensors /\ Spells(Head(todo), idx)
    BY <1>1, CallSpells DEF IsSensor, Sensors
  <2>2. Refuses(set, conf.vtemp[idx])
    BY WriteSetting
  <2> HIDE DEF idx, set
  <2>3. /\ IsMap(conf) /\ "vsensors" \in DOMAIN conf /\ "vtemp" \in DOMAIN conf
        /\ conf.vsensors = [i \in Sensors |-> conf.vsensors[i]]
        /\ conf.vtemp = [i \in Sensors |-> conf.vtemp[i]]
        /\ \A i \in Sensors : "mode" \in DOMAIN conf.vsensors[i]
    BY DEF ConsoleInv, SensorsWhole
  <2>4. /\ IsMap(new) /\ DOMAIN new = DOMAIN conf /\ new.vsensors = conf.vsensors
        /\ new.vtemp = [conf.vtemp EXCEPT ![idx] = set.val]
        /\ \A f \in DOMAIN conf \ {"vtemp"} : new[f] = conf[f]
    BY <2>3 DEF IsMap
  <2> HIDE DEF new
  <2>5. /\ new.vtemp = [i \in Sensors |-> new.vtemp[i]]
        /\ new.vtemp[idx] = set.val
        /\ \A i \in Sensors \ {idx} : new.vtemp[i] = conf.vtemp[i]
    BY <2>1, <2>3, <2>4
  <2>6. SensorsWhole(new)
    BY <2>3, <2>4, <2>5 DEF SensorsWhole
  <2>7. \A i \in Sensors : Touches(new, i) => i = idx
    BY <2>4, <2>5 DEF Touches
  <2>8. set.res # 0 => new = conf
    <3> SUFFICES ASSUME set.res # 0 PROVE new = conf
      OBVIOUS
    <3>1. new.vtemp = conf.vtemp
      BY <2>2, <2>3, <2>5 DEF Refuses
    <3>2. \A f \in DOMAIN conf : new[f] = conf[f]
      BY <2>4, <3>1
    <3> QED BY <2>3, <2>4, <3>2 DEF IsMap
  <2> QED BY <2>1, <2>6, <2>7, <2>8 DEF Acceptable
<1> QED BY <1>1, <1>2, <1>3, NothingChanged DEF Handled

LEMMA KeySetting ==
  ASSUME NEW keys, NEW a
  PROVE  Refuses(PubkeyAdd(keys, a), keys) /\ Refuses(PubkeyDel(keys, a), keys)
<1>1. Refuses(PubkeyAdd(keys, a), keys)
  BY DEF PubkeyAdd, Refuses, Done, Refused
<1>2. Refuses(PubkeyDel(keys, a), keys)
  BY DEF PubkeyDel, Refuses, Done, Refused
<1> QED BY <1>1, <1>2

LEMMA KeyHandled == ConsoleInv /\ Pubkey => Handled
<1> SUFFICES ASSUME ConsoleInv, Pubkey PROVE Handled
  OBVIOUS
<1> DEFINE set == IF call.func = "ssh_pubkey_add" THEN PubkeyAdd(conf.ssh_pubkeys, arg)
                  ELSE PubkeyDel(conf.ssh_pubkeys, arg)
           new == [conf EXCEPT !.ssh_pubkeys = set.val]
<1>1. task = "ready" /\ calls # << >>
  BY DEF Pubkey, Running
<1>2. Configure(1, conf) \/ Configure(set.res, new)
  BY DEF Pubkey
<1>3. Refuses(set, conf.ssh_pubkeys)
  BY KeySetting
<1> HIDE DEF set
<1>4. SensorsWhole(conf)
  BY DEF ConsoleInv
<1>5. /\ SensorsWhole(new)
      /\ new.vsensors = conf.vsensors /\ new.vtemp = conf.vtemp
      /\ set.val = conf.ssh_pubkeys => new = conf
  BY <1>4 DEF SensorsWhole, IsMap
<1> HIDE DEF new
<1>6. Acceptable(set.res, new)
  BY <1>3, <1>5 DEF Acceptable, Refuses, Touches
<1> QED BY <1>1, <1>2, <1>6, NothingChanged DEF Handled

LEMMA FilesHandled ==
  ASSUME ConsoleInv,
         \/ SaveConfig \/ DeleteConfig \/ LfsInfo \/ LfsDel \/ LfsFormat \/ LfsRen \/ LfsCopy
         \/ PkeyCommand
  PROVE  Handled
<1>1. task = "ready" /\ calls # << >>
  BY DEF SaveConfig, DeleteConfig, LfsInfo, LfsDel, LfsFormat, LfsRen, LfsCopy, PkeyCommand,
         Running
<1>2. \E res, new : File(res, new)
  BY DEF SaveConfig, DeleteConfig, LfsInfo, LfsDel, LfsFormat, LfsRen, LfsCopy, PkeyCommand,
         TwoIfFailed
<1> QED BY <1>1, <1>2 DEF Handled

LEMMA PastesHandled ==
  ASSUME ConsoleInv, StartUpload \/ StartPem
  PROVE  Handled
<1>1. task = "ready" /\ calls # << >>
  BY DEF StartUpload, StartPem, Running
<1>2. CASE StartUpload
  <2>1. Unended(Reading)
    BY DEF Unended, Reading
  <2>2. Configure(1, conf) \/ Begin("upload", Reading)
    BY <1>2 DEF StartUpload
  <2> QED BY <1>1, <2>1, <2>2, NothingChanged DEF Handled
<1>3. CASE StartPem
  <2>1. (\E res, new : File(res, new)) \/ (\E reader : Begin("pem", reader))
    BY <1>3 DEF StartPem
  <2> QED BY <1>1, <2>1 DEF Handled
<1> QED BY <1>2, <1>3

-----------------------------------------------------------------------------
(* ConsoleInv is inductive.                                                *)
LEMMA ConsoleStart == Init => ConsoleInv
<1> SUFFICES ASSUME Init PROVE ConsoleInv
  OBVIOUS
<1>1. SensorsWhole(conf)
  BY BootWhole DEF Init, Boot
<1>2. todo \in Seq(Commands) /\ calls = << >> /\ task = "ready" /\ entered = 0
  BY DEF Init
<1> QED BY <1>1, <1>2 DEF ConsoleInv, Queue, Pasted

LEMMA ReturnQueues ==
  ASSUME Queue, calls # << >>, NEW res, Return(res)
  PROVE  /\ todo' \in Seq(Commands)
         /\ calls' # << >> => todo' # << >> /\ Calling(calls', Head(todo'))
         /\ entered' = entered
<1>1. /\ todo \in Seq(Commands) /\ todo # << >> /\ Listed(calls)
      /\ \A k \in DOMAIN calls : Spelled(calls[k], Head(todo))
  BY DEF Queue, Calling
<1>2. calls' = Tail(calls) /\ entered' = entered
  BY DEF Return
<1>3. CASE Len(calls) = 1
  <2>1. todo' = Tail(todo)
    BY <1>3 DEF Return
  <2>2. calls' = << >>
    BY <1>1, <1>2, <1>3 DEF Listed
  <2> QED BY <1>1, <1>2, <2>1, <2>2
<1>4. CASE Len(calls) # 1
  <2>1. todo' = todo
    BY <1>4 DEF Return
  <2>2. Calling(calls', Head(todo))
    <3> DEFINE S == ToSet(calls)
               t == Tail(calls)
    <3>1. calls \in Seq(S) /\ DOMAIN calls = 1 .. Len(calls) /\ Len(calls) \in Nat
      BY <1>1 DEF Listed
    <3>2. /\ t \in Seq(S) /\ Len(t) = Len(calls) - 1 /\ DOMAIN t = 1 .. Len(calls) - 1
          /\ \A k \in 1 .. Len(calls) - 1 : t[k] = calls[k + 1] /\ k + 1 \in DOMAIN calls
      BY <3>1
    <3> HIDE DEF t, S
    <3>3. t \in Seq(ToSet(t))
      BY <3>2 DEF ToSet
    <3>4. \A k \in DOMAIN t : Spelled(t[k], Head(todo))
      BY <1>1, <3>2
    <3> QED BY <1>2, <3>3, <3>4 DEF Calling, Listed, t
  <2> QED BY <1>1, <1>2, <2>1, <2>2
<1> QED BY <1>3, <1>4

LEMMA HandledKeeps == ConsoleInv /\ Handled => ConsoleInv'
<1> SUFFICES ASSUME ConsoleInv, Handled PROVE ConsoleInv'
  OBVIOUS
<1>1. SensorsWhole(conf) /\ Queue /\ entered \in Nat /\ task = "ready" /\ calls # << >>
  BY DEF ConsoleInv, Handled
<1>2. ASSUME NEW res, Return(res), task' = "ready", SensorsWhole(conf)'
      PROVE  ConsoleInv'
  BY <1>1, <1>2, ReturnQueues DEF ConsoleInv, Queue, Pasted
<1>3. ASSUME NEW res, NEW new, Configure(res, new), Acceptable(res, new)
      PROVE  ConsoleInv'
  <2>1. Return(res) /\ task' = "ready" /\ conf' = new
    BY <1>1, <1>3 DEF Configure
  <2>2. SensorsWhole(conf)'
    BY <1>3, <2>1 DEF Acceptable, SensorsWhole, IsMap
  <2> QED BY <1>2, <2>1, <2>2
<1>4. ASSUME NEW res, NEW new, File(res, new)
      PROVE  ConsoleInv'
  <2>1. Return(res) /\ task' = "ready" /\ conf' = conf
    BY <1>1, <1>4 DEF File
  <2>2. SensorsWhole(conf)'
    BY <1>1, <2>1 DEF SensorsWhole, IsMap
  <2> QED BY <1>2, <2>1, <2>2
<1>5. ASSUME NEW what, NEW reader, Begin(what, reader), what = "upload" => Unended(reader)
      PROVE  ConsoleInv'
  <2>1. /\ task' = what /\ paste' = reader
        /\ conf' = conf /\ todo' = todo /\ calls' = calls /\ entered' = entered
    BY <1>5 DEF Begin, line
  <2> QED BY <1>1, <1>5, <2>1 DEF ConsoleInv, Queue, Pasted, Unended, SensorsWhole, IsMap
<1> QED BY <1>3, <1>4, <1>5 DEF Handled

LEMMA FinishKeeps ==
  ASSUME ConsoleInv, task \in {"upload", "pem"}, NEW res, NEW new, SensorsWhole(new),
         NEW fs, Finish(res, new, fs)
  PROVE  ConsoleInv'
<1>1. Queue /\ calls # << >> /\ entered \in Nat
  BY DEF ConsoleInv, Queue
<1>2. Return(res) /\ task' = "ready" /\ conf' = new
  BY DEF Finish
<1>3. SensorsWhole(conf)'
  BY <1>2 DEF SensorsWhole, IsMap
<1> QED BY <1>1, <1>2, <1>3, ReturnQueues DEF ConsoleInv, Queue, Pasted

LEMMA PowerKeeps ==
  ASSUME NEW c, SensorsWhole(c), conf' = c, todo' = << >>, calls' = << >>, task' = "ready",
         entered' \in Nat
  PROVE  ConsoleInv'
<1>1. SensorsWhole(conf)'
  BY DEF SensorsWhole, IsMap
<1> QED BY <1>1 DEF ConsoleInv, Queue, Pasted

(* Nothing of it changes, but for what is pasted, or what core 0 does.      *)
LEMMA RestKeeps ==
  ASSUME ConsoleInv, conf' = conf, todo' = todo, calls' = calls, entered' = entered,
         \/ task' = task /\ paste' = paste
         \/ task' = task /\ Unended(paste')
         \/ task' = task /\ task = "pem"
         \/ task' = "off"
  PROVE  ConsoleInv'
BY DEF ConsoleInv, Queue, Pasted, Unended, SensorsWhole, IsMap

LEMMA UploadLines ==
  ASSUME NEW r, Unended(r), NEW l
  PROVE  LET read == UploadLine(r, l)
         IN IF read.ended THEN read.lines = r.lines ELSE Unended(read)
<1> DEFINE read == UploadLine(r, l)
           blanks == IF l = NoText THEN r.blanks + 1 ELSE 0
<1>1. DOMAIN r = {"state", "blanks", "lines", "ended"} /\ ~r.ended
  BY DEF Unended
<1>2. \/ read = [r EXCEPT !.blanks = blanks, !.ended = TRUE]
      \/ read = [r EXCEPT !.blanks = blanks]
      \/ read = [r EXCEPT !.state = 1, !.blanks = 0, !.lines = Append(@, l)]
  BY DEF UploadLine
<1> SUFFICES IF read.ended THEN read.lines = r.lines ELSE Unended(read)
  OBVIOUS
<1> HIDE DEF read, blanks
<1>3. CASE read = [r EXCEPT !.blanks = blanks, !.ended = TRUE]
  BY <1>1, <1>3
<1>4. CASE read = [r EXCEPT !.blanks = blanks]
  BY <1>1, <1>4 DEF Unended
<1>5. CASE read = [r EXCEPT !.state = 1, !.blanks = 0, !.lines = Append(@, l)]
  BY <1>1, <1>5 DEF Unended
<1> QED BY <1>2, <1>3, <1>4, <1>5

LEMMA ConsoleStep == ConsoleInv /\ [Next]_vars => ConsoleInv'
<1> SUFFICES ASSUME ConsoleInv, [Next]_vars PROVE ConsoleInv'
  OBVIOUS
<1>1. SensorsWhole(conf) /\ Queue /\ Pasted /\ entered \in Nat
  BY DEF ConsoleInv
<1>2. CASE EnterLine
  <2>1. /\ todo = << >> /\ todo' \in Lines /\ calls' = calls /\ conf' = conf
        /\ task = "ready" /\ task' = task /\ entered' = entered + 1
    BY <1>2 DEF EnterLine
  <2>2. calls' = << >> /\ todo' \in Seq(Commands)
    BY <1>1, <2>1, LinesAssumption DEF Queue
  <2>3. Queue' /\ Pasted' /\ entered' \in Nat
    BY <1>1, <2>1, <2>2 DEF Queue, Pasted
  <2> QED BY <1>1, <2>1, <2>3 DEF ConsoleInv, SensorsWhole, IsMap
<1>3. CASE StartCommand
  <2> DEFINE walk == FreshStack(Head(todo))
  <2>1. /\ todo # << >> /\ task = "ready" /\ task' = task /\ conf' = conf /\ entered' = entered
        /\ calls' = walk.calls
        /\ IF walk.calls = << >> THEN todo' = Tail(todo) ELSE todo' = todo
    BY <1>3 DEF StartCommand
  <2>2. todo \in Seq(Commands) /\ IsCommand(Head(todo))
    BY <1>1, <2>1, LinesAssumption DEF Queue
  <2>3. Calling(walk.calls, Head(todo))
    BY <2>2, RunCmdSpells DEF FreshStack
  <2> HIDE DEF walk
  <2>4. Queue' /\ Pasted'
    BY <2>1, <2>2, <2>3 DEF Queue, Pasted
  <2> QED BY <1>1, <2>1, <2>4 DEF ConsoleInv, SensorsWhole, IsMap
<1>4. CASE \/ Setting \/ Question \/ VsensorName \/ VsensorSources \/ VsensorRead \/ VsensorSet
           \/ Pubkey \/ Time \/ Exit \/ WifiRejoin \/ MemTest
  BY <1>4, HandledKeeps, SettingHandled, PrintersHandled, NameHandled, SourceHandled,
     WriteHandled, KeyHandled
<1>5. CASE \/ SaveConfig \/ DeleteConfig \/ LfsInfo \/ LfsDel \/ LfsFormat \/ LfsRen \/ LfsCopy
           \/ PkeyCommand \/ StartUpload \/ StartPem
  BY <1>5, HandledKeeps, FilesHandled, PastesHandled
<1>6. CASE PasteLine
  <2>1. task = "upload" /\ Unended(paste)
    BY <1>1, <1>6 DEF PasteLine, Pasted
  <2>2. PICK l : LET r == UploadLine(paste, l)
                 IN IF r.ended THEN Finish(0, Uploaded(r.lines), files)
                    ELSE /\ paste' = r
                         /\ UNCHANGED << conf, files, line, result, err, task, waited,
                                         watchdog, entered >>
    BY <1>6 DEF PasteLine
  <2> DEFINE r == UploadLine(paste, l)
  <2>3. IF r.ended THEN r.lines = paste.lines ELSE Unended(r)
    BY <2>1, UploadLines
  <2> HIDE DEF r
  <2>4. CASE r.ended
    BY <1>1, <2>1, <2>2, <2>4, UploadedWhole, FinishKeeps DEF r
  <2>5. CASE ~r.ended
    BY <2>2, <2>3, <2>5, RestKeeps DEF r, line
  <2> QED BY <2>4, <2>5
<1>7. CASE UploadTimesOut
  <2>1. task = "upload" /\ Finish(0, Uploaded(paste.lines), files)
    BY <1>7 DEF UploadTimesOut
  <2> QED BY <1>1, <2>1, UploadedWhole, FinishKeeps
<1>8. ASSUME NEW res, task = "pem", PemRead(res) PROVE ConsoleInv'
  <2>1. \E ret, fs : Finish(ret, conf, fs)
    BY <1>8 DEF PemRead
  <2> QED BY <1>1, <1>8, <2>1, FinishKeeps
<1>9. CASE PastePemLine
  <2>1. /\ task = "pem"
        /\ \/ UNCHANGED << conf, line, task, entered >>
           \/ \E res : PemRead(res)
    BY <1>9 DEF PastePemLine
  <2> QED BY <1>8, <2>1, RestKeeps DEF line
<1>10. CASE PemTimesOut
  BY <1>8, <1>10 DEF PemTimesOut
<1>11. CASE Tick
  BY <1>11, RestKeeps DEF Tick, line
<1>12. ASSUME calls # << >>, task = "ready", Configure(1, conf) PROVE ConsoleInv'
  BY <1>12, NothingChanged, HandledKeeps DEF Handled
<1>13. ASSUME NEW safemode PROVE SensorsWhole(Boot(files, safemode, PowerOnLevels))
  BY BootWhole DEF Boot
<1>14. CASE Reset
  <2>1. calls # << >> /\ task = "ready" /\ (Configure(1, conf) \/ Restart)
    BY <1>14 DEF Reset, Running
  <2>2. CASE Restart
    <3>1. PICK safemode \in BOOLEAN : conf' = Boot(files, safemode, PowerOnLevels)
      BY <2>2 DEF Restart
    <3>2. todo' = << >> /\ calls' = << >> /\ task' = "ready" /\ entered' \in Nat
      BY <1>1, <2>2 DEF Restart
    <3> QED BY <1>13, <3>1, <3>2, PowerKeeps
  <2> QED BY <1>12, <2>1, <2>2
<1>15. CASE UsbBoot
  <2>1. /\ calls # << >> /\ task = "ready"
        /\ Configure(1, conf) \/ (task' = "off" /\ UNCHANGED << conf, line, entered >>)
    BY <1>15 DEF UsbBoot, Running
  <2> QED BY <1>12, <2>1, RestKeeps DEF line
<1>16. CASE PowerCut
  <2>1. PICK safemode \in BOOLEAN : conf' = Boot(files, safemode, PowerOnLevels)
    BY <1>16 DEF PowerCut
  <2>2. todo' = << >> /\ calls' = << >> /\ task' = "ready" /\ entered' \in Nat
    BY <1>1, <1>16 DEF PowerCut
  <2> QED BY <1>13, <2>1, <2>2, PowerKeeps
<1>17. CASE UNCHANGED vars
  BY <1>17, RestKeeps DEF vars, line, pasting
<1> QED BY <1>2, <1>3, <1>4, <1>5, <1>6, <1>7, <1>9, <1>10, <1>11, <1>14, <1>15, <1>16, <1>17
        DEF Next

LEMMA ConsoleInvariant == Spec => []ConsoleInv
BY ConsoleStart, ConsoleStep, PTL DEF Spec

-----------------------------------------------------------------------------
(* The steps that are a command's: a handler's, unless it is a restart, or  *)
(* one that leaves the configuration alone.                                *)
LEMMA CommandedSteps ==
  ASSUME ConsoleInv, Next, Commanded
  PROVE  conf' = conf \/ \E res, new : Configure(res, new) /\ Acceptable(res, new)
<1>1. task = "ready" /\ calls # << >> /\ call.func # "reset" /\ entered' = entered
      /\ entered \in Nat
  BY DEF Commanded, ConsoleInv
<1>2. Handled => conf' = conf \/ \E res, new : Configure(res, new) /\ Acceptable(res, new)
  BY DEF Handled, File, Begin
<1>3. CASE \/ Setting \/ Question \/ VsensorName \/ VsensorSources \/ VsensorRead \/ VsensorSet
           \/ Pubkey \/ Time \/ Exit \/ WifiRejoin \/ MemTest
  BY <1>2, <1>3, SettingHandled, PrintersHandled, NameHandled, SourceHandled, WriteHandled,
     KeyHandled
<1>4. CASE \/ SaveConfig \/ DeleteConfig \/ LfsInfo \/ LfsDel \/ LfsFormat \/ LfsRen \/ LfsCopy
           \/ PkeyCommand \/ StartUpload \/ StartPem
  BY <1>2, <1>4, FilesHandled, PastesHandled
<1>5. CASE EnterLine \/ StartCommand \/ PowerCut
  BY <1>1, <1>5 DEF EnterLine, StartCommand, PowerCut
<1>6. CASE PasteLine \/ UploadTimesOut \/ PastePemLine \/ PemTimesOut \/ Tick
  BY <1>1, <1>6 DEF PasteLine, UploadTimesOut, PastePemLine, PemTimesOut, Tick
<1>7. CASE Reset \/ UsbBoot
  BY <1>1, <1>7 DEF Reset, UsbBoot, Running, Configure
<1> QED BY <1>3, <1>4, <1>5, <1>6, <1>7 DEF Next

(* A handler that returns an error has changed nothing of the configuration *)
(* in use, but for VSENSOR:SOURCE INTERNAL (RefusedChangesNothing): for any  *)
(* command line, and wherever in a chain of leaves the handler stands.      *)
THEOREM RefusalsChangeNothing == Spec => RefusedChangesNothing
<1>1. ASSUME ConsoleInv, [Next]_vars
      PROVE  [(Commanded /\ result' # 0 /\ conf' # conf)
               => /\ call.func = "vsensor_source"
                  /\ \E i \in Sensors :
                       /\ conf'.vsensors[i].mode = "internal"
                       /\ conf' = [conf EXCEPT !.vsensors[i] = conf'.vsensors[i]]]_vars
  <2> SUFFICES ASSUME Next, Commanded, result' # 0, conf' # conf
               PROVE  InternalSet(conf')
    BY <1>1 DEF InternalSet
  <2>1. PICK res, new : Configure(res, new) /\ Acceptable(res, new)
    BY <1>1, CommandedSteps
  <2>2. conf' = new /\ result' = res
    BY <2>1 DEF Configure, Return
  <2> QED BY <2>1, <2>2 DEF Acceptable
<1> QED BY <1>1, ConsoleInvariant, PTL DEF Spec, RefusedChangesNothing

(* A command changes the settings or the value of a virtual sensor only if  *)
(* it spells that sensor's number out itself (OwnSensorOnly), however the   *)
(* commands of a line go on from each other's level in the tree.           *)
THEOREM SensorsAreSpelled == Spec => OwnSensorOnly
<1>1. ASSUME ConsoleInv, [Next]_vars
      PROVE  [Commanded => \A i \in Sensors :
                (conf'.vsensors[i] # conf.vsensors[i] \/ conf'.vtemp[i] # conf.vtemp[i])
                  => Spells(Head(todo), i)]_vars
  <2> SUFFICES ASSUME Next, Commanded, NEW i \in Sensors, Touches(conf', i)
               PROVE  Spells(Head(todo), i)
    BY <1>1 DEF Touches
  <2>1. CASE conf' = conf
    BY <2>1 DEF Touches
  <2>2. CASE conf' # conf
    <3>1. PICK res, new : Configure(res, new) /\ Acceptable(res, new)
      BY <1>1, <2>2, CommandedSteps
    <3>2. conf' = new
      BY <3>1 DEF Configure
    <3> QED BY <3>1, <3>2 DEF Acceptable
  <2> QED BY <2>1, <2>2
<1> QED BY <1>1, ConsoleInvariant, PTL DEF Spec, OwnSensorOnly

(* Pasting a configuration is all or nothing (UploadAllOrNothing), for any   *)
(* documents and whenever it ends: what is in use afterwards is what was,   *)
(* or the whole of the document that is exactly the lines pasted.           *)
THEOREM UploadsAreWhole == Spec => UploadAllOrNothing
<1>1. ASSUME NEW lines, Uploaded(lines) # conf
      PROVE  \E d \in DOMAIN Documents :
               /\ d = lines /\ IdOk(Parsed(Documents[d]))
               /\ Uploaded(lines) = ReadConfig(Documents[d], Default, FALSE, conf)
  <2> DEFINE json == ParsedLines(lines)
  <2>1. json # NoJson /\ IdOk(json) /\ Uploaded(lines) = JsonToConfig(json, ClearConfig(conf))
    BY <1>1 DEF Uploaded, UploadConfig
  <2>2. lines \in DOMAIN Documents /\ json = Parsed(Documents[lines])
    BY <2>1 DEF ParsedLines
  <2>3. json = Documents[lines]
    BY <2>1, <2>2 DEF Parsed
  <2> HIDE DEF json
  <2>4. ReadConfig(json, Default, FALSE, conf) = JsonToConfig(json, ClearConfig(conf))
    BY <2>1 DEF ReadConfig
  <2> QED BY <2>1, <2>2, <2>3, <2>4
<1>2. ASSUME ConsoleInv, [Next]_vars
      PROVE  [(task = "upload" /\ task' = "ready" /\ entered' = entered /\ conf' # conf)
               => \E d \in DOMAIN Documents :
                    /\ d = paste.lines /\ IdOk(Parsed(Documents[d]))
                    /\ conf' = ReadConfig(Documents[d], Default, FALSE, conf)]_vars
  <2> SUFFICES ASSUME Next, task = "upload", task' = "ready", entered' = entered, conf' # conf
               PROVE  conf' = Uploaded(paste.lines)
    BY <1>1, <1>2
  <2>1. entered \in Nat /\ Unended(paste)
    BY <1>2 DEF ConsoleInv, Pasted
  <2>2. CASE PasteLine
    <3>1. PICK l : LET r == UploadLine(paste, l)
                   IN IF r.ended THEN Finish(0, Uploaded(r.lines), files) ELSE task' = task
      BY <2>2 DEF PasteLine
    <3> DEFINE r == UploadLine(paste, l)
    <3>2. r.ended /\ Finish(0, Uploaded(r.lines), files)
      BY <3>1
    <3>3. r.lines = paste.lines
      BY <2>1, <3>2, UploadLines
    <3> QED BY <3>2, <3>3 DEF Finish
  <2>3. CASE UploadTimesOut
    BY <2>3 DEF UploadTimesOut, Finish
  <2>4. CASE ~PasteLine /\ ~UploadTimesOut
    BY <2>1, <2>4 DEF Next, EnterLine, StartCommand, Setting, Question, VsensorName,
       VsensorSources, VsensorRead, VsensorSet, Pubkey, Time, Exit, WifiRejoin, MemTest,
       SaveConfig, DeleteConfig, LfsInfo, LfsDel, LfsFormat, LfsRen, LfsCopy, PkeyCommand,
       StartUpload, StartPem, PastePemLine, PemTimesOut, Tick, Reset, UsbBoot, PowerCut, Running
  <2> QED BY <2>2, <2>3, <2>4
<1> QED BY <1>2, ConsoleInvariant, PTL DEF Spec, UploadAllOrNothing

-----------------------------------------------------------------------------
(* Lists.  A function on 1 .. n is a list of n items, and Picked gives the  *)
(* items it is asked for: no more than there are, and all of them, as they  *)
(* are, of the places 1 .. m.                                              *)
IsList(s, n) == s = [i \in 1 .. n |-> s[i]]

LEMMA ListIsListed ==
  ASSUME NEW n \in Nat, NEW s, IsList(s, n)
  PROVE  Listed(s) /\ Len(s) = n /\ DOMAIN s = 1 .. n
<1>1. DOMAIN s = 1 .. n
  BY DEF IsList
<1>2. s \in [1 .. n -> ToSet(s)]
  BY <1>1 DEF IsList, ToSet
<1>3. s \in Seq(ToSet(s))
  BY <1>2
<1> QED BY <1>1, <1>3 DEF Listed

LEMMA ListedIsList ==
  ASSUME NEW s, Listed(s)
  PROVE  IsList(s, Len(s)) /\ Len(s) \in Nat /\ DOMAIN s = 1 .. Len(s)
<1>1. s \in Seq(ToSet(s))
  BY DEF Listed
<1>2. s \in [1 .. Len(s) -> ToSet(s)] /\ Len(s) \in Nat
  BY <1>1
<1> QED BY <1>2 DEF IsList

PicksUpTo(upto, list, I, n) ==
  /\ upto[0] = << >>
  /\ \A i \in 1 .. n : upto[i] = IF i \in I THEN Append(upto[i - 1], list[i]) ELSE upto[i - 1]

LEMMA PickedCounts ==
  ASSUME NEW list, Listed(list), NEW I
  PROVE  \E upto : PicksUpTo(upto, list, I, Len(list)) /\ Picked(list, I) = upto[Len(list)]
<1> DEFINE n == Len(list)
           next(g, i) == IF i \in I THEN Append(g[i - 1], list[i]) ELSE g[i - 1]
           Along(g, k) == g = [i \in 0 .. k |-> IF i = 0 THEN << >> ELSE next(g, i)]
           upto == CHOOSE g : Along(g, n)
<1>1. n \in Nat
  BY ListedIsList
<1>2. Picked(list, I) = upto[n]
  BY DEF Picked
<1> HIDE DEF n
<1> DEFINE S == {k \in Nat : \E g : Along(g, k)}
<1>3. 0 \in S
  <2> DEFINE g == [i \in 0 .. 0 |-> << >>]
  <2>1. Along(g, 0)
    OBVIOUS
  <2> QED BY <2>1
<1>4. ASSUME NEW k \in Nat, k \in S PROVE k + 1 \in S
  <2>1. PICK g : Along(g, k)
    BY <1>4
  <2> DEFINE h == [i \in 0 .. k + 1 |-> IF i = 0 THEN << >> ELSE next(g, i)]
  <2>2. \A i \in 0 .. k : h[i] = g[i]
    <3>1. \A i \in 0 .. k : g[i] = IF i = 0 THEN << >> ELSE next(g, i)
      BY <2>1, Zenon
    <3>2. \A i \in 0 .. k : i \in 0 .. k + 1
      OBVIOUS
    <3>3. \A i \in 0 .. k + 1 : h[i] = IF i = 0 THEN << >> ELSE next(g, i)
      BY Zenon
    <3> QED BY <3>1, <3>2, <3>3, Zenon
  <2>3. \A i \in 0 .. k + 1 : i # 0 => i - 1 \in 0 .. k
    OBVIOUS
  <2>4. \A i \in 0 .. k + 1 : h[i] = IF i = 0 THEN << >> ELSE next(h, i)
    BY <2>2, <2>3
  <2>5. h = [i \in 0 .. k + 1 |-> h[i]]
    OBVIOUS
  <2> HIDE DEF h
  <2>6. Along(h, k + 1)
    BY <2>4, <2>5
  <2> QED BY <2>6
<1> HIDE DEF S
<1>5. n \in S
  BY <1>1, <1>3, <1>4, CountingUp
<1>6. \E g : Along(g, n)
  BY <1>5 DEF S
<1>7. Along(upto, n)
  <2> HIDE DEF Along
  <2> QED BY <1>6
<1> HIDE DEF upto
<1>8. \A i \in 0 .. n : upto[i] = IF i = 0 THEN << >> ELSE next(upto, i)
  BY <1>7
<1>9. 0 \in 0 .. n /\ \A i \in 1 .. n : i \in 0 .. n /\ i # 0
  BY <1>1
<1>10. PicksUpTo(upto, list, I, n)
  BY <1>8, <1>9 DEF PicksUpTo
<1> QED BY <1>2, <1>10 DEF n

(* What one more item does to a list whose items are those of another.     *)
From(s, list, I, m) ==
  Listed(s) /\ Len(s) <= m /\ \A k \in 1 .. Len(s) : \E i \in I \cap (1 .. m) : s[k] = list[i]

LEMMA FromGrows ==
  ASSUME NEW list, NEW I, NEW m \in Nat, NEW s, From(s, list, I, m)
  PROVE  From(s, list, I, m + 1) /\ (m + 1 \in I => From(Append(s, list[m + 1]), list, I, m + 1))
<1>1. Listed(s) /\ Len(s) <= m /\ Len(s) \in Nat
      /\ \A k \in 1 .. Len(s) : \E i \in I \cap (1 .. m) : s[k] = list[i]
  BY ListedIsList DEF From
<1>2. 1 .. m \subseteq 1 .. m + 1 /\ m + 1 \in 1 .. m + 1
  OBVIOUS
<1>3. \A k \in 1 .. Len(s) : \E i \in I \cap (1 .. m + 1) : s[k] = list[i]
  BY <1>1, <1>2
<1>4. From(s, list, I, m + 1)
  BY <1>1, <1>3 DEF From
<1>5. ASSUME m + 1 \in I PROVE From(Append(s, list[m + 1]), list, I, m + 1)
  <2> DEFINE t == Append(s, list[m + 1])
  <2>1. /\ Listed(t) /\ DOMAIN t = 1 .. Len(s) + 1
        /\ \A k \in 1 .. Len(s) : t[k] = s[k]
        /\ t[Len(s) + 1] = list[m + 1]
    BY <1>1, ListedGrows
  <2> HIDE DEF t
  <2>2. Len(t) = Len(s) + 1
    <3>1. DOMAIN t = 1 .. Len(t) /\ Len(t) \in Nat
      BY <2>1, ListedIsList
    <3> QED BY <1>1, <2>1, <3>1
  <2>3. ASSUME NEW k \in 1 .. Len(t) PROVE \E i \in I \cap (1 .. m + 1) : t[k] = list[i]
    <3>1. CASE k = Len(s) + 1
      BY <1>2, <1>5, <2>1, <3>1
    <3>2. CASE k # Len(s) + 1
      <4>1. k \in 1 .. Len(s)
        BY <1>1, <2>2, <3>2
      <4> QED BY <1>3, <2>1, <4>1
    <3> QED BY <3>1, <3>2
  <2>4. Len(t) <= m + 1
    BY <1>1, <2>2
  <2>5. From(t, list, I, m + 1)
    BY <2>1, <2>3, <2>4 DEF From
  <2> QED BY <2>5 DEF t
<1> QED BY <1>4, <1>5

LEMMA PickedIsFrom ==
  ASSUME NEW list, Listed(list), NEW I
  PROVE  From(Picked(list, I), list, I, Len(list))
<1> DEFINE n == Len(list)
<1>1. n \in Nat
  BY ListedIsList
<1>2. PICK upto : PicksUpTo(upto, list, I, n) /\ Picked(list, I) = upto[n]
  BY PickedCounts
<1> HIDE DEF n
<1> DEFINE S == {k \in Nat : k <= n => From(upto[k], list, I, k)}
<1>3. 0 \in S
  <2>1. Listed(<< >>) /\ Len(<< >>) = 0
    BY DEF Listed, ToSet
  <2> QED BY <1>2, <2>1 DEF PicksUpTo, From
<1>4. ASSUME NEW k \in Nat, k \in S PROVE k + 1 \in S
  <2>1. CASE k + 1 <= n
    <3>1. k + 1 \in 1 .. n /\ (k + 1) - 1 = k /\ From(upto[k], list, I, k)
      BY <1>1, <1>4, <2>1
    <3>2. upto[k + 1] = IF k + 1 \in I THEN Append(upto[k], list[k + 1]) ELSE upto[k]
      BY <1>2, <3>1 DEF PicksUpTo
    <3>3. From(upto[k + 1], list, I, k + 1)
      BY <3>1, <3>2, FromGrows
    <3> QED BY <3>3
  <2>2. CASE ~(k + 1 <= n)
    BY <2>2
  <2> QED BY <2>1, <2>2
<1> HIDE DEF S
<1>5. n \in S
  BY <1>1, <1>3, <1>4, CountingUp
<1>6. From(upto[n], list, I, n)
  BY <1>1, <1>5 DEF S
<1> QED BY <1>2, <1>6 DEF n

LEMMA PickedPrefix ==
  ASSUME NEW list, Listed(list), NEW m \in 0 .. Len(list), NEW I,
         \A i \in 1 .. Len(list) : i \in I <=> i <= m
  PROVE  Picked(list, I) = [k \in 1 .. m |-> list[k]]
<1> DEFINE n == Len(list)
           prefix(k) == [i \in 1 .. k |-> list[i]]
<1>1. n \in Nat /\ m \in Nat /\ m <= n
  BY ListedIsList
<1>2. PICK upto : PicksUpTo(upto, list, I, n) /\ Picked(list, I) = upto[n]
  BY PickedCounts
<1>3. \A i \in 1 .. n : i \in I <=> i <= m
  OBVIOUS
<1> HIDE DEF n
<1> DEFINE S == {k \in Nat : k <= n => upto[k] = prefix(IF k <= m THEN k ELSE m)}
<1>4. 0 \in S
  <2>1. prefix(0) = << >>
    OBVIOUS
  <2> QED BY <1>1, <1>2, <2>1 DEF PicksUpTo
<1>5. ASSUME NEW k \in Nat, k \in S PROVE k + 1 \in S
  <2>1. CASE k + 1 <= n
    <3>1. k + 1 \in 1 .. n /\ (k + 1) - 1 = k /\ upto[k] = prefix(IF k <= m THEN k ELSE m)
      BY <1>1, <1>5, <2>1
    <3>2. upto[k + 1] = IF k + 1 \in I THEN Append(upto[k], list[k + 1]) ELSE upto[k]
      BY <1>2, <3>1 DEF PicksUpTo
    <3>3. CASE k + 1 <= m
      <4>1. k <= m /\ upto[k + 1] = Append(prefix(k), list[k + 1])
        BY <1>1, <1>3, <3>1, <3>2, <3>3
      <4>2. Append(prefix(k), list[k + 1]) = prefix(k + 1)
        OBVIOUS
      <4> QED BY <3>3, <4>1, <4>2
    <3>4. CASE ~(k + 1 <= m)
      <4>1. upto[k + 1] = upto[k] /\ prefix(IF k <= m THEN k ELSE m) = prefix(m)
        <5>1. k <= m => k = m
          BY <1>1, <3>4
        <5> QED BY <1>3, <3>1, <3>2, <3>4, <5>1
      <4> QED BY <3>1, <3>4, <4>1
    <3> QED BY <3>3, <3>4
  <2>2. CASE ~(k + 1 <= n)
    BY <2>2
  <2> QED BY <2>1, <2>2
<1> HIDE DEF S
<1>6. n \in S
  BY <1>1, <1>4, <1>5, CountingUp
<1>7. upto[n] = prefix(IF n <= m THEN n ELSE m)
  BY <1>1, <1>6 DEF S
<1>8. (IF n <= m THEN n ELSE m) = m
  BY <1>1
<1> QED BY <1>2, <1>7, <1>8

LEMMA PaddedPicks ==
  ASSUME NEW s, Listed(s), NEW n \in Nat, Len(s) <= n, NEW none
  PROVE  LET back == Padded(s, n, none)
         IN /\ IsList(back, n)
            /\ \A k \in 1 .. n : back[k] = IF k <= Len(s) THEN s[k] ELSE none
            /\ \A I : (\A k \in 1 .. n : k \in I <=> k <= Len(s)) => Picked(back, I) = s
<1> DEFINE back == Padded(s, n, none)
<1>1. IsList(back, n) /\ \A k \in 1 .. n : back[k] = IF k <= Len(s) THEN s[k] ELSE none
  BY DEF Padded, IsList
<1> HIDE DEF back
<1>2. ASSUME NEW I, \A k \in 1 .. n : k \in I <=> k <= Len(s) PROVE Picked(back, I) = s
  <2>1. Listed(back) /\ Len(back) = n
    BY <1>1, ListIsListed
  <2>2. Len(s) \in Nat /\ s = [k \in 1 .. Len(s) |-> s[k]]
    BY ListedIsList DEF IsList
  <2>3. Len(s) \in 0 .. Len(back)
    BY <2>1, <2>2
  <2>4. Picked(back, I) = [k \in 1 .. Len(s) |-> back[k]]
    <3> HIDE DEF Picked
    <3> QED BY <1>2, <2>1, <2>3, PickedPrefix
  <2>5. \A k \in 1 .. Len(s) : back[k] = s[k]
    BY <1>1, <2>2
  <2>6. [k \in 1 .. Len(s) |-> back[k]] = [k \in 1 .. Len(s) |-> s[k]]
    BY <2>5
  <2> QED BY <2>2, <2>4, <2>6
<1> QED BY <1>1, <1>2 DEF back

-----------------------------------------------------------------------------
(* A list that is written and read back is written again as it was.        *)
LEMMA IpListComesBack ==
  ASSUME NEW n \in Nat, NEW list, IsList(list, n)
  PROVE  IpList2Json(Json2IpList(IpList2Json(list), n)) = IpList2Json(list)
<1> DEFINE I == {i \in DOMAIN list : list[i] # AnyIp}
           s == Picked(list, I)
           back == Padded(s, n, AnyIp)
<1>1. Listed(list) /\ Len(list) = n
  BY ListIsListed
<1>2. From(s, list, I, n)
  BY <1>1, PickedIsFrom
<1>3. Listed(s) /\ Len(s) <= n /\ \A k \in 1 .. Len(s) : s[k] # AnyIp
  BY <1>2 DEF From
<1> HIDE DEF s
<1>4. /\ IsList(back, n)
      /\ \A k \in 1 .. n : back[k] = IF k <= Len(s) THEN s[k] ELSE AnyIp
      /\ \A J : (\A k \in 1 .. n : k \in J <=> k <= Len(s)) => Picked(back, J) = s
  BY <1>3, PaddedPicks
<1> HIDE DEF back
<1> DEFINE J == {i \in DOMAIN back : back[i] # AnyIp}
<1>5. \A k \in 1 .. n : k \in J <=> k <= Len(s)
  <2>1. DOMAIN back = 1 .. n /\ Len(s) \in Nat
    BY <1>3, <1>4, ListIsListed, ListedIsList
  <2> QED BY <1>3, <1>4, <2>1
<1>6. Picked(back, J) = s
  BY <1>4, <1>5
<1> QED BY <1>6 DEF IpList2Json, Json2IpList, back, s

GoodAcl(a) == IsMap(a) /\ DOMAIN a = {"ip", "prefix"} /\ a.prefix \in 0 .. 32

LEMMA GoodAclIsKept == ASSUME NEW a, GoodAcl(a) PROVE ClampedAcl(a) = a
<1>1. ClampInt(a.prefix, 0, 32) = a.prefix
  BY DEF GoodAcl, ClampInt
<1>2. [a EXCEPT !.prefix = a.prefix] = a
  BY DEF GoodAcl, IsMap
<1> QED BY <1>1, <1>2 DEF ClampedAcl

LEMMA AclListComesBack ==
  ASSUME NEW list, IsList(list, MAX_ACL_ENTRIES),
         \A i \in 1 .. MAX_ACL_ENTRIES : GoodAcl(list[i])
  PROVE  AclList2Json(Json2AclList(AclList2Json(list))) = AclList2Json(list)
<1> DEFINE n == MAX_ACL_ENTRIES
           I == {i \in DOMAIN list : list[i].prefix > 0}
           s == Picked(list, I)
           back == Padded(s, n, NoAcl)
<1>0. n \in Nat
  BY SettingsAssumption
<1>1. Listed(list) /\ Len(list) = n /\ DOMAIN list = 1 .. n
  BY <1>0, ListIsListed
<1>2. From(s, list, I, n)
  BY <1>1, PickedIsFrom
<1>3. Listed(s) /\ Len(s) <= n /\ \A k \in 1 .. Len(s) : GoodAcl(s[k]) /\ s[k].prefix > 0
  BY <1>1, <1>2 DEF From
<1> HIDE DEF s, n
<1>4. [i \in DOMAIN s |-> ClampedAcl(s[i])] = s
  <2>1. s = [i \in DOMAIN s |-> s[i]] /\ \A k \in DOMAIN s : GoodAcl(s[k])
    BY <1>3, ListedIsList DEF IsList
  <2>2. \A k \in DOMAIN s : ClampedAcl(s[k]) = s[k]
    BY <2>1, GoodAclIsKept
  <2> QED BY <2>1, <2>2
<1>5. /\ IsList(back, n)
      /\ \A k \in 1 .. n : back[k] = IF k <= Len(s) THEN s[k] ELSE NoAcl
      /\ \A J : (\A k \in 1 .. n : k \in J <=> k <= Len(s)) => Picked(back, J) = s
  BY <1>0, <1>3, PaddedPicks
<1> HIDE DEF back
<1> DEFINE J == {i \in DOMAIN back : back[i].prefix > 0}
<1>6. \A k \in 1 .. n : k \in J <=> k <= Len(s)
  <2>1. DOMAIN back = 1 .. n /\ Len(s) \in Nat
    BY <1>0, <1>3, <1>5, ListIsListed, ListedIsList
  <2>2. ~(NoAcl.prefix > 0)
    BY DEF NoAcl
  <2> QED BY <1>3, <1>5, <2>1, <2>2
<1>7. Picked(back, J) = s
  BY <1>5, <1>6
<1>8. Json2AclList(s) = back
  BY <1>4 DEF Json2AclList, back, n
<1> QED BY <1>7, <1>8 DEF AclList2Json, s

GoodKey(k) == k.key = NoText \/ TypeIn(KeyType, k.key) = k.type

LEMMA PubkeysComeBack ==
  ASSUME NEW keys, IsList(keys, SSH_MAX_PUB_KEYS),
         \A i \in 1 .. SSH_MAX_PUB_KEYS : GoodKey(keys[i])
  PROVE  SshPubkeys2Json(Json2SshPubkeys(SshPubkeys2Json(keys))) = SshPubkeys2Json(keys)
<1> DEFINE n == SSH_MAX_PUB_KEYS
           I == {i \in DOMAIN keys : keys[i].key # NoText /\ keys[i].username # NoText}
           s == Picked(keys, I)
           good == {i \in DOMAIN s : TypeIn(KeyType, s[i].key) = s[i].type}
           back == Padded(s, n, NoPubkey)
<1>0. n \in Nat
  BY SettingsAssumption
<1>1. Listed(keys) /\ Len(keys) = n /\ DOMAIN keys = 1 .. n
  BY <1>0, ListIsListed
<1>2. From(s, keys, I, n)
  BY <1>1, PickedIsFrom
<1>3. /\ Listed(s) /\ Len(s) <= n
      /\ \A k \in 1 .. Len(s) : /\ TypeIn(KeyType, s[k].key) = s[k].type
                                /\ s[k].key # NoText /\ s[k].username # NoText
  BY <1>1, <1>2 DEF From, GoodKey
<1> HIDE DEF s, n
<1>4. Len(s) \in Nat /\ DOMAIN s = 1 .. Len(s) /\ s = [k \in 1 .. Len(s) |-> s[k]]
  BY <1>3, ListedIsList DEF IsList
<1>5. Picked(s, good) = s
  <2>1. \A k \in 1 .. Len(s) : k \in good <=> k <= Len(s)
    BY <1>3, <1>4
  <2>2. Len(s) \in 0 .. Len(s)
    BY <1>4
  <2> HIDE DEF good
  <2>3. Picked(s, good) = [k \in 1 .. Len(s) |-> s[k]]
    BY <1>3, <2>1, <2>2, PickedPrefix
  <2> QED BY <1>4, <2>3
<1>6. /\ IsList(back, n)
      /\ \A k \in 1 .. n : back[k] = IF k <= Len(s) THEN s[k] ELSE NoPubkey
      /\ \A J : (\A k \in 1 .. n : k \in J <=> k <= Len(s)) => Picked(back, J) = s
  BY <1>0, <1>3, PaddedPicks
<1>7. Json2SshPubkeys(s) = back
  BY <1>5 DEF Json2SshPubkeys, n
<1> HIDE DEF back
<1> DEFINE J == {i \in DOMAIN back : back[i].key # NoText /\ back[i].username # NoText}
<1>8. \A k \in 1 .. n : k \in J <=> k <= Len(s)
  <2>1. DOMAIN back = 1 .. n
    BY <1>0, <1>6, ListIsListed
  <2>2. NoPubkey.key = NoText
    BY DEF NoPubkey
  <2> QED BY <1>3, <1>4, <1>6, <2>1, <2>2
<1>9. Picked(back, J) = s
  BY <1>6, <1>8
<1> QED BY <1>7, <1>9 DEF SshPubkeys2Json, s

-----------------------------------------------------------------------------
(* The cleared configuration, field by field.                              *)
LEMMA ClearedFields ==
  /\ IsMap(Cleared) /\ DOMAIN Cleared = (Fields \ Levels) \cup {"vtemp"}
  /\ Cleared.vsensors = [i \in Sensors |-> ClearedSensor]
  /\ \A f \in Unset : Cleared[f] = 0
  /\ Cleared.http_vsensor_mask = {}
  /\ \A f \in Ips : Cleared[f] = AnyIp
  /\ \A f \in IpLists : Cleared[f] = [i \in 1 .. ListLen(f) |-> AnyIp]
  /\ \A f \in Acls : Cleared[f] = [i \in 1 .. MAX_ACL_ENTRIES |-> NoAcl]
  /\ Cleared.ssh_pubkeys = [i \in 1 .. SSH_MAX_PUB_KEYS |-> NoPubkey]
<1> DEFINE numbers == [led_mode |-> 0, bl_brightness |-> 100, i2c_speed |-> 1000000,
                       adc_vref |-> 33, wifi_mode |-> 0, telnet_port |-> 0, ssh_port |-> 0,
                       http_port |-> 0, https_port |-> 0, local_echo |-> FALSE,
                       http_vsensor_mask |-> {}]
           texts == [f \in Texts |-> CASE f = "name" -> "lcdpico1" [] f = "wifi_country" -> "XX"
                                       [] f = "wifi_auth_mode" -> "default" [] OTHER -> NoText]
           flags == [f \in Flags |-> f \in {"syslog_active", "ntp_active", "telnet_auth",
                                            "ssh_auth", "http_active"}]
           ips == [f \in Ips |-> AnyIp]
           iplists == [f \in IpLists |-> [i \in 1 .. IF f = "dns_servers" THEN DNS_MAX_SERVERS
                                                     ELSE SNTP_MAX_SERVERS |-> AnyIp]]
           acls == [f \in Acls |-> [i \in 1 .. MAX_ACL_ENTRIES |-> NoAcl]]
           keys == [f \in {"ssh_pubkeys"} |-> [i \in 1 .. SSH_MAX_PUB_KEYS |-> NoPubkey]]
           c1 == ClearedSensors ++ numbers
           c2 == c1 ++ texts
           c3 == c2 ++ flags
           c4 == c3 ++ ips
           c5 == c4 ++ iplists
           c6 == c5 ++ acls
           c7 == c6 ++ keys
<1>1. Cleared = c7
  BY SMT DEF Cleared
<1>2. /\ DOMAIN ClearedSensors = {"vsensors", "vtemp"}
      /\ ClearedSensors.vsensors = [i \in Sensors |-> ClearedSensor]
  BY DEF ClearedSensors
<1>3. /\ DOMAIN numbers = {"led_mode", "bl_brightness", "i2c_speed", "adc_vref", "local_echo",
                           "http_vsensor_mask"} \cup Unset
      /\ numbers.http_vsensor_mask = {}
      /\ \A f \in Unset : numbers[f] = 0
  BY SMT DEF Unset
<1>4. DOMAIN texts = Texts /\ DOMAIN flags = Flags
  OBVIOUS
<1>5. DOMAIN ips = Ips /\ \A f \in Ips : ips[f] = AnyIp
  OBVIOUS
<1>6. DOMAIN iplists = IpLists /\ \A f \in IpLists : iplists[f] = [i \in 1 .. ListLen(f) |-> AnyIp]
  BY DEF ListLen
<1>7. DOMAIN acls = Acls /\ \A f \in Acls : acls[f] = [i \in 1 .. MAX_ACL_ENTRIES |-> NoAcl]
  OBVIOUS
<1>8. /\ DOMAIN keys = {"ssh_pubkeys"}
      /\ keys["ssh_pubkeys"] = [i \in 1 .. SSH_MAX_PUB_KEYS |-> NoPubkey]
  OBVIOUS
<1> HIDE DEF numbers, texts, flags, ips, iplists, acls, keys
<1>9. /\ DOMAIN c1 = DOMAIN ClearedSensors \cup DOMAIN numbers
      /\ \A f \in DOMAIN ClearedSensors : c1[f] = ClearedSensors[f]
      /\ \A f \in DOMAIN numbers \ DOMAIN ClearedSensors : c1[f] = numbers[f]
  BY Joined
<1> HIDE DEF c1
<1>10. /\ DOMAIN c2 = DOMAIN c1 \cup DOMAIN texts
       /\ \A f \in DOMAIN c1 : c2[f] = c1[f]
  BY Joined
<1> HIDE DEF c2
<1>11. /\ DOMAIN c3 = DOMAIN c2 \cup DOMAIN flags
       /\ \A f \in DOMAIN c2 : c3[f] = c2[f]
  BY Joined
<1> HIDE DEF c3
<1>12. /\ DOMAIN c4 = DOMAIN c3 \cup DOMAIN ips
       /\ \A f \in DOMAIN c3 : c4[f] = c3[f]
       /\ \A f \in DOMAIN ips \ DOMAIN c3 : c4[f] = ips[f]
  BY Joined
<1> HIDE DEF c4
<1>13. /\ DOMAIN c5 = DOMAIN c4 \cup DOMAIN iplists
       /\ \A f \in DOMAIN c4 : c5[f] = c4[f]
       /\ \A f \in DOMAIN iplists \ DOMAIN c4 : c5[f] = iplists[f]
  BY Joined
<1> HIDE DEF c5
<1>14. /\ DOMAIN c6 = DOMAIN c5 \cup DOMAIN acls
       /\ \A f \in DOMAIN c5 : c6[f] = c5[f]
       /\ \A f \in DOMAIN acls \ DOMAIN c5 : c6[f] = acls[f]
  BY Joined
<1> HIDE DEF c6
<1>15. /\ DOMAIN c7 = DOMAIN c6 \cup DOMAIN keys /\ IsMap(c7)
       /\ \A f \in DOMAIN c6 : c7[f] = c6[f]
       /\ \A f \in DOMAIN keys \ DOMAIN c6 : c7[f] = keys[f]
  BY Joined
<1> HIDE DEF c7
<1>16. DOMAIN c1 = PlainNumbers \cup {"local_echo", "http_vsensor_mask", "vsensors", "vtemp"}
  BY <1>2, <1>3, <1>9 DEF Unset, PlainNumbers
<1>17. /\ DOMAIN c3 = DOMAIN c1 \cup Texts \cup Flags
       /\ \A f \in DOMAIN c1 : f \in DOMAIN c3 /\ c3[f] = c1[f]
  BY <1>4, <1>10, <1>11
<1>18. Ips \cap DOMAIN c3 = {} /\ IpLists \cap (DOMAIN c3 \cup Ips) = {}
  BY <1>16, <1>17 DEF Ips, IpLists, PlainNumbers, Texts, Flags
<1>19. Acls \cap (DOMAIN c3 \cup Ips \cup IpLists) = {}
  BY <1>16, <1>17 DEF Acls, Ips, IpLists, PlainNumbers, Texts, Flags
<1>20. "ssh_pubkeys" \notin DOMAIN c3 \cup Ips \cup IpLists \cup Acls
  BY <1>16, <1>17 DEF Acls, Ips, IpLists, PlainNumbers, Texts, Flags
<1>21. DOMAIN c6 = DOMAIN c3 \cup Ips \cup IpLists \cup Acls
  BY <1>5, <1>6, <1>7, <1>12, <1>13, <1>14
<1>22. DOMAIN c7 = (Fields \ Levels) \cup {"vtemp"}
  <2>1. DOMAIN c7 = PlainNumbers \cup {"local_echo", "http_vsensor_mask", "vsensors", "vtemp"}
                      \cup Texts \cup Flags \cup Ips \cup IpLists \cup Acls \cup {"ssh_pubkeys"}
    BY <1>8, <1>15, <1>16, <1>17, <1>21
  <2> DEFINE rest == PlainNumbers \cup Texts \cup Flags \cup Ips \cup IpLists \cup Acls
                       \cup {"local_echo", "ssh_pubkeys", "http_vsensor_mask", "vsensors"}
  <2>2. Fields = Levels \cup rest /\ DOMAIN c7 = rest \cup {"vtemp"}
    BY <2>1 DEF Fields
  <2>3. Levels \cap rest = {}
    BY DEF Levels, PlainNumbers, Texts, Flags, Ips, IpLists, Acls
  <2> HIDE DEF rest
  <2> QED BY <2>2, <2>3
<1>23. \A f \in DOMAIN c1 : c7[f] = c1[f]
  BY <1>12, <1>13, <1>14, <1>15, <1>17
<1>24. /\ c7["vsensors"] = [i \in Sensors |-> ClearedSensor] /\ c7["http_vsensor_mask"] = {}
       /\ \A f \in Unset : c7[f] = 0
  <2>1. Unset \cap DOMAIN ClearedSensors = {} /\ "http_vsensor_mask" \notin DOMAIN ClearedSensors
    BY <1>2 DEF Unset
  <2> QED BY <1>2, <1>3, <1>9, <1>23, <2>1
<1>25. \A f \in Ips : c7[f] = AnyIp
  BY <1>5, <1>12, <1>13, <1>14, <1>15, <1>18
<1>26. \A f \in IpLists : c7[f] = [i \in 1 .. ListLen(f) |-> AnyIp]
  <2>1. DOMAIN c4 = DOMAIN c3 \cup Ips
    BY <1>5, <1>12
  <2>2. \A f \in IpLists : f \notin DOMAIN c4 /\ f \in DOMAIN c5 /\ f \in DOMAIN c6
    BY <1>6, <1>13, <1>14, <1>18, <2>1
  <2> QED BY <1>6, <1>13, <1>14, <1>15, <2>2
<1>27. \A f \in Acls : c7[f] = [i \in 1 .. MAX_ACL_ENTRIES |-> NoAcl]
  <2>1. DOMAIN c5 = DOMAIN c3 \cup Ips \cup IpLists
    BY <1>5, <1>6, <1>12, <1>13
  <2>2. \A f \in Acls : f \notin DOMAIN c5 /\ f \in DOMAIN c6
    BY <1>7, <1>14, <1>19, <2>1
  <2> QED BY <1>7, <1>14, <1>15, <2>2
<1>28. c7["ssh_pubkeys"] = [i \in 1 .. SSH_MAX_PUB_KEYS |-> NoPubkey]
  BY <1>8, <1>15, <1>20, <1>21
<1> QED BY <1>1, <1>15, <1>22, <1>24, <1>25, <1>26, <1>27, <1>28

LEMMA ClearedConfig ==
  ASSUME NEW c
  PROVE  /\ DOMAIN ClearConfig(c) = Fields \cup {"vtemp"}
         /\ \A f \in DOMAIN Cleared : ClearConfig(c)[f] = Cleared[f]
<1> DEFINE levels == [f \in Levels |-> c[f]]
<1>1. /\ DOMAIN (Cleared ++ levels) = DOMAIN Cleared \cup Levels
      /\ \A f \in DOMAIN Cleared : (Cleared ++ levels)[f] = Cleared[f]
  BY Joined
<1>2. DOMAIN Cleared \cup Levels = Fields \cup {"vtemp"}
  <2>1. Levels \subseteq Fields
    BY DEF Fields
  <2> QED BY <2>1, ClearedFields
<1> QED BY <1>1, <1>2 DEF ClearConfig

-----------------------------------------------------------------------------
(* The configuration in use can be stored: every list has its length, no    *)
(* entry of an access list says more bits than an address has, a public key *)
(* is of the type it says, and what is left out when it is 0 is a number.   *)
Storable(c) ==
  /\ DOMAIN c = Fields \cup {"vtemp"}
  /\ \A f \in Unset : c[f] \in Nat
  /\ \A f \in IpLists : IsList(c[f], ListLen(f))
  /\ \A f \in Acls : /\ IsList(c[f], MAX_ACL_ENTRIES)
                     /\ \A i \in 1 .. MAX_ACL_ENTRIES : GoodAcl(c[f][i])
  /\ IsList(c.ssh_pubkeys, SSH_MAX_PUB_KEYS)
  /\ \A i \in 1 .. SSH_MAX_PUB_KEYS : GoodKey(c.ssh_pubkeys[i])

LEMMA FieldsApart ==
  /\ Unset \cup IpLists \cup Acls \cup {"ssh_pubkeys"} \subseteq Fields
  /\ "ssh_pubkeys" \notin Unset \cup IpLists \cup Acls
  /\ (Unset \cup IpLists \cup Acls \cup {"ssh_pubkeys"}) \cap {"vsensors", "vtemp"} = {}
  /\ Unset \cap IpLists = {} /\ Unset \cap Acls = {} /\ IpLists \cap Acls = {}
BY DEF Unset, IpLists, Acls, Fields, PlainNumbers

LEMMA NothingSet == GoodAcl(NoAcl) /\ GoodKey(NoPubkey)
<1>1. GoodAcl(NoAcl)
  BY DEF GoodAcl, NoAcl, IsMap
<1>2. GoodKey(NoPubkey)
  BY DEF GoodKey, NoPubkey
<1> QED BY <1>1, <1>2

LEMMA ClearedStorable == ASSUME NEW c PROVE Storable(ClearConfig(c))
<1> DEFINE new == ClearConfig(c)
<1>1. /\ DOMAIN new = Fields \cup {"vtemp"}
      /\ \A f \in DOMAIN Cleared : new[f] = Cleared[f]
  BY ClearedConfig
<1> HIDE DEF new
<1>2. Unset \cup IpLists \cup Acls \cup {"ssh_pubkeys"} \subseteq DOMAIN Cleared
  <2>1. (Unset \cup IpLists \cup Acls \cup {"ssh_pubkeys"}) \cap Levels = {}
    BY DEF Unset, IpLists, Acls, Levels
  <2> QED BY <2>1, FieldsApart, ClearedFields
<1>3. /\ \A f \in Unset : new[f] = 0
      /\ \A f \in IpLists : new[f] = [i \in 1 .. ListLen(f) |-> AnyIp]
      /\ \A f \in Acls : new[f] = [i \in 1 .. MAX_ACL_ENTRIES |-> NoAcl]
      /\ new.ssh_pubkeys = [i \in 1 .. SSH_MAX_PUB_KEYS |-> NoPubkey]
  BY <1>1, <1>2, ClearedFields
<1>4. /\ \A f \in IpLists : IsList(new[f], ListLen(f))
      /\ \A f \in Acls : IsList(new[f], MAX_ACL_ENTRIES)
      /\ IsList(new.ssh_pubkeys, SSH_MAX_PUB_KEYS)
  BY <1>3 DEF IsList
<1>5. \A f \in Acls : \A i \in 1 .. MAX_ACL_ENTRIES : GoodAcl(new[f][i])
  BY <1>3, NothingSet
<1>6. \A i \in 1 .. SSH_MAX_PUB_KEYS : GoodKey(new.ssh_pubkeys[i])
  BY <1>3, NothingSet
<1>7. \A f \in Unset : new[f] \in Nat
  BY <1>3
<1>8. Storable(new)
  BY <1>1, <1>4, <1>5, <1>6, <1>7 DEF Storable
<1> QED BY <1>8 DEF new

LEMMA ReadAcls ==
  ASSUME NEW json, json \in Seq(ToSet(json)),
         \A acl \in ToSet(json) : DOMAIN acl = {"ip", "prefix"} /\ acl.prefix \in Int
  PROVE  /\ IsList(Json2AclList(json), MAX_ACL_ENTRIES)
         /\ \A i \in 1 .. MAX_ACL_ENTRIES : GoodAcl(Json2AclList(json)[i])
<1> DEFINE s == [i \in DOMAIN json |-> ClampedAcl(json[i])]
           back == Padded(s, MAX_ACL_ENTRIES, NoAcl)
<1>1. DOMAIN json = 1 .. Len(json) /\ Len(json) \in Nat
  BY ListedIsList DEF Listed
<1>2. ASSUME NEW i \in DOMAIN json PROVE GoodAcl(s[i])
  <2> DEFINE acl == json[i]
  <2>1. DOMAIN acl = {"ip", "prefix"} /\ acl.prefix \in Int
    BY DEF ToSet
  <2>2. s[i] = [acl EXCEPT !.prefix = ClampInt(acl.prefix, 0, 32)]
    BY DEF ClampedAcl
  <2> HIDE DEF s, acl
  <2>3. ClampInt(acl.prefix, 0, 32) \in 0 .. 32
    <3>1. \A p \in Int : ClampInt(p, 0, 32) \in 0 .. 32
      BY DEF ClampInt
    <3> QED BY <2>1, <3>1
  <2>4. IsMap(s[i]) /\ DOMAIN s[i] = {"ip", "prefix"}
    BY <2>1, <2>2 DEF IsMap
  <2>5. s[i].prefix = ClampInt(acl.prefix, 0, 32)
    BY <2>1, <2>2
  <2> QED BY <2>3, <2>4, <2>5 DEF GoodAcl
<1>3. IsList(s, Len(json))
  BY <1>1 DEF IsList
<1>4. Listed(s) /\ Len(s) = Len(json)
  BY <1>1, <1>3, ListIsListed
<1> HIDE DEF s
<1>5. IsList(back, MAX_ACL_ENTRIES)
  BY DEF IsList, Padded
<1>6. \A i \in 1 .. MAX_ACL_ENTRIES : back[i] = IF i <= Len(s) THEN s[i] ELSE NoAcl
  BY DEF Padded
<1>7. \A i \in 1 .. MAX_ACL_ENTRIES : i <= Len(s) => i \in DOMAIN json
  BY <1>1, <1>4, SettingsAssumption
<1>8. \A i \in 1 .. MAX_ACL_ENTRIES : GoodAcl(back[i])
  BY <1>2, <1>6, <1>7, NothingSet
<1> QED BY <1>5, <1>8 DEF Json2AclList, s

LEMMA ReadPubkeys ==
  ASSUME NEW json, json \in Seq(ToSet(json))
  PROVE  /\ IsList(Json2SshPubkeys(json), SSH_MAX_PUB_KEYS)
         /\ \A i \in 1 .. SSH_MAX_PUB_KEYS : GoodKey(Json2SshPubkeys(json)[i])
<1> DEFINE good == {i \in DOMAIN json : TypeIn(KeyType, json[i].key) = json[i].type}
           s == Picked(json, good)
           back == Padded(s, SSH_MAX_PUB_KEYS, NoPubkey)
<1>1. Listed(json)
  BY DEF Listed
<1>2. From(s, json, good, Len(json))
  <2> HIDE DEF good
  <2> QED BY <1>1, PickedIsFrom
<1>3. \A k \in 1 .. Len(s) : GoodKey(s[k])
  BY <1>2 DEF From, GoodKey
<1>4. Len(s) \in Nat
  BY <1>2, ListedIsList DEF From
<1> HIDE DEF s
<1>5. IsList(back, SSH_MAX_PUB_KEYS)
  BY DEF IsList, Padded
<1>6. \A i \in 1 .. SSH_MAX_PUB_KEYS : back[i] = IF i <= Len(s) THEN s[i] ELSE NoPubkey
  BY DEF Padded
<1>7. \A i \in 1 .. SSH_MAX_PUB_KEYS : i <= Len(s) => i \in 1 .. Len(s)
  BY <1>4, SettingsAssumption
<1>8. \A i \in 1 .. SSH_MAX_PUB_KEYS : GoodKey(back[i])
  BY <1>3, <1>6, <1>7, NothingSet
<1> QED BY <1>5, <1>8 DEF Json2SshPubkeys, s

LEMMA ReadStorable ==
  ASSUME NEW json, Typed(json), NEW c, Storable(c)
  PROVE  Storable(JsonToConfig(json, c))
<1> DEFINE read == JsonToConfig(json, c)
<1>1. DOMAIN read = Fields \cup {"vtemp"}
  BY DEF JsonToConfig, Storable
<1>2. \A f \in Unset : read[f] = IF f \in DOMAIN json THEN json[f] ELSE c[f]
  <2>1. ASSUME NEW f \in Unset PROVE read[f] = IF f \in DOMAIN json THEN json[f] ELSE c[f]
    <3>1. f \in DOMAIN c /\ f \notin IpLists \cup Acls \cup {"vsensors", "vtemp", "ssh_pubkeys"}
          /\ f # "ntp_servers"
      BY FieldsApart DEF Storable, IpLists
    <3> QED BY <3>1 DEF JsonToConfig
  <2> QED BY <2>1
<1>3. ASSUME NEW f \in IpLists PROVE IsList(read[f], ListLen(f))
  <2>1. f \in DOMAIN c /\ f \notin {"vsensors", "vtemp"} /\ IsList(c[f], ListLen(f))
    BY FieldsApart DEF Storable
  <2>2. \/ read[f] = [c[f] EXCEPT ![1] = json.ntp_server]
        \/ read[f] = c[f]
        \/ read[f] = Json2IpList(json[f], Len(c[f]))
    BY <2>1 DEF JsonToConfig
  <2>3. Len(c[f]) = ListLen(f)
    <3>1. ListLen(f) \in Nat
      BY SettingsAssumption DEF ListLen
    <3> QED BY <2>1, <3>1, ListIsListed
  <2>4. IsList([c[f] EXCEPT ![1] = json.ntp_server], ListLen(f))
    BY <2>1 DEF IsList
  <2>5. IsList(Json2IpList(json[f], ListLen(f)), ListLen(f))
    BY DEF IsList, Json2IpList, Padded
  <2> HIDE DEF read
  <2> QED BY <2>1, <2>2, <2>3, <2>4, <2>5
<1>4. ASSUME NEW f \in Acls
      PROVE  /\ IsList(read[f], MAX_ACL_ENTRIES)
             /\ \A i \in 1 .. MAX_ACL_ENTRIES : GoodAcl(read[f][i])
  <2>1. f \in DOMAIN c /\ f \notin {"vsensors", "vtemp"} /\ f \notin IpLists /\ f # "ntp_servers"
    BY FieldsApart DEF Storable, IpLists
  <2>2. read[f] = IF f \in DOMAIN json THEN Json2AclList(json[f]) ELSE c[f]
    BY <2>1 DEF JsonToConfig
  <2> HIDE DEF read
  <2>3. CASE f \in DOMAIN json
    <3>1. json[f] \in Seq(ToSet(json[f]))
          /\ \A acl \in ToSet(json[f]) : DOMAIN acl = {"ip", "prefix"} /\ acl.prefix \in Int
      BY <2>3 DEF Typed
    <3> QED BY <2>2, <2>3, <3>1, ReadAcls
  <2>4. CASE f \notin DOMAIN json
    BY <2>2, <2>4 DEF Storable
  <2> QED BY <2>3, <2>4
<1>5. /\ IsList(read.ssh_pubkeys, SSH_MAX_PUB_KEYS)
      /\ \A i \in 1 .. SSH_MAX_PUB_KEYS : GoodKey(read.ssh_pubkeys[i])
  <2>1. "ssh_pubkeys" \in DOMAIN c /\ "ssh_pubkeys" \notin IpLists \cup Acls
    BY FieldsApart DEF Storable
  <2>2. read.ssh_pubkeys = IF "ssh_pubkeys" \in DOMAIN json THEN Json2SshPubkeys(json.ssh_pubkeys)
                           ELSE c.ssh_pubkeys
    BY <2>1 DEF JsonToConfig
  <2> HIDE DEF read
  <2>3. CASE "ssh_pubkeys" \in DOMAIN json
    <3>1. json.ssh_pubkeys \in Seq(ToSet(json.ssh_pubkeys))
      BY <2>3 DEF Typed
    <3> QED BY <2>2, <2>3, <3>1, ReadPubkeys
  <2>4. CASE "ssh_pubkeys" \notin DOMAIN json
    BY <2>2, <2>4 DEF Storable
  <2> QED BY <2>3, <2>4
<1> HIDE DEF read
<1>6. \A f \in Unset : read[f] \in Nat
  BY <1>2 DEF Storable, Typed
<1>7. Storable(read)
  BY <1>1, <1>3, <1>4, <1>5, <1>6 DEF Storable
<1> QED BY <1>7 DEF read

(* A handler that sets a variable leaves the configuration storable.       *)
Stored == Unset \cup IpLists \cup Acls \cup {"ssh_pubkeys"}

LEMMA OthersStorable ==
  ASSUME NEW c, Storable(c), NEW new, DOMAIN new = DOMAIN c, \A f \in Stored : new[f] = c[f]
  PROVE  Storable(new)
<1>1. \A f \in Unset : new[f] \in Nat
  BY DEF Stored, Storable
<1>2. \A f \in IpLists : IsList(new[f], ListLen(f))
  BY DEF Stored, Storable
<1>3. \A f \in Acls : /\ IsList(new[f], MAX_ACL_ENTRIES)
                      /\ \A i \in 1 .. MAX_ACL_ENTRIES : GoodAcl(new[f][i])
  BY DEF Stored, Storable
<1>4. new["ssh_pubkeys"] = c["ssh_pubkeys"]
  BY DEF Stored
<1> QED BY <1>1, <1>2, <1>3, <1>4 DEF Storable

LEMMA CollectedItems ==
  ASSUME NEW toks, toks \in Seq(ToSet(toks)), NEW len, NEW item, NEW last
  PROVE  LET s == Collected(toks, len, item, last)
         IN /\ DOMAIN s = 1 .. Len(s) /\ Len(s) \in Nat
            /\ \A k \in DOMAIN s : \E t \in DOMAIN item : s[k] = item[t]
<1> DEFINE good == {i \in DOMAIN toks : toks[i] \in DOMAIN item}
           before(i) == {j \in good : j < i}
           taken == {i \in good : /\ Cardinality(before(i)) < len
                                  /\ \A j \in before(i) : item[toks[j]] \notin last}
           texts == Picked(toks, taken)
           s == [k \in DOMAIN texts |-> item[texts[k]]]
<1>1. taken \subseteq good /\ \A i \in good : toks[i] \in DOMAIN item
  OBVIOUS
<1>2. Collected(toks, len, item, last) = s
  BY DEF Collected
<1> HIDE DEF taken, good
<1>3. From(texts, toks, taken, Len(toks))
  BY PickedIsFrom DEF Listed
<1> HIDE DEF texts
<1>4. /\ DOMAIN texts = 1 .. Len(texts) /\ Len(texts) \in Nat
      /\ \A k \in 1 .. Len(texts) : \E i \in taken : texts[k] = toks[i]
  BY <1>3, ListedIsList DEF From
<1>5. \A k \in DOMAIN texts : texts[k] \in DOMAIN item
  BY <1>1, <1>4
<1>6. IsList(s, Len(texts))
  BY <1>4 DEF IsList
<1>7. Len(s) = Len(texts) /\ DOMAIN s = 1 .. Len(s)
  BY <1>4, <1>6, ListIsListed
<1> QED BY <1>2, <1>4, <1>5, <1>7

LEMMA AclListSet ==
  ASSUME NEW old, IsList(old, MAX_ACL_ENTRIES), \A i \in 1 .. MAX_ACL_ENTRIES : GoodAcl(old[i]),
         NEW a, a.toks \in Seq(ToSet(a.toks))
  PROVE  LET val == AclListChange(old, a, MAX_ACL_ENTRIES).val
         IN IsList(val, MAX_ACL_ENTRIES) /\ \A i \in 1 .. MAX_ACL_ENTRIES : GoodAcl(val[i])
<1> DEFINE acl == [t \in DOMAIN AclOf |-> ClampedAcl(AclOf[t])]
           last == {x \in Range(acl) : x.prefix = 0}
           list == Collected(a.toks, MAX_ACL_ENTRIES, acl, last)
           new == Padded(list, MAX_ACL_ENTRIES, NoAcl)
           val == AclListChange(old, a, MAX_ACL_ENTRIES).val
<1>1. val = old \/ val = new
  BY DEF AclListChange, Done, Refused
<1>2. ASSUME NEW t \in DOMAIN acl PROVE GoodAcl(acl[t])
  <2> DEFINE b == AclOf[t]
  <2>1. DOMAIN b = {"ip", "prefix"} /\ b.prefix \in Int
    BY SettingsAssumption
  <2>2. acl[t] = [b EXCEPT !.prefix = ClampInt(b.prefix, 0, 32)]
    BY DEF ClampedAcl
  <2> HIDE DEF acl, b
  <2>3. ClampInt(b.prefix, 0, 32) \in 0 .. 32
    <3>1. \A p \in Int : ClampInt(p, 0, 32) \in 0 .. 32
      BY DEF ClampInt
    <3> QED BY <2>1, <3>1
  <2>4. IsMap(acl[t]) /\ DOMAIN acl[t] = {"ip", "prefix"}
    BY <2>1, <2>2 DEF IsMap
  <2>5. acl[t].prefix = ClampInt(b.prefix, 0, 32)
    BY <2>1, <2>2
  <2> QED BY <2>3, <2>4, <2>5 DEF GoodAcl
<1> HIDE DEF acl, last
<1>3. /\ DOMAIN list = 1 .. Len(list) /\ Len(list) \in Nat
      /\ \A k \in DOMAIN list : \E t \in DOMAIN acl : list[k] = acl[t]
  BY CollectedItems
<1> HIDE DEF list
<1>4. IsList(new, MAX_ACL_ENTRIES)
  BY DEF IsList, Padded
<1>5. \A i \in 1 .. MAX_ACL_ENTRIES : new[i] = IF i <= Len(list) THEN list[i] ELSE NoAcl
  BY DEF Padded
<1>6. \A i \in 1 .. MAX_ACL_ENTRIES : i <= Len(list) => i \in DOMAIN list
  BY <1>3, SettingsAssumption
<1>7. \A i \in 1 .. MAX_ACL_ENTRIES : GoodAcl(new[i])
  BY <1>2, <1>3, <1>5, <1>6, NothingSet
<1> HIDE DEF new, val
<1>8. IsList(val, MAX_ACL_ENTRIES) /\ \A i \in 1 .. MAX_ACL_ENTRIES : GoodAcl(val[i])
  BY <1>1, <1>4, <1>7
<1> QED BY <1>8 DEF val

LEMMA SettingStorable ==
  ASSUME NEW c, Storable(c), IsMap(c), NEW row, GoodRow(row), NEW a, a.toks \in Seq(ToSet(a.toks))
  PROVE  Storable([c EXCEPT ![row.field] = Set(row, c[row.field], a).val])
<1> DEFINE f == row.field
           val == Set(row, c[f], a).val
           new == [c EXCEPT ![f] = val]
<1>1. /\ DOMAIN new = DOMAIN c
      /\ \A g \in DOMAIN c : new[g] = IF g = f THEN val ELSE c[g]
  BY DEF IsMap
<1>2. Stored \subseteq DOMAIN c
  BY FieldsApart DEF Stored, Storable
<1>3. CASE f \in Unset
  <2>1. row.kind \in {"uint8", "uint16"} /\ row.min = 0 /\ c[f] \in Nat
    BY <1>3 DEF GoodRow, Storable
  <2>2. \/ val = UintSetting(8, c[f], a, row.min, row.max).val
        \/ val = UintSetting(16, c[f], a, row.min, row.max).val
    BY <2>1 DEF Set
  <2>3. ASSUME NEW bits PROVE UintSetting(bits, c[f], a, row.min, row.max).val \in Nat
    <3>1. \/ UintSetting(bits, c[f], a, row.min, row.max).val = c[f]
          \/ UintSetting(bits, c[f], a, row.min, row.max).val \in row.min .. row.max
      BY DEF UintSetting, Done, Refused
    <3> QED BY <2>1, <3>1
  <2> HIDE DEF new, val
  <2>4. val \in Nat
    BY <2>2, <2>3
  <2>5. \A g \in Unset : new[g] \in Nat
    BY <1>1, <1>2, <2>4 DEF Storable, Stored
  <2>6. \A g \in Stored \ Unset : new[g] = c[g]
    BY <1>1, <1>2, <1>3
  <2>7. IpLists \cup Acls \cup {"ssh_pubkeys"} \subseteq Stored \ Unset
    BY FieldsApart DEF Stored
  <2>8. /\ \A g \in IpLists : new[g] = c[g]
        /\ \A g \in Acls : new[g] = c[g]
        /\ new["ssh_pubkeys"] = c["ssh_pubkeys"]
    BY <2>6, <2>7
  <2>9. Storable(new)
    BY <1>1, <2>5, <2>8 DEF Storable
  <2> QED BY <2>9 DEF new, val
<1>4. CASE f \in IpLists
  <2>1. row.kind = "iplist" /\ row.max = ListLen(f) /\ IsList(c[f], ListLen(f))
    BY <1>4 DEF GoodRow, Storable
  <2>2. val = IpListChange(c[f], a, ListLen(f)).val
    BY <2>1 DEF Set
  <2>3. val = c[f] \/ \E list : val = Padded(list, ListLen(f), AnyIp)
    BY <2>2 DEF IpListChange, Done, Refused
  <2> HIDE DEF new, val
  <2>4. \A list : IsList(Padded(list, ListLen(f), AnyIp), ListLen(f))
    BY DEF IsList, Padded
  <2>5. IsList(val, ListLen(f))
    BY <2>1, <2>3, <2>4
  <2>6. \A g \in IpLists : IsList(new[g], ListLen(g))
    BY <1>1, <1>2, <2>5 DEF Storable, Stored
  <2>7. Unset \cup Acls \cup {"ssh_pubkeys"} \subseteq Stored \ IpLists
    BY FieldsApart DEF Stored
  <2>8. /\ \A g \in Unset : new[g] = c[g]
        /\ \A g \in Acls : new[g] = c[g]
        /\ new["ssh_pubkeys"] = c["ssh_pubkeys"]
    BY <1>1, <1>2, <1>4, <2>7
  <2>9. Storable(new)
    BY <1>1, <2>6, <2>8 DEF Storable
  <2> QED BY <2>9 DEF new, val
<1>5. CASE f \in Acls
  <2>1. row.kind = "acl" /\ IsList(c[f], MAX_ACL_ENTRIES)
        /\ \A i \in 1 .. MAX_ACL_ENTRIES : GoodAcl(c[f][i])
    BY <1>5 DEF GoodRow, Storable
  <2>2. val = AclListChange(c[f], a, MAX_ACL_ENTRIES).val
    BY <2>1 DEF Set
  <2> HIDE DEF new, val
  <2>3. IsList(val, MAX_ACL_ENTRIES) /\ \A i \in 1 .. MAX_ACL_ENTRIES : GoodAcl(val[i])
    BY <2>1, <2>2, AclListSet
  <2>4. \A g \in Acls : /\ IsList(new[g], MAX_ACL_ENTRIES)
                        /\ \A i \in 1 .. MAX_ACL_ENTRIES : GoodAcl(new[g][i])
    <3>1. ASSUME NEW g \in Acls PROVE new[g] = val \/ new[g] = c[g]
      BY <1>1, <1>2 DEF Stored
    <3> QED BY <2>3, <3>1 DEF Storable
  <2>7. Unset \cup IpLists \cup {"ssh_pubkeys"} \subseteq Stored \ Acls
    BY FieldsApart DEF Stored
  <2>8. /\ \A g \in Unset : new[g] = c[g]
        /\ \A g \in IpLists : new[g] = c[g]
        /\ new["ssh_pubkeys"] = c["ssh_pubkeys"]
    BY <1>1, <1>2, <1>5, <2>7
  <2>9. Storable(new)
    BY <1>1, <2>4, <2>8 DEF Storable
  <2> QED BY <2>9 DEF new, val
<1>6. CASE f \notin Unset \cup IpLists \cup Acls
  <2>1. f \notin Stored
    BY <1>6 DEF GoodRow, Stored
  <2>2. \A g \in Stored : new[g] = c[g]
    BY <1>1, <1>2, <2>1
  <2> HIDE DEF new
  <2>3. Storable(new)
    BY <1>1, <2>2, OthersStorable
  <2> QED BY <2>3 DEF new
<1> QED BY <1>3, <1>4, <1>5, <1>6

LEMMA PubkeysStorable ==
  ASSUME NEW c, Storable(c), IsMap(c), NEW a
  PROVE  /\ Storable([c EXCEPT !.ssh_pubkeys = PubkeyAdd(c.ssh_pubkeys, a).val])
         /\ Storable([c EXCEPT !.ssh_pubkeys = PubkeyDel(c.ssh_pubkeys, a).val])
<1> DEFINE Good(keys) == /\ IsList(keys, SSH_MAX_PUB_KEYS)
                         /\ \A i \in 1 .. SSH_MAX_PUB_KEYS : GoodKey(keys[i])
           keys == c.ssh_pubkeys
<1>1. Good(keys)
  BY DEF Storable
<1>2. ASSUME NEW i, NEW k, GoodKey(k) PROVE Good([keys EXCEPT ![i] = k])
  <2>1. IsList([keys EXCEPT ![i] = k], SSH_MAX_PUB_KEYS)
    BY <1>1 DEF IsList
  <2>2. \A j \in 1 .. SSH_MAX_PUB_KEYS : [keys EXCEPT ![i] = k][j] = k
                                         \/ [keys EXCEPT ![i] = k][j] = keys[j]
    BY <1>1 DEF IsList
  <2> QED BY <1>1, <1>2, <2>1, <2>2
<1>3. ASSUME NEW new, Good(new) PROVE Storable([c EXCEPT !.ssh_pubkeys = new])
  <2> DEFINE d == [c EXCEPT !.ssh_pubkeys = new]
  <2>1. /\ "ssh_pubkeys" \in DOMAIN c
        /\ Unset \cup IpLists \cup Acls \subseteq DOMAIN c \ {"ssh_pubkeys"}
    BY FieldsApart DEF Storable
  <2>2. /\ DOMAIN d = DOMAIN c /\ d["ssh_pubkeys"] = new
        /\ \A g \in DOMAIN c \ {"ssh_pubkeys"} : d[g] = c[g]
    BY <2>1
  <2> HIDE DEF d
  <2>3. /\ \A g \in Unset : d[g] = c[g]
        /\ \A g \in IpLists : d[g] = c[g]
        /\ \A g \in Acls : d[g] = c[g]
    BY <2>1, <2>2
  <2>4. Storable(d)
    BY <1>3, <2>2, <2>3 DEF Storable
  <2> QED BY <2>4 DEF d
<1>4. Good(PubkeyDel(keys, a).val)
  <2>1. \/ PubkeyDel(keys, a).val = keys
        \/ \E i : PubkeyDel(keys, a).val = [keys EXCEPT ![i] = NoPubkey]
    BY DEF PubkeyDel, Done, Refused
  <2>2. CASE PubkeyDel(keys, a).val = keys
    BY <1>1, <2>2
  <2>3. CASE \E i : PubkeyDel(keys, a).val = [keys EXCEPT ![i] = NoPubkey]
    <3>1. PICK i : PubkeyDel(keys, a).val = [keys EXCEPT ![i] = NoPubkey]
      BY <2>3
    <3>2. Good([keys EXCEPT ![i] = NoPubkey])
      <4> HIDE DEF Good, keys
      <4> QED BY <1>2, NothingSet
    <3> QED BY <3>1, <3>2
  <2> QED BY <2>1, <2>2, <2>3
<1>5. Good(PubkeyAdd(keys, a).val)
  <2> DEFINE parsed == StrToSshPubkey(Tail(a.toks), KeyType)
             added == [parsed.key EXCEPT !.username = a.toks[1]]
  <2>1. \/ PubkeyAdd(keys, a).val = keys
        \/ parsed.ret = 0 /\ \E i : PubkeyAdd(keys, a).val = [keys EXCEPT ![i] = added]
    BY DEF PubkeyAdd, Done, Refused
  <2>2. parsed.ret = 0 => GoodKey(added)
    BY DEF StrToSshPubkey, GoodKey
  <2> HIDE DEF parsed, added
  <2>3. CASE PubkeyAdd(keys, a).val = keys
    BY <1>1, <2>3
  <2>4. CASE parsed.ret = 0 /\ \E i : PubkeyAdd(keys, a).val = [keys EXCEPT ![i] = added]
    <3>1. PICK i : PubkeyAdd(keys, a).val = [keys EXCEPT ![i] = added]
      BY <2>4
    <3>2. Good([keys EXCEPT ![i] = added])
      <4> HIDE DEF Good, keys
      <4> QED BY <1>2, <2>2, <2>4
    <3> QED BY <3>1, <3>2
  <2> QED BY <2>1, <2>3, <2>4
<1> QED BY <1>3, <1>4, <1>5

-----------------------------------------------------------------------------
(* The files can be read: each is a text, or an object of the right types,  *)
(* whatever has been written, copied over or moved there.                  *)
GoodText(t) == "raw" \in DOMAIN t \/ Typed(t)
GoodFile(x) == x.size \in Int /\ GoodText(x.text)
Readable(fs) == fs = [n \in Names |-> fs[n]] /\ \A n \in Names : GoodFile(fs[n])

LEMMA RawIsText == ASSUME NEW x PROVE GoodText(Raw(x))
BY DEF GoodText, Raw

LEMMA NewFiles == GoodFile(NoFile) /\ GoodFile(Empty)
BY RawIsText DEF GoodFile, NoFile, Empty

LEMMA FilePut ==
  ASSUME NEW fs, Readable(fs), NEW n, NEW x, GoodFile(x)
  PROVE  Readable([fs EXCEPT ![n] = x])
<1> DEFINE new == [fs EXCEPT ![n] = x]
<1>1. new = [m \in Names |-> new[m]]
  BY DEF Readable
<1>2. \A m \in Names : new[m] = x \/ new[m] = fs[m]
  BY DEF Readable
<1> HIDE DEF new
<1>3. Readable(new)
  BY <1>1, <1>2 DEF Readable
<1> QED BY <1>3 DEF new

LEMMA WriteReadable ==
  ASSUME NEW fs, Readable(fs), NEW name \in Names, NEW text, GoodText(text), NEW size \in Int,
         NEW faults
  PROVE  Readable(FlashWriteFile(fs, name, text, size, faults).files)
<1> DEFINE over == Overwritten(fs[name], text, size)
<1>1. GoodFile(over)
  <2>1. fs[name].size \in Int
    BY DEF Readable, GoodFile
  <2> QED BY <2>1 DEF GoodFile, Overwritten
<1>2. Readable([fs EXCEPT ![name] = over])
  <2> HIDE DEF over
  <2> QED BY <1>1, FilePut
<1>3. Readable(Created(fs, name))
  <2>1. Readable([fs EXCEPT ![name] = Empty])
    BY NewFiles, FilePut
  <2> QED BY <2>1 DEF Created
<1>4. \/ FlashWriteFile(fs, name, text, size, faults).files = fs
      \/ FlashWriteFile(fs, name, text, size, faults).files = Created(fs, name)
      \/ FlashWriteFile(fs, name, text, size, faults).files = [fs EXCEPT ![name] = over]
  BY DEF FlashWriteFile
<1> QED BY <1>2, <1>3, <1>4

LEMMA DeleteReadable ==
  ASSUME NEW fs, Readable(fs), NEW name, NEW faults
  PROVE  Readable(FlashDeleteFile(fs, name, faults).files)
<1>1. Readable([fs EXCEPT ![name] = NoFile])
  BY NewFiles, FilePut
<1>2. \/ FlashDeleteFile(fs, name, faults).files = fs
      \/ FlashDeleteFile(fs, name, faults).files = [fs EXCEPT ![name] = NoFile]
  BY DEF FlashDeleteFile
<1> QED BY <1>1, <1>2

LEMMA FormatReadable ==
  ASSUME NEW fs, Readable(fs), NEW faults
  PROVE  Readable(FlashFormat(fs, faults).files)
<1>1. Readable([n \in DOMAIN fs |-> NoFile])
  BY NewFiles DEF Readable
<1>2. \/ FlashFormat(fs, faults).files = fs
      \/ FlashFormat(fs, faults).files = [n \in DOMAIN fs |-> NoFile]
  BY DEF FlashFormat
<1> QED BY <1>1, <1>2

LEMMA RenameReadable ==
  ASSUME NEW fs, Readable(fs), NEW old \in Names, NEW new, NEW faults
  PROVE  Readable(FlashRenameFile(fs, old, new, faults).files)
<1> DEFINE moved == [fs EXCEPT ![new] = fs[old]]
           last == IF old = new THEN moved[old] ELSE NoFile
<1>1. GoodFile(fs[old])
  BY DEF Readable
<1>2. Readable(moved)
  BY <1>1, FilePut
<1>3. GoodFile(last)
  <2> HIDE DEF moved
  <2> QED BY <1>2, NewFiles DEF Readable
<1>4. Readable([moved EXCEPT ![old] = last])
  <2> HIDE DEF moved, last
  <2> QED BY <1>2, <1>3, FilePut
<1>5. \/ FlashRenameFile(fs, old, new, faults).files = fs
      \/ FlashRenameFile(fs, old, new, faults).files = [moved EXCEPT ![old] = last]
  BY DEF FlashRenameFile
<1> QED BY <1>4, <1>5

LEMMA CopyReadable ==
  ASSUME NEW fs, Readable(fs), NEW src \in Names, NEW dst \in Names, NEW overwrite, NEW faults
  PROVE  Readable(FlashCopyFile(fs, src, dst, overwrite, faults).files)
<1> DEFINE over == Overwritten(fs[dst], fs[src].text, fs[src].size)
<1>1. GoodFile(over)
  <2>1. fs[src].size \in Int /\ fs[dst].size \in Int /\ GoodText(fs[src].text)
    BY DEF Readable, GoodFile
  <2> QED BY <2>1 DEF GoodFile, Overwritten
<1>2. Readable([fs EXCEPT ![dst] = over])
  <2> HIDE DEF over
  <2> QED BY <1>1, FilePut
<1>3. Readable(Created(fs, dst))
  <2>1. Readable([fs EXCEPT ![dst] = Empty])
    BY NewFiles, FilePut
  <2> QED BY <2>1 DEF Created
<1>4. \/ FlashCopyFile(fs, src, dst, overwrite, faults).files = fs
      \/ FlashCopyFile(fs, src, dst, overwrite, faults).files = Created(fs, dst)
      \/ FlashCopyFile(fs, src, dst, overwrite, faults).files = [fs EXCEPT ![dst] = over]
  BY DEF FlashCopyFile
<1> QED BY <1>2, <1>3, <1>4

LEMMA KeysReadable ==
  ASSUME NEW fs, Readable(fs), NEW a, NEW made, NEW faults
  PROVE  /\ Readable(SshCreatePkey(fs, a, made, faults).files)
         /\ Readable(SshDeletePkey(fs, a, faults).files)
<1>1. Readable(SshCreatePkey(fs, a, made, faults).files)
  <2> DEFINE write(name) == FlashWriteFile(fs, name, Raw("key"), 1, faults)
             after(keys) == [n \in DOMAIN fs |-> IF n \in keys THEN write(n).files[n] ELSE fs[n]]
  <2>1. ASSUME NEW keys PROVE Readable(after(keys))
    <3>1. DOMAIN fs = Names /\ \A n \in Names : GoodFile(fs[n])
      BY DEF Readable
    <3>2. ASSUME NEW n \in Names PROVE GoodFile(write(n).files[n])
      <4>1. Readable(write(n).files)
        BY RawIsText, WriteReadable
      <4> QED BY <4>1 DEF Readable
    <3> HIDE DEF write
    <3>3. \A n \in Names : GoodFile(after(keys)[n])
      BY <3>1, <3>2
    <3>4. after(keys) = [n \in Names |-> after(keys)[n]]
      BY <3>1
    <3> HIDE DEF after
    <3> QED BY <3>3, <3>4 DEF Readable
  <2>2. \/ SshCreatePkey(fs, a, made, faults).files = fs
        \/ \E keys : SshCreatePkey(fs, a, made, faults).files = after(keys)
    BY DEF SshCreatePkey
  <2> HIDE DEF after
  <2> QED BY <2>1, <2>2
<1>2. Readable(SshDeletePkey(fs, a, faults).files)
  <2>1. \/ SshDeletePkey(fs, a, faults).files = fs
        \/ \E name : SshDeletePkey(fs, a, faults).files = FlashDeleteFile(fs, name, faults).files
    BY DEF SshDeletePkey, FlashDeleteFile
  <2> QED BY <2>1, DeleteReadable
<1> QED BY <1>1, <1>2

(* What a save writes is an object of the right types.                     *)
LEMMA WrittenTyped ==
  ASSUME NEW c, Storable(c)
  PROVE  /\ "raw" \notin DOMAIN ConfigToJson(c) /\ "debug" \in DOMAIN ConfigToJson(c)
         /\ Typed(ConfigToJson(c))
<1> DEFINE json == ConfigToJson(c)
<1>1. DOMAIN json = Written(c)
  BY DEF ConfigToJson
<1>2. Written(c) \subseteq Fields /\ Levels \subseteq Written(c)
  BY DEF Written, Filled, Fields, Unset, PlainNumbers
<1>3. "raw" \notin Fields
  BY DEF Fields, Levels, PlainNumbers, Texts, Flags, Ips, IpLists, Acls
<1>4. \A f \in Unset \cap DOMAIN json : json[f] \in Nat
  <2>1. \A f \in Unset \cap DOMAIN json : json[f] = c[f]
    BY <1>1, FieldsApart DEF ConfigToJson
  <2> QED BY <2>1 DEF Storable
<1>5. ASSUME NEW f \in Acls \cap DOMAIN json
      PROVE  /\ json[f] \in Seq(ToSet(json[f]))
             /\ \A acl \in ToSet(json[f]) : DOMAIN acl = {"ip", "prefix"} /\ acl.prefix \in Int
  <2> DEFINE list == c[f]
             I == {i \in DOMAIN list : list[i].prefix > 0}
  <2>1. json[f] = Picked(list, I)
    BY <1>1, FieldsApart DEF ConfigToJson, AclList2Json
  <2>2. IsList(list, MAX_ACL_ENTRIES) /\ \A i \in 1 .. MAX_ACL_ENTRIES : GoodAcl(list[i])
    BY DEF Storable
  <2>3. Listed(list) /\ Len(list) = MAX_ACL_ENTRIES
    BY <2>2, ListIsListed, SettingsAssumption
  <2> HIDE DEF list, I, json
  <2>4. From(json[f], list, I, Len(list))
    BY <2>1, <2>3, PickedIsFrom
  <2>5. Listed(json[f]) /\ DOMAIN json[f] = 1 .. Len(json[f])
    BY <2>4, ListedIsList DEF From
  <2>6. \A k \in DOMAIN json[f] : GoodAcl(json[f][k])
    BY <2>2, <2>3, <2>4, <2>5 DEF From
  <2>7. \A acl \in ToSet(json[f]) : GoodAcl(acl)
    BY <2>6 DEF ToSet
  <2>8. json[f] \in Seq(ToSet(json[f]))
    BY <2>5 DEF Listed
  <2>9. \A acl \in ToSet(json[f]) : DOMAIN acl = {"ip", "prefix"} /\ acl.prefix \in 0 .. 32
    BY <2>7 DEF GoodAcl
  <2>10. 0 .. 32 \subseteq Int
    OBVIOUS
  <2> QED BY <2>8, <2>9, <2>10
<1>6. "ssh_pubkeys" \in DOMAIN json => json.ssh_pubkeys \in Seq(ToSet(json.ssh_pubkeys))
  <2> SUFFICES ASSUME "ssh_pubkeys" \in DOMAIN json
               PROVE  json["ssh_pubkeys"] \in Seq(ToSet(json["ssh_pubkeys"]))
    OBVIOUS
  <2> DEFINE list == c.ssh_pubkeys
             I == {i \in DOMAIN list : list[i].key # NoText /\ list[i].username # NoText}
  <2>1. json["ssh_pubkeys"] = Picked(list, I)
    BY <1>1, FieldsApart DEF ConfigToJson, SshPubkeys2Json
  <2>2. Listed(list)
    BY ListIsListed, SettingsAssumption DEF Storable
  <2> HIDE DEF list, I, json
  <2>3. From(json["ssh_pubkeys"], list, I, Len(list))
    BY <2>1, <2>2, PickedIsFrom
  <2> QED BY <2>3 DEF From, Listed
<1> HIDE DEF json
<1>7. Typed(json)
  BY <1>4, <1>5, <1>6 DEF Typed
<1>8. "debug" \in Levels
  BY DEF Levels
<1> QED BY <1>1, <1>2, <1>3, <1>7, <1>8 DEF json

-----------------------------------------------------------------------------
(* Whatever it is read from, the configuration that is read is storable.   *)
LEMMA ParsedTyped == ASSUME NEW t, GoodText(t) PROVE Typed(Parsed(t))
<1>1. Typed(NoJson)
  BY DEF Typed, NoJson
<1> QED BY <1>1 DEF GoodText, Parsed

LEMMA FileTyped ==
  ASSUME NEW fs, Readable(fs)
  PROVE  Typed(Parsed(FlashReadFile(fs, "lcdpico.cfg", {}).text))
<1> DEFINE text == FlashReadFile(fs, "lcdpico.cfg", {}).text
<1>1. (\E x : text = Raw(x)) \/ text = fs["lcdpico.cfg"].text
  BY DEF FlashReadFile
<1>2. GoodText(fs["lcdpico.cfg"].text)
  BY ConsoleAssumption DEF Readable, GoodFile
<1> HIDE DEF text
<1>3. GoodText(text)
  BY <1>1, <1>2, RawIsText
<1> QED BY <1>3, ParsedTyped DEF text

LEMMA BootStorable ==
  ASSUME NEW fs, Readable(fs), NEW safemode, NEW old
  PROVE  Storable(Boot(fs, safemode, old))
<1> DEFINE json == Parsed(FlashReadFile(fs, "lcdpico.cfg", {}).text)
           from == IF safemode \/ json = NoJson THEN Default ELSE json
           loaded == JsonToConfig(from, ClearConfig(old))
           new == [loaded EXCEPT !.log_level = 6, !.local_echo = TRUE]
<1>1. Typed(from)
  BY FileTyped, JsonAssumption
<1> HIDE DEF json, from
<1>2. Storable(loaded)
  BY <1>1, ClearedStorable, ReadStorable
<1>3. Boot(fs, safemode, old) = IF safemode THEN new ELSE loaded
  BY DEF Boot, ReadConfig, json, from
<1> HIDE DEF loaded
<1>4. Storable(new)
  <2>1. {"log_level", "local_echo"} \cap Stored = {}
    BY DEF Stored, Unset, IpLists, Acls
  <2>2. Stored \subseteq DOMAIN loaded
    BY <1>2, FieldsApart DEF Storable, Stored
  <2>3. DOMAIN new = DOMAIN loaded /\ \A f \in Stored : new[f] = loaded[f]
    BY <2>1, <2>2
  <2> HIDE DEF new
  <2> QED BY <1>2, <2>3, OthersStorable
<1> QED BY <1>2, <1>3, <1>4

LEMMA UploadedStorable ==
  ASSUME NEW lines, Storable(conf)
  PROVE  Storable(Uploaded(lines))
<1> DEFINE json == ParsedLines(lines)
<1>1. Uploaded(lines) = conf \/ Uploaded(lines) = JsonToConfig(json, ClearConfig(conf))
  BY DEF Uploaded, UploadConfig
<1>2. Typed(json)
  <2>1. CASE lines \in DOMAIN Documents
    <3>1. GoodText(Documents[lines])
      BY <2>1, JsonAssumption DEF GoodText
    <3> QED BY <2>1, <3>1, ParsedTyped DEF ParsedLines
  <2>2. CASE lines \notin DOMAIN Documents
    BY <2>2 DEF ParsedLines, Typed, NoJson
  <2> QED BY <2>1, <2>2
<1> HIDE DEF json
<1>3. Storable(JsonToConfig(json, ClearConfig(conf)))
  BY <1>2, ClearedStorable, ReadStorable
<1> QED BY <1>1, <1>3

-----------------------------------------------------------------------------
(* What is in use can be stored and what is stored can be read, always.    *)
SavedInv == Storable(conf) /\ Readable(files)

LEMMA SavedStart == Init => SavedInv
<1> SUFFICES ASSUME Init PROVE SavedInv
  OBVIOUS
<1>1. Readable(files)
  BY NewFiles DEF Init, Readable
<1>2. Storable(conf)
  BY <1>1, BootStorable DEF Init
<1> QED BY <1>1, <1>2 DEF SavedInv

LEMMA SensorsStorable ==
  ASSUME NEW c, Storable(c), NEW val
  PROVE  /\ Storable([c EXCEPT !.vsensors = val])
         /\ Storable([c EXCEPT !.vtemp = val])
<1>1. {"vsensors", "vtemp"} \cap Stored = {} /\ Stored \subseteq DOMAIN c
  BY FieldsApart DEF Stored, Storable
<1> DEFINE new == [c EXCEPT !.vsensors = val]
           temp == [c EXCEPT !.vtemp = val]
<1>2. DOMAIN new = DOMAIN c /\ \A f \in Stored : new[f] = c[f]
  BY <1>1
<1>3. DOMAIN temp = DOMAIN c /\ \A f \in Stored : temp[f] = c[f]
  BY <1>1
<1> HIDE DEF new, temp
<1>4. Storable(new) /\ Storable(temp)
  BY <1>2, <1>3, OthersStorable
<1> QED BY <1>4 DEF new, temp

(* The handlers that change the configuration *)
LEMMA ConfiguredStorable ==
  ASSUME ConsoleInv, SavedInv,
         \/ Setting \/ Question \/ VsensorName \/ VsensorSources \/ VsensorRead \/ VsensorSet
         \/ Pubkey \/ Time \/ Exit \/ WifiRejoin \/ MemTest
  PROVE  SavedInv'
<1>1. Storable(conf) /\ Readable(files) /\ IsMap(conf)
  BY DEF SavedInv, ConsoleInv, SensorsWhole
<1>2. ASSUME NEW res, NEW new, Configure(res, new), Storable(new) PROVE SavedInv'
  <2>1. conf' = new /\ files' = files
    BY <1>2 DEF Configure
  <2> QED BY <1>1, <1>2, <2>1 DEF SavedInv, Storable, Readable, IsList
<1>3. CASE Setting
  <2> DEFINE row == SettingRows[call.func]
             set == Set(row, conf[row.field], arg)
  <2>1. calls # << >> /\ call.func \in DOMAIN SettingRows
    BY <1>3 DEF Setting, Running
  <2>2. Configure(0, conf) \/ Configure(set.res, [conf EXCEPT ![row.field] = set.val])
    BY <1>3 DEF Setting
  <2>3. GoodRow(row)
    BY <2>1, GoodSettingRows DEF GoodRows
  <2>4. arg.toks \in Seq(ToSet(arg.toks))
    <3>1. todo \in Seq(Commands) /\ todo # << >>
      BY <2>1 DEF ConsoleInv, Queue
    <3>2. IsCommand(Head(todo))
      BY <3>1, LinesAssumption
    <3> QED BY <3>2 DEF IsCommand, arg
  <2> HIDE DEF row
  <2>5. Storable([conf EXCEPT ![row.field] = set.val])
    BY <1>1, <2>3, <2>4, SettingStorable
  <2> QED BY <1>1, <1>2, <2>2, <2>5
<1>4. CASE Question \/ VsensorRead \/ Time \/ Exit \/ WifiRejoin \/ MemTest
  <2>1. \E res : Configure(res, conf)
    BY <1>4 DEF Question, VsensorRead, Time, Exit, WifiRejoin, MemTest, ActsUnlessAsked
  <2> QED BY <1>1, <1>2, <2>1
<1>5. CASE VsensorName \/ VsensorSources
  <2>1. \/ \E res : Configure(res, conf)
        \/ \E res, i, v : Configure(res, [conf EXCEPT !.vsensors[i].name = v])
        \/ \E res, i, v : Configure(res, [conf EXCEPT !.vsensors[i] = v])
    BY <1>5 DEF VsensorName, VsensorSources
  <2>2. \A i, v : /\ Storable([conf EXCEPT !.vsensors[i].name = v])
                  /\ Storable([conf EXCEPT !.vsensors[i] = v])
    BY <1>1, SensorsStorable
  <2> QED BY <1>1, <1>2, <2>1, <2>2
<1>6. CASE VsensorSet
  <2>1. \/ \E res : Configure(res, conf)
        \/ \E res, i, v : Configure(res, [conf EXCEPT !.vtemp[i] = v])
    BY <1>6 DEF VsensorSet
  <2>2. \A i, v : Storable([conf EXCEPT !.vtemp[i] = v])
    BY <1>1, SensorsStorable
  <2> QED BY <1>1, <1>2, <2>1, <2>2
<1>7. CASE Pubkey
  <2>1. \/ \E res : Configure(res, conf)
        \/ \E res : Configure(res, [conf EXCEPT !.ssh_pubkeys =
                                         PubkeyAdd(conf.ssh_pubkeys, arg).val])
        \/ \E res : Configure(res, [conf EXCEPT !.ssh_pubkeys =
                                         PubkeyDel(conf.ssh_pubkeys, arg).val])
    BY <1>7 DEF Pubkey
  <2> QED BY <1>1, <1>2, <2>1, PubkeysStorable
<1> QED BY <1>3, <1>4, <1>5, <1>6, <1>7

(* Those that change the files *)
LEMMA FiledReadable ==
  ASSUME SavedInv,
         \/ SaveConfig \/ DeleteConfig \/ LfsInfo \/ LfsDel \/ LfsFormat \/ LfsRen \/ LfsCopy
         \/ PkeyCommand
  PROVE  SavedInv'
<1>1. Storable(conf) /\ Readable(files)
  BY DEF SavedInv
<1>2. ASSUME NEW res, NEW new, File(res, new), Readable(new) PROVE SavedInv'
  <2>1. conf' = conf /\ files' = new
    BY <1>2 DEF File
  <2> QED BY <1>1, <1>2, <2>1 DEF SavedInv, Storable, Readable, IsList
<1>3. CASE SaveConfig
  <2>1. \/ \E res : File(res, files)
        \/ \E res, faults :
             File(res, FlashWriteFile(files, "lcdpico.cfg", ConfigToJson(conf), 1, faults).files)
    BY <1>3 DEF SaveConfig
  <2>2. GoodText(ConfigToJson(conf)) /\ "lcdpico.cfg" \in Names /\ 1 \in Int
    BY <1>1, WrittenTyped, ConsoleAssumption DEF GoodText
  <2>3. \A faults :
          Readable(FlashWriteFile(files, "lcdpico.cfg", ConfigToJson(conf), 1, faults).files)
    BY <1>1, <2>2, WriteReadable
  <2> QED BY <1>1, <1>2, <2>1, <2>3
<1>4. CASE DeleteConfig \/ LfsInfo \/ LfsDel \/ LfsFormat
  <2>1. \/ \E res : File(res, files)
        \/ \E res, name, faults : File(res, FlashDeleteFile(files, name, faults).files)
        \/ \E res, faults : File(res, FlashFormat(files, faults).files)
    BY <1>4 DEF DeleteConfig, LfsInfo, LfsDel, LfsFormat, TwoIfFailed
  <2> QED BY <1>1, <1>2, <2>1, DeleteReadable, FormatReadable
<1>5. CASE LfsRen \/ LfsCopy
  <2>1. \/ \E res : File(res, files)
        \/ \E res, faults : \E a, b \in Names :
             \/ File(res, FlashRenameFile(files, a, b, faults).files)
             \/ File(res, FlashCopyFile(files, a, b, FALSE, faults).files)
    <3>1. TwoNames => Tok(arg, 1) \in Names /\ Tok(arg, 2) \in Names
      BY DEF TwoNames
    <3>2. CASE LfsRen
      <4>1. \/ \E res : File(res, files)
            \/ TwoNames /\ \E res, faults :
                 File(res, FlashRenameFile(files, Tok(arg, 1), Tok(arg, 2), faults).files)
        BY <3>2 DEF LfsRen, TwoIfFailed
      <4> QED BY <3>1, <4>1
    <3>3. CASE LfsCopy
      <4>1. \/ \E res : File(res, files)
            \/ TwoNames /\ \E res, faults :
                 File(res, FlashCopyFile(files, Tok(arg, 1), Tok(arg, 2), FALSE, faults).files)
        BY <3>3 DEF LfsCopy, TwoIfFailed
      <4> QED BY <3>1, <4>1
    <3> QED BY <1>5, <3>2, <3>3
  <2> QED BY <1>1, <1>2, <2>1, RenameReadable, CopyReadable
<1>6. CASE PkeyCommand
  <2>1. \/ \E res : File(res, files)
        \/ \E res, a, made, faults : File(res, SshCreatePkey(files, a, made, faults).files)
        \/ \E res, a, faults : File(res, SshDeletePkey(files, a, faults).files)
    BY <1>6 DEF PkeyCommand
  <2> QED BY <1>1, <1>2, <2>1, KeysReadable
<1> QED BY <1>3, <1>4, <1>5, <1>6

LEMMA SavedStep == ConsoleInv /\ SavedInv /\ [Next]_vars => SavedInv'
<1> SUFFICES ASSUME ConsoleInv, SavedInv, [Next]_vars PROVE SavedInv'
  OBVIOUS
<1>1. Storable(conf) /\ Readable(files)
  BY DEF SavedInv
<1>2. ASSUME NEW new, NEW fs, conf' = new, files' = fs, Storable(new), Readable(fs)
      PROVE  SavedInv'
  BY <1>2 DEF SavedInv, Storable, Readable, IsList
<1>3. CASE \/ EnterLine \/ StartCommand \/ Tick \/ UNCHANGED vars
  BY <1>1, <1>2, <1>3 DEF EnterLine, StartCommand, Tick, vars
<1>4. CASE \/ Setting \/ Question \/ VsensorName \/ VsensorSources \/ VsensorRead \/ VsensorSet
           \/ Pubkey \/ Time \/ Exit \/ WifiRejoin \/ MemTest
  BY <1>4, ConfiguredStorable
<1>5. CASE \/ SaveConfig \/ DeleteConfig \/ LfsInfo \/ LfsDel \/ LfsFormat \/ LfsRen \/ LfsCopy
           \/ PkeyCommand
  BY <1>5, FiledReadable
<1>6. CASE StartUpload
  <2>1. conf' = conf /\ files' = files
    BY <1>6 DEF StartUpload, Configure, Begin
  <2> QED BY <1>1, <1>2, <2>1
<1>7. CASE PasteLine \/ UploadTimesOut
  <2>1. files' = files /\ (conf' = conf \/ \E lines : conf' = Uploaded(lines))
    BY <1>7 DEF PasteLine, UploadTimesOut, Finish
  <2> QED BY <1>1, <1>2, <2>1, UploadedStorable
<1>8. "key.pem" \in Names /\ "cert.pem" \in Names
  BY ConsoleAssumption
<1>9. \A func : PemName(func) \in Names
  BY <1>8 DEF PemName
<1>10. CASE StartPem
  <2>1. /\ conf' = conf
        /\ \/ files' = files
           \/ \E name, faults : files' = FlashDeleteFile(files, name, faults).files
    BY <1>10 DEF StartPem, File, Begin
  <2> QED BY <1>1, <1>2, <2>1, DeleteReadable
<1>11. ASSUME NEW res, PemRead(res) PROVE SavedInv'
  <2>1. /\ conf' = conf
        /\ \/ files' = files
           \/ \E faults : files' = FlashWriteFile(files, PemName(call.func), Raw("pem"), 1,
                                                  faults).files
    BY <1>11 DEF PemRead, Finish
  <2>2. \A faults : Readable(FlashWriteFile(files, PemName(call.func), Raw("pem"), 1, faults).files)
    BY <1>1, <1>9, RawIsText, WriteReadable
  <2> QED BY <1>1, <1>2, <2>1, <2>2
<1>12. CASE PastePemLine
  <2>1. (conf' = conf /\ files' = files) \/ \E res : PemRead(res)
    BY <1>12 DEF PastePemLine
  <2> QED BY <1>1, <1>2, <1>11, <2>1
<1>13. CASE PemTimesOut
  BY <1>11, <1>13 DEF PemTimesOut
<1>14. CASE Reset \/ UsbBoot \/ PowerCut
  <2>1. /\ files' = files
        /\ conf' = conf \/ \E safemode : conf' = Boot(files, safemode, PowerOnLevels)
    BY <1>14 DEF Reset, Restart, UsbBoot, PowerCut, Configure
  <2> QED BY <1>1, <1>2, <2>1, BootStorable
<1> QED BY <1>3, <1>4, <1>5, <1>6, <1>7, <1>10, <1>12, <1>13, <1>14 DEF Next

LEMMA SavedInvariant == Spec => [](ConsoleInv /\ SavedInv)
<1>1. Init => ConsoleInv /\ SavedInv
  BY ConsoleStart, SavedStart
<1>2. (ConsoleInv /\ SavedInv) /\ [Next]_vars => (ConsoleInv /\ SavedInv)'
  BY ConsoleStep, SavedStep
<1> QED BY <1>1, <1>2, PTL DEF Spec

-----------------------------------------------------------------------------
(* What is written and read back into a cleared configuration.             *)
LEMMA FieldKinds ==
  /\ Fields \cap {"raw", "vtemp", "ntp_server"} = {}
  /\ Levels \cup {"local_echo"} \cup PlainNumbers \cup Texts \cup Flags \cup Ips \subseteq
       Fields \ (IpLists \cup Acls \cup {"ssh_pubkeys", "vsensors", "http_vsensor_mask"})
  /\ IpLists \cap (Acls \cup Texts \cup {"ssh_pubkeys", "vsensors", "http_vsensor_mask"}) = {}
  /\ Acls \cap (Texts \cup {"ssh_pubkeys", "vsensors", "http_vsensor_mask"}) = {}
  /\ Texts \cap {"ssh_pubkeys", "vsensors", "http_vsensor_mask"} = {}
  /\ (Unset \cup Ips \cup Flags) \cap Texts = {}
  /\ (Unset \cup Ips) \cap Flags = {}
  /\ Unset \subseteq PlainNumbers
BY DEF Fields, Levels, PlainNumbers, Texts, Flags, Ips, IpLists, Acls, Unset

LEMMA NothingPicked ==
  ASSUME NEW n \in Nat, NEW list, IsList(list, n), NEW I, \A k \in 1 .. n : k \notin I
  PROVE  Picked(list, I) = << >>
<1>1. Listed(list) /\ Len(list) = n
  BY ListIsListed
<1>2. 0 \in 0 .. Len(list) /\ \A k \in 1 .. Len(list) : k \in I <=> k <= 0
  BY <1>1
<1>3. Picked(list, I) = [k \in 1 .. 0 |-> list[k]]
  <2> HIDE DEF Picked
  <2> QED BY <1>1, <1>2, PickedPrefix
<1> QED BY <1>3

LEMMA SensorComesBack ==
  ASSUME NEW v
  PROVE  Sensor2Json(Json2Sensor(Sensor2Json(v), ClearedSensor)) = Sensor2Json(v)
<1> DEFINE kept == {"name", "mode"} \cup ModeFields(v.mode)
           json == Sensor2Json(v)
           back == Json2Sensor(json, ClearedSensor)
<1>1. DOMAIN json = kept /\ \A f \in kept : json[f] = v[f]
  BY DEF Sensor2Json
<1>2. kept \subseteq DOMAIN ClearedSensor
  BY DEF ModeFields, ClearedSensor
<1>3. json["mode"] = v.mode /\ json.mode = v.mode
  BY <1>1
<1>4. \A f \in kept : back[f] = v[f]
  <2> HIDE DEF json
  <2> QED BY <1>1, <1>2, <1>3 DEF Json2Sensor
<1>5. back["mode"] = v.mode
  BY <1>4
<1> HIDE DEF back
<1>6. Sensor2Json(back) = [f \in kept |-> back[f]]
  BY <1>5 DEF Sensor2Json
<1>7. Sensor2Json(v) = [f \in kept |-> v[f]]
  BY DEF Sensor2Json
<1> HIDE DEF kept
<1> QED BY <1>4, <1>6, <1>7 DEF back

LEMMA WrittenComesBack ==
  ASSUME Storable(conf), NEW back,
         back = JsonToConfig(ConfigToJson(conf), ClearConfig(PowerOnLevels)),
         NEW f \in Fields
  PROVE  Comes(f, back)
<1> DEFINE json == ConfigToJson(conf)
           clear == ClearConfig(PowerOnLevels)
<1>1. /\ DOMAIN clear = Fields \cup {"vtemp"}
      /\ \A g \in DOMAIN Cleared : clear[g] = Cleared[g]
  BY ClearedConfig
<1>2. DOMAIN json = Written(conf) /\ DOMAIN json \subseteq Fields
  BY DEF ConfigToJson, Written, Filled, Fields, Unset, PlainNumbers
<1>3. DOMAIN Cleared = (Fields \ Levels) \cup {"vtemp"}
  BY ClearedFields
<1>4. f # "vtemp" /\ "ntp_server" \notin DOMAIN json
  BY <1>2, FieldKinds
<1>5. Storable(clear)
  BY ClearedStorable
<1> HIDE DEF json, clear
<1>6. ASSUME f \notin IpLists \cup Acls \cup {"ssh_pubkeys", "vsensors"}
      PROVE  back[f] = IF f \in DOMAIN json THEN conf[f] ELSE clear[f]
  <2>1. f \in DOMAIN json => json[f] = conf[f]
    BY <1>2, <1>6 DEF ConfigToJson, json
  <2>2. back[f] = IF f \in DOMAIN json THEN json[f] ELSE clear[f]
    BY <1>1, <1>4, <1>6 DEF JsonToConfig, json, clear
  <2> QED BY <2>1, <2>2
<1>7. CASE f = "vsensors"
  <2>1. /\ "vsensors" \in DOMAIN json /\ "vsensors" \in DOMAIN clear
        /\ "vsensors" \notin IpLists \cup Acls
    BY <1>1, <1>2, <1>7, FieldKinds DEF Written, Filled
  <2>2. json.vsensors = [i \in Sensors |-> Sensor2Json(conf["vsensors"][i])]
    BY <1>2, <2>1 DEF ConfigToJson, json
  <2>3. clear.vsensors = [i \in Sensors |-> ClearedSensor]
    BY <1>1, <1>3, <1>7, ClearedFields DEF Levels
  <2>4. \A i \in Sensors : back["vsensors"][i] = Json2Sensor(json.vsensors[i], clear.vsensors[i])
    BY <2>1, <2>2 DEF JsonToConfig, json, clear
  <2>5. \A i \in Sensors : Sensor2Json(back["vsensors"][i]) = Sensor2Json(conf["vsensors"][i])
    BY <2>2, <2>3, <2>4, SensorComesBack
  <2>6. Comes(f, back) <=> \A i \in Sensors : Sensor2Json(back[f][i]) = Sensor2Json(conf[f][i])
    BY <1>7, FieldKinds DEF Comes
  <2> QED BY <1>7, <2>5, <2>6
<1>8. CASE f = "ssh_pubkeys"
  <2> DEFINE keys == conf["ssh_pubkeys"]
  <2>1. f \in DOMAIN clear /\ f \notin IpLists \cup Acls
    BY <1>1, <1>8, FieldKinds
  <2>2. IsList(keys, SSH_MAX_PUB_KEYS) /\ \A i \in 1 .. SSH_MAX_PUB_KEYS : GoodKey(keys[i])
    BY DEF Storable
  <2>3. Comes(f, back) <=> SshPubkeys2Json(back[f]) = SshPubkeys2Json(keys)
    BY <1>8, FieldKinds DEF Comes
  <2>4. CASE f \in DOMAIN json
    <3>1. back[f] = Json2SshPubkeys(json[f])
      BY <1>4, <1>8, <2>1, <2>4 DEF JsonToConfig, json, clear
    <3>2. json[f] = SshPubkeys2Json(keys)
      BY <1>2, <1>8, <2>1, <2>4 DEF ConfigToJson, json
    <3> HIDE DEF keys
    <3>3. SshPubkeys2Json(back[f]) = SshPubkeys2Json(keys)
      BY <2>2, <3>1, <3>2, PubkeysComeBack
    <3> QED BY <2>3, <3>3
  <2>5. CASE f \notin DOMAIN json
    <3>1. back[f] = clear[f]
      BY <1>4, <1>8, <2>1, <2>5 DEF JsonToConfig, json, clear
    <3>2. SshPubkeys2Json(keys) = << >>
      BY <1>2, <1>8, <2>5 DEF Written, Filled
    <3>3. clear["ssh_pubkeys"] = [i \in 1 .. SSH_MAX_PUB_KEYS |-> NoPubkey]
      BY <1>1, <1>3, <1>8, ClearedFields DEF Levels
    <3> DEFINE list == clear["ssh_pubkeys"]
               I == {i \in DOMAIN list : list[i].key # NoText /\ list[i].username # NoText}
    <3>4. IsList(list, SSH_MAX_PUB_KEYS) /\ \A i \in 1 .. SSH_MAX_PUB_KEYS : i \notin I
      BY <3>3 DEF IsList, NoPubkey
    <3> HIDE DEF list, I
    <3>5. Picked(list, I) = << >>
      BY <3>4, NothingPicked, SettingsAssumption
    <3>6. SshPubkeys2Json(back[f]) = << >>
      BY <1>8, <3>1, <3>5 DEF SshPubkeys2Json, list, I
    <3> QED BY <2>3, <3>2, <3>6
  <2> QED BY <2>4, <2>5
<1>9. CASE f \in IpLists
  <2> DEFINE list == conf[f]
             n == ListLen(f)
  <2>1. /\ f \in DOMAIN clear /\ f \notin Acls \cup {"ssh_pubkeys", "vsensors"}
        /\ clear[f] = [i \in 1 .. n |-> AnyIp]
    <3>1. f \notin Levels
      BY <1>9 DEF IpLists, Levels
    <3> QED BY <1>1, <1>3, <1>9, <3>1, FieldKinds, ClearedFields
  <2>2. IsList(list, n)
    BY <1>9 DEF Storable
  <2>3. n \in Nat /\ n \in Nat \ {0}
    BY SettingsAssumption DEF ListLen
  <2>4. Comes(f, back) <=> IpList2Json(back[f]) = IF list[1] = AnyIp THEN << >>
                                                  ELSE IpList2Json(list)
    BY <1>9, FieldKinds DEF Comes
  <2>5. f \in DOMAIN json <=> list[1] # AnyIp
    <3>1. f \notin Levels \cup Texts \cup Unset \cup Ips \cup Acls \cup Flags
      BY <1>9, FieldKinds, FieldsApart
    <3>2. f \notin {"local_echo", "led_mode", "bl_brightness", "i2c_speed", "adc_vref", "vsensors",
                   "ssh_pubkeys", "http_vsensor_mask"}
      BY <1>9 DEF IpLists
    <3> QED BY <1>2, <1>9, <3>1, <3>2 DEF Written, Filled
  <2>6. IsList(clear[f], n) /\ Len(clear[f]) = n
    BY <1>5, <1>9, <2>3, ListIsListed DEF Storable
  <2>7. CASE f \in DOMAIN json
    <3>1. back[f] = Json2IpList(json[f], n)
      BY <1>4, <1>9, <2>1, <2>6, <2>7 DEF JsonToConfig, json, clear
    <3>2. json[f] = IpList2Json(list)
      BY <1>2, <1>9, <2>7 DEF ConfigToJson, json
    <3> HIDE DEF list, n
    <3>3. IpList2Json(back[f]) = IpList2Json(list)
      BY <2>2, <2>3, <3>1, <3>2, IpListComesBack
    <3> QED BY <2>4, <2>5, <2>7, <3>3
  <2>8. CASE f \notin DOMAIN json
    <3>1. back[f] = clear[f]
      BY <1>4, <1>9, <2>1, <2>8 DEF JsonToConfig, json, clear
    <3> DEFINE none == clear[f]
               I == {i \in DOMAIN none : none[i] # AnyIp}
    <3>2. IsList(none, n) /\ \A i \in 1 .. n : i \notin I
      BY <2>1, <2>6
    <3> HIDE DEF none, I, n, list
    <3>3. Picked(none, I) = << >>
      BY <2>3, <3>2, NothingPicked
    <3>4. IpList2Json(back[f]) = << >>
      BY <3>1, <3>3 DEF IpList2Json, none, I
    <3> QED BY <2>4, <2>5, <2>8, <3>4
  <2> QED BY <2>7, <2>8
<1>10. CASE f \in Acls
  <2> DEFINE list == conf[f]
             n == MAX_ACL_ENTRIES
  <2>1. /\ f \in DOMAIN clear /\ f \notin IpLists \cup {"ssh_pubkeys", "vsensors"}
        /\ clear[f] = [i \in 1 .. n |-> NoAcl]
    <3>1. f \notin Levels
      BY <1>10 DEF Acls, Levels
    <3> QED BY <1>1, <1>3, <1>10, <3>1, FieldKinds, ClearedFields
  <2>2. IsList(list, n) /\ \A i \in 1 .. n : GoodAcl(list[i])
    BY <1>10 DEF Storable
  <2>3. Comes(f, back) <=> AclList2Json(back[f]) = AclList2Json(list)
    BY <1>10, FieldKinds DEF Comes
  <2>4. CASE f \in DOMAIN json
    <3>1. back[f] = Json2AclList(json[f])
      BY <1>4, <1>10, <2>1, <2>4 DEF JsonToConfig, json, clear
    <3>2. json[f] = AclList2Json(list)
      BY <1>2, <1>10, <2>1, <2>4 DEF ConfigToJson, json
    <3> HIDE DEF list
    <3> QED BY <2>2, <2>3, <3>1, <3>2, AclListComesBack
  <2>5. CASE f \notin DOMAIN json
    <3>1. back[f] = clear[f]
      BY <1>4, <1>10, <2>1, <2>5 DEF JsonToConfig, json, clear
    <3>2. AclList2Json(list) = << >>
      BY <1>2, <1>10, <2>5 DEF Written, Filled
    <3> DEFINE none == clear[f]
               I == {i \in DOMAIN none : none[i].prefix > 0}
    <3>3. IsList(none, n) /\ \A i \in 1 .. n : i \notin I
      BY <2>1 DEF IsList, NoAcl
    <3> HIDE DEF none, I
    <3>4. Picked(none, I) = << >>
      BY <3>3, NothingPicked, SettingsAssumption
    <3>5. AclList2Json(back[f]) = << >>
      BY <3>1, <3>4 DEF AclList2Json, none, I
    <3> QED BY <2>3, <3>2, <3>5
  <2> QED BY <2>4, <2>5
<1>11. CASE f = "http_vsensor_mask"
  <2>1. f \notin IpLists \cup Acls \cup {"ssh_pubkeys", "vsensors"}
    BY <1>11, FieldKinds
  <2>2. clear[f] = {}
    BY <1>1, <1>3, <1>11, ClearedFields DEF Levels
  <2>3. conf[f] \notin {AllSensors, {}} => f \in DOMAIN json
    BY <1>2, <1>11 DEF Written, Filled
  <2>4. Comes(f, back) <=> (conf[f] = AllSensors \/ back[f] = conf[f])
    BY <1>11, FieldKinds DEF Comes
  <2> QED BY <1>6, <2>1, <2>2, <2>3, <2>4
<1>12. CASE f \in Texts
  <2>1. f \notin IpLists \cup Acls \cup {"ssh_pubkeys", "vsensors", "http_vsensor_mask"}
    BY <1>12, FieldKinds
  <2>2. conf[f] # NoText => f \in DOMAIN json
    BY <1>2, <1>12 DEF Written, Filled
  <2> QED BY <1>6, <1>12, <2>1, <2>2 DEF Comes
<1>13. CASE f \in Levels \cup {"local_echo"} \cup PlainNumbers \cup Flags \cup Ips
  <2>1. f \notin IpLists \cup Acls \cup Texts \cup {"ssh_pubkeys", "vsensors", "http_vsensor_mask"}
    BY <1>13, FieldKinds DEF Levels, PlainNumbers, Flags, Ips, Texts
  <2>2. Comes(f, back) <=> back[f] = conf[f]
    BY <2>1 DEF Comes
  <2>3. f \in DOMAIN json \/ clear[f] = conf[f]
    <3>1. CASE f \in Levels \cup {"local_echo"} \cup (PlainNumbers \ Unset)
      <4>1. f \in Filled(conf)
        BY <3>1 DEF Filled, PlainNumbers, Unset
      <4> QED BY <1>2, <4>1 DEF Written
    <3>2. f \notin Levels => clear[f] = Cleared[f]
      BY <1>1, <1>3
    <3>3. (Unset \cup Flags \cup Ips) \cap Levels = {}
      BY DEF Unset, Flags, Ips, Levels
    <3>4. CASE f \in Unset
      <4>1. conf[f] \in Nat /\ clear[f] = 0
        BY <3>2, <3>3, <3>4, ClearedFields DEF Storable
      <4>2. conf[f] > 0 => f \in DOMAIN json
        BY <1>2, <3>4 DEF Written, Filled
      <4> QED BY <4>1, <4>2
    <3>5. CASE f \in Flags
      <4>1. conf[f] # Cleared[f] => f \in DOMAIN json
        BY <1>2, <3>5 DEF Written
      <4> QED BY <3>2, <3>3, <3>5, <4>1
    <3>6. CASE f \in Ips
      <4>1. conf[f] # AnyIp => f \in DOMAIN json
        BY <1>2, <3>6 DEF Written, Filled
      <4> QED BY <3>2, <3>3, <3>6, <4>1, ClearedFields
    <3> QED BY <1>13, <3>1, <3>4, <3>5, <3>6
  <2> QED BY <1>6, <2>1, <2>2, <2>3
<1> QED BY <1>7, <1>8, <1>9, <1>10, <1>11, <1>12, <1>13 DEF Fields

(* The configuration in use when a save has reached the flash is the one    *)
(* the unit starts with (SavedSurvives), whatever was set, pasted, refused,  *)
(* copied over or lost with the power before, and whatever else fails.      *)
THEOREM SavesSurvive == Spec => SavedSurvives
<1>1. ASSUME ConsoleInv, SavedInv, [Next]_vars
      PROVE  [SaveDone => LET back == Boot(files', FALSE, PowerOnLevels)
                          IN \A f \in Fields : Comes(f, back)]_vars
  <2> SUFFICES ASSUME Next, SaveDone
               PROVE  \A f \in Fields : Comes(f, Boot(files', FALSE, PowerOnLevels))
    BY <1>1
  <2> DEFINE json == ConfigToJson(conf)
             cfg == "lcdpico.cfg"
             over == Overwritten(files[cfg], json, 1)
  <2>1. Storable(conf) /\ Readable(files) /\ entered \in Nat
    BY <1>1 DEF SavedInv, ConsoleInv
  <2>2. SaveConfig
    <3>1. /\ task = "ready" /\ calls # << >> /\ call.func = "save_config"
          /\ entered' = entered /\ files' # files
      BY DEF SaveDone, Commanded
    <3> QED BY <2>1, <3>1 DEF Next, EnterLine, StartCommand, Setting, Question, VsensorName,
       VsensorSources, VsensorRead, VsensorSet, Pubkey, Time, Exit, WifiRejoin, MemTest,
       ActsUnlessAsked, Configure, DeleteConfig, LfsInfo, LfsDel, LfsFormat, LfsRen, LfsCopy,
       PkeyCommand, StartUpload, StartPem, PasteLine, UploadTimesOut, PastePemLine, PemTimesOut,
       Tick, Reset, UsbBoot, PowerCut, Running
  <2>3. files' = [files EXCEPT ![cfg] = over]
    <3>1. \/ files' = files \/ files' = Created(files, cfg)
          \/ files' = [files EXCEPT ![cfg] = over]
      BY <2>2 DEF SaveConfig, File, FlashWriteFile
    <3>2. files' # files /\ "raw" \notin DOMAIN files'[cfg].text
      BY DEF SaveDone
    <3>3. cfg \in DOMAIN files
      BY <2>1, ConsoleAssumption DEF Readable
    <3>4. files' # Created(files, cfg)
      <4>1. "raw" \in DOMAIN Empty.text
        BY DEF Empty, Raw
      <4>2. [files EXCEPT ![cfg] = Empty][cfg] = Empty
        BY <3>3
      <4> QED BY <3>2, <4>1, <4>2 DEF Created
    <3> QED BY <3>1, <3>2, <3>4
  <2>4. files'[cfg].text = json /\ files'[cfg].size \in Nat \ {0}
    <3>1. cfg \in DOMAIN files /\ files[cfg].size \in Int
      BY <2>1, ConsoleAssumption DEF Readable, GoodFile
    <3>2. over.text = json /\ over.size \in Nat \ {0}
      BY <3>1 DEF Overwritten
    <3> HIDE DEF over
    <3> QED BY <2>3, <3>1, <3>2
  <2>5. Parsed(FlashReadFile(files', cfg, {}).text) = json
    <3>1. "raw" \notin DOMAIN json
      BY <2>1, WrittenTyped
    <3> HIDE DEF json
    <3>2. files'[cfg].size >= 0 /\ files'[cfg].size # 0
      BY <2>4
    <3>3. FlashReadFile(files', cfg, {}).text = files'[cfg].text
      BY <3>2 DEF FlashReadFile, Exists
    <3> QED BY <2>4, <3>1, <3>3 DEF Parsed
  <2>6. json # NoJson
    <3>1. "debug" \in DOMAIN json /\ "debug" \notin DOMAIN NoJson
      BY <2>1, WrittenTyped DEF NoJson
    <3> QED BY <3>1
  <2>7. Boot(files', FALSE, PowerOnLevels) = JsonToConfig(json, ClearConfig(PowerOnLevels))
    <3> HIDE DEF json
    <3> QED BY <2>5, <2>6 DEF Boot, ReadConfig
  <2> QED BY <2>1, <2>7, WrittenComesBack
<1> QED BY <1>1, SavedInvariant, PTL DEF Spec, SavedSurvives

=============================================================================
