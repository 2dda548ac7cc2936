-------------------------------- MODULE Sensors --------------------------------
(***************************************************************************)
(* The readings of the virtual sensors (sensors.c, i2c.c and their polling  *)
(* by the loop of main): internal and manual sensors at every tick, the     *)
(* devices on the I2C bus in rounds, one device a poll, while commands      *)
(* change the sources, a configuration is uploaded and the unit restarts.   *)
(*                                                                         *)
(* A temperature is a number that tells where it came from; a device's      *)
(* context is the device, NoDevice for NULL.                               *)
(***************************************************************************)
EXTENDS Integers, FiniteSets

CONSTANTS
  VSENSOR_COUNT,
  Devices,          (* addresses on the bus                                *)
  Sources,          (* configurations of one sensor: [mode, type, addr,    *)
                    (* default_temp, timeout]                              *)
  Boots,            (* configurations the unit may start with              *)
  Written,          (* temperatures the user writes                        *)
  InternalTemp, DeviceTemp(_),   (* what is measured                       *)
  MaxCommands       (* bound: commands, uploads and restarts               *)

Sensors == 0 .. VSENSOR_COUNT - 1
NoDevice == "none"
Unknown == -1                   \* no humidity; nothing written

ASSUME SensorsAssumption ==
  /\ VSENSOR_COUNT \in Nat \ {0} /\ MaxCommands \in Nat
  /\ NoDevice \notin Devices
  /\ Boots \subseteq [Sensors -> Sources]
  /\ \A s \in Sources : s.timeout \in Nat /\ s.addr \in Devices
  /\ Unknown \notin Written

VARIABLES
  vsensors,         (* the sources                                         *)
  reading,          (* vtemp, vhumidity and the age of vtemp_updated       *)
  i2c_context,
  i2c_temp_sensors,
  step, sensor,     (* of i2c_read_temps                                   *)
  polling,          (* i2c_temp_delay > 0                                  *)
  elapsed,          (* the time of read_temps has come                     *)
  commands,         (* commands so far                                     *)
  (* history, for the properties only *)
  write,            (* [temp, age] of the last write to the source as it   *)
                    (* is, temp = Unknown if there is none                 *)
  last              (* the sensor the last poll of the bus read            *)

i2c == << step, sensor, polling >>
sensor_vars == << vsensors, reading, i2c_context, i2c_temp_sensors, step, sensor,
                  polling, elapsed, commands, write, last >>

(* Ages are counted up to one tick more than any timeout. *)
Oldest == 1 + CHOOSE t \in {s.timeout : s \in Sources} : \A s \in Sources : s.timeout <= t
Older(age) == IF age < Oldest THEN age + 1 ELSE age

NotWritten == [temp |-> Unknown, age |-> 0]
At(temp, humidity) == [temp |-> temp, humidity |-> humidity, age |-> 0]
ClearedReading(v) ==
  [temp |-> IF v.mode = "manual" THEN v.default_temp ELSE 0, humidity |-> Unknown, age |-> Oldest]

-----------------------------------------------------------------------------
(* setup_i2c_bus: the devices that answered are mapped to their sensors. *)
Measures(v) == v.mode = "i2c" /\ v.type > 0
Mapping(conf, answering) ==
  [i \in Sensors |-> IF Measures(conf[i]) /\ conf[i].addr \in answering
                     THEN conf[i].addr ELSE NoDevice]

(* read_config, then setup_i2c_bus *)
Cleared(conf) == [i \in Sensors |-> ClearedReading(conf[i])]
Mapped(context) == Cardinality({i \in Sensors : context[i] # NoDevice})
Nowhere == [i \in Sensors |-> NotWritten]

SInit ==
  /\ commands = 0
  /\ vsensors \in Boots /\ reading = Cleared(vsensors)
  /\ \E answering \in SUBSET Devices : i2c_context = Mapping(vsensors, answering)
  /\ i2c_temp_sensors = Mapped(i2c_context)
  /\ step = 0 /\ sensor = 0 /\ polling = TRUE /\ elapsed = TRUE
  /\ write = Nowhere /\ last = Unknown

SReboot ==
  /\ commands < MaxCommands /\ commands' = commands + 1
  /\ vsensors' \in Boots /\ reading' = Cleared(vsensors')
  /\ \E answering \in SUBSET Devices : i2c_context' = Mapping(vsensors', answering)
  /\ i2c_temp_sensors' = Mapped(i2c_context')
  /\ step' = 0 /\ sensor' = 0 /\ polling' = TRUE /\ elapsed' = TRUE
  /\ write' = Nowhere /\ last' = Unknown

-----------------------------------------------------------------------------
(* read_temps *)
ManualReverts(v, r) == v.timeout > 0 /\ r.temp # v.default_temp /\ r.age > v.timeout
ManualWaits(v, r) == v.timeout > 0 /\ r.temp # v.default_temp /\ r.age <= v.timeout

TouchesWaiting(v, r) ==               \* slips: each poll counts as an update,
  CASE v.mode = "internal" -> At(InternalTemp, Unknown)
    [] v.mode = "manual"   -> At(IF ManualReverts(v, r) THEN v.default_temp ELSE r.temp, Unknown)
    [] OTHER               -> r
RevertsAtOnce(v, r) ==                \* and a timeout of 0 is not "never"
  CASE v.mode = "internal" -> At(InternalTemp, Unknown)
    [] v.mode = "manual" /\ ~ManualWaits(v, r) -> At(v.default_temp, Unknown)
    [] OTHER               -> r
ReadTemp(v, r) ==
  CASE v.mode = "internal" -> At(InternalTemp, Unknown)
    [] v.mode = "manual" /\ ~ManualWaits(v, r) ->
         At(IF ManualReverts(v, r) THEN v.default_temp ELSE r.temp, Unknown)
    [] OTHER               -> r

PollInternal ==
  /\ elapsed /\ elapsed' = FALSE
  /\ reading' = [i \in Sensors |-> ReadTemp(vsensors[i], reading[i])]
  /\ UNCHANGED << vsensors, i2c_context, i2c_temp_sensors, i2c, commands, write, last >>

-----------------------------------------------------------------------------
(* i2c_read_temps: the sensors a round has still to read *)
Polled(i) == Measures(vsensors[i]) /\ i2c_context[i] # NoDevice
Left == {i \in Sensors : i >= sensor /\ Polled(i)}
NextSensor == CHOOSE i \in Left : \A j \in Left : i <= j

FailureEndsRound(i, ok) == IF ok THEN i + 1 ELSE VSENSOR_COUNT    \* a slip
After(i, ok) == i + 1

PollGivesUp ==
  /\ polling /\ i2c_temp_sensors < 1
  /\ polling' = FALSE
  /\ UNCHANGED << vsensors, reading, i2c_context, i2c_temp_sensors, step, sensor, elapsed,
                  commands, write, last >>

StartRound ==
  /\ polling /\ i2c_temp_sensors > 0 /\ step # 1
  /\ step' = 1 /\ sensor' = 0 /\ last' = Unknown
  /\ UNCHANGED << vsensors, reading, i2c_context, i2c_temp_sensors, polling, elapsed,
                  commands, write >>

(* The read of one device, which may fail; the round is over after the last *)
ReadSensor ==
  /\ polling /\ i2c_temp_sensors > 0 /\ step = 1 /\ Left # {}
  /\ \E ok \in BOOLEAN :
       /\ IF ok THEN \E humidity \in {Unknown, 1} :
                       reading' = [reading EXCEPT ![NextSensor] =
                                     At(DeviceTemp(i2c_context[NextSensor]), humidity)]
                ELSE UNCHANGED reading
       /\ sensor' = After(NextSensor, ok)
       /\ step' = IF sensor' >= VSENSOR_COUNT THEN 2 ELSE 1
       /\ last' = NextSensor
  /\ UNCHANGED << vsensors, i2c_context, i2c_temp_sensors, polling, elapsed, commands, write >>

EndRound ==
  /\ polling /\ i2c_temp_sensors > 0 /\ step = 1 /\ Left = {}
  /\ sensor' = VSENSOR_COUNT + 1 /\ step' = 2 /\ last' = Unknown
  /\ UNCHANGED << vsensors, reading, i2c_context, i2c_temp_sensors, polling, elapsed,
                  commands, write >>

-----------------------------------------------------------------------------
(* cmd_vsensor_source, cmd_vsensor_write and upload_config *)
SetSource ==
  /\ commands < MaxCommands /\ commands' = commands + 1
  /\ \E i \in Sensors, s \in Sources :
       /\ vsensors' = [vsensors EXCEPT ![i] = s]
       /\ write' = [write EXCEPT ![i] = NotWritten]
  /\ UNCHANGED << reading, i2c_context, i2c_temp_sensors, i2c, elapsed, last >>

WriteSensor ==
  /\ commands < MaxCommands /\ commands' = commands + 1
  /\ \E i \in Sensors, temp \in Written :
       /\ vsensors[i].mode = "manual"
       /\ reading' = [reading EXCEPT ![i] = 
                     [temp |-> temp, humidity |-> @.humidity, age |-> 0]]
       /\ write' = [write EXCEPT ![i] = [temp |-> temp, age |-> 0]]
  /\ UNCHANGED << vsensors, i2c_context, i2c_temp_sensors, i2c, elapsed, last >>

UploadSources ==
  /\ commands < MaxCommands /\ commands' = commands + 1
  /\ \E conf \in Boots :
       /\ vsensors' = conf
       /\ reading' = Cleared(conf)
  /\ i2c_context' = [i \in Sensors |-> NoDevice]
  /\ write' = Nowhere
  /\ UNCHANGED << i2c_temp_sensors, i2c, elapsed, last >>

(* Five seconds pass, whether or not the loop of main has polled meanwhile. *)
Wait ==
  /\ elapsed' = TRUE
  /\ reading' = [i \in Sensors |-> [reading[i] EXCEPT !.age = Older(@)]]
  /\ write' = [i \in Sensors |-> IF write[i].temp = Unknown THEN NotWritten
                                 ELSE [write[i] EXCEPT !.age = Older(@)]]
  /\ UNCHANGED << vsensors, i2c_context, i2c_temp_sensors, i2c, commands, last >>

PollBus == PollGivesUp \/ StartRound \/ ReadSensor \/ EndRound
SNext ==
  \/ PollInternal \/ PollGivesUp \/ StartRound \/ ReadSensor \/ EndRound
  \/ SetSource \/ WriteSensor \/ UploadSources \/ SReboot \/ Wait

SSpec == SInit /\ [][SNext]_sensor_vars

(* The loop of main comes round, and time passes; nothing is assumed of the *)
(* devices and of the user.                                                *)
SFair == WF_sensor_vars(PollInternal) /\ WF_sensor_vars(PollBus) /\ WF_sensor_vars(Wait)

-----------------------------------------------------------------------------
(* A device that keeps failing does not keep the others from being read:   *)
(* each mapped sensor is read again and again.                             *)
RoundsComplete ==
  \A i \in Sensors : []<>(last = i \/ ~Polled(i) \/ ~polling)

(* What the user writes to a manual sensor is what it reads until it has    *)
(* been there for longer than the timeout, for ever if that is 0; only the *)
(* default can take its place.                                             *)
WriteLives ==
  \A i \in Sensors :
    LET v == vsensors[i]
        w == write[i]
    IN (w.temp # Unknown /\ reading[i].temp # w.temp)
         => /\ v.timeout > 0 /\ w.age > v.timeout
            /\ reading[i].temp = v.default_temp

(* The documentation: "if no update has been received (via WRIte:VSENSORx)  *)
(* within the timeout, the reading reverts to default_temperature_C".      *)
Reverts ==
  \A i \in Sensors :
    (vsensors[i].mode = "manual" /\ vsensors[i].timeout > 0)
      ~> (vsensors[i].mode # "manual" \/ vsensors[i].timeout = 0
          \/ reading[i].temp = vsensors[i].default_temp)

=============================================================================
