------------------------------- MODULE Console -------------------------------
(***************************************************************************)
(* The user at the command line (the input loop of main, process_command    *)
(* and the handlers of command.c): lines of commands that set, query, save  *)
(* and upload the configuration, paste keys and certificates, handle files  *)
(* and restart the unit, with the flash failing and the power cut.          *)
(*                                                                         *)
(* The text of a file or of what is pasted is a JSON object as ConfigStore   *)
(* has it, or Raw.  A tick is a second.                                    *)
(***************************************************************************)
EXTENDS ConfigStore

CONSTANTS
  Lines,            (* lines of commands the user may enter, each a sequence *)
  Documents,        (* what the texts he may paste are, by their lines      *)
  IdOk(_),          (* the "id" of a JSON object is that of a configuration *)
  Names,            (* names of files                                      *)
  Default,          (* the built-in configuration, as JSON                 *)
  FlashFaults,      (* sets of calls of the file system that may fail      *)
  MaxLines,         (* bound: lines entered                                *)
  MaxPasted,        (* bound: lines pasted in one go                       *)
  UploadTime, PemTime (* CONFIG_READ_TIMEOUT and the timeout of a PEM text  *)

ASSUME ConsoleAssumption ==
  /\ MaxLines \in Nat /\ MaxPasted \in Nat
  /\ UploadTime \in Nat \ {0} /\ PemTime \in Nat \ {0}
  /\ {"lcdpico.cfg", "key.pem", "cert.pem"} \subseteq Names
  /\ {PkeyAlgorithms[i].filename : i \in DOMAIN PkeyAlgorithms} \subseteq Names

(* What the user types is split into lines of commands and these into       *)
(* segments, each with one number at its end or none.                      *)
Commands == UNION {ToSet(l) : l \in Lines}
IsCommand(cmd) ==
  /\ cmd.segs \in Seq(ToSet(cmd.segs)) /\ cmd.arg.toks \in Seq(ToSet(cmd.arg.toks))
  /\ \A s \in ToSet(cmd.segs) : s.n \in Seq(Int) /\ Len(s.n) \in {0, 1}
ASSUME LinesAssumption == Lines \subseteq Seq(Commands) /\ \A cmd \in Commands : IsCommand(cmd)

(* The built-in configuration, and what may be pasted unless it is no JSON  *)
ASSUME JsonAssumption ==
  Typed(Default) /\ \A d \in DOMAIN Documents : "raw" \in DOMAIN Documents[d] \/ Typed(Documents[d])

LOCAL Pem == INSTANCE NetworkRules

VARIABLES
  conf,             (* the configuration in use, log levels included       *)
  files,            (* the flash                                           *)
  todo,             (* commands of the line; the head is being executed    *)
  calls,            (* handlers it has yet to run                          *)
  level,            (* cmd_level                                           *)
  result,           (* res of run_cmd: what the last handler returned      *)
  err,              (* last_error_num                                      *)
  task,             (* what core 0 does: "ready", "upload", "pem", "off"   *)
  paste,            (* what has been pasted so far                         *)
  waited,           (* ticks since the paste began                         *)
  watchdog,         (* the watchdog is enabled                             *)
  entered           (* lines entered                                       *)

line == << todo, calls, level >>
pasting == << paste, waited >>
vars == << conf, files, todo, calls, level, result, err, task, paste, waited, watchdog, entered >>

Boot(fs, safemode, old) ==
  ReadConfig(Parsed(FlashReadFile(fs, "lcdpico.cfg", {}).text), Default, safemode, old)
PowerOnLevels == [f \in {"debug"} |-> 0] ++ [f \in {"log_level", "syslog_level"} |-> 3]

Init ==
  /\ files = [n \in Names |-> NoFile]
  /\ conf = Boot(files, FALSE, PowerOnLevels)
  /\ todo = << >> /\ calls = << >> /\ level = "commands" /\ result = 0 /\ err = 0
  /\ task = "ready" /\ paste = Reading /\ waited = 0
  /\ watchdog = TRUE /\ entered = 0

-----------------------------------------------------------------------------
(* process_command: the commands of a line begin at the root; each begins   *)
(* with an empty stack.                                                    *)
EnterLine ==
  /\ task = "ready" /\ todo = << >> /\ entered < MaxLines
  /\ \E l \in Lines : todo' = l
  /\ level' = "commands" /\ entered' = entered + 1
  /\ UNCHANGED << conf, files, calls, result, err, task, pasting, watchdog >>

FreshStack(cmd) == RunCmd(cmd, level, << >>)

StartCommand ==
  /\ task = "ready" /\ todo # << >> /\ calls = << >>
  /\ LET walk == FreshStack(Head(todo))
     IN /\ level' = walk.level
        /\ calls' = walk.calls
        /\ result' = -1
        /\ IF walk.calls = << >> THEN err' = ErrorNum(-1) /\ todo' = Tail(todo)
                                 ELSE UNCHANGED << err, todo >>
  /\ UNCHANGED << conf, files, task, pasting, watchdog, entered >>

(* The handler that runs, its argument, and its return.  The next one of    *)
(* the command runs whatever this one returned; the result of the last one *)
(* becomes the error of the command.                                       *)
call == Head(calls)
arg == Head(todo).arg
query == call.s.q
Running(funcs) == task = "ready" /\ calls # << >> /\ call.func \in funcs
Return(res) ==
  /\ calls' = Tail(calls)
  /\ result' = res
  /\ IF Len(calls) = 1 THEN err' = ErrorNum(res) /\ todo' = Tail(todo)
                       ELSE UNCHANGED << err, todo >>
  /\ UNCHANGED << level, entered >>

(* A handler that changes the configuration and nothing else *)
Configure(res, new) ==
  /\ conf' = new
  /\ Return(res)
  /\ UNCHANGED << files, task, pasting, watchdog >>

-----------------------------------------------------------------------------
(* The handlers of SettingRows *)
Setting ==
  /\ Running(DOMAIN SettingRows)
  /\ LET row == SettingRows[call.func]
         set == Set(row, conf[row.field], arg)
     IN IF query THEN Configure(0, conf)
        ELSE Configure(set.res, [conf EXCEPT ![row.field] = set.val])

(* Handlers that only print *)
Question ==
  /\ Running(QueryOnly \cup EitherForm)
  /\ Configure(IF query \/ call.func \in EitherForm THEN 0 ELSE 1, conf)

(* cmd_vsensor_name; cmd_vsensor_source; both need the number *)
VsensorName ==
  /\ Running({"vsensor_name"})
  /\ LET idx == PrevIndex(call.stack)
     IN IF ~IsSensor(idx) THEN Configure(1, conf)
        ELSE Configure(0, IF query THEN conf
                          ELSE [conf EXCEPT !.vsensors[idx].name = arg.text])
VsensorSources ==
  /\ Running({"vsensor_source"})
  /\ LET idx == PrevIndex(call.stack)
     IN IF ~IsSensor(idx) THEN Configure(1, conf)
        ELSE IF query THEN Configure(0, conf)
        ELSE LET set == VsensorSource(conf.vsensors[idx], arg)
             IN Configure(set.res, [conf EXCEPT !.vsensors[idx] = set.val])

(* cmd_vsensor_temp, cmd_vsensor_humidity, cmd_vsensor_pressure *)
VsensorRead ==
  /\ Running({"vsensor_temp", "vsensor_humidity", "vsensor_pressure"})
  /\ LET idx == IF call.func = "vsensor_temp" THEN SensorOf(call.s, call.stack)
                ELSE PrevIndex(call.stack)
     IN Configure(IF query /\ IsSensor(idx) THEN 0 ELSE 1, conf)

(* cmd_vsensor_write *)
VsensorSet ==
  /\ Running({"vsensor_write"})
  /\ LET idx == SensorOf(call.s, call.stack)
     IN IF query \/ ~IsSensor(idx) THEN Configure(1, conf)
        ELSE LET set == VsensorWrite(conf.vsensors[idx].mode, conf.vtemp[idx], arg)
             IN Configure(set.res, [conf EXCEPT !.vtemp[idx] = set.val])

(* cmd_ssh_pubkey_add, cmd_ssh_pubkey_del *)
Pubkey ==
  /\ Running({"ssh_pubkey_add", "ssh_pubkey_del"})
  /\ LET set == IF call.func = "ssh_pubkey_add" THEN PubkeyAdd(conf.ssh_pubkeys, arg)
                ELSE PubkeyDel(conf.ssh_pubkeys, arg)
     IN IF query THEN Configure(1, conf)
        ELSE Configure(set.res, [conf EXCEPT !.ssh_pubkeys = set.val])

(* Handlers that change what other modules have: the clock, the session,   *)
(* the link, and the memory, whose test runs with the watchdog disabled.   *)
Time ==
  /\ Running({"time"})
  /\ Configure(IF query \/ arg.text \in DOMAIN TimeOf THEN 0 ELSE 2, conf)
ActsUnlessAsked == Configure(IF query THEN 1 ELSE 0, conf)
Exit == Running({"exit"}) /\ ActsUnlessAsked
WifiRejoin == Running({"wifi_rejoin"}) /\ ActsUnlessAsked
MemTest == Running({"memtest"}) /\ ActsUnlessAsked

-----------------------------------------------------------------------------
(* A handler that changes the files and nothing else *)
File(res, new) ==
  /\ files' = new
  /\ Return(res)
  /\ UNCHANGED << conf, task, pasting, watchdog >>

(* cmd_save_config and save_config: done, whatever became of the file *)
SaveConfig ==
  /\ Running({"save_config"})
  /\ \E faults \in FlashFaults :
       IF query THEN File(1, files)
       ELSE File(0, FlashWriteFile(files, "lcdpico.cfg", ConfigToJson(conf), 1, faults).files)

(* cmd_delete_config and delete_config *)
DeleteConfig ==
  /\ Running({"delete_config"})
  /\ \E faults \in FlashFaults :
       IF query THEN File(1, files)
       ELSE File(0, FlashDeleteFile(files, "lcdpico.cfg", faults).files)

(* cmd_lfs, cmd_lfs_del, cmd_lfs_format, cmd_lfs_ren, cmd_lfs_copy *)
LfsInfo ==
  /\ Running({"lfs"})
  /\ \E faults \in FlashFaults :
       File(IF ~query THEN 1 ELSE IF "mount" \in faults THEN 2 ELSE 0, files)
TwoIfFailed(r) == File(IF r.ret = 0 THEN 0 ELSE 2, r.files)
TwoNames == {Tok(arg, 1), Tok(arg, 2)} \subseteq Names
LfsDel ==
  /\ Running({"lfs_del"})
  /\ \E faults \in FlashFaults :
       IF query THEN File(1, files)
       ELSE IF arg.text \notin Names THEN File(2, files)
       ELSE TwoIfFailed(FlashDeleteFile(files, arg.text, faults))
LfsFormat ==
  /\ Running({"lfs_format"})
  /\ \E faults \in FlashFaults :
       IF query THEN File(1, files) ELSE TwoIfFailed(FlashFormat(files, faults))
LfsRen ==
  /\ Running({"lfs_ren"})
  /\ \E faults \in FlashFaults :
       IF query THEN File(1, files)
       ELSE IF ~TwoNames THEN File(2, files)
       ELSE TwoIfFailed(FlashRenameFile(files, Tok(arg, 1), Tok(arg, 2), faults))
LfsCopy ==
  /\ Running({"lfs_copy"})
  /\ \E faults \in FlashFaults :
       IF query THEN File(1, files)
       ELSE IF ~TwoNames \/ Tok(arg, 1) = Tok(arg, 2) THEN File(2, files)
       ELSE TwoIfFailed(FlashCopyFile(files, Tok(arg, 1), Tok(arg, 2), FALSE, faults))

(* cmd_ssh_pkey_create (every generation may fail), cmd_ssh_pkey_del *)
PkeyCommand ==
  /\ Running({"ssh_pkey_create", "ssh_pkey_del"})
  /\ \E faults \in FlashFaults, made \in {{}, {"ECDSA", "ED25519", "RSA"}} :
       LET r == IF call.func = "ssh_pkey_create" THEN SshCreatePkey(files, arg.text, made, faults)
                ELSE SshDeletePkey(files, arg.text, faults)
       IN IF query THEN File(1, files) ELSE File(r.ret, r.files)

-----------------------------------------------------------------------------
(* cmd_upload_config: the watchdog is disabled while the text is awaited. *)
Begin(what, reader) ==
  /\ task' = what /\ paste' = reader /\ waited' = 0 /\ watchdog' = FALSE
  /\ UNCHANGED << conf, files, line, result, err, entered >>
LeavesDisabled(res, new_conf, new_files) ==       \* a slip: no watchdog_enable
  /\ task' = "ready" /\ paste' = Reading /\ waited' = 0
  /\ conf' = new_conf /\ files' = new_files
  /\ Return(res)
  /\ UNCHANGED watchdog
Finish(res, new_conf, new_files) ==
  /\ task' = "ready" /\ paste' = Reading /\ waited' = 0 /\ watchdog' = TRUE
  /\ conf' = new_conf /\ files' = new_files
  /\ Return(res)

StartUpload ==
  /\ Running({"upload_config"})
  /\ IF query THEN Configure(1, conf) ELSE Begin("upload", Reading)

ParsedLines(lines) == IF lines \in DOMAIN Documents THEN Parsed(Documents[lines]) ELSE NoJson
Uploaded(lines) == LET json == ParsedLines(lines) IN UploadConfig(conf, json, IdOk(json))

PasteLine ==
  /\ task = "upload" /\ Len(paste.lines) < MaxPasted
  /\ \E l \in {NoText} \cup UNION {ToSet(d) : d \in DOMAIN Documents} :
       LET r == UploadLine(paste, l)
       IN IF r.ended THEN Finish(0, Uploaded(r.lines), files)
          ELSE /\ paste' = r
               /\ UNCHANGED << conf, files, line, result, err, task, waited, watchdog, entered >>

UploadTimesOut ==
  /\ task = "upload" /\ waited = UploadTime
  /\ Finish(0, Uploaded(paste.lines), files)

(* cmd_tls_pkey and cmd_tls_cert: of a key up to three PEM texts, joined *)
PemName(func) == IF func = "tls_pkey" THEN "key.pem" ELSE "cert.pem"
PemCount(func) ==
  IF func = "tls_pkey" /\ arg.text \in DOMAIN strtol /\ strtol[arg.text] \in 1 .. 3
  THEN strtol[arg.text] ELSE 1

StartPem ==
  /\ Running({"tls_pkey", "tls_cert"})
  /\ \E faults \in FlashFaults :
       LET name == PemName(call.func)
           read == FlashReadFile(files, name, faults)
           deleted == FlashDeleteFile(files, name, faults)
       IN IF query THEN File(IF read.ret = 0 /\ files[name].size > 0 THEN 0 ELSE 2, files)
          ELSE IF "memory" \in faults THEN File(2, files)
          ELSE IF arg.text = "DELETE"
          THEN File(IF deleted.ret \in {-2, 0} THEN 0 ELSE 2, deleted.files)
          ELSE Begin("pem", [pem |-> Pem!NewPem, left |-> PemCount(call.func)])

PemRead(res) ==
  \E faults \in FlashFaults :
    LET w == FlashWriteFile(files, PemName(call.func), Raw("pem"), 1, faults)
    IN IF res = 0 THEN Finish(2, conf, files)
       ELSE Finish(IF w.ret = 0 THEN 0 ELSE 2, conf, w.files)

PastePemLine ==
  /\ task = "pem" /\ Len(paste.pem.kept) < MaxPasted
  /\ \E l \in {"BEGIN", "text", "END", NoText} :
       LET pem == Pem!PemLine(paste.pem, l)
       IN IF ~pem.done
          THEN /\ paste' = [paste EXCEPT !.pem = pem]
               /\ UNCHANGED << conf, files, line, result, err, task, waited, watchdog, entered >>
          ELSE IF pem.state = 2 /\ paste.left > 1
          THEN /\ paste' = [pem |-> Pem!NewPem, left |-> paste.left - 1]
               /\ waited' = 0
               /\ UNCHANGED << conf, files, line, result, err, task, watchdog, entered >>
          ELSE PemRead(IF pem.state = 2 THEN 1 ELSE 0)

PemTimesOut == task = "pem" /\ waited = PemTime /\ PemRead(0)

(* Time, of which only what a paste waits for matters *)
Tick ==
  /\ task \in {"upload", "pem"}
  /\ waited < IF task = "upload" THEN UploadTime ELSE PemTime
  /\ waited' = waited + 1
  /\ UNCHANGED << conf, files, line, result, err, task, paste, watchdog, entered >>

-----------------------------------------------------------------------------
(* The unit starts: what is in RAM is gone, what the flash has is read. *)
Restart ==
  /\ \E safemode \in BOOLEAN : conf' = Boot(files, safemode, PowerOnLevels)
  /\ todo' = << >> /\ calls' = << >> /\ level' = "commands" /\ result' = 0 /\ err' = 0
  /\ task' = "ready" /\ paste' = Reading /\ waited' = 0 /\ watchdog' = TRUE
  /\ UNCHANGED << files, entered >>

(* cmd_reset: with the watchdog disabled until it makes the unit restart *)
Reset ==
  /\ Running({"reset"})
  /\ IF query THEN Configure(1, conf) ELSE Restart

(* cmd_usb_boot: into the boot loader, until the power is cut *)
UsbBoot ==
  /\ Running({"usb_boot"})
  /\ IF query THEN Configure(1, conf)
     ELSE /\ task' = "off" /\ watchdog' = FALSE
          /\ UNCHANGED << conf, files, line, result, err, pasting, entered >>

(* The power is cut, at any time; one more line is used up by it. *)
PowerCut ==
  /\ entered < MaxLines
  /\ \E safemode \in BOOLEAN : conf' = Boot(files, safemode, PowerOnLevels)
  /\ todo' = << >> /\ calls' = << >> /\ level' = "commands" /\ result' = 0 /\ err' = 0
  /\ task' = "ready" /\ paste' = Reading /\ waited' = 0 /\ watchdog' = TRUE
  /\ entered' = entered + 1
  /\ UNCHANGED files

Next ==
  \/ EnterLine \/ StartCommand
  \/ Setting \/ Question \/ VsensorName \/ VsensorSources \/ VsensorRead \/ VsensorSet
  \/ Pubkey \/ Time \/ Exit \/ WifiRejoin \/ MemTest
  \/ SaveConfig \/ DeleteConfig \/ LfsInfo \/ LfsDel \/ LfsFormat \/ LfsRen \/ LfsCopy
  \/ PkeyCommand
  \/ StartUpload \/ PasteLine \/ UploadTimesOut
  \/ StartPem \/ PastePemLine \/ PemTimesOut \/ Tick
  \/ Reset \/ UsbBoot \/ PowerCut

Spec == Init /\ [][Next]_vars

(* Core 0 goes on with what it does, and time passes; the user need not go  *)
(* on typing.                                                              *)
FairSpec ==
  /\ Spec
  /\ WF_vars(Tick) /\ WF_vars(UploadTimesOut) /\ WF_vars(PemTimesOut)

-----------------------------------------------------------------------------
(* A handler runs that does not restart the unit *)
Commanded ==
  task = "ready" /\ calls # << >> /\ call.func # "reset" /\ entered' = entered

(* A handler that returns an error has changed nothing of the               *)
(* configuration, whichever setter refused, wherever in the list or the     *)
(* text it did and wherever in a chain of leaves it stands.  A command is   *)
(* refused as its last leaf is: what the leaves before it have set stays,  *)
(* as in SYS:LED:ECHO 2.  VSENSOR:SOURCE INTERNAL is the exception the      *)
(* code makes: it reports a syntax error for what it has set.              *)
RefusedChangesNothing ==
  [][(Commanded /\ result' # 0 /\ conf' # conf)
       => /\ call.func = "vsensor_source"
          /\ \E i \in Sensors :
               /\ conf'.vsensors[i].mode = "internal"
               /\ conf' = [conf EXCEPT !.vsensors[i] = conf'.vsensors[i]]]_vars

(* A command changes a virtual sensor only if it spells that sensor's      *)
(* number out itself: not the number of a command before it on the line,   *)
(* whose level it goes on at, and not one by default.                      *)
Spells(cmd, i) == \E k \in DOMAIN cmd.segs : cmd.segs[k].n = << i + 1 >>
OwnSensorOnly ==
  [][Commanded => \A i \in Sensors :
       (conf'.vsensors[i] # conf.vsensors[i] \/ conf'.vtemp[i] # conf.vtemp[i])
         => Spells(Head(todo), i)]_vars

(* What is saved is what the unit starts with: the configuration in use    *)
(* when a save has reached the flash comes back at the next start, but for  *)
(* what a sensor's mode does not use, the full mask, empty names, the gaps  *)
(* in lists, and the whole of an address list that begins with a gap, as   *)
(* only a pasted configuration can make one.                               *)
Comes(f, back) ==
  CASE f = "vsensors" -> \A i \in Sensors : Sensor2Json(back[f][i]) = Sensor2Json(conf[f][i])
    [] f = "ssh_pubkeys" -> SshPubkeys2Json(back[f]) = SshPubkeys2Json(conf[f])
    [] f = "http_vsensor_mask" -> conf[f] = AllSensors \/ back[f] = conf[f]
    [] f \in IpLists -> IpList2Json(back[f]) = IF conf[f][1] = AnyIp THEN << >>
                                               ELSE IpList2Json(conf[f])
    [] f \in Acls -> AclList2Json(back[f]) = AclList2Json(conf[f])
    [] f \in Texts -> conf[f] = NoText \/ back[f] = conf[f]
    [] OTHER -> back[f] = conf[f]
SaveDone ==
  /\ Commanded /\ call.func = "save_config" /\ files' # files
  /\ "raw" \notin DOMAIN files'["lcdpico.cfg"].text
SavedSurvives ==
  [][SaveDone => LET back == Boot(files', FALSE, PowerOnLevels)
                 IN \A f \in Fields : Comes(f, back)]_vars

(* Pasting a configuration is all or nothing: whatever part of a text was   *)
(* pasted, in whatever order, when the time was up or a blank line ended   *)
(* it, the configuration is the one before or the whole of a document.      *)
UploadAllOrNothing ==
  [][(task = "upload" /\ task' = "ready" /\ entered' = entered /\ conf' # conf)
       => \E d \in DOMAIN Documents :
            /\ d = paste.lines /\ IdOk(Parsed(Documents[d]))
            /\ conf' = ReadConfig(Documents[d], Default, FALSE, conf)]_vars

(* However the user stops pasting, the unit takes commands again and its   *)
(* watchdog runs.                                                          *)
PasteEnds == task \in {"upload", "pem"} ~> (task = "ready" /\ watchdog)

=============================================================================
