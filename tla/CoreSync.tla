------------------------------- MODULE CoreSync -------------------------------
(***************************************************************************)
(* How the two cores exchange their state (lcd-pico.c).  Core 0 owns the   *)
(* configuration and core 1 the state of the instrument; each works on a   *)
(* copy of the other's, brought up to date every second or so by memcpy    *)
(* under a mutex it may fail to get in time.  A command or a sensor poll   *)
(* of core 0 changes the configuration under config_mutex.                 *)
(*                                                                         *)
(* The structures have two halves, stored one at a time; a half holds the  *)
(* number of the change it was last written by.  Some fields are written   *)
(* outside the mutexes: interrupts of core 1 count in both halves of its   *)
(* state, and setup2 puts the contexts of the I2C sensors into the         *)
(* configuration when core 1 is already running.  A flash write of a       *)
(* command stops core 1 wherever it is (multicore lockout).                *)
(***************************************************************************)
EXTENDS Naturals

CONSTANTS
  MaxChanges,   (* bound: changes of the configuration                     *)
  MaxStates,    (* bound: changes of the instrument's state                *)
  MaxInterrupts,  (* bound: interrupts of core 1                           *)
  MaxSlow       (* bound: waits for a mutex that time out                  *)

ASSUME SyncAssumption ==
  /\ MaxChanges \in Nat /\ MaxStates \in Nat
  /\ MaxInterrupts \in Nat /\ MaxSlow \in Nat

(* irq_lo, irq_hi: what core1_gpio_callback counts and notes, in the       *)
(* decoder's part (dbg_sck_count, dbg_reset_count, ...) and after it       *)
(* (lcm_int_count, ctp_int_count).                                         *)
Config == [lo : 0 .. MaxChanges, hi : 0 .. MaxChanges,
           i2c_context : BOOLEAN]
State == [lo : 0 .. MaxStates, hi : 0 .. MaxStates,
          irq_lo : 0 .. MaxInterrupts, irq_hi : 0 .. MaxInterrupts]
Whole(s) == s.lo = s.hi
FirstConfig == [lo |-> 0, hi |-> 0, i2c_context |-> FALSE]

StateOf(lo, hi, irq_lo, irq_hi) ==
  [lo |-> lo, hi |-> hi, irq_lo |-> irq_lo, irq_hi |-> irq_hi]

FirstState == StateOf(0, 0, 0, 0)
Owner == {"free", "core0", "core1"}

VARIABLES
  cfg, core1_config,                          (* system_config             *)
  core1_state, transfer_state, core0_state,   (* system_state              *)
  config_mutex, state_mutex,                  (* who holds them            *)
  pc0, pc1,                                   (* where the cores are       *)
  work,                                       (* what core 0 wants         *)
                                              (* config_mutex for          *)
  paused,                                     (* core 1 is locked out      *)
  slow

configs == << cfg, core1_config >>
states == << core1_state, transfer_state, core0_state >>
vars == << cfg, core1_config, core1_state, transfer_state, core0_state,
           config_mutex, state_mutex, pc0, pc1, work, paused, slow >>

Pc0 == {"setup", "loop", "want", "write_lo", "write_hi", "held",
        "flash", "release", "try", "wait", "copy_lo", "copy_hi", "unlock"}
Pc1 == {"config", "try_config", "wait_config", "config_lo", "config_hi",
        "config_unlock", "state", "try_state", "wait_state", "state_lo",
        "state_hi", "state_unlock", "work"}

-----------------------------------------------------------------------------
(* Slips: the exchange with one mistake in it.                             *)
TryIgnored(mutex) == TRUE          \* mutex_enter_timeout_us's result unused
ForgetExit == IF pc1 = "config_unlock" THEN config_mutex ELSE "free"
ToItself == core0_state            \* memcpy from the wrong structure
Unrefreshed == core1_config

-----------------------------------------------------------------------------
(* main: everything is copied before core 1 is launched, and setup2 comes  *)
(* after that.                                                             *)
Init ==
  /\ cfg = FirstConfig /\ core1_config = FirstConfig
  /\ core1_state = FirstState /\ transfer_state = FirstState
  /\ core0_state = FirstState
  /\ config_mutex = "free" /\ state_mutex = "free"
  /\ pc0 = "setup" /\ pc1 = "config"
  /\ work = "none"
  /\ paused = FALSE
  /\ slow = 0

Free(mutex) == mutex = "free"

(* mutex_enter_timeout_us found the mutex taken; the time is up before it  *)
(* finds it free.                                                          *)
TimesOut ==
  /\ slow < MaxSlow
  /\ slow' = slow + 1

Exited == "free"

-----------------------------------------------------------------------------
Goto0(from, to) == pc0 = from /\ pc0' = to

(* Core 0: setup2's setup_i2c_bus, without config_mutex. *)
SetUpBus ==
  /\ Goto0("setup", "loop")
  /\ cfg' = [cfg EXCEPT !.i2c_context = TRUE]
  /\ UNCHANGED << core1_config, states, config_mutex, state_mutex, pc1, work, paused, slow >>

(* Core 0: run_cmd with a command, read_temps, i2c_read_temps and          *)
(* check_for_temp_changes.                                                 *)

WantConfig ==
  /\ Goto0("loop", "want")
  /\ work' \in {"command", "poll"}
  /\ UNCHANGED << configs, states, config_mutex, state_mutex, pc1,
                  paused, slow >>

EnterConfig ==
  /\ Goto0("want", "write_lo")
  /\ Free(config_mutex)
  /\ config_mutex' = "core0"
  /\ UNCHANGED << configs, states, state_mutex, pc1, work, paused, slow >>

ChangeFirst ==
  /\ Goto0("write_lo", "write_hi")
  /\ cfg.lo < MaxChanges
  /\ cfg' = [cfg EXCEPT !.lo = @ + 1]
  /\ UNCHANGED << core1_config, states, config_mutex, state_mutex, pc1, work, paused, slow >>

ChangeRest ==
  /\ Goto0("write_hi", "held")
  /\ cfg' = [cfg EXCEPT !.hi = cfg.lo]
  /\ UNCHANGED << core1_config, states, config_mutex, state_mutex, pc1, work, paused, slow >>

(* A command that changes nothing, or nothing more, or saves. *)
Unchanged ==
  /\ pc0 \in {"write_lo", "held"} /\ pc0' = "release"
  /\ UNCHANGED << configs, states, config_mutex, state_mutex, pc1, work, paused, slow >>

WriteFlash ==
  /\ Goto0("held", "flash")
  /\ work = "command"
  /\ paused' = TRUE
  /\ UNCHANGED << configs, states, config_mutex, state_mutex, pc1, work, slow >>

FlashWritten ==
  /\ Goto0("flash", "release")
  /\ paused' = FALSE
  /\ UNCHANGED << configs, states, config_mutex, state_mutex, pc1, work, slow >>

ExitConfig ==
  /\ Goto0("release", "loop")
  /\ config_mutex' = Exited
  /\ work' = "none"
  /\ UNCHANGED << configs, states, state_mutex, pc1, paused, slow >>

-----------------------------------------------------------------------------
(* Core 0: update_system_state, every second and before a command.         *)
UpdateSystemState ==
  /\ Goto0("loop", "try")
  /\ UNCHANGED << configs, states, config_mutex, state_mutex, pc1, work, paused, slow >>

Try(mutex) == Free(mutex)

EnterState0 ==
  /\ pc0 \in {"try", "wait"} /\ pc0' = "copy_lo"
  /\ Try(state_mutex)
  /\ state_mutex' = "core0"
  /\ UNCHANGED << configs, states, config_mutex, pc1, work, paused, slow >>

StateTaken0 ==
  /\ Goto0("try", "wait")
  /\ ~ Free(state_mutex)
  /\ UNCHANGED << configs, states, config_mutex, state_mutex, pc1, work, paused, slow >>

StateTimeout0 ==
  /\ Goto0("wait", "loop")
  /\ TimesOut
  /\ UNCHANGED << configs, states, config_mutex, state_mutex, pc1, work, paused >>

(* memcpy of a system_state, half by half *)
CopyLow(to, from) == StateOf(from.lo, to.hi, from.irq_lo, to.irq_hi)
CopyHigh(to, from) == StateOf(to.lo, from.hi, to.irq_lo, from.irq_hi)

Source0 == transfer_state

CopyState0 ==
  /\ \/ /\ Goto0("copy_lo", "copy_hi")
        /\ core0_state' = CopyLow(core0_state, Source0)
     \/ /\ Goto0("copy_hi", "unlock")
        /\ core0_state' = CopyHigh(core0_state, Source0)
  /\ UNCHANGED << configs, core1_state, transfer_state, config_mutex,
                  state_mutex, pc1, work, paused, slow >>

ExitState0 ==
  /\ Goto0("unlock", "loop")
  /\ state_mutex' = Exited
  /\ UNCHANGED << configs, states, config_mutex, pc1, work, paused, slow >>

-----------------------------------------------------------------------------
(* Core 1: the configuration, every second.                                *)
Goto1(from, to) == ~ paused /\ pc1 = from /\ pc1' = to

(* time_passed: a second is over or not. *)
ConfigDue ==
  /\ Goto1("config", "try_config")
  /\ UNCHANGED << configs, states, config_mutex, state_mutex, pc0, work, paused, slow >>

ConfigNotDue ==
  /\ Goto1("config", "state")
  /\ UNCHANGED << configs, states, config_mutex, state_mutex, pc0, work, paused, slow >>

EnterConfig1 ==
  /\ Goto1("try_config", "config_lo") \/ Goto1("wait_config", "config_lo")
  /\ Try(config_mutex)
  /\ config_mutex' = "core1"
  /\ UNCHANGED << configs, states, state_mutex, pc0, work, paused, slow >>

ConfigTaken1 ==
  /\ Goto1("try_config", "wait_config")
  /\ ~ Free(config_mutex)
  /\ UNCHANGED << configs, states, config_mutex, state_mutex, pc0, work, paused, slow >>

ConfigTimeout1 ==
  /\ Goto1("wait_config", "state")
  /\ TimesOut
  /\ UNCHANGED << configs, states, config_mutex, state_mutex, pc0, work, paused >>

Source1 == cfg

CopyConfig1 ==
  /\ \/ /\ Goto1("config_lo", "config_hi")
        /\ core1_config' = [core1_config EXCEPT !.lo = Source1.lo]
     \/ /\ Goto1("config_hi", "config_unlock")
        /\ core1_config' = [lo |-> core1_config.lo, hi |-> Source1.hi,
                             i2c_context |-> Source1.i2c_context]
  /\ UNCHANGED << cfg, states, config_mutex, state_mutex, pc0, work,
                  paused, slow >>

ExitConfig1 ==
  /\ Goto1("config_unlock", "state")
  /\ config_mutex' = Exited
  /\ UNCHANGED << configs, states, state_mutex, pc0, work, paused, slow >>

-----------------------------------------------------------------------------
(* Core 1: its state, every 500 ms.                                        *)
StateDue ==
  /\ Goto1("state", "try_state")
  /\ UNCHANGED << configs, states, config_mutex, state_mutex, pc0, work, paused, slow >>

StateNotDue ==
  /\ Goto1("state", "work")
  /\ UNCHANGED << configs, states, config_mutex, state_mutex, pc0, work, paused, slow >>

EnterState1 ==
  /\ Goto1("try_state", "state_lo") \/ Goto1("wait_state", "state_lo")
  /\ Try(state_mutex)
  /\ state_mutex' = "core1"
  /\ UNCHANGED << configs, states, config_mutex, pc0, work, paused, slow >>

StateTaken1 ==
  /\ Goto1("try_state", "wait_state")
  /\ ~ Free(state_mutex)
  /\ UNCHANGED << configs, states, config_mutex, state_mutex, pc0, work, paused, slow >>

StateTimeout1 ==
  /\ Goto1("wait_state", "work")
  /\ TimesOut
  /\ UNCHANGED << configs, states, config_mutex, state_mutex, pc0, work, paused >>

CopyState1 ==
  /\ \/ /\ Goto1("state_lo", "state_hi")
        /\ transfer_state' = CopyLow(transfer_state, core1_state)
     \/ /\ Goto1("state_hi", "state_unlock")
        /\ transfer_state' = CopyHigh(transfer_state, core1_state)
  /\ UNCHANGED << configs, core1_state, core0_state, config_mutex,
                  state_mutex, pc0, work, paused, slow >>

ExitState1 ==
  /\ Goto1("state_unlock", "work")
  /\ state_mutex' = Exited
  /\ UNCHANGED << configs, states, config_mutex, pc0, work, paused, slow >>

(* decoder34401_process and display_status, which run between two copies   *)
(* in the thread that makes them.                                          *)
Work ==
  /\ Goto1("work", "config")
  /\ \/ /\ core1_state.lo < MaxStates
        /\ core1_state' = StateOf(core1_state.lo + 1, core1_state.lo + 1,
                                   core1_state.irq_lo, core1_state.irq_hi)
     \/ UNCHANGED core1_state
  /\ UNCHANGED << configs, transfer_state, core0_state, config_mutex,
                  state_mutex, pc0, work, paused, slow >>

(* core1_gpio_callback, wherever the thread of core 1 is: in the middle of *)
(* a copy, too.  No interrupt is taken while core 1 is locked out.         *)
Interrupt ==
  /\ ~ paused
  /\ core1_state.irq_lo < MaxInterrupts
  /\ core1_state' = StateOf(core1_state.lo, core1_state.hi,
                             core1_state.irq_lo + 1, core1_state.irq_hi + 1)
  /\ UNCHANGED << configs, transfer_state, core0_state, config_mutex,
                  state_mutex, pc0, pc1, work, paused, slow >>

-----------------------------------------------------------------------------
Core0Step ==
  \/ SetUpBus
  \/ ChangeFirst \/ ChangeRest \/ Unchanged \/ WriteFlash \/ FlashWritten
  \/ ExitConfig \/ StateTaken0 \/ CopyState0 \/ ExitState0

Core1Step ==
  \/ ConfigDue \/ ConfigNotDue \/ ConfigTaken1 \/ CopyConfig1 \/ ExitConfig1
  \/ StateDue \/ StateNotDue \/ StateTaken1 \/ CopyState1 \/ ExitState1
  \/ Work

Timeout == StateTimeout0 \/ ConfigTimeout1 \/ StateTimeout1

Next ==
  \/ WantConfig \/ EnterConfig
  \/ UpdateSystemState \/ EnterState0
  \/ Core0Step
  \/ EnterConfig1 \/ EnterState1
  \/ Core1Step
  \/ Interrupt
  \/ Timeout

Spec == Init /\ [][Next]_vars

(* Neither core stops; a core that looks at a mutex all the while gets it, *)
(* since the other holds it for a moment only; core 0's loop comes round   *)
(* to update_system_state whatever else it does, and core 1 finds again    *)
(* and again that a second, or half of one, is over.  When the time-outs   *)
(* come is left open.                                                      *)
FairSpec ==
  /\ Spec
  /\ WF_vars(Core0Step)
  /\ WF_vars(Core1Step)
  /\ SF_vars(ConfigDue) /\ SF_vars(StateDue)
  /\ SF_vars(UpdateSystemState)
  /\ SF_vars(EnterConfig) /\ SF_vars(EnterState0)
  /\ SF_vars(EnterConfig1) /\ SF_vars(EnterState1)

-----------------------------------------------------------------------------
(* Variables keep to their ranges. *)
TypeOK ==
  /\ cfg \in Config /\ core1_config \in Config
  /\ core1_state \in State /\ transfer_state \in State
  /\ core0_state \in State
  /\ config_mutex \in Owner /\ state_mutex \in Owner
  /\ pc0 \in Pc0 /\ pc1 \in Pc1
  /\ work \in {"none", "command", "poll"}
  /\ paused \in BOOLEAN
  /\ slow \in 0 .. MaxSlow

(* Whatever times out, and wherever core 1 is stopped by a flash write or  *)
(* interrupted, a core never works on a copy that is half of one version   *)
(* and half of another, as far as its owner's thread wrote it: core 1      *)
(* draws with whole settings, core 0 answers commands from whole messages  *)
(* (core1_main, update_system_state).  Nothing of the kind holds of what   *)
(* is written outside the mutexes: SYS:DEBUG may report the counters of    *)
(* core1_gpio_callback from before and after an interrupt, and i2c_context *)
(* (which core 1 has no use for) may come in the middle of a copy.         *)
CopiesWhole ==
  /\ pc1 # "config_hi" => Whole(core1_config)
  /\ pc0 # "copy_hi" => Whole(core0_state)

(* A change of the configuration reaches the display loop, and what the    *)
(* decoder publishes reaches the commands, unless waits time out for ever. *)
ConfigArrives ==
  \A v \in 1 .. MaxChanges : (cfg.lo = v /\ cfg.hi = v) ~> core1_config.lo >= v

StateArrives ==
  \A v \in 1 .. MaxStates : core1_state.lo = v ~> core0_state.lo >= v

(* A command or a sensor poll never waits for ever in                      *)
(* mutex_enter_blocking: core 0 also feeds the watchdog (run_cmd,          *)
(* read_temps, i2c_read_temps, check_for_temp_changes).                    *)
CommandRuns == pc0 = "want" ~> pc0 = "write_lo"

-----------------------------------------------------------------------------
(* Why CopiesWhole holds.  Where a core holds which mutex:                 *)
MutexInv ==
  /\ config_mutex = "core0" <=>
       pc0 \in {"write_lo", "write_hi", "held", "flash", "release"}
  /\ config_mutex = "core1" <=>
       pc1 \in {"config_lo", "config_hi", "config_unlock"}
  /\ state_mutex = "core0" <=> pc0 \in {"copy_lo", "copy_hi", "unlock"}
  /\ state_mutex = "core1" <=> pc1 \in {"state_lo", "state_hi", "state_unlock"}

(* what is copied from is whole outside its writer's section;              *)
SourcesWhole ==
  /\ pc0 # "write_hi" => Whole(cfg)
  /\ pc1 # "state_hi" => Whole(transfer_state)
  /\ Whole(core1_state) /\ core1_state.irq_lo = core1_state.irq_hi

(* and half a copy is of the version its source still has.                 *)
HalvesMatch ==
  /\ pc1 = "config_hi" => core1_config.lo = cfg.lo
  /\ pc0 = "copy_hi" => core0_state.lo = transfer_state.lo
  /\ pc1 = "state_hi" => transfer_state.lo = core1_state.lo

SyncInv == TypeOK /\ MutexInv /\ SourcesWhole /\ HalvesMatch /\ CopiesWhole

=============================================================================
