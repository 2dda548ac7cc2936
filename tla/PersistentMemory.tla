--------------------------- MODULE PersistentMemory ---------------------------
(***************************************************************************)
(* The block of RAM that survives a soft reset (lcd-pico.c): uptime        *)
(* counters and the timezone, sealed with a CRC-32.  Core 0's main program *)
(* initialises it at boot and rewrites it every second; the DHCP client,   *)
(* in an interrupt of the same core, rewrites its timezone; a reset may    *)
(* fall between any two of their stores.                                   *)
(*                                                                         *)
(* The CRC is a copy of the block it was computed from: two blocks never   *)
(* share a CRC here.  saved_time is left out: no property depends on the   *)
(* wall clock.  cmd_reset is an update followed by a reset.                *)
(***************************************************************************)
EXTENDS Naturals

CONSTANTS
  Zone,       (* timezone strings of two characters or more                *)
  NoZone,     (* the empty string                                          *)
  OneChar,    (* a timezone string of one character                        *)
  Garbage,    (* what the RAM may hold after a power cycle                 *)
  NoCrc,      (* a stored CRC that matches no block                        *)
  MaxTicks,   (* bound: seconds that pass in a behaviour                   *)
  MaxResets   (* bound: resets and power cycles in a behaviour             *)

(* A timezone as a string of any length: of the configuration, of a lease,  *)
(* of the block.                                                           *)
AnyZone == Zone \cup {NoZone, OneChar}

Block == [header : BOOLEAN,             \* id and len are the right ones
          uptime : Nat, prev_uptime : Nat, total_uptime : Nat,
          warmstart : Nat, timezone : AnyZone]

ASSUME MemoryAssumption ==
  /\ Garbage \subseteq Block
  /\ NoZone \notin Zone
  /\ OneChar \notin Zone \cup {NoZone}
  /\ NoCrc \notin Block
  /\ MaxTicks \in Nat
  /\ MaxResets \in Nat

VARIABLES
  block, crc,     (* persistent_memory, its crc32 apart                    *)
  pc,             (* where the main program is                             *)
  sum,            (* the CRC it has computed and not stored yet            *)
  hook,           (* where the DHCP interrupt is                           *)
  owner,          (* pmem_mutex                                            *)
  cfg_tz,         (* cfg->timezone                                         *)
  env_tz,         (* TZ of the environment                                 *)
  clock,          (* seconds since this boot                               *)
  (* history *)
  lived,          (* seconds of the earlier boots since the power came on  *)
  torn,           (* a reset fell inside a rewrite of the block, or the    *)
                  (* power was off, since the block was last sealed        *)
  recounted,      (* a boot ended before its first update since power-on   *)
  ticks, resets

ram == << block, crc >>
history == << lived, torn, recounted, resets >>
vars == << block, crc, pc, sum, hook, owner, cfg_tz, env_tz, clock,
           lived, torn, recounted, ticks, resets >>

Booting == {"check", "carry", "count", "warm_crc", "wipe", "cold_crc"}
MainPc == Booting \cup {"setup", "tz_crc", "started", "loop", "sum", "store"}
Networked == {"started", "loop", "sum", "store"}  \* after multicore launch

(* The main program runs only while no interrupt does. *)
At(l) == pc = l /\ hook = "idle"

Sealed == crc = block

-----------------------------------------------------------------------------
(* Slips: the code with one mistake in it.                                 *)
HeaderOnly == block.header
AlwaysFree == TRUE
ForgetCrc ==
  /\ torn' = FALSE
  /\ UNCHANGED << crc, lived, recounted, resets >>
EnvFromLease(z) == z

-----------------------------------------------------------------------------
Blank == [header |-> TRUE, uptime |-> 0, prev_uptime |-> 0,
          total_uptime |-> 0, warmstart |-> 0, timezone |-> NoZone]

Init ==
  /\ block \in Garbage
  /\ crc = NoCrc
  /\ pc = "check"
  /\ sum = NoCrc
  /\ hook = "idle"
  /\ owner = "free"
  /\ cfg_tz \in AnyZone
  /\ env_tz = NoZone
  /\ clock = 0
  /\ lived = 0
  /\ torn = TRUE
  /\ recounted = FALSE
  /\ ticks = 0
  /\ resets = 0

-----------------------------------------------------------------------------
(* init_persistent_memory                                                  *)
Intact == block.header /\ Sealed

(* The timezone of an intact block, of one character or more, is restored   *)
(* before anything is written.                                             *)
FindIntact ==
  /\ At("check")
  /\ Intact
  /\ env_tz' = block.timezone
  /\ pc' = IF block.uptime > 0 THEN "carry" ELSE "count"
  /\ UNCHANGED << ram, sum, hook, owner, cfg_tz, clock, history, ticks >>

FindCorrupt ==
  /\ At("check")
  /\ ~ Intact
  /\ pc' = "wipe"
  /\ UNCHANGED << ram, sum, hook, owner, cfg_tz, env_tz, clock, history, ticks >>

(* uptime itself is not cleared: the first update overwrites it. *)
Carried == [block EXCEPT !.prev_uptime = block.uptime,
                         !.total_uptime = @ + block.uptime]

CarryUptime ==
  /\ At("carry")
  /\ block' = Carried
  /\ pc' = "count"
  /\ UNCHANGED << crc, sum, hook, owner, cfg_tz, env_tz, clock, history, ticks >>

CountWarmstart ==
  /\ At("count")
  /\ block' = [block EXCEPT !.warmstart = @ + 1]
  /\ pc' = "warm_crc"
  /\ UNCHANGED << crc, sum, hook, owner, cfg_tz, env_tz, clock, history, ticks >>

Wipe ==
  /\ At("wipe")
  /\ block' = Blank
  /\ pc' = "cold_crc"
  /\ UNCHANGED << crc, sum, hook, owner, cfg_tz, env_tz, clock, history, ticks >>

(* update_persistent_memory_crc where no interrupt can come between. *)
Seal ==
  /\ crc' = block
  /\ torn' = FALSE
  /\ UNCHANGED << lived, recounted, resets >>

SealBoot ==
  /\ At("warm_crc") \/ At("cold_crc")
  /\ Seal
  /\ pc' = "setup"
  /\ UNCHANGED << block, sum, hook, owner, cfg_tz, env_tz, clock, ticks >>

-----------------------------------------------------------------------------
(* setup: a configured timezone of two characters or more is stored.       *)
Storable(z) == z \in Zone

ConfiguredZone ==
  /\ At("setup")
  /\ Storable(cfg_tz)
  /\ block' = [block EXCEPT !.timezone = cfg_tz]
  /\ owner' = "main"
  /\ pc' = "tz_crc"
  /\ UNCHANGED << crc, sum, hook, cfg_tz, env_tz, clock, history, ticks >>

SealConfiguredZone ==
  /\ At("tz_crc")
  /\ Seal
  /\ env_tz' = cfg_tz
  /\ owner' = "free"
  /\ pc' = "started"
  /\ UNCHANGED << block, sum, hook, cfg_tz, clock, ticks >>

NoConfiguredZone ==
  /\ At("setup")
  /\ ~ Storable(cfg_tz)
  /\ pc' = "started"
  /\ UNCHANGED << ram, sum, hook, owner, cfg_tz, env_tz, clock, history, ticks >>

-----------------------------------------------------------------------------
(* mutex_enter_timeout_us: an interrupt that finds the mutex taken by the  *)
(* program it interrupted can only time out.                               *)
MutexFree == owner = "free"

(* update_persistent_memory.  "started" is a main loop (or a setup2) that  *)
(* has not made its first update yet, "loop" one that has.                 *)
WriteUptime ==
  /\ At("started") \/ At("loop")
  /\ MutexFree
  /\ owner' = "main"
  /\ block' = [block EXCEPT !.uptime = clock]
  /\ pc' = "sum"
  /\ UNCHANGED << crc, sum, hook, cfg_tz, env_tz, clock, history, ticks >>

ComputeCrc ==
  /\ At("sum")
  /\ sum' = block
  /\ pc' = "store"
  /\ UNCHANGED << ram, hook, owner, cfg_tz, env_tz, clock, history, ticks >>

StoreCrc ==
  /\ At("store")
  /\ crc' = sum
  /\ owner' = "free"
  /\ torn' = FALSE
  /\ pc' = "loop"
  /\ UNCHANGED << block, sum, hook, cfg_tz, env_tz, clock,
                  lived, recounted, resets, ticks >>

(* cmd_timezone: the configuration only. *)
SetTimezone ==
  /\ At("loop")
  /\ \E z \in AnyZone : cfg_tz' = z
  /\ UNCHANGED << ram, pc, sum, hook, owner, env_tz, clock, history, ticks >>

-----------------------------------------------------------------------------
(* parse_dhcp_options with an ACK that carries timezone z, of any length.   *)
(* When the mutex cannot be had the block keeps its zone, and so does the  *)
(* environment.                                                            *)
EnvZone(z) == block.timezone

Lease(z) ==
  /\ hook = "idle"
  /\ pc \in Networked
  /\ cfg_tz = NoZone
  /\ z # block.timezone

LeaseStored(z) ==
  /\ Lease(z)
  /\ MutexFree
  /\ owner' = "hook"
  /\ block' = [block EXCEPT !.timezone = z]
  /\ hook' = "crc"
  /\ UNCHANGED << crc, pc, sum, cfg_tz, env_tz, clock, history, ticks >>

LeaseSkipped(z) ==
  /\ Lease(z)
  /\ ~ MutexFree
  /\ env_tz' = EnvZone(z)
  /\ UNCHANGED << ram, pc, sum, hook, owner, cfg_tz, clock, history, ticks >>

SealLease ==
  /\ hook = "crc"
  /\ Seal
  /\ env_tz' = block.timezone
  /\ owner' = "free"
  /\ hook' = "idle"
  /\ UNCHANGED << block, pc, sum, cfg_tz, clock, ticks >>

-----------------------------------------------------------------------------
Tick ==
  /\ ticks < MaxTicks
  /\ ticks' = ticks + 1
  /\ clock' = clock + 1
  /\ UNCHANGED << ram, pc, sum, hook, owner, cfg_tz, env_tz, history >>

(* The block is being rewritten: its stores have begun, its CRC is due. *)
Rewriting ==
  \/ owner # "free"
  \/ pc \in {"count", "warm_crc", "wipe", "cold_crc"}

Restart ==
  /\ resets < MaxResets
  /\ resets' = resets + 1
  /\ pc' = "check"
  /\ sum' = NoCrc
  /\ hook' = "idle"
  /\ owner' = "free"
  /\ cfg_tz' \in AnyZone   \* saved or not before it
  /\ env_tz' = NoZone
  /\ clock' = 0
  /\ UNCHANGED ticks

(* Watchdog, reset button or cmd_reset: the RAM keeps its contents. *)
SoftReset ==
  /\ Restart
  /\ lived' = lived + clock
  /\ torn' = (torn \/ Rewriting)
  /\ recounted' = (recounted \/ pc \notin {"sum", "store", "loop"})
  /\ UNCHANGED ram

PowerCycle ==
  /\ Restart
  /\ block' \in Garbage
  /\ crc' = NoCrc
  /\ lived' = 0
  /\ torn' = TRUE
  /\ recounted' = FALSE

Main ==
  \/ FindIntact \/ FindCorrupt \/ CarryUptime \/ CountWarmstart \/ Wipe
  \/ SealBoot \/ ConfiguredZone \/ SealConfiguredZone \/ NoConfiguredZone
  \/ WriteUptime \/ ComputeCrc \/ StoreCrc \/ SetTimezone

Hook ==
  \/ \E z \in AnyZone : LeaseStored(z) \/ LeaseSkipped(z)
  \/ SealLease

Next ==
  \/ Main
  \/ Hook
  \/ Tick
  \/ SoftReset
  \/ PowerCycle

Spec == Init /\ [][Next]_vars

-----------------------------------------------------------------------------
(* Every variable keeps to its range.  A zone of one character is never     *)
(* stored from the configuration, but a lease may bring one.               *)
TypeOK ==
  /\ block \in Block
  /\ crc \in Block \cup {NoCrc}
  /\ sum \in Block \cup {NoCrc}
  /\ pc \in MainPc
  /\ hook \in {"idle", "crc"}
  /\ owner \in {"free", "main", "hook"}
  /\ cfg_tz \in AnyZone
  /\ env_tz \in AnyZone
  /\ clock \in Nat
  /\ lived \in Nat
  /\ torn \in BOOLEAN
  /\ recounted \in BOOLEAN
  /\ ticks \in 0 .. MaxTicks
  /\ resets \in 0 .. MaxResets

Booted == pc \in {"setup", "started", "loop"}

(* Once booted, the block carries the CRC of its contents whenever nobody  *)
(* holds pmem_mutex: the one-second update and the DHCP hook that preempts *)
(* it (update_persistent_memory, update_persistent_memory_tz) cannot seal  *)
(* each other's half of a change with a stale CRC.                         *)
BlockSealed == Booted /\ MutexFree => Sealed

(* The zone the C library uses is the one the next boot will restore, even *)
(* after a lease whose zone could not be stored (parse_dhcp_options sets   *)
(* TZ from the block, not from the lease).                                 *)
ZoneAgrees ==
  (hook = "idle" /\ pc \in Networked \cup {"setup"}) => env_tz = block.timezone

(* A boot throws the counters away (init_persistent_memory's memset) only  *)
(* if the power was off or the reset fell inside a rewrite of the block.   *)
WipesOnlyTorn == [][(pc = "check" /\ pc' = "wipe") => torn]_vars

(* If every boot since power-on but the present one lived to make its      *)
(* first update, the time carried over is never more than the unit was on: *)
(* neither garbage nor a boot's own time is counted (init_persistent_      *)
(* memory, update_persistent_memory).                                      *)
CarriedTimeWasLived == (Booted /\ ~ recounted) => block.total_uptime <= lived

(* commands.md on SYStem:UPTIme?: "total time unit has been on since last  *)
(* cold reset".  The command prints the time of this boot plus             *)
(* total_uptime, so total_uptime may never exceed the time of the earlier  *)
(* boots.                                                                  *)
TotalIsTimeOn == Booted => block.total_uptime <= lived

-----------------------------------------------------------------------------
(* Why they hold.  Who may hold the mutex, where:                          *)
OwnerInv ==
  /\ owner = "main" <=> pc \in {"tz_crc", "sum", "store"}
  /\ owner = "hook" <=> hook = "crc"
  /\ hook = "crc" => pc \in {"started", "loop"}

(* a computed CRC is still that of the block when it is stored;            *)
SumInv == pc = "store" => sum = block

(* the zone was restored before the block was touched;                     *)
ZoneInv ==
  /\ pc \in {"check", "wipe", "cold_crc"} => env_tz = NoZone
  /\ pc = "cold_crc" => block.timezone = NoZone
  /\ pc \in {"carry", "count", "warm_crc"} => env_tz = block.timezone
  /\ pc = "tz_crc" => block.timezone = cfg_tz

(* the header is good from the moment the block was found intact or was    *)
(* wiped, and a block nothing has torn is intact.                          *)
HeaderInv ==
  /\ pc \notin {"check", "wipe"} => block.header
  /\ ~ torn /\ ~ Rewriting => Intact

MemoryInv ==
  /\ TypeOK
  /\ OwnerInv
  /\ SumInv
  /\ BlockSealed
  /\ ZoneInv
  /\ ZoneAgrees
  /\ HeaderInv

=============================================================================
