------------------------ MODULE PersistentMemoryProofs ------------------------
(***************************************************************************)
(* Proofs about the persistent memory block, for any set of zones, any     *)
(* contents the RAM may come up with, and any number of seconds and        *)
(* resets.  MemoryInv is inductive; the action property WipesOnlyTorn      *)
(* follows from its last part.                                             *)
(***************************************************************************)
EXTENDS PersistentMemory, TLAPS

(* The assumption's parts, by name.                                        *)
LEMMA Constants ==
  /\ Garbage \subseteq Block
  /\ MaxTicks \in Nat
  /\ MaxResets \in Nat
BY MemoryAssumption

(* A field of the block may be replaced by a value of its own type. *)
LEMMA BlockUpdates ==
  ASSUME NEW b \in Block
  PROVE  /\ \A n \in Nat : [b EXCEPT !.uptime = n] \in Block
         /\ \A n \in Nat, m \in Nat :
              [b EXCEPT !.prev_uptime = n, !.total_uptime = m] \in Block
         /\ \A n \in Nat : [b EXCEPT !.warmstart = n] \in Block
         /\ \A z \in AnyZone : [b EXCEPT !.timezone = z] \in Block
BY DEF Block

LEMMA NoZoneIsOne == NoZone \in AnyZone
BY DEF AnyZone

LEMMA BlankInBlock == Blank \in Block
BY NoZoneIsOne DEF Blank, Block

(* No step leaves the variables' ranges. *)
LEMMA TypeStep == TypeOK /\ ZoneInv /\ [Next]_vars => TypeOK'
<1> SUFFICES ASSUME TypeOK, ZoneInv, [Next]_vars PROVE TypeOK'
  OBVIOUS
<1> USE DEF TypeOK, MainPc, Booting, history, ram
<1>1. CASE FindIntact
  BY <1>1 DEF FindIntact, Block
<1>2. CASE FindCorrupt
  BY <1>2 DEF FindCorrupt
<1>3. CASE CarryUptime
  <2>1. /\ block.uptime \in Nat
        /\ block.total_uptime + block.uptime \in Nat
    BY DEF Block
  <2>2. block' \in Block
    BY <1>3, <2>1, BlockUpdates DEF CarryUptime, Carried
  <2> QED BY <1>3, <2>2 DEF CarryUptime
<1>4. CASE CountWarmstart
  <2>1. block.warmstart + 1 \in Nat
    BY DEF Block
  <2>2. block' \in Block
    BY <1>4, <2>1, BlockUpdates DEF CountWarmstart
  <2> QED BY <1>4, <2>2 DEF CountWarmstart
<1>5. CASE Wipe
  BY <1>5, BlankInBlock DEF Wipe
<1>6. CASE SealBoot
  BY <1>6 DEF SealBoot, Seal
<1>7. CASE ConfiguredZone
  <2>1. block' \in Block
    BY <1>7, BlockUpdates DEF ConfiguredZone
  <2> QED BY <1>7, <2>1 DEF ConfiguredZone
<1>8. CASE SealConfiguredZone
  BY <1>8 DEF SealConfiguredZone, Seal
<1>9. CASE NoConfiguredZone
  BY <1>9 DEF NoConfiguredZone
<1>10. CASE WriteUptime
  <2>1. block' \in Block
    BY <1>10, BlockUpdates DEF WriteUptime
  <2> QED BY <1>10, <2>1 DEF WriteUptime
<1>11. CASE ComputeCrc
  BY <1>11 DEF ComputeCrc
<1>12. CASE StoreCrc
  BY <1>12 DEF StoreCrc
<1>13. CASE SetTimezone
  BY <1>13 DEF SetTimezone
<1>14. ASSUME NEW z \in AnyZone, LeaseStored(z) PROVE TypeOK'
  <2>1. block' \in Block
    BY <1>14, BlockUpdates DEF LeaseStored
  <2> QED BY <1>14, <2>1 DEF LeaseStored
<1>15. ASSUME NEW z \in AnyZone, LeaseSkipped(z) PROVE TypeOK'
  BY <1>15 DEF LeaseSkipped, EnvZone, Block
<1>16. CASE SealLease
  BY <1>16 DEF SealLease, Seal, Block
<1>17. CASE Tick
  BY <1>17, Constants DEF Tick
<1>18. CASE SoftReset
  BY <1>18, Constants, NoZoneIsOne DEF SoftReset, Restart, Rewriting
<1>19. CASE PowerCycle
  <2>1. block' \in Block
    BY <1>19, Constants DEF PowerCycle
  <2>2. resets' \in 0 .. MaxResets
    BY <1>19, Constants DEF PowerCycle, Restart
  <2> QED BY <1>19, <2>1, <2>2, NoZoneIsOne DEF PowerCycle, Restart
<1>20. CASE UNCHANGED vars
  BY <1>20 DEF vars
<1>21. CASE Main
  BY <1>21, <1>1, <1>2, <1>3, <1>4, <1>5, <1>6, <1>7, <1>8, <1>9, <1>10,
     <1>11, <1>12, <1>13, Zenon DEF Main
<1>22. CASE Hook
  BY <1>22, <1>14, <1>15, <1>16, Zenon DEF Hook
<1> QED
  BY <1>17, <1>18, <1>19, <1>20, <1>21, <1>22, Zenon DEF Next

-----------------------------------------------------------------------------
(* The mutex is held exactly where the code holds it.                      *)
LEMMA OwnerStep == TypeOK /\ OwnerInv /\ [Next]_vars => OwnerInv'
<1> SUFFICES ASSUME TypeOK, OwnerInv, [Next]_vars PROVE OwnerInv'
  OBVIOUS
<1> USE DEF OwnerInv, At
<1>1. CASE Main \/ Tick
  BY <1>1 DEF Main, FindIntact, FindCorrupt, CarryUptime, CountWarmstart,
     Wipe, SealBoot, ConfiguredZone, SealConfiguredZone, NoConfiguredZone,
     WriteUptime, ComputeCrc, StoreCrc, SetTimezone, Tick
<1>2. ASSUME NEW z \in AnyZone, LeaseStored(z) PROVE OwnerInv'
  BY <1>2 DEF LeaseStored, Lease, Networked, MutexFree
<1>3. ASSUME NEW z \in AnyZone, LeaseSkipped(z) PROVE OwnerInv'
  BY <1>3 DEF LeaseSkipped
<1>4. CASE SealLease
  BY <1>4 DEF SealLease
<1>5. CASE SoftReset \/ PowerCycle
  BY <1>5 DEF SoftReset, PowerCycle, Restart
<1>6. CASE UNCHANGED vars
  BY <1>6 DEF vars
<1> QED BY <1>1, <1>2, <1>3, <1>4, <1>5, <1>6 DEF Next, Hook

(* What was computed is what is there when it is stored: the DHCP hook     *)
(* cannot have the mutex in between.                                       *)
LEMMA SumStep == OwnerInv /\ SumInv /\ [Next]_vars => SumInv'
<1> SUFFICES ASSUME OwnerInv, SumInv, [Next]_vars PROVE SumInv'
  OBVIOUS
<1> USE DEF SumInv, At
<1>1. CASE Main \/ Tick
  BY <1>1 DEF Main, FindIntact, FindCorrupt, CarryUptime, CountWarmstart,
     Wipe, SealBoot, ConfiguredZone, SealConfiguredZone, NoConfiguredZone,
     WriteUptime, ComputeCrc, StoreCrc, SetTimezone, Tick, ram
<1>2. ASSUME NEW z \in AnyZone, LeaseStored(z) PROVE SumInv'
  BY <1>2 DEF LeaseStored, MutexFree, OwnerInv
<1>3. ASSUME NEW z \in AnyZone, LeaseSkipped(z) PROVE SumInv'
  BY <1>3 DEF LeaseSkipped, ram
<1>4. CASE SealLease
  BY <1>4 DEF SealLease
<1>5. CASE SoftReset \/ PowerCycle
  BY <1>5 DEF SoftReset, PowerCycle, Restart
<1>6. CASE UNCHANGED vars
  BY <1>6 DEF vars
<1> QED BY <1>1, <1>2, <1>3, <1>4, <1>5, <1>6 DEF Next, Hook

(* Whoever gives the mutex back leaves a sealed block.                     *)
LEMMA SealStep ==
  OwnerInv /\ SumInv /\ BlockSealed /\ [Next]_vars => BlockSealed'
<1> SUFFICES ASSUME OwnerInv, SumInv, BlockSealed, [Next]_vars,
                    Booted', MutexFree'
             PROVE  Sealed'
  BY DEF BlockSealed
<1> USE DEF BlockSealed, Booted, MutexFree, Sealed, At
<1>1. CASE FindIntact \/ FindCorrupt \/ CarryUptime \/ CountWarmstart \/ Wipe
  BY <1>1 DEF FindIntact, FindCorrupt, CarryUptime, CountWarmstart, Wipe
<1>2. CASE SealBoot \/ SealConfiguredZone \/ SealLease
  BY <1>2 DEF SealBoot, SealConfiguredZone, SealLease, Seal
<1>3. CASE ConfiguredZone \/ WriteUptime \/ ComputeCrc
  BY <1>3 DEF ConfiguredZone, WriteUptime, ComputeCrc
<1>4. CASE NoConfiguredZone \/ SetTimezone \/ Tick
  BY <1>4 DEF NoConfiguredZone, SetTimezone, Tick, ram
<1>5. CASE StoreCrc
  BY <1>5 DEF StoreCrc, SumInv
<1>6. ASSUME NEW z \in AnyZone, LeaseStored(z) PROVE Sealed'
  BY <1>6 DEF LeaseStored
<1>7. ASSUME NEW z \in AnyZone, LeaseSkipped(z) PROVE Sealed'
  BY <1>7 DEF LeaseSkipped, ram
<1>8. CASE SoftReset \/ PowerCycle
  BY <1>8 DEF SoftReset, PowerCycle, Restart
<1>9. CASE UNCHANGED vars
  BY <1>9 DEF vars
<1> QED
  BY <1>1, <1>2, <1>3, <1>4, <1>5, <1>6, <1>7, <1>8, <1>9 DEF Next, Main, Hook

(* The environment's zone is the block's, and stays it.                    *)
LEMMA ZoneStep ==
  /\ TypeOK /\ OwnerInv /\ ZoneInv /\ ZoneAgrees /\ [Next]_vars
  => ZoneInv' /\ ZoneAgrees'
<1> SUFFICES ASSUME TypeOK, OwnerInv, ZoneInv, ZoneAgrees, [Next]_vars
             PROVE  ZoneInv' /\ ZoneAgrees'
  OBVIOUS
<1> USE DEF ZoneInv, ZoneAgrees, Networked, At
<1>1. CASE FindIntact \/ FindCorrupt \/ Wipe
  BY <1>1 DEF FindIntact, FindCorrupt, Wipe, Blank, ram
<1>2. CASE CarryUptime \/ CountWarmstart
  <2>1. block'.timezone = block.timezone
    BY <1>2 DEF CarryUptime, CountWarmstart, Carried, TypeOK, Block
  <2> QED BY <1>2, <2>1 DEF CarryUptime, CountWarmstart
<1>3. CASE ConfiguredZone
  <2>1. block'.timezone = cfg_tz
    BY <1>3 DEF ConfiguredZone, TypeOK, Block
  <2> QED BY <1>3, <2>1 DEF ConfiguredZone
<1>4. CASE SealBoot \/ SealConfiguredZone \/ NoConfiguredZone
  BY <1>4 DEF SealBoot, SealConfiguredZone, NoConfiguredZone, Seal, ram
<1>5. CASE WriteUptime
  <2>1. block'.timezone = block.timezone
    BY <1>5 DEF WriteUptime, TypeOK, Block
  <2> QED BY <1>5, <2>1 DEF WriteUptime
<1>6. CASE ComputeCrc \/ StoreCrc \/ SetTimezone \/ Tick
  BY <1>6 DEF ComputeCrc, StoreCrc, SetTimezone, Tick, ram
<1>7. ASSUME NEW z \in AnyZone, LeaseStored(z) PROVE ZoneInv' /\ ZoneAgrees'
  BY <1>7 DEF LeaseStored, Lease
<1>8. ASSUME NEW z \in AnyZone, LeaseSkipped(z) PROVE ZoneInv' /\ ZoneAgrees'
  BY <1>8 DEF LeaseSkipped, Lease, EnvZone, ram
<1>9. CASE SealLease
  BY <1>9 DEF SealLease, OwnerInv
<1>10. CASE SoftReset \/ PowerCycle
  BY <1>10 DEF SoftReset, PowerCycle, Restart
<1>11. CASE UNCHANGED vars
  BY <1>11 DEF vars
<1> QED
  BY <1>1, <1>2, <1>3, <1>4, <1>5, <1>6, <1>7, <1>8, <1>9, <1>10, <1>11
  DEF Next, Main, Hook

(* A block that is found bad was torn, or never was a block.               *)
LEMMA HeaderStep ==
  /\ TypeOK /\ OwnerInv /\ SumInv /\ BlockSealed /\ HeaderInv /\ [Next]_vars
  => HeaderInv'
<1> SUFFICES ASSUME TypeOK, OwnerInv, SumInv, BlockSealed, HeaderInv,
                    [Next]_vars
             PROVE  HeaderInv'
  OBVIOUS
<1> USE DEF HeaderInv, Intact, Sealed, Rewriting, At
<1>1. CASE FindIntact \/ FindCorrupt \/ Wipe
  BY <1>1 DEF FindIntact, FindCorrupt, Wipe, Blank, history, ram, OwnerInv
<1>2. CASE CarryUptime \/ CountWarmstart
  <2>1. block'.header = block.header
    BY <1>2 DEF CarryUptime, CountWarmstart, Carried, TypeOK, Block
  <2> QED BY <1>2, <2>1 DEF CarryUptime, CountWarmstart, history
<1>3. CASE SealBoot \/ SealConfiguredZone \/ SealLease
  BY <1>3 DEF SealBoot, SealConfiguredZone, SealLease, Seal, OwnerInv
<1>4. CASE ConfiguredZone \/ WriteUptime
  <2>1. block'.header = block.header
    BY <1>4 DEF ConfiguredZone, WriteUptime, TypeOK, Block
  <2> QED BY <1>4, <2>1 DEF ConfiguredZone, WriteUptime, history
<1>5. CASE NoConfiguredZone \/ SetTimezone \/ Tick \/ ComputeCrc
  BY <1>5 DEF NoConfiguredZone, SetTimezone, Tick, ComputeCrc, ram, history
<1>6. CASE StoreCrc
  BY <1>6 DEF StoreCrc, SumInv
<1>7. ASSUME NEW z \in AnyZone, LeaseStored(z) PROVE HeaderInv'
  <2>1. block'.header = block.header
    BY <1>7 DEF LeaseStored, TypeOK, Block
  <2>2. pc \notin {"check", "wipe"}
    BY <1>7 DEF LeaseStored, Lease, Networked
  <2> QED BY <1>7, <2>1, <2>2 DEF LeaseStored, history
<1>8. ASSUME NEW z \in AnyZone, LeaseSkipped(z) PROVE HeaderInv'
  BY <1>8 DEF LeaseSkipped, ram, history
<1>9. CASE SoftReset
  BY <1>9 DEF SoftReset, Restart, ram
<1>10. CASE PowerCycle
  BY <1>10 DEF PowerCycle, Restart
<1>11. CASE UNCHANGED vars
  BY <1>11 DEF vars
<1> QED
  BY <1>1, <1>2, <1>3, <1>4, <1>5, <1>6, <1>7, <1>8, <1>9, <1>10, <1>11
  DEF Next, Main, Hook

-----------------------------------------------------------------------------
(* The inductive invariant of the persistent memory block.                 *)
LEMMA MemoryInvariant == Spec => []MemoryInv
<1>1. Init => MemoryInv
  <2> SUFFICES ASSUME Init PROVE MemoryInv
    OBVIOUS
  <2>1. TypeOK
    <3>1. block \in Block
      BY Constants DEF Init
    <3>2. ticks \in 0 .. MaxTicks /\ resets \in 0 .. MaxResets
      BY Constants DEF Init
    <3> QED BY <3>1, <3>2, NoZoneIsOne DEF Init, TypeOK, MainPc, Booting
  <2>2. OwnerInv /\ SumInv /\ BlockSealed
    BY DEF Init, OwnerInv, SumInv, BlockSealed, Booted
  <2>3. ZoneInv /\ ZoneAgrees
    BY DEF Init, ZoneInv, ZoneAgrees, Networked
  <2>4. HeaderInv
    BY DEF Init, HeaderInv
  <2> QED BY <2>1, <2>2, <2>3, <2>4 DEF MemoryInv
<1>2. MemoryInv /\ [Next]_vars => MemoryInv'
  BY TypeStep, OwnerStep, SumStep, SealStep, ZoneStep, HeaderStep, Zenon
  DEF MemoryInv
<1> QED BY <1>1, <1>2, PTL DEF Spec

(* Every variable of the block's model keeps to its range, and pmem_mutex   *)
(* is held exactly inside the sections that rewrite the block: the main     *)
(* program's three and the DHCP hook's, never one inside another.          *)
THEOREM MemoryTypeCorrect == Spec => [](TypeOK /\ OwnerInv)
BY MemoryInvariant, PTL DEF MemoryInv

(* Outside the mutex, a booted unit's block always carries its own CRC.    *)
THEOREM BlockStaysSealed == Spec => []BlockSealed
BY MemoryInvariant, PTL DEF MemoryInv

(* The C library and the block never disagree about the timezone.          *)
THEOREM ZonesAgree == Spec => []ZoneAgrees
BY MemoryInvariant, PTL DEF MemoryInv

(* Only a torn block, or RAM that lost its power, is ever wiped.           *)
THEOREM OnlyTornIsWiped == Spec => WipesOnlyTorn
<1>1. MemoryInv /\ [Next]_vars
      => [(pc = "check" /\ pc' = "wipe") => torn]_vars
  <2> SUFFICES ASSUME MemoryInv, [Next]_vars, pc = "check", pc' = "wipe"
               PROVE  torn
    OBVIOUS
  <2>1. pc \notin {"carry", "count", "warm_crc", "wipe", "cold_crc", "setup",
                    "tz_crc", "started", "loop", "sum", "store"}
    OBVIOUS
  <2>2. ~ Intact
    BY <2>1 DEF Next, Main, Hook, FindIntact, FindCorrupt, CarryUptime,
       CountWarmstart, Wipe, SealBoot, ConfiguredZone, SealConfiguredZone,
       NoConfiguredZone, WriteUptime, ComputeCrc, StoreCrc, SetTimezone,
       LeaseStored, LeaseSkipped, SealLease, Tick, SoftReset, PowerCycle,
       Restart, At, vars
  <2>3. ~ Rewriting
    BY DEF MemoryInv, OwnerInv, Rewriting, TypeOK
  <2> QED BY <2>2, <2>3 DEF MemoryInv, HeaderInv, TypeOK
<1> QED BY <1>1, MemoryInvariant, PTL DEF Spec, WipesOnlyTorn

-----------------------------------------------------------------------------
(* The time carried over.  While no boot since power-on ended before its    *)
(* first update, what a boot would carry over is never more than the unit   *)
(* was on before it, and what the present one writes never more than its    *)
(* own time.                                                               *)
Carrying ==
  {"count", "warm_crc", "cold_crc", "setup", "tz_crc", "started", "loop", "sum", "store"}
CarriedInv ==
  ~ recounted =>
    /\ pc = "check" /\ Intact => block.total_uptime + block.uptime <= lived
    /\ pc = "carry" => block.total_uptime + block.uptime <= lived
    /\ pc \in Carrying => block.total_uptime <= lived
    /\ pc \in {"loop", "sum", "store"} => block.uptime <= clock

LEMMA CarriedStep == MemoryInv /\ CarriedInv /\ [Next]_vars => CarriedInv'
<1> SUFFICES ASSUME MemoryInv, CarriedInv, [Next]_vars, ~ recounted' PROVE CarriedInv'
  BY DEF CarriedInv
<1>1. /\ block \in Block /\ block.total_uptime \in Nat /\ block.uptime \in Nat
      /\ clock \in Nat /\ lived \in Nat /\ pc \in MainPc
  BY DEF MemoryInv, TypeOK, Block
<1> USE DEF At, CarriedInv, Carrying
<1>2. CASE FindIntact
  BY <1>1, <1>2 DEF FindIntact, ram, history
<1>3. CASE FindCorrupt
  BY <1>3 DEF FindCorrupt, history
<1>4. CASE CarryUptime
  <2>1. block'.total_uptime = block.total_uptime + block.uptime
    BY <1>1, <1>4 DEF CarryUptime, Carried, Block
  <2> QED BY <1>4, <2>1 DEF CarryUptime, history
<1>5. CASE CountWarmstart
  <2>1. block'.total_uptime = block.total_uptime
    BY <1>1, <1>5 DEF CountWarmstart, Block
  <2> QED BY <1>5, <2>1 DEF CountWarmstart, history
<1>6. CASE Wipe
  <2>1. block'.total_uptime = 0 /\ lived' = lived /\ pc' = "cold_crc"
    BY <1>6 DEF Wipe, Blank, history
  <2> QED BY <1>1, <2>1
<1>7. CASE SealBoot
  BY <1>7 DEF SealBoot, Seal
<1>8. CASE ConfiguredZone
  <2>1. block'.total_uptime = block.total_uptime
    BY <1>1, <1>8 DEF ConfiguredZone, Block
  <2> QED BY <1>8, <2>1 DEF ConfiguredZone, history
<1>9. CASE SealConfiguredZone
  BY <1>9 DEF SealConfiguredZone, Seal
<1>10. CASE NoConfiguredZone
  BY <1>10 DEF NoConfiguredZone, ram, history
<1>11. CASE WriteUptime
  <2>1. block'.total_uptime = block.total_uptime /\ block'.uptime = clock
    BY <1>1, <1>11 DEF WriteUptime, Block
  <2>2. clock' = clock /\ lived' = lived /\ pc' = "sum" /\ recounted' = recounted
    BY <1>11 DEF WriteUptime, history
  <2>3. block.total_uptime <= lived
    BY <1>11, <2>2 DEF WriteUptime
  <2> QED BY <1>1, <2>1, <2>2, <2>3
<1>12. CASE ComputeCrc
  BY <1>12 DEF ComputeCrc, ram, history
<1>13. CASE StoreCrc
  BY <1>13 DEF StoreCrc
<1>14. CASE SetTimezone
  BY <1>14 DEF SetTimezone, ram, history
<1>15. ASSUME NEW z \in AnyZone, LeaseStored(z) PROVE CarriedInv'
  <2>1. block'.total_uptime = block.total_uptime /\ block'.uptime = block.uptime
    BY <1>1, <1>15 DEF LeaseStored, Block
  <2>2. pc' = pc /\ pc \in Networked /\ clock' = clock /\ lived' = lived
        /\ recounted' = recounted
    BY <1>15 DEF LeaseStored, Lease, history
  <2> QED BY <2>1, <2>2 DEF Networked
<1>16. ASSUME NEW z \in AnyZone, LeaseSkipped(z) PROVE CarriedInv'
  <2>1. pc' = pc /\ pc \in Networked /\ block' = block /\ clock' = clock /\ lived' = lived
        /\ recounted' = recounted
    BY <1>16 DEF LeaseSkipped, Lease, ram, history
  <2> QED BY <2>1 DEF Networked
<1>17. CASE SealLease
  <2>1. pc \in {"started", "loop"}
    BY <1>17 DEF SealLease, MemoryInv, OwnerInv
  <2> QED BY <1>17, <2>1 DEF SealLease, Seal
<1>18. CASE Tick
  <2>1. clock' = clock + 1 /\ pc' = pc /\ block' = block /\ crc' = crc /\ lived' = lived
        /\ recounted' = recounted
    BY <1>18 DEF Tick, ram, history
  <2>2. Intact' = Intact
    BY <2>1 DEF Intact, Sealed
  <2> QED BY <1>1, <2>1, <2>2
<1>19. CASE SoftReset
  <2>1. pc \in {"loop", "sum", "store"} /\ ~ recounted /\ lived' = lived + clock
        /\ pc' = "check" /\ block' = block
    BY <1>19 DEF SoftReset, Restart, ram
  <2>2. block.total_uptime <= lived /\ block.uptime <= clock
    BY <2>1
  <2> QED BY <1>1, <2>1, <2>2
<1>20. CASE PowerCycle
  <2>1. block' \in Block /\ crc' = NoCrc /\ pc' = "check"
    BY <1>20, Constants DEF PowerCycle, Restart
  <2>2. ~ Intact'
    BY <2>1, MemoryAssumption DEF Intact, Sealed
  <2> QED BY <2>1, <2>2
<1>21. CASE UNCHANGED vars
  BY <1>21 DEF vars, Intact, Sealed
<1> QED
  BY <1>2, <1>3, <1>4, <1>5, <1>6, <1>7, <1>8, <1>9, <1>10, <1>11, <1>12, <1>13, <1>14,
     <1>15, <1>16, <1>17, <1>18, <1>19, <1>20, <1>21 DEF Next, Main, Hook

(* Neither garbage nor a boot's own time is carried over, however resets    *)
(* and power cycles fall, as long as every boot lived to its first update   *)
(* (init_persistent_memory, update_persistent_memory).                     *)
THEOREM OnlyLivedTimeCarried == Spec => []CarriedTimeWasLived
<1>1. Init => CarriedInv
  <2> SUFFICES ASSUME Init PROVE CarriedInv
    OBVIOUS
  <2>1. pc = "check" /\ crc = NoCrc /\ block \in Block
    BY Constants DEF Init
  <2>2. ~ Intact
    BY <2>1, MemoryAssumption DEF Intact, Sealed
  <2> QED BY <2>1, <2>2 DEF CarriedInv, Carrying
<1>2. CarriedInv => CarriedTimeWasLived
  BY DEF CarriedInv, CarriedTimeWasLived, Carrying, Booted
<1> QED BY <1>1, <1>2, CarriedStep, MemoryInvariant, PTL DEF Spec

=============================================================================
