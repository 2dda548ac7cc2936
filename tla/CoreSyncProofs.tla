---------------------------- MODULE CoreSyncProofs ----------------------------
(***************************************************************************)
(* Proofs about the exchange between the cores: whatever times out, no     *)
(* core works on a mixture of two versions.                                *)
(***************************************************************************)
EXTENDS CoreSync, TLAPS

(* No step leaves the variables' ranges. *)
LEMMA TypeStep == TypeOK /\ SourcesWhole /\ HalvesMatch /\ [Next]_vars => TypeOK'
<1> SUFFICES ASSUME TypeOK, SourcesWhole, HalvesMatch, [Next]_vars PROVE TypeOK'
  OBVIOUS
<1> USE SyncAssumption DEF StateOf, CopyLow, CopyHigh, TypeOK, Config, State, Owner, Pc0, Pc1, configs,
        states, Goto0, Goto1, Exited
<1>1. CASE WantConfig \/ EnterConfig
  BY <1>1 DEF WantConfig, EnterConfig
<1>2. CASE ChangeFirst
  BY <1>2 DEF ChangeFirst
<1>3. CASE ChangeRest
  BY <1>3 DEF ChangeRest
<1>4. CASE Unchanged \/ WriteFlash \/ FlashWritten \/ ExitConfig
  <2>1. CASE Unchanged
    BY <2>1 DEF Unchanged
  <2>2. CASE WriteFlash
    BY <2>2 DEF WriteFlash
  <2>3. CASE FlashWritten
    BY <2>3 DEF FlashWritten
  <2>4. CASE ExitConfig
    BY <2>4 DEF ExitConfig
  <2> QED BY <1>4, <2>1, <2>2, <2>3, <2>4
<1>5. CASE UpdateSystemState \/ EnterState0 \/ StateTaken0 \/ ExitState0
  BY <1>5 DEF UpdateSystemState, EnterState0, StateTaken0, ExitState0
<1>6. CASE CopyState0
  <2>1. core0_state' \in State
    BY <1>6 DEF CopyState0, Source0
  <2> QED BY <1>6, <2>1 DEF CopyState0
<1>7. CASE ConfigDue \/ ConfigNotDue \/ EnterConfig1 \/ ConfigTaken1 \/ ExitConfig1
  <2>1. CASE ConfigDue \/ ConfigNotDue
    BY <2>1 DEF ConfigDue, ConfigNotDue
  <2>2. CASE EnterConfig1
    BY <2>2 DEF EnterConfig1
  <2>3. CASE ConfigTaken1
    BY <2>3 DEF ConfigTaken1
  <2>4. CASE ExitConfig1
    BY <2>4 DEF ExitConfig1
  <2> QED BY <1>7, <2>1, <2>2, <2>3, <2>4
<1>8. CASE CopyConfig1
  BY <1>8 DEF CopyConfig1, Source1
<1>9. CASE StateDue \/ StateNotDue \/ EnterState1 \/ StateTaken1 \/ ExitState1
  <2>1. CASE StateDue \/ StateNotDue
    BY <2>1 DEF StateDue, StateNotDue
  <2>2. CASE EnterState1
    BY <2>2 DEF EnterState1
  <2>3. CASE StateTaken1
    BY <2>3 DEF StateTaken1
  <2>4. CASE ExitState1
    BY <2>4 DEF ExitState1
  <2> QED BY <1>9, <2>1, <2>2, <2>3, <2>4
<1>10. CASE CopyState1
  <2>1. transfer_state' \in State
    BY <1>10 DEF CopyState1
  <2> QED BY <1>10, <2>1 DEF CopyState1
<1>11. CASE Work
  <2>1. core1_state' \in State
    BY <1>11 DEF Work
  <2> QED BY <1>11, <2>1 DEF Work
<1>12. CASE Timeout
  BY <1>12 DEF Timeout, StateTimeout0, ConfigTimeout1, StateTimeout1, TimesOut
<1>13. CASE Interrupt
  <2>2. core1_state.irq_hi < MaxInterrupts
    BY <1>13 DEF Interrupt, SourcesWhole
  <2>3. core1_state' \in State
    BY <1>13, <2>2 DEF Interrupt
  <2> QED BY <1>13, <2>3 DEF Interrupt
<1>15. CASE SetUpBus
  BY <1>15 DEF SetUpBus
<1>14. CASE UNCHANGED vars
  BY <1>14 DEF vars
<1> QED
  BY <1>1, <1>2, <1>3, <1>4, <1>5, <1>6, <1>7, <1>8, <1>9, <1>10, <1>11,
     <1>12, <1>13, <1>14, <1>15 DEF Next, Core0Step, Core1Step

LEMMA MutexStep == TypeOK /\ MutexInv /\ [Next]_vars => MutexInv'
<1> SUFFICES ASSUME TypeOK, MutexInv, [Next]_vars PROVE MutexInv'
  OBVIOUS
<1> USE DEF TypeOK, MutexInv, Owner, Pc0, Pc1, configs, states,
        Goto0, Goto1, Exited, Free, Try
<1>1. CASE WantConfig \/ EnterConfig
  BY <1>1 DEF WantConfig, EnterConfig
<1>2. CASE ChangeFirst \/ ChangeRest
  BY <1>2 DEF ChangeFirst, ChangeRest
<1>3. CASE Unchanged \/ WriteFlash \/ FlashWritten
  BY <1>3 DEF Unchanged, WriteFlash, FlashWritten
<1>4. CASE ExitConfig
  BY <1>4 DEF ExitConfig
<1>5. CASE UpdateSystemState \/ EnterState0 \/ StateTaken0
  BY <1>5 DEF UpdateSystemState, EnterState0, StateTaken0
<1>6. CASE CopyState0 \/ ExitState0
  BY <1>6 DEF CopyState0, ExitState0
<1>7. CASE ConfigDue \/ ConfigNotDue \/ EnterConfig1 \/ ConfigTaken1
  BY <1>7 DEF ConfigDue, ConfigNotDue, EnterConfig1, ConfigTaken1
<1>8. CASE CopyConfig1 \/ ExitConfig1
  BY <1>8 DEF CopyConfig1, ExitConfig1
<1>9. CASE StateDue \/ StateNotDue \/ EnterState1 \/ StateTaken1
  BY <1>9 DEF StateDue, StateNotDue, EnterState1, StateTaken1
<1>10. CASE CopyState1 \/ ExitState1
  BY <1>10 DEF CopyState1, ExitState1
<1>11. CASE Work
  BY <1>11 DEF Work
<1>12. CASE Timeout
  BY <1>12 DEF Timeout, StateTimeout0, ConfigTimeout1, StateTimeout1
<1>13. CASE Interrupt
  BY <1>13 DEF Interrupt
<1>15. CASE SetUpBus
  BY <1>15 DEF SetUpBus
<1>14. CASE UNCHANGED vars
  BY <1>14 DEF vars
<1> QED
  BY <1>1, <1>2, <1>3, <1>4, <1>5, <1>6, <1>7, <1>8, <1>9, <1>10, <1>11,
     <1>12, <1>13, <1>14, <1>15 DEF Next, Core0Step, Core1Step

(* The heart of the argument: the writer of a structure and whoever copies *)
(* it are never both in their sections, so the second half copied is of    *)
(* the version of the first.                                               *)
LEMMA WholeStep ==
  ASSUME TypeOK, MutexInv, SourcesWhole, HalvesMatch, CopiesWhole, [Next]_vars
  PROVE  SourcesWhole' /\ HalvesMatch' /\ CopiesWhole'
<1> USE DEF SourcesWhole, HalvesMatch, CopiesWhole, Whole, configs, states,
        Goto0, Goto1, StateOf, CopyLow, CopyHigh
<1>1. CASE WantConfig \/ EnterConfig
  BY <1>1 DEF WantConfig, EnterConfig
<1>2. CASE ChangeFirst
  <2>1. pc1 # "config_hi"
    BY <1>2 DEF ChangeFirst, MutexInv
  <2> QED
    BY <1>2, <2>1 DEF ChangeFirst
<1>3. CASE ChangeRest
  <2>1. pc1 # "config_hi" /\ Whole(cfg)'
    BY <1>3 DEF ChangeRest, MutexInv, TypeOK, Config
  <2> QED
    BY <1>3, <2>1 DEF ChangeRest
<1>4. CASE Unchanged \/ WriteFlash \/ FlashWritten \/ ExitConfig
  BY <1>4 DEF Unchanged, WriteFlash, FlashWritten, ExitConfig
<1>5. CASE UpdateSystemState \/ EnterState0 \/ StateTaken0 \/ ExitState0
  BY <1>5 DEF UpdateSystemState, EnterState0, StateTaken0, ExitState0
<1>6. CASE CopyState0
  <2>1. Whole(transfer_state)
    BY <1>6 DEF CopyState0, MutexInv
  <2> QED
    BY <1>6, <2>1 DEF CopyState0, Source0, TypeOK
<1>7. CASE ConfigDue \/ ConfigNotDue \/ EnterConfig1 \/ ConfigTaken1 \/ ExitConfig1
  BY <1>7 DEF ConfigDue, ConfigNotDue, EnterConfig1, ConfigTaken1, ExitConfig1
<1>8. CASE CopyConfig1
  <2>1. Whole(cfg)
    BY <1>8 DEF CopyConfig1, MutexInv
  <2> QED
    BY <1>8, <2>1 DEF CopyConfig1, Source1, TypeOK, Config
<1>9. CASE StateDue \/ StateNotDue \/ EnterState1 \/ StateTaken1 \/ ExitState1
  BY <1>9 DEF StateDue, StateNotDue, EnterState1, StateTaken1, ExitState1
<1>10. CASE CopyState1
  <2>1. pc0 # "copy_hi"
    BY <1>10 DEF CopyState1, MutexInv
  <2> QED
    BY <1>10, <2>1 DEF CopyState1, TypeOK
<1>11. CASE Work
  BY <1>11 DEF Work
<1>12. CASE Timeout
  BY <1>12 DEF Timeout, StateTimeout0, ConfigTimeout1, StateTimeout1
<1>13. CASE Interrupt
  BY <1>13 DEF Interrupt
<1>15. CASE SetUpBus
  BY <1>15 DEF SetUpBus
<1>14. CASE UNCHANGED vars
  BY <1>14 DEF vars
<1> QED
  BY <1>1, <1>2, <1>3, <1>4, <1>5, <1>6, <1>7, <1>8, <1>9, <1>10, <1>11,
     <1>12, <1>13, <1>14, <1>15 DEF Next, Core0Step, Core1Step

LEMMA SyncInvariant == Spec => []SyncInv
<1>1. Init => SyncInv
  <2> SUFFICES ASSUME Init PROVE SyncInv
    OBVIOUS
  <2>1. FirstConfig \in Config /\ FirstState \in State /\ 0 \in 0 .. MaxSlow
    BY SyncAssumption DEF FirstConfig, FirstState, StateOf, Config, State
  <2>2. TypeOK
    BY <2>1 DEF Init, TypeOK, Owner, Pc0, Pc1
  <2>3. MutexInv
    BY DEF Init, MutexInv
  <2>4. SourcesWhole /\ HalvesMatch /\ CopiesWhole
    BY DEF Init, FirstConfig, FirstState, StateOf, SourcesWhole, HalvesMatch, CopiesWhole, Whole
  <2> QED
    BY <2>2, <2>3, <2>4 DEF SyncInv
<1>2. SyncInv /\ [Next]_vars => SyncInv'
  BY TypeStep, MutexStep, WholeStep DEF SyncInv
<1> QED
  BY <1>1, <1>2, PTL DEF Spec

(* No core ever works on a half-copied version of what the other one's     *)
(* thread, or a command, wrote to state or configuration, for any number   *)
(* of changes, of interrupts in between and of waits that time out         *)
(* (core1_main, update_system_state).                                      *)
THEOREM CopiesStayWhole == Spec => []CopiesWhole
BY SyncInvariant, PTL DEF SyncInv

(* The two cores are never both inside the sections of one mutex, and a    *)
(* mutex is held exactly while its owner is inside (config_mutex,          *)
(* state_mutex).                                                           *)
THEOREM SectionsExclude == Spec => []MutexInv
BY SyncInvariant, PTL DEF SyncInv

=============================================================================
