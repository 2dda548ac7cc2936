----------------------------- MODULE SckCapture -----------------------------
(***************************************************************************)
(* Core 1's capture path, between the SCK, DO, DI and RST pins and the     *)
(* frame parser (decoder_34401a.c).  The GPIO interrupt shifts one bit     *)
(* pair into the accumulators per SCK edge and appends a word to a ring of *)
(* FifoSize slots; decoder34401_process runs in core 1's main loop and     *)
(* empties the ring.  The interrupt preempts the loop between any two of   *)
(* its accesses and runs to completion (same core, no nesting), so each    *)
(* handler is one action and the loop is cut at every access to a variable *)
(* the handlers share.                                                     *)
(*                                                                         *)
(* The wire is part of the model: every bit is labelled with the byte of   *)
(* the instrument it belongs to and its place in it, which is what tells a *)
(* word that is a byte of the instrument from one that is not.             *)
(***************************************************************************)
EXTENDS Integers, Sequences

CONSTANTS
  ByteBits,     (* bits per byte, 8 in the code                            *)
  FifoSize,     (* slots of the ring, BYTE_FIFO_SIZE                       *)
  MaxSckDelay,  (* longest gap inside a byte, MAX_SCK_DELAY_US             *)
  TimeMod,      (* the microsecond clock wraps here, 2^32 in the code      *)
  Gaps,         (* times that may pass between two edges of the wire       *)
  MaxBytes,     (* bound: bytes the instrument sends                       *)
  MaxLost       (* bound: edges the interrupt misses                       *)

ASSUME CaptureAssumption ==
  /\ ByteBits \in Nat /\ ByteBits >= 2
  /\ FifoSize \in Nat /\ FifoSize >= 2
  /\ MaxSckDelay \in Nat
  /\ TimeMod \in Nat /\ TimeMod > MaxSckDelay
  /\ Gaps \subseteq 1 .. TimeMod
  /\ MaxBytes \in Nat
  /\ MaxLost \in Nat

(* A bit is the pair of levels sampled on one edge: bit i of the           *)
(* instrument's byte b; NoBit is the zeroed accumulator; EofBit stands for *)
(* the constants 0x00/0xbb that the handler writes into it.                *)
NoBit == << 0, 0 >>
EofBit == << 0, 1 >>
Bit == ((1 .. MaxBytes) \X (0 .. ByteBits - 1)) \cup {NoBit, EofBit}

Half == [1 .. ByteBits -> Bit]          \* one accumulator, oldest bit first
Word == [in : Half, out : Half]         \* sniff_byte_t
Pair(h) == [in |-> h, out |-> h]
NoHalf == [i \in 1 .. ByteBits |-> NoBit]
EofHalf == [i \in 1 .. ByteBits |-> EofBit]
WholeByte(b) == [i \in 1 .. ByteBits |-> << b, i - 1 >>]

Slots == 0 .. FifoSize - 1

VARIABLES
  (* the wire *)
  wire,            (* [byte, pos]: the next bit the instrument clocks out  *)
  now,             (* the microsecond clock at the last edge of the wire   *)
  quiet,           (* time since the last edge the handler saw             *)
  lost,            (* edges missed so far                                  *)
  synced,          (* the wire has given the handler the means to be in    *)
                   (* step with it, and nothing has put it out since       *)
  (* the interrupt handlers *)
  last_us, byte_len, acc,
  fifo, fifo_wr, overruns,
  reset_received,
  (* decoder34401_process *)
  fifo_rd,
  pc,              (* where the loop is                                    *)
  local,           (* input_byte and output_byte                           *)
  taken            (* the pair last stored into input_buf and output_buf   *)

wire_vars == << wire, now, quiet, lost, synced >>
fifo_vars == << fifo, fifo_wr, overruns >>
loop_vars == << fifo_rd, pc, local, taken >>
vars == << wire, now, quiet, lost, synced, last_us, byte_len, acc,
           fifo, fifo_wr, overruns, reset_received,
           fifo_rd, pc, local, taken >>

PcStates == {"idle", "test", "check", "read_in", "read_out", "advance",
             "reset", "clear"}

(* decoder34401_init zeroes the context.  The instrument may be anywhere   *)
(* inside a byte when the Pico starts to listen.                           *)
Init ==
  /\ wire \in [byte : {1}, pos : 0 .. ByteBits - 1]
  /\ now \in 0 .. TimeMod - 1
  /\ quiet = 0
  /\ lost = 0
  /\ synced = (wire.pos = 0)
  /\ last_us = 0
  /\ byte_len = 0
  /\ acc = NoHalf
  /\ fifo = [s \in Slots |-> Pair(NoHalf)]
  /\ fifo_wr = 0
  /\ overruns = 0
  /\ reset_received = FALSE
  /\ fifo_rd = 0
  /\ pc = "idle"
  /\ local = Pair(NoHalf)
  /\ taken = Pair(NoHalf)

-----------------------------------------------------------------------------
(* Slips the properties below are there to catch; nothing here uses them.  *)

SuccNoWrap(s) == s + 1                      \* the mask forgotten
FifoNeverFull == FALSE                      \* the full test forgotten
OverwriteNewest(h) ==                       \* a full ring loses the newest
  LET last == IF fifo_wr = 0 THEN FifoSize - 1 ELSE fifo_wr - 1
  IN IF (fifo_wr + 1) % FifoSize = fifo_rd
     THEN /\ fifo' = [fifo EXCEPT ![last] = Pair(h)]
          /\ overruns' = overruns + 1
          /\ UNCHANGED fifo_wr
     ELSE /\ fifo' = [fifo EXCEPT ![fifo_wr] = Pair(h)]
          /\ fifo_wr' = (fifo_wr + 1) % FifoSize
          /\ UNCHANGED overruns
NoGapCheck(t) == FALSE                      \* the gap check compiled out
GapDropsBits == UNCHANGED fifo_vars         \* the #else branch of the code
KeepBitCount == byte_len                    \* reset leaves byte_len alone
ForgetReset == TRUE                         \* the flag is never cleared
TestReset ==                                \* `&&` for `||` in the loop test
  /\ pc = "test"
  /\ pc' = IF fifo_rd # fifo_wr /\ reset_received THEN "check" ELSE "idle"
  /\ UNCHANGED << wire_vars, last_us, byte_len, acc, fifo_vars,
                  reset_received, fifo_rd, local, taken >>

-----------------------------------------------------------------------------
(* Time, modulo the width of the clock. *)

After(t, d) == IF t + d < TimeMod THEN t + d ELSE t + d - TimeMod
Since(t, t0) == IF t >= t0 THEN t - t0 ELSE t - t0 + TimeMod

(* The ring. *)

Succ(s) == IF s = FifoSize - 1 THEN 0 ELSE s + 1
FifoEmpty == fifo_rd = fifo_wr

FifoFull == Succ(fifo_wr) = fifo_rd

(* fifo_append, with byte_len = 0 left to its callers' next value. *)
FifoAppend(h) ==
  IF FifoFull
  THEN /\ overruns' = overruns + 1
       /\ UNCHANGED << fifo, fifo_wr >>
  ELSE /\ fifo' = [fifo EXCEPT ![fifo_wr] = Pair(h)]
       /\ fifo_wr' = Succ(fifo_wr)
       /\ UNCHANGED overruns

-----------------------------------------------------------------------------
(* The wire: one edge, d after the edge before it. *)

Advance(w) ==
  IF w.pos = ByteBits - 1
  THEN [byte |-> w.byte + 1, pos |-> 0]
  ELSE [w EXCEPT !.pos = @ + 1]

(* A pause before a byte that the clock can measure brings the handler     *)
(* into step; a pause inside a byte puts it out of step.                   *)
SyncAfter(d) ==
  LET pause == quiet + d
  IN IF wire.pos = 0
     THEN synced \/ (last_us # 0 /\ pause > MaxSckDelay /\ pause < TimeMod)
     ELSE synced /\ pause <= MaxSckDelay

Clock(d) ==
  /\ wire.byte <= MaxBytes
  /\ now' = After(now, d)
  /\ wire' = Advance(wire)

-----------------------------------------------------------------------------
(* decoder34401_sckedge *)

MidByteGap(t) ==
  /\ last_us > 0
  /\ byte_len # 0
  /\ Since(t, last_us) > MaxSckDelay

Shift(h, b) == [i \in 1 .. ByteBits |-> IF i < ByteBits THEN h[i + 1] ELSE b]

CloseFrame == FifoAppend(EofHalf)

(* The bit goes into the accumulators after the gap check: after a gap the *)
(* synthetic end-of-frame word is appended first and the bit is the first  *)
(* of a new byte.                                                          *)
SckEdge(d) ==
  LET t == After(now, d)
      b == << wire.byte, wire.pos >>
      next == Shift(acc, b)
  IN /\ Clock(d)
     /\ last_us' = t
     /\ quiet' = 0
     /\ synced' = SyncAfter(d)
     /\ \/ /\ MidByteGap(t)
           /\ CloseFrame
           /\ acc' = Shift(EofHalf, b)
           /\ byte_len' = 1
        \/ /\ ~MidByteGap(t)
           /\ byte_len + 1 >= ByteBits
           /\ FifoAppend(next)
           /\ acc' = next
           /\ byte_len' = 0
        \/ /\ ~MidByteGap(t)
           /\ byte_len + 1 < ByteBits
           /\ acc' = next
           /\ byte_len' = byte_len + 1
           /\ UNCHANGED fifo_vars
     /\ UNCHANGED << lost, reset_received, loop_vars >>

(* An edge comes while the one before it is still pending: the pin's       *)
(* interrupt flag holds one edge, so the handler runs once for the two.    *)
LoseEdge(d) ==
  /\ lost < MaxLost
  /\ lost' = lost + 1
  /\ Clock(d)
  /\ quiet' = quiet + d
  /\ synced' = FALSE
  /\ UNCHANGED << last_us, byte_len, acc, fifo_vars, reset_received, loop_vars >>

(* decoder34401_reset, on the rising edge of RST.  The instrument was held *)
(* in reset: the byte it was sending is abandoned.                         *)
ResetBitCount == 0

ResetEdge ==
  /\ wire.byte <= MaxBytes
  /\ wire' = [byte |-> wire.byte + 1, pos |-> 0]
  /\ byte_len' = ResetBitCount
  /\ synced' = TRUE
  /\ reset_received' = TRUE
  /\ UNCHANGED << now, quiet, lost, last_us, acc, fifo_vars, loop_vars >>

-----------------------------------------------------------------------------
(* decoder34401_process.  What the frame parser does with a word is left   *)
(* to module Decoder.                                                      *)

Enter ==
  /\ pc = "idle"
  /\ pc' = "test"
  /\ UNCHANGED << wire_vars, last_us, byte_len, acc, fifo_vars,
                  reset_received, fifo_rd, local, taken >>

Test ==
  /\ pc = "test"
  /\ pc' = IF ~FifoEmpty \/ reset_received THEN "check" ELSE "idle"
  /\ UNCHANGED << wire_vars, last_us, byte_len, acc, fifo_vars,
                  reset_received, fifo_rd, local, taken >>

Check ==
  /\ pc = "check"
  /\ pc' = IF reset_received THEN "reset" ELSE "read_in"
  /\ UNCHANGED << wire_vars, last_us, byte_len, acc, fifo_vars,
                  reset_received, fifo_rd, local, taken >>

ReadIn ==
  /\ pc = "read_in"
  /\ local' = [local EXCEPT !.in = fifo[fifo_rd].in]
  /\ pc' = "read_out"
  /\ UNCHANGED << wire_vars, last_us, byte_len, acc, fifo_vars,
                  reset_received, fifo_rd, taken >>

ReadOut ==
  /\ pc = "read_out"
  /\ local' = [local EXCEPT !.out = fifo[fifo_rd].out]
  /\ pc' = "advance"
  /\ UNCHANGED << wire_vars, last_us, byte_len, acc, fifo_vars,
                  reset_received, fifo_rd, taken >>

AdvanceRd ==
  /\ pc = "advance"
  /\ fifo_rd' = Succ(fifo_rd)
  /\ taken' = local
  /\ pc' = "test"
  /\ UNCHANGED << wire_vars, last_us, byte_len, acc, fifo_vars,
                  reset_received, local >>

(* process_reset: its last store clears the flag; then the loop breaks. *)
ProcessReset ==
  /\ pc = "reset"
  /\ pc' = "clear"
  /\ UNCHANGED << wire_vars, last_us, byte_len, acc, fifo_vars,
                  reset_received, fifo_rd, local, taken >>

AfterReset == FALSE

ClearReset ==
  /\ pc = "clear"
  /\ reset_received' = AfterReset
  /\ pc' = "idle"
  /\ UNCHANGED << wire_vars, last_us, byte_len, acc, fifo_vars,
                  fifo_rd, local, taken >>

-----------------------------------------------------------------------------
Wire ==
  \/ \E d \in Gaps : SckEdge(d)
  \/ \E d \in Gaps : LoseEdge(d)
  \/ ResetEdge

Loop ==
  \/ Enter
  \/ Test
  \/ Check
  \/ ReadIn
  \/ ReadOut
  \/ AdvanceRd
  \/ ProcessReset
  \/ ClearReset

Next == Wire \/ Loop

Spec == Init /\ [][Next]_vars

(* core1_main calls decoder34401_process in an endless loop; nothing is    *)
(* assumed of the instrument.                                              *)
FairSpec == Spec /\ WF_vars(Loop)

-----------------------------------------------------------------------------
(* Type invariant of the capture path. *)
TypeOK ==
  /\ wire \in [byte : 1 .. MaxBytes + 1, pos : 0 .. ByteBits - 1]
  /\ now \in 0 .. TimeMod - 1
  /\ quiet \in Nat
  /\ lost \in 0 .. MaxLost
  /\ synced \in BOOLEAN
  /\ last_us \in 0 .. TimeMod - 1
  /\ byte_len \in 0 .. ByteBits - 1
  /\ acc \in Half
  /\ fifo \in [Slots -> Word]
  /\ fifo_wr \in Slots
  /\ overruns \in Nat
  /\ reset_received \in BOOLEAN
  /\ fifo_rd \in Slots
  /\ pc \in PcStates
  /\ local \in Word
  /\ taken \in Word

(* Framing: while the wire has given it the means, the handler's bit count *)
(* is the instrument's place in its byte, and the accumulators hold the    *)
(* bits of that byte and of no other.  This is the self-synchronisation    *)
(* that MAX_SCK_DELAY_US, `byte_len = 0` in fifo_append and in             *)
(* decoder34401_reset are there for.                                       *)
Framed ==
  synced =>
    /\ byte_len = wire.pos
    /\ \A i \in 1 .. byte_len :
         acc[ByteBits - byte_len + i] = << wire.byte, i - 1 >>

(* The loop's read of a slot is never torn or stale: from the moment the   *)
(* loop has found the FIFO non-empty until it advances fifo_rd, the slot   *)
(* it reads is a filled one, and what it has read of it is still there.    *)
(* Holds only because fifo_append leaves one slot empty.                   *)
ReadsWhole ==
  /\ pc = "check" => (~FifoEmpty \/ reset_received)
  /\ pc \in {"read_in", "read_out", "advance"} => ~FifoEmpty
  /\ pc \in {"read_out", "advance"} => local.in = fifo[fifo_rd].in
  /\ pc = "advance" => local.out = fifo[fifo_rd].out

(* A word appended while the handler is in step with the wire is exactly   *)
(* one byte of the instrument: never a synthetic end of frame, never bits  *)
(* of two bytes.                                                           *)
AppendsWholeBytes ==
  [][(fifo_wr' # fifo_wr /\ synced') =>
        \/ fifo'[fifo_wr] = Pair(WholeByte(wire.byte))
        \/ ~synced /\ fifo'[fifo_wr] = Pair(EofHalf)]_vars

(* A pause between two bytes that finds the handler out of step closes the *)
(* damaged frame: the handler appends an end of frame (or counts it lost   *)
(* when the FIFO is full) before the next byte's first bit, so the parser  *)
(* does not glue the two frames together.                                  *)
ResyncClosesFrame ==
  [][(synced' /\ ~synced /\ now' # now /\ byte_len # 0) =>
        \/ overruns' # overruns
        \/ fifo_wr' # fifo_wr /\ fifo'[fifo_wr] = Pair(EofHalf)]_vars

(* A reset is answered, whatever the wire does.                            *)
ResetAnswered == reset_received ~> ~reset_received

(* The clock agrees with the time that has really passed since the last    *)
(* edge seen, as long as that is less than one turn of the clock.          *)
ClockInv ==
  (last_us # 0 /\ quiet < TimeMod) => now = After(last_us, quiet)

(* The loop answers only resets that are there to be answered. *)
ResetHeld == pc \in {"reset", "clear"} => reset_received

(* The inductive invariant behind the safety properties. *)
CaptureInv ==
  /\ TypeOK
  /\ ClockInv
  /\ Framed
  /\ ReadsWhole
  /\ ResetHeld

-----------------------------------------------------------------------------
(* The refinement: the filled slots, oldest first, are the abstract queue. *)

Level(rd, wr) == IF wr >= rd THEN wr - rd ELSE wr - rd + FifoSize
SlotAt(rd, i) == IF rd + i - 1 < FifoSize THEN rd + i - 1
                                          ELSE rd + i - 1 - FifoSize
Filled(f, rd, wr) == [i \in 1 .. Level(rd, wr) |-> f[SlotAt(rd, i)]]
Pending == Filled(fifo, fifo_rd, fifo_wr)

Q == INSTANCE ByteQueue WITH
       Nothing <- Pair(NoHalf), Capacity <- FifoSize - 1,
       queue <- Pending

(* The ring implements the queue: in order, once each, loss only when full *)
(* and counted, resets kept until answered.                                *)
ImplementsQueue == Q!QSpec

=============================================================================
