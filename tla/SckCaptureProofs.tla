-------------------------- MODULE SckCaptureProofs --------------------------
(***************************************************************************)
(* Proofs about the capture path, for every byte width, ring size, gap     *)
(* threshold and clock width, and for any number of bytes and lost edges.  *)
(***************************************************************************)
EXTENDS SckCapture, SequenceTheorems, TLAPS

USE CaptureAssumption

(* The ring index successor stays inside the ring. *)
LEMMA SuccInSlots == \A s \in Slots : Succ(s) \in Slots
BY DEF Slots, Succ

(* Shifting a bit in keeps an accumulator an accumulator. *)
LEMMA ShiftType ==
  ASSUME NEW h \in Half, NEW b \in Bit
  PROVE  Shift(h, b) \in Half
<1> SUFFICES ASSUME NEW i \in 1 .. ByteBits
             PROVE  (IF i < ByteBits THEN h[i + 1] ELSE b) \in Bit
  BY DEF Shift, Half
<1>1. CASE i < ByteBits
  BY <1>1 DEF Half
<1>2. CASE ~(i < ByteBits)
  BY <1>2
<1> QED BY <1>1, <1>2

(* The constants of the accumulator. *)
LEMMA HalfConstants == NoHalf \in Half /\ EofHalf \in Half
BY DEF NoHalf, EofHalf, Half, Bit

(* Time arithmetic stays inside the clock. *)
LEMMA AfterType ==
  \A t \in 0 .. TimeMod - 1, d \in Gaps : After(t, d) \in 0 .. TimeMod - 1
BY DEF After

(* Appending to the ring keeps its types. *)
LEMMA AppendType ==
  ASSUME TypeOK, NEW h \in Half, FifoAppend(h)
  PROVE  /\ fifo' \in [Slots -> Word]
         /\ fifo_wr' \in Slots
         /\ overruns' \in Nat
<1>1. Pair(h) \in Word
  BY DEF Pair, Word
<1> QED BY <1>1, SuccInSlots DEF TypeOK, FifoAppend

-----------------------------------------------------------------------------
(* Type correctness of the capture path's variables. *)
THEOREM TypeCorrect == Spec => []TypeOK
<1>1. Init => TypeOK
  <2> SUFFICES ASSUME Init PROVE TypeOK
    OBVIOUS
  <2>1. Pair(NoHalf) \in Word
    BY HalfConstants DEF Pair, Word
  <2>2. wire \in [byte : 1 .. MaxBytes + 1, pos : 0 .. ByteBits - 1]
    BY DEF Init
  <2>3. /\ fifo \in [Slots -> Word]
        /\ local \in Word
        /\ taken \in Word
    BY <2>1 DEF Init
  <2>4. /\ fifo_wr \in Slots
        /\ fifo_rd \in Slots
        /\ byte_len \in 0 .. ByteBits - 1
        /\ last_us \in 0 .. TimeMod - 1
        /\ lost \in 0 .. MaxLost
    BY DEF Init, Slots
  <2>5. synced \in BOOLEAN
    BY DEF Init
  <2> QED BY <2>2, <2>3, <2>4, <2>5, HalfConstants DEF Init, TypeOK, PcStates
<1>2. TypeOK /\ [Next]_vars => TypeOK'
  <2> SUFFICES ASSUME TypeOK, [Next]_vars PROVE TypeOK'
    OBVIOUS
  <2>1. ASSUME NEW d \in Gaps, SckEdge(d) PROVE TypeOK'
    <3> DEFINE b == << wire.byte, wire.pos >>
    <3>1. b \in Bit
      BY <2>1 DEF SckEdge, Clock, TypeOK, Bit
    <3>2. Shift(acc, b) \in Half /\ Shift(EofHalf, b) \in Half
      BY <3>1, ShiftType, HalfConstants DEF TypeOK
    <3>3. acc' \in Half /\ byte_len' \in 0 .. ByteBits - 1
      BY <2>1, <3>2 DEF SckEdge, TypeOK
    <3>4. fifo' \in [Slots -> Word] /\ fifo_wr' \in Slots /\ overruns' \in Nat
      BY <2>1, <3>2, HalfConstants, AppendType
         DEF SckEdge, CloseFrame, TypeOK, fifo_vars
    <3>5. now' \in 0 .. TimeMod - 1 /\ last_us' \in 0 .. TimeMod - 1
      BY <2>1, AfterType DEF SckEdge, Clock, TypeOK
    <3>6. wire' \in [byte : 1 .. MaxBytes + 1, pos : 0 .. ByteBits - 1]
      BY <2>1 DEF SckEdge, Clock, Advance, TypeOK
    <3>7. synced' \in BOOLEAN
      BY <2>1 DEF SckEdge, SyncAfter, TypeOK
    <3> QED BY <2>1, <3>3, <3>4, <3>5, <3>6, <3>7 DEF SckEdge, TypeOK, loop_vars
  <2>2. ASSUME NEW d \in Gaps, LoseEdge(d) PROVE TypeOK'
    <3>1. wire' \in [byte : 1 .. MaxBytes + 1, pos : 0 .. ByteBits - 1]
      BY <2>2 DEF LoseEdge, Clock, Advance, TypeOK
    <3>2. now' \in 0 .. TimeMod - 1 /\ quiet' \in Nat /\ lost' \in 0 .. MaxLost
      BY <2>2, AfterType DEF LoseEdge, Clock, TypeOK
    <3> QED BY <2>2, <3>1, <3>2 DEF LoseEdge, TypeOK, fifo_vars, loop_vars
  <2>3. CASE ResetEdge
    <3>1. wire' \in [byte : 1 .. MaxBytes + 1, pos : 0 .. ByteBits - 1]
      BY <2>3 DEF ResetEdge, TypeOK
    <3> QED BY <2>3, <3>1
            DEF ResetEdge, ResetBitCount, TypeOK, fifo_vars, loop_vars
  <2>4. CASE Loop
    <3> USE DEF TypeOK, wire_vars, fifo_vars, PcStates
    <3>1. CASE Enter BY <3>1 DEF Enter
    <3>2. CASE Test BY <3>2 DEF Test
    <3>3. CASE Check BY <3>3 DEF Check
    <3>4. CASE ReadIn BY <3>4 DEF ReadIn, Word
    <3>5. CASE ReadOut BY <3>5 DEF ReadOut, Word
    <3>6. CASE AdvanceRd BY <3>6, SuccInSlots DEF AdvanceRd
    <3>7. CASE ProcessReset BY <3>7 DEF ProcessReset
    <3>8. CASE ClearReset BY <3>8 DEF ClearReset, AfterReset
    <3> QED BY <2>4, <3>1, <3>2, <3>3, <3>4, <3>5, <3>6, <3>7, <3>8 DEF Loop
  <2>5. CASE UNCHANGED vars
    BY <2>5 DEF vars, TypeOK
  <2> QED BY <2>1, <2>2, <2>3, <2>4, <2>5 DEF Next, Wire
<1> QED BY <1>1, <1>2, PTL DEF Spec

-----------------------------------------------------------------------------
(* The loop never reads an empty, torn or overwritten slot: fifo_append's  *)
(* one empty slot keeps the interrupt off the slot being read.             *)
LEMMA ReadsWholeStep == TypeOK /\ ReadsWhole /\ [Next]_vars => ReadsWhole'
<1> SUFFICES ASSUME TypeOK, ReadsWhole, [Next]_vars PROVE ReadsWhole'
  OBVIOUS
<1>1. ASSUME NEW h, FifoAppend(h), UNCHANGED loop_vars, UNCHANGED reset_received
      PROVE  ReadsWhole'
  <2>1. CASE FifoFull
    BY <1>1, <2>1 DEF FifoAppend, ReadsWhole, FifoEmpty, loop_vars
  <2>2. CASE ~FifoFull
    <3>1. fifo_wr' # fifo_rd' /\ fifo_rd' = fifo_rd /\ local' = local /\ pc' = pc
      BY <1>1, <2>2 DEF FifoAppend, FifoFull, loop_vars
    <3>2. fifo_rd # fifo_wr => fifo'[fifo_rd] = fifo[fifo_rd]
      BY <1>1, <2>2 DEF FifoAppend, TypeOK
    <3> QED BY <1>1, <3>1, <3>2 DEF ReadsWhole, FifoEmpty
  <2> QED BY <2>1, <2>2
<1>2. ASSUME NEW d \in Gaps, SckEdge(d) PROVE ReadsWhole'
  <2>1. CASE UNCHANGED fifo_vars
    BY <1>2, <2>1 DEF SckEdge, fifo_vars, loop_vars, ReadsWhole, FifoEmpty
  <2>2. CASE \E h : FifoAppend(h)
    BY <1>1, <1>2, <2>2 DEF SckEdge
  <2> QED BY <1>2, <2>1, <2>2 DEF SckEdge, CloseFrame
<1>3. ASSUME NEW d \in Gaps, LoseEdge(d) PROVE ReadsWhole'
  BY <1>3 DEF LoseEdge, fifo_vars, loop_vars, ReadsWhole, FifoEmpty
<1>4. CASE ResetEdge
  BY <1>4 DEF ResetEdge, fifo_vars, loop_vars, ReadsWhole, FifoEmpty
<1>5. CASE Loop
  <2> USE DEF ReadsWhole, FifoEmpty, fifo_vars
  <2>1. CASE Enter BY <2>1 DEF Enter
  <2>2. CASE Test BY <2>2 DEF Test
  <2>3. CASE Check BY <2>3 DEF Check
  <2>4. CASE ReadIn BY <2>4 DEF ReadIn, TypeOK, Word
  <2>5. CASE ReadOut BY <2>5 DEF ReadOut, TypeOK, Word
  <2>6. CASE AdvanceRd BY <2>6 DEF AdvanceRd
  <2>7. CASE ProcessReset BY <2>7 DEF ProcessReset
  <2>8. CASE ClearReset BY <2>8 DEF ClearReset
  <2> QED BY <1>5, <2>1, <2>2, <2>3, <2>4, <2>5, <2>6, <2>7, <2>8 DEF Loop
<1>6. CASE UNCHANGED vars
  BY <1>6 DEF vars, ReadsWhole, FifoEmpty
<1> QED BY <1>2, <1>3, <1>4, <1>5, <1>6 DEF Next, Wire

THEOREM LoopReadsWholeSlots == Spec => []ReadsWhole
<1>1. Init => ReadsWhole
  BY DEF Init, ReadsWhole, PcStates
<1>2. QED BY <1>1, ReadsWholeStep, TypeCorrect, PTL DEF Spec

-----------------------------------------------------------------------------
(* The clock agrees with the wire until it has turned once. *)
LEMMA ClockStep == TypeOK /\ ClockInv /\ [Next]_vars => ClockInv'
<1> SUFFICES ASSUME TypeOK, ClockInv, [Next]_vars PROVE ClockInv'
  OBVIOUS
<1>1. ASSUME NEW d \in Gaps, SckEdge(d) PROVE ClockInv'
  BY <1>1 DEF SckEdge, Clock, ClockInv, After, TypeOK
<1>2. ASSUME NEW d \in Gaps, LoseEdge(d) PROVE ClockInv'
  <2>1. /\ now' = After(now, d)
        /\ quiet' = quiet + d
        /\ last_us' = last_us
    BY <1>2 DEF LoseEdge, Clock
  <2>2. d \in 1 .. TimeMod
    OBVIOUS
  <2> QED BY <2>1, <2>2 DEF ClockInv, After, TypeOK
<1>3. CASE ResetEdge
  BY <1>3 DEF ResetEdge, ClockInv
<1>4. CASE Loop
  BY <1>4 DEF Loop, Enter, Test, Check, ReadIn, ReadOut, AdvanceRd,
              ProcessReset, ClearReset, wire_vars, ClockInv
<1>5. CASE UNCHANGED vars
  BY <1>5 DEF vars, ClockInv
<1> QED BY <1>1, <1>2, <1>3, <1>4, <1>5 DEF Next, Wire

(* A pause that counts as measurable on the wire is measured as such by    *)
(* the handler.                                                            *)
LEMMA PauseIsMeasured ==
  ASSUME TypeOK, ClockInv, NEW d \in Gaps,
         last_us # 0, quiet + d > MaxSckDelay, quiet + d < TimeMod
  PROVE  Since(After(now, d), last_us) > MaxSckDelay
<1>1. now = After(last_us, quiet)
  BY DEF ClockInv, TypeOK
<1> QED BY <1>1 DEF After, Since, TypeOK

(* With no pause longer than MaxSckDelay the handler measures none.        *)
LEMMA NoPauseNoGap ==
  ASSUME TypeOK, ClockInv, NEW d \in Gaps, quiet + d <= MaxSckDelay
  PROVE  ~MidByteGap(After(now, d))
<1>1. CASE last_us = 0
  BY <1>1 DEF MidByteGap
<1>2. CASE last_us # 0
  <2>1. now = After(last_us, quiet)
    BY <1>2 DEF ClockInv, TypeOK
  <2> QED BY <2>1 DEF After, Since, MidByteGap, TypeOK
<1> QED BY <1>1, <1>2

(* What one edge does to the framing: in step before and after, the bit    *)
(* takes its place behind those of its byte; brought into step by a pause, *)
(* it is the first bit of a new word.                                      *)
LEMMA EdgeFramed ==
  ASSUME TypeOK, ClockInv, Framed, NEW d \in Gaps, SckEdge(d), synced'
  PROVE  \/ /\ ~MidByteGap(After(now, d))
            /\ byte_len = wire.pos
            /\ \A i \in 1 .. byte_len :
                 acc[ByteBits - byte_len + i] = << wire.byte, i - 1 >>
         \/ /\ MidByteGap(After(now, d))
            /\ wire.pos = 0
            /\ ~synced
<1>1. SyncAfter(d)
  BY DEF SckEdge
<1>2. CASE wire.pos = 0 /\ synced
  <2>1. byte_len = 0
    BY <1>2 DEF Framed
  <2> QED BY <2>1, <1>2 DEF MidByteGap, Framed
<1>3. CASE wire.pos = 0 /\ ~synced
  <2>1. last_us # 0 /\ quiet + d > MaxSckDelay /\ quiet + d < TimeMod
    BY <1>1, <1>3 DEF SyncAfter
  <2>2. Since(After(now, d), last_us) > MaxSckDelay
    BY <2>1, PauseIsMeasured
  <2>3. CASE byte_len = 0
    BY <1>3, <2>3 DEF MidByteGap
  <2>4. CASE byte_len # 0
    BY <1>3, <2>1, <2>2, <2>4 DEF MidByteGap, TypeOK
  <2> QED BY <2>3, <2>4
<1>4. CASE wire.pos # 0
  <2>1. synced /\ quiet + d <= MaxSckDelay
    BY <1>1, <1>4 DEF SyncAfter
  <2> QED BY <2>1, NoPauseNoGap DEF Framed
<1> QED BY <1>2, <1>3, <1>4 DEF TypeOK

(* Framing is preserved by every step. *)
LEMMA FramedStep ==
  TypeOK /\ ClockInv /\ Framed /\ [Next]_vars => Framed'
<1> SUFFICES ASSUME TypeOK, ClockInv, Framed, [Next]_vars, synced'
             PROVE  /\ byte_len' = wire'.pos
                    /\ \A i \in 1 .. byte_len' :
                         acc'[ByteBits - byte_len' + i] = << wire'.byte, i - 1 >>
  BY DEF Framed
<1>1. ASSUME NEW d \in Gaps, SckEdge(d)
      PROVE  /\ byte_len' = wire'.pos
             /\ \A i \in 1 .. byte_len' :
                  acc'[ByteBits - byte_len' + i] = << wire'.byte, i - 1 >>
  <2> DEFINE t == After(now, d)
             b == << wire.byte, wire.pos >>
  <2>1. wire' = Advance(wire)
    BY <1>1 DEF SckEdge, Clock
  <2>2. CASE MidByteGap(t)
    <3>1. wire.pos = 0
      BY <1>1, <2>2, EdgeFramed
    <3>2. byte_len' = 1 /\ acc' = Shift(EofHalf, b)
      BY <1>1, <2>2 DEF SckEdge
    <3>3. acc'[ByteBits] = << wire.byte, 0 >>
      BY <3>1, <3>2 DEF Shift
    <3>4. wire'.pos = 1 /\ wire'.byte = wire.byte
      BY <2>1, <3>1 DEF Advance, TypeOK
    <3> QED BY <3>2, <3>3, <3>4
  <2>3. CASE ~MidByteGap(t)
    <3>1. /\ byte_len = wire.pos
          /\ \A i \in 1 .. byte_len :
               acc[ByteBits - byte_len + i] = << wire.byte, i - 1 >>
      BY <1>1, <2>3, EdgeFramed
    <3>2. acc' = Shift(acc, b)
      BY <1>1, <2>3 DEF SckEdge
    <3>3. CASE byte_len + 1 >= ByteBits
      <4>1. byte_len' = 0
        BY <1>1, <2>3, <3>3 DEF SckEdge, TypeOK
      <4>2. wire'.pos = 0
        BY <2>1, <3>1, <3>3 DEF Advance, TypeOK
      <4> QED BY <4>1, <4>2
    <3>4. CASE byte_len + 1 < ByteBits
      <4>1. byte_len' = byte_len + 1
        BY <1>1, <2>3, <3>4 DEF SckEdge, TypeOK
      <4>2. wire'.pos = byte_len + 1 /\ wire'.byte = wire.byte
        BY <2>1, <3>1, <3>4 DEF Advance, TypeOK
      <4>3. ASSUME NEW i \in 1 .. byte_len + 1
            PROVE  acc'[ByteBits - (byte_len + 1) + i] = << wire.byte, i - 1 >>
        <5>1. CASE i = byte_len + 1
          <6>1. /\ ByteBits - (byte_len + 1) + i = ByteBits
                /\ i - 1 = wire.pos
            BY <3>1, <5>1 DEF TypeOK
          <6>2. acc'[ByteBits] = b
            BY <3>2 DEF Shift
          <6> QED BY <6>1, <6>2
        <5>2. CASE i # byte_len + 1
          <6> DEFINE j == ByteBits - (byte_len + 1) + i
          <6>1. i \in 1 .. byte_len /\ j \in 1 .. ByteBits /\ j < ByteBits
                /\ j + 1 = ByteBits - byte_len + i
            BY <3>4, <5>2 DEF TypeOK
          <6>2. acc'[j] = acc[j + 1]
            BY <3>2, <6>1 DEF Shift
          <6> QED BY <3>1, <6>1, <6>2
        <5> QED BY <5>1, <5>2
      <4> QED BY <4>1, <4>2, <4>3
    <3> QED BY <3>3, <3>4 DEF TypeOK
  <2> QED BY <2>2, <2>3
<1>2. ASSUME NEW d \in Gaps, LoseEdge(d) PROVE FALSE
  BY <1>2 DEF LoseEdge
<1>3. CASE ResetEdge
  BY <1>3 DEF ResetEdge, ResetBitCount
<1>4. CASE Loop
  <2>1. UNCHANGED << wire_vars, byte_len, acc >>
    BY <1>4 DEF Loop, Enter, Test, Check, ReadIn, ReadOut, AdvanceRd,
                ProcessReset, ClearReset
  <2> QED BY <2>1 DEF wire_vars, Framed
<1>5. CASE UNCHANGED vars
  BY <1>5 DEF vars, Framed
<1> QED BY <1>1, <1>2, <1>3, <1>4, <1>5 DEF Next, Wire

(* In step with the wire, bit count and accumulators are those of the      *)
(* instrument's current byte.                                              *)
THEOREM CaptureStaysFramed == Spec => []Framed
<1>1. Init => ClockInv /\ Framed
  <2> SUFFICES ASSUME Init PROVE ClockInv /\ Framed
    OBVIOUS
  <2>1. last_us = 0 /\ byte_len = 0 /\ synced = (wire.pos = 0)
    BY DEF Init
  <2>2. synced => byte_len = wire.pos
    BY <2>1
  <2>3. 1 .. byte_len = {}
    BY <2>1
  <2> QED BY <2>1, <2>2, <2>3 DEF ClockInv, Framed
<1>2. QED
  BY <1>1, ClockStep, FramedStep, TypeCorrect, PTL DEF Spec

-----------------------------------------------------------------------------
(* A word appended in step with the wire is one byte of the instrument,    *)
(* or the end of frame that the pause before it called for.                *)
THEOREM AppendedWordsAreBytes == Spec => AppendsWholeBytes
<1> DEFINE P == (fifo_wr' # fifo_wr /\ synced') =>
                  \/ fifo'[fifo_wr] = Pair(WholeByte(wire.byte))
                  \/ ~synced /\ fifo'[fifo_wr] = Pair(EofHalf)
<1>1. TypeOK /\ ClockInv /\ Framed /\ [Next]_vars => [P]_vars
  <2> SUFFICES ASSUME TypeOK, ClockInv, Framed, [Next]_vars,
                      fifo_wr' # fifo_wr, synced'
               PROVE  \/ fifo'[fifo_wr] = Pair(WholeByte(wire.byte))
                      \/ ~synced /\ fifo'[fifo_wr] = Pair(EofHalf)
    OBVIOUS
  <2>1. ASSUME NEW d \in Gaps, SckEdge(d)
        PROVE  \/ fifo'[fifo_wr] = Pair(WholeByte(wire.byte))
               \/ ~synced /\ fifo'[fifo_wr] = Pair(EofHalf)
    <3> DEFINE t == After(now, d)
               b == << wire.byte, wire.pos >>
    <3>1. CASE MidByteGap(t)
      <4>1. ~synced
        BY <2>1, <3>1, EdgeFramed
      <4>2. FifoAppend(EofHalf)
        BY <2>1, <3>1 DEF SckEdge, CloseFrame
      <4> QED BY <4>1, <4>2 DEF FifoAppend, TypeOK
    <3>2. CASE ~MidByteGap(t)
      <4>1. /\ byte_len + 1 >= ByteBits
            /\ FifoAppend(Shift(acc, b))
        BY <2>1, <3>2 DEF SckEdge, fifo_vars
      <4>2. /\ byte_len = wire.pos
            /\ \A i \in 1 .. byte_len :
                 acc[ByteBits - byte_len + i] = << wire.byte, i - 1 >>
        BY <2>1, <3>2, EdgeFramed
      <4>3. byte_len = ByteBits - 1
        BY <4>1 DEF TypeOK
      <4>4. ASSUME NEW i \in 1 .. ByteBits
            PROVE  Shift(acc, b)[i] = << wire.byte, i - 1 >>
        <5>1. CASE i = ByteBits
          BY <4>2, <4>3, <5>1 DEF Shift
        <5>2. CASE i # ByteBits
          <6>1. i \in 1 .. byte_len /\ ByteBits - byte_len + i = i + 1 /\ i < ByteBits
            BY <4>3, <5>2
          <6>2. acc[i + 1] = << wire.byte, i - 1 >>
            BY <4>2, <6>1
          <6> QED BY <6>1, <6>2 DEF Shift
        <5> QED BY <5>1, <5>2
      <4>5. Shift(acc, b) = WholeByte(wire.byte)
        BY <4>4 DEF Shift, WholeByte
      <4> QED BY <4>1, <4>5 DEF FifoAppend, TypeOK
    <3> QED BY <3>1, <3>2
  <2>2. ~(\E d \in Gaps : LoseEdge(d)) /\ ~ResetEdge /\ ~UNCHANGED vars
    BY DEF LoseEdge, ResetEdge, fifo_vars, vars
  <2>3. ~Loop
    BY DEF Loop, Enter, Test, Check, ReadIn, ReadOut, AdvanceRd,
           ProcessReset, ClearReset, fifo_vars
  <2> QED BY <2>1, <2>2, <2>3 DEF Next, Wire
<1>2. Init => ClockInv
  BY DEF Init, ClockInv
<1>3. Spec => [](TypeOK /\ ClockInv /\ Framed)
  BY <1>2, ClockStep, TypeCorrect, CaptureStaysFramed, PTL DEF Spec
<1> QED BY <1>1, <1>3, PTL DEF Spec, AppendsWholeBytes

-----------------------------------------------------------------------------
(* A pause that brings the handler back into step in the middle of a byte  *)
(* is measured by the gap check of decoder34401_sckedge, which closes the  *)
(* damaged frame or counts it lost.                                        *)
THEOREM ResyncCloses == Spec => ResyncClosesFrame
<1> DEFINE P == (synced' /\ ~synced /\ now' # now /\ byte_len # 0) =>
                  \/ overruns' # overruns
                  \/ fifo_wr' # fifo_wr /\ fifo'[fifo_wr] = Pair(EofHalf)
<1>1. TypeOK /\ ClockInv /\ [Next]_vars => [P]_vars
  <2> SUFFICES ASSUME TypeOK, ClockInv, [Next]_vars,
                      synced', ~synced, now' # now, byte_len # 0
               PROVE  \/ overruns' # overruns
                      \/ fifo_wr' # fifo_wr /\ fifo'[fifo_wr] = Pair(EofHalf)
    OBVIOUS
  <2>1. ASSUME NEW d \in Gaps, SckEdge(d)
        PROVE  \/ overruns' # overruns
               \/ fifo_wr' # fifo_wr /\ fifo'[fifo_wr] = Pair(EofHalf)
    <3>1. last_us # 0 /\ quiet + d > MaxSckDelay /\ quiet + d < TimeMod
      BY <2>1 DEF SckEdge, SyncAfter
    <3>2. MidByteGap(After(now, d))
      BY <3>1, PauseIsMeasured DEF MidByteGap, TypeOK
    <3>3. FifoAppend(EofHalf)
      BY <2>1, <3>2 DEF SckEdge, CloseFrame
    <3>4. CASE FifoFull
      BY <3>3, <3>4 DEF FifoAppend, TypeOK
    <3>5. CASE ~FifoFull
      <4>1. Succ(fifo_wr) # fifo_wr
        BY DEF TypeOK, Slots, Succ
      <4> QED BY <3>3, <3>5, <4>1 DEF FifoAppend, TypeOK
    <3> QED BY <3>4, <3>5
  <2>2. ~(\E d \in Gaps : LoseEdge(d)) /\ ~ResetEdge /\ ~UNCHANGED vars
    BY DEF LoseEdge, ResetEdge, vars
  <2>3. ~Loop
    BY DEF Loop, Enter, Test, Check, ReadIn, ReadOut, AdvanceRd,
           ProcessReset, ClearReset, wire_vars
  <2> QED BY <2>1, <2>2, <2>3 DEF Next, Wire
<1>2. Init => ClockInv
  BY DEF Init, ClockInv
<1>3. Spec => [](TypeOK /\ ClockInv)
  BY <1>2, ClockStep, TypeCorrect, PTL DEF Spec
<1> QED BY <1>1, <1>3, PTL DEF Spec, ResyncClosesFrame

-----------------------------------------------------------------------------
(* The filled slots of the ring, as a sequence. *)
LEMMA FilledSeq ==
  ASSUME NEW f \in [Slots -> Word], NEW rd \in Slots, NEW wr \in Slots
  PROVE  /\ Filled(f, rd, wr) \in Seq(Word)
         /\ Len(Filled(f, rd, wr)) = Level(rd, wr)
         /\ Level(rd, wr) \in 0 .. FifoSize - 1
         /\ \A i \in 1 .. Level(rd, wr) :
              /\ SlotAt(rd, i) \in Slots
              /\ Filled(f, rd, wr)[i] = f[SlotAt(rd, i)]
<1>1. Level(rd, wr) \in 0 .. FifoSize - 1
  BY DEF Level, Slots
<1>2. \A i \in 1 .. Level(rd, wr) : SlotAt(rd, i) \in Slots
  BY <1>1 DEF SlotAt, Slots
<1>3. \A i \in 1 .. Level(rd, wr) : f[SlotAt(rd, i)] \in Word
  BY <1>2
<1>4. Filled(f, rd, wr) \in [1 .. Level(rd, wr) -> Word]
  BY <1>3 DEF Filled
<1>5. Filled(f, rd, wr) \in Seq(Word)
  BY <1>1, <1>4, SeqDef
<1>6. Len(Filled(f, rd, wr)) = Level(rd, wr)
  BY <1>1, <1>4, <1>5, LenProperties
<1> QED BY <1>1, <1>2, <1>5, <1>6 DEF Filled

(* Storing a word at wr and moving wr on appends it. *)
LEMMA StoreAppends ==
  ASSUME NEW f \in [Slots -> Word], NEW rd \in Slots, NEW wr \in Slots,
         NEW w \in Word, Succ(wr) # rd
  PROVE  /\ Level(rd, wr) < FifoSize - 1
         /\ Filled([f EXCEPT ![wr] = w], rd, Succ(wr))
              = Append(Filled(f, rd, wr), w)
<1> DEFINE g == [f EXCEPT ![wr] = w]
           n == Level(rd, wr)
           old == Filled(f, rd, wr)
           new == Filled(g, rd, Succ(wr))
           app == Append(old, w)
<1>1. g \in [Slots -> Word] /\ Succ(wr) \in Slots
  BY SuccInSlots
<1>2. n \in 0 .. FifoSize - 1 /\ n < FifoSize - 1 /\ Level(rd, Succ(wr)) = n + 1
  BY DEF Succ, Level, Slots
<1>3. SlotAt(rd, n + 1) = wr
  BY DEF SlotAt, Level, Slots
<1>4. \A i \in 1 .. n : SlotAt(rd, i) # wr
  BY DEF SlotAt, Level, Slots
<1>5. /\ old \in Seq(Word) /\ Len(old) = n
      /\ \A i \in 1 .. n : SlotAt(rd, i) \in Slots /\ old[i] = f[SlotAt(rd, i)]
  BY FilledSeq
<1>6. /\ new \in Seq(Word) /\ Len(new) = n + 1
      /\ \A i \in 1 .. n + 1 : new[i] = g[SlotAt(rd, i)]
  <2> DEFINE wr1 == Succ(wr)
  <2>1. g \in [Slots -> Word] /\ wr1 \in Slots
    BY <1>1
  <2> HIDE DEF g, wr1
  <2>2. /\ Filled(g, rd, wr1) \in Seq(Word)
        /\ Len(Filled(g, rd, wr1)) = Level(rd, wr1)
        /\ \A i \in 1 .. Level(rd, wr1) : Filled(g, rd, wr1)[i] = g[SlotAt(rd, i)]
    BY <2>1, FilledSeq
  <2>3. Level(rd, wr1) = n + 1
    BY <1>2 DEF wr1
  <2> QED BY <2>2, <2>3 DEF wr1
<1>7. /\ app \in Seq(Word) /\ Len(app) = n + 1
      /\ \A i \in 1 .. n : app[i] = old[i]
      /\ app[n + 1] = w
  BY <1>5, AppendProperties
<1> HIDE DEF new, old, app, n
<1>8. ASSUME NEW i \in 1 .. n + 1 PROVE new[i] = app[i]
  <2>1. CASE i = n + 1
    <3>1. new[i] = g[wr]
      BY <1>3, <1>6, <2>1
    <3> QED BY <1>7, <2>1, <3>1
  <2>2. CASE i # n + 1
    <3>1. i \in 1 .. n
      BY <1>2, <2>2
    <3>2. new[i] = f[SlotAt(rd, i)]
      BY <1>4, <1>5, <1>6, <3>1
    <3> QED BY <1>5, <1>7, <3>1, <3>2
  <2> QED BY <2>1, <2>2
<1>9. new = app
  BY <1>6, <1>7, <1>8, SeqEqual
<1> QED BY <1>2, <1>9 DEF new, old, app, n

(* Moving rd on removes the oldest word. *)
LEMMA AdvanceRemoves ==
  ASSUME NEW f \in [Slots -> Word], NEW rd \in Slots, NEW wr \in Slots,
         rd # wr
  PROVE  /\ Filled(f, rd, wr) # << >>
         /\ Head(Filled(f, rd, wr)) = f[rd]
         /\ Filled(f, Succ(rd), wr) = Tail(Filled(f, rd, wr))
<1> DEFINE n == Level(rd, wr)
           old == Filled(f, rd, wr)
           new == Filled(f, Succ(rd), wr)
           tail == Tail(old)
<1>1. Succ(rd) \in Slots
  BY SuccInSlots
<1>2. n \in 1 .. FifoSize - 1 /\ Level(Succ(rd), wr) = n - 1
  BY DEF Succ, Level, Slots
<1>3. SlotAt(rd, 1) = rd
  BY DEF SlotAt, Slots
<1>4. \A i \in 1 .. n - 1 : SlotAt(Succ(rd), i) = SlotAt(rd, i + 1)
  BY <1>2 DEF SlotAt, Succ, Slots
<1>5. /\ old \in Seq(Word) /\ Len(old) = n
      /\ \A i \in 1 .. n : old[i] = f[SlotAt(rd, i)]
  BY FilledSeq
<1>6. /\ new \in Seq(Word) /\ Len(new) = n - 1
      /\ \A i \in 1 .. n - 1 : new[i] = f[SlotAt(Succ(rd), i)]
  <2> DEFINE rd1 == Succ(rd)
  <2>1. rd1 \in Slots
    BY <1>1
  <2> HIDE DEF rd1
  <2>2. /\ Filled(f, rd1, wr) \in Seq(Word)
        /\ Len(Filled(f, rd1, wr)) = Level(rd1, wr)
        /\ \A i \in 1 .. Level(rd1, wr) : Filled(f, rd1, wr)[i] = f[SlotAt(rd1, i)]
    BY <2>1, FilledSeq
  <2>3. Level(rd1, wr) = n - 1
    BY <1>2 DEF rd1
  <2> QED BY <2>2, <2>3 DEF rd1
<1> HIDE DEF new, old, n
<1>7. old # << >> /\ Head(old) = f[rd]
  BY <1>2, <1>3, <1>5
<1>8. /\ tail \in Seq(Word) /\ Len(tail) = n - 1
      /\ \A i \in 1 .. n - 1 : tail[i] = old[i + 1]
  BY <1>5, <1>7, HeadTailProperties
<1> HIDE DEF tail
<1>9. \A i \in 1 .. n - 1 : new[i] = tail[i]
  BY <1>2, <1>4, <1>5, <1>6, <1>8
<1>10. new = tail
  BY <1>6, <1>8, <1>9, SeqEqual
<1> QED BY <1>7, <1>10 DEF new, old, tail

(* One append to the ring is an Arrive or a Refuse of the queue. *)
LEMMA AppendIsPut ==
  ASSUME TypeOK, NEW h \in Half, FifoAppend(h),
         UNCHANGED << fifo_rd, taken, reset_received >>
  PROVE  Q!Arrive \/ Q!Refuse
<1>1. Pair(h) \in Word
  BY DEF Pair, Word
<1>2. /\ Pending \in Seq(Word)
      /\ Len(Pending) = Level(fifo_rd, fifo_wr)
  BY FilledSeq DEF TypeOK, Pending
<1>3. CASE FifoFull
  <2>1. Level(fifo_rd, fifo_wr) = FifoSize - 1
    BY <1>3 DEF FifoFull, Succ, Level, TypeOK, Slots
  <2>2. UNCHANGED << fifo, fifo_wr >> /\ overruns' = overruns + 1
    BY <1>3 DEF FifoAppend
  <2>3. Pending' = Pending
    BY <2>2 DEF Pending
  <2> QED BY <1>2, <2>1, <2>2, <2>3 DEF Q!Refuse
<1>4. CASE ~FifoFull
  <2>1. /\ fifo' = [fifo EXCEPT ![fifo_wr] = Pair(h)]
        /\ fifo_wr' = Succ(fifo_wr)
        /\ overruns' = overruns
    BY <1>4 DEF FifoAppend
  <2>2. /\ Level(fifo_rd, fifo_wr) < FifoSize - 1
        /\ Pending' = Append(Pending, Pair(h))
    BY <1>1, <1>4, <2>1, StoreAppends DEF FifoFull, Pending, TypeOK
  <2>3. Len(Pending') = Len(Pending) + 1 /\ Pending'[Len(Pending')] = Pair(h)
    BY <1>1, <1>2, <2>2, AppendProperties
  <2> QED BY <1>1, <1>2, <2>1, <2>2, <2>3 DEF Q!Arrive, Q!Put
<1> QED BY <1>3, <1>4

(* Advancing fifo_rd is a Take of the queue. *)
LEMMA AdvanceIsTake ==
  ASSUME TypeOK, ReadsWhole, AdvanceRd
  PROVE  Q!Take
<1>1. /\ fifo_rd' = Succ(fifo_rd)
      /\ taken' = local
      /\ UNCHANGED << fifo, fifo_wr, overruns, reset_received >>
  BY DEF AdvanceRd, fifo_vars
<1>2. /\ fifo_rd # fifo_wr
      /\ local.in = fifo[fifo_rd].in
      /\ local.out = fifo[fifo_rd].out
  BY DEF AdvanceRd, ReadsWhole, FifoEmpty
<1>3. local = fifo[fifo_rd]
  BY <1>2 DEF TypeOK, Word
<1>4. /\ Pending # << >>
      /\ Head(Pending) = fifo[fifo_rd]
      /\ Pending' = Tail(Pending)
  BY <1>1, <1>2, AdvanceRemoves DEF TypeOK, Pending
<1> QED BY <1>1, <1>3, <1>4 DEF Q!Take

(* A step that leaves the queue's variables alone. *)
LEMMA QueueStutter ==
  ASSUME UNCHANGED << fifo_vars, fifo_rd, taken, reset_received >>
  PROVE  UNCHANGED Q!qvars
BY DEF fifo_vars, Q!qvars, Pending

LEMMA ResetHeldStep == ResetHeld /\ [Next]_vars => ResetHeld'
BY DEF ResetHeld, Next, Wire, Loop, vars, SckEdge, LoseEdge, ResetEdge, Enter,
       Test, Check, ReadIn, ReadOut, AdvanceRd, ProcessReset, ClearReset,
       loop_vars

(* Every step of the ring maps to a step of the queue or to none. *)
LEMMA StepRefines ==
  TypeOK /\ ReadsWhole /\ ResetHeld /\ [Next]_vars
    => [Q!QNext]_(Q!qvars)
<1> SUFFICES ASSUME TypeOK, ReadsWhole, ResetHeld, [Next]_vars
             PROVE  [Q!QNext]_(Q!qvars)
  OBVIOUS
<1>1. ASSUME NEW d \in Gaps, SckEdge(d) PROVE [Q!QNext]_(Q!qvars)
  <2>1. UNCHANGED << fifo_rd, taken, reset_received >>
    BY <1>1 DEF SckEdge, loop_vars
  <2>2. << wire.byte, wire.pos >> \in Bit
    BY <1>1 DEF SckEdge, Clock, TypeOK, Bit
  <2>3. Shift(acc, << wire.byte, wire.pos >>) \in Half
    BY <2>2, ShiftType DEF TypeOK
  <2>4. CASE UNCHANGED fifo_vars
    BY <2>1, <2>4, QueueStutter
  <2>5. ASSUME NEW h \in Half, FifoAppend(h) PROVE [Q!QNext]_(Q!qvars)
    BY <2>1, <2>5, AppendIsPut DEF Q!QNext
  <2> QED BY <1>1, <2>3, <2>4, <2>5, HalfConstants DEF SckEdge, CloseFrame
<1>2. ASSUME NEW d \in Gaps, LoseEdge(d) PROVE [Q!QNext]_(Q!qvars)
  BY <1>2, QueueStutter DEF LoseEdge, loop_vars
<1>3. CASE ResetEdge
  <2>1. Pending' = Pending /\ UNCHANGED << taken, overruns >> /\ reset_received' = TRUE
    BY <1>3 DEF ResetEdge, fifo_vars, loop_vars, Pending
  <2> QED BY <2>1 DEF Q!RaiseReset, Q!QNext
<1>4. CASE AdvanceRd
  BY <1>4, AdvanceIsTake DEF Q!QNext
<1>5. CASE ClearReset
  <2>1. Pending' = Pending /\ UNCHANGED << taken, overruns >>
    BY <1>5 DEF ClearReset, fifo_vars, Pending
  <2>2. reset_received /\ reset_received' = FALSE
    BY <1>5 DEF ClearReset, ResetHeld, AfterReset
  <2> QED BY <2>1, <2>2 DEF Q!AnswerReset, Q!QNext
<1>6. CASE Enter \/ Test \/ Check \/ ReadIn \/ ReadOut \/ ProcessReset
  <2>1. UNCHANGED << fifo_vars, fifo_rd, taken, reset_received >>
    BY <1>6 DEF Enter, Test, Check, ReadIn, ReadOut, ProcessReset
  <2> QED BY <2>1, QueueStutter
<1>7. CASE UNCHANGED vars
  <2>1. UNCHANGED << fifo_vars, fifo_rd, taken, reset_received >>
    BY <1>7 DEF vars, fifo_vars
  <2> QED BY <2>1, QueueStutter
<1> QED BY <1>1, <1>2, <1>3, <1>4, <1>5, <1>6, <1>7 DEF Next, Wire, Loop

(* The ring, its two indices and the handlers that share them implement    *)
(* the abstract queue.                                                     *)
THEOREM RingImplementsQueue == Spec => ImplementsQueue
<1>1. Init => Q!QInit
  <2> SUFFICES ASSUME Init PROVE Q!QInit
    OBVIOUS
  <2>1. Level(fifo_rd, fifo_wr) = 0
    BY DEF Init, Level
  <2>2. 1 .. Level(fifo_rd, fifo_wr) = {}
    BY <2>1
  <2>3. Pending = << >>
    BY <2>2 DEF Pending, Filled
  <2> QED BY <2>3 DEF Init, Q!QInit
<1>2. Init => ResetHeld
  BY DEF Init, ResetHeld
<1>3. Spec => [](TypeOK /\ ReadsWhole /\ ResetHeld)
  BY <1>2, ResetHeldStep, TypeCorrect, LoopReadsWholeSlots, PTL DEF Spec
<1> QED BY <1>1, <1>3, StepRefines, PTL DEF Spec, ImplementsQueue, Q!QSpec

=============================================================================
