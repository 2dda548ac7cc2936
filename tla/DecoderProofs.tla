----------------------------- MODULE DecoderProofs -----------------------------
(***************************************************************************)
(* Proofs about the frame parser, for any frames the instrument may send,  *)
(* any sizes of the buffers and any number of faults and resets.  The      *)
(* operators a frame is decoded with are taken first, each on its own;     *)
(* ParserInv is inductive: the working half of dmm_context_t is within its *)
(* arrays, its flags are those of the text that was published with them,   *)
(* and the SHIFT bit has the parity of the presses.                        *)
(***************************************************************************)
EXTENDS Decoder, SequenceTheorems, FiniteSetTheorems, TLAPS

NulText == {t \in Text : t[DispLen - 1] = 0}

(* The fields no index or flag depends on may hold anything.               *)
IsDmm(d) ==
  d \in [main : NulText, last_reading : NulText, ann_state : {d.ann_state}, bar : {d.bar},
         bar_style : {d.bar_style}, blink_mask : {d.blink_mask},
         new_data_counter : 0 .. CountMod - 1]

IsMsg(m) ==
  m \in [work : NulText, idx : 0 .. DispLen - 1, blink : {m.blink}, need_reset : BOOLEAN,
         corrupt : BOOLEAN, menu : BOOLEAN, valid : BOOLEAN]

FrameWith(lengths) ==
  [state : FrameStates, in : [0 .. BufSize - 1 -> Byte], out : [0 .. BufSize - 1 -> Byte],
   len : lengths]
IsFrame(f) == f \in FrameWith(0 .. BufSize - 1)
IsShift(s) == s \in [active : BOOLEAN, age : Nat, count : 0 .. PressMod - 1]

(* The flags of a text: raised only once it is published, and then true    *)
Flagged(m) ==
  /\ m.valid => m.need_reset /\ ValidReading(m.work) /\ ~m.corrupt
  /\ m.menu => m.need_reset /\ InMenu(m.work) /\ ~m.corrupt
FlagInv ==
  /\ Flagged(msg)
  /\ msg.valid \/ msg.menu => dmm.main = msg.work
  /\ dmm.last_reading[0] # 0 => ValidReading(dmm.last_reading)

Shapes ==
  /\ queue \in Seq(Word) /\ sending \in Seq(Word)
  /\ IsDmm(dmm) /\ IsFrame(frame) /\ IsMsg(msg) /\ IsShift(shift)
  /\ odd \in BOOLEAN

ParserInv == Shapes /\ FlagInv /\ ShiftParity

CountedStep == dmm' # dmm => dmm'.new_data_counter # dmm.new_data_counter

-----------------------------------------------------------------------------
(* Counting up by one, in a counter that wraps                             *)
LEMMA WrapsAtEnd ==
  ASSUME NEW M \in Nat, M > 1, NEW c \in 0 .. M - 1
  PROVE  (c + 1) % M = IF c + 1 = M THEN 0 ELSE c + 1
<1>1. CASE c + 1 = M
  BY <1>1
<1>2. CASE c + 1 # M
  BY <1>2
<1> QED BY <1>1, <1>2

LEMMA CountedOnce ==
  ASSUME NEW d, IsDmm(d)
  PROVE  /\ IsDmm(Counted(d, 1))
         /\ Counted(d, 1).main = d.main /\ Counted(d, 1).last_reading = d.last_reading
         /\ Counted(d, 1).ann_state = d.ann_state
         /\ Counted(d, 1).new_data_counter
              = IF d.new_data_counter + 1 = CountMod THEN 0 ELSE d.new_data_counter + 1
<1>1. d.new_data_counter \in 0 .. CountMod - 1 /\ CountMod \in Nat /\ CountMod > 1
  BY DecoderAssumption DEF IsDmm
<1> DEFINE n == (d.new_data_counter + 1) % CountMod
<1>2. n = IF d.new_data_counter + 1 = CountMod THEN 0 ELSE d.new_data_counter + 1
  BY <1>1, WrapsAtEnd
<1>3. n \in 0 .. CountMod - 1
  BY <1>1, <1>2
<1>4. Counted(d, 1) = [d EXCEPT !.new_data_counter = n]
  BY DEF Counted
<1> HIDE DEF n
<1> QED BY <1>2, <1>3, <1>4 DEF IsDmm

LEMMA BlanksEndInNul == Blanks \in NulText /\ ResetScreen \in NulText
<1>1. \A i \in 0 .. DispLen - 1 : i < Len(ResetText) => ResetText[i + 1] \in Byte
  <2>1. ASSUME NEW i \in 0 .. DispLen - 1, i < Len(ResetText) PROVE ResetText[i + 1] \in Byte
    <3>1. ResetText \in Seq(32 .. 126) /\ Len(ResetText) \in Nat
      BY DecoderAssumption
    <3>2. i + 1 \in 1 .. Len(ResetText)
      BY <2>1, <3>1, DecoderAssumption
    <3>3. ResetText[i + 1] \in 32 .. 126
      BY <3>1, <3>2, ElementOfSeq
    <3> QED BY <3>3 DEF Byte
  <2> QED BY <2>1
<1>2. ResetScreen \in Text
  BY <1>1, DecoderAssumption DEF ResetScreen, Text, Byte
<1>3. ResetScreen[DispLen - 1] = 0
  BY DecoderAssumption DEF ResetScreen
<1>4. Blanks \in NulText
  BY DecoderAssumption DEF Blanks, NulText, Text, Byte
<1> QED BY <1>2, <1>3, <1>4 DEF NulText

-----------------------------------------------------------------------------
(* Messages.                                                               *)
LEMMA FreshIsMsg ==
  ASSUME NEW m, IsMsg(m), Flagged(m)
  PROVE  IsMsg(Fresh(m)) /\ ~Fresh(m).need_reset /\ ~Fresh(m).valid /\ ~Fresh(m).menu
<1>1. CASE m.need_reset
  BY <1>1, BlanksEndInNul, DecoderAssumption DEF Fresh, IsMsg
<1>2. CASE ~m.need_reset
  BY <1>2 DEF Fresh, IsMsg, Flagged
<1> QED BY <1>1, <1>2

LEMMA PutCIsMsg ==
  ASSUME NEW m, IsMsg(m), NEW c \in Byte, ~m.need_reset /\ ~m.valid /\ ~m.menu
  PROVE  IsMsg(PutC(m, c)) /\ ~PutC(m, c).need_reset /\ ~PutC(m, c).valid /\ ~PutC(m, c).menu
<1>1. CASE m.idx >= DispLen - 1
  BY <1>1 DEF PutC
<1>2. CASE ~(m.idx >= DispLen - 1)
  <2> DEFINE put == IF IsPrint(c) THEN c ELSE 32
             text == [m.work EXCEPT ![m.idx] = put]
  <2>1. put \in Byte /\ m.idx \in 0 .. DispLen - 1 /\ m.work \in Text /\ m.idx # DispLen - 1
    BY <1>2 DEF Byte, IsMsg, NulText
  <2>2. text \in Text /\ text[DispLen - 1] = 0
    BY <2>1, DecoderAssumption DEF Text, IsMsg, NulText
  <2>3. m.idx + 1 \in 0 .. DispLen - 1
    BY <1>2, <2>1, DecoderAssumption
  <2>4. PutC(m, c) = [m EXCEPT !.work = text, !.idx = @ + 1, !.corrupt = @ \/ ~IsPrint(c)]
    BY <1>2 DEF PutC, IsMsg
  <2>5. (m.corrupt \/ ~IsPrint(c)) \in BOOLEAN
    BY DEF IsMsg
  <2> HIDE DEF put, text
  <2>6. text \in NulText
    BY <2>2 DEF NulText
  <2> QED BY <2>3, <2>4, <2>5, <2>6 DEF IsMsg
<1> QED BY <1>1, <1>2

LEMMA MessageByteIsMsg ==
  ASSUME NEW m, IsMsg(m), Flagged(m), NEW b \in Byte
  PROVE  IsMsg(MessageByte(m, b)) /\ Flagged(MessageByte(m, b))
         /\ ~MessageByte(m, b).valid /\ ~MessageByte(m, b).menu
<1> DEFINE new == Fresh(m)
           marked == IF BlinksPrevious(b) /\ new.idx > 0
                     THEN [new EXCEPT !.blink = @ \cup {new.idx - 1}] ELSE new
<1>1. IsMsg(new) /\ ~new.need_reset /\ ~new.valid /\ ~new.menu
  BY FreshIsMsg
<1>2. CharOf(b) \in Byte
  BY DEF CharOf, Byte
<1>3. MessageByte(m, b) = IF Ignored(b) THEN new ELSE PutC(marked, CharOf(b))
  BY DEF MessageByte
<1> HIDE DEF new
<1>4. IsMsg(marked) /\ ~marked.need_reset /\ ~marked.valid /\ ~marked.menu
  BY <1>1 DEF IsMsg
<1> HIDE DEF marked
<1>5. IsMsg(PutC(marked, CharOf(b))) /\ ~PutC(marked, CharOf(b)).need_reset
      /\ ~PutC(marked, CharOf(b)).valid /\ ~PutC(marked, CharOf(b)).menu
  BY <1>2, <1>4, PutCIsMsg
<1> QED BY <1>1, <1>3, <1>5 DEF Flagged

(* The end of a message: what Classify flags is true of the text.          *)
LEMMA ClassifyFlags ==
  ASSUME NEW m, IsMsg(m), Flagged(m)
  PROVE  /\ IsMsg(Classify(m)) /\ Classify(m).work = m.work
         /\ Classify(m).valid => ValidReading(m.work) /\ ~Classify(m).corrupt
         /\ Classify(m).menu => InMenu(m.work) /\ ~Classify(m).corrupt
<1>1. CASE m.corrupt
  BY <1>1 DEF Classify, Flagged
<1>2. CASE ~m.corrupt /\ ValidReading(m.work)
  <2>1. Classify(m) = [m EXCEPT !.valid = TRUE]
    BY <1>2 DEF Classify
  <2> QED BY <1>2, <2>1 DEF IsMsg, Flagged
<1>3. CASE ~m.corrupt /\ ~ValidReading(m.work) /\ InMenu(m.work)
  <2>1. Classify(m) = [m EXCEPT !.menu = TRUE]
    BY <1>3 DEF Classify
  <2> QED BY <1>3, <2>1 DEF IsMsg, Flagged
<1>4. CASE ~m.corrupt /\ ~ValidReading(m.work) /\ ~InMenu(m.work) /\ TextDisplay(m.work)
  <2>1. Classify(m) = m
    BY <1>4 DEF Classify
  <2> QED BY <1>4, <2>1 DEF Flagged
<1>5. CASE ~m.corrupt /\ ~ValidReading(m.work) /\ ~InMenu(m.work) /\ ~TextDisplay(m.work)
  <2>1. Classify(m) = [m EXCEPT !.corrupt = TRUE]
    BY <1>5 DEF Classify
  <2>2. ~m.valid /\ ~m.menu
    BY <1>5 DEF Flagged
  <2> QED BY <2>1, <2>2 DEF IsMsg
<1> QED BY <1>1, <1>2, <1>3, <1>4, <1>5

LEMMA PublishedIsDmm ==
  ASSUME NEW d, IsDmm(d), NEW m, IsMsg(m), NEW in
  PROVE  LET p == WithBar(Publish(d, m), in)
         IN /\ IsDmm(p) /\ p.main = m.work /\ p.ann_state = d.ann_state
            /\ p.last_reading = IF m.valid THEN m.work ELSE d.last_reading
            /\ p.new_data_counter # d.new_data_counter
<1> DEFINE e == [d EXCEPT !.main = m.work,
                          !.last_reading = IF m.valid THEN m.work ELSE @,
                          !.blink_mask = m.blink]
           p == Publish(d, m)
<1>1. /\ IsDmm(e) /\ e.main = m.work /\ e.ann_state = d.ann_state
      /\ e.last_reading = IF m.valid THEN m.work ELSE d.last_reading
      /\ e.new_data_counter = d.new_data_counter
  BY DEF IsDmm, IsMsg
<1>2. p = Counted(e, 1)
  BY DEF Publish
<1>3. d.new_data_counter \in 0 .. CountMod - 1 /\ CountMod \in Nat /\ CountMod > 2
  BY DecoderAssumption DEF IsDmm
<1> HIDE DEF e, p
<1>4. /\ IsDmm(p) /\ p.main = m.work /\ p.ann_state = d.ann_state
      /\ p.last_reading = IF m.valid THEN m.work ELSE d.last_reading
      /\ p.new_data_counter
           = IF d.new_data_counter + 1 = CountMod THEN 0 ELSE d.new_data_counter + 1
  BY <1>1, <1>2, CountedOnce
<1> DEFINE q == [p EXCEPT !.bar_style = BarStyle(in), !.bar = BarValue(in)]
<1>5. /\ IsDmm(q) /\ q.main = p.main /\ q.ann_state = p.ann_state
      /\ q.last_reading = p.last_reading /\ q.new_data_counter = p.new_data_counter
  BY <1>4 DEF IsDmm
<1>6. WithBar(p, in) \in {p, Counted(q, 1)}
  BY DEF WithBar
<1> HIDE DEF q
<1>7. CASE WithBar(p, in) = p
  BY <1>3, <1>4, <1>7 DEF p
<1>8. CASE WithBar(p, in) = Counted(q, 1)
  <2>1. /\ IsDmm(Counted(q, 1)) /\ Counted(q, 1).main = m.work
        /\ Counted(q, 1).ann_state = d.ann_state
        /\ Counted(q, 1).last_reading = IF m.valid THEN m.work ELSE d.last_reading
        /\ Counted(q, 1).new_data_counter
             = IF p.new_data_counter + 1 = CountMod THEN 0 ELSE p.new_data_counter + 1
    BY <1>4, <1>5, CountedOnce
  <2>2. Counted(q, 1).new_data_counter # d.new_data_counter
    BY <1>3, <1>4, <2>1
  <2> QED BY <1>8, <2>1, <2>2 DEF p
<1> QED BY <1>6, <1>7, <1>8

LEMMA AnnunciatorsAreDmm ==
  ASSUME NEW d, IsDmm(d), NEW h, NEW l
  PROVE  LET p == PublishAnnunciators(d, h, l)
         IN /\ IsDmm(p) /\ p.main = d.main /\ p.last_reading = d.last_reading
            /\ (SHIFT \in p.ann_state <=> SHIFT \in d.ann_state)
            /\ p # d => p.new_data_counter # d.new_data_counter
<1> DEFINE new == KeepShift(d, BitsOf(h, l))
           e == [d EXCEPT !.ann_state = new]
<1>1. SHIFT \in new <=> SHIFT \in d.ann_state
  BY DEF KeepShift
<1> HIDE DEF new
<1>2. /\ IsDmm(e) /\ e.main = d.main /\ e.last_reading = d.last_reading /\ e.ann_state = new
      /\ e.new_data_counter = d.new_data_counter
  BY DEF IsDmm
<1>3. PublishAnnunciators(d, h, l) = IF new # d.ann_state THEN Counted(e, 1) ELSE d
  BY DEF PublishAnnunciators, new
<1>4. d.new_data_counter \in 0 .. CountMod - 1 /\ CountMod \in Nat /\ CountMod > 2
  BY DecoderAssumption DEF IsDmm
<1> HIDE DEF e
<1>5. /\ IsDmm(Counted(e, 1)) /\ Counted(e, 1).main = d.main
      /\ Counted(e, 1).last_reading = d.last_reading /\ Counted(e, 1).ann_state = new
      /\ Counted(e, 1).new_data_counter
           = IF d.new_data_counter + 1 = CountMod THEN 0 ELSE d.new_data_counter + 1
  BY <1>2, CountedOnce
<1>6. Counted(e, 1).new_data_counter # d.new_data_counter
  BY <1>4, <1>5
<1> QED BY <1>1, <1>3, <1>5, <1>6

(* The other changes of what is published, each counted once.              *)
LEMMA ChangedIsDmm ==
  ASSUME NEW d, IsDmm(d), NEW e, IsDmm(e), e.new_data_counter = d.new_data_counter
  PROVE  /\ IsDmm(Counted(e, 1)) /\ Counted(e, 1).main = e.main
         /\ Counted(e, 1).last_reading = e.last_reading
         /\ Counted(e, 1).ann_state = e.ann_state
         /\ Counted(e, 1).new_data_counter # d.new_data_counter
<1>1. d.new_data_counter \in 0 .. CountMod - 1 /\ CountMod \in Nat /\ CountMod > 2
  BY DecoderAssumption DEF IsDmm
<1>2. /\ IsDmm(Counted(e, 1)) /\ Counted(e, 1).main = e.main
      /\ Counted(e, 1).last_reading = e.last_reading
      /\ Counted(e, 1).ann_state = e.ann_state
      /\ Counted(e, 1).new_data_counter
           = IF d.new_data_counter + 1 = CountMod THEN 0 ELSE d.new_data_counter + 1
  BY CountedOnce
<1> QED BY <1>1, <1>2

LEMMA ControlIsDmm ==
  ASSUME NEW d, IsDmm(d), NEW f
  PROVE  LET p == DecodeControl(d, f)
         IN /\ IsDmm(p) /\ p.main = d.main /\ p.last_reading = d.last_reading
            /\ p.ann_state = d.ann_state
            /\ p # d => p.new_data_counter # d.new_data_counter
<1>1. PICK blink : DecodeControl(d, f) \in {d, Counted([d EXCEPT !.blink_mask = blink], 1)}
  BY DEF DecodeControl
<1> DEFINE e == [d EXCEPT !.blink_mask = blink]
<1>2. /\ IsDmm(e) /\ e.main = d.main /\ e.last_reading = d.last_reading
      /\ e.ann_state = d.ann_state /\ e.new_data_counter = d.new_data_counter
  BY DEF IsDmm
<1>3. DecodeControl(d, f) \in {d, Counted(e, 1)}
  BY <1>1
<1> HIDE DEF e
<1> QED BY <1>2, <1>3, ChangedIsDmm

Annunciated(d, bits) == Counted([d EXCEPT !.ann_state = bits], 1)

LEMMA ShiftedIsDmm ==
  ASSUME NEW d, IsDmm(d), NEW bits
  PROVE  /\ IsDmm(Annunciated(d, bits)) /\ Annunciated(d, bits).main = d.main
         /\ Annunciated(d, bits).last_reading = d.last_reading
         /\ Annunciated(d, bits).ann_state = bits
         /\ Annunciated(d, bits).new_data_counter # d.new_data_counter
<1> DEFINE e == [d EXCEPT !.ann_state = bits]
<1>1. /\ IsDmm(e) /\ e.main = d.main /\ e.last_reading = d.last_reading
      /\ e.ann_state = bits /\ e.new_data_counter = d.new_data_counter
  BY DEF IsDmm
<1>2. Annunciated(d, bits) = Counted(e, 1)
  BY DEF Annunciated
<1> HIDE DEF e
<1> QED BY <1>1, <1>2, ChangedIsDmm

(* A press of SHIFT changes the parity, also where the counter wraps.      *)
LEMMA PressIsShift ==
  ASSUME NEW s, IsShift(s)
  PROVE  /\ IsShift(PressShift(s)) /\ IsShift(NoWindow)
         /\ (PressShift(s).active /\ PressShift(s).count % 2 = 1)
              = ~(s.active /\ s.count % 2 = 1)
         /\ ~NoWindow.active
<1>1. PressMod \in Nat /\ PressMod >= 2 /\ PressMod % 2 = 0 /\ s.count \in 0 .. PressMod - 1
  BY DecoderAssumption DEF IsShift
<1>2. IsShift(NoWindow) /\ ~NoWindow.active
  BY <1>1 DEF NoWindow, IsShift
<1>3. CASE s.active
  <2> DEFINE n == (s.count + 1) % PressMod
  <2>1. n = IF s.count + 1 = PressMod THEN 0 ELSE s.count + 1
    BY <1>1, WrapsAtEnd
  <2>2. PressShift(s) = [s EXCEPT !.count = n, !.age = 0]
    BY <1>3 DEF PressShift, IsShift
  <2>3. n \in 0 .. PressMod - 1 /\ (n % 2 = 1 <=> ~(s.count % 2 = 1))
    BY <1>1, <2>1
  <2> HIDE DEF n
  <2>4. PressShift(s).active = s.active /\ PressShift(s).count = n
    BY <2>2 DEF IsShift
  <2>5. PressShift(s) \in [active : BOOLEAN, age : Nat, count : 0 .. PressMod - 1]
    <3> DEFINE Counts == 0 .. PressMod - 1
    <3>1. s \in [active : BOOLEAN, age : Nat, count : Counts] /\ n \in Counts
      BY <2>3 DEF IsShift
    <3> HIDE DEF Counts
    <3>2. [s EXCEPT !.count = n, !.age = 0] \in [active : BOOLEAN, age : Nat, count : Counts]
      BY <3>1
    <3> QED BY <2>2, <3>2 DEF Counts
  <2> QED BY <1>2, <1>3, <2>3, <2>4, <2>5 DEF IsShift
<1>4. CASE ~s.active
  <2>1. PressShift(s) = [active |-> TRUE, age |-> 0, count |-> 1]
    BY <1>4 DEF PressShift
  <2>2. IsShift(PressShift(s)) /\ PressShift(s).active /\ PressShift(s).count % 2 = 1
    BY <1>1, <2>1 DEF IsShift
  <2> QED BY <1>2, <1>4, <2>2
<1> QED BY <1>3, <1>4 DEF IsShift

-----------------------------------------------------------------------------
(* Frames.                                                                 *)
LEMMA StoredIsFrame ==
  ASSUME NEW f, IsFrame(f), NEW w \in Word
  PROVE  LET g == Stored(f, w)
         IN /\ g \in FrameWith(1 .. BufSize)
            /\ g.in[g.len - 1] = w.in /\ g.out[g.len - 1] = w.out
<1> DEFINE in == [f.in EXCEPT ![f.len] = w.in]
           out == [f.out EXCEPT ![f.len] = w.out]
<1>1. w.in \in Byte /\ w.out \in Byte /\ f.len \in 0 .. BufSize - 1 /\ BufSize \in Nat
  BY DecoderAssumption DEF IsFrame, FrameWith
<1>2. /\ in \in [0 .. BufSize - 1 -> Byte] /\ in[f.len] = w.in
      /\ out \in [0 .. BufSize - 1 -> Byte] /\ out[f.len] = w.out
  BY <1>1 DEF IsFrame, FrameWith
<1>3. Stored(f, w) = [f EXCEPT !.in = in, !.out = out, !.len = f.len + 1]
  BY DEF Stored, IsFrame, FrameWith
<1> HIDE DEF in, out
<1>4. f.len + 1 \in 1 .. BufSize /\ (f.len + 1) - 1 = f.len
  BY <1>1
<1>5. /\ Stored(f, w).len = f.len + 1 /\ Stored(f, w).in = in /\ Stored(f, w).out = out
      /\ Stored(f, w) \in FrameWith(1 .. BufSize)
  BY <1>2, <1>3, <1>4 DEF IsFrame, FrameWith
<1> QED BY <1>2, <1>4, <1>5

LEMMA GuardedIsFrame ==
  ASSUME NEW f \in FrameWith(1 .. BufSize)
  PROVE  /\ IsFrame(Guarded(f)) /\ IsFrame(Ended(f)) /\ Guarded(Ended(f)) = Ended(f)
         /\ Ended(f).len = 0 /\ Ended(f).state = "UNKNOWN"
         /\ IsFrame(Guarded([f EXCEPT !.state = Recognise(f)]))
<1>1. ASSUME NEW g \in FrameWith(1 .. BufSize)
      PROVE  IsFrame(Ended(g)) /\ Ended(g).len = 0 /\ Ended(g).state = "UNKNOWN"
  <2>1. 0 \in 0 .. BufSize - 1 /\ "UNKNOWN" \in FrameStates
    BY DecoderAssumption DEF FrameStates
  <2>2. Ended(g).len = 0 /\ Ended(g).state = "UNKNOWN"
    BY DEF Ended, FrameWith
  <2>3. Ended(g) \in FrameWith(0 .. BufSize - 1)
    BY <2>1 DEF Ended, FrameWith
  <2> QED BY <2>2, <2>3 DEF IsFrame
<1>2. IsFrame(Ended(f)) /\ Ended(f).len = 0 /\ Ended(f).state = "UNKNOWN"
  BY <1>1
<1>3. Guarded(Ended(f)) = Ended(f)
  BY <1>2, DecoderAssumption DEF Guarded
<1>4. ASSUME NEW g \in FrameWith(1 .. BufSize) PROVE IsFrame(Guarded(g))
  <2>2. IsFrame(Ended(g))
    BY <1>1
  <2>3. ~(g.len >= BufSize) => IsFrame(g)
    BY DecoderAssumption DEF IsFrame, FrameWith
  <2> QED BY <2>2, <2>3 DEF Guarded
<1>5. Recognise(f) \in FrameStates
  BY DEF Recognise, FrameStates, FrameWith
<1>6. [f EXCEPT !.state = Recognise(f)] \in FrameWith(1 .. BufSize)
  BY <1>5 DEF FrameWith
<1> QED BY <1>2, <1>3, <1>4, <1>6

(* What one byte does, in each arm of the switch                            *)
Decoded(f) ==
  /\ IsFrame(frame') /\ IsDmm(dmm') /\ IsMsg(msg') /\ IsShift(shift') /\ odd' \in BOOLEAN
  /\ FlagInv' /\ ShiftParity' /\ CountedStep
  /\ LastIsEof(f) => frame' = Ended(f)

LEMMA SkippedByte ==
  ASSUME ParserInv, NEW f \in FrameWith(1 .. BufSize), OnInit(f) \/ OnUnknown(f)
  PROVE  Decoded(f)
<1>1. /\ frame' \in {Ended(f), Guarded(f), Guarded([f EXCEPT !.state = Recognise(f)])}
      /\ LastIsEof(f) => frame' = Ended(f)
  BY GuardedIsFrame DEF OnInit, OnUnknown
<1>2. IsFrame(frame')
  BY <1>1, GuardedIsFrame
<1>3. dmm' = dmm /\ msg' = msg /\ shift' = shift /\ odd' = odd
  BY DEF OnInit, OnUnknown
<1> QED BY <1>1, <1>2, <1>3
     DEF Decoded, ParserInv, Shapes, FlagInv, ShiftParity, CountedStep

LEMMA MessageDecoded ==
  ASSUME ParserInv, NEW f \in FrameWith(1 .. BufSize), OnMessage(f)
  PROVE  Decoded(f)
<1> USE DEF ParserInv, Shapes
<1>1. shift' = shift /\ odd' = odd
  BY DEF OnMessage
<1>2. CASE LastIsEof(f)
  <2> DEFINE m == Classify(msg)
             p == WithBar(Publish(dmm, m), f.in)
  <2>1. dmm' = p /\ msg' = [m EXCEPT !.need_reset = TRUE] /\ frame' = Ended(f)
    BY <1>2 DEF OnMessage
  <2>2. /\ IsMsg(m) /\ m.work = msg.work
        /\ m.valid => ValidReading(msg.work) /\ ~m.corrupt
        /\ m.menu => InMenu(msg.work) /\ ~m.corrupt
    BY ClassifyFlags DEF FlagInv
  <2> HIDE DEF m
  <2>3. /\ IsDmm(p) /\ p.main = m.work /\ p.ann_state = dmm.ann_state
        /\ p.last_reading = IF m.valid THEN m.work ELSE dmm.last_reading
        /\ p.new_data_counter # dmm.new_data_counter
    BY <2>2, PublishedIsDmm
  <2> HIDE DEF p
  <2>4. /\ IsMsg(msg') /\ msg'.work = m.work /\ msg'.need_reset /\ msg'.valid = m.valid
        /\ msg'.menu = m.menu /\ msg'.corrupt = m.corrupt
    BY <2>1, <2>2 DEF IsMsg
  <2>5. FlagInv'
    BY <2>1, <2>2, <2>3, <2>4 DEF FlagInv, Flagged
  <2>6. ShiftParity'
    BY <1>1, <2>1, <2>3 DEF ShiftParity
  <2>7. IsFrame(frame')
    BY <2>1, GuardedIsFrame
  <2> QED BY <1>1, <2>1, <2>3, <2>4, <2>5, <2>6, <2>7 DEF Decoded, CountedStep
<1>3. CASE ~LastIsEof(f)
  <2> DEFINE b == f.in[f.len - 1]
  <2>1. dmm' = dmm /\ msg' = MessageByte(msg, b) /\ frame' = Guarded(f)
    BY <1>3 DEF OnMessage
  <2>2. b \in Byte
    BY DecoderAssumption DEF FrameWith
  <2> HIDE DEF b
  <2>3. IsMsg(msg') /\ Flagged(msg') /\ ~msg'.valid /\ ~msg'.menu
    BY <2>1, <2>2, MessageByteIsMsg DEF FlagInv
  <2>4. FlagInv'
    BY <2>1, <2>3 DEF FlagInv, Flagged
  <2>5. ShiftParity'
    BY <1>1, <2>1 DEF ShiftParity
  <2>6. IsFrame(frame')
    BY <2>1, GuardedIsFrame
  <2> QED BY <1>1, <1>3, <2>1, <2>3, <2>4, <2>5, <2>6 DEF Decoded, CountedStep
<1> QED BY <1>2, <1>3

LEMMA AnnunciatorsDecoded ==
  ASSUME ParserInv, NEW f \in FrameWith(1 .. BufSize), OnAnnunciators(f) \/ OnControl(f)
  PROVE  Decoded(f)
<1> USE DEF ParserInv, Shapes
<1>1. msg' = msg /\ shift' = shift /\ odd' = odd
  BY DEF OnAnnunciators, OnControl
<1>2. frame' = Guarded(f) \/ frame' = Ended(f)
  BY DEF OnAnnunciators, OnControl
<1>3. IsFrame(frame') /\ (LastIsEof(f) => frame' = Ended(f))
  BY <1>2, GuardedIsFrame DEF OnAnnunciators, OnControl
<1>4. \/ dmm' = dmm
      \/ dmm' = PublishAnnunciators(dmm, f.in[3], f.in[2])
      \/ dmm' = DecodeControl(dmm, f)
  BY DEF OnAnnunciators, OnControl
<1>5. /\ IsDmm(dmm') /\ dmm'.main = dmm.main /\ dmm'.last_reading = dmm.last_reading
      /\ (SHIFT \in dmm'.ann_state <=> SHIFT \in dmm.ann_state) /\ CountedStep
  BY <1>4, AnnunciatorsAreDmm, ControlIsDmm DEF CountedStep
<1>6. FlagInv' /\ ShiftParity'
  BY <1>1, <1>5 DEF FlagInv, Flagged, ShiftParity
<1> QED BY <1>1, <1>3, <1>5, <1>6 DEF Decoded

LEMMA ButtonDecoded ==
  ASSUME ParserInv, NEW f \in FrameWith(1 .. BufSize), OnButton(f)
  PROVE  Decoded(f)
<1> USE DEF ParserInv, Shapes
<1>1. msg' = msg /\ (frame' = Guarded(f) \/ frame' = Ended(f))
  BY DEF OnButton
<1>2. IsFrame(frame') /\ (LastIsEof(f) => frame' = Ended(f))
  BY <1>1, GuardedIsFrame DEF OnButton
<1>3. CASE dmm' = dmm /\ shift' = shift /\ odd' = odd
  BY <1>1, <1>2, <1>3 DEF Decoded, FlagInv, ShiftParity, CountedStep
<1>4. CASE shift' = PressShift(shift) /\ odd' = ~odd /\ dmm' = dmm
  <2>1. /\ IsShift(shift')
        /\ (shift'.active /\ shift'.count % 2 = 1) = ~(shift.active /\ shift.count % 2 = 1)
    BY <1>4, PressIsShift
  <2>2. ShiftParity'
    <3> DEFINE on == SHIFT \in dmm.ann_state
               was == shift.active /\ shift.count % 2 = 1
               is == shift'.active /\ shift'.count % 2 = 1
    <3>1. odd = (on # was) /\ odd' = ~odd /\ is = ~was /\ on \in BOOLEAN /\ was \in BOOLEAN
      BY <1>4, <2>1 DEF ShiftParity
    <3>2. ShiftParity' <=> (odd' = (on # is))
      BY <1>4 DEF ShiftParity
    <3> HIDE DEF on, was, is
    <3> QED BY <3>1, <3>2
  <2> QED BY <1>1, <1>2, <1>4, <2>1, <2>2 DEF Decoded, FlagInv, CountedStep
<1>5. CASE shift' = NoWindow /\ dmm' = ClearShift(dmm) /\ odd' = FALSE
  <2>1. IsShift(shift') /\ ~shift'.active
    BY <1>5, PressIsShift
  <2>2. /\ IsDmm(dmm') /\ dmm'.main = dmm.main /\ dmm'.last_reading = dmm.last_reading
        /\ SHIFT \notin dmm'.ann_state /\ CountedStep
    <3>1. CASE SHIFT \in dmm.ann_state
      <4>1. dmm' = Annunciated(dmm, dmm.ann_state \ {SHIFT})
        BY <1>5, <3>1 DEF ClearShift, Annunciated
      <4> QED BY <4>1, ShiftedIsDmm DEF CountedStep
    <3>2. CASE SHIFT \notin dmm.ann_state
      BY <1>5, <3>2 DEF ClearShift, CountedStep
    <3> QED BY <3>1, <3>2
  <2>3. FlagInv'
    BY <1>1, <2>2 DEF FlagInv, Flagged
  <2>4. ShiftParity'
    <3> DEFINE on == SHIFT \in dmm'.ann_state
               is == shift'.active /\ shift'.count % 2 = 1
    <3>1. on = FALSE /\ is = FALSE /\ odd' = FALSE
      BY <1>5, <2>1, <2>2
    <3>2. ShiftParity' <=> (odd' = (on # is))
      BY DEF ShiftParity
    <3> HIDE DEF on, is
    <3> QED BY <3>1, <3>2
  <2>5. odd' \in BOOLEAN
    BY <1>5
  <2> QED BY <1>1, <1>2, <2>1, <2>2, <2>3, <2>4, <2>5 DEF Decoded
<1> QED BY <1>3, <1>4, <1>5 DEF OnButton

LEMMA ByteDecoded ==
  ASSUME ParserInv, DecodeByte
  PROVE  /\ ParserInv' /\ CountedStep
         /\ taken' = Eof => frame'.len = 0 /\ frame'.state = "UNKNOWN"
<1> USE DEF ParserInv, Shapes
<1>1. queue # << >> /\ taken' = Head(queue) /\ queue' = Tail(queue) /\ sending' = sending
  BY DEF DecodeByte, Take, wire_vars
<1>2. taken' \in Word /\ queue' \in Seq(Word)
  BY <1>1, HeadTailProperties
<1> DEFINE f == Stored(frame, taken')
<1>3. OnInit(f) \/ OnUnknown(f) \/ OnMessage(f) \/ OnAnnunciators(f) \/ OnControl(f) \/ OnButton(f)
  BY <1>1 DEF DecodeByte
<1>4. /\ f \in FrameWith(1 .. BufSize)
      /\ f.in[f.len - 1] = taken'.in /\ f.out[f.len - 1] = taken'.out
  BY <1>2, StoredIsFrame
<1>5. taken' = Eof => LastIsEof(f)
  BY <1>4 DEF LastIsEof, FrameWith
<1> HIDE DEF f
<1>6. Decoded(f)
  BY <1>3, <1>4, SkippedByte, MessageDecoded, AnnunciatorsDecoded, ButtonDecoded
<1>7. taken' = Eof => frame'.len = 0 /\ frame'.state = "UNKNOWN"
  BY <1>4, <1>5, <1>6, GuardedIsFrame DEF Decoded
<1>8. Shapes'
  BY <1>1, <1>2, <1>6 DEF Decoded
<1> QED BY <1>6, <1>7, <1>8 DEF Decoded

-----------------------------------------------------------------------------
LEMMA ParserStarts == Init => ParserInv
<1> SUFFICES ASSUME Init PROVE ParserInv
  OBVIOUS
<1> DEFINE nothing == [i \in 0 .. DispLen - 1 |-> 0]
           empty == [i \in 0 .. BufSize - 1 |-> 0]
<1>1. nothing \in NulText /\ nothing[0] = 0
  BY DecoderAssumption DEF NulText, Text, Byte
<1>2. /\ queue = << >> /\ sending \in Tails /\ odd = FALSE
      /\ dmm = [main |-> Blanks, last_reading |-> nothing, ann_state |-> {}, bar |-> 0,
                bar_style |-> 0, blink_mask |-> {}, new_data_counter |-> 0]
      /\ frame = [state |-> "INIT", in |-> empty, out |-> empty, len |-> 0]
      /\ msg = [work |-> Blanks, idx |-> 0, blink |-> {}, need_reset |-> TRUE,
                corrupt |-> FALSE, menu |-> FALSE, valid |-> FALSE]
      /\ shift = [active |-> FALSE, age |-> 0, count |-> 0]
  BY DEF Init, QInit
<1> HIDE DEF nothing
<1>3. queue \in Seq(Word) /\ sending \in Seq(Word)
  <2>1. << >> \in Seq(Word)
    OBVIOUS
  <2>2. \A f \in Tails : f \in Seq(Word)
    BY DecoderAssumption
  <2> QED BY <1>2, <2>1, <2>2
<1>4. IsDmm(dmm)
  BY <1>1, <1>2, BlanksEndInNul, DecoderAssumption DEF IsDmm
<1>5. IsFrame(frame)
  <2>1. empty \in [0 .. BufSize - 1 -> Byte] /\ 0 \in 0 .. BufSize - 1
    BY DecoderAssumption DEF Byte
  <2> HIDE DEF empty
  <2> QED BY <1>2, <2>1 DEF IsFrame, FrameWith, FrameStates
<1>6. IsMsg(msg)
  BY <1>2, BlanksEndInNul, DecoderAssumption DEF IsMsg
<1>7. IsShift(shift) /\ odd \in BOOLEAN
  <2>1. 0 \in 0 .. PressMod - 1
    BY DecoderAssumption
  <2> QED BY <1>2, <2>1 DEF IsShift
<1>8. FlagInv
  BY <1>1, <1>2 DEF FlagInv, Flagged
<1>9. ShiftParity
  <2> DEFINE on == SHIFT \in dmm.ann_state
             is == shift.active /\ shift.count % 2 = 1
  <2>1. on = FALSE /\ is = FALSE /\ odd = FALSE
    BY <1>2
  <2>2. ShiftParity <=> (odd = (on # is))
    BY DEF ShiftParity
  <2> HIDE DEF on, is
  <2> QED BY <2>1, <2>2
<1> QED BY <1>3, <1>4, <1>5, <1>6, <1>7, <1>8, <1>9 DEF ParserInv, Shapes

(* The call of decoder34401_process, when the SHIFT window may end           *)
LEMMA BeginHolds == ASSUME ParserInv, Begin PROVE ParserInv' /\ CountedStep
<1> USE DEF ParserInv, Shapes
<1>1. queue' = queue /\ sending' = sending /\ frame' = frame /\ msg' = msg /\ odd' = odd
  BY DEF Begin, qvars, wire_vars, history
<1>2. CASE shift' = shift /\ dmm' = dmm
  BY <1>1, <1>2 DEF FlagInv, ShiftParity, CountedStep
<1>3. CASE shift.active /\ shift' = NoWindow /\ shift.count % 2 = 1
  <2> DEFINE bits == IF SHIFT \in dmm.ann_state THEN dmm.ann_state \ {SHIFT}
                     ELSE dmm.ann_state \cup {SHIFT}
  <2>1. SHIFT \in bits <=> SHIFT \notin dmm.ann_state
    OBVIOUS
  <2>2. dmm' = Annunciated(dmm, bits)
    <3>1. dmm' = Counted([dmm EXCEPT !.ann_state = bits], 1)
      <4>1. pc = "idle" /\ (shift.age > ShiftWindow \/ ~(shift.age > ShiftWindow))
        BY DEF Begin
      <4>2. shift' # shift
        BY <1>3 DEF NoWindow
      <4>3. dmm' = IF shift.count % 2 = 1
                   THEN Counted([dmm EXCEPT !.ann_state =
                                   IF SHIFT \in @ THEN @ \ {SHIFT} ELSE @ \cup {SHIFT}], 1)
                   ELSE dmm
        BY <4>2 DEF Begin
      <4> QED BY <1>3, <4>3
    <3> QED BY <3>1 DEF Annunciated
  <2> HIDE DEF bits
  <2>3. /\ IsDmm(dmm') /\ dmm'.main = dmm.main /\ dmm'.last_reading = dmm.last_reading
        /\ dmm'.ann_state = bits /\ CountedStep
    BY <2>2, ShiftedIsDmm DEF CountedStep
  <2>4. IsShift(shift') /\ ~shift'.active
    BY <1>3, PressIsShift
  <2>5. ShiftParity'
    BY <1>1, <1>3, <2>1, <2>3, <2>4 DEF ShiftParity
  <2> QED BY <1>1, <2>3, <2>4, <2>5 DEF FlagInv
<1>4. CASE shift.active /\ shift' = NoWindow /\ shift.count % 2 # 1
  <2>1. dmm' = dmm
    BY <1>4 DEF Begin, NoWindow
  <2>2. IsShift(shift') /\ ~shift'.active
    BY <1>4, PressIsShift
  <2>3. ShiftParity'
    BY <1>1, <1>4, <2>1, <2>2 DEF ShiftParity
  <2> QED BY <1>1, <2>1, <2>2, <2>3 DEF FlagInv, CountedStep
<1> QED BY <1>2, <1>3, <1>4 DEF Begin

LEMMA ResetHolds == ASSUME ParserInv, ResetBody PROVE ParserInv' /\ CountedStep
<1> USE DEF ParserInv, Shapes
<1>1. queue' = queue /\ sending' = sending /\ frame' = frame /\ odd' = FALSE
  BY DEF ResetBody, qvars, wire_vars
<1>2. IsShift(shift') /\ ~shift'.active
  BY PressIsShift DEF ResetBody
<1>3. IsMsg(msg') /\ ~msg'.valid /\ ~msg'.menu
  BY DEF ResetBody, IsMsg
<1> DEFINE e == [dmm EXCEPT !.main = ResetScreen, !.ann_state = {}, !.blink_mask = {}]
<1>4. /\ IsDmm(e) /\ e.main = ResetScreen /\ e.last_reading = dmm.last_reading
      /\ e.ann_state = {} /\ e.new_data_counter = dmm.new_data_counter
  BY BlanksEndInNul DEF IsDmm
<1>5. dmm' = Counted(e, 1)
  BY DEF ResetBody
<1> HIDE DEF e
<1>6. /\ IsDmm(dmm') /\ dmm'.last_reading = dmm.last_reading /\ dmm'.ann_state = {}
      /\ dmm'.new_data_counter # dmm.new_data_counter
  BY <1>4, <1>5, ChangedIsDmm
<1>7. FlagInv'
  BY <1>3, <1>6 DEF FlagInv, Flagged
<1>8. ShiftParity'
  <2> DEFINE on == SHIFT \in dmm'.ann_state
             is == shift'.active /\ shift'.count % 2 = 1
  <2>1. on = FALSE /\ is = FALSE /\ odd' = FALSE
    BY <1>1, <1>2, <1>6
  <2>2. ShiftParity' <=> (odd' = (on # is))
    BY DEF ShiftParity
  <2> HIDE DEF on, is
  <2> QED BY <2>1, <2>2
<1> QED BY <1>1, <1>2, <1>3, <1>6, <1>7, <1>8 DEF CountedStep

(* The wire and time leave all of it alone but the age of the window.        *)
LEMMA WireHolds ==
  ASSUME ParserInv, Wire \/ Tick \/ ResetDone \/ Return \/ UNCHANGED vars
  PROVE  ParserInv' /\ dmm' = dmm
<1> USE DEF ParserInv, Shapes
<1>1. /\ dmm' = dmm /\ frame' = frame /\ msg' = msg /\ odd' = odd
      /\ shift'.active = shift.active /\ shift'.count = shift.count /\ IsShift(shift')
  <2>1. CASE Tick
    <3>1. shift.age + 1 \in Nat
      BY DEF IsShift
    <3> QED BY <2>1, <3>1 DEF Tick, history, IsShift
  <2>2. CASE Wire \/ ResetDone \/ Return \/ UNCHANGED vars
    BY <2>2 DEF Wire, StartFrame, SendByte, DamageByte, ResetPulse, ResetDone, Return,
                work_vars, history, vars
  <2> QED BY <2>1, <2>2
<1>2. Eof \in Word
  BY DecoderAssumption DEF Eof, Byte
<1>3. queue' \in Seq(Word) /\ sending' \in Seq(Word)
  <2>1. CASE StartFrame
    BY <2>1, DecoderAssumption DEF StartFrame, qvars
  <2>2. ASSUME NEW w \in Word, Deliver(w) PROVE queue' \in Seq(Word)
    BY <2>2, AppendProperties DEF Deliver, Put, Refuse
  <2>3. CASE SendByte \/ DamageByte
    <3>1. Head(sending) \in Word /\ sending' \in Seq(Word)
      BY <2>3, HeadTailProperties DEF SendByte, DamageByte
    <3> QED BY <1>2, <2>2, <2>3, <3>1 DEF SendByte, DamageByte
  <2>4. CASE ResetPulse
    BY <2>4 DEF ResetPulse, RaiseReset
  <2>5. CASE Tick \/ ResetDone \/ Return \/ UNCHANGED vars
    BY <2>5 DEF Tick, ResetDone, Return, AnswerReset, qvars, wire_vars, vars
  <2> QED BY <2>1, <2>3, <2>4, <2>5 DEF Wire
<1>4. FlagInv' /\ ShiftParity'
  BY <1>1 DEF FlagInv, Flagged, ShiftParity
<1> QED BY <1>1, <1>3, <1>4

LEMMA ParserKept == ParserInv /\ [Next]_vars => ParserInv' /\ CountedStep
<1> SUFFICES ASSUME ParserInv, [Next]_vars PROVE ParserInv' /\ CountedStep
  OBVIOUS
<1> QED BY ByteDecoded, BeginHolds, ResetHolds, WireHolds DEF Next, Process, CountedStep

(* Only DecodeByte takes a byte out of the queue.                            *)
LEMMA OnlyDecodeTakes == ParserInv /\ [Next]_vars /\ Consumes => DecodeByte
<1> SUFFICES ASSUME ParserInv, [Next]_vars, Consumes, ~DecodeByte PROVE FALSE
  OBVIOUS
<1>1. queue \in Seq(Word) /\ Len(queue) \in Nat
  BY DEF ParserInv, Shapes
<1>2. queue' = queue \/ \E w : queue' = Append(queue, w)
  <2>1. CASE Wire
    BY <2>1 DEF Wire, StartFrame, SendByte, DamageByte, ResetPulse, Deliver, Put, Refuse,
                RaiseReset, qvars
  <2>2. CASE Process \/ Tick \/ UNCHANGED vars
    BY <2>2 DEF Process, Begin, ResetBody, ResetDone, Return, AnswerReset, Tick, qvars, vars
  <2> QED BY <2>1, <2>2 DEF Next
<1>3. \A w : Len(Append(queue, w)) = Len(queue) + 1
  BY <1>1
<1> QED BY <1>1, <1>2, <1>3 DEF Consumes

LEMMA ParserInvariant == Spec => []ParserInv
<1> QED BY ParserStarts, ParserKept, PTL DEF Spec

(* Every text the decoder hands out ends in a NUL, however long the message  *)
(* and whatever its bytes (dmm_putc_safe, process_reset).                    *)
THEOREM TextsTerminated == Spec => []NulTerminated
<1>1. ParserInv => NulTerminated
  BY DEF ParserInv, Shapes, IsDmm, IsMsg, NulText, NulTerminated
<1> QED BY ParserInvariant, <1>1, PTL

(* The flags the display loop goes by are true of the text it reads, over    *)
(* empty and cut messages and resets (messageByte, process_reset).           *)
THEOREM FlagsAreTrue == Spec => []FlagsDescribeMain
<1>1. ParserInv => FlagsDescribeMain
  BY DEF ParserInv, FlagInv, Flagged, FlagsDescribeMain
<1> QED BY ParserInvariant, <1>1, PTL

(* The SHIFT annunciator has the parity of the presses, for every even range *)
(* of shift_press_count and every length of the quiet window.                *)
THEOREM ShiftIsParity == Spec => []ShiftParity
<1>1. ParserInv => ShiftParity
  BY DEF ParserInv
<1> QED BY ParserInvariant, <1>1, PTL

(* An end of frame resynchronises the parser from every state: the switch of *)
(* decoder34401_process and the check of buf_len behind it.                  *)
THEOREM EofResynchronises == Spec => EofEndsFrame
<1>1. ParserInv /\ [Next]_vars
        => (Consumes /\ taken' = Eof => frame'.len = 0 /\ frame'.state = "UNKNOWN")
  BY OnlyDecodeTakes, ByteDecoded
<1> QED BY ParserInvariant, <1>1, PTL DEF Spec, EofEndsFrame

(* Whatever changes in what is published, new_data_counter tells: two counts *)
(* in one step never bring it back to where it was.                          *)
THEOREM EveryChangeCounted == Spec => ChangesCounted
<1>1. ParserInv /\ [Next]_vars
        => (dmm' # dmm => dmm'.new_data_counter # dmm.new_data_counter)
  BY ParserKept DEF CountedStep
<1> QED BY ParserInvariant, <1>1, PTL DEF Spec, ChangesCounted

-----------------------------------------------------------------------------
(* The text of a payload, one byte at a time.  A payload p of n bytes and  *)
(* q, the payload with one byte more:                                      *)
Longer(p, q, n) ==
  DOMAIN p = 1 .. n /\ DOMAIN q = 1 .. n + 1 /\ \A i \in 1 .. n : q[i] = p[i]

(* No two characters of a payload stand in one place, and each place       *)
(* before the last is taken.                                               *)
LEMMA PlacesBelow ==
  ASSUME NEW n \in Nat, NEW p, DOMAIN p = 1 .. n
  PROVE  /\ IsFiniteSet(Kept(p)) /\ Cardinality(Kept(p)) \in Nat
         /\ \A i \in Kept(p) : Place(p, i) < Cardinality(Kept(p))
<1>1. Kept(p) \subseteq 1 .. n
  BY DEF Kept
<1>2. IsFiniteSet(Kept(p))
  BY <1>1, FS_Interval, FS_Subset
<1>3. ASSUME NEW i \in Kept(p) PROVE Place(p, i) < Cardinality(Kept(p))
  <2> DEFINE below == {j \in Kept(p) : j < i}
  <2>1. below \subseteq Kept(p) /\ i \in Int
    BY <1>1
  <2>2. i \notin below
    BY <2>1
  <2>3. IsFiniteSet(below) /\ Cardinality(below) <= Cardinality(Kept(p))
        /\ Cardinality(below) # Cardinality(Kept(p))
    BY <1>2, <1>3, <2>1, <2>2, FS_Subset
  <2>4. Cardinality(below) \in Nat /\ Cardinality(Kept(p)) \in Nat
    BY <1>2, <2>3, FS_CardinalityType
  <2> QED BY <2>3, <2>4 DEF Place
<1> QED BY <1>2, <1>3, FS_CardinalityType

LEMMA OneByteMore ==
  ASSUME NEW n \in Nat, NEW p, NEW q, Longer(p, q, n)
  PROVE  /\ Ignored(q[n + 1])
              => Kept(q) = Kept(p) /\ \A k : Standing(q, k) = Standing(p, k)
         /\ ~Ignored(q[n + 1])
              => /\ Cardinality(Kept(q)) = Cardinality(Kept(p)) + 1
                 /\ \A k : Standing(q, k) = IF k = Cardinality(Kept(p)) THEN {n + 1}
                                            ELSE Standing(p, k)
<1>1. Kept(p) \subseteq 1 .. n /\ DOMAIN p = 1 .. n
  BY DEF Kept, Longer
<1>2. Kept(q) = IF Ignored(q[n + 1]) THEN Kept(p) ELSE Kept(p) \cup {n + 1}
  BY DEF Kept, Longer
<1>3. ASSUME NEW i \in Kept(p) PROVE Place(q, i) = Place(p, i)
  <2>1. {j \in Kept(q) : j < i} = {j \in Kept(p) : j < i}
    BY <1>1, <1>2
  <2> QED BY <2>1 DEF Place
<1>4. CASE Ignored(q[n + 1])
  BY <1>2, <1>3, <1>4 DEF Standing
<1>5. CASE ~Ignored(q[n + 1])
  <2>1. Kept(q) = Kept(p) \cup {n + 1} /\ n + 1 \notin Kept(p)
    BY <1>1, <1>2, <1>5
  <2>2. Cardinality(Kept(q)) = Cardinality(Kept(p)) + 1
    BY <1>1, <2>1, PlacesBelow, FS_AddElement
  <2>3. Place(q, n + 1) = Cardinality(Kept(p))
    <3>1. {j \in Kept(q) : j < n + 1} = Kept(p)
      BY <1>1, <2>1
    <3> QED BY <3>1 DEF Place
  <2>4. Standing(p, Cardinality(Kept(p))) = {}
    BY <1>1, PlacesBelow DEF Standing
  <2>5. ASSUME NEW k
        PROVE  Standing(q, k) = IF k = Cardinality(Kept(p)) THEN {n + 1} ELSE Standing(p, k)
    <3>1. Standing(q, k) = {i \in Kept(p) : Place(p, i) = k}
                             \cup {i \in {n + 1} : Cardinality(Kept(p)) = k}
      BY <1>3, <2>1, <2>3 DEF Standing
    <3> QED BY <2>4, <3>1 DEF Standing
  <2> QED BY <1>5, <2>2, <2>5
<1> QED BY <1>4, <1>5

(* What msg_idx counts: the characters shown so far, the display's end     *)
(* included.                                                               *)
Placed(p) ==
  IF Cardinality(Kept(p)) < DispLen - 1 THEN Cardinality(Kept(p)) ELSE DispLen - 1

LEMMA NothingRendered ==
  ASSUME NEW p, DOMAIN p = 1 .. 0
  PROVE  Rendered(p) = Blanks /\ Placed(p) = 0
<1>1. Kept(p) = {}
  BY DEF Kept
<1>2. \A k : Standing(p, k) = {}
  BY <1>1 DEF Standing
<1>3. Cardinality(Kept(p)) = 0
  BY <1>1, FS_EmptySet
<1> QED BY <1>2, <1>3, DecoderAssumption DEF Rendered, Blanks, Placed

(* messageByte renders: the text of a payload and one byte more is the     *)
(* text so far with that byte put behind it.                               *)
LEMMA ByteRendered ==
  ASSUME NEW n \in Nat, NEW p, NEW q, Longer(p, q, n),
         NEW m, IsMsg(m), ~m.need_reset, m.work = Rendered(p), m.idx = Placed(p)
  PROVE  LET new == MessageByte(m, q[n + 1])
         IN new.work = Rendered(q) /\ new.idx = Placed(q) /\ ~new.need_reset
<1> DEFINE b == q[n + 1]
           marked == IF BlinksPrevious(b) /\ m.idx > 0
                     THEN [m EXCEPT !.blink = @ \cup {m.idx - 1}] ELSE m
           c == Cardinality(Kept(p))
<1>1. MessageByte(m, b) = IF Ignored(b) THEN m ELSE PutC(marked, CharOf(b))
  BY DEF MessageByte, Fresh
<1>2. IsMsg(marked) /\ marked.work = m.work /\ marked.idx = m.idx /\ ~marked.need_reset
  BY DEF IsMsg
<1>3. c \in Nat /\ DispLen \in Nat /\ DispLen >= 3
  BY PlacesBelow, DecoderAssumption DEF Longer
<1>4. CASE Ignored(b)
  <2>1. Kept(q) = Kept(p) /\ \A k : Standing(q, k) = Standing(p, k)
    BY <1>4, OneByteMore
  <2>2. ASSUME NEW k \in 0 .. DispLen - 1, Standing(p, k) # {}
        PROVE  q[CHOOSE i \in Standing(q, k) : TRUE] = p[CHOOSE i \in Standing(p, k) : TRUE]
    <3>1. Standing(q, k) = Standing(p, k) /\ Standing(p, k) \subseteq 1 .. n
      BY <2>1 DEF Standing, Kept, Longer
    <3>2. (CHOOSE i \in Standing(p, k) : TRUE) \in 1 .. n
      BY <2>2, <3>1
    <3> QED BY <3>1, <3>2 DEF Longer
  <2>3. Rendered(q) = Rendered(p) /\ Placed(q) = Placed(p)
    BY <2>1, <2>2 DEF Rendered, Placed
  <2> QED BY <1>1, <1>4, <2>3
<1>5. CASE ~Ignored(b)
  <2>1. /\ Cardinality(Kept(q)) = c + 1
        /\ \A k : Standing(q, k) = IF k = c THEN {n + 1} ELSE Standing(p, k)
    BY <1>5, OneByteMore
  <2>2. ASSUME NEW k \in 0 .. DispLen - 1
        PROVE  Rendered(q)[k] = IF k = c /\ k < DispLen - 1 THEN Glyph(b) ELSE Rendered(p)[k]
    <3>1. CASE k = c
      <4>1. Standing(q, k) = {n + 1}
        BY <2>1, <3>1
      <4>2. (CHOOSE i \in Standing(q, k) : TRUE) = n + 1
        BY <4>1
      <4>3. CASE k < DispLen - 1
        BY <3>1, <4>1, <4>2, <4>3 DEF Rendered
      <4>4. CASE ~(k < DispLen - 1)
        BY <4>4 DEF Rendered
      <4> QED BY <4>3, <4>4
    <3>2. CASE k # c
      <4>1. Standing(q, k) = Standing(p, k) /\ Standing(p, k) \subseteq 1 .. n
        BY <2>1, <3>2 DEF Standing, Kept, Longer
      <4>2. Standing(p, k) # {} => (CHOOSE i \in Standing(p, k) : TRUE) \in 1 .. n
        BY <4>1
      <4>3. Standing(p, k) # {} => q[CHOOSE i \in Standing(q, k) : TRUE]
                                     = p[CHOOSE i \in Standing(p, k) : TRUE]
        BY <4>1, <4>2 DEF Longer
      <4> QED BY <3>2, <4>1, <4>3 DEF Rendered
    <3> QED BY <3>1, <3>2
  <2> DEFINE new == PutC(marked, CharOf(b))
  <2>3. CASE m.idx >= DispLen - 1
    <3>1. new = marked
      BY <1>2, <2>3 DEF PutC
    <3>2. c >= DispLen - 1
      BY <1>3, <2>3 DEF Placed
    <3>3. Rendered(q) = Rendered(p)
      <4>1. \A k \in 0 .. DispLen - 1 : Rendered(q)[k] = Rendered(p)[k]
        BY <1>3, <2>2, <3>2
      <4>2. /\ Rendered(q) = [k \in 0 .. DispLen - 1 |-> Rendered(q)[k]]
            /\ Rendered(p) = [k \in 0 .. DispLen - 1 |-> Rendered(p)[k]]
        BY DEF Rendered
      <4> QED BY <4>1, <4>2
    <3>4. Placed(q) = Placed(p)
      BY <1>3, <2>1, <3>2 DEF Placed
    <3> QED BY <1>1, <1>2, <1>5, <3>1, <3>3, <3>4
  <2>4. CASE ~(m.idx >= DispLen - 1)
    <3>1. m.idx = c /\ c < DispLen - 1 /\ Placed(q) = c + 1
      BY <1>3, <2>1, <2>4 DEF Placed
    <3>2. new = [marked EXCEPT !.work[marked.idx] = Glyph(b), !.idx = @ + 1,
                               !.corrupt = @ \/ ~IsPrint(CharOf(b))]
      BY <1>2, <2>4 DEF PutC, Glyph
    <3>3. new.work = [m.work EXCEPT ![m.idx] = Glyph(b)] /\ new.idx = m.idx + 1
          /\ ~new.need_reset
      BY <1>2, <3>2 DEF IsMsg
    <3>4. Rendered(q) = [Rendered(p) EXCEPT ![c] = Glyph(b)]
      BY <1>3, <2>2, <3>1 DEF Rendered
    <3> QED BY <1>1, <1>5, <3>1, <3>3, <3>4
  <2> QED BY <2>3, <2>4
<1> QED BY <1>4, <1>5

(* WholeInv: while whole holds, the working text is that of the bytes of   *)
(* the frame so far, or will be once it is cleared; MESSAGE is entered at  *)
(* the second byte and left with the frame.                                *)
WholeInv ==
  /\ frame.state = "MESSAGE" => frame.len >= 2
  /\ frame.state = "UNKNOWN" => frame.len <= 1
  /\ whole /\ frame.state # "MESSAGE" => msg.need_reset
  /\ whole /\ frame.state = "MESSAGE" =>
       /\ Fresh(msg).work = Rendered(Payload)
       /\ Fresh(msg).idx = Placed(Payload)
       /\ frame.len > 2 => ~msg.need_reset

LEMMA MessageByteWhole ==
  ASSUME ParserInv, WholeInv, DecodeByte, frame.state = "MESSAGE"
  PROVE  WholeInv'
<1> DEFINE f == Stored(frame, Head(queue))
           b == f.in[f.len - 1]
<1>1. queue # << >> /\ OnMessage(f) /\ whole' = IF frame'.len = 0 THEN msg'.need_reset ELSE whole
  BY DEF DecodeByte, Take, OnInit, OnUnknown, OnAnnunciators, OnControl, OnButton
<1>2. Head(queue) \in Word /\ IsFrame(frame) /\ IsMsg(msg)
  BY <1>1, HeadTailProperties DEF ParserInv, Shapes
<1>3. f \in FrameWith(1 .. BufSize)
  BY <1>2, StoredIsFrame
<1>4. /\ f.len = frame.len + 1 /\ f.state = frame.state
      /\ f.in = [frame.in EXCEPT ![frame.len] = Head(queue).in]
  BY <1>2 DEF Stored, IsFrame, FrameWith
<1>5. frame.len \in 2 .. BufSize - 1 /\ BufSize \in Nat /\ frame.in \in [0 .. BufSize - 1 -> Byte]
  BY <1>2, DecoderAssumption DEF IsFrame, FrameWith, WholeInv
<1>6. CASE LastIsEof(f) \/ f.len >= BufSize
  <2>1. frame' = Ended(f)
    BY <1>1, <1>6 DEF OnMessage, Guarded
  <2>2. frame'.len = 0 /\ frame'.state = "UNKNOWN"
    BY <1>3, <2>1, GuardedIsFrame
  <2> QED BY <1>1, <2>2 DEF WholeInv
<1>7. CASE ~LastIsEof(f) /\ ~(f.len >= BufSize)
  <2>1. frame' = f /\ msg' = MessageByte(msg, b)
    BY <1>1, <1>7 DEF OnMessage, Guarded
  <2>2. frame'.state = "MESSAGE" /\ frame'.len = frame.len + 1 /\ whole' = whole
    BY <1>1, <1>4, <1>5, <2>1
  <2> SUFFICES ASSUME whole
               PROVE  /\ Fresh(msg').work = Rendered(Payload')
                      /\ Fresh(msg').idx = Placed(Payload')
                      /\ ~msg'.need_reset
    BY <1>5, <2>2 DEF WholeInv
  <2> DEFINE n == frame.len - 2
             p == Payload
             q == Payload'
             m == Fresh(msg)
  <2>3. n \in Nat /\ frame'.len - 2 = n + 1 /\ n + 1 \in 1 .. frame'.len - 2
    BY <1>5, <2>2
  <2>4. /\ p = [i \in 1 .. n |-> frame.in[i + 1]]
        /\ q = [i \in 1 .. n + 1 |-> frame'.in[i + 1]]
    BY <2>3 DEF Payload
  <2>5. \A i \in 1 .. n : frame'.in[i + 1] = frame.in[i + 1]
    BY <1>4, <1>5, <2>1
  <2>6. q[n + 1] = b
    <3>1. (n + 1) + 1 = f.len - 1
      BY <1>4, <1>5
    <3> QED BY <2>1, <2>3, <2>4, <3>1
  <2>7. Longer(p, q, n)
    BY <2>3, <2>4, <2>5 DEF Longer
  <2>8. IsMsg(m) /\ ~m.need_reset
    BY <1>2, FreshIsMsg DEF ParserInv, FlagInv
  <2>9. m.work = Rendered(p) /\ m.idx = Placed(p)
    BY DEF WholeInv
  <2>10. MessageByte(msg, b) = MessageByte(m, b)
    <3>1. Fresh(Fresh(msg)) = Fresh(msg)
      BY <2>8 DEF Fresh
    <3> HIDE DEF b
    <3> QED BY <3>1 DEF MessageByte
  <2> HIDE DEF n, p, q, m, b, f
  <2>11. msg'.work = Rendered(q) /\ msg'.idx = Placed(q) /\ ~msg'.need_reset
    <3>1. msg' = MessageByte(m, q[n + 1])
      BY <2>1, <2>6, <2>10
    <3> QED BY <2>3, <2>7, <2>8, <2>9, <3>1, ByteRendered
  <2> QED BY <2>11 DEF Fresh, q
<1> QED BY <1>6, <1>7

LEMMA OtherByteWhole ==
  ASSUME ParserInv, WholeInv, DecodeByte, frame.state # "MESSAGE"
  PROVE  WholeInv'
<1> DEFINE f == Stored(frame, Head(queue))
<1>1. /\ queue # << >> /\ whole' = IF frame'.len = 0 THEN msg'.need_reset ELSE whole
      /\ OnInit(f) \/ OnUnknown(f) \/ OnAnnunciators(f) \/ OnControl(f) \/ OnButton(f)
  BY DEF DecodeByte, Take, OnMessage
<1>2. Head(queue) \in Word /\ IsFrame(frame) /\ IsMsg(msg)
  BY <1>1, HeadTailProperties DEF ParserInv, Shapes
<1>3. f \in FrameWith(1 .. BufSize)
  BY <1>2, StoredIsFrame
<1>4. f.len = frame.len + 1 /\ f.state = frame.state
  BY <1>2 DEF Stored, IsFrame, FrameWith
<1>5. msg' = msg /\ (whole => msg.need_reset)
  BY <1>1 DEF OnInit, OnUnknown, OnAnnunciators, OnControl, OnButton, WholeInv
<1>6. whole' => msg'.need_reset
  BY <1>1, <1>5
<1>7. CASE frame' \in {Ended(f), Guarded(Ended(f))}
  <2>1. frame'.len = 0 /\ frame'.state = "UNKNOWN"
    BY <1>3, <1>7, GuardedIsFrame
  <2> QED BY <1>6, <2>1 DEF WholeInv
<1>8. CASE frame' = Guarded(f) /\ f.state # "UNKNOWN"
  <2>1. CASE f.len >= BufSize
    <3>1. frame' = Ended(f)
      BY <1>8, <2>1 DEF Guarded
    <3> QED BY <1>7, <3>1
  <2>2. CASE ~(f.len >= BufSize)
    <3>1. frame'.state # "UNKNOWN" /\ frame'.state # "MESSAGE"
      BY <1>4, <1>8, <2>2 DEF Guarded
    <3> QED BY <1>6, <3>1 DEF WholeInv
  <2> QED BY <2>1, <2>2
<1>9. CASE f.state = "UNKNOWN" /\ frame' = Guarded([f EXCEPT !.state = Recognise(f)])
  <2> DEFINE g == [f EXCEPT !.state = Recognise(f)]
  <2>1. f.len \in 1 .. 2 /\ BufSize \in Nat /\ BufSize >= 8
    BY <1>2, <1>4, <1>9, DecoderAssumption DEF WholeInv, IsFrame, FrameWith
  <2>2. g.state = Recognise(f) /\ g.len = f.len
    BY <1>3 DEF FrameWith
  <2>3. frame' = g
    BY <1>9, <2>1, <2>2 DEF Guarded
  <2> HIDE DEF g, f
  <2>4. f.len = 1 => frame'.state \in {"BUTTON", "UNKNOWN"}
    BY <1>9, <2>2, <2>3 DEF Recognise
  <2>5. f.len = 2 => frame'.state \in {"MESSAGE", "ANNUNCIATORS", "CONTROL"}
    BY <2>2, <2>3 DEF Recognise
  <2>6. /\ frame'.state = "MESSAGE" => frame'.len = 2
        /\ frame'.state = "UNKNOWN" => frame'.len = 1
    BY <2>1, <2>2, <2>3, <2>4, <2>5
  <2>7. ASSUME whole', frame'.state = "MESSAGE"
        PROVE  Fresh(msg').work = Rendered(Payload') /\ Fresh(msg').idx = Placed(Payload')
    <3>1. msg'.need_reset
      BY <1>6, <2>7
    <3>2. Fresh(msg').work = Blanks /\ Fresh(msg').idx = 0
      BY <3>1 DEF Fresh
    <3>3. DOMAIN Payload' = 1 .. 0
      BY <2>6, <2>7 DEF Payload
    <3>4. Rendered(Payload') = Blanks /\ Placed(Payload') = 0
      BY <3>3, NothingRendered
    <3> QED BY <3>2, <3>4
  <2> QED BY <1>6, <2>6, <2>7 DEF WholeInv
<1>10. \/ frame' \in {Ended(f), Guarded(Ended(f))}
       \/ frame' = Guarded(f) /\ f.state # "UNKNOWN"
       \/ f.state = "UNKNOWN" /\ frame' = Guarded([f EXCEPT !.state = Recognise(f)])
  BY <1>1, <1>4 DEF OnInit, OnUnknown, OnAnnunciators, OnControl, OnButton
<1> QED BY <1>7, <1>8, <1>9, <1>10

LEMMA WholeKept == ParserInv /\ WholeInv /\ [Next]_vars => WholeInv'
<1> SUFFICES ASSUME ParserInv, WholeInv, [Next]_vars PROVE WholeInv'
  OBVIOUS
<1>1. CASE DecodeByte
  BY <1>1, MessageByteWhole, OtherByteWhole
<1>2. CASE ResetBody
  <2>1. frame' = frame /\ (whole' => frame.len = 0) /\ msg'.need_reset
    BY <1>2 DEF ResetBody, ParserInv, Shapes, IsMsg
  <2> QED BY <2>1 DEF WholeInv
<1>3. CASE Begin \/ ResetDone \/ Return \/ Wire \/ Tick \/ UNCHANGED vars
  <2>1. frame' = frame /\ msg' = msg /\ whole' = whole
    BY <1>3 DEF Begin, ResetDone, Return, Wire, StartFrame, SendByte, DamageByte, ResetPulse,
                Tick, work_vars, history, vars
  <2> QED BY <2>1 DEF WholeInv, Payload
<1> QED BY <1>1, <1>2, <1>3 DEF Next, Process

(* A message is published as the text of its own frame: messageByte and    *)
(* dmm_putc_safe lose and keep nothing between two resets of msg_work, for *)
(* every message, display and buffer length.                               *)
THEOREM MessagesAreWhole == Spec => MessageWhole
<1>1. ASSUME ParserInv, WholeInv, [Next]_vars, Publishes, whole, Payload # << >>
      PROVE  dmm'.main = Rendered(Payload)
  <2> DEFINE f == Stored(frame, Head(queue))
             m == Classify(msg)
  <2>1. DecodeByte /\ queue # << >> /\ taken' = Head(queue)
    BY <1>1, OnlyDecodeTakes DEF Publishes, DecodeByte, Take
  <2>2. OnMessage(f)
    BY <1>1, <2>1 DEF Publishes, DecodeByte, OnInit, OnUnknown, OnAnnunciators, OnControl,
                      OnButton
  <2>3. Head(queue) \in Word /\ IsFrame(frame) /\ IsMsg(msg) /\ Flagged(msg) /\ IsDmm(dmm)
    BY <1>1, <2>1, HeadTailProperties DEF ParserInv, Shapes, FlagInv
  <2>4. f.in[f.len - 1] = Eof.in /\ f.out[f.len - 1] = Eof.out /\ f.len \in 1 .. BufSize
    BY <1>1, <2>1, <2>3, StoredIsFrame DEF Publishes, FrameWith
  <2>5. LastIsEof(f)
    BY <2>4, DecoderAssumption DEF LastIsEof
  <2>6. dmm' = WithBar(Publish(dmm, m), f.in)
    BY <2>2, <2>5 DEF OnMessage
  <2>7. IsMsg(m) /\ m.work = msg.work
    BY <2>3, ClassifyFlags
  <2>8. dmm'.main = msg.work
    <3> HIDE DEF m, f
    <3> QED BY <2>3, <2>6, <2>7, PublishedIsDmm
  <2>9. frame.len > 2
    <3>1. frame.len \in Nat
      BY <2>3, DecoderAssumption DEF IsFrame, FrameWith
    <3>2. ~(frame.len > 2) => Payload = << >>
      BY <3>1 DEF Payload
    <3> QED BY <1>1, <3>2
  <2> QED BY <1>1, <2>8, <2>9 DEF WholeInv, Publishes, Fresh
<1>2. Init => WholeInv
  BY DEF Init, WholeInv
<1>3. Spec => []WholeInv
  BY <1>2, WholeKept, ParserInvariant, PTL DEF Spec
<1> QED BY <1>1, <1>3, ParserInvariant, PTL DEF Spec, MessageWhole

-----------------------------------------------------------------------------
(* What may happen to the texts in a step: a byte goes into the working    *)
(* text, the working text or the reset screen is published.                *)
TextStep ==
  \/ dmm'.main = dmm.main /\ \/ msg'.work = msg.work
                             \/ \E b \in Byte : msg'.work = MessageByte(msg, b).work
  \/ dmm'.main = msg.work /\ msg'.work = msg.work
  \/ dmm'.main = ResetScreen /\ msg'.work = msg.work

LEMMA ByteTexts == ASSUME ParserInv, DecodeByte PROVE TextStep
<1> USE DEF ParserInv, Shapes
<1> DEFINE f == Stored(frame, Head(queue))
<1>1. queue # << >> /\ Head(queue) \in Word
  BY HeadTailProperties DEF DecodeByte, Take
<1>2. f \in FrameWith(1 .. BufSize)
  BY <1>1, StoredIsFrame
<1>3. OnInit(f) \/ OnUnknown(f) \/ OnMessage(f) \/ OnAnnunciators(f) \/ OnControl(f) \/ OnButton(f)
  BY DEF DecodeByte
<1> HIDE DEF f
<1>4. CASE OnMessage(f) /\ LastIsEof(f)
  <2> DEFINE m == Classify(msg)
             p == WithBar(Publish(dmm, m), f.in)
  <2>1. dmm' = p /\ msg' = [m EXCEPT !.need_reset = TRUE]
    BY <1>4 DEF OnMessage
  <2>2. IsMsg(m) /\ m.work = msg.work
    BY ClassifyFlags DEF FlagInv
  <2> HIDE DEF m
  <2>3. p.main = m.work
    BY <2>2, PublishedIsDmm
  <2>4. msg'.work = m.work
    BY <2>1, <2>2 DEF IsMsg
  <2> QED BY <2>1, <2>2, <2>3, <2>4 DEF TextStep
<1>5. CASE OnMessage(f) /\ ~LastIsEof(f)
  <2>1. dmm' = dmm /\ msg' = MessageByte(msg, f.in[f.len - 1])
    BY <1>5 DEF OnMessage
  <2>2. f.in[f.len - 1] \in Byte
    BY <1>2, DecoderAssumption DEF FrameWith
  <2> QED BY <2>1, <2>2 DEF TextStep
<1>6. CASE OnInit(f) \/ OnUnknown(f)
  BY <1>6 DEF OnInit, OnUnknown, TextStep
<1>7. CASE OnAnnunciators(f) \/ OnControl(f)
  <2>1. \/ dmm' = dmm
        \/ dmm' = PublishAnnunciators(dmm, f.in[3], f.in[2])
        \/ dmm' = DecodeControl(dmm, f)
    BY <1>7 DEF OnAnnunciators, OnControl
  <2>2. msg' = msg /\ dmm'.main = dmm.main
    BY <1>7, <2>1, AnnunciatorsAreDmm, ControlIsDmm DEF OnAnnunciators, OnControl
  <2> QED BY <2>2 DEF TextStep
<1>8. CASE OnButton(f)
  <2>1. msg' = msg /\ (dmm' = dmm \/ dmm' = ClearShift(dmm))
    BY <1>8 DEF OnButton
  <2>2. ClearShift(dmm) = IF SHIFT \in dmm.ann_state
                          THEN Annunciated(dmm, dmm.ann_state \ {SHIFT}) ELSE dmm
    BY DEF ClearShift, Annunciated
  <2>3. dmm'.main = dmm.main
    BY <2>1, <2>2, ShiftedIsDmm
  <2> QED BY <2>1, <2>3 DEF TextStep
<1> QED BY <1>3, <1>4, <1>5, <1>6, <1>7, <1>8

LEMMA StepTexts == ParserInv /\ [Next]_vars => TextStep
<1> SUFFICES ASSUME ParserInv, [Next]_vars PROVE TextStep
  OBVIOUS
<1> USE DEF ParserInv, Shapes
<1>1. CASE DecodeByte
  BY <1>1, ByteTexts
<1>2. CASE Begin
  <2> DEFINE bits == IF SHIFT \in dmm.ann_state THEN dmm.ann_state \ {SHIFT}
                     ELSE dmm.ann_state \cup {SHIFT}
  <2>1. msg' = msg /\ (dmm' = dmm \/ dmm' = Annunciated(dmm, bits))
    BY <1>2 DEF Begin, Annunciated
  <2> HIDE DEF bits
  <2>2. dmm'.main = dmm.main
    BY <2>1, ShiftedIsDmm
  <2> QED BY <2>1, <2>2 DEF TextStep
<1>3. CASE ResetBody
  <2> DEFINE e == [dmm EXCEPT !.main = ResetScreen, !.ann_state = {}, !.blink_mask = {}]
  <2>1. IsDmm(e) /\ e.main = ResetScreen /\ e.new_data_counter = dmm.new_data_counter
    BY BlanksEndInNul DEF IsDmm
  <2>2. dmm' = Counted(e, 1) /\ msg'.work = msg.work
    BY <1>3 DEF ResetBody, IsMsg
  <2> HIDE DEF e
  <2>3. dmm'.main = ResetScreen
    BY <2>1, <2>2, ChangedIsDmm
  <2> QED BY <2>2, <2>3 DEF TextStep
<1>4. CASE ResetDone \/ Return \/ Wire \/ Tick \/ UNCHANGED vars
  <2>1. dmm' = dmm /\ msg' = msg
    BY <1>4 DEF ResetDone, Return, Wire, StartFrame, SendByte, DamageByte, ResetPulse, Tick,
                work_vars, vars
  <2> QED BY <2>1 DEF TextStep
<1> QED BY <1>1, <1>2, <1>3, <1>4 DEF Next, Process

(* A text has no NUL before its end and nothing but NULs behind it.        *)
CString(t) == \E z \in 0 .. DispLen - 1 : \A d \in 0 .. DispLen - 1 : t[d] = 0 <=> d >= z

(* The working text is filled up to its last cell but one.                 *)
Filled(t) == t \in NulText /\ \A d \in 0 .. DispLen - 3 : t[d] # 0

LEMMA FilledIsCString == ASSUME NEW t, Filled(t) PROVE CString(t)
<1> DEFINE z == IF t[DispLen - 2] = 0 THEN DispLen - 2 ELSE DispLen - 1
<1>1. z \in 0 .. DispLen - 1
  BY DecoderAssumption
<1>2. \A d \in 0 .. DispLen - 1 : t[d] = 0 <=> d >= z
  BY DecoderAssumption DEF Filled, NulText
<1> HIDE DEF z
<1> QED BY <1>1, <1>2 DEF CString

LEMMA ResetIsCString == CString(ResetScreen)
<1>1. ResetText \in Seq(32 .. 126) /\ Len(ResetText) \in 0 .. DispLen - 1 /\ DispLen \in Nat
  BY DecoderAssumption
<1>2. ASSUME NEW d \in 0 .. DispLen - 1 PROVE ResetScreen[d] = 0 <=> d >= Len(ResetText)
  <2>1. CASE d < Len(ResetText)
    <3>1. d + 1 \in 1 .. Len(ResetText)
      BY <1>1, <2>1
    <3>2. ResetText[d + 1] \in 32 .. 126
      BY <1>1, <3>1, ElementOfSeq
    <3>3. ResetScreen[d] = ResetText[d + 1]
      BY <2>1 DEF ResetScreen
    <3>4. ResetText[d + 1] # 0
      BY <3>2
    <3>5. ~(d >= Len(ResetText))
      BY <1>1, <2>1
    <3> QED BY <3>3, <3>4, <3>5
  <2>2. CASE ~(d < Len(ResetText))
    BY <1>1, <2>2 DEF ResetScreen
  <2> QED BY <2>1, <2>2
<1> QED BY <1>1, <1>2 DEF CString

LEMMA ByteKeepsFilled ==
  ASSUME NEW m, IsMsg(m), Flagged(m), Filled(m.work), NEW b \in Byte
  PROVE  Filled(MessageByte(m, b).work)
<1> DEFINE new == Fresh(m)
           marked == IF BlinksPrevious(b) /\ new.idx > 0
                     THEN [new EXCEPT !.blink = @ \cup {new.idx - 1}] ELSE new
<1>1. IsMsg(new)
  BY FreshIsMsg
<1>2. Filled(new.work)
  <2>1. Filled(Blanks)
    BY BlanksEndInNul, DecoderAssumption DEF Filled, Blanks
  <2> QED BY <2>1 DEF Fresh
<1>3. MessageByte(m, b) = IF Ignored(b) THEN new ELSE PutC(marked, CharOf(b))
  BY DEF MessageByte
<1> HIDE DEF new
<1>4. IsMsg(marked) /\ marked.work = new.work
  BY <1>1 DEF IsMsg
<1> HIDE DEF marked
<1>5. Filled(PutC(marked, CharOf(b)).work)
  <2>1. CASE marked.idx >= DispLen - 1
    BY <1>2, <1>4, <2>1 DEF PutC
  <2>2. CASE ~(marked.idx >= DispLen - 1)
    <3>1. CharOf(b) \in Byte
      BY DEF CharOf, Byte
    <3>2. Glyph(b) \in Byte /\ Glyph(b) # 0
      BY <3>1 DEF Glyph, IsPrint, Byte
    <3>3. PutC(marked, CharOf(b)).work = [marked.work EXCEPT ![marked.idx] = Glyph(b)]
      BY <1>4, <2>2 DEF PutC, Glyph, IsMsg
    <3>4. marked.idx \in 0 .. DispLen - 2 /\ marked.work \in Text /\ Filled(marked.work)
      BY <1>2, <1>4, <2>2, DecoderAssumption DEF IsMsg, NulText
    <3> QED BY <3>2, <3>3, <3>4, DecoderAssumption DEF Filled, NulText, Text
  <2> QED BY <2>1, <2>2
<1> QED BY <1>2, <1>3, <1>5

(* Whatever the display loop reads of dmm_context_t's main is a C string   *)
(* in a buffer the rest of which is zero, as it supposes: process_reset    *)
(* and dmm_putc_safe leave no character behind a NUL.                      *)
THEOREM PublishedIsCString == Spec => []CString(dmm.main)
<1> DEFINE Inv == Filled(msg.work) /\ CString(dmm.main)
<1>1. Init => Inv
  <2>1. Filled(Blanks)
    BY BlanksEndInNul, DecoderAssumption DEF Filled, Blanks
  <2> QED BY <2>1, FilledIsCString DEF Init
<1>2. ParserInv /\ Inv /\ [Next]_vars => Inv'
  <2> SUFFICES ASSUME ParserInv, Filled(msg.work), CString(dmm.main), [Next]_vars
               PROVE  Filled(msg'.work) /\ CString(dmm'.main)
    BY DEF Filled, CString
  <2>1. \A b \in Byte : Filled(MessageByte(msg, b).work)
    BY ByteKeepsFilled DEF ParserInv, Shapes, FlagInv
  <2>2. TextStep
    BY StepTexts
  <2> QED BY <2>1, <2>2, FilledIsCString, ResetIsCString DEF TextStep
<1> QED BY <1>1, <1>2, ParserInvariant, PTL DEF Spec

=============================================================================
