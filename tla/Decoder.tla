------------------------------- MODULE Decoder -------------------------------
(***************************************************************************)
(* The frame parser of the 34401A display protocol: decoder34401_process   *)
(* and everything it calls (decoder_34401a.c).  Bytes reach it through the *)
(* queue of module ByteQueue, which the capture path implements (theorem   *)
(* RingImplementsQueue); the interrupt handlers may append a byte or raise *)
(* a reset between any two iterations of its loop.  Inside an iteration    *)
(* the parser touches nothing the handlers share once it has taken its     *)
(* byte, so taking and decoding a byte is one step; process_reset is two,  *)
(* because it clears the shared flag last.                                 *)
(*                                                                         *)
(* The instrument sends frames from the set Frames; a damaged byte reaches *)
(* the parser as a synthetic end of frame, a reset cuts a frame short.     *)
(***************************************************************************)
EXTENDS ByteQueue, Integers, FiniteSets, SequencesExt

CONSTANTS
  BufSize,       (* bytes of input_buf and output_buf, 100 in the code     *)
  DispLen,       (* DISPLAY_BUF_LEN, 16 in the code                        *)
  CountMod,      (* new_data_counter wraps here, 2^32 in the code          *)
  PressMod,      (* shift_press_count wraps here, 256 in the code          *)
  ShiftWindow,   (* ticks of the SHIFT quiet window, 300 ms in the code    *)
  ResetText,     (* "SYSTEM RESET  " *)
  ValidReading(_), InMenu(_), TextDisplay(_),  (* the regex_* functions    *)
  Tails,         (* what may be left of a frame when the Pico starts to    *)
                 (* listen                                                 *)
  Frames,        (* frames the instrument may send: sequences of Word      *)
  MaxFrames, MaxFaults, MaxResets    (* bounds on the wire                  *)

Byte == 0 .. 255
Text == [0 .. DispLen - 1 -> Byte]

ASSUME DecoderAssumption ==
  /\ BufSize \in Nat /\ BufSize >= 8
  /\ DispLen \in Nat /\ DispLen >= 3
  /\ CountMod \in Nat /\ CountMod > 2
  /\ PressMod \in Nat /\ PressMod >= 2 /\ PressMod % 2 = 0
  /\ ShiftWindow \in Nat
  /\ ResetText \in Seq(32 .. 126) /\ Len(ResetText) <= DispLen - 1
  /\ Word = [in : Byte, out : Byte]
  /\ Nothing = [in |-> 0, out |-> 0]
  /\ \A f \in Frames \cup Tails : f \in Seq(Word)
  /\ MaxFrames \in Nat /\ MaxFaults \in Nat
  /\ MaxResets \in Nat

VARIABLES
  (* the wire *)
  sending,     (* what is left of the frame being sent                     *)
  sent,        (* [frames, damaged, resets] so far                         *)
  (* the published half of dmm_context_t *)
  dmm,         (* [main, last_reading, ann_state, bar, bar_style,          *)
               (*  blink_mask, new_data_counter]                           *)
  (* the working half *)
  frame,       (* [state, in, out, len]: frame_state, input_buf,           *)
               (*  output_buf, buf_len                                     *)
  msg,         (* [work, idx, blink, need_reset, corrupt, menu, valid]     *)
  shift,       (* [active, age, count]: the SHIFT window, its age in ticks *)
  pc,          (* "idle", "loop", or "clearing" inside process_reset       *)
  (* history, for the properties only *)
  whole,       (* the frame began on a fresh msg_work, and no reset cut it *)
  odd          (* odd number of SHIFT presses since the bit was last known *)
               (* to be clear                                              *)

wire_vars == << sending, sent >>
work_vars == << dmm, frame, msg, shift >>
history == << whole, odd >>
vars == << queue, taken, overruns, reset_received, sending, sent,
           dmm, frame, msg, shift, pc, whole, odd >>

FrameStates == {"INIT", "UNKNOWN", "MESSAGE", "ANNUNCIATORS", "CONTROL", "BUTTON"}
SHIFT == 11
Eof == [in |-> 0, out |-> 187]

Blanks == [i \in 0 .. DispLen - 1 |-> IF i < DispLen - 2 THEN 32 ELSE 0]
ResetScreen ==
  [i \in 0 .. DispLen - 1 |-> IF i < Len(ResetText) THEN ResetText[i + 1] ELSE 0]

(* decoder34401_init *)
Init ==
  /\ QInit
  /\ sending \in Tails
  /\ sent = [frames |-> 0, damaged |-> 0, resets |-> 0]
  /\ dmm = [main |-> Blanks,
            last_reading |-> [i \in 0 .. DispLen - 1 |-> 0],
            ann_state |-> {}, bar |-> 0, bar_style |-> 0,
            blink_mask |-> {}, new_data_counter |-> 0]
  /\ frame = [state |-> "INIT", in |-> [i \in 0 .. BufSize - 1 |-> 0],
              out |-> [i \in 0 .. BufSize - 1 |-> 0], len |-> 0]
  /\ msg = [work |-> Blanks, idx |-> 0, blink |-> {}, need_reset |-> TRUE,
            corrupt |-> FALSE, menu |-> FALSE, valid |-> FALSE]
  /\ shift = [active |-> FALSE, age |-> 0, count |-> 0]
  /\ pc = "idle"
  /\ whole = TRUE
  /\ odd = FALSE

-----------------------------------------------------------------------------
(* Slips the properties below are there to catch; nothing here uses them.  *)

PutCNoLimit(m, c) ==                  \* `>` for `>=` in dmm_putc_safe
  IF m.idx > DispLen - 1 THEN m
  ELSE [m EXCEPT !.work[m.idx] = c, !.idx = @ + 1,
                 !.corrupt = @ \/ c \notin 32 .. 126]
FreshKeepsFlags(m) ==                 \* the flags are not reset
  IF m.need_reset
  THEN [m EXCEPT !.work = Blanks, !.idx = 0, !.blink = {}, !.need_reset = FALSE]
  ELSE m
FreshKeepsText(m) ==                  \* msg_idx reset, msg_work not
  IF m.need_reset
  THEN [work |-> m.work, idx |-> 0, blink |-> {}, need_reset |-> FALSE,
        corrupt |-> FALSE, menu |-> FALSE, valid |-> FALSE]
  ELSE m
QuietReading(d, m) ==                 \* counted only if the text is new
  [d EXCEPT !.main = m.work, !.last_reading = IF m.valid THEN m.work ELSE @,
            !.blink_mask = m.blink,
            !.new_data_counter = IF d.main = m.work THEN @ ELSE (@ + 1) % CountMod]
GuardedLate(f) ==                     \* `>` for `>=` at the foot of the loop
  IF f.len > BufSize THEN [f EXCEPT !.len = 0, !.state = "UNKNOWN"] ELSE f
DropShift(d, bits) == bits            \* SHIFT taken from the wire
ResetBetweenFrames ==                 \* a reset waits for the frame to end
  reset_received /\ frame.len = 0
LeaveAnyTime == TRUE                  \* the loop's test gone wrong
EndedInState(f) == [f EXCEPT !.len = 0]   \* frame_state left as it was

-----------------------------------------------------------------------------
(* Messages: dmm_putc_safe, messageByte and the end of a message frame.    *)

IsPrint(c) == c \in 32 .. 126
IsDigit(c) == c \in 48 .. 57

PutC(m, c) ==
  IF m.idx >= DispLen - 1 THEN m
  ELSE [m EXCEPT !.work[m.idx] = IF IsPrint(c) THEN c ELSE 32,
                 !.idx = @ + 1,
                 !.corrupt = @ \/ ~IsPrint(c)]

Fresh(m) ==
  IF m.need_reset
  THEN [work |-> Blanks, idx |-> 0, blink |-> {}, need_reset |-> FALSE,
        corrupt |-> FALSE, menu |-> FALSE, valid |-> FALSE]
  ELSE m

CharOf(b) ==
  CASE b = 132 -> 46             \* 0x84 '.'
    [] b = 134 -> 44             \* 0x86 ','
    [] b \in {140, 141} -> 58    \* 0x8c, 0x8d ':'
    [] OTHER -> b

Ignored(b) == b \in {0, 129}
BlinksPrevious(b) == b = 141

MessageByte(m0, b) ==
  LET m == Fresh(m0)
      marked == IF BlinksPrevious(b) /\ m.idx > 0
                THEN [m EXCEPT !.blink = @ \cup {m.idx - 1}] ELSE m
  IN IF Ignored(b) THEN m ELSE PutC(marked, CharOf(b))

Classify(m) ==
  IF m.corrupt THEN m
  ELSE IF ValidReading(m.work) THEN [m EXCEPT !.valid = TRUE]
  ELSE IF InMenu(m.work) THEN [m EXCEPT !.menu = TRUE]
  ELSE IF TextDisplay(m.work) THEN m
  ELSE [m EXCEPT !.corrupt = TRUE]

(* updateBarGraphFromMessageFrame: the first 4 digits, or after a sign the *)
(* first 3, of input_buf[2 .. 7].                                          *)
BarStyle(in) == IF IsDigit(in[2]) THEN 0 ELSE 1
BarValue(in) ==
  LET style == BarStyle(in)
      from == 2 + style
      digits == SelectSeq([i \in 1 .. 8 - from |-> in[from + i - 1]], IsDigit)
      used == SubSeq(digits, 1, IF Len(digits) < 4 - style THEN Len(digits)
                                                         ELSE 4 - style)
      value == FoldLeft(LAMBDA v, c : 10 * v + (c - 48), 0, used)
  IN IF style = 1 /\ in[2] = 45 THEN -value ELSE value

(* new_data_counter++, n times *)
Counted(d, n) ==
  [d EXCEPT !.new_data_counter = (@ + n) % CountMod]

WithBar(d, in) ==
  IF d.bar_style # BarStyle(in) \/ d.bar # BarValue(in)
  THEN Counted([d EXCEPT !.bar_style = BarStyle(in), !.bar = BarValue(in)], 1)
  ELSE d

Publish(d, m) ==
  Counted([d EXCEPT !.main = m.work,
                    !.last_reading = IF m.valid THEN m.work ELSE @,
                    !.blink_mask = m.blink], 1)

-----------------------------------------------------------------------------
(* Annunciators, the blink control frame and the SHIFT button. *)

BitsOf(h, l) == {i \in 0 .. 15 : ((256 * h + l) \div 2^i) % 2 = 1}

KeepShift(d, bits) == (bits \ {SHIFT}) \cup (d.ann_state \cap {SHIFT})

PublishAnnunciators(d, h, l) ==
  LET new == KeepShift(d, BitsOf(h, l))
  IN IF new # d.ann_state THEN Counted([d EXCEPT !.ann_state = new], 1) ELSE d

(* The twelve command words of decodeControlFrame, in the order of the     *)
(* character they make blink.                                              *)
BlinkCommands == << << 0, 73 >>, << 113, 73 >>, << 98, 73 >>, << 19, 73 >>,
                    << 84, 73 >>, << 37, 73 >>, << 54, 73 >>, << 71, 73 >>,
                    << 56, 73 >>, << 73, 73 >>, << 90, 73 >>, << 43, 73 >> >>

DecodeControl(d, f) ==
  LET hit == {k \in DOMAIN BlinkCommands :
                f.len >= 2 /\ BlinkCommands[k] = << f.in[0], f.in[1] >>}
  IN IF hit = {} THEN d
     ELSE Counted([d EXCEPT !.blink_mask = {k - 1 : k \in hit}], 1)

ShiftCode == << 119, 157, 207 >>     \* 7839183
IsShiftPress(f) == << f.out[0], f.out[1], f.out[2] >> = ShiftCode

PressShift(s) ==
  IF s.active
  THEN [s EXCEPT !.count = (@ + 1) % PressMod, !.age = 0]
  ELSE [active |-> TRUE, age |-> 0, count |-> 1]

NoWindow == [active |-> FALSE, age |-> 0, count |-> 0]

ClearShift(d) ==
  IF SHIFT \in d.ann_state
  THEN Counted([d EXCEPT !.ann_state = @ \ {SHIFT}], 1)
  ELSE d

-----------------------------------------------------------------------------
(* Frames. *)

Stored(f, w) ==
  [f EXCEPT !.in[f.len] = w.in, !.out[f.len] = w.out, !.len = @ + 1]

LastIsEof(f) ==
  f.len > 0 /\ f.in[f.len - 1] = Eof.in /\ f.out[f.len - 1] = Eof.out

Ended(f) == [f EXCEPT !.len = 0, !.state = "UNKNOWN"]

(* the check at the foot of the loop *)
Guarded(f) == IF f.len >= BufSize THEN Ended(f) ELSE f

In7F(b) == b % 128 = 127

Recognise(f) ==
  IF f.len = 1 /\ f.in[0] = 0 /\ f.out[0] = 119 THEN "BUTTON"
  ELSE IF f.len < 2 THEN f.state
  ELSE IF f.in[0] = 0 /\ In7F(f.in[1]) THEN "MESSAGE"
  ELSE IF In7F(f.in[0]) /\ f.in[1] = 0 THEN "ANNUNCIATORS"
  ELSE "CONTROL"

(* Each operator below is one arm of the switch; f holds the byte already. *)

OnInit(f) ==
  /\ frame.state = "INIT"
  /\ frame' = Guarded(IF LastIsEof(f) THEN Ended(f) ELSE f)
  /\ UNCHANGED << dmm, msg, shift, odd >>

OnUnknown(f) ==
  /\ frame.state = "UNKNOWN"
  /\ frame' = Guarded(IF LastIsEof(f) THEN Ended(f)
                      ELSE [f EXCEPT !.state = Recognise(f)])
  /\ UNCHANGED << dmm, msg, shift, odd >>

OnMessage(f) ==
  /\ frame.state = "MESSAGE"
  /\ \/ /\ LastIsEof(f)
        /\ LET m == Classify(msg)
           IN /\ dmm' = WithBar(Publish(dmm, m), f.in)
              /\ msg' = [m EXCEPT !.need_reset = TRUE]
        /\ frame' = Ended(f)
     \/ /\ ~LastIsEof(f)
        /\ msg' = MessageByte(msg, f.in[f.len - 1])
        /\ frame' = Guarded(f)
        /\ UNCHANGED dmm
  /\ UNCHANGED << shift, odd >>

OnAnnunciators(f) ==
  /\ frame.state = "ANNUNCIATORS"
  /\ \/ /\ LastIsEof(f)
        /\ dmm' = IF f.len >= 4 THEN PublishAnnunciators(dmm, f.in[3], f.in[2])
                                ELSE dmm
        /\ frame' = Ended(f)
     \/ /\ ~LastIsEof(f)
        /\ frame' = Guarded(f)
        /\ UNCHANGED dmm
  /\ UNCHANGED << msg, shift, odd >>

OnControl(f) ==
  /\ frame.state = "CONTROL"
  /\ \/ /\ LastIsEof(f)
        /\ dmm' = DecodeControl(dmm, f)
        /\ frame' = Ended(f)
     \/ /\ ~LastIsEof(f)
        /\ frame' = Guarded(f)
        /\ UNCHANGED dmm
  /\ UNCHANGED << msg, shift, odd >>

OnButton(f) ==
  /\ frame.state = "BUTTON"
  /\ \/ /\ LastIsEof(f)
        /\ frame' = Ended(f)
        /\ UNCHANGED << dmm, shift, odd >>
     \/ /\ ~LastIsEof(f)
        /\ f.in[f.len - 1] # 102
        /\ frame' = Guarded(f)
        /\ UNCHANGED << dmm, shift, odd >>
     \/ /\ f.in[f.len - 1] = 102
        /\ frame' = Ended(f)
        /\ \/ /\ f.len < 3
              /\ UNCHANGED << dmm, shift, odd >>
           \/ /\ f.len >= 3 /\ IsShiftPress(f)
              /\ shift' = PressShift(shift)
              /\ odd' = ~odd
              /\ UNCHANGED dmm
           \/ /\ f.len >= 3 /\ ~IsShiftPress(f)
              /\ shift' = NoWindow
              /\ dmm' = ClearShift(dmm)
              /\ odd' = FALSE
  /\ UNCHANGED msg

-----------------------------------------------------------------------------
(* decoder34401_process *)

(* The call, with processShiftWindow. *)
Begin ==
  /\ pc = "idle"
  /\ pc' = "loop"
  /\ IF shift.active /\ shift.age > ShiftWindow
     THEN /\ shift' = NoWindow
          /\ dmm' = IF shift.count % 2 = 1
                    THEN Counted([dmm EXCEPT !.ann_state =
                                    IF SHIFT \in @ THEN @ \ {SHIFT}
                                                   ELSE @ \cup {SHIFT}], 1)
                    ELSE dmm
     ELSE UNCHANGED << shift, dmm >>
  /\ UNCHANGED << qvars, wire_vars, frame, msg, history >>

ResetSeen == reset_received
NothingLeft == queue = << >>

(* One iteration: take a byte and decode it. *)
DecodeByte ==
  /\ pc = "loop"
  /\ ~ResetSeen
  /\ Take
  /\ LET f == Stored(frame, Head(queue))
     IN \/ OnInit(f)
        \/ OnUnknown(f)
        \/ OnMessage(f)
        \/ OnAnnunciators(f)
        \/ OnControl(f)
        \/ OnButton(f)
  /\ whole' = IF frame'.len = 0 THEN msg'.need_reset ELSE whole
  /\ UNCHANGED << wire_vars, pc >>

(* process_reset up to its last store.  frame_state, buf_len and the       *)
(* queue are left as they are.                                             *)
ResetBody ==
  /\ pc = "loop"
  /\ ResetSeen
  /\ shift' = NoWindow
  /\ msg' = [msg EXCEPT !.need_reset = TRUE, !.corrupt = FALSE,
                        !.menu = FALSE, !.valid = FALSE]
  /\ dmm' = Counted([dmm EXCEPT !.main = ResetScreen, !.ann_state = {},
                                !.blink_mask = {}], 1)
  /\ pc' = "clearing"
  /\ whole' = (frame.len = 0)
  /\ odd' = FALSE
  /\ UNCHANGED << qvars, wire_vars, frame >>

(* ... its last store, and the break out of the loop. *)
ResetDone ==
  /\ pc = "clearing"
  /\ AnswerReset
  /\ pc' = "idle"
  /\ UNCHANGED << wire_vars, work_vars, history >>

Return ==
  /\ pc = "loop"
  /\ NothingLeft
  /\ ~reset_received
  /\ pc' = "idle"
  /\ UNCHANGED << qvars, wire_vars, work_vars, history >>

-----------------------------------------------------------------------------
(* The wire, as the interrupt handlers pass it on, and time. *)

Deliver(w) ==
  \/ Put(w)
  \/ Refuse /\ overruns + sent.damaged < MaxFaults

StartFrame ==
  /\ sending = << >>
  /\ sent.frames < MaxFrames
  /\ sending' \in Frames
  /\ sent' = [sent EXCEPT !.frames = @ + 1]
  /\ UNCHANGED << qvars, work_vars, pc, history >>

SendByte ==
  /\ sending # << >>
  /\ Deliver(Head(sending))
  /\ sending' = Tail(sending)
  /\ UNCHANGED << sent, work_vars, pc, history >>

(* Bits of a byte are missed: the handler appends an end of frame instead. *)
DamageByte ==
  /\ sending # << >>
  /\ overruns + sent.damaged < MaxFaults
  /\ Deliver(Eof)
  /\ sending' = Tail(sending)
  /\ sent' = [sent EXCEPT !.damaged = @ + 1]
  /\ UNCHANGED << work_vars, pc, history >>

(* The instrument is reset: it abandons the frame it was sending. *)
ResetPulse ==
  /\ sent.resets < MaxResets
  /\ RaiseReset
  /\ sending' = << >>
  /\ sent' = [sent EXCEPT !.resets = @ + 1]
  /\ UNCHANGED << work_vars, pc, history >>

Tick ==
  /\ shift.active
  /\ shift.age <= ShiftWindow
  /\ shift' = [shift EXCEPT !.age = @ + 1]
  /\ UNCHANGED << qvars, wire_vars, dmm, frame, msg, pc, history >>

Process == Begin \/ DecodeByte \/ ResetBody \/ ResetDone \/ Return

Wire == StartFrame \/ SendByte \/ DamageByte \/ ResetPulse

Next == Process \/ Wire \/ Tick

Spec == Init /\ [][Next]_vars

(* core1_main calls decoder34401_process in an endless loop. *)
FairSpec == Spec /\ WF_vars(Process)

-----------------------------------------------------------------------------
(* Type invariant.  buf_len is always an index of input_buf when the loop  *)
(* comes round to store a byte, msg_idx never passes the last but one cell *)
(* of msg_work.                                                            *)
TypeOK ==
  /\ QTypeOK
  /\ sending \in Seq(Word)
  /\ sent \in [frames : 0 .. MaxFrames, damaged : 0 .. MaxFaults,
               resets : 0 .. MaxResets]
  /\ dmm \in [main : Text, last_reading : Text, ann_state : SUBSET (0 .. 15),
              bar : Int, bar_style : {0, 1}, blink_mask : SUBSET (0 .. 15),
              new_data_counter : 0 .. CountMod - 1]
  /\ frame \in [state : FrameStates, in : [0 .. BufSize - 1 -> Byte],
                out : [0 .. BufSize - 1 -> Byte], len : 0 .. BufSize - 1]
  /\ msg \in [work : Text, idx : 0 .. DispLen - 1,
              blink : SUBSET (0 .. DispLen - 2),
              need_reset : BOOLEAN, corrupt : BOOLEAN, menu : BOOLEAN,
              valid : BOOLEAN]
  /\ shift \in [active : BOOLEAN, age : 0 .. ShiftWindow + 1,
                count : 0 .. PressMod - 1]
  /\ pc \in {"idle", "loop", "clearing"}
  /\ whole \in BOOLEAN
  /\ odd \in BOOLEAN

(* Every text the decoder hands out is a terminated C string, however long *)
(* the message and whatever its bytes (decoder_34401a.h, `main`).          *)
NulTerminated ==
  /\ dmm.main[DispLen - 1] = 0
  /\ dmm.last_reading[DispLen - 1] = 0
  /\ msg.work[DispLen - 1] = 0

(* The flags display_status goes by are true of the text it shows: a       *)
(* message flagged as a reading is one, a menu is one, never both corrupt  *)
(* and valid; and last_reading only ever holds a reading.                  *)
FlagsDescribeMain ==
  /\ msg.valid => ValidReading(dmm.main) /\ ~msg.corrupt
  /\ msg.menu => InMenu(dmm.main) /\ ~msg.corrupt
  /\ dmm.last_reading[0] # 0 => ValidReading(dmm.last_reading)

(* The SHIFT annunciator is right whatever the order of presses, frames,   *)
(* resets and calls: once the quiet window is over it is on exactly when   *)
(* SHIFT has been pressed an odd number of times since another button or a *)
(* reset last cleared it, and annunciator frames never disturb it, even    *)
(* with more presses than shift_press_count can count.                     *)
ShiftParity ==
  odd = ((SHIFT \in dmm.ann_state) # (shift.active /\ shift.count % 2 = 1))

Consumes == Len(queue') < Len(queue)

(* Resynchronisation: an end-of-frame pair ends the frame in every state   *)
(* of the parser, so damage never spreads past it.                         *)
EofEndsFrame ==
  [][(Consumes /\ taken' = Eof) =>
        frame'.len = 0 /\ frame'.state = "UNKNOWN"]_vars

Publishes == Consumes /\ frame.state = "MESSAGE" /\ taken' = Eof
Payload == [i \in 1 .. frame.len - 2 |-> frame.in[i + 1]]

(* The characters a payload shows, and the one that stands n-th on the     *)
(* display.                                                                *)
Kept(p) == {i \in DOMAIN p : ~Ignored(p[i])}
Place(p, i) == Cardinality({j \in Kept(p) : j < i})
Standing(p, n) == {i \in Kept(p) : Place(p, i) = n}
Glyph(b) == IF IsPrint(CharOf(b)) THEN CharOf(b) ELSE 32

Rendered(p) ==
  [n \in 0 .. DispLen - 1 |->
     IF n < DispLen - 1 /\ Standing(p, n) # {}
     THEN Glyph(p[CHOOSE i \in Standing(p, n) : TRUE])
     ELSE IF n < DispLen - 2 THEN 32 ELSE 0]

(* A message is published as the text of its own frame: nothing of an      *)
(* earlier message is left in it and nothing of it is lost, unless a reset *)
(* cut the frame, or the frame before it overflowed the buffer, or it is   *)
(* empty.                                                                  *)
MessageWhole ==
  [][(Publishes /\ whole /\ Payload # << >>) =>
        dmm'.main = Rendered(Payload)]_vars

(* new_data_counter "increments whenever any of above changes"             *)
(* (decoder_34401a.h): the display loop sees every change, its only signal.*)
ChangesCounted ==
  [][dmm' # dmm => dmm'.new_data_counter # dmm.new_data_counter]_vars

(* A reset is shown even if the instrument never stops sending.            *)
ResetShown == reset_received ~> (dmm.main = ResetScreen /\ dmm.ann_state = {})

=============================================================================
