----------------------------- MODULE FrameBuffers -----------------------------
(***************************************************************************)
(* update_display (display.c): the LCD controller shows one of two frame   *)
(* buffers; the other one is brought up to date, cell by cell and          *)
(* indicator by indicator, where it is thought to differ from what is      *)
(* asked for, and becomes the visible one.                                 *)
(*                                                                         *)
(* The pixels are state of their own (cells, lights): the code's record of *)
(* a buffer (display_state, indicator_state) is not the buffer.            *)
(***************************************************************************)
EXTENDS Integers

CONSTANTS
  LcdColumn,   (* the cells of the display                                 *)
  Cell,        (* [c, flags, blink]: what may be asked of a cell           *)
  Bare,        (* no character, or no overlay                              *)
  Indicator,   (* bits of ann_state that have an indicator                 *)
  Place,       (* function: where on the screen an indicator is drawn      *)
  Mode,        (* function: its mode in the theme, 0, 1 or 2               *)
  Off          (* the picture of a place where nothing is lit              *)

(* In every theme an indicator of mode 0 has its place to itself; a place  *)
(* that several share has one indicator of mode 1, which comes first, and  *)
(* the others are of mode 2.                                               *)
ASSUME ThemeAssumption ==
  /\ Indicator \subseteq 0 .. 15
  /\ Off \notin Indicator
  /\ \A i, j \in Indicator :
       (i < j /\ Place[i] = Place[j]) => Mode[i] \in {1, 2} /\ Mode[j] = 2
  /\ \A j \in Indicator :
       Mode[j] = 2 => \E i \in Indicator : i < j /\ Place[i] = Place[j] /\ Mode[i] = 1

Dark == [c |-> Bare, flags |-> Bare, blink |-> FALSE]
Buffer == {0, 1}
Places == {Place[i] : i \in Indicator}

VARIABLES
  state,             (* the buffer drawn next; the other one is visible    *)
  display_state, indicator_state,   (* what each buffer is thought to show *)
  cells, lights,                    (* what each buffer shows              *)
  asked                             (* what was last asked for             *)

frame_vars == << state, display_state, indicator_state, cells, lights, asked >>

FInit ==
  /\ state = 0
  /\ display_state = [b \in Buffer |-> [i \in LcdColumn |-> Dark]]
  /\ indicator_state = [b \in Buffer |-> {}]
  /\ cells = [b \in Buffer |-> [i \in LcdColumn |-> << Bare, Bare >>]]
  /\ lights = [b \in Buffer |-> [p \in Places |-> Off]]
  /\ asked = [cur |-> [i \in LcdColumn |-> Dark], ann |-> {}]

-----------------------------------------------------------------------------
(* Slips: update_display with one mistake in it.                           *)
KeptOnceDark(old, new) ==               \* blinking then is not redrawn now
  old.c = new.c /\ old.flags = new.flags /\ ~ new.blink
SkippedIfSame(i, old, new) ==           \* mode 1 taken for mode 0
  (i \in new) = (i \in old) \/ (i \notin new /\ Mode[i] = 2)

-----------------------------------------------------------------------------
(* A cell is left alone if this buffer is thought to show it and it blinks *)
(* neither now nor then.                                                   *)
Kept(old, new) ==
  /\ old.c = new.c
  /\ old.flags = new.flags
  /\ ~ new.blink
  /\ ~ old.blink

(* The character's tile, blank while a blinking one is off, and overlays. *)
Drawn(new, dark) == << IF new.blink /\ dark THEN Bare ELSE new.c, new.flags >>

(* An indicator is left alone if it did not change and has its place to    *)
(* itself (mode 0), or is off and another one of its place wipes it        *)
(* (mode 2).                                                               *)
Skipped(i, old, new) ==
  \/ (i \in new) = (i \in old) /\ Mode[i] = 0
  \/ i \notin new /\ Mode[i] = 2

Topmost(set) == CHOOSE i \in set : \A j \in set : j <= i

(* Drawn in the order of their bits, the last one at a place stays. *)
Lit(pictures, old, new) ==
  [p \in Places |->
     LET drawn == {i \in Indicator : Place[i] = p /\ ~ Skipped(i, old, new)}
     IN IF drawn = {} THEN pictures[p]
        ELSE IF Topmost(drawn) \in new THEN Topmost(drawn) ELSE Off]

(* The clock says whether blinking cells are dark this time. *)
UpdateDisplay(newstate, ind_flags, dark) ==
  LET kept(i) == Kept(display_state[state][i], newstate[i])
  IN /\ display_state' = [display_state EXCEPT ![state] =
          [i \in LcdColumn |-> IF kept(i) THEN @[i] ELSE newstate[i]]]
     /\ cells' = [cells EXCEPT ![state] =
          [i \in LcdColumn |-> IF kept(i) THEN @[i] ELSE Drawn(newstate[i], dark)]]
     /\ lights' = [lights EXCEPT ![state] =
          Lit(@, indicator_state[state], ind_flags)]
     /\ indicator_state' = [indicator_state EXCEPT ![state] = ind_flags]
     /\ asked' = [cur |-> newstate, ann |-> ind_flags]
     /\ state' = 1 - state

FNext ==
  \E newstate \in [LcdColumn -> Cell \cup {Dark}], ind_flags \in SUBSET Indicator,
     dark \in BOOLEAN :
       UpdateDisplay(newstate, ind_flags, dark)

FSpec == FInit /\ [][FNext]_frame_vars

-----------------------------------------------------------------------------
Visible == 1 - state

(* The visible buffer shows the cells last asked for, dark only where they *)
(* blink, although it was redrawn two swaps ago and only in part           *)
(* (update_display).                                                       *)
CellsAreCurrent ==
  \A i \in LcdColumn :
     LET new == asked.cur[i]
     IN \/ cells[Visible][i] = << new.c, new.flags >>
        \/ new.blink /\ cells[Visible][i] = << Bare, new.flags >>

(* ... and at each place the last of its indicators that is on, or none:   *)
(* Continuity, for one, does not survive in the place it shares with Diode *)
(* and 4-Wire when it goes off (update_display, display_indicators).       *)
LightsAreCurrent ==
  \A p \in Places :
     LET on == {i \in asked.ann : Place[i] = p}
     IN lights[Visible][p] = IF on = {} THEN Off ELSE Topmost(on)

=============================================================================
