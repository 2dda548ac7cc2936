---------------------------- MODULE DisplayStatus ----------------------------
(***************************************************************************)
(* Core 1's display loop (core1_main, display_status): when the decoder    *)
(* has published something, or 250 ms have passed, the loop decides which  *)
(* message is on the LCD.  A message the decoder is sure of is shown at    *)
(* once, any other one is held back.                                       *)
(*                                                                         *)
(* Time passes in units of 50 ms, and the timers saturate: there is no     *)
(* bound on it.  The decoder's actions are what Decoder.tla lets it do to  *)
(* the variables the loop reads; drawing is FrameBuffers.tla.              *)
(***************************************************************************)
EXTENDS DisplayLayout

CONSTANTS
  Message,     (* [text, mask]: messages the decoder may publish and the   *)
               (* indices its blink mask has (messageByte)                 *)
  Poll,        (* 250 ms                                                   *)
  Delay        (* 300 ms                                                   *)

ASSUME StatusAssumption ==
  /\ \A m \in Message : Terminated(m.text) /\ m.mask \subseteq Index
  /\ Poll \in Nat \ {0}
  /\ Delay \in Nat \ {0}

Kind == {"valid", "menu", "plain", "corrupt"}
NoText == [d \in Index |-> Nul]
Spaces == Assembled(<< >>)
NoCells == [i \in Column |-> [c |-> Nul, flags |-> Nul, blink |-> FALSE]]
Idle == Delay + 2       \* the timer is not running: new_disp_time = 0

VARIABLES
  (* state->dmm *)
  main, blink_mask,     (* the message and its mask                        *)
  kind,                 (* corrupt_msg, menu_msg, valid_reading            *)
  new_data,             (* new_data_counter # dmm_last                     *)
  (* core1_main and display_status *)
  t_display,            (* time since the last display_status              *)
  disp, cur_disp,       (* the cells of the last message and the shown one *)
  cur_disp_txt,         (* the last message's text                         *)
  state_disp,           (* state->disp: what SCPI says is displayed        *)
  new_disp_time,        (* time since disp was laid out                    *)
  (* history *)
  silent,               (* the instrument sends nothing any more           *)
  age                   (* time since main was published                   *)

dmm == << main, blink_mask, kind >>
shown == << disp, cur_disp, cur_disp_txt, state_disp, new_disp_time >>
vars == << main, blink_mask, kind, new_data, t_display, disp, cur_disp,
           cur_disp_txt, state_disp, new_disp_time, silent, age >>

-----------------------------------------------------------------------------
(* Slips: display_status with one mistake in it.                           *)
StartedOnce(t) == IF t = Idle THEN 0 ELSE t    \* not started again
OldText == state_disp                          \* the text is not copied
WhenNew == new_data                            \* no poll
AlwaysRuns(t) == IF t = Delay + 1 THEN t ELSE t + 1  \* 0 taken for a time

-----------------------------------------------------------------------------
Init ==
  /\ main = Spaces              \* decoder34401_init
  /\ blink_mask = {}
  /\ kind = "plain"
  /\ new_data = FALSE
  /\ t_display = 0
  /\ disp = NoCells
  /\ cur_disp = NoCells
  /\ cur_disp_txt = NoText
  /\ state_disp = NoText
  /\ new_disp_time = Idle
  /\ silent = FALSE
  /\ age = 0

-----------------------------------------------------------------------------
(* A MESSAGE frame ends: its text and mask are published with its class.   *)
(* process_reset publishes "SYSTEM RESET" the same way, as plain text.     *)
PublishMessage(m, k) ==
  /\ ~ silent
  /\ main' = m.text
  /\ blink_mask' = m.mask
  /\ kind' = k
  /\ new_data' = TRUE
  /\ age' = 0
  /\ UNCHANGED << t_display, shown, silent >>

(* messageByte on the first byte of the next message, which resets the     *)
(* flags and not the text, and on an unprintable one.                      *)
BeginMessage(k) ==
  /\ ~ silent
  /\ kind' = k
  /\ UNCHANGED << main, blink_mask, new_data, t_display, shown, silent, age >>

(* decodeControlFrame: one position blinks. *)
PublishBlink(i) ==
  /\ ~ silent
  /\ blink_mask' = {i}
  /\ new_data' = TRUE
  /\ UNCHANGED << main, kind, t_display, shown, silent, age >>

(* An annunciator frame, or the end of a SHIFT window. *)
PublishAnnunciators ==
  /\ ~ silent
  /\ new_data' = TRUE
  /\ UNCHANGED << dmm, t_display, shown, silent, age >>

FallSilent ==
  /\ ~ silent
  /\ silent' = TRUE
  /\ UNCHANGED << dmm, new_data, t_display, shown, age >>

-----------------------------------------------------------------------------
(* display_status with new data. *)
Trusted == kind \in {"valid", "menu"}

Restarted(t) == 0

ShowNew ==
  /\ new_data
  /\ disp' = Layout(main, blink_mask)
  /\ cur_disp_txt' = main
  /\ IF Trusted
     THEN /\ state_disp' = main
          /\ cur_disp' = disp'
          /\ new_disp_time' = Idle
     ELSE /\ new_disp_time' = Restarted(new_disp_time)
          /\ UNCHANGED << state_disp, cur_disp >>
  /\ new_data' = FALSE
  /\ t_display' = 0
  /\ UNCHANGED << dmm, silent, age >>

(* display_status without: what was held back for more than 300 ms is let  *)
(* through.                                                                *)
PollDue == t_display = Poll

Overdue == new_disp_time = Delay + 1

LateText == cur_disp_txt

ShowAgain ==
  /\ ~ new_data
  /\ PollDue
  /\ IF Overdue
     THEN /\ state_disp' = LateText
          /\ cur_disp' = disp
          /\ new_disp_time' = Idle
     ELSE UNCHANGED << state_disp, cur_disp, new_disp_time >>
  /\ t_display' = 0
  /\ UNCHANGED << dmm, new_data, disp, cur_disp_txt, silent, age >>

(* 50 ms pass. *)
Later(t) == IF t \in {Delay + 1, Idle} THEN t ELSE t + 1

Tick ==
  /\ t_display' = IF t_display = Poll THEN Poll ELSE t_display + 1
  /\ new_disp_time' = Later(new_disp_time)
  /\ age' = IF age = Delay THEN Delay ELSE age + 1
  /\ UNCHANGED << dmm, new_data, disp, cur_disp, cur_disp_txt, state_disp, silent >>

Decoder ==
  \/ \E m \in Message, k \in Kind : PublishMessage(m, k)
  \/ \E k \in {"plain", "corrupt"} : BeginMessage(k)
  \/ \E i \in Column : PublishBlink(i)
  \/ PublishAnnunciators
  \/ FallSilent

Loop == ShowNew \/ ShowAgain

Next ==
  \/ Decoder
  \/ Loop
  \/ Tick

Spec == Init /\ [][Next]_vars

(* The loop never blocks and time passes; the instrument owes nothing. *)
FairSpec == Spec /\ WF_vars(Loop) /\ WF_vars(Tick)

-----------------------------------------------------------------------------
Text == {NoText, Spaces} \cup {m.text : m \in Message}

(* The variables keep to their ranges.                                     *)
TypeOK ==
  /\ main \in Text
  /\ blink_mask \subseteq Index \cup Column
  /\ kind \in Kind
  /\ new_data \in BOOLEAN
  /\ t_display \in 0 .. Poll
  /\ cur_disp_txt \in Text
  /\ state_disp \in Text
  /\ new_disp_time \in 0 .. Idle
  /\ silent \in BOOLEAN
  /\ age \in 0 .. Delay

(* What remote users are told is on the display (state->disp) is what the  *)
(* cells on it were laid out from, also when a message comes through late  *)
(* (display_status copies the text and the cells in two places): character *)
(* by character, a blank only where the theme has no picture or a mark has *)
(* no cell to carry it.                                                    *)
ToldAsShown == Shows(cur_disp, state_disp)

(* What comes on the screen is the decoder's latest message, and either    *)
(* the decoder vouches for it or it has been the latest for 300 ms: one    *)
(* it does not vouch for and replaces within that time is never seen       *)
(* (display_status).                                                       *)
OnlyOldOrTrusted ==
  [][state_disp' # state_disp => state_disp' = main /\ (Trusted \/ age = Delay)]_vars

(* When the instrument falls silent its last message ends up on the LCD,   *)
(* however damaged it is, and stays (core1_main, display_status).          *)
SettlesOnLast ==
  (silent /\ main # Spaces)
    ~> [](state_disp = main /\ cur_disp = Layout(main, blink_mask))

(* decoder_34401a.c, messageByte on byte 0x8d: "previous character         *)
(* blinks".  The cell that blinks must be the one that shows it, as it is  *)
(* for the masks a CONTROL frame sets (decoder_34401a.h: "bits 0..11 =     *)
(* blink this character position").                                        *)
BlinkFollowsCharacter ==
  \A m \in Message :
     (m.mask # {} /\ cur_disp = Layout(m.text, m.mask)) =>
        \A i \in Column : cur_disp[i].blink <=> Source(m.text)[i] \in m.mask

(* display.c on the delayed copy: "Display (possibly) corrupt message      *)
(* after 300ms (if no valid message received by then)".  So a message that *)
(* was published either comes on the LCD or gives way to another one.      *)
HeldBackIsShown ==
  \A m \in Message : main = m.text ~> (state_disp = m.text \/ main # m.text)

=============================================================================
