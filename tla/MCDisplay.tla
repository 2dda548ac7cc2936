------------------------------ MODULE MCDisplay ------------------------------
(***************************************************************************)
(* display.c.  For display_status: two cells, and messages with and        *)
(* without an overlay, one of which blinks; and, for the layout alone,     *)
(* four cells and every message of up to five characters.  For             *)
(* update_display: one cell (no code relates two); Rear with a place of    *)
(* its own and Diode, Continuity and 4-Wire, which share one in the nixie  *)
(* themes.  The two modules share no variable, so that the run goes        *)
(* through the steps of the one or of the other, not through their         *)
(* products.                                                               *)
(***************************************************************************)
EXTENDS DisplayStatus, FrameBuffers, TLC

VARIABLE side        \* whose steps these are

(* "..1", and "1.2:" whose 2 blinks *)
MCMessage ==
  {[text |-> Assembled(<< ".", ".", "1" >>), mask |-> {}],
   [text |-> Assembled(<< "1", ".", "2", ":" >>), mask |-> {2}]}

Wide == INSTANCE DisplayLayout WITH Cols <- 4, BufLen <- 6

MCTiles == {"1", "2", "a", " "}

(* Whatever its marks - leading, trailing, repeated, mixed, one too many   *)
(* for the cells - each character of a message is on the LCD in its turn,  *)
(* but for those without a picture, a leading mark and the last of         *)
(* repeated ones, which are blank (display_status's layout loop).          *)
ASSUME LayoutShowsText == Wide!ShowsAll({"a", " ", "("} \cup Mark)

MCCell ==
  {[c |-> "1", flags |-> Bare, blink |-> FALSE],
   [c |-> "1", flags |-> Bare, blink |-> TRUE],
   [c |-> "1", flags |-> ".", blink |-> FALSE]}

MCIndicator == {10, 12, 13, 14}
MCPlace == (10 :> 228 @@ 12 :> 0 @@ 13 :> 0 @@ 14 :> 0)
MCMode == (10 :> 0 @@ 12 :> 1 @@ 13 :> 2 @@ 14 :> 2)

MCInit == Init /\ FInit /\ side \in {"status", "buffers"}
StatusStep == side = "status" /\ Next /\ UNCHANGED frame_vars
BufferStep == side = "buffers" /\ FNext /\ UNCHANGED vars
MCNext == (StatusStep \/ BufferStep) /\ UNCHANGED side
MCSpec == MCInit /\ [][MCNext]_<< vars, frame_vars, side >>
(* The fairness of FairSpec, where DisplayStatus takes steps *)
MCFairSpec ==
  MCSpec /\ WF_vars(side = "status" /\ Loop) /\ WF_vars(side = "status" /\ Tick)
=============================================================================
