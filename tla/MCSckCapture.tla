---------------------------- MODULE MCSckCapture ----------------------------
(* Model-checking instance of the capture path. *)
EXTENDS SckCapture

(* One step inside a byte, a pause the handler must notice, and a pause of *)
(* exactly one turn of the clock, which it cannot.                         *)
MCGaps == {1, MaxSckDelay + 1, TimeMod}

=============================================================================
