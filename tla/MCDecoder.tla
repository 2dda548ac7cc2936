----------------------------- MODULE MCDecoder -----------------------------
(***************************************************************************)
(* Model-checking instances of the frame parser: a display of three        *)
(* characters, a buffer of eight bytes, frames of every kind the protocol   *)
(* has and the ones that go wrong.                                         *)
(***************************************************************************)
EXTENDS Decoder

MCWord == [in : 0 .. 255, out : 0 .. 255]
MCNothing == [in |-> 0, out |-> 0]

MCResetText == << 82, 83 >>

Pairs(ins, outs) == [i \in 1 .. Len(ins) |-> [in |-> ins[i], out |-> outs[i]]]
Quiet(ins) == [i \in 1 .. Len(ins) |-> [in |-> ins[i], out |-> 0]]
Frame(ins) == Quiet(ins) \o << Eof >>

(* the regular expressions, by the first character *)
MCValidReading(t) == t[0] \in 48 .. 57
MCInMenu(t) == t[0] = 65
MCTextDisplay(t) == t[0] = 84

Reading  == Frame(<< 0, 127, 49, 132, 50, 51 >>)     \* "1.23", one too long
Menu     == Frame(<< 0, 127, 65, 141 >>)             \* "A:", A blinks
Steady   == Frame(<< 0, 127, 65, 140 >>)             \* "A:", nothing blinks
Unreadable == Frame(<< 0, 127, 7 >>)                 \* control character
Empty    == Frame(<< 0, 127 >>)
TooLong  == Frame(<< 0, 127, 49, 50, 51, 52, 53, 54 >>)
Ann      == Frame(<< 127, 0, 1, 8 >>)                \* sample and SHIFT bits
Control  == Frame(<< 0, 73 >>)
ShiftKey == Pairs(<< 0, 0, 102 >>, << 119, 157, 207 >>)
OtherKey == Pairs(<< 0, 0, 102 >>, << 119, 1, 2 >>)

MCTails == {<< Eof >>}

MessageFrames == {Reading, Menu, Steady, Unreadable, Empty, TooLong}
ButtonFrames == {Menu, Ann, Control, ShiftKey, OtherKey}

=============================================================================
