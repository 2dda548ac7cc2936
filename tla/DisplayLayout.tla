---------------------------- MODULE DisplayLayout ----------------------------
(***************************************************************************)
(* How display_status (display.c) lays a message out on the LCD.  The      *)
(* instrument's vacuum-fluorescent display has no cells for punctuation:   *)
(* a '.', ',' or ':' is drawn as an overlay of the cell before it, so a    *)
(* message of more characters than there are cells fits.  A mark that gets *)
(* a cell of its own has no picture there.                                 *)
(*                                                                         *)
(* A message is a function from 0 .. BufLen - 1 to characters; a character *)
(* that is not a punctuation mark is any other value.                      *)
(***************************************************************************)
EXTENDS Integers, SequencesExt

CONSTANTS
  Cols,      (* cells of the display, DISPLAY_COLS                          *)
  BufLen,    (* characters of a message buffer, DISPLAY_BUF_LEN             *)
  Nul,       (* the terminator                                              *)
  Tiles      (* characters the theme has a picture of, in either case       *)

Column == 0 .. Cols - 1
Index == 0 .. BufLen - 1
Mark == {".", ",", ":"}
Blank == " "

ASSUME LayoutAssumption ==
  /\ Cols \in Nat \ {0}
  /\ BufLen \in Nat /\ BufLen >= 2
  /\ Nul \notin Mark \cup Tiles
  /\ Blank \in Tiles /\ Tiles \cap Mark = {}     \* display_chars of the themes

(* A C string in a buffer the rest of which is zero, as dmm_putc_safe and  *)
(* process_reset leave them.                                               *)
Terminated(text) ==
  /\ DOMAIN text = Index
  /\ \E z \in Index : \A d \in Index : text[d] = Nul <=> d >= z

(* The character read at d.  Past the buffer lies last_reading, which      *)
(* starts with no mark: what it starts with cannot matter.                 *)
At(text, d) == IF d \in Index THEN text[d] ELSE Nul

-----------------------------------------------------------------------------
Clamp(d) == IF d > BufLen - 1 THEN BufLen - 1 ELSE d

(* The cell that shows text[d] also takes in the mark after it, unless it  *)
(* shows the same mark itself.                                             *)
Absorbs(text, d) ==
  At(text, d + 1) \in Mark /\ At(text, d) # At(text, d + 1)

(* The index of the message each cell shows. *)
Source(text) ==
  LET src[i \in Column] ==
        IF i = 0 THEN 0
        ELSE LET d == src[i - 1]
             IN Clamp(IF Absorbs(text, d) THEN d + 2 ELSE d + 1)
  IN src

(* The overlay a cell carries, Nul for none: '.' is OVERLAY_PERIOD, ','    *)
(* OVERLAY_COMMA, ':' both OVERLAY_PERIOD and OVERLAY_DOT.  The cell of a  *)
(* repeated mark carries it and leaves it to the next cell too.            *)
Overlay(text, d) == IF At(text, d + 1) \in Mark THEN At(text, d + 1) ELSE Nul

Blinks(text, mask, i) == i \in mask

(* display_status's loop: the cells that show text with blink mask mask.   *)
Layout(text, mask) ==
  LET src == Source(text)
  IN [i \in Column |-> [c |-> text[src[i]],
                        flags |-> Overlay(text, src[i]),
                        blink |-> Blinks(text, mask, i)]]

-----------------------------------------------------------------------------
(* The picture of a character (init_theme): blank unless the theme has one. *)
Glyph(c) == IF c \in Tiles THEN c ELSE Blank

(* What a cell draws for its own character.  The cell of a mark stays      *)
(* blank; if the next character is the same mark its overlay is there, and *)
(* stands for the cell's own.                                              *)
Face(cell) ==
  IF cell.c \in Mark /\ cell.flags = cell.c THEN cell.c ELSE Glyph(cell.c)

(* What a cell makes of the characters it shows: its own and the overlay   *)
(* it took in.  A cell past the end of the message shows none.             *)
Seen(cell) ==
  IF cell.c = Nul THEN IF cell.flags = Nul THEN << >> ELSE << cell.flags >>
  ELSE IF cell.flags \in {Nul, cell.c} THEN << Face(cell) >>
  ELSE << Face(cell), cell.flags >>

SeenText(cells) == FlattenSeq([i \in 1 .. Cols |-> Seen(cells[i - 1])])

(* The characters a reader can count on: those with a picture, a mark that *)
(* follows anything but a mark, and each of repeated marks but the last.   *)
Legible(text, p) ==
  \/ text[p] \in Tiles
  \/ text[p] \in Mark /\ p > 0 /\ text[p - 1] \notin Mark
  \/ text[p] \in Mark /\ At(text, p + 1) = text[p]

(* From left to right the cells show a prefix of text: no character is     *)
(* lost, repeated or moved by the overlays.  Only a character without a    *)
(* picture, or a mark with no cell to carry it, is left blank.             *)
Shows(cells, text) ==
  LET seen == SeenText(cells)
  IN /\ Len(seen) <= BufLen
     /\ \A k \in 1 .. Len(seen) :
          \/ seen[k] = text[k - 1]
          \/ seen[k] = Blank /\ ~ Legible(text, k - 1)

(* The message dmm_putc_safe leaves after the characters s: it starts out  *)
(* blank and its last place stays the terminator.                          *)
Assembled(s) ==
  [d \in Index |-> IF d < Len(s) THEN s[d + 1]
                   ELSE IF d < BufLen - 2 THEN Blank ELSE Nul]

ShowsAll(chars) ==
  \A s \in BoundedSeq(chars, BufLen - 1) :
     Shows(Layout(Assembled(s), {}), Assembled(s))

=============================================================================
