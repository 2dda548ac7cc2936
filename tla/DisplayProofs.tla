----------------------------- MODULE DisplayProofs -----------------------------
(***************************************************************************)
(* Proofs about the two halves of the display: the frame buffers, for any  *)
(* cells and any theme that satisfies ThemeAssumption, and the decision    *)
(* what to show, for any messages and delays.                              *)
(***************************************************************************)
EXTENDS DisplayStatus, FrameBuffers, WellFoundedInduction, SequenceTheorems, TLAPS

(* A set of indicators that is not empty has a last one, which Topmost is. *)
LEMMA TopmostIsLast ==
  ASSUME NEW set \in SUBSET Indicator, set # {}
  PROVE  Topmost(set) \in set /\ \A j \in set : j <= Topmost(set)
<1> DEFINE mirrored == {n \in Nat : n <= 15 /\ 15 - n \in set}
<1>1. set \subseteq 0 .. 15
  BY ThemeAssumption
<1>2. PICK i \in set : TRUE
  OBVIOUS
<1>3. 15 - i \in mirrored
  BY <1>1, <1>2
<1>4. \E n \in mirrored : \A m \in mirrored : n <= m
  <2> DEFINE less == OpToRel(<, Nat)
  <2>1. IsWellFoundedOn(less, Nat)
    BY NatLessThanWellFounded
  <2>2. \A m, n \in Nat : m < n => << m, n >> \in less
    BY DEF OpToRel
  <2>3. mirrored \subseteq Nat /\ mirrored # {}
    BY <1>3
  <2> HIDE DEF less
  <2>4. PICK n \in mirrored : \A m \in mirrored : << m, n >> \notin less
    BY <2>1, <2>3, WFMin
  <2>5. ASSUME NEW m \in mirrored PROVE n <= m
    <3>1. m \in Nat /\ n \in Nat /\ ~(m < n)
      BY <2>2, <2>3, <2>4
    <3> QED BY <3>1
  <2> QED BY <2>5
<1>5. PICK n \in mirrored : \A m \in mirrored : n <= m
  BY <1>4
<1>6. ASSUME NEW j \in set PROVE 15 - j \in mirrored /\ j <= 15 - n
  <2>1. j \in 0 .. 15 /\ 15 - (15 - j) = j
    BY <1>1
  <2>2. 15 - j \in mirrored
    BY <2>1
  <2>3. n \in Nat /\ n <= 15 - j
    BY <1>5, <2>2
  <2> QED BY <2>1, <2>2, <2>3
<1>7. \E k \in set : \A j \in set : j <= k
  <2>1. 15 - n \in set
    BY <1>5
  <2> QED BY <1>6, <2>1
<1> QED BY <1>7 DEF Topmost

-----------------------------------------------------------------------------
(* Frame buffers.  What a buffer is thought to show, it shows: the cells   *)
(* up to the darkness of one that blinks, the lights exactly.              *)
Shown(cell, new) ==
  \/ cell = << new.c, new.flags >>
  \/ new.blink /\ cell = << Bare, new.flags >>
LightAt(set, p) ==
  LET on == {i \in set : Place[i] = p} IN IF on = {} THEN Off ELSE Topmost(on)

BufferShape ==
  /\ state \in Buffer
  /\ display_state \in [Buffer -> [LcdColumn -> Cell \cup {Dark}]]
  /\ indicator_state \in [Buffer -> SUBSET Indicator]
  /\ DOMAIN cells = Buffer /\ \A b \in Buffer : DOMAIN cells[b] = LcdColumn
  /\ DOMAIN lights = Buffer /\ \A b \in Buffer : DOMAIN lights[b] = Places
  /\ asked.ann = indicator_state[Visible]

CellsKnown ==
  \A b \in Buffer, i \in LcdColumn : Shown(cells[b][i], display_state[b][i])
LightsKnown ==
  \A b \in Buffer, p \in Places : lights[b][p] = LightAt(indicator_state[b], p)

BufferInv == BufferShape /\ CellsKnown /\ LightsKnown /\ CellsAreCurrent

(* One redraw leaves the place p with the right light, whatever the modes  *)
(* of its indicators let it skip.                                          *)
LEMMA LitRight ==
  ASSUME NEW old \in SUBSET Indicator, NEW new \in SUBSET Indicator,
         NEW pictures, NEW p \in Places, pictures[p] = LightAt(old, p)
  PROVE  Lit(pictures, old, new)[p] = LightAt(new, p)
<1> DEFINE here == {i \in Indicator : Place[i] = p}
           drawn == {i \in Indicator : Place[i] = p /\ ~ Skipped(i, old, new)}
           on == {i \in new : Place[i] = p}
<1>1. Lit(pictures, old, new)[p] =
        IF drawn = {} THEN pictures[p]
        ELSE IF Topmost(drawn) \in new THEN Topmost(drawn) ELSE Off
  BY DEF Lit
<1>2. LightAt(new, p) = IF on = {} THEN Off ELSE Topmost(on)
  BY DEF LightAt
<1>3. PICK i \in Indicator : Place[i] = p
  BY DEF Places
<1>4. CASE \E m \in here : Mode[m] \in {1, 2}
  <2>1. PICK f \in here : Mode[f] = 1
    BY <1>4, ThemeAssumption
  <2>2. \A j \in here : j # f => f < j /\ Mode[j] = 2
    <3>1. ASSUME NEW j \in here, j # f PROVE f < j /\ Mode[j] = 2
      <4>1. j \in 0 .. 15 /\ f \in 0 .. 15
        BY ThemeAssumption
      <4>2. CASE f < j
        BY <2>1, <4>2, ThemeAssumption
      <4>3. CASE j < f
        BY <2>1, <4>3, ThemeAssumption
      <4> QED BY <3>1, <4>1, <4>2, <4>3
    <3> QED BY <3>1
  <2>3. drawn = on \cup {f}
    BY <2>1, <2>2 DEF Skipped
  <2>4. CASE on = {}
    <3>1. Topmost(drawn) = f
      BY <2>3, <2>4, TopmostIsLast
    <3>2. f \notin new
      BY <2>1, <2>4
    <3> QED BY <1>1, <1>2, <2>3, <2>4, <3>1, <3>2
  <2>5. CASE on # {}
    <3>1. Topmost(on) \in on /\ \A j \in on : j <= Topmost(on)
      BY <2>5, TopmostIsLast
    <3>2. Topmost(drawn) \in drawn /\ \A j \in drawn : j <= Topmost(drawn)
      BY <2>3, TopmostIsLast
    <3>3. Topmost(drawn) = Topmost(on)
      <4>1. Topmost(on) \in drawn /\ Topmost(on) <= Topmost(drawn)
        BY <2>3, <3>1, <3>2
      <4>2. Topmost(drawn) \in on
        <5>1. CASE Topmost(drawn) # f
          BY <2>3, <3>2, <5>1
        <5>2. CASE Topmost(drawn) = f
          <6>1. Topmost(on) <= f /\ (Topmost(on) # f => f < Topmost(on))
            BY <2>2, <3>1, <4>1, <5>2
          <6>2. Topmost(on) \in 0 .. 15 /\ f \in 0 .. 15
            BY <3>1, ThemeAssumption
          <6> QED BY <3>1, <5>2, <6>1, <6>2
        <5> QED BY <5>1, <5>2
      <4>3. Topmost(drawn) <= Topmost(on)
        BY <3>1, <4>2
      <4>4. Topmost(drawn) \in 0 .. 15 /\ Topmost(on) \in 0 .. 15
        BY <3>1, <4>2, ThemeAssumption
      <4> QED BY <4>1, <4>3, <4>4
    <3> QED BY <1>1, <1>2, <2>3, <2>5, <3>1, <3>3
  <2> QED BY <2>4, <2>5
<1>5. CASE \A m \in here : Mode[m] \notin {1, 2}
  <2>1. here = {i}
    <3>1. ASSUME NEW j \in here, j # i PROVE FALSE
      <4>1. j \in 0 .. 15 /\ i \in 0 .. 15
        BY ThemeAssumption
      <4>2. i < j \/ j < i
        BY <3>1, <4>1
      <4> QED BY <1>3, <1>5, <4>2, ThemeAssumption
    <3> QED BY <1>3, <3>1
  <2>2. Mode[i] \notin {1, 2}
    BY <1>3, <1>5
  <2>3. Mode[i] # 0 \/ (i \in new) # (i \in old) => drawn = {i}
    BY <1>3, <2>1, <2>2 DEF Skipped
  <2>4. drawn # {i} => drawn = {} /\ (i \in new) = (i \in old)
    BY <2>1, <2>3
  <2>5. on = IF i \in new THEN {i} ELSE {}
    BY <1>3, <2>1
  <2>6. {j \in old : Place[j] = p} = IF i \in old THEN {i} ELSE {}
    BY <1>3, <2>1
  <2>7. CASE drawn = {i}
    <3>1. Topmost(drawn) = i
      BY <2>7, TopmostIsLast
    <3> QED BY <1>1, <1>2, <2>5, <2>7, <3>1
  <2>8. CASE drawn # {i}
    <3>1. LightAt(new, p) = LightAt(old, p)
      BY <2>4, <2>5, <2>6, <2>8 DEF LightAt
    <3> QED BY <1>1, <2>4, <2>8, <3>1
  <2> QED BY <2>7, <2>8
<1> QED BY <1>4, <1>5

LEMMA BuffersStart == FInit => BufferInv
<1> SUFFICES ASSUME FInit PROVE BufferInv
  OBVIOUS
<1> USE DEF FInit, Buffer, Visible, Dark
<1>1. BufferShape
  BY DEF BufferShape
<1>2. CellsKnown
  BY DEF CellsKnown, Shown
<1>3. LightsKnown
  BY DEF LightsKnown, LightAt
<1>4. CellsAreCurrent
  BY DEF CellsAreCurrent
<1> QED BY <1>1, <1>2, <1>3, <1>4 DEF BufferInv

(* One update_display, case by case of what it redraws. *)
LEMMA BuffersStep == BufferInv /\ [FNext]_frame_vars => BufferInv'
<1> SUFFICES ASSUME BufferInv, [FNext]_frame_vars PROVE BufferInv'
  OBVIOUS
<1>1. CASE UNCHANGED frame_vars
  BY <1>1 DEF BufferInv, BufferShape, CellsKnown, LightsKnown, CellsAreCurrent, Shown,
     LightAt, Visible, frame_vars
<1>2. CASE FNext
  <2>1. PICK newstate \in [LcdColumn -> Cell \cup {Dark}], ind_flags \in SUBSET Indicator,
             dark \in BOOLEAN : UpdateDisplay(newstate, ind_flags, dark)
    BY <1>2 DEF FNext
  <2> USE <2>1
  <2>2. /\ state \in Buffer /\ state' = 1 - state /\ Visible' = state
    BY DEF BufferInv, BufferShape, UpdateDisplay, Visible, Buffer
  <2>3. \A b \in Buffer : b # state =>
          /\ display_state'[b] = display_state[b] /\ cells'[b] = cells[b]
          /\ lights'[b] = lights[b] /\ indicator_state'[b] = indicator_state[b]
    BY DEF BufferInv, BufferShape, UpdateDisplay
  <2>4. \A i \in LcdColumn :
          LET kept == Kept(display_state[state][i], newstate[i])
          IN /\ display_state'[state][i] = IF kept THEN display_state[state][i] ELSE newstate[i]
             /\ cells'[state][i] = IF kept THEN cells[state][i] ELSE Drawn(newstate[i], dark)
    BY <2>2 DEF BufferInv, BufferShape, UpdateDisplay
  <2>5. /\ lights'[state] = Lit(lights[state], indicator_state[state], ind_flags)
        /\ indicator_state'[state] = ind_flags
        /\ asked' = [cur |-> newstate, ann |-> ind_flags]
    BY <2>2 DEF BufferInv, BufferShape, UpdateDisplay
  <2>6. BufferShape'
    <3>1. display_state' \in [Buffer -> [LcdColumn -> Cell \cup {Dark}]]
      BY DEF BufferInv, BufferShape, UpdateDisplay
    <3>2. indicator_state' \in [Buffer -> SUBSET Indicator]
      BY DEF BufferInv, BufferShape, UpdateDisplay
    <3>3. DOMAIN cells' = Buffer /\ \A b \in Buffer : DOMAIN cells'[b] = LcdColumn
      BY DEF BufferInv, BufferShape, UpdateDisplay
    <3>4. DOMAIN lights' = Buffer /\ \A b \in Buffer : DOMAIN lights'[b] = Places
      BY DEF BufferInv, BufferShape, UpdateDisplay, Lit
    <3>5. state' \in Buffer
      BY <2>2 DEF Buffer
    <3> QED BY <2>2, <2>5, <3>1, <3>2, <3>3, <3>4, <3>5 DEF BufferShape
  <2>7. CellsKnown'
    <3>1. ASSUME NEW b \in Buffer, NEW i \in LcdColumn
          PROVE  Shown(cells'[b][i], display_state'[b][i])
      <4>1. CASE b # state
        BY <2>3, <4>1 DEF BufferInv, CellsKnown
      <4>2. CASE b = state
        <5>1. CASE Kept(display_state[state][i], newstate[i])
          BY <2>4, <4>2, <5>1 DEF BufferInv, CellsKnown
        <5>2. CASE ~Kept(display_state[state][i], newstate[i])
          BY <2>4, <4>2, <5>2 DEF Shown, Drawn
        <5> QED BY <5>1, <5>2
      <4> QED BY <4>1, <4>2
    <3> QED BY <3>1 DEF CellsKnown
  <2>8. LightsKnown'
    <3>1. ASSUME NEW b \in Buffer, NEW p \in Places
          PROVE  lights'[b][p] = LightAt(indicator_state'[b], p)
      <4>1. CASE b # state
        BY <2>3, <4>1 DEF BufferInv, LightsKnown
      <4>2. CASE b = state
        <5>1. /\ indicator_state[state] \in SUBSET Indicator
              /\ lights[state][p] = LightAt(indicator_state[state], p)
          BY <4>2 DEF BufferInv, BufferShape, LightsKnown
        <5> QED BY <2>5, <4>2, <5>1, LitRight
      <4> QED BY <4>1, <4>2
    <3> QED BY <3>1 DEF LightsKnown
  <2>9. CellsAreCurrent'
    <3>1. ASSUME NEW i \in LcdColumn PROVE Shown(cells'[state][i], newstate[i])
      <4>1. CASE Kept(display_state[state][i], newstate[i])
        <5>1. Shown(cells[state][i], display_state[state][i])
          BY <2>2 DEF BufferInv, CellsKnown
        <5> QED BY <2>4, <4>1, <5>1 DEF Kept, Shown
      <4>2. CASE ~Kept(display_state[state][i], newstate[i])
        BY <2>4, <4>2 DEF Shown, Drawn
      <4> QED BY <4>1, <4>2
    <3> QED BY <2>2, <2>5, <3>1 DEF CellsAreCurrent, Shown
  <2> QED BY <2>6, <2>7, <2>8, <2>9 DEF BufferInv
<1> QED BY <1>1, <1>2

LEMMA BuffersHold == FSpec => []BufferInv
BY BuffersStart, BuffersStep, PTL DEF FSpec

(* The visible buffer shows the cells last asked for (update_display). *)
THEOREM VisibleCellsCurrent == FSpec => []CellsAreCurrent
<1>1. BufferInv => CellsAreCurrent
  BY DEF BufferInv
<1> QED BY <1>1, BuffersHold, PTL

(* ... and at each place of a light the last of the indicators asked for   *)
(* there, and none if none is, in any theme whose shared places begin with *)
(* an indicator of mode 1 and go on with some of mode 2                    *)
(* (display_indicators).                                                   *)
THEOREM VisibleLightsCurrent == FSpec => []LightsAreCurrent
<1>1. BufferInv => LightsAreCurrent
  <2> SUFFICES ASSUME BufferInv, NEW p \in Places
               PROVE  lights[Visible][p] = LightAt(asked.ann, p)
    BY DEF LightsAreCurrent, LightAt
  <2>1. Visible \in Buffer
    BY DEF BufferInv, BufferShape, Visible, Buffer
  <2> QED BY <2>1 DEF BufferInv, BufferShape, LightsKnown
<1> QED BY <1>1, BuffersHold, PTL

-----------------------------------------------------------------------------
(* The layout of a message.  Induction over the columns: what holds of 0   *)
(* and, with n, of n + 1 holds of every natural number.                    *)
LEMMA CountingUp ==
  ASSUME NEW S, 0 \in S, \A n \in Nat : n \in S => n + 1 \in S
  PROVE  Nat \subseteq S
<1> SUFFICES ASSUME NEW k \in Nat, k \notin S PROVE FALSE
  OBVIOUS
<1> DEFINE missed == Nat \ S
           less == OpToRel(<, Nat)
<1>1. IsWellFoundedOn(less, Nat)
  BY NatLessThanWellFounded
<1>2. \A m, n \in Nat : m < n => << m, n >> \in less
  BY DEF OpToRel
<1>3. missed \subseteq Nat /\ missed # {}
  OBVIOUS
<1> HIDE DEF less
<1>4. PICK n \in missed : \A m \in missed : << m, n >> \notin less
  BY <1>1, <1>3, WFMin
<1>5. n # 0 /\ n - 1 \in Nat /\ n - 1 < n /\ (n - 1) + 1 = n
  BY <1>4
<1>6. n - 1 \notin missed
  BY <1>2, <1>4, <1>5
<1> QED BY <1>4, <1>5, <1>6

(* Source is what its equation says: cell 0 shows character 0, and each    *)
(* cell after it what the one before leaves.                               *)
Following(text, d) == Clamp(IF Absorbs(text, d) THEN d + 2 ELSE d + 1)

(* Counted up, a row of any length has a source for each of its cells.     *)
LEMMA RowsHaveSources ==
  ASSUME NEW text, NEW n \in Nat
  PROVE  \E g \in [0 .. n -> Index] :
           g[0] = 0 /\ \A i \in 1 .. n : g[i] = Following(text, g[i - 1])
<1> DEFINE Along(g, k) == g[0] = 0 /\ \A i \in 1 .. k : g[i] = Following(text, g[i - 1])
           S == {k \in Nat : \E g \in [0 .. k -> Index] : Along(g, k)}
<1>1. 0 \in Index /\ \A d \in Index : Following(text, d) \in Index
  BY LayoutAssumption DEF Following, Clamp, Index
<1>2. 0 \in S
  <2> DEFINE g == [i \in 0 .. 0 |-> 0]
  <2>1. g \in [0 .. 0 -> Index] /\ Along(g, 0)
    BY <1>1
  <2> QED BY <2>1
<1>3. ASSUME NEW k \in Nat, k \in S PROVE k + 1 \in S
  <2>1. PICK g \in [0 .. k -> Index] : Along(g, k)
    BY <1>3
  <2> DEFINE h == [i \in 0 .. k + 1 |-> IF i = k + 1 THEN Following(text, g[k]) ELSE g[i]]
  <2>2. h \in [0 .. k + 1 -> Index]
    BY <1>1, <2>1
  <2>3. h[0] = 0
    BY <2>1
  <2>4. ASSUME NEW i \in 1 .. k + 1 PROVE h[i] = Following(text, h[i - 1])
    <3>1. CASE i = k + 1
      BY <3>1
    <3>2. CASE i # k + 1
      <4>1. i \in 1 .. k /\ i - 1 \in 0 .. k /\ i - 1 # k + 1
        BY <3>2
      <4> QED BY <2>1, <4>1
    <3> QED BY <3>1, <3>2
  <2> HIDE DEF h
  <2> QED BY <2>2, <2>3, <2>4
<1> HIDE DEF S
<1>4. n \in S
  BY <1>2, <1>3, CountingUp
<1> QED BY <1>4 DEF S

LEMMA SourceCounts ==
  ASSUME NEW text
  PROVE  /\ Source(text) \in [Column -> Index] /\ Source(text)[0] = 0
         /\ \A i \in 1 .. Cols - 1 : Source(text)[i] = Following(text, Source(text)[i - 1])
<1> USE LayoutAssumption
<1> DEFINE Equation(f) == f = [i \in Column |-> IF i = 0 THEN 0 ELSE Following(text, f[i - 1])]
<1>1. 0 \in Index /\ \A d \in Index : Following(text, d) \in Index
  BY DEF Following, Clamp, Index
<1>2. PICK g \in [0 .. Cols - 1 -> Index] :
        g[0] = 0 /\ \A i \in 1 .. Cols - 1 : g[i] = Following(text, g[i - 1])
  <2>1. Cols - 1 \in Nat
    OBVIOUS
  <2> QED BY <2>1, RowsHaveSources
<1>3. Equation(g)
  <2>1. \A i \in Column : i # 0 => i \in 1 .. Cols - 1 /\ g[i - 1] \in Index
    BY <1>2 DEF Column
  <2>2. \A i \in Column : g[i] = IF i = 0 THEN 0 ELSE Following(text, g[i - 1])
    BY <1>2, <2>1
  <2>3. g = [i \in Column |-> g[i]]
    BY <1>2 DEF Column
  <2> QED BY <2>2, <2>3
<1>4. Source(text) = CHOOSE f : Equation(f)
  BY DEF Source, Following
<1>5. Equation(Source(text))
  <2> HIDE DEF Equation
  <2> QED BY <1>3, <1>4
<1> DEFINE src == Source(text)
<1>6. /\ src = [i \in Column |-> src[i]]
      /\ src[0] = 0
      /\ \A i \in 1 .. Cols - 1 : src[i] = Following(text, src[i - 1])
  <2> HIDE DEF src
  <2>1. src = [i \in Column |-> IF i = 0 THEN 0 ELSE Following(text, src[i - 1])]
    BY <1>5 DEF src
  <2>2. src = [i \in Column |-> src[i]]
    BY <2>1
  <2>3. \A i \in Column : src[i] = IF i = 0 THEN 0 ELSE Following(text, src[i - 1])
    BY <2>1
  <2>4. 0 \in Column /\ \A i \in 1 .. Cols - 1 : i \in Column /\ i # 0
    BY DEF Column
  <2> QED BY <2>2, <2>3, <2>4
<1> HIDE DEF src
<1>7. src[0] = 0
  BY <1>6
<1>8. \A i \in 1 .. Cols - 1 : src[i] = Following(text, src[i - 1])
  BY <1>6
<1> DEFINE S == {k \in Nat : k \in Column => src[k] \in Index}
<1>9. \A k \in Nat : k \in S
  <2>1. 0 \in S
    BY <1>1, <1>7
  <2>2. ASSUME NEW k \in Nat, k \in S PROVE k + 1 \in S
    <3>1. CASE k + 1 \in Column
      <4>1. k \in Column /\ k + 1 \in 1 .. Cols - 1 /\ (k + 1) - 1 = k
        BY <3>1 DEF Column
      <4>2. src[k + 1] = Following(text, src[k])
        BY <1>8, <2>2, <4>1
      <4> QED BY <1>1, <2>2, <4>1, <4>2
    <3>2. CASE k + 1 \notin Column
      BY <3>2
    <3> QED BY <3>1, <3>2
  <2> HIDE DEF S
  <2> QED BY <2>1, <2>2, CountingUp
<1>10. src \in [Column -> Index]
  <2>1. \A i \in Column : src[i] \in Index
    BY <1>9 DEF Column
  <2> QED BY <1>6, <2>1
<1> QED BY <1>7, <1>8, <1>10 DEF src

(* A cell never shows what an earlier one showed or took in. *)
LEMMA SourcesGrow ==
  ASSUME NEW text, NEW i \in Column, NEW j \in Column, i < j
  PROVE  Following(text, Source(text)[i]) <= Source(text)[j]
<1> USE LayoutAssumption DEF Index
<1> DEFINE src == Source(text)
           from == Following(text, src[i])
           S == {n \in Nat : i + 1 + n \in Column => from <= src[i + 1 + n]}
<1>1. /\ src \in [Column -> Index]
      /\ \A k \in 1 .. Cols - 1 : src[k] = Following(text, src[k - 1])
  BY SourceCounts
<1>2. \A d \in Index : Following(text, d) \in Index /\ d <= Following(text, d)
  BY DEF Following, Clamp
<1>3. 0 \in S
  <2> SUFFICES ASSUME i + 1 + 0 \in Column PROVE from <= src[i + 1]
    BY DEF Column
  <2>1. i + 1 \in 1 .. Cols - 1 /\ (i + 1) - 1 = i
    BY DEF Column
  <2>2. from = src[i + 1]
    BY <1>1, <2>1
  <2>3. from \in Index
    BY <1>1, <1>2
  <2> QED BY <2>2, <2>3
<1>4. ASSUME NEW n \in Nat, n \in S PROVE n + 1 \in S
  <2> SUFFICES ASSUME i + 1 + (n + 1) \in Column PROVE from <= src[i + 1 + (n + 1)]
    OBVIOUS
  <2> DEFINE k == i + 1 + (n + 1)
  <2>1. k \in 1 .. Cols - 1 /\ k - 1 = i + 1 + n /\ k - 1 \in Column
    BY DEF Column
  <2>2. from <= src[k - 1]
    BY <1>4, <2>1
  <2> HIDE DEF k
  <2>3. src[k] = Following(text, src[k - 1]) /\ src[k - 1] \in Index
    BY <1>1, <2>1
  <2>4. src[k] \in Index /\ src[k - 1] <= src[k] /\ from \in Index
    BY <1>1, <1>2, <2>3
  <2>5. from <= src[k]
    BY <2>2, <2>3, <2>4
  <2> QED BY <2>5 DEF k
<1>5. j - i - 1 \in Nat /\ i + 1 + (j - i - 1) = j
  BY DEF Column
<1>6. j - i - 1 \in S
  <2> HIDE DEF S
  <2> QED BY <1>3, <1>4, <1>5, CountingUp
<1> QED BY <1>5, <1>6

(* What is drawn of the character at d in a cell of its own. *)
Own(text, d) ==
  IF text[d] \in Mark /\ At(text, d + 1) = text[d] THEN text[d] ELSE Glyph(text[d])

(* A mark that is taken in by the cell before it has no cell of its own.   *)
LEMMA TakenInOnce ==
  ASSUME NEW text, DOMAIN text = Index, text[BufLen - 1] = Nul,
         NEW i \in Column, NEW j \in Column, Absorbs(text, Source(text)[i])
  PROVE  Source(text)[j] # Source(text)[i] + 1
<1> USE LayoutAssumption DEF Index
<1> DEFINE d == Source(text)[i]
           e == Source(text)[j]
<1>1. d \in Index /\ e \in Index
  BY SourceCounts
<1>2. SUFFICES ASSUME e = d + 1 PROVE FALSE
  OBVIOUS
<1>3. i < j => Following(text, d) <= e
  BY SourcesGrow
<1>4. j < i => Following(text, e) <= d
  BY SourcesGrow
<1>5. i = j => e = d
  OBVIOUS
<1>6. Absorbs(text, d)
  OBVIOUS
<1> HIDE DEF d, e
<1>7. d + 1 \in Index /\ d + 1 # BufLen - 1
  BY <1>1, <1>6 DEF Absorbs, At
<1>8. Following(text, d) = d + 2
  BY <1>1, <1>6, <1>7 DEF Following, Clamp
<1>9. Following(text, e) >= d + 1
  BY <1>1, <1>2, <1>7 DEF Following, Clamp
<1>10. i < j \/ j < i \/ i = j
  BY DEF Column
<1>11. e # d /\ ~(d + 2 <= e)
  BY <1>1, <1>2
<1>12. Following(text, e) \in Index
  BY <1>1 DEF Following, Clamp
<1> QED BY <1>1, <1>3, <1>4, <1>5, <1>8, <1>9, <1>10, <1>11, <1>12

(* A cell shows the characters from its source on, up to the next cell's   *)
(* or the end of the string, as they are drawn.                            *)
Cell1(text, d, b) == [c |-> text[d], flags |-> Overlay(text, d), blink |-> b]
Until(d, z) == IF d < z THEN d ELSE z

LEMMA CellShowsNext ==
  ASSUME NEW text, DOMAIN text = Index, NEW z \in Index,
         \A d \in Index : text[d] = Nul <=> d >= z, NEW d \in Index, NEW b,
         NEW pic, pic[d] = Own(text, d), Absorbs(text, d) => pic[d + 1] = text[d + 1]
  PROVE  LET next == Until(Following(text, d), z)
             seen == Seen(Cell1(text, d, b))
         IN /\ Until(d, z) <= next
            /\ seen = [k \in 1 .. next - Until(d, z) |-> pic[Until(d, z) + k - 1]]
<1> USE LayoutAssumption DEF Index
<1> DEFINE next == Until(Following(text, d), z)
           seen == Seen(Cell1(text, d, b))
<1>1. At(text, d) = text[d] /\ text[BufLen - 1] = Nul /\ Nul \notin Mark
  BY DEF At
<1>2. CASE d >= z
  <2>1. At(text, d + 1) = Nul
    BY <1>2 DEF At
  <2>2. seen = << >>
    BY <1>1, <1>2, <2>1 DEF Seen, Cell1, Overlay
  <2>3. next = z /\ Until(d, z) = z
    BY <1>2 DEF Until, Following, Clamp
  <2> QED BY <2>2, <2>3
<1>3. CASE d < z
  <2>1. text[d] # Nul /\ d + 1 \in Index /\ At(text, d + 1) = text[d + 1] /\ Until(d, z) = d
    BY <1>3 DEF At, Until
  <2>2. CASE text[d + 1] \in Mark /\ text[d + 1] # text[d]
    <3>1. d + 1 < z /\ Following(text, d) = d + 2 /\ next = d + 2 /\ pic[d + 1] = text[d + 1]
      BY <1>1, <2>1, <2>2 DEF Until, Following, Clamp, Absorbs
    <3>2. Face(Cell1(text, d, b)) = pic[d]
      BY <1>1, <2>1, <2>2 DEF Face, Own, Cell1, Overlay
    <3>3. seen = << pic[d], text[d + 1] >>
      BY <1>1, <2>1, <2>2, <3>2 DEF Seen, Cell1, Overlay
    <3>4. [k \in 1 .. next - d |-> pic[d + k - 1]] = << pic[d], pic[d + 1] >>
      <4>1. next - d = 2 /\ d + 1 - 1 = d /\ d + 2 - 1 = d + 1
        BY <3>1
      <4>2. [k \in 1 .. 2 |-> pic[d + k - 1]] = << pic[d], pic[d + 1] >>
        BY <4>1
      <4> QED BY <4>1, <4>2
    <3> QED BY <2>1, <3>1, <3>3, <3>4
  <2>3. CASE ~(text[d + 1] \in Mark /\ text[d + 1] # text[d])
    <3>1. Following(text, d) = d + 1 /\ next = d + 1
      BY <1>1, <1>3, <2>1, <2>3 DEF Until, Following, Clamp, Absorbs
    <3>2. Face(Cell1(text, d, b)) = pic[d]
      BY <1>1, <2>1, <2>3 DEF Face, Own, Cell1, Overlay
    <3>3. seen = << pic[d] >>
      BY <1>1, <2>1, <2>3, <3>2 DEF Seen, Cell1, Overlay
    <3>4. [k \in 1 .. next - d |-> pic[d + k - 1]] = << pic[d] >>
      <4>1. next - d = 1 /\ d + 1 - 1 = d
        BY <3>1
      <4>2. [k \in 1 .. 1 |-> pic[d + k - 1]] = << pic[d] >>
        BY <4>1
      <4> QED BY <4>1, <4>2
    <3> QED BY <2>1, <3>1, <3>3, <3>4
  <2> QED BY <2>2, <2>3
<1> QED BY <1>2, <1>3

(* A character is left blank in a cell of its own only if no reader could  *)
(* count on it.                                                            *)
LEMMA BlankAlone ==
  ASSUME NEW text, NEW p, p = 0 \/ text[p] \notin Mark \/ text[p - 1] \in Mark
  PROVE  \/ Own(text, p) = text[p]
         \/ Own(text, p) = Blank /\ ~ Legible(text, p)
<1>1. CASE text[p] \in Mark /\ At(text, p + 1) = text[p]
  BY <1>1 DEF Own
<1>2. CASE text[p] \in Tiles /\ text[p] \notin Mark
  BY <1>2 DEF Own, Glyph
<1>3. CASE text[p] \in Mark /\ At(text, p + 1) # text[p]
  <2>1. text[p] \notin Tiles
    BY <1>3, LayoutAssumption
  <2>2. ~(p > 0 /\ text[p - 1] \notin Mark)
    BY <1>3
  <2> QED BY <1>3, <2>1, <2>2 DEF Own, Glyph, Legible
<1>4. CASE text[p] \notin Mark /\ text[p] \notin Tiles
  BY <1>4 DEF Own, Glyph, Legible
<1> QED BY <1>1, <1>2, <1>3, <1>4

LEMMA BlankUnlessLegible ==
  ASSUME NEW text, DOMAIN text = Index, text[BufLen - 1] = Nul, NEW i \in Column,
         NEW p, p = Source(text)[i]
  PROVE  \/ Own(text, p) = text[p]
         \/ Own(text, p) = Blank /\ ~ Legible(text, p)
<1> USE LayoutAssumption DEF Index
<1> DEFINE e == Source(text)[i - 1]
<1>1. p \in Index
  BY SourceCounts
<1>2. CASE i = 0
  BY <1>2, SourceCounts, BlankAlone
<1>3. CASE i # 0
  <2>1. i \in 1 .. Cols - 1 /\ i - 1 \in Column
    BY <1>3 DEF Column
  <2>2. p = Following(text, e) /\ e \in Index
    BY <2>1, SourceCounts
  <2> HIDE DEF e
  <2>3. CASE p = BufLen - 1
    <3>1. text[p] \notin Mark
      BY <2>3
    <3> QED BY <3>1, BlankAlone
  <2>4. CASE p # BufLen - 1 /\ Absorbs(text, e)
    <3>1. p = e + 2 /\ p - 1 = e + 1 /\ e + 1 \in Index
      BY <1>1, <2>2, <2>4 DEF Following, Clamp
    <3>2. text[p - 1] \in Mark
      BY <2>4, <3>1 DEF Absorbs, At
    <3> QED BY <3>2, BlankAlone
  <2>5. CASE p # BufLen - 1 /\ ~ Absorbs(text, e)
    <3>1. p = e + 1 /\ p - 1 = e /\ At(text, e + 1) = text[p] /\ At(text, e) = text[p - 1]
      BY <1>1, <2>2, <2>5 DEF Following, Clamp, At
    <3>2. text[p] \in Mark => text[p - 1] \in Mark
      BY <2>5, <3>1 DEF Absorbs
    <3> QED BY <3>2, BlankAlone
  <2> QED BY <2>3, <2>4, <2>5
<1> QED BY <1>2, <1>3

(* The first characters of a text, as a sequence                           *)
First(text, n) == [k \in 1 .. n |-> text[k - 1]]

LEMMA FirstGrows ==
  ASSUME NEW text, NEW m \in Nat, NEW n \in Nat, m <= n
  PROVE  First(text, m) \o [k \in 1 .. n - m |-> text[m + k - 1]] = First(text, n)
<1> DEFINE S == {text[k - 1] : k \in 1 .. n}
           s == First(text, m)
           t == [k \in 1 .. n - m |-> text[m + k - 1]]
<1>0. \A k \in 1 .. n : text[k - 1] \in S
  OBVIOUS
<1> HIDE DEF S
<1>2. s \in Seq(S) /\ Len(s) = m
  <2>1. \A k \in 1 .. m : text[k - 1] \in S
    BY <1>0
  <2> QED BY <2>1 DEF First
<1>3. t \in Seq(S) /\ Len(t) = n - m
  <2>1. n - m \in Nat
    OBVIOUS
  <2>2. \A k \in 1 .. n - m : t[k] \in S
    <3> SUFFICES ASSUME NEW k \in 1 .. n - m PROVE text[m + k - 1] \in S
      OBVIOUS
    <3>1. m + k \in 1 .. n
      OBVIOUS
    <3> QED BY <1>0, <3>1
  <2> QED BY <2>1, <2>2
<1>4. /\ s \o t \in Seq(S) /\ Len(s \o t) = n
      /\ \A i \in 1 .. n : (s \o t)[i] = IF i <= m THEN s[i] ELSE t[i - m]
  <2> HIDE DEF s, t
  <2>1. Len(s) + Len(t) = n
    BY <1>2, <1>3
  <2>2. /\ s \o t \in Seq(S) /\ Len(s \o t) = Len(s) + Len(t)
        /\ \A i \in 1 .. Len(s) + Len(t) :
             (s \o t)[i] = IF i <= Len(s) THEN s[i] ELSE t[i - Len(s)]
    BY <1>2, <1>3, ConcatProperties
  <2> QED BY <1>2, <2>1, <2>2
<1>5. ASSUME NEW i \in 1 .. n PROVE (s \o t)[i] = text[i - 1]
  <2>1. CASE i <= m
    BY <1>4, <2>1 DEF First
  <2>2. CASE i > m
    <3>1. i - m \in 1 .. n - m /\ m + (i - m) - 1 = i - 1
      BY <2>2
    <3>2. t[i - m] = text[m + (i - m) - 1]
      BY <3>1
    <3> QED BY <1>4, <2>2, <3>1, <3>2
  <2>3. i <= m \/ i > m
    OBVIOUS
  <2> QED BY <2>1, <2>2, <2>3
<1>6. DOMAIN (s \o t) = 1 .. n /\ s \o t = [i \in 1 .. n |-> (s \o t)[i]]
  <2> HIDE DEF s, t
  <2>1. s \o t \in [1 .. Len(s \o t) -> S]
    BY <1>4, LenProperties
  <2> QED BY <1>4, <2>1
<1>7. s \o t = First(text, n)
  BY <1>5, <1>6 DEF First
<1> QED BY <1>7

(* What FlattenSeq returns: the last of the partial results                *)
Sums(sum, pieces, n) ==
  /\ Len(pieces) = n /\ DOMAIN sum = 1 .. n /\ sum[1] = pieces[1]
  /\ \A i \in 2 .. n : sum[i] = sum[i - 1] \o pieces[i]

LEMMA FlattenOf ==
  ASSUME NEW n \in Nat \ {0}, NEW pieces, NEW sum, Sums(sum, pieces, n)
  PROVE  FlattenSeq(pieces) = sum[n]
<1> USE DEF Sums
<1> DEFINE Equation(f) ==
             f = [i \in 1 .. Len(pieces) |->
                    IF i = 1 THEN pieces[i] ELSE f[i - 1] \o pieces[i]]
           flat == CHOOSE f : Equation(f)
<1>1. FlattenSeq(pieces) = flat[n]
  BY DEF FlattenSeq
<1>2. \E f : Equation(f)
  <2> DEFINE g == [i \in 1 .. n |-> sum[i]]
  <2>1. ASSUME NEW i \in 1 .. n
        PROVE  g[i] = IF i = 1 THEN pieces[i] ELSE g[i - 1] \o pieces[i]
    <3>1. CASE i = 1
      BY <3>1
    <3>2. CASE i # 1
      <4>1. i \in 2 .. n /\ i - 1 \in 1 .. n
        BY <3>2
      <4>2. g[i] = sum[i] /\ g[i - 1] = sum[i - 1]
        BY <4>1
      <4> HIDE DEF g
      <4> QED BY <3>2, <4>1, <4>2
    <3> QED BY <3>1, <3>2
  <2>2. Equation(g)
    BY <2>1
  <2> QED BY <2>2
<1>3. Equation(flat)
  <2> HIDE DEF Equation
  <2> QED BY <1>2
<1>4. \A i \in 1 .. n : flat[i] = IF i = 1 THEN pieces[i] ELSE flat[i - 1] \o pieces[i]
  <2> HIDE DEF flat
  <2> QED BY <1>3
<1> HIDE DEF flat
<1> DEFINE S == {k \in Nat : k + 1 \in 1 .. n => flat[k + 1] = sum[k + 1]}
<1>5. 0 \in S
  BY <1>4
<1>6. ASSUME NEW k \in Nat, k \in S PROVE k + 1 \in S
  <2> SUFFICES ASSUME (k + 1) + 1 \in 1 .. n PROVE flat[(k + 1) + 1] = sum[(k + 1) + 1]
    OBVIOUS
  <2> DEFINE i == (k + 1) + 1
  <2>1. i \in 2 .. n /\ i \in 1 .. n /\ i # 1 /\ i - 1 = k + 1 /\ k + 1 \in 1 .. n
    OBVIOUS
  <2>2. flat[i - 1] = sum[i - 1]
    BY <1>6, <2>1
  <2> HIDE DEF i
  <2>3. flat[i] = flat[i - 1] \o pieces[i]
    BY <1>4, <2>1
  <2>4. sum[i] = sum[i - 1] \o pieces[i]
    BY <2>1
  <2> QED BY <2>2, <2>3, <2>4 DEF i
<1>7. n - 1 \in S
  <2> HIDE DEF S
  <2>1. n - 1 \in Nat
    OBVIOUS
  <2> QED BY <1>5, <1>6, <2>1, CountingUp
<1>8. flat[n] = sum[n]
  BY <1>7
<1> QED BY <1>1, <1>8

(* display_status's loop, for any number of cells and any C string: the    *)
(* LCD shows a prefix of the message, no character lost, repeated or moved *)
(* by the overlays, and blank only where the theme has no picture of it or *)
(* a leading or a last repeated mark has no cell to carry it.              *)
THEOREM LayoutShows ==
  ASSUME NEW text, Terminated(text), NEW mask
  PROVE  Shows(Layout(text, mask), text)
<1> USE LayoutAssumption
<1>1. PICK z \in Index : \A d \in Index : text[d] = Nul <=> d >= z
  BY DEF Terminated
<1>a. DOMAIN text = Index /\ text[BufLen - 1] = Nul
  BY <1>1 DEF Terminated, Index
<1> DEFINE src == Source(text)
           cell(i) == Layout(text, mask)[i]
           pieces == [i \in 1 .. Cols |-> Seen(Layout(text, mask)[i - 1])]
           end(i) == Until(Following(text, src[i - 1]), z)
           pic == [p \in Index |-> IF \E i \in Column : src[i] = p
                                  THEN Own(text, p) ELSE text[p]]
           sum == [i \in 1 .. Cols |-> First(pic, end(i))]
<1>2. /\ src \in [Column -> Index] /\ src[0] = 0
      /\ \A i \in 1 .. Cols - 1 : src[i] = Following(text, src[i - 1])
  BY SourceCounts
<1>3. ASSUME NEW i \in 1 .. Cols
      PROVE  /\ src[i - 1] \in Index /\ end(i) \in Nat /\ end(i) <= BufLen
             /\ Until(src[i - 1], z) \in Nat /\ Until(src[i - 1], z) <= end(i)
             /\ pieces[i] = [k \in 1 .. end(i) - Until(src[i - 1], z) |->
                               pic[Until(src[i - 1], z) + k - 1]]
  <2> DEFINE d == src[i - 1]
  <2>1. i - 1 \in Column /\ d \in Index
    BY <1>2 DEF Column
  <2>2. pieces[i] = Seen(Cell1(text, d, Blinks(text, mask, i - 1)))
    BY <2>1 DEF Layout, Cell1
  <2>a. pic[d] = Own(text, d)
    BY <2>1
  <2>b. Absorbs(text, d) => pic[d + 1] = text[d + 1]
    <3> SUFFICES ASSUME Absorbs(text, d) PROVE pic[d + 1] = text[d + 1]
      OBVIOUS
    <3>1. \A j \in Column : src[j] # d + 1
      BY <1>a, <2>1, TakenInOnce
    <3>2. d + 1 \in Index
      BY <2>1 DEF Absorbs, At
    <3> QED BY <3>1, <3>2
  <2> HIDE DEF d, pic
  <2>3. Following(text, d) \in Index
    BY <2>1 DEF Following, Clamp, Index
  <2>4. Until(Following(text, d), z) \in Index /\ Until(d, z) \in Index
    BY <2>1, <2>3 DEF Until
  <2>5. /\ Until(d, z) <= Until(Following(text, d), z)
        /\ Seen(Cell1(text, d, Blinks(text, mask, i - 1)))
             = [k \in 1 .. Until(Following(text, d), z) - Until(d, z) |->
                  pic[Until(d, z) + k - 1]]
    <3> DEFINE b == Blinks(text, mask, i - 1)
    <3> HIDE DEF b
    <3>1. DOMAIN text = Index
      BY DEF Terminated
    <3>2. /\ Until(d, z) <= Until(Following(text, d), z)
          /\ Seen(Cell1(text, d, b))
               = [k \in 1 .. Until(Following(text, d), z) - Until(d, z) |->
                    pic[Until(d, z) + k - 1]]
      BY <1>1, <2>1, <2>a, <2>b, <3>1, CellShowsNext
    <3> QED BY <3>2 DEF b
  <2> QED BY <2>1, <2>2, <2>4, <2>5 DEF d, Index
<1>4. Len(pieces) = Cols /\ DOMAIN sum = 1 .. Cols
  OBVIOUS
<1>5. sum[1] = pieces[1]
  <2>1. 1 \in 1 .. Cols /\ 1 - 1 = 0
    OBVIOUS
  <2>2. Until(src[1 - 1], z) = 0
    BY <1>2, <2>1 DEF Until, Index
  <2> HIDE DEF pic, end, pieces
  <2>a. /\ end(1) \in Nat
        /\ pieces[1] = [k \in 1 .. end(1) - Until(src[1 - 1], z) |->
                          pic[Until(src[1 - 1], z) + k - 1]]
    BY <1>3, <2>1
  <2>3. pieces[1] = [k \in 1 .. end(1) - 0 |-> pic[0 + k - 1]] /\ end(1) \in Nat
    BY <2>2, <2>a
  <2>4. sum[1] = First(pic, end(1))
    BY <2>1
  <2> HIDE DEF pieces, end, sum, pic
  <2> QED BY <2>3, <2>4 DEF First
<1>6. ASSUME NEW i \in 2 .. Cols PROVE sum[i] = sum[i - 1] \o pieces[i]
  <2>1. i \in 1 .. Cols /\ i - 1 \in 1 .. Cols /\ i - 1 \in 1 .. Cols - 1
    OBVIOUS
  <2>2. src[i - 1] = Following(text, src[(i - 1) - 1])
    BY <1>2, <2>1
  <2>3. end(i - 1) = Until(src[i - 1], z)
    BY <2>2
  <2>4. sum[i] = First(pic, end(i)) /\ sum[i - 1] = First(pic, end(i - 1))
    BY <2>1
  <2>5. /\ end(i) \in Nat /\ end(i - 1) \in Nat /\ end(i - 1) <= end(i)
        /\ pieces[i] = [k \in 1 .. end(i) - end(i - 1) |-> pic[end(i - 1) + k - 1]]
    BY <1>3, <2>1, <2>3
  <2> DEFINE m == end(i - 1)
             n == end(i)
  <2>6. /\ sum[i] = First(pic, n) /\ sum[i - 1] = First(pic, m)
        /\ n \in Nat /\ m \in Nat /\ m <= n
        /\ pieces[i] = [k \in 1 .. n - m |-> pic[m + k - 1]]
    BY <2>4, <2>5
  <2> HIDE DEF pieces, end, sum, m, n, pic
  <2>7. First(pic, m) \o [k \in 1 .. n - m |-> pic[m + k - 1]] = First(pic, n)
    BY <2>6, FirstGrows
  <2> QED BY <2>6, <2>7
<1>7. SeenText(Layout(text, mask)) = First(pic, end(Cols))
  <2>1. FlattenSeq(pieces) = sum[Cols]
    <3> HIDE DEF pieces, sum
    <3>1. \A i \in 2 .. Cols : sum[i] = sum[i - 1] \o pieces[i]
      BY <1>6
    <3>2. Cols \in Nat \ {0}
      OBVIOUS
    <3>3. Sums(sum, pieces, Cols)
      BY <1>4, <1>5, <3>1 DEF Sums
    <3> QED BY <3>2, <3>3, FlattenOf
  <2>2. SeenText(Layout(text, mask)) = FlattenSeq(pieces)
    BY DEF SeenText
  <2> QED BY <2>1, <2>2
<1>8. end(Cols) \in Nat /\ end(Cols) <= BufLen
  <2>1. Cols \in 1 .. Cols
    OBVIOUS
  <2> HIDE DEF end
  <2> QED BY <1>3, <2>1
<1> HIDE DEF end
<1>9. Len(First(pic, end(Cols))) = end(Cols)
  BY <1>8 DEF First
<1>10. ASSUME NEW k \in 1 .. end(Cols)
       PROVE  \/ First(pic, end(Cols))[k] = text[k - 1]
              \/ First(pic, end(Cols))[k] = Blank /\ ~ Legible(text, k - 1)
  <2>1. k - 1 \in Index /\ First(pic, end(Cols))[k] = pic[k - 1]
    BY <1>8 DEF First, Index
  <2>2. CASE \E i \in Column : src[i] = k - 1
    <3>1. PICK i \in Column : src[i] = k - 1
      BY <2>2
    <3>2. pic[k - 1] = Own(text, k - 1)
      BY <2>1, <2>2
    <3>3. Own(text, k - 1) = text[k - 1]
            \/ (Own(text, k - 1) = Blank /\ ~ Legible(text, k - 1))
      BY <1>a, <3>1, BlankUnlessLegible
    <3> QED BY <2>1, <3>2, <3>3
  <2>3. CASE ~ \E i \in Column : src[i] = k - 1
    BY <2>1, <2>3
  <2> QED BY <2>2, <2>3
<1> HIDE DEF pic
<1> QED BY <1>7, <1>8, <1>9, <1>10 DEF Shows

-----------------------------------------------------------------------------
(* The display loop.  A text that is held back is counted from when it was *)
(* laid out, and it was published before that: the timer never runs ahead  *)
(* of the age of the last message.                                         *)
TimerInv ==
  (~new_data /\ new_disp_time # Idle) => age >= new_disp_time \/ age = Delay

(* ... and it is the last message.                                         *)
HeldIsLast ==
  (~new_data /\ new_disp_time # Idle) => cur_disp_txt = main

StatusInv == TypeOK /\ TimerInv /\ HeldIsLast

LEMMA StatusStart == Init => StatusInv
<1> SUFFICES ASSUME Init PROVE StatusInv
  OBVIOUS
<1> USE StatusAssumption DEF Init
<1>1. main \in Text /\ cur_disp_txt \in Text /\ state_disp \in Text
  BY DEF Text
<1>2. kind \in Kind
  BY DEF Kind
<1>3. /\ t_display \in 0 .. Poll /\ age \in 0 .. Delay
      /\ new_disp_time \in 0 .. Idle
  BY DEF Idle
<1>4. TypeOK
  BY <1>1, <1>2, <1>3 DEF TypeOK
<1>5. TimerInv /\ HeldIsLast
  BY DEF TimerInv, HeldIsLast
<1> QED BY <1>4, <1>5 DEF StatusInv

LEMMA StatusStep == StatusInv /\ [Next]_vars => StatusInv'
<1> SUFFICES ASSUME StatusInv, [Next]_vars PROVE StatusInv'
  OBVIOUS
<1> USE StatusAssumption DEF StatusInv, TypeOK, TimerInv, HeldIsLast, dmm, shown, Idle
<1>1. CASE UNCHANGED vars
  BY <1>1 DEF vars
<1>2. ASSUME NEW m \in Message, NEW k \in Kind, PublishMessage(m, k) PROVE StatusInv'
  BY <1>2 DEF PublishMessage, Text
<1>3. ASSUME NEW k \in {"plain", "corrupt"}, BeginMessage(k) PROVE StatusInv'
  BY <1>3 DEF BeginMessage, Kind
<1>4. ASSUME NEW i \in Column, PublishBlink(i) PROVE StatusInv'
  BY <1>4 DEF PublishBlink
<1>5. CASE PublishAnnunciators
  BY <1>5 DEF PublishAnnunciators
<1>6. CASE FallSilent
  BY <1>6 DEF FallSilent
<1>7. CASE ShowNew
  <2>1. new_disp_time' \in {0, Idle} /\ state_disp' \in Text
    BY <1>7 DEF ShowNew, Restarted
  <2>2. /\ cur_disp_txt' = main /\ main' = main /\ blink_mask' = blink_mask
        /\ kind' = kind /\ new_data' = FALSE /\ t_display' = 0
        /\ silent' = silent /\ age' = age
    BY <1>7 DEF ShowNew
  <2>3. t_display' \in 0 .. Poll /\ new_disp_time' \in 0 .. Idle
    BY <2>1, <2>2
  <2>4. TypeOK'
    BY <2>1, <2>2, <2>3
  <2>5. TimerInv' /\ HeldIsLast'
    BY <1>7, <2>1 DEF ShowNew
  <2> QED BY <2>4, <2>5
<1>8. CASE ShowAgain
  BY <1>8 DEF ShowAgain, LateText
<1>9. CASE Tick
  BY <1>9 DEF Tick, Later
<1> QED
  BY <1>1, <1>2, <1>3, <1>4, <1>5, <1>6, <1>7, <1>8, <1>9 DEF Next, Decoder, Loop

(* The variables of the loop keep to their ranges. *)
THEOREM DisplayTypeCorrect == Spec => []TypeOK
<1>1. StatusInv => TypeOK
  BY DEF StatusInv
<1> QED BY <1>1, StatusStart, StatusStep, PTL DEF Spec

(* Only the decoder's latest message comes on the screen, and only if it   *)
(* vouches for it or the message is 300 ms old (display_status).           *)
THEOREM ShownIsOldOrTrusted == Spec => OnlyOldOrTrusted
<1>1. ASSUME StatusInv, [Next]_vars, state_disp' # state_disp
      PROVE  state_disp' = main /\ (Trusted \/ age = Delay)
  <2>1. ShowNew \/ ShowAgain
    BY <1>1 DEF Next, Decoder, Loop, PublishMessage, BeginMessage, PublishBlink,
       PublishAnnunciators, FallSilent, Tick, vars, shown
  <2>2. CASE ShowNew
    BY <1>1, <2>2 DEF ShowNew
  <2>3. CASE ShowAgain
    <3>1. ~new_data /\ new_disp_time = Delay + 1 /\ state_disp' = cur_disp_txt
      BY <1>1, <2>3 DEF ShowAgain, Overdue, LateText
    <3> QED
      BY <1>1, <3>1, StatusAssumption DEF StatusInv, TypeOK, TimerInv, HeldIsLast, Idle
  <2> QED BY <2>1, <2>2, <2>3
<1>2. StatusInv /\ [Next]_vars
        => [state_disp' # state_disp =>
              state_disp' = main /\ (Trusted \/ age = Delay)]_vars
  BY <1>1
<1> QED BY <1>2, StatusStart, StatusStep, PTL DEF Spec, OnlyOldOrTrusted

(* The texts of the loop are strings the layout shows.                     *)
LEMMA TextsTerminated == \A text \in Text : Terminated(text)
<1> USE LayoutAssumption
<1>1. Terminated(NoText)
  <2>1. 0 \in Index /\ \A d \in Index : NoText[d] = Nul <=> d >= 0
    BY DEF NoText, Index
  <2>2. DOMAIN NoText = Index
    BY DEF NoText
  <2> QED BY <2>1, <2>2 DEF Terminated
<1>2. Terminated(Spaces)
  <2>1. Spaces = [d \in Index |-> IF d < BufLen - 2 THEN Blank ELSE Nul]
    BY DEF Spaces, Assembled, Index
  <2>2. BufLen - 2 \in Index /\ \A d \in Index : Spaces[d] = Nul <=> d >= BufLen - 2
    BY <2>1 DEF Index
  <2> QED BY <2>1, <2>2 DEF Terminated
<1> QED BY <1>1, <1>2, StatusAssumption DEF Text

(* The cells on the LCD are those of the text SCPI is told, those held     *)
(* back those of the text that will be told with them.                     *)
LaidOut(laid, text) == \E mask \in SUBSET (Index \cup Column) : laid = Layout(text, mask)
ToldInv ==
  /\ TypeOK
  /\ LaidOut(cur_disp, state_disp)
  /\ LaidOut(disp, cur_disp_txt)

LEMMA NothingLaidOut == LaidOut(NoCells, NoText)
<1> USE LayoutAssumption
<1> DEFINE src == Source(NoText)
<1>1. src \in [Column -> Index]
  BY SourceCounts
<1>2. \A d \in Index : NoText[d] = Nul /\ Overlay(NoText, d) = Nul
  BY DEF NoText, Overlay, At
<1>3. \A i \in Column : ~Blinks(NoText, {}, i) /\ Blinks(NoText, {}, i) \in BOOLEAN
  BY DEF Blinks
<1>4. Layout(NoText, {}) = [i \in Column |-> [c |-> NoText[src[i]],
                                             flags |-> Overlay(NoText, src[i]),
                                             blink |-> Blinks(NoText, {}, i)]]
  BY DEF Layout
<1> HIDE DEF src
<1>5. Layout(NoText, {}) = NoCells
  BY <1>1, <1>2, <1>3, <1>4 DEF NoCells
<1> QED BY <1>5 DEF LaidOut

LEMMA ToldStep == ToldInv /\ [Next]_vars => LaidOut(cur_disp, state_disp)' /\ LaidOut(disp, cur_disp_txt)'
<1> SUFFICES ASSUME ToldInv, [Next]_vars
             PROVE  LaidOut(cur_disp', state_disp') /\ LaidOut(disp', cur_disp_txt')
  BY DEF LaidOut
<1>1. CASE ShowNew
  <2>1. /\ disp' = Layout(main, blink_mask) /\ cur_disp_txt' = main
        /\ blink_mask \in SUBSET (Index \cup Column)
    BY <1>1 DEF ShowNew, ToldInv, TypeOK
  <2>2. LaidOut(disp', cur_disp_txt')
    BY <2>1 DEF LaidOut
  <2>3. CASE Trusted
    <3>1. state_disp' = main /\ cur_disp' = disp'
      BY <1>1, <2>3 DEF ShowNew
    <3> QED BY <2>1, <2>2, <3>1
  <2>4. CASE ~Trusted
    <3>1. state_disp' = state_disp /\ cur_disp' = cur_disp
      BY <1>1, <2>4 DEF ShowNew
    <3> QED BY <2>2, <3>1 DEF ToldInv
  <2> QED BY <2>3, <2>4
<1>2. CASE ShowAgain
  <2>1. disp' = disp /\ cur_disp_txt' = cur_disp_txt
    BY <1>2 DEF ShowAgain
  <2>2. \/ state_disp' = cur_disp_txt /\ cur_disp' = disp
        \/ state_disp' = state_disp /\ cur_disp' = cur_disp
    BY <1>2 DEF ShowAgain, LateText
  <2> QED BY <2>1, <2>2 DEF ToldInv
<1>3. CASE Decoder \/ Tick \/ UNCHANGED vars
  <2>1. /\ disp' = disp /\ cur_disp_txt' = cur_disp_txt
        /\ state_disp' = state_disp /\ cur_disp' = cur_disp
    BY <1>3 DEF Decoder, PublishMessage, BeginMessage, PublishBlink, PublishAnnunciators,
                FallSilent, Tick, shown, vars
  <2> QED BY <2>1 DEF ToldInv
<1> QED BY <1>1, <1>2, <1>3 DEF Next, Loop

(* What remote users are told is on the display is what the cells on it    *)
(* show, but for the characters they cannot (LayoutShows), for any         *)
(* messages, displays and delays (display_status).                         *)
THEOREM ToldIsShown == Spec => []ToldAsShown
<1>1. Init => LaidOut(cur_disp, state_disp) /\ LaidOut(disp, cur_disp_txt)
  BY NothingLaidOut DEF Init
<1>2. Spec => []ToldInv
  BY <1>1, ToldStep, DisplayTypeCorrect, PTL DEF Spec, ToldInv
<1>3. ToldInv => ToldAsShown
  <2> SUFFICES ASSUME ToldInv PROVE Shows(cur_disp, state_disp)
    BY DEF ToldAsShown
  <2>1. Terminated(state_disp)
    BY TextsTerminated DEF ToldInv, TypeOK
  <2> QED BY <2>1, LayoutShows DEF ToldInv, LaidOut
<1> QED BY <1>2, <1>3, PTL

=============================================================================
