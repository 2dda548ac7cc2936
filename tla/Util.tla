--------------------------------- MODULE Util ---------------------------------
(***************************************************************************)
(* The helpers the rest of the firmware calls (util.c, util_rp2.c,         *)
(* crc32.c, pwm.c, memtest.c), as operators.  A C string is the sequence of*)
(* its characters without the terminator; a word of bits is the set of the  *)
(* positions that are set.                                                 *)
(***************************************************************************)
EXTENDS Integers, Sequences, FiniteSets, SequencesExt, Folds

(* trim_str: Space is what iswspace says. *)
Trimmed(s, Space) ==
  LET kept == {i \in DOMAIN s : s[i] \notin Space}
  IN IF kept = {} THEN << >>
     ELSE SubSeq(s, CHOOSE i \in kept : \A j \in kept : i <= j,
                    CHOOSE i \in kept : \A j \in kept : j <= i)

(* strncopy and strncatenate into a buffer of `size` bytes *)
Cut(s, n) == SubSeq(s, 1, IF Len(s) <= n THEN Len(s) ELSE n)
StrNCopy(dst, src, size) == IF size < 1 THEN dst ELSE Cut(src, size - 1)
StrNCatenate(dst, src, size) ==
  IF size < 1 \/ size - Len(dst) <= 1 THEN dst
  ELSE dst \o Cut(src, size - Len(dst) - 1)

ClampInt(val, min, max) ==
  LET low == IF val < min THEN min ELSE val
  IN IF low > max THEN max ELSE low

Abs(n) == IF n < 0 THEN -n ELSE n
CheckForChange(old, new, threshold) == Abs(old - new) >= threshold

(* memmem: the place of the first match, 0 for NULL *)
MemMem(hay, needle) ==
  LET at == {i \in 1 .. Len(hay) - Len(needle) + 1 :
               SubSeq(hay, i, i + Len(needle) - 1) = needle}
  IN IF hay = << >> \/ needle = << >> \/ at = {} THEN 0
     ELSE CHOOSE i \in at : \A j \in at : i <= j

(* uptime_to_str, the numbers it prints, of seconds *)
UptimeFields(secs) ==
  [days |-> secs \div 86400, hours |-> (secs \div 3600) % 24,
   mins |-> (secs \div 60) % 60, secs |-> secs % 60]

(* pow_i64 by squaring; Root is SQRT_INT64_MAX, beyond which it gives up.  *)
(* The state of its loop: [x, y, res], res = 0 once it gave up.            *)
PowStep(Root, st) ==
  IF st.y = 0 THEN st
  ELSE IF st.x > Root THEN [st EXCEPT !.y = 0, !.res = 0]
  ELSE [x |-> st.x * st.x, y |-> st.y \div 2,
        res |-> IF st.y % 2 = 1 THEN st.res * st.x * st.x ELSE st.res]
PowI64(Root, x, y) ==
  IF x = 1 \/ y = 0 THEN 1 ELSE IF x = 0 THEN 0
  ELSE LET start == [x |-> x, y |-> y \div 2, res |-> IF y % 2 = 1 THEN x ELSE 1]
       IN FoldLeft(LAMBDA st, i : PowStep(Root, st), start, << 1, 2, 3, 4, 5, 6, 7, 8 >>).res

-----------------------------------------------------------------------------
(* bitmask_to_str: the text as a sequence of numbers and ranges; "*" is  *)
(* one empty token.  Neighbours become a range if the caller wants ranges. *)
Star == << << >> >>
Number(a) == << a >>
FromTo(a, b) == << a, b >>

BitmaskToText(mask, len, base, range) ==
  LET add(text, i) ==
        LET last == text[Len(text)]
        IN IF range /\ text # << >> /\ last[Len(last)] = i + base - 1
           THEN [text EXCEPT ![Len(text)] = FromTo(last[1], i + base)]
           ELSE Append(text, Number(i + base))
      bits == SelectSeq([i \in 1 .. len |-> i - 1], LAMBDA i : i \in mask)
  IN IF len \notin 1 .. 32 THEN << >>
     ELSE IF ~range /\ mask = 0 .. len - 1 THEN Star
     ELSE FoldLeft(add, << >>, bits)

(* str_to_bitmask: numbers that are out of range are passed over, the      *)
(* start of a range on its own, and a range that runs backwards.           *)
TextToBitmask(text, len, base) ==
  LET bits(tok) ==
        LET a == tok[1] - base
            b == tok[Len(tok)] - base
        IN (IF a \in 0 .. len - 1 THEN {a} ELSE {})
             \cup (IF b > a /\ b < len
                   THEN {i \in a + 1 .. b : i >= 0} ELSE {})
  IN IF text = Star THEN 0 .. len - 1
     ELSE UNION {bits(text[i]) : i \in DOMAIN text}

-----------------------------------------------------------------------------
(* time_passed and time_elapsed, in milliseconds; 0 is "never yet". *)
TimePassed(t, ms, now) == t = 0 \/ t + ms < now
TimeElapsed(t, ms, now) == now - t > ms

(* getstring_timeout_ms: what is read of the characters that come within   *)
(* the time; they are `ends` or text.                                      *)
GetString(str, maxlen, chars, ends) ==
  LET room == maxlen - 1 - Len(str)
      stops == {i \in DOMAIN chars : i <= room /\ chars[i] \in ends}
      n == IF stops = {} THEN (IF Len(chars) < room THEN Len(chars) ELSE room)
           ELSE (CHOOSE i \in stops : \A j \in stops : i <= j) - 1
  IN [str |-> str \o SubSeq(chars, 1, n), line |-> stops # {}]

(* set_pwm_duty_cycle, for a whole duty cycle in percent *)
PwmLevel(top, duty) ==
  IF duty >= 100 THEN top + 1
  ELSE IF duty > 0 THEN (duty * (top + 1)) \div 100
  ELSE 0

-----------------------------------------------------------------------------
(* xcrc32: the table, one entry worked out bit by bit as gdb's generator   *)
(* did, and the loop over the bytes.                                       *)
Poly == {26, 23, 22, 16, 12, 11, 10, 8, 7, 5, 4, 2, 1, 0}
Xor(a, b) == (a \ b) \cup (b \ a)
Shifted(w, n) == {i + n : i \in {j \in w : j + n < 32}}
Entry(byte) ==
  FoldLeft(LAMBDA w, i : IF 31 \in w THEN Xor(Shifted(w, 1), Poly)
                                     ELSE Shifted(w, 1),
           Shifted(byte, 24), << 1, 2, 3, 4, 5, 6, 7, 8 >>)
TopByte(w) == {i - 24 : i \in {j \in w : j >= 24}}
Crc32(buf, init) ==
  FoldLeft(LAMBDA crc, b : Xor(Shifted(crc, 8), Entry(Xor(TopByte(crc), b))),
           init, buf)

-----------------------------------------------------------------------------
(* walking_mem_test on a memory that reads back as read[written, i]: the    *)
(* first cell found wrong, or 0.                                           *)
Walking(bit, i) == (bit + i - 1) % 32
WalkingMemTest(len, read) ==
  LET wrong(bit) == {i \in 1 .. len : read[Walking(bit, i), i] # Walking(bit, i)}
      bad == {bit \in 0 .. 31 : wrong(bit) # {}}
  IN IF bad = {} THEN 0
     ELSE LET first == CHOOSE b \in bad : \A c \in bad : b <= c
          IN CHOOSE i \in wrong(first) : \A j \in wrong(first) : i <= j

=============================================================================
