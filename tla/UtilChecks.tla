----------------------------- MODULE UtilChecks -----------------------------
(***************************************************************************)
(* The helpers of module Util against what their callers rely on, over     *)
(* small inputs.  The module is extended by the module of a run, so that   *)
(* TLC evaluates its assumptions.                                          *)
(***************************************************************************)
EXTENDS Integers, Sequences, FiniteSets
LOCAL U == INSTANCE Util

LOCAL Letters == {"a", "b", " "}
LOCAL Strings(n) == UNION {[1 .. k -> Letters] : k \in 0 .. n}

(* A buffer is never filled past its terminator, and what fits is kept. *)
ASSUME StringsFit ==
  \A s, t \in Strings(3), size \in 1 .. 5 :
    /\ Len(U!StrNCopy(s, t, size)) < size
    /\ Len(t) < size => U!StrNCopy(s, t, size) = t
    /\ Len(s) < size => Len(U!StrNCatenate(s, t, size)) < size
    /\ Len(s) + Len(t) < size => U!StrNCatenate(s, t, size) = s \o t

(* Trimming is done once: nothing is left to trim. *)
ASSUME TrimsAll ==
  \A s \in Strings(4) :
    LET t == U!Trimmed(s, {" "})
    IN /\ t # << >> => t[1] # " " /\ t[Len(t)] # " "
       /\ U!MemMem(s, t) > 0 \/ t = << >>

(* memmem finds the first occurrence or none. *)
ASSUME FindsFirst ==
  \A s \in Strings(4), n \in Strings(2) \ {<< >>} :
    LET at == U!MemMem(s, n)
    IN \A i \in 1 .. Len(s) - Len(n) + 1 :
         SubSeq(s, i, i + Len(n) - 1) = n => at > 0 /\ at <= i

(* A bit mask survives being written as text and read back, with and       *)
(* without ranges, whatever the first number (httpd sensors setting).      *)
ASSUME BitmaskRoundTrip ==
  \A mask \in SUBSET (0 .. 7), base \in {0, 1}, range \in BOOLEAN :
    U!TextToBitmask(U!BitmaskToText(mask, 8, base, range), 8, base) = mask

(* Text of the user with numbers out of range, or ranges that run back or  *)
(* past the end, never sets a bit past the length.                         *)
ASSUME BitmaskStaysInside ==
  \A a, b, c \in 0 .. 6 :
    U!TextToBitmask(<< U!FromTo(a, b), U!Number(c) >>, 4, 1) \subseteq 0 .. 3

(* Powers are right as long as they fit (here in 15 bits, as 63 there). *)
ASSUME PowersRight ==
  /\ \A y \in 0 .. 4 : U!PowI64(181, 10, y) = << 1, 10, 100, 1000, 10000 >>[y + 1]
  /\ \A x \in 1 .. 5, y \in 0 .. 5 : U!PowI64(181, x, y) = x ^ y

ASSUME ClampStaysInside ==
  \A v \in -5 .. 5, lo \in -3 .. 0, hi \in 0 .. 3 :
    /\ U!ClampInt(v, lo, hi) \in lo .. hi
    /\ v \in lo .. hi => U!ClampInt(v, lo, hi) = v

(* A timer that fired is not due again at once; one that never did is. *)
ASSUME TimersFire ==
  \A now \in 1 .. 20, ms \in 0 .. 5 :
    U!TimePassed(0, ms, now) /\ ~U!TimePassed(now, ms, now)

(* A check that has the time it waits for is due again later, not sooner:  *)
(* the two tests differ only at the exact end.                             *)
ASSUME ElapsedIsPassed ==
  \A t, now \in 1 .. 6, ms \in 0 .. 5 :
    U!TimeElapsed(t, ms, now) => U!TimePassed(t, ms, now)

(* The fields of an uptime are those of its seconds. *)
ASSUME UptimeWhole ==
  \A secs \in {0, 59, 60, 3599, 3600, 86399, 86400, 90061} :
    LET f == U!UptimeFields(secs)
    IN /\ ((f.days * 24 + f.hours) * 60 + f.mins) * 60 + f.secs = secs
       /\ f.hours < 24 /\ f.mins < 60 /\ f.secs < 60

(* Input that comes in two halves is read as if it came at once, up to the *)
(* end of the line, and never past the buffer.                             *)
ASSUME InputInPieces ==
  \A s, t \in Strings(2), max \in 3 .. 6 :
    LET first == U!GetString(<< >>, max, s, {" "})
        both == U!GetString(<< >>, max, s \o t, {" "})
    IN /\ Len(first.str) < max
       /\ ~first.line => U!GetString(first.str, max, t, {" "}) = both

(* The brightness never leaves the range of the counter and grows with the *)
(* percentage.                                                             *)
ASSUME PwmMonotone ==
  \A top \in {0, 99, 2499}, d \in -1 .. 101 :
    /\ U!PwmLevel(top, d) \in 0 .. top + 1
    /\ U!PwmLevel(top, d) <= U!PwmLevel(top, d + 1)

(* The entries of crc32_table in the source: 1, 2, 128 and 255; and the    *)
(* checksum of a block is that of its parts, one after the other.          *)
LOCAL Word(hex) == UNION {{4 * (8 - i) + b : b \in {k \in 0 .. 3 : (hex[i] \div 2^k) % 2 = 1}} : i \in 1 .. 8}
ASSUME CrcTable ==
  /\ U!Entry({0}) = Word(<< 0, 4, 12, 1, 1, 13, 11, 7 >>)
  /\ U!Entry({1}) = Word(<< 0, 9, 8, 2, 3, 11, 6, 14 >>)
  /\ U!Entry(0 .. 7) = Word(<< 11, 1, 15, 7, 4, 0, 11, 4 >>)
ASSUME CrcComposes ==
  \A a, b \in {{}, {0}, {3, 7}, {1, 2}} :
    /\ U!Crc32(<< a, b >>, {}) = U!Crc32(<< b >>, U!Crc32(<< a >>, {}))
    /\ a # {} => U!Crc32(<< a, b >>, {}) # U!Crc32(<< {}, b >>, {})

(* The memory test finds every bit that sticks, in every cell. *)
ASSUME MemTestFinds ==
  \A cell \in 1 .. 3, stuck \in {0, 5, 31} :
    LET read == [w \in 0 .. 31, i \in 1 .. 3 |-> IF i = cell /\ w = stuck THEN 32 ELSE w]
    IN U!WalkingMemTest(3, read) = cell

=============================================================================
