--------------------------- MODULE StatusPagesProofs ---------------------------
(***************************************************************************)
(* Proofs about the status pages, for any number of connections and pages  *)
(* and texts of any length.  HeapInv and PageInv are inductive; the second *)
(* needs nothing of the heap.                                              *)
(***************************************************************************)
EXTENDS StatusPages, SequenceTheorems, TLAPS

Static == [buf : Nat, p : Nat, at : Nat, left : Nat, part : Nat]

Shape ==
  /\ static \in [Kinds -> Static]
  /\ pages \in Nat
  /\ heap \subseteq 1 .. pages
  /\ conn \in [Conns -> [kind : Kinds \cup {"none"}, page : 0 .. pages, part : Nat,
                         got : Seq(Nat \X Nat)]]
  /\ alone \subseteq 1 .. pages

(* What a handler still points at is allocated, and not to the other one.  *)
HeapInv ==
  /\ \A k \in Kinds :
       /\ static[k].buf # NULL => static[k].buf \in heap /\ static[k].p = static[k].buf
       /\ static[k].left > 0 => static[k].p \in heap
       /\ static[k].p <= pages
  /\ \A j, k \in Kinds : j # k /\ static[j].p = static[k].p => static[j].p = NULL
  /\ ~bad

(* A page that nothing overlapped is alone in its handler while it is      *)
(* served, and what was handed out is what the handler has behind it.      *)
Sequel(page, n) == [i \in 1 .. n |-> << page, i - 1 >>]
InService(c) ==
  LET s == static[conn[c].kind]
  IN /\ conn[c].kind \in Kinds
     /\ s.p = conn[c].page /\ s.part > 0 /\ s.left > 0
     /\ s.at + s.left = TextLen
     /\ conn[c].got = Sequel(conn[c].page, s.at)

PageInv ==
  /\ \A c \in Conns :
       conn[c].page \in alone =>
         IF conn[c].part = 0 THEN conn[c].got = Sequel(conn[c].page, TextLen)
         ELSE InService(c)
  /\ \A c, d \in Conns :
       (/\ conn[c].part > 0 /\ conn[d].part > 0 /\ conn[c].kind = conn[d].kind
        /\ conn[c].page \in alone) => c = d
  /\ \A c \in Conns : conn[c].part > 0 => conn[c].kind \in Kinds

PagesInv == Shape /\ HeapInv /\ PageInv

LEMMA KindsDiffer == Kinds = {"csvstat", "jsonstat"} /\ "csvstat" # "jsonstat" /\ "none" \notin Kinds
BY DEF Kinds

LEMMA PagesStart == PInit => PagesInv
<1> SUFFICES ASSUME PInit PROVE PagesInv
  OBVIOUS
<1> USE PagesAssumption DEF PInit, NULL, Idle
<1>1. Shape
  BY DEF Shape, Static
<1>2. HeapInv
  BY DEF HeapInv
<1>3. PageInv
  BY DEF PageInv
<1> QED BY <1>1, <1>2, <1>3 DEF PagesInv

(* Handing out a part, after a handler has the static variables s, the heap *)
(* h and n pages: what it leaves in either case.                           *)
LEMMA HandOutShape ==
  ASSUME Shape, pages' \in Nat, pages <= pages', alone' \subseteq 1 .. pages',
         NEW c \in Conns, NEW k \in Kinds, NEW s \in Static, NEW h \in SUBSET (1 .. pages'),
         NEW page \in 0 .. pages', NEW got \in Seq(Nat \X Nat),
         HandOut(c, k, s, h, page, got)
  PROVE  Shape'
<1>1. s.left > 1 => Copied(s) \in Static
  <2>1. s.left > 1 => s.at + 1 \in Nat /\ s.left - 1 \in Nat /\ s.part + 1 \in Nat
    BY DEF Static
  <2> QED BY <2>1 DEF Static, Copied
<1>2. LastCopied(s) \in Static
  BY DEF Static, LastCopied, NULL
<1>3. static' \in [Kinds -> Static]
  BY <1>1, <1>2 DEF HandOut, Shape
<1>4. heap' \subseteq 1 .. pages'
  BY DEF HandOut
<1>5. got \o Handed(s) \in Seq(Nat \X Nat)
  <2>1. CASE s.left > 0
    <3>1. << s.p, s.at >> \in Nat \X Nat
      BY DEF Static
    <3>2. << << s.p, s.at >> >> \in Seq(Nat \X Nat)
      BY <3>1
    <3> QED BY <2>1, <3>2 DEF Handed
  <2>2. CASE ~(s.left > 0)
    BY <2>2 DEF Handed
  <2> QED BY <2>1, <2>2
<1>6. conn' \in [Conns -> [kind : Kinds \cup {"none"}, page : 0 .. pages', part : Nat,
                           got : Seq(Nat \X Nat)]]
  <2>1. \A d \in Conns : conn[d] \in [kind : Kinds \cup {"none"}, page : 0 .. pages',
                                      part : Nat, got : Seq(Nat \X Nat)]
    BY DEF Shape
  <2>2. [kind |-> k, page |-> page, part |-> IF s.left > 1 THEN s.part ELSE 0,
         got |-> got \o Handed(s)]
          \in [kind : Kinds \cup {"none"}, page : 0 .. pages', part : Nat,
               got : Seq(Nat \X Nat)]
    BY <1>5 DEF Static
  <2> QED BY <2>1, <2>2 DEF HandOut, Shape
<1> QED BY <1>3, <1>4, <1>6 DEF Shape

LEMMA HandOutHeap ==
  ASSUME Shape, HeapInv, pages' \in Nat, pages <= pages',
         NEW c \in Conns, NEW k \in Kinds, NEW s \in Static, NEW h \in SUBSET (1 .. pages'),
         NEW page, NEW got,
         heap \subseteq h, s.p <= pages',
         s.buf # NULL => s.buf \in h /\ s.p = s.buf,
         s.left > 0 => s.p \in h,
         \A j \in Kinds : j # k /\ static[j].p = s.p => s.p = NULL,
         HandOut(c, k, s, h, page, got)
  PROVE  HeapInv'
<1> USE DEF NULL
<1>1. ~bad'
  BY DEF HandOut, HeapInv, ReadsFreed, FreesFreed
<1>2. \A j \in Kinds : j # k => static'[j] = static[j]
  BY DEF HandOut, Shape
<1>3. ASSUME \A j \in Kinds : j # k =>
                 /\ static[j].buf # 0 => static[j].buf \in heap'
                 /\ static[j].left > 0 => static[j].p \in heap',
             static'[k].buf # 0 => static'[k].buf \in heap' /\ static'[k].p = static'[k].buf,
             static'[k].left > 0 => static'[k].p \in heap',
             static'[k].p \in {0, s.p}
      PROVE  HeapInv'
  <2>1. s.p \in Nat /\ \A j \in Kinds : static[j].p \in Nat /\ static[j].p <= pages
    BY DEF Shape, Static, HeapInv
  <2>2. \A j \in Kinds : static'[j].p <= pages'
    <3>1. ASSUME NEW j \in Kinds PROVE static'[j].p <= pages'
      <4>1. CASE j # k
        BY <1>2, <2>1, <4>1 DEF Shape
      <4>2. CASE j = k
        BY <1>3, <2>1, <4>2
      <4> QED BY <4>1, <4>2
    <3> QED BY <3>1
  <2>3. \A j \in Kinds :
          /\ static'[j].buf # 0 => static'[j].buf \in heap' /\ static'[j].p = static'[j].buf
          /\ static'[j].left > 0 => static'[j].p \in heap'
    BY <1>2, <1>3 DEF HeapInv
  <2>4. \A i, j \in Kinds : i # j /\ static'[i].p = static'[j].p => static'[i].p = 0
    <3>1. ASSUME NEW i \in Kinds, NEW j \in Kinds, i # j, static'[i].p = static'[j].p
          PROVE  static'[i].p = 0
      <4>1. CASE i = k
        BY <1>2, <1>3, <3>1, <4>1
      <4>2. CASE j = k
        BY <1>2, <1>3, <3>1, <4>2
      <4>3. CASE i # k /\ j # k
        BY <1>2, <3>1, <4>3 DEF HeapInv
      <4> QED BY <4>1, <4>2, <4>3
    <3> QED BY <3>1
  <2> QED BY <1>1, <2>2, <2>3, <2>4 DEF HeapInv
<1>4. CASE s.left > 1
  <2>1. static'[k] = Copied(s) /\ heap' = h
    BY <1>4 DEF HandOut, Shape
  <2>2. Copied(s).buf = s.buf /\ Copied(s).p = s.p
    BY DEF Copied, Static
  <2>3. ASSUME NEW j \in Kinds, j # k
        PROVE  /\ static[j].buf # 0 => static[j].buf \in heap'
               /\ static[j].left > 0 => static[j].p \in heap'
    BY <2>1 DEF HeapInv
  <2>4. /\ static'[k].buf # 0 => static'[k].buf \in heap' /\ static'[k].p = static'[k].buf
        /\ static'[k].p \in heap'
    <3>1. s.left > 0
      BY <1>4 DEF Static
    <3> QED BY <2>1, <2>2, <3>1
  <2>5. static'[k].p = s.p
    BY <2>1, <2>2
  <2> QED BY <1>1, <1>3, <2>3, <2>4, <2>5
<1>5. CASE ~(s.left > 1)
  <2>1. static'[k] = LastCopied(s) /\ heap' = h \ {s.buf}
    BY <1>5 DEF HandOut, Shape
  <2>2. LastCopied(s).buf = 0 /\ LastCopied(s).p = 0 /\ LastCopied(s).left = 0
    BY DEF LastCopied, Static
  <2>3. ASSUME NEW j \in Kinds, j # k
        PROVE  /\ static[j].buf # 0 => static[j].buf \in heap'
               /\ static[j].left > 0 => static[j].p \in heap'
    <3>1. static[j].buf # 0 => static[j].buf \in heap /\ static[j].p = static[j].buf
      BY DEF HeapInv
    <3>2. static[j].left > 0 => static[j].p \in heap
      BY DEF HeapInv
    <3>3. \A b \in heap : b # 0
      BY DEF Shape
    <3>4. static[j].p \in heap => static[j].p # s.buf
      BY <2>3, <3>3
    <3> QED BY <2>1, <3>1, <3>2, <3>4
  <2>4. /\ static'[k].buf # 0 => static'[k].buf \in heap' /\ static'[k].p = static'[k].buf
        /\ static'[k].left > 0 => static'[k].p \in heap'
    BY <2>1, <2>2
  <2>5. static'[k].p = 0
    BY <2>1, <2>2
  <2> QED BY <1>1, <1>3, <2>3, <2>4, <2>5
<1> QED BY <1>4, <1>5

LEMMA SequelIsText ==
  ASSUME NEW page \in Nat, NEW n \in Nat
  PROVE  Sequel(page, n) \in Seq(Nat \X Nat) /\ Len(Sequel(page, n)) = n
<1>1. \A i \in 1 .. n : << page, i - 1 >> \in Nat \X Nat
  OBVIOUS
<1> QED BY <1>1 DEF Sequel

LEMMA SequelGrows ==
  ASSUME NEW page \in Nat, NEW n \in Nat
  PROVE  Append(Sequel(page, n), << page, n >>) = Sequel(page, n + 1)
<1> DEFINE old == Sequel(page, n)
           new == Sequel(page, n + 1)
           Parts == Nat \X Nat
<1>1. old \in Seq(Parts) /\ Len(old) = n /\ \A i \in 1 .. n : old[i] = << page, i - 1 >>
  BY SequelIsText DEF Sequel
<1>2. /\ new \in Seq(Parts) /\ Len(new) = n + 1
      /\ \A i \in 1 .. n + 1 : new[i] = << page, i - 1 >>
  BY SequelIsText DEF Sequel
<1>3. << page, n >> \in Parts
  OBVIOUS
<1> HIDE DEF old, new, Parts
<1>4. /\ Append(old, << page, n >>) \in Seq(Parts) /\ Len(Append(old, << page, n >>)) = n + 1
      /\ \A i \in 1 .. n : Append(old, << page, n >>)[i] = old[i]
      /\ Append(old, << page, n >>)[n + 1] = << page, n >>
  BY <1>1, <1>3, AppendProperties
<1>5. \A i \in 1 .. n + 1 : Append(old, << page, n >>)[i] = new[i]
  <2> SUFFICES ASSUME NEW i \in 1 .. n + 1
               PROVE  Append(old, << page, n >>)[i] = new[i]
    OBVIOUS
  <2> DEFINE longer == Append(old, << page, n >>)
  <2>1. CASE i = n + 1
    <3>1. longer[i] = << page, n >> /\ n = i - 1
      BY <1>4, <2>1
    <3>2. new[i] = << page, i - 1 >>
      BY <1>2
    <3> QED BY <3>1, <3>2
  <2>2. CASE i # n + 1
    <3>1. i \in 1 .. n
      BY <2>2
    <3>2. longer[i] = old[i] /\ old[i] = << page, i - 1 >>
      BY <1>1, <1>4, <3>1
    <3> QED BY <1>2, <3>2
  <2> QED BY <2>1, <2>2
<1>6. Append(old, << page, n >>) = new
  BY <1>2, <1>4, <1>5, SeqEqual
<1> QED BY <1>6 DEF old, new

(* The page that is handed out, and what becomes of the others.            *)
LEMMA HandOutPage ==
  ASSUME Shape, PageInv, NEW c \in Conns, NEW k \in Kinds, NEW s \in Static, NEW h,
         NEW page, NEW got,
         s.p = page, s.left > 0, s.part > 0, s.at + s.left = TextLen,
         page \in Nat, got = Sequel(page, s.at),
         HandOut(c, k, s, h, page, got)
  PROVE  IF conn'[c].part = 0 THEN conn'[c].got = Sequel(page, TextLen)
         ELSE /\ conn'[c].kind = k /\ conn'[c].page = page
              /\ static'[k].p = page /\ static'[k].part > 0 /\ static'[k].left > 0
              /\ static'[k].at + static'[k].left = TextLen
              /\ conn'[c].got = Sequel(page, static'[k].at)
<1>1. conn'[c] = [kind |-> k, page |-> page, part |-> IF s.left > 1 THEN s.part ELSE 0,
                  got |-> got \o Handed(s)]
  BY DEF HandOut, Shape
<1>2. got \o Handed(s) = Sequel(page, s.at + 1)
  <2>1. s.at \in Nat /\ page \in Nat
    BY DEF Static
  <2>2. got \in Seq(Nat \X Nat) /\ Len(got) = s.at
    BY <2>1, SequelIsText
  <2>3. << page, s.at >> \in Nat \X Nat
    BY <2>1
  <2>4. got \o Handed(s) = Append(got, << page, s.at >>)
    BY <2>2, <2>3, SMT DEF Handed
  <2> QED BY <2>1, <2>4, SequelGrows
<1>3. CASE s.left > 1
  <2>1. static'[k] = Copied(s)
    BY <1>3 DEF HandOut, Shape
  <2>2. /\ static'[k].p = s.p /\ static'[k].part = s.part + 1
        /\ static'[k].at = s.at + 1 /\ static'[k].left = s.left - 1
    BY <2>1 DEF Copied, Static
  <2>3. conn'[c].part = s.part /\ s.part # 0
    BY <1>1, <1>3
  <2>4. static'[k].part > 0 /\ static'[k].left > 0 /\ static'[k].at + static'[k].left = TextLen
    BY <1>3, <2>2 DEF Static
  <2> QED BY <1>1, <1>2, <2>2, <2>3, <2>4
<1>4. CASE ~(s.left > 1)
  <2>1. s.left = 1 /\ s.at + 1 = TextLen
    BY <1>4 DEF Static
  <2>2. conn'[c].part = 0
    BY <1>1, <1>4
  <2> QED BY <1>1, <1>2, <2>1, <2>2
<1> QED BY <1>3, <1>4

-----------------------------------------------------------------------------
(* A page whose connection is not served any more.                         *)
LEMMA PageGivenUp ==
  ASSUME PagesInv, NEW c \in Conns, pages' \in Nat, pages <= pages',
         conn' = [conn EXCEPT ![c] = Idle], static' \in [Kinds -> Static],
         \A k \in Kinds : /\ static'[k].buf \in {NULL, static[k].buf}
                          /\ static'[k].p = static[k].p /\ static'[k].at = static[k].at
                          /\ static'[k].left = static[k].left /\ static'[k].part = static[k].part,
         heap' = heap, alone' = alone, bad' = bad
  PROVE  PagesInv'
<1> USE DEF PagesInv
<1>1. \A d \in Conns : conn'[d] = IF d = c THEN Idle ELSE conn[d]
  BY DEF Shape
<1>2. << >> \in Seq(Nat \X Nat)
  OBVIOUS
<1>3. Shape'
  <2>1. Idle \in [kind : Kinds \cup {"none"}, page : 0 .. pages', part : Nat, got : Seq(Nat \X Nat)]
    BY <1>2 DEF Idle
  <2>2. \A d \in Conns : conn[d] \in [kind : Kinds \cup {"none"}, page : 0 .. pages', part : Nat,
                                      got : Seq(Nat \X Nat)]
    BY DEF Shape
  <2>3. conn' \in [Conns -> [kind : Kinds \cup {"none"}, page : 0 .. pages', part : Nat,
                             got : Seq(Nat \X Nat)]]
    BY <1>1, <2>1, <2>2 DEF Shape
  <2> QED BY <2>3 DEF Shape
<1>4. HeapInv'
  <2>1. \A k \in Kinds : static[k].p \in Nat
    BY DEF Shape, Static
  <2>2. \A k \in Kinds : static'[k].p <= pages'
    <3>1. ASSUME NEW k \in Kinds PROVE static'[k].p <= pages'
      <4>1. static[k].p <= pages /\ pages \in Nat
        BY DEF HeapInv, Shape
      <4> QED BY <2>1, <4>1
    <3> QED BY <3>1
  <2> QED BY <2>2 DEF HeapInv, NULL
<1>5. PageInv'
  <2>1. Idle.page \notin alone /\ ~(Idle.part > 0)
    BY DEF Idle, Shape
  <2>2. ASSUME NEW d \in Conns, conn'[d].page \in alone'
        PROVE  IF conn'[d].part = 0 THEN conn'[d].got = Sequel(conn'[d].page, TextLen)
               ELSE InService(d)'
    <3>1. d # c /\ conn'[d] = conn[d]
      BY <1>1, <2>1, <2>2
    <3>2. InService(d) => InService(d)'
      BY <3>1 DEF InService
    <3> QED BY <2>2, <3>1, <3>2 DEF PageInv
  <2>3. ASSUME NEW d \in Conns, NEW e \in Conns, conn'[d].part > 0, conn'[e].part > 0,
               conn'[d].kind = conn'[e].kind, conn'[d].page \in alone'
        PROVE  d = e
    BY <1>1, <2>1, <2>3 DEF PageInv
  <2>4. \A d \in Conns : conn'[d].part > 0 => conn'[d].kind \in Kinds
    BY <1>1, <2>1 DEF PageInv
  <2> QED BY <2>2, <2>3, <2>4 DEF PageInv
<1> QED BY <1>3, <1>4, <1>5

(* What a part handed out for c leaves of the pages of the other            *)
(* connections, when nothing of its kind is alone elsewhere.               *)
LEMMA OtherPages ==
  ASSUME PagesInv, NEW c \in Conns, NEW k \in Kinds, NEW s \in Static, NEW h,
         NEW page, NEW got, HandOut(c, k, s, h, page, got),
         NEW d \in Conns, d # c, conn[d].page \in alone,
         conn[d].part > 0 => conn[d].kind # k
  PROVE  IF conn'[d].part = 0 THEN conn'[d].got = Sequel(conn'[d].page, TextLen)
         ELSE InService(d)'
<1>1. conn'[d] = conn[d]
  BY DEF PagesInv, HandOut, Shape
<1>2. IF conn[d].part = 0 THEN conn[d].got = Sequel(conn[d].page, TextLen) ELSE InService(d)
  BY DEF PagesInv, PageInv
<1>3. CASE conn[d].part = 0
  BY <1>1, <1>2, <1>3
<1>4. CASE conn[d].part # 0
  <2>1. conn[d].part > 0
    BY <1>4 DEF PagesInv, Shape
  <2>2. InService(d) /\ conn[d].kind \in Kinds /\ conn[d].kind # k
    BY <1>2, <1>4, <2>1 DEF InService
  <2>3. static'[conn[d].kind] = static[conn[d].kind]
    BY <2>2 DEF HandOut, PagesInv, Shape
  <2> QED BY <1>1, <1>4, <2>2, <2>3 DEF InService
<1> QED BY <1>3, <1>4

LEMMA RequestHolds == PagesInv /\ Request => PagesInv'
<1> SUFFICES ASSUME PagesInv, Request PROVE PagesInv'
  OBVIOUS
<1> DEFINE n == pages + 1
<1>1. PICK c \in Conns, k \in Kinds :
        /\ conn[c].part = 0
        /\ alone' = (alone \ Overlapping(k)) \cup (IF Overlapping(k) = {} THEN {n} ELSE {})
        /\ HandOut(c, k, Generated(static[k], n), heap \cup {n}, n, << >>)
        /\ pages' = n
  BY DEF Request
<1> DEFINE s == Generated(static[k], n)
<1>2. Shape /\ HeapInv /\ PageInv /\ pages \in Nat /\ n \in Nat /\ n > pages
  BY DEF PagesInv, Shape
<1>3. s \in Static /\ s = [buf |-> n, p |-> n, at |-> 0, left |-> TextLen, part |-> 1]
  BY <1>2, PagesAssumption DEF Generated, Static
<1>4. alone' \subseteq 1 .. pages'
  <2>1. alone \subseteq 1 .. n
    BY <1>2 DEF Shape
  <2>2. n \in 1 .. n
    BY <1>2
  <2> QED BY <1>1, <2>1, <2>2
<1>5. heap \cup {n} \in SUBSET (1 .. pages') /\ << >> \in Seq(Nat \X Nat)
  BY <1>1, <1>2 DEF Shape
<1>9. /\ HandOut(c, k, s, heap \cup {n}, n, << >>)
      /\ pages' \in Nat /\ pages <= pages' /\ n \in 0 .. pages' /\ pages' = n
  BY <1>1, <1>2
<1> HIDE DEF n, s
<1>6. Shape'
  BY <1>2, <1>3, <1>4, <1>5, <1>9, HandOutShape
<1>7. HeapInv'
  <2>1. \A j \in Kinds : static[j].p \in Nat /\ static[j].p <= pages
    BY <1>2 DEF HeapInv, Shape, Static
  <2>2. \A j \in Kinds : j # k /\ static[j].p = s.p => s.p = NULL
    BY <1>2, <1>3, <2>1
  <2>3. /\ heap \subseteq heap \cup {n} /\ s.p <= pages'
        /\ s.buf # NULL => s.buf \in heap \cup {n} /\ s.p = s.buf
        /\ s.left > 0 => s.p \in heap \cup {n}
    BY <1>2, <1>3, <1>9
  <2> QED BY <1>2, <1>3, <1>5, <1>9, <2>2, <2>3, HandOutHeap
<1>8. PageInv'
  <2>1. conn' = [conn EXCEPT ![c] = conn'[c]] /\ conn'[c].kind = k /\ conn'[c].page = n
    BY <1>1, <1>2 DEF HandOut, Shape
  <2>2. ASSUME NEW d \in Conns, d # c
        PROVE  conn'[d] = conn[d] /\ conn[d].page # n
    BY <1>2, <2>1, <2>2 DEF Shape
  <2>3. ASSUME NEW d \in Conns, conn[d].part > 0, conn[d].kind = k
        PROVE  conn[d].page \in Overlapping(k)
    BY <2>3 DEF Overlapping
  <2>4. ASSUME NEW d \in Conns, conn'[d].page \in alone'
        PROVE  IF conn'[d].part = 0 THEN conn'[d].got = Sequel(conn'[d].page, TextLen)
               ELSE InService(d)'
    <3>1. CASE d = c
      <4>1. << >> = Sequel(n, 0)
        BY DEF Sequel
      <4>2. s.left > 0 /\ s.at + s.left = TextLen
        BY <1>3, PagesAssumption
      <4>3. IF conn'[c].part = 0 THEN conn'[c].got = Sequel(n, TextLen)
            ELSE /\ conn'[c].kind = k /\ conn'[c].page = n
                 /\ static'[k].p = n /\ static'[k].part > 0 /\ static'[k].left > 0
                 /\ static'[k].at + static'[k].left = TextLen
                 /\ conn'[c].got = Sequel(n, static'[k].at)
        BY <1>1, <1>2, <1>3, <4>1, <4>2, HandOutPage DEF s
      <4> QED BY <2>1, <3>1, <4>3 DEF InService
    <3>2. CASE d # c
      <4>1. conn[d].page \in alone /\ conn[d].page \notin Overlapping(k)
        BY <1>1, <2>2, <2>4, <3>2
      <4>2. conn[d].part > 0 => conn[d].kind # k
        BY <2>3, <4>1
      <4> QED BY <1>1, <1>3, <3>2, <4>1, <4>2, OtherPages DEF s
    <3> QED BY <3>1, <3>2
  <2>5. ASSUME NEW d \in Conns, NEW e \in Conns, conn'[d].part > 0, conn'[e].part > 0,
               conn'[d].kind = conn'[e].kind, conn'[d].page \in alone', d # e
        PROVE  FALSE
    <3>1. CASE d = c
      <4>1. n \in alone' /\ n \notin alone
        BY <1>2, <2>1, <2>5, <3>1 DEF Shape, n
      <4>2. Overlapping(k) = {}
        BY <1>1, <4>1
      <4> QED BY <2>1, <2>2, <2>3, <2>5, <3>1, <4>2
    <3>2. CASE e = c
      <4>1. conn[d].page \in Overlapping(k)
        BY <2>1, <2>2, <2>3, <2>5, <3>2
      <4> QED BY <1>1, <2>2, <2>5, <3>2, <4>1
    <3>3. CASE d # c /\ e # c
      <4>1. conn[d].page \in alone
        BY <1>1, <2>2, <2>5, <3>3
      <4> QED BY <1>2, <2>2, <2>5, <3>3, <4>1 DEF PageInv
    <3> QED BY <3>1, <3>2, <3>3
  <2>6. \A d \in Conns : conn'[d].part > 0 => conn'[d].kind \in Kinds
    BY <1>2, <2>1, <2>2 DEF PageInv
  <2> QED BY <2>4, <2>5, <2>6 DEF PageInv
<1> QED BY <1>6, <1>7, <1>8 DEF PagesInv

LEMMA RequestFailsHolds == PagesInv /\ RequestFails => PagesInv'
<1> SUFFICES ASSUME PagesInv, RequestFails PROVE PagesInv'
  OBVIOUS
<1>1. PICK c \in Conns, k \in Kinds, early \in BOOLEAN :
        /\ static' = IF early THEN static ELSE [static EXCEPT ![k] = NoMemory(@)]
        /\ conn' = [conn EXCEPT ![c] = Idle]
  BY DEF RequestFails
<1>2. /\ pages' \in Nat /\ pages <= pages' /\ heap' = heap /\ alone' = alone /\ bad' = bad
      /\ static \in [Kinds -> Static]
  BY DEF RequestFails, PagesInv, Shape
<1>3. /\ NoMemory(static[k]) \in Static
      /\ NoMemory(static[k]).buf = NULL /\ NoMemory(static[k]).p = static[k].p
      /\ NoMemory(static[k]).at = static[k].at /\ NoMemory(static[k]).left = static[k].left
      /\ NoMemory(static[k]).part = static[k].part
  BY <1>2 DEF NoMemory, Static, NULL
<1>4. static' \in [Kinds -> Static]
  BY <1>1, <1>2, <1>3
<1>5. ASSUME NEW j \in Kinds
      PROVE  /\ static'[j].buf \in {NULL, static[j].buf}
             /\ static'[j].p = static[j].p /\ static'[j].at = static[j].at
             /\ static'[j].left = static[j].left /\ static'[j].part = static[j].part
  <2>1. CASE early \/ j # k
    BY <1>1, <1>2, <2>1
  <2>2. CASE ~early /\ j = k
    BY <1>1, <1>2, <1>3, <2>2
  <2> QED BY <2>1, <2>2
<1> QED BY <1>1, <1>2, <1>4, <1>5, PageGivenUp

LEMMA ContinueHolds == PagesInv /\ Continue => PagesInv'
<1> SUFFICES ASSUME PagesInv, Continue PROVE PagesInv'
  OBVIOUS
<1>1. PICK c \in Conns :
        /\ conn[c].part > 0
        /\ HandOut(c, conn[c].kind, static[conn[c].kind], heap, conn[c].page, conn[c].got)
  BY DEF Continue
<1> DEFINE k == conn[c].kind
           s == static[k]
           page == conn[c].page
           got == conn[c].got
<1>2. Shape /\ HeapInv /\ PageInv /\ pages \in Nat /\ pages' = pages /\ alone' = alone
  BY DEF Continue, PagesInv, Shape
<1>3. k \in Kinds /\ s \in Static /\ page \in 0 .. pages' /\ got \in Seq(Nat \X Nat)
  BY <1>1, <1>2 DEF PageInv, Shape
<1>4. heap \in SUBSET (1 .. pages') /\ alone' \subseteq 1 .. pages' /\ page \in Nat
  BY <1>2, <1>3 DEF Shape
<1>5. /\ s.buf # NULL => s.buf \in heap /\ s.p = s.buf
      /\ s.left > 0 => s.p \in heap
      /\ s.p <= pages'
      /\ \A j \in Kinds : j # k /\ static[j].p = s.p => s.p = NULL
  BY <1>2, <1>3 DEF HeapInv
<1>6. conn' = [conn EXCEPT ![c] = conn'[c]] /\ conn'[c].kind = k /\ conn'[c].page = page
  BY <1>1, <1>2 DEF HandOut, Shape
<1>7. page \in alone => InService(c)
  BY <1>1, <1>2 DEF PageInv
<1>8. HandOut(c, k, s, heap, page, got) /\ pages' \in Nat /\ pages <= pages'
  BY <1>1, <1>2
<1>9. conn[c].part > 0 /\ k = conn[c].kind /\ page = conn[c].page /\ got = conn[c].got /\ s = static[k]
  BY <1>1
<1> HIDE DEF k, s, page, got
<1>10. Shape'
  BY <1>2, <1>3, <1>4, <1>8, HandOutShape
<1>11. HeapInv'
  BY <1>2, <1>3, <1>4, <1>5, <1>8, HandOutHeap
<1>12. PageInv'
  <2>1. \A d \in Conns : d # c => conn'[d] = conn[d]
    BY <1>2, <1>6 DEF Shape
  <2>2. ASSUME NEW d \in Conns, conn'[d].page \in alone'
        PROVE  IF conn'[d].part = 0 THEN conn'[d].got = Sequel(conn'[d].page, TextLen)
               ELSE InService(d)'
    <3>1. CASE d = c
      <4>1. /\ s.p = page /\ s.part > 0 /\ s.left > 0 /\ s.at + s.left = TextLen
            /\ got = Sequel(page, s.at)
        BY <1>2, <1>6, <1>7, <1>9, <2>2, <3>1 DEF InService
      <4>2. IF conn'[c].part = 0 THEN conn'[c].got = Sequel(page, TextLen)
            ELSE /\ conn'[c].kind = k /\ conn'[c].page = page
                 /\ static'[k].p = page /\ static'[k].part > 0 /\ static'[k].left > 0
                 /\ static'[k].at + static'[k].left = TextLen
                 /\ conn'[c].got = Sequel(page, static'[k].at)
        BY <1>2, <1>3, <1>4, <1>8, <4>1, HandOutPage
      <4> QED BY <1>3, <1>6, <3>1, <4>2 DEF InService
    <3>2. CASE d # c
      <4>1. conn[d].page \in alone
        BY <1>2, <2>1, <2>2, <3>2
      <4>2. conn[d].part > 0 => conn[d].kind # k
        BY <1>2, <1>9, <3>2, <4>1 DEF PageInv
      <4> QED BY <1>3, <1>8, <3>2, <4>1, <4>2, OtherPages
    <3> QED BY <3>1, <3>2
  <2>3. \A d \in Conns : conn'[d].part > 0 => conn[d].part > 0
    BY <1>9, <2>1
  <2>4. \A d \in Conns : conn'[d].kind = conn[d].kind /\ conn'[d].page = conn[d].page
    BY <1>6, <1>9, <2>1
  <2> QED BY <1>2, <2>2, <2>3, <2>4 DEF PageInv
<1> QED BY <1>10, <1>11, <1>12 DEF PagesInv

LEMMA AbortHolds == PagesInv /\ Abort => PagesInv'
<1> SUFFICES ASSUME PagesInv, Abort PROVE PagesInv'
  OBVIOUS
<1>1. PICK c \in Conns : conn' = [conn EXCEPT ![c] = Idle]
  BY DEF Abort
<1>2. /\ pages' = pages /\ pages' \in Nat /\ heap' = heap /\ alone' = alone /\ bad' = bad
      /\ static' = static /\ static \in [Kinds -> Static]
  BY DEF Abort, PagesInv, Shape
<1>3. \A k \in Kinds : /\ static'[k].buf \in {NULL, static[k].buf}
                       /\ static'[k].p = static[k].p /\ static'[k].at = static[k].at
                       /\ static'[k].left = static[k].left /\ static'[k].part = static[k].part
  BY <1>2
<1>4. static' \in [Kinds -> Static] /\ pages <= pages'
  BY <1>2
<1> QED BY <1>1, <1>2, <1>3, <1>4, PageGivenUp

LEMMA PagesKept == PagesInv /\ [PNext]_page_vars => PagesInv'
<1> SUFFICES ASSUME PagesInv, [PNext]_page_vars PROVE PagesInv'
  OBVIOUS
<1>1. CASE UNCHANGED page_vars
  BY <1>1 DEF page_vars, PagesInv, Shape, HeapInv, PageInv, InService
<1> QED BY <1>1, RequestHolds, RequestFailsHolds, ContinueHolds, AbortHolds DEF PNext

(* However requests for pages overlap, fail for want of memory and are      *)
(* given up, csv_stats and json_stats neither read nor free a buffer that   *)
(* has been freed.                                                         *)
THEOREM PagesHeapSound == PSpec => []HeapSound
<1>1. PagesInv => HeapSound
  BY DEF PagesInv, HeapInv, HeapSound
<1> QED BY PagesStart, PagesKept, <1>1, PTL DEF PSpec

(* A page that no other one of its kind overlapped is handed out whole, in  *)
(* order and from the text generated for it, whatever pages before it left  *)
(* behind in the handler.                                                  *)
THEOREM PagesComeWhole == PSpec => []PageWhole
<1>1. PagesInv => PageWhole
  BY DEF PagesInv, PageInv, PageWhole, Sequel
<1> QED BY PagesStart, PagesKept, <1>1, PTL DEF PSpec

=============================================================================
