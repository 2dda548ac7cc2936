------------------------------ MODULE StatusPages ------------------------------
(***************************************************************************)
(* The status pages of the HTTP server (httpd.c): the texts that csv_stats  *)
(* and json_stats generate into a buffer of their own and hand out in       *)
(* parts, one per call, to connections the server serves in turns.         *)
(*                                                                         *)
(* The server is external (lwIP): it calls a handler with part 0 when a      *)
(* connection reaches the tag, and again as long as the handler names a     *)
(* next part; a client may go away at any time.  The two handlers have      *)
(* static variables of their own.  A block of the heap is a number, 0 for   *)
(* NULL; what it holds is the number of the page it was generated for.     *)
(***************************************************************************)
EXTENDS Integers, Sequences, FiniteSets

CONSTANTS
  Conns,            (* connections                                         *)
  TextLen,          (* parts a text is long: its length over insertlen - 1  *)
  MaxPages          (* bound: pages requested                              *)

ASSUME PagesAssumption ==
  /\ TextLen \in Nat \ {0} /\ MaxPages \in Nat

Kinds == {"csvstat", "jsonstat"}
NULL == 0

VARIABLES
  static,           (* of each handler: [buf, p, at, left, part]; p is the  *)
                    (* block p points into and `at` how far in             *)
  heap,             (* the blocks that are allocated                       *)
  pages,            (* pages requested so far                              *)
  conn,             (* [kind, page, part, got] of the page being served     *)
  (* history, for the properties only *)
  alone,            (* the pages that no other one of their kind overlapped *)
  bad               (* freed memory was read or freed again                *)

page_vars == << static, heap, pages, conn, alone, bad >>

Idle == [kind |-> "none", page |-> 0, part |-> 0, got |-> << >>]

PInit ==
  /\ static = [k \in Kinds |-> [buf |-> NULL, p |-> NULL, at |-> 0, left |-> 0, part |-> 0]]
  /\ heap = {} /\ pages = 0 /\ bad = FALSE /\ alone = {}
  /\ conn = [c \in Conns |-> Idle]

-----------------------------------------------------------------------------
(* lcdpico_ssi_handler: a tag goes to the first branch whose word it shares *)
(* the first characters with, as many as that branch compares (strncmp).   *)
SsiBranches ==
  << << "datetime", 8 >>, << "uptime", 6 >>, << "watchdog", 8 >>, << "model", 5 >>,
     << "version", 5 >>, << "name", 4 >>, << "vsenrow", 7 >>, << "adcvref", 7 >>,
     << "csvstat", 7 >>, << "jsonstat", 8 >>, << "refresh", 8 >>, << "reading", 7 >>,
     << "display", 7 >> >>
Front(s, n) == IF Len(s) <= n THEN s ELSE SubSeq(s, 1, n)
SsiBranch(tag) ==
  LET hits == {i \in DOMAIN SsiBranches :
                 Front(tag, SsiBranches[i][2]) = Front(SsiBranches[i][1], SsiBranches[i][2])}
  IN IF hits = {} THEN "none" ELSE SsiBranches[CHOOSE i \in hits : \A j \in hits : i <= j][1]

(* The row of vsenrow<n> is shown, of `count` sensors; and what is kept of a *)
(* text that snprintf cut off                                              *)
RowShown(n, mask, count) == n - 1 \in 0 .. count - 1 /\ n - 1 \in mask
Kept(printed, insertlen) == IF printed >= insertlen THEN insertlen - 1 ELSE printed

-----------------------------------------------------------------------------
(* Generating a text, as page number n.  Without memory csv_stats, and the  *)
(* last allocation of json_stats, leave buf NULL and the rest as it was;    *)
(* an earlier one of json_stats leaves everything as it was.               *)
KeepsPlace(s, n) ==                   \* a slip: buf_left as it was
  [s EXCEPT !.buf = n, !.p = n, !.at = 0, !.part = 1, !.left = IF @ = 0 THEN TextLen ELSE @]
Generated(s, n) == [buf |-> n, p |-> n, at |-> 0, left |-> TextLen, part |-> 1]
NoMemory(s) == [s EXCEPT !.buf = NULL]

(* Copying a part: what it takes is read from where p points, and the last  *)
(* part frees the buffer.                                                  *)
Copied(s) == [s EXCEPT !.at = @ + 1, !.left = @ - 1, !.part = @ + 1]
FreesOnly(s) == [s EXCEPT !.left = 0]                              \* a slip
LastCopied(s) == [s EXCEPT !.buf = NULL, !.p = NULL, !.left = 0]

(* The part handed out: << page, place >> in it, or nothing *)
Handed(s) == IF s.left > 0 THEN << << s.p, s.at >> >> ELSE << >>
ReadsFreed(s, h) == s.left > 0 /\ s.p \notin h
FreesFreed(s, h) == s.left <= 1 /\ s.buf # NULL /\ s.buf \notin h

(* The rest of a handler, with the static variables s and the heap h, for   *)
(* connection c, which has `got` before                                    *)
HandOut(c, k, s, h, page, got) ==
  /\ static' = [static EXCEPT ![k] = IF s.left > 1 THEN Copied(s) ELSE LastCopied(s)]
  /\ heap' = IF s.left > 1 THEN h ELSE h \ {s.buf}
  /\ bad' = (bad \/ ReadsFreed(s, h) \/ FreesFreed(s, h))
  /\ conn' = [conn EXCEPT ![c] =
       [kind |-> k, page |-> page, part |-> IF s.left > 1 THEN s.part ELSE 0,
        got |-> got \o Handed(s)]]

Overlapping(k) == {conn[c].page : c \in {d \in Conns : conn[d].kind = k /\ conn[d].part > 0}}

(* A connection reaches the tag of a page. *)
Request ==
  /\ pages < MaxPages
  /\ \E c \in Conns, k \in Kinds :
       LET n == pages + 1
       IN /\ conn[c].part = 0
          /\ alone' = (alone \ Overlapping(k)) \cup (IF Overlapping(k) = {} THEN {n} ELSE {})
          /\ HandOut(c, k, Generated(static[k], n), heap \cup {n}, n, << >>)
          /\ pages' = n

(* It does, with no memory left: the page stays empty. *)
RequestFails ==
  /\ pages < MaxPages /\ pages' = pages + 1
  /\ \E c \in Conns, k \in Kinds, early \in BOOLEAN :
       /\ conn[c].part = 0 /\ (early => k = "jsonstat")
       /\ static' = IF early THEN static ELSE [static EXCEPT ![k] = NoMemory(@)]
       /\ conn' = [conn EXCEPT ![c] = Idle]
  /\ UNCHANGED << heap, alone, bad >>

(* The server asks for the part a handler named. *)
Continue ==
  /\ \E c \in Conns :
       /\ conn[c].part > 0
       /\ HandOut(c, conn[c].kind, static[conn[c].kind], heap, conn[c].page, conn[c].got)
  /\ UNCHANGED << pages, alone >>

(* The client goes away; the handler is not told. *)
Abort ==
  /\ \E c \in Conns : conn[c].part > 0 /\ conn' = [conn EXCEPT ![c] = Idle]
  /\ UNCHANGED << static, heap, pages, alone, bad >>

PNext == Request \/ RequestFails \/ Continue \/ Abort

PSpec == PInit /\ [][PNext]_page_vars

-----------------------------------------------------------------------------
(* However requests for pages overlap, fail and are given up, no handler    *)
(* reads or frees a buffer that has been freed.                            *)
HeapSound == ~bad

(* A page that no other one of its kind overlapped is its text, whole, in   *)
(* order and from one generation, whatever was left of the pages before.   *)
PageWhole ==
  \A c \in Conns :
    (conn[c].page \in alone /\ conn[c].part = 0)
      => conn[c].got = [i \in 1 .. TextLen |-> << conn[c].page, i - 1 >>]
=============================================================================
