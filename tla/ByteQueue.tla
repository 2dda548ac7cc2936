------------------------------ MODULE ByteQueue ------------------------------
(***************************************************************************)
(* What the interrupt handlers of core 1 promise the decoder loop: the     *)
(* words clocked out of the instrument arrive in order, each exactly once, *)
(* except that a word which finds the FIFO full is refused and counted;    *)
(* and a reset pulse stays visible until the loop has answered it.         *)
(***************************************************************************)
EXTENDS Naturals, Sequences

CONSTANTS
  Word,       (* what one FIFO slot can hold                       *)
  Nothing,    (* the consumer's value before it has taken a word   *)
  Capacity    (* words the FIFO can hold                           *)

ASSUME CapacityAssumption == Capacity \in Nat \ {0}

VARIABLES
  queue,           (* words received and not yet taken             *)
  taken,           (* the last word handed to the frame parser     *)
  overruns,        (* words refused because the queue was full     *)
  reset_received   (* a reset pulse has not been answered yet      *)

qvars == << queue, taken, overruns, reset_received >>

QTypeOK ==
  /\ queue \in Seq(Word)
  /\ Len(queue) <= Capacity
  /\ taken \in Word \cup {Nothing}
  /\ overruns \in Nat
  /\ reset_received \in BOOLEAN

QInit ==
  /\ queue = << >>
  /\ taken = Nothing
  /\ overruns = 0
  /\ reset_received = FALSE

(* A word arrives and there is room for it. *)
Put(w) ==
  /\ Len(queue) < Capacity
  /\ queue' = Append(queue, w)
  /\ UNCHANGED << taken, overruns, reset_received >>

(* \E w \in Word : Put(w), with the word read off the new queue: checking  *)
(* it on a step does not enumerate Word.                                   *)
Arrive ==
  /\ Len(queue') = Len(queue) + 1
  /\ queue'[Len(queue')] \in Word
  /\ Put(queue'[Len(queue')])

(* A word arrives while the queue is full: it is dropped and counted. *)
Refuse ==
  /\ Len(queue) = Capacity
  /\ overruns' = overruns + 1
  /\ UNCHANGED << queue, taken, reset_received >>

(* The loop takes the oldest word. *)
Take ==
  /\ queue # << >>
  /\ taken' = Head(queue)
  /\ queue' = Tail(queue)
  /\ UNCHANGED << overruns, reset_received >>

(* A reset pulse; words already queued stay queued. *)
RaiseReset ==
  /\ reset_received' = TRUE
  /\ UNCHANGED << queue, taken, overruns >>

(* The loop has answered the reset. *)
AnswerReset ==
  /\ reset_received
  /\ reset_received' = FALSE
  /\ UNCHANGED << queue, taken, overruns >>

QNext ==
  \/ Arrive
  \/ Refuse
  \/ Take
  \/ RaiseReset
  \/ AnswerReset

QSpec == QInit /\ [][QNext]_qvars

=============================================================================
