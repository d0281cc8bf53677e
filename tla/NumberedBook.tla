----------------------------- MODULE NumberedBook -----------------------------
(***************************************************************************)
(* What an organization expects of its books, with no transactions in      *)
(* them: entries are added one at a time, each takes the next number of    *)
(* its series, no number is skipped or used twice, no client key has two   *)
(* entries, and an entry never changes again.  Both the invoices           *)
(* (invoiceService.ts) and the payment receipts (paymentService.ts) are    *)
(* books of this kind.                                                     *)
(***************************************************************************)
EXTENDS Integers

CONSTANTS Series,   \* the number series of the book
          NoKey     \* the key of an entry whose client sent none

VARIABLES entries,  \* a set of records with fields series, sequence and key
          nextSeq   \* per series, the number of its next entry

KeyFree(key) == key = NoKey \/ \A e \in entries : e.key # key

Init ==
  /\ nextSeq \in [Series -> Nat \ {0}]
  /\ \A e \in entries : e.series \in Series /\ e.sequence \in 1..(nextSeq[e.series] - 1)

Add(e) ==
  /\ e.series \in Series
  /\ e.sequence = nextSeq[e.series]
  /\ KeyFree(e.key)
  /\ entries' = entries \cup {e}
  /\ nextSeq' = [nextSeq EXCEPT ![e.series] = @ + 1]

Next == \E e \in entries' : Add(e)

Spec == Init /\ [][Next]_<<entries, nextSeq>>
================================================================================
