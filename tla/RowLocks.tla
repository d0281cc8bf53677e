------------------------------- MODULE RowLocks -------------------------------
(***************************************************************************)
(* What the services rely on PostgreSQL for.  Every write request runs in  *)
(* one READ COMMITTED transaction: an UPDATE, or a SELECT ... FOR UPDATE,   *)
(* locks its row until the transaction ends; inserting a row that refers   *)
(* to another one (a foreign key) takes a KEY SHARE lock on it, which      *)
(* conflicts with FOR UPDATE but not with an ordinary UPDATE.  A circular  *)
(* wait is broken by aborting one of its members.                          *)
(*                                                                         *)
(* PostgreSQL is not part of the repository: these operators say only what *)
(* the code in src/ uses of it.                                            *)
(***************************************************************************)
EXTENDS Integers

(***************************************************************************)
(* The holder of a row nobody has locked.                                  *)
(***************************************************************************)
Nobody == "nobody"

(***************************************************************************)
(* May r lock a row whose exclusive holder is h?  A transaction never      *)
(* waits for itself.                                                       *)
(***************************************************************************)
MayHold(h, r) == h \in {Nobody, r}

(***************************************************************************)
(* The waits relation is a set of pairs <<waiter, holder>>.  A transaction *)
(* is deadlocked when it belongs to a group in which everybody waits for a *)
(* member and everybody is waited for by a member.                         *)
(***************************************************************************)
Deadlocked(waits, r) ==
  LET nodes == {w[1] : w \in waits}
  IN  \E group \in SUBSET nodes :
        /\ r \in group
        /\ \A q \in group : /\ \E p \in group : <<q, p>> \in waits
                            /\ \E p \in group : <<p, q>> \in waits
================================================================================
