-------------------------------- MODULE Sublists -------------------------------
(***************************************************************************)
(* The part of a sequence at some of its positions, in their order: what   *)
(* is left of an array that is filtered.  SelectSeq and SetToSortSeq say   *)
(* the same to TLC, but nothing to a prover, because they are recursive    *)
(* operators of the library; these are defined by what they promise.       *)
(***************************************************************************)
EXTENDS Integers, FiniteSets

(* The integers of K in increasing order.                                  *)
Ascending(K) ==
  CHOOSE a \in [1 .. Cardinality(K) -> K] : \A m, n \in DOMAIN a : m < n => a[m] < a[n]

(* s at the positions K.                                                   *)
Sublist(s, K) == [n \in DOMAIN Ascending(K) |-> s[Ascending(K)[n]]]
================================================================================
