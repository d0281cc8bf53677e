------------------------------ MODULE MCPayments ------------------------------
(***************************************************************************)
(* A small instance of Payments: one invoice and one purchase bill, bodies *)
(* that fit, do not fit, or fit only once, and one key sent twice.         *)
(***************************************************************************)
EXTENDS Payments, TLC

CONSTANTS inv, bill, noDoc, k1, noKey

MCGrandTotal == inv :> 3 @@ bill :> 2

Pay(key, direction, invoice, purchase, amount, ours) ==
  [key |-> key, direction |-> direction, invoice |-> invoice, purchase |-> purchase,
   amount |-> amount, ours |-> ours]

(* Two payments of 2 do not both fit the invoice, one of 2 and one of 1 do. *)
MCBody ==
  { Pay(k1, "RECEIVED", inv, noDoc, 2, TRUE),
    Pay(noKey, "RECEIVED", inv, noDoc, 2, TRUE),
    Pay(noKey, "RECEIVED", inv, noDoc, 1, TRUE),
    Pay(k1, "PAID", inv, bill, 2, TRUE),
    Pay(k1, "RECEIVED", noDoc, noDoc, 1, TRUE),
    Pay(noKey, "PAID", inv, noDoc, 1, TRUE),
    Pay(noKey, "PAID", noDoc, bill, 1, FALSE),
    Pay(noKey, "RECEIVED", inv, noDoc, 0, TRUE) }
================================================================================
