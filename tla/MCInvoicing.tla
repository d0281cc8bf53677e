----------------------------- MODULE MCInvoicing -----------------------------
(***************************************************************************)
(* A small instance of Invoicing: one opening quotation, two client keys,  *)
(* three requests at a time.                                               *)
(***************************************************************************)
EXTENDS Invoicing, TLC

CONSTANTS q1, k1, k2, r1, r2, r3

Create(key, t, ours) == [kind |-> "create", key |-> key, type |-> t, ours |-> ours]
Convert(d) == [kind |-> "convert", target |-> d]
Duplicate(d) == [kind |-> "duplicate", target |-> d]

(* Every route and branch: a key sent twice, also for another type; a       *)
(* document that exists, one that another request may make before, during   *)
(* or after; one that is not a quotation.                                   *)
MixedBody ==
  { Create(k1, "TAX_INVOICE", TRUE), Create(k1, "CREDIT_NOTE", TRUE),
    Create(k2, "QUOTATION", TRUE), Create(k2, "DELIVERY_CHALLAN", FALSE),
    Convert(q1), Duplicate(q1), Convert(r1), Duplicate(r1) }

(* The same button is pressed by every request.                             *)
ConversionBody == { Convert(q1) }
ReplayBody == { Create(k1, "TAX_INVOICE", TRUE) }
================================================================================
