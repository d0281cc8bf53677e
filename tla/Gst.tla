---------------------------------- MODULE Gst ----------------------------------
(***************************************************************************)
(* The GST engine, lib/gst/engine.ts: the amounts of a line and of a sales *)
(* document, in paise.  A price is in paise, a quantity in fractions of    *)
(* 1/Unit, discount and rate in percent.  The engine's products of floats  *)
(* are taken as exact: what is rounded here is what Math.round rounds.     *)
(***************************************************************************)
EXTENDS Integers, Functions

CONSTANTS
  Unit,      \* the fractions of a quantity (the columns hold thousandths)
  NoState    \* the state code of a customer that has none

ASSUME UnitAssumption == Unit \in Nat \ {0}

(* Math.round(n / d), halves up *)
Round(n, d) == (2 * n + d) \div (2 * d)

(* The sum of one field over a sequence of records *)
Column(rows, field) == SumFunction([i \in DOMAIN rows |-> rows[i][field]])

--------------------------------------------------------------------------------
Gross(line) == Round(line.price * line.quantity, Unit)

Net(line) == Gross(line) - Round(Gross(line) * line.discount, 100)

(***************************************************************************)
(* A price that includes the tax is divided by 1 + rate, and the tax is    *)
(* what remains of it; otherwise the tax comes on top.                     *)
(***************************************************************************)
Taxable(line) ==
  IF line.inclusive THEN Round(100 * Net(line), 100 + line.rate) ELSE Net(line)

(* Faulty variant: the tax in a price is computed from it, and rounded again. *)
TaxRoundedAgain(line) ==
  IF line.inclusive THEN Round(Taxable(line) * line.rate, 100)
                    ELSE Round(Net(line) * line.rate, 100)

(* Faulty variant: the discount is forgotten where the tax is computed.  *)
TaxBeforeDiscount(line) ==
  IF line.inclusive THEN Net(line) - Taxable(line) ELSE Round(Gross(line) * line.rate, 100)

Tax(line) ==
  IF line.inclusive THEN Net(line) - Taxable(line)
                    ELSE Round(Taxable(line) * line.rate, 100)

(***************************************************************************)
(* Between states the tax is IGST, within one it is halved, and the odd    *)
(* paisa is CGST's.                                                        *)
(***************************************************************************)
TaxSplit(line, inter) ==
  [cgst |-> IF inter THEN 0 ELSE (Tax(line) + 1) \div 2,
   sgst |-> IF inter THEN 0 ELSE Tax(line) \div 2,
   igst |-> IF inter THEN Tax(line) ELSE 0]

CalculateLine(line, inter) ==
  LET split == TaxSplit(line, inter)
  IN  [taxable |-> Taxable(line),
       cgst |-> split.cgst, sgst |-> split.sgst, igst |-> split.igst,
       lineTotal |-> Taxable(line) + split.cgst + split.sgst + split.igst]

InterState(seller, buyer) == buyer # NoState /\ buyer # seller

(***************************************************************************)
(* The totals are sums of the rounded lines; the grand total is rounded to *)
(* the rupee, and roundOff says by how much.                               *)
(***************************************************************************)
CalculateInvoice(lines, seller, buyer) ==
  LET items    == [i \in DOMAIN lines |->
                     CalculateLine(lines[i], InterState(seller, buyer))]
      subtotal == SumFunction([i \in DOMAIN lines |-> Gross(lines[i])])
      taxable  == Column(items, "taxable")
      preRound == Column(items, "taxable") + Column(items, "cgst")
                  + Column(items, "sgst") + Column(items, "igst")
      grand    == 100 * Round(preRound, 100)
  IN  [items |-> items, subtotal |-> subtotal, discountTotal |-> subtotal - taxable,
       taxable |-> taxable, cgst |-> Column(items, "cgst"),
       sgst |-> Column(items, "sgst"), igst |-> Column(items, "igst"),
       roundOff |-> grand - preRound, grand |-> grand]
================================================================================
