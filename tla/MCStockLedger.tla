------------------------------ MODULE MCStockLedger ------------------------------
(***************************************************************************)
(* Small instances of StockLedger for TLC: two products, one warehouse     *)
(* with one location (and a second warehouse whose location does not       *)
(* belong to it), and a handful of request bodies that meet each branch.   *)
(***************************************************************************)
EXTENDS StockLedger, TLC

CONSTANTS w1, w2, l1, noLoc, p1, p2, noProd, k1, k2, noKey

MCLocationWarehouse == [l \in {l1} |-> w1]

Shelf == [warehouse |-> w1, location |-> noLoc]
Bin   == [warehouse |-> w1, location |-> l1]
Wrong == [warehouse |-> w2, location |-> l1]

Line(p, q) == [product |-> p, quantity |-> q]

Adjust(k, pl, p, q) ==
  [type |-> "ADJUSTMENT", key |-> k, place |-> pl, lines |-> <<Line(p, q)>>]
Purchase(lines) ==
  [type |-> "PURCHASE_RECEIPT", key |-> noKey, place |-> Shelf, lines |-> lines]
Sale(lines) ==
  [type |-> "SALE_ISSUE", key |-> noKey, place |-> Shelf, lines |-> lines]

MCOpening ==
  [c \in Product \X [warehouse : Warehouse, location : {l1, noLoc}] |->
     IF c = <<p1, Shelf>> THEN 2 ELSE 0]

(* Every branch: replays, shortage, a wrong location, a quantity that the  *)
(* DECIMAL(14,3) column rounds to 0, a line without product, two lines of  *)
(* one product.                                                            *)
MixedBodies ==
  { Adjust(k1, Shelf, p1, -2),
    Adjust(k2, Wrong, p1, 1),
    Adjust(k2, Bin, p1, 1),
    Purchase(<<Line(p2, 1), Line(p1, 1), Line(p2, 1)>>),
    Purchase(<<Line(p2, 0)>>),
    Sale(<<Line(p1, 1), Line(noProd, 1), Line(p1, 1)>>),
    Sale(<<Line(p1, 1), Line(p2, 1)>>) }

(* Requests are interchangeable: they differ only in their body.           *)
RequestSymmetry == Permutations(Request)

(* Two receipts and a sale that queue for the same two products.           *)
QueueingBodies ==
  { Purchase(<<Line(p1, 1), Line(p2, 1)>>),
    Purchase(<<Line(p2, 1), Line(p1, 1)>>),
    Sale(<<Line(p1, 1)>>) }

(* The same goods received by every request.                              *)
RepeatedReceipt == { Purchase(<<Line(p1, 1)>>) }

(* An invoice with one product on two lines.                               *)
TwoLineSale == { Sale(<<Line(p1, 1), Line(p1, 1)>>), Sale(<<Line(p1, 2)>>) }

(***************************************************************************)
(* No timeout and no archived warehouse: whatever fails, fails because of  *)
(* the other requests.                                                     *)
(***************************************************************************)
UndisturbedNext == \E r \in Request : Submit(r) \/ Advance(r)
UndisturbedSpec == Init /\ [][UndisturbedNext]_vars
================================================================================
