-------------------------------- MODULE Ledger --------------------------------
(***************************************************************************)
(* What the inventory promises to the rest of EZBillz, with no             *)
(* transactions in it: a stock balance per product and place, and an       *)
(* append-only list of movements that explains every change of a balance.  *)
(* The README calls it "an append-only stock ledger".                      *)
(*                                                                         *)
(*   - a posting adds all its movements, and changes all its balances, in  *)
(*     one step;                                                           *)
(*   - all movements of a posting carry the same reference (the purchase,  *)
(*     the invoice or the adjustment key), and a reference moves a product *)
(*     at most once, ever;                                                 *)
(*   - no balance is ever negative.                                        *)
(***************************************************************************)
EXTENDS Integers

CONSTANTS Product,    \* the organization's products
          Place       \* a warehouse together with a location in it, or none

VARIABLES stockBalance,   \* [Product \X Place -> Nat]: table StockBalance
          stockMovement   \* set of movements: table StockMovement

Cell == Product \X Place

CellOf(m) == <<m.product, m.place>>

(***************************************************************************)
(* Two movements the unique constraint of the table tells apart:           *)
(* @@unique([referenceType, referenceId, productId, type]).                *)
(***************************************************************************)
SameSlot(m, n) ==
  /\ m.reference = n.reference
  /\ m.product = n.product
  /\ m.type = n.type

(***************************************************************************)
(* What a batch of movements with one slot per product adds to cell c.     *)
(***************************************************************************)
Explains(batch, c, change) ==
  \/ \E m \in batch : CellOf(m) = c /\ change = m.quantity
  \/ (\A m \in batch : CellOf(m) # c) /\ change = 0

Init ==
  /\ stockBalance \in [Cell -> Nat]
  /\ \A c \in Cell : Explains(stockMovement, c, stockBalance[c])
  /\ \A m, n \in stockMovement : SameSlot(m, n) => m = n

Post ==
  LET batch == stockMovement' \ stockMovement IN
  /\ stockMovement \subseteq stockMovement'
  /\ \E ref \in {m.reference : m \in batch} : \A m \in batch : m.reference = ref
  /\ \A m \in batch : \A n \in stockMovement' : SameSlot(m, n) => m = n
  /\ stockBalance' \in [Cell -> Nat]
  /\ \A c \in Cell : Explains(batch, c, stockBalance'[c] - stockBalance[c])

Next == Post

Spec == Init /\ [][Next]_<<stockBalance, stockMovement>>
================================================================================
