------------------------------ MODULE StockLedger ------------------------------
(***************************************************************************)
(* Stock keeping: recordStockMovement (server/inventoryService.ts) and the *)
(* three handlers that call it, each inside one database transaction:      *)
(*                                                                         *)
(*   ADJUSTMENT        POST /api/inventory/adjust, one signed movement     *)
(*                     under the client's idempotency key;                 *)
(*   PURCHASE_RECEIPT  POST /api/purchases, the bill and its items, then   *)
(*                     one receipt per product, quantities added up;       *)
(*   SALE_ISSUE        createInvoice for a tax invoice: the number, the    *)
(*                     invoice and its items, then one issue per line.     *)
(*                                                                         *)
(* One action is one SQL statement, so that transactions interleave as     *)
(* they do under READ COMMITTED.  What a transaction has written stays in  *)
(* delta and inserted until Commit adds it to the tables; Rollback drops   *)
(* it.  A request is handled once; a client that retries, or that submits  *)
(* twice, is two requests with the same body.                              *)
(***************************************************************************)
EXTENDS RowLocks, Sequences, FiniteSets, FiniteSetsExt, Sublists

CONSTANTS
  Request,            \* the HTTP requests of a behaviour
  Product, NoProduct, \* products; NoProduct on a line typed in by hand
  Warehouse,
  Location, NoLocation,
  LocationWarehouse,  \* the warehouse each location belongs to
  Body,               \* the request bodies clients may send
  Opening             \* the stock adjusted in before the behaviour starts

Place == [warehouse : Warehouse, location : Location \cup {NoLocation}]
Cell  == Product \X Place

(***************************************************************************)
(* The movement types, as recordStockMovement sorts them.  A quantity is   *)
(* positive except in an adjustment, which is signed.                      *)
(***************************************************************************)
Outbound == {"SALE_ISSUE", "PURCHASE_RETURN", "TRANSFER_OUT"}
Inbound  == {"OPENING", "PURCHASE_RECEIPT", "SALE_RETURN", "TRANSFER_IN"}

QuantityAllowed(type, quantity) ==
  IF type = "ADJUSTMENT" THEN quantity # 0 ELSE quantity > 0

ActualQuantity(type, quantity) ==
  IF type \in Outbound THEN -quantity ELSE quantity

(***************************************************************************)
(* The movements a body asks for.  A purchase adds up the lines of each    *)
(* product, in the order products first appear; an invoice and an          *)
(* adjustment post line by line.  Lines without a product move no stock.   *)
(***************************************************************************)
StockLines(b) ==
  Sublist(b.lines, {i \in DOMAIN b.lines : b.lines[i].product # NoProduct})

LineTotal(lines, p) ==
  SumFunction([i \in {j \in DOMAIN lines : lines[j].product = p} |-> lines[i].quantity])

FirstLines(lines) ==
  {i \in DOMAIN lines : /\ lines[i].product # NoProduct
                        /\ \A j \in 1..(i - 1) : lines[j].product # lines[i].product}

Aggregated(lines) ==
  LET firsts == Sublist(lines, FirstLines(lines))
  IN  [k \in DOMAIN firsts |-> [product  |-> firsts[k].product,
                                quantity |-> LineTotal(lines, firsts[k].product)]]

(* Faulty variant: a purchase posts line by line, as an invoice does.        *)
PostingsLineByLine(b) == StockLines(b)

Postings(b) ==
  IF b.type = "PURCHASE_RECEIPT" THEN Aggregated(b.lines) ELSE StockLines(b)

Posting == [product : Product, quantity : Int]

PostingTable == [b \in Body |-> Postings(b)]

ASSUME RequestAssumption == Nobody \notin Request
ASSUME ProductAssumption == NoProduct \notin Product
ASSUME LocationAssumption == LocationWarehouse \in [Location -> Warehouse]
ASSUME BodyAssumption ==
  \A b \in Body :
    /\ b.type \in {"ADJUSTMENT", "PURCHASE_RECEIPT", "SALE_ISSUE"}
    /\ b.place \in Place
    /\ b.lines \in Seq([product : Product \cup {NoProduct}, quantity : Int])
    /\ b.lines # <<>>
    /\ Postings(b) \in Seq(Posting)
    /\ b.type = "ADJUSTMENT" => Len(Postings(b)) = 1
ASSUME OpeningAssumption ==
  Opening \in [Cell -> Nat] /\ IsFiniteSet({c \in Cell : Opening[c] > 0})

--------------------------------------------------------------------------------
VARIABLES
  body,           \* the body of each request
  pc,             \* the statement each request executes next
  at,             \* the item, then the posting, it has reached
  active,         \* Warehouse.isActive
  stockBalance,   \* committed StockBalance rows; no row counts as 0
  stockMovement,  \* committed StockMovement rows
  delta,          \* per transaction: what it has added to each balance
  inserted,       \* per transaction: the movements it has inserted
  keyShare,       \* per product: the transactions holding KEY SHARE on it
  forUpdate,      \* per product: the transaction that selected it FOR UPDATE
  orgLock         \* the transaction that has updated the Organization row

tables == <<stockBalance, stockMovement>>
work   == <<delta, inserted>>
locks  == <<keyShare, forUpdate, orgLock>>
vars   == <<body, pc, at, active, tables, work, locks>>

Statements == {"number", "items", "warehouse", "lock", "check", "balance",
               "insert", "commit"}

InTransaction(r) == pc[r] \in Statements

(***************************************************************************)
(* The posting request r has reached, its cell, its signed quantity, and   *)
(* the movement that records it.  The reference is the idempotency key of  *)
(* an adjustment and the id of the new document otherwise; every request   *)
(* that gets so far creates a document of its own, so r stands for its id. *)
(***************************************************************************)
PostingsOf(r) == PostingTable[body[r]]
Current(r)    == PostingsOf(r)[at[r]]
CellAt(r)     == <<Current(r).product, body[r].place>>
Change(r)     == ActualQuantity(body[r].type, Current(r).quantity)

Reference(r) ==
  IF body[r].type = "ADJUSTMENT" THEN <<"ADJUSTMENT", body[r].key>>
                                 ELSE <<"DOCUMENT", r>>

MovementFor(r) ==
  [id |-> <<r, at[r]>>, product |-> Current(r).product, place |-> body[r].place,
   type |-> body[r].type, quantity |-> Change(r), reference |-> Reference(r)]

SlotTaken(r, movements) ==
  \E m \in movements : /\ m.reference = Reference(r)
                       /\ m.product = Current(r).product
                       /\ m.type = body[r].type

--------------------------------------------------------------------------------
(***************************************************************************)
(* Moving on: to a statement, to the first posting, to the next one.       *)
(***************************************************************************)
GoTo(r, statement) == pc' = [pc EXCEPT ![r] = statement]

StartPostings(r) ==
  /\ at' = [at EXCEPT ![r] = 1]
  /\ GoTo(r, IF PostingsOf(r) = <<>> THEN "commit" ELSE "warehouse")

NextPosting(r) ==
  /\ at' = [at EXCEPT ![r] = @ + 1]
  /\ GoTo(r, IF at[r] < Len(PostingsOf(r)) THEN "warehouse" ELSE "commit")

ReleaseLocks(r) ==
  /\ keyShare' = [p \in Product |-> keyShare[p] \ {r}]
  /\ forUpdate' = [p \in Product |-> IF forUpdate[p] = r THEN Nobody ELSE forUpdate[p]]
  /\ orgLock' = IF orgLock = r THEN Nobody ELSE orgLock

ForgetWork(r) ==
  /\ delta' = [delta EXCEPT ![r] = [c \in Cell |-> 0]]
  /\ inserted' = [inserted EXCEPT ![r] = {}]

(***************************************************************************)
(* Any error thrown in the transaction: everything it did is undone and    *)
(* the handler answers with an error status.                               *)
(***************************************************************************)
Rollback(r) ==
  /\ GoTo(r, "failed")
  /\ ForgetWork(r)
  /\ ReleaseLocks(r)
  /\ UNCHANGED <<body, at, active, tables>>

--------------------------------------------------------------------------------
(***************************************************************************)
(* A request arrives.  An adjustment posts at once; a purchase first       *)
(* writes its document; an invoice first claims its number.                *)
(***************************************************************************)
Submit(r) ==
  /\ pc[r] = "idle"
  /\ GoTo(r, IF body[r].type = "ADJUSTMENT" THEN "warehouse"
             ELSE IF body[r].type = "SALE_ISSUE" THEN "number" ELSE "items")
  /\ UNCHANGED <<body, at, active, tables, work, locks>>

(***************************************************************************)
(* UPDATE "Organization" SET invoiceNextSeq: the row stays locked until    *)
(* the transaction ends.                                                   *)
(***************************************************************************)
ClaimNumber(r) ==
  /\ pc[r] = "number"
  /\ MayHold(orgLock, r)
  /\ orgLock' = r
  /\ GoTo(r, "items")
  /\ UNCHANGED <<body, at, active, tables, work, keyShare, forUpdate>>

(***************************************************************************)
(* Inserting an item that refers to a product takes KEY SHARE on it.       *)
(***************************************************************************)
ItemProduct(r) == body[r].lines[at[r]].product

InsertItem(r) ==
  /\ pc[r] = "items"
  /\ IF ItemProduct(r) = NoProduct
     THEN UNCHANGED keyShare
     ELSE /\ MayHold(forUpdate[ItemProduct(r)], r)
          /\ keyShare' = [keyShare EXCEPT ![ItemProduct(r)] = @ \cup {r}]
  /\ IF at[r] < Len(body[r].lines)
     THEN at' = [at EXCEPT ![r] = @ + 1] /\ UNCHANGED pc
     ELSE StartPostings(r)
  /\ UNCHANGED <<body, active, tables, work, forUpdate, orgLock>>

(***************************************************************************)
(* recordStockMovement, first statement: the warehouse must be active and  *)
(* the location, if any, must be in it.  The row is read, not locked.      *)
(***************************************************************************)
PlaceAccepted(pl) ==
  /\ active[pl.warehouse]
  /\ pl.location # NoLocation => LocationWarehouse[pl.location] = pl.warehouse

ReadWarehouse(r) ==
  /\ pc[r] = "warehouse"
  /\ PlaceAccepted(body[r].place)
  /\ GoTo(r, "lock")
  /\ UNCHANGED <<body, at, active, tables, work, locks>>

RefuseWarehouse(r) ==
  /\ pc[r] = "warehouse"
  /\ ~PlaceAccepted(body[r].place)
  /\ Rollback(r)

(***************************************************************************)
(* SELECT ... FROM "Product" ... FOR UPDATE, which waits for every other   *)
(* lock on the row.                                                        *)
(***************************************************************************)
(* Faulty variant: a plain SELECT, without FOR UPDATE.                       *)
LockProductUnlocked(r) ==
  /\ pc[r] = "lock"
  /\ GoTo(r, "check")
  /\ UNCHANGED <<body, at, active, tables, work, locks>>

LockProduct(r) ==
  LET p == Current(r).product IN
  /\ pc[r] = "lock"
  /\ MayHold(forUpdate[p], r)
  /\ keyShare[p] \subseteq {r}
  /\ forUpdate' = [forUpdate EXCEPT ![p] = r]
  /\ GoTo(r, "check")
  /\ UNCHANGED <<body, at, active, tables, work, keyShare, orgLock>>

(***************************************************************************)
(* The idempotency check reads what is committed and what this             *)
(* transaction has inserted itself.  A movement already there means this   *)
(* posting is done.                                                        *)
(***************************************************************************)
(* Faulty variant: no idempotency check.                                     *)
FindNoMovement(r) ==
  /\ pc[r] = "check"
  /\ GoTo(r, "balance")
  /\ UNCHANGED <<body, at, active, tables, work, locks>>

FindMovement(r) ==
  /\ pc[r] = "check"
  /\ IF SlotTaken(r, stockMovement \cup inserted[r])
     THEN NextPosting(r)
     ELSE GoTo(r, "balance") /\ UNCHANGED at
  /\ UNCHANGED <<body, active, tables, work, locks>>

RefuseQuantity(r) ==
  /\ pc[r] = "balance"
  /\ ~QuantityAllowed(body[r].type, Current(r).quantity)
  /\ Rollback(r)

(***************************************************************************)
(* The balance row is updated relative to its latest committed value, once *)
(* no other transaction has a pending write on it.  An outbound movement   *)
(* needs a row holding enough (an UPDATE that finds none waits for nobody);*)
(* an inbound one makes the row if need be.                                *)
(***************************************************************************)
BalanceRowFree(r) == \A q \in Request \ {r} : delta[q][CellAt(r)] = 0

Visible(r) == stockBalance[CellAt(r)] + delta[r][CellAt(r)]

AtBalance(r) ==
  /\ pc[r] = "balance"
  /\ QuantityAllowed(body[r].type, Current(r).quantity)

(* Faulty variant: the unsigned quantity is added whatever the direction.    *)
ApplyUnsignedChange(r) ==
  /\ BalanceRowFree(r)
  /\ delta' = [delta EXCEPT ![r][CellAt(r)] = @ + Current(r).quantity]
  /\ GoTo(r, "insert")
  /\ UNCHANGED <<body, at, active, tables, inserted, locks>>

ApplyChange(r) ==
  /\ BalanceRowFree(r)
  /\ delta' = [delta EXCEPT ![r][CellAt(r)] = @ + Change(r)]
  /\ GoTo(r, "insert")
  /\ UNCHANGED <<body, at, active, tables, inserted, locks>>

(* Faulty variant: the UPDATE has no "quantity >=" condition.                *)
TakeOutUnchecked(r) ==
  /\ AtBalance(r)
  /\ Change(r) < 0
  /\ ApplyChange(r)

TakeOut(r) ==
  /\ AtBalance(r)
  /\ Change(r) < 0
  /\ Visible(r) >= -Change(r)
  /\ ApplyChange(r)

(* Faulty variant: an UPDATE that matches no row is not noticed as an error, *)
(* and nothing more is done for the request.                                 *)
RefuseShortageSilently(r) ==
  /\ AtBalance(r)
  /\ Change(r) < 0
  /\ Visible(r) < -Change(r)
  /\ UNCHANGED vars

RefuseShortage(r) ==
  /\ AtBalance(r)
  /\ Change(r) < 0
  /\ Visible(r) < -Change(r)
  /\ Rollback(r)

PutIn(r) ==
  /\ AtBalance(r)
  /\ Change(r) > 0
  /\ ApplyChange(r)

(* Faulty variant: the movement is inserted with prisma instead of tx,       *)
(* outside the transaction.                                                  *)
InsertMovementOutside(r) ==
  /\ pc[r] = "insert"
  /\ stockMovement' = stockMovement \cup {MovementFor(r)}
  /\ NextPosting(r)
  /\ UNCHANGED <<body, active, stockBalance, work, locks>>

InsertMovement(r) ==
  /\ pc[r] = "insert"
  /\ inserted' = [inserted EXCEPT ![r] = @ \cup {MovementFor(r)}]
  /\ NextPosting(r)
  /\ UNCHANGED <<body, active, tables, delta, locks>>

(***************************************************************************)
(* COMMIT: everything the transaction wrote becomes visible at once and    *)
(* the client gets its 201.                                                *)
(***************************************************************************)
Commit(r) ==
  /\ pc[r] = "commit"
  /\ stockBalance' = [c \in Cell |-> stockBalance[c] + delta[r][c]]
  /\ stockMovement' = stockMovement \cup inserted[r]
  /\ GoTo(r, "done")
  /\ ForgetWork(r)
  /\ ReleaseLocks(r)
  /\ UNCHANGED <<body, at, active>>

--------------------------------------------------------------------------------
(***************************************************************************)
(* What the code does not decide: a transaction may die at any statement   *)
(* (Prisma's timeout of an interactive transaction, a lost connection, the *)
(* process stopping), and PostgreSQL aborts one member of a circular wait. *)
(***************************************************************************)
Timeout(r) ==
  /\ InTransaction(r)
  /\ Rollback(r)

Blocks(q, r) ==
  /\ q # r
  /\ \/ pc[r] = "number" /\ orgLock = q
     \/ pc[r] = "items" /\ ItemProduct(r) # NoProduct /\ forUpdate[ItemProduct(r)] = q
     \/ pc[r] = "lock" /\ q \in keyShare[Current(r).product] \cup {forUpdate[Current(r).product]}

Waits == {w \in Request \X Request : Blocks(w[2], w[1])}

DeadlockVictim(r) ==
  /\ Deadlocked(Waits, r)
  /\ Rollback(r)

(***************************************************************************)
(* PATCH /api/inventory/warehouses/[id] archives a warehouse or brings it  *)
(* back, without touching any lock the services take.                      *)
(***************************************************************************)
SetActive(w) ==
  /\ active' = [active EXCEPT ![w] = ~@]
  /\ UNCHANGED <<body, pc, at, tables, work, locks>>

--------------------------------------------------------------------------------
OpeningMovements ==
  {[id |-> <<Nobody, c>>, product |-> c[1], place |-> c[2], type |-> "ADJUSTMENT",
    quantity |-> Opening[c], reference |-> <<"OPENING", c>>] :
     c \in {d \in Cell : Opening[d] > 0}}

Init ==
  /\ body \in [Request -> Body]
  /\ pc = [r \in Request |-> "idle"]
  /\ at = [r \in Request |-> 1]
  /\ active = [w \in Warehouse |-> TRUE]
  /\ stockBalance = Opening
  /\ stockMovement = OpeningMovements
  /\ delta = [r \in Request |-> [c \in Cell |-> 0]]
  /\ inserted = [r \in Request |-> {}]
  /\ keyShare = [p \in Product |-> {}]
  /\ forUpdate = [p \in Product |-> Nobody]
  /\ orgLock = Nobody

(* What the server and the database do for r once it has been submitted. *)
Advance(r) ==
  \/ ClaimNumber(r)
  \/ InsertItem(r)
  \/ ReadWarehouse(r)
  \/ RefuseWarehouse(r)
  \/ LockProduct(r)
  \/ FindMovement(r)
  \/ RefuseQuantity(r)
  \/ TakeOut(r)
  \/ RefuseShortage(r)
  \/ PutIn(r)
  \/ InsertMovement(r)
  \/ Commit(r)
  \/ DeadlockVictim(r)

Next ==
  \/ \E r \in Request : Submit(r) \/ Advance(r) \/ Timeout(r)
  \/ \E w \in Warehouse : SetActive(w)

Spec == Init /\ [][Next]_vars

(***************************************************************************)
(* The server keeps executing, and PostgreSQL keeps looking for circular   *)
(* waits.  Clients need not submit, and nothing needs to time out.         *)
(***************************************************************************)
FairSpec == Spec /\ \A r \in Request : WF_vars(Advance(r))

--------------------------------------------------------------------------------
Movement ==
  [id : Request \X Nat, product : Product, place : Place,
   type : {"ADJUSTMENT"} \cup Inbound \cup Outbound, quantity : Int,
   reference : ({"ADJUSTMENT"} \X {b.key : b \in Body}) \cup ({"DOCUMENT"} \X Request)]

(***************************************************************************)
(* Every variable has its type.                                            *)
(***************************************************************************)
TypeOK ==
  /\ body \in [Request -> Body]
  /\ pc \in [Request -> {"idle", "done", "failed"} \cup Statements]
  /\ at \in [Request -> Nat \ {0}]
  /\ active \in [Warehouse -> BOOLEAN]
  /\ stockBalance \in [Cell -> Int]
  /\ stockMovement \subseteq OpeningMovements \cup Movement
  /\ delta \in [Request -> [Cell -> Int]]
  /\ inserted \in [Request -> SUBSET Movement]
  /\ keyShare \in [Product -> SUBSET Request]
  /\ forUpdate \in [Product -> Request \cup {Nobody}]
  /\ orgLock \in Request \cup {Nobody}

(***************************************************************************)
(* "should prevent negative stock": no interleaving of sales, receipts and *)
(* adjustments leaves a committed balance below zero.                      *)
(***************************************************************************)
NeverNegative == \A c \in Cell : stockBalance[c] >= 0

(***************************************************************************)
(* What is low in stock: the stock report adds up the movements of a       *)
(* product and calls it low at its threshold or below; the inventory       *)
(* summary looks at each row of StockBalance.                              *)
(***************************************************************************)
StockReport(p) ==
  SumFunction([m \in {n \in stockMovement : n.product = p} |-> m.quantity])

LowInSummary(c, threshold) == stockBalance[c] <= threshold

(***************************************************************************)
(* The two tables agree: a balance is the sum of the movements of its      *)
(* product and place; and a product that is low in the report is low       *)
(* everywhere in the summary, already at the least such threshold, which   *)
(* is the report's own quantity.                                           *)
(***************************************************************************)
LedgerBalanced ==
  /\ \A c \in Cell :
       stockBalance[c] =
         SumFunction([m \in {n \in stockMovement : <<n.product, n.place>> = c} |-> m.quantity])
  /\ \A c \in Cell : LowInSummary(c, StockReport(c[1]))

(***************************************************************************)
(* The idempotency check, made under the product's lock, is still true     *)
(* when the movement is inserted: the unique constraint                    *)
(* (referenceType, referenceId, productId, type) never has to stop an      *)
(* insertion, which would fail a retry that should have been replayed.     *)
(***************************************************************************)
CheckStaysTrue ==
  \A r \in Request : pc[r] = "insert" => ~SlotTaken(r, stockMovement \cup inserted[r])

(***************************************************************************)
(* A document and its postings stand or fall together: answered 201, every *)
(* product's receipts add up to the quantities on the lines of a bill, and *)
(* a tax invoice has issued, of each product, what its first line of that  *)
(* product says (the check takes the others for replays); not (or not yet) *)
(* answered so, none of its postings is in the ledger.                     *)
(***************************************************************************)
Posted(r) == {m \in stockMovement : m.reference = Reference(r)}

QuantityPosted(r, p) ==
  SumFunction([m \in {n \in Posted(r) : n.product = p} |-> m.quantity])

FirstLine(lines, p) ==
  LET naming == {i \in DOMAIN lines : lines[i].product = p}
  IN  IF naming = {} THEN 0 ELSE lines[Min(naming)].quantity

Owed(b, p) ==
  IF b.type = "PURCHASE_RECEIPT" THEN LineTotal(b.lines, p) ELSE -FirstLine(b.lines, p)

PostingsComplete ==
  \A r \in Request : body[r].type # "ADJUSTMENT" =>
    \A p \in Product : QuantityPosted(r, p) = IF pc[r] = "done" THEN Owed(body[r], p) ELSE 0

(***************************************************************************)
(* "Same key = same adjustment, never double-applied": however often and   *)
(* however concurrently an adjustment is sent with one key, the ledger     *)
(* holds its movement once as soon as one of the requests was answered     *)
(* 201, and a failed attempt leaves nothing that blocks a later one.       *)
(***************************************************************************)
AdjustsTheSame(q, r) ==
  /\ body[q].type = "ADJUSTMENT"
  /\ body[q].key = body[r].key
  /\ PostingsOf(q)[1].product = PostingsOf(r)[1].product

AdjustmentOnce ==
  \A r \in Request : body[r].type = "ADJUSTMENT" =>
    Cardinality({m \in Posted(r) : m.product = PostingsOf(r)[1].product}) =
      IF \E q \in Request : AdjustsTheSame(q, r) /\ pc[q] = "done" THEN 1 ELSE 0

(***************************************************************************)
(* "Issue stock for every line that references a product": an invoice that *)
(* was answered 201 has taken out what its lines say.                      *)
(***************************************************************************)
EveryLineIssued ==
  \A r \in Request : body[r].type = "SALE_ISSUE" /\ pc[r] = "done" =>
    \A p \in Product : QuantityPosted(r, p) = -LineTotal(body[r].lines, p)

(***************************************************************************)
(* Concurrent receipts, none of which times out, are all recorded.         *)
(***************************************************************************)
NoReceiptFails ==
  \A r \in Request : body[r].type = "PURCHASE_RECEIPT" => pc[r] # "failed"

(***************************************************************************)
(* The abstract ledger over the same two tables.                           *)
(***************************************************************************)
Abstract == INSTANCE Ledger

(***************************************************************************)
(* The inductive invariant, by parts.  A transaction counts its postings   *)
(* within bounds; outside a transaction nothing is pending; what is        *)
(* pending on a product is pending under that product's lock; the pending  *)
(* movements explain the pending change of every balance, keep their       *)
(* reference, do not collide with a committed movement or with each other; *)
(* and no transaction could commit a balance below zero.                   *)
(***************************************************************************)
AtPosting == {"warehouse", "lock", "check", "balance", "insert"}

PositionInBounds ==
  \A r \in Request :
    /\ pc[r] \in {"idle", "number"} => at[r] = 1
    /\ pc[r] = "items" => at[r] \in 1..Len(body[r].lines)
    /\ pc[r] \in AtPosting => at[r] \in 1..Len(PostingsOf(r))

NothingPendingOutside ==
  \A r \in Request : ~InTransaction(r) => inserted[r] = {}

PendingUnderLock ==
  \A r \in Request :
    /\ pc[r] \in {"check", "balance", "insert"} => forUpdate[Current(r).product] = r
    /\ \A m \in inserted[r] : forUpdate[m.product] = r

PendingKeepsReference ==
  \A r \in Request : \A m \in inserted[r] :
    m.reference = Reference(r) /\ m.type = body[r].type

Pending(r) == inserted[r] \cup (IF pc[r] = "insert" THEN {MovementFor(r)} ELSE {})

DeltaExplained ==
  \A r \in Request : \A c \in Cell : Abstract!Explains(Pending(r), c, delta[r][c])

SlotsApart ==
  /\ \A r \in Request :
       pc[r] \in {"balance", "insert"} => ~SlotTaken(r, stockMovement \cup inserted[r])
  /\ \A r \in Request : \A m \in inserted[r] :
       /\ \A n \in stockMovement : ~Abstract!SameSlot(m, n)
       /\ \A n \in inserted[r] : Abstract!SameSlot(m, n) => m = n
  /\ \A m, n \in stockMovement : Abstract!SameSlot(m, n) => m = n

CommitsCovered ==
  \A r \in Request : \A c \in Cell : stockBalance[c] + delta[r][c] >= 0

IInv ==
  /\ TypeOK
  /\ PositionInBounds
  /\ NothingPendingOutside
  /\ PendingUnderLock
  /\ PendingKeepsReference
  /\ DeltaExplained
  /\ SlotsApart
  /\ NeverNegative
  /\ CommitsCovered

(***************************************************************************)
(* The transactions implement the ledger of module Ledger, in which a      *)
(* posting is one atomic step.                                             *)
(***************************************************************************)
ImplementsLedger == Abstract!Spec

(***************************************************************************)
(* Every submitted request is answered, whatever it has to wait for.       *)
(***************************************************************************)
EveryRequestAnswered ==
  \A r \in Request : InTransaction(r) ~> pc[r] \in {"done", "failed"}
================================================================================
