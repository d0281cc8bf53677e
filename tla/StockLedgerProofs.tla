--------------------------- MODULE StockLedgerProofs ---------------------------
(***************************************************************************)
(* Proofs about StockLedger for any number of requests, products, places   *)
(* and request bodies.                                                     *)
(***************************************************************************)
EXTENDS StockLedger, Sums, SequenceTheorems, FiniteSetTheorems, TLAPS

(***************************************************************************)
(* The posting a request has reached is well typed, and so are the cell,   *)
(* the signed quantity and the movement computed from it.                  *)
(***************************************************************************)
LEMMA PostingTyped ==
  ASSUME TypeOK, NEW r \in Request, at[r] \in 1..Len(PostingsOf(r))
  PROVE  /\ Current(r) \in Posting
         /\ CellAt(r) \in Cell
         /\ Change(r) \in Int
         /\ MovementFor(r) \in Movement
<1>1. body[r] \in Body
  BY DEF TypeOK
<1>2. PostingsOf(r) \in Seq(Posting)
  BY <1>1, BodyAssumption DEF PostingsOf, PostingTable
<1>3. Current(r) \in Posting
  BY <1>2 DEF Current
<1>4. CellAt(r) \in Cell
  BY <1>1, <1>3, BodyAssumption DEF CellAt, Cell, Posting
<1>5. Change(r) \in Int
  BY <1>3 DEF Change, ActualQuantity, Posting
<1>6. Reference(r) \in ({"ADJUSTMENT"} \X {b.key : b \in Body}) \cup ({"DOCUMENT"} \X Request)
  BY <1>1 DEF Reference
<1>7. <<r, at[r]>> \in Request \X Nat
  BY DEF TypeOK
<1>8. MovementFor(r) \in Movement
  BY <1>1, <1>3, <1>5, <1>6, <1>7, BodyAssumption
  DEF MovementFor, Movement, Posting, Inbound, Outbound
<1> QED
  BY <1>3, <1>4, <1>5, <1>8

(***************************************************************************)
(* Ending a transaction: what is released and forgotten keeps its type.    *)
(***************************************************************************)
LEMMA EndTyped ==
  ASSUME TypeOK, NEW r \in Request, ReleaseLocks(r), ForgetWork(r)
  PROVE  /\ delta' \in [Request -> [Cell -> Int]]
         /\ inserted' \in [Request -> SUBSET Movement]
         /\ keyShare' \in [Product -> SUBSET Request]
         /\ forUpdate' \in [Product -> Request \cup {Nobody}]
         /\ orgLock' \in Request \cup {Nobody}
<1>1. [c \in Cell |-> 0] \in [Cell -> Int]
  OBVIOUS
<1>2. delta' \in [Request -> [Cell -> Int]] /\ inserted' \in [Request -> SUBSET Movement]
  BY <1>1 DEF TypeOK, ForgetWork
<1>3. keyShare' \in [Product -> SUBSET Request]
  BY DEF TypeOK, ReleaseLocks
<1>4. forUpdate' \in [Product -> Request \cup {Nobody}]
  BY DEF TypeOK, ReleaseLocks
<1>5. orgLock' \in Request \cup {Nobody}
  BY DEF TypeOK, ReleaseLocks
<1> QED
  BY <1>2, <1>3, <1>4, <1>5

(***************************************************************************)
(* A rollback, whatever caused it, preserves the types.                    *)
(***************************************************************************)
LEMMA RollbackTyped ==
  ASSUME TypeOK, NEW r \in Request, Rollback(r)
  PROVE  TypeOK'
<1>1. pc' \in [Request -> {"idle", "done", "failed"} \cup Statements]
  BY DEF TypeOK, Rollback, GoTo
<1>2. ReleaseLocks(r) /\ ForgetWork(r)
  BY DEF Rollback
<1> QED
  BY <1>1, <1>2, EndTyped DEF TypeOK, Rollback, tables

(***************************************************************************)
(* The disjuncts of Advance that end in a rollback.                        *)
(***************************************************************************)
Refuse(r) ==
  \/ RefuseWarehouse(r)
  \/ RefuseQuantity(r)
  \/ RefuseShortage(r)
  \/ DeadlockVictim(r)
  \/ Timeout(r)

(***************************************************************************)
(* Every refusal rolls back.                                               *)
(***************************************************************************)
LEMMA RefuseRollsBack ==
  ASSUME NEW r \in Request, Refuse(r)
  PROVE  Rollback(r)
BY DEF Refuse, RefuseWarehouse, RefuseQuantity, RefuseShortage, DeadlockVictim, Timeout

(***************************************************************************)
(* Moving on within a transaction leaves pc and at well typed.             *)
(***************************************************************************)
LEMMA MoveTyped ==
  ASSUME TypeOK, NEW r \in Request, StartPostings(r) \/ NextPosting(r)
  PROVE  /\ pc' \in [Request -> {"idle", "done", "failed"} \cup Statements]
         /\ at' \in [Request -> Nat \ {0}]
<1>1. at' \in [Request -> Nat \ {0}]
  <2>1. at \in [Request -> Nat \ {0}] /\ at[r] + 1 \in Nat \ {0}
    BY DEF TypeOK
  <2> QED
    BY <2>1 DEF StartPostings, NextPosting
<1>2. \E s \in {"warehouse", "commit"} : GoTo(r, s)
  BY DEF StartPostings, NextPosting
<1>3. pc' \in [Request -> {"idle", "done", "failed"} \cup Statements]
  BY <1>2 DEF TypeOK, GoTo, Statements
<1> QED
  BY <1>1, <1>3

(***************************************************************************)
(* The product of the item a transaction inserts next.                     *)
(***************************************************************************)
LEMMA ItemTyped ==
  ASSUME TypeOK, NEW r \in Request, at[r] \in 1..Len(body[r].lines)
  PROVE  ItemProduct(r) \in Product \cup {NoProduct}
<1>1. body[r] \in Body
  BY DEF TypeOK
<1>2. body[r].lines \in Seq([product : Product \cup {NoProduct}, quantity : Int])
  BY <1>1, BodyAssumption
<1>3. body[r].lines[at[r]] \in [product : Product \cup {NoProduct}, quantity : Int]
  BY <1>2, ElementOfSeq
<1> QED
  BY <1>3 DEF ItemProduct

(***************************************************************************)
(* Every step keeps every variable in its type.                            *)
(***************************************************************************)
LEMMA TypeInductive ==
  ASSUME TypeOK, PositionInBounds, [Next]_vars
  PROVE  TypeOK'
<1> USE DEF tables, work, locks
<1>1. CASE UNCHANGED vars
  BY <1>1 DEF vars, TypeOK
<1>2. CASE \E w \in Warehouse : SetActive(w)
  BY <1>2 DEF TypeOK, SetActive
<1>3. ASSUME NEW r \in Request, Submit(r)
      PROVE  TypeOK'
  BY <1>3 DEF TypeOK, Submit, GoTo, Statements
<1>4. ASSUME NEW r \in Request, ClaimNumber(r)
      PROVE  TypeOK'
  BY <1>4 DEF TypeOK, ClaimNumber, GoTo, Statements
<1>5. ASSUME NEW r \in Request, InsertItem(r)
      PROVE  TypeOK'
  <2>1. pc' \in [Request -> {"idle", "done", "failed"} \cup Statements]
        /\ at' \in [Request -> Nat \ {0}]
    <3>1. CASE at[r] < Len(body[r].lines)
      <4>1. at \in [Request -> Nat \ {0}] /\ at[r] + 1 \in Nat \ {0}
        BY DEF TypeOK
      <4>2. at' = [at EXCEPT ![r] = @ + 1] /\ pc' = pc
        BY <1>5, <3>1 DEF InsertItem
      <4>3. [at EXCEPT ![r] = at[r] + 1] \in [Request -> Nat \ {0}]
        BY <4>1
      <4> QED
        BY <4>2, <4>3 DEF TypeOK
    <3>2. CASE ~(at[r] < Len(body[r].lines))
      BY <1>5, <3>2, MoveTyped DEF InsertItem
    <3> QED
      BY <3>1, <3>2
  <2>2. keyShare' \in [Product -> SUBSET Request]
    <3>1. ItemProduct(r) \in Product \cup {NoProduct}
      BY <1>5, ItemTyped DEF InsertItem, PositionInBounds
    <3>2. keyShare \in [Product -> SUBSET Request]
      BY DEF TypeOK
    <3>3. CASE ItemProduct(r) = NoProduct
      BY <1>5, <3>2, <3>3 DEF InsertItem
    <3>4. CASE ItemProduct(r) # NoProduct
      <4>1. keyShare' = [keyShare EXCEPT ![ItemProduct(r)] = @ \cup {r}]
        BY <1>5, <3>4 DEF InsertItem
      <4>2. keyShare[ItemProduct(r)] \cup {r} \in SUBSET Request
        BY <3>1, <3>2, <3>4
      <4> QED
        BY <3>2, <4>1, <4>2
    <3> QED
      BY <3>3, <3>4
  <2> QED
    BY <1>5, <2>1, <2>2 DEF InsertItem, TypeOK
<1>6. ASSUME NEW r \in Request, ReadWarehouse(r)
      PROVE  TypeOK'
  BY <1>6 DEF TypeOK, ReadWarehouse, GoTo, Statements
<1>7. ASSUME NEW r \in Request, LockProduct(r)
      PROVE  TypeOK'
  BY <1>7 DEF TypeOK, LockProduct, GoTo, Statements
<1>8. ASSUME NEW r \in Request, FindMovement(r)
      PROVE  TypeOK'
  <2>1. pc' \in [Request -> {"idle", "done", "failed"} \cup Statements]
        /\ at' \in [Request -> Nat \ {0}]
    BY <1>8, MoveTyped DEF FindMovement, TypeOK, GoTo, Statements
  <2> QED
    BY <1>8, <2>1 DEF FindMovement, TypeOK
<1>9. ASSUME NEW r \in Request, TakeOut(r) \/ PutIn(r)
      PROVE  TypeOK'
  <2>1. pc[r] = "balance" /\ ApplyChange(r)
    BY <1>9 DEF TakeOut, PutIn, AtBalance
  <2>2. CellAt(r) \in Cell /\ Change(r) \in Int
    BY <2>1, PostingTyped DEF PositionInBounds, AtPosting
  <2>3. delta' \in [Request -> [Cell -> Int]]
    BY <2>1, <2>2 DEF ApplyChange, TypeOK
  <2> QED
    BY <2>1, <2>3 DEF ApplyChange, TypeOK, GoTo, Statements
<1>10. ASSUME NEW r \in Request, InsertMovement(r)
       PROVE  TypeOK'
  <2>1. MovementFor(r) \in Movement
    BY <1>10, PostingTyped DEF InsertMovement, PositionInBounds, AtPosting
  <2>2. inserted' \in [Request -> SUBSET Movement]
    BY <1>10, <2>1 DEF InsertMovement, TypeOK
  <2>3. pc' \in [Request -> {"idle", "done", "failed"} \cup Statements]
        /\ at' \in [Request -> Nat \ {0}]
    BY <1>10, MoveTyped DEF InsertMovement
  <2> QED
    BY <1>10, <2>2, <2>3 DEF InsertMovement, TypeOK
<1>11. ASSUME NEW r \in Request, Commit(r)
       PROVE  TypeOK'
  <2>1. pc' \in [Request -> {"idle", "done", "failed"} \cup Statements]
    BY <1>11 DEF Commit, TypeOK, GoTo
  <2>2. stockBalance' \in [Cell -> Int]
    BY <1>11 DEF Commit, TypeOK
  <2>3. stockMovement' \subseteq OpeningMovements' \cup Movement
    BY <1>11 DEF Commit, TypeOK, OpeningMovements
  <2>4. ReleaseLocks(r) /\ ForgetWork(r)
    BY <1>11 DEF Commit
  <2> QED
    BY <1>11, <2>1, <2>2, <2>3, <2>4, EndTyped DEF Commit, TypeOK
<1>12. ASSUME NEW r \in Request, Refuse(r)
       PROVE  TypeOK'
  BY <1>12, RefuseRollsBack, RollbackTyped
<1> QED
  BY <1>1, <1>2, <1>3, <1>4, <1>5, <1>6, <1>7, <1>8, <1>9, <1>10, <1>11, <1>12
     DEF Next, Advance, Refuse

--------------------------------------------------------------------------------
(***************************************************************************)
(* The conjuncts of IInv that speak of pending work, without those about   *)
(* types and positions.                                                    *)
(***************************************************************************)
WorkInv ==
  /\ NothingPendingOutside
  /\ PendingUnderLock
  /\ PendingKeepsReference
  /\ DeltaExplained
  /\ SlotsApart
  /\ NeverNegative
  /\ CommitsCovered

(***************************************************************************)
(* A step of r that writes nothing and does not end its transaction.       *)
(***************************************************************************)
Walk(r) ==
  /\ pc[r] # "insert"
  /\ \E s \in {"number", "items", "warehouse", "lock", "commit"} :
       pc' = [pc EXCEPT ![r] = s]
  /\ \A q \in Request \ {r} : at'[q] = at[q]
  /\ UNCHANGED <<body, stockBalance, stockMovement, delta, inserted, forUpdate>>

(***************************************************************************)
(* A step of r disturbs neither the place another request has reached nor  *)
(* what it says about its posting.                                         *)
(***************************************************************************)
LEMMA OthersStay ==
  ASSUME TypeOK, NEW r \in Request, NEW s, NEW q \in Request \ {r},
         pc' = [pc EXCEPT ![r] = s], at'[q] = at[q], body' = body
  PROVE  /\ pc'[q] = pc[q]
         /\ Current(q)' = Current(q)
         /\ Reference(q)' = Reference(q)
         /\ MovementFor(q)' = MovementFor(q)
<1>1. pc'[q] = pc[q]
  BY DEF TypeOK
<1>2. Current(q)' = Current(q)
  BY DEF Current, PostingsOf
<1>3. Reference(q)' = Reference(q)
  BY DEF Reference
<1> QED
  BY <1>1, <1>2, <1>3 DEF MovementFor, Change

(***************************************************************************)
(* The statements that only look, or move on, keep the invariant.          *)
(***************************************************************************)
LEMMA WalkKeeps ==
  ASSUME TypeOK, WorkInv, NEW r \in Request, Walk(r)
  PROVE  WorkInv'
<1>0. PICK s \in {"number", "items", "warehouse", "lock", "commit"} :
        pc' = [pc EXCEPT ![r] = s]
  BY DEF Walk
<1>1. /\ pc'[r] = s
      /\ \A q \in Request : Reference(q)' = Reference(q)
  BY <1>0 DEF Walk, TypeOK, Reference
<1>2. ASSUME NEW q \in Request \ {r}
      PROVE  pc'[q] = pc[q] /\ Current(q)' = Current(q) /\ MovementFor(q)' = MovementFor(q)
  <2>1. at'[q] = at[q] /\ body' = body
    BY DEF Walk
  <2> QED
    BY <1>0, <2>1, OthersStay
<1>3. NothingPendingOutside'
  BY <1>1, <1>2 DEF WorkInv, NothingPendingOutside, InTransaction, Statements, Walk
<1>4. PendingUnderLock'
  BY <1>1, <1>2 DEF WorkInv, PendingUnderLock, Walk
<1>5. PendingKeepsReference'
  BY <1>1 DEF WorkInv, PendingKeepsReference, Walk
<1>6. \A q \in Request : Pending(q)' = Pending(q)
  BY <1>1, <1>2 DEF Pending, Walk
<1>7. DeltaExplained'
  BY <1>6 DEF WorkInv, DeltaExplained, Walk
<1>8. SlotsApart'
  BY <1>1, <1>2 DEF WorkInv, SlotsApart, SlotTaken, Walk
<1>9. NeverNegative' /\ CommitsCovered'
  BY DEF WorkInv, NeverNegative, CommitsCovered, Walk
<1> QED
  BY <1>3, <1>4, <1>5, <1>7, <1>8, <1>9 DEF WorkInv

(***************************************************************************)
(* The idempotency check, when it finds nothing, establishes that the slot *)
(* is free.                                                                *)
(***************************************************************************)
LEMMA FindKeeps ==
  ASSUME TypeOK, WorkInv, NEW r \in Request, FindMovement(r)
  PROVE  WorkInv'
<1> USE DEF tables, work, locks
<1>1. CASE SlotTaken(r, stockMovement \cup inserted[r])
  <2>1. Walk(r)
    BY <1>1 DEF FindMovement, NextPosting, GoTo, Walk, TypeOK
  <2> QED
    BY <2>1, WalkKeeps
<1>2. CASE ~SlotTaken(r, stockMovement \cup inserted[r])
  <2>1. /\ pc[r] = "check" /\ pc' = [pc EXCEPT ![r] = "balance"]
        /\ UNCHANGED <<body, at, stockBalance, stockMovement, delta, inserted, forUpdate>>
    BY <1>2 DEF FindMovement, GoTo
  <2>2. /\ pc'[r] = "balance"
        /\ \A q \in Request \ {r} : pc'[q] = pc[q]
    BY <2>1 DEF TypeOK
  <2>3. \A q \in Request : /\ Reference(q)' = Reference(q)
                           /\ Current(q)' = Current(q)
                           /\ MovementFor(q)' = MovementFor(q)
    BY <2>1 DEF Reference, Current, PostingsOf, MovementFor, Change
  <2>4. NothingPendingOutside'
    BY <2>1, <2>2 DEF WorkInv, NothingPendingOutside, InTransaction, Statements
  <2>5. PendingUnderLock'
    BY <2>1, <2>2, <2>3 DEF WorkInv, PendingUnderLock
  <2>6. PendingKeepsReference'
    BY <2>1, <2>3 DEF WorkInv, PendingKeepsReference
  <2>7. \A q \in Request : Pending(q)' = Pending(q)
    BY <2>1, <2>2, <2>3 DEF Pending
  <2>8. DeltaExplained'
    BY <2>1, <2>7 DEF WorkInv, DeltaExplained
  <2>9. SlotsApart'
    BY <1>2, <2>1, <2>2, <2>3 DEF WorkInv, SlotsApart, SlotTaken
  <2>10. NeverNegative' /\ CommitsCovered'
    BY <2>1 DEF WorkInv, NeverNegative, CommitsCovered
  <2> QED
    BY <2>4, <2>5, <2>6, <2>8, <2>9, <2>10 DEF WorkInv
<1> QED
  BY <1>1, <1>2

(***************************************************************************)
(* Locking a product takes no other transaction's lock away.               *)
(***************************************************************************)
LEMMA LockKeeps ==
  ASSUME TypeOK, WorkInv, PositionInBounds, NEW r \in Request, LockProduct(r)
  PROVE  WorkInv'
<1> USE DEF tables, work, locks
<1>1. /\ pc[r] = "lock" /\ pc' = [pc EXCEPT ![r] = "check"]
      /\ MayHold(forUpdate[Current(r).product], r)
      /\ forUpdate' = [forUpdate EXCEPT ![Current(r).product] = r]
      /\ UNCHANGED <<body, at, stockBalance, stockMovement, delta, inserted>>
  BY DEF LockProduct, GoTo
<1>2. /\ pc'[r] = "check"
      /\ \A q \in Request \ {r} : pc'[q] = pc[q]
  BY <1>1 DEF TypeOK
<1>3. \A q \in Request : /\ Reference(q)' = Reference(q)
                         /\ Current(q)' = Current(q)
                         /\ MovementFor(q)' = MovementFor(q)
  BY <1>1 DEF Reference, Current, PostingsOf, MovementFor, Change
<1>4. NothingPendingOutside'
  BY <1>1, <1>2 DEF WorkInv, NothingPendingOutside, InTransaction, Statements
<1>5. Current(r).product \in Product
  BY <1>1, PostingTyped DEF PositionInBounds, AtPosting, Posting
<1>6. ASSUME NEW q \in Request \ {r}, pc[q] \in {"check", "balance", "insert"}
      PROVE  forUpdate'[Current(q).product] = q
  BY <1>1, <1>6, RequestAssumption DEF TypeOK, MayHold, WorkInv, PendingUnderLock
<1>7. ASSUME NEW q \in Request, NEW m \in inserted[q]
      PROVE  forUpdate'[m.product] = q
  BY <1>1, RequestAssumption DEF TypeOK, MayHold, WorkInv, PendingUnderLock
<1>8. PendingUnderLock'
  <2>1. forUpdate'[Current(r).product] = r
    BY <1>1, <1>5 DEF TypeOK
  <2>2. ASSUME NEW q \in Request, pc'[q] \in {"check", "balance", "insert"}
        PROVE  forUpdate'[Current(q)'.product] = q
    BY <1>2, <1>3, <1>6, <2>1, <2>2
  <2>3. ASSUME NEW q \in Request, NEW m \in inserted'[q]
        PROVE  forUpdate'[m.product] = q
    BY <1>1, <1>7
  <2> QED
    BY <2>2, <2>3 DEF PendingUnderLock
<1>9. PendingKeepsReference'
  BY <1>1, <1>3 DEF WorkInv, PendingKeepsReference
<1>10. \A q \in Request : Pending(q)' = Pending(q)
  BY <1>1, <1>2, <1>3 DEF Pending
<1>11. DeltaExplained'
  BY <1>1, <1>10 DEF WorkInv, DeltaExplained
<1>12. SlotsApart'
  BY <1>1, <1>2, <1>3 DEF WorkInv, SlotsApart, SlotTaken
<1>13. NeverNegative' /\ CommitsCovered'
  BY <1>1 DEF WorkInv, NeverNegative, CommitsCovered
<1> QED
  BY <1>4, <1>8, <1>9, <1>11, <1>12, <1>13 DEF WorkInv

(***************************************************************************)
(* A posting that found its slot free has not touched its balance yet.     *)
(***************************************************************************)
LEMMA CellUntouched ==
  ASSUME TypeOK, WorkInv, PositionInBounds, NEW r \in Request, pc[r] = "balance"
  PROVE  /\ \A m \in inserted[r] : Abstract!CellOf(m) # CellAt(r)
         /\ delta[r][CellAt(r)] = 0
<1>1. CellAt(r) \in Cell
  BY PostingTyped DEF PositionInBounds, AtPosting
<1>2. ~SlotTaken(r, stockMovement \cup inserted[r])
  BY DEF WorkInv, SlotsApart
<1>3. ASSUME NEW m \in inserted[r], Abstract!CellOf(m) = CellAt(r)
      PROVE  FALSE
  <2>1. m.product = Current(r).product
    BY <1>3 DEF Abstract!CellOf, CellAt
  <2>2. m.reference = Reference(r) /\ m.type = body[r].type
    BY DEF WorkInv, PendingKeepsReference
  <2> QED
    BY <1>2, <2>1, <2>2 DEF SlotTaken
<1>4. Abstract!Explains(inserted[r], CellAt(r), delta[r][CellAt(r)])
  BY <1>1 DEF WorkInv, DeltaExplained, Pending
<1> QED
  BY <1>3, <1>4 DEF Abstract!Explains

(***************************************************************************)
(* Changing a balance keeps the work explained and covered.                *)
(***************************************************************************)
LEMMA ApplyKeeps ==
  ASSUME TypeOK, WorkInv, PositionInBounds, NEW r \in Request, TakeOut(r) \/ PutIn(r)
  PROVE  WorkInv'
<1> USE DEF tables, work, locks
<1>1. /\ pc[r] = "balance" /\ pc' = [pc EXCEPT ![r] = "insert"]
      /\ delta' = [delta EXCEPT ![r][CellAt(r)] = @ + Change(r)]
      /\ UNCHANGED <<body, at, stockBalance, stockMovement, inserted, forUpdate>>
  BY DEF TakeOut, PutIn, AtBalance, ApplyChange, GoTo
<1>2. /\ pc'[r] = "insert"
      /\ \A q \in Request \ {r} : pc'[q] = pc[q]
  BY <1>1 DEF TypeOK
<1>3. \A q \in Request : /\ Reference(q)' = Reference(q)
                         /\ Current(q)' = Current(q)
                         /\ MovementFor(q)' = MovementFor(q)
  BY <1>1 DEF Reference, Current, PostingsOf, MovementFor, Change
<1>4. CellAt(r) \in Cell /\ Change(r) \in Int /\ MovementFor(r) \in Movement
  BY <1>1, PostingTyped DEF PositionInBounds, AtPosting
<1>5. /\ \A m \in inserted[r] : Abstract!CellOf(m) # CellAt(r)
      /\ delta[r][CellAt(r)] = 0
  BY <1>1, CellUntouched
<1>6. /\ delta'[r][CellAt(r)] = Change(r)
      /\ \A c \in Cell \ {CellAt(r)} : delta'[r][c] = delta[r][c]
      /\ \A q \in Request \ {r} : delta'[q] = delta[q]
  BY <1>1, <1>4, <1>5 DEF TypeOK
<1>7. NothingPendingOutside'
  BY <1>1, <1>2 DEF WorkInv, NothingPendingOutside, InTransaction, Statements
<1>8. PendingUnderLock'
  BY <1>1, <1>2, <1>3 DEF WorkInv, PendingUnderLock
<1>9. PendingKeepsReference'
  BY <1>1, <1>3 DEF WorkInv, PendingKeepsReference
<1>10. /\ Pending(r) = inserted[r]
       /\ Pending(r)' = inserted[r] \cup {MovementFor(r)}
       /\ \A q \in Request \ {r} : Pending(q)' = Pending(q)
  BY <1>1, <1>2, <1>3 DEF Pending
<1>11. Abstract!CellOf(MovementFor(r)) = CellAt(r) /\ MovementFor(r).quantity = Change(r)
  BY DEF Abstract!CellOf, MovementFor, CellAt
<1>12. DeltaExplained'
  <2>1. ASSUME NEW c \in Cell
        PROVE  Abstract!Explains(Pending(r)', c, delta'[r][c])
    <3>1. CASE c = CellAt(r)
      BY <1>6, <1>10, <1>11, <3>1 DEF Abstract!Explains
    <3>2. CASE c # CellAt(r)
      <4>1. Abstract!Explains(inserted[r], c, delta[r][c])
        BY <1>10 DEF WorkInv, DeltaExplained
      <4> QED
        BY <1>6, <1>10, <1>11, <3>2, <4>1 DEF Abstract!Explains
    <3> QED
      BY <3>1, <3>2
  <2>2. ASSUME NEW q \in Request \ {r}, NEW c \in Cell
        PROVE  Abstract!Explains(Pending(q)', c, delta'[q][c])
    BY <1>6, <1>10 DEF WorkInv, DeltaExplained
  <2> QED
    BY <2>1, <2>2 DEF DeltaExplained
<1>13. SlotsApart'
  BY <1>1, <1>2, <1>3 DEF WorkInv, SlotsApart, SlotTaken
<1>14. NeverNegative'
  BY <1>1 DEF WorkInv, NeverNegative
<1>15. CommitsCovered'
  <2>1. stockBalance[CellAt(r)] \in Int /\ stockBalance[CellAt(r)] >= 0
    BY <1>4 DEF TypeOK, WorkInv, NeverNegative
  <2>2. stockBalance[CellAt(r)] + Change(r) >= 0
    <3>1. CASE TakeOut(r)
      BY <1>4, <1>5, <2>1, <3>1 DEF TakeOut, Visible
    <3>2. CASE PutIn(r)
      BY <1>4, <2>1, <3>2 DEF PutIn
    <3> QED
      BY <3>1, <3>2
  <2>3. ASSUME NEW q \in Request, NEW c \in Cell
        PROVE  stockBalance[c] + delta'[q][c] >= 0
    BY <1>6, <2>2, <2>3 DEF WorkInv, CommitsCovered
  <2> QED
    BY <1>1, <2>3 DEF CommitsCovered
<1> QED
  BY <1>7, <1>8, <1>9, <1>12, <1>13, <1>14, <1>15 DEF WorkInv

(***************************************************************************)
(* Inserting the movement turns the change being made into an explained    *)
(* one.                                                                    *)
(***************************************************************************)
LEMMA InsertKeeps ==
  ASSUME TypeOK, WorkInv, NEW r \in Request, InsertMovement(r)
  PROVE  WorkInv'
<1> USE DEF tables, work, locks
<1>1. PICK s \in {"warehouse", "commit"} :
        /\ pc[r] = "insert" /\ pc' = [pc EXCEPT ![r] = s]
        /\ inserted' = [inserted EXCEPT ![r] = @ \cup {MovementFor(r)}]
        /\ \A q \in Request \ {r} : at'[q] = at[q]
        /\ UNCHANGED <<body, stockBalance, stockMovement, delta, forUpdate>>
  BY DEF InsertMovement, NextPosting, GoTo, TypeOK
<1>2. /\ pc'[r] = s
      /\ inserted'[r] = inserted[r] \cup {MovementFor(r)}
      /\ \A q \in Request \ {r} : inserted'[q] = inserted[q]
  BY <1>1 DEF TypeOK
<1>3. ASSUME NEW q \in Request \ {r}
      PROVE  pc'[q] = pc[q] /\ Current(q)' = Current(q) /\ MovementFor(q)' = MovementFor(q)
  BY <1>1, OthersStay
<1>4. \A q \in Request : Reference(q)' = Reference(q) /\ body'[q] = body[q]
  BY <1>1 DEF Reference
<1>5. /\ MovementFor(r).product = Current(r).product
      /\ MovementFor(r).reference = Reference(r)
      /\ MovementFor(r).type = body[r].type
  BY DEF MovementFor
<1>6. NothingPendingOutside'
  BY <1>2, <1>3 DEF WorkInv, NothingPendingOutside, InTransaction, Statements
<1>7. PendingUnderLock'
  <2>1. ASSUME NEW q \in Request, pc'[q] \in {"check", "balance", "insert"}
        PROVE  forUpdate'[Current(q)'.product] = q
    BY <1>1, <1>2, <1>3, <2>1 DEF WorkInv, PendingUnderLock
  <2>2. ASSUME NEW q \in Request, NEW m \in inserted'[q]
        PROVE  forUpdate'[m.product] = q
    BY <1>1, <1>2, <1>5 DEF WorkInv, PendingUnderLock
  <2> QED
    BY <2>1, <2>2 DEF PendingUnderLock
<1>8. PendingKeepsReference'
  BY <1>2, <1>4, <1>5 DEF WorkInv, PendingKeepsReference
<1>9. \A q \in Request : Pending(q)' = Pending(q)
  BY <1>1, <1>2, <1>3 DEF Pending
<1>10. DeltaExplained'
  BY <1>1, <1>9 DEF WorkInv, DeltaExplained
<1>11. SlotsApart'
  <2>1. ~SlotTaken(r, stockMovement \cup inserted[r])
    BY <1>1 DEF WorkInv, SlotsApart
  <2>2. \A n \in stockMovement \cup inserted[r] :
          /\ ~Abstract!SameSlot(MovementFor(r), n)
          /\ ~Abstract!SameSlot(n, MovementFor(r))
    BY <1>5, <2>1 DEF SlotTaken, Abstract!SameSlot
  <2>3. ASSUME NEW q \in Request, pc'[q] \in {"balance", "insert"}
        PROVE  ~SlotTaken(q, stockMovement \cup inserted[q])'
    <3>1. q \in Request \ {r}
      BY <1>2, <2>3
    <3>2. ~SlotTaken(q, stockMovement \cup inserted[q])
      BY <1>3, <2>3, <3>1 DEF WorkInv, SlotsApart
    <3> QED
      BY <1>1, <1>2, <1>3, <1>4, <3>1, <3>2 DEF SlotTaken
  <2>4. ASSUME NEW q \in Request, NEW m \in inserted'[q]
        PROVE  /\ \A n \in stockMovement : ~Abstract!SameSlot(m, n)
               /\ \A n \in inserted'[q] : Abstract!SameSlot(m, n) => m = n
    BY <1>2, <2>2 DEF WorkInv, SlotsApart
  <2> QED
    BY <1>1, <2>3, <2>4 DEF WorkInv, SlotsApart
<1>12. NeverNegative' /\ CommitsCovered'
  BY <1>1 DEF WorkInv, NeverNegative, CommitsCovered
<1> QED
  BY <1>6, <1>7, <1>8, <1>10, <1>11, <1>12 DEF WorkInv

(***************************************************************************)
(* Ending r's transaction leaves the other transactions' work in place,    *)
(* and r with none.                                                        *)
(***************************************************************************)
LEMMA EndLeavesOthers ==
  ASSUME TypeOK, WorkInv, PositionInBounds, NEW r \in Request, NEW s \in {"done", "failed"},
         GoTo(r, s), ForgetWork(r), ReleaseLocks(r), UNCHANGED <<body, at>>
  PROVE  /\ pc'[r] = s /\ inserted'[r] = {} /\ \A c \in Cell : delta'[r][c] = 0
         /\ \A q \in Request : Reference(q)' = Reference(q)
         /\ \A q \in Request \ {r} :
              /\ pc'[q] = pc[q] /\ inserted'[q] = inserted[q] /\ delta'[q] = delta[q]
              /\ Current(q)' = Current(q) /\ MovementFor(q)' = MovementFor(q)
         /\ NothingPendingOutside' /\ PendingUnderLock'
         /\ PendingKeepsReference' /\ DeltaExplained'
<1>1. /\ pc'[r] = s
      /\ \A q \in Request \ {r} : pc'[q] = pc[q]
  BY DEF GoTo, TypeOK
<1>2. /\ inserted'[r] = {}
      /\ \A c \in Cell : delta'[r][c] = 0
      /\ \A q \in Request \ {r} : inserted'[q] = inserted[q] /\ delta'[q] = delta[q]
  BY DEF ForgetWork, TypeOK
<1>3. \A q \in Request : /\ Reference(q)' = Reference(q)
                         /\ Current(q)' = Current(q)
                         /\ MovementFor(q)' = MovementFor(q)
  BY DEF Reference, Current, PostingsOf, MovementFor, Change
<1>4. NothingPendingOutside'
  BY <1>1, <1>2 DEF WorkInv, NothingPendingOutside, InTransaction
<1>5. ASSUME NEW p, NEW q \in Request \ {r}, forUpdate[p] = q, p \in Product
      PROVE  forUpdate'[p] = q
  BY <1>5 DEF ReleaseLocks
<1>6. PendingUnderLock'
  <2>1. ASSUME NEW q \in Request, pc'[q] \in {"check", "balance", "insert"}
        PROVE  forUpdate'[Current(q)'.product] = q
    <3>1. q \in Request \ {r} /\ pc[q] = pc'[q]
      BY <1>1, <2>1
    <3>2. forUpdate[Current(q).product] = q
      BY <2>1, <3>1 DEF WorkInv, PendingUnderLock
    <3>3. Current(q).product \in Product
      BY <2>1, <3>1, PostingTyped DEF PositionInBounds, AtPosting, Posting
    <3> QED
      BY <1>3, <1>5, <3>1, <3>2, <3>3
  <2>2. ASSUME NEW q \in Request, NEW m \in inserted'[q]
        PROVE  forUpdate'[m.product] = q
    <3>1. q \in Request \ {r} /\ m \in inserted[q]
      BY <1>2
    <3>2. m.product \in Product
      BY <3>1 DEF TypeOK, Movement
    <3> QED
      BY <1>5, <3>1, <3>2 DEF WorkInv, PendingUnderLock
  <2> QED
    BY <2>1, <2>2 DEF PendingUnderLock
<1>7. PendingKeepsReference'
  BY <1>2, <1>3 DEF WorkInv, PendingKeepsReference
<1>8. DeltaExplained'
  <2>1. Pending(r)' = {} /\ \A q \in Request \ {r} : Pending(q)' = Pending(q)
    BY <1>1, <1>2, <1>3 DEF Pending
  <2>2. \A c \in Cell : Abstract!Explains({}, c, 0)
    BY DEF Abstract!Explains
  <2>3. ASSUME NEW q \in Request, NEW c \in Cell
        PROVE  Abstract!Explains(Pending(q)', c, delta'[q][c])
    BY <1>2, <2>1, <2>2 DEF WorkInv, DeltaExplained
  <2> QED
    BY <2>3 DEF DeltaExplained
<1> QED
  BY <1>1, <1>2, <1>3, <1>4, <1>6, <1>7, <1>8

(***************************************************************************)
(* Undoing a transaction.                                                  *)
(***************************************************************************)
LEMMA RollbackKeeps ==
  ASSUME TypeOK, WorkInv, PositionInBounds, NEW r \in Request, Rollback(r)
  PROVE  WorkInv'
<1> USE DEF tables
<1>1. /\ GoTo(r, "failed") /\ ForgetWork(r) /\ ReleaseLocks(r)
      /\ UNCHANGED <<body, at, stockBalance, stockMovement>>
  BY DEF Rollback
<1>2. /\ pc'[r] = "failed" /\ inserted'[r] = {} /\ \A c \in Cell : delta'[r][c] = 0
      /\ \A q \in Request : Reference(q)' = Reference(q)
      /\ \A q \in Request \ {r} :
           /\ pc'[q] = pc[q] /\ inserted'[q] = inserted[q] /\ delta'[q] = delta[q]
           /\ Current(q)' = Current(q) /\ MovementFor(q)' = MovementFor(q)
      /\ NothingPendingOutside' /\ PendingUnderLock'
      /\ PendingKeepsReference' /\ DeltaExplained'
  BY <1>1, EndLeavesOthers
<1>3. SlotsApart'
  <2>1. ASSUME NEW q \in Request, pc'[q] \in {"balance", "insert"}
        PROVE  ~SlotTaken(q, stockMovement \cup inserted[q])'
    <3>1. q \in Request \ {r} /\ ~SlotTaken(q, stockMovement \cup inserted[q])
      BY <1>2, <2>1 DEF WorkInv, SlotsApart
    <3> QED
      BY <1>1, <1>2, <3>1 DEF SlotTaken
  <2>2. ASSUME NEW q \in Request, NEW m \in inserted'[q]
        PROVE  q \in Request \ {r} /\ m \in inserted[q] /\ inserted'[q] = inserted[q]
    BY <1>2
  <2> QED
    BY <1>1, <2>1, <2>2 DEF WorkInv, SlotsApart
<1>4. NeverNegative'
  BY <1>1 DEF WorkInv, NeverNegative
<1>5. CommitsCovered'
  BY <1>1, <1>2 DEF TypeOK, WorkInv, NeverNegative, CommitsCovered
<1> QED
  BY <1>2, <1>3, <1>4, <1>5 DEF WorkInv

(***************************************************************************)
(* Two transactions never have pending movements of one product.           *)
(***************************************************************************)
LEMMA PendingApart ==
  ASSUME WorkInv, NEW q \in Request, NEW r \in Request, q # r,
         NEW m \in Pending(q), NEW n \in Pending(r)
  PROVE  m.product # n.product
<1>1. ASSUME NEW p \in Request, NEW x \in Pending(p)
      PROVE  forUpdate[x.product] = p
  <2>1. CASE x \in inserted[p]
    BY <2>1 DEF WorkInv, PendingUnderLock
  <2>2. CASE pc[p] = "insert" /\ x = MovementFor(p)
    BY <2>2 DEF WorkInv, PendingUnderLock, MovementFor
  <2> QED
    BY <2>1, <2>2 DEF Pending
<1> QED
  BY <1>1

(***************************************************************************)
(* Committing keeps the tables in order and every other transaction able   *)
(* to commit.                                                              *)
(***************************************************************************)
LEMMA CommitKeeps ==
  ASSUME TypeOK, WorkInv, PositionInBounds, NEW r \in Request, Commit(r)
  PROVE  WorkInv'
<1>1. /\ pc[r] = "commit"
      /\ stockBalance' = [c \in Cell |-> stockBalance[c] + delta[r][c]]
      /\ stockMovement' = stockMovement \cup inserted[r]
      /\ GoTo(r, "done") /\ ForgetWork(r) /\ ReleaseLocks(r)
      /\ UNCHANGED <<body, at>>
  BY DEF Commit
<1>2. /\ pc'[r] = "done" /\ inserted'[r] = {} /\ \A c \in Cell : delta'[r][c] = 0
      /\ \A q \in Request : Reference(q)' = Reference(q)
      /\ \A q \in Request \ {r} :
           /\ pc'[q] = pc[q] /\ inserted'[q] = inserted[q] /\ delta'[q] = delta[q]
           /\ Current(q)' = Current(q) /\ MovementFor(q)' = MovementFor(q)
      /\ NothingPendingOutside' /\ PendingUnderLock'
      /\ PendingKeepsReference' /\ DeltaExplained'
  BY <1>1, EndLeavesOthers
<1>3. Pending(r) = inserted[r]
  BY <1>1 DEF Pending
<1>4. SlotsApart'
  <2>1. ASSUME NEW q \in Request, pc'[q] \in {"balance", "insert"}
        PROVE  ~SlotTaken(q, stockMovement \cup inserted[q])'
    <3>1. q \in Request \ {r} /\ pc[q] = pc'[q] /\ ~SlotTaken(q, stockMovement \cup inserted[q])
      BY <1>2, <2>1 DEF WorkInv, SlotsApart
    <3>2. \A n \in inserted[r] : n.product # Current(q).product
      BY <2>1, <3>1 DEF WorkInv, PendingUnderLock
    <3> QED
      BY <1>1, <1>2, <3>1, <3>2 DEF SlotTaken
  <2>2. ASSUME NEW q \in Request, NEW m \in inserted'[q]
        PROVE  /\ \A n \in stockMovement' : ~Abstract!SameSlot(m, n)
               /\ \A n \in inserted'[q] : Abstract!SameSlot(m, n) => m = n
    <3>1. q \in Request \ {r} /\ m \in inserted[q] /\ inserted'[q] = inserted[q]
      BY <1>2
    <3>2. \A n \in inserted[r] : m.product # n.product
      BY <1>3, <3>1, PendingApart DEF Pending
    <3> QED
      BY <1>1, <3>1, <3>2 DEF WorkInv, SlotsApart, Abstract!SameSlot
  <2>3. ASSUME NEW m \in stockMovement', NEW n \in stockMovement', Abstract!SameSlot(m, n)
        PROVE  m = n
    <3>1. Abstract!SameSlot(n, m)
      BY <2>3 DEF Abstract!SameSlot
    <3> QED
      BY <1>1, <2>3, <3>1 DEF WorkInv, SlotsApart
  <2> QED
    BY <2>1, <2>2, <2>3 DEF SlotsApart
<1>5. NeverNegative'
  BY <1>1 DEF WorkInv, NeverNegative, CommitsCovered
<1>6. ASSUME NEW q \in Request, NEW c \in Cell
      PROVE  stockBalance'[c] + delta'[q][c] >= 0
  <2>1. /\ stockBalance[c] \in Int /\ delta[r][c] \in Int /\ delta[q][c] \in Int
        /\ stockBalance'[c] = stockBalance[c] + delta[r][c]
    BY <1>1 DEF TypeOK
  <2>2. /\ stockBalance[c] + delta[r][c] >= 0
        /\ stockBalance[c] + delta[q][c] >= 0
    BY DEF WorkInv, CommitsCovered
  <2>3. CASE q = r
    BY <1>2, <2>1, <2>2, <2>3
  <2>4. CASE q # r /\ (delta[q][c] = 0 \/ delta[r][c] = 0)
    BY <1>2, <2>1, <2>2, <2>4
  <2>5. CASE q # r /\ delta[q][c] # 0 /\ delta[r][c] # 0
    <3>1. PICK m \in Pending(q) : Abstract!CellOf(m) = c
      BY <2>5 DEF WorkInv, DeltaExplained, Abstract!Explains
    <3>2. PICK n \in Pending(r) : Abstract!CellOf(n) = c
      BY <2>5 DEF WorkInv, DeltaExplained, Abstract!Explains
    <3>3. m.product = n.product
      BY <3>1, <3>2 DEF Abstract!CellOf
    <3> QED
      BY <2>5, <3>3, PendingApart
  <2> QED
    BY <2>3, <2>4, <2>5
<1> QED
  BY <1>2, <1>4, <1>5, <1>6 DEF WorkInv, CommitsCovered

(***************************************************************************)
(* Positions stay in bounds.                                               *)
(***************************************************************************)
LEMMA PostingsTyped ==
  ASSUME TypeOK, NEW r \in Request
  PROVE  /\ PostingsOf(r) \in Seq(Posting)
         /\ body[r].lines # <<>>
         /\ body[r].lines \in Seq([product : Product \cup {NoProduct}, quantity : Int])
         /\ body[r].type = "ADJUSTMENT" => Len(PostingsOf(r)) = 1
<1>1. body[r] \in Body
  BY DEF TypeOK
<1> QED
  BY <1>1, BodyAssumption DEF PostingsOf, PostingTable

(***************************************************************************)
(* A sequence that is not empty has a first element.                       *)
(***************************************************************************)
LEMMA NonemptyLen ==
  ASSUME NEW S, NEW s \in Seq(S), s # <<>>
  PROVE  1 \in 1..Len(s)
BY EmptySeq

PositionOf(r) ==
  /\ pc[r] \in {"idle", "number"} => at[r] = 1
  /\ pc[r] = "items" => at[r] \in 1..Len(body[r].lines)
  /\ pc[r] \in AtPosting => at[r] \in 1..Len(PostingsOf(r))

(***************************************************************************)
(* Every step keeps the cursor of a request within its lines or postings.  *)
(***************************************************************************)
LEMMA PositionsInductive ==
  ASSUME TypeOK, PositionInBounds, [Next]_vars
  PROVE  PositionInBounds'
<1> USE DEF tables, work, locks
<1>0. \A r \in Request : PositionOf(r)
  BY DEF PositionInBounds, PositionOf
<1>1. SUFFICES ASSUME NEW r \in Request
               PROVE  PositionOf(r)'
  BY DEF PositionInBounds, PositionOf
<1>2. CASE UNCHANGED <<body, at>> /\ pc'[r] = pc[r]
  BY <1>0, <1>2 DEF PositionOf, PostingsOf
<1>3. CASE UNCHANGED body /\ at'[r] = at[r] /\ pc'[r] = pc[r]
  BY <1>0, <1>3 DEF PositionOf, PostingsOf
<1>4. ASSUME NEW q \in Request, q # r, Submit(q) \/ Advance(q) \/ Timeout(q)
      PROVE  UNCHANGED body /\ at'[r] = at[r] /\ pc'[r] = pc[r]
  BY <1>4 DEF Submit, Advance, Timeout, ClaimNumber, InsertItem, ReadWarehouse,
       RefuseWarehouse, LockProduct, FindMovement, RefuseQuantity, TakeOut, RefuseShortage,
       PutIn, InsertMovement, Commit, DeadlockVictim, ApplyChange, Rollback, GoTo,
       StartPostings, NextPosting, TypeOK
<1>5. CASE Submit(r)
  <2>1. /\ body' = body /\ at' = at /\ at[r] = 1
        /\ pc'[r] = IF body[r].type = "ADJUSTMENT" THEN "warehouse"
                    ELSE IF body[r].type = "SALE_ISSUE" THEN "number" ELSE "items"
    BY <1>0, <1>5 DEF Submit, GoTo, TypeOK, PositionOf
  <2>2. 1 \in 1..Len(body[r].lines)
    BY PostingsTyped, NonemptyLen
  <2>3. body[r].type = "ADJUSTMENT" => 1 \in 1..Len(PostingsOf(r))
    <3>1. body[r].type = "ADJUSTMENT" => Len(PostingsOf(r)) = 1
      BY PostingsTyped
    <3>2. 1 \in 1..1
      OBVIOUS
    <3> QED
      BY <3>1, <3>2
  <2>4. PostingsOf(r)' = PostingsOf(r)
    BY <2>1 DEF PostingsOf
  <2> QED
    BY <2>1, <2>2, <2>3, <2>4 DEF PositionOf, AtPosting
<1>6. CASE ClaimNumber(r)
  <2>1. /\ body' = body /\ at' = at /\ at[r] = 1 /\ pc'[r] = "items"
    BY <1>0, <1>6 DEF ClaimNumber, GoTo, TypeOK, PositionOf
  <2> QED
    BY <2>1, PostingsTyped, NonemptyLen DEF PositionOf, AtPosting
<1>7. CASE InsertItem(r)
  <2>1. CASE at[r] < Len(body[r].lines)
    <3>1. body' = body /\ at'[r] = at[r] + 1 /\ pc'[r] = "items"
      BY <1>7, <2>1 DEF InsertItem, TypeOK
    <3>2. at[r] \in 1..Len(body[r].lines)
      BY <1>0, <1>7 DEF InsertItem, PositionOf
    <3>3. at[r] + 1 \in 1..Len(body[r].lines)
      BY <2>1, <3>2, PostingsTyped
    <3> QED
      BY <3>1, <3>3 DEF PositionOf, AtPosting
  <2>2. CASE ~(at[r] < Len(body[r].lines))
    <3>1. /\ body' = body /\ at'[r] = 1
          /\ pc'[r] = IF PostingsOf(r) = <<>> THEN "commit" ELSE "warehouse"
      BY <1>7, <2>2 DEF InsertItem, StartPostings, GoTo, TypeOK
    <3> QED
      BY <3>1, PostingsTyped, NonemptyLen DEF PositionOf, AtPosting, PostingsOf
  <2> QED
    BY <2>1, <2>2
<1>8. CASE NextPosting(r) /\ UNCHANGED body /\ pc[r] \in AtPosting
  <2>1. /\ at'[r] = at[r] + 1
        /\ pc'[r] = IF at[r] < Len(PostingsOf(r)) THEN "warehouse" ELSE "commit"
    BY <1>8 DEF NextPosting, GoTo, TypeOK
  <2>2. at[r] \in 1..Len(PostingsOf(r))
    BY <1>0, <1>8 DEF PositionOf
  <2>3. at[r] < Len(PostingsOf(r)) => at[r] + 1 \in 1..Len(PostingsOf(r))
    BY <2>2, PostingsTyped
  <2> QED
    BY <1>8, <2>1, <2>3 DEF PositionOf, AtPosting, PostingsOf
<1>9. CASE \E s \in AtPosting \cup {"done", "failed"} :
             GoTo(r, s) /\ UNCHANGED <<body, at>> /\ (s \in AtPosting => pc[r] \in AtPosting)
  BY <1>0, <1>9 DEF GoTo, TypeOK, PositionOf, AtPosting, PostingsOf
<1>10. ASSUME ReadWarehouse(r) \/ LockProduct(r) \/ TakeOut(r) \/ PutIn(r) \/ Commit(r)
       PROVE  PositionOf(r)'
  BY <1>9, <1>10 DEF ReadWarehouse, LockProduct, TakeOut, PutIn, Commit, ApplyChange,
       AtBalance, AtPosting
<1>11. ASSUME Refuse(r)
       PROVE  PositionOf(r)'
  BY <1>9, <1>11, RefuseRollsBack DEF Rollback, AtPosting
<1>12. ASSUME FindMovement(r) \/ InsertMovement(r)
       PROVE  PositionOf(r)'
  BY <1>8, <1>9, <1>12 DEF FindMovement, InsertMovement, AtPosting
<1> QED
  <2>1. CASE UNCHANGED vars \/ \E w \in Warehouse : SetActive(w)
    BY <1>2, <2>1 DEF vars, SetActive
  <2>2. ASSUME NEW q \in Request, Submit(q) \/ Advance(q) \/ Timeout(q)
        PROVE  PositionOf(r)'
    <3>1. CASE q # r
      BY <1>3, <1>4, <2>2, <3>1
    <3>2. CASE q = r
      BY <1>5, <1>6, <1>7, <1>10, <1>11, <1>12, <2>2, <3>2 DEF Advance, Refuse
    <3> QED
      BY <3>1, <3>2
  <2> QED
    BY <2>1, <2>2 DEF Next

--------------------------------------------------------------------------------
(***************************************************************************)
(* Initially nothing is pending, and the opening movements, one per cell,  *)
(* explain the opening balances.                                           *)
(***************************************************************************)
LEMMA OpeningExplains ==
  ASSUME Init
  PROVE  Abstract!Init
<1>1. stockBalance \in [Cell -> Nat] /\ stockMovement = OpeningMovements
  BY OpeningAssumption DEF Init
<1>2. ASSUME NEW c \in Cell
      PROVE  Abstract!Explains(stockMovement, c, stockBalance[c])
  <2>1. c = <<c[1], c[2]>> /\ stockBalance[c] \in Nat /\ stockBalance[c] = Opening[c]
    BY OpeningAssumption DEF Cell, Init
  <2>2. \A m \in OpeningMovements : m.quantity = Opening[Abstract!CellOf(m)]
                                  /\ Opening[Abstract!CellOf(m)] > 0
    BY DEF OpeningMovements, Abstract!CellOf, Cell
  <2>3. CASE Opening[c] > 0
    <3>1. PICK m \in OpeningMovements : Abstract!CellOf(m) = c
      <4>1. DEFINE o == [id |-> <<Nobody, c>>, product |-> c[1], place |-> c[2],
                         type |-> "ADJUSTMENT", quantity |-> Opening[c],
                         reference |-> <<"OPENING", c>>]
      <4>2. o \in OpeningMovements
        BY <2>3 DEF OpeningMovements
      <4>3. <<o.product, o.place>> = c
        BY <2>1
      <4> QED
        BY <4>2, <4>3 DEF Abstract!CellOf
    <3> QED
      BY <1>1, <2>1, <2>2, <3>1 DEF Abstract!Explains
  <2>4. CASE ~(Opening[c] > 0)
    BY <1>1, <2>1, <2>2, <2>4 DEF Abstract!Explains
  <2> QED
    BY <2>3, <2>4
<1>3. ASSUME NEW m \in stockMovement, NEW n \in stockMovement, Abstract!SameSlot(m, n)
      PROVE  m = n
  BY <1>1, <1>3 DEF OpeningMovements, Abstract!SameSlot
<1> QED
  BY <1>1, <1>2, <1>3 DEF Abstract!Init, Abstract!Cell, Cell

(***************************************************************************)
(* The invariant holds of the opening stock.                               *)
(***************************************************************************)
LEMMA InitEstablishesIInv ==
  ASSUME Init
  PROVE  IInv
<1>1. TypeOK
  BY OpeningAssumption DEF Init, TypeOK, Statements
<1>2. PositionInBounds
  BY DEF Init, PositionInBounds, AtPosting
<1>3. NothingPendingOutside /\ PendingUnderLock /\ PendingKeepsReference
  BY DEF Init, NothingPendingOutside, PendingUnderLock, PendingKeepsReference
<1>4. DeltaExplained
  BY DEF Init, DeltaExplained, Pending, Abstract!Explains
<1>5. SlotsApart
  <2>1. \A m, n \in stockMovement : Abstract!SameSlot(m, n) => m = n
    BY OpeningExplains DEF Abstract!Init
  <2> QED
    BY <2>1 DEF Init, SlotsApart
<1>6. NeverNegative /\ CommitsCovered
  BY OpeningAssumption DEF Init, NeverNegative, CommitsCovered
<1> QED
  BY <1>1, <1>2, <1>3, <1>4, <1>5, <1>6 DEF IInv

(***************************************************************************)
(* Every step keeps the pending work in order.                             *)
(***************************************************************************)
LEMMA WorkInductive ==
  ASSUME IInv, [Next]_vars
  PROVE  WorkInv'
<1> USE DEF tables, work, locks
<1>1. TypeOK /\ WorkInv /\ PositionInBounds
  BY DEF IInv, WorkInv
<1>2. CASE UNCHANGED <<body, pc, at, tables, work, locks>>
  <2>1. \A q \in Request : /\ Reference(q)' = Reference(q)
                           /\ Current(q)' = Current(q)
                           /\ Pending(q)' = Pending(q)
    BY <1>2 DEF Reference, Current, PostingsOf, Pending, MovementFor, Change
  <2>2. NothingPendingOutside' /\ PendingUnderLock' /\ PendingKeepsReference'
    BY <1>1, <1>2, <2>1 DEF WorkInv, NothingPendingOutside, InTransaction, PendingUnderLock,
         PendingKeepsReference
  <2>3. DeltaExplained'
    BY <1>1, <1>2, <2>1 DEF WorkInv, DeltaExplained
  <2>4. SlotsApart'
    BY <1>1, <1>2, <2>1 DEF WorkInv, SlotsApart, SlotTaken
  <2>5. NeverNegative' /\ CommitsCovered'
    BY <1>1, <1>2 DEF WorkInv, NeverNegative, CommitsCovered
  <2> QED
    BY <2>2, <2>3, <2>4, <2>5 DEF WorkInv
<1>3. ASSUME NEW r \in Request, Submit(r) \/ ClaimNumber(r) \/ ReadWarehouse(r)
      PROVE  WorkInv'
  <2>1. Walk(r)
    BY <1>3 DEF Submit, ClaimNumber, ReadWarehouse, GoTo, Walk
  <2> QED
    BY <1>1, <2>1, WalkKeeps
<1>4. ASSUME NEW r \in Request, InsertItem(r)
      PROVE  WorkInv'
  <2>1. Walk(r)
    BY <1>1, <1>4 DEF InsertItem, StartPostings, GoTo, Walk, TypeOK
  <2> QED
    BY <1>1, <2>1, WalkKeeps
<1>5. ASSUME NEW r \in Request, Refuse(r)
      PROVE  WorkInv'
  BY <1>1, <1>5, RefuseRollsBack, RollbackKeeps
<1>6. ASSUME NEW r \in Request, LockProduct(r) \/ FindMovement(r) \/ InsertMovement(r) \/ Commit(r)
      PROVE  WorkInv'
  BY <1>1, <1>6, LockKeeps, FindKeeps, InsertKeeps, CommitKeeps
<1>7. ASSUME NEW r \in Request, TakeOut(r) \/ PutIn(r)
      PROVE  WorkInv'
  BY <1>1, <1>7, ApplyKeeps
<1> QED
  BY <1>2, <1>3, <1>4, <1>5, <1>6, <1>7 DEF Next, Advance, Refuse, SetActive, vars

(***************************************************************************)
(* IInv is an invariant.                                                   *)
(***************************************************************************)
THEOREM InvariantHolds == Spec => []IInv
<1>1. Init => IInv
  BY InitEstablishesIInv
<1>2. IInv /\ [Next]_vars => IInv'
  <2> SUFFICES ASSUME IInv, [Next]_vars
               PROVE  IInv'
    OBVIOUS
  <2>1. TypeOK /\ PositionInBounds
    BY DEF IInv
  <2>2. TypeOK' /\ PositionInBounds' /\ WorkInv'
    BY <2>1, TypeInductive, PositionsInductive, WorkInductive
  <2> QED
    BY <2>2 DEF IInv, WorkInv
<1> QED
  BY <1>1, <1>2, PTL DEF Spec

(***************************************************************************)
(* Every variable keeps its type, whatever the instance.                   *)
(***************************************************************************)
THEOREM TypeCorrect == Spec => []TypeOK
<1>1. IInv => TypeOK
  BY DEF IInv
<1> QED
  BY <1>1, InvariantHolds, PTL

(***************************************************************************)
(* No number of concurrent requests makes a committed balance negative.    *)
(***************************************************************************)
THEOREM StockNeverNegative == Spec => []NeverNegative
<1>1. IInv => NeverNegative
  BY DEF IInv
<1> QED
  BY <1>1, InvariantHolds, PTL

(***************************************************************************)
(* The idempotency check holds until the movement is inserted.             *)
(***************************************************************************)
THEOREM CheckHoldsUntilInsert == Spec => []CheckStaysTrue
<1>1. IInv => CheckStaysTrue
  BY DEF IInv, SlotsApart, CheckStaysTrue
<1> QED
  BY <1>1, InvariantHolds, PTL

(***************************************************************************)
(* Only COMMIT writes the two tables.                                      *)
(***************************************************************************)
LEMMA OnlyCommitWrites ==
  ASSUME [Next]_vars
  PROVE  UNCHANGED tables \/ \E r \in Request : Commit(r)
<1>1. ASSUME NEW r \in Request, Refuse(r)
      PROVE  UNCHANGED tables
  BY <1>1, RefuseRollsBack DEF Rollback
<1>2. ASSUME NEW r \in Request,
             \/ Submit(r) \/ ClaimNumber(r) \/ InsertItem(r) \/ ReadWarehouse(r)
             \/ LockProduct(r) \/ FindMovement(r) \/ TakeOut(r) \/ PutIn(r)
             \/ InsertMovement(r)
      PROVE  UNCHANGED tables
  BY <1>2 DEF Submit, ClaimNumber, InsertItem, ReadWarehouse, LockProduct, FindMovement,
     TakeOut, PutIn, ApplyChange, InsertMovement, tables
<1>3. ASSUME NEW w \in Warehouse, SetActive(w)
      PROVE  UNCHANGED tables
  BY <1>3 DEF SetActive
<1>4. CASE UNCHANGED vars
  BY <1>4 DEF vars
<1> QED
  BY <1>1, <1>2, <1>3, <1>4 DEF Next, Advance, Refuse

(***************************************************************************)
(* There are never more than finitely many movements, committed or         *)
(* pending.                                                                *)
(***************************************************************************)
FinitelyMany ==
  IsFiniteSet(stockMovement) /\ \A r \in Request : IsFiniteSet(inserted[r])

(***************************************************************************)
(* Every step adds finitely many movements.                                *)
(***************************************************************************)
LEMMA FinitelyManyInductive ==
  ASSUME TypeOK, FinitelyMany, [Next]_vars
  PROVE  FinitelyMany'
<1> USE DEF tables, work
<1>1. ASSUME NEW r \in Request, Commit(r)
      PROVE  FinitelyMany'
  <2>1. /\ stockMovement' = stockMovement \cup inserted[r]
        /\ inserted' = [inserted EXCEPT ![r] = {}]
    BY <1>1 DEF Commit, ForgetWork
  <2> QED
    BY <2>1, FS_Union, FS_EmptySet DEF FinitelyMany, TypeOK
<1>2. ASSUME NEW r \in Request, InsertMovement(r)
      PROVE  FinitelyMany'
  <2>1. /\ stockMovement' = stockMovement
        /\ inserted' = [inserted EXCEPT ![r] = inserted[r] \cup {MovementFor(r)}]
    BY <1>2 DEF InsertMovement
  <2>2. IsFiniteSet(inserted[r] \cup {MovementFor(r)})
    BY FS_AddElement DEF FinitelyMany
  <2> QED
    BY <2>1, <2>2 DEF FinitelyMany, TypeOK
<1>3. ASSUME NEW r \in Request, Refuse(r)
      PROVE  FinitelyMany'
  BY <1>3, RefuseRollsBack, FS_EmptySet DEF Rollback, ForgetWork, FinitelyMany, TypeOK
<1>4. ASSUME \/ UNCHANGED vars
             \/ \E w \in Warehouse : SetActive(w)
             \/ \E r \in Request :
                  \/ Submit(r) \/ ClaimNumber(r) \/ InsertItem(r) \/ ReadWarehouse(r)
                  \/ LockProduct(r) \/ FindMovement(r) \/ TakeOut(r) \/ PutIn(r)
      PROVE  FinitelyMany'
  <2>1. UNCHANGED <<stockMovement, inserted>>
    BY <1>4 DEF vars, SetActive, Submit, ClaimNumber, InsertItem, ReadWarehouse, LockProduct,
       FindMovement, TakeOut, PutIn, ApplyChange
  <2> QED
    BY <2>1 DEF FinitelyMany
<1> QED
  BY <1>1, <1>2, <1>3, <1>4 DEF Next, Advance, Refuse

(***************************************************************************)
(* Balances are sums of movements.  Opening has one movement in each cell  *)
(* with stock, and a transaction that commits adds one at most to a cell.  *)
(***************************************************************************)
InCell(c) == {m \in stockMovement : Abstract!CellOf(m) = c}

BalancesAreSums ==
  /\ FinitelyMany
  /\ \A c \in Cell : stockBalance[c] = FieldSum("quantity", InCell(c))

(***************************************************************************)
(* The movements of a cell can be added up.                                *)
(***************************************************************************)
LEMMA MovementsSummable ==
  ASSUME TypeOK, FinitelyMany, NEW S, S \subseteq stockMovement
  PROVE  Summable("quantity", S)
<1>1. \A m \in OpeningMovements : m.quantity \in Int
  BY OpeningAssumption DEF OpeningMovements
<1>2. \A m \in S : m.quantity \in Int
  BY <1>1 DEF TypeOK, Movement
<1>3. IsFiniteSet(S)
  BY FS_Subset DEF FinitelyMany
<1> QED
  BY <1>2, <1>3 DEF Summable

(***************************************************************************)
(* A batch that explains a change of a cell by one movement adds up to it. *)
(***************************************************************************)
LEMMA ExplainedIsTotal ==
  ASSUME NEW batch, NEW c, NEW change \in Int, Abstract!Explains(batch, c, change),
         \A m, n \in batch : Abstract!CellOf(m) = c /\ Abstract!CellOf(n) = c => m = n
  PROVE  /\ Summable("quantity", {m \in batch : Abstract!CellOf(m) = c})
         /\ FieldSum("quantity", {m \in batch : Abstract!CellOf(m) = c}) = change
<1> DEFINE here == {m \in batch : Abstract!CellOf(m) = c}
<1>1. CASE change = 0 /\ \A m \in batch : Abstract!CellOf(m) # c
  <2>1. here = {}
    BY <1>1
  <2> HIDE DEF here
  <2> QED
    BY <1>1, <2>1, FS_EmptySet, FieldSumEmpty
<1>2. ASSUME NEW m \in batch, Abstract!CellOf(m) = c, change = m.quantity
      PROVE  Summable("quantity", here) /\ FieldSum("quantity", here) = change
  <2>1. here = {m} /\ m.quantity = change
    BY <1>2
  <2> HIDE DEF here
  <2> QED
    BY <2>1, FS_Singleton, FieldSumSingle
<1> QED
  BY <1>1, <1>2 DEF Abstract!Explains

(***************************************************************************)
(* The opening balances are the sums of the opening movements.             *)
(***************************************************************************)
LEMMA OpeningBalanced ==
  ASSUME Init
  PROVE  BalancesAreSums
<1>1. stockMovement = OpeningMovements /\ \A r \in Request : inserted[r] = {}
  BY DEF Init
<1>2. IsFiniteSet(OpeningMovements)
  <2> DEFINE stocked == {c \in Cell : Opening[c] > 0}
             opening(c) == [id |-> <<Nobody, c>>, product |-> c[1], place |-> c[2],
                            type |-> "ADJUSTMENT", quantity |-> Opening[c],
                            reference |-> <<"OPENING", c>>]
  <2>1. OpeningMovements = {opening(c) : c \in stocked} /\ IsFiniteSet(stocked)
    BY OpeningAssumption DEF OpeningMovements
  <2> HIDE DEF opening, stocked
  <2>2. [c \in stocked |-> opening(c)] \in Surjection(stocked, OpeningMovements)
    BY <2>1 DEF Surjection
  <2> QED
    BY <2>1, <2>2, FS_Surjection
<1>3. FinitelyMany
  BY <1>1, <1>2, FS_EmptySet DEF FinitelyMany
<1>4. ASSUME NEW c \in Cell
      PROVE  stockBalance[c] = FieldSum("quantity", InCell(c))
  <2>1. Abstract!Explains(stockMovement, c, stockBalance[c]) /\ stockBalance[c] \in Int
    BY OpeningExplains, OpeningAssumption DEF Abstract!Init, Abstract!Cell, Cell, Init
  <2>2. \A m, n \in stockMovement : Abstract!CellOf(m) = c /\ Abstract!CellOf(n) = c => m = n
    BY <1>1 DEF OpeningMovements, Abstract!CellOf, Cell
  <2> QED
    BY <2>1, <2>2, ExplainedIsTotal DEF InCell
<1> QED
  BY <1>3, <1>4 DEF BalancesAreSums

(***************************************************************************)
(* A commit adds to each balance what its movements add up to.             *)
(***************************************************************************)
LEMMA BalancesInductive ==
  ASSUME IInv, BalancesAreSums, [Next]_vars
  PROVE  BalancesAreSums'
<1>1. FinitelyMany'
  BY FinitelyManyInductive DEF IInv, BalancesAreSums
<1>2. CASE UNCHANGED tables
  BY <1>1, <1>2 DEF BalancesAreSums, InCell, tables
<1>3. ASSUME NEW r \in Request, Commit(r)
      PROVE  BalancesAreSums'
  <2>1. /\ stockBalance' = [c \in Cell |-> stockBalance[c] + delta[r][c]]
        /\ stockMovement' = stockMovement \cup inserted[r]
        /\ pc[r] = "commit"
    BY <1>3 DEF Commit
  <2>2. ASSUME NEW c \in Cell
        PROVE  stockBalance'[c] = FieldSum("quantity", InCell(c)')
    <3> DEFINE added == {m \in inserted[r] : Abstract!CellOf(m) = c}
    <3>1. Abstract!Explains(inserted[r], c, delta[r][c]) /\ delta[r][c] \in Int
      BY <2>1 DEF IInv, TypeOK, DeltaExplained, Pending
    <3>2. \A m, n \in inserted[r] : Abstract!CellOf(m) = c /\ Abstract!CellOf(n) = c => m = n
      BY DEF IInv, SlotsApart, PendingKeepsReference, Abstract!SameSlot, Abstract!CellOf
    <3>3. Summable("quantity", added) /\ FieldSum("quantity", added) = delta[r][c]
      BY <3>1, <3>2, ExplainedIsTotal
    <3>4. Summable("quantity", InCell(c))
      BY MovementsSummable DEF IInv, BalancesAreSums, InCell
    <3>5. InCell(c) \cap added = {} /\ InCell(c)' = InCell(c) \cup added
      <4>1. \A m \in inserted[r] : m \notin stockMovement
        BY DEF IInv, SlotsApart, Abstract!SameSlot
      <4> QED
        BY <2>1, <4>1 DEF InCell
    <3> HIDE DEF added
    <3>6. FieldSum("quantity", InCell(c)') = FieldSum("quantity", InCell(c)) + delta[r][c]
      BY <3>3, <3>4, <3>5, FieldSumUnion
    <3> QED
      BY <2>1, <3>6 DEF BalancesAreSums
  <2> QED
    BY <1>1, <2>2 DEF BalancesAreSums
<1> QED
  BY <1>2, <1>3, OnlyCommitWrites

(***************************************************************************)
(* A product's movements fall into the cells of its places, none of which  *)
(* has a negative balance; so one balance is not more than their sum.      *)
(***************************************************************************)
LEMMA BalanceWithinReport ==
  ASSUME TypeOK, NeverNegative, BalancesAreSums, NEW c \in Cell
  PROVE  stockBalance[c] <= FieldSum("quantity", {m \in stockMovement : m.product = c[1]})
<1> DEFINE all == {m \in stockMovement : m.product = c[1]}
           others == all \ InCell(c)
<1>1. c = <<c[1], c[2]>> /\ c[1] \in Product /\ c[2] \in Place
  BY DEF Cell
<1>2. InCell(c) \subseteq all
  BY <1>1 DEF InCell, Abstract!CellOf
<1>3. Summable("quantity", InCell(c)) /\ Summable("quantity", others)
  BY MovementsSummable DEF BalancesAreSums, InCell
<1>4. FieldSum("quantity", others) >= 0
  <2> DEFINE key == [m \in stockMovement |-> Abstract!CellOf(m)]
  <2>1. ASSUME NEW m \in others
        PROVE  FieldSum("quantity", {n \in others : key[n] = key[m]}) >= 0
    <3>1. Abstract!CellOf(m) # c /\ m \in stockMovement /\ m.product = c[1]
      BY <2>1 DEF InCell
    <3>2. Abstract!CellOf(m) \in Cell
      <4>1. m.place \in Place
        BY <3>1 DEF TypeOK, Movement, OpeningMovements, Cell
      <4> QED
        BY <1>1, <3>1, <4>1 DEF Abstract!CellOf, Cell
    <3>3. {n \in others : key[n] = key[m]} = InCell(Abstract!CellOf(m))
      BY <3>1 DEF InCell, Abstract!CellOf
    <3> QED
      BY <3>2, <3>3 DEF BalancesAreSums, NeverNegative
  <2> HIDE DEF others, key
  <2> QED
    BY <1>3, <2>1, NonnegativeByGroups
<1>5. all = InCell(c) \cup others /\ InCell(c) \cap others = {}
  BY <1>2
<1> HIDE DEF all, others
<1>6. FieldSum("quantity", all) = FieldSum("quantity", InCell(c)) + FieldSum("quantity", others)
  BY <1>3, <1>5, FieldSumUnion
<1>7. /\ stockBalance[c] = FieldSum("quantity", InCell(c)) /\ stockBalance[c] \in Int
      /\ FieldSum("quantity", others) \in Int
  BY <1>3, FieldSumType DEF BalancesAreSums, TypeOK
<1> QED
  BY <1>4, <1>6, <1>7 DEF all

(***************************************************************************)
(* The two tables agree: every balance is the sum of its movements, and is *)
(* not more than the stock report has for the product.                     *)
(***************************************************************************)
THEOREM TablesAgree == Spec => []LedgerBalanced
<1>1. Init => BalancesAreSums
  BY OpeningBalanced
<1>2. IInv /\ BalancesAreSums => LedgerBalanced
  <2> SUFFICES ASSUME IInv, BalancesAreSums, NEW c \in Cell
               PROVE  /\ stockBalance[c] =
                           SumFunction([m \in {n \in stockMovement :
                                                 <<n.product, n.place>> = c} |-> m.quantity])
                      /\ LowInSummary(c, StockReport(c[1]))
    BY DEF LedgerBalanced
  <2>1. stockBalance[c] = FieldSum("quantity", {m \in stockMovement : <<m.product, m.place>> = c})
    BY DEF BalancesAreSums, InCell, Abstract!CellOf
  <2>2. stockBalance[c] <= FieldSum("quantity", {m \in stockMovement : m.product = c[1]})
    BY BalanceWithinReport DEF IInv
  <2>3. /\ FieldSum("quantity", {n \in stockMovement : <<n.product, n.place>> = c}) =
             SumFunction([m \in {n \in stockMovement : <<n.product, n.place>> = c} |-> m.quantity])
        /\ FieldSum("quantity", {n \in stockMovement : n.product = c[1]}) = StockReport(c[1])
    BY DEF FieldSum, StockReport
  <2> QED
    BY <2>1, <2>2, <2>3 DEF LowInSummary
<1> QED
  BY <1>1, <1>2, BalancesInductive, InvariantHolds, PTL DEF Spec

(***************************************************************************)
(* Where the movements of adjustments come from, and where they end up:    *)
(* a request that is about to commit has found or made the movement it     *)
(* asks for, and a committed movement was made by a request answered 201.  *)
(***************************************************************************)
Adjustment(r) == body[r].type = "ADJUSTMENT"

Adjusts(m, r) ==
  /\ m.reference = Reference(r)
  /\ m.product = PostingsOf(r)[1].product
  /\ m.type = "ADJUSTMENT"

AdjustmentsMade ==
  \A r \in Request : Adjustment(r) =>
    /\ pc[r] = "commit" => \E m \in stockMovement \cup inserted[r] : Adjusts(m, r)
    /\ pc[r] = "done" => \E m \in stockMovement : Adjusts(m, r)
    /\ \A m \in inserted[r] : Adjusts(m, r)

AdjustmentsAnswered ==
  \A m \in stockMovement : m.reference[1] = "ADJUSTMENT" =>
    \E r \in Request : Adjustment(r) /\ Adjusts(m, r) /\ pc[r] = "done"

AdjustmentInv == AdjustmentsMade /\ AdjustmentsAnswered

(***************************************************************************)
(* What is said of a request depends on its body alone.                    *)
(***************************************************************************)
LEMMA SameRequest ==
  ASSUME body' = body, NEW r \in Request
  PROVE  /\ Adjustment(r)' = Adjustment(r) /\ Reference(r)' = Reference(r)
         /\ PostingsOf(r)' = PostingsOf(r)
         /\ \A m : Adjusts(m, r)' <=> Adjusts(m, r)
BY DEF Adjustment, Adjusts, Reference, PostingsOf

(***************************************************************************)
(* Two adjustments have one reference exactly when they have one key.      *)
(***************************************************************************)
LEMMA SameReference ==
  ASSUME NEW q \in Request, NEW r \in Request, Adjustment(q), Adjustment(r)
  PROVE  Reference(q) = Reference(r) <=> body[q].key = body[r].key
BY DEF Reference, Adjustment

(* Whoever is refused, or waits in a circle, is inside a transaction.      *)
LEMMA RefusedRunning ==
  ASSUME NEW r \in Request, Refuse(r)
  PROVE  pc[r] \in Statements
<1>1. ASSUME DeadlockVictim(r)
      PROVE  pc[r] \in {"number", "items", "lock"}
  <2>1. PICK q : <<r, q>> \in Waits
    BY <1>1 DEF DeadlockVictim, Deadlocked
  <2> QED
    BY <2>1 DEF Waits, Blocks
<1>2. ASSUME RefuseWarehouse(r) \/ RefuseQuantity(r) \/ RefuseShortage(r) \/ Timeout(r)
      PROVE  pc[r] \in Statements
  BY <1>2 DEF RefuseWarehouse, RefuseQuantity, RefuseShortage, AtBalance, Timeout,
     InTransaction, Statements
<1> QED
  BY <1>1, <1>2 DEF Refuse, Statements

(***************************************************************************)
(* An adjustment has one posting, and its cursor is on it.                 *)
(***************************************************************************)
LEMMA AdjustmentAtFirst ==
  ASSUME TypeOK, PositionInBounds, NEW r \in Request, Adjustment(r), pc[r] \in AtPosting
  PROVE  at[r] = 1 /\ Len(PostingsOf(r)) = 1
<1>1. Len(PostingsOf(r)) = 1 /\ at[r] \in 1..Len(PostingsOf(r))
  BY PostingsTyped DEF Adjustment, PositionInBounds
<1> QED
  BY <1>1

(* A step that commits nothing and inserts nothing, of a request that does *)
(* not come to its COMMIT by it.                                           *)
LEMMA AdjustmentsKept ==
  ASSUME TypeOK, AdjustmentInv, body' = body, stockMovement' = stockMovement,
         NEW r \in Request,
         \A q \in Request \ {r} : pc'[q] = pc[q] /\ inserted'[q] = inserted[q],
         pc[r] # "done",
         pc'[r] = "done" => ~Adjustment(r),
         pc'[r] = "commit" /\ Adjustment(r) =>
           \E m \in stockMovement \cup inserted'[r] : Adjusts(m, r),
         Adjustment(r) => \A m \in inserted'[r] : Adjusts(m, r)
  PROVE  AdjustmentInv'
<1>1. AdjustmentsMade'
  BY SameRequest DEF AdjustmentInv, AdjustmentsMade
<1>2. AdjustmentsAnswered'
  BY SameRequest DEF AdjustmentInv, AdjustmentsAnswered
<1> QED
  BY <1>1, <1>2 DEF AdjustmentInv

(***************************************************************************)
(* The commit of an adjustment records it.                                 *)
(***************************************************************************)
LEMMA AdjustmentCommitKeeps ==
  ASSUME IInv, AdjustmentInv, NEW r \in Request, Commit(r)
  PROVE  AdjustmentInv'
<1>1. /\ stockMovement' = stockMovement \cup inserted[r] /\ body' = body
      /\ pc[r] = "commit" /\ pc'[r] = "done" /\ inserted'[r] = {}
      /\ \A q \in Request \ {r} : pc'[q] = pc[q] /\ inserted'[q] = inserted[q]
  BY DEF Commit, GoTo, ForgetWork, IInv, TypeOK
<1>2. AdjustmentsMade'
  BY <1>1, SameRequest DEF AdjustmentInv, AdjustmentsMade
<1>3. ASSUME NEW m \in inserted[r], m.reference[1] = "ADJUSTMENT"
      PROVE  Adjustment(r) /\ Adjusts(m, r)
  <2>1. m.reference = Reference(r)
    BY DEF IInv, PendingKeepsReference
  <2>2. Adjustment(r)
    BY <1>3, <2>1 DEF Reference, Adjustment
  <2> QED
    BY <2>2 DEF AdjustmentInv, AdjustmentsMade
<1>4. AdjustmentsAnswered'
  BY <1>1, <1>3, SameRequest DEF AdjustmentInv, AdjustmentsAnswered
<1> QED
  BY <1>2, <1>4 DEF AdjustmentInv

(***************************************************************************)
(* Every step keeps what is known of adjustments.                          *)
(***************************************************************************)
LEMMA AdjustmentInductive ==
  ASSUME IInv, AdjustmentInv, [Next]_vars
  PROVE  AdjustmentInv'
<1> USE DEF tables, work, locks
<1>1. TypeOK /\ PositionInBounds
  BY DEF IInv
<1>2. CASE UNCHANGED <<body, pc, stockMovement, inserted>>
  BY <1>2, SameRequest DEF AdjustmentInv, AdjustmentsMade, AdjustmentsAnswered
<1>3. ASSUME NEW r \in Request, NextPosting(r), UNCHANGED <<body, stockMovement>>,
             pc[r] \in AtPosting,
             \A q \in Request \ {r} : inserted'[q] = inserted[q],
             Adjustment(r) => \E m \in stockMovement \cup inserted'[r] : Adjusts(m, r),
             Adjustment(r) => \A m \in inserted'[r] : Adjusts(m, r)
      PROVE  AdjustmentInv'
  <2>1. /\ pc'[r] \in {"warehouse", "commit"} /\ pc[r] # "done"
        /\ \A q \in Request \ {r} : pc'[q] = pc[q]
    BY <1>1, <1>3 DEF NextPosting, GoTo, TypeOK, AtPosting
  <2> QED
    BY <1>1, <1>3, <2>1, AdjustmentsKept
<1>4. ASSUME NEW r \in Request, NEW s \in Statements \ {"commit"}, GoTo(r, s), pc[r] # "done",
             UNCHANGED <<body, stockMovement, inserted>>
      PROVE  AdjustmentInv'
  <2>1. /\ pc'[r] = s /\ s # "done" /\ s # "commit"
        /\ \A q \in Request \ {r} : pc'[q] = pc[q]
    BY <1>1, <1>4 DEF GoTo, TypeOK, Statements
  <2> QED
    BY <1>1, <1>4, <2>1, AdjustmentsKept DEF AdjustmentInv, AdjustmentsMade
<1>5. ASSUME NEW r \in Request,
             Submit(r) \/ ClaimNumber(r) \/ ReadWarehouse(r) \/ LockProduct(r) \/ TakeOut(r)
               \/ PutIn(r)
      PROVE  AdjustmentInv'
  BY <1>4, <1>5 DEF Submit, ClaimNumber, ReadWarehouse, LockProduct, TakeOut, PutIn, AtBalance,
     ApplyChange, Statements
<1>6. ASSUME NEW r \in Request, InsertItem(r)
      PROVE  AdjustmentInv'
  <2>1. CASE at[r] < Len(body[r].lines)
    BY <1>2, <1>6, <2>1 DEF InsertItem
  <2>2. CASE ~(at[r] < Len(body[r].lines))
    <3>1. StartPostings(r) /\ UNCHANGED <<body, stockMovement, inserted>> /\ pc[r] = "items"
      BY <1>6, <2>2 DEF InsertItem
    <3>2. /\ pc'[r] = IF PostingsOf(r) = <<>> THEN "commit" ELSE "warehouse"
          /\ \A q \in Request \ {r} : pc'[q] = pc[q]
      BY <1>1, <3>1 DEF StartPostings, GoTo, TypeOK
    <3>3. Adjustment(r) => PostingsOf(r) # <<>>
      <4>1. Adjustment(r) => Len(PostingsOf(r)) = 1
        BY <1>1, PostingsTyped DEF Adjustment
      <4>2. Len(<<>>) = 0
        BY EmptySeq
      <4> QED
        BY <4>1, <4>2
    <3> QED
      BY <1>1, <3>1, <3>2, <3>3, AdjustmentsKept DEF AdjustmentInv, AdjustmentsMade
  <2> QED
    BY <2>1, <2>2
<1>7. ASSUME NEW r \in Request, FindMovement(r)
      PROVE  AdjustmentInv'
  <2>1. CASE SlotTaken(r, stockMovement \cup inserted[r])
    <3>1. Adjustment(r) => \E m \in stockMovement \cup inserted[r] : Adjusts(m, r)
      BY <1>1, <1>7, <2>1, AdjustmentAtFirst
      DEF FindMovement, SlotTaken, Adjusts, Adjustment, Current, AtPosting
    <3> QED
      BY <1>3, <1>7, <2>1, <3>1 DEF FindMovement, AtPosting, AdjustmentInv, AdjustmentsMade
  <2>2. CASE ~SlotTaken(r, stockMovement \cup inserted[r])
    BY <1>4, <1>7, <2>2 DEF FindMovement, Statements
  <2> QED
    BY <2>1, <2>2
<1>8. ASSUME NEW r \in Request, InsertMovement(r)
      PROVE  AdjustmentInv'
  <2>1. /\ pc[r] = "insert" /\ NextPosting(r) /\ UNCHANGED <<body, stockMovement>>
        /\ inserted'[r] = inserted[r] \cup {MovementFor(r)}
        /\ \A q \in Request \ {r} : inserted'[q] = inserted[q]
    BY <1>1, <1>8 DEF InsertMovement, TypeOK
  <2>2. Adjustment(r) => Adjusts(MovementFor(r), r)
    BY <1>1, <2>1, AdjustmentAtFirst DEF Adjusts, MovementFor, Adjustment, Current, AtPosting
  <2> QED
    BY <1>3, <2>1, <2>2 DEF AtPosting, AdjustmentInv, AdjustmentsMade
<1>9. ASSUME NEW r \in Request, Refuse(r)
      PROVE  AdjustmentInv'
  <2>1. Rollback(r) /\ pc[r] \in Statements
    BY <1>9, RefuseRollsBack, RefusedRunning
  <2> QED
    BY <1>1, <2>1, AdjustmentsKept DEF Rollback, GoTo, ForgetWork, TypeOK, Statements
<1> QED
  BY <1>2, <1>5, <1>6, <1>7, <1>8, <1>9, AdjustmentCommitKeeps
  DEF Next, Advance, Refuse, SetActive, vars

(***************************************************************************)
(* However often an adjustment is sent with one key, the ledger holds its  *)
(* movement once as soon as one request was answered 201, and not before.  *)
(***************************************************************************)
THEOREM KeyAdjustsOnce == Spec => []AdjustmentOnce
<1>1. Init => AdjustmentInv
  <2>1. \A m \in OpeningMovements : m.reference[1] = "OPENING"
    BY DEF OpeningMovements
  <2> QED
    BY <2>1 DEF Init, AdjustmentInv, AdjustmentsMade, AdjustmentsAnswered
<1>2. IInv /\ AdjustmentInv => AdjustmentOnce
  <2> SUFFICES ASSUME IInv, AdjustmentInv, NEW r \in Request, Adjustment(r)
               PROVE  Cardinality({m \in Posted(r) : m.product = PostingsOf(r)[1].product}) =
                        IF \E q \in Request : AdjustsTheSame(q, r) /\ pc[q] = "done"
                        THEN 1 ELSE 0
    BY DEF AdjustmentOnce, Adjustment
  <2> DEFINE own == {m \in Posted(r) : m.product = PostingsOf(r)[1].product}
             answered == \E q \in Request : AdjustsTheSame(q, r) /\ pc[q] = "done"
  <2>1. \A m \in own : \E q \in Request : Adjustment(q) /\ Adjusts(m, q) /\ pc[q] = "done"
    BY DEF AdjustmentInv, AdjustmentsAnswered, Posted, Reference, Adjustment
  <2>2. own # {} => answered
    <3> SUFFICES ASSUME NEW m \in own
                 PROVE  answered
      OBVIOUS
    <3>1. PICK q \in Request : Adjustment(q) /\ Adjusts(m, q) /\ pc[q] = "done"
      BY <2>1
    <3>2. Reference(q) = Reference(r) /\ PostingsOf(q)[1].product = PostingsOf(r)[1].product
      BY <3>1 DEF Adjusts, Posted
    <3>3. AdjustsTheSame(q, r)
      BY <3>1, <3>2, SameReference DEF AdjustsTheSame, Adjustment
    <3> QED
      BY <3>1, <3>3
  <2>3. answered => own # {}
    <3> SUFFICES ASSUME NEW q \in Request, AdjustsTheSame(q, r), pc[q] = "done"
                 PROVE  own # {}
      OBVIOUS
    <3>1. /\ Adjustment(q) /\ Reference(q) = Reference(r)
          /\ PostingsOf(q)[1].product = PostingsOf(r)[1].product
      BY SameReference DEF AdjustsTheSame, Adjustment
    <3>2. PICK m \in stockMovement : Adjusts(m, q)
      BY <3>1 DEF AdjustmentInv, AdjustmentsMade
    <3> QED
      BY <3>1, <3>2 DEF Adjusts, Posted
  <2>4. \A m, n \in own : m = n
    <3>1. \A m \in own : m.type = "ADJUSTMENT" /\ m.reference = Reference(r)
      BY <2>1 DEF Adjusts, Posted
    <3> QED
      BY <3>1 DEF IInv, SlotsApart, Abstract!SameSlot, Posted
  <2>5. CASE own = {}
    BY <2>3, <2>5, FS_EmptySet
  <2>6. ASSUME NEW m \in own
        PROVE  Cardinality(own) = IF answered THEN 1 ELSE 0
    <3>1. own = {m}
      BY <2>4
    <3> HIDE DEF own
    <3> QED
      BY <2>2, <3>1, FS_Singleton
  <2> QED
    BY <2>5, <2>6
<1> QED
  BY <1>1, <1>2, AdjustmentInductive, InvariantHolds, PTL DEF Spec

--------------------------------------------------------------------------------
(***************************************************************************)
(* Documents.  Of the postings of a document the first one of each product *)
(* makes a movement; the idempotency check takes the others for replays of *)
(* it.  made holds what the first n postings of b make for request r.      *)
(***************************************************************************)
FirstOfProduct(b, k) ==
  \A j \in 1 .. k - 1 : PostingTable[b][j].product # PostingTable[b][k].product

MadeBy(b, r, k) ==
  [id |-> <<r, k>>, product |-> PostingTable[b][k].product, place |-> b.place, type |-> b.type,
   quantity |-> ActualQuantity(b.type, PostingTable[b][k].quantity),
   reference |-> <<"DOCUMENT", r>>]

MadeUpTo(b, r, made, n) ==
  /\ \A m \in made : \E k \in 1 .. n : FirstOfProduct(b, k) /\ m = MadeBy(b, r, k)
  /\ \A k \in 1 .. n : \E m \in made : m.product = PostingTable[b][k].product

DocumentsMade ==
  \A r \in Request : ~Adjustment(r) =>
    /\ pc[r] \in {"number", "items"} => inserted[r] = {}
    /\ pc[r] \in AtPosting => MadeUpTo(body[r], r, inserted[r], at[r] - 1)
    /\ pc[r] = "commit" => MadeUpTo(body[r], r, inserted[r], Len(PostingsOf(r)))
    /\ pc[r] = "done" => MadeUpTo(body[r], r, Posted(r), Len(PostingsOf(r)))
    /\ pc[r] # "done" => Posted(r) = {}

(***************************************************************************)
(* A step of r that writes nothing leaves the documents of the others.     *)
(***************************************************************************)
LEMMA DocumentsKept ==
  ASSUME DocumentsMade, body' = body, stockMovement' = stockMovement, NEW r \in Request,
         \A q \in Request \ {r} : /\ pc'[q] = pc[q] /\ at'[q] = at[q]
                                  /\ inserted'[q] = inserted[q],
         pc[r] # "done", pc'[r] # "done",
         ~Adjustment(r) =>
           /\ pc'[r] \in {"number", "items"} => inserted'[r] = {}
           /\ pc'[r] \in AtPosting => MadeUpTo(body[r], r, inserted'[r], at'[r] - 1)
           /\ pc'[r] = "commit" => MadeUpTo(body[r], r, inserted'[r], Len(PostingsOf(r)))
  PROVE  DocumentsMade'
<1> SUFFICES ASSUME NEW q \in Request, ~Adjustment(q)
             PROVE  /\ pc'[q] \in {"number", "items"} => inserted'[q] = {}
                    /\ pc'[q] \in AtPosting => MadeUpTo(body[q], q, inserted'[q], at'[q] - 1)
                    /\ pc'[q] = "commit" =>
                         MadeUpTo(body[q], q, inserted'[q], Len(PostingsOf(q)))
                    /\ pc'[q] = "done" => MadeUpTo(body[q], q, Posted(q), Len(PostingsOf(q)))
                    /\ pc'[q] # "done" => Posted(q) = {}
  BY DEF DocumentsMade, Adjustment, PostingsOf, Posted, Reference, AtPosting
<1>1. CASE q = r
  BY <1>1 DEF DocumentsMade
<1>2. CASE q # r
  <2>1. pc'[q] = pc[q] /\ at'[q] = at[q] /\ inserted'[q] = inserted[q]
    BY <1>2
  <2> QED
    BY <2>1 DEF DocumentsMade
<1> QED
  BY <1>1, <1>2

(***************************************************************************)
(* Going on to the next posting, with what the postings so far make.       *)
(***************************************************************************)
LEMMA DocumentsNext ==
  ASSUME TypeOK, PositionInBounds, DocumentsMade, NEW r \in Request, NextPosting(r),
         UNCHANGED <<body, stockMovement>>, pc[r] \in AtPosting,
         \A q \in Request \ {r} : inserted'[q] = inserted[q],
         ~Adjustment(r) => MadeUpTo(body[r], r, inserted'[r], at[r])
  PROVE  DocumentsMade'
<1>1. /\ pc'[r] = IF at[r] < Len(PostingsOf(r)) THEN "warehouse" ELSE "commit"
      /\ at'[r] = at[r] + 1
      /\ \A q \in Request \ {r} : pc'[q] = pc[q] /\ at'[q] = at[q]
      /\ pc[r] # "done" /\ pc'[r] # "done" /\ pc'[r] \notin {"number", "items"}
  BY DEF NextPosting, GoTo, TypeOK, AtPosting
<1>2. at[r] \in 1 .. Len(PostingsOf(r)) /\ Len(PostingsOf(r)) \in Nat
  BY PostingsTyped, LenProperties DEF PositionInBounds
<1>3. at'[r] - 1 = at[r] /\ (pc'[r] = "commit" => at[r] = Len(PostingsOf(r)))
  BY <1>1, <1>2
<1> QED
  BY <1>1, <1>3, DocumentsKept

(***************************************************************************)
(* A movement found is of an earlier posting; when none is found, the      *)
(* posting is the first of its product, and its movement is made.          *)
(***************************************************************************)
LEMMA FoundAreMade ==
  ASSUME IInv, DocumentsMade, NEW r \in Request, ~Adjustment(r), pc[r] \in {"check", "insert"},
         SlotTaken(r, stockMovement \cup inserted[r])
  PROVE  MadeUpTo(body[r], r, inserted[r], at[r])
<1>1. MadeUpTo(body[r], r, inserted[r], at[r] - 1) /\ Posted(r) = {}
  BY DEF DocumentsMade, AtPosting
<1>2. PICK m \in stockMovement \cup inserted[r] :
        m.reference = Reference(r) /\ m.product = Current(r).product
  BY DEF SlotTaken
<1>3. m \in inserted[r]
  BY <1>1, <1>2 DEF Posted
<1>4. at[r] \in Nat \ {0}
  BY DEF IInv, TypeOK
<1>5. \A k \in 1 .. at[r] : k \in 1 .. at[r] - 1 \/ k = at[r]
  BY <1>4
<1>6. \A k \in 1 .. at[r] - 1 : k \in 1 .. at[r]
  BY <1>4
<1> QED
  BY <1>1, <1>2, <1>3, <1>5, <1>6 DEF MadeUpTo, Current, PostingsOf

(* The insert of a movement makes a movement of its document.              *)
LEMMA InsertedAreMade ==
  ASSUME IInv, DocumentsMade, NEW r \in Request, ~Adjustment(r), pc[r] = "insert"
  PROVE  MadeUpTo(body[r], r, inserted[r] \cup {MovementFor(r)}, at[r])
<1>1. MadeUpTo(body[r], r, inserted[r], at[r] - 1)
  BY DEF DocumentsMade, AtPosting
<1>2. ~SlotTaken(r, stockMovement \cup inserted[r])
  BY DEF IInv, SlotsApart
<1>3. at[r] \in Nat \ {0}
  BY DEF IInv, TypeOK
<1>4. \A k \in 1 .. at[r] : k \in 1 .. at[r] - 1 \/ k = at[r]
  BY <1>3
<1>5. at[r] \in 1 .. at[r] /\ \A k \in 1 .. at[r] - 1 : k \in 1 .. at[r]
  BY <1>3
<1>6. MovementFor(r) = MadeBy(body[r], r, at[r])
  BY DEF MovementFor, MadeBy, Current, Change, PostingsOf, Reference, Adjustment
<1>7. FirstOfProduct(body[r], at[r])
  <2>1. \A m \in inserted[r] : m.product # Current(r).product
    BY <1>2 DEF SlotTaken, IInv, PendingKeepsReference
  <2> QED
    BY <1>1, <2>1 DEF MadeUpTo, FirstOfProduct, Current, PostingsOf
<1>8. MovementFor(r).product = PostingTable[body[r]][at[r]].product
  BY <1>6 DEF MadeBy
<1> QED
  BY <1>1, <1>4, <1>5, <1>6, <1>7, <1>8 DEF MadeUpTo

(***************************************************************************)
(* A commit puts the movements of its document into the ledger, and none   *)
(* of another.                                                             *)
(***************************************************************************)
LEMMA DocumentCommitKeeps ==
  ASSUME IInv, DocumentsMade, NEW r \in Request, Commit(r)
  PROVE  DocumentsMade'
<1>1. /\ stockMovement' = stockMovement \cup inserted[r] /\ body' = body /\ at' = at
      /\ pc[r] = "commit" /\ pc'[r] = "done" /\ inserted'[r] = {}
      /\ \A q \in Request \ {r} : pc'[q] = pc[q] /\ inserted'[q] = inserted[q]
  BY DEF Commit, GoTo, ForgetWork, IInv, TypeOK
<1>2. \A m \in inserted[r] : m.reference = Reference(r)
  BY DEF IInv, PendingKeepsReference
<1>3. ASSUME NEW q \in Request, q # r, ~Adjustment(q)
      PROVE  Posted(q)' = Posted(q)
  <2>1. Reference(q) # Reference(r)
    BY <1>3 DEF Reference, Adjustment
  <2> QED
    BY <1>1, <1>2, <2>1 DEF Posted, Reference
<1>4. ASSUME ~Adjustment(r)
      PROVE  Posted(r)' = inserted[r]
  <2>1. Posted(r) = {}
    BY <1>1, <1>4 DEF DocumentsMade
  <2> QED
    BY <1>1, <1>2, <2>1 DEF Posted, Reference
<1> SUFFICES ASSUME NEW q \in Request, ~Adjustment(q)
             PROVE  /\ pc'[q] \in {"number", "items"} => inserted'[q] = {}
                    /\ pc'[q] \in AtPosting => MadeUpTo(body[q], q, inserted'[q], at[q] - 1)
                    /\ pc'[q] = "commit" =>
                         MadeUpTo(body[q], q, inserted'[q], Len(PostingsOf(q)))
                    /\ pc'[q] = "done" =>
                         MadeUpTo(body[q], q, Posted(q)', Len(PostingsOf(q)))
                    /\ pc'[q] # "done" => Posted(q)' = {}
  BY <1>1 DEF DocumentsMade, Adjustment, PostingsOf, AtPosting
<1>5. CASE q = r
  BY <1>1, <1>4, <1>5 DEF DocumentsMade, AtPosting
<1>6. CASE q # r
  <2>1. pc'[q] = pc[q] /\ inserted'[q] = inserted[q] /\ Posted(q)' = Posted(q)
    BY <1>1, <1>3, <1>6
  <2> QED
    BY <2>1 DEF DocumentsMade
<1> QED
  BY <1>5, <1>6

(***************************************************************************)
(* Every step keeps what is known of documents.                            *)
(***************************************************************************)
LEMMA DocumentsInductive ==
  ASSUME IInv, DocumentsMade, [Next]_vars
  PROVE  DocumentsMade'
<1> USE DEF tables, work, locks
<1>1. TypeOK /\ PositionInBounds /\ NothingPendingOutside
  BY DEF IInv
<1>2. CASE UNCHANGED <<body, pc, at, stockMovement, inserted>>
  BY <1>2 DEF DocumentsMade, Adjustment, PostingsOf, Posted, Reference, AtPosting
<1>3. ASSUME NEW r \in Request, Submit(r)
      PROVE  DocumentsMade'
  <2>1. /\ pc[r] = "idle" /\ UNCHANGED <<body, at, stockMovement, inserted>>
        /\ pc'[r] = IF Adjustment(r) THEN "warehouse"
                    ELSE IF body[r].type = "SALE_ISSUE" THEN "number" ELSE "items"
        /\ \A q \in Request \ {r} : pc'[q] = pc[q]
    BY <1>1, <1>3 DEF Submit, GoTo, TypeOK, Adjustment
  <2>2. inserted[r] = {}
    BY <1>1, <2>1 DEF NothingPendingOutside, InTransaction, Statements
  <2> QED
    BY <2>1, <2>2, DocumentsKept DEF AtPosting
<1>4. ASSUME NEW r \in Request, ClaimNumber(r)
      PROVE  DocumentsMade'
  <2>1. /\ pc[r] = "number" /\ UNCHANGED <<body, at, stockMovement, inserted>>
        /\ pc'[r] = "items" /\ \A q \in Request \ {r} : pc'[q] = pc[q]
    BY <1>1, <1>4 DEF ClaimNumber, GoTo, TypeOK
  <2>2. ~Adjustment(r) => inserted[r] = {}
    BY <2>1 DEF DocumentsMade
  <2> QED
    BY <2>1, <2>2, DocumentsKept DEF AtPosting
<1>5. ASSUME NEW r \in Request, InsertItem(r)
      PROVE  DocumentsMade'
  <2>1. pc[r] = "items" /\ UNCHANGED <<body, stockMovement, inserted>>
    BY <1>5 DEF InsertItem
  <2>2. ~Adjustment(r) => inserted[r] = {}
    BY <2>1 DEF DocumentsMade
  <2>3. CASE at[r] < Len(body[r].lines)
    <3>1. pc' = pc /\ \A q \in Request \ {r} : at'[q] = at[q]
      BY <1>1, <1>5, <2>3 DEF InsertItem, TypeOK
    <3> QED
      BY <2>1, <2>2, <3>1, DocumentsKept DEF AtPosting
  <2>4. CASE ~(at[r] < Len(body[r].lines))
    <3>1. /\ pc'[r] = IF PostingsOf(r) = <<>> THEN "commit" ELSE "warehouse"
          /\ at'[r] = 1
          /\ \A q \in Request \ {r} : pc'[q] = pc[q] /\ at'[q] = at[q]
      BY <1>1, <1>5, <2>4 DEF InsertItem, StartPostings, GoTo, TypeOK
    <3>2. \A n \in {0} : MadeUpTo(body[r], r, {}, n)
      BY DEF MadeUpTo
    <3>3. PostingsOf(r) = <<>> => Len(PostingsOf(r)) = 0
      BY EmptySeq
    <3>4. at'[r] - 1 = 0 /\ pc'[r] \notin {"number", "items", "done"}
      BY <3>1
    <3> QED
      BY <2>1, <2>2, <3>1, <3>2, <3>3, <3>4, DocumentsKept
  <2> QED
    BY <2>3, <2>4
<1>6. ASSUME NEW r \in Request, NEW s \in AtPosting, GoTo(r, s), pc[r] \in AtPosting,
             UNCHANGED <<body, at, stockMovement, inserted>>
      PROVE  DocumentsMade'
  <2>1. /\ pc'[r] = s /\ \A q \in Request \ {r} : pc'[q] = pc[q]
        /\ pc[r] # "done" /\ s \notin {"number", "items", "commit", "done"}
    BY <1>1, <1>6 DEF GoTo, TypeOK, AtPosting
  <2>2. ~Adjustment(r) => MadeUpTo(body[r], r, inserted[r], at[r] - 1)
    BY <1>6 DEF DocumentsMade
  <2> QED
    BY <1>6, <2>1, <2>2, DocumentsKept
<1>7. ASSUME NEW r \in Request, ReadWarehouse(r) \/ LockProduct(r) \/ TakeOut(r) \/ PutIn(r)
      PROVE  DocumentsMade'
  BY <1>6, <1>7 DEF ReadWarehouse, LockProduct, TakeOut, PutIn, AtBalance, ApplyChange, AtPosting
<1>8. ASSUME NEW r \in Request, FindMovement(r)
      PROVE  DocumentsMade'
  <2>1. CASE SlotTaken(r, stockMovement \cup inserted[r])
    <3>1. ~Adjustment(r) => MadeUpTo(body[r], r, inserted[r], at[r])
      BY <1>8, <2>1, FoundAreMade DEF FindMovement
    <3>2. /\ NextPosting(r) /\ UNCHANGED <<body, stockMovement, inserted>>
          /\ pc[r] \in AtPosting
      BY <1>8, <2>1 DEF FindMovement, AtPosting
    <3> QED
      BY <1>1, <3>1, <3>2, DocumentsNext
  <2>2. CASE ~SlotTaken(r, stockMovement \cup inserted[r])
    BY <1>6, <1>8, <2>2 DEF FindMovement, AtPosting
  <2> QED
    BY <2>1, <2>2
<1>9. ASSUME NEW r \in Request, InsertMovement(r)
      PROVE  DocumentsMade'
  <2>1. /\ NextPosting(r) /\ UNCHANGED <<body, stockMovement>> /\ pc[r] = "insert"
        /\ inserted'[r] = inserted[r] \cup {MovementFor(r)}
        /\ \A q \in Request \ {r} : inserted'[q] = inserted[q]
    BY <1>1, <1>9 DEF InsertMovement, TypeOK
  <2>2. ~Adjustment(r) => MadeUpTo(body[r], r, inserted'[r], at[r])
    BY <2>1, InsertedAreMade
  <2>3. pc[r] \in AtPosting
    BY <2>1 DEF AtPosting
  <2> QED
    BY <1>1, <2>1, <2>2, <2>3, DocumentsNext
<1>10. ASSUME NEW r \in Request, Refuse(r)
       PROVE  DocumentsMade'
  <2>1. Rollback(r) /\ pc[r] \in Statements
    BY <1>10, RefuseRollsBack, RefusedRunning
  <2>2. /\ UNCHANGED <<body, at, stockMovement>> /\ pc'[r] = "failed" /\ pc[r] # "done"
        /\ \A q \in Request \ {r} : pc'[q] = pc[q] /\ inserted'[q] = inserted[q]
    BY <1>1, <2>1 DEF Rollback, GoTo, ForgetWork, TypeOK, Statements
  <2> QED
    BY <2>2, DocumentsKept DEF AtPosting
<1> QED
  BY <1>2, <1>3, <1>4, <1>5, <1>7, <1>8, <1>9, <1>10, DocumentCommitKeeps
  DEF Next, Advance, Refuse, SetActive, vars

--------------------------------------------------------------------------------
(***************************************************************************)
(* The postings of a purchase: one for each product on its lines, with the *)
(* total of that product.                                                  *)
(***************************************************************************)
LEMMA PurchasePostings ==
  ASSUME NEW b \in Body, b.type = "PURCHASE_RECEIPT"
  PROVE  /\ \A k \in 1 .. Len(PostingTable[b]) :
              PostingTable[b][k].quantity = LineTotal(b.lines, PostingTable[b][k].product)
         /\ \A p \in Product : (\E i \in DOMAIN b.lines : b.lines[i].product = p) =>
              \E k \in 1 .. Len(PostingTable[b]) : PostingTable[b][k].product = p
<1> DEFINE Line == [product : Product \cup {NoProduct}, quantity : Int]
           firsts == Sublist(b.lines, FirstLines(b.lines))
<1>1. PICK lines : lines = b.lines
  OBVIOUS
<1>2. lines \in Seq(Line) /\ FirstLines(lines) \in SUBSET DOMAIN lines
  BY <1>1, BodyAssumption DEF FirstLines
<1>3. PICK a, l : a = Ascending(FirstLines(lines)) /\ l = Sublist(lines, FirstLines(lines))
  OBVIOUS
<1>4. /\ DOMAIN l = 1 .. Len(l) /\ Len(l) \in Nat
      /\ \A n \in DOMAIN l : a[n] \in FirstLines(lines) /\ l[n] = lines[a[n]]
      /\ \A k \in FirstLines(lines) : \E n \in DOMAIN l : a[n] = k
  <2> HIDE DEF Line
  <2> QED
    BY <1>2, <1>3, SublistOf, LenProperties
<1>5. PICK P : P = PostingTable[b]
  OBVIOUS
<1>6. P = [k \in DOMAIN l |-> [product |-> l[k].product,
                               quantity |-> LineTotal(lines, l[k].product)]]
  BY <1>1, <1>3, <1>5 DEF PostingTable, Postings, Aggregated
<1>7. P \in Seq(Posting)
  BY <1>5, BodyAssumption DEF PostingTable
<1>8. DOMAIN P = 1 .. Len(P)
  BY <1>7, LenProperties
<1>9. ASSUME NEW p \in Product, \E i \in DOMAIN lines : lines[i].product = p
      PROVE  \E k \in 1 .. Len(P) : P[k].product = p
  <2> DEFINE naming == {i \in DOMAIN lines : lines[i].product = p}
  <2>1. naming \in SUBSET DOMAIN lines /\ naming # {}
    BY <1>9
  <2>2. DOMAIN lines = 1 .. Len(lines) /\ Len(lines) \in Nat /\ IsFiniteSet(DOMAIN lines)
    BY <1>2, SequenceDomain
  <2>3. IsFiniteSet(naming) /\ \A i \in naming : i \in Int
    BY <2>1, <2>2, FS_Subset
  <2>4. PICK i \in naming : \A j \in naming : i <= j
    <3> HIDE DEF naming
    <3> QED
      BY <2>1, <2>3, LeastOf
  <2>5. \A j \in 1 .. i - 1 : lines[j].product # lines[i].product
    BY <2>2, <2>4
  <2>6. i \in FirstLines(lines)
    BY <2>4, <2>5, ProductAssumption DEF FirstLines
  <2>7. PICK n \in DOMAIN l : a[n] = i
    BY <1>4, <2>6
  <2>8. P[n].product = p
    BY <1>4, <1>6, <2>4, <2>7
  <2> QED
    BY <1>6, <1>8, <2>8
<1>10. \A k \in 1 .. Len(P) : P[k].quantity = LineTotal(lines, P[k].product)
  BY <1>6, <1>8
<1> QED
  BY <1>1, <1>5, <1>9, <1>10

(***************************************************************************)
(* The postings of an invoice: its lines with a product, in their order.   *)
(***************************************************************************)
LEMMA SalePostings ==
  ASSUME NEW b \in Body, b.type = "SALE_ISSUE"
  PROVE  \E a :
    /\ \A k \in 1 .. Len(PostingTable[b]) :
         /\ a[k] \in DOMAIN b.lines /\ a[k] \in Int
         /\ PostingTable[b][k] = b.lines[a[k]]
    /\ \A k, n \in 1 .. Len(PostingTable[b]) : k < n => a[k] < a[n]
    /\ \A i \in DOMAIN b.lines : b.lines[i].product # NoProduct =>
         \E k \in 1 .. Len(PostingTable[b]) : a[k] = i
<1> DEFINE Line == [product : Product \cup {NoProduct}, quantity : Int]
<1>1. PICK lines : lines = b.lines
  OBVIOUS
<1>2. PICK K : K = {i \in DOMAIN lines : lines[i].product # NoProduct}
  OBVIOUS
<1>3. lines \in Seq(Line) /\ K \in SUBSET DOMAIN lines
  BY <1>1, <1>2, BodyAssumption
<1>4. PICK a, l : a = Ascending(K) /\ l = Sublist(lines, K)
  OBVIOUS
<1>5. /\ DOMAIN l = 1 .. Len(l)
      /\ \A n \in DOMAIN l : a[n] \in K /\ l[n] = lines[a[n]]
      /\ \A m, n \in DOMAIN l : m < n => a[m] < a[n]
      /\ \A k \in K : \E n \in DOMAIN l : a[n] = k
  <2> HIDE DEF Line
  <2> QED
    BY <1>3, <1>4, SublistOf
<1>6. l = PostingTable[b]
  BY <1>1, <1>2, <1>4 DEF PostingTable, Postings, StockLines
<1>7. \A i \in DOMAIN lines : i \in Int
  BY <1>3, SequenceDomain
<1> HIDE DEF Line
<1>8. /\ \A k \in 1 .. Len(l) : a[k] \in DOMAIN lines /\ a[k] \in Int /\ l[k] = lines[a[k]]
      /\ \A k, n \in 1 .. Len(l) : k < n => a[k] < a[n]
      /\ \A i \in DOMAIN lines : lines[i].product # NoProduct =>
           \E k \in 1 .. Len(l) : a[k] = i
  BY <1>2, <1>5, <1>7, Zenon
<1>9. /\ \A k \in 1 .. Len(PostingTable[b]) :
           /\ a[k] \in DOMAIN b.lines /\ a[k] \in Int
           /\ PostingTable[b][k] = b.lines[a[k]]
      /\ \A k, n \in 1 .. Len(PostingTable[b]) : k < n => a[k] < a[n]
      /\ \A i \in DOMAIN b.lines : b.lines[i].product # NoProduct =>
           \E k \in 1 .. Len(PostingTable[b]) : a[k] = i
  BY <1>1, <1>6, <1>8
<1> QED
  BY <1>9

(***************************************************************************)
(* What has no posting is not owed.                                        *)
(***************************************************************************)
LEMMA NothingOwed ==
  ASSUME NEW b \in Body, b.type # "ADJUSTMENT", NEW p \in Product,
         \A k \in 1 .. Len(PostingTable[b]) : PostingTable[b][k].product # p
  PROVE  Owed(b, p) = 0
<1>1. b.type \in {"PURCHASE_RECEIPT", "SALE_ISSUE"}
  BY BodyAssumption
<1>2. {i \in DOMAIN b.lines : b.lines[i].product = p} = {}
  BY <1>1, PurchasePostings, SalePostings, ProductAssumption
<1>3. LineTotal(b.lines, p) = 0
  <2>1. PICK f : f = [i \in {j \in DOMAIN b.lines : b.lines[j].product = p} |->
                        b.lines[i].quantity]
    OBVIOUS
  <2>2. LineTotal(b.lines, p) = SumFunctionOnSet(f, {})
    BY <1>2, <2>1 DEF LineTotal, SumFunction
  <2> QED
    BY <2>2, SumEmpty
<1>4. FirstLine(b.lines, p) = 0
  BY <1>2 DEF FirstLine
<1>5. Owed(b, p) = 0 \/ Owed(b, p) = -0
  BY <1>3, <1>4, Zenon DEF Owed
<1> QED
  BY <1>5

(***************************************************************************)
(* The first posting of a product has what is owed of it.                  *)
(***************************************************************************)
LEMMA FirstIsOwed ==
  ASSUME NEW b \in Body, b.type # "ADJUSTMENT", NEW k \in 1 .. Len(PostingTable[b]),
         FirstOfProduct(b, k)
  PROVE  /\ Owed(b, PostingTable[b][k].product) =
              ActualQuantity(b.type, PostingTable[b][k].quantity)
         /\ ActualQuantity(b.type, PostingTable[b][k].quantity) \in Int
<1>1. b.type \in {"PURCHASE_RECEIPT", "SALE_ISSUE"}
  BY BodyAssumption
<1>2. PICK P : P = PostingTable[b]
  OBVIOUS
<1>3. P \in Seq(Posting)
  BY <1>2, BodyAssumption DEF PostingTable
<1>4. P[k] \in Posting
  BY <1>2, <1>3, ElementOfSeq
<1>5. ActualQuantity(b.type, P[k].quantity) \in Int
  BY <1>4 DEF ActualQuantity, Posting
<1>6. CASE b.type = "PURCHASE_RECEIPT"
  BY <1>2, <1>5, <1>6, PurchasePostings DEF Owed, ActualQuantity, Outbound
<1>7. CASE b.type = "SALE_ISSUE"
  <2> DEFINE naming == {i \in DOMAIN b.lines : b.lines[i].product = P[k].product}
  <2>1. PICK a :
          /\ \A n \in 1 .. Len(P) : a[n] \in DOMAIN b.lines /\ a[n] \in Int /\ P[n] = b.lines[a[n]]
          /\ \A m, n \in 1 .. Len(P) : m < n => a[m] < a[n]
          /\ \A i \in DOMAIN b.lines : b.lines[i].product # NoProduct =>
               \E n \in 1 .. Len(P) : a[n] = i
    BY <1>2, <1>7, SalePostings
  <2>2. a[k] \in naming
    BY <1>2, <2>1
  <2>3. ASSUME NEW i \in naming
        PROVE  a[k] <= i
    <3>1. P[k].product # NoProduct
      BY <1>4, ProductAssumption DEF Posting
    <3>2. PICK n \in 1 .. Len(P) : a[n] = i
      BY <2>1, <3>1
    <3>3. P[n].product = P[k].product
      BY <2>1, <3>2
    <3>4. ~(n \in 1 .. k - 1)
      BY <1>2, <3>3 DEF FirstOfProduct
    <3>5. n = k \/ k < n
      <4>1. n \in Int /\ k \in Int /\ 1 <= n
        BY <1>2, <1>3, LenProperties
      <4> QED
        BY <3>4, <4>1
    <3>6. a[k] \in Int /\ a[n] \in Int /\ (k < n => a[k] < a[n])
      BY <1>2, <2>1
    <3> QED
      BY <3>2, <3>5, <3>6
  <2>4. Min(naming) = a[k]
    <3>1. \A i \in naming : i \in Int
      BY <1>2, BodyAssumption
    <3>2. \A x \in naming : (\A y \in naming : x <= y) => x = a[k]
      <4> HIDE DEF naming
      <4> QED
        BY <2>2, <2>3, <3>1
    <3> HIDE DEF naming
    <3> QED
      BY <2>2, <2>3, <3>2 DEF Min
  <2>5. FirstLine(b.lines, P[k].product) = P[k].quantity
    BY <1>2, <2>1, <2>2, <2>4 DEF FirstLine
  <2> QED
    BY <1>2, <1>5, <1>7, <2>5 DEF Owed, ActualQuantity, Outbound
<1> QED
  BY <1>1, <1>2, <1>5, <1>6, <1>7

(***************************************************************************)
(* A document's movements of a product add up to what is owed of it.       *)
(***************************************************************************)
LEMMA MadeIsOwed ==
  ASSUME NEW b \in Body, b.type # "ADJUSTMENT", NEW r, NEW made, NEW p \in Product,
         MadeUpTo(b, r, made, Len(PostingTable[b]))
  PROVE  FieldSum("quantity", {m \in made : m.product = p}) = Owed(b, p)
<1>1. CASE \A k \in 1 .. Len(PostingTable[b]) : PostingTable[b][k].product # p
  <2>1. {m \in made : m.product = p} = {}
    BY <1>1 DEF MadeUpTo, MadeBy
  <2>2. Owed(b, p) = 0
    BY <1>1, NothingOwed
  <2> QED
    BY <2>1, <2>2, FieldSumEmpty
<1>2. ASSUME NEW n \in 1 .. Len(PostingTable[b]), PostingTable[b][n].product = p
      PROVE  FieldSum("quantity", {m \in made : m.product = p}) = Owed(b, p)
  <2>1. PICK m \in made : m.product = p
    BY <1>2 DEF MadeUpTo
  <2>2. PICK k \in 1 .. Len(PostingTable[b]) : FirstOfProduct(b, k) /\ m = MadeBy(b, r, k)
    BY DEF MadeUpTo
  <2>3. PostingTable[b][k].product = p
    BY <2>1, <2>2 DEF MadeBy
  <2>4. m.quantity = Owed(b, p) /\ m.quantity \in Int
    BY <2>2, <2>3, FirstIsOwed DEF MadeBy
  <2>5. ASSUME NEW other \in made, other.product = p
        PROVE  other = m
    <3>1. PICK j \in 1 .. Len(PostingTable[b]) : FirstOfProduct(b, j) /\ other = MadeBy(b, r, j)
      BY DEF MadeUpTo
    <3>2. PostingTable[b][j].product = p
      BY <2>5, <3>1 DEF MadeBy
    <3>3. ~(j \in 1 .. k - 1) /\ ~(k \in 1 .. j - 1)
      BY <2>2, <2>3, <3>1, <3>2 DEF FirstOfProduct
    <3>4. j = k
      <4>1. Len(PostingTable[b]) \in Nat
        BY BodyAssumption, LenProperties DEF PostingTable
      <4> QED
        BY <3>3, <4>1
    <3> QED
      BY <2>2, <3>1, <3>4
  <2>6. {x \in made : x.product = p} = {m}
    BY <2>1, <2>5
  <2>7. FieldSum("quantity", {m}) = m.quantity
    BY <2>4, FieldSumSingle
  <2> QED
    BY <2>4, <2>6, <2>7
<1> QED
  BY <1>1, <1>2

(***************************************************************************)
(* A document and its postings stand or fall together: answered 201, a     *)
(* bill has received what its lines add up to, and a tax invoice has       *)
(* issued the first line of each product; otherwise none is in the ledger. *)
(***************************************************************************)
THEOREM DocumentsPostAsOne == Spec => []PostingsComplete
<1>1. Init => DocumentsMade
  <2>1. \A m \in OpeningMovements : m.reference[1] = "OPENING"
    BY DEF OpeningMovements
  <2> QED
    BY <2>1 DEF Init, DocumentsMade, Posted, Reference, Adjustment, AtPosting
<1>2. IInv /\ DocumentsMade => PostingsComplete
  <2> SUFFICES ASSUME IInv, DocumentsMade, NEW r \in Request, ~Adjustment(r), NEW p \in Product
               PROVE  FieldSum("quantity", {m \in Posted(r) : m.product = p}) =
                        IF pc[r] = "done" THEN Owed(body[r], p) ELSE 0
    BY DEF PostingsComplete, QuantityPosted, FieldSum, Adjustment
  <2>1. CASE pc[r] = "done"
    <3>1. body[r] \in Body /\ body[r].type # "ADJUSTMENT"
      BY DEF Adjustment, IInv, TypeOK
    <3>2. MadeUpTo(body[r], r, Posted(r), Len(PostingTable[body[r]]))
      BY <2>1 DEF DocumentsMade, PostingsOf
    <3>3. FieldSum("quantity", {m \in Posted(r) : m.product = p}) = Owed(body[r], p)
      BY <3>1, <3>2, MadeIsOwed
    <3> QED
      BY <2>1, <3>3
  <2>2. CASE pc[r] # "done"
    <3>1. {m \in Posted(r) : m.product = p} = {}
      BY <2>2 DEF DocumentsMade
    <3> QED
      BY <2>2, <3>1, FieldSumEmpty
  <2> QED
    BY <2>1, <2>2
<1> QED
  BY <1>1, <1>2, DocumentsInductive, InvariantHolds, PTL DEF Spec

(***************************************************************************)
(* A COMMIT that recorded something is one posting of the abstract ledger; *)
(* one that recorded nothing changes no balance.                           *)
(***************************************************************************)
LEMMA CommitPosts ==
  ASSUME IInv, NEW r \in Request, Commit(r), inserted[r] # {}
  PROVE  Abstract!Post
<1>1. /\ stockBalance' = [c \in Cell |-> stockBalance[c] + delta[r][c]]
      /\ stockMovement' = stockMovement \cup inserted[r]
      /\ pc[r] = "commit"
  BY DEF Commit
<1>2. TypeOK /\ DeltaExplained /\ SlotsApart /\ CommitsCovered /\ PendingKeepsReference
  BY DEF IInv
<1>3. stockMovement' \ stockMovement = inserted[r]
  <2>1. \A m \in inserted[r] : m \notin stockMovement
    BY <1>2 DEF SlotsApart, Abstract!SameSlot
  <2> QED
    BY <1>1, <2>1
<1>4. \E ref \in {m.reference : m \in inserted[r]} : \A m \in inserted[r] : m.reference = ref
  BY <1>2 DEF PendingKeepsReference
<1>5. \A m \in inserted[r] : \A n \in stockMovement' : Abstract!SameSlot(m, n) => m = n
  BY <1>1, <1>2 DEF SlotsApart
<1>6. stockBalance' \in [Cell -> Nat]
  <2>1. \A c \in Cell : stockBalance[c] + delta[r][c] \in Nat
    BY <1>2 DEF TypeOK, CommitsCovered
  <2> QED
    BY <1>1, <2>1
<1>7. ASSUME NEW c \in Cell
      PROVE  Abstract!Explains(inserted[r], c, stockBalance'[c] - stockBalance[c])
  <2>1. stockBalance[c] \in Int /\ delta[r][c] \in Int
    BY <1>2 DEF TypeOK
  <2>2. stockBalance'[c] - stockBalance[c] = delta[r][c]
    BY <1>1, <2>1
  <2>3. Abstract!Explains(Pending(r), c, delta[r][c])
    BY <1>2 DEF DeltaExplained
  <2> QED
    BY <1>1, <2>2, <2>3 DEF Pending
<1> QED
  BY <1>1, <1>3, <1>4, <1>5, <1>6, <1>7 DEF Abstract!Post, Abstract!Cell, Cell

(***************************************************************************)
(* A commit that recorded nothing changes nothing.                         *)
(***************************************************************************)
LEMMA EmptyCommitStutters ==
  ASSUME IInv, NEW r \in Request, Commit(r), inserted[r] = {}
  PROVE  UNCHANGED <<stockBalance, stockMovement>>
<1>1. /\ stockBalance' = [c \in Cell |-> stockBalance[c] + delta[r][c]]
      /\ stockMovement' = stockMovement
      /\ pc[r] = "commit"
  BY DEF Commit
<1>2. Pending(r) = {}
  BY <1>1 DEF Pending
<1>3. \A c \in Cell : delta[r][c] = 0 /\ stockBalance[c] \in Int
  BY <1>2 DEF IInv, DeltaExplained, Abstract!Explains, TypeOK
<1>4. stockBalance \in [Cell -> Int]
  BY DEF IInv, TypeOK
<1> QED
  BY <1>1, <1>3, <1>4

(***************************************************************************)
(* The statement-by-statement transactions implement the atomic ledger.    *)
(***************************************************************************)
THEOREM ImplementsAtomicLedger == Spec => ImplementsLedger
<1>1. Init => Abstract!Init
  BY OpeningExplains
<1>2. IInv /\ [Next]_vars => [Abstract!Next]_<<stockBalance, stockMovement>>
  <2> SUFFICES ASSUME IInv, [Next]_vars
               PROVE  [Abstract!Next]_<<stockBalance, stockMovement>>
    OBVIOUS
  <2>1. ASSUME NEW r \in Request, Commit(r)
        PROVE  [Abstract!Next]_<<stockBalance, stockMovement>>
    BY <2>1, CommitPosts, EmptyCommitStutters DEF Abstract!Next
  <2>2. ASSUME NEW r \in Request, Refuse(r)
        PROVE  UNCHANGED <<stockBalance, stockMovement>>
    BY <2>2, RefuseRollsBack DEF Rollback, tables
  <2>3. ASSUME NEW r \in Request,
               \/ Submit(r) \/ ClaimNumber(r) \/ InsertItem(r) \/ ReadWarehouse(r)
               \/ LockProduct(r) \/ FindMovement(r) \/ TakeOut(r) \/ PutIn(r)
               \/ InsertMovement(r)
        PROVE  UNCHANGED <<stockBalance, stockMovement>>
    BY <2>3 DEF Submit, ClaimNumber, InsertItem, ReadWarehouse, LockProduct, FindMovement,
         TakeOut, PutIn, ApplyChange, InsertMovement, tables
  <2>4. ASSUME NEW w \in Warehouse, SetActive(w)
        PROVE  UNCHANGED <<stockBalance, stockMovement>>
    BY <2>4 DEF SetActive, tables
  <2>5. CASE UNCHANGED vars
    BY <2>5 DEF vars, tables
  <2> QED
    BY <2>1, <2>2, <2>3, <2>4, <2>5 DEF Next, Advance, Refuse
<1> QED
  BY <1>1, <1>2, InvariantHolds, PTL DEF Spec, ImplementsLedger, Abstract!Spec
================================================================================
