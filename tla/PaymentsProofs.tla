---------------------------- MODULE PaymentsProofs ----------------------------
(***************************************************************************)
(* Proofs about Payments for any number of requests, documents, bodies and *)
(* amounts.                                                                *)
(***************************************************************************)
EXTENDS Payments, Sums, FiniteSetTheorems, TLAPS

(***************************************************************************)
(* What a request carries.                                                 *)
(***************************************************************************)
LEMMA BodyTyped ==
  ASSUME TypeOK, NEW r \in Request
  PROVE  /\ body[r] \in Body
         /\ Target(r) \in Document \cup {NoDocument}
         /\ body[r].amount \in Int
BY BodyAssumption DEF TypeOK, Target, Settled

(***************************************************************************)
(* Every refusal, and every timeout, rolls back.                           *)
(***************************************************************************)
Refuse(r) == Rollback(r, "failed") \/ RefuseOverpayment(r)

(***************************************************************************)
(* A refusal rolls back, and so does a timeout.                            *)
(***************************************************************************)
LEMMA RefuseRollsBack ==
  ASSUME NEW r \in Request,
         RefuseParties(r) \/ RefuseOverpayment(r) \/ RefuseKey(r) \/ Timeout(r)
  PROVE  Refuse(r)
BY DEF RefuseParties, RefuseOverpayment, RefuseKey, Timeout, Refuse

(***************************************************************************)
(* Releasing a lock leaves a table of locks.                               *)
(***************************************************************************)
LEMMA ReleaseTyped ==
  ASSUME TypeOK, NEW r \in Request, ReleaseLocks(r)
  PROVE  /\ rowLock' \in [Document -> Request \cup {Nobody}]
         /\ orgLock' \in Request \cup {Nobody}
<1>1. rowLock' \in [Document -> Request \cup {Nobody}]
  BY DEF TypeOK, ReleaseLocks
<1>2. orgLock' \in Request \cup {Nobody}
  BY DEF TypeOK, ReleaseLocks
<1> QED
  BY <1>1, <1>2

(***************************************************************************)
(* Every step keeps the type of every variable.                            *)
(***************************************************************************)
LEMMA TypeInductive ==
  ASSUME TypeOK, AtDocument, NumberHeld, [Next]_vars
  PROVE  TypeOK'
<1> USE DEF tables, locks
<1>1. CASE UNCHANGED vars
  BY <1>1 DEF TypeOK, vars
<1>2. ASSUME NEW r \in Request, Submit(r) \/ FindPayment(r) \/ CheckParties(r) \/ InsertPayment(r)
      PROVE  TypeOK'
  <2>1. \E s \in Statements \cup Answers : pc' = [pc EXCEPT ![r] = s]
    BY <1>2 DEF Submit, FindPayment, CheckParties, InsertPayment, GoTo, Statements, Answers
  <2>2. pc' \in [Request -> {"idle"} \cup Statements \cup Answers]
    BY <2>1 DEF TypeOK
  <2> QED
    BY <1>2, <2>2 DEF Submit, FindPayment, CheckParties, InsertPayment, TypeOK
<1>3. ASSUME NEW r \in Request, SettleDocument(r)
      PROVE  TypeOK'
  <2>1. Target(r) \in Document
    BY <1>3, BodyTyped DEF AtDocument, SettleDocument
  <2> QED
    BY <1>3, <2>1 DEF SettleDocument, TypeOK, GoTo, Statements
<1>4. ASSUME NEW r \in Request, ClaimReceipt(r)
      PROVE  TypeOK'
  BY <1>4 DEF ClaimReceipt, TypeOK, GoTo, Statements
<1>5. ASSUME NEW r \in Request, Commit(r)
      PROVE  TypeOK'
  <2>1. number[r] \in Nat \ {0}
    BY <1>5 DEF Commit, NumberHeld, TypeOK
  <2>2. PaymentOf(r) \in Payment
    BY <2>1, BodyTyped DEF PaymentOf, Payment
  <2>3. amountPaid' \in [Document -> Int]
    BY <1>5, BodyTyped DEF Commit, TypeOK
  <2>4. pc' \in [Request -> {"idle"} \cup Statements \cup Answers]
    BY <1>5 DEF Commit, TypeOK, GoTo, Answers
  <2>5. ReleaseLocks(r)
    BY <1>5 DEF Commit
  <2> QED
    BY <1>5, <2>1, <2>2, <2>3, <2>4, <2>5, ReleaseTyped DEF Commit, TypeOK
<1>6. ASSUME NEW r \in Request, Refuse(r)
      PROVE  TypeOK'
  <2>1. PICK answer \in {"failed", "overpaid"} : Rollback(r, answer)
    BY <1>6 DEF Refuse, RefuseOverpayment
  <2>2. pc' \in [Request -> {"idle"} \cup Statements \cup Answers]
    BY <2>1 DEF Rollback, TypeOK, GoTo, Answers
  <2> QED
    BY <2>1, <2>2, ReleaseTyped DEF Rollback, TypeOK
<1> QED
  BY <1>1, <1>2, <1>3, <1>4, <1>5, <1>6, RefuseRollsBack DEF Next, Advance

--------------------------------------------------------------------------------
(***************************************************************************)
(* What ending a transaction leaves to the others.                         *)
(***************************************************************************)
LEMMA OthersKeepLocks ==
  ASSUME TypeOK, NEW r \in Request, NEW q \in Request \ {r}, ReleaseLocks(r)
  PROVE  /\ \A d \in Document : rowLock[d] = q => rowLock'[d] = q
         /\ orgLock = q => orgLock' = q
BY DEF ReleaseLocks, TypeOK

(***************************************************************************)
(* The part of IInv about running transactions and the tables.             *)
(***************************************************************************)
WorkInv ==
  /\ AtDocument
  /\ RowHeld
  /\ NumberHeld
  /\ KeyHeld
  /\ OneEntryPerKey
  /\ ReceiptsGapless
  /\ NeverOverpaid

(***************************************************************************)
(* A step that changes no table keeps what is said of the tables, and what *)
(* is said of a request at rest or at a statement with nothing to say.     *)
(***************************************************************************)
LEMMA TablesKept ==
  ASSUME UNCHANGED <<body, tables>>, WorkInv
  PROVE  /\ OneEntryPerKey' /\ ReceiptsGapless' /\ NeverOverpaid'
         /\ \A q \in Request : Target(q)' = Target(q)
         /\ \A d \in Document : Outstanding(d)' = Outstanding(d)
         /\ \A q \in Request : KeyUsed(body[q].key)' = KeyUsed(body[q].key)
<1> USE DEF tables
<1>1. OneEntryPerKey' /\ ReceiptsGapless' /\ NeverOverpaid'
  BY DEF WorkInv, OneEntryPerKey, ReceiptsGapless, NeverOverpaid
<1>2. \A q \in Request : Target(q)' = Target(q)
  BY DEF Target
<1>3. \A d \in Document : Outstanding(d)' = Outstanding(d)
  BY DEF Outstanding
<1>4. \A q \in Request : KeyUsed(body[q].key)' = KeyUsed(body[q].key)
  BY DEF KeyUsed
<1> QED
  BY <1>1, <1>2, <1>3, <1>4

(***************************************************************************)
(* The statements of a transaction, and its refusals, keep the invariant.  *)
(***************************************************************************)
LEMMA StatementsKeep ==
  ASSUME TypeOK, WorkInv, NEW r \in Request,
         \/ Submit(r) \/ FindPayment(r) \/ CheckParties(r) \/ SettleDocument(r)
         \/ ClaimReceipt(r) \/ InsertPayment(r) \/ Refuse(r)
  PROVE  WorkInv'
<1> USE DEF tables, locks
<1>1. UNCHANGED <<body, tables>>
  BY DEF Submit, FindPayment, CheckParties, SettleDocument, ClaimReceipt, InsertPayment, Refuse,
     RefuseOverpayment, Rollback
<1>2. PICK s : pc' = [pc EXCEPT ![r] = s]
  BY DEF Submit, FindPayment, CheckParties, SettleDocument, ClaimReceipt, InsertPayment, Refuse,
     RefuseOverpayment, Rollback, GoTo
<1>3. pc'[r] = s /\ \A q \in Request \ {r} : pc'[q] = pc[q]
  BY <1>2 DEF TypeOK
<1>4. ASSUME NEW q \in Request \ {r}
      PROVE  /\ \A d \in Document : rowLock[d] = q => rowLock'[d] = q
             /\ orgLock = q => orgLock' = q
             /\ number'[q] = number[q]
  <2>1. CASE Refuse(r)
    BY <2>1, OthersKeepLocks DEF Refuse, RefuseOverpayment, Rollback
  <2>2. CASE Submit(r) \/ FindPayment(r) \/ CheckParties(r) \/ InsertPayment(r)
    BY <2>2 DEF Submit, FindPayment, CheckParties, InsertPayment
  <2>3. CASE SettleDocument(r)
    BY <2>3, BodyTyped, RequestAssumption DEF SettleDocument, MayHold, TypeOK
  <2>4. CASE ClaimReceipt(r)
    BY <2>4, RequestAssumption DEF ClaimReceipt, MayHold, TypeOK
  <2> QED
    BY <2>1, <2>2, <2>3, <2>4
<1>5. AtDocument'
  <2>1. s = "document" => Target(r) # NoDocument
    BY <1>3 DEF Submit, FindPayment, CheckParties, SettleDocument, ClaimReceipt, InsertPayment,
       Refuse, RefuseOverpayment, Rollback, GoTo, TypeOK
  <2>2. s = "overpaid" => Target(r) # NoDocument
    BY <1>3 DEF WorkInv, AtDocument, Submit, FindPayment, CheckParties, SettleDocument,
       ClaimReceipt, InsertPayment, Refuse, RefuseOverpayment, Rollback, GoTo, TypeOK
  <2>3. s \in Statements => body[r].amount > 0
    BY <1>3 DEF WorkInv, AtDocument, Submit, FindPayment, CheckParties, SettleDocument,
       ClaimReceipt, InsertPayment, Refuse, RefuseOverpayment, Rollback, GoTo, TypeOK, Statements
  <2> QED
    BY <1>1, <1>3, <2>1, <2>2, <2>3, TablesKept DEF WorkInv, AtDocument
<1>6. RowHeld'
  <2>1. ASSUME s \in {"receipt", "insert", "commit"}, Target(r) # NoDocument
        PROVE  rowLock'[Target(r)] = r /\ Outstanding(Target(r)) >= body[r].amount
    <3>1. Target(r) \in Document
      BY <2>1, BodyTyped
    <3> QED
      BY <1>3, <2>1, <3>1 DEF WorkInv, RowHeld, Submit, FindPayment, CheckParties,
         SettleDocument, ClaimReceipt, InsertPayment, Refuse, RefuseOverpayment, Rollback, GoTo, TypeOK
  <2>2. ASSUME NEW q \in Request \ {r}, pc[q] \in {"receipt", "insert", "commit"},
               Target(q) # NoDocument
        PROVE  rowLock'[Target(q)] = q /\ Outstanding(Target(q)) >= body[q].amount
    <3>1. Target(q) \in Document
      BY <2>2, BodyTyped
    <3> QED
      BY <1>4, <2>2, <3>1 DEF WorkInv, RowHeld
  <2>3. \A q \in Request : Target(q) # NoDocument => Outstanding(Target(q))' = Outstanding(Target(q))
    BY <1>1 DEF Outstanding, Target
  <2> QED
    BY <1>1, <1>3, <2>1, <2>2, <2>3, TablesKept DEF RowHeld
<1>7. NumberHeld'
  <2>1. s \in {"insert", "commit"} => orgLock' = r /\ number'[r] = receiptNextSeq
    BY <1>3 DEF WorkInv, NumberHeld, Submit, FindPayment, CheckParties, SettleDocument,
       ClaimReceipt, InsertPayment, Refuse, RefuseOverpayment, Rollback, GoTo, TypeOK
  <2> QED
    BY <1>1, <1>3, <1>4, <2>1 DEF WorkInv, NumberHeld
<1>8. KeyHeld'
  <2>1. s = "commit" => ~KeyUsed(body[r].key)
    BY <1>3 DEF Submit, FindPayment, CheckParties, SettleDocument, ClaimReceipt, InsertPayment,
       Refuse, RefuseOverpayment, Rollback, GoTo, TypeOK
  <2> QED
    BY <1>1, <1>3, <2>1, TablesKept DEF WorkInv, KeyHeld
<1> QED
  BY <1>1, <1>5, <1>6, <1>7, <1>8, TablesKept DEF WorkInv

(***************************************************************************)
(* COMMIT: the Organization row makes the number the next and the key      *)
(* unused, the document's row makes the amount fit.                        *)
(***************************************************************************)
LEMMA CommitKeeps ==
  ASSUME TypeOK, WorkInv, NEW r \in Request, Commit(r)
  PROVE  WorkInv'
<1>1. /\ pc[r] = "commit" /\ pc' = [pc EXCEPT ![r] = "created"]
      /\ amountPaid' = [d \in Document |->
                          amountPaid[d] + (IF d = Target(r) THEN body[r].amount ELSE 0)]
      /\ payments' = payments \cup {PaymentOf(r)}
      /\ receiptNextSeq' = number[r] + 1
      /\ ReleaseLocks(r)
      /\ UNCHANGED <<body, number>>
  BY DEF Commit, GoTo
<1>2. /\ orgLock = r /\ number[r] = receiptNextSeq /\ ~KeyUsed(body[r].key)
  BY <1>1 DEF WorkInv, NumberHeld, KeyHeld
<1>3. pc'[r] = "created" /\ \A q \in Request \ {r} : pc'[q] = pc[q]
  BY <1>1 DEF TypeOK
<1>4. \A q \in Request : Target(q)' = Target(q)
  BY <1>1 DEF Target
<1>5. \A q \in Request \ {r} : pc[q] \notin {"insert", "commit"}
  BY <1>2 DEF WorkInv, NumberHeld
<1>6. AtDocument'
  BY <1>1, <1>3, <1>4 DEF WorkInv, AtDocument, Statements
<1>7. RowHeld'
  <2>1. ASSUME NEW q \in Request \ {r}, pc[q] \in {"receipt", "insert", "commit"},
               Target(q) # NoDocument
        PROVE  rowLock'[Target(q)] = q /\ GrandTotal[Target(q)] - amountPaid'[Target(q)] >= body[q].amount
    <3>1. Target(q) \in Document /\ amountPaid[Target(q)] \in Int
      BY <2>1, BodyTyped DEF TypeOK
    <3>2. rowLock[Target(q)] = q /\ Outstanding(Target(q)) >= body[q].amount
      BY <2>1 DEF WorkInv, RowHeld
    <3>3. Target(q) # Target(r)
      BY <1>1, <3>1, <3>2, DocumentAssumption DEF WorkInv, RowHeld
    <3>4. amountPaid'[Target(q)] = amountPaid[Target(q)]
      BY <1>1, <3>1, <3>3
    <3>5. rowLock'[Target(q)] = q
      BY <1>1, <3>1, <3>2, OthersKeepLocks
    <3> QED
      BY <3>2, <3>4, <3>5 DEF Outstanding
  <2> QED
    BY <1>1, <1>3, <1>4, <2>1 DEF RowHeld, Outstanding
<1>8. NumberHeld' /\ KeyHeld'
  BY <1>3, <1>5 DEF NumberHeld, KeyHeld
<1>9. OneEntryPerKey'
  BY <1>1, <1>2 DEF WorkInv, OneEntryPerKey, KeyUsed, PaymentOf
<1>10. ReceiptsGapless'
  <2>1. /\ {m.sequence : m \in payments} = 1..(receiptNextSeq - 1)
        /\ \A m, n \in payments : m.sequence = n.sequence => m = n
        /\ receiptNextSeq \in Nat \ {0}
        /\ PaymentOf(r).sequence = receiptNextSeq
    BY <1>2 DEF WorkInv, ReceiptsGapless, TypeOK, PaymentOf
  <2>2. {m.sequence : m \in payments'} = {m.sequence : m \in payments} \cup {receiptNextSeq}
    BY <1>1, <2>1
  <2>3. {m.sequence : m \in payments'} = 1..(receiptNextSeq' - 1)
    BY <1>1, <1>2, <2>1, <2>2
  <2>4. \A m \in payments : m.sequence # receiptNextSeq
    BY <2>1
  <2>5. \A m, n \in payments' : m.sequence = n.sequence => m = n
    BY <1>1, <2>1, <2>4
  <2> QED
    BY <2>3, <2>5 DEF ReceiptsGapless
<1>11. NeverOverpaid'
  <2>1. ASSUME NEW d \in Document
        PROVE  amountPaid'[d] <= GrandTotal[d]
    <3>1. amountPaid[d] \in Int /\ GrandTotal[d] \in Int /\ amountPaid[d] <= GrandTotal[d]
      BY TotalAssumption DEF TypeOK, WorkInv, NeverOverpaid
    <3>2. CASE d = Target(r)
      <4>1. Outstanding(d) >= body[r].amount /\ body[r].amount \in Int
        BY <1>1, <3>2, BodyTyped, DocumentAssumption DEF WorkInv, RowHeld
      <4> QED
        BY <1>1, <3>1, <3>2, <4>1 DEF Outstanding
    <3>3. CASE d # Target(r)
      BY <1>1, <3>1, <3>3
    <3> QED
      BY <3>2, <3>3
  <2> QED
    BY <2>1 DEF NeverOverpaid
<1> QED
  BY <1>6, <1>7, <1>8, <1>9, <1>10, <1>11 DEF WorkInv

(***************************************************************************)
(* IInv is an invariant.                                                   *)
(***************************************************************************)
THEOREM InvariantHolds == Spec => []IInv
<1>1. Init => IInv
  <2> SUFFICES ASSUME Init
               PROVE  IInv
    OBVIOUS
  <2>1. TypeOK
    BY DEF Init, TypeOK
  <2>2. AtDocument /\ RowHeld /\ NumberHeld /\ KeyHeld /\ OneEntryPerKey
    BY DEF Init, AtDocument, RowHeld, NumberHeld, KeyHeld, OneEntryPerKey, Statements
  <2>3. ReceiptsGapless /\ NeverOverpaid
    BY TotalAssumption DEF Init, ReceiptsGapless, NeverOverpaid
  <2> QED
    BY <2>1, <2>2, <2>3 DEF IInv
<1>2. IInv /\ [Next]_vars => IInv'
  <2> SUFFICES ASSUME IInv, [Next]_vars
               PROVE  IInv'
    OBVIOUS
  <2>1. TypeOK /\ WorkInv
    BY DEF IInv, WorkInv
  <2>2. TypeOK'
    BY <2>1, TypeInductive DEF WorkInv
  <2>3. WorkInv'
    <3>1. CASE UNCHANGED vars
      BY <2>1, <3>1, TablesKept DEF WorkInv, AtDocument, RowHeld, NumberHeld, KeyHeld,
         OneEntryPerKey, ReceiptsGapless, NeverOverpaid, Target, Outstanding, KeyUsed,
         vars, tables, locks
    <3>2. ASSUME NEW r \in Request, Submit(r) \/ Advance(r) \/ Timeout(r)
          PROVE  WorkInv'
      BY <2>1, <3>2, StatementsKeep, CommitKeeps, RefuseRollsBack DEF Advance
    <3> QED
      BY <3>1, <3>2 DEF Next
  <2> QED
    BY <2>2, <2>3 DEF IInv, WorkInv
<1> QED
  BY <1>1, <1>2, PTL DEF Spec

(***************************************************************************)
(* Every variable keeps its type, whatever the instance.                   *)
(***************************************************************************)
THEOREM TypeCorrect == Spec => []TypeOK
<1>1. IInv => TypeOK
  BY DEF IInv
<1> QED
  BY <1>1, InvariantHolds, PTL

(***************************************************************************)
(* No document is ever paid more than it amounts to, however many payments *)
(* of it race.                                                             *)
(***************************************************************************)
THEOREM Overpayment == Spec => []NeverOverpaid
<1>1. IInv => NeverOverpaid
  BY DEF IInv
<1> QED
  BY <1>1, InvariantHolds, PTL

(***************************************************************************)
(* Receipts are numbered without gap and without repetition, whichever     *)
(* transactions fail.                                                      *)
(***************************************************************************)
THEOREM Gapless == Spec => []ReceiptsGapless
<1>1. IInv => ReceiptsGapless
  BY DEF IInv
<1> QED
  BY <1>1, InvariantHolds, PTL

--------------------------------------------------------------------------------
(***************************************************************************)
(* A refusal for overpayment stays right, because no amountPaid ever goes  *)
(* down.                                                                   *)
(***************************************************************************)
THEOREM Refusals == Spec => []RefusalJustified
<1>1. Init => RefusalJustified
  BY DEF Init, RefusalJustified
<1>2. IInv /\ RefusalJustified /\ [Next]_vars => RefusalJustified'
  <2> SUFFICES ASSUME IInv, RefusalJustified, [Next]_vars
               PROVE  RefusalJustified'
    OBVIOUS
  <2> USE DEF tables, locks
  <2>1. SUFFICES ASSUME NEW q \in Request, pc'[q] = "overpaid"
                 PROVE  Outstanding(Target(q))' < body'[q].amount
    BY DEF RefusalJustified
  <2>2. TypeOK /\ WorkInv
    BY DEF IInv, WorkInv
  <2>3. body' = body /\ Target(q)' = Target(q)
    <3>1. body' = body
      BY DEF Next, Advance, Submit, FindPayment, CheckParties, RefuseParties, SettleDocument,
         RefuseOverpayment, ClaimReceipt, InsertPayment, RefuseKey, Commit, Timeout, Rollback, vars
    <3> QED
      BY <3>1 DEF Target
  <2>4. CASE UNCHANGED vars
    BY <2>1, <2>3, <2>4 DEF RefusalJustified, vars, Outstanding
  <2>5. ASSUME NEW r \in Request, Commit(r)
        PROVE  Outstanding(Target(q))' < body'[q].amount
    <3>1. q # r /\ pc[q] = "overpaid"
      BY <2>1, <2>2, <2>5 DEF Commit, GoTo, TypeOK
    <3>2. /\ Target(q) \in Document /\ body[r].amount > 0
          /\ body[r].amount \in Int /\ body[q].amount \in Int
      BY <2>2, <2>5, <3>1, BodyTyped DEF WorkInv, AtDocument, Commit, Statements
    <3>3. /\ amountPaid[Target(q)] \in Int /\ GrandTotal[Target(q)] \in Int
          /\ GrandTotal[Target(q)] - amountPaid[Target(q)] < body[q].amount
      BY <2>2, <3>1, <3>2, TotalAssumption DEF TypeOK, RefusalJustified, Outstanding
    <3>4. amountPaid'[Target(q)] >= amountPaid[Target(q)] /\ amountPaid'[Target(q)] \in Int
      BY <2>5, <3>2, <3>3 DEF Commit
    <3> QED
      BY <2>3, <3>2, <3>3, <3>4 DEF Outstanding
  <2>6. ASSUME NEW r \in Request, RefuseOverpayment(r)
        PROVE  Outstanding(Target(q))' < body'[q].amount
    <3>1. amountPaid' = amountPaid
      BY <2>6 DEF RefuseOverpayment, Rollback
    <3>2. CASE q = r
      BY <2>3, <2>6, <3>1, <3>2 DEF RefuseOverpayment, Outstanding
    <3>3. CASE q # r
      <4>1. pc[q] = "overpaid"
        BY <2>1, <2>2, <2>6, <3>3 DEF RefuseOverpayment, Rollback, GoTo, TypeOK
      <4> QED
        BY <2>3, <3>1, <4>1 DEF RefusalJustified, Outstanding
    <3> QED
      BY <3>2, <3>3
  <2>7. ASSUME NEW r \in Request,
               \/ Submit(r) \/ FindPayment(r) \/ CheckParties(r) \/ RefuseParties(r)
               \/ SettleDocument(r) \/ ClaimReceipt(r) \/ InsertPayment(r) \/ RefuseKey(r)
               \/ Timeout(r)
        PROVE  Outstanding(Target(q))' < body'[q].amount
    <3>1. amountPaid' = amountPaid
      BY <2>7 DEF Submit, FindPayment, CheckParties, RefuseParties, SettleDocument,
         ClaimReceipt, InsertPayment, RefuseKey, Timeout, Rollback
    <3>2. pc[q] = "overpaid"
      BY <2>1, <2>2, <2>7 DEF Submit, FindPayment, CheckParties, RefuseParties, SettleDocument,
         ClaimReceipt, InsertPayment, RefuseKey, Timeout, Rollback, GoTo, TypeOK
    <3> QED
      BY <2>3, <3>1, <3>2 DEF RefusalJustified, Outstanding
  <2> QED
    BY <2>4, <2>5, <2>6, <2>7 DEF Next, Advance
<1> QED
  BY <1>1, <1>2, InvariantHolds, PTL DEF Spec

(***************************************************************************)
(* amountPaid changes only together with a payment that accounts for it.   *)
(***************************************************************************)
THEOREM EveryChangePaid == Spec => PaidWithReceipt
<1> DEFINE A == \E m \in payments' \ payments :
                  /\ payments' = payments \cup {m}
                  /\ amountPaid' = [d \in Document |->
                                      amountPaid[d] + (IF d = m.settles THEN m.amount ELSE 0)]
<1>1. IInv /\ [Next]_vars => [A]_<<amountPaid, payments>>
  <2> SUFFICES ASSUME IInv, [Next]_vars
               PROVE  [A]_<<amountPaid, payments>>
    OBVIOUS
  <2>1. ASSUME NEW r \in Request, Commit(r)
        PROVE  A
    <3>1. number[r] = receiptNextSeq /\ receiptNextSeq \in Nat \ {0}
      BY <2>1 DEF IInv, NumberHeld, TypeOK, Commit
    <3>2. receiptNextSeq \notin {m.sequence : m \in payments}
      BY <3>1 DEF IInv, ReceiptsGapless
    <3>3. PaymentOf(r) \in payments' \ payments
      BY <2>1, <3>1, <3>2 DEF Commit, PaymentOf
    <3> QED
      BY <2>1, <3>3 DEF Commit, PaymentOf
  <2>2. ASSUME UNCHANGED vars \/ \E r \in Request :
                 \/ Submit(r) \/ FindPayment(r) \/ CheckParties(r) \/ RefuseParties(r)
                 \/ SettleDocument(r) \/ RefuseOverpayment(r) \/ ClaimReceipt(r)
                 \/ InsertPayment(r) \/ RefuseKey(r) \/ Timeout(r)
        PROVE  UNCHANGED <<amountPaid, payments>>
    BY <2>2 DEF Submit, FindPayment, CheckParties, RefuseParties, SettleDocument,
       RefuseOverpayment, ClaimReceipt, InsertPayment, RefuseKey, Timeout, Rollback, vars, tables
  <2> QED
    BY <2>1, <2>2 DEF Next, Advance
<1> QED
  BY <1>1, InvariantHolds, PTL DEF Spec, PaidWithReceipt

(***************************************************************************)
(* The amount a document shows as paid is the sum of the payments that     *)
(* settle it: a payment is added to both in one step.                      *)
(***************************************************************************)
Settling(d) == {m \in payments : m.settles = d}

(***************************************************************************)
(* The sum of the model is a sum of a field.                               *)
(***************************************************************************)
LEMMA PaidAsTotal ==
  PaidExplained <=> \A d \in Document : amountPaid[d] = FieldSum("amount", Settling(d))
BY DEF PaidExplained, Settling, FieldSum

(***************************************************************************)
(* PaidExplained holds of every behaviour.                                 *)
(***************************************************************************)
THEOREM EveryPaymentCounts == Spec => []PaidExplained
<1> DEFINE Explained == /\ IsFiniteSet(payments)
                        /\ \A d \in Document : amountPaid[d] = FieldSum("amount", Settling(d))
           A == \E m \in payments' \ payments :
                  /\ payments' = payments \cup {m}
                  /\ amountPaid' = [d \in Document |->
                                      amountPaid[d] + (IF d = m.settles THEN m.amount ELSE 0)]
<1>1. Init => Explained
  <2> SUFFICES ASSUME Init
               PROVE  Explained
    OBVIOUS
  <2>1. payments = {} /\ \A d \in Document : amountPaid[d] = 0 /\ Settling(d) = {}
    BY DEF Init, Settling
  <2> QED
    BY <2>1, FS_EmptySet, FieldSumEmpty
<1>2. Explained /\ TypeOK /\ TypeOK' /\ [A]_<<amountPaid, payments>> => Explained'
  <2> SUFFICES ASSUME Explained, TypeOK, TypeOK', [A]_<<amountPaid, payments>>
               PROVE  Explained'
    OBVIOUS
  <2>1. CASE UNCHANGED <<amountPaid, payments>>
    BY <2>1 DEF Settling
  <2>2. CASE A
    <3>1. PICK m \in payments' \ payments :
            /\ payments' = payments \cup {m}
            /\ amountPaid' = [d \in Document |->
                                amountPaid[d] + (IF d = m.settles THEN m.amount ELSE 0)]
      BY <2>2
    <3>2. IsFiniteSet(payments')
      BY <3>1, FS_AddElement
    <3>3. \A n \in payments' : n.amount \in Int
      BY DEF TypeOK, Payment
    <3>4. ASSUME NEW d \in Document
          PROVE  amountPaid'[d] = FieldSum("amount", Settling(d)')
      <4>1. /\ IsFiniteSet(Settling(d)) /\ Settling(d) \subseteq payments
            /\ amountPaid[d] = FieldSum("amount", Settling(d))
            /\ amountPaid[d] \in Int
        BY FS_Subset DEF Settling, TypeOK
      <4>2. Summable("amount", Settling(d))
        BY <3>1, <3>3, <4>1 DEF Summable
      <4>3. CASE d = m.settles
        <5>1. Settling(d)' = Settling(d) \cup {m} /\ m \notin Settling(d)
          BY <3>1, <4>3 DEF Settling
        <5>2. FieldSum("amount", Settling(d) \cup {m}) = FieldSum("amount", Settling(d)) + m.amount
          BY <3>1, <3>3, <4>2, <5>1, FieldSumAdd
        <5> QED
          BY <3>1, <4>1, <4>3, <5>1, <5>2
      <4>4. CASE d # m.settles
        <5>1. Settling(d)' = Settling(d)
          BY <3>1, <4>4 DEF Settling
        <5> QED
          BY <3>1, <4>1, <4>4, <5>1
      <4> QED
        BY <4>3, <4>4
    <3> QED
      BY <3>2, <3>4
  <2> QED
    BY <2>1, <2>2
<1>3. Explained => PaidExplained
  BY PaidAsTotal
<1>4. Spec => [][A]_<<amountPaid, payments>>
  BY EveryChangePaid, PTL DEF PaidWithReceipt
<1> HIDE DEF Explained
<1> QED
  BY <1>1, <1>2, <1>3, <1>4, TypeCorrect, PTL DEF Spec

(***************************************************************************)
(* Which requests have a payment: those answered as created have one each, *)
(* and one answered as replayed has found one with its key.                *)
(***************************************************************************)
RequestsRecorded ==
  /\ \A m \in payments : m.key = body[m.id].key /\ pc[m.id] = "created"
  /\ \A m, n \in payments : m.id = n.id => m = n
  /\ \A r \in Request : pc[r] = "created" => \E m \in payments : m.id = r
  /\ \A r \in Request : pc[r] = "replayed" => KeyUsed(body[r].key)

(***************************************************************************)
(* Every step keeps RequestsRecorded.                                      *)
(***************************************************************************)
LEMMA RequestsRecordedInductive ==
  ASSUME TypeOK, RequestsRecorded, [Next]_vars
  PROVE  RequestsRecorded'
<1>1. CASE UNCHANGED vars
  BY <1>1 DEF RequestsRecorded, KeyUsed, vars, tables
<1>2. ASSUME NEW r \in Request, Commit(r)
      PROVE  RequestsRecorded'
  <2>1. /\ payments' = payments \cup {PaymentOf(r)} /\ body' = body
        /\ pc' = [pc EXCEPT ![r] = "created"] /\ pc[r] = "commit"
        /\ pc \in [Request -> {"idle"} \cup Statements \cup Answers]
        /\ payments \subseteq Payment
    BY <1>2 DEF Commit, GoTo, TypeOK
  <2>2. PaymentOf(r).id = r /\ PaymentOf(r).key = body[r].key
    BY DEF PaymentOf
  <2>3. \A m \in payments : m.id \in Request /\ m.id # r
    BY <2>1 DEF RequestsRecorded, Payment
  <2>4. \A q \in Request : KeyUsed(body[q].key) => KeyUsed(body[q].key)'
    BY <2>1 DEF KeyUsed
  <2> QED
    BY <2>1, <2>2, <2>3, <2>4 DEF RequestsRecorded
<1>3. ASSUME NEW r \in Request, FindPayment(r)
      PROVE  RequestsRecorded'
  BY <1>3 DEF FindPayment, GoTo, tables, RequestsRecorded, KeyUsed, TypeOK, Payment
<1>4. ASSUME NEW r \in Request,
             \/ Submit(r) \/ CheckParties(r) \/ RefuseParties(r) \/ SettleDocument(r)
             \/ RefuseOverpayment(r) \/ ClaimReceipt(r) \/ InsertPayment(r) \/ RefuseKey(r)
             \/ Timeout(r)
      PROVE  RequestsRecorded'
  <2>1. UNCHANGED <<body, payments>>
    BY <1>4 DEF Submit, CheckParties, RefuseParties, SettleDocument, RefuseOverpayment,
       ClaimReceipt, InsertPayment, RefuseKey, Timeout, Rollback, tables
  <2>2. PICK s \in {"key", "invalid", "receipt", "document", "failed", "overpaid", "insert",
                    "commit"} : pc' = [pc EXCEPT ![r] = s]
    BY <1>4 DEF Submit, CheckParties, RefuseParties, SettleDocument, RefuseOverpayment,
       ClaimReceipt, InsertPayment, RefuseKey, Timeout, Rollback, GoTo
  <2>3. pc[r] \notin {"created", "replayed"}
    BY <1>4 DEF Submit, CheckParties, RefuseParties, SettleDocument, RefuseOverpayment,
       ClaimReceipt, InsertPayment, RefuseKey, Timeout, InTransaction, Statements
  <2> QED
    BY <2>1, <2>2, <2>3 DEF RequestsRecorded, KeyUsed, TypeOK, Payment
<1> QED
  BY <1>1, <1>2, <1>3, <1>4 DEF Next, Advance

(***************************************************************************)
(* A key has exactly one payment once a request with it was answered 201,  *)
(* and none before.                                                        *)
(***************************************************************************)
THEOREM EveryAnswerRecordedOnce == Spec => []RecordedOnce
<1>1. Init => RequestsRecorded
  BY DEF Init, RequestsRecorded
<1>2. IInv /\ RequestsRecorded => RecordedOnce
  <2> SUFFICES ASSUME IInv, RequestsRecorded, NEW r \in Request
               PROVE  Cardinality({m \in payments : SameKey(m.id, r)})
                        = IF Answered(r) THEN 1 ELSE 0
    BY DEF RecordedOnce
  <2> DEFINE own == {m \in payments : SameKey(m.id, r)}
  <2>1. /\ \A m \in payments : m.id \in Request
        /\ \A m, n \in payments : m.key = n.key /\ m.key # NoKey => m = n
    BY DEF IInv, TypeOK, Payment, OneEntryPerKey
  <2>2. \A m, n \in own : m = n
    BY <2>1 DEF RequestsRecorded, SameKey
  <2>3. Answered(r) <=> own # {}
    BY <2>1 DEF Answered, RequestsRecorded, SameKey, KeyUsed
  <2>4. CASE own = {}
    BY <2>3, <2>4, FS_EmptySet
  <2>5. ASSUME NEW m \in own
        PROVE  Cardinality(own) = IF Answered(r) THEN 1 ELSE 0
    <3>1. own = {m}
      BY <2>2
    <3> HIDE DEF own
    <3> QED
      BY <2>3, <3>1, FS_Singleton
  <2> QED
    BY <2>4, <2>5
<1> QED
  BY <1>1, <1>2, RequestsRecordedInductive, InvariantHolds, PTL DEF Spec, IInv

Entry(m) == [series |-> "RECEIPT", sequence |-> m.sequence, key |-> m.key]

(***************************************************************************)
(* The transactions implement a book in which receipts are added one by    *)
(* one, each with the next number.                                         *)
(***************************************************************************)
THEOREM ImplementsReceiptBook == Spec => ImplementsReceipts
<1>1. Init => Receipts!Init
  BY DEF Init, Receipts!Init
<1>2. IInv /\ [Next]_vars =>
        [Receipts!Next]_<<{Entry(m) : m \in payments}, [s \in {"RECEIPT"} |-> receiptNextSeq]>>
  <2> SUFFICES ASSUME IInv, [Next]_vars
               PROVE  [Receipts!Next]_<<{Entry(m) : m \in payments},
                                        [s \in {"RECEIPT"} |-> receiptNextSeq]>>
    OBVIOUS
  <2>1. ASSUME NEW r \in Request, Commit(r)
        PROVE  Receipts!Next
    <3> DEFINE e == Entry(PaymentOf(r))
    <3>1. /\ number[r] = receiptNextSeq /\ ~KeyUsed(body[r].key)
          /\ payments' = payments \cup {PaymentOf(r)} /\ receiptNextSeq' = number[r] + 1
      BY <2>1 DEF IInv, NumberHeld, KeyHeld, Commit
    <3>2. e.series = "RECEIPT" /\ e.sequence = receiptNextSeq /\ e.key = body[r].key
      BY <3>1 DEF Entry, PaymentOf
    <3>3. {Entry(m) : m \in payments'} = {Entry(m) : m \in payments} \cup {e}
      BY <3>1
    <3>4. [s \in {"RECEIPT"} |-> receiptNextSeq']
            = [[s \in {"RECEIPT"} |-> receiptNextSeq] EXCEPT !["RECEIPT"] = @ + 1]
      BY <3>1
    <3>5. Receipts!KeyFree(e.key)
      BY <3>1, <3>2 DEF Receipts!KeyFree, KeyUsed
    <3>6. Receipts!Add(e)
      BY <3>2, <3>3, <3>4, <3>5 DEF Receipts!Add, Entry
    <3>7. e \in {Entry(m) : m \in payments'}
      BY <3>1
    <3> HIDE DEF e
    <3>8. \E f \in {Entry(m) : m \in payments'} : Receipts!Add(f)
      BY <3>6, <3>7 DEF Receipts!Add
    <3> QED
      BY <3>8 DEF Receipts!Next, Receipts!Add, Entry
  <2>2. ASSUME UNCHANGED vars \/ \E r \in Request :
                 \/ Submit(r) \/ FindPayment(r) \/ CheckParties(r) \/ RefuseParties(r)
                 \/ SettleDocument(r) \/ RefuseOverpayment(r) \/ ClaimReceipt(r)
                 \/ InsertPayment(r) \/ RefuseKey(r) \/ Timeout(r)
        PROVE  UNCHANGED <<payments, receiptNextSeq>>
    BY <2>2 DEF Submit, FindPayment, CheckParties, RefuseParties, SettleDocument,
       RefuseOverpayment, ClaimReceipt, InsertPayment, RefuseKey, Timeout, Rollback, vars, tables
  <2> QED
    BY <2>1, <2>2 DEF Next, Advance
<1> QED
  BY <1>1, <1>2, InvariantHolds, PTL DEF Spec, ImplementsReceipts, Receipts!Spec, Entry
================================================================================
