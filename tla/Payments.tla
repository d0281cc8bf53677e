------------------------------- MODULE Payments -------------------------------
(***************************************************************************)
(* Recording payments: createPayment (server/paymentService.ts) behind     *)
(* POST /api/payments, for one organization.  A payment received settles   *)
(* an invoice, a payment made settles a purchase bill, if it names one.    *)
(*                                                                         *)
(* One action is one SQL statement of the transaction.  What a transaction *)
(* has written is visible to the others only after Commit; it follows from *)
(* the statement it has reached: from "receipt" on it has raised the       *)
(* document's amountPaid, from "insert" on it has raised receiptNextSeq,   *)
(* at "commit" it has inserted the payment.  A retry, or a second click,   *)
(* is another request with the same body.                                  *)
(***************************************************************************)
EXTENDS RowLocks, FiniteSets, FiniteSetsExt

CONSTANTS
  Request,
  Document,     \* the organization's invoices and purchase bills
  NoDocument,   \* what a payment settles that names no document
  NoKey,        \* the idempotencyKey of a request that sends none
  GrandTotal,   \* what each document amounts to
  Body          \* the request bodies clients may send

ASSUME RequestAssumption == Nobody \notin Request
ASSUME DocumentAssumption == NoDocument \notin Document
ASSUME TotalAssumption == GrandTotal \in [Document -> Nat]
ASSUME BodyAssumption ==
  \A b \in Body :
    /\ b.direction \in {"RECEIVED", "PAID"}
    /\ b.invoice \in Document \cup {NoDocument}
    /\ b.purchase \in Document \cup {NoDocument}
    /\ b.amount \in Int
    /\ b.ours \in BOOLEAN

VARIABLES
  body,             \* the body of each request
  pc,               \* the statement each request executes next
  number,           \* the receipt number it has claimed
  amountPaid,       \* committed Invoice.amountPaid and Purchase.amountPaid
  payments,         \* committed Payment rows
  receiptNextSeq,   \* committed Organization.receiptNextSeq
  rowLock,          \* the transaction that has updated each document
  orgLock           \* the transaction that has updated the Organization row

tables == <<amountPaid, payments, receiptNextSeq>>
locks  == <<rowLock, orgLock>>
vars   == <<body, pc, number, tables, locks>>

Statements == {"key", "parties", "document", "receipt", "insert", "commit"}
Answers == {"created", "replayed", "invalid", "overpaid", "failed"}

InTransaction(r) == pc[r] \in Statements

(***************************************************************************)
(* An invoiceId counts when money is received, a purchaseId when it is     *)
(* paid; a payment in the other direction is recorded but settles nothing. *)
(***************************************************************************)
Settled(b) == IF b.direction = "RECEIVED" THEN b.invoice ELSE b.purchase

Target(r)      == Settled(body[r])
Outstanding(d) == GrandTotal[d] - amountPaid[d]

KeyUsed(key) == key # NoKey /\ \E m \in payments : m.key = key

PaymentOf(r) ==
  [id |-> r, key |-> body[r].key, sequence |-> number[r], settles |-> Target(r),
   amount |-> body[r].amount]

--------------------------------------------------------------------------------
GoTo(r, statement) == pc' = [pc EXCEPT ![r] = statement]

ReleaseLocks(r) ==
  /\ rowLock' = [d \in Document |-> IF rowLock[d] = r THEN Nobody ELSE rowLock[d]]
  /\ orgLock' = IF orgLock = r THEN Nobody ELSE orgLock

(***************************************************************************)
(* The transaction ends without a trace and the client gets the answer.    *)
(***************************************************************************)
Rollback(r, answer) ==
  /\ GoTo(r, answer)
  /\ ReleaseLocks(r)
  /\ UNCHANGED <<body, number, tables>>

(***************************************************************************)
(* The request arrives; an amount that is not positive goes no further.    *)
(***************************************************************************)
Submit(r) ==
  /\ pc[r] = "idle"
  /\ GoTo(r, IF body[r].amount > 0 THEN "key" ELSE "invalid")
  /\ UNCHANGED <<body, number, tables, locks>>

(***************************************************************************)
(* payment.findUnique by key: a payment already recorded is the answer.    *)
(***************************************************************************)
FindPayment(r) ==
  /\ pc[r] = "key"
  /\ GoTo(r, IF KeyUsed(body[r].key) THEN "replayed" ELSE "parties")
  /\ UNCHANGED <<body, number, tables, locks>>

(***************************************************************************)
(* The customer, the supplier and the document must be the organization's. *)
(***************************************************************************)
CheckParties(r) ==
  /\ pc[r] = "parties"
  /\ body[r].ours
  /\ GoTo(r, IF Target(r) = NoDocument THEN "receipt" ELSE "document")
  /\ UNCHANGED <<body, number, tables, locks>>

RefuseParties(r) ==
  /\ pc[r] = "parties"
  /\ ~body[r].ours
  /\ Rollback(r, "failed")

(***************************************************************************)
(* UPDATE ... SET "amountPaid" = "amountPaid" + amount WHERE "grandTotal"  *)
(* - "amountPaid" >= amount.  The row must fit as committed; while another *)
(* transaction has it locked the UPDATE waits and is then judged again.    *)
(***************************************************************************)
(* Faulty variant: the outstanding amount was read before the row is locked. *)
SettleUnchecked(r) ==
  /\ pc[r] = "document"
  /\ MayHold(rowLock[Target(r)], r)
  /\ rowLock' = [rowLock EXCEPT ![Target(r)] = r]
  /\ GoTo(r, "receipt")
  /\ UNCHANGED <<body, number, tables, orgLock>>

(* Faulty variant: the UPDATE runs on prisma, outside the transaction.       *)
SettleOutside(r) ==
  /\ pc[r] = "document"
  /\ Outstanding(Target(r)) >= body[r].amount
  /\ MayHold(rowLock[Target(r)], r)
  /\ amountPaid' = [amountPaid EXCEPT ![Target(r)] = @ + body[r].amount]
  /\ GoTo(r, "receipt")
  /\ UNCHANGED <<body, number, payments, receiptNextSeq, locks>>

SettleDocument(r) ==
  /\ pc[r] = "document"
  /\ Outstanding(Target(r)) >= body[r].amount
  /\ MayHold(rowLock[Target(r)], r)
  /\ rowLock' = [rowLock EXCEPT ![Target(r)] = r]
  /\ GoTo(r, "receipt")
  /\ UNCHANGED <<body, number, tables, orgLock>>

(* Faulty variant: what other transactions have not committed counts too.    *)
RefuseOverpaymentEagerly(r) ==
  /\ pc[r] = "document"
  /\ \/ Outstanding(Target(r)) < body[r].amount
     \/ ~MayHold(rowLock[Target(r)], r)
  /\ Rollback(r, "overpaid")

(* Faulty variant: that the UPDATE matched no row goes unnoticed, and the    *)
(* handler never answers.                                                    *)
RefuseOverpaymentSilently(r) ==
  /\ pc[r] = "document"
  /\ Outstanding(Target(r)) < body[r].amount
  /\ UNCHANGED vars

RefuseOverpayment(r) ==
  /\ pc[r] = "document"
  /\ Outstanding(Target(r)) < body[r].amount
  /\ Rollback(r, "overpaid")

(***************************************************************************)
(* organization.update { receiptNextSeq: increment 1 }: the number is the  *)
(* value before the increment, and the row stays locked to the end.        *)
(***************************************************************************)
(* Faulty variant: the number is read without keeping the row locked.        *)
ClaimReceiptUnlocked(r) ==
  /\ pc[r] = "receipt"
  /\ MayHold(orgLock, r)
  /\ number' = [number EXCEPT ![r] = receiptNextSeq]
  /\ GoTo(r, "insert")
  /\ UNCHANGED <<body, tables, locks>>

ClaimReceipt(r) ==
  /\ pc[r] = "receipt"
  /\ MayHold(orgLock, r)
  /\ orgLock' = r
  /\ number' = [number EXCEPT ![r] = receiptNextSeq]
  /\ GoTo(r, "insert")
  /\ UNCHANGED <<body, tables, rowLock>>

(***************************************************************************)
(* payment.create: the unique index on idempotencyKey refuses a key that   *)
(* another request has used since this one looked.                         *)
(***************************************************************************)
(* Faulty variant: no unique index on idempotencyKey.                        *)
InsertPaymentAnyKey(r) ==
  /\ pc[r] = "insert"
  /\ GoTo(r, "commit")
  /\ UNCHANGED <<body, number, tables, locks>>

InsertPayment(r) ==
  /\ pc[r] = "insert"
  /\ ~KeyUsed(body[r].key)
  /\ GoTo(r, "commit")
  /\ UNCHANGED <<body, number, tables, locks>>

RefuseKey(r) ==
  /\ pc[r] = "insert"
  /\ KeyUsed(body[r].key)
  /\ Rollback(r, "failed")

(* Faulty variant: the payment is kept when raising amountPaid is not.       *)
CommitPaymentOnly(r) ==
  /\ pc[r] = "commit"
  /\ payments' = payments \cup {PaymentOf(r)}
  /\ receiptNextSeq' = number[r] + 1
  /\ GoTo(r, "created")
  /\ ReleaseLocks(r)
  /\ UNCHANGED <<body, number, amountPaid>>

Commit(r) ==
  /\ pc[r] = "commit"
  /\ amountPaid' = [d \in Document |->
                      amountPaid[d] + (IF d = Target(r) THEN body[r].amount ELSE 0)]
  /\ payments' = payments \cup {PaymentOf(r)}
  /\ receiptNextSeq' = number[r] + 1
  /\ GoTo(r, "created")
  /\ ReleaseLocks(r)
  /\ UNCHANGED <<body, number>>

(***************************************************************************)
(* A transaction may die at any statement: Prisma's timeout, a lost        *)
(* connection, the process stopping.                                       *)
(***************************************************************************)
Timeout(r) ==
  /\ InTransaction(r)
  /\ Rollback(r, "failed")

--------------------------------------------------------------------------------
Init ==
  /\ body \in [Request -> Body]
  /\ pc = [r \in Request |-> "idle"]
  /\ number = [r \in Request |-> 0]
  /\ amountPaid = [d \in Document |-> 0]
  /\ payments = {}
  /\ receiptNextSeq = 1
  /\ rowLock = [d \in Document |-> Nobody]
  /\ orgLock = Nobody

Advance(r) ==
  \/ FindPayment(r)
  \/ CheckParties(r)
  \/ RefuseParties(r)
  \/ SettleDocument(r)
  \/ RefuseOverpayment(r)
  \/ ClaimReceipt(r)
  \/ InsertPayment(r)
  \/ RefuseKey(r)
  \/ Commit(r)

Next == \E r \in Request : Submit(r) \/ Advance(r) \/ Timeout(r)

Spec == Init /\ [][Next]_vars

(***************************************************************************)
(* The server keeps executing; clients need not submit, and nothing needs  *)
(* to time out.                                                            *)
(***************************************************************************)
FairSpec == Spec /\ \A r \in Request : WF_vars(Advance(r))

--------------------------------------------------------------------------------
Payment ==
  [id : Request, key : {b.key : b \in Body}, sequence : Nat \ {0},
   settles : Document \cup {NoDocument}, amount : Int]

(***************************************************************************)
(* Every variable has its type.                                            *)
(***************************************************************************)
TypeOK ==
  /\ body \in [Request -> Body]
  /\ pc \in [Request -> {"idle"} \cup Statements \cup Answers]
  /\ number \in [Request -> Nat]
  /\ amountPaid \in [Document -> Int]
  /\ payments \subseteq Payment
  /\ receiptNextSeq \in Nat \ {0}
  /\ rowLock \in [Document -> Request \cup {Nobody}]
  /\ orgLock \in Request \cup {Nobody}

(***************************************************************************)
(* "Overpayment not allowed": however many payments of one document race,  *)
(* it is never paid more than it amounts to.                               *)
(***************************************************************************)
NeverOverpaid == \A d \in Document : amountPaid[d] <= GrandTotal[d]

(***************************************************************************)
(* The amount a document shows as paid (outstanding report, invoice page)  *)
(* is the sum of the payments that settle it (receipts, dashboard).        *)
(***************************************************************************)
PaidExplained ==
  \A d \in Document :
    amountPaid[d] = SumFunction([m \in {n \in payments : n.settles = d} |-> m.amount])

(***************************************************************************)
(* Answered means recorded, exactly once: a key has one payment as soon as *)
(* one of its requests was answered 201, whether it made the payment or    *)
(* found it, and none before; a request without a key has its own.         *)
(***************************************************************************)
SameKey(q, r) == q = r \/ (body[q].key = body[r].key /\ body[r].key # NoKey)

Answered(r) == \E q \in Request : SameKey(q, r) /\ pc[q] \in {"created", "replayed"}

RecordedOnce ==
  \A r \in Request :
    Cardinality({m \in payments : SameKey(m.id, r)}) = IF Answered(r) THEN 1 ELSE 0

(***************************************************************************)
(* A refusal for overpayment stays right: the payment did not fit, whatever*)
(* became of the transactions running at the time.                         *)
(***************************************************************************)
RefusalJustified ==
  \A r \in Request : pc[r] = "overpaid" => Outstanding(Target(r)) < body[r].amount

(***************************************************************************)
(* Receipts are numbered 1, 2, 3, ... with no gap and no number twice,     *)
(* although transactions that claimed a number fail.                       *)
(***************************************************************************)
ReceiptsGapless ==
  /\ {m.sequence : m \in payments} = 1..(receiptNextSeq - 1)
  /\ \A m, n \in payments : m.sequence = n.sequence => m = n

(***************************************************************************)
(* Whenever amounts paid change, one payment is recorded in the same step, *)
(* and it accounts for the change.                                         *)
(***************************************************************************)
PaidWithReceipt ==
  [][ \E m \in payments' \ payments :
        /\ payments' = payments \cup {m}
        /\ amountPaid' = [d \in Document |->
                            amountPaid[d] + (IF d = m.settles THEN m.amount ELSE 0)]
    ]_<<amountPaid, payments>>

(***************************************************************************)
(* The receipt book, and the claim that the transactions implement it.     *)
(***************************************************************************)
Receipts == INSTANCE NumberedBook WITH
  Series  <- {"RECEIPT"},
  entries <- {[series |-> "RECEIPT", sequence |-> m.sequence, key |-> m.key] : m \in payments},
  nextSeq <- [s \in {"RECEIPT"} |-> receiptNextSeq]

ImplementsReceipts == Receipts!Spec

(***************************************************************************)
(* Every submitted request is answered, whichever locks it waits for.      *)
(***************************************************************************)
EveryRequestAnswered == \A r \in Request : InTransaction(r) ~> pc[r] \in Answers

(***************************************************************************)
(* The inductive invariant.  From the UPDATE of its document on, a         *)
(* transaction owns the row and the payment fits; from the UPDATE of the   *)
(* Organization on, it owns that row and its number is the next; from the  *)
(* INSERT on, its key is unused.                                           *)
(***************************************************************************)
RowHeld ==
  \A r \in Request : pc[r] \in {"receipt", "insert", "commit"} /\ Target(r) # NoDocument =>
    /\ rowLock[Target(r)] = r
    /\ Outstanding(Target(r)) >= body[r].amount

NumberHeld ==
  \A r \in Request : pc[r] \in {"insert", "commit"} =>
    orgLock = r /\ number[r] = receiptNextSeq

KeyHeld == \A r \in Request : pc[r] = "commit" => ~KeyUsed(body[r].key)

AtDocument ==
  \A r \in Request :
    /\ pc[r] \in {"document", "overpaid"} => Target(r) # NoDocument
    /\ pc[r] \in Statements => body[r].amount > 0

OneEntryPerKey ==
  \A m, n \in payments : m.key = n.key /\ m.key # NoKey => m = n

IInv ==
  /\ TypeOK
  /\ AtDocument
  /\ RowHeld
  /\ NumberHeld
  /\ KeyHeld
  /\ OneEntryPerKey
  /\ ReceiptsGapless
  /\ NeverOverpaid
================================================================================
