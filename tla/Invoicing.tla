------------------------------ MODULE Invoicing ------------------------------
(***************************************************************************)
(* Issuing sales documents for one organization: createInvoice             *)
(* (server/invoiceService.ts) and the three routes that call it:           *)
(*                                                                         *)
(*   create     POST /api/invoices, any type, with the client's key;       *)
(*   convert    POST /api/invoices/[id]/convert, a quotation becomes a tax *)
(*              invoice, all in one transaction, under a fresh key;        *)
(*   duplicate  POST /api/invoices/[id]/duplicate, the same again, under a *)
(*              fresh key.                                                 *)
(*                                                                         *)
(* One action is one SQL statement.  What a transaction has written is     *)
(* visible to the others only after Commit, and follows from the statement *)
(* it has reached.  The stock a tax invoice issues is in StockLedger; here *)
(* it either can be issued or cannot.  A document has the id of the        *)
(* request that makes it.                                                  *)
(***************************************************************************)
EXTENDS RowLocks, FiniteSets, FiniteSetsExt

CONSTANTS
  Request,
  Quotation,    \* quotations issued before the behaviour starts
  NoDocument,   \* linkedInvoiceId of a document that has none
  Key, NoKey,   \* idempotency keys of clients; NoKey for the opening quotations
  Body          \* the requests clients may send

Document == Quotation \cup Request

DocumentType == {"TAX_INVOICE", "QUOTATION", "DELIVERY_CHALLAN", "CREDIT_NOTE", "DEBIT_NOTE",
                 "SALES_RETURN", "BILL_OF_SUPPLY"}

ASSUME RequestAssumption == Nobody \notin Request
ASSUME DocumentAssumption ==
  /\ Quotation \cap Request = {}
  /\ NoDocument \notin Document
  /\ IsFiniteSet(Quotation)
ASSUME KeyAssumption == Key \cap Request = {} /\ NoKey \notin Key \cup Request
ASSUME BodyAssumption ==
  \A b \in Body :
    /\ b.kind \in {"create", "convert", "duplicate"}
    /\ b.kind = "create" => b.key \in Key /\ b.type \in DocumentType /\ b.ours \in BOOLEAN
    /\ b.kind # "create" => b.target \in Document

VARIABLES
  body,        \* the body of each request
  pc,          \* the statement each request executes next
  type,        \* the type of the document it makes
  number,      \* the number it has claimed
  documents,   \* committed Invoice rows, as far as they never change
  status,      \* committed Invoice.status
  linked,      \* committed Invoice.linkedInvoiceId
  nextSeq,     \* committed invoiceNextSeq, quotationNextSeq, challanNextSeq
  orgLock      \* the transaction that has updated the Organization row

tables == <<documents, status, linked, nextSeq>>
vars   == <<body, pc, type, number, tables, orgLock>>

Statements == {"quotation", "original", "key", "lookup", "number", "insert", "stock", "mark",
               "commit"}
Answers == {"created", "replayed", "refused", "failed"}

InProgress(r) == pc[r] \in Statements

(***************************************************************************)
(* Every type but two is numbered in the invoice series.                   *)
(***************************************************************************)
Series == {"INVOICE", "QUOTATION", "DELIVERY_CHALLAN"}

SeriesOf(t) == IF t \in {"QUOTATION", "DELIVERY_CHALLAN"} THEN t ELSE "INVOICE"

Row(id) == {m \in documents : m.id = id}

KeyOf(r) == IF body[r].kind = "create" THEN body[r].key ELSE r

KeyUsed(key) == \E m \in documents : m.key = key

DocumentOf(r) ==
  [id |-> r, type |-> type[r], series |-> SeriesOf(type[r]), sequence |-> number[r],
   key |-> KeyOf(r)]

--------------------------------------------------------------------------------
GoTo(r, statement) == pc' = [pc EXCEPT ![r] = statement]

ReleaseLock(r) == orgLock' = IF orgLock = r THEN Nobody ELSE orgLock

Rollback(r, answer) ==
  /\ GoTo(r, answer)
  /\ ReleaseLock(r)
  /\ UNCHANGED <<body, type, number, tables>>

(***************************************************************************)
(* A request arrives.                                                      *)
(***************************************************************************)
Submit(r) ==
  /\ pc[r] = "idle"
  /\ GoTo(r, IF body[r].kind = "create" THEN "key"
             ELSE IF body[r].kind = "convert" THEN "quotation" ELSE "original")
  /\ type' = [type EXCEPT ![r] = IF body[r].kind = "create" THEN body[r].type ELSE "TAX_INVOICE"]
  /\ UNCHANGED <<body, number, tables, orgLock>>

(***************************************************************************)
(* The conversion reads the quotation without locking it, and refuses what *)
(* is no quotation or is already converted.                                *)
(***************************************************************************)
Convertible(id) ==
  /\ \E m \in Row(id) : m.type = "QUOTATION"
  /\ status[id] # "CONVERTED"
  /\ linked[id] = NoDocument

ReadQuotation(r) ==
  /\ pc[r] = "quotation"
  /\ Convertible(body[r].target)
  /\ GoTo(r, "key")
  /\ UNCHANGED <<body, type, number, tables, orgLock>>

RefuseQuotation(r) ==
  /\ pc[r] = "quotation"
  /\ ~Convertible(body[r].target)
  /\ Rollback(r, "refused")

(***************************************************************************)
(* A duplicate takes the type of its original.                             *)
(***************************************************************************)
ReadOriginal(r) ==
  /\ pc[r] = "original"
  /\ \E m \in Row(body[r].target) : type' = [type EXCEPT ![r] = m.type]
  /\ GoTo(r, "key")
  /\ UNCHANGED <<body, number, tables, orgLock>>

RefuseOriginal(r) ==
  /\ pc[r] = "original"
  /\ Row(body[r].target) = {}
  /\ Rollback(r, "refused")

(***************************************************************************)
(* createInvoice first looks for a document with the key, then reads the   *)
(* customer and the products.                                              *)
(***************************************************************************)
FindInvoice(r) ==
  /\ pc[r] = "key"
  /\ GoTo(r, IF KeyUsed(KeyOf(r)) THEN "replayed" ELSE "lookup")
  /\ UNCHANGED <<body, type, number, tables, orgLock>>

Lookup(r) ==
  /\ pc[r] = "lookup"
  /\ body[r].kind = "create" => body[r].ours
  /\ GoTo(r, "number")
  /\ UNCHANGED <<body, type, number, tables, orgLock>>

RefuseLookup(r) ==
  /\ pc[r] = "lookup"
  /\ body[r].kind = "create" /\ ~body[r].ours
  /\ Rollback(r, "failed")

(***************************************************************************)
(* organization.update { ...NextSeq: increment 1 }: the number is the      *)
(* value before, and the row stays locked until the transaction ends.      *)
(***************************************************************************)
(* Faulty variant: the row is read, and not kept locked.                     *)
ClaimNumberUnlocked(r) ==
  /\ pc[r] = "number"
  /\ MayHold(orgLock, r)
  /\ number' = [number EXCEPT ![r] = nextSeq[SeriesOf(type[r])]]
  /\ GoTo(r, "insert")
  /\ UNCHANGED <<body, type, tables, orgLock>>

ClaimNumber(r) ==
  /\ pc[r] = "number"
  /\ MayHold(orgLock, r)
  /\ orgLock' = r
  /\ number' = [number EXCEPT ![r] = nextSeq[SeriesOf(type[r])]]
  /\ GoTo(r, "insert")
  /\ UNCHANGED <<body, type, tables>>

(***************************************************************************)
(* invoice.create: the unique index on idempotencyKey refuses a key used   *)
(* since FindInvoice.  Only a tax invoice issues stock, and only a         *)
(* conversion has a quotation to mark.                                     *)
(***************************************************************************)
AfterStock(r) == IF body[r].kind = "convert" THEN "mark" ELSE "commit"

(* Faulty variant: no unique index on idempotencyKey.                        *)
InsertInvoiceAnyKey(r) ==
  /\ pc[r] = "insert"
  /\ GoTo(r, IF type[r] = "TAX_INVOICE" THEN "stock" ELSE AfterStock(r))
  /\ UNCHANGED <<body, type, number, tables, orgLock>>

InsertInvoice(r) ==
  /\ pc[r] = "insert"
  /\ ~KeyUsed(KeyOf(r))
  /\ GoTo(r, IF type[r] = "TAX_INVOICE" THEN "stock" ELSE AfterStock(r))
  /\ UNCHANGED <<body, type, number, tables, orgLock>>

(* Faulty variant: the violation is caught and the INSERT tried again.       *)
RetryKey(r) ==
  /\ pc[r] = "insert"
  /\ KeyUsed(KeyOf(r))
  /\ UNCHANGED vars

RefuseKey(r) ==
  /\ pc[r] = "insert"
  /\ KeyUsed(KeyOf(r))
  /\ Rollback(r, "failed")

IssueStock(r) ==
  /\ pc[r] = "stock"
  /\ GoTo(r, AfterStock(r))
  /\ UNCHANGED <<body, type, number, tables, orgLock>>

(***************************************************************************)
(* The stock does not suffice, or the transaction dies.                    *)
(***************************************************************************)
RefuseStock(r) ==
  /\ pc[r] = "stock"
  /\ Rollback(r, "failed")

Timeout(r) ==
  /\ InProgress(r)
  /\ Rollback(r, "failed")

(***************************************************************************)
(* invoice.update of the quotation, by id alone.                           *)
(***************************************************************************)
(* Faulty variant: the quotation is marked on prisma, outside the            *)
(* transaction.                                                              *)
MarkQuotationOutside(r) ==
  /\ pc[r] = "mark"
  /\ status' = [status EXCEPT ![body[r].target] = "CONVERTED"]
  /\ linked' = [linked EXCEPT ![body[r].target] = r]
  /\ GoTo(r, "commit")
  /\ UNCHANGED <<body, type, number, documents, nextSeq, orgLock>>

MarkQuotation(r) ==
  /\ pc[r] = "mark"
  /\ GoTo(r, "commit")
  /\ UNCHANGED <<body, type, number, tables, orgLock>>

(***************************************************************************)
(* COMMIT.  The new document is issued and linked to nothing; a conversion *)
(* leaves its quotation CONVERTED and linked to the new invoice.           *)
(***************************************************************************)
MarkOf(r) == IF body[r].kind = "convert" THEN {body[r].target} ELSE {}

Commit(r) ==
  /\ pc[r] = "commit"
  /\ documents' = documents \cup {DocumentOf(r)}
  /\ status' = [d \in Document |-> IF d \in MarkOf(r) THEN "CONVERTED"
                                   ELSE IF d = r THEN "ISSUED" ELSE status[d]]
  /\ linked' = [d \in Document |-> IF d \in MarkOf(r) THEN r ELSE linked[d]]
  /\ nextSeq' = [nextSeq EXCEPT ![SeriesOf(type[r])] = number[r] + 1]
  /\ GoTo(r, "created")
  /\ ReleaseLock(r)
  /\ UNCHANGED <<body, type, number>>

--------------------------------------------------------------------------------
(***************************************************************************)
(* The opening quotations are numbered 1, 2, ... in some order.            *)
(***************************************************************************)
Numbering(f) ==
  /\ \A n \in 1..Cardinality(Quotation) : \E q \in Quotation : f[q] = n
  /\ \A p, q \in Quotation : f[p] = f[q] => p = q

Init ==
  /\ body \in [Request -> Body]
  /\ pc = [r \in Request |-> "idle"]
  /\ type = [r \in Request |-> "TAX_INVOICE"]
  /\ number = [r \in Request |-> 0]
  /\ \E f \in [Quotation -> 1..Cardinality(Quotation)] :
       /\ Numbering(f)
       /\ documents = {[id |-> q, type |-> "QUOTATION", series |-> "QUOTATION",
                        sequence |-> f[q], key |-> NoKey] : q \in Quotation}
  /\ status = [d \in Document |-> IF d \in Quotation THEN "ISSUED" ELSE "DRAFT"]
  /\ linked = [d \in Document |-> NoDocument]
  /\ nextSeq = [s \in Series |-> IF s = "QUOTATION" THEN Cardinality(Quotation) + 1 ELSE 1]
  /\ orgLock = Nobody

Proceed(r) ==
  \/ ReadQuotation(r)
  \/ RefuseQuotation(r)
  \/ ReadOriginal(r)
  \/ RefuseOriginal(r)
  \/ FindInvoice(r)
  \/ Lookup(r)
  \/ RefuseLookup(r)
  \/ ClaimNumber(r)
  \/ InsertInvoice(r)
  \/ RefuseKey(r)
  \/ IssueStock(r)
  \/ MarkQuotation(r)
  \/ Commit(r)

Next == \E r \in Request : Submit(r) \/ Proceed(r) \/ RefuseStock(r) \/ Timeout(r)

Spec == Init /\ [][Next]_vars

(***************************************************************************)
(* The server keeps executing; clients need not submit, stock need not run *)
(* out and nothing needs to time out.                                      *)
(***************************************************************************)
FairSpec == Spec /\ \A r \in Request : WF_vars(Proceed(r))

(***************************************************************************)
(* Nothing goes wrong but what the requests do to each other.              *)
(***************************************************************************)
UndisturbedNext == \E r \in Request : Submit(r) \/ Proceed(r)
UndisturbedSpec == Init /\ [][UndisturbedNext]_vars

--------------------------------------------------------------------------------
DocumentRow ==
  [id : Document, type : DocumentType, series : Series, sequence : Nat \ {0},
   key : Key \cup Request \cup {NoKey}]

(***************************************************************************)
(* Every variable has its type.                                            *)
(***************************************************************************)
TypeOK ==
  /\ body \in [Request -> Body]
  /\ pc \in [Request -> {"idle"} \cup Statements \cup Answers]
  /\ type \in [Request -> DocumentType]
  /\ number \in [Request -> Nat]
  /\ documents \subseteq DocumentRow
  /\ status \in [Document -> {"DRAFT", "ISSUED", "CONVERTED"}]
  /\ linked \in [Document -> Document \cup {NoDocument}]
  /\ nextSeq \in [Series -> Nat \ {0}]
  /\ orgLock \in Request \cup {Nobody}

(***************************************************************************)
(* "Two concurrent requests can never receive the same number", and no     *)
(* number of a series is skipped, whichever transactions fail.             *)
(***************************************************************************)
NumbersGapless ==
  /\ \A s \in Series :
       {m.sequence : m \in {n \in documents : n.series = s}} = 1..(nextSeq[s] - 1)
  /\ \A m, n \in documents : m.series = n.series /\ m.sequence = n.sequence => m = n

(***************************************************************************)
(* "A retried request replays the original invoice instead of duplicating  *)
(* it": a client's key has one document as soon as one of its requests was *)
(* answered 201, and none before.                                          *)
(***************************************************************************)
Creates(r, key) == body[r].kind = "create" /\ body[r].key = key

CreatedOnce ==
  \A key \in Key :
    Cardinality({m \in documents : m.key = key}) =
      IF \E r \in Request : Creates(r, key) /\ pc[r] \in {"created", "replayed"} THEN 1 ELSE 0

(***************************************************************************)
(* Status and link agree, and they tell the truth: a document is CONVERTED *)
(* if and only if a conversion of it was answered 201, and it is then      *)
(* linked to a tax invoice that such a conversion issued.                  *)
(***************************************************************************)
ConvertedBy(r, d) == body[r].kind = "convert" /\ body[r].target = d /\ pc[r] = "created"

LinkTellsTruth ==
  \A d \in Document :
    /\ status[d] = "CONVERTED" <=> \E r \in Request : ConvertedBy(r, d)
    /\ linked[d] = NoDocument <=> ~\E r \in Request : ConvertedBy(r, d)
    /\ linked[d] # NoDocument =>
         \E r \in Request : /\ linked[d] = r
                           /\ ConvertedBy(r, d)
                           /\ \E m \in Row(r) : m.type = "TAX_INVOICE"

(***************************************************************************)
(* "Quotation has already been converted": a quotation becomes one tax     *)
(* invoice at most.                                                        *)
(***************************************************************************)
ConvertedOnce ==
  \A d \in Document : Cardinality({r \in Request : ConvertedBy(r, d)}) <= 1

(***************************************************************************)
(* "If the same key is submitted twice, the second call returns the        *)
(* original invoice": a call that fails has no original to return.         *)
(***************************************************************************)
SecondCallReplays ==
  \A r \in Request : body[r].kind = "create" /\ pc[r] = "failed" => ~KeyUsed(body[r].key)

(***************************************************************************)
(* The sales book, and the claim that the transactions implement it.       *)
(***************************************************************************)
Book == INSTANCE NumberedBook WITH entries <- documents

ImplementsBook == Book!Spec

(***************************************************************************)
(* Every submitted request is answered, though all wait for one row.       *)
(***************************************************************************)
EveryRequestAnswered == \A r \in Request : InProgress(r) ~> pc[r] \in Answers

(***************************************************************************)
(* The inductive invariant.  From ClaimNumber on, a transaction owns the   *)
(* Organization row and its number is the next of its series; from the     *)
(* INSERT on, its key is unused.  A conversion has read a document that    *)
(* exists, so it never marks the one it makes; the requests answered 201   *)
(* are the ones that have a document.                                      *)
(***************************************************************************)
NumberHeld ==
  \A r \in Request : pc[r] \in {"insert", "stock", "mark", "commit"} =>
    orgLock = r /\ number[r] = nextSeq[SeriesOf(type[r])]

KeyHeld ==
  \A r \in Request : pc[r] \in {"stock", "mark", "commit"} => ~KeyUsed(KeyOf(r))

AfterQuotation == {"key", "lookup", "number", "insert", "stock", "mark", "commit", "created"}

ConversionsRead ==
  \A r \in Request :
    /\ pc[r] = "original" => body[r].kind = "duplicate"
    /\ body[r].kind = "convert" => type[r] = "TAX_INVOICE"
    /\ body[r].kind = "convert" /\ pc[r] \in AfterQuotation => Row(body[r].target) # {}

RowsAnswered ==
  /\ \A m \in documents : m.id \in Request => pc[m.id] = "created"
  /\ \A r \in Request : pc[r] = "created" => \E m \in Row(r) : m.type = type[r]

OneDocumentPerKey == \A m, n \in documents : m.key = n.key /\ m.key # NoKey => m = n

IInv ==
  /\ TypeOK
  /\ NumberHeld
  /\ KeyHeld
  /\ ConversionsRead
  /\ RowsAnswered
  /\ OneDocumentPerKey
  /\ NumbersGapless
  /\ LinkTellsTruth
================================================================================
