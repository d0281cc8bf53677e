---------------------------- MODULE InvoicingProofs ----------------------------
(***************************************************************************)
(* Proofs about Invoicing for any number of requests, opening quotations,  *)
(* keys and bodies.                                                        *)
(***************************************************************************)
EXTENDS Invoicing, FiniteSetTheorems, TLAPS

(***************************************************************************)
(* The steps of a running request that write nothing, and the refusals.    *)
(***************************************************************************)
Walk(r) ==
  \/ Submit(r) \/ ReadQuotation(r) \/ ReadOriginal(r) \/ FindInvoice(r) \/ Lookup(r)
  \/ ClaimNumber(r) \/ InsertInvoice(r) \/ IssueStock(r) \/ MarkQuotation(r)

Refuse(r) == pc[r] \in Statements /\ \E answer \in {"failed", "refused"} : Rollback(r, answer)

(***************************************************************************)
(* Every refusal is a rollback with one of the two answers.                *)
(***************************************************************************)
LEMMA RefuseRollsBack ==
  ASSUME NEW r \in Request,
         \/ RefuseQuotation(r) \/ RefuseOriginal(r) \/ RefuseLookup(r) \/ RefuseKey(r)
         \/ RefuseStock(r) \/ Timeout(r)
  PROVE  Refuse(r)
BY DEF RefuseQuotation, RefuseOriginal, RefuseLookup, RefuseKey, RefuseStock, Timeout, InProgress,
   Refuse, Statements

(***************************************************************************)
(* What a request of each kind carries.                                    *)
(***************************************************************************)
LEMMA BodyTyped ==
  ASSUME TypeOK, NEW r \in Request
  PROVE  /\ body[r] \in Body
         /\ body[r].kind \in {"create", "convert", "duplicate"}
         /\ body[r].kind = "create" => body[r].key \in Key /\ body[r].type \in DocumentType
         /\ body[r].kind # "create" => body[r].target \in Document
         /\ KeyOf(r) \in Key \cup Request
         /\ SeriesOf(type[r]) \in Series
BY BodyAssumption DEF TypeOK, KeyOf, SeriesOf, Series

(***************************************************************************)
(* Every step keeps the type of every variable.                            *)
(***************************************************************************)
LEMMA TypeInductive ==
  ASSUME TypeOK, NumberHeld, [Next]_vars
  PROVE  TypeOK'
<1> USE DEF tables
<1>1. CASE UNCHANGED vars
  BY <1>1 DEF TypeOK, vars
<1>2. ASSUME NEW r \in Request,
             \/ ReadQuotation(r) \/ FindInvoice(r) \/ Lookup(r) \/ InsertInvoice(r)
             \/ IssueStock(r) \/ MarkQuotation(r)
      PROVE  TypeOK'
  <2>1. \E s \in Statements \cup Answers : pc' = [pc EXCEPT ![r] = s]
    BY <1>2 DEF ReadQuotation, FindInvoice, Lookup, InsertInvoice, IssueStock, MarkQuotation,
       AfterStock, GoTo, Statements, Answers
  <2>2. pc' \in [Request -> {"idle"} \cup Statements \cup Answers]
    BY <2>1 DEF TypeOK
  <2> QED
    BY <1>2, <2>2 DEF ReadQuotation, FindInvoice, Lookup, InsertInvoice, IssueStock,
       MarkQuotation, TypeOK
<1>3. ASSUME NEW r \in Request, Submit(r) \/ ReadOriginal(r)
      PROVE  TypeOK'
  <2>1. pc' \in [Request -> {"idle"} \cup Statements \cup Answers]
    BY <1>3 DEF Submit, ReadOriginal, GoTo, Statements, TypeOK
  <2>2. type' \in [Request -> DocumentType]
    BY <1>3, BodyTyped DEF Submit, ReadOriginal, Row, DocumentRow, DocumentType, TypeOK
  <2> QED
    BY <1>3, <2>1, <2>2 DEF Submit, ReadOriginal, TypeOK
<1>4. ASSUME NEW r \in Request, ClaimNumber(r)
      PROVE  TypeOK'
  BY <1>4, BodyTyped DEF ClaimNumber, GoTo, Statements, TypeOK
<1>5. ASSUME NEW r \in Request, Commit(r)
      PROVE  TypeOK'
  <2>1. number[r] \in Nat \ {0} /\ SeriesOf(type[r]) \in Series
    BY <1>5, BodyTyped DEF Commit, NumberHeld, TypeOK
  <2>2. DocumentOf(r) \in DocumentRow
    BY <2>1, BodyTyped DEF DocumentOf, DocumentRow, TypeOK, Document
  <2>3. nextSeq' \in [Series -> Nat \ {0}]
    BY <1>5, <2>1 DEF Commit, TypeOK
  <2>4. status' \in [Document -> {"DRAFT", "ISSUED", "CONVERTED"}]
    BY <1>5 DEF Commit, TypeOK
  <2>5. linked' \in [Document -> Document \cup {NoDocument}]
    BY <1>5 DEF Commit, TypeOK, Document
  <2>6. pc' \in [Request -> {"idle"} \cup Statements \cup Answers]
    BY <1>5 DEF Commit, GoTo, Answers, TypeOK
  <2>7. orgLock' \in Request \cup {Nobody}
    BY <1>5 DEF Commit, ReleaseLock, TypeOK
  <2>8. documents' \subseteq DocumentRow
    BY <1>5, <2>2 DEF Commit, TypeOK
  <2> QED
    BY <1>5, <2>3, <2>4, <2>5, <2>6, <2>7, <2>8 DEF Commit, TypeOK
<1>6. ASSUME NEW r \in Request, Refuse(r)
      PROVE  TypeOK'
  <2>1. PICK answer \in {"failed", "refused"} : Rollback(r, answer)
    BY <1>6 DEF Refuse
  <2>2. pc' \in [Request -> {"idle"} \cup Statements \cup Answers]
    BY <2>1 DEF Rollback, TypeOK, GoTo, Answers
  <2>3. orgLock' \in Request \cup {Nobody}
    BY <2>1 DEF Rollback, ReleaseLock, TypeOK
  <2> QED
    BY <2>1, <2>2, <2>3 DEF Rollback, TypeOK
<1> QED
  BY <1>1, <1>2, <1>3, <1>4, <1>5, <1>6, RefuseRollsBack DEF Next, Proceed

--------------------------------------------------------------------------------
(***************************************************************************)
(* The part of IInv about running transactions and the tables.             *)
(***************************************************************************)
WorkInv ==
  /\ NumberHeld
  /\ KeyHeld
  /\ ConversionsRead
  /\ RowsAnswered
  /\ OneDocumentPerKey
  /\ NumbersGapless
  /\ LinkTellsTruth

(***************************************************************************)
(* What is said of the committed tables stays true while they stay the     *)
(* same.                                                                   *)
(***************************************************************************)
LEMMA TablesKept ==
  ASSUME UNCHANGED <<body, tables>>
  PROVE  /\ OneDocumentPerKey => OneDocumentPerKey'
         /\ NumbersGapless => NumbersGapless'
         /\ \A q \in Request : KeyUsed(KeyOf(q))' = KeyUsed(KeyOf(q))
         /\ \A d : Row(d)' = Row(d)
<1> USE DEF tables
<1>1. OneDocumentPerKey => OneDocumentPerKey'
  BY DEF OneDocumentPerKey
<1>2. NumbersGapless => NumbersGapless'
  BY DEF NumbersGapless
<1>3. \A q \in Request : KeyUsed(KeyOf(q))' = KeyUsed(KeyOf(q))
  BY DEF KeyUsed, KeyOf
<1>4. \A d : Row(d)' = Row(d)
  BY DEF Row
<1> QED
  BY <1>1, <1>2, <1>3, <1>4

(***************************************************************************)
(* A statement that is no COMMIT keeps everything in order.                *)
(***************************************************************************)
LEMMA StatementsKeep ==
  ASSUME TypeOK, WorkInv, NEW r \in Request, Walk(r) \/ Refuse(r)
  PROVE  WorkInv'
<1> USE DEF tables
<1>1. UNCHANGED <<body, tables>>
  BY DEF Walk, Submit, ReadQuotation, ReadOriginal, FindInvoice, Lookup, ClaimNumber,
     InsertInvoice, IssueStock, MarkQuotation, Refuse, Rollback
<1>2. PICK s : pc' = [pc EXCEPT ![r] = s]
  BY DEF Walk, Submit, ReadQuotation, ReadOriginal, FindInvoice, Lookup, ClaimNumber,
     InsertInvoice, IssueStock, MarkQuotation, Refuse, Rollback, GoTo
<1>3. pc'[r] = s /\ \A q \in Request \ {r} : pc'[q] = pc[q]
  BY <1>2 DEF TypeOK
<1>4. pc[r] # "created" /\ s # "created"
  BY <1>3 DEF Walk, Submit, ReadQuotation, ReadOriginal, FindInvoice, Lookup, ClaimNumber,
     InsertInvoice, IssueStock, MarkQuotation, AfterStock, Refuse, Rollback, GoTo, Statements,
     TypeOK
<1>5. ASSUME NEW q \in Request \ {r}
      PROVE  /\ orgLock = q => orgLock' = q
             /\ number'[q] = number[q] /\ type'[q] = type[q]
  BY <1>5, RequestAssumption DEF Walk, Submit, ReadQuotation, ReadOriginal, FindInvoice, Lookup,
     ClaimNumber, InsertInvoice, IssueStock, MarkQuotation, Refuse, Rollback, ReleaseLock,
     MayHold, TypeOK
<1>6. NumberHeld'
  <2>1. s \in {"insert", "stock", "mark", "commit"} =>
          orgLock' = r /\ number'[r] = nextSeq[SeriesOf(type'[r])]
    BY <1>3 DEF WorkInv, NumberHeld, Walk, Submit, ReadQuotation, ReadOriginal, FindInvoice,
       Lookup, ClaimNumber, InsertInvoice, IssueStock, MarkQuotation, AfterStock, Refuse,
       Rollback, GoTo, TypeOK
  <2>2. ASSUME NEW q \in Request, pc'[q] \in {"insert", "stock", "mark", "commit"}
        PROVE  orgLock' = q /\ number'[q] = nextSeq[SeriesOf(type'[q])]
    BY <1>3, <1>5, <2>1, <2>2 DEF WorkInv, NumberHeld
  <2> QED
    BY <1>1, <2>2 DEF NumberHeld, SeriesOf
<1>7. KeyHeld'
  <2>1. s \in {"stock", "mark", "commit"} => ~KeyUsed(KeyOf(r))
    BY <1>3 DEF WorkInv, KeyHeld, Walk, Submit, ReadQuotation, ReadOriginal, FindInvoice,
       Lookup, ClaimNumber, InsertInvoice, IssueStock, MarkQuotation, AfterStock, Refuse,
       Rollback, GoTo, TypeOK
  <2> QED
    BY <1>1, <1>3, <2>1, TablesKept DEF WorkInv, KeyHeld
<1>8. ConversionsRead'
  <2>1. s = "original" => body[r].kind = "duplicate"
    BY <1>3, BodyTyped DEF Walk, Submit, ReadQuotation, ReadOriginal, FindInvoice, Lookup,
       ClaimNumber, InsertInvoice, IssueStock, MarkQuotation, AfterStock, Refuse, Rollback,
       GoTo, TypeOK
  <2>2. body[r].kind = "convert" => type'[r] = "TAX_INVOICE"
    BY DEF WorkInv, ConversionsRead, Walk, Submit, ReadQuotation, ReadOriginal, FindInvoice,
       Lookup, ClaimNumber, InsertInvoice, IssueStock, MarkQuotation, Refuse, Rollback, TypeOK
  <2>3. body[r].kind = "convert" /\ s \in AfterQuotation => Row(body[r].target) # {}
    BY <1>3 DEF WorkInv, ConversionsRead, AfterQuotation, Convertible, Walk, Submit,
       ReadQuotation, ReadOriginal, FindInvoice, Lookup, ClaimNumber, InsertInvoice, IssueStock,
       MarkQuotation, AfterStock, Refuse, Rollback, GoTo, TypeOK
  <2>4. ASSUME NEW q \in Request
        PROVE  /\ pc'[q] = "original" => body[q].kind = "duplicate"
               /\ body[q].kind = "convert" => type'[q] = "TAX_INVOICE"
               /\ body[q].kind = "convert" /\ pc'[q] \in AfterQuotation => Row(body[q].target) # {}
    BY <1>3, <1>5, <2>1, <2>2, <2>3 DEF WorkInv, ConversionsRead
  <2> QED
    BY <1>1, <2>4, TablesKept DEF ConversionsRead
<1>9. RowsAnswered'
  <2>1. ASSUME NEW q \in Request, pc'[q] = "created"
        PROVE  \E m \in Row(q) : m.type = type'[q]
    BY <1>3, <1>4, <1>5, <2>1 DEF WorkInv, RowsAnswered
  <2>2. ASSUME NEW m \in documents, m.id \in Request
        PROVE  pc'[m.id] = "created"
    BY <1>3, <1>4, <2>2 DEF WorkInv, RowsAnswered
  <2> QED
    BY <1>1, <2>1, <2>2, TablesKept DEF RowsAnswered
<1>10. LinkTellsTruth'
  <2>1. \A q \in Request, d \in Document : ConvertedBy(q, d)' <=> ConvertedBy(q, d)
    BY <1>1, <1>3, <1>4 DEF ConvertedBy
  <2> QED
    BY <1>1, <2>1, TablesKept DEF WorkInv, LinkTellsTruth
<1> QED
  BY <1>1, <1>6, <1>7, <1>8, <1>9, <1>10, TablesKept DEF WorkInv

--------------------------------------------------------------------------------
(***************************************************************************)
(* COMMIT: the Organization row makes the number the next of its series    *)
(* and the key unused; the document is new, and it is not the quotation it *)
(* marks.                                                                  *)
(***************************************************************************)
LEMMA CommitKeeps ==
  ASSUME TypeOK, WorkInv, NEW r \in Request, Commit(r)
  PROVE  WorkInv'
<1>1. /\ pc[r] = "commit" /\ pc' = [pc EXCEPT ![r] = "created"]
      /\ documents' = documents \cup {DocumentOf(r)}
      /\ status' = [d \in Document |-> IF d \in MarkOf(r) THEN "CONVERTED"
                                       ELSE IF d = r THEN "ISSUED" ELSE status[d]]
      /\ linked' = [d \in Document |-> IF d \in MarkOf(r) THEN r ELSE linked[d]]
      /\ nextSeq' = [nextSeq EXCEPT ![SeriesOf(type[r])] = number[r] + 1]
      /\ UNCHANGED <<body, type, number>>
  BY DEF Commit, GoTo
<1>2. /\ orgLock = r /\ number[r] = nextSeq[SeriesOf(type[r])] /\ ~KeyUsed(KeyOf(r))
      /\ Row(r) = {}
  BY <1>1 DEF WorkInv, NumberHeld, KeyHeld, RowsAnswered, Row
<1>3. pc'[r] = "created" /\ \A q \in Request \ {r} : pc'[q] = pc[q]
  BY <1>1 DEF TypeOK
<1>4. \A q \in Request \ {r} : pc[q] \notin {"insert", "stock", "mark", "commit"}
  BY <1>2 DEF WorkInv, NumberHeld
<1>5. DocumentOf(r).id = r /\ DocumentOf(r).type = type[r] /\ DocumentOf(r).key = KeyOf(r)
      /\ DocumentOf(r).series = SeriesOf(type[r]) /\ DocumentOf(r).sequence = number[r]
  BY DEF DocumentOf
<1>6. \A d : Row(d) \subseteq Row(d)' /\ (d # r => Row(d)' = Row(d))
  BY <1>1, <1>5 DEF Row
<1>7. NumberHeld' /\ KeyHeld'
  BY <1>3, <1>4 DEF NumberHeld, KeyHeld
<1>8. ConversionsRead'
  <2>1. ASSUME NEW q \in Request, body[q].kind = "convert", pc'[q] \in AfterQuotation
        PROVE  Row(body[q].target)' # {}
    <3>1. pc[q] \in AfterQuotation
      BY <1>1, <1>3, <2>1 DEF AfterQuotation
    <3>2. PICK m : m \in Row(body[q].target)
      BY <2>1, <3>1 DEF WorkInv, ConversionsRead
    <3>3. m \in documents /\ m.id = body[q].target
      BY <3>2 DEF Row
    <3>4. m \in documents' /\ body'[q].target = body[q].target
      BY <1>1, <3>3
    <3> QED
      BY <3>3, <3>4 DEF Row
  <2> QED
    BY <1>1, <1>3, <2>1 DEF WorkInv, ConversionsRead
<1>9. RowsAnswered'
  BY <1>1, <1>3, <1>5, <1>6 DEF WorkInv, RowsAnswered, Row
<1>10. OneDocumentPerKey'
  BY <1>1, <1>2, <1>5 DEF WorkInv, OneDocumentPerKey, KeyUsed
<1>11. NumbersGapless'
  <2> DEFINE numbers(s) == {m.sequence : m \in {n \in documents : n.series = s}}
  <2>1. /\ \A s \in Series : numbers(s) = 1..(nextSeq[s] - 1)
        /\ \A m, n \in documents : m.series = n.series /\ m.sequence = n.sequence => m = n
        /\ SeriesOf(type[r]) \in Series
        /\ nextSeq \in [Series -> Nat \ {0}]
    BY BodyTyped DEF WorkInv, NumbersGapless, TypeOK
  <2>2. ASSUME NEW s \in Series
        PROVE  {m.sequence : m \in {n \in documents' : n.series = s}} = 1..(nextSeq'[s] - 1)
    <3>1. CASE s = SeriesOf(type[r])
      <4>1. {m.sequence : m \in {n \in documents' : n.series = s}} = numbers(s) \cup {nextSeq[s]}
        BY <1>1, <1>2, <1>5, <3>1
      <4>2. nextSeq'[s] = nextSeq[s] + 1
        BY <1>1, <1>2, <2>1, <3>1
      <4> QED
        BY <2>1, <4>1, <4>2
    <3>2. CASE s # SeriesOf(type[r])
      <4>1. {n \in documents' : n.series = s} = {n \in documents : n.series = s}
        BY <1>1, <1>5, <3>2
      <4>2. nextSeq'[s] = nextSeq[s]
        BY <1>1, <2>1, <3>2
      <4> QED
        BY <2>1, <4>1, <4>2
    <3> QED
      BY <3>1, <3>2
  <2>3. \A m \in documents : ~(m.series = SeriesOf(type[r]) /\ m.sequence = number[r])
    <3>1. ASSUME NEW m \in documents, m.series = SeriesOf(type[r]), m.sequence = number[r]
          PROVE  FALSE
      <4>1. number[r] \in numbers(SeriesOf(type[r]))
        BY <3>1
      <4> QED
        BY <1>2, <2>1, <4>1
    <3> QED
      BY <3>1
  <2>4. \A m, n \in documents' : m.series = n.series /\ m.sequence = n.sequence => m = n
    BY <1>1, <1>5, <2>1, <2>3
  <2> QED
    BY <2>2, <2>4 DEF NumbersGapless
<1>12. LinkTellsTruth'
  <2>1. ASSUME NEW q \in Request, NEW d \in Document
        PROVE  ConvertedBy(q, d)' <=> ConvertedBy(q, d) \/ (q = r /\ d \in MarkOf(r))
    BY <1>1, <1>3 DEF ConvertedBy, MarkOf
  <2>2. r \notin MarkOf(r)
    BY <1>1, <1>2 DEF WorkInv, ConversionsRead, AfterQuotation, MarkOf
  <2>3. \A q \in Request : ~ConvertedBy(q, r)
    <3>1. ASSUME NEW q \in Request, ConvertedBy(q, r)
          PROVE  FALSE
      BY <1>2, <3>1 DEF ConvertedBy, WorkInv, ConversionsRead, AfterQuotation
    <3> QED
      BY <3>1
  <2>4. NoDocument # r /\ r \in Document
    BY DocumentAssumption DEF Document
  <2>5. ASSUME NEW d \in Document
        PROVE  /\ status'[d] = "CONVERTED" <=> \E q \in Request : ConvertedBy(q, d)'
               /\ linked'[d] = NoDocument <=> ~\E q \in Request : ConvertedBy(q, d)'
               /\ linked'[d] # NoDocument =>
                    \E q \in Request : /\ linked'[d] = q
                                       /\ ConvertedBy(q, d)'
                                       /\ \E m \in Row(q)' : m.type = "TAX_INVOICE"
    <3>1. CASE d \in MarkOf(r)
      <4>1. status'[d] = "CONVERTED" /\ linked'[d] = r /\ ConvertedBy(r, d)'
        BY <1>1, <2>1, <3>1
      <4>2. DocumentOf(r) \in Row(r)' /\ type[r] = "TAX_INVOICE"
        BY <1>1, <1>5, <3>1 DEF Row, WorkInv, ConversionsRead, MarkOf
      <4> QED
        BY <1>5, <2>4, <4>1, <4>2
    <3>2. CASE d \notin MarkOf(r)
      <4>1. /\ linked'[d] = linked[d]
            /\ status'[d] = (IF d = r THEN "ISSUED" ELSE status[d])
            /\ \A q \in Request : ConvertedBy(q, d)' <=> ConvertedBy(q, d)
        BY <1>1, <2>1, <3>2
      <4> QED
        BY <1>6, <2>3, <4>1 DEF WorkInv, LinkTellsTruth
    <3> QED
      BY <3>1, <3>2
  <2> QED
    BY <2>5 DEF LinkTellsTruth
<1> QED
  BY <1>7, <1>8, <1>9, <1>10, <1>11, <1>12 DEF WorkInv

(***************************************************************************)
(* The opening quotations are numbered without gap.                        *)
(***************************************************************************)
LEMMA InitEstablishesIInv ==
  ASSUME Init
  PROVE  IInv
<1>1. Cardinality(Quotation) \in Nat
  BY DocumentAssumption, FS_CardinalityType
<1>2. PICK f \in [Quotation -> 1..Cardinality(Quotation)] :
        /\ Numbering(f)
        /\ documents = {[id |-> q, type |-> "QUOTATION", series |-> "QUOTATION",
                         sequence |-> f[q], key |-> NoKey] : q \in Quotation}
  BY DEF Init
<1>3. \A m \in documents : /\ m.id \in Quotation /\ m.key = NoKey /\ m.series = "QUOTATION"
                           /\ m.sequence = f[m.id] /\ m \in DocumentRow
  BY <1>1, <1>2 DEF DocumentRow, DocumentType, Document, Series
<1>4. TypeOK
  BY <1>1, <1>3 DEF Init, TypeOK, DocumentType, Series, Document
<1>5. NumberHeld /\ KeyHeld /\ ConversionsRead
  BY DEF Init, NumberHeld, KeyHeld, ConversionsRead, AfterQuotation
<1>6. RowsAnswered /\ OneDocumentPerKey
  BY <1>3, DocumentAssumption DEF Init, RowsAnswered, OneDocumentPerKey
<1>7. NumbersGapless
  <2>1. ASSUME NEW s \in Series
        PROVE  {m.sequence : m \in {n \in documents : n.series = s}} = 1..(nextSeq[s] - 1)
    <3>1. CASE s = "QUOTATION"
      <4>1. nextSeq[s] - 1 = Cardinality(Quotation)
        BY <1>1, <3>1 DEF Init, Series
      <4>2. {n \in documents : n.series = s} = documents
        BY <1>3, <3>1
      <4>3. {m.sequence : m \in documents} = {f[q] : q \in Quotation}
        <5>1. \A m \in documents : m.sequence \in {f[q] : q \in Quotation}
          BY <1>3
        <5>2. ASSUME NEW q \in Quotation
              PROVE  \E m \in documents : m.sequence = f[q]
          <6>1. [id |-> q, type |-> "QUOTATION", series |-> "QUOTATION", sequence |-> f[q],
                 key |-> NoKey] \in documents
            BY <1>2, <5>2
          <6> QED
            BY <6>1
        <5> QED
          BY <5>1, <5>2
      <4>4. {f[q] : q \in Quotation} = 1..Cardinality(Quotation)
        BY <1>2 DEF Numbering
      <4> QED
        BY <4>1, <4>2, <4>3, <4>4
    <3>2. CASE s # "QUOTATION"
      <4>1. {n \in documents : n.series = s} = {} /\ nextSeq[s] = 1
        BY <1>3, <3>2 DEF Init
      <4> QED
        BY <4>1
    <3> QED
      BY <3>1, <3>2
  <2>2. \A m, n \in documents : m.series = n.series /\ m.sequence = n.sequence => m = n
    BY <1>2, <1>3 DEF Numbering
  <2> QED
    BY <2>1, <2>2 DEF NumbersGapless
<1>8. LinkTellsTruth
  BY DEF Init, LinkTellsTruth, ConvertedBy
<1> QED
  BY <1>4, <1>5, <1>6, <1>7, <1>8 DEF IInv

(***************************************************************************)
(* IInv is an invariant.                                                   *)
(***************************************************************************)
THEOREM InvariantHolds == Spec => []IInv
<1>1. Init => IInv
  BY InitEstablishesIInv
<1>2. IInv /\ [Next]_vars => IInv'
  <2> SUFFICES ASSUME IInv, [Next]_vars
               PROVE  IInv'
    OBVIOUS
  <2>1. TypeOK /\ WorkInv
    BY DEF IInv, WorkInv
  <2>2. TypeOK'
    BY <2>1, TypeInductive DEF WorkInv
  <2>3. WorkInv'
    <3>1. CASE UNCHANGED vars
      <4>1. \A q \in Request, d \in Document : ConvertedBy(q, d)' <=> ConvertedBy(q, d)
        BY <3>1 DEF vars, ConvertedBy
      <4> QED
        BY <2>1, <3>1, <4>1, TablesKept DEF WorkInv, NumberHeld, KeyHeld, ConversionsRead,
           RowsAnswered, LinkTellsTruth, vars, tables
    <3>2. ASSUME NEW r \in Request, Submit(r) \/ Proceed(r) \/ RefuseStock(r) \/ Timeout(r)
          PROVE  WorkInv'
      BY <2>1, <3>2, StatementsKeep, CommitKeeps, RefuseRollsBack DEF Proceed, Walk
    <3> QED
      BY <3>1, <3>2 DEF Next
  <2> QED
    BY <2>2, <2>3 DEF IInv, WorkInv
<1> QED
  BY <1>1, <1>2, PTL DEF Spec

(***************************************************************************)
(* Every variable keeps its type, whatever the instance.                   *)
(***************************************************************************)
THEOREM TypeCorrect == Spec => []TypeOK
<1>1. IInv => TypeOK
  BY DEF IInv
<1> QED
  BY <1>1, InvariantHolds, PTL

(***************************************************************************)
(* In every series no number is skipped and none is used twice.            *)
(***************************************************************************)
THEOREM Gapless == Spec => []NumbersGapless
<1>1. IInv => NumbersGapless
  BY DEF IInv
<1> QED
  BY <1>1, InvariantHolds, PTL

(***************************************************************************)
(* A document is CONVERTED, and linked to a tax invoice, if and only if a  *)
(* conversion of it was answered 201.                                      *)
(***************************************************************************)
THEOREM LinksTrue == Spec => []LinkTellsTruth
<1>1. IInv => LinkTellsTruth
  BY DEF IInv
<1> QED
  BY <1>1, InvariantHolds, PTL

(***************************************************************************)
(* A document carries the key of the request that made it, and a request   *)
(* answered as replayed has found one with its key.                        *)
(***************************************************************************)
KeysRecorded ==
  /\ \A m \in documents : m.key = IF m.id \in Request THEN KeyOf(m.id) ELSE NoKey
  /\ \A r \in Request : pc[r] = "replayed" => KeyUsed(KeyOf(r))

(***************************************************************************)
(* Every step keeps KeysRecorded.                                          *)
(***************************************************************************)
LEMMA KeysRecordedInductive ==
  ASSUME TypeOK, KeysRecorded, [Next]_vars
  PROVE  KeysRecorded'
<1> USE DEF tables
<1>1. CASE UNCHANGED vars
  BY <1>1 DEF KeysRecorded, KeyUsed, KeyOf, vars
<1>2. ASSUME NEW r \in Request, Commit(r)
      PROVE  KeysRecorded'
  <2>1. /\ documents' = documents \cup {DocumentOf(r)} /\ body' = body
        /\ pc' = [pc EXCEPT ![r] = "created"]
    BY <1>2 DEF Commit, GoTo
  <2>2. DocumentOf(r).id = r /\ DocumentOf(r).key = KeyOf(r)
    BY DEF DocumentOf
  <2>3. \A q : KeyOf(q)' = KeyOf(q)
    BY <2>1 DEF KeyOf
  <2> QED
    BY <2>1, <2>2, <2>3 DEF KeysRecorded, KeyUsed, TypeOK
<1>3. ASSUME NEW r \in Request, FindInvoice(r)
      PROVE  KeysRecorded'
  BY <1>3 DEF FindInvoice, GoTo, KeysRecorded, KeyUsed, KeyOf, TypeOK
<1>4. ASSUME NEW r \in Request,
             \/ Submit(r) \/ ReadQuotation(r) \/ ReadOriginal(r) \/ Lookup(r) \/ ClaimNumber(r)
             \/ InsertInvoice(r) \/ IssueStock(r) \/ MarkQuotation(r) \/ Refuse(r)
      PROVE  KeysRecorded'
  <2>1. UNCHANGED <<body, documents>>
    BY <1>4 DEF Submit, ReadQuotation, ReadOriginal, Lookup, ClaimNumber, InsertInvoice,
       IssueStock, MarkQuotation, Refuse, Rollback
  <2>2. PICK s \in Statements \cup {"failed", "refused"} : pc' = [pc EXCEPT ![r] = s]
    BY <1>4 DEF Submit, ReadQuotation, ReadOriginal, Lookup, ClaimNumber, InsertInvoice,
       IssueStock, MarkQuotation, Refuse, Rollback, GoTo, AfterStock, Statements
  <2>3. s # "replayed"
    BY DEF Statements
  <2> QED
    BY <2>1, <2>2, <2>3 DEF KeysRecorded, KeyUsed, KeyOf, TypeOK
<1> QED
  BY <1>1, <1>2, <1>3, <1>4, RefuseRollsBack DEF Next, Proceed

(***************************************************************************)
(* A client's key has exactly one document once a request with it was      *)
(* answered 201, and none before.                                          *)
(***************************************************************************)
THEOREM EveryKeyCreatesOnce == Spec => []CreatedOnce
<1>1. Init => KeysRecorded
  BY DocumentAssumption DEF Init, KeysRecorded
<1>2. IInv /\ KeysRecorded => CreatedOnce
  <2> SUFFICES ASSUME IInv, KeysRecorded, NEW key \in Key
               PROVE  Cardinality({m \in documents : m.key = key})
                        = IF \E r \in Request : /\ Creates(r, key)
                                                /\ pc[r] \in {"created", "replayed"}
                          THEN 1 ELSE 0
    BY DEF CreatedOnce
  <2> DEFINE own == {m \in documents : m.key = key}
             answered == \E r \in Request : Creates(r, key) /\ pc[r] \in {"created", "replayed"}
  <2>1. key # NoKey /\ key \notin Request
    BY KeyAssumption
  <2>2. \A m, n \in own : m = n
    BY <2>1 DEF IInv, OneDocumentPerKey
  <2>3. own # {} => answered
    BY <2>1 DEF IInv, RowsAnswered, KeysRecorded, KeyOf, Creates
  <2>4. answered => own # {}
    BY DEF IInv, RowsAnswered, KeysRecorded, KeyOf, KeyUsed, Creates, Row
  <2>5. CASE own = {}
    BY <2>4, <2>5, FS_EmptySet
  <2>6. ASSUME NEW m \in own
        PROVE  Cardinality(own) = IF answered THEN 1 ELSE 0
    <3>1. own = {m}
      BY <2>2
    <3> HIDE DEF own
    <3> QED
      BY <2>3, <3>1, FS_Singleton
  <2> QED
    BY <2>5, <2>6
<1> QED
  BY <1>1, <1>2, KeysRecordedInductive, InvariantHolds, PTL DEF Spec, IInv

(***************************************************************************)
(* The transactions implement a book in which documents are added one by   *)
(* one, each with the next number of its series.                           *)
(***************************************************************************)
THEOREM ImplementsSalesBook == Spec => ImplementsBook
<1>1. Init => Book!Init
  <2> SUFFICES ASSUME Init
               PROVE  Book!Init
    OBVIOUS
  <2>1. TypeOK /\ NumbersGapless
    BY InitEstablishesIInv DEF IInv
  <2>2. ASSUME NEW m \in documents
        PROVE  m.series \in Series /\ m.sequence \in 1..(nextSeq[m.series] - 1)
    <3>1. m.series \in Series
      BY <2>1 DEF TypeOK, DocumentRow
    <3> QED
      BY <2>1, <3>1 DEF NumbersGapless
  <2> QED
    BY <2>1, <2>2 DEF Book!Init, TypeOK
<1>2. IInv /\ [Next]_vars => [Book!Next]_<<documents, nextSeq>>
  <2> SUFFICES ASSUME IInv, [Next]_vars
               PROVE  [Book!Next]_<<documents, nextSeq>>
    OBVIOUS
  <2> USE DEF tables
  <2>1. ASSUME NEW r \in Request, Commit(r)
        PROVE  Book!Next
    <3> DEFINE e == DocumentOf(r)
    <3>1. /\ number[r] = nextSeq[SeriesOf(type[r])] /\ ~KeyUsed(KeyOf(r))
          /\ documents' = documents \cup {e}
          /\ nextSeq' = [nextSeq EXCEPT ![SeriesOf(type[r])] = number[r] + 1]
          /\ SeriesOf(type[r]) \in Series
      BY <2>1, BodyTyped DEF IInv, NumberHeld, KeyHeld, Commit
    <3>2. e.series = SeriesOf(type[r]) /\ e.sequence = number[r] /\ e.key = KeyOf(r)
      BY DEF DocumentOf
    <3>3. Book!KeyFree(e.key)
      BY <3>1, <3>2 DEF Book!KeyFree, KeyUsed
    <3> HIDE DEF e
    <3>4. \E f \in documents' : Book!Add(f)
      BY <3>1, <3>2, <3>3 DEF Book!Add
    <3> QED
      BY <3>4 DEF Book!Next, Book!Add
  <2>2. ASSUME UNCHANGED vars \/ \E r \in Request : Walk(r) \/ Refuse(r)
        PROVE  UNCHANGED <<documents, nextSeq>>
    BY <2>2 DEF Walk, Submit, ReadQuotation, ReadOriginal, FindInvoice, Lookup, ClaimNumber,
       InsertInvoice, IssueStock, MarkQuotation, Refuse, Rollback, vars
  <2> QED
    BY <2>1, <2>2, RefuseRollsBack DEF Next, Proceed, Walk
<1> QED
  BY <1>1, <1>2, InvariantHolds, PTL DEF Spec, ImplementsBook, Book!Spec
================================================================================
