---------------------------- MODULE DashboardProofs ----------------------------
(***************************************************************************)
(* Proofs about what the dashboard keeps: the default warehouse, for any   *)
(* number of requests; the import wizard, for any wizards, uploads and     *)
(* files; and the pages with their forms, for any number of fetches and    *)
(* submissions in flight.  Each rests on its module's assumptions alone.   *)
(***************************************************************************)
EXTENDS Warehouses, Import, Pages, Sums, SequenceTheorems, FiniteSetTheorems, TLAPS

(***************************************************************************)
(* The warehouses.                                                         *)
(***************************************************************************)
Places == {"idle"} \cup Statements \cup Answers

(* A request that unsets the defaults before it makes its own.             *)
Resets(b) == b.kind \in {"create", "edit"} /\ b.isDefault = "set"

(* In the transaction that writes a warehouse.                             *)
InTransaction(r) == pc[r] \in {"default", "snapshot", "reset", "write", "commit"}

TypeOK ==
  /\ body \in [Request -> Body]
  /\ pc \in [Request -> Places]
  /\ Existing \subseteq Warehouse
  /\ warehouses \in [Existing -> [isDefault : BOOLEAN, isActive : BOOLEAN]]
  /\ seen \in [Request -> SUBSET Warehouse]
  /\ reset \in [Request -> SUBSET Warehouse]

(* A request's row exists only once the request is answered.               *)
RowsAnswered == \A r \in Request : r \in Existing => pc[r] = "done"

(* A transaction is of a kind that writes warehouses, and of its position. *)
Positions ==
  \A r \in Request : InTransaction(r) =>
    /\ body[r].kind \in {"create", "edit", "ensure"}
    /\ pc[r] = "default" => body[r].kind = "ensure"
    /\ pc[r] \in {"snapshot", "reset"} => Resets(body[r])
    /\ body[r].kind = "edit" => body[r].id \in Existing

(* Nobody else unsets any.                                                 *)
OthersReset == \A r \in Request : ~Resets(body[r]) => reset[r] = {}

(* While nobody else commits, what a transaction has seen is what there is. *)
SeenIsThere ==
  \A r \in Request \ overtaken :
    /\ pc[r] = "reset" => seen[r] = Defaults
    /\ pc[r] \in {"write", "commit"} /\ MakesDefault(body[r]) => reset[r] = Defaults

IInv ==
  /\ TypeOK
  /\ RowsAnswered
  /\ Positions
  /\ OthersReset
  /\ SeenIsThere

(***************************************************************************)
(* The statements.                                                         *)
(***************************************************************************)
(* A request comes in as a transaction of its kind, for an id that exists. *)
LEMMA SubmitPreserves ==
  ASSUME IInv, NEW r \in Request, Submit(r)
  PROVE  IInv'
<1> USE DEF IInv, Existing, Defaults, InTransaction
<1>1. body[r].kind \in Kinds
  BY BodyAssumption DEF TypeOK
<1>2. /\ \E place \in {"default", "snapshot", "write", "invalid", "notFound", "check"} :
           GoTo(r, place)
      /\ UNCHANGED <<body, warehouses, locations, seen, reset, rowLock, overtaken>>
  BY <1>1 DEF Submit, Kinds, GoTo
<1>3. /\ pc'[r] \in {"default", "snapshot", "write", "invalid", "notFound", "check"}
      /\ \A q \in Request \ {r} : pc'[q] = pc[q]
      /\ pc' \in [Request -> Places]
  BY <1>2 DEF TypeOK, GoTo, Places, Statements, Answers
<1>4. /\ pc'[r] = "default" => body[r].kind = "ensure"
      /\ pc'[r] = "snapshot" => Resets(body[r])
      /\ pc'[r] = "write" => /\ body[r].kind \in {"create", "edit"}
                             /\ ~MakesDefault(body[r])
      /\ pc'[r] \in {"snapshot", "write"} /\ body[r].kind = "edit" =>
           body[r].id \in Existing
  BY <1>1 DEF Submit, Kinds, GoTo, TypeOK, MakesDefault, Resets
<1> HIDE DEF Existing
<1>5. TypeOK'
  BY <1>2, <1>3 DEF TypeOK, Existing
<1>6. RowsAnswered'
  BY <1>2, <1>3 DEF RowsAnswered, Existing, Submit
<1>7. Positions'
  <2> SUFFICES ASSUME NEW q \in Request, InTransaction(q)'
               PROVE  /\ body[q].kind \in {"create", "edit", "ensure"}
                      /\ pc'[q] = "default" => body[q].kind = "ensure"
                      /\ pc'[q] \in {"snapshot", "reset"} => Resets(body[q])
                      /\ body[q].kind = "edit" => body[q].id \in Existing
    BY <1>2 DEF Positions, Existing, Resets
  <2>1. CASE q = r
    BY <1>3, <1>4, <2>1 DEF Resets
  <2>2. CASE q # r
    BY <1>3, <2>2 DEF Positions
  <2> QED
    BY <2>1, <2>2
<1>8. OthersReset'
  BY <1>2 DEF OthersReset
<1>9. SeenIsThere'
  BY <1>2, <1>3, <1>4 DEF SeenIsThere, Existing
<1> QED
  BY <1>5, <1>6, <1>7, <1>8, <1>9

(* A first invoice goes on only when there is no default to unset. *)
LEMMA FindDefaultPreserves ==
  ASSUME IInv, NEW r \in Request, FindDefault(r)
  PROVE  IInv'
<1> USE DEF IInv, FindDefault, GoTo, Existing, Defaults, InTransaction
<1>1. TypeOK'
  BY DEF TypeOK, Places, Statements, Answers
<1>2. RowsAnswered'
  BY DEF RowsAnswered
<1>3. Positions'
  BY DEF Positions
<1>4. OthersReset'
  BY DEF OthersReset
<1>5. SeenIsThere'
  BY DEF TypeOK, SeenIsThere, OthersReset, Positions, Resets
<1> QED
  BY <1>1, <1>2, <1>3, <1>4, <1>5

(* What it has seen is what there is. *)
LEMMA SnapshotDefaultsPreserves ==
  ASSUME IInv, NEW r \in Request, SnapshotDefaults(r)
  PROVE  IInv'
<1> USE DEF IInv, SnapshotDefaults, GoTo, Existing, Defaults, InTransaction
<1>1. TypeOK'
  BY DEF TypeOK, Places, Statements, Answers
<1>2. RowsAnswered'
  BY DEF RowsAnswered
<1>3. Positions'
  BY DEF Positions
<1>4. OthersReset'
  BY DEF OthersReset
<1>5. SeenIsThere'
  BY DEF TypeOK, SeenIsThere
<1> QED
  BY <1>1, <1>2, <1>3, <1>4, <1>5

(* What it unsets is what it has seen, all of it still default unless
   somebody has committed. *)
LEMMA ResetDefaultsPreserves ==
  ASSUME IInv, NEW r \in Request, ResetDefaults(r)
  PROVE  IInv'
<1> USE DEF IInv, ResetDefaults, GoTo, Existing, Defaults, InTransaction
<1>1. TypeOK'
  BY DEF TypeOK, Places, Statements, Answers
<1>2. RowsAnswered'
  BY DEF RowsAnswered
<1>3. Positions'
  BY DEF Positions
<1>4. OthersReset'
  BY DEF OthersReset, Positions
<1>5. SeenIsThere'
  BY DEF TypeOK, SeenIsThere
<1> QED
  BY <1>1, <1>2, <1>3, <1>4, <1>5

(* Only the place changes. *)
LEMMA WriteWarehousePreserves ==
  ASSUME IInv, NEW r \in Request, WriteWarehouse(r)
  PROVE  IInv'
<1> USE DEF IInv, WriteWarehouse, GoTo, Existing, Defaults, InTransaction
<1>1. TypeOK'
  BY DEF TypeOK, Places, Statements, Answers
<1>2. RowsAnswered'
  BY DEF RowsAnswered
<1>3. Positions'
  BY DEF Positions
<1>4. OthersReset'
  BY DEF OthersReset
<1>5. SeenIsThere'
  BY DEF SeenIsThere
<1> QED
  BY <1>1, <1>2, <1>3, <1>4, <1>5

(* It leaves nothing behind. *)
LEMMA AbortPreserves ==
  ASSUME IInv, NEW r \in Request, Abort(r)
  PROVE  IInv'
<1> USE DEF IInv, Abort, GoTo, Existing, Defaults, InTransaction
<1>1. TypeOK'
  BY DEF TypeOK, Places, Statements, Answers
<1>2. RowsAnswered'
  BY DEF RowsAnswered
<1>3. Positions'
  BY DEF Positions
<1>4. OthersReset'
  BY DEF OthersReset
<1>5. SeenIsThere'
  BY DEF SeenIsThere
<1> QED
  BY <1>1, <1>2, <1>3, <1>4, <1>5

(* Not a warehouse's transaction. *)
LEMMA CheckLocationPreserves ==
  ASSUME IInv, NEW r \in Request, CheckLocation(r)
  PROVE  IInv'
<1> USE DEF IInv, CheckLocation, GoTo, Existing, Defaults, InTransaction
<1>1. TypeOK'
  BY DEF TypeOK, Places, Statements, Answers
<1>2. RowsAnswered'
  BY DEF RowsAnswered
<1>3. Positions'
  BY DEF Positions
<1>4. OthersReset'
  BY DEF OthersReset
<1>5. SeenIsThere'
  BY DEF SeenIsThere
<1> QED
  BY <1>1, <1>2, <1>3, <1>4, <1>5

(* Not a warehouse's transaction. *)
LEMMA WriteLocationPreserves ==
  ASSUME IInv, NEW r \in Request, WriteLocation(r)
  PROVE  IInv'
<1> USE DEF IInv, WriteLocation, GoTo, Existing, Defaults, InTransaction
<1>1. TypeOK'
  BY DEF TypeOK, Places, Statements, Answers
<1>2. RowsAnswered'
  BY DEF RowsAnswered
<1>3. Positions'
  BY DEF Positions
<1>4. OthersReset'
  BY DEF OthersReset
<1>5. SeenIsThere'
  BY DEF SeenIsThere
<1> QED
  BY <1>1, <1>2, <1>3, <1>4, <1>5

(* The row of a request is written: everybody still running is overtaken.  *)
LEMMA CommitPreserves ==
  ASSUME IInv, NEW r \in Request, Commit(r)
  PROVE  IInv'
<1> USE DEF IInv, Commit, GoTo, Existing, InTransaction
<1>1. body[r] \in Body /\ Own(r) \in Warehouse
  BY BodyAssumption DEF TypeOK, Positions, Own, Warehouse
<1>2. Written(r) \in [isDefault : BOOLEAN, isActive : BOOLEAN]
  BY <1>1, BodyAssumption DEF TypeOK, Positions, Written, Chosen, Choice
<1>3. TypeOK'
  BY <1>1, <1>2 DEF TypeOK, Places, Answers
<1>4. RowsAnswered'
  BY DEF TypeOK, RowsAnswered, Positions, Own
<1>5. Positions'
  BY DEF TypeOK, Positions
<1>6. OthersReset'
  BY DEF TypeOK, OthersReset
<1>7. SeenIsThere'
  BY DEF TypeOK, SeenIsThere, Running, Statements
<1> QED
  BY <1>3, <1>4, <1>5, <1>6, <1>7

LEMMA InvInit == Init => IInv
<1> SUFFICES ASSUME Init
             PROVE  IInv
  OBVIOUS
<1>1. \A r \in Request : pc[r] = "idle" /\ reset[r] = {}
  BY DEF Init
<1>2. Existing \subseteq {Main}
  BY DEF Init, Existing
<1>3. warehouses \in [Existing -> [isDefault : BOOLEAN, isActive : BOOLEAN]]
  <2>1. warehouses = [w \in Existing |-> [isDefault |-> TRUE, isActive |-> TRUE]]
    BY DEF Init, Existing
  <2> QED
    BY <2>1
<1>4. TypeOK
  BY <1>2, <1>3 DEF Init, TypeOK, Places, Warehouse
<1>5. RowsAnswered /\ Positions /\ OthersReset /\ SeenIsThere
  BY <1>1, <1>2, RequestAssumption
  DEF RowsAnswered, Positions, OthersReset, SeenIsThere, InTransaction
<1> QED
  BY <1>4, <1>5 DEF IInv

LEMMA InvNext == IInv /\ [Next]_vars => IInv'
<1> SUFFICES ASSUME IInv, [Next]_vars
             PROVE  IInv'
  OBVIOUS
<1>1. CASE UNCHANGED vars
  BY <1>1 DEF vars, IInv, TypeOK, RowsAnswered, Positions, OthersReset, SeenIsThere,
     Existing, Defaults, InTransaction
<1> QED
  BY <1>1, SubmitPreserves, FindDefaultPreserves, SnapshotDefaultsPreserves,
     ResetDefaultsPreserves, WriteWarehousePreserves, CommitPreserves, AbortPreserves,
     CheckLocationPreserves, WriteLocationPreserves
  DEF Next

(***************************************************************************)
(* The inductive invariant of the warehouse transactions.                  *)
(***************************************************************************)
THEOREM Invariance == Spec => []IInv
BY InvInit, InvNext, PTL DEF Spec

--------------------------------------------------------------------------------
(* What a commit leaves of the defaults.                                   *)
LEMMA CommittedDefaults ==
  ASSUME IInv, NEW r \in Request, Commit(r)
  PROVE  /\ Written(r).isDefault => Own(r) \in Defaults'
         /\ \A w \in Defaults' : w = Own(r) \/ w \in Defaults \ reset[r]
         /\ \A w \in Defaults : w \in Defaults' \cup reset[r] \cup {Own(r)}
<1>1. warehouses' = [w \in Existing \cup {Own(r)} |->
       IF w = Own(r) THEN Written(r)
       ELSE IF w \in reset[r] THEN [warehouses[w] EXCEPT !.isDefault = FALSE]
       ELSE warehouses[w]]
  BY DEF Commit
<1>2. \A w \in Existing : [warehouses[w] EXCEPT !.isDefault = FALSE].isDefault = FALSE
  BY DEF IInv, TypeOK
<1> QED
  BY <1>1, <1>2 DEF Defaults, Existing

(* A transaction that makes a default writes one.                          *)
LEMMA MakersWriteDefault ==
  ASSUME IInv, NEW r \in Request, pc[r] = "commit", MakesDefault(body[r])
  PROVE  Written(r).isDefault
BY BodyAssumption DEF IInv, TypeOK, Positions, InTransaction, MakesDefault, Written, Chosen

(* Only commits, and writes of locations, are answered done.               *)
LEMMA OtherAnswers ==
  ASSUME TypeOK, Next
  PROVE  \E q \in Request : \/ Commit(q)
                            \/ pc[q] = "insert" /\ GoTo(q, "done")
                            \/ \E place \in Places \ {"done"} : GoTo(q, place)
<1>1. \A q \in Request : Submit(q) => \E place \in Places \ {"done"} : GoTo(q, place)
  <2> SUFFICES ASSUME NEW q \in Request, Submit(q)
               PROVE  \E place \in Places \ {"done"} : GoTo(q, place)
    OBVIOUS
  <2>1. body[q].kind \in Kinds
    BY BodyAssumption DEF TypeOK
  <2> QED
    BY <2>1 DEF Submit, Kinds, Places, Statements, Answers
<1> QED
  BY <1>1 DEF Next, FindDefault, SnapshotDefaults, ResetDefaults, WriteWarehouse, Abort,
     CheckLocation, WriteLocation, Places, Statements, Answers

(* Only a commit changes the warehouses.                                   *)
LEMMA OnlyCommits ==
  ASSUME Next, Defaults' # Defaults
  PROVE  \E r \in Request : Commit(r)
BY DEF Next, Submit, FindDefault, SnapshotDefaults, ResetDefaults, WriteWarehouse, Abort,
   CheckLocation, WriteLocation, Defaults, Existing

(***************************************************************************)
(* An organization loses its last default only to an edit that unsets it   *)
(* (the PATCH of api/inventory/warehouses), whatever fails half way.       *)
(***************************************************************************)
THEOREM KeepsDefault == Spec => DefaultKept
<1> DEFINE Step == Defaults # {} /\ Defaults' = {} =>
                     \E r \in Request : pc'[r] = "done" /\ pc[r] = "commit"
                                        /\ body[r].isDefault = "unset"
<1>1. IInv /\ [Next]_vars => [Step]_vars
  <2> SUFFICES ASSUME IInv, Next, Defaults # {}, Defaults' = {}
               PROVE  \E r \in Request : pc'[r] = "done" /\ pc[r] = "commit"
                                         /\ body[r].isDefault = "unset"
    OBVIOUS
  <2>1. PICK r \in Request : Commit(r)
    BY OnlyCommits
  <2>2. pc[r] = "commit" /\ pc'[r] = "done"
    BY <2>1 DEF Commit, GoTo, IInv, TypeOK
  <2>3. ~MakesDefault(body[r])
    BY <2>1, <2>2, CommittedDefaults, MakersWriteDefault
  <2>4. reset[r] = {}
    BY <2>3 DEF IInv, OthersReset, MakesDefault, Resets
  <2>5. Defaults = {Own(r)}
    BY <2>1, <2>4, CommittedDefaults
  <2>6. body[r].kind = "edit" /\ ~Written(r).isDefault
    BY <2>1, <2>2, <2>3, <2>5, CommittedDefaults
    DEF IInv, RowsAnswered, Positions, InTransaction, MakesDefault, Own, Defaults
  <2>7. warehouses[Own(r)].isDefault
    BY <2>5 DEF Defaults
  <2>8. body[r].isDefault = "unset"
    BY <2>3, <2>6, <2>7, BodyAssumption
    DEF IInv, TypeOK, MakesDefault, Written, Chosen, Own, Choice
  <2> QED
    BY <2>2, <2>8
<1> QED
  BY <1>1, Invariance, PTL DEF Spec, DefaultKept

(***************************************************************************)
(* A transaction that makes a default and is not overtaken leaves its own  *)
(* warehouse as the only one (the updateMany before the create or update). *)
(***************************************************************************)
THEOREM OnlyDefault == Spec => OnlyDefaultUnlessOvertaken
<1> DEFINE Step == \A r \in Request :
       pc[r] = "commit" /\ pc'[r] = "done" /\ MakesDefault(body[r]) /\ r \notin overtaken
         => Defaults' = {Own(r)}
<1>1. IInv /\ [Next]_vars => [Step]_vars
  <2> SUFFICES ASSUME IInv, Next, NEW r \in Request, pc[r] = "commit", pc'[r] = "done",
                      MakesDefault(body[r]), r \notin overtaken
               PROVE  Defaults' = {Own(r)}
    BY DEF vars
  <2>1. Commit(r)
    <3>1. PICK q \in Request : \/ Commit(q)
                               \/ pc[q] = "insert" /\ GoTo(q, "done")
                               \/ \E place \in Places \ {"done"} : GoTo(q, place)
      BY OtherAnswers DEF IInv
    <3>2. GoTo(q, pc'[q])
      BY <3>1 DEF Commit, GoTo, IInv, TypeOK
    <3> QED
      BY <3>1, <3>2 DEF Commit, GoTo, IInv, TypeOK
  <2>2. reset[r] = Defaults
    BY DEF IInv, SeenIsThere
  <2> QED
    BY <2>1, <2>2, CommittedDefaults, MakersWriteDefault
<1> QED
  BY <1>1, Invariance, PTL DEF Spec, OnlyDefaultUnlessOvertaken

--------------------------------------------------------------------------------
(***************************************************************************)
(* The import wizard.                                                      *)
(***************************************************************************)
Files == Seq(Row) \cup {Malformed}
Errors == [file : Files, entity : Entity, errors : Nat]
Reply == [status : {201, 400, 403, 500}, errors : Nat]
Posted == [by : Wizard, entity : Entity, file : Files, answer : {Absent} \cup Reply]
Record == [key : Key \cup {NoKey}, by : Upload \cup {Absent}]
Steps == {"idle", "validating", "validated", "done"}
Shown == [tab : Entity, file : Files \cup {Absent}, step : Steps,
          preview : Errors \cup {Absent}, error : BOOLEAN]

ImportTypes ==
  /\ wizard \in [Wizard -> Shown]
  /\ stage \in [Upload -> {"unused", "sent", "check", "insert", "answered"}]
  /\ upload \in [Upload -> Posted \cup {Absent}]
  /\ \A r \in Upload : stage[r] # "unused" => upload[r] \in Posted
  /\ \A r \in Upload : stage[r] = "answered" => upload[r].answer \in Reply
  /\ listening \subseteq {r \in Upload : stage[r] # "unused"}
  /\ table \in [Entity -> Seq(Record)]
  /\ known \in [Upload -> Nat]
  /\ moved \subseteq Wizard

(* A file with errors has some.                                            *)
ErrorsCounted ==
  \A r \in Upload :
    stage[r] = "answered" /\ upload[r].answer.status = 400 => upload[r].answer.errors > 0

(* An upload that stored rows is answered, and looks for SKUs no more.     *)
RowsOfAnswered ==
  \A i \in DOMAIN table["products"] :
    LET r == table["products"][i].by IN r \in Upload => stage[r] = "answered"

(* What an upload saw when it looked for its SKUs is still there, and has  *)
(* none of them.                                                           *)
NoneKnown ==
  \A r \in Upload :
    /\ known[r] <= Len(table["products"])
    /\ stage[r] = "insert" /\ upload[r].entity = "products" =>
         \A i \in 1 .. known[r] : table["products"][i].key \notin Skus(upload[r].file)

(* The answer a page waits for is about the file and the tab it shows.     *)
AnswerOfShownFile ==
  \A w \in Wizard \ moved : \A r \in listening :
    upload[r].by = w =>
      upload[r].file = wizard[w].file /\ upload[r].entity = wizard[w].tab

ImportInv ==
  /\ ImportTypes
  /\ ErrorsCounted
  /\ RowsOfAnswered
  /\ NoneKnown
  /\ AnswerOfShownFile
  /\ DuplicateSkusExplained
  /\ PreviewOfShownFile


(* What a page shows after Show: the fields given, and the others as they  *)
(* were.                                                                   *)
Fields == {"tab", "file", "step", "preview", "error"}

LEMMA ShowChanges ==
  ASSUME wizard \in [Wizard -> Shown], NEW w \in Wizard, NEW fields, Show(w, fields)
  PROVE  /\ DOMAIN wizard' = Wizard /\ DOMAIN wizard'[w] = Fields
         /\ \A v \in Wizard \ {w} : wizard'[v] = wizard[v]
         /\ \A k \in Fields :
              wizard'[w][k] = IF k \in DOMAIN fields THEN fields[k] ELSE wizard[w][k]
         /\ wizard'[w] = [k \in Fields |-> wizard'[w][k]]
<1>1. PICK b : b = wizard[w]
  OBVIOUS
<1>2. DOMAIN b = Fields
  BY <1>1 DEF Shown, Fields
<1>3. wizard'[w] = [k \in DOMAIN b |-> IF k \in DOMAIN fields THEN fields[k] ELSE b[k]]
  BY <1>1 DEF Show
<1>4. DOMAIN wizard' = Wizard /\ \A v \in Wizard \ {w} : wizard'[v] = wizard[v]
  BY DEF Show
<1> QED
  BY <1>1, <1>2, <1>3, <1>4

(* Fields of the right types leave the page of the right type.             *)
LEMMA ShowPreserves ==
  ASSUME wizard \in [Wizard -> Shown], NEW w \in Wizard, NEW fields, Show(w, fields),
         "tab" \in DOMAIN fields => fields["tab"] \in Entity,
         "file" \in DOMAIN fields => fields["file"] \in Files \cup {Absent},
         "step" \in DOMAIN fields => fields["step"] \in Steps,
         "preview" \in DOMAIN fields => fields["preview"] \in Errors \cup {Absent},
         "error" \in DOMAIN fields => fields["error"] \in BOOLEAN
  PROVE  /\ wizard' \in [Wizard -> Shown]
         /\ \A v \in Wizard \ {w} : wizard'[v] = wizard[v]
         /\ \A k \in Fields :
              wizard'[w][k] = IF k \in DOMAIN fields THEN fields[k] ELSE wizard[w][k]
<1>1. PICK x : x = wizard'[w]
  OBVIOUS
<1>2. /\ wizard[w]["tab"] \in Entity /\ wizard[w]["file"] \in Files \cup {Absent}
      /\ wizard[w]["step"] \in Steps /\ wizard[w]["preview"] \in Errors \cup {Absent}
      /\ wizard[w]["error"] \in BOOLEAN
  BY DEF Shown
<1>3. /\ DOMAIN wizard' = Wizard /\ DOMAIN x = Fields
      /\ \A v \in Wizard \ {w} : wizard'[v] = wizard[v]
      /\ \A k \in Fields : x[k] = IF k \in DOMAIN fields THEN fields[k] ELSE wizard[w][k]
      /\ x = [k \in Fields |-> x[k]]
  BY <1>1, ShowChanges
<1>4. /\ x["tab"] \in Entity /\ x["file"] \in Files \cup {Absent} /\ x["step"] \in Steps
      /\ x["preview"] \in Errors \cup {Absent} /\ x["error"] \in BOOLEAN
  BY <1>2, <1>3 DEF Fields
<1>5. x \in Shown
  BY <1>3, <1>4 DEF Shown, Fields
<1> QED
  BY <1>1, <1>3, <1>5 DEF Show

(* What the routes keep is not touched by a wizard's own step.             *)
LEMMA WizardStep ==
  ASSUME ImportInv, UNCHANGED <<upload, stage, table, known>>
  PROVE  ErrorsCounted' /\ RowsOfAnswered' /\ NoneKnown' /\ DuplicateSkusExplained'
BY DEF ImportInv, ErrorsCounted, RowsOfAnswered, NoneKnown, DuplicateSkusExplained, Skus

(* A step of a page that is not waiting, or that moves.                    *)
LEMMA OtherPages ==
  ASSUME ImportInv, NEW w \in Wizard, UNCHANGED upload, listening' \subseteq listening,
         \A v \in Wizard \ {w} : wizard'[v] = wizard[v], moved' \in {moved, moved \cup {w}},
         w \notin moved' =>
           /\ \A r \in listening' : upload[r].by = w =>
                upload[r].file = wizard'[w].file /\ upload[r].entity = wizard'[w].tab
           /\ wizard'[w].preview # Absent =>
                /\ wizard'[w].preview.file = wizard'[w].file
                /\ wizard'[w].preview.entity = wizard'[w].tab
                /\ wizard'[w].preview.errors > 0
  PROVE  AnswerOfShownFile' /\ PreviewOfShownFile'
<1>1. SUFFICES ASSUME NEW v \in Wizard \ moved'
               PROVE  /\ \A r \in listening' : upload'[r].by = v =>
                           upload'[r].file = wizard'[v].file /\ upload'[r].entity = wizard'[v].tab
                      /\ wizard'[v].preview # Absent =>
                           /\ wizard'[v].preview.file = wizard'[v].file
                           /\ wizard'[v].preview.entity = wizard'[v].tab
                           /\ wizard'[v].preview.errors > 0
  BY DEF AnswerOfShownFile, PreviewOfShownFile
<1>2. CASE v = w
  BY <1>2
<1>3. CASE v # w
  <2>1. v \in Wizard \ moved /\ wizard'[v] = wizard[v]
    BY <1>3
  <2> QED
    BY <2>1 DEF ImportInv, AnswerOfShownFile, PreviewOfShownFile
<1> QED
  BY <1>2, <1>3

LEMMA SelectFilePreserves ==
  ASSUME ImportInv, NEW w \in Wizard, NEW f \in Files, SelectFile(w, f)
  PROVE  ImportInv'
<1>1. PICK fields : fields = [file |-> f, step |-> "idle", preview |-> Absent, error |-> FALSE]
  OBVIOUS
<1>2. /\ DOMAIN fields = {"file", "step", "preview", "error"}
      /\ fields["file"] = f /\ fields["step"] = "idle" /\ fields["preview"] = Absent
      /\ fields["error"] = FALSE
  BY <1>1
<1>3. ImportTypes /\ Show(w, fields) /\ Moves(w)
      /\ UNCHANGED <<upload, stage, listening, table, known>>
  BY <1>1 DEF SelectFile, ImportInv
<1>4. /\ wizard' \in [Wizard -> Shown]
      /\ \A v \in Wizard \ {w} : wizard'[v] = wizard[v]
      /\ \A k \in Fields :
           wizard'[w][k] = IF k \in DOMAIN fields THEN fields[k] ELSE wizard[w][k]
  BY <1>2, <1>3, ShowPreserves DEF ImportTypes, Steps
<1>5. wizard'[w].preview = Absent
  BY <1>2, <1>4 DEF Fields
<1>6. ImportTypes'
  BY <1>3, <1>4 DEF ImportTypes, Moves
<1>7. AnswerOfShownFile' /\ PreviewOfShownFile'
  BY <1>3, <1>4, <1>5, OtherPages DEF Moves, Waiting
<1> QED
  BY <1>3, <1>6, <1>7, WizardStep DEF ImportInv

LEMMA ResetFilePreserves ==
  ASSUME ImportInv, NEW w \in Wizard, ResetFile(w)
  PROVE  ImportInv'
<1>1. PICK fields : fields = [file |-> Absent, step |-> "idle", preview |-> Absent, error |-> FALSE]
  OBVIOUS
<1>2. /\ DOMAIN fields = {"file", "step", "preview", "error"}
      /\ fields["file"] = Absent /\ fields["step"] = "idle" /\ fields["preview"] = Absent
      /\ fields["error"] = FALSE
  BY <1>1
<1>3. ImportTypes /\ Show(w, fields) /\ Moves(w)
      /\ UNCHANGED <<upload, stage, listening, table, known>>
  BY <1>1 DEF ResetFile, ImportInv
<1>4. /\ wizard' \in [Wizard -> Shown]
      /\ \A v \in Wizard \ {w} : wizard'[v] = wizard[v]
      /\ \A k \in Fields :
           wizard'[w][k] = IF k \in DOMAIN fields THEN fields[k] ELSE wizard[w][k]
  BY <1>2, <1>3, ShowPreserves DEF ImportTypes, Steps
<1>5. wizard'[w].preview = Absent
  BY <1>2, <1>4 DEF Fields
<1>6. ImportTypes'
  BY <1>3, <1>4 DEF ImportTypes, Moves
<1>7. AnswerOfShownFile' /\ PreviewOfShownFile'
  BY <1>3, <1>4, <1>5, OtherPages DEF Moves, Waiting
<1> QED
  BY <1>3, <1>6, <1>7, WizardStep DEF ImportInv

LEMMA SwitchTabPreserves ==
  ASSUME ImportInv, NEW w \in Wizard, NEW e \in Entity, SwitchTab(w, e)
  PROVE  ImportInv'
<1>1. PICK fields : fields = [tab |-> e]
  OBVIOUS
<1>2. /\ DOMAIN fields = {"tab"}
      /\ fields["tab"] = e
  BY <1>1
<1>3. /\ ImportTypes /\ Show(w, fields)
      /\ moved' = IF Waiting(w) \/ wizard[w].preview # Absent THEN moved \cup {w} ELSE moved
      /\ UNCHANGED <<upload, stage, listening, table, known>>
  BY <1>1 DEF SwitchTab, ImportInv
<1>4. /\ wizard' \in [Wizard -> Shown]
      /\ \A v \in Wizard \ {w} : wizard'[v] = wizard[v]
      /\ \A k \in Fields :
           wizard'[w][k] = IF k \in DOMAIN fields THEN fields[k] ELSE wizard[w][k]
  BY <1>2, <1>3, ShowPreserves DEF ImportTypes
<1>5. wizard'[w].preview = wizard[w].preview
  BY <1>2, <1>4 DEF Fields
<1>6. ImportTypes'
  BY <1>3, <1>4 DEF ImportTypes
<1>7. AnswerOfShownFile' /\ PreviewOfShownFile'
  BY <1>3, <1>4, <1>5, OtherPages DEF Waiting
<1> QED
  BY <1>3, <1>6, <1>7, WizardStep DEF ImportInv

LEMMA ValidatePreserves ==
  ASSUME ImportInv, NEW w \in Wizard, NEW r \in Upload, Validate(w, r)
  PROVE  ImportInv'
<1>1. PICK fields : fields = [step |-> "validating", preview |-> Absent, error |-> FALSE]
  OBVIOUS
<1>2. /\ DOMAIN fields = {"step", "preview", "error"}
      /\ fields["step"] = "validating" /\ fields["preview"] = Absent /\ fields["error"] = FALSE
  BY <1>1
<1>3. /\ ImportTypes /\ Show(w, fields) /\ stage[r] = "unused"
      /\ wizard[w].file # Absent
      /\ UNCHANGED <<table, known>>
  BY <1>1 DEF Validate, Offered, ImportInv
<1>4. /\ wizard' \in [Wizard -> Shown]
      /\ \A v \in Wizard \ {w} : wizard'[v] = wizard[v]
      /\ \A k \in Fields :
           wizard'[w][k] = IF k \in DOMAIN fields THEN fields[k] ELSE wizard[w][k]
  BY <1>2, <1>3, ShowPreserves DEF ImportTypes, Steps
<1>5. /\ wizard'[w].preview = Absent /\ wizard'[w].file = wizard[w].file
      /\ wizard'[w].tab = wizard[w].tab
  BY <1>2, <1>4 DEF Fields
<1>6. PICK posted : posted = [by |-> w, entity |-> wizard[w].tab, file |-> wizard[w].file,
                              answer |-> Absent]
  OBVIOUS
<1>7. posted \in Posted
  <2>1. wizard[w] \in Shown
    BY <1>3 DEF ImportTypes
  <2>2. wizard[w].tab \in Entity /\ wizard[w].file \in Files
    BY <2>1, <1>3 DEF Shown
  <2> QED
    BY <2>2, <1>6 DEF Posted
<1>8. /\ upload' = [upload EXCEPT ![r] = posted] /\ stage' = [stage EXCEPT ![r] = "sent"]
      /\ listening' = listening \cup {r}
      /\ moved' = IF Waiting(w) THEN moved ELSE moved \ {w}
  BY <1>6 DEF Validate
<1>9. ImportTypes'
  BY <1>3, <1>4, <1>7, <1>8 DEF ImportTypes
<1>10. /\ \A q \in Upload \ {r} : upload'[q] = upload[q] /\ stage'[q] = stage[q]
       /\ upload'[r] = posted /\ stage'[r] = "sent"
  BY <1>3, <1>8 DEF ImportTypes
<1>11. ErrorsCounted' /\ DuplicateSkusExplained'
  BY <1>3, <1>10 DEF ImportInv, ErrorsCounted, DuplicateSkusExplained
<1>12. RowsOfAnswered'
  BY <1>3, <1>10 DEF ImportInv, RowsOfAnswered
<1>13. NoneKnown'
  BY <1>3, <1>10 DEF ImportInv, NoneKnown, Skus
<1>14. ASSUME NEW v \in Wizard \ moved'
       PROVE  /\ \A q \in listening' : upload'[q].by = v =>
                   upload'[q].file = wizard'[v].file /\ upload'[q].entity = wizard'[v].tab
              /\ wizard'[v].preview # Absent =>
                   /\ wizard'[v].preview.file = wizard'[v].file
                   /\ wizard'[v].preview.entity = wizard'[v].tab
                   /\ wizard'[v].preview.errors > 0
  <2>1. posted.by = w /\ posted.entity = wizard[w].tab /\ posted.file = wizard[w].file
    BY <1>6
  <2>2. r \notin listening /\ listening \subseteq Upload
    BY <1>3 DEF ImportTypes
  <2>3. CASE v = w
    <3>1. ASSUME NEW q \in listening, upload[q].by = w
          PROVE  upload[q].file = wizard[w].file /\ upload[q].entity = wizard[w].tab
      <4>1. w \notin moved
        BY <3>1, <2>3, <1>8 DEF Waiting
      <4> QED
        BY <3>1, <4>1 DEF ImportInv, AnswerOfShownFile
    <3> QED
      BY <3>1, <2>1, <2>2, <2>3, <1>5, <1>8, <1>10
  <2>4. CASE v # w
    <3>1. v \in Wizard \ moved /\ wizard'[v] = wizard[v]
      BY <2>4, <1>4, <1>8
    <3>2. \A q \in listening' : upload'[q].by = v => q \in listening /\ upload'[q] = upload[q]
      BY <2>1, <2>2, <2>4, <1>8, <1>10
    <3> QED
      BY <3>1, <3>2 DEF ImportInv, AnswerOfShownFile, PreviewOfShownFile
  <2> QED
    BY <2>3, <2>4
<1>15. AnswerOfShownFile' /\ PreviewOfShownFile'
  BY <1>14 DEF AnswerOfShownFile, PreviewOfShownFile
<1> QED
  BY <1>9, <1>11, <1>12, <1>13, <1>15 DEF ImportInv

(* An answer, or its loss: the page shows errors only if there are some.   *)
LEMMA HearingPreserves ==
  ASSUME ImportInv, NEW r \in listening, NEW fields, Show(upload[r].by, fields),
         DOMAIN fields \subseteq {"step", "preview", "error"},
         "step" \in DOMAIN fields => fields["step"] \in Steps,
         "preview" \in DOMAIN fields =>
           /\ fields["preview"] = [file |-> upload[r].file, entity |-> upload[r].entity,
                                   errors |-> upload[r].answer.errors]
           /\ upload[r].answer.errors \in Nat /\ upload[r].answer.errors > 0,
         "error" \in DOMAIN fields => fields["error"] \in BOOLEAN,
         listening' = listening \ {r}, UNCHANGED <<upload, stage, table, known, moved>>
  PROVE  ImportInv'
<1>1. PICK w, u : w = upload[r].by /\ u = upload[r]
  OBVIOUS
<1>2. ImportTypes /\ r \in Upload /\ u \in Posted /\ w \in Wizard
  BY <1>1 DEF ImportInv, ImportTypes, Posted
<1>3. "preview" \in DOMAIN fields =>
        /\ fields["preview"] \in Errors
        /\ fields["preview"].file = u.file /\ fields["preview"].entity = u.entity
        /\ fields["preview"].errors > 0
  BY <1>1, <1>2 DEF Errors, Posted
<1>4. /\ wizard' \in [Wizard -> Shown]
      /\ \A v \in Wizard \ {w} : wizard'[v] = wizard[v]
      /\ \A k \in Fields :
           wizard'[w][k] = IF k \in DOMAIN fields THEN fields[k] ELSE wizard[w][k]
  <2>1. "tab" \notin DOMAIN fields /\ "file" \notin DOMAIN fields
    OBVIOUS
  <2> QED
    BY <2>1, <1>1, <1>2, <1>3, ShowPreserves DEF ImportTypes
<1>5. /\ wizard'[w].file = wizard[w].file /\ wizard'[w].tab = wizard[w].tab
      /\ wizard'[w].preview = IF "preview" \in DOMAIN fields THEN fields["preview"]
                              ELSE wizard[w].preview
  BY <1>4 DEF Fields
<1>6. ImportTypes'
  BY <1>2, <1>4 DEF ImportTypes
<1>7. w \notin moved => u.file = wizard[w].file /\ u.entity = wizard[w].tab
  BY <1>1, <1>2 DEF ImportInv, AnswerOfShownFile
<1>8. w \notin moved =>
        /\ \A q \in listening' : upload[q].by = w =>
             upload[q].file = wizard'[w].file /\ upload[q].entity = wizard'[w].tab
        /\ wizard'[w].preview # Absent =>
             /\ wizard'[w].preview.file = wizard'[w].file
             /\ wizard'[w].preview.entity = wizard'[w].tab
             /\ wizard'[w].preview.errors > 0
  BY <1>2, <1>3, <1>5, <1>7 DEF ImportInv, AnswerOfShownFile, PreviewOfShownFile
<1>9. AnswerOfShownFile' /\ PreviewOfShownFile'
  BY <1>2, <1>4, <1>8, OtherPages
<1> QED
  BY <1>6, <1>9, WizardStep DEF ImportInv

LEMMA DeliverPreserves ==
  ASSUME ImportInv, NEW r \in Upload, Deliver(r)
  PROVE  ImportInv'
<1>1. /\ r \in listening /\ stage[r] = "answered" /\ listening' = listening \ {r}
      /\ UNCHANGED <<upload, stage, table, known, moved>>
  BY DEF Deliver
<1>2. PICK a, shown : /\ a = upload[r].answer
                      /\ shown = [file |-> upload[r].file, entity |-> upload[r].entity,
                                  errors |-> upload[r].answer.errors]
  OBVIOUS
<1>3. a \in Reply
  BY <1>1, <1>2 DEF ImportInv, ImportTypes
<1>4. CASE a.status = 201 /\ Show(upload[r].by, [step |-> "done"])
  <2>1. PICK fields : fields = [step |-> "done"]
    OBVIOUS
  <2>2. DOMAIN fields = {"step"} /\ fields["step"] = "done"
    BY <2>1
  <2>3. Show(upload[r].by, fields)
    BY <1>4, <2>1
  <2> QED
    BY <1>1, <2>2, <2>3, HearingPreserves DEF Steps
<1>5. CASE a.status = 400 /\ Show(upload[r].by, [step |-> "validated", preview |-> shown])
  <2>1. PICK fields : fields = [step |-> "validated", preview |-> shown]
    OBVIOUS
  <2>2. /\ DOMAIN fields = {"step", "preview"} /\ fields["step"] = "validated"
        /\ fields["preview"] = shown
    BY <2>1
  <2>3. Show(upload[r].by, fields)
    BY <1>5, <2>1
  <2>4. upload[r].answer.errors \in Nat /\ upload[r].answer.errors > 0
    BY <1>1, <1>2, <1>3, <1>5 DEF ImportInv, ErrorsCounted, Reply
  <2> QED
    BY <1>1, <1>2, <2>2, <2>3, <2>4, HearingPreserves DEF Steps
<1>6. CASE a.status \in {403, 500} /\ Show(upload[r].by, [step |-> "idle", error |-> TRUE])
  <2>1. PICK fields : fields = [step |-> "idle", error |-> TRUE]
    OBVIOUS
  <2>2. /\ DOMAIN fields = {"step", "error"} /\ fields["step"] = "idle"
        /\ fields["error"] = TRUE
    BY <2>1
  <2>3. Show(upload[r].by, fields)
    BY <1>6, <2>1
  <2> QED
    BY <1>1, <2>2, <2>3, HearingPreserves DEF Steps
<1> QED
  BY <1>2, <1>4, <1>5, <1>6 DEF Deliver

LEMMA LoseAnswerPreserves ==
  ASSUME ImportInv, NEW r \in Upload, LoseAnswer(r)
  PROVE  ImportInv'
<1>1. PICK fields : fields = [step |-> "idle", error |-> TRUE]
  OBVIOUS
<1>2. DOMAIN fields = {"step", "error"} /\ fields["step"] = "idle" /\ fields["error"] = TRUE
  BY <1>1
<1>3. /\ r \in listening /\ Show(upload[r].by, fields) /\ listening' = listening \ {r}
      /\ UNCHANGED <<upload, stage, table, known, moved>>
  BY <1>1 DEF LoseAnswer
<1> QED
  BY <1>2, <1>3, HearingPreserves DEF Steps

(***************************************************************************)
(* The routes.  None of their steps touches what a page shows.             *)
(***************************************************************************)
LEMMA RouteStep ==
  ASSUME ImportInv, UNCHANGED <<wizard, listening, moved>>,
         \A q \in listening : /\ upload'[q].by = upload[q].by /\ upload'[q].file = upload[q].file
                              /\ upload'[q].entity = upload[q].entity
  PROVE  AnswerOfShownFile' /\ PreviewOfShownFile'
BY DEF ImportInv, AnswerOfShownFile, PreviewOfShownFile

(* An answer changes nothing else of its upload.                           *)
LEMMA AnswerPreserves ==
  ASSUME ImportInv, NEW r \in Upload, stage[r] \notin {"unused", "answered"},
         NEW status \in {201, 400, 403, 500}, NEW errors \in Nat, Answer(r, status, errors),
         status = 400 => errors > 0
  PROVE  /\ upload' \in [Upload -> Posted \cup {Absent}]
         /\ stage' \in [Upload -> {"unused", "sent", "check", "insert", "answered"}]
         /\ \A q \in Upload : stage'[q] # "unused" => upload'[q] \in Posted
         /\ \A q \in Upload : stage'[q] = "answered" => upload'[q].answer \in Reply
         /\ \A q \in Upload : stage[q] # "unused" => stage'[q] # "unused"
         /\ ErrorsCounted'
         /\ \A q \in Upload : stage[q] # "unused" =>
              /\ upload'[q].by = upload[q].by /\ upload'[q].file = upload[q].file
              /\ upload'[q].entity = upload[q].entity
         /\ \A q \in Upload \ {r} : upload'[q] = upload[q] /\ stage'[q] = stage[q]
         /\ stage'[r] = "answered"
<1> DEFINE u == upload[r]
           a == [status |-> status, errors |-> errors]
           v == [u EXCEPT !.answer = a]
<1>1. u = upload[r] /\ a = [status |-> status, errors |-> errors]
  OBVIOUS
<1>2. ImportTypes /\ u \in Posted /\ a \in Reply
  BY <1>1 DEF ImportInv, ImportTypes, Reply
<1>3. a.status = 400 => a.errors > 0
  BY <1>1
<1>4. /\ v \in Posted /\ v.answer = a /\ v.by = u.by /\ v.file = u.file
      /\ v.entity = u.entity
  BY <1>2 DEF Posted
<1>5. upload' = [upload EXCEPT ![r] = v] /\ stage' = [stage EXCEPT ![r] = "answered"]
  BY DEF Answer
<1> HIDE DEF u, a, v
<1>6. /\ \A q \in Upload \ {r} : upload'[q] = upload[q] /\ stage'[q] = stage[q]
      /\ upload'[r] = v /\ stage'[r] = "answered"
  BY <1>2, <1>5 DEF ImportTypes
<1>7. /\ upload' \in [Upload -> Posted \cup {Absent}]
      /\ stage' \in [Upload -> {"unused", "sent", "check", "insert", "answered"}]
  BY <1>2, <1>4, <1>5 DEF ImportTypes
<1>8. /\ \A q \in Upload : stage'[q] # "unused" => upload'[q] \in Posted
      /\ \A q \in Upload : stage'[q] = "answered" => upload'[q].answer \in Reply
      /\ \A q \in Upload : stage[q] # "unused" => stage'[q] # "unused"
  <2>1. \A q \in Upload : stage'[q] # "unused" => upload'[q] \in Posted
    BY <1>2, <1>4, <1>6 DEF ImportTypes
  <2>2. upload'[r].answer \in Reply
    BY <1>2, <1>4, <1>6
  <2>3. \A q \in Upload : stage'[q] = "answered" => upload'[q].answer \in Reply
    BY <1>2, <1>6, <2>2 DEF ImportTypes
  <2>4. \A q \in Upload : stage[q] # "unused" => stage'[q] # "unused"
    BY <1>6
  <2> QED
    BY <2>1, <2>3, <2>4
<1>9. ErrorsCounted'
  BY <1>3, <1>4, <1>6 DEF ImportInv, ErrorsCounted
<1>10. \A q \in Upload : stage[q] # "unused" =>
         /\ upload'[q].by = upload[q].by /\ upload'[q].file = upload[q].file
         /\ upload'[q].entity = upload[q].entity
  BY <1>1, <1>4, <1>6
<1> QED
  BY <1>6, <1>7, <1>8, <1>9, <1>10

(* What the parser finds: rows of the file, and errors when it finds some. *)
LEMMA ParseFinds ==
  ASSUME NEW file \in Files
  PROVE  LET p == Parse(file) IN
         /\ p.status \in {201, 400, 500} /\ p.errors \in Nat
         /\ p.status = 400 => p.errors > 0
         /\ p.valid \in Seq(Row)
         /\ \A i \in DOMAIN p.valid : p.valid[i].key \in Skus(file) \cup {NoKey}
<1> DEFINE K == {i \in DOMAIN file : file[i].ok}
           valid == Sublist(file, K)
           p == Parse(file)
<1>1. CASE file = Malformed \/ Len(file) >= MaxRows
  <2>1. p = [status |-> 500, valid |-> <<>>, errors |-> 1]
    BY <1>1 DEF Parse
  <2> QED
    BY <2>1
<1>2. CASE ~(file = Malformed \/ Len(file) >= MaxRows)
  <2>1. file \in Seq(Row) /\ K \in SUBSET DOMAIN file /\ Len(file) \in Nat
    BY <1>2 DEF Files
  <2>2. /\ valid \in Seq(Row) /\ Len(valid) <= Len(file)
        /\ \A n \in DOMAIN valid : Ascending(K)[n] \in K /\ valid[n] = file[Ascending(K)[n]]
    <3> HIDE DEF K
    <3> QED
      BY <2>1, SublistOf
  <2>3. p = [status |-> IF Len(valid) = Len(file) /\ file # <<>> THEN 201 ELSE 400,
             valid  |-> valid,
             errors |-> IF valid = <<>> THEN 1 ELSE Len(file) - Len(valid)]
    BY <1>2 DEF Parse
  <2> HIDE DEF valid, p
  <2>4. Len(valid) \in Nat /\ (file = <<>> => valid = <<>>)
    BY <2>1, <2>2
  <2>5. p.status \in {201, 400} /\ p.errors \in Nat /\ p.valid = valid
    BY <2>1, <2>2, <2>3, <2>4
  <2>6. p.status = 400 => p.errors > 0
    BY <2>1, <2>2, <2>3, <2>4
  <2>7. \A n \in DOMAIN valid : valid[n].key \in Skus(file) \cup {NoKey}
    BY <2>2 DEF Skus
  <2> QED
    BY <2>2, <2>5, <2>6, <2>7 DEF p
<1> QED
  BY <1>1, <1>2

(* The rows an upload stores: its own, with the file's SKUs.               *)
LEMMA NewRowsOfFile ==
  ASSUME NEW r \in Upload, upload[r].file \in Files
  PROVE  /\ NewRows(r) \in Seq(Record)
         /\ \A i \in DOMAIN NewRows(r) :
              /\ NewRows(r)[i].by = r
              /\ NewRows(r)[i].key \in Skus(upload[r].file) \cup {NoKey}
<1> DEFINE valid == Parse(upload[r].file).valid
<1>1. /\ valid \in Seq(Row)
      /\ \A i \in DOMAIN valid : valid[i].key \in Skus(upload[r].file) \cup {NoKey}
  BY ParseFinds
<1>2. NewRows(r) = [i \in DOMAIN valid |-> [key |-> valid[i].key, by |-> r]]
  BY DEF NewRows
<1> HIDE DEF valid
<1>3. DOMAIN valid = 1 .. Len(valid) /\ Len(valid) \in Nat
  BY <1>1
<1>4. \A i \in DOMAIN valid : [key |-> valid[i].key, by |-> r] \in Record
  <2>1. \A i \in DOMAIN valid : valid[i] \in Row
    BY <1>1
  <2> QED
    BY <2>1 DEF Record, Row
<1>5. /\ DOMAIN NewRows(r) = DOMAIN valid
      /\ \A i \in DOMAIN valid : NewRows(r)[i] = [key |-> valid[i].key, by |-> r]
  BY <1>2
<1>6. NewRows(r) \in Seq(Record)
  BY <1>2, <1>3, <1>4
<1> QED
  BY <1>1, <1>5, <1>6

LEMMA ReceivePreserves ==
  ASSUME ImportInv, NEW r \in Upload, Receive(r)
  PROVE  ImportInv'
<1>1. /\ ImportTypes /\ stage[r] = "sent" /\ upload[r].file \in Files
      /\ UNCHANGED <<wizard, listening, table, known, subscribed, moved>>
  BY DEF ImportInv, ImportTypes, Posted, Receive
<1>2. CASE \E status \in {201, 400, 403, 500}, errors \in Nat :
             Answer(r, status, errors) /\ (status = 400 => errors > 0)
  <2>1. PICK status \in {201, 400, 403, 500}, errors \in Nat :
          Answer(r, status, errors) /\ (status = 400 => errors > 0)
    BY <1>2
  <2>2. /\ upload' \in [Upload -> Posted \cup {Absent}]
        /\ stage' \in [Upload -> {"unused", "sent", "check", "insert", "answered"}]
        /\ \A q \in Upload : stage'[q] # "unused" => upload'[q] \in Posted
        /\ \A q \in Upload : stage'[q] = "answered" => upload'[q].answer \in Reply
        /\ \A q \in Upload : stage[q] # "unused" => stage'[q] # "unused"
        /\ ErrorsCounted'
        /\ \A q \in Upload : stage[q] # "unused" =>
             /\ upload'[q].by = upload[q].by /\ upload'[q].file = upload[q].file
             /\ upload'[q].entity = upload[q].entity
        /\ \A q \in Upload \ {r} : upload'[q] = upload[q] /\ stage'[q] = stage[q]
        /\ stage'[r] = "answered"
    BY <1>1, <2>1, AnswerPreserves
  <2>3. ImportTypes'
    BY <1>1, <2>2 DEF ImportTypes
  <2>4. RowsOfAnswered' /\ DuplicateSkusExplained'
    BY <1>1, <2>2 DEF ImportInv, RowsOfAnswered, DuplicateSkusExplained
  <2>5. NoneKnown'
    BY <1>1, <2>2 DEF ImportInv, NoneKnown, Skus
  <2>6. AnswerOfShownFile' /\ PreviewOfShownFile'
    BY <1>1, <2>2, RouteStep DEF ImportTypes
  <2> QED
    BY <2>2, <2>3, <2>4, <2>5, <2>6 DEF ImportInv
<1>3. CASE /\ stage' = [stage EXCEPT ![r] = IF upload[r].entity = "products"
                                                 /\ Skus(upload[r].file) # {}
                                            THEN "check" ELSE "insert"]
           /\ UNCHANGED upload
  <2>1. PICK next \in {"check", "insert"} :
          /\ stage' = [stage EXCEPT ![r] = next]
          /\ next = "insert" /\ upload[r].entity = "products" => Skus(upload[r].file) = {}
    BY <1>3
  <2>2. /\ stage'[r] = next /\ \A q \in Upload \ {r} : stage'[q] = stage[q]
        /\ stage' \in [Upload -> {"unused", "sent", "check", "insert", "answered"}]
    BY <1>1, <2>1 DEF ImportTypes
  <2>3. ImportTypes'
    BY <1>1, <1>3, <2>2 DEF ImportTypes
  <2>4. ErrorsCounted' /\ RowsOfAnswered' /\ DuplicateSkusExplained'
    BY <1>1, <1>3, <2>2
       DEF ImportInv, ErrorsCounted, RowsOfAnswered, DuplicateSkusExplained
  <2>5. NoneKnown'
    <3>1. ASSUME NEW q \in Upload, stage'[q] = "insert", upload[q].entity = "products",
                 NEW i \in 1 .. known[q]
          PROVE  table["products"][i].key \notin Skus(upload[q].file)
      BY <3>1, <2>1, <2>2 DEF ImportInv, NoneKnown
    <3>2. \A q \in Upload : known[q] <= Len(table["products"])
      BY DEF ImportInv, NoneKnown
    <3> QED
      BY <1>1, <1>3, <3>1, <3>2 DEF NoneKnown
  <2>6. AnswerOfShownFile' /\ PreviewOfShownFile'
    BY <1>1, <1>3, RouteStep
  <2> QED
    BY <2>3, <2>4, <2>5, <2>6 DEF ImportInv
<1> QED
  <2>1. PICK file : file = upload[r].file
    OBVIOUS
  <2>2. PICK p : p = Parse(file)
    OBVIOUS
  <2>3. p.status \in {201, 400, 500} /\ p.errors \in Nat /\ (p.status = 400 => p.errors > 0)
    BY <1>1, <2>1, <2>2, ParseFinds
  <2>4. \/ Answer(r, 403, 0)
        \/ p.status # 201 /\ Answer(r, p.status, p.errors)
        \/ /\ stage' = [stage EXCEPT ![r] = IF upload[r].entity = "products" /\ Skus(file) # {}
                                            THEN "check" ELSE "insert"]
           /\ UNCHANGED upload
    BY <2>1, <2>2 DEF Receive
  <2>5. CASE Answer(r, 403, 0)
    BY <1>2, <2>5
  <2>6. CASE Answer(r, p.status, p.errors)
    BY <1>2, <2>3, <2>6
  <2> QED
    BY <1>3, <2>1, <2>4, <2>5, <2>6

LEMMA CheckSkusPreserves ==
  ASSUME ImportInv, NEW r \in Upload, CheckSkus(r)
  PROVE  ImportInv'
<1> DEFINE p == table["products"]
<1>1. /\ ImportTypes /\ stage[r] = "check" /\ upload[r].file \in Files
      /\ known' = [known EXCEPT ![r] = Len(p)]
      /\ UNCHANGED <<wizard, listening, table, subscribed, moved>>
  BY DEF ImportInv, ImportTypes, Posted, CheckSkus
<1>2. p \in Seq(Record) /\ DOMAIN p = 1 .. Len(p) /\ Len(p) \in Nat
  BY <1>1, EntityAssumption DEF ImportTypes
<1> HIDE DEF p
<1>3. /\ known' \in [Upload -> Nat] /\ known'[r] = Len(p)
      /\ \A q \in Upload \ {r} : known'[q] = known[q]
  BY <1>1, <1>2 DEF ImportTypes
(* An upload that has stored rows is not looking for SKUs.                 *)
<1>4. \A i \in DOMAIN p : p[i].by # r
  BY <1>1 DEF ImportInv, RowsOfAnswered, p
<1>5. DuplicateSkusExplained'
  <2>1. p' = p
    BY <1>1 DEF p
  <2>2. ASSUME NEW i \in DOMAIN p, NEW j \in DOMAIN p,
               i < j, p[i].key = p[j].key, p[i].key # NoKey
        PROVE  p[j].by \in {p[i].by, Absent} \/ i > known'[p[j].by]
    <3>1. p[j].by \in {p[i].by, Absent} \/ i > known[p[j].by]
      BY <2>2 DEF ImportInv, DuplicateSkusExplained, p
    <3>2. p[j].by \in Upload \cup {Absent} /\ p[j].by # r
      <4>1. p[j] \in Record
        BY <1>2
      <4> QED
        BY <4>1, <1>4 DEF Record
    <3> QED
      BY <1>3, <3>1, <3>2
  <2> QED
    BY <2>1, <2>2 DEF DuplicateSkusExplained, p
<1>6. CASE Answer(r, 400, 1)
  <2>1. /\ upload' \in [Upload -> Posted \cup {Absent}]
        /\ stage' \in [Upload -> {"unused", "sent", "check", "insert", "answered"}]
        /\ \A q \in Upload : stage'[q] # "unused" => upload'[q] \in Posted
        /\ \A q \in Upload : stage'[q] = "answered" => upload'[q].answer \in Reply
        /\ \A q \in Upload : stage[q] # "unused" => stage'[q] # "unused"
        /\ ErrorsCounted'
        /\ \A q \in Upload : stage[q] # "unused" =>
             /\ upload'[q].by = upload[q].by /\ upload'[q].file = upload[q].file
             /\ upload'[q].entity = upload[q].entity
        /\ \A q \in Upload \ {r} : upload'[q] = upload[q] /\ stage'[q] = stage[q]
        /\ stage'[r] = "answered"
    BY <1>1, <1>6, AnswerPreserves
  <2>2. ImportTypes'
    BY <1>1, <1>3, <2>1 DEF ImportTypes
  <2>3. RowsOfAnswered'
    BY <1>1, <2>1 DEF ImportInv, RowsOfAnswered
  <2>4. NoneKnown'
    BY <1>1, <1>2, <1>3, <2>1 DEF ImportInv, NoneKnown, p
  <2>5. AnswerOfShownFile' /\ PreviewOfShownFile'
    BY <1>1, <2>1, RouteStep DEF ImportTypes
  <2> QED
    BY <1>5, <2>1, <2>2, <2>3, <2>4, <2>5 DEF ImportInv
<1>7. CASE /\ Skus(upload[r].file) \cap StoredSkus = {}
           /\ stage' = [stage EXCEPT ![r] = "insert"]
           /\ UNCHANGED upload
  <2>1. /\ stage'[r] = "insert" /\ \A q \in Upload \ {r} : stage'[q] = stage[q]
        /\ stage' \in [Upload -> {"unused", "sent", "check", "insert", "answered"}]
    BY <1>1, <1>7 DEF ImportTypes
  <2>2. ImportTypes'
    BY <1>1, <1>3, <1>7, <2>1 DEF ImportTypes
  <2>3. ErrorsCounted' /\ RowsOfAnswered'
    BY <1>1, <1>7, <2>1 DEF ImportInv, ErrorsCounted, RowsOfAnswered
  <2>4. \A i \in DOMAIN p : p[i].key \notin Skus(upload[r].file)
    BY <1>7 DEF StoredSkus, p
  <2>5. ASSUME NEW q \in Upload, stage'[q] = "insert", upload[q].entity = "products",
               NEW i \in 1 .. known'[q]
        PROVE  p[i].key \notin Skus(upload[q].file)
    BY <1>2, <1>3, <2>1, <2>4, <2>5 DEF ImportInv, NoneKnown, p
  <2>6. \A q \in Upload : known'[q] <= Len(p)
    BY <1>2, <1>3 DEF ImportInv, NoneKnown, p
  <2>7. NoneKnown'
    BY <1>1, <1>7, <2>5, <2>6 DEF NoneKnown, p
  <2>8. AnswerOfShownFile' /\ PreviewOfShownFile'
    BY <1>1, <1>7, RouteStep
  <2> QED
    BY <1>5, <2>2, <2>3, <2>7, <2>8 DEF ImportInv
<1> QED
  BY <1>6, <1>7 DEF CheckSkus

(* The rows of the table when some are added at its end.                   *)
LEMMA Appended ==
  ASSUME NEW e \in Entity, table \in [Entity -> Seq(Record)], NEW rows \in Seq(Record),
         table' = [table EXCEPT ![e] = @ \o rows]
  PROVE  /\ table' \in [Entity -> Seq(Record)]
         /\ \A d \in Entity \ {e} : table'[d] = table[d]
         /\ table'[e] = table[e] \o rows
         /\ Len(table[e]) \in Nat /\ Len(rows) \in Nat
         /\ DOMAIN table[e] = 1 .. Len(table[e]) /\ DOMAIN rows = 1 .. Len(rows)
         /\ Len(table'[e]) = Len(table[e]) + Len(rows)
         /\ DOMAIN table'[e] = 1 .. (Len(table[e]) + Len(rows))
         /\ \A i \in DOMAIN table[e] : table'[e][i] = table[e][i]
         /\ \A i \in DOMAIN table'[e] \ DOMAIN table[e] :
              /\ i - Len(table[e]) \in DOMAIN rows
              /\ table'[e][i] = rows[i - Len(table[e])]
<1>1. PICK s : s = table[e]
  OBVIOUS
<1>2. PICK t : t = s \o rows
  OBVIOUS
<1>3. s \in Seq(Record) /\ table'[e] = t /\ table' = [table EXCEPT ![e] = t]
  BY <1>1, <1>2
<1>4. /\ t \in Seq(Record) /\ Len(t) = Len(s) + Len(rows)
      /\ Len(s) \in Nat /\ Len(rows) \in Nat
      /\ DOMAIN s = 1 .. Len(s) /\ DOMAIN rows = 1 .. Len(rows)
      /\ DOMAIN t = 1 .. (Len(s) + Len(rows))
  BY <1>2, <1>3
<1>5. \A i \in DOMAIN s : t[i] = s[i]
  BY <1>2, <1>3, <1>4
<1>6. \A i \in DOMAIN t \ DOMAIN s : i - Len(s) \in DOMAIN rows /\ t[i] = rows[i - Len(s)]
  BY <1>2, <1>3, <1>4
<1>7. table' \in [Entity -> Seq(Record)] /\ \A d \in Entity \ {e} : table'[d] = table[d]
  BY <1>3, <1>4
<1> QED
  BY <1>1, <1>2, <1>3, <1>4, <1>5, <1>6, <1>7

LEMMA InsertPreserves ==
  ASSUME ImportInv, NEW r \in Upload, Insert(r)
  PROVE  ImportInv'
<1> DEFINE p == table["products"]
           e == upload[r].entity
           rows == NewRows(r)
<1>1. /\ ImportTypes /\ stage[r] = "insert" /\ upload[r].file \in Files /\ e \in Entity
      /\ UNCHANGED <<wizard, listening, known, subscribed, moved>>
  BY DEF ImportInv, ImportTypes, Posted, Insert
<1>2. PICK status \in {201, 500} : Answer(r, status, 0)
  BY DEF Insert
<1>3. /\ upload' \in [Upload -> Posted \cup {Absent}]
      /\ stage' \in [Upload -> {"unused", "sent", "check", "insert", "answered"}]
      /\ \A q \in Upload : stage'[q] # "unused" => upload'[q] \in Posted
      /\ \A q \in Upload : stage'[q] = "answered" => upload'[q].answer \in Reply
      /\ \A q \in Upload : stage[q] # "unused" => stage'[q] # "unused"
      /\ ErrorsCounted'
      /\ \A q \in Upload : stage[q] # "unused" =>
           /\ upload'[q].by = upload[q].by /\ upload'[q].file = upload[q].file
           /\ upload'[q].entity = upload[q].entity
      /\ \A q \in Upload \ {r} : upload'[q] = upload[q] /\ stage'[q] = stage[q]
      /\ stage'[r] = "answered"
  BY <1>1, <1>2, AnswerPreserves
<1>4. AnswerOfShownFile' /\ PreviewOfShownFile'
  BY <1>1, <1>3, RouteStep DEF ImportTypes
<1>5. CASE UNCHANGED table
  <2>1. ImportTypes'
    BY <1>1, <1>3, <1>5 DEF ImportTypes
  <2>2. RowsOfAnswered' /\ DuplicateSkusExplained'
    BY <1>1, <1>3, <1>5 DEF ImportInv, RowsOfAnswered, DuplicateSkusExplained
  <2>3. NoneKnown'
    BY <1>1, <1>3, <1>5 DEF ImportInv, NoneKnown
  <2> QED
    BY <1>3, <1>4, <2>1, <2>2, <2>3 DEF ImportInv
<1>6. CASE table' = [table EXCEPT ![e] = @ \o rows]
  <2>1. /\ rows \in Seq(Record)
        /\ \A i \in DOMAIN rows : /\ rows[i].by = r
                                  /\ rows[i].key \in Skus(upload[r].file) \cup {NoKey}
    BY <1>1, NewRowsOfFile
  <2> HIDE DEF rows, e
  <2>2. /\ table' \in [Entity -> Seq(Record)]
        /\ \A d \in Entity \ {e} : table'[d] = table[d]
        /\ Len(table[e]) \in Nat /\ Len(rows) \in Nat
        /\ DOMAIN table[e] = 1 .. Len(table[e])
        /\ Len(table'[e]) = Len(table[e]) + Len(rows)
        /\ DOMAIN table'[e] = 1 .. (Len(table[e]) + Len(rows))
        /\ \A i \in DOMAIN table[e] : table'[e][i] = table[e][i]
        /\ \A i \in DOMAIN table'[e] \ DOMAIN table[e] :
             i - Len(table[e]) \in DOMAIN rows /\ table'[e][i] = rows[i - Len(table[e])]
    BY <1>1, <1>6, <2>1, Appended DEF ImportTypes
  <2>3. ImportTypes'
    BY <1>1, <1>3, <2>2 DEF ImportTypes
  <2>4. CASE e # "products"
    <3>1. table'["products"] = table["products"]
      BY <2>2, <2>4, EntityAssumption
    <3>2. RowsOfAnswered' /\ DuplicateSkusExplained'
      BY <1>1, <1>3, <3>1 DEF ImportInv, RowsOfAnswered, DuplicateSkusExplained
    <3>3. NoneKnown'
      BY <1>1, <1>3, <3>1 DEF ImportInv, NoneKnown
    <3> QED
      BY <1>3, <1>4, <2>3, <3>2, <3>3 DEF ImportInv
  <2>5. CASE e = "products"
    <3>1. PICK t : t = table'["products"]
      OBVIOUS
    <3>2. /\ p \in Seq(Record) /\ t \in Seq(Record) /\ Len(p) \in Nat /\ Len(rows) \in Nat
          /\ DOMAIN p = 1 .. Len(p) /\ DOMAIN t = 1 .. (Len(p) + Len(rows))
          /\ Len(t) = Len(p) + Len(rows)
          /\ \A i \in DOMAIN p : t[i] = p[i]
          /\ \A i \in DOMAIN t \ DOMAIN p :
               t[i].by = r /\ t[i].key \in Skus(upload[r].file) \cup {NoKey}
      <4>1. p = table[e] /\ t = table'[e]
        BY <2>5, <3>1
      <4>2. p \in Seq(Record) /\ t \in Seq(Record)
        BY <1>1, <2>2, <4>1 DEF ImportTypes, e
      <4> HIDE DEF p
      <4>3. \A i \in DOMAIN t \ DOMAIN p : i - Len(p) \in DOMAIN rows /\ t[i] = rows[i - Len(p)]
        BY <2>2, <4>1
      <4>4. /\ DOMAIN p = 1 .. Len(p) /\ DOMAIN t = 1 .. (Len(p) + Len(rows))
            /\ Len(p) \in Nat /\ Len(rows) \in Nat /\ Len(t) = Len(p) + Len(rows)
        BY <2>2, <4>1
      <4>5. \A i \in DOMAIN p : t[i] = p[i]
        BY <2>2, <4>1
      <4>6. \A i \in DOMAIN t \ DOMAIN p :
              t[i].by = r /\ t[i].key \in Skus(upload[r].file) \cup {NoKey}
        BY <2>1, <4>3
      <4> QED
        BY <4>2, <4>4, <4>5, <4>6
    <3> HIDE DEF p
    <3>3. \A i \in 1 .. known[r] : p[i].key \notin Skus(upload[r].file)
      BY <1>1, <2>5 DEF ImportInv, NoneKnown, p, e
    <3>4. \A q \in Upload : known[q] \in Nat /\ known[q] <= Len(p)
      BY <1>1 DEF ImportInv, ImportTypes, NoneKnown, p
    <3>5. RowsOfAnswered'
      <4>1. ASSUME NEW i \in DOMAIN t, t[i].by \in Upload
            PROVE  stage'[t[i].by] = "answered"
        <5>1. CASE i \in DOMAIN p
          BY <5>1, <4>1, <1>3, <3>2 DEF ImportInv, RowsOfAnswered, p
        <5>2. CASE i \notin DOMAIN p
          BY <5>2, <1>3, <3>2
        <5> QED
          BY <5>1, <5>2
      <4> QED
        BY <3>1, <4>1 DEF RowsOfAnswered
    <3>6. NoneKnown'
      <4>1. ASSUME NEW q \in Upload, stage'[q] = "insert", upload'[q].entity = "products",
                   NEW i \in 1 .. known[q]
            PROVE  t[i].key \notin Skus(upload'[q].file)
        <5>1. q # r /\ stage[q] = "insert" /\ upload'[q] = upload[q]
          BY <1>3, <4>1
        <5>2. i \in DOMAIN p /\ t[i] = p[i]
          BY <3>2, <3>4
        <5> QED
          BY <4>1, <5>1, <5>2 DEF ImportInv, NoneKnown, p
      <4>2. \A q \in Upload : known[q] <= Len(t)
        BY <3>2, <3>4
      <4> QED
        BY <1>1, <3>1, <4>1, <4>2 DEF NoneKnown
    <3>7. DuplicateSkusExplained'
      <4>1. ASSUME NEW i \in DOMAIN t, NEW j \in DOMAIN t,
                   i < j, t[i].key = t[j].key, t[i].key # NoKey
            PROVE  t[j].by \in {t[i].by, Absent} \/ i > known[t[j].by]
        <5>1. CASE j \in DOMAIN p
          <6>1. i \in DOMAIN p
            BY <3>2, <4>1, <5>1
          <6> QED
            BY <3>2, <4>1, <5>1, <6>1 DEF ImportInv, DuplicateSkusExplained, p
        <5>2. CASE j \notin DOMAIN p /\ i \notin DOMAIN p
          BY <3>2, <5>2
        <5>3. CASE j \notin DOMAIN p /\ i \in DOMAIN p
          <6>1. t[j].by = r /\ p[i].key \in Skus(upload[r].file)
            BY <3>2, <4>1, <5>3
          <6>2. i \notin 1 .. known[r]
            BY <3>3, <6>1
          <6>3. i > known[r]
            BY <3>2, <3>4, <5>3, <6>2
          <6> QED
            BY <6>1, <6>3
        <5> QED
          BY <5>1, <5>2, <5>3
      <4> QED
        BY <1>1, <3>1, <4>1 DEF DuplicateSkusExplained
    <3> QED
      BY <1>3, <1>4, <2>3, <3>5, <3>6, <3>7 DEF ImportInv
  <2> QED
    BY <2>4, <2>5
<1> QED
  BY <1>5, <1>6 DEF Insert

LEMMA CreateProductPreserves ==
  ASSUME ImportInv, NEW key \in FormKey, CreateProduct(key)
  PROVE  ImportInv'
<1> DEFINE p == table["products"]
           row == [key |-> key, by |-> Absent]
<1>1. /\ ImportTypes
      /\ UNCHANGED <<wizard, upload, stage, listening, known, subscribed, moved>>
      /\ table' = [table EXCEPT !["products"] = Append(@, row)]
  BY DEF ImportInv, CreateProduct
<1>2. row \in Record /\ row.by = Absent
  BY FormKeyAssumption DEF Record
<1> HIDE DEF row
<1>3. p \in Seq(Record)
  BY <1>1, EntityAssumption DEF ImportTypes
<1> DEFINE t == Append(p, row)
<1>4. /\ t \in Seq(Record) /\ Len(p) \in Nat /\ DOMAIN p = 1 .. Len(p)
      /\ Len(t) = Len(p) + 1 /\ DOMAIN t = 1 .. (Len(p) + 1)
      /\ \A i \in DOMAIN p : t[i] = p[i]
      /\ t[Len(p) + 1] = row
  <2> HIDE DEF p
  <2> QED
    BY <1>2, <1>3
<1>5. table'["products"] = t /\ table' \in [Entity -> Seq(Record)]
  <2>1. table' = [table EXCEPT !["products"] = t]
    BY <1>1
  <2> HIDE DEF t
  <2> QED
    BY <1>1, <1>4, <2>1, EntityAssumption DEF ImportTypes
<1> HIDE DEF p, t
<1>6. ImportTypes'
  BY <1>1, <1>5 DEF ImportTypes
<1>7. ErrorsCounted'
  BY <1>1 DEF ImportInv, ErrorsCounted
<1>8. AnswerOfShownFile' /\ PreviewOfShownFile'
  BY <1>1, RouteStep
<1>9. RowsOfAnswered'
  <2>1. \A i \in DOMAIN t : t[i].by \in Upload => i \in DOMAIN p /\ t[i] = p[i]
    BY <1>2, <1>4, NamesDiffer
  <2> QED
    BY <1>1, <1>5, <2>1 DEF ImportInv, RowsOfAnswered, p
<1>10. NoneKnown'
  <2>1. \A q \in Upload : known[q] \in Nat /\ known[q] <= Len(p)
    BY <1>1 DEF ImportInv, ImportTypes, NoneKnown, p
  <2>2. \A q \in Upload : known[q] <= Len(t) /\ \A i \in 1 .. known[q] : t[i] = p[i]
    BY <2>1, <1>4
  <2> QED
    BY <1>1, <1>5, <2>2 DEF ImportInv, NoneKnown, p
<1>11. DuplicateSkusExplained'
  <2>1. ASSUME NEW i \in DOMAIN t, NEW j \in DOMAIN t,
               i < j, t[i].key = t[j].key, t[i].key # NoKey
        PROVE  t[j].by \in {t[i].by, Absent} \/ i > known[t[j].by]
    <3>1. CASE j \in DOMAIN p
      <4>1. i \in DOMAIN p
        BY <1>4, <2>1, <3>1
      <4> QED
        BY <1>4, <2>1, <3>1, <4>1 DEF ImportInv, DuplicateSkusExplained, p
    <3>2. CASE j \notin DOMAIN p
      BY <1>2, <1>4, <3>2
    <3> QED
      BY <3>1, <3>2
  <2> QED
    BY <1>1, <1>5, <2>1 DEF DuplicateSkusExplained
<1> QED
  BY <1>6, <1>7, <1>8, <1>9, <1>10, <1>11 DEF ImportInv

(* A file exported from the stored rows is one the wizard can be given.    *)
LEMMA ExportIsFile ==
  ASSUME ImportTypes, NEW e \in Entity
  PROVE  Export(e) \in Files
<1> DEFINE s == table[e]
           back == Reverse(s)
<1>1. s \in Seq(Record) /\ DOMAIN s = 1 .. Len(s) /\ Len(s) \in Nat
  BY DEF ImportTypes
<1>2. \A i \in DOMAIN s : back[i] \in Record
  <2>1. ASSUME NEW i \in DOMAIN s
        PROVE  back[i] = s[(Len(s) - i) + 1] /\ (Len(s) - i) + 1 \in DOMAIN s
    <3> HIDE DEF s
    <3> QED
      BY <1>1 DEF Reverse
  <2> HIDE DEF s, back
  <2> QED
    BY <1>1, <2>1
<1> HIDE DEF s, back
<1> DEFINE row(i) == [ok |-> TRUE, key |-> EscapeFormula(back[i].key)]
<1>3. \A i \in DOMAIN s : row(i) \in Row
  BY <1>2 DEF Record, Row, EscapeFormula, Key
<1>4. Export(e) = [i \in DOMAIN s |-> row(i)]
  BY DEF Export, s, back
<1> HIDE DEF row
<1>5. [i \in DOMAIN s |-> row(i)] \in Seq(Row)
  BY <1>1, <1>3
<1> QED
  BY <1>4, <1>5 DEF Files

LEMMA ImportInvInit == ImportInit => ImportInv
<1> SUFFICES ASSUME ImportInit PROVE ImportInv
  OBVIOUS
<1>1. "products" \in Entity
  BY EntityAssumption
<1>2. ImportTypes
  <2>1. [tab |-> "products", file |-> Absent, step |-> "idle", preview |-> Absent,
         error |-> FALSE] \in Shown
    BY <1>1 DEF Shown, Steps
  <2>2. wizard \in [Wizard -> Shown]
    BY <2>1 DEF ImportInit
  <2>3. table \in [Entity -> Seq(Record)] /\ known \in [Upload -> Nat]
    BY DEF ImportInit
  <2>4. upload \in [Upload -> Posted \cup {Absent}] /\ \A r \in Upload : stage[r] = "unused"
    BY DEF ImportInit
  <2>5. stage \in [Upload -> {"unused", "sent", "check", "insert", "answered"}]
    BY DEF ImportInit
  <2>6. listening = {} /\ moved = {}
    BY DEF ImportInit
  <2> QED
    BY <2>2, <2>3, <2>4, <2>5, <2>6 DEF ImportTypes
<1>3. table["products"] = <<>>
  BY <1>1 DEF ImportInit
<1>4. ErrorsCounted /\ RowsOfAnswered /\ NoneKnown /\ DuplicateSkusExplained
  BY <1>3 DEF ImportInit, ErrorsCounted, RowsOfAnswered, NoneKnown, DuplicateSkusExplained
<1>5. AnswerOfShownFile /\ PreviewOfShownFile
  BY DEF ImportInit, AnswerOfShownFile, PreviewOfShownFile
<1> QED
  BY <1>2, <1>4, <1>5 DEF ImportInv

LEMMA ImportInvNext == ImportInv /\ [ImportNext]_importVars => ImportInv'
<1> SUFFICES ASSUME ImportInv, [ImportNext]_importVars PROVE ImportInv'
  OBVIOUS
<1>1. CASE \E w \in Wizard, f \in File : SelectFile(w, f)
  BY <1>1, SelectFilePreserves, FileAssumption DEF Files
<1>2. CASE \E w \in Wizard, e \in Entity : SelectFile(w, Export(e))
  BY <1>2, SelectFilePreserves, ExportIsFile DEF ImportInv
<1>3. CASE \E w \in Wizard, e \in Entity : SwitchTab(w, e)
  BY <1>3, SwitchTabPreserves
<1>4. CASE \E w \in Wizard, r \in Upload : Validate(w, r)
  BY <1>4, ValidatePreserves
<1>5. CASE \E w \in Wizard : ResetFile(w)
  BY <1>5, ResetFilePreserves
<1>6. CASE \E r \in Upload : Receive(r) \/ CheckSkus(r) \/ Insert(r) \/ Deliver(r)
                             \/ LoseAnswer(r)
  BY <1>6, ReceivePreserves, CheckSkusPreserves, InsertPreserves, DeliverPreserves,
     LoseAnswerPreserves
<1>7. CASE \E key \in FormKey : CreateProduct(key)
  BY <1>7, CreateProductPreserves
<1>8. CASE UNCHANGED importVars
  BY <1>8 DEF importVars, ImportInv, ImportTypes, ErrorsCounted, RowsOfAnswered, NoneKnown,
     AnswerOfShownFile, DuplicateSkusExplained, PreviewOfShownFile
<1> QED
  BY <1>1, <1>2, <1>3, <1>4, <1>5, <1>6, <1>7, <1>8 DEF ImportNext

(* The inductive invariant of the import wizard and its uploads, whatever  *)
(* the files and whenever answers come (CsvImporter.tsx, csvService.ts).   *)
THEOREM ImportInvariance == ImportSpec => []ImportInv
<1> QED
  BY ImportInvInit, ImportInvNext, PTL DEF ImportSpec

(***************************************************************************)
(* Two products have one SKU only when both came with one file, when the   *)
(* form made the later one, or when the later one's import had looked for  *)
(* its SKUs before the earlier one was there.                              *)
(***************************************************************************)
THEOREM DuplicatesExplained == ImportSpec => []DuplicateSkusExplained
<1>1. ImportInv => DuplicateSkusExplained
  BY DEF ImportInv
<1> QED
  BY <1>1, ImportInvariance, PTL

(***************************************************************************)
(* The errors on the page are those of the file and the tab it shows,      *)
(* unless one of the two changed during a validation or under a preview.   *)
(***************************************************************************)
THEOREM PreviewIsOfShownFile == ImportSpec => []PreviewOfShownFile
<1>1. ImportInv => PreviewOfShownFile
  BY DEF ImportInv
<1> QED
  BY <1>1, ImportInvariance, PTL

--------------------------------------------------------------------------------
(***************************************************************************)
(* The pages.                                                              *)
(***************************************************************************)
Kept == [entry : Nat, key : Nat]
ListType ==
  [rows : Seq(Nat), of : Nat, query : Nat, total : Nat, loading : BOOLEAN, failed : BOOLEAN]
FormType == [open : BOOLEAN, isNew : BOOLEAN, saving : BOOLEAN, entry : Nat, key : Nat]
HistoryType ==
  [told : SUBSET (Nat \X Nat), made : SUBSET Nat, lost : SUBSET Nat, recovered : SUBSET Nat,
   mixed : BOOLEAN, raced : BOOLEAN]

Sent(p) == posts[p] # None
Pending(p) == Sent(p) /\ posts[p].answer = None
Created(p) == Sent(p) /\ posts[p].answer \notin {None, 0}

PagesTypes ==
  /\ page \in Page
  /\ mounted \in BOOLEAN
  /\ list \in ListType
  /\ loads \in [Load -> Fetch \cup {None}]
  /\ form \in FormType
  /\ posts \in [Post -> Submission \cup {None}]
  /\ stored \in Seq(Kept)
  /\ draft \in Nat
  /\ entries \in Nat
  /\ history \in HistoryType

(* Answers are stored rows; entries and keys come from the entries made.   *)
Bounds ==
  /\ \A p \in Post : Sent(p) =>
       /\ posts[p].entry \in 1 .. entries /\ posts[p].key <= entries
       /\ Form.keyed <=> posts[p].key # 0
  /\ \A p \in Post : Created(p) => posts[p].answer \in DOMAIN stored
  /\ \A r \in DOMAIN stored :
       /\ stored[r].entry <= entries /\ stored[r].key <= entries
       /\ Form.keyed /\ stored[r].entry # 0 => stored[r].key # 0
  /\ form.open =>
       /\ form.entry \in 1 .. entries /\ form.key <= entries
       /\ Form.keyed <=> form.key # 0
  /\ draft <= entries
  /\ Form.drafts = "none" => draft = 0

(* A page that is not there hears nothing and has nothing open.            *)
Absence == ~mounted => Heard = {} /\ Loading = {} /\ ~form.open

(* The form that is shown waits for one submission, its own; only a modal  *)
(* goes while its submission is heard.                                     *)
Attached == {p \in Heard : posts[p].attached}
Waits ==
  /\ \A p, q \in Attached : p = q
  /\ Attached # {} => form.saving /\ (form.open \/ ~Form.ownSaving)
  /\ Form.place # "modal" => Heard = Attached

(* An unheard submission may be stored without its user knowing.           *)
UnheardLost == \A p \in Post : Pending(p) /\ ~posts[p].heard => posts[p].entry \in history.lost

--------------------------------------------------------------------------------
(* The list.                                                               *)
OneLoad ==
  mounted /\ ~history.mixed =>
    \/ Loading = {} /\ ~list.loading /\ (list.failed \/ list.of = list.query)
    \/ /\ list.loading
       /\ \E l \in Load : Loading = {l} /\ loads[l].query = list.query

OnceIn(r, rows) ==
  \E i \in DOMAIN rows : rows[i] = r /\ \A j \in DOMAIN rows : rows[j] = r => j = i

(* The rows of a list with a modal, and what the page was told it created. *)
RowsStored ==
  /\ \A i \in DOMAIN list.rows : list.rows[i] \in DOMAIN stored
  /\ \A l \in Loading : loads[l].seen # None => loads[l].seen <= Len(stored)
  /\ history.made \subseteq DOMAIN stored
  /\ \A p, q \in Post : Created(p) /\ Created(q) /\ posts[p].answer = posts[q].answer => p = q

(* As long as no fetch met a submission: a success that is still to be     *)
(* heard is not in the list, and one that was is there once, or will be.   *)
MadeShown ==
  mounted /\ ~history.raced =>
    /\ Loading = {} \/ Heard = {}
    /\ \A p \in Heard : Created(p) =>
         \A i \in DOMAIN list.rows : list.rows[i] # posts[p].answer
    /\ ~history.mixed =>
         /\ \A l \in Loading : loads[l].seen # None => history.made \subseteq 1 .. loads[l].seen
         /\ Loading = {} => \A r \in history.made : OnceIn(r, list.rows)

ModalRows == Form.place = "modal" => RowsStored /\ MadeShown

--------------------------------------------------------------------------------
(* The entries.                                                            *)
Certain(e) == e # 0 /\ e \notin history.lost \cup history.recovered

(* An entry of which every answer was heard is on its way once, or stored  *)
(* once.                                                                   *)
OnceOnItsWay ==
  /\ \A p, q \in Post :
       Pending(p) /\ Pending(q) /\ posts[p].entry = posts[q].entry /\ Certain(posts[p].entry)
         => p = q
  /\ \A p \in Post : \A r \in DOMAIN stored :
       Pending(p) /\ Certain(posts[p].entry) => stored[r].entry # posts[p].entry
  /\ \A r, s \in DOMAIN stored :
       stored[r].entry = stored[s].entry /\ Certain(stored[r].entry) => r = s

(* The form shows it only while it waits for the answer.                   *)
Awaited(e) ==
  \E p \in Attached : posts[p].entry = e /\ posts[p].answer # 0
ShownIsAwaited ==
  form.open /\ Certain(form.entry) =>
    /\ \A p \in Post : Pending(p) /\ posts[p].entry = form.entry => Awaited(form.entry)
    /\ \A r \in DOMAIN stored : stored[r].entry = form.entry => Awaited(form.entry)

(* A draft that is deleted with its entry is not one of a stored entry.    *)
DraftNotStored ==
  Form.drafts # "left" /\ Certain(draft) => \A r \in DOMAIN stored : stored[r].entry # draft

(* With keys: an entry keeps its key, and a key has one row.               *)
OneKey ==
  Form.keyed =>
    /\ \A r, s \in DOMAIN stored : stored[r].key = stored[s].key /\ stored[r].key # 0 => r = s
    /\ \A r, s \in DOMAIN stored :
         /\ stored[r].entry = stored[s].entry /\ stored[r].entry # 0
         /\ stored[r].entry \notin history.recovered
         => stored[r].key = stored[s].key
    /\ \A p \in Post : \A r \in DOMAIN stored :
         /\ Pending(p) /\ posts[p].entry = stored[r].entry
         /\ posts[p].entry \notin history.recovered
         => posts[p].key = stored[r].key
    /\ \A p, q \in Post :
         /\ Pending(p) /\ Pending(q) /\ posts[p].entry = posts[q].entry
         /\ posts[p].entry \notin history.recovered
         => posts[p].key = posts[q].key
    /\ form.open /\ form.entry \notin history.recovered =>
         /\ \A p \in Post : Pending(p) /\ posts[p].entry = form.entry => posts[p].key = form.key
         /\ \A r \in DOMAIN stored : stored[r].entry = form.entry => stored[r].key = form.key

(* What an answer is about, and will be about.                             *)
About(e, r) ==
  stored[r].entry = e \/ (Form.keyed /\ stored[r].entry \in history.lost)
AnswersOfEntry ==
  /\ \A p \in Heard : Created(p) => About(posts[p].entry, posts[p].answer)
  /\ Form.keyed =>
       /\ \A p \in Heard : \A r \in DOMAIN stored :
            Pending(p) /\ stored[r].key = posts[p].key => About(posts[p].entry, r)
       /\ \A r \in DOMAIN stored :
            form.open /\ stored[r].key = form.key =>
              \/ stored[r].entry \in history.lost
              \/ \E p \in Heard : posts[p].answer = r
  /\ \A told \in history.told : told[2] \in DOMAIN stored /\ About(told[1], told[2])

PagesInv ==
  /\ PagesTypes
  /\ Bounds
  /\ Absence
  /\ Waits
  /\ UnheardLost
  /\ OneLoad
  /\ ModalRows
  /\ OnceOnItsWay
  /\ ShownIsAwaited
  /\ DraftNotStored
  /\ OneKey
  /\ AnswersOfEntry

--------------------------------------------------------------------------------
(* What the forms and the pages have in common.                            *)
FormFields ==
  {"place", "byUrl", "dropsNew", "ownSaving", "fits", "keyed", "drafts", "after"}
FormTraits(f) ==
  /\ f.place \in {"modal", "page", "none"}
  /\ f.byUrl \in BOOLEAN /\ f.dropsNew \in BOOLEAN /\ f.ownSaving \in BOOLEAN
  /\ f.fits \in BOOLEAN /\ f.keyed \in BOOLEAN /\ f.drafts \in {"none", "left", "deleted"}
  /\ f.place = "modal" => ~f.keyed /\ f.after \in {"prepend", "reload"}
  /\ f.place # "modal" => f.ownSaving /\ ~f.byUrl /\ f.after \in {"leave", "again"}
  /\ ~f.ownSaving => ~f.byUrl /\ f.after = "reload"
  /\ f.keyed => f.drafts # "left"

LEMMA EveryForm ==
  \A f \in {CustomerForm, ProductForm, SupplierForm, PurchaseForm, WarehouseForm, LocationForm,
            PaymentForm, DocumentForm, AdjustmentForm, DocumentActions, NoForm} : FormTraits(f)
<1>1. FormTraits(CustomerForm) /\ DOMAIN CustomerForm = FormFields
  BY DEF CustomerForm, FormTraits, FormFields
<1>2. FormTraits(ProductForm) /\ FormTraits(SupplierForm)
  BY DEF ProductForm, SupplierForm, CustomerForm, FormTraits
<1>3. FormTraits(PurchaseForm)
  BY DEF PurchaseForm, CustomerForm, FormTraits
<1>4. FormTraits(WarehouseForm) /\ FormTraits(LocationForm)
  BY DEF WarehouseForm, LocationForm, CustomerForm, FormTraits
<1>5. FormTraits(PaymentForm) /\ FormTraits(DocumentForm)
  BY DEF PaymentForm, DocumentForm, CustomerForm, FormTraits
<1>6. FormTraits(AdjustmentForm)
  BY DEF AdjustmentForm, PaymentForm, DocumentForm, CustomerForm, FormTraits
<1>7. FormTraits(DocumentActions) /\ FormTraits(NoForm)
  BY DEF DocumentActions, NoForm, PaymentForm, CustomerForm, FormTraits
<1> QED
  BY <1>1, <1>2, <1>3, <1>4, <1>5, <1>6, <1>7

PageTraits(pg) ==
  /\ pg.turns \in {"never", "pager", "search"}
  /\ FormTraits(pg.form)
  /\ pg.turns # "never" => pg.form.place = "none"
LEMMA EveryPage == \A pg \in Page : PageTraits(pg)
<1>1. NoForm.place = "none"
  BY DEF NoForm, DocumentActions, PaymentForm, CustomerForm
<1>2. \A pg \in {CustomersPage, ProductsPage, SuppliersPage, PurchasesPage, WarehousesPage,
                 LocationsOfPage} : PageTraits(pg)
  BY EveryForm DEF PageTraits, CustomersPage, ProductsPage, SuppliersPage, PurchasesPage,
     WarehousesPage, LocationsOfPage
<1>3. \A pg \in {NewPaymentPage, NewDocumentPage, AdjustmentsPage, InvoiceDetailPage,
                 PaymentDetailPage, InvoicesPage, PaymentsPage} : PageTraits(pg)
  BY EveryForm DEF PageTraits, NewPaymentPage, NewDocumentPage, AdjustmentsPage,
     InvoiceDetailPage, PaymentDetailPage, InvoicesPage, PaymentsPage
<1>4. \A pg \in {StockPage, InventoryPage, LedgerPage, CommandPalette} : PageTraits(pg)
  BY <1>1, EveryForm DEF PageTraits, StockPage, InventoryPage, LedgerPage, CommandPalette
<1> QED
  BY <1>2, <1>3, <1>4 DEF Page
--------------------------------------------------------------------------------
(* The types of the variables.                                             *)
LEMMA ListingIsRows ==
  ASSUME NEW query \in Nat, NEW n \in Nat
  PROVE  Listing(query, n) \in Seq(Nat)
<1>1. CASE page.turns # "pager"
  <2>1. Listing(query, n) = [i \in 1 .. n |-> n + 1 - i]
    BY <1>1 DEF Listing
  <2>2. \A i \in 1 .. n : n + 1 - i \in Nat
    OBVIOUS
  <2>3. [i \in 1 .. n |-> n + 1 - i] \in Seq(Nat)
    BY <2>2
  <2> QED
    BY <2>1, <2>3
<1>2. CASE page.turns = "pager"
  <2>1. PICK skip : skip = (query - 1) * PageSize
    OBVIOUS
  <2>2. skip \in Int
    BY <2>1, BoundsAssumption
  <2>3. PICK rest : rest = IF n > skip THEN n - skip ELSE 0
    OBVIOUS
  <2>4. rest \in Nat
    BY <2>2, <2>3
  <2>5. PICK k : k = IF rest < PageSize THEN rest ELSE PageSize
    OBVIOUS
  <2>6. k \in Nat /\ k <= rest
    BY <2>4, <2>5, BoundsAssumption
  <2>7. Listing(query, n) = [i \in 1 .. k |-> rest + 1 - i]
    BY <1>2, <2>1, <2>3, <2>5 DEF Listing
  <2>8. \A i \in 1 .. k : rest + 1 - i \in Nat
    BY <2>4, <2>6
  <2>9. [i \in 1 .. k |-> rest + 1 - i] \in Seq(Nat)
    BY <2>6, <2>8
  <2> QED
    BY <2>7, <2>9
<1> QED
  BY <1>1, <1>2

LEMMA InitTypes == PagesInit => PagesTypes
<1> SUFFICES ASSUME PagesInit PROVE PagesTypes
  OBVIOUS
<1>1. list \in ListType /\ form \in FormType /\ history \in HistoryType
  BY DEF PagesInit, ListType, FormType, HistoryType
<1>2. loads \in [Load -> Fetch \cup {None}] /\ posts \in [Post -> Submission \cup {None}]
  BY DEF PagesInit, NoLoads
<1>3. page \in Page /\ draft \in Nat /\ entries \in Nat
  BY DEF PagesInit
<1>4. mounted \in BOOLEAN
  BY DEF PagesInit
<1>5. stored \in Seq(Kept)
  BY DEF PagesInit
<1> QED
  BY <1>1, <1>2, <1>3, <1>4, <1>5 DEF PagesTypes

(* The values the actions write.                                           *)
LEMMA FormValues ==
  ASSUME PagesTypes
  PROVE  /\ \A e \in Nat : KeyOf(e) \in Nat /\ (e # 0 => (Form.keyed <=> KeyOf(e) # 0))
                           /\ KeyOf(e) <= e
         /\ \A e \in Nat, new \in BOOLEAN :
              /\ Blank(e, new) \in FormType
              /\ Blank(e, new).open /\ Blank(e, new).entry = e /\ Blank(e, new).key = KeyOf(e)
              /\ Blank(e, new).isNew = new /\ ~Blank(e, new).saving
         /\ \A new \in BOOLEAN :
              Closed(new) \in FormType /\ ~Closed(new).open /\ ~Closed(new).saving
         /\ PageTraits(page) /\ FormTraits(Form)
<1>1. PageTraits(page) /\ FormTraits(Form)
  BY EveryPage DEF PagesTypes, PageTraits, Form
<1>2. \A e \in Nat : KeyOf(e) \in Nat /\ (e # 0 => (Form.keyed <=> KeyOf(e) # 0)) /\ KeyOf(e) <= e
  BY <1>1 DEF KeyOf, FormTraits
<1>3. \A e \in Nat, new \in BOOLEAN :
        /\ Blank(e, new) \in FormType
        /\ Blank(e, new).open /\ Blank(e, new).entry = e /\ Blank(e, new).key = KeyOf(e)
        /\ Blank(e, new).isNew = new /\ ~Blank(e, new).saving
  BY <1>2 DEF Blank, FormType
<1>4. \A new \in BOOLEAN :
        Closed(new) \in FormType /\ ~Closed(new).open /\ ~Closed(new).saving
  BY DEF Closed, FormType
<1> QED
  BY <1>1, <1>2, <1>3, <1>4

(***************************************************************************)
(* What the steps do to a submission.                                      *)
(***************************************************************************)
SameSubmission(q) ==
  /\ Sent(q)' <=> Sent(q)
  /\ Sent(q) => /\ posts'[q].entry = posts[q].entry /\ posts'[q].key = posts[q].key
                /\ posts'[q].answer = posts[q].answer
SameContents == \A q \in Post : SameSubmission(q)

LEMMA DeafEffect ==
  ASSUME PagesTypes, NEW p \in Heard, Deaf(p)
  PROVE  /\ posts' \in [Post -> Submission \cup {None}]
         /\ SameContents
         /\ Heard' = Heard \ {p} /\ Attached' = Attached \ {p}
<1> DEFINE x == [posts[p] EXCEPT !.heard = FALSE]
<1>1. p \in Post /\ posts[p] # None /\ posts[p] \in Submission /\ posts[p].heard
  BY DEF Heard, PagesTypes
<1>2. posts' = [posts EXCEPT ![p] = x]
  BY DEF Deaf
<1>3. /\ x \in Submission /\ x.entry = posts[p].entry /\ x.key = posts[p].key
      /\ x.answer = posts[p].answer /\ x.heard = FALSE /\ x.attached = posts[p].attached
  BY <1>1 DEF Submission
<1> HIDE DEF x
<1>4. x # None
  BY <1>3, NoneAssumption
<1>5. posts' \in [Post -> Submission \cup {None}]
  BY <1>2, <1>3 DEF PagesTypes
<1>6. posts'[p] = x /\ \A q \in Post \ {p} : posts'[q] = posts[q]
  BY <1>1, <1>2 DEF PagesTypes
<1>7. SameContents
  BY <1>1, <1>3, <1>4, <1>6 DEF SameContents, SameSubmission, Sent
<1>8. Heard' = Heard \ {p}
  BY <1>1, <1>3, <1>6 DEF Heard
<1>9. Attached' = Attached \ {p}
  BY <1>3, <1>6, <1>8 DEF Attached, Heard
<1> QED
  BY <1>5, <1>7, <1>8, <1>9

LEMMA DetachEffect ==
  ASSUME PagesTypes, posts' = Detach(posts)
  PROVE  /\ posts' \in [Post -> Submission \cup {None}]
         /\ SameContents
         /\ Heard' = Heard /\ Attached' = IF Form.ownSaving THEN {} ELSE Attached
<1> DEFINE x(q) == [posts[q] EXCEPT !.attached = FALSE]
           y(q) == IF posts[q] = None \/ ~Form.ownSaving THEN posts[q] ELSE x(q)
<1>1. \A q \in Post : posts[q] # None =>
        /\ x(q) \in Submission /\ x(q).entry = posts[q].entry /\ x(q).key = posts[q].key
        /\ x(q).answer = posts[q].answer /\ x(q).heard = posts[q].heard
        /\ x(q).attached = FALSE
  BY DEF Submission, PagesTypes
<1> HIDE DEF x
<1>2. \A q \in Post : posts[q] # None => x(q) # None
  BY <1>1, NoneAssumption
<1>3. posts' = [q \in Post |-> y(q)]
  BY DEF Detach, x
<1>4. \A q \in Post : posts'[q] = y(q)
  BY <1>3
<1>5. \A q \in Post : y(q) \in Submission \cup {None}
  BY <1>1 DEF PagesTypes
<1>6. posts' \in [Post -> Submission \cup {None}]
  BY <1>3, <1>5
<1>7. SameContents
  BY <1>1, <1>2, <1>4 DEF SameContents, SameSubmission, Sent
<1>8. Heard' = Heard
  BY <1>1, <1>2, <1>4 DEF Heard
<1>9. CASE Form.ownSaving
  <2>1. \A q \in Post : posts[q] # None => posts'[q].attached = FALSE
    BY <1>1, <1>4, <1>9
  <2> QED
    BY <1>6, <1>7, <1>8, <1>9, <2>1 DEF Attached, Heard
<1>10. CASE ~Form.ownSaving
  <2>1. \A q \in Post : posts'[q] = posts[q]
    BY <1>4, <1>10
  <2> QED
    BY <1>6, <1>7, <1>8, <1>10, <2>1 DEF Attached, Heard
<1> QED
  BY <1>9, <1>10

LEMMA DeafDetachEffect ==
  ASSUME PagesTypes, NEW p \in Heard, posts' = Detach([posts EXCEPT ![p].heard = FALSE])
  PROVE  /\ posts' \in [Post -> Submission \cup {None}]
         /\ SameContents
         /\ Heard' = Heard \ {p}
         /\ Attached' = IF Form.ownSaving THEN {} ELSE Attached \ {p}
<1> DEFINE z == [posts[p] EXCEPT !.heard = FALSE]
           ps == [posts EXCEPT ![p] = z]
           x(q) == [ps[q] EXCEPT !.attached = FALSE]
           y(q) == IF ps[q] = None \/ ~Form.ownSaving THEN ps[q] ELSE x(q)
<1>1. p \in Post /\ posts[p] # None /\ posts[p] \in Submission /\ posts[p].heard
  BY DEF Heard, PagesTypes
<1>2. /\ z \in Submission /\ z.entry = posts[p].entry /\ z.key = posts[p].key
      /\ z.answer = posts[p].answer /\ z.heard = FALSE /\ z.attached = posts[p].attached
  BY <1>1 DEF Submission
<1>3. posts' = [q \in Post |-> y(q)]
  BY DEF Detach
<1> HIDE DEF z
<1>4. z # None
  BY <1>2, NoneAssumption
<1>5. /\ ps \in [Post -> Submission \cup {None}]
      /\ ps[p] = z /\ \A q \in Post \ {p} : ps[q] = posts[q]
  BY <1>1, <1>2 DEF PagesTypes
<1> HIDE DEF ps
<1>6. \A q \in Post : ps[q] # None =>
        /\ x(q) \in Submission /\ x(q).entry = ps[q].entry /\ x(q).key = ps[q].key
        /\ x(q).answer = ps[q].answer /\ x(q).heard = ps[q].heard
        /\ x(q).attached = FALSE
  BY <1>5 DEF Submission
<1> HIDE DEF x
<1>7. \A q \in Post : ps[q] # None => x(q) # None
  BY <1>6, NoneAssumption
<1>8. \A q \in Post : posts'[q] = y(q)
  BY <1>3
<1>9. posts' \in [Post -> Submission \cup {None}]
  BY <1>3, <1>5, <1>6
<1>10. \A q \in Post : /\ ps[q] # None <=> posts[q] # None
                       /\ ps[q] # None => /\ ps[q].entry = posts[q].entry
                                          /\ ps[q].key = posts[q].key
                                          /\ ps[q].answer = posts[q].answer
                                          /\ ps[q].attached = posts[q].attached
                                          /\ ps[q].heard <=> posts[q].heard /\ q # p
  BY <1>1, <1>2, <1>4, <1>5
<1>11. \A q \in Post : /\ posts'[q] # None <=> ps[q] # None
                       /\ ps[q] # None =>
                            /\ posts'[q].entry = ps[q].entry /\ posts'[q].key = ps[q].key
                            /\ posts'[q].answer = ps[q].answer
                            /\ posts'[q].heard <=> ps[q].heard
                            /\ posts'[q].attached <=> ps[q].attached /\ ~Form.ownSaving
  BY <1>5, <1>6, <1>7, <1>8 DEF Submission
<1>12. SameContents
  BY <1>10, <1>11 DEF SameContents, SameSubmission, Sent
<1>13. Heard' = Heard \ {p}
  BY <1>10, <1>11 DEF Heard
<1>14. Attached' = IF Form.ownSaving THEN {} ELSE Attached \ {p}
  <2>1. \A q \in Post : q \in Attached' <=> q \in Heard' /\ posts'[q].attached
    BY DEF Attached, Heard
  <2>2. \A q \in Post : q \in Attached' <=> q \in Attached \ {p} /\ ~Form.ownSaving
    BY <1>10, <1>11, <1>13, <2>1 DEF Attached, Heard
  <2> QED
    BY <2>2 DEF Attached, Heard
<1> QED
  BY <1>9, <1>12, <1>13, <1>14

LEMMA DeafAllEffect ==
  ASSUME PagesTypes, posts' = [p \in Post |-> IF posts[p] = None THEN None
                                              ELSE [posts[p] EXCEPT !.heard = FALSE]]
  PROVE  /\ posts' \in [Post -> Submission \cup {None}]
         /\ SameContents
         /\ Heard' = {} /\ Attached' = {}
<1> DEFINE x(q) == [posts[q] EXCEPT !.heard = FALSE]
           y(q) == IF posts[q] = None THEN None ELSE x(q)
<1>1. \A q \in Post : posts[q] # None =>
        /\ x(q) \in Submission /\ x(q).entry = posts[q].entry /\ x(q).key = posts[q].key
        /\ x(q).answer = posts[q].answer /\ x(q).heard = FALSE
  BY DEF Submission, PagesTypes
<1>2. posts' = [q \in Post |-> y(q)]
  OBVIOUS
<1> HIDE DEF x
<1>3. \A q \in Post : posts[q] # None => x(q) # None
  BY <1>1, NoneAssumption
<1>4. \A q \in Post : posts'[q] = y(q)
  BY <1>2
<1>5. posts' \in [Post -> Submission \cup {None}]
  BY <1>1, <1>2
<1>6. SameContents
  BY <1>1, <1>3, <1>4 DEF SameContents, SameSubmission, Sent
<1>7. Heard' = {}
  BY <1>1, <1>3, <1>4 DEF Heard
<1> QED
  BY <1>5, <1>6, <1>7 DEF Attached

--------------------------------------------------------------------------------
(***************************************************************************)
(* Most steps leave what was submitted and stored as it is: they hear      *)
(* fewer of the submissions, and keep the form, close it, or begin the     *)
(* next entry in it.  An answer that is given up is a loss.                *)
(***************************************************************************)
KeepsForm ==
  /\ form'.open = form.open /\ form'.entry = form.entry /\ form'.key = form.key
  /\ \A p \in Heard : p \notin Heard' \/ (p \in Attached /\ p \notin Attached') =>
       posts[p].answer = 0 \/ posts[p].entry \in history'.lost
BeginsEntry ==
  /\ form'.open /\ form'.entry = entries + 1 /\ entries' = entries + 1
  /\ \/ form'.key = KeyOf(entries + 1)
     \/ form.open /\ form'.key = form.key /\ Heard' = Heard

HearsLess ==
  /\ SameContents /\ Heard' \subseteq Heard /\ Attached' \subseteq Attached
  /\ UNCHANGED <<page, stored, draft>>
  /\ entries' \in {entries, entries + 1}
  /\ history'.recovered = history.recovered /\ history.lost \subseteq history'.lost
  /\ \A t \in history'.told :
       \/ t \in history.told
       \/ \E p \in Heard : Created(p) /\ t = <<posts[p].entry, posts[p].answer>>
  /\ \A p \in Heard : p \notin Heard' /\ Pending(p) => posts[p].entry \in history'.lost
  /\ ~form'.open \/ BeginsEntry \/ KeepsForm

EntriesInv ==
  /\ Bounds /\ UnheardLost /\ OnceOnItsWay /\ ShownIsAwaited /\ DraftNotStored /\ OneKey
  /\ AnswersOfEntry

LEMMA HearingBounds ==
  ASSUME PagesTypes, Bounds, HearsLess
  PROVE  Bounds'
<1>1. /\ entries \in Nat /\ entries' \in Nat /\ entries <= entries'
      /\ UNCHANGED <<page, stored, draft, Form>>
  BY DEF HearsLess, PagesTypes, Form
<1>2. \A p \in Post : Sent(p)' => /\ Sent(p) /\ posts'[p].entry = posts[p].entry
                                  /\ posts'[p].key = posts[p].key
                                  /\ posts'[p].answer = posts[p].answer
  BY DEF HearsLess, SameContents, SameSubmission
<1>3. \A p \in Post : Sent(p)' =>
        /\ posts'[p].entry \in 1 .. entries' /\ posts'[p].key <= entries'
        /\ Form'.keyed <=> posts'[p].key # 0
  <2>1. \A p \in Post : Sent(p) => posts[p].key \in Nat
    BY DEF PagesTypes, Sent, Submission
  <2> QED
    BY <1>1, <1>2, <2>1 DEF Bounds
<1>4. \A p \in Post : Created(p)' => posts'[p].answer \in DOMAIN stored'
  BY <1>1, <1>2 DEF Bounds, Created, Sent
<1>5. \A r \in DOMAIN stored' :
        /\ stored'[r].entry <= entries' /\ stored'[r].key <= entries'
        /\ Form'.keyed /\ stored'[r].entry # 0 => stored'[r].key # 0
  <2>1. \A r \in DOMAIN stored : stored[r] \in Kept
    BY SequenceDomain DEF PagesTypes
  <2>2. \A r \in DOMAIN stored : stored[r].entry \in Nat /\ stored[r].key \in Nat
    BY <2>1 DEF Kept
  <2> QED
    BY <1>1, <2>2 DEF Bounds
<1>6. form'.open =>
        /\ form'.entry \in 1 .. entries' /\ form'.key <= entries'
        /\ Form'.keyed <=> form'.key # 0
  <2>1. KeyOf(entries + 1) <= entries + 1 /\ (Form.keyed <=> KeyOf(entries + 1) # 0)
    BY <1>1, FormValues
  <2>2. form.entry \in Nat /\ form.key \in Nat
    BY DEF PagesTypes, FormType
  <2>3. CASE BeginsEntry
    BY <1>1, <2>1, <2>2, <2>3 DEF Bounds, BeginsEntry
  <2>4. CASE KeepsForm
    BY <1>1, <2>2, <2>4 DEF Bounds, KeepsForm
  <2> QED
    BY <2>3, <2>4 DEF HearsLess
<1>7. draft' <= entries' /\ (Form'.drafts = "none" => draft' = 0)
  BY <1>1 DEF Bounds, PagesTypes
<1> QED
  BY <1>3, <1>4, <1>5, <1>6, <1>7 DEF Bounds

LEMMA HearingPreservesEntries ==
  ASSUME PagesTypes, EntriesInv, HearsLess
  PROVE  EntriesInv'
<1>1. /\ entries \in Nat /\ UNCHANGED <<page, stored, draft, Form>>
      /\ \A p \in Post : Sent(p)' <=> Sent(p)
      /\ \A p \in Post : Sent(p) => /\ posts'[p].entry = posts[p].entry
                                    /\ posts'[p].key = posts[p].key
                                    /\ posts'[p].answer = posts[p].answer
      /\ Heard' \subseteq Heard /\ Attached' \subseteq Attached /\ Heard \subseteq Post
      /\ \A p \in Heard : Sent(p)
  BY DEF HearsLess, PagesTypes, SameContents, SameSubmission, Form, Heard, Sent
<1>2. \A p \in Post : /\ Pending(p)' <=> Pending(p)
                      /\ Created(p)' <=> Created(p)
  BY <1>1 DEF Pending, Created
<1>3. /\ history'.recovered = history.recovered /\ history.lost \subseteq history'.lost
      /\ \A e : Certain(e)' => Certain(e)
  BY DEF HearsLess, Certain
(* Nothing of the next entry is anywhere.                                  *)
<1>4. /\ \A p \in Post : Sent(p) => posts[p].entry # entries + 1
      /\ \A r \in DOMAIN stored : stored[r].entry # entries + 1
  <2>1. \A r \in DOMAIN stored : stored[r] \in Kept
    BY SequenceDomain DEF PagesTypes
  <2>2. \A r \in DOMAIN stored : stored[r].entry \in Nat /\ stored[r].key \in Nat
    BY <2>1 DEF Kept
  <2> QED
    BY <1>1, <2>2 DEF EntriesInv, Bounds
<1>5. Bounds'
  BY HearingBounds DEF EntriesInv
<1>6. UnheardLost'
  BY <1>1, <1>2, <1>3 DEF EntriesInv, UnheardLost, HearsLess, Heard, Sent, Pending
<1>7. OnceOnItsWay'
  BY <1>1, <1>2, <1>3 DEF EntriesInv, OnceOnItsWay, Pending
<1>8. DraftNotStored'
  BY <1>1, <1>3 DEF EntriesInv, DraftNotStored
<1>9. ShownIsAwaited'
  <2> SUFFICES ASSUME NEW e, e = form'.entry, form'.open, Certain(e)'
               PROVE  /\ \A p \in Post : Pending(p)' /\ posts'[p].entry = e => Awaited(e)'
                      /\ \A r \in DOMAIN stored : stored[r].entry = e => Awaited(e)'
    BY <1>1 DEF ShownIsAwaited, Certain, Awaited
  <2>1. CASE BeginsEntry
    BY <1>1, <1>2, <1>4, <2>1 DEF BeginsEntry, Pending
  <2>2. CASE KeepsForm
    <3>1. form.open /\ Certain(e) /\ form.entry = e
      BY <1>3, <2>2 DEF KeepsForm
    <3>2. Awaited(e) => Awaited(e)'
      <4>1. SUFFICES ASSUME NEW p \in Attached, posts[p].entry = e, posts[p].answer # 0
                     PROVE  /\ p \in Attached' /\ posts'[p].entry = e /\ posts'[p].answer # 0
        BY DEF Awaited
      <4>2. p \in Heard /\ p \in Post
        BY <1>1 DEF Attached
      <4>3. posts[p].entry \notin history'.lost
        BY <4>1 DEF Certain
      <4>4. p \in Attached'
        <5>1. p \in Heard'
          BY <2>2, <4>1, <4>2, <4>3 DEF KeepsForm
        <5> QED
          BY <5>1, <2>2, <4>1, <4>2, <4>3 DEF KeepsForm
      <4> QED
        BY <1>1, <4>1, <4>2, <4>4
    <3>3. \A p \in Post : Pending(p)' /\ posts'[p].entry = e => Pending(p) /\ posts[p].entry = e
      BY <1>1, <1>2 DEF Pending
    <3> QED
      BY <3>1, <3>2, <3>3 DEF EntriesInv, ShownIsAwaited
  <2> QED
    BY <2>1, <2>2 DEF HearsLess
<1>10. OneKey'
  <2> SUFFICES ASSUME Form.keyed PROVE OneKey'
    BY <1>1 DEF OneKey
  <2>1. form'.open /\ form'.entry \notin history'.recovered =>
          /\ \A p \in Post : Pending(p) /\ posts[p].entry = form'.entry =>
               posts[p].key = form'.key
          /\ \A r \in DOMAIN stored : stored[r].entry = form'.entry => stored[r].key = form'.key
    <3>1. CASE BeginsEntry
      BY <1>4, <3>1 DEF BeginsEntry, Pending
    <3>2. CASE KeepsForm
      BY <1>3, <3>2 DEF KeepsForm, EntriesInv, OneKey
    <3> QED
      BY <3>1, <3>2 DEF HearsLess
  <2>2. \A p \in Post : Pending(p)' => /\ Pending(p) /\ posts'[p].entry = posts[p].entry
                                       /\ posts'[p].key = posts[p].key
    BY <1>1, <1>2 DEF Pending
  <2> QED
    BY <1>1, <1>3, <2>1, <2>2 DEF EntriesInv, OneKey
<1>11. AnswersOfEntry'
  <2>1. \A e : \A r \in DOMAIN stored : About(e, r) => About(e, r)'
    BY <1>1, <1>3 DEF About
  <2>2. \A p \in Heard' : Created(p)' => About(posts[p].entry, posts[p].answer)'
    BY <1>1, <1>2, <2>1 DEF EntriesInv, AnswersOfEntry, Bounds
  <2>3. \A p \in Heard' : \A r \in DOMAIN stored :
          Form.keyed /\ Pending(p)' /\ stored[r].key = posts[p].key => About(posts[p].entry, r)'
    BY <1>1, <1>2, <2>1 DEF EntriesInv, AnswersOfEntry
  <2>4. ASSUME Form.keyed, NEW r \in DOMAIN stored, form'.open, stored[r].key = form'.key
        PROVE  \/ stored[r].entry \in history'.lost
               \/ \E p \in Heard' : posts'[p].answer = r
    <3>1. CASE form.open /\ form'.key = form.key
      <4>1. CASE stored[r].entry \in history.lost
        BY <4>1, <1>3
      <4>2. CASE \E p \in Heard : posts[p].answer = r
        <5>1. PICK p \in Heard : posts[p].answer = r
          BY <4>2
        <5>2. Created(p) /\ r # 0
          <6>1. r \in Nat \ {0}
            BY SequenceDomain DEF PagesTypes
          <6> QED
            BY <1>1, <5>1, <6>1, NoneAssumption DEF Created
        <5>3. About(posts[p].entry, r)
          BY <5>1, <5>2 DEF EntriesInv, AnswersOfEntry
        <5>4. CASE p \in Heard'
          BY <1>1, <5>1, <5>4
        <5>5. CASE p \notin Heard'
          <6>1. CASE BeginsEntry
            <7>1. form'.key = KeyOf(entries + 1)
              BY <5>5, <6>1 DEF BeginsEntry
            <7>2. KeyOf(entries + 1) = entries + 1
              BY <2>4 DEF KeyOf
            <7>3. form.key <= entries
              BY <3>1 DEF EntriesInv, Bounds
            <7> QED
              BY <1>1, <3>1, <7>1, <7>2, <7>3
          <6>2. CASE KeepsForm
            <7>1. posts[p].entry \in history'.lost
              BY <5>1, <5>2, <5>5, <6>2 DEF KeepsForm, Created
            <7> QED
              BY <1>3, <5>3, <7>1 DEF About
          <6> QED
            BY <2>4, <6>1, <6>2 DEF HearsLess
        <5> QED
          BY <5>4, <5>5
      <4> QED
        BY <2>4, <3>1, <4>1, <4>2 DEF EntriesInv, AnswersOfEntry
    <3>2. CASE form'.key = KeyOf(entries + 1)
      <4>1. KeyOf(entries + 1) = entries + 1
        BY <2>4 DEF KeyOf
      <4>2. stored[r].key <= entries /\ stored[r].key \in Nat
        <5>1. stored[r] \in Kept
          BY SequenceDomain DEF PagesTypes
        <5> QED
          BY <5>1 DEF Kept, EntriesInv, Bounds
      <4> QED
        BY <1>1, <2>4, <3>2, <4>1, <4>2
    <3> QED
      BY <2>4, <3>1, <3>2 DEF HearsLess, BeginsEntry, KeepsForm
  <2>5. \A t \in history'.told : t[2] \in DOMAIN stored /\ About(t[1], t[2])'
    <3>1. ASSUME NEW p \in Heard, Created(p), NEW t, t = <<posts[p].entry, posts[p].answer>>
          PROVE  t[2] \in DOMAIN stored /\ About(t[1], t[2])'
      <4>1. posts[p].answer \in DOMAIN stored /\ About(posts[p].entry, posts[p].answer)
        BY <1>1, <3>1 DEF EntriesInv, AnswersOfEntry, Bounds
      <4>2. t[1] = posts[p].entry /\ t[2] = posts[p].answer
        BY <3>1
      <4> QED
        BY <2>1, <4>1, <4>2
    <3>2. \A t \in history.told : t[2] \in DOMAIN stored /\ About(t[1], t[2])'
      BY <2>1 DEF EntriesInv, AnswersOfEntry
    <3> QED
      BY <3>1, <3>2 DEF HearsLess
  <2>6. /\ \A p \in Heard' : posts'[p].entry = posts[p].entry /\ posts'[p].key = posts[p].key
                             /\ posts'[p].answer = posts[p].answer
    BY <1>1
  <2> QED
    BY <1>1, <2>2, <2>3, <2>4, <2>5, <2>6 DEF AnswersOfEntry
<1> QED
  BY <1>5, <1>6, <1>7, <1>8, <1>9, <1>10, <1>11 DEF EntriesInv

(***************************************************************************)
(* The steps that hear, and those of the list.                             *)
(***************************************************************************)
LEMMA StartLoadEffect ==
  ASSUME PagesTypes, NEW l \in Load, NEW query \in Nat, StartLoad(l, query)
  PROVE  /\ loads' \in [Load -> Fetch \cup {None}] /\ list' \in ListType
         /\ list'.rows = list.rows /\ list'.query = query /\ list'.loading
         /\ loads[l] = None /\ loads'[l] # None
         /\ loads'[l].query = query /\ loads'[l].seen = None
         /\ page.turns = "search" => Loading' = {l}
         /\ page.turns # "search" => /\ Loading' = Loading \cup {l}
                                     /\ \A m \in Load \ {l} : loads'[m] = loads[m]
<1> DEFINE x == [query |-> query, seen |-> None]
           old == IF page.turns = "search" THEN NoLoads ELSE loads
<1>1. x \in Fetch /\ x.query = query /\ x.seen = None
  BY DEF Fetch
<1>2. loads' = [old EXCEPT ![l] = x] /\ loads[l] = None
  BY DEF StartLoad
<1>3. old \in [Load -> Fetch \cup {None}]
  BY DEF NoLoads, PagesTypes
<1> HIDE DEF x
<1>4. x # None
  BY <1>1, NoneAssumption
<1>5. list' \in ListType /\ list'.rows = list.rows /\ list'.query = query /\ list'.loading
  BY DEF StartLoad, PagesTypes, ListType
<1>6. CASE page.turns = "search"
  <2>1. \A m \in Load : loads'[m] = IF m = l THEN x ELSE None
    BY <1>2, <1>6 DEF NoLoads
  <2>2. Loading' = {l}
    BY <1>4, <2>1 DEF Loading
  <2>3. loads' \in [Load -> Fetch \cup {None}]
    <3> HIDE DEF old
    <3> QED
      BY <1>1, <1>2, <1>3
  <2> QED
    BY <1>1, <1>2, <1>4, <1>5, <1>6, <2>1, <2>2, <2>3
<1>7. CASE page.turns # "search"
  <2>1. loads' = [loads EXCEPT ![l] = x]
    BY <1>2, <1>7
  <2>2. \A m \in Load : loads'[m] = IF m = l THEN x ELSE loads[m]
    BY <2>1 DEF PagesTypes
  <2>3. Loading' = Loading \cup {l}
    BY <1>4, <2>2 DEF Loading
  <2>4. loads' \in [Load -> Fetch \cup {None}]
    BY <1>1, <2>1 DEF PagesTypes
  <2> QED
    BY <1>1, <1>2, <1>4, <1>5, <1>7, <2>2, <2>3, <2>4
<1> QED
  BY <1>6, <1>7

LEMMA MeetsEffect ==
  ASSUME PagesTypes, NEW hearing
  PROVE  LET h == Meets(hearing) IN
         /\ h \in HistoryType
         /\ h.told = history.told /\ h.made = history.made /\ h.lost = history.lost
         /\ h.recovered = history.recovered
         /\ h.mixed <=> page.turns # "search" /\ Loading # {}
         /\ h.raced <=> history.raced \/ hearing # {}
BY DEF Meets, PagesTypes, HistoryType

(* A step of the list alone.                                               *)
LEMMA ListStep ==
  ASSUME PagesTypes, Waits, UNCHANGED <<page, mounted, form, posts, stored, draft, entries>>,
         history'.told = history.told, history'.lost = history.lost,
         history'.recovered = history.recovered
  PROVE  Waits' /\ HearsLess
<1>1. Heard' = Heard /\ Attached' = Attached /\ Form' = Form
  BY DEF Heard, Attached, Form
<1>2. Waits'
  BY <1>1 DEF Waits
<1>3. SameContents
  BY DEF SameContents, SameSubmission, Sent
<1>4. KeepsForm
  BY <1>1 DEF KeepsForm
<1> QED
  BY <1>1, <1>2, <1>3, <1>4 DEF HearsLess

LEMMA TurnPageHears ==
  ASSUME PagesTypes, Absence, Waits, NEW query \in Nat, TurnPage(query)
  PROVE  PagesTypes' /\ Absence' /\ Waits' /\ HearsLess
<1>1. PICK l \in Load : StartLoad(l, query)
  BY DEF TurnPage
<1>2. /\ loads' \in [Load -> Fetch \cup {None}] /\ list' \in ListType
  BY <1>1, StartLoadEffect
<1>3. /\ mounted /\ history' = Meets(Heard)
      /\ UNCHANGED <<page, mounted, form, posts, stored, draft, entries>>
  BY DEF TurnPage
<1>4. /\ history' \in HistoryType /\ history'.told = history.told
      /\ history'.lost = history.lost /\ history'.recovered = history.recovered
  BY <1>3, MeetsEffect
<1>5. PagesTypes'
  BY <1>2, <1>3, <1>4 DEF PagesTypes
<1>6. Absence'
  BY <1>3 DEF Absence
<1> QED
  BY <1>3, <1>4, <1>5, <1>6, ListStep

LEMMA TypeHears ==
  ASSUME PagesTypes, Absence, Waits, NEW query \in Nat, Type(query)
  PROVE  PagesTypes' /\ Absence' /\ Waits' /\ HearsLess
<1>1. /\ mounted /\ UNCHANGED <<page, mounted, form, posts, stored, draft, entries, history>>
  BY DEF Type
<1>2. /\ loads' \in [Load -> Fetch \cup {None}] /\ list' \in ListType
  <2>1. CASE \E l \in Load : StartLoad(l, query)
    BY <2>1, StartLoadEffect
  <2>2. CASE /\ loads' = NoLoads
             /\ list' = [list EXCEPT !.query = 0, !.of = 0, !.rows = <<>>, !.loading = FALSE]
    <3>1. list' \in ListType
      <4>1. <<>> \in Seq(Nat)
        OBVIOUS
      <4>2. ASSUME NEW none \in Seq(Nat)
            PROVE  [list EXCEPT !.query = 0, !.of = 0, !.rows = none, !.loading = FALSE]
                     \in ListType
        BY DEF PagesTypes, ListType
      <4> QED
        BY <2>2, <4>1, <4>2, Zenon
    <3>2. loads' \in [Load -> Fetch \cup {None}]
      BY <2>2 DEF NoLoads
    <3> QED
      BY <3>1, <3>2
  <2> QED
    BY <2>1, <2>2 DEF Type
<1>3. PagesTypes'
  BY <1>1, <1>2 DEF PagesTypes
<1>4. Absence'
  BY <1>1 DEF Absence
<1> QED
  BY <1>1, <1>3, <1>4, ListStep

LEMMA ReadHears ==
  ASSUME PagesTypes, Absence, Waits, NEW l \in Load, Read(l)
  PROVE  PagesTypes' /\ Absence' /\ Waits' /\ HearsLess
<1>1. /\ UNCHANGED <<page, mounted, list, form, posts, stored, draft, entries, history>>
      /\ loads' = [loads EXCEPT ![l] = [loads[l] EXCEPT !.seen = Len(stored)]]
      /\ loads[l] # None
  BY DEF Read
<1>2. loads[l] \in Fetch /\ Len(stored) \in Nat
  BY <1>1 DEF PagesTypes
<1>3. [loads[l] EXCEPT !.seen = Len(stored)] \in Fetch
  BY <1>2 DEF Fetch
<1>4. loads' \in [Load -> Fetch \cup {None}]
  BY <1>1, <1>3 DEF PagesTypes
<1>5. PagesTypes'
  BY <1>1, <1>4 DEF PagesTypes
<1>6. Absence'
  <2>1. Loading' = Loading /\ Heard' = Heard
    <3>1. [loads[l] EXCEPT !.seen = Len(stored)] # None
      BY <1>3, NoneAssumption
    <3> QED
      BY <1>1, <3>1 DEF Loading, Heard, PagesTypes
  <2> QED
    BY <1>1, <2>1 DEF Absence
<1> QED
  BY <1>1, <1>5, <1>6, ListStep

LEMMA LoadAnswerHears ==
  ASSUME PagesTypes, Absence, Waits, NEW l \in Load, LoadAnswer(l)
  PROVE  PagesTypes' /\ Absence' /\ Waits' /\ HearsLess
<1>1. /\ UNCHANGED <<page, mounted, form, posts, stored, draft, entries, history>>
      /\ loads' = [loads EXCEPT ![l] = None]
      /\ loads[l] # None /\ loads[l].seen # None
      /\ list' = [list EXCEPT !.rows = Listing(loads[l].query, loads[l].seen),
                              !.of = loads[l].query, !.total = loads[l].seen,
                              !.loading = FALSE]
  BY DEF LoadAnswer
<1>2. loads[l].query \in Nat /\ loads[l].seen \in Nat
  BY <1>1 DEF PagesTypes, Fetch
<1>3. Listing(loads[l].query, loads[l].seen) \in Seq(Nat)
  BY <1>2, ListingIsRows
<1>4. list' \in ListType
  BY <1>1, <1>2, <1>3 DEF PagesTypes, ListType
<1>5. loads' \in [Load -> Fetch \cup {None}]
  BY <1>1 DEF PagesTypes
<1>6. PagesTypes'
  BY <1>1, <1>4, <1>5 DEF PagesTypes
<1>7. Absence'
  <2>1. Loading' \subseteq Loading /\ Heard' = Heard
    BY <1>1 DEF Loading, Heard, PagesTypes
  <2> QED
    BY <1>1, <2>1 DEF Absence
<1> QED
  BY <1>1, <1>6, <1>7, ListStep

LEMMA LoadFailsHears ==
  ASSUME PagesTypes, Absence, Waits, NEW l \in Load, LoadFails(l)
  PROVE  PagesTypes' /\ Absence' /\ Waits' /\ HearsLess
<1>1. /\ UNCHANGED <<page, mounted, form, posts, stored, draft, entries>>
      /\ loads' = [loads EXCEPT ![l] = None]
      /\ list' = [list EXCEPT !.loading = FALSE, !.failed = (page.turns = "search")]
      /\ history' = [history EXCEPT !.mixed = @ \/ page.turns # "search"]
  BY DEF LoadFails
<1>2. list' \in ListType
  <2>1. ASSUME NEW failed \in BOOLEAN
        PROVE  [list EXCEPT !.loading = FALSE, !.failed = failed] \in ListType
    BY DEF PagesTypes, ListType
  <2>2. (page.turns = "search") \in BOOLEAN
    OBVIOUS
  <2> QED
    BY <1>1, <2>1, <2>2, Zenon
<1>3. loads' \in [Load -> Fetch \cup {None}]
  BY <1>1 DEF PagesTypes
<1>4. /\ history' \in HistoryType /\ history'.told = history.told
      /\ history'.lost = history.lost /\ history'.recovered = history.recovered
  BY <1>1 DEF PagesTypes, HistoryType
<1>5. PagesTypes'
  BY <1>1, <1>2, <1>3, <1>4 DEF PagesTypes
<1>6. Absence'
  <2>1. Loading' \subseteq Loading /\ Heard' = Heard
    BY <1>1 DEF Loading, Heard, PagesTypes
  <2> QED
    BY <1>1, <2>1 DEF Absence
<1> QED
  BY <1>1, <1>4, <1>5, <1>6, ListStep

LEMMA GoHears ==
  ASSUME PagesTypes, Bounds, Absence, Waits, NEW new \in BOOLEAN, Go(new)
  PROVE  PagesTypes' /\ Absence' /\ Waits' /\ HearsLess
<1> DEFINE opens == \/ ~mounted /\ (Form.place = "page" \/ (Form.place = "modal" /\ new))
                    \/ mounted /\ new /\ ~form.isNew /\ ~form.open
<1>1. /\ mounted' /\ UNCHANGED <<page, posts, stored, draft>> /\ (mounted => Form.byUrl)
      /\ entries' = IF opens THEN entries + 1 ELSE entries
      /\ form' = IF opens THEN Blank(entries + 1, new)
                 ELSE IF mounted THEN [form EXCEPT !.isNew = new] ELSE Closed(new)
  BY DEF Go
<1>2. opens \in BOOLEAN /\ (opens /\ mounted => ~form.open) /\ entries \in Nat
      /\ FormTraits(Form)
  BY FormValues DEF PagesTypes
<1>3. mounted' = TRUE
  BY DEF Go
<1>4. CASE mounted /\ UNCHANGED <<list, loads, history>>
  <2>1. PagesTypes'
    <3>1. form' \in FormType /\ entries' \in Nat
      BY <1>1, <1>2, FormValues DEF PagesTypes, FormType
    <3> QED
      BY <1>1, <1>3, <1>4, <3>1 DEF PagesTypes
  <2>2. Heard' = Heard /\ Attached' = Attached /\ Form' = Form /\ SameContents
    BY <1>1 DEF Heard, Attached, Form, SameContents, SameSubmission, Sent
  <2>3. CASE opens
    <3>1. /\ form' = Blank(entries + 1, new) /\ entries' = entries + 1
          /\ form'.open /\ form'.entry = entries + 1 /\ form'.key = KeyOf(entries + 1)
      BY <1>1, <1>2, <2>3, FormValues
    <3>2. Attached = {}
      BY <1>1, <1>2, <1>4, <2>3 DEF Waits, FormTraits
    <3>3. Waits'
      BY <2>2, <3>2 DEF Waits
    <3>4. BeginsEntry
      BY <3>1 DEF BeginsEntry
    <3> QED
      BY <1>1, <1>4, <2>1, <2>2, <3>1, <3>3, <3>4 DEF HearsLess, Absence
  <2>4. CASE ~opens
    <3>1. /\ form'.open = form.open /\ form'.entry = form.entry /\ form'.key = form.key
          /\ form'.saving = form.saving /\ entries' = entries
      BY <1>1, <1>4, <2>4 DEF PagesTypes, FormType
    <3>2. Waits' /\ KeepsForm
      BY <2>2, <3>1 DEF Waits, KeepsForm
    <3> QED
      BY <1>1, <1>4, <2>1, <2>2, <3>1, <3>2 DEF HearsLess, Absence
  <2> QED
    BY <2>3, <2>4
<1>5. CASE ~mounted
  <2>1. /\ \E l \in Load :
             loads' = IF page.turns = "search" THEN NoLoads
                      ELSE [NoLoads EXCEPT ![l] = [query |-> 1, seen |-> None]]
        /\ \E query \in Nat, loading \in BOOLEAN :
             list' = [rows |-> <<>>, of |-> 0, total |-> 0, failed |-> FALSE,
                      query |-> query, loading |-> loading]
        /\ history' = [history EXCEPT !.made = {}, !.mixed = FALSE, !.raced = FALSE]
    <3>1. (IF page.turns = "search" THEN 0 ELSE 1) \in Nat /\ (page.turns # "search") \in BOOLEAN
      OBVIOUS
    <3>2. list' = [rows |-> <<>>, of |-> 0, total |-> 0, failed |-> FALSE,
                   query |-> IF page.turns = "search" THEN 0 ELSE 1,
                   loading |-> page.turns # "search"]
      BY <1>5 DEF Go
    <3>3. \E query \in Nat, loading \in BOOLEAN :
             list' = [rows |-> <<>>, of |-> 0, total |-> 0, failed |-> FALSE,
                      query |-> query, loading |-> loading]
      BY <3>1, <3>2, Zenon
    <3> QED
      BY <1>5, <3>3 DEF Go
  <2>2. list' \in ListType
    BY <2>1 DEF ListType
  <2>3. loads' \in [Load -> Fetch \cup {None}]
    <3>1. [query |-> 1, seen |-> None] \in Fetch
      BY DEF Fetch
    <3> QED
      BY <2>1, <3>1 DEF NoLoads
  <2>4. /\ history' \in HistoryType /\ history'.told = history.told
        /\ history'.lost = history.lost /\ history'.recovered = history.recovered
    BY <2>1 DEF PagesTypes, HistoryType
  <2>5. form' \in FormType /\ entries' \in Nat
    BY <1>1, <1>2, <1>5, FormValues
  <2>6. PagesTypes'
    BY <1>1, <1>3, <2>2, <2>3, <2>4, <2>5 DEF PagesTypes
  <2>7. Heard' = {} /\ Attached' = {} /\ Heard = {} /\ Form' = Form /\ SameContents
    BY <1>1, <1>5 DEF Absence, Heard, Attached, Form, SameContents, SameSubmission, Sent
  <2>8. Waits' /\ Absence'
    BY <1>1, <2>7 DEF Waits, Absence
  <2>9. ~form'.open \/ BeginsEntry
    <3>1. CASE opens
      BY <1>1, <1>2, <3>1, FormValues DEF BeginsEntry
    <3>2. CASE ~opens
      BY <1>1, <1>5, <3>2, FormValues
    <3> QED
      BY <3>1, <3>2
  <2> QED
    BY <1>1, <2>4, <2>6, <2>7, <2>8, <2>9 DEF HearsLess
<1> QED
  BY <1>4, <1>5 DEF Go

LEMMA LeaveHears ==
  ASSUME PagesTypes, Bounds, Absence, Waits, Leave
  PROVE  PagesTypes' /\ Absence' /\ Waits' /\ HearsLess
<1>1. /\ mounted' = FALSE /\ loads' = NoLoads /\ form' = Closed(FALSE)
      /\ UNCHANGED <<page, list, stored, draft, entries>>
      /\ history' = [history EXCEPT !.lost = @ \cup {posts[p].entry : p \in Heard}]
  BY DEF Leave, Unmount
<1>2. /\ posts' \in [Post -> Submission \cup {None}] /\ SameContents
      /\ Heard' = {} /\ Attached' = {}
  BY DeafAllEffect DEF Leave
<1>3. {posts[p].entry : p \in Heard} \subseteq Nat
  BY DEF Heard, PagesTypes, Submission
<1>4. /\ history' \in HistoryType /\ history'.told = history.told
      /\ history'.lost = history.lost \cup {posts[p].entry : p \in Heard}
      /\ history'.recovered = history.recovered
  BY <1>1, <1>3 DEF PagesTypes, HistoryType
<1>5. form' \in FormType /\ ~form'.open
  BY <1>1, FormValues
<1>6. loads' \in [Load -> Fetch \cup {None}] /\ Loading' = {}
  BY <1>1 DEF NoLoads, Loading
<1>7. PagesTypes'
  BY <1>1, <1>2, <1>4, <1>5, <1>6 DEF PagesTypes
<1>8. Absence' /\ Waits'
  BY <1>2, <1>5, <1>6 DEF Absence, Waits
<1> QED
  BY <1>1, <1>2, <1>4, <1>5, <1>7, <1>8 DEF HearsLess

LEMMA OpenFormHears ==
  ASSUME PagesTypes, Bounds, Absence, Waits, OpenForm
  PROVE  PagesTypes' /\ Absence' /\ Waits' /\ HearsLess
<1>1. /\ mounted /\ ~form.open /\ entries' = entries + 1
      /\ form' = [Blank(entries + 1, form.isNew) EXCEPT !.saving = form.saving]
      /\ UNCHANGED <<page, mounted, list, loads, posts, stored, draft, history>>
  BY DEF OpenForm
<1>2. PICK b : b = Blank(entries + 1, form.isNew)
  OBVIOUS
<1>3. /\ entries \in Nat /\ b \in FormType /\ b.open /\ b.entry = entries + 1
      /\ b.key = KeyOf(entries + 1)
  BY <1>2, FormValues DEF PagesTypes, FormType
<1>4. /\ form' \in FormType /\ form'.open /\ form'.entry = entries + 1
      /\ form'.key = KeyOf(entries + 1) /\ form'.saving = form.saving
  BY <1>1, <1>2, <1>3 DEF PagesTypes, FormType
<1>5. PagesTypes'
  BY <1>1, <1>3, <1>4 DEF PagesTypes
<1>6. Heard' = Heard /\ Attached' = Attached /\ Form' = Form /\ SameContents
  BY <1>1 DEF Heard, Attached, Form, SameContents, SameSubmission, Sent
<1>7. Absence' /\ Waits' /\ BeginsEntry
  BY <1>1, <1>4, <1>6 DEF Absence, Waits, BeginsEntry
<1> QED
  BY <1>1, <1>5, <1>6, <1>7 DEF HearsLess

LEMMA CloseFormHears ==
  ASSUME PagesTypes, Bounds, Absence, Waits, CloseForm
  PROVE  PagesTypes' /\ Absence' /\ Waits' /\ HearsLess
<1>1. /\ mounted /\ posts' = Detach(posts) /\ Form.place = "modal"
      /\ form' = [Closed(form.isNew /\ ~Form.dropsNew)
                    EXCEPT !.saving = form.saving /\ ~Form.ownSaving]
      /\ UNCHANGED <<page, mounted, list, loads, stored, draft, entries, history>>
  BY DEF CloseForm
<1>2. /\ posts' \in [Post -> Submission \cup {None}] /\ SameContents
      /\ Heard' = Heard /\ Attached' = IF Form.ownSaving THEN {} ELSE Attached
  BY <1>1, DetachEffect
<1>3. ASSUME NEW new \in BOOLEAN, NEW saving \in BOOLEAN
      PROVE  LET f == [Closed(new) EXCEPT !.saving = saving]
             IN  f \in FormType /\ ~f.open /\ f.saving = saving
  BY DEF Closed, FormType
<1>4. /\ (form.isNew /\ ~Form.dropsNew) \in BOOLEAN
      /\ (form.saving /\ ~Form.ownSaving) \in BOOLEAN
  OBVIOUS
<1>5. /\ form' \in FormType /\ ~form'.open
      /\ form'.saving = (form.saving /\ ~Form.ownSaving)
  BY <1>1, <1>3, <1>4, Zenon
<1>6. PagesTypes'
  BY <1>1, <1>2, <1>5 DEF PagesTypes
<1>7. Form' = Form
  BY <1>1 DEF Form
<1>8. Absence'
  BY <1>1 DEF Absence
<1>9. Waits'
  BY <1>1, <1>2, <1>5, <1>7 DEF Waits
<1> QED
  BY <1>1, <1>2, <1>5, <1>6, <1>8, <1>9 DEF HearsLess

LEMMA EditHears ==
  ASSUME PagesTypes, Bounds, Absence, Waits, Edit
  PROVE  PagesTypes' /\ Absence' /\ Waits' /\ HearsLess
<1>1. /\ mounted /\ form.open /\ entries' = entries + 1
      /\ form' = [form EXCEPT !.entry = entries + 1]
      /\ UNCHANGED <<page, mounted, list, loads, posts, stored, draft, history>>
  BY DEF Edit
<1>2. /\ entries \in Nat /\ form' \in FormType /\ form'.open /\ form'.entry = entries + 1
      /\ form'.key = form.key /\ form'.saving = form.saving
  BY <1>1 DEF PagesTypes, FormType
<1>3. PagesTypes'
  BY <1>1, <1>2 DEF PagesTypes
<1>4. Heard' = Heard /\ Attached' = Attached /\ Form' = Form /\ SameContents
  BY <1>1 DEF Heard, Attached, Form, SameContents, SameSubmission, Sent
<1>5. Absence' /\ Waits' /\ BeginsEntry
  BY <1>1, <1>2, <1>4 DEF Absence, Waits, BeginsEntry
<1> QED
  BY <1>1, <1>3, <1>4, <1>5 DEF HearsLess

LEMMA UnsavedEffect ==
  ASSUME PagesTypes, NEW p \in Heard, Unsaved(p)
  PROVE  /\ form' \in FormType /\ form'.open = form.open /\ form'.entry = form.entry
         /\ form'.key = form.key /\ (form'.saving <=> form.saving /\ p \notin Attached)
<1>1. ASSUME NEW saving \in BOOLEAN
      PROVE  LET f == [form EXCEPT !.saving = saving]
             IN  /\ f \in FormType /\ f.open = form.open /\ f.entry = form.entry
                 /\ f.key = form.key /\ f.saving = saving
  BY DEF PagesTypes, FormType
<1>2. (form.saving /\ ~posts[p].attached) \in BOOLEAN
  OBVIOUS
<1>3. form' = [form EXCEPT !.saving = form.saving /\ ~posts[p].attached]
  BY DEF Unsaved
<1>4. /\ form' \in FormType /\ form'.open = form.open /\ form'.entry = form.entry
      /\ form'.key = form.key /\ form'.saving = (form.saving /\ ~posts[p].attached)
  BY <1>1, <1>2, <1>3, Zenon
<1>5. p \in Attached <=> posts[p].attached
  BY DEF Attached
<1> QED
  BY <1>4, <1>5

(* One submission less is waited for.                                      *)
LEMMA WaitsLess ==
  ASSUME PagesTypes, Waits, NEW p \in Heard, UNCHANGED page, Heard' = Heard \ {p},
         Attached' = Attached \ {p}, form'.open = form.open,
         form'.saving <=> form.saving /\ p \notin Attached
  PROVE  Waits'
<1>1. Form' = Form
  BY DEF Form
<1>2. Attached # {} => form.saving /\ (form.open \/ ~Form.ownSaving)
  BY DEF Waits
<1>3. Attached' # {} => Attached # {} /\ p \notin Attached
  BY DEF Waits
<1>4. Attached' # {} => form'.saving /\ (form'.open \/ ~Form'.ownSaving)
  BY <1>1, <1>2, <1>3
<1> QED
  BY <1>1, <1>4 DEF Waits

LEMMA HearRefusalHears ==
  ASSUME PagesTypes, Bounds, Absence, Waits, NEW p \in Post, HearRefusal(p)
  PROVE  PagesTypes' /\ Absence' /\ Waits' /\ HearsLess
<1>1. /\ p \in Heard /\ posts[p].answer = 0 /\ Deaf(p) /\ Unsaved(p)
      /\ UNCHANGED <<page, mounted, list, loads, stored, draft, entries, history>>
  BY DEF HearRefusal
<1>2. /\ posts' \in [Post -> Submission \cup {None}] /\ SameContents
      /\ Heard' = Heard \ {p} /\ Attached' = Attached \ {p}
  BY <1>1, DeafEffect
<1>3. /\ form' \in FormType /\ form'.open = form.open /\ form'.entry = form.entry
      /\ form'.key = form.key /\ (form'.saving <=> form.saving /\ p \notin Attached)
  BY <1>1, UnsavedEffect
<1>4. PagesTypes'
  BY <1>1, <1>2, <1>3 DEF PagesTypes
<1>5. Waits'
  BY <1>1, <1>2, <1>3, WaitsLess
<1>6. Absence'
  <2>1. Loading' = Loading
    BY <1>1 DEF Loading
  <2> QED
    BY <1>1, <1>2, <1>3, <2>1 DEF Absence
<1>7. KeepsForm
  BY <1>1, <1>2, <1>3 DEF KeepsForm
<1>8. ~Pending(p)
  BY <1>1, NoneAssumption DEF Pending
<1> QED
  BY <1>1, <1>2, <1>4, <1>5, <1>6, <1>7, <1>8 DEF HearsLess

LEMMA LosePostHears ==
  ASSUME PagesTypes, Bounds, Absence, Waits, NEW p \in Post, LosePost(p)
  PROVE  PagesTypes' /\ Absence' /\ Waits' /\ HearsLess
<1>1. /\ p \in Heard /\ Deaf(p) /\ Unsaved(p)
      /\ UNCHANGED <<page, mounted, list, loads, stored, draft, entries>>
      /\ history' = [history EXCEPT !.lost = @ \cup {posts[p].entry}]
  BY DEF LosePost
<1>2. /\ posts' \in [Post -> Submission \cup {None}] /\ SameContents
      /\ Heard' = Heard \ {p} /\ Attached' = Attached \ {p}
  BY <1>1, DeafEffect
<1>3. /\ form' \in FormType /\ form'.open = form.open /\ form'.entry = form.entry
      /\ form'.key = form.key /\ (form'.saving <=> form.saving /\ p \notin Attached)
  BY <1>1, UnsavedEffect
<1>4. posts[p].entry \in Nat
  BY <1>1 DEF Heard, PagesTypes, Submission
<1>5. /\ history' \in HistoryType /\ history'.told = history.told
      /\ history'.lost = history.lost \cup {posts[p].entry}
      /\ history'.recovered = history.recovered
  BY <1>1, <1>4 DEF PagesTypes, HistoryType
<1>6. PagesTypes'
  BY <1>1, <1>2, <1>3, <1>5 DEF PagesTypes
<1>7. Waits'
  BY <1>1, <1>2, <1>3, WaitsLess
<1>8. Absence'
  <2>1. Loading' = Loading
    BY <1>1 DEF Loading
  <2> QED
    BY <1>1, <1>2, <1>3, <2>1 DEF Absence
<1>9. KeepsForm
  BY <1>2, <1>3, <1>5 DEF KeepsForm
<1> QED
  BY <1>1, <1>2, <1>5, <1>6, <1>7, <1>8, <1>9 DEF HearsLess

LEMMA ToldEffect ==
  ASSUME PagesTypes, NEW p \in Heard, Created(p), NEW h \in HistoryType
  PROVE  /\ Told(p, h) \in HistoryType
         /\ Told(p, h).told = h.told \cup {<<posts[p].entry, posts[p].answer>>}
         /\ Told(p, h).made = h.made \cup {posts[p].answer}
         /\ Told(p, h).lost = h.lost /\ Told(p, h).recovered = h.recovered
         /\ Told(p, h).mixed = h.mixed /\ Told(p, h).raced = h.raced
<1>1. posts[p].entry \in Nat /\ posts[p].answer \in Nat
  BY DEF Heard, PagesTypes, Submission, Created
<1>2. PICK e \in Nat, a \in Nat : e = posts[p].entry /\ a = posts[p].answer
  BY <1>1
<1>3. Told(p, h) = [h EXCEPT !.told = h.told \cup {<<e, a>>}, !.made = h.made \cup {a}]
  BY <1>2 DEF Told
<1>4. h.told \cup {<<e, a>>} \in SUBSET (Nat \X Nat) /\ h.made \cup {a} \in SUBSET Nat
  BY DEF HistoryType
<1> QED
  BY <1>2, <1>3, <1>4 DEF HistoryType

(* The modal goes, whichever of the submissions succeeded.                 *)
LEMMA ModalDoneEffect ==
  ASSUME PagesTypes, Waits, NEW p \in Heard, ModalDone(p), UNCHANGED page
  PROVE  /\ posts' \in [Post -> Submission \cup {None}] /\ SameContents
         /\ Heard' = Heard \ {p} /\ Attached' \subseteq Attached
         /\ form' \in FormType /\ ~form'.open
         /\ Form.place = "modal" => Waits'
<1>1. /\ form' = [Closed(form.isNew /\ ~Form.dropsNew)
                    EXCEPT !.saving = form.saving /\ ~Form.ownSaving /\ ~posts[p].attached]
      /\ posts' = Detach([posts EXCEPT ![p].heard = FALSE])
  BY DEF ModalDone
<1>2. /\ posts' \in [Post -> Submission \cup {None}] /\ SameContents
      /\ Heard' = Heard \ {p}
      /\ Attached' = IF Form.ownSaving THEN {} ELSE Attached \ {p}
  BY <1>1, DeafDetachEffect
<1>3. ASSUME NEW new \in BOOLEAN, NEW saving \in BOOLEAN
      PROVE  LET f == [Closed(new) EXCEPT !.saving = saving]
             IN  f \in FormType /\ ~f.open /\ f.saving = saving
  BY DEF Closed, FormType
<1>4. /\ (form.isNew /\ ~Form.dropsNew) \in BOOLEAN
      /\ (form.saving /\ ~Form.ownSaving /\ ~posts[p].attached) \in BOOLEAN
  OBVIOUS
<1>5. /\ form' \in FormType /\ ~form'.open
      /\ form'.saving = (form.saving /\ ~Form.ownSaving /\ ~posts[p].attached)
  BY <1>1, <1>3, <1>4, Zenon
<1>6. (p \in Attached <=> posts[p].attached) /\ Form' = Form
  BY DEF Attached, Form
<1>7. Attached' # {} => Attached # {} /\ p \notin Attached /\ ~Form.ownSaving
  BY <1>2 DEF Waits
<1>8. Attached' # {} => form'.saving
  BY <1>5, <1>6, <1>7 DEF Waits
<1>9. Form.place = "modal" => Waits'
  BY <1>2, <1>6, <1>7, <1>8 DEF Waits
<1> QED
  BY <1>2, <1>5, <1>9

LEMMA HearSuccessHears ==
  ASSUME PagesTypes, Bounds, Absence, Waits, NEW p \in Post, HearSuccess(p)
  PROVE  PagesTypes' /\ Absence' /\ Waits' /\ HearsLess
<1>1. /\ p \in Heard /\ Created(p) /\ ~Pending(p) /\ mounted
      /\ UNCHANGED <<page, stored, draft>>
  BY DEF HearSuccess, Created, Pending, Sent, Heard, Absence
<1>2. FormTraits(Form) /\ entries \in Nat
  BY FormValues DEF PagesTypes
<1>3. \A t \in history.told \cup {<<posts[p].entry, posts[p].answer>>} :
        \/ t \in history.told
        \/ \E q \in Heard : Created(q) /\ t = <<posts[q].entry, posts[q].answer>>
  BY <1>1
<1>4. CASE Prepend(p)
  <2>1. /\ Form.place = "modal" /\ ModalDone(p) /\ history' = Told(p, history)
        /\ list' = [list EXCEPT !.rows = <<posts[p].answer>> \o @]
        /\ UNCHANGED <<mounted, loads, entries>>
    BY <1>2, <1>4 DEF Prepend, FormTraits
  <2>2. /\ posts' \in [Post -> Submission \cup {None}] /\ SameContents
        /\ Heard' = Heard \ {p} /\ Attached' \subseteq Attached
        /\ form' \in FormType /\ ~form'.open /\ Waits'
    BY <1>1, <2>1, ModalDoneEffect
  <2>3. /\ history' \in HistoryType /\ history'.lost = history.lost
        /\ history'.recovered = history.recovered
        /\ history'.told = history.told \cup {<<posts[p].entry, posts[p].answer>>}
    BY <1>1, <2>1, ToldEffect DEF PagesTypes
  <2>4. list' \in ListType
    <3>1. posts[p].answer \in Nat /\ list.rows \in Seq(Nat)
      BY <1>1 DEF Heard, PagesTypes, Submission, Created, ListType
    <3>2. <<posts[p].answer>> \o list.rows \in Seq(Nat)
      BY <3>1
    <3>3. ASSUME NEW rows \in Seq(Nat)
          PROVE  [list EXCEPT !.rows = rows] \in ListType
      BY DEF PagesTypes, ListType
    <3> QED
      BY <2>1, <3>2, <3>3, Zenon
  <2>5. PagesTypes'
    BY <1>1, <2>1, <2>2, <2>3, <2>4 DEF PagesTypes
  <2> QED
    BY <1>1, <1>3, <2>1, <2>2, <2>3, <2>5 DEF HearsLess, Absence
<1>5. CASE Reload(p)
  <2>1. PICK l \in Load : StartLoad(l, list.query)
    BY <1>5 DEF Reload
  <2>2. /\ Form.place = "modal" /\ ModalDone(p) /\ history' = Told(p, Meets(Heard \ {p}))
        /\ UNCHANGED <<mounted, entries>>
    BY <1>2, <1>5 DEF Reload, FormTraits
  <2>3. /\ posts' \in [Post -> Submission \cup {None}] /\ SameContents
        /\ Heard' = Heard \ {p} /\ Attached' \subseteq Attached
        /\ form' \in FormType /\ ~form'.open /\ Waits'
    BY <1>1, <2>2, ModalDoneEffect
  <2>4. PICK h : h = Meets(Heard \ {p})
    OBVIOUS
  <2>5. /\ h \in HistoryType /\ h.told = history.told /\ h.lost = history.lost
        /\ h.recovered = history.recovered
    BY <2>4, MeetsEffect
  <2>6. /\ history' \in HistoryType /\ history'.lost = history.lost
        /\ history'.recovered = history.recovered
        /\ history'.told = history.told \cup {<<posts[p].entry, posts[p].answer>>}
    BY <1>1, <2>2, <2>4, <2>5, ToldEffect
  <2>7. list' \in ListType /\ loads' \in [Load -> Fetch \cup {None}]
    BY <2>1, StartLoadEffect DEF PagesTypes, ListType
  <2>8. PagesTypes'
    BY <1>1, <2>2, <2>3, <2>6, <2>7 DEF PagesTypes
  <2> QED
    BY <1>1, <1>3, <2>2, <2>3, <2>6, <2>8 DEF HearsLess, Absence
<1>6. CASE LeaveForRow(p)
  <2>1. /\ Form.place # "modal" /\ Deaf(p) /\ history' = Told(p, history)
        /\ mounted' = FALSE /\ loads' = NoLoads /\ form' = Closed(FALSE)
        /\ UNCHANGED <<list, entries>>
    BY <1>2, <1>6 DEF LeaveForRow, Unmount, FormTraits
  <2>2. /\ posts' \in [Post -> Submission \cup {None}] /\ SameContents
        /\ Heard' = Heard \ {p} /\ Attached' = Attached \ {p}
    BY <1>1, <2>1, DeafEffect
  <2>3. Heard' = {} /\ Attached' = {}
    BY <1>1, <2>1, <2>2 DEF Waits
  <2>4. /\ history' \in HistoryType /\ history'.lost = history.lost
        /\ history'.recovered = history.recovered
        /\ history'.told = history.told \cup {<<posts[p].entry, posts[p].answer>>}
    BY <1>1, <2>1, ToldEffect DEF PagesTypes
  <2>5. form' \in FormType /\ ~form'.open
    BY <2>1, FormValues
  <2>6. loads' \in [Load -> Fetch \cup {None}] /\ Loading' = {}
    BY <2>1 DEF NoLoads, Loading
  <2>7. PagesTypes'
    BY <1>1, <2>1, <2>2, <2>4, <2>5, <2>6 DEF PagesTypes
  <2>8. Absence' /\ Waits'
    BY <2>3, <2>5, <2>6 DEF Absence, Waits
  <2> QED
    BY <1>1, <1>3, <2>1, <2>2, <2>4, <2>5, <2>7, <2>8 DEF HearsLess
<1>7. CASE StartAgain(p)
  <2>1. /\ Form.place # "modal" /\ Deaf(p) /\ history' = Told(p, history)
        /\ entries' = entries + 1 /\ form' = Blank(entries + 1, FALSE)
        /\ UNCHANGED <<mounted, list, loads>>
    BY <1>2, <1>7 DEF StartAgain, FormTraits
  <2>2. /\ posts' \in [Post -> Submission \cup {None}] /\ SameContents
        /\ Heard' = Heard \ {p} /\ Attached' = Attached \ {p}
    BY <1>1, <2>1, DeafEffect
  <2>3. Heard' = {} /\ Attached' = {}
    BY <1>1, <2>1, <2>2 DEF Waits
  <2>4. /\ history' \in HistoryType /\ history'.lost = history.lost
        /\ history'.recovered = history.recovered
        /\ history'.told = history.told \cup {<<posts[p].entry, posts[p].answer>>}
    BY <1>1, <2>1, ToldEffect DEF PagesTypes
  <2>5. /\ form' \in FormType /\ form'.open /\ form'.entry = entries + 1
        /\ form'.key = KeyOf(entries + 1)
    <3>1. PICK e \in Nat : e = entries + 1
      BY <1>2
    <3>2. form' = Blank(e, FALSE)
      BY <2>1, <3>1
    <3>3. /\ Blank(e, FALSE) \in FormType /\ Blank(e, FALSE).open
          /\ Blank(e, FALSE).entry = e /\ Blank(e, FALSE).key = KeyOf(e)
      BY FormValues
    <3> QED
      BY <3>1, <3>2, <3>3
  <2>6. PagesTypes'
    <3>1. entries' \in Nat
      BY <1>2, <2>1
    <3> QED
      BY <1>1, <2>1, <2>2, <2>4, <2>5, <3>1 DEF PagesTypes
  <2>7. Absence' /\ Waits'
    BY <1>1, <2>1, <2>3 DEF Absence, Waits
  <2>8. BeginsEntry
    BY <2>1, <2>5 DEF BeginsEntry
  <2> QED
    BY <1>1, <1>3, <2>1, <2>2, <2>4, <2>6, <2>7, <2>8 DEF HearsLess
<1> QED
  BY <1>4, <1>5, <1>6, <1>7 DEF HearSuccess

--------------------------------------------------------------------------------
(***************************************************************************)
(* The steps that write: a draft, the recovered entry, a submission, its   *)
(* answer, a row.                                                          *)
(***************************************************************************)
LEMMA AutosavePreserves ==
  ASSUME PagesTypes, EntriesInv, Absence, Waits, Autosave
  PROVE  PagesTypes' /\ EntriesInv' /\ Absence' /\ Waits'
<1>1. /\ form.open /\ ~form.saving /\ Form.drafts # "none" /\ draft' = form.entry
      /\ UNCHANGED <<page, mounted, list, loads, form, posts, stored, entries, history>>
  BY DEF Autosave
<1>2. PagesTypes'
  BY <1>1 DEF PagesTypes, FormType
<1>3. Form' = Form /\ Heard' = Heard /\ Attached' = Attached /\ Loading' = Loading
  BY <1>1 DEF Form, Heard, Attached, Loading
<1>4. Absence' /\ Waits'
  BY <1>1, <1>3 DEF Absence, Waits
<1>5. Bounds'
  BY <1>1, <1>3 DEF EntriesInv, Bounds, Created, Sent
<1>6. UnheardLost' /\ OnceOnItsWay'
  BY <1>1 DEF EntriesInv, UnheardLost, OnceOnItsWay, Pending, Sent, Certain
<1>7. ShownIsAwaited'
  BY <1>1, <1>3 DEF EntriesInv, ShownIsAwaited, Awaited, Pending, Sent, Certain
<1>8. OneKey'
  BY <1>1, <1>3 DEF EntriesInv, OneKey, Pending, Sent
<1>9. AnswersOfEntry'
  BY <1>1, <1>3 DEF EntriesInv, AnswersOfEntry, About, Pending, Created, Sent
<1>10. DraftNotStored'
  <2>1. ASSUME Certain(form.entry), NEW r \in DOMAIN stored, stored[r].entry = form.entry
        PROVE  FALSE
    <3>1. Attached # {}
      BY <1>1, <2>1 DEF EntriesInv, ShownIsAwaited, Awaited
    <3> QED
      BY <1>1, <3>1 DEF Waits
  <2> QED
    BY <1>1, <2>1 DEF DraftNotStored, Certain
<1> QED
  BY <1>2, <1>4, <1>5, <1>6, <1>7, <1>8, <1>9, <1>10 DEF EntriesInv

LEMMA RecoverPreserves ==
  ASSUME PagesTypes, EntriesInv, Absence, Waits, Recover
  PROVE  PagesTypes' /\ EntriesInv' /\ Absence' /\ Waits'
<1> DEFINE more == IF MayBeStored(draft) THEN history.recovered \cup {draft}
                   ELSE history.recovered
<1>1. /\ mounted /\ form.open /\ draft # 0 /\ form' = [form EXCEPT !.entry = draft]
      /\ history' = [history EXCEPT !.recovered = more]
      /\ UNCHANGED <<page, mounted, list, loads, posts, stored, draft, entries>>
  BY DEF Recover
<1>2. more \in SUBSET Nat /\ history.recovered \subseteq more
      /\ (MayBeStored(draft) => draft \in more)
  BY DEF PagesTypes, HistoryType
<1> HIDE DEF more
<1>3. /\ form' \in FormType /\ form'.entry = draft /\ form'.key = form.key /\ form'.open
      /\ form'.saving = form.saving
  BY <1>1 DEF PagesTypes, FormType
<1>4. /\ history' \in HistoryType /\ history'.recovered = more /\ history'.lost = history.lost
      /\ history'.told = history.told
  BY <1>1, <1>2 DEF PagesTypes, HistoryType
<1>5. PagesTypes'
  BY <1>1, <1>3, <1>4 DEF PagesTypes
<1>6. Form' = Form /\ Heard' = Heard /\ Attached' = Attached /\ Loading' = Loading
  BY <1>1 DEF Form, Heard, Attached, Loading
<1>7. Absence' /\ Waits'
  BY <1>1, <1>3, <1>6 DEF Absence, Waits
<1>8. Bounds'
  <2>1. draft \in 1 .. entries
    BY <1>1 DEF PagesTypes, EntriesInv, Bounds
  <2> QED
    BY <1>1, <1>3, <1>6, <2>1 DEF EntriesInv, Bounds, Created, Sent
<1>9. \A e : Certain(e)' => Certain(e)
  BY <1>2, <1>4 DEF Certain
<1>10. /\ \A p \in Post : Pending(p)' <=> Pending(p)
       /\ \A p \in Post : Created(p)' <=> Created(p)
  BY <1>1 DEF Pending, Created, Sent
(* Nothing of an entry that was surely not stored is anywhere.             *)
<1>11. ASSUME draft \notin more
       PROVE  /\ \A p \in Post : ~(Pending(p) /\ posts[p].entry = draft)
              /\ \A r \in DOMAIN stored : stored[r].entry # draft
  <2>1. ~MayBeStored(draft)
    BY <1>2, <1>11
  <2>2. Certain(draft) /\ Form.drafts # "left"
    BY <1>1, <1>2, <1>11, <2>1 DEF MayBeStored, Certain
  <2>3. \A p \in Post : ~(Pending(p) /\ posts[p].entry = draft)
    BY <2>1 DEF MayBeStored, Pending, Sent
  <2> QED
    BY <2>2, <2>3 DEF EntriesInv, DraftNotStored
<1>12. UnheardLost'
  BY <1>1, <1>4, <1>10 DEF EntriesInv, UnheardLost
<1>13. OnceOnItsWay'
  BY <1>1, <1>9, <1>10 DEF EntriesInv, OnceOnItsWay
<1>14. DraftNotStored'
  BY <1>1, <1>6, <1>9 DEF EntriesInv, DraftNotStored
<1>15. ShownIsAwaited'
  <2>1. Certain(form.entry)' => draft \notin more
    BY <1>1, <1>3, <1>4 DEF Certain
  <2> QED
    BY <1>1, <1>3, <1>10, <1>11, <2>1 DEF ShownIsAwaited
<1>16. OneKey'
  <2> SUFFICES ASSUME Form.keyed PROVE OneKey'
    BY <1>6 DEF OneKey
  <2>1. \A e : e \notin more => e \notin history.recovered
    BY <1>2
  <2>2. draft \notin more =>
         /\ \A p \in Post : Pending(p) /\ posts[p].entry = draft => posts[p].key = form.key
         /\ \A r \in DOMAIN stored : stored[r].entry = draft => stored[r].key = form.key
    BY <1>11
  <2>3. UNCHANGED <<posts, stored>>
    BY <1>1
  <2>4. \A r, s \in DOMAIN stored :
         /\ stored[r].key = stored[s].key /\ stored[r].key # 0 => r = s
         /\ (/\ stored[r].entry = stored[s].entry /\ stored[r].entry # 0
             /\ stored[r].entry \notin more) => stored[r].key = stored[s].key
    BY <2>1 DEF EntriesInv, OneKey
  <2>5. \A p \in Post : \A r \in DOMAIN stored :
         /\ Pending(p) /\ posts[p].entry = stored[r].entry /\ posts[p].entry \notin more
         => posts[p].key = stored[r].key
    BY <2>1 DEF EntriesInv, OneKey
  <2>6. \A p, q \in Post :
         /\ Pending(p) /\ Pending(q) /\ posts[p].entry = posts[q].entry
         /\ posts[p].entry \notin more
         => posts[p].key = posts[q].key
    BY <2>1 DEF EntriesInv, OneKey
  <2> QED
    BY <1>3, <1>4, <1>10, <2>2, <2>3, <2>4, <2>5, <2>6 DEF OneKey
<1>17. AnswersOfEntry'
  <2>1. UNCHANGED <<posts, stored>> /\ Heard \subseteq Post
    BY <1>1 DEF Heard
  <2>2. \A e, r : About(e, r)' <=> About(e, r)
    BY <1>4, <1>6, <2>1 DEF About
  <2>3. \A p \in Post : \A r :
          /\ About(posts[p].entry, r)' <=> About(posts[p].entry, r)
          /\ About(posts[p].entry, posts[p].answer)' <=> About(posts[p].entry, posts[p].answer)
    BY <1>4, <1>6, <2>1 DEF About
  <2>4. \A told \in history.told : About(told[1], told[2])' <=> About(told[1], told[2])
    BY <2>2
  <2> QED
    BY <1>1, <1>3, <1>4, <1>6, <1>10, <2>1, <2>3, <2>4 DEF EntriesInv, AnswersOfEntry
<1> QED
  BY <1>5, <1>7, <1>8, <1>12, <1>13, <1>14, <1>15, <1>16, <1>17 DEF EntriesInv

LEMMA SubmitFormEffect ==
  ASSUME PagesTypes, Bounds, Waits, NEW p \in Post, SubmitForm(p)
  PROVE  /\ posts' \in [Post -> Submission \cup {None}]
         /\ posts'[p] # None /\ posts'[p].entry = form.entry /\ posts'[p].key = form.key
         /\ posts'[p].answer = None
         /\ \A q \in Post \ {p} : posts'[q] = posts[q]
         /\ Attached = {} /\ Heard' = Heard \cup {p} /\ Attached' = {p} /\ posts[p] = None
         /\ form' \in FormType /\ form'.open /\ form'.entry = form.entry /\ form'.key = form.key
         /\ form'.saving
         /\ history' \in HistoryType /\ history'.told = history.told
         /\ history'.lost = history.lost /\ history'.recovered = history.recovered
         /\ history'.made = history.made /\ history'.mixed = history.mixed
         /\ history'.raced = (history.raced \/ Loading # {})
<1> DEFINE x == [entry |-> form.entry, key |-> form.key, answer |-> None, heard |-> TRUE,
                 attached |-> TRUE]
<1>1. /\ form.open /\ ~form.saving /\ posts[p] = None /\ posts' = [posts EXCEPT ![p] = x]
      /\ form' = [form EXCEPT !.saving = TRUE]
      /\ history' = [history EXCEPT !.raced = @ \/ Loading # {}]
  BY DEF SubmitForm
<1>2. /\ x \in Submission /\ x.entry = form.entry /\ x.key = form.key /\ x.answer = None
      /\ x.heard /\ x.attached
  BY DEF Submission, PagesTypes, FormType
<1> HIDE DEF x
<1>3. x # None
  BY <1>2, NoneAssumption
<1>4. /\ posts' \in [Post -> Submission \cup {None}]
      /\ posts'[p] = x /\ \A q \in Post \ {p} : posts'[q] = posts[q]
  BY <1>1, <1>2 DEF PagesTypes
<1>5. Attached = {}
  BY <1>1 DEF Waits
<1>6. Heard' = Heard \cup {p}
  BY <1>2, <1>3, <1>4 DEF Heard
<1>7. p \notin Heard /\ Heard \subseteq Post
  BY <1>1 DEF Heard
<1>8. Attached' = {p}
  <2>1. \A q \in Heard : ~posts[q].attached
    BY <1>5 DEF Attached
  <2> QED
    BY <1>2, <1>4, <1>6, <1>7, <2>1 DEF Attached
<1>9. /\ form' \in FormType /\ form'.open /\ form'.entry = form.entry /\ form'.key = form.key
      /\ form'.saving
  BY <1>1 DEF PagesTypes, FormType
<1>10. /\ history' \in HistoryType /\ history'.told = history.told
       /\ history'.lost = history.lost /\ history'.recovered = history.recovered
       /\ history'.made = history.made /\ history'.mixed = history.mixed
       /\ history'.raced = (history.raced \/ Loading # {})
  BY <1>1 DEF PagesTypes, HistoryType
<1> QED
  BY <1>1, <1>2, <1>3, <1>4, <1>5, <1>6, <1>8, <1>9, <1>10

LEMMA SubmitFormPreserves ==
  ASSUME PagesTypes, EntriesInv, Absence, Waits, NEW p \in Post, SubmitForm(p)
  PROVE  PagesTypes' /\ EntriesInv' /\ Absence' /\ Waits'
<1>1. /\ mounted /\ form.open
      /\ UNCHANGED <<page, mounted, list, loads, stored, draft, entries>>
  BY DEF SubmitForm
<1>2. /\ posts' \in [Post -> Submission \cup {None}]
      /\ posts'[p] # None /\ posts'[p].entry = form.entry /\ posts'[p].key = form.key
      /\ posts'[p].answer = None
      /\ \A q \in Post \ {p} : posts'[q] = posts[q]
      /\ Attached = {} /\ Heard' = Heard \cup {p} /\ Attached' = {p} /\ posts[p] = None
      /\ form' \in FormType /\ form'.open /\ form'.entry = form.entry /\ form'.key = form.key
      /\ form'.saving
      /\ history' \in HistoryType /\ history'.told = history.told
      /\ history'.lost = history.lost /\ history'.recovered = history.recovered
  BY SubmitFormEffect DEF EntriesInv
<1>3. PagesTypes'
  BY <1>1, <1>2 DEF PagesTypes
<1>4. Form' = Form
  BY <1>1 DEF Form
<1>5. Absence' /\ Waits'
  BY <1>1, <1>2, <1>4 DEF Absence, Waits
<1>6. /\ \A q \in Post \ {p} : /\ Pending(q)' <=> Pending(q)
                               /\ Created(q)' <=> Created(q)
                               /\ Sent(q)' <=> Sent(q)
      /\ Pending(p)' /\ ~Created(p)' /\ Sent(p)'
      /\ p \notin Heard /\ Heard \subseteq Post
  BY <1>2 DEF Pending, Created, Sent, Heard
<1>7. \A e : Certain(e)' <=> Certain(e)
  BY <1>2 DEF Certain
(* What is in the form is neither on its way nor stored.                   *)
<1>8. Certain(form.entry) =>
        /\ \A q \in Post : ~(Pending(q) /\ posts[q].entry = form.entry)
        /\ \A r \in DOMAIN stored : stored[r].entry # form.entry
  BY <1>1, <1>2 DEF EntriesInv, ShownIsAwaited, Awaited
<1>9. Bounds'
  <2>1. \A q \in Post : Sent(q)' =>
          /\ posts'[q].entry \in 1 .. entries /\ posts'[q].key <= entries
          /\ Form.keyed <=> posts'[q].key # 0
    BY <1>1, <1>2, <1>6 DEF EntriesInv, Bounds
  <2>2. \A q \in Post : Created(q)' => posts'[q].answer \in DOMAIN stored
    BY <1>2, <1>6 DEF EntriesInv, Bounds
  <2> QED
    BY <1>1, <1>2, <1>4, <2>1, <2>2 DEF EntriesInv, Bounds
<1>10. UnheardLost'
  <2>1. posts'[p].heard
    BY <1>2 DEF Attached, Heard
  <2> QED
    BY <1>2, <1>6, <2>1 DEF EntriesInv, UnheardLost
<1>11. OnceOnItsWay'
  <2>1. \A q, s \in Post :
          /\ Pending(q)' /\ Pending(s)' /\ posts'[q].entry = posts'[s].entry
          /\ Certain(posts'[q].entry)
          => q = s
    BY <1>2, <1>6, <1>8 DEF EntriesInv, OnceOnItsWay
  <2>2. \A q \in Post : \A r \in DOMAIN stored :
          Pending(q)' /\ Certain(posts'[q].entry) => stored[r].entry # posts'[q].entry
    BY <1>2, <1>6, <1>8 DEF EntriesInv, OnceOnItsWay
  <2>3. \A q \in Post : Certain(posts[q].entry)' => Certain(posts'[q].entry)
    BY <1>2 DEF Certain
  <2>4. \A r \in DOMAIN stored : Certain(stored[r].entry)' => Certain(stored[r].entry)
    BY <1>1, <1>2 DEF Certain
  <2> QED
    BY <1>1, <2>1, <2>2, <2>3, <2>4 DEF EntriesInv, OnceOnItsWay
<1>12. ShownIsAwaited'
  <2>1. Awaited(form.entry)'
    BY <1>2, NoneAssumption DEF Awaited
  <2> QED
    BY <2>1 DEF ShownIsAwaited
<1>13. DraftNotStored'
  BY <1>1, <1>2, <1>4 DEF EntriesInv, DraftNotStored, Certain
<1>14. OneKey'
  <2> SUFFICES ASSUME Form.keyed PROVE OneKey'
    BY <1>4 DEF OneKey
  <2>1. \A q \in Post : \A r \in DOMAIN stored :
         /\ Pending(q)' /\ posts'[q].entry = stored[r].entry
         /\ posts'[q].entry \notin history.recovered
         => posts'[q].key = stored[r].key
    BY <1>1, <1>2, <1>6 DEF EntriesInv, OneKey
  <2>2. \A q, s \in Post :
         /\ Pending(q)' /\ Pending(s)' /\ posts'[q].entry = posts'[s].entry
         /\ posts'[q].entry \notin history.recovered
         => posts'[q].key = posts'[s].key
    BY <1>1, <1>2, <1>6 DEF EntriesInv, OneKey
  <2>3. form.entry \notin history.recovered =>
         /\ \A q \in Post : Pending(q)' /\ posts'[q].entry = form.entry =>
              posts'[q].key = form.key
         /\ \A r \in DOMAIN stored : stored[r].entry = form.entry => stored[r].key = form.key
    BY <1>1, <1>2, <1>6 DEF EntriesInv, OneKey
  <2> QED
    BY <1>1, <1>2, <2>1, <2>2, <2>3 DEF EntriesInv, OneKey
<1>15. AnswersOfEntry'
  <2>1. \A e, r : About(e, r)' <=> About(e, r)
    BY <1>1, <1>2, <1>4 DEF About
  <2>2. Form.keyed => Heard = {}
    BY <1>2, FormValues DEF Waits, FormTraits
  <2>3. \A q \in Heard' : Created(q)' => q \in Heard /\ Created(q) /\ posts'[q] = posts[q]
    BY <1>2, <1>6
  <2>4. \A q \in Heard' : Created(q)' => About(posts'[q].entry, posts'[q].answer)
    BY <2>3 DEF EntriesInv, AnswersOfEntry
  <2>5. ASSUME Form.keyed, NEW r \in DOMAIN stored, stored[r].key = form.key
        PROVE  stored[r].entry \in history.lost
    BY <1>1, <2>2, <2>5 DEF EntriesInv, AnswersOfEntry
  <2>6. \A q \in Heard' : \A r \in DOMAIN stored :
          Form.keyed /\ stored[r].key = posts'[q].key => About(posts'[q].entry, r)
    BY <1>2, <2>2, <2>5 DEF About
  <2>7. \A q \in Post : \A r :
          /\ About(posts'[q].entry, r) => About(posts[q].entry, r)'
          /\ About(posts'[q].entry, posts'[q].answer) => About(posts[q].entry, posts[q].answer)'
    BY <1>1, <1>2, <1>4 DEF About
  <2> QED
    BY <1>1, <1>2, <1>4, <1>6, <2>1, <2>4, <2>5, <2>6, <2>7 DEF EntriesInv, AnswersOfEntry
<1> QED
  BY <1>3, <1>5, <1>9, <1>10, <1>11, <1>12, <1>13, <1>14, <1>15 DEF EntriesInv

LEMMA AnswerEffect ==
  ASSUME PagesTypes, NEW p \in Post, Pending(p), NEW a \in Nat,
         posts' = [posts EXCEPT ![p].answer = a]
  PROVE  /\ posts' \in [Post -> Submission \cup {None}]
         /\ posts'[p].answer = a /\ \A q \in Post \ {p} : posts'[q] = posts[q]
         /\ \A q \in Post : Sent(q)' <=> Sent(q)
         /\ \A q \in Post : Sent(q) => /\ posts'[q].entry = posts[q].entry
                                       /\ posts'[q].key = posts[q].key
                                       /\ posts'[q].heard = posts[q].heard
         /\ \A q \in Post : Pending(q)' <=> Pending(q) /\ q # p
         /\ \A q \in Post : Created(q)' <=> Created(q) \/ (q = p /\ a # 0)
         /\ Heard' = Heard /\ Attached' = Attached
<1> DEFINE x == [posts[p] EXCEPT !.answer = a]
<1>1. posts[p] # None /\ posts[p].answer = None /\ posts[p] \in Submission
  BY DEF Pending, Sent, PagesTypes
<1>2. posts' = [posts EXCEPT ![p] = x]
  OBVIOUS
<1>3. /\ x \in Submission /\ x.entry = posts[p].entry /\ x.key = posts[p].key
      /\ x.answer = a /\ x.heard = posts[p].heard /\ x.attached = posts[p].attached
  BY <1>1 DEF Submission
<1> HIDE DEF x
<1>4. x # None /\ a # None
  BY <1>3, NoneAssumption
<1>5. posts' \in [Post -> Submission \cup {None}]
  BY <1>2, <1>3 DEF PagesTypes
<1>6. posts'[p] = x /\ \A q \in Post \ {p} : posts'[q] = posts[q]
  BY <1>2 DEF PagesTypes
<1>7. Heard' = Heard
  BY <1>1, <1>3, <1>4, <1>6 DEF Heard
<1>8. Attached' = Attached
  BY <1>3, <1>6, <1>7 DEF Attached, Heard
<1>9. \A q \in Post : /\ Sent(q)' <=> Sent(q)
                      /\ Pending(q)' <=> Pending(q) /\ q # p
                      /\ Created(q)' <=> Created(q) \/ (q = p /\ a # 0)
  BY <1>1, <1>3, <1>4, <1>6 DEF Sent, Pending, Created
<1> QED
  BY <1>1, <1>3, <1>5, <1>6, <1>7, <1>8, <1>9

(* An answer with nothing stored: a refusal, or the row of the key.        *)
LEMMA NoRowPreserves ==
  ASSUME PagesTypes, EntriesInv, NEW p \in Post, Pending(p), NEW a \in Nat,
         posts' = [posts EXCEPT ![p].answer = a],
         a = 0 \/ a \in RowsWithKey(posts[p].key),
         UNCHANGED <<page, form, stored, draft, entries, history>>
  PROVE  EntriesInv'
<1>1. /\ posts'[p].answer = a /\ \A q \in Post \ {p} : posts'[q] = posts[q]
      /\ \A q \in Post : Sent(q)' <=> Sent(q)
      /\ \A q \in Post : Sent(q) => /\ posts'[q].entry = posts[q].entry
                                    /\ posts'[q].key = posts[q].key
                                    /\ posts'[q].heard = posts[q].heard
      /\ \A q \in Post : Pending(q)' <=> Pending(q) /\ q # p
      /\ \A q \in Post : Created(q)' <=> Created(q) \/ (q = p /\ a # 0)
      /\ Heard' = Heard /\ Attached' = Attached
  BY AnswerEffect
<1>2. /\ Form' = Form /\ Heard \subseteq Post /\ Attached \subseteq Post
      /\ \A q \in Post : Pending(q) => Sent(q) /\ posts[q].answer = None
      /\ \A q \in Heard : Sent(q)
  BY DEF Form, Pending, Heard, Attached, Sent
<1>3. a # 0 => a \in DOMAIN stored /\ posts[p].key # 0 /\ stored[a].key = posts[p].key
  BY DEF RowsWithKey
<1>4. \A e : Certain(e)' <=> Certain(e)
  BY DEF Certain
<1>5. \A e, r : About(e, r)' <=> About(e, r)
  BY <1>2 DEF About
<1>6. Bounds'
  <2>1. \A q \in Post : Created(q)' => posts'[q].answer \in DOMAIN stored
    <3> SUFFICES ASSUME NEW q \in Post, Created(q)' PROVE posts'[q].answer \in DOMAIN stored
      OBVIOUS
    <3>1. CASE q = p
      BY <1>1, <1>2, <1>3, <3>1 DEF Created
    <3>2. CASE q # p
      BY <1>1, <3>2 DEF EntriesInv, Bounds
    <3> QED
      BY <3>1, <3>2
  <2>2. \A q \in Post : Sent(q)' =>
          /\ posts'[q].entry \in 1 .. entries /\ posts'[q].key <= entries
          /\ Form.keyed <=> posts'[q].key # 0
    BY <1>1 DEF EntriesInv, Bounds
  <2> QED
    BY <1>2, <2>1, <2>2 DEF EntriesInv, Bounds
<1>7. UnheardLost'
  BY <1>1, <1>2 DEF EntriesInv, UnheardLost
<1>8. OnceOnItsWay'
  BY <1>1, <1>2, <1>4 DEF EntriesInv, OnceOnItsWay
<1>9. DraftNotStored'
  BY <1>2, <1>4 DEF EntriesInv, DraftNotStored
<1>10. ShownIsAwaited'
  <2> SUFFICES ASSUME form.open, Certain(form.entry),
                      \/ \E q \in Post : Pending(q) /\ q # p /\ posts[q].entry = form.entry
                      \/ \E r \in DOMAIN stored : stored[r].entry = form.entry
               PROVE  Awaited(form.entry)'
    BY <1>1, <1>2, <1>4 DEF ShownIsAwaited
  <2>1. PICK w \in Attached : posts[w].entry = form.entry /\ posts[w].answer # 0
    BY DEF EntriesInv, ShownIsAwaited, Awaited
  <2>2. w = p => a # 0
    BY <1>2, <2>1 DEF EntriesInv, OnceOnItsWay
  <2>3. Sent(w) /\ w \in Post
    BY <1>2, <2>1 DEF Attached
  <2> QED
    BY <1>1, <2>1, <2>2, <2>3 DEF Awaited
<1>11. OneKey'
  <2> SUFFICES ASSUME Form.keyed PROVE OneKey'
    BY <1>2 DEF OneKey
  <2> QED
    BY <1>1, <1>2 DEF EntriesInv, OneKey
<1>12. AnswersOfEntry'
  <2>1. ASSUME a # 0, p \in Heard
        PROVE  About(posts[p].entry, a)
    <3>1. Form.keyed
      BY <1>2, <1>3, <2>1 DEF EntriesInv, Bounds
    <3> QED
      BY <1>3, <2>1, <3>1 DEF EntriesInv, AnswersOfEntry
  <2>2. \A q \in Heard : Created(q)' => About(posts'[q].entry, posts'[q].answer)
    <3> SUFFICES ASSUME NEW q \in Heard, Created(q)'
                 PROVE  About(posts'[q].entry, posts'[q].answer)
      OBVIOUS
    <3>1. CASE q = p
      BY <1>1, <1>2, <2>1, <3>1 DEF Created
    <3>2. CASE q # p
      BY <1>1, <1>2, <3>2 DEF EntriesInv, AnswersOfEntry
    <3> QED
      BY <3>1, <3>2
  <2>3. \A q \in Heard : \A r \in DOMAIN stored :
          Form.keyed /\ Pending(q)' /\ stored[r].key = posts'[q].key => About(posts'[q].entry, r)
    BY <1>1, <1>2 DEF EntriesInv, AnswersOfEntry
  <2>4. \A r \in DOMAIN stored :
          Form.keyed /\ form.open /\ stored[r].key = form.key =>
            \/ stored[r].entry \in history.lost
            \/ \E q \in Heard : posts'[q].answer = r
    <3>1. \A r \in DOMAIN stored : r # None
      BY SequenceDomain, NoneAssumption DEF PagesTypes
    <3>2. \A q \in Heard, r \in DOMAIN stored : posts[q].answer = r => posts'[q].answer = r
      BY <1>1, <1>2, <3>1
    <3> QED
      BY <3>2 DEF EntriesInv, AnswersOfEntry
  <2>5. \A q \in Post : /\ About(posts[q].entry, posts[q].answer)'
                             <=> About(posts'[q].entry, posts'[q].answer)
                        /\ \A r : About(posts[q].entry, r)' <=> About(posts'[q].entry, r)
    BY <1>2 DEF About
  <2>6. \A told \in history.told :
          told[2] \in DOMAIN stored /\ About(told[1], told[2])'
    BY <1>5 DEF EntriesInv, AnswersOfEntry
  <2>7. \A q \in Heard' : Created(q)' => About(posts[q].entry, posts[q].answer)'
    BY <1>1, <1>2, <2>2, <2>5
  <2>8. \A q \in Heard' : \A r \in DOMAIN stored :
          Form.keyed /\ Pending(q)' /\ stored[r].key = posts'[q].key
            => About(posts[q].entry, r)'
    BY <1>1, <1>2, <2>3, <2>5
  <2> QED
    BY <1>1, <1>2, <2>4, <2>6, <2>7, <2>8 DEF AnswersOfEntry
<1> QED
  BY <1>6, <1>7, <1>8, <1>9, <1>10, <1>11, <1>12 DEF EntriesInv

(* A row is stored: at the end, where no row was.                          *)
LEMMA AppendEffect ==
  ASSUME PagesTypes, NEW row \in Kept, stored' = Append(stored, row)
  PROVE  LET n == Len(stored) + 1 IN
         /\ stored' \in Seq(Kept) /\ DOMAIN stored' = DOMAIN stored \cup {n}
         /\ n \notin DOMAIN stored /\ n \in Nat \ {0} /\ stored'[n] = row
         /\ Len(stored') = n /\ Len(stored) \in Nat
         /\ DOMAIN stored = 1 .. Len(stored)
         /\ \A r \in DOMAIN stored : stored'[r] = stored[r] /\ stored[r] \in Kept
                                     /\ r \in Nat \ {0}
<1>1. stored \in Seq(Kept)
  BY DEF PagesTypes
<1>2. Len(stored) \in Nat /\ DOMAIN stored = 1 .. Len(stored)
  BY <1>1
<1>3. \A r \in DOMAIN stored : stored[r] \in Kept /\ r \in Nat \ {0}
  BY <1>1, SequenceDomain
<1>4. stored' \in Seq(Kept) /\ Len(stored') = Len(stored) + 1 /\ stored'[Len(stored) + 1] = row
  BY <1>1
<1>5. DOMAIN stored' = 1 .. (Len(stored) + 1)
  BY <1>4
<1>6. \A r \in DOMAIN stored : stored'[r] = stored[r]
  BY <1>1, <1>2
<1>7. 1 .. (Len(stored) + 1) = (1 .. Len(stored)) \cup {Len(stored) + 1}
  BY <1>2
<1> QED
  BY <1>2, <1>3, <1>4, <1>5, <1>6, <1>7

LEMMA StorePreserves ==
  ASSUME PagesTypes, EntriesInv, Waits, NEW p \in Post, Pending(p),
         RowsWithKey(posts[p].key) = {},
         stored' = Append(stored, [entry |-> posts[p].entry, key |-> posts[p].key]),
         posts' = [posts EXCEPT ![p].answer = Len(stored) + 1],
         draft' = IF Form.drafts = "deleted" THEN 0 ELSE draft,
         UNCHANGED <<page, form, entries, history>>
  PROVE  EntriesInv'
<1>1. PICK n \in Nat : n = Len(stored) + 1
  BY DEF PagesTypes
<1>2. /\ posts'[p].answer = n /\ \A q \in Post \ {p} : posts'[q] = posts[q]
      /\ \A q \in Post : Sent(q)' <=> Sent(q)
      /\ \A q \in Post : Sent(q) => /\ posts'[q].entry = posts[q].entry
                                    /\ posts'[q].key = posts[q].key
                                    /\ posts'[q].heard = posts[q].heard
      /\ \A q \in Post : Pending(q)' <=> Pending(q) /\ q # p
      /\ \A q \in Post : Created(q)' <=> Created(q) \/ (q = p /\ n # 0)
      /\ Heard' = Heard /\ Attached' = Attached
  <2>1. posts' = [posts EXCEPT ![p].answer = n]
    BY <1>1
  <2> QED
    BY <2>1, AnswerEffect
<1>3. PICK e0 \in Nat, k0 \in Nat : e0 = posts[p].entry /\ k0 = posts[p].key
  BY DEF Pending, Sent, PagesTypes, Submission
<1>4. [entry |-> e0, key |-> k0] \in Kept
  BY DEF Kept
<1>5. /\ DOMAIN stored' = DOMAIN stored \cup {n}
      /\ n \notin DOMAIN stored /\ n # 0 /\ stored'[n] = [entry |-> e0, key |-> k0]
      /\ \A r \in DOMAIN stored : stored'[r] = stored[r] /\ stored[r] \in Kept /\ r \in Nat
  BY <1>1, <1>3, <1>4, AppendEffect
<1>6. /\ stored'[n].entry = e0 /\ stored'[n].key = k0
      /\ \A r \in DOMAIN stored : stored[r].entry \in Nat /\ stored[r].key \in Nat
  BY <1>5 DEF Kept
<1>7. /\ Form' = Form /\ Heard \subseteq Post /\ Attached \subseteq Heard
      /\ \A q \in Post : Pending(q) => Sent(q) /\ posts[q].answer = None
      /\ \A q \in Heard : Sent(q)
      /\ FormTraits(Form)
  BY FormValues DEF Form, Pending, Heard, Attached, Sent
<1>8. \A e : Certain(e)' <=> Certain(e)
  BY DEF Certain
(* The entry is not stored yet, and no row has its key.                    *)
<1>9. /\ Certain(e0) => \A r \in DOMAIN stored : stored[r].entry # e0
      /\ k0 # 0 => \A r \in DOMAIN stored : stored[r].key # k0
      /\ e0 # 0 /\ e0 <= entries /\ k0 <= entries /\ (Form.keyed <=> k0 # 0)
  BY <1>3, <1>7 DEF EntriesInv, OnceOnItsWay, RowsWithKey, Bounds
<1>10. Bounds'
  <2>1. \A q \in Post : Sent(q)' =>
          /\ posts'[q].entry \in 1 .. entries /\ posts'[q].key <= entries
          /\ Form.keyed <=> posts'[q].key # 0
    BY <1>2 DEF EntriesInv, Bounds
  <2>2. \A q \in Post : Created(q)' => posts'[q].answer \in DOMAIN stored'
    <3> SUFFICES ASSUME NEW q \in Post, Created(q)' PROVE posts'[q].answer \in DOMAIN stored'
      OBVIOUS
    <3>1. CASE q = p
      BY <1>2, <1>5, <3>1
    <3>2. CASE q # p
      BY <1>2, <1>5, <3>2 DEF EntriesInv, Bounds
    <3> QED
      BY <3>1, <3>2
  <2>3. \A r \in DOMAIN stored' :
          /\ stored'[r].entry <= entries /\ stored'[r].key <= entries
          /\ Form.keyed /\ stored'[r].entry # 0 => stored'[r].key # 0
    BY <1>5, <1>6, <1>9 DEF EntriesInv, Bounds
  <2>4. draft' <= entries /\ (Form.drafts = "none" => draft' = 0)
    BY <1>7 DEF EntriesInv, Bounds, PagesTypes
  <2> QED
    BY <1>7, <2>1, <2>2, <2>3, <2>4 DEF EntriesInv, Bounds
<1>11. UnheardLost'
  BY <1>2, <1>7 DEF EntriesInv, UnheardLost
<1>12. OnceOnItsWay'
  <2>1. \A q, s \in Post :
          /\ Pending(q)' /\ Pending(s)' /\ posts'[q].entry = posts'[s].entry
          /\ Certain(posts'[q].entry)
          => q = s
    BY <1>2, <1>7 DEF EntriesInv, OnceOnItsWay
  <2>2. \A q \in Post : \A r \in DOMAIN stored' :
          Pending(q)' /\ Certain(posts'[q].entry) => stored'[r].entry # posts'[q].entry
    <3> SUFFICES ASSUME NEW q \in Post, NEW r \in DOMAIN stored', Pending(q), q # p,
                        Certain(posts[q].entry)
                 PROVE  stored'[r].entry # posts[q].entry
      BY <1>2, <1>7
    <3>1. CASE r = n
      BY <1>3, <1>6, <3>1 DEF EntriesInv, OnceOnItsWay
    <3>2. CASE r \in DOMAIN stored
      BY <1>5, <3>2 DEF EntriesInv, OnceOnItsWay
    <3> QED
      BY <1>5, <3>1, <3>2
  <2>3. \A r, s \in DOMAIN stored' :
          stored'[r].entry = stored'[s].entry /\ Certain(stored'[r].entry) => r = s
    BY <1>5, <1>6, <1>9 DEF EntriesInv, OnceOnItsWay
  <2> QED
    BY <1>8, <2>1, <2>2, <2>3 DEF OnceOnItsWay, Certain
<1>13. DraftNotStored'
  BY <1>7, <1>9 DEF EntriesInv, DraftNotStored, Bounds, FormTraits, Certain
<1>14. ShownIsAwaited'
  <2> SUFFICES ASSUME form.open, Certain(form.entry),
                      \/ \E q \in Post : Pending(q) /\ posts[q].entry = form.entry
                      \/ \E r \in DOMAIN stored' : stored'[r].entry = form.entry
               PROVE  Awaited(form.entry)'
    BY <1>2, <1>7, <1>8 DEF ShownIsAwaited
  <2>1. \/ \E q \in Post : Pending(q) /\ posts[q].entry = form.entry
        \/ \E r \in DOMAIN stored : stored[r].entry = form.entry
    BY <1>3, <1>5, <1>6
  <2>2. PICK w \in Attached : posts[w].entry = form.entry /\ posts[w].answer # 0
    BY <2>1 DEF EntriesInv, ShownIsAwaited, Awaited
  <2>3. Sent(w) /\ w \in Post
    BY <1>7, <2>2
  <2> QED
    BY <1>2, <1>5, <2>2, <2>3 DEF Awaited
<1>15. OneKey'
  <2> SUFFICES ASSUME Form.keyed PROVE OneKey'
    BY <1>7 DEF OneKey
  <2>1. \A r, s \in DOMAIN stored' :
          stored'[r].key = stored'[s].key /\ stored'[r].key # 0 => r = s
    BY <1>5, <1>6, <1>9 DEF EntriesInv, OneKey
  <2>2. \A r \in DOMAIN stored :
          stored[r].entry = e0 /\ e0 \notin history.recovered => stored[r].key = k0
    BY <1>3 DEF EntriesInv, OneKey
  <2>3. \A r, s \in DOMAIN stored' :
         /\ stored'[r].entry = stored'[s].entry /\ stored'[r].entry # 0
         /\ stored'[r].entry \notin history.recovered
         => stored'[r].key = stored'[s].key
    BY <1>5, <1>6, <2>2 DEF EntriesInv, OneKey
  <2>4. \A q \in Post : \A r \in DOMAIN stored' :
         /\ Pending(q)' /\ posts'[q].entry = stored'[r].entry
         /\ posts'[q].entry \notin history.recovered
         => posts'[q].key = stored'[r].key
    <3> SUFFICES ASSUME NEW q \in Post, NEW r \in DOMAIN stored', Pending(q),
                        posts[q].entry = stored'[r].entry,
                        posts[q].entry \notin history.recovered
                 PROVE  posts[q].key = stored'[r].key
      BY <1>2, <1>7
    <3>1. CASE r = n
      BY <1>3, <1>6, <3>1 DEF EntriesInv, OneKey
    <3>2. CASE r \in DOMAIN stored
      BY <1>5, <3>2 DEF EntriesInv, OneKey
    <3> QED
      BY <1>5, <3>1, <3>2
  <2>5. \A q, s \in Post :
         /\ Pending(q)' /\ Pending(s)' /\ posts'[q].entry = posts'[s].entry
         /\ posts'[q].entry \notin history.recovered
         => posts'[q].key = posts'[s].key
    BY <1>2, <1>7 DEF EntriesInv, OneKey
  <2>6. form.open /\ form.entry \notin history.recovered =>
         /\ \A q \in Post : Pending(q)' /\ posts'[q].entry = form.entry =>
              posts'[q].key = form.key
         /\ \A r \in DOMAIN stored' : stored'[r].entry = form.entry => stored'[r].key = form.key
    BY <1>2, <1>3, <1>5, <1>6, <1>7 DEF EntriesInv, OneKey
  <2> QED
    BY <1>7, <2>1, <2>3, <2>4, <2>5, <2>6 DEF OneKey
<1>16. AnswersOfEntry'
  <2>1. \A e : \A r \in DOMAIN stored : About(e, r)' <=> About(e, r)
    BY <1>5, <1>7 DEF About
  <2>2. \A e : About(e, n)' <=> e0 = e \/ (Form.keyed /\ e0 \in history.lost)
    BY <1>6, <1>7 DEF About
  <2>3. \A q \in Heard : Created(q)' => About(posts[q].entry, posts[q].answer)'
    <3> SUFFICES ASSUME NEW q \in Heard, Created(q)'
                 PROVE  About(posts[q].entry, posts[q].answer)'
      OBVIOUS
    <3>1. posts'[q].entry = posts[q].entry
      BY <1>2, <1>7
    <3>2. CASE q = p
      BY <1>2, <1>3, <1>6, <3>1, <3>2 DEF About
    <3>3. CASE q # p
      <4>1. /\ Created(q) /\ posts'[q] = posts[q] /\ posts[q].answer \in DOMAIN stored
            /\ About(posts[q].entry, posts[q].answer)
        BY <1>2, <1>7, <3>3 DEF EntriesInv, AnswersOfEntry, Bounds
      <4> QED
        BY <1>5, <1>7, <4>1 DEF About
    <3> QED
      BY <3>2, <3>3
  <2>4. ASSUME Form.keyed, p \notin Heard
        PROVE  e0 \in history.lost
    BY <1>3, <1>7, <2>4 DEF EntriesInv, UnheardLost, Heard, Sent
  <2>5. \A q \in Heard : \A r \in DOMAIN stored' :
          Form.keyed /\ Pending(q)' /\ stored'[r].key = posts'[q].key
            => About(posts[q].entry, r)'
    <3> SUFFICES ASSUME NEW q \in Heard, NEW r \in DOMAIN stored', Form.keyed, Pending(q),
                        q # p, stored'[r].key = posts[q].key
                 PROVE  stored'[r].entry = posts[q].entry \/ stored'[r].entry \in history.lost
      BY <1>2, <1>7 DEF About
    <3>1. CASE r = n
      <4>1. p \notin Heard
        BY <1>7 DEF Waits, FormTraits
      <4> QED
        BY <1>6, <2>4, <3>1, <4>1
    <3>2. CASE r \in DOMAIN stored
      BY <1>5, <3>2 DEF EntriesInv, AnswersOfEntry, About
    <3> QED
      BY <1>5, <3>1, <3>2
  <2>6. \A r \in DOMAIN stored' :
          Form.keyed /\ form.open /\ stored'[r].key = form.key =>
            \/ stored'[r].entry \in history.lost
            \/ \E q \in Heard : posts'[q].answer = r
    <3> SUFFICES ASSUME NEW r \in DOMAIN stored', Form.keyed, form.open,
                        stored'[r].key = form.key
                 PROVE  \/ stored'[r].entry \in history.lost
                        \/ \E q \in Heard : posts'[q].answer = r
      OBVIOUS
    <3>1. CASE r = n
      BY <1>2, <1>6, <2>4, <3>1
    <3>2. CASE r \in DOMAIN stored
      <4>1. r # None
        BY <1>5, <3>2, NoneAssumption
      <4>2. \A q \in Heard : posts[q].answer = r => posts'[q].answer = r
        BY <1>2, <1>7, <4>1
      <4> QED
        BY <1>5, <3>2, <4>2 DEF EntriesInv, AnswersOfEntry
    <3> QED
      BY <1>5, <3>1, <3>2
  <2>7. \A told \in history.told : told[2] \in DOMAIN stored' /\ About(told[1], told[2])'
    BY <1>5, <2>1 DEF EntriesInv, AnswersOfEntry
  <2> QED
    BY <1>2, <1>7, <2>3, <2>5, <2>6, <2>7 DEF AnswersOfEntry
<1> QED
  BY <1>10, <1>11, <1>12, <1>13, <1>14, <1>15, <1>16 DEF EntriesInv

LEMMA ServePreserves ==
  ASSUME PagesTypes, EntriesInv, Absence, Waits, NEW p \in Post, Serve(p)
  PROVE  PagesTypes' /\ EntriesInv' /\ Absence' /\ Waits'
<1>1. /\ Pending(p) /\ UNCHANGED <<page, mounted, list, loads, form, entries, history>>
      /\ posts[p] \in Submission
  BY DEF Serve, Pending, Sent, PagesTypes
<1>2. ASSUME NEW a \in Nat, posts' = [posts EXCEPT ![p].answer = a],
             stored' \in Seq(Kept), draft' \in Nat
      PROVE  PagesTypes' /\ Absence' /\ Waits'
  <2>1. /\ posts' \in [Post -> Submission \cup {None}]
        /\ Heard' = Heard /\ Attached' = Attached
    BY <1>1, <1>2, AnswerEffect
  <2>2. PagesTypes'
    BY <1>1, <1>2, <2>1 DEF PagesTypes
  <2>3. Loading' = Loading /\ Form' = Form
    BY <1>1 DEF Loading, Form
  <2> QED
    BY <1>1, <2>1, <2>2, <2>3 DEF Absence, Waits
<1>3. ASSUME NEW a \in Nat, posts' = [posts EXCEPT ![p].answer = a],
             a = 0 \/ a \in RowsWithKey(posts[p].key), UNCHANGED <<stored, draft>>
      PROVE  PagesTypes' /\ EntriesInv' /\ Absence' /\ Waits'
  <2>1. stored' \in Seq(Kept) /\ draft' \in Nat
    BY <1>3 DEF PagesTypes
  <2> QED
    BY <1>1, <1>2, <1>3, <2>1, NoRowPreserves
<1>4. CASE posts' = [posts EXCEPT ![p].answer = 0] /\ UNCHANGED <<stored, draft>>
  BY <1>3, <1>4
<1>5. CASE /\ \E r \in RowsWithKey(posts[p].key) : posts' = [posts EXCEPT ![p].answer = r]
           /\ UNCHANGED <<stored, draft>>
  <2>1. PICK r \in RowsWithKey(posts[p].key) : posts' = [posts EXCEPT ![p].answer = r]
    BY <1>5
  <2>2. r \in Nat
    BY SequenceDomain DEF RowsWithKey, PagesTypes
  <2> QED
    BY <1>3, <1>5, <2>1, <2>2
<1>6. CASE /\ RowsWithKey(posts[p].key) = {}
           /\ stored' = Append(stored, [entry |-> posts[p].entry, key |-> posts[p].key])
           /\ posts' = [posts EXCEPT ![p].answer = Len(stored) + 1]
           /\ draft' = IF Form.drafts = "deleted" THEN 0 ELSE draft
  <2>1. [entry |-> posts[p].entry, key |-> posts[p].key] \in Kept
    BY <1>1 DEF Kept, Submission
  <2>2. stored' \in Seq(Kept) /\ Len(stored) + 1 \in Nat
    BY <1>6, <2>1, AppendEffect
  <2>3. draft' \in Nat
    BY <1>6 DEF PagesTypes
  <2>4. PagesTypes' /\ Absence' /\ Waits'
    <3>1. PICK n \in Nat : n = Len(stored) + 1
      BY <2>2
    <3>2. posts' = [posts EXCEPT ![p].answer = n]
      BY <1>6, <3>1
    <3> QED
      BY <1>2, <2>2, <2>3, <3>2
  <2>5. EntriesInv'
    BY <1>1, <1>6, StorePreserves
  <2> QED
    BY <2>4, <2>5
<1> QED
  BY <1>4, <1>5, <1>6 DEF Serve

LEMMA ArrivePreserves ==
  ASSUME PagesTypes, EntriesInv, Absence, Waits, Arrive
  PROVE  PagesTypes' /\ EntriesInv' /\ Absence' /\ Waits'
<1>1. /\ stored' = Append(stored, [entry |-> 0, key |-> 0])
      /\ UNCHANGED <<page, mounted, list, loads, form, posts, draft, entries, history>>
  BY DEF Arrive
<1>2. PICK n : n = Len(stored) + 1
  OBVIOUS
<1>3. [entry |-> 0, key |-> 0] \in Kept
  BY DEF Kept
<1>4. /\ stored' \in Seq(Kept) /\ DOMAIN stored' = DOMAIN stored \cup {n}
      /\ stored'[n] = [entry |-> 0, key |-> 0]
      /\ \A r \in DOMAIN stored : stored'[r] = stored[r] /\ r \in Nat
  BY <1>1, <1>2, <1>3, AppendEffect
<1>5. stored'[n].entry = 0 /\ stored'[n].key = 0
  BY <1>4
<1>6. /\ Form' = Form /\ Heard' = Heard /\ Attached' = Attached /\ Loading' = Loading
      /\ Heard \subseteq Post /\ entries \in Nat
      /\ \A p \in Post : /\ Sent(p)' <=> Sent(p)
                         /\ Pending(p)' <=> Pending(p)
                         /\ Created(p)' <=> Created(p)
      /\ \A p \in Post : Pending(p) => Sent(p)
      /\ \A p \in Heard : Sent(p)
  BY <1>1 DEF Form, Heard, Attached, Loading, Sent, Pending, Created, PagesTypes
<1>7. PagesTypes'
  BY <1>1, <1>4 DEF PagesTypes
<1>8. Absence' /\ Waits'
  BY <1>1, <1>6 DEF Absence, Waits
<1>9. \A e : Certain(e)' <=> Certain(e)
  BY <1>1 DEF Certain
<1>10. ~Certain(0)
  BY DEF Certain
<1>11. Bounds'
  BY <1>1, <1>4, <1>5, <1>6 DEF EntriesInv, Bounds
<1>12. UnheardLost'
  BY <1>1, <1>6 DEF EntriesInv, UnheardLost
<1>13. OnceOnItsWay'
  <2>1. \A p \in Post : \A r \in DOMAIN stored' :
          Pending(p) /\ Certain(posts[p].entry) => stored'[r].entry # posts[p].entry
    BY <1>4, <1>5, <1>10 DEF EntriesInv, OnceOnItsWay
  <2>2. \A r, s \in DOMAIN stored' :
          stored'[r].entry = stored'[s].entry /\ Certain(stored'[r].entry) => r = s
    BY <1>4, <1>5, <1>10 DEF EntriesInv, OnceOnItsWay
  <2> QED
    BY <1>1, <1>6, <1>9, <2>1, <2>2 DEF EntriesInv, OnceOnItsWay
<1>14. DraftNotStored'
  BY <1>1, <1>4, <1>5, <1>6, <1>9, <1>10 DEF EntriesInv, DraftNotStored
<1>15. ShownIsAwaited'
  <2> SUFFICES ASSUME form.open, Certain(form.entry),
                      \/ \E q \in Post : Pending(q) /\ posts[q].entry = form.entry
                      \/ \E r \in DOMAIN stored' : stored'[r].entry = form.entry
               PROVE  Awaited(form.entry)'
    BY <1>1, <1>6, <1>9 DEF ShownIsAwaited
  <2>1. Awaited(form.entry)
    BY <1>4, <1>5, <1>10 DEF EntriesInv, ShownIsAwaited
  <2> QED
    BY <1>1, <1>6, <2>1 DEF Awaited
<1>16. OneKey'
  <2> SUFFICES ASSUME Form.keyed PROVE OneKey'
    BY <1>6 DEF OneKey
  <2>1. \A p \in Post : Sent(p) => posts[p].entry # 0 /\ posts[p].key # 0
    BY <1>6 DEF EntriesInv, Bounds
  <2>2. form.open => form.entry # 0 /\ form.key # 0
    BY <1>6 DEF EntriesInv, Bounds
  <2>3. \A r, s \in DOMAIN stored' :
          /\ stored'[r].key = stored'[s].key /\ stored'[r].key # 0 => r = s
          /\ (/\ stored'[r].entry = stored'[s].entry /\ stored'[r].entry # 0
              /\ stored'[r].entry \notin history.recovered)
               => stored'[r].key = stored'[s].key
    BY <1>4, <1>5 DEF EntriesInv, OneKey
  <2>4. \A p \in Post : \A r \in DOMAIN stored' :
         /\ Pending(p) /\ posts[p].entry = stored'[r].entry
         /\ posts[p].entry \notin history.recovered
         => posts[p].key = stored'[r].key
    BY <1>4, <1>5, <1>6, <2>1 DEF EntriesInv, OneKey
  <2>5. form.open /\ form.entry \notin history.recovered =>
         \A r \in DOMAIN stored' : stored'[r].entry = form.entry => stored'[r].key = form.key
    BY <1>4, <1>5, <2>2 DEF EntriesInv, OneKey
  <2> QED
    BY <1>1, <1>6, <2>3, <2>4, <2>5 DEF EntriesInv, OneKey
<1>17. AnswersOfEntry'
  <2>1. \A e : \A r \in DOMAIN stored : About(e, r)' <=> About(e, r)
    BY <1>1, <1>4, <1>6 DEF About
  <2>2. \A p \in Heard : Created(p) => About(posts[p].entry, posts[p].answer)'
    BY <1>1, <1>4, <1>6 DEF EntriesInv, AnswersOfEntry, Bounds, About
  <2>3. \A p \in Heard : \A r \in DOMAIN stored' :
          Form.keyed /\ Pending(p) /\ stored'[r].key = posts[p].key => About(posts[p].entry, r)'
    BY <1>1, <1>4, <1>5, <1>6 DEF EntriesInv, AnswersOfEntry, Bounds, About
  <2>4. \A r \in DOMAIN stored' :
          Form.keyed /\ form.open /\ stored'[r].key = form.key =>
            \/ stored'[r].entry \in history.lost
            \/ \E p \in Heard : posts[p].answer = r
    BY <1>4, <1>5 DEF EntriesInv, AnswersOfEntry, Bounds
  <2>5. \A told \in history.told : told[2] \in DOMAIN stored' /\ About(told[1], told[2])'
    BY <1>4, <2>1 DEF EntriesInv, AnswersOfEntry
  <2> QED
    BY <1>1, <1>6, <2>2, <2>3, <2>4, <2>5 DEF AnswersOfEntry
<1> QED
  BY <1>7, <1>8, <1>11, <1>12, <1>13, <1>14, <1>15, <1>16, <1>17 DEF EntriesInv

LEMMA EntriesNext ==
  ASSUME PagesTypes, EntriesInv, Absence, Waits, [PagesNext]_pagesVars
  PROVE  PagesTypes' /\ EntriesInv' /\ Absence' /\ Waits'
<1>1. Bounds
  BY DEF EntriesInv
<1>2. ASSUME PagesTypes' /\ Absence' /\ Waits' /\ HearsLess
      PROVE  PagesTypes' /\ EntriesInv' /\ Absence' /\ Waits'
  BY <1>2, HearingPreservesEntries
<1>3. CASE \E new \in BOOLEAN : Go(new)
  BY <1>1, <1>2, <1>3, GoHears
<1>4. CASE Leave
  BY <1>1, <1>2, <1>4, LeaveHears
<1>5. CASE \E query \in 1 .. MaxStored : TurnPage(query)
  BY <1>2, <1>5, TurnPageHears
<1>6. CASE \E query \in 0 .. MaxQuery : Type(query)
  BY <1>2, <1>6, TypeHears
<1>7. ASSUME NEW l \in Load, Read(l) \/ LoadAnswer(l) \/ LoadFails(l)
      PROVE  PagesTypes' /\ EntriesInv' /\ Absence' /\ Waits'
  BY <1>2, <1>7, ReadHears, LoadAnswerHears, LoadFailsHears
<1>8. CASE OpenForm
  BY <1>1, <1>2, <1>8, OpenFormHears
<1>9. CASE CloseForm
  BY <1>1, <1>2, <1>9, CloseFormHears
<1>10. CASE Edit
  BY <1>1, <1>2, <1>10, EditHears
<1>11. CASE Autosave
  BY <1>11, AutosavePreserves
<1>12. CASE Recover
  BY <1>12, RecoverPreserves
<1>13. ASSUME NEW p \in Post, SubmitForm(p)
       PROVE  PagesTypes' /\ EntriesInv' /\ Absence' /\ Waits'
  BY <1>13, SubmitFormPreserves
<1>14. ASSUME NEW p \in Post, Serve(p)
       PROVE  PagesTypes' /\ EntriesInv' /\ Absence' /\ Waits'
  BY <1>14, ServePreserves
<1>15. ASSUME NEW p \in Post, HearRefusal(p) \/ HearSuccess(p) \/ LosePost(p)
       PROVE  PagesTypes' /\ EntriesInv' /\ Absence' /\ Waits'
  BY <1>1, <1>2, <1>15, HearRefusalHears, HearSuccessHears, LosePostHears
<1>16. CASE Arrive
  BY <1>16, ArrivePreserves
<1>17. CASE UNCHANGED pagesVars
  <2>1. UNCHANGED <<page, mounted, list, loads, form, posts, stored, draft, entries, history>>
    BY <1>17 DEF pagesVars
  <2>2. PagesTypes'
    BY <2>1 DEF PagesTypes
  <2>3. Absence'
    BY <2>1 DEF Absence, Heard, Loading
  <2> QED
    BY <1>2, <2>1, <2>2, <2>3, ListStep
<1> QED
  BY <1>3, <1>4, <1>5, <1>6, <1>7, <1>8, <1>9, <1>10, <1>11, <1>12, <1>13, <1>14, <1>15, <1>16,
     <1>17 DEF PagesNext

--------------------------------------------------------------------------------
(***************************************************************************)
(* The list: one fetch, for the query on the screen, unless two met.       *)
(***************************************************************************)
LEMMA OneLoadQuiet ==
  ASSUME OneLoad, UNCHANGED <<mounted, loads>>, history'.mixed = history.mixed,
         list'.loading = list.loading, list'.failed = list.failed, list'.of = list.of,
         list'.query = list.query
  PROVE  OneLoad'
BY DEF OneLoad, Loading

LEMMA OneLoadStarts ==
  ASSUME PagesTypes, NEW l \in Load, NEW query \in Nat, StartLoad(l, query),
         page.turns # "search" => (history'.mixed <=> Loading # {})
  PROVE  OneLoad'
<1>1. /\ list'.query = query /\ list'.loading /\ loads'[l].query = query
      /\ page.turns = "search" => Loading' = {l}
      /\ page.turns # "search" => Loading' = Loading \cup {l}
  BY StartLoadEffect
<1>2. ~history'.mixed => Loading' = {l}
  BY <1>1
<1> QED
  BY <1>1, <1>2 DEF OneLoad

LEMMA OneLoadRead ==
  ASSUME PagesTypes, OneLoad, NEW l \in Load, Read(l)
  PROVE  OneLoad'
<1>1. /\ loads[l] # None /\ loads[l].seen = None
      /\ loads' = [loads EXCEPT ![l] = [loads[l] EXCEPT !.seen = Len(stored)]]
      /\ UNCHANGED <<page, mounted, list, form, posts, stored, draft, entries, history>>
  BY DEF Read
<1>2. loads[l] \in Fetch /\ Len(stored) \in Nat
  BY <1>1 DEF PagesTypes
<1>3. PICK x \in Fetch : x.query = loads[l].query /\ loads'[l] = x
  <2>1. [loads[l] EXCEPT !.seen = Len(stored)] \in Fetch
    BY <1>2 DEF Fetch
  <2>2. [loads[l] EXCEPT !.seen = Len(stored)].query = loads[l].query
    BY <1>2 DEF Fetch
  <2>3. loads'[l] = [loads[l] EXCEPT !.seen = Len(stored)]
    BY <1>1 DEF PagesTypes
  <2> QED
    BY <2>1, <2>2, <2>3, Zenon
<1>4. \A m \in Load \ {l} : loads'[m] = loads[m]
  BY <1>1 DEF PagesTypes
<1>5. Loading' = Loading
  BY <1>1, <1>3, <1>4, NoneAssumption DEF Loading
<1>6. \A m \in Loading : loads'[m].query = loads[m].query
  BY <1>3, <1>4 DEF Loading
<1> QED
  BY <1>1, <1>5, <1>6 DEF OneLoad, Loading

LEMMA OneLoadEnds ==
  ASSUME PagesTypes, OneLoad, NEW l \in Load, LoadAnswer(l) \/ LoadFails(l)
  PROVE  OneLoad'
<1>1. /\ loads[l] # None /\ loads' = [loads EXCEPT ![l] = None]
      /\ UNCHANGED <<page, mounted, form, posts, stored, draft, entries>>
  BY DEF LoadAnswer, LoadFails
<1>2. l \in Loading /\ Loading' = Loading \ {l}
  BY <1>1 DEF Loading, PagesTypes
<1>3. CASE LoadAnswer(l)
  <2>1. /\ list'.loading = FALSE /\ list'.of = loads[l].query /\ list'.query = list.query
        /\ UNCHANGED history
    BY <1>3 DEF LoadAnswer, PagesTypes, ListType
  <2> QED
    BY <1>1, <1>2, <2>1 DEF OneLoad
<1>4. CASE LoadFails(l)
  <2>1. /\ list'.loading = FALSE /\ list'.failed = (page.turns = "search")
        /\ list'.query = list.query /\ list'.of = list.of
    BY <1>4 DEF LoadFails, PagesTypes, ListType
  <2>2. history'.mixed <=> history.mixed \/ page.turns # "search"
    BY <1>4 DEF LoadFails, PagesTypes, HistoryType
  <2> QED
    BY <1>1, <1>2, <2>1, <2>2 DEF OneLoad
<1> QED
  BY <1>3, <1>4

(* A page that was not there begins with a list of its own.                *)
LEMMA MountEffect ==
  ASSUME PagesTypes, NEW new \in BOOLEAN, Go(new), ~mounted
  PROVE  /\ mounted' /\ UNCHANGED <<page, posts, stored, draft>>
         /\ list'.rows = <<>> /\ list'.of = 0 /\ ~list'.failed
         /\ history'.made = {} /\ ~history'.mixed /\ ~history'.raced
         /\ page.turns = "search" => Loading' = {} /\ list'.query = 0 /\ ~list'.loading
         /\ page.turns # "search" =>
              /\ list'.query = 1 /\ list'.loading
              /\ \E l \in Load : /\ Loading' = {l} /\ loads'[l].query = 1
                                 /\ loads'[l].seen = None
<1> DEFINE x == [query |-> 1, seen |-> None]
<1>1. /\ mounted' /\ UNCHANGED <<page, posts, stored, draft>>
      /\ \E l \in Load :
           loads' = IF page.turns = "search" THEN NoLoads ELSE [NoLoads EXCEPT ![l] = x]
      /\ list' = [rows |-> <<>>, of |-> 0, total |-> 0, failed |-> FALSE,
                  query |-> IF page.turns = "search" THEN 0 ELSE 1,
                  loading |-> page.turns # "search"]
      /\ history' = [history EXCEPT !.made = {}, !.mixed = FALSE, !.raced = FALSE]
  BY DEF Go
<1>2. /\ list'.rows = <<>> /\ list'.of = 0 /\ ~list'.failed
      /\ list'.query = (IF page.turns = "search" THEN 0 ELSE 1)
      /\ list'.loading = (page.turns # "search")
  BY <1>1
<1>3. history'.made = {} /\ ~history'.mixed /\ ~history'.raced
  BY <1>1 DEF PagesTypes, HistoryType
<1>4. x # None /\ x.query = 1 /\ x.seen = None
  <2>1. x \in Fetch
    BY DEF Fetch
  <2> QED
    BY <2>1, NoneAssumption
<1> HIDE DEF x
<1>5. CASE page.turns = "search"
  <2>1. Loading' = {}
    BY <1>1, <1>5 DEF Loading, NoLoads
  <2> QED
    BY <1>1, <1>2, <1>3, <1>5, <2>1
<1>6. CASE page.turns # "search"
  <2>1. PICK l \in Load : loads' = [NoLoads EXCEPT ![l] = x]
    BY <1>1, <1>6
  <2>2. \A m \in Load : loads'[m] = IF m = l THEN x ELSE None
    BY <2>1 DEF NoLoads
  <2>3. Loading' = {l}
    BY <1>4, <2>2 DEF Loading
  <2>4. loads'[l].query = 1 /\ loads'[l].seen = None
    BY <1>4, <2>2
  <2> QED
    BY <1>1, <1>2, <1>3, <1>6, <2>3, <2>4
<1> QED
  BY <1>5, <1>6

LEMMA OneLoadNext ==
  ASSUME PagesTypes, OneLoad, [PagesNext]_pagesVars
  PROVE  OneLoad'
<1>1. CASE \E new \in BOOLEAN : Go(new)
  <2>1. PICK new \in BOOLEAN : Go(new)
    BY <1>1
  <2>2. CASE mounted
    <3>1. mounted' /\ UNCHANGED <<list, loads, history>>
      BY <2>1, <2>2 DEF Go
    <3> QED
      BY <2>2, <3>1, OneLoadQuiet DEF PagesTypes
  <2>3. CASE ~mounted
    BY <2>1, <2>3, MountEffect DEF OneLoad
  <2> QED
    BY <2>2, <2>3
<1>2. CASE Leave
  BY <1>2 DEF Leave, Unmount, OneLoad
<1>3. CASE \E query \in 1 .. MaxStored : TurnPage(query)
  <2>1. PICK query \in Nat : TurnPage(query)
    BY <1>3
  <2>2. PICK l \in Load : StartLoad(l, query)
    BY <2>1 DEF TurnPage
  <2>3. page.turns # "search" => (history'.mixed <=> Loading # {})
    BY <2>1, MeetsEffect DEF TurnPage
  <2> QED
    BY <2>2, <2>3, OneLoadStarts
<1>4. CASE \E query \in 0 .. MaxQuery : Type(query)
  <2>1. PICK query \in Nat : Type(query)
    BY <1>4
  <2>2. page.turns = "search"
    BY <2>1 DEF Type
  <2>3. CASE \E l \in Load : StartLoad(l, query)
    BY <2>2, <2>3, OneLoadStarts
  <2>4. CASE /\ loads' = NoLoads
             /\ list' = [list EXCEPT !.query = 0, !.of = 0, !.rows = <<>>, !.loading = FALSE]
    <3>1. Loading' = {}
      BY <2>4 DEF Loading, NoLoads
    <3>2. list'.query = 0 /\ list'.of = 0 /\ list'.loading = FALSE
      BY <2>4 DEF PagesTypes, ListType
    <3> QED
      BY <3>1, <3>2 DEF OneLoad
  <2> QED
    BY <2>1, <2>3, <2>4 DEF Type
<1>5. ASSUME NEW l \in Load, Read(l) \/ LoadAnswer(l) \/ LoadFails(l)
      PROVE  OneLoad'
  BY <1>5, OneLoadRead, OneLoadEnds
<1>6. CASE OpenForm \/ CloseForm \/ Edit \/ Autosave
  BY <1>6, OneLoadQuiet DEF OpenForm, CloseForm, Edit, Autosave
<1>7. CASE Recover
  <2>1. history'.mixed = history.mixed /\ UNCHANGED <<mounted, list, loads>>
    BY <1>7 DEF Recover, PagesTypes, HistoryType
  <2> QED
    BY <2>1, OneLoadQuiet
<1>8. ASSUME NEW p \in Post, SubmitForm(p) \/ LosePost(p)
      PROVE  OneLoad'
  <2>1. history'.mixed = history.mixed /\ UNCHANGED <<mounted, list, loads>>
    BY <1>8 DEF SubmitForm, LosePost, PagesTypes, HistoryType
  <2> QED
    BY <2>1, OneLoadQuiet
<1>9. ASSUME NEW p \in Post, Serve(p) \/ HearRefusal(p)
      PROVE  OneLoad'
  BY <1>9, OneLoadQuiet DEF Serve, HearRefusal
<1>10. ASSUME NEW p \in Post, HearSuccess(p)
       PROVE  OneLoad'
  <2>1. p \in Heard /\ Created(p)
    BY <1>10 DEF HearSuccess, Created, Sent, Heard
  <2>2. Told(p, history).mixed = history.mixed
    BY <2>1, ToldEffect DEF PagesTypes
  <2>3. CASE Prepend(p)
    <3>1. /\ list'.loading = list.loading /\ list'.failed = list.failed /\ list'.of = list.of
          /\ list'.query = list.query /\ UNCHANGED <<mounted, loads>>
          /\ history' = Told(p, history)
      BY <2>3 DEF Prepend, PagesTypes, ListType
    <3> QED
      BY <2>2, <3>1, OneLoadQuiet
  <2>4. CASE Reload(p)
    <3>1. PICK l \in Load : StartLoad(l, list.query)
      BY <2>4 DEF Reload
    <3>2. PICK h : h = Meets(Heard \ {p})
      OBVIOUS
    <3>3. h \in HistoryType /\ (h.mixed <=> page.turns # "search" /\ Loading # {})
      BY <3>2, MeetsEffect
    <3>4. history' = Told(p, h)
      BY <2>4, <3>2 DEF Reload
    <3>5. history'.mixed = h.mixed
      BY <2>1, <3>3, <3>4, ToldEffect
    <3>6. list.query \in Nat
      BY DEF PagesTypes, ListType
    <3> QED
      BY <3>1, <3>3, <3>5, <3>6, OneLoadStarts
  <2>5. CASE LeaveForRow(p)
    BY <2>5 DEF LeaveForRow, Unmount, OneLoad
  <2>6. CASE StartAgain(p)
    BY <2>2, <2>6, OneLoadQuiet DEF StartAgain
  <2> QED
    BY <1>10, <2>3, <2>4, <2>5, <2>6 DEF HearSuccess
<1>11. CASE Arrive \/ UNCHANGED pagesVars
  BY <1>11, OneLoadQuiet DEF Arrive, pagesVars
<1> QED
  BY <1>1, <1>2, <1>3, <1>4, <1>5, <1>6, <1>7, <1>8, <1>9, <1>10, <1>11 DEF PagesNext

--------------------------------------------------------------------------------
(***************************************************************************)
(* The rows of a list with a modal.                                        *)
(***************************************************************************)
LEMMA ContentsCreated ==
  ASSUME SameContents
  PROVE  \A q \in Post : /\ Created(q)' <=> Created(q)
                         /\ Created(q) => posts'[q].answer = posts[q].answer
BY DEF SameContents, SameSubmission, Created, Sent

LEMMA RowsQuiet ==
  ASSUME PagesTypes, RowsStored, MadeShown, SameContents, Heard' \subseteq Heard,
         UNCHANGED <<mounted, loads, stored>>, list'.rows = list.rows,
         history'.made = history.made, history'.raced = history.raced,
         history'.mixed = history.mixed
  PROVE  RowsStored' /\ MadeShown'
<1>1. \A q \in Post : /\ Created(q)' <=> Created(q)
                      /\ Created(q) => posts'[q].answer = posts[q].answer
  BY ContentsCreated
<1>2. Loading' = Loading /\ Heard \subseteq Post
  BY DEF Loading, Heard
<1>3. RowsStored'
  BY <1>1, <1>2 DEF RowsStored
<1>4. MadeShown'
  BY <1>1, <1>2 DEF MadeShown
<1> QED
  BY <1>3, <1>4

LEMMA RowsLeave ==
  ASSUME PagesTypes, RowsStored, Absence, Waits, Bounds, Leave
  PROVE  RowsStored' /\ MadeShown'
<1>1. /\ ~mounted' /\ loads' = NoLoads /\ UNCHANGED <<list, stored>> /\ SameContents
  BY LeaveHears DEF Leave, Unmount, HearsLess
<1>2. history'.made = history.made
  BY DEF Leave, PagesTypes, HistoryType
<1>3. \A q \in Post : /\ Created(q)' <=> Created(q)
                      /\ Created(q) => posts'[q].answer = posts[q].answer
  BY <1>1, ContentsCreated
<1>4. Loading' = {}
  BY <1>1 DEF Loading, NoLoads
<1>5. RowsStored'
  BY <1>1, <1>2, <1>3, <1>4 DEF RowsStored
<1> QED
  BY <1>1, <1>5 DEF MadeShown

LEMMA RowsMount ==
  ASSUME PagesTypes, RowsStored, Absence, NEW new \in BOOLEAN, Go(new), ~mounted,
         page.turns = "never"
  PROVE  RowsStored' /\ MadeShown'
<1>1. /\ UNCHANGED <<posts, stored>> /\ list'.rows = <<>> /\ history'.made = {}
      /\ \E l \in Load : Loading' = {l} /\ loads'[l].seen = None
  BY MountEffect
<1>2. Heard' = {}
  BY <1>1 DEF Absence, Heard
<1>3. DOMAIN list'.rows = {}
  BY <1>1
<1>4. RowsStored'
  BY <1>1, <1>3 DEF RowsStored, Created, Sent
<1> QED
  BY <1>1, <1>2, <1>4 DEF MadeShown

LEMMA RowsRead ==
  ASSUME PagesTypes, RowsStored, MadeShown, NEW l \in Load, Read(l)
  PROVE  RowsStored' /\ MadeShown'
<1>1. /\ loads[l] # None
      /\ loads' = [loads EXCEPT ![l] = [loads[l] EXCEPT !.seen = Len(stored)]]
      /\ UNCHANGED <<page, mounted, list, form, posts, stored, draft, entries, history>>
  BY DEF Read
<1>2. loads[l] \in Fetch /\ Len(stored) \in Nat /\ DOMAIN stored = 1 .. Len(stored)
  BY <1>1 DEF PagesTypes
<1>3. loads'[l].seen = Len(stored) /\ loads'[l] # None
  <2>1. [loads[l] EXCEPT !.seen = Len(stored)] \in Fetch
    BY <1>2 DEF Fetch
  <2>2. [loads[l] EXCEPT !.seen = Len(stored)].seen = Len(stored)
    BY <1>2 DEF Fetch
  <2>3. loads'[l] = [loads[l] EXCEPT !.seen = Len(stored)]
    BY <1>1 DEF PagesTypes
  <2> QED
    BY <2>1, <2>2, <2>3, NoneAssumption
<1>4. \A m \in Load \ {l} : loads'[m] = loads[m]
  BY <1>1 DEF PagesTypes
<1>5. Loading' = Loading /\ Heard' = Heard
  BY <1>1, <1>3, <1>4 DEF Loading, Heard
<1>6. \A q \in Post : Created(q)' <=> Created(q)
  BY <1>1 DEF Created, Sent
<1>7. \A m \in Loading : loads'[m].seen # None =>
        loads'[m].seen <= Len(stored)
  BY <1>2, <1>3, <1>4 DEF RowsStored, Loading
<1>8. RowsStored'
  BY <1>1, <1>5, <1>6, <1>7 DEF RowsStored
<1>9. MadeShown'
  <2>1. mounted /\ ~history.raced /\ ~history.mixed =>
          \A m \in Loading : loads'[m].seen # None => history.made \subseteq 1 .. loads'[m].seen
    BY <1>2, <1>3, <1>4 DEF RowsStored, MadeShown, Loading
  <2>2. mounted /\ ~history.raced =>
          /\ Loading = {} \/ Heard = {}
          /\ \A p \in Heard : Created(p) =>
               \A i \in DOMAIN list.rows : list.rows[i] # posts[p].answer
          /\ ~history.mixed /\ Loading = {} => \A r \in history.made : OnceIn(r, list.rows)
    BY DEF MadeShown
  <2>3. \A p \in Heard : Created(p)' <=> Created(p)
    BY <1>6 DEF Heard
  <2>4. \A r : OnceIn(r, list.rows)' <=> OnceIn(r, list.rows)
    BY <1>1 DEF OnceIn
  <2> QED
    BY <1>1, <1>5, <2>1, <2>2, <2>3, <2>4 DEF MadeShown
<1> QED
  BY <1>8, <1>9

(* The answer lists each of the first rows once.                           *)
LEMMA RowsLoaded ==
  ASSUME PagesTypes, RowsStored, MadeShown, NEW l \in Load, LoadAnswer(l),
         page.turns = "never"
  PROVE  RowsStored' /\ MadeShown'
<1>1. /\ loads[l] # None /\ loads[l].seen # None /\ loads' = [loads EXCEPT ![l] = None]
      /\ UNCHANGED <<page, mounted, form, posts, stored, draft, entries, history>>
  BY DEF LoadAnswer
<1>2. PICK n \in Nat : n = loads[l].seen
  BY <1>1 DEF PagesTypes, Fetch
<1>3. list'.rows = [i \in 1 .. n |-> n + 1 - i]
  <2>1. list'.rows = Listing(loads[l].query, loads[l].seen)
    BY DEF LoadAnswer, PagesTypes, ListType
  <2> QED
    BY <1>2, <2>1 DEF Listing
<1>4. l \in Loading /\ Loading' = Loading \ {l} /\ \A m \in Loading' : loads'[m] = loads[m]
  BY <1>1 DEF Loading, PagesTypes
<1>5. Heard' = Heard /\ \A q \in Post : Created(q)' <=> Created(q)
  BY <1>1 DEF Heard, Created, Sent
<1>6. DOMAIN list'.rows = 1 .. n /\ \A i \in 1 .. n : list'.rows[i] = n + 1 - i
  BY <1>3
<1>7. Len(stored) \in Nat /\ DOMAIN stored = 1 .. Len(stored) /\ n <= Len(stored)
  BY <1>2, <1>1, <1>4 DEF PagesTypes, RowsStored
<1>8. \A i \in DOMAIN list'.rows : list'.rows[i] \in DOMAIN stored
  BY <1>6, <1>7
<1>9. RowsStored'
  BY <1>1, <1>4, <1>5, <1>8 DEF RowsStored
<1>10. \A r \in 1 .. n : OnceIn(r, list'.rows)
  <2> SUFFICES ASSUME NEW r \in 1 .. n PROVE OnceIn(r, list'.rows)
    OBVIOUS
  <2>1. n + 1 - r \in DOMAIN list'.rows /\ list'.rows[n + 1 - r] = r
    BY <1>6
  <2>2. \A j \in DOMAIN list'.rows : list'.rows[j] = r => j = n + 1 - r
    BY <1>6
  <2> QED
    BY <2>1, <2>2 DEF OnceIn
<1>11. MadeShown'
  <2>1. mounted /\ ~history.raced => Heard = {}
    BY <1>4 DEF MadeShown
  <2>2. mounted /\ ~history.raced /\ ~history.mixed => history.made \subseteq 1 .. n
    BY <1>1, <1>2, <1>4 DEF MadeShown
  <2>3. mounted /\ ~history.raced /\ ~history.mixed =>
          \A m \in Loading' : loads'[m].seen # None => history.made \subseteq 1 .. loads'[m].seen
    BY <1>4 DEF MadeShown
  <2>4. \A r \in 1 .. n : OnceIn(r, list.rows)'
    BY <1>10 DEF OnceIn
  <2> QED
    BY <1>1, <1>5, <2>1, <2>2, <2>3, <2>4 DEF MadeShown
<1> QED
  BY <1>9, <1>11

LEMMA RowsFail ==
  ASSUME PagesTypes, RowsStored, MadeShown, NEW l \in Load, LoadFails(l),
         page.turns = "never"
  PROVE  RowsStored' /\ MadeShown'
<1>1. /\ loads' = [loads EXCEPT ![l] = None]
      /\ UNCHANGED <<page, mounted, form, posts, stored, draft, entries>>
      /\ history'.mixed /\ history'.made = history.made /\ history'.raced = history.raced
      /\ list'.rows = list.rows
  BY DEF LoadFails, PagesTypes, HistoryType, ListType
<1>2. Loading' \subseteq Loading /\ \A m \in Loading' : loads'[m] = loads[m]
  BY <1>1 DEF Loading, PagesTypes
<1>3. Heard' = Heard /\ \A q \in Post : Created(q)' <=> Created(q)
  BY <1>1 DEF Heard, Created, Sent
<1>4. RowsStored'
  BY <1>1, <1>2, <1>3 DEF RowsStored
<1>5. MadeShown'
  <2>1. mounted /\ ~history.raced =>
          /\ Loading = {} \/ Heard = {}
          /\ \A p \in Heard : Created(p) =>
               \A i \in DOMAIN list.rows : list.rows[i] # posts[p].answer
    BY DEF MadeShown
  <2>2. \A p \in Heard : Created(p)' <=> Created(p)
    BY <1>3 DEF Heard
  <2> QED
    BY <1>1, <1>2, <1>3, <2>1, <2>2 DEF MadeShown
<1> QED
  BY <1>4, <1>5

LEMMA RowsSubmit ==
  ASSUME PagesTypes, RowsStored, MadeShown, Bounds, Waits, NEW p \in Post, SubmitForm(p)
  PROVE  RowsStored' /\ MadeShown'
<1>1. /\ UNCHANGED <<mounted, list, loads, stored>>
      /\ posts'[p].answer = None
      /\ \A q \in Post \ {p} : posts'[q] = posts[q]
      /\ Heard' = Heard \cup {p} /\ posts[p] = None
      /\ history'.made = history.made /\ history'.mixed = history.mixed
      /\ history'.raced = (history.raced \/ Loading # {})
  BY SubmitFormEffect DEF SubmitForm
<1>2. Loading' = Loading
  BY <1>1 DEF Loading
<1>3. /\ \A q \in Post : Created(q)' <=> Created(q)
      /\ \A q \in Post : Created(q) => posts'[q] = posts[q] /\ q # p
  BY <1>1 DEF Created, Sent
<1>4. RowsStored'
  BY <1>1, <1>2, <1>3 DEF RowsStored
<1>5. MadeShown'
  BY <1>1, <1>2, <1>3 DEF MadeShown, Heard
<1> QED
  BY <1>4, <1>5

LEMMA RowsArrive ==
  ASSUME PagesTypes, RowsStored, MadeShown, Arrive
  PROVE  RowsStored' /\ MadeShown'
<1>1. /\ stored' = Append(stored, [entry |-> 0, key |-> 0])
      /\ UNCHANGED <<mounted, list, loads, posts, history>>
  BY DEF Arrive
<1>2. [entry |-> 0, key |-> 0] \in Kept
  BY DEF Kept
<1>3. /\ DOMAIN stored \subseteq DOMAIN stored' /\ Len(stored') = Len(stored) + 1
      /\ Len(stored) \in Nat
  BY <1>1, <1>2, AppendEffect
<1>4. /\ Loading' = Loading /\ Heard' = Heard
      /\ \A q \in Post : Created(q)' <=> Created(q)
  BY <1>1 DEF Loading, Heard, Created, Sent
<1>5. \A l \in Loading : loads[l].seen # None => loads[l].seen <= Len(stored')
  <2>1. \A l \in Loading : loads[l].seen # None => loads[l].seen \in Nat
    BY DEF Loading, PagesTypes, Fetch
  <2> QED
    BY <1>3, <2>1 DEF RowsStored
<1>6. RowsStored'
  BY <1>1, <1>3, <1>4, <1>5 DEF RowsStored
<1>7. MadeShown'
  <2>1. \A p \in Heard : Created(p)' <=> Created(p)
    BY <1>4 DEF Heard
  <2>2. \A r : OnceIn(r, list.rows)' <=> OnceIn(r, list.rows)
    BY <1>1 DEF OnceIn
  <2> QED
    BY <1>1, <1>4, <2>1, <2>2 DEF MadeShown
<1> QED
  BY <1>6, <1>7

(* The row is no other's answer, and no list has it.                       *)
LEMMA RowsServe ==
  ASSUME PagesTypes, RowsStored, MadeShown, Bounds, ~Form.keyed, NEW p \in Post, Serve(p)
  PROVE  RowsStored' /\ MadeShown'
<1>1. /\ Pending(p) /\ UNCHANGED <<page, mounted, list, loads, form, entries, history>>
      /\ posts[p] \in Submission
  BY DEF Serve, Pending, Sent, PagesTypes
<1>2. Loading' = Loading
  BY <1>1 DEF Loading
<1>3. CASE posts' = [posts EXCEPT ![p].answer = 0] /\ UNCHANGED stored
  <2>1. /\ \A q \in Post : Created(q)' <=> Created(q)
        /\ \A q \in Post \ {p} : posts'[q] = posts[q]
        /\ Heard' = Heard
    <3>1. 0 \in Nat
      OBVIOUS
    <3>2. posts' = [posts EXCEPT ![p].answer = 0]
      BY <1>3
    <3> QED
      BY <1>1, <3>1, <3>2, AnswerEffect
  <2>2. ~Created(p)
    BY <1>1 DEF Pending, Created
  <2>3. RowsStored'
    BY <1>1, <1>2, <1>3, <2>1, <2>2 DEF RowsStored
  <2>4. MadeShown'
    BY <1>1, <1>2, <2>1, <2>2 DEF MadeShown, Heard
  <2> QED
    BY <2>3, <2>4
<1>4. CASE \E r \in RowsWithKey(posts[p].key) : posts' = [posts EXCEPT ![p].answer = r]
  BY <1>1, <1>4 DEF RowsWithKey, Bounds, Pending
<1>5. CASE /\ stored' = Append(stored, [entry |-> posts[p].entry, key |-> posts[p].key])
           /\ posts' = [posts EXCEPT ![p].answer = Len(stored) + 1]
  <2>1. [entry |-> posts[p].entry, key |-> posts[p].key] \in Kept
    BY <1>1 DEF Kept, Submission
  <2>2. PICK n \in Nat : n = Len(stored) + 1
    BY DEF PagesTypes
  <2>3. /\ DOMAIN stored' = DOMAIN stored \cup {n} /\ n \notin DOMAIN stored
        /\ Len(stored') = Len(stored) + 1 /\ Len(stored) \in Nat
    BY <1>5, <2>1, <2>2, AppendEffect
  <2>4. /\ posts'[p].answer = n /\ \A q \in Post \ {p} : posts'[q] = posts[q]
        /\ \A q \in Post : Created(q)' <=> Created(q) \/ (q = p /\ n # 0)
        /\ Heard' = Heard
    <3>1. posts' = [posts EXCEPT ![p].answer = n]
      BY <1>5, <2>2
    <3> QED
      BY <1>1, <3>1, AnswerEffect
  <2>5. ~Created(p)
    BY <1>1 DEF Pending, Created
  <2>6. \A l \in Loading : loads[l].seen # None => loads[l].seen <= Len(stored')
    <3>1. \A l \in Loading : loads[l].seen # None => loads[l].seen \in Nat
      BY DEF Loading, PagesTypes, Fetch
    <3> QED
      BY <2>3, <3>1 DEF RowsStored
  <2>7. \A q, s \in Post :
          Created(q)' /\ Created(s)' /\ posts'[q].answer = posts'[s].answer => q = s
    BY <2>3, <2>4, <2>5 DEF RowsStored, Bounds
  <2>8. RowsStored'
    BY <1>1, <1>2, <2>3, <2>6, <2>7 DEF RowsStored
  <2>9. \A q \in Heard : Created(q)' /\ (\A i \in DOMAIN list.rows : q # p =>
                                           list.rows[i] # posts[q].answer)
          => \A i \in DOMAIN list.rows : list.rows[i] # posts'[q].answer
    BY <2>3, <2>4 DEF RowsStored, Heard
  <2>10. MadeShown'
    BY <1>1, <1>2, <2>4, <2>5, <2>9 DEF MadeShown, Heard
  <2> QED
    BY <2>8, <2>10
<1> QED
  BY <1>3, <1>4, <1>5 DEF Serve

LEMMA OnceInFront ==
  ASSUME NEW rows \in Seq(Nat), NEW a \in Nat
  PROVE  LET more == <<a>> \o rows IN
         /\ \A i \in DOMAIN more : more[i] = a \/ \E j \in DOMAIN rows : more[i] = rows[j]
         /\ (\A i \in DOMAIN rows : rows[i] # a) =>
              /\ OnceIn(a, more)
              /\ \A r : OnceIn(r, rows) => OnceIn(r, more)
<1> DEFINE more == <<a>> \o rows
<1>1. Len(rows) \in Nat /\ DOMAIN rows = 1 .. Len(rows)
  OBVIOUS
<1>2. /\ DOMAIN more = 1 .. (Len(rows) + 1) /\ more[1] = a
      /\ \A i \in 1 .. Len(rows) : more[i + 1] = rows[i]
      /\ \A i \in 2 .. (Len(rows) + 1) : more[i] = rows[i - 1]
  OBVIOUS
<1> HIDE DEF more
<1>3. \A i \in DOMAIN more : i = 1 \/ (i - 1 \in DOMAIN rows /\ more[i] = rows[i - 1])
  BY <1>1, <1>2
<1>4. \A i \in DOMAIN more : more[i] = a \/ \E j \in DOMAIN rows : more[i] = rows[j]
  BY <1>2, <1>3
<1>5. ASSUME \A i \in DOMAIN rows : rows[i] # a
      PROVE  OnceIn(a, more)
  <2>1. 1 \in DOMAIN more
    BY <1>1, <1>2
  <2> QED
    BY <1>2, <1>3, <1>5, <2>1 DEF OnceIn
<1>6. ASSUME \A i \in DOMAIN rows : rows[i] # a, NEW r, OnceIn(r, rows)
      PROVE  OnceIn(r, more)
  <2>1. PICK i \in DOMAIN rows : rows[i] = r /\ \A j \in DOMAIN rows : rows[j] = r => j = i
    BY <1>6 DEF OnceIn
  <2>2. i + 1 \in DOMAIN more /\ more[i + 1] = r /\ r # a
    BY <1>1, <1>2, <1>6, <2>1
  <2>3. \A j \in DOMAIN more : more[j] = r => j = i + 1
    <3> SUFFICES ASSUME NEW j \in DOMAIN more, more[j] = r PROVE j = i + 1
      OBVIOUS
    <3>1. j # 1
      BY <1>2, <2>2
    <3>2. j - 1 \in DOMAIN rows /\ rows[j - 1] = r
      BY <1>3, <3>1
    <3>3. j - 1 = i
      BY <2>1, <3>2
    <3> QED
      BY <1>1, <1>2, <3>3
  <2> QED
    BY <2>2, <2>3 DEF OnceIn
<1> QED
  BY <1>4, <1>5, <1>6 DEF more

(* A success: the row is put in front, or the list is fetched again.       *)
LEMMA RowsPrepend ==
  ASSUME PagesTypes, RowsStored, MadeShown, Bounds, Waits, mounted, NEW p \in Heard, Created(p),
         Prepend(p), UNCHANGED <<page, stored>>
  PROVE  RowsStored' /\ MadeShown'
<1>1. /\ ModalDone(p) /\ UNCHANGED <<mounted, loads, stored, page>>
      /\ history' = Told(p, history)
      /\ list' = [list EXCEPT !.rows = <<posts[p].answer>> \o @]
  BY DEF Prepend
<1>2. SameContents /\ Heard' = Heard \ {p}
  BY <1>1, ModalDoneEffect
<1>3. \A q \in Post : /\ Created(q)' <=> Created(q)
                      /\ Created(q) => posts'[q].answer = posts[q].answer
  BY <1>2, ContentsCreated
<1>4. PICK a \in Nat : a = posts[p].answer
  BY DEF Heard, PagesTypes, Submission, Created
<1>5. PICK rows \in Seq(Nat) : rows = list.rows
  BY DEF PagesTypes, ListType
<1>6. PICK more : more = <<a>> \o rows
  OBVIOUS
<1>7. list'.rows = more
  BY <1>1, <1>4, <1>5, <1>6 DEF PagesTypes, ListType
<1>8. /\ \A i \in DOMAIN more : more[i] = a \/ \E j \in DOMAIN rows : more[i] = rows[j]
      /\ (\A i \in DOMAIN rows : rows[i] # a) =>
           /\ OnceIn(a, more)
           /\ \A r : OnceIn(r, rows) => OnceIn(r, more)
  BY <1>6, OnceInFront
<1>9. /\ history'.made = history.made \cup {a} /\ history'.mixed = history.mixed
      /\ history'.raced = history.raced
  BY <1>1, <1>4, ToldEffect DEF PagesTypes
<1>10. Loading' = Loading /\ Heard \subseteq Post
  BY <1>1 DEF Loading, Heard
<1>11. a \in DOMAIN stored
  BY <1>4, <1>10 DEF Bounds
<1>12. \A i \in DOMAIN more : more[i] \in DOMAIN stored
  BY <1>5, <1>8, <1>11 DEF RowsStored
<1>13. RowsStored'
  BY <1>1, <1>3, <1>7, <1>9, <1>10, <1>11, <1>12 DEF RowsStored
<1>14. MadeShown'
  <2> SUFFICES ASSUME ~history.raced PROVE MadeShown'
    BY <1>9 DEF MadeShown
  <2>1. Loading = {} /\ \A i \in DOMAIN rows : rows[i] # a
    BY <1>4, <1>5 DEF MadeShown
  <2>2. \A q \in Heard \ {p} : Created(q) =>
          \A i \in DOMAIN more : more[i] # posts[q].answer
    <3> SUFFICES ASSUME NEW q \in Heard \ {p}, Created(q), NEW i \in DOMAIN more
                 PROVE  more[i] # posts[q].answer
      OBVIOUS
    <3>1. posts[q].answer # a
      BY <1>4, <1>10 DEF RowsStored
    <3>2. \A j \in DOMAIN rows : rows[j] # posts[q].answer
      BY <1>5 DEF MadeShown
    <3> QED
      BY <1>8, <3>1, <3>2
  <2>3. ~history.mixed => \A r \in history.made \cup {a} : OnceIn(r, more)
    BY <1>5, <1>8, <2>1 DEF MadeShown
  <2>4. \A r : OnceIn(r, list.rows)' <=> OnceIn(r, more)
    BY <1>7 DEF OnceIn
  <2>5. \A q \in Heard' : Created(q)' =>
          \A i \in DOMAIN list'.rows : list'.rows[i] # posts'[q].answer
    BY <1>2, <1>3, <1>7, <1>10, <2>2
  <2> QED
    BY <1>9, <1>10, <2>1, <2>3, <2>4, <2>5 DEF MadeShown
<1> QED
  BY <1>13, <1>14

LEMMA RowsReload ==
  ASSUME PagesTypes, RowsStored, MadeShown, Bounds, Waits, mounted, NEW p \in Heard, Created(p),
         Reload(p), UNCHANGED <<page, stored>>, page.turns = "never"
  PROVE  RowsStored' /\ MadeShown'
<1>1. ModalDone(p) /\ history' = Told(p, Meets(Heard \ {p})) /\ mounted' = mounted
  BY DEF Reload
<1>2. PICK l \in Load : StartLoad(l, list.query)
  BY DEF Reload
<1>3. /\ list'.rows = list.rows /\ loads'[l].seen = None /\ Loading' = Loading \cup {l}
      /\ \A m \in Load \ {l} : loads'[m] = loads[m]
  <2>1. list.query \in Nat
    BY DEF PagesTypes, ListType
  <2> QED
    BY <1>2, <2>1, StartLoadEffect
<1>4. SameContents /\ Heard' = Heard \ {p}
  BY <1>1, ModalDoneEffect
<1>5. \A q \in Post : /\ Created(q)' <=> Created(q)
                      /\ Created(q) => posts'[q].answer = posts[q].answer
  BY <1>4, ContentsCreated
<1>6. PICK h : h = Meets(Heard \ {p})
  OBVIOUS
<1>7. /\ h \in HistoryType /\ h.made = history.made
      /\ h.mixed <=> Loading # {}
      /\ h.raced <=> history.raced \/ Heard \ {p} # {}
  BY <1>6, MeetsEffect
<1>8. /\ history'.made = history.made \cup {posts[p].answer}
      /\ history'.mixed <=> Loading # {}
      /\ history'.raced <=> history.raced \/ Heard \ {p} # {}
  BY <1>1, <1>6, <1>7, ToldEffect
<1>9. posts[p].answer \in DOMAIN stored
  BY DEF Bounds, Heard
<1>10. \A m \in Loading' : loads'[m].seen # None =>
         m \in Loading /\ loads'[m].seen = loads[m].seen
  BY <1>3 DEF Loading
<1>11. RowsStored'
  BY <1>3, <1>5, <1>8, <1>9, <1>10 DEF RowsStored
<1>12. MadeShown'
  BY <1>3, <1>4, <1>8, <1>10 DEF MadeShown
<1> QED
  BY <1>11, <1>12

LEMMA ModalRowsNext ==
  ASSUME PagesTypes, EntriesInv, Absence, Waits, ModalRows, [PagesNext]_pagesVars
  PROVE  ModalRows'
<1>1. page' = page /\ Form' = Form
  BY DEF PagesNext, pagesVars, Go, Leave, TurnPage, Type, Read, LoadAnswer, LoadFails, OpenForm,
     CloseForm, Edit, Autosave, Recover, SubmitForm, Serve, HearRefusal, LosePost, HearSuccess,
     Arrive, Form
<1> SUFFICES ASSUME Form.place = "modal" PROVE RowsStored' /\ MadeShown'
  BY <1>1 DEF ModalRows
<1>2. RowsStored /\ MadeShown /\ Bounds
  BY DEF ModalRows, EntriesInv
<1>3. page.turns = "never" /\ ~Form.keyed /\ Form.after \in {"prepend", "reload"}
  BY FormValues DEF PageTraits, FormTraits, Form
<1>4. ASSUME HearsLess, UNCHANGED <<mounted, loads>>, list'.rows = list.rows,
             history'.made = history.made, history'.raced = history.raced,
             history'.mixed = history.mixed
      PROVE  RowsStored' /\ MadeShown'
  BY <1>2, <1>4, RowsQuiet DEF HearsLess
<1>5. CASE \E new \in BOOLEAN : Go(new)
  <2>1. PICK new \in BOOLEAN : Go(new)
    BY <1>5
  <2>2. CASE mounted
    <3>1. HearsLess
      BY <1>2, <2>1, GoHears
    <3>2. mounted' = mounted /\ UNCHANGED <<list, loads, history>>
      BY <2>1, <2>2 DEF Go, PagesTypes
    <3> QED
      BY <1>4, <3>1, <3>2
  <2>3. CASE ~mounted
    BY <1>2, <1>3, <2>1, <2>3, RowsMount
  <2> QED
    BY <2>2, <2>3
<1>6. CASE Leave
  BY <1>2, <1>6, RowsLeave
<1>7. CASE \/ \E query \in 1 .. MaxStored : TurnPage(query)
           \/ \E query \in 0 .. MaxQuery : Type(query)
  BY <1>3, <1>7 DEF TurnPage, Type
<1>8. ASSUME NEW l \in Load, Read(l) \/ LoadAnswer(l) \/ LoadFails(l)
      PROVE  RowsStored' /\ MadeShown'
  BY <1>2, <1>3, <1>8, RowsRead, RowsLoaded, RowsFail
<1>9. CASE OpenForm
  BY <1>2, <1>4, <1>9, OpenFormHears DEF OpenForm
<1>10. CASE CloseForm
  BY <1>2, <1>4, <1>10, CloseFormHears DEF CloseForm
<1>11. CASE Edit
  BY <1>2, <1>4, <1>11, EditHears DEF Edit
<1>12. CASE Autosave \/ Recover \/ UNCHANGED pagesVars
  <2>1. /\ UNCHANGED <<mounted, list, loads, posts, stored>>
        /\ history'.made = history.made /\ history'.raced = history.raced
        /\ history'.mixed = history.mixed
    BY <1>12 DEF Autosave, Recover, pagesVars, PagesTypes, HistoryType
  <2>2. SameContents /\ Heard' = Heard
    BY <2>1 DEF SameContents, SameSubmission, Sent, Heard
  <2> QED
    BY <1>2, <2>1, <2>2, RowsQuiet
<1>13. ASSUME NEW p \in Post, SubmitForm(p)
       PROVE  RowsStored' /\ MadeShown'
  BY <1>2, <1>13, RowsSubmit
<1>14. ASSUME NEW p \in Post, Serve(p)
       PROVE  RowsStored' /\ MadeShown'
  BY <1>2, <1>3, <1>14, RowsServe
<1>15. ASSUME NEW p \in Post, HearRefusal(p) \/ LosePost(p)
       PROVE  RowsStored' /\ MadeShown'
  <2>1. HearsLess
    BY <1>2, <1>15, HearRefusalHears, LosePostHears
  <2>2. /\ UNCHANGED <<mounted, list, loads>>
        /\ history'.made = history.made /\ history'.raced = history.raced
        /\ history'.mixed = history.mixed
    BY <1>15 DEF HearRefusal, LosePost, PagesTypes, HistoryType
  <2> QED
    BY <1>4, <2>1, <2>2
<1>16. ASSUME NEW p \in Post, HearSuccess(p)
       PROVE  RowsStored' /\ MadeShown'
  <2>1. p \in Heard /\ Created(p) /\ mounted /\ UNCHANGED <<page, stored>>
    BY <1>16 DEF HearSuccess, Created, Sent, Heard, Absence
  <2>2. Prepend(p) \/ Reload(p)
    BY <1>3, <1>16 DEF HearSuccess, LeaveForRow, StartAgain
  <2> QED
    BY <1>2, <1>3, <2>1, <2>2, RowsPrepend, RowsReload
<1>17. CASE Arrive
  BY <1>2, <1>17, RowsArrive
<1> QED
  BY <1>5, <1>6, <1>7, <1>8, <1>9, <1>10, <1>11, <1>12, <1>13, <1>14, <1>15, <1>16, <1>17
     DEF PagesNext

--------------------------------------------------------------------------------
LEMMA PagesInvInit == PagesInit => PagesInv
<1> SUFFICES ASSUME PagesInit PROVE PagesInv
  OBVIOUS
<1>1. PagesTypes
  BY InitTypes
<1>2. /\ mounted = FALSE /\ loads = NoLoads /\ form.open = FALSE
      /\ posts = [p \in Post |-> None] /\ stored = <<>> /\ draft = 0 /\ entries = 0
      /\ list.rows = <<>> /\ history.told = {} /\ history.made = {}
  BY DEF PagesInit
<1>3. /\ \A p \in Post : ~Sent(p) /\ ~Pending(p) /\ ~Created(p)
      /\ Heard = {} /\ Attached = {} /\ Loading = {}
  BY <1>2 DEF Sent, Pending, Created, Heard, Attached, Loading, NoLoads
<1>4. DOMAIN stored = {} /\ DOMAIN list.rows = {}
  BY <1>2
<1>5. Bounds
  BY <1>2, <1>3, <1>4 DEF Bounds
<1>6. Absence /\ Waits /\ UnheardLost
  BY <1>2, <1>3 DEF Absence, Waits, UnheardLost
<1>7. OneLoad
  BY <1>2 DEF OneLoad
<1>8. ModalRows
  BY <1>2, <1>3, <1>4 DEF ModalRows, RowsStored, MadeShown
<1>9. OnceOnItsWay /\ ShownIsAwaited /\ DraftNotStored
  BY <1>2, <1>3, <1>4 DEF OnceOnItsWay, ShownIsAwaited, DraftNotStored
<1>10. OneKey
  BY <1>2, <1>3, <1>4 DEF OneKey
<1>11. AnswersOfEntry
  BY <1>2, <1>3, <1>4 DEF AnswersOfEntry
<1> QED
  BY <1>1, <1>5, <1>6, <1>7, <1>8, <1>9, <1>10, <1>11 DEF PagesInv

(***************************************************************************)
(* The inductive invariant of a page: its entries keep themselves, and on  *)
(* them rest its fetches and its rows.                                     *)
(***************************************************************************)
THEOREM PagesInvariance == PagesSpec => []PagesInv
<1>1. PagesInit => PagesInv
  BY PagesInvInit
<1>2. PagesInv /\ [PagesNext]_pagesVars => PagesInv'
  <2> SUFFICES ASSUME PagesInv, [PagesNext]_pagesVars PROVE PagesInv'
    OBVIOUS
  <2>1. /\ PagesTypes /\ EntriesInv /\ Absence /\ Waits /\ OneLoad /\ ModalRows
    BY DEF PagesInv, EntriesInv
  <2>2. PagesTypes' /\ EntriesInv' /\ Absence' /\ Waits'
    BY <2>1, EntriesNext
  <2>3. OneLoad'
    BY <2>1, OneLoadNext
  <2>4. ModalRows'
    BY <2>1, ModalRowsNext
  <2> QED
    BY <2>2, <2>3, <2>4 DEF PagesInv, EntriesInv
<1> QED
  BY <1>1, <1>2, PTL DEF PagesSpec

(***************************************************************************)
(* The rows on the screen answer the query on the screen, whatever the     *)
(* order in which answers come, unless fetches met or one failed.          *)
(***************************************************************************)
THEOREM PagesShowTheirQuery == PagesSpec => []RowsOfQuery
<1>1. PagesInv => RowsOfQuery
  BY DEF PagesInv, OneLoad, RowsOfQuery, Visible
<1> QED
  BY <1>1, PagesInvariance, PTL

(***************************************************************************)
(* A row that the page was told it created is in its list, once: prepended *)
(* rows are in no answer, and a reload reads after they were stored.       *)
(***************************************************************************)
THEOREM CreatedIsShown == PagesSpec => []CreatedRowShown
<1>1. PagesInv => CreatedRowShown
  <2> SUFFICES ASSUME PagesInv, mounted, Form.place = "modal", Loading = {}, ~history.mixed,
                      ~history.raced, NEW r \in history.made
               PROVE  Cardinality({i \in DOMAIN list.rows : list.rows[i] = r}) = 1
    BY DEF CreatedRowShown, Visible
  <2>1. OnceIn(r, list.rows)
    BY DEF PagesInv, ModalRows, MadeShown
  <2>2. PICK i \in DOMAIN list.rows :
          list.rows[i] = r /\ \A j \in DOMAIN list.rows : list.rows[j] = r => j = i
    BY <2>1 DEF OnceIn
  <2>3. {j \in DOMAIN list.rows : list.rows[j] = r} = {i}
    BY <2>2
  <2> QED
    BY <2>3, FS_Singleton
<1> QED
  BY <1>1, PagesInvariance, PTL

(***************************************************************************)
(* An entry is recorded at most once, and a success is about the entry     *)
(* that was sent, with the exceptions that the property names.             *)
(***************************************************************************)
THEOREM EntriesStoredOnce == PagesSpec => []OncePerEntry
<1>1. PagesInv => OncePerEntry
  <2> SUFFICES ASSUME PagesInv PROVE OncePerEntry
    OBVIOUS
  <2>1. ASSUME NEW r \in DOMAIN stored, NEW s \in DOMAIN stored, r # s,
               stored[r].entry = stored[s].entry, stored[r].entry # 0
        PROVE  \/ ~Form.keyed /\ stored[r].entry \in history.lost
               \/ stored[r].entry \in history.recovered
    <3>1. stored[r].entry \in history.lost \cup history.recovered
      BY <2>1 DEF PagesInv, OnceOnItsWay, Certain
    <3>2. ASSUME Form.keyed, stored[r].entry \notin history.recovered
          PROVE  FALSE
      <4>1. stored[r].key = stored[s].key
        BY <2>1, <3>2 DEF PagesInv, OneKey
      <4>2. stored[r].key # 0
        BY <2>1, <3>2 DEF PagesInv, Bounds
      <4> QED
        BY <2>1, <3>2, <4>1, <4>2 DEF PagesInv, OneKey
    <3> QED
      BY <3>1, <3>2
  <2>2. ASSUME NEW told \in history.told
        PROVE  \/ stored[told[2]].entry = told[1]
               \/ Form.keyed /\ stored[told[2]].entry \in history.lost
    BY DEF PagesInv, AnswersOfEntry, About
  <2> QED
    BY <2>1, <2>2 DEF OncePerEntry
<1> QED
  BY <1>1, PagesInvariance, PTL
================================================================================
