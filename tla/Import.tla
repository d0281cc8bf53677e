--------------------------------- MODULE Import --------------------------------
(***************************************************************************)
(* CSV files: the wizard of inventory/import that uploads them, the routes *)
(* api/import/{products,customers,suppliers} that read and store them, and *)
(* the exports that produce them.                                          *)
(*                                                                         *)
(* The wizard's "Validate File" posts the file to the import route: a file *)
(* with errors comes back as a preview, a valid one is stored.  A preview  *)
(* always has errors, so the wizard never offers its second button, which  *)
(* would post the file again, and the model has no action for it.          *)
(*                                                                         *)
(* Of a row the model keeps whether the schema accepts it and one cell,    *)
(* its key: the SKU of a product, the phone of a customer or supplier.     *)
(***************************************************************************)
EXTENDS Naturals, Sequences, SequencesExt, FiniteSets, Sublists

CONSTANTS
  Entity,       \* the tables files are imported into: the tabs of the page
  Wizard,       \* the import pages that are open
  Upload,       \* the uploads, each used once
  File,         \* the files users have: sequences of Row, or Malformed
  Malformed,    \* a file csv-parse cannot read
  Plain, Formula, Quoted,   \* cells; Formula starts with one of = + - @
  NoKey,        \* an empty cell
  Absent,
  MaxRows,      \* MAX_ROWS, the header included
  FormKey,      \* the SKUs users type into the product form
  MaxTable      \* bound: rows of a table

Key == {Plain, Formula, Quoted}
Row == [ok : BOOLEAN, key : Key \cup {NoKey}]

ASSUME EntityAssumption ==
  "products" \in Entity /\ Entity \subseteq {"products", "customers", "suppliers"}
ASSUME FileAssumption == File \subseteq Seq(Row) \cup {Malformed}
ASSUME FormKeyAssumption == FormKey \subseteq Key \cup {NoKey}
ASSUME MaxRowsAssumption == MaxRows \in Nat \ {0}
ASSUME NamesDiffer == Absent \notin Upload /\ NoKey \notin Key

VARIABLES
  wizard,       \* what each page shows: [tab, file, step, preview, error]
  upload,       \* the uploads: [by, entity, file, answer], or Absent
  stage,        \* where each upload is on the server
  listening,    \* the uploads whose answer a page still waits for
  table,        \* the rows stored: [key, by], oldest first
  known,        \* history: the products an upload's SKU check has seen
  subscribed,   \* the organization may create data (Access.tla changes it)
  moved         \* history: pages whose file or tab changed since their answer

importVars == <<wizard, upload, stage, listening, table, known, subscribed, moved>>

ImportInit ==
  /\ wizard = [w \in Wizard |->
                 [tab |-> "products", file |-> Absent, step |-> "idle",
                  preview |-> Absent, error |-> FALSE]]
  /\ upload = [r \in Upload |-> Absent]
  /\ stage = [r \in Upload |-> "unused"]
  /\ listening = {}
  /\ table = [e \in Entity |-> <<>>]
  /\ known = [r \in Upload |-> 0]
  /\ subscribed \in BOOLEAN
  /\ moved = {}

--------------------------------------------------------------------------------
(* A wizard's own steps.                                                   *)

Waiting(w) == \E r \in listening : upload[r].by = w

Show(w, fields) ==
  wizard' = [wizard EXCEPT ![w] = [k \in DOMAIN @ |->
               IF k \in DOMAIN fields THEN fields[k] ELSE @[k]]]

(* What a change of the file or of the tab does to the history.  *)
Moves(w) == moved' = IF Waiting(w) THEN moved \cup {w} ELSE moved

(* escapeFormula quotes a formula; nothing takes the quote off on import.  *)
EscapeFormula(cell) == IF cell = Formula THEN Quoted ELSE cell

(* The file an export of the stored rows gives, newest first.  *)
Export(e) ==
  [i \in DOMAIN table[e] |->
     [ok |-> TRUE, key |-> EscapeFormula(Reverse(table[e])[i].key)]]

(* What the page lets the user do, by the step it shows.  *)
Offered(w) ==
  (IF wizard[w].step = "done" THEN {} ELSE {"select"})
    \cup (IF wizard[w].file # Absent /\ wizard[w].step = "idle" THEN {"validate"} ELSE {})
    \cup (IF wizard[w].file # Absent \/ wizard[w].step \in {"done", "validated"}
          THEN {"reset"} ELSE {})

(* Faulty variant: the new file leaves the old preview on the page.  *)
SelectFileKeepingPreview(w, f) ==
  /\ "select" \in Offered(w)
  /\ Show(w, [file |-> f, step |-> "idle", error |-> FALSE])
  /\ Moves(w)
  /\ UNCHANGED <<upload, stage, listening, table, known, subscribed>>

SelectFile(w, f) ==
  /\ "select" \in Offered(w)
  /\ Show(w, [file |-> f, step |-> "idle", preview |-> Absent, error |-> FALSE])
  /\ Moves(w)
  /\ UNCHANGED <<upload, stage, listening, table, known, subscribed>>

ResetFile(w) ==
  /\ "reset" \in Offered(w)
  /\ Show(w, [file |-> Absent, step |-> "idle", preview |-> Absent, error |-> FALSE])
  /\ Moves(w)
  /\ UNCHANGED <<upload, stage, listening, table, known, subscribed>>

(* The tabs share one importer, whose file, step and preview stay.  *)
SwitchTab(w, e) ==
  /\ e # wizard[w].tab
  /\ Show(w, [tab |-> e])
  /\ moved' = IF Waiting(w) \/ wizard[w].preview # Absent THEN moved \cup {w} ELSE moved
  /\ UNCHANGED <<upload, stage, listening, table, known, subscribed>>

Validate(w, r) ==
  /\ "validate" \in Offered(w) /\ stage[r] = "unused"
  /\ upload' = [upload EXCEPT ![r] = [by |-> w, entity |-> wizard[w].tab,
                                      file |-> wizard[w].file, answer |-> Absent]]
  /\ stage' = [stage EXCEPT ![r] = "sent"]
  /\ listening' = listening \cup {r}
  /\ Show(w, [step |-> "validating", preview |-> Absent, error |-> FALSE])
  /\ moved' = IF Waiting(w) THEN moved ELSE moved \ {w}
  /\ UNCHANGED <<table, known, subscribed>>

(***************************************************************************)
(* The answer, applied to whatever the page shows by then: the rows were   *)
(* stored, the preview of a file with errors, or another refusal.          *)
(***************************************************************************)
Deliver(r) ==
  LET a == upload[r].answer  w == upload[r].by IN
  /\ r \in listening /\ stage[r] = "answered"
  /\ \/ a.status = 201
        /\ Show(w, [step |-> "done"])
     \/ a.status = 400
        /\ Show(w, [step |-> "validated",
                    preview |-> [file |-> upload[r].file, entity |-> upload[r].entity,
                                 errors |-> a.errors]])
     \/ a.status \in {403, 500}
        /\ Show(w, [step |-> "idle", error |-> TRUE])
  /\ listening' = listening \ {r}
  /\ UNCHANGED <<upload, stage, table, known, subscribed, moved>>

(* The request or its answer is lost; the server may still store the file. *)
LoseAnswer(r) ==
  /\ r \in listening
  /\ Show(upload[r].by, [step |-> "idle", error |-> TRUE])
  /\ listening' = listening \ {r}
  /\ UNCHANGED <<upload, stage, table, known, subscribed, moved>>

--------------------------------------------------------------------------------
(* The routes.                                                             *)

(***************************************************************************)
(* parseCsvFile: the rows the schema accepts and the number of errors, or  *)
(* status 500 when the parser stops.  rowIndex counts the header, so a     *)
(* file has at most MaxRows - 1 rows; a file without a valid row has one   *)
(* error, whatever its rows.                                               *)
(***************************************************************************)
Parse(file) ==
  LET Stops == [status |-> 500, valid |-> <<>>, errors |-> 1]
      valid == Sublist(file, {i \in DOMAIN file : file[i].ok})
  IN  IF file = Malformed \/ Len(file) >= MaxRows THEN Stops
      ELSE [status |-> IF Len(valid) = Len(file) /\ file # <<>> THEN 201 ELSE 400,
            valid  |-> valid,
            errors |-> IF valid = <<>> THEN 1 ELSE Len(file) - Len(valid)]

Answer(r, status, errors) ==
  /\ upload' = [upload EXCEPT ![r].answer = [status |-> status, errors |-> errors]]
  /\ stage' = [stage EXCEPT ![r] = "answered"]

Skus(file) == {file[i].key : i \in DOMAIN file} \ {NoKey}

(* The gate of the subscription, then the parser.  *)
Receive(r) ==
  LET file == upload[r].file IN
  /\ stage[r] = "sent"
  /\ \/ /\ ~subscribed
        /\ Answer(r, 403, 0)
     \/ /\ subscribed /\ Parse(file).status # 201
        /\ Answer(r, Parse(file).status, Parse(file).errors)
     \/ /\ subscribed /\ Parse(file).status = 201
        /\ stage' = [stage EXCEPT ![r] = IF upload[r].entity = "products" /\ Skus(file) # {}
                                   THEN "check" ELSE "insert"]
        /\ UNCHANGED upload
  /\ UNCHANGED <<wizard, listening, table, known, subscribed, moved>>

StoredSkus == {table["products"][i].key : i \in DOMAIN table["products"]}

(* Faulty variant: only the first SKU of the file is looked for.  *)
CheckFirstSku(r) ==
  /\ stage[r] = "check"
  /\ known' = [known EXCEPT ![r] = Len(table["products"])]
  /\ \/ /\ upload[r].file[1].key \in StoredSkus
        /\ Answer(r, 400, 1)
     \/ /\ upload[r].file[1].key \notin StoredSkus
        /\ stage' = [stage EXCEPT ![r] = "insert"]
        /\ UNCHANGED upload
  /\ UNCHANGED <<wizard, listening, table, subscribed, moved>>

(* importProductsCsv looks for the SKUs before, and outside, the insert's *)
(* transaction.                                                           *)
CheckSkus(r) ==
  /\ stage[r] = "check"
  /\ known' = [known EXCEPT ![r] = Len(table["products"])]
  /\ \/ /\ Skus(upload[r].file) \cap StoredSkus # {}
        /\ Answer(r, 400, 1)
     \/ /\ Skus(upload[r].file) \cap StoredSkus = {}
        /\ stage' = [stage EXCEPT ![r] = "insert"]
        /\ UNCHANGED upload
  /\ UNCHANGED <<wizard, listening, table, subscribed, moved>>

NewRows(r) ==
  LET valid == Parse(upload[r].file).valid
  IN  [i \in DOMAIN valid |-> [key |-> valid[i].key, by |-> r]]

(* createMany in a transaction: every row, or none when it fails.  *)
Insert(r) ==
  /\ stage[r] = "insert"
  /\ \/ /\ Len(table[upload[r].entity]) + Len(NewRows(r)) <= MaxTable
        /\ table' = [table EXCEPT ![upload[r].entity] = @ \o NewRows(r)]
        /\ Answer(r, 201, 0)
     \/ Answer(r, 500, 0) /\ UNCHANGED table
  /\ UNCHANGED <<wizard, listening, known, subscribed, moved>>

(* The product form stores its SKU without looking for it.  *)
CreateProduct(key) ==
  /\ subscribed /\ Len(table["products"]) < MaxTable
  /\ table' = [table EXCEPT !["products"] = Append(@, [key |-> key, by |-> Absent])]
  /\ UNCHANGED <<wizard, upload, stage, listening, known, subscribed, moved>>

ImportNext ==
  \/ \E w \in Wizard :
       \/ \E f \in File : SelectFile(w, f)
       \/ \E e \in Entity : Len(table[e]) > 0 /\ SelectFile(w, Export(e))
       \/ \E e \in Entity : SwitchTab(w, e)
       \/ \E r \in Upload : Validate(w, r)
       \/ ResetFile(w)
  \/ \E r \in Upload : Receive(r) \/ CheckSkus(r) \/ Insert(r) \/ Deliver(r) \/ LoseAnswer(r)
  \/ \E key \in FormKey : CreateProduct(key)

ImportSpec == ImportInit /\ [][ImportNext]_importVars

--------------------------------------------------------------------------------
(***************************************************************************)
(* Two products have one SKU only when both came with one file, when the   *)
(* form made the later one, or when the later one's import had looked for  *)
(* its SKUs before the earlier one was there (csvService.ts 114-126).      *)
(***************************************************************************)
DuplicateSkusExplained ==
  LET p == table["products"] IN
  \A i, j \in DOMAIN p :
    i < j /\ p[i].key = p[j].key /\ p[i].key # NoKey
      => \/ p[j].by \in {p[i].by, Absent}
         \/ i > known[p[j].by]

(***************************************************************************)
(* The errors on the page are those of the file and the tab it shows,      *)
(* unless one of the two changed during a validation or under a preview.   *)
(***************************************************************************)
PreviewOfShownFile ==
  \A w \in Wizard \ moved :
    wizard[w].preview # Absent =>
      /\ wizard[w].preview.file = wizard[w].file
      /\ wizard[w].preview.entity = wizard[w].tab
      /\ wizard[w].preview.errors > 0
================================================================================
