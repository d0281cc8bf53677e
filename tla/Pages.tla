---------------------------------- MODULE Pages ---------------------------------
(***************************************************************************)
(* The pages of the dashboard.  Nearly all of them are one machine: fetch  *)
(* a list when mounted, show it when the answer comes, post a form, and    *)
(* prepend, reload, reset or leave when it succeeded; answers come in any  *)
(* order, or never, and a page that was left no longer hears them.  A page *)
(* is a record of what distinguishes it, and PagesInit picks one.          *)
(*                                                                         *)
(* An entry is what the user wants recorded once.  A row is the index of a *)
(* stored record.  The columns, labels and icons of the pages are left     *)
(* out, and so is filtering a list that is already on the page.            *)
(***************************************************************************)
EXTENDS Naturals, Sequences, FiniteSets

CONSTANTS
  Load,         \* the fetches of a list that may be in flight together
  Post,         \* the submissions, each used once
  PageSize,     \* rows of a page of the ledger
  MaxStored,    \* bound: rows stored
  MaxEntry,     \* bound: entries users make
  MaxQuery,     \* bound: texts typed into the palette; 0 is too short to search
  None

ASSUME BoundsAssumption ==
  PageSize \in Nat \ {0} /\ MaxStored \in Nat /\ MaxEntry \in Nat \ {0} /\ MaxQuery \in Nat

Fetch == [query : Nat, seen : Nat \cup {None}]
Submission == [entry : Nat, key : Nat, answer : Nat \cup {None}, heard : BOOLEAN,
               attached : BOOLEAN]

ASSUME NoneAssumption == None \notin Nat /\ None \notin Fetch /\ None \notin Submission

--------------------------------------------------------------------------------
(***************************************************************************)
(* The forms.                                                              *)
(*   place      in a modal of the list, part of the page, or none          *)
(*   byUrl      ?new=true opens it; dropsNew: closing it drops ?new=true   *)
(*   ownSaving  `saving` belongs to the form, and goes when it is closed   *)
(*   fits       its body passes the schema of the route it is posted to    *)
(*   keyed      it sends an idempotency key                                *)
(*   drafts     none; left, or deleted with the draftId it sends           *)
(*   after      what a success does                                        *)
(***************************************************************************)
CustomerForm ==
  [place |-> "modal", byUrl |-> TRUE, dropsNew |-> TRUE, ownSaving |-> TRUE,
   fits |-> TRUE, keyed |-> FALSE, drafts |-> "deleted", after |-> "prepend"]

(* No draftId is sent and clearDraft is not called; closing keeps the URL. *)
ProductForm == [CustomerForm EXCEPT !.drafts = "left", !.dropsNew = FALSE]

SupplierForm == [CustomerForm EXCEPT !.drafts = "left", !.dropsNew = FALSE]

(* The body has no warehouseId, which the route requires.  *)
PurchaseForm == [CustomerForm EXCEPT !.byUrl = FALSE, !.fits = FALSE]

WarehouseForm ==
  [CustomerForm EXCEPT !.byUrl = FALSE, !.ownSaving = FALSE, !.drafts = "none",
                       !.after = "reload"]

LocationForm == WarehouseForm

PaymentForm == [CustomerForm EXCEPT !.place = "page", !.byUrl = FALSE, !.after = "leave"]

DocumentForm == [PaymentForm EXCEPT !.keyed = TRUE]

AdjustmentForm == [DocumentForm EXCEPT !.drafts = "none", !.after = "again"]

(* Duplicate and Convert: a button instead of a form.  *)
DocumentActions == [PaymentForm EXCEPT !.drafts = "none"]

NoForm == [DocumentActions EXCEPT !.place = "none"]

(***************************************************************************)
(* The pages.  A list has one query, or is turned by the pager's buttons,  *)
(* or searched with a debounce that drops the answers to earlier texts.    *)
(***************************************************************************)
CustomersPage     == [name |-> "customers", turns |-> "never", form |-> CustomerForm]
ProductsPage      == [name |-> "products", turns |-> "never", form |-> ProductForm]
SuppliersPage     == [name |-> "suppliers", turns |-> "never", form |-> SupplierForm]
PurchasesPage     == [name |-> "purchases", turns |-> "never", form |-> PurchaseForm]
WarehousesPage    == [name |-> "warehouses", turns |-> "never", form |-> WarehouseForm]
LocationsOfPage   == [name |-> "locations", turns |-> "never", form |-> LocationForm]
NewPaymentPage    == [name |-> "payments/new", turns |-> "never", form |-> PaymentForm]
NewDocumentPage   == [name |-> "invoices/new", turns |-> "never", form |-> DocumentForm]
AdjustmentsPage   == [name |-> "adjustments", turns |-> "never", form |-> AdjustmentForm]
InvoiceDetailPage == [name |-> "invoices/[id]", turns |-> "never", form |-> DocumentActions]
PaymentDetailPage == [name |-> "payments/[id]", turns |-> "never", form |-> NoForm]
InvoicesPage      == [name |-> "invoices", turns |-> "never", form |-> NoForm]
PaymentsPage      == [name |-> "payments", turns |-> "never", form |-> NoForm]
StockPage         == [name |-> "stock", turns |-> "never", form |-> NoForm]
InventoryPage     == [name |-> "inventory", turns |-> "never", form |-> NoForm]
LedgerPage        == [name |-> "ledger", turns |-> "pager", form |-> NoForm]
CommandPalette    == [name |-> "palette", turns |-> "search", form |-> NoForm]

Page ==
  {CustomersPage, ProductsPage, SuppliersPage, PurchasesPage, WarehousesPage,
   LocationsOfPage, NewPaymentPage, NewDocumentPage, AdjustmentsPage, InvoiceDetailPage,
   PaymentDetailPage, InvoicesPage, PaymentsPage, StockPage, InventoryPage, LedgerPage,
   CommandPalette}

VARIABLES
  page,         \* the page this behaviour is about
  mounted,      \* it is on the screen
  list,         \* [rows, of, query, total, loading, failed]
  loads,        \* the fetches in flight: [query, seen], or None
  form,         \* [open, isNew, saving, entry, key]
  posts,        \* the submissions: [entry, key, answer, heard, attached], or None
  stored,       \* the rows of the database: [entry, key]
  draft,        \* the entry in the stored draft of this form, or 0
  entries,      \* the entries made so far
  history       \* [told, made, lost, recovered, mixed, raced], for the properties

pagesVars == <<page, mounted, list, loads, form, posts, stored, draft, entries, history>>

Form == page.form
NoLoads == [l \in Load |-> None]
Loading == {l \in Load : loads[l] # None}
Heard == {p \in Post : posts[p] # None /\ posts[p].heard}

KeyOf(entry) == IF Form.keyed THEN entry ELSE 0

PagesInit ==
  /\ page \in Page
  /\ mounted = FALSE
  /\ list = [rows |-> <<>>, of |-> 0, query |-> 0, total |-> 0, loading |-> FALSE,
             failed |-> FALSE]
  /\ loads = NoLoads
  /\ form = [open |-> FALSE, isNew |-> FALSE, saving |-> FALSE, entry |-> 0, key |-> 0]
  /\ posts = [p \in Post |-> None]
  /\ stored = <<>>
  /\ draft = 0
  /\ entries = 0
  /\ history = [told |-> {}, made |-> {}, lost |-> {}, recovered |-> {},
                mixed |-> FALSE, raced |-> FALSE]

--------------------------------------------------------------------------------
(* Mounting and leaving.                                                   *)

(* A blank form is the next entry, under a key of its own.  *)
Blank(entry, isNew) ==
  [open |-> TRUE, isNew |-> isNew, saving |-> FALSE, entry |-> entry, key |-> KeyOf(entry)]

Closed(isNew) ==
  [open |-> FALSE, isNew |-> isNew, saving |-> FALSE, entry |-> 0, key |-> 0]

(***************************************************************************)
(* A link, or one of the palette's, to the page: mounts it and fetches its *)
(* list.  On a page that is there it only changes ?new=true, and the       *)
(* effect on isNew opens the form when that has just become true.          *)
(***************************************************************************)
Go(new) ==
  LET opens == \/ ~mounted /\ (Form.place = "page" \/ (Form.place = "modal" /\ new))
               \/ mounted /\ new /\ ~form.isNew /\ ~form.open
  IN
  /\ new => Form.byUrl
  /\ mounted => Form.byUrl
  /\ opens => entries < MaxEntry
  /\ mounted' = TRUE
  /\ entries' = IF opens THEN entries + 1 ELSE entries
  /\ form' = IF opens THEN Blank(entries + 1, new)
             ELSE IF mounted THEN [form EXCEPT !.isNew = new] ELSE Closed(new)
  /\ IF mounted THEN UNCHANGED <<list, loads, history>>
     ELSE /\ \E l \in Load :
               loads' = IF page.turns = "search" THEN NoLoads
                        ELSE [NoLoads EXCEPT ![l] = [query |-> 1, seen |-> None]]
          /\ list' = [rows |-> <<>>, of |-> 0, total |-> 0, failed |-> FALSE,
                      query |-> IF page.turns = "search" THEN 0 ELSE 1,
                      loading |-> page.turns # "search"]
          /\ history' = [history EXCEPT !.made = {}, !.mixed = FALSE, !.raced = FALSE]
  /\ UNCHANGED <<page, posts, stored, draft>>

Unmount ==
  /\ mounted' = FALSE
  /\ loads' = NoLoads
  /\ form' = Closed(FALSE)

Leave ==
  /\ mounted
  /\ Unmount
  /\ posts' = [p \in Post |-> IF posts[p] = None THEN None ELSE [posts[p] EXCEPT !.heard = FALSE]]
  /\ history' = [history EXCEPT !.lost = @ \cup {posts[p].entry : p \in Heard}]
  /\ UNCHANGED <<page, list, stored, draft, entries>>

--------------------------------------------------------------------------------
(* The list.                                                               *)

(* Faulty variant: the palette does not forget the searches before.  *)
StartLoadKeeping(l, query) ==
  /\ loads[l] = None
  /\ loads' = [loads EXCEPT ![l] = [query |-> query, seen |-> None]]
  /\ list' = [list EXCEPT !.query = query, !.loading = TRUE, !.failed = FALSE]

StartLoad(l, query) ==
  /\ loads[l] = None
  /\ loads' = [IF page.turns = "search" THEN NoLoads ELSE loads
                 EXCEPT ![l] = [query |-> query, seen |-> None]]
  /\ list' = [list EXCEPT !.query = query, !.loading = TRUE, !.failed = FALSE]

(* What a new fetch means for the history: did it meet another, or a post? *)
Meets(hearing) ==
  [history EXCEPT !.mixed = page.turns # "search" /\ Loading # {},
                  !.raced = @ \/ hearing # {}]

(* Previous and Next: the pager is there, and enabled, while it loads.  *)
TurnPage(query) ==
  /\ mounted /\ page.turns = "pager"
  /\ list.total > PageSize
  /\ \/ query = list.query - 1 /\ query > 0
     \/ query = list.query + 1 /\ list.query * PageSize < list.total
  /\ \E l \in Load : StartLoad(l, query)
  /\ history' = Meets(Heard)
  /\ UNCHANGED <<page, mounted, form, posts, stored, draft, entries>>

(* The text of the palette changes; a failure is not forgotten when the    *)
(* text gets too short to search.                                          *)
Type(query) ==
  /\ mounted /\ page.turns = "search" /\ query # list.query
  /\ \/ /\ query = 0
        /\ loads' = NoLoads
        /\ list' = [list EXCEPT !.query = 0, !.of = 0, !.rows = <<>>, !.loading = FALSE]
     \/ /\ query > 0
        /\ \E l \in Load : StartLoad(l, query)
  /\ UNCHANGED <<page, mounted, form, posts, stored, draft, entries, history>>

(* The routes' reads: the rows committed when the query runs.  *)
Read(l) ==
  /\ loads[l] # None /\ loads[l].seen = None
  /\ loads' = [loads EXCEPT ![l].seen = Len(stored)]
  /\ UNCHANGED <<page, mounted, list, form, posts, stored, draft, entries, history>>

(* The rows of an answer, newest first; skip and take for the ledger.  *)
Listing(query, n) ==
  IF page.turns # "pager" THEN [i \in 1 .. n |-> n + 1 - i]
  ELSE LET skip == (query - 1) * PageSize
           rest == IF n > skip THEN n - skip ELSE 0
       IN  [i \in 1 .. (IF rest < PageSize THEN rest ELSE PageSize) |-> rest + 1 - i]

LoadAnswer(l) ==
  /\ loads[l] # None /\ loads[l].seen # None
  /\ list' = [list EXCEPT !.rows = Listing(loads[l].query, loads[l].seen),
                          !.of = loads[l].query, !.total = loads[l].seen, !.loading = FALSE]
  /\ loads' = [loads EXCEPT ![l] = None]
  /\ UNCHANGED <<page, mounted, form, posts, stored, draft, entries, history>>

(* The old rows stay, except in the palette, which shows the failure.  *)
LoadFails(l) ==
  /\ loads[l] # None
  /\ list' = [list EXCEPT !.loading = FALSE, !.failed = (page.turns = "search")]
  /\ loads' = [loads EXCEPT ![l] = None]
  /\ history' = [history EXCEPT !.mixed = @ \/ page.turns # "search"]
  /\ UNCHANGED <<page, mounted, form, posts, stored, draft, entries>>

--------------------------------------------------------------------------------
(* The form.                                                               *)

OpenForm ==
  /\ mounted /\ Form.place = "modal" /\ ~form.open /\ entries < MaxEntry
  /\ entries' = entries + 1
  /\ form' = [Blank(entries + 1, form.isNew) EXCEPT !.saving = form.saving]
  /\ UNCHANGED <<page, mounted, list, loads, posts, stored, draft, history>>

(* What a closed form has posted says no more to the `saving` of the next. *)
Detach(ps) ==
  [p \in Post |-> IF ps[p] = None \/ ~Form.ownSaving THEN ps[p]
                  ELSE [ps[p] EXCEPT !.attached = FALSE]]

CloseForm ==
  /\ mounted /\ Form.place = "modal" /\ form.open
  /\ form' = [Closed(form.isNew /\ ~Form.dropsNew)
                EXCEPT !.saving = form.saving /\ ~Form.ownSaving]
  /\ posts' = Detach(posts)
  /\ UNCHANGED <<page, mounted, list, loads, stored, draft, entries, history>>

(* The fields change: another entry, under the key of the form.  *)
Edit ==
  /\ mounted /\ form.open /\ entries < MaxEntry
  /\ entries' = entries + 1
  /\ form' = [form EXCEPT !.entry = entries + 1]
  /\ UNCHANGED <<page, mounted, list, loads, posts, stored, draft, history>>

Autosave ==
  /\ mounted /\ form.open /\ ~form.saving /\ Form.drafts # "none"
  /\ draft # form.entry
  /\ draft' = form.entry
  /\ UNCHANGED <<page, mounted, list, loads, form, posts, stored, entries, history>>

(* The draft of an entry that may be stored, as far as its user was told.  *)
MayBeStored(entry) ==
  \/ Form.drafts = "left" \/ entry \in history.lost
  \/ \E p \in Post : posts[p] # None /\ posts[p].entry = entry /\ posts[p].answer = None

(* DraftRecoveryBanner puts the stored draft into the form.  *)
Recover ==
  /\ mounted /\ form.open /\ ~form.saving /\ draft \notin {0, form.entry}
  /\ form' = [form EXCEPT !.entry = draft]
  /\ history' = [history EXCEPT !.recovered = IF MayBeStored(draft) THEN @ \cup {draft} ELSE @]
  /\ UNCHANGED <<page, mounted, list, loads, posts, stored, draft, entries>>

(* Faulty variant: the button stays enabled while the form is saving.  *)
SubmitAgain(p) ==
  /\ mounted /\ form.open /\ posts[p] = None
  /\ posts' = [posts EXCEPT ![p] = [entry |-> form.entry, key |-> form.key, answer |-> None,
                                    heard |-> TRUE, attached |-> TRUE]]
  /\ form' = [form EXCEPT !.saving = TRUE]
  /\ history' = [history EXCEPT !.raced = @ \/ Loading # {}]
  /\ UNCHANGED <<page, mounted, list, loads, stored, draft, entries>>

SubmitForm(p) ==
  /\ mounted /\ form.open /\ ~form.saving /\ posts[p] = None
  /\ posts' = [posts EXCEPT ![p] = [entry |-> form.entry, key |-> form.key, answer |-> None,
                                    heard |-> TRUE, attached |-> TRUE]]
  /\ form' = [form EXCEPT !.saving = TRUE]
  /\ history' = [history EXCEPT !.raced = @ \/ Loading # {}]
  /\ UNCHANGED <<page, mounted, list, loads, stored, draft, entries>>

RowsWithKey(key) == {r \in DOMAIN stored : key # 0 /\ stored[r].key = key}

(* The route: refuses, answers with the row of the key, or stores a row.   *)
(* A row is never 0, and 0 stands for a refusal.                           *)
Serve(p) ==
  /\ posts[p] # None /\ posts[p].answer = None
  /\ \/ /\ posts' = [posts EXCEPT ![p].answer = 0]
        /\ UNCHANGED <<stored, draft>>
     \/ /\ Form.fits
        /\ \E r \in RowsWithKey(posts[p].key) : posts' = [posts EXCEPT ![p].answer = r]
        /\ UNCHANGED <<stored, draft>>
     \/ /\ Form.fits /\ RowsWithKey(posts[p].key) = {} /\ Len(stored) < MaxStored
        /\ stored' = Append(stored, [entry |-> posts[p].entry, key |-> posts[p].key])
        /\ posts' = [posts EXCEPT ![p].answer = Len(stored) + 1]
        /\ draft' = IF Form.drafts = "deleted" THEN 0 ELSE draft
  /\ UNCHANGED <<page, mounted, list, loads, form, entries, history>>

(* Someone else's row.  *)
Arrive ==
  /\ Len(stored) < MaxStored
  /\ stored' = Append(stored, [entry |-> 0, key |-> 0])
  /\ UNCHANGED <<page, mounted, list, loads, form, posts, draft, entries, history>>

Deaf(p) == posts' = [posts EXCEPT ![p].heard = FALSE]

(* `finally`: saving ends, if the form that posted is the one shown.  *)
Unsaved(p) == form' = [form EXCEPT !.saving = @ /\ ~posts[p].attached]

HearRefusal(p) ==
  /\ p \in Heard /\ posts[p].answer = 0
  /\ Deaf(p) /\ Unsaved(p)
  /\ UNCHANGED <<page, mounted, list, loads, stored, draft, entries, history>>

LosePost(p) ==
  /\ p \in Heard
  /\ Deaf(p) /\ Unsaved(p)
  /\ history' = [history EXCEPT !.lost = @ \cup {posts[p].entry}]
  /\ UNCHANGED <<page, mounted, list, loads, stored, draft, entries>>

Told(p, h) ==
  [h EXCEPT !.told = @ \cup {<<posts[p].entry, posts[p].answer>>},
            !.made = @ \cup {posts[p].answer}]

(* onSave closes the modal, also one that was opened again meanwhile.  *)
ModalDone(p) ==
  /\ form' = [Closed(form.isNew /\ ~Form.dropsNew)
                EXCEPT !.saving = form.saving /\ ~Form.ownSaving /\ ~posts[p].attached]
  /\ posts' = Detach([posts EXCEPT ![p].heard = FALSE])

(***************************************************************************)
(* The four things a page does with a success.                             *)
(***************************************************************************)
Prepend(p) ==
  /\ Form.after = "prepend"
  /\ list' = [list EXCEPT !.rows = <<posts[p].answer>> \o @]
  /\ ModalDone(p)
  /\ history' = Told(p, history)
  /\ UNCHANGED <<mounted, loads, entries>>

(* Faulty variant: the modal closes, and nothing is fetched again.  *)
ReloadNothing(p) ==
  /\ Form.after = "reload"
  /\ ModalDone(p)
  /\ history' = Told(p, history)
  /\ UNCHANGED <<mounted, list, loads, entries>>

Reload(p) ==
  /\ Form.after = "reload"
  /\ \E l \in Load : StartLoad(l, list.query)
  /\ ModalDone(p)
  /\ history' = Told(p, Meets(Heard \ {p}))
  /\ UNCHANGED <<mounted, entries>>

LeaveForRow(p) ==
  /\ Form.after = "leave"
  /\ Unmount
  /\ Deaf(p)
  /\ history' = Told(p, history)
  /\ UNCHANGED <<list, entries>>

StartAgain(p) ==
  /\ Form.after = "again" /\ entries < MaxEntry
  /\ entries' = entries + 1
  /\ form' = Blank(entries + 1, FALSE)
  /\ Deaf(p)
  /\ history' = Told(p, history)
  /\ UNCHANGED <<mounted, list, loads>>

HearSuccess(p) ==
  /\ p \in Heard /\ posts[p].answer \notin {None, 0}
  /\ Prepend(p) \/ Reload(p) \/ LeaveForRow(p) \/ StartAgain(p)
  /\ UNCHANGED <<page, stored, draft>>

PagesNext ==
  \/ \E new \in BOOLEAN : Go(new)
  \/ Leave
  \/ \E query \in 1 .. MaxStored : TurnPage(query)
  \/ \E query \in 0 .. MaxQuery : Type(query)
  \/ \E l \in Load : Read(l) \/ LoadAnswer(l) \/ LoadFails(l)
  \/ OpenForm \/ CloseForm \/ Edit \/ Autosave \/ Recover
  \/ \E p \in Post : SubmitForm(p) \/ Serve(p) \/ HearRefusal(p) \/ HearSuccess(p) \/ LosePost(p)
  \/ Arrive

PagesSpec == PagesInit /\ [][PagesNext]_pagesVars

--------------------------------------------------------------------------------
Visible == mounted /\ ~list.loading /\ ~list.failed

(***************************************************************************)
(* The rows on the screen answer the query on the screen.  Only the ledger *)
(* can show another page's rows, when a fetch failed or two overlapped;    *)
(* the palette drops the answers to what was typed before.                 *)
(***************************************************************************)
RowsOfQuery == Visible /\ ~history.mixed => list.of = list.query

(***************************************************************************)
(* A row the page was told it created is in its list, once, unless a fetch *)
(* of the list failed, or overlapped the submission or another fetch.      *)
(***************************************************************************)
CreatedRowShown ==
  Visible /\ Form.place = "modal" /\ Loading = {} /\ ~history.mixed /\ ~history.raced =>
    \A r \in history.made : Cardinality({i \in DOMAIN list.rows : list.rows[i] = r}) = 1

(***************************************************************************)
(* An entry is recorded at most once, unless a form without a key was sent *)
(* again after a lost answer, or its draft was recovered when the entry    *)
(* could have been stored: the product and supplier forms leave it behind. *)
(* And a success is about the entry sent, unless that was edited after a   *)
(* lost answer, when the key brings back the row of the first attempt.     *)
(***************************************************************************)
OncePerEntry ==
  /\ \A r, s \in DOMAIN stored :
       r # s /\ stored[r].entry = stored[s].entry /\ stored[r].entry # 0 =>
         \/ ~Form.keyed /\ stored[r].entry \in history.lost
         \/ stored[r].entry \in history.recovered
  /\ \A told \in history.told :
       \/ stored[told[2]].entry = told[1]
       \/ Form.keyed /\ stored[told[2]].entry \in history.lost
================================================================================
