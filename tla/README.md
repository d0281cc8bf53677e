# Formal models of EZBillz Lite

EZBillz Lite is a billing and inventory application: Next.js route handlers
over one PostgreSQL database, reached with Prisma. This directory holds TLA+
models of the part of it that is hard to get right by testing: what happens
when the handlers that move stock, money and document numbers run at the same
time, fail half way, or are called again; what the pages show and send while
answers are late or lost; who is let in; and whether the amounts, rounded at
every step, still add up. The models are checked with TLC on small instances,
and every safety property the runs check is also proved with TLAPS, for
instances of any size.

Paths below are relative to the root of the repository (`src/server/...`).

## 1. The system

### 1.1 Components

| Component | Code | State it keeps | Operations |
|---|---|---|---|
| Stock ledger | `src/server/inventoryService.ts`, `src/app/api/inventory/adjust` | `StockMovement` (append-only), `StockBalance` (one row per product, warehouse, location) | `recordStockMovement`, `initializeDefaultWarehouse`, adjust |
| Purchases | `src/app/api/purchases` | `Purchase`, `PurchaseItem` | record a bill, receive its goods |
| Sales documents | `src/server/invoiceService.ts`, `src/app/api/invoices/**` | `Invoice`, `InvoiceItem`, `Organization.{invoice,quotation,challan}NextSeq` | create, convert a quotation, duplicate |
| Payments | `src/server/paymentService.ts`, `src/app/api/payments` | `Payment`, `Organization.receiptNextSeq`, `amountPaid` of invoices and bills | `createPayment` |
| Warehouses, locations | `src/app/api/inventory/{warehouses,locations}` | `Warehouse.isActive/isDefault`, `Location` | create, rename, archive, make default |
| Drafts | `src/app/api/drafts`, `src/hooks/useAutoSave.ts` | `Draft.version/payload`; in the page: refs, a timer, an in-flight flag | save, conflict, reload, recover, discard, delete on submit |
| GST engine | `src/lib/gst/engine.ts` | none | amounts of a line and of a document |
| Sessions | `src/lib/auth/options.ts`, `src/app/api/auth/signup` | `User.sessionVersion`, the JWT | sign up, sign in, every request, sign out |
| Rate limiter | `src/proxy.ts` | a map of at most 10000 windows | count a request, evict |
| Subscription gate | `src/server/subscription.ts` | `Subscription` | read, compare with the clock |
| Tenancy | `src/server/tenant.ts` | `Membership` | resolve the organization of a session |
| CSV | `src/server/csvService.ts`, `src/components/inventory/CsvImporter.tsx` | rows of the catalog; in the page: file, step, preview | validate (which imports), reset, export |
| Catalog | `src/app/api/{products,customers,suppliers}` | their rows | create, list |
| Reports | `src/app/(dashboard)/{dashboard,reports/**}`, `src/app/api/inventory/summary` | none | queries over documents, payments and stock |
| Pages | `src/app/(dashboard)/**`, `src/components/ui` | a list, a form, requests under way | fetch, page through, search, post, recover |
| PDF, storage, settings, recent history | the rest | | rendering, I/O, single overwritten values |

### 1.2 How they interact

The pages save their forms as drafts while they are filled and submit them to
the handlers, which delete the draft with the document they create. A request
to `/api/auth/` passes the rate limiter first; a request to any other handler
passes the session (`sessionVersion`), the membership and, if it creates
something, the subscription, each read before the handler's own transaction.
Nothing in the server is shared in memory but the rate limiter's map: the
handlers meet in the database. Each write handler runs one interactive Prisma
transaction at PostgreSQL's default isolation, READ COMMITTED, and calls a
service inside it:

    POST inventory/adjust ──────────────┐
    POST purchases ── items, receipts ──┼─> recordStockMovement ─> StockBalance, StockMovement
    POST invoices ─┐                    │
    POST duplicate ┼─> createInvoice ───┘   (tax invoices only)
    POST convert ──┘        └─> Organization row (numbers), Invoice rows
    POST payments ───> createPayment ─────> Invoice/Purchase rows, Organization row, Payment rows

The stock report, the dashboard and the product list add up `StockMovement`;
the inventory pages and their summary read `StockBalance`; the GST summary adds
up issued documents by header and by item; the outstanding report reads `amountPaid`,
the receipts page reads `Payment`. The write side has to keep each pair in step.

### 1.3 What is hard

* **Interleaving.** READ COMMITTED gives each statement its own snapshot. A
  check in one statement may be stale in the next, unless a row lock taken
  before it is still held. Which checks are covered by a lock, and which are
  not, is the heart of the models.
* **Partial failure.** A transaction may die at any statement: shortage of
  stock, an archived warehouse, Prisma's timeout, a deadlock. Whatever it wrote
  must vanish, in every table, with the number it claimed.
* **Retries and double clicks.** Adjustments and documents carry an idempotency
  key, payments may, purchases do not.
* **Asynchronous pages.** A form has a timer, an effect, a save, a submission and
  a deletion under way at once; answers are late or lost; two tabs may hold one
  draft.
* **Waiting.** Requests queue for product rows, documents and the Organization
  row, and can wait for each other in a circle.
* **Checks made earlier.** The session, the subscription, the default warehouse
  and the SKUs of a file are read in a statement of their own; what changes
  before the write is not noticed.
* **Rounding.** Paise are rounded per line, per half of the tax, per column and
  per document; a bill and a document do it differently.
* **Boundaries.** The last unit in stock, the last rupee outstanding, a full Map,
  the border of two windows.

`PROJECT.json` lists the hazards one by one, at the line where each bites, with
the properties that catch it or the reason none does yet.

## 2. The modules

| Module | What it is |
|---|---|
| `RowLocks` | external: what the services rely on PostgreSQL for (exclusive row locks, deadlock detection) |
| `StockLedger` | `recordStockMovement` under its three callers |
| `Ledger` | what StockLedger implements: a ledger in which a posting is one step |
| `Payments` | `createPayment` |
| `Invoicing` | `createInvoice` under its three routes |
| `NumberedBook` | what Payments and Invoicing implement: a book whose entries are numbered without gap and added one at a time |
| `Drafts` | the forms with `useAutoSave`, the drafts routes, and the submission that consumes a draft |
| `Gst`, `Books` | the GST engine as operators; documents, copies, bills and payments priced by it, and the reports over them |
| `RateLimiter`, `Access` | the proxy's map of windows; sign-up, sign-in, sign-out and the three checks before a write, on top of it |
| `Warehouses` | warehouses, their default, locations |
| `Import` | CSV files, the wizard that uploads them, the routes that store them |
| `Pages` | the pages of the dashboard as one machine |
| `Sublists` | the part of a sequence at some of its positions, for what the code filters |
| `MC...` | the instances for TLC, one for each module with a run |
| `StockLedgerProofs`, `PaymentsProofs`, `InvoicingProofs`, `DraftsProofs`, `BooksProofs`, `AccessProofs`, `DashboardProofs` | the proofs, each of the module it is named after; `AccessProofs` also has those of `RateLimiter`, and `DashboardProofs` is about `Warehouses`, `Import` and `Pages` |
| `Sums` | lemmas about sums over finite sets and sequences, and about `Sublists`, which five of them use |

`Books` extends `Gst` and `Access` extends `RateLimiter`; StockLedger, Payments,
Invoicing and Warehouses extend `RowLocks`; StockLedger instantiates `Ledger`,
Payments and Invoicing instantiate `NumberedBook`, as what they implement.
Where the code filters an array, StockLedger, RateLimiter and Import write
`Sublist(s, K)`, the elements of `s` at the positions `K`: the library's
`SelectSeq` is recursive, and the provers know nothing of it. Where it adds up,
all modules use the folds of the library.

### 2.1 Conventions of the server modules

*A request is an element of `Request`*, handled once; a retry or a second click
is another request with the same body. Bodies are drawn in `Init` from the set
`Body`, so that a behaviour is about a fixed set of requests, any of which may
never arrive.

*One action is one SQL statement* (reads in a row that no property tells apart
are one action). `pc[r]` is the statement request `r` executes next; the action
of a statement has the guard under which the code goes on, and a `Refuse...`
action has the negated guard and rolls back.

*READ COMMITTED.* The variables named after tables hold what is committed. A
transaction's own writes are kept apart until `Commit` (`delta` and `inserted`
in StockLedger; in the other two modules they follow from `pc`, and the helpers
say how). Every read is of the committed tables and of the transaction's own
writes, at the time of the statement.

*Locks.* An `UPDATE` of a row keeps it until the transaction ends; another
`UPDATE` of it waits, then judges its `WHERE` on the committed row. That is why
`RefuseOverpayment` and `RefuseShortage` look at committed values only. `SELECT ... FOR
UPDATE` on a product conflicts with the KEY SHARE lock that inserting an item
with a foreign key to it takes. An UPDATE of the columns concerned here does not conflict
with KEY SHARE, so foreign keys to the Organization and to invoices never wait.

*Failure.* `Timeout(r)` lets a transaction die at any statement;
`DeadlockVictim(r)` aborts a member of a circular wait.

### 2.2 StockLedger

`Submit`, then: for a tax invoice `ClaimNumber` (the Organization row), for an
invoice or a bill `InsertItem` once per line, and for every posting

    ReadWarehouse -> LockProduct -> FindMovement -> TakeOut | PutIn -> InsertMovement

where `FindMovement` may skip the posting as already applied, and
`RefuseWarehouse`, `RefuseQuantity`, `RefuseShortage` end it. `Postings` is the
difference between the callers: a bill adds up its lines per product, an invoice
does not. `SetActive` archives a warehouse at any time. Quantities are integers
and stand for thousandths; the tables are `stockBalance` and `stockMovement`.

### 2.3 Payments

`FindPayment -> CheckParties -> SettleDocument -> ClaimReceipt -> InsertPayment
-> Commit`. `Settled(body)` is the document a payment counts for: the invoice of
money received, the bill of money paid, nothing otherwise. `ours` in a body says
whether the customer, the supplier and the document belong to the organization.
Amounts are whole; invoices and bills are one set of documents, which is sound
because their tables are updated by the same statement and share no other state.

### 2.4 Invoicing

Creation starts at `FindInvoice`; a conversion at `ReadQuotation`, a duplication
at `ReadOriginal`; then `Lookup -> ClaimNumber -> InsertInvoice -> IssueStock ->
MarkQuotation -> Commit`, leaving out what does not apply. A document has the
id of the request that makes it, so a request may convert or duplicate what
another one creates during the behaviour. In a conversion all of
this is one transaction; in the other two routes the statements before
`ClaimNumber` run outside it, which makes no difference to what they see.
`IssueStock` either succeeds or fails; how is StockLedger's business.

### 2.5 Drafts

Here the processes are pages: mounts of one form, of one user, in any tab. A
page's variables are the hook's refs and state (`draftId`, `version`,
`lastSaved`, `status`, `timer`) and its requests under way (`save`,
`submission`, `removal`), each with the stage it has reached; a `save` that is
not `"none"` is `savingRef`. The actions are what the user does (`Open`, `Edit`,
`Recover`, `Discard`, `Submit`, `Unmount`), the callbacks of the browser
(`RunEffect`, `Fire`, one per answer), the statements of the routes
(`CreateDraft`; `ReadDraft` and then `WriteDraft`, which are two statements
outside any transaction; `CreateDocument`; `DeleteDraft`) and the losses of the
network.

React decides when the hook's effect runs. After an event of the user it runs
before anything else, so it is part of `Edit`, `Recover` and `Submit`; after an
answer it runs later (`due`). It runs only when a dependency changed, and this
is where the forms differ: `DocumentForm` and the purchase form build `data`
anew at each render (`FreshData`), the others pass their state object, which
changes by edits only. `SendsDraft` tells the forms that submit their `draftId`
and call `clearDraft` from the two that do not. `Kept` is what the route's
allowlist lets through. A submission is one step here and is what the other
modules are about; the form's idempotency key makes its retry a replay.
A request given up by the browser is not executed later, and the draft id a
click submits is the one the hook holds, not one render older.

### 2.6 Gst and Books

`Gst` translates `lib/gst/engine.ts` operator by operator, in paise: the gross
and the net of a line, its taxable value and tax (on top of the price or inside
it), the split into CGST and SGST or IGST, and the document with its round-off.
The engine multiplies floats; the model multiplies integers and takes the
products as exact, so it says nothing of a product that is a half in decimal
and just below it in binary.

In `Books` each action is a committed transaction: `Issue`, `Duplicate` and
`Convert` price their lines with the organization's state of that moment
(`MoveSeller` changes it), copies from `StoredLines`, which have lost
`priceIncludesTax`; `Receive` pays part of a document; `RecordBill` computes
the totals of a bill, which the columns round one by one. The form's live total
(`Estimate`) and the queries of the dashboard, the GST summary and the
outstanding report are operators over the same rows.

### 2.7 RateLimiter and Access

`RateLimiter.Knock` is one call of `isRateLimited`: make room in the Map, count,
answer. The Map is a sequence in its iteration order. A restart empties it.
`Access` is what devices do with it: each sign-up, sign-in and sign-out is a
request to `/api/auth/` and knocks first. Sign-up looks the address up, hashes
(`hashing`), and inserts; sign-in reads the user's row, verifies (`verifying`),
and is issued a token that is compared with the row at once; `SignOut` raises
the user's version. A write is `Send`, `Admit` (session and membership), `Gate`
(subscription), `Write`, with anything in between. Passwords are not modelled:
an attempt fails or not.

### 2.8 Warehouses

One action per statement, as in the server modules. `SnapshotDefaults` and
`ResetDefaults` are the two halves of an `updateMany`: it finds its rows in the
snapshot, waits for those another transaction has updated, and looks at them
again. `ensure` stands for the start of a tax invoice's transaction, which calls
`initializeDefaultWarehouse`; the rest of that transaction either commits or
aborts. The bodies include what the pages send, an edit without an id, which the
route refuses, and what its schema accepts from other clients.

### 2.9 Import

The wizard's state is `file`, `step`, `preview` and the tab it is under; its
"Validate File" posts the file to the route that imports it, so a valid file is
stored and only a faulty one comes back as a preview. A row is whether its
schema accepts it and one cell. `Parse` gives the parser's verdict, `CheckSkus`
and `Insert` are the two reads and writes of a product import, `CreateProduct`
the product form beside it, `Export` a file that may be selected again
(`EscapeFormula` quotes what looks like a formula, and nothing unquotes it).
An upload is at a `stage` of its route, and `Absent` where there is no file, no
upload or no answer yet. `Import`, `Pages` and `Warehouses` are proved about
together, so the first two name their parts `ImportInit`, `PagesInit`, and so on.
The wizard's second button is never offered: a preview always has errors.

### 2.10 Pages

Nearly all pages do the same: fetch a list, show it, post a form, and prepend,
reload, reset or leave when it succeeded. `Pages` has this once, and a record
per page for what differs: whether the form is a modal, is opened by
`?new=true`, owns its `saving` flag, passes the schema of its route, sends a
key, saves drafts and deletes them, and what a success does. `PagesInit` chooses
the page. Answers come in any order or not at all; a page that was left hears none;
`attached` says whether the form that posted is the one on the screen
(`SubmitForm` sets it, `Detach` ends it, whether the user closes the modal or a
success that comes late does). The drafts are one per page here, because what
is asked is only whether an entry is recorded twice; how they are saved is the
subject of Drafts.

## 3. What is checked

| Run | Instance | What it shows |
|---|---|---|
| `stock_mixed` | 3 requests, 2 products, 2 warehouses, 1 location, 7 bodies | balances never negative; the two tables agree, and so do the report and the summary that read them; the idempotency check stays true; bills and sales post all of what they owe or nothing; an adjustment key counts once; StockLedger implements Ledger |
| `stock_live` | 3 requests, 2 products, bodies that queue in opposite orders | every request is answered |
| `payments` | 3 requests, an invoice of 3, a bill of 2, 8 bodies | nothing overpaid; amounts paid explained by payments; answered means recorded once; refusals right; Payments implements NumberedBook; every request is answered |
| `invoicing` | 3 requests, 1 quotation, 2 keys, 8 bodies: every route and each other's documents | a key has one document; marks and links tell the truth; Invoicing implements NumberedBook; every request is answered |
| `invoicing_convert` | 2 or 3 conversions of one quotation | **violated**: two succeed |
| `drafts_mixed` | 2 pages, 2 drafts, 2 moves (edits and submissions) a page, a reliable network | what is called saved is stored; a conflict means another page; a submitted draft is gone and stays gone; drafts go for no other reason |
| `drafts_live` | 1 page with `FreshData`, 3 moves, a network that loses | an edit is saved or the user is told; a save that failed for the network is retried |
| `books` | 2 documents of 1 or 2 lines out of 6 forms, 1 bill, 2 states, payments of the balance or a paisa less | line totals and round-off add up to what is charged, an inclusive price is charged exactly; the form's estimate is within two and a half paise a line; a copy costs the same, or more when a price included the tax; a bill's header is off by a paisa at most; the three reports differ by what their queries leave out |
| `access` | 2 devices, one address typed in two ways, a limit of 2 in windows of 1, a Map of 1 entry, 5 requests to `/api/auth/`, 2 writes | an ended session, or a sign-in under way when it ended, is not admitted; an address has one account; one late write of a device for an organization; never more than twice the limit |
| `warehouses` | 3 requests out of 10 bodies, with or without a warehouse at the start | a default is lost only to an edit that unsets it; a transaction no other overtook leaves its default as the only one |
| `import` | 1 wizard with 2 tabs, 2 uploads of 3 files or of an export, tables of 3 rows | a duplicate SKU comes of one file, of the form, or of an import that looked too early; a preview belongs to the file and tab shown |
| `pages` | each of 17 pages, 2 fetches, 2 submissions, 3 rows, 2 entries | rows answer the query shown; a created row is listed once; an entry is recorded once and a success is about what was sent; each with its named exceptions |

Every property of a passing run has a mutant in `PROJECT.json`: a definition of
the model changed the way a plausible bug would change the code (the `Faulty
variant` next to it in the module), under which TLC finds the property violated.

The type invariants (`TypeOK`) and the inductive invariants (`IInv`,
`LimiterInv` of the rate limiter, `ImportInv`, `PagesInv`) are proved (section
4). That numbers and receipts have no gap (`NumbersGapless`, `ReceiptsGapless`)
is proved too, and is what NumberedBook says in the runs. Any of them can be
added to a cfg.

### 3.1 The disagreements found

**A quotation can be converted twice** (`invoicing_convert`): its status is
read without a lock and marked without a condition, so two conversions that read
it before either commits both answer 201.

Others are stated in the modules as properties that do not hold, and are found
with the instance named here instead of a cfg of their own:

| Instance | Property violated | What happens |
|---|---|---|
| MCStockLedger, `UndisturbedSpec`, `Body <- RepeatedReceipt` | `NoReceiptFails` | two bills for one product: each inserts its items, which shares the product row, and `FOR UPDATE` then waits for the other's share; one is a deadlock victim and is answered 500 |
| MCStockLedger, `Body <- TwoLineSale` | `EveryLineIssued` | an invoice issues a product once, whatever the number of lines that name it: the idempotency check compares reference, product and type. `PostingsComplete` says what is issued instead |
| MCInvoicing, `Body <- ReplayBody` | `SecondCallReplays` | a concurrent retry is not replayed: the key is looked up before the transaction, and the unique violation is answered 500 |
| MCDrafts, 2 pages | `OneUpdatePerVersion` | two tabs save one version and both are accepted: it is compared in one statement and the row updated by the next, by its id |
| MCDrafts, `Lossy = TRUE` | `ConflictMeansOtherPage` | the answer of an accepted save is lost; the next one conflicts with it, as "updated in another tab", and no form passes what "Reload newer version" needs to work |
| Drafts_live.cfg | `NoDraftOutlivesDocument` | a form is submitted before its text was saved, or while it is being saved for the first time: a draft of the finished document is left |
| MCDrafts, `SendsDraft = FALSE` | `SubmittedDraftGone` | the product and supplier forms never name or clear their draft, though the product route would delete it |
| MCDrafts, `Kept <- KeptOfPurchase` | `SavedIsStored` | `ALLOWED_FIELDS.PURCHASE` names `lines`, the form sends `items`: SAVED, but they are not stored |
| MCDrafts, `FreshData = FALSE` | `EditsReachServer` | a timer that fires during a save does nothing ("queue another save soon"), and nothing runs the effect again |
| MCDrafts, `FreshData = FALSE`, `Lossy = TRUE` | `OfflineRetries` | "Network disconnected. Retrying..." does not retry |

The exceptions in the properties of the newer modules are behaviours a reader
of the code should know of, and each is reached in its run:

* a converted quotation stays in the dashboard's receivable (`ReportsReconcile`);
* a copy of a document with inclusive prices is taxed on top (`CopyCostsTheSame`);
* two overlapping requests can leave two default warehouses
  (`OnlyDefaultUnlessOvertaken`), and PATCH without `id` in the body, which is
  how the warehouses page calls it, is always refused (`Submit`);
* the purchases page posts bills without the `warehouseId` the route requires,
  so none of its submissions is accepted (`PurchaseForm`, `fits`);
* a fetch that overlaps a submission can drop the new row from the list or show
  it twice (`CreatedRowShown`), and the ledger can show the rows of a page under
  the number of another (`RowsOfQuery`);
* the payment form sends no key, so a repeated submission after a lost answer
  pays twice; the adjustment form sends the old key with an edited quantity, and
  reports the edited one as booked (`OncePerEntry`);
* the product and supplier forms leave the draft of what they created to be
  recovered and created again (`OncePerEntry`).

### 3.2 Bounds

*Requests.* Three. Every property relates two requests or a request and a table; two
requests make each race, the third lets the outcome be observed, retried or
raced again. The proofs do not depend on the number.

*Data.* Two products are the least that allow opposite lock orders; the opening
stock of 2 allows one sale of two lines or two sales of one. Of the payments of
2, 2 and 1 against an invoice of 3, some pairs fit and some do not. The
quotation that is there from the start and the documents made during the
behaviour are both converted and duplicated.

*Bodies* are chosen so that each branch of the handlers is taken:
a replay, a shortage, a location in the wrong warehouse, a quantity the
DECIMAL(14,3) column rounds to 0, a line without product, an amount of 0, a
foreign customer, both ids set, an id of the other direction.

*Counters* need no bound in the transactional modules: each request adds at most
one number.

*Books.* Quantities are in tenths (`Unit`), which already gives a gross of half a
paisa; the lines meet a half, an odd tax, a discount and an included tax, and
one is free. One strains the form's estimate: half a piece at 97 paise, with a
discount of 1 % and a rate of 99 %, where it is more than two paise off. `MaxDocuments = 2` makes an original and its copy, `MaxBills = 1`
one bill.

*Access.* `MaxEntries = 1` makes the second device evict the first; `MaxTime`
lets one window expire and be followed by another; `MaxRequests = 5` exceeds
twice the limit; `MaxWrites = 2` is one for each device, or a second one after
the end of a trial.

*Import.* `MaxRows = 3` stands for the route's limit, and one file exceeds it;
a file the parser cannot read takes the same path. `MaxTable = 3` ends an import
that does not fit as one whose transaction fails.

*Pages.* Two fetches and two submissions make each race of two; what only three
submissions show, as when a success closes a modal that was opened again, is
covered by the proofs. `PageSize = 1` gives the
ledger three pages of `MaxStored = 3` rows, `MaxEntry = 2` an entry that is
corrected or followed by another, `MaxQuery = 2` a text that replaces another.

*Drafts.* `MaxMoves` bounds the edits and submissions of a page: with a recovery,
which is not counted, two of them create a draft, change it, and have a second
page change it too. `Draft` bounds the drafts ever created; with both used, a POST is only
refused or lost.

*Symmetry.* Requests are interchangeable in `stock_mixed` and `import`, pages and
drafts in `drafts_mixed`, devices in `access`, fetches and submissions in
`pages`. Runs that check liveness use no symmetry, and neither does
`invoicing`, whose bodies name requests.

*Deadlock checking.* A behaviour of Payments, Invoicing or Warehouses ends when
all requests are answered, one of Drafts when its pages are closed, one of
Books, Access, Import and Pages when a bound is used up, so their runs set
`CHECK_DEADLOCK FALSE`. That Payments, Invoicing and StockLedger do not stop with
an unanswered request is checked as `EveryRequestAnswered` instead. In StockLedger
`SetActive` is always enabled.

### 3.3 Fairness

`FairSpec` is weak fairness of what the server and the database do next for a
request that has arrived: Node runs every continuation whose promise is
settled, PostgreSQL grants a free lock and executes the statement, and its
deadlock detector runs. Nothing is assumed about clients, timeouts, shortage
elsewhere or archiving. Weak fairness is enough because locks are held by transactions that
themselves proceed; a waiting request is enabled for good once the last holder
is gone, or its competitors, of which there are finitely many, are answered.

In Drafts, effects run, timers fire, the routes execute what they receive and
answers are taken; the user need not do anything, and the network may lose what it
likes. A submission that is lost and repeated for ever is excluded by
`MaxMoves`, not by fairness.

The other modules have safety properties only, and no fairness.

## 4. What is proved

For every number of requests, products, places, documents, keys, pages, devices,
addresses, fetches and submissions, for every set of bodies, forms, bills and CSV
files, for lines of any price, quantity and discount in any number, and for any
limit and window:

| Module | Theorems |
|---|---|
| `StockLedgerProofs` | `InvariantHolds`, `TypeCorrect`, `StockNeverNegative`, `CheckHoldsUntilInsert`, `TablesAgree`, `KeyAdjustsOnce`, `DocumentsPostAsOne`, `ImplementsAtomicLedger` |
| `PaymentsProofs` | `InvariantHolds`, `TypeCorrect`, `Overpayment`, `Gapless`, `Refusals`, `EveryChangePaid`, `EveryPaymentCounts`, `EveryAnswerRecordedOnce`, `ImplementsReceiptBook` |
| `InvoicingProofs` | `InvariantHolds`, `TypeCorrect`, `Gapless`, `LinksTrue`, `EveryKeyCreatesOnce`, `ImplementsSalesBook` |
| `DraftsProofs` | `InvariantHolds`, `TypeCorrect`, `SavedMeansStored`, `ConflictsAreReal`, `SubmittedDraftsStayGone`, `DraftsKept` |
| `BooksProofs` | `InvariantHolds`, `TypeCorrect`, `AmountsAgree`, `EstimatesClose`, `CopiesCostTheSame`, `BillsAddUp`, `ReportsAgree` |
| `AccessProofs` | `Invariance`, `EndedStaysOut`, `AddressHasOneAccount`, `LateWrites`, `LimitKept` |
| `DashboardProofs` | of Warehouses: `Invariance`, `KeepsDefault`, `OnlyDefault`; of Import: `ImportInvariance`, `DuplicatesExplained`, `PreviewIsOfShownFile`; of Pages: `PagesInvariance`, `PagesShowTheirQuery`, `CreatedIsShown`, `EntriesStoredOnce` |

The assumptions are those the modules name. Most type the constants or say that
a value which stands for "none" is not one of the rest (`RequestAssumption`,
`ProductAssumption`, `DraftAssumption`, `NamesDiffer`, `NoneAssumption`). Those that
say more:

* `OpeningAssumption`: the opening stock is finite and not negative;
  `BodyAssumption` of StockLedger: a request adjusts, receives a bill or issues
  a sale, which are the callers of `recordStockMovement`;
* `NormalAssumption`: an address that is meant means itself (`toLowerCase` and
  `trim` are idempotent);
* `FormAssumption`, `BillFormAssumption`: what users submit are lines as the
  schemas admit them, percentages being integers; `TypeAssumption`: a quotation
  is converted to a tax invoice, so that is a type;
* `LimitAssumption`: the limit and the Map's size are not zero;
* `FileAssumption`, `FormKeyAssumption`: a file is a sequence of rows or cannot be
  parsed, a SKU that is typed in is a cell; `EntityAssumption`: products are among
  what is imported.

Three theorems about Drafts have a hypothesis, which is the setting of the run
`drafts_mixed`: the server stores every field it is sent, no answer is lost, the
form sends its `draftId`. Without it the property is false, and section 3.1
names the forms and the instance.

The safety properties are not inductive: nothing in "no balance is negative"
says why a commit keeps it so. Each module has an inductive invariant `IInv`, by
named parts.

* **Stock.** What a transaction has pending on a product is pending under that
  product's row lock (`PendingUnderLock`), so no two transactions have pending
  changes of one balance; the pending movements explain the pending change of
  every balance (`DeltaExplained`), keep their reference and collide with nothing
  (`SlotsApart`); no transaction could commit a balance below zero
  (`CommitsCovered`). Then a commit is one step of `Ledger`, and every other
  step leaves its tables alone. Since a commit adds to a balance what its
  movements add up to, the two tables agree (`TablesAgree`).
* **Stock documents.** `DocumentsMade` says which movements a document's
  transaction has made: for every posting it has done, the one of the first
  posting of its product, with that posting's quantity, and no other; all of
  them are committed when it is answered, and none before. `PostingsComplete`
  follows by adding them up: a bill posts a product once, with the sum of its
  lines (`PurchasePostings`); of a sale the first line of a product counts
  (`SalePostings`).
* **Payments.** From the UPDATE of its document on, a transaction owns that row
  and its amount still fits (`RowHeld`); from the UPDATE of the Organization on,
  it owns that row and its number is the next (`NumberHeld`); once past the
  insertion its key is unused (`KeyHeld`), because only the owner of the
  Organization row can commit. A commit is then one `Add` of the receipt book,
  and adds its amount to what is paid and to the sum of the rows
  (`EveryPaymentCounts`).
* **Invoicing.** The same for the number of its series and the key
  (`NumberHeld`, `KeyHeld`); that a conversion has read a document that exists,
  and so never marks its own (`ConversionsRead`); that documents and requests
  answered 201 correspond (`RowsAnswered`).
* **Drafts.** Every draft id a page or one of its requests holds was created
  (`DraftsKnown`), a page that was never opened has done nothing (`UnopenedIdle`),
  and a page is offered no draft that it wrote last itself (`OffersOfOthers`).
  What an accepted save sent is what its row holds as long as the page wrote it
  last (`SavesStored`); while no answer is lost, a page knows the version of the
  row it wrote last (`VersionsCurrent`). A draft that a document names is
  deleted, and a form deletes its draft only once its document exists
  (`DocumentsFirst`); a row that is deleted is not written again.
* **Books.** `IInv` says that the rows are well typed, that a copy comes after
  its original and has its lines, and that each bill's columns were computed
  from its lines. The properties are then arithmetic: the integer roundings are
  bounded by half a unit, once for a line, and sums of what is bounded or equal
  line by line are bounded or equal. The GST summary adds the same amounts by
  rows of the report that the totals add by lines: an exchange of two sums.
* **Access.** A version is compared for equality, so what must be known is that
  none is ahead: every token's address has a row of its version or a later one
  (`TokensKnown`), an address has one row (`OneRow`), and the tokens a sign-out
  ended are behind it (`EndedAreStale`). Then the comparison of
  `requireOrgContext` fails for them for good. After a late write the trial has
  ended, and the device is past no gate (`LateIsLast`). The rate limiter plays no
  part: these proofs hold whichever requests it lets pass.
* **Rate limiter.** `LimiterInv` says of an address that is not forgotten: an
  entry counts at least what passed since its window opened, and no more than
  the limit passed in it, nor in the time of one window before it (`Counted`);
  without an entry, no more than the limit passed in the time of one window up
  to now (`Quiet`). A window that runs counts on (`RunningCounts`), an address
  whose window has ended is quiet (`ExpiredQuiet`), and a quiet one opens a
  window (`OpenedCounts`). What passed in the time of one window before a request
  lies in its window or in that time before it, and is at most twice the limit
  with the request itself (`LatestNotTwice`).
* **Warehouses.** Until another transaction commits, what a transaction has seen
  and unset is all there is (`SeenIsThere`); nobody else unsets a default
  (`OthersReset`); an edited row exists and a new one does not (`Positions`,
  `RowsAnswered`), so a commit that does not make a default can only take its own
  row's away, which is an edit that says so.
* **Import.** What an upload saw when it looked for its SKUs is still there and has
  none of them (`NoneKnown`), because a table only grows; so a row it stores
  equals an earlier one only among what came after. An upload that stored rows is
  answered (`RowsOfAnswered`) and looks no more. As long as a page's file and tab
  have not changed, the answer it waits for is about them (`AnswerOfShownFile`), and
  a 400 has errors (`ErrorsCounted`).
* **Pages: entries.** An entry is `Certain` while every answer about it was heard
  and no draft of it was recovered in doubt. A certain entry is on its way once or
  stored once (`OnceOnItsWay`), and the form shows it only while it waits for that
  answer (`ShownIsAwaited`), because `saving` is set until the form's own
  submission is answered or given up (`Waits`); so no second one can be sent. A draft
  that is deleted with its document is never one of a stored entry
  (`DraftNotStored`). With a key, an entry that was lost keeps its key, and a key
  has one row (`OneKey`), which is what the answers are about (`AnswersOfEntry`). Nearly every action hears fewer submissions and changes
  nothing that was sent or stored; that is one lemma (`HearingPreservesEntries`),
  and each of these actions is shown to be of that kind (`HearsLess`).
* **Pages: lists.** Unless fetches met or one failed there is at most one fetch, and
  it is for the query shown (`OneLoad`). While no fetch met a submission, a success
  to be heard is not in the list, and one that was heard is there once or will be
  in the answer under way (`MadeShown`): answers to different submissions are
  different rows (`RowsStored`), since only modals prepend and modals have no keys.

The proof of `Waits` found an error of the model that no run could show: with three
submissions, a success that came late closed the modal that was open by then and
left that form's own submission `attached`, so the answer to it ended the `saving`
of a third form. React discards the state of a form that is closed, whoever closes
it; `ModalDone` now detaches like `CloseForm`.

The proofs of the three services have one lemma per kind of step: type
correctness, the steps that change locks and positions only, rollback, and
commit. Those of the other modules have one lemma per action and in it one
step per part of the invariant. The theorems combine them.

`Sums` proves what the library's folds and cardinalities do. The induction
theorems of the library are out of reach (they take an operator), so its lemmas
argue by the smallest counterexample: were a sum not what it should be on some
finite set, there would be a set of the fewest elements on which it is not, and
taking one element away gives a smaller one (`SmallestSet`, `BySubsets`).

### 4.1 Only model-checked

* Liveness (`EveryRequestAnswered`, `EditsReachServer`, `OfflineRetries`): under
  fairness, out of the provers' reach.
* That the exceptions the properties name do occur. The runs reach them, and
  section 3.1 lists them; a theorem that leaves room for an exception does not
  say that it happens.

## 5. Not modelled

Formatting of numbers, audit and security log rows; validation of request bodies
beyond accepting or refusing them; several organizations (no row is shared
between two, and each handler takes its organization from the session). An
idempotency key is unique across organizations in the schema; the models have
one. The float products of the GST engine, and quantities finer than the
DECIMAL(14,3) columns.

The storage providers are I/O that no handler calls, the PDF renderers lay out
rows that are already stored; `recentHistory` keeps a list in the browser's
localStorage. The login, sign-up, settings, billing and pricing pages post one
form or none and keep no list. `PROJECT.json` names for each component that is
`partly` modelled what is left out.

Payments, Invoicing, StockLedger and Warehouses each have the rows they write to
themselves. That a payment on a quotation and its conversion take two rows in
opposite orders, for instance, is not seen: the hazard is listed without a
property.

## 6. Plan

1. **Shared rows**: Payments, Invoicing and StockLedger composed over the same
   Organization, invoice and product rows: lock orders across handlers, deadlock
   victims, and who is answered what.
2. **Quantities** finer than a thousandth: the two roundings of a movement and
   of its balance.
