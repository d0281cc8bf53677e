-------------------------------- MODULE Drafts --------------------------------
(***************************************************************************)
(* Unfinished forms: the drafts routes of the server, the useAutoSave hook *)
(* of every form, the recovery banner and the submission that consumes a   *)
(* draft, for one user and one type of form.                               *)
(*                                                                         *)
(* A page is one mount of the form, in whatever tab.  Its requests are     *)
(* asynchronous: a save, a submission and a DELETE may be under way at the *)
(* same time.  One action is one callback of the page (a user event, a     *)
(* timer, an effect, an answer) or one statement of a handler.  Every edit *)
(* restarts the timer, so what a timer saves is what the form holds.       *)
(***************************************************************************)
EXTENDS Integers, FiniteSets

CONSTANTS
  Page,         \* mounts of the form
  Draft,        \* draft identities: a bound on how many are ever created
  NoDraft,      \* null
  Body,         \* what a form can hold
  Blank,        \* what it holds when it is opened
  Kept,         \* Kept[b]: what ALLOWED_FIELDS lets through of b
  FreshData,    \* the form gives the hook a new object at each render
  SendsDraft,   \* the form submits its draftId and calls clearDraft
  Lossy,        \* requests and answers may be lost
  MaxMoves      \* bound: edits and submissions of each page

ASSUME DraftAssumption == NoDraft \notin Draft
ASSUME BodyAssumption == Blank \in Body /\ Kept \in [Body -> Body]
ASSUME FlagAssumption ==
  FreshData \in BOOLEAN /\ SendsDraft \in BOOLEAN /\ Lossy \in BOOLEAN
ASSUME MovesAssumption == MaxMoves \in Nat

VARIABLES
  draft,        \* the Draft rows: state, body, version; and who wrote last
  documents,    \* pages whose document exists, with the draft they knew
  discarded,    \* drafts the user discarded
  mount,        \* is the form open, leaving, unmounted, its tab closed?
  form,         \* what the form holds
  listed,       \* what the recovery banner offers: draft, version and body
  draftId,      \* draftIdRef.current
  version,      \* versionRef.current
  lastSaved,    \* lastSavedDataRef.current
  status,       \* the AutoSaveStatus on display
  timer,        \* is a debounced save scheduled?
  due,          \* has a render left the effect to run?
  submitting,   \* is the submit button waiting?
  save,         \* the POST or PATCH under way; savingRef is true meanwhile
  submission,   \* the document request under way
  removal,      \* the DELETE of clearDraft under way
  moves         \* edits and submissions made, for the bound

tables  == <<draft, documents, discarded>>
refs    == <<draftId, version, lastSaved>>
effects == <<timer, due, status>>
calls   == <<save, submission, removal>>
vars    == <<tables, mount, form, listed, refs, effects, submitting, calls, moves>>

Statuses == {"IDLE", "SAVING", "SAVED", "ERROR", "CONFLICT", "OFFLINE"}
Trouble  == {"ERROR", "CONFLICT", "OFFLINE"}
Nowhere  == "nowhere"   \* the writer of a row that was never written
NoSave   == [stage |-> "none", draft |-> NoDraft, version |-> 1, body |-> Blank]
NoCall   == [stage |-> "none", draft |-> NoDraft]

Live(d)      == draft[d].state = "live"
Mounted(p)   == mount[p] \in {"open", "leaving"}
Running(p)   == mount[p] # "closed"
Saving(p)    == save[p].stage # "none"
Submitted(p) == \E m \in documents : m.page = p

--------------------------------------------------------------------------------
(***************************************************************************)
(* The effect of useAutoSave for a form that holds f: the previous timer   *)
(* is cleared; a change that is not saved yet, in a form that is not being *)
(* submitted, starts another.                                              *)
(***************************************************************************)
Effect(p, f, saved, enabled) ==
  LET unsaved == enabled /\ f # saved
  IN  /\ timer' = [timer EXCEPT ![p] = unsaved]
      /\ status' = [status EXCEPT ![p] = IF unsaved THEN "SAVING" ELSE @]

(***************************************************************************)
(* The effect runs after a render only if one of its dependencies changed: *)
(* always so when the form builds its data anew at each render.            *)
(***************************************************************************)
(* Faulty variant: no render ever runs the effect again.                     *)
NotRendered(p) == UNCHANGED due

Rendered(p) == due' = [due EXCEPT ![p] = @ \/ (FreshData /\ Mounted(p))]

RunEffect(p) ==
  /\ due[p] /\ Mounted(p)
  /\ due' = [due EXCEPT ![p] = FALSE]
  /\ Effect(p, form[p], lastSaved[p], ~submitting[p])
  /\ UNCHANGED <<tables, mount, form, listed, refs, submitting, calls, moves>>

(***************************************************************************)
(* The form mounts and its banner lists the drafts of the user.  The list  *)
(* is asked for at once, the first save waits for debounceMs.              *)
(***************************************************************************)
Open(p) ==
  /\ mount[p] = "unopened"
  /\ mount' = [mount EXCEPT ![p] = "open"]
  /\ listed' = [listed EXCEPT ![p] =
       {[draft |-> d, version |-> draft[d].version, body |-> draft[d].body] :
          d \in {e \in Draft : Live(e)}}]
  /\ UNCHANGED <<tables, form, refs, effects, submitting, calls, moves>>

(***************************************************************************)
(* The form unmounts: the user goes to another page, or the page of the    *)
(* new document replaces it; what waits for an answer still runs when it   *)
(* comes.  Or the tab is closed, and nothing of it runs any more.          *)
(***************************************************************************)
Unmount(p) ==
  /\ Mounted(p)
  /\ \E m \in {"unmounted", "closed"} : mount' = [mount EXCEPT ![p] = m]
  /\ timer' = [timer EXCEPT ![p] = FALSE]
  /\ due' = [due EXCEPT ![p] = FALSE]
  /\ UNCHANGED <<tables, form, listed, refs, status, submitting, calls, moves>>

Edit(p) ==
  /\ Mounted(p) /\ ~due[p] /\ moves[p] < MaxMoves
  /\ moves' = [moves EXCEPT ![p] = @ + 1]
  /\ \E f \in Body \ {form[p]} :
       /\ form' = [form EXCEPT ![p] = f]
       /\ Effect(p, f, lastSaved[p], ~submitting[p])
  /\ UNCHANGED <<tables, mount, listed, refs, due, submitting, calls>>

(***************************************************************************)
(* handleRecover: the fields the draft fills replace those of the form, so *)
(* a blank form becomes the draft and any other becomes some mixture.  The *)
(* hook records as saved what the form held before.                        *)
(***************************************************************************)
Recover(p) ==
  /\ Mounted(p) /\ ~due[p]
  /\ \E offer \in listed[p] :
       /\ listed' = [listed EXCEPT ![p] = @ \ {offer}]
       /\ draftId' = [draftId EXCEPT ![p] = offer.draft]
       /\ version' = [version EXCEPT ![p] = offer.version]
       /\ lastSaved' = [lastSaved EXCEPT ![p] = form[p]]
       /\ \E f \in IF form[p] = Blank THEN {offer.body} ELSE Body :
            /\ form' = [form EXCEPT ![p] = f]
            /\ Effect(p, f, form[p], ~submitting[p])
  /\ UNCHANGED <<tables, mount, due, submitting, calls, moves>>

(***************************************************************************)
(* The banner discards a draft; a draft already gone stays on its list.    *)
(***************************************************************************)
Discard(p) ==
  /\ Mounted(p)
  /\ \E offer \in listed[p] :
       /\ Live(offer.draft)
       /\ draft' = [draft EXCEPT ![offer.draft].state = "deleted"]
       /\ discarded' = discarded \cup {offer.draft}
       /\ listed' = [listed EXCEPT ![p] = @ \ {offer}]
  /\ UNCHANGED <<documents, mount, form, refs, effects, submitting, calls, moves>>

--------------------------------------------------------------------------------
(***************************************************************************)
(* The debounced save: nothing while another save is under way; otherwise  *)
(* a PATCH of the draft the page knows, or a POST if it knows none.        *)
(***************************************************************************)
Fire(p) ==
  /\ timer[p]
  /\ timer' = [timer EXCEPT ![p] = FALSE]
  /\ IF Saving(p)
     THEN UNCHANGED save
     ELSE save' = [save EXCEPT ![p] =
            [stage |-> "sent", draft |-> draftId[p], version |-> version[p],
             body |-> form[p]]]
  /\ UNCHANGED <<tables, mount, form, listed, refs, status, due, submitting,
                 submission, removal, moves>>

(***************************************************************************)
(* POST /api/drafts.                                                       *)
(***************************************************************************)
CreateDraft(p) ==
  /\ save[p].stage = "sent" /\ save[p].draft = NoDraft
  /\ \E d \in {e \in Draft : draft[e].state = "unused"} :
       /\ draft' = [draft EXCEPT ![d] =
            [state |-> "live", body |-> Kept[save[p].body], version |-> 1, writer |-> p]]
       /\ save' = [save EXCEPT ![p].stage = "ok", ![p].draft = d, ![p].version = 1]
  /\ UNCHANGED <<documents, discarded, mount, form, listed, refs, effects, submitting,
                 submission, removal, moves>>

(***************************************************************************)
(* PATCH /api/drafts/[id]: the row is read and its version compared.       *)
(***************************************************************************)
SaveReaches(p, stage) ==
  /\ save' = [save EXCEPT ![p].stage = stage]
  /\ UNCHANGED <<tables, mount, form, listed, refs, effects, submitting, submission,
                 removal, moves>>

VersionMatches(p) == draft[save[p].draft].version = save[p].version

ReadDraft(p) ==
  /\ save[p].stage = "sent" /\ save[p].draft # NoDraft
  /\ Live(save[p].draft)
  /\ SaveReaches(p, IF VersionMatches(p) THEN "read" ELSE "conflict")

DraftMissing(p) ==
  /\ save[p].stage \in {"sent", "read"} /\ save[p].draft # NoDraft
  /\ ~Live(save[p].draft)
  /\ SaveReaches(p, "failed")

(***************************************************************************)
(* Refused before the row is looked at: too large, signed out, and so on.  *)
(***************************************************************************)
RefuseSave(p) ==
  /\ save[p].stage = "sent"
  /\ SaveReaches(p, "failed")

(* Faulty variant: an upsert, which creates a deleted draft again.           *)
UpsertDraft(p) ==
  /\ save[p].stage = "read"
  /\ LET d == save[p].draft
         v == save[p].version + 1
     IN  /\ draft' = [draft EXCEPT ![d] =
              [state |-> "live", body |-> Kept[save[p].body], version |-> v, writer |-> p]]
         /\ save' = [save EXCEPT ![p].stage = "ok", ![p].version = v]
  /\ UNCHANGED <<documents, discarded, mount, form, listed, refs, effects, submitting,
                 submission, removal, moves>>

(***************************************************************************)
(* The row is updated by its id, to one more than the version that was     *)
(* read.                                                                   *)
(***************************************************************************)
WriteDraft(p) ==
  /\ save[p].stage = "read" /\ Live(save[p].draft)
  /\ LET d == save[p].draft
         v == save[p].version + 1
     IN  /\ draft' = [draft EXCEPT ![d] =
              [@ EXCEPT !.body = Kept[save[p].body], !.version = v, !.writer = p]]
         /\ save' = [save EXCEPT ![p].stage = "ok", ![p].version = v]
  /\ UNCHANGED <<documents, discarded, mount, form, listed, refs, effects, submitting,
                 submission, removal, moves>>

SaveEnds(p, newStatus) ==
  /\ Running(p)
  /\ save' = [save EXCEPT ![p] = NoSave]
  /\ status' = [status EXCEPT ![p] = newStatus]
  /\ Rendered(p)
  /\ UNCHANGED <<tables, mount, form, listed, timer, submitting, submission, removal,
                 moves>>

(* Faulty variant: what the form holds by now is taken for what was saved.   *)
SaveAcceptedForAll(p) ==
  /\ save[p].stage = "ok"
  /\ draftId' = [draftId EXCEPT ![p] = save[p].draft]
  /\ version' = [version EXCEPT ![p] = save[p].version]
  /\ lastSaved' = [lastSaved EXCEPT ![p] = form[p]]
  /\ SaveEnds(p, "SAVED")

(* Faulty variant: the page keeps the version it had.                        *)
SaveAcceptedBlindly(p) ==
  /\ save[p].stage = "ok"
  /\ draftId' = [draftId EXCEPT ![p] = save[p].draft]
  /\ lastSaved' = [lastSaved EXCEPT ![p] = save[p].body]
  /\ UNCHANGED version
  /\ SaveEnds(p, "SAVED")

SaveAccepted(p) ==
  /\ save[p].stage = "ok"
  /\ draftId' = [draftId EXCEPT ![p] = save[p].draft]
  /\ version' = [version EXCEPT ![p] = save[p].version]
  /\ lastSaved' = [lastSaved EXCEPT ![p] = save[p].body]
  /\ SaveEnds(p, "SAVED")

SaveRejected(p) ==
  /\ save[p].stage \in {"conflict", "failed"}
  /\ SaveEnds(p, IF save[p].stage = "conflict" THEN "CONFLICT" ELSE "ERROR")
  /\ UNCHANGED refs

(***************************************************************************)
(* The request never arrives, or its answer is lost: fetch throws.         *)
(***************************************************************************)
LoseSave(p) ==
  /\ Lossy
  /\ save[p].stage \in {"sent", "ok", "conflict", "failed"}
  /\ SaveEnds(p, "OFFLINE")
  /\ UNCHANGED refs

--------------------------------------------------------------------------------
(***************************************************************************)
(* handleSubmit: the form is disabled for the hook, which stops its timer, *)
(* and the document is asked for; the request knows the page's draft.      *)
(***************************************************************************)
Submit(p) ==
  /\ mount[p] = "open" /\ ~due[p] /\ ~submitting[p] /\ form[p] # Blank
  /\ moves[p] < MaxMoves
  /\ moves' = [moves EXCEPT ![p] = @ + 1]
  /\ submitting' = [submitting EXCEPT ![p] = TRUE]
  /\ submission' = [submission EXCEPT ![p] =
       [stage |-> "sent", draft |-> draftId[p]]]
  /\ Effect(p, form[p], lastSaved[p], FALSE)
  /\ UNCHANGED <<tables, mount, form, listed, refs, due, save, removal>>

(***************************************************************************)
(* The service creates the document and deletes the draft the request      *)
(* names, if it names one, in one transaction; the key of the form answers *)
(* a retry with the document that exists.                                  *)
(***************************************************************************)
CreateDocument(p) ==
  /\ submission[p].stage = "sent"
  /\ submission' = [submission EXCEPT ![p].stage = "ok"]
  /\ IF Submitted(p)
     THEN UNCHANGED <<draft, documents>>
     ELSE LET d == submission[p].draft
          IN  /\ documents' = documents \cup {[page |-> p, draft |-> d]}
              /\ IF SendsDraft /\ d # NoDraft /\ Live(d)
                 THEN draft' = [draft EXCEPT ![d].state = "deleted"]
                 ELSE UNCHANGED draft
  /\ UNCHANGED <<discarded, mount, form, listed, refs, effects, submitting, save,
                 removal, moves>>

RefuseDocument(p) ==
  /\ submission[p].stage = "sent"
  /\ submission' = [submission EXCEPT ![p].stage = "refused"]
  /\ UNCHANGED <<tables, mount, form, listed, refs, effects, submitting, save, removal,
                 moves>>

(***************************************************************************)
(* Whatever the answer, the form is enabled again and the effect runs.     *)
(***************************************************************************)
(* Faulty variant: the form is not enabled again.                            *)
SubmissionEndsDisabled(p) ==
  /\ Running(p)
  /\ submission' = [submission EXCEPT ![p] = NoCall]
  /\ UNCHANGED <<submitting, due>>
  /\ UNCHANGED <<tables, form, listed, refs, timer, save, moves>>

SubmissionEnds(p) ==
  /\ Running(p)
  /\ submission' = [submission EXCEPT ![p] = NoCall]
  /\ submitting' = [submitting EXCEPT ![p] = FALSE]
  /\ due' = [due EXCEPT ![p] = Mounted(p)]
  /\ UNCHANGED <<tables, form, listed, refs, timer, save, moves>>

(***************************************************************************)
(* Success: clearDraft asks for the deletion of the draft the page knows   *)
(* by now, and the page moves on to the document.                          *)
(***************************************************************************)
SubmissionAccepted(p) ==
  /\ submission[p].stage = "ok"
  /\ SubmissionEnds(p)
  /\ mount' = [mount EXCEPT ![p] = IF Mounted(p) THEN "leaving" ELSE @]
  /\ IF SendsDraft /\ draftId[p] # NoDraft
     THEN /\ removal' = [removal EXCEPT ![p] = [stage |-> "sent", draft |-> draftId[p]]]
          /\ UNCHANGED status
     ELSE /\ status' = [status EXCEPT ![p] = IF SendsDraft THEN "IDLE" ELSE @]
          /\ UNCHANGED removal

(* Faulty variant: the draft is cleared whatever the answer.                 *)
SubmissionRefusedClearing(p) ==
  /\ submission[p].stage = "refused"
  /\ SubmissionEnds(p)
  /\ draftId[p] # NoDraft
  /\ removal' = [removal EXCEPT ![p] = [stage |-> "sent", draft |-> draftId[p]]]
  /\ UNCHANGED <<mount, status>>

SubmissionRefused(p) ==
  /\ submission[p].stage = "refused"
  /\ SubmissionEnds(p)
  /\ UNCHANGED <<mount, status, removal>>

LoseSubmission(p) ==
  /\ Lossy
  /\ submission[p].stage # "none"
  /\ SubmissionEnds(p)
  /\ UNCHANGED <<mount, status, removal>>

(***************************************************************************)
(* DELETE /api/drafts/[id]; then, whatever came of it, clearDraft forgets  *)
(* the draft.                                                              *)
(***************************************************************************)
DeleteDraft(p) ==
  /\ removal[p].stage = "sent"
  /\ removal' = [removal EXCEPT ![p].stage = "ok"]
  /\ draft' = [draft EXCEPT ![removal[p].draft].state = "deleted"]
  /\ UNCHANGED <<documents, discarded, mount, form, listed, refs, effects, submitting,
                 save, submission, moves>>

ForgetDraft(p) ==
  /\ Running(p)
  /\ removal[p].stage = "ok" \/ (Lossy /\ removal[p].stage = "sent")
  /\ removal' = [removal EXCEPT ![p] = NoCall]
  /\ draftId' = [draftId EXCEPT ![p] = NoDraft]
  /\ version' = [version EXCEPT ![p] = 1]
  /\ status' = [status EXCEPT ![p] = "IDLE"]
  /\ Rendered(p)
  /\ UNCHANGED <<tables, mount, form, listed, lastSaved, timer, submitting, save,
                 submission, moves>>

--------------------------------------------------------------------------------
Init ==
  /\ draft = [d \in Draft |->
       [state |-> "unused", body |-> Blank, version |-> 1, writer |-> Nowhere]]
  /\ documents = {} /\ discarded = {}
  /\ mount = [p \in Page |-> "unopened"]
  /\ form = [p \in Page |-> Blank]
  /\ listed = [p \in Page |-> {}]
  /\ draftId = [p \in Page |-> NoDraft]
  /\ version = [p \in Page |-> 1]
  /\ lastSaved = [p \in Page |-> Blank]
  /\ status = [p \in Page |-> "IDLE"]
  /\ timer = [p \in Page |-> FALSE]
  /\ due = [p \in Page |-> FALSE]
  /\ submitting = [p \in Page |-> FALSE]
  /\ save = [p \in Page |-> NoSave]
  /\ submission = [p \in Page |-> NoCall]
  /\ removal = [p \in Page |-> NoCall]
  /\ moves = [p \in Page |-> 0]

User(p) == Open(p) \/ Unmount(p) \/ Edit(p) \/ Recover(p) \/ Discard(p) \/ Submit(p)

(* What the browser does on its own: effects, timers, answers.             *)
Browser(p) ==
  \/ RunEffect(p) \/ Fire(p)
  \/ SaveAccepted(p) \/ SaveRejected(p)
  \/ SubmissionAccepted(p) \/ SubmissionRefused(p)
  \/ ForgetDraft(p)

Server(p) ==
  \/ CreateDraft(p) \/ ReadDraft(p) \/ DraftMissing(p) \/ RefuseSave(p) \/ WriteDraft(p)
  \/ CreateDocument(p) \/ RefuseDocument(p) \/ DeleteDraft(p)

Network(p) == LoseSave(p) \/ LoseSubmission(p)

Next == \E p \in Page : User(p) \/ Browser(p) \/ Server(p) \/ Network(p)

Spec == Init /\ [][Next]_vars

(***************************************************************************)
(* Effects run, timers fire, the server answers each request and answers   *)
(* are taken.  Nobody has to edit, submit or leave.                        *)
(***************************************************************************)
Fairness ==
  \A p \in Page :
    /\ WF_vars(RunEffect(p)) /\ WF_vars(Fire(p))
    /\ WF_vars(SaveAccepted(p) \/ SaveRejected(p))
    /\ WF_vars(SubmissionAccepted(p) \/ SubmissionRefused(p))
    /\ WF_vars(CreateDraft(p) \/ ReadDraft(p) \/ DraftMissing(p) \/ RefuseSave(p) \/ WriteDraft(p))
    /\ WF_vars(CreateDocument(p) \/ RefuseDocument(p))

FairSpec == Spec /\ Fairness

--------------------------------------------------------------------------------
Row  == [state : {"unused", "live", "deleted"}, body : Body, version : Nat \ {0},
         writer : Page \cup {Nowhere}]
Offer == [draft : Draft, version : Nat \ {0}, body : Body]
SaveCall == [stage : {"none", "sent", "read", "ok", "conflict", "failed"},
             draft : Draft \cup {NoDraft}, version : Nat \ {0}, body : Body]
Call == [stage : {"none", "sent", "ok", "refused"}, draft : Draft \cup {NoDraft}]

TypeOK ==
  /\ draft \in [Draft -> Row]
  /\ documents \in SUBSET [page : Page, draft : Draft \cup {NoDraft}]
  /\ discarded \in SUBSET Draft
  /\ mount \in [Page -> {"unopened", "open", "leaving", "unmounted", "closed"}]
  /\ form \in [Page -> Body] /\ lastSaved \in [Page -> Body]
  /\ listed \in [Page -> SUBSET Offer]
  /\ draftId \in [Page -> Draft \cup {NoDraft}]
  /\ version \in [Page -> Nat \ {0}]
  /\ status \in [Page -> Statuses]
  /\ timer \in [Page -> BOOLEAN] /\ due \in [Page -> BOOLEAN]
  /\ submitting \in [Page -> BOOLEAN]
  /\ save \in [Page -> SaveCall]
  /\ submission \in [Page -> Call] /\ removal \in [Page -> Call]
  /\ moves \in [Page -> 0..MaxMoves]

(***************************************************************************)
(* "Draft saved at ..." (DraftStatusIndicator) is true: what the form says *)
(* is saved is what a recovery would find, unless another page has written *)
(* or removed the draft since.                                             *)
(***************************************************************************)
SavedIsStored ==
  \A p \in Page :
    (Mounted(p) /\ status[p] = "SAVED" /\ ~Saving(p))
      => \A d \in Draft :
           (d = draftId[p] /\ Live(d) /\ draft[d].writer = p)
             => draft[d].body = lastSaved[p] /\ draft[d].version = version[p]

(***************************************************************************)
(* "This draft was updated in another tab" (DraftStatusIndicator): a PATCH *)
(* is answered 409 only if somebody else wrote the draft last.             *)
(***************************************************************************)
ConflictMeansOtherPage ==
  \A p \in Page : save[p].stage = "conflict" => draft[save[p].draft].writer # p

(***************************************************************************)
(* The draft a page knew when it submitted is gone once its document       *)
(* exists, and no save that was under way brings it back.                  *)
(***************************************************************************)
SubmittedDraftGone == \A m \in documents : m.draft # NoDraft => ~Live(m.draft)

(***************************************************************************)
(* A draft disappears only when the user discards it, or by the submission *)
(* or the clearDraft of a page whose document exists: a submission that    *)
(* fails, or is still under way, leaves it to be recovered.                *)
(***************************************************************************)
DraftKeptUntilDone ==
  [][\A d \in Draft :
       (Live(d) /\ ~Live(d)')
         => \/ d \in discarded'
            \/ \E p \in Page :
                 Submitted(p)' /\ d \in {submission[p].draft, removal[p].draft}]_vars

(***************************************************************************)
(* "stale version rejected" (drafts.test.ts): of two saves made from one   *)
(* version of a draft only one is accepted.                                *)
(***************************************************************************)
OneUpdatePerVersion ==
  \A p, q \in Page :
    (p # q /\ save[p].stage = "ok" /\ save[q].stage = "ok")
      => <<save[p].draft, save[p].version>> # <<save[q].draft, save[q].version>>

(***************************************************************************)
(* A submission consumes the draft: when a page has its document and       *)
(* nothing of it is under way any more, no draft it wrote is left to be    *)
(* offered by the next banner.                                             *)
(***************************************************************************)
Quiet(p) ==
  ~Saving(p) /\ ~timer[p] /\ ~due[p] /\ submission[p] = NoCall /\ removal[p] = NoCall

NoDraftOutlivesDocument ==
  \A p \in Page :
    (mount[p] = "leaving" /\ Quiet(p)) => \A d \in Draft : Live(d) => draft[d].writer # p

(***************************************************************************)
(* What the user typed is saved in the end, or the user is told that it is *)
(* not, or moves on.                                                       *)
(***************************************************************************)
EditsReachServer ==
  \A p \in Page :
    (mount[p] = "open" /\ form[p] # lastSaved[p])
      ~> (form[p] = lastSaved[p] \/ status[p] \in Trouble \/ mount[p] # "open")

(***************************************************************************)
(* "Network disconnected. Retrying..." (DraftStatusIndicator): a page that *)
(* failed to reach the server with something to save tries again.          *)
(***************************************************************************)
OfflineRetries ==
  \A p \in Page :
    (mount[p] = "open" /\ status[p] = "OFFLINE" /\ form[p] # lastSaved[p])
      ~> (status[p] # "OFFLINE" \/ form[p] = lastSaved[p] \/ mount[p] # "open")
================================================================================
