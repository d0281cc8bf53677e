------------------------------ MODULE DraftsProofs ------------------------------
(***************************************************************************)
(* Proofs about drafts, for any number of pages and drafts and any forms.  *)
(***************************************************************************)
EXTENDS Drafts, TLAPS

OwnLive(d, p) == Live(d) /\ draft[d].writer = p

Known(d) == d \in Draft => draft[d].state # "unused"

(* Whoever speaks of a draft speaks of one that was created.               *)
DraftsKnown ==
  \A p \in Page :
    /\ Known(draftId[p]) /\ Known(save[p].draft)
    /\ Known(submission[p].draft) /\ Known(removal[p].draft)
    /\ \A offer \in listed[p] : Known(offer.draft)

(* A page that was never opened has done nothing.                          *)
UnopenedIdle ==
  \A p \in Page : mount[p] = "unopened" =>
    /\ ~timer[p] /\ ~Saving(p) /\ save[p].draft = NoDraft /\ draftId[p] = NoDraft
    /\ \A d \in Draft : ~OwnLive(d, p)

(* What the banner of a page offers is not the page's own work: it is not  *)
(* the draft it knows or is saving, and another page wrote it.             *)
OffersOfOthers ==
  \A p \in Page : \A offer \in listed[p] :
    /\ offer.draft \notin {draftId[p], save[p].draft}
    /\ ~OwnLive(offer.draft, p)
    /\ \A other \in listed[p] : other.draft = offer.draft => other = offer

(* What a save stored stays, until another page writes or the page itself  *)
(* saves again; at rest that is what the page takes for saved.             *)
Stored(p, d, b, v) == OwnLive(d, p) => draft[d].body = Kept[b] /\ draft[d].version = v

SavesStored ==
  \A p \in Page :
    /\ save[p].stage \in {"read", "ok", "conflict"} => save[p].draft \in Draft
    /\ save[p].stage = "ok" => Stored(p, save[p].draft, save[p].body, save[p].version)
    /\ status[p] = "SAVED" /\ ~Saving(p) /\ draftId[p] \in Draft =>
         Stored(p, draftId[p], lastSaved[p], version[p])

(* If no answer is lost, a page knows the version of what it wrote last.   *)
VersionsCurrent ==
  ~Lossy => \A p \in Page :
    /\ save[p].stage \in {"sent", "read"} /\ save[p].draft \in Draft
         /\ OwnLive(save[p].draft, p) => draft[save[p].draft].version = save[p].version
    /\ save[p].stage # "ok" /\ draftId[p] \in Draft /\ OwnLive(draftId[p], p) =>
         draft[draftId[p]].version = version[p]
    /\ save[p].stage = "conflict" => draft[save[p].draft].writer # p

(* A draft is deleted for a submission only once the document exists.      *)
DocumentsFirst ==
  /\ \A p \in Page :
       /\ submission[p].stage = "ok" => Submitted(p)
       /\ removal[p].stage # "none" => Submitted(p)
  /\ SendsDraft =>
       \A m \in documents : m.draft \in Draft => draft[m.draft].state = "deleted"

IInv ==
  /\ TypeOK
  /\ DraftsKnown
  /\ UnopenedIdle
  /\ OffersOfOthers
  /\ SavesStored
  /\ VersionsCurrent
  /\ DocumentsFirst

--------------------------------------------------------------------------------
(***************************************************************************)
(* The effect of the hook leaves a table of timers and one of statuses.    *)
(***************************************************************************)
LEMMA EffectTyped ==
  ASSUME TypeOK, NEW p \in Page, NEW f, NEW saved, NEW enabled, Effect(p, f, saved, enabled)
  PROVE  /\ timer' \in [Page -> BOOLEAN] /\ status' \in [Page -> Statuses]
BY DEF Effect, TypeOK, Statuses

(***************************************************************************)
(* Whether a page is mounted is a Boolean.                                 *)
(***************************************************************************)
LEMMA MountedTyped == \A p : Mounted(p) \in BOOLEAN
BY DEF Mounted

(***************************************************************************)
(* A disjunction is a Boolean.                                             *)
(***************************************************************************)
LEMMA OrTyped == \A a, b : (a \/ b) \in BOOLEAN
OBVIOUS

(***************************************************************************)
(* A save stays a save, and a row a row, when its fields are updated.      *)
(***************************************************************************)
LEMMA CallsTyped ==
  /\ \A r \in SaveCall : \A s \in {"read", "ok", "conflict", "failed"} :
       /\ [r EXCEPT !.stage = s] \in SaveCall
       /\ \A d \in Draft : \A v \in Nat \ {0} :
            /\ [r EXCEPT !.stage = s, !.draft = d, !.version = v] \in SaveCall
            /\ [r EXCEPT !.stage = s, !.version = v] \in SaveCall
  /\ \A r \in Row : /\ [r EXCEPT !.state = "deleted"] \in Row
                    /\ \A b \in Body : \A v \in Nat \ {0} : \A p \in Page :
                         [r EXCEPT !.body = b, !.version = v, !.writer = p] \in Row
BY DEF SaveCall, Row

(***************************************************************************)
(* After a render, due still says yes or no of each page.                  *)
(***************************************************************************)
LEMMA RenderedTyped ==
  ASSUME TypeOK, NEW p \in Page
  PROVE  /\ Rendered(p) => due' \in [Page -> BOOLEAN]
         /\ due' = [due EXCEPT ![p] = Mounted(p)] => due' \in [Page -> BOOLEAN]
<1>1. due \in [Page -> BOOLEAN]
  BY DEF TypeOK
<1>2. \A b \in BOOLEAN : [due EXCEPT ![p] = b] \in [Page -> BOOLEAN]
  BY <1>1
<1>3. (due[p] \/ (FreshData /\ Mounted(p))) \in BOOLEAN /\ Mounted(p) \in BOOLEAN
  BY Zenon, OrTyped, MountedTyped
<1> QED
  BY <1>2, <1>3, Zenon DEF Rendered

(***************************************************************************)
(* Every step keeps the type of every variable.                            *)
(***************************************************************************)
LEMMA TypeInductive ==
  ASSUME TypeOK, SavesStored, [Next]_vars
  PROVE  TypeOK'
<1> USE DEF tables, refs, effects, calls
<1>1. CASE UNCHANGED vars
  BY <1>1 DEF TypeOK, vars
<1>2. ASSUME NEW p \in Page, RunEffect(p)
      PROVE  TypeOK'
  BY <1>2, EffectTyped DEF RunEffect, TypeOK
<1>3. ASSUME NEW p \in Page, Open(p)
      PROVE  TypeOK'
  <2>1. {[draft |-> d, version |-> draft[d].version, body |-> draft[d].body] :
           d \in {e \in Draft : Live(e)}} \subseteq Offer
    BY DEF TypeOK, Row, Offer
  <2> QED
    BY <1>3, <2>1 DEF Open, TypeOK
<1>4. ASSUME NEW p \in Page, Unmount(p)
      PROVE  TypeOK'
  BY <1>4 DEF Unmount, TypeOK
<1>5. ASSUME NEW p \in Page, Edit(p)
      PROVE  TypeOK'
  <2>1. timer' \in [Page -> BOOLEAN] /\ status' \in [Page -> Statuses]
    BY <1>5, EffectTyped DEF Edit
  <2>2. moves' \in [Page -> 0..MaxMoves]
    BY <1>5, MovesAssumption DEF Edit, TypeOK
  <2> QED
    BY <1>5, <2>1, <2>2 DEF Edit, TypeOK
<1>6. ASSUME NEW p \in Page, Recover(p)
      PROVE  TypeOK'
  <2>1. timer' \in [Page -> BOOLEAN] /\ status' \in [Page -> Statuses]
    BY <1>6, EffectTyped DEF Recover
  <2> QED
    <3>1. PICK offer \in listed[p] : Recover(p)!2!(offer)
      BY <1>6 DEF Recover
    <3>2. offer.draft \in Draft /\ offer.version \in Nat \ {0} /\ offer.body \in Body
      BY DEF TypeOK, Offer
    <3>3. form' \in [Page -> Body] /\ lastSaved' \in [Page -> Body]
      BY <3>1, <3>2 DEF TypeOK
    <3>4. /\ draftId' \in [Page -> Draft \cup {NoDraft}] /\ version' \in [Page -> Nat \ {0}]
          /\ listed' \in [Page -> SUBSET Offer]
      BY <3>1, <3>2 DEF TypeOK
    <3> QED
      BY <1>6, <2>1, <3>3, <3>4 DEF Recover, TypeOK
<1>7. ASSUME NEW p \in Page, Discard(p)
      PROVE  TypeOK'
  <2>1. PICK offer \in listed[p] : Discard(p)!2!(offer)
    BY <1>7 DEF Discard
  <2>2. offer.draft \in Draft
    BY DEF TypeOK, Offer
  <2>3. draft' \in [Draft -> Row]
    BY <2>1, <2>2, CallsTyped DEF TypeOK
  <2>4. listed' \in [Page -> SUBSET Offer]
    BY <2>1 DEF TypeOK
  <2> QED
    BY <1>7, <2>1, <2>2, <2>3, <2>4 DEF Discard, TypeOK
<1>8. ASSUME NEW p \in Page, Submit(p)
      PROVE  TypeOK'
  <2>1. timer' \in [Page -> BOOLEAN] /\ status' \in [Page -> Statuses]
    BY <1>8, EffectTyped DEF Submit
  <2>2. moves' \in [Page -> 0..MaxMoves]
    BY <1>8, MovesAssumption DEF Submit, TypeOK
  <2> QED
    BY <1>8, <2>1, <2>2 DEF Submit, TypeOK, Call
<1>9. ASSUME NEW p \in Page, Fire(p)
      PROVE  TypeOK'
  <2>1. [stage |-> "sent", draft |-> draftId[p], version |-> version[p], body |-> form[p]]
          \in SaveCall
    BY DEF TypeOK, SaveCall
  <2>2. save' \in [Page -> SaveCall]
    BY <1>9, <2>1 DEF Fire, TypeOK
  <2> QED
    BY <1>9, <2>2 DEF Fire, TypeOK
<1>10. ASSUME NEW p \in Page, CreateDraft(p) \/ WriteDraft(p)
       PROVE  TypeOK'
  <2>1. /\ Kept[save[p].body] \in Body /\ save[p] \in SaveCall
        /\ save[p].version + 1 \in Nat \ {0}
    BY BodyAssumption DEF TypeOK, SaveCall
  <2>2. CASE CreateDraft(p)
    <3>1. PICK d \in Draft : draft[d].state = "unused" /\ CreateDraft(p)!2!(d)
      BY <2>2 DEF CreateDraft
    <3>2. draft' \in [Draft -> Row]
      BY <2>1, <3>1 DEF TypeOK, Row
    <3>3. save' \in [Page -> SaveCall]
      <4>0. PICK one \in Nat \ {0} : one = 1
        OBVIOUS
      <4>1. save'[p] = [save[p] EXCEPT !.stage = "ok", !.draft = d, !.version = one]
        BY <3>1, <4>0 DEF TypeOK, SaveCall
      <4>2. save' = [q \in Page |-> save'[q]]
        BY <3>1 DEF TypeOK
      <4>3. \A q \in Page \ {p} : save'[q] = save[q]
        BY <3>1 DEF TypeOK
      <4>4. [save[p] EXCEPT !.stage = "ok", !.draft = d, !.version = one] \in SaveCall
        BY <2>1, CallsTyped
      <4>5. save'[p] \in SaveCall
        BY <4>1, <4>4
      <4> QED
        BY <4>2, <4>3, <4>5 DEF TypeOK
    <3> QED
      BY <2>2, <3>2, <3>3 DEF CreateDraft, TypeOK
  <2>3. CASE WriteDraft(p)
    <3>1. save[p].draft \in Draft
      BY <2>3 DEF WriteDraft, SavesStored
    <3>2. draft' \in [Draft -> Row]
      BY <2>1, <2>3, <3>1, CallsTyped DEF WriteDraft, TypeOK
    <3>3. save' \in [Page -> SaveCall]
      <4>1. save'[p] = [save[p] EXCEPT !.stage = "ok", !.version = save[p].version + 1]
        BY <2>3 DEF WriteDraft, TypeOK, SaveCall
      <4>2. save' = [q \in Page |-> save'[q]]
        BY <2>3 DEF WriteDraft, TypeOK
      <4>3. \A q \in Page \ {p} : save'[q] = save[q]
        BY <2>3 DEF WriteDraft, TypeOK
      <4>4. save'[p] \in SaveCall
        BY <2>1, <4>1 DEF SaveCall
      <4> QED
        BY <4>2, <4>3, <4>4 DEF TypeOK
    <3> QED
      BY <2>3, <3>2, <3>3 DEF WriteDraft, TypeOK
  <2> QED
    BY <1>10, <2>2, <2>3
<1>11. ASSUME NEW p \in Page, ReadDraft(p) \/ DraftMissing(p) \/ RefuseSave(p)
       PROVE  TypeOK'
  <2>1. PICK s \in {"read", "conflict", "failed"} : SaveReaches(p, s)
    BY <1>11 DEF ReadDraft, DraftMissing, RefuseSave
  <2> QED
    BY <2>1, CallsTyped DEF SaveReaches, TypeOK
<1>12. ASSUME NEW p \in Page, SaveAccepted(p) \/ SaveRejected(p) \/ LoseSave(p)
       PROVE  TypeOK'
  <2>1. NoSave \in SaveCall
    BY BodyAssumption DEF NoSave, SaveCall
  <2>2. due' \in [Page -> BOOLEAN]
    BY <1>12, RenderedTyped DEF SaveAccepted, SaveRejected, LoseSave, SaveEnds
  <2>3. save[p] \in SaveCall /\ {"SAVED", "CONFLICT", "ERROR", "OFFLINE"} \subseteq Statuses
    BY DEF TypeOK, Statuses
  <2>4. save' \in [Page -> SaveCall] /\ status' \in [Page -> Statuses]
    BY <1>12, <2>1, <2>3 DEF SaveAccepted, SaveRejected, LoseSave, SaveEnds, TypeOK
  <2>5. /\ draftId' \in [Page -> Draft \cup {NoDraft}] /\ version' \in [Page -> Nat \ {0}]
        /\ lastSaved' \in [Page -> Body]
    BY <1>12, <2>3 DEF SaveAccepted, SaveRejected, LoseSave, TypeOK, SaveCall
  <2> QED
    BY <1>12, <2>2, <2>4, <2>5 DEF SaveAccepted, SaveRejected, LoseSave, SaveEnds, TypeOK
<1>13. ASSUME NEW p \in Page,
              SubmissionAccepted(p) \/ SubmissionRefused(p) \/ LoseSubmission(p)
       PROVE  TypeOK'
  <2>1. NoCall \in Call
    BY DEF NoCall, Call
  <2>2. /\ due' \in [Page -> BOOLEAN] /\ submitting' \in [Page -> BOOLEAN]
        /\ submission' \in [Page -> Call]
    <3>1. SubmissionEnds(p)
      BY <1>13 DEF SubmissionAccepted, SubmissionRefused, LoseSubmission
    <3> QED
      BY <3>1, <2>1, RenderedTyped DEF SubmissionEnds, TypeOK
  <2>3. mount' \in [Page -> {"unopened", "open", "leaving", "unmounted", "closed"}]
    BY <1>13 DEF SubmissionAccepted, SubmissionRefused, LoseSubmission, SubmissionEnds, TypeOK
  <2>4. [stage |-> "sent", draft |-> draftId[p]] \in Call /\ "IDLE" \in Statuses
    BY DEF TypeOK, Call, Statuses
  <2>5. removal' \in [Page -> Call] /\ status' \in [Page -> Statuses]
    BY <1>13, <2>4 DEF SubmissionAccepted, SubmissionRefused, LoseSubmission, TypeOK
  <2> QED
    BY <1>13, <2>2, <2>3, <2>5
    DEF SubmissionAccepted, SubmissionRefused, LoseSubmission, SubmissionEnds, TypeOK
<1>14. ASSUME NEW p \in Page, CreateDocument(p)
       PROVE  TypeOK'
  <2>1. submission[p].draft \in Draft \cup {NoDraft}
    BY DEF TypeOK, Call
  <2>2. documents' \in SUBSET [page : Page, draft : Draft \cup {NoDraft}]
    BY <1>14, <2>1 DEF CreateDocument, TypeOK
  <2>3. submission' \in [Page -> Call]
    BY <1>14 DEF CreateDocument, TypeOK, Call
  <2>4. \A d \in Draft : [draft EXCEPT ![d].state = "deleted"] \in [Draft -> Row]
    BY DEF TypeOK, Row
  <2>5. draft' \in [Draft -> Row]
    BY <1>14, <2>1, <2>4 DEF CreateDocument, TypeOK
  <2> QED
    BY <1>14, <2>2, <2>3, <2>5 DEF CreateDocument, TypeOK
<1>15. ASSUME NEW p \in Page, RefuseDocument(p)
       PROVE  TypeOK'
  BY <1>15 DEF RefuseDocument, TypeOK, Call
<1>16. ASSUME NEW p \in Page, DeleteDraft(p)
       PROVE  TypeOK'
  <2>1. removal' \in [Page -> Call]
    BY <1>16 DEF DeleteDraft, TypeOK, Call
  <2>2. \A d : [draft EXCEPT ![d].state = "deleted"] \in [Draft -> Row]
    BY DEF TypeOK, Row
  <2> QED
    BY <1>16, <2>1, <2>2 DEF DeleteDraft, TypeOK
<1>17. ASSUME NEW p \in Page, ForgetDraft(p)
       PROVE  TypeOK'
  <2>1. NoCall \in Call
    BY DEF NoCall, Call
  <2>2. due' \in [Page -> BOOLEAN]
    BY <1>17, RenderedTyped DEF ForgetDraft
  <2> QED
    <3>1. /\ removal' \in [Page -> Call] /\ status' \in [Page -> Statuses]
          /\ draftId' \in [Page -> Draft \cup {NoDraft}] /\ version' \in [Page -> Nat \ {0}]
      BY <1>17, <2>1 DEF ForgetDraft, TypeOK, Statuses
    <3> QED
      BY <1>17, <2>2, <3>1 DEF ForgetDraft, TypeOK
<1> QED
  BY <1>1, <1>2, <1>3, <1>4, <1>5, <1>6, <1>7, <1>8, <1>9, <1>10, <1>11, <1>12, <1>13, <1>14,
     <1>15, <1>16, <1>17
  DEF Next, User, Browser, Server, Network

--------------------------------------------------------------------------------
(***************************************************************************)
(* What the two steps with alternatives do: a timer that fires starts a    *)
(* save or finds one under way; a document request that finds no document  *)
(* creates it and deletes at most its own draft.                           *)
(***************************************************************************)
FireStep(p) ==
  /\ UNCHANGED <<draft, documents, discarded, mount, form, listed, draftId, version, lastSaved,
                 status, submission, removal>>
  /\ timer[p] /\ \A q \in Page : timer'[q] => timer[q]
  /\ \A q \in Page : (q = p /\ ~Saving(p)) \/ save'[q] = save[q]
  /\ ~Saving(p) => /\ save'[p].stage = "sent" /\ save'[p].draft = draftId[p]
                    /\ save'[p].version = version[p] /\ save'[p].body = form[p]

(***************************************************************************)
(* Fire is the step described.                                             *)
(***************************************************************************)
LEMMA FireDoes ==
  ASSUME TypeOK, NEW p \in Page, Fire(p)
  PROVE  FireStep(p)
BY DEF Fire, FireStep, TypeOK, tables, refs

DocumentStep(p) ==
  /\ UNCHANGED <<discarded, mount, form, listed, draftId, version, lastSaved, timer, due, status,
                 save, removal>>
  /\ submission[p].stage = "sent" /\ submission'[p].draft = submission[p].draft
  /\ \A q \in Page \ {p} : submission'[q] = submission[q]
  /\ Submitted(p)'
  /\ \A q \in Page : Submitted(q) => Submitted(q)'
  /\ \A d \in Draft :
       \/ draft'[d] = draft[d]
       \/ /\ d = submission[p].draft /\ Live(d) /\ ~Submitted(p)
          /\ draft'[d].state = "deleted" /\ draft'[d].writer = draft[d].writer
          /\ draft'[d].version = draft[d].version
  /\ SendsDraft =>
       \A m \in documents' :
         \/ m \in documents
         \/ m.draft = submission[p].draft /\ (m.draft \in Draft => ~Live(m.draft)')

(***************************************************************************)
(* CreateDocument is the step described.                                   *)
(***************************************************************************)
LEMMA CreateDocumentDoes ==
  ASSUME TypeOK, NEW p \in Page, CreateDocument(p)
  PROVE  DocumentStep(p)
<1> USE DEF tables, refs, effects, calls
<1>0. /\ submission[p].stage = "sent" /\ submission'[p].draft = submission[p].draft
      /\ \A q \in Page \ {p} : submission'[q] = submission[q]
  BY DEF CreateDocument, TypeOK, Call
<1>1. CASE Submitted(p)
  <2>1. UNCHANGED <<draft, documents>>
    BY <1>1 DEF CreateDocument
  <2> QED
    BY <1>0, <1>1, <2>1 DEF CreateDocument, DocumentStep, Submitted
<1>2. CASE ~Submitted(p)
  <2> DEFINE new == [page |-> p, draft |-> submission[p].draft]
  <2>1. documents' = documents \cup {new} /\ new.page = p /\ new.draft = submission[p].draft
    BY <1>2 DEF CreateDocument
  <2> HIDE DEF new
  <2>2. \/ UNCHANGED draft
           /\ ~(SendsDraft /\ submission[p].draft # NoDraft /\ Live(submission[p].draft))
        \/ /\ submission[p].draft # NoDraft /\ Live(submission[p].draft)
           /\ draft' = [draft EXCEPT ![submission[p].draft].state = "deleted"]
    BY <1>2 DEF CreateDocument
  <2>3. \A d \in Draft :
       \/ /\ draft'[d] = draft[d]
          /\ SendsDraft /\ d = submission[p].draft => ~Live(d)
       \/ /\ d = submission[p].draft /\ Live(d)
          /\ draft'[d].state = "deleted" /\ draft'[d].writer = draft[d].writer
          /\ draft'[d].version = draft[d].version
    BY <2>2, DraftAssumption DEF TypeOK, Row
  <2>4. Submitted(p)' /\ \A q \in Page : Submitted(q) => Submitted(q)'
    BY <2>1 DEF Submitted
  <2>5. SendsDraft =>
          \A m \in documents' :
            \/ m \in documents
            \/ m.draft = submission[p].draft /\ (m.draft \in Draft => ~Live(m.draft)')
    BY <2>1, <2>3 DEF Live
  <2> QED
    BY <1>0, <1>2, <2>3, <2>4, <2>5 DEF CreateDocument, DocumentStep
<1> QED
  BY <1>1, <1>2

(***************************************************************************)
(* A draft that was created is never uncreated, and only created drafts    *)
(* are spoken of.                                                          *)
(***************************************************************************)
LEMMA KnownInductive ==
  ASSUME TypeOK, SavesStored, DraftsKnown, [Next]_vars
  PROVE  DraftsKnown'
<1>1. ASSUME NEW p \in Page, Fire(p)
      PROVE  DraftsKnown'
  <2>1. FireStep(p)
    BY <1>1, FireDoes
  <2> QED
    BY <2>1 DEF FireStep, DraftsKnown, Known
<1>2. ASSUME NEW p \in Page, CreateDocument(p)
      PROVE  DraftsKnown'
  <2>1. DocumentStep(p)
    BY <1>2, CreateDocumentDoes
  <2> QED
    BY <2>1 DEF DocumentStep, DraftsKnown, Known
<1> USE DraftAssumption DEF tables, refs, effects, calls, DraftsKnown, Known, Live, TypeOK,
        SaveCall, Call, Offer, Row, NoSave, NoCall, SavesStored
<1>3. CASE UNCHANGED vars
  BY <1>3 DEF vars
<1>4. ASSUME NEW p \in Page, RunEffect(p)
      PROVE  DraftsKnown'
  BY <1>4 DEF RunEffect, Effect
<1>5. ASSUME NEW p \in Page, Open(p)
      PROVE  DraftsKnown'
  BY <1>5 DEF Open
<1>6. ASSUME NEW p \in Page, Unmount(p)
      PROVE  DraftsKnown'
  BY <1>6 DEF Unmount
<1>7. ASSUME NEW p \in Page, Edit(p)
      PROVE  DraftsKnown'
  BY <1>7 DEF Edit, Effect
<1>8. ASSUME NEW p \in Page, Recover(p)
      PROVE  DraftsKnown'
  BY <1>8 DEF Recover, Effect
<1>9. ASSUME NEW p \in Page, Discard(p)
      PROVE  DraftsKnown'
  BY <1>9 DEF Discard
<1>10. ASSUME NEW p \in Page, Submit(p)
       PROVE  DraftsKnown'
  BY <1>10 DEF Submit, Effect
<1>11. ASSUME NEW p \in Page, CreateDraft(p)
       PROVE  DraftsKnown'
  BY <1>11 DEF CreateDraft
<1>12. ASSUME NEW p \in Page, ReadDraft(p)
       PROVE  DraftsKnown'
  BY <1>12 DEF ReadDraft, SaveReaches
<1>13. ASSUME NEW p \in Page, DraftMissing(p)
       PROVE  DraftsKnown'
  BY <1>13 DEF DraftMissing, SaveReaches
<1>14. ASSUME NEW p \in Page, RefuseSave(p)
       PROVE  DraftsKnown'
  BY <1>14 DEF RefuseSave, SaveReaches
<1>15. ASSUME NEW p \in Page, WriteDraft(p)
       PROVE  DraftsKnown'
  BY <1>15 DEF WriteDraft
<1>16. ASSUME NEW p \in Page, SaveAccepted(p)
       PROVE  DraftsKnown'
  BY <1>16 DEF SaveAccepted, SaveEnds, Rendered
<1>17. ASSUME NEW p \in Page, SaveRejected(p)
       PROVE  DraftsKnown'
  BY <1>17 DEF SaveRejected, SaveEnds, Rendered
<1>18. ASSUME NEW p \in Page, LoseSave(p)
       PROVE  DraftsKnown'
  BY <1>18 DEF LoseSave, SaveEnds, Rendered
<1>19. ASSUME NEW p \in Page, SubmissionAccepted(p)
       PROVE  DraftsKnown'
  BY <1>19 DEF SubmissionAccepted, SubmissionEnds
<1>20. ASSUME NEW p \in Page, SubmissionRefused(p)
       PROVE  DraftsKnown'
  BY <1>20 DEF SubmissionRefused, SubmissionEnds
<1>21. ASSUME NEW p \in Page, LoseSubmission(p)
       PROVE  DraftsKnown'
  BY <1>21 DEF LoseSubmission, SubmissionEnds
<1>22. ASSUME NEW p \in Page, RefuseDocument(p)
       PROVE  DraftsKnown'
  BY <1>22 DEF RefuseDocument
<1>23. ASSUME NEW p \in Page, DeleteDraft(p)
       PROVE  DraftsKnown'
  BY <1>23 DEF DeleteDraft
<1>24. ASSUME NEW p \in Page, ForgetDraft(p)
       PROVE  DraftsKnown'
  BY <1>24 DEF ForgetDraft, Rendered
<1> QED
  BY <1>1, <1>2, <1>3, <1>4, <1>5, <1>6, <1>7, <1>8, <1>9, <1>10, <1>11, <1>12, <1>13, <1>14,
     <1>15, <1>16, <1>17, <1>18, <1>19, <1>20, <1>21, <1>22, <1>23, <1>24
  DEF Next, User, Browser, Server, Network

(***************************************************************************)
(* A page does nothing before it is opened.                                *)
(***************************************************************************)
LEMMA UnopenedInductive ==
  ASSUME TypeOK, SavesStored, UnopenedIdle, [Next]_vars
  PROVE  UnopenedIdle'
<1>1. ASSUME NEW p \in Page, Fire(p)
      PROVE  UnopenedIdle'
  <2>1. FireStep(p)
    BY <1>1, FireDoes
  <2> QED
    BY <2>1 DEF FireStep, UnopenedIdle, Saving, OwnLive, Live
<1>2. ASSUME NEW p \in Page, CreateDocument(p)
      PROVE  UnopenedIdle'
  <2>1. DocumentStep(p)
    BY <1>2, CreateDocumentDoes
  <2> QED
    BY <2>1 DEF DocumentStep, UnopenedIdle, Saving, OwnLive, Live
<1> USE DraftAssumption DEF tables, refs, effects, calls, UnopenedIdle, SavesStored, Mounted,
        Saving, OwnLive, Live, TypeOK, SaveCall, Row, NoSave
<1>3. CASE UNCHANGED vars
  BY <1>3 DEF vars
<1>4. ASSUME NEW p \in Page, RunEffect(p)
      PROVE  UnopenedIdle'
  BY <1>4 DEF RunEffect, Effect
<1>5. ASSUME NEW p \in Page, Open(p)
      PROVE  UnopenedIdle'
  BY <1>5 DEF Open
<1>6. ASSUME NEW p \in Page, Unmount(p)
      PROVE  UnopenedIdle'
  BY <1>6 DEF Unmount
<1>7. ASSUME NEW p \in Page, Edit(p)
      PROVE  UnopenedIdle'
  BY <1>7 DEF Edit, Effect
<1>8. ASSUME NEW p \in Page, Recover(p)
      PROVE  UnopenedIdle'
  BY <1>8 DEF Recover, Effect
<1>9. ASSUME NEW p \in Page, Discard(p)
      PROVE  UnopenedIdle'
  BY <1>9 DEF Discard
<1>10. ASSUME NEW p \in Page, Submit(p)
       PROVE  UnopenedIdle'
  BY <1>10 DEF Submit, Effect
<1>11. ASSUME NEW p \in Page, CreateDraft(p)
       PROVE  UnopenedIdle'
  BY <1>11 DEF CreateDraft
<1>12. ASSUME NEW p \in Page, ReadDraft(p)
       PROVE  UnopenedIdle'
  BY <1>12 DEF ReadDraft, SaveReaches
<1>13. ASSUME NEW p \in Page, DraftMissing(p)
       PROVE  UnopenedIdle'
  BY <1>13 DEF DraftMissing, SaveReaches
<1>14. ASSUME NEW p \in Page, RefuseSave(p)
       PROVE  UnopenedIdle'
  BY <1>14 DEF RefuseSave, SaveReaches
<1>15. ASSUME NEW p \in Page, WriteDraft(p)
       PROVE  UnopenedIdle'
  BY <1>15 DEF WriteDraft
<1>16. ASSUME NEW p \in Page, SaveAccepted(p)
       PROVE  UnopenedIdle'
  BY <1>16 DEF SaveAccepted, SaveEnds, Rendered
<1>17. ASSUME NEW p \in Page, SaveRejected(p)
       PROVE  UnopenedIdle'
  BY <1>17 DEF SaveRejected, SaveEnds, Rendered
<1>18. ASSUME NEW p \in Page, LoseSave(p)
       PROVE  UnopenedIdle'
  BY <1>18 DEF LoseSave, SaveEnds, Rendered
<1>19. ASSUME NEW p \in Page, SubmissionAccepted(p)
       PROVE  UnopenedIdle'
  BY <1>19 DEF SubmissionAccepted, SubmissionEnds
<1>20. ASSUME NEW p \in Page, SubmissionRefused(p)
       PROVE  UnopenedIdle'
  BY <1>20 DEF SubmissionRefused, SubmissionEnds
<1>21. ASSUME NEW p \in Page, LoseSubmission(p)
       PROVE  UnopenedIdle'
  BY <1>21 DEF LoseSubmission, SubmissionEnds
<1>22. ASSUME NEW p \in Page, RefuseDocument(p)
       PROVE  UnopenedIdle'
  BY <1>22 DEF RefuseDocument
<1>23. ASSUME NEW p \in Page, DeleteDraft(p)
       PROVE  UnopenedIdle'
  BY <1>23 DEF DeleteDraft
<1>24. ASSUME NEW p \in Page, ForgetDraft(p)
       PROVE  UnopenedIdle'
  BY <1>24 DEF ForgetDraft, Rendered
<1> QED
  BY <1>1, <1>2, <1>3, <1>4, <1>5, <1>6, <1>7, <1>8, <1>9, <1>10, <1>11, <1>12, <1>13, <1>14,
     <1>15, <1>16, <1>17, <1>18, <1>19, <1>20, <1>21, <1>22, <1>23, <1>24
  DEF Next, User, Browser, Server, Network

(***************************************************************************)
(* What the banner of a page offers stays the work of others.              *)
(***************************************************************************)
LEMMA OffersInductive ==
  ASSUME TypeOK, SavesStored, DraftsKnown, UnopenedIdle, OffersOfOthers, [Next]_vars
  PROVE  OffersOfOthers'
<1>1. ASSUME NEW p \in Page, Fire(p)
      PROVE  OffersOfOthers'
  <2>1. FireStep(p)
    BY <1>1, FireDoes
  <2> QED
    BY <2>1 DEF FireStep, OffersOfOthers, OwnLive, Live
<1>2. ASSUME NEW p \in Page, CreateDocument(p)
      PROVE  OffersOfOthers'
  <2>1. DocumentStep(p)
    BY <1>2, CreateDocumentDoes
  <2>2. \A q \in Page : \A offer \in listed[q] : offer.draft \in Draft
    BY DEF TypeOK, Offer
  <2> QED
    BY <2>1, <2>2 DEF DocumentStep, OffersOfOthers, OwnLive, Live
<1>3. ASSUME NEW p \in Page, Open(p)
      PROVE  OffersOfOthers'
  <2>1. listed'[p] = {[draft |-> d, version |-> draft[d].version, body |-> draft[d].body] :
                        d \in {e \in Draft : Live(e)}}
    BY <1>3 DEF Open, TypeOK
  <2>2. \A offer \in listed'[p] :
          /\ offer.draft \in Draft
          /\ Live(offer.draft)
          /\ offer = [draft |-> offer.draft, version |-> draft[offer.draft].version,
                      body |-> draft[offer.draft].body]
    BY <2>1
  <2>3. /\ draftId[p] = NoDraft /\ save[p].draft = NoDraft
        /\ \A d \in Draft : ~OwnLive(d, p)
    BY <1>3 DEF Open, UnopenedIdle
  <2>4. /\ UNCHANGED <<draft, draftId, save>>
        /\ \A q \in Page \ {p} : listed'[q] = listed[q]
    BY <1>3 DEF Open, TypeOK, tables, refs, calls
  <2>5. \A offer, other \in listed'[p] : other.draft = offer.draft => other = offer
    BY <2>2
  <2>6. \A offer \in listed'[p] :
          offer.draft \notin {draftId[p], save[p].draft} /\ ~OwnLive(offer.draft, p)
    BY <2>2, <2>3, DraftAssumption
  <2> QED
    BY <2>4, <2>5, <2>6 DEF OffersOfOthers, OwnLive, Live
<1> USE DraftAssumption DEF tables, refs, effects, calls, OffersOfOthers, DraftsKnown,
        UnopenedIdle, SavesStored, Mounted, Saving, OwnLive, Known, Live, TypeOK, SaveCall,
        Offer, Row, NoSave
<1>4. CASE UNCHANGED vars
  BY <1>4 DEF vars
<1>5. ASSUME NEW p \in Page, RunEffect(p)
      PROVE  OffersOfOthers'
  BY <1>5 DEF RunEffect, Effect
<1>6. ASSUME NEW p \in Page, Unmount(p)
      PROVE  OffersOfOthers'
  BY <1>6 DEF Unmount
<1>7. ASSUME NEW p \in Page, Edit(p)
      PROVE  OffersOfOthers'
  BY <1>7 DEF Edit, Effect
<1>8. ASSUME NEW p \in Page, Recover(p)
      PROVE  OffersOfOthers'
  BY <1>8 DEF Recover, Effect
<1>9. ASSUME NEW p \in Page, Discard(p)
      PROVE  OffersOfOthers'
  BY <1>9 DEF Discard
<1>10. ASSUME NEW p \in Page, Submit(p)
       PROVE  OffersOfOthers'
  BY <1>10 DEF Submit, Effect
<1>11. ASSUME NEW p \in Page, CreateDraft(p)
       PROVE  OffersOfOthers'
  BY <1>11 DEF CreateDraft
<1>12. ASSUME NEW p \in Page, ReadDraft(p)
       PROVE  OffersOfOthers'
  BY <1>12 DEF ReadDraft, SaveReaches
<1>13. ASSUME NEW p \in Page, DraftMissing(p)
       PROVE  OffersOfOthers'
  BY <1>13 DEF DraftMissing, SaveReaches
<1>14. ASSUME NEW p \in Page, RefuseSave(p)
       PROVE  OffersOfOthers'
  BY <1>14 DEF RefuseSave, SaveReaches
<1>15. ASSUME NEW p \in Page, WriteDraft(p)
       PROVE  OffersOfOthers'
  BY <1>15 DEF WriteDraft
<1>16. ASSUME NEW p \in Page, SaveAccepted(p)
       PROVE  OffersOfOthers'
  BY <1>16 DEF SaveAccepted, SaveEnds, Rendered
<1>17. ASSUME NEW p \in Page, SaveRejected(p)
       PROVE  OffersOfOthers'
  BY <1>17 DEF SaveRejected, SaveEnds, Rendered
<1>18. ASSUME NEW p \in Page, LoseSave(p)
       PROVE  OffersOfOthers'
  BY <1>18 DEF LoseSave, SaveEnds, Rendered
<1>19. ASSUME NEW p \in Page, SubmissionAccepted(p)
       PROVE  OffersOfOthers'
  BY <1>19 DEF SubmissionAccepted, SubmissionEnds
<1>20. ASSUME NEW p \in Page, SubmissionRefused(p)
       PROVE  OffersOfOthers'
  BY <1>20 DEF SubmissionRefused, SubmissionEnds
<1>21. ASSUME NEW p \in Page, LoseSubmission(p)
       PROVE  OffersOfOthers'
  BY <1>21 DEF LoseSubmission, SubmissionEnds
<1>22. ASSUME NEW p \in Page, RefuseDocument(p)
       PROVE  OffersOfOthers'
  BY <1>22 DEF RefuseDocument
<1>23. ASSUME NEW p \in Page, DeleteDraft(p)
       PROVE  OffersOfOthers'
  BY <1>23 DEF DeleteDraft
<1>24. ASSUME NEW p \in Page, ForgetDraft(p)
       PROVE  OffersOfOthers'
  BY <1>24 DEF ForgetDraft, Rendered
<1> QED
  BY <1>1, <1>2, <1>3, <1>4, <1>5, <1>6, <1>7, <1>8, <1>9, <1>10, <1>11, <1>12, <1>13, <1>14,
     <1>15, <1>16, <1>17, <1>18, <1>19, <1>20, <1>21, <1>22, <1>23, <1>24
  DEF Next, User, Browser, Server, Network

(***************************************************************************)
(* What an accepted save stored is still there when the page shows it as   *)
(* saved.                                                                  *)
(***************************************************************************)
LEMMA SavesInductive ==
  ASSUME TypeOK, DraftsKnown, UnopenedIdle, OffersOfOthers, SavesStored, [Next]_vars
  PROVE  SavesStored'
<1>1. ASSUME NEW p \in Page, Fire(p)
      PROVE  SavesStored'
  <2>1. FireStep(p)
    BY <1>1, FireDoes
  <2> QED
    BY <2>1 DEF FireStep, SavesStored, Stored, OwnLive, Saving, Live
<1>2. ASSUME NEW p \in Page, CreateDocument(p)
      PROVE  SavesStored'
  <2>1. DocumentStep(p)
    BY <1>2, CreateDocumentDoes
  <2> QED
    BY <2>1 DEF DocumentStep, SavesStored, Stored, OwnLive, Saving, Live
<1> USE DraftAssumption DEF tables, refs, effects, calls, SavesStored, Stored, OffersOfOthers,
        DraftsKnown, UnopenedIdle, Mounted, Saving, OwnLive, Known, Live, TypeOK, SaveCall,
        Call, Offer, Row, NoSave, NoCall
<1>3. CASE UNCHANGED vars
  BY <1>3 DEF vars
<1>4. ASSUME NEW p \in Page, RunEffect(p)
      PROVE  SavesStored'
  BY <1>4 DEF RunEffect, Effect
<1>5. ASSUME NEW p \in Page, Open(p)
      PROVE  SavesStored'
  BY <1>5 DEF Open
<1>6. ASSUME NEW p \in Page, Unmount(p)
      PROVE  SavesStored'
  BY <1>6 DEF Unmount
<1>7. ASSUME NEW p \in Page, Edit(p)
      PROVE  SavesStored'
  BY <1>7 DEF Edit, Effect
<1>8. ASSUME NEW p \in Page, Recover(p)
      PROVE  SavesStored'
  BY <1>8 DEF Recover, Effect
<1>9. ASSUME NEW p \in Page, Discard(p)
      PROVE  SavesStored'
  BY <1>9 DEF Discard
<1>10. ASSUME NEW p \in Page, Submit(p)
       PROVE  SavesStored'
  BY <1>10 DEF Submit, Effect
<1>11. ASSUME NEW p \in Page, CreateDraft(p)
       PROVE  SavesStored'
  BY <1>11 DEF CreateDraft
<1>12. ASSUME NEW p \in Page, ReadDraft(p)
       PROVE  SavesStored'
  BY <1>12 DEF ReadDraft, SaveReaches
<1>13. ASSUME NEW p \in Page, DraftMissing(p)
       PROVE  SavesStored'
  BY <1>13 DEF DraftMissing, SaveReaches
<1>14. ASSUME NEW p \in Page, RefuseSave(p)
       PROVE  SavesStored'
  BY <1>14 DEF RefuseSave, SaveReaches
<1>15. ASSUME NEW p \in Page, WriteDraft(p)
       PROVE  SavesStored'
  BY <1>15 DEF WriteDraft
<1>16. ASSUME NEW p \in Page, SaveAccepted(p)
       PROVE  SavesStored'
  BY <1>16 DEF SaveAccepted, SaveEnds, Rendered
<1>17. ASSUME NEW p \in Page, SaveRejected(p)
       PROVE  SavesStored'
  BY <1>17 DEF SaveRejected, SaveEnds, Rendered
<1>18. ASSUME NEW p \in Page, LoseSave(p)
       PROVE  SavesStored'
  BY <1>18 DEF LoseSave, SaveEnds, Rendered
<1>19. ASSUME NEW p \in Page, SubmissionAccepted(p)
       PROVE  SavesStored'
  BY <1>19 DEF SubmissionAccepted, SubmissionEnds
<1>20. ASSUME NEW p \in Page, SubmissionRefused(p)
       PROVE  SavesStored'
  BY <1>20 DEF SubmissionRefused, SubmissionEnds
<1>21. ASSUME NEW p \in Page, LoseSubmission(p)
       PROVE  SavesStored'
  BY <1>21 DEF LoseSubmission, SubmissionEnds
<1>22. ASSUME NEW p \in Page, RefuseDocument(p)
       PROVE  SavesStored'
  BY <1>22 DEF RefuseDocument
<1>23. ASSUME NEW p \in Page, DeleteDraft(p)
       PROVE  SavesStored'
  BY <1>23 DEF DeleteDraft
<1>24. ASSUME NEW p \in Page, ForgetDraft(p)
       PROVE  SavesStored'
  BY <1>24 DEF ForgetDraft, Rendered
<1> QED
  BY <1>1, <1>2, <1>3, <1>4, <1>5, <1>6, <1>7, <1>8, <1>9, <1>10, <1>11, <1>12, <1>13, <1>14,
     <1>15, <1>16, <1>17, <1>18, <1>19, <1>20, <1>21, <1>22, <1>23, <1>24
  DEF Next, User, Browser, Server, Network

(***************************************************************************)
(* A page that loses no answer knows the version it wrote.                 *)
(***************************************************************************)
LEMMA VersionsInductive ==
  ASSUME TypeOK, SavesStored, DraftsKnown, UnopenedIdle, OffersOfOthers, VersionsCurrent, [Next]_vars
  PROVE  VersionsCurrent'
<1>1. ASSUME NEW p \in Page, Fire(p)
      PROVE  VersionsCurrent'
  <2>1. FireStep(p)
    BY <1>1, FireDoes
  <2> QED
    BY <2>1 DEF FireStep, VersionsCurrent, OwnLive, Live, Saving
<1>2. ASSUME NEW p \in Page, CreateDocument(p)
      PROVE  VersionsCurrent'
  <2>1. DocumentStep(p)
    BY <1>2, CreateDocumentDoes
  <2>2. \A q \in Page : save[q].stage = "conflict" => save[q].draft \in Draft
    BY DEF SavesStored
  <2> QED
    BY <2>1, <2>2 DEF DocumentStep, VersionsCurrent, OwnLive, Live
<1> USE DraftAssumption DEF tables, refs, effects, calls, VersionsCurrent, VersionMatches,
        SavesStored, Stored, OffersOfOthers, DraftsKnown, UnopenedIdle, Mounted, Saving,
        OwnLive, Known, Live, TypeOK, SaveCall, Call, Offer, Row, NoSave, NoCall
<1>3. CASE UNCHANGED vars
  BY <1>3 DEF vars
<1>4. ASSUME NEW p \in Page, RunEffect(p)
      PROVE  VersionsCurrent'
  BY <1>4 DEF RunEffect, Effect
<1>5. ASSUME NEW p \in Page, Open(p)
      PROVE  VersionsCurrent'
  BY <1>5 DEF Open
<1>6. ASSUME NEW p \in Page, Unmount(p)
      PROVE  VersionsCurrent'
  BY <1>6 DEF Unmount
<1>7. ASSUME NEW p \in Page, Edit(p)
      PROVE  VersionsCurrent'
  BY <1>7 DEF Edit, Effect
<1>8. ASSUME NEW p \in Page, Recover(p)
      PROVE  VersionsCurrent'
  BY <1>8 DEF Recover, Effect
<1>9. ASSUME NEW p \in Page, Discard(p)
      PROVE  VersionsCurrent'
  BY <1>9 DEF Discard
<1>10. ASSUME NEW p \in Page, Submit(p)
       PROVE  VersionsCurrent'
  BY <1>10 DEF Submit, Effect
<1>11. ASSUME NEW p \in Page, CreateDraft(p)
       PROVE  VersionsCurrent'
  BY <1>11 DEF CreateDraft
<1>12. ASSUME NEW p \in Page, ReadDraft(p)
       PROVE  VersionsCurrent'
  BY <1>12 DEF ReadDraft, SaveReaches
<1>13. ASSUME NEW p \in Page, DraftMissing(p)
       PROVE  VersionsCurrent'
  BY <1>13 DEF DraftMissing, SaveReaches
<1>14. ASSUME NEW p \in Page, RefuseSave(p)
       PROVE  VersionsCurrent'
  BY <1>14 DEF RefuseSave, SaveReaches
<1>15. ASSUME NEW p \in Page, WriteDraft(p)
       PROVE  VersionsCurrent'
  BY <1>15 DEF WriteDraft
<1>16. ASSUME NEW p \in Page, SaveAccepted(p)
       PROVE  VersionsCurrent'
  BY <1>16 DEF SaveAccepted, SaveEnds, Rendered
<1>17. ASSUME NEW p \in Page, SaveRejected(p)
       PROVE  VersionsCurrent'
  BY <1>17 DEF SaveRejected, SaveEnds, Rendered
<1>18. ASSUME NEW p \in Page, LoseSave(p)
       PROVE  VersionsCurrent'
  BY <1>18 DEF LoseSave, SaveEnds, Rendered
<1>19. ASSUME NEW p \in Page, SubmissionAccepted(p)
       PROVE  VersionsCurrent'
  BY <1>19 DEF SubmissionAccepted, SubmissionEnds
<1>20. ASSUME NEW p \in Page, SubmissionRefused(p)
       PROVE  VersionsCurrent'
  BY <1>20 DEF SubmissionRefused, SubmissionEnds
<1>21. ASSUME NEW p \in Page, LoseSubmission(p)
       PROVE  VersionsCurrent'
  BY <1>21 DEF LoseSubmission, SubmissionEnds
<1>22. ASSUME NEW p \in Page, RefuseDocument(p)
       PROVE  VersionsCurrent'
  BY <1>22 DEF RefuseDocument
<1>23. ASSUME NEW p \in Page, DeleteDraft(p)
       PROVE  VersionsCurrent'
  BY <1>23 DEF DeleteDraft
<1>24. ASSUME NEW p \in Page, ForgetDraft(p)
       PROVE  VersionsCurrent'
  BY <1>24 DEF ForgetDraft, Rendered
<1> QED
  BY <1>1, <1>2, <1>3, <1>4, <1>5, <1>6, <1>7, <1>8, <1>9, <1>10, <1>11, <1>12, <1>13, <1>14,
     <1>15, <1>16, <1>17, <1>18, <1>19, <1>20, <1>21, <1>22, <1>23, <1>24
  DEF Next, User, Browser, Server, Network

(***************************************************************************)
(* Nothing is deleted for a document that does not exist.                  *)
(***************************************************************************)
LEMMA DocumentsInductive ==
  ASSUME TypeOK, TypeOK', SavesStored, DraftsKnown, DocumentsFirst, [Next]_vars
  PROVE  DocumentsFirst'
<1>1. ASSUME NEW p \in Page, Fire(p)
      PROVE  DocumentsFirst'
  <2>1. FireStep(p)
    BY <1>1, FireDoes
  <2> QED
    BY <2>1 DEF FireStep, DocumentsFirst, Submitted
<1>2. ASSUME NEW p \in Page, CreateDocument(p)
      PROVE  DocumentsFirst'
  <2>1. DocumentStep(p)
    BY <1>2, CreateDocumentDoes
  <2>2. \A d \in Draft : draft'[d].state \in {"unused", "live", "deleted"}
    BY DEF TypeOK, Row
  <2>3. Known(submission[p].draft)'
    BY <2>1 DEF DraftsKnown, DocumentStep, Known
  <2>4. SendsDraft => \A m \in documents' : m.draft \in Draft => draft'[m.draft].state = "deleted"
    BY <2>1, <2>2, <2>3 DEF DocumentStep, DocumentsFirst, Known, Live
  <2> QED
    BY <2>1, <2>4 DEF DocumentStep, DocumentsFirst
<1> USE DraftAssumption DEF tables, refs, effects, calls, DocumentsFirst, Submitted,
        DraftsKnown, SavesStored, Known, Live, TypeOK, SaveCall, Call, Row, NoCall
<1>3. CASE UNCHANGED vars
  BY <1>3 DEF vars
<1>4. ASSUME NEW p \in Page, RunEffect(p)
      PROVE  DocumentsFirst'
  BY <1>4 DEF RunEffect, Effect
<1>5. ASSUME NEW p \in Page, Open(p)
      PROVE  DocumentsFirst'
  BY <1>5 DEF Open
<1>6. ASSUME NEW p \in Page, Unmount(p)
      PROVE  DocumentsFirst'
  BY <1>6 DEF Unmount
<1>7. ASSUME NEW p \in Page, Edit(p)
      PROVE  DocumentsFirst'
  BY <1>7 DEF Edit, Effect
<1>8. ASSUME NEW p \in Page, Recover(p)
      PROVE  DocumentsFirst'
  BY <1>8 DEF Recover, Effect
<1>9. ASSUME NEW p \in Page, Discard(p)
      PROVE  DocumentsFirst'
  BY <1>9 DEF Discard
<1>10. ASSUME NEW p \in Page, Submit(p)
       PROVE  DocumentsFirst'
  BY <1>10 DEF Submit, Effect
<1>11. ASSUME NEW p \in Page, CreateDraft(p)
       PROVE  DocumentsFirst'
  BY <1>11 DEF CreateDraft
<1>12. ASSUME NEW p \in Page, ReadDraft(p)
       PROVE  DocumentsFirst'
  BY <1>12 DEF ReadDraft, SaveReaches
<1>13. ASSUME NEW p \in Page, DraftMissing(p)
       PROVE  DocumentsFirst'
  BY <1>13 DEF DraftMissing, SaveReaches
<1>14. ASSUME NEW p \in Page, RefuseSave(p)
       PROVE  DocumentsFirst'
  BY <1>14 DEF RefuseSave, SaveReaches
<1>15. ASSUME NEW p \in Page, WriteDraft(p)
       PROVE  DocumentsFirst'
  BY <1>15 DEF WriteDraft
<1>16. ASSUME NEW p \in Page, SaveAccepted(p)
       PROVE  DocumentsFirst'
  BY <1>16 DEF SaveAccepted, SaveEnds, Rendered
<1>17. ASSUME NEW p \in Page, SaveRejected(p)
       PROVE  DocumentsFirst'
  BY <1>17 DEF SaveRejected, SaveEnds, Rendered
<1>18. ASSUME NEW p \in Page, LoseSave(p)
       PROVE  DocumentsFirst'
  BY <1>18 DEF LoseSave, SaveEnds, Rendered
<1>19. ASSUME NEW p \in Page, SubmissionAccepted(p)
       PROVE  DocumentsFirst'
  BY <1>19 DEF SubmissionAccepted, SubmissionEnds
<1>20. ASSUME NEW p \in Page, SubmissionRefused(p)
       PROVE  DocumentsFirst'
  BY <1>20 DEF SubmissionRefused, SubmissionEnds
<1>21. ASSUME NEW p \in Page, LoseSubmission(p)
       PROVE  DocumentsFirst'
  BY <1>21 DEF LoseSubmission, SubmissionEnds
<1>22. ASSUME NEW p \in Page, RefuseDocument(p)
       PROVE  DocumentsFirst'
  BY <1>22 DEF RefuseDocument
<1>23. ASSUME NEW p \in Page, DeleteDraft(p)
       PROVE  DocumentsFirst'
  BY <1>23 DEF DeleteDraft
<1>24. ASSUME NEW p \in Page, ForgetDraft(p)
       PROVE  DocumentsFirst'
  BY <1>24 DEF ForgetDraft, Rendered
<1> QED
  BY <1>1, <1>2, <1>3, <1>4, <1>5, <1>6, <1>7, <1>8, <1>9, <1>10, <1>11, <1>12, <1>13, <1>14,
     <1>15, <1>16, <1>17, <1>18, <1>19, <1>20, <1>21, <1>22, <1>23, <1>24
  DEF Next, User, Browser, Server, Network

--------------------------------------------------------------------------------
(***************************************************************************)
(* IInv holds when nothing has been opened or saved.                       *)
(***************************************************************************)
LEMMA InitInvariant ==
  ASSUME Init
  PROVE  IInv
<1> USE BodyAssumption, DraftAssumption, MovesAssumption
<1>1. TypeOK
  <2>1. /\ [state |-> "unused", body |-> Blank, version |-> 1, writer |-> Nowhere] \in Row
        /\ NoSave \in SaveCall /\ NoCall \in Call /\ 0 \in 0..MaxMoves
    BY DEF Row, SaveCall, Call, NoSave, NoCall
  <2> QED
    BY <2>1 DEF Init, TypeOK, Statuses
<1>2. DraftsKnown /\ UnopenedIdle
  BY DEF Init, DraftsKnown, Known, UnopenedIdle, OwnLive, Live, Saving, NoSave, NoCall
<1>3. OffersOfOthers /\ SavesStored /\ VersionsCurrent
  BY DEF Init, OffersOfOthers, SavesStored, VersionsCurrent, NoSave
<1>4. DocumentsFirst
  BY DEF Init, DocumentsFirst, NoCall
<1> QED
  BY <1>1, <1>2, <1>3, <1>4 DEF IInv

(***************************************************************************)
(* Every step keeps IInv.                                                  *)
(***************************************************************************)
LEMMA Inductive ==
  ASSUME IInv, [Next]_vars
  PROVE  IInv'
<1>1. TypeOK'
  BY TypeInductive DEF IInv
<1>2. DraftsKnown' /\ UnopenedIdle'
  BY KnownInductive, UnopenedInductive DEF IInv
<1>3. OffersOfOthers' /\ SavesStored' /\ VersionsCurrent'
  BY OffersInductive, SavesInductive, VersionsInductive DEF IInv
<1>4. DocumentsFirst'
  BY <1>1, DocumentsInductive DEF IInv
<1> QED
  BY <1>1, <1>2, <1>3, <1>4 DEF IInv

(***************************************************************************)
(* The inductive invariant holds of every behaviour.                       *)
(***************************************************************************)
THEOREM InvariantHolds == Spec => []IInv
BY InitInvariant, Inductive, PTL DEF Spec

(***************************************************************************)
(* Every variable keeps its type.                                          *)
(***************************************************************************)
THEOREM TypeCorrect == Spec => []TypeOK
<1>1. IInv => TypeOK
  BY DEF IInv
<1> QED
  BY <1>1, InvariantHolds, PTL

(***************************************************************************)
(* "Draft saved at ..." is true of every form whose fields are all in      *)
(* ALLOWED_FIELDS: whatever other pages do, whatever is lost on the way.   *)
(***************************************************************************)
THEOREM SavedMeansStored ==
  ASSUME \A b \in Body : Kept[b] = b
  PROVE  Spec => []SavedIsStored
<1>1. IInv => SavedIsStored
  <2> SUFFICES ASSUME IInv, NEW p \in Page, status[p] = "SAVED", ~Saving(p),
                      NEW d \in Draft, d = draftId[p], Live(d), draft[d].writer = p
               PROVE  draft[d].body = lastSaved[p] /\ draft[d].version = version[p]
    BY DEF SavedIsStored
  <2>1. draft[d].body = Kept[lastSaved[p]] /\ draft[d].version = version[p]
    BY DEF IInv, SavesStored, Stored, OwnLive
  <2> QED
    BY <2>1 DEF IInv, TypeOK
<1> QED
  BY <1>1, InvariantHolds, PTL

(***************************************************************************)
(* A page is told of another tab only if there is one: when no answer is   *)
(* lost, a save is refused as stale only if another page wrote the draft.  *)
(* (When the answer of an accepted save is lost, the page's own next save  *)
(* conflicts with it.)                                                     *)
(***************************************************************************)
THEOREM ConflictsAreReal ==
  ASSUME ~Lossy
  PROVE  Spec => []ConflictMeansOtherPage
<1>1. IInv => ConflictMeansOtherPage
  BY DEF IInv, VersionsCurrent, ConflictMeansOtherPage
<1> QED
  BY <1>1, InvariantHolds, PTL

(***************************************************************************)
(* The draft of a form that submits its draftId is gone once the document  *)
(* exists, and nothing brings it back: not a save that was under way, not  *)
(* the banner of another page.                                             *)
(***************************************************************************)
THEOREM SubmittedDraftsStayGone ==
  ASSUME SendsDraft
  PROVE  Spec => []SubmittedDraftGone
<1>1. IInv => SubmittedDraftGone
  <2> SUFFICES ASSUME IInv, NEW m \in documents, m.draft # NoDraft
               PROVE  ~Live(m.draft)
    BY DEF SubmittedDraftGone
  <2>1. m.draft \in Draft
    BY DEF IInv, TypeOK
  <2> QED
    BY <2>1 DEF IInv, DocumentsFirst, Live
<1> QED
  BY <1>1, InvariantHolds, PTL


(***************************************************************************)
(* A draft is lost only when the user discards it or a document exists.    *)
(***************************************************************************)
LEMMA OnlyTheseDelete ==
  ASSUME IInv, [Next]_vars, NEW d \in Draft, Live(d), ~Live(d)'
  PROVE  \/ d \in discarded'
         \/ \E p \in Page : Submitted(p)' /\ d \in {submission[p].draft, removal[p].draft}
<1> USE DEF tables, refs, effects, calls, IInv
<1>1. CASE UNCHANGED vars
  BY <1>1 DEF vars, Live
<1>2. ASSUME NEW p \in Page, Discard(p)
      PROVE  d \in discarded'
  BY <1>2 DEF Discard, Live, TypeOK
<1>3. ASSUME NEW p \in Page, CreateDocument(p)
      PROVE  Submitted(p)' /\ d = submission[p].draft
  BY <1>3, CreateDocumentDoes DEF DocumentStep, Live
<1>4. ASSUME NEW p \in Page, DeleteDraft(p)
      PROVE  Submitted(p)' /\ d = removal[p].draft
  BY <1>4 DEF DeleteDraft, Live, TypeOK, DocumentsFirst, Submitted
<1>5. ASSUME NEW p \in Page, CreateDraft(p) \/ WriteDraft(p)
      PROVE  FALSE
  <2>1. CASE CreateDraft(p)
    BY <2>1 DEF CreateDraft, Live, TypeOK
  <2>2. CASE WriteDraft(p)
    BY <2>2 DEF WriteDraft, Live, TypeOK, Row
  <2> QED
    BY <1>5, <2>1, <2>2
<1>6. ASSUME NEW p \in Page, UNCHANGED draft
      PROVE  FALSE
  BY <1>6 DEF Live
<1>7. ASSUME NEW p \in Page,
             \/ Open(p) \/ Unmount(p) \/ Edit(p) \/ Recover(p) \/ Submit(p) \/ RunEffect(p)
             \/ Fire(p) \/ SaveAccepted(p) \/ SaveRejected(p) \/ LoseSave(p)
      PROVE  UNCHANGED draft
  BY <1>7 DEF Open, Unmount, Edit, Recover, Submit, RunEffect, Fire, SaveAccepted, SaveRejected,
     LoseSave, SaveEnds
<1>8. ASSUME NEW p \in Page,
             \/ SubmissionAccepted(p) \/ SubmissionRefused(p) \/ LoseSubmission(p)
             \/ ForgetDraft(p) \/ ReadDraft(p) \/ DraftMissing(p) \/ RefuseSave(p)
             \/ RefuseDocument(p)
      PROVE  UNCHANGED draft
  BY <1>8 DEF SubmissionAccepted, SubmissionRefused, LoseSubmission, SubmissionEnds, ForgetDraft,
     ReadDraft, DraftMissing, RefuseSave, SaveReaches, RefuseDocument
<1> QED
  BY <1>1, <1>2, <1>3, <1>4, <1>5, <1>6, <1>7, <1>8 DEF Next, User, Browser, Server, Network

(***************************************************************************)
(* A submission that fails, or is still under way, leaves the draft to be  *)
(* recovered: on any form, whatever is lost.                               *)
(***************************************************************************)
THEOREM DraftsKept == Spec => DraftKeptUntilDone
<1>1. ASSUME IInv, [Next]_vars
      PROVE  [\A d \in Draft :
                (Live(d) /\ ~Live(d)')
                  => \/ d \in discarded'
                     \/ \E p \in Page :
                          Submitted(p)' /\ d \in {submission[p].draft, removal[p].draft}]_vars
  BY <1>1, OnlyTheseDelete
<1> QED
  BY <1>1, InvariantHolds, PTL DEF Spec, DraftKeptUntilDone
================================================================================
