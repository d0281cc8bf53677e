------------------------------- MODULE MCDrafts --------------------------------
(***************************************************************************)
(* Small instances of Drafts: one or two mounts of a form with a blank and *)
(* two filled states.                                                      *)
(***************************************************************************)
EXTENDS Drafts, TLC

CONSTANTS blank, typed, more

(* Forms whose fields are all in ALLOWED_FIELDS.                           *)
KeptAll == [b \in Body |-> b]

(* The purchase form: more has items, which ALLOWED_FIELDS.PURCHASE lacks. *)
KeptOfPurchase == [b \in Body |-> IF b = more THEN typed ELSE b]

(* Pages are interchangeable, and a new draft gets any identity.           *)
PageDraftSymmetry == Permutations(Page) \cup Permutations(Draft)
================================================================================
