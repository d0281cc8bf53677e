SPECIFICATION Spec
CONSTANTS
  Page = {p1, p2}
  Draft = {d1, d2}
  NoDraft = noDraft
  Body = {blank, typed}
  Blank = blank
  blank = blank
  typed = typed
  more = more
  Kept <- KeptAll
  FreshData = FALSE
  SendsDraft = TRUE
  Lossy = FALSE
  MaxMoves = 2
INVARIANTS
  SavedIsStored
  ConflictMeansOtherPage
  SubmittedDraftGone
PROPERTIES
  DraftKeptUntilDone
SYMMETRY PageDraftSymmetry
CHECK_DEADLOCK FALSE
