SPECIFICATION FairSpec
CONSTANTS
  Page = {p1}
  Draft = {d1, d2}
  NoDraft = noDraft
  Body = {blank, typed, more}
  Blank = blank
  blank = blank
  typed = typed
  more = more
  Kept <- KeptAll
  FreshData = TRUE
  SendsDraft = TRUE
  Lossy = TRUE
  MaxMoves = 3
PROPERTIES
  EditsReachServer
  OfflineRetries
CHECK_DEADLOCK FALSE
