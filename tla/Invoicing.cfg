SPECIFICATION FairSpec
CONSTANTS
  r1 = r1
  r2 = r2
  r3 = r3
  Request = {r1, r2, r3}
  Quotation = {q1}
  NoDocument = noDoc
  Key = {k1, k2}
  NoKey = noKey
  q1 = q1
  k1 = k1
  k2 = k2
  Body <- MixedBody
INVARIANTS
  CreatedOnce
  LinkTellsTruth
PROPERTIES
  ImplementsBook
  EveryRequestAnswered
CHECK_DEADLOCK FALSE
