SPECIFICATION FairSpec
CONSTANTS
  Request = {r1, r2, r3}
  Document = {inv, bill}
  NoDocument = noDoc
  NoKey = noKey
  inv = inv
  bill = bill
  noDoc = noDoc
  k1 = k1
  noKey = noKey
  GrandTotal <- MCGrandTotal
  Body <- MCBody
INVARIANTS
  NeverOverpaid
  PaidExplained
  RecordedOnce
  RefusalJustified
PROPERTIES
  PaidWithReceipt
  ImplementsReceipts
  EveryRequestAnswered
CHECK_DEADLOCK FALSE
