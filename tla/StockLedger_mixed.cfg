SPECIFICATION Spec
CONSTANTS
  Request = {r1, r2, r3}
  Product = {p1, p2}
  NoProduct = noProd
  Warehouse = {w1, w2}
  Location = {l1}
  NoLocation = noLoc
  w1 = w1
  w2 = w2
  l1 = l1
  noLoc = noLoc
  p1 = p1
  p2 = p2
  noProd = noProd
  k1 = k1
  k2 = k2
  noKey = noKey
  LocationWarehouse <- MCLocationWarehouse
  Body <- MixedBodies
  Opening <- MCOpening
INVARIANTS
  NeverNegative
  LedgerBalanced
  CheckStaysTrue
  
  AdjustmentOnce
PROPERTIES
  ImplementsLedger
SYMMETRY RequestSymmetry
