SPECIFICATION PagesSpec
CONSTANTS
  l1 = l1
  l2 = l2
  p1 = p1
  p2 = p2
  Load = {l1, l2}
  Post = {p1, p2}
  None = None
  PageSize = 1
  MaxStored = 3
  MaxEntry = 2
  MaxQuery = 2
INVARIANTS
  RowsOfQuery
  CreatedRowShown
  
SYMMETRY Symmetry
CHECK_DEADLOCK FALSE
