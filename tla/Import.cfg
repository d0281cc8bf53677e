SPECIFICATION ImportSpec
CONSTANTS
  w1 = w1
  r1 = r1
  r2 = r2
  Entity = {"products", "customers"}
  Wizard = {w1}
  Upload = {r1, r2}
  File <- MCFile
  Malformed = Malformed
  Plain = Plain
  Formula = Formula
  Quoted = Quoted
  NoKey = NoKey
  Absent = Absent
  MaxRows = 3
  FormKey = {Formula}
  MaxTable = 3
SYMMETRY UploadSymmetry
INVARIANTS
  DuplicateSkusExplained
  PreviewOfShownFile
CHECK_DEADLOCK FALSE
