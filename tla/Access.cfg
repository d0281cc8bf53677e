SPECIFICATION Spec
CONSTANTS
  Device = {d1, d2}
  Ip = {d1, d2}
  typedLower = typedLower
  typedUpper = typedUpper
  Address = {typedLower, typedUpper}
  Normal <- MCNormal
  NoCookie = noCookie
  MaxWrites = 2
  Limit = 2
  Window = 1
  MaxEntries = 1
  MaxTime = 2
  MaxRequests = 5
SYMMETRY DeviceSymmetry
INVARIANTS
  NeverTwiceTheLimit
  OneAccountPerAddress
  
PROPERTIES
  SignedOutStaysOut
CHECK_DEADLOCK FALSE
