SPECIFICATION Spec
CONSTANTS
  k1 = k1  k1b = k1b  k2 = k2  k3 = k3  k4 = k4
  Key = {k1, k3}
  text <- MCText
  hash <- MCHash
  NULL = NULL
  MINTBLSIZE = 8
  MAXTBLSIZE = 16
  MaxLoadFactors <- MCDefaultLoad
  MinLoadNum = 1  MinLoadDen = 5
  Requests = {0}
INVARIANTS PutHasRoom
CHECK_DEADLOCK FALSE
