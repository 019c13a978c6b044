SPECIFICATION FairSpec
CONSTANTS
  k1 = k1  k1b = k1b  k2 = k2  k3 = k3  k4 = k4
  Key = {k1, k1b, k2, k3, k4}
  text <- MCText
  hash <- MCHash
  NULL = NULL
  MINTBLSIZE = 2
  MAXTBLSIZE = 8
  MaxLoadFactors <- MCLoads
  MinLoadNum = 2  MinLoadDen = 5
  Requests = {0}
INVARIANTS ChainsOK OwnedOnce RehashOK MapInv
PROPERTIES ImplementsMap CallsReturn
CHECK_DEADLOCK FALSE
