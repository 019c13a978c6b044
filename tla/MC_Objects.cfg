CONSTANTS
  v1 = v1  v2 = v2  v3 = v3
  NULL = NULL  None = None  Nothing = Nothing
  n1 = n1  n2 = n2  n3 = n3  n4 = n4
  a1 = a1  a2 = a2  a3 = a3
  Addr <- SomeAddr
  Leaf = {"whole"}
  Literals = {"null"}
  Name = {"k"}
  Docs <- SomeDocs
  Paths <- SomePaths
  MaxRefs = 1  MaxKids = 2
  Nil = Nil  Number <- NumberTokens  Piece <- Pieces
  StepLists <- SomeLists  BadEnds <- BadPaths
  Planes = FALSE
  SetsBeyond = FALSE
  Escapes = FALSE
  e1 = e1  e2 = e2  s1 = s1
  k1 = k1  k1b = k1b  k2 = k2  k3 = k3  k4 = k4
  EOKAY = EOKAY
  Code <- Codes
  OsCode <- OsCodes
  Site <- Sites
  Document <- Documents
  MaxTrace = 2
  MaxDepth = 2
  NUL = 0  JUNK = 9  EscapeRoom = 4  MaxSize = 8
  Char <- SomeChars
  Sizes = {1, 3}
  BufTexts <- SomeTexts
  Blobs <- SomeBlobs
  Key <- SomeKeys
  text <- TextOf
  hash <- HashOf
  MINTBLSIZE = 2  MAXTBLSIZE = 4
  MaxLoadFactors <- Loads
  MinLoadNum = 1  MinLoadDen = 2
  Requests = {0, 3}
  Elem <- SomeElements
  Rank <- RankOf
  Node <- Nodes
  Capacities <- SomeCapacities
  FirstCapacity = 2  MaxCapacity = 4
SPECIFICATION OneSpec
INVARIANTS ContainersOK ThawedOutside BufTerminated BufNoOverrun LoopMissesNothing LoopNeverRepeats
  RefsExact StringsExact RoundTrip PathsExact StringsParsed
PROPERTIES ImplementsOwnedSeq ServedInOrder BufAppends RegionKeepsError
CHECK_DEADLOCK FALSE
