CONSTANTS
  NULL = NULL  Nothing = Nothing
  Letter = {"a"}  WordLists <- SomeWordLists  Gaps <- SomeGaps  BadEnds <- BadQuotes
  MaxFd = 3  QueueSize = 1  MaxConns = 1
  MaxBlock = 3  MaxStream = 3  UIntLimit = 3  MaxRecords = 1
  Messages <- SomeMessages
  Counts <- SomeCounts
  Senders = {"client"}
  m1 = m1  m2 = m2  x = x  y = y
  Name = {x, y}
  MaxParts = 3
  Makers = {m1, m2}
  Wanted <- Made
  Root <- TheRoot
  LinkTo <- TheTarget
  Trees <- SomeTrees
  Touched <- SomeTouched
  NoFile = NoFile  Process <- Processes  Slots <- Two  MaxOpens = 4
  MaxCalls = 1  MaxTouches = 1
SPECIFICATION IoSpec
INVARIANTS DescriptorsOwned ConnectedTrue SessionUsable HandshakeOnce
  ArgumentsExact AnswersExact FlagTellsLock
PROPERTIES CallsExact ConnectEnds RemovesBeneath MkdirsMeet
CHECK_DEADLOCK FALSE
