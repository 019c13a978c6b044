CONSTANTS
  main = main
  worker = worker
  stranger = stranger
  audit = audit
  report = report
  NoThread = NoThread
  NoHandler = NoHandler
  Thread <- Threads
  Callers <- OneCaller
  Foreign <- OneForeign
  UserHandler <- UserHandlers
  MaxOps = 4
  t1 = t1
  t2 = t2
  Parent = Parent
  Starters <- TwoStarters
  Streams <- InOut
  AwaitsEof = FALSE
  MaxSignals = 1
SPECIFICATION ThreadsSpec
INVARIANTS LockOK ContextOK NoDescriptorLeaks ExecReported
PROPERTIES DispatchReaches EventsReturn CallsReturn OutputEnds
CHECK_DEADLOCK FALSE
