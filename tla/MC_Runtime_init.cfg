CONSTANTS
  main = main
  worker = worker
  stranger = stranger
  audit = audit
  report = report
  NoThread = NoThread
  NoHandler = NoHandler
  Thread <- TwoThreads
  Callers <- TwoThreads
  Foreign <- None
  UserHandler <- UserHandlers
  MaxOps = 0
SPECIFICATION Spec
INVARIANTS EventInitOnce
CHECK_DEADLOCK FALSE
