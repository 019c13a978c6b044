CONSTANTS
  t1 = t1
  t2 = t2
  Parent = Parent
  Starters <- TwoStarters
  Streams <- InOut
  AwaitsEof = TRUE
  MaxSignals = 0
SPECIFICATION ExecFairSpec
PROPERTIES CallsReturn
CHECK_DEADLOCK FALSE
