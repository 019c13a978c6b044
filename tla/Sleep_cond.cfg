CONSTANT MaxNsecs = 3
SPECIFICATION SleepSpec
INVARIANT SleepReturnsTrue
CHECK_DEADLOCK FALSE
