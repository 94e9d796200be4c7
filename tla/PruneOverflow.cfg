\* The largest settings: their sum overflows.
CONSTANTS
  Malformed = Malformed
  Unset = Unset
  PruneEnv <- Large
  IntervalEnv <- Intervals
  DefaultPruneIdleSeconds = 0
  DefaultFlushIntervalS = 5
  LoggingIntervalS = 10
  MaxInt = 127
  MaxUint32 = 7
  Drivers = {"own"}
  MaxAge = 1
SPECIFICATION Spec
INVARIANT RoundedUp
