\* Every pair of small settings; thresholds above 7 are clamped.
CONSTANTS
  Malformed = Malformed
  Unset = Unset
  PruneEnv <- Seconds
  IntervalEnv <- Intervals
  DefaultPruneIdleSeconds = 0
  DefaultFlushIntervalS = 5
  LoggingIntervalS = 10
  MaxInt = 127
  MaxUint32 = 7
  Drivers = {"own", "statsd", "logging"}
  MaxAge = 120
SPECIFICATION Spec
INVARIANTS RoundedUp SurvivesRequested PrunedInTime
