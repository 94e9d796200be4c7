\* One timer, pruned while its user keeps it.
CONSTANTS
  n1 = n1
  None = None
  Writers = {w1}
  Flushers = {f1}
  Names = {n1}
  Timers = {t1}
  NameOf <- OneName
  Units = {us, ms}
  PruneAfter = 1
  MaxWrites = 2
SPECIFICATION FairSpec
PROPERTY WriteReattaches
