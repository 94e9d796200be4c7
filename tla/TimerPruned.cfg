\* Two users of a name, two flushers, and a timer pruned and replaced.
CONSTANTS
  n1 = n1
  None = None
  Writers = {w1, w2}
  Flushers = {f1, f2}
  Names = {n1}
  Timers = {t1, t2}
  NameOf <- OneName
  Units = {us, ms}
  PruneAfter = 2
  MaxWrites = 3
SPECIFICATION FairSpec
INVARIANTS PrunedOnlyWhenUnused DeletesWhatItAged
PROPERTY EventuallyPruned
