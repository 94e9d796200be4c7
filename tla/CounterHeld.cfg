\* One counter, two writers that keep a reference to it, two flushers.
CONSTANTS
  w1 = w1 w2 = w2 f1 = f1 f2 = f2 n1 = n1 c1 = c1 c2 = c2
  None = None
  Writers = {w1, w2}
  Flushers = {f1, f2}
  Names = {n1}
  Counters = {c1}
  NameOf <- OneName
  PruneAfter = 2
  Modulus = 16
  Deltas = {0, 1}
  SetValues = {}
  MaxWrites = 4
SPECIFICATION FairSpec
INVARIANTS Attached NoStranded PrunedOnlyWhenIdle
PROPERTIES EventuallyPruned ImplementsLedger
