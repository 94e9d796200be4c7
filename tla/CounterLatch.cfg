\* The rivals of CounterRivals.cfg, asked whether lastSentValue can go back.
CONSTANTS
  w1 = w1 w2 = w2 f1 = f1 f2 = f2 n1 = n1 c1 = c1 c2 = c2
  None = None
  Writers = {w1, w2}
  Flushers = {f1}
  Names = {n1}
  Counters = {c1, c2}
  NameOf <- OneName
  PruneAfter = 1
  Modulus = 16
  Deltas = {1}
  SetValues = {}
  MaxWrites = 2
SPECIFICATION Spec
SYMMETRY RivalSymmetry
PROPERTY LatchNeverRegresses
