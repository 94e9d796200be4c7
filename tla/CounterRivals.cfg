\* Two objects compete for one name: one pruned and still held, one looked up since.
CONSTANTS
  w1 = w1 w2 = w2 f1 = f1 f2 = f2 n1 = n1 c1 = c1 c2 = c2
  None = None
  Writers = {w1, w2}
  Flushers = {f1}
  Names = {n1}
  Counters = {c1, c2}
  NameOf <- OneName
  PruneAfter = 1
  Modulus = 16
  Deltas = {1}
  SetValues = {3}
  MaxWrites = 2
SPECIFICATION Spec
SYMMETRY RivalSymmetry
INVARIANTS TypeOK Conservation
PROPERTY NameKeepsItsCounter
