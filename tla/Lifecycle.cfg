\* Two users, two generators and a gauge; the context is cancelled at any moment.
CONSTANTS
  None = None
  Loop = Loop
  Users = {u1, u2}
  Names = {n1}
  GaugeNames = {level}
  Generators = {g1, g2}
  Modulus = 4
  Amounts = {0, 1}
  MaxCalls = 2
SPECIFICATION Spec
SYMMETRY Symmetry
INVARIANTS FlushSendsAll ExitSendsAll GeneratorsSeen GaugesShown NoCircularWait
