SPECIFICATION FairSpec
CONSTANTS
  Requests = {r1, r2}
  Codes = {OK, NotFound, EarlyHints}
  OK = OK
  Informational = {EarlyHints}
  MaxOps = 2
  None = None
INVARIANTS
  MapExclusion
  CreatedOnce
  CountedOnce
  CountedAsSent
  OffersTheSame
PROPERTY CountingEnds
CHECK_DEADLOCK FALSE
