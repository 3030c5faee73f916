\* Two processes with a call each, which may retry once; a circuit opens for one tick.
CONSTANTS
  p1 = p1
  p2 = p2
  c1 = c1
  c2 = c2
  Process = {p1, p2}
  Call = {c1, c2}
  Home <- HomeOf
  Window = 1
  MaxRetries = 1
  FailureThreshold = 2
  RateLimitThreshold = 1
  MaxOutbox = 1
SPECIFICATION Spec
INVARIANTS
  TypeOK
  OpeningIsBounded
  OpenIsHeeded
SYMMETRY Swap
