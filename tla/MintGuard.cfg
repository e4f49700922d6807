SPECIFICATION Spec
CONSTANTS
  d1 = d1
  d2 = d2
  s1 = s1
  s2 = s2
  Delivered = {d1, d2}
  Simulated = {s1, s2}
INVARIANTS
  ClosedAtRest
  RefusalNeedsOverlap
PROPERTIES
  GuardCloses
