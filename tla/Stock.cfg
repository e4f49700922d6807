SPECIFICATION Spec
CONSTANTS
  p1 = p1
  Products = {p1}
  Orders = {o1}
  Requests = {r1, r2, r3}
  Baskets <- MCBaskets
  Deltas <- MCDeltas
  Levels <- MCLevels
SYMMETRY MCSymmetry
INVARIANTS
  NoOversell
  LogExplainsStock
  TakenOnce
CHECK_DEADLOCK FALSE
