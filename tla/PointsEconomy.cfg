SPECIFICATION Spec
CONSTANTS
  u1 = u1
  u2 = u2
  c1 = c1
  Users = {u1, u2}
  Campaigns = {c1}
  Requests = {r1, r2, r3, e1}
  Errands = {e1}
  Runners = {w1, w2}
  Publisher <- MCPublisher
  Terms <- MCTerms
  Amounts <- MCAmounts
  GenPoints <- MCGenPoints
CONSTRAINT MCCalls
SYMMETRY MCSymmetry
INVARIANTS
  BalancesCovered
  PointsConserved
  SpendingBounded
  CompletedWhenSpent
  CoinsMatchRecords
PROPERTY ClosedStaysClosed
CHECK_DEADLOCK FALSE
