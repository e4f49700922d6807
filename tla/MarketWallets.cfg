SPECIFICATION Spec
CONSTANTS
  u1 = u1
  u2 = u2
  Users = {u1, u2}
  Requests = {r1, r2, r3}
  Amounts <- MCAmounts
  Shift <- MCShift
  GenMoney <- MCGenMoney
SYMMETRY MCSymmetry
INVARIANTS
  NoOverdraft
  BalanceMatchesLog
  EscrowMatchesHolds
  EscrowCovered
CHECK_DEADLOCK FALSE
