SPECIFICATION Spec
CONSTANTS
  n1 = n1
  n2 = n2
  t1 = t1
  t2 = t2
  t3 = t3
  t4 = t4
  Node = {n1,n2}
  Tx = {t1,t2,t3,t4}
  Sender <- MCSender
  Limit = 2
  Foreign <- MCForeign
  MaxHeight = 3
SYMMETRY MCSymmetry
INVARIANTS
  BlockLimit
  MempoolFits
  TwoBlocksShareTheLimit
PROPERTIES
  NeverReplayed
CHECK_DEADLOCK FALSE
