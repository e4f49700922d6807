SPECIFICATION FairSpec
CONSTANTS
  t1 = t1
  a1 = a1
  j1 = j1
  j2 = j2
  r1 = r1
  s1 = s1
  s2 = s2
  None = None
  Tasks = {t1}
  Agents = {a1}
  Jobs = {j1, j2}
  Sweeps = {s1, s2}
  Requests = {r1}
  Attempts = 2
  MaxEnqueued = 2
INVARIANTS
  LockIsExclusive
  StrandedOnlyByFault
PROPERTIES
  DeliveredStaysClosed
  NoTaskStaysAssigning
  JobsEnd
