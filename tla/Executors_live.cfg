CONSTANTS
  t1 = t1
  t2 = t2
  n1 = n1
  TaskIds = {t1, t2}
  Sessions = {n1}
  Sources = {s1, s2}
  Sinkers = {k1, k2}
  LivingWorkers = {w1, w2}
  JsonWorkers = {j1, j2}
  None = None
  Requests <- LiveRequests
  Quota <- LiveQuota
SPECIFICATION Spec
SYMMETRY Symmetric
INVARIANTS
  TypeOK
  MappedJobsFeedExistingSinkers
  NoSinkerLost
  MappedJobsAreKept
  CreatedJobIsKept
PROPERTIES
  StopLeavesNone
CONSTRAINT OneScenario
CHECK_DEADLOCK FALSE
