CONSTANTS
  t1 = t1
  t2 = t2
  n1 = n1
  TaskIds = {t1, t2}
  Sessions = {n1}
  Sources = {s1, s2}
  Sinkers = {k1, k2}
  LivingWorkers = {w1}
  JsonWorkers = {j1, j2}
  None = None
  Requests <- LockRequests
  Quota <- LockQuota
SPECIFICATION FairSpec
PROPERTIES
  DeleteTaskAnswered
CHECK_DEADLOCK FALSE
