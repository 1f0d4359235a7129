CONSTANTS
  t1 = t1
  t2 = t2
  n1 = n1
  TaskIds = {t1, t2}
  Sessions = {n1}
  Sources = {s1}
  Sinkers = {k1}
  LivingWorkers = {w1, w2}
  JsonWorkers = {j1}
  None = None
  Requests <- PlayRequests
  Quota <- PlayQuota
SPECIFICATION FairSpec
PROPERTIES
  HandlersReturn
  UnlinkedJobsAreDestroyed
  EndedStreamsAreRemoved
CHECK_DEADLOCK FALSE
