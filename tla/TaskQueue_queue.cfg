CONSTANTS
  Objs = {t1,t2,t3}
  Workers = {w1,w2,w3}
  NoObj = NoObj
SPECIFICATION QueueFairSpec
INVARIANTS
  QueueTypeOK
  NobodySleepsOnWork
PROPERTIES
  QueueKeepsPool
  EveryTaskIsHandled
CHECK_DEADLOCK FALSE
