CONSTANTS
  MaxFd = 3
  Live = TRUE
  Limits = {TRUE}
  None = None
SPECIFICATION FairSpec
INVARIANTS
  TypeOK
PROPERTIES
  KeepsPromise
  DestructionEnds
  SilentPullEnds
CHECK_DEADLOCK FALSE
