SPECIFICATION Spec
CONSTANTS
  Wrap = 4
  First = {0, 3}
  MaxPackets = 3
  MaxReports = 2
  None = None
INVARIANTS
  TypeOK
  HighestIsTrue
  LossIsNotOverstated
CHECK_DEADLOCK FALSE
