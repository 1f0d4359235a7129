CONSTANTS
  Clients = {c1, c2}
  Fds = {f1, f2}
  Ids = {d1, d2}
  None = None
  Requests <- AllRequests
  MaxRequests = 4
  Timeout = 0
SPECIFICATION Spec
SYMMETRY Symmetric
INVARIANTS
  TypeOK
  NothingLeftOfClosedSockets
  ReadyIsSetUp
  StreamsUseTheirClientsSocket
PROPERTIES
  ActiveClientsAreKept
CHECK_DEADLOCK FALSE
