SPECIFICATION Spec
CONSTANTS
  Kinds = {"rtsp", "json"}
  Messages <- TestMessages
  MaxSent = 3
  MaxConns = 2
  Default = 7
  Limit = 14
  MaxRequest = 9
  Byte = 4
INVARIANTS
  TypeOK
  Whole
  NothingWaits
CHECK_DEADLOCK FALSE
