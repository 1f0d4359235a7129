SPECIFICATION Spec
CONSTANTS
  Kinds = {"rtsp"}
  Messages <- TestMessages
  MaxSent = 1
  MaxConns = 1
  Default = 7
  Limit = 14
  MaxRequest = 9
  Byte = 4
INVARIANT WholeRequestsAreHandled
CHECK_DEADLOCK FALSE
