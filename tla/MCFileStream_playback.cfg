CONSTANTS
  MaxUnits = 7
  MaxRequests = 3
  Ranges <- TestRanges
  Files <- TestFiles
  Cache = 24
  Packet = 20
  MaxOrders = 3
SPECIFICATION FairSpec
INVARIANTS
  StartsAtKey
  DiesOnlyBare
PROPERTIES
  FlvPlaysInOrder
  H264PlaysInOrder
  PlayingEnds
CHECK_DEADLOCK FALSE
