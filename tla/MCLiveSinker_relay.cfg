CONSTANTS
  Sinkers = {s1}
  MaxUnits = 3
  MaxParts = 2
  MaxCache = 2
  Types <- TestTypes
  Modes <- TestModes
  Bundles <- TestBundles
  None = None
SPECIFICATION FairSpec
INVARIANTS
  UnitsStayInOrder
  PiecesFit
PROPERTIES
  QueueDrains
  PauseEnds
CHECK_DEADLOCK FALSE
