CONSTANTS
  MaxUnits = 5
  Steps = {0, 1}
  MaxFails = 1
  None = None
SPECIFICATION Spec
INVARIANTS
  FlvIsReadable
  Mp4Found
  SameFrames
CHECK_DEADLOCK FALSE
