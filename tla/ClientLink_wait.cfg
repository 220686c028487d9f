SPECIFICATION FairSpec
CONSTANTS
  Fd = {3, 4}
  MaxLosses = 0
  None = None
PROPERTIES
  WaitsForServer
CHECK_DEADLOCK FALSE
