SPECIFICATION FairSpec
CONSTANTS
  Fd = {3, 4, 5, 6}
  MaxLosses = 4
  None = None
INVARIANTS
  TypeOK
  SocketKept
  ConnectedIsWatched
PROPERTIES
  Reconnects
CHECK_DEADLOCK FALSE
