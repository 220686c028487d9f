SPECIFICATION FairSpec
CONSTANTS
  t1 = t1
  t2 = t2
  Sender = {t1, t2}
  MainThread = t1
  Depth = {2}
  Payload = {2}
  MaxMessages = 3
  MaxUnlocked = 2
INVARIANTS
  TypeOK
  InStep
  
PROPERTIES
  Delivered
CHECK_DEADLOCK FALSE
