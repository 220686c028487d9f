SPECIFICATION FairSpec
CONSTANTS
  main = main
  t1 = t1
  t2 = t2
  Thread = {main, t1, t2}
  MainThread = main
  MaxSignals = 3
INVARIANTS
  TypeOK
  OnlySelfLocks
PROPERTIES
  Stops
  Returns
CHECK_DEADLOCK FALSE
