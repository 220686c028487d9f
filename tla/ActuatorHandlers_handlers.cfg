SPECIFICATION FairSpec
CONSTANTS
  MaxMessages = 3
  MaxLosses = 1
INVARIANTS
  TypeOK
  NeverOlder
PROPERTIES
  Executed
CHECK_DEADLOCK FALSE
