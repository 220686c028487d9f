SPECIFICATION Spec
CONSTANTS
  t1 = t1
  t2 = t2
  i1 = i1
  i2 = i2
  Writer = {t1, t2}
  Address <- Places
  DeviceId = {i1, i2}
  MaxInserts = 4
  MaxSearches = 0
SYMMETRY Symmetry
INVARIANTS
  DuplicateRemoved
CHECK_DEADLOCK FALSE
