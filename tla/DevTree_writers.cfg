SPECIFICATION Spec
CONSTANTS
  t1 = t1
  t2 = t2
  i1 = i1
  i2 = i2
  Writer = {t1, t2}
  Address <- Places
  DeviceId = {i1, i2}
  MaxInserts = 3
  MaxSearches = 1
SYMMETRY Symmetry
INVARIANTS
  TypeOK
  Placed
  KeysUnique
  FoundIfKept
PROPERTIES
  RepositorySpec
CHECK_DEADLOCK FALSE
