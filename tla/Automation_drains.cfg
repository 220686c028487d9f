SPECIFICATION FairSpec
CONSTANTS
  c1 = c1
  c2 = c2
  s = s
  t = t
  a = a
  Junk = junk
  None = none
  Client = {c1, c2}
  Key = {s, t, a}
  Sensor = {s, t}
  Configs <- MCConfigs
  Scenario <- MCScenario
  Loaded <- MCLoaded
  NotNumber = abc
  Capacity = 1
  MaxReports = 2
  MaxExtras = 1
INVARIANTS
  TypeOK
  KnownBeforeData
  NamesOwner
  QuietAgree
  ScenarioSound
  OnlyClogs
PROPERTIES
  DataInOrder
  Drains
CHECK_DEADLOCK FALSE
