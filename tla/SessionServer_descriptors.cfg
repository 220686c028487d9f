SPECIFICATION Spec
CONSTANTS
  a = a
  b = b
  c = c
  i1 = i1
  i2 = i2
  Conn = {py, a, b, c}
  Python = py
  ClientId = {i1, i2}
  Fd = {4, 5}
  Backlog = 2
  MaxRequests = 1
  LogFiles = 0
  None = None
SYMMETRY ClientSymmetry
INVARIANTS
  IpcKeepsItsSocket
  RegistrationAnswered
  OwnRegistration
CHECK_DEADLOCK FALSE
