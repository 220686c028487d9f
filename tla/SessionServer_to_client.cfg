SPECIFICATION Spec
CONSTANTS
  a = a
  b = b
  c = c
  i1 = i1
  i2 = i2
  Conn = {py, a, b}
  Python = py
  ClientId = {i1, i2}
  Fd = {4, 5, 6}
  Backlog = 2
  MaxRequests = 2
  LogFiles = 0
  None = None
INVARIANTS
  ToItsClient
CHECK_DEADLOCK FALSE
