SPECIFICATION OrderedSpec
CONSTANTS
  a = a
  b = b
  c = c
  i1 = i1
  i2 = i2
  Conn = {py, a, b, c}
  Python = py
  ClientId = {i1, i2}
  Fd = {4, 5, 6, 7}
  Backlog = 1
  MaxRequests = 0
  LogFiles = 0
  None = None
PROPERTIES
  Answered
  GoneForgotten
CHECK_DEADLOCK FALSE
