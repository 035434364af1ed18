SPECIFICATION Spec
CONSTANTS
  a = a
  b = b
  Callers = {a, b}
  Closer = closer
  None = none
  Timeout <- MCTimeout
  Rounds = 1
  Upsets = 0
  MaxTime = 1
PROPERTIES
  CallsReturn
  CloseReturns
