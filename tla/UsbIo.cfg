SPECIFICATION Spec
CONSTANTS
  a = a
  b = b
  Callers = {a, b}
  Closer = closer
  None = none
  Timeout <- MCTimeout
  Rounds = 1
  Upsets = 1
  MaxTime = 1
INVARIANTS
  EventPipe
  NoUseAfterFree
  SleepersHaveWaker
PROPERTIES
  KeepsPromise
