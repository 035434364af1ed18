SPECIFICATION Spec
CONSTANTS
  Devices <- MCDevices
  MaxCut = 30
INVARIANTS
  TrueToDevice
  InBounds
  AllFreed
CHECK_DEADLOCK FALSE
