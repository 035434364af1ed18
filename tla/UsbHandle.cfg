SPECIFICATION Spec
CONSTANTS
  Threads = {t1, t2}
  Nobody = Nobody
  Interfaces = {0, 1}
  HasDriver = {0}
  MaxCalls = 5
  MaxEvents = 3
INVARIANTS
  ClaimsAgree
  DriversGivenBack
CHECK_DEADLOCK FALSE
