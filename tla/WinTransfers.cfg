SPECIFICATION Spec
CONSTANTS
  t1 = t1
  t2 = t2
  Transfers = {t1, t2}
  Layouts <- MCLayouts
  Requests <- MCRequests
  MaxUpsets = 1
  MaxCalls = 1
  MaxOpens = 1
  MaxSubmits = 2
SYMMETRY
  Alike
INVARIANTS
  PacketsMatch
  NothingLeftBehind
PROPERTIES
  KeepsPromise
