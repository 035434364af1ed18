CONSTANTS
    Hub = Hub
    Leaf = Leaf
    None = None
    Objects = {o1, o2, o3, o4}
    Addresses = {1, 2}
    Callbacks = {plain, enum}
    Enumerating = {enum}
    MaxEvents = 3
    MaxQueue = 2
    MaxCalls = 3
SPECIFICATION Spec
INVARIANTS
    RefsExact
    ListInSync
    CallbacksInformed
PROPERTIES
    ListIsFresh
\* The bounds are used up: the system stops.
CHECK_DEADLOCK FALSE
