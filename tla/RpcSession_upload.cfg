CONSTANTS
    upload = upload
    call = call
    held = held
    push = push
    NoCall = NoCall
    Calls = {upload, call}
    Kind <- MCKind
    Prio <- MCPrio
    Interleavable = {}
    SupportsCli = FALSE
    MaxFrames = 2
    MaxGen = 3
    MaxChain = 0
SPECIFICATION Spec
INVARIANTS
    NoGroupLeak
    NoLostWakeup
PROPERTIES
    AtMostOnceInOrder
    KeepsPromise
    NothingCutsIn
\* Every session ends and every call returns: the system stops.
CHECK_DEADLOCK FALSE
