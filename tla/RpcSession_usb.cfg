CONSTANTS
    upload = upload
    call = call
    held = held
    push = push
    NoCall = NoCall
    Calls = {held, push}
    Kind <- MCKind
    Prio <- MCPrio
    Interleavable = {}
    SupportsCli = TRUE
    MaxFrames = 2
    MaxGen = 3
    MaxChain = 1
SPECIFICATION FairSpec
INVARIANTS
    Lockstep
PROPERTIES
    RpcModeEarned
    NoSpuriousTeardown
    EveryCallReturns
\* Every session ends and every call returns: the system stops.
CHECK_DEADLOCK FALSE
