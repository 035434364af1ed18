CONSTANTS
    Devices = {a, b}
    MaxAttempts = 3
    MaxChain = 2
SPECIFICATION FairSpec
INVARIANTS
    ClosedIsForgotten
    DropsNoticed
    AbortReachesAttempt
    ConnectingIsRunning
PROPERTIES
    Unwinds
\* Every session ends and every attempt is spent: the system stops.
CHECK_DEADLOCK FALSE
