CONSTANTS
    Credit = 3
    Mtu = 2
    StallLimit = 2
    StreakLimit = 2
    Frames <- MCFrames
    StatusModes = {"works", "fails", "absent"}
SPECIFICATION FairSpec
INVARIANTS
    WindowAccounts
PROPERTIES
    NeverOverruns
    InOrderOnce
    TxSettles
\* The transport closes for good: the system stops.
CHECK_DEADLOCK FALSE
