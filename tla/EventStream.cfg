SPECIFICATION FairSpec
CONSTANTS
    Threads = {t1, t2}
    NoThread = none
    PreludeLen = 2
    CrcLen = 1
    Shapes <- MCShapes
    SendMax = 7
    RecvMax = 4
    Capacity = 3
    MaxSends = 3
INVARIANTS ParseErrorsHaveACause RecvMemInBounds
PROPERTIES IsPacketChannel SentIsReceived SendReturns
CHECK_DEADLOCK FALSE
