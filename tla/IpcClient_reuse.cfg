CONSTANTS
    Threads = {t1, t2}
    Recv = recv
    NoThread = none
    MaxStreams = 1
    GenMod = 65536
    MaxCalls = 3
    MaxExpiries = 1
SPECIFICATION Spec
SYMMETRY ThreadSymmetry
INVARIANTS
    NoSlotLeak
    QuiescentAfterClose
    NoOrphanSubscription
    HandlesNotReused
    WaitersKeepTheirSlot
PROPERTY
    IsStreamService
