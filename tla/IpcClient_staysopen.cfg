CONSTANTS
    Threads = {t1, t2}
    Recv = recv
    NoThread = none
    MaxStreams = 1
    GenMod = 65536
    MaxCalls = 2
    MaxExpiries = 1
SPECIFICATION Spec
SYMMETRY ThreadSymmetry
INVARIANT
    SubscriptionStaysOpen
