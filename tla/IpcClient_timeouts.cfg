CONSTANTS
    Threads = {t1, t2}
    Recv = recv
    NoThread = none
    MaxStreams = 2
    GenMod = 65536
    MaxCalls = 2
    MaxExpiries = 2
SPECIFICATION FairSpec
INVARIANTS
    TypeOK
    FrameSafety
    DistinctStreamIds
    EventsReachTheirSubscription
    ResponseAtMostOnce
    PromptSubscriptionStaysOpen
PROPERTY
    CallsReturn
