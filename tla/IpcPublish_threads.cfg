CONSTANTS
    Threads = {t1, t2}
    Recv = recv
    Nobody = nobody
SPECIFICATION FairSpec
CHECK_DEADLOCK FALSE
INVARIANTS
    PayloadsIntact
PROPERTY
    PublishReturns
