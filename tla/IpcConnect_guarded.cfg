CONSTANTS
    Threads = {t1, t2}
    MaxConns = 3
    Guards = {"rust", "caller"}
SPECIFICATION FairSpec
INVARIANTS
    RecvBufferExclusive
    SendBufferExclusive
    NoSpuriousExit
    NoSocketLeak
PROPERTY
    ConnectReturns
