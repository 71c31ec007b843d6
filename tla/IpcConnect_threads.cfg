CONSTANTS
    Threads = {t1, t2}
    MaxConns = 2
    Guards = {"none"}
SPECIFICATION Spec
SYMMETRY ThreadSymmetry
INVARIANT
    RecvBufferExclusive
