CONSTANTS
    Threads = {t1, t2}
    MaxConns = 2
    Guards = {"rust"}
SPECIFICATION Spec
SYMMETRY ThreadSymmetry
INVARIANT
    RefusedOnlyWhenBusy
