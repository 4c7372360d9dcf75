SPECIFICATION Spec
CONSTANTS
    a = a
    b = b
    c = c
    d = d
    w1 = w1
    w2 = w2
    NoWorker = NoWorker
    Nodes = {a, b, c, d}
    Definitions <- ChainOnly
    Workers = {w1}
    MaxStalledCount = 1
    LockMayLapse = FALSE
INVARIANTS
    ReapedMeansInterrupted
CHECK_DEADLOCK FALSE
