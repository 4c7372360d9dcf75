SPECIFICATION Spec
CONSTANTS
    a = a
    b = b
    c = c
    d = d
    w1 = w1
    w2 = w2
    NoWorker = NoWorker
    Nodes = {a, b, c}
    Definitions <- SmallOnly
    Workers = {w1, w2}
    MaxStalledCount = 1
    LockMayLapse = TRUE
INVARIANTS
    CanceledWasRequested
    RequestsPerDelivery
SYMMETRY WorkerSymmetry
CHECK_DEADLOCK FALSE
