SPECIFICATION FairSpec
CONSTANTS
    a = a
    b = b
    c = c
    d = d
    w1 = w1
    w2 = w2
    NoWorker = NoWorker
    Nodes = {a, b, c, d}
    Definitions <- AllDefinitions
    Workers = {w1}
    MaxStalledCount = 1
    LockMayLapse = FALSE
INVARIANTS
    TypeOK
    TestsRunAfterAncestors
    TeardownAfterBody
    StatusTellsSteps
    DroppedWithCause
    FirstDeliveryResolves
PROPERTIES
    SettledRunStays
    ImplementsContract
    RunningRunEnds
CHECK_DEADLOCK FALSE
