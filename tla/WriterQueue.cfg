SPECIFICATION MCSpec
CONSTANTS
    a1 = a1
    a2 = a2
    b1 = b1
    g1 = g1
    g2 = g2
    A = A
    B = B
    G = G
    None = None
    Threads = {a1, a2, b1, g1, g2}
    Stores = {A, B, G}
    StoreOf <- Owners
    GuardStores = {G}
    Mortal = {B}
    StorageTimes = {1, 3}
    StorageCap = 1
    RetryPause = 2
    MaxTime = 1
INVARIANTS
    QueueInv
    GuardInTime
PROPERTIES
    EveryCallReturns
    GuardAnswers
CHECK_DEADLOCK FALSE
