SPECIFICATION FairSpec
CONSTANTS
    b1 = b1
    b2 = b2
    Blocks = {b1, b2}
    Threads = {t1, t2, t3}
    Null = Null
    Mp = Mp
    InitOrder <- MCInitOrder
    Waits <- MCAllWaits
    StaleBound = 2
INVARIANTS
    TypeOK
    FreeListSound
    NoDoubleAllocation
    NoLostWakeup
    PendingIsCounted
PROPERTIES
    ImplementsBlockPool
    BlockReachesWaiter
