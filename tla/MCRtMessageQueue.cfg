SPECIFICATION FairSpec
CONSTANTS
    n1 = n1
    n2 = n2
    Nodes = {n1, n2}
    Threads = {t1, t2, t3}
    Producers = {t1, t2}
    Consumers = {t2, t3}
    Messages = {m1, m2}
    Null = Null
    InitOrder <- MCInitOrder
    Waits <- MCAllWaits
INVARIANTS
    TypeOK
    NodesSound
    NoLostWakeup
PROPERTIES
    ImplementsChannel
    MessageReachesReceiver
