SPECIFICATION Spec
CONSTANTS
    worker = worker
    poller = poller
    Idle = idle
    Main = main
    Threads = {main, worker, poller, idle}
    Pollers = {poller}
    Prio <- Prios4
    Slice = 1
    Periodic = DH11
    Period = 2
    Delays <- Delays12
    Waits <- WaitsAll
    KeyDelay = 1
    TickMod = 12
    MaxKeys = 2
    MaxLate = 0
INVARIANTS SchedulerHasThread
CHECK_DEADLOCK FALSE
