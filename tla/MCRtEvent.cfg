SPECIFICATION Spec
CONSTANTS
    a = a
    b = b
    Threads = {t1, t2, t3}
    Flags = {a, b}
    Wants <- MCWants
    MaxHit = 1
SYMMETRY MCSymmetry
INVARIANTS
    WaitersAreAsleep
    NoMissedWakeup
    FailsEmptyHanded
PROPERTIES
    FlagsAreReceived
