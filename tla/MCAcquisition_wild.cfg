SPECIFICATION Spec
CONSTANTS
    SLOTS = 4
    BLOCKS = 3
    mem_slice = 2
    MSGS = 4
    LCDMSGS = 4
    MaxSamples = 12
    MaxBacklog = 1
    MaxKeys = 0
    WaveMenu = FALSE
INVARIANTS
    NoWildStore
CHECK_DEADLOCK FALSE
