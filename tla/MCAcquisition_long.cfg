SPECIFICATION Spec
CONSTANTS
    SLOTS = 3
    BLOCKS = 2
    mem_slice = 2
    MSGS = 2
    LCDMSGS = 2
    MaxSamples = 9
    MaxBacklog = 1
    MaxKeys = 1
    WaveMenu = TRUE
INVARIANTS
    TemBlockNotShared
    TemColumnsSound
    MessageNamesBlock
CHECK_DEADLOCK FALSE
