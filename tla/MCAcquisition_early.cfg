SPECIFICATION FairSpec
CONSTANTS
    SLOTS = 5
    BLOCKS = 4
    mem_slice = 4
    MSGS = 4
    LCDMSGS = 4
    MaxSamples = 13
    MaxBacklog = 1
    MaxKeys = 1
    WaveMenu = FALSE
INVARIANTS
    TemBlockHasPlace
    FilesAreHistory
    HumBlocksLost
PROPERTIES
    AnnouncementKept
    CompleteBlockSaved
