\* Two processes, up to three buffers of two cells, shards of two, four records of one or two cells.
SPECIFICATION Spec
CONSTANTS
    Sizes = {1, 2}
    Cap = 2
    MinBuffers = 1
    MaxBuffers = 3
    ShardLimit = 2
    MaxFiles = 3
    MaxProcs = 2
    MaxFrames = 4
    MaxFaults = 1
INVARIANTS
    PrefixOnDisk
    CrashCostsOneShard
    FramesOpenUnlessLeft
PROPERTIES
    KeepsContract
CHECK_DEADLOCK FALSE
