\* The same instance: a process dies with records in its buffers, and the next maps them.
SPECIFICATION Spec
CONSTANTS
    Sizes = {1, 2}
    Cap = 2
    MinBuffers = 1
    MaxBuffers = 3
    ShardLimit = 2
    MaxFiles = 3
    MaxProcs = 2
    MaxFrames = 4
    MaxFaults = 1
INVARIANTS
    TypeOK
    NoForeignFrames
CHECK_DEADLOCK FALSE
