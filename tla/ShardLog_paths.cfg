\* An entry whose path cannot be made canonical is removed though it is the active shard.
SPECIFICATION Spec
CONSTANTS
    Hdr = 1
    Limit = 3
    Cap = 4
    Lengths = {1, 3}
    MaxFrames = 3
    MaxFramesF = 2
    MaxTime = 1
    MaxShards = 3
    CanFail = TRUE
    StepBack = FALSE
    NoName = NoName
INVARIANT
    ActiveKept
CHECK_DEADLOCK FALSE
