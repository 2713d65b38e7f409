\* A disk that fills up while a shard is opened.
SPECIFICATION Spec
CONSTANTS
    Hdr = 1
    Limit = 3
    Cap = 5
    Lengths = {2}
    MaxFrames = 3
    MaxFramesF = 3
    MaxTime = 1
    MaxShards = 4
    CanFail = TRUE
    StepBack = FALSE
    NoName = NoName
INVARIANT
    HeaderFirst
CHECK_DEADLOCK FALSE
