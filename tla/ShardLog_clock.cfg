\* Local time steps back between two rotations.
SPECIFICATION Spec
CONSTANTS
    Hdr = 1
    Limit = 3
    Cap = 5
    Lengths = {2}
    MaxFrames = 2
    MaxFramesF = 2
    MaxTime = 2
    MaxShards = 4
    CanFail = FALSE
    StepBack = TRUE
    NoName = NoName
INVARIANT
    ChronologicalNames
CHECK_DEADLOCK FALSE
