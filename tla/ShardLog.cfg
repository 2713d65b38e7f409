\* Rotation, eviction and restarts of the sink, with nothing failing and with anything failing.
SPECIFICATION FairSpec
CONSTANTS
    Hdr = 1
    Limit = 3
    Cap = 4
    Lengths = {1, 3}
    MaxFrames = 3
    MaxFramesF = 2
    MaxTime = 1
    MaxShards = 3
    CanFail = TRUE
    StepBack = TRUE
    NoName = NoName
INVARIANTS
    TypeOK
    ActiveKeptWhilePathsResolve
    AuditReadsLatest
    WithinLimit
PROPERTIES
    EvictionCatchesUp
    StopReturns
CHECK_DEADLOCK FALSE
