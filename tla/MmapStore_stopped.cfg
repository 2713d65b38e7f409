\* The pool is shut down before the store.
SPECIFICATION FairSpec
CONSTANTS
    Appenders = {a1}
    Flushers = {a1}
    Owner = Owner
    Strand = Strand
    NoThread = NoThread
    Records = {r1, r2}
    Empty = Empty
    Cap = 1
    MinBuffers = 2
    MaxBuffers = 2
    CreateMayFail = FALSE
    SpawnMayFail = FALSE
    PoolMayStop = TRUE
    MayDestroy = TRUE
PROPERTIES
    CallsReturnStopped
CHECK_DEADLOCK FALSE
