\* A second thread flushes.
SPECIFICATION Spec
CONSTANTS
    Appenders = {a1}
    Flushers = {f1}
    Owner = Owner
    Strand = Strand
    NoThread = NoThread
    Records = {r1, r2, r3}
    Empty = Empty
    Cap = 1
    MinBuffers = 2
    MaxBuffers = 2
    CreateMayFail = FALSE
    SpawnMayFail = FALSE
    PoolMayStop = FALSE
    MayDestroy = FALSE
PROPERTIES
    FlushCovers
CHECK_DEADLOCK FALSE
