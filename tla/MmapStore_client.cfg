\* One thread appends and flushes: what the documents promise.
SPECIFICATION Spec
CONSTANTS
    Appenders = {a1}
    Flushers = {a1}
    Owner = Owner
    Strand = Strand
    NoThread = NoThread
    Records = {r1, r2, r3, r4, r5, r6, r7}
    Empty = Empty
    Cap = 2
    MinBuffers = 1
    MaxBuffers = 3
    CreateMayFail = FALSE
    SpawnMayFail = FALSE
    PoolMayStop = TRUE
    MayDestroy = TRUE
INVARIANTS
    TypeOK
    InOrder
PROPERTIES
    FlushCovers
CHECK_DEADLOCK FALSE
