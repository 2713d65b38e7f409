\* One thread, and buffers that cannot always be created: each of the two promises of
\* mmap_store.h fails.
SPECIFICATION Spec
CONSTANTS
    Appenders = {a1}
    Flushers = {a1}
    Owner = Owner
    Strand = Strand
    NoThread = NoThread
    Records = {r1, r2, r3, r4, r5}
    Empty = Empty
    Cap = 2
    MinBuffers = 1
    MaxBuffers = 3
    CreateMayFail = TRUE
    SpawnMayFail = FALSE
    PoolMayStop = FALSE
    MayDestroy = TRUE
PROPERTIES
    FlushCovers
    RefusesOnlyWhenFull
CHECK_DEADLOCK FALSE
