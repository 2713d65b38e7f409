\* The owner destroys the store.
SPECIFICATION Spec
CONSTANTS
    Appenders = {a1}
    Flushers = {a1}
    Owner = Owner
    Strand = Strand
    NoThread = NoThread
    Records = {r1, r2}
    Empty = Empty
    Cap = 1
    MinBuffers = 2
    MaxBuffers = 2
    CreateMayFail = FALSE
    SpawnMayFail = FALSE
    PoolMayStop = FALSE
    MayDestroy = TRUE
INVARIANTS
    NoUseAfterDestroy
CHECK_DEADLOCK FALSE
