\* Two threads append and one of them flushes as well; no new buffer may be had,
\* and the pool may stop.
SPECIFICATION FairSpec
CONSTANTS
    Appenders = {a1, a2}
    Flushers = {a2}
    Owner = Owner
    Strand = Strand
    NoThread = NoThread
    Records = {r1, r2, r3, r4}
    Empty = Empty
    Cap = 2
    MinBuffers = 1
    MaxBuffers = 2
    CreateMayFail = TRUE
    SpawnMayFail = TRUE
    PoolMayStop = TRUE
    MayDestroy = TRUE
INVARIANTS
    BufferAccounting
    AtMostOnce
PROPERTIES
    CallsReturn
    RefusesForCause
CHECK_DEADLOCK FALSE
