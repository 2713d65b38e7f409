\* Calls that throw at every stage, and the counter running out.
\* No symmetry: CallsEnd is temporal.
SPECIFICATION FairSpec
CONSTANTS
    Threads = {t1, t2}
    Records = {r1, r2, r3, r4}
    NoRecord = NoRecord
    NoThread = NoThread
    Sinks <- EffectiveFirst
    Counters = 8
    Start = 5
    CanThrow = TRUE
INVARIANTS
    FrameIsOwn
    NoncesAscend
PROPERTIES
    CallsEnd
CHECK_DEADLOCK FALSE
