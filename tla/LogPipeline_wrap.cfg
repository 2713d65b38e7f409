\* One thread goes on logging after the counter has run out.
SPECIFICATION Spec
CONSTANTS
    Threads = {t1}
    Records = {r1, r2, r3, r4, r5}
    NoRecord = NoRecord
    NoThread = NoThread
    Sinks <- OneSink
    Counters = 4
    Start = 0
    CanThrow = FALSE
INVARIANT
    NonceOnce
CHECK_DEADLOCK FALSE
