\* Two clients post three tasks and shut down; one worker, or two.
SPECIFICATION FairSpec
CONSTANTS
    SpawnMayFail = TRUE
    Clients = {c1, c2}
    Ids = {w1, w2, w3, w4}
    Tasks = {t1, t2, t3}
    NoTask = NoTask
    NoThread = NoThread
    MinThreads = 1
    MaxThreads = 2
    Scale = 1
INVARIANTS
    CountExact
    HandlesOnce
    ShutdownDrains
PROPERTIES
    EveryTaskRuns
    SettlesAtMin
    ShutdownReturns
CHECK_DEADLOCK FALSE
