\* Three threads configure, use and shut down the pool; threads may fail to start.
SPECIFICATION FairSpec
CONSTANTS
    Threads = {main, t1, t2}
    Main = main
    NoConfig = NoConfig
    Configs <- ConfigValues
    Cores = 2
    MayFail = TRUE
INVARIANTS
    FrozenConfig
    NoWorkerOutlives
PROPERTIES
    PoolAnswers
CHECK_DEADLOCK FALSE
