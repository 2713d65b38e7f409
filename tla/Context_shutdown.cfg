\* Two threads call Shutdown.
SPECIFICATION Spec
CONSTANTS
    Threads = {main, t1}
    Main = main
    NoConfig = NoConfig
    Configs <- ConfigValues
    Cores = 2
    MayFail = FALSE
INVARIANTS
    ShutdownMeansStopped
CHECK_DEADLOCK FALSE
