\* A Configure after a Pool() that has failed.
SPECIFICATION Spec
CONSTANTS
    Threads = {main, t1}
    Main = main
    NoConfig = NoConfig
    Configs <- ConfigValues
    Cores = 2
    MayFail = TRUE
INVARIANTS
    IgnoredOnlyWhenInitialized
CHECK_DEADLOCK FALSE
