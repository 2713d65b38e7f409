\* Two sinks, a key that is replaced meanwhile, and a log_decoder beside them.
SPECIFICATION Spec
CONSTANTS
    Keys = {k1, k2}
    NoKey = NoKey
    Records = {r1, r2}
    Text = {r1, r2}
    MaxSinks = 2
    MaxFrames = 2
    Faults = TRUE
INVARIANTS
    KeyWasPublished
    Prints
    PrintsAll
VIEW View
SYMMETRY Symmetry
CHECK_DEADLOCK FALSE
