\* One sink, one key, and a message that is not UTF-8.
SPECIFICATION Spec
CONSTANTS
    Keys = {k1}
    NoKey = NoKey
    Records = {r1, r2, r3}
    Text = {r1, r2}
    MaxSinks = 1
    MaxFrames = 2
    Faults = FALSE
INVARIANTS
    TypeOK
    CompletePrintsAll
SYMMETRY Symmetry
CHECK_DEADLOCK FALSE
