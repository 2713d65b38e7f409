\* Calls start at any time, and the process may be restarted over the file.
SPECIFICATION Spec
CONSTANTS
    Writers = {w1, w2, w3}
    Records <- MCRecords
    Cap = 7
    Hdr = 2
    CanCrash = TRUE
    MaxOffset = 7
INVARIANTS
    QuiescentDrain
    SlotsDisjoint
    DrainExactUnlessSpoilt
SYMMETRY AnyOrder
