\* A writer is admitted between the unsealing and the scrub.
SPECIFICATION Spec
CONSTANTS
    Writers = {w1, w2}
    Records <- MCRecords
    Cap = 5
    Hdr = 2
    CanCrash = FALSE
    MaxOffset = 5
INVARIANT
    DrainExact
