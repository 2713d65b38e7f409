\* Both directions, up to six windows of two bytes on either side, streams with and
\* without their end, and totals that count four windows or more than there are.
SPECIFICATION FairSpec
CONSTANTS
    Ops = {"compress", "decompress"}
    InSizes = {0, 1, 2, 3, 4, 5, 6, 8}
    OutSizes = {0, 1, 2, 3, 4, 5, 6, 7, 11}
    Margin = 2
    Before = 1
    Chunk = 2
    Widths = {8, 64}
    MayThrow = TRUE
INVARIANTS
    WholeResult
PROPERTIES
    CallEnds
CHECK_DEADLOCK FALSE
