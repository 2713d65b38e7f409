\* Decompress of a stream that lacks its end.
SPECIFICATION FairSpec
CONSTANTS
    Ops = {"decompress"}
    InSizes = {0, 1, 2, 3, 4, 5, 6, 8}
    OutSizes = {0, 1, 2, 3, 4, 5, 6, 7, 11}
    Margin = 2
    Before = 1
    Chunk = 2
    Widths = {64}
    MayThrow = FALSE
PROPERTIES
    EveryCallEnds
CHECK_DEADLOCK FALSE
