--------------------------- MODULE MCMmapBuffer ---------------------------
\* Bounded instances of MmapBuffer: a header of two bytes (so that less than a
\* header can be left at the end of the region) and records of one and three
\* bytes, which do not divide the region evenly.
EXTENDS MmapBuffer, TLC

MCRecords == {<<1>>, <<2, 1, 1>>}

\* The writers are alike, and every property of the runs is an invariant.
AnyOrder == Permutations(Writers)

=============================================================================
