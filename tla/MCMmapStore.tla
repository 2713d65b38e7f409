---------------------------- MODULE MCMmapStore ----------------------------
\* Bounded instances of MmapStore. Without symmetry sets: MmapStore takes the
\* records, which are alike, in a fixed order.
EXTENDS MmapStore

=============================================================================
