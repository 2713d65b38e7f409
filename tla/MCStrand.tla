------------------------------ MODULE MCStrand ------------------------------
\* Bounded instances of Strand. Without symmetry sets: liveness is checked.
EXTENDS Strand

=============================================================================
