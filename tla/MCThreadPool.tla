---------------------------- MODULE MCThreadPool ----------------------------
\* Bounded instances of ThreadPool. Without symmetry sets: ThreadPool chooses
\* among tasks and identities that are alike, and liveness is checked.
EXTENDS ThreadPool

=============================================================================
