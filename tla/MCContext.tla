------------------------------ MODULE MCContext -----------------------------
\* Bounded instances of Context: a Config that is sound, one left at its zeroes,
\* and one whose max_threads is below its min_threads.
EXTENDS Context

ConfigValues == {[min |-> 2, max |-> 3, scale |-> 2], [min |-> 0, max |-> 0, scale |-> 0],
                 [min |-> 2, max |-> 1, scale |-> 1]}

=============================================================================
