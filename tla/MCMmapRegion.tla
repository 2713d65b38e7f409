---------------------------- MODULE MCMmapRegion ----------------------------
\* Bounded instances of MmapRegion: byte sizes that do and do not fill a page.
EXTENDS MmapRegion, TLC

Symmetry == Permutations(Threads) \cup Permutations(Objects)

\* Handles are told apart by their owner, kind and path alone: which of the numbers
\* the kernel gave out makes no difference. Handles without an owner are counted.
Kinds(hs) == {kernel[h].kind : h \in hs}

View ==
    <<windows, disk, dirty, promised,
      [o \in Objects |-> <<region[o].path, region[o].size, region[o].asked,
                           Kinds(region[o].handles \cap DOMAIN kernel)>>],
      [t \in Threads |-> <<job[t].step, job[t].into, job[t].path, job[t].asked,
                           Kinds(job[t].handles \cap DOMAIN kernel)>>],
      Cardinality(DOMAIN kernel)>>

=============================================================================
