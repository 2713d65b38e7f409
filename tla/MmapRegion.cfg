\* Both builds, two Creates at once over one file, of two sizes, and Sync of every range.
SPECIFICATION Spec
CONSTANTS
    Threads = {t1, t2}
    Objects = {o1, o2}
    Paths = {p1}
    Handles = {h1, h2, h3, h4, h5, h6, h7, h8, h9, h10, h11, h12}
    Requests = {0, 2, 3}
    Page = 2
    Builds = {TRUE, FALSE}
INVARIANTS
    HandlesOwned
    MappedUnlessShared
    Exclusive
    SyncCovers
VIEW View
SYMMETRY Symmetry
CHECK_DEADLOCK FALSE
