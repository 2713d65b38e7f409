\* POSIX: two Creates of different sizes on one file: the second cuts it under the first.
SPECIFICATION Spec
CONSTANTS
    Threads = {t1, t2}
    Objects = {o1, o2}
    Paths = {p1}
    Handles = {h1, h2, h3, h4, h5, h6, h7, h8, h9, h10, h11, h12}
    Requests = {2, 3}
    Page = 2
    Builds = {FALSE}
INVARIANTS
    TypeOK
    Mapped
SYMMETRY Symmetry
CHECK_DEADLOCK FALSE
