\* Posts from clients and from running tasks, before and after the pool stops.
\* No symmetry: SerialSpec and PostedTasksRun are temporal.
SPECIFICATION FairSpec
CONSTANTS
    Clients = {c1, c2}
    Workers = {p1, p2}
    Tasks = {t1, t2, t3, t4}
    NoTask = NoTask
PROPERTIES
    SerialSpec
    PostedTasksRun
CHECK_DEADLOCK FALSE
