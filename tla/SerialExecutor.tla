--------------------------- MODULE SerialExecutor ---------------------------
(* What a Strand promises its callers (src/context/strand.h): the tasks      *)
(* posted to it run one at a time, each once, in the order of their posts,   *)
(* on whatever threads. MmapStore drains its buffers through this interface. *)
EXTENDS Sequences

CONSTANTS
    Tasks,    \* the tasks callers may post
    NoTask    \* nothing is running; not one of Tasks

VARIABLES
    waiting,  \* tasks posted and not started, oldest first
    current,  \* the running task, or NoTask
    done      \* tasks that have finished, in that order

vars == <<waiting, current, done>>

Init ==
    /\ waiting = << >>
    /\ current = NoTask
    /\ done = << >>

Post(x) ==
    /\ waiting' = Append(waiting, x)
    /\ UNCHANGED <<current, done>>

Start ==
    /\ waiting # << >>
    /\ current = NoTask
    /\ current' = Head(waiting)
    /\ waiting' = Tail(waiting)
    /\ UNCHANGED done

Finish ==
    /\ current # NoTask
    /\ done' = Append(done, current)
    /\ current' = NoTask
    /\ UNCHANGED waiting

Next == (\E x \in Tasks : Post(x)) \/ Start \/ Finish

Spec == Init /\ [][Next]_vars

\* Everything posted is run in the end.
FairSpec == Spec /\ WF_vars(Start) /\ WF_vars(Finish)

=============================================================================
