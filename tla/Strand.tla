------------------------------- MODULE Strand -------------------------------
(* A Strand (src/context/strand.{h,cpp}): a FIFO of tasks, guarded by mtx_,  *)
(* and at most one Drain_ in the thread pool that works it off. Each         *)
(* critical section of mtx_ is a step; the hand-over to the pool, which      *)
(* Enqueue_ makes after it has let go of mtx_, is a step of its own.         *)
(*                                                                           *)
(* The pool is seen through PostDetached: it keeps the closure until some    *)
(* worker takes it or, once it is stopped, runs it on the caller's thread.   *)
EXTENDS Integers, Sequences, FiniteSets

CONSTANTS
    Clients,      \* threads that post
    Workers,      \* threads of the pool
    Tasks,        \* the tasks, each posted at most once
    NoTask

Threads == Clients \cup Workers

ASSUME ThreadsAssumption == Clients \cap Workers = {}
ASSUME NoTaskAssumption == NoTask \notin Tasks

VARIABLES
    tasks,      \* tasks_
    running,    \* running_
    pooled,     \* Drain_ closures the pool holds and no worker has taken
    stopped,    \* the pool's stopped_
    pc,         \* what each thread is doing
    cur,        \* the task each thread is running
    posted,     \* ghost: the tasks in the order of their posts
    done        \* ghost: the tasks in the order they ended

vars == <<tasks, running, pooled, stopped, pc, cur, posted, done>>

-----------------------------------------------------------------------------
Init ==
    /\ tasks = << >>
    /\ running = FALSE
    /\ pooled = 0
    /\ stopped = FALSE
    /\ pc = [t \in Threads |-> "idle"]
    /\ cur = [t \in Threads |-> NoTask]
    /\ posted = << >>
    /\ done = << >>

Unposted == Tasks \ {posted[i] : i \in DOMAIN posted}

\* Mutant of Enqueue: running_ is not looked at.
EnqueueAlwaysStarts(t) ==
    /\ t \in Clients /\ pc[t] = "idle"
    /\ \E x \in Unposted :
        /\ tasks' = Append(tasks, x)
        /\ posted' = Append(posted, x)
    /\ running' = TRUE
    /\ pc' = [pc EXCEPT ![t] = "start"]
    /\ UNCHANGED <<pooled, stopped, cur, done>>

\* The critical section of Enqueue_. A client posts between two of its calls;
\* a task may post to its own strand while it runs.
Enqueue(t) ==
    /\ \/ t \in Clients /\ pc[t] = "idle"
       \/ pc[t] = "run"
    /\ \E x \in Unposted :
        /\ tasks' = Append(tasks, x)
        /\ posted' = Append(posted, x)
    /\ running' = TRUE
    /\ pc' = [pc EXCEPT ![t] = IF running THEN pc[t] ELSE "start"]
    /\ UNCHANGED <<pooled, stopped, cur, done>>

\* pool_.PostDetached of Drain_, without mtx_: queued, or run here and now
\* when the pool no longer takes tasks.
StartDrain(t) ==
    /\ pc[t] = "start"
    /\ IF stopped
       THEN /\ pc' = [pc EXCEPT ![t] = "drain"]
            /\ UNCHANGED pooled
       ELSE /\ pc' = [pc EXCEPT ![t] = "idle"]
            /\ pooled' = pooled + 1
    /\ UNCHANGED <<tasks, running, stopped, cur, posted, done>>

\* A worker of the pool takes a Drain_; workers outlive the queue (Shutdown
\* lets them finish what is queued).
PoolRuns(t) ==
    /\ t \in Workers
    /\ pc[t] = "idle"
    /\ pooled > 0
    /\ pooled' = pooled - 1
    /\ pc' = [pc EXCEPT ![t] = "drain"]
    /\ UNCHANGED <<tasks, running, stopped, cur, posted, done>>

\* Mutant of Take: running_ stays up when the queue is empty.
TakeForgets(t) ==
    /\ pc[t] = "drain"
    /\ IF tasks = << >>
       THEN /\ pc' = [pc EXCEPT ![t] = "idle"]
            /\ UNCHANGED <<tasks, cur>>
       ELSE /\ cur' = [cur EXCEPT ![t] = Head(tasks)]
            /\ tasks' = Tail(tasks)
            /\ pc' = [pc EXCEPT ![t] = "run"]
    /\ UNCHANGED <<running, pooled, stopped, posted, done>>

\* The critical section of Drain_: the next task, or the end of this Drain_.
Take(t) ==
    /\ pc[t] = "drain"
    /\ IF tasks = << >>
       THEN /\ running' = FALSE
            /\ pc' = [pc EXCEPT ![t] = "idle"]
            /\ UNCHANGED <<tasks, cur>>
       ELSE /\ cur' = [cur EXCEPT ![t] = Head(tasks)]
            /\ tasks' = Tail(tasks)
            /\ pc' = [pc EXCEPT ![t] = "run"]
            /\ UNCHANGED running
    /\ UNCHANGED <<pooled, stopped, posted, done>>

\* The task returns or throws: Drain_ swallows the exception either way.
RunTask(t) ==
    /\ pc[t] = "run"
    /\ done' = Append(done, cur[t])
    /\ cur' = [cur EXCEPT ![t] = NoTask]
    /\ pc' = [pc EXCEPT ![t] = "drain"]
    /\ UNCHANGED <<tasks, running, pooled, stopped, posted>>

\* ThreadPool::Shutdown sets stopped_; the join it goes on to is ThreadPool's.
StopPool ==
    /\ ~stopped
    /\ stopped' = TRUE
    /\ UNCHANGED <<tasks, running, pooled, pc, cur, posted, done>>

ThreadStep(t) ==
    Enqueue(t) \/ StartDrain(t) \/ PoolRuns(t) \/ Take(t) \/ RunTask(t)

Next == (\E t \in Threads : ThreadStep(t)) \/ StopPool

Spec == Init /\ [][Next]_vars

\* The scheduler runs every thread that is inside Enqueue_ or Drain_, a task
\* returns, and the pool gives a queued closure to one of its workers. Nobody
\* has to post, and nobody has to stop the pool.
Fairness ==
    /\ \A t \in Threads : WF_vars(StartDrain(t) \/ Take(t) \/ RunTask(t))
    /\ WF_vars(\E t \in Workers : PoolRuns(t))

FairSpec == Spec /\ Fairness

-----------------------------------------------------------------------------
TypeOK ==
    /\ tasks \in Seq(Tasks)
    /\ running \in BOOLEAN
    /\ pooled \in Nat
    /\ stopped \in BOOLEAN
    /\ pc \in [Threads -> {"idle", "start", "drain", "run"}]
    /\ cur \in [Threads -> Tasks \cup {NoTask}]
    /\ posted \in Seq(Tasks)
    /\ done \in Seq(Tasks)

\* The threads that carry this strand's one Drain_, on its way or at work.
Carriers == {t \in Threads : pc[t] # "idle"}

\* running_ is up exactly while one Drain_ is on its way, queued or at work,
\* and there is never a second one (strand.cpp:13-16, 29-32).
OneDrain ==
    /\ \A t, u \in Carriers : t = u
    /\ pooled <= 1
    /\ pooled = 1 => Carriers = {}
    /\ ~running => Carriers = {} /\ pooled = 0
    /\ running => Carriers # {} \/ pooled = 1

Current ==
    IF \E t \in Threads : pc[t] = "run"
    THEN cur[CHOOSE t \in Threads : pc[t] = "run"]
    ELSE NoTask

\* No task is lost, run twice or overtaken, across any hand-over of the Drain_
\* between threads: what has ended, what runs and what waits is exactly what
\* was posted, in the order of the posts (context_smoke.cpp:132-133).
Fifo ==
    posted = done \o (IF Current = NoTask THEN << >> ELSE <<Current>>) \o tasks

\* The strand implements the serial executor.
Serial == INSTANCE SerialExecutor WITH waiting <- tasks, current <- Current
SerialSpec == Serial!Spec

\* Every task posted is run in the end: no wake-up is lost between the check
\* of running_ in Enqueue_ and its reset in Drain_, pool stopped or not.
PostedTasksRun ==
    \A x \in Tasks :
        (\E i \in DOMAIN posted : posted[i] = x)
            ~> (\E i \in DOMAIN done : done[i] = x)

=============================================================================
