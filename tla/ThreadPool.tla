----------------------------- MODULE ThreadPool -----------------------------
(* ThreadPool (src/context/thread_pool.{h,cpp}): a FIFO of tasks and between *)
(* MinThreads and MaxThreads workers that grow with the queue, leave when    *)
(* idle and are joined by whoever posts or shuts the pool down next.         *)
(*                                                                           *)
(* Every critical section of mtx_ is a step; the notify, the second lock of  *)
(* Enqueue_ and the phases of Shutdown come between them. A timed wait is    *)
(* "asleep" until a notify or its timeout ends it; the predicate is then     *)
(* looked at again under mtx_, so a spurious wake-up changes nothing.        *)
EXTENDS Integers, Sequences, FiniteSets, SequencesExt, Functions

CONSTANTS
    Clients,        \* threads that post and shut down
    Ids,            \* identities for worker threads, reused once joined
    Tasks,          \* the tasks, each posted at most once
    NoTask, NoThread,
    MinThreads, MaxThreads, Scale,  \* Config, as the constructor leaves it
    SpawnMayFail                    \* may std::thread throw?

ASSUME ThreadsAssumption == Clients \cap Ids = {} /\ NoThread \notin Clients
ASSUME NoTaskAssumption  == NoTask \notin Tasks
ASSUME ConfigAssumption  == /\ MinThreads \in Nat \ {0} /\ MaxThreads \in Nat
                            /\ MinThreads <= MaxThreads /\ Scale \in Nat \ {0}
                            /\ SpawnMayFail \in BOOLEAN
ASSUME IdsAssumption     == /\ IsFiniteSet(Ids) /\ IsFiniteSet(Clients)
                            /\ MaxThreads + Cardinality(Clients) <= Cardinality(Ids)

VARIABLES
    tasks,      \* tasks_
    workers,    \* the threads whose handles are in workers_
    reap,       \* the threads whose handles are in reap_
    taken,      \* the handles Shutdown has taken over to join
    count,      \* worker_count_
    stopped,    \* stopped_
    mtx,        \* who holds mtx_ between two steps
    wpc, wtask, \* each worker: its step in WorkerLoop_ and its task
    cpc, ctask, \* each client: its step and the task it posts
    ran,        \* ghost: the tasks that have been run, in order
    down        \* ghost: the first Shutdown has returned

wlocals == <<wpc, wtask>>
clocals == <<cpc, ctask>>
vars == <<tasks, workers, reap, taken, count, stopped, mtx, wlocals, clocals, ran, down>>

-----------------------------------------------------------------------------
Init ==
    /\ tasks = << >>
    /\ workers = CHOOSE W \in SUBSET Ids : Cardinality(W) = MinThreads
    /\ reap = {} /\ taken = {}
    /\ count = MinThreads
    /\ stopped = FALSE
    /\ mtx = NoThread
    /\ wpc = [w \in Ids |-> IF w \in workers THEN "loop" ELSE "none"]
    /\ wtask = [w \in Ids |-> NoTask]
    /\ cpc = [c \in Clients |-> "idle"]
    /\ ctask = [c \in Clients |-> NoTask]
    /\ ran = << >>
    /\ down = FALSE

Crowded(queue) == count < MaxThreads /\ Len(queue) > count * Scale

-----------------------------------------------------------------------------
(* Enqueue_, on a client's thread.                                           *)

Posted == ToSet(tasks) \cup ToSet(ran)
          \cup {ctask[c] : c \in Clients} \cup {wtask[w] : w \in Ids}

\* The look at stopped_ without the lock. Tasks are alike, so it does not matter
\* which comes next.
Post(c) ==
    /\ cpc[c] = "idle"
    /\ Tasks \ Posted # {}
    /\ ctask' = [ctask EXCEPT ![c] = CHOOSE x \in Tasks : x \notin Posted]
    /\ cpc' = [cpc EXCEPT ![c] = IF stopped THEN "inline" ELSE "enqueue"]
    /\ UNCHANGED <<tasks, workers, reap, taken, count, stopped, mtx, wlocals, ran, down>>

\* The first critical section, when Shutdown came first: the caller runs its
\* task and keeps mtx_ while it does.
PushTooLate(c) ==
    /\ cpc[c] = "enqueue"
    /\ mtx = NoThread
    /\ stopped
    /\ mtx' = c
    /\ cpc' = [cpc EXCEPT ![c] = "inline"]
    /\ UNCHANGED <<tasks, workers, reap, taken, count, stopped, wlocals, ctask, ran, down>>

\* The first critical section: join who has left, queue the task, and decide
\* whether another worker is wanted. The join waits for threads that need
\* nothing of this pool any more.
Push(c) ==
    /\ cpc[c] = "enqueue"
    /\ mtx = NoThread
    /\ ~stopped
    /\ \A w \in reap : wpc[w] = "gone"
    /\ reap' = {}
    /\ wpc' = [w \in Ids |-> IF w \in reap THEN "none" ELSE wpc[w]]
    /\ tasks' = Append(tasks, ctask[c])
    /\ ctask' = [ctask EXCEPT ![c] = NoTask]
    /\ cpc' = [cpc EXCEPT ![c] = IF Crowded(tasks') THEN "notifyspawn" ELSE "notify"]
    /\ UNCHANGED <<workers, taken, count, stopped, mtx, wtask, ran, down>>

Asleep == {w \in Ids : wpc[w] = "asleep"}

NotifyOne(c) ==
    /\ cpc[c] \in {"notify", "notifyspawn"}
    /\ \/ Asleep = {} /\ UNCHANGED wpc
       \/ \E w \in Asleep : wpc' = [wpc EXCEPT ![w] = "loop"]
    /\ cpc' = [cpc EXCEPT ![c] = IF cpc[c] = "notify" THEN "idle" ELSE "spawn"]
    /\ UNCHANGED <<tasks, workers, reap, taken, count, stopped, mtx, wtask, ctask, ran, down>>

\* Mutant of Spawn: it does not look again.
SpawnUnchecked(c) ==
    /\ cpc[c] = "spawn"
    /\ mtx = NoThread
    /\ LET w == CHOOSE i \in Ids : wpc[i] = "none"
       IN /\ wpc' = [wpc EXCEPT ![w] = "loop"]
          /\ workers' = workers \cup {w}
          /\ count' = count + 1
    /\ cpc' = [cpc EXCEPT ![c] = "idle"]
    /\ UNCHANGED <<tasks, reap, taken, stopped, mtx, wtask, ctask, ran, down>>

\* The second critical section looks again before it spawns. Nor does it matter
\* which identity the new thread gets.
Spawn(c) ==
    /\ cpc[c] = "spawn"
    /\ mtx = NoThread
    /\ IF ~stopped /\ Crowded(tasks)
       THEN LET w == CHOOSE i \in Ids : wpc[i] = "none"
            IN /\ wpc' = [wpc EXCEPT ![w] = "loop"]
               /\ workers' = workers \cup {w}
               /\ count' = count + 1
       ELSE UNCHANGED <<wpc, workers, count>>
    /\ cpc' = [cpc EXCEPT ![c] = "idle"]
    /\ UNCHANGED <<tasks, reap, taken, stopped, mtx, wtask, ctask, ran, down>>

\* std::thread throws in SpawnLocked_, and the exception leaves Enqueue_: the caller
\* believes that nothing was posted, but the task stays in the queue.
SpawnFails(c) ==
    /\ SpawnMayFail
    /\ cpc[c] = "spawn"
    /\ mtx = NoThread /\ ~stopped /\ Crowded(tasks)
    /\ cpc' = [cpc EXCEPT ![c] = "idle"]
    /\ UNCHANGED <<tasks, workers, reap, taken, count, stopped, mtx, wlocals, ctask, ran, down>>

\* The task ends on the caller's thread, exceptions swallowed; mtx_ is let go
\* of if it was held.
RunInline(c) ==
    /\ cpc[c] = "inline"
    /\ ran' = Append(ran, ctask[c])
    /\ mtx' = IF mtx = c THEN NoThread ELSE mtx
    /\ cpc' = [cpc EXCEPT ![c] = "idle"]
    /\ ctask' = [ctask EXCEPT ![c] = NoTask]
    /\ UNCHANGED <<tasks, workers, reap, taken, count, stopped, wlocals, down>>

-----------------------------------------------------------------------------
(* WorkerLoop_.                                                              *)

TakeTask(w) ==
    /\ tasks # << >>
    /\ wtask' = [wtask EXCEPT ![w] = Head(tasks)]
    /\ tasks' = Tail(tasks)
    /\ wpc' = [wpc EXCEPT ![w] = "run"]
    /\ UNCHANGED <<workers, reap, count>>

\* Mutant of Quit: the queue is not looked at.
QuitEagerly(w) ==
    /\ wpc' = [wpc EXCEPT ![w] = "leaving"]
    /\ workers' = workers \ {w}
    /\ reap' = IF w \in workers THEN reap \cup {w} ELSE reap
    /\ count' = count - 1
    /\ UNCHANGED <<tasks, wtask>>

\* Mutant of Quit: the handle is dropped.
QuitUnreaped(w) ==
    /\ tasks = << >>
    /\ wpc' = [wpc EXCEPT ![w] = "leaving"]
    /\ workers' = workers \ {w}
    /\ count' = count - 1
    /\ UNCHANGED <<tasks, wtask, reap>>

\* The worker moves its own handle to reap_, unless Shutdown already has it.
Quit(w) ==
    /\ tasks = << >>
    /\ wpc' = [wpc EXCEPT ![w] = "leaving"]
    /\ workers' = workers \ {w}
    /\ reap' = IF w \in workers THEN reap \cup {w} ELSE reap
    /\ count' = count - 1
    /\ UNCHANGED <<tasks, wtask>>

StayIn(w, where) ==
    /\ wpc' = [wpc EXCEPT ![w] = where]
    /\ UNCHANGED <<tasks, wtask, workers, reap, count>>

\* The critical section, at the start of a wait or after a notify.
Look(w) ==
    /\ wpc[w] = "loop"
    /\ mtx = NoThread
    /\ \/ TakeTask(w)
       \/ stopped /\ Quit(w)
       \/ tasks = << >> /\ ~stopped /\ StayIn(w, "asleep")
    /\ UNCHANGED <<taken, stopped, mtx, clocals, ran, down>>

Timeout(w) ==
    /\ wpc[w] = "asleep"
    /\ wpc' = [wpc EXCEPT ![w] = "late"]
    /\ UNCHANGED <<tasks, workers, reap, taken, count, stopped, mtx, wtask, clocals,
                   ran, down>>

\* Mutant of LookLate: an idle worker never leaves.
LookLateStays(w) ==
    /\ wpc[w] = "late"
    /\ mtx = NoThread
    /\ \/ TakeTask(w)
       \/ stopped /\ Quit(w)
       \/ tasks = << >> /\ ~stopped /\ StayIn(w, "loop")
    /\ UNCHANGED <<taken, stopped, mtx, clocals, ran, down>>

\* The critical section after idle_timeout: a task that has come in the
\* meantime goes first, and the last MinThreads workers stay.
LookLate(w) ==
    /\ wpc[w] = "late"
    /\ mtx = NoThread
    /\ \/ TakeTask(w)
       \/ (stopped \/ count > MinThreads) /\ Quit(w)
       \/ tasks = << >> /\ ~stopped /\ count <= MinThreads /\ StayIn(w, "loop")
    /\ UNCHANGED <<taken, stopped, mtx, clocals, ran, down>>

\* The task ends; WorkerLoop_ swallows what it throws.
Run(w) ==
    /\ wpc[w] = "run"
    /\ ran' = Append(ran, wtask[w])
    /\ wtask' = [wtask EXCEPT ![w] = NoTask]
    /\ wpc' = [wpc EXCEPT ![w] = "loop"]
    /\ UNCHANGED <<tasks, workers, reap, taken, count, stopped, mtx, clocals, down>>

\* The thread returns, with nothing left to lock: it can be joined.
Leave(w) ==
    /\ wpc[w] = "leaving"
    /\ wpc' = [wpc EXCEPT ![w] = "gone"]
    /\ UNCHANGED <<tasks, workers, reap, taken, count, stopped, mtx, wtask, clocals,
                   ran, down>>

-----------------------------------------------------------------------------
(* Shutdown. A second caller returns at once, without waiting for anything. *)

ShutdownCall(c) ==
    /\ cpc[c] = "idle"
    /\ mtx = NoThread
    /\ ~stopped
    /\ stopped' = TRUE
    /\ cpc' = [cpc EXCEPT ![c] = "wakeall"]
    /\ UNCHANGED <<tasks, workers, reap, taken, count, mtx, wlocals, ctask, ran, down>>

NotifyAll(c) ==
    /\ cpc[c] = "wakeall"
    /\ wpc' = [w \in Ids |-> IF w \in Asleep THEN "loop" ELSE wpc[w]]
    /\ cpc' = [cpc EXCEPT ![c] = "collect"]
    /\ UNCHANGED <<tasks, workers, reap, taken, count, stopped, mtx, wtask, ctask, ran, down>>

\* Mutant of Collect: the join comes before mtx_ is let go of.
CollectUnderLock(c) ==
    /\ cpc[c] = "collect"
    /\ mtx = NoThread
    /\ mtx' = c
    /\ taken' = workers \cup reap
    /\ workers' = {} /\ reap' = {}
    /\ cpc' = [cpc EXCEPT ![c] = "join"]
    /\ UNCHANGED <<tasks, count, stopped, wlocals, ctask, ran, down>>

\* The handles are swapped out under mtx_ and joined without it, since the
\* workers need it to leave.
Collect(c) ==
    /\ cpc[c] = "collect"
    /\ mtx = NoThread
    /\ taken' = workers \cup reap
    /\ workers' = {} /\ reap' = {}
    /\ cpc' = [cpc EXCEPT ![c] = "join"]
    /\ UNCHANGED <<tasks, count, stopped, mtx, wlocals, ctask, ran, down>>

Join(c) ==
    /\ cpc[c] = "join"
    /\ \A w \in taken : wpc[w] = "gone"
    /\ wpc' = [w \in Ids |-> IF w \in taken THEN "none" ELSE wpc[w]]
    /\ taken' = {}
    /\ cpc' = [cpc EXCEPT ![c] = "idle"]
    /\ down' = TRUE
    /\ UNCHANGED <<tasks, workers, reap, count, stopped, mtx, wtask, ctask, ran>>

-----------------------------------------------------------------------------
\* What a client does next once it is inside Enqueue_ or Shutdown.
Continue(c) ==
    \/ PushTooLate(c) \/ Push(c) \/ NotifyOne(c) \/ Spawn(c) \/ SpawnFails(c)
    \/ RunInline(c) \/ NotifyAll(c) \/ Collect(c) \/ Join(c)

WorkerStep(w) == Look(w) \/ Timeout(w) \/ LookLate(w) \/ Run(w) \/ Leave(w)

Next ==
    \/ \E c \in Clients : Post(c) \/ ShutdownCall(c) \/ Continue(c)
    \/ \E w \in Ids : WorkerStep(w)

Spec == Init /\ [][Next]_vars

\* Threads are scheduled, tasks return and timed waits end; nobody has to post
\* or to shut the pool down. mtx_ is fair enough that nobody waits for it for
\* ever while others come and go: a worker at MinThreads wakes up, looks and
\* goes back to sleep for as long as the pool lives.
Fairness ==
    /\ \A c \in Clients : SF_vars(Continue(c))
    /\ \A w \in Ids : SF_vars(WorkerStep(w))

FairSpec == Spec /\ Fairness

-----------------------------------------------------------------------------
Live == {w \in Ids : wpc[w] \in {"loop", "asleep", "late", "run"}}

TypeOK ==
    /\ tasks \in Seq(Tasks)
    /\ workers \subseteq Ids /\ reap \subseteq Ids /\ taken \subseteq Ids
    /\ count \in Nat
    /\ stopped \in BOOLEAN /\ down \in BOOLEAN
    /\ mtx \in Clients \cup {NoThread}
    /\ wpc \in [Ids -> {"none", "loop", "asleep", "late", "run", "leaving", "gone"}]
    /\ wtask \in [Ids -> Tasks \cup {NoTask}]
    /\ cpc \in [Clients -> {"idle", "enqueue", "notify", "notifyspawn", "spawn", "inline",
                            "wakeall", "collect", "join"}]
    /\ ctask \in [Clients -> Tasks \cup {NoTask}]
    /\ ran \in Seq(Tasks)

\* worker_count_ is the number of threads in WorkerLoop_, at most MaxThreads, and
\* at least MinThreads until the pool is stopped, whatever timeouts, spawns and
\* posts race (context_smoke.cpp:87, 95).
CountExact ==
    /\ count = Cardinality(Live)
    /\ count <= MaxThreads
    /\ ~stopped => count >= MinThreads

\* The handle of every thread that was started and not joined is in exactly one
\* of workers_, reap_ and the hands of Shutdown, so each thread is joined once
\* and none is left behind when the pool is destroyed.
HandlesOnce ==
    /\ workers \cap reap = {} /\ workers \cap taken = {} /\ reap \cap taken = {}
    /\ workers \cup reap \cup taken = {w \in Ids : wpc[w] # "none"}
    /\ \A w \in reap : wpc[w] \in {"leaving", "gone"}

\* When the Shutdown that stopped the pool returns, everything that was queued
\* has been run to its end, once, whichever of a worker, a caller and the shutdown
\* got hold of it, and no worker is left (context_smoke.cpp:56, 154).
ShutdownDrains ==
    down => /\ tasks = << >> /\ count = 0
            /\ IsInjective(ran)
            /\ \A w \in Ids : wpc[w] = "none"

\* A task is never stuck in the queue while every worker sleeps, whether it came
\* before, during or after Shutdown: what is posted is run.
EveryTaskRuns == \A x \in Tasks : x \in Posted ~> x \in ToSet(ran)

\* The workers that a burst has brought leave again (context_smoke.cpp:95).
SettlesAtMin == <>[](stopped \/ count = MinThreads)

\* Shutdown returns: it never waits for a worker that waits for it.
ShutdownReturns == stopped ~> down

=============================================================================
