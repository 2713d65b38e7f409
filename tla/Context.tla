------------------------------ MODULE Context -------------------------------
(* Context (src/context/context.{h,cpp}): the process-wide holder of one     *)
(* ThreadPool, configured beforehand, built by the first thread that needs   *)
(* it and taken down at exit. The pool is what its constructor, Shutdown and *)
(* destructor do to its threads; its queue is ThreadPool's subject.          *)
(*                                                                           *)
(* std::call_once is external: the callers wait for the one that is inside,  *)
(* and an exception from it lets the next one try. Shutdown reads pool_      *)
(* without a lock: a caller that has not synchronised with the builder may   *)
(* see it empty.                                                             *)
EXTENDS Integers, FiniteSets

CONSTANTS
    Threads,       \* the application's threads
    Main,          \* the one among them that leaves main()
    Configs,       \* the Config records passed to Configure
    Cores,         \* hardware_concurrency(), 0 if unknown
    MayFail,       \* may creating a thread fail?
    NoConfig

ASSUME ThreadsAssumption == Main \in Threads /\ {"open", "done"} \cap Threads = {}
ASSUME CoresAssumption   == Cores \in Nat
ASSUME ConfigsAssumption == Configs \subseteq [min : Nat, max : Nat, scale : Nat] /\ NoConfig \notin Configs
ASSUME FailAssumption    == MayFail \in BOOLEAN

VARIABLES
    pending,       \* pending_cfg_
    configured,    \* configured_
    once,          \* init_flag_: "open", "done", or the thread that is inside
    pool,          \* pool_: its state, or "none"
    cfg,           \* the Config of the pool, as its constructor leaves it
    workers,       \* the pool's threads that have not ended
    pc,            \* each thread: what it is in the middle of
    synced,        \* the threads that are ordered after the pool's construction
    terminated,    \* std::terminate has been called
    wasted,        \* ghost: a Configure was ignored with no pool there or on its way
    halted         \* ghost: a Shutdown that saw the pool has returned

vars == <<pending, configured, once, pool, cfg, workers, pc, synced, terminated, wasted, halted>>

-----------------------------------------------------------------------------
Bigger(m, n) == IF m < n THEN n ELSE m

\* Config::Default: a quarter of the cores, at least one, and room for one more.
Default ==
    LET base == IF Cores = 0 THEN 4 ELSE Cores
        low  == Bigger(1, base \div 4)
    IN [min |-> low, max |-> Bigger(low + 1, base), scale |-> 2]

\* What the constructor of ThreadPool makes of its argument.
Normalised(c) ==
    LET low == Bigger(1, c.min)
    IN [min |-> low, max |-> Bigger(low, c.max), scale |-> Bigger(1, c.scale)]

Init ==
    /\ pending = Default /\ configured = FALSE
    /\ once = "open"
    /\ pool = "none" /\ cfg = NoConfig /\ workers = 0
    /\ pc = [t \in Threads |-> "idle"]
    /\ synced = {}
    /\ terminated = FALSE /\ wasted = FALSE /\ halted = FALSE

Goes(t, from, to) == pc[t] = from /\ ~terminated /\ pc' = [pc EXCEPT ![t] = to]

-----------------------------------------------------------------------------
\* Mutant of Configure: configured_ is not looked at.
ConfigureAlways(t) ==
    /\ Goes(t, "idle", "idle")
    /\ pending' \in Configs
    /\ UNCHANGED <<configured, once, pool, cfg, workers, synced, terminated, wasted, halted>>

\* Under cfg_mtx_; ignored once configured_ is set.
Configure(t) ==
    /\ Goes(t, "idle", "idle")
    /\ IF configured
       THEN /\ wasted' = (wasted \/ (pool = "none" /\ once = "open"))
            /\ UNCHANGED pending
       ELSE /\ pending' \in Configs
            /\ UNCHANGED wasted
    /\ UNCHANGED <<configured, once, pool, cfg, workers, synced, terminated, halted>>

\* Pool(), for PostDetached, Submit and MakeStrand alike, arrives at call_once.
NeedPool(t) ==
    /\ Goes(t, "idle", "ensure")
    /\ UNCHANGED <<pending, configured, once, pool, cfg, workers, synced, terminated, wasted, halted>>

EnterOnce(t) ==
    /\ once = "open"
    /\ Goes(t, "ensure", "copy")
    /\ once' = t
    /\ UNCHANGED <<pending, configured, pool, cfg, workers, synced, terminated, wasted, halted>>

\* The pending Config is copied and frozen under cfg_mtx_.
CopyConfig(t) ==
    /\ Goes(t, "copy", "build")
    /\ configured' = TRUE
    /\ cfg' = Normalised(pending)
    /\ UNCHANGED <<pending, once, pool, workers, synced, terminated, wasted, halted>>

\* The constructor starts min_threads threads, one after the other.
SpawnWorker(t) ==
    /\ Goes(t, "build", "build")
    /\ workers < cfg.min
    /\ workers' = workers + 1
    /\ UNCHANGED <<pending, configured, once, pool, cfg, synced, terminated, wasted, halted>>

\* Mutant of SpawnFails: call_once is not told of the exception.
SpawnFailsInside(t) ==
    /\ MayFail /\ workers = 0
    /\ Goes(t, "build", "idle")
    /\ cfg' = NoConfig
    /\ UNCHANGED <<pending, configured, once, pool, workers, synced, terminated, wasted, halted>>

\* std::thread throws. workers_ is destroyed with the half-built pool: with
\* nothing in it the caller of Pool() gets the exception, and call_once is as
\* before; with a running thread in it the process ends there.
SpawnFails(t) ==
    /\ MayFail
    /\ Goes(t, "build", "idle")
    /\ workers < cfg.min
    /\ terminated' = (workers > 0)
    /\ once' = "open"
    /\ cfg' = NoConfig
    /\ UNCHANGED <<pending, configured, pool, workers, synced, wasted, halted>>

\* pool_ is set, and call_once opens the way for everybody.
Built(t) ==
    /\ Goes(t, "build", "using")
    /\ workers = cfg.min
    /\ pool' = "live"
    /\ once' = "done"
    /\ synced' = synced \cup {t}
    /\ UNCHANGED <<pending, configured, cfg, workers, terminated, wasted, halted>>

FindBuilt(t) ==
    /\ once = "done"
    /\ Goes(t, "ensure", "using")
    /\ synced' = synced \cup {t}
    /\ UNCHANGED <<pending, configured, once, pool, cfg, workers, terminated, wasted, halted>>

\* The call on *pool_ returns.
Used(t) ==
    /\ Goes(t, "using", "idle")
    /\ UNCHANGED <<pending, configured, once, pool, cfg, workers, synced, terminated, wasted, halted>>

-----------------------------------------------------------------------------
\* if (pool_), unsynchronised; then ThreadPool::Shutdown sets stopped_, and the
\* first to do so goes on to join. Everybody else returns at once.
Shutdown(t, from, joins, to) ==
    \/ /\ pool = "none" \/ t \notin synced
       /\ Goes(t, from, to)
       /\ UNCHANGED <<pool, halted>>
    \/ /\ pool = "live"
       /\ Goes(t, from, joins)
       /\ pool' = "stopped"
       /\ UNCHANGED halted
    \/ /\ pool = "stopped"
       /\ Goes(t, from, to)
       /\ halted' = TRUE
       /\ UNCHANGED pool

ShutdownCall(t) ==
    /\ Shutdown(t, "idle", "join", "idle")
    /\ UNCHANGED <<pending, configured, once, cfg, workers, synced, terminated, wasted>>

\* A worker finds the pool stopped and the queue empty.
WorkerEnds ==
    /\ pool = "stopped" /\ workers > 0 /\ ~terminated
    /\ workers' = workers - 1
    /\ UNCHANGED <<pending, configured, once, pool, cfg, pc, synced, terminated, wasted, halted>>

\* Mutant of Join: nobody is waited for.
JoinNobody(t) ==
    /\ Goes(t, "join", "idle") \/ Goes(t, "lastjoin", "destroy")
    /\ halted' = TRUE
    /\ UNCHANGED <<pending, configured, once, pool, cfg, workers, synced, terminated, wasted>>

Join(t) ==
    /\ workers = 0
    /\ Goes(t, "join", "idle") \/ Goes(t, "lastjoin", "destroy")
    /\ halted' = TRUE
    /\ UNCHANGED <<pending, configured, once, pool, cfg, workers, synced, terminated, wasted>>

\* main() joins the other threads and returns.
Exit ==
    /\ \A t \in Threads : pc[t] = "idle"
    /\ Goes(Main, "idle", "exit")
    /\ synced' = synced \cup {Main}
    /\ UNCHANGED <<pending, configured, once, pool, cfg, workers, terminated, wasted, halted>>

\* ~Context: Shutdown once more, and then the pool is destroyed.
ExitShutdown ==
    /\ Shutdown(Main, "exit", "lastjoin", "destroy")
    /\ UNCHANGED <<pending, configured, once, cfg, workers, synced, terminated, wasted>>

DestroyPool ==
    /\ Goes(Main, "destroy", "gone")
    /\ pool' = "destroyed"
    /\ UNCHANGED <<pending, configured, once, cfg, workers, synced, terminated, wasted, halted>>

-----------------------------------------------------------------------------
\* What a thread does next once it is inside a call.
Continue(t) ==
    \/ EnterOnce(t) \/ CopyConfig(t) \/ SpawnWorker(t) \/ SpawnFails(t) \/ Built(t)
    \/ FindBuilt(t) \/ Used(t) \/ Join(t)

\* Nobody calls anything once main() has returned.
Running == pc[Main] \notin {"exit", "lastjoin", "destroy", "gone"}

Next ==
    \/ \E t \in Threads : \/ Running /\ (Configure(t) \/ NeedPool(t) \/ ShutdownCall(t))
                          \/ Continue(t)
    \/ WorkerEnds \/ Exit \/ ExitShutdown \/ DestroyPool

Spec == Init /\ [][Next]_vars

\* Threads are scheduled, and no call_once waiter is passed over for ever.
FairSpec ==
    /\ Spec
    /\ \A t \in Threads : SF_vars(Continue(t))
    /\ WF_vars(WorkerEnds) /\ WF_vars(ExitShutdown) /\ WF_vars(DestroyPool)

-----------------------------------------------------------------------------
Building == {t \in Threads : pc[t] \in {"copy", "build"}}

TypeOK ==
    /\ pending \in Configs \cup {Default}
    /\ configured \in BOOLEAN
    /\ once \in {"open", "done"} \cup Threads
    /\ pool \in {"none", "live", "stopped", "destroyed"}
    /\ cfg = NoConfig \/ cfg \in [min : Nat \ {0}, max : Nat \ {0}, scale : Nat \ {0}]
    /\ workers \in Nat
    /\ pc \in [Threads -> {"idle", "ensure", "copy", "build", "using", "join", "exit",
                           "lastjoin", "destroy", "gone"}]
    /\ synced \subseteq Threads
    /\ terminated \in BOOLEAN /\ wasted \in BOOLEAN /\ halted \in BOOLEAN

\* The Config that reaches the pool is one it can run on, whatever was configured:
\* the assumption that ThreadPool rests on (context_smoke.cpp:4).
PoolCanRun == cfg # NoConfig => cfg.min <= cfg.max

\* At most one pool is ever under construction, and none once there is one: a
\* thread that fails half-way hands over to the next (context.cpp:20).
OneBuilder == Cardinality(Building) + (IF pool = "none" THEN 0 ELSE 1) <= 1

\* A pool that is there was built from the Config that was pending when it was
\* frozen, and that one does not change any more.
FrozenConfig == once = "done" => cfg = Normalised(pending)

\* The pool is destroyed with none of its threads running.
NoWorkerOutlives == pool = "destroyed" => workers = 0

\* Pool() comes back to everybody who calls it, with the pool or an exception,
\* even if the thread ahead of him has failed, unless the process has ended.
PoolAnswers == \A t \in Threads : pc[t] = "ensure" ~> pc[t] # "ensure" \/ terminated

\* A Configure is ignored only because the pool is there or on its way
\* (context.cpp:16).
IgnoredOnlyWhenInitialized == ~wasted

\* When a Shutdown that saw the pool has returned, no worker is left
\* (context_smoke.cpp:3).
ShutdownMeansStopped == halted => workers = 0

=============================================================================
