----------------------------- MODULE MmapStore -----------------------------
(* MmapStore (src/mmap/mmap_store.{h,cpp}): a master buffer that producers   *)
(* append to, a pool of spare ones, and a drain that runs on a strand and    *)
(* hands the frames to on_persist.                                           *)
(*                                                                           *)
(* Every critical section of mtx_ is a step, and so is every access to a     *)
(* buffer outside of it: the load of master_, the admission to the buffer    *)
(* and the write, between which a producer may be overtaken by any number of *)
(* swaps and drains. A buffer is seen at the grain MmapBuffer justifies: the *)
(* seq_cst fence makes admission one step (QuiescentDrain), the slots of     *)
(* admitted writers are disjoint (SlotsDisjoint), and a frame is one cell.   *)
(* The strand is the SerialExecutor that Strand implements.                  *)
EXTENDS Integers, Sequences, FiniteSets, SequencesExt, Functions

CONSTANTS
    Appenders,      \* threads that call Append
    Flushers,       \* threads that call Flush (they may append as well)
    Owner,          \* the thread that destroys the store
    Strand,         \* the drain when a pool thread runs it
    NoThread,
    Records,        \* the records, each appended at most once
    Empty,          \* a zeroed cell
    Cap,            \* frames a buffer holds
    MinBuffers, MaxBuffers,
    CreateMayFail,  \* may the mmap of a new buffer fail?
    SpawnMayFail,   \* may starting a thread for the drain fail?
    PoolMayStop,    \* may the thread pool be shut down before the store?
    MayDestroy      \* may the owner destroy the store?

Callers == Appenders \cup Flushers
Threads == Callers \cup {Owner}
Buffers == 1 .. MaxBuffers

ASSUME ThreadsAssumption == {Owner, Strand, NoThread} \cap Callers = {} /\ Owner # NoThread
ASSUME EmptyAssumption   == Empty \notin Records
ASSUME SizesAssumption   == /\ Cap \in Nat \ {0} /\ MinBuffers \in Nat \ {0}
                            /\ MaxBuffers \in Nat /\ MinBuffers <= MaxBuffers

VARIABLES
    mem, used, sealed,  \* each buffer: its cells, offset_ and sealed_
    size,               \* pool_.size(): the buffers 1 .. size exist
    free,               \* free_
    master,             \* master_
    queue,              \* the drains posted to the strand and not started
    inflight,           \* in_flight_
    stopped,            \* stopped_
    mtx,                \* who holds mtx_ between two steps
    dpc, dbuf, scrub,   \* DrainOne_: its step, its buffer, prev_used
    runner,             \* who runs the strand's tasks
    pc, cur, msg,       \* each thread: its step, `cur`, and the record it appends
    late,               \* has its wait on free_cv_ timed out?
    poolStopped,        \* the thread pool's stopped_
    destroyed,          \* ~MmapStore has returned
    appended,           \* ghost: the records Append accepted, in order
    persisted,          \* ghost: the records on_persist saw, in order
    covered             \* ghost: what each running Flush has promised

bufs    == <<mem, used, sealed>>
drain   == <<dpc, dbuf, scrub, runner>>
sys     == <<poolStopped, destroyed>>
ghosts  == <<appended, persisted, covered>>
locals  == <<cur, msg, late>>
vars == <<bufs, size, free, master, queue, inflight, stopped, mtx, drain,
          pc, locals, sys, ghosts>>

-----------------------------------------------------------------------------
Init ==
    /\ mem = [b \in Buffers |-> [i \in 1 .. Cap |-> Empty]]
    /\ used = [b \in Buffers |-> 0]
    /\ sealed = [b \in Buffers |-> FALSE]
    /\ size = MinBuffers
    /\ master = 1
    /\ free = [i \in 1 .. MinBuffers - 1 |-> i + 1]
    /\ queue = << >>
    /\ inflight = 0
    /\ stopped = FALSE
    /\ mtx = NoThread
    /\ dpc = "idle" /\ dbuf = 0 /\ scrub = 0 /\ runner = Strand
    /\ pc = [t \in Threads |-> "idle"]
    /\ cur = [t \in Threads |-> 0]
    /\ msg = [t \in Threads |-> Empty]
    /\ late = [t \in Threads |-> FALSE]
    /\ poolStopped = FALSE
    /\ destroyed = FALSE
    /\ appended = << >>
    /\ persisted = << >>
    /\ covered = [t \in Threads |-> {}]

Used(b) == IF used[b] < Cap THEN used[b] ELSE Cap

\* The threads asleep on a condition variable.
WaitingFree  == {t \in Threads : pc[t] \in {"appendwait", "flushwait"}}
WaitingFlush == {t \in Threads : pc[t] = "sleeping"}
Woken(p) == IF p = "appendwait" THEN "appendwoken" ELSE "flushwoken"

Finished(t, p) ==
    /\ pc' = [pc EXCEPT ![t] = p]
    /\ cur' = [cur EXCEPT ![t] = 0]
    /\ msg' = [msg EXCEPT ![t] = Empty]
    /\ late' = [late EXCEPT ![t] = FALSE]

-----------------------------------------------------------------------------
(* Append, up to the lock.                                                   *)

Unused == Records \ ({appended[i] : i \in DOMAIN appended} \cup {msg[t] : t \in Threads})

\* The first master_.load, of a call that starts. Records are alike, so it does
\* not matter which comes next.
AppendCall(t) ==
    /\ t \in Appenders
    /\ pc[t] = "idle"
    /\ pc[Owner] = "idle" /\ ~destroyed
    /\ Unused # {}
    /\ msg' = [msg EXCEPT ![t] = CHOOSE m \in Unused : TRUE]
    /\ cur' = [cur EXCEPT ![t] = master]
    /\ pc' = [pc EXCEPT ![t] = "enter"]
    /\ UNCHANGED <<bufs, size, free, master, queue, inflight, stopped, mtx, drain,
                   late, sys, ghosts>>

\* The load of the next round of the loop.
Reload(t) ==
    /\ pc[t] = "retry"
    /\ cur' = [cur EXCEPT ![t] = master]
    /\ pc' = [pc EXCEPT ![t] = "enter"]
    /\ UNCHANGED <<bufs, size, free, master, queue, inflight, stopped, mtx, drain,
                   msg, late, sys, ghosts>>

\* MmapBuffer::Write up to the fence. The buffer may have been swapped,
\* drained, reset and even be in free_ by now.
Enter(t) ==
    /\ pc[t] = "enter"
    /\ pc' = [pc EXCEPT ![t] = IF sealed[cur[t]] THEN "slow" ELSE "write"]
    /\ UNCHANGED <<bufs, size, free, master, queue, inflight, stopped, mtx, drain,
                   locals, sys, ghosts>>

\* Mutant of WriteFits: Append does not return, and tries again.
WriteFitsAgain(t) ==
    /\ pc[t] = "write"
    /\ used[cur[t]] < Cap
    /\ used' = [used EXCEPT ![cur[t]] = @ + 1]
    /\ mem' = [mem EXCEPT ![cur[t]][used[cur[t]] + 1] = msg[t]]
    /\ appended' = Append(appended, msg[t])
    /\ pc' = [pc EXCEPT ![t] = "retry"]
    /\ UNCHANGED <<sealed, size, free, master, queue, inflight, stopped, mtx, drain,
                   locals, sys, persisted, covered>>

\* The rest of MmapBuffer::Write, which takes a cell and fills it: Append
\* returns true.
WriteFits(t) ==
    /\ pc[t] = "write"
    /\ used[cur[t]] < Cap
    /\ used' = [used EXCEPT ![cur[t]] = @ + 1]
    /\ mem' = [mem EXCEPT ![cur[t]][used[cur[t]] + 1] = msg[t]]
    /\ appended' = Append(appended, msg[t])
    /\ Finished(t, "idle")
    /\ UNCHANGED <<sealed, size, free, master, queue, inflight, stopped, mtx, drain,
                   sys, persisted, covered>>

\* An overrun is not rolled back: from here on the buffer is full for everyone.
WriteOverruns(t) ==
    /\ pc[t] = "write"
    /\ used[cur[t]] >= Cap
    /\ used' = [used EXCEPT ![cur[t]] = Cap + 1]
    /\ pc' = [pc EXCEPT ![t] = "slow"]
    /\ UNCHANGED <<mem, sealed, size, free, master, queue, inflight, stopped, mtx, drain,
                   locals, sys, ghosts>>

-----------------------------------------------------------------------------
(* SwapMasterLocked_ and AcquireFreeBufferLocked_, under mtx_.               *)

\* The new master and the drain of the old one, posted with mtx_ held. When
\* the strand is idle and its pool no longer takes tasks, the caller runs the
\* drain itself, still holding mtx_ ("inline"): DrainOne_ then wants mtx_, so
\* it never comes back from there. Where an idle strand needs a thread and none can
\* be started, the drain is queued all the same and an exception ends the call.
SwapTo(t, b, next) ==
    /\ master' = b
    /\ inflight' = inflight + 1
    /\ queue' = Append(queue, master)
    /\ IF poolStopped /\ dpc = "idle" /\ queue = << >>
       THEN /\ runner' = t
            /\ mtx' = t
            /\ pc' = [pc EXCEPT ![t] = "inline"]
       ELSE /\ \/ pc' = [pc EXCEPT ![t] = next]
               \/ /\ SpawnMayFail /\ dpc = "idle" /\ queue = << >>
                  /\ pc' = [pc EXCEPT ![t] = "thrown"]
            /\ UNCHANGED <<runner, mtx>>
    /\ UNCHANGED <<dpc, dbuf, scrub>>

\* Mutant of FromFree: front() without pop().
FromFreeKept(t, next) ==
    /\ free # << >>
    /\ SwapTo(t, Head(free), next)
    /\ UNCHANGED <<free, size>>

FromFree(t, next) ==
    /\ free # << >>
    /\ free' = Tail(free)
    /\ SwapTo(t, Head(free), next)
    /\ UNCHANGED size

FromNew(t, next) ==
    /\ free = << >>
    /\ size < MaxBuffers
    /\ size' = size + 1
    /\ SwapTo(t, size + 1, next)
    /\ UNCHANGED free

NoBuffer == UNCHANGED <<size, free, master, queue, inflight, mtx, drain>>

CreateFails == free = << >> /\ size < MaxBuffers /\ CreateMayFail

PoolIsFull == free = << >> /\ size >= MaxBuffers

-----------------------------------------------------------------------------
(* Append, under the lock.                                                   *)

Locked(t, p) == pc[t] = p /\ mtx = NoThread

ReturnFalse(t) == Finished(t, "idle") /\ NoBuffer

\* Write failed, and by now somebody else has put a new master in place.
AlreadySwapped(t) ==
    /\ Locked(t, "slow")
    /\ ~stopped
    /\ master # cur[t]
    /\ pc' = [pc EXCEPT ![t] = "retry"]
    /\ UNCHANGED <<bufs, size, free, master, queue, inflight, stopped, mtx, drain,
                   locals, sys, ghosts>>

\* Write failed: swap, wait for a buffer, or give up.
AppendSwap(t) ==
    /\ Locked(t, "slow")
    /\ ~stopped
    /\ master = cur[t]
    /\ \/ FromFree(t, "retry") /\ UNCHANGED locals
       \/ FromNew(t, "retry") /\ UNCHANGED locals
       \/ CreateFails /\ ReturnFalse(t)
       \/ PoolIsFull /\ pc' = [pc EXCEPT ![t] = "appendwait"] /\ NoBuffer /\ UNCHANGED locals
    /\ UNCHANGED <<bufs, stopped, sys, ghosts>>

\* back_pressure_timeout runs out; the thread still has to get mtx_ back.
Timeout(t) ==
    /\ pc[t] = "appendwait"
    /\ late' = [late EXCEPT ![t] = TRUE]
    /\ pc' = [pc EXCEPT ![t] = "appendwoken"]
    /\ UNCHANGED <<bufs, size, free, master, queue, inflight, stopped, mtx, drain,
                   cur, msg, sys, ghosts>>

\* Mutant of AppendWoken: the timeout is looked at before the list.
AppendWokenGivesUp(t) ==
    /\ Locked(t, "appendwoken")
    /\ ~stopped
    /\ \/ late[t] /\ ReturnFalse(t)
       \/ ~late[t] /\ FromFree(t, "retry") /\ UNCHANGED locals
       \/ /\ free = << >> /\ ~late[t]
          /\ pc' = [pc EXCEPT ![t] = "appendwait"]
          /\ NoBuffer /\ UNCHANGED locals
    /\ UNCHANGED <<bufs, stopped, sys, ghosts>>

\* The wait is over: a buffer (whatever master_ is by now), a timeout, or back
\* to sleep because somebody else was faster.
AppendWoken(t) ==
    /\ Locked(t, "appendwoken")
    /\ ~stopped
    /\ \/ /\ FromFree(t, "retry")
          /\ late' = [late EXCEPT ![t] = FALSE]
          /\ UNCHANGED <<cur, msg>>
       \/ free = << >> /\ late[t] /\ ReturnFalse(t)
       \/ /\ free = << >> /\ ~late[t]
          /\ pc' = [pc EXCEPT ![t] = "appendwait"]
          /\ NoBuffer /\ UNCHANGED locals
    /\ UNCHANGED <<bufs, stopped, sys, ghosts>>

-----------------------------------------------------------------------------
(* Flush, called by a flusher or by the destructor.                          *)

\* The first critical section: swap out a master that holds anything.
FlushSwap(t) ==
    /\ mtx = NoThread
    /\ ~stopped
    /\ \/ Used(master) = 0 /\ pc' = [pc EXCEPT ![t] = "flushing"] /\ NoBuffer
       \/ Used(master) > 0 /\ FromFree(t, "flushing")
       \/ Used(master) > 0 /\ FromNew(t, "flushing")
       \/ Used(master) > 0 /\ CreateFails /\ pc' = [pc EXCEPT ![t] = "flushing"] /\ NoBuffer
       \/ Used(master) > 0 /\ PoolIsFull /\ pc' = [pc EXCEPT ![t] = "flushwait"] /\ NoBuffer
    /\ covered' = [covered EXCEPT ![t] = {appended[i] : i \in DOMAIN appended}]
    /\ UNCHANGED <<bufs, stopped, locals, sys, appended, persisted>>

FlushCall(t) ==
    /\ t \in Flushers
    /\ pc[t] = "idle"
    /\ pc[Owner] = "idle" /\ ~destroyed
    /\ FlushSwap(t)

\* The wait for a buffer, which has no timeout.
FlushWoken(t) ==
    /\ Locked(t, "flushwoken")
    /\ ~stopped
    /\ \/ FromFree(t, "flushing")
       \/ free = << >> /\ pc' = [pc EXCEPT ![t] = "flushwait"] /\ NoBuffer
    /\ UNCHANGED <<bufs, stopped, locals, sys, ghosts>>

\* The second critical section, until in_flight_ is seen to be zero.
FlushSleeps(t) ==
    /\ Locked(t, "flushing")
    /\ inflight # 0
    /\ pc' = [pc EXCEPT ![t] = "sleeping"]
    /\ UNCHANGED <<bufs, size, free, master, queue, inflight, stopped, mtx, drain,
                   locals, sys, ghosts>>

FlushReturns(t) ==
    /\ Locked(t, "flushing")
    /\ inflight = 0
    /\ pc' = [pc EXCEPT ![t] = IF t = Owner THEN "destroying" ELSE "idle"]
    /\ covered' = [covered EXCEPT ![t] = {}]
    /\ UNCHANGED <<bufs, size, free, master, queue, inflight, stopped, mtx, drain,
                   locals, sys, appended, persisted>>

\* The exception leaves Append, which has accepted nothing, or Flush, which has waited
\* for nothing; the destructor swallows it.
Leaves(t) ==
    /\ pc[t] = "thrown"
    /\ Finished(t, IF t = Owner THEN "destroying" ELSE "idle")
    /\ covered' = [covered EXCEPT ![t] = {}]
    /\ UNCHANGED <<bufs, size, free, master, queue, inflight, stopped, mtx, drain,
                   sys, appended, persisted>>

-----------------------------------------------------------------------------
(* ~MmapStore: no call is running and none may start any more.               *)
DestroyCall ==
    /\ MayDestroy
    /\ ~destroyed
    /\ \A t \in Threads : pc[t] = "idle"
    /\ FlushSwap(Owner)

\* stopped_ under the lock, then the members go. No other call is running by
\* then, so the early returns on stopped_ in Append and Flush are never taken.
Destroy ==
    /\ Locked(Owner, "destroying")
    /\ stopped' = TRUE
    /\ destroyed' = TRUE
    /\ pc' = [pc EXCEPT ![Owner] = "idle"]
    /\ UNCHANGED <<bufs, size, free, master, queue, inflight, mtx, drain,
                   locals, poolStopped, ghosts>>

StopPool ==
    /\ PoolMayStop
    /\ ~poolStopped
    /\ poolStopped' = TRUE
    /\ UNCHANGED <<bufs, size, free, master, queue, inflight, stopped, mtx, drain,
                   pc, locals, destroyed, ghosts>>

-----------------------------------------------------------------------------
(* DrainOne_, on the strand.                                                 *)

DrainStart ==
    /\ dpc = "idle"
    /\ queue # << >>
    /\ dbuf' = Head(queue)
    /\ queue' = Tail(queue)
    /\ sealed' = [sealed EXCEPT ![Head(queue)] = TRUE]
    /\ dpc' = "sealing"
    /\ UNCHANGED <<mem, used, size, free, master, inflight, stopped, mtx, scrub, runner,
                   pc, locals, sys, ghosts>>

\* Seal returns once the writers it found inside have left.
Sealed ==
    /\ dpc = "sealing"
    /\ \A t \in Threads : ~(pc[t] = "write" /\ cur[t] = dbuf)
    /\ dpc' = "walk"
    /\ UNCHANGED <<bufs, size, free, master, queue, inflight, stopped, mtx, dbuf, scrub,
                   runner, pc, locals, sys, ghosts>>

\* ForEachFrame ends at the first zero length or at the high-water mark.
FrameCount(b) ==
    CHOOSE n \in 0 .. Used(b) :
        /\ \A i \in 1 .. n : mem[b][i] # Empty
        /\ n < Used(b) => mem[b][n + 1] = Empty

Persist ==
    /\ dpc = "walk"
    /\ persisted' = persisted \o SubSeq(mem[dbuf], 1, FrameCount(dbuf))
    /\ dpc' = "reset"
    /\ UNCHANGED <<bufs, size, free, master, queue, inflight, stopped, mtx, dbuf, scrub,
                   runner, pc, locals, sys, appended, covered>>

\* ResetForReuse: the buffer is open again before its bytes are zeroed.
Unseal ==
    /\ dpc = "reset"
    /\ scrub' = Used(dbuf)
    /\ used' = [used EXCEPT ![dbuf] = 0]
    /\ sealed' = [sealed EXCEPT ![dbuf] = FALSE]
    /\ dpc' = "scrub"
    /\ UNCHANGED <<mem, size, free, master, queue, inflight, stopped, mtx, dbuf,
                   runner, pc, locals, sys, ghosts>>

Scrub ==
    /\ dpc = "scrub"
    /\ mem' = [mem EXCEPT ![dbuf] =
                  [i \in 1 .. Cap |-> IF i <= scrub THEN Empty ELSE mem[dbuf][i]]]
    /\ dpc' = "return"
    /\ UNCHANGED <<used, sealed, size, free, master, queue, inflight, stopped, mtx, dbuf,
                   scrub, runner, pc, locals, sys, ghosts>>

\* Mutant of GiveBack: no notify_one.
GiveBackSilently ==
    /\ dpc = "return"
    /\ mtx = NoThread
    /\ free' = Append(free, dbuf)
    /\ dpc' = "count"
    /\ UNCHANGED <<bufs, size, master, queue, inflight, stopped, mtx, dbuf, scrub,
                   runner, pc, locals, sys, ghosts>>

\* free_.push under mtx_, then notify_one on free_cv_.
GiveBack ==
    /\ dpc = "return"
    /\ mtx = NoThread
    /\ free' = Append(free, dbuf)
    /\ \/ WaitingFree = {} /\ UNCHANGED pc
       \/ \E t \in WaitingFree : pc' = [pc EXCEPT ![t] = Woken(pc[t])]
    /\ dpc' = "count"
    /\ UNCHANGED <<bufs, size, master, queue, inflight, stopped, mtx, dbuf, scrub,
                   runner, locals, sys, ghosts>>

\* in_flight_.fetch_sub, outside of mtx_.
CountDown ==
    /\ dpc = "count"
    /\ inflight' = inflight - 1
    /\ dpc' = IF inflight = 1 THEN "notify" ELSE "idle"
    /\ dbuf' = 0
    /\ UNCHANGED <<bufs, size, free, master, queue, stopped, mtx, scrub,
                   runner, pc, locals, sys, ghosts>>

\* The last drain wakes every Flush that sleeps.
NotifyFlush ==
    /\ dpc = "notify"
    /\ mtx = NoThread
    /\ pc' = [t \in Threads |-> IF t \in WaitingFlush THEN "flushing" ELSE pc[t]]
    /\ dpc' = "idle"
    /\ UNCHANGED <<bufs, size, free, master, queue, inflight, stopped, mtx, dbuf, scrub,
                   runner, locals, sys, ghosts>>

DrainStep ==
    \/ DrainStart \/ Sealed \/ Persist \/ Unseal \/ Scrub
    \/ GiveBack \/ CountDown \/ NotifyFlush

\* What a thread does next once it is inside a call.
Continue(t) ==
    \/ Reload(t) \/ Enter(t) \/ WriteFits(t) \/ WriteOverruns(t)
    \/ AlreadySwapped(t) \/ AppendSwap(t) \/ AppendWoken(t) \/ Timeout(t)
    \/ FlushWoken(t) \/ FlushSleeps(t) \/ FlushReturns(t) \/ Leaves(t)

Next ==
    \/ \E t \in Callers : AppendCall(t) \/ FlushCall(t)
    \/ \E t \in Threads : Continue(t)
    \/ DestroyCall \/ Destroy \/ StopPool
    \/ DrainStep

Spec == Init /\ [][Next]_vars

\* Threads inside a call are scheduled, waits with a timeout end, and the
\* strand runs what is posted to it (PostedTasksRun of Strand). Nobody has to
\* start a call. The clients' calls are finitely many: Records is finite.
Fairness ==
    /\ \A t \in Threads : WF_vars(Continue(t))
    /\ WF_vars(Destroy)
    /\ WF_vars(DrainStep)

FairSpec == Spec /\ Fairness

-----------------------------------------------------------------------------
Draining == dpc \in {"sealing", "walk", "reset", "scrub", "return"}

TypeOK ==
    /\ mem \in [Buffers -> [1 .. Cap -> Records \cup {Empty}]]
    /\ used \in [Buffers -> 0 .. Cap + 1]
    /\ sealed \in [Buffers -> BOOLEAN]
    /\ size \in MinBuffers .. MaxBuffers
    /\ free \in Seq(Buffers) /\ queue \in Seq(Buffers)
    /\ master \in Buffers
    /\ inflight \in Nat
    /\ stopped \in BOOLEAN /\ poolStopped \in BOOLEAN /\ destroyed \in BOOLEAN
    /\ mtx \in Threads \cup {NoThread}
    /\ runner \in Threads \cup {Strand}
    /\ dpc \in {"idle", "sealing", "walk", "reset", "scrub", "return", "count", "notify"}
    /\ dbuf \in Buffers \cup {0} /\ scrub \in 0 .. Cap
    /\ pc \in [Threads -> {"idle", "enter", "write", "slow", "retry", "appendwait",
                           "appendwoken", "flushwait", "flushwoken", "flushing",
                           "sleeping", "inline", "thrown", "destroying"}]
    /\ cur \in [Threads -> Buffers \cup {0}]
    /\ msg \in [Threads -> Records \cup {Empty}]
    /\ late \in [Threads -> BOOLEAN]

\* Every buffer of the pool is in one place: it is the master, spare, queued for
\* a drain or in the drain's hands, in_flight_ counts the last two, and only the
\* drain's own is sealed. If two swaps ever took the same buffer, a drain lost one,
\* or a sealed one became the master, this is what breaks: Append would spin on it
\* (mmap_store.cpp:70-92).
BufferAccounting ==
    LET places == <<master>> \o free \o queue \o (IF Draining THEN <<dbuf>> ELSE << >>)
    IN /\ IsInjective(places)
       /\ ToSet(places) = 1 .. size
       /\ inflight = Len(queue) + (IF Draining \/ dpc = "count" THEN 1 ELSE 0)
       /\ \A b \in Buffers : sealed[b] => Draining /\ dbuf = b

\* on_persist sees no record twice and none that Append has refused: a record is
\* in at most one cell of one buffer, and what is drained is scrubbed.
AtMostOnce ==
    /\ IsInjective(persisted)
    /\ ToSet(persisted) \subseteq ToSet(appended)

\* Records reach on_persist in the order in which Append accepted them.
InOrder == \A n \in 1 .. Len(persisted) :
    n <= Len(appended) /\ persisted[n] = appended[n]

\* "Blocks until every byte appended so far has been through on_persist"
\* (mmap_store.h:52): what Append had accepted when Flush was called is
\* persisted when it returns.
FlushCovers ==
    [][ \A t \in Threads : FlushReturns(t) => covered[t] \subseteq ToSet(persisted) ]_vars

\* Append never refuses a record while it could have gone on: it does so when, at the
\* end of its wait, there still is no buffer and none may be created, or when creating
\* one has just failed. The second is not in mmap_store.h:49.
RefusesForCause ==
    [][ \A t \in Callers :
          /\ pc[t] \in {"slow", "appendwoken"} /\ pc'[t] = "idle"
          => /\ free = << >>
             /\ \/ size = MaxBuffers /\ late[t]
                \/ size < MaxBuffers /\ CreateMayFail ]_vars

\* "Returns false only when the pool is full and no free buffer was had within
\* back_pressure_timeout" (mmap_store.h:49). Append also does so when a buffer cannot
\* be created (mmap_store.cpp:121-124).
RefusesOnlyWhenFull ==
    [][ \A t \in Callers :
          /\ pc[t] \in {"slow", "appendwoken"} /\ pc'[t] = "idle"
          => free = << >> /\ size = MaxBuffers /\ late[t] ]_vars

\* Once the destructor is through, nothing of the store is used any more
\* (mmap_store.cpp:44-55 against the lock and notify of 173-176).
NoUseAfterDestroy == destroyed => dpc = "idle" /\ queue = << >>

\* Every call returns while the thread pool runs: Append and Flush never wait for
\* a wake-up that nobody sends, also when they compete for the last buffer.
CallsReturn == \A t \in Threads : pc[t] # "idle" ~> pc[t] = "idle" \/ poolStopped

\* The same, also when the pool is shut down before the store (mmap_store.cpp:137).
CallsReturnStopped == \A t \in Threads : pc[t] # "idle" ~> pc[t] = "idle"

=============================================================================
