# logger_high in TLA+

TLA+ modules of the C++ logging library `logger_high`: what they model, what TLC
checks on small instances, and what TLAPS proves for every instance. Paths below are
relative to `src/`. `PROJECT.json` maps each definition to the lines it models.

## 1. The system and its parts

A log call runs on the application's thread through `LogHandle` to each sink.
`EffectiveSink` formats, compresses and encrypts the record under one mutex and
appends the frame to an `MmapStore`, a pool of memory-mapped buffers. Full buffers are
drained on a `Strand`, which runs on the process-wide `ThreadPool`; the drain hands
every frame to `ShardWriter`, which appends it to a rotated shard file. An
`EvictionRunner` thread removes the oldest shards when the directory grows too large.
Offline, the audit reader decodes a directory of shards.

| Part | State it keeps | Operations | Talks to | What makes it correct |
|---|---|---|---|---|
| `mmap/mmap_buffer` | mapped bytes, `offset_`, `writers_`, `sealed_` | `Write`, `Seal`, `ForEachFrame`, `ResetForReuse` | written by all threads without a lock, drained by one | the walk has the buffer to itself; slots never overlap; the walk returns exactly the accepted records |
| `mmap/mmap_store` | `master_`, `free_`, `pool_`, `in_flight_`, `stopped_` | `Append`, `Flush`, `DrainOne_`, destructor | posts drains to the strand, waits on two condition variables | no buffer lost or used twice; no record lost or persisted twice; every call returns; nothing runs after the destructor |
| `mmap/mmap_region` | mapping and the handles behind it | `Create`, move, `Close`, `Sync` | operating system, call by call, each of which may fail | no handle leaks or is closed twice; what is mapped is there; what `Sync` was asked for is on the device |
| `context/strand` | `tasks_`, `running_` | `Enqueue_`, `Drain_` | posts `Drain_` to the pool | one task at a time, FIFO, none lost |
| `context/thread_pool` | `tasks_`, `workers_`, `reap_`, `worker_count_`, `stopped_` | `Enqueue_`, `WorkerLoop_`, `Shutdown` | runs the drains; runs them inline once stopped | exact count and handles, every task once, shutdown drains and ends |
| `context/context` | `pending_cfg_`, `configured_`, `init_flag_`, `pool_` | `Configure`, `Pool`, `Shutdown`, destruction at exit | owns the pool | one pool, from the configuration that was frozen; every caller gets an answer; no worker outlives it |
| `sinks/shard_writer` | open file, its size, path and number | `WriteFrame`, `Flush`, rotation | called by the drain; its path is asked for by the evictor | header first, size limit, names in order |
| `sinks/eviction_runner` | `stop_`, thread; listing of a sweep | `RunLoop_`, `SweepOnce_`, `Stop` | reads the directory and, by callback, the writer's path | never the active shard, oldest first, reaches the cap, stops |
| `sinks/effective_sink` | four shared buffers, the parts above | `Log`, `Flush`, `OnPersist_`, destructor | composes everything | a frame is the record of its own call |
| `handle/log_handle`, `sinks/console_sink` | sinks, two levels | `Log`, `Flush` | sinks in order | every call ends |
| `crypt/aes_gcm_cipher` | key, nonce prefix, 32-bit `counter_` | `Encrypt`, `Decrypt` | called under the pipeline's mutex | no nonce twice |
| `crypt/server_key_loader`, `x25519_agreement`, `kdf` | none; the key file | load the server's key, agree on a session key | `EffectiveSink::Create`, the auditor | the key used is one that was published |
| `compress/zlib_compressor` | the windows of one call | `Compress`, `Decompress` | zlib's `deflate` and `inflate` | no byte skipped, repeated or misplaced; the call ends |
| `formatter`, `proto`, `utils` | none that is shared | pure functions | the pipeline | round trips |
| `audit/shard_reader` | none | `DecodeShardFile`, `DecodeShardDir` | shard files | an unbroken run of records |
| `examples/log_decoder` | the key, what it has decoded | `main` | key file, shard reader | prints what was logged, in order, or nothing |
| other `examples` | test programs | | | quoted where a property states what they assert |

The hard behaviours: writers that enter a lock-free buffer while it is sealed, walked,
reset and zeroed; a master pointer used after the buffer behind it has been recycled;
two condition variables with `notify_one`, one waiter with and one without a timeout;
a drain that may run inline on the thread that holds the lock; hand-over of `running_`
between a post and the end of a drain; growth and shrinkage of the pool racing
shutdown; exceptions half-way through shared buffers; a sweep that works on a listing
while the writer rotates; processes that are killed over files that keep their bytes;
a lazy singleton whose construction may fail half-way; a key file replaced while it is
read; an auditor that reads a directory that is being written. `PROJECT.json` lists
each hazard at its line.

## 2. Modules

| Module | Models | Grain |
|---|---|---|
| `MmapBuffer` | `mmap_buffer.{h,cpp}` | one step per atomic access and per store into the region |
| `SerialExecutor` | what `strand.h` promises | one step per post, start, end of a task |
| `Strand` | `strand.{h,cpp}` | one step per critical section; the hand-over to the pool is a step of its own |
| `ThreadPool` | `thread_pool.{h,cpp}` | one step per critical section, notify and join |
| `MmapStore` | `mmap_store.{h,cpp}` over buffers and a strand | one step per critical section and per access to a buffer outside of it |
| `ShardLog` | `shard_writer`, `eviction_runner`, their life in `effective_sink`, and `shard_reader` | one step per file operation and per entry of the directory; the writer holds `mu_` throughout a frame |
| `LogPipeline` | `log_handle`, `console_sink`, `EffectiveSink::Log`, the nonce counter | one step per stage |
| `Context` | `context.{h,cpp}` and the pool's constructor | one step per critical section, per thread created and per thread that ends |
| `MmapRegion` | `mmap_region.{h,cpp}`, both builds | one step per operation of the object; inside `Create` one per system call |
| `ZlibStream` | `zlib_compressor.{h,cpp}` | one step per call of zlib and per refill of its windows |
| `AuditTrail` | `EffectiveSink::Create`, key files and key agreement, `shard_reader`, `log_decoder` | one step per stage of `Create`, per shard opened, per frame read |
| `CrashSafeLog` | what the sink promises one thread, over crashes and failed calls | one step per record, call, failure and crash |
| `DurableLog` | `EffectiveSink` over `mmap_store`, `mmap_buffer` and `shard_writer` for one thread, with the process killed and file operations failing anywhere | one step per record, swap, frame drained and call |
| `*Proofs` | theorems about the module of that name; `ThreadPoolProofs` also about `Context` and `Strand`, `LogPipelineProofs` also about `ZlibStream` | |
| `MC*` | what an instance needs besides a cfg: symmetry, views, values that a cfg cannot write down. `ShardLog`, `ZlibStream` and `DurableLog` need nothing | |

How they fit together. `Strand` implements `SerialExecutor` (checked and proved), and
`MmapStore` posts its drains to a serial executor: `queue`, the drain at work, and
`runner`, the thread it runs on. `MmapStore` sees a buffer at the grain that
`MmapBuffer` justifies: the fence makes admission one step (`QuiescentDrain`), slots
are disjoint and written before the walk (`SlotsDisjoint`, `AcceptedIntact`), so a
frame is one cell. `Strand` sees the pool through `PostDetached`: the closure waits
for a worker, or runs on the caller's thread once the pool is stopped; that queued
closures are run to the end also through a shutdown is `EveryTaskRuns` and
`ShutdownDrains` of `ThreadPool`. `ShardLog` is handed frames one at a time, as the
strand does, and `LogPipeline` sees `MmapStore` as an `Append` that takes or refuses.

`DurableLog` composes store, buffers and shard files for one thread and implements
`CrashSafeLog` (checked and proved, `KeepsContract`): what several threads add to the
store is `MmapStore`'s subject, what sizes, keys, failures and crashes add is
`DurableLog`'s. `Context` builds the pool and takes it down, thread by thread; the
queue in between is `ThreadPool`'s. `MmapRegion` gives the file whose old bytes
`MmapBuffer` and `DurableLog` find again after a restart, as neither `SetEndOfFile` nor
`ftruncate` clears what stays (`Resized`). `AuditTrail` takes over where `ShardLog`
ends: shards with the key of their header, read one frame at a time while sinks come,
go, fail and are killed. What `DurableLog` shows to get into a shard comes into its
shards too: own frames, frames cut short, and frames that a sink which is gone has left
in the buffer files. Its steps of compression are whole calls of `ZlibStream`.

State and actions follow the code's names: `offset`, `writers`, `sealed`, `master`,
`inflight`, `stopped`, `running` and so on are the members with a trailing underscore;
`pc`-like functions give each thread's place in the function it runs. The variables
called ghosts in the declarations record history for the properties (`accepted`,
`appended`, `persisted`, `covered`, `posted`, `done`, `born`, `used`, ...): no guard
of the code's decisions reads one, apart from a few that only keep records, tasks and
frames distinct and finite. Operators headed "Mutant of" are not part of a
specification: each is a plausible slip in the operation it stands next to, kept to
show that some property would notice it.

Decisions worth knowing:

- `MmapBuffer` works on bytes, so that the payload of an old record can be taken for a
  length. `spoilt` records the two things the code's zeroed tail does not survive: a
  writer admitted between the unsealing and the `memset` of `ResetForReuse`, and a
  file left by an earlier process.
- In `MmapStore`, `Append` may be overtaken at any point after the load of `master_`.
  Records are alike and are taken in a fixed order, as are tasks in `ThreadPool`.
- `stopped_` of the store is set when no call runs (a caller that still runs while the
  object is destroyed has no defined behaviour), so the early returns on it are dead.
- The swap of the store posts a drain; where that needs a thread and none can be
  started, the drain is queued but an exception leaves `Append` or `Flush`
  (`SpawnMayFail`, step `thrown`, `strand.cpp:20`, `thread_pool.cpp:77`).
- Waits use predicates, so a spurious wake-up only repeats a look and is left out; in
  `ThreadPool` a timeout may come at any moment, in `MmapStore` for `Append` alone.
- `ShardLog`: the directory sees what `fopen` and `remove` do; what stdio still
  buffers matters only to the size the evictor reads, any value between `synced` and
  the full size. A new sink starts at a millisecond in which no shard on disk was
  opened, since two sinks that agree on millisecond and number would truncate.
- A sweep of `ShardLog` reads the directory entry by entry, each size at its moment,
  while the writer goes on. An entry that cannot be read is left out, and `ec`, which
  stays set, ends the sweep at the next one. A failed `weakly_canonical` makes the
  active path count as none, or the entry as another file; the ghost `resolves`
  records it. A shard made after the directory was opened may be shown or not. POSIX
  and Windows promise no order there, so a listing might show a new shard and miss an
  older one made in between; the sweep would then keep the older and remove the newer,
  against `eviction_runner.h:15-16`. `calm` rules that out (`Comes`), as it does
  failures and a clock that steps back: the three conditions `AuditReadsLatest` needs.
- `LogPipeline` starts its counter a few values before the end; the calls before that
  change nothing else.
- `calm` in `ShardLog`, `windows` in `MmapRegion` and `wide` in `ZlibStream` are
  chosen in `Init` and never change: whether this is a history in which anything may
  fail, which build this is, and how many values zlib's `uLong` has.
- In `ThreadPool`, creating a thread may fail at any time (`SpawnFails`); the
  exception leaves `Enqueue_` after the task was queued.
- `Context`: `Shutdown` reads `pool_` without a lock, so a thread not ordered after
  the construction (`synced`) may see it or not. `std::call_once` is external.
- `MmapRegion`: the kernel's side is the set of open handles, the length of a file and
  which of its pages are dirty. A handle is a descriptor, a file mapping or a view.
- `ZlibStream`: zlib is external. It consumes and produces any amounts that fit its
  windows and the result, so that windows of every shape occur; bytes are told apart by
  position only. Its totals and bounds are `uLong`, 32 bits wide on Windows, and the
  code converts sizes to it and reads results from it (`ULong`, `% wide`):
  `WholeResult`, `CallEnds` and the second half of `InPlace` are about sizes that fit
  (`InWidth`), which are all sizes elsewhere and below 4 GiB there. A stream may lack
  its end, and `Decompress` may be given nothing at all: then it never is whole.
- `AuditTrail`: a key file caught half-written has the wrong size or gives a short
  read, and is refused either way. Keys are names, and a frame opens for the key it
  was sealed for. The operator truncates and writes, as `WriteFileBytes` of the demo
  does; writing over the file in place, which could mix two keys of the right size, and
  removing it are not modelled, and `KeyWasPublished` says nothing about them.
- A frame in a shard of `AuditTrail` may be the sink's own, one that a failed write has
  cut (`Garbled`), or one that a sink which is gone left in its buffer file and an
  overrun brought back (`DrainLeft`), whole or from its middle. Reads may fail in the
  middle of a shard, between two frames without being noticed, and so may `fwrite` on
  `stdout`: `fault` records that the system, not the file, was at fault.
- `DurableLog`: a crash is that of the process, as a mapping and the page cache
  survive it. Frames are rows of one or two cells, their length in the first; a walk
  that starts in the middle of an old frame reads what its bytes happen to be.
- What fails in `DurableLog`: creating a buffer (`Append` drops the record, `Flush`
  goes on without its swap, the destructor leaves the records in the buffer file,
  `DestroyLeaving`), opening a shard and its header, whose exceptions `OnPersist_`
  swallows, and stdio at any byte, in `fwrite`, `fflush` or `fclose`. A stream that
  failed loses frames (`"gap"`) or, once a frame is cut or the header missing, all
  that follow in that shard (`"break"`). `logged` is what was accepted and neither a
  crash nor such a failure has taken, and `left` whether a process went with records in
  its buffers. A `Create` that throws half-way is `AuditTrail`'s (`WriterFails`,
  `StoreFails`); here it would leave a shard without frames.

## 3. Runs

| Run | Instance | Properties |
|---|---|---|
| `buffer` | 3 writers, records of 1 and 3 bytes, header 2, region 7, restarts | `QuiescentDrain`, `SlotsDisjoint`, `DrainExactUnlessSpoilt` |
| `strand` | 2 clients, 2 workers, 4 tasks, pool may stop | `SerialSpec` (refinement), `PostedTasksRun` |
| `store_shared` | 2 appenders, one of which flushes, 4 records, 1 to 2 buffers of 2, creation and starting a thread may fail, the pool may stop, destructor | `BufferAccounting`, `AtMostOnce`, `CallsReturn`, `RefusesForCause` |
| `pool` | 2 clients, 1 to 2 workers, 3 tasks, creating a thread may fail | `CountExact`, `HandlesOnce`, `ShutdownDrains`, `EveryTaskRuns`, `SettlesAtMin`, `ShutdownReturns` |
| `shards` | frames of 1 or 3 bytes, limit 3, cap 4; calm histories of 3 frames, and ones of 2 where every file operation may fail and the clock step back | `TypeOK`, `ActiveKeptWhilePathsResolve`, `AuditReadsLatest`, `WithinLimit`, `EvictionCatchesUp`, `StopReturns` |
| `pipeline` | 2 threads, 4 messages, counter from 5 of 8, every stage may throw | `FrameIsOwn`, `NoncesAscend`, `CallsEnd` |
| `durable` | 2 processes, 4 records of 1 or 2 cells, or 3 and a failure anywhere, buffers and shards of 2 cells | `PrefixOnDisk`, `CrashCostsOneShard`, `FramesOpenUnlessLeft`, `KeepsContract` (refinement) |
| `region` | both builds, 2 threads, 2 objects, 1 file of one or two pages, any call may fail, `Sync` of any range, crashes | `HandlesOwned`, `Exclusive`, `SyncCovers`, `MappedUnlessShared` |
| `context` | 3 threads, 2 cores, three configurations, creating a thread may fail | `FrozenConfig`, `NoWorkerOutlives`, `PoolAnswers` |
| `zlib` | inputs of 0 to 8 bytes, results up to 11, windows of 2, `uLong` of 8 or 64 values, streams with and without their end | `WholeResult`, `CallEnds` |
| `audit_trail` | 2 sinks, 2 keys, 2 records, failed reads and writes, kills, old frames, evictions, a decoder beside them | `KeyWasPublished`, `Prints`, `PrintsAll` |
| `store_stale` | 1 appender, 1 flusher, 3 records, 2 buffers | `FlushCovers`, violated |

Why the bounds are enough to be interesting. In `buffer` the region holds one large or
two small records with a remainder smaller than a header, three writers are enough for
one to be late, one to overrun and one to win, and several cycles and restarts fit
because `MaxOffset` bounds only when a call may start. In `strand` four tasks let
`Drain_` end and be restarted while a post is on its way. `store_shared` has two
threads wait for the last buffer, one with a timeout and one without; a third thread
would bring another flush, and no wait of another kind. `pool` grows, shrinks, reaps
and is shut down with posts in flight; identities are reused after a join. `shards`
rotates on the exact limit and past it, keeps a frame that is too large for any shard,
evicts several shards and makes the sink anew, in two kinds of history side by side:
`calm` is chosen at the start, and histories with failures are kept to two frames
(`MaxFramesF`); with three they hold as well, in some two million states. `pipeline`
reaches the refused counter value and the wrap after it. `context` has a builder, one
that waits for it and `main`, which leaves; with two cores the default pool is of one
to two threads, so that construction may fail at the first of them, and the
configurations include one that has to be put right. `zlib` crosses three window
boundaries on the input and five on the output, with results that end on, before and
after one; a `uLong` of 8 values counts four windows, as 32 bits do of 1 GiB each, and
inputs and results go beyond. `durable` fills and recycles buffers, makes a third one,
rotates shards, overruns a buffer with each size, and crashes at every step of two
processes; a third would start like the second. `MaxFrames` counts records and failures
together, so that four records go without a failure and three with one, which is
`MaxFaults`; `MaxFiles` bounds the numbers of buffer files, past which none is created.
`region` needs two pages, so that the aligned start that `msync` wants may lie below
the one asked for, two objects, so that a move has a source and a destination and a
`Create` meets a file that is mapped, and two threads, so that it meets one that is
half-way made. `audit_trail` has as many sinks and keys as it takes for a directory of
two keys, and two records, one of each sink or both of one; that all are UTF-8 takes
nothing away, because a frame that is not stops the decoder as a garbled one does, and
those are in the run. The views of `region` and `audit_trail` leave out which handle
number the kernel gave and what a decoder that has failed had read, on which nothing
depends. Deadlock is not checked where a program may just stop: the clients of every
model but `MmapBuffer` run out of records, tasks or frames.

`store_stale` is meant to fail. It checks a promise of the header that the code does
not keep among several threads. `Append` writes through a `master_` it loaded earlier.
When another thread's `Flush` (or any swap) has meanwhile drained and recycled that
buffer, the record lands in a spare buffer; the next `Flush` finds an empty master,
nothing in flight, and returns without it (`mmap_store.h:52`). With a single thread
the promise holds, also across shutdown, destruction (`MmapStore_client.cfg`) and
crashes (`durable`), unless a buffer cannot be created (`MmapStore_create.cfg`, below)
or a write fails (`durable`, where either voids the `Flush` it happens in).

Further configurations reproduce other promises of documents, comments or tests that
do not hold; TLC reports the violation named for each of them:

- `MmapStore_destroy.cfg`, `NoUseAfterDestroy`. `DrainOne_` counts `in_flight_` down
  and only then locks `mtx_` to notify; the destructor's `Flush` may return in
  between, and the drain then uses a destroyed mutex (`mmap_store.cpp:172-176` against
  `44-55`).
- `MmapStore_stopped.cfg`, `CallsReturnStopped`. The swap posts its drain with `mtx_`
  held; a stopped pool runs it on the caller's thread, where `DrainOne_` locks `mtx_`
  again. The shutdown order of `README.md:263-264` gets there; that of `README.md:270`
  does not.
- `MmapStore_create.cfg`, `RefusesOnlyWhenFull` and `FlushCovers`, each on its own. When
  a buffer cannot be created, `Append` returns false at once (`mmap_store.cpp:121-124`),
  although it is to do so only when the pool is full and the wait timed out
  (`mmap_store.h:49`); and `Flush` ignores that its swap failed (187), so that even the
  only thread gets it back without its records (`mmap_store.h:52`). `RefusesForCause`,
  which `store_shared` checks, is what does hold: these two causes and no third.
- `ShardLog_paths.cfg`, `ActiveKept`. When `weakly_canonical` fails for the active
  shard's path, or for an entry's (`eviction_runner.cpp:127-137`), the sweep does not
  recognise the shard that is being written and removes it: "always skipped",
  `eviction_runner.h:17-18`. `ActiveKeptWhilePathsResolve` is what does hold.
- `LogPipeline_wrap.cfg`, `NonceOnce`. Only the counter value 2^32-1 is refused; the
  call after it wraps to 0 (`aes_gcm_cipher.cpp:40-44`, "Refuse to wrap").
- `MmapBuffer_unscrubbed.cfg`, `DrainExact`. `ResetForReuse` opens the buffer before
  it zeroes it, although "writers_ is already 0" (`mmap_buffer.cpp:67`); a late
  writer's accepted record is then zeroed, or cuts the walk short.
- `DurableLog_stale.cfg`, `NoForeignFrames`. After a crash, or an exit whose `Flush`
  had no buffer to swap to, the next process maps the old buffers
  (`mmap_region.cpp:109-118` does not clear them); an overrun raises the mark over
  frames of the old key, and the drain writes them into a shard with the new one, where
  they do not open. `mmap_buffer.cpp:68-72` rules old frames out.
- `ShardLog_header.cfg`, `HeaderFirst`. After a short header write the file stays open
  and later frames follow (`shard_writer.h:14-15`).
- `ShardLog_clock.cfg`, `ChronologicalNames`. Names use local time, so that
  lexicographic order is chronological (`shard_writer.h:13`, `eviction_runner.h:16`)
  only while local time does not step back.
- `MmapRegion_shrunk.cfg`, `Mapped`. POSIX `Create` takes no lock on the file: a
  second `Create` with a smaller size cuts the file under the first one's mapping.
  Where the file is locked, on Windows, it is a theorem (`MappedUnderLock`).
- `Context_retry.cfg`, `IgnoredOnlyWhenInitialized`. `Pool()` freezes the
  configuration before it builds: when building fails, a later `Configure` is ignored
  though no pool exists.
- `Context_shutdown.cfg`, `ShutdownMeansStopped`. A second `Shutdown` returns while
  the first is still joining the workers.
- `ZlibStream_truncated.cfg`, `EveryCallEnds`. `Decompress` of a stream that lacks its
  end, or of nothing, goes round for ever: `inflate` makes no progress, and the loop
  does not look. `shard_reader.h:18` promises an exception for a damaged file.
- `AuditTrail_utf8.cfg`, `CompletePrintsAll`. A message that is not UTF-8 is logged
  without complaint, and parsing it again fails: neither its shard nor its directory
  can be decoded, though `shard_reader.h:14` and `31` promise all records of complete
  shards. With two sinks and UTF-8 alone it breaks as well, by an old frame.
- `MmapStore_order.cfg`, `InOrder`. With a second thread that flushes, a record in a
  recycled buffer overtakes later ones (compare `mmap_smoke.cpp:169-170`).

One more holds: `MmapStore_client.cfg`, one thread that appends and flushes
(`InOrder`, `FlushCovers`). The type invariants are not repeated in the runs where
they are theorems: `MmapBuffer`, `MmapStore`, `Strand`, `ThreadPool`, `LogPipeline`,
`Context` and `ZlibStream`.

What some properties leave out, so that nobody takes them for more: `ShutdownDrains`
is about the `Shutdown` that joins, and the second caller is
`Context_shutdown.cfg`; `AuditReadsLatest` is about calm histories, and a clock that
steps back is `ShardLog_clock.cfg`; `NoncesAscend` is about the time before the
refusal, and the wrap is `LogPipeline_wrap.cfg`; `DrainExactUnlessSpoilt` leaves out
the late writer of `MmapBuffer_unscrubbed.cfg`; `NoWorkerOutlives` is about an exit at
which no other thread is inside a call, a joiner still at work included; `WholeResult`
and `CallEnds` end at what `uLong` can count. Beyond it, on Windows, `deflateBound` is
asked for too little, `Compress` may go round for ever and results may be cut at
`total_out` modulo 4 GiB: no document names a limit, so no property says that this is
wrong.

## 4. Fairness

Threads that are inside a call are scheduled (weak fairness of what they do next);
nobody has to start a call, stop the pool or destroy anything. Timed waits end.
`ThreadPool` and `LogPipeline` need strong fairness, because a mutex is taken and
released by others for ever or for long: the assumption is that `std::mutex` does not
starve a waiter, which the standard does not promise and the usual futex and SRW
implementations give in practice. `MmapStore` has weak fairness only: with finitely
many records its mutex is free for ever at the end. `MmapStore` assumes that the
strand runs what is posted, which is `PostedTasksRun` of `Strand`, which in turn
assumes that a pool worker takes a queued closure, which is `EveryTaskRuns` of
`ThreadPool`. `Context` has strong fairness for each thread inside a call, again
because of a mutex, and weak fairness for workers that were told to stop and for the
way out of `main`. In `ZlibStream` the one call goes on. The violations of liveness
(`MmapStore_stopped.cfg`, `ZlibStream_truncated.cfg`) are of `FairSpec`.

## 5. Proofs

All theorems have the form `Spec => []P` (or a refinement) and hold for every value of
the constants that satisfies the named assumptions in the modules. TLC has checked the
same `P` on small instances, and the strengthenings were model-checked before they
were proved. What is assumed:

- finitely many threads: `WritersAssumption` (buffer), `IdsAssumption` (pool: also at
  least `MaxThreads` identities and one for each client, which `ThreadsBounded` shows
  to be enough), and enough handles for three to each thread and object
  (`HandlesAssumption` of `MmapRegion`), since the code has no answer to running out
  other than the failure that is an action of its own;
- names that differ: `ThreadsAssumption`, `EmptyAssumption`, `NoTaskAssumption`,
  `NoNameAssumption`, `NoneAssumption`, `TextAssumption`, and threads from objects in
  `HandlesAssumption`;
- sizes that make sense, as the code checks or defines them: a header, windows,
  capacity and `MinBuffers` above zero (`SizesAssumption`), a pool of at least one
  thread (`ConfigAssumption`, which `Context` proves of every Config it builds from);
- records of non-zero bytes (`RecordsAssumption` of `MmapBuffer`), so that a length
  is told from a zeroed tail;
- the width of `uLong` is a number above zero (`ChunkAssumption`): 64 and 32 bits are
  two of its values, and the theorems about results say themselves which sizes they
  are for.

No theorem assumes that an operation succeeds. Where a failure matters to the property,
the property says so: `resolves` in `ActiveKeptWhilePathsResolve`, `left` in
`FramesOpenUnlessLeft`, `harm` in `CrashCostsOneShard`, `fault` and `Readable` in
`PrintsAll`, and the actions `Fault` and `Aftermath` of `CrashSafeLog`.

`ThreadPoolProofs` takes in `Context` and `Strand`, and `LogPipelineProofs` takes in
`ZlibStream`, by INSTANCE with constants and variables of their own. Assumptions of a
module do not come with an instance, so they are hypotheses of the theorems there:
`HolderSizes` repeats the assumptions of `Context` and `StreamSizes` those of
`ZlibStream`; for `Strand` none are needed beyond that `NoTask` is no task.

Module by module, with the argument each takes:

- `MmapBufferProofs`. `TypeInv` adds to `TypeOK` that `writers` is the number of calls
  inside `Write`; it needs that count to stay finite, hence the lemmas on
  `Cardinality`. `FenceInv` says where a writer may be when `sealed` is up and the
  drainer is past `Seal`; with it `SealIsQuiescent` follows, and it is what the
  two-phase order of the loads and stores buys. `SlotInv` adds that every slot,
  claimed or accepted, ends at or below `offset`, and is inductive because `offset` is
  only reset when the fence holds: `SlotsAreDisjoint`. `MemInv` describes the bytes of
  the accepted slots and of the header of a slot being written: `AcceptedStaysIntact`;
  `TailInv` the zeros beyond the mark: `TailStaysZero`. The last two are guarded by
  `spoilt`, and the proofs show that nothing else breaks them.
  `WalkIsExact` is about `ForEachFrame` itself. `Chained` says that each slot begins
  where the buffer begins or another slot ends, `Covered` that outside the slots there
  is nothing but zeros, `Nonempty` that no slot is empty; together they are why a walk
  cannot stop early, go astray or find something between two slots. The walk is a
  recursive function chosen to exist, so its existence is proved first (`WalkExists`),
  by a minimal counterexample over what is left of the region, and then by the same
  argument that from the start of a slot it reads exactly the slots from there on
  (`WalkFinds`). `DrainInv` carries the result from the walk to the reset.
- `MmapRegionProofs`. `HandleInv` says who holds which handle: each open handle is in
  one object or one `Create` (`Owned`), a `Create` has opened what its step says
  (`JobSound`), an object with handles has the file of its path among them
  (`RegionSound`), no owner has two of a kind, and on Windows a path is open once
  (`OneFile`). `HandlesOwned` and `Exclusive` follow. That a next handle exists is an
  argument by counting (`HandleLeft`): one of each kind for each owner, and this one
  lacks the kind it is about to open. `RangeCovered` is the arithmetic of an aligned
  `msync`, for every page size: `SyncCovers`. `ResizedLength` is what `SetEndOfFile` and
  `ftruncate` do to a length. `RoomInv` adds that a `Create` past its resize has a file
  of its size; on Windows `ResizesAlone` shows that nobody else has that file then, so
  that no `Create`, however many are half-way, cuts a file that is mapped:
  `MappedUnlessShared`.
- `MmapStoreProofs`. `BufferAccounting` counts; what is inductive is `Places`: the
  master, the free list, the queue of the strand and the drain at work share out
  `1 .. size` without overlap, `Counted` relates `in_flight_` to the queue and the
  point the drain has reached, and `SealedInDrain` lets only the buffer at the drain
  be sealed. The swap is one lemma (`SwapKeepsPlaces`) for `Append` and `Flush`. For
  `AtMostOnce` a cell is `Pending` until the drain has walked past it: the record in
  it has been accepted, has not been persisted and is in no other pending cell
  (`Cells`); records in hand are not accepted yet (`InHand`); cells beyond the mark
  are zero (`TailZero`), so that a late writer into a buffer not yet scrubbed adds
  nothing that is drained. `RefusesForCause` needs `WaitsWhenFull`: a thread that
  waits for a buffer found the pool at its limit, and the pool never shrinks; without a
  wait a record is given up only by the step in which a creation fails.
- `ThreadPoolProofs`. `CountExact` and `HandlesOnce` become inductive with `Closing`
  (one thread shuts down; once it has taken the handles there are none left and none
  come) and `Handles` (a handle in `workers_` is that of a thread still in its loop).
  `Room` is a potential argument: threads that were started and not joined, plus
  clients about to start one, are at most `MaxThreads` plus one for each client, as a
  post joins the threads that have left before it starts another. `Drained` (a stopped
  pool without workers has no tasks left) and `TasksOnce` (a task is in one place: a
  client's hand, the queue, a worker's hand, or run) give `ShutdownDrains`.
- `Context` (in `ThreadPoolProofs`). The safety properties of the run, `TypeOK`,
  `OneBuilder` and `PoolCanRun` are one inductive invariant with four more parts:
  `OnceInv`, who is inside `call_once` and what that says of the pool; `ConfigInv`,
  that the pool is built from what was frozen; `ExitInv`, that `main` leaves alone;
  `WorkersInv`, where threads may be alive. `NormalisedRuns` is the lemma that the
  constructor makes a pool that can run of every configuration.
- `Strand` (in `ThreadPoolProofs`). `LineInv` is `TypeOK`, `OneDrain` and that a
  thread carries a task exactly while it runs it. One carrier at a time makes
  `Current` well defined, each action is then an append, a move of the head or an end
  of a task in `Fifo`, and `StrandIsSerial` maps each step to `Post`, `Start`, `Finish`
  or a stutter of `SerialExecutor`.
- `ShardLogProofs`. `ActiveKeptWhilePathsResolve` is not inductive. `KeepInv` adds that
  a shard on disk that carries the current millisecond has a number below `seq_`, so
  that the next name is new (`NamesAhead`); that the open stream is on the shard `path`
  names, which is on disk (`PathIsOpen`); and that a sweep holds, unread or listed,
  only shards that are still there and, past `ReadActive`, has the open shard as
  `active` or no longer lists it (`SweepIsSafe`), all of it while `resolves` holds.
  Sizes are sums folded over sets and sequences; that such a sum exists, is a number
  and grows by the weight of a new element is proved by minimal counterexamples
  (`SumsExist`, `SizeOfAppend`). For calm histories: `Measured` ties the member
  `current_size_` to the bytes on disk (`StaysWithinLimit`); `NewestIsPath` and
  `OldestListed` say that the shard opened last has the last name and that what a sweep
  has neither read nor listed is newer than what it has, so that it removes a prefix;
  `LatestInOrder` that frame numbers ascend along the names and that the successor of
  each but the last is there. From these `AuditorReadsLatest` follows without a further
  step of the system: the sorted listing exists and is unique (`NameOrder`), flattening
  ascending sequences in it ascends (`FlattenIncreasing`), and an ascending sequence
  closed under successors up to the last number is an unbroken run (`RunOfNumbers`).
- `LogPipelineProofs`. `OInv` says that the one thread inside the pipeline holds the
  lock and, past formatting, has its own message in the buffers: `FramesAreOwn`, and
  with it the types (`TypeCorrect`). `NInv` adds that the nonces used so far ascend
  below the counter until one is refused, at each place of the thread in `Encrypt`:
  `NoncesAlwaysAscend`.
- `ZlibStream` (in `LogPipelineProofs`). `StreamInv` accounts for each byte: what was
  consumed, is in the window and is left makes up the input (`InExact`), the same for
  the result's space (`OutExact`), `Z_FINISH` is given only once nothing is left
  (`FinishLate`), and the loop ends with nothing missing (`EndInv`). It holds for every
  window size, input and width of `uLong`; what the code reads from zlib is the truth
  only within `InWidth`, and `WindowsAlwaysFit` needs no more than that a remainder is
  no larger than what it is taken of.
- `DurableLogProofs`. The inductive invariant follows a record on its way. `Process`:
  every process has its own key, and none leaves a drain behind. `Places`: the master,
  the queue and the free list share out the buffers. `Layout`: what this process wrote
  is a row of whole frames from the first cell on; `Walk`: the drain is at the start
  of one, or past the last. `InOrder`: record numbers ascend through the shards, then
  through the buffers in the order they are drained, then to `next`. `Account`: every
  record that is still owed is in a shard or waits in a buffer. `Complete`: only the
  shard that is open has frames that are not on disk. `Calls`: the thread's place in a
  call, and that a `Flush` whose target is not void had its swap. `Blamed`: a shard is
  harmed by a failure. `Clean`: until a process leaves records behind there is nothing
  older in a buffer. A failed write takes a set of records out of `logged`, and `Lose`
  is shown to leave what stays in order (`Without`), so that the same invariant goes
  through steps that drop frames from the middle. What is on disk, flattened in
  the order of the shards, is an increasing sequence of logged numbers (`FoundIn`,
  `OnDiskInLog`), and with `Account` a prefix: `PrefixOnDisk`. For `KeepsContract`
  each action is shown to be an append, a growth of the durable part, a call, a return
  with all of it durable, a crash, a failure or what a harmed shard takes afterwards
  (`LosesKeeps`), or a stutter of `CrashSafeLog`.
- `AuditTrailProofs`. `KeyInv` follows the bytes of the key file through the checks:
  what `Create` holds after the read is the whole of a published key, since 32 bytes
  are only there in one piece (`KeyWasPublished`). `ShardsInv`, `Owners` and `Grow` say
  that only the last shard is written to, by who made it, and that finished shards stay
  as they are; a frame in it has a key of its own, which is the header's, an older
  sink's (`LeftInv`: left frames are of sinks made before this one) or none. `AuditInv`
  relates a decoder at work to this: what is left to read is the end of what was listed
  (`Listed`), and what has been decoded is, for each shard listed, the first of its
  frames up to a `cut`, no fewer than were readable then once it has been read
  (`CutSound`). Reading one more frame lengthens the flattened whole by one record
  (`FlattenGrows`): `Prints`. `SoundList` adds that a listing of complete shards stays
  one while nobody evicts them, so that, where its frames are readable and the system
  does not fail, nothing throws: `PrintsAll`.

Three definitions are stated so that they can be reasoned about: `DecodeShardDir` of
`ShardLog` and `Sorted` of `AuditTrail` take the one listing that is in the order of
the names, where the code sorts one, and `DrainExact` asks for the accepted
records in the order of their slots rather than for a sorted copy of them.

Out of the prover's reach, and left to TLC: liveness under fairness (`CallsReturn`,
`EveryTaskRuns`, `SettlesAtMin`, `ShutdownReturns`, `EvictionCatchesUp`,
`StopReturns`, `CallsEnd`, `PoolAnswers`, `CallEnds`) and `ENABLED`. Every safety
property of a passing run, invariant, action property or refinement, is a theorem.
The promises of single configurations that hold for one thread only
(`MmapStore_client.cfg`) are model-checked.

## 6. Not modelled

- Memory ordering weaker than sequential consistency: the fence uses `seq_cst`; the
  relaxed load and store of `ResetForReuse` are modelled as if in program order.
- A loss of power: `ShardWriter::Flush` syncs the shard that is open, closing one at a
  rotation syncs nothing, and the buffers are as durable as the page cache.
- Records larger than a buffer, which `Append` retries for ever, and a `Flush` that is
  starved by endless appends of others: the models have finitely many records.
- Two sinks over one directory at the same time; tasks that post while the pool stops.
- A thread that is still inside a call, joining workers for instance, when the process
  leaves `main`.
- In `DurableLog`, a thread that cannot be started for the drain: the exception ends
  the call as `Leaves` of `MmapStore` shows, with the drain queued; the record of that
  `Append` is not accepted, and that `Flush` does not return.
- Levels of `LogHandle`, which are set by single stores; `SetFormatter`; `Submit` and
  futures; `InternalLog`'s output.
- What cryptography and zlib compute, and the text and protobuf encodings: no property
  is about their bytes, apart from whether a record can be parsed again.
- The smoke tests: they drive the library, and are quoted where they state a promise.

## 7. Plan

Done: the components that carry the library's concurrency, its files and keys, crashes
of the process, and proofs of every safety property the runs check. Next, in order:

1. Records taken again after they have been persisted, so that appends need not end:
   `Flush` under sustained appends. Oversized records in `MmapStore`.
2. `FlushCovers` and `InOrder` for a store with one client, proved.
3. Two sinks over one directory; `NoncesAscend` across sinks and keys.

The number of runs and of checked properties is kept small on purpose: related
questions share a run.
