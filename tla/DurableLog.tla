----------------------------- MODULE DurableLog -----------------------------
(* A record on its way to disk, and the crash of the process: one thread     *)
(* that logs through EffectiveSink (src/sinks/effective_sink.cpp) into the   *)
(* buffers of MmapStore (src/mmap/mmap_store.cpp), the drain, and the stdio  *)
(* file of ShardWriter (src/sinks/shard_writer.cpp). A process agrees on a   *)
(* key of its own, and maps the buffer files that the last one left behind.  *)
(*                                                                           *)
(* A buffer is a row of cells; a frame takes one or two of them, and its     *)
(* length stands in the first. What MmapStore does among several threads is  *)
(* that module's subject. A crash is one of the process: what the kernel has *)
(* been given stays. The directory is large enough not to be evicted from.   *)
(*                                                                           *)
(* A buffer file may fail to be created, and the stream, a shard's header or *)
(* fopen may fail; the code swallows each of these and goes on.              *)
EXTENDS Integers, Sequences, SequencesExt

CONSTANTS
    Sizes,       \* of a frame, in cells
    Cap,         \* cells of a buffer
    MinBuffers, MaxBuffers,
    ShardLimit,  \* cells of a shard
    MaxFiles,    \* bound: the buffer files; past it no file is created
    MaxProcs,    \* bound: how many processes run one after the other
    MaxFaults,   \* bound: how many calls fail
    MaxFrames    \* bound: how many records are logged, the calls that fail counted in

ASSUME SizesAssumption   == Cap \in Nat \ {0} /\ Sizes \subseteq 1 .. Cap
ASSUME BuffersAssumption ==
    /\ MinBuffers \in Nat \ {0} /\ MaxBuffers \in Nat /\ MaxFiles \in Nat
    /\ MinBuffers <= MaxBuffers /\ MinBuffers <= MaxFiles
ASSUME BoundsAssumption  ==
    ShardLimit \in Nat /\ MaxProcs \in Nat /\ MaxFrames \in Nat /\ MaxFaults \in Nat

VARIABLES
    cells,     \* the buffer files, which outlive the process
    offset,    \* each buffer's offset_
    pool,      \* pool_: how many buffers this process has mapped
    files,     \* next_seq_: how many files it has tried
    master,    \* master_
    free,      \* free_
    queue,     \* the buffers whose drain has been posted; the first is being drained
    pos,       \* the drain: where the walk is, 0 when there is none
    key,       \* the process and its AES key, 0 when none runs
    procs,     \* how many there have been
    shards,    \* the shard files, see NewShard
    client,    \* the thread: its step, its frame, and the records its Flush is for
    next,      \* how many frames have been made
    logged,    \* ghost: the records accepted that no crash and no failure has taken
    left,      \* ghost: some process has left records in its buffers
    faults     \* how many calls have failed

buffers == <<cells, offset, pool, files, master, free>>
vars == <<buffers, queue, pos, key, procs, shards, client, next, logged, left, faults>>

Buffers  == 1 .. MaxFiles
Empty    == [key |-> 0, n |-> 0, part |-> 0, size |-> 0]
NoTarget == {0}
Idle     == [step |-> "idle", size |-> 0, target |-> NoTarget]

Init ==
    /\ cells = [b \in Buffers |-> [i \in 1 .. Cap |-> Empty]]
    /\ offset = [b \in Buffers |-> 0]
    /\ pool = 0 /\ files = 0
    /\ master = 1 /\ free = << >> /\ queue = << >> /\ pos = 0
    /\ key = 0 /\ procs = 0
    /\ shards = << >>
    /\ client = Idle /\ next = 0
    /\ logged = << >> /\ left = FALSE /\ faults = 0

Smaller(m, n) == IF m < n THEN m ELSE n
Used(b) == Smaller(offset[b], Cap)

Fails ==
    /\ faults < MaxFaults /\ next + faults + 1 < MaxFrames
    /\ faults' = faults + 1

Without(s, ns) ==
    FlattenSeq([i \in DOMAIN s |-> IF s[i] \in ns THEN << >> ELSE <<s[i]>>])

Lose(ns) == logged' = Without(logged, ns)

\* The records of this process among some frames.
Records(fs) == {f.n : f \in {g \in ToSet(fs) : g.key = key}}

-----------------------------------------------------------------------------
(* The shard writer.                                                         *)

\* The header's key, the whole frames behind it, how many are on disk (-1: not even
\* the header), whether a part of the next is, whether file_ is open on the shard, and
\* what a failed write has done to it: a "gap" lost frames, after a "break" no bytes
\* can be told frame from frame.
NewShard(k) ==
    [key |-> k, frames |-> << >>, disk |-> -1, torn |-> FALSE, open |-> TRUE, harm |-> "none"]

SizeOf(shard) == FoldSeq(LAMBDA f, sum : f.size + sum, 0, shard.frames)

Current == shards[Len(shards)]

\* fflush, in Flush and before a shard is closed.
Synced(shard) == [shard EXCEPT !.disk = Len(shard.frames), !.torn = FALSE]

\* Mutant of Closed: the stream is abandoned.
ClosedNot(shard) == shard

Closed(shard) == [Synced(shard) EXCEPT !.open = FALSE]

\* Only the first n of its frames have got through.
Spoilt(shard, n, harm) ==
    [shard EXCEPT !.frames = SubSeq(@, 1, n), !.torn = FALSE, !.harm = harm]

Stored(shard, f) ==
    IF shard.harm = "break" THEN shard ELSE [shard EXCEPT !.frames = Append(@, f)]

\* A shard with frames rotates when the next one would exceed the limit. A short write
\* is not counted in current_size_: a harmed shard may rotate sooner or later.
Stays(f) ==
    /\ Current.open
    /\ Current.harm # "none" \/ Current.frames = << >> \/ SizeOf(Current) + f.size <= ShardLimit

Rotates(f) == Current.harm # "none" \/ ~Stays(f)

Rotated(new) == Append([shards EXCEPT ![Len(shards)] = Closed(@)], new)

\* OnPersist_ swallows the exceptions of OpenNewShard_: after a failed fopen file_ is
\* null, after a failed header the stream is open on a shard without one.
WriteFrame(f) ==
    \/ /\ Stays(f)
       /\ shards' = [shards EXCEPT ![Len(shards)] = Stored(@, f)]
       /\ IF Current.harm = "break" THEN Lose(Records(<<f>>)) ELSE UNCHANGED logged
       /\ UNCHANGED faults
    \/ /\ Rotates(f)
       /\ shards' = Rotated(Stored(NewShard(key), f))
       /\ UNCHANGED <<logged, faults>>
    \/ /\ Rotates(f)
       /\ Fails
       /\ \/ shards' = [shards EXCEPT ![Len(shards)] = Closed(@)]
          \/ shards' = Rotated([NewShard(key) EXCEPT !.harm = "break"])
       /\ Lose(Records(<<f>>))

\* stdio writes some of its buffer, at any byte.
Spill ==
    /\ key # 0
    /\ \E n \in Current.disk .. Len(Current.frames), torn \in BOOLEAN :
          /\ torn => n < Len(Current.frames)
          /\ Current.torn /\ n = Current.disk => torn
          /\ shards' = [shards EXCEPT ![Len(shards)].disk = n, ![Len(shards)].torn = torn]
    /\ UNCHANGED <<buffers, queue, pos, key, procs, client, next, logged, left, faults>>

\* It cannot, in fwrite, fflush or fclose, and from some byte on what the buffer held
\* is gone; nobody is told, or nobody listens (shard_writer.cpp:75, 94, 130).
StreamFails ==
    /\ key # 0 /\ Current.open
    /\ Fails
    /\ \E n \in 0 .. Len(Current.frames), harm \in {"gap", "break"} :
          /\ n >= Current.disk
          /\ Current.disk = -1 \/ Current.harm = "break" => harm = "break"
          /\ shards' = [shards EXCEPT ![Len(shards)] = Spoilt(@, n, harm)]
          /\ Lose(Records(SubSeq(Current.frames, n + 1, Len(Current.frames))))
    /\ UNCHANGED <<buffers, queue, pos, key, procs, client, next, left>>

-----------------------------------------------------------------------------
(* The process.                                                              *)

\* Create: a new key, a first shard, and min_buffers files mapped as they are. (When
\* one of them fails there is no sink, and a shard without frames.)
Start ==
    /\ key = 0 /\ procs < MaxProcs
    /\ procs' = procs + 1 /\ key' = procs'
    /\ shards' = Append(shards, NewShard(key'))
    /\ offset' = [b \in Buffers |-> 0]
    /\ pool' = MinBuffers /\ files' = MinBuffers /\ master' = 1
    /\ free' = [i \in 1 .. MinBuffers - 1 |-> i + 1]
    /\ UNCHANGED <<cells, queue, pos, client, next, logged, left, faults>>

\* What the disk holds: the whole frames of a shard that open under its key. (The
\* auditor stops at the first one that does not; that is AuditTrail's subject.)
FoundIn(shard) ==
    FlattenSeq([j \in DOMAIN shard.frames |->
        IF j <= shard.disk /\ shard.frames[j].key = shard.key THEN <<shard.frames[j].n>> ELSE << >>])

OnDisk == FlattenSeq([i \in DOMAIN shards |-> FoundIn(shards[i])])

Gone ==
    /\ key' = 0 /\ queue' = << >> /\ pos' = 0 /\ client' = Idle
    /\ UNCHANGED <<buffers, procs, next>>

\* What stdio has not written is lost; what is in the mapped files stays there.
Crash ==
    /\ key # 0
    /\ shards' = [shards EXCEPT ![Len(shards)].frames = SubSeq(@, 1, Current.disk)]
    /\ logged' = OnDisk
    /\ left' = TRUE
    /\ UNCHANGED faults
    /\ Gone

\* The destructors flush, and the writer closes its shard.
Destroy ==
    /\ key # 0 /\ client = Idle /\ queue = << >> /\ offset[master] = 0
    /\ shards' = [shards EXCEPT ![Len(shards)] = Closed(@)]
    /\ UNCHANGED <<logged, left, faults>>
    /\ Gone

\* No buffer can be created that would take the master's place: what is in it stays.
DestroyLeaving ==
    /\ key # 0 /\ client = Idle /\ queue = << >> /\ offset[master] > 0
    /\ free = << >> /\ pool < MaxBuffers
    /\ Fails
    /\ shards' = [shards EXCEPT ![Len(shards)] = Closed(@)]
    /\ logged' = OnDisk'
    /\ left' = TRUE
    /\ Gone

-----------------------------------------------------------------------------
(* The thread that logs.                                                     *)

Log ==
    /\ key # 0 /\ client = Idle /\ next + faults < MaxFrames
    /\ \E s \in Sizes : client' = [Idle EXCEPT !.step = "write", !.size = s]
    /\ UNCHANGED <<buffers, queue, pos, key, procs, shards, next, logged, left, faults>>

\* The frame goes behind offset_ of the master.
Write ==
    /\ client.step = "write"
    /\ LET old == offset[master]
           s   == client.size
       IN /\ old + s <= Cap
          /\ cells' = [cells EXCEPT ![master] = [i \in 1 .. Cap |->
                IF i \in old + 1 .. old + s
                THEN [key |-> key, n |-> next + 1, part |-> i - old, size |-> s] ELSE @[i]]]
          /\ offset' = [offset EXCEPT ![master] = old + s]
    /\ next' = next + 1
    /\ logged' = Append(logged, next')
    /\ client' = Idle
    /\ UNCHANGED <<pool, files, master, free, queue, pos, key, procs, shards, left, faults>>

\* It does not fit; offset_ stays where the attempt has put it. Every value beyond
\* Cap means the same, so one is enough.
Overrun ==
    /\ client.step = "write"
    /\ offset[master] + client.size > Cap
    /\ offset' = [offset EXCEPT ![master] = Cap + 1]
    /\ client' = [client EXCEPT !.step = "swap"]
    /\ UNCHANGED <<cells, pool, files, master, free, queue, pos, key, procs, shards, next,
                   logged, left, faults>>

\* Mutant of SwapTo: the drain is posted in front of the others.
SwapToFront(b) ==
    /\ master' = b
    /\ queue' = IF pos = 0 THEN <<master>> \o queue ELSE <<Head(queue), master>> \o Tail(queue)

SwapTo(b) ==
    /\ master' = b
    /\ queue' = Append(queue, master)

\* A free buffer, or a new one over whatever its file holds.
Swap ==
    /\ client.step \in {"swap", "flushswap"}
    /\ \/ /\ free # << >>
          /\ SwapTo(Head(free))
          /\ free' = Tail(free)
          /\ UNCHANGED <<pool, files>>
       \/ /\ free = << >> /\ pool < MaxBuffers /\ files < MaxFiles
          /\ SwapTo(files + 1)
          /\ pool' = pool + 1 /\ files' = files + 1
          /\ UNCHANGED free
    /\ client' = [client EXCEPT !.step = IF @ = "swap" THEN "write" ELSE "flushwait"]
    /\ UNCHANGED <<cells, offset, pos, key, procs, shards, next, logged, left, faults>>

\* It cannot be created, and its number is used up: Append drops the record, and Flush
\* goes on as if it had swapped.
SwapFails ==
    /\ client.step \in {"swap", "flushswap"}
    /\ free = << >> /\ pool < MaxBuffers
    /\ Fails
    /\ files' = Smaller(files + 1, MaxFiles)
    /\ client' = IF client.step = "swap" THEN Idle
                 ELSE [client EXCEPT !.step = "flushwait", !.target = {}]
    /\ UNCHANGED <<cells, offset, pool, master, free, queue, pos, key, procs, shards, next,
                   logged, left>>

\* Back-pressure: the record is dropped.
TimeOut ==
    /\ client.step = "swap" /\ free = << >> /\ pool = MaxBuffers
    /\ client' = Idle
    /\ UNCHANGED <<buffers, queue, pos, key, procs, shards, next, logged, left, faults>>

FlushCall ==
    /\ key # 0 /\ client = Idle
    /\ client' = [Idle EXCEPT !.step = IF offset[master] > 0 THEN "flushswap" ELSE "flushwait",
                              !.target = ToSet(logged)]
    /\ UNCHANGED <<buffers, queue, pos, key, procs, shards, next, logged, left, faults>>

\* Mutant of FlushDrained: in_flight_ is not waited for.
FlushHasty ==
    /\ client.step = "flushwait"
    /\ client' = [client EXCEPT !.step = "flushshard"]
    /\ UNCHANGED <<buffers, queue, pos, key, procs, shards, next, logged, left, faults>>

FlushDrained ==
    /\ client.step = "flushwait" /\ queue = << >>
    /\ client' = [client EXCEPT !.step = "flushshard"]
    /\ UNCHANGED <<buffers, queue, pos, key, procs, shards, next, logged, left, faults>>

\* A failed fflush that loses nothing is as good as none.
FlushShard ==
    /\ client.step = "flushshard"
    /\ \/ /\ shards' = [shards EXCEPT ![Len(shards)] = Synced(@)]
          /\ client' = [client EXCEPT !.step = "flushed"]
          /\ UNCHANGED faults
       \/ /\ Fails
          /\ client' = [client EXCEPT !.step = "flushed", !.target = {}]
          /\ UNCHANGED shards
    /\ UNCHANGED <<buffers, queue, pos, key, procs, next, logged, left>>

FlushReturn ==
    /\ client.step = "flushed"
    /\ client' = Idle
    /\ UNCHANGED <<buffers, queue, pos, key, procs, shards, next, logged, left, faults>>

-----------------------------------------------------------------------------
(* The drain.                                                                *)

DrainStart ==
    /\ queue # << >> /\ pos = 0
    /\ pos' = 1
    /\ UNCHANGED <<buffers, queue, key, procs, shards, client, next, logged, left, faults>>

\* The frames that the walk may see at its place: the one whose first cell is
\* there; in the middle of an old one, whatever its bytes make of a length.
FramesAt(b, p) ==
    LET c == cells[b][p]
        sizes == IF c.part = 1 THEN {c.size} ELSE IF c.part > 1 THEN 1 .. Cap ELSE {}
    IN {[key |-> IF c.part = 1 THEN c.key ELSE 0, n |-> c.n, size |-> s] :
            s \in {s \in sizes : p + s - 1 <= Used(b)}}

\* OnPersist_ for one frame more.
Persist ==
    /\ pos > 0 /\ pos <= Used(Head(queue))
    /\ \E f \in FramesAt(Head(queue), pos) :
          /\ WriteFrame(f)
          /\ pos' = pos + f.size
    /\ UNCHANGED <<buffers, queue, key, procs, client, next, left>>

WalkEnds ==
    /\ pos > 0
    /\ pos <= Used(Head(queue)) =>
          cells[Head(queue)][pos].part # 1 \/ FramesAt(Head(queue), pos) = {}

\* Mutant of Scrubbed: nothing is cleared.
ScrubbedNot(b) == cells[b]

\* ResetForReuse zeroes what offset_ has reached.
Scrubbed(b) == [i \in 1 .. Cap |-> IF i <= Used(b) THEN Empty ELSE cells[b][i]]

GiveBack ==
    /\ WalkEnds
    /\ LET b == Head(queue)
       IN /\ cells' = [cells EXCEPT ![b] = Scrubbed(b)]
          /\ offset' = [offset EXCEPT ![b] = 0]
          /\ free' = Append(free, b)
    /\ queue' = Tail(queue)
    /\ pos' = 0
    /\ UNCHANGED <<pool, files, master, key, procs, shards, client, next, logged, left, faults>>

-----------------------------------------------------------------------------
Next ==
    \/ Start \/ Crash \/ Destroy \/ DestroyLeaving \/ Spill \/ StreamFails
    \/ Log \/ Write \/ Overrun \/ Swap \/ SwapFails \/ TimeOut
    \/ FlushCall \/ FlushDrained \/ FlushShard \/ FlushReturn
    \/ DrainStart \/ Persist \/ GiveBack

Spec == Init /\ [][Next]_vars

-----------------------------------------------------------------------------
TypeOK ==
    /\ \A b \in Buffers : offset[b] \in 0 .. Cap + 1
    /\ \A b \in Buffers : cells[b] \in [1 .. Cap -> [key : 0 .. MaxProcs, n : 0 .. MaxFrames,
                                                     part : 0 .. Cap, size : 0 .. Cap]]
    /\ {master} \cup ToSet(free) \cup ToSet(queue) \subseteq Buffers
    /\ pos \in 0 .. Cap + 1 /\ (pos > 0 => queue # << >>)
    /\ pool <= MaxBuffers /\ files \in pool .. MaxFiles
    /\ \A i \in DOMAIN shards : shards[i].disk \in -1 .. Len(shards[i].frames)
    /\ key \in {0, procs} /\ procs \in 0 .. MaxProcs
    /\ next \in 0 .. MaxFrames

\* At any moment what is on disk of the records under their own keys is a first
\* part of what was logged, each once and in order: a crash now would lose the
\* newest and leave no gap (mmap_store.h:23, log_decoder.cpp:210). A failed write has
\* taken its own records out of the log and changes nothing about the others.
PrefixOnDisk == IsPrefix(OnDisk, logged)

\* A crash damages at most the shard that was open: every other one of the same
\* process is complete (shard_writer.cpp:70-72), or harmed by a failed write of its own.
CrashCostsOneShard ==
    \A i \in 1 .. Len(shards) - 1 :
        shards[i].key = shards[i + 1].key =>
            \/ shards[i].disk = Len(shards[i].frames) /\ ~shards[i].torn
            \/ shards[i].harm # "none"

\* As long as no process has left records in its buffers, by a crash or for want of
\* another one, what the auditor finds in a shard opens under the key of its header:
\* buffers are given back, and left behind, clean.
FramesOpenUnlessLeft ==
    ~left => \A i \in DOMAIN shards : \A f \in ToSet(shards[i].frames) : f.key = shards[i].key

\* A frame that was encrypted under another process's key is in no shard
\* (effective_sink.h:26). Frames made of old bytes that never were one have no key.
NoForeignFrames ==
    \A i \in DOMAIN shards : \A f \in ToSet(shards[i].frames) : f.key \in {0, shards[i].key}

\* The sink keeps the promise of CrashSafeLog, whatever has crashed or failed before.
Contract == INSTANCE CrashSafeLog WITH
    Entries  <- 1 .. MaxFrames,
    log      <- logged,
    durable  <- Len(OnDisk),
    target   <- client.target

KeepsContract == Contract!Spec

=============================================================================
