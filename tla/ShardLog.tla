------------------------------ MODULE ShardLog ------------------------------
(* The log directory of one EffectiveSink: the ShardWriter that appends      *)
(* frames to the active shard and rotates it (src/sinks/shard_writer.cpp),   *)
(* the EvictionRunner that removes the oldest shards on a thread of its own  *)
(* (src/sinks/eviction_runner.cpp), the part of EffectiveSink that creates   *)
(* and destroys them, and the auditor's reader (src/audit/shard_reader.cpp). *)
(*                                                                           *)
(* WriteFrame holds mu_ from its first step to its last; only the directory  *)
(* is seen by the evictor in between. Frames come one at a time, from the    *)
(* strand. A frame is its number and length, a shard the bytes of its header *)
(* and the frames that stdio has taken: what is still in the stream's buffer *)
(* matters only to the size the evictor sees.                                *)
EXTENDS Integers, Sequences, FiniteSets, FiniteSetsExt, SequencesExt

CONSTANTS
    Hdr,        \* kHeaderBytes
    Limit,      \* shard_limit_
    Cap,        \* cap_bytes_
    Lengths,    \* the lengths of frames
    MaxFrames,  \* bound: the frames handed to WriteFrame in a calm history,
    MaxFramesF, \* bound: and in one with failures
    MaxTime,    \* bound: the clock, in milliseconds
    MaxShards,  \* bound: no sink is made once so many shards have been opened
    CanFail,    \* may the calls on files fail when it is not calm?
    StepBack,   \* may the local time step back then (end of summer time, NTP)?
    NoName

ASSUME SizesAssumption ==
    /\ Hdr \in Nat \ {0} /\ Limit \in Nat /\ Limit > Hdr /\ Cap \in Nat
    /\ Lengths \subseteq Nat \ {0} /\ MaxFrames \in Nat /\ MaxFramesF \in Nat
    /\ MaxTime \in Nat /\ MaxShards \in Nat
ASSUME FlagsAssumption == CanFail \in BOOLEAN /\ StepBack \in BOOLEAN
ASSUME NoNameAssumption == NoName \notin Nat \X Nat

VARIABLES
    calm,     \* is this a history in which nothing fails? Never changes.
    disk,     \* the shards in the directory, by name
    clock,    \* the system clock, as local time
    seq,      \* seq_
    file,     \* file_: the shard the stream is open on
    size,     \* current_size_
    path,     \* current_path_
    synced,   \* the bytes of the open shard that have left the stream's buffer
    wpc,      \* the step of WriteFrame or of the constructor; "idle": mu_ is free
    frame,    \* the frame WriteFrame was given, << >> in the constructor
    owner,    \* EffectiveSink: being made, up, in its destructor, or gone
    stop,     \* stop_
    epc,      \* the evictor's step in RunLoop_ and SweepOnce_
    unread,   \* the shards that were there when the directory was opened and
              \* that the loop over it has not come to
    listed,   \* entries: the shards the sweep has listed and not come to
    total,    \* total: the sum of their sizes, less what the sweep removed
    active,   \* active_canon: the shard the sweep leaves alone
    resolves, \* ghost: has weakly_canonical never failed?
    sent,     \* ghost: how many frames WriteFrame has been given
    born      \* ghost: the names of all shards, in the order they were opened

world   == <<clock, calm>>
writer  == <<seq, file, size, path, synced, wpc, frame, sent, born>>
evictor == <<epc, unread, listed, total, active, resolves>>
vars == <<disk, world, writer, owner, stop, evictor>>

-----------------------------------------------------------------------------
\* A name is the time to the millisecond and the number, in fixed width.
Names == Nat \X Nat

Before(m, n) == m[1] < n[1] \/ (m[1] = n[1] /\ m[2] < n[2])

MakeShardName == <<clock, seq>>

MayFail == CanFail /\ ~calm

SizeOf(shard) == shard.hdr + MapThenSumSet(LAMBDA i : shard.frames[i].len,
                                           DOMAIN shard.frames)

Init ==
    /\ calm \in BOOLEAN
    /\ disk = << >>
    /\ clock = 0 /\ seq = 0
    /\ file = NoName /\ path = NoName
    /\ size = 0 /\ synced = 0
    /\ wpc = "idle" /\ frame = << >>
    /\ owner = "gone" /\ stop = FALSE
    /\ epc = "off" /\ unread = {} /\ listed = {} /\ total = 0 /\ active = NoName
    /\ resolves = TRUE
    /\ sent = 0 /\ born = << >>

\* Time goes on, or back, to a millisecond in which no shard on disk was opened:
\* that two sinks hit on one millisecond and number is left out.
Tick ==
    /\ \E t \in 0..MaxTime :
         /\ t > clock \/ (~calm /\ StepBack /\ t < clock)
         /\ \A n \in DOMAIN disk : n[1] # t
         /\ clock' = t
    /\ UNCHANGED <<calm, disk, writer, owner, stop, evictor>>

-----------------------------------------------------------------------------
(* ShardWriter.                                                              *)

\* Mutant of Idle: the frame is kept for a retry nobody makes.
IdleWithFrame == wpc' = "idle" /\ UNCHANGED frame

Idle == wpc' = "idle" /\ frame' = << >>

\* An exception: from WriteFrame OnPersist_ swallows it and the frame is gone,
\* from the constructor it leaves EffectiveSink unmade.
Throw ==
    /\ Idle
    /\ owner' = IF owner = "made" THEN "gone" ELSE owner

\* The constructor; some time has gone by since the last shard was opened.
Create ==
    /\ owner = "gone"
    /\ Len(born) < MaxShards
    /\ \A n \in DOMAIN disk : n[1] # clock
    /\ owner' = "made"
    /\ seq' = 0 /\ size' = 0 /\ synced' = 0
    /\ file' = NoName /\ path' = NoName
    /\ wpc' = "open"
    /\ UNCHANGED <<disk, world, frame, sent, born, stop, evictor>>

\* Mutant of Rotates: the frame to come is not counted.
RotatesTooLate(len) == size > Hdr /\ size > Limit

Rotates(len) == size > Hdr /\ size + len > Limit

WriteFrame ==
    /\ owner \in {"up", "stopping", "stopped"}
    /\ wpc = "idle"
    /\ sent < IF calm THEN MaxFrames ELSE MaxFramesF
    /\ sent' = sent + 1
    /\ \E len \in Lengths :
         /\ frame' = <<[id |-> sent', len |-> len]>>
         /\ wpc' = IF file = NoName \/ Rotates(len) THEN "open" ELSE "write"
    /\ UNCHANGED <<disk, world, seq, file, size, path, synced, born, owner, stop, evictor>>

\* CloseCurrent_ and OpenNewShard_ up to fopen, which creates or truncates.
Open ==
    /\ wpc = "open"
    /\ seq' = seq + 1
    /\ path' = MakeShardName
    /\ \/ /\ file' = path'
          /\ disk' = [n \in DOMAIN disk \cup {path'} |->
                        IF n = path' THEN [hdr |-> 0, frames |-> << >>] ELSE disk[n]]
          /\ size' = 0 /\ synced' = 0
          /\ wpc' = "header"
          /\ born' = Append(born, path')
          /\ UNCHANGED <<frame, owner>>
       \/ /\ MayFail
          /\ file' = NoName
          /\ Throw
          /\ UNCHANGED <<disk, size, synced, born>>
    /\ UNCHANGED <<world, stop, sent, evictor>>

\* Nobody sees what goes into a shard that is removed while it is open.
FileBecomes(shard) ==
    disk' = [n \in DOMAIN disk |-> IF n = file THEN shard ELSE disk[n]]

\* WriteHeader_. The constructor returns after it, and Start makes the thread
\* of the new EvictionRunner. A short write leaves the stream open.
WriteHeader ==
    /\ wpc = "header"
    /\ \/ /\ FileBecomes([disk[file] EXCEPT !.hdr = Hdr])
          /\ size' = Hdr
          /\ IF owner = "made"
             THEN Idle /\ owner' = "up" /\ stop' = FALSE /\ epc' = "wait"
             ELSE wpc' = "write" /\ UNCHANGED <<frame, owner, stop, epc>>
       \/ /\ MayFail
          /\ \E k \in 0 .. Hdr-1 : FileBecomes([disk[file] EXCEPT !.hdr = k])
          /\ Throw
          /\ UNCHANGED <<size, stop, epc>>
    /\ UNCHANGED <<world, seq, file, path, synced, unread, listed, total, active, resolves, sent, born>>

\* The fwrite of the frame. A short one leaves what it wrote and no trace in
\* current_size_.
PutFrame ==
    /\ wpc = "write"
    /\ LET f == frame[1]
           Put(len) == FileBecomes([disk[file] EXCEPT !.frames =
                          Append(@, [id |-> f.id, len |-> len, whole |-> len = f.len])])
       IN \/ Put(f.len) /\ size' = size + f.len
          \/ /\ MayFail
             /\ \E len \in 0 .. f.len-1 : Put(len)
             /\ UNCHANGED size
    /\ Idle
    /\ UNCHANGED <<world, seq, file, path, synced, sent, born, owner, stop, evictor>>

Flush ==
    /\ owner \in {"up", "stopping"}
    /\ wpc = "idle"
    /\ file # NoName
    /\ synced' = IF file \in DOMAIN disk THEN SizeOf(disk[file]) ELSE synced
    /\ UNCHANGED <<disk, world, seq, file, size, path, wpc, frame, sent, born,
                   owner, stop, evictor>>

-----------------------------------------------------------------------------
(* EvictionRunner.                                                           *)

Goes(where) == epc' = where /\ UNCHANGED <<unread, listed, total, active, resolves>>

SweepReturns ==
    /\ epc' = "wait" /\ unread' = {} /\ listed' = {} /\ total' = 0 /\ active' = NoName
    /\ UNCHANGED resolves

\* Mutant of Wake: stop_ is not looked at.
WakeDeaf ==
    /\ epc = "wait"
    /\ Goes("list")
    /\ UNCHANGED <<disk, world, writer, owner, stop>>

\* wait_for ends with a timeout or with Stop's notification.
Wake ==
    /\ epc = "wait"
    /\ Goes(IF stop THEN "done" ELSE "list")
    /\ UNCHANGED <<disk, world, writer, owner, stop>>

\* exists and the iterator's constructor. From here on a failure ends the sweep.
OpenDir ==
    /\ epc = "list"
    /\ \/ /\ epc' = "read" /\ unread' = DOMAIN disk /\ listed' = {} /\ total' = 0
          /\ UNCHANGED <<active, resolves>>
       \/ MayFail /\ SweepReturns
    /\ UNCHANGED <<disk, world, writer, owner, stop>>

\* An entry made since the directory was opened may come or not, and in any order;
\* in a calm history none comes before one that is older and has been left out.
Comes(n) ==
    \/ n \in unread
    \/ /\ n \in DOMAIN disk
       /\ \A e \in listed : e.name # n
       /\ calm => \A m \in DOMAIN disk :
                     Before(m, n) => m \in unread \/ \E e \in listed : e.name = m

\* file_size: what the open shard's stream has not written yet is not part of it.
FileSizes(n) == IF n = file THEN synced .. SizeOf(disk[n]) ELSE {SizeOf(disk[n])}

List(n, s) ==
    /\ unread' = unread \ {n}
    /\ listed' = listed \cup {[name |-> n, size |-> s]}

\* Mutant of ReadEntry: the active shard is not counted.
ReadEntryOthers ==
    /\ epc = "read"
    /\ \E n \in {m \in DOMAIN disk : Comes(m)} : \E s \in FileSizes(n) :
         List(n, s) /\ total' = IF n = path THEN total ELSE total + s
    /\ UNCHANGED <<disk, world, writer, owner, stop, epc, active, resolves>>

\* One turn of the loop over the directory, at its own moment.
ReadEntry ==
    /\ epc = "read"
    /\ \E n \in {m \in DOMAIN disk : Comes(m)} : \E s \in FileSizes(n) :
         List(n, s) /\ total' = total + s
    /\ UNCHANGED <<disk, world, writer, owner, stop, epc, active, resolves>>

\* After the last entry.
Judge ==
    IF total <= Cap
    THEN SweepReturns
    ELSE epc' = "active" /\ unread' = {} /\ UNCHANGED <<listed, total, active, resolves>>

DirEnds ==
    /\ epc = "read"
    /\ unread = {}
    /\ Judge
    /\ UNCHANGED <<disk, world, writer, owner, stop>>

\* An entry of which something cannot be read is left out and the sweep returns at
\* the next one, as ec is still set; or there is no next one.
SkipEntry ==
    /\ epc = "read"
    /\ MayFail
    /\ SweepReturns \/ \E n \in unread : unread = {n} /\ Judge
    /\ UNCHANGED <<disk, world, writer, owner, stop>>

\* Mutant of ReadActive: no callback is set.
ReadActiveUnset ==
    /\ epc = "active"
    /\ active' = NoName
    /\ epc' = "remove"
    /\ UNCHANGED <<disk, world, writer, owner, stop, unread, listed, total, resolves>>

\* get_active_shard_(): CurrentShardPath takes mu_. A path that weakly_canonical
\* fails for is as good as none.
ReadActive ==
    /\ epc = "active"
    /\ wpc = "idle"
    /\ \/ active' = path /\ UNCHANGED resolves
       \/ MayFail /\ active' = NoName /\ resolves' = FALSE
    /\ epc' = "remove"
    /\ UNCHANGED <<disk, world, writer, owner, stop, unread, listed, total>>

RemoveShard(e) ==
    /\ disk' = [n \in DOMAIN disk \ {e.name} |-> disk[n]]
    /\ total' = total - e.size

\* Mutant of Evict: the entries are not sorted.
EvictUnsorted ==
    /\ epc = "remove"
    /\ total > Cap
    /\ \E e \in listed :
         /\ listed' = {d \in listed : d.name # e.name}
         /\ IF e.name = active THEN UNCHANGED <<disk, total>> ELSE RemoveShard(e)
    /\ UNCHANGED <<world, writer, owner, stop, epc, unread, active, resolves>>

\* One turn of the loop over the sorted entries. All paths are in the one
\* directory, so they are the same file exactly if they have the same name; when
\* the entry's own cannot be made canonical, it is taken for another file.
Evict ==
    /\ epc = "remove"
    /\ total > Cap
    /\ \E e \in listed :
         /\ \A d \in listed : d.name = e.name \/ Before(e.name, d.name)
         /\ listed' = {d \in listed : d.name # e.name}
         /\ \/ e.name # active /\ RemoveShard(e) /\ UNCHANGED resolves
            \/ e.name = active /\ MayFail /\ RemoveShard(e) /\ resolves' = FALSE
            \/ (e.name = active \/ MayFail) /\ UNCHANGED <<disk, total, resolves>>
    /\ UNCHANGED <<world, writer, owner, stop, epc, unread, active>>

SweepEnds ==
    /\ epc = "remove"
    /\ total <= Cap \/ listed = {}
    /\ SweepReturns
    /\ UNCHANGED <<disk, world, writer, owner, stop>>

-----------------------------------------------------------------------------
(* ~EffectiveSink: its body stops the evictor; then mmap_store_ is destroyed, *)
(* up to which frames still come, then evictor_ and shard_writer_.           *)

StopCall ==
    /\ owner = "up"
    /\ owner' = "stopping"
    /\ stop' = TRUE
    /\ UNCHANGED <<disk, world, writer, evictor>>

StopJoins ==
    /\ owner = "stopping"
    /\ epc = "done"
    /\ owner' = "stopped"
    /\ Goes("off")
    /\ UNCHANGED <<disk, world, writer, stop>>

Close ==
    /\ owner = "stopped"
    /\ wpc = "idle"
    /\ owner' = "gone"
    /\ file' = NoName
    /\ UNCHANGED <<disk, world, seq, size, path, synced, wpc, frame, sent, born,
                   stop, evictor>>

-----------------------------------------------------------------------------
WriterStep  == Open \/ WriteHeader \/ PutFrame
EvictorStep ==
    \/ Wake \/ OpenDir \/ ReadEntry \/ SkipEntry \/ DirEnds
    \/ ReadActive \/ Evict \/ SweepEnds

Next ==
    \/ Tick \/ Create \/ WriteFrame \/ WriterStep \/ Flush
    \/ EvictorStep
    \/ StopCall \/ StopJoins \/ Close

Spec == Init /\ [][Next]_vars

\* The two threads run; the destructor, once it has begun, goes on. mu_ is
\* fair to the evictor: with finitely many frames it is free for ever at the end.
FairSpec == Spec /\ WF_vars(WriterStep) /\ WF_vars(EvictorStep)
                 /\ WF_vars(StopJoins) /\ WF_vars(Close)

-----------------------------------------------------------------------------
(* The auditor: DecodeShardFile and DecodeShardDir. Any shard that does not  *)
(* start with a header or has a frame cut short makes the whole call throw.  *)

Readable(shard) ==
    /\ shard.hdr = Hdr
    /\ \A i \in DOMAIN shard.frames : shard.frames[i].whole

DecodeShardFile(n) == [i \in DOMAIN disk[n].frames |-> disk[n].frames[i].id]

\* std::sort of the names, no two of which are alike.
InNameOrder(names) ==
    CHOOSE s \in [1 .. Cardinality(names) -> names] :
        \A i, j \in DOMAIN s : i < j => Before(s[i], s[j])

DecodeShardDir ==
    LET shards == InNameOrder(DOMAIN disk)
    IN FlattenSeq([i \in DOMAIN shards |-> DecodeShardFile(shards[i])])

-----------------------------------------------------------------------------
Entry == [id : Nat, len : Nat, whole : BOOLEAN]

TypeOK ==
    /\ calm \in BOOLEAN /\ resolves \in BOOLEAN
    /\ DOMAIN disk \subseteq Names
    /\ \A n \in DOMAIN disk : disk[n] \in [hdr : 0..Hdr, frames : Seq(Entry)]
    /\ clock \in Nat /\ seq \in Nat
    /\ file \in Names \cup {NoName} /\ path \in Names \cup {NoName}
    /\ size \in Nat /\ synced \in Nat
    /\ wpc \in {"idle", "open", "header", "write"}
    /\ frame \in Seq([id : Nat, len : Nat]) /\ Len(frame) <= 1
    /\ wpc = "idle" => frame = << >>
    /\ owner \in {"gone", "made", "up", "stopping", "stopped"}
    /\ stop \in BOOLEAN
    /\ epc \in {"off", "wait", "list", "read", "active", "remove", "done"}
    /\ unread \subseteq DOMAIN disk
    /\ listed \subseteq [name : Names, size : Nat]
    /\ total \in Int
    /\ active \in Names \cup {NoName}
    /\ sent \in Nat
    /\ born \in Seq(Names)

\* The evictor does not remove the shard the writer has open, although it reads
\* which one that is after it has listed the directory and the writer may have
\* rotated before, in between and since.
ActiveKeptWhilePathsResolve ==
    resolves /\ file # NoName => file \in DOMAIN disk

\* "The currently active shard is always skipped" (eviction_runner.h:17-18), also
\* when its path or an entry's cannot be made canonical.
ActiveKept == file # NoName => file \in DOMAIN disk

\* In a calm history (no failures, a clock that goes on, and no directory that shows
\* a new entry and leaves out an older one), the auditor
\* reads an unbroken run of the frames up to the last one written: rotation, eviction
\* and restarts of the sink lose nothing but the oldest frames and change no order
\* (effective_sink_smoke.cpp:261-270 checks a run with one shard).
AuditReadsLatest ==
    LET read == DecodeShardDir
        last == sent - Len(frame)
    IN calm =>
       /\ \A n \in DOMAIN disk : (wpc = "header" /\ n = file) \/ Readable(disk[n])
       /\ read = [i \in 1..Len(read) |-> last - Len(read) + i]

\* In a calm history no shard outgrows shard_limit_, save for one frame that is
\* too large for any shard (README.md:327, effective_sink_smoke.cpp:299).
WithinLimit ==
    calm => \A n \in DOMAIN disk : SizeOf(disk[n]) <= Limit \/ Len(disk[n].frames) = 1

\* The order of the names is the order in which the shards were opened
\* (shard_writer.h:13, eviction_runner.h:16, README.md:292).
ChronologicalNames == \A i, j \in DOMAIN born : i < j => Before(born[i], born[j])

\* Every shard with a frame in it has a whole header before it
\* (shard_writer.h:14-15).
HeaderFirst ==
    \A n \in DOMAIN disk : disk[n].frames # << >> => disk[n].hdr = Hdr

\* A sweep that nothing fails for ends under the cap, or with the active shard
\* alone: once the last frame has been flushed, the directory gets there and
\* stays, unless the sink is destroyed first.
EvictionCatchesUp ==
    (/\ calm
     /\ sent = MaxFrames /\ wpc = "idle" /\ file # NoName
     /\ synced = SizeOf(disk[file]))
      ~> \/ owner # "up"
         \/ MapThenSumSet(LAMBDA n : SizeOf(disk[n]), DOMAIN disk) <= Cap
         \/ DOMAIN disk = {file}

\* The destructor gets through: Stop is heard by a sleeping evictor and by one in
\* the middle of a sweep, which may itself be waiting for the writer's lock.
StopReturns == owner = "stopping" ~> owner = "gone"

=============================================================================
