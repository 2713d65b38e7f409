----------------------------- MODULE AuditTrail -----------------------------
(* From the key file to the auditor: the server's public key on disk, which  *)
(* an operator may replace (src/examples/encrypted_logging_demo.cpp);        *)
(* EffectiveSink::Create, which loads it, agrees on a key and puts the sink  *)
(* together (src/sinks/effective_sink.cpp, src/crypt/); the shards of one    *)
(* sink after another in one directory; and log_decoder, which may run while *)
(* shards are written and deleted (src/audit/, src/examples/log_decoder.cpp).*)
(*                                                                           *)
(* Cryptography is symbolic: an AES key is the pair it was derived from, and *)
(* a frame opens under the key it was sealed with. The parts of a sink that  *)
(* other modules are about are reduced to what reaches the files.            *)
EXTENDS Integers, Sequences, FiniteSets, SequencesExt

CONSTANTS
    Keys,       \* the server's key pairs, one after the other
    NoKey,      \* stands for an absent file and for a key file of a wrong size
    Records,    \* the messages
    Text,       \* those of them that are valid UTF-8
    MaxSinks,   \* how many sinks are created
    MaxFrames,  \* frames per shard before it rotates
    Faults      \* may reads and writes, agreeing and creating the store fail?

ASSUME TextAssumption   == Text \subseteq Records /\ NoKey \notin Keys
ASSUME BoundsAssumption == MaxSinks \in Nat /\ MaxFrames \in Nat \ {0}
ASSUME FaultsAssumption == Faults \in BOOLEAN

VARIABLES
    file,       \* the public key file: "absent" or the halves that are in it
    published,  \* ghost: the keys that the file has held whole
    make,       \* Create: its step, and what it holds
    sink,       \* the sink that is in use
    evictor,    \* is an eviction thread running?
    ephs,       \* the ephemeral key pairs made so far
    shards,     \* every shard made, in the order of the names
    left,       \* frames of sinks that are gone, in the mapped buffer files
    audit       \* log_decoder: its step and locals

vars == <<file, published, make, sink, evictor, ephs, shards, left, audit>>

NoMake  == [step |-> "none", pub |-> << >>, eph |-> 0]
NoSink  == [pub |-> << >>, eph |-> 0]
NoAudit == [step |-> "none", priv |-> NoKey, todo |-> << >>, at |-> 0, got |-> << >>,
            due |-> << >>, sound |-> FALSE, fault |-> FALSE, code |-> 0, printed |-> << >>]

Init ==
    /\ file = "absent" /\ published = {}
    /\ make = NoMake /\ sink = NoSink /\ evictor = FALSE
    /\ ephs = 0
    /\ shards = << >> /\ left = {}
    /\ audit = NoAudit

Whole(k) == <<k, k>>

\* The secret that X25519 agrees on and HKDF of it, on either side: the same for
\* both if and only if the server's two halves and the client's two belong together.
HkdfSha256(server, eph) == [server |-> server, eph |-> eph]

\* The auditor derives it again, from the ephemeral half in the shard's header.
DeriveAesKey(priv, shard) == HkdfSha256(priv, shard.eph)

\* Decrypt: the tag of a frame fits the key it was sealed with and no other.
Decrypts(priv, shard, frame) == frame.key = DeriveAesKey(priv, shard)

-----------------------------------------------------------------------------
(* The operator: a new key pair, its public half written by WriteFileBytes.  *)

Truncate ==
    /\ Keys \ published # {}
    /\ file = "absent" \/ Len(file) = 2
    /\ file' = << >>
    /\ UNCHANGED <<published, make, sink, evictor, ephs, shards, left, audit>>

WriteFileBytes ==
    /\ file # "absent" /\ Len(file) < 2
    /\ \E k \in IF file = << >> THEN Keys \ published ELSE {file[1]} :
          /\ file' = Append(file, k)
          /\ published' = IF Len(file') = 2 THEN published \cup {k} ELSE published
    /\ UNCHANGED <<make, sink, evictor, ephs, shards, left, audit>>

-----------------------------------------------------------------------------
(* LoadServerPublicKey, one system call after the other.                     *)

CreateCall ==
    /\ make.step = "none" /\ sink = NoSink /\ ephs < MaxSinks
    /\ make' = [NoMake EXCEPT !.step = "exists"]
    /\ UNCHANGED <<file, published, sink, evictor, ephs, shards, left, audit>>

MakeGoes(from, ok, to) ==
    /\ make.step = from
    /\ make' = IF ok THEN [make EXCEPT !.step = to] ELSE NoMake
    /\ UNCHANGED <<file, published, sink, evictor, ephs, shards, left, audit>>

CheckExists == MakeGoes("exists", file # "absent", "size")
CheckSize   == MakeGoes("size", file # "absent" /\ Len(file) = 2, "open")
OpenKeyFile == \E ok \in IF Faults THEN BOOLEAN ELSE {TRUE} : MakeGoes("open", ok, "read")

\* Mutant of ReadKey: gcount() is not looked at.
ReadKeyUnchecked ==
    /\ make.step = "read"
    /\ make' = [make EXCEPT !.step = "agree",
                    !.pub = [i \in 1 .. 2 |-> IF i <= Len(file) THEN file[i] ELSE NoKey]]
    /\ UNCHANGED <<file, published, sink, evictor, ephs, shards, left, audit>>

\* A short read is refused: the file may have changed since its size was taken.
ReadKey ==
    /\ make.step = "read"
    /\ make' = IF Len(file) = 2 THEN [make EXCEPT !.step = "agree", !.pub = file] ELSE NoMake
    /\ UNCHANGED <<file, published, sink, evictor, ephs, shards, left, audit>>

-----------------------------------------------------------------------------
(* The rest of Create.                                                       *)

\* DeriveSharedSecret makes a new ephemeral pair for every sink. HkdfSha256, the
\* cipher, the compressor and the formatter follow and touch nothing else.
Agree ==
    /\ make.step = "agree"
    /\ ephs' = ephs + 1
    /\ make' = [make EXCEPT !.step = "writer", !.eph = ephs']
    /\ UNCHANGED <<file, published, sink, evictor, shards, left, audit>>

AgreeFails == Faults /\ MakeGoes("agree", FALSE, "writer")

\* A shard, its header in stdio's buffer: nothing of it is on disk yet.
NewShard(server, eph) ==
    [server |-> server, eph |-> eph, frames |-> << >>, seen |-> -1, torn |-> FALSE, there |-> TRUE]

\* The constructor: ShardWriter opens a shard at once, then the evictor starts.
StartParts ==
    /\ make.step = "writer"
    /\ shards' = Append(shards, NewShard(make.pub[1], make.eph))
    /\ evictor' = TRUE
    /\ make' = [make EXCEPT !.step = "store"]
    /\ UNCHANGED <<file, published, sink, ephs, left, audit>>

\* ShardWriter cannot open its file, or cannot write the header.
WriterFails ==
    /\ Faults /\ make.step = "writer"
    /\ shards' \in {shards, Append(shards, NewShard(make.pub[1], make.eph))}
    /\ make' = NoMake
    /\ UNCHANGED <<file, published, sink, evictor, ephs, left, audit>>

\* What the writer does when it lets go of a shard: everything is on disk, or,
\* since nobody looks at what fflush returns, no more than there was.
Closed(shard) ==
    {[shard EXCEPT !.seen = Len(shard.frames), !.torn = FALSE]}
        \cup (IF Faults THEN {shard} ELSE {})

CloseLast == \E closed \in Closed(shards[Len(shards)]) : shards' = [shards EXCEPT ![Len(shards)] = closed]

\* MmapStore throws: the members made so far are destroyed.
StoreFails ==
    /\ Faults /\ make.step = "store"
    /\ make' = NoMake
    /\ evictor' = FALSE
    /\ CloseLast
    /\ UNCHANGED <<file, published, sink, ephs, left, audit>>

CreateReturns ==
    /\ make.step = "store"
    /\ sink' = [pub |-> make.pub, eph |-> make.eph]
    /\ make' = NoMake
    /\ UNCHANGED <<file, published, evictor, ephs, shards, left, audit>>

-----------------------------------------------------------------------------
(* The sink in use.                                                          *)

Logged == UNION {{f.rec : f \in ToSet(shards[i].frames)} : i \in DOMAIN shards}

Fresh == Records \ (Logged \cup {f.rec : f \in left})

OwnKey == HkdfSha256(sink.pub[1], sink.eph)

\* What opens under no key: a frame that a failed write has cut short, or bytes
\* from the middle of an old one.
Garbled(frame) == [frame EXCEPT !.key = HkdfSha256(NoKey, 0)]

\* WriteFrame: the shard rotates when it is full, perhaps by way of one that did not
\* get its header.
AppendFrame(frame) ==
    LET last == shards[Len(shards)]
        new  == NewShard(sink.pub[1], sink.eph)
    IN \/ /\ Len(last.frames) < MaxFrames
          /\ shards' = [shards EXCEPT ![Len(shards)].frames = Append(@, frame)]
       \/ /\ Len(last.frames) = MaxFrames
          /\ \E closed \in Closed(last), failed \in {<< >>} \cup (IF Faults THEN {<<new>>} ELSE {}) :
                shards' = [shards EXCEPT ![Len(shards)] = closed] \o failed
                          \o <<[new EXCEPT !.frames = <<frame>>]>>

\* A record, encrypted, drained and appended. One that a failed write loses
\* altogether is none of these.
LogRecord ==
    /\ sink # NoSink
    /\ \E r \in Fresh :
          LET frame == [rec |-> r, key |-> OwnKey]
          IN \E f \in {frame} \cup (IF Faults THEN {Garbled(frame)} ELSE {}) : AppendFrame(f)
    /\ UNCHANGED <<file, published, make, sink, evictor, ephs, left, audit>>

\* An overrun lifts the mark of a buffer over what a sink that is gone has left in
\* its file: the drain appends the old frame, under its old key.
DrainLeft ==
    /\ sink # NoSink
    /\ \E f \in left :
          /\ \E g \in {f, Garbled(f)} : AppendFrame(g)
          /\ left' = left \ {f}
    /\ UNCHANGED <<file, published, make, sink, evictor, ephs, audit>>

\* stdio writes some of its buffer, at any byte.
Spill ==
    /\ evictor
    /\ LET last == shards[Len(shards)]
       IN \E n \in last.seen .. Len(last.frames), torn \in BOOLEAN :
             /\ torn => n < Len(last.frames)
             /\ last.torn /\ n = last.seen => torn
             /\ shards' = [shards EXCEPT ![Len(shards)].seen = n, ![Len(shards)].torn = torn]
    /\ UNCHANGED <<file, published, make, sink, evictor, ephs, left, audit>>

\* One frame at most stays in the buffer files when a sink goes: of a record that
\* was not drained, or that was and is not yet zeroed. (The bound: one per sink.)
LeavesFrame ==
    LET own == {f \in UNION {ToSet(shards[i].frames) : i \in DOMAIN shards} : f.key = OwnKey}
    IN left' \in {left \cup {f} : f \in own \cup {[rec |-> r, key |-> OwnKey] : r \in Fresh}}

\* ~EffectiveSink. Its Flush leaves frames when no buffer can be made for the swap.
Destroy ==
    /\ sink # NoSink
    /\ sink' = NoSink /\ evictor' = FALSE
    /\ CloseLast
    /\ UNCHANGED left \/ (Faults /\ LeavesFrame)
    /\ UNCHANGED <<file, published, make, ephs, audit>>

\* The process is killed, and the last shard stays as it is.
Kill ==
    /\ evictor
    /\ make' = NoMake /\ sink' = NoSink /\ evictor' = FALSE
    /\ UNCHANGED left \/ (sink # NoSink /\ LeavesFrame)
    /\ UNCHANGED <<file, published, ephs, shards, audit>>

\* The evictor deletes the oldest shard, never the one that is being written.
Evict ==
    /\ evictor
    /\ LET old == {i \in 1 .. Len(shards) - 1 : shards[i].there}
       IN \E i \in old : /\ \A j \in old : i <= j
                         /\ shards' = [shards EXCEPT ![i].there = FALSE]
                         /\ audit' = [audit EXCEPT !.sound = @ /\ i \notin ToSet(audit.todo)]
    /\ UNCHANGED <<file, published, make, sink, evictor, ephs, left>>

-----------------------------------------------------------------------------
(* log_decoder.                                                              *)

\* The key file is opened and read whole; any other size than a key's is refused.
ReadPrivKey(k) == k \in Keys

\* main() asks for the key before it looks at any shard.
DecoderCall ==
    /\ audit.step \in {"none", "done"}
    /\ \E k \in Keys \cup {NoKey} :
          audit' = IF ReadPrivKey(k) THEN [NoAudit EXCEPT !.priv = k, !.step = "list"]
                   ELSE [NoAudit EXCEPT !.priv = k, !.step = "done", !.code = 1]
    /\ UNCHANGED <<file, published, make, sink, evictor, ephs, shards, left>>

\* Is shard i there, complete, no longer written to, and made for this auditor?
Intact(i, priv) ==
    /\ shards[i].there /\ shards[i].seen = Len(shards[i].frames) /\ ~shards[i].torn
    /\ i = Len(shards) => ~evictor
    /\ shards[i].server = priv

\* Some shards by their names, which are in the order they were made in.
Sorted(some) ==
    CHOOSE list \in [1 .. Cardinality(some) -> some] :
        \A i, j \in DOMAIN list : i < j => list[i] < list[j]

\* A list with any of its entries left out.
Parts(list) ==
    {[i \in 1 .. Cardinality(some) |-> list[Sorted(some)[i]]] : some \in SUBSET DOMAIN list}

There == {i \in DOMAIN shards : shards[i].there}

\* Mutant of ListOf: directory_iterator's order, whatever it is; here the opposite.
ListBackwards == Reverse(Sorted(There))

\* The log-*.bin of the directory, sorted.
ListOf == Sorted(There)

\* A directory, or one file of it. "sound" notes that all of it can be read.
ListShards ==
    /\ audit.step = "list"
    /\ \E list \in {ListOf} \cup {<<i>> : i \in DOMAIN shards} :
          audit' = [audit EXCEPT !.step = "open", !.todo = list,
                       !.due = [i \in DOMAIN list |->
                                   LET shard == Sorted(ToSet(list))[i]
                                   IN [shard |-> shard, seen |-> shards[shard].seen]],
                       !.sound = \A i \in ToSet(list) : Intact(i, audit.priv)]
    /\ UNCHANGED <<file, published, make, sink, evictor, ephs, shards, left>>

\* An exception: main prints nothing on stdout and returns 1.
DecoderThrows == audit' = [audit EXCEPT !.step = "done", !.code = 1]

\* The system fails to open or to read a shard.
ReadFails == Faults /\ audit' = [audit EXCEPT !.step = "done", !.code = 1, !.fault = TRUE]

\* What looks like the end of the file between two frames may be a failed read:
\* only gcount() is looked at.
ShardEnds(failed) ==
    audit' = [audit EXCEPT !.step = "open", !.todo = Tail(@), !.fault = @ \/ failed]

\* The next file, its header, and the key from the auditor's half and the header's.
OpenShard ==
    /\ audit.step = "open" /\ audit.todo # << >>
    /\ LET shard == shards[Head(audit.todo)]
       IN IF shard.there /\ shard.seen >= 0
          THEN audit' = [audit EXCEPT !.step = "frame", !.at = 1] \/ ReadFails
          ELSE DecoderThrows
    /\ UNCHANGED <<file, published, make, sink, evictor, ephs, shards, left>>

\* Mutant of ReadFrame: a frame that does not open is passed over.
ReadFrameSkipping ==
    /\ audit.step = "frame"
    /\ LET shard == shards[Head(audit.todo)]
           frame == shard.frames[audit.at]
       IN IF audit.at <= shard.seen
          THEN audit' = [audit EXCEPT !.at = @ + 1,
                   !.got = IF Decrypts(audit.priv, shard, frame) THEN Append(@, frame.rec) ELSE @]
          ELSE IF shard.torn THEN DecoderThrows
          ELSE ShardEnds(FALSE)
    /\ UNCHANGED <<file, published, make, sink, evictor, ephs, shards, left>>

\* The next frame: none left, cut off, or read, decrypted, decompressed and
\* parsed; parsing refuses a string that is not UTF-8, which formatting did not.
ReadFrame ==
    /\ audit.step = "frame"
    /\ LET shard == shards[Head(audit.todo)]
           frame == shard.frames[audit.at]
       IN \/ IF audit.at <= shard.seen
             THEN IF Decrypts(audit.priv, shard, frame) /\ frame.rec \in Text
                  THEN audit' = [audit EXCEPT !.at = @ + 1, !.got = Append(@, frame.rec)]
                  ELSE DecoderThrows
             ELSE IF shard.torn THEN DecoderThrows
             ELSE ShardEnds(FALSE)
          \/ ReadFails
          \/ Faults /\ ShardEnds(TRUE)
    /\ UNCHANGED <<file, published, make, sink, evictor, ephs, shards, left>>

\* Only when every shard has been decoded are the records printed. Nobody looks at
\* what fwrite and fflush return: some may be missing, and the code is 0.
PrintRecords ==
    /\ audit.step = "open" /\ audit.todo = << >>
    /\ \E printed \in {audit.got} \cup (IF Faults THEN Parts(audit.got) ELSE {}) :
          audit' = [audit EXCEPT !.step = "done", !.fault = @ \/ printed # audit.got,
                                 !.printed = printed]
    /\ UNCHANGED <<file, published, make, sink, evictor, ephs, shards, left>>

-----------------------------------------------------------------------------
Create ==
    \/ CreateCall \/ CheckExists \/ CheckSize \/ OpenKeyFile \/ ReadKey \/ Agree
    \/ AgreeFails \/ StartParts \/ WriterFails \/ StoreFails \/ CreateReturns

Decoder ==
    DecoderCall \/ ListShards \/ OpenShard \/ ReadFrame \/ PrintRecords

Next ==
    \/ Truncate \/ WriteFileBytes
    \/ Create
    \/ LogRecord \/ DrainLeft \/ Spill \/ Destroy \/ Kill \/ Evict
    \/ Decoder

Spec == Init /\ [][Next]_vars

-----------------------------------------------------------------------------
TypeOK ==
    /\ file = "absent" \/ (Len(file) <= 2 /\ ToSet(file) \subseteq Keys)
    /\ ephs \in 0 .. MaxSinks
    /\ evictor \in BOOLEAN
    /\ \A i \in DOMAIN shards :
          /\ Len(shards[i].frames) <= MaxFrames
          /\ shards[i].seen \in -1 .. Len(shards[i].frames)
    /\ audit.code \in {0, 1} /\ ToSet(audit.got) \subseteq Records

\* However often an operator replaces the key file in the meantime, by truncating it
\* and writing it anew in any number of pieces, a sink encrypts for a key that was
\* published: never for half of one (server_key_loader.cpp:32). An operator who writes
\* over the file in place, or removes it, is not modelled.
KeyWasPublished == sink # NoSink => \E k \in published : sink.pub = Whole(k)

\* The records of the first cut[i] frames of the i-th shard that was listed.
FirstRecords(cut) ==
    FlattenSeq([i \in DOMAIN audit.due |->
        [j \in 1 .. cut[i] |-> shards[audit.due[i].shard].frames[j].rec]])

\* When log_decoder succeeds, it has printed, in the order of the names, a prefix
\* of every shard listed, with at least what was in the file then, and all of it
\* was logged for its key; when it fails it prints nothing (log_decoder.cpp:13).
\* If the system fails it to read or to print, some may be missing, and none wrong.
Prints ==
    /\ audit.code = 1 => audit.printed = << >>
    /\ audit.code = 0 /\ audit.step = "done" =>
          \E cut \in [DOMAIN audit.due -> 0 .. MaxFrames] :
             /\ \A i \in DOMAIN cut :
                   LET shard == shards[audit.due[i].shard]
                   IN /\ cut[i] <= Len(shard.frames)
                      /\ ~audit.fault => audit.due[i].seen <= cut[i]
                      /\ cut[i] > 0 => shard.server = audit.priv
             /\ IF audit.fault THEN ToSet(audit.printed) \subseteq ToSet(FirstRecords(cut))
                ELSE audit.printed = FirstRecords(cut)

\* Every frame of the shards listed is of their own sink, whole, and holds UTF-8.
Readable ==
    \A i \in DOMAIN audit.due :
        LET shard == shards[audit.due[i].shard]
        IN \A f \in ToSet(shard.frames) : Decrypts(audit.priv, shard, f) /\ f.rec \in Text

PrintedAll ==
    /\ audit.code = 0
    /\ audit.printed =
          FirstRecords([i \in DOMAIN audit.due |-> Len(shards[audit.due[i].shard].frames)])

\* If all the shards listed were complete, for the auditor's key and not evicted
\* meanwhile, and their frames can be read, then nothing is missing from what is
\* printed, and all is in order (shard_reader.cpp:154).
PrintsAll == audit.step = "done" /\ audit.sound /\ ~audit.fault /\ Readable => PrintedAll

\* The same of every complete shard: all records of all shards (shard_reader.h:14, 31).
CompletePrintsAll == audit.step = "done" /\ audit.sound /\ ~audit.fault => PrintedAll

=============================================================================
