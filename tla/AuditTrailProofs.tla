-------------------------- MODULE AuditTrailProofs --------------------------
(* What log_decoder reads, for every set of keys and records, every number   *)
(* of sinks and frames per shard: the key a sink encrypts for was published  *)
(* whole, what is printed was logged for the auditor in that order, and of   *)
(* shards that are finished and stay nothing is missing.                     *)
EXTENDS AuditTrail, FiniteSetTheorems, SequenceTheorems, WellFoundedInduction, TLAPS

Pubs == {<< >>} \cup {Whole(k) : k \in Keys}

Makes == [step : {"none", "exists", "size", "open", "read", "agree", "writer", "store"},
          pub : Pubs, eph : Nat]

Sinks == [pub : Pubs, eph : Nat]

\* What is in the key file: nothing, the first half of a key, or a published one.
KeyFileThere ==
    \/ file = << >>
    \/ \E k \in Keys : file = <<k>>
    \/ \E k \in published : file = Whole(k)

\* What Create and the sink hold is a published key, whole.
Held(pub) == \E k \in published : pub = Whole(k)

KeyInv ==
    /\ published \subseteq Keys
    /\ file = "absent" \/ KeyFileThere
    /\ make \in Makes /\ sink \in Sinks /\ ephs \in Nat
    /\ make.step \in {"size", "open", "read"} => KeyFileThere
    /\ make.step \in {"agree", "writer", "store"} => Held(make.pub)
    /\ sink # NoSink => Held(sink.pub)

LEMMA KeyInit == Init => KeyInv
<1> SUFFICES ASSUME Init PROVE KeyInv
    OBVIOUS
<1>1. NoMake \in Makes /\ NoSink \in Sinks
    BY DEF NoMake, NoSink, Makes, Sinks, Pubs
<1>2. NoMake.step = "none"
    BY DEF NoMake
<1> QED
    BY <1>1, <1>2 DEF Init, KeyInv

\* How long the key file is tells what is in it.
LEMMA KeyFileLength ==
    ASSUME KeyFileThere
    PROVE  /\ Len(file) = 0 => file = << >>
           /\ Len(file) = 1 => \E k \in Keys : file = <<k>>
           /\ Len(file) = 2 => \E k \in published : file = Whole(k)
           /\ Len(file) \in {0, 1, 2}
<1>1. Len(<< >>) = 0
    OBVIOUS
<1>2. \A k : Len(<<k>>) = 1 /\ Len(<<k, k>>) = 2
    OBVIOUS
<1> QED
    BY <1>1, <1>2, SMTT(20) DEF KeyFileThere, Whole

LEMMA ListIsSeq ==
    ASSUME NEW S, NEW k \in Nat, NEW q \in [1 .. k -> S]
    PROVE  q \in Seq(S)
    BY SeqDef

LEMMA Appended ==
    ASSUME NEW S, NEW s \in Seq(S), NEW e \in S
    PROVE  /\ Append(s, e) \in Seq(S) /\ Len(Append(s, e)) = Len(s) + 1
           /\ \A i \in 1 .. Len(s) : Append(s, e)[i] = s[i]
           /\ Append(s, e)[Len(s) + 1] = e
    BY AppendProperties

LEMMA AppendTwice ==
    ASSUME NEW k \in Keys
    PROVE  Append(<<k>>, k) = <<k, k>> /\ Len(<<k, k>>) = 2
<1>1. PICK s : s = <<k>>
    OBVIOUS
<1>2. PICK t : t = <<k, k>>
    OBVIOUS
<1>3. s \in Seq(Keys) /\ Len(s) = 1 /\ s[1] = k
    BY <1>1
<1>4. t \in Seq(Keys) /\ Len(t) = 2 /\ t[1] = k /\ t[2] = k
    BY <1>2
<1>5. PICK a : a = Append(s, k)
    OBVIOUS
<1>6. /\ a \in Seq(Keys) /\ Len(a) = 2 /\ a[1] = k /\ a[2] = k
    <2>1. /\ a \in Seq(Keys) /\ Len(a) = Len(s) + 1
          /\ \A i \in 1 .. Len(s) : a[i] = s[i]
          /\ a[Len(s) + 1] = k
        <3>1. s \in Seq(Keys)
            BY <1>3
        <3> QED
            BY <1>5, <3>1, Appended
    <2> QED
        BY <1>3, <2>1
<1>7. \A i \in 1 .. Len(t) : i = 1 \/ i = 2
    BY <1>4
<1>8. a = t
    BY <1>4, <1>6, <1>7, SeqEqual
<1> QED
    BY <1>1, <1>2, <1>4, <1>5, <1>8

\* The operator truncates the file, or writes one more half of a key.
LEMMA KeyFileStep ==
    ASSUME KeyInv, Truncate \/ WriteFileBytes
    PROVE  KeyInv'
<1>1. CASE Truncate
    BY <1>1 DEF Truncate, KeyInv, KeyFileThere, Held
<1>2. CASE WriteFileBytes
    <2>1. /\ KeyFileThere /\ Len(file) < 2
          /\ UNCHANGED <<make, sink, ephs>>
        BY <1>2 DEF WriteFileBytes, KeyInv
    <2>2. PICK k \in IF file = << >> THEN Keys \ published ELSE {file[1]} :
              /\ file' = Append(file, k)
              /\ published' = IF Len(file') = 2 THEN published \cup {k} ELSE published
        BY <1>2 DEF WriteFileBytes
    <2>3. /\ k \in Keys
          /\ \/ file' = <<k>> /\ published' = published
             \/ file' = Whole(k) /\ published' = published \cup {k}
        <3>1. CASE file = << >>
            <4>0. PICK f : f = <<k>>
                OBVIOUS
            <4>1. file' = <<k>> /\ Len(file') = 1
                BY <2>2, <3>1, <4>0
            <4> QED
                BY <2>2, <3>1, <4>1
        <3>2. CASE file # << >>
            <4>1. PICK j \in Keys : file = <<j>>
                BY <2>1, <3>2, KeyFileLength
            <4>2. k = j
                BY <2>2, <3>2, <4>1
            <4>3. Append(<<k>>, k) = <<k, k>> /\ Len(<<k, k>>) = 2
                BY <4>2, AppendTwice
            <4>4. file' = <<k, k>> /\ Len(file') = 2
                BY <2>2, <4>1, <4>2, <4>3
            <4> QED
                BY <2>2, <4>2, <4>4 DEF Whole
        <3> QED
            BY <3>1, <3>2
    <2>4. KeyFileThere' /\ published \subseteq published' /\ published' \subseteq Keys
        BY <2>3 DEF KeyFileThere, KeyInv
    <2> QED
        BY <2>1, <2>4 DEF KeyInv, Held
<1> QED
    BY <1>1, <1>2

\* Create: the key is taken whole from the file or not at all.
LEMMA KeyCreateStep ==
    ASSUME KeyInv, Create
    PROVE  KeyInv'
<1>1. /\ NoMake \in Makes /\ NoMake.step = "none"
      /\ NoSink \in Sinks
    BY DEF NoMake, NoSink, Makes, Sinks, Pubs
<1>2. UNCHANGED <<file, published>>
    BY DEF Create, CreateCall, CheckExists, CheckSize, OpenKeyFile, ReadKey, Agree, AgreeFails,
           StartParts, WriterFails, StoreFails, CreateReturns, MakeGoes
<1>3. ASSUME make' \in Makes, sink' = sink, ephs' \in Nat,
             make'.step \in {"size", "open", "read"} => KeyFileThere,
             make'.step \in {"agree", "writer", "store"} => Held(make'.pub)
      PROVE  KeyInv'
    BY <1>2, <1>3 DEF KeyInv, KeyFileThere, Held
<1>4. ASSUME NEW from, NEW ok, NEW to, MakeGoes(from, ok, to),
             to \in {"size", "open", "read"}, ok => KeyFileThere
      PROVE  KeyInv'
    <2>1. make' = NoMake \/ (ok /\ make' = [make EXCEPT !.step = to])
        BY <1>4 DEF MakeGoes
    <2>2. make' \in Makes /\ (make'.step = "none" \/ (ok /\ make'.step = to))
        BY <1>1, <1>4, <2>1 DEF KeyInv, Makes
    <2> QED
        BY <1>3, <1>4, <2>2 DEF MakeGoes, KeyInv
<1>5. CASE CreateCall
    <2>1. make' \in Makes /\ make'.step = "exists"
        BY <1>1, <1>5 DEF CreateCall, Makes
    <2> QED
        BY <1>3, <1>5, <2>1 DEF CreateCall, KeyInv
<1>6. CASE CheckExists
    BY <1>4, <1>6 DEF CheckExists, KeyInv
<1>7. CASE CheckSize
    <2>1. KeyFileThere
        BY <1>7 DEF CheckSize, MakeGoes, KeyInv
    <2> QED
        BY <1>4, <1>7, <2>1 DEF CheckSize
<1>8. CASE OpenKeyFile
    <2>1. KeyFileThere
        BY <1>8 DEF OpenKeyFile, MakeGoes, KeyInv
    <2> QED
        BY <1>4, <1>8, <2>1 DEF OpenKeyFile
<1>9. CASE ReadKey
    <2>1. KeyFileThere
        BY <1>9 DEF ReadKey, KeyInv
    <2>2. CASE Len(file) = 2
        <3>1. PICK k \in published : file = Whole(k)
            BY <2>1, <2>2, KeyFileLength
        <3>2. make' = [make EXCEPT !.step = "agree", !.pub = Whole(k)]
            BY <1>9, <2>2, <3>1 DEF ReadKey
        <3>3. make' \in Makes /\ make'.step = "agree" /\ make'.pub = Whole(k)
            BY <3>1, <3>2 DEF KeyInv, Makes, Pubs
        <3> QED
            BY <1>3, <1>9, <3>3 DEF ReadKey, KeyInv, Held
    <2>3. CASE Len(file) # 2
        BY <1>1, <1>3, <1>9, <2>3 DEF ReadKey, KeyInv
    <2> QED
        BY <2>2, <2>3
<1>10. CASE Agree
    <2>1. ephs' \in Nat /\ make' = [make EXCEPT !.step = "writer", !.eph = ephs']
        BY <1>10 DEF Agree, KeyInv
    <2>2. make' \in Makes /\ make'.step = "writer" /\ make'.pub = make.pub
        BY <2>1 DEF KeyInv, Makes
    <2> QED
        BY <1>3, <1>10, <2>1, <2>2 DEF Agree, KeyInv
<1>11. CASE AgreeFails \/ WriterFails \/ StoreFails
    <2>1. make' = NoMake /\ UNCHANGED <<sink, ephs>>
        BY <1>11 DEF AgreeFails, WriterFails, StoreFails, MakeGoes
    <2> QED
        BY <1>1, <1>3, <2>1 DEF KeyInv
<1>12. CASE StartParts
    <2>1. make' \in Makes /\ make'.step = "store" /\ make'.pub = make.pub
        BY <1>12 DEF StartParts, KeyInv, Makes
    <2> QED
        BY <1>3, <1>12, <2>1 DEF StartParts, KeyInv
<1>13. CASE CreateReturns
    <2>1. sink' = [pub |-> make.pub, eph |-> make.eph] /\ make' = NoMake /\ UNCHANGED ephs
        BY <1>13 DEF CreateReturns
    <2>2. sink' \in Sinks /\ sink'.pub = make.pub
        BY <2>1 DEF KeyInv, Makes, Sinks
    <2>3. Held(make.pub)
        BY <1>13 DEF CreateReturns, KeyInv
    <2> QED
        BY <1>1, <1>2, <2>1, <2>2, <2>3 DEF KeyInv, KeyFileThere, Held
<1> QED
    BY <1>5, <1>6, <1>7, <1>8, <1>9, <1>10, <1>11, <1>12, <1>13 DEF Create

LEMMA DecoderOnlyReads ==
    ASSUME Decoder
    PROVE  UNCHANGED <<file, published, make, sink, evictor, ephs, shards, left>>
<1>1. CASE PrintRecords
    BY <1>1 DEF PrintRecords
<1>2. CASE DecoderCall \/ ListShards \/ OpenShard \/ ReadFrame
    BY <1>2 DEF DecoderCall, ListShards, OpenShard, ReadFrame
<1> QED
    BY <1>1, <1>2 DEF Decoder

LEMMA KeyStep ==
    ASSUME KeyInv, [Next]_vars
    PROVE  KeyInv'
<1>1. NoMake \in Makes /\ NoSink \in Sinks /\ NoMake.step = "none"
    BY DEF NoMake, NoSink, Makes, Sinks, Pubs
<1>2. CASE LogRecord \/ DrainLeft \/ Spill \/ Evict \/ Decoder
    <2>1. UNCHANGED <<file, published, make, sink, ephs>>
        BY <1>2, DecoderOnlyReads DEF LogRecord, DrainLeft, Spill, Evict
    <2> QED
        BY <2>1 DEF KeyInv, KeyFileThere, Held
<1>3. CASE Destroy \/ Kill
    <2>1. /\ UNCHANGED <<file, published, ephs>> /\ sink' = NoSink
          /\ make' = make \/ make' = NoMake
        BY <1>3 DEF Destroy, Kill
    <2> QED
        BY <1>1, <2>1 DEF KeyInv, KeyFileThere, Held
<1>4. CASE UNCHANGED vars
    BY <1>4 DEF vars, KeyInv, KeyFileThere, Held
<1> QED
    BY <1>2, <1>3, <1>4, KeyFileStep, KeyCreateStep DEF Next

\* KeyWasPublished: however often the operator truncates and rewrites the key file while
\* Create looks at it, reads it or agrees on a key, a sink encrypts for a key that was
\* published whole (server_key_loader.cpp:32).
THEOREM KeyIsWhole == Spec => []KeyWasPublished
<1>1. KeyInv => KeyWasPublished
    BY DEF KeyInv, KeyWasPublished, Held
<1> QED
    BY <1>1, KeyInit, KeyStep, PTL DEF Spec

-----------------------------------------------------------------------------
(* The shards: only the last one is written, by the sink or its Create.      *)

Frames == [rec : Records, key : [server : Keys \cup {NoKey}, eph : Nat]]

Shards == [server : Keys, eph : Nat, frames : Seq(Frames), seen : Int, torn : BOOLEAN,
           there : BOOLEAN]

Current == shards[Len(shards)]

\* Only one key was ever agreed on with the ephemeral half of a shard's header.
OneKey(key, server, eph) == key.eph = eph /\ key.server \in Keys => key.server = server

\* A shard: what may open in it was sealed with its own key, and stdio has written
\* some of it.
ShardSound(s) ==
    /\ s.seen <= Len(s.frames) /\ (s.torn => s.seen < Len(s.frames))
    /\ Len(s.frames) <= MaxFrames
    /\ \A j \in 1 .. Len(s.frames) : OneKey(s.frames[j].key, s.server, s.eph)

ShardsInv == shards \in Seq(Shards) /\ \A i \in 1 .. Len(shards) : ShardSound(shards[i])

\* Whoever writes to the last shard made it, with its own key.
Owners ==
    /\ evictor \in BOOLEAN
    /\ make.step # "none" => sink = NoSink
    /\ evictor => Len(shards) > 0
    /\ make.step = "store" => evictor /\ Current.server = make.pub[1] /\ Current.eph = make.eph
    /\ sink # NoSink => evictor /\ Current.server = sink.pub[1] /\ Current.eph = sink.eph

\* What sinks that are gone have left was sealed before the key that is in use now
\* was agreed on.
LeftInv ==
    /\ left \subseteq Frames
    /\ \A f \in left : f.key.eph <= ephs
    /\ make.step \in {"writer", "store"} =>
          make.eph <= ephs /\ \A f \in left : f.key.eph < make.eph
    /\ sink # NoSink => sink.eph <= ephs /\ \A f \in left : f.key.eph < sink.eph

\* Nobody writes to shard i any more, and all of it is on disk.
Finished(i) ==
    /\ shards[i].seen = Len(shards[i].frames) /\ ~shards[i].torn
    /\ i = Len(shards) => ~evictor

Longer(s, r) ==
    /\ r.server = s.server /\ r.eph = s.eph /\ s.seen <= r.seen
    /\ Len(s.frames) <= Len(r.frames)
    /\ \A j \in 1 .. Len(s.frames) : r.frames[j] = s.frames[j]

\* What a step may do to the shards: those that are finished stay as they are.
Grow ==
    /\ Len(shards) <= Len(shards')
    /\ \A i \in 1 .. Len(shards) : Longer(shards[i], shards'[i])
    /\ \A i \in 1 .. Len(shards) :
          Finished(i) => shards'[i].frames = shards[i].frames /\ Finished(i)'

SameThere == \A i \in 1 .. Len(shards) : shards'[i].there = shards[i].there

LEMMA ShardFacts ==
    ASSUME ShardsInv
    PROVE  /\ Len(shards) \in Nat
           /\ \A i \in 1 .. Len(shards) : /\ shards[i] \in Shards
                                          /\ Len(shards[i].frames) \in Nat
                                          /\ Longer(shards[i], shards[i])
<1>1. Len(shards) \in Nat /\ \A i \in 1 .. Len(shards) : shards[i] \in Shards
    BY LenProperties, ElementOfSeq DEF ShardsInv
<1>2. ASSUME NEW i \in 1 .. Len(shards) PROVE Len(shards[i].frames) \in Nat /\ shards[i].seen \in Int
    BY <1>1, LenProperties DEF Shards
<1> QED
    BY <1>1, <1>2 DEF Longer

\* At most the last shard changes, and others may come after it.
LEMMA Grows ==
    ASSUME ShardsInv, shards' \in Seq(Shards), Len(shards) <= Len(shards'),
           \A i \in 1 .. Len(shards') : i > Len(shards) => ShardSound(shards'[i]),
           \A i \in 1 .. Len(shards) :
              \/ shards'[i] = shards[i]
              \/ /\ i = Len(shards) /\ ShardSound(shards'[i]) /\ Longer(shards[i], shards'[i])
                 /\ shards'[i].there = shards[i].there
                 /\ Finished(i) => /\ shards'[i].frames = shards[i].frames /\ ~shards'[i].torn
                                   /\ shards'[i].seen = Len(shards'[i].frames),
           (evictor' => evictor) \/ Len(shards') > Len(shards)
    PROVE  ShardsInv' /\ Grow /\ SameThere
<1>1. Len(shards) \in Nat /\ Len(shards') \in Nat
    BY ShardFacts, LenProperties
<1>2. ASSUME NEW i \in 1 .. Len(shards') PROVE ShardSound(shards'[i])
    <2>1. CASE i \in 1 .. Len(shards)
        BY <2>1 DEF ShardsInv
    <2>2. CASE i \notin 1 .. Len(shards)
        BY <1>1, <2>2
    <2> QED
        BY <2>1, <2>2
<1>3. ASSUME NEW i \in 1 .. Len(shards) PROVE Longer(shards[i], shards'[i])
    BY ShardFacts
<1>4. ASSUME NEW i \in 1 .. Len(shards), Finished(i)
      PROVE  shards'[i].frames = shards[i].frames /\ Finished(i)'
    <2>1. i = Len(shards') => ~evictor'
        BY <1>1, <1>4 DEF Finished
    <2> QED
        BY <1>4, <2>1 DEF Finished
<1>5. SameThere
    BY DEF SameThere
<1> QED
    BY <1>2, <1>3, <1>4, <1>5 DEF ShardsInv, Grow

LEMMA ShardsUnchanged ==
    ASSUME ShardsInv, UNCHANGED shards, evictor' => evictor
    PROVE  ShardsInv' /\ Grow /\ SameThere
    BY Grows, ShardFacts DEF ShardsInv

\* A shard is added: the one before it is nobody's any more.
LEMMA ShardAdded ==
    ASSUME ShardsInv, NEW c \in Shards, ShardSound(c), shards' = Append(shards, c)
    PROVE  /\ ShardsInv' /\ Grow /\ SameThere
           /\ Len(shards') = Len(shards) + 1 /\ shards'[Len(shards')] = c
<1>1. /\ shards' \in Seq(Shards) /\ Len(shards') = Len(shards) + 1
      /\ \A i \in 1 .. Len(shards) : shards'[i] = shards[i]
      /\ shards'[Len(shards) + 1] = c
    BY Appended DEF ShardsInv
<1>2. Len(shards) \in Nat
    BY ShardFacts
<1>3. \A i \in 1 .. Len(shards') : i > Len(shards) => ShardSound(shards'[i])
    BY <1>1, <1>2
<1> QED
    BY <1>1, <1>2, <1>3, Grows

\* The last shard is written, closed or deleted.
LEMMA CurrentChanges ==
    ASSUME ShardsInv, Len(shards) > 0, NEW c \in Shards, ShardSound(c), Longer(Current, c),
           c.there = Current.there, evictor' => evictor,
           Finished(Len(shards)) => c.frames = Current.frames /\ c.seen = Len(c.frames) /\ ~c.torn,
           shards' = [shards EXCEPT ![Len(shards)] = c]
    PROVE  /\ ShardsInv' /\ Grow /\ SameThere
           /\ Len(shards') = Len(shards) /\ shards'[Len(shards)] = c
<1>1. Len(shards) \in Nat /\ Len(shards) \in 1 .. Len(shards)
    BY ShardFacts
<1>2. /\ shards' \in Seq(Shards) /\ Len(shards') = Len(shards)
      /\ \A j \in 1 .. Len(shards) : shards'[j] = IF j = Len(shards) THEN c ELSE shards[j]
    BY <1>1, ExceptSeq DEF ShardsInv
<1>3. ShardsInv' /\ Grow /\ SameThere
    <2>1. \A i \in 1 .. Len(shards') : ~(i > Len(shards))
        <3>1. PICK n \in Nat : n = Len(shards) /\ n = Len(shards')
            BY <1>1, <1>2
        <3>2. \A i \in 1 .. n : ~(i > n)
            OBVIOUS
        <3> QED
            BY <3>1, <3>2
    <2>2. ASSUME NEW i \in 1 .. Len(shards)
          PROVE  \/ shards'[i] = shards[i]
                 \/ /\ i = Len(shards) /\ ShardSound(shards'[i]) /\ Longer(shards[i], shards'[i])
                    /\ shards'[i].there = shards[i].there
                    /\ Finished(i) => /\ shards'[i].frames = shards[i].frames /\ ~shards'[i].torn
                                      /\ shards'[i].seen = Len(shards'[i].frames)
        <3>1. CASE i # Len(shards)
            BY <1>2, <3>1
        <3>2. CASE i = Len(shards)
            <4>1. shards'[i] = c /\ shards[i] = Current
                BY <1>2, <3>2 DEF Current
            <4> QED
                BY <3>2, <4>1
        <3> QED
            BY <3>1, <3>2
    <2> QED
        <3>1. shards' \in Seq(Shards) /\ Len(shards) <= Len(shards')
            BY <1>1, <1>2
        <3> QED
            BY <2>1, <2>2, <3>1, Grows
<1> QED
    BY <1>1, <1>2, <1>3

\* What the writer does to a shard that it lets go of.
LEMMA ClosedSound ==
    ASSUME ShardsInv, NEW i \in 1 .. Len(shards), NEW c \in Closed(shards[i])
    PROVE  /\ c \in Shards /\ ShardSound(c) /\ Longer(shards[i], c) /\ c.there = shards[i].there
           /\ c.frames = shards[i].frames
           /\ Finished(i) => c.seen = Len(c.frames) /\ ~c.torn
<1>1. PICK s : s = shards[i]
    OBVIOUS
<1>2. s \in Shards /\ Len(s.frames) \in Nat /\ ShardSound(s) /\ Longer(s, s)
    BY <1>1, ShardFacts DEF ShardsInv
<1>3. CASE c = s
    BY <1>1, <1>2, <1>3 DEF Finished
<1>4. CASE c = [s EXCEPT !.seen = Len(s.frames), !.torn = FALSE]
    <2>1. /\ c \in Shards /\ c.frames = s.frames /\ c.seen = Len(s.frames) /\ ~c.torn
          /\ c.server = s.server /\ c.eph = s.eph /\ c.there = s.there
        BY <1>2, <1>4, \A n \in Nat : n \in Int DEF Shards
    <2>2. ShardSound(c)
        BY <1>2, <2>1 DEF ShardSound
    <2>3. Longer(s, c)
        BY <1>2, <2>1 DEF ShardSound, Longer
    <2> QED
        BY <1>1, <2>1, <2>2, <2>3
<1> QED
    BY <1>1, <1>3, <1>4 DEF Closed

LEMMA CloseLastSound ==
    ASSUME ShardsInv, Len(shards) > 0, CloseLast, evictor' => evictor
    PROVE  ShardsInv' /\ Grow /\ SameThere
<1>1. Len(shards) \in 1 .. Len(shards)
    BY ShardFacts
<1>2. PICK c \in Closed(Current) : shards' = [shards EXCEPT ![Len(shards)] = c]
    BY DEF CloseLast, Current
<1> QED
    BY <1>1, <1>2, ClosedSound, CurrentChanges DEF Current

\* AppendFrame: a frame that opens under the sink's key or under none in this shard goes
\* into the shard that the sink has made, or into a new one.
LEMMA AppendFrameSound ==
    ASSUME KeyInv, ShardsInv, Owners, sink # NoSink, UNCHANGED <<make, sink, evictor>>,
           NEW f \in Frames, OneKey(f.key, sink.pub[1], sink.eph), AppendFrame(f)
    PROVE  ShardsInv' /\ Owners' /\ Grow /\ SameThere
<1>1. /\ evictor /\ Len(shards) > 0
      /\ Current.server = sink.pub[1] /\ Current.eph = sink.eph
    BY DEF Owners
<1>2. PICK new : new = NewShard(sink.pub[1], sink.eph)
    OBVIOUS
<1>3. \/ /\ Len(Current.frames) < MaxFrames
         /\ shards' = [shards EXCEPT ![Len(shards)].frames = Append(@, f)]
      \/ \E c \in Closed(Current), failed \in {<< >>} \cup (IF Faults THEN {<<new>>} ELSE {}) :
            shards' = [shards EXCEPT ![Len(shards)] = c] \o failed
                      \o <<[new EXCEPT !.frames = <<f>>]>>
    BY <1>2 DEF AppendFrame, Current
<1>4. /\ Len(shards) \in Nat /\ Len(shards) \in 1 .. Len(shards)
      /\ Current \in Shards /\ Len(Current.frames) \in Nat /\ ShardSound(Current)
    BY <1>1, ShardFacts DEF ShardsInv, Current
<1>5. OneKey(f.key, Current.server, Current.eph)
    BY <1>1
<1>7. CASE /\ Len(Current.frames) < MaxFrames
           /\ shards' = [shards EXCEPT ![Len(shards)].frames = Append(@, f)]
    <2>1. PICK c : c = [Current EXCEPT !.frames = Append(@, f)]
        OBVIOUS
    <2>2. PICK e : e = Append(Current.frames, f)
        OBVIOUS
    <2>3. shards' = [shards EXCEPT ![Len(shards)] = c]
        BY <1>4, <1>7, <2>1 DEF Current
    <2>4. /\ e \in Seq(Frames) /\ Len(e) = Len(Current.frames) + 1
          /\ \A j \in 1 .. Len(Current.frames) : e[j] = Current.frames[j]
          /\ e[Len(Current.frames) + 1] = f
        BY <1>4, <2>2, Appended DEF Shards
    <2>5. /\ c \in Shards /\ c.frames = e /\ c.seen = Current.seen /\ c.torn = Current.torn
          /\ c.server = Current.server /\ c.eph = Current.eph /\ c.there = Current.there
        BY <1>4, <2>1, <2>2, <2>4 DEF Shards
    <2>6. ShardSound(c)
        <3>1. \A j \in 1 .. Len(e) : OneKey(e[j].key, c.server, c.eph)
            BY <1>4, <1>5, <2>4, <2>5 DEF ShardSound
        <3>2. Len(e) <= MaxFrames
            BY <1>4, <1>7, <2>4, BoundsAssumption
        <3>3. Current.seen \in Int
            BY <1>4 DEF Shards
        <3> QED
            BY <1>4, <2>4, <2>5, <3>1, <3>2, <3>3 DEF ShardSound
    <2>7. Longer(Current, c)
        <3>1. Current.seen \in Int
            BY <1>4 DEF Shards
        <3> QED
            BY <1>4, <2>4, <2>5, <3>1 DEF Longer
    <2>8. ~Finished(Len(shards))
        BY <1>1 DEF Finished
    <2>9. /\ ShardsInv' /\ Grow /\ SameThere
          /\ Len(shards') = Len(shards) /\ shards'[Len(shards)] = c
        BY <1>1, <2>3, <2>5, <2>6, <2>7, <2>8, CurrentChanges
    <2>10. Current' = c
        BY <2>9 DEF Current
    <2> QED
        BY <1>1, <2>5, <2>9, <2>10 DEF Owners
<1>8. ASSUME NEW c \in Closed(Current),
             NEW failed \in {<< >>} \cup (IF Faults THEN {<<new>>} ELSE {}),
             shards' = [shards EXCEPT ![Len(shards)] = c] \o failed
                       \o <<[new EXCEPT !.frames = <<f>>]>>
      PROVE  ShardsInv' /\ Owners' /\ Grow /\ SameThere
    <2>1. PICK o : o = [new EXCEPT !.frames = <<f>>]
        OBVIOUS
    <2>2. PICK q : q = [shards EXCEPT ![Len(shards)] = c]
        OBVIOUS
    <2>3. PICK p : p = q \o failed
        OBVIOUS
    <2>4. shards' = p \o <<o>>
        BY <1>8, <2>1, <2>2, <2>3
    <2>5. /\ c \in Shards /\ ShardSound(c) /\ Longer(Current, c) /\ c.there = Current.there
          /\ c.frames = Current.frames
          /\ Finished(Len(shards)) => c.seen = Len(c.frames) /\ ~c.torn
        BY <1>4, ClosedSound DEF Current
    <2>6. Current.server \in Keys /\ Current.eph \in Nat
        BY <1>4 DEF Shards
    <2>7. new \in Shards /\ ShardSound(new)
        <3>1. << >> \in Seq(Frames) /\ Len(<< >>) = 0
            OBVIOUS
        <3>2. new \in Shards /\ new.frames = << >> /\ new.seen = -1 /\ ~new.torn
            BY <1>1, <1>2, <2>6, <3>1 DEF NewShard, Shards
        <3> QED
            BY <3>1, <3>2, BoundsAssumption DEF ShardSound
    <2>8. /\ o \in Shards /\ o.frames = <<f>> /\ o.seen = -1 /\ ~o.torn
          /\ o.server = Current.server /\ o.eph = Current.eph
        <3>1. PICK g : g = <<f>>
            OBVIOUS
        <3>2. g \in Seq(Frames)
            BY <3>1
        <3>3. o = [server |-> Current.server, eph |-> Current.eph, frames |-> g, seen |-> -1,
                   torn |-> FALSE, there |-> TRUE]
            BY <1>1, <1>2, <2>1, <3>1 DEF NewShard
        <3> QED
            BY <2>6, <3>1, <3>2, <3>3 DEF Shards
    <2>9. ShardSound(o)
        <3>1. Len(o.frames) = 1 /\ o.frames[1] = f
            BY <2>8
        <3> QED
            BY <1>5, <2>8, <3>1, BoundsAssumption DEF ShardSound
    <2>10. /\ q \in Seq(Shards) /\ Len(q) = Len(shards)
           /\ \A j \in 1 .. Len(shards) : q[j] = IF j = Len(shards) THEN c ELSE shards[j]
        BY <1>4, <2>2, <2>5, ExceptSeq DEF ShardsInv
    <2>11. /\ p \in Seq(Shards) /\ Len(p) \in Nat /\ Len(p) >= Len(shards)
           /\ \A j \in 1 .. Len(shards) : p[j] = q[j]
           /\ \A j \in 1 .. Len(p) : j > Len(shards) => ShardSound(p[j])
        <3>1. CASE failed = << >>
            <4>1. p = q
                BY <2>3, <2>10, <3>1, ConcatEmptySeq
            <4> QED
                BY <1>4, <2>10, <4>1
        <3>2. CASE failed = <<new>>
            <4>1. p = Append(q, new)
                BY <2>3, <2>7, <2>10, <3>2, AppendIsConcat
            <4>2. /\ p \in Seq(Shards) /\ Len(p) = Len(q) + 1
                  /\ \A j \in 1 .. Len(q) : p[j] = q[j]
                  /\ p[Len(q) + 1] = new
                BY <2>7, <2>10, <4>1, Appended
            <4> QED
                BY <1>4, <2>7, <2>10, <4>2
        <3> QED
            BY <3>1, <3>2
    <2>12. /\ shards' \in Seq(Shards) /\ Len(shards') = Len(p) + 1
           /\ \A j \in 1 .. Len(p) : shards'[j] = p[j]
           /\ shards'[Len(p) + 1] = o
        <3>1. shards' = Append(p, o)
            BY <2>4, <2>8, <2>11, AppendIsConcat
        <3> QED
            BY <2>8, <2>11, <3>1, Appended
    <2>13. ASSUME NEW i \in 1 .. Len(shards)
           PROVE  \/ shards'[i] = shards[i]
                  \/ /\ i = Len(shards) /\ ShardSound(shards'[i]) /\ Longer(shards[i], shards'[i])
                     /\ shards'[i].there = shards[i].there
                     /\ Finished(i) => /\ shards'[i].frames = shards[i].frames /\ ~shards'[i].torn
                                       /\ shards'[i].seen = Len(shards'[i].frames)
        <3>1. i \in 1 .. Len(p) /\ shards'[i] = q[i]
            BY <1>4, <2>11, <2>12
        <3>2. CASE i # Len(shards)
            BY <2>10, <3>1, <3>2
        <3>3. CASE i = Len(shards)
            <4>1. shards'[i] = c /\ shards[i] = Current
                BY <2>10, <3>1, <3>3 DEF Current
            <4> QED
                BY <2>5, <3>3, <4>1
        <3> QED
            BY <3>2, <3>3
    <2>14. ASSUME NEW i \in 1 .. Len(shards'), i > Len(shards) PROVE ShardSound(shards'[i])
        <3>1. i \in 1 .. Len(p) \/ i = Len(p) + 1
            BY <2>11, <2>12
        <3> QED
            BY <2>9, <2>11, <2>12, <2>14, <3>1
    <2>15. ShardsInv' /\ Grow /\ SameThere
        <3>1. Len(shards) <= Len(shards') /\ (evictor' => evictor)
            BY <1>4, <2>11, <2>12
        <3> QED
            BY <2>12, <2>13, <2>14, <3>1, Grows
    <2>16. Current' = o
        BY <2>12 DEF Current
    <2> QED
        BY <1>1, <1>4, <2>8, <2>11, <2>12, <2>15, <2>16 DEF Owners
<1> QED
    BY <1>3, <1>7, <1>8

\* LogRecord and DrainLeft: the sink's own frame, one of a sink before it, or a garbled one.
LEMMA FrameAppended ==
    ASSUME KeyInv, ShardsInv, Owners, LeftInv, LogRecord \/ DrainLeft
    PROVE  ShardsInv' /\ Owners' /\ Grow /\ SameThere
<1>1. sink # NoSink /\ UNCHANGED <<make, sink, evictor>>
    BY DEF LogRecord, DrainLeft
<1>2. sink.pub[1] \in Keys /\ sink.eph \in Nat
    BY <1>1 DEF KeyInv, Held, Sinks, Whole
<1>3. ASSUME NEW f \in Frames, OneKey(f.key, sink.pub[1], sink.eph),
             NEW g \in {f, Garbled(f)}, AppendFrame(g)
      PROVE  ShardsInv' /\ Owners' /\ Grow /\ SameThere
    <2>1. CASE g = f
        BY <1>1, <1>3, <2>1, AppendFrameSound
    <2>2. CASE g = Garbled(f)
        <3>1. g \in Frames /\ g.key.server = NoKey
            BY <2>2 DEF Garbled, Frames, HkdfSha256
        <3>2. OneKey(g.key, sink.pub[1], sink.eph)
            BY <3>1, TextAssumption DEF OneKey
        <3> QED
            BY <1>1, <1>3, <3>1, <3>2, AppendFrameSound
    <2> QED
        BY <2>1, <2>2
<1>4. CASE LogRecord
    <2>1. PICK r \in Fresh :
              LET frame == [rec |-> r, key |-> OwnKey]
              IN \E g \in {frame, Garbled(frame)} : AppendFrame(g)
        BY <1>4 DEF LogRecord
    <2>2. PICK f : f = [rec |-> r, key |-> OwnKey]
        OBVIOUS
    <2>3. f \in Frames /\ OneKey(f.key, sink.pub[1], sink.eph)
        BY <1>2, <2>2 DEF Fresh, Frames, OneKey, OwnKey, HkdfSha256
    <2> QED
        BY <1>3, <2>1, <2>2, <2>3
<1>5. CASE DrainLeft
    <2>1. PICK f \in left : \E g \in {f, Garbled(f)} : AppendFrame(g)
        BY <1>5 DEF DrainLeft
    <2>2. f \in Frames /\ f.key.eph < sink.eph /\ f.key.eph \in Nat
        BY <1>1 DEF LeftInv, Frames
    <2>3. OneKey(f.key, sink.pub[1], sink.eph)
        BY <1>2, <2>2 DEF OneKey
    <2> QED
        BY <1>3, <2>1, <2>2, <2>3
<1> QED
    BY <1>4, <1>5

\* Spill: stdio writes what is in its buffer, as far as it likes.
LEMMA SpillSound ==
    ASSUME ShardsInv, Owners, Spill
    PROVE  ShardsInv' /\ Owners' /\ Grow /\ SameThere
<1>1. evictor /\ Len(shards) > 0 /\ UNCHANGED <<make, sink, evictor>>
    BY DEF Spill, Owners
<1>2. /\ Len(shards) \in 1 .. Len(shards)
      /\ Current \in Shards /\ Len(Current.frames) \in Nat /\ ShardSound(Current)
    BY <1>1, ShardFacts DEF ShardsInv, Current
<1>3. PICK n \in Current.seen .. Len(Current.frames), torn \in BOOLEAN :
          /\ torn => n < Len(Current.frames)
          /\ shards' = [shards EXCEPT ![Len(shards)].seen = n, ![Len(shards)].torn = torn]
    BY DEF Spill, Current
<1>4. PICK s : s = Current
    OBVIOUS
<1>5. PICK c : c = [s EXCEPT !.seen = n, !.torn = torn]
    OBVIOUS
<1>6. shards' = [shards EXCEPT ![Len(shards)] = c]
    <2>1. shards' = [shards EXCEPT ![Len(shards)] = [shards[Len(shards)] EXCEPT !.seen = n, !.torn = torn]]
        BY <1>2, <1>3
    <2> QED
        BY <1>4, <1>5, <2>1 DEF Current
<1>7. s.seen \in Int /\ n \in Int /\ s.seen <= n /\ n <= Len(s.frames)
    BY <1>2, <1>3, <1>4 DEF Shards
<1>8. /\ c \in Shards /\ c.seen = n /\ c.torn = torn /\ c.frames = s.frames
      /\ c.server = s.server /\ c.eph = s.eph /\ c.there = s.there
    BY <1>2, <1>4, <1>5, <1>7 DEF Shards
<1>9. ShardSound(c) /\ Longer(Current, c)
    BY <1>2, <1>3, <1>4, <1>7, <1>8 DEF ShardSound, Longer
<1>10. ~Finished(Len(shards))
    BY <1>1 DEF Finished
<1>11. /\ ShardsInv' /\ Grow /\ SameThere
       /\ Len(shards') = Len(shards) /\ shards'[Len(shards)] = c
    BY <1>1, <1>4, <1>6, <1>8, <1>9, <1>10, CurrentChanges
<1>12. Current' = c
    BY <1>11 DEF Current
<1> QED
    BY <1>1, <1>4, <1>8, <1>11, <1>12 DEF Owners

LEMMA NewShardSound ==
    ASSUME Held(make.pub), make \in Makes, KeyInv
    PROVE  LET c == NewShard(make.pub[1], make.eph)
           IN c \in Shards /\ ShardSound(c) /\ c.server = make.pub[1] /\ c.eph = make.eph
<1>1. PICK c : c = NewShard(make.pub[1], make.eph)
    OBVIOUS
<1>2. make.pub[1] \in Keys /\ make.eph \in Nat
    BY DEF Held, KeyInv, Whole, Makes
<1>3. << >> \in Seq(Frames) /\ Len(<< >>) = 0
    OBVIOUS
<1>4. /\ c \in Shards /\ c.frames = << >> /\ c.seen = -1 /\ ~c.torn
      /\ c.server = make.pub[1] /\ c.eph = make.eph
    BY <1>1, <1>2, <1>3 DEF NewShard, Shards
<1>5. ShardSound(c)
    BY <1>3, <1>4, BoundsAssumption DEF ShardSound
<1> QED
    BY <1>1, <1>4, <1>5

\* The sink or its Create starts and ends, with the last shard made or closed.
LEMMA ShardsStep ==
    ASSUME KeyInv, ShardsInv, Owners, LeftInv, [Next]_vars, ~Evict, ~Decoder
    PROVE  ShardsInv' /\ Owners' /\ Grow /\ SameThere /\ UNCHANGED audit
<1>1. NoMake.step = "none"
    BY DEF NoMake
<1>2. CASE StartParts
    <2>1. /\ make.step = "writer" /\ Held(make.pub) /\ make \in Makes /\ sink = NoSink
          /\ evictor' = TRUE /\ UNCHANGED <<sink, audit>>
        BY <1>2 DEF StartParts, KeyInv, Owners
    <2>2. PICK c : c = NewShard(make.pub[1], make.eph)
        OBVIOUS
    <2>4. /\ c \in Shards /\ ShardSound(c)
          /\ c.server = make.pub[1] /\ c.eph = make.eph
        BY <2>1, <2>2, NewShardSound
    <2>5. shards' = Append(shards, c)
        BY <1>2, <2>2 DEF StartParts
    <2>6. /\ ShardsInv' /\ Grow /\ SameThere
          /\ Len(shards') = Len(shards) + 1 /\ Current' = c
        BY <2>4, <2>5, ShardAdded DEF Current
    <2>7. make'.step = "store" /\ make'.pub = make.pub /\ make'.eph = make.eph
        BY <1>2, <2>1 DEF StartParts, Makes
    <2>8. Len(shards') > 0
        BY <2>6, ShardFacts
    <2> QED
        BY <2>1, <2>4, <2>6, <2>7, <2>8 DEF Owners
<1>3. CASE StoreFails \/ Destroy
    <2>1. /\ evictor /\ Len(shards) > 0 /\ CloseLast /\ evictor' = FALSE
          /\ make'.step = "none" /\ sink' = NoSink /\ UNCHANGED audit
        BY <1>1, <1>3 DEF StoreFails, Destroy, Owners
    <2> QED
        BY <2>1, CloseLastSound DEF Owners
<1>4. CASE Kill
    <2>1. /\ UNCHANGED <<shards, audit>> /\ evictor' = FALSE
          /\ make'.step = "none" /\ sink' = NoSink
        BY <1>1, <1>4 DEF Kill
    <2> QED
        BY <2>1, ShardsUnchanged DEF Owners
<1>5. CASE CreateReturns
    <2>1. /\ UNCHANGED <<shards, evictor, audit>> /\ make.step = "store"
          /\ make'.step = "none" /\ sink'.pub = make.pub /\ sink'.eph = make.eph
        BY <1>1, <1>5 DEF CreateReturns
    <2> QED
        BY <2>1, ShardsUnchanged DEF Owners, Current
<1>6. ASSUME UNCHANGED <<shards, evictor, sink, audit>>,
             make'.step # "none" => sink = NoSink, make'.step # "store"
      PROVE  ShardsInv' /\ Owners' /\ Grow /\ SameThere /\ UNCHANGED audit
    BY <1>6, ShardsUnchanged DEF Owners, Current
<1>7. ASSUME NEW from, NEW ok, NEW to, MakeGoes(from, ok, to),
             from # "none", to \in {"size", "open", "read", "writer"}
      PROVE  ShardsInv' /\ Owners' /\ Grow /\ SameThere /\ UNCHANGED audit
    <2>1. /\ UNCHANGED <<shards, evictor, sink, audit>> /\ make.step = from
          /\ make' = [make EXCEPT !.step = to] \/ make' = NoMake
        BY <1>7 DEF MakeGoes
    <2>2. make'.step = to \/ make'.step = "none"
        BY <1>1, <2>1 DEF KeyInv, Makes
    <2> QED
        BY <1>6, <1>7, <2>1, <2>2 DEF Owners
<1>8. CASE CreateCall
    <2>1. /\ UNCHANGED <<shards, evictor, sink, audit>> /\ sink = NoSink
          /\ make' = [NoMake EXCEPT !.step = "exists"]
        BY <1>8 DEF CreateCall
    <2>2. make'.step = "exists"
        BY <2>1 DEF NoMake
    <2> QED
        BY <1>6, <2>1, <2>2
<1>9. CASE CheckExists \/ CheckSize \/ OpenKeyFile \/ AgreeFails
    BY <1>7, <1>9 DEF CheckExists, CheckSize, OpenKeyFile, AgreeFails
<1>10. CASE ReadKey \/ Agree
    <2>1. /\ UNCHANGED <<shards, evictor, sink, audit>> /\ make.step # "none"
          /\ \/ make' = NoMake
             \/ make' = [make EXCEPT !.step = "agree", !.pub = file]
             \/ make' = [make EXCEPT !.step = "writer", !.eph = ephs']
        BY <1>10 DEF ReadKey, Agree
    <2>2. make'.step \in {"none", "agree", "writer"}
        BY <1>1, <2>1 DEF KeyInv, Makes
    <2> QED
        BY <1>6, <2>1, <2>2 DEF Owners
<1>11. CASE Truncate \/ WriteFileBytes \/ UNCHANGED vars
    <2>1. UNCHANGED <<shards, evictor, sink, audit, make>>
        BY <1>11 DEF Truncate, WriteFileBytes, vars
    <2> QED
        BY <2>1, ShardsUnchanged DEF Owners, Current
<1>12. CASE LogRecord \/ DrainLeft \/ Spill
    <2>1. UNCHANGED audit
        BY <1>12 DEF LogRecord, DrainLeft, Spill
    <2> QED
        BY <1>12, <2>1, FrameAppended, SpillSound
<1>13. CASE WriterFails
    <2>1. /\ make.step = "writer" /\ Held(make.pub) /\ make \in Makes /\ sink = NoSink
          /\ make'.step = "none" /\ UNCHANGED <<sink, evictor, audit>>
        BY <1>1, <1>13 DEF WriterFails, KeyInv, Owners
    <2>2. PICK c : c = NewShard(make.pub[1], make.eph)
        OBVIOUS
    <2>3. shards' = shards \/ shards' = Append(shards, c)
        BY <1>13, <2>2 DEF WriterFails
    <2>4. c \in Shards /\ ShardSound(c)
        BY <2>1, <2>2, NewShardSound
    <2>5. CASE shards' = shards
        BY <2>1, <2>5, ShardsUnchanged DEF Owners
    <2>6. CASE shards' = Append(shards, c)
        <3>1. ShardsInv' /\ Grow /\ SameThere /\ Len(shards') = Len(shards) + 1
            BY <2>4, <2>6, ShardAdded
        <3>2. Len(shards') > 0
            BY <3>1, ShardFacts
        <3> QED
            BY <2>1, <3>1, <3>2 DEF Owners
    <2> QED
        BY <2>1, <2>3, <2>5, <2>6
<1> QED
    BY <1>2, <1>3, <1>4, <1>5, <1>8, <1>9, <1>10, <1>11, <1>12, <1>13 DEF Next, Create

\* What is left behind is older than the key in use, since every sink agrees on a new one.
LEMMA LeftStep ==
    ASSUME KeyInv, ShardsInv, Owners, LeftInv, [Next]_vars
    PROVE  LeftInv'
<1>1. /\ NoMake.step = "none" /\ ephs \in Nat /\ make \in Makes /\ sink \in Sinks
      /\ \A f \in left : f \in Frames /\ f.key.eph \in Nat
    BY DEF NoMake, KeyInv, LeftInv, Frames
<1>2. CASE Agree
    <2>1. /\ ephs' = ephs + 1 /\ make'.eph = ephs' /\ sink = NoSink
          /\ UNCHANGED <<sink, left>>
        BY <1>1, <1>2 DEF Agree, Owners, Makes
    <2> QED
        BY <1>1, <2>1 DEF LeftInv
<1>3. CASE StartParts
    <2>1. make'.eph = make.eph /\ make.step = "writer" /\ UNCHANGED <<sink, ephs, left>>
        BY <1>1, <1>3 DEF StartParts, Makes
    <2> QED
        BY <2>1 DEF LeftInv
<1>4. CASE CreateReturns
    <2>1. /\ make'.step = "none" /\ make.step = "store" /\ sink'.eph = make.eph
          /\ UNCHANGED <<ephs, left>>
        BY <1>1, <1>4 DEF CreateReturns
    <2> QED
        BY <2>1 DEF LeftInv
<1>5. CASE Kill \/ Destroy
    <2>1. /\ UNCHANGED ephs /\ sink' = NoSink /\ make'.step = "none"
          /\ UNCHANGED left \/ (sink # NoSink /\ LeavesFrame)
        BY <1>1, <1>5 DEF Kill, Destroy, Owners
    <2>2. CASE UNCHANGED left
        BY <2>1, <2>2 DEF LeftInv
    <2>3. CASE sink # NoSink /\ LeavesFrame
        <3>1. PICK own : own = {f \in UNION {ToSet(shards[i].frames) : i \in DOMAIN shards} : f.key = OwnKey}
            OBVIOUS
        <3>2. PICK f \in own \cup {[rec |-> r, key |-> OwnKey] : r \in Fresh} : left' = left \cup {f}
            BY <2>3, <3>1 DEF LeavesFrame
        <3>3. /\ sink.pub[1] \in Keys /\ sink.eph \in Nat /\ sink.eph <= ephs
              /\ OwnKey.eph = sink.eph /\ OwnKey \in [server : Keys \cup {NoKey}, eph : Nat]
            BY <2>3 DEF KeyInv, Held, Sinks, Whole, LeftInv, OwnKey, HkdfSha256
        <3>4. f \in Frames /\ f.key = OwnKey
            <4>1. CASE f \in own
                <5>1. PICK i \in DOMAIN shards : f \in ToSet(shards[i].frames) /\ f.key = OwnKey
                    BY <3>1, <4>1
                <5>2. DOMAIN shards = 1 .. Len(shards)
                    BY LenProperties DEF ShardsInv
                <5>3. shards[i].frames \in Seq(Frames)
                    BY <5>2, ShardFacts DEF Shards
                <5>4. PICK j \in DOMAIN shards[i].frames : f = shards[i].frames[j]
                    BY <5>1 DEF ToSet
                <5>5. f \in Frames
                    BY <5>3, <5>4, LenProperties, ElementOfSeq
                <5> QED
                    BY <5>1, <5>5
            <4>2. CASE f \notin own
                BY <3>2, <3>3, <4>2 DEF Fresh, Frames
            <4> QED
                BY <4>1, <4>2
        <3> QED
            BY <1>1, <2>1, <3>2, <3>3, <3>4 DEF LeftInv
    <2> QED
        BY <2>1, <2>2, <2>3
<1>6. CASE LogRecord \/ DrainLeft
    <2>1. UNCHANGED <<make, sink, ephs>> /\ left' \subseteq left
        BY <1>6 DEF LogRecord, DrainLeft
    <2> QED
        BY <2>1 DEF LeftInv
<1>7. ASSUME UNCHANGED <<sink, ephs, left>>, make'.step \notin {"writer", "store"}
      PROVE  LeftInv'
    BY <1>7 DEF LeftInv
<1>8. CASE CreateCall \/ ReadKey \/ WriterFails \/ StoreFails
    <2>1. /\ UNCHANGED <<sink, ephs, left>>
          /\ \/ make' = NoMake \/ make' = [NoMake EXCEPT !.step = "exists"]
             \/ make' = [make EXCEPT !.step = "agree", !.pub = file]
        BY <1>8 DEF CreateCall, ReadKey, WriterFails, StoreFails
    <2>2. make'.step \in {"none", "exists", "agree"}
        BY <1>1, <2>1 DEF NoMake, Makes
    <2> QED
        BY <1>7, <2>1, <2>2
<1>9. CASE CheckExists \/ CheckSize \/ OpenKeyFile \/ AgreeFails
    <2>1. /\ UNCHANGED <<sink, ephs, left>>
          /\ \/ make' = NoMake
             \/ \E to \in {"size", "open", "read"} : make' = [make EXCEPT !.step = to]
        BY <1>9 DEF CheckExists, CheckSize, OpenKeyFile, AgreeFails, MakeGoes
    <2>2. make'.step \in {"none", "size", "open", "read"}
        BY <1>1, <2>1 DEF Makes
    <2> QED
        BY <1>7, <2>1, <2>2
<1>10. CASE Truncate \/ WriteFileBytes \/ Spill \/ Evict \/ Decoder \/ UNCHANGED vars
    <2>1. UNCHANGED <<make, sink, ephs, left>>
        BY <1>10, DecoderOnlyReads DEF Truncate, WriteFileBytes, Spill, Evict, vars
    <2> QED
        BY <2>1 DEF LeftInv
<1> QED
    BY <1>2, <1>3, <1>4, <1>5, <1>6, <1>8, <1>9, <1>10 DEF Next, Create

\* Evict: a shard is deleted that nobody writes to any more.
LEMMA EvictSound ==
    ASSUME ShardsInv, Owners, Evict
    PROVE  /\ ShardsInv' /\ Owners' /\ Grow
           /\ \E i \in 1 .. Len(shards) :
                 /\ \A j \in 1 .. Len(shards) : j # i => shards'[j].there = shards[j].there
                 /\ audit' = [audit EXCEPT !.sound = @ /\ i \notin ToSet(audit.todo)]
<1>1. PICK i \in 1 .. Len(shards) - 1 :
          /\ shards' = [shards EXCEPT ![i].there = FALSE]
          /\ audit' = [audit EXCEPT !.sound = @ /\ i \notin ToSet(audit.todo)]
    BY DEF Evict
<1>2. UNCHANGED <<make, sink, evictor>>
    BY DEF Evict
<1>3. Len(shards) \in Nat /\ i \in 1 .. Len(shards) /\ i # Len(shards)
    BY ShardFacts
<1>4. PICK s : s = shards[i]
    OBVIOUS
<1>5. PICK c : c = [s EXCEPT !.there = FALSE]
    OBVIOUS
<1>6. s \in Shards /\ ShardSound(s) /\ Len(s.frames) \in Nat /\ Longer(s, s)
    BY <1>3, <1>4, ShardFacts DEF ShardsInv
<1>7. /\ c \in Shards /\ c.seen = s.seen /\ c.torn = s.torn /\ c.frames = s.frames
      /\ c.server = s.server /\ c.eph = s.eph
    BY <1>5, <1>6 DEF Shards
<1>8. ShardSound(c) /\ Longer(s, c)
    BY <1>6, <1>7 DEF ShardSound, Longer
<1>9. shards' = [shards EXCEPT ![i] = c]
    BY <1>1, <1>3, <1>4, <1>5
<1>10. /\ shards' \in Seq(Shards) /\ Len(shards') = Len(shards)
       /\ \A j \in 1 .. Len(shards) : shards'[j] = IF j = i THEN c ELSE shards[j]
    BY <1>3, <1>7, <1>9, ExceptSeq DEF ShardsInv
<1>11. \A j \in 1 .. Len(shards) : ShardSound(shards'[j]) /\ Longer(shards[j], shards'[j])
    BY <1>4, <1>8, <1>10, ShardFacts DEF ShardsInv
<1>12. \A j \in 1 .. Len(shards) :
          Finished(j) => shards'[j].frames = shards[j].frames /\ Finished(j)'
    BY <1>2, <1>4, <1>7, <1>10 DEF Finished
<1>13. Grow
    BY <1>3, <1>10, <1>11, <1>12 DEF Grow
<1>14. Current' = Current
    BY <1>3, <1>10 DEF Current
<1>15. Owners'
    BY <1>2, <1>10, <1>14 DEF Owners
<1> QED
    BY <1>1, <1>3, <1>10, <1>11, <1>13, <1>15 DEF ShardsInv

-----------------------------------------------------------------------------
(* Lists of shards, and the records of several.                              *)

\* Induction, as a smallest counterexample.
LEMMA Smallest ==
    ASSUME NEW T \in SUBSET Nat, T # {}
    PROVE  \E n \in T : \A m \in T : n <= m
<1>1. PICK n \in T : \A m \in T : ~(<<m, n>> \in OpToRel(<, Nat))
    BY WFMin, NatLessThanWellFounded
<1>2. \A m \in T : ~(m < n)
    BY <1>1 DEF OpToRel
<1> QED
    BY <1>2

Flattens(fl, k, q) == fl = [i \in 1 .. k |-> IF i = 1 THEN q[i] ELSE fl[i - 1] \o q[i]]

LEMMA FlattenExists ==
    ASSUME NEW k \in Nat \ {0}, NEW q
    PROVE  \E fl : Flattens(fl, k, q)
<1> DEFINE Bad == {n \in Nat \ {0} : ~ \E fl : Flattens(fl, n, q)}
<1>1. Flattens([i \in 1 .. 1 |-> q[i]], 1, q)
    <2>1. \A i \in 1 .. 1 : i = 1
        OBVIOUS
    <2> QED
        BY <2>1 DEF Flattens
<1>2. ASSUME NEW n \in Nat \ {0}, NEW h, Flattens(h, n, q)
      PROVE  \E fl : Flattens(fl, n + 1, q)
    <2> DEFINE g == [i \in 1 .. n + 1 |-> IF i = 1 THEN q[i] ELSE h[i - 1] \o q[i]]
    <2>1. ASSUME NEW i \in 1 .. n PROVE i \in 1 .. n + 1 /\ h[i] = g[i]
        <3>1. i \in 1 .. n + 1
            OBVIOUS
        <3>2. h[i] = IF i = 1 THEN q[i] ELSE h[i - 1] \o q[i]
            BY <1>2 DEF Flattens
        <3> QED
            BY <3>1, <3>2
    <2>2. \A i \in 1 .. n + 1 : i # 1 => i - 1 \in 1 .. n
        OBVIOUS
    <2>3. \A i \in 1 .. n + 1 : i # 1 => h[i - 1] = g[i - 1]
        BY <2>1, <2>2
    <2>4. Flattens(g, n + 1, q)
        BY <2>3 DEF Flattens
    <2> QED
        BY <2>4
<1>3. Bad = {}
    <2> SUFFICES ASSUME Bad # {} PROVE FALSE
        OBVIOUS
    <2>1. PICK n \in Bad : \A m \in Bad : n <= m
        BY Smallest
    <2>2. n # 1
        BY <1>1, <2>1
    <2>3. n - 1 \in Nat \ {0} /\ n - 1 \notin Bad
        BY <2>1, <2>2
    <2>4. PICK h : Flattens(h, n - 1, q)
        BY <2>3
    <2>5. \E fl : Flattens(fl, n - 1 + 1, q)
        BY <1>2, <2>3, <2>4
    <2>6. n - 1 + 1 = n
        BY <2>1
    <2> QED
        BY <2>1, <2>5, <2>6
<1> QED
    BY <1>3

Lists(list, some) ==
    /\ list \in [1 .. Cardinality(some) -> some]
    /\ \A i, j \in DOMAIN list : i < j => list[i] < list[j]

LEMMA SortedExists ==
    ASSUME NEW n \in Nat, NEW some \in SUBSET (1 .. n)
    PROVE  \E list : Lists(list, some)
<1> DEFINE Bad == {m \in Nat : \E S \in SUBSET (1 .. m) : ~ \E list : Lists(list, S)}
<1>1. ASSUME NEW S \in SUBSET (1 .. 0) PROVE \E list : Lists(list, S)
    <2>1. S = {} /\ Cardinality(S) = 0
        <3>1. S = {}
            OBVIOUS
        <3> QED
            BY <3>1, FS_EmptySet
    <2>2. \A i \in 1 .. 0 : FALSE
        OBVIOUS
    <2>3. [i \in 1 .. 0 |-> 0] \in [1 .. 0 -> S]
        BY <2>2
    <2>4. Lists([i \in 1 .. 0 |-> 0], S)
        BY <2>1, <2>2, <2>3 DEF Lists
    <2> QED
        BY <2>4
<1>2. ASSUME NEW m \in Nat \ {0}, m - 1 \notin Bad, NEW S \in SUBSET (1 .. m)
      PROVE  \E list : Lists(list, S)
    <2>1. \A T \in SUBSET (1 .. m - 1) : \E list : Lists(list, T)
        BY <1>2
    <2>2. CASE m \notin S
        <3>1. S \in SUBSET (1 .. m - 1)
            BY <2>2
        <3> QED
            BY <2>1, <3>1
    <2>3. CASE m \in S
        <3>1. PICK T : T = S \ {m}
            OBVIOUS
        <3>2. T \in SUBSET (1 .. m - 1) /\ S = T \cup {m} /\ m \notin T
            BY <2>3, <3>1
        <3>3. IsFiniteSet(T) /\ Cardinality(T) \in Nat /\ Cardinality(S) = Cardinality(T) + 1
            <4>1. IsFiniteSet(1 .. m - 1)
                BY FS_Interval
            <4>2. IsFiniteSet(T)
                BY <3>2, <4>1, FS_Subset
            <4> QED
                BY <3>2, <4>2, FS_AddElement, FS_CardinalityType
        <3>4. PICK old : Lists(old, T)
            BY <2>1, <3>2
        <3>5. PICK c \in Nat : c = Cardinality(T)
            BY <3>3
        <3>6. PICK new : new = [i \in 1 .. c + 1 |-> IF i = c + 1 THEN m ELSE old[i]]
            OBVIOUS
        <3>7. old \in [1 .. c -> T] /\ \A i, j \in 1 .. c : i < j => old[i] < old[j]
            BY <3>4, <3>5 DEF Lists
        <3>8. \A i \in 1 .. c + 1 : i = c + 1 \/ i \in 1 .. c
            OBVIOUS
        <3>9. new \in [1 .. c + 1 -> S]
            BY <3>2, <3>6, <3>7, <3>8
        <3>10. ASSUME NEW i \in 1 .. c + 1, NEW j \in 1 .. c + 1, i < j PROVE new[i] < new[j]
            <4>0. i \in 1 .. c /\ i # c + 1
                BY <3>10
            <4>1. i \in 1 .. c /\ new[i] = old[i] /\ old[i] \in 1 .. m - 1
                BY <3>2, <3>6, <3>7, <4>0
            <4>2. CASE j = c + 1
                BY <3>6, <4>1, <4>2
            <4>3. CASE j \in 1 .. c
                BY <3>6, <3>7, <3>10, <4>1, <4>3
            <4> QED
                BY <3>8, <4>2, <4>3
        <3>11. Lists(new, S)
            BY <3>3, <3>5, <3>9, <3>10 DEF Lists
        <3> QED
            BY <3>11
    <2> QED
        BY <2>2, <2>3
<1>3. Bad = {}
    <2> SUFFICES ASSUME Bad # {} PROVE FALSE
        OBVIOUS
    <2>1. PICK m \in Bad : \A l \in Bad : m <= l
        BY Smallest
    <2>2. m # 0
        BY <1>1, <2>1
    <2>3. m - 1 \in Nat /\ m - 1 \notin Bad /\ m \in Nat \ {0}
        BY <2>1, <2>2
    <2>4. PICK S \in SUBSET (1 .. m) : ~ \E list : Lists(list, S)
        BY <2>1
    <2> HIDE DEF Bad
    <2> QED
        BY <1>2, <2>3, <2>4
<1> QED
    BY <1>3

\* Sorted lists each of some shards once, in the order of their names.
LEMMA SortedList ==
    ASSUME NEW n \in Nat, NEW some \in SUBSET (1 .. n)
    PROVE  /\ Lists(Sorted(some), some) /\ Cardinality(some) \in Nat
           /\ Sorted(some) \in Seq(Nat) /\ Len(Sorted(some)) = Cardinality(some)
           /\ ToSet(Sorted(some)) = some
<1>1. IsFiniteSet(some) /\ Cardinality(some) \in Nat
    <2>1. IsFiniteSet(1 .. n)
        BY FS_Interval
    <2>2. IsFiniteSet(some)
        BY <2>1, FS_Subset
    <2> QED
        BY <2>2, FS_CardinalityType
<1>2. PICK c \in Nat : c = Cardinality(some)
    BY <1>1
<1>3. PICK q : q = Sorted(some)
    OBVIOUS
<1>4. Lists(q, some)
    BY <1>3, SortedExists DEF Sorted, Lists
<1>5. q \in [1 .. c -> some] /\ \A i, j \in 1 .. c : i < j => q[i] < q[j]
    BY <1>2, <1>4 DEF Lists
<1>6. q \in Seq(Nat) /\ Len(q) = c
    <2>0. \A y \in some : y \in Nat
        OBVIOUS
    <2>1. q \in [1 .. c -> Nat]
        BY <1>5, <2>0
    <2>2. q \in Seq(Nat)
        BY <2>1, SeqDef
    <2>3. Len(q) \in Nat /\ 1 .. Len(q) = 1 .. c
        BY <2>1, <2>2, LenProperties
    <2> QED
        BY <2>2, <2>3
<1>7. ToSet(q) \subseteq some
    BY <1>5 DEF ToSet
<1>8. ASSUME NEW y \in some, y \notin ToSet(q) PROVE FALSE
    <2>1. IsFiniteSet(1 .. c) /\ Cardinality(1 .. c) = c
        BY FS_Interval
    <2>2. IsFiniteSet(some \ {y}) /\ Cardinality(some \ {y}) = c - 1
        BY <1>1, <1>2, FS_RemoveElement
    <2>3. q \in [1 .. c -> some \ {y}]
        BY <1>5, <1>8 DEF ToSet
    <2>4. PICK i, j \in 1 .. c : i # j /\ q[i] = q[j]
        BY <2>1, <2>2, <2>3, FS_PigeonHole
    <2>5. q[i] \in Int /\ q[j] \in Int /\ (i < j \/ j < i)
        <3>1. \A z \in some : z \in Int
            OBVIOUS
        <3>2. q[i] \in some /\ q[j] \in some
            BY <1>5
        <3>3. q[i] \in Int /\ q[j] \in Int
            BY <3>1, <3>2
        <3>4. i < j \/ j < i
            BY <2>4
        <3> QED
            BY <3>3, <3>4
    <2> QED
        BY <1>5, <2>4, <2>5
<1> QED
    BY <1>1, <1>2, <1>3, <1>4, <1>6, <1>7, <1>8

LEMMA SortedOne ==
    ASSUME NEW n \in Nat, NEW i \in 1 .. n
    PROVE  Sorted(ToSet(<<i>>)) = <<i>>
<1>1. ToSet(<<i>>) = {i} /\ Cardinality({i}) = 1
    <2>1. DOMAIN <<i>> = {1} /\ <<i>>[1] = i
        OBVIOUS
    <2>2. ToSet(<<i>>) = {i}
        BY <2>1 DEF ToSet
    <2> QED
        BY <2>2, FS_Singleton
<1>2. PICK q : q = Sorted({i})
    OBVIOUS
<1>3. q \in Seq(Nat) /\ Len(q) = 1 /\ q \in [1 .. 1 -> {i}]
    BY <1>1, <1>2, SortedList DEF Lists
<1>4. PICK s : s = <<i>>
    OBVIOUS
<1>5. s \in Seq(Nat) /\ Len(s) = 1 /\ s[1] = i
    BY <1>4
<1>6. \A j \in 1 .. Len(q) : q[j] = s[j]
    BY <1>3, <1>5
<1>7. q = s
    BY <1>3, <1>5, <1>6, SeqEqual
<1> QED
    BY <1>1, <1>2, <1>4, <1>7

FlattensTo(fl, k, q, S) ==
    /\ FlattenSeq(q) = fl[k] /\ fl[1] = q[1]
    /\ \A i \in 1 .. k : i # 1 => fl[i] = fl[i - 1] \o q[i]
    /\ \A i \in 1 .. k : fl[i] \in Seq(S)

LEMMA Joined ==
    ASSUME NEW S, NEW r \in Seq(S), NEW s \in Seq(S)
    PROVE  r \o s \in Seq(S)
    BY ConcatProperties

LEMMA JoinedAppend ==
    ASSUME NEW S, NEW r \in Seq(S), NEW s \in Seq(S), NEW x \in S
    PROVE  r \o Append(s, x) = Append(r \o s, x)
<1>1. <<x>> \in Seq(S)
    OBVIOUS
<1>2. Append(s, x) = s \o <<x>>
    BY AppendIsConcat
<1>3. Append(r \o s, x) = (r \o s) \o <<x>>
    BY Joined, AppendIsConcat
<1>4. (r \o s) \o <<x>> = r \o (s \o <<x>>)
    BY <1>1, ConcatAssociative
<1> QED
    BY <1>2, <1>3, <1>4

LEMMA FlattenFacts ==
    ASSUME NEW S, NEW k \in Nat \ {0}, NEW q \in [1 .. k -> Seq(S)]
    PROVE  \E fl : FlattensTo(fl, k, q, S)
<1> DEFINE fl == CHOOSE f : Flattens(f, k, q)
           Bad == {i \in 1 .. k : fl[i] \notin Seq(S)}
<1>1. Flattens(fl, k, q)
    BY FlattenExists
<1>2. FlattenSeq(q) = fl[k]
    <2>1. Len(q) = k
        <3>1. q \in Seq(Seq(S))
            BY SeqDef
        <3>2. Len(q) \in Nat /\ DOMAIN q = 1 .. Len(q)
            BY <3>1, LenProperties
        <3>3. 1 .. Len(q) = 1 .. k
            BY <3>2
        <3> QED
            BY <3>2, <3>3
    <2> QED
        BY <2>1 DEF FlattenSeq, Flattens
<1> HIDE DEF fl
<1>3. fl[1] = q[1] /\ 1 \in 1 .. k
    BY <1>1 DEF Flattens
<1>4. \A i \in 1 .. k : i # 1 => fl[i] = fl[i - 1] \o q[i]
    BY <1>1 DEF Flattens
<1>5. Bad = {}
    <2> SUFFICES ASSUME Bad # {} PROVE FALSE
        OBVIOUS
    <2>0. Bad \in SUBSET Nat
        OBVIOUS
    <2>1. PICK i \in Bad : \A m \in Bad : i <= m
        BY <2>0, Smallest
    <2>2. i # 1
        BY <1>3, <2>1
    <2>3. i - 1 \in 1 .. k /\ i - 1 \notin Bad
        BY <2>1, <2>2
    <2>4. fl[i - 1] \in Seq(S) /\ q[i] \in Seq(S)
        BY <2>1, <2>3
    <2>5. fl[i] \in Seq(S)
        <3>1. fl[i] = fl[i - 1] \o q[i]
            BY <1>4, <2>1, <2>2
        <3> QED
            BY <2>4, <3>1, Joined
    <2> QED
        BY <2>1, <2>5
<1>6. \A i \in 1 .. k : fl[i] \in Seq(S)
    BY <1>5
<1> QED
    BY <1>2, <1>3, <1>4, <1>6 DEF FlattensTo

\* A record more in the t-th list, and nothing yet in those after it.
LEMMA FlattenGrows ==
    ASSUME NEW S, NEW k \in Nat, NEW q \in [1 .. k -> Seq(S)], NEW r \in [1 .. k -> Seq(S)],
           NEW t \in 1 .. k, NEW x \in S, r[t] = Append(q[t], x),
           \A i \in 1 .. k : i < t => r[i] = q[i],
           \A i \in 1 .. k : i > t => q[i] = << >> /\ r[i] = << >>
    PROVE  FlattenSeq(r) = Append(FlattenSeq(q), x)
<1>0. k \in Nat \ {0}
    OBVIOUS
<1>1. PICK f : FlattensTo(f, k, q, S)
    BY <1>0, FlattenFacts
<1>2. PICK g : FlattensTo(g, k, r, S)
    BY <1>0, FlattenFacts
<1> DEFINE Good(i) == g[i] = IF i < t THEN f[i] ELSE Append(f[i], x)
           Bad == {i \in 1 .. k : ~Good(i)}
<1>3. Good(1)
    <2>1. CASE t = 1
        BY <1>1, <1>2, <2>1 DEF FlattensTo
    <2>2. CASE t # 1
        <3>1. 1 < t /\ 1 \in 1 .. k
            BY <2>2
        <3> QED
            BY <1>1, <1>2, <3>1 DEF FlattensTo
    <2> QED
        BY <2>1, <2>2
<1>4. ASSUME NEW i \in 1 .. k, i # 1, Good(i - 1) PROVE Good(i)
    <2>1. i - 1 \in 1 .. k
        BY <1>4
    <2>2. /\ f[i] = f[i - 1] \o q[i] /\ g[i] = g[i - 1] \o r[i]
          /\ f[i - 1] \in Seq(S) /\ f[i] \in Seq(S)
        BY <1>1, <1>2, <1>4, <2>1 DEF FlattensTo
    <2>3. CASE i < t
        <3>1. i - 1 < t /\ r[i] = q[i]
            BY <2>1, <2>3
        <3>2. g[i - 1] = f[i - 1]
            BY <1>4, <3>1
        <3> QED
            BY <2>2, <2>3, <3>1, <3>2
    <2>4. CASE i = t
        <3>1. g[i - 1] = f[i - 1] /\ i - 1 < t
            BY <1>4, <2>1, <2>4
        <3>2. r[i] = Append(q[i], x) /\ q[i] \in Seq(S)
            BY <2>4
        <3>3. f[i - 1] \o Append(q[i], x) = Append(f[i - 1] \o q[i], x)
            <4>1. PICK u \in Seq(S) : u = f[i - 1]
                BY <2>2
            <4>2. PICK v \in Seq(S) : v = q[i]
                BY <3>2
            <4>3. u \o Append(v, x) = Append(u \o v, x)
                BY JoinedAppend, SMTT(20)
            <4> QED
                BY <4>1, <4>2, <4>3
        <3>4. g[i] = Append(f[i], x)
            BY <2>2, <3>1, <3>2, <3>3
        <3> QED
            BY <2>4, <3>4
    <2>5. CASE i > t
        <3>1. q[i] = << >> /\ r[i] = << >>
            BY <2>5
        <3>2. f[i] = f[i - 1] /\ g[i] = g[i - 1]
            <4>1. g[i - 1] \in Seq(S)
                BY <1>2, <2>1 DEF FlattensTo
            <4> QED
                BY <2>2, <3>1, <4>1, ConcatEmptySeq
        <3>3. ~(i - 1 < t) /\ ~(i < t)
            BY <2>1, <2>5
        <3> QED
            BY <1>4, <3>2, <3>3
    <2> QED
        BY <2>3, <2>4, <2>5
<1>5. Bad = {}
    <2> HIDE DEF Good
    <2> SUFFICES ASSUME Bad # {} PROVE FALSE
        OBVIOUS
    <2>0. Bad \in SUBSET Nat
        OBVIOUS
    <2>1. PICK i \in Bad : \A m \in Bad : i <= m
        BY <2>0, Smallest
    <2>2. i # 1
        BY <1>3, <2>1
    <2>3. i - 1 \in 1 .. k /\ i - 1 \notin Bad
        BY <2>1, <2>2
    <2> QED
        BY <1>4, <2>1, <2>2, <2>3
<1>6. Good(k)
    <2> HIDE DEF Good
    <2>1. k \in 1 .. k
        BY <1>0
    <2> QED
        BY <1>5, <2>1
<1>7. ~(k < t)
    OBVIOUS
<1> QED
    BY <1>1, <1>2, <1>6, <1>7 DEF FlattensTo

LEMMA FlattenNone ==
    ASSUME NEW S, NEW k \in Nat, NEW q \in [1 .. k -> Seq(S)], \A i \in 1 .. k : q[i] = << >>
    PROVE  FlattenSeq(q) = << >>
<1>1. CASE k = 0
    <2>1. q \in Seq(Seq(S))
        BY SeqDef
    <2>2. Len(q) \in Nat /\ DOMAIN q = 1 .. Len(q)
        BY <2>1, LenProperties
    <2>3. Len(q) = 0
        BY <1>1, <2>2
    <2>4. q = << >>
        BY <2>1, <2>3, EmptySeq
    <2> QED
        BY <2>3, <2>4 DEF FlattenSeq
<1>2. CASE k # 0
    <2>0. k \in Nat \ {0}
        BY <1>2
    <2>1. PICK f : FlattensTo(f, k, q, S)
        BY <2>0, FlattenFacts
    <2> DEFINE Bad == {i \in 1 .. k : f[i] # << >>}
    <2>2. Bad = {}
        <3> SUFFICES ASSUME Bad # {} PROVE FALSE
            OBVIOUS
        <3>0. Bad \in SUBSET Nat
            OBVIOUS
        <3>1. PICK i \in Bad : \A m \in Bad : i <= m
            BY <3>0, Smallest
        <3>2. i # 1
            BY <2>1, <3>1 DEF FlattensTo
        <3>3. i - 1 \in 1 .. k /\ i - 1 \notin Bad
            BY <3>1, <3>2
        <3>4. f[i] = f[i - 1] \o q[i] /\ f[i - 1] = << >> /\ q[i] = << >>
            BY <2>1, <3>1, <3>2, <3>3 DEF FlattensTo
        <3>5. << >> \in Seq(S)
            BY EmptySeq
        <3>6. f[i] = << >>
            BY <3>4, <3>5, ConcatEmptySeq
        <3> QED
            BY <3>1, <3>6
    <2>3. k \in 1 .. k
        BY <1>2
    <2> QED
        BY <2>1, <2>2, <2>3 DEF FlattensTo
<1> QED
    BY <1>1, <1>2

-----------------------------------------------------------------------------
(* log_decoder.                                                              *)

Audits == [step : {"none", "list", "open", "frame", "done"}, priv : Keys \cup {NoKey},
           todo : Seq(Nat), at : Nat, got : Seq(Records), due : Seq([shard : Nat, seen : Int]),
           sound : BOOLEAN, fault : BOOLEAN, code : {0, 1}, printed : Seq(Records)]

Due == Len(audit.due)

\* The shard that is being read, or the next one.
Turn == Due - Len(audit.todo) + 1

\* What is left to read is the end of what was listed.
Listed ==
    /\ audit \in Audits
    /\ Len(audit.todo) <= Due
    /\ \A i \in 1 .. Due : /\ audit.due[i].shard \in 1 .. Len(shards)
                           /\ audit.due[i].seen <= shards[audit.due[i].shard].seen
    /\ \A i \in 1 .. Len(audit.todo) : audit.todo[i] = audit.due[Turn - 1 + i].shard

\* What log_decoder has at each of its steps.
Steps ==
    /\ audit.step \in {"none", "list"} =>
          audit.due = << >> /\ audit.todo = << >> /\ audit.got = << >> /\ ~audit.sound
    /\ audit.step # "done" => audit.code = 0 /\ audit.printed = << >>
    /\ audit.code = 1 => audit.printed = << >>
    /\ audit.step = "frame" => audit.todo # << >> /\ audit.at >= 1
    /\ audit.step \in {"list", "open", "frame"} => audit.priv \in Keys
    /\ audit.step = "done" /\ audit.code = 0 =>
          /\ audit.todo = << >> /\ ToSet(audit.printed) \subseteq ToSet(audit.got)
          /\ audit.fault \/ audit.printed = audit.got

\* The i-th shard that was listed has been read as far as cut[i].
CutAt(cut, i) ==
    LET shard == shards[audit.due[i].shard]
    IN /\ cut[i] <= Len(shard.frames)
       /\ cut[i] > 0 => shard.server = audit.priv
       /\ i < Turn => audit.fault \/ audit.due[i].seen <= cut[i]
       /\ i > Turn => cut[i] = 0
       /\ i = Turn => cut[i] = IF audit.step = "frame" THEN audit.at - 1 ELSE 0

CutSound(cut) == (\A i \in 1 .. Due : CutAt(cut, i)) /\ audit.got = FirstRecords(cut)

Progress ==
    audit.step \in {"open", "frame"} \/ (audit.step = "done" /\ audit.code = 0) =>
        \E cut \in [1 .. Due -> 0 .. MaxFrames] : CutSound(cut)

\* A list of finished shards stays finished, and nothing in it makes log_decoder fail
\* but a read that fails or a frame that cannot be read.
SoundList ==
    audit.sound =>
        /\ audit.code = 1 => audit.fault \/ ~Readable
        /\ \A i \in 1 .. Due :
              LET shard == audit.due[i].shard
              IN Finished(shard) /\ audit.due[i].seen = Len(shards[shard].frames)
        /\ \A i \in 1 .. Len(audit.todo) : shards[audit.todo[i]].there

AuditInv == Listed /\ Steps /\ Progress

LEMMA AuditFacts ==
    ASSUME Listed
    PROVE  /\ Due \in Nat /\ DOMAIN audit.due = 1 .. Due
           /\ Len(audit.todo) \in Nat /\ Turn \in 1 .. Due + 1 /\ Turn \in Int
           /\ \A i \in 1 .. Due : audit.due[i].seen \in Int /\ audit.due[i].shard \in Nat
           /\ audit.todo # << >> =>
                 /\ Turn \in 1 .. Due /\ Len(audit.todo) \in Nat \ {0}
                 /\ Head(audit.todo) = audit.due[Turn].shard /\ Head(audit.todo) = audit.todo[1]
                 /\ Tail(audit.todo) \in Seq(Nat) /\ Len(Tail(audit.todo)) = Len(audit.todo) - 1
                 /\ \A i \in 1 .. Len(audit.todo) - 1 : Tail(audit.todo)[i] = audit.todo[i + 1]
           /\ audit.todo = << >> => Turn = Due + 1 /\ Len(audit.todo) = 0
<1>1. PICK due \in Seq([shard : Nat, seen : Int]) : due = audit.due
    BY DEF Listed, Audits
<1>2. PICK todo \in Seq(Nat) : todo = audit.todo
    BY DEF Listed, Audits
<1>3. /\ Len(due) \in Nat /\ DOMAIN due = 1 .. Len(due)
      /\ \A i \in 1 .. Len(due) : due[i] \in [shard : Nat, seen : Int]
    BY LenProperties, ElementOfSeq
<1>4. Len(todo) \in Nat /\ Len(todo) <= Len(due)
    BY <1>1, <1>2, LenProperties DEF Listed, Due
<1>5. Turn = Len(due) - Len(todo) + 1 /\ Due = Len(due)
    BY <1>1, <1>2 DEF Turn, Due
<1>6. Due \in Nat /\ Turn \in 1 .. Due + 1 /\ Turn \in Int
    BY <1>3, <1>4, <1>5
<1>7. ASSUME todo # << >>
      PROVE  /\ Turn \in 1 .. Due /\ Len(todo) \in Nat \ {0}
             /\ Head(todo) = due[Turn].shard /\ Head(todo) = todo[1]
             /\ Tail(todo) \in Seq(Nat) /\ Len(Tail(todo)) = Len(todo) - 1
             /\ \A i \in 1 .. Len(todo) - 1 : Tail(todo)[i] = todo[i + 1]
    <2>1. Len(todo) \in Nat \ {0}
        BY <1>7, EmptySeq
    <2>2. Turn \in 1 .. Due
        BY <1>3, <1>4, <1>5, <2>1
    <2>3. Head(todo) = todo[1]
        BY <1>7
    <2>4. todo[1] = due[Turn - 1 + 1].shard /\ Turn - 1 + 1 = Turn
        BY <1>1, <1>2, <1>6, <2>1 DEF Listed
    <2>5. /\ Tail(todo) \in Seq(Nat) /\ Len(Tail(todo)) = Len(todo) - 1
          /\ \A i \in 1 .. Len(Tail(todo)) : Tail(todo)[i] = todo[i + 1]
        BY <1>7, HeadTailProperties
    <2> QED
        BY <2>1, <2>2, <2>3, <2>4, <2>5
<1>8. todo = << >> => Len(todo) = 0
    OBVIOUS
<1>9. audit.todo # << >> =>
         /\ Turn \in 1 .. Due /\ Len(audit.todo) \in Nat \ {0}
         /\ Head(audit.todo) = audit.due[Turn].shard /\ Head(audit.todo) = audit.todo[1]
         /\ Tail(audit.todo) \in Seq(Nat) /\ Len(Tail(audit.todo)) = Len(audit.todo) - 1
         /\ \A i \in 1 .. Len(audit.todo) - 1 : Tail(audit.todo)[i] = audit.todo[i + 1]
    BY <1>1, <1>2, <1>7
<1>10. audit.todo = << >> => Turn = Due + 1 /\ Len(audit.todo) = 0
    BY <1>2, <1>3, <1>5, <1>8
<1>11. \A i \in 1 .. Due : audit.due[i].seen \in Int /\ audit.due[i].shard \in Nat
    BY <1>1, <1>3, <1>5
<1>12. DOMAIN audit.due = 1 .. Due /\ Len(audit.todo) \in Nat
    BY <1>1, <1>2, <1>3, <1>4, <1>5
<1> QED
    BY <1>6, <1>9, <1>10, <1>11, <1>12

LEMMA AuditInit == Init => AuditInv /\ SoundList
<1> SUFFICES ASSUME Init PROVE AuditInv /\ SoundList
    OBVIOUS
<1>1. PICK e : e = << >>
    OBVIOUS
<1>2. Len(e) = 0 /\ e \in Seq(Nat) /\ e \in Seq(Records) /\ e \in Seq([shard : Nat, seen : Int])
    BY <1>1, EmptySeq
<1>3. audit = [step |-> "none", priv |-> NoKey, todo |-> e, at |-> 0, got |-> e,
               due |-> e, sound |-> FALSE, fault |-> FALSE, code |-> 0, printed |-> e]
    BY <1>1 DEF Init, NoAudit
<1>4. audit \in Audits
    BY <1>2, <1>3 DEF Audits
<1>5. Due = 0 /\ Len(audit.todo) = 0
    BY <1>2, <1>3 DEF Due
<1>6. Listed
    BY <1>4, <1>5 DEF Listed
<1> QED
    BY <1>1, <1>3, <1>6 DEF AuditInv, Steps, Progress, SoundList

\* The records of the first cut[i] frames of the i-th shard that is due, shard by shard.
Read(sh, due, cut) ==
    [i \in DOMAIN due |-> [j \in 1 .. cut[i] |-> sh[due[i].shard].frames[j].rec]]

LEMMA FirstRecordsAre ==
    /\ \A cut : FirstRecords(cut) = FlattenSeq(Read(shards, audit.due, cut))
    /\ \A cut : FirstRecords(cut)' = FlattenSeq(Read(shards', audit'.due, cut))
    BY DEF FirstRecords, Read

LEMMA ReadType ==
    ASSUME ShardsInv, Listed, NEW cut \in [1 .. Due -> Nat],
           \A i \in 1 .. Due : cut[i] <= Len(shards[audit.due[i].shard].frames)
    PROVE  /\ Read(shards, audit.due, cut) \in [1 .. Due -> Seq(Records)]
           /\ \A i \in 1 .. Due :
                 LET one == Read(shards, audit.due, cut)[i]
                 IN /\ Len(one) = cut[i]
                    /\ \A j \in 1 .. cut[i] : one[j] = shards[audit.due[i].shard].frames[j].rec
<1>1. ASSUME NEW i \in 1 .. Due
      PROVE  LET one == [j \in 1 .. cut[i] |-> shards[audit.due[i].shard].frames[j].rec]
             IN one \in Seq(Records) /\ Len(one) = cut[i]
    <2>1. PICK s : s = shards[audit.due[i].shard]
        OBVIOUS
    <2>2. s \in Shards /\ Len(s.frames) \in Nat
        BY <2>1, ShardFacts DEF Listed
    <2>3. PICK n \in Nat : n = cut[i] /\ n <= Len(s.frames)
        BY <2>1
    <2>4. ASSUME NEW j \in 1 .. n PROVE s.frames[j].rec \in Records
        <3>1. s.frames \in Seq(Frames) /\ j \in 1 .. Len(s.frames)
            BY <2>2, <2>3 DEF Shards
        <3>2. s.frames[j] \in Frames
            BY <3>1, ElementOfSeq
        <3> QED
            BY <3>2 DEF Frames
    <2>5. PICK one : one = [j \in 1 .. n |-> s.frames[j].rec]
        OBVIOUS
    <2>6. one \in [1 .. n -> Records]
        BY <2>4, <2>5
    <2>7. one \in Seq(Records)
        BY <2>6, SeqDef
    <2>8. Len(one) \in Nat /\ 1 .. Len(one) = 1 .. n
        BY <2>6, <2>7, LenProperties
    <2>9. Len(one) = n
        BY <2>8
    <2> QED
        BY <2>1, <2>3, <2>5, <2>7, <2>9
<1>2. DOMAIN audit.due = 1 .. Due
    BY AuditFacts
<1> QED
    BY <1>1, <1>2 DEF Read

\* The cut is about records that stay where they are.
LEMMA ReadKept ==
    ASSUME ShardsInv, Listed, Grow, audit'.due = audit.due, NEW cut \in [1 .. Due -> Nat],
           \A i \in 1 .. Due : cut[i] <= Len(shards[audit.due[i].shard].frames)
    PROVE  FirstRecords(cut)' = FirstRecords(cut)
<1>1. ASSUME NEW i \in 1 .. Due, NEW j \in 1 .. cut[i]
      PROVE  shards'[audit.due[i].shard].frames[j].rec = shards[audit.due[i].shard].frames[j].rec
    <2>1. PICK g \in 1 .. Len(shards) : g = audit.due[i].shard
        BY DEF Listed
    <2>2. Len(shards[g].frames) \in Nat /\ Longer(shards[g], shards'[g])
        BY ShardFacts DEF Grow
    <2>3. j \in 1 .. Len(shards[g].frames)
        <3>1. cut[i] \in Nat /\ cut[i] <= Len(shards[g].frames)
            BY <2>1
        <3> QED
            BY <2>2, <3>1
    <2> QED
        BY <2>1, <2>2, <2>3 DEF Longer
<1>2. DOMAIN audit.due = 1 .. Due
    BY AuditFacts
<1>3. Read(shards', audit.due, cut) = Read(shards, audit.due, cut)
    BY <1>1, <1>2 DEF Read
<1> QED
    BY <1>3, FirstRecordsAre

LEMMA ShardFactsNext ==
    ASSUME ShardsInv'
    PROVE  /\ Len(shards') \in Nat
           /\ \A i \in 1 .. Len(shards') : /\ shards'[i] \in Shards
                                           /\ Len(shards'[i].frames) \in Nat
                                           /\ shards'[i].seen \in Int
<1>1. Len(shards') \in Nat /\ \A i \in 1 .. Len(shards') : shards'[i] \in Shards
    BY LenProperties, ElementOfSeq DEF ShardsInv
<1>2. ASSUME NEW i \in 1 .. Len(shards')
      PROVE  Len(shards'[i].frames) \in Nat /\ shards'[i].seen \in Int
    BY <1>1, LenProperties DEF Shards
<1> QED
    BY <1>1, <1>2

\* A step that is not log_decoder's: what it has read is still there.
LEMMA OtherStep ==
    ASSUME ShardsInv, ShardsInv', AuditInv, Grow,
           NEW sound \in BOOLEAN, sound => audit.sound,
           audit' = [audit EXCEPT !.sound = sound],
           sound => \A i \in 1 .. Len(audit.todo) :
                        shards'[audit.todo[i]].there = shards[audit.todo[i]].there
    PROVE  AuditInv' /\ (SoundList => SoundList')
<1>1. /\ audit' \in Audits /\ audit'.sound = sound
      /\ audit'.step = audit.step /\ audit'.priv = audit.priv /\ audit'.todo = audit.todo
      /\ audit'.fault = audit.fault
      /\ audit'.at = audit.at /\ audit'.got = audit.got /\ audit'.due = audit.due
      /\ audit'.code = audit.code /\ audit'.printed = audit.printed
    BY DEF AuditInv, Listed, Audits
<1>2. Due' = Due /\ Turn' = Turn
    BY <1>1 DEF Due, Turn
<1>3. ASSUME NEW i \in 1 .. Due
      PROVE  LET g == audit.due[i].shard
             IN /\ g \in 1 .. Len(shards) /\ g \in 1 .. Len(shards')
                /\ Longer(shards[g], shards'[g])
                /\ audit.due[i].seen \in Int /\ shards[g].seen \in Int /\ shards'[g].seen \in Int
                /\ Len(shards[g].frames) \in Nat /\ Len(shards'[g].frames) \in Nat
                /\ Finished(g) => shards'[g].frames = shards[g].frames /\ Finished(g)'
    <2>1. PICK g : g = audit.due[i].shard
        OBVIOUS
    <2>2. g \in 1 .. Len(shards) /\ audit.due[i].seen \in Int
        BY <2>1, AuditFacts DEF AuditInv, Listed
    <2>3. g \in 1 .. Len(shards')
        BY <2>2, ShardFacts, ShardFactsNext DEF Grow
    <2>4. shards[g].seen \in Int
        BY <2>2, ShardFacts DEF Shards
    <2> QED
        BY <2>1, <2>2, <2>3, <2>4, ShardFacts, ShardFactsNext, SMTT(20) DEF Grow
<1>4. Listed'
    <2>1. \A i \in 1 .. Due : /\ audit.due[i].shard \in 1 .. Len(shards')
                              /\ audit.due[i].seen <= shards'[audit.due[i].shard].seen
        BY <1>3, SMTT(20) DEF AuditInv, Listed, Longer
    <2> QED
        BY <1>1, <1>2, <2>1 DEF AuditInv, Listed
<1>5. Steps'
    BY <1>1 DEF AuditInv, Steps
<1>6. Progress'
    <2> SUFFICES ASSUME audit.step \in {"open", "frame"} \/ (audit.step = "done" /\ audit.code = 0)
                 PROVE  \E cut \in [1 .. Due -> 0 .. MaxFrames] : CutSound(cut)'
        BY <1>1, <1>2 DEF Progress
    <2>1. PICK cut \in [1 .. Due -> 0 .. MaxFrames] : CutSound(cut)
        BY DEF AuditInv, Progress
    <2>2. ASSUME NEW i \in 1 .. Due PROVE CutAt(cut, i)'
        <3>1. CutAt(cut, i) /\ cut[i] \in Nat
            BY <2>1, BoundsAssumption DEF CutSound
        <3> QED
            <4>1. PICK g : g = audit.due[i].shard
                OBVIOUS
            <4>2. /\ cut[i] <= Len(shards[g].frames) /\ Len(shards[g].frames) \in Nat
                  /\ Len(shards'[g].frames) \in Nat /\ Longer(shards[g], shards'[g])
                BY <1>3, <3>1, <4>1 DEF CutAt
            <4>3. cut[i] <= Len(shards'[g].frames) /\ shards'[g].server = shards[g].server
                BY <3>1, <4>2 DEF Longer
            <4> QED
                BY <1>1, <1>2, <3>1, <4>1, <4>3 DEF CutAt
    <2>3. FirstRecords(cut)' = FirstRecords(cut)
        <3>1. cut \in [1 .. Due -> Nat]
            BY <2>1, BoundsAssumption
        <3>2. \A i \in 1 .. Due : cut[i] <= Len(shards[audit.due[i].shard].frames)
            BY <2>1 DEF CutSound, CutAt
        <3> QED
            BY <1>1, <3>1, <3>2, ReadKept DEF AuditInv
    <2>4. CutSound(cut)'
        BY <1>1, <1>2, <2>1, <2>2, <2>3 DEF CutSound
    <2> QED
        BY <2>4
<1>7. SoundList => SoundList'
    <2> SUFFICES ASSUME SoundList, sound
                 PROVE  /\ audit.code = 1 => audit.fault \/ ~Readable'
                        /\ \A i \in 1 .. Due :
                              LET shard == audit.due[i].shard
                              IN Finished(shard)' /\ audit.due[i].seen = Len(shards'[shard].frames)
                        /\ \A i \in 1 .. Len(audit.todo) : shards'[audit.todo[i]].there
        BY <1>1, <1>2 DEF SoundList, Finished
    <2>1. \A i \in 1 .. Due :
              LET shard == audit.due[i].shard
              IN /\ Finished(shard)' /\ audit.due[i].seen = Len(shards'[shard].frames)
                 /\ shards'[shard].frames = shards[shard].frames
                 /\ shards'[shard].eph = shards[shard].eph
        BY <1>3 DEF SoundList, Longer
    <2>2. Readable' => Readable
        <3> SUFFICES ASSUME Readable', NEW i \in DOMAIN audit.due,
                            NEW f \in ToSet(shards[audit.due[i].shard].frames)
                     PROVE  /\ Decrypts(audit.priv, shards[audit.due[i].shard], f)
                            /\ f.rec \in Text
            BY DEF Readable
        <3>1. PICK g : g = audit.due[i].shard
            OBVIOUS
        <3>2. shards'[g].frames = shards[g].frames /\ shards'[g].eph = shards[g].eph
            BY <2>1, <3>1, AuditFacts DEF AuditInv
        <3>3. i \in DOMAIN audit'.due /\ audit'.due[i].shard = g
            BY <1>1, <3>1
        <3>4. f \in ToSet(shards'[g].frames)
            BY <3>1, <3>2
        <3>5. Decrypts(audit'.priv, shards'[g], f) /\ f.rec \in Text
            BY <3>3, <3>4 DEF Readable
        <3> QED
            BY <1>1, <3>1, <3>2, <3>5 DEF Decrypts, DeriveAesKey
    <2> QED
        BY <2>1, <2>2 DEF SoundList
<1> QED
    BY <1>4, <1>5, <1>6, <1>7 DEF AuditInv

LEMMA DecoderCallSound ==
    ASSUME DecoderCall
    PROVE  AuditInv' /\ SoundList'
<1>1. PICK e : e = << >>
    OBVIOUS
<1>2. Len(e) = 0 /\ e \in Seq(Nat) /\ e \in Seq(Records) /\ e \in Seq([shard : Nat, seen : Int])
    BY <1>1, EmptySeq
<1>3. PICK k \in Keys \cup {NoKey} :
          \/ k \in Keys /\ audit' = [NoAudit EXCEPT !.priv = k, !.step = "list"]
          \/ audit' = [NoAudit EXCEPT !.priv = k, !.step = "done", !.code = 1]
    BY DEF DecoderCall, ReadPrivKey
<1>4. NoAudit = [step |-> "none", priv |-> NoKey, todo |-> e, at |-> 0, got |-> e,
                 due |-> e, sound |-> FALSE, fault |-> FALSE, code |-> 0, printed |-> e]
    BY <1>1 DEF NoAudit
<1>5. /\ audit' \in Audits /\ ~audit'.sound
      /\ audit'.due = e /\ audit'.todo = e /\ audit'.got = e /\ audit'.printed = e
      /\ \/ audit'.step = "list" /\ audit'.code = 0 /\ audit'.priv \in Keys
         \/ audit'.step = "done" /\ audit'.code = 1
    <2> DEFINE A(step, code) == [step |-> step, priv |-> k, todo |-> e, at |-> 0, got |-> e,
                                 due |-> e, sound |-> FALSE, fault |-> FALSE, code |-> code, printed |-> e]
    <2>1. (k \in Keys /\ audit' = A("list", 0)) \/ audit' = A("done", 1)
        <3>1. CASE k \in Keys /\ audit' = [NoAudit EXCEPT !.priv = k, !.step = "list"]
            BY <1>4, <3>1
        <3>2. CASE audit' = [NoAudit EXCEPT !.priv = k, !.step = "done", !.code = 1]
            BY <1>4, <3>2
        <3> QED
            BY <1>3, <3>1, <3>2
    <2>2. A("list", 0) \in Audits /\ A("done", 1) \in Audits
        BY <1>2 DEF Audits
    <2>3. CASE k \in Keys /\ audit' = A("list", 0)
        <3>1. audit' \in Audits
            BY <2>2, <2>3
        <3>2. /\ audit'.due = e /\ audit'.todo = e /\ audit'.got = e /\ audit'.printed = e
              /\ audit'.sound = FALSE /\ audit'.step = "list" /\ audit'.code = 0
              /\ audit'.priv \in Keys
            BY <2>3
        <3> QED
            BY <3>1, <3>2
    <2>4. CASE audit' = A("done", 1)
        <3>1. audit' \in Audits
            BY <2>2, <2>4
        <3>2. /\ audit'.due = e /\ audit'.todo = e /\ audit'.got = e /\ audit'.printed = e
              /\ audit'.sound = FALSE /\ audit'.step = "done" /\ audit'.code = 1
            BY <2>4
        <3> QED
            BY <3>1, <3>2
    <2> QED
        BY <2>1, <2>3, <2>4
<1>6. Due' = 0 /\ Len(audit'.todo) = 0
    BY <1>2, <1>5 DEF Due
<1>7. Listed'
    BY <1>5, <1>6 DEF Listed
<1> QED
    BY <1>1, <1>5, <1>7 DEF AuditInv, Steps, Progress, SoundList

\* When everything that was cut is nothing, nothing has been read.
LEMMA NothingRead ==
    ASSUME NEW sh, NEW due, NEW n \in Nat, DOMAIN due = 1 .. n,
           NEW cut \in [1 .. n -> {0}]
    PROVE  FlattenSeq(Read(sh, due, cut)) = << >>
<1>1. ASSUME NEW i \in 1 .. n
      PROVE  [j \in 1 .. cut[i] |-> sh[due[i].shard].frames[j].rec] = << >>
    <2>1. PICK one : one = [j \in 1 .. cut[i] |-> sh[due[i].shard].frames[j].rec]
        OBVIOUS
    <2>2. cut[i] = 0 /\ \A j \in 1 .. 0 : FALSE
        OBVIOUS
    <2>3. one \in [1 .. 0 -> Records]
        BY <2>1, <2>2
    <2>4. one \in Seq(Records) /\ Len(one) \in Nat /\ 1 .. Len(one) = 1 .. 0
        BY <2>3, SeqDef, LenProperties
    <2>5. Len(one) = 0
        <3>1. Len(one) # 0 => 1 \in 1 .. Len(one)
            BY <2>4
        <3> QED
            BY <2>2, <2>4, <3>1
    <2> QED
        BY <2>1, <2>4, <2>5, EmptySeq
<1>2. << >> \in Seq(Records)
    BY EmptySeq
<1>3. PICK q : q = Read(sh, due, cut)
    OBVIOUS
<1>4. q \in [1 .. n -> Seq(Records)] /\ \A i \in 1 .. n : q[i] = << >>
    BY <1>1, <1>2, <1>3 DEF Read
<1> QED
    BY <1>3, <1>4, FlattenNone

\* What ListShards may list: the directory by name, or one file.
LEMMA ListFacts ==
    ASSUME ShardsInv, NEW list \in {ListOf} \cup {<<i>> : i \in DOMAIN shards}
    PROVE  /\ list \in Seq(Nat) /\ Len(list) \in Nat /\ DOMAIN list = 1 .. Len(list)
           /\ ToSet(list) \subseteq 1 .. Len(shards)
           /\ \A i \in 1 .. Len(list) : list[i] \in ToSet(list)
           /\ Sorted(ToSet(list)) = list
<1>1. DOMAIN shards = 1 .. Len(shards) /\ Len(shards) \in Nat
    BY LenProperties DEF ShardsInv
<1>2. CASE list = ListOf
    <2>1. There \in SUBSET (1 .. Len(shards))
        BY <1>1 DEF There
    <2>2. /\ list \in Seq(Nat) /\ ToSet(list) = There
        BY <1>1, <1>2, <2>1, SortedList DEF ListOf
    <2>3. Len(list) \in Nat /\ DOMAIN list = 1 .. Len(list)
        BY <2>2, LenProperties
    <2> QED
        BY <1>2, <2>1, <2>2, <2>3 DEF ListOf, ToSet
<1>3. CASE list # ListOf
    <2>1. PICK i \in 1 .. Len(shards) : list = <<i>>
        BY <1>1, <1>3
    <2>2. list \in Seq(Nat) /\ Len(list) = 1 /\ list[1] = i /\ DOMAIN list = 1 .. 1
        BY <2>1
    <2>3. ToSet(list) = {i}
        BY <2>2 DEF ToSet
    <2>4. Sorted(ToSet(list)) = list
        BY <1>1, <2>1, SortedOne
    <2> QED
        BY <2>2, <2>3, <2>4
<1> QED
    BY <1>2, <1>3

LEMMA ListShardsSound ==
    ASSUME ShardsInv, AuditInv, ListShards
    PROVE  AuditInv' /\ SoundList'
<1>1. /\ audit \in Audits /\ audit.step = "list" /\ audit.code = 0 /\ audit.printed = << >>
      /\ audit.got = << >> /\ audit.priv \in Keys /\ UNCHANGED <<shards, evictor>>
    BY DEF ListShards, AuditInv, Listed, Steps
<1>2. PICK list \in {ListOf} \cup {<<i>> : i \in DOMAIN shards} :
          audit' = [audit EXCEPT !.step = "open", !.todo = list,
                       !.due = [i \in DOMAIN list |->
                                   LET shard == Sorted(ToSet(list))[i]
                                   IN [shard |-> shard, seen |-> shards[shard].seen]],
                       !.sound = \A i \in ToSet(list) : Intact(i, audit.priv)]
    BY DEF ListShards
<1>3. PICK n \in Nat : n = Len(list)
    BY ListFacts
<1>4. /\ list \in Seq(Nat) /\ DOMAIN list = 1 .. n
      /\ \A i \in 1 .. n : list[i] \in ToSet(list) /\ list[i] \in 1 .. Len(shards)
      /\ Sorted(ToSet(list)) = list
    BY <1>3, ListFacts
<1>5. PICK d : d = [i \in 1 .. n |-> [shard |-> list[i], seen |-> shards[list[i]].seen]]
    OBVIOUS
<1>6. PICK sound : sound = \A i \in ToSet(list) : Intact(i, audit.priv)
    OBVIOUS
<1>7. audit' = [audit EXCEPT !.step = "open", !.todo = list, !.due = d, !.sound = sound]
    BY <1>2, <1>4, <1>5, <1>6
<1>8. /\ d \in Seq([shard : Nat, seen : Int]) /\ Len(d) = n
      /\ \A i \in 1 .. n : d[i].shard = list[i] /\ d[i].seen = shards[list[i]].seen
    <2>1. ASSUME NEW i \in 1 .. n
          PROVE  [shard |-> list[i], seen |-> shards[list[i]].seen] \in [shard : Nat, seen : Int]
        <3>1. list[i] \in Nat /\ shards[list[i]] \in Shards
            BY <1>4, ShardFacts
        <3> QED
            BY <3>1 DEF Shards
    <2>2. d \in [1 .. n -> [shard : Nat, seen : Int]]
        BY <1>5, <2>1
    <2>3. d \in Seq([shard : Nat, seen : Int])
        BY <1>3, <2>2, ListIsSeq
    <2>4. Len(d) \in Nat /\ 1 .. Len(d) = 1 .. n
        BY <2>2, <2>3, LenProperties
    <2>5. Len(d) = n
        BY <2>4
    <2> QED
        BY <1>5, <2>3, <2>5
<1>9. sound \in BOOLEAN
    BY <1>6
<1>10. /\ audit' \in Audits /\ audit'.sound = sound /\ audit'.step = "open"
       /\ audit'.priv = audit.priv /\ audit'.todo = list /\ audit'.got = << >> /\ audit'.due = d
       /\ audit'.code = 0 /\ audit'.printed = << >>
    BY <1>1, <1>4, <1>7, <1>8, <1>9 DEF Audits
<1>11. Due' = n /\ Len(audit'.todo) = n /\ Turn' = 1 /\ DOMAIN audit'.due = 1 .. n
    <2>1. DOMAIN d = 1 .. n
        BY <1>5
    <2> QED
        BY <1>3, <1>8, <1>10, <2>1 DEF Due, Turn
<1>12. Listed'
    <2>1. \A i \in 1 .. n : /\ d[i].shard \in 1 .. Len(shards)
                            /\ d[i].seen <= shards[d[i].shard].seen
        <3>1. \A i \in 1 .. n : shards[list[i]].seen \in Int
            BY <1>4, ShardFacts DEF Shards
        <3> QED
            BY <1>4, <1>8, <3>1
    <2>2. \A i \in 1 .. n : list[i] = d[1 - 1 + i].shard
        BY <1>8
    <2> QED
        BY <1>1, <1>10, <1>11, <2>1, <2>2 DEF Listed
<1>13. Steps'
    BY <1>1, <1>10 DEF Steps
<1>14. Progress'
    <2>1. PICK cut : cut = [i \in 1 .. n |-> 0]
        OBVIOUS
    <2>2. cut \in [1 .. n -> {0}] /\ cut \in [1 .. n -> 0 .. MaxFrames]
        BY <2>1, BoundsAssumption
    <2>3. FlattenSeq(Read(shards', audit'.due, cut)) = << >>
        BY <1>11, <2>2, NothingRead
    <2>4. audit'.got = FirstRecords(cut)'
        BY <1>10, <2>3, FirstRecordsAre
    <2>5. ASSUME NEW i \in 1 .. n PROVE CutAt(cut, i)'
        <3>1. cut[i] = 0 /\ Len(shards[list[i]].frames) \in Nat /\ ~(i < 1)
            BY <1>4, <2>1, ShardFacts
        <3>2. cut[i] <= Len(shards'[audit'.due[i].shard].frames)
            BY <1>1, <1>8, <1>10, <3>1
        <3> QED
            BY <1>10, <1>11, <3>1, <3>2 DEF CutAt
    <2>6. CutSound(cut)'
        BY <1>11, <2>4, <2>5 DEF CutSound
    <2> QED
        BY <1>11, <2>2, <2>6 DEF Progress
<1>15. SoundList'
    <2> SUFFICES ASSUME sound
                 PROVE  \A i \in 1 .. n :
                           /\ Finished(list[i])'
                           /\ shards[list[i]].seen = Len(shards[list[i]].frames)
                           /\ shards[list[i]].there
        BY <1>1, <1>8, <1>10, <1>11 DEF SoundList
    <2>1. \A i \in 1 .. n : Intact(list[i], audit.priv)
        BY <1>4, <1>6
    <2> QED
        BY <1>1, <2>1 DEF Intact, Finished
<1> QED
    BY <1>12, <1>13, <1>14, <1>15 DEF AuditInv

\* log_decoder fails on a frame that cannot be read, or because the system fails it.
LEMMA DecoderFailsSound ==
    ASSUME ShardsInv, AuditInv, UNCHANGED <<shards, evictor>>, audit.step # "done",
           DecoderThrows \/ ReadFails
    PROVE  AuditInv' /\ (SoundList /\ (audit.sound => ReadFails \/ ~Readable) => SoundList')
<1>1. /\ audit' \in Audits /\ audit'.sound = audit.sound /\ audit'.priv = audit.priv
      /\ audit'.step = "done" /\ audit'.code = 1 /\ audit'.printed = audit.printed
      /\ audit'.due = audit.due /\ audit'.todo = audit.todo
      /\ ReadFails => audit'.fault
    BY DEF DecoderThrows, ReadFails, AuditInv, Listed, Audits
<1>2. Due' = Due /\ Turn' = Turn
    BY <1>1 DEF Due, Turn
<1>3. Listed'
    BY <1>1, <1>2 DEF AuditInv, Listed
<1>4. Steps' /\ Progress'
    BY <1>1 DEF AuditInv, Steps, Progress
<1>5. ASSUME SoundList, audit.sound => ReadFails \/ ~Readable
      PROVE  SoundList'
    <2>1. Readable' = Readable
        BY <1>1 DEF Readable, Decrypts, DeriveAesKey
    <2> QED
        BY <1>1, <1>2, <1>5, <2>1 DEF SoundList, Finished
<1> QED
    BY <1>3, <1>4, <1>5 DEF AuditInv

LEMMA OpenShardSound ==
    ASSUME ShardsInv, AuditInv, OpenShard
    PROVE  AuditInv' /\ (SoundList => SoundList')
<1>1. /\ audit \in Audits /\ audit.step = "open" /\ audit.todo # << >>
      /\ UNCHANGED <<shards, evictor>>
    BY DEF OpenShard, AuditInv, Listed
<1>2. PICK g : g = Head(audit.todo)
    OBVIOUS
<1>3. /\ Turn \in 1 .. Due /\ g = audit.due[Turn].shard /\ g = audit.todo[1]
      /\ Len(audit.todo) \in Nat \ {0} /\ g \in 1 .. Len(shards)
    BY <1>1, <1>2, AuditFacts DEF AuditInv, Listed
<1>4. CASE audit' = [audit EXCEPT !.step = "frame", !.at = 1]
    <2>2. /\ audit' \in Audits /\ audit'.sound = audit.sound /\ audit'.fault = audit.fault
          /\ audit'.step = "frame" /\ audit'.at = 1 /\ audit'.priv = audit.priv
          /\ audit'.due = audit.due /\ audit'.todo = audit.todo /\ audit'.got = audit.got
          /\ audit'.code = audit.code /\ audit'.printed = audit.printed
        BY <1>1, <1>4 DEF Audits
    <2>3. Due' = Due /\ Turn' = Turn
        BY <2>2 DEF Due, Turn
    <2>4. Listed'
        BY <1>1, <2>2, <2>3 DEF AuditInv, Listed
    <2>5. Steps'
        BY <1>1, <2>2 DEF AuditInv, Steps
    <2>6. Progress'
        <3>1. PICK cut \in [1 .. Due -> 0 .. MaxFrames] : CutSound(cut)
            BY <1>1 DEF AuditInv, Progress
        <3>2. \A i \in 1 .. Due : CutAt(cut, i)'
            BY <1>1, <2>2, <2>3, <3>1 DEF CutSound, CutAt
        <3>3. Read(shards', audit'.due, cut) = Read(shards, audit.due, cut)
            BY <1>1, <2>2
        <3>4. audit'.got = FirstRecords(cut)'
            BY <2>2, <3>1, <3>3, FirstRecordsAre DEF CutSound
        <3>5. CutSound(cut)'
            BY <2>3, <3>2, <3>4 DEF CutSound
        <3> QED
            BY <2>3, <3>5 DEF Progress
    <2>7. SoundList => SoundList'
        <3>1. audit'.code = 0
            BY <1>1, <2>2 DEF AuditInv, Steps
        <3> QED
            BY <1>1, <2>2, <2>3, <3>1 DEF SoundList, Finished
    <2> QED
        BY <2>4, <2>5, <2>6, <2>7 DEF AuditInv
<1>5. CASE ReadFails
    BY <1>1, <1>5, DecoderFailsSound
<1>6. CASE DecoderThrows /\ ~(shards[g].there /\ shards[g].seen >= 0)
    <2>1. SoundList => ~audit.sound
        <3> SUFFICES ASSUME SoundList, audit.sound PROVE FALSE
            OBVIOUS
        <3>1. Len(shards[g].frames) \in Nat /\ 1 \in 1 .. Len(audit.todo)
            BY <1>3, ShardFacts
        <3>2. shards[g].there
            BY <1>3, <3>1 DEF SoundList
        <3>3. Finished(g)
            BY <1>3 DEF SoundList
        <3>4. shards[g].seen = Len(shards[g].frames)
            BY <3>3 DEF Finished
        <3> QED
            BY <1>6, <3>1, <3>2, <3>4
    <2> QED
        BY <1>1, <1>6, <2>1, DecoderFailsSound
<1> QED
    BY <1>2, <1>4, <1>5, <1>6 DEF OpenShard

\* What is left of a list when some of it is not printed.
LEMMA PartsOf ==
    ASSUME NEW got \in Seq(Records), NEW some \in {got} \cup Parts(got)
    PROVE  some \in Seq(Records) /\ ToSet(some) \subseteq ToSet(got)
<1>1. CASE some = got
    BY <1>1
<1>2. CASE some \in Parts(got)
    <2>1. PICK places \in SUBSET DOMAIN got :
              some = [i \in 1 .. Cardinality(places) |-> got[Sorted(places)[i]]]
        BY <1>2 DEF Parts
    <2>2. Len(got) \in Nat /\ DOMAIN got = 1 .. Len(got)
        BY LenProperties
    <2>3. Lists(Sorted(places), places) /\ Cardinality(places) \in Nat
        BY <2>2, SortedList
    <2>4. PICK n \in Nat : n = Cardinality(places)
        BY <2>3
    <2>5. PICK q \in [1 .. n -> places] : q = Sorted(places)
        BY <2>3, <2>4 DEF Lists
    <2>6. some = [i \in 1 .. n |-> got[q[i]]]
        BY <2>1, <2>4, <2>5
    <2>7. \A j \in places : got[j] \in Records /\ got[j] \in ToSet(got)
        BY <2>2, ElementOfSeq DEF ToSet
    <2>8. some \in [1 .. n -> Records]
        BY <2>6, <2>7
    <2>9. some \in Seq(Records)
        BY <2>8, ListIsSeq
    <2>10. ToSet(some) \subseteq ToSet(got)
        BY <2>6, <2>7 DEF ToSet
    <2> QED
        BY <2>9, <2>10
<1> QED
    BY <1>1, <1>2

LEMMA PrintRecordsSound ==
    ASSUME ShardsInv, AuditInv, PrintRecords
    PROVE  AuditInv' /\ (SoundList => SoundList')
<1>1. /\ audit \in Audits /\ audit.step = "open" /\ audit.todo = << >> /\ audit.code = 0
      /\ UNCHANGED <<shards, evictor>>
    BY DEF PrintRecords, AuditInv, Listed, Steps
<1>2. /\ audit' \in Audits /\ audit'.sound = audit.sound
      /\ audit'.step = "done" /\ audit'.at = audit.at /\ audit'.priv = audit.priv
      /\ audit'.due = audit.due /\ audit'.todo = audit.todo /\ audit'.got = audit.got
      /\ audit'.code = 0 /\ ToSet(audit'.printed) \subseteq ToSet(audit.got)
      /\ audit.fault => audit'.fault
      /\ audit'.fault \/ audit'.printed = audit.got
    <2>1. PICK got \in Seq(Records) : got = audit.got
        BY <1>1 DEF Audits
    <2>2. PICK printed \in {got} \cup Parts(got) :
              audit' = [audit EXCEPT !.step = "done", !.fault = @ \/ printed # got, !.printed = printed]
        BY <2>1 DEF PrintRecords
    <2>3. printed \in Seq(Records) /\ ToSet(printed) \subseteq ToSet(got)
        BY <2>2, PartsOf
    <2>4. PICK fault \in BOOLEAN : fault = (audit.fault \/ printed # got)
        OBVIOUS
    <2>5. audit' = [audit EXCEPT !.step = "done", !.fault = fault, !.printed = printed]
        BY <2>2, <2>4
    <2> QED
        BY <1>1, <2>1, <2>3, <2>4, <2>5 DEF Audits
<1>3. Due' = Due /\ Turn' = Turn
    BY <1>2 DEF Due, Turn
<1>4. Listed'
    BY <1>1, <1>2, <1>3 DEF AuditInv, Listed
<1>5. Steps'
    BY <1>1, <1>2 DEF Steps
<1>6. Progress'
    <2>1. PICK cut \in [1 .. Due -> 0 .. MaxFrames] : CutSound(cut)
        BY <1>1 DEF AuditInv, Progress
    <2>2. \A i \in 1 .. Due : CutAt(cut, i)'
        BY <1>1, <1>2, <1>3, <2>1 DEF CutSound, CutAt
    <2>3. Read(shards', audit'.due, cut) = Read(shards, audit.due, cut)
        BY <1>1, <1>2
    <2>4. audit'.got = FirstRecords(cut)'
        BY <1>2, <2>1, <2>3, FirstRecordsAre DEF CutSound
    <2>5. CutSound(cut)'
        BY <1>3, <2>2, <2>4 DEF CutSound
    <2> QED
        BY <1>3, <2>5 DEF Progress
<1>7. SoundList => SoundList'
    BY <1>1, <1>2, <1>3 DEF SoundList, Finished
<1> QED
    BY <1>4, <1>5, <1>6, <1>7 DEF AuditInv

\* One more frame has been read: it opened, so it was sealed for this auditor.
FrameOpens(g) ==
    /\ g = audit.due[Turn].shard /\ audit.at <= shards[g].seen
    /\ Decrypts(audit.priv, shards[g], shards[g].frames[audit.at])
    /\ audit' = [audit EXCEPT !.at = @ + 1, !.got = Append(@, shards[g].frames[audit.at].rec)]

LEMMA FrameReadSound ==
    ASSUME ShardsInv, AuditInv, audit.step = "frame", UNCHANGED <<shards, evictor>>,
           NEW g, FrameOpens(g)
    PROVE  AuditInv' /\ (SoundList => SoundList')
<1>1. /\ audit \in Audits /\ audit.todo # << >> /\ audit.at \in Nat /\ audit.at >= 1
      /\ audit.got \in Seq(Records) /\ audit.code = 0
    BY DEF AuditInv, Listed, Steps, Audits
<1>2. Turn \in 1 .. Due /\ Due \in Nat /\ Turn \in Int /\ DOMAIN audit.due = 1 .. Due
    BY <1>1, AuditFacts DEF AuditInv
<1>3. g \in 1 .. Len(shards)
    BY <1>2 DEF AuditInv, Listed, FrameOpens
<1>4. PICK s : s = shards[g]
    OBVIOUS
<1>5. s \in Shards /\ Len(s.frames) \in Nat /\ ShardSound(s)
    BY <1>3, <1>4, ShardFacts DEF ShardsInv
<1>6. PICK at \in Nat : at = audit.at
    BY <1>1
<1>7. /\ at \in 1 .. Len(s.frames) /\ at \in 1 .. MaxFrames
      /\ s.frames[at] \in Frames
    <2>1. s.seen \in Int /\ s.frames \in Seq(Frames)
        BY <1>5 DEF Shards
    <2>2. at \in 1 .. Len(s.frames)
        <3>1. s.seen <= Len(s.frames)
            BY <1>5 DEF ShardSound
        <3>2. at <= s.seen /\ at >= 1
            BY <1>1, <1>4, <1>6 DEF FrameOpens
        <3> QED
            BY <1>5, <2>1, <3>1, <3>2
    <2>3. at \in 1 .. MaxFrames
        BY <1>5, <2>2, BoundsAssumption DEF ShardSound
    <2> QED
        BY <2>1, <2>2, <2>3, ElementOfSeq
<1>8. PICK x \in Records : x = s.frames[at].rec
    BY <1>7 DEF Frames
<1>9. s.server = audit.priv
    <2>1. OneKey(s.frames[at].key, s.server, s.eph)
        BY <1>5, <1>7 DEF ShardSound
    <2>2. s.frames[at].key = HkdfSha256(audit.priv, s.eph)
        BY <1>4, <1>6 DEF Decrypts, DeriveAesKey, FrameOpens
    <2>3. audit.priv \in Keys
        BY DEF AuditInv, Steps
    <2> QED
        BY <2>1, <2>2, <2>3 DEF HkdfSha256, OneKey
<1>10. PICK got \in Seq(Records) : got = Append(audit.got, x)
    BY <1>1, <1>8, Appended
<1>11. /\ audit' \in Audits /\ audit'.sound = audit.sound /\ audit'.fault = audit.fault
       /\ audit'.step = "frame" /\ audit'.at = at + 1 /\ audit'.priv = audit.priv
       /\ audit'.due = audit.due /\ audit'.todo = audit.todo /\ audit'.got = got
       /\ audit'.code = audit.code /\ audit'.printed = audit.printed
    <2>1. audit' = [audit EXCEPT !.at = at + 1, !.got = got]
        BY <1>4, <1>6, <1>8, <1>10 DEF FrameOpens
    <2>2. at + 1 \in Nat
        OBVIOUS
    <2> QED
        BY <1>1, <2>1, <2>2 DEF Audits
<1>12. Due' = Due /\ Turn' = Turn
    BY <1>11 DEF Due, Turn
<1>13. Listed'
    BY <1>1, <1>11, <1>12 DEF AuditInv, Listed
<1>14. Steps'
    <2>1. at + 1 >= 1
        OBVIOUS
    <2> QED
        BY <1>1, <1>11, <2>1 DEF AuditInv, Steps
<1>15. Progress'
    <2>1. PICK cut \in [1 .. Due -> 0 .. MaxFrames] : CutSound(cut)
        BY DEF AuditInv, Progress
    <2>2. PICK t \in 1 .. Due : t = Turn
        BY <1>2
    <2>3. cut[t] = at - 1
        BY <1>6, <2>1, <2>2 DEF CutSound, CutAt
    <2>4. PICK more : more = [cut EXCEPT ![t] = at]
        OBVIOUS
    <2>5. /\ more \in [1 .. Due -> 0 .. MaxFrames] /\ more[t] = at
          /\ \A i \in 1 .. Due : i # t => more[i] = cut[i]
        BY <1>7, <2>1, <2>4, BoundsAssumption
    <2>6. ASSUME NEW i \in 1 .. Due PROVE CutAt(more, i)'
        <3>1. CutAt(cut, i)
            BY <2>1 DEF CutSound
        <3>2. CASE i = t
            <4>1. audit.due[i].shard = g /\ i = Turn
                BY <2>2, <3>2 DEF FrameOpens
            <4>2. more[i] <= Len(shards'[audit'.due[i].shard].frames)
                <5>1. more[i] = at /\ audit'.due[i].shard = g
                    BY <1>11, <2>5, <3>2, <4>1
                <5>2. at <= Len(s.frames)
                    BY <1>5, <1>7
                <5>3. shards'[g] = s
                    BY <1>4
                <5> QED
                    BY <5>1, <5>2, <5>3
            <4>3. shards'[audit'.due[i].shard].server = audit'.priv
                BY <1>4, <1>9, <1>11, <4>1
            <4>4. ~(i < Turn) /\ ~(i > Turn)
                BY <1>2, <4>1
            <4>5. more[i] = audit'.at - 1
                <5>1. audit'.at = at + 1
                    BY <1>11
                <5>2. more[i] = at
                    BY <2>5, <3>2
                <5> QED
                    BY <5>1, <5>2
            <4> QED
                BY <1>11, <1>12, <4>2, <4>3, <4>4, <4>5 DEF CutAt
        <3>3. CASE i # t
            BY <1>11, <1>12, <2>2, <2>5, <3>1, <3>3 DEF CutAt
        <3> QED
            BY <3>2, <3>3
    <2>7. /\ cut \in [1 .. Due -> Nat] /\ more \in [1 .. Due -> Nat]
          /\ \A i \in 1 .. Due : /\ cut[i] <= Len(shards[audit.due[i].shard].frames)
                                 /\ more[i] <= Len(shards[audit.due[i].shard].frames)
          /\ \A i \in 1 .. Due : i > t => cut[i] = 0
        <3>1. \A i \in 1 .. Due : /\ cut[i] <= Len(shards[audit.due[i].shard].frames)
                                  /\ more[i] <= Len(shards[audit.due[i].shard].frames)
            BY <1>11, <2>1, <2>6 DEF CutSound, CutAt
        <3>2. \A i \in 1 .. Due : i > t => cut[i] = 0
            BY <2>1, <2>2 DEF CutSound, CutAt
        <3>3. 0 .. MaxFrames \subseteq Nat
            BY BoundsAssumption
        <3> QED
            BY <2>1, <2>5, <3>1, <3>2, <3>3
    <2>8. PICK q : q = Read(shards, audit.due, cut)
        OBVIOUS
    <2>9. PICK r : r = Read(shards, audit.due, more)
        OBVIOUS
    <2>10. /\ q \in [1 .. Due -> Seq(Records)]
           /\ \A i \in 1 .. Due :
                 /\ Len(q[i]) = cut[i]
                 /\ \A j \in 1 .. cut[i] : q[i][j] = shards[audit.due[i].shard].frames[j].rec
        BY <2>7, <2>8, ReadType DEF AuditInv
    <2>11. /\ r \in [1 .. Due -> Seq(Records)]
           /\ \A i \in 1 .. Due :
                 /\ Len(r[i]) = more[i]
                 /\ \A j \in 1 .. more[i] : r[i][j] = shards[audit.due[i].shard].frames[j].rec
        BY <2>7, <2>9, ReadType DEF AuditInv
    <2>12. r[t] = Append(q[t], x)
        <3>1. PICK a \in Seq(Records) : a = q[t]
            BY <2>10
        <3>2. PICK b \in Seq(Records) : b = r[t]
            BY <2>11
        <3>3. Len(a) = at - 1 /\ Len(b) = at
            BY <2>3, <2>5, <2>10, <2>11, <3>1, <3>2
        <3>4. PICK c : c = Append(a, x)
            OBVIOUS
        <3>5. /\ c \in Seq(Records) /\ Len(c) = at
              /\ \A j \in 1 .. at - 1 : c[j] = a[j]
              /\ c[at] = x
            <4>1. /\ c \in Seq(Records) /\ Len(c) = Len(a) + 1
                  /\ \A j \in 1 .. Len(a) : c[j] = a[j]
                  /\ c[Len(a) + 1] = x
                BY <3>4, Appended
            <4> QED
                BY <1>6, <3>3, <4>1
        <3>6. ASSUME NEW j \in 1 .. at PROVE c[j] = b[j]
            <4>1. b[j] = s.frames[j].rec
                BY <1>4, <2>2, <2>5, <2>11, <3>2 DEF FrameOpens
            <4>2. CASE j = at
                BY <1>8, <3>5, <4>1, <4>2
            <4>3. CASE j # at
                <5>1. j \in 1 .. at - 1
                    BY <1>6, <4>3
                <5>2. a[j] = s.frames[j].rec
                    BY <1>4, <2>2, <2>3, <2>10, <3>1, <5>1 DEF FrameOpens
                <5> QED
                    BY <3>5, <4>1, <5>1, <5>2
            <4> QED
                BY <4>2, <4>3
        <3>7. c = b
            BY <3>3, <3>5, <3>6, SeqEqual
        <3> QED
            BY <3>1, <3>2, <3>4, <3>7
    <2>13. \A i \in 1 .. Due : i < t => r[i] = q[i]
        <3>1. \A i \in 1 .. Due : i < t => more[i] = cut[i]
            BY <2>5
        <3> QED
            BY <1>2, <2>8, <2>9, <3>1 DEF Read
    <2>14. \A i \in 1 .. Due : i > t => q[i] = << >> /\ r[i] = << >>
        <3> SUFFICES ASSUME NEW i \in 1 .. Due, i > t PROVE q[i] = << >> /\ r[i] = << >>
            OBVIOUS
        <3>1. cut[i] = 0 /\ more[i] = 0
            <4>1. i # t
                BY <1>2
            <4> QED
                BY <2>5, <2>7, <4>1
        <3>2. Len(q[i]) = 0 /\ Len(r[i]) = 0 /\ q[i] \in Seq(Records) /\ r[i] \in Seq(Records)
            BY <2>10, <2>11, <3>1
        <3> QED
            BY <3>2, EmptySeq
    <2>15. FlattenSeq(r) = Append(FlattenSeq(q), x)
        <3>1. Due \in Nat /\ t \in 1 .. Due /\ x \in Records
            BY <1>2, <2>2
        <3>2. q \in [1 .. Due -> Seq(Records)] /\ r \in [1 .. Due -> Seq(Records)]
            BY <2>10, <2>11
        <3> QED
            BY <2>12, <2>13, <2>14, <3>1, <3>2, FlattenGrows, ZenonT(30)
    <2>16. audit.got = FlattenSeq(q)
        BY <2>1, <2>8, FirstRecordsAre DEF CutSound
    <2>17. Read(shards', audit'.due, more) = r
        BY <1>11, <2>9
    <2>18. audit'.got = FirstRecords(more)'
        BY <1>10, <1>11, <2>15, <2>16, <2>17, FirstRecordsAre
    <2>19. CutSound(more)'
        BY <1>12, <2>6, <2>18 DEF CutSound
    <2> QED
        BY <1>12, <2>5, <2>19 DEF Progress
<1>16. SoundList => SoundList'
    BY <1>1, <1>11, <1>12 DEF SoundList, Finished
<1> QED
    BY <1>13, <1>14, <1>15, <1>16 DEF AuditInv

\* No frame is left in this file, or none can be read: on to the next.
LEMMA ShardReadSound ==
    ASSUME ShardsInv, AuditInv, audit.step = "frame", UNCHANGED <<shards, evictor>>,
           NEW failed \in BOOLEAN, ShardEnds(failed),
           failed \/ ~(audit.at <= shards[audit.due[Turn].shard].seen)
    PROVE  AuditInv' /\ (SoundList => SoundList')
<1>1. audit \in Audits /\ audit.todo # << >> /\ audit.at \in Nat /\ audit.code = 0
    BY DEF AuditInv, Listed, Steps, Audits
<1>2. /\ Turn \in 1 .. Due /\ Due \in Nat /\ Turn \in Int
      /\ Len(audit.todo) \in Nat \ {0} /\ Tail(audit.todo) \in Seq(Nat)
      /\ Len(Tail(audit.todo)) = Len(audit.todo) - 1
      /\ \A i \in 1 .. Len(audit.todo) - 1 : Tail(audit.todo)[i] = audit.todo[i + 1]
    BY <1>1, AuditFacts DEF AuditInv
<1>3. PICK todo \in Seq(Nat) : todo = Tail(audit.todo)
    BY <1>2
<1>4. /\ audit' \in Audits /\ audit'.sound = audit.sound
      /\ audit'.step = "open" /\ audit'.at = audit.at /\ audit'.priv = audit.priv
      /\ audit'.due = audit.due /\ audit'.todo = todo /\ audit'.got = audit.got
      /\ audit'.code = audit.code /\ audit'.printed = audit.printed
      /\ audit'.fault = (audit.fault \/ failed)
    BY <1>1, <1>3 DEF Audits, ShardEnds
<1>5. Due' = Due /\ Turn' = Turn + 1
    <2>1. Turn = Due - Len(audit.todo) + 1 /\ Due' = Due
        BY <1>4 DEF Turn, Due
    <2>2. Turn' = Due - Len(todo) + 1
        BY <1>4 DEF Turn, Due
    <2>3. Len(todo) = Len(audit.todo) - 1 /\ Len(audit.todo) \in Int /\ Due \in Int
        BY <1>2, <1>3
    <2> QED
        BY <2>1, <2>2, <2>3
<1>6. Listed'
    <2>1. Len(todo) <= Due
        BY <1>2, <1>3 DEF AuditInv, Listed
    <2>2. ASSUME NEW i \in 1 .. Len(todo) PROVE todo[i] = audit'.due[Turn' - 1 + i].shard
        <3>1. i + 1 \in 1 .. Len(audit.todo) /\ todo[i] = audit.todo[i + 1]
            BY <1>2, <1>3
        <3>2. audit.todo[i + 1] = audit.due[Turn - 1 + (i + 1)].shard
            BY <3>1 DEF AuditInv, Listed
        <3>3. Turn' - 1 + i = Turn - 1 + (i + 1)
            BY <1>2, <1>5
        <3> QED
            BY <1>4, <3>1, <3>2, <3>3
    <2>3. \A i \in 1 .. Due : /\ audit.due[i].shard \in 1 .. Len(shards)
                              /\ audit.due[i].seen <= shards[audit.due[i].shard].seen
        BY DEF AuditInv, Listed
    <2>4. \A i \in 1 .. Len(audit'.todo) : audit'.todo[i] = audit'.due[Turn' - 1 + i].shard
        BY <1>4, <2>2
    <2>5. audit' \in Audits /\ Len(audit'.todo) <= Due'
        BY <1>4, <1>5, <2>1
    <2>6. UNCHANGED shards
        OBVIOUS
    <2> QED
        BY <1>4, <1>5, <2>3, <2>4, <2>5, <2>6 DEF Listed
<1>7. Steps'
    BY <1>1, <1>4 DEF AuditInv, Steps
<1>8. Progress'
    <2>1. PICK cut \in [1 .. Due -> 0 .. MaxFrames] : CutSound(cut)
        BY DEF AuditInv, Progress
    <2>2. ASSUME NEW i \in 1 .. Due PROVE CutAt(cut, i)'
        <3>1. CutAt(cut, i) /\ cut[i] \in Nat
            BY <2>1, BoundsAssumption DEF CutSound
        <3>2. i < Turn + 1 => audit'.fault \/ audit.due[i].seen <= cut[i]
            <4>1. CASE i < Turn
                BY <1>4, <3>1, <4>1 DEF CutAt
            <4>0. CASE failed
                BY <1>4, <4>0
            <4>2. CASE i = Turn /\ ~failed
                <5>1. cut[i] = audit.at - 1
                    BY <3>1, <4>2 DEF CutAt
                <5>2. PICK g : g = audit.due[i].shard
                    OBVIOUS
                <5>3. g \in 1 .. Len(shards) /\ audit.due[i].seen <= shards[g].seen
                    BY <5>2 DEF AuditInv, Listed
                <5>4. shards[g].seen \in Int /\ audit.due[i].seen \in Int
                    BY <5>3, ShardFacts, AuditFacts DEF Shards, AuditInv
                <5> QED
                    BY <1>1, <4>2, <5>1, <5>2, <5>3, <5>4
            <4> QED
                BY <1>2, <4>0, <4>1, <4>2
        <3>3. i > Turn => cut[i] = 0
            BY <3>1 DEF CutAt
        <3>4. /\ i > Turn + 1 => cut[i] = 0
              /\ i = Turn + 1 => cut[i] = 0
            BY <1>2, <3>3
        <3>5. /\ cut[i] <= Len(shards[audit.due[i].shard].frames)
              /\ cut[i] > 0 => shards[audit.due[i].shard].server = audit.priv
            BY <3>1 DEF CutAt
        <3> QED
            BY <1>4, <1>5, <3>2, <3>4, <3>5 DEF CutAt
    <2>3. Read(shards', audit'.due, cut) = Read(shards, audit.due, cut)
        BY <1>4
    <2>4. audit'.got = FirstRecords(cut)'
        BY <1>4, <2>1, <2>3, FirstRecordsAre DEF CutSound
    <2>5. CutSound(cut)'
        BY <1>5, <2>2, <2>4 DEF CutSound
    <2> QED
        BY <1>5, <2>1, <2>5 DEF Progress
<1>9. SoundList => SoundList'
    <2> SUFFICES ASSUME SoundList, audit.sound PROVE SoundList'
        BY <1>4 DEF SoundList
    <2>1. \A i \in 1 .. Len(todo) : shards[todo[i]].there
        <3> SUFFICES ASSUME NEW i \in 1 .. Len(todo) PROVE shards[todo[i]].there
            OBVIOUS
        <3>1. i + 1 \in 1 .. Len(audit.todo) /\ todo[i] = audit.todo[i + 1]
            BY <1>2, <1>3
        <3> QED
            BY <3>1 DEF SoundList
    <2> QED
        BY <1>1, <1>4, <1>5, <2>1 DEF SoundList, Finished
<1> QED
    BY <1>6, <1>7, <1>8, <1>9 DEF AuditInv

LEMMA ReadFrameSound ==
    ASSUME ShardsInv, AuditInv, ReadFrame
    PROVE  AuditInv' /\ (SoundList => SoundList')
<1>1. /\ audit.step = "frame" /\ audit.todo # << >> /\ audit.at \in Nat /\ audit.at >= 1
      /\ UNCHANGED <<shards, evictor>>
    BY DEF ReadFrame, AuditInv, Listed, Steps, Audits
<1>2. PICK g : g = Head(audit.todo)
    OBVIOUS
<1>3. Turn \in 1 .. Due /\ g = audit.due[Turn].shard /\ g \in 1 .. Len(shards)
    BY <1>1, <1>2, AuditFacts DEF AuditInv, Listed
<1>4. PICK s : s = shards[g]
    OBVIOUS
<1>5. PICK frame : frame = s.frames[audit.at]
    OBVIOUS
<1>6. s \in Shards /\ Len(s.frames) \in Nat /\ ShardSound(s) /\ s.seen \in Int
    BY <1>3, <1>4, ShardFacts DEF ShardsInv, Shards
<1>7. \/ IF audit.at <= s.seen
         THEN IF Decrypts(audit.priv, s, frame) /\ frame.rec \in Text
              THEN audit' = [audit EXCEPT !.at = @ + 1, !.got = Append(@, frame.rec)]
              ELSE DecoderThrows
         ELSE IF s.torn THEN DecoderThrows
         ELSE ShardEnds(FALSE)
      \/ ReadFails
      \/ ShardEnds(TRUE)
    BY <1>2, <1>4, <1>5 DEF ReadFrame
<1>8. CASE ReadFails
    BY <1>1, <1>8, DecoderFailsSound
<1>9. CASE DecoderThrows /\ audit.at <= s.seen /\ ~(Decrypts(audit.priv, s, frame) /\ frame.rec \in Text)
    <2>1. audit.at \in 1 .. Len(s.frames)
        BY <1>1, <1>6, <1>9 DEF ShardSound
    <2>2. frame \in ToSet(s.frames)
        BY <1>5, <1>6, <2>1, LenProperties DEF ToSet, Shards
    <2>3. ~Readable
        BY <1>3, <1>4, <1>9, <2>2, AuditFacts DEF Readable, AuditInv
    <2> QED
        BY <1>1, <1>9, <2>3, DecoderFailsSound
<1>10. CASE /\ audit.at <= s.seen /\ Decrypts(audit.priv, s, frame)
            /\ audit' = [audit EXCEPT !.at = @ + 1, !.got = Append(@, frame.rec)]
    BY <1>1, <1>3, <1>4, <1>5, <1>10, FrameReadSound DEF FrameOpens
<1>11. CASE DecoderThrows /\ s.torn
    <2>1. SoundList => ~audit.sound
        BY <1>3, <1>4, <1>11 DEF SoundList, Finished
    <2> QED
        BY <1>1, <1>11, <2>1, DecoderFailsSound
<1>12. CASE ~(audit.at <= s.seen) /\ ShardEnds(FALSE)
    BY <1>1, <1>3, <1>4, <1>12, ShardReadSound
<1>13. CASE ShardEnds(TRUE)
    BY <1>1, <1>13, ShardReadSound
<1> QED
    BY <1>7, <1>8, <1>9, <1>10, <1>11, <1>12, <1>13

LEMMA DecoderSound ==
    ASSUME ShardsInv, Owners, AuditInv, Decoder
    PROVE  /\ ShardsInv' /\ Owners' /\ AuditInv'
           /\ SoundList => SoundList'
<1>1. UNCHANGED <<make, sink, evictor, shards>>
    BY DecoderOnlyReads
<1>2. ShardsInv' /\ Owners'
    BY <1>1 DEF ShardsInv, Owners, Current
<1>3. AuditInv' /\ (SoundList => SoundList')
    <2>1. CASE DecoderCall
        BY <2>1, DecoderCallSound
    <2>2. CASE ListShards
        BY <2>2, ListShardsSound
    <2>3. CASE OpenShard
        BY <2>3, OpenShardSound
    <2>4. CASE ReadFrame
        BY <2>4, ReadFrameSound
    <2>5. CASE PrintRecords
        BY <2>5, PrintRecordsSound
    <2> QED
        BY <2>1, <2>2, <2>3, <2>4, <2>5 DEF Decoder
<1> QED
    BY <1>2, <1>3

LEMMA EvictAudited ==
    ASSUME ShardsInv, Owners, AuditInv, Evict
    PROVE  /\ ShardsInv' /\ Owners' /\ AuditInv'
           /\ SoundList => SoundList'
<1>1. ShardsInv' /\ Owners' /\ Grow
    BY EvictSound
<1>2. PICK i \in 1 .. Len(shards) :
          /\ \A j \in 1 .. Len(shards) : j # i => shards'[j].there = shards[j].there
          /\ audit' = [audit EXCEPT !.sound = @ /\ i \notin ToSet(audit.todo)]
    BY EvictSound
<1>3. PICK sound : sound = (audit.sound /\ i \notin ToSet(audit.todo))
    OBVIOUS
<1>4. sound \in BOOLEAN /\ (sound => audit.sound) /\ audit' = [audit EXCEPT !.sound = sound]
    BY <1>2, <1>3
<1>5. sound => \A n \in 1 .. Len(audit.todo) :
                   shards'[audit.todo[n]].there = shards[audit.todo[n]].there
    <2> SUFFICES ASSUME sound, NEW n \in 1 .. Len(audit.todo)
                 PROVE  shards'[audit.todo[n]].there = shards[audit.todo[n]].there
        OBVIOUS
    <2>1. audit.todo \in Seq(Nat)
        BY DEF AuditInv, Listed, Audits
    <2>2. DOMAIN audit.todo = 1 .. Len(audit.todo)
        BY <2>1, LenProperties
    <2>3. audit.todo[n] \in ToSet(audit.todo)
        BY <2>2 DEF ToSet
    <2>4. audit.todo[n] # i
        BY <1>3, <2>3
    <2>5. Turn - 1 + n \in 1 .. Due /\ audit.todo[n] = audit.due[Turn - 1 + n].shard
        <3>1. Due \in Nat /\ Len(audit.todo) \in Nat /\ Turn \in 1 .. Due + 1
            BY AuditFacts DEF AuditInv
        <3>2. Turn = Due - Len(audit.todo) + 1
            BY DEF Turn
        <3>3. Turn - 1 + n \in 1 .. Due
            BY <3>1, <3>2
        <3> QED
            BY <3>3 DEF AuditInv, Listed
    <2>6. audit.todo[n] \in 1 .. Len(shards)
        BY <2>5 DEF AuditInv, Listed
    <2> QED
        BY <1>2, <2>4, <2>6
<1>6. AuditInv' /\ (SoundList => SoundList')
    BY <1>1, <1>4, <1>5, OtherStep
<1> QED
    BY <1>1, <1>6

LEMMA TrailStep ==
    ASSUME KeyInv, ShardsInv, Owners, LeftInv, AuditInv, [Next]_vars
    PROVE  /\ ShardsInv' /\ Owners' /\ AuditInv'
           /\ SoundList => SoundList'
<1>1. CASE Evict
    BY <1>1, EvictAudited
<1>2. CASE Decoder
    BY <1>2, DecoderSound
<1>3. CASE ~Evict /\ ~Decoder
    <2>1. ShardsInv' /\ Owners' /\ Grow /\ SameThere /\ UNCHANGED audit
        BY <1>3, ShardsStep
    <2>2. PICK sound \in BOOLEAN : sound = audit.sound
        BY DEF AuditInv, Listed, Audits
    <2>3. audit' = [audit EXCEPT !.sound = sound]
        BY <2>1, <2>2 DEF AuditInv, Listed, Audits
    <2>4. \A n \in 1 .. Len(audit.todo) :
              shards'[audit.todo[n]].there = shards[audit.todo[n]].there
        <3> SUFFICES ASSUME NEW n \in 1 .. Len(audit.todo)
                     PROVE  shards'[audit.todo[n]].there = shards[audit.todo[n]].there
            OBVIOUS
        <3>1. Due \in Nat /\ Len(audit.todo) \in Nat /\ Turn \in 1 .. Due + 1
            BY AuditFacts DEF AuditInv
        <3>2. Turn = Due - Len(audit.todo) + 1
            BY DEF Turn
        <3>3. Turn - 1 + n \in 1 .. Due
            BY <3>1, <3>2
        <3>4. audit.todo[n] \in 1 .. Len(shards)
            BY <3>3 DEF AuditInv, Listed
        <3> QED
            BY <2>1, <3>4 DEF SameThere
    <2>5. AuditInv' /\ (SoundList => SoundList')
        BY <2>1, <2>2, <2>3, <2>4, OtherStep
    <2> QED
        BY <2>1, <2>5
<1> QED
    BY <1>1, <1>2, <1>3

LEMMA TrailInit == ASSUME Init PROVE ShardsInv /\ Owners /\ LeftInv
<1>1. PICK e : e = << >> /\ shards = e
    BY DEF Init
<1>2. Len(e) = 0 /\ shards \in Seq(Shards)
    BY <1>1, EmptySeq
<1>3. ShardsInv
    BY <1>1, <1>2 DEF ShardsInv
<1>4. make.step = "none" /\ sink = NoSink /\ evictor = FALSE
    BY DEF Init, NoMake
<1>5. left = {}
    BY DEF Init
<1> QED
    BY <1>3, <1>4, <1>5 DEF Owners, LeftInv

\* What log_decoder has read of every shard, when it succeeds, is what Prints asks for.
LEMMA ReadIsPrinted ==
    ASSUME ShardsInv, AuditInv
    PROVE  Prints
<1>1. audit.code = 1 => audit.printed = << >>
    BY DEF AuditInv, Steps
<1>2. ASSUME audit.code = 0, audit.step = "done"
      PROVE  \E cut \in [DOMAIN audit.due -> 0 .. MaxFrames] :
                /\ \A i \in DOMAIN cut :
                      LET shard == shards[audit.due[i].shard]
                      IN /\ cut[i] <= Len(shard.frames)
                         /\ ~audit.fault => audit.due[i].seen <= cut[i]
                         /\ cut[i] > 0 => shard.server = audit.priv
                /\ IF audit.fault THEN ToSet(audit.printed) \subseteq ToSet(FirstRecords(cut))
                   ELSE audit.printed = FirstRecords(cut)
    <2>1. PICK cut \in [1 .. Due -> 0 .. MaxFrames] : CutSound(cut)
        BY <1>2 DEF AuditInv, Progress
    <2>2. /\ ToSet(audit.printed) \subseteq ToSet(audit.got)
          /\ audit.fault \/ audit.printed = audit.got
          /\ Turn = Due + 1 /\ Due \in Nat /\ DOMAIN audit.due = 1 .. Due
        BY <1>2, AuditFacts DEF AuditInv, Steps
    <2>3. \A i \in 1 .. Due : i < Turn /\ CutAt(cut, i)
        BY <2>1, <2>2 DEF CutSound
    <2>4. \A i \in 1 .. Due :
              LET shard == shards[audit.due[i].shard]
              IN /\ cut[i] <= Len(shard.frames)
                 /\ ~audit.fault => audit.due[i].seen <= cut[i]
                 /\ cut[i] > 0 => shard.server = audit.priv
        BY <2>3 DEF CutAt
    <2>5. audit.got = FirstRecords(cut)
        BY <2>1 DEF CutSound
    <2> QED
        BY <2>1, <2>2, <2>4, <2>5
<1> QED
    BY <1>1, <1>2 DEF Prints

\* A sound list that can be read has been read to the end of every shard.
LEMMA SoundIsPrinted ==
    ASSUME ShardsInv, AuditInv, SoundList
    PROVE  PrintsAll
<1> SUFFICES ASSUME audit.step = "done", audit.sound, ~audit.fault, Readable
             PROVE  /\ audit.code = 0
                    /\ audit.printed = FirstRecords(
                          [i \in DOMAIN audit.due |-> Len(shards[audit.due[i].shard].frames)])
    BY DEF PrintsAll, PrintedAll
<1>1. audit.code = 0
    BY DEF SoundList, AuditInv, Listed, Audits
<1>2. PICK cut \in [1 .. Due -> 0 .. MaxFrames] : CutSound(cut)
    BY <1>1 DEF AuditInv, Progress
<1>3. audit.printed = audit.got /\ Turn = Due + 1 /\ Due \in Nat /\ DOMAIN audit.due = 1 .. Due
    BY <1>1, AuditFacts DEF AuditInv, Steps
<1>4. ASSUME NEW i \in 1 .. Due PROVE cut[i] = Len(shards[audit.due[i].shard].frames)
    <2>1. i < Turn /\ CutAt(cut, i)
        BY <1>2, <1>3 DEF CutSound
    <2>2. PICK n : n = Len(shards[audit.due[i].shard].frames)
        OBVIOUS
    <2>3. n \in Nat
        BY <2>2, ShardFacts DEF AuditInv, Listed
    <2>4. audit.due[i].seen = n
        BY <2>2 DEF SoundList
    <2>5. cut[i] \in Nat
        BY <1>2, BoundsAssumption
    <2>6. n <= cut[i] /\ cut[i] <= n
        BY <2>1, <2>2, <2>4 DEF CutAt
    <2> QED
        BY <2>2, <2>3, <2>5, <2>6
<1>5. cut = [i \in DOMAIN audit.due |-> Len(shards[audit.due[i].shard].frames)]
    BY <1>2, <1>3, <1>4
<1> QED
    BY <1>1, <1>2, <1>3, <1>5 DEF CutSound

Trail == KeyInv /\ ShardsInv /\ Owners /\ LeftInv /\ AuditInv

LEMMA TrailKept == Spec => [](Trail /\ SoundList)
<1>1. Init => Trail /\ SoundList
    BY KeyInit, TrailInit, AuditInit DEF Trail
<1>2. Trail /\ SoundList /\ [Next]_vars => (Trail /\ SoundList)'
    BY KeyStep, TrailStep, LeftStep DEF Trail
<1> QED
    BY <1>1, <1>2, PTL DEF Spec

\* When log_decoder succeeds, what it has printed are, shard by shard, the records that
\* were logged first, no fewer than were in the files when it listed them and all for the
\* auditor's key; if the system fails it to read or to print, some of these; when it fails
\* it prints nothing (log_decoder.cpp:13). Kills, failed writes and what a sink before has
\* left in the buffer files do not change that.
THEOREM DecoderPrints == Spec => []Prints
<1>1. Trail => Prints
    BY ReadIsPrinted DEF Trail
<1> QED
    BY <1>1, TrailKept, PTL

\* If the shards listed were complete, not evicted meanwhile, and hold nothing but frames of
\* their own sink with valid UTF-8, and no read or write fails, log_decoder prints every
\* record, in order (shard_reader.cpp:154).
THEOREM DecoderPrintsAll == Spec => []PrintsAll
<1>1. Trail /\ SoundList => PrintsAll
    BY SoundIsPrinted DEF Trail
<1> QED
    BY <1>1, TrailKept, PTL

=============================================================================
