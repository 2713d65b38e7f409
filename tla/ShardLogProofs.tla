--------------------------- MODULE ShardLogProofs ---------------------------
(* Proofs about ShardLog, for every limit, cap, header, set of lengths and   *)
(* history: the evictor does not remove the shard that is open while paths   *)
(* can be made canonical, however the directory shows its entries; in a calm *)
(* history no shard outgrows its limit, and the auditor reads an unbroken    *)
(* run of the frames up to the last one.                                     *)
EXTENDS ShardLog, FiniteSetTheorems, SequenceTheorems, WellFoundedInduction, TLAPS

Listed == {e.name : e \in listed}

\* While a sink lives, its numbers are ahead of every shard of this millisecond:
\* the next name is new.
NamesAhead ==
    /\ clock \in Nat /\ seq \in Nat /\ DOMAIN disk \subseteq Nat \X Nat
    /\ wpc # "idle" => owner # "gone"
    /\ owner # "gone" => \A n \in DOMAIN disk : n[1] = clock => n[2] < seq

\* The stream is open on the shard that CurrentShardPath names.
PathIsOpen ==
    /\ file # NoName => file = path /\ (resolves => file \in DOMAIN disk)
    /\ calm => resolves

\* The evictor's thread lives while the sink does.
ThreadIsOff == owner \in {"gone", "made", "stopped"} => epc = "off"

\* A sweep under way has listed only what is still there; once it has read the
\* active shard, what it has left to remove is not open.
SweepIsSafe ==
    /\ epc \in {"read", "active", "remove"} => Listed \subseteq DOMAIN disk
    /\ unread \subseteq DOMAIN disk
    /\ epc # "read" => unread = {}
    /\ resolves /\ epc = "remove" /\ file # NoName /\ file \in Listed => file = active

KeepInv == NamesAhead /\ PathIsOpen /\ ThreadIsOff /\ SweepIsSafe

\* Nothing is open and no sweep is under way at the start.
LEMMA KeepInit == Init => KeepInv
  BY DEF Init, KeepInv, NamesAhead, PathIsOpen, ThreadIsOff, SweepIsSafe

\* The steps of a sweep over the directory, and what they have in common.
DirStep == OpenDir \/ ReadEntry \/ SkipEntry \/ DirEnds

LEMMA DirSteps ==
    ASSUME DirStep
    PROVE  /\ UNCHANGED <<disk, calm, clock, writer, owner, stop, resolves>>
           /\ epc \in {"list", "read"} /\ epc' \in {"read", "active", "wait"}
           /\ epc' # "read" => unread' = {}
           /\ epc' = "active" => epc = "read" /\ listed' = listed
<1>1. CASE OpenDir
  BY <1>1 DEF OpenDir, SweepReturns, world
<1>2. CASE ReadEntry
  BY <1>2 DEF ReadEntry, world
<1>3. CASE SkipEntry
  BY <1>3 DEF SkipEntry, Judge, SweepReturns, world
<1>4. CASE DirEnds
  BY <1>4 DEF DirEnds, Judge, SweepReturns, world
<1>5. QED  BY <1>1, <1>2, <1>3, <1>4 DEF DirStep

\* Listing an entry takes its name, which is in the directory, to the names listed.
LEMMA EntryRead ==
    ASSUME ReadEntry
    PROVE  \E n \in DOMAIN disk : \E s \in FileSizes(n) :
             /\ Comes(n)
             /\ unread' = unread \ {n} /\ Listed' = Listed \cup {n}
             /\ listed' = listed \cup {[name |-> n, size |-> s]} /\ total' = total + s
<1>1. PICK n \in {m \in DOMAIN disk : Comes(m)} : \E s \in FileSizes(n) :
         List(n, s) /\ total' = total + s
  BY DEF ReadEntry
<1>2. PICK s \in FileSizes(n) : List(n, s) /\ total' = total + s
  BY <1>1
<1>3. Listed' = Listed \cup {n}
  <2>. DEFINE e == [name |-> n, size |-> s]
  <2>1. listed' = listed \cup {e} /\ e.name = n
    BY <1>2 DEF List
  <2>. HIDE DEF e
  <2>2. QED  BY <2>1 DEF Listed
<1>4. QED  BY <1>1, <1>2, <1>3 DEF List

\* No step of the writer, the evictor, the owner or the clock breaks the invariant.
LEMMA KeepStep == KeepInv /\ [Next]_vars => KeepInv'
<1>. SUFFICES ASSUME KeepInv, [Next]_vars PROVE KeepInv'
  OBVIOUS
<1>. USE DEF KeepInv, NamesAhead, PathIsOpen, ThreadIsOff, SweepIsSafe, Listed, world
<1>1. CASE Tick
  BY <1>1 DEF Tick, writer, evictor
<1>2. CASE Create
  BY <1>2 DEF Create, evictor
<1>3. CASE WriteFrame
  BY <1>3 DEF WriteFrame, evictor
<1>4. CASE Open
  <2>. DEFINE n == MakeShardName
  <2>1. n \notin DOMAIN disk
    BY <1>4 DEF Open, MakeShardName
  <2>2. NamesAhead'
    <3>1. \A m \in DOMAIN disk' : m \in DOMAIN disk \/ m = n
      BY <1>4 DEF Open
    <3>2. n[1] = clock /\ n[2] = seq
      BY DEF MakeShardName
    <3>3. clock' = clock /\ seq' = seq + 1
      BY <1>4 DEF Open
    <3>4. owner # "gone" /\ (wpc' # "idle" => owner' # "gone")
      BY <1>4 DEF Open, Throw, Idle
    <3>5. \A m \in DOMAIN disk' : m[1] = clock => m[2] < seq \/ m[2] = seq
      BY <3>1, <3>2, <3>4
    <3>6. \A m \in DOMAIN disk' : m[1] = clock' => m[2] < seq'
      <4>1. \A m \in DOMAIN disk' : m[2] \in Nat
        <5>. HIDE DEF n
        <5>. QED  BY <3>1, <3>2
      <4>2. QED  BY <3>3, <3>5, <4>1
    <3>7. (DOMAIN disk \subseteq Nat \X Nat)'
      BY <3>1 DEF MakeShardName
    <3>8. QED  BY <3>3, <3>4, <3>6, <3>7
  <2>3. PathIsOpen'
    BY <1>4 DEF Open, MakeShardName, evictor
  <2>4. SweepIsSafe'
    <3>1. DOMAIN disk \subseteq DOMAIN disk'
      BY <1>4 DEF Open
    <3>2. file' \in {NoName, n} /\ UNCHANGED <<epc, unread, listed, active, resolves>>
      BY <1>4 DEF Open, evictor
    <3>3. QED  BY <2>1, <3>1, <3>2
  <2>5. ThreadIsOff'
    BY <1>4 DEF Open, Throw, Idle, evictor
  <2>6. QED  BY <2>2, <2>3, <2>4, <2>5
<1>5. CASE WriteHeader
  <2>1. DOMAIN disk' = DOMAIN disk
    BY <1>5 DEF WriteHeader, FileBecomes
  <2>2. UNCHANGED <<calm, clock, seq, file, path, unread, listed, active, resolves>>
    BY <1>5 DEF WriteHeader
  <2>3. \/ epc' = epc /\ (owner' = owner \/ (owner' = "gone" /\ owner = "made"))
        \/ epc' = "wait" /\ owner' = "up" /\ owner = "made"
    <3>1. CASE owner = "made"
      BY <1>5, <3>1 DEF WriteHeader, Throw, Idle
    <3>2. CASE owner # "made"
      BY <1>5, <3>2 DEF WriteHeader, Throw, Idle
    <3>3. QED  BY <3>1, <3>2
  <2>4. (wpc' # "idle" => owner' # "gone") /\ (owner' # "gone" => owner # "gone")
    BY <1>5 DEF WriteHeader, Throw, Idle
  <2>5. QED  BY <2>1, <2>2, <2>3, <2>4
<1>6. CASE PutFrame
  <2>1. DOMAIN disk' = DOMAIN disk
    BY <1>6 DEF PutFrame, FileBecomes
  <2>2. wpc' = "idle" /\ UNCHANGED <<calm, clock, seq, file, path, owner, evictor>>
    BY <1>6 DEF PutFrame, Idle
  <2>3. QED  BY <2>1, <2>2 DEF evictor
<1>7. CASE Flush
  BY <1>7 DEF Flush, evictor
<1>8. CASE Wake
  BY <1>8 DEF Wake, Goes, writer
<1>9. CASE DirStep
  <2>1. UNCHANGED <<disk, calm, clock, writer, owner, stop, resolves>>
        /\ epc \in {"list", "read"} /\ epc' \in {"read", "active", "wait"}
    BY <1>9, DirSteps
  <2>2. NamesAhead' /\ PathIsOpen' /\ ThreadIsOff'
    BY <2>1 DEF writer
  <2>3. ASSUME epc' = "read", OpenDir PROVE SweepIsSafe'
    <3>1. unread' = DOMAIN disk /\ Listed' = {}
      BY <2>3 DEF OpenDir, SweepReturns
    <3>2. QED  BY <2>1, <2>3, <3>1
  <2>4. ASSUME ReadEntry PROVE SweepIsSafe'
    <3>1. PICK n \in DOMAIN disk : unread' = unread \ {n} /\ Listed' = Listed \cup {n}
      BY <2>4, EntryRead
    <3>2. epc = "read" /\ epc' = "read"
      BY <2>4 DEF ReadEntry
    <3>3. Listed \subseteq DOMAIN disk /\ unread \subseteq DOMAIN disk
      BY <3>2
    <3>. HIDE DEF Listed
    <3>4. QED  BY <2>1, <3>1, <3>2, <3>3
  <2>5. ASSUME epc' # "read" PROVE SweepIsSafe'
    <3>1. unread' = {} /\ (epc' = "active" => epc = "read" /\ listed' = listed)
      BY <1>9, <2>5, DirSteps
    <3>2. epc' = "active" => Listed' \subseteq DOMAIN disk'
      BY <2>1, <3>1
    <3>3. QED  BY <2>1, <2>5, <3>1, <3>2
  <2>6. epc' = "read" => OpenDir \/ ReadEntry
    BY <1>9 DEF DirStep, SkipEntry, DirEnds, Judge, SweepReturns
  <2>7. QED  BY <2>2, <2>3, <2>4, <2>5, <2>6
<1>10. CASE ReadActive
  BY <1>10 DEF ReadActive, MayFail, writer
<1>11. CASE Evict
  <2>1. PICK e \in listed :
          /\ listed' = {d \in listed : d.name # e.name}
          /\ \A d \in listed : d.name = e.name \/ Before(e.name, d.name)
          /\ \/ /\ e.name # active \/ ~resolves'
                /\ disk' = [n \in DOMAIN disk \ {e.name} |-> disk[n]]
             \/ disk' = disk
    BY <1>11 DEF Evict, RemoveShard
  <2>2. UNCHANGED <<clock, calm, writer, owner, epc, unread, active>> /\ epc = "remove"
    BY <1>11 DEF Evict
  <2>3. (resolves' => resolves) /\ (calm => resolves' = resolves)
    BY <1>11 DEF Evict, MayFail
  <2>4. DOMAIN disk' \subseteq DOMAIN disk /\ DOMAIN disk \ {e.name} \subseteq DOMAIN disk'
    BY <2>1
  <2>5. resolves' /\ file # NoName => file \in DOMAIN disk'
    BY <2>1, <2>2, <2>3
  <2>6. (Listed \subseteq DOMAIN disk)'
    BY <2>1, <2>2, <2>4
  <2>7. QED  BY <2>1, <2>2, <2>3, <2>4, <2>5, <2>6 DEF writer
<1>12. CASE SweepEnds
  BY <1>12 DEF SweepEnds, SweepReturns, writer
<1>13. CASE StopCall
  BY <1>13 DEF StopCall, writer, evictor
<1>14. CASE StopJoins
  BY <1>14 DEF StopJoins, Goes, writer
<1>15. CASE Close
  BY <1>15 DEF Close, evictor
<1>16. CASE UNCHANGED vars
  BY <1>16 DEF vars, writer, evictor
<1>17. QED
  BY <1>1, <1>2, <1>3, <1>4, <1>5, <1>6, <1>7, <1>8, <1>9, <1>10, <1>11, <1>12, <1>13,
     <1>14, <1>15, <1>16 DEF Next, WriterStep, EvictorStep, DirStep

\* The open shard stays in the directory until a call of weakly_canonical fails
\* (eviction_runner.cpp:98-141 with shard_writer.cpp:62-87): no race of a sweep with
\* rotations, failures of the other calls, restarts of the sink or steps of the clock
\* makes the evictor remove it. After such a failure it may (ActiveKept).
THEOREM ActiveIsKept == Spec => []ActiveKeptWhilePathsResolve
<1>1. KeepInv => ActiveKeptWhilePathsResolve
  BY DEF KeepInv, PathIsOpen, ActiveKeptWhilePathsResolve
<1>2. QED  BY <1>1, KeepInit, KeepStep, PTL DEF Spec

-----------------------------------------------------------------------------
(* SizeOf adds up the lengths in the order of a CHOOSE. Whatever that order   *)
(* is, the sum is a number, and one more frame adds its length.               *)

Choice(s) == CHOOSE x \in s : TRUE

SumsOver(it, S, wt) ==
    it = [s \in SUBSET S |-> IF s = {} THEN 0 ELSE wt[Choice(s)] + it[s \ {Choice(s)}]]

LEMMA Smallest ==
    ASSUME NEW T \in SUBSET Nat, T # {}
    PROVE  \E n \in T : \A m \in T : n <= m
<1>1. PICK n \in T : \A m \in T : ~(<<m, n>> \in OpToRel(<, Nat))
    BY WFMin, NatLessThanWellFounded
<1>2. \A m \in T : ~(m < n)
    BY <1>1 DEF OpToRel
<1> QED
    BY <1>2

LEMMA Chosen == ASSUME NEW s, s # {} PROVE Choice(s) \in s
BY DEF Choice

LEMMA SumsExist ==
    ASSUME NEW S, IsFiniteSet(S), NEW wt \in [S -> Nat]
    PROVE  \E it : SumsOver(it, S, wt)
<1> DEFINE Up(n) == {s \in SUBSET S : Cardinality(s) <= n}
           IsSum(g, n) == g = [s \in Up(n) |-> IF s = {} THEN 0
                                 ELSE wt[Choice(s)] + g[s \ {Choice(s)}]]
           Bad == {n \in Nat : ~ \E g : IsSum(g, n)}
<1>1. \A s \in SUBSET S : IsFiniteSet(s) /\ Cardinality(s) \in Nat /\ Cardinality(s) <= Cardinality(S)
    BY FS_Subset, FS_CardinalityType
<1>2. IsSum([s \in Up(0) |-> 0], 0)
    <2>1. \A s \in Up(0) : s = {}
        BY <1>1, FS_EmptySet
    <2> QED
        BY <2>1
<1>3. ASSUME NEW n \in Nat, NEW h, IsSum(h, n)
      PROVE  \E g : IsSum(g, n + 1)
    <2> DEFINE g == [s \in Up(n + 1) |-> IF s = {} THEN 0
                                 ELSE wt[Choice(s)] + h[s \ {Choice(s)}]]
    <2>1. ASSUME NEW s \in Up(n + 1), s # {}
          PROVE  s \ {Choice(s)} \in Up(n) /\ s \ {Choice(s)} \in Up(n + 1)
        <3>1. Choice(s) \in s
            BY <2>1, Chosen
        <3>2. Cardinality(s \ {Choice(s)}) = Cardinality(s) - 1
            BY <1>1, <3>1, FS_RemoveElement
        <3> QED
            BY <1>1, <3>2
    <2>2. Up(n) \subseteq Up(n + 1)
        BY <1>1
    <2>3. ASSUME NEW t \in Up(n) PROVE h[t] = g[t]
        BY <1>3, <2>2
    <2>4. ASSUME NEW s \in Up(n + 1), s # {} PROVE h[s \ {Choice(s)}] = g[s \ {Choice(s)}]
        BY <2>1, <2>3, <2>4
    <2>5. IsSum(g, n + 1)
        BY <2>4
    <2> QED
        BY <2>5
<1>4. Bad = {}
    <2> HIDE DEF IsSum
    <2> SUFFICES ASSUME Bad # {} PROVE FALSE
        OBVIOUS
    <2>1. PICK n \in Bad : \A m \in Bad : n <= m
        BY Smallest
    <2>2. n # 0
        BY <1>2, <2>1
    <2>3. n - 1 \in Nat /\ n - 1 \notin Bad
        BY <2>1, <2>2
    <2>4. PICK h : IsSum(h, n - 1)
        BY <2>3
    <2>5. \E g : IsSum(g, n - 1 + 1)
        BY <1>3, <2>3, <2>4
    <2> QED
        BY <2>1, <2>5
<1>5. PICK g : IsSum(g, Cardinality(S))
    <2> HIDE DEF IsSum
    <2> QED
        BY <1>4, FS_CardinalityType
<1>6. Up(Cardinality(S)) = SUBSET S
    BY <1>1
<1>7. SumsOver(g, S, wt)
    BY <1>5, <1>6 DEF SumsOver
<1> QED
    BY <1>7

LEMMA SumsAre ==
    ASSUME NEW S, IsFiniteSet(S), NEW wt \in [S -> Nat], NEW it, SumsOver(it, S, wt)
    PROVE  /\ it[{}] = 0
           /\ \A s \in SUBSET S : it[s] \in Nat
           /\ \A s \in SUBSET S : \A x \in s : it[s] = wt[x] + it[s \ {x}]
<1> DEFINE Good(s) == it[s] \in Nat /\ \A x \in s : it[s] = wt[x] + it[s \ {x}]
           Bad == {Cardinality(s) : s \in {t \in SUBSET S : ~Good(t)}}
<1>0. \A s \in SUBSET S : IsFiniteSet(s) /\ Cardinality(s) \in Nat
    BY FS_Subset, FS_CardinalityType
<1>1. it[{}] = 0
    BY DEF SumsOver
<1>2. \A s \in SUBSET S : s # {} => it[s] = wt[Choice(s)] + it[s \ {Choice(s)}]
    BY DEF SumsOver
<1>3. ASSUME NEW s \in SUBSET S,
             \A t \in SUBSET S : Cardinality(t) < Cardinality(s) => Good(t)
      PROVE  Good(s)
    <2>1. CASE s = {}
        BY <1>1, <2>1
    <2>2. CASE s # {}
        <3> DEFINE c == Choice(s)
        <3>1. c \in s /\ it[s] = wt[c] + it[s \ {c}]
            BY <1>2, <2>2, Chosen
        <3> HIDE DEF c
        <3>2. ASSUME NEW x \in s PROVE Good(s \ {x})
            <4>1. Cardinality(s \ {x}) < Cardinality(s)
                BY <1>0, FS_RemoveElement
            <4> QED
                BY <1>3, <4>1
        <3>3. it[s] \in Nat
            <4>1. it[s \ {c}] \in Nat /\ wt[c] \in Nat
                BY <3>1, <3>2
            <4> QED
                BY <3>1, <4>1
        <3>4. ASSUME NEW x \in s, x # c PROVE it[s] = wt[x] + it[s \ {x}]
            <4>1. it[s \ {c}] = wt[x] + it[(s \ {c}) \ {x}]
                BY <3>1, <3>2, <3>4
            <4>2. it[s \ {x}] = wt[c] + it[(s \ {x}) \ {c}]
                BY <3>1, <3>2, <3>4
            <4>3. (s \ {x}) \ {c} = (s \ {c}) \ {x}
                OBVIOUS
            <4>4. it[(s \ {c}) \ {x}] \in Nat
                <5>1. Cardinality(s \ {c}) = Cardinality(s) - 1 /\ IsFiniteSet(s \ {c})
                    BY <1>0, <3>1, FS_RemoveElement
                <5>2. Cardinality((s \ {c}) \ {x}) = Cardinality(s \ {c}) - 1
                    BY <3>4, <5>1, FS_RemoveElement
                <5>3. Cardinality((s \ {c}) \ {x}) < Cardinality(s)
                    BY <1>0, <5>1, <5>2
                <5> QED
                    BY <1>3, <5>3
            <4>5. wt[x] \in Nat /\ wt[c] \in Nat
                BY <3>1
            <4> HIDE DEF Good
            <4> QED
                BY <3>1, <4>1, <4>2, <4>3, <4>4, <4>5
        <3> QED
            BY <3>1, <3>3, <3>4
    <2> QED
        BY <2>1, <2>2
<1>4. Bad = {}
    <2> HIDE DEF Good
    <2> SUFFICES ASSUME Bad # {} PROVE FALSE
        OBVIOUS
    <2>1. Bad \in SUBSET Nat
        BY <1>0
    <2>2. PICK n \in Bad : \A m \in Bad : n <= m
        BY <2>1, Smallest
    <2>3. PICK s \in SUBSET S : ~Good(s) /\ n = Cardinality(s)
        BY <2>2
    <2>4. ASSUME NEW t \in SUBSET S, Cardinality(t) < Cardinality(s) PROVE Good(t)
        BY <1>0, <2>2, <2>3, <2>4
    <2> QED
        BY <1>3, <2>3, <2>4
<1>5. \A s \in SUBSET S : Good(s)
    <2> HIDE DEF Good
    <2> QED
        BY <1>4
<1> QED
    BY <1>1, <1>5

LEMMA SizeSums ==
    ASSUME NEW shard, shard.frames \in Seq(Entry)
    PROVE  LET wt == [i \in DOMAIN shard.frames |-> shard.frames[i].len]
           IN \E it : /\ SumsOver(it, DOMAIN shard.frames, wt)
                      /\ SizeOf(shard) = shard.hdr + it[DOMAIN shard.frames]
<1> DEFINE D == DOMAIN shard.frames
           wt == [i \in D |-> shard.frames[i].len]
           Sums(it) == it = [s \in SUBSET D |-> IF s = {} THEN 0
                               ELSE shard.frames[Choice(s)].len + it[s \ {Choice(s)}]]
           iter == CHOOSE it : Sums(it)
<1>1. D = 1 .. Len(shard.frames) /\ Len(shard.frames) \in Nat
    BY LenProperties
<1>2. IsFiniteSet(D)
    BY <1>1, FS_Interval
<1>3. wt \in [D -> Nat]
    <2>1. \A i \in D : shard.frames[i] \in Entry
        BY <1>1, ElementOfSeq
    <2> QED
        BY <2>1 DEF Entry
<1>4. \E it : SumsOver(it, D, wt)
    BY <1>2, <1>3, SumsExist
<1>5. \A it : Sums(it) <=> SumsOver(it, D, wt)
    <2>1. \A s \in SUBSET D : s # {} => wt[Choice(s)] = shard.frames[Choice(s)].len
        BY Chosen
    <2> QED
        BY <2>1 DEF SumsOver
<1>6. Sums(iter)
    <2> HIDE DEF Sums
    <2> QED
        BY <1>4, <1>5
<1>7. SizeOf(shard) = shard.hdr + iter[D]
    BY DEF SizeOf, MapThenSumSet, MapThenFoldSet, Choice
<1> QED
    BY <1>5, <1>6, <1>7

LEMMA SumsAgree ==
    ASSUME NEW S, NEW T \in SUBSET S, IsFiniteSet(S), NEW wt, NEW wt2,
           \A x \in T : wt2[x] = wt[x],
           NEW it, NEW it2, SumsOver(it, S, wt), SumsOver(it2, T, wt2)
    PROVE  it2[T] = it[T]
<1> DEFINE Bad == {Cardinality(s) : s \in {t \in SUBSET T : it2[t] # it[t]}}
<1>0. \A s \in SUBSET T : IsFiniteSet(s) /\ Cardinality(s) \in Nat
    BY FS_Subset, FS_CardinalityType
<1>1. \A s \in SUBSET T : s # {} => /\ it[s] = wt[Choice(s)] + it[s \ {Choice(s)}]
                                    /\ it2[s] = wt2[Choice(s)] + it2[s \ {Choice(s)}]
    BY DEF SumsOver
<1>2. it[{}] = it2[{}]
    BY DEF SumsOver
<1>3. ASSUME NEW s \in SUBSET T,
             \A t \in SUBSET T : Cardinality(t) < Cardinality(s) => it2[t] = it[t]
      PROVE  it2[s] = it[s]
    <2>1. CASE s = {}
        BY <1>2, <2>1
    <2>2. CASE s # {}
        <3>1. Choice(s) \in s
            BY <2>2, Chosen
        <3>2. Cardinality(s \ {Choice(s)}) = Cardinality(s) - 1
            BY <1>0, <3>1, FS_RemoveElement
        <3>3. it2[s \ {Choice(s)}] = it[s \ {Choice(s)}]
            BY <1>0, <1>3, <3>2
        <3> QED
            BY <1>1, <2>2, <3>1, <3>3
    <2> QED
        BY <2>1, <2>2
<1>4. Bad = {}
    <2> SUFFICES ASSUME Bad # {} PROVE FALSE
        OBVIOUS
    <2>1. Bad \in SUBSET Nat
        BY <1>0
    <2>2. PICK n \in Bad : \A m \in Bad : n <= m
        BY <2>1, Smallest
    <2>3. PICK s \in SUBSET T : it2[s] # it[s] /\ n = Cardinality(s)
        BY <2>2
    <2>4. ASSUME NEW t \in SUBSET T, Cardinality(t) < Cardinality(s) PROVE it2[t] = it[t]
        BY <1>0, <2>2, <2>3, <2>4
    <2> QED
        BY <1>3, <2>3, <2>4
<1> QED
    BY <1>4

LEMMA SizeOfEmpty ==
    ASSUME NEW shard, shard.frames = << >>, shard.hdr \in Nat
    PROVE  SizeOf(shard) = shard.hdr
<1> DEFINE D == DOMAIN shard.frames
           wt == [i \in D |-> shard.frames[i].len]
<1>1. D = {}
    OBVIOUS
<1>2. shard.frames \in Seq(Entry)
    BY EmptySeq
<1>3. PICK it : SumsOver(it, D, wt) /\ SizeOf(shard) = shard.hdr + it[D]
    BY <1>2, SizeSums
<1>4. it[{}] = 0
    BY <1>3 DEF SumsOver
<1> QED
    BY <1>1, <1>3, <1>4

LEMMA SizeOfAppend ==
    ASSUME NEW shard, shard.frames \in Seq(Entry), shard.hdr \in Nat, NEW e \in Entry,
           NEW grown, grown.frames = Append(shard.frames, e), grown.hdr = shard.hdr
    PROVE  SizeOf(grown) = SizeOf(shard) + e.len /\ SizeOf(shard) \in Nat
<1> DEFINE n  == Len(shard.frames)
           D  == DOMAIN shard.frames
           wt == [i \in D |-> shard.frames[i].len]
           D2 == DOMAIN grown.frames
           wt2 == [i \in D2 |-> grown.frames[i].len]
<1>1. n \in Nat /\ D = 1 .. n /\ D2 = 1 .. n + 1
      /\ grown.frames \in Seq(Entry)
      /\ \A i \in D : grown.frames[i] = shard.frames[i]
      /\ grown.frames[n + 1] = e
    BY AppendProperties, LenProperties
<1>2. /\ IsFiniteSet(D) /\ IsFiniteSet(D2) /\ D \in SUBSET D2
      /\ n + 1 \in D2 /\ D2 \ {n + 1} = D
    <2>1. IsFiniteSet(1 .. n) /\ IsFiniteSet(1 .. n + 1)
        BY <1>1, FS_Interval
    <2>2. 1 .. n \subseteq 1 .. n + 1 /\ n + 1 \in 1 .. n + 1
        BY <1>1
    <2>3. (1 .. n + 1) \ {n + 1} = 1 .. n
        BY <1>1
    <2> HIDE DEF D, D2, n
    <2> QED
        BY <1>1, <2>1, <2>2, <2>3
<1>3. wt \in [D -> Nat] /\ wt2 \in [D2 -> Nat] /\ wt2[n + 1] = e.len
      /\ \A i \in D : wt[i] = wt2[i]
    <2>1. \A i \in D : shard.frames[i] \in Entry
        BY <1>1, ElementOfSeq
    <2>2. \A i \in D2 : grown.frames[i] \in Entry
        BY <1>1, ElementOfSeq
    <2>3. \A i \in D : shard.frames[i].len \in Nat
        BY <2>1 DEF Entry
    <2>4. \A i \in D2 : grown.frames[i].len \in Nat
        BY <2>2 DEF Entry
    <2>5. wt \in [D -> Nat] /\ wt2 \in [D2 -> Nat]
        BY <2>3, <2>4
    <2>6. wt2[n + 1] = e.len
        BY <1>1, <1>2
    <2>7. \A i \in D : wt[i] = wt2[i]
        BY <1>1, <1>2
    <2> QED
        BY <2>5, <2>6, <2>7
<1>4. PICK it : SumsOver(it, D, wt) /\ SizeOf(shard) = shard.hdr + it[D]
    BY SizeSums
<1>5. PICK it2 : SumsOver(it2, D2, wt2) /\ SizeOf(grown) = grown.hdr + it2[D2]
    BY <1>1, SizeSums
<1> HIDE DEF wt, wt2, D, D2, n
<1>6. it2[D2] = wt2[n + 1] + it2[D2 \ {n + 1}] /\ it2[D] \in Nat
    BY <1>2, <1>3, <1>5, SumsAre
<1>7. it[D] = it2[D]
    <2>1. IsFiniteSet(D2) /\ D \in SUBSET D2
        BY <1>2
    <2>2. wt2 \in [D2 -> Nat] /\ wt \in [D -> Nat] /\ \A i \in D : wt[i] = wt2[i]
        BY <1>3
    <2>3. SumsOver(it2, D2, wt2) /\ SumsOver(it, D, wt)
        BY <1>4, <1>5
    <2> QED
        BY <2>1, <2>2, <2>3, SumsAgree
<1>8. e.len \in Nat
    BY DEF Entry
<1> QED
    <2>1. /\ SizeOf(shard) = shard.hdr + it2[D]
          /\ SizeOf(grown) = shard.hdr + (e.len + it2[D])
        BY <1>2, <1>3, <1>4, <1>5, <1>6, <1>7
    <2> QED
        BY <1>6, <1>8, <2>1

LEMMA SizeOfIsNat ==
    ASSUME NEW shard, shard.frames \in Seq(Entry), shard.hdr \in Nat
    PROVE  SizeOf(shard) \in Nat
<1> DEFINE e == [id |-> 0, len |-> 0, whole |-> TRUE]
           grown == [hdr |-> shard.hdr, frames |-> Append(shard.frames, e)]
<1>1. e \in Entry
    BY DEF Entry
<1>2. grown.hdr = shard.hdr /\ grown.frames = Append(shard.frames, e)
    OBVIOUS
<1> HIDE DEF e, grown
<1> QED
    BY <1>1, <1>2, SizeOfAppend

-----------------------------------------------------------------------------
(* Typing.                                                                   *)

\* Past its first step WriteFrame has a stream, and a frame unless the constructor
\* is at work.
FrameInHand ==
    /\ wpc # "idle" => (owner = "made" <=> frame = << >>)
    /\ wpc = "write" => owner # "made"
    /\ wpc \in {"header", "write"} => file # NoName
    /\ \A i \in DOMAIN frame : frame[i].len > 0
    /\ frame # << >> => sent > 0

Types == TypeOK /\ IsFiniteSet(DOMAIN disk) /\ FrameInHand

LEMMA TypeInit == Init => Types
<1> SUFFICES ASSUME Init PROVE Types
    OBVIOUS
<1>1. DOMAIN disk = {}
    BY DEF Init
<1>2. TypeOK
    <2>1. Len(frame) <= 1 /\ (wpc = "idle" => frame = << >>)
        BY DEF Init
    <2>2. frame \in Seq([id : Nat, len : Nat]) /\ born \in Seq(Names)
        BY EmptySeq DEF Init
    <2>3. DOMAIN disk \subseteq Names
          /\ \A n \in DOMAIN disk : disk[n] \in [hdr : 0..Hdr, frames : Seq(Entry)]
        BY <1>1
    <2>4. /\ clock \in Nat /\ seq \in Nat /\ size \in Nat /\ synced \in Nat /\ sent \in Nat
          /\ total \in Int
        <3>1. clock = 0 /\ seq = 0 /\ size = 0 /\ synced = 0 /\ sent = 0 /\ total = 0
            BY DEF Init
        <3> QED
            BY <3>1
    <2>5. calm \in BOOLEAN /\ stop \in BOOLEAN /\ resolves \in BOOLEAN
        BY Zenon DEF Init
    <2>6. /\ file = NoName /\ path = NoName /\ active = NoName /\ listed = {} /\ unread = {}
          /\ wpc = "idle" /\ owner = "gone" /\ epc = "off"
        BY DEF Init
    <2> QED
        BY <2>1, <2>2, <2>3, <2>4, <2>5, <2>6, Zenon DEF TypeOK
<1> QED
    BY <1>1, <1>2, FS_EmptySet DEF Init, Types, FrameInHand

\* The sizes the sweep can see are numbers.
LEMMA FileSizesTyped ==
    ASSUME Types, NEW n \in DOMAIN disk
    PROVE  FileSizes(n) \subseteq Nat
<1>1. SizeOf(disk[n]) \in Nat
    <2>1. disk[n].frames \in Seq(Entry) /\ disk[n].hdr \in Nat
        BY SizesAssumption DEF Types, TypeOK
    <2> QED
        BY <2>1, SizeOfIsNat
<1>2. synced \in Nat
    BY DEF Types, TypeOK
<1> QED
    BY <1>1, <1>2 DEF FileSizes

\* A write into the open shard is seen by name, if the shard is still there.
LEMMA FileEdited ==
    /\ \A h : FileBecomes([disk[file] EXCEPT !.hdr = h]) =>
               disk' = [disk EXCEPT ![file].hdr = h]
    /\ \A e : FileBecomes([disk[file] EXCEPT !.frames = Append(@, e)]) =>
               disk' = [disk EXCEPT ![file].frames = Append(@, e)]
BY DEF FileBecomes

LEMMA TypeStep == Types /\ KeepInv /\ [Next]_vars => Types'
<1> SUFFICES ASSUME Types, KeepInv, [Next]_vars PROVE Types'
    OBVIOUS
<1> USE DEF Types, TypeOK, FrameInHand, world, writer, evictor
<1>0. Hdr \in Nat /\ 0 \in 0..Hdr /\ Hdr \in 0..Hdr /\ 0 .. Hdr-1 \subseteq 0..Hdr
    BY SizesAssumption
<1>1. CASE Tick
    <2>1. clock' \in Nat
        BY <1>1, SizesAssumption DEF Tick
    <2> QED
        BY <1>1, <2>1 DEF Tick
<1>2. CASE Create
    BY <1>2 DEF Create, KeepInv, NamesAhead
<1>3. CASE WriteFrame
    <2>1. PICK len \in Lengths : frame' = <<[id |-> sent', len |-> len]>>
        BY <1>3 DEF WriteFrame
    <2>2. len \in Nat /\ len > 0 /\ sent' = sent + 1
        BY <1>3, SizesAssumption DEF WriteFrame
    <2>3. frame' \in Seq([id : Nat, len : Nat]) /\ Len(frame') = 1 /\ frame' # << >>
          /\ \A i \in DOMAIN frame' : frame'[i].len > 0
        BY <2>1, <2>2
    <2>4. /\ wpc' \in {"open", "write"}
          /\ wpc' = "write" => file # NoName
          /\ owner \in {"up", "stopping", "stopped"}
          /\ UNCHANGED <<disk, world, seq, file, size, path, synced, born, owner, stop, evictor>>
        BY <1>3 DEF WriteFrame
    <2> QED
        BY <2>2, <2>3, <2>4
<1>4. CASE Open
    <2>1. path' \in Names /\ seq' \in Nat
        BY <1>4 DEF Open, MakeShardName, Names
    <2>2. UNCHANGED <<world, stop, sent, evictor>>
        BY <1>4 DEF Open
    <2>3. CASE wpc' = "header"
        <3>1. /\ file' = path' /\ size' = 0 /\ synced' = 0 /\ born' = Append(born, path')
              /\ disk' = [n \in DOMAIN disk \cup {path'} |->
                            IF n = path' THEN [hdr |-> 0, frames |-> << >>] ELSE disk[n]]
              /\ UNCHANGED <<frame, owner>>
            BY <1>4, <2>3 DEF Open, Throw, Idle
        <3>2. [hdr |-> 0, frames |-> << >>] \in [hdr : 0..Hdr, frames : Seq(Entry)]
            BY <1>0, EmptySeq
        <3>3. DOMAIN disk' = DOMAIN disk \cup {path'}
            BY <3>1
        <3>4. IsFiniteSet(DOMAIN disk')
            <4> DEFINE D == DOMAIN disk
            <4>1. IsFiniteSet(D)
                OBVIOUS
            <4> HIDE DEF D
            <4>2. IsFiniteSet(D \cup {path'})
                BY <4>1, FS_AddElement
            <4> QED
                BY <3>3, <4>2 DEF D
        <3>5. born' \in Seq(Names)
            BY <2>1, <3>1, AppendProperties
        <3>6. \A n \in DOMAIN disk' : disk'[n] \in [hdr : 0..Hdr, frames : Seq(Entry)]
            BY <3>1, <3>2
        <3>7. file' # NoName
            BY <2>1, <3>1, NoNameAssumption DEF Names
        <3> QED
            BY <1>4, <2>1, <2>2, <2>3, <3>1, <3>3, <3>4, <3>5, <3>6, <3>7 DEF Open
    <2>4. CASE wpc' # "header"
        <3>1. file' = NoName /\ Throw /\ UNCHANGED <<disk, size, synced, born>>
            BY <1>4, <2>4 DEF Open
        <3> QED
            BY <2>1, <2>2, <3>1, EmptySeq DEF Throw, Idle
    <2> QED
        BY <2>3, <2>4
<1>5. CASE WriteHeader
    <2>1. PICK h \in 0..Hdr : disk' = [disk EXCEPT ![file].hdr = h]
        BY <1>0, <1>5, FileEdited DEF WriteHeader
    <2>2. DOMAIN disk' = DOMAIN disk
        BY <2>1
    <2>3. \A n \in DOMAIN disk' : disk'[n] \in [hdr : 0..Hdr, frames : Seq(Entry)]
        BY <2>1
    <2>4. /\ size' \in Nat /\ stop' \in BOOLEAN /\ owner' \in {owner, "up", "gone"}
          /\ epc' \in {epc, "wait"} /\ wpc' \in {"idle", "write"}
          /\ frame' \in {frame, << >>}
          /\ wpc' = "idle" => frame' = << >>
          /\ wpc' = "write" => frame' = frame /\ owner' = owner /\ owner # "made"
          /\ UNCHANGED <<world, seq, file, path, synced, unread, listed, total, active,
                         resolves, sent, born>>
          /\ wpc = "header"
        BY <1>0, <1>5 DEF WriteHeader, Throw, Idle
    <2>5. frame' \in Seq([id : Nat, len : Nat]) /\ Len(frame') <= 1
        <3>1. CASE frame' = frame
            BY <3>1
        <3>2. CASE frame' = << >>
            <4>1. << >> \in Seq([id : Nat, len : Nat]) /\ Len(<< >>) <= 1
                BY EmptySeq
            <4> QED
                BY <3>2, <4>1
        <3> QED
            BY <2>4, <3>1, <3>2
    <2>6. FrameInHand'
        BY <2>4
    <2>7. TypeOK'
        <3>1. owner' \in {"gone", "made", "up", "stopping", "stopped"}
              /\ epc' \in {"off", "wait", "list", "read", "active", "remove", "done"}
            BY <2>4
        <3> QED
            BY <2>2, <2>3, <2>4, <2>5, <3>1
    <2> QED
        BY <2>2, <2>6, <2>7
<1>6. CASE PutFrame
    <2>1. frame # << >> /\ wpc = "write"
        BY <1>6 DEF PutFrame
    <2>2. frame[1] \in [id : Nat, len : Nat]
        <3>1. Len(frame) \in Nat /\ Len(frame) # 0
            BY <2>1, EmptySeq, LenProperties
        <3>2. 1 \in 1 .. Len(frame)
            BY <3>1
        <3> QED
            BY <3>2, ElementOfSeq
    <2>3. PICK e \in Entry : FileBecomes([disk[file] EXCEPT !.frames = Append(@, e)])
        <3>1. \A len \in Nat :
                [id |-> frame[1].id, len |-> len, whole |-> len = frame[1].len] \in Entry
            BY <2>2 DEF Entry
        <3>2. \E len \in Nat :
                FileBecomes([disk[file] EXCEPT !.frames =
                  Append(@, [id |-> frame[1].id, len |-> len, whole |-> len = frame[1].len])])
            <4>1. frame[1].len \in Nat /\ 0 .. frame[1].len-1 \subseteq Nat
                BY <2>2
            <4> QED
                BY <1>6, <4>1 DEF PutFrame
        <3> QED
            BY <3>1, <3>2
    <2>4. DOMAIN disk' = DOMAIN disk
        BY <2>3 DEF FileBecomes
    <2>5. \A n \in DOMAIN disk' : disk'[n] \in [hdr : 0..Hdr, frames : Seq(Entry)]
        <3> TAKE n \in DOMAIN disk'
        <3>1. disk[n] \in [hdr : 0..Hdr, frames : Seq(Entry)]
            BY <2>4
        <3>2. CASE n # file
            BY <2>3, <2>4, <3>1, <3>2 DEF FileBecomes
        <3>3. CASE n = file
            <4>1. Append(disk[file].frames, e) \in Seq(Entry)
                BY <3>1, <3>3, AppendProperties
            <4>2. disk'[n] = [disk[file] EXCEPT !.frames = Append(@, e)]
                BY <2>3, <2>4, <3>3 DEF FileBecomes
            <4> QED
                BY <3>1, <3>3, <4>1, <4>2
        <3> QED
            BY <3>2, <3>3
    <2>6. size' \in Nat
        BY <1>6, <2>2 DEF PutFrame
    <2>7. /\ wpc' = "idle" /\ frame' = << >>
          /\ UNCHANGED <<world, seq, file, path, synced, sent, born, owner, stop, evictor>>
        BY <1>6 DEF PutFrame, Idle
    <2> QED
        BY <2>4, <2>5, <2>6, <2>7, EmptySeq
<1>7. CASE Flush
    <2>1. file \in DOMAIN disk => SizeOf(disk[file]) \in Nat
        <3>1. file \in DOMAIN disk => disk[file].frames \in Seq(Entry) /\ disk[file].hdr \in Nat
            BY <1>0
        <3> QED
            BY <3>1, SizeOfIsNat
    <2> QED
        BY <1>7, <2>1 DEF Flush
<1>8. CASE Wake \/ ReadActive \/ SweepEnds
    <2>1. CASE Wake
        BY <2>1 DEF Wake, Goes
    <2>2. CASE ReadActive
        BY <2>2 DEF ReadActive
    <2>3. CASE SweepEnds
        BY <2>3 DEF SweepEnds, SweepReturns
    <2> QED
        BY <1>8, <2>1, <2>2, <2>3
<1>9. CASE DirStep
    <2>1. CASE OpenDir
        BY <2>1 DEF OpenDir, SweepReturns
    <2>2. CASE ReadEntry
        <3>1. PICK n \in DOMAIN disk : \E s \in FileSizes(n) :
                /\ unread' = unread \ {n}
                /\ listed' = listed \cup {[name |-> n, size |-> s]} /\ total' = total + s
            BY <2>2, EntryRead
        <3>2. PICK s \in FileSizes(n) :
                listed' = listed \cup {[name |-> n, size |-> s]} /\ total' = total + s
            BY <3>1
        <3>3. s \in Nat /\ n \in Names
            BY <3>2, FileSizesTyped
        <3>4. listed' \subseteq [name : Names, size : Nat] /\ total' \in Int
            BY <3>2, <3>3
        <3> QED
            BY <2>2, <3>1, <3>4 DEF ReadEntry
    <2>3. CASE SkipEntry
        BY <2>3 DEF SkipEntry, Judge, SweepReturns
    <2>4. CASE DirEnds
        BY <2>4 DEF DirEnds, Judge, SweepReturns
    <2> QED
        BY <1>9, <2>1, <2>2, <2>3, <2>4 DEF DirStep
<1>10. CASE Evict
    <2>1. PICK e \in listed :
            /\ listed' = {d \in listed : d.name # e.name}
            /\ \/ disk' = [n \in DOMAIN disk \ {e.name} |-> disk[n]] /\ total' = total - e.size
               \/ UNCHANGED <<disk, total>>
        BY <1>10 DEF Evict, RemoveShard
    <2>2. total' \in Int
        BY <2>1
    <2>6. unread = {}
        BY <1>10 DEF Evict, KeepInv, SweepIsSafe
    <2>7. resolves' \in BOOLEAN
        <3>1. resolves' = resolves \/ resolves' = FALSE
            BY <1>10 DEF Evict
        <3> QED
            BY <3>1
    <2>3. DOMAIN disk' \in SUBSET DOMAIN disk /\ \A n \in DOMAIN disk' : disk'[n] = disk[n]
        BY <2>1
    <2>4. IsFiniteSet(DOMAIN disk')
        BY <2>3, FS_Subset
    <2>5. UNCHANGED <<world, writer, owner, stop, epc, unread, active>>
        BY <1>10 DEF Evict
    <2> QED
        BY <2>1, <2>2, <2>3, <2>4, <2>5, <2>6, <2>7
<1>11. CASE StopCall \/ StopJoins
    BY <1>11 DEF StopCall, StopJoins, Goes
<1>12. CASE Close
    BY <1>12 DEF Close
<1>13. CASE UNCHANGED vars
    BY <1>13 DEF vars
<1> QED
    BY <1>1, <1>2, <1>3, <1>4, <1>5, <1>6, <1>7, <1>8, <1>9, <1>10, <1>11, <1>12, <1>13
       DEF Next, WriterStep, EvictorStep, DirStep

\* The variables stay in their types: the sweep's sums are numbers, a frame is in
\* hand exactly while WriteFrame runs, and names stay in fixed-width order.
THEOREM TypeCorrect == Spec => []TypeOK
<1>1. Types => TypeOK
    BY DEF Types
<1> QED
    BY <1>1, KeepInit, KeepStep, TypeInit, TypeStep, PTL DEF Spec

-----------------------------------------------------------------------------
(* Calm histories.                                                           *)

\* current_size_ is the size of the open shard, whose next frame will fit in
\* shard_limit_ unless it comes first; all shards are whole.
Measured ==
    /\ \A n \in DOMAIN disk :
         /\ SizeOf(disk[n]) <= Limit \/ Len(disk[n].frames) = 1
         /\ (wpc = "header" /\ n = file) \/ disk[n].hdr = Hdr
         /\ \A i \in DOMAIN disk[n].frames : disk[n].frames[i].whole
    /\ wpc = "header" => size = 0 /\ disk[file].hdr = 0 /\ disk[file].frames = << >>
    /\ file # NoName => /\ size = SizeOf(disk[file])
                        /\ disk[file].frames = << >> \/ size > Hdr
    /\ wpc = "write" => disk[file].frames = << >> \/ size + frame[1].len <= Limit

\* The shard opened last has the last name.
NewestIsPath ==
    /\ \A n \in DOMAIN disk : n[1] <= clock
    /\ owner # "gone" /\ wpc # "open" => path \in DOMAIN disk
    /\ path \in DOMAIN disk => \A n \in DOMAIN disk : n = path \/ Before(n, path)
    /\ file = NoName => owner = "gone" \/ wpc = "open"
    /\ owner \in {"gone", "made", "stopped"} => epc = "off"

\* A sweep has listed, or is to list, the oldest shards, and has the oldest left to
\* do, up to the active one.
OldestListed ==
    /\ epc = "read" =>
         \A l \in Listed \cup unread, n \in DOMAIN disk \ (Listed \cup unread) : Before(l, n)
    /\ epc \in {"active", "remove"} =>
         \A l \in Listed, n \in DOMAIN disk \ Listed : Before(l, n)
    /\ epc = "remove" => \A l \in Listed : l = active \/ Before(l, active)

\* The frames on disk are the latest, in the order of the shards.
LatestInOrder ==
    /\ frame # << >> => frame[1].id = sent
    /\ \A m, n \in DOMAIN disk :
         \A i \in DOMAIN disk[m].frames, j \in DOMAIN disk[n].frames :
           Before(m, n) \/ (m = n /\ i < j) => disk[m].frames[i].id < disk[n].frames[j].id
    /\ \A n \in DOMAIN disk : \A i \in DOMAIN disk[n].frames :
         /\ disk[n].frames[i].id \in 1 .. sent - Len(frame)
         /\ disk[n].frames[i].id # sent - Len(frame) =>
              \E m \in DOMAIN disk : \E j \in DOMAIN disk[m].frames :
                 disk[m].frames[j].id = disk[n].frames[i].id + 1

CalmMeasured == calm => Measured
CalmNewest == calm => NewestIsPath
CalmOldest == calm => OldestListed
CalmLatest == calm => LatestInOrder

LEMMA ShardTyped ==
    ASSUME Types, NEW n \in DOMAIN disk
    PROVE  /\ disk[n].frames \in Seq(Entry) /\ disk[n].hdr \in Nat
           /\ SizeOf(disk[n]) \in Nat
<1>1. disk[n].frames \in Seq(Entry) /\ disk[n].hdr \in Nat
    BY SizesAssumption DEF Types, TypeOK
<1> QED
    BY <1>1, SizeOfIsNat

LEMMA FrameTyped ==
    ASSUME Types, frame # << >>
    PROVE  /\ Len(frame) = 1 /\ frame[1] \in [id : Nat, len : Nat] /\ frame[1].len > 0
<1>1. Len(frame) \in Nat /\ Len(frame) # 0 /\ Len(frame) <= 1
    BY EmptySeq, LenProperties DEF Types, TypeOK
<1>2. 1 \in 1 .. Len(frame) /\ 1 \in DOMAIN frame
    BY <1>1, LenProperties DEF Types, TypeOK
<1>3. frame[1] \in [id : Nat, len : Nat]
    BY <1>2, ElementOfSeq DEF Types, TypeOK
<1>4. frame[1].len > 0
    BY <1>2 DEF Types, FrameInHand
<1>5. Len(frame) = 1
    <2> DEFINE k == Len(frame)
    <2>1. k \in Nat /\ k # 0 /\ k <= 1
        BY <1>1
    <2> HIDE DEF k
    <2>2. k = 1
        BY <2>1
    <2> QED
        BY <2>2 DEF k
<1> QED
    BY <1>3, <1>4, <1>5

LEMMA CalmStays == [Next]_vars => calm' = calm
BY DEF Next, Tick, Create, WriteFrame, WriterStep, Open, WriteHeader, PutFrame, Flush,
       EvictorStep, Wake, OpenDir, ReadEntry, SkipEntry, DirEnds, ReadActive, Evict, SweepEnds, StopCall, StopJoins, Close,
       vars, world

\* What the writer does to the directory when nothing fails.
LEMMA CalmPut ==
    ASSUME Types, KeepInv, calm, PutFrame
    PROVE  LET e == [id |-> frame[1].id, len |-> frame[1].len, whole |-> TRUE]
           IN /\ disk' = [disk EXCEPT ![file].frames = Append(@, e)]
              /\ e \in Entry
              /\ size' = size + frame[1].len
              /\ wpc = "write" /\ wpc' = "idle" /\ frame # << >> /\ frame' = << >>
              /\ file \in DOMAIN disk
              /\ UNCHANGED <<clock, seq, file, path, sent, owner, epc, unread, listed, active>>
<1>1. wpc = "write" /\ file # NoName /\ frame # << >>
    BY DEF PutFrame, Types, FrameInHand
<1>2. file \in DOMAIN disk /\ resolves
    BY <1>1 DEF KeepInv, PathIsOpen
<1>3. frame[1] \in [id : Nat, len : Nat]
    BY <1>1, FrameTyped
<1>4. ~MayFail
    BY DEF MayFail
<1>5. /\ disk' = [disk EXCEPT ![file].frames = Append(@, [id |-> frame[1].id,
                     len |-> frame[1].len, whole |-> frame[1].len = frame[1].len])]
      /\ size' = size + frame[1].len
    BY <1>4, FileEdited DEF PutFrame
<1>6. (frame[1].len = frame[1].len) = TRUE
    OBVIOUS
<1>7. [id |-> frame[1].id, len |-> frame[1].len, whole |-> TRUE] \in Entry
    BY <1>3 DEF Entry
<1>8. /\ wpc' = "idle" /\ frame' = << >>
      /\ UNCHANGED <<clock, seq, file, path, sent, owner, epc, unread, listed, active>>
    BY DEF PutFrame, Idle, world, evictor
<1> QED
    BY <1>1, <1>2, <1>5, <1>6, <1>7, <1>8

LEMMA MeasuredInit == Init => CalmMeasured
<1> SUFFICES ASSUME Init PROVE Measured
    BY DEF CalmMeasured
<1>1. DOMAIN disk = {} /\ wpc = "idle" /\ file = NoName
    BY DEF Init
<1> QED
    BY <1>1 DEF Measured

LEMMA MeasuredStep == Types /\ KeepInv /\ CalmMeasured /\ [Next]_vars => CalmMeasured'
<1> SUFFICES ASSUME Types, KeepInv, calm, Measured, [Next]_vars PROVE Measured'
    BY CalmStays DEF CalmMeasured
<1>0. ~MayFail /\ Hdr \in Nat /\ Limit \in Nat /\ Hdr < Limit
    BY SizesAssumption DEF MayFail
<1>1. ASSUME UNCHANGED <<disk, file, size, frame, wpc>> PROVE Measured'
    BY <1>1 DEF Measured
<1>2. CASE Tick \/ Flush \/ Wake \/ DirStep \/ ReadActive \/ SweepEnds \/ StopCall \/ StopJoins
    BY <1>1, <1>2, DirSteps DEF Tick, Flush, Wake, ReadActive, SweepEnds, StopCall, StopJoins,
                                Goes, writer
<1>3. CASE Create
    <2>1. wpc = "idle" /\ wpc' = "open" /\ file' = NoName /\ disk' = disk
        BY <1>3 DEF Create, KeepInv, NamesAhead
    <2> QED
        BY <2>1 DEF Measured
<1>4. CASE Close
    <2>1. wpc = "idle" /\ wpc' = "idle" /\ file' = NoName /\ disk' = disk
        BY <1>4 DEF Close
    <2> QED
        BY <2>1 DEF Measured
<1>5. CASE WriteFrame
    <2>1. PICK len \in Lengths :
            /\ frame' = <<[id |-> sent', len |-> len]>>
            /\ wpc' = IF file = NoName \/ Rotates(len) THEN "open" ELSE "write"
        BY <1>5 DEF WriteFrame
    <2>2. wpc = "idle" /\ UNCHANGED <<disk, file, size>>
        BY <1>5 DEF WriteFrame
    <2>3. frame'[1].len = len
        BY <2>1
    <2>4. wpc' = "write" => file # NoName /\ (size <= Hdr \/ size + len <= Limit)
        <3>1. size \in Nat /\ len \in Nat
            BY SizesAssumption DEF Types, TypeOK
        <3> QED
            BY <1>0, <2>1, <3>1 DEF Rotates
    <2>5. wpc' = "write" => disk'[file'].frames = << >> \/ size' + frame'[1].len <= Limit
        <3>1. size \in Nat
            BY DEF Types, TypeOK
        <3> QED
            BY <1>0, <2>2, <2>3, <2>4, <3>1 DEF Measured
    <2>6. wpc' # "header"
        BY <2>1
    <2> QED
        BY <2>2, <2>5, <2>6 DEF Measured
<1>6. CASE Open
    <2> DEFINE new == [hdr |-> 0, frames |-> << >>]
    <2>1. /\ wpc' = "header" /\ file' = MakeShardName /\ size' = 0
          /\ disk' = [n \in DOMAIN disk \cup {file'} |-> IF n = file' THEN new ELSE disk[n]]
          /\ wpc = "open"
        BY <1>0, <1>6 DEF Open
    <2>2. SizeOf(new) = 0 /\ new.frames = << >> /\ new.hdr = 0
        BY SizeOfEmpty
    <2>3. DOMAIN disk' = DOMAIN disk \cup {file'} /\ disk'[file'] = new
          /\ \A n \in DOMAIN disk : n # file' => disk'[n] = disk[n]
        BY <2>1
    <2> HIDE DEF new
    <2>4. \A n \in DOMAIN new.frames : FALSE
        BY <2>2
    <2>5. ASSUME NEW n \in DOMAIN disk'
          PROVE  /\ SizeOf(disk'[n]) <= Limit \/ Len(disk'[n].frames) = 1
                 /\ (wpc' = "header" /\ n = file') \/ disk'[n].hdr = Hdr
                 /\ \A i \in DOMAIN disk'[n].frames : disk'[n].frames[i].whole
        <3>1. CASE n = file'
            BY <1>0, <2>1, <2>2, <2>3, <2>4, <3>1
        <3>2. CASE n # file'
            BY <2>1, <2>3, <3>2 DEF Measured
        <3> QED
            BY <3>1, <3>2
    <2>6. size' = SizeOf(disk'[file']) /\ disk'[file'].frames = << >> /\ disk'[file'].hdr = 0
        BY <2>1, <2>2, <2>3
    <2> QED
        BY <2>1, <2>5, <2>6 DEF Measured
<1>7. CASE WriteHeader
    <2>1. /\ disk' = [disk EXCEPT ![file].hdr = Hdr] /\ size' = Hdr
          /\ wpc = "header" /\ file' = file /\ wpc' \in {"idle", "write"}
        BY <1>0, <1>7, FileEdited DEF WriteHeader, Idle
    <2>2. file \in DOMAIN disk
        BY <2>1 DEF Types, FrameInHand, KeepInv, PathIsOpen
    <2>3. disk[file].frames = << >>
        BY <2>1 DEF Measured
    <2>4. DOMAIN disk' = DOMAIN disk /\ disk'[file].hdr = Hdr /\ disk'[file].frames = << >>
          /\ \A n \in DOMAIN disk : n # file => disk'[n] = disk[n]
        BY <2>1, <2>2, <2>3 DEF Types, TypeOK
    <2>5. SizeOf(disk'[file]) = Hdr
        BY <1>0, <2>4, SizeOfEmpty
    <2>6. ASSUME NEW n \in DOMAIN disk'
          PROVE  /\ SizeOf(disk'[n]) <= Limit \/ Len(disk'[n].frames) = 1
                 /\ disk'[n].hdr = Hdr
                 /\ \A i \in DOMAIN disk'[n].frames : disk'[n].frames[i].whole
        <3>1. CASE n = file
            BY <1>0, <2>4, <2>5, <3>1
        <3>2. CASE n # file
            BY <2>4, <3>2 DEF Measured
        <3> QED
            BY <3>1, <3>2
    <2> QED
        BY <2>1, <2>4, <2>5, <2>6 DEF Measured
<1>8. CASE PutFrame
    <2> DEFINE e == [id |-> frame[1].id, len |-> frame[1].len, whole |-> TRUE]
    <2>1. /\ disk' = [disk EXCEPT ![file].frames = Append(@, e)]
          /\ e \in Entry /\ e.len = frame[1].len /\ e.whole = TRUE
          /\ size' = size + e.len
          /\ wpc = "write" /\ wpc' = "idle" /\ frame # << >> /\ file' = file
          /\ file \in DOMAIN disk
        BY <1>8, CalmPut
    <2> HIDE DEF e
    <2>2. /\ disk[file].frames \in Seq(Entry) /\ disk[file].hdr \in Nat
          /\ SizeOf(disk[file]) \in Nat
        BY <2>1, ShardTyped
    <2>3. DOMAIN disk' = DOMAIN disk /\ disk'[file].frames = Append(disk[file].frames, e)
          /\ disk'[file].hdr = disk[file].hdr
          /\ \A n \in DOMAIN disk : n # file => disk'[n] = disk[n]
        BY <2>1 DEF Types, TypeOK
    <2>4. SizeOf(disk'[file]) = SizeOf(disk[file]) + e.len
        <3> DEFINE old == disk[file]
                   grown == disk'[file]
        <3>1. grown.frames = Append(old.frames, e) /\ grown.hdr = old.hdr
              /\ old.frames \in Seq(Entry) /\ old.hdr \in Nat /\ e \in Entry
            BY <2>1, <2>2, <2>3
        <3> HIDE DEF old, grown
        <3>2. SizeOf(grown) = SizeOf(old) + e.len
            BY <3>1, SizeOfAppend
        <3> QED
            BY <3>2 DEF old, grown
    <2>5. e.len \in Nat \ {0} /\ size = SizeOf(disk[file]) /\ file # NoName
        BY <2>1, FrameTyped DEF Measured, Types, FrameInHand
    <2>6. disk[file].hdr = Hdr
        BY <2>1 DEF Measured
    <2>7. size' > Hdr
        <3>1. CASE disk[file].frames = << >>
            <4>1. SizeOf(disk[file]) = Hdr
                BY <2>2, <2>6, <3>1, SizeOfEmpty
            <4> QED
                BY <1>0, <2>1, <2>5, <4>1
        <3>2. CASE size > Hdr
            BY <1>0, <2>1, <2>2, <2>5, <3>2
        <3> QED
            BY <2>5, <3>1, <3>2 DEF Measured
    <2>8. SizeOf(disk'[file]) <= Limit \/ Len(disk'[file].frames) = 1
        <3>1. CASE disk[file].frames = << >>
            <4>1. Len(disk'[file].frames) = Len(disk[file].frames) + 1
                BY <2>1, <2>2, <2>3, AppendProperties
            <4>2. Len(disk[file].frames) = 0
                BY <3>1
            <4> QED
                BY <4>1, <4>2
        <3>2. CASE size + frame[1].len <= Limit
            BY <2>1, <2>4, <2>5, <3>2
        <3> QED
            BY <2>1, <3>1, <3>2 DEF Measured
    <2>9. \A i \in DOMAIN disk'[file].frames : disk'[file].frames[i].whole
        <3>1. \A i \in DOMAIN disk[file].frames : disk[file].frames[i].whole
            BY <2>1 DEF Measured
        <3>2. \A i \in DOMAIN disk'[file].frames :
                 \/ i \in DOMAIN disk[file].frames /\ disk'[file].frames[i] = disk[file].frames[i]
                 \/ disk'[file].frames[i] = e
            <4> DEFINE fs == disk[file].frames
            <4>1. fs \in Seq(Entry) /\ disk'[file].frames = Append(fs, e)
                BY <2>2, <2>3
            <4> HIDE DEF fs
            <4>2. /\ Len(fs) \in Nat /\ DOMAIN fs = 1 .. Len(fs)
                  /\ DOMAIN Append(fs, e) = 1 .. Len(fs) + 1
                  /\ \A i \in 1 .. Len(fs) : Append(fs, e)[i] = fs[i]
                  /\ Append(fs, e)[Len(fs) + 1] = e
                BY <2>1, <4>1, AppendProperties, LenProperties
            <4>3. \A i \in DOMAIN Append(fs, e) :
                    (i \in DOMAIN fs /\ Append(fs, e)[i] = fs[i]) \/ Append(fs, e)[i] = e
                BY <4>2
            <4> QED
                BY <4>1, <4>3 DEF fs
        <3> QED
            BY <2>1, <3>1, <3>2
    <2>10. ASSUME NEW n \in DOMAIN disk'
          PROVE  /\ SizeOf(disk'[n]) <= Limit \/ Len(disk'[n].frames) = 1
                 /\ disk'[n].hdr = Hdr
                 /\ \A i \in DOMAIN disk'[n].frames : disk'[n].frames[i].whole
        <3>1. CASE n = file
            BY <2>3, <2>6, <2>8, <2>9, <3>1
        <3>2. CASE n # file
            BY <2>1, <2>3, <3>2 DEF Measured
        <3> QED
            BY <3>1, <3>2
    <2>11. size' = SizeOf(disk'[file])
        BY <2>1, <2>4, <2>5
    <2> QED
        BY <2>1, <2>7, <2>10, <2>11 DEF Measured
<1>9. CASE Evict
    <2>1. /\ DOMAIN disk' \subseteq DOMAIN disk
          /\ \A n \in DOMAIN disk' : disk'[n] = disk[n]
          /\ UNCHANGED <<file, size, frame, wpc>>
        BY <1>9 DEF Evict, RemoveShard, writer
    <2>2. file' # NoName => file' \in DOMAIN disk'
        BY KeepStep, CalmStays DEF KeepInv, PathIsOpen
    <2>3. wpc' \in {"header", "write"} => file' # NoName
        BY <2>1 DEF Types, FrameInHand
    <2> QED
        BY <2>1, <2>2, <2>3 DEF Measured
<1>10. CASE UNCHANGED vars
    BY <1>1, <1>10 DEF vars, writer
<1> QED
    BY <1>2, <1>3, <1>4, <1>5, <1>6, <1>7, <1>8, <1>9, <1>10
       DEF Next, WriterStep, EvictorStep, DirStep

LEMMA MeasuredAlways == Spec => [](Types /\ KeepInv /\ CalmMeasured)
BY KeepInit, KeepStep, TypeInit, TypeStep, MeasuredInit, MeasuredStep, PTL DEF Spec

\* A shard rotates in time (shard_writer.cpp:62-82): while nothing fails, no history
\* of frames, rotations, evictions and restarts lets one outgrow shard_limit_, save
\* for a single frame that fits in no shard.
THEOREM StaysWithinLimit == Spec => []WithinLimit
<1>1. CalmMeasured => WithinLimit
    BY DEF CalmMeasured, Measured, WithinLimit
<1> QED
    BY <1>1, MeasuredAlways, PTL

-----------------------------------------------------------------------------
(* What the auditor reads in a calm history.                                 *)

\* A new shard comes after every shard there is.
LEMMA OpenIsNewest ==
    ASSUME Types, KeepInv, calm, NewestIsPath, Open
    PROVE  /\ \A n \in DOMAIN disk : Before(n, path')
           /\ path' = <<clock, seq>> /\ path' \in Names /\ path' \notin DOMAIN disk
           /\ disk' = [n \in DOMAIN disk \cup {path'} |->
                         IF n = path' THEN [hdr |-> 0, frames |-> << >>] ELSE disk[n]]
           /\ file' = path' /\ wpc' = "header" /\ wpc = "open"
           /\ UNCHANGED <<clock, owner, epc, unread, listed, active, frame, sent>>
<1>1. path' = <<clock, seq>> /\ wpc = "open"
    BY DEF Open, MakeShardName
<1>2. \A n \in DOMAIN disk : n[1] \in Nat /\ n[2] \in Nat /\ n[1] <= clock
                             /\ (n[1] = clock => n[2] < seq)
    BY <1>1 DEF Types, TypeOK, Names, KeepInv, NamesAhead, NewestIsPath
<1>3. clock \in Nat /\ seq \in Nat
    BY DEF Types, TypeOK
<1>4. path'[1] = clock /\ path'[2] = seq /\ path' \in Names
    BY <1>1, <1>3 DEF Names
<1>5. \A n \in DOMAIN disk : Before(n, path')
    BY <1>2, <1>3, <1>4 DEF Before
<1>6. path' \notin DOMAIN disk
    BY <1>2, <1>3, <1>4
<1>7. ~MayFail
    BY DEF MayFail
<1> QED
    BY <1>1, <1>4, <1>5, <1>6, <1>7 DEF Open, world, evictor

LEMMA BeforeOrder ==
    /\ \A m, n \in Names : ~(Before(m, n) /\ Before(n, m)) /\ ~Before(m, m)
    /\ \A m, n \in Names : m = n \/ Before(m, n) \/ Before(n, m)
    /\ \A l, m, n \in Names : Before(l, m) /\ Before(m, n) => Before(l, n)
BY DEF Before, Names

LEMMA NewestInit == Init => CalmNewest
<1> SUFFICES ASSUME Init PROVE NewestIsPath
    BY DEF CalmNewest
<1>1. DOMAIN disk = {} /\ owner = "gone" /\ epc = "off"
    BY DEF Init
<1> QED
    BY <1>1 DEF NewestIsPath

LEMMA NewestStep ==
    Types /\ KeepInv /\ CalmMeasured /\ CalmNewest /\ [Next]_vars => CalmNewest'
<1> SUFFICES ASSUME Types, KeepInv, calm, Measured, NewestIsPath, [Next]_vars
             PROVE  NewestIsPath'
    BY CalmStays DEF CalmMeasured, CalmNewest
<1>0. ~MayFail
    BY DEF MayFail
<1>1. CASE Tick
    <2>1. clock' > clock /\ clock \in Nat /\ clock' \in Nat
        BY <1>1, SizesAssumption DEF Tick, Types, TypeOK
    <2>2. \A n \in DOMAIN disk : n[1] \in Nat
        BY DEF Types, TypeOK, Names
    <2>3. UNCHANGED <<disk, writer, owner, stop, evictor>>
        BY <1>1 DEF Tick
    <2>4. \A n \in DOMAIN disk' : n[1] <= clock'
        BY <2>1, <2>2, <2>3 DEF NewestIsPath
    <2> QED
        BY <2>3, <2>4 DEF NewestIsPath, writer, evictor
<1>2. CASE Create
    <2>1. NoName \notin DOMAIN disk
        BY NoNameAssumption DEF Types, TypeOK, Names
    <2> QED
        BY <1>2, <2>1 DEF Create, NewestIsPath, world, evictor
<1>3. CASE WriteFrame
    BY <1>3 DEF WriteFrame, NewestIsPath, world, evictor
<1>4. CASE Open
    <2>1. DOMAIN disk' = DOMAIN disk \cup {path'} /\ path'[1] = clock /\ clock \in Nat
        BY <1>4, OpenIsNewest DEF Types, TypeOK
    <2>2. file' # NoName
        BY <1>4, OpenIsNewest, NoNameAssumption DEF Names
    <2> QED
        BY <1>4, <2>1, <2>2, OpenIsNewest DEF NewestIsPath
<1>5. CASE WriteHeader
    <2>1. /\ DOMAIN disk' = DOMAIN disk /\ wpc = "header" /\ wpc' # "open"
          /\ UNCHANGED <<clock, file, path>>
          /\ \/ owner' = "up"
             \/ UNCHANGED <<owner, epc>> /\ owner # "made"
        BY <1>0, <1>5 DEF WriteHeader, FileBecomes, Idle, world
    <2>2. owner # "gone" /\ file # NoName
        BY <2>1 DEF KeepInv, NamesAhead, Types, FrameInHand
    <2> QED
        BY <2>1, <2>2 DEF NewestIsPath
<1>6. CASE PutFrame
    <2>1. DOMAIN disk' = DOMAIN disk /\ wpc = "write"
          /\ UNCHANGED <<clock, file, path, owner, epc>>
        BY <1>6, CalmPut
    <2> QED
        BY <2>1 DEF NewestIsPath
<1>7. CASE Flush
    BY <1>7 DEF Flush, NewestIsPath, world, evictor
<1>8. CASE Wake \/ DirStep \/ ReadActive \/ SweepEnds
    <2>1. UNCHANGED <<disk, clock, owner, path, file, wpc>> /\ epc # "off"
        BY <1>8, DirSteps DEF Wake, ReadActive, SweepEnds, world, writer
    <2> QED
        BY <2>1 DEF NewestIsPath
<1>9. CASE Evict
    <2>1. /\ DOMAIN disk' \subseteq DOMAIN disk /\ epc = "remove"
          /\ UNCHANGED <<clock, owner, path, file, wpc, epc>>
        BY <1>9 DEF Evict, RemoveShard, world, writer
    <2>2. file' # NoName => file' \in DOMAIN disk' /\ file' = path'
        BY KeepStep, CalmStays DEF KeepInv, PathIsOpen
    <2> QED
        BY <2>1, <2>2 DEF NewestIsPath
<1>10. CASE StopCall \/ StopJoins \/ Close
    <2>1. CASE StopCall
        BY <2>1 DEF StopCall, NewestIsPath, world, writer, evictor
    <2>2. CASE StopJoins
        BY <2>2 DEF StopJoins, Goes, NewestIsPath, world, writer
    <2>3. CASE Close
        BY <2>3 DEF Close, NewestIsPath, world, evictor
    <2> QED
        BY <1>10, <2>1, <2>2, <2>3
<1>11. CASE UNCHANGED vars
    BY <1>11 DEF vars, NewestIsPath, world, writer, evictor
<1> QED
    BY <1>1, <1>2, <1>3, <1>4, <1>5, <1>6, <1>7, <1>8, <1>9, <1>10, <1>11
       DEF Next, WriterStep, EvictorStep, DirStep

LEMMA OldestInit == Init => CalmOldest
BY DEF Init, CalmOldest, OldestListed

LEMMA OldestStep ==
    Types /\ KeepInv /\ CalmNewest /\ CalmOldest /\ [Next]_vars => CalmOldest'
<1> SUFFICES ASSUME Types, KeepInv, calm, NewestIsPath, OldestListed, [Next]_vars
             PROVE  OldestListed'
    BY CalmStays DEF CalmNewest, CalmOldest
<1>0. ~MayFail
    BY DEF MayFail
<1>1. ASSUME DOMAIN disk' = DOMAIN disk, UNCHANGED <<epc, unread, listed, active>>
      PROVE  OldestListed'
    BY <1>1 DEF OldestListed, Listed
<1>2. CASE Tick \/ Create \/ WriteFrame \/ Flush \/ StopCall \/ Close
    BY <1>1, <1>2 DEF Tick, Create, WriteFrame, Flush, StopCall, Close, evictor
<1>3. ASSUME epc' \notin {"read", "active", "remove"} PROVE OldestListed'
    BY <1>3 DEF OldestListed
<1>4. CASE Wake \/ StopJoins \/ SweepEnds
    <2>1. epc' \notin {"read", "active", "remove"}
        BY <1>4 DEF Wake, StopJoins, SweepEnds, SweepReturns, Goes
    <2> QED
        BY <1>3, <2>1
<1>5. CASE Open
    <2>1. /\ DOMAIN disk' = DOMAIN disk \cup {path'}
          /\ \A n \in DOMAIN disk : Before(n, path')
          /\ UNCHANGED <<epc, unread, listed, active>>
        BY <1>5, OpenIsNewest
    <2>2. /\ epc \in {"read", "active", "remove"} => Listed \subseteq DOMAIN disk
          /\ unread \subseteq DOMAIN disk
        BY DEF KeepInv, SweepIsSafe
    <2>3. Listed' = Listed
        BY <2>1 DEF Listed
    <2> QED
        BY <2>1, <2>2, <2>3 DEF OldestListed
<1>6. CASE WriteHeader
    <2>1. DOMAIN disk' = DOMAIN disk /\ UNCHANGED <<unread, listed, active>>
          /\ (epc' = epc \/ epc' = "wait")
        BY <1>6 DEF WriteHeader, FileBecomes
    <2> QED
        BY <1>1, <1>3, <2>1
<1>7. CASE PutFrame
    <2>1. DOMAIN disk' = DOMAIN disk /\ UNCHANGED <<epc, unread, listed, active>>
        BY <1>7, CalmPut
    <2> QED
        BY <1>1, <2>1
<1>8. CASE DirStep
    <2>1. disk' = disk /\ epc' \in {"read", "active", "wait"}
          /\ (epc' = "active" => epc = "read" /\ listed' = listed)
        BY <1>8, DirSteps
    <2>2. CASE OpenDir
        <3>1. epc' = "read" /\ unread' = DOMAIN disk /\ Listed' = {}
            BY <1>0, <2>2 DEF OpenDir, Listed
        <3> QED
            BY <2>1, <3>1 DEF OldestListed
    <2>3. CASE ReadEntry
        <3> DEFINE Known == Listed \cup unread
        <3>1. PICK n \in DOMAIN disk :
                 Comes(n) /\ unread' = unread \ {n} /\ Listed' = Listed \cup {n}
            BY <2>3, EntryRead
        <3>2. epc = "read" /\ epc' = "read"
            BY <2>3 DEF ReadEntry
        <3>3. (Listed \cup unread)' = Known \cup {n}
            BY <3>1
        <3>4. \A l \in Known, m \in DOMAIN disk \ Known : Before(l, m)
            BY <3>2 DEF OldestListed
        <3>5. ASSUME n \notin Known, NEW m \in DOMAIN disk \ Known, m # n PROVE Before(n, m)
            <4>1. ~Before(m, n)
                BY <3>1, <3>5 DEF Comes, Listed
            <4> QED
                BY <3>5, <4>1, BeforeOrder DEF Types, TypeOK
        <3>6. \A l \in Known \cup {n}, m \in DOMAIN disk \ (Known \cup {n}) : Before(l, m)
            BY <3>4, <3>5
        <3> HIDE DEF Known
        <3> QED
            BY <2>1, <3>2, <3>3, <3>6 DEF OldestListed
    <2>4. CASE SkipEntry
        BY <1>0, <2>4 DEF SkipEntry
    <2>5. CASE DirEnds
        <3>1. unread = {} /\ epc = "read" /\ epc' \in {"active", "wait"}
            BY <2>5 DEF DirEnds, Judge, SweepReturns
        <3>2. CASE epc' = "active"
            <4>1. Listed' = Listed
                BY <2>1, <3>2 DEF Listed
            <4> QED
                BY <2>1, <3>1, <3>2, <4>1 DEF OldestListed
        <3> QED
            BY <1>3, <3>1, <3>2
    <2> QED
        BY <1>8, <2>2, <2>3, <2>4, <2>5 DEF DirStep
<1>9. CASE ReadActive
    <2>1. /\ epc = "active" /\ wpc = "idle" /\ active' = path /\ epc' = "remove"
          /\ UNCHANGED <<disk, listed>>
        BY <1>0, <1>9 DEF ReadActive
    <2>2. path \in DOMAIN disk /\ Listed \subseteq DOMAIN disk
        BY <2>1 DEF NewestIsPath, KeepInv, SweepIsSafe
    <2>3. \A l \in Listed : l = path \/ Before(l, path)
        BY <2>2 DEF NewestIsPath
    <2>4. Listed' = Listed
        BY <2>1 DEF Listed
    <2> QED
        BY <2>1, <2>3, <2>4 DEF OldestListed
<1>10. CASE Evict
    <2>1. PICK e \in listed :
            /\ listed' = {d \in listed : d.name # e.name}
            /\ \/ disk' = [n \in DOMAIN disk \ {e.name} |-> disk[n]]
               \/ e.name = active /\ disk' = disk
        BY <1>0, <1>10 DEF Evict, RemoveShard
    <2>2. epc = "remove" /\ UNCHANGED <<epc, active>>
        BY <1>10 DEF Evict
    <2>3. Listed' = Listed \ {e.name}
        BY <2>1 DEF Listed
    <2>4. \A l \in Listed : l = active \/ Before(l, active)
        BY <2>2 DEF OldestListed
    <2>5. ASSUME NEW l \in Listed', NEW n \in DOMAIN disk' \ Listed' PROVE Before(l, n)
        <3>1. CASE n \notin Listed
            BY <2>1, <2>2, <2>3, <3>1 DEF OldestListed
        <3>2. CASE n \in Listed
            <4>1. n = e.name
                BY <2>3, <2>5, <3>2
            <4>2. e.name = active
                BY <2>1, <2>5, <4>1
            <4> QED
                BY <2>3, <2>4, <4>1, <4>2
        <3> QED
            BY <3>1, <3>2
    <2> QED
        BY <2>2, <2>3, <2>4, <2>5 DEF OldestListed
<1>11. CASE UNCHANGED vars
    BY <1>1, <1>11 DEF vars, evictor
<1> QED
    BY <1>2, <1>4, <1>5, <1>6, <1>7, <1>8, <1>9, <1>10, <1>11
       DEF Next, WriterStep, EvictorStep, DirStep

LEMMA LatestInit == Init => CalmLatest
<1> SUFFICES ASSUME Init PROVE LatestInOrder
    BY DEF CalmLatest
<1>1. DOMAIN disk = {} /\ frame = << >>
    BY DEF Init
<1> QED
    BY <1>1 DEF LatestInOrder

LEMMA LatestStep ==
    Types /\ KeepInv /\ CalmMeasured /\ CalmNewest /\ CalmOldest /\ CalmLatest /\ [Next]_vars
      => CalmLatest'
<1> SUFFICES ASSUME Types, KeepInv, calm, Measured, NewestIsPath, OldestListed, LatestInOrder,
                    [Next]_vars
             PROVE  LatestInOrder'
    BY CalmStays DEF CalmMeasured, CalmNewest, CalmOldest, CalmLatest
<1>0. ~MayFail
    BY DEF MayFail
<1>1. ASSUME UNCHANGED <<disk, frame, sent>> PROVE LatestInOrder'
    BY <1>1 DEF LatestInOrder
<1>2. CASE Tick \/ Create \/ Flush \/ Wake \/ DirStep \/ ReadActive \/ SweepEnds \/ StopCall
           \/ StopJoins \/ Close
    BY <1>1, <1>2, DirSteps DEF Tick, Create, Flush, Wake, ReadActive, SweepEnds, StopCall,
                                StopJoins, Close, Goes, writer
<1>3. CASE WriteFrame
    <2>1. PICK len \in Lengths : frame' = <<[id |-> sent', len |-> len]>>
        BY <1>3 DEF WriteFrame
    <2>2. disk' = disk /\ sent' = sent + 1 /\ sent \in Nat /\ frame = << >>
        BY <1>3 DEF WriteFrame, Types, TypeOK
    <2>3. frame'[1].id = sent' /\ Len(frame') = 1 /\ Len(frame) = 0
        BY <2>1, <2>2
    <2>4. sent' - Len(frame') = sent - Len(frame)
        BY <2>2, <2>3
    <2> HIDE <2>1
    <2> QED
        BY <2>2, <2>3, <2>4 DEF LatestInOrder
<1>4. CASE Open
    <2>1. /\ DOMAIN disk' = DOMAIN disk \cup {path'}
          /\ disk'[path'].frames = << >>
          /\ \A n \in DOMAIN disk : disk'[n] = disk[n]
          /\ UNCHANGED <<frame, sent>>
        BY <1>4, OpenIsNewest
    <2>2. DOMAIN disk'[path'].frames = {}
        BY <2>1
    <2>3. \A n \in DOMAIN disk' : \A i \in DOMAIN disk'[n].frames :
             n \in DOMAIN disk /\ i \in DOMAIN disk[n].frames /\ disk'[n] = disk[n]
        BY <2>1, <2>2
    <2>4. \A n \in DOMAIN disk : n \in DOMAIN disk' /\ disk'[n] = disk[n]
        BY <2>1
    <2> QED
        BY <2>1, <2>3, <2>4 DEF LatestInOrder
<1>5. CASE WriteHeader
    <2>1. /\ disk' = [disk EXCEPT ![file].hdr = Hdr]
          /\ wpc = "header" /\ sent' = sent
          /\ (frame' = << >> /\ owner = "made") \/ frame' = frame
        BY <1>0, <1>5, FileEdited DEF WriteHeader, Idle
    <2>2. frame' = frame
        BY <2>1 DEF Types, FrameInHand
    <2>3. DOMAIN disk' = DOMAIN disk /\ \A n \in DOMAIN disk : disk'[n].frames = disk[n].frames
        BY <2>1 DEF Types, TypeOK
    <2> QED
        BY <2>1, <2>2, <2>3 DEF LatestInOrder
<1>6. CASE PutFrame
    <2> DEFINE e == [id |-> frame[1].id, len |-> frame[1].len, whole |-> TRUE]
               fs == disk[file].frames
               k == Len(fs)
               last == sent - Len(frame)
    <2>1. /\ disk' = [disk EXCEPT ![file].frames = Append(@, e)]
          /\ e \in Entry /\ e.id = frame[1].id
          /\ frame # << >> /\ frame' = << >> /\ sent' = sent
          /\ file \in DOMAIN disk /\ file = path
        BY <1>6, CalmPut DEF KeepInv, PathIsOpen, Types, FrameInHand
    <2>2. fs \in Seq(Entry)
        BY <2>1, ShardTyped
    <2>3. e.id = sent /\ sent \in Nat /\ last = sent - 1 /\ sent' - Len(frame') = last + 1
        BY <2>1, FrameTyped DEF LatestInOrder, Types, TypeOK
    <2> HIDE DEF e, last
    <2>4. /\ k \in Nat /\ DOMAIN fs = 1 .. k /\ DOMAIN Append(fs, e) = 1 .. k + 1
          /\ \A i \in 1 .. k : Append(fs, e)[i] = fs[i]
          /\ Append(fs, e)[k + 1] = e
        BY <2>1, <2>2, AppendProperties, LenProperties
    <2>5. DOMAIN disk' = DOMAIN disk /\ disk'[file].frames = Append(fs, e)
          /\ \A n \in DOMAIN disk : n # file => disk'[n].frames = disk[n].frames
        BY <2>1 DEF Types, TypeOK
    <2> HIDE DEF fs, k
    <2>6. /\ k + 1 \in DOMAIN disk'[file].frames /\ disk'[file].frames[k + 1].id = last + 1
          /\ file \in DOMAIN disk'
        <3>1. k + 1 \in 1 .. k + 1
            BY <2>4
        <3>2. e.id = last + 1
            BY <2>3
        <3>3. file \in DOMAIN disk'
            BY <2>1, <2>5
        <3> QED
            BY <2>4, <2>5, <3>1, <3>2, <3>3
    <2>7. \A n \in DOMAIN disk : \A i \in DOMAIN disk[n].frames :
            i \in DOMAIN disk'[n].frames /\ disk'[n].frames[i] = disk[n].frames[i]
        BY <2>4, <2>5 DEF fs
    <2>8. \A n \in DOMAIN disk' : \A i \in DOMAIN disk'[n].frames :
            (n = file /\ i = k + 1) \/ i \in DOMAIN disk[n].frames
        BY <2>4, <2>5 DEF fs
    <2>9. \A n \in DOMAIN disk : \A i \in DOMAIN disk[n].frames :
            disk[n].frames[i].id \in 1 .. last
        BY DEF LatestInOrder, last
    <2>10. last \in Int
        BY <2>3
    <2>11. ASSUME NEW m \in DOMAIN disk', NEW n \in DOMAIN disk',
                  NEW i \in DOMAIN disk'[m].frames, NEW j \in DOMAIN disk'[n].frames,
                  Before(m, n) \/ (m = n /\ i < j)
           PROVE  disk'[m].frames[i].id < disk'[n].frames[j].id
        <3>1. CASE i \in DOMAIN disk[m].frames /\ j \in DOMAIN disk[n].frames
            BY <2>5, <2>7, <2>11, <3>1 DEF LatestInOrder
        <3>2. CASE i \in DOMAIN disk[m].frames /\ n = file /\ j = k + 1
            BY <2>5, <2>6, <2>7, <2>9, <2>10, <3>2
        <3>3. CASE m = file /\ i = k + 1
            <4>1. ~Before(file, n)
                BY <2>1, <2>5, BeforeOrder DEF NewestIsPath, Types, TypeOK
            <4>2. \A h \in DOMAIN disk'[file].frames : ~(k + 1 < h)
                BY <2>4, <2>5
            <4> QED
                BY <2>11, <3>3, <4>1, <4>2
        <3> QED
            BY <2>8, <3>1, <3>2, <3>3
    <2>12. ASSUME NEW n \in DOMAIN disk', NEW i \in DOMAIN disk'[n].frames
           PROVE  /\ disk'[n].frames[i].id \in 1 .. last + 1
                  /\ disk'[n].frames[i].id # last + 1 =>
                       \E m \in DOMAIN disk' : \E j \in DOMAIN disk'[m].frames :
                          disk'[m].frames[j].id = disk'[n].frames[i].id + 1
        <3>1. CASE n = file /\ i = k + 1
            <4>1. last + 1 \in 1 .. last + 1
                <5>1. frame[1] \in [id : Nat, len : Nat] /\ e.id = frame[1].id
                    BY <2>1, FrameTyped
                <5>2. sent > 0
                    BY <2>1 DEF Types, FrameInHand
                <5> QED
                    BY <2>3, <5>2
            <4> QED
                BY <2>6, <3>1, <4>1
        <3>2. CASE i \in DOMAIN disk[n].frames
            <4>1. disk'[n].frames[i] = disk[n].frames[i] /\ disk[n].frames[i].id \in 1 .. last
                BY <2>5, <2>7, <2>9, <3>2
            <4>2. CASE disk[n].frames[i].id = last
                BY <2>6, <2>10, <4>1, <4>2
            <4>3. CASE disk[n].frames[i].id # last
                <5>1. PICK m \in DOMAIN disk : \E j \in DOMAIN disk[m].frames :
                          disk[m].frames[j].id = disk[n].frames[i].id + 1
                    BY <2>5, <3>2, <4>3 DEF LatestInOrder, last
                <5> QED
                    BY <2>5, <2>7, <2>10, <4>1, <5>1
            <4> QED
                BY <4>2, <4>3
        <3> QED
            BY <2>8, <3>1, <3>2
    <2>13. \A n \in DOMAIN disk' : \A i \in DOMAIN disk'[n].frames :
              /\ disk'[n].frames[i].id \in 1 .. sent' - Len(frame')
              /\ disk'[n].frames[i].id # sent' - Len(frame') =>
                   \E m \in DOMAIN disk' : \E j \in DOMAIN disk'[m].frames :
                      disk'[m].frames[j].id = disk'[n].frames[i].id + 1
        BY <2>3, <2>12
    <2>14. \A m, n \in DOMAIN disk' :
             \A i \in DOMAIN disk'[m].frames, j \in DOMAIN disk'[n].frames :
               Before(m, n) \/ (m = n /\ i < j) => disk'[m].frames[i].id < disk'[n].frames[j].id
        BY <2>11
    <2>15. ~(frame' # << >>)
        BY <2>1
    <2> HIDE <2>1
    <2> QED
        BY <2>13, <2>14, <2>15 DEF LatestInOrder
<1>7. CASE Evict
    <2>1. PICK e \in listed :
            /\ \A d \in listed : d.name = e.name \/ Before(e.name, d.name)
            /\ \/ disk' = [n \in DOMAIN disk \ {e.name} |-> disk[n]]
               \/ disk' = disk
        BY <1>0, <1>7 DEF Evict, RemoveShard
    <2>2. epc = "remove" /\ UNCHANGED <<frame, sent>>
        BY <1>7 DEF Evict, writer
    <2>3. CASE disk' = disk
        BY <1>1, <2>2, <2>3
    <2>4. CASE disk' = [n \in DOMAIN disk \ {e.name} |-> disk[n]]
        <3>1. DOMAIN disk' = DOMAIN disk \ {e.name}
              /\ \A n \in DOMAIN disk' : disk'[n] = disk[n]
            BY <2>4
        <3>2. e.name \in DOMAIN disk
            BY <2>2 DEF KeepInv, SweepIsSafe, Listed
        <3>3. \A n \in DOMAIN disk' : Before(e.name, n)
            <4>1. \A n \in DOMAIN disk' : n \in Listed => Before(e.name, n)
                BY <2>1, <3>1 DEF Listed
            <4>2. \A n \in DOMAIN disk' : n \notin Listed => Before(e.name, n)
                BY <2>2, <3>1 DEF OldestListed, Listed
            <4> QED
                BY <4>1, <4>2
        <3>4. ASSUME NEW n \in DOMAIN disk', NEW i \in DOMAIN disk'[n].frames,
                     disk'[n].frames[i].id # sent' - Len(frame')
              PROVE  \E m \in DOMAIN disk' : \E j \in DOMAIN disk'[m].frames :
                        disk'[m].frames[j].id = disk'[n].frames[i].id + 1
            <4>1. n \in DOMAIN disk /\ i \in DOMAIN disk[n].frames /\ disk'[n] = disk[n]
                BY <3>1
            <4>2. PICK m \in DOMAIN disk : \E j \in DOMAIN disk[m].frames :
                      disk[m].frames[j].id = disk[n].frames[i].id + 1
                BY <2>2, <3>4, <4>1 DEF LatestInOrder
            <4>3. PICK j \in DOMAIN disk[m].frames :
                      disk[m].frames[j].id = disk[n].frames[i].id + 1
                BY <4>2
            <4>4. disk[n].frames[i].id \in Int
                BY <4>1 DEF LatestInOrder
            <4>5. m # e.name
                <5> SUFFICES ASSUME m = e.name PROVE FALSE
                    OBVIOUS
                <5>1. disk[m].frames[j].id < disk[n].frames[i].id
                    BY <3>3, <4>1 DEF LatestInOrder
                <5> QED
                    BY <4>3, <4>4, <5>1
            <4> QED
                BY <3>1, <4>1, <4>3, <4>5
        <3> QED
            BY <2>2, <3>1, <3>4 DEF LatestInOrder
    <2> QED
        BY <2>1, <2>3, <2>4
<1>8. CASE UNCHANGED vars
    BY <1>1, <1>8 DEF vars, writer
<1> QED
    BY <1>2, <1>3, <1>4, <1>5, <1>6, <1>7, <1>8 DEF Next, WriterStep, EvictorStep, DirStep

LEMMA LatestAlways ==
    Spec => [](Types /\ KeepInv /\ CalmMeasured /\ CalmNewest /\ CalmOldest /\ CalmLatest)
BY KeepInit, KeepStep, TypeInit, TypeStep, MeasuredInit, MeasuredStep, NewestInit, NewestStep,
   OldestInit, OldestStep, LatestInit, LatestStep, PTL DEF Spec

-----------------------------------------------------------------------------
(* DecodeShardDir: what the auditor makes of such a directory.               *)

LEMMA LastName ==
    ASSUME NEW S \in SUBSET Names, IsFiniteSet(S), S # {}
    PROVE  \E x \in S : \A y \in S : y = x \/ Before(y, x)
<1> DEFINE HasLast(T) == \E x \in T : \A y \in T : y = x \/ Before(y, x)
           Bad == {Cardinality(T) : T \in {U \in SUBSET S : U # {} /\ ~HasLast(U)}}
<1>0. \A T \in SUBSET S : IsFiniteSet(T) /\ Cardinality(T) \in Nat
    BY FS_Subset, FS_CardinalityType
<1>1. ASSUME NEW T \in SUBSET S, T # {},
             \A U \in SUBSET S : Cardinality(U) < Cardinality(T) /\ U # {} => HasLast(U)
      PROVE  HasLast(T)
    <2>1. PICK x \in T : TRUE
        BY <1>1
    <2>2. Cardinality(T \ {x}) = Cardinality(T) - 1
        BY <1>0, FS_RemoveElement
    <2>3. CASE T \ {x} = {}
        BY <2>3
    <2>4. CASE T \ {x} # {}
        <3>1. PICK m \in T \ {x} : \A y \in T \ {x} : y = m \/ Before(y, m)
            <4>1. T \ {x} \in SUBSET S /\ Cardinality(T \ {x}) < Cardinality(T)
                BY <1>0, <2>2
            <4>2. HasLast(T \ {x})
                BY <1>1, <2>4, <4>1
            <4> QED
                BY <4>2
        <3>2. CASE Before(x, m)
            BY <3>1, <3>2
        <3>3. CASE Before(m, x)
            <4>1. \A y \in T : y = x \/ Before(y, x)
                BY <3>1, <3>3, BeforeOrder
            <4> QED
                BY <4>1
        <3> QED
            BY <3>1, <3>2, <3>3, BeforeOrder
    <2> QED
        BY <2>3, <2>4
<1>2. Bad = {}
    <2> HIDE DEF HasLast
    <2> SUFFICES ASSUME Bad # {} PROVE FALSE
        OBVIOUS
    <2>1. Bad \in SUBSET Nat
        BY <1>0
    <2>2. PICK n \in Bad : \A m \in Bad : n <= m
        BY <2>1, Smallest
    <2>3. PICK T \in SUBSET S : T # {} /\ ~HasLast(T) /\ n = Cardinality(T)
        BY <2>2
    <2>4. ASSUME NEW U \in SUBSET S, Cardinality(U) < Cardinality(T), U # {} PROVE HasLast(U)
        BY <1>0, <2>2, <2>3, <2>4
    <2> QED
        BY <1>1, <2>3, <2>4
<1> QED
    BY <1>2

LEMMA OrderExists ==
    ASSUME NEW S \in SUBSET Names, IsFiniteSet(S)
    PROVE  \E s \in [1 .. Cardinality(S) -> S] :
              \A i, j \in DOMAIN s : i < j => Before(s[i], s[j])
<1> DEFINE HasOrder(T) == \E s \in [1 .. Cardinality(T) -> T] :
                             \A i, j \in 1 .. Cardinality(T) : i < j => Before(s[i], s[j])
           Bad == {Cardinality(T) : T \in {U \in SUBSET S : ~HasOrder(U)}}
<1>0. \A T \in SUBSET S : IsFiniteSet(T) /\ Cardinality(T) \in Nat
    BY FS_Subset, FS_CardinalityType
<1>1. ASSUME NEW T \in SUBSET S,
             \A U \in SUBSET S : Cardinality(U) < Cardinality(T) => HasOrder(U)
      PROVE  HasOrder(T)
    <2>1. CASE T = {}
        <3>1. Cardinality(T) = 0
            BY <2>1, FS_EmptySet
        <3>2. 1 .. 0 = {}
            OBVIOUS
        <3>3. [x \in {} |-> x] \in [1 .. Cardinality(T) -> T]
            BY <3>1, <3>2
        <3> QED
            BY <3>1, <3>2, <3>3
    <2>2. CASE T # {}
        <3>1. PICK x \in T : \A y \in T : y = x \/ Before(y, x)
            BY <1>0, <2>2, LastName
        <3> DEFINE k == Cardinality(T)
                   U == T \ {x}
        <3>2. k \in Nat \ {0} /\ Cardinality(U) = k - 1
            BY <1>0, <3>1, FS_RemoveElement, FS_EmptySet
        <3>3. PICK s \in [1 .. k - 1 -> U] : \A i, j \in 1 .. k - 1 : i < j => Before(s[i], s[j])
            BY <1>1, <3>2
        <3> HIDE DEF k
        <3> DEFINE t == [i \in 1 .. k |-> IF i = k THEN x ELSE s[i]]
        <3>4. \A i \in 1 .. k : i # k => i \in 1 .. k - 1
            BY <3>2
        <3>5. t \in [1 .. k -> T]
            BY <3>3, <3>4
        <3>6. ASSUME NEW i \in 1 .. k, NEW j \in 1 .. k, i < j PROVE Before(t[i], t[j])
            <4>1. i # k /\ i \in 1 .. k - 1 /\ t[i] = s[i]
                BY <3>2, <3>4, <3>6
            <4>2. CASE j = k
                BY <3>1, <3>3, <4>1, <4>2
            <4>3. CASE j # k
                BY <3>3, <3>4, <3>6, <4>1, <4>3
            <4> QED
                BY <4>2, <4>3
        <3> HIDE DEF t
        <3> QED
            BY <3>5, <3>6 DEF k
    <2> QED
        BY <2>1, <2>2
<1>2. Bad = {}
    <2> HIDE DEF HasOrder
    <2> SUFFICES ASSUME Bad # {} PROVE FALSE
        OBVIOUS
    <2>1. Bad \in SUBSET Nat
        BY <1>0
    <2>2. PICK n \in Bad : \A m \in Bad : n <= m
        BY <2>1, Smallest
    <2>3. PICK T \in SUBSET S : ~HasOrder(T) /\ n = Cardinality(T)
        BY <2>2
    <2>4. ASSUME NEW U \in SUBSET S, Cardinality(U) < Cardinality(T) PROVE HasOrder(U)
        BY <1>0, <2>2, <2>3, <2>4
    <2> QED
        BY <1>1, <2>3, <2>4
<1>3. HasOrder(S)
    <2> HIDE DEF HasOrder
    <2> QED
        BY <1>2
<1> QED
    BY <1>3

LEMMA NameOrder ==
    ASSUME NEW S \in SUBSET Names, IsFiniteSet(S)
    PROVE  /\ InNameOrder(S) \in [1 .. Cardinality(S) -> S] /\ Cardinality(S) \in Nat
           /\ \A i, j \in 1 .. Cardinality(S) :
                 i < j => Before(InNameOrder(S)[i], InNameOrder(S)[j])
           /\ \A n \in S : \E i \in 1 .. Cardinality(S) : InNameOrder(S)[i] = n
<1> DEFINE k == Cardinality(S)
           s == InNameOrder(S)
<1>1. k \in Nat
    BY FS_CardinalityType
<1>2. s \in [1 .. k -> S] /\ \A i, j \in DOMAIN s : i < j => Before(s[i], s[j])
    BY OrderExists DEF InNameOrder
<1>3. IsFiniteSet(1 .. k) /\ Cardinality(1 .. k) = k
    BY <1>1, FS_Interval
<1> HIDE DEF k, s
<1>4. \A i, j \in 1 .. k : s[i] = s[j] => i = j
    <2> SUFFICES ASSUME NEW i \in 1 .. k, NEW j \in 1 .. k, s[i] = s[j], i # j PROVE FALSE
        OBVIOUS
    <2>1. Before(s[i], s[j]) \/ Before(s[j], s[i])
        BY <1>1, <1>2
    <2> QED
        BY <1>2, <2>1, BeforeOrder
<1>5. s \in Injection(1 .. k, S)
    BY <1>2, <1>4 DEF Injection, IsInjective
<1>6. s \in Surjection(1 .. k, S)
    BY <1>3, <1>5, FS_Injection DEF k
<1>7. \A n \in S : \E i \in 1 .. k : s[i] = n
    BY <1>6 DEF Surjection
<1> QED
    BY <1>1, <1>2, <1>7 DEF k, s

\* One number after the other.
Increasing(r) == \A i, j \in DOMAIN r : i < j => r[i] < r[j]

LEMMA ConcatIncreasing ==
    ASSUME NEW r \in Seq(Nat), NEW t \in Seq(Nat), Increasing(r), Increasing(t),
           \A x \in ToSet(r), y \in ToSet(t) : x < y
    PROVE  r \o t \in Seq(Nat) /\ Increasing(r \o t) /\ ToSet(r \o t) = ToSet(r) \cup ToSet(t)
<1> DEFINE m == Len(r)
           n == Len(t)
           c == r \o t
<1>1. /\ c \in Seq(Nat) /\ Len(c) = m + n
      /\ \A i \in 1 .. m + n : c[i] = IF i <= m THEN r[i] ELSE t[i - m]
    BY ConcatProperties
<1>2. m \in Nat /\ n \in Nat /\ DOMAIN r = 1 .. m /\ DOMAIN t = 1 .. n /\ DOMAIN c = 1 .. m + n
    BY <1>1, LenProperties
<1> HIDE DEF m, n, c
<1>3. \A i \in 1 .. m + n : \/ i \in 1 .. m /\ c[i] = r[i]
                            \/ i > m /\ i - m \in 1 .. n /\ c[i] = t[i - m]
    BY <1>1, <1>2
<1>4. \A i \in 1 .. m : i \in 1 .. m + n /\ c[i] = r[i]
    BY <1>1, <1>2
<1>5. \A i \in 1 .. n : i + m \in 1 .. m + n /\ c[i + m] = t[i]
    BY <1>1, <1>2
<1>6. ToSet(c) = ToSet(r) \cup ToSet(t)
    <2>1. ToSet(c) \subseteq ToSet(r) \cup ToSet(t)
        BY <1>2, <1>3 DEF ToSet
    <2>2. ToSet(r) \subseteq ToSet(c)
        BY <1>2, <1>4 DEF ToSet
    <2>3. ToSet(t) \subseteq ToSet(c)
        BY <1>2, <1>5 DEF ToSet
    <2> QED
        BY <2>1, <2>2, <2>3
<1>7. ASSUME NEW i \in 1 .. m + n, NEW j \in 1 .. m + n, i < j PROVE c[i] < c[j]
    <2>1. CASE j <= m
        <3>1. i \in 1 .. m /\ j \in 1 .. m
            BY <1>2, <1>7, <2>1
        <3> QED
            BY <1>2, <1>4, <1>7, <3>1 DEF Increasing
    <2>2. CASE i > m
        <3>1. i - m \in 1 .. n /\ j - m \in 1 .. n /\ i - m < j - m
            BY <1>2, <1>7, <2>2
        <3>2. c[i] = t[i - m] /\ c[j] = t[j - m]
            BY <1>2, <1>3, <1>7, <2>2
        <3> QED
            BY <1>2, <3>1, <3>2 DEF Increasing
    <2>3. CASE i <= m /\ j > m
        <3>1. i \in 1 .. m /\ c[i] = r[i]
            BY <1>2, <1>3, <2>3
        <3>2. j - m \in 1 .. n /\ c[j] = t[j - m]
            BY <1>2, <1>3, <2>3
        <3>3. r[i] \in ToSet(r) /\ t[j - m] \in ToSet(t)
            BY <1>2, <3>1, <3>2 DEF ToSet
        <3> QED
            BY <3>1, <3>2, <3>3
    <2> QED
        BY <1>2, <2>1, <2>2, <2>3
<1> QED
    BY <1>1, <1>2, <1>6, <1>7 DEF Increasing, c

Flattens(fl, k, q) == fl = [i \in 1 .. k |-> IF i = 1 THEN q[i] ELSE fl[i - 1] \o q[i]]

LEMMA FlattenExists ==
    ASSUME NEW k \in Nat \ {0}, NEW q
    PROVE  \E fl : Flattens(fl, k, q)
<1> DEFINE Bad == {n \in Nat \ {0} : ~ \E fl : Flattens(fl, n, q)}
<1>1. Flattens([i \in 1 .. 1 |-> q[i]], 1, q)
    <2>1. \A i \in 1 .. 1 : i = 1
        OBVIOUS
    <2> QED
        BY <2>1 DEF Flattens
<1>2. ASSUME NEW n \in Nat \ {0}, NEW h, Flattens(h, n, q)
      PROVE  \E fl : Flattens(fl, n + 1, q)
    <2> DEFINE g == [i \in 1 .. n + 1 |-> IF i = 1 THEN q[i] ELSE h[i - 1] \o q[i]]
    <2>1. ASSUME NEW i \in 1 .. n PROVE i \in 1 .. n + 1 /\ h[i] = g[i]
        <3>1. i \in 1 .. n + 1
            OBVIOUS
        <3>2. h[i] = IF i = 1 THEN q[i] ELSE h[i - 1] \o q[i]
            BY <1>2 DEF Flattens
        <3> QED
            BY <3>1, <3>2
    <2>2. \A i \in 1 .. n + 1 : i # 1 => i - 1 \in 1 .. n
        OBVIOUS
    <2>3. \A i \in 1 .. n + 1 : i # 1 => h[i - 1] = g[i - 1]
        BY <2>1, <2>2
    <2>4. Flattens(g, n + 1, q)
        BY <2>3 DEF Flattens
    <2> QED
        BY <2>4
<1>3. Bad = {}
    <2> SUFFICES ASSUME Bad # {} PROVE FALSE
        OBVIOUS
    <2>1. PICK n \in Bad : \A m \in Bad : n <= m
        BY Smallest
    <2>2. n # 1
        BY <1>1, <2>1
    <2>3. n - 1 \in Nat \ {0} /\ n - 1 \notin Bad
        BY <2>1, <2>2
    <2>4. PICK h : Flattens(h, n - 1, q)
        BY <2>3
    <2>5. \E fl : Flattens(fl, n - 1 + 1, q)
        BY <1>2, <2>3, <2>4
    <2>6. n - 1 + 1 = n
        BY <2>1
    <2> QED
        BY <2>1, <2>5, <2>6
<1> QED
    BY <1>3

\* Increasing sequences in increasing order flatten to one, with all their elements.
LEMMA FlattenIncreasing ==
    ASSUME NEW k \in Nat \ {0}, NEW q \in [1 .. k -> Seq(Nat)],
           \A h \in 1 .. k : Increasing(q[h]),
           \A g, h \in 1 .. k : g < h => \A x \in ToSet(q[g]), y \in ToSet(q[h]) : x < y
    PROVE  /\ FlattenSeq(q) \in Seq(Nat) /\ Increasing(FlattenSeq(q))
           /\ ToSet(FlattenSeq(q)) = UNION {ToSet(q[h]) : h \in 1 .. k}
<1> DEFINE flat == CHOOSE fl : Flattens(fl, k, q)
           All(i) == UNION {ToSet(q[h]) : h \in 1 .. i}
           Good(i) == flat[i] \in Seq(Nat) /\ Increasing(flat[i]) /\ ToSet(flat[i]) = All(i)
           Bad == {i \in 1 .. k : ~Good(i)}
<1>1. Flattens(flat, k, q)
    BY FlattenExists
<1>2. FlattenSeq(q) = flat[k]
    <2>1. Len(q) = k
        <3>1. q \in Seq(Seq(Nat))
            BY SeqDef
        <3>2. Len(q) \in Nat /\ DOMAIN q = 1 .. Len(q)
            BY <3>1, LenProperties
        <3>3. 1 .. Len(q) = 1 .. k
            BY <3>2
        <3> QED
            BY <3>2, <3>3
    <2> QED
        BY <2>1 DEF FlattenSeq, Flattens
<1> HIDE DEF flat
<1>3. Good(1)
    <2>1. flat[1] = q[1] /\ 1 \in 1 .. k
        BY <1>1 DEF Flattens
    <2>2. All(1) = ToSet(q[1])
        OBVIOUS
    <2> QED
        BY <2>1, <2>2
<1>4. ASSUME NEW i \in 1 .. k, i # 1, Good(i - 1) PROVE Good(i)
    <2>1. flat[i] = flat[i - 1] \o q[i]
        BY <1>1, <1>4 DEF Flattens
    <2>2. \A x \in ToSet(flat[i - 1]), y \in ToSet(q[i]) : x < y
        <3> SUFFICES ASSUME NEW x \in ToSet(flat[i - 1]), NEW y \in ToSet(q[i]) PROVE x < y
            OBVIOUS
        <3>1. PICK h \in 1 .. i - 1 : x \in ToSet(q[h])
            BY <1>4
        <3>2. h \in 1 .. k /\ h < i
            OBVIOUS
        <3> QED
            BY <3>1, <3>2
    <2>3. All(i) = All(i - 1) \cup ToSet(q[i])
        <3>1. \A h : h \in 1 .. i <=> h \in 1 .. i - 1 \/ h = i
            OBVIOUS
        <3> QED
            BY <3>1
    <2>4. Increasing(q[i]) /\ q[i] \in Seq(Nat)
        OBVIOUS
    <2> HIDE DEF All
    <2> QED
        BY <1>4, <2>1, <2>2, <2>3, <2>4, ConcatIncreasing
<1>5. Bad = {}
    <2> HIDE DEF Good
    <2> SUFFICES ASSUME Bad # {} PROVE FALSE
        OBVIOUS
    <2>0. Bad \in SUBSET Nat
        OBVIOUS
    <2>1. PICK i \in Bad : \A m \in Bad : i <= m
        BY <2>0, Smallest
    <2>2. i # 1
        BY <1>3, <2>1
    <2>3. i - 1 \in 1 .. k /\ i - 1 \notin Bad
        BY <2>1, <2>2
    <2> QED
        BY <1>4, <2>1, <2>2, <2>3
<1>6. Good(k)
    <2> HIDE DEF Good
    <2>1. k \in 1 .. k
        OBVIOUS
    <2> QED
        BY <1>5, <2>1
<1> QED
    BY <1>2, <1>6

\* Numbers in increasing order, up to last and each with its successor, are a run.
LEMMA RunOfNumbers ==
    ASSUME NEW r \in Seq(Nat), Increasing(r), NEW last \in Int,
           \A i \in DOMAIN r : /\ r[i] <= last
                               /\ r[i] # last => \E j \in DOMAIN r : r[j] = r[i] + 1
    PROVE  r = [i \in 1 .. Len(r) |-> last - Len(r) + i]
<1> DEFINE m == Len(r)
           Bad == {d \in Nat : d < m /\ r[m - d] # last - d}
<1>1. m \in Nat /\ DOMAIN r = 1 .. m /\ \A i \in 1 .. m : r[i] \in Nat
    BY LenProperties, ElementOfSeq
<1>1a. r = [i \in 1 .. m |-> r[i]]
    BY <1>1, SeqDef
<1> HIDE DEF m
<1>2. m # 0 => r[m] = last
    <2> SUFFICES ASSUME m # 0, r[m] # last PROVE FALSE
        OBVIOUS
    <2>1. m \in 1 .. m
        BY <1>1
    <2>2. PICK j \in 1 .. m : r[j] = r[m] + 1
        BY <1>1, <2>1
    <2>3. CASE j = m
        BY <1>1, <2>1, <2>2, <2>3
    <2>4. CASE j # m
        <3>1. r[j] < r[m]
            BY <1>1, <2>1, <2>4 DEF Increasing
        <3> QED
            BY <1>1, <2>1, <2>2, <3>1
    <2> QED
        BY <2>3, <2>4
<1>3. ASSUME NEW i \in 1 .. m, i # m PROVE r[i + 1] = r[i] + 1
    <2>1. i + 1 \in 1 .. m /\ i < i + 1 /\ r[i] \in Nat /\ r[i + 1] \in Nat
        BY <1>1, <1>3
    <2>2. r[i] < r[i + 1]
        BY <1>1, <2>1 DEF Increasing
    <2>3. r[i] # last
        <3>1. r[i + 1] <= last
            BY <1>1, <2>1
        <3> QED
            BY <2>1, <2>2, <3>1
    <2>4. PICK j \in 1 .. m : r[j] = r[i] + 1
        BY <1>1, <2>3
    <2>5. j > i
        <3> SUFFICES ASSUME j < i \/ j = i PROVE FALSE
            BY <1>1
        <3>1. j < i => r[j] < r[i]
            BY <1>1 DEF Increasing
        <3> QED
            BY <1>1, <2>1, <2>4, <3>1
    <2>6. CASE j = i + 1
        BY <2>4, <2>6
    <2>7. CASE j > i + 1
        <3>1. r[i + 1] < r[j]
            BY <1>1, <2>1, <2>7 DEF Increasing
        <3> QED
            BY <2>1, <2>2, <2>4, <3>1
    <2> QED
        BY <1>1, <2>5, <2>6, <2>7
<1>4. Bad = {}
    <2> SUFFICES ASSUME Bad # {} PROVE FALSE
        OBVIOUS
    <2>1. PICK d \in Bad : \A e \in Bad : d <= e
        BY Smallest
    <2>2. d \in Nat /\ d < m /\ r[m - d] # last - d
        BY <2>1
    <2>3. d # 0
        <3> SUFFICES ASSUME d = 0 PROVE FALSE
            OBVIOUS
        <3>1. m # 0 /\ m - d = m /\ last - d = last
            BY <1>1, <2>2
        <3> QED
            BY <1>2, <2>2, <3>1
    <2>4. d - 1 \in Nat /\ d - 1 < m /\ d - 1 \notin Bad
        <3>1. d - 1 \in Nat /\ d - 1 < m /\ ~(d <= d - 1)
            BY <1>1, <2>2, <2>3
        <3> QED
            BY <2>1, <3>1
    <2>5. r[m - (d - 1)] = last - (d - 1)
        BY <2>4
    <2>6. m - d \in 1 .. m /\ m - d # m /\ m - (d - 1) = m - d + 1
        BY <1>1, <2>2, <2>3
    <2> DEFINE i == m - d
    <2>7. r[i + 1] = r[i] + 1 /\ r[i] \in Nat
        BY <1>1, <1>3, <2>6
    <2>8. r[i + 1] = last - (d - 1)
        BY <2>5, <2>6
    <2>9. r[i] # last - d
        BY <2>2
    <2> HIDE DEF i
    <2> QED
        BY <2>2, <2>7, <2>8, <2>9, SMTT(30)
<1>5. ASSUME NEW i \in 1 .. m PROVE r[i] = last - m + i
    <2>1. m - i \in Nat /\ m - i < m /\ m - (m - i) = i
        BY <1>1
    <2>2. r[m - (m - i)] = last - (m - i)
        BY <1>4, <2>1
    <2> QED
        BY <1>1, <2>1, <2>2
<1>6. r = [i \in 1 .. m |-> last - m + i]
    BY <1>1a, <1>5
<1> QED
    BY <1>6 DEF m


LEMMA DecodedShard ==
    ASSUME Types, LatestInOrder, NEW n \in DOMAIN disk
    PROVE  /\ DecodeShardFile(n) \in Seq(Nat) /\ Increasing(DecodeShardFile(n))
           /\ ToSet(DecodeShardFile(n)) = {disk[n].frames[i].id : i \in DOMAIN disk[n].frames}
<1> DEFINE fs == disk[n].frames
           k == Len(fs)
           r == DecodeShardFile(n)
<1>1. fs \in Seq(Entry)
    BY ShardTyped
<1>2. k \in Nat /\ DOMAIN fs = 1 .. k /\ \A i \in 1 .. k : fs[i] \in Entry
    BY <1>1, LenProperties, ElementOfSeq
<1>3. r = [i \in 1 .. k |-> fs[i].id]
    BY <1>2 DEF DecodeShardFile
<1>4. \A i, j \in DOMAIN fs : i < j => fs[i].id < fs[j].id
    BY DEF LatestInOrder
<1> HIDE DEF fs, k, r
<1>5. r \in [1 .. k -> Nat]
    BY <1>2, <1>3 DEF Entry
<1>6. r \in Seq(Nat)
    BY <1>2, <1>5, SeqDef
<1>7. Increasing(r)
    BY <1>2, <1>3, <1>4 DEF Increasing
<1>8. ToSet(r) = {fs[i].id : i \in DOMAIN fs}
    BY <1>2, <1>3 DEF ToSet
<1> QED
    BY <1>6, <1>7, <1>8 DEF fs, r

LEMMA RunOnDisk ==
    ASSUME Types, LatestInOrder
    PROVE  LET last == sent - Len(frame)
           IN DecodeShardDir = [i \in 1 .. Len(DecodeShardDir) |-> last - Len(DecodeShardDir) + i]
<1> DEFINE last == sent - Len(frame)
           k == Cardinality(DOMAIN disk)
           shards == InNameOrder(DOMAIN disk)
           seqs == [h \in 1 .. k |-> DecodeShardFile(shards[h])]
           read == FlattenSeq(seqs)
<1>1. DOMAIN disk \in SUBSET Names /\ IsFiniteSet(DOMAIN disk) /\ last \in Int
    BY LenProperties DEF Types, TypeOK
<1>2. /\ shards \in [1 .. k -> DOMAIN disk] /\ k \in Nat
      /\ \A i, j \in 1 .. k : i < j => Before(shards[i], shards[j])
      /\ \A n \in DOMAIN disk : \E i \in 1 .. k : shards[i] = n
    BY <1>1, NameOrder
<1>3. DecodeShardDir = read
    BY <1>2 DEF DecodeShardDir
<1> HIDE DEF shards, k
<1>4. CASE k = 0
    <2>1. 1 .. k = {}
        BY <1>4
    <2>2. seqs \in Seq(Nat) /\ Len(seqs) = 0
        <3>1. seqs = << >>
            BY <2>1
        <3> QED
            BY <3>1, EmptySeq
    <2>3. read = seqs
        BY <2>2 DEF FlattenSeq
    <2>4. DOMAIN read = {} /\ read = [i \in {} |-> last - Len(read) + i]
        BY <2>1, <2>3
    <2>5. 1 .. Len(read) = {}
        <3> HIDE DEF read, seqs
        <3>1. Len(read) = 0
            BY <2>2, <2>3
        <3> QED
            BY <3>1
    <2> QED
        BY <1>3, <2>4, <2>5
<1>5. CASE k # 0
    <2>1. ASSUME NEW h \in 1 .. k
          PROVE  /\ seqs[h] \in Seq(Nat) /\ Increasing(seqs[h])
                 /\ ToSet(seqs[h]) = {disk[shards[h]].frames[i].id :
                                        i \in DOMAIN disk[shards[h]].frames}
        BY <1>2, DecodedShard
    <2>2. ASSUME NEW g \in 1 .. k, NEW h \in 1 .. k, g < h,
                 NEW x \in ToSet(seqs[g]), NEW y \in ToSet(seqs[h])
          PROVE  x < y
        <3>1. /\ shards[g] \in DOMAIN disk /\ shards[h] \in DOMAIN disk
              /\ Before(shards[g], shards[h])
            BY <1>2, <2>2
        <3>2. PICK i \in DOMAIN disk[shards[g]].frames : x = disk[shards[g]].frames[i].id
            BY <2>1
        <3>3. PICK j \in DOMAIN disk[shards[h]].frames : y = disk[shards[h]].frames[j].id
            BY <2>1
        <3> QED
            BY <3>1, <3>2, <3>3 DEF LatestInOrder
    <2>3. k \in Nat \ {0} /\ seqs \in [1 .. k -> Seq(Nat)]
        BY <1>2, <1>5, <2>1
    <2>4. /\ read \in Seq(Nat) /\ Increasing(read)
          /\ ToSet(read) = UNION {ToSet(seqs[h]) : h \in 1 .. k}
        <3> HIDE DEF seqs
        <3> QED
            BY <2>1, <2>2, <2>3, FlattenIncreasing
    <2> HIDE DEF read, seqs
    <2>5. ASSUME NEW n \in DOMAIN disk, NEW i \in DOMAIN disk[n].frames
          PROVE  disk[n].frames[i].id \in ToSet(read)
        <3>1. PICK h \in 1 .. k : shards[h] = n
            BY <1>2
        <3>2. disk[n].frames[i].id \in ToSet(seqs[h])
            BY <2>1, <3>1
        <3> QED
            BY <2>4, <3>2
    <2>6. ASSUME NEW x \in ToSet(read)
          PROVE  x <= last /\ (x # last => x + 1 \in ToSet(read))
        <3>1. PICK h \in 1 .. k : x \in ToSet(seqs[h])
            BY <2>4
        <3>2. PICK i \in DOMAIN disk[shards[h]].frames : x = disk[shards[h]].frames[i].id
            BY <2>1, <3>1
        <3>3. shards[h] \in DOMAIN disk
            BY <1>2
        <3>4. x \in 1 .. last
            BY <3>2, <3>3 DEF LatestInOrder
        <3>5. ASSUME x # last PROVE x + 1 \in ToSet(read)
            <4>1. PICK m \in DOMAIN disk : \E j \in DOMAIN disk[m].frames :
                      disk[m].frames[j].id = x + 1
                BY <3>2, <3>3, <3>5 DEF LatestInOrder
            <4> QED
                BY <2>5, <4>1
        <3> QED
            BY <1>1, <3>4, <3>5
    <2>7. \A i \in DOMAIN read : /\ read[i] <= last
                                 /\ read[i] # last => \E j \in DOMAIN read : read[j] = read[i] + 1
        BY <2>6 DEF ToSet
    <2>8. read = [i \in 1 .. Len(read) |-> last - Len(read) + i]
        <3> HIDE DEF last
        <3> QED
            BY <1>1, <2>4, <2>7, RunOfNumbers
    <2> QED
        BY <1>3, <2>8
<1> QED
    BY <1>4, <1>5

\* The auditor reads the latest frames (shard_reader.cpp:141-164): while nothing fails
\* and the clock goes on, whatever was rotated, evicted or restarted, at every moment
\* the shards are whole and hold, in the order of their names, an unbroken run of
\* frames that ends with the last one written.
THEOREM AuditorReadsLatest == Spec => []AuditReadsLatest
<1>1. ASSUME Types, CalmMeasured, CalmLatest PROVE AuditReadsLatest
    <2> SUFFICES ASSUME calm PROVE AuditReadsLatest
        BY DEF AuditReadsLatest
    <2>1. Measured /\ LatestInOrder
        BY <1>1 DEF CalmMeasured, CalmLatest
    <2>2. \A n \in DOMAIN disk : (wpc = "header" /\ n = file) \/ Readable(disk[n])
        BY <2>1 DEF Measured, Readable
    <2> QED
        BY <1>1, <2>1, <2>2, RunOnDisk DEF AuditReadsLatest
<1> QED
    BY <1>1, LatestAlways, PTL

=============================================================================
