-------------------------- MODULE DurableLogProofs --------------------------
(* DurableLog keeps the contract of CrashSafeLog, for every size of frames,  *)
(* buffers and shards and any number of processes, crashes and failed calls: *)
(* what is on disk is a first part of what was logged and no failure took, a *)
(* crash costs what is not there yet, and Flush returns when all of it is.   *)
EXTENDS DurableLog, SequenceTheorems, FiniteSetTheorems, WellFoundedInduction, TLAPS

Cell  == [key : Nat, n : Nat, part : Nat, size : Nat]
Frame == [key : Nat, n : Nat, size : Nat]
Shard == [key : Nat, frames : Seq(Frame), disk : Int, torn : BOOLEAN, open : BOOLEAN,
          harm : {"none", "gap", "break"}]

Flushing == {"flushswap", "flushwait", "flushshard", "flushed"}
Clients  == [step : {"idle", "write", "swap"} \cup Flushing, size : Nat, target : SUBSET Nat]

USE DEF buffers

Types ==
    /\ cells \in [Buffers -> [1 .. Cap -> Cell]]
    /\ offset \in [Buffers -> 0 .. Cap + 1]
    /\ pool \in Nat /\ files \in 0 .. MaxFiles /\ master \in Buffers
    /\ free \in Seq(Buffers) /\ queue \in Seq(Buffers)
    /\ pos \in Nat
    /\ key \in Nat /\ procs \in Nat
    /\ shards \in Seq(Shard)
    /\ \A g \in DOMAIN shards : shards[g].disk \in -1 .. Len(shards[g].frames)
    /\ client \in Clients
    /\ next \in Nat /\ logged \in Seq(Nat) /\ left \in BOOLEAN /\ faults \in Nat

\* Every process has a key of its own, and leaves no drain behind.
Process ==
    /\ key \in {0, procs}
    /\ key = 0 => queue = << >> /\ client = Idle
    /\ queue = << >> => pos = 0
    /\ key # 0 => shards # << >> /\ Current.key = key
    /\ \A g \in DOMAIN shards : shards[g].key \in 1 .. procs
    /\ \A b \in Buffers : \A i \in 1 .. Cap : cells[b][i].key <= procs

\* The buffers with records in them, in the order in which they are drained.
Line == Append(queue, master)

Places ==
    key # 0 =>
        /\ IsInjective(Line) /\ IsInjective(free)
        /\ ToSet(Line) \cap ToSet(free) = {}
        /\ \A b \in ToSet(Line) \cup ToSet(free) : b <= files
        /\ \A b \in Buffers : b \notin ToSet(Line) => offset[b] = 0

\* A cell that this process has written. The others hold what crashes have left.
Live(b, i) == key # 0 /\ cells[b][i].key = key

\* The cell before the frame that a cell belongs to.
Base(b, i) == i - cells[b][i].part

\* What this process has written are whole frames, one behind the other from the
\* first cell on; up to offset_, unless an overrun has moved it.
Layout ==
    /\ \A b \in Buffers : \A i \in 1 .. Cap : Live(b, i) =>
         /\ cells[b][i].part \in 1 .. cells[b][i].size
         /\ Base(b, i) >= 0 /\ Base(b, i) + cells[b][i].size <= Used(b)
         /\ \A j \in Base(b, i) + 1 .. Base(b, i) + cells[b][i].size :
              cells[b][j] = [cells[b][i] EXCEPT !.part = j - Base(b, i)]
         /\ \A j \in 1 .. i : Live(b, j)
    /\ key # 0 =>
         \A b \in Buffers : offset[b] <= Cap => \A i \in 1 .. offset[b] : Live(b, i)

\* The walk is at the start of a frame or past the last one of this process.
Walk ==
    pos \in 1 .. Cap /\ Live(Head(queue), pos) => cells[Head(queue)][pos].part = 1

Done(b, i) == queue # << >> /\ b = Head(queue) /\ i < pos

\* The first cell of a frame that the drain has still to hand over.
Waiting(b, i) == Live(b, i) /\ cells[b][i].part = 1 /\ ~Done(b, i)

Own(g, i) == shards[g].frames[i].key = shards[g].key

\* Numbers ascend through the shards, then through the buffers, then to next.
FramesInOrder ==
    \A g, h \in DOMAIN shards : \A i \in DOMAIN shards[g].frames, j \in DOMAIN shards[h].frames :
        Own(g, i) /\ Own(h, j) /\ (g < h \/ (g = h /\ i < j)) =>
            shards[g].frames[i].n < shards[h].frames[j].n

FramesFirst ==
    \A g \in DOMAIN shards : \A i \in DOMAIN shards[g].frames :
        \A b \in Buffers : \A j \in 1 .. Cap :
            Own(g, i) /\ Waiting(b, j) => shards[g].frames[i].n < cells[b][j].n

LineInOrder ==
    \A x, y \in DOMAIN Line : \A i, j \in 1 .. Cap :
        Waiting(Line[x], i) /\ Waiting(Line[y], j) /\ (x < y \/ (x = y /\ i < j)) =>
            cells[Line[x]][i].n < cells[Line[y]][j].n

InOrder == FramesInOrder /\ FramesFirst /\ LineInOrder

Increasing(r) == \A i, j \in DOMAIN r : i < j => r[i] < r[j]

\* What has been logged is in a shard or waits in a buffer.
Account ==
    /\ Increasing(logged) /\ \A n \in ToSet(logged) : n \in 1 .. next
    /\ \A g \in DOMAIN shards : \A i \in DOMAIN shards[g].frames :
         Own(g, i) => shards[g].frames[i].n \in ToSet(logged)
    /\ \A b \in Buffers : \A i \in 1 .. Cap :
         Waiting(b, i) => cells[b][i].n \in ToSet(logged)
    /\ \A n \in ToSet(logged) :
         \/ \E g \in DOMAIN shards : \E i \in DOMAIN shards[g].frames :
              Own(g, i) /\ n = shards[g].frames[i].n
         \/ \E b \in Buffers : \E i \in 1 .. Cap : Waiting(b, i) /\ n = cells[b][i].n

AllOnDisk(shard) == \A i \in DOMAIN shard.frames : i <= shard.disk

\* Only the shard that is open has frames that are not on disk.
Complete == \A g \in DOMAIN shards : g < Len(shards) \/ key = 0 => AllOnDisk(shards[g])

\* The thread's place in a call.
Calls ==
    /\ client.step = "idle" => client = Idle
    /\ client.step \in {"write", "swap"} => next < MaxFrames /\ client.size \in Sizes
    /\ client.step \in {"flushwait", "flushshard", "flushed"} /\ client.target # {} =>
          offset[master] = 0
    /\ client.step \in {"flushshard", "flushed"} => queue = << >>
    /\ client.step = "flushed" /\ client.target # {} => AllOnDisk(Current)
    /\ IF client.step \in Flushing THEN client.target \subseteq 1 .. next
       ELSE client.target = NoTarget

\* A shard is harmed by a call that fails.
Blamed == \A g \in DOMAIN shards : shards[g].harm # "none" => faults > 0

\* Until a process leaves records behind, there is nothing in a buffer but what this
\* one has written.
Clean ==
    ~left =>
        /\ \A b \in Buffers : \A i \in 1 .. Cap : cells[b][i] # Empty => Live(b, i)
        /\ FramesOpenUnlessLeft

Inv == Types /\ Process /\ Places /\ Layout /\ Walk /\ InOrder /\ Account /\ Complete
       /\ Calls /\ Blamed /\ Clean /\ CrashCostsOneShard

-----------------------------------------------------------------------------
(* Sequences and the sets of their elements.                                 *)

LEMMA AppendSet ==
    ASSUME NEW S, NEW s \in Seq(S), NEW e \in S
    PROVE  /\ Append(s, e) \in Seq(S) /\ Len(Append(s, e)) = Len(s) + 1
           /\ ToSet(Append(s, e)) = ToSet(s) \cup {e}
           /\ IsInjective(s) /\ e \notin ToSet(s) => IsInjective(Append(s, e))
<1>1. /\ Append(s, e) \in Seq(S) /\ Len(Append(s, e)) = Len(s) + 1
      /\ \A i \in 1 .. Len(s) : Append(s, e)[i] = s[i]
      /\ Append(s, e)[Len(s) + 1] = e
    BY AppendProperties
<1>2. /\ DOMAIN s = 1 .. Len(s) /\ Len(s) \in Nat
      /\ DOMAIN Append(s, e) = 1 .. Len(s) + 1
    BY <1>1, LenProperties
<1>3. ToSet(Append(s, e)) = ToSet(s) \cup {e}
    BY <1>1, <1>2 DEF ToSet
<1>4. IsInjective(s) /\ e \notin ToSet(s) => IsInjective(Append(s, e))
    BY <1>1, <1>2 DEF IsInjective, ToSet
<1> QED
    BY <1>1, <1>3, <1>4

LEMMA TailSet ==
    ASSUME NEW S, NEW s \in Seq(S), s # << >>
    PROVE  /\ Tail(s) \in Seq(S) /\ Len(Tail(s)) = Len(s) - 1 /\ Head(s) \in S
           /\ ToSet(s) = ToSet(Tail(s)) \cup {Head(s)}
           /\ IsInjective(s) => IsInjective(Tail(s)) /\ Head(s) \notin ToSet(Tail(s))
<1>1. /\ Tail(s) \in Seq(S) /\ Len(Tail(s)) = Len(s) - 1 /\ Head(s) \in S
      /\ \A i \in 1 .. Len(Tail(s)) : Tail(s)[i] = s[i + 1]
    BY HeadTailProperties
<1>2. /\ DOMAIN s = 1 .. Len(s) /\ Len(s) \in Nat \ {0} /\ Head(s) = s[1]
      /\ DOMAIN Tail(s) = 1 .. Len(s) - 1
    BY <1>1, LenProperties, EmptySeq
<1>3. ToSet(s) = ToSet(Tail(s)) \cup {Head(s)}
    <2>1. \A i \in DOMAIN s : i = 1 \/ (i - 1 \in DOMAIN Tail(s) /\ Tail(s)[i - 1] = s[i])
        BY <1>1, <1>2
    <2>2. \A i \in DOMAIN Tail(s) : i + 1 \in DOMAIN s /\ Tail(s)[i] = s[i + 1]
        BY <1>1, <1>2
    <2>3. 1 \in DOMAIN s /\ Head(s) = s[1]
        BY <1>2
    <2>4. ASSUME NEW e \in ToSet(s) PROVE e \in ToSet(Tail(s)) \cup {Head(s)}
        BY <2>1, <2>3 DEF ToSet
    <2>5. ASSUME NEW e \in ToSet(Tail(s)) PROVE e \in ToSet(s)
        BY <2>2 DEF ToSet
    <2>6. Head(s) \in ToSet(s)
        BY <2>3 DEF ToSet
    <2> QED
        BY <2>4, <2>5, <2>6
<1>4. IsInjective(s) => IsInjective(Tail(s)) /\ Head(s) \notin ToSet(Tail(s))
    BY <1>1, <1>2 DEF IsInjective, ToSet
<1> QED
    BY <1>1, <1>3, <1>4

\* Induction, as a smallest counterexample.
LEMMA Smallest ==
    ASSUME NEW T \in SUBSET Nat, T # {}
    PROVE  \E n \in T : \A m \in T : n <= m
<1>1. PICK n \in T : \A m \in T : ~(<<m, n>> \in OpToRel(<, Nat))
    BY WFMin, NatLessThanWellFounded
<1>2. \A m \in T : ~(m < n)
    BY <1>1 DEF OpToRel
<1> QED
    BY <1>2

LEMMA ConcatIncreasing ==
    ASSUME NEW r \in Seq(Nat), NEW t \in Seq(Nat), Increasing(r), Increasing(t),
           \A x \in ToSet(r), y \in ToSet(t) : x < y
    PROVE  r \o t \in Seq(Nat) /\ Increasing(r \o t) /\ ToSet(r \o t) = ToSet(r) \cup ToSet(t)
<1> DEFINE m == Len(r)
           n == Len(t)
           c == r \o t
<1>1. /\ c \in Seq(Nat) /\ Len(c) = m + n
      /\ \A i \in 1 .. m + n : c[i] = IF i <= m THEN r[i] ELSE t[i - m]
    BY ConcatProperties
<1>2. m \in Nat /\ n \in Nat /\ DOMAIN r = 1 .. m /\ DOMAIN t = 1 .. n /\ DOMAIN c = 1 .. m + n
    BY <1>1, LenProperties
<1> HIDE DEF m, n, c
<1>3. \A i \in 1 .. m + n : \/ i \in 1 .. m /\ c[i] = r[i]
                            \/ i > m /\ i - m \in 1 .. n /\ c[i] = t[i - m]
    BY <1>1, <1>2
<1>4. \A i \in 1 .. m : i \in 1 .. m + n /\ c[i] = r[i]
    BY <1>1, <1>2
<1>5. \A i \in 1 .. n : i + m \in 1 .. m + n /\ c[i + m] = t[i]
    BY <1>1, <1>2, SMTT(20)
<1>6. ToSet(c) = ToSet(r) \cup ToSet(t)
    <2>1. ToSet(c) \subseteq ToSet(r) \cup ToSet(t)
        BY <1>2, <1>3 DEF ToSet
    <2>2. ToSet(r) \subseteq ToSet(c)
        BY <1>2, <1>4 DEF ToSet
    <2>3. ToSet(t) \subseteq ToSet(c)
        BY <1>2, <1>5 DEF ToSet
    <2> QED
        BY <2>1, <2>2, <2>3
<1>7. ASSUME NEW i \in 1 .. m + n, NEW j \in 1 .. m + n, i < j PROVE c[i] < c[j]
    <2>1. CASE j <= m
        <3>1. i \in 1 .. m /\ j \in 1 .. m
            BY <1>2, <1>7, <2>1
        <3> QED
            BY <1>2, <1>4, <1>7, <3>1 DEF Increasing
    <2>2. CASE i > m
        <3>1. i - m \in 1 .. n /\ j - m \in 1 .. n /\ i - m < j - m
            BY <1>2, <1>7, <2>2
        <3>2. c[i] = t[i - m] /\ c[j] = t[j - m]
            BY <1>2, <1>3, <1>7, <2>2
        <3> QED
            BY <1>2, <3>1, <3>2 DEF Increasing
    <2>3. CASE i <= m /\ j > m
        <3>1. i \in 1 .. m /\ c[i] = r[i]
            BY <1>2, <1>3, <2>3
        <3>2. j - m \in 1 .. n /\ c[j] = t[j - m]
            BY <1>2, <1>3, <2>3
        <3>3. r[i] \in ToSet(r) /\ t[j - m] \in ToSet(t)
            BY <1>2, <3>1, <3>2 DEF ToSet
        <3> QED
            BY <3>1, <3>2, <3>3
    <2> QED
        BY <1>2, <2>1, <2>2, <2>3
<1> QED
    BY <1>1, <1>2, <1>6, <1>7 DEF Increasing, c

Flattens(fl, k, q) == fl = [i \in 1 .. k |-> IF i = 1 THEN q[i] ELSE fl[i - 1] \o q[i]]

LEMMA FlattenExists ==
    ASSUME NEW k \in Nat \ {0}, NEW q
    PROVE  \E fl : Flattens(fl, k, q)
<1> DEFINE Bad == {n \in Nat \ {0} : ~ \E fl : Flattens(fl, n, q)}
<1>1. Flattens([i \in 1 .. 1 |-> q[i]], 1, q)
    <2>1. \A i \in 1 .. 1 : i = 1
        OBVIOUS
    <2> QED
        BY <2>1 DEF Flattens
<1>2. ASSUME NEW n \in Nat \ {0}, NEW h, Flattens(h, n, q)
      PROVE  \E fl : Flattens(fl, n + 1, q)
    <2> DEFINE g == [i \in 1 .. n + 1 |-> IF i = 1 THEN q[i] ELSE h[i - 1] \o q[i]]
    <2>1. ASSUME NEW i \in 1 .. n PROVE i \in 1 .. n + 1 /\ h[i] = g[i]
        <3>1. i \in 1 .. n + 1
            OBVIOUS
        <3>2. h[i] = IF i = 1 THEN q[i] ELSE h[i - 1] \o q[i]
            BY <1>2 DEF Flattens
        <3> QED
            BY <3>1, <3>2
    <2>2. \A i \in 1 .. n + 1 : i # 1 => i - 1 \in 1 .. n
        OBVIOUS
    <2>3. \A i \in 1 .. n + 1 : i # 1 => h[i - 1] = g[i - 1]
        BY <2>1, <2>2
    <2>4. Flattens(g, n + 1, q)
        BY <2>3 DEF Flattens
    <2> QED
        BY <2>4
<1>3. Bad = {}
    <2> SUFFICES ASSUME Bad # {} PROVE FALSE
        OBVIOUS
    <2>1. PICK n \in Bad : \A m \in Bad : n <= m
        BY Smallest
    <2>2. n # 1
        BY <1>1, <2>1
    <2>3. n - 1 \in Nat \ {0} /\ n - 1 \notin Bad
        BY <2>1, <2>2
    <2>4. PICK h : Flattens(h, n - 1, q)
        BY <2>3
    <2>5. \E fl : Flattens(fl, n - 1 + 1, q)
        BY <1>2, <2>3, <2>4
    <2>6. n - 1 + 1 = n
        BY <2>1
    <2> QED
        BY <2>1, <2>5, <2>6
<1> QED
    BY <1>3

\* Increasing sequences in increasing order flatten to one, with all their elements.
LEMMA FlattenIncreasing ==
    ASSUME NEW k \in Nat \ {0}, NEW q \in [1 .. k -> Seq(Nat)],
           \A h \in 1 .. k : Increasing(q[h]),
           \A g, h \in 1 .. k : g < h => \A x \in ToSet(q[g]), y \in ToSet(q[h]) : x < y
    PROVE  /\ FlattenSeq(q) \in Seq(Nat) /\ Increasing(FlattenSeq(q))
           /\ ToSet(FlattenSeq(q)) = UNION {ToSet(q[h]) : h \in 1 .. k}
<1> DEFINE flat == CHOOSE fl : Flattens(fl, k, q)
           All(i) == UNION {ToSet(q[h]) : h \in 1 .. i}
           Good(i) == flat[i] \in Seq(Nat) /\ Increasing(flat[i]) /\ ToSet(flat[i]) = All(i)
           Bad == {i \in 1 .. k : ~Good(i)}
<1>1. Flattens(flat, k, q)
    BY FlattenExists
<1>2. FlattenSeq(q) = flat[k]
    <2>1. Len(q) = k
        <3>1. q \in Seq(Seq(Nat))
            BY SeqDef
        <3>2. Len(q) \in Nat /\ DOMAIN q = 1 .. Len(q)
            BY <3>1, LenProperties
        <3>3. 1 .. Len(q) = 1 .. k
            BY <3>2
        <3> QED
            BY <3>2, <3>3
    <2> QED
        BY <2>1 DEF FlattenSeq, Flattens
<1> HIDE DEF flat
<1>3. Good(1)
    <2>1. flat[1] = q[1] /\ 1 \in 1 .. k
        BY <1>1 DEF Flattens
    <2>2. All(1) = ToSet(q[1])
        OBVIOUS
    <2> QED
        BY <2>1, <2>2
<1>4. ASSUME NEW i \in 1 .. k, i # 1, Good(i - 1) PROVE Good(i)
    <2>1. flat[i] = flat[i - 1] \o q[i]
        BY <1>1, <1>4 DEF Flattens
    <2>2. \A x \in ToSet(flat[i - 1]), y \in ToSet(q[i]) : x < y
        <3> SUFFICES ASSUME NEW x \in ToSet(flat[i - 1]), NEW y \in ToSet(q[i]) PROVE x < y
            OBVIOUS
        <3>1. PICK h \in 1 .. i - 1 : x \in ToSet(q[h])
            BY <1>4
        <3>2. h \in 1 .. k /\ h < i
            OBVIOUS
        <3> QED
            BY <3>1, <3>2
    <2>3. All(i) = All(i - 1) \cup ToSet(q[i])
        <3>1. \A h : h \in 1 .. i <=> h \in 1 .. i - 1 \/ h = i
            OBVIOUS
        <3> QED
            BY <3>1
    <2>4. Increasing(q[i]) /\ q[i] \in Seq(Nat)
        OBVIOUS
    <2> HIDE DEF All
    <2> QED
        BY <1>4, <2>1, <2>2, <2>3, <2>4, ConcatIncreasing
<1>5. Bad = {}
    <2> HIDE DEF Good
    <2> SUFFICES ASSUME Bad # {} PROVE FALSE
        OBVIOUS
    <2>0. Bad \in SUBSET Nat
        OBVIOUS
    <2>1. PICK i \in Bad : \A m \in Bad : i <= m
        BY <2>0, Smallest
    <2>2. i # 1
        BY <1>3, <2>1
    <2>3. i - 1 \in 1 .. k /\ i - 1 \notin Bad
        BY <2>1, <2>2
    <2> QED
        BY <1>4, <2>1, <2>2, <2>3
<1>6. Good(k)
    <2> HIDE DEF Good
    <2>1. k \in 1 .. k
        OBVIOUS
    <2> QED
        BY <1>5, <2>1
<1> QED
    BY <1>2, <1>6

LEMMA FlattenInOrder ==
    ASSUME NEW k \in Nat, NEW q \in [1 .. k -> Seq(Nat)],
           \A h \in 1 .. k : Increasing(q[h]),
           \A g, h \in 1 .. k : g < h => \A x \in ToSet(q[g]), y \in ToSet(q[h]) : x < y
    PROVE  /\ FlattenSeq(q) \in Seq(Nat) /\ Increasing(FlattenSeq(q))
           /\ ToSet(FlattenSeq(q)) = UNION {ToSet(q[h]) : h \in 1 .. k}
<1>1. CASE k # 0
    BY <1>1, FlattenIncreasing
<1>2. CASE k = 0
    <2>1. q \in Seq(Seq(Nat))
        BY SeqDef
    <2>2. Len(q) \in Nat /\ DOMAIN q = 1 .. Len(q)
        BY <2>1, LenProperties
    <2>3. DOMAIN q = {} /\ Len(q) = 0
        BY <1>2, <2>2
    <2>4. FlattenSeq(q) = q
        BY <2>3 DEF FlattenSeq
    <2>5. q = << >>
        BY <2>1, <2>3, EmptySeq
    <2>6. << >> \in Seq(Nat) /\ DOMAIN << >> = {}
        BY <2>3, <2>5, EmptySeq
    <2> QED
        BY <1>2, <2>4, <2>5, <2>6 DEF Increasing, ToSet
<1> QED
    BY <1>1, <1>2

\* An increasing sequence of elements of another one, without a gap below its
\* last, is a first part of it.
LEMMA FirstPart ==
    ASSUME NEW r \in Seq(Nat), NEW l \in Seq(Nat), Increasing(r), Increasing(l),
           ToSet(r) \subseteq ToSet(l),
           \A x \in ToSet(r), y \in ToSet(l) \ ToSet(r) : x < y
    PROVE  IsPrefix(r, l) /\ Len(r) <= Len(l) /\ \A i \in 1 .. Len(r) : r[i] = l[i]
<1> DEFINE m == Len(r)
           n == Len(l)
           Bad == {i \in 1 .. m : ~(i \in 1 .. n /\ r[i] = l[i])}
<1>1. m \in Nat /\ n \in Nat /\ DOMAIN r = 1 .. m /\ DOMAIN l = 1 .. n
      /\ (\A i \in 1 .. m : r[i] \in Nat) /\ \A i \in 1 .. n : l[i] \in Nat
    BY LenProperties, ElementOfSeq
<1>2. Bad = {}
    <2> SUFFICES ASSUME Bad # {} PROVE FALSE
        OBVIOUS
    <2>1. PICK i \in Bad : \A k \in Bad : i <= k
        <3>1. Bad \in SUBSET Nat
            BY <1>1
        <3> QED
            BY <3>1, Smallest
    <2>2. \A k \in 1 .. m : k < i => k \in 1 .. n /\ r[k] = l[k]
        BY <1>1, <2>1
    <2>3. PICK p \in 1 .. n : l[p] = r[i]
        <3>1. r[i] \in ToSet(l)
            BY <1>1, <2>1 DEF ToSet
        <3> QED
            BY <1>1, <3>1 DEF ToSet
    <2>4. p >= i
        <3> SUFFICES ASSUME p < i PROVE FALSE
            BY <1>1, <2>1
        <3>1. p \in 1 .. m /\ r[p] = l[p]
            BY <1>1, <2>1, <2>2
        <3>2. r[p] < r[i]
            BY <1>1, <2>1, <3>1 DEF Increasing
        <3> QED
            BY <1>1, <2>1, <2>3, <3>1, <3>2
    <2>5. i \in 1 .. n
        BY <1>1, <2>1, <2>4
    <2>6. p > i
        BY <1>1, <2>1, <2>3, <2>4, <2>5
    <2>7. l[i] < r[i]
        BY <1>1, <2>3, <2>5, <2>6 DEF Increasing
    <2>8. l[i] \in ToSet(l) /\ r[i] \in ToSet(r)
        BY <1>1, <2>1, <2>5 DEF ToSet
    <2>9. l[i] \in ToSet(r)
        <3> SUFFICES ASSUME l[i] \notin ToSet(r) PROVE FALSE
            OBVIOUS
        <3>1. r[i] < l[i]
            BY <2>8
        <3> QED
            BY <1>1, <2>1, <2>5, <2>7, <3>1
    <2>10. PICK k \in 1 .. m : r[k] = l[i]
        BY <1>1, <2>9 DEF ToSet
    <2>11. k < i
        <3> SUFFICES ASSUME k >= i PROVE FALSE
            BY <1>1, <2>1
        <3>1. k = i \/ (i < k /\ i \in 1 .. m)
            BY <1>1, <2>1
        <3>2. i < k /\ i \in 1 .. m => r[i] < r[k]
            BY <1>1 DEF Increasing
        <3> QED
            BY <1>1, <2>1, <2>5, <2>7, <2>10, <3>1, <3>2, SMTT(20)
    <2>12. r[k] = l[k] /\ k \in 1 .. n
        BY <2>2, <2>11
    <2>13. l[k] < l[i]
        BY <1>1, <2>5, <2>11, <2>12 DEF Increasing
    <2> QED
        BY <1>1, <2>5, <2>10, <2>12, <2>13
<1>3. \A i \in 1 .. m : i \in 1 .. n /\ r[i] = l[i]
    BY <1>2
<1>4. m <= n
    <2>1. m = 0 \/ m \in 1 .. m
        BY <1>1
    <2> QED
        BY <1>1, <1>3, <2>1
<1>5. SubSeq(r, 1, m) = SubSeq(l, 1, m)
    <2>1. SubSeq(r, 1, m) \in Seq(Nat) /\ Len(SubSeq(r, 1, m)) = m
          /\ \A i \in 1 .. m : SubSeq(r, 1, m)[i] = r[i]
        BY <1>1, SubSeqProperties
    <2>2. SubSeq(l, 1, m) \in Seq(Nat) /\ Len(SubSeq(l, 1, m)) = m
          /\ \A i \in 1 .. m : SubSeq(l, 1, m)[i] = l[i]
        BY <1>1, <1>3, SubSeqProperties
    <2> QED
        BY <1>3, <2>1, <2>2, SeqEqual
<1> QED
    BY <1>3, <1>4, <1>5 DEF IsPrefix

\* Of two increasing sequences, the one with more elements is the longer.
LEMMA MoreIsLonger ==
    ASSUME NEW r \in Seq(Nat), NEW t \in Seq(Nat), Increasing(r), Increasing(t),
           ToSet(r) \subseteq ToSet(t)
    PROVE  Len(r) <= Len(t)
<1> DEFINE m == Len(r)
           n == Len(t)
           f == [i \in 1 .. m |-> CHOOSE j \in 1 .. n : t[j] = r[i]]
<1>1. m \in Nat /\ n \in Nat /\ DOMAIN r = 1 .. m /\ DOMAIN t = 1 .. n
      /\ \A i \in 1 .. m : r[i] \in Nat
    BY LenProperties, ElementOfSeq
<1>2. \A i \in 1 .. m : f[i] \in 1 .. n /\ t[f[i]] = r[i]
    <2>1. \A i \in 1 .. m : \E j \in 1 .. n : t[j] = r[i]
        BY <1>1 DEF ToSet
    <2> QED
        BY <2>1
<1>3. \A i, j \in 1 .. m : i # j => r[i] # r[j]
    <2> SUFFICES ASSUME NEW i \in 1 .. m, NEW j \in 1 .. m, i # j PROVE r[i] # r[j]
        OBVIOUS
    <2>1. i < j \/ j < i
        OBVIOUS
    <2>2. r[i] < r[j] \/ r[j] < r[i]
        BY <1>1, <2>1 DEF Increasing
    <2> QED
        BY <1>1, <2>2
<1> HIDE DEF f
<1>4. f \in Injection(1 .. m, 1 .. n)
    <2>1. f \in [1 .. m -> 1 .. n]
        BY <1>2 DEF f
    <2>2. \A i, j \in 1 .. m : f[i] = f[j] => i = j
        BY <1>2, <1>3
    <2> QED
        BY <2>1, <2>2 DEF Injection, IsInjective
<1>5. Cardinality(1 .. m) <= Cardinality(1 .. n)
    BY <1>1, <1>4, FS_Interval, FS_Injection
<1>6. Cardinality(1 .. m) = m /\ Cardinality(1 .. n) = n
    <2> HIDE DEF m, n
    <2> QED
        BY <1>1, FS_Interval
<1> QED
    BY <1>5, <1>6

LEMMA SameElements ==
    ASSUME NEW r \in Seq(Nat), NEW t \in Seq(Nat), Increasing(r), Increasing(t),
           ToSet(r) = ToSet(t)
    PROVE  r = t
<1>1. Len(r) <= Len(t) /\ Len(t) <= Len(r) /\ Len(r) \in Nat /\ Len(t) \in Nat
    BY MoreIsLonger, LenProperties
<1>2. \A i \in 1 .. Len(r) : r[i] = t[i]
    BY FirstPart
<1> QED
    BY <1>1, <1>2, SeqEqual

\* What is left of an increasing sequence.
LEMMA WithoutSome ==
    ASSUME NEW r \in Seq(Nat), Increasing(r), NEW ns
    PROVE  /\ Without(r, ns) \in Seq(Nat) /\ Increasing(Without(r, ns))
           /\ ToSet(Without(r, ns)) = ToSet(r) \ ns
<1> DEFINE k == Len(r)
           q == [i \in 1 .. k |-> IF r[i] \in ns THEN << >> ELSE <<r[i]>>]
<1>1. k \in Nat /\ DOMAIN r = 1 .. k /\ \A i \in 1 .. k : r[i] \in Nat
    BY LenProperties, ElementOfSeq
<1>2. Without(r, ns) = FlattenSeq(q)
    BY <1>1 DEF Without
<1>3. \A x \in Nat : <<x>> \in Seq(Nat) /\ ToSet(<<x>>) = {x} /\ Increasing(<<x>>)
    BY DEF ToSet, Increasing
<1>4. << >> \in Seq(Nat) /\ ToSet(<< >>) = {} /\ Increasing(<< >>)
    BY DEF ToSet, Increasing
<1> HIDE DEF k
<1>5. \A i \in 1 .. k : /\ q[i] \in Seq(Nat) /\ Increasing(q[i])
                        /\ ToSet(q[i]) = IF r[i] \in ns THEN {} ELSE {r[i]}
    BY <1>1, <1>3, <1>4
<1>6. q \in [1 .. k -> Seq(Nat)]
    BY <1>5
<1>7. ASSUME NEW g \in 1 .. k, NEW h \in 1 .. k, g < h,
             NEW x \in ToSet(q[g]), NEW y \in ToSet(q[h])
      PROVE  x < y
    <2> HIDE DEF q
    <2>1. x = r[g] /\ y = r[h]
        BY <1>5, <1>7
    <2> QED
        BY <1>1, <1>7, <2>1 DEF Increasing
<1>8. /\ FlattenSeq(q) \in Seq(Nat) /\ Increasing(FlattenSeq(q))
      /\ ToSet(FlattenSeq(q)) = UNION {ToSet(q[h]) : h \in 1 .. k}
    <2> HIDE DEF q
    <2> QED
        BY <1>1, <1>5, <1>6, <1>7, FlattenInOrder
<1>9. UNION {ToSet(q[h]) : h \in 1 .. k} = ToSet(r) \ ns
    <2> HIDE DEF q
    <2>1. ASSUME NEW n, NEW h \in 1 .. k
          PROVE  n \in ToSet(q[h]) <=> n = r[h] /\ n \notin ns
        <3>1. CASE r[h] \in ns
            <4>1. ToSet(q[h]) = {}
                BY <1>5, <3>1
            <4> QED
                BY <3>1, <4>1
        <3>2. CASE r[h] \notin ns
            <4>1. ToSet(q[h]) = {r[h]}
                BY <1>5, <3>2
            <4> QED
                BY <3>2, <4>1
        <3> QED
            BY <3>1, <3>2
    <2>2. \A n : n \in ToSet(r) <=> \E h \in 1 .. k : n = r[h]
        BY <1>1 DEF ToSet
    <2> QED
        BY <2>1, <2>2
<1> QED
    BY <1>2, <1>8, <1>9

-----------------------------------------------------------------------------
(* What is on disk.                                                          *)

SavedIn(shard) ==
    {n \in Nat : \E i \in DOMAIN shard.frames :
        i <= shard.disk /\ shard.frames[i].key = shard.key /\ n = shard.frames[i].n}

Saved == UNION {SavedIn(shards[g]) : g \in DOMAIN shards}

LEMMA FoundInShard ==
    ASSUME NEW shard \in Shard,
           \A i, j \in DOMAIN shard.frames :
               shard.frames[i].key = shard.key /\ shard.frames[j].key = shard.key /\ i < j =>
                   shard.frames[i].n < shard.frames[j].n
    PROVE  /\ FoundIn(shard) \in Seq(Nat) /\ Increasing(FoundIn(shard))
           /\ ToSet(FoundIn(shard)) = SavedIn(shard)
<1> DEFINE fs == shard.frames
           k == Len(fs)
           In(j) == j <= shard.disk /\ fs[j].key = shard.key
           q == [j \in 1 .. k |-> IF In(j) THEN <<fs[j].n>> ELSE << >>]
<1>1. k \in Nat /\ DOMAIN fs = 1 .. k /\ \A j \in 1 .. k : fs[j] \in Frame
    BY LenProperties, ElementOfSeq DEF Shard
<1>2. FoundIn(shard) = FlattenSeq(q)
    BY <1>1 DEF FoundIn
<1>3. \A x \in Nat : <<x>> \in Seq(Nat) /\ ToSet(<<x>>) = {x} /\ Increasing(<<x>>)
    BY DEF ToSet, Increasing
<1>4. << >> \in Seq(Nat) /\ ToSet(<< >>) = {} /\ Increasing(<< >>)
    BY DEF ToSet, Increasing
<1>5. \A j \in 1 .. k : fs[j].n \in Nat
    BY <1>1 DEF Frame
<1> HIDE DEF k, fs, In
<1>6. \A j \in 1 .. k : /\ q[j] \in Seq(Nat) /\ Increasing(q[j])
                        /\ ToSet(q[j]) = IF In(j) THEN {fs[j].n} ELSE {}
    BY <1>3, <1>4, <1>5
<1>7. q \in [1 .. k -> Seq(Nat)]
    BY <1>6
<1>8. ASSUME NEW g \in 1 .. k, NEW h \in 1 .. k, g < h,
             NEW x \in ToSet(q[g]), NEW y \in ToSet(q[h])
      PROVE  x < y
    <2> HIDE DEF q
    <2>1. In(g) /\ In(h) /\ x = fs[g].n /\ y = fs[h].n
        BY <1>6, <1>8
    <2> QED
        BY <1>1, <1>8, <2>1 DEF In, fs
<1>9. /\ FlattenSeq(q) \in Seq(Nat) /\ Increasing(FlattenSeq(q))
      /\ ToSet(FlattenSeq(q)) = UNION {ToSet(q[h]) : h \in 1 .. k}
    <2> HIDE DEF q
    <2> QED
        BY <1>1, <1>6, <1>7, <1>8, FlattenInOrder
<1>10. UNION {ToSet(q[h]) : h \in 1 .. k} = SavedIn(shard)
    <2> HIDE DEF q
    <2>1. SavedIn(shard) = {n \in Nat : \E i \in 1 .. k : In(i) /\ n = fs[i].n}
        BY <1>1 DEF SavedIn, In, fs
    <2>2. \A n, h : h \in 1 .. k => (n \in ToSet(q[h]) <=> In(h) /\ n = fs[h].n)
        BY <1>6
    <2>3. \A n : n \in SavedIn(shard) <=> \E h \in 1 .. k : In(h) /\ n = fs[h].n
        BY <1>5, <2>1
    <2> QED
        BY <2>2, <2>3
<1> QED
    BY <1>2, <1>9, <1>10

LEMMA DiskInOrder ==
    ASSUME shards \in Seq(Shard), FramesInOrder
    PROVE  OnDisk \in Seq(Nat) /\ Increasing(OnDisk) /\ ToSet(OnDisk) = Saved
<1> DEFINE k == Len(shards)
           q == [i \in 1 .. k |-> FoundIn(shards[i])]
<1>1. k \in Nat /\ DOMAIN shards = 1 .. k /\ \A g \in 1 .. k : shards[g] \in Shard
    BY LenProperties, ElementOfSeq
<1>2. OnDisk = FlattenSeq(q)
    BY <1>1 DEF OnDisk
<1> HIDE DEF k
<1>3. \A g \in 1 .. k : /\ q[g] \in Seq(Nat) /\ Increasing(q[g])
                        /\ ToSet(q[g]) = SavedIn(shards[g])
    <2> SUFFICES ASSUME NEW g \in 1 .. k
                 PROVE  /\ q[g] \in Seq(Nat) /\ Increasing(q[g])
                        /\ ToSet(q[g]) = SavedIn(shards[g])
        OBVIOUS
    <2>1. \A i, j \in DOMAIN shards[g].frames :
            shards[g].frames[i].key = shards[g].key /\ shards[g].frames[j].key = shards[g].key
            /\ i < j => shards[g].frames[i].n < shards[g].frames[j].n
        BY <1>1 DEF FramesInOrder, Own
    <2>2. shards[g] \in Shard /\ q[g] = FoundIn(shards[g])
        BY <1>1
    <2> QED
        BY <2>1, <2>2, FoundInShard
<1>4. q \in [1 .. k -> Seq(Nat)]
    BY <1>3
<1>5. ASSUME NEW g \in 1 .. k, NEW h \in 1 .. k, g < h,
             NEW x \in ToSet(q[g]), NEW y \in ToSet(q[h])
      PROVE  x < y
    <2> HIDE DEF q
    <2>1. x \in SavedIn(shards[g]) /\ y \in SavedIn(shards[h])
        BY <1>3
    <2>2. PICK i \in DOMAIN shards[g].frames : Own(g, i) /\ x = shards[g].frames[i].n
        BY <2>1 DEF SavedIn, Own
    <2>3. PICK j \in DOMAIN shards[h].frames : Own(h, j) /\ y = shards[h].frames[j].n
        BY <2>1 DEF SavedIn, Own
    <2> QED
        BY <1>1, <1>5, <2>2, <2>3 DEF FramesInOrder
<1>6. /\ FlattenSeq(q) \in Seq(Nat) /\ Increasing(FlattenSeq(q))
      /\ ToSet(FlattenSeq(q)) = UNION {ToSet(q[h]) : h \in 1 .. k}
    <2> HIDE DEF q
    <2> QED
        BY <1>1, <1>3, <1>4, <1>5, FlattenInOrder
<1>7. UNION {ToSet(q[h]) : h \in 1 .. k} = Saved
    <2> HIDE DEF q
    <2> QED
        BY <1>1, <1>3 DEF Saved
<1> QED
    BY <1>2, <1>6, <1>7

LEMMA DiskInOrderNext ==
    shards' \in Seq(Shard) /\ FramesInOrder' =>
        OnDisk' \in Seq(Nat) /\ Increasing(OnDisk)' /\ ToSet(OnDisk)' = Saved'
<1>1. shards \in Seq(Shard) /\ FramesInOrder =>
          OnDisk \in Seq(Nat) /\ Increasing(OnDisk) /\ ToSet(OnDisk) = Saved
    BY DiskInOrder
<1>2. (shards \in Seq(Shard) /\ FramesInOrder =>
          OnDisk \in Seq(Nat) /\ Increasing(OnDisk) /\ ToSet(OnDisk) = Saved)'
    BY <1>1, PTL
<1> QED
    BY <1>2

\* What is in the shards, or waits in a buffer, is later than what is on disk.
LEMMA PrefixSaved ==
    ASSUME Inv
    PROVE  /\ OnDisk \in Seq(Nat) /\ Increasing(OnDisk) /\ ToSet(OnDisk) = Saved
           /\ PrefixOnDisk /\ Len(OnDisk) <= Len(logged)
           /\ \A i \in 1 .. Len(OnDisk) : OnDisk[i] = logged[i]
<1> USE DEF Inv
<1>1. OnDisk \in Seq(Nat) /\ Increasing(OnDisk) /\ ToSet(OnDisk) = Saved
    BY DiskInOrder DEF InOrder, Types
<1>2. logged \in Seq(Nat) /\ Increasing(logged)
    BY DEF Types, Account
<1>3. \A x : x \in Saved <=>
        \E g \in DOMAIN shards : \E i \in DOMAIN shards[g].frames :
            i <= shards[g].disk /\ Own(g, i) /\ x = shards[g].frames[i].n
    <2>1. \A g \in DOMAIN shards : \A i \in DOMAIN shards[g].frames : shards[g].frames[i].n \in Nat
        <3>1. \A g \in DOMAIN shards : shards[g] \in Shard
            BY LenProperties, ElementOfSeq DEF Types
        <3>2. \A g \in DOMAIN shards : \A i \in DOMAIN shards[g].frames : shards[g].frames[i] \in Frame
            BY <3>1, LenProperties, ElementOfSeq DEF Shard
        <3> QED
            BY <3>2 DEF Frame
    <2> QED
        BY <2>1 DEF Saved, SavedIn, Own
<1>4. Saved \subseteq ToSet(logged)
    BY <1>3 DEF Account
<1>5. ASSUME NEW x \in Saved, NEW y \in ToSet(logged) \ Saved PROVE x < y
    <2>1. PICK g \in DOMAIN shards : \E i \in DOMAIN shards[g].frames :
            i <= shards[g].disk /\ Own(g, i) /\ x = shards[g].frames[i].n
        BY <1>3
    <2>2. PICK i \in DOMAIN shards[g].frames :
            i <= shards[g].disk /\ Own(g, i) /\ x = shards[g].frames[i].n
        BY <2>1
    <2>3. CASE \E h \in DOMAIN shards : \E j \in DOMAIN shards[h].frames :
                  Own(h, j) /\ y = shards[h].frames[j].n
        <3>1. PICK h \in DOMAIN shards : \E j \in DOMAIN shards[h].frames :
                  Own(h, j) /\ y = shards[h].frames[j].n
            BY <2>3
        <3>2. PICK j \in DOMAIN shards[h].frames : Own(h, j) /\ y = shards[h].frames[j].n
            BY <3>1
        <3>3. ~(j <= shards[h].disk)
            BY <1>3, <1>5, <3>2
        <3>4. Len(shards) \in Nat /\ DOMAIN shards = 1 .. Len(shards)
            BY LenProperties DEF Types
        <3>5. h = Len(shards)
            BY <3>3, <3>4 DEF Complete, AllOnDisk
        <3>6. shards[g].disk \in Int /\ i \in Int /\ j \in Int
            <4>1. \A e \in DOMAIN shards : shards[e] \in Shard
                BY LenProperties, ElementOfSeq DEF Types
            <4>2. \A e \in DOMAIN shards : DOMAIN shards[e].frames = 1 .. Len(shards[e].frames)
                BY <4>1, LenProperties DEF Shard
            <4> QED
                BY <4>1, <4>2 DEF Shard
        <3>7. g < h \/ (g = h /\ i < j)
            BY <2>2, <3>3, <3>4, <3>5, <3>6
        <3> QED
            BY <2>2, <3>2, <3>7 DEF InOrder, FramesInOrder
    <2>4. CASE \E b \in Buffers : \E j \in 1 .. Cap : Waiting(b, j) /\ y = cells[b][j].n
        BY <2>2, <2>4 DEF InOrder, FramesFirst
    <2> QED
        BY <2>3, <2>4 DEF Account
<1> HIDE DEF Inv
<1> QED
    BY <1>1, <1>2, <1>4, <1>5, FirstPart DEF PrefixOnDisk

-----------------------------------------------------------------------------
(* What the steps have in common.                                            *)

LEMMA ShardTypes ==
    ASSUME Types
    PROVE  /\ Len(shards) \in Nat /\ DOMAIN shards = 1 .. Len(shards)
           /\ shards # << >> => Len(shards) \in DOMAIN shards
           /\ \A g \in DOMAIN shards :
                /\ shards[g] \in Shard
                /\ Len(shards[g].frames) \in Nat
                /\ DOMAIN shards[g].frames = 1 .. Len(shards[g].frames)
                /\ \A i \in DOMAIN shards[g].frames : shards[g].frames[i] \in Frame
<1>1. Len(shards) \in Nat /\ DOMAIN shards = 1 .. Len(shards)
    BY LenProperties DEF Types
<1>2. shards # << >> => Len(shards) # 0
    BY EmptySeq DEF Types
<1>3. \A g \in DOMAIN shards : shards[g] \in Shard
    BY <1>1, ElementOfSeq DEF Types
<1>4. \A g \in DOMAIN shards : shards[g].frames \in Seq(Frame)
    BY <1>3 DEF Shard
<1> QED
    BY <1>1, <1>2, <1>3, <1>4, LenProperties, ElementOfSeq

LEMMA LineTypes ==
    ASSUME Types
    PROVE  /\ Len(queue) \in Nat /\ DOMAIN queue = 1 .. Len(queue)
           /\ Line \in Seq(Buffers) /\ Len(Line) = Len(queue) + 1
           /\ DOMAIN Line = 1 .. Len(queue) + 1
           /\ \A x \in DOMAIN Line : Line[x] \in Buffers
           /\ \A x \in 1 .. Len(queue) : Line[x] = queue[x]
           /\ Line[Len(queue) + 1] = master
           /\ ToSet(Line) = ToSet(queue) \cup {master}
           /\ queue # << >> => /\ Len(queue) # 0 /\ Head(queue) \in Buffers
                               /\ Head(queue) = Line[1] /\ Head(queue) \in ToSet(queue)
<1>1. queue \in Seq(Buffers) /\ master \in Buffers
    BY DEF Types
<1>2. Len(queue) \in Nat /\ DOMAIN queue = 1 .. Len(queue)
    BY <1>1, LenProperties
<1>3. /\ Line \in Seq(Buffers) /\ Len(Line) = Len(queue) + 1
      /\ \A x \in 1 .. Len(queue) : Line[x] = queue[x]
      /\ Line[Len(queue) + 1] = master
    BY <1>1, AppendProperties DEF Line
<1>4. DOMAIN Line = 1 .. Len(queue) + 1 /\ \A x \in DOMAIN Line : Line[x] \in Buffers
    BY <1>3, LenProperties, ElementOfSeq
<1>5. ToSet(Line) = ToSet(queue) \cup {master}
    BY <1>1, AppendSet DEF Line
<1>6. queue # << >> => /\ Len(queue) # 0 /\ Head(queue) \in Buffers
                       /\ Head(queue) = Line[1] /\ Head(queue) \in ToSet(queue)
    <2> SUFFICES ASSUME queue # << >>
                 PROVE  /\ Len(queue) # 0 /\ Head(queue) \in Buffers
                        /\ Head(queue) = Line[1] /\ Head(queue) \in ToSet(queue)
        OBVIOUS
    <2>1. Len(queue) # 0
        BY <1>1, EmptySeq
    <2>2. Head(queue) \in Buffers /\ Head(queue) \in ToSet(queue)
        BY <1>1, TailSet
    <2>3. Head(queue) = queue[1] /\ 1 \in 1 .. Len(queue)
        BY <1>1, <1>2, <2>1
    <2> QED
        BY <1>3, <2>1, <2>2, <2>3
<1> QED
    BY <1>2, <1>3, <1>4, <1>5, <1>6

LEMMA MasterNotQueued ==
    ASSUME Types, Places, key # 0
    PROVE  master \notin ToSet(queue)
<1> SUFFICES ASSUME NEW x \in DOMAIN queue, queue[x] = master PROVE FALSE
    BY DEF ToSet
<1>1. x \in DOMAIN Line /\ Len(queue) + 1 \in DOMAIN Line /\ x # Len(queue) + 1
      /\ Line[x] = Line[Len(queue) + 1]
    BY LineTypes
<1> QED
    BY <1>1 DEF Places, IsInjective

LEMMA CellTypes ==
    ASSUME Types
    PROVE  \A b \in Buffers : /\ offset[b] \in 0 .. Cap + 1 /\ Used(b) \in 0 .. Cap
                              /\ \A i \in 1 .. Cap : cells[b][i] \in Cell
BY SizesAssumption DEF Types, Used, Smaller

\* What this process has written lies below offset_.
LEMMA LiveUsed ==
    ASSUME Types, Layout, NEW b \in Buffers, NEW i \in 1 .. Cap, Live(b, i)
    PROVE  i <= Used(b) /\ offset[b] # 0
<1>1. cells[b][i] \in Cell /\ Used(b) \in 0 .. Cap
    BY CellTypes
<1>2. /\ cells[b][i].part \in 1 .. cells[b][i].size
      /\ Base(b, i) >= 0 /\ Base(b, i) + cells[b][i].size <= Used(b)
    BY DEF Layout
<1>3. i <= Used(b)
    BY <1>1, <1>2 DEF Base, Cell
<1> QED
    BY <1>3, CellTypes, SizesAssumption DEF Used, Smaller

LEMMA Unmoved ==
    ASSUME Inv
    PROVE  /\ UNCHANGED <<key, queue, master, free, files, offset>> => Places'
           /\ UNCHANGED <<key, cells, offset>> => Layout'
           /\ UNCHANGED <<key, cells, queue, pos>> => Walk'
           /\ UNCHANGED shards => FramesInOrder' /\ CrashCostsOneShard'
           /\ UNCHANGED <<shards, key, cells, queue, pos>> => FramesFirst'
           /\ UNCHANGED <<key, cells, queue, pos, master>> => LineInOrder'
           /\ UNCHANGED <<shards, key, cells, queue, pos, logged, next>> => Account'
           /\ UNCHANGED <<shards, key>> => Complete'
           /\ UNCHANGED <<shards, faults>> => Blamed'
           /\ UNCHANGED <<shards, key, cells, left>> => Clean'
<1>1. UNCHANGED <<key, queue, master, free, files, offset>> => Places'
    BY DEF Inv, Places, Line
<1>2. UNCHANGED <<key, cells, offset>> => Layout'
    BY DEF Inv, Layout, Live, Base, Used
<1>3. UNCHANGED <<key, cells, queue, pos>> => Walk'
    BY DEF Inv, Walk, Live
<1>4. UNCHANGED shards => FramesInOrder' /\ CrashCostsOneShard'
    BY DEF Inv, InOrder, FramesInOrder, CrashCostsOneShard, Own
<1>5. UNCHANGED <<shards, key, cells, queue, pos>> => FramesFirst'
    BY DEF Inv, InOrder, FramesFirst, Own, Waiting, Live, Done
<1>6. UNCHANGED <<key, cells, queue, pos, master>> => LineInOrder'
    <2> SUFFICES ASSUME UNCHANGED <<key, cells, queue, pos, master>> PROVE LineInOrder'
        OBVIOUS
    <2>1. Line' = Line
        BY DEF Line
    <2>2. \A b, i : Waiting(b, i)' <=> Waiting(b, i)
        BY DEF Waiting, Live, Done
    <2> QED
        BY <2>1, <2>2 DEF Inv, InOrder, LineInOrder
<1>7. UNCHANGED <<shards, key, cells, queue, pos, logged, next>> => Account'
    BY DEF Inv, Account, Own, Waiting, Live, Done
<1>8. UNCHANGED <<shards, key>> => Complete'
    BY DEF Inv, Complete
<1>9. UNCHANGED <<shards, key, cells, left>> => Clean'
    BY DEF Inv, Clean, Live, FramesOpenUnlessLeft
<1>10. UNCHANGED <<shards, faults>> => Blamed'
    BY DEF Inv, Blamed
<1> QED
    BY <1>1, <1>2, <1>3, <1>4, <1>5, <1>6, <1>7, <1>8, <1>9, <1>10

\* The frames keep their places, and nothing new waits: what was in order still is.
NoNewFrames ==
    \A g \in DOMAIN shards' : \A i \in DOMAIN shards'[g].frames :
        /\ g \in DOMAIN shards /\ i \in DOMAIN shards[g].frames
        /\ shards'[g].key = shards[g].key /\ shards'[g].frames[i] = shards[g].frames[i]

NoLostFrames ==
    \A g \in DOMAIN shards : \A i \in DOMAIN shards[g].frames :
        /\ g \in DOMAIN shards' /\ i \in DOMAIN shards'[g].frames
        /\ shards'[g].key = shards[g].key /\ shards'[g].frames[i] = shards[g].frames[i]

NothingElseWaits ==
    \A b \in Buffers : \A i \in 1 .. Cap :
        Waiting(b, i)' => Waiting(b, i) /\ cells'[b][i].n = cells[b][i].n

AllStillWait ==
    \A b \in Buffers : \A i \in 1 .. Cap :
        Waiting(b, i) => Waiting(b, i)' /\ cells'[b][i].n = cells[b][i].n

LEMMA OrderKept ==
    ASSUME Inv, NoNewFrames, NothingElseWaits
    PROVE  /\ FramesInOrder' /\ FramesFirst'
           /\ Types' /\ Line' = Line => LineInOrder'
           /\ UNCHANGED <<logged, next>> /\ NoLostFrames /\ AllStillWait => Account'
<1>1. \A g \in DOMAIN shards' : \A i \in DOMAIN shards'[g].frames :
          Own(g, i)' => Own(g, i)
    BY DEF NoNewFrames, Own
<1>2. FramesInOrder'
    BY <1>1 DEF NoNewFrames, Inv, InOrder, FramesInOrder
<1>3. FramesFirst'
    BY <1>1 DEF NoNewFrames, NothingElseWaits, Inv, InOrder, FramesFirst
<1>4. Types' /\ Line' = Line => LineInOrder'
    <2> SUFFICES ASSUME Types, Types', Line' = Line PROVE LineInOrder'
        BY DEF Inv
    <2>1. \A x \in DOMAIN Line : Line[x] \in Buffers
        BY LineTypes
    <2> QED
        BY <2>1 DEF NothingElseWaits, Inv, InOrder, LineInOrder
<1>5. UNCHANGED <<logged, next>> /\ NoLostFrames /\ AllStillWait => Account'
    <2> SUFFICES ASSUME UNCHANGED <<logged, next>>, NoLostFrames, AllStillWait PROVE Account'
        OBVIOUS
    <2>1. \A g \in DOMAIN shards : \A i \in DOMAIN shards[g].frames :
              Own(g, i) => Own(g, i)'
        BY DEF NoLostFrames, Own
    <2>2. Increasing(logged)' /\ \A n \in ToSet(logged)' : n \in 1 .. next'
        BY DEF Inv, Account, Increasing
    <2>3. \A g \in DOMAIN shards' : \A i \in DOMAIN shards'[g].frames :
              Own(g, i)' => shards'[g].frames[i].n \in ToSet(logged)'
        BY <1>1 DEF NoNewFrames, Inv, Account
    <2>4. \A b \in Buffers : \A i \in 1 .. Cap :
              Waiting(b, i)' => cells'[b][i].n \in ToSet(logged)'
        BY DEF NothingElseWaits, Inv, Account
    <2>5. ASSUME NEW n \in ToSet(logged)'
          PROVE  \/ \E g \in DOMAIN shards' : \E i \in DOMAIN shards'[g].frames :
                      Own(g, i)' /\ n = shards'[g].frames[i].n
                 \/ \E b \in Buffers : \E i \in 1 .. Cap : Waiting(b, i)' /\ n = cells'[b][i].n
        <3>1. \/ \E g \in DOMAIN shards : \E i \in DOMAIN shards[g].frames :
                   Own(g, i) /\ n = shards[g].frames[i].n
              \/ \E b \in Buffers : \E i \in 1 .. Cap : Waiting(b, i) /\ n = cells[b][i].n
            BY DEF Inv, Account
        <3> QED
            BY <2>1, <3>1 DEF NoLostFrames, AllStillWait
    <2> QED
        BY <2>2, <2>3, <2>4, <2>5 DEF Account
<1> QED
    BY <1>2, <1>3, <1>4, <1>5

\* A failure takes records out of the shards or the buffers, and out of the log.
LEMMA LossAccounted ==
    ASSUME Inv, NoNewFrames, NothingElseWaits, UNCHANGED next, NEW ns, Lose(ns),
           \A g \in DOMAIN shards : \A i \in DOMAIN shards[g].frames : Own(g, i) =>
               \/ shards[g].frames[i].n \in ns
               \/ /\ g \in DOMAIN shards' /\ i \in DOMAIN shards'[g].frames
                  /\ Own(g, i)' /\ shards'[g].frames[i] = shards[g].frames[i],
           \A b \in Buffers : \A i \in 1 .. Cap : Waiting(b, i) =>
               \/ cells[b][i].n \in ns
               \/ Waiting(b, i)' /\ cells'[b][i].n = cells[b][i].n,
           \A g \in DOMAIN shards' : \A i \in DOMAIN shards'[g].frames :
               Own(g, i)' => shards'[g].frames[i].n \notin ns,
           \A b \in Buffers : \A i \in 1 .. Cap : Waiting(b, i)' => cells'[b][i].n \notin ns
    PROVE  /\ logged' \in Seq(Nat) /\ ToSet(logged)' = ToSet(logged) \ ns
           /\ Account'
<1>1. logged \in Seq(Nat) /\ Increasing(logged)
    BY DEF Inv, Types, Account
<1>2. /\ logged' \in Seq(Nat) /\ Increasing(logged') /\ ToSet(logged') = ToSet(logged) \ ns
    BY <1>1, WithoutSome DEF Lose
<1>3. Increasing(logged)' /\ ToSet(logged)' = ToSet(logged) \ ns
    BY <1>2 DEF Increasing
<1>4. \A n \in ToSet(logged)' : n \in 1 .. next'
    BY <1>3 DEF Inv, Account
<1>5. \A g \in DOMAIN shards' : \A i \in DOMAIN shards'[g].frames :
          Own(g, i)' => shards'[g].frames[i].n \in ToSet(logged)'
    <2>1. \A g \in DOMAIN shards' : \A i \in DOMAIN shards'[g].frames :
              Own(g, i)' => shards'[g].frames[i].n \in ToSet(logged)
        BY DEF NoNewFrames, Own, Inv, Account
    <2> QED
        BY <1>3, <2>1
<1>6. \A b \in Buffers : \A i \in 1 .. Cap : Waiting(b, i)' => cells'[b][i].n \in ToSet(logged)'
    <2>1. \A b \in Buffers : \A i \in 1 .. Cap : Waiting(b, i)' => cells'[b][i].n \in ToSet(logged)
        BY DEF NothingElseWaits, Inv, Account
    <2> QED
        BY <1>3, <2>1
<1>7. ASSUME NEW n \in ToSet(logged)'
      PROVE  \/ \E g \in DOMAIN shards' : \E i \in DOMAIN shards'[g].frames :
                  Own(g, i)' /\ n = shards'[g].frames[i].n
             \/ \E b \in Buffers : \E i \in 1 .. Cap : Waiting(b, i)' /\ n = cells'[b][i].n
    <2>1. n \in ToSet(logged) /\ n \notin ns
        BY <1>3
    <2>2. \/ \E g \in DOMAIN shards : \E i \in DOMAIN shards[g].frames :
               Own(g, i) /\ n = shards[g].frames[i].n
          \/ \E b \in Buffers : \E i \in 1 .. Cap : Waiting(b, i) /\ n = cells[b][i].n
        BY <2>1 DEF Inv, Account
    <2>3. CASE \E g \in DOMAIN shards : \E i \in DOMAIN shards[g].frames :
                   Own(g, i) /\ n = shards[g].frames[i].n
        BY <2>1, <2>3
    <2>4. CASE \E b \in Buffers : \E i \in 1 .. Cap : Waiting(b, i) /\ n = cells[b][i].n
        BY <2>1, <2>4
    <2> QED
        BY <2>2, <2>3, <2>4
<1> QED
    BY <1>2, <1>3, <1>4, <1>5, <1>6, <1>7 DEF Account

-----------------------------------------------------------------------------
(* The steps.                                                                *)

LEMMA InvInit ==
    ASSUME Init
    PROVE  Inv
<1> USE SizesAssumption, BuffersAssumption, BoundsAssumption DEF Init
<1>1. Types
    <2>1. Empty \in Cell /\ 1 \in Buffers
        BY DEF Cell, Empty, Buffers
    <2>2. cells \in [Buffers -> [1 .. Cap -> Cell]]
        BY <2>1
    <2>3. client \in Clients
        BY DEF Idle, NoTarget, Clients
    <2>4. free \in Seq(Buffers) /\ queue \in Seq(Buffers) /\ shards \in Seq(Shard)
          /\ logged \in Seq(Nat) /\ DOMAIN shards = {}
        BY EmptySeq
    <2>5. offset \in [Buffers -> 0 .. Cap + 1]
        OBVIOUS
    <2>6. files \in 0 .. MaxFiles /\ faults \in Nat
        OBVIOUS
    <2>7. left \in BOOLEAN
        OBVIOUS
    <2> QED
        BY <2>1, <2>2, <2>3, <2>4, <2>5, <2>6, <2>7 DEF Types
<1>2. Process /\ Places
    BY EmptySeq DEF Process, Places, Empty, Buffers
<1>3. Layout /\ Walk
    BY DEF Layout, Walk, Live
<1>4. DOMAIN shards = {}
    BY EmptySeq
<1>5. InOrder
    BY <1>4 DEF InOrder, FramesInOrder, FramesFirst, LineInOrder, Waiting, Live
<1>6. Account
    <2>1. ToSet(logged) = {} /\ Increasing(logged)
        BY DEF ToSet, Increasing
    <2> QED
        BY <1>4, <2>1 DEF Account, Waiting, Live
<1>7. Complete /\ Blamed /\ CrashCostsOneShard
    BY <1>4, EmptySeq DEF Complete, Blamed, CrashCostsOneShard
<1>8. Calls
    BY DEF Calls, Idle, Flushing
<1>9. Clean
    BY <1>4 DEF Clean, FramesOpenUnlessLeft, Buffers
<1> QED
    BY <1>1, <1>2, <1>3, <1>5, <1>6, <1>7, <1>8, <1>9 DEF Inv

\* The steps that are the thread's own.
LEMMA ClientStep ==
    ASSUME Inv, Log \/ TimeOut \/ FlushCall \/ FlushDrained \/ FlushReturn
    PROVE  Inv'
<1>1. UNCHANGED <<cells, offset, pool, files, master, free, queue, pos, key, procs, shards, next,
                  logged, left, faults>>
    BY DEF Log, TimeOut, FlushCall, FlushDrained, FlushReturn
<1>2. Types /\ key # 0
    <2>1. key # 0 \/ client.step # "idle"
        BY DEF Log, TimeOut, FlushCall, FlushDrained, FlushReturn
    <2>2. key = 0 => client.step = "idle"
        BY DEF Inv, Process, Idle
    <2> QED
        BY <2>1, <2>2 DEF Inv
<1>3. /\ ToSet(logged) \subseteq 1 .. next /\ next \in Nat /\ faults \in Nat
      /\ NoTarget \in SUBSET Nat
    BY <1>2 DEF Inv, Account, Types, NoTarget
<1>4. Types' /\ Calls'
    <2>1. client' \in Clients
        <3>1. client \in Clients
            BY <1>2 DEF Types
        <3>2. CASE Log
            <4>1. PICK s \in Sizes : client' = [Idle EXCEPT !.step = "write", !.size = s]
                BY <3>2 DEF Log
            <4>2. client' = [step |-> "write", size |-> s, target |-> NoTarget] /\ s \in Nat
                <5>1. s \in Nat
                    BY SizesAssumption
                <5> QED
                    BY <4>1, <5>1 DEF Idle
            <4> QED
                BY <1>3, <4>2 DEF Clients
        <3>3. CASE TimeOut \/ FlushReturn
            <4>1. client' = [step |-> "idle", size |-> 0, target |-> NoTarget]
                BY <3>3 DEF TimeOut, FlushReturn, Idle
            <4> QED
                BY <1>3, <4>1 DEF Clients
        <3>4. CASE FlushCall
            <4>1. PICK e \in Flushing :
                    client' = [step |-> e, size |-> 0, target |-> ToSet(logged)]
                BY <3>4 DEF FlushCall, Idle, Flushing
            <4>2. ToSet(logged) \in SUBSET Nat
                BY <1>3
            <4> QED
                BY <4>1, <4>2 DEF Clients
        <3>5. CASE FlushDrained
            BY <3>1, <3>5 DEF FlushDrained, Flushing, Clients
        <3> QED
            BY <3>2, <3>3, <3>4, <3>5
    <2>2. Types'
        BY <1>1, <1>2, <2>1 DEF Types, Buffers
    <2>3. Calls'
        <3>1. CASE Log
            <4>1. PICK s \in Sizes : client' = [step |-> "write", size |-> s, target |-> NoTarget]
                BY <3>1 DEF Log, Idle
            <4>2. next < MaxFrames
                <5>1. next + faults < MaxFrames /\ MaxFrames \in Nat
                    BY <3>1, BoundsAssumption DEF Log
                <5> QED
                    BY <1>3, <5>1
            <4> QED
                BY <1>1, <4>1, <4>2 DEF Calls, Flushing
        <3>2. CASE TimeOut \/ FlushReturn
            BY <1>1, <3>2 DEF Calls, TimeOut, FlushReturn, Idle, Flushing
        <3>3. CASE FlushCall
            <4>1. offset[master] > 0 \/ offset[master] = 0
                BY <1>2, CellTypes DEF Types
            <4> QED
                BY <1>1, <1>2, <1>3, <3>3, <4>1 DEF Calls, FlushCall, Idle, Flushing
        <3>4. CASE FlushDrained
            BY <1>1, <1>2, <3>4 DEF Inv, Calls, FlushDrained, Types, Flushing, Clients
        <3> QED
            BY <3>1, <3>2, <3>3, <3>4
    <2> QED
        BY <2>2, <2>3
<1>5. Process'
    BY <1>1, <1>2 DEF Inv, Process, Current
<1> QED
    BY <1>1, <1>4, <1>5, Unmoved DEF Inv, InOrder

LEMMA OverrunStep ==
    ASSUME Inv, Overrun
    PROVE  Inv'
<1> USE DEF Overrun
<1>1. Types /\ key # 0
    BY DEF Inv, Process, Idle
<1>2. /\ client' = [client EXCEPT !.step = "swap"] /\ client \in Clients
      /\ client' \in Clients
    BY <1>1 DEF Types, Clients
<1>3. /\ offset' \in [Buffers -> 0 .. Cap + 1] /\ offset'[master] = Cap + 1 /\ master \in Buffers
      /\ \A b \in Buffers : b # master => offset'[b] = offset[b]
      /\ \A b \in Buffers : offset[b] \in 0 .. Cap + 1
    BY <1>1, SizesAssumption DEF Types
<1>4. Types'
    BY <1>1, <1>2, <1>3 DEF Types, Buffers
<1>5. Process'
    BY <1>1 DEF Inv, Process, Current
<1>6. Places'
    BY <1>1, <1>3, LineTypes DEF Inv, Places, Line
<1>7. Layout'
    <2>1. \A b \in Buffers : Used(b) <= Used(b)' /\ Used(b) \in Nat /\ Used(b)' \in Nat
        BY <1>3, SizesAssumption DEF Used, Smaller
    <2>2. \A b, i : (Live(b, i)' <=> Live(b, i)) /\ Base(b, i)' = Base(b, i)
        BY DEF Live, Base
    <2>3. ASSUME NEW b \in Buffers, NEW i \in 1 .. Cap, Live(b, i)'
          PROVE  /\ cells'[b][i].part \in 1 .. cells'[b][i].size
                 /\ Base(b, i)' >= 0 /\ Base(b, i)' + cells'[b][i].size <= Used(b)'
                 /\ \A j \in Base(b, i)' + 1 .. Base(b, i)' + cells'[b][i].size :
                      cells'[b][j] = [cells'[b][i] EXCEPT !.part = j - Base(b, i)']
                 /\ \A j \in 1 .. i : Live(b, j)'
        <3>1. /\ cells[b][i].part \in 1 .. cells[b][i].size
              /\ Base(b, i) >= 0 /\ Base(b, i) + cells[b][i].size <= Used(b)
              /\ \A j \in Base(b, i) + 1 .. Base(b, i) + cells[b][i].size :
                   cells[b][j] = [cells[b][i] EXCEPT !.part = j - Base(b, i)]
              /\ \A j \in 1 .. i : Live(b, j)
            BY <2>2, <2>3 DEF Inv, Layout
        <3>2. cells[b][i].size \in Nat /\ Base(b, i) \in Int
            BY <1>1, CellTypes DEF Cell, Base
        <3> QED
            BY <2>1, <2>2, <3>1, <3>2
    <2>4. key' # 0 =>
            \A b \in Buffers : offset'[b] <= Cap => \A i \in 1 .. offset'[b] : Live(b, i)'
        BY <1>3, <2>2, SizesAssumption DEF Inv, Layout
    <2> QED
        BY <2>3, <2>4 DEF Layout
<1>8. Calls'
    BY <1>1, <1>2 DEF Inv, Calls, Idle, Flushing, Clients
<1> QED
    BY <1>1, <1>4, <1>5, <1>6, <1>7, <1>8, Unmoved DEF Inv, InOrder

LEMMA DrainStartStep ==
    ASSUME Inv, DrainStart
    PROVE  Inv'
<1> USE DEF DrainStart
<1>1. Types /\ key # 0
    BY DEF Inv, Process
<1>2. Types'
    BY <1>1 DEF Types, Buffers
<1>3. Process' /\ Calls'
    BY <1>1 DEF Inv, Process, Current, Calls
<1>4. Walk'
    <2>1. Head(queue) \in Buffers
        BY <1>1, LineTypes
    <2>2. ASSUME 1 \in 1 .. Cap, Live(Head(queue), 1)
          PROVE  cells[Head(queue)][1].part = 1
        <3>1. /\ cells[Head(queue)][1].part \in 1 .. cells[Head(queue)][1].size
              /\ Base(Head(queue), 1) >= 0
            BY <2>1, <2>2 DEF Inv, Layout
        <3> QED
            BY <1>1, <2>1, <2>2, <3>1, CellTypes DEF Base, Cell
    <2> QED
        BY <2>2 DEF Walk, Live
<1>5. NothingElseWaits /\ AllStillWait
    <2>1. \A b \in Buffers : \A i \in 1 .. Cap : Waiting(b, i)' <=> Waiting(b, i)
        BY DEF Waiting, Live, Done
    <2> QED
        BY <2>1 DEF NothingElseWaits, AllStillWait
<1>6. NoNewFrames /\ NoLostFrames
    BY DEF NoNewFrames, NoLostFrames
<1>7. Line' = Line
    BY DEF Line
<1> QED
    BY <1>1, <1>2, <1>3, <1>4, <1>5, <1>6, <1>7, Unmoved, OrderKept DEF Inv, InOrder

LEMMA SwapStep ==
    ASSUME Inv, Swap
    PROVE  Inv'
<1> USE DEF Swap, SwapTo
<1>1. Types /\ key # 0 /\ Places
    BY DEF Inv, Process, Idle
<1>2. /\ IsInjective(Line) /\ IsInjective(free) /\ ToSet(Line) \cap ToSet(free) = {}
      /\ \A b \in ToSet(Line) \cup ToSet(free) : b <= files
      /\ \A b \in Buffers : b \notin ToSet(Line) => offset[b] = 0
    BY <1>1 DEF Places
<1>3. /\ master' \in Buffers /\ queue' = Line
      /\ free' \in Seq(Buffers) /\ IsInjective(free') /\ pool' \in Nat /\ files' \in 0 .. MaxFiles
      /\ master' \notin ToSet(Line) \cup ToSet(free') /\ ToSet(free') \subseteq ToSet(free)
      /\ \A b \in ToSet(Line) \cup ToSet(free) \cup {master'} : b <= files'
    <2>1. CASE free # << >>
        <3>1. free \in Seq(Buffers)
            BY <1>1 DEF Types
        <3>2. /\ Tail(free) \in Seq(Buffers) /\ Head(free) \in Buffers
              /\ ToSet(free) = ToSet(Tail(free)) \cup {Head(free)}
              /\ IsInjective(Tail(free)) /\ Head(free) \notin ToSet(Tail(free))
            BY <1>2, <2>1, <3>1, TailSet
        <3> QED
            BY <1>1, <1>2, <2>1, <3>2 DEF Line, Types
    <2>2. CASE free = << >>
        <3>1. /\ pool' = pool + 1 /\ files' = files + 1 /\ master' = files + 1 /\ free' = free
              /\ files < MaxFiles
            BY <2>2
        <3>2. free \in Seq(Buffers) /\ ToSet(free) = {} /\ pool \in Nat /\ files \in 0 .. MaxFiles
            BY <1>1, <2>2 DEF Types, ToSet
        <3>3. master' \in Buffers
            BY <3>1, <3>2, BuffersAssumption DEF Buffers
        <3>4. \A b \in ToSet(Line) : b \in Nat /\ b <= files
            <4>1. ToSet(Line) \subseteq Buffers
                BY <1>1, LineTypes DEF ToSet
            <4> QED
                BY <1>2, <4>1 DEF Buffers
        <3>5. /\ files' \in 0 .. MaxFiles /\ pool' \in Nat
              /\ \A b \in ToSet(Line) \cup ToSet(free) \cup {master'} : b <= files'
              /\ master' \notin ToSet(Line) \cup ToSet(free')
            BY <3>1, <3>2, <3>4, BuffersAssumption
        <3> QED
            BY <1>2, <3>1, <3>2, <3>3, <3>5 DEF Line
    <2> QED
        BY <2>1, <2>2
<1>4. client' \in Clients
    BY <1>1 DEF Types, Flushing, Clients
<1>5. Line \in Seq(Buffers)
    BY <1>1, LineTypes
<1>6. Types'
    BY <1>1, <1>3, <1>4, <1>5 DEF Types, Buffers
<1>7. /\ Line' = Append(Line, master') /\ ToSet(Line') = ToSet(Line) \cup {master'}
      /\ IsInjective(Line')
    BY <1>2, <1>3, <1>5, AppendSet DEF Line
<1>8. Places'
    BY <1>2, <1>3, <1>7 DEF Places
<1>9. offset[master'] = 0
    BY <1>2, <1>3
<1>10. queue' # << >> /\ (queue = << >> \/ Head(queue') = Head(queue)) /\ (queue = << >> => pos = 0)
    <2>1. queue' = Append(queue, master)
        OBVIOUS
    <2>2. queue \in Seq(Buffers) /\ master \in Buffers
        BY <1>1 DEF Types
    <2>3. queue' # << >>
        BY <2>1, <2>2
    <2>4. queue # << >> => Head(queue') = Head(queue)
        <3>1. Len(queue) \in Nat /\ (queue # << >> => Len(queue) # 0)
            BY <1>1, LineTypes
        <3>2. queue'[1] = queue[1] \/ Len(queue) = 0
            BY <2>1, <2>2, <3>1, AppendProperties
        <3> QED
            BY <2>1, <2>2, <3>1, <3>2
    <2> QED
        BY <2>3, <2>4 DEF Inv, Process
<1>11. Walk'
    BY <1>10 DEF Inv, Walk, Live
<1>12. NothingElseWaits /\ AllStillWait
    <2>1. \A b \in Buffers : \A i \in 1 .. Cap : Done(b, i)' <=> Done(b, i)
        BY <1>10 DEF Done
    <2>2. \A b \in Buffers : \A i \in 1 .. Cap : Waiting(b, i)' <=> Waiting(b, i)
        BY <2>1 DEF Waiting, Live
    <2> QED
        BY <2>2 DEF NothingElseWaits, AllStillWait
<1>13. NoNewFrames /\ NoLostFrames
    BY DEF NoNewFrames, NoLostFrames
<1>14. LineInOrder'
    <2>1. Len(Line) \in Nat /\ DOMAIN Line = 1 .. Len(Line) /\ \A x \in DOMAIN Line : Line[x] \in Buffers
        BY <1>1, LineTypes
    <2>2. /\ \A x \in DOMAIN Line : Line'[x] = Line[x]
          /\ Line'[Len(Line) + 1] = master' /\ DOMAIN Line' = 1 .. Len(Line) + 1
        <3>1. /\ \A x \in 1 .. Len(Line) : Line'[x] = Line[x]
              /\ Line'[Len(Line) + 1] = master'
              /\ Len(Line') = Len(Line) + 1 /\ Line' \in Seq(Buffers)
            BY <1>3, <1>5, <1>7, AppendProperties
        <3> QED
            BY <2>1, <3>1, LenProperties
    <2>3. \A b \in Buffers : b = master' => \A i \in 1 .. Cap : ~Waiting(b, i)'
        <3>1. \A b \in Buffers : b = master' => \A i \in 1 .. Cap : ~Live(b, i)
            BY <1>1, <1>9, LiveUsed DEF Inv
        <3> QED
            BY <3>1 DEF Waiting, Live
    <2>4. \A x \in DOMAIN Line' : \A i \in 1 .. Cap : Waiting(Line[x], i)' =>
                x \in DOMAIN Line /\ Line'[x] = Line[x]
        <3>1. \A x \in DOMAIN Line' : x \in DOMAIN Line \/ Line'[x] = master'
            BY <2>1, <2>2
        <3>2. \A x \in DOMAIN Line' : Line'[x] \in Buffers
            BY <1>3, <2>1, <2>2, <3>1
        <3> QED
            BY <2>2, <2>3, <3>1, <3>2
    <2> QED
        BY <1>12, <2>1, <2>4 DEF NothingElseWaits, Inv, InOrder, LineInOrder
<1>15. Process'
    BY <1>1, <1>10 DEF Inv, Process, Current
<1>16. Calls'
    BY <1>1, <1>9 DEF Inv, Calls, Idle, Flushing, Types, Clients
<1> QED
    BY <1>6, <1>8, <1>11, <1>12, <1>13, <1>14, <1>15, <1>16, Unmoved, OrderKept DEF Inv, InOrder

\* No buffer can be had: nothing moves but the thread.
LEMMA SwapFailsStep ==
    ASSUME Inv, SwapFails
    PROVE  Inv'
<1> USE DEF SwapFails
<1>1. /\ Types /\ key # 0 /\ client \in Clients /\ next \in Nat
      /\ UNCHANGED <<cells, offset, pool, master, free, queue, pos, key, procs, shards, next,
                     logged, left>>
    BY DEF Inv, Process, Idle, Types
<1>2. files \in 0 .. MaxFiles /\ files' \in 0 .. MaxFiles /\ files <= files'
    BY <1>1, BuffersAssumption DEF Types, Smaller
<1>3. faults' = faults + 1 /\ faults \in Nat /\ faults' \in Nat
    BY <1>1 DEF Fails, Types
<1>4. client' \in Clients /\ Calls'
    <2>1. CASE client.step = "swap"
        BY <1>1, <2>1 DEF Idle, NoTarget, Clients, Calls, Flushing
    <2>2. CASE client.step = "flushswap"
        <3>1. client' = [step |-> "flushwait", size |-> client.size, target |-> {}]
            BY <1>1, <2>2 DEF Clients
        <3> QED
            BY <1>1, <3>1 DEF Clients, Calls, Flushing
    <2> QED
        BY <2>1, <2>2
<1>5. Types'
    BY <1>1, <1>2, <1>3, <1>4 DEF Types, Buffers
<1>6. Process'
    BY <1>1 DEF Inv, Process, Current
<1>7. Places'
    <2>1. Line' = Line /\ ToSet(Line) \cup ToSet(free) \subseteq Nat
        <3>1. ToSet(Line) \subseteq Buffers
            BY <1>1, LineTypes DEF ToSet
        <3>2. ToSet(free) \subseteq Buffers
            BY <1>1, LenProperties, ElementOfSeq DEF Types, ToSet
        <3> QED
            BY <1>1, <3>1, <3>2 DEF Line, Buffers
    <2>2. \A b \in ToSet(Line) \cup ToSet(free) : b <= files'
        BY <1>1, <1>2, <2>1 DEF Inv, Places
    <2> QED
        BY <1>1, <2>1, <2>2 DEF Inv, Places
<1>8. Blamed'
    BY <1>1, <1>3 DEF Inv, Blamed
<1> QED
    BY <1>1, <1>4, <1>5, <1>6, <1>7, <1>8, Unmoved DEF Inv, InOrder

LEMMA StartStep ==
    ASSUME Inv, Start
    PROVE  Inv'
<1> USE DEF Start
<1>1. /\ Types /\ key = 0 /\ queue = << >> /\ client = Idle /\ pos = 0 /\ procs \in Nat
      /\ key' = procs + 1 /\ procs' = procs + 1
    BY DEF Inv, Process, Types
<1>2. /\ Len(shards) \in Nat /\ DOMAIN shards = 1 .. Len(shards)
      /\ \A g \in DOMAIN shards : /\ shards[g] \in Shard
                                  /\ DOMAIN shards[g].frames = 1 .. Len(shards[g].frames)
                                  /\ Len(shards[g].frames) \in Nat
                                  /\ shards[g].key \in 1 .. procs
    BY <1>1, ShardTypes DEF Inv, Process
<1>3. /\ NewShard(key') \in Shard /\ NewShard(key').frames = << >> /\ NewShard(key').disk = -1
      /\ NewShard(key').key = key' /\ NewShard(key').harm = "none" /\ Len(<< >>) = 0 /\ DOMAIN << >> = {}
    <2>1. << >> \in Seq(Frame) /\ Len(<< >>) = 0 /\ DOMAIN << >> = {}
        BY EmptySeq
    <2>2. key' \in Nat
        BY <1>1
    <2> QED
        BY <2>1, <2>2 DEF NewShard, Shard
<1>4. /\ shards' \in Seq(Shard) /\ Len(shards') = Len(shards) + 1
      /\ DOMAIN shards' = 1 .. Len(shards) + 1
      /\ \A g \in 1 .. Len(shards) : shards'[g] = shards[g]
      /\ shards'[Len(shards) + 1] = NewShard(key')
    <2>1. shards \in Seq(Shard)
        BY <1>1 DEF Types
    <2>2. /\ shards' \in Seq(Shard) /\ Len(shards') = Len(shards) + 1
          /\ \A g \in 1 .. Len(shards) : shards'[g] = shards[g]
          /\ shards'[Len(shards) + 1] = NewShard(key')
        BY <1>3, <2>1, AppendProperties
    <2> QED
        BY <2>2, LenProperties
<1>5. \A g \in DOMAIN shards' : \/ g \in DOMAIN shards /\ shards'[g] = shards[g] /\ g < Len(shards')
                                \/ g = Len(shards') /\ shards'[g] = NewShard(key')
    BY <1>2, <1>4
<1>6. /\ free' \in Seq(Buffers) /\ IsInjective(free')
      /\ \A b \in ToSet(free') : b \in 2 .. MinBuffers
    <2>1. free' \in [1 .. MinBuffers - 1 -> Buffers] /\ MinBuffers - 1 \in Nat
        BY BuffersAssumption DEF Buffers
    <2>2. free' \in Seq(Buffers)
        BY <2>1, SeqDef
    <2> QED
        BY <2>2, BuffersAssumption DEF IsInjective, ToSet
<1>7. Line' = <<1>> /\ ToSet(Line') = {1} /\ IsInjective(Line') /\ DOMAIN Line' = {1}
    BY <1>1 DEF Line, ToSet, IsInjective
<1>8. Types'
    <2>1. \A g \in DOMAIN shards' : shards'[g].disk \in -1 .. Len(shards'[g].frames)
        BY <1>1, <1>3, <1>5, SMTT(20) DEF Types
    <2>2. 1 \in Buffers /\ 0 \in 0 .. Cap + 1
        BY BuffersAssumption, SizesAssumption DEF Buffers
    <2>3. offset' \in [Buffers -> 0 .. Cap + 1]
        BY <2>2
    <2>4. pool' \in Nat /\ files' \in 0 .. MaxFiles
        BY BuffersAssumption
    <2> QED
        BY <1>1, <1>4, <1>6, <2>1, <2>2, <2>3, <2>4, SMTT(20) DEF Types, Buffers
<1>9. Process'
    <2>1. \A g \in DOMAIN shards' : shards'[g].key \in 1 .. procs'
        BY <1>1, <1>2, <1>3, <1>5
    <2>2. \A b \in Buffers : \A i \in 1 .. Cap : cells'[b][i].key <= procs'
        <3>1. \A b \in Buffers : \A i \in 1 .. Cap :
                cells[b][i].key <= procs /\ cells[b][i].key \in Nat
            BY <1>1, CellTypes DEF Inv, Process, Cell
        <3> QED
            BY <1>1, <3>1
    <2>3. shards' # << >> /\ Current'.key = key'
        <3>1. shards' # << >>
            BY <1>2, <1>4, EmptySeq
        <3> QED
            BY <1>3, <1>4, <3>1 DEF Current
    <2> QED
        BY <1>1, <2>1, <2>2, <2>3 DEF Process
<1>10. Places'
    <2>1. ToSet(Line') \cap ToSet(free') = {}
        BY <1>6, <1>7
    <2>2. files' = MinBuffers /\ \A b \in ToSet(Line') \cup ToSet(free') : b <= files'
        BY <1>6, <1>7, BuffersAssumption
    <2>3. \A b \in Buffers : offset'[b] = 0
        OBVIOUS
    <2> QED
        BY <1>6, <1>7, <2>1, <2>2, <2>3 DEF Places
<1>11. \A b \in Buffers : \A i \in 1 .. Cap : ~Live(b, i)'
    <2>1. \A b \in Buffers : \A i \in 1 .. Cap :
            cells[b][i].key <= procs /\ cells[b][i].key \in Nat
        BY <1>1, CellTypes DEF Inv, Process, Cell
    <2> QED
        BY <1>1, <2>1 DEF Live
<1>12. Layout'
    BY <1>11, SizesAssumption DEF Layout
<1>13. Walk'
    BY <1>1 DEF Walk
<1>14. NothingElseWaits /\ AllStillWait
    BY <1>1, <1>11 DEF NothingElseWaits, AllStillWait, Waiting, Live
<1>15. NoNewFrames /\ NoLostFrames
    BY <1>2, <1>3, <1>4, <1>5 DEF NoNewFrames, NoLostFrames
<1>16. LineInOrder'
    <2>1. \A x \in DOMAIN Line' : Line'[x] \in Buffers
        BY <1>7, BuffersAssumption DEF Buffers
    <2> QED
        BY <1>11, <2>1 DEF LineInOrder, Waiting
<1>17. Complete'
    BY <1>1, <1>5 DEF Inv, Complete, AllOnDisk
<1>18. CrashCostsOneShard'
    <2> SUFFICES ASSUME NEW g \in 1 .. Len(shards') - 1, shards'[g].key = shards'[g + 1].key
                 PROVE  \/ shards'[g].disk = Len(shards'[g].frames) /\ ~shards'[g].torn
                        \/ shards'[g].harm # "none"
        BY DEF CrashCostsOneShard
    <2>1. g \in DOMAIN shards /\ shards'[g] = shards[g]
        BY <1>2, <1>4
    <2>2. g # Len(shards)
        BY <1>1, <1>2, <1>3, <1>4, <2>1
    <2>3. g \in 1 .. Len(shards) - 1 /\ shards'[g + 1] = shards[g + 1]
        BY <1>2, <1>4, <2>1, <2>2
    <2> QED
        BY <2>1, <2>3 DEF Inv, CrashCostsOneShard
<1>19. Calls'
    BY <1>1 DEF Inv, Calls, Idle, Flushing
<1>20. Clean'
    <2> SUFFICES ASSUME ~left PROVE Clean'
        BY DEF Clean
    <2>1. \A b \in Buffers : \A i \in 1 .. Cap : cells[b][i] = Empty
        BY <1>1 DEF Inv, Clean, Live
    <2>2. FramesOpenUnlessLeft'
        <3>1. \A g \in DOMAIN shards : \A f \in ToSet(shards[g].frames) : f.key = shards[g].key
            BY DEF Inv, Clean, FramesOpenUnlessLeft
        <3>2. ToSet(<< >>) = {}
            BY <1>3 DEF ToSet
        <3> QED
            BY <1>3, <1>5, <3>1, <3>2 DEF FramesOpenUnlessLeft
    <2> QED
        BY <2>1, <2>2 DEF Clean
<1>21. Blamed'
    BY <1>3, <1>5 DEF Inv, Blamed
<1> QED
    BY <1>8, <1>9, <1>10, <1>12, <1>13, <1>14, <1>15, <1>16, <1>17, <1>18, <1>19, <1>20, <1>21,
       OrderKept
    DEF Inv, InOrder

LEMMA WriteStep ==
    ASSUME Inv, Write
    PROVE  Inv'
<1> DEFINE old == offset[master]
           s   == client.size
           New(i) == i \in old + 1 .. old + s
           cell(i) == [key |-> key, n |-> next + 1, part |-> i - old, size |-> s]
<1>1. Types /\ key # 0 /\ key \in Nat /\ procs \in Nat /\ next \in Nat /\ logged \in Seq(Nat) /\ master \in Buffers
    BY DEF Inv, Process, Idle, Write, Types
<1>2. s \in 1 .. Cap /\ old \in 0 .. Cap + 1 /\ old + s <= Cap /\ old \in Nat /\ Cap \in Nat
    <2>1. s \in Sizes /\ old + s <= Cap
        BY DEF Inv, Calls, Write
    <2>2. old \in 0 .. Cap + 1 /\ Cap \in Nat
        BY <1>1, CellTypes, SizesAssumption
    <2> HIDE DEF s, old
    <2> QED
        BY <2>1, <2>2, SizesAssumption
<1>3. /\ \A i \in 1 .. Cap : cells'[master][i] = IF New(i) THEN cell(i) ELSE cells[master][i]
      /\ \A b \in Buffers : b # master => cells'[b] = cells[b]
      /\ offset' = [offset EXCEPT ![master] = old + s]
      /\ cells' = [cells EXCEPT ![master] = [i \in 1 .. Cap |-> IF New(i) THEN cell(i) ELSE cells[master][i]]]
    BY <1>1 DEF Write, Types
<1>4. /\ UNCHANGED <<pool, files, master, free, queue, pos, key, procs, shards, left, faults>>
      /\ client' = Idle /\ next' = next + 1 /\ logged' = Append(logged, next + 1)
    BY DEF Write
<1>5. /\ offset' \in [Buffers -> 0 .. Cap + 1] /\ offset'[master] = old + s
      /\ \A b \in Buffers : b # master => offset'[b] = offset[b]
    BY <1>1, <1>2, <1>3 DEF Types
<1>6. \A i \in 1 .. Cap : New(i) => cell(i) \in Cell /\ cell(i).part \in 1 .. s
    BY <1>1, <1>2, SMTT(20) DEF Cell
<1> HIDE DEF old, s, New, cell
<1>7. Types'
    <2>1. cells' \in [Buffers -> [1 .. Cap -> Cell]]
        <3>1. \A i \in 1 .. Cap : cells[master][i] \in Cell
            BY <1>1, CellTypes
        <3>2. [i \in 1 .. Cap |-> IF New(i) THEN cell(i) ELSE cells[master][i]] \in [1 .. Cap -> Cell]
            BY <1>6, <3>1
        <3> QED
            BY <1>1, <1>3, <3>2 DEF Types
    <2>2. logged' \in Seq(Nat)
        BY <1>1, <1>4, AppendSet
    <2>3. client' \in Clients
        BY <1>4 DEF Idle, NoTarget, Clients
    <2> QED
        BY <1>1, <1>4, <1>5, <2>1, <2>2, <2>3 DEF Types, Buffers
<1>8. Process'
    <2>1. key <= procs
        BY <1>1 DEF Inv, Process
    <2>2. \A b \in Buffers : \A i \in 1 .. Cap : cells'[b][i].key <= procs
        BY <1>1, <1>3, <2>1 DEF Inv, Process, cell
    <2> QED
        BY <1>1, <1>4, <2>2 DEF Inv, Process, Current
<1>9. Places'
    BY <1>1, <1>4, <1>5, LineTypes DEF Inv, Places, Line
<1>10. \A b \in Buffers : offset[b] <= Cap => Used(b) = offset[b]
    BY <1>2, CellTypes, <1>1 DEF Used, Smaller
<1>11. \A i \in 1 .. Cap : Live(master, i) => ~New(i)
    <2>1. Used(master) = old
        BY <1>1, <1>2, <1>10 DEF old
    <2>2. \A i \in 1 .. Cap : Live(master, i) => i <= old
        BY <1>1, <2>1, LiveUsed DEF Inv
    <2> QED
        BY <1>2, <2>2 DEF New
<1>12. \A b \in Buffers : \A i \in 1 .. Cap :
          /\ Live(b, i) => Live(b, i)' /\ cells'[b][i] = cells[b][i]
          /\ Live(b, i)' => Live(b, i) \/ (b = master /\ New(i))
    BY <1>3, <1>4, <1>11 DEF Live
<1>13. \A b \in Buffers : \A i \in 1 .. Cap : b = master /\ New(i) =>
          /\ cells'[b][i] = cell(i) /\ Live(b, i)'
          /\ cell(i).n = next + 1 /\ cell(i).part = i - old /\ cell(i).size = s
    BY <1>1, <1>3, <1>4 DEF Live, cell
<1>14. Layout'
    <2>1. ASSUME NEW b \in Buffers, NEW i \in 1 .. Cap, Live(b, i)'
          PROVE  /\ cells'[b][i].part \in 1 .. cells'[b][i].size
                 /\ Base(b, i)' >= 0 /\ Base(b, i)' + cells'[b][i].size <= Used(b)'
                 /\ \A j \in Base(b, i)' + 1 .. Base(b, i)' + cells'[b][i].size :
                      cells'[b][j] = [cells'[b][i] EXCEPT !.part = j - Base(b, i)']
                 /\ \A j \in 1 .. i : Live(b, j)'
        <3>1. CASE Live(b, i)
            <4>1. cells'[b][i] = cells[b][i] /\ Base(b, i)' = Base(b, i)
                BY <1>12, <3>1 DEF Base
            <4>2. /\ cells[b][i].part \in 1 .. cells[b][i].size
                  /\ Base(b, i) >= 0 /\ Base(b, i) + cells[b][i].size <= Used(b)
                  /\ \A j \in Base(b, i) + 1 .. Base(b, i) + cells[b][i].size :
                       cells[b][j] = [cells[b][i] EXCEPT !.part = j - Base(b, i)]
                  /\ \A j \in 1 .. i : Live(b, j)
                BY <3>1 DEF Inv, Layout
            <4>3. cells[b][i] \in Cell /\ Used(b) \in 0 .. Cap /\ Base(b, i) \in Int
                BY <1>1, CellTypes DEF Cell, Base
            <4>4. Used(b) <= Used(b)' /\ Used(b)' \in Nat
                <5>1. CASE b = master
                    BY <1>2, <1>5, <1>10, <5>1 DEF Used, Smaller, old
                <5>2. CASE b # master
                    BY <1>5, <4>3, <5>2 DEF Used
                <5> QED
                    BY <5>1, <5>2
            <4>5. \A j \in Base(b, i) + 1 .. Base(b, i) + cells[b][i].size : j \in 1 .. Cap /\ Live(b, j)
                <5> SUFFICES ASSUME NEW j \in Base(b, i) + 1 .. Base(b, i) + cells[b][i].size
                             PROVE  j \in 1 .. Cap /\ Live(b, j)
                    OBVIOUS
                <5>1. j \in 1 .. Cap
                    <6>1. Base(b, i) \in Nat /\ cells[b][i].size \in Nat
                        BY <4>2, <4>3 DEF Cell
                    <6> QED
                        BY <1>2, <4>2, <4>3, <6>1
                <5>2. cells[b][j] = [cells[b][i] EXCEPT !.part = j - Base(b, i)]
                    BY <4>2
                <5>3. cells[b][j].key = cells[b][i].key
                    BY <4>3, <5>2 DEF Cell
                <5> QED
                    BY <3>1, <5>1, <5>3 DEF Live
            <4>6. \A j \in 1 .. i : j \in 1 .. Cap
                BY <1>2
            <4> QED
                BY <1>12, <4>1, <4>2, <4>3, <4>4, <4>5, <4>6 DEF Cell
        <3>2. CASE b = master /\ New(i)
            <4>1. cells'[b][i] = cell(i) /\ Base(b, i)' = old
                BY <1>2, <1>13, <3>2 DEF Base
            <4>2. Used(b)' = old + s
                BY <1>2, <1>5, <3>2 DEF Used, Smaller
            <4>3. \A j \in old + 1 .. old + s : j \in 1 .. Cap /\ New(j)
                BY <1>2 DEF New
            <4>4. \A j \in old + 1 .. old + s : cells'[b][j] = [cell(i) EXCEPT !.part = j - old]
                BY <1>13, <3>2, <4>3 DEF cell
            <4>5. \A j \in 1 .. i : Live(b, j)'
                <5> SUFFICES ASSUME NEW j \in 1 .. i PROVE Live(b, j)'
                    OBVIOUS
                <5>1. j \in 1 .. Cap /\ (j \in 1 .. old \/ New(j))
                    BY <1>2, <3>2 DEF New
                <5>2. j \in 1 .. old => Live(b, j)
                    BY <1>1, <1>2, <3>2, SMTT(20) DEF Inv, Layout, old
                <5> QED
                    BY <1>12, <1>13, <3>2, <5>1, <5>2
            <4> QED
                BY <1>2, <1>6, <1>13, <3>2, <4>1, <4>2, <4>4, <4>5
        <3> QED
            BY <1>12, <2>1, <3>1, <3>2
    <2>2. ASSUME NEW b \in Buffers, offset'[b] <= Cap, NEW i \in 1 .. offset'[b]
          PROVE  Live(b, i)'
        <3>1. i \in 1 .. Cap
            BY <1>5, <2>2, <1>2
        <3>2. CASE b = master
            <4>1. i \in 1 .. old \/ New(i)
                BY <1>2, <1>5, <3>2 DEF New
            <4>2. i \in 1 .. old => Live(b, i)
                BY <1>1, <1>2, <3>2 DEF Inv, Layout, old
            <4> QED
                BY <1>12, <1>13, <3>1, <3>2, <4>1, <4>2
        <3>3. CASE b # master
            BY <1>1, <1>5, <1>12, <2>2, <3>1, <3>3 DEF Inv, Layout
        <3> QED
            BY <3>2, <3>3
    <2> QED
        BY <2>1, <2>2 DEF Layout
<1>15. queue # << >> => Head(queue) \in Buffers /\ Head(queue) # master
    BY <1>1, LineTypes, MasterNotQueued DEF Inv
<1>16. Walk'
    <2>1. pos \in 1 .. Cap => queue # << >>
        BY DEF Inv, Process
    <2> QED
        BY <1>3, <1>4, <1>15, <2>1 DEF Inv, Walk, Live
<1>17. \A b \in Buffers : \A i \in 1 .. Cap :
          /\ Waiting(b, i) => Waiting(b, i)' /\ cells'[b][i] = cells[b][i]
          /\ Waiting(b, i)' => Waiting(b, i) \/ (b = master /\ i = old + 1 /\ cells'[b][i].n = next + 1)
    <2>1. \A b, i : Done(b, i)' <=> Done(b, i)
        BY <1>4 DEF Done
    <2>2. \A b \in Buffers : \A i \in 1 .. Cap :
            b = master /\ New(i) /\ cells'[b][i].part = 1 => i = old + 1
        BY <1>2, <1>13
    <2> QED
        BY <1>12, <1>13, <2>1, <2>2 DEF Waiting
<1>18. \E b \in Buffers : \E i \in 1 .. Cap : Waiting(b, i)' /\ cells'[b][i].n = next + 1
    <2>1. PICK i \in 1 .. Cap : New(i) /\ i - old = 1
        <3>1. old + 1 \in 1 .. Cap /\ New(old + 1) /\ old + 1 - old = 1
            BY <1>2 DEF New
        <3> QED
            BY <1>2, <3>1
    <2>2. PICK b \in Buffers : b = master
        BY <1>1
    <2>3. ~Done(b, i)'
        BY <1>4, <1>15, <2>2 DEF Done
    <2>4. Live(b, i)' /\ cells'[b][i].part = 1 /\ cells'[b][i].n = next + 1
        BY <1>13, <2>1, <2>2
    <2>5. Waiting(b, i)'
        BY <2>3, <2>4 DEF Waiting
    <2> QED
        BY <2>4, <2>5
<1>19. \A n \in ToSet(logged) : n \in Nat /\ n < next + 1
    BY <1>1 DEF Inv, Account
<1>20. FramesFirst'
    <2>1. \A g \in DOMAIN shards : \A i \in DOMAIN shards[g].frames :
            Own(g, i) => shards[g].frames[i].n < next + 1
        BY <1>19 DEF Inv, Account
    <2> QED
        BY <1>4, <1>17, <2>1 DEF Inv, InOrder, FramesFirst, Own
<1>21. LineInOrder'
    <2>1. Line' = Line
        BY <1>4 DEF Line
    <2>2. DOMAIN Line = 1 .. Len(queue) + 1 /\ Len(queue) \in Nat
          /\ (\A x \in DOMAIN Line : Line[x] \in Buffers) /\ Line[Len(queue) + 1] = master
        BY <1>1, LineTypes
    <2>3. \A x \in DOMAIN Line : Line[x] = master => x = Len(queue) + 1
        BY <1>1, <2>2 DEF Inv, Places, IsInjective
    <2>4. \A b \in Buffers : \A i \in 1 .. Cap : Waiting(b, i) => cells[b][i].n < next + 1
        BY <1>19 DEF Inv, Account
    <2>5. \A i \in 1 .. Cap : Waiting(master, i) => i < old + 1
        BY <1>1, <1>2, <1>10, LiveUsed, SMTT(20) DEF Inv, Waiting, old
    <2> SUFFICES ASSUME NEW x \in DOMAIN Line, NEW y \in DOMAIN Line,
                        NEW i \in 1 .. Cap, NEW j \in 1 .. Cap,
                        Waiting(Line[x], i)', Waiting(Line[y], j)',
                        x < y \/ (x = y /\ i < j)
                 PROVE  cells'[Line[x]][i].n < cells'[Line[y]][j].n
        BY <2>1 DEF LineInOrder
    <2>6. ~(Line[x] = master /\ i = old + 1)
        <3> SUFFICES ASSUME Line[x] = master, i = old + 1 PROVE FALSE
            OBVIOUS
        <3>1. y = x /\ j > old + 1
            BY <2>2, <2>3
        <3> QED
            BY <1>2, <1>17, <2>1, <2>2, <2>5, <3>1
    <2>7. Waiting(Line[x], i) /\ cells'[Line[x]][i] = cells[Line[x]][i]
        BY <1>17, <2>1, <2>2, <2>6
    <2>8. CASE Waiting(Line[y], j)
        BY <1>17, <2>2, <2>7, <2>8 DEF Inv, InOrder, LineInOrder
    <2>9. CASE ~Waiting(Line[y], j)
        BY <1>17, <2>1, <2>2, <2>4, <2>7, <2>9
    <2> QED
        BY <2>8, <2>9
<1>22. Account'
    <2>1. ToSet(logged') = ToSet(logged) \cup {next + 1}
        BY <1>1, <1>4, AppendSet
    <2>2. Increasing(logged)'
        <3>1. Len(logged) \in Nat /\ DOMAIN logged = 1 .. Len(logged)
            BY <1>1, LenProperties
        <3>2. DOMAIN logged' = 1 .. Len(logged) + 1 /\ logged'[Len(logged) + 1] = next + 1
              /\ \A i \in 1 .. Len(logged) : logged'[i] = logged[i]
            BY <1>1, <1>4, AppendProperties, LenProperties
        <3>3. \A i \in 1 .. Len(logged) : logged[i] < next + 1
            BY <1>19, <3>1 DEF ToSet
        <3> QED
            BY <3>1, <3>2, <3>3 DEF Inv, Account, Increasing
    <2>3. \A n \in ToSet(logged') : n \in 1 .. next'
        BY <1>1, <1>4, <2>1 DEF Inv, Account
    <2>4. \A g, i : Own(g, i)' <=> Own(g, i)
        BY <1>4 DEF Own
    <2>5. \A b \in Buffers : \A i \in 1 .. Cap : Waiting(b, i)' => cells'[b][i].n \in ToSet(logged')
        BY <1>17, <2>1 DEF Inv, Account
    <2>6. ASSUME NEW n \in ToSet(logged')
          PROVE  \/ \E g \in DOMAIN shards' : \E i \in DOMAIN shards'[g].frames :
                      Own(g, i)' /\ n = shards'[g].frames[i].n
                 \/ \E b \in Buffers : \E i \in 1 .. Cap : Waiting(b, i)' /\ n = cells'[b][i].n
        <3>1. CASE n = next + 1
            BY <1>1, <1>18, <3>1
        <3>2. CASE n \in ToSet(logged)
            <4>1. \/ \E g \in DOMAIN shards : \E i \in DOMAIN shards[g].frames :
                       Own(g, i) /\ n = shards[g].frames[i].n
                  \/ \E b \in Buffers : \E i \in 1 .. Cap : Waiting(b, i) /\ n = cells[b][i].n
                BY <3>2 DEF Inv, Account
            <4> QED
                BY <1>4, <1>17, <2>4, <4>1
        <3> QED
            BY <2>1, <2>6, <3>1, <3>2
    <2>7. \A g \in DOMAIN shards' : \A i \in DOMAIN shards'[g].frames :
              Own(g, i)' => shards'[g].frames[i].n \in ToSet(logged')
        BY <1>4, <2>1, <2>4 DEF Inv, Account
    <2> QED
        BY <2>2, <2>3, <2>5, <2>6, <2>7 DEF Account
<1>23. Calls'
    BY <1>4 DEF Calls, Idle, Flushing
<1>24. Clean'
    <2>1. ~left => \A b \in Buffers : \A i \in 1 .. Cap : cells'[b][i] # Empty => Live(b, i)'
        <3> SUFFICES ASSUME ~left, NEW b \in Buffers, NEW i \in 1 .. Cap, cells'[b][i] # Empty
                     PROVE  Live(b, i)'
            OBVIOUS
        <3>1. CASE b = master /\ New(i)
            BY <1>13, <3>1
        <3>2. CASE ~(b = master /\ New(i))
            <4>1. cells'[b][i] = cells[b][i]
                BY <1>3, <3>2
            <4> QED
                BY <1>12, <4>1 DEF Inv, Clean
        <3> QED
            BY <3>1, <3>2
    <2> QED
        BY <1>4, <2>1 DEF Inv, Clean, FramesOpenUnlessLeft
<1> QED
    BY <1>4, <1>7, <1>8, <1>9, <1>14, <1>16, <1>20, <1>21, <1>22, <1>23, <1>24, Unmoved
    DEF Inv, InOrder

LEMMA OpenShard ==
    ASSUME Inv, key # 0
    PROVE  /\ Types /\ Len(shards) \in DOMAIN shards /\ Current = shards[Len(shards)]
           /\ Current \in Shard /\ Current.key = key
           /\ Current.disk \in -1 .. Len(Current.frames) /\ Len(Current.frames) \in Nat
           /\ DOMAIN Current.frames = 1 .. Len(Current.frames)
           /\ Current.frames \in Seq(Frame)
           /\ \A i \in DOMAIN Current.frames : Current.frames[i] \in Frame
<1>1. Types /\ Len(shards) \in DOMAIN shards /\ Current = shards[Len(shards)] /\ Current.key = key
    BY ShardTypes DEF Inv, Process, Current
<1>2. Current \in Shard
    BY <1>1, ShardTypes
<1> QED
    BY <1>1, <1>2, ShardTypes DEF Types, Shard

\* stdio's progress in the open shard: by itself, by fflush, and at the end.
Progress(e) ==
    /\ e \in Shard /\ e.key = Current.key /\ e.frames = Current.frames /\ e.harm = Current.harm
    /\ e.disk \in Current.disk .. Len(Current.frames)
    /\ shards' = [shards EXCEPT ![Len(shards)] = e]

\* What it leaves alone, and what is on disk stays there.
Advanced ==
    /\ shards' \in Seq(Shard) /\ Len(shards') = Len(shards) /\ DOMAIN shards' = DOMAIN shards
    /\ \A g \in DOMAIN shards :
         /\ shards'[g].key = shards[g].key /\ shards'[g].frames = shards[g].frames
         /\ shards'[g].harm = shards[g].harm
         /\ shards'[g].disk \in -1 .. Len(shards'[g].frames)
         /\ shards[g].disk <= shards'[g].disk
         /\ AllOnDisk(shards[g]) => AllOnDisk(shards'[g])
    /\ NoNewFrames /\ NoLostFrames /\ CrashCostsOneShard'
    /\ UNCHANGED left /\ FramesOpenUnlessLeft => FramesOpenUnlessLeft'
    /\ UNCHANGED faults => Blamed'

LEMMA DiskProgress ==
    ASSUME Inv, key # 0, NEW e, Progress(e)
    PROVE  /\ Advanced /\ Current' = e
           /\ e.disk = Len(Current.frames) => AllOnDisk(Current')
<1> DEFINE L == Len(shards)
<1> USE DEF Progress
<1>1. /\ Types /\ L \in DOMAIN shards /\ L \in Nat /\ DOMAIN shards = 1 .. L
      /\ Current = shards[L] /\ shards \in Seq(Shard)
    BY ShardTypes DEF Inv, Process, Current, Types
<1>2. \A g \in DOMAIN shards : /\ shards[g] \in Shard
                               /\ shards[g].disk \in -1 .. Len(shards[g].frames)
                               /\ Len(shards[g].frames) \in Nat
                               /\ DOMAIN shards[g].frames = 1 .. Len(shards[g].frames)
    BY <1>1, ShardTypes DEF Types
<1>3. e \in Shard /\ e.disk \in Int /\ Current.disk <= e.disk /\ e.disk <= Len(Current.frames)
    <2>1. Current.disk \in -1 .. Len(Current.frames) /\ Len(Current.frames) \in Nat
        BY <1>1, <1>2
    <2> QED
        BY <2>1
<1> HIDE DEF L
<1>4. /\ shards' \in Seq(Shard) /\ Len(shards') = L /\ DOMAIN shards' = DOMAIN shards
      /\ \A g \in 1 .. L : shards'[g] = IF g = L THEN e ELSE shards[g]
    <2>1. shards' = [shards EXCEPT ![L] = e]
        BY DEF L
    <2>2. /\ shards' \in Seq(Shard) /\ Len(shards') = L
          /\ \A g \in 1 .. L : shards'[g] = IF g = L THEN e ELSE shards[g]
        BY <1>1, <1>3, <2>1, ExceptSeq DEF L
    <2> QED
        BY <1>1, <2>2, LenProperties
<1>5. Current' = e
    BY <1>1, <1>4 DEF Current
<1>6. \A g \in DOMAIN shards :
        /\ shards'[g].key = shards[g].key /\ shards'[g].frames = shards[g].frames
        /\ shards'[g].harm = shards[g].harm
        /\ shards'[g].disk \in -1 .. Len(shards'[g].frames)
        /\ shards[g].disk <= shards'[g].disk
    BY <1>1, <1>2, <1>3, <1>4
<1>7. \A g \in DOMAIN shards : AllOnDisk(shards[g]) => AllOnDisk(shards'[g])
    BY <1>2, <1>6 DEF AllOnDisk
<1>8. e.disk = Len(Current.frames) => AllOnDisk(Current')
    BY <1>1, <1>2, <1>3, <1>5 DEF AllOnDisk
<1>9. NoNewFrames /\ NoLostFrames
    BY <1>4, <1>6 DEF NoNewFrames, NoLostFrames
<1>10. CrashCostsOneShard'
    <2>1. \A g \in 1 .. L - 1 : shards'[g] = shards[g] /\ shards'[g + 1].key = shards[g + 1].key
        BY <1>1, <1>4, <1>6
    <2> QED
        BY <1>4, <2>1 DEF Inv, CrashCostsOneShard, L
<1>11. UNCHANGED left /\ FramesOpenUnlessLeft => FramesOpenUnlessLeft'
    BY <1>4, <1>6 DEF FramesOpenUnlessLeft
<1>12. UNCHANGED faults => Blamed'
    BY <1>4, <1>6 DEF Inv, Blamed
<1> QED
    BY <1>4, <1>5, <1>6, <1>7, <1>8, <1>9, <1>10, <1>11, <1>12 DEF Advanced, L

\* The actions as such progress.
LEMMA SpillProgress ==
    ASSUME Inv, Spill
    PROVE  key # 0 /\ \E e : Progress(e)
<1>1. PICK n \in Current.disk .. Len(Current.frames), t \in BOOLEAN :
        shards' = [shards EXCEPT ![Len(shards)].disk = n, ![Len(shards)].torn = t]
    BY DEF Spill
<1>2. key # 0
    BY DEF Spill
<1> DEFINE e == [Current EXCEPT !.disk = n, !.torn = t]
<1>3. shards' = [shards EXCEPT ![Len(shards)] = e]
    BY <1>1, <1>2, OpenShard
<1>4. /\ Current \in Shard /\ n \in Int
      /\ Current.disk \in -1 .. Len(Current.frames) /\ Len(Current.frames) \in Nat
    BY <1>2, OpenShard
<1>5. /\ e \in Shard /\ e.key = Current.key /\ e.frames = Current.frames
      /\ e.harm = Current.harm /\ e.disk = n
    BY <1>4 DEF Shard
<1>6. Progress(e)
    BY <1>3, <1>5 DEF Progress
<1> QED
    BY <1>2, <1>6

LEMMA SyncProgress ==
    ASSUME Inv, key # 0,
           NEW e, e = Synced(Current) \/ e = Closed(Current),
           shards' = [shards EXCEPT ![Len(shards)] = e]
    PROVE  Progress(e) /\ e.disk = Len(Current.frames)
<1>1. /\ Current \in Shard /\ Len(Current.frames) \in Current.disk .. Len(Current.frames)
      /\ Len(Current.frames) \in Int
    BY OpenShard
<1>2. e \in Shard /\ e.key = Current.key /\ e.frames = Current.frames /\ e.harm = Current.harm
      /\ e.disk = Len(Current.frames)
    <2>1. PICK n \in Int : n = Len(Current.frames)
        BY <1>1
    <2>2. CASE e = Synced(Current)
        <3>1. e = [Current EXCEPT !.disk = n, !.torn = FALSE]
            BY <2>1, <2>2 DEF Synced
        <3> QED
            BY <1>1, <2>1, <3>1 DEF Shard
    <2>3. CASE e = Closed(Current)
        <3>1. e = [Current EXCEPT !.disk = n, !.torn = FALSE, !.open = FALSE]
            BY <1>1, <2>1, <2>3 DEF Closed, Synced, Shard
        <3> QED
            BY <1>1, <2>1, <3>1 DEF Shard
    <2> QED
        BY <2>2, <2>3
<1> QED
    BY <1>1, <1>2 DEF Progress

LEMMA SpillStep ==
    ASSUME Inv, Spill
    PROVE  Inv'
<1>1. /\ UNCHANGED <<cells, offset, pool, files, master, free, queue, pos, key, procs, client,
                     next, logged, left, faults>>
      /\ key # 0
    BY DEF Spill
<1>2. PICK e : Progress(e)
    BY SpillProgress
<1>3. Advanced
    BY <1>1, <1>2, DiskProgress
<1>4. /\ Types /\ Len(shards) \in DOMAIN shards /\ Current = shards[Len(shards)]
      /\ Current' = shards'[Len(shards)] /\ Current.key = key
    BY <1>1, <1>3, OpenShard DEF Current, Advanced
<1>5. Types'
    BY <1>1, <1>3, <1>4 DEF Types, Buffers, Advanced
<1>6. Process'
    <2>1. shards' # << >>
        BY <1>3, <1>4, EmptySeq DEF Advanced
    <2> QED
        BY <1>1, <1>3, <1>4, <2>1 DEF Inv, Process, Advanced
<1>7. NothingElseWaits /\ AllStillWait /\ Line' = Line
    BY <1>1 DEF NothingElseWaits, AllStillWait, Waiting, Live, Done, Line
<1>8. Complete' /\ Calls'
    BY <1>1, <1>3, <1>4 DEF Inv, Complete, Calls, Advanced
<1>9. Clean' /\ Blamed'
    BY <1>1, <1>3 DEF Inv, Clean, Live, Advanced
<1>10. NoNewFrames /\ NoLostFrames /\ CrashCostsOneShard'
    BY <1>3 DEF Advanced
<1> QED
    BY <1>1, <1>5, <1>6, <1>7, <1>8, <1>9, <1>10, Unmoved, OrderKept DEF Inv, InOrder

LEMMA FlushShardStep ==
    ASSUME Inv, FlushShard
    PROVE  Inv'
<1>1. /\ UNCHANGED <<cells, offset, pool, files, master, free, queue, pos, key, procs, next, logged,
                     left>>
      /\ client.step = "flushshard"
    BY DEF FlushShard
<1>2. key # 0 /\ Types /\ client \in Clients /\ faults \in Nat
    BY <1>1 DEF Inv, Process, Idle, Types
<1>3. CASE shards' = [shards EXCEPT ![Len(shards)] = Synced(@)]
           /\ client' = [client EXCEPT !.step = "flushed"] /\ UNCHANGED faults
    <2>1. shards' = [shards EXCEPT ![Len(shards)] = Synced(Current)]
        BY <1>2, <1>3, OpenShard
    <2>2. Advanced /\ AllOnDisk(Current')
        BY <1>2, <2>1, SyncProgress, DiskProgress
    <2>3. /\ Types /\ Len(shards) \in DOMAIN shards /\ Current = shards[Len(shards)]
          /\ Current' = shards'[Len(shards)] /\ Current.key = key
        BY <1>2, <2>2, OpenShard DEF Current, Advanced
    <2>4. client' \in Clients
        BY <1>2, <1>3 DEF Clients, Flushing
    <2>5. Types'
        BY <1>1, <1>3, <2>2, <2>3, <2>4 DEF Types, Buffers, Advanced
    <2>6. Process'
        <3>1. shards' # << >>
            BY <2>2, <2>3, EmptySeq DEF Advanced
        <3> QED
            BY <1>1, <1>2, <2>2, <2>3, <3>1 DEF Inv, Process, Advanced
    <2>7. NothingElseWaits /\ AllStillWait /\ Line' = Line
        BY <1>1 DEF NothingElseWaits, AllStillWait, Waiting, Live, Done, Line
    <2>8. Complete'
        BY <1>1, <2>2, <2>3 DEF Inv, Complete, Advanced
    <2>9. Calls'
        BY <1>1, <1>2, <1>3, <2>2 DEF Inv, Calls, Flushing, Clients
    <2>10. Clean' /\ Blamed'
        BY <1>1, <1>3, <2>2 DEF Inv, Clean, Live, Advanced
    <2>11. NoNewFrames /\ NoLostFrames /\ CrashCostsOneShard'
        BY <2>2 DEF Advanced
    <2> QED
        BY <1>1, <2>5, <2>6, <2>7, <2>8, <2>9, <2>10, <2>11, Unmoved, OrderKept DEF Inv, InOrder
<1>4. CASE Fails /\ client' = [client EXCEPT !.step = "flushed", !.target = {}] /\ UNCHANGED shards
    <2>1. client' = [step |-> "flushed", size |-> client.size, target |-> {}]
        BY <1>2, <1>4 DEF Clients
    <2>2. faults' \in Nat /\ faults' > 0
        BY <1>2, <1>4 DEF Fails
    <2>3. Types'
        <3>1. client' \in Clients
            BY <1>2, <2>1 DEF Clients, Flushing
        <3> QED
            BY <1>1, <1>2, <1>4, <2>2, <3>1 DEF Types, Buffers
    <2>4. Process' /\ Calls'
        BY <1>1, <1>2, <1>4, <2>1 DEF Inv, Process, Current, Calls, Flushing
    <2>5. Blamed'
        BY <1>4, <2>2 DEF Blamed
    <2> QED
        BY <1>1, <1>4, <2>3, <2>4, <2>5, Unmoved DEF Inv, InOrder
<1> QED
    BY <1>3, <1>4 DEF FlushShard

\* Nothing waits when nothing is queued and the master is empty.
LEMMA Drained ==
    ASSUME Inv, queue = << >>, offset[master] = 0
    PROVE  \A b \in Buffers : \A i \in 1 .. Cap : ~Live(b, i)
<1> SUFFICES ASSUME NEW b \in Buffers, NEW i \in 1 .. Cap, Live(b, i) PROVE FALSE
    OBVIOUS
<1>1. offset[b] # 0 /\ key # 0 /\ Types
    BY LiveUsed DEF Inv, Live
<1>2. ToSet(queue) = {}
    BY DEF ToSet
<1>3. ToSet(Line) = {master}
    BY <1>1, <1>2, LineTypes
<1> QED
    BY <1>1, <1>3 DEF Inv, Places

LEMMA DestroyStep ==
    ASSUME Inv, Destroy
    PROVE  Inv'
<1>1. /\ UNCHANGED <<cells, offset, pool, files, master, free, procs, next, logged, left, faults>>
      /\ key' = 0 /\ queue' = << >> /\ pos' = 0 /\ client' = Idle
      /\ key # 0 /\ queue = << >> /\ offset[master] = 0 /\ client = Idle
    BY DEF Destroy, Gone
<1>2. shards' = [shards EXCEPT ![Len(shards)] = Closed(Current)]
    BY <1>1, OpenShard DEF Destroy
<1>3. Advanced /\ AllOnDisk(Current')
    BY <1>1, <1>2, SyncProgress, DiskProgress
<1>4. /\ Types /\ Len(shards) \in DOMAIN shards /\ Current = shards[Len(shards)]
      /\ Current' = shards'[Len(shards)] /\ Current.key = key
    BY <1>1, <1>3, OpenShard DEF Current, Advanced
<1>5. Types'
    BY <1>1, <1>3, <1>4 DEF Types, Buffers, Advanced
<1>6. Process'
    BY <1>1, <1>3, <1>4 DEF Inv, Process, Advanced
<1>7. \A b \in Buffers : \A i \in 1 .. Cap : ~Live(b, i) /\ ~Live(b, i)'
    BY <1>1, Drained DEF Live
<1>8. NothingElseWaits /\ AllStillWait
    BY <1>7 DEF NothingElseWaits, AllStillWait, Waiting
<1>9. Places' /\ Layout' /\ Walk' /\ Line' = Line
    BY <1>1, <1>7 DEF Places, Layout, Walk, Live, Line
<1>10. Complete'
    <2>1. \A g \in DOMAIN shards : g < Len(shards) \/ g = Len(shards)
        BY <1>4, ShardTypes
    <2> QED
        BY <1>3, <1>4, <2>1 DEF Inv, Complete, Advanced
<1>11. Calls'
    BY <1>1 DEF Calls, Idle, Flushing
<1>12. Clean' /\ Blamed'
    BY <1>1, <1>3, <1>7 DEF Inv, Clean, Advanced
<1>13. NoNewFrames /\ NoLostFrames /\ CrashCostsOneShard'
    BY <1>3 DEF Advanced
<1> QED
    BY <1>1, <1>5, <1>6, <1>8, <1>9, <1>10, <1>11, <1>12, <1>13, OrderKept DEF Inv, InOrder

\* What waits in the master is lost to the log with the process.
LEMMA DestroyLeavingStep ==
    ASSUME Inv, DestroyLeaving
    PROVE  /\ Inv' /\ Advanced /\ Saved' \subseteq ToSet(logged)
           /\ logged' = OnDisk' /\ ToSet(logged)' = Saved'
<1>1. /\ UNCHANGED <<cells, offset, pool, files, master, free, procs, next>>
      /\ key' = 0 /\ queue' = << >> /\ pos' = 0 /\ client' = Idle /\ left' = TRUE
      /\ key # 0 /\ queue = << >> /\ client = Idle /\ logged' = OnDisk'
    BY DEF DestroyLeaving, Gone
<1>2. shards' = [shards EXCEPT ![Len(shards)] = Closed(Current)]
    BY <1>1, OpenShard DEF DestroyLeaving
<1>3. Advanced /\ AllOnDisk(Current')
    BY <1>1, <1>2, SyncProgress, DiskProgress
<1>4. /\ Types /\ Len(shards) \in DOMAIN shards /\ Current = shards[Len(shards)]
      /\ Current' = shards'[Len(shards)] /\ Current.key = key /\ DOMAIN shards = 1 .. Len(shards)
      /\ Len(shards) \in Nat
    BY <1>1, <1>3, OpenShard, ShardTypes DEF Current, Advanced
<1>5. \A b \in Buffers : \A i \in 1 .. Cap : ~Live(b, i)' /\ ~Waiting(b, i)'
    BY <1>1 DEF Live, Waiting
<1>6. NoNewFrames /\ NothingElseWaits
    BY <1>3, <1>5 DEF Advanced, NothingElseWaits
<1>7. FramesInOrder' /\ FramesFirst'
    BY <1>6, OrderKept
<1>8. /\ OnDisk' \in Seq(Nat) /\ Increasing(OnDisk)' /\ ToSet(OnDisk)' = Saved'
    BY <1>3, <1>7, DiskInOrderNext DEF Advanced
<1>9. faults' \in Nat /\ faults' > 0
    BY <1>4 DEF DestroyLeaving, Fails, Types
<1>10. Types'
    BY <1>1, <1>3, <1>4, <1>8, <1>9 DEF Types, Buffers, Advanced, Idle, NoTarget, Clients
<1>11. Process'
    BY <1>1, <1>3, <1>4 DEF Inv, Process, Advanced
<1>12. Places' /\ Layout' /\ Walk' /\ LineInOrder'
    <2>1. \A b \in Buffers : offset'[b] = offset[b]
        BY <1>1
    <2>2. Places' /\ Layout' /\ Walk'
        BY <1>1, <1>5 DEF Places, Layout, Walk
    <2> QED
        BY <1>1, <2>2 DEF LineInOrder, Waiting, Live
<1>13. Complete'
    <2>1. \A g \in DOMAIN shards : g < Len(shards) \/ g = Len(shards)
        BY <1>4
    <2> QED
        BY <1>3, <1>4, <2>1 DEF Inv, Complete, Advanced
<1>14. /\ \A n \in Saved' : n \in ToSet(logged)
       /\ \A g \in DOMAIN shards' : \A i \in DOMAIN shards'[g].frames :
              Own(g, i)' => shards'[g].frames[i].n \in Saved'
       /\ \A n \in Saved' : \E g \in DOMAIN shards' : \E i \in DOMAIN shards'[g].frames :
              Own(g, i)' /\ n = shards'[g].frames[i].n
    <2>1. \A n \in Saved' : \E g \in DOMAIN shards' : \E i \in DOMAIN shards'[g].frames :
              Own(g, i)' /\ n = shards'[g].frames[i].n
        BY DEF Saved, SavedIn, Own
    <2>2. \A g \in DOMAIN shards' : \A i \in DOMAIN shards'[g].frames :
              /\ g \in DOMAIN shards /\ i \in DOMAIN shards[g].frames
              /\ Own(g, i)' => Own(g, i) /\ shards'[g].frames[i] = shards[g].frames[i]
        BY <1>6 DEF NoNewFrames, Own
    <2>3. \A n \in Saved' : n \in ToSet(logged)
        BY <2>1, <2>2 DEF Inv, Account
    <2>4. ASSUME NEW g \in DOMAIN shards', NEW i \in DOMAIN shards'[g].frames, Own(g, i)'
          PROVE  shards'[g].frames[i].n \in Saved'
        <3>1. i <= shards'[g].disk
            BY <1>1, <1>13 DEF Complete, AllOnDisk
        <3>2. shards'[g].frames[i].n \in Nat
            BY <1>4, <2>2, <2>4, ShardTypes DEF Frame
        <3> QED
            BY <2>4, <3>1, <3>2 DEF Saved, SavedIn, Own
    <2> QED
        BY <2>1, <2>3, <2>4
<1>15. ToSet(logged)' = Saved' /\ Increasing(logged)'
    BY <1>1, <1>8 DEF Increasing
<1>16. Account'
    <2>1. \A n \in Saved' : n \in 1 .. next'
        BY <1>1, <1>14 DEF Inv, Account
    <2> QED
        BY <1>5, <1>14, <1>15, <2>1 DEF Account
<1>17. Calls' /\ Clean' /\ Blamed' /\ CrashCostsOneShard'
    BY <1>1, <1>3, <1>9 DEF Calls, Idle, Flushing, Clean, Blamed, Advanced
<1> QED
    BY <1>1, <1>3, <1>7, <1>10, <1>11, <1>12, <1>13, <1>14, <1>15, <1>16, <1>17 DEF Inv, InOrder

\* A crash takes the frames that are not on disk, and what is there stays.
LEMMA CrashShards ==
    ASSUME Inv, Crash
    PROVE  /\ shards' \in Seq(Shard) /\ Len(shards') = Len(shards) /\ DOMAIN shards' = DOMAIN shards
           /\ \A g \in DOMAIN shards :
                /\ shards'[g].key = shards[g].key /\ shards'[g].disk = shards[g].disk
                /\ shards'[g].harm = shards[g].harm
                /\ shards'[g].disk \in -1 .. Len(shards'[g].frames)
                /\ \A i : i \in DOMAIN shards'[g].frames <=>
                       i \in DOMAIN shards[g].frames /\ i <= shards[g].disk
                /\ \A i \in DOMAIN shards'[g].frames : shards'[g].frames[i] = shards[g].frames[i]
                /\ g < Len(shards) => shards'[g] = shards[g]
           /\ Saved' = Saved
<1> DEFINE L == Len(shards)
           e == [Current EXCEPT !.frames = SubSeq(Current.frames, 1, Current.disk)]
<1>1. /\ Types /\ key # 0 /\ L \in DOMAIN shards /\ L \in Nat /\ DOMAIN shards = 1 .. L
      /\ Current = shards[L] /\ shards \in Seq(Shard) /\ Current \in Shard
      /\ Current.disk \in -1 .. Len(Current.frames) /\ Len(Current.frames) \in Nat
      /\ DOMAIN Current.frames = 1 .. Len(Current.frames)
      /\ \A i \in DOMAIN Current.frames : Current.frames[i] \in Frame
    BY OpenShard, ShardTypes DEF Inv, Crash, Types
<1>2. /\ e.frames \in Seq(Frame) /\ DOMAIN e.frames = 1 .. Len(e.frames)
      /\ Len(e.frames) = IF 1 <= Current.disk THEN Current.disk ELSE 0
      /\ \A i \in 1 .. Current.disk : e.frames[i] = Current.frames[i]
      /\ e.key = Current.key /\ e.disk = Current.disk /\ e.harm = Current.harm /\ e \in Shard
    <2>1. /\ SubSeq(Current.frames, 1, Current.disk) \in Seq(Frame)
          /\ Len(SubSeq(Current.frames, 1, Current.disk)) = IF 1 <= Current.disk THEN Current.disk ELSE 0
          /\ \A i \in 1 .. Current.disk :
               SubSeq(Current.frames, 1, Current.disk)[i] = Current.frames[i]
        <3>1. \A i \in 1 .. Current.disk : Current.frames[i] \in Frame
            BY <1>1
        <3>2. /\ SubSeq(Current.frames, 1, Current.disk) \in Seq(Frame)
              /\ Len(SubSeq(Current.frames, 1, Current.disk))
                    = IF 1 <= Current.disk THEN Current.disk - 1 + 1 ELSE 0
              /\ \A i \in 1 .. Current.disk - 1 + 1 :
                   SubSeq(Current.frames, 1, Current.disk)[i] = Current.frames[1 + i - 1]
            BY <1>1, <3>1, SubSeqProperties
        <3> QED
            BY <1>1, <3>2
    <2>2. e.frames = SubSeq(Current.frames, 1, Current.disk) /\ e \in Shard
          /\ e.key = Current.key /\ e.disk = Current.disk /\ e.harm = Current.harm
        BY <1>1, <2>1 DEF Shard
    <2> QED
        BY <2>1, <2>2, LenProperties
<1>3. shards' = [shards EXCEPT ![L] = e]
    BY <1>1 DEF Crash
<1> HIDE DEF L, e
<1>4. /\ shards' \in Seq(Shard) /\ Len(shards') = L /\ DOMAIN shards' = DOMAIN shards
      /\ \A g \in 1 .. L : shards'[g] = IF g = L THEN e ELSE shards[g]
    <2>1. /\ shards' \in Seq(Shard) /\ Len(shards') = L
          /\ \A g \in 1 .. L : shards'[g] = IF g = L THEN e ELSE shards[g]
        BY <1>1, <1>2, <1>3, ExceptSeq DEF L
    <2> QED
        BY <1>1, <2>1, LenProperties
<1>5. ASSUME NEW g \in DOMAIN shards
      PROVE  /\ shards'[g].key = shards[g].key /\ shards'[g].disk = shards[g].disk
             /\ shards'[g].harm = shards[g].harm
             /\ shards'[g].disk \in -1 .. Len(shards'[g].frames)
             /\ \A i : i \in DOMAIN shards'[g].frames <=>
                    i \in DOMAIN shards[g].frames /\ i <= shards[g].disk
             /\ \A i \in DOMAIN shards'[g].frames : shards'[g].frames[i] = shards[g].frames[i]
             /\ g < L => shards'[g] = shards[g]
    <2>1. CASE g = L
        <3>1. shards'[g] = e /\ shards[g] = Current
            BY <1>1, <1>4, <2>1
        <3>2. \A i : i \in DOMAIN e.frames <=> i \in DOMAIN Current.frames /\ i <= Current.disk
            BY <1>1, <1>2
        <3>3. \A i \in DOMAIN e.frames : e.frames[i] = Current.frames[i]
            BY <1>1, <1>2, <3>2
        <3>4. e.disk \in -1 .. Len(e.frames) /\ ~(g < L)
            BY <1>1, <1>2, <2>1
        <3> QED
            BY <1>2, <3>1, <3>2, <3>3, <3>4
    <2>2. CASE g # L
        <3>1. shards'[g] = shards[g] /\ g < L
            BY <1>1, <1>4, <2>2
        <3>2. shards[g].disk \in -1 .. Len(shards[g].frames)
            BY <1>1 DEF Types
        <3>3. AllOnDisk(shards[g])
            BY <3>1 DEF Inv, Complete, L
        <3> QED
            BY <3>1, <3>2, <3>3 DEF AllOnDisk
    <2> QED
        BY <2>1, <2>2
<1>6. Saved' = Saved
    <2>1. \A g \in DOMAIN shards : SavedIn(shards'[g]) = SavedIn(shards[g])
        BY <1>5 DEF SavedIn
    <2> QED
        BY <1>4, <2>1 DEF Saved
<1> QED
    BY <1>4, <1>5, <1>6 DEF L

LEMMA CrashStep ==
    ASSUME Inv, Crash
    PROVE  Inv'
<1>1. /\ UNCHANGED <<cells, offset, pool, files, master, free, procs, next, faults>>
      /\ key # 0 /\ key' = 0 /\ queue' = << >> /\ pos' = 0 /\ client' = Idle
      /\ logged' = OnDisk /\ left' = TRUE
    BY DEF Crash, Gone
<1>2. /\ shards' \in Seq(Shard) /\ Len(shards') = Len(shards) /\ DOMAIN shards' = DOMAIN shards
      /\ \A g \in DOMAIN shards :
           /\ shards'[g].key = shards[g].key /\ shards'[g].disk = shards[g].disk
           /\ shards'[g].harm = shards[g].harm
           /\ shards'[g].disk \in -1 .. Len(shards'[g].frames)
           /\ \A i : i \in DOMAIN shards'[g].frames <=>
                  i \in DOMAIN shards[g].frames /\ i <= shards[g].disk
           /\ \A i \in DOMAIN shards'[g].frames : shards'[g].frames[i] = shards[g].frames[i]
           /\ g < Len(shards) => shards'[g] = shards[g]
    BY CrashShards
<1>3. /\ OnDisk \in Seq(Nat) /\ Increasing(OnDisk) /\ ToSet(OnDisk) = Saved
    BY PrefixSaved
<1>4. Types
    BY DEF Inv
<1>5. Types'
    <2>1. client' \in Clients
        BY <1>1 DEF Idle, NoTarget, Clients
    <2> QED
        BY <1>1, <1>2, <1>3, <1>4, <2>1 DEF Types, Buffers
<1>6. Process'
    BY <1>1, <1>2, <1>4 DEF Inv, Process
<1>7. \A b \in Buffers : \A i \in 1 .. Cap : ~Live(b, i)'
    BY <1>1 DEF Live
<1>8. Places' /\ Layout' /\ Walk'
    BY <1>1, <1>7 DEF Places, Layout, Walk, Live
<1>9. NoNewFrames
    BY <1>2 DEF NoNewFrames
<1>10. FramesInOrder' /\ FramesFirst'
    <2>1. NothingElseWaits
        BY <1>7 DEF NothingElseWaits, Waiting
    <2> QED
        BY <1>9, <2>1, OrderKept
<1>11. LineInOrder'
    BY <1>1 DEF LineInOrder, Waiting, Live
<1>12. Account'
    <2>1. \A g \in DOMAIN shards : \A i \in DOMAIN shards[g].frames : shards[g].frames[i].n \in Nat
        BY <1>4, ShardTypes DEF Frame
    <2>2. \A n : n \in Saved <=> \E g \in DOMAIN shards : \E i \in DOMAIN shards[g].frames :
                                   i <= shards[g].disk /\ Own(g, i) /\ n = shards[g].frames[i].n
        BY <2>1 DEF Saved, SavedIn, Own
    <2>3. \A n : n \in Saved <=> \E g \in DOMAIN shards' : \E i \in DOMAIN shards'[g].frames :
                                   Own(g, i)' /\ n = shards'[g].frames[i].n
        <3>1. \A g \in DOMAIN shards : \A i \in DOMAIN shards[g].frames : i <= shards[g].disk =>
                /\ i \in DOMAIN shards'[g].frames /\ (Own(g, i) => Own(g, i)')
                /\ shards'[g].frames[i].n = shards[g].frames[i].n
            BY <1>2 DEF Own
        <3>2. \A g \in DOMAIN shards' : \A i \in DOMAIN shards'[g].frames :
                /\ g \in DOMAIN shards /\ i \in DOMAIN shards[g].frames /\ i <= shards[g].disk
                /\ (Own(g, i)' => Own(g, i)) /\ shards'[g].frames[i].n = shards[g].frames[i].n
            BY <1>2 DEF Own
        <3>3. ASSUME NEW n \in Saved
              PROVE  \E g \in DOMAIN shards' : \E i \in DOMAIN shards'[g].frames :
                        Own(g, i)' /\ n = shards'[g].frames[i].n
            <4>1. PICK g \in DOMAIN shards : \E i \in DOMAIN shards[g].frames :
                        i <= shards[g].disk /\ Own(g, i) /\ n = shards[g].frames[i].n
                BY <2>2
            <4> QED
                BY <1>2, <3>1, <4>1
        <3>4. ASSUME NEW g \in DOMAIN shards', NEW i \in DOMAIN shards'[g].frames, Own(g, i)'
              PROVE  shards'[g].frames[i].n \in Saved
            BY <2>2, <3>2, <3>4
        <3> QED
            BY <3>3, <3>4
    <2>4. ToSet(logged') = Saved /\ Increasing(logged)'
        BY <1>1, <1>3 DEF Increasing
    <2>5. \A n \in Saved : n \in 1 .. next
        BY <2>2 DEF Inv, Account
    <2>6. \A b \in Buffers : \A i \in 1 .. Cap : ~Waiting(b, i)'
        BY <1>7 DEF Waiting
    <2> QED
        BY <1>1, <2>3, <2>4, <2>5, <2>6 DEF Account
<1>13. Complete'
    BY <1>2 DEF Complete, AllOnDisk
<1>14. CrashCostsOneShard'
    <2>1. Len(shards) \in Nat /\ DOMAIN shards = 1 .. Len(shards)
        BY <1>4, ShardTypes
    <2>2. \A g \in 1 .. Len(shards) - 1 : shards'[g] = shards[g] /\ shards'[g + 1].key = shards[g + 1].key
        BY <1>2, <2>1, SMTT(20)
    <2> QED
        BY <1>2, <2>2 DEF Inv, CrashCostsOneShard
<1>15. Calls'
    BY <1>1 DEF Calls, Idle, Flushing
<1>16. Clean'
    BY <1>1 DEF Clean
<1>17. Blamed'
    BY <1>1, <1>2 DEF Inv, Blamed
<1> QED
    BY <1>5, <1>6, <1>8, <1>10, <1>11, <1>12, <1>13, <1>14, <1>15, <1>16, <1>17 DEF Inv, InOrder

\* The records that a failed write takes out of the open shard.
LEMMA LostFrames ==
    ASSUME Inv, key # 0, NEW n \in 0 .. Len(Current.frames)
    PROVE  \A x : x \in Records(SubSeq(Current.frames, n + 1, Len(Current.frames))) <=>
               \E i \in DOMAIN Current.frames :
                   i > n /\ Current.frames[i].key = key /\ x = Current.frames[i].n
<1> DEFINE fs == Current.frames
           k == Len(fs)
           t == SubSeq(fs, n + 1, k)
<1>1. k \in Nat /\ DOMAIN fs = 1 .. k /\ fs \in Seq(Frame) /\ \A i \in 1 .. k : fs[i] \in Frame
    BY OpenShard
<1> HIDE DEF fs, k
<1>2. /\ t \in Seq(Frame) /\ Len(t) = k - n
      /\ \A i \in 1 .. k - n : t[i] = fs[n + i]
    <2>1. n + 1 \in Int /\ k \in Int /\ \A i \in n + 1 .. k : fs[i] \in Frame
        BY <1>1 DEF k, fs
    <2>2. /\ t \in Seq(Frame)
          /\ Len(t) = IF n + 1 <= k THEN k - (n + 1) + 1 ELSE 0
          /\ \A i \in 1 .. k - (n + 1) + 1 : t[i] = fs[n + 1 + i - 1]
        BY <1>1, <2>1, SubSeqProperties
    <2>3. n \in Int /\ n <= k
        BY <1>1 DEF k, fs
    <2>4. Len(t) = k - n /\ \A i \in 1 .. k - n : i \in 1 .. k - (n + 1) + 1 /\ n + 1 + i - 1 = n + i
        BY <1>1, <2>2, <2>3
    <2> HIDE DEF t
    <2> QED
        BY <2>2, <2>4
<1>3. DOMAIN t = 1 .. k - n
    BY <1>2, LenProperties
<1> HIDE DEF t
<1>4. \A i \in 1 .. k : i > n => i - n \in 1 .. k - n /\ n + (i - n) = i
    BY <1>1
<1>5. \A i \in 1 .. k - n : n + i \in 1 .. k /\ n + i > n
    BY <1>1
<1>6. \A f : f \in ToSet(t) <=> \E i \in 1 .. k : i > n /\ f = fs[i]
    <2>1. \A f : f \in ToSet(t) <=> \E i \in 1 .. k - n : f = fs[n + i]
        BY <1>2, <1>3 DEF ToSet
    <2> QED
        BY <1>4, <1>5, <2>1
<1>7. \A x : x \in Records(t) <=> \E f \in ToSet(t) : f.key = key /\ x = f.n
    BY DEF Records
<1>8. \A x : x \in Records(t) <=> \E i \in 1 .. k : i > n /\ fs[i].key = key /\ x = fs[i].n
    BY <1>6, <1>7
<1> QED
    BY <1>1, <1>8 DEF t, fs, k

LEMMA SpoiltShards ==
    ASSUME Inv, NEW n \in 0 .. Len(Current.frames), NEW h \in {"gap", "break"},
           key # 0, n >= Current.disk,
           shards' = [shards EXCEPT ![Len(shards)] = Spoilt(@, n, h)]
    PROVE  /\ shards' \in Seq(Shard) /\ Len(shards') = Len(shards) /\ DOMAIN shards' = DOMAIN shards
           /\ \A g \in DOMAIN shards :
                /\ shards'[g].key = shards[g].key /\ shards'[g].disk = shards[g].disk
                /\ shards'[g].disk \in -1 .. Len(shards'[g].frames)
                /\ \A i : i \in DOMAIN shards'[g].frames <=>
                       i \in DOMAIN shards[g].frames /\ (g = Len(shards) => i <= n)
                /\ \A i \in DOMAIN shards'[g].frames : shards'[g].frames[i] = shards[g].frames[i]
                /\ g < Len(shards) => shards'[g] = shards[g]
           /\ Saved' = Saved
<1> DEFINE L == Len(shards)
           e == Spoilt(Current, n, h)
<1>1. /\ Types /\ L \in DOMAIN shards /\ L \in Nat /\ DOMAIN shards = 1 .. L
      /\ Current = shards[L] /\ shards \in Seq(Shard) /\ Current \in Shard
      /\ Current.disk \in -1 .. Len(Current.frames) /\ Len(Current.frames) \in Nat
      /\ DOMAIN Current.frames = 1 .. Len(Current.frames)
      /\ \A i \in DOMAIN Current.frames : Current.frames[i] \in Frame
    BY OpenShard, ShardTypes DEF Types
<1>2. /\ e.frames \in Seq(Frame) /\ DOMAIN e.frames = 1 .. n /\ Len(e.frames) = n
      /\ \A i \in 1 .. n : e.frames[i] = Current.frames[i]
      /\ e.key = Current.key /\ e.disk = Current.disk /\ e \in Shard
    <2> DEFINE t == SubSeq(Current.frames, 1, n)
    <2>1. t \in Seq(Frame) /\ Len(t) = n /\ \A i \in 1 .. n : t[i] = Current.frames[i]
        <3>1. \A i \in 1 .. n : Current.frames[i] \in Frame
            BY <1>1
        <3>2. /\ t \in Seq(Frame)
              /\ Len(t) = IF 1 <= n THEN n - 1 + 1 ELSE 0
              /\ \A i \in 1 .. n - 1 + 1 : t[i] = Current.frames[1 + i - 1]
            BY <1>1, <3>1, SubSeqProperties
        <3> HIDE DEF t
        <3> QED
            BY <1>1, <3>2
    <2>2. e = [Current EXCEPT !.frames = t, !.torn = FALSE, !.harm = h]
        BY DEF Spoilt
    <2> HIDE DEF t, e
    <2>3. e.frames = t /\ e \in Shard /\ e.key = Current.key /\ e.disk = Current.disk
        BY <1>1, <2>1, <2>2 DEF Shard
    <2> QED
        BY <2>1, <2>3, LenProperties
<1>3. shards' = [shards EXCEPT ![L] = e]
    BY <1>1
<1> HIDE DEF L, e
<1>4. /\ shards' \in Seq(Shard) /\ Len(shards') = L /\ DOMAIN shards' = DOMAIN shards
      /\ \A g \in 1 .. L : shards'[g] = IF g = L THEN e ELSE shards[g]
    <2>1. /\ shards' \in Seq(Shard) /\ Len(shards') = L
          /\ \A g \in 1 .. L : shards'[g] = IF g = L THEN e ELSE shards[g]
        BY <1>1, <1>2, <1>3, ExceptSeq DEF L
    <2> QED
        BY <1>1, <2>1, LenProperties
<1>5. ASSUME NEW g \in DOMAIN shards
      PROVE  /\ shards'[g].key = shards[g].key /\ shards'[g].disk = shards[g].disk
             /\ shards'[g].disk \in -1 .. Len(shards'[g].frames)
             /\ \A i : i \in DOMAIN shards'[g].frames <=>
                    i \in DOMAIN shards[g].frames /\ (g = L => i <= n)
             /\ \A i \in DOMAIN shards'[g].frames : shards'[g].frames[i] = shards[g].frames[i]
             /\ g < L => shards'[g] = shards[g]
    <2>1. CASE g = L
        <3>1. shards'[g] = e /\ shards[g] = Current
            BY <1>1, <1>4, <2>1
        <3>2. \A i : i \in DOMAIN e.frames <=> i \in DOMAIN Current.frames /\ i <= n
            BY <1>1, <1>2
        <3>3. e.disk \in -1 .. Len(e.frames)
            BY <1>1, <1>2
        <3> QED
            BY <1>1, <1>2, <2>1, <3>1, <3>2, <3>3
    <2>2. CASE g # L
        <3>1. shards'[g] = shards[g]
            BY <1>1, <1>4, <2>2
        <3>2. shards[g].disk \in -1 .. Len(shards[g].frames)
            BY <1>1 DEF Types
        <3> QED
            BY <2>2, <3>1, <3>2
    <2> QED
        BY <2>1, <2>2
<1>6. Saved' = Saved
    <2>1. \A g \in DOMAIN shards : \A i \in DOMAIN shards[g].frames : i <= shards[g].disk =>
              i \in DOMAIN shards'[g].frames
        BY <1>1, <1>5, ShardTypes DEF Shard
    <2>2. \A g \in DOMAIN shards : SavedIn(shards'[g]) = SavedIn(shards[g])
        BY <1>5, <2>1 DEF SavedIn
    <2> QED
        BY <1>4, <2>2 DEF Saved
<1> QED
    BY <1>4, <1>5, <1>6 DEF L

LEMMA StreamFailsStep ==
    ASSUME Inv, StreamFails
    PROVE  /\ Inv' /\ Saved' = Saved
           /\ \E ns : ns \cap Saved = {} /\ ToSet(logged)' = ToSet(logged) \ ns
<1>1. /\ UNCHANGED <<cells, offset, pool, files, master, free, queue, pos, key, procs, client,
                     next, left>>
      /\ key # 0 /\ Fails
    BY DEF StreamFails
<1>2. PICK n \in 0 .. Len(Current.frames), h \in {"gap", "break"} :
        /\ n >= Current.disk
        /\ shards' = [shards EXCEPT ![Len(shards)] = Spoilt(@, n, h)]
        /\ Lose(Records(SubSeq(Current.frames, n + 1, Len(Current.frames))))
    BY DEF StreamFails
<1> DEFINE lost == Records(SubSeq(Current.frames, n + 1, Len(Current.frames)))
           G == Len(shards)
<1>3. /\ Types /\ G \in DOMAIN shards /\ Current = shards[G] /\ Current.key = key
      /\ G \in Nat /\ DOMAIN shards = 1 .. G
      /\ Current.disk \in Int /\ n \in Int
      /\ DOMAIN Current.frames \subseteq Int
      /\ \A i \in DOMAIN Current.frames : Current.frames[i] \in Frame
    BY <1>1, OpenShard, ShardTypes
<1>4. \A x : x \in lost <=>
          \E i \in DOMAIN shards[G].frames : i > n /\ Own(G, i) /\ x = shards[G].frames[i].n
    <2>1. \A x : x \in lost <=> \E i \in DOMAIN Current.frames :
                     i > n /\ Current.frames[i].key = key /\ x = Current.frames[i].n
        BY <1>1, LostFrames
    <2> QED
        BY <1>3, <2>1 DEF Own
<1> HIDE DEF lost
<1>5. /\ shards' \in Seq(Shard) /\ Len(shards') = Len(shards) /\ DOMAIN shards' = DOMAIN shards
      /\ \A g \in DOMAIN shards :
           /\ shards'[g].key = shards[g].key /\ shards'[g].disk = shards[g].disk
           /\ shards'[g].disk \in -1 .. Len(shards'[g].frames)
           /\ \A i : i \in DOMAIN shards'[g].frames <=>
                  i \in DOMAIN shards[g].frames /\ (g = Len(shards) => i <= n)
           /\ \A i \in DOMAIN shards'[g].frames : shards'[g].frames[i] = shards[g].frames[i]
           /\ g < Len(shards) => shards'[g] = shards[g]
      /\ Saved' = Saved
    BY <1>1, <1>2, SpoiltShards
<1>6. \A b, i : (Waiting(b, i)' <=> Waiting(b, i)) /\ (Live(b, i)' <=> Live(b, i))
    BY <1>1 DEF Waiting, Live, Done
<1>7. NoNewFrames /\ NothingElseWaits /\ Line' = Line
    BY <1>1, <1>5, <1>6 DEF NoNewFrames, NothingElseWaits, Line
<1>8. \A g \in DOMAIN shards' : \A i \in DOMAIN shards'[g].frames :
          Own(g, i)' => Own(g, i) /\ shards'[g].frames[i].n \notin lost
    <2> SUFFICES ASSUME NEW g \in DOMAIN shards', NEW i \in DOMAIN shards'[g].frames, Own(g, i)'
                 PROVE  Own(g, i) /\ shards'[g].frames[i].n \notin lost
        OBVIOUS
    <2>1. /\ g \in DOMAIN shards /\ i \in DOMAIN shards[g].frames /\ Own(g, i)
          /\ shards'[g].frames[i] = shards[g].frames[i] /\ (g = G => i <= n)
        BY <1>5 DEF Own
    <2>2. ASSUME shards[g].frames[i].n \in lost PROVE FALSE
        <3>1. PICK j \in DOMAIN shards[G].frames :
                j > n /\ Own(G, j) /\ shards[g].frames[i].n = shards[G].frames[j].n
            BY <1>4, <2>2
        <3>2. i \in Int /\ j \in Int /\ shards[g].frames[i].n \in Nat
            BY <1>3, <2>1, ShardTypes DEF Frame
        <3>3. g < G \/ (g = G /\ i < j)
            BY <1>3, <2>1, <3>1, <3>2
        <3>4. shards[g].frames[i].n < shards[G].frames[j].n
            BY <1>3, <2>1, <3>1, <3>3 DEF Inv, InOrder, FramesInOrder
        <3> QED
            BY <3>1, <3>2, <3>4
    <2> QED
        BY <2>1, <2>2
<1>9. \A b \in Buffers : \A i \in 1 .. Cap : Waiting(b, i)' => cells'[b][i].n \notin lost
    <2> SUFFICES ASSUME NEW b \in Buffers, NEW i \in 1 .. Cap, Waiting(b, i), cells[b][i].n \in lost
                 PROVE  FALSE
        BY <1>1, <1>6
    <2>1. PICK j \in DOMAIN shards[G].frames : Own(G, j) /\ cells[b][i].n = shards[G].frames[j].n
        BY <1>4
    <2>2. shards[G].frames[j].n < cells[b][i].n
        BY <1>3, <2>1 DEF Inv, InOrder, FramesFirst
    <2>3. cells[b][i].n \in Nat
        BY <1>3, CellTypes DEF Cell
    <2> QED
        BY <2>1, <2>2, <2>3
<1>10. \A g \in DOMAIN shards : \A i \in DOMAIN shards[g].frames : Own(g, i) =>
           \/ shards[g].frames[i].n \in lost
           \/ /\ g \in DOMAIN shards' /\ i \in DOMAIN shards'[g].frames
              /\ Own(g, i)' /\ shards'[g].frames[i] = shards[g].frames[i]
    <2> SUFFICES ASSUME NEW g \in DOMAIN shards, NEW i \in DOMAIN shards[g].frames, Own(g, i)
                 PROVE  \/ shards[g].frames[i].n \in lost
                        \/ /\ g \in DOMAIN shards' /\ i \in DOMAIN shards'[g].frames
                           /\ Own(g, i)' /\ shards'[g].frames[i] = shards[g].frames[i]
        OBVIOUS
    <2>1. CASE g = G /\ ~(i <= n)
        <3>1. i > n
            BY <1>3, <2>1
        <3> QED
            BY <1>4, <2>1, <3>1
    <2>2. CASE ~(g = G /\ ~(i <= n))
        BY <1>5, <2>2 DEF Own
    <2> QED
        BY <2>1, <2>2
<1>11. logged' \in Seq(Nat) /\ ToSet(logged)' = ToSet(logged) \ lost /\ Account'
    <2>1. Lose(lost) /\ UNCHANGED next
        BY <1>1, <1>2 DEF lost
    <2>2. \A b \in Buffers : \A i \in 1 .. Cap : Waiting(b, i) =>
              cells[b][i].n \in lost \/ (Waiting(b, i)' /\ cells'[b][i].n = cells[b][i].n)
        BY <1>1, <1>6
    <2>3. \A g \in DOMAIN shards' : \A i \in DOMAIN shards'[g].frames :
              Own(g, i)' => shards'[g].frames[i].n \notin lost
        BY <1>8
    <2> QED
        BY <1>7, <1>9, <1>10, <2>1, <2>2, <2>3, LossAccounted
<1>12. lost \cap Saved = {}
    <2> SUFFICES ASSUME NEW x \in lost, x \in Saved PROVE FALSE
        OBVIOUS
    <2>1. PICK g \in DOMAIN shards' : x \in SavedIn(shards'[g])
        BY <1>5 DEF Saved
    <2>2. PICK i \in DOMAIN shards'[g].frames : Own(g, i)' /\ x = shards'[g].frames[i].n
        BY <2>1 DEF SavedIn, Own
    <2> QED
        BY <1>8, <2>2
<1>13. faults' \in Nat /\ faults' > 0
    BY <1>1, <1>3 DEF Fails, Types
<1>14. Types'
    BY <1>1, <1>3, <1>5, <1>11, <1>13 DEF Types, Buffers
<1>15. Current' = shards'[G]
    BY <1>5 DEF Current
<1>16. Process'
    <2>1. shards' # << >>
        BY <1>3, <1>5, EmptySeq
    <2> QED
        BY <1>1, <1>3, <1>5, <1>15, <2>1 DEF Inv, Process
<1>17. Complete'
    <2>1. \A g \in DOMAIN shards : AllOnDisk(shards[g]) => AllOnDisk(shards'[g])
        BY <1>5 DEF AllOnDisk
    <2> QED
        BY <1>1, <1>5, <2>1 DEF Inv, Complete
<1>18. Calls'
    <2>1. AllOnDisk(Current) => AllOnDisk(Current')
        BY <1>3, <1>5, <1>15 DEF AllOnDisk
    <2> QED
        BY <1>1, <2>1 DEF Inv, Calls
<1>19. CrashCostsOneShard'
    <2>1. \A g \in 1 .. G - 1 : shards'[g] = shards[g] /\ shards'[g + 1].key = shards[g + 1].key
        BY <1>3, <1>5, SMTT(20)
    <2> QED
        BY <1>5, <2>1 DEF Inv, CrashCostsOneShard
<1>20. Clean'
    <2>1. ASSUME FramesOpenUnlessLeft, ~left,
                 NEW g \in DOMAIN shards', NEW i \in DOMAIN shards'[g].frames
          PROVE  shards'[g].frames[i].key = shards'[g].key
        <3>1. /\ g \in DOMAIN shards /\ i \in DOMAIN shards[g].frames
              /\ shards'[g].key = shards[g].key /\ shards'[g].frames[i] = shards[g].frames[i]
            BY <1>5
        <3>2. shards[g].frames[i] \in ToSet(shards[g].frames)
            BY <3>1 DEF ToSet
        <3> QED
            BY <2>1, <3>1, <3>2 DEF FramesOpenUnlessLeft
    <2>2. FramesOpenUnlessLeft => FramesOpenUnlessLeft'
        BY <1>1, <2>1 DEF FramesOpenUnlessLeft, ToSet
    <2> QED
        BY <1>1, <1>6, <2>2 DEF Inv, Clean
<1>21. Blamed'
    BY <1>13 DEF Blamed
<1>22. FramesInOrder' /\ FramesFirst' /\ LineInOrder'
    BY <1>7, <1>14, OrderKept
<1>23. Places' /\ Layout' /\ Walk'
    BY <1>1, Unmoved
<1> QED
    BY <1>5, <1>11, <1>12, <1>14, <1>16, <1>17, <1>18, <1>19, <1>20, <1>21, <1>22, <1>23
    DEF Inv, InOrder

\* The open shard is closed and another takes its place.
LEMMA ShardRotated ==
    ASSUME Inv, key # 0, NEW o \in Shard, o.key = key, o.disk = -1, shards' = Rotated(o)
    PROVE  /\ shards' \in Seq(Shard) /\ shards' # << >>
           /\ Len(shards') = Len(shards) + 1 /\ DOMAIN shards' = 1 .. Len(shards) + 1
           /\ Current' = o /\ shards'[Len(shards) + 1] = o
           /\ \A g \in DOMAIN shards :
                /\ g \in DOMAIN shards' /\ g < Len(shards')
                /\ shards'[g].key = shards[g].key /\ shards'[g].frames = shards[g].frames
                /\ shards'[g].harm = shards[g].harm
                /\ shards'[g].disk \in -1 .. Len(shards'[g].frames)
                /\ shards[g].disk <= shards'[g].disk /\ AllOnDisk(shards'[g])
           /\ NoLostFrames /\ CrashCostsOneShard'
<1> DEFINE L == Len(shards)
           n == Len(Current.frames)
           c == Closed(Current)
           sh == [shards EXCEPT ![L] = c]
<1>1. /\ Types /\ L \in DOMAIN shards /\ L \in Nat /\ DOMAIN shards = 1 .. L
      /\ Current = shards[L] /\ shards \in Seq(Shard) /\ Current \in Shard /\ Current.key = key
      /\ Current.disk \in -1 .. n /\ n \in Nat /\ DOMAIN Current.frames = 1 .. n
    BY OpenShard, ShardTypes DEF Types
<1>2. \A g \in DOMAIN shards : /\ shards[g].disk \in -1 .. Len(shards[g].frames)
                               /\ Len(shards[g].frames) \in Nat
                               /\ g < L => AllOnDisk(shards[g])
    BY <1>1, ShardTypes DEF Types, Inv, Complete
<1>3. /\ c \in Shard /\ c.frames = Current.frames /\ c.disk = n /\ c.key = key /\ ~c.torn
      /\ c.harm = Current.harm
    <2>1. c = [Current EXCEPT !.disk = n, !.torn = FALSE, !.open = FALSE] /\ n \in Int
        BY <1>1 DEF Closed, Synced, Shard
    <2> HIDE DEF c, n
    <2> QED
        BY <1>1, <2>1 DEF Shard
<1>4. shards' = Append(sh, o)
    BY <1>1 DEF Rotated
<1> HIDE DEF L, n, c
<1>5. /\ sh \in Seq(Shard) /\ Len(sh) = L
      /\ \A g \in 1 .. L : sh[g] = IF g = L THEN c ELSE shards[g]
    BY <1>1, <1>3, ExceptSeq DEF L
<1> HIDE DEF sh
<1>6. /\ shards' \in Seq(Shard) /\ Len(shards') = L + 1 /\ DOMAIN shards' = 1 .. L + 1
      /\ \A g \in 1 .. L : shards'[g] = IF g = L THEN c ELSE shards[g]
      /\ shards'[L + 1] = o
    <2>1. /\ shards' \in Seq(Shard) /\ Len(shards') = L + 1
          /\ \A g \in 1 .. L : shards'[g] = sh[g]
          /\ shards'[L + 1] = o
        BY <1>4, <1>5, AppendProperties
    <2> QED
        BY <1>5, <2>1, LenProperties
<1>7. Current' = o /\ shards' # << >>
    BY <1>1, <1>6, EmptySeq DEF Current
<1>8. AllOnDisk(c)
    BY <1>1, <1>3 DEF AllOnDisk
<1>9. ASSUME NEW g \in DOMAIN shards
      PROVE  /\ g \in DOMAIN shards' /\ g < Len(shards')
             /\ shards'[g].key = shards[g].key /\ shards'[g].frames = shards[g].frames
             /\ shards'[g].harm = shards[g].harm
             /\ shards'[g].disk \in -1 .. Len(shards'[g].frames)
             /\ shards[g].disk <= shards'[g].disk /\ AllOnDisk(shards'[g])
    <2>1. g \in DOMAIN shards' /\ g < Len(shards') /\ g \in Int
        BY <1>1, <1>6
    <2>2. CASE g = L
        BY <1>1, <1>2, <1>3, <1>6, <1>8, <2>1, <2>2 DEF n
    <2>3. CASE g # L
        <3>1. shards'[g] = shards[g] /\ g < L
            BY <1>1, <1>6, <2>3
        <3>2. shards[g].disk \in Int
            BY <1>2
        <3> QED
            BY <1>2, <2>1, <3>1, <3>2
    <2> QED
        BY <2>2, <2>3
<1>10. NoLostFrames
    BY <1>9 DEF NoLostFrames
<1>11. CrashCostsOneShard'
    <2>1. ASSUME NEW g \in 1 .. L - 1
          PROVE  shards'[g] = shards[g] /\ shards'[g + 1].key = shards[g + 1].key
        <3>1. g \in 1 .. L /\ g # L /\ g + 1 \in 1 .. L /\ L \in Int
            BY <1>1
        <3> QED
            BY <1>1, <1>6, <1>9, <3>1
    <2>2. shards'[L].disk = Len(shards'[L].frames) /\ ~shards'[L].torn
        BY <1>1, <1>3, <1>6 DEF n
    <2>3. \A g \in 1 .. Len(shards') - 1 : g \in 1 .. L - 1 \/ g = L
        BY <1>1, <1>6
    <2> QED
        BY <2>1, <2>2, <2>3 DEF Inv, CrashCostsOneShard, L
<1> QED
    BY <1>6, <1>7, <1>9, <1>10, <1>11 DEF L

LEMMA NewShardWith ==
    ASSUME NEW k \in Nat, NEW f \in Frame
    PROVE  /\ NewShard(k) \in Shard /\ NewShard(k).key = k /\ NewShard(k).disk = -1
           /\ NewShard(k).frames = << >> /\ NewShard(k).harm = "none"
           /\ LET o == Stored(NewShard(k), f)
              IN  /\ o \in Shard /\ o.key = k /\ o.frames = <<f>> /\ o.disk = -1
                  /\ o.harm = "none"
           /\ LET o == [NewShard(k) EXCEPT !.harm = "break"]
              IN  o \in Shard /\ o.key = k /\ o.frames = << >> /\ o.disk = -1
<1>1. /\ NewShard(k) \in Shard /\ NewShard(k).key = k /\ NewShard(k).disk = -1
      /\ NewShard(k).frames = << >> /\ NewShard(k).harm = "none"
    <2>1. << >> \in Seq(Frame) /\ -1 \in Int
        BY EmptySeq
    <2> QED
        BY <2>1 DEF NewShard, Shard
<1>2. LET o == Stored(NewShard(k), f)
      IN  o \in Shard /\ o.key = k /\ o.frames = <<f>> /\ o.disk = -1 /\ o.harm = "none"
    <2>1. Stored(NewShard(k), f) = [NewShard(k) EXCEPT !.frames = Append(@, f)]
        BY <1>1 DEF Stored
    <2>2. Append(NewShard(k).frames, f) = <<f>> /\ <<f>> \in Seq(Frame)
        BY <1>1
    <2>3. PICK m, e, o : m = NewShard(k) /\ e = <<f>> /\ o = Stored(NewShard(k), f)
        OBVIOUS
    <2>4. o = [m EXCEPT !.frames = e] /\ e \in Seq(Frame)
        BY <2>1, <2>2, <2>3
    <2>5. o \in Shard /\ o.key = k /\ o.frames = e /\ o.disk = -1 /\ o.harm = "none"
        BY <1>1, <2>3, <2>4 DEF Shard
    <2> QED
        BY <2>3, <2>5
<1>3. LET o == [NewShard(k) EXCEPT !.harm = "break"]
      IN  o \in Shard /\ o.key = k /\ o.frames = << >> /\ o.disk = -1
    BY <1>1 DEF Shard
<1> QED
    BY <1>1, <1>2, <1>3

\* A frame goes behind all others, into the open shard or into a new one.
Written(f) ==
    /\ shards' \in Seq(Shard) /\ shards' # << >> /\ Current'.key = key
    /\ Len(shards') \in Nat /\ DOMAIN shards' = 1 .. Len(shards')
    /\ Len(Current'.frames) \in DOMAIN Current'.frames
    /\ Current' = shards'[Len(shards')] /\ Current'.frames[Len(Current'.frames)] = f
    /\ \A g \in DOMAIN shards' :
         /\ shards'[g].disk \in -1 .. Len(shards'[g].frames)
         /\ shards'[g].key \in 1 .. procs
         /\ g < Len(shards') => AllOnDisk(shards'[g])
         /\ shards'[g].harm # "none" => g \in DOMAIN shards /\ shards[g].harm # "none"
         /\ \A i \in DOMAIN shards'[g].frames :
              \/ g = Len(shards') /\ i = Len(Current'.frames)
              \/ /\ g \in DOMAIN shards /\ i \in DOMAIN shards[g].frames
                 /\ shards'[g].key = shards[g].key
                 /\ shards'[g].frames[i] = shards[g].frames[i]
                 /\ g < Len(shards') \/ (g = Len(shards') /\ i < Len(Current'.frames))
    /\ NoLostFrames /\ CrashCostsOneShard'
    /\ \A g \in DOMAIN shards : shards[g].disk <= shards'[g].disk

LEMMA FrameAppended ==
    ASSUME Inv, key # 0, NEW f \in Frame,
           shards' = [shards EXCEPT ![Len(shards)] = [Current EXCEPT !.frames = Append(Current.frames, f)]]
    PROVE  Written(f)
<1> DEFINE L == Len(shards)
           n == Len(Current.frames)
           e == Append(Current.frames, f)
           c == [Current EXCEPT !.frames = e]
<1>1. /\ Types /\ L \in DOMAIN shards /\ L \in Nat /\ DOMAIN shards = 1 .. L
      /\ Current = shards[L] /\ shards \in Seq(Shard) /\ Current \in Shard /\ Current.key = key
      /\ Current.disk \in -1 .. n /\ n \in Nat /\ DOMAIN Current.frames = 1 .. n
      /\ Current.frames \in Seq(Frame)
    BY OpenShard, ShardTypes DEF Types
<1>2. \A g \in DOMAIN shards : /\ shards[g] \in Shard
                               /\ shards[g].disk \in -1 .. Len(shards[g].frames)
                               /\ Len(shards[g].frames) \in Nat
                               /\ DOMAIN shards[g].frames = 1 .. Len(shards[g].frames)
                               /\ shards[g].key \in 1 .. procs
                               /\ g < L => AllOnDisk(shards[g])
    BY <1>1, ShardTypes DEF Types, Inv, Process, Complete
<1>3. /\ e \in Seq(Frame) /\ Len(e) = n + 1 /\ DOMAIN e = 1 .. n + 1 /\ e[n + 1] = f
      /\ \A i \in 1 .. n : e[i] = Current.frames[i]
    BY <1>1, AppendProperties, LenProperties
<1>4. /\ shards' = [shards EXCEPT ![L] = c] /\ c \in Shard /\ c.frames = e
      /\ c.key = key /\ c.disk = Current.disk /\ c.harm = Current.harm
    BY <1>1, <1>3 DEF Shard
<1> HIDE DEF L, n, e, c
<1>5. /\ shards' \in Seq(Shard) /\ Len(shards') = L /\ DOMAIN shards' = 1 .. L
      /\ \A g \in 1 .. L : shards'[g] = IF g = L THEN c ELSE shards[g]
    <2>1. PICK sh : sh = [shards EXCEPT ![L] = c]
        OBVIOUS
    <2>2. shards \in Seq(Shard) /\ L \in DOMAIN shards /\ c \in Shard /\ Len(shards) = L
        BY <1>1, <1>4 DEF L
    <2>3. /\ sh \in Seq(Shard) /\ Len(sh) = L
          /\ \A g \in 1 .. L : sh[g] = IF g = L THEN c ELSE shards[g]
        BY ONLY <2>1, <2>2, ExceptSeq
    <2>4. shards' = sh
        BY <1>4, <2>1
    <2> QED
        BY <1>1, <2>3, <2>4, LenProperties
<1>6. Current' = c /\ Len(Current'.frames) = n + 1 /\ shards' # << >>
    BY <1>1, <1>3, <1>4, <1>5, EmptySeq DEF Current
<1>7. ASSUME NEW g \in DOMAIN shards'
      PROVE  /\ shards'[g].disk \in -1 .. Len(shards'[g].frames)
             /\ shards'[g].key \in 1 .. procs
             /\ g < L => AllOnDisk(shards'[g])
             /\ shards'[g].harm # "none" => g \in DOMAIN shards /\ shards[g].harm # "none"
             /\ \A i \in DOMAIN shards'[g].frames :
                  \/ g = L /\ i = n + 1
                  \/ /\ g \in DOMAIN shards /\ i \in DOMAIN shards[g].frames
                     /\ shards'[g].key = shards[g].key
                     /\ shards'[g].frames[i] = shards[g].frames[i]
                     /\ g < L \/ (g = L /\ i < n + 1)
    <2>1. CASE g = L
        <3>1. shards'[g] = c /\ shards[g] = Current
            BY <1>1, <1>5, <2>1
        <3>2. \A i \in 1 .. n + 1 : i = n + 1 \/ (i \in 1 .. n /\ i < n + 1)
            BY <1>1
        <3>3. c.disk \in -1 .. n + 1 /\ Len(c.frames) = n + 1 /\ DOMAIN c.frames = 1 .. n + 1
            BY <1>1, <1>3, <1>4
        <3>4. c.key \in 1 .. procs /\ c.key = Current.key
            BY <1>1, <1>2, <1>4
        <3>5. \A i \in 1 .. n : c.frames[i] = Current.frames[i]
            BY <1>3, <1>4
        <3>6. c.harm # "none" => g \in DOMAIN shards /\ shards[g].harm # "none"
            BY <1>1, <1>4, <2>1, <3>1
        <3>7. ~(g < L)
            BY <1>1, <2>1
        <3>8. \A i \in 1 .. n + 1 :
                \/ g = L /\ i = n + 1
                \/ /\ g \in DOMAIN shards /\ i \in DOMAIN shards[g].frames
                   /\ c.key = shards[g].key /\ c.frames[i] = shards[g].frames[i]
                   /\ g < L \/ (g = L /\ i < n + 1)
            BY <1>1, <2>1, <3>1, <3>2, <3>4, <3>5
        <3> QED
            BY <3>1, <3>3, <3>4, <3>6, <3>7, <3>8
    <2>2. CASE g # L
        BY <1>1, <1>2, <1>5, <2>2
    <2> QED
        BY <2>1, <2>2
<1>8. NoLostFrames /\ \A g \in DOMAIN shards : shards[g].disk <= shards'[g].disk
    <2>1. \A g \in DOMAIN shards : g # L => g \in DOMAIN shards' /\ shards'[g] = shards[g]
        BY <1>1, <1>5
    <2>2. L \in DOMAIN shards' /\ shards'[L] = c /\ c.key = Current.key /\ c.disk = Current.disk
        BY <1>1, <1>4, <1>5
    <2>3. \A i \in DOMAIN Current.frames : i \in DOMAIN c.frames /\ c.frames[i] = Current.frames[i]
        BY <1>1, <1>3, <1>4
    <2>4. \A g \in DOMAIN shards : shards[g].disk <= shards[g].disk
        BY <1>2
    <2> QED
        BY <1>1, <2>1, <2>2, <2>3, <2>4 DEF NoLostFrames
<1>9. CrashCostsOneShard'
    <2>1. \A g \in 1 .. L - 1 : shards'[g] = shards[g] /\ shards'[g + 1].key = shards[g + 1].key
        BY <1>1, <1>4, <1>5
    <2> QED
        BY <1>5, <2>1 DEF Inv, CrashCostsOneShard, L
<1>10. /\ L \in Nat /\ DOMAIN shards' = 1 .. L /\ Len(shards') = L /\ Current' = shards'[L]
       /\ Current'.key = key /\ n + 1 \in DOMAIN Current'.frames /\ Current'.frames[n + 1] = f
    BY <1>1, <1>3, <1>4, <1>5, <1>6
<1> QED
    BY <1>5, <1>6, <1>7, <1>8, <1>9, <1>10 DEF Written

LEMMA FrameRotated ==
    ASSUME Inv, key # 0, NEW f \in Frame, shards' = Rotated(Stored(NewShard(key), f))
    PROVE  Written(f)
<1> DEFINE o == Stored(NewShard(key), f)
           L == Len(shards)
<1>1. /\ Types /\ L \in Nat /\ DOMAIN shards = 1 .. L /\ L \in DOMAIN shards /\ key \in Nat
      /\ shards[L].key = key
      /\ \A g \in DOMAIN shards : shards[g].key \in 1 .. procs
    BY OpenShard, ShardTypes DEF Inv, Process, Types
<1>2. /\ o \in Shard /\ o.key = key /\ o.frames = <<f>> /\ o.disk = -1 /\ o.harm = "none"
      /\ Len(<<f>>) = 1 /\ DOMAIN <<f>> = 1 .. 1 /\ <<f>>[1] = f
    <2>1. o \in Shard /\ o.key = key /\ o.frames = <<f>> /\ o.disk = -1 /\ o.harm = "none"
        BY <1>1, NewShardWith, Zenon
    <2> QED
        BY <2>1
<1> HIDE DEF o
<1>3. /\ shards' \in Seq(Shard) /\ shards' # << >>
      /\ Len(shards') = Len(shards) + 1 /\ DOMAIN shards' = 1 .. Len(shards) + 1
      /\ Current' = o /\ shards'[Len(shards) + 1] = o
      /\ \A g \in DOMAIN shards :
           /\ g \in DOMAIN shards' /\ g < Len(shards')
           /\ shards'[g].key = shards[g].key /\ shards'[g].frames = shards[g].frames
           /\ shards'[g].harm = shards[g].harm
           /\ shards'[g].disk \in -1 .. Len(shards'[g].frames)
           /\ shards[g].disk <= shards'[g].disk /\ AllOnDisk(shards'[g])
      /\ NoLostFrames /\ CrashCostsOneShard'
    <2>1. shards' = Rotated(o)
        BY DEF o
    <2> QED
        BY <1>2, <2>1, ShardRotated
<1>4. /\ Len(shards') \in Nat /\ DOMAIN shards' = 1 .. Len(shards')
      /\ Len(Current'.frames) = 1 /\ 1 \in DOMAIN Current'.frames
      /\ Current' = shards'[Len(shards')] /\ Current'.frames[1] = f /\ Current'.key = key
    <2>1. Current'.frames = <<f>> /\ Current'.key = key
        BY <1>2, <1>3
    <2>2. Len(<<f>>) = 1 /\ 1 \in DOMAIN <<f>> /\ <<f>>[1] = f
        BY <1>2
    <2>3. Len(shards') \in Nat /\ DOMAIN shards' = 1 .. Len(shards') /\ Current' = shards'[Len(shards')]
        BY <1>1, <1>3
    <2> QED
        BY <2>1, <2>2, <2>3
<1>5. ASSUME NEW g \in DOMAIN shards'
      PROVE  /\ shards'[g].disk \in -1 .. Len(shards'[g].frames)
             /\ shards'[g].key \in 1 .. procs
             /\ g < L + 1 => AllOnDisk(shards'[g])
             /\ shards'[g].harm # "none" => g \in DOMAIN shards /\ shards[g].harm # "none"
             /\ \A i \in DOMAIN shards'[g].frames :
                  \/ g = L + 1 /\ i = 1
                  \/ /\ g \in DOMAIN shards /\ i \in DOMAIN shards[g].frames
                     /\ shards'[g].key = shards[g].key
                     /\ shards'[g].frames[i] = shards[g].frames[i]
                     /\ g < L + 1
    <2>1. CASE g = L + 1
        BY <1>1, <1>2, <1>3, <2>1
    <2>2. CASE g \in DOMAIN shards
        BY <1>1, <1>3, <2>2
    <2> QED
        BY <1>1, <1>3, <2>1, <2>2
<1> QED
    BY <1>3, <1>4, <1>5 DEF Written

\* A frame that a failure, or the harm of one, takes: nothing is added to the shards.
NotWritten ==
    /\ shards' \in Seq(Shard) /\ shards' # << >> /\ Current'.key = key
    /\ Len(shards') \in Nat /\ DOMAIN shards' = 1 .. Len(shards')
    /\ \A g \in DOMAIN shards' :
         /\ shards'[g].disk \in -1 .. Len(shards'[g].frames)
         /\ shards'[g].key \in 1 .. procs
         /\ g < Len(shards') => AllOnDisk(shards'[g])
    /\ Blamed'
    /\ NoNewFrames /\ NoLostFrames /\ CrashCostsOneShard'
    /\ \A g \in DOMAIN shards : shards[g].disk <= shards'[g].disk
    /\ UNCHANGED left /\ FramesOpenUnlessLeft => FramesOpenUnlessLeft'

LEMMA ShardClosed ==
    ASSUME Inv, key # 0, UNCHANGED procs, faults' > 0,
           \/ UNCHANGED shards
           \/ shards' = [shards EXCEPT ![Len(shards)] = Closed(@)]
    PROVE  NotWritten
<1>1. /\ Types /\ Len(shards) \in DOMAIN shards /\ Current = shards[Len(shards)]
      /\ Current.key = key /\ shards # << >>
      /\ Len(shards) \in Nat /\ DOMAIN shards = 1 .. Len(shards)
      /\ \A g \in DOMAIN shards :
           /\ shards[g].disk \in -1 .. Len(shards[g].frames) /\ shards[g].disk \in Int
           /\ shards[g].key \in 1 .. procs
           /\ g < Len(shards) => AllOnDisk(shards[g])
    BY OpenShard, ShardTypes DEF Types, Inv, Process, Complete, Shard
<1>2. Blamed'
    BY DEF Blamed
<1>3. CASE UNCHANGED shards
    <2>1. NoNewFrames /\ NoLostFrames
        BY <1>3 DEF NoNewFrames, NoLostFrames
    <2>2. Current' = Current /\ CrashCostsOneShard'
        BY <1>3, Unmoved DEF Current
    <2>3. shards' \in Seq(Shard) /\ \A g \in DOMAIN shards : shards[g].disk <= shards[g].disk
        BY <1>1, <1>3 DEF Types
    <2>4. UNCHANGED left /\ FramesOpenUnlessLeft => FramesOpenUnlessLeft'
        BY <1>3 DEF FramesOpenUnlessLeft
    <2> QED
        BY <1>1, <1>2, <1>3, <2>1, <2>2, <2>3, <2>4 DEF NotWritten
<1>4. CASE shards' = [shards EXCEPT ![Len(shards)] = Closed(@)]
    <2>1. shards' = [shards EXCEPT ![Len(shards)] = Closed(Current)]
        BY <1>1, <1>4
    <2>2. Advanced
        BY <2>1, SyncProgress, DiskProgress
    <2>3. Current' = shards'[Len(shards)] /\ shards' # << >>
        BY <1>1, <2>2, EmptySeq DEF Current, Advanced
    <2> QED
        BY <1>1, <1>2, <2>2, <2>3 DEF Advanced, NotWritten
<1> QED
    BY <1>3, <1>4

LEMMA HeaderFailed ==
    ASSUME Inv, key # 0, UNCHANGED procs, faults' > 0,
           shards' = Rotated([NewShard(key) EXCEPT !.harm = "break"])
    PROVE  NotWritten
<1> DEFINE o == [NewShard(key) EXCEPT !.harm = "break"]
           L == Len(shards)
<1>1. /\ Types /\ L \in Nat /\ DOMAIN shards = 1 .. L /\ L \in DOMAIN shards /\ key \in Nat
      /\ shards[L].key = key
      /\ \A g \in DOMAIN shards : shards[g].key \in 1 .. procs
    BY OpenShard, ShardTypes DEF Inv, Process, Types
<1>2. /\ o \in Shard /\ o.key = key /\ o.frames = << >> /\ o.disk = -1
      /\ DOMAIN << >> = {} /\ Len(<< >>) = 0
    <2>1. [key |-> 0, n |-> 0, size |-> 0] \in Frame
        BY DEF Frame
    <2> QED
        BY <1>1, <2>1, NewShardWith, EmptySeq
<1> HIDE DEF o
<1>3. /\ shards' \in Seq(Shard) /\ shards' # << >>
      /\ Len(shards') = Len(shards) + 1 /\ DOMAIN shards' = 1 .. Len(shards) + 1
      /\ Current' = o /\ shards'[Len(shards) + 1] = o
      /\ \A g \in DOMAIN shards :
           /\ g \in DOMAIN shards' /\ g < Len(shards')
           /\ shards'[g].key = shards[g].key /\ shards'[g].frames = shards[g].frames
           /\ shards'[g].harm = shards[g].harm
           /\ shards'[g].disk \in -1 .. Len(shards'[g].frames)
           /\ shards[g].disk <= shards'[g].disk /\ AllOnDisk(shards'[g])
      /\ NoLostFrames /\ CrashCostsOneShard'
    <2>1. shards' = Rotated(o)
        BY DEF o
    <2> QED
        BY <1>2, <2>1, ShardRotated
<1>4. \A g \in DOMAIN shards' : g \in DOMAIN shards \/ (g = L + 1 /\ shards'[g] = o)
    BY <1>1, <1>3
<1>5. \A g \in DOMAIN shards' :
         /\ shards'[g].disk \in -1 .. Len(shards'[g].frames)
         /\ shards'[g].key \in 1 .. procs
         /\ g < Len(shards') => AllOnDisk(shards'[g])
    <2> TAKE g \in DOMAIN shards'
    <2>1. CASE g \in DOMAIN shards
        BY <1>1, <1>3, <2>1
    <2>2. CASE g = L + 1 /\ shards'[g] = o
        <3>1. o.disk \in -1 .. Len(o.frames) /\ o.key \in 1 .. procs
            BY <1>1, <1>2
        <3>2. ~(g < Len(shards'))
            BY <1>1, <1>3, <2>2
        <3> QED
            BY <2>2, <3>1, <3>2
    <2> QED
        BY <1>4, <2>1, <2>2
<1>6. NoNewFrames
    BY <1>2, <1>3, <1>4 DEF NoNewFrames
<1>7. ToSet(<< >>) = {}
    BY <1>2 DEF ToSet
<1>8. UNCHANGED left /\ FramesOpenUnlessLeft => FramesOpenUnlessLeft'
    BY <1>2, <1>3, <1>4, <1>7 DEF FramesOpenUnlessLeft
<1>9. Blamed'
    BY DEF Blamed
<1>10. Len(shards') \in Nat /\ DOMAIN shards' = 1 .. Len(shards') /\ Current'.key = key
    BY <1>1, <1>2, <1>3
<1> QED
    BY <1>3, <1>5, <1>6, <1>8, <1>9, <1>10 DEF NotWritten

\* WriteFrame as one of the two.
LEMMA FrameOutcome ==
    ASSUME Inv, key # 0, UNCHANGED procs, NEW f \in Frame, WriteFrame(f)
    PROVE  \/ Written(f) /\ UNCHANGED <<logged, faults>>
           \/ /\ NotWritten /\ Lose(Records(<<f>>)) /\ faults' \in Nat
              /\ UNCHANGED faults \/ faults' = faults + 1
              /\ faults' > 0
<1>1. /\ Types /\ Len(shards) \in DOMAIN shards /\ Current = shards[Len(shards)]
      /\ faults \in Nat /\ shards \in Seq(Shard)
    BY OpenShard DEF Types
<1>2. CASE /\ Stays(f)
           /\ shards' = [shards EXCEPT ![Len(shards)] = Stored(@, f)]
           /\ IF Current.harm = "break" THEN Lose(Records(<<f>>)) ELSE UNCHANGED logged
           /\ UNCHANGED faults
    <2>1. CASE Current.harm = "break"
        <3>1. Stored(Current, f) = Current
            BY <2>1 DEF Stored
        <3>2. shards' = shards
            <4>1. shards' = [shards EXCEPT ![Len(shards)] = shards[Len(shards)]]
                BY <1>1, <1>2, <3>1
            <4>2. DOMAIN shards = 1 .. Len(shards)
                BY <1>1, LenProperties
            <4>3. shards = [i \in 1 .. Len(shards) |-> shards[i]]
                BY <1>1
            <4> QED
                BY <4>1, <4>2, <4>3
        <3>3. faults > 0
            BY <1>1, <2>1 DEF Inv, Blamed
        <3> QED
            BY <1>1, <1>2, <2>1, <3>2, <3>3, ShardClosed
    <2>2. CASE Current.harm # "break"
        <3>1. Stored(Current, f) = [Current EXCEPT !.frames = Append(Current.frames, f)]
            BY <2>2 DEF Stored
        <3>2. shards' = [shards EXCEPT ![Len(shards)] = [Current EXCEPT !.frames = Append(Current.frames, f)]]
            BY <1>1, <1>2, <3>1
        <3> QED
            BY <1>2, <2>2, <3>2, FrameAppended
    <2> QED
        BY <2>1, <2>2
<1>3. CASE shards' = Rotated(Stored(NewShard(key), f)) /\ UNCHANGED <<logged, faults>>
    BY <1>3, FrameRotated
<1>4. CASE /\ Fails
           /\ \/ shards' = [shards EXCEPT ![Len(shards)] = Closed(@)]
              \/ shards' = Rotated([NewShard(key) EXCEPT !.harm = "break"])
           /\ Lose(Records(<<f>>))
    <2>1. faults' = faults + 1 /\ faults' \in Nat /\ faults' > 0
        BY <1>1, <1>4 DEF Fails
    <2> QED
        BY <1>4, <2>1, ShardClosed, HeaderFailed
<1> QED
    BY <1>2, <1>3, <1>4 DEF WriteFrame

\* The walk hands over the frame at its place: one of this process, from its first
\* cell, or one that a crash has left, which has another key.
LEMMA Handed ==
    ASSUME Inv, pos > 0, pos <= Used(Head(queue)), NEW f \in FramesAt(Head(queue), pos)
    PROVE  /\ Types /\ key # 0 /\ queue # << >> /\ Head(queue) \in Buffers /\ pos \in 1 .. Cap
           /\ f \in Frame /\ f.n = cells[Head(queue)][pos].n
           /\ cells[Head(queue)][pos] # Empty
           /\ IF Live(Head(queue), pos)
              THEN /\ f.key = key /\ f.size = cells[Head(queue)][pos].size /\ f.size >= 1
                   /\ cells[Head(queue)][pos].part = 1 /\ Waiting(Head(queue), pos)
                   /\ \A j \in pos .. pos + f.size - 1 :
                        j \in 1 .. Cap /\ cells[Head(queue)][j].part = j - pos + 1
              ELSE f.key # key
<1> DEFINE b == Head(queue)
           c == cells[b][pos]
<1>1. Types /\ key # 0 /\ queue # << >> /\ pos \in Nat /\ key \in Nat
    BY DEF Inv, Process, Types
<1>2. b \in Buffers
    BY <1>1, LineTypes
<1>3. Used(b) \in 0 .. Cap /\ Cap \in Nat
    BY <1>1, <1>2, CellTypes, SizesAssumption
<1>4. pos \in 1 .. Cap
    BY <1>1, <1>3
<1>5. c \in Cell
    BY <1>1, <1>2, <1>4, CellTypes
<1> HIDE DEF b, c
<1>6. PICK s \in (IF c.part = 1 THEN {c.size} ELSE IF c.part > 1 THEN 1 .. Cap ELSE {}) :
        f = [key |-> IF c.part = 1 THEN c.key ELSE 0, n |-> c.n, size |-> s]
    BY DEF FramesAt, b, c
<1>7. s \in Nat /\ c.part >= 1
    BY <1>3, <1>5, <1>6 DEF Cell
<1>8. f \in Frame /\ f.n = c.n /\ c # Empty
    BY <1>5, <1>6, <1>7 DEF Frame, Cell, Empty
<1>9. ASSUME Live(b, pos)
      PROVE  /\ f.key = key /\ f.size = c.size /\ f.size >= 1
             /\ c.part = 1 /\ Waiting(b, pos)
             /\ \A j \in pos .. pos + f.size - 1 : j \in 1 .. Cap /\ cells[b][j].part = j - pos + 1
    <2>1. c.part = 1 /\ c.key = key
        BY <1>4, <1>9 DEF Inv, Walk, Live, b, c
    <2>2. f.key = key /\ f.size = c.size
        BY <1>6, <2>1
    <2>3. Waiting(b, pos)
        BY <1>9, <1>1, <2>1 DEF Waiting, Done, b, c
    <2>4. /\ c.part \in 1 .. c.size /\ Base(b, pos) = pos - 1
          /\ Base(b, pos) + c.size <= Used(b)
          /\ \A j \in Base(b, pos) + 1 .. Base(b, pos) + c.size :
               cells[b][j] = [c EXCEPT !.part = j - Base(b, pos)]
        BY <1>2, <1>4, <1>9, <2>1 DEF Inv, Layout, Base, c
    <2>5. ASSUME NEW j \in pos .. pos + f.size - 1
          PROVE  j \in 1 .. Cap /\ cells[b][j].part = j - pos + 1
        <3>1. c.size \in Nat
            BY <1>5 DEF Cell
        <3>2. j \in pos - 1 + 1 .. pos - 1 + c.size /\ j \in 1 .. Cap
            BY <1>1, <1>3, <1>4, <2>2, <2>4, <3>1
        <3>3. cells[b][j] = [c EXCEPT !.part = j - (pos - 1)]
            BY <2>4, <3>2
        <3> QED
            BY <1>1, <1>5, <3>2, <3>3 DEF Cell
    <2> QED
        BY <1>5, <2>1, <2>2, <2>3, <2>4, <2>5 DEF Cell
<1>10. ASSUME ~Live(b, pos) PROVE f.key # key
    BY <1>1, <1>6, <1>10 DEF Live, c
<1> QED
    BY <1>1, <1>2, <1>4, <1>8, <1>9, <1>10 DEF b, c

LEMMA PersistWalk ==
    ASSUME Inv, pos > 0, pos <= Used(Head(queue)), NEW f \in FramesAt(Head(queue), pos),
           pos' = pos + f.size, UNCHANGED <<cells, key, queue>>
    PROVE  /\ Walk'
           /\ \A b \in Buffers : \A i \in 1 .. Cap :
                /\ Waiting(b, i)' => Waiting(b, i)
                /\ Waiting(b, i) => Waiting(b, i)' \/ (b = Head(queue) /\ i = pos)
                /\ Waiting(b, i)' /\ Live(Head(queue), pos) /\ b = Head(queue) => i > pos
<1>0. PICK b : b = Head(queue)
    OBVIOUS
<1>1. /\ Types /\ key # 0 /\ queue # << >> /\ b \in Buffers /\ pos \in 1 .. Cap
      /\ f \in Frame /\ f.size \in Nat /\ Cap \in Nat
      /\ Live(b, pos) =>
           /\ f.size = cells[b][pos].size /\ f.size >= 1
           /\ cells[b][pos].part = 1
           /\ \A j \in pos .. pos + f.size - 1 : j \in 1 .. Cap /\ cells[b][j].part = j - pos + 1
    BY <1>0, Handed, SizesAssumption DEF Frame
<1>2. \A i \in pos .. Cap : Live(b, i) => Live(b, pos)
    BY <1>1 DEF Inv, Layout
<1>3. /\ \A d, i : Live(d, i)' <=> Live(d, i)
      /\ \A d : \A i \in Int : Done(d, i)' <=> (d = b /\ i < pos + f.size)
      /\ \A d : \A i \in Int : Done(d, i) <=> (d = b /\ i < pos)
    BY <1>0, <1>1 DEF Live, Done
<1>4. \A d \in Buffers : \A i \in 1 .. Cap : Waiting(d, i)' => Waiting(d, i)
    BY <1>1, <1>3 DEF Waiting
<1>5. ASSUME NEW i \in 1 .. Cap, Waiting(b, i), i # pos PROVE Waiting(b, i)'
    <2>1. Live(b, i) /\ cells[b][i].part = 1 /\ i > pos
        BY <1>1, <1>3, <1>5 DEF Waiting
    <2>2. Live(b, pos)
        BY <1>1, <1>2, <2>1
    <2>3. ~(i \in pos .. pos + f.size - 1)
        BY <1>1, <2>1, <2>2
    <2>4. i >= pos + f.size
        BY <1>1, <2>1, <2>3
    <2> QED
        BY <1>1, <1>3, <2>1, <2>4 DEF Waiting
<1>6. \A d \in Buffers : \A i \in 1 .. Cap : d # b /\ Waiting(d, i) => Waiting(d, i)'
    BY <1>3 DEF Waiting
<1>7. \A i \in 1 .. Cap : Waiting(b, i)' /\ Live(b, pos) => i > pos
    <2> SUFFICES ASSUME NEW i \in 1 .. Cap, ~Done(b, i)', Live(b, pos) PROVE i > pos
        BY <1>1 DEF Waiting
    <2> QED
        BY <1>0, <1>1, <1>3 DEF Done
<1>8. Walk'
    <2>0. PICK q : q = pos + f.size
        OBVIOUS
    <2> SUFFICES ASSUME q \in 1 .. Cap, Live(b, q) PROVE cells[b][q].part = 1
        BY <1>0, <2>0 DEF Walk, Live
    <2>1. q \in 1 .. Cap /\ Live(b, q) /\ q \in pos .. Cap
        BY <1>1, <2>0
    <2>2. Live(b, pos)
        BY <1>2, <2>1
    <2>3. /\ f.size = cells[b][pos].size /\ f.size >= 1
          /\ cells[b][q - 1].part = f.size /\ cells[b][q - 1].size = f.size
        <3>1. f.size = cells[b][pos].size /\ f.size >= 1 /\ cells[b][pos].part = 1
            BY <1>1, <2>2
        <3>2. q - 1 \in Base(b, pos) + 1 .. Base(b, pos) + cells[b][pos].size
              /\ q - 1 - Base(b, pos) = f.size
            <4>1. Base(b, pos) = pos - 1
                BY <3>1 DEF Base
            <4> QED
                <5>1. f.size \in Nat /\ pos \in Nat
                    BY <1>1
                <5> QED
                    BY <2>0, <3>1, <4>1, <5>1
        <3>3. cells[b][q - 1] = [cells[b][pos] EXCEPT !.part = q - 1 - Base(b, pos)]
            BY <1>1, <2>2, <3>2 DEF Inv, Layout
        <3>4. cells[b][pos] \in Cell
            BY <1>1, CellTypes
        <3> QED
            BY <3>1, <3>2, <3>3, <3>4 DEF Cell
    <2>4. cells[b][q] \in Cell /\ cells[b][q].part \in 1 .. cells[b][q].size
        BY <1>1, <2>1, CellTypes DEF Inv, Layout
    <2> SUFFICES ASSUME cells[b][q].part # 1 PROVE FALSE
        BY <2>1
    <2>5. q - 1 \in Base(b, q) + 1 .. Base(b, q) + cells[b][q].size
          /\ q - 1 - Base(b, q) = cells[b][q].part - 1
        <3>1. Base(b, q) = q - cells[b][q].part /\ cells[b][q].part \in Nat /\ cells[b][q].size \in Nat
            BY <2>4 DEF Base, Cell
        <3> QED
            BY <1>1, <2>1, <2>4, <3>1, SMTT(20)
    <2>6. cells[b][q - 1] = [cells[b][q] EXCEPT !.part = q - 1 - Base(b, q)]
        BY <1>1, <2>1, <2>5, SMTT(30) DEF Inv, Layout
    <2>7. cells[b][q - 1].size = cells[b][q].size /\ cells[b][q - 1].part = cells[b][q].part - 1
        BY <2>4, <2>5, <2>6 DEF Cell
    <2> QED
        BY <1>1, <2>3, <2>4, <2>7 DEF Cell
<1> QED
    BY <1>0, <1>4, <1>5, <1>6, <1>7, <1>8

\* The walk is at the frame f, and goes past it.
Passes(f) ==
    /\ UNCHANGED <<cells, offset, pool, files, master, free, queue, key, procs, client, next, left>>
    /\ pos > 0 /\ pos <= Used(Head(queue))
    /\ f \in FramesAt(Head(queue), pos) /\ pos' = pos + f.size

\* A frame of this process is newer than all that are in the shards, and older than
\* all that wait behind it.
LEMMA Between ==
    ASSUME Inv, NEW f, Passes(f), NEW b, b = Head(queue)
    PROVE  Live(b, pos) =>
         /\ \A g \in DOMAIN shards : \A i \in DOMAIN shards[g].frames :
              Own(g, i) => shards[g].frames[i].n < f.n
         /\ \A d \in Buffers : \A i \in 1 .. Cap : Waiting(d, i)' => f.n < cells[d][i].n
<1>4. /\ Types /\ key # 0 /\ queue # << >> /\ b \in Buffers /\ pos \in 1 .. Cap
      /\ f \in Frame /\ f.n = cells[b][pos].n
      /\ Live(b, pos) => Waiting(b, pos)
    BY Handed DEF Passes
<1>6. \A d \in Buffers : \A i \in 1 .. Cap :
           /\ Waiting(d, i)' => Waiting(d, i)
           /\ Waiting(d, i)' /\ Live(b, pos) /\ d = b => i > pos
    BY PersistWalk DEF Passes
<1>10. Live(b, pos) =>
         /\ \A g \in DOMAIN shards : \A i \in DOMAIN shards[g].frames :
              Own(g, i) => shards[g].frames[i].n < f.n
         /\ \A d \in Buffers : \A i \in 1 .. Cap : Waiting(d, i)' => f.n < cells[d][i].n
    <2> SUFFICES ASSUME Live(b, pos)
                 PROVE  /\ \A g \in DOMAIN shards : \A i \in DOMAIN shards[g].frames :
                             Own(g, i) => shards[g].frames[i].n < f.n
                        /\ \A d \in Buffers : \A i \in 1 .. Cap : Waiting(d, i)' => f.n < cells[d][i].n
        OBVIOUS
    <2>1. Waiting(b, pos)
        BY <1>4
    <2>2. \A g \in DOMAIN shards : \A i \in DOMAIN shards[g].frames :
            Own(g, i) => shards[g].frames[i].n < f.n
        BY <1>4, <2>1 DEF Inv, InOrder, FramesFirst
    <2>3. ASSUME NEW d \in Buffers, NEW i \in 1 .. Cap, Waiting(d, i)'
          PROVE  f.n < cells[d][i].n
        <3>1. Waiting(d, i)
            BY <1>6, <2>3
        <3>2. offset[d] # 0
            BY <1>4, <3>1, LiveUsed DEF Inv, Waiting
        <3>3. d \in ToSet(Line)
            BY <1>4, <3>2 DEF Inv, Places
        <3>4. PICK y \in DOMAIN Line : Line[y] = d
            BY <3>3 DEF ToSet
        <3>5. 1 \in DOMAIN Line /\ Line[1] = b /\ (1 < y \/ y = 1)
            BY <1>4, LineTypes
        <3>6. 1 = y => pos < i
            BY <1>4, <1>6, <2>3, <3>4, <3>5
        <3> QED
            BY <1>4, <2>1, <3>1, <3>4, <3>5, <3>6 DEF Inv, InOrder, LineInOrder
    <2> QED
        BY <2>2, <2>3
<1> QED
    BY <1>10

LEMMA PersistWritten ==
    ASSUME Inv, NEW f, Passes(f), Written(f), UNCHANGED <<logged, faults>>
    PROVE  Inv'
<1>1. UNCHANGED <<cells, offset, pool, files, master, free, queue, key, procs, client, next, logged,
                  left, faults>>
    BY DEF Passes
<1>3. PICK b : b = Head(queue)
    OBVIOUS
<1>4. /\ Types /\ key # 0 /\ queue # << >> /\ b \in Buffers /\ pos \in 1 .. Cap
      /\ f \in Frame /\ f.n = cells[b][pos].n /\ cells[b][pos] # Empty
      /\ Live(b, pos) => f.key = key /\ Waiting(b, pos)
      /\ ~Live(b, pos) => f.key # key
    BY <1>3, Handed DEF Passes
<1> DEFINE G == Len(shards')
           I == Len(Current'.frames)
<1>5.   /\ shards' \in Seq(Shard) /\ shards' # << >> /\ Current'.key = key
        /\ G \in Nat /\ DOMAIN shards' = 1 .. G /\ I \in DOMAIN shards'[G].frames
        /\ Current' = shards'[G] /\ shards'[G].frames[I] = f
        /\ \A g \in DOMAIN shards' :
             /\ shards'[g].disk \in -1 .. Len(shards'[g].frames)
             /\ shards'[g].key \in 1 .. procs
             /\ g < G => AllOnDisk(shards'[g])
             /\ shards'[g].harm # "none" => g \in DOMAIN shards /\ shards[g].harm # "none"
             /\ \A i \in DOMAIN shards'[g].frames :
                  \/ g = G /\ i = I
                  \/ /\ g \in DOMAIN shards /\ i \in DOMAIN shards[g].frames
                     /\ shards'[g].key = shards[g].key
                     /\ shards'[g].frames[i] = shards[g].frames[i]
                     /\ g < G \/ (g = G /\ i < I)
        /\ NoLostFrames /\ CrashCostsOneShard'
    BY DEF Written
<1> HIDE DEF G, I
<1>6. /\ Walk'
      /\ \A d \in Buffers : \A i \in 1 .. Cap :
           /\ Waiting(d, i)' => Waiting(d, i)
           /\ Waiting(d, i) => Waiting(d, i)' \/ (d = b /\ i = pos)
    BY <1>3, PersistWalk DEF Passes
<1>7. NothingElseWaits
    BY <1>1, <1>6 DEF NothingElseWaits
<1>8. I \in Int /\ \A g \in DOMAIN shards' : \A i \in DOMAIN shards'[g].frames : i \in Int
    <2>1. \A g \in DOMAIN shards' : shards'[g] \in Shard
        BY <1>5, ElementOfSeq
    <2>2. \A g \in DOMAIN shards' : DOMAIN shards'[g].frames = 1 .. Len(shards'[g].frames)
        BY <2>1, LenProperties DEF Shard
    <2>3. G \in DOMAIN shards'
        BY <1>5, EmptySeq DEF G
    <2> QED
        BY <1>5, <2>2, <2>3
<1>9. \A g \in DOMAIN shards' : \A i \in DOMAIN shards'[g].frames : Own(g, i)' =>
        \/ g = G /\ i = I /\ Live(b, pos)
        \/ /\ g \in DOMAIN shards /\ i \in DOMAIN shards[g].frames /\ Own(g, i)
           /\ shards'[g].frames[i] = shards[g].frames[i]
           /\ g < G \/ (g = G /\ i < I)
    BY <1>4, <1>5 DEF Own
<1>10. Live(b, pos) =>
         /\ \A g \in DOMAIN shards : \A i \in DOMAIN shards[g].frames :
              Own(g, i) => shards[g].frames[i].n < f.n
         /\ \A d \in Buffers : \A i \in 1 .. Cap : Waiting(d, i)' => f.n < cells[d][i].n
    BY <1>3, Between
<1>11. FramesInOrder'
    <2> SUFFICES ASSUME NEW g \in DOMAIN shards', NEW h \in DOMAIN shards',
                        NEW i \in DOMAIN shards'[g].frames, NEW j \in DOMAIN shards'[h].frames,
                        Own(g, i)', Own(h, j)', g < h \/ (g = h /\ i < j)
                 PROVE  shards'[g].frames[i].n < shards'[h].frames[j].n
        BY DEF FramesInOrder
    <2>1. ~(g = G /\ i = I)
        BY <1>5, <1>8, <1>9
    <2>2. /\ g \in DOMAIN shards /\ i \in DOMAIN shards[g].frames /\ Own(g, i)
          /\ shards'[g].frames[i] = shards[g].frames[i]
        BY <1>9, <2>1
    <2>3. CASE h = G /\ j = I
        <3>1. Live(b, pos)
            BY <1>8, <1>9, <2>3, <1>5
        <3> QED
            BY <1>5, <1>10, <2>2, <2>3, <3>1
    <2>4. CASE ~(h = G /\ j = I)
        BY <1>9, <2>2, <2>4 DEF Inv, InOrder, FramesInOrder
    <2> QED
        BY <2>3, <2>4
<1>12. FramesFirst'
    <2> SUFFICES ASSUME NEW g \in DOMAIN shards', NEW i \in DOMAIN shards'[g].frames,
                        NEW d \in Buffers, NEW j \in 1 .. Cap, Own(g, i)', Waiting(d, j)'
                 PROVE  shards'[g].frames[i].n < cells[d][j].n
        BY <1>1 DEF FramesFirst
    <2>1. CASE g = G /\ i = I /\ Live(b, pos)
        BY <1>5, <1>10, <2>1
    <2>2. CASE ~(g = G /\ i = I /\ Live(b, pos))
        BY <1>6, <1>9, <2>2 DEF Inv, InOrder, FramesFirst
    <2> QED
        BY <2>1, <2>2
<1>13. Types'
    <2>1. \A g \in DOMAIN shards' : shards'[g].disk \in -1 .. Len(shards'[g].frames)
        BY <1>5
    <2>2. pos' \in Nat
        BY <1>4 DEF Frame, Passes
    <2> QED
        BY <1>1, <1>4, <1>5, <2>1, <2>2 DEF Types, Buffers
<1>14. LineInOrder'
    <2>1. /\ Line' = Line /\ \A x \in DOMAIN Line : Line[x] \in Buffers
        BY <1>1, <1>4, LineTypes DEF Line
    <2>2. \A x \in DOMAIN Line : \A i \in 1 .. Cap :
            Waiting(Line[x], i)' => Waiting(Line[x], i)
        BY <1>6, <2>1
    <2> QED
        BY <1>1, <2>1, <2>2 DEF Inv, InOrder, LineInOrder
<1>15. Account'
    <2>1. Increasing(logged)' /\ \A n \in ToSet(logged)' : n \in 1 .. next'
        BY <1>1 DEF Inv, Account, Increasing
    <2>2. \A g \in DOMAIN shards' : \A i \in DOMAIN shards'[g].frames :
            Own(g, i)' => shards'[g].frames[i].n \in ToSet(logged)'
        <3>1. Live(b, pos) => f.n \in ToSet(logged)
            BY <1>4 DEF Inv, Account
        <3> QED
            BY <1>1, <1>5, <1>9, <3>1 DEF Inv, Account
    <2>3. \A d \in Buffers : \A i \in 1 .. Cap :
            Waiting(d, i)' => cells'[d][i].n \in ToSet(logged)'
        BY <1>1, <1>6 DEF Inv, Account
    <2>4. ASSUME NEW n \in ToSet(logged)
          PROVE  \/ \E g \in DOMAIN shards' : \E i \in DOMAIN shards'[g].frames :
                      Own(g, i)' /\ n = shards'[g].frames[i].n
                 \/ \E d \in Buffers : \E i \in 1 .. Cap : Waiting(d, i)' /\ n = cells'[d][i].n
        <3>1. CASE \E g \in DOMAIN shards : \E i \in DOMAIN shards[g].frames :
                      Own(g, i) /\ n = shards[g].frames[i].n
            <4>1. PICK g \in DOMAIN shards :
                      \E i \in DOMAIN shards[g].frames : Own(g, i) /\ n = shards[g].frames[i].n
                BY <3>1
            <4>2. PICK i \in DOMAIN shards[g].frames : Own(g, i) /\ n = shards[g].frames[i].n
                BY <4>1
            <4>3. /\ g \in DOMAIN shards' /\ i \in DOMAIN shards'[g].frames
                  /\ shards'[g].key = shards[g].key /\ shards'[g].frames[i] = shards[g].frames[i]
                BY <1>5 DEF NoLostFrames
            <4> QED
                BY <4>2, <4>3 DEF Own
        <3>2. CASE \E d \in Buffers : \E i \in 1 .. Cap : Waiting(d, i) /\ n = cells[d][i].n
            <4>1. PICK d \in Buffers, i \in 1 .. Cap : Waiting(d, i) /\ n = cells[d][i].n
                BY <3>2
            <4>2. CASE Waiting(d, i)'
                BY <1>1, <4>1, <4>2
            <4>3. CASE d = b /\ i = pos
                <5>1. Live(b, pos)
                    BY <4>1, <4>3 DEF Waiting
                <5>2. PICK g, k : g = G /\ k = I
                    OBVIOUS
                <5>3. g \in DOMAIN shards' /\ k \in DOMAIN shards'[g].frames
                    BY <1>5, <5>2, EmptySeq DEF G
                <5>4. Own(g, k)' /\ shards'[g].frames[k] = f
                    BY <1>4, <1>5, <5>1, <5>2 DEF Own
                <5> QED
                    BY <1>4, <4>1, <4>3, <5>3, <5>4
            <4> QED
                BY <1>6, <4>1, <4>2, <4>3
        <3> QED
            BY <3>1, <3>2 DEF Inv, Account
    <2> QED
        BY <1>1, <2>1, <2>2, <2>3, <2>4 DEF Account
<1>16. Process'
    BY <1>1, <1>4, <1>5 DEF Inv, Process
<1>17. Complete'
    BY <1>1, <1>4, <1>5 DEF Complete, G
<1>18. Calls'
    BY <1>1, <1>4 DEF Inv, Calls
<1>19. Clean'
    <2> SUFFICES ASSUME ~left PROVE Clean'
        BY <1>1 DEF Clean
    <2>1. \A d \in Buffers : \A i \in 1 .. Cap : cells'[d][i] # Empty => Live(d, i)'
        BY <1>1 DEF Inv, Clean, Live
    <2>2. f.key = key
        BY <1>4 DEF Inv, Clean
    <2>3. ASSUME NEW g \in DOMAIN shards', NEW i \in DOMAIN shards'[g].frames
          PROVE  shards'[g].frames[i].key = shards'[g].key
        <3>1. CASE g = G /\ i = I
            BY <1>5, <2>2, <3>1
        <3>2. CASE ~(g = G /\ i = I)
            <4>1. /\ g \in DOMAIN shards /\ i \in DOMAIN shards[g].frames
                  /\ shards'[g].key = shards[g].key
                  /\ shards'[g].frames[i] = shards[g].frames[i]
                BY <1>5, <3>2
            <4>2. shards[g].frames[i] \in ToSet(shards[g].frames)
                BY <4>1 DEF ToSet
            <4> QED
                BY <4>1, <4>2 DEF Inv, Clean, FramesOpenUnlessLeft
        <3> QED
            BY <3>1, <3>2
    <2>4. FramesOpenUnlessLeft'
        BY <2>3 DEF FramesOpenUnlessLeft, ToSet
    <2> QED
        BY <2>1, <2>4 DEF Clean
<1>20. Blamed'
    BY <1>1, <1>5 DEF Inv, Blamed
<1> QED
    BY <1>1, <1>5, <1>6, <1>11, <1>12, <1>13, <1>14, <1>15, <1>16, <1>17, <1>18, <1>19, <1>20,
       Unmoved
    DEF Inv, InOrder

LEMMA PersistLost ==
    ASSUME Inv, NEW f, Passes(f), NotWritten, Lose(Records(<<f>>)), faults' \in Nat
    PROVE  /\ Inv'
           /\ Records(<<f>>) \cap Saved = {}
           /\ ToSet(logged)' = ToSet(logged) \ Records(<<f>>)
<1>1. UNCHANGED <<cells, offset, pool, files, master, free, queue, key, procs, client, next, left>>
    BY DEF Passes
<1>2. PICK b : b = Head(queue)
    OBVIOUS
<1>3. /\ Types /\ key # 0 /\ queue # << >> /\ b \in Buffers /\ pos \in 1 .. Cap
      /\ f \in Frame /\ f.n = cells[b][pos].n
      /\ Live(b, pos) => f.key = key /\ Waiting(b, pos)
      /\ ~Live(b, pos) => f.key # key
    BY <1>2, Handed DEF Passes
<1>4. /\ Walk'
      /\ \A d \in Buffers : \A i \in 1 .. Cap :
           /\ Waiting(d, i)' => Waiting(d, i)
           /\ Waiting(d, i) => Waiting(d, i)' \/ (d = b /\ i = pos)
    BY <1>2, PersistWalk DEF Passes
<1>5. Live(b, pos) =>
         /\ \A g \in DOMAIN shards : \A i \in DOMAIN shards[g].frames :
              Own(g, i) => shards[g].frames[i].n < f.n
         /\ \A d \in Buffers : \A i \in 1 .. Cap : Waiting(d, i)' => f.n < cells[d][i].n
    BY <1>2, Between
<1>6. PICK ns : ns = Records(<<f>>)
    OBVIOUS
<1>7. ns = IF Live(b, pos) THEN {f.n} ELSE {}
    <2>1. ToSet(<<f>>) = {f}
        BY DEF ToSet
    <2> QED
        BY <1>3, <1>6, <2>1 DEF Records
<1>8. NoNewFrames /\ NoLostFrames /\ NothingElseWaits
    BY <1>1, <1>4 DEF NotWritten, NothingElseWaits
<1>9. \A g \in DOMAIN shards : \A i \in DOMAIN shards[g].frames :
          /\ g \in DOMAIN shards' /\ i \in DOMAIN shards'[g].frames
          /\ shards'[g].frames[i] = shards[g].frames[i] /\ (Own(g, i)' <=> Own(g, i))
    BY <1>8 DEF NoLostFrames, Own
<1>10. \A g \in DOMAIN shards : \A i \in DOMAIN shards[g].frames :
          Own(g, i) => shards[g].frames[i].n \notin ns
    <2>1. \A g \in DOMAIN shards : \A i \in DOMAIN shards[g].frames :
              Own(g, i) /\ Live(b, pos) => shards[g].frames[i].n # f.n
        <3>1. \A g \in DOMAIN shards : \A i \in DOMAIN shards[g].frames :
                  shards[g].frames[i].n \in Nat
            BY <1>3, ShardTypes DEF Frame
        <3> QED
            BY <1>3, <1>5, <3>1 DEF Frame
    <2> QED
        BY <1>7, <2>1
<1>11. \A g \in DOMAIN shards' : \A i \in DOMAIN shards'[g].frames :
          Own(g, i)' => shards'[g].frames[i].n \notin ns
    BY <1>8, <1>9, <1>10 DEF NoNewFrames
<1>12. \A d \in Buffers : \A i \in 1 .. Cap : Waiting(d, i) =>
          cells[d][i].n \in ns \/ (Waiting(d, i)' /\ cells'[d][i].n = cells[d][i].n)
    BY <1>1, <1>3, <1>4, <1>7 DEF Waiting
<1>13. \A d \in Buffers : \A i \in 1 .. Cap : Waiting(d, i)' => cells'[d][i].n \notin ns
    <2>1. \A d \in Buffers : \A i \in 1 .. Cap : cells[d][i].n \in Nat
        BY <1>3, CellTypes DEF Cell
    <2>2. \A d \in Buffers : \A i \in 1 .. Cap :
              Waiting(d, i)' /\ Live(b, pos) => cells[d][i].n # f.n
        BY <1>3, <1>5, <2>1 DEF Frame
    <2> QED
        BY <1>1, <1>7, <2>2
<1>14. logged' \in Seq(Nat) /\ ToSet(logged)' = ToSet(logged) \ ns /\ Account'
    BY <1>1, <1>6, <1>8, <1>9, <1>10, <1>11, <1>12, <1>13, LossAccounted
<1>15. ns \cap Saved = {}
    BY <1>10 DEF Saved, SavedIn, Own
<1>16. Types'
    <2>1. pos' \in Nat
        BY <1>3 DEF Frame, Passes
    <2>2. shards' \in Seq(Shard) /\ \A g \in DOMAIN shards' : shards'[g].disk \in -1 .. Len(shards'[g].frames)
        BY DEF NotWritten
    <2> QED
        BY <1>1, <1>3, <1>14, <2>1, <2>2 DEF Types, Buffers
<1>17. Line' = Line
    BY <1>1 DEF Line
<1>18. FramesInOrder' /\ FramesFirst' /\ LineInOrder'
    BY <1>8, <1>16, <1>17, OrderKept
<1>19. Process'
    BY <1>1, <1>3 DEF Inv, Process, NotWritten
<1>20. Complete'
    BY <1>1, <1>3 DEF Complete, NotWritten
<1>21. Calls'
    BY <1>1, <1>3 DEF Inv, Calls
<1>22. Clean'
    BY <1>1 DEF Inv, Clean, NotWritten, Live
<1>23. Blamed' /\ CrashCostsOneShard'
    BY DEF NotWritten
<1>24. Places' /\ Layout'
    BY <1>1, Unmoved
<1> QED
    BY <1>4, <1>6, <1>14, <1>15, <1>16, <1>18, <1>19, <1>20, <1>21, <1>22, <1>23, <1>24
    DEF Inv, InOrder

LEMMA PersistOutcome ==
    ASSUME Inv, Persist
    PROVE  \E f : /\ Passes(f)
                  /\ \/ Written(f) /\ UNCHANGED <<logged, faults>>
                     \/ /\ NotWritten /\ Lose(Records(<<f>>)) /\ faults' \in Nat
                        /\ UNCHANGED faults \/ faults' = faults + 1
                        /\ faults' > 0
<1>1. PICK f \in FramesAt(Head(queue), pos) : WriteFrame(f) /\ pos' = pos + f.size
    BY DEF Persist
<1>2. Passes(f)
    BY <1>1 DEF Persist, Passes
<1>3. f \in Frame /\ key # 0
    BY <1>2, Handed DEF Passes
<1>4. UNCHANGED procs
    BY <1>2 DEF Passes
<1>5. \/ Written(f) /\ UNCHANGED <<logged, faults>>
      \/ /\ NotWritten /\ Lose(Records(<<f>>)) /\ faults' \in Nat
         /\ UNCHANGED faults \/ faults' = faults + 1
         /\ faults' > 0
    BY <1>1, <1>3, <1>4, FrameOutcome
<1> QED
    BY <1>2, <1>5

LEMMA PersistStep ==
    ASSUME Inv, Persist
    PROVE  Inv'
    BY PersistOutcome, PersistWritten, PersistLost

\* The walk ends when nothing of this process is left ahead of it.
LEMMA WalkDone ==
    ASSUME Inv, WalkEnds, NEW i \in 1 .. Cap
    PROVE  ~Waiting(Head(queue), i)
<1>1. PICK b : b = Head(queue)
    OBVIOUS
<1>2. /\ Types /\ key # 0 /\ queue # << >> /\ b \in Buffers /\ pos \in Nat /\ pos > 0
    <2>1. Types /\ key # 0 /\ queue # << >> /\ pos > 0
        BY DEF Inv, Process, WalkEnds
    <2>2. pos \in Nat
        BY <2>1 DEF Types
    <2> QED
        BY <1>1, <2>1, <2>2, LineTypes
<1> SUFFICES ASSUME Waiting(b, i) PROVE FALSE
    BY <1>1
<1>3. Live(b, i) /\ i >= pos
    BY <1>1, <1>2 DEF Waiting, Done
<1>4. pos \in 1 .. Cap /\ Live(b, pos)
    BY <1>2, <1>3, SizesAssumption DEF Inv, Layout
<1>5. cells[b][pos].part = 1 /\ cells[b][pos] \in Cell
    BY <1>1, <1>2, <1>4, CellTypes DEF Inv, Walk
<1>6. pos <= Used(b)
    BY <1>2, <1>4, LiveUsed DEF Inv
<1>7. pos - 1 + cells[b][pos].size <= Used(b)
    BY <1>2, <1>4, <1>5 DEF Inv, Layout, Base
<1>8. Used(b) \in Nat /\ cells[b][pos].size \in Nat
    BY <1>2, <1>5, CellTypes DEF Cell
<1>9. pos + cells[b][pos].size - 1 <= Used(b)
    BY <1>2, <1>7, <1>8
<1>10. FramesAt(b, pos) # {}
    BY <1>5, <1>9 DEF FramesAt
<1> QED
    BY <1>1, <1>5, <1>6, <1>10 DEF WalkEnds

LEMMA GiveBackStep ==
    ASSUME Inv, GiveBack
    PROVE  Inv'
<1>1. PICK b : b = Head(queue)
    OBVIOUS
<1>2. /\ Types /\ key # 0 /\ queue # << >> /\ b \in Buffers /\ pos > 0 /\ WalkEnds
      /\ b # master /\ Places
    BY <1>1, LineTypes, MasterNotQueued DEF Inv, Process, GiveBack, WalkEnds
<1>3. /\ cells' = [cells EXCEPT ![b] = Scrubbed(b)]
      /\ offset' = [offset EXCEPT ![b] = 0]
      /\ free' = Append(free, b) /\ queue' = Tail(queue) /\ pos' = 0
      /\ UNCHANGED <<pool, files, master, key, procs, shards, client, next, logged, left, faults>>
    BY <1>1 DEF GiveBack
<1>4. \A d \in Buffers : /\ d # b => cells'[d] = cells[d] /\ offset'[d] = offset[d]
                         /\ d = b => offset'[d] = 0
    BY <1>2, <1>3 DEF Types
<1>5. \A i \in 1 .. Cap : cells'[b][i] = IF i <= Used(b) THEN Empty ELSE cells[b][i]
    BY <1>2, <1>3 DEF Scrubbed, Types
<1>6. \A d \in Buffers : \A i \in 1 .. Cap : Live(d, i)' <=> d # b /\ Live(d, i)
    <2>1. \A i \in 1 .. Cap : Live(b, i) => i <= Used(b)
        BY <1>2, LiveUsed DEF Inv
    <2>2. \A d \in Buffers : \A i \in 1 .. Cap : d = b => ~Live(d, i)'
        BY <1>2, <1>3, <1>5, <2>1 DEF Live, Empty
    <2>3. \A d \in Buffers : \A i \in 1 .. Cap : d # b => (Live(d, i)' <=> Live(d, i))
        BY <1>3, <1>4 DEF Live
    <2> QED
        BY <2>2, <2>3
<1>7. \A d \in Buffers : \A i \in 1 .. Cap : Waiting(d, i)' <=> Waiting(d, i)
    <2>1. \A i \in 1 .. Cap : ~Waiting(b, i)
        BY <1>1, <1>2, WalkDone
    <2>2. \A d \in Buffers : \A i \in 1 .. Cap : ~Done(d, i)' /\ (d # b => ~Done(d, i))
        BY <1>1, <1>3 DEF Done
    <2> QED
        BY <1>4, <1>6, <2>1, <2>2 DEF Waiting
<1>8. NothingElseWaits /\ AllStillWait
    <2>1. \A d \in Buffers : \A i \in 1 .. Cap : Waiting(d, i)' => d # b
        BY <1>6 DEF Waiting
    <2> QED
        BY <1>4, <1>7, <2>1 DEF NothingElseWaits, AllStillWait
<1>9. /\ IsInjective(Line) /\ IsInjective(free) /\ ToSet(Line) \cap ToSet(free) = {}
      /\ \A d \in ToSet(Line) \cup ToSet(free) : d <= files
      /\ \A d \in Buffers : d \notin ToSet(Line) => offset[d] = 0
      /\ b \in ToSet(Line) /\ ToSet(Line) = ToSet(queue) \cup {master}
    BY <1>1, <1>2, LineTypes DEF Places
<1>10. IsInjective(queue)
    BY <1>2, <1>9, LineTypes DEF IsInjective
<1>11. /\ Tail(queue) \in Seq(Buffers) /\ Len(Tail(queue)) = Len(queue) - 1
       /\ ToSet(queue) = ToSet(Tail(queue)) \cup {b}
       /\ IsInjective(Tail(queue)) /\ b \notin ToSet(Tail(queue)) /\ master \notin ToSet(Tail(queue))
    <2>1. queue \in Seq(Buffers)
        BY <1>2 DEF Types
    <2>2. /\ Tail(queue) \in Seq(Buffers) /\ Len(Tail(queue)) = Len(queue) - 1
          /\ ToSet(queue) = ToSet(Tail(queue)) \cup {b}
          /\ IsInjective(Tail(queue)) /\ b \notin ToSet(Tail(queue))
        BY <1>1, <1>2, <1>10, <2>1, TailSet
    <2>3. master \notin ToSet(queue)
        BY <1>2, MasterNotQueued
    <2> QED
        BY <2>2, <2>3
<1>12. Line' = Append(Tail(queue), master)
    BY <1>3 DEF Line
<1>13. /\ ToSet(Line') = ToSet(Tail(queue)) \cup {master} /\ IsInjective(Line')
    <2>1. master \in Buffers
        BY <1>2 DEF Types
    <2>2. /\ ToSet(Append(Tail(queue), master)) = ToSet(Tail(queue)) \cup {master}
          /\ IsInjective(Append(Tail(queue), master))
        <3>1. PICK t \in Seq(Buffers) : t = Tail(queue)
            BY <1>11
        <3>2. IsInjective(t) /\ master \notin ToSet(t)
            BY <1>11, <3>1
        <3>3. ToSet(Append(t, master)) = ToSet(t) \cup {master} /\ IsInjective(Append(t, master))
            BY <2>1, <3>2, AppendSet
        <3> QED
            BY <3>1, <3>3
    <2> QED
        BY <1>12, <2>2
<1>14. /\ free' \in Seq(Buffers) /\ ToSet(free') = ToSet(free) \cup {b} /\ IsInjective(free')
    BY <1>2, <1>3, <1>9, AppendSet DEF Types
<1>15. Places'
    <2>1. ToSet(Line') \cap ToSet(free') = {}
        BY <1>2, <1>9, <1>11, <1>13, <1>14
    <2>2. \A d \in ToSet(Line') \cup ToSet(free') : d <= files'
        BY <1>3, <1>9, <1>11, <1>13, <1>14
    <2>3. \A d \in Buffers : d \notin ToSet(Line') => offset'[d] = 0
        BY <1>4, <1>9, <1>11, <1>13
    <2> QED
        BY <1>13, <1>14, <2>1, <2>2, <2>3 DEF Places
<1>16. Types'
    <2>1. Scrubbed(b) \in [1 .. Cap -> Cell]
        BY <1>2, CellTypes DEF Scrubbed, Cell, Empty
    <2>2. cells' \in [Buffers -> [1 .. Cap -> Cell]]
        BY <1>2, <1>3, <2>1 DEF Types
    <2>3. offset' \in [Buffers -> 0 .. Cap + 1]
        BY <1>2, <1>3, SizesAssumption DEF Types
    <2> QED
        BY <1>2, <1>3, <1>11, <1>14, <2>2, <2>3 DEF Types, Buffers
<1>17. Process'
    <2>1. \A d \in Buffers : \A i \in 1 .. Cap : cells'[d][i].key <= procs
        <3>1. procs \in Nat
            BY <1>2 DEF Types
        <3> QED
            BY <1>4, <1>5, <3>1 DEF Inv, Process, Empty
    <2> QED
        BY <1>2, <1>3, <2>1 DEF Inv, Process, Current
<1>18. Layout'
    <2>1. ASSUME NEW d \in Buffers, NEW i \in 1 .. Cap, Live(d, i)'
          PROVE  /\ cells'[d][i].part \in 1 .. cells'[d][i].size
                 /\ Base(d, i)' >= 0 /\ Base(d, i)' + cells'[d][i].size <= Used(d)'
                 /\ \A j \in Base(d, i)' + 1 .. Base(d, i)' + cells'[d][i].size :
                      cells'[d][j] = [cells'[d][i] EXCEPT !.part = j - Base(d, i)']
                 /\ \A j \in 1 .. i : Live(d, j)'
        <3>1. d # b /\ Live(d, i)
            BY <1>6, <2>1
        <3>2. cells'[d] = cells[d] /\ Base(d, i)' = Base(d, i) /\ Used(d)' = Used(d)
            BY <1>4, <3>1 DEF Base, Used
        <3>3. \A j \in 1 .. i : Live(d, j) /\ j \in 1 .. Cap
            BY <3>1, SizesAssumption DEF Inv, Layout
        <3>4. \A j \in 1 .. i : Live(d, j)'
            BY <1>6, <3>1, <3>3
        <3> QED
            BY <3>1, <3>2, <3>4 DEF Inv, Layout
    <2>2. ASSUME NEW d \in Buffers, offset'[d] <= Cap, NEW i \in 1 .. offset'[d]
          PROVE  Live(d, i)'
        <3>1. d # b /\ offset'[d] = offset[d]
            BY <1>4, <2>2
        <3>2. Live(d, i) /\ i \in 1 .. Cap
            BY <1>2, <2>2, <3>1, CellTypes, SizesAssumption DEF Inv, Layout
        <3> QED
            BY <1>6, <3>1, <3>2
    <2> QED
        BY <2>1, <2>2 DEF Layout
<1>19. Walk'
    BY <1>3 DEF Walk
<1>20. LineInOrder'
    <2>1. Len(queue) \in Nat /\ DOMAIN Line = 1 .. Len(queue) + 1
          /\ (\A x \in 1 .. Len(queue) : Line[x] = queue[x]) /\ Line[Len(queue) + 1] = master
          /\ Len(queue) # 0 /\ \A x \in DOMAIN Line : Line[x] \in Buffers
        BY <1>2, LineTypes
    <2>2. \A x \in 1 .. Len(queue) - 1 : Tail(queue)[x] = queue[x + 1]
        BY <1>2, <1>11, HeadTailProperties DEF Types
    <2>3. /\ DOMAIN Line' = 1 .. Len(queue) /\ Line'[Len(queue)] = master
          /\ \A x \in 1 .. Len(queue) - 1 : Line'[x] = Tail(queue)[x]
        <3>1. /\ Line' \in Seq(Buffers) /\ Len(Line') = Len(queue)
              /\ Line'[Len(queue)] = master
              /\ \A x \in 1 .. Len(queue) - 1 : Line'[x] = Tail(queue)[x]
            BY <1>2, <1>11, <1>12, <2>1, AppendProperties DEF Types
        <3> QED
            BY <3>1, LenProperties
    <2>4. \A x \in DOMAIN Line' : x + 1 \in DOMAIN Line /\ Line'[x] = Line[x + 1] /\ Line'[x] \in Buffers
        <3>1. \A x \in DOMAIN Line' : x = Len(queue) \/ x \in 1 .. Len(queue) - 1
            BY <2>1, <2>3
        <3> QED
            BY <2>1, <2>2, <2>3, <3>1
    <2> SUFFICES ASSUME NEW x \in DOMAIN Line', NEW y \in DOMAIN Line',
                        NEW i \in 1 .. Cap, NEW j \in 1 .. Cap,
                        Waiting(Line[x], i)', Waiting(Line[y], j)',
                        x < y \/ (x = y /\ i < j)
                 PROVE  cells'[Line'[x]][i].n < cells'[Line'[y]][j].n
        BY DEF LineInOrder
    <2>5. PICK d, e : d = Line'[x] /\ e = Line'[y]
        OBVIOUS
    <2>6. d = Line[x + 1] /\ e = Line[y + 1] /\ Waiting(d, i)' /\ Waiting(e, j)'
        BY <2>4, <2>5
    <2>7. /\ Waiting(d, i) /\ cells'[d][i].n = cells[d][i].n
          /\ Waiting(e, j) /\ cells'[e][j].n = cells[e][j].n
        BY <1>8, <2>4, <2>5, <2>6 DEF NothingElseWaits
    <2>8. x + 1 \in DOMAIN Line /\ y + 1 \in DOMAIN Line /\ (x + 1 < y + 1 \/ (x + 1 = y + 1 /\ i < j))
        BY <2>1, <2>3, <2>4
    <2> QED
        BY <2>5, <2>6, <2>7, <2>8 DEF Inv, InOrder, LineInOrder
<1>21. NoNewFrames /\ NoLostFrames
    BY <1>3 DEF NoNewFrames, NoLostFrames
<1>22. Calls'
    BY <1>2, <1>3, <1>4 DEF Inv, Calls, Current, Types
<1>23. Clean'
    <2>1. ~left => \A d \in Buffers : \A i \in 1 .. Cap : cells'[d][i] # Empty => Live(d, i)'
        <3> SUFFICES ASSUME ~left, NEW d \in Buffers, NEW i \in 1 .. Cap, cells'[d][i] # Empty
                     PROVE  Live(d, i)'
            OBVIOUS
        <3>1. CASE d # b
            BY <1>4, <1>6, <3>1 DEF Inv, Clean
        <3>2. CASE d = b
            <4>1. ~(i <= Used(b)) /\ cells[b][i] # Empty
                BY <1>5, <3>2
            <4>2. Live(b, i)
                BY <1>2, <4>1 DEF Inv, Clean
            <4> QED
                BY <1>2, <4>1, <4>2, LiveUsed DEF Inv
        <3> QED
            BY <3>1, <3>2
    <2> QED
        BY <1>3, <2>1 DEF Inv, Clean, FramesOpenUnlessLeft
<1> QED
    BY <1>3, <1>8, <1>15, <1>16, <1>17, <1>18, <1>19, <1>20, <1>21, <1>22, <1>23, Unmoved,
       OrderKept
    DEF Inv, InOrder

LEMMA InvNext ==
    ASSUME Inv, [Next]_vars
    PROVE  Inv'
<1>1. CASE UNCHANGED vars
    <2>1. UNCHANGED <<cells, offset, pool, files, master, free, queue, pos, key, procs, shards, client,
                      next, logged, left, faults>>
        BY <1>1 DEF vars
    <2>2. Types' /\ Process' /\ Calls'
        BY <2>1 DEF Inv, Types, Buffers, Process, Calls, Current
    <2> QED
        BY <2>1, <2>2, Unmoved DEF Inv, InOrder
<1>2. CASE Next
    BY <1>2, ClientStep, OverrunStep, DrainStartStep, SwapStep, SwapFailsStep, StartStep, WriteStep,
       SpillStep, StreamFailsStep, FlushShardStep, DestroyStep, DestroyLeavingStep, CrashStep,
       PersistStep, GiveBackStep
    DEF Next
<1> QED
    BY <1>1, <1>2

LEMMA Invariance == Spec => []Inv
<1>1. Inv /\ [Next]_vars => Inv'
    BY InvNext
<1> QED
    BY InvInit, <1>1, PTL DEF Spec

-----------------------------------------------------------------------------
(* The properties.                                                           *)

\* PrefixOnDisk: whatever the sizes, crashes and restarts, and whichever writes, headers,
\* files and buffers fail, the frames that can be read back from the shards
\* (shard_writer.cpp:62, mmap_store.cpp:154) are a first part of what the sink accepted
\* and no failure has taken: without a repetition or an exchange, and without a gap
\* but for those records, which are known from the failed call on.
THEOREM DiskIsPrefix == Spec => []PrefixOnDisk
<1>1. Inv => PrefixOnDisk
    BY PrefixSaved
<1> QED
    BY <1>1, Invariance, PTL

\* CrashCostsOneShard: ShardWriter closes a shard before it opens the next
\* (shard_writer.cpp:71-72), so of all shards of a process but the last every one is
\* complete, or was itself the target of a write that failed.
THEOREM OneShardAtRisk == Spec => []CrashCostsOneShard
<1>1. Inv => CrashCostsOneShard
    BY DEF Inv
<1> QED
    BY <1>1, Invariance, PTL

\* FramesOpenUnlessLeft: as long as no process has crashed, and none ended when no
\* buffer could be created for its last Flush (mmap_store.cpp:117-124), no shard holds a
\* frame of another key: ResetForReuse leaves no record behind (mmap_buffer.cpp:60-76),
\* whatever else has failed.
THEOREM FramesOpen == Spec => []FramesOpenUnlessLeft
<1>1. Inv => FramesOpenUnlessLeft
    BY DEF Inv, Clean, FramesOpenUnlessLeft
<1> QED
    BY <1>1, Invariance, PTL

\* On disk is a first part of the log.
OnDiskInLog ==
    /\ OnDisk \in Seq(Nat) /\ Increasing(OnDisk) /\ ToSet(OnDisk) = Saved
    /\ Len(OnDisk) \in Nat /\ Len(logged) \in Nat
    /\ Len(OnDisk) <= Len(logged)
    /\ \A i \in 1 .. Len(OnDisk) : OnDisk[i] = logged[i]

LEMMA DiskInLog == (Inv => OnDiskInLog) /\ (Inv' => OnDiskInLog')
<1>1. Inv => OnDiskInLog
    BY PrefixSaved, LenProperties DEF OnDiskInLog, Inv, Types
<1>2. (Inv => OnDiskInLog)'
    BY <1>1, PTL
<1> QED
    BY <1>1, <1>2

\* What is on disk stays there.
LEMMA SavedGrows ==
    ASSUME Types, NoLostFrames, \A g \in DOMAIN shards : shards[g].disk <= shards'[g].disk,
           shards' \in Seq(Shard)
    PROVE  Saved \subseteq Saved'
<1> SUFFICES ASSUME NEW n \in Saved PROVE n \in Saved'
    OBVIOUS
<1>1. PICK g \in DOMAIN shards : n \in SavedIn(shards[g])
    BY DEF Saved
<1>2. PICK i \in DOMAIN shards[g].frames : n \in Nat /\ i <= shards[g].disk
            /\ shards[g].frames[i].key = shards[g].key /\ n = shards[g].frames[i].n
    BY <1>1 DEF SavedIn
<1>3. /\ g \in DOMAIN shards' /\ i \in DOMAIN shards'[g].frames
      /\ shards'[g].key = shards[g].key /\ shards'[g].frames[i] = shards[g].frames[i]
    BY DEF NoLostFrames
<1>4. shards[g].disk \in Int /\ i \in Int
    BY ShardTypes DEF Shard
<1>5. shards'[g].disk \in Int
    <2>1. DOMAIN shards' = 1 .. Len(shards')
        BY LenProperties
    <2>2. shards'[g] \in Shard
        BY <1>3, <2>1, ElementOfSeq
    <2> QED
        BY <2>2 DEF Shard
<1>6. n \in SavedIn(shards'[g])
    BY <1>2, <1>3, <1>4, <1>5 DEF SavedIn
<1> QED
    BY <1>3, <1>6 DEF Saved

LEMMA ContractOperators ==
    /\ \A q : Contract!ToSet(q) = ToSet(q)
    /\ \A q, ns : Contract!Without(q, ns) = Without(q, ns)
<1>1. \A q : Contract!ToSet(q) = ToSet(q)
    BY DEF ToSet, Contract!ToSet
<1>2. ASSUME NEW q PROVE Contract!FlattenSeq(q) = FlattenSeq(q)
    BY Zenon DEF FlattenSeq, Contract!FlattenSeq
<1>3. ASSUME NEW q, NEW ns PROVE Contract!Without(q, ns) = Without(q, ns)
    <2>1. PICK r : r = [i \in DOMAIN q |-> IF q[i] \in ns THEN << >> ELSE <<q[i]>>]
        OBVIOUS
    <2>2. Contract!FlattenSeq(r) = FlattenSeq(r)
        BY <1>2
    <2> QED
        BY <2>1, <2>2 DEF Without, Contract!Without
<1> QED
    BY <1>1, <1>3

LEMMA ContractDisk ==
    ASSUME Inv
    PROVE  Contract!OnDisk = OnDisk /\ ToSet(Contract!OnDisk) = Saved
<1>1. OnDiskInLog
    BY DiskInLog
<1>2. PICK r, l : r = OnDisk /\ l = logged
    OBVIOUS
<1>3. /\ r \in Seq(Nat) /\ ToSet(r) = Saved /\ Len(r) \in Nat
      /\ l \in Seq(Nat) /\ Len(l) \in Nat
      /\ Len(r) <= Len(l) /\ \A i \in 1 .. Len(r) : r[i] = l[i]
    BY <1>1, <1>2 DEF OnDiskInLog, Inv, Types
<1>4. PICK s : s = SubSeq(l, 1, Len(r))
    OBVIOUS
<1>5. /\ s \in Seq(Nat) /\ Len(s) = Len(r)
      /\ \A i \in 1 .. Len(r) : s[i] = l[i]
    <2>1. 1 \in 1 .. Len(l) + 1 /\ Len(r) \in 0 .. Len(l)
        BY <1>3
    <2> QED
        BY <1>3, <1>4, <2>1, SubSeqProperties
<1>6. r = s
    BY <1>3, <1>5, SeqEqual
<1> QED
    BY <1>2, <1>3, <1>4, <1>6 DEF Contract!OnDisk

LEMMA PersistsOrStutters ==
    ASSUME Inv, Inv', UNCHANGED <<logged, faults>>, client'.target = client.target,
           Saved \subseteq Saved'
    PROVE  [Contract!Next]_Contract!vars
<1>1. OnDiskInLog /\ OnDiskInLog'
    BY DiskInLog
<1>2. PICK r, t : r = OnDisk /\ t = OnDisk'
    OBVIOUS
<1>3. /\ r \in Seq(Nat) /\ Increasing(r) /\ ToSet(r) = Saved
      /\ t \in Seq(Nat) /\ ToSet(t) = Saved' /\ Len(r) \in Nat /\ Len(t) \in Nat
      /\ Len(t) <= Len(logged) /\ Len(logged) \in Nat
    BY <1>1, <1>2 DEF OnDiskInLog
<1>4. Increasing(t)
    BY <1>1, <1>2 DEF OnDiskInLog, Increasing
<1>5. Len(r) <= Len(t)
    BY <1>3, <1>4, MoreIsLonger
<1>6. Len(OnDisk)' \in Len(OnDisk) + 1 .. Len(logged) \/ Len(OnDisk)' = Len(OnDisk)
    BY <1>2, <1>3, <1>5
<1> QED
    BY <1>6 DEF Contract!Next, Contract!Persist, Contract!vars

\* What a failure takes is not on disk, and the rest keeps its order.
LEMMA LosesKeeps ==
    ASSUME Inv, Inv', Saved \subseteq Saved',
           NEW ns, ns \cap Saved = {}, ToSet(logged)' = ToSet(logged) \ ns
    PROVE  Contract!Loses
<1>1. PICK lost : lost = ns \cap ToSet(logged)
    OBVIOUS
<1>2. PICK l, k : l = logged /\ k = logged'
    OBVIOUS
<1>3. l \in Seq(Nat) /\ Increasing(l)
    BY <1>2 DEF Inv, Types, Account
<1>4. k \in Seq(Nat) /\ Increasing(k)
    BY <1>2 DEF Inv, Types, Account, Increasing
<1>5. ToSet(k) = ToSet(l) \ lost
    BY <1>1, <1>2
<1>6. Without(l, lost) = k
    <2>1. PICK w : w = Without(l, lost)
        OBVIOUS
    <2>2. w \in Seq(Nat) /\ Increasing(w) /\ ToSet(w) = ToSet(l) \ lost
        BY <1>3, <2>1, WithoutSome
    <2> QED
        BY <1>4, <1>5, <2>1, <2>2, SameElements
<1>7. logged' = Contract!Without(logged, lost)
    BY <1>2, <1>6, ContractOperators
<1>8. lost \in SUBSET (ToSet(logged) \ ToSet(Contract!OnDisk))
    BY <1>1, ContractDisk
<1>9. OnDiskInLog /\ OnDiskInLog'
    BY DiskInLog
<1>10. PICK r, t : r = OnDisk /\ t = OnDisk'
    OBVIOUS
<1>11. /\ r \in Seq(Nat) /\ Increasing(r) /\ ToSet(r) = Saved
       /\ t \in Seq(Nat) /\ ToSet(t) = Saved' /\ Len(r) \in Nat /\ Len(t) \in Nat
       /\ Len(t) <= Len(logged')
    BY <1>9, <1>10 DEF OnDiskInLog
<1>12. Increasing(t)
    BY <1>9, <1>10 DEF OnDiskInLog, Increasing
<1>13. Len(r) <= Len(t)
    BY <1>11, <1>12, MoreIsLonger
<1>14. Len(OnDisk)' \in Len(OnDisk) .. Len(logged')
    BY <1>2, <1>4, <1>10, <1>11, <1>13, LenProperties
<1> QED
    BY <1>7, <1>8, <1>14, ContractOperators DEF Contract!Loses

LEMMA SameDisk ==
    ASSUME UNCHANGED shards
    PROVE  UNCHANGED OnDisk /\ Saved' = Saved
    BY DEF OnDisk, FoundIn, Saved, SavedIn

\* The steps that neither the log nor the disk sees.
LEMMA QuietStep ==
    ASSUME Inv,
           \/ Log \/ Overrun \/ Swap \/ TimeOut \/ FlushDrained \/ DrainStart \/ GiveBack
           \/ UNCHANGED vars
    PROVE  UNCHANGED <<shards, logged, faults>> /\ client'.target = client.target
<1>1. client \in Clients
    BY DEF Inv, Types
<1>2. CASE Log
    <2>1. /\ UNCHANGED <<shards, logged, faults>> /\ client = Idle
          /\ \E x \in Sizes : client' = [Idle EXCEPT !.step = "write", !.size = x]
        BY <1>2 DEF Log
    <2>2. PICK x : client' = [Idle EXCEPT !.step = "write", !.size = x]
        BY <2>1
    <2> QED
        BY <2>1, <2>2 DEF Idle
<1>3. CASE TimeOut
    BY <1>1, <1>3 DEF TimeOut, Idle, Inv, Calls, Flushing
<1>4. CASE Overrun
    BY <1>1, <1>4 DEF Overrun
<1>5. CASE Swap
    BY <1>1, <1>5 DEF Swap
<1>6. CASE FlushDrained
    BY <1>1, <1>6 DEF FlushDrained
<1>7. CASE DrainStart
    BY <1>7 DEF DrainStart
<1>8. CASE GiveBack
    BY <1>8 DEF GiveBack
<1>9. CASE UNCHANGED vars
    BY <1>9 DEF vars
<1> QED
    BY <1>2, <1>3, <1>4, <1>5, <1>6, <1>7, <1>8, <1>9

\* The steps with which stdio's buffer reaches the disk.
LEMMA DiskStep ==
    ASSUME Inv, Advanced
    PROVE  Saved \subseteq Saved'
    BY SavedGrows DEF Inv, Advanced

LEMMA SpillSaves ==
    ASSUME Inv, Spill
    PROVE  UNCHANGED <<logged, client, faults>> /\ Saved \subseteq Saved'
<1>1. UNCHANGED <<logged, client, faults>> /\ key # 0
    BY DEF Spill
<1>2. Advanced
    BY <1>1, SpillProgress, DiskProgress
<1> QED
    BY <1>1, <1>2, DiskStep

LEMMA FlushSaves ==
    ASSUME Inv, (FlushShard /\ UNCHANGED faults) \/ Destroy
    PROVE  /\ UNCHANGED <<logged, faults>> /\ client'.target = client.target
           /\ Saved \subseteq Saved'
<1>1. UNCHANGED <<logged, faults>>
    BY DEF FlushShard, Destroy
<1>2. client \in Clients /\ key # 0
    BY DEF Inv, Types, Process, FlushShard, Destroy, Idle
<1>3. CASE FlushShard /\ UNCHANGED faults
    <2>1. /\ shards' = [shards EXCEPT ![Len(shards)] = Synced(@)]
          /\ client' = [client EXCEPT !.step = "flushed"]
        BY <1>3, OpenShard DEF FlushShard, Fails, Inv, Types
    <2>2. shards' = [shards EXCEPT ![Len(shards)] = Synced(Current)]
        BY <2>1, <1>2, OpenShard
    <2>3. Advanced
        BY <1>2, <2>2, SyncProgress, DiskProgress
    <2> QED
        BY <1>1, <1>2, <2>1, <2>3, DiskStep
<1>4. CASE Destroy
    <2>1. client' = client
        BY <1>4 DEF Destroy, Gone
    <2>2. shards' = [shards EXCEPT ![Len(shards)] = Closed(Current)]
        BY <1>2, <1>4, OpenShard DEF Destroy
    <2>3. Advanced
        BY <1>2, <2>2, SyncProgress, DiskProgress
    <2> QED
        BY <1>1, <2>1, <2>3, DiskStep
<1> QED
    BY <1>3, <1>4

LEMMA StartSaves ==
    ASSUME Inv, Start
    PROVE  UNCHANGED <<logged, client, faults>> /\ Saved \subseteq Saved'
<1>1. UNCHANGED <<logged, client, faults>>
    BY DEF Start
<1>2. shards \in Seq(Shard) /\ NewShard(key') \in Shard
    <2>1. << >> \in Seq(Frame)
        BY EmptySeq
    <2>2. key' \in Nat /\ shards \in Seq(Shard)
        BY DEF Inv, Types, Start
    <2> QED
        BY <2>1, <2>2 DEF NewShard, Shard
<1>3. /\ Len(shards) \in Nat /\ DOMAIN shards = 1 .. Len(shards)
      /\ DOMAIN shards' = 1 .. Len(shards) + 1
      /\ \A g \in 1 .. Len(shards) : shards'[g] = shards[g]
    <2>1. /\ shards' \in Seq(Shard) /\ Len(shards') = Len(shards) + 1
          /\ \A g \in 1 .. Len(shards) : shards'[g] = shards[g]
        BY <1>2, AppendProperties DEF Start
    <2> QED
        BY <1>2, <2>1, LenProperties
<1>4. \A g \in DOMAIN shards : g \in DOMAIN shards' /\ shards'[g] = shards[g]
    BY <1>3
<1>5. Saved \subseteq Saved'
    BY <1>4 DEF Saved, SavedIn
<1> QED
    BY <1>1, <1>5

\* The calls that fail, and what they do to records later.
LEMMA PersistKeeps ==
    ASSUME Inv, Inv', Persist
    PROVE  [Contract!Next]_Contract!vars
<1>1. PICK f : /\ Passes(f)
               /\ \/ Written(f) /\ UNCHANGED <<logged, faults>>
                  \/ /\ NotWritten /\ Lose(Records(<<f>>)) /\ faults' \in Nat
                     /\ UNCHANGED faults \/ faults' = faults + 1
                     /\ faults' > 0
    BY PersistOutcome
<1>2. client' = client
    BY <1>1 DEF Passes
<1>3. CASE Written(f) /\ UNCHANGED <<logged, faults>>
    <2>1. Saved \subseteq Saved'
        BY <1>3, SavedGrows DEF Inv, Written
    <2> QED
        BY <1>2, <1>3, <2>1, PersistsOrStutters
<1>4. CASE /\ NotWritten /\ Lose(Records(<<f>>)) /\ faults' \in Nat
           /\ UNCHANGED faults \/ faults' = faults + 1
           /\ faults' > 0
    <2>1. /\ Records(<<f>>) \cap Saved = {}
          /\ ToSet(logged)' = ToSet(logged) \ Records(<<f>>)
        BY <1>1, <1>4, PersistLost
    <2>2. Saved \subseteq Saved'
        BY <1>4, SavedGrows DEF Inv, NotWritten
    <2>3. Contract!Loses
        BY <2>1, <2>2, LosesKeeps
    <2> QED
        BY <1>2, <1>4, <2>3 DEF Contract!Next, Contract!Fault, Contract!Aftermath
<1> QED
    BY <1>1, <1>3, <1>4

LEMMA NothingLost ==
    ASSUME Inv, Inv', UNCHANGED <<shards, logged>>
    PROVE  Contract!Loses
<1>1. Saved' = Saved
    BY SameDisk
<1>2. {} \cap Saved = {} /\ ToSet(logged)' = ToSet(logged) \ {}
    BY DEF ToSet
<1> QED
    BY <1>1, <1>2, LosesKeeps

LEMMA SwapFailsKeeps ==
    ASSUME Inv, Inv', SwapFails
    PROVE  Contract!Fault
<1>1. /\ UNCHANGED <<shards, logged>> /\ faults' = faults + 1
      /\ client.step \in {"swap", "flushswap"}
      /\ client' = IF client.step = "swap" THEN Idle
                   ELSE [client EXCEPT !.step = "flushwait", !.target = {}]
    BY DEF SwapFails, Fails
<1>2. client \in Clients
    BY DEF Inv, Types
<1>3. CASE client.step = "swap"
    <2>1. client.target = NoTarget /\ client'.target = NoTarget
        BY <1>1, <1>3 DEF Inv, Calls, Flushing, Idle
    <2> QED
        BY <1>1, <2>1, NothingLost DEF Contract!Fault
<1>4. CASE client.step = "flushswap"
    <2>1. client.target # NoTarget /\ client'.target = {}
        BY <1>1, <1>2, <1>4 DEF Inv, Calls, Flushing, NoTarget, Clients
    <2> QED
        BY <1>1, <2>1, NothingLost DEF Contract!Fault
<1> QED
    BY <1>1, <1>3, <1>4

LEMMA FlushShardFailsKeeps ==
    ASSUME Inv, Inv', FlushShard, ~UNCHANGED faults
    PROVE  Contract!Fault
<1>1. /\ UNCHANGED <<shards, logged>> /\ faults' = faults + 1 /\ client.step = "flushshard"
      /\ client' = [client EXCEPT !.step = "flushed", !.target = {}]
    BY DEF FlushShard, Fails
<1>2. client \in Clients
    BY DEF Inv, Types
<1>3. client.target # NoTarget /\ client'.target = {}
    BY <1>1, <1>2 DEF Inv, Calls, Flushing, NoTarget, Clients
<1> QED
    BY <1>1, <1>3, NothingLost DEF Contract!Fault

LEMMA StreamFailsKeeps ==
    ASSUME Inv, Inv', StreamFails
    PROVE  Contract!Fault
<1>1. client' = client /\ faults' = faults + 1
    BY DEF StreamFails, Fails
<1>2. Contract!Loses
    <2>1. Saved' = Saved /\ \E ns : ns \cap Saved = {} /\ ToSet(logged)' = ToSet(logged) \ ns
        BY StreamFailsStep
    <2> QED
        BY <2>1, LosesKeeps
<1> QED
    BY <1>1, <1>2 DEF Contract!Fault

LEMMA DestroyLeavingKeeps ==
    ASSUME Inv, Inv', DestroyLeaving
    PROVE  Contract!Fault
<1>1. client' = Idle /\ client = Idle /\ faults' = faults + 1
    BY DEF DestroyLeaving, Gone, Fails
<1>2. Advanced /\ Saved' \subseteq ToSet(logged) /\ ToSet(logged)' = Saved'
    BY DestroyLeavingStep
<1>3. Saved \subseteq Saved'
    BY <1>2, DiskStep
<1>4. PICK ns : ns = ToSet(logged) \ Saved'
    OBVIOUS
<1>5. ns \cap Saved = {} /\ ToSet(logged)' = ToSet(logged) \ ns
    BY <1>2, <1>3, <1>4
<1>6. Contract!Loses
    BY <1>3, <1>5, LosesKeeps
<1> QED
    BY <1>1, <1>6 DEF Contract!Fault

LEMMA WriteKeeps ==
    ASSUME Inv, Write
    PROVE  Contract!Accept
<1>1. UNCHANGED <<shards, faults>> /\ logged' = Append(logged, next') /\ next' = next + 1
      /\ client' = Idle /\ client.step = "write"
    BY DEF Write
<1>2. next' \in 1 .. MaxFrames
    BY <1>1, BoundsAssumption DEF Inv, Types, Calls
<1>3. client'.target = client.target
    BY <1>1 DEF Inv, Calls, Flushing, Idle
<1>4. Len(OnDisk)' = Len(OnDisk)
    BY <1>1, SameDisk
<1> QED
    BY <1>1, <1>2, <1>3, <1>4 DEF Contract!Accept

LEMMA FlushCallKeeps ==
    ASSUME Inv, FlushCall
    PROVE  Contract!FlushCall
<1>1. UNCHANGED <<shards, logged, faults>> /\ client = Idle
      /\ client' = [Idle EXCEPT !.step = IF offset[master] > 0 THEN "flushswap" ELSE "flushwait",
                                !.target = ToSet(logged)]
    BY DEF FlushCall
<1>2. client.target = NoTarget /\ client'.target = ToSet(logged)
    BY <1>1 DEF Idle
<1>3. Len(OnDisk)' = Len(OnDisk)
    BY <1>1, SameDisk
<1> QED
    BY <1>1, <1>2, <1>3, ContractOperators DEF Contract!FlushCall

\* When a Flush that has not failed returns, nothing waits in a buffer and every shard
\* is on disk.
LEMMA FlushReturnKeeps ==
    ASSUME Inv, FlushReturn
    PROVE  Contract!FlushReturn
<1>1. UNCHANGED <<shards, logged, faults>> /\ client.step = "flushed" /\ client' = Idle
    BY DEF FlushReturn
<1>2. /\ client.target # {} => offset[master] = 0 /\ AllOnDisk(Current)
      /\ queue = << >> /\ client.target \subseteq 1 .. next
    BY <1>1 DEF Inv, Calls, Flushing
<1>3. key # 0 /\ Types /\ Current = shards[Len(shards)] /\ DOMAIN shards = 1 .. Len(shards)
      /\ Len(shards) \in Nat
    <2>1. key # 0
        BY <1>1 DEF Inv, Process, Idle
    <2> QED
        BY <2>1, OpenShard, LenProperties DEF Inv, Types
<1>4. client.target # {} => ToSet(logged) \subseteq Saved
    <2> SUFFICES ASSUME client.target # {}, NEW n \in ToSet(logged) PROVE n \in Saved
        OBVIOUS
    <2>1. \A g \in DOMAIN shards : AllOnDisk(shards[g])
        BY <1>2, <1>3 DEF Inv, Complete
    <2>2. \A b \in Buffers : \A i \in 1 .. Cap : ~Waiting(b, i)
        BY <1>2, Drained DEF Waiting
    <2>3. PICK g \in DOMAIN shards : \E i \in DOMAIN shards[g].frames :
            Own(g, i) /\ n = shards[g].frames[i].n
        BY <2>2 DEF Inv, Account
    <2>4. PICK i \in DOMAIN shards[g].frames : Own(g, i) /\ n = shards[g].frames[i].n
        BY <2>3
    <2>5. n \in Nat
        BY DEF Inv, Account
    <2>6. n \in SavedIn(shards[g])
        BY <2>1, <2>4, <2>5 DEF AllOnDisk, SavedIn, Own
    <2> QED
        BY <2>6 DEF Saved
<1>5. client.target \cap ToSet(logged) \subseteq ToSet(Contract!OnDisk)
    BY <1>4, ContractDisk
<1>6. Len(OnDisk)' = Len(OnDisk)
    BY <1>1, SameDisk
<1>7. client.target # NoTarget
    BY <1>2 DEF NoTarget
<1>8. client'.target = NoTarget
    BY <1>1 DEF Idle
<1> QED
    BY <1>1, <1>5, <1>6, <1>7, <1>8, ContractOperators DEF Contract!FlushReturn

LEMMA CrashKeeps ==
    ASSUME Inv, Inv', Crash
    PROVE  Contract!Crash
<1>1. logged' = OnDisk /\ client' = Idle /\ UNCHANGED faults
    BY DEF Crash, Gone
<1>2. OnDiskInLog /\ OnDiskInLog'
    BY DiskInLog
<1>3. Saved' = Saved
    BY CrashShards
<1>4. PICK r, t : r = OnDisk /\ t = OnDisk'
    OBVIOUS
<1>5. /\ r \in Seq(Nat) /\ Increasing(r) /\ ToSet(r) = Saved
      /\ t \in Seq(Nat) /\ ToSet(t) = Saved'
    BY <1>2, <1>4 DEF OnDiskInLog
<1>6. Increasing(t)
    BY <1>2, <1>4 DEF OnDiskInLog, Increasing
<1>7. r = t
    BY <1>3, <1>5, <1>6, SameElements
<1>8. Len(OnDisk)' = Len(OnDisk)
    BY <1>4, <1>7
<1>9. logged' = Contract!OnDisk
    BY <1>1, ContractDisk
<1>10. client'.target = NoTarget
    BY <1>1 DEF Idle
<1> QED
    BY <1>1, <1>8, <1>9, <1>10 DEF Contract!Crash

LEMMA ContractInit == Init => Contract!Init
<1> SUFFICES ASSUME Init PROVE Contract!Init
    OBVIOUS
<1>1. OnDisk \in Seq(Nat) /\ Len(OnDisk) \in Nat /\ Len(OnDisk) <= Len(logged) /\ Len(logged) = 0
    <2>1. Inv
        BY InvInit
    <2>2. Len(<< >>) = 0
        BY EmptySeq
    <2> QED
        BY <2>1, <2>2, DiskInLog DEF OnDiskInLog, Init
<1>2. Len(OnDisk) = 0
    BY <1>1
<1> QED
    BY <1>2 DEF Init, Idle, Contract!Init

\* EffectiveSink keeps the contract of CrashSafeLog over any number of processes,
\* crashes and failures: a record that Log accepted is lost only while it is not on disk,
\* and only to a crash, to a call that fails or to the shard that such a call has
\* damaged; and when Flush returns and did not itself fail (mmap_store.cpp:187), what was
\* logged before the call is on disk or has been lost to a failure.
THEOREM ContractKept == Spec => KeepsContract
<1>1. Inv /\ Inv' /\ [Next]_vars => [Contract!Next]_Contract!vars
    <2> SUFFICES ASSUME Inv, Inv', [Next]_vars PROVE [Contract!Next]_Contract!vars
        OBVIOUS
    <2>1. CASE Write
        BY <2>1, WriteKeeps DEF Contract!Next
    <2>2. CASE FlushCall
        BY <2>2, FlushCallKeeps DEF Contract!Next
    <2>3. CASE FlushReturn
        BY <2>3, FlushReturnKeeps DEF Contract!Next
    <2>4. CASE Crash
        BY <2>4, CrashKeeps DEF Contract!Next
    <2>5. CASE \/ Log \/ Overrun \/ Swap \/ TimeOut \/ FlushDrained \/ DrainStart \/ GiveBack
               \/ UNCHANGED vars
        BY <2>5, QuietStep, SameDisk, PersistsOrStutters
    <2>6. CASE Spill \/ Start
        BY <2>6, SpillSaves, StartSaves, PersistsOrStutters
    <2>7. CASE (FlushShard /\ UNCHANGED faults) \/ Destroy
        BY <2>7, FlushSaves, PersistsOrStutters
    <2>8. CASE Persist
        BY <2>8, PersistKeeps
    <2>9. CASE SwapFails \/ (FlushShard /\ ~UNCHANGED faults) \/ StreamFails \/ DestroyLeaving
        BY <2>9, SwapFailsKeeps, FlushShardFailsKeeps, StreamFailsKeeps, DestroyLeavingKeeps
        DEF Contract!Next
    <2> QED
        BY <2>1, <2>2, <2>3, <2>4, <2>5, <2>6, <2>7, <2>8, <2>9 DEF Next
<1> QED
    BY <1>1, ContractInit, Invariance, PTL DEF Spec, KeepsContract, Contract!Spec

=============================================================================
