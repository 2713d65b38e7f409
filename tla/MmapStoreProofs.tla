-------------------------- MODULE MmapStoreProofs --------------------------
(* Safety of MmapStore for every set of threads and records and every size: *)
(* the buffers are accounted for, no record is persisted twice, and Append   *)
(* refuses only under back-pressure.                                         *)
EXTENDS MmapStore, SequenceTheorems, WellFoundedInduction, TLAPS

\* An Append under way has its record in hand and has loaded a master.
InAppend == {"enter", "write", "slow", "retry", "appendwait", "appendwoken"}

Types ==
    /\ TypeOK
    /\ appended \in Seq(Records) /\ persisted \in Seq(Records)
    /\ covered \in [Threads -> SUBSET Records]
    /\ \A t \in Threads : pc[t] \in InAppend => msg[t] \in Records /\ cur[t] \in Buffers

\* BufferAccounting, place by place.
InDrain == IF Draining THEN {dbuf} ELSE {}

Places ==
    /\ IsInjective(free) /\ IsInjective(queue)
    /\ ToSet(free) \cap ToSet(queue) = {}
    /\ master \notin ToSet(free) \cup ToSet(queue)
    /\ InDrain \cap ({master} \cup ToSet(free) \cup ToSet(queue)) = {}
    /\ {master} \cup ToSet(free) \cup ToSet(queue) \cup InDrain = 1 .. size

Counted == inflight = Len(queue) + (IF Draining \/ dpc = "count" THEN 1 ELSE 0)

SealedInDrain ==
    \A b \in Buffers : sealed[b] => dpc \in {"sealing", "walk", "reset"} /\ dbuf = b

Accounting == Places /\ Counted /\ SealedInDrain

\* Whoever waits for a buffer has found the pool at its limit.
WaitsWhenFull ==
    \A t \in Threads : pc[t] \in {"appendwait", "appendwoken"} => size = MaxBuffers

\* A cell holds a record still to be persisted unless the drain has walked its
\* buffer and not scrubbed it yet. What a late writer puts there is lost.
Pending(b, i) ==
    ~(b = dbuf /\ (dpc = "reset" \/ (dpc = "scrub" /\ i <= scrub)))

\* Behind the high-water mark all cells are zero, once a scrub is through.
TailZero ==
    \A b \in Buffers : \A i \in 1 .. Cap :
        i > used[b] /\ ~(dpc = "scrub" /\ b = dbuf /\ i <= scrub) => mem[b][i] = Empty

\* A record is in the hands of at most one Append, and not yet accepted.
InHand ==
    \A t \in Threads : msg[t] # Empty =>
        /\ msg[t] \notin ToSet(appended)
        /\ \A u \in Threads : msg[u] = msg[t] => u = t

\* What is in a cell has been accepted; what waits there has not been persisted
\* and is in no other such cell.
Cells ==
    /\ \A b \in Buffers : \A i \in 1 .. Cap :
         mem[b][i] # Empty =>
            /\ mem[b][i] \in ToSet(appended)
            /\ Pending(b, i) => mem[b][i] \notin ToSet(persisted)
    /\ \A b, c \in Buffers : \A i, j \in 1 .. Cap :
         /\ mem[b][i] # Empty /\ mem[b][i] = mem[c][j]
         /\ Pending(b, i) /\ Pending(c, j)
         => b = c /\ i = j

Fresh == TailZero /\ InHand /\ Cells /\ AtMostOnce

Inv == Types /\ Accounting /\ WaitsWhenFull /\ Fresh

-----------------------------------------------------------------------------
(* Sequences and the sets of their elements.                                 *)

LEMMA AppendSet ==
    ASSUME NEW S, NEW s \in Seq(S), NEW e \in S
    PROVE  /\ Append(s, e) \in Seq(S) /\ Len(Append(s, e)) = Len(s) + 1
           /\ ToSet(Append(s, e)) = ToSet(s) \cup {e}
           /\ IsInjective(s) /\ e \notin ToSet(s) => IsInjective(Append(s, e))
<1>1. /\ Append(s, e) \in Seq(S) /\ Len(Append(s, e)) = Len(s) + 1
      /\ \A i \in 1 .. Len(s) : Append(s, e)[i] = s[i]
      /\ Append(s, e)[Len(s) + 1] = e
    BY AppendProperties
<1>2. /\ DOMAIN s = 1 .. Len(s) /\ Len(s) \in Nat
      /\ DOMAIN Append(s, e) = 1 .. Len(s) + 1
    BY <1>1, LenProperties
<1>3. ToSet(Append(s, e)) = ToSet(s) \cup {e}
    BY <1>1, <1>2 DEF ToSet
<1>4. IsInjective(s) /\ e \notin ToSet(s) => IsInjective(Append(s, e))
    BY <1>1, <1>2 DEF IsInjective, ToSet
<1> QED
    BY <1>1, <1>3, <1>4

LEMMA TailSet ==
    ASSUME NEW S, NEW s \in Seq(S), s # << >>
    PROVE  /\ Tail(s) \in Seq(S) /\ Len(Tail(s)) = Len(s) - 1 /\ Head(s) \in S
           /\ ToSet(s) = ToSet(Tail(s)) \cup {Head(s)}
           /\ IsInjective(s) => IsInjective(Tail(s)) /\ Head(s) \notin ToSet(Tail(s))
<1>1. /\ Tail(s) \in Seq(S) /\ Len(Tail(s)) = Len(s) - 1 /\ Head(s) \in S
      /\ \A i \in 1 .. Len(Tail(s)) : Tail(s)[i] = s[i + 1]
    BY HeadTailProperties
<1>2. /\ DOMAIN s = 1 .. Len(s) /\ Len(s) \in Nat \ {0} /\ Head(s) = s[1]
      /\ DOMAIN Tail(s) = 1 .. Len(s) - 1
    BY <1>1, LenProperties, EmptySeq
<1>3. ToSet(s) = ToSet(Tail(s)) \cup {Head(s)}
    <2>1. \A i \in DOMAIN s : i = 1 \/ (i - 1 \in DOMAIN Tail(s) /\ Tail(s)[i - 1] = s[i])
        BY <1>1, <1>2
    <2>2. \A i \in DOMAIN Tail(s) : i + 1 \in DOMAIN s /\ Tail(s)[i] = s[i + 1]
        BY <1>1, <1>2
    <2>3. 1 \in DOMAIN s /\ Head(s) = s[1]
        BY <1>2
    <2>4. ASSUME NEW e \in ToSet(s) PROVE e \in ToSet(Tail(s)) \cup {Head(s)}
        BY <2>1, <2>3 DEF ToSet
    <2>5. ASSUME NEW e \in ToSet(Tail(s)) PROVE e \in ToSet(s)
        BY <2>2 DEF ToSet
    <2>6. Head(s) \in ToSet(s)
        BY <2>3 DEF ToSet
    <2> QED
        BY <2>4, <2>5, <2>6
<1>4. IsInjective(s) => IsInjective(Tail(s)) /\ Head(s) \notin ToSet(Tail(s))
    BY <1>1, <1>2 DEF IsInjective, ToSet
<1> QED
    BY <1>1, <1>3, <1>4

LEMMA ConcatSet ==
    ASSUME NEW S, NEW s \in Seq(S), NEW t \in Seq(S)
    PROVE  /\ s \o t \in Seq(S)
           /\ ToSet(s \o t) = ToSet(s) \cup ToSet(t)
           /\ IsInjective(s) /\ IsInjective(t) /\ ToSet(s) \cap ToSet(t) = {}
              => IsInjective(s \o t)
<1>1. /\ s \o t \in Seq(S) /\ Len(s \o t) = Len(s) + Len(t)
      /\ \A i \in 1 .. Len(s) + Len(t) :
           (s \o t)[i] = IF i <= Len(s) THEN s[i] ELSE t[i - Len(s)]
    BY ConcatProperties
<1>2. /\ DOMAIN s = 1 .. Len(s) /\ Len(s) \in Nat
      /\ DOMAIN t = 1 .. Len(t) /\ Len(t) \in Nat
      /\ DOMAIN (s \o t) = 1 .. Len(s) + Len(t)
    BY <1>1, LenProperties
<1>3. \A i \in DOMAIN (s \o t) :
        \/ i \in DOMAIN s /\ (s \o t)[i] = s[i]
        \/ i - Len(s) \in DOMAIN t /\ (s \o t)[i] = t[i - Len(s)]
    BY <1>1, <1>2
<1>4. ToSet(s \o t) = ToSet(s) \cup ToSet(t)
    <2>1. \A i \in DOMAIN s : i \in DOMAIN (s \o t) /\ (s \o t)[i] = s[i]
        BY <1>1, <1>2
    <2>2. \A i \in DOMAIN t :
            i + Len(s) \in DOMAIN (s \o t) /\ (s \o t)[i + Len(s)] = t[i]
        BY <1>1, <1>2
    <2>3. ASSUME NEW e \in ToSet(s \o t) PROVE e \in ToSet(s) \cup ToSet(t)
        BY <1>3 DEF ToSet
    <2>4. ASSUME NEW e \in ToSet(s) PROVE e \in ToSet(s \o t)
        BY <2>1 DEF ToSet
    <2>5. ASSUME NEW e \in ToSet(t) PROVE e \in ToSet(s \o t)
        BY <2>2 DEF ToSet
    <2> QED
        BY <2>3, <2>4, <2>5
<1>5. ASSUME IsInjective(s), IsInjective(t), ToSet(s) \cap ToSet(t) = {}
      PROVE  IsInjective(s \o t)
    <2> SUFFICES ASSUME NEW i \in DOMAIN (s \o t), NEW j \in DOMAIN (s \o t),
                        (s \o t)[i] = (s \o t)[j]
                 PROVE  i = j
        BY DEF IsInjective
    <2>1. \A k \in DOMAIN s, l \in DOMAIN t : s[k] # t[l]
        BY <1>5 DEF ToSet
    <2>2. /\ \A k, l \in DOMAIN s : s[k] = s[l] => k = l
          /\ \A k, l \in DOMAIN t : t[k] = t[l] => k = l
        BY <1>5 DEF IsInjective
    <2> QED
        BY <1>2, <1>3, <2>1, <2>2
<1> QED
    BY <1>1, <1>4, <1>5

-----------------------------------------------------------------------------
(* Typing.                                                                   *)

\* The swap of the master, whichever call wants it.
Swaps(t, next) == FromFree(t, next) \/ FromNew(t, next)

\* The buffers' places, in_flight_ and the locks stay of their type.
PoolTypes ==
    /\ size \in MinBuffers .. MaxBuffers
    /\ free \in Seq(Buffers) /\ queue \in Seq(Buffers)
    /\ master \in Buffers /\ inflight \in Nat
    /\ mtx \in Threads \cup {NoThread} /\ runner \in Threads \cup {Strand}

LEMMA SwapTypes ==
    ASSUME Types, NEW t \in Threads, NEW next \in {"retry", "flushing"}, Swaps(t, next)
    PROVE  /\ PoolTypes' /\ UNCHANGED <<dpc, dbuf, scrub>>
           /\ \E p \in {next, "inline", "thrown"} : pc' = [pc EXCEPT ![t] = p]
<1> USE DEF Types, TypeOK
<1>1. PICK b \in Buffers : SwapTo(t, b, next)
    <2>1. CASE FromFree(t, next)
        BY <2>1, TailSet DEF FromFree
    <2>2. CASE FromNew(t, next)
        <3>1. size + 1 \in Buffers
            BY <2>2, SizesAssumption DEF FromNew, Buffers
        <3> QED
            BY <2>2, <3>1 DEF FromNew
    <2> QED
        BY <2>1, <2>2 DEF Swaps
<1>2. size' \in MinBuffers .. MaxBuffers /\ free' \in Seq(Buffers)
    <2>1. CASE FromFree(t, next)
        BY <2>1, TailSet DEF FromFree
    <2>2. CASE FromNew(t, next)
        BY <2>2, SizesAssumption DEF FromNew
    <2> QED
        BY <2>1, <2>2 DEF Swaps
<1>3. queue' \in Seq(Buffers) /\ master' \in Buffers /\ inflight' \in Nat
    BY <1>1, AppendSet DEF SwapTo
<1>4. mtx' \in Threads \cup {NoThread} /\ runner' \in Threads \cup {Strand}
    BY <1>1 DEF SwapTo
<1>5. UNCHANGED <<dpc, dbuf, scrub>> /\ \E p \in {next, "inline", "thrown"} : pc' = [pc EXCEPT ![t] = p]
    BY <1>1 DEF SwapTo
<1> QED
    BY <1>2, <1>3, <1>4, <1>5 DEF PoolTypes

\* ForEachFrame has a place to end: the first empty cell, or the high-water mark.
LEMMA FrameCountFits ==
    ASSUME Types, NEW b \in Buffers
    PROVE  /\ Used(b) \in 0 .. Cap
           /\ FrameCount(b) \in 0 .. Used(b)
           /\ \A i \in 1 .. FrameCount(b) : mem[b][i] # Empty
<1>1. Used(b) \in 0 .. Cap
    BY SizesAssumption DEF Used, Types, TypeOK
<1>2. \E n \in 0 .. Used(b) :
        /\ \A i \in 1 .. n : mem[b][i] # Empty
        /\ n < Used(b) => mem[b][n + 1] = Empty
    <2>1. CASE \A i \in 1 .. Used(b) : mem[b][i] # Empty
        BY <1>1, <2>1
    <2>2. CASE ~\A i \in 1 .. Used(b) : mem[b][i] # Empty
        <3> DEFINE Holes == {i \in 1 .. Used(b) : mem[b][i] = Empty}
        <3>1. Holes \subseteq Nat /\ Holes # {}
            BY <1>1, <2>2
        <3>2. PICK h \in Holes : \A i \in Holes : ~ (<<i, h>> \in OpToRel(<, Nat))
            <4> HIDE DEF Holes
            <4> QED
                BY <3>1, WFMin, NatLessThanWellFounded
        <3>3. \A i \in Holes : ~(i < h)
            BY <3>1, <3>2 DEF OpToRel
        <3>4. h - 1 \in 0 .. Used(b) /\ \A i \in 1 .. h - 1 : mem[b][i] # Empty
            BY <1>1, <3>3
        <3>5. mem[b][(h - 1) + 1] = Empty
            BY <1>1
        <3> QED
            BY <3>4, <3>5
    <2> QED
        BY <2>1, <2>2
<1> QED
    BY <1>1, <1>2 DEF FrameCount

LEMMA TypeInit == Init => Types
<1> SUFFICES ASSUME Init PROVE Types
    OBVIOUS
<1> USE DEF Init
<1>1. free \in Seq(Buffers) /\ master \in Buffers /\ size \in MinBuffers .. MaxBuffers
    BY SizesAssumption DEF Buffers
<1>2. queue \in Seq(Buffers) /\ appended \in Seq(Records) /\ persisted \in Seq(Records)
    BY EmptySeq
<1>3. /\ mem \in [Buffers -> [1 .. Cap -> Records \cup {Empty}]]
      /\ used \in [Buffers -> 0 .. Cap + 1] /\ sealed \in [Buffers -> BOOLEAN]
      /\ scrub \in 0 .. Cap
    BY SizesAssumption
<1> QED
    BY <1>1, <1>2, <1>3 DEF Types, TypeOK, InAppend

LEMMA TypeStep == Types /\ Accounting /\ [Next]_vars => Types'
<1> SUFFICES ASSUME Types, Accounting, [Next]_vars PROVE Types'
    OBVIOUS
<1> USE DEF Types, TypeOK, InAppend, bufs, drain, sys, ghosts, locals
<1>1. ASSUME NEW t \in Threads, AppendCall(t) PROVE Types'
    <2>1. PICK m \in Records : msg' = [msg EXCEPT ![t] = m]
        BY <1>1 DEF AppendCall, Unused
    <2> QED
        BY <1>1, <2>1, ZenonT(40) DEF AppendCall
<1>2. ASSUME NEW t \in Threads, Reload(t) \/ Enter(t) \/ AlreadySwapped(t) \/ Timeout(t)
      PROVE  Types'
    <2>1. CASE Reload(t)
        BY <2>1 DEF Reload
    <2>2. CASE Enter(t)
        BY <2>2 DEF Enter
    <2>3. CASE AlreadySwapped(t)
        BY <2>3 DEF AlreadySwapped, Locked
    <2>4. CASE Timeout(t)
        BY <2>4 DEF Timeout
    <2> QED
        BY <1>2, <2>1, <2>2, <2>3, <2>4
<1>3. ASSUME NEW t \in Threads, WriteFits(t) PROVE Types'
    <2>1. msg[t] \in Records /\ cur[t] \in Buffers
        BY <1>3 DEF WriteFits
    <2>2. appended' \in Seq(Records)
        BY <1>3, <2>1, AppendSet DEF WriteFits
    <2>3. used' \in [Buffers -> 0 .. Cap + 1]
        BY <1>3, <2>1, SizesAssumption, SMTT(30) DEF WriteFits
    <2>4. mem' \in [Buffers -> [1 .. Cap -> Records \cup {Empty}]]
        BY <1>3, <2>1 DEF WriteFits
    <2>5. UNCHANGED <<sealed, size, free, master, queue, inflight, stopped, mtx, drain,
                      sys, persisted, covered>>
        BY <1>3 DEF WriteFits
    <2>6. Finished(t, "idle")
        BY <1>3 DEF WriteFits
    <2> QED
        BY <2>2, <2>3, <2>4, <2>5, <2>6 DEF Finished
<1>4. ASSUME NEW t \in Threads, WriteOverruns(t) PROVE Types'
    BY <1>4, SizesAssumption DEF WriteOverruns
<1>5. ASSUME NEW t \in Threads, AppendSwap(t) \/ AppendWoken(t) PROVE Types'
    <2>1. UNCHANGED <<mem, used, sealed, stopped, poolStopped, destroyed,
                      appended, persisted, covered>>
        BY <1>5 DEF AppendSwap, AppendWoken
    <2>2. pc[t] \in {"slow", "appendwoken"}
        BY <1>5 DEF AppendSwap, AppendWoken, Locked
    <2>3. CASE Swaps(t, "retry") /\ UNCHANGED <<cur, msg>>
               /\ late' \in {late, [late EXCEPT ![t] = FALSE]}
        <3>1. /\ PoolTypes' /\ UNCHANGED <<dpc, dbuf, scrub>>
              /\ \E p \in {"retry", "inline", "thrown"} : pc' = [pc EXCEPT ![t] = p]
            BY <2>3, SwapTypes
        <3> QED
            BY <2>1, <2>2, <2>3, <3>1, ZenonT(40) DEF PoolTypes
    <2>4. CASE ReturnFalse(t)
        BY <2>1, <2>4 DEF ReturnFalse, NoBuffer, Finished
    <2>5. CASE pc' = [pc EXCEPT ![t] = "appendwait"] /\ NoBuffer /\ UNCHANGED locals
        BY <2>1, <2>2, <2>5 DEF NoBuffer
    <2> QED
        BY <1>5, <2>3, <2>4, <2>5 DEF AppendSwap, AppendWoken, Swaps
<1>6. ASSUME NEW t \in Threads, FlushSwap(t) \/ FlushWoken(t) PROVE Types'
    <2>1. UNCHANGED <<mem, used, sealed, stopped, cur, msg, late, poolStopped, destroyed,
                      appended, persisted>>
        BY <1>6 DEF FlushSwap, FlushWoken
    <2>2. covered' \in [Threads -> SUBSET Records]
        <3>1. {appended[i] : i \in DOMAIN appended} \subseteq Records
            BY LenProperties
        <3> QED
            BY <1>6, <3>1 DEF FlushSwap, FlushWoken
    <2>3. CASE Swaps(t, "flushing")
        <3>1. /\ PoolTypes' /\ UNCHANGED <<dpc, dbuf, scrub>>
              /\ \E p \in {"flushing", "inline", "thrown"} : pc' = [pc EXCEPT ![t] = p]
            BY <2>3, SwapTypes
        <3> QED
            BY <2>1, <2>2, <3>1 DEF PoolTypes
    <2>4. CASE NoBuffer /\ \E p \in {"flushing", "flushwait"} : pc' = [pc EXCEPT ![t] = p]
        BY <2>1, <2>2, <2>4 DEF NoBuffer
    <2> QED
        BY <1>6, <2>3, <2>4 DEF FlushSwap, FlushWoken, Swaps
<1>7. ASSUME NEW t \in Threads, FlushSleeps(t) \/ FlushReturns(t) PROVE Types'
    BY <1>7, ZenonT(40) DEF FlushSleeps, FlushReturns
<1>19. ASSUME NEW t \in Threads, Leaves(t) PROVE Types'
    BY <1>19, ZenonT(40) DEF Leaves, Finished
<1>8. CASE Destroy \/ StopPool
    BY <1>8 DEF Destroy, StopPool
<1>9. CASE DrainStart
    <2>1. Head(queue) \in Buffers /\ Tail(queue) \in Seq(Buffers)
        BY <1>9, TailSet DEF DrainStart
    <2> QED
        BY <1>9, <2>1 DEF DrainStart
<1>10. ASSUME Draining PROVE dbuf \in Buffers
    BY <1>10, SizesAssumption DEF Accounting, Places, InDrain, Buffers
<1>11. CASE Persist
    <2>1. Draining
        BY <1>11 DEF Persist, Draining
    <2>2. \A i \in 1 .. FrameCount(dbuf) : mem[dbuf][i] \in Records
        <3>1. /\ dbuf \in Buffers
              /\ Used(dbuf) \in 0 .. Cap /\ FrameCount(dbuf) \in 0 .. Used(dbuf)
              /\ \A i \in 1 .. FrameCount(dbuf) : mem[dbuf][i] # Empty
            BY <1>10, <2>1, FrameCountFits
        <3>2. \A i \in 1 .. FrameCount(dbuf) : i \in 1 .. Cap
            BY <3>1, SizesAssumption
        <3>3. \A i \in 1 .. Cap : mem[dbuf][i] \in Records \cup {Empty}
            <4>1. mem[dbuf] \in [1 .. Cap -> Records \cup {Empty}]
                BY <3>1, ZenonT(40)
            <4> QED
                BY <4>1, ZenonT(40)
        <3> QED
            BY <3>1, <3>2, <3>3
    <2>3. SubSeq(mem[dbuf], 1, FrameCount(dbuf)) \in Seq(Records)
        <3>1. FrameCount(dbuf) \in Int
            BY <1>10, <2>1, FrameCountFits
        <3> QED
            BY <2>2, <3>1, SubSeqProperties
    <2>4. persisted' \in Seq(Records)
        BY <1>11, <2>3, ConcatProperties DEF Persist
    <2> QED
        BY <1>11, <2>4 DEF Persist
<1>12. CASE Sealed
    BY <1>12 DEF Sealed
<1>13. CASE Unseal
    <2>1. Used(dbuf) \in 0 .. Cap
        BY <1>10, <1>13, FrameCountFits DEF Unseal, Draining
    <2> QED
        <3>1. scrub' \in 0 .. Cap /\ dpc' = "scrub"
            BY <1>13, <2>1 DEF Unseal
        <3>2. used' \in [Buffers -> 0 .. Cap + 1] /\ sealed' \in [Buffers -> BOOLEAN]
            <4>1. 0 \in 0 .. Cap + 1
                BY SizesAssumption
            <4>2. used' = [used EXCEPT ![dbuf] = 0] /\ sealed' = [sealed EXCEPT ![dbuf] = FALSE]
                BY <1>13 DEF Unseal
            <4>3. used' \in [Buffers -> 0 .. Cap + 1]
                BY <4>1, <4>2
            <4>4. sealed' \in [Buffers -> BOOLEAN]
                BY <4>2
            <4> QED
                BY <4>3, <4>4
        <3> QED
            BY <1>13, <3>1, <3>2 DEF Unseal
<1>14. CASE Scrub
    BY <1>14 DEF Scrub
<1>15. CASE GiveBack
    <2>1. free' \in Seq(Buffers)
        BY <1>10, <1>15, AppendSet DEF GiveBack, Draining
    <2>2. /\ pc' \in [Threads -> {pc[u] : u \in Threads} \cup {"appendwoken", "flushwoken"}]
          /\ \A u \in Threads : pc'[u] \in InAppend => pc[u] \in InAppend
        BY <1>15 DEF GiveBack, WaitingFree, Woken
    <2> QED
        BY <1>15, <2>1, <2>2 DEF GiveBack
<1>16. CASE CountDown
    <2>1. inflight' \in Nat
        BY <1>16 DEF CountDown, Accounting, Counted
    <2> QED
        BY <1>16, <2>1 DEF CountDown
<1>17. CASE NotifyFlush
    BY <1>17 DEF NotifyFlush, WaitingFlush
<1>18. CASE UNCHANGED vars
    BY <1>18 DEF vars
<1> QED
    BY <1>1, <1>2, <1>3, <1>4, <1>5, <1>6, <1>7, <1>8, <1>9, <1>11, <1>12, <1>13, <1>14,
       <1>15, <1>16, <1>17, <1>18, <1>19
       DEF Next, Continue, FlushCall, DestroyCall, DrainStep, Threads

-----------------------------------------------------------------------------
(* The places of the buffers.                                                *)

LEMMA AccountingInit == Init => Accounting
<1> SUFFICES ASSUME Init PROVE Accounting
    OBVIOUS
<1>1. free = [i \in 1 .. MinBuffers - 1 |-> i + 1] /\ queue = << >> /\ master = 1
      /\ size = MinBuffers /\ dpc = "idle" /\ inflight = 0
    BY DEF Init
<1>2. ToSet(queue) = {} /\ IsInjective(queue) /\ Len(queue) = 0
    BY <1>1 DEF ToSet, IsInjective
<1>3. InDrain = {} /\ ~Draining
    BY <1>1 DEF InDrain, Draining
<1>4. IsInjective(free)
    BY <1>1, SizesAssumption DEF IsInjective
<1>5. ToSet(free) = 2 .. MinBuffers
    <2>1. ASSUME NEW b \in 2 .. MinBuffers PROVE b \in ToSet(free)
        <3>1. b - 1 \in DOMAIN free /\ free[b - 1] = b
            BY <1>1, SizesAssumption
        <3> QED
            BY <3>1 DEF ToSet
    <2>2. ASSUME NEW b \in ToSet(free) PROVE b \in 2 .. MinBuffers
        BY <1>1, SizesAssumption DEF ToSet
    <2> QED
        BY <2>1, <2>2
<1>6. Places
    BY <1>1, <1>2, <1>3, <1>4, <1>5, SizesAssumption DEF Places
<1>7. Counted
    BY <1>1, <1>2, <1>3 DEF Counted
<1>8. SealedInDrain
    BY DEF Init, SealedInDrain
<1> QED
    BY <1>6, <1>7, <1>8 DEF Accounting

\* The new master was spare or did not exist, and the old one is queued once.
LEMMA SwapKeepsPlaces ==
    ASSUME Types, Places, Counted, NEW t \in Threads, NEW next \in {"retry", "flushing"},
           Swaps(t, next)
    PROVE  Places' /\ Counted'
<1> USE DEF Types, TypeOK
<1>1. UNCHANGED <<dpc, dbuf>> /\ InDrain' = InDrain /\ Draining' = Draining
    BY SwapTypes DEF InDrain, Draining
<1>2. queue' = Append(queue, master) /\ inflight' = inflight + 1
    BY DEF Swaps, FromFree, FromNew, SwapTo
<1>3. /\ Len(queue') = Len(queue) + 1
      /\ ToSet(queue') = ToSet(queue) \cup {master}
      /\ IsInjective(queue')
    BY <1>2, AppendSet DEF Places
<1>4. Counted'
    BY <1>1, <1>2, <1>3, LenProperties DEF Counted
<1>5. CASE FromFree(t, next)
    <2>1. free # << >> /\ free' = Tail(free) /\ master' = Head(free) /\ size' = size
        BY <1>5 DEF FromFree, SwapTo
    <2>2. /\ ToSet(free) = ToSet(free') \cup {master'}
          /\ IsInjective(free') /\ master' \notin ToSet(free')
        BY <2>1, TailSet DEF Places
    <2>3. Places'
        BY <1>1, <1>3, <2>1, <2>2, SMTT(30) DEF Places
    <2> QED
        BY <1>4, <2>3
<1>6. CASE FromNew(t, next)
    <2>1. free' = free /\ free = << >> /\ master' = size + 1 /\ size' = size + 1
        BY <1>6 DEF FromNew, SwapTo
    <2>2. size + 1 \notin 1 .. size /\ 1 .. size + 1 = (1 .. size) \cup {size + 1}
        <3>1. size \in Nat
            BY SizesAssumption
        <3> HIDE DEF Types, TypeOK
        <3> QED
            BY <3>1
    <2>3. ToSet(free) = {}
        BY <2>1 DEF ToSet
    <2>4. Places'
        BY <1>1, <1>3, <2>1, <2>2, <2>3 DEF Places
    <2> QED
        BY <1>4, <2>4
<1> QED
    BY <1>5, <1>6 DEF Swaps

LEMMA AccountingStep == Types /\ Accounting /\ [Next]_vars => Accounting'
<1> SUFFICES ASSUME Types, Accounting, [Next]_vars PROVE Accounting'
    OBVIOUS
<1> USE DEF Types, TypeOK, bufs, drain
\* What touches no place, count or seal.
<1>1. ASSUME UNCHANGED <<free, queue, master, size, dpc, dbuf, inflight, sealed>>
      PROVE  Accounting'
    BY <1>1 DEF Accounting, Places, Counted, SealedInDrain, InDrain, Draining
<1>2. ASSUME NEW t \in Threads, NEW next \in {"retry", "flushing"}, Swaps(t, next),
             UNCHANGED bufs
      PROVE  Accounting'
    <2>1. Places' /\ Counted'
        BY <1>2, SwapKeepsPlaces DEF Accounting
    <2>2. UNCHANGED <<sealed, dpc, dbuf>>
        BY <1>2, SwapTypes
    <2>3. SealedInDrain'
        BY <2>2 DEF Accounting, SealedInDrain
    <2> QED
        BY <2>1, <2>3 DEF Accounting
<1>3. ASSUME NEW t \in Threads, AppendCall(t) \/ Reload(t) \/ Enter(t) \/ WriteFits(t)
             \/ WriteOverruns(t) \/ AlreadySwapped(t) \/ Timeout(t)
      PROVE  Accounting'
    BY <1>1, <1>3 DEF AppendCall, Reload, Enter, WriteFits, WriteOverruns, AlreadySwapped,
                      Timeout
<1>4. ASSUME NEW t \in Threads, AppendSwap(t) \/ AppendWoken(t) PROVE Accounting'
    <2>1. UNCHANGED bufs /\ (Swaps(t, "retry") \/ NoBuffer)
        BY <1>4 DEF AppendSwap, AppendWoken, Swaps, ReturnFalse
    <2> QED
        BY <1>1, <1>2, <2>1 DEF NoBuffer
<1>5. ASSUME NEW t \in Threads, FlushSwap(t) \/ FlushWoken(t) PROVE Accounting'
    <2>1. UNCHANGED bufs /\ (Swaps(t, "flushing") \/ NoBuffer)
        BY <1>5 DEF FlushSwap, FlushWoken, Swaps
    <2> QED
        BY <1>1, <1>2, <2>1 DEF NoBuffer
<1>6. ASSUME NEW t \in Threads, FlushSleeps(t) \/ FlushReturns(t) \/ Leaves(t)
      PROVE  Accounting'
    BY <1>1, <1>6 DEF FlushSleeps, FlushReturns, Leaves
<1>7. CASE Destroy \/ StopPool
    BY <1>1, <1>7 DEF Destroy, StopPool
<1>8. CASE DrainStart
    <2>1. /\ dpc = "idle" /\ dpc' = "sealing" /\ dbuf' = Head(queue) /\ queue # << >>
          /\ queue' = Tail(queue) /\ sealed' = [sealed EXCEPT ![Head(queue)] = TRUE]
          /\ UNCHANGED <<free, master, size, inflight>>
        BY <1>8 DEF DrainStart
    <2>2. /\ ToSet(queue) = ToSet(queue') \cup {dbuf'} /\ IsInjective(queue')
          /\ dbuf' \notin ToSet(queue') /\ Len(queue') = Len(queue) - 1
        BY <2>1, TailSet DEF Accounting, Places
    <2>3. ~Draining /\ InDrain = {} /\ Draining' /\ InDrain' = {dbuf'}
        BY <2>1 DEF InDrain, Draining
    <2>4. Places'
        BY <2>1, <2>2, <2>3 DEF Accounting, Places
    <2>5. Counted'
        BY <2>1, <2>2, <2>3, LenProperties DEF Accounting, Counted
    <2>6. SealedInDrain'
        BY <2>1, <2>3 DEF Accounting, SealedInDrain
    <2> QED
        BY <2>4, <2>5, <2>6 DEF Accounting
<1>9. CASE Sealed \/ Persist \/ Scrub
    <2>1. Draining /\ Draining' /\ UNCHANGED <<free, queue, master, size, dbuf, inflight, sealed>>
          /\ dpc # "count" /\ dpc' # "count"
          /\ (dpc \in {"sealing", "walk", "reset"} => dpc' \in {"sealing", "walk", "reset"})
        BY <1>9 DEF Sealed, Persist, Scrub, Draining
    <2> QED
        BY <2>1 DEF Accounting, Places, Counted, SealedInDrain, InDrain
<1>10. CASE Unseal
    <2>1. Draining /\ Draining' /\ UNCHANGED <<free, queue, master, size, dbuf, inflight>>
          /\ dpc # "count" /\ dpc' # "count" /\ sealed' = [sealed EXCEPT ![dbuf] = FALSE]
        BY <1>10 DEF Unseal, Draining
    <2> QED
        BY <2>1 DEF Accounting, Places, Counted, SealedInDrain, InDrain
<1>11. CASE GiveBack
    <2>1. /\ dpc = "return" /\ dpc' = "count" /\ free' = Append(free, dbuf)
          /\ UNCHANGED <<queue, master, size, inflight, sealed>>
        BY <1>11 DEF GiveBack
    <2>2. Draining /\ ~Draining' /\ InDrain = {dbuf} /\ InDrain' = {}
        BY <2>1 DEF InDrain, Draining
    <2>3. dbuf \in Buffers /\ dbuf \notin ToSet(free)
        BY <2>2, SizesAssumption DEF Accounting, Places, Buffers
    <2>4. ToSet(free') = ToSet(free) \cup {dbuf} /\ IsInjective(free')
        BY <2>1, <2>3, AppendSet DEF Accounting, Places
    <2>5. Places'
        BY <2>1, <2>2, <2>4 DEF Accounting, Places
    <2>6. Counted'
        BY <2>1, <2>2 DEF Accounting, Counted
    <2>7. SealedInDrain'
        <3>1. \A b \in Buffers : ~sealed[b]
            BY <2>1 DEF Accounting, SealedInDrain
        <3> QED
            BY <2>1, <3>1 DEF SealedInDrain
    <2> QED
        BY <2>5, <2>6, <2>7 DEF Accounting
<1>12. CASE CountDown
    <2>1. /\ ~Draining /\ ~Draining' /\ dpc = "count" /\ dpc' # "count"
          /\ inflight' = inflight - 1
          /\ UNCHANGED <<free, queue, master, size, sealed>>
        BY <1>12 DEF CountDown, Draining
    <2> QED
        BY <2>1, LenProperties DEF Accounting, Places, Counted, SealedInDrain, InDrain
<1>13. CASE NotifyFlush
    <2>1. /\ ~Draining /\ ~Draining' /\ dpc = "notify" /\ dpc' # "count"
          /\ UNCHANGED <<free, queue, master, size, inflight, sealed>>
        BY <1>13 DEF NotifyFlush, Draining
    <2> QED
        BY <2>1 DEF Accounting, Places, Counted, SealedInDrain, InDrain
<1>14. CASE UNCHANGED vars
    BY <1>1, <1>14 DEF vars
<1> QED
    BY <1>3, <1>4, <1>5, <1>6, <1>7, <1>8, <1>9, <1>10, <1>11, <1>12, <1>13, <1>14
       DEF Next, Continue, FlushCall, DestroyCall, DrainStep, Threads

\* Accounting is BufferAccounting, with the concatenation taken apart.
LEMMA AccountingImplies == Types /\ Accounting => BufferAccounting
<1> SUFFICES ASSUME Types, Accounting PROVE BufferAccounting
    OBVIOUS
<1> USE DEF Types, TypeOK
<1> DEFINE D  == IF Draining THEN <<dbuf>> ELSE << >>
           M  == <<master>>
           P1 == M \o free
           P2 == P1 \o queue
           P  == P2 \o D
<1>1. D \in Seq(Buffers) /\ ToSet(D) = InDrain /\ IsInjective(D)
    <2>1. CASE Draining
        <3>1. D = <<dbuf>> /\ dbuf \in Buffers
            BY <2>1, SizesAssumption DEF Accounting, Places, InDrain, Buffers
        <3> QED
            BY <2>1, <3>1 DEF ToSet, IsInjective, InDrain
    <2>2. CASE ~Draining
        <3>1. D = << >>
            BY <2>2
        <3> QED
            BY <2>2, <3>1 DEF ToSet, IsInjective, InDrain
    <2> QED
        BY <2>1, <2>2
<1>2. M \in Seq(Buffers) /\ ToSet(M) = {master} /\ IsInjective(M)
    BY DEF ToSet, IsInjective
<1> HIDE DEF D, M
<1>3. /\ P1 \in Seq(Buffers) /\ IsInjective(P1)
      /\ ToSet(P1) = {master} \cup ToSet(free)
    <2>1. ToSet(M) \cap ToSet(free) = {} /\ IsInjective(free) /\ free \in Seq(Buffers)
        BY <1>2 DEF Accounting, Places
    <2> QED
        BY <1>2, <2>1, ConcatSet
<1> HIDE DEF P1
<1>4. /\ P2 \in Seq(Buffers) /\ IsInjective(P2)
      /\ ToSet(P2) = {master} \cup ToSet(free) \cup ToSet(queue)
    <2>1. ToSet(P1) \cap ToSet(queue) = {} /\ IsInjective(queue) /\ queue \in Seq(Buffers)
        BY <1>3 DEF Accounting, Places
    <2> QED
        BY <1>3, <2>1, ConcatSet
<1> HIDE DEF P2
<1>5. IsInjective(P) /\ ToSet(P) = {master} \cup ToSet(free) \cup ToSet(queue) \cup InDrain
    <2>1. ToSet(P2) \cap ToSet(D) = {}
        BY <1>1, <1>4 DEF Accounting, Places
    <2> QED
        BY <1>1, <1>4, <2>1, ConcatSet
<1>6. ToSet(P) = 1 .. size
    BY <1>5 DEF Accounting, Places
<1>7. \A b \in Buffers : sealed[b] => Draining /\ dbuf = b
    BY DEF Accounting, SealedInDrain, Draining
<1> QED
    BY <1>5, <1>6, <1>7 DEF BufferAccounting, Accounting, Counted, P, P2, P1, M, D

-----------------------------------------------------------------------------
(* Who waits for a buffer, and when Append gives up.                         *)

LEMMA WaitsStep == Types /\ WaitsWhenFull /\ [Next]_vars => WaitsWhenFull'
<1> SUFFICES ASSUME Types, WaitsWhenFull, [Next]_vars PROVE WaitsWhenFull'
    OBVIOUS
<1> USE DEF Types, TypeOK, WaitsWhenFull, bufs, drain
\* The pool does not shrink, so it is enough that nobody new waits.
<1>1. ASSUME size' \in size .. MaxBuffers,
             \A u \in Threads : pc'[u] \in {"appendwait", "appendwoken"} =>
                 pc[u] \in {"appendwait", "appendwoken"} \/ size = MaxBuffers
      PROVE  WaitsWhenFull'
    BY <1>1, SizesAssumption
<1>2. ASSUME NEW t \in Threads, NEW next \in {"retry", "flushing"}, Swaps(t, next)
      PROVE  WaitsWhenFull'
    <2>1. size' \in size .. MaxBuffers
        BY <1>2, SizesAssumption, SMTT(30) DEF Swaps, FromFree, FromNew
    <2>2. PICK p \in {next, "inline", "thrown"} : pc' = [pc EXCEPT ![t] = p]
        BY <1>2, SwapTypes
    <2> QED
        BY <1>1, <2>1, <2>2
<1>3. ASSUME NEW t \in Threads, size' = size,
             NEW p, p \notin {"appendwait", "appendwoken"}, pc' = [pc EXCEPT ![t] = p]
      PROVE  WaitsWhenFull'
    BY <1>3
<1>4. ASSUME NEW t \in Threads, AppendCall(t) \/ Reload(t) \/ Enter(t) \/ WriteFits(t)
             \/ WriteOverruns(t) \/ AlreadySwapped(t)
      PROVE  WaitsWhenFull'
    BY <1>4 DEF AppendCall, Reload, Enter, WriteFits, WriteOverruns, AlreadySwapped, Finished
<1>5. ASSUME NEW t \in Threads, Timeout(t) PROVE WaitsWhenFull'
    BY <1>5 DEF Timeout
<1>6. ASSUME NEW t \in Threads, AppendSwap(t) \/ AppendWoken(t) PROVE WaitsWhenFull'
    <2>1. CASE Swaps(t, "retry")
        BY <1>2, <2>1
    <2>2. CASE ReturnFalse(t)
        BY <2>2 DEF ReturnFalse, NoBuffer, Finished
    <2>3. CASE pc' = [pc EXCEPT ![t] = "appendwait"] /\ NoBuffer /\ AppendSwap(t) /\ PoolIsFull
        <3>1. size = MaxBuffers
            BY <2>3, SizesAssumption DEF PoolIsFull
        <3> QED
            BY <2>3, <3>1 DEF NoBuffer
    <2>4. CASE pc' = [pc EXCEPT ![t] = "appendwait"] /\ NoBuffer /\ AppendWoken(t)
        BY <2>4 DEF NoBuffer, AppendWoken, Locked
    <2> QED
        BY <1>6, <2>1, <2>2, <2>3, <2>4 DEF AppendSwap, AppendWoken, Swaps
<1>7. ASSUME NEW t \in Threads, FlushSwap(t) \/ FlushWoken(t) PROVE WaitsWhenFull'
    <2>1. \/ Swaps(t, "flushing")
          \/ NoBuffer /\ \E p \in {"flushing", "flushwait"} : pc' = [pc EXCEPT ![t] = p]
        BY <1>7 DEF FlushSwap, FlushWoken, Swaps
    <2> QED
        BY <1>2, <1>3, <2>1 DEF NoBuffer
<1>8. ASSUME NEW t \in Threads, FlushSleeps(t) \/ FlushReturns(t) \/ Leaves(t)
      PROVE  WaitsWhenFull'
    BY <1>8 DEF FlushSleeps, FlushReturns, Leaves, Finished
<1>9. CASE Destroy \/ StopPool
    BY <1>9 DEF Destroy, StopPool
<1>10. CASE DrainStart \/ Sealed \/ Persist \/ Unseal \/ Scrub \/ CountDown
    BY <1>10 DEF DrainStart, Sealed, Persist, Unseal, Scrub, CountDown
<1>11. CASE GiveBack
    BY <1>11 DEF GiveBack, WaitingFree, Woken
<1>12. CASE NotifyFlush
    BY <1>12 DEF NotifyFlush
<1>13. CASE UNCHANGED vars
    BY <1>13 DEF vars
<1> QED
    BY <1>4, <1>5, <1>6, <1>7, <1>8, <1>9, <1>10, <1>11, <1>12, <1>13
       DEF Next, Continue, FlushCall, DestroyCall, DrainStep, Threads

-----------------------------------------------------------------------------
(* No record twice.                                                          *)

LEMMA FreshInit == Init => Fresh
<1> SUFFICES ASSUME Init PROVE Fresh
    OBVIOUS
<1>1. ToSet(persisted) = {} /\ ToSet(appended) = {} /\ IsInjective(persisted)
    BY DEF Init, ToSet, IsInjective
<1>2. \A b \in Buffers : \A i \in 1 .. Cap : mem[b][i] = Empty
    BY DEF Init
<1>3. \A t \in Threads : msg[t] = Empty
    BY DEF Init
<1> QED
    BY <1>1, <1>2, <1>3 DEF Fresh, TailZero, InHand, Cells, AtMostOnce

\* What Fresh is about stays as it is, or an Append gives its record up.
LEMMA FreshQuiet ==
    ASSUME Types, Fresh, NEW t \in Threads,
           UNCHANGED <<mem, used, appended, persisted, dpc, dbuf, scrub>>,
           msg' \in {msg, [msg EXCEPT ![t] = Empty]}
    PROVE  Fresh'
<1> USE DEF Fresh
<1>1. TailZero'
    BY DEF TailZero
<1>2. InHand'
    BY DEF InHand, Types, TypeOK
<1>3. Cells'
    BY DEF Cells, Pending
<1>4. AtMostOnce'
    BY DEF AtMostOnce
<1> QED
    BY <1>1, <1>2, <1>3, <1>4

\* The record of a new call is in nobody's hands and has not been accepted.
LEMMA FreshAppendCall ==
    ASSUME Types, Fresh, NEW t \in Threads, AppendCall(t)
    PROVE  Fresh'
<1> USE DEF Types, TypeOK
<1>1. PICK m \in Records : /\ msg' = [msg EXCEPT ![t] = m]
                          /\ m \notin ToSet(appended) /\ \A u \in Threads : msg[u] # m
    <2>1. PICK m \in Unused : msg' = [msg EXCEPT ![t] = m]
        BY DEF AppendCall
    <2>2. /\ m \in Records /\ m \notin {appended[i] : i \in DOMAIN appended}
          /\ m \notin {msg[u] : u \in Threads}
        BY DEF Unused
    <2>3. m \notin ToSet(appended) /\ \A u \in Threads : msg[u] # m
        BY <2>2 DEF ToSet
    <2> QED
        BY <2>1, <2>2, <2>3
<1>2. UNCHANGED <<mem, used, appended, persisted, dpc, dbuf, scrub>>
    BY DEF AppendCall, bufs, drain, ghosts
<1>3. InHand'
    BY <1>1, <1>2 DEF Fresh, InHand
<1> QED
    BY <1>2, <1>3 DEF Fresh, TailZero, Cells, Pending, AtMostOnce

\* The cell is behind the mark, and no other cell has this record.
LEMMA FreshWriteFits ==
    ASSUME Types, Fresh, NEW t \in Threads, WriteFits(t)
    PROVE  Fresh'
<1> USE DEF Types, TypeOK
<1> DEFINE c == cur[t]
           k == used[c] + 1
           m == msg[t]
<1>1. /\ m \in Records /\ c \in Buffers /\ k \in 1 .. Cap /\ used[c] = k - 1
    <2>1. m \in Records /\ c \in Buffers /\ used[c] < Cap
        BY DEF WriteFits, InAppend
    <2>2. used[c] \in Nat
        BY <2>1, SizesAssumption
    <2> QED
        BY <2>1, <2>2, SizesAssumption
<1>2. /\ used' = [used EXCEPT ![c] = k]
      /\ mem' = [mem EXCEPT ![c] = [mem[c] EXCEPT ![k] = m]]
      /\ msg' = [msg EXCEPT ![t] = Empty]
      /\ UNCHANGED <<persisted, dpc, dbuf, scrub>>
    BY DEF WriteFits, Finished, drain
<1>3. appended' = Append(appended, m)
    BY DEF WriteFits
<1>4. ToSet(appended') = ToSet(appended) \cup {m}
    BY <1>1, <1>3, AppendSet
<1>5. m # Empty /\ m \notin ToSet(appended) /\ m \notin ToSet(persisted)
    BY <1>1, EmptyAssumption DEF Fresh, InHand, AtMostOnce
<1> HIDE DEF c, k, m
<1>6. \A b \in Buffers : \A i \in 1 .. Cap :
        mem'[b][i] = IF b = c /\ i = k THEN m ELSE mem[b][i]
    BY <1>1, <1>2
<1>7. TailZero'
    <2> SUFFICES ASSUME NEW b \in Buffers, NEW i \in 1 .. Cap, i > used'[b],
                        ~(dpc = "scrub" /\ b = dbuf /\ i <= scrub)
                 PROVE  mem'[b][i] = Empty
        BY <1>2 DEF TailZero
    <2>1. i > used[b] /\ ~(b = c /\ i = k)
        BY <1>1, <1>2
    <2> QED
        BY <1>6, <2>1 DEF Fresh, TailZero
<1>8. InHand'
    BY <1>1, <1>2, <1>4, <1>5 DEF Fresh, InHand, m
<1>9. Cells'
    <2>1. \A b \in Buffers : \A i \in 1 .. Cap : Pending(b, i)' = Pending(b, i)
        BY <1>2 DEF Pending
    <2>2. \A b \in Buffers : \A i \in 1 .. Cap : mem[b][i] # m
        BY <1>5 DEF Fresh, Cells
    <2>3. ASSUME NEW b \in Buffers, NEW i \in 1 .. Cap, mem'[b][i] # Empty
          PROVE  /\ mem'[b][i] \in ToSet(appended')
                 /\ Pending(b, i)' => mem'[b][i] \notin ToSet(persisted')
        BY <1>2, <1>4, <1>5, <1>6, <2>1, <2>3 DEF Fresh, Cells
    <2>4. ASSUME NEW b \in Buffers, NEW d \in Buffers, NEW i \in 1 .. Cap, NEW j \in 1 .. Cap,
                 mem'[b][i] # Empty, mem'[b][i] = mem'[d][j], Pending(b, i)', Pending(d, j)'
          PROVE  b = d /\ i = j
        <3>1. CASE b = c /\ i = k
            <4>1. mem'[b][i] = m
                BY <1>6, <3>1
            <4>2. mem'[d][j] = m
                BY <2>4, <4>1
            <4>3. d = c /\ j = k
                BY <1>6, <2>2, <4>2
            <4> QED
                BY <3>1, <4>3
        <3>2. CASE ~(b = c /\ i = k)
            <4>1. mem'[b][i] = mem[b][i]
                BY <1>6, <3>2
            <4>2. mem[b][i] # m
                BY <2>2
            <4>3. mem'[d][j] = mem[d][j]
                BY <1>6, <2>4, <4>1, <4>2
            <4>4. Pending(b, i) /\ Pending(d, j)
                BY <2>1, <2>4
            <4> QED
                BY <2>4, <4>1, <4>3, <4>4 DEF Fresh, Cells
        <3> QED
            BY <3>1, <3>2
    <2> QED
        BY <2>3, <2>4 DEF Cells
<1>10. AtMostOnce'
    BY <1>2, <1>4 DEF Fresh, AtMostOnce
<1> QED
    BY <1>7, <1>8, <1>9, <1>10 DEF Fresh

\* What on_persist gets is pending in the drain's buffer, each record once.
LEMMA FreshPersist ==
    ASSUME Types, Accounting, Fresh, Persist
    PROVE  Fresh'
<1> USE DEF Types, TypeOK
<1> DEFINE n == FrameCount(dbuf)
           new == SubSeq(mem[dbuf], 1, n)
<1>1. dbuf \in Buffers
    BY SizesAssumption DEF Accounting, Places, InDrain, Draining, Buffers, Persist
<1>2. /\ n \in 0 .. Cap
      /\ \A i \in 1 .. n : i \in 1 .. Cap /\ mem[dbuf][i] # Empty
    BY <1>1, FrameCountFits, SizesAssumption
<1>3. /\ dpc = "walk" /\ dpc' = "reset" /\ persisted' = persisted \o new
      /\ UNCHANGED <<mem, used, dbuf, scrub, msg, appended>>
    BY DEF Persist, bufs, locals
<1>4. \A i \in 1 .. n : mem[dbuf][i] \in Records
    <2>1. \A i \in 1 .. Cap : mem[dbuf][i] \in Records \cup {Empty}
        BY <1>1
    <2> QED
        BY <1>2, <2>1
<1> HIDE DEF n
<1>5. /\ new \in Seq(Records) /\ Len(new) = n
      /\ \A i \in 1 .. n : new[i] = mem[dbuf][i]
    <2>1. /\ new \in Seq(Records) /\ Len(new) = IF 1 <= n THEN n - 1 + 1 ELSE 0
          /\ \A i \in 1 .. n - 1 + 1 : new[i] = mem[dbuf][1 + i - 1]
        <3>1. n \in Int /\ 1 \in Int
            BY <1>2
        <3> QED
            BY <1>4, <3>1, SubSeqProperties
    <2> QED
        BY <1>2, <2>1
<1> HIDE DEF new
<1>6. DOMAIN new = 1 .. n
    BY <1>5, LenProperties
<1>7. \A b \in Buffers : \A i \in 1 .. Cap : Pending(b, i)
    BY <1>3 DEF Pending
<1>8. IsInjective(new)
    <2> SUFFICES ASSUME NEW i \in 1 .. n, NEW j \in 1 .. n, new[i] = new[j] PROVE i = j
        BY <1>6 DEF IsInjective
    <2>1. mem[dbuf][i] = mem[dbuf][j] /\ mem[dbuf][i] # Empty /\ i \in 1 .. Cap /\ j \in 1 .. Cap
        BY <1>2, <1>5
    <2>2. Pending(dbuf, i) /\ Pending(dbuf, j)
        BY <1>1, <1>7, <2>1
    <2> QED
        BY <1>1, <2>1, <2>2 DEF Fresh, Cells
<1>9. \A x \in ToSet(new) : x \in ToSet(appended) /\ x \notin ToSet(persisted)
    <2>1. \A i \in 1 .. n : new[i] \in ToSet(appended) /\ new[i] \notin ToSet(persisted)
        BY <1>1, <1>2, <1>5, <1>7 DEF Fresh, Cells
    <2> QED
        BY <1>6, <2>1 DEF ToSet
<1>10. /\ ToSet(persisted') = ToSet(persisted) \cup ToSet(new)
       /\ IsInjective(persisted')
    BY <1>3, <1>5, <1>8, <1>9, ConcatSet DEF Fresh, AtMostOnce
<1>11. AtMostOnce'
    BY <1>3, <1>9, <1>10 DEF Fresh, AtMostOnce
<1>12. TailZero' /\ InHand'
    BY <1>3 DEF Fresh, TailZero, InHand
<1>13. Cells'
    <2>1. ASSUME NEW b \in Buffers, NEW i \in 1 .. Cap, mem[b][i] # Empty, Pending(b, i)'
          PROVE  mem[b][i] \notin ToSet(persisted')
        <3>1. b # dbuf
            BY <1>3, <2>1 DEF Pending
        <3>2. mem[b][i] \notin ToSet(persisted)
            BY <1>7, <2>1 DEF Fresh, Cells
        <3>3. \A j \in 1 .. n : new[j] # mem[b][i]
            BY <1>1, <1>2, <1>5, <1>7, <2>1, <3>1 DEF Fresh, Cells
        <3>4. mem[b][i] \notin ToSet(new)
            BY <1>6, <3>3 DEF ToSet
        <3> QED
            BY <1>10, <3>2, <3>4
    <2> QED
        BY <1>3, <1>7, <2>1 DEF Fresh, Cells
<1> QED
    BY <1>11, <1>12, <1>13 DEF Fresh

\* The cells behind the mark, which the unsealing makes count again, are empty.
LEMMA FreshUnseal ==
    ASSUME Types, Accounting, Fresh, Unseal
    PROVE  Fresh'
<1> USE DEF Types, TypeOK
<1>1. dbuf \in Buffers
    BY SizesAssumption DEF Accounting, Places, InDrain, Draining, Buffers, Unseal
<1>2. /\ dpc = "reset" /\ dpc' = "scrub" /\ scrub' = Used(dbuf)
      /\ used' = [used EXCEPT ![dbuf] = 0]
      /\ UNCHANGED <<mem, dbuf, msg, appended, persisted>>
    BY DEF Unseal, locals, ghosts
<1>3. \A i \in 1 .. Cap : i > Used(dbuf) => mem[dbuf][i] = Empty
    <2> SUFFICES ASSUME NEW i \in 1 .. Cap, i > Used(dbuf) PROVE mem[dbuf][i] = Empty
        OBVIOUS
    <2>1. used[dbuf] \in 0 .. Cap + 1
        BY <1>1
    <2>2. i > used[dbuf]
        BY <2>1, SizesAssumption DEF Used
    <2> QED
        BY <1>1, <1>2, <2>2 DEF Fresh, TailZero
<1>4. TailZero'
    <2> SUFFICES ASSUME NEW b \in Buffers, NEW i \in 1 .. Cap, i > used'[b],
                        ~(b = dbuf /\ i <= Used(dbuf))
                 PROVE  mem[b][i] = Empty
        BY <1>2 DEF TailZero
    <2>1. CASE b = dbuf
        <3>1. i > Used(dbuf)
            BY <1>1, <2>1, FrameCountFits, SizesAssumption
        <3> QED
            BY <1>3, <2>1, <3>1
    <2>2. CASE b # dbuf
        <3>1. i > used[b]
            BY <1>2, <2>2
        <3> QED
            BY <1>2, <2>2, <3>1 DEF Fresh, TailZero
    <2> QED
        BY <2>1, <2>2
<1>5. \A b \in Buffers : \A i \in 1 .. Cap :
        mem[b][i] # Empty /\ Pending(b, i)' => Pending(b, i)
    <2> SUFFICES ASSUME NEW b \in Buffers, NEW i \in 1 .. Cap,
                        mem[b][i] # Empty, Pending(b, i)', b = dbuf
                 PROVE  FALSE
        BY <1>2 DEF Pending
    <2>1. ~(i <= Used(dbuf))
        BY <1>2 DEF Pending
    <2>2. i > Used(dbuf)
        BY <1>1, <2>1, FrameCountFits, SizesAssumption
    <2> QED
        BY <1>3, <2>2
<1>6. Cells'
    BY <1>2, <1>5 DEF Fresh, Cells
<1> QED
    BY <1>2, <1>4, <1>6 DEF Fresh, InHand, AtMostOnce

\* Once scrubbed, every cell counts: those up to the old mark are empty.
LEMMA FreshScrub ==
    ASSUME Types, Accounting, Fresh, Scrub
    PROVE  Fresh'
<1> USE DEF Types, TypeOK
<1>1. /\ dpc = "scrub" /\ dpc' = "return"
      /\ UNCHANGED <<used, dbuf, scrub, msg, appended, persisted>>
    BY DEF Scrub, locals, ghosts
<1>2. \A b \in Buffers : \A i \in 1 .. Cap :
        mem'[b][i] = IF b = dbuf /\ i <= scrub THEN Empty ELSE mem[b][i]
    BY DEF Scrub
<1>3. TailZero'
    BY <1>1, <1>2 DEF Fresh, TailZero
<1>4. \A b \in Buffers : \A i \in 1 .. Cap :
        mem'[b][i] # Empty => mem'[b][i] = mem[b][i] /\ Pending(b, i)
    BY <1>1, <1>2 DEF Pending
<1>5. Cells'
    <2>1. ASSUME NEW b \in Buffers, NEW i \in 1 .. Cap, mem'[b][i] # Empty
          PROVE  mem'[b][i] \in ToSet(appended) /\ mem'[b][i] \notin ToSet(persisted)
        BY <1>4, <2>1 DEF Fresh, Cells
    <2>2. ASSUME NEW b \in Buffers, NEW c \in Buffers, NEW i \in 1 .. Cap, NEW j \in 1 .. Cap,
                 mem'[b][i] # Empty, mem'[b][i] = mem'[c][j]
          PROVE  b = c /\ i = j
        <3>1. /\ mem[b][i] = mem[c][j] /\ mem[b][i] # Empty
              /\ Pending(b, i) /\ Pending(c, j)
            BY <1>4, <2>2
        <3> QED
            BY <3>1 DEF Fresh, Cells
    <2> QED
        BY <1>1, <2>1, <2>2, SMTT(30) DEF Cells
<1> QED
    BY <1>1, <1>3, <1>5 DEF Fresh, InHand, AtMostOnce

LEMMA FreshStep == Types /\ Accounting /\ Fresh /\ [Next]_vars => Fresh'
<1> SUFFICES ASSUME Types, Accounting, Fresh, [Next]_vars PROVE Fresh'
    OBVIOUS
<1> USE DEF bufs, drain, locals, ghosts
\* The drain moves on without touching a cell.
<1>1. ASSUME dpc \notin {"reset", "scrub"}, dpc' \notin {"reset", "scrub"},
             UNCHANGED <<mem, used, msg, appended, persisted>>
      PROVE  Fresh'
    BY <1>1 DEF Fresh, TailZero, InHand, Cells, Pending, AtMostOnce
<1>2. ASSUME NEW t \in Threads, Reload(t) \/ Enter(t) \/ AlreadySwapped(t) \/ Timeout(t)
             \/ FlushSleeps(t) \/ FlushReturns(t) \/ Leaves(t)
      PROVE  Fresh'
    BY <1>2, FreshQuiet
       DEF Reload, Enter, AlreadySwapped, Timeout, FlushSleeps, FlushReturns, Leaves, Finished
<1>3. ASSUME NEW t \in Threads, WriteOverruns(t) PROVE Fresh'
    <2>1. /\ UNCHANGED <<mem, msg, appended, persisted, dpc, dbuf, scrub>>
          /\ used' = [used EXCEPT ![cur[t]] = Cap + 1]
        BY <1>3 DEF WriteOverruns
    <2>2. \A b \in Buffers : \A i \in 1 .. Cap : i > used'[b] => i > used[b]
        BY <2>1, SizesAssumption DEF Types, TypeOK
    <2> QED
        BY <2>1, <2>2 DEF Fresh, TailZero, InHand, Cells, Pending, AtMostOnce
<1>4. ASSUME NEW t \in Threads, AppendSwap(t) \/ AppendWoken(t) PROVE Fresh'
    <2>1. UNCHANGED <<mem, used, appended, persisted>>
        BY <1>4 DEF AppendSwap, AppendWoken
    <2>2. CASE Swaps(t, "retry") /\ UNCHANGED <<cur, msg>>
        <3>1. UNCHANGED <<dpc, dbuf, scrub>>
            BY <2>2, SwapTypes
        <3> QED
            BY <2>1, <2>2, <3>1, FreshQuiet
    <2>3. CASE ReturnFalse(t)
        BY <2>1, <2>3, FreshQuiet DEF ReturnFalse, NoBuffer, Finished
    <2>4. CASE NoBuffer /\ UNCHANGED locals
        BY <2>1, <2>4, FreshQuiet DEF NoBuffer
    <2> QED
        BY <1>4, <2>2, <2>3, <2>4 DEF AppendSwap, AppendWoken, Swaps
<1>5. ASSUME NEW t \in Threads, FlushSwap(t) \/ FlushWoken(t) PROVE Fresh'
    <2>1. UNCHANGED <<mem, used, msg, appended, persisted>>
        BY <1>5 DEF FlushSwap, FlushWoken
    <2>2. Swaps(t, "flushing") \/ NoBuffer
        BY <1>5 DEF FlushSwap, FlushWoken, Swaps
    <2>3. UNCHANGED <<dpc, dbuf, scrub>>
        BY <2>2, SwapTypes DEF NoBuffer
    <2> QED
        BY <2>1, <2>3, FreshQuiet
<1>6. CASE Destroy \/ StopPool \/ UNCHANGED vars
    <2>1. Owner \in Threads
        BY DEF Threads
    <2> QED
        BY <1>6, <2>1, FreshQuiet DEF Destroy, StopPool, vars
<1>7. CASE DrainStart \/ Sealed \/ GiveBack \/ CountDown \/ NotifyFlush
    BY <1>1, <1>7 DEF DrainStart, Sealed, GiveBack, CountDown, NotifyFlush
<1> QED
    BY <1>2, <1>3, <1>4, <1>5, <1>6, <1>7, FreshAppendCall, FreshWriteFits, FreshPersist,
       FreshUnseal, FreshScrub
       DEF Next, Continue, FlushCall, DestroyCall, DrainStep, Threads

-----------------------------------------------------------------------------
LEMMA InvInit == Init => Inv
    BY TypeInit, AccountingInit, FreshInit DEF Inv, WaitsWhenFull, Init

LEMMA InvStep == Inv /\ [Next]_vars => Inv'
    BY TypeStep, AccountingStep, WaitsStep, FreshStep DEF Inv

LEMMA InvAlways == Spec => []Inv
    BY InvInit, InvStep, PTL DEF Spec

\* Every variable keeps its type (mmap_store.h:79-92), in_flight_ in particular:
\* it never goes below zero.
THEOREM TypeCorrect == Spec => []TypeOK
<1>1. Inv => TypeOK
    BY DEF Inv, Types
<1> QED
    BY <1>1, InvAlways, PTL

\* No buffer is lost, used twice or sealed by mistake, and in_flight_ is exact,
\* whatever appends, flushes, timeouts and failed creations race with the drain
\* (mmap_store.cpp:67-141, 143-177).
THEOREM BuffersAccounted == Spec => []BufferAccounting
<1>1. Inv => BufferAccounting
    BY AccountingImplies DEF Inv
<1> QED
    BY <1>1, InvAlways, PTL

\* on_persist sees no record twice and none that Append refused, although a late
\* writer may get into a buffer that has been drained and is not scrubbed yet
\* (mmap_store.cpp:143-177 with mmap_buffer.cpp:52-76).
THEOREM PersistedOnce == Spec => []AtMostOnce
<1>1. Inv => AtMostOnce
    BY DEF Inv, Fresh
<1> QED
    BY <1>1, InvAlways, PTL

\* Only a call under the lock can turn such a pc to "idle", and it says why.
LEMMA RefusalStep ==
    ASSUME Inv, [Next]_vars, NEW t \in Callers,
           pc[t] \in {"slow", "appendwoken"}, pc'[t] = "idle"
    PROVE  /\ free = << >>
           /\ \/ size = MaxBuffers /\ late[t]
              \/ size < MaxBuffers /\ CreateMayFail
<1> USE DEF Inv, Types, TypeOK
<1>1. t \in Threads
    BY DEF Threads
<1>2. ASSUME NEW u \in Threads, NEW p, pc' = [pc EXCEPT ![u] = p], p = "idle" => u # t
      PROVE  FALSE
    BY <1>1, <1>2
<1>3. ASSUME NEW u \in Threads, AppendCall(u) \/ Reload(u) \/ Enter(u) \/ WriteFits(u)
             \/ WriteOverruns(u) \/ AlreadySwapped(u) \/ Timeout(u) \/ FlushSleeps(u)
             \/ FlushReturns(u) \/ Leaves(u)
      PROVE  FALSE
    <2>1. CASE WriteFits(u)
        BY <1>1, <2>1 DEF WriteFits, Finished
    <2>2. CASE FlushReturns(u)
        BY <1>1, <2>2 DEF FlushReturns, Locked
    <2>5. CASE Leaves(u)
        BY <1>1, <2>5 DEF Leaves, Finished
    <2>3. CASE AppendCall(u) \/ Reload(u) \/ Enter(u)
        BY <1>1, <2>3 DEF AppendCall, Reload, Enter
    <2>4. CASE WriteOverruns(u) \/ AlreadySwapped(u) \/ Timeout(u) \/ FlushSleeps(u)
        BY <1>1, <2>4 DEF WriteOverruns, AlreadySwapped, Timeout, FlushSleeps
    <2> QED
        BY <1>3, <2>1, <2>2, <2>3, <2>4, <2>5
<1>4. ASSUME NEW u \in Threads, NEW next \in {"retry", "flushing"}, Swaps(u, next)
      PROVE  FALSE
    <2>1. PICK p \in {next, "inline", "thrown"} : pc' = [pc EXCEPT ![u] = p]
        BY <1>4, SwapTypes
    <2> QED
        BY <1>2, <2>1
<1>5. ASSUME NEW u \in Threads, FlushSwap(u) \/ FlushWoken(u) PROVE FALSE
    <2>1. \/ Swaps(u, "flushing")
          \/ \E p \in {"flushing", "flushwait"} : pc' = [pc EXCEPT ![u] = p]
        BY <1>5 DEF FlushSwap, FlushWoken, Swaps
    <2> QED
        BY <1>2, <1>4, <2>1
<1>6. ASSUME NEW u \in Threads, AppendSwap(u)
      PROVE  free = << >> /\ size < MaxBuffers /\ CreateMayFail
    <2>1. ~Swaps(u, "retry")
        BY <1>4
    <2>2. ~(pc' = [pc EXCEPT ![u] = "appendwait"])
        BY <1>2
    <2> QED
        BY <1>6, <2>1, <2>2 DEF AppendSwap, Swaps, CreateFails
<1>7. ASSUME NEW u \in Threads, AppendWoken(u)
      PROVE  free = << >> /\ size = MaxBuffers /\ late[t]
    <2>1. ~Swaps(u, "retry")
        BY <1>4
    <2>2. ~(pc' = [pc EXCEPT ![u] = "appendwait"])
        BY <1>2
    <2>3. pc[u] = "appendwoken" /\ free = << >> /\ late[u] /\ ReturnFalse(u)
        BY <1>7, <2>1, <2>2 DEF AppendWoken, Swaps, Locked
    <2>4. u = t
        BY <1>2, <2>3 DEF ReturnFalse, Finished
    <2> QED
        BY <2>3, <2>4 DEF WaitsWhenFull
<1>8. CASE Destroy \/ StopPool
    BY <1>1, <1>8 DEF Destroy, StopPool, Locked
<1>9. CASE DrainStep
    <2>1. CASE GiveBack
        BY <1>1, <2>1 DEF GiveBack, WaitingFree, Woken
    <2>2. CASE NotifyFlush
        BY <1>1, <2>2 DEF NotifyFlush
    <2>3. CASE DrainStart \/ Sealed \/ Persist \/ Unseal \/ Scrub \/ CountDown
        BY <2>3 DEF DrainStart, Sealed, Persist, Unseal, Scrub, CountDown
    <2> QED
        BY <1>9, <2>1, <2>2, <2>3 DEF DrainStep
<1>10. CASE UNCHANGED vars
    BY <1>10 DEF vars
<1> QED
    BY <1>3, <1>5, <1>6, <1>7, <1>8, <1>9, <1>10
       DEF Next, Continue, FlushCall, DestroyCall, Threads

\* Append gives a record up only when there is no free buffer, and none may be
\* created and its wait is over, or the creation of one has failed, the case that
\* mmap_store.h:49 leaves out (mmap_store.cpp:67-93, 110-141).
THEOREM RefusesUnderPressure == Spec => RefusesForCause
<1> DEFINE Refusals ==
        \A t \in Callers :
            /\ pc[t] \in {"slow", "appendwoken"} /\ pc'[t] = "idle"
            => /\ free = << >>
               /\ \/ size = MaxBuffers /\ late[t]
                  \/ size < MaxBuffers /\ CreateMayFail
<1>1. Inv /\ [Next]_vars => [Refusals]_vars
    BY RefusalStep
<1>2. RefusesForCause <=> [][Refusals]_vars
    BY PTL DEF RefusesForCause
<1> QED
    BY <1>1, <1>2, InvAlways, PTL DEF Spec

=============================================================================
