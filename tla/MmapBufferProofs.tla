-------------------------- MODULE MmapBufferProofs --------------------------
(* Safety of MmapBuffer for every number of writers, every capacity and    *)
(* header size and every set of records: the fence, the slots, their bytes,*)
(* the zeros beyond them, and what ForEachFrame makes of it.               *)
EXTENDS MmapBuffer, FiniteSetTheorems, SequenceTheorems, WellFoundedInduction, TLAPS

Inside == {w \in Writers : wpc[w] # "idle"}

\* writers_ counts the calls that are inside Write.
Counted == writers = Cardinality(Inside)

\* The local variables of a call are those of a call that has started.
Locals == \A w \in Writers : wpc[w] # "idle" => rec[w] \in Records

TypeInv == TypeOK /\ Counted /\ Locals

LEMMA InsideFinite == IsFiniteSet(Inside)
BY WritersAssumption, FS_Subset DEF Inside

\* A call that starts is counted once.
LEMMA OneMoreInside ==
    ASSUME TypeInv, NEW w \in Writers, wpc[w] = "idle",
           wpc' = [wpc EXCEPT ![w] = "entered"], writers' = writers + 1
    PROVE  Counted'
<1>1. w \notin Inside
    BY DEF Inside
<1>2. Inside' = Inside \cup {w}
    BY DEF TypeInv, TypeOK, Inside
<1>3. Cardinality(Inside') = Cardinality(Inside) + 1
    BY <1>1, <1>2, InsideFinite, FS_AddElement
<1> QED
    BY <1>3 DEF TypeInv, Counted

\* A call that returns is uncounted once, and was counted.
LEMMA OneLessInside ==
    ASSUME TypeInv, NEW w \in Writers, wpc[w] # "idle",
           wpc' = [wpc EXCEPT ![w] = "idle"], writers' = writers - 1
    PROVE  Counted' /\ writers' \in Nat
<1>1. w \in Inside
    BY DEF Inside
<1>2. Inside' = Inside \ {w}
    BY DEF TypeInv, TypeOK, Inside
<1>3. Cardinality(Inside') = Cardinality(Inside) - 1
    BY <1>1, <1>2, InsideFinite, FS_RemoveElement
<1>4. IsFiniteSet(Inside')
    BY <1>2, InsideFinite, FS_Subset
<1>5. Cardinality(Inside') \in Nat
    BY <1>4, FS_CardinalityType
<1> QED
    BY <1>3, <1>5 DEF TypeInv, Counted

\* A call that moves on inside Write changes no count.
LEMMA SameInside ==
    ASSUME TypeInv, NEW w \in Writers, wpc[w] # "idle", NEW s, s # "idle",
           wpc' = [wpc EXCEPT ![w] = s], writers' = writers
    PROVE  Counted'
<1>1. Inside' = Inside
    BY DEF TypeInv, TypeOK, Inside
<1> QED
    BY <1>1 DEF TypeInv, Counted

LEMMA NoOneInside ==
    ASSUME TypeInv, writers = 0
    PROVE  \A w \in Writers : wpc[w] = "idle"
<1>1. Inside = {}
    BY InsideFinite, FS_EmptySet DEF TypeInv, Counted
<1> QED
    BY <1>1 DEF Inside

LEMMA RecordType ==
    \A r \in Records : /\ Len(r) \in Nat
                       /\ Need(r) \in Nat
                       /\ Need(r) = Hdr + Len(r)
                       /\ \A i \in 1 .. Len(r) : r[i] \in Nat
BY RecordsAssumption, SizesAssumption DEF Need

\* The two stores of a call write bytes and only inside the region.
LEMMA WriteType ==
    ASSUME NEW r \in Records, NEW at \in Nat, mem \in [0 .. Cap-1 -> Nat]
    PROVE  /\ WithHeader(mem, at, Len(r)) \in [0 .. Cap-1 -> Nat]
           /\ WithPayload(mem, at, r) \in [0 .. Cap-1 -> Nat]
<1>1. WithHeader(mem, at, Len(r)) \in [0 .. Cap-1 -> Nat]
    BY RecordType DEF WithHeader
<1>2. WithPayload(mem, at, r) \in [0 .. Cap-1 -> Nat]
    <2>1. ASSUME NEW i \in 0 .. Cap-1, i \in at+Hdr .. at+Need(r)-1
          PROVE  r[i - at - Hdr + 1] \in Nat
        <3>1. i - at - Hdr + 1 \in 1 .. Len(r)
            BY <2>1, RecordType, SizesAssumption
        <3> QED
            BY <3>1, RecordType
    <2> QED
        BY <2>1 DEF WithPayload
<1> QED
    BY <1>1, <1>2

LEMMA TypeInit == Init => TypeInv
<1> SUFFICES ASSUME Init PROVE TypeInv
    OBVIOUS
<1>1. TypeOK
    <2>1. mem \in [0 .. Cap-1 -> Nat] /\ prev \in 0 .. Cap
        BY SizesAssumption DEF Init
    <2>2. offset \in Nat /\ writers \in Nat /\ sealed \in BOOLEAN /\ dpc \in DrainerStates
        BY DEF Init, DrainerStates
    <2>3. /\ wpc \in [Writers -> WriterStates]
          /\ rec \in [Writers -> Records \cup {<< >>}]
          /\ old \in [Writers -> Nat]
        BY DEF Init, WriterStates
    <2>4. accepted \subseteq Slots /\ spoilt \subseteq {"unscrubbed", "restart"}
        BY DEF Init
    <2> QED
        BY <2>1, <2>2, <2>3, <2>4 DEF TypeOK
<1>2. Inside = {}
    BY DEF Init, Inside
<1>3. Counted
    BY <1>2, FS_EmptySet DEF Init, Counted
<1> QED
    BY <1>1, <1>3 DEF TypeInv, Locals, Init

LEMMA TypeStep == TypeInv /\ [Next]_vars => TypeInv'
<1> SUFFICES ASSUME TypeInv, [Next]_vars PROVE TypeInv'
    OBVIOUS
<1> USE DEF TypeOK, WriterStates, DrainerStates
<1>1. ASSUME NEW w \in Writers, Enter(w) PROVE TypeInv'
    <2>1. Counted'
        BY <1>1, OneMoreInside DEF Enter
    <2> QED
        BY <1>1, <2>1 DEF Enter, TypeInv, Locals
<1>2. ASSUME NEW w \in Writers, CheckSealed(w) PROVE TypeInv'
    <2>1. Counted'
        BY <1>2, SameInside DEF CheckSealed
    <2> QED
        BY <1>2, <2>1 DEF CheckSealed, TypeInv, Locals
<1>3. ASSUME NEW w \in Writers, Claim(w) PROVE TypeInv'
    <2>1. Counted'
        BY <1>3, SameInside DEF Claim
    <2>2. offset' \in Nat
        BY <1>3, RecordType DEF Claim, TypeInv, Locals
    <2> QED
        BY <1>3, <2>1, <2>2 DEF Claim, TypeInv, Locals
<1>4. ASSUME NEW w \in Writers, WriteHeader(w) PROVE TypeInv'
    <2>1. Counted'
        BY <1>4, SameInside DEF WriteHeader
    <2>2. mem' \in [0 .. Cap-1 -> Nat]
        BY <1>4, WriteType DEF WriteHeader, TypeInv, Locals
    <2> QED
        BY <1>4, <2>1, <2>2 DEF WriteHeader, TypeInv, Locals
<1>5. ASSUME NEW w \in Writers, WritePayload(w) PROVE TypeInv'
    <2>1. Counted'
        BY <1>5, SameInside DEF WritePayload
    <2>2. mem' \in [0 .. Cap-1 -> Nat]
        BY <1>5, WriteType DEF WritePayload, TypeInv, Locals
    <2> QED
        BY <1>5, <2>1, <2>2 DEF WritePayload, TypeInv, Locals
<1>6. ASSUME NEW w \in Writers, Accept(w) PROVE TypeInv'
    <2>1. Counted' /\ writers' \in Nat
        BY <1>6, OneLessInside DEF Accept, Return
    <2>2. accepted' \subseteq Slots
        BY <1>6 DEF Accept, TypeInv, Locals, Slots
    <2> QED
        BY <1>6, <2>1, <2>2 DEF Accept, Return, TypeInv, Locals
<1>7. ASSUME NEW w \in Writers, Refuse(w) PROVE TypeInv'
    <2>1. Counted' /\ writers' \in Nat
        BY <1>7, OneLessInside DEF Refuse, Return
    <2> QED
        BY <1>7, <2>1 DEF Refuse, Return, TypeInv, Locals
<1>8. CASE DrainerStep
    <2>1. Counted' /\ Locals'
        BY <1>8 DEF DrainerStep, SealStore, SealDone, Walk, ResetOffset, ResetUnseal,
            ResetScrub, wvars, TypeInv, Counted, Inside, Locals
    <2>2. Used \in 0 .. Cap
        BY SizesAssumption DEF Used, TypeInv
    <2>3. CASE SealStore
        BY <2>1, <2>3 DEF SealStore, wvars, TypeInv
    <2>4. CASE SealDone
        BY <2>1, <2>4 DEF SealDone, wvars, TypeInv
    <2>5. CASE Walk
        BY <2>1, <2>5 DEF Walk, wvars, TypeInv
    <2>6. CASE ResetOffset
        BY <2>1, <2>2, <2>6 DEF ResetOffset, wvars, TypeInv
    <2>7. CASE ResetUnseal
        BY <2>1, <2>7 DEF ResetUnseal, wvars, TypeInv
    <2>8. CASE ResetScrub
        <3>1. mem' \in [0 .. Cap-1 -> Nat]
            BY <2>8 DEF ResetScrub, TypeInv
        <3> QED
            BY <2>1, <2>8, <3>1 DEF ResetScrub, wvars, TypeInv
    <2> QED
        BY <1>8, <2>3, <2>4, <2>5, <2>6, <2>7, <2>8 DEF DrainerStep
<1>9. CASE Crash
    <2>1. Inside' = {}
        BY <1>9 DEF Crash, Inside
    <2>2. Counted'
        BY <1>9, <2>1, FS_EmptySet DEF Crash, Counted
    <2>3. prev' \in 0 .. Cap
        BY <1>9, SizesAssumption DEF Crash
    <2>4. /\ wpc' \in [Writers -> WriterStates]
          /\ rec' \in [Writers -> Records \cup {<< >>}]
          /\ old' \in [Writers -> Nat]
        BY <1>9 DEF Crash
    <2>5. mem' \in [0 .. Cap-1 -> Nat] /\ accepted' \subseteq Slots
        BY <1>9 DEF Crash, TypeInv
    <2>6. offset' \in Nat /\ writers' \in Nat /\ sealed' \in BOOLEAN /\ dpc' \in DrainerStates
        BY <1>9 DEF Crash
    <2>7. Locals'
        BY <1>9 DEF Crash, Locals
    <2>8. spoilt' \subseteq {"unscrubbed", "restart"}
        BY <1>9 DEF Crash
    <2> QED
        BY <2>2, <2>3, <2>4, <2>5, <2>6, <2>7, <2>8 DEF TypeInv
<1>10. CASE UNCHANGED vars
    BY <1>10 DEF vars, TypeInv, Counted, Inside, Locals
<1> QED
    BY <1>1, <1>2, <1>3, <1>4, <1>5, <1>6, <1>7, <1>8, <1>9, <1>10 DEF Next, WriterStep

\* TypeOK holds in every reachable state: in particular writers_ never goes
\* below zero, so the fetch_sub of Write never wraps (mmap_buffer.cpp:30,40,48).
THEOREM TypeCorrect == Spec => []TypeOK
<1>1. TypeInv => TypeOK
    BY DEF TypeInv
<1> QED
    BY <1>1, TypeInit, TypeStep, PTL DEF Spec

-----------------------------------------------------------------------------
(* The fence. sealed_ is up exactly from Seal to the unsealing store of      *)
(* ResetForReuse; a writer that passed the check before is still counted     *)
(* when Seal looks at writers_, one that comes later is refused.             *)
FenceInv ==
    /\ dpc \in {"sealing", "walk", "reset", "unseal"} => sealed = TRUE
    /\ dpc \in {"open", "scrub"} => sealed = FALSE
    /\ QuiescentDrain

LEMMA FenceInit == Init => FenceInv
BY DEF Init, FenceInv, QuiescentDrain

LEMMA FenceStep == TypeInv /\ FenceInv /\ [Next]_vars => FenceInv'
<1> SUFFICES ASSUME TypeInv, FenceInv, [Next]_vars PROVE FenceInv'
    OBVIOUS
<1> USE DEF FenceInv, QuiescentDrain, PastFence
<1>1. ASSUME NEW w \in Writers, WriterStep(w) PROVE FenceInv'
    BY <1>1 DEF WriterStep, Enter, CheckSealed, Claim, WriteHeader, WritePayload,
        Accept, Refuse, Return, TypeInv, TypeOK
<1>2. CASE SealDone
    BY <1>2, NoOneInside DEF SealDone, wvars
<1>3. CASE DrainerStep
    BY <1>2, <1>3 DEF DrainerStep, SealStore, Walk, ResetOffset, ResetUnseal,
        ResetScrub, wvars
<1>4. CASE Crash
    BY <1>4 DEF Crash
<1>5. CASE UNCHANGED vars
    BY <1>5 DEF vars
<1> QED
    BY <1>1, <1>3, <1>4, <1>5 DEF Next

\* From the return of Seal to the unsealing store no writer is past the sealed_
\* check (mmap_buffer.cpp:25-32, 52-58), whoever calls Write and whenever.
THEOREM SealIsQuiescent == Spec => []QuiescentDrain
<1>1. FenceInv => QuiescentDrain
    BY DEF FenceInv
<1> QED
    BY <1>1, TypeInit, TypeStep, FenceInit, FenceStep, PTL DEF Spec

-----------------------------------------------------------------------------
(* The slots. fetch_add gives each writer the bytes from the old mark to the *)
(* new one, so what is claimed later lies above what was claimed before; the *)
(* mark goes back to zero only when the fence has left nobody with a claim.  *)
End(w) == old[w] + Need(rec[w])
EndOf(a) == a.at + Need(a.rec)

Below(m) == m <= offset /\ m <= Cap

SlotInv ==
    /\ \A w \in Writers : Holding(w) => Below(End(w))
    /\ \A a \in accepted : Below(EndOf(a))
    /\ \A v, w \in Writers : v # w /\ Holding(v) /\ Holding(w)
            => End(v) <= old[w] \/ End(w) <= old[v]
    /\ \A w \in Writers, a \in accepted : Holding(w)
            => End(w) <= a.at \/ EndOf(a) <= old[w]
    /\ \A a, b \in accepted : a # b => EndOf(a) <= b.at \/ EndOf(b) <= a.at

LEMMA SlotInit == Init => SlotInv
<1> SUFFICES ASSUME Init PROVE SlotInv
    OBVIOUS
<1>1. accepted = {} /\ \A w \in Writers : ~Holding(w)
    BY DEF Init, Holding
<1> QED
    BY <1>1 DEF SlotInv

\* What the slot invariant relates, as numbers.
LEMMA SlotNumbers ==
    ASSUME TypeInv
    PROVE  /\ offset \in Nat /\ Cap \in Nat
           /\ \A w \in Writers : wpc[w] # "idle" =>
                 /\ old[w] \in Nat /\ Need(rec[w]) \in Nat /\ Need(rec[w]) > 0
                 /\ rec[w] \in Records
           /\ \A a \in accepted :
                 a.at \in Nat /\ Need(a.rec) \in Nat /\ Need(a.rec) > 0 /\ a.rec \in Records
<1>1. \A r \in Records : Need(r) \in Nat /\ Need(r) > 0
    <2> TAKE r \in Records
    <2>1. Len(r) \in Nat /\ Need(r) = Hdr + Len(r)
        BY RecordType
    <2> QED
        BY <2>1, SizesAssumption
<1>2. offset \in Nat /\ Cap \in Nat
    BY SizesAssumption DEF TypeInv, TypeOK
<1>3. \A w \in Writers : wpc[w] # "idle" => old[w] \in Nat /\ rec[w] \in Records
    BY DEF TypeInv, TypeOK, Locals
<1>4. \A a \in accepted : a.at \in Nat /\ a.rec \in Records
    BY DEF TypeInv, TypeOK, Slots
<1> QED
    BY <1>1, <1>2, <1>3, <1>4

LEMMA SlotStep == TypeInv /\ FenceInv /\ SlotInv /\ [Next]_vars => SlotInv'
<1> SUFFICES ASSUME TypeInv, FenceInv, SlotInv, [Next]_vars PROVE SlotInv'
    OBVIOUS
<1> USE SlotNumbers DEF SlotInv, Holding, End, EndOf, Below
<1>1. ASSUME NEW w \in Writers, Enter(w) PROVE SlotInv'
    <2>1. \A v \in Writers : Holding(v)' => Holding(v) /\ rec'[v] = rec[v]
        BY <1>1 DEF Enter, TypeInv, TypeOK
    <2>2. UNCHANGED <<offset, old, accepted>>
        BY <1>1 DEF Enter
    <2> QED
        BY <2>1, <2>2
<1>2. ASSUME NEW w \in Writers, CheckSealed(w) PROVE SlotInv'
    BY <1>2 DEF CheckSealed, TypeInv, TypeOK
<1>3. ASSUME NEW w \in Writers, Claim(w) PROVE SlotInv'
    <2>1. /\ offset' \in Nat /\ offset <= offset'
          /\ rec' = rec /\ accepted' = accepted
        BY <1>3 DEF Claim
    <2>2. \A v \in Writers : v # w => old'[v] = old[v] /\ (Holding(v)' => Holding(v))
        BY <1>3 DEF Claim, TypeInv, TypeOK
    <2>3. Holding(w)' => /\ old'[w] = offset
                         /\ offset + Need(rec[w]) = offset'
                         /\ offset' <= Cap
        BY <1>3 DEF Claim, TypeInv, TypeOK
    <2>4. Need(rec[w]) \in Nat /\ Need(rec[w]) > 0
        BY <1>3 DEF Claim
    <2>5. (\A v \in Writers : Holding(v) => Below(End(v)))'
        BY <2>1, <2>2, <2>3
    <2>6. (\A a \in accepted : Below(EndOf(a)))'
        BY <2>1
    <2>7. (\A u, v \in Writers : u # v /\ Holding(u) /\ Holding(v)
               => End(u) <= old[v] \/ End(v) <= old[u])'
        BY <2>1, <2>2, <2>3, <2>4
    <2>8. (\A v \in Writers, a \in accepted : Holding(v)
               => End(v) <= a.at \/ EndOf(a) <= old[v])'
        BY <2>1, <2>2, <2>3, <2>4
    <2> QED
        BY <2>1, <2>5, <2>6, <2>7, <2>8
<1>4. ASSUME NEW w \in Writers, WriteHeader(w) \/ WritePayload(w) PROVE SlotInv'
    BY <1>4 DEF WriteHeader, WritePayload, TypeInv, TypeOK
<1>5. ASSUME NEW w \in Writers, Accept(w) PROVE SlotInv'
    BY <1>5 DEF Accept, Return, TypeInv, TypeOK
<1>6. ASSUME NEW w \in Writers, Refuse(w) PROVE SlotInv'
    BY <1>6 DEF Refuse, Return, TypeInv, TypeOK
<1>7. CASE ResetOffset
    BY <1>7 DEF ResetOffset, wvars, FenceInv, QuiescentDrain, PastFence
<1>8. CASE SealStore \/ SealDone \/ Walk \/ ResetUnseal \/ ResetScrub
    BY <1>8 DEF SealStore, SealDone, Walk, ResetUnseal, ResetScrub, wvars
<1>9. CASE Crash
    BY <1>9 DEF Crash
<1>10. CASE UNCHANGED vars
    BY <1>10 DEF vars, wvars
<1> QED
    BY <1>1, <1>2, <1>3, <1>4, <1>5, <1>6, <1>7, <1>8, <1>9, <1>10
       DEF Next, WriterStep, DrainerStep

LEMMA SlotInvImplies == TypeInv /\ SlotInv => SlotsDisjoint
<1> SUFFICES ASSUME TypeInv, SlotInv PROVE SlotsDisjoint
    OBVIOUS
<1> USE SlotNumbers DEF SlotInv, Span, End, EndOf
<1>1. \A v, w \in Writers :
         v # w /\ Holding(v) /\ Holding(w)
            => Span(old[v], rec[v]) \cap Span(old[w], rec[w]) = {}
    BY DEF Holding
<1>2. \A w \in Writers : Holding(w) => Span(old[w], rec[w]) \subseteq 0 .. Used - 1
    <2> SUFFICES ASSUME NEW w \in Writers, Holding(w)
                 PROVE  Span(old[w], rec[w]) \subseteq 0 .. Used - 1
        OBVIOUS
    <2>1. old[w] \in Nat /\ Need(rec[w]) \in Nat
        BY DEF Holding
    <2>2. old[w] + Need(rec[w]) <= offset /\ old[w] + Need(rec[w]) <= Cap
        BY DEF Below
    <2>3. old[w] + Need(rec[w]) <= Used
        BY <2>2 DEF Used
    <2>4. Used \in Nat
        BY DEF Used
    <2> QED
        BY <2>1, <2>3, <2>4
<1>3. \A w \in Writers : Holding(w) =>
         \A a \in accepted : Span(old[w], rec[w]) \cap Span(a.at, a.rec) = {}
    BY DEF Holding
<1>4. \A a, b \in accepted : a # b => Span(a.at, a.rec) \cap Span(b.at, b.rec) = {}
    OBVIOUS
<1> QED
    BY <1>1, <1>2, <1>3, <1>4 DEF SlotsDisjoint

\* No two records ever share a byte of the region, with any number of writers
\* and even when calls start while the buffer is being drained or reset
\* (mmap_buffer.cpp:34-46).
THEOREM SlotsAreDisjoint == Spec => []SlotsDisjoint
BY TypeInit, TypeStep, FenceInit, FenceStep, SlotInit, SlotStep, SlotInvImplies, PTL
   DEF Spec

-----------------------------------------------------------------------------
(* The bytes. As long as no writer is admitted between the unsealing and the *)
(* scrub, what a writer stored stays where it is: the only other stores go   *)
(* to other slots.                                                           *)
HeaderIn(m, at, len) == \A i \in at .. at+Hdr-1 : m[i] = IF i = at THEN len ELSE 0
PayloadIn(m, at, r)  == \A i \in at+Hdr .. at+Need(r)-1 : m[i] = r[i - at - Hdr + 1]

MemInv ==
    /\ dpc = "scrub" => \A w \in Writers : ~PastFence(w)
    /\ dpc \in {"unseal", "scrub"} => accepted = {}
    /\ \A w \in Writers : wpc[w] \in {"payload", "written"}
            => HeaderIn(mem, old[w], Len(rec[w]))
    /\ \A w \in Writers : wpc[w] = "written" => PayloadIn(mem, old[w], rec[w])
    /\ \A a \in accepted : HeaderIn(mem, a.at, Len(a.rec)) /\ PayloadIn(mem, a.at, a.rec)

\* A store into one slot leaves the frame of another slot alone.
LEMMA OtherSlotKept ==
    ASSUME NEW m \in [0 .. Cap-1 -> Nat], NEW r \in Records, NEW s \in Records,
           NEW at \in Nat, NEW b \in Nat, b + Need(s) <= Cap,
           at + Need(r) <= b \/ b + Need(s) <= at
    PROVE  /\ HeaderIn(m, b, Len(s)) => /\ HeaderIn(WithHeader(m, at, Len(r)), b, Len(s))
                                        /\ HeaderIn(WithPayload(m, at, r), b, Len(s))
           /\ PayloadIn(m, b, s) => /\ PayloadIn(WithHeader(m, at, Len(r)), b, s)
                                    /\ PayloadIn(WithPayload(m, at, r), b, s)
<1>1. /\ Hdr \in Nat /\ Hdr > 0 /\ Len(r) \in Nat /\ Len(s) \in Nat /\ Cap \in Nat
      /\ Need(r) = Hdr + Len(r) /\ Need(s) = Hdr + Len(s)
    BY SizesAssumption, RecordType
<1>2. \A i \in b .. b + Need(s) - 1 :
         /\ i \in DOMAIN m
         /\ i \notin at .. at + Need(r) - 1
    <2> TAKE i \in b .. b + Need(s) - 1
    <2> DEFINE lr == Need(r)
               ls == Need(s)
    <2>1. lr \in Nat /\ ls \in Nat
        BY RecordType, Zenon
    <2>2. b + ls <= Cap /\ (at + lr <= b \/ b + ls <= at) /\ i \in b .. b + ls - 1
        OBVIOUS
    <2>3. Cap \in Nat
        BY <1>1
    <2> HIDE DEF lr, ls
    <2>4. i \in 0 .. Cap - 1
        BY <2>1, <2>2, <2>3
    <2>5. i \notin at .. at + lr - 1
        BY <2>1, <2>2
    <2>6. DOMAIN m = 0 .. Cap - 1
        OBVIOUS
    <2>7. i \in DOMAIN m
        BY <2>4, <2>6, Zenon
    <2> QED
        BY <2>5, <2>7 DEF lr
<1>3. \A i \in b .. b + Need(s) - 1 :
         /\ WithHeader(m, at, Len(r))[i] = m[i]
         /\ WithPayload(m, at, r)[i] = m[i]
    <2> TAKE i \in b .. b + Need(s) - 1
    <2>1. i \in DOMAIN m /\ i \notin at .. at + Need(r) - 1 /\ i \in Nat
        BY <1>1, <1>2
    <2>2. i # at /\ i \notin at+1 .. at+Hdr-1 /\ i \notin at+Hdr .. at+Need(r)-1
        BY <1>1, <2>1
    <2> QED
        BY <2>1, <2>2 DEF WithHeader, WithPayload
<1>4. \A i \in b .. b+Hdr-1 : i \in b .. b + Need(s) - 1
    BY <1>1
<1>5. \A i \in b+Hdr .. b+Need(s)-1 : i \in b .. b + Need(s) - 1
    BY <1>1
<1>6. HeaderIn(m, b, Len(s)) => /\ HeaderIn(WithHeader(m, at, Len(r)), b, Len(s))
                                /\ HeaderIn(WithPayload(m, at, r), b, Len(s))
    BY <1>3, <1>4 DEF HeaderIn
<1>7. PayloadIn(m, b, s) => /\ PayloadIn(WithHeader(m, at, Len(r)), b, s)
                            /\ PayloadIn(WithPayload(m, at, r), b, s)
    BY <1>3, <1>5 DEF PayloadIn
<1> QED
    BY <1>6, <1>7

\* A store does what it is for, and the payload does not touch the header.
LEMMA OwnSlotWritten ==
    ASSUME NEW m \in [0 .. Cap-1 -> Nat], NEW r \in Records, NEW at \in Nat,
           at + Need(r) <= Cap
    PROVE  /\ HeaderIn(WithHeader(m, at, Len(r)), at, Len(r))
           /\ PayloadIn(WithPayload(m, at, r), at, r)
           /\ HeaderIn(m, at, Len(r)) => HeaderIn(WithPayload(m, at, r), at, Len(r))
<1>1. /\ Hdr \in Nat /\ Hdr > 0 /\ Len(r) \in Nat /\ Cap \in Nat
      /\ Need(r) = Hdr + Len(r)
    BY SizesAssumption, RecordType
<1>2. \A i \in at .. at + Need(r) - 1 : i \in DOMAIN m
    BY <1>1
<1>3. HeaderIn(WithHeader(m, at, Len(r)), at, Len(r))
    BY <1>1, <1>2 DEF HeaderIn, WithHeader
<1>4. PayloadIn(WithPayload(m, at, r), at, r)
    BY <1>1, <1>2 DEF PayloadIn, WithPayload
<1>5. HeaderIn(m, at, Len(r)) => HeaderIn(WithPayload(m, at, r), at, Len(r))
    BY <1>1, <1>2 DEF HeaderIn, WithPayload
<1> QED
    BY <1>3, <1>4, <1>5

LEMMA MemInit == Init => MemInv
<1> SUFFICES ASSUME Init PROVE MemInv
    OBVIOUS
<1>1. accepted = {} /\ dpc = "open" /\ \A w \in Writers : wpc[w] = "idle"
    BY DEF Init
<1> QED
    BY <1>1 DEF MemInv

Scrubbed == "unscrubbed" \notin spoilt

\* While nothing is unscrubbed, a writer past the check keeps the drain away.
LEMMA PastFenceMeans ==
    ASSUME FenceInv, MemInv, NEW w \in Writers, PastFence(w)
    PROVE  dpc \notin {"walk", "reset", "unseal", "scrub"}
BY DEF FenceInv, QuiescentDrain, MemInv

LEMMA MemStep ==
    ASSUME TypeInv, FenceInv, SlotInv, MemInv, Scrubbed', [Next]_vars
    PROVE  MemInv'
<1> USE SlotNumbers
<1>1. ASSUME NEW w \in Writers, Enter(w) PROVE MemInv'
    <2>1. \A v \in Writers : wpc'[v] \in {"payload", "written"} =>
             wpc'[v] = wpc[v] /\ rec'[v] = rec[v]
        BY <1>1 DEF Enter, TypeInv, TypeOK
    <2>2. \A v \in Writers : PastFence(v)' => PastFence(v)
        BY <1>1 DEF Enter, PastFence, TypeInv, TypeOK
    <2>3. UNCHANGED <<mem, old, accepted, dpc>>
        BY <1>1 DEF Enter
    <2> QED
        BY <2>1, <2>2, <2>3 DEF MemInv
<1>2. ASSUME NEW w \in Writers, CheckSealed(w) \/ Refuse(w) PROVE MemInv'
    <2>1. \A v \in Writers : wpc'[v] \in {"payload", "written"} =>
             wpc'[v] = wpc[v] /\ rec'[v] = rec[v] /\ old'[v] = old[v]
        BY <1>2 DEF CheckSealed, Refuse, Return, TypeInv, TypeOK
    <2>2. dpc = "scrub" => \A v \in Writers : PastFence(v)' => PastFence(v)
        BY <1>2 DEF CheckSealed, Refuse, Return, PastFence, Scrubbed, TypeInv, TypeOK
    <2>3. UNCHANGED <<mem, accepted, dpc>>
        BY <1>2 DEF CheckSealed, Refuse
    <2> QED
        BY <2>1, <2>2, <2>3 DEF MemInv
<1>3. ASSUME NEW w \in Writers, Claim(w) PROVE MemInv'
    <2>1. \A v \in Writers : wpc'[v] \in {"payload", "written"} =>
             wpc'[v] = wpc[v] /\ rec'[v] = rec[v] /\ old'[v] = old[v]
        BY <1>3 DEF Claim, TypeInv, TypeOK
    <2>2. dpc' \notin {"walk", "reset", "unseal", "scrub"}
        BY <1>3, PastFenceMeans DEF Claim, PastFence
    <2>3. UNCHANGED <<mem, accepted>>
        BY <1>3 DEF Claim
    <2> QED
        BY <2>1, <2>2, <2>3 DEF MemInv
<1>4. ASSUME NEW w \in Writers, WriteHeader(w) \/ WritePayload(w) PROVE MemInv'
    <2>1. /\ rec[w] \in Records /\ old[w] \in Nat /\ old[w] + Need(rec[w]) <= Cap
          /\ mem \in [0 .. Cap-1 -> Nat]
        BY <1>4 DEF WriteHeader, WritePayload, SlotInv, Holding, End, Below, TypeInv, TypeOK
    <2>2. UNCHANGED <<rec, old, accepted>> /\ dpc' \notin {"walk", "reset", "unseal", "scrub"}
        BY <1>4, PastFenceMeans DEF WriteHeader, WritePayload, PastFence
    <2>3. \/ mem' = WithHeader(mem, old[w], Len(rec[w]))
          \/ mem' = WithPayload(mem, old[w], rec[w])
        BY <1>4 DEF WriteHeader, WritePayload
    <2>4. \A v \in Writers : v # w => wpc'[v] = wpc[v]
        BY <1>4 DEF WriteHeader, WritePayload, TypeInv, TypeOK
    <2>5. \A v \in Writers \ {w} : wpc'[v] \in {"payload", "written"} =>
             /\ HeaderIn(mem', old[v], Len(rec[v]))
             /\ wpc'[v] = "written" => PayloadIn(mem', old[v], rec[v])
        <3> SUFFICES ASSUME NEW v \in Writers \ {w}, wpc[v] \in {"payload", "written"}
                     PROVE  /\ HeaderIn(mem', old[v], Len(rec[v]))
                            /\ wpc[v] = "written" => PayloadIn(mem', old[v], rec[v])
            BY <2>4
        <3>1. /\ rec[v] \in Records /\ old[v] \in Nat /\ old[v] + Need(rec[v]) <= Cap
              /\ \/ old[w] + Need(rec[w]) <= old[v]
                 \/ old[v] + Need(rec[v]) <= old[w]
            BY <1>4 DEF SlotInv, Holding, End, Below, WriteHeader, WritePayload
        <3>2. /\ HeaderIn(mem, old[v], Len(rec[v]))
              /\ wpc[v] = "written" => PayloadIn(mem, old[v], rec[v])
            BY DEF MemInv
        <3> QED
            BY <2>1, <2>3, <3>1, <3>2, OtherSlotKept, SMTT(20)
    <2>6. \A a \in accepted :
             HeaderIn(mem', a.at, Len(a.rec)) /\ PayloadIn(mem', a.at, a.rec)
        <3> TAKE a \in accepted
        <3>1. /\ a.rec \in Records /\ a.at \in Nat /\ a.at + Need(a.rec) <= Cap
              /\ \/ old[w] + Need(rec[w]) <= a.at
                 \/ a.at + Need(a.rec) <= old[w]
            BY <1>4 DEF SlotInv, Holding, End, EndOf, Below, WriteHeader, WritePayload
        <3>2. HeaderIn(mem, a.at, Len(a.rec)) /\ PayloadIn(mem, a.at, a.rec)
            BY DEF MemInv
        <3> QED
            BY <2>1, <2>3, <3>1, <3>2, OtherSlotKept
    <2>7. /\ HeaderIn(mem', old[w], Len(rec[w]))
          /\ wpc'[w] = "written" => PayloadIn(mem', old[w], rec[w])
        <3>1. CASE WriteHeader(w)
            BY <2>1, <3>1, OwnSlotWritten DEF WriteHeader, TypeInv, TypeOK
        <3>2. CASE WritePayload(w)
            BY <2>1, <3>2, OwnSlotWritten DEF WritePayload, TypeInv, TypeOK, MemInv
        <3> QED
            BY <1>4, <3>1, <3>2
    <2> QED
        BY <2>2, <2>5, <2>6, <2>7 DEF MemInv
<1>5. ASSUME NEW w \in Writers, Accept(w) PROVE MemInv'
    <2>1. \A v \in Writers : wpc'[v] \in {"payload", "written"} =>
             wpc'[v] = wpc[v] /\ rec'[v] = rec[v] /\ old'[v] = old[v]
        BY <1>5 DEF Accept, Return, TypeInv, TypeOK
    <2>2. dpc' \notin {"walk", "reset", "unseal", "scrub"}
        BY <1>5, PastFenceMeans DEF Accept, PastFence
    <2>3. mem' = mem /\ accepted' = accepted \cup {[at |-> old[w], rec |-> rec[w]]}
        BY <1>5 DEF Accept
    <2>4. HeaderIn(mem, old[w], Len(rec[w])) /\ PayloadIn(mem, old[w], rec[w])
        BY <1>5 DEF Accept, MemInv
    <2>5. \A a \in accepted' :
             HeaderIn(mem, a.at, Len(a.rec)) /\ PayloadIn(mem, a.at, a.rec)
        BY <2>3, <2>4 DEF MemInv
    <2> QED
        BY <2>1, <2>2, <2>3, <2>5 DEF MemInv
<1>6. CASE SealStore \/ SealDone \/ Walk \/ ResetOffset
    BY <1>6 DEF SealStore, SealDone, Walk, ResetOffset, wvars, MemInv
<1>7. CASE ResetUnseal
    BY <1>7 DEF ResetUnseal, wvars, MemInv, FenceInv, QuiescentDrain, PastFence
<1>8. CASE ResetScrub
    <2>1. accepted' = {} /\ dpc' = "open"
        BY <1>8 DEF ResetScrub, MemInv
    <2>2. \A w \in Writers : wpc'[w] \notin {"payload", "written"}
        BY <1>8 DEF ResetScrub, wvars, MemInv, PastFence
    <2> QED
        BY <2>1, <2>2 DEF MemInv
<1>9. CASE Crash
    <2>1. accepted' = {} /\ dpc' = "open" /\ \A w \in Writers : wpc'[w] = "idle"
        BY <1>9 DEF Crash
    <2> QED
        BY <2>1 DEF MemInv
<1>10. CASE UNCHANGED vars
    BY <1>10 DEF vars, wvars, MemInv, PastFence
<1> QED
    BY <1>1, <1>2, <1>3, <1>4, <1>5, <1>6, <1>7, <1>8, <1>9, <1>10
       DEF Next, WriterStep, DrainerStep

LEMMA MemInvImplies == TypeInv /\ (Scrubbed => MemInv) => AcceptedIntact
<1> SUFFICES ASSUME TypeInv, MemInv, NEW a \in accepted, NEW i \in Span(a.at, a.rec)
             PROVE  mem[i] = IF i = a.at THEN Len(a.rec)
                             ELSE IF i < a.at + Hdr THEN 0
                             ELSE a.rec[i - a.at - Hdr + 1]
    BY DEF AcceptedIntact, Scrubbed
<1>1. a.at \in Nat /\ Need(a.rec) \in Nat /\ Hdr \in Nat /\ Hdr > 0
    BY SlotNumbers, SizesAssumption
<1>2. i \in a.at .. a.at+Hdr-1 \/ i \in a.at+Hdr .. a.at+Need(a.rec)-1
    BY <1>1 DEF Span
<1>3. HeaderIn(mem, a.at, Len(a.rec)) /\ PayloadIn(mem, a.at, a.rec)
    BY DEF MemInv
<1> QED
    BY <1>1, <1>2, <1>3 DEF HeaderIn, PayloadIn

\* A step that leaves the buffer scrubbed finds it so, or is a restart.
LEMMA ScrubbedStep ==
    ASSUME TypeInv, FenceInv, SlotInv, Scrubbed => MemInv, [Next]_vars
    PROVE  (Scrubbed => MemInv)'
<1> SUFFICES ASSUME Scrubbed' PROVE MemInv'
    OBVIOUS
<1>1. CASE Crash
    <2>1. accepted' = {} /\ dpc' = "open" /\ \A w \in Writers : wpc'[w] = "idle"
        BY <1>1 DEF Crash
    <2> QED
        BY <2>1 DEF MemInv
<1>2. CASE ~Crash
    <2>1. spoilt \subseteq spoilt'
        BY <1>2 DEF Next, WriterStep, DrainerStep, Enter, CheckSealed, Claim, WriteHeader,
            WritePayload, Accept, Refuse, SealStore, SealDone, Walk, ResetOffset,
            ResetUnseal, ResetScrub, vars
    <2>2. MemInv
        BY <2>1 DEF Scrubbed
    <2> QED
        BY <2>2, MemStep
<1> QED
    BY <1>1, <1>2

\* A record whose Write returned true stays in the region byte for byte until the
\* next reset (mmap_buffer.cpp:45-46), through crashes and whenever calls start,
\* unless a writer was admitted between the store of line 70 and the memset of
\* line 74. MmapBuffer_unscrubbed.cfg shows what happens then.
THEOREM AcceptedStaysIntact == Spec => []AcceptedIntact
<1>1. Init => TypeInv /\ FenceInv /\ SlotInv /\ (Scrubbed => MemInv)
    BY TypeInit, FenceInit, SlotInit, MemInit
<1>2. TypeInv /\ FenceInv /\ SlotInv /\ (Scrubbed => MemInv) /\ [Next]_vars
         => (TypeInv /\ FenceInv /\ SlotInv /\ (Scrubbed => MemInv))'
    BY TypeStep, FenceStep, SlotStep, ScrubbedStep
<1>3. TypeInv /\ FenceInv /\ SlotInv /\ (Scrubbed => MemInv) => AcceptedIntact
    BY MemInvImplies
<1> QED
    BY <1>1, <1>2, <1>3, PTL DEF Spec

-----------------------------------------------------------------------------
(* The tail. Stores go below the high-water mark, and the scrub covers what  *)
(* the mark of the finished cycle covered.                                   *)
Clean == spoilt = {}

TailInv ==
    /\ dpc \in {"open", "sealing", "walk", "reset"} =>
         \A i \in 0 .. Cap-1 : i >= offset => mem[i] = 0
    /\ dpc \in {"unseal", "scrub"} =>
         \A i \in 0 .. Cap-1 : i >= prev => mem[i] = 0

LEMMA TailInit == Init => TailInv
BY DEF Init, TailInv

\* A store into a claimed slot changes nothing at or above the mark.
LEMMA StoreBelowMark ==
    ASSUME TypeInv, SlotInv, NEW w \in Writers, Holding(w),
           NEW i \in 0 .. Cap-1, i >= offset
    PROVE  /\ WithHeader(mem, old[w], Len(rec[w]))[i] = mem[i]
           /\ WithPayload(mem, old[w], rec[w])[i] = mem[i]
<1>0. Hdr \in Nat /\ Hdr > 0
    BY SizesAssumption
<1>1. /\ rec[w] \in Records /\ old[w] \in Nat /\ offset \in Nat
      /\ old[w] + Need(rec[w]) <= offset
    BY SlotNumbers DEF SlotInv, Holding, End, Below
<1>2. /\ Len(rec[w]) \in Nat
      /\ Need(rec[w]) = Hdr + Len(rec[w])
    BY <1>1, RecordType, Zenon
<1>3. i # old[w] /\ i \notin old[w]+1 .. old[w]+Hdr-1
      /\ i \notin old[w]+Hdr .. old[w]+Need(rec[w])-1
    BY <1>0, <1>1, <1>2
<1>4. i \in DOMAIN mem
    BY DEF TypeInv, TypeOK
<1> QED
    BY <1>3, <1>4 DEF WithHeader, WithPayload

LEMMA TailStep ==
    ASSUME TypeInv, FenceInv, SlotInv, MemInv, TailInv, ~Crash, [Next]_vars
    PROVE  TailInv'
<1>1. offset \in Nat /\ Cap \in Nat /\ mem \in [0 .. Cap-1 -> Nat]
    BY SizesAssumption DEF TypeInv, TypeOK
<1>2. ASSUME NEW w \in Writers, Enter(w) \/ CheckSealed(w) \/ Accept(w) \/ Refuse(w)
      PROVE  TailInv'
    BY <1>2 DEF Enter, CheckSealed, Accept, Refuse, TailInv
<1>3. ASSUME NEW w \in Writers, Claim(w) PROVE TailInv'
    <2>1. offset' \in Nat /\ offset <= offset' /\ UNCHANGED <<mem, dpc, prev>>
        BY <1>1, <1>3, SlotNumbers DEF Claim
    <2> QED
        BY <1>1, <2>1 DEF TailInv
<1>4. ASSUME NEW w \in Writers, WriteHeader(w) \/ WritePayload(w) PROVE TailInv'
    <2>1. Holding(w) /\ UNCHANGED <<offset, dpc, prev>>
        BY <1>4 DEF WriteHeader, WritePayload, Holding
    <2>2. dpc \notin {"unseal", "scrub"}
        BY <1>4, PastFenceMeans DEF WriteHeader, WritePayload, PastFence
    <2>3. \A i \in 0 .. Cap-1 : i >= offset => mem'[i] = mem[i]
        BY <1>4, <2>1, StoreBelowMark DEF WriteHeader, WritePayload
    <2> QED
        BY <2>1, <2>2, <2>3 DEF TailInv
<1>5. CASE SealStore \/ SealDone \/ Walk \/ ResetUnseal
    BY <1>5 DEF SealStore, SealDone, Walk, ResetUnseal, TailInv
<1>6. CASE ResetOffset
    <2>1. dpc = "reset" /\ dpc' = "unseal" /\ mem' = mem /\ prev' = Used
        BY <1>6 DEF ResetOffset
    <2>2. \A i \in 0 .. Cap-1 : i >= Used => i >= offset
        BY <1>1 DEF Used
    <2> QED
        BY <2>1, <2>2 DEF TailInv
<1>7. CASE ResetScrub
    <2>1. \A i \in 0 .. Cap-1 : mem'[i] = 0
        BY <1>1, <1>7 DEF ResetScrub, TailInv, TypeInv, TypeOK
    <2>2. dpc' = "open"
        BY <1>7 DEF ResetScrub
    <2> QED
        BY <2>1, <2>2 DEF TailInv
<1>8. CASE UNCHANGED vars
    BY <1>8 DEF vars, TailInv
<1> QED
    BY <1>2, <1>3, <1>4, <1>5, <1>6, <1>7, <1>8 DEF Next, WriterStep, DrainerStep

\* A step that leaves the buffer clean finds it so, and is no restart.
LEMMA CleanStep ==
    ASSUME TypeInv, FenceInv, SlotInv, Scrubbed => MemInv, Clean => TailInv, [Next]_vars
    PROVE  (Clean => TailInv)'
<1> SUFFICES ASSUME Clean' PROVE TailInv'
    OBVIOUS
<1>1. ~Crash
    BY DEF Crash, Clean
<1>2. spoilt \subseteq spoilt'
    BY <1>1 DEF Next, WriterStep, DrainerStep, Enter, CheckSealed, Claim, WriteHeader,
        WritePayload, Accept, Refuse, SealStore, SealDone, Walk, ResetOffset,
        ResetUnseal, ResetScrub, vars
<1>3. MemInv /\ TailInv
    BY <1>2 DEF Clean, Scrubbed
<1> QED
    BY <1>1, <1>3, TailStep

\* The comment of mmap_buffer.cpp:71-72, under what it takes for it to be true:
\* no writer admitted between the unsealing and the scrub, and no earlier process
\* that left bytes in the file. MmapBuffer_unscrubbed.cfg shows that the first cannot
\* be dropped.
THEOREM TailStaysZero == Spec => []TailIsZero
<1> DEFINE IInv == /\ TypeInv /\ FenceInv /\ SlotInv
                   /\ Scrubbed => MemInv
                   /\ Clean => TailInv
<1>1. Init => IInv
    BY TypeInit, FenceInit, SlotInit, MemInit, TailInit
<1>2. IInv /\ [Next]_vars => IInv'
    BY TypeStep, FenceStep, SlotStep, ScrubbedStep, CleanStep
<1>3. IInv => TailIsZero
    <2> SUFFICES ASSUME TypeInv, Clean => TailInv PROVE TailIsZero
        OBVIOUS
    <2>1. offset \in Nat /\ Cap \in Nat /\ DOMAIN mem = 0 .. Cap-1
        BY SizesAssumption DEF TypeInv, TypeOK
    <2>2. \A i \in DOMAIN mem : i >= Used => i >= offset
        BY <2>1 DEF Used
    <2> QED
        BY <2>1, <2>2 DEF TailInv, TailIsZero, Clean
<1> QED
    BY <1>1, <1>2, <1>3, PTL DEF Spec

-----------------------------------------------------------------------------
(* The chain. Each slot begins where the buffer or another slot does not end *)
(* but has just ended, and the mark stands at the end of one until a claim   *)
(* overruns; outside the slots there is nothing but zeros.                   *)
Ends(x) ==
    \/ \E w \in Writers : Holding(w) /\ End(w) = x
    \/ \E a \in accepted : EndOf(a) = x

Chained ==
    /\ \A w \in Writers : Holding(w) => old[w] = 0 \/ Ends(old[w])
    /\ \A a \in accepted : a.at = 0 \/ Ends(a.at)
    /\ offset <= Cap => offset = 0 \/ Ends(offset)

InSlot(i) ==
    \/ \E w \in Writers : Holding(w) /\ i \in old[w] .. End(w) - 1
    \/ \E a \in accepted : i \in a.at .. EndOf(a) - 1

Covered ==
    dpc \in {"open", "sealing", "walk", "reset"} =>
        \A i \in 0 .. Cap-1 : mem[i] = 0 \/ InSlot(i)

LEMMA ChainInit == Init => Chained /\ Covered
BY SizesAssumption DEF Init, Chained, Covered, Holding

\* When no slot changes hands, only the mark matters.
LEMMA SameSlots ==
    ASSUME \A w \in Writers : Holding(w)' <=> Holding(w),
           \A w \in Writers : Holding(w) => old'[w] = old[w] /\ rec'[w] = rec[w],
           accepted' = accepted
    PROVE  \A x : (Ends(x)' <=> Ends(x)) /\ (InSlot(x)' <=> InSlot(x))
BY DEF Ends, InSlot, End, EndOf, Need

LEMMA ChainStep ==
    ASSUME TypeInv, FenceInv, SlotInv, Chained, [Next]_vars
    PROVE  Chained'
<1> USE SlotNumbers
<1>1. ASSUME NEW w \in Writers, Enter(w) \/ CheckSealed(w) \/ WriteHeader(w) \/ WritePayload(w)
                                \/ Refuse(w)
      PROVE  Chained'
    <2>1. /\ \A v \in Writers : Holding(v)' <=> Holding(v)
          /\ \A v \in Writers : Holding(v) => old'[v] = old[v] /\ rec'[v] = rec[v]
          /\ accepted' = accepted /\ offset' = offset
        BY <1>1 DEF Enter, CheckSealed, WriteHeader, WritePayload, Refuse, Return, Holding,
                    TypeInv, TypeOK
    <2>2. \A x : Ends(x)' <=> Ends(x)
        BY <2>1, SameSlots
    <2> QED
        BY <2>1, <2>2 DEF Chained
<1>2. ASSUME NEW w \in Writers, Claim(w) PROVE Chained'
    <2>1. /\ \A v \in Writers : v # w => (Holding(v)' <=> Holding(v)) /\ old'[v] = old[v]
          /\ ~Holding(w) /\ rec' = rec /\ accepted' = accepted
          /\ old'[w] = offset /\ offset' = offset + Need(rec[w])
          /\ Holding(w)' <=> offset' <= Cap
        BY <1>2 DEF Claim, Holding, TypeInv, TypeOK
    <2>2. \A x : Ends(x) => Ends(x)'
        BY <2>1 DEF Ends, End, EndOf, Need
    <2>3. Need(rec[w]) \in Nat /\ offset \in Nat /\ Cap \in Nat
        BY <1>2 DEF Claim
    <2>4. offset' <= Cap => offset <= Cap
        BY <2>1, <2>3
    <2>5. (offset <= Cap => Ends(offset))'
        BY <2>1 DEF Ends, End, Need
    <2>6. (\A v \in Writers : Holding(v) => old[v] = 0 \/ Ends(old[v]))'
        <3> SUFFICES ASSUME NEW v \in Writers, Holding(v)' PROVE (old[v] = 0 \/ Ends(old[v]))'
            OBVIOUS
        <3>1. CASE v = w
            <4>1. offset = 0 \/ Ends(offset)
                BY <2>1, <2>4, <3>1 DEF Chained
            <4> QED
                BY <2>1, <2>2, <3>1, <4>1
        <3>2. CASE v # w
            <4>1. old[v] = 0 \/ Ends(old[v])
                BY <2>1, <3>2 DEF Chained
            <4> QED
                BY <2>1, <2>2, <3>2, <4>1
        <3> QED
            BY <3>1, <3>2
    <2>7. \A a \in accepted' : a.at = 0 \/ Ends(a.at)'
        BY <2>1, <2>2 DEF Chained
    <2> QED
        BY <2>5, <2>6, <2>7 DEF Chained
<1>3. ASSUME NEW w \in Writers, Accept(w) PROVE Chained'
    <2> DEFINE b == [at |-> old[w], rec |-> rec[w]]
    <2>1. /\ \A v \in Writers : v # w => (Holding(v)' <=> Holding(v)) /\ old'[v] = old[v]
                                         /\ rec'[v] = rec[v]
          /\ Holding(w) /\ ~Holding(w)' /\ accepted' = accepted \cup {b} /\ offset' = offset
        BY <1>3 DEF Accept, Return, Holding, TypeInv, TypeOK
    <2>2. EndOf(b) = End(w) /\ b \in accepted'
        BY <2>1 DEF End, EndOf, Need
    <2>3. ASSUME NEW x, Ends(x) PROVE Ends(x)'
        <3>1. CASE x = End(w)
            BY <2>2, <3>1 DEF Ends, EndOf, Need
        <3>2. CASE x # End(w)
            BY <2>1, <2>3, <3>2 DEF Ends, End, EndOf, Need
        <3> QED
            BY <3>1, <3>2
    <2>4. (\A v \in Writers : Holding(v) => old[v] = 0 \/ Ends(old[v]))'
        <3> SUFFICES ASSUME NEW v \in Writers, Holding(v)' PROVE (old[v] = 0 \/ Ends(old[v]))'
            OBVIOUS
        <3>1. Holding(v) /\ old'[v] = old[v]
            BY <2>1
        <3>2. old[v] = 0 \/ Ends(old[v])
            BY <3>1 DEF Chained
        <3> QED
            BY <2>3, <3>1, <3>2
    <2>5. \A a \in accepted' : a.at = 0 \/ Ends(a.at)'
        <3> SUFFICES ASSUME NEW a \in accepted' PROVE a.at = 0 \/ Ends(a.at)'
            OBVIOUS
        <3>1. a \in accepted \/ (a = b /\ b.at = old[w])
            BY <2>1
        <3>2. a.at = 0 \/ Ends(a.at)
            BY <2>1, <3>1 DEF Chained
        <3> QED
            BY <2>3, <3>2
    <2> QED
        BY <2>1, <2>3, <2>4, <2>5 DEF Chained
<1>4. CASE SealStore \/ SealDone \/ Walk \/ ResetUnseal \/ ResetScrub \/ UNCHANGED vars
    <2>1. UNCHANGED <<wpc, rec, old, accepted, offset>>
        BY <1>4 DEF SealStore, SealDone, Walk, ResetUnseal, ResetScrub, vars, wvars
    <2>2. \A x : Ends(x)' <=> Ends(x)
        BY <2>1, SameSlots DEF Holding
    <2> QED
        BY <2>1, <2>2 DEF Chained, Holding
<1>5. CASE ResetOffset
    <2>1. offset' = 0 /\ accepted' = {} /\ wpc' = wpc /\ \A w \in Writers : ~Holding(w)
        BY <1>5 DEF ResetOffset, wvars, FenceInv, QuiescentDrain, PastFence, Holding
    <2> QED
        BY <2>1 DEF Chained, Holding
<1>6. CASE Crash
    <2>1. offset' = 0 /\ accepted' = {} /\ \A w \in Writers : wpc'[w] = "idle"
        BY <1>6 DEF Crash
    <2> QED
        BY <2>1 DEF Chained, Holding
<1> QED
    BY <1>1, <1>2, <1>3, <1>4, <1>5, <1>6 DEF Next, WriterStep, DrainerStep

LEMMA CoverStep ==
    ASSUME TypeInv, FenceInv, SlotInv, MemInv, TailInv, Covered, ~Crash, [Next]_vars
    PROVE  Covered'
<1> USE SlotNumbers
<1>0. Cap \in Nat /\ mem \in [0 .. Cap-1 -> Nat]
    BY SizesAssumption DEF TypeInv, TypeOK
<1>1. ASSUME NEW w \in Writers, Enter(w) \/ CheckSealed(w) \/ Refuse(w)
      PROVE  Covered'
    <2>1. /\ \A v \in Writers : Holding(v)' <=> Holding(v)
          /\ \A v \in Writers : Holding(v) => old'[v] = old[v] /\ rec'[v] = rec[v]
          /\ UNCHANGED <<accepted, mem, dpc>>
        BY <1>1 DEF Enter, CheckSealed, Refuse, Return, Holding, TypeInv, TypeOK
    <2>2. \A i : InSlot(i)' <=> InSlot(i)
        BY <2>1, SameSlots
    <2> QED
        BY <2>1, <2>2 DEF Covered
<1>2. ASSUME NEW w \in Writers, Claim(w) PROVE Covered'
    <2>1. /\ \A v \in Writers : v # w => (Holding(v)' <=> Holding(v)) /\ old'[v] = old[v]
          /\ ~Holding(w) /\ UNCHANGED <<rec, accepted, mem, dpc>>
        BY <1>2 DEF Claim, Holding, TypeInv, TypeOK
    <2>2. \A i : InSlot(i) => InSlot(i)'
        BY <2>1 DEF InSlot, End, EndOf, Need
    <2> QED
        BY <2>1, <2>2 DEF Covered
<1>3. ASSUME NEW w \in Writers, WriteHeader(w) \/ WritePayload(w) PROVE Covered'
    <2>1. /\ \A v \in Writers : Holding(v)' <=> Holding(v)
          /\ UNCHANGED <<rec, old, accepted, dpc>> /\ Holding(w)
          /\ \/ mem' = WithHeader(mem, old[w], Len(rec[w]))
             \/ mem' = WithPayload(mem, old[w], rec[w])
        BY <1>3 DEF WriteHeader, WritePayload, Holding, TypeInv, TypeOK
    <2>2. \A i : InSlot(i)' <=> InSlot(i)
        BY <2>1, SameSlots
    <2>3. /\ rec[w] \in Records /\ old[w] \in Nat /\ Len(rec[w]) \in Nat
          /\ Need(rec[w]) = Hdr + Len(rec[w]) /\ Hdr \in Nat /\ Hdr > 0
        <3>1. rec[w] \in Records /\ old[w] \in Nat
            BY <2>1 DEF Holding
        <3>2. Len(rec[w]) \in Nat /\ Need(rec[w]) = Hdr + Len(rec[w])
            BY <3>1, RecordType, Zenon
        <3> QED
            BY <3>1, <3>2, SizesAssumption
    <2>4. ASSUME NEW i \in 0 .. Cap-1, ~InSlot(i) PROVE mem'[i] = mem[i]
        <3>1. i \notin old[w] .. old[w] + Need(rec[w]) - 1
            <4>1. i \in old[w] .. End(w) - 1 => InSlot(i)
                BY <2>1 DEF InSlot
            <4>2. End(w) = old[w] + Need(rec[w])
                BY DEF End
            <4>3. ~(i \in old[w] .. End(w) - 1)
                BY <2>4, <4>1, Zenon
            <4> DEFINE n == Need(rec[w])
            <4>4. n \in Nat /\ old[w] \in Nat /\ End(w) = old[w] + n
                BY <2>3, <4>2
            <4> HIDE DEF n
            <4>5. i \notin old[w] .. old[w] + n - 1
                BY <4>3, <4>4
            <4> QED
                BY <4>5 DEF n
        <3>2. /\ i # old[w] /\ i \notin old[w]+1 .. old[w]+Hdr-1
              /\ i \notin old[w]+Hdr .. old[w]+Need(rec[w])-1
            BY <2>3, <3>1, SMTT(30)
        <3>3. i \in DOMAIN mem
            BY <1>0
        <3> QED
            BY <2>1, <3>2, <3>3 DEF WithHeader, WithPayload
    <2> QED
        BY <2>1, <2>2, <2>4 DEF Covered
<1>4. ASSUME NEW w \in Writers, Accept(w) PROVE Covered'
    <2> DEFINE b == [at |-> old[w], rec |-> rec[w]]
    <2>1. /\ \A v \in Writers : v # w => (Holding(v)' <=> Holding(v)) /\ old'[v] = old[v]
                                         /\ rec'[v] = rec[v]
          /\ accepted' = accepted \cup {b} /\ UNCHANGED <<mem, dpc>>
        BY <1>4 DEF Accept, Return, Holding, TypeInv, TypeOK
    <2>2. b \in accepted' /\ b.at = old[w] /\ b.rec = rec[w]
        BY <2>1
    <2> HIDE DEF b
    <2>3. \A i : InSlot(i) => InSlot(i)'
        <3>1. \A i \in old[w] .. End(w) - 1 : InSlot(i)'
            BY <2>2 DEF InSlot, End, EndOf, Need
        <3> QED
            BY <2>1, <3>1 DEF InSlot, End, EndOf, Need
    <2> QED
        BY <2>1, <2>3 DEF Covered
<1>5. CASE SealStore \/ SealDone \/ Walk \/ UNCHANGED vars
    <2>1. UNCHANGED <<wpc, rec, old, accepted, mem>>
        BY <1>5 DEF SealStore, SealDone, Walk, vars, wvars
    <2>2. \A x : InSlot(x)' <=> InSlot(x)
        BY <2>1, SameSlots DEF Holding
    <2>3. dpc' \in {"open", "sealing", "walk", "reset"} => dpc \in {"open", "sealing", "walk", "reset"}
        BY <1>5 DEF SealStore, SealDone, Walk, vars
    <2> QED
        BY <2>1, <2>2, <2>3 DEF Covered
<1>6. CASE ResetOffset \/ ResetUnseal
    BY <1>6 DEF ResetOffset, ResetUnseal, Covered
<1>7. CASE ResetScrub
    <2>1. \A i \in 0 .. Cap-1 : mem'[i] = 0
        BY <1>0, <1>7 DEF ResetScrub, TailInv, TypeInv, TypeOK
    <2> QED
        BY <2>1 DEF Covered
<1> QED
    BY <1>1, <1>2, <1>3, <1>4, <1>5, <1>6, <1>7 DEF Next, WriterStep, DrainerStep

\* Empty records are turned away.
Nonempty ==
    /\ \A w \in Writers : wpc[w] # "idle" => Len(rec[w]) > 0
    /\ \A a \in accepted : Len(a.rec) > 0

LEMMA NonemptyInit == Init => Nonempty
BY DEF Init, Nonempty

LEMMA NonemptyStep == ASSUME TypeInv, Nonempty, [Next]_vars PROVE Nonempty'
<1>1. ASSUME NEW w \in Writers, Enter(w) PROVE Nonempty'
    BY <1>1 DEF Enter, Nonempty, TypeInv, TypeOK
<1>2. ASSUME NEW w \in Writers, CheckSealed(w) \/ Claim(w) \/ WriteHeader(w) \/ WritePayload(w)
      PROVE  Nonempty'
    BY <1>2 DEF CheckSealed, Claim, WriteHeader, WritePayload, Nonempty, TypeInv, TypeOK
<1>3. ASSUME NEW w \in Writers, Accept(w) \/ Refuse(w) PROVE Nonempty'
    <2>1. /\ \A v \in Writers : wpc'[v] # "idle" => wpc[v] # "idle" /\ rec'[v] = rec[v]
          /\ wpc[w] # "idle"
          /\ \/ accepted' = accepted
             \/ accepted' = accepted \cup {[at |-> old[w], rec |-> rec[w]]}
        BY <1>3 DEF Accept, Refuse, Return, TypeInv, TypeOK
    <2>2. \A a \in accepted' : a \in accepted \/ a.rec = rec[w]
        BY <2>1
    <2> QED
        BY <2>1, <2>2 DEF Nonempty
<1>4. CASE DrainerStep
    BY <1>4 DEF DrainerStep, SealStore, SealDone, Walk, ResetOffset, ResetUnseal, ResetScrub,
                wvars, Nonempty
<1>5. CASE Crash
    BY <1>5 DEF Crash, Nonempty
<1>6. CASE UNCHANGED vars
    BY <1>6 DEF vars, wvars, Nonempty
<1> QED
    BY <1>1, <1>2, <1>3, <1>4, <1>5, <1>6 DEF Next, WriterStep

-----------------------------------------------------------------------------
(* The walk over a buffer at rest.                                           *)
LEMMA Smallest ==
    ASSUME NEW T \in SUBSET Nat, T # {}
    PROVE  \E n \in T : \A m \in T : n <= m
<1>1. PICK n \in T : \A m \in T : ~(<<m, n>> \in OpToRel(<, Nat))
    BY WFMin, NatLessThanWellFounded
<1>2. \A m \in T : ~(m < n)
    BY <1>1 DEF OpToRel
<1> QED
    BY <1>2

AtRest == \A w \in Writers : ~Holding(w)

\* Where the walk can come to: the start, or the end of a frame.
Place(pos) == pos = 0 \/ \E c \in accepted : EndOf(c) = pos

LEMMA AroundPlace ==
    ASSUME TypeInv, SlotInv, NEW pos \in Nat, Place(pos), NEW a \in accepted
    PROVE  a.at >= pos \/ EndOf(a) <= pos
<1>1. CASE pos = 0
    BY <1>1, SlotNumbers
<1>2. CASE pos # 0
    <2>1. PICK c \in accepted : EndOf(c) = pos
        BY <1>2 DEF Place
    <2>2. /\ a.at \in Nat /\ EndOf(a) \in Nat /\ c.at \in Nat /\ EndOf(c) \in Nat
          /\ c.at < EndOf(c)
        BY SlotNumbers DEF EndOf
    <2>3. a = c \/ EndOf(a) <= c.at \/ EndOf(c) <= a.at
        BY DEF SlotInv
    <2> QED
        BY <2>1, <2>2, <2>3
<1> QED
    BY <1>1, <1>2

\* Where no frame begins, none follows: the chain has no gap.
LEMMA NothingFollows ==
    ASSUME TypeInv, SlotInv, Chained, AtRest, NEW pos \in Nat, Place(pos),
           \A a \in accepted : a.at # pos
    PROVE  \A a \in accepted : EndOf(a) <= pos /\ a.at < pos
<1> DEFINE Later == {a.at : a \in {b \in accepted : b.at >= pos}}
<1>0. \A a \in accepted : a.at \in Nat /\ EndOf(a) \in Nat /\ a.at < EndOf(a)
    BY SlotNumbers DEF EndOf
<1>1. Later = {}
    <2> SUFFICES ASSUME Later # {} PROVE FALSE
        OBVIOUS
    <2>1. Later \in SUBSET Nat
        BY <1>0
    <2>2. PICK n \in Later : \A m \in Later : n <= m
        BY <2>1, Smallest
    <2>3. PICK a \in accepted : a.at >= pos /\ a.at = n
        BY <2>2
    <2>4. a.at # 0
        BY <1>0, <2>3
    <2>5. PICK b \in accepted : EndOf(b) = a.at
        BY <2>4 DEF Chained, Ends, AtRest
    <2>6. CASE b.at >= pos
        <3>1. b.at \in Later
            BY <2>6
        <3>2. a.at <= b.at
            BY <2>2, <2>3, <3>1
        <3>3. b.at \in Nat /\ b.at < a.at /\ a.at \in Nat
            BY <1>0, <2>5
        <3> QED
            BY <3>2, <3>3
    <2>7. CASE EndOf(b) <= pos
        BY <1>0, <2>3, <2>5, <2>7
    <2> QED
        BY <2>6, <2>7, AroundPlace
<1>2. \A a \in accepted : ~(a.at >= pos)
    BY <1>1
<1> QED
    BY <1>0, <1>2, AroundPlace

Stops(pos) ==
    \/ pos + Hdr > Used
    \/ ReadLength(pos) = 0
    \/ pos + Hdr + ReadLength(pos) > Used

FrameAt(pos) == [at |-> pos, rec |-> [i \in 1 .. ReadLength(pos) |-> mem[pos+Hdr+i-1]]]

\* Behind the last frame the walk reads a zero length, or comes to the mark.
LEMMA WalkStops ==
    ASSUME TypeInv, SlotInv, Chained, Covered, AtRest, dpc = "walk",
           NEW pos \in Nat, Place(pos), \A a \in accepted : a.at # pos
    PROVE  Stops(pos)
<1> SUFFICES ASSUME pos + Hdr <= Used PROVE ReadLength(pos) = 0
    BY SizesAssumption DEF Stops, Used, TypeInv, TypeOK
<1>1. Hdr \in Nat /\ Hdr > 0 /\ Cap \in Nat /\ Used \in Nat /\ Used <= Cap
    BY SizesAssumption DEF Used, TypeInv, TypeOK
<1>2. \A i \in pos .. pos+Hdr-1 : i \in 0 .. Cap-1 /\ i >= pos
    BY <1>1
<1>3. ASSUME NEW i \in 0 .. Cap-1, i >= pos PROVE mem[i] = 0
    <2>1. \A a \in accepted : a.at \in Nat /\ EndOf(a) \in Nat /\ EndOf(a) <= pos
        BY NothingFollows, SlotNumbers DEF EndOf
    <2>2. ~InSlot(i)
        BY <1>3, <2>1 DEF InSlot, AtRest
    <2> QED
        BY <2>2 DEF Covered
<1>4. \A i \in pos .. pos+Hdr-1 : mem[i] = 0
    BY <1>2, <1>3
<1> QED
    BY <1>1, <1>4 DEF ReadLength

\* Where a frame begins the walk reads that frame.
LEMMA WalkReads ==
    ASSUME TypeInv, SlotInv, MemInv, Nonempty, NEW a \in accepted
    PROVE  /\ ~Stops(a.at) /\ FrameAt(a.at) = a
           /\ a.at + Hdr + ReadLength(a.at) = EndOf(a)
           /\ EndOf(a) \in 0 .. Cap /\ a.at \in 0 .. Cap /\ a.at < EndOf(a)
<1> DEFINE pos == a.at
           r == a.rec
           l == Len(a.rec)
<1>1. /\ pos \in Nat /\ r \in Records /\ l \in Nat /\ l > 0 /\ a = [at |-> pos, rec |-> r]
    <2>1. a.at \in Nat /\ a.rec \in Records /\ a = [at |-> a.at, rec |-> a.rec]
        BY DEF TypeInv, TypeOK, Slots
    <2>2. Len(a.rec) \in Nat
        BY <2>1, RecordType
    <2> QED
        BY <2>1, <2>2 DEF Nonempty
<1>2. EndOf(a) = pos + Hdr + l /\ Need(r) = Hdr + l
    BY <1>1, SizesAssumption DEF EndOf, Need
<1>3. Hdr \in Nat /\ Hdr > 0 /\ Cap \in Nat /\ offset \in Nat
    BY SizesAssumption DEF TypeInv, TypeOK
<1>4. EndOf(a) <= offset /\ EndOf(a) <= Cap
    BY DEF SlotInv, Below
<1>5. /\ \A i \in pos .. pos+Hdr-1 : mem[i] = IF i = pos THEN l ELSE 0
      /\ \A i \in pos+Hdr .. pos+Need(r)-1 : mem[i] = r[i - pos - Hdr + 1]
    BY DEF MemInv, HeaderIn, PayloadIn
<1>6. r = [i \in 1 .. l |-> r[i]]
    <2>1. r \in Seq(Nat \ {0})
        BY <1>1, RecordsAssumption
    <2> QED
        BY <2>1
<1> HIDE DEF pos, r, l
<1>7. ReadLength(pos) = l
    <2>1. mem[pos] = l /\ \A i \in pos+1 .. pos+Hdr-1 : mem[i] = 0
        BY <1>1, <1>3, <1>5
    <2> QED
        BY <2>1 DEF ReadLength
<1>8. Used = IF offset < Cap THEN offset ELSE Cap
    BY DEF Used
<1>9. ~Stops(pos)
    BY <1>1, <1>2, <1>3, <1>4, <1>7, <1>8 DEF Stops
<1>10. ASSUME NEW i \in 1 .. l PROVE mem[pos+Hdr+i-1] = r[i]
    <2>1. pos+Hdr+i-1 \in pos+Hdr .. pos+Need(r)-1 /\ (pos+Hdr+i-1) - pos - Hdr + 1 = i
        BY <1>1, <1>2, <1>3
    <2> QED
        BY <1>5, <2>1
<1>11. FrameAt(pos) = a
    BY <1>1, <1>6, <1>7, <1>10 DEF FrameAt
<1>12. EndOf(a) \in 0 .. Cap /\ pos \in 0 .. Cap /\ pos < EndOf(a)
    BY <1>1, <1>2, <1>3, <1>4
<1> QED
    BY <1>2, <1>7, <1>9, <1>11, <1>12 DEF pos

\* walk of ForEachFrame, from first on.
Walks(f, first) ==
    f = [pos \in first .. Cap |->
            IF Stops(pos) THEN << >> ELSE <<FrameAt(pos)>> \o f[pos + Hdr + ReadLength(pos)]]

LEMMA Onward ==
    ASSUME TypeInv, NEW pos \in 0 .. Cap, ~Stops(pos)
    PROVE  pos + Hdr + ReadLength(pos) \in pos + 1 .. Cap
<1>1. Hdr \in Nat /\ Hdr > 0 /\ Cap \in Nat /\ Used \in Nat /\ Used <= Cap
    BY SizesAssumption DEF Used, TypeInv, TypeOK
<1>2. pos \in 0 .. Cap-1 /\ ReadLength(pos) \in Nat
    <2>1. pos + Hdr <= Used
        BY <1>1 DEF Stops
    <2>2. pos \in 0 .. Cap-1
        BY <1>1, <2>1
    <2>3. mem[pos] \in Nat
        BY <2>2 DEF TypeInv, TypeOK
    <2> QED
        BY <1>1, <2>2, <2>3 DEF ReadLength
<1>3. ~(pos + Hdr + ReadLength(pos) > Used)
    BY DEF Stops
<1> QED
    BY <1>1, <1>2, <1>3

LEMMA WalkExists == ASSUME TypeInv PROVE \E f : Walks(f, 0)
<1> DEFINE Bad == {n \in 0 .. Cap : ~ \E f : Walks(f, Cap - n)}
<1>0. Cap \in Nat /\ Hdr \in Nat /\ Hdr > 0 /\ Used \in Nat /\ Used <= Cap
    BY SizesAssumption DEF Used, TypeInv, TypeOK
<1>1. Walks([pos \in Cap .. Cap |-> << >>], Cap - 0)
    <2>1. Cap - 0 = Cap /\ \A pos \in Cap .. Cap : pos + Hdr > Used
        BY <1>0
    <2> QED
        BY <2>1 DEF Walks, Stops
<1>2. ASSUME NEW n \in 0 .. Cap - 1, NEW h, Walks(h, Cap - n)
      PROVE  \E f : Walks(f, Cap - (n + 1))
    <2> DEFINE first == Cap - (n + 1)
               next(pos) == pos + Hdr + ReadLength(pos)
               g == [pos \in first .. Cap |->
                       IF Stops(pos) THEN << >> ELSE <<FrameAt(pos)>> \o h[next(pos)]]
    <2>1. first \in Nat /\ Cap - n = first + 1
        BY <1>0
    <2>2. ASSUME NEW pos \in first + 1 .. Cap PROVE pos \in first .. Cap /\ h[pos] = g[pos]
        <3>1. pos \in first .. Cap /\ pos \in Cap - n .. Cap
            BY <2>1
        <3>2. h[pos] = IF Stops(pos) THEN << >> ELSE <<FrameAt(pos)>> \o h[next(pos)]
            BY <1>2, <3>1 DEF Walks
        <3> QED
            BY <3>1, <3>2
    <2>3. ASSUME NEW pos \in first .. Cap, ~Stops(pos) PROVE h[next(pos)] = g[next(pos)]
        <3>1. pos \in 0 .. Cap
            BY <2>1
        <3>2. next(pos) \in pos + 1 .. Cap
            BY <2>3, <3>1, Onward
        <3> HIDE DEF next, g
        <3>3. next(pos) \in first + 1 .. Cap
            BY <2>1, <3>2
        <3> QED
            BY <2>2, <3>3
    <2>4. g = [pos \in first .. Cap |->
                 IF Stops(pos) THEN << >> ELSE <<FrameAt(pos)>> \o g[next(pos)]]
        BY <2>3
    <2>5. Walks(g, first)
        BY <2>4 DEF Walks
    <2> QED
        BY <2>5
<1>3. Bad = {}
    <2> SUFFICES ASSUME Bad # {} PROVE FALSE
        OBVIOUS
    <2>1. Bad \in SUBSET Nat
        OBVIOUS
    <2>2. PICK n \in Bad : \A m \in Bad : n <= m
        BY <2>1, Smallest
    <2>3. n # 0
        BY <1>1, <2>2
    <2>4. n - 1 \in 0 .. Cap - 1 /\ n - 1 \in 0 .. Cap /\ n - 1 \notin Bad /\ n - 1 + 1 = n
        <3>1. n - 1 \in 0 .. Cap - 1 /\ n - 1 \in 0 .. Cap /\ ~(n <= n - 1) /\ n - 1 + 1 = n
            BY <1>0, <2>3
        <3> QED
            BY <2>2, <3>1
    <2>5. PICK h : Walks(h, Cap - (n - 1))
        BY <2>4
    <2>6. \E f : Walks(f, Cap - (n - 1 + 1))
        BY <1>2, <2>4, <2>5
    <2> QED
        BY <2>2, <2>4, <2>6
<1>4. Cap \in 0 .. Cap /\ Cap - Cap = 0
    BY <1>0
<1> QED
    BY <1>3, <1>4

LEMMA WalkIs ==
    ASSUME TypeInv
    PROVE  \E f : Walks(f, 0) /\ ForEachFrame = f[0]
<1> DEFINE f == CHOOSE g : Walks(g, 0)
<1>1. Walks(f, 0)
    BY WalkExists
<1>2. ForEachFrame = f[0]
    BY DEF ForEachFrame, Walks, Stops, FrameAt
<1> QED
    BY <1>1, <1>2

Ascending(s) == \A i, j \in DOMAIN s : i < j => s[i].at < s[j].at

LEMMA Prepend ==
    ASSUME NEW S, NEW a \in S, NEW s \in Seq(S), Ascending(s), a.at \in Nat,
           \A b \in ToSet(s) : a.at < b.at
    PROVE  /\ <<a>> \o s \in Seq(S) /\ ToSet(<<a>> \o s) = {a} \cup ToSet(s)
           /\ Ascending(<<a>> \o s)
<1> DEFINE n == Len(s)
           c == <<a>> \o s
<1>1. <<a>> \in Seq(S) /\ Len(<<a>>) = 1 /\ <<a>>[1] = a
    OBVIOUS
<1>2. n \in Nat /\ DOMAIN s = 1 .. n
    BY LenProperties
<1>3. /\ c \in Seq(S) /\ Len(c) = 1 + n
      /\ \A i \in 1 .. 1 + n : c[i] = IF i <= 1 THEN <<a>>[i] ELSE s[i - 1]
    BY <1>1, ConcatProperties
<1>4. DOMAIN c = 1 .. n + 1
    BY <1>2, <1>3, LenProperties
<1> HIDE DEF c, n
<1>5. c[1] = a /\ \A i \in 1 .. n : c[i + 1] = s[i] /\ i + 1 \in 1 .. n + 1
    BY <1>1, <1>2, <1>3
<1>6. \A i \in 1 .. n + 1 : i = 1 \/ (i - 1 \in 1 .. n /\ c[i] = s[i - 1])
    BY <1>2, <1>3
<1>7. 1 \in 1 .. n + 1
    BY <1>2
<1>8. ToSet(c) = {a} \cup ToSet(s)
    <2>1. ToSet(c) \subseteq {a} \cup ToSet(s)
        <3>1. ASSUME NEW i \in 1 .. n + 1 PROVE c[i] = a \/ c[i] \in ToSet(s)
            BY <1>2, <1>5, <1>6 DEF ToSet
        <3> QED
            BY <1>4, <3>1 DEF ToSet
    <2>2. a \in ToSet(c)
        BY <1>4, <1>5, <1>7 DEF ToSet
    <2>3. ToSet(s) \subseteq ToSet(c)
        BY <1>2, <1>4, <1>5 DEF ToSet
    <2> QED
        BY <2>1, <2>2, <2>3
<1>9. ASSUME NEW i \in 1 .. n + 1, NEW j \in 1 .. n + 1, i < j PROVE c[i].at < c[j].at
    <2>1. j # 1 /\ j - 1 \in 1 .. n /\ c[j] = s[j - 1]
        BY <1>2, <1>6, <1>9
    <2>2. CASE i = 1
        <3>1. s[j - 1] \in ToSet(s)
            BY <1>2, <2>1 DEF ToSet
        <3> QED
            BY <1>5, <2>1, <2>2, <3>1
    <2>3. CASE i # 1
        <3>1. i - 1 \in 1 .. n /\ c[i] = s[i - 1] /\ i - 1 < j - 1
            BY <1>2, <1>6, <1>9, <2>3
        <3> QED
            BY <1>2, <2>1, <3>1 DEF Ascending
    <2> QED
        BY <2>2, <2>3
<1> QED
    BY <1>3, <1>4, <1>8, <1>9 DEF Ascending, c

\* From every place it comes to, the walk hands out the frames from there on.
LEMMA WalkFinds ==
    ASSUME TypeInv, SlotInv, MemInv, Nonempty, Chained, Covered, AtRest, dpc = "walk"
    PROVE  ToSet(ForEachFrame) = accepted /\ Ascending(ForEachFrame)
<1>1. PICK f : Walks(f, 0) /\ ForEachFrame = f[0]
    BY WalkIs
<1> DEFINE From(pos) == {a \in accepted : a.at >= pos}
           Good(pos) == f[pos] \in Seq(Slots) /\ ToSet(f[pos]) = From(pos) /\ Ascending(f[pos])
           Bad == {Cap - pos : pos \in {p \in 0 .. Cap : Place(p) /\ ~Good(p)}}
<1>2. Cap \in Nat /\ \A a \in accepted : a.at \in Nat /\ EndOf(a) \in Nat /\ a.at < EndOf(a)
    BY SlotNumbers DEF EndOf
<1>3. ASSUME NEW pos \in 0 .. Cap, Place(pos),
             \A p \in pos + 1 .. Cap : Place(p) => Good(p)
      PROVE  Good(pos)
    <2>1. f[pos] = IF Stops(pos) THEN << >>
                   ELSE <<FrameAt(pos)>> \o f[pos + Hdr + ReadLength(pos)]
        BY <1>1 DEF Walks
    <2>2. CASE \A a \in accepted : a.at # pos
        <3>1. f[pos] = << >>
            BY <1>3, <2>1, <2>2, WalkStops
        <3>2. \A a \in accepted : a.at < pos
            BY <1>3, <2>2, NothingFollows
        <3>3. From(pos) = {}
            BY <1>2, <3>2
        <3> QED
            BY <3>1, <3>3 DEF ToSet, Ascending
    <2>3. CASE \E a \in accepted : a.at = pos
        <3>1. PICK a \in accepted : a.at = pos
            BY <2>3
        <3> DEFINE q == EndOf(a)
        <3>2. f[pos] = <<a>> \o f[q] /\ q \in pos + 1 .. Cap
            BY <1>2, <2>1, <3>1, WalkReads
        <3>3. Good(q)
            BY <1>3, <3>2 DEF Place
        <3>4. \A b \in accepted : b.at >= pos <=> b = a \/ b.at >= q
            <4> SUFFICES ASSUME NEW b \in accepted PROVE b.at >= pos <=> b = a \/ b.at >= q
                OBVIOUS
            <4>1. b = a \/ EndOf(a) <= b.at \/ EndOf(b) <= a.at
                BY DEF SlotInv
            <4> QED
                BY <1>2, <3>1, <4>1
        <3>5. From(pos) = {a} \cup From(q)
            BY <3>4, <1>2, <3>1
        <3>6. a \in Slots /\ a.at \in Nat /\ \A b \in ToSet(f[q]) : a.at < b.at
            BY <1>2, <3>3 DEF TypeInv, TypeOK
        <3> HIDE DEF q, From
        <3> QED
            BY <3>2, <3>3, <3>5, <3>6, Prepend
    <2> QED
        BY <2>2, <2>3
<1>4. Bad = {}
    <2> HIDE DEF Good
    <2> SUFFICES ASSUME Bad # {} PROVE FALSE
        OBVIOUS
    <2>1. Bad \in SUBSET Nat
        BY <1>2
    <2>2. PICK n \in Bad : \A m \in Bad : n <= m
        BY <2>1, Smallest
    <2>3. PICK pos \in 0 .. Cap : Place(pos) /\ ~Good(pos) /\ n = Cap - pos
        BY <2>2
    <2>4. ASSUME NEW p \in pos + 1 .. Cap, Place(p) PROVE Good(p)
        <3>1. p \in 0 .. Cap /\ ~(n <= Cap - p)
            BY <1>2, <2>3
        <3> QED
            BY <2>2, <2>4, <3>1
    <2> QED
        BY <1>3, <2>3, <2>4
<1>5. Good(0)
    <2>1. 0 \in 0 .. Cap /\ Place(0)
        BY <1>2 DEF Place
    <2> HIDE DEF Good
    <2> QED
        BY <1>4, <2>1
<1>6. From(0) = accepted
    BY <1>2
<1> QED
    BY <1>1, <1>5, <1>6

\* The state in which the walk starts, and what it has found until the reset.
DrainInv ==
    /\ TypeInv /\ FenceInv /\ SlotInv /\ Chained /\ Nonempty
    /\ Scrubbed => MemInv
    /\ Clean => TailInv /\ Covered
    /\ DrainExactUnlessSpoilt

LEMMA DrainStep == DrainInv /\ [Next]_vars => DrainInv'
<1> SUFFICES ASSUME DrainInv, [Next]_vars PROVE DrainInv'
    OBVIOUS
<1>1. TypeInv' /\ FenceInv' /\ SlotInv' /\ Chained' /\ Nonempty' /\ (Scrubbed => MemInv)'
      /\ (Clean => TailInv)'
    BY TypeStep, FenceStep, SlotStep, ChainStep, NonemptyStep, ScrubbedStep, CleanStep
       DEF DrainInv
<1>2. ASSUME Clean' PROVE Covered' /\ DrainExactUnlessSpoilt'
    <2>1. ~Crash
        BY <1>2 DEF Crash, Clean
    <2>2. spoilt \subseteq spoilt'
        BY <2>1 DEF Next, WriterStep, DrainerStep, Enter, CheckSealed, Claim, WriteHeader,
            WritePayload, Accept, Refuse, SealStore, SealDone, Walk, ResetOffset,
            ResetUnseal, ResetScrub, vars
    <2>3. /\ TypeInv /\ FenceInv /\ SlotInv /\ Chained /\ Nonempty /\ MemInv /\ TailInv
          /\ Covered /\ (dpc = "reset" => ToSet(drained) = accepted /\ Ascending(drained))
        BY <1>2, <2>2 DEF DrainInv, Clean, Scrubbed, DrainExactUnlessSpoilt, DrainExact, Ascending
    <2>4. Covered'
        BY <2>1, <2>3, CoverStep
    <2>5. dpc' = "reset" => ToSet(drained') = accepted' /\ Ascending(drained')
        <3>1. CASE Walk
            <4>1. dpc = "walk" /\ drained' = ForEachFrame /\ accepted' = accepted
                BY <3>1 DEF Walk
            <4>2. AtRest
                BY <2>3, <4>1 DEF AtRest, FenceInv, QuiescentDrain, PastFence, Holding
            <4> QED
                BY <2>3, <4>1, <4>2, WalkFinds
        <3>2. ASSUME NEW w \in Writers, Accept(w) PROVE dpc' # "reset"
            BY <2>3, <3>2, PastFenceMeans DEF Accept, PastFence
        <3>3. ASSUME NEW w \in Writers, WriterStep(w), ~Accept(w)
              PROVE  UNCHANGED <<drained, accepted, dpc>>
            BY <3>3 DEF WriterStep, Enter, CheckSealed, Claim, WriteHeader, WritePayload, Refuse
        <3>4. CASE SealStore \/ SealDone \/ ResetOffset \/ ResetUnseal \/ ResetScrub
            BY <3>4 DEF SealStore, SealDone, ResetOffset, ResetUnseal, ResetScrub
        <3>5. CASE UNCHANGED vars
            BY <2>3, <3>5 DEF vars, Ascending
        <3>6. ASSUME UNCHANGED <<drained, accepted, dpc>>
              PROVE  dpc' = "reset" => ToSet(drained') = accepted' /\ Ascending(drained')
            BY <2>3, <3>6 DEF Ascending
        <3> QED
            BY <2>1, <3>1, <3>2, <3>3, <3>4, <3>5, <3>6 DEF Next, DrainerStep
    <2> QED
        BY <2>4, <2>5 DEF DrainExactUnlessSpoilt, DrainExact, Ascending
<1>3. DrainExactUnlessSpoilt'
    BY <1>2 DEF DrainExactUnlessSpoilt, Clean
<1>4. (Clean => TailInv /\ Covered)'
    BY <1>1, <1>2
<1> QED
    BY <1>1, <1>3, <1>4 DEF DrainInv

\* The promise of the buffer (mmap_buffer.h:38): with any number of writers, whenever
\* their calls start, ForEachFrame (mmap_buffer.h:40-54) hands its callback exactly
\* the records whose Write returned true in this cycle, byte for byte, once each and in
\* the order of their slots, unless a writer was admitted between the unsealing and
\* the scrub or an earlier process left bytes in the file.
THEOREM WalkIsExact == Spec => []DrainExactUnlessSpoilt
<1>1. Init => DrainInv
    <2>1. Init => DrainExactUnlessSpoilt
        BY DEF Init, DrainExactUnlessSpoilt, DrainExact
    <2> QED
        BY <2>1, TypeInit, FenceInit, SlotInit, ChainInit, NonemptyInit, MemInit, TailInit
           DEF DrainInv
<1>2. DrainInv => DrainExactUnlessSpoilt
    BY DEF DrainInv
<1> QED
    BY <1>1, <1>2, DrainStep, PTL DEF Spec

=============================================================================
