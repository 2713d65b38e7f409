---------------------------- MODULE MmapBuffer ----------------------------
(* One MmapBuffer (src/mmap/mmap_buffer.{h,cpp}): a framed append buffer   *)
(* over a memory-mapped file, written by many threads at once, then        *)
(* sealed, walked and reset by the one thread that drains it.              *)
(*                                                                         *)
(* The grain is that of the code's atomics: every load, store and          *)
(* fetch_add of offset_, writers_ and sealed_ is a step, and so is every   *)
(* store into the mapped memory (the header, the payload, the scrub).      *)
(* Records are short sequences of non-zero bytes, so that a stale payload  *)
(* byte can be mistaken for a frame header as it can in the file.          *)
EXTENDS Integers, Sequences, FiniteSets, SequencesExt

CONSTANTS
    Writers,      \* the threads that call Write
    Records,      \* the payloads they write
    Cap,          \* region_.size(), in bytes
    Hdr,          \* the size of the length header (4 in the code)
    CanCrash,     \* may the process die and map the same file again?
    MaxOffset     \* bound: no call starts once offset_ is past it

ASSUME WritersAssumption == IsFiniteSet(Writers)
ASSUME RecordsAssumption == Records \subseteq Seq(Nat \ {0})
ASSUME SizesAssumption   == Cap \in Nat /\ Hdr \in Nat \ {0} /\ MaxOffset \in Nat
ASSUME FlagsAssumption   == CanCrash \in BOOLEAN

VARIABLES
    mem,       \* the bytes of the mapped region
    offset,    \* offset_: the next free byte, never rolled back
    writers,   \* writers_: how many calls are inside Write
    sealed,    \* sealed_
    wpc,       \* where each writer is in Write
    rec,       \* the record each writer is writing
    old,       \* the slot each writer has claimed
    dpc,       \* where the drainer is in Seal / ForEachFrame / ResetForReuse
    prev,      \* prev_used of ResetForReuse
    drained,   \* the frames the last ForEachFrame handed to its callback
    accepted,  \* ghost: the frames of this cycle whose Write returned true
    spoilt     \* ghost: what has happened that the zeroed tail does not survive

vars == <<mem, offset, writers, sealed, wpc, rec, old, dpc, prev, drained, accepted,
          spoilt>>
wvars == <<wpc, rec, old>>

-----------------------------------------------------------------------------
Used == IF offset < Cap THEN offset ELSE Cap

Need(r) == Hdr + Len(r)

\* A short length in little-endian order: its value, then zero bytes.
WithHeader(m, at, len) ==
    [i \in DOMAIN m |-> IF i = at THEN len
                        ELSE IF i \in at+1 .. at+Hdr-1 THEN 0
                        ELSE m[i]]

WithPayload(m, at, r) ==
    [i \in DOMAIN m |-> IF i \in at+Hdr .. at+Need(r)-1
                        THEN r[i - at - Hdr + 1] ELSE m[i]]

\* The length a walk reads at pos. A non-zero upper byte makes it larger
\* than any region, so the frame is taken to cross the end.
ReadLength(pos) ==
    IF \A i \in pos+1 .. pos+Hdr-1 : mem[i] = 0 THEN mem[pos] ELSE Cap + 1

\* ForEachFrame: from 0, frame after frame, up to the first zero length or
\* the first frame that would cross the high-water mark.
ForEachFrame ==
    LET end == Used
        Stops(pos) == \/ pos + Hdr > end
                      \/ ReadLength(pos) = 0
                      \/ pos + Hdr + ReadLength(pos) > end
        walk[pos \in 0 .. Cap] ==
            IF Stops(pos) THEN << >>
            ELSE LET len == ReadLength(pos)
                 IN <<[at |-> pos, rec |-> [i \in 1 .. len |-> mem[pos+Hdr+i-1]]]>>
                    \o walk[pos + Hdr + len]
    IN walk[0]

-----------------------------------------------------------------------------
Init ==
    /\ mem = [i \in 0 .. Cap-1 |-> 0]
    /\ offset = 0
    /\ writers = 0
    /\ sealed = FALSE
    /\ wpc = [w \in Writers |-> "idle"]
    /\ rec = [w \in Writers |-> << >>]
    /\ old = [w \in Writers |-> 0]
    /\ dpc = "open"
    /\ prev = 0
    /\ drained = << >>
    /\ accepted = {}
    /\ spoilt = {}

\* Write, first half of the fence: writers_ goes up before sealed_ is read.
\* A call may come at any time, also through a pointer loaded long ago. Empty
\* records are turned away before this and change nothing.
Enter(w) ==
    /\ wpc[w] = "idle"
    /\ offset <= MaxOffset
    /\ \E r \in Records :
        /\ Len(r) > 0
        /\ rec' = [rec EXCEPT ![w] = r]
    /\ wpc' = [wpc EXCEPT ![w] = "entered"]
    /\ writers' = writers + 1
    /\ UNCHANGED <<mem, offset, sealed, old, dpc, prev, drained, accepted, spoilt>>

\* Write, second half: a sealed buffer turns the writer away. Between the
\* unsealing and the scrub of ResetForReuse it does not.
CheckSealed(w) ==
    /\ wpc[w] = "entered"
    /\ wpc' = [wpc EXCEPT ![w] = IF sealed THEN "refused" ELSE "admitted"]
    /\ spoilt' = spoilt \cup (IF dpc = "scrub" /\ ~sealed THEN {"unscrubbed"} ELSE {})
    /\ UNCHANGED <<mem, offset, writers, sealed, rec, old, dpc, prev, drained, accepted>>

\* offset_.fetch_add: a claim that does not fit is refused and not undone.
Claim(w) ==
    /\ wpc[w] = "admitted"
    /\ offset' = offset + Need(rec[w])
    /\ old' = [old EXCEPT ![w] = offset]
    /\ wpc' = [wpc EXCEPT ![w] =
                  IF offset + Need(rec[w]) > Cap THEN "refused" ELSE "header"]
    /\ UNCHANGED <<mem, writers, sealed, rec, dpc, prev, drained, accepted, spoilt>>

WriteHeader(w) ==
    /\ wpc[w] = "header"
    /\ mem' = WithHeader(mem, old[w], Len(rec[w]))
    /\ wpc' = [wpc EXCEPT ![w] = "payload"]
    /\ UNCHANGED <<offset, writers, sealed, rec, old, dpc, prev, drained, accepted, spoilt>>

WritePayload(w) ==
    /\ wpc[w] = "payload"
    /\ mem' = WithPayload(mem, old[w], rec[w])
    /\ wpc' = [wpc EXCEPT ![w] = "written"]
    /\ UNCHANGED <<offset, writers, sealed, rec, old, dpc, prev, drained, accepted, spoilt>>

\* A call returns: its locals are gone.
Return(w) ==
    /\ wpc' = [wpc EXCEPT ![w] = "idle"]
    /\ rec' = [rec EXCEPT ![w] = << >>]
    /\ old' = [old EXCEPT ![w] = 0]

\* Write returns true: the caller now believes the record is in the buffer.
Accept(w) ==
    /\ wpc[w] = "written"
    /\ writers' = writers - 1
    /\ accepted' = accepted \cup {[at |-> old[w], rec |-> rec[w]]}
    /\ Return(w)
    /\ UNCHANGED <<mem, offset, sealed, dpc, prev, drained, spoilt>>

\* Write returns false.
Refuse(w) ==
    /\ wpc[w] = "refused"
    /\ writers' = writers - 1
    /\ Return(w)
    /\ UNCHANGED <<mem, offset, sealed, dpc, prev, drained, accepted, spoilt>>

-----------------------------------------------------------------------------
\* Seal: shut the door, then wait for the calls already inside.
SealStore ==
    /\ dpc = "open"
    /\ sealed' = TRUE
    /\ dpc' = "sealing"
    /\ UNCHANGED <<mem, offset, writers, wvars, prev, drained, accepted, spoilt>>

\* Mutant of SealDone: it waits for nobody.
SealDoneAtOnce ==
    /\ dpc = "sealing"
    /\ dpc' = "walk"
    /\ UNCHANGED <<mem, offset, writers, sealed, wvars, prev, drained, accepted, spoilt>>

SealDone ==
    /\ dpc = "sealing"
    /\ writers = 0
    /\ dpc' = "walk"
    /\ UNCHANGED <<mem, offset, writers, sealed, wvars, prev, drained, accepted, spoilt>>

\* The walk is one step: no writer is past the fence while it lasts
\* (QuiescentDrain), so nothing it reads can change under it.
Walk ==
    /\ dpc = "walk"
    /\ drained' = ForEachFrame
    /\ dpc' = "reset"
    /\ UNCHANGED <<mem, offset, writers, sealed, wvars, prev, accepted, spoilt>>

\* ResetForReuse, in the order of its three effects.
ResetOffset ==
    /\ dpc = "reset"
    /\ prev' = Used
    /\ offset' = 0
    /\ accepted' = {}
    /\ dpc' = "unseal"
    /\ UNCHANGED <<mem, writers, sealed, wvars, drained, spoilt>>

ResetUnseal ==
    /\ dpc = "unseal"
    /\ sealed' = FALSE
    /\ dpc' = "scrub"
    /\ UNCHANGED <<mem, offset, writers, wvars, prev, drained, accepted, spoilt>>

ResetScrub ==
    /\ dpc = "scrub"
    /\ mem' = [i \in DOMAIN mem |-> IF i < prev THEN 0 ELSE mem[i]]
    /\ dpc' = "open"
    /\ UNCHANGED <<offset, writers, sealed, wvars, prev, drained, accepted, spoilt>>

\* The process dies and a new one maps the same buffer-NNNNNN.mmap: the file
\* keeps its bytes, every atomic starts over.
Crash ==
    /\ CanCrash
    /\ offset' = 0
    /\ writers' = 0
    /\ sealed' = FALSE
    /\ wpc' = [w \in Writers |-> "idle"]
    /\ rec' = [w \in Writers |-> << >>]
    /\ old' = [w \in Writers |-> 0]
    /\ dpc' = "open"
    /\ prev' = 0
    /\ drained' = << >>
    /\ accepted' = {}
    /\ spoilt' = {"restart"}
    /\ UNCHANGED mem

WriterStep(w) ==
    \/ Enter(w) \/ CheckSealed(w) \/ Claim(w)
    \/ WriteHeader(w) \/ WritePayload(w)
    \/ Accept(w) \/ Refuse(w)

DrainerStep ==
    SealStore \/ SealDone \/ Walk \/ ResetOffset \/ ResetUnseal \/ ResetScrub

Next ==
    \/ \E w \in Writers : WriterStep(w)
    \/ DrainerStep
    \/ Crash

Spec == Init /\ [][Next]_vars

-----------------------------------------------------------------------------
WriterStates == {"idle", "entered", "refused", "admitted", "header", "payload", "written"}
DrainerStates == {"open", "sealing", "walk", "reset", "unseal", "scrub"}
Slots == [at : Nat, rec : Records]

\* The state is well formed, and writers_ counts exactly the calls that are
\* between the fetch_add and the fetch_sub of Write (mmap_buffer.cpp:28-48).
TypeOK ==
    /\ mem \in [0 .. Cap-1 -> Nat]
    /\ offset \in Nat
    /\ writers \in Nat
    /\ sealed \in BOOLEAN
    /\ wpc \in [Writers -> WriterStates]
    /\ rec \in [Writers -> Records \cup {<< >>}]
    /\ old \in [Writers -> Nat]
    /\ dpc \in DrainerStates
    /\ prev \in 0 .. Cap
    /\ accepted \subseteq Slots
    /\ spoilt \subseteq {"unscrubbed", "restart"}

PastFence(w) == wpc[w] \in {"admitted", "header", "payload", "written"}
Holding(w)   == wpc[w] \in {"header", "payload", "written"}

\* Seal's promise (mmap_buffer.h:21): from the moment Seal returns until the
\* reset unseals the buffer, no writer is past the sealed_ check, so the walk
\* and the reset of offset_ see a buffer at rest. It is the seq_cst fence of
\* mmap_buffer.cpp:25-32 that makes it true.
QuiescentDrain ==
    dpc \in {"walk", "reset", "unseal"} => \A w \in Writers : ~PastFence(w)

Span(at, r) == at .. at + Need(r) - 1

\* No two records share a byte: a claimed slot overlaps neither another
\* claim nor a frame already accepted in this cycle, and all of them lie below
\* the high-water mark. It fails if offset_ is ever rolled back or reset under
\* a writer (the ABA of mmap_buffer.cpp:38-39).
SlotsDisjoint ==
    /\ \A v, w \in Writers :
         v # w /\ Holding(v) /\ Holding(w)
            => Span(old[v], rec[v]) \cap Span(old[w], rec[w]) = {}
    /\ \A w \in Writers : Holding(w) =>
         /\ Span(old[w], rec[w]) \subseteq 0 .. Used - 1
         /\ \A a \in accepted : Span(old[w], rec[w]) \cap Span(a.at, a.rec) = {}
    /\ \A a, b \in accepted : a # b => Span(a.at, a.rec) \cap Span(b.at, b.rec) = {}

\* What the walk owes its callers: the frames handed to the callback are the
\* records whose Write returned true in this cycle, all of them, intact, once
\* each, in the order of their slots (mmap_buffer.h:38). A writer admitted before
\* the scrub and bytes left by an earlier process both break it.
DrainExact ==
    dpc = "reset" =>
        /\ ToSet(drained) = accepted
        /\ \A i, j \in DOMAIN drained : i < j => drained[i].at < drained[j].at

\* Nothing else breaks it, whenever calls start (mmap_buffer.cpp:22-76).
DrainExactUnlessSpoilt == spoilt = {} => DrainExact

\* An accepted record stays in the buffer, byte for byte, until the next reset
\* (mmap_buffer.cpp:45-46 against the memset of line 74), unless some writer was
\* admitted between the unsealing and the scrub.
AcceptedIntact ==
    "unscrubbed" \notin spoilt =>
        \A a \in accepted : \A i \in Span(a.at, a.rec) :
            mem[i] = IF i = a.at THEN Len(a.rec)
                     ELSE IF i < a.at + Hdr THEN 0
                     ELSE a.rec[i - a.at - Hdr + 1]

\* "Beyond the new high-water mark the buffer must read as all-zeros so the
\* iterator hits len==0 and stops cleanly" (mmap_buffer.cpp:71-72).
TailIsZero ==
    spoilt = {} /\ dpc \in {"open", "sealing", "walk", "reset"} =>
        \A i \in DOMAIN mem : i >= Used => mem[i] = 0

=============================================================================
