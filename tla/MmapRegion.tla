----------------------------- MODULE MmapRegion -----------------------------
(* MmapRegion (src/mmap/mmap_region.{h,cpp}): one file, resized and mapped,  *)
(* behind an object that can be moved and closed. Create is taken apart into *)
(* its system calls, each of which may fail, for both builds: on Windows the *)
(* file cannot be opened a second time for writing, on POSIX it can.         *)
(*                                                                           *)
(* The kernel is external: handles, files as sequences of pages, and the     *)
(* pages that have not reached the device. A crash is one of the process.    *)
EXTENDS Integers, Sequences, FiniteSets, SequencesExt

CONSTANTS
    Threads,   \* threads that call Create
    Objects,   \* MmapRegion objects
    Paths,
    Handles,   \* descriptors, handles and views, reused once closed
    Requests,  \* the size_bytes asked for
    Page,      \* utils::GetPageSize()
    Builds     \* the builds to look at: is it the one for Windows?

ASSUME PageAssumption     == Page \in Nat \ {0} /\ Requests \subseteq Nat
ASSUME PlatformAssumption == Builds \subseteq BOOLEAN
ASSUME HandlesAssumption  ==
    /\ IsFiniteSet(Threads \cup Objects \cup Handles) /\ Threads \cap Objects = {}
    /\ 3 * Cardinality(Threads \cup Objects) <= Cardinality(Handles)

VARIABLES
    windows,   \* which build the program is; never changes
    kernel,    \* the handles that are open: handle -> [kind, path]
    disk,      \* each file's pages, as the processes see them
    dirty,     \* the pages that are not on the device yet
    region,    \* each object: path_, size_ and the handles in its fields
    job,       \* each thread: the Create it is in
    promised   \* ghost: the pages that Sync was asked for and nobody wrote since

vars == <<windows, kernel, disk, dirty, region, job, promised>>

Closed == [path |-> "", size |-> 0, asked |-> 0, handles |-> {}]
NoJob  == [step |-> "none", into |-> "", path |-> "", size |-> 0, asked |-> 0, handles |-> {}]

Init ==
    /\ windows \in Builds
    /\ kernel = << >>
    /\ disk = [p \in Paths |-> << >>]
    /\ dirty = [p \in Paths |-> {}]
    /\ region = [o \in Objects |-> Closed]
    /\ job = [t \in Threads |-> NoJob]
    /\ promised = [p \in Paths |-> {}]

-----------------------------------------------------------------------------
(* The kernel.                                                               *)

NewHandle == CHOOSE h \in Handles : h \notin DOMAIN kernel

CloseHandles(hs) == kernel' = [h \in DOMAIN kernel \ hs |-> kernel[h]]

\* Mutant of MayOpen: FILE_SHARE_WRITE as well.
MayOpenShared(p) == p \in Paths

\* FILE_SHARE_READ: nobody else may have the file open for writing. POSIX has no such lock.
MayOpen(p) ==
    windows => \A h \in DOMAIN kernel : kernel[h] # [kind |-> "file", path |-> p]

\* SetEndOfFile, ftruncate: what is cut off is gone, what is added is zero.
Resized(pages, n) == [i \in 1 .. n |-> IF i <= Len(pages) THEN pages[i] ELSE 0]

-----------------------------------------------------------------------------
(* Create.                                                                   *)

RoundUpToPage(n) == ((n + Page - 1) \div Page) * Page

\* A size of 0 is refused before anything is opened. The parent directories are
\* created with their errors ignored; the object is one's own or a temporary.
CreateCall(t) ==
    /\ job[t] = NoJob
    /\ \E o \in Objects, p \in Paths, n \in Requests \ {0} :
          /\ \A u \in Threads : job[u].into # o
          /\ job' = [job EXCEPT ![t] =
                [step |-> "open", into |-> o, path |-> p, asked |-> n,
                 size |-> RoundUpToPage(n), handles |-> {}]]
    /\ UNCHANGED <<kernel, disk, dirty, region, promised, windows>>

Acquire(t, kind, next) ==
    /\ kernel' = [h \in DOMAIN kernel \cup {NewHandle} |->
                     IF h = NewHandle THEN [kind |-> kind, path |-> job[t].path]
                     ELSE kernel[h]]
    /\ job' = [job EXCEPT ![t].step = next, ![t].handles = @ \cup {NewHandle}]
    /\ UNCHANGED <<disk, dirty, region, promised, windows>>

OpenFile(t) ==
    /\ job[t].step = "open"
    /\ MayOpen(job[t].path)
    /\ Acquire(t, "file", "resize")

Resize(t) ==
    /\ job[t].step = "resize"
    /\ LET p == job[t].path
           n == job[t].size \div Page
       IN /\ disk' = [disk EXCEPT ![p] = Resized(@, n)]
          /\ dirty' = [dirty EXCEPT ![p] = @ \cap 1 .. n]
          /\ promised' = [promised EXCEPT ![p] = @ \cap 1 .. n]
    /\ job' = [job EXCEPT ![t].step = IF windows THEN "mapping" ELSE "view"]
    /\ UNCHANGED <<kernel, region, windows>>

CreateMapping(t) == job[t].step = "mapping" /\ Acquire(t, "mapping", "view")

MapView(t) == job[t].step = "view" /\ Acquire(t, "view", "made")

\* Mutant of Fail: only the file is closed.
FailHalfClosed(t) ==
    /\ job[t].step \in {"open", "resize", "mapping", "view"}
    /\ CloseHandles({h \in job[t].handles : kernel[h].kind = "file"})
    /\ job' = [job EXCEPT ![t] = NoJob]
    /\ UNCHANGED <<disk, dirty, region, promised, windows>>

\* Any of the calls fails: what was opened before it is closed, and Create throws.
Fail(t) ==
    /\ job[t].step \in {"open", "resize", "mapping", "view"}
    /\ CloseHandles(job[t].handles)
    /\ job' = [job EXCEPT ![t] = NoJob]
    /\ UNCHANGED <<disk, dirty, region, promised, windows>>

\* operator=: Close, then the other's fields. With an object that holds nothing
\* it is the move constructor.
Assign(o, r) ==
    /\ region' = [region EXCEPT ![o] = r]
    /\ CloseHandles(region[o].handles)

CreateReturns(t) ==
    /\ job[t].step = "made"
    /\ Assign(job[t].into, [path |-> job[t].path, size |-> job[t].size,
                            asked |-> job[t].asked, handles |-> job[t].handles])
    /\ job' = [job EXCEPT ![t] = NoJob]
    /\ UNCHANGED <<disk, dirty, promised, windows>>

-----------------------------------------------------------------------------
(* The object.                                                               *)

Idle(o) == \A t \in Threads : job[t].into # o

\* Moving an object onto itself does nothing.
Move(o, other) ==
    /\ o # other /\ Idle(o) /\ Idle(other)
    /\ region' = [region EXCEPT ![o] = region[other], ![other] = Closed]
    /\ CloseHandles(region[o].handles)
    /\ UNCHANGED <<disk, dirty, job, promised, windows>>

\* Close, twice or more if one likes, and the destructor.
Close(o) ==
    /\ Idle(o)
    /\ region' = [region EXCEPT ![o] = Closed]
    /\ CloseHandles(region[o].handles)
    /\ UNCHANGED <<disk, dirty, job, promised, windows>>

\* Somebody writes to the mapped bytes.
Write(o) ==
    /\ \E i \in 1 .. region[o].size \div Page :
          /\ i <= Len(disk[region[o].path])
          /\ disk' = [disk EXCEPT ![region[o].path][i] = 1]
          /\ dirty' = [dirty EXCEPT ![region[o].path] = @ \cup {i}]
          /\ promised' = [promised EXCEPT ![region[o].path] = @ \ {i}]
    /\ UNCHANGED <<kernel, region, job, windows>>

PagesOf(first, bytes) == {i \in 1 .. first + bytes : i * Page > first /\ (i-1) * Page < first + bytes}

\* Mutant of MsyncRange: the start moves down, the end moves with it.
MsyncRangeShort(offset, length) == PagesOf((offset \div Page) * Page, length)

\* msync wants an aligned start, so the length grows by what the start moves down.
MsyncRange(offset, length) ==
    LET aligned_off == IF windows THEN offset ELSE (offset \div Page) * Page
        pad         == offset - aligned_off
    IN PagesOf(aligned_off, length + pad)

\* Nothing to do on a closed region, an empty range or one past the end; else the
\* range is cut to the region. The flush may fail, and then nothing is promised.
Sync(o, offset, length) ==
    LET p      == region[o].path
        within == IF offset + length > region[o].size THEN region[o].size - offset ELSE length
    IN /\ region[o].handles # {} /\ length > 0 /\ offset < region[o].size
       /\ dirty' = [dirty EXCEPT ![p] = @ \ MsyncRange(offset, within)]
       /\ promised' = [promised EXCEPT ![p] =
                          @ \cup (PagesOf(offset, within) \cap 1 .. Len(disk[p]))]
       /\ UNCHANGED <<kernel, disk, region, job, windows>>

-----------------------------------------------------------------------------
\* The kernel closes what a killed process had open; the pages stay.
Crash ==
    /\ kernel' = << >>
    /\ region' = [o \in Objects |-> Closed]
    /\ job' = [t \in Threads |-> NoJob]
    /\ UNCHANGED <<disk, dirty, promised, windows>>

\* Lengths go one page past the largest region.
Lengths == 0 .. 1 + CHOOSE n \in {RoundUpToPage(r) : r \in Requests} :
                       \A r \in Requests : RoundUpToPage(r) <= n

Next ==
    \/ \E t \in Threads : \/ CreateCall(t) \/ OpenFile(t) \/ Resize(t) \/ CreateMapping(t)
                          \/ MapView(t) \/ Fail(t) \/ CreateReturns(t)
    \/ \E o, other \in Objects : Move(o, other)
    \/ \E o \in Objects : \/ Close(o) \/ Write(o)
                          \/ \E offset, length \in Lengths : Sync(o, offset, length)
    \/ Crash

Spec == Init /\ [][Next]_vars

-----------------------------------------------------------------------------
Open == {o \in Objects : region[o].handles # {}}

TypeOK ==
    /\ DOMAIN kernel \subseteq Handles
    /\ \A h \in DOMAIN kernel : kernel[h] \in [kind : {"file", "mapping", "view"}, path : Paths]
    /\ disk \in [Paths -> Seq({0, 1})]
    /\ \A p \in Paths : dirty[p] \cup promised[p] \subseteq 1 .. Len(disk[p])
    /\ \A o \in Objects : region[o].handles \subseteq Handles /\ region[o].size % Page = 0
    /\ \A t \in Threads : job[t].handles \subseteq Handles

\* Every open handle is in the hands of exactly one region or one Create in
\* progress, and they hold nothing that is closed: no failure, move, overwrite
\* or second Close leaks a handle or closes one that is somebody else's.
HandlesOwned ==
    /\ DOMAIN kernel = (UNION {region[o].handles : o \in Objects})
                       \cup (UNION {job[t].handles : t \in Threads})
    /\ \A o, q \in Objects : o # q => region[o].handles \cap region[q].handles = {}
    /\ \A t, u \in Threads : t # u => job[t].handles \cap job[u].handles = {}
    /\ \A o \in Objects, t \in Threads : region[o].handles \cap job[t].handles = {}

\* A region that Create returned has the bytes asked for, and the file has all of
\* the region's: reading and writing there is safe (mmap_region.h:9).
Mapped ==
    \A o \in Open : /\ region[o].asked <= region[o].size
                    /\ region[o].size <= Page * Len(disk[region[o].path])

\* On Windows it is true of every region that is open: no other Create, of whatever
\* size and wherever it fails, resizes a file that is mapped or about to be
\* (mmap_region.cpp:64). On POSIX one does.
MappedUnlessShared == windows => Mapped

\* On Windows, two stores never have one buffer file mapped at once: the second
\* Create fails (mmap_region.cpp:64).
Exclusive ==
    windows => \A o, q \in Open : o # q => region[o].path # region[q].path

\* What Sync was asked for is on the device, the last page included, until it is
\* written again (mmap_region.h:31).
SyncCovers == \A p \in Paths : promised[p] \cap dirty[p] = {}

=============================================================================
