-------------------------- MODULE MmapRegionProofs --------------------------
(* Safety of MmapRegion for every number of threads, objects, files and     *)
(* requests, both builds and every page size: the handles are owned, one    *)
(* object at a time has a file on Windows, and Sync reaches what it was     *)
(* asked for.                                                               *)
EXTENDS MmapRegion, FiniteSetTheorems, SequenceTheorems, TLAPS

Kinds == {"file", "mapping", "view"}
Steps == {"none", "open", "resize", "mapping", "view", "made"}

Jobs == [step : Steps, into : Objects \cup {""}, path : Paths \cup {""},
         size : Nat, asked : Nat, handles : SUBSET Handles]

Regions == [path : Paths \cup {""}, size : Nat, asked : Nat, handles : SUBSET Handles]

\* The kernel's handles, and those that an object or a Create holds.
HandleTypes ==
    /\ windows \in BOOLEAN
    /\ kernel \in [DOMAIN kernel -> [kind : Kinds, path : Paths]] /\ DOMAIN kernel \subseteq Handles
    /\ region \in [Objects -> Regions]
    /\ job \in [Threads -> Jobs]

OneOfAKind(k, hs) == \A h, g \in hs : k[h].kind = k[g].kind => h = g

HasFile(k, hs, path) == \E h \in hs : k[h].kind = "file" /\ k[h].path = path

\* What a Create has opened by the step it is at.
JobSound(k, r) ==
    /\ r.step # "none" => r.into \in Objects /\ r.path \in Paths
    /\ r.step \in {"none", "open"} => r.handles = {}
    /\ r.step \notin {"none", "open"} => HasFile(k, r.handles, r.path)
    /\ \A h \in r.handles : /\ k[h].kind = "mapping" => r.step \in {"view", "made"}
                            /\ k[h].kind = "view" => r.step = "made"
    /\ OneOfAKind(k, r.handles)

JobHolds == \A t \in Threads : JobSound(kernel, job[t])

RegionSound(k, r) ==
    OneOfAKind(k, r.handles) /\ (r.handles # {} => HasFile(k, r.handles, r.path))

RegionHolds == \A o \in Objects : RegionSound(kernel, region[o])

\* FILE_SHARE_READ: one open file per path.
OneFile ==
    windows => \A h, g \in DOMAIN kernel :
        kernel[h].kind = "file" /\ kernel[g].kind = "file" /\ kernel[h].path = kernel[g].path
            => h = g

\* HandlesOwned, handle by handle.
Owned ==
    /\ \A h : h \in DOMAIN kernel <=> \/ \E o \in Objects : h \in region[o].handles
                                     \/ \E t \in Threads : h \in job[t].handles
    /\ \A o, q \in Objects : \A h : h \in region[o].handles /\ h \in region[q].handles => o = q
    /\ \A t, u \in Threads : \A h : h \in job[t].handles /\ h \in job[u].handles => t = u
    /\ \A o \in Objects, t \in Threads : \A h : ~(h \in region[o].handles /\ h \in job[t].handles)

HandleInv == HandleTypes /\ Owned /\ JobHolds /\ RegionHolds /\ OneFile

-----------------------------------------------------------------------------
\* There is a handle for the next call of a Create: each owner has at most one of a
\* kind, and this one has none of the kind that it is about to open.
LEMMA HandleLeft ==
    ASSUME HandleInv, NEW t \in Threads, NEW kind \in Kinds,
           \A h \in job[t].handles : kernel[h].kind # kind
    PROVE  NewHandle \in Handles /\ NewHandle \notin DOMAIN kernel
<1> DEFINE X == Threads \cup Objects
           T == (X \X Kinds) \ {<<t, kind>>}
           Has(x) == IF x \in Threads THEN job[x].handles ELSE region[x].handles
<1>1. SUFFICES ASSUME Handles \subseteq DOMAIN kernel PROVE FALSE
    BY DEF NewHandle
<1>2. \A h \in Handles : \E x \in X : h \in Has(x)
    BY <1>1, HandlesAssumption DEF HandleInv, Owned
<1>3. \A x \in X : OneOfAKind(kernel, Has(x))
    BY DEF HandleInv, JobHolds, JobSound, RegionHolds, RegionSound
<1>4. \A h \in Handles : kernel[h].kind \in Kinds
    BY <1>1 DEF HandleInv, HandleTypes
<1> DEFINE f == [h \in Handles |-> <<CHOOSE x \in X : h \in Has(x), kernel[h].kind>>]
<1>5. \A h \in Handles : f[h][1] \in X /\ h \in Has(f[h][1]) /\ f[h] = <<f[h][1], kernel[h].kind>>
    BY <1>2
<1>6. f \in [Handles -> T]
    <2>1. ASSUME NEW h \in Handles PROVE f[h] \in T
        <3>1. f[h] # <<t, kind>>
            BY <1>5
        <3>2. f[h] \in X \X Kinds
            BY <1>4, <1>5
        <3> QED
            BY <3>1, <3>2
    <2> QED
        BY <2>1
<1>7. IsFiniteSet(Handles) /\ IsFiniteSet(T) /\ Cardinality(T) < Cardinality(Handles)
    <2>1. IsFiniteSet(X)
        BY FS_Subset, HandlesAssumption
    <2>2. IsFiniteSet(Kinds) /\ Cardinality(Kinds) = 3
        <3>1. IsFiniteSet({}) /\ Cardinality({}) = 0
            BY FS_EmptySet
        <3>2. PICK A : A = {"file"}
            OBVIOUS
        <3>3. PICK B : B = {"file", "mapping"}
            OBVIOUS
        <3>4. /\ A = {} \cup {"file"} /\ "file" \notin {}
              /\ B = A \cup {"mapping"} /\ "mapping" \notin A
              /\ Kinds = B \cup {"view"} /\ "view" \notin B
            BY <3>2, <3>3 DEF Kinds
        <3>5. IsFiniteSet(A) /\ Cardinality(A) = 1
            BY <3>1, <3>4, FS_AddElement
        <3>6. IsFiniteSet(B) /\ Cardinality(B) = 2
            BY <3>4, <3>5, FS_AddElement
        <3>7. PICK C : C = B \cup {"view"}
            OBVIOUS
        <3>8. IsFiniteSet(C) /\ Cardinality(C) = 3
            BY <3>4, <3>6, <3>7, FS_AddElement
        <3> QED
            BY <3>4, <3>7, <3>8
    <2>3. IsFiniteSet(X \X Kinds) /\ Cardinality(X \X Kinds) = Cardinality(X) * 3
        BY <2>1, <2>2, FS_Product
    <2>4. IsFiniteSet(T) /\ Cardinality(T) = Cardinality(X \X Kinds) - 1
        BY <2>3, FS_RemoveElement
    <2>5. IsFiniteSet(Handles) /\ Cardinality(X) \in Nat /\ Cardinality(Handles) \in Nat
        <3>1. IsFiniteSet(Handles)
            BY FS_Subset, HandlesAssumption
        <3> QED
            BY <2>1, <3>1, FS_CardinalityType
    <2> QED
        BY <2>3, <2>4, <2>5, HandlesAssumption
<1>8. PICK h, g \in Handles : h # g /\ f[h] = f[g]
    <2> HIDE DEF f, T
    <2> QED
        BY <1>6, <1>7, FS_PigeonHole
<1>9. kernel[h].kind = kernel[g].kind /\ h \in Has(f[h][1]) /\ g \in Has(f[h][1]) /\ f[h][1] \in X
    <2> HIDE DEF f, X, Has
    <2>1. <<f[h][1], kernel[h].kind>> = <<f[g][1], kernel[g].kind>>
        BY <1>5, <1>8
    <2> QED
        BY <1>5, <2>1
<1> QED
    BY <1>3, <1>8, <1>9 DEF OneOfAKind

LEMMA HandlesInHand == Owned => HandlesOwned
<1> SUFFICES ASSUME Owned PROVE HandlesOwned
    OBVIOUS
<1>1. \A h : h \in UNION {region[o].handles : o \in Objects} <=> \E o \in Objects : h \in region[o].handles
    OBVIOUS
<1>2. \A h : h \in UNION {job[t].handles : t \in Threads} <=> \E t \in Threads : h \in job[t].handles
    OBVIOUS
<1>3. DOMAIN kernel = (UNION {region[o].handles : o \in Objects})
                      \cup (UNION {job[t].handles : t \in Threads})
    BY <1>1, <1>2 DEF Owned
<1> QED
    BY <1>3 DEF Owned, HandlesOwned

LEMMA HandleInit == ASSUME Init PROVE HandleInv
<1>1. DOMAIN kernel = {} /\ kernel = << >>
    BY DEF Init
<1>2. HandleTypes
    <2>1. windows \in BOOLEAN /\ DOMAIN kernel \subseteq Handles
        BY <1>1, PlatformAssumption DEF Init
    <2>2. kernel \in [DOMAIN kernel -> [kind : Kinds, path : Paths]]
        BY <1>1
    <2>3. Closed \in Regions
        BY DEF Closed, Regions
    <2>4. NoJob \in Jobs
        BY DEF NoJob, Jobs, Steps
    <2> QED
        BY <2>1, <2>2, <2>3, <2>4 DEF Init, HandleTypes
<1>3. JobSound(kernel, NoJob) /\ RegionSound(kernel, Closed)
    BY DEF JobSound, RegionSound, OneOfAKind, NoJob, Closed
<1> QED
    BY <1>1, <1>2, <1>3 DEF Init, HandleInv, Owned, JobHolds, RegionHolds, OneFile, Closed, NoJob

\* Whoever keeps its handles keeps what is known of them.
LEMMA Keeps ==
    ASSUME NEW hs, \A h \in hs : kernel'[h] = kernel[h], NEW path
    PROVE  /\ OneOfAKind(kernel, hs) => OneOfAKind(kernel', hs)
           /\ HasFile(kernel, hs, path) => HasFile(kernel', hs, path)
    BY DEF OneOfAKind, HasFile

LEMMA KeepsSound ==
    ASSUME NEW r, \A h \in r.handles : kernel'[h] = kernel[h]
    PROVE  /\ JobSound(kernel, r) => JobSound(kernel', r)
           /\ RegionSound(kernel, r) => RegionSound(kernel', r)
<1>1. /\ OneOfAKind(kernel, r.handles) => OneOfAKind(kernel', r.handles)
      /\ HasFile(kernel, r.handles, r.path) => HasFile(kernel', r.handles, r.path)
    BY Keeps
<1>2. RegionSound(kernel, r) => RegionSound(kernel', r)
    BY <1>1 DEF RegionSound
<1>3. JobSound(kernel, r) => JobSound(kernel', r)
    BY <1>1 DEF JobSound
<1> QED
    BY <1>2, <1>3

\* A call of a Create that opens something: the handle is new and goes to that Create.
LEMMA AcquireStep ==
    ASSUME HandleInv, NEW t \in Threads, NEW kind \in Kinds, NEW next \in Steps,
           Acquire(t, kind, next),
           \/ /\ job[t].step = "open" /\ kind = "file" /\ next = "resize" /\ MayOpen(job[t].path)
           \/ job[t].step = "mapping" /\ kind = "mapping" /\ next = "view"
           \/ job[t].step = "view" /\ kind = "view" /\ next = "made"
    PROVE  HandleInv'
<1> USE DEF HandleInv
<1>1. \A h \in job[t].handles : kernel[h].kind # kind
    <2>1. \A h \in job[t].handles :
            /\ job[t].step # "open"
            /\ kernel[h].kind = "mapping" => job[t].step \in {"view", "made"}
            /\ kernel[h].kind = "view" => job[t].step = "made"
        BY DEF JobHolds, JobSound
    <2> QED
        BY <2>1
<1>2. PICK e : e = NewHandle
    OBVIOUS
<1>3. e \in Handles /\ e \notin DOMAIN kernel
    BY <1>1, <1>2, HandleLeft
<1>4. PICK p : p = job[t].path
    OBVIOUS
<1>5. p \in Paths
    BY <1>4 DEF JobHolds, JobSound
<1>6. /\ kernel' = [h \in DOMAIN kernel \cup {e} |->
                       IF h = e THEN [kind |-> kind, path |-> p] ELSE kernel[h]]
      /\ UNCHANGED <<region, windows>>
      /\ job' = [job EXCEPT ![t].step = next, ![t].handles = @ \cup {e}]
    BY <1>2, <1>4 DEF Acquire
<1>7. /\ \A u \in Threads : u # t => job'[u] = job[u]
      /\ job'[t].step = next /\ job'[t].handles = job[t].handles \cup {e}
      /\ job'[t].into = job[t].into /\ job'[t].path = p
      /\ job' \in [Threads -> Jobs]
    <2>1. job \in [Threads -> Jobs]
        BY DEF HandleTypes
    <2>2. job' = [job EXCEPT ![t] = [job[t] EXCEPT !.step = next, !.handles = @ \cup {e}]]
        BY <1>6, <2>1
    <2>3. PICK r : r = [job[t] EXCEPT !.step = next, !.handles = @ \cup {e}]
        OBVIOUS
    <2>4. /\ r \in Jobs
          /\ r.step = next /\ r.handles = job[t].handles \cup {e}
          /\ r.into = job[t].into /\ r.path = p
        BY <1>3, <1>4, <2>1, <2>3 DEF Jobs
    <2> QED
        BY <2>1, <2>2, <2>3, <2>4
<1>8. /\ DOMAIN kernel' = DOMAIN kernel \cup {e}
      /\ \A h \in DOMAIN kernel : kernel'[h] = kernel[h]
      /\ kernel'[e].kind = kind /\ kernel'[e].path = p
      /\ kernel' \in [DOMAIN kernel' -> [kind : Kinds, path : Paths]]
    BY <1>3, <1>5, <1>6 DEF HandleTypes
<1>9. HandleTypes'
    BY <1>3, <1>6, <1>7, <1>8 DEF HandleTypes
<1>10. /\ \A o \in Objects : \A h \in region[o].handles : h \in DOMAIN kernel /\ h # e
       /\ \A u \in Threads : \A h \in job[u].handles : h \in DOMAIN kernel /\ h # e
    BY <1>3 DEF Owned
<1>11. Owned'
    <2>1. \A h : h \in DOMAIN kernel' <=> \/ \E o \in Objects : h \in region'[o].handles
                                          \/ \E u \in Threads : h \in job'[u].handles
        BY <1>6, <1>7, <1>8 DEF Owned
    <2>2. \A s, u \in Threads : \A h : h \in job'[s].handles /\ h \in job'[u].handles => s = u
        <3>1. \A u \in Threads \ {t} : \A h : ~(h \in job'[t].handles /\ h \in job'[u].handles)
            BY <1>7, <1>10 DEF Owned
        <3>2. \A s, u \in Threads \ {t} : \A h :
                h \in job'[s].handles /\ h \in job'[u].handles => s = u
            BY <1>7 DEF Owned
        <3> QED
            BY <3>1, <3>2
    <2>3. \A o \in Objects, u \in Threads : \A h :
            ~(h \in region'[o].handles /\ h \in job'[u].handles)
        <3>1. \A o \in Objects : \A h : ~(h \in region[o].handles /\ h \in job'[t].handles)
            BY <1>7, <1>10 DEF Owned
        <3>2. \A o \in Objects, u \in Threads \ {t} : \A h :
                ~(h \in region[o].handles /\ h \in job'[u].handles)
            <4>1. \A u \in Threads \ {t} : job'[u] = job[u]
                BY <1>7
            <4>2. \A o \in Objects, u \in Threads : \A h :
                    ~(h \in region[o].handles /\ h \in job[u].handles)
                BY DEF Owned
            <4> QED
                BY <4>1, <4>2
        <3> QED
            BY <1>6, <3>1, <3>2
    <2> QED
        BY <1>6, <2>1, <2>2, <2>3 DEF Owned
<1>12. JobHolds'
    <2> SUFFICES ASSUME NEW u \in Threads PROVE JobSound(kernel', job'[u])
        BY DEF JobHolds
    <2>1. CASE u # t
        <3>1. job'[u] = job[u] /\ \A h \in job[u].handles : kernel'[h] = kernel[h]
            BY <1>7, <1>8, <1>10, <2>1
        <3> QED
            BY <3>1, KeepsSound DEF JobHolds
    <2>2. CASE u = t
        <3>1. job[t].step # "none" /\ job[t].into \in Objects
            BY DEF JobHolds, JobSound
        <3>2. \A h \in job[t].handles : kernel'[h] = kernel[h]
            BY <1>8, <1>10
        <3>3. HasFile(kernel', job'[t].handles, p)
            <4>1. CASE kind = "file"
                BY <1>7, <1>8, <4>1 DEF HasFile
            <4>2. CASE kind # "file"
                <5>1. HasFile(kernel, job[t].handles, p)
                    BY <1>4, <4>2 DEF JobHolds, JobSound
                <5> QED
                    BY <1>7, <3>2, <5>1 DEF HasFile
            <4> QED
                BY <4>1, <4>2
        <3>4. \A h \in job'[t].handles : 
                 /\ kernel'[h].kind = "mapping" => next \in {"view", "made"}
                 /\ kernel'[h].kind = "view" => next = "made"
            BY <1>7, <1>8, <3>2 DEF JobHolds, JobSound
        <3>5. OneOfAKind(kernel', job'[t].handles)
            <4>1. \A h, g \in job[t].handles : kernel[h].kind = kernel[g].kind => h = g
                BY DEF JobHolds, JobSound, OneOfAKind
            <4>2. \A h \in job'[t].handles : h = e \/ h \in job[t].handles
                BY <1>7
            <4> QED
                BY <1>1, <1>8, <3>2, <4>1, <4>2 DEF OneOfAKind
        <3> QED
            BY <1>5, <1>7, <2>2, <3>1, <3>3, <3>4, <3>5 DEF JobSound
    <2> QED
        BY <2>1, <2>2
<1>13. RegionHolds'
    BY <1>6, <1>8, <1>10, KeepsSound DEF RegionHolds
<1>14. OneFile'
    <2>1. kind = "file" /\ windows => \A h \in DOMAIN kernel : ~(kernel[h].kind = "file" /\ kernel[h].path = p)
        <3>1. \A h \in DOMAIN kernel : kernel[h] \in [kind : Kinds, path : Paths]
            BY DEF HandleTypes
        <3>2. kind = "file" /\ windows => \A h \in DOMAIN kernel : kernel[h] # [kind |-> "file", path |-> p]
            BY <1>4 DEF MayOpen
        <3> QED
            BY <3>1, <3>2
    <2> QED
        BY <1>3, <1>6, <1>8, <2>1 DEF OneFile
<1> QED
    BY <1>9, <1>11, <1>12, <1>13, <1>14

\* What is left when some handles are closed.
LEMMA Closes ==
    ASSUME HandleInv, NEW hs, CloseHandles(hs), UNCHANGED windows
    PROVE  /\ DOMAIN kernel' = DOMAIN kernel \ hs
           /\ \A h \in DOMAIN kernel' : kernel'[h] = kernel[h]
           /\ windows' \in BOOLEAN
           /\ kernel' \in [DOMAIN kernel' -> [kind : Kinds, path : Paths]]
           /\ DOMAIN kernel' \subseteq Handles
           /\ OneFile'
<1>1. /\ DOMAIN kernel' = DOMAIN kernel \ hs
      /\ \A h \in DOMAIN kernel' : kernel'[h] = kernel[h]
    BY DEF CloseHandles
<1>2. kernel' \in [DOMAIN kernel' -> [kind : Kinds, path : Paths]]
    BY DEF CloseHandles, HandleInv, HandleTypes
<1>3. windows' \in BOOLEAN /\ DOMAIN kernel' \subseteq Handles
    BY <1>1 DEF HandleInv, HandleTypes
<1>4. OneFile'
    BY <1>1 DEF HandleInv, OneFile
<1> QED
    BY <1>1, <1>2, <1>3, <1>4

\* A step that opens and closes nothing.
LEMMA SameHandles ==
    ASSUME Owned, UNCHANGED <<kernel, region>>, \A u \in Threads : job'[u].handles = job[u].handles
    PROVE  Owned'
<1>1. \A h : (\E u \in Threads : h \in job'[u].handles) <=> (\E u \in Threads : h \in job[u].handles)
    OBVIOUS
<1>2. \A s, u \in Threads : \A h : h \in job'[s].handles /\ h \in job'[u].handles => s = u
    BY DEF Owned
<1>3. \A o \in Objects, u \in Threads : \A h : ~(h \in region[o].handles /\ h \in job'[u].handles)
    BY DEF Owned
<1> QED
    BY <1>1, <1>2, <1>3 DEF Owned

LEMMA CreateCallStep ==
    ASSUME HandleInv, NEW t \in Threads, CreateCall(t)
    PROVE  HandleInv'
<1>1. PICK o \in Objects, p \in Paths, n \in Requests \ {0} :
        job' = [job EXCEPT ![t] = [step |-> "open", into |-> o, path |-> p, asked |-> n,
                                   size |-> RoundUpToPage(n), handles |-> {}]]
    BY DEF CreateCall
<1>2. UNCHANGED <<kernel, region, windows>> /\ job[t] = NoJob /\ job \in [Threads -> Jobs]
    BY DEF CreateCall, HandleInv, HandleTypes
<1>3. RoundUpToPage(n) \in Nat
    BY PageAssumption DEF RoundUpToPage
<1> DEFINE r == [step |-> "open", into |-> o, path |-> p, asked |-> n,
                 size |-> RoundUpToPage(n), handles |-> {}]
<1>4. r \in Jobs /\ JobSound(kernel, r) /\ r.handles = {}
    BY <1>3, PageAssumption DEF Jobs, Steps, JobSound, OneOfAKind
<1>5. job' = [job EXCEPT ![t] = r] /\ NoJob.handles = {}
    BY <1>1 DEF NoJob
<1> HIDE DEF r
<1>6. job' \in [Threads -> Jobs] /\ \A u \in Threads : job'[u] = IF u = t THEN r ELSE job[u]
    BY <1>2, <1>4, <1>5
<1>7. \A u \in Threads : job'[u].handles = job[u].handles
    BY <1>2, <1>4, <1>5, <1>6
<1>8. HandleTypes' /\ RegionHolds' /\ OneFile'
    BY <1>2, <1>6 DEF HandleInv, HandleTypes, RegionHolds, OneFile
<1>9. JobHolds'
    BY <1>2, <1>4, <1>6 DEF HandleInv, JobHolds
<1> QED
    BY <1>2, <1>7, <1>8, <1>9, SameHandles DEF HandleInv

LEMMA ResizeStep ==
    ASSUME HandleInv, NEW t \in Threads, Resize(t)
    PROVE  HandleInv'
<1>1. /\ UNCHANGED <<kernel, region, windows>> /\ job[t].step = "resize"
      /\ job' = [job EXCEPT ![t].step = IF windows THEN "mapping" ELSE "view"]
    BY DEF Resize
<1>2. job \in [Threads -> Jobs] /\ job[t] \in Jobs
    BY DEF HandleInv, HandleTypes
<1>3. PICK x : x = IF windows THEN "mapping" ELSE "view"
    OBVIOUS
<1>4. PICK r : r = [job[t] EXCEPT !.step = x]
    OBVIOUS
<1>5. r \in Jobs /\ r.step \in {"mapping", "view"} /\ r.handles = job[t].handles
      /\ r.into = job[t].into /\ r.path = job[t].path
    BY <1>2, <1>3, <1>4 DEF Jobs, Steps
<1>6. job' = [job EXCEPT ![t] = r]
    BY <1>1, <1>2, <1>3, <1>4
<1>7. job' \in [Threads -> Jobs] /\ \A u \in Threads : job'[u] = IF u = t THEN r ELSE job[u]
    BY <1>2, <1>5, <1>6
<1>8. \A u \in Threads : job'[u].handles = job[u].handles
    BY <1>5, <1>7
<1>9. HandleTypes' /\ RegionHolds' /\ OneFile'
    BY <1>1, <1>7 DEF HandleInv, HandleTypes, RegionHolds, OneFile
<1>10. JobSound(kernel, r)
    BY <1>1, <1>5 DEF HandleInv, JobHolds, JobSound
<1>11. JobHolds'
    BY <1>1, <1>7, <1>10 DEF HandleInv, JobHolds
<1> QED
    BY <1>1, <1>8, <1>9, <1>11, SameHandles DEF HandleInv

\* An exception from Create closes what it has opened.
LEMMA FailStep ==
    ASSUME HandleInv, NEW t \in Threads, Fail(t)
    PROVE  HandleInv'
<1>1. UNCHANGED <<region, windows>> /\ CloseHandles(job[t].handles)
      /\ job' = [job EXCEPT ![t] = NoJob]
    BY DEF Fail
<1>2. /\ DOMAIN kernel' = DOMAIN kernel \ job[t].handles
      /\ \A h \in DOMAIN kernel' : kernel'[h] = kernel[h]
      /\ windows' \in BOOLEAN
      /\ kernel' \in [DOMAIN kernel' -> [kind : Kinds, path : Paths]]
      /\ DOMAIN kernel' \subseteq Handles
      /\ OneFile'
    BY <1>1, Closes
<1>3. NoJob \in Jobs /\ JobSound(kernel', NoJob) /\ NoJob.handles = {}
    BY DEF NoJob, Jobs, Steps, JobSound, OneOfAKind
<1>4. job' \in [Threads -> Jobs] /\ \A u \in Threads : job'[u] = IF u = t THEN NoJob ELSE job[u]
    BY <1>1, <1>3 DEF HandleInv, HandleTypes
<1>5. HandleTypes'
    BY <1>1, <1>2, <1>4 DEF HandleInv, HandleTypes
<1>6. Owned'
    <2>1. ASSUME NEW h
          PROVE  h \in DOMAIN kernel' <=> \/ \E o \in Objects : h \in region'[o].handles
                                          \/ \E u \in Threads : h \in job'[u].handles
        <3>1. h \in job[t].handles => \A u \in Threads : u # t => h \notin job[u].handles
            BY DEF HandleInv, Owned
        <3>2. h \in job[t].handles => \A o \in Objects : h \notin region[o].handles
            BY DEF HandleInv, Owned
        <3>3. h \in DOMAIN kernel <=> \/ \E o \in Objects : h \in region[o].handles
                                      \/ \E u \in Threads : h \in job[u].handles
            BY DEF HandleInv, Owned
        <3>4. (\E u \in Threads : h \in job'[u].handles)
                <=> (\E u \in Threads : u # t /\ h \in job[u].handles)
            BY <1>3, <1>4
        <3> QED
            BY <1>1, <1>2, <3>1, <3>2, <3>3, <3>4
    <2>2. \A u \in Threads : job'[u].handles \subseteq job[u].handles
        BY <1>3, <1>4
    <2>3. \A s, u \in Threads : \A h : h \in job'[s].handles /\ h \in job'[u].handles => s = u
        BY <2>2 DEF HandleInv, Owned
    <2>4. \A o \in Objects, u \in Threads : \A h : ~(h \in region'[o].handles /\ h \in job'[u].handles)
        BY <1>1, <2>2 DEF HandleInv, Owned
    <2>5. \A o, q \in Objects : \A h : h \in region'[o].handles /\ h \in region'[q].handles => o = q
        BY <1>1 DEF HandleInv, Owned
    <2> QED
        BY <2>1, <2>3, <2>4, <2>5 DEF Owned
<1>7. /\ \A o \in Objects : \A h \in region'[o].handles : kernel'[h] = kernel[h]
      /\ \A u \in Threads : \A h \in job'[u].handles : kernel'[h] = kernel[h]
    BY <1>2, <1>6 DEF Owned
<1>8. RegionHolds'
    BY <1>1, <1>7, KeepsSound DEF HandleInv, RegionHolds
<1>9. JobHolds'
    BY <1>3, <1>4, <1>7, KeepsSound DEF HandleInv, JobHolds
<1> QED
    BY <1>2, <1>5, <1>6, <1>8, <1>9 DEF HandleInv

\* Create returns: what the object had is closed, and it takes what Create opened.
LEMMA CreateReturnsStep ==
    ASSUME HandleInv, NEW t \in Threads, CreateReturns(t)
    PROVE  HandleInv'
<1>1. PICK o : o = job[t].into
    OBVIOUS
<1>2. PICK r : r = [path |-> job[t].path, size |-> job[t].size, asked |-> job[t].asked,
                    handles |-> job[t].handles]
    OBVIOUS
<1>3. /\ UNCHANGED windows /\ job[t].step = "made" /\ CloseHandles(region[o].handles)
      /\ region' = [region EXCEPT ![o] = r] /\ job' = [job EXCEPT ![t] = NoJob]
    BY <1>1, <1>2 DEF CreateReturns, Assign
<1>4. /\ region \in [Objects -> Regions] /\ job \in [Threads -> Jobs] /\ job[t] \in Jobs
      /\ JobSound(kernel, job[t]) /\ Owned /\ RegionHolds /\ JobHolds
    BY DEF HandleInv, HandleTypes, JobHolds
<1>5. o \in Objects /\ job[t].path \in Paths /\ HasFile(kernel, job[t].handles, job[t].path)
      /\ OneOfAKind(kernel, job[t].handles)
    BY <1>1, <1>3, <1>4 DEF JobSound
<1>6. r \in Regions /\ r.handles = job[t].handles /\ r.path = job[t].path
    BY <1>2, <1>4 DEF Regions, Jobs
<1>7. /\ DOMAIN kernel' = DOMAIN kernel \ region[o].handles
      /\ \A h \in DOMAIN kernel' : kernel'[h] = kernel[h]
      /\ windows' \in BOOLEAN
      /\ kernel' \in [DOMAIN kernel' -> [kind : Kinds, path : Paths]]
      /\ DOMAIN kernel' \subseteq Handles
      /\ OneFile'
    BY <1>3, Closes
<1>8. NoJob \in Jobs /\ JobSound(kernel', NoJob) /\ NoJob.handles = {}
    BY DEF NoJob, Jobs, Steps, JobSound, OneOfAKind
<1>9. /\ job' \in [Threads -> Jobs] /\ \A u \in Threads : job'[u] = IF u = t THEN NoJob ELSE job[u]
      /\ region' \in [Objects -> Regions]
      /\ \A q \in Objects : region'[q] = IF q = o THEN r ELSE region[q]
    BY <1>3, <1>4, <1>5, <1>6, <1>8
<1>10. HandleTypes'
    BY <1>7, <1>9 DEF HandleTypes
<1>11. Owned'
    <2>1. /\ \A q \in Objects : region'[q].handles =
                                    IF q = o THEN job[t].handles ELSE region[q].handles
          /\ \A u \in Threads : job'[u].handles = IF u = t THEN {} ELSE job[u].handles
        BY <1>6, <1>8, <1>9
    <2>2. ASSUME NEW h
          PROVE  h \in DOMAIN kernel' <=> \/ \E q \in Objects : h \in region'[q].handles
                                          \/ \E u \in Threads : h \in job'[u].handles
        <3>1. h \in region[o].handles => /\ \A q \in Objects : q # o => h \notin region[q].handles
                                         /\ \A u \in Threads : h \notin job[u].handles
            BY <1>4, <1>5 DEF Owned
        <3>2. h \in DOMAIN kernel <=> \/ \E q \in Objects : h \in region[q].handles
                                      \/ \E u \in Threads : h \in job[u].handles
            BY <1>4 DEF Owned
        <3>3. (\E u \in Threads : h \in job'[u].handles)
                <=> (\E u \in Threads : u # t /\ h \in job[u].handles)
            BY <2>1
        <3>4. (\E q \in Objects : h \in region'[q].handles)
                <=> h \in job[t].handles \/ \E q \in Objects : q # o /\ h \in region[q].handles
            BY <1>5, <2>1
        <3> QED
            BY <1>7, <3>1, <3>2, <3>3, <3>4
    <2>3. \A s, u \in Threads : \A h : h \in job'[s].handles /\ h \in job'[u].handles => s = u
        BY <1>4, <2>1 DEF Owned
    <2>4. \A q \in Objects, u \in Threads : \A h : ~(h \in region'[q].handles /\ h \in job'[u].handles)
        BY <1>4, <2>1 DEF Owned
    <2>5. \A p, q \in Objects : \A h : h \in region'[p].handles /\ h \in region'[q].handles => p = q
        BY <1>4, <2>1 DEF Owned
    <2> QED
        BY <2>2, <2>3, <2>4, <2>5 DEF Owned
<1>12. /\ \A q \in Objects : \A h \in region'[q].handles : kernel'[h] = kernel[h]
       /\ \A u \in Threads : \A h \in job'[u].handles : kernel'[h] = kernel[h]
    BY <1>7, <1>11 DEF Owned
<1>13. RegionHolds'
    <2>1. RegionSound(kernel, r)
        BY <1>5, <1>6 DEF RegionSound
    <2> QED
        BY <1>4, <1>9, <1>12, <2>1, KeepsSound DEF RegionHolds
<1>14. JobHolds'
    BY <1>4, <1>8, <1>9, <1>12, KeepsSound DEF JobHolds
<1> QED
    BY <1>7, <1>10, <1>11, <1>13, <1>14 DEF HandleInv

\* Close, or the move of another object onto this one.
LEMMA ReleaseStep ==
    ASSUME HandleInv, NEW o \in Objects, NEW other \in Objects,
           CloseHandles(region[o].handles), UNCHANGED <<job, windows>>,
           \/ region' = [region EXCEPT ![o] = Closed]
           \/ o # other /\ region' = [region EXCEPT ![o] = region[other], ![other] = Closed]
    PROVE  HandleInv'
<1>1. /\ region \in [Objects -> Regions] /\ job \in [Threads -> Jobs]
      /\ Owned /\ RegionHolds /\ JobHolds
    BY DEF HandleInv, HandleTypes
<1>2. Closed \in Regions /\ RegionSound(kernel, Closed) /\ Closed.handles = {}
    BY DEF Closed, Regions, RegionSound, OneOfAKind
<1>3. /\ DOMAIN kernel' = DOMAIN kernel \ region[o].handles
      /\ \A h \in DOMAIN kernel' : kernel'[h] = kernel[h]
      /\ windows' \in BOOLEAN
      /\ kernel' \in [DOMAIN kernel' -> [kind : Kinds, path : Paths]]
      /\ DOMAIN kernel' \subseteq Handles
      /\ OneFile'
    BY Closes
<1>4. Owned' /\ region' \in [Objects -> Regions]
      /\ \A q \in Objects : RegionSound(kernel, region'[q])
    <2>1. CASE region' = [region EXCEPT ![o] = Closed]
        <3>1. \A q \in Objects : region'[q] = IF q = o THEN Closed ELSE region[q]
            BY <1>1, <2>1
        <3>2. ASSUME NEW h
              PROVE  h \in DOMAIN kernel' <=> \/ \E q \in Objects : h \in region'[q].handles
                                              \/ \E u \in Threads : h \in job'[u].handles
            <4>1. h \in region[o].handles => /\ \A q \in Objects : q # o => h \notin region[q].handles
                                             /\ \A u \in Threads : h \notin job[u].handles
                BY <1>1 DEF Owned
            <4>2. h \in DOMAIN kernel <=> \/ \E q \in Objects : h \in region[q].handles
                                          \/ \E u \in Threads : h \in job[u].handles
                BY <1>1 DEF Owned
            <4>3. (\E q \in Objects : h \in region'[q].handles)
                    <=> \E q \in Objects : q # o /\ h \in region[q].handles
                BY <1>2, <3>1
            <4> QED
                BY <1>3, <4>1, <4>2, <4>3
        <3>3. \A q \in Objects : region'[q].handles \subseteq region[q].handles
            BY <1>2, <3>1
        <3>4. \A q \in Objects, u \in Threads : \A h : ~(h \in region'[q].handles /\ h \in job[u].handles)
            BY <1>1, <3>3 DEF Owned
        <3>5. \A p, q \in Objects : \A h : h \in region'[p].handles /\ h \in region'[q].handles => p = q
            BY <1>1, <3>3 DEF Owned
        <3>6. Owned'
            BY <1>1, <3>2, <3>4, <3>5 DEF Owned
        <3>7. region' \in [Objects -> Regions]
            BY <1>1, <1>2, <2>1
        <3> QED
            BY <1>1, <1>2, <3>1, <3>6, <3>7 DEF RegionHolds
    <2>2. CASE o # other /\ region' = [region EXCEPT ![o] = region[other], ![other] = Closed]
        <3>1. /\ region' \in [Objects -> Regions] /\ region'[o] = region[other]
              /\ region'[other] = Closed
              /\ \A q \in Objects : q # o /\ q # other => region'[q] = region[q]
            BY <1>1, <1>2, <2>2
        <3>2. ASSUME NEW h
              PROVE  h \in DOMAIN kernel' <=> \/ \E q \in Objects : h \in region'[q].handles
                                              \/ \E u \in Threads : h \in job'[u].handles
            <4>1. h \in region[o].handles => /\ \A q \in Objects : q # o => h \notin region[q].handles
                                             /\ \A u \in Threads : h \notin job[u].handles
                BY <1>1 DEF Owned
            <4>2. h \in DOMAIN kernel <=> \/ \E q \in Objects : h \in region[q].handles
                                          \/ \E u \in Threads : h \in job[u].handles
                BY <1>1 DEF Owned
            <4>3. (\E q \in Objects : h \in region'[q].handles)
                    <=> \E q \in Objects : q # o /\ h \in region[q].handles
                <5>1. ASSUME NEW q \in Objects, h \in region'[q].handles
                      PROVE  \E p \in Objects : p # o /\ h \in region[p].handles
                    <6>1. CASE q = o
                        BY <2>2, <3>1, <5>1, <6>1
                    <6>2. CASE q # o
                        BY <1>2, <3>1, <5>1, <6>2
                    <6> QED
                        BY <6>1, <6>2
                <5>2. ASSUME NEW q \in Objects, q # o, h \in region[q].handles
                      PROVE  \E p \in Objects : h \in region'[p].handles
                    <6>1. CASE q = other
                        BY <3>1, <5>2, <6>1
                    <6>2. CASE q # other
                        BY <3>1, <5>2, <6>2
                    <6> QED
                        BY <6>1, <6>2
                <5> QED
                    BY <5>1, <5>2
            <4> QED
                BY <1>3, <4>1, <4>2, <4>3
        <3>3. \A q \in Objects, u \in Threads : \A h : ~(h \in region'[q].handles /\ h \in job[u].handles)
            <4>1. \A q \in Objects, u \in Threads : \A h :
                    ~(h \in region[q].handles /\ h \in job[u].handles)
                BY <1>1 DEF Owned
            <4>2. \A q \in Objects : \/ region'[q].handles = {}
                                     \/ \E p \in Objects : region'[q].handles = region[p].handles
                BY <1>2, <3>1
            <4> QED
                BY <4>1, <4>2
        <3>4. \A p, q \in Objects : \A h : h \in region'[p].handles /\ h \in region'[q].handles => p = q
            <4>1. \A p, q \in Objects : \A h : h \in region[p].handles /\ h \in region[q].handles => p = q
                BY <1>1 DEF Owned
            <4> SUFFICES ASSUME NEW p \in Objects, NEW q \in Objects, NEW h,
                                h \in region'[p].handles, h \in region'[q].handles
                         PROVE  p = q
                OBVIOUS
            <4>2. p # other /\ q # other
                BY <1>2, <3>1
            <4>3. CASE p = o /\ q # o
                BY <2>2, <3>1, <4>1, <4>2, <4>3
            <4>4. CASE p # o /\ q = o
                BY <2>2, <3>1, <4>1, <4>2, <4>4
            <4>5. CASE p # o /\ q # o
                BY <3>1, <4>1, <4>2, <4>5
            <4> QED
                BY <4>3, <4>4, <4>5
        <3>5. Owned'
            BY <1>1, <3>2, <3>3, <3>4 DEF Owned
        <3> QED
            BY <1>1, <1>2, <3>1, <3>5 DEF RegionHolds
    <2> QED
        BY <2>1, <2>2
<1>5. /\ \A q \in Objects : \A h \in region'[q].handles : kernel'[h] = kernel[h]
      /\ \A u \in Threads : \A h \in job[u].handles : kernel'[h] = kernel[h]
    BY <1>3, <1>4 DEF Owned
<1>6. RegionHolds' /\ JobHolds'
    BY <1>1, <1>4, <1>5, KeepsSound DEF RegionHolds, JobHolds
<1>7. HandleTypes'
    BY <1>1, <1>3, <1>4 DEF HandleTypes
<1> QED
    BY <1>3, <1>4, <1>6, <1>7 DEF HandleInv

LEMMA RegionCrashStep ==
    ASSUME HandleInv, Crash
    PROVE  HandleInv'
<1>1. kernel' = << >> /\ DOMAIN kernel' = {} /\ UNCHANGED windows
    BY DEF Crash
<1>2. Closed \in Regions /\ RegionSound(kernel', Closed) /\ Closed.handles = {}
    BY DEF Closed, Regions, RegionSound, OneOfAKind
<1>3. NoJob \in Jobs /\ JobSound(kernel', NoJob) /\ NoJob.handles = {}
    BY DEF NoJob, Jobs, Steps, JobSound, OneOfAKind
<1>4. HandleTypes'
    <2>1. kernel' \in [DOMAIN kernel' -> [kind : Kinds, path : Paths]]
        BY <1>1
    <2> QED
        BY <1>1, <1>2, <1>3, <2>1 DEF Crash, HandleInv, HandleTypes
<1>5. Owned'
    BY <1>1, <1>2, <1>3 DEF Crash, Owned
<1> QED
    BY <1>1, <1>2, <1>3, <1>4, <1>5 DEF Crash, HandleInv, JobHolds, RegionHolds, OneFile

LEMMA HandleNext ==
    ASSUME HandleInv, [Next]_vars
    PROVE  HandleInv'
<1>1. ASSUME NEW t \in Threads, OpenFile(t) \/ CreateMapping(t) \/ MapView(t)
      PROVE  HandleInv'
    <2>1. CASE OpenFile(t)
        BY <2>1, AcquireStep DEF OpenFile, Kinds, Steps
    <2>2. CASE CreateMapping(t)
        BY <2>2, AcquireStep DEF CreateMapping, Kinds, Steps
    <2>3. CASE MapView(t)
        BY <2>3, AcquireStep DEF MapView, Kinds, Steps
    <2> QED
        BY <1>1, <2>1, <2>2, <2>3
<1>2. ASSUME NEW o \in Objects, NEW other \in Objects, Move(o, other) \/ Close(o)
      PROVE  HandleInv'
    BY <1>2, ReleaseStep DEF Move, Close
<1>3. ASSUME UNCHANGED <<kernel, region, job, windows>>
      PROVE  HandleInv'
    BY <1>3 DEF HandleInv, HandleTypes, Owned, JobHolds, RegionHolds, OneFile
<1>4. ASSUME NEW o \in Objects, NEW from, NEW length, Write(o) \/ Sync(o, from, length)
      PROVE  HandleInv'
    BY <1>3, <1>4 DEF Write, Sync
<1>5. CASE UNCHANGED vars
    BY <1>3, <1>5 DEF vars
<1> QED
    BY <1>1, <1>2, <1>4, <1>5, CreateCallStep, ResizeStep, FailStep, CreateReturnsStep,
       RegionCrashStep DEF Next

\* HandlesOwned: whatever fails, moves, closes twice or crashes, every open handle has
\* one owner and every owner's handles are open (mmap_region.cpp, Create, operator=, Close).
THEOREM NoHandleLeaks == Spec => []HandlesOwned
<1>1. HandleInv /\ [Next]_vars => HandleInv'
    BY HandleNext
<1>2. HandleInv => HandlesOwned
    BY HandlesInHand DEF HandleInv
<1> QED
    BY <1>1, <1>2, HandleInit, PTL DEF Spec

\* Exclusive: on Windows no two objects ever have one file mapped, because the file
\* of each is open without FILE_SHARE_WRITE as long as it is (mmap_region.cpp:64).
THEOREM OneMappingPerFile == Spec => []Exclusive
<1>1. HandleInv /\ [Next]_vars => HandleInv'
    BY HandleNext
<1>2. HandleInv => Exclusive
    <2> SUFFICES ASSUME HandleInv, windows, NEW o \in Open, NEW q \in Open, o # q,
                        region[o].path = region[q].path
                 PROVE  FALSE
        BY DEF Exclusive
    <2>1. o \in Objects /\ q \in Objects /\ region[o].handles # {} /\ region[q].handles # {}
        BY DEF Open
    <2>2. PICK h \in region[o].handles : kernel[h].kind = "file" /\ kernel[h].path = region[o].path
        BY <2>1 DEF HandleInv, RegionHolds, RegionSound, HasFile
    <2>3. PICK g \in region[q].handles : kernel[g].kind = "file" /\ kernel[g].path = region[q].path
        BY <2>1 DEF HandleInv, RegionHolds, RegionSound, HasFile
    <2>4. h \in DOMAIN kernel /\ g \in DOMAIN kernel
        BY <2>1 DEF HandleInv, Owned
    <2>5. h = g
        BY <2>2, <2>3, <2>4 DEF HandleInv, OneFile
    <2> QED
        BY <2>1, <2>5 DEF HandleInv, Owned
<1> QED
    BY <1>1, <1>2, HandleInit, PTL DEF Spec

-----------------------------------------------------------------------------
(* The files.                                                                *)

Pages ==
    /\ disk \in [Paths -> Seq({0, 1})]
    /\ dirty \in [Paths -> SUBSET Nat] /\ promised \in [Paths -> SUBSET Nat]

\* The msync of a range reaches every page of it.
LEMMA RangeCovered ==
    ASSUME windows \in BOOLEAN, NEW from \in Nat, NEW length \in Int
    PROVE  PagesOf(from, length) \subseteq MsyncRange(from, length)
<1>1. (from \div Page) * Page \in Nat /\ (from \div Page) * Page <= from
    BY PageAssumption
<1>2. PICK a \in Nat : a <= from /\ a = IF windows THEN from ELSE (from \div Page) * Page
    BY <1>1
<1>3. MsyncRange(from, length) = PagesOf(a, length + (from - a))
    BY <1>2 DEF MsyncRange
<1>4. a + (length + (from - a)) = from + length
    BY <1>2
<1>5. ASSUME NEW i \in PagesOf(from, length) PROVE i \in PagesOf(a, length + (from - a))
    <2>1. i \in 1 .. from + length /\ i * Page > from /\ (i - 1) * Page < from + length
        BY <1>5 DEF PagesOf
    <2>2. i * Page > a
        BY <1>2, <2>1, PageAssumption
    <2> QED
        BY <1>4, <2>1, <2>2 DEF PagesOf
<1> QED
    BY <1>3, <1>5

LEMMA LengthsType == Lengths \subseteq Nat
    BY DEF Lengths

\* A resized file has the length it was given.
LEMMA ResizedLength ==
    ASSUME NEW pages \in Seq({0, 1}), NEW n \in Nat
    PROVE  Resized(pages, n) \in Seq({0, 1}) /\ Len(Resized(pages, n)) = n
<1>1. \A i \in 1 .. n : (IF i <= Len(pages) THEN pages[i] ELSE 0) \in {0, 1}
    BY LenProperties, ElementOfSeq
<1>2. Resized(pages, n) \in [1 .. n -> {0, 1}]
    BY <1>1 DEF Resized
<1>3. Resized(pages, n) \in Seq({0, 1})
    BY <1>2, SeqDef
<1>4. Len(Resized(pages, n)) = n
    BY <1>2, <1>3, LenProperties
<1> QED
    BY <1>3, <1>4

LEMMA PagesInit == Init => Pages /\ SyncCovers
<1> SUFFICES ASSUME Init PROVE Pages /\ SyncCovers
    OBVIOUS
<1>1. << >> \in Seq({0, 1})
    BY EmptySeq
<1> QED
    BY <1>1 DEF Init, Pages, SyncCovers

LEMMA PagesResize ==
    ASSUME HandleInv, Pages, SyncCovers, NEW t \in Threads, Resize(t)
    PROVE  Pages' /\ SyncCovers'
<1>1. PICK p : p = job[t].path
    OBVIOUS
<1>2. PICK n : n = job[t].size \div Page
    OBVIOUS
<1>3. /\ disk' = [disk EXCEPT ![p] = Resized(@, n)]
      /\ dirty' = [dirty EXCEPT ![p] = @ \cap 1 .. n]
      /\ promised' = [promised EXCEPT ![p] = @ \cap 1 .. n]
      /\ job[t].step = "resize"
    BY <1>1, <1>2 DEF Resize
<1>4. p \in Paths /\ n \in Nat
    <2>1. job[t] \in Jobs /\ JobSound(kernel, job[t])
        BY DEF HandleInv, HandleTypes, JobHolds
    <2>2. job[t].size \in Nat
        BY <2>1 DEF Jobs
    <2> QED
        BY <1>1, <1>2, <1>3, <2>1, <2>2, PageAssumption DEF JobSound
<1>5. Resized(disk[p], n) \in Seq({0, 1}) /\ Len(Resized(disk[p], n)) = n
    BY <1>4, ResizedLength DEF Pages
<1>6. /\ \A q \in Paths : disk'[q] = IF q = p THEN Resized(disk[p], n) ELSE disk[q]
      /\ disk' \in [Paths -> Seq({0, 1})]
    BY <1>3, <1>4, <1>5 DEF Pages
<1>7. /\ dirty' \in [Paths -> SUBSET Nat] /\ promised' \in [Paths -> SUBSET Nat]
      /\ \A q \in Paths : dirty'[q] \subseteq dirty[q] /\ promised'[q] \subseteq promised[q]
    BY <1>3, <1>4 DEF Pages
<1>8. SyncCovers'
    BY <1>7 DEF SyncCovers
<1> QED
    BY <1>6, <1>7, <1>8 DEF Pages

LEMMA PagesWrite ==
    ASSUME HandleInv, Pages, SyncCovers, NEW o \in Objects, Write(o)
    PROVE  Pages' /\ SyncCovers'
<1>1. PICK p : p = region[o].path
    OBVIOUS
<1>2. PICK i \in 1 .. region[o].size \div Page :
          /\ i <= Len(disk[p])
          /\ disk' = [disk EXCEPT ![p][i] = 1]
          /\ dirty' = [dirty EXCEPT ![p] = @ \cup {i}]
          /\ promised' = [promised EXCEPT ![p] = @ \ {i}]
    BY <1>1 DEF Write
<1>3. CASE p \notin Paths
    <2>1. UNCHANGED <<disk, dirty, promised>>
        BY <1>2, <1>3 DEF Pages
    <2> QED
        BY <2>1 DEF Pages, SyncCovers
<1>4. CASE p \in Paths
    <2>1. disk[p] \in Seq({0, 1}) /\ Len(disk[p]) \in Nat /\ DOMAIN disk[p] = 1 .. Len(disk[p])
        BY <1>4, LenProperties DEF Pages
    <2>2. i \in 1 .. Len(disk[p]) /\ i \in Nat
        BY <1>2, <2>1
    <2>3. PICK s : s = [disk[p] EXCEPT ![i] = 1]
        OBVIOUS
    <2>4. s \in Seq({0, 1}) /\ Len(s) = Len(disk[p])
          /\ \A j \in 1 .. Len(disk[p]) : s[j] = IF j = i THEN 1 ELSE disk[p][j]
        BY <2>1, <2>2, <2>3, ExceptSeq
    <2>5. disk' = [disk EXCEPT ![p] = s]
        BY <1>2, <1>4, <2>3 DEF Pages
    <2>6. /\ \A q \in Paths : disk'[q] = IF q = p THEN s ELSE disk[q]
          /\ disk' \in [Paths -> Seq({0, 1})]
        BY <1>4, <2>4, <2>5 DEF Pages
    <2>7. /\ dirty' \in [Paths -> SUBSET Nat] /\ promised' \in [Paths -> SUBSET Nat]
          /\ \A q \in Paths : /\ dirty'[q] = IF q = p THEN dirty[q] \cup {i} ELSE dirty[q]
                              /\ promised'[q] = IF q = p THEN promised[q] \ {i} ELSE promised[q]
        BY <1>2, <1>4, <2>2 DEF Pages
    <2>8. SyncCovers'
        BY <2>7 DEF SyncCovers
    <2> QED
        BY <2>6, <2>7, <2>8 DEF Pages
<1> QED
    BY <1>3, <1>4

LEMMA PagesSync ==
    ASSUME HandleInv, Pages, SyncCovers, NEW o \in Objects,
           NEW from \in Lengths, NEW length \in Lengths, Sync(o, from, length)
    PROVE  Pages' /\ SyncCovers'
<1>1. PICK p : p = region[o].path
    OBVIOUS
<1>2. PICK within : within = IF from + length > region[o].size
                             THEN region[o].size - from ELSE length
    OBVIOUS
<1>3. /\ UNCHANGED disk
      /\ dirty' = [dirty EXCEPT ![p] = @ \ MsyncRange(from, within)]
      /\ promised' = [promised EXCEPT ![p] = @ \cup (PagesOf(from, within) \cap 1 .. Len(disk[p]))]
    BY <1>1, <1>2 DEF Sync
<1>4. from \in Nat /\ within \in Int
    <2>1. from \in Nat /\ length \in Nat
        BY LengthsType
    <2>2. region[o].size \in Nat
        BY DEF HandleInv, HandleTypes, Regions
    <2> QED
        BY <1>2, <2>1, <2>2
<1>5. PagesOf(from, within) \subseteq MsyncRange(from, within)
    BY <1>4, RangeCovered DEF HandleInv, HandleTypes
<1>6. PagesOf(from, within) \subseteq Nat
    BY <1>4 DEF PagesOf
<1>7. /\ dirty' \in [Paths -> SUBSET Nat] /\ promised' \in [Paths -> SUBSET Nat]
      /\ \A q \in Paths :
           \/ q # p /\ dirty'[q] = dirty[q] /\ promised'[q] = promised[q]
           \/ /\ dirty'[q] = dirty[q] \ MsyncRange(from, within)
              /\ promised'[q] \subseteq promised[q] \cup PagesOf(from, within)
    BY <1>3, <1>6 DEF Pages
<1>8. SyncCovers'
    BY <1>5, <1>7 DEF SyncCovers
<1> QED
    BY <1>3, <1>7, <1>8 DEF Pages

LEMMA PagesNext ==
    ASSUME HandleInv, Pages, SyncCovers, [Next]_vars
    PROVE  Pages' /\ SyncCovers'
<1>1. ASSUME UNCHANGED <<disk, dirty, promised>>
      PROVE  Pages' /\ SyncCovers'
    BY <1>1 DEF Pages, SyncCovers
<1>2. ASSUME NEW t \in Threads, \/ CreateCall(t) \/ OpenFile(t) \/ CreateMapping(t) \/ MapView(t)
                                \/ Fail(t) \/ CreateReturns(t)
      PROVE  UNCHANGED <<disk, dirty, promised>>
    BY <1>2 DEF CreateCall, OpenFile, CreateMapping, MapView, Acquire, Fail, CreateReturns
<1>3. ASSUME NEW o \in Objects, NEW other \in Objects, Move(o, other) \/ Close(o)
      PROVE  UNCHANGED <<disk, dirty, promised>>
    BY <1>3 DEF Move, Close
<1>4. Crash \/ UNCHANGED vars => UNCHANGED <<disk, dirty, promised>>
    BY DEF Crash, vars
<1> QED
    BY <1>1, <1>2, <1>3, <1>4, PagesResize, PagesWrite, PagesSync DEF Next

LEMMA RegionInvariance == Spec => [](HandleInv /\ Pages /\ SyncCovers)
<1>1. HandleInv /\ Pages /\ SyncCovers /\ [Next]_vars => (HandleInv /\ Pages /\ SyncCovers)'
    BY HandleNext, PagesNext
<1>2. Init => HandleInv /\ Pages /\ SyncCovers
    BY HandleInit, PagesInit
<1> QED
    BY <1>1, <1>2, PTL DEF Spec

\* SyncCovers: what Sync was asked for is on the device until it is written again: the
\* msync from the start of a page reaches every page of the range (mmap_region.cpp, Sync).
THEOREM SyncReachesAll == Spec => []SyncCovers
    BY RegionInvariance, PTL

-----------------------------------------------------------------------------
(* What is mapped is there. On POSIX it need not be.                         *)

Fits(d, r) == r.asked <= r.size /\ r.size <= Page * Len(d[r.path])

\* A whole number of pages, and no less than what was asked for.
Rounded(r) == r.asked <= r.size /\ Page * (r.size \div Page) = r.size

RegionsFit == \A o \in Open : Fits(disk, region[o])
JobsFit    == \A t \in Threads : /\ job[t].step # "none" => Rounded(job[t])
                                 /\ job[t].step \in {"mapping", "view", "made"} => Fits(disk, job[t])

RoomInv == windows => RegionsFit /\ JobsFit

LEMMA Multiples ==
    ASSUME NEW d \in Nat
    PROVE  (d * Page) \div Page = d
<1> DEFINE e == (d * Page) \div Page
<1>1. Page \in Nat /\ Page > 0 /\ e \in Int
    BY PageAssumption
<1>2. Page * e <= d * Page /\ d * Page < Page * e + Page
    BY <1>1
<1> HIDE DEF e
<1>3. Page * (d - e) >= 0 /\ Page * (d - e - 1) < 0
    BY <1>1, <1>2
<1>4. \A z \in Int : (z >= 0 => Page * z >= 0) /\ (z < 0 => Page * z < 0)
    BY <1>1
<1>5. d - e >= 0 /\ d - e - 1 < 0
    BY <1>1, <1>3, <1>4
<1>6. e = d
    BY <1>1, <1>5
<1> QED
    BY <1>6 DEF e

\* A region is a whole number of pages, the last of which may not be filled.
LEMMA RoundsUp ==
    ASSUME NEW n \in Nat
    PROVE  n <= RoundUpToPage(n) /\ Page * (RoundUpToPage(n) \div Page) = RoundUpToPage(n)
<1>1. PICK d \in Nat : d = (n + Page - 1) \div Page
    BY PageAssumption
<1>2. RoundUpToPage(n) = d * Page
    BY <1>1 DEF RoundUpToPage
<1>3. n + Page - 1 < Page * d + Page
    BY <1>1, PageAssumption
<1> QED
    BY <1>2, <1>3, Multiples, PageAssumption

\* On Windows nobody else has mapped the file that a Create is about to resize.
LEMMA ResizesAlone ==
    ASSUME HandleInv, windows, NEW t \in Threads, job[t].step = "resize"
    PROVE  /\ \A o \in Open : region[o].path # job[t].path
           /\ \A u \in Threads : job[u].step \in {"mapping", "view", "made"} =>
                  job[u].path # job[t].path
<1>1. JobSound(kernel, job[t]) /\ Owned /\ OneFile
    BY DEF HandleInv, JobHolds
<1>2. PICK h \in job[t].handles : kernel[h].kind = "file" /\ kernel[h].path = job[t].path
    BY <1>1 DEF JobSound, HasFile
<1>3. h \in DOMAIN kernel
    BY <1>1 DEF Owned
<1>4. ASSUME NEW o \in Open, region[o].path = job[t].path PROVE FALSE
    <2>1. o \in Objects /\ RegionSound(kernel, region[o]) /\ region[o].handles # {}
        BY <1>4 DEF HandleInv, RegionHolds, Open
    <2>2. PICK g \in region[o].handles : kernel[g].kind = "file" /\ kernel[g].path = region[o].path
        BY <2>1 DEF RegionSound, HasFile
    <2>3. g \in DOMAIN kernel
        BY <1>1, <2>1 DEF Owned
    <2>4. g = h
        BY <1>1, <1>2, <1>3, <1>4, <2>2, <2>3 DEF OneFile
    <2> QED
        BY <1>1, <1>2, <2>1, <2>4 DEF Owned
<1>5. ASSUME NEW u \in Threads, job[u].step \in {"mapping", "view", "made"}, job[u].path = job[t].path
      PROVE  FALSE
    <2>1. JobSound(kernel, job[u])
        BY DEF HandleInv, JobHolds
    <2>2. PICK g \in job[u].handles : kernel[g].kind = "file" /\ kernel[g].path = job[u].path
        BY <1>5, <2>1 DEF JobSound, HasFile
    <2>3. g \in DOMAIN kernel
        BY <1>1 DEF Owned
    <2>4. g = h
        BY <1>1, <1>2, <1>3, <1>5, <2>2, <2>3 DEF OneFile
    <2>5. u = t
        BY <1>1, <1>2, <2>4 DEF Owned
    <2> QED
        BY <1>5, <2>5
<1> QED
    BY <1>4, <1>5

\* An object with handles has the path of the file behind them.
LEMMA OpenHasPath ==
    ASSUME HandleInv, NEW o \in Open
    PROVE  region[o].path \in Paths
<1>1. o \in Objects /\ region[o].handles # {} /\ RegionSound(kernel, region[o])
    BY DEF Open, HandleInv, RegionHolds
<1>2. PICK h \in region[o].handles : kernel[h].path = region[o].path
    BY <1>1 DEF RegionSound, HasFile
<1>3. h \in DOMAIN kernel
    BY <1>1 DEF HandleInv, Owned
<1> QED
    BY <1>2, <1>3 DEF HandleInv, HandleTypes

LEMMA RoomResize ==
    ASSUME HandleInv, Pages, RoomInv, windows, NEW t \in Threads, Resize(t)
    PROVE  RegionsFit' /\ JobsFit'
<1> DEFINE p == job[t].path
           n == job[t].size \div Page
<1>1. /\ disk' = [disk EXCEPT ![p] = Resized(@, n)] /\ UNCHANGED region
      /\ job[t].step = "resize" /\ job' = [job EXCEPT ![t].step = "mapping"]
    BY DEF Resize
<1>2. job \in [Threads -> Jobs] /\ p \in Paths /\ job[t].size \in Nat /\ n \in Nat
    <2>1. job \in [Threads -> Jobs] /\ job[t] \in Jobs /\ JobSound(kernel, job[t])
        BY DEF HandleInv, HandleTypes, JobHolds
    <2>2. job[t].size \in Nat /\ p \in Paths
        BY <1>1, <2>1 DEF Jobs, JobSound
    <2> QED
        BY <2>1, <2>2, PageAssumption
<1>3. Len(disk'[p]) = n /\ \A q \in Paths : q # p => disk'[q] = disk[q]
    <2>1. disk[p] \in Seq({0, 1})
        BY <1>2 DEF Pages
    <2>2. disk'[p] = Resized(disk[p], n)
        BY <1>1, <1>2 DEF Pages
    <2> QED
        BY <1>1, <1>2, <2>1, <2>2, ResizedLength DEF Pages
<1>4. Rounded(job[t]) /\ RegionsFit /\ JobsFit
    BY <1>1 DEF RoomInv, JobsFit
<1>5. /\ \A u \in Threads : u # t => job'[u] = job[u]
      /\ job'[t].step = "mapping" /\ job'[t].asked = job[t].asked /\ job'[t].size = job[t].size
      /\ job'[t].path = p
    <2>1. job'[t] = [job[t] EXCEPT !.step = "mapping"] /\ job[t] \in Jobs
        BY <1>1, <1>2
    <2> QED
        BY <1>1, <1>2, <2>1 DEF Jobs
<1>6. RegionsFit'
    <2> SUFFICES ASSUME NEW o \in Open' PROVE Fits(disk', region[o])
        BY <1>1 DEF RegionsFit
    <2>1. o \in Open /\ o \in Objects
        BY <1>1 DEF Open
    <2>2. region[o].path \in Paths /\ region[o].path # p
        BY <1>1, <2>1, ResizesAlone, OpenHasPath
    <2> QED
        BY <1>3, <1>4, <2>1, <2>2 DEF RegionsFit, Fits
<1>7. JobsFit'
    <2>1. Fits(disk', job'[t]) /\ Rounded(job'[t])
        BY <1>2, <1>3, <1>4, <1>5 DEF Fits, Rounded
    <2>2. ASSUME NEW u \in Threads, u # t, job[u].step \in {"mapping", "view", "made"}
          PROVE  Fits(disk', job[u])
        <3>1. job[u].path # p
            BY <1>1, <2>2, ResizesAlone
        <3>2. job[u].path \in Paths
            BY <2>2 DEF HandleInv, JobHolds, JobSound
        <3> QED
            BY <1>3, <1>4, <2>2, <3>1, <3>2 DEF JobsFit, Fits
    <2> QED
        BY <1>4, <1>5, <2>1, <2>2 DEF JobsFit
<1> QED
    BY <1>6, <1>7

\* A write changes no length.
LEMMA LengthsStay ==
    ASSUME Pages, NEW o \in Objects, Write(o)
    PROVE  \A q \in Paths : Len(disk'[q]) = Len(disk[q])
<1> DEFINE p == region[o].path
<1>1. PICK i \in 1 .. region[o].size \div Page :
          i <= Len(disk[p]) /\ disk' = [disk EXCEPT ![p][i] = 1]
    BY DEF Write
<1>2. CASE p \notin Paths
    BY <1>1, <1>2 DEF Pages
<1>3. CASE p \in Paths
    <2>1. disk[p] \in Seq({0, 1}) /\ Len(disk[p]) \in Nat /\ i \in Nat
        BY <1>3, LenProperties DEF Pages
    <2>2. i \in 1 .. Len(disk[p])
        BY <1>1, <2>1
    <2>3. PICK s : s = [disk[p] EXCEPT ![i] = 1]
        OBVIOUS
    <2>4. Len(s) = Len(disk[p])
        BY <2>1, <2>2, <2>3, ExceptSeq
    <2>5. \A q \in Paths : disk'[q] = IF q = p THEN s ELSE disk[q]
        BY <1>1, <1>3, <2>3 DEF Pages
    <2> QED
        BY <2>4, <2>5
<1> QED
    BY <1>2, <1>3

\* What is open stays as it is, and so does what a Create has mapped.
LEMMA RoomSame ==
    ASSUME RegionsFit, JobsFit, UNCHANGED region, UNCHANGED job,
           \A o \in Open : Len(disk'[region[o].path]) = Len(disk[region[o].path]),
           \A t \in Threads : job[t].step \in {"mapping", "view", "made"} =>
               Len(disk'[job[t].path]) = Len(disk[job[t].path])
    PROVE  RegionsFit' /\ JobsFit'
<1>1. RegionsFit'
    BY DEF RegionsFit, Fits, Open
<1>2. JobsFit'
    BY DEF JobsFit, Fits
<1> QED
    BY <1>1, <1>2

LEMMA RoomWrite ==
    ASSUME HandleInv, Pages, RegionsFit, JobsFit, NEW o \in Objects, Write(o)
    PROVE  RegionsFit' /\ JobsFit'
<1>1. UNCHANGED region /\ UNCHANGED job
    BY DEF Write
<1>2. \A q \in Paths : Len(disk'[q]) = Len(disk[q])
    BY LengthsStay
<1>3. \A q \in Open : region[q].path \in Paths
    BY OpenHasPath
<1>4. \A t \in Threads : job[t].step \in {"mapping", "view", "made"} => job[t].path \in Paths
    BY DEF HandleInv, JobHolds, JobSound
<1> QED
    BY <1>1, <1>2, <1>3, <1>4, RoomSame

\* A Create goes on: what it is to have is rounded up, and fits once it is resized.
LEMMA RoomCreate ==
    ASSUME HandleInv, RegionsFit, JobsFit, NEW t \in Threads,
           CreateCall(t) \/ OpenFile(t) \/ CreateMapping(t) \/ MapView(t) \/ Fail(t)
    PROVE  RegionsFit' /\ JobsFit'
<1>1. UNCHANGED region /\ UNCHANGED disk
    BY DEF CreateCall, OpenFile, CreateMapping, MapView, Acquire, Fail
<1>2. job \in [Threads -> Jobs]
    BY DEF HandleInv, HandleTypes
<1>3. RegionsFit'
    BY <1>1 DEF RegionsFit, Fits, Open
<1>4. ASSUME /\ \A u \in Threads : u # t => job'[u] = job[u]
             /\ job'[t].step # "none" => Rounded(job'[t])
             /\ job'[t].step \in {"mapping", "view", "made"} => Fits(disk, job'[t])
      PROVE  RegionsFit' /\ JobsFit'
    BY <1>1, <1>3, <1>4 DEF JobsFit
<1>5. CASE CreateCall(t)
    <2>1. PICK o \in Objects, p \in Paths, n \in Requests \ {0} :
              job' = [job EXCEPT ![t] = [step |-> "open", into |-> o, path |-> p, asked |-> n,
                                         size |-> RoundUpToPage(n), handles |-> {}]]
        BY <1>5 DEF CreateCall
    <2>2. n <= RoundUpToPage(n) /\ Page * (RoundUpToPage(n) \div Page) = RoundUpToPage(n)
        BY RoundsUp, PageAssumption
    <2> QED
        BY <1>2, <1>4, <2>1, <2>2 DEF Rounded
<1>6. ASSUME NEW kind, NEW next, Acquire(t, kind, next),
             \/ job[t].step = "open" /\ next = "resize"
             \/ job[t].step = "mapping" /\ next = "view"
             \/ job[t].step = "view" /\ next = "made"
      PROVE  RegionsFit' /\ JobsFit'
    <2>1. job'[t] = [job[t] EXCEPT !.step = next, !.handles = @ \cup {NewHandle}] /\ job[t] \in Jobs
          /\ \A u \in Threads : u # t => job'[u] = job[u]
        BY <1>2, <1>6 DEF Acquire
    <2>2. /\ job'[t].step = next /\ job'[t].size = job[t].size
          /\ job'[t].asked = job[t].asked /\ job'[t].path = job[t].path
        BY <2>1 DEF Jobs
    <2> QED
        BY <1>4, <1>6, <2>1, <2>2 DEF JobsFit, Rounded, Fits
<1>7. CASE OpenFile(t)
    BY <1>6, <1>7 DEF OpenFile
<1>8. CASE CreateMapping(t)
    BY <1>6, <1>8 DEF CreateMapping
<1>9. CASE MapView(t)
    BY <1>6, <1>9 DEF MapView
<1>10. CASE Fail(t)
    <2>1. job'[t].step = "none" /\ \A u \in Threads : u # t => job'[u] = job[u]
        BY <1>2, <1>10 DEF Fail, NoJob
    <2> QED
        BY <1>4, <2>1
<1> QED
    BY <1>5, <1>7, <1>8, <1>9, <1>10

\* What the objects have moves with its handles.
LEMMA RoomMoves ==
    ASSUME HandleInv, RegionsFit, JobsFit,
           \/ \E t \in Threads : CreateReturns(t)
           \/ \E o, other \in Objects : Move(o, other)
           \/ \E o \in Objects : Close(o)
           \/ Crash
    PROVE  RegionsFit' /\ JobsFit'
<1>1. region \in [Objects -> Regions] /\ job \in [Threads -> Jobs]
    BY DEF HandleInv, HandleTypes
<1>2. Closed.handles = {} /\ NoJob.step = "none"
    BY DEF Closed, NoJob
<1>3. ASSUME UNCHANGED disk,
             \A u \in Threads : job'[u] = job[u] \/ job'[u] = NoJob,
             \A q \in Objects : \/ region'[q] = Closed
                                \/ \E r \in Open : region'[q] = region[r]
                                \/ region'[q] = region[q]
                                \/ Fits(disk, region'[q])
      PROVE  RegionsFit' /\ JobsFit'
    <2>1. RegionsFit'
        BY <1>2, <1>3 DEF RegionsFit, Fits, Open
    <2>2. JobsFit'
        BY <1>2, <1>3 DEF JobsFit, Fits, Rounded
    <2> QED
        BY <2>1, <2>2
<1>4. ASSUME NEW t \in Threads, CreateReturns(t) PROVE RegionsFit' /\ JobsFit'
    <2> DEFINE r == [path |-> job[t].path, size |-> job[t].size, asked |-> job[t].asked,
                     handles |-> job[t].handles]
    <2>1. /\ region' = [region EXCEPT ![job[t].into] = r] /\ job' = [job EXCEPT ![t] = NoJob]
          /\ UNCHANGED disk /\ job[t].step = "made"
        BY <1>4 DEF CreateReturns, Assign
    <2>2. Fits(disk, r)
        BY <2>1 DEF JobsFit, Fits
    <2> HIDE DEF r
    <2> QED
        BY <1>1, <1>3, <2>1, <2>2
<1>5. ASSUME NEW o \in Objects, NEW other \in Objects, Move(o, other)
      PROVE  RegionsFit' /\ JobsFit'
    <2>1. /\ region' = [region EXCEPT ![o] = region[other], ![other] = Closed]
          /\ UNCHANGED <<disk, job>>
        BY <1>5 DEF Move
    <2>2. RegionsFit'
        BY <1>1, <1>2, <2>1 DEF RegionsFit, Fits, Open
    <2> QED
        BY <2>1, <2>2 DEF JobsFit, Fits, Rounded
<1>6. ASSUME NEW o \in Objects, Close(o) PROVE RegionsFit' /\ JobsFit'
    <2>1. region' = [region EXCEPT ![o] = Closed] /\ UNCHANGED <<disk, job>>
        BY <1>6 DEF Close
    <2> QED
        BY <1>1, <1>3, <2>1
<1>7. CASE Crash
    BY <1>3, <1>7 DEF Crash
<1> QED
    BY <1>4, <1>5, <1>6, <1>7

LEMMA RoomNext ==
    ASSUME HandleInv, Pages, RoomInv, [Next]_vars
    PROVE  RoomInv'
<1> SUFFICES ASSUME windows' PROVE RegionsFit' /\ JobsFit'
    BY DEF RoomInv
<1>1. windows
    BY DEF Next, CreateCall, OpenFile, Resize, CreateMapping, MapView, Acquire, Fail,
           CreateReturns, Move, Close, Write, Sync, Crash, vars
<1>2. RegionsFit /\ JobsFit
    BY <1>1 DEF RoomInv
<1>3. ASSUME UNCHANGED <<disk, region, job>> PROVE RegionsFit' /\ JobsFit'
    BY <1>2, <1>3, RoomSame
<1>4. ASSUME NEW o \in Objects, NEW from, NEW length, Sync(o, from, length)
      PROVE  RegionsFit' /\ JobsFit'
    BY <1>3, <1>4 DEF Sync
<1>5. CASE UNCHANGED vars
    BY <1>3, <1>5 DEF vars
<1> QED
    BY <1>1, <1>2, <1>4, <1>5, RoomCreate, RoomResize, RoomMoves, RoomWrite DEF Next

\* MappedUnlessShared: on Windows the file has all the bytes of every region that is open,
\* and the region all that were asked for (mmap_region.h:9, 13), since no other Create can
\* resize a file that is open (mmap_region.cpp:64). Without that lock it does not hold.
THEOREM MappedUnderLock == Spec => []MappedUnlessShared
<1>1. Init => RoomInv
    <2> SUFFICES ASSUME Init PROVE RegionsFit /\ JobsFit
        BY DEF RoomInv
    <2>1. /\ \A o \in Objects : region[o].handles = {}
          /\ \A t \in Threads : job[t].step = "none"
        BY DEF Init, Closed, NoJob
    <2> QED
        BY <2>1 DEF RegionsFit, JobsFit, Open
<1>2. HandleInv /\ Pages /\ SyncCovers /\ RoomInv /\ [Next]_vars => RoomInv'
    BY RoomNext
<1>3. RoomInv => MappedUnlessShared
    BY DEF RoomInv, RegionsFit, Fits, Mapped, MappedUnlessShared
<1> QED
    BY <1>1, <1>2, <1>3, RegionInvariance, PTL DEF Spec

=============================================================================
