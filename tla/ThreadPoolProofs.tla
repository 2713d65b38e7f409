-------------------------- MODULE ThreadPoolProofs --------------------------
(* Safety of ThreadPool for every set of clients and tasks, every Config and *)
(* every interleaving: worker_count_ and the handles are exact, and what is  *)
(* queued has been run, once, when Shutdown returns. After that, of Context, *)
(* which builds one pool for the process and takes it down, and of Strand,   *)
(* which runs its tasks on the pool one after the other.                     *)
EXTENDS ThreadPool, FiniteSetTheorems, SequenceTheorems, TLAPS

\* The threads that have been started and not joined.
Started == {w \in Ids : wpc[w] # "none"}

\* The clients that are on their way to start another one.
Spawners == {c \in Clients : cpc[c] \in {"notifyspawn", "spawn"}}

\* The clients inside Shutdown, past the look at stopped_.
Closers == {c \in Clients : cpc[c] \in {"wakeall", "collect", "join"}}

\* Who has to post a task has one, and so does who has to run one.
InHand ==
    /\ \A c \in Clients : cpc[c] \in {"enqueue", "inline"} => ctask[c] \in Tasks
    /\ \A w \in Ids : wpc[w] = "run" => wtask[w] \in Tasks

\* A single thread shuts the pool down. Once it has the handles, nobody else does.
Closing ==
    /\ Closers # {} \/ down => stopped
    /\ down => Closers = {}
    /\ \A c, d \in Closers : c = d
    /\ taken # {} => \E c \in Closers : cpc[c] = "join"
    /\ down \/ (\E c \in Closers : cpc[c] = "join") => workers = {} /\ reap = {}

\* A handle in workers_ is that of a thread that has not left WorkerLoop_.
Handles ==
    /\ HandlesOnce
    /\ \A w \in workers : wpc[w] \notin {"leaving", "gone"}

\* Push joins who has left, so that at most one thread for each client that is
\* about to spawn comes on top of MaxThreads: there is always an identity left.
Room == Cardinality(Started) + Cardinality(Spawners) <= MaxThreads + Cardinality(Clients)

\* The last worker leaves an empty queue, which nobody adds to any more.
Drained == stopped /\ count = 0 => tasks = << >>

\* A task is in one place: a client's hand, the queue, a worker's hand, or run.
TasksOnce ==
    /\ IsInjective(tasks) /\ IsInjective(ran) /\ ToSet(tasks) \cap ToSet(ran) = {}
    /\ \A c \in Clients : ctask[c] # NoTask =>
         /\ ctask[c] \notin ToSet(tasks) \cup ToSet(ran)
         /\ \A d \in Clients : ctask[d] = ctask[c] => d = c
         /\ \A w \in Ids : wtask[w] # ctask[c]
    /\ \A w \in Ids : wtask[w] # NoTask =>
         /\ wtask[w] \notin ToSet(tasks) \cup ToSet(ran)
         /\ \A v \in Ids : wtask[v] = wtask[w] => v = w

Types == TypeOK /\ InHand

Inv == Types /\ Closing /\ Handles /\ CountExact /\ Room /\ Drained /\ TasksOnce

-----------------------------------------------------------------------------
(* Sequences and the sets of their elements; subsets of a given size.        *)

LEMMA AppendSet ==
    ASSUME NEW S, NEW s \in Seq(S), NEW e \in S
    PROVE  /\ Append(s, e) \in Seq(S) /\ Len(Append(s, e)) = Len(s) + 1
           /\ ToSet(Append(s, e)) = ToSet(s) \cup {e}
           /\ IsInjective(s) /\ e \notin ToSet(s) => IsInjective(Append(s, e))
<1>1. /\ Append(s, e) \in Seq(S) /\ Len(Append(s, e)) = Len(s) + 1
      /\ \A i \in 1 .. Len(s) : Append(s, e)[i] = s[i]
      /\ Append(s, e)[Len(s) + 1] = e
    BY AppendProperties
<1>2. /\ DOMAIN s = 1 .. Len(s) /\ Len(s) \in Nat
      /\ DOMAIN Append(s, e) = 1 .. Len(s) + 1
    BY <1>1, LenProperties
<1>3. ToSet(Append(s, e)) = ToSet(s) \cup {e}
    BY <1>1, <1>2 DEF ToSet
<1>4. IsInjective(s) /\ e \notin ToSet(s) => IsInjective(Append(s, e))
    BY <1>1, <1>2 DEF IsInjective, ToSet
<1> QED
    BY <1>1, <1>3, <1>4

LEMMA TailSet ==
    ASSUME NEW S, NEW s \in Seq(S), s # << >>
    PROVE  /\ Tail(s) \in Seq(S) /\ Len(Tail(s)) = Len(s) - 1 /\ Head(s) \in S
           /\ ToSet(s) = ToSet(Tail(s)) \cup {Head(s)}
           /\ IsInjective(s) => IsInjective(Tail(s)) /\ Head(s) \notin ToSet(Tail(s))
<1>1. /\ Tail(s) \in Seq(S) /\ Len(Tail(s)) = Len(s) - 1 /\ Head(s) \in S
      /\ \A i \in 1 .. Len(Tail(s)) : Tail(s)[i] = s[i + 1]
    BY HeadTailProperties
<1>2. /\ DOMAIN s = 1 .. Len(s) /\ Len(s) \in Nat \ {0} /\ Head(s) = s[1]
      /\ DOMAIN Tail(s) = 1 .. Len(s) - 1
    BY <1>1, LenProperties, EmptySeq
<1>3. ToSet(s) = ToSet(Tail(s)) \cup {Head(s)}
    <2>1. \A i \in DOMAIN s : i = 1 \/ (i - 1 \in DOMAIN Tail(s) /\ Tail(s)[i - 1] = s[i])
        BY <1>1, <1>2
    <2>2. \A i \in DOMAIN Tail(s) : i + 1 \in DOMAIN s /\ Tail(s)[i] = s[i + 1]
        BY <1>1, <1>2
    <2>3. 1 \in DOMAIN s /\ Head(s) = s[1]
        BY <1>2
    <2>4. ASSUME NEW e \in ToSet(s) PROVE e \in ToSet(Tail(s)) \cup {Head(s)}
        BY <2>1, <2>3 DEF ToSet
    <2>5. ASSUME NEW e \in ToSet(Tail(s)) PROVE e \in ToSet(s)
        BY <2>2 DEF ToSet
    <2>6. Head(s) \in ToSet(s)
        BY <2>3 DEF ToSet
    <2> QED
        BY <2>4, <2>5, <2>6
<1>4. IsInjective(s) => IsInjective(Tail(s)) /\ Head(s) \notin ToSet(Tail(s))
    BY <1>1, <1>2 DEF IsInjective, ToSet
<1> QED
    BY <1>1, <1>3, <1>4

LEMMA SubsetOfSize ==
    ASSUME NEW S, IsFiniteSet(S), NEW n \in Nat, n <= Cardinality(S)
    PROVE  \E T \in SUBSET S : Cardinality(T) = n
<1> DEFINE k == Cardinality(S)
<1>1. k \in Nat /\ ExistsBijection(1 .. k, S)
    BY FS_CardinalityType
<1>2. PICK f : f \in Bijection(1 .. k, S)
    BY <1>1 DEF ExistsBijection
<1>3. f \in [1 .. k -> S] /\ \A i, j \in 1 .. k : f[i] = f[j] => i = j
    BY <1>2 DEF Bijection, Injection, IsInjective
<1> DEFINE T == {f[i] : i \in 1 .. n}
           g == [i \in 1 .. n |-> f[i]]
<1>4. 1 .. n \subseteq 1 .. k
    BY <1>1
<1>5. T \subseteq S
    BY <1>3, <1>4
<1>6. g \in [1 .. n -> T] /\ IsInjective(g)
    BY <1>3, <1>4 DEF IsInjective
<1>7. \A x \in T : \E i \in 1 .. n : g[i] = x
    OBVIOUS
<1>8. g \in Bijection(1 .. n, T)
    <2> HIDE DEF g, T
    <2> QED
        BY <1>6, <1>7 DEF Bijection, Injection, Surjection
<1>9. Cardinality(T) = n
    <2> HIDE DEF g, T
    <2> QED
        BY <1>8, FS_CountingElements DEF ExistsBijection
<1> QED
    BY <1>5, <1>9

-----------------------------------------------------------------------------
(* Typing.                                                                   *)

\* The constructor starts MinThreads workers.
LEMMA FirstWorkers == Init => workers \subseteq Ids /\ Cardinality(workers) = MinThreads
<1> SUFFICES ASSUME Init PROVE workers \subseteq Ids /\ Cardinality(workers) = MinThreads
    OBVIOUS
<1>1. MinThreads <= Cardinality(Ids)
    BY IdsAssumption, ConfigAssumption, FS_CardinalityType
<1>2. \E W \in SUBSET Ids : Cardinality(W) = MinThreads
    BY <1>1, IdsAssumption, ConfigAssumption, SubsetOfSize
<1> QED
    BY <1>2 DEF Init

LEMMA TypeInit == Init => Types
<1> SUFFICES ASSUME Init PROVE Types
    OBVIOUS
<1>1. tasks \in Seq(Tasks) /\ ran \in Seq(Tasks)
    BY EmptySeq DEF Init
<1>2. workers \subseteq Ids
    BY FirstWorkers
<1> QED
    BY <1>1, <1>2, ConfigAssumption DEF Init, Types, TypeOK, InHand

\* There are fewer threads than identities whenever a client is about to start one.
LEMMA FreeIdentity ==
    ASSUME Types, Room, NEW c \in Spawners
    PROVE  \E w \in Ids : wpc[w] = "none"
<1>1. IsFiniteSet(Started) /\ IsFiniteSet(Spawners)
    BY IdsAssumption, FS_Subset DEF Started, Spawners
<1>2. Cardinality(Spawners) >= 1
    BY <1>1, FS_EmptySet, FS_CardinalityType
<1>3. Cardinality(Started) < Cardinality(Ids)
    BY <1>1, <1>2, IdsAssumption, ConfigAssumption, FS_CardinalityType DEF Room
<1>4. Started # Ids
    BY <1>3, IdsAssumption, FS_CardinalityType
<1> QED
    BY <1>4 DEF Started

\* What Spawn does: nothing but return, or start a thread that was not there.
Starts(w) ==
    /\ w \in Ids /\ wpc[w] = "none"
    /\ ~stopped /\ count < MaxThreads
    /\ wpc' = [wpc EXCEPT ![w] = "loop"]
    /\ workers' = workers \cup {w}
    /\ count' = count + 1

LEMMA SpawnStarts ==
    ASSUME Types, Room, NEW c \in Clients, Spawn(c)
    PROVE  /\ UNCHANGED <<wpc, workers, count>> \/ \E w \in Ids : Starts(w)
           /\ cpc[c] = "spawn" /\ cpc' = [cpc EXCEPT ![c] = "idle"]
           /\ UNCHANGED <<tasks, reap, taken, stopped, mtx, wtask, ctask, ran, down>>
<1>1. c \in Spawners
    BY DEF Spawn, Spawners
<1> DEFINE v == CHOOSE i \in Ids : wpc[i] = "none"
<1>2. v \in Ids /\ wpc[v] = "none"
    BY <1>1, FreeIdentity
<1>3. UNCHANGED <<wpc, workers, count>> \/ Starts(v)
    BY <1>2 DEF Spawn, Starts, Crowded
<1> HIDE DEF v
<1> QED
    BY <1>2, <1>3 DEF Spawn

LEMMA TypeStep == Types /\ CountExact /\ Room /\ [Next]_vars => Types'
<1> SUFFICES ASSUME Types, CountExact, Room, [Next]_vars PROVE Types'
    OBVIOUS
<1> USE DEF Types, TypeOK, InHand, wlocals, clocals
<1>1. ASSUME NEW c \in Clients, Post(c) PROVE Types'
    <2>1. PICK x \in Tasks : ctask' = [ctask EXCEPT ![c] = x]
        BY <1>1 DEF Post
    <2> QED
        BY <1>1, <2>1 DEF Post
<1>2. ASSUME NEW c \in Clients, PushTooLate(c) \/ ShutdownCall(c) \/ SpawnFails(c) PROVE Types'
    <2>1. CASE PushTooLate(c)
        BY <2>1 DEF PushTooLate
    <2>2. CASE ShutdownCall(c)
        BY <2>2 DEF ShutdownCall
    <2>3. CASE SpawnFails(c)
        BY <2>3 DEF SpawnFails
    <2> QED
        BY <1>2, <2>1, <2>2, <2>3
<1>3. ASSUME NEW c \in Clients, Push(c) PROVE Types'
    <2>1. tasks' \in Seq(Tasks)
        BY <1>3, AppendSet DEF Push
    <2>2. /\ wpc' \in [Ids -> {"none", "loop", "asleep", "late", "run", "leaving", "gone"}]
          /\ \A w \in Ids : wpc'[w] = "run" => wpc[w] = "run"
        BY <1>3 DEF Push
    <2>3. PICK p \in {"notify", "notifyspawn"} : cpc' = [cpc EXCEPT ![c] = p]
        BY <1>3 DEF Push
    <2>4. ctask' = [ctask EXCEPT ![c] = NoTask] /\ reap' = {}
          /\ UNCHANGED <<workers, taken, count, stopped, mtx, wtask, ran, down>>
        BY <1>3 DEF Push
    <2> QED
        BY <2>1, <2>2, <2>3, <2>4
<1>4. ASSUME NEW c \in Clients, NotifyOne(c) PROVE Types'
    <2>1. /\ wpc' \in [Ids -> {"none", "loop", "asleep", "late", "run", "leaving", "gone"}]
          /\ \A w \in Ids : wpc'[w] = "run" => wpc[w] = "run"
        BY <1>4 DEF NotifyOne, Asleep
    <2> QED
        BY <1>4, <2>1 DEF NotifyOne
<1>5. ASSUME NEW c \in Clients, Spawn(c) PROVE Types'
    <2>1. /\ UNCHANGED <<wpc, workers, count>> \/ \E w \in Ids : Starts(w)
          /\ cpc[c] = "spawn" /\ cpc' = [cpc EXCEPT ![c] = "idle"]
          /\ UNCHANGED <<tasks, reap, taken, stopped, mtx, wtask, ctask, ran, down>>
        BY <1>5, SpawnStarts
    <2>2. CASE UNCHANGED <<wpc, workers, count>>
        BY <2>1, <2>2
    <2>3. ASSUME NEW w \in Ids, Starts(w) PROVE Types'
        BY <2>1, <2>3 DEF Starts
    <2> QED
        BY <2>1, <2>2, <2>3
<1>6. ASSUME NEW c \in Clients, RunInline(c) PROVE Types'
    <2>1. ran' \in Seq(Tasks)
        BY <1>6, AppendSet DEF RunInline
    <2> QED
        BY <1>6, <2>1 DEF RunInline
<1>7. ASSUME NEW c \in Clients, NotifyAll(c) \/ Collect(c) \/ Join(c) PROVE Types'
    <2>1. CASE NotifyAll(c)
        BY <2>1 DEF NotifyAll, Asleep
    <2>2. CASE Collect(c)
        BY <2>2 DEF Collect
    <2>3. CASE Join(c)
        BY <2>3 DEF Join
    <2> QED
        BY <1>7, <2>1, <2>2, <2>3
<1>8. ASSUME NEW w \in Ids, Look(w) \/ LookLate(w) PROVE Types'
    <2>1. UNCHANGED <<taken, stopped, mtx, cpc, ctask, ran, down>>
        BY <1>8 DEF Look, LookLate
    <2>2. CASE TakeTask(w)
        <3>1. Head(tasks) \in Tasks /\ Tail(tasks) \in Seq(Tasks)
            BY <2>2, TailSet DEF TakeTask
        <3> QED
            BY <2>1, <2>2, <3>1 DEF TakeTask
    <2>3. CASE Quit(w) /\ w \in Live
        <3>1. count - 1 \in Nat
            <4>1. IsFiniteSet(Live) /\ Live # {}
                BY <2>3, IdsAssumption, FS_Subset DEF Live
            <4> QED
                BY <4>1, FS_EmptySet, FS_CardinalityType DEF CountExact
        <3> QED
            BY <2>1, <2>3, <3>1 DEF Quit
    <2>4. CASE \E where \in {"asleep", "loop"} : StayIn(w, where)
        BY <2>1, <2>4 DEF StayIn
    <2>5. w \in Live
        BY <1>8 DEF Look, LookLate, Live
    <2> QED
        BY <1>8, <2>2, <2>3, <2>4, <2>5 DEF Look, LookLate
<1>9. ASSUME NEW w \in Ids, Run(w) PROVE Types'
    <2>1. ran' \in Seq(Tasks)
        BY <1>9, AppendSet DEF Run
    <2> QED
        BY <1>9, <2>1 DEF Run
<1>10. ASSUME NEW w \in Ids, Timeout(w) \/ Leave(w) PROVE Types'
    BY <1>10 DEF Timeout, Leave
<1>11. CASE UNCHANGED vars
    BY <1>11 DEF vars
<1> QED
    BY <1>1, <1>2, <1>3, <1>4, <1>5, <1>6, <1>7, <1>8, <1>9, <1>10, <1>11
       DEF Next, Continue, WorkerStep

-----------------------------------------------------------------------------
(* Shutdown and the handles.                                                 *)

\* What a worker does when it looks at the queue.
LEMMA LooksDo ==
    ASSUME NEW w \in Ids, Look(w) \/ LookLate(w)
    PROVE  /\ w \in Live /\ wpc[w] # "run"
           /\ \/ TakeTask(w)
              \/ Quit(w) /\ (stopped \/ count > MinThreads)
              \/ \E where \in {"asleep", "loop"} : StayIn(w, where)
           /\ UNCHANGED <<taken, stopped, mtx, cpc, ctask, ran, down>>
BY DEF Look, LookLate, Live, clocals

LEMMA ClosingStep == Types /\ Closing /\ Room /\ [Next]_vars => Closing'
<1> SUFFICES ASSUME Types, Closing, Room, [Next]_vars PROVE Closing'
    OBVIOUS
<1> USE DEF Types, TypeOK, Closing, Closers, wlocals, clocals
<1>1. ASSUME NEW c \in Clients, Post(c) \/ PushTooLate(c) \/ SpawnFails(c) PROVE Closing'
    <2>1. Closers' = Closers /\ UNCHANGED <<taken, workers, reap, stopped, down>>
        BY <1>1 DEF Post, PushTooLate, SpawnFails
    <2>2. \A d \in Closers : cpc'[d] = cpc[d]
        BY <1>1 DEF Post, PushTooLate, SpawnFails
    <2> QED
        BY <2>1, <2>2
<1>2. ASSUME NEW c \in Clients, ShutdownCall(c) PROVE Closing'
    BY <1>2 DEF ShutdownCall
<1>3. ASSUME NEW c \in Clients, Push(c) PROVE Closing'
    BY <1>3 DEF Push
<1>4. ASSUME NEW c \in Clients, NotifyOne(c) \/ RunInline(c) PROVE Closing'
    BY <1>4 DEF NotifyOne, RunInline
<1>5. ASSUME NEW c \in Clients, Spawn(c) PROVE Closing'
    BY <1>5, SpawnStarts DEF Starts
<1>6. ASSUME NEW c \in Clients, NotifyAll(c) PROVE Closing'
    BY <1>6 DEF NotifyAll
<1>7. ASSUME NEW c \in Clients, Collect(c) PROVE Closing'
    BY <1>7 DEF Collect
<1>8. ASSUME NEW c \in Clients, Join(c) PROVE Closing'
    BY <1>8 DEF Join
<1>9. ASSUME NEW w \in Ids, Look(w) \/ LookLate(w) PROVE Closing'
    <2>1. /\ workers' = {} \/ workers # {}
          /\ workers = {} => reap' = reap /\ workers' = {}
        BY <1>9, LooksDo DEF TakeTask, Quit, StayIn
    <2> QED
        BY <1>9, <2>1, LooksDo
<1>10. ASSUME NEW w \in Ids, Timeout(w) \/ Run(w) \/ Leave(w) PROVE Closing'
    BY <1>10 DEF Timeout, Run, Leave
<1>11. CASE UNCHANGED vars
    BY <1>11 DEF vars
<1> QED
    BY <1>1, <1>2, <1>3, <1>4, <1>5, <1>6, <1>7, <1>8, <1>9, <1>10, <1>11
       DEF Next, Continue, WorkerStep

LEMMA HandlesStep == Types /\ Closing /\ Handles /\ Room /\ [Next]_vars => Handles'
<1> SUFFICES ASSUME Types, Closing, Handles, Room, [Next]_vars PROVE Handles'
    OBVIOUS
<1> USE DEF Types, TypeOK, Handles, HandlesOnce, wlocals, clocals
<1>1. ASSUME NEW c \in Clients, Post(c) \/ PushTooLate(c) \/ SpawnFails(c) \/ ShutdownCall(c)
      PROVE Handles'
    BY <1>1 DEF Post, PushTooLate, SpawnFails, ShutdownCall
<1>2. ASSUME NEW c \in Clients, Push(c) PROVE Handles'
    BY <1>2 DEF Push
<1>3. ASSUME NEW c \in Clients, NotifyOne(c) PROVE Handles'
    BY <1>3 DEF NotifyOne, Asleep
<1>4. ASSUME NEW c \in Clients, Spawn(c) PROVE Handles'
    <2>1. CASE UNCHANGED <<wpc, workers, count>>
        BY <1>4, <2>1, SpawnStarts
    <2>2. ASSUME NEW w \in Ids, Starts(w) PROVE Handles'
        BY <1>4, <2>2, SpawnStarts DEF Starts
    <2> QED
        BY <1>4, <2>1, <2>2, SpawnStarts
<1>5. ASSUME NEW c \in Clients, RunInline(c) PROVE Handles'
    BY <1>5 DEF RunInline
<1>6. ASSUME NEW c \in Clients, NotifyAll(c) PROVE Handles'
    BY <1>6 DEF NotifyAll, Asleep
<1>7. ASSUME NEW c \in Clients, Collect(c) PROVE Handles'
    <2>1. taken = {}
        BY <1>7 DEF Collect, Closing, Closers
    <2> QED
        BY <1>7, <2>1 DEF Collect
<1>8. ASSUME NEW c \in Clients, Join(c) PROVE Handles'
    BY <1>8 DEF Join
<1>9. ASSUME NEW w \in Ids, Look(w) \/ LookLate(w) PROVE Handles'
    <2>1. CASE TakeTask(w) \/ \E where \in {"asleep", "loop"} : StayIn(w, where)
        <3>1. PICK where \in {"run", "asleep", "loop"} : wpc' = [wpc EXCEPT ![w] = where]
            BY <2>1 DEF TakeTask, StayIn
        <3>2. workers' = workers /\ reap' = reap /\ taken' = taken
            BY <1>9, <2>1, LooksDo DEF TakeTask, StayIn
        <3>3. wpc[w] \notin {"none", "leaving", "gone"}
            BY <1>9, LooksDo DEF Live
        <3>4. \A v \in Ids : /\ wpc'[v] = "none" <=> wpc[v] = "none"
                             /\ wpc'[v] \in {"leaving", "gone"} <=> wpc[v] \in {"leaving", "gone"}
            BY <3>1, <3>3
        <3>5. {v \in Ids : wpc'[v] # "none"} = {v \in Ids : wpc[v] # "none"}
            BY <3>4
        <3>6. /\ \A v \in reap : wpc'[v] \in {"leaving", "gone"}
              /\ \A v \in workers : wpc'[v] \notin {"leaving", "gone"}
            BY <3>4
        <3> QED
            BY <3>2, <3>5, <3>6
    <2>2. CASE Quit(w)
        <3>1. /\ wpc' = [wpc EXCEPT ![w] = "leaving"] /\ taken' = taken
              /\ workers' = workers \ {w}
              /\ reap' = IF w \in workers THEN reap \cup {w} ELSE reap
            BY <1>9, <2>2, LooksDo DEF Quit
        <3>2. wpc[w] \notin {"none", "leaving", "gone"}
            BY <1>9, LooksDo DEF Live
        <3>3. CASE w \in workers
            BY <3>1, <3>2, <3>3
        <3>4. CASE w \notin workers
            BY <3>1, <3>2, <3>4
        <3> QED
            BY <3>3, <3>4
    <2> QED
        BY <1>9, <2>1, <2>2, LooksDo
<1>10. ASSUME NEW w \in Ids, Timeout(w) \/ Run(w) \/ Leave(w) PROVE Handles'
    <2>1. CASE Leave(w)
        BY <2>1 DEF Leave
    <2>2. CASE Timeout(w) \/ Run(w)
        BY <2>2 DEF Timeout, Run
    <2> QED
        BY <1>10, <2>1, <2>2
<1>11. CASE UNCHANGED vars
    BY <1>11 DEF vars
<1> QED
    BY <1>1, <1>2, <1>3, <1>4, <1>5, <1>6, <1>7, <1>8, <1>9, <1>10, <1>11
       DEF Next, Continue, WorkerStep

-----------------------------------------------------------------------------
(* The number of threads.                                                    *)

LEMMA CountStep == Types /\ Handles /\ CountExact /\ Room /\ [Next]_vars => CountExact'
<1> SUFFICES ASSUME Types, Handles, CountExact, Room, [Next]_vars PROVE CountExact'
    OBVIOUS
<1> USE DEF Types, TypeOK, CountExact, wlocals, clocals
<1>0. IsFiniteSet(Live)
    BY IdsAssumption, FS_Subset DEF Live
<1>1. ASSUME NEW c \in Clients, Post(c) \/ PushTooLate(c) \/ SpawnFails(c) \/ ShutdownCall(c)
      PROVE CountExact'
    BY <1>1 DEF Post, PushTooLate, SpawnFails, ShutdownCall, Live
<1>2. ASSUME NEW c \in Clients, Push(c) PROVE CountExact'
    <2>1. Live' = Live
        BY <1>2 DEF Push, Live, Handles, HandlesOnce
    <2> QED
        BY <1>2, <2>1 DEF Push
<1>3. ASSUME NEW c \in Clients, NotifyOne(c) PROVE CountExact'
    <2>1. Live' = Live
        BY <1>3 DEF NotifyOne, Asleep, Live
    <2> QED
        BY <1>3, <2>1 DEF NotifyOne
<1>4. ASSUME NEW c \in Clients, Spawn(c) PROVE CountExact'
    <2>1. CASE UNCHANGED <<wpc, workers, count>>
        BY <1>4, <2>1, SpawnStarts DEF Live
    <2>2. ASSUME NEW w \in Ids, Starts(w) PROVE CountExact'
        <3>1. Live' = Live \cup {w} /\ w \notin Live
            BY <2>2 DEF Starts, Live
        <3>2. Cardinality(Live \cup {w}) = Cardinality(Live) + 1
            BY <1>0, <3>1, FS_AddElement
        <3> QED
            BY <1>4, <2>2, <3>1, <3>2, SpawnStarts, ConfigAssumption DEF Starts
    <2> QED
        BY <1>4, <2>1, <2>2, SpawnStarts
<1>5. ASSUME NEW c \in Clients, RunInline(c) \/ Collect(c) PROVE CountExact'
    BY <1>5 DEF RunInline, Collect, Live
<1>6. ASSUME NEW c \in Clients, NotifyAll(c) PROVE CountExact'
    <2>1. Live' = Live
        BY <1>6 DEF NotifyAll, Asleep, Live
    <2> QED
        BY <1>6, <2>1 DEF NotifyAll
<1>7. ASSUME NEW c \in Clients, Join(c) PROVE CountExact'
    <2>1. Live' = Live
        BY <1>7 DEF Join, Live
    <2> QED
        BY <1>7, <2>1 DEF Join
<1>8. ASSUME NEW w \in Ids, Look(w) \/ LookLate(w) PROVE CountExact'
    <2>1. CASE TakeTask(w) \/ \E where \in {"asleep", "loop"} : StayIn(w, where)
        <3>1. Live' = Live
            BY <1>8, <2>1, LooksDo DEF TakeTask, StayIn, Live
        <3> QED
            BY <1>8, <2>1, <3>1, LooksDo DEF TakeTask, StayIn
    <2>2. CASE Quit(w) /\ (stopped \/ count > MinThreads)
        <3>1. Live' = Live \ {w} /\ w \in Live
            BY <1>8, <2>2, LooksDo DEF Quit, Live
        <3>2. Cardinality(Live \ {w}) = Cardinality(Live) - 1
            BY <1>0, <3>1, FS_RemoveElement
        <3> QED
            <4>1. count' = count - 1 /\ stopped' = stopped
                BY <1>8, <2>2, LooksDo DEF Quit
            <4>2. count' = Cardinality(Live')
                BY <3>1, <3>2, <4>1
            <4>3. count' <= MaxThreads /\ (~stopped' => count' >= MinThreads)
                BY <2>2, <4>1, ConfigAssumption
            <4> QED
                BY <4>2, <4>3
    <2> QED
        BY <1>8, <2>1, <2>2, LooksDo
<1>9. ASSUME NEW w \in Ids, Timeout(w) \/ Run(w) \/ Leave(w) PROVE CountExact'
    <2>1. Live' = Live
        BY <1>9 DEF Timeout, Run, Leave, Live
    <2> QED
        BY <1>9, <2>1 DEF Timeout, Run, Leave
<1>10. CASE UNCHANGED vars
    BY <1>10 DEF vars, Live
<1> QED
    BY <1>1, <1>2, <1>3, <1>4, <1>5, <1>6, <1>7, <1>8, <1>9, <1>10
       DEF Next, Continue, WorkerStep

LEMMA RoomStep == Types /\ Closing /\ Handles /\ CountExact /\ Room /\ [Next]_vars => Room'
<1> SUFFICES ASSUME Types, Closing, Handles, CountExact, Room, [Next]_vars PROVE Room'
    OBVIOUS
<1> USE DEF Types, TypeOK, wlocals, clocals
<1>1. /\ IsFiniteSet(Started) /\ IsFiniteSet(Spawners) /\ IsFiniteSet(Live)
      /\ Cardinality(Started) \in Nat /\ Cardinality(Spawners) \in Nat
      /\ MaxThreads \in Nat /\ Cardinality(Clients) \in Nat
    BY IdsAssumption, ConfigAssumption, FS_Subset, FS_CardinalityType
       DEF Started, Spawners, Live
\* What makes neither a thread nor a spawner keeps the bound.
<1>2. ASSUME Started' \subseteq Started, Spawners' \subseteq Spawners PROVE Room'
    <2>1. /\ IsFiniteSet(Started') /\ Cardinality(Started') <= Cardinality(Started)
          /\ IsFiniteSet(Spawners') /\ Cardinality(Spawners') <= Cardinality(Spawners)
        BY <1>1, <1>2, FS_Subset
    <2>2. Cardinality(Started') \in Nat /\ Cardinality(Spawners') \in Nat
        BY <2>1, FS_CardinalityType
    <2> QED
        BY <1>1, <2>1, <2>2 DEF Room
<1>3. ASSUME NEW c \in Clients, Push(c) PROVE Room'
    <2>1. taken = {}
        BY <1>3 DEF Push, Closing, Closers
    <2>2. Started' \subseteq Live
        BY <1>3, <2>1 DEF Push, Started, Live, Handles, HandlesOnce
    <2>3. Spawners' \subseteq Clients
        BY DEF Spawners
    <2>4. /\ IsFiniteSet(Started') /\ Cardinality(Started') <= Cardinality(Live)
          /\ IsFiniteSet(Spawners') /\ Cardinality(Spawners') <= Cardinality(Clients)
        BY <1>1, <2>2, <2>3, IdsAssumption, FS_Subset
    <2>5. Cardinality(Started') \in Nat /\ Cardinality(Spawners') \in Nat
        BY <2>4, FS_CardinalityType
    <2> QED
        BY <1>1, <2>4, <2>5 DEF Room, CountExact
<1>4. ASSUME NEW c \in Clients, Spawn(c) PROVE Room'
    <2>1. CASE UNCHANGED <<wpc, workers, count>>
        <3>1. Started' \subseteq Started /\ Spawners' \subseteq Spawners
            BY <1>4, <2>1, SpawnStarts DEF Started, Spawners
        <3> QED
            BY <1>2, <3>1
    <2>2. ASSUME NEW w \in Ids, Starts(w) PROVE Room'
        <3>1. Started' = Started \cup {w} /\ w \notin Started
            BY <2>2 DEF Starts, Started
        <3>2. Spawners' = Spawners \ {c} /\ c \in Spawners
            BY <1>4, SpawnStarts DEF Spawners
        <3>3. Cardinality(Started') = Cardinality(Started) + 1
            BY <1>1, <3>1, FS_AddElement
        <3>4. Cardinality(Spawners') = Cardinality(Spawners) - 1
            BY <1>1, <3>2, FS_RemoveElement
        <3> QED
            BY <1>1, <3>3, <3>4 DEF Room
    <2> QED
        BY <1>4, <2>1, <2>2, SpawnStarts
<1>5. ASSUME NEW c \in Clients,
             \/ Post(c) \/ PushTooLate(c) \/ SpawnFails(c) \/ ShutdownCall(c)
             \/ RunInline(c) \/ Collect(c)
      PROVE Started' \subseteq Started /\ Spawners' \subseteq Spawners
    BY <1>5 DEF Post, PushTooLate, SpawnFails, ShutdownCall, RunInline, Collect,
                Started, Spawners
<1>6. ASSUME NEW c \in Clients, NotifyOne(c) \/ NotifyAll(c) \/ Join(c)
      PROVE Started' \subseteq Started /\ Spawners' \subseteq Spawners
    <2>1. CASE NotifyOne(c)
        BY <2>1 DEF NotifyOne, Asleep, Started, Spawners
    <2>2. CASE NotifyAll(c)
        BY <2>2 DEF NotifyAll, Asleep, Started, Spawners
    <2>3. CASE Join(c)
        BY <2>3 DEF Join, Started, Spawners
    <2> QED
        BY <1>6, <2>1, <2>2, <2>3
<1>7. ASSUME NEW w \in Ids, WorkerStep(w)
      PROVE Started' \subseteq Started /\ Spawners' \subseteq Spawners
    <2>1. cpc' = cpc /\ \A v \in Ids : wpc'[v] # "none" => wpc[v] # "none"
        BY <1>7, LooksDo DEF WorkerStep, TakeTask, Quit, StayIn, Live, Timeout, Run, Leave
    <2> QED
        BY <2>1 DEF Started, Spawners
<1>8. CASE UNCHANGED vars
    BY <1>2, <1>8 DEF vars, Started, Spawners
<1> QED
    BY <1>2, <1>3, <1>4, <1>5, <1>6, <1>7, <1>8 DEF Next, Continue

-----------------------------------------------------------------------------
(* The queue and the tasks.                                                  *)

LEMMA DrainedStep == Types /\ CountExact /\ Drained /\ Room /\ [Next]_vars => Drained'
<1> SUFFICES ASSUME Types, CountExact, Drained, Room, [Next]_vars PROVE Drained'
    OBVIOUS
<1> USE DEF Drained, wlocals, clocals
<1>1. ASSUME NEW c \in Clients,
             \/ Post(c) \/ PushTooLate(c) \/ Push(c) \/ NotifyOne(c) \/ SpawnFails(c)
             \/ RunInline(c) \/ NotifyAll(c) \/ Collect(c) \/ Join(c)
      PROVE Drained'
    BY <1>1 DEF Post, PushTooLate, Push, NotifyOne, SpawnFails, RunInline, NotifyAll,
                Collect, Join
<1>2. ASSUME NEW c \in Clients, ShutdownCall(c) PROVE Drained'
    <2>1. count' = count /\ count >= MinThreads
        BY <1>2 DEF ShutdownCall, CountExact
    <2> QED
        BY <2>1, ConfigAssumption
<1>3. ASSUME NEW c \in Clients, Spawn(c) PROVE Drained'
    BY <1>3, SpawnStarts DEF Starts
<1>4. ASSUME NEW w \in Ids, Look(w) \/ LookLate(w) PROVE Drained'
    <2>1. count # 0
        <3>1. IsFiniteSet(Live) /\ Live # {}
            BY <1>4, LooksDo, IdsAssumption, FS_Subset DEF Live
        <3> QED
            BY <3>1, FS_EmptySet DEF CountExact
    <2> QED
        BY <1>4, <2>1, LooksDo DEF TakeTask, Quit, StayIn
<1>5. ASSUME NEW w \in Ids, Timeout(w) \/ Run(w) \/ Leave(w) PROVE Drained'
    BY <1>5 DEF Timeout, Run, Leave
<1>6. CASE UNCHANGED vars
    BY <1>6 DEF vars
<1> QED
    BY <1>1, <1>2, <1>3, <1>4, <1>5, <1>6 DEF Next, Continue, WorkerStep

LEMMA TasksStep == Types /\ TasksOnce /\ Room /\ [Next]_vars => TasksOnce'
<1> SUFFICES ASSUME Types, TasksOnce, Room, [Next]_vars PROVE TasksOnce'
    OBVIOUS
<1> USE DEF Types, TypeOK, InHand, wlocals, clocals
<1>1. ASSUME NEW c \in Clients, Post(c) PROVE TasksOnce'
    <2>1. PICK x \in Tasks : x \notin Posted /\ ctask' = [ctask EXCEPT ![c] = x]
        BY <1>1 DEF Post
    <2>2. /\ x \notin ToSet(tasks) /\ x \notin ToSet(ran)
          /\ \A d \in Clients : ctask[d] # x
          /\ \A w \in Ids : wtask[w] # x
        BY <2>1 DEF Posted
    <2>3. UNCHANGED <<tasks, ran, wtask>>
        BY <1>1 DEF Post
    <2> QED
        BY <2>1, <2>2, <2>3 DEF TasksOnce
<1>2. ASSUME NEW c \in Clients, Push(c) PROVE TasksOnce'
    <2>1. /\ ctask[c] \in Tasks /\ tasks' = Append(tasks, ctask[c])
          /\ ctask' = [ctask EXCEPT ![c] = NoTask] /\ UNCHANGED <<ran, wtask>>
        BY <1>2 DEF Push
    <2>2. ctask[c] # NoTask
        BY <2>1, NoTaskAssumption
    <2>3. ctask[c] \notin ToSet(tasks) \cup ToSet(ran)
        BY <2>2 DEF TasksOnce
    <2>4. ToSet(tasks') = ToSet(tasks) \cup {ctask[c]} /\ IsInjective(tasks')
        BY <2>1, <2>3, AppendSet DEF TasksOnce
    <2> QED
        BY <2>1, <2>2, <2>3, <2>4 DEF TasksOnce
<1>3. ASSUME NEW c \in Clients, RunInline(c) PROVE TasksOnce'
    <2>1. /\ ctask[c] \in Tasks /\ ran' = Append(ran, ctask[c])
          /\ ctask' = [ctask EXCEPT ![c] = NoTask] /\ UNCHANGED <<tasks, wtask>>
        BY <1>3 DEF RunInline
    <2>2. ctask[c] # NoTask
        BY <2>1, NoTaskAssumption
    <2>3. ctask[c] \notin ToSet(tasks) \cup ToSet(ran)
        BY <2>2 DEF TasksOnce
    <2>4. ToSet(ran') = ToSet(ran) \cup {ctask[c]} /\ IsInjective(ran')
        BY <2>1, <2>3, AppendSet DEF TasksOnce
    <2> QED
        BY <2>1, <2>2, <2>3, <2>4 DEF TasksOnce
<1>4. ASSUME NEW c \in Clients, Spawn(c) PROVE TasksOnce'
    <2>1. UNCHANGED <<tasks, ran, ctask, wtask>>
        BY <1>4, SpawnStarts
    <2> QED
        BY <2>1 DEF TasksOnce
<1>5. ASSUME NEW c \in Clients,
             \/ PushTooLate(c) \/ NotifyOne(c) \/ SpawnFails(c) \/ NotifyAll(c)
             \/ Collect(c) \/ Join(c) \/ ShutdownCall(c)
      PROVE TasksOnce'
    <2>1. UNCHANGED <<tasks, ran, ctask, wtask>>
        BY <1>5 DEF PushTooLate, NotifyOne, SpawnFails, NotifyAll, Collect, Join, ShutdownCall
    <2> QED
        BY <2>1 DEF TasksOnce
<1>6. ASSUME NEW w \in Ids, Look(w) \/ LookLate(w) PROVE TasksOnce'
    <2>1. UNCHANGED <<ran, ctask>>
        BY <1>6, LooksDo
    <2>2. CASE TakeTask(w)
        <3>1. /\ tasks # << >> /\ tasks' = Tail(tasks)
              /\ wtask' = [wtask EXCEPT ![w] = Head(tasks)]
            BY <2>2 DEF TakeTask
        <3>2. /\ ToSet(tasks) = ToSet(tasks') \cup {Head(tasks)} /\ Head(tasks) \in Tasks
              /\ IsInjective(tasks') /\ Head(tasks) \notin ToSet(tasks')
            BY <3>1, TailSet DEF TasksOnce
        <3>3. Head(tasks) # NoTask
            BY <3>2, NoTaskAssumption
        <3> QED
            BY <2>1, <3>1, <3>2, <3>3 DEF TasksOnce
    <2>3. CASE Quit(w) \/ \E where \in {"asleep", "loop"} : StayIn(w, where)
        <3>1. UNCHANGED <<tasks, wtask>>
            BY <2>3 DEF Quit, StayIn
        <3> QED
            BY <2>1, <3>1 DEF TasksOnce
    <2> QED
        BY <1>6, <2>2, <2>3, LooksDo
<1>7. ASSUME NEW w \in Ids, Run(w) PROVE TasksOnce'
    <2>1. /\ wtask[w] \in Tasks /\ ran' = Append(ran, wtask[w])
          /\ wtask' = [wtask EXCEPT ![w] = NoTask] /\ UNCHANGED <<tasks, ctask>>
        BY <1>7 DEF Run
    <2>2. wtask[w] # NoTask
        BY <2>1, NoTaskAssumption
    <2>3. wtask[w] \notin ToSet(tasks) \cup ToSet(ran)
        BY <2>2 DEF TasksOnce
    <2>4. ToSet(ran') = ToSet(ran) \cup {wtask[w]} /\ IsInjective(ran')
        BY <2>1, <2>3, AppendSet DEF TasksOnce
    <2> QED
        BY <2>1, <2>2, <2>3, <2>4 DEF TasksOnce
<1>8. ASSUME NEW w \in Ids, Timeout(w) \/ Leave(w) PROVE TasksOnce'
    <2>1. UNCHANGED <<tasks, ran, ctask, wtask>>
        BY <1>8 DEF Timeout, Leave
    <2> QED
        BY <2>1 DEF TasksOnce
<1>9. CASE UNCHANGED vars
    <2>1. UNCHANGED <<tasks, ran, ctask, wtask>>
        BY <1>9 DEF vars
    <2> QED
        BY <2>1 DEF TasksOnce
<1> QED
    BY <1>1, <1>2, <1>3, <1>4, <1>5, <1>6, <1>7, <1>8, <1>9 DEF Next, Continue, WorkerStep

-----------------------------------------------------------------------------
(* The invariant and what follows from it.                                   *)

LEMMA InvInit == Init => Inv
<1> SUFFICES ASSUME Init PROVE Inv
    OBVIOUS
<1>1. workers \subseteq Ids /\ Cardinality(workers) = MinThreads
    BY FirstWorkers
<1>2. /\ reap = {} /\ taken = {} /\ count = MinThreads /\ ~stopped /\ ~down
      /\ tasks = << >> /\ ran = << >>
      /\ wpc = [w \in Ids |-> IF w \in workers THEN "loop" ELSE "none"]
      /\ wtask = [w \in Ids |-> NoTask]
      /\ cpc = [c \in Clients |-> "idle"] /\ ctask = [c \in Clients |-> NoTask]
    BY DEF Init
<1>3. Live = workers /\ Started = workers
    BY <1>1, <1>2 DEF Live, Started
<1>4. Spawners = {} /\ Closers = {}
    BY <1>2 DEF Spawners, Closers
<1>5. Closing
    BY <1>2, <1>4 DEF Closing
<1>6. Handles
    BY <1>1, <1>2 DEF Handles, HandlesOnce
<1>7. CountExact
    BY <1>1, <1>2, <1>3, ConfigAssumption DEF CountExact
<1>8. Room
    BY <1>1, <1>3, <1>4, FS_EmptySet, ConfigAssumption, IdsAssumption, FS_CardinalityType
       DEF Room
<1>9. Drained
    BY <1>2 DEF Drained
<1>10. TasksOnce
    <2>1. ToSet(<< >>) = {} /\ IsInjective(<< >>)
        BY DEF ToSet, IsInjective
    <2> QED
        BY <1>2, <2>1 DEF TasksOnce
<1> QED
    BY <1>5, <1>6, <1>7, <1>8, <1>9, <1>10, TypeInit DEF Inv

LEMMA InvNext == Inv /\ [Next]_vars => Inv'
BY TypeStep, ClosingStep, HandlesStep, CountStep, RoomStep, DrainedStep, TasksStep DEF Inv

LEMMA Invariance == Spec => []Inv
BY InvInit, InvNext, PTL DEF Spec

\* The variables stay in their types; above all worker_count_, a size_t that each
\* leaving worker decrements, never goes below zero (thread_pool.cpp:120).
THEOREM TypeCorrect == Spec => []TypeOK
<1>1. Inv => TypeOK
    BY DEF Inv, Types
<1> QED
    BY <1>1, Invariance, PTL

\* worker_count_ counts the threads in WorkerLoop_ and stays between MinThreads and
\* MaxThreads, however many clients post, spawn and shut down and whatever times out
\* (thread_pool.cpp:44-81, 90-137).
THEOREM CountIsExact == Spec => []CountExact
<1>1. Inv => CountExact
    BY DEF Inv
<1> QED
    BY <1>1, Invariance, PTL

\* Every started thread is joined by exactly one of Enqueue_ and Shutdown
\* (thread_pool.cpp:83-88, 114-121, 150-162).
THEOREM HandlesAreOnce == Spec => []HandlesOnce
<1>1. Inv => HandlesOnce
    BY DEF Inv, Handles
<1> QED
    BY <1>1, Invariance, PTL

\* When Shutdown has returned, every queued task has been run, once, and no thread
\* of the pool is left (thread_pool.cpp:139-163 against 90-121).
THEOREM ShutdownHasDrained == Spec => []ShutdownDrains
<1>1. Inv => ShutdownDrains
    <2> SUFFICES ASSUME Inv, down PROVE /\ tasks = << >> /\ count = 0
                                         /\ IsInjective(ran)
                                         /\ \A w \in Ids : wpc[w] = "none"
        BY DEF ShutdownDrains
    <2>1. stopped /\ workers = {} /\ reap = {} /\ taken = {}
        BY DEF Inv, Closing
    <2>2. \A w \in Ids : wpc[w] = "none"
        BY <2>1 DEF Inv, Handles, HandlesOnce
    <2>3. Live = {}
        BY <2>2 DEF Live
    <2>4. count = 0
        BY <2>3, FS_EmptySet DEF Inv, CountExact
    <2>5. tasks = << >>
        BY <2>1, <2>4 DEF Inv, Drained
    <2> QED
        BY <2>2, <2>4, <2>5 DEF Inv, TasksOnce
<1> QED
    BY <1>1, Invariance, PTL

\* Threads that have left pile up until the next post joins them, to at most one
\* for each client on top of MaxThreads (thread_pool.cpp:52). So the model's
\* identities suffice: whoever is about to spawn finds one that is free.
THEOREM ThreadsBounded ==
    Spec => []( /\ Cardinality(Started) <= MaxThreads + Cardinality(Clients)
                /\ Spawners # {} => \E w \in Ids : wpc[w] = "none" )
<1>1. ASSUME Inv
      PROVE  /\ Cardinality(Started) <= MaxThreads + Cardinality(Clients)
             /\ Spawners # {} => \E w \in Ids : wpc[w] = "none"
    <2>1. IsFiniteSet(Started) /\ IsFiniteSet(Spawners)
        BY IdsAssumption, FS_Subset DEF Started, Spawners
    <2>2. /\ Cardinality(Started) \in Nat /\ Cardinality(Spawners) \in Nat
          /\ MaxThreads \in Nat /\ Cardinality(Clients) \in Nat
        BY <2>1, IdsAssumption, ConfigAssumption, FS_CardinalityType
    <2>3. Cardinality(Started) <= MaxThreads + Cardinality(Clients)
        BY <1>1, <2>2 DEF Inv, Room
    <2> QED
        BY <1>1, <2>3, FreeIdentity DEF Inv
<1> QED
    BY <1>1, Invariance, PTL

-----------------------------------------------------------------------------
(* Who has the pool: Context, for every set of threads, every Config and     *)
(* every number of cores. Its constants and variables have their own names.  *)
CONSTANTS Threads, Main, Configs, Cores, MayFail, NoConfig

VARIABLES pending, configured, once, pool, cfg, alive, pc, synced, terminated, wasted, halted

Holder == INSTANCE Context WITH workers <- alive

\* ThreadsAssumption, CoresAssumption, ConfigsAssumption and FailAssumption of Context.
HolderSizes ==
    /\ Main \in Threads /\ {"open", "done"} \cap Threads = {}
    /\ Cores \in Nat
    /\ Configs \subseteq [min : Nat, max : Nat, scale : Nat] /\ NoConfig \notin Configs
    /\ MayFail \in BOOLEAN

Leaving == {"exit", "lastjoin", "destroy", "gone"}
Config  == [min : Nat, max : Nat, scale : Nat]

\* The thread that is inside call_once is the one that builds; there is a pool once
\* the flag is done, and before that only the destruction at exit says so.
OnceInv ==
    /\ \A t \in Threads : pc[t] \in {"copy", "build"} <=> once = t
    /\ once = "done" => pool # "none"
    /\ pool \in {"live", "stopped"} => once = "done"
    /\ pool = "destroyed" <=> pc[Main] = "gone"

\* What is built, or has been, is what was frozen.
ConfigInv ==
    /\ \A t \in Threads : pc[t] = "build" => configured /\ cfg = Holder!Normalised(pending)
    /\ once = "done" => configured /\ cfg = Holder!Normalised(pending)

\* main() returns alone, and with a view of the pool.
ExitInv ==
    /\ \A t \in Threads : pc[t] \in Leaving => t = Main
    /\ pc[Main] \in Leaving => \A t \in Threads : t = Main \/ pc[t] = "idle"
    /\ pc[Main] = "exit" => Main \in synced

\* Workers live while a pool is built, while it is live, and while somebody waits
\* for them to end.
WorkersInv ==
    /\ once = "open" /\ ~terminated => alive = 0
    /\ \A t \in Threads : pc[t] = "copy" => alive = 0
    /\ pool = "stopped" => alive = 0 \/ \E t \in Threads : pc[t] \in {"join", "lastjoin"}
    /\ pc[Main] \in {"destroy", "gone"} => alive = 0

HolderInv == Holder!TypeOK /\ OnceInv /\ ConfigInv /\ ExitInv /\ WorkersInv /\ Holder!PoolCanRun

-----------------------------------------------------------------------------
\* Whatever Config is passed, the constructor makes one of it that a pool can run on.
LEMMA NormalisedRuns ==
    ASSUME NEW c \in Config
    PROVE  /\ Holder!Normalised(c) \in [min : Nat \ {0}, max : Nat \ {0}, scale : Nat \ {0}]
           /\ Holder!Normalised(c).min <= Holder!Normalised(c).max
    BY DEF Config, Holder!Normalised, Holder!Bigger

LEMMA DefaultType == ASSUME HolderSizes PROVE Holder!Default \in Config
    BY DEF HolderSizes, Holder!Default, Config, Holder!Bigger

LEMMA PendingType == ASSUME HolderSizes, Holder!TypeOK PROVE pending \in Config
    BY DefaultType DEF HolderSizes, Holder!TypeOK, Config

LEMMA HolderInit == ASSUME HolderSizes, Holder!Init PROVE HolderInv
<1>1. Holder!TypeOK
    BY DEF Holder!Init, Holder!TypeOK
<1>2. OnceInv /\ ConfigInv /\ ExitInv /\ WorkersInv /\ Holder!PoolCanRun
    BY DEF HolderSizes, Holder!Init, OnceInv, ConfigInv, ExitInv, Leaving, WorkersInv,
           Holder!PoolCanRun
<1> QED
    BY <1>1, <1>2 DEF HolderInv

-----------------------------------------------------------------------------
LEMMA HolderTypes ==
    ASSUME HolderSizes, HolderInv, [Holder!Next]_Holder!vars
    PROVE  Holder!TypeOK'
<1> USE DEF HolderSizes, HolderInv, Holder!TypeOK, Holder!Goes
<1>1. ASSUME NEW t \in Threads, Holder!Configure(t) \/ Holder!NeedPool(t) PROVE Holder!TypeOK'
    BY <1>1 DEF Holder!Configure, Holder!NeedPool
<1>2. ASSUME NEW t \in Threads, Holder!EnterOnce(t) PROVE Holder!TypeOK'
    BY <1>2 DEF Holder!EnterOnce
<1>3. ASSUME NEW t \in Threads, Holder!CopyConfig(t) PROVE Holder!TypeOK'
    <2>1. cfg' \in [min : Nat \ {0}, max : Nat \ {0}, scale : Nat \ {0}]
        BY <1>3, PendingType, NormalisedRuns DEF Holder!CopyConfig
    <2> QED
        BY <1>3, <2>1 DEF Holder!CopyConfig
<1>4. ASSUME NEW t \in Threads, Holder!SpawnWorker(t) \/ Holder!SpawnFails(t) PROVE Holder!TypeOK'
    <2>1. CASE Holder!SpawnWorker(t)
        BY <2>1 DEF Holder!SpawnWorker
    <2>2. CASE Holder!SpawnFails(t)
        <3>1. terminated' \in BOOLEAN
            BY <2>2 DEF Holder!SpawnFails
        <3> QED
            BY <2>2, <3>1 DEF Holder!SpawnFails
    <2> QED
        BY <1>4, <2>1, <2>2
<1>5. ASSUME NEW t \in Threads,
             Holder!Built(t) \/ Holder!FindBuilt(t) \/ Holder!Used(t) \/ Holder!Join(t)
      PROVE  Holder!TypeOK'
    BY <1>5 DEF Holder!Built, Holder!FindBuilt, Holder!Used, Holder!Join
<1>6. ASSUME NEW t \in Threads, Holder!ShutdownCall(t) PROVE Holder!TypeOK'
    BY <1>6 DEF Holder!ShutdownCall, Holder!Shutdown
<1>7. CASE Holder!WorkerEnds \/ Holder!Exit \/ Holder!ExitShutdown \/ Holder!DestroyPool
    <2>1. CASE Holder!WorkerEnds
        BY <2>1 DEF Holder!WorkerEnds
    <2>2. CASE Holder!Exit
        BY <2>2 DEF Holder!Exit
    <2>3. CASE Holder!ExitShutdown
        BY <2>3 DEF Holder!ExitShutdown, Holder!Shutdown
    <2>4. CASE Holder!DestroyPool
        BY <2>4 DEF Holder!DestroyPool
    <2> QED
        BY <1>7, <2>1, <2>2, <2>3, <2>4
<1>8. CASE UNCHANGED Holder!vars
    BY <1>8 DEF Holder!vars
<1> QED
    BY <1>1, <1>2, <1>3, <1>4, <1>5, <1>6, <1>7, <1>8 DEF Holder!Next, Holder!Continue

LEMMA OnceStep ==
    ASSUME HolderSizes, HolderInv, [Holder!Next]_Holder!vars
    PROVE  OnceInv'
<1> USE DEF HolderSizes, HolderInv, Holder!TypeOK, OnceInv, Holder!Goes
<1>1. ASSUME NEW t \in Threads, Holder!Configure(t) \/ Holder!NeedPool(t) PROVE OnceInv'
    BY <1>1 DEF Holder!Configure, Holder!NeedPool
<1>2. ASSUME NEW t \in Threads, Holder!EnterOnce(t) PROVE OnceInv'
    BY <1>2 DEF Holder!EnterOnce
<1>3. ASSUME NEW t \in Threads, Holder!CopyConfig(t) PROVE OnceInv'
    BY <1>3 DEF Holder!CopyConfig
<1>4. ASSUME NEW t \in Threads, Holder!SpawnWorker(t) PROVE OnceInv'
    BY <1>4 DEF Holder!SpawnWorker
<1>5. ASSUME NEW t \in Threads, Holder!SpawnFails(t) PROVE OnceInv'
    BY <1>5 DEF Holder!SpawnFails
<1>6. ASSUME NEW t \in Threads, Holder!Built(t) PROVE OnceInv'
    BY <1>6 DEF Holder!Built, ExitInv, Leaving
<1>7. ASSUME NEW t \in Threads, Holder!FindBuilt(t) \/ Holder!Used(t) \/ Holder!Join(t)
      PROVE  OnceInv'
    BY <1>7 DEF Holder!FindBuilt, Holder!Used, Holder!Join
<1>8. ASSUME NEW t \in Threads, Holder!ShutdownCall(t) PROVE OnceInv'
    BY <1>8 DEF Holder!ShutdownCall, Holder!Shutdown
<1>9. CASE Holder!ExitShutdown
    BY <1>9 DEF Holder!ExitShutdown, Holder!Shutdown
<1>10. CASE Holder!DestroyPool
    BY <1>10 DEF Holder!DestroyPool
<1>11. CASE Holder!WorkerEnds \/ Holder!Exit
    BY <1>11 DEF Holder!WorkerEnds, Holder!Exit
<1>12. CASE UNCHANGED Holder!vars
    BY <1>12 DEF Holder!vars
<1> QED
    BY <1>1, <1>2, <1>3, <1>4, <1>5, <1>6, <1>7, <1>8, <1>9, <1>10, <1>11, <1>12
       DEF Holder!Next, Holder!Continue

LEMMA ConfigStep ==
    ASSUME HolderSizes, HolderInv, [Holder!Next]_Holder!vars
    PROVE  ConfigInv' /\ Holder!PoolCanRun'
<1> USE DEF HolderSizes, HolderInv, Holder!TypeOK, OnceInv, ConfigInv, Holder!PoolCanRun,
            Holder!Goes
<1>1. ASSUME NEW t \in Threads, Holder!Configure(t) PROVE ConfigInv' /\ Holder!PoolCanRun'
    <2>1. configured => pending' = pending
        BY <1>1 DEF Holder!Configure
    <2>2. pc' = pc /\ UNCHANGED <<configured, once, cfg>>
        BY <1>1 DEF Holder!Configure
    <2> QED
        BY <2>1, <2>2
<1>2. ASSUME NEW t \in Threads, Holder!CopyConfig(t) PROVE ConfigInv' /\ Holder!PoolCanRun'
    <2>1. cfg' = Holder!Normalised(pending) /\ pending' = pending /\ configured' /\ once' = once
        BY <1>2 DEF Holder!CopyConfig
    <2>2. cfg'.min <= cfg'.max
        BY <2>1, PendingType, NormalisedRuns
    <2>3. Holder!Normalised(pending)' = Holder!Normalised(pending)
        BY <2>1
    <2> QED
        BY <2>1, <2>2, <2>3
<1>3. ASSUME NEW t \in Threads, Holder!SpawnFails(t) PROVE ConfigInv' /\ Holder!PoolCanRun'
    <2>1. cfg' = NoConfig /\ once' = "open" /\ UNCHANGED <<pending, configured>>
        BY <1>3 DEF Holder!SpawnFails
    <2>2. \A u \in Threads : pc'[u] # "build"
        BY <1>3 DEF Holder!SpawnFails
    <2> QED
        BY <2>1, <2>2
<1>4. ASSUME NEW t \in Threads, Holder!Built(t) PROVE ConfigInv' /\ Holder!PoolCanRun'
    <2>1. /\ pc[t] = "build" /\ UNCHANGED <<pending, configured, cfg>>
          /\ pc' = [pc EXCEPT ![t] = "using"]
        BY <1>4 DEF Holder!Built
    <2> QED
        BY <2>1
<1>5. CASE /\ UNCHANGED <<pending, configured, cfg>>
           /\ once' = "done" => once = "done"
           /\ \A u \in Threads : pc'[u] = "build" => pc[u] = "build"
    BY <1>5
<1>6. ASSUME NEW t \in Threads,
             \/ Holder!NeedPool(t) \/ Holder!EnterOnce(t) \/ Holder!SpawnWorker(t)
             \/ Holder!FindBuilt(t) \/ Holder!Used(t) \/ Holder!Join(t)
      PROVE  ConfigInv' /\ Holder!PoolCanRun'
    BY <1>5, <1>6 DEF Holder!NeedPool, Holder!EnterOnce, Holder!SpawnWorker,
                      Holder!FindBuilt, Holder!Used, Holder!Join
<1>7. ASSUME NEW t \in Threads, Holder!ShutdownCall(t) PROVE ConfigInv' /\ Holder!PoolCanRun'
    BY <1>5, <1>7 DEF Holder!ShutdownCall, Holder!Shutdown
<1>8. CASE Holder!ExitShutdown
    BY <1>5, <1>8 DEF Holder!ExitShutdown, Holder!Shutdown
<1>9. CASE Holder!DestroyPool \/ Holder!WorkerEnds \/ Holder!Exit
    BY <1>5, <1>9 DEF Holder!DestroyPool, Holder!WorkerEnds, Holder!Exit
<1>10. CASE UNCHANGED Holder!vars
    BY <1>5, <1>10 DEF Holder!vars
<1> QED
    BY <1>1, <1>2, <1>3, <1>4, <1>6, <1>7, <1>8, <1>9, <1>10 DEF Holder!Next, Holder!Continue

LEMMA ExitStep ==
    ASSUME HolderSizes, HolderInv, [Holder!Next]_Holder!vars
    PROVE  ExitInv'
<1> USE DEF HolderSizes, HolderInv, Holder!TypeOK, ExitInv, Leaving, Holder!Goes
<1>1. ASSUME NEW t \in Threads, Holder!Running, Holder!Configure(t) \/ Holder!NeedPool(t)
      PROVE  ExitInv'
    BY <1>1 DEF Holder!Configure, Holder!NeedPool, Holder!Running
<1>2. ASSUME NEW t \in Threads, Holder!Running, Holder!ShutdownCall(t) PROVE ExitInv'
    BY <1>2 DEF Holder!ShutdownCall, Holder!Shutdown, Holder!Running
<1>3. ASSUME NEW t \in Threads,
             \/ Holder!EnterOnce(t) \/ Holder!CopyConfig(t) \/ Holder!SpawnWorker(t)
             \/ Holder!SpawnFails(t)
      PROVE  ExitInv'
    BY <1>3 DEF Holder!EnterOnce, Holder!CopyConfig, Holder!SpawnWorker, Holder!SpawnFails
<1>4. ASSUME NEW t \in Threads, Holder!Built(t) \/ Holder!FindBuilt(t) \/ Holder!Used(t)
      PROVE  ExitInv'
    BY <1>4 DEF Holder!Built, Holder!FindBuilt, Holder!Used
<1>5. ASSUME NEW t \in Threads, Holder!Join(t) PROVE ExitInv'
    BY <1>5 DEF Holder!Join
<1>6. CASE Holder!Exit
    BY <1>6 DEF Holder!Exit
<1>7. CASE Holder!ExitShutdown
    BY <1>7 DEF Holder!ExitShutdown, Holder!Shutdown
<1>8. CASE Holder!DestroyPool \/ Holder!WorkerEnds
    BY <1>8 DEF Holder!DestroyPool, Holder!WorkerEnds
<1>9. CASE UNCHANGED Holder!vars
    BY <1>9 DEF Holder!vars
<1> QED
    BY <1>1, <1>2, <1>3, <1>4, <1>5, <1>6, <1>7, <1>8, <1>9 DEF Holder!Next, Holder!Continue

LEMMA WorkersStep ==
    ASSUME HolderSizes, HolderInv, [Holder!Next]_Holder!vars
    PROVE  WorkersInv'
<1> USE DEF HolderSizes, HolderInv, Holder!TypeOK, OnceInv, ExitInv, Leaving, WorkersInv,
            Holder!Goes
<1>1. ASSUME NEW t \in Threads, Holder!Configure(t) \/ Holder!NeedPool(t) PROVE WorkersInv'
    BY <1>1 DEF Holder!Configure, Holder!NeedPool
<1>2. ASSUME NEW t \in Threads, Holder!EnterOnce(t) PROVE WorkersInv'
    BY <1>2 DEF Holder!EnterOnce
<1>3. ASSUME NEW t \in Threads, Holder!CopyConfig(t) PROVE WorkersInv'
    BY <1>3 DEF Holder!CopyConfig
<1>4. ASSUME NEW t \in Threads, Holder!SpawnWorker(t) PROVE WorkersInv'
    <2>1. pc[t] = "build" /\ pc' = pc /\ once' = once /\ pool' = pool
        BY <1>4 DEF Holder!SpawnWorker
    <2>2. once = t /\ pool = "none" /\ pc[Main] \notin Leaving
        BY <2>1
    <2>3. \A u \in Threads : pc[u] # "copy"
        BY <2>1
    <2> QED
        BY <2>1, <2>2, <2>3
<1>5. ASSUME NEW t \in Threads, Holder!SpawnFails(t) PROVE WorkersInv'
    <2>1. /\ pc[t] = "build" /\ pc' = [pc EXCEPT ![t] = "idle"]
          /\ pool' = pool /\ alive' = alive
        BY <1>5 DEF Holder!SpawnFails
    <2>2. ~terminated' => alive' = 0
        <3>1. ~terminated' => ~(alive > 0)
            BY <1>5, Zenon DEF Holder!SpawnFails
        <3> QED
            BY <2>1, <3>1
    <2>3. pool = "none" /\ pc[Main] \notin Leaving
        BY <2>1
    <2>4. \A u \in Threads : pc'[u] # "copy"
        BY <2>1
    <2> QED
        BY <2>1, <2>2, <2>3, <2>4
<1>6. ASSUME NEW t \in Threads, Holder!Built(t) PROVE WorkersInv'
    BY <1>6 DEF Holder!Built
<1>7. ASSUME NEW t \in Threads, Holder!FindBuilt(t) \/ Holder!Used(t) PROVE WorkersInv'
    BY <1>7 DEF Holder!FindBuilt, Holder!Used
<1>8. ASSUME NEW t \in Threads, Holder!Join(t) PROVE WorkersInv'
    BY <1>8 DEF Holder!Join
<1>9. ASSUME NEW t \in Threads, Holder!ShutdownCall(t) PROVE WorkersInv'
    BY <1>9 DEF Holder!ShutdownCall, Holder!Shutdown
<1>10. CASE Holder!WorkerEnds
    BY <1>10 DEF Holder!WorkerEnds
<1>11. CASE Holder!Exit
    BY <1>11 DEF Holder!Exit
<1>12. CASE Holder!ExitShutdown
    BY <1>12 DEF Holder!ExitShutdown, Holder!Shutdown
<1>13. CASE Holder!DestroyPool
    BY <1>13 DEF Holder!DestroyPool
<1>14. CASE UNCHANGED Holder!vars
    BY <1>14 DEF Holder!vars
<1> QED
    BY <1>1, <1>2, <1>3, <1>4, <1>5, <1>6, <1>7, <1>8, <1>9, <1>10, <1>11, <1>12, <1>13, <1>14
       DEF Holder!Next, Holder!Continue

LEMMA HolderAlways == ASSUME HolderSizes PROVE Holder!Spec => []HolderInv
<1>1. HolderInv /\ [Holder!Next]_Holder!vars => HolderInv'
    BY HolderTypes, OnceStep, ConfigStep, ExitStep, WorkersStep DEF HolderInv
<1> QED
    BY HolderInit, <1>1, PTL DEF Holder!Spec

-----------------------------------------------------------------------------
\* The holder's state is well formed, and every Config that a pool is given is.
THEOREM HolderTypeCorrect == ASSUME HolderSizes PROVE Holder!Spec => []Holder!TypeOK
<1>1. HolderInv => Holder!TypeOK
    BY DEF HolderInv
<1> QED
    BY <1>1, HolderAlways, PTL

\* Whatever was configured, and whenever, the pool gets a Config with at least one
\* thread and room for its minimum (thread_pool.cpp:18).
THEOREM PoolCanAlwaysRun == ASSUME HolderSizes PROVE Holder!Spec => []Holder!PoolCanRun
<1>1. HolderInv => Holder!PoolCanRun
    BY DEF HolderInv
<1> QED
    BY <1>1, HolderAlways, PTL

\* Any number of threads and of failed constructions lead to one pool at most
\* (context.cpp:20).
THEOREM OneBuilderAlways == ASSUME HolderSizes PROVE Holder!Spec => []Holder!OneBuilder
<1>1. HolderInv => Holder!OneBuilder
    <2> SUFFICES ASSUME HolderInv PROVE Holder!OneBuilder
        OBVIOUS
    <2>1. Holder!Building \subseteq {once}
        BY DEF HolderInv, OnceInv, Holder!Building
    <2>2. IsFiniteSet({once}) /\ Cardinality({once}) = 1
        BY FS_Singleton
    <2>3. Cardinality(Holder!Building) \in Nat /\ Cardinality(Holder!Building) <= 1
        BY <2>1, <2>2, FS_Subset, FS_CardinalityType
    <2>4. pool # "none" => Holder!Building = {}
        BY DEF HolderSizes, HolderInv, Holder!TypeOK, OnceInv, ExitInv, Leaving, Holder!Building
    <2>5. Holder!Building = {} => Cardinality(Holder!Building) = 0
        BY FS_EmptySet
    <2>6. Holder!Cardinality(Holder!Building) = Cardinality(Holder!Building)
        BY DEF Holder!Cardinality, Cardinality
    <2> QED
        BY <2>3, <2>4, <2>5, <2>6 DEF Holder!OneBuilder
<1> QED
    BY <1>1, HolderAlways, PTL

\* The pool runs on the Config that was frozen for it, also after failures
\* (context.cpp:22-27).
THEOREM ConfigStaysFrozen == ASSUME HolderSizes PROVE Holder!Spec => []Holder!FrozenConfig
<1>1. HolderInv => Holder!FrozenConfig
    BY DEF HolderInv, ConfigInv, Holder!FrozenConfig
<1> QED
    BY <1>1, HolderAlways, PTL

\* No worker survives the pool, whichever thread's Shutdown did the joining
\* (context.cpp:10, thread_pool.cpp:29).
THEOREM NoWorkerEverOutlives == ASSUME HolderSizes PROVE Holder!Spec => []Holder!NoWorkerOutlives
<1>1. HolderInv => Holder!NoWorkerOutlives
    BY DEF HolderInv, OnceInv, WorkersInv, Holder!NoWorkerOutlives
<1> QED
    BY <1>1, HolderAlways, PTL

-----------------------------------------------------------------------------
(* What is posted one after the other: Strand, for every set of clients,     *)
(* workers and tasks, and that it implements SerialExecutor. The clients and *)
(* the tasks are the pool's; the variables have their own names.             *)
CONSTANT Workers

VARIABLES line, running, pooled, closed, at, cur, posted, done

Line == INSTANCE Strand WITH tasks <- line, stopped <- closed, pc <- at

\* A thread has a task in hand exactly while it runs one.
CurInv ==
    \A t \in Line!Threads : IF at[t] = "run" THEN cur[t] \in Tasks ELSE cur[t] = NoTask

LineInv == Line!TypeOK /\ Line!OneDrain /\ CurInv

-----------------------------------------------------------------------------
LEMMA LineTypeInit == Line!Init => Line!TypeOK
<1> SUFFICES ASSUME Line!Init PROVE Line!TypeOK
    OBVIOUS
<1>1. line \in Seq(Tasks) /\ posted \in Seq(Tasks) /\ done \in Seq(Tasks)
    BY EmptySeq DEF Line!Init
<1>2. running \in BOOLEAN /\ closed \in BOOLEAN /\ pooled \in Nat
    BY DEF Line!Init
<1>3. /\ at \in [Line!Threads -> {"idle", "start", "drain", "run"}]
      /\ cur \in [Line!Threads -> Tasks \cup {NoTask}]
    BY DEF Line!Init
<1> QED
    BY <1>1, <1>2, <1>3 DEF Line!TypeOK

LEMMA LineTypeStep == Line!TypeOK /\ CurInv /\ [Line!Next]_Line!vars => Line!TypeOK'
<1> SUFFICES ASSUME Line!TypeOK, CurInv, [Line!Next]_Line!vars PROVE Line!TypeOK'
    OBVIOUS
<1> USE DEF Line!TypeOK
<1>1. ASSUME NEW t \in Line!Threads, Line!Enqueue(t) PROVE Line!TypeOK'
    <2>1. PICK x \in Tasks : line' = Append(line, x) /\ posted' = Append(posted, x)
        BY <1>1 DEF Line!Enqueue, Line!Unposted
    <2>2. line' \in Seq(Tasks) /\ posted' \in Seq(Tasks)
        BY <2>1, AppendProperties
    <2> QED
        BY <1>1, <2>2 DEF Line!Enqueue
<1>2. ASSUME NEW t \in Line!Threads, Line!StartDrain(t) \/ Line!PoolRuns(t) PROVE Line!TypeOK'
    <2>1. CASE Line!StartDrain(t)
        <3>1. at' \in [Line!Threads -> {"idle", "start", "drain", "run"}] /\ pooled' \in Nat
            BY <2>1 DEF Line!StartDrain
        <3>2. UNCHANGED <<line, running, closed, cur, posted, done>>
            BY <2>1 DEF Line!StartDrain
        <3> QED
            BY <3>1, <3>2
    <2>2. CASE Line!PoolRuns(t)
        BY <2>2 DEF Line!PoolRuns
    <2> QED
        BY <1>2, <2>1, <2>2
<1>3. ASSUME NEW t \in Line!Threads, Line!Take(t) PROVE Line!TypeOK'
    <2>1. line # << >> => Head(line) \in Tasks /\ Tail(line) \in Seq(Tasks)
        BY HeadTailProperties
    <2> QED
        BY <1>3, <2>1 DEF Line!Take
<1>4. ASSUME NEW t \in Line!Threads, Line!RunTask(t) PROVE Line!TypeOK'
    <2>1. done' \in Seq(Tasks)
        BY <1>4, AppendProperties DEF Line!RunTask, CurInv
    <2> QED
        BY <1>4, <2>1 DEF Line!RunTask
<1>5. CASE Line!StopPool \/ UNCHANGED Line!vars
    BY <1>5 DEF Line!StopPool, Line!vars
<1> QED
    BY <1>1, <1>2, <1>3, <1>4, <1>5 DEF Line!Next, Line!ThreadStep

LEMMA CurStep == Line!TypeOK /\ Line!OneDrain /\ CurInv /\ [Line!Next]_Line!vars => CurInv'
<1> SUFFICES ASSUME Line!TypeOK, Line!OneDrain, CurInv, [Line!Next]_Line!vars, NEW u \in Line!Threads
             PROVE  (IF at[u] = "run" THEN cur[u] \in Tasks ELSE cur[u] = NoTask)'
    BY DEF CurInv
<1> USE DEF Line!TypeOK, CurInv
<1>1. ASSUME NEW t \in Line!Threads, Line!Enqueue(t) \/ Line!StartDrain(t) \/ Line!PoolRuns(t)
      PROVE  (at'[u] = "run" <=> at[u] = "run") /\ cur' = cur
    <2>1. CASE Line!Enqueue(t)
        <3>1. at[t] = "run" => running
            BY DEF Line!OneDrain, Line!Carriers
        <3> QED
            BY <2>1, <3>1 DEF Line!Enqueue
    <2>2. CASE Line!StartDrain(t)
        BY <2>2 DEF Line!StartDrain
    <2>3. CASE Line!PoolRuns(t)
        BY <2>3 DEF Line!PoolRuns
    <2> QED
        BY <1>1, <2>1, <2>2, <2>3
<1>2. ASSUME NEW t \in Line!Threads, Line!Take(t)
      PROVE  (IF at[u] = "run" THEN cur[u] \in Tasks ELSE cur[u] = NoTask)'
    BY <1>2, HeadTailProperties DEF Line!Take
<1>3. ASSUME NEW t \in Line!Threads, Line!RunTask(t)
      PROVE  (IF at[u] = "run" THEN cur[u] \in Tasks ELSE cur[u] = NoTask)'
    BY <1>3 DEF Line!RunTask
<1>4. CASE Line!StopPool \/ UNCHANGED Line!vars
    BY <1>4 DEF Line!StopPool, Line!vars
<1> QED
    BY <1>1, <1>2, <1>3, <1>4 DEF Line!Next, Line!ThreadStep

-----------------------------------------------------------------------------
LEMMA OneDrainStep == Line!TypeOK /\ Line!OneDrain /\ [Line!Next]_Line!vars => Line!OneDrain'
<1> SUFFICES ASSUME Line!TypeOK, Line!OneDrain, [Line!Next]_Line!vars PROVE Line!OneDrain'
    OBVIOUS
<1> USE DEF Line!TypeOK, Line!OneDrain, Line!Carriers
\* A client that finds running_ down becomes the carrier: there was none.
<1>1. ASSUME NEW t \in Line!Threads, Line!Enqueue(t) PROVE Line!OneDrain'
    <2>1. CASE running
        <3>1. at' = at /\ running' = TRUE /\ pooled' = pooled
            BY <1>1, <2>1 DEF Line!Enqueue
        <3> QED
            BY <2>1, <3>1
    <2>2. CASE ~running
        <3>1. at' = [at EXCEPT ![t] = "start"] /\ running' = TRUE /\ pooled' = 0
            BY <1>1, <2>2 DEF Line!Enqueue
        <3>2. Line!Carriers = {}
            BY <2>2
        <3>3. Line!Carriers' = {t}
            BY <3>1, <3>2
        <3> QED
            BY <3>1, <3>3
    <2> QED
        BY <2>1, <2>2
\* The carrier hands the Drain_ to the pool, or keeps it.
<1>2. ASSUME NEW t \in Line!Threads, Line!StartDrain(t) PROVE Line!OneDrain'
    <2>1. Line!Carriers = {t} /\ pooled = 0 /\ running
        BY <1>2 DEF Line!StartDrain
    <2>2. CASE closed
        <3>1. Line!Carriers' = {t} /\ pooled' = 0 /\ running'
            BY <1>2, <2>1, <2>2 DEF Line!StartDrain
        <3> QED
            BY <3>1
    <2>3. CASE ~closed
        <3>1. Line!Carriers' = {} /\ pooled' = 1 /\ running'
            BY <1>2, <2>1, <2>3 DEF Line!StartDrain
        <3> QED
            BY <3>1
    <2> QED
        BY <2>2, <2>3
<1>3. ASSUME NEW t \in Line!Threads, Line!PoolRuns(t) PROVE Line!OneDrain'
    <2>1. Line!Carriers = {} /\ pooled = 1 /\ running
        BY <1>3 DEF Line!PoolRuns
    <2>2. Line!Carriers' = {t} /\ pooled' = 0 /\ running'
        BY <1>3, <2>1 DEF Line!PoolRuns
    <2> QED
        BY <2>2
<1>4. ASSUME NEW t \in Line!Threads, Line!Take(t) PROVE Line!OneDrain'
    <2>1. Line!Carriers = {t} /\ pooled = 0 /\ running
        BY <1>4 DEF Line!Take
    <2>2. CASE line = << >>
        <3>1. Line!Carriers' = {} /\ pooled' = 0 /\ ~running'
            BY <1>4, <2>1, <2>2 DEF Line!Take
        <3> QED
            BY <3>1
    <2>3. CASE line # << >>
        <3>1. Line!Carriers' = {t} /\ pooled' = 0 /\ running'
            BY <1>4, <2>1, <2>3 DEF Line!Take
        <3> QED
            BY <3>1
    <2> QED
        BY <2>2, <2>3
<1>5. ASSUME NEW t \in Line!Threads, Line!RunTask(t) PROVE Line!OneDrain'
    <2>1. Line!Carriers' = Line!Carriers /\ UNCHANGED <<pooled, running>>
        BY <1>5 DEF Line!RunTask
    <2> QED
        BY <2>1
<1>6. CASE Line!StopPool \/ UNCHANGED Line!vars
    BY <1>6 DEF Line!StopPool, Line!vars
<1> QED
    BY <1>1, <1>2, <1>3, <1>4, <1>5, <1>6 DEF Line!Next, Line!ThreadStep

LEMMA LineInit == Line!Init => LineInv
<1> SUFFICES ASSUME Line!Init PROVE LineInv
    OBVIOUS
<1>1. Line!Carriers = {}
    BY DEF Line!Init, Line!Carriers
<1>2. Line!OneDrain
    BY <1>1 DEF Line!Init, Line!OneDrain
<1> QED
    BY <1>2, LineTypeInit DEF LineInv, CurInv, Line!Init

LEMMA LineStep == LineInv /\ [Line!Next]_Line!vars => LineInv'
BY LineTypeStep, CurStep, OneDrainStep DEF LineInv

\* The state of a strand is well formed: what is queued and run are tasks
\* that were posted (strand.h:53-56).
THEOREM LineTypeCorrect == Line!Spec => []Line!TypeOK
<1>1. LineInv => Line!TypeOK
    BY DEF LineInv
<1> QED
    BY <1>1, LineInit, LineStep, PTL DEF Line!Spec

\* running_ stands for exactly one Drain_, wherever it is: no second one is ever
\* posted, and none is missing while tasks wait (strand.cpp:13-21, 29-32).
THEOREM OneDrainAlways == Line!Spec => []Line!OneDrain
<1>1. LineInv => Line!OneDrain
    BY DEF LineInv
<1> QED
    BY <1>1, LineInit, LineStep, PTL DEF Line!Spec

-----------------------------------------------------------------------------
(* The one runner. While the Drain_ is in a task, Current is that task.      *)

LEMMA RunnerIsCurrent ==
    ASSUME LineInv, NEW t \in Line!Threads, at[t] = "run"
    PROVE  Line!Current = cur[t] /\ cur[t] \in Tasks
<1>1. \A u \in Line!Threads : at[u] = "run" => u = t
    BY DEF LineInv, Line!OneDrain, Line!Carriers
<1>2. (CHOOSE u \in Line!Threads : at[u] = "run") = t
    BY <1>1
<1> QED
    BY <1>2 DEF Line!Current, LineInv, CurInv

LEMMA NoRunnerNoCurrent ==
    ASSUME \A t \in Line!Threads : at[t] # "run"
    PROVE  Line!Current = NoTask
BY DEF Line!Current

\* While a thread is between two tasks nobody is in a task.
LEMMA CarrierAlone ==
    ASSUME LineInv, NEW t \in Line!Threads, at[t] \in {"start", "drain"}
    PROVE  \A u \in Line!Threads : at[u] # "run"
BY DEF LineInv, Line!OneDrain, Line!Carriers

LEMMA CurrentType == LineInv => Line!Current \in Tasks \cup {NoTask}
BY RunnerIsCurrent, NoRunnerNoCurrent

\* What each step does to the abstract state.
LEMMA StepEffects ==
    ASSUME LineInv, [Line!Next]_Line!vars
    PROVE  \/ /\ \E x \in Tasks : line' = Append(line, x) /\ posted' = Append(posted, x)
             /\ UNCHANGED <<Line!Current, done>>
          \/ /\ line # << >> /\ Line!Current = NoTask
             /\ Line!Current' = Head(line) /\ line' = Tail(line)
             /\ UNCHANGED <<done, posted>>
          \/ /\ Line!Current # NoTask
             /\ done' = Append(done, Line!Current) /\ Line!Current' = NoTask
             /\ UNCHANGED <<line, posted>>
          \/ UNCHANGED <<line, Line!Current, done, posted>>
<1>2. ASSUME NEW t \in Line!Threads, Line!Enqueue(t)
      PROVE  /\ \E x \in Tasks : line' = Append(line, x) /\ posted' = Append(posted, x)
             /\ UNCHANGED <<Line!Current, done>>
    <2>1. /\ \E x \in Tasks : line' = Append(line, x) /\ posted' = Append(posted, x)
          /\ UNCHANGED <<done, cur>>
        BY <1>2 DEF Line!Enqueue, Line!Unposted
    <2>2. \A u \in Line!Threads : at'[u] = "run" <=> at[u] = "run"
        <3>1. at[t] = "run" => running
            BY DEF LineInv, Line!OneDrain, Line!Carriers
        <3> QED
            BY <1>2, <3>1 DEF Line!Enqueue, LineInv, Line!TypeOK
    <2>3. CASE \E u \in Line!Threads : at[u] = "run"
        <3> PICK u \in Line!Threads : at[u] = "run"
            BY <2>3
        <3>1. Line!Current = cur[u]
            BY RunnerIsCurrent
        <3>2. \A v \in Line!Threads : at'[v] = "run" <=> v = u
            BY <2>2 DEF LineInv, Line!OneDrain, Line!Carriers
        <3>3. Line!Current' = cur'[u]
            BY <3>2 DEF Line!Current
        <3> QED
            BY <2>1, <3>1, <3>3
    <2>4. CASE \A u \in Line!Threads : at[u] # "run"
        BY <2>1, <2>2, <2>4 DEF Line!Current
    <2> QED
        BY <2>3, <2>4
<1>3. ASSUME NEW t \in Line!Threads, Line!StartDrain(t) \/ Line!PoolRuns(t)
      PROVE  UNCHANGED <<line, Line!Current, done, posted>>
    <2>1. \A u \in Line!Threads : at[u] # "run"
        <3>1. CASE Line!StartDrain(t)
            BY <3>1, CarrierAlone DEF Line!StartDrain
        <3>2. CASE Line!PoolRuns(t)
            <4>1. pooled = 1
                BY <3>2 DEF Line!PoolRuns, LineInv, Line!TypeOK, Line!OneDrain
            <4> QED
                BY <4>1 DEF LineInv, Line!OneDrain, Line!Carriers
        <3> QED
            BY <1>3, <3>1, <3>2
    <2>2. \A u \in Line!Threads : at'[u] # "run"
        BY <1>3, <2>1 DEF Line!StartDrain, Line!PoolRuns, LineInv, Line!TypeOK
    <2> QED
        BY <1>3, <2>1, <2>2 DEF Line!StartDrain, Line!PoolRuns, Line!Current
<1>4. ASSUME NEW t \in Line!Threads, Line!Take(t)
      PROVE  \/ /\ line # << >> /\ Line!Current = NoTask
                /\ Line!Current' = Head(line) /\ line' = Tail(line)
                /\ UNCHANGED <<done, posted>>
             \/ UNCHANGED <<line, Line!Current, done, posted>>
    <2>1. \A u \in Line!Threads : at[u] # "run"
        BY <1>4, CarrierAlone DEF Line!Take
    <2>2. CASE line = << >>
        <3>1. \A u \in Line!Threads : at'[u] # "run"
            BY <1>4, <2>1, <2>2 DEF Line!Take, LineInv, Line!TypeOK
        <3> QED
            BY <1>4, <2>1, <2>2, <3>1 DEF Line!Take, Line!Current
    <2>3. CASE line # << >>
        <3>1. at'[t] = "run" /\ cur'[t] = Head(line)
            BY <1>4, <2>3 DEF Line!Take, LineInv, Line!TypeOK
        <3>2. \A u \in Line!Threads : at'[u] = "run" <=> u = t
            BY <1>4, <2>1, <3>1 DEF Line!Take, LineInv, Line!TypeOK
        <3>3. Line!Current' = Head(line)
            BY <3>1, <3>2 DEF Line!Current
        <3> QED
            BY <1>4, <2>1, <2>3, <3>3, NoRunnerNoCurrent DEF Line!Take
    <2> QED
        BY <2>2, <2>3
<1>5. ASSUME NEW t \in Line!Threads, Line!RunTask(t)
      PROVE  /\ Line!Current # NoTask
             /\ done' = Append(done, Line!Current) /\ Line!Current' = NoTask
             /\ UNCHANGED <<line, posted>>
    <2>1. Line!Current = cur[t] /\ cur[t] \in Tasks
        BY <1>5, RunnerIsCurrent DEF Line!RunTask
    <2>2. \A u \in Line!Threads : u # t => at[u] # "run"
        BY <1>5 DEF Line!RunTask, LineInv, Line!OneDrain, Line!Carriers
    <2>3. \A u \in Line!Threads : at'[u] # "run"
        BY <1>5, <2>2 DEF Line!RunTask, LineInv, Line!TypeOK
    <2>4. Line!Current' = NoTask
        BY <2>3 DEF Line!Current
    <2> QED
        BY <1>5, <2>1, <2>4, NoTaskAssumption DEF Line!RunTask
<1>6. CASE Line!StopPool \/ UNCHANGED Line!vars
    BY <1>6 DEF Line!StopPool, Line!vars, Line!Current
<1> QED
    BY <1>2, <1>3, <1>4, <1>5, <1>6 DEF Line!Next, Line!ThreadStep

-----------------------------------------------------------------------------
OnHand == IF Line!Current = NoTask THEN << >> ELSE <<Line!Current>>

\* Appending at the end, and moving the first element across.
LEMMA AppendRight ==
    ASSUME NEW p \in Seq(Tasks), NEW q \in Seq(Tasks), NEW x \in Tasks
    PROVE  Append(p \o q, x) = p \o Append(q, x)
<1>1. p \o q \in Seq(Tasks) /\ <<x>> \in Seq(Tasks)
    BY ConcatProperties
<1>2. Append(p \o q, x) = (p \o q) \o <<x>>
    BY <1>1, AppendIsConcat
<1>3. Append(q, x) = q \o <<x>>
    BY AppendIsConcat
<1>4. (p \o q) \o <<x>> = p \o (q \o <<x>>)
    BY <1>1, ConcatAssociative
<1> QED
    BY <1>2, <1>3, <1>4

LEMMA MoveHead ==
    ASSUME NEW p \in Seq(Tasks), NEW q \in Seq(Tasks), q # << >>
    PROVE  (p \o << >>) \o q = (p \o <<Head(q)>>) \o Tail(q)
<1>1. <<Head(q)>> \in Seq(Tasks) /\ Tail(q) \in Seq(Tasks)
    BY HeadTailProperties
<1>2. <<Head(q)>> \o Tail(q) = q
    OBVIOUS
<1>3. (p \o <<Head(q)>>) \o Tail(q) = p \o (<<Head(q)>> \o Tail(q))
    BY <1>1, ConcatAssociative
<1>4. p \o << >> = p
    BY ConcatEmptySeq
<1> QED
    BY <1>2, <1>3, <1>4

LEMMA FifoStep ==
    ASSUME LineInv, Line!Fifo, [Line!Next]_Line!vars
    PROVE  Line!Fifo'
<1>1. /\ line \in Seq(Tasks) /\ done \in Seq(Tasks) /\ posted \in Seq(Tasks)
      /\ OnHand \in Seq(Tasks) /\ << >> \in Seq(Tasks)
    BY CurrentType, EmptySeq DEF LineInv, Line!TypeOK, OnHand
<1>2. posted = (done \o OnHand) \o line
    BY DEF Line!Fifo, OnHand
<1>3. CASE /\ \E x \in Tasks : line' = Append(line, x) /\ posted' = Append(posted, x)
           /\ UNCHANGED <<Line!Current, done>>
    <2> PICK x \in Tasks : line' = Append(line, x) /\ posted' = Append(posted, x)
        BY <1>3
    <2>1. done \o OnHand \in Seq(Tasks)
        BY <1>1, ConcatProperties
    <2>2. posted' = (done \o OnHand) \o line'
        BY <1>1, <1>2, <2>1, AppendRight
    <2> QED
        BY <1>3, <2>2 DEF Line!Fifo, OnHand
<1>4. CASE /\ line # << >> /\ Line!Current = NoTask
           /\ Line!Current' = Head(line) /\ line' = Tail(line)
           /\ UNCHANGED <<done, posted>>
    <2>1. Head(line) \in Tasks
        BY <1>1, <1>4, HeadTailProperties
    <2>2. posted = (done \o << >>) \o line
        BY <1>2, <1>4 DEF OnHand
    <2>3. posted = (done \o <<Head(line)>>) \o Tail(line)
        BY <1>1, <1>4, <2>2, MoveHead
    <2>4. Line!Current' # NoTask
        BY <1>4, <2>1, NoTaskAssumption
    <2> QED
        BY <1>4, <2>3, <2>4 DEF Line!Fifo
<1>5. CASE /\ Line!Current # NoTask
           /\ done' = Append(done, Line!Current) /\ Line!Current' = NoTask
           /\ UNCHANGED <<line, posted>>
    <2>1. Line!Current \in Tasks
        BY <1>5, CurrentType
    <2>2. done' = done \o OnHand /\ done' \in Seq(Tasks)
        BY <1>1, <1>5, <2>1, AppendIsConcat, AppendProperties DEF OnHand
    <2>3. done' \o << >> = done'
        BY <2>2, ConcatEmptySeq
    <2>4. posted' = (done' \o << >>) \o line'
        BY <1>2, <1>5, <2>2, <2>3
    <2> QED
        BY <1>5, <2>4 DEF Line!Fifo
<1>6. CASE UNCHANGED <<line, Line!Current, done, posted>>
    BY <1>6 DEF Line!Fifo
<1> QED
    BY <1>3, <1>4, <1>5, <1>6, StepEffects

LEMMA FifoInit == Line!Init => Line!Fifo
<1> SUFFICES ASSUME Line!Init PROVE Line!Fifo
    OBVIOUS
<1>1. Line!Current = NoTask /\ posted = << >> /\ done = << >> /\ line = << >>
    BY NoRunnerNoCurrent DEF Line!Init
<1>2. (<< >> \o << >>) \o << >> = << >>
    BY EmptySeq, ConcatEmptySeq
<1> QED
    BY <1>1, <1>2 DEF Line!Fifo

\* Nothing posted to a strand is lost, run twice or overtaken, whichever threads
\* carry the Drain_ and whether or not the pool is stopped on the way.
THEOREM FifoAlways == Line!Spec => []Line!Fifo
BY LineInit, LineStep, FifoInit, FifoStep, PTL DEF Line!Spec

\* A Strand implements the serial executor: its steps are those of one queue and
\* one task at a time.
THEOREM StrandIsSerial == Line!Spec => Line!SerialSpec
<1>1. Line!Init => Line!Serial!Init
    BY NoRunnerNoCurrent DEF Line!Init, Line!Serial!Init
<1>2. LineInv /\ [Line!Next]_Line!vars => [Line!Serial!Next]_(Line!Serial!vars)
    <2> SUFFICES ASSUME LineInv, [Line!Next]_Line!vars PROVE [Line!Serial!Next]_(Line!Serial!vars)
        OBVIOUS
    <2> QED
        BY StepEffects
           DEF Line!Serial!Next, Line!Serial!Post, Line!Serial!Start, Line!Serial!Finish, Line!Serial!vars
<1> QED
    BY <1>1, <1>2, LineInit, LineStep, PTL DEF Line!Spec, Line!SerialSpec, Line!Serial!Spec

=============================================================================
