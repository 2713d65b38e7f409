-------------------------- MODULE LogPipelineProofs --------------------------
\* Proofs about LogPipeline, for any number of threads and sinks and any width of
\* the nonce counter.
EXTENDS LogPipeline, SequenceTheorems, TLAPS

Frames == [rec : Records, nonce : 0 .. Counters-1, by : Threads, own : Records]

Filled == {"compress", "nonce", "encrypt", "append"}

\* A thread that logs has a message; in the pipeline it holds pipeline_mu_, and
\* from the formatter on the buffers hold its message.
Busy(t) ==
    /\ pc[t] # "idle" => rec[t] \in Records
    /\ pc[t] \in Inside => mtx = t /\ at[t] \in 0 .. Len(Sinks)
    /\ pc[t] \in Filled => buf = rec[t]

TInv == TypeOK /\ \A t \in Threads : Busy(t)

\* The frames accepted so far hold the messages of their own calls.
OInv == TInv /\ FrameIsOwn

-----------------------------------------------------------------------------
\* sinks_ is a sequence.
LEMMA SinksLength == Len(Sinks) \in Nat
  BY SinksAssumption, LenProperties

\* Every variable has its type at the start, and no call is under way.
LEMMA OwnInit == Init => OInv
<1>. SUFFICES ASSUME Init PROVE OInv
  OBVIOUS
<1>1. TypeOK
  <2>1. 0 \in 0 .. Len(Sinks) + 1
    BY SinksLength
  <2>2. 0 \in 0 .. Counters-1 /\ counter \in 0 .. Counters-1
    BY CounterAssumption DEF Init
  <2>3. at \in [Threads -> 0 .. Len(Sinks) + 1]
    BY <2>1 DEF Init
  <2>4. printed \in Seq(Records) /\ stored \in Seq(Frames) /\ used \in Seq(0 .. Counters-1)
    BY DEF Init
  <2>5. pc \in [Threads -> {"idle", "sink"} \cup Inside]
    BY DEF Init
  <2>6. rec \in [Threads -> Records \cup {NoRecord}]
    BY DEF Init
  <2>7. QED  BY <2>2, <2>3, <2>4, <2>5, <2>6 DEF Init, TypeOK, Frames
<1>2. \A t \in Threads : Busy(t)
  BY DEF Init, Busy, Inside, Filled
<1>3. QED  BY <1>1, <1>2 DEF Init, OInv, TInv, FrameIsOwn

\* A thread that leaves the pipeline, with an exception or at its end, disturbs
\* nobody: nobody else was in it.
LEMMA Alone ==
  ASSUME TInv, NEW t \in Threads, pc[t] \in Inside
  PROVE  \A u \in Threads : u # t => pc[u] \notin Inside
  BY DEF TInv, Busy

\* An exception from inside the pipeline.
LEMMA ThrowStep ==
  ASSUME TInv, NEW t \in Threads, pc[t] \in Inside, Throw(t),
         UNCHANGED <<printed, stored>>,
         nonce' \in 0 .. Counters-1, counter' \in 0 .. Counters-1,
         used' \in Seq(0 .. Counters-1), exhausted' \in BOOLEAN,
         buf' \in Records \cup {NoRecord}
  PROVE  TInv'
<1>1. TypeOK'
  BY SinksLength DEF TInv, TypeOK, Throw, Busy, Inside
<1>2. \A u \in Threads : Busy(u)'
  <2>1. \A u \in Threads : u # t => pc[u] \notin Inside
    BY Alone
  <2>2. QED  BY <2>1 DEF TInv, TypeOK, Throw, Busy, Inside, Filled
<1>3. QED  BY <1>1, <1>2 DEF TInv

\* A step from one stage of the pipeline to the next.
LEMMA StageStep ==
  ASSUME TInv, NEW t \in Threads, pc[t] \in Inside, NEW next \in Inside,
         pc' = [pc EXCEPT ![t] = next],
         next \in Filled => buf' = rec[t],
         UNCHANGED <<rec, at, mtx, printed, stored, thrown>>,
         nonce' \in 0 .. Counters-1, counter' \in 0 .. Counters-1,
         used' \in Seq(0 .. Counters-1), exhausted' \in BOOLEAN,
         buf' \in Records \cup {NoRecord}
  PROVE  TInv'
<1>1. TypeOK'
  BY DEF TInv, TypeOK
<1>2. ASSUME NEW u \in Threads PROVE Busy(u)'
  <2>1. CASE u = t
    BY <2>1 DEF TInv, TypeOK, Busy, Inside
  <2>2. CASE u # t
    <3>1. pc[u] \notin Inside /\ pc'[u] = pc[u]
      BY <2>2, Alone DEF TInv, TypeOK
    <3>2. QED  BY <3>1 DEF TInv, Busy, Inside, Filled
  <2>3. QED  BY <2>1, <2>2
<1>3. QED  BY <1>1, <1>2 DEF TInv

-----------------------------------------------------------------------------
\* Every step of a thread keeps the types, the exclusion and the ownership.
LEMMA OwnStep == OInv /\ [Next]_vars => OInv'
<1>. SUFFICES ASSUME OInv, [Next]_vars PROVE OInv'
  OBVIOUS
<1>. TInv /\ FrameIsOwn
  BY DEF OInv
<1>0. UNCHANGED stored => FrameIsOwn'
  BY DEF FrameIsOwn
<1>1. ASSUME NEW t \in Threads, Call(t) PROVE OInv'
  <2>1. TypeOK'
    BY <1>1, SinksLength DEF TInv, TypeOK, Call
  <2>2. \A u \in Threads : Busy(u)'
    BY <1>1 DEF TInv, TypeOK, Call, Busy, Inside, Filled
  <2>3. QED  BY <1>0, <1>1, <2>1, <2>2 DEF OInv, TInv, Call
<1>2. ASSUME NEW t \in Threads, Return(t) PROVE OInv'
  <2>1. TypeOK'
    BY <1>2, SinksLength DEF TInv, TypeOK, Return
  <2>2. \A u \in Threads : Busy(u)'
    BY <1>2 DEF TInv, TypeOK, Return, Busy, Inside, Filled
  <2>3. QED  BY <1>0, <1>2, <2>1, <2>2 DEF OInv, TInv, Return
<1>3. ASSUME NEW t \in Threads, ConsoleLog(t) PROVE OInv'
  <2>1. at[t] \in 0 .. Len(Sinks) /\ rec[t] \in Records
    BY <1>3, SinksLength DEF TInv, TypeOK, Busy, ConsoleLog, At
  <2>2. printed' \in Seq(Records)
    BY <1>3, <2>1, AppendProperties DEF TInv, TypeOK, ConsoleLog
  <2>3. at' \in [Threads -> 0 .. Len(Sinks) + 1]
    BY <1>3, <2>1, SinksLength DEF TInv, TypeOK, ConsoleLog
  <2>4. TypeOK'
    BY <1>3, <2>2, <2>3 DEF TInv, TypeOK, ConsoleLog
  <2>5. \A u \in Threads : Busy(u)'
    BY <1>3 DEF TInv, TypeOK, ConsoleLog, At, Busy, Inside, Filled
  <2>6. QED  BY <1>0, <1>3, <2>4, <2>5 DEF OInv, TInv, ConsoleLog
<1>4. ASSUME NEW t \in Threads, Lock(t) PROVE OInv'
  <2>1. TypeOK'
    BY <1>4 DEF TInv, TypeOK, Lock, Inside
  <2>2. \A u \in Threads : pc[u] \notin Inside
    BY <1>4, NoneAssumption DEF TInv, Busy, Lock
  <2>3. at[t] \in 0 .. Len(Sinks) /\ rec[t] \in Records
    BY <1>4, SinksLength DEF TInv, TypeOK, Busy, Lock, At
  <2>4. \A u \in Threads : Busy(u)'
    BY <1>4, <2>2, <2>3 DEF TInv, TypeOK, Lock, Busy, Inside, Filled
  <2>5. QED  BY <1>0, <1>4, <2>1, <2>4 DEF OInv, TInv, Lock
<1>5. ASSUME NEW t \in Threads, Format(t) PROVE OInv'
  <2>1. pc[t] \in Inside /\ rec[t] \in Records
    BY <1>5 DEF Format, Inside, TInv, Busy
  <2>2. TInv'
    <3>1. CASE Throw(t)
      BY <1>5, <2>1, <3>1, ThrowStep DEF Format, TInv, TypeOK
    <3>2. CASE ~Throw(t)
      BY <1>5, <2>1, <3>2, StageStep DEF Format, TInv, TypeOK, Inside
    <3>3. QED  BY <3>1, <3>2
  <2>3. QED  BY <1>0, <1>5, <2>2 DEF OInv, Format
<1>6. ASSUME NEW t \in Threads, Compress(t) PROVE OInv'
  <2>1. pc[t] \in Inside /\ buf = rec[t]
    BY <1>6 DEF Compress, Inside, Filled, TInv, Busy
  <2>2. TInv'
    <3>1. CASE Throw(t)
      BY <1>6, <2>1, <3>1, ThrowStep DEF Compress, TInv, TypeOK
    <3>2. CASE ~Throw(t)
      BY <1>6, <2>1, <3>2, StageStep DEF Compress, TInv, TypeOK, Inside
    <3>3. QED  BY <3>1, <3>2
  <2>3. QED  BY <1>0, <1>6, <2>2 DEF OInv, Compress
<1>7. ASSUME NEW t \in Threads, BuildNonce(t) PROVE OInv'
  <2>1. pc[t] \in Inside /\ buf = rec[t]
    BY <1>7 DEF BuildNonce, Inside, Filled, TInv, Busy
  <2>2. counter' \in 0 .. Counters-1
    BY <1>7, CounterAssumption DEF TInv, TypeOK, BuildNonce
  <2>3. TInv'
    <3>1. CASE counter = Counters - 1
      BY <1>7, <2>1, <2>2, <3>1, ThrowStep DEF BuildNonce, TInv, TypeOK
    <3>2. CASE counter # Counters - 1
      BY <1>7, <2>1, <2>2, <3>2, StageStep DEF BuildNonce, TInv, TypeOK, Inside
    <3>3. QED  BY <3>1, <3>2
  <2>4. QED  BY <1>0, <1>7, <2>3 DEF OInv, BuildNonce
<1>8. ASSUME NEW t \in Threads, Encrypt(t) PROVE OInv'
  <2>1. pc[t] \in Inside /\ buf = rec[t]
    BY <1>8 DEF Encrypt, Inside, Filled, TInv, Busy
  <2>2. used' \in Seq(0 .. Counters-1)
    BY <1>8, AppendProperties DEF TInv, TypeOK, Encrypt
  <2>3. TInv'
    <3>1. CASE Throw(t)
      BY <1>8, <2>1, <2>2, <3>1, ThrowStep DEF Encrypt, TInv, TypeOK
    <3>2. CASE ~Throw(t)
      BY <1>8, <2>1, <2>2, <3>2, StageStep DEF Encrypt, TInv, TypeOK, Inside
    <3>3. QED  BY <3>1, <3>2
  <2>4. QED  BY <1>0, <1>8, <2>3 DEF OInv, Encrypt
<1>9. ASSUME NEW t \in Threads, AppendFrame(t) PROVE OInv'
  <2>. DEFINE f == [rec |-> buf, nonce |-> nonce, by |-> t, own |-> rec[t]]
  <2>1. pc[t] \in Inside /\ buf = rec[t] /\ rec[t] \in Records /\ at[t] \in 0 .. Len(Sinks)
    BY <1>9 DEF AppendFrame, Inside, Filled, TInv, Busy
  <2>2. f \in Frames /\ f.rec = f.own
    BY <2>1 DEF TInv, TypeOK, Frames
  <2>3. stored' \in Seq(Frames) /\ FrameIsOwn'
    <3>1. stored \in Seq(Frames)
      BY DEF TInv, TypeOK, Frames
    <3>2. CASE stored' = stored
      BY <3>1, <3>2 DEF FrameIsOwn
    <3>3. CASE stored' = Append(stored, f)
      <4>. HIDE DEF f
      <4>1. /\ stored' \in Seq(Frames) /\ Len(stored') = Len(stored) + 1
            /\ \A i \in 1 .. Len(stored) : stored'[i] = stored[i]
            /\ stored'[Len(stored) + 1] = f
        BY <2>2, <3>1, <3>3, AppendProperties
      <4>2. \A i \in DOMAIN stored' : i \in DOMAIN stored \/ i = Len(stored) + 1
        BY <3>1, <4>1, LenProperties
      <4>3. QED  BY <2>2, <3>1, <4>1, <4>2, LenProperties DEF FrameIsOwn
    <3>4. QED  BY <1>9, <3>2, <3>3 DEF AppendFrame
  <2>4. at' \in [Threads -> 0 .. Len(Sinks) + 1]
    BY <1>9, <2>1, SinksLength DEF TInv, TypeOK, AppendFrame
  <2>5. TypeOK'
    BY <1>9, <2>3, <2>4 DEF TInv, TypeOK, AppendFrame, Frames
  <2>6. \A u \in Threads : Busy(u)'
    <3>1. \A u \in Threads : u # t => pc[u] \notin Inside
      BY <2>1, Alone
    <3>2. QED  BY <1>9, <3>1 DEF TInv, TypeOK, AppendFrame, Busy, Inside, Filled
  <2>7. QED  BY <2>3, <2>5, <2>6 DEF OInv, TInv
<1>10. CASE UNCHANGED vars
  BY <1>10 DEF vars, OInv, TInv, TypeOK, Busy, FrameIsOwn
<1>11. QED
  BY <1>1, <1>2, <1>3, <1>4, <1>5, <1>6, <1>7, <1>8, <1>9, <1>10 DEF Next, Step

-----------------------------------------------------------------------------
(* Nonces. Every one that was used or stored lies below counter_, and the one*)
(* that is in the pipeline lies between them and counter_.                   *)

Ascending(q) == \A i, j \in DOMAIN q : i < j => q[i] < q[j]

StoredAscend == \A i, j \in DOMAIN stored : i < j => stored[i].nonce < stored[j].nonce

NInv ==
    ~exhausted =>
        /\ Ascending(used) /\ \A i \in DOMAIN used : used[i] < counter
        /\ StoredAscend /\ \A i \in DOMAIN stored : stored[i].nonce < counter
        /\ \A t \in Threads : pc[t] = "encrypt" => \A i \in DOMAIN used : used[i] < nonce
        /\ \A t \in Threads : pc[t] \in {"encrypt", "append"} =>
              nonce < counter /\ \A i \in DOMAIN stored : stored[i].nonce < nonce

LEMMA SmallMod ==
  ASSUME NEW a \in Nat, NEW b \in Nat \ {0}, a < b
  PROVE  a % b = a
  OBVIOUS

\* A larger number at the end keeps a sequence ascending.
LEMMA AppendAscends ==
  ASSUME NEW q \in Seq(0 .. Counters-1), NEW x \in 0 .. Counters-1,
         Ascending(q), \A i \in DOMAIN q : q[i] < x
  PROVE  Ascending(Append(q, x))
<1>1. /\ DOMAIN q = 1 .. Len(q) /\ DOMAIN Append(q, x) = 1 .. Len(q) + 1
      /\ \A i \in 1 .. Len(q) : Append(q, x)[i] = q[i]
      /\ Append(q, x)[Len(q) + 1] = x /\ Len(q) \in Nat
  BY AppendProperties, LenProperties
<1>2. QED  BY <1>1 DEF Ascending

\* Steps that bring no new nonce into the pipeline.
LEMMA NonceFrame ==
  ASSUME NInv, UNCHANGED <<nonce, counter, used, stored>>, exhausted' = exhausted,
         \A u \in Threads : pc'[u] \in {"encrypt", "append"} => pc'[u] = pc[u]
  PROVE  NInv'
  BY DEF NInv, Ascending, StoredAscend

LEMMA NonceInit == Init => NInv
  BY DEF Init, NInv, Ascending, StoredAscend

LEMMA NonceStep == OInv /\ NInv /\ [Next]_vars => NInv'
<1>. SUFFICES ASSUME OInv, NInv, [Next]_vars PROVE NInv'
  OBVIOUS
<1>. TInv /\ TypeOK
  BY DEF OInv, TInv
<1>1. ASSUME NEW t \in Threads, Call(t) \/ Return(t) \/ ConsoleLog(t) \/ Lock(t) PROVE NInv'
  BY <1>1, NonceFrame DEF Call, Return, ConsoleLog, Lock, TypeOK
<1>2. ASSUME NEW t \in Threads, Format(t) \/ Compress(t) PROVE NInv'
  <2>1. \A u \in Threads : pc'[u] \in {"encrypt", "append"} => pc'[u] = pc[u]
    BY <1>2 DEF Format, Compress, Throw, TypeOK
  <2>2. QED  BY <1>2, <2>1, NonceFrame DEF Format, Compress
<1>3. ASSUME NEW t \in Threads, BuildNonce(t) PROVE NInv'
  <2>1. CASE counter = Counters - 1
    <3>1. exhausted'
      BY <1>3, <2>1, Zenon DEF BuildNonce
    <3>2. QED  BY <3>1 DEF NInv
  <2>2. CASE counter # Counters - 1
    <3>0. (counter + 1) % Counters = counter + 1
      <4>1. counter + 1 \in Nat /\ Counters \in Nat \ {0} /\ counter + 1 < Counters
        BY <2>2, CounterAssumption DEF TypeOK
      <4>2. QED  BY <4>1, SmallMod
    <3>1. /\ nonce' = counter /\ counter' = counter + 1
          /\ UNCHANGED <<used, stored, exhausted>>
      BY <1>3, <2>2, <3>0 DEF BuildNonce
    <3>2. counter \in Nat
      BY CounterAssumption DEF TypeOK
    <3>3. used \in Seq(0 .. Counters-1) /\ stored \in Seq(Frames)
      BY DEF TypeOK, Frames
    <3>4. /\ \A i \in DOMAIN used : used[i] \in Int
          /\ \A i \in DOMAIN stored : stored[i].nonce \in Int
      <4>1. ASSUME NEW i \in DOMAIN used PROVE used[i] \in 0 .. Counters-1
        <5>1. i \in 1 .. Len(used)
          BY <3>3, LenProperties
        <5>2. QED  BY <3>3, <5>1, ElementOfSeq
      <4>2. \A i \in DOMAIN stored : stored[i] \in Frames
        BY <3>3
      <4>3. QED  BY <4>1, <4>2, CounterAssumption DEF Frames
    <3>5. QED  BY <3>1, <3>2, <3>4 DEF NInv, Ascending, StoredAscend
  <2>3. QED  BY <2>1, <2>2
<1>4. ASSUME NEW t \in Threads, Encrypt(t) PROVE NInv'
  <2>1. /\ pc[t] = "encrypt" /\ used' = Append(used, nonce)
        /\ UNCHANGED <<nonce, counter, stored, exhausted>>
    BY <1>4 DEF Encrypt
  <2>2. /\ used \in Seq(0 .. Counters-1) /\ nonce \in 0 .. Counters-1
        /\ DOMAIN used = 1 .. Len(used) /\ DOMAIN used' = 1 .. Len(used) + 1
        /\ \A i \in 1 .. Len(used) : used'[i] = used[i]
        /\ used'[Len(used) + 1] = nonce /\ Len(used) \in Nat
    BY <2>1, AppendProperties, LenProperties DEF TypeOK
  <2>3. \A u \in Threads : pc'[u] # "encrypt" /\ (pc'[u] = "append" => u = t)
    <3>1. \A u \in Threads : u # t => pc[u] \notin Inside
      BY <2>1, Alone DEF Inside
    <3>2. QED  BY <1>4, <3>1 DEF Encrypt, Throw, TypeOK, Inside
  <2>4. CASE ~exhausted
    <3>1. Ascending(used')
      BY <2>1, <2>2, <2>4, AppendAscends DEF NInv
    <3>2. \A i \in DOMAIN used' : used'[i] < counter'
      BY <2>1, <2>2, <2>4 DEF NInv
    <3>3. QED  BY <2>1, <2>3, <2>4, <3>1, <3>2 DEF NInv, Ascending, StoredAscend
  <2>5. QED  BY <2>1, <2>4 DEF NInv
<1>5. ASSUME NEW t \in Threads, AppendFrame(t) PROVE NInv'
  <2>. DEFINE f == [rec |-> buf, nonce |-> nonce, by |-> t, own |-> rec[t]]
  <2>1. /\ pc[t] = "append" /\ UNCHANGED <<nonce, counter, used, exhausted>>
        /\ stored' = stored \/ stored' = Append(stored, f)
    BY <1>5 DEF AppendFrame
  <2>2. \A u \in Threads : pc'[u] \notin {"encrypt", "append"}
    <3>1. \A u \in Threads : u # t => pc[u] \notin Inside
      BY <2>1, Alone DEF Inside
    <3>2. QED  BY <1>5, <3>1 DEF AppendFrame, TypeOK, Inside
  <2>3. CASE stored' = stored
    BY <2>1, <2>2, <2>3, NonceFrame
  <2>4. CASE stored' = Append(stored, f)
    <3>1. f \in Frames /\ f.nonce = nonce
      BY <2>1 DEF TInv, TypeOK, Busy, Inside, Filled, Frames
    <3>2. stored \in Seq(Frames)
      BY DEF TypeOK, Frames
    <3>. HIDE DEF f
    <3>3. /\ DOMAIN stored = 1 .. Len(stored) /\ DOMAIN stored' = 1 .. Len(stored) + 1
          /\ \A i \in 1 .. Len(stored) : stored'[i] = stored[i]
          /\ stored'[Len(stored) + 1] = f /\ Len(stored) \in Nat
      BY <2>4, <3>1, <3>2, AppendProperties, LenProperties
    <3>4. CASE ~exhausted
      <4>1. StoredAscend' /\ \A i \in DOMAIN stored' : stored'[i].nonce < counter'
        BY <2>1, <3>1, <3>3, <3>4 DEF NInv, StoredAscend
      <4>2. QED  BY <2>1, <2>2, <3>4, <4>1 DEF NInv, Ascending
    <3>5. QED  BY <2>1, <3>4 DEF NInv
  <2>5. QED  BY <2>1, <2>3, <2>4
<1>6. CASE UNCHANGED vars
  BY <1>6, NonceFrame DEF vars
<1>7. QED  BY <1>1, <1>2, <1>3, <1>4, <1>5, <1>6 DEF Next, Step

-----------------------------------------------------------------------------
\* Every frame that reaches MmapStore holds the message of the call that appended
\* it: pipeline_mu_ protects the shared buffers through every exception
\* (effective_sink.cpp:83-110).
THEOREM FramesAreOwn == Spec => []FrameIsOwn
<1>1. OInv => FrameIsOwn
  BY DEF OInv
<1>2. QED  BY <1>1, OwnInit, OwnStep, PTL DEF Spec

\* Up to the last value of counter_, nonces ascend as they are used and as their
\* frames are stored, for any number of threads and any failures: none serves twice
\* (aes_gcm_cipher.cpp:40, effective_sink.cpp:84).
THEOREM NoncesAlwaysAscend == Spec => []NoncesAscend
<1>1. NInv => NoncesAscend
  BY DEF NInv, Ascending, StoredAscend, NoncesAscend
<1>2. OInv /\ NInv /\ [Next]_vars => OInv' /\ NInv'
  BY OwnStep, NonceStep
<1>3. QED  BY <1>1, <1>2, OwnInit, NonceInit, PTL DEF Spec

\* The variables of the pipeline keep their types.
THEOREM TypeCorrect == Spec => []TypeOK
<1>1. OInv => TypeOK
  BY DEF OInv, TInv
<1>2. QED  BY <1>1, OwnInit, OwnStep, PTL DEF Spec

-----------------------------------------------------------------------------
(* The compressor that the pipeline calls under its lock: ZlibStream, for    *)
(* inputs, results and windows of every size. No run of TLC, and no test,    *)
(* has a window of 1 GiB. Its constants and variables have their own names.  *)
CONSTANTS Ops, InSizes, OutSizes, Margin, Before, Chunk, Widths, MayThrow

VARIABLES wide, op, n, need, whole, step, next_in, avail_in, in_left, next_out, avail_out, out_left,
          size, finish, total_in, total_out

Stream == INSTANCE ZlibStream WITH pc <- step

\* SizesAssumption and ChunkAssumption of ZlibStream.
StreamSizes ==
    /\ Ops \subseteq {"compress", "decompress"}
    /\ InSizes \subseteq Nat /\ OutSizes \subseteq Nat /\ Margin \in Nat /\ Before \in Nat
    /\ Chunk \in Nat \ {0} /\ Widths \subseteq Nat \ {0}

\* The call, and the state as numbers.
StreamTypes ==
    /\ op \in {"compress", "decompress"} /\ n \in Nat /\ need \in Nat /\ whole \in BOOLEAN
    /\ wide \in Nat \ {0} /\ total_out <= need /\ (op = "compress" => need <= n + Margin)
    /\ step \in {"zlib", "refill", "end", "done", "thrown"}
    /\ avail_in \in 0 .. Chunk /\ avail_out \in 0 .. Chunk
    /\ next_in \in Nat /\ in_left \in Nat
    /\ next_out \in Nat /\ out_left \in Nat
    /\ size \in Nat /\ total_in \in Nat /\ total_out \in Nat
    /\ finish \in BOOLEAN

\* Compress counts all of its output: what lies behind the window is out_left, no less.
OutExact ==
    step # "done" =>
        IF op = "compress" THEN next_out + avail_out + out_left = size
                           ELSE next_out + avail_out <= size

\* Z_FINISH is passed only when all of the input is in the window or behind it.
FinishLate == finish => in_left = 0

\* The end of the stream is the end of the input and of the result.
EndInv ==
    /\ step \in {"end", "done"} => avail_in = 0 /\ in_left = 0 /\ total_out = need
    /\ step = "done" => size = Before + (total_out % wide)

InExact == next_in + avail_in + in_left = n

\* What zlib says it has made never exceeds what it has, so that a window that begins
\* there lies in the buffer.
OutBelow == op = "decompress" => Before + (total_out % wide) <= next_out

StreamInv ==
    StreamTypes /\ Stream!InPlace /\ InExact /\ OutExact /\ OutBelow /\ FinishLate /\ EndInv

-----------------------------------------------------------------------------
(* uLong.                                                                    *)

LEMMA Quotients ==
    ASSUME NEW w \in Nat \ {0}, NEW p \in Int, NEW q \in Int, q < p
    PROVE  w * q + w <= w * p
<1>1. w * (p - q) >= w
    BY SMT
<1>2. w * (p - q) = w * p - w * q
    BY SMT
<1> QED
    BY <1>1, <1>2, SMT

\* A remainder, taken of a number that has grown, grows by no more.
LEMMA RemainderGrows ==
    ASSUME NEW w \in Nat \ {0}, NEW a \in Nat, NEW b \in Nat
    PROVE  /\ a % w \in 0 .. w - 1 /\ (a < w => a % w = a)
           /\ (a + b) % w <= (a % w) + b
<1>1. PICK q : q = a \div w
    OBVIOUS
<1>2. PICK p : p = (a + b) \div w
    OBVIOUS
<1>3. /\ q \in Int /\ a % w \in 0 .. w - 1 /\ a = w * q + (a % w)
      /\ p \in Int /\ (a + b) % w \in 0 .. w - 1 /\ a + b = w * p + ((a + b) % w)
    BY <1>1, <1>2
<1>4. a < w => a % w = a
    OBVIOUS
<1>5. CASE p < q
    <2>1. w * p + w <= w * q
        BY <1>3, <1>5, Quotients
    <2> QED
        BY <1>3, <1>4, <2>1
<1>6. CASE ~(p < q)
    <2>1. w * q <= w * p
        <3>1. CASE p = q
            BY <3>1, <1>3
        <3>2. CASE q < p
            BY <3>2, <1>3, Quotients
        <3> QED
            BY <1>3, <1>6, <3>1, <3>2
    <2> QED
        BY <1>3, <1>4, <2>1
<1> QED
    BY <1>5, <1>6

-----------------------------------------------------------------------------
\* A window is never longer than what is left, nor than zlib can count.
LEMMA WindowFits ==
    ASSUME StreamSizes, NEW left \in Nat
    PROVE  Stream!Window(left) \in 0 .. Chunk /\ left - Stream!Window(left) \in Nat
    BY DEF StreamSizes, Stream!Window

LEMMA StreamInit ==
    ASSUME StreamSizes
    PROVE  Stream!Init => StreamInv
<1> USE DEF StreamSizes
<1> SUFFICES ASSUME Stream!Init PROVE StreamInv
    OBVIOUS
<1>1. /\ op \in {"compress", "decompress"} /\ n \in Nat /\ need \in Nat /\ whole \in BOOLEAN
      /\ wide \in Nat \ {0} /\ (op = "compress" => need <= n + Margin)
    BY DEF Stream!Init
<1>2. Stream!FirstCapacity \in Nat
    <2>1. n % wide \in Nat
        BY <1>1, RemainderGrows
    <2>2. ((n % wide) + Margin) % wide \in Nat
        BY <1>1, <2>1, RemainderGrows
    <2> QED
        BY <1>1, <2>2 DEF Stream!FirstCapacity, Stream!ULong
<1>3. avail_in \in 0 .. Chunk /\ in_left \in Nat /\ avail_in + in_left = n
    BY <1>1, WindowFits DEF Stream!Init
<1>4. avail_out \in 0 .. Chunk /\ out_left \in Nat /\ avail_out + out_left = Stream!FirstCapacity
    BY <1>2, WindowFits DEF Stream!Init
<1>5. finish \in BOOLEAN /\ (finish => in_left = 0)
    BY DEF Stream!Init, Stream!FirstFlush
<1>6. /\ step = "zlib" /\ next_in = 0 /\ total_in = 0 /\ total_out = 0
      /\ next_out = Before /\ size = Before + Stream!FirstCapacity
    BY DEF Stream!Init
<1>7. StreamTypes
    BY <1>1, <1>2, <1>3, <1>4, <1>5, <1>6 DEF StreamTypes
<1>8. OutBelow
    BY <1>1, <1>6, RemainderGrows DEF OutBelow
<1> QED
    BY <1>2, <1>3, <1>4, <1>5, <1>6, <1>7, <1>8
       DEF StreamInv, Stream!InPlace, InExact, OutExact, FinishLate, EndInv

\* The input side of a refill: the new window begins where the old one ended.
LEMMA RefillInMoves ==
    ASSUME StreamSizes, StreamTypes, InExact, FinishLate, Stream!RefillIn
    PROVE  /\ avail_in' \in 0 .. Chunk /\ in_left' \in Nat /\ next_in' = next_in
           /\ next_in' + avail_in' + in_left' = n
           /\ finish' \in BOOLEAN /\ (finish' => in_left' = 0)
<1> USE DEF StreamSizes, StreamTypes, InExact, FinishLate
<1>1. CASE avail_in = 0 /\ in_left > 0
    <2>1. Stream!Window(in_left) \in 0 .. Chunk /\ in_left - Stream!Window(in_left) \in Nat
        BY WindowFits
    <2>2. /\ next_in' = n - in_left /\ avail_in' = Stream!Window(in_left)
          /\ in_left' = in_left - Stream!Window(in_left)
          /\ finish' = (finish \/ in_left' = 0)
        BY <1>1 DEF Stream!RefillIn
    <2> QED
        BY <1>1, <2>1, <2>2
<1>2. CASE ~(avail_in = 0 /\ in_left > 0)
    <2>1. UNCHANGED <<next_in, avail_in, in_left, finish>>
        BY <1>2 DEF Stream!RefillIn
    <2> QED
        BY <2>1
<1> QED
    BY <1>1, <1>2

\* The output side for Compress.
LEMMA RefillOutMoves ==
    ASSUME StreamSizes, StreamTypes, op = "compress", next_out + avail_out + out_left = size, Stream!RefillOut
    PROVE  /\ avail_out' \in 0 .. Chunk /\ out_left' \in Nat
           /\ next_out' = next_out /\ size' = size
           /\ next_out' + avail_out' + out_left' = size'
<1> USE DEF StreamSizes, StreamTypes
<1>1. CASE avail_out = 0 /\ out_left > 0
    <2>1. Stream!Window(out_left) \in 0 .. Chunk /\ out_left - Stream!Window(out_left) \in Nat
        BY WindowFits
    <2>2. /\ next_out' = size - out_left /\ avail_out' = Stream!Window(out_left)
          /\ out_left' = out_left - Stream!Window(out_left) /\ size' = size
        BY <1>1 DEF Stream!RefillOut
    <2> QED
        BY <1>1, <2>1, <2>2
<1>2. CASE ~(avail_out = 0 /\ out_left > 0)
    <2>1. UNCHANGED <<next_out, avail_out, out_left, size>>
        BY <1>2 DEF Stream!RefillOut
    <2> QED
        BY <2>1
<1> QED
    BY <1>1, <1>2

\* And for Decompress, whose output grows.
LEMMA GrowOutMoves ==
    ASSUME StreamSizes, StreamTypes, Before + (total_out % wide) <= next_out,
           next_out + avail_out <= size, Stream!GrowOut
    PROVE  /\ avail_out' \in 0 .. Chunk /\ size' \in Nat /\ next_out' \in Nat
           /\ next_out' = next_out \/ next_out' = Before + (total_out % wide)
           /\ next_out' + avail_out' <= size'
<1> USE DEF StreamSizes, StreamTypes
<1>1. CASE avail_out = 0
    <2>1. PICK made : made = total_out % wide
        OBVIOUS
    <2>2. made \in Nat /\ Before + made <= next_out
        BY <2>1, RemainderGrows
    <2>3. PICK room : room = 2 * (size - Before) - made
        OBVIOUS
    <2>4. room \in Nat
        BY <1>1, <2>2, <2>3
    <2>5. Stream!Window(room) \in 0 .. Chunk /\ room - Stream!Window(room) \in Nat
        BY <2>4, WindowFits
    <2>6. /\ size' = Before + 2 * (size - Before) /\ next_out' = Before + made
          /\ avail_out' = Stream!Window(room)
        BY <1>1, <2>1, <2>3 DEF Stream!GrowOut, Stream!ULong
    <2>7. next_out' \in Nat /\ next_out' = Before + (total_out % wide) /\ size' \in Nat
        BY <1>1, <2>1, <2>2, <2>6
    <2>8. avail_out' \in 0 .. Chunk /\ avail_out' <= room
        BY <2>4, <2>5, <2>6
    <2> QED
        BY <2>2, <2>3, <2>4, <2>6, <2>7, <2>8
<1>2. CASE avail_out # 0
    <2>1. UNCHANGED <<size, next_out, avail_out>>
        BY <1>2 DEF Stream!GrowOut
    <2> QED
        BY <2>1
<1> QED
    BY <1>1, <1>2

-----------------------------------------------------------------------------
LEMMA StreamStep ==
    ASSUME StreamSizes
    PROVE  StreamInv /\ [Stream!Next]_Stream!vars => StreamInv'
<1> SUFFICES ASSUME StreamInv, [Stream!Next]_Stream!vars PROVE StreamInv'
    OBVIOUS
<1> USE DEF StreamSizes, StreamInv, StreamTypes, Stream!InPlace, InExact, OutExact, OutBelow, FinishLate, EndInv
<1>1. CASE Stream!Zlib
    <2>1. PICK in \in 0 .. avail_in, out \in 0 .. avail_out :
              /\ Stream!Works(in, out)
              /\ total_in' = total_in + in /\ total_out' = total_out + out
              /\ next_in' = next_in + in /\ avail_in' = avail_in - in
              /\ next_out' = next_out + out /\ avail_out' = avail_out - out
              /\ step' = IF whole /\ Stream!LastInput /\ in = avail_in /\ total_out + out = need
                       THEN "end" ELSE "refill"
        BY <1>1 DEF Stream!Zlib
    <2>2. UNCHANGED <<wide, op, n, need, whole, in_left, out_left, size, finish>> /\ step = "zlib"
        BY <1>1 DEF Stream!Zlib, Stream!call
    <2>3. step' = "end" => avail_in' = 0 /\ in_left' = 0 /\ total_out' = need'
        BY <2>1, <2>2 DEF Stream!LastInput
    <2>4. StreamTypes'
        BY <2>1, <2>2 DEF Stream!Works
    <2>5. OutBelow'
        <3>0. total_out \in Nat /\ out \in Nat /\ wide \in Nat \ {0}
            BY <2>1
        <3>1. (total_out + out) % wide <= (total_out % wide) + out
            <4> HIDE DEF StreamInv
            <4> QED
                BY <3>0, RemainderGrows
        <3>2. total_out % wide \in Nat /\ (total_out + out) % wide \in Nat
            BY <2>1, RemainderGrows
        <3>3. total_out' % wide' = (total_out + out) % wide
            BY <2>1, <2>2
        <3> HIDE DEF StreamInv, StreamTypes, Stream!InPlace, InExact, OutExact, FinishLate, EndInv
        <3>4. next_out' = next_out + out /\ op' = op /\ out \in Nat /\ next_out \in Nat
            BY <2>1, <2>2 DEF StreamInv, StreamTypes
        <3> QED
            BY <3>1, <3>2, <3>3, <3>4 DEF StreamInv
    <2>6. Stream!InPlace'
        BY <2>1, <2>2 DEF Stream!InWidth
    <2> QED
        BY <2>1, <2>2, <2>3, <2>4, <2>5, <2>6
<1>2. CASE Stream!Throw
    BY <1>2 DEF Stream!Throw, Stream!call, Stream!InWidth
<1>3. CASE Stream!RefillCompress
    <2>1. /\ UNCHANGED <<wide, op, n, need, whole, total_in, total_out>>
          /\ step = "refill" /\ step' = "zlib" /\ op = "compress"
        BY <1>3 DEF Stream!RefillCompress, Stream!call
    <2>2. /\ avail_in' \in 0 .. Chunk /\ in_left' \in Nat /\ next_in' = next_in
          /\ next_in' + avail_in' + in_left' = n
          /\ finish' \in BOOLEAN /\ (finish' => in_left' = 0)
        BY <1>3, RefillInMoves DEF Stream!RefillCompress
    <2>3. /\ avail_out' \in 0 .. Chunk /\ out_left' \in Nat
          /\ next_out' = next_out /\ size' = size
          /\ next_out' + avail_out' + out_left' = size'
        BY <1>3, <2>1, RefillOutMoves DEF Stream!RefillCompress
    <2>4. Stream!InPlace'
        BY <2>1, <2>2, <2>3 DEF Stream!InWidth
    <2> QED
        BY <2>1, <2>2, <2>3, <2>4
<1>4. CASE Stream!RefillDecompress
    <2>1. /\ UNCHANGED <<wide, op, n, need, whole, out_left, total_in, total_out>>
          /\ step = "refill" /\ step' = "zlib" /\ op = "decompress"
        BY <1>4 DEF Stream!RefillDecompress, Stream!call
    <2>2. /\ avail_in' \in 0 .. Chunk /\ in_left' \in Nat /\ next_in' = next_in
          /\ next_in' + avail_in' + in_left' = n
          /\ finish' \in BOOLEAN /\ (finish' => in_left' = 0)
        BY <1>4, RefillInMoves DEF Stream!RefillDecompress
    <2>3. /\ avail_out' \in 0 .. Chunk /\ size' \in Nat /\ next_out' \in Nat
          /\ next_out' = next_out \/ next_out' = Before + (total_out % wide)
          /\ next_out' + avail_out' <= size'
        BY <1>4, <2>1, GrowOutMoves DEF Stream!RefillDecompress
    <2>4. total_out % wide \in Nat /\ (total_out < wide => total_out % wide = total_out)
        BY RemainderGrows
    <2>5. Stream!InPlace'
        BY <2>1, <2>2, <2>3, <2>4 DEF Stream!InWidth
    <2>6. OutBelow'
        BY <2>1, <2>3, <2>4
    <2> QED
        BY <2>1, <2>2, <2>3, <2>5, <2>6
<1>5. CASE Stream!Finish
    <2>1. /\ UNCHANGED <<wide, op, n, need, whole, next_in, avail_in, in_left, next_out, avail_out,
                         out_left, finish, total_in, total_out>>
          /\ step = "end" /\ step' = "done" /\ size' = Before + (total_out % wide)
        BY <1>5 DEF Stream!Finish, Stream!call, Stream!ULong
    <2>2. total_out % wide \in Nat /\ (total_out < wide => total_out % wide = total_out)
        BY RemainderGrows
    <2> QED
        BY <2>1, <2>2 DEF Stream!InWidth
<1>6. CASE UNCHANGED Stream!vars
    BY <1>6 DEF Stream!vars, Stream!call, Stream!InWidth
<1> QED
    BY <1>1, <1>2, <1>3, <1>4, <1>5, <1>6 DEF Stream!Next

LEMMA StreamAlways ==
    ASSUME StreamSizes
    PROVE  Stream!Spec => []StreamInv
    BY StreamInit, StreamStep, PTL DEF Stream!Spec

-----------------------------------------------------------------------------
\* The state of a call is well formed, and a window never exceeds kChunkLimit
\* (zlib_compressor.cpp:20).
THEOREM StreamTypeCorrect ==
    ASSUME StreamSizes
    PROVE  Stream!Spec => []Stream!TypeOK
<1>1. StreamInv => Stream!TypeOK
    BY DEF StreamSizes, StreamInv, StreamTypes, Stream!TypeOK
<1> QED
    BY <1>1, StreamAlways, PTL

\* zlib is handed every byte of the input once and in order, over any number of windows,
\* and every byte of the output has one place, over as many as uLong can count
\* (zlib_compressor.cpp:61, 71, 109, 122).
THEOREM BytesInPlace ==
    ASSUME StreamSizes
    PROVE  Stream!Spec => []Stream!InPlace
<1>1. StreamInv => Stream!InPlace
    BY DEF StreamInv
<1> QED
    BY <1>1, StreamAlways, PTL

\* Neither window ever leaves its buffer, however far the output has grown
\* and also when total_out has wrapped (zlib_compressor.cpp:50, 122).
THEOREM WindowsAlwaysFit ==
    ASSUME StreamSizes
    PROVE  Stream!Spec => []Stream!WindowsFit
<1>1. StreamInv => Stream!WindowsFit
    BY DEF StreamSizes, StreamInv, StreamTypes, InExact, OutExact, Stream!WindowsFit
<1> QED
    BY <1>1, StreamAlways, PTL

\* A call that returns has taken all of its input and returns all of its result, if uLong
\* can count the sizes: of any size with 64 bits (zlib_compressor.cpp:39, 79, 131).
THEOREM ResultIsWhole ==
    ASSUME StreamSizes
    PROVE  Stream!Spec => []Stream!WholeResult
<1>1. ASSUME StreamInv, step = "done", Stream!InWidth PROVE total_in = n /\ size = Before + need
    <2>1. total_in = n /\ total_out = need /\ size = Before + (total_out % wide)
        BY <1>1 DEF StreamInv, StreamTypes, Stream!InPlace, InExact, EndInv
    <2>2. need < wide /\ need \in Nat /\ wide \in Nat \ {0}
        BY <1>1 DEF StreamSizes, StreamInv, StreamTypes, Stream!InWidth
    <2> QED
        BY <2>1, <2>2, RemainderGrows
<1> QED
    BY <1>1, StreamAlways, PTL DEF Stream!WholeResult

=============================================================================
