---------------------------- MODULE LogPipeline ----------------------------
(* One log call from LogHandle::Log_ through the handle's sinks              *)
(* (src/handle/log_handle.cpp): ConsoleSink (src/sinks/console_sink.cpp) and *)
(* the stages of EffectiveSink (src/sinks/effective_sink.cpp), which share   *)
(* four buffers under pipeline_mu_ and one nonce counter in AesGcmCipher     *)
(* (src/crypt/aes_gcm_cipher.cpp). MmapStore is what Append promises: it     *)
(* takes the frame or, under back-pressure, refuses it.                      *)
(*                                                                           *)
(* Levels are left out: a call here is one that ShouldLog lets through.      *)
EXTENDS Integers, Sequences, FiniteSets, SequencesExt, Functions

CONSTANTS
    Threads,      \* the application's threads
    Records,      \* the messages, each logged by at most one call
    NoRecord, NoThread,
    Sinks,        \* sinks_: a sequence of "console" and "effective"
    Counters,     \* 2^32: the values of the 32-bit nonce counter
    Start,        \* the counter's value when the run begins
    CanThrow      \* may formatting, compression or encryption throw?

ASSUME SinksAssumption   == Sinks \in Seq({"console", "effective"})
ASSUME CounterAssumption == Counters \in Nat \ {0} /\ Start \in 0 .. Counters-1
ASSUME FlagsAssumption   == CanThrow \in BOOLEAN
ASSUME NoneAssumption    == NoRecord \notin Records /\ NoThread \notin Threads

VARIABLES
    pc, rec, at,  \* each thread: its step, its message, the sink it is in
    mtx,          \* who holds pipeline_mu_
    buf,          \* the message that is in the shared buffers
    nonce,        \* the nonce in buf_encrypted_
    counter,      \* counter_
    printed,      \* what ConsoleSink has written
    stored,       \* the frames that MmapStore has accepted
    used,         \* ghost: the nonces encrypted with, in order
    exhausted,    \* ghost: some call has been refused a nonce
    thrown        \* ghost: the messages whose call has ended in an exception

vars == <<pc, rec, at, mtx, buf, nonce, counter, printed, stored, used, exhausted, thrown>>

-----------------------------------------------------------------------------
Init ==
    /\ pc = [t \in Threads |-> "idle"]
    /\ rec = [t \in Threads |-> NoRecord]
    /\ at = [t \in Threads |-> 0]
    /\ mtx = NoThread /\ buf = NoRecord /\ nonce = 0
    /\ counter = Start
    /\ printed = << >> /\ stored = << >> /\ used = << >>
    /\ exhausted = FALSE /\ thrown = {}

Logged == ToSet(printed) \cup {f.rec : f \in ToSet(stored)} \cup thrown
          \cup {rec[t] : t \in Threads} \cup {buf}

At(t, kind) == pc[t] = "sink" /\ at[t] <= Len(Sinks) /\ Sinks[at[t]] = kind

Call(t) ==
    /\ pc[t] = "idle"
    /\ \E r \in Records \ Logged : rec' = [rec EXCEPT ![t] = r]
    /\ pc' = [pc EXCEPT ![t] = "sink"]
    /\ at' = [at EXCEPT ![t] = 1]
    /\ UNCHANGED <<mtx, buf, nonce, counter, printed, stored, used, exhausted, thrown>>

Return(t) ==
    /\ pc[t] = "sink"
    /\ at[t] > Len(Sinks)
    /\ pc' = [pc EXCEPT ![t] = "idle"]
    /\ rec' = [rec EXCEPT ![t] = NoRecord]
    /\ at' = [at EXCEPT ![t] = 0]
    /\ UNCHANGED <<mtx, buf, nonce, counter, printed, stored, used, exhausted, thrown>>

\* Mutant of Throw: pipeline_mu_ is left locked.
ThrowLocked(t) ==
    /\ pc' = [pc EXCEPT ![t] = "idle"]
    /\ rec' = [rec EXCEPT ![t] = NoRecord]
    /\ at' = [at EXCEPT ![t] = 0]
    /\ mtx' = mtx
    /\ thrown' = thrown \cup {rec[t]}

\* An exception: the lock is given back, the loop over the sinks is left, and the
\* caller of Log gets it.
Throw(t) ==
    /\ pc' = [pc EXCEPT ![t] = "idle"]
    /\ rec' = [rec EXCEPT ![t] = NoRecord]
    /\ at' = [at EXCEPT ![t] = 0]
    /\ mtx' = NoThread
    /\ thrown' = thrown \cup {rec[t]}

-----------------------------------------------------------------------------
\* The line is formatted in a buffer of the call's own and written under mutex_.
ConsoleLog(t) ==
    /\ At(t, "console")
    /\ printed' = Append(printed, rec[t])
    /\ at' = [at EXCEPT ![t] = @ + 1]
    /\ UNCHANGED <<pc, rec, mtx, buf, nonce, counter, stored, used, exhausted, thrown>>

-----------------------------------------------------------------------------
\* Mutant of Lock: pipeline_mu_ may be held.
LockAnyway(t) ==
    /\ At(t, "effective")
    /\ mtx' = t
    /\ buf' = NoRecord
    /\ pc' = [pc EXCEPT ![t] = "format"]
    /\ UNCHANGED <<rec, at, nonce, counter, printed, stored, used, exhausted, thrown>>

\* pipeline_mu_ is taken and the four buffers are cleared.
Lock(t) ==
    /\ At(t, "effective")
    /\ mtx = NoThread
    /\ mtx' = t
    /\ buf' = NoRecord
    /\ pc' = [pc EXCEPT ![t] = "format"]
    /\ UNCHANGED <<rec, at, nonce, counter, printed, stored, used, exhausted, thrown>>

Format(t) ==
    /\ pc[t] = "format"
    /\ \/ /\ buf' = rec[t]
          /\ pc' = [pc EXCEPT ![t] = "compress"]
          /\ UNCHANGED <<rec, at, mtx, thrown>>
       \/ CanThrow /\ Throw(t) /\ UNCHANGED buf
    /\ UNCHANGED <<nonce, counter, printed, stored, used, exhausted>>

\* Compress reads one buffer and fills the next.
Compress(t) ==
    /\ pc[t] = "compress"
    /\ \/ /\ pc' = [pc EXCEPT ![t] = "nonce"]
          /\ UNCHANGED <<rec, at, mtx, thrown>>
       \/ CanThrow /\ Throw(t)
    /\ UNCHANGED <<buf, nonce, counter, printed, stored, used, exhausted>>

\* Mutant of BuildNonce: the counter is read and not moved on.
BuildNonceUncounted(t) ==
    /\ pc[t] = "nonce"
    /\ nonce' = counter
    /\ pc' = [pc EXCEPT ![t] = "encrypt"]
    /\ UNCHANGED <<rec, at, mtx, buf, counter, printed, stored, used, exhausted, thrown>>

\* BuildNonce_: fetch_add on 32 bits; only the very last value is refused.
BuildNonce(t) ==
    /\ pc[t] = "nonce"
    /\ counter' = (counter + 1) % Counters
    /\ IF counter = Counters - 1
       THEN /\ Throw(t)
            /\ exhausted' = TRUE
            /\ UNCHANGED nonce
       ELSE /\ nonce' = counter
            /\ pc' = [pc EXCEPT ![t] = "encrypt"]
            /\ UNCHANGED <<rec, at, mtx, exhausted, thrown>>
    /\ UNCHANGED <<buf, printed, stored, used>>

\* The cipher runs; the nonce is spent even if it throws afterwards.
Encrypt(t) ==
    /\ pc[t] = "encrypt"
    /\ used' = Append(used, nonce)
    /\ \/ /\ pc' = [pc EXCEPT ![t] = "append"]
          /\ UNCHANGED <<rec, at, mtx, thrown>>
       \/ CanThrow /\ Throw(t)
    /\ UNCHANGED <<buf, nonce, counter, printed, stored, exhausted>>

\* The frame goes to MmapStore, which may refuse it; that is logged and no more.
AppendFrame(t) ==
    /\ pc[t] = "append"
    /\ \/ stored' = Append(stored, [rec |-> buf, nonce |-> nonce, by |-> t, own |-> rec[t]])
       \/ UNCHANGED stored
    /\ mtx' = NoThread
    /\ pc' = [pc EXCEPT ![t] = "sink"]
    /\ at' = [at EXCEPT ![t] = @ + 1]
    /\ UNCHANGED <<rec, buf, nonce, counter, printed, used, exhausted, thrown>>

-----------------------------------------------------------------------------
Step(t) ==
    \/ Return(t) \/ ConsoleLog(t) \/ Lock(t) \/ Format(t) \/ Compress(t)
    \/ BuildNonce(t) \/ Encrypt(t) \/ AppendFrame(t)

Next == \E t \in Threads : Call(t) \/ Step(t)

Spec == Init /\ [][Next]_vars

\* Threads run, and pipeline_mu_ is not withheld from one for ever.
FairSpec == Spec /\ \A t \in Threads : SF_vars(Step(t))

-----------------------------------------------------------------------------
Inside == {"format", "compress", "nonce", "encrypt", "append"}

TypeOK ==
    /\ pc \in [Threads -> {"idle", "sink"} \cup Inside]
    /\ rec \in [Threads -> Records \cup {NoRecord}]
    /\ at \in [Threads -> 0 .. Len(Sinks) + 1]
    /\ mtx \in Threads \cup {NoThread}
    /\ buf \in Records \cup {NoRecord}
    /\ nonce \in 0 .. Counters-1 /\ counter \in 0 .. Counters-1
    /\ printed \in Seq(Records)
    /\ stored \in Seq([rec : Records, nonce : 0 .. Counters-1, by : Threads, own : Records])
    /\ used \in Seq(0 .. Counters-1)
    /\ exhausted \in BOOLEAN
    /\ thrown \subseteq Records

\* A frame holds the message of the call that appended it, in spite of the shared
\* buffers and of calls that leave the pipeline half-way (README.md:120).
FrameIsOwn == \A i \in DOMAIN stored : stored[i].rec = stored[i].own

\* Frames reach MmapStore in the order of their nonces, and no nonce serves twice,
\* as long as no call has been refused one.
NoncesAscend ==
    ~exhausted =>
        /\ \A i, j \in DOMAIN used : i < j => used[i] < used[j]
        /\ \A i, j \in DOMAIN stored : i < j => stored[i].nonce < stored[j].nonce

\* No nonce ever serves twice under one key: the counter refuses to wrap
\* (aes_gcm_cipher.cpp:42).
NonceOnce == IsInjective(used)

\* Every call of Log ends, normally or with an exception: none leaves pipeline_mu_
\* locked behind it (effective_sink_smoke.cpp:437).
CallsEnd == \A t \in Threads : pc[t] # "idle" ~> pc[t] = "idle"

=============================================================================
