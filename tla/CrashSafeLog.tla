---------------------------- MODULE CrashSafeLog ----------------------------
(* What EffectiveSink promises to one thread that logs through it, over any  *)
(* number of processes on one log directory (src/sinks/effective_sink.h,     *)
(* src/mmap/mmap_store.h): a log that grows at its end, of which ever more   *)
(* is on disk. A crash costs the rest and nothing else, and Flush returns    *)
(* when everything logged before it is on disk, save what a failed write has *)
(* taken. A failure may take what is not on disk, at once or later through   *)
(* the shard it has damaged, and may void the Flush that it happens in.      *)
EXTENDS Integers, Sequences, SequencesExt

CONSTANTS Entries, NoTarget

VARIABLES
    log,       \* the records accepted that no crash and no failure has taken
    durable,   \* how many of them are on disk
    target,    \* the records that the Flush in progress is for
    faults     \* how many calls have failed

vars == <<log, durable, target, faults>>

OnDisk == SubSeq(log, 1, durable)

Without(s, es) ==
    FlattenSeq([i \in DOMAIN s |-> IF s[i] \in es THEN << >> ELSE <<s[i]>>])

Init == log = << >> /\ durable = 0 /\ target = NoTarget /\ faults = 0

Accept ==
    /\ \E e \in Entries : log' = Append(log, e)
    /\ UNCHANGED <<durable, target, faults>>

Persist ==
    /\ durable' \in durable + 1 .. Len(log)
    /\ UNCHANGED <<log, target, faults>>

FlushCall ==
    /\ target = NoTarget
    /\ target' = ToSet(log)
    /\ UNCHANGED <<log, durable, faults>>

FlushReturn ==
    /\ target # NoTarget /\ target \cap ToSet(log) \subseteq ToSet(OnDisk)
    /\ target' = NoTarget
    /\ UNCHANGED <<log, durable, faults>>

Crash ==
    /\ log' = OnDisk
    /\ target' = NoTarget
    /\ UNCHANGED <<durable, faults>>

\* Some of what is not on disk is lost; what is left keeps its order.
Loses ==
    /\ \E lost \in SUBSET (ToSet(log) \ ToSet(OnDisk)) :
          log' = Without(log, lost)
    /\ durable' \in durable .. Len(log')

Fault ==
    /\ faults' = faults + 1
    /\ Loses
    /\ target' = target \/ (target # NoTarget /\ target' = {})

\* What a fault has damaged takes later records as well.
Aftermath ==
    /\ faults > 0
    /\ Loses
    /\ UNCHANGED <<target, faults>>

Next == Accept \/ Persist \/ FlushCall \/ FlushReturn \/ Crash \/ Fault \/ Aftermath

Spec == Init /\ [][Next]_vars

=============================================================================
