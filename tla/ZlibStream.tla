----------------------------- MODULE ZlibStream -----------------------------
(* One call of ZlibCompressor::Compress or ::Decompress                      *)
(* (src/compress/zlib_compressor.cpp): a loop that hands zlib the input and  *)
(* the output one window after the other, since zlib counts a window in 32   *)
(* bits, and refills a window when zlib has used it up. Decompress does not  *)
(* know the size of its result and lets the output grow. zlib's own totals   *)
(* and bounds are of type uLong, which is 32 bits wide on Windows: four      *)
(* windows of 1 GiB, while the strings may be longer.                        *)
(*                                                                           *)
(* zlib is external: a call eats input and makes output until one of the two *)
(* windows is used up, and reports the end of the stream. Only sizes and     *)
(* positions are modelled.                                                   *)
EXTENDS Integers

CONSTANTS
    Ops,       \* of "compress" and "decompress"
    InSizes,   \* in.size()
    OutSizes,  \* the sizes the result may have, known to zlib alone
    Margin,    \* deflateBound: how much longer than its input a result may be
    Before,    \* out.size() at the call
    Chunk,     \* kChunkLimit
    Widths,    \* the builds: how many values uLong has
    MayThrow   \* may zlib find the data wrong?

ASSUME SizesAssumption == /\ Ops \subseteq {"compress", "decompress"}
                          /\ InSizes \cup OutSizes \cup {Margin, Before} \subseteq Nat
ASSUME ChunkAssumption == Chunk \in Nat \ {0} /\ Widths \subseteq Nat \ {0}
ASSUME FlagsAssumption == MayThrow \in BOOLEAN

VARIABLES
    wide,                \* the width of uLong; never changes
    op, n, need, whole,  \* the call: its input's size, its result's, is it whole?
    pc,
    next_in, avail_in, in_left,      \* the input: window and what comes after it
    next_out, avail_out, out_left,   \* the output, for Compress
    size,                            \* out.size()
    finish,                          \* flush = Z_FINISH
    total_in, total_out              \* what zlib has eaten and made, in truth

call == <<wide, op, n, need, whole>>
vars == <<call, pc, next_in, avail_in, in_left, next_out, avail_out, out_left, size,
          finish, total_in, total_out>>

-----------------------------------------------------------------------------
\* kChunkLimit caps what one call of zlib is given.
Window(left) == IF left > Chunk THEN Chunk ELSE left

\* Mutant of FirstFlush: Z_FINISH from the start.
FirstFlushAlways(left) == TRUE

FirstFlush(left) == left = 0

ULong(x) == x % wide

\* deflateBound for Compress, of a uLong and in uLong; four times the input, or 64, for
\* Decompress: here the input's size, or 1, so that it has to grow.
FirstCapacity ==
    IF op = "compress" THEN ULong(ULong(n) + Margin) ELSE IF n = 0 THEN 1 ELSE n

Init ==
    /\ wide \in Widths
    /\ op \in Ops /\ n \in InSizes
    /\ need \in IF op = "compress" THEN OutSizes \cap 1 .. n + Margin ELSE OutSizes
    /\ whole \in BOOLEAN /\ (op = "compress" => whole)
    /\ op = "decompress" /\ n = 0 => ~whole /\ need = 0
    /\ pc = "zlib"
    /\ next_in = 0 /\ avail_in = Window(n) /\ in_left = n - avail_in
    /\ size = Before + FirstCapacity
    /\ next_out = Before /\ avail_out = Window(FirstCapacity)
    /\ out_left = FirstCapacity - avail_out
    /\ finish = FirstFlush(in_left)
    /\ total_in = 0 /\ total_out = 0

-----------------------------------------------------------------------------
(* zlib.                                                                     *)

\* No more input will come, so the rest of the output must.
LastInput == IF op = "compress" THEN finish ELSE in_left = 0

\* zlib eats in and makes out bytes. It stops when it has no room left, or no
\* input, and then, after the last of it, nothing left to write either. The last
\* byte of a compressed stream comes only with Z_FINISH.
Works(in, out) ==
    /\ in <= avail_in /\ out <= avail_out
    /\ total_out + out <= need
    /\ op = "compress" /\ ~(LastInput /\ in = avail_in) => total_out + out < need
    /\ \/ out = avail_out
       \/ in = avail_in /\ (LastInput => total_out + out = need)

Zlib ==
    /\ pc = "zlib"
    /\ \E in \in 0 .. avail_in, out \in 0 .. avail_out :
          /\ Works(in, out)
          /\ total_in' = total_in + in /\ total_out' = total_out + out
          /\ next_in' = next_in + in /\ avail_in' = avail_in - in
          /\ next_out' = next_out + out /\ avail_out' = avail_out - out
          /\ pc' = IF whole /\ LastInput /\ in = avail_in /\ total_out + out = need
                   THEN "end" ELSE "refill"
    /\ UNCHANGED <<call, in_left, out_left, size, finish>>

\* Anything but Z_OK, Z_BUF_ERROR and the end of the stream is thrown.
Throw ==
    /\ MayThrow /\ pc = "zlib"
    /\ pc' = "thrown"
    /\ UNCHANGED <<call, next_in, avail_in, in_left, next_out, avail_out, out_left, size,
                   finish, total_in, total_out>>

-----------------------------------------------------------------------------
(* The windows.                                                              *)

\* Mutant of RefillIn: flush stays as it was.
RefillInUnfinished ==
    LET take == Window(in_left)
    IN IF avail_in = 0 /\ in_left > 0
       THEN /\ next_in' = n - in_left
            /\ avail_in' = take
            /\ in_left' = in_left - take
            /\ UNCHANGED finish
       ELSE UNCHANGED <<next_in, avail_in, in_left, finish>>

RefillIn ==
    LET take == Window(in_left)
    IN IF avail_in = 0 /\ in_left > 0
       THEN /\ next_in' = n - in_left
            /\ avail_in' = take
            /\ in_left' = in_left - take
            /\ finish' = (finish \/ in_left' = 0)
       ELSE UNCHANGED <<next_in, avail_in, in_left, finish>>

RefillOut ==
    LET take == Window(out_left)
    IN IF avail_out = 0 /\ out_left > 0
       THEN /\ next_out' = size - out_left
            /\ avail_out' = take
            /\ out_left' = out_left - take
            /\ UNCHANGED size
       ELSE UNCHANGED <<next_out, avail_out, out_left, size>>

\* Decompress doubles its output, even when only the window was used up.
GrowOut ==
    LET out_cap  == 2 * (size - Before)
        produced == ULong(total_out)
    IN IF avail_out = 0
       THEN /\ size' = Before + out_cap
            /\ next_out' = Before + produced
            /\ avail_out' = Window(out_cap - produced)
       ELSE UNCHANGED <<size, next_out, avail_out>>

RefillCompress ==
    /\ pc = "refill" /\ op = "compress"
    /\ RefillIn /\ RefillOut
    /\ pc' = "zlib"
    /\ UNCHANGED <<call, total_in, total_out>>

RefillDecompress ==
    /\ pc = "refill" /\ op = "decompress"
    /\ RefillIn /\ GrowOut
    /\ pc' = "zlib"
    /\ UNCHANGED <<call, out_left, total_in, total_out>>

\* The output is cut to what zlib says it has made of it.
Finish ==
    /\ pc = "end"
    /\ size' = Before + ULong(total_out)
    /\ pc' = "done"
    /\ UNCHANGED <<call, next_in, avail_in, in_left, next_out, avail_out, out_left,
                   finish, total_in, total_out>>

Next == Zlib \/ Throw \/ RefillCompress \/ RefillDecompress \/ Finish

Spec == Init /\ [][Next]_vars

\* The calling thread goes on.
FairSpec == Spec /\ WF_vars(Next)

-----------------------------------------------------------------------------
TypeOK ==
    /\ pc \in {"zlib", "refill", "end", "done", "thrown"}
    /\ {avail_in, avail_out} \subseteq 0 .. Chunk
    /\ {next_in, in_left, next_out, out_left, size, total_in, total_out} \subseteq Nat
    /\ finish \in BOOLEAN /\ whole \in BOOLEAN

\* The sizes that uLong can count: all of them where it has 64 bits, and up to four
\* windows where it has 32.
InWidth == IF op = "compress" THEN n + Margin < wide ELSE need < wide

\* zlib reads every byte of the input once and in order, and writes its output
\* behind what was there and without a gap, across the windows of 1 GiB that no
\* test fills (zlib_compressor.cpp:20, compress_smoke.cpp:70), as long as its
\* totals do not wrap. Once they do, Decompress writes over what it has written.
InPlace ==
    /\ next_in = total_in
    /\ InWidth => next_out = Before + total_out

\* Both windows lie in their buffers, and what zlib has not had is still to come:
\* also when a total has wrapped, nothing is written outside.
WindowsFit ==
    /\ next_in + avail_in + in_left = n
    /\ pc # "done" => next_out + avail_out + (IF op = "compress" THEN out_left ELSE 0) <= size

\* The result is all of the result, appended, and stands for all of the input.
WholeResult == pc = "done" /\ InWidth => total_in = n /\ size = Before + need

\* Over all windows, a call ends, with its result or an exception, if the stream it
\* is given is whole and its totals do not wrap.
CallEnds == whole /\ InWidth => <>(pc \in {"done", "thrown"})

\* Every call ends: a stream that cannot be decompressed is thrown
\* (shard_reader.h:18). The loop takes Z_BUF_ERROR for progress and does not.
EveryCallEnds == <>(pc \in {"done", "thrown"})

=============================================================================
