--------------------------- MODULE PcmRingBuffer ---------------------------
(***************************************************************************)
(* DirectPcm16RingBuffer: the pending audio of one inference worker, kept  *)
(* in place in a direct buffer and handed to native code as two segments.  *)
(* Positions are counted in samples; the code multiplies by Short.BYTES.   *)
(***************************************************************************)
EXTENDS Integers, Sequences

CONSTANTS
    Capacity,       \* capacitySamples
    Sample,         \* the PCM16 values
    Silence,        \* what allocateDirect fills the storage with
    MaxSource       \* longest source buffer handed to append

ASSUME CapacityAssumption == Capacity \in Nat \ {0}
ASSUME SampleAssumption == Silence \in Sample
ASSUME MaxSourceAssumption == MaxSource \in Nat

VARIABLES
    storage,        \* the direct buffer, one entry per sample
    headSample,     \* where the oldest valid sample is
    sizeSamples,    \* number of valid samples
    result,         \* how the last call ended: "returned" or "threw"
    call            \* that call: its name, source buffer and count

vars == <<storage, headSample, sizeSamples, result, call>>

Slots == 0..(Capacity - 1)
Sources == UNION {[1..k -> Sample] : k \in 0..MaxSource}
(* Callers pass a count the two guards must judge: one below and one above *)
(* the legal range is enough to reach every rejection.                     *)
Counts == -1..(Capacity + 1)
Calls == {"none", "append", "discardFirst", "clear"} \X Sources \X Counts
NoCall == <<"none", <<>>, 0>>
Smaller(a, b) == IF a <= b THEN a ELSE b

Init ==
    /\ storage = [i \in Slots |-> Silence]
    /\ headSample = 0
    /\ sizeSamples = 0
    /\ result = "returned"
    /\ call = NoCall

(* copyBytes: n samples of src, from offset so, written from offset do. *)
CopyBytes(src, so, dst, do, n) ==
    [i \in Slots |-> IF i \in do..(do + n - 1) THEN src[so + i - do + 1] ELSE dst[i]]

Throw == result' = "threw" /\ UNCHANGED <<storage, headSample, sizeSamples>>

(* Bug: the tail position is not wrapped. *)
AppendUnwrapped(src, n) ==
    /\ n \in 0..Len(src) /\ n <= Capacity - sizeSamples
    /\ call' = <<"append", src, n>>
    /\ storage' = CopyBytes(src, 0, storage, headSample + sizeSamples, n)
    /\ sizeSamples' = sizeSamples + n
    /\ result' = "returned"
    /\ UNCHANGED headSample

AppendSamples(src, n) ==
    LET tailSample == (headSample + sizeSamples) % Capacity
        firstSamples == Smaller(n, Capacity - tailSample)
        secondSamples == n - firstSamples
    IN  /\ call' = <<"append", src, n>>
        /\ IF n \in 0..Len(src) /\ n <= Capacity - sizeSamples
           THEN /\ storage' = CopyBytes(src, firstSamples,
                                  CopyBytes(src, 0, storage, tailSample, firstSamples),
                                  0, secondSamples)
                /\ sizeSamples' = sizeSamples + n
                /\ result' = "returned"
                /\ UNCHANGED headSample
           ELSE Throw

DiscardFirst(n) ==
    /\ call' = <<"discardFirst", <<>>, n>>
    /\ IF n \in 0..sizeSamples
       THEN /\ sizeSamples' = sizeSamples - n
            /\ headSample' = IF sizeSamples - n = 0 THEN 0 ELSE (headSample + n) % Capacity
            /\ result' = "returned"
            /\ UNCHANGED storage
       ELSE Throw

Clear ==
    /\ call' = <<"clear", <<>>, 0>>
    /\ headSample' = 0
    /\ sizeSamples' = 0
    /\ result' = "returned"
    /\ UNCHANGED storage

Next ==
    \/ \E src \in Sources, n \in Counts : AppendSamples(src, n)
    \/ \E n \in Counts : DiscardFirst(n)
    \/ Clear

Spec == Init /\ [][Next]_vars

-----------------------------------------------------------------------------
(* The two segments of a window of n samples, as passed to the bridge:     *)
(* firstByteOffset, firstSampleCount, secondByteOffset, secondSampleCount. *)
FirstOffset == headSample
(* Bug: the first segment runs past the end of the storage. *)
FirstSampleCountNoWrap(n) == n
FirstSampleCount(n) == Smaller(n, Capacity - headSample)
SecondOffset == 0
SecondSampleCount(n) == n - FirstSampleCount(n)

Segment(offset, n) == [i \in 1..n |-> storage[offset + i - 1]]

(* What native code reads for a window of n samples. *)
Window(n) == Segment(FirstOffset, FirstSampleCount(n))
                 \o Segment(SecondOffset, SecondSampleCount(n))

(* The samples the ring holds, oldest first. *)
Contents == [i \in 1..sizeSamples |-> storage[(headSample + i - 1) % Capacity]]

Fifo == INSTANCE PcmFifo WITH contents <- Contents

-----------------------------------------------------------------------------
(* head and size stay inside the storage after every call of the buffer. *)
TypeOK ==
    /\ storage \in [Slots -> Sample]
    /\ headSample \in Slots
    /\ sizeSamples \in 0..Capacity
    /\ result \in {"returned", "threw"}
    /\ call \in Calls

(* Whatever appends, partial discards and wrap-arounds came before, the    *)
(* two segments transcribeNextWindow passes to native code are inside the  *)
(* storage and hold, in order, the oldest n samples.                       *)
WindowIsOldest ==
    \A n \in 0..sizeSamples :
        /\ FirstOffset + FirstSampleCount(n) <= Capacity
        /\ SecondOffset + SecondSampleCount(n) <= headSample
        /\ Window(n) = SubSeq(Contents, 1, n)

(* The ring implements the bounded FIFO: an append adds the samples at the *)
(* end, a discard removes the oldest, and a call that throws changes       *)
(* nothing.                                                                *)
ImplementsFifo == Fifo!Spec

=============================================================================
