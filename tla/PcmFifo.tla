------------------------------ MODULE PcmFifo ------------------------------
(***************************************************************************)
(* What the inference worker relies on from its pending-audio buffer: a    *)
(* bounded first-in first-out sequence of PCM samples.  Nothing here says  *)
(* where a sample is stored.  DirectPcm16RingBuffer implements it (module  *)
(* PcmRingBuffer).                                                         *)
(***************************************************************************)
EXTENDS Integers, Sequences

CONSTANTS
    Capacity,       \* most samples held at once (capacitySamples)
    Sample,         \* the PCM16 values
    MaxSource       \* longest source buffer handed to append

VARIABLES
    contents,       \* the samples held, oldest first
    result,         \* how the last call ended: "returned" or "threw"
    call            \* that call: its name, source buffer and count

vars == <<contents, result, call>>

(* Legal counts and, for the rejections, one below and one above them. *)
Counts == -1..(Capacity + 1)
Sources == UNION {[1..k -> Sample] : k \in 0..MaxSource}

Calls == {"none", "append", "discardFirst", "clear"} \X Sources \X Counts
NoCall == <<"none", <<>>, 0>>

Init == contents = <<>> /\ result = "returned" /\ call = NoCall

(* Keeps the first n samples of src, or throws when they do not fit. *)
AppendSamples(src, n) ==
    /\ call' = <<"append", src, n>>
    /\ IF n \in 0..Len(src) /\ n <= Capacity - Len(contents)
       THEN /\ contents' = contents \o SubSeq(src, 1, n)
            /\ result' = "returned"
       ELSE result' = "threw" /\ UNCHANGED contents

DiscardFirst(n) ==
    /\ call' = <<"discardFirst", <<>>, n>>
    /\ IF n \in 0..Len(contents)
       THEN /\ contents' = SubSeq(contents, n + 1, Len(contents))
            /\ result' = "returned"
       ELSE result' = "threw" /\ UNCHANGED contents

Clear ==
    /\ call' = <<"clear", <<>>, 0>>
    /\ contents' = <<>>
    /\ result' = "returned"

Next ==
    \/ \E src \in Sources, n \in Counts : AppendSamples(src, n)
    \/ \E n \in Counts : DiscardFirst(n)
    \/ Clear

Spec == Init /\ [][Next]_vars
=============================================================================
