------------------ MODULE WhisperTranscriptionWorkerProofs ------------------
(***************************************************************************)
(* Proofs about WhisperTranscriptionWorker, for every window, overlap,     *)
(* queue capacity and chunk size the assumptions allow: the pending ring   *)
(* is never found full; audio is accepted only while the thread still      *)
(* reads its queue; every chunk has one owner; accepted audio is kept      *)
(* until a result covers it; consecutive results overlap as configured;    *)
(* and start positions are right until audio is left out, and then lag by  *)
(* exactly that much.                                                      *)
(***************************************************************************)
EXTENDS WhisperTranscriptionWorker, SequenceTheorems, FiniteSetTheorems, TLAPS

(* Where the thread waits for, takes or has finished a chunk, less than a  *)
(* window is pending; the chunk in hand came from submit.                  *)
RingInv ==
    /\ pendingAudio \in Seq(Int)
    /\ audioQueue \in Seq(ChunkSet)
    /\ recorded \in Nat /\ recorded >= InitialSamples
    /\ pc \in {"new", "open", "poll", "append", "check"} => Len(pendingAudio) < Window
    /\ pc = "append" => chunk \in ChunkSet

LEMMA ConstantFacts ==
    /\ Window \in Nat /\ Window >= 1 /\ MaxChunk \in Nat
    /\ MaxChunk >= 1 /\ MaxChunk <= Window + SampleRate
    /\ SampleRate \in Nat /\ InitialSamples \in Nat /\ MaxRecorded \in Nat
    /\ Overlap \in Nat
BY WindowAssumption, OverlapAssumption, RateAssumption, ChunkAssumption, InitialAssumption,
   BoundAssumption

(* A chunk of n samples from position p is a sequence of n positions. *)
LEMMA AsSequenceType ==
    ASSUME NEW c \in ChunkSet
    PROVE  AsSequence(c) \in Seq(Int) /\ Len(AsSequence(c)) = c.count
<1>1. c.from \in Int /\ c.count \in Nat
  BY ConstantFacts DEF ChunkSet
<1>2. \A i \in 1..c.count : c.from + i - 1 \in Int
  BY <1>1
<1> QED BY <1>1, <1>2 DEF AsSequence

(* submit is three steps, and holds the monitor of the worker between them: *)
(* while it does, the worker accepts audio and room is left for its chunk. *)
SubInv ==
    /\ SubmittingOK
    /\ recorded \in Nat /\ recorded >= InitialSamples
    /\ submitting.at # "out" => running /\ acceptingAudio /\ pc # "new"

LEMMA SubStep == SubInv /\ [Next]_vars => SubInv'
<1> SUFFICES ASSUME SubInv, [Next]_vars PROVE SubInv'
  OBVIOUS
<1> USE DEF SubInv, SubmittingOK
<1>1. CASE Start
  BY <1>1 DEF Start, delivery
<1>2. ASSUME NEW n \in 1..MaxChunk, Submit(n) PROVE SubInv'
  <2>1. n \in 0..MaxChunk /\ n \in Nat /\ n >= 1 /\ recorded + n <= InitialSamples + MaxRecorded
    BY <1>2, ConstantFacts DEF Submit
  <2>2. UNCHANGED <<running, acceptingAudio, pc>> /\ pc # "new" /\ submitting = NotSubmitting
    BY <1>2 DEF Submit, flags
  <2>3. \/ recorded' = recorded + n /\ UNCHANGED submitting
        \/ /\ running /\ acceptingAudio /\ UNCHANGED recorded
           /\ submitting' = [at |-> "evict", count |-> n]
    BY <1>2 DEF Submit, Refuse, Enqueue
  <2> QED BY <2>1, <2>2, <2>3, ConstantFacts DEF NotSubmitting
<1>3. CASE SubmitEvict
  BY <1>3 DEF SubmitEvict, flags
<1>4. CASE SubmitAgain
  <2>1. recorded' = recorded + submitting.count /\ submitting' = NotSubmitting
    BY <1>4 DEF SubmitAgain, Refuse, Enqueue
  <2> QED BY <2>1, ConstantFacts DEF NotSubmitting
<1>5. CASE RequestStop
  BY <1>5 DEF RequestStop, delivery, NotSubmitting
<1>6. CASE ResumeAudioSubmission
  BY <1>6 DEF ResumeAudioSubmission, delivery, NotSubmitting
<1>7. CASE WorkerStep
  <2>1. UNCHANGED <<submitting, recorded>>
    BY <1>7 DEF WorkerStep, OpenModel, TakeChunk, PollEmpty, AppendChunk, TranscribeWindow,
                WindowsDone, BeginTerminationIfDrained, TranscribeRemaining, TranscribeFails,
                OutputError, Finally, PublishStopped, delivery
  <2>2. CASE submitting = NotSubmitting
    BY <2>1, <2>2 DEF NotSubmitting
  <2>3. CASE OpenModel \/ TakeChunk \/ PollEmpty \/ AppendChunk
    <3>1. UNCHANGED <<running, acceptingAudio>> /\ pc' # "new"
      BY <2>3 DEF OpenModel, TakeChunk, PollEmpty, AppendChunk, Fail, flags
    <3> QED BY <2>1, <3>1
  <2>4. CASE \/ TranscribeWindow \/ WindowsDone \/ TranscribeRemaining \/ TranscribeFails
             \/ OutputError \/ PublishStopped
    <3>1. UNCHANGED <<running, acceptingAudio>> /\ pc' # "new"
      BY <2>4 DEF TranscribeWindow, WindowsDone, TranscribeRemaining, TranscribeFails,
                  OutputError, PublishStopped, Fail, flags
    <3> QED BY <2>1, <3>1
  <2> QED BY <1>7, <2>2, <2>3, <2>4 DEF WorkerStep, BeginTerminationIfDrained, Finally
<1>8. CASE UNCHANGED vars
  BY <1>8 DEF vars, delivery, flags
<1> QED BY <1>1, <1>2, <1>3, <1>4, <1>5, <1>6, <1>7, <1>8 DEF Next

LEMMA SubInvariance == Spec => []SubInv
<1>1. Init => SubInv
  BY ConstantFacts DEF Init, SubInv, SubmittingOK, NotSubmitting
<1> QED BY <1>1, SubStep, PTL DEF Spec

(* What a step of submit does to the chunks: nothing, or the recorder's    *)
(* next chunk is refused or enters the queue, or the oldest chunk leaves.  *)
SubmitStep == (\E n \in 1..MaxChunk : Submit(n)) \/ SubmitEvict \/ SubmitAgain

Frame == UNCHANGED <<flags, stream, pc, mode, chunk, failed, stopEvents>>
Idle == UNCHANGED <<audioQueue, recorded, accepted, overflowed, closed>>
Delivered(n) ==
    /\ recorded + n <= InitialSamples + MaxRecorded
    /\ Refuse(n) \/ (running /\ acceptingAudio /\ HasRoom /\ Enqueue(n))
    /\ UNCHANGED <<overflowed, closed>>
Evicted ==
    /\ running /\ acceptingAudio /\ audioQueue # <<>>
    /\ audioQueue' = Tail(audioQueue)
    /\ overflowed' = overflowed \cup {Head(audioQueue)}
    /\ closed' = closed \cup {Head(audioQueue)}
    /\ UNCHANGED <<recorded, accepted>>

LEMMA SubmitCases ==
    ASSUME SubInv, SubmitStep
    PROVE  /\ Frame /\ pc # "new"
           /\ Idle \/ (\E n \in 1..MaxChunk : Delivered(n)) \/ Evicted
<1>1. ASSUME NEW n \in 1..MaxChunk, Submit(n)
      PROVE  Frame /\ pc # "new" /\ (Idle \/ Delivered(n))
  <2>1. Frame /\ pc # "new"
    BY <1>1 DEF Submit, Frame
  <2>2. Idle \/ Delivered(n)
    BY <1>1, Zenon DEF Submit, Refuse, Idle, Delivered
  <2> QED BY <2>1, <2>2
<1>2. CASE SubmitEvict
  BY <1>2 DEF SubmitEvict, Frame, Idle, Evicted, SubInv
<1>3. CASE SubmitAgain
  <2> DEFINE n == submitting.count
  <2>1. n \in 1..MaxChunk /\ recorded + n <= InitialSamples + MaxRecorded
    BY <1>3, ConstantFacts DEF SubmitAgain, SubInv, SubmittingOK
  <2>2. running /\ acceptingAudio /\ pc # "new" /\ Frame
    BY <1>3 DEF SubmitAgain, SubInv, Frame
  <2>3. Delivered(n)
    BY <1>3, <2>1, <2>2 DEF SubmitAgain, Delivered
  <2> QED BY <2>1, <2>2, <2>3
<1> QED BY <1>1, <1>2, <1>3 DEF SubmitStep

LEMMA DeliveredChunk ==
    ASSUME SubInv, NEW n \in 1..MaxChunk, Delivered(n)
    PROVE  /\ [from |-> recorded, count |-> n] \in ChunkSet
           /\ recorded + n \in Nat /\ recorded + n >= InitialSamples
<1>1. /\ recorded \in Nat /\ recorded >= InitialSamples /\ n \in Nat /\ n >= 1
      /\ recorded + n <= InitialSamples + MaxRecorded
  BY ConstantFacts DEF Delivered, SubInv
<1>2. recorded \in 0..(InitialSamples + MaxRecorded)
  BY <1>1, ConstantFacts
<1> QED BY <1>1, <1>2, ConstantFacts DEF ChunkSet

(* What follows a transcribed window in the pending audio is a sequence. *)
LEMMA DiscardType ==
    ASSUME pendingAudio \in Seq(Int)
    PROVE  SubSeq(pendingAudio, DiscardSamples + 1, Len(pendingAudio)) \in Seq(Int)
<1>1. DiscardSamples \in Nat /\ DiscardSamples >= 1
  BY ConstantFacts, OverlapAssumption DEF DiscardSamples, Larger
<1>2. \A i \in (DiscardSamples + 1)..Len(pendingAudio) : pendingAudio[i] \in Int
  BY <1>1
<1> QED BY <1>1, <1>2, SubSeqProperties

LEMMA RingStep == SubInv /\ RingInv /\ [Next]_vars => RingInv'
<1> SUFFICES ASSUME SubInv, RingInv, [Next]_vars PROVE RingInv'
  OBVIOUS
<1> USE DEF RingInv
<1>1. CASE Start
  BY <1>1 DEF Start, stream, delivery
<1>2. CASE SubmitStep
  <2>1. UNCHANGED <<pendingAudio, pc, chunk>>
    BY <1>2, SubmitCases DEF Frame, stream
  <2>2. CASE Idle
    BY <2>1, <2>2 DEF Idle
  <2>3. ASSUME NEW n \in 1..MaxChunk, Delivered(n) PROVE RingInv'
    <3> DEFINE c == [from |-> recorded, count |-> n]
    <3>1. c \in ChunkSet /\ recorded + n \in Nat /\ recorded + n >= InitialSamples
      BY <2>3, DeliveredChunk
    <3>2. audioQueue' = audioQueue \/ audioQueue' = Append(audioQueue, c)
      BY <2>3 DEF Delivered, Refuse, Enqueue
    <3>3. recorded' = recorded + n
      BY <2>3 DEF Delivered, Refuse, Enqueue
    <3> HIDE DEF c
    <3>4. audioQueue' \in Seq(ChunkSet)
      <4>1. audioQueue \in Seq(ChunkSet) /\ c \in ChunkSet
        BY <3>1
      <4> HIDE DEF RingInv
      <4>2. Append(audioQueue, c) \in Seq(ChunkSet)
        BY <4>1
      <4> QED BY <3>2, <4>1, <4>2
    <3> QED BY <2>1, <3>1, <3>3, <3>4
  <2>4. CASE Evicted
    <3>1. Tail(audioQueue) \in Seq(ChunkSet)
      BY <2>4 DEF Evicted
    <3> QED BY <2>1, <2>4, <3>1 DEF Evicted
  <2> QED BY <1>2, <2>2, <2>3, <2>4, SubmitCases
<1>3. CASE RequestStop
  BY <1>3 DEF RequestStop, stream, delivery
<1>4. CASE ResumeAudioSubmission
  BY <1>4 DEF ResumeAudioSubmission, stream, delivery
<1>5. CASE OpenModel
  BY <1>5 DEF OpenModel, Fail, stream, delivery
<1>6. CASE TakeChunk
  <2>1. Head(audioQueue) \in ChunkSet /\ Tail(audioQueue) \in Seq(ChunkSet)
    BY <1>6 DEF TakeChunk
  <2> QED BY <1>6, <2>1 DEF TakeChunk, stream, delivery
<1>7. CASE PollEmpty
  BY <1>7 DEF PollEmpty, stream, delivery
<1>8. CASE AppendChunk
  <2>1. pendingAudio' \in Seq(Int)
    <3>1. AsSequence(chunk) \in Seq(Int)
      BY <1>8, AsSequenceType DEF AppendChunk
    <3>2. pendingAudio \o AsSequence(chunk) \in Seq(Int)
      BY <3>1
    <3> QED BY <1>8, <3>2 DEF AppendChunk
  <2>2. pc' \in {"windows", "catch"}
    BY <1>8 DEF AppendChunk, Fail
  <2> QED BY <1>8, <2>1, <2>2 DEF AppendChunk, delivery
<1>9. CASE TranscribeWindow
  BY <1>9, DiscardType DEF TranscribeWindow, delivery
<1>10. CASE WindowsDone
  BY <1>10 DEF WindowsDone, stream, delivery
<1>11. CASE BeginTerminationIfDrained
  BY <1>11 DEF BeginTerminationIfDrained, stream, delivery
<1>12. CASE TranscribeRemaining
  <2>1. pendingAudio' = <<>> \/ pendingAudio' = pendingAudio
    BY <1>12 DEF TranscribeRemaining, stream
  <2>2. pc' = "finally" /\ UNCHANGED <<audioQueue, recorded>>
    BY <1>12 DEF TranscribeRemaining, delivery
  <2>3. pendingAudio' \in Seq(Int)
    <3>1. <<>> \in Seq(Int)
      OBVIOUS
    <3> QED BY <2>1, <3>1
  <2> QED BY <2>2, <2>3
<1>13. CASE TranscribeFails
  BY <1>13 DEF TranscribeFails, Fail, stream, delivery
<1>14. CASE OutputError
  BY <1>14 DEF OutputError, delivery
<1>15. CASE Finally
  BY <1>15 DEF Finally, delivery
<1>16. CASE PublishStopped
  BY <1>16 DEF PublishStopped, stream, delivery
<1>17. CASE UNCHANGED vars
  BY <1>17 DEF vars, stream, delivery
<1> QED
  BY <1>1, <1>2, <1>3, <1>4, <1>5, <1>6, <1>7, <1>8, <1>9, <1>10, <1>11, <1>12, <1>13,
     <1>14, <1>15, <1>16, <1>17 DEF Next, WorkerStep, SubmitStep

-----------------------------------------------------------------------------
(* Why audio is accepted only while it will be read.  A thread that has    *)
(* begun to terminate refuses audio for good, since resume looks at        *)
(* terminating under the same lock; it terminates only on a stop request,  *)
(* which also asks for the final window.                                   *)
ServedInv ==
    /\ terminating => ~acceptingAudio
    /\ drainStopRequested => finishAfterQueuedAudio
    /\ mode \in {"live", "drain"}
    /\ mode = "drain" => terminating /\ finishAfterQueuedAudio
    /\ pc = "new" => ~running /\ ~acceptingAudio /\ ~terminating /\ mode = "live"
    /\ pc = "final" => mode = "drain" /\ audioQueue = <<>>
    /\ pc = "check" => mode = "live"
    /\ pc = "catch" => failed
    /\ pc \in {"finally", "publish", "done"} => failed \/ terminating
    /\ pc \in PcValues

LEMMA ServedStep == SubInv /\ ServedInv /\ [Next]_vars => ServedInv'
<1> SUFFICES ASSUME SubInv, ServedInv, [Next]_vars PROVE ServedInv'
  OBVIOUS
<1> USE DEF ServedInv, PcValues
<1>1. CASE Start
  BY <1>1 DEF Start
<1>2. CASE SubmitStep
  <2>1. UNCHANGED <<running, acceptingAudio, drainStopRequested, terminating, finishAfterQueuedAudio,
                    mode, pc, failed>>
    BY <1>2, SubmitCases DEF Frame, flags
  <2>2. pc = "final" => audioQueue' = audioQueue
    <3>1. pc = "final" => ~acceptingAudio /\ audioQueue = <<>>
      OBVIOUS
    <3>2. ASSUME NEW n \in 1..MaxChunk, Delivered(n), ~acceptingAudio
          PROVE  audioQueue' = audioQueue
      BY <3>2 DEF Delivered, Refuse
    <3> QED BY <1>2, <3>1, <3>2, SubmitCases DEF Idle, Evicted
  <2> QED BY <2>1, <2>2
<1>3. CASE RequestStop
  BY <1>3 DEF RequestStop
<1>4. CASE ResumeAudioSubmission
  BY <1>4 DEF ResumeAudioSubmission
<1>5. CASE OpenModel
  BY <1>5 DEF OpenModel, Fail, flags
<1>6. CASE TakeChunk
  BY <1>6 DEF TakeChunk, flags
<1>7. CASE PollEmpty
  BY <1>7 DEF PollEmpty, flags
<1>8. CASE AppendChunk
  BY <1>8 DEF AppendChunk, Fail, flags
<1>9. CASE TranscribeWindow
  BY <1>9 DEF TranscribeWindow, flags
<1>10. CASE WindowsDone
  BY <1>10 DEF WindowsDone, flags
<1>11. CASE BeginTerminationIfDrained
  BY <1>11 DEF BeginTerminationIfDrained
<1>12. CASE TranscribeRemaining
  BY <1>12 DEF TranscribeRemaining, flags
<1>13. CASE TranscribeFails
  BY <1>13 DEF TranscribeFails, Fail, flags
<1>14. CASE OutputError
  BY <1>14 DEF OutputError, flags
<1>15. CASE Finally
  BY <1>15 DEF Finally
<1>16. CASE PublishStopped
  BY <1>16 DEF PublishStopped, flags
<1>17. CASE UNCHANGED vars
  BY <1>17 DEF vars, flags
<1> QED
  BY <1>1, <1>2, <1>3, <1>4, <1>5, <1>6, <1>7, <1>8, <1>9, <1>10, <1>11, <1>12, <1>13,
     <1>14, <1>15, <1>16, <1>17 DEF Next, WorkerStep, SubmitStep

(* Audio is accepted only while the thread still reads its queue, and the  *)
(* final window is taken with an empty queue: no accepted chunk can slip   *)
(* in behind the drain of requestStop, however stop and resume interleave. *)
THEOREM AcceptedAudioIsServed == Spec => []AcceptingMeansServed
<1>1. Init => ServedInv
  BY DEF Init, ServedInv, PcValues
<1>2. ServedInv => AcceptingMeansServed
  BY DEF ServedInv, AcceptingMeansServed, PcValues
<1> QED BY <1>1, <1>2, ServedStep, SubInvariance, PTL DEF Spec

-----------------------------------------------------------------------------
(* A chunk in hand always fits into the ring of two windows and one second *)
(* of slack (WhisperTranscriptionWorker's constructor), whatever the       *)
(* window, the overlap and the chunk size: append never throws.            *)
THEOREM RingCapacitySuffices == Spec => []RingNeverFull
<1>1. Init => RingInv
  BY ConstantFacts DEF Init, RingInv
<1>2. RingInv => RingNeverFull
  BY ConstantFacts DEF RingInv, RingNeverFull, RingCapacity, ChunkSet
<1> QED BY <1>1, <1>2, RingStep, SubInvariance, PTL DEF Spec

-----------------------------------------------------------------------------
(* Ownership of the chunks.  First two facts about a queue without         *)
(* repetitions.                                                            *)
NoRepeat(q) == \A i, j \in DOMAIN q : q[i] = q[j] => i = j

LEMMA AppendRange ==
    ASSUME NEW S, NEW q \in Seq(S), NEW e \in S, NoRepeat(q), e \notin Range(q)
    PROVE  /\ Append(q, e) \in Seq(S) /\ NoRepeat(Append(q, e))
           /\ Range(Append(q, e)) = Range(q) \cup {e}
<1>1. Len(q) \in Nat /\ DOMAIN q = 1..Len(q)
  OBVIOUS
<1> DEFINE a == Append(q, e)
<1>2. a \in Seq(S) /\ DOMAIN a = 1..(Len(q) + 1) /\ a[Len(q) + 1] = e
  OBVIOUS
<1>3. \A i \in 1..Len(q) : a[i] = q[i]
  OBVIOUS
<1>4. \A i \in 1..(Len(q) + 1) : i \in 1..Len(q) \/ i = Len(q) + 1
  BY <1>1
<1>5. \A i \in 1..Len(q) : i \in 1..(Len(q) + 1)
  BY <1>1
<1>6. Len(q) + 1 \in 1..(Len(q) + 1)
  BY <1>1
<1> HIDE DEF a
<1>7. NoRepeat(a)
  BY <1>1, <1>2, <1>3, <1>4 DEF NoRepeat, Range
<1>8. Range(a) = Range(q) \cup {e}
  BY <1>1, <1>2, <1>3, <1>4, <1>5, <1>6 DEF Range
<1> QED BY <1>2, <1>7, <1>8 DEF a

LEMMA TailRange ==
    ASSUME NEW S, NEW q \in Seq(S), q # <<>>, NoRepeat(q)
    PROVE  /\ Tail(q) \in Seq(S) /\ NoRepeat(Tail(q)) /\ Head(q) \in Range(q)
           /\ Head(q) \in S /\ Range(Tail(q)) = Range(q) \ {Head(q)}
<1>1. Len(q) \in Nat /\ Len(q) >= 1 /\ DOMAIN q = 1..Len(q)
  OBVIOUS
<1> DEFINE t == Tail(q)
<1>2. t \in Seq(S) /\ DOMAIN t = 1..(Len(q) - 1) /\ Head(q) = q[1]
  BY <1>1
<1>3. \A i \in 1..(Len(q) - 1) : t[i] = q[i + 1]
  BY <1>1
<1> HIDE DEF t
<1>4. 1 \in 1..Len(q) /\ Head(q) \in S /\ Head(q) \in Range(q)
  BY <1>1, <1>2 DEF Range
<1>5. \A i \in 1..(Len(q) - 1) : i + 1 \in 1..Len(q) /\ i + 1 # 1
  BY <1>1
<1>6. \A i, j \in 1..(Len(q) - 1) : i + 1 = j + 1 => i = j
  BY <1>1
<1>7. NoRepeat(t)
  <2>1. ASSUME NEW i \in DOMAIN t, NEW j \in DOMAIN t, t[i] = t[j]
        PROVE  i = j
    <3>1. q[i + 1] = q[j + 1]
      BY <1>2, <1>3, <2>1
    <3>2. i + 1 \in DOMAIN q /\ j + 1 \in DOMAIN q
      BY <1>1, <1>2, <1>5
    <3>3. i + 1 = j + 1
      BY <3>1, <3>2 DEF NoRepeat
    <3> QED BY <1>2, <1>6, <3>3
  <2> QED BY <2>1 DEF NoRepeat
<1>8. \A i \in 1..Len(q) : i = 1 \/ (i - 1 \in 1..(Len(q) - 1) /\ (i - 1) + 1 = i)
  BY <1>1
<1>9. Range(t) \subseteq Range(q) \ {Head(q)}
  BY <1>1, <1>2, <1>3, <1>4, <1>5 DEF NoRepeat, Range
<1>10. ASSUME NEW e \in Range(q) \ {Head(q)} PROVE e \in Range(t)
  <2>1. PICK i \in 1..Len(q) : q[i] = e
    BY <1>1 DEF Range
  <2>2. i # 1
    BY <1>2, <1>10, <2>1
  <2>3. i - 1 \in 1..(Len(q) - 1) /\ (i - 1) + 1 = i
    BY <1>8, <2>2
  <2>4. t[i - 1] = e
    BY <1>3, <2>1, <2>3
  <2> QED BY <1>2, <2>3, <2>4 DEF Range
<1> QED BY <1>2, <1>4, <1>7, <1>9, <1>10 DEF t

Hand == IF chunk = NoChunk THEN {} ELSE {chunk}

(* A chunk ends where the next one starts, so a delivered chunk is new;    *)
(* the accepted chunks are those waiting, in hand and returned, disjointly. *)
OwnInv ==
    /\ audioQueue \in Seq(ChunkSet) /\ NoRepeat(audioQueue)
    /\ recorded \in Nat
    /\ accepted \subseteq ChunkSet
    /\ \A c \in accepted : c.from + c.count <= recorded
    /\ accepted = (Range(audioQueue) \cup Hand) \cup closed
    /\ Range(audioQueue) \cap closed = {} /\ Hand \cap closed = {}
    /\ Hand \cap Range(audioQueue) = {}
    /\ pc = "append" <=> chunk # NoChunk
    /\ pc \in {"publish", "done"} => ~running /\ audioQueue = <<>>

LEMMA ChunkIsNotNoChunk == NoChunk \notin ChunkSet
BY ConstantFacts DEF NoChunk, ChunkSet

LEMMA EmptyQueue == <<>> \in Seq(ChunkSet) /\ NoRepeat(<<>>) /\ Range(<<>>) = {}
BY DEF NoRepeat, Range

LEMMA DeliveredOwns ==
    ASSUME OwnInv, Frame, NEW n \in 1..MaxChunk, Delivered(n) PROVE OwnInv'
<1> DEFINE c == [from |-> recorded, count |-> n]
<1>1. c \in ChunkSet /\ c.from = recorded /\ c.count = n /\ n \in Nat /\ n >= 1
  BY ConstantFacts DEF Delivered, ChunkSet, OwnInv
<1>2. c \notin accepted
  BY <1>1 DEF OwnInv, ChunkSet
<1>3. recorded' = recorded + n /\ recorded' \in Nat
  BY <1>1 DEF Delivered, Refuse, Enqueue, OwnInv
<1>4. UNCHANGED <<chunk, pc, running, Hand>> /\ closed' = closed
  BY DEF Delivered, Frame, flags, Hand
<1>5. \A d \in accepted : d.from + d.count <= recorded'
  BY <1>1, <1>3 DEF OwnInv, ChunkSet
<1>6. CASE Refuse(n)
  <2>1. UNCHANGED <<audioQueue, accepted>>
    BY <1>6 DEF Refuse
  <2> QED BY <1>3, <1>4, <1>5, <2>1 DEF OwnInv
<1>7. CASE running /\ Enqueue(n)
  <2>1. accepted' = accepted \cup {c} /\ audioQueue' = Append(audioQueue, c)
    BY <1>7 DEF Enqueue
  <2>2. accepted' \subseteq ChunkSet /\ \A d \in accepted' : d.from + d.count <= recorded'
    BY <1>1, <1>3, <1>5, <2>1 DEF OwnInv
  <2>3. c \notin Range(audioQueue) /\ c \notin Hand /\ c \notin closed
    BY <1>2 DEF OwnInv
  <2>4. /\ audioQueue' \in Seq(ChunkSet) /\ NoRepeat(audioQueue')
        /\ Range(audioQueue') = Range(audioQueue) \cup {c}
    BY <1>1, <2>1, <2>3, AppendRange DEF OwnInv
  <2> HIDE DEF c
  <2> QED BY <1>3, <1>4, <1>7, <2>1, <2>2, <2>3, <2>4, Zenon DEF OwnInv
<1> QED BY <1>6, <1>7 DEF Delivered

LEMMA EvictedOwns ==
    ASSUME OwnInv, Frame, Evicted PROVE OwnInv'
<1> DEFINE q == Tail(audioQueue)
           h == Head(audioQueue)
<1>1. /\ q \in Seq(ChunkSet) /\ NoRepeat(q) /\ h \in Range(audioQueue)
      /\ Range(q) = Range(audioQueue) \ {h}
  BY TailRange DEF Evicted, OwnInv
<1>2. audioQueue' = q /\ closed' = closed \cup {h} /\ UNCHANGED <<recorded, accepted>> /\ running
  BY DEF Evicted
<1>3. UNCHANGED <<chunk, pc, running, Hand>>
  BY DEF Frame, flags, Hand
<1> HIDE DEF q, h
<1>4. h \notin Hand /\ h \notin closed
  BY <1>1 DEF OwnInv
<1> QED BY <1>1, <1>2, <1>3, <1>4, Zenon DEF OwnInv

LEMMA OwnStep == SubInv /\ OwnInv /\ [Next]_vars => OwnInv'
<1> SUFFICES ASSUME SubInv, OwnInv, [Next]_vars PROVE OwnInv'
  OBVIOUS
<1> DEFINE own == <<audioQueue, recorded, accepted, closed, chunk>>
<1>a. ASSUME UNCHANGED own, UNCHANGED Hand, pc' = "append" <=> chunk # NoChunk,
             pc' \in {"publish", "done"} => ~running' /\ audioQueue = <<>>
      PROVE  OwnInv'
  BY <1>a DEF OwnInv
<1>b. UNCHANGED chunk => UNCHANGED Hand
  BY DEF Hand
<1>1. CASE Start
  BY <1>1, <1>a, <1>b DEF Start, delivery, OwnInv
<1>2. CASE SubmitStep
  <2>1. Idle => OwnInv'
    BY <1>2, <1>a, <1>b, SubmitCases DEF Idle, Frame, flags, OwnInv
  <2> QED BY <1>2, <2>1, SubmitCases, DeliveredOwns, EvictedOwns
<1>3. CASE RequestStop
  BY <1>3, <1>a, <1>b DEF RequestStop, delivery, OwnInv
<1>4. CASE ResumeAudioSubmission
  BY <1>4, <1>a, <1>b DEF ResumeAudioSubmission, delivery, OwnInv
<1>5. CASE OpenModel
  BY <1>5, <1>a, <1>b DEF OpenModel, Fail, delivery, OwnInv
<1>6. CASE TakeChunk
  <2>1. audioQueue # <<>> /\ chunk = NoChunk /\ Hand = {}
    BY <1>6 DEF TakeChunk, OwnInv, Hand
  <2> DEFINE h == Head(audioQueue)
  <2>2. /\ audioQueue' \in Seq(ChunkSet) /\ NoRepeat(audioQueue') /\ h \in Range(audioQueue)
        /\ h \in ChunkSet /\ Range(audioQueue') = Range(audioQueue) \ {h}
    BY <1>6, <2>1, TailRange DEF TakeChunk, OwnInv
  <2>3. Hand' = {h}
    BY <1>6, <2>2, ChunkIsNotNoChunk DEF TakeChunk, Hand
  <2>4. UNCHANGED <<recorded, accepted, closed>> /\ pc' = "append"
    BY <1>6 DEF TakeChunk, delivery
  <2> HIDE DEF h
  <2>5. pc' = "append" <=> chunk' # NoChunk
    BY <1>6, <2>2, <2>4, ChunkIsNotNoChunk DEF TakeChunk, h
  <2>6. ~(pc' \in {"publish", "done"})
    BY <2>4
  <2> QED BY <2>1, <2>2, <2>3, <2>4, <2>5, <2>6, Zenon DEF OwnInv
<1>7. CASE PollEmpty
  BY <1>7, <1>a, <1>b DEF PollEmpty, delivery, OwnInv
<1>8. CASE AppendChunk
  <2>1. /\ closed' = closed \cup {chunk} /\ chunk' = NoChunk /\ Hand' = {}
        /\ UNCHANGED <<audioQueue, recorded, accepted>>
    BY <1>8 DEF AppendChunk, delivery, Hand
  <2>2. pc' \in {"windows", "catch"}
    BY <1>8 DEF AppendChunk, Fail
  <2>3. ~(pc' \in {"publish", "done"})
    BY <2>2
  <2>4. Hand = {chunk}
    BY <1>8 DEF AppendChunk, OwnInv, Hand
  <2>5. pc' = "append" <=> chunk' # NoChunk
    BY <2>1, <2>2
  <2> QED BY <2>1, <2>3, <2>4, <2>5, Zenon DEF OwnInv
<1>9. CASE TranscribeWindow
  BY <1>9, <1>a, <1>b DEF TranscribeWindow, delivery, OwnInv
<1>10. CASE WindowsDone
  BY <1>10, <1>a, <1>b DEF WindowsDone, delivery, OwnInv
<1>11. CASE BeginTerminationIfDrained
  BY <1>11, <1>a, <1>b DEF BeginTerminationIfDrained, delivery, OwnInv
<1>12. CASE TranscribeRemaining
  BY <1>12, <1>a, <1>b DEF TranscribeRemaining, delivery, OwnInv
<1>13. CASE TranscribeFails
  BY <1>13, <1>a, <1>b DEF TranscribeFails, Fail, delivery, OwnInv
<1>14. CASE OutputError
  BY <1>14, <1>a, <1>b DEF OutputError, delivery, OwnInv
<1>15. CASE Finally
  <2>1. /\ audioQueue' = <<>> /\ closed' = closed \cup Range(audioQueue) /\ ~running'
        /\ UNCHANGED <<recorded, accepted, chunk, Hand>> /\ chunk = NoChunk /\ Hand = {}
    BY <1>15, <1>b DEF Finally, delivery, OwnInv, Hand
  <2>2. pc' = "append" <=> chunk' # NoChunk
    BY <1>15, <2>1 DEF Finally
  <2>3. /\ audioQueue' \in Seq(ChunkSet) /\ NoRepeat(audioQueue')
        /\ Range(audioQueue') = {}
    BY <2>1, EmptyQueue
  <2> QED BY <2>1, <2>2, <2>3, Zenon DEF OwnInv
<1>16. CASE PublishStopped
  BY <1>16, <1>a, <1>b DEF PublishStopped, flags, delivery, OwnInv
<1>17. CASE UNCHANGED vars
  BY <1>17, <1>a, <1>b DEF vars, flags, delivery, OwnInv
<1> QED
  BY <1>1, <1>2, <1>3, <1>4, <1>5, <1>6, <1>7, <1>8, <1>9, <1>10, <1>11, <1>12, <1>13,
     <1>14, <1>15, <1>16, <1>17 DEF Next, WorkerStep, SubmitStep

LEMMA InitOwns == Init => OwnInv
<1>1. Init => accepted = {} /\ closed = {} /\ Hand = {} /\ audioQueue = <<>>
  BY DEF Init, Hand
<1>2. Init => recorded \in Nat /\ pc = "new" /\ chunk = NoChunk
  BY InitialAssumption DEF Init
<1>3. Init => ~(pc \in {"publish", "done"})
  BY DEF Init
<1> QED BY <1>1, <1>2, <1>3, EmptyQueue, Zenon DEF OwnInv

(* Every chunk submit takes over from the recorder is at every moment in   *)
(* exactly one place, the queue, the thread's hand or the pool it was      *)
(* returned to, and a thread that has ended has returned them all: no path *)
(* of run, its catch and its finally leaks a pooled buffer or returns one  *)
(* twice.                                                                  *)
THEOREM ChunkOwnership == Spec => []ChunksOwnedOnce
<1>2. OwnInv => ChunksOwnedOnce
  <2> SUFFICES ASSUME OwnInv PROVE ChunksOwnedOnce
    OBVIOUS
  <2>1. NoChunk \notin accepted
    BY ChunkIsNotNoChunk DEF OwnInv
  <2>2. \A c \in accepted : c \in Hand <=> c = chunk
    BY <2>1 DEF Hand
  <2>3. \A c \in accepted :
          \/ c \in closed /\ c \notin Range(audioQueue) /\ c # chunk
          \/ c \notin closed /\ c \in Range(audioQueue) /\ c # chunk
          \/ c \notin closed /\ c \notin Range(audioQueue) /\ c = chunk
    BY <2>2, Zenon DEF OwnInv
  <2>4. pc \in {"publish", "done"} => closed = accepted
    <3>1. pc \in {"publish", "done"} => Hand = {} /\ Range(audioQueue) = {}
      BY EmptyQueue DEF OwnInv, Hand
    <3> QED BY <3>1 DEF OwnInv
  <2> QED BY <2>3, <2>4 DEF ChunksOwnedOnce
<1> QED BY InitOwns, <1>2, OwnStep, SubInvariance, PTL DEF Spec

-----------------------------------------------------------------------------
(* Where the accepted audio is.  A chunk that was not pushed out of the    *)
(* queue waits, is in hand, or has gone into the pending buffer, whose     *)
(* samples leave it only through a published window; nothing is left over  *)
(* when a thread that did not fail comes to its finally block.             *)
OutputSet ==
    [sequence : Nat, start : Nat, audio : Seq(Nat), final : BOOLEAN, error : BOOLEAN]

TypedInv ==
    /\ Len(audioQueue) <= QueueCapacity
    /\ pendingAudio \in Seq(Nat) /\ outputs \in Seq(OutputSet)
    /\ sequence \in Nat /\ processedSamples \in Nat
    /\ chunk \in ChunkSet \cup {NoChunk}
    /\ recorded <= InitialSamples + MaxRecorded
    /\ overflowed \subseteq accepted
    /\ stopEvents \in 0..1 /\ (pc # "done" => stopEvents = 0)

Kept(c) ==
    \/ c \in Range(audioQueue) \/ c = chunk
    \/ Samples(c) \subseteq Range(pendingAudio) \cup Covered

KeptInv ==
    ~failed => /\ \A c \in accepted \ overflowed : Kept(c)
               /\ pc = "finally" => audioQueue = <<>> /\ pendingAudio = <<>>

WorkerInv == SubInv /\ FlagsOK /\ RingInv /\ ServedInv /\ OwnInv /\ TypedInv

LEMMA FlagsStep == SubInv /\ FlagsOK /\ [Next]_vars => FlagsOK'
<1> SUFFICES ASSUME SubInv, FlagsOK, [Next]_vars PROVE FlagsOK'
  OBVIOUS
<1> USE DEF FlagsOK, flags, stream, delivery
<1>1. CASE Start
  BY <1>1 DEF Start, flags
<1>2. CASE SubmitStep
  BY <1>2, SubmitCases DEF Frame
<1>3. CASE RequestStop
  BY <1>3 DEF RequestStop
<1>4. CASE ResumeAudioSubmission
  BY <1>4 DEF ResumeAudioSubmission
<1>5. CASE OpenModel
  BY <1>5 DEF OpenModel, Fail
<1>6. CASE TakeChunk
  BY <1>6 DEF TakeChunk
<1>7. CASE PollEmpty
  BY <1>7 DEF PollEmpty
<1>8. CASE AppendChunk
  BY <1>8 DEF AppendChunk, Fail
<1>9. CASE TranscribeWindow
  BY <1>9 DEF TranscribeWindow, Output
<1>10. CASE WindowsDone
  BY <1>10 DEF WindowsDone
<1>11. CASE BeginTerminationIfDrained
  BY <1>11 DEF BeginTerminationIfDrained
<1>12. CASE TranscribeRemaining
  BY <1>12 DEF TranscribeRemaining, Output
<1>13. CASE TranscribeFails
  BY <1>13 DEF TranscribeFails, Fail
<1>14. CASE OutputError
  BY <1>14 DEF OutputError, Output
<1>15. CASE Finally
  BY <1>15 DEF Finally
<1>16. CASE PublishStopped
  BY <1>16 DEF PublishStopped
<1>17. CASE UNCHANGED vars
  BY <1>17 DEF vars
<1> QED
  BY <1>1, <1>2, <1>3, <1>4, <1>5, <1>6, <1>7, <1>8, <1>9, <1>10, <1>11, <1>12, <1>13,
     <1>14, <1>15, <1>16, <1>17 DEF Next, WorkerStep, SubmitStep

LEMMA AsSequenceNat ==
    ASSUME NEW c \in ChunkSet
    PROVE  AsSequence(c) \in Seq(Nat)
<1>1. c.from \in Nat /\ c.count \in Nat
  BY ConstantFacts DEF ChunkSet
<1>2. \A i \in 1..c.count : c.from + i - 1 \in Nat
  BY <1>1
<1> QED BY <1>1, <1>2 DEF AsSequence

LEMMA EmptyAudio == <<>> \in Seq(Nat) /\ Len(<<>>) = 0
OBVIOUS

LEMMA OutputTyped ==
    ASSUME TypedInv, NEW audio \in Seq(Nat), NEW final \in BOOLEAN, NEW error \in BOOLEAN,
           Output(audio, final, error)
    PROVE  outputs' \in Seq(OutputSet) /\ sequence' \in Nat
<1> DEFINE o == [sequence |-> sequence, start |-> processedSamples, audio |-> audio,
                 final |-> final, error |-> error]
<1>1. o \in OutputSet
  BY DEF TypedInv, OutputSet
<1>2. outputs' = Append(outputs, o) /\ sequence' = sequence + 1
  BY DEF Output
<1> HIDE DEF o, OutputSet
<1> QED BY <1>1, <1>2 DEF TypedInv

LEMMA TypedStep == WorkerInv /\ [Next]_vars => TypedInv'
<1> SUFFICES ASSUME WorkerInv, [Next]_vars PROVE TypedInv'
  OBVIOUS
<1> USE DEF TypedInv, flags, stream, delivery
<1>0. RingInv /\ OwnInv /\ ServedInv /\ TypedInv
  BY DEF WorkerInv
<1> USE <1>0
<1>1. CASE Start
  BY <1>1 DEF Start, flags
<1>2. CASE SubmitStep
  <2>1. SubInv
    BY DEF WorkerInv
  <2>2. UNCHANGED <<pendingAudio, outputs, sequence, processedSamples, chunk, stopEvents, pc>>
    BY <1>2, <2>1, SubmitCases DEF Frame
  <2>3. CASE Idle
    BY <2>2, <2>3 DEF Idle
  <2>4. ASSUME NEW n \in 1..MaxChunk, Delivered(n) PROVE TypedInv'
    <3> DEFINE c == [from |-> recorded, count |-> n]
    <3>1. c \in ChunkSet
      BY <2>4, ConstantFacts DEF Delivered, ChunkSet, RingInv
    <3>2. Len(Append(audioQueue, c)) = Len(audioQueue) + 1
      BY <3>1 DEF RingInv
    <3>3. Len(audioQueue') <= QueueCapacity
      BY <2>4, <3>2, QueueAssumption DEF Delivered, Refuse, Enqueue, HasRoom, RingInv
    <3>4. recorded' <= InitialSamples + MaxRecorded
      BY <2>4 DEF Delivered, Refuse, Enqueue
    <3>5. overflowed' \subseteq accepted'
      BY <2>4 DEF Delivered, Refuse, Enqueue
    <3> QED BY <2>2, <3>3, <3>4, <3>5
  <2>5. CASE Evicted
    <3>1. Head(audioQueue) \in accepted
      BY <2>5, TailRange DEF Evicted, OwnInv
    <3>2. Len(Tail(audioQueue)) = Len(audioQueue) - 1 /\ Len(audioQueue) \in Nat
      BY <2>5 DEF Evicted, RingInv
    <3>3. Len(audioQueue') <= QueueCapacity
      BY <2>5, <3>2, QueueAssumption DEF Evicted
    <3> QED BY <2>2, <2>5, <3>1, <3>3 DEF Evicted
  <2> QED BY <1>2, <2>1, <2>3, <2>4, <2>5, SubmitCases
<1>3. CASE RequestStop
  BY <1>3 DEF RequestStop
<1>4. CASE ResumeAudioSubmission
  BY <1>4 DEF ResumeAudioSubmission
<1>5. CASE OpenModel
  BY <1>5 DEF OpenModel, Fail
<1>6. CASE TakeChunk
  <2>1. Head(audioQueue) \in ChunkSet /\ Len(Tail(audioQueue)) = Len(audioQueue) - 1
    BY <1>6 DEF TakeChunk, RingInv
  <2>2. Len(audioQueue') <= QueueCapacity
    BY <1>6, <2>1, QueueAssumption DEF TakeChunk, RingInv
  <2> QED BY <1>6, <2>1, <2>2 DEF TakeChunk
<1>7. CASE PollEmpty
  BY <1>7 DEF PollEmpty
<1>8. CASE AppendChunk
  <2>1. pendingAudio' \in Seq(Nat)
    <3>1. AsSequence(chunk) \in Seq(Nat)
      BY <1>8, AsSequenceNat DEF AppendChunk, RingInv
    <3>2. pendingAudio \o AsSequence(chunk) \in Seq(Nat)
      BY <3>1
    <3> QED BY <1>8, <3>2 DEF AppendChunk
  <2>2. pc' \in {"windows", "catch"} /\ chunk' = NoChunk
    BY <1>8 DEF AppendChunk, Fail
  <2> QED BY <1>8, <2>1, <2>2 DEF AppendChunk
<1>9. CASE TranscribeWindow
  <2>1. /\ SubSeq(pendingAudio, 1, Window) \in Seq(Nat)
        /\ pendingAudio' \in Seq(Nat) /\ processedSamples' \in Nat
    <3>1. DiscardSamples \in Nat /\ DiscardSamples >= 1
      BY ConstantFacts, OverlapAssumption DEF DiscardSamples, Larger
    <3>2. Window <= Len(pendingAudio)
      BY <1>9 DEF TranscribeWindow
    <3>3. \A i \in 1..Window : pendingAudio[i] \in Nat
      BY <3>2, ConstantFacts
    <3>4. \A i \in (DiscardSamples + 1)..Len(pendingAudio) : pendingAudio[i] \in Nat
      BY <3>1
    <3>5. SubSeq(pendingAudio, 1, Window) \in Seq(Nat)
      BY <3>3, ConstantFacts, SubSeqProperties
    <3>6. SubSeq(pendingAudio, DiscardSamples + 1, Len(pendingAudio)) \in Seq(Nat)
      BY <3>1, <3>4, SubSeqProperties
    <3> QED BY <1>9, <3>1, <3>5, <3>6 DEF TranscribeWindow
  <2>2. outputs' \in Seq(OutputSet) /\ sequence' \in Nat
    BY <1>9, <2>1, OutputTyped DEF TranscribeWindow
  <2> QED BY <1>9, <2>1, <2>2 DEF TranscribeWindow
<1>10. CASE WindowsDone
  BY <1>10 DEF WindowsDone
<1>11. CASE BeginTerminationIfDrained
  BY <1>11 DEF BeginTerminationIfDrained
<1>12. CASE TranscribeRemaining
  <2>1. pendingAudio' \in Seq(Nat) /\ processedSamples' \in Nat
    <3>1. CASE pendingAudio' = <<>> /\ processedSamples' = processedSamples + Len(pendingAudio)
      BY <3>1, EmptyAudio
    <3>2. CASE UNCHANGED stream
      BY <3>2
    <3> QED BY <1>12, <3>1, <3>2 DEF TranscribeRemaining
  <2>2. outputs' \in Seq(OutputSet) /\ sequence' \in Nat
    BY <1>12, OutputTyped DEF TranscribeRemaining
  <2> QED BY <1>12, <2>1, <2>2 DEF TranscribeRemaining
<1>13. CASE TranscribeFails
  BY <1>13 DEF TranscribeFails, Fail
<1>14. CASE OutputError
  <2>1. <<>> \in Seq(Nat)
    OBVIOUS
  <2>2. outputs' \in Seq(OutputSet) /\ sequence' \in Nat
    BY <1>14, <2>1, OutputTyped DEF OutputError
  <2> QED BY <1>14, <2>2 DEF OutputError
<1>15. CASE Finally
  <2>1. pendingAudio' \in Seq(Nat) /\ Len(audioQueue') <= QueueCapacity
    BY <1>15, EmptyAudio, QueueAssumption DEF Finally
  <2> QED BY <1>15, <2>1 DEF Finally
<1>16. CASE PublishStopped
  BY <1>16 DEF PublishStopped
<1>17. CASE UNCHANGED vars
  BY <1>17 DEF vars
<1> QED
  BY <1>1, <1>2, <1>3, <1>4, <1>5, <1>6, <1>7, <1>8, <1>9, <1>10, <1>11, <1>12, <1>13,
     <1>14, <1>15, <1>16, <1>17 DEF Next, WorkerStep, SubmitStep

LEMMA WorkerInvariant == Spec => []WorkerInv
<1>1. Init => WorkerInv
  <2> SUFFICES ASSUME Init PROVE WorkerInv
    OBVIOUS
  <2>1. FlagsOK /\ ServedInv
    BY DEF Init, FlagsOK, ServedInv, PcValues
  <2>4. SubInv
    BY ConstantFacts DEF Init, SubInv, SubmittingOK, NotSubmitting
  <2>2. RingInv
    BY ConstantFacts DEF Init, RingInv
  <2>3. TypedInv
    BY ConstantFacts, InitialAssumption, QueueAssumption DEF Init, TypedInv
  <2> QED BY <2>1, <2>2, <2>3, <2>4, InitOwns DEF WorkerInv
<1>2. WorkerInv /\ [Next]_vars => WorkerInv'
  <2>1. WorkerInv /\ [Next]_vars =>
          SubInv' /\ FlagsOK' /\ RingInv' /\ ServedInv' /\ OwnInv'
    BY SubStep, FlagsStep, RingStep, ServedStep, OwnStep DEF WorkerInv
  <2> QED BY <2>1, TypedStep DEF WorkerInv
<1> QED BY <1>1, <1>2, PTL DEF Spec

(* The samples of a chunk join what is pending. *)
LEMMA AppendSamples ==
    ASSUME NEW c \in ChunkSet, NEW s \in Seq(Nat)
    PROVE  LET r == s \o AsSequence(c)
           IN  /\ Len(r) = Len(s) + c.count
               /\ \A i \in 1..Len(s) : r[i] = s[i]
               /\ \A i \in 1..c.count : r[Len(s) + i] = c.from + i - 1
<1>1. Len(AsSequence(c)) = c.count /\ AsSequence(c) \in Seq(Nat)
  BY AsSequenceType, AsSequenceNat
<1>2. \A i \in 1..c.count : AsSequence(c)[i] = c.from + i - 1
  BY DEF AsSequence
<1>3. Len(s) \in Nat /\ c.count \in Nat
  BY ConstantFacts DEF ChunkSet
<1> DEFINE a == AsSequence(c)
<1> HIDE DEF a
<1>4. a \in Seq(Nat) /\ Len(a) = c.count /\ \A i \in 1..c.count : a[i] = c.from + i - 1
  BY <1>1, <1>2 DEF a
<1>5. Len(s \o a) = Len(s) + c.count /\ \A i \in 1..Len(s) : (s \o a)[i] = s[i]
  <2>1. \A i \in 1..Len(s) : i \in 1..(Len(s) + Len(a)) /\ i <= Len(s)
    BY <1>3, <1>4
  <2> QED BY <1>4, <2>1, ConcatProperties
<1>6. ASSUME NEW i \in 1..c.count PROVE (s \o a)[Len(s) + i] = c.from + i - 1
  <2>1. Len(s) + i \in 1..(Len(s) + Len(a)) /\ ~(Len(s) + i <= Len(s)) /\ Len(s) + i - Len(s) = i
    BY <1>3, <1>4
  <2>2. (s \o a)[Len(s) + i] = a[Len(s) + i - Len(s)]
    BY <1>4, <2>1, ConcatProperties
  <2> QED BY <1>4, <2>1, <2>2
<1> QED BY <1>5, <1>6 DEF a

LEMMA AppendedRange ==
    ASSUME NEW c \in ChunkSet, NEW s \in Seq(Nat)
    PROVE  Range(s) \cup Samples(c) \subseteq Range(s \o AsSequence(c))
<1> DEFINE r == s \o AsSequence(c)
<1>1. /\ Len(r) = Len(s) + c.count
      /\ \A i \in 1..Len(s) : r[i] = s[i]
      /\ \A i \in 1..c.count : r[Len(s) + i] = c.from + i - 1
  BY AppendSamples
<1>2. r \in Seq(Nat) /\ DOMAIN r = 1..Len(r)
  BY AsSequenceNat
<1>3. Len(s) \in Nat /\ c.count \in Nat /\ c.from \in Nat
  BY ConstantFacts DEF ChunkSet
<1> HIDE DEF r
<1>4. ASSUME NEW q \in Range(s) PROVE q \in Range(r)
  <2>1. PICK i \in 1..Len(s) : s[i] = q
    BY DEF Range
  <2>2. i \in DOMAIN r /\ r[i] = q
    BY <1>1, <1>2, <1>3, <2>1
  <2> QED BY <2>2 DEF Range
<1>5. ASSUME NEW q \in Samples(c) PROVE q \in Range(r)
  <2>1. q - c.from + 1 \in 1..c.count /\ c.from + (q - c.from + 1) - 1 = q
    BY <1>3 DEF Samples
  <2> DEFINE k == q - c.from + 1
  <2>2. k \in 1..c.count /\ c.from + k - 1 = q
    BY <2>1
  <2> HIDE DEF k
  <2>3. Len(s) + k \in DOMAIN r
    BY <1>1, <1>2, <1>3, <2>2
  <2>4. r[Len(s) + k] = q
    BY <1>1, <2>2
  <2> QED BY <2>3, <2>4 DEF Range
<1> QED BY <1>4, <1>5 DEF r

(* A window and what stays pending after it. *)
LEMMA WindowSplit ==
    ASSUME NEW s \in Seq(Nat), Len(s) >= Window
    PROVE  LET w == SubSeq(s, 1, Window)
               r == SubSeq(s, DiscardSamples + 1, Len(s))
           IN  /\ w \in Seq(Nat) /\ Len(w) = Window /\ \A i \in 1..Window : w[i] = s[i]
               /\ r \in Seq(Nat) /\ Len(r) = Len(s) - DiscardSamples
               /\ \A i \in 1..(Len(s) - DiscardSamples) : r[i] = s[DiscardSamples + i]
<1>1. DiscardSamples = Window - Overlap /\ DiscardSamples \in 1..Window
  BY ConstantFacts, OverlapAssumption DEF DiscardSamples, Larger
<1>2. Window \in Nat /\ Len(s) \in Nat
  BY ConstantFacts
<1>3. /\ \A i \in 1..Window : s[i] \in Nat
      /\ \A i \in (DiscardSamples + 1)..Len(s) : s[i] \in Nat
  BY <1>1, <1>2
<1> DEFINE d == DiscardSamples
<1> HIDE DEF d
<1>4. d \in 1..Window /\ \A i \in (d + 1)..Len(s) : s[i] \in Nat
  BY <1>1, <1>3 DEF d
<1>5. /\ SubSeq(s, 1, Window) \in Seq(Nat) /\ Len(SubSeq(s, 1, Window)) = Window
      /\ \A i \in 1..Window : SubSeq(s, 1, Window)[i] = s[i]
  BY <1>2, <1>3, SubSeqProperties
<1>6. /\ SubSeq(s, d + 1, Len(s)) \in Seq(Nat) /\ Len(SubSeq(s, d + 1, Len(s))) = Len(s) - d
      /\ \A i \in 1..(Len(s) - d) : SubSeq(s, d + 1, Len(s))[i] = s[d + i]
  BY <1>2, <1>4, SubSeqProperties
<1> QED BY <1>5, <1>6 DEF d

LEMMA WindowCovers ==
    ASSUME NEW s \in Seq(Nat), Len(s) >= Window
    PROVE  Range(s) \subseteq Range(SubSeq(s, 1, Window))
                              \cup Range(SubSeq(s, DiscardSamples + 1, Len(s)))
<1> DEFINE w == SubSeq(s, 1, Window)
           r == SubSeq(s, DiscardSamples + 1, Len(s))
<1>1. /\ w \in Seq(Nat) /\ Len(w) = Window /\ \A i \in 1..Window : w[i] = s[i]
      /\ r \in Seq(Nat) /\ Len(r) = Len(s) - DiscardSamples
      /\ \A i \in 1..(Len(s) - DiscardSamples) : r[i] = s[DiscardSamples + i]
  BY WindowSplit
<1>2. DiscardSamples \in 1..Window /\ Window \in Nat /\ Len(s) \in Nat
  BY ConstantFacts, OverlapAssumption DEF DiscardSamples, Larger
<1>3. DOMAIN w = 1..Window /\ DOMAIN r = 1..(Len(s) - DiscardSamples) /\ DOMAIN s = 1..Len(s)
  BY <1>1
<1> HIDE DEF w, r
<1>4. ASSUME NEW i \in 1..Len(s) PROVE s[i] \in Range(w) \cup Range(r)
  <2>1. CASE i <= Window
    <3>1. i \in 1..Window
      BY <1>2, <2>1
    <3>2. i \in DOMAIN w /\ w[i] = s[i]
      BY <1>1, <1>3, <3>1
    <3> QED BY <3>2 DEF Range
  <2>2. CASE i > Window
    <3>1. i - DiscardSamples \in DOMAIN r /\ DiscardSamples + (i - DiscardSamples) = i
      BY <1>2, <1>3, <2>2
    <3>2. r[i - DiscardSamples] = s[i]
      BY <1>1, <1>3, <3>1
    <3> QED BY <3>1, <3>2 DEF Range
  <2> QED BY <1>2, <2>1, <2>2
<1> QED BY <1>3, <1>4 DEF Range, w, r

(* A published result is one more, and covers its audio. *)
LEMMA OutputAppends ==
    ASSUME TypedInv, NEW audio \in Seq(Nat), NEW final \in BOOLEAN, NEW error \in BOOLEAN,
           Output(audio, final, error)
    PROVE  /\ Len(outputs') = Len(outputs) + 1
           /\ \A i \in 1..Len(outputs) : outputs'[i] = outputs[i]
           /\ outputs'[Len(outputs) + 1].audio = audio
           /\ outputs'[Len(outputs) + 1].start = processedSamples
           /\ outputs'[Len(outputs) + 1].error = error
           /\ DOMAIN outputs = 1..Len(outputs) /\ DOMAIN outputs' = 1..(Len(outputs) + 1)
           /\ Len(outputs) \in Nat
           /\ Covered' = Covered \cup Range(audio)
<1> DEFINE o == [sequence |-> sequence, start |-> processedSamples, audio |-> audio,
                 final |-> final, error |-> error]
<1>1. o \in OutputSet /\ o.audio = audio /\ o.start = processedSamples /\ o.error = error
  BY DEF TypedInv, OutputSet
<1>2. outputs' = Append(outputs, o) /\ outputs \in Seq(OutputSet)
  BY DEF Output, TypedInv
<1> HIDE DEF o, OutputSet
<1>3. /\ Len(outputs') = Len(outputs) + 1 /\ \A i \in 1..Len(outputs) : outputs'[i] = outputs[i]
      /\ outputs'[Len(outputs) + 1] = o /\ Len(outputs) \in Nat
      /\ DOMAIN outputs = 1..Len(outputs) /\ DOMAIN outputs' = 1..(Len(outputs) + 1)
  BY <1>1, <1>2
<1>4. \A i \in 1..(Len(outputs) + 1) : i \in 1..Len(outputs) \/ i = Len(outputs) + 1
  BY <1>3
<1>5. /\ \A i \in 1..Len(outputs) : i \in 1..(Len(outputs) + 1)
      /\ Len(outputs) + 1 \in 1..(Len(outputs) + 1)
  BY <1>3
<1>6. Covered' = Covered \cup Range(audio)
  BY <1>1, <1>3, <1>4, <1>5, Zenon DEF Covered
<1> QED BY <1>1, <1>3, <1>6

LEMMA NoRange == Range(<<>>) = {}
BY DEF Range

LEMMA AppendedQueue ==
    ASSUME NEW q \in Seq(ChunkSet), NEW e \in ChunkSet
    PROVE  Range(Append(q, e)) = Range(q) \cup {e}
<1> DEFINE a == Append(q, e)
<1>1. DOMAIN q = 1..Len(q) /\ DOMAIN a = 1..(Len(q) + 1) /\ Len(q) \in Nat /\ a[Len(q) + 1] = e
  OBVIOUS
<1>2. \A i \in 1..Len(q) : a[i] = q[i]
  OBVIOUS
<1>3. \A i \in 1..(Len(q) + 1) : i \in 1..Len(q) \/ i = Len(q) + 1
  BY <1>1
<1>4. (\A i \in 1..Len(q) : i \in 1..(Len(q) + 1)) /\ Len(q) + 1 \in 1..(Len(q) + 1)
  BY <1>1
<1> HIDE DEF a
<1>5. Range(a) = Range(q) \cup {e}
  BY <1>1, <1>2, <1>3, <1>4 DEF Range
<1> QED BY <1>5 DEF a

LEMMA KeptStep == WorkerInv /\ KeptInv /\ [Next]_vars => KeptInv'
<1> SUFFICES ASSUME WorkerInv, KeptInv, [Next]_vars PROVE KeptInv'
  OBVIOUS
<1>0. RingInv /\ OwnInv /\ ServedInv /\ TypedInv
  BY DEF WorkerInv
<1>s. ASSUME UNCHANGED <<audioQueue, pendingAudio, outputs, chunk, accepted, overflowed>>,
             failed' = failed, pc' = "finally" => pc = "finally"
      PROVE  KeptInv'
  <2>1. UNCHANGED Covered
    BY <1>s DEF Covered
  <2> QED BY <1>s, <2>1 DEF KeptInv, Kept
<1>f. failed' => KeptInv'
  BY DEF KeptInv
<1>1. CASE Start
  <2>1. /\ UNCHANGED <<audioQueue, pendingAudio, outputs, chunk, accepted, overflowed, failed>>
        /\ pc' = "finally" => pc = "finally"
    BY <1>1 DEF Start, stream, delivery
  <2> QED BY <1>s, <2>1
<1>2. CASE SubmitStep
  <2>1. SubInv
    BY DEF WorkerInv
  <2>2. UNCHANGED <<pendingAudio, outputs, chunk, failed, pc>>
    BY <1>2, <2>1, SubmitCases DEF Frame, stream
  <2>3. UNCHANGED Covered
    BY <2>2 DEF Covered
  <2>4. CASE UNCHANGED <<audioQueue, accepted, overflowed>>
    BY <2>2, <2>4, <1>s
  <2>5. ASSUME NEW n \in 1..MaxChunk, Delivered(n), acceptingAudio, Enqueue(n) PROVE KeptInv'
    <3> DEFINE c == [from |-> recorded, count |-> n]
    <3>1. c \in ChunkSet
      BY <1>0, <2>5, ConstantFacts DEF Delivered, ChunkSet, RingInv
    <3>2. ~failed => pc # "finally"
      BY <1>0, <2>5 DEF ServedInv
    <3>3. Range(audioQueue') = Range(audioQueue) \cup {c}
      BY <1>0, <2>5, <3>1, AppendedQueue DEF Enqueue, OwnInv
    <3>4. accepted' = accepted \cup {c} /\ overflowed' = overflowed
      BY <2>5 DEF Enqueue, Delivered
    <3> HIDE DEF c
    <3>5. ASSUME ~failed, NEW d \in accepted' \ overflowed' PROVE Kept(d)'
      <4>1. CASE d = c
        BY <3>3, <4>1 DEF Kept
      <4>2. CASE d \in accepted
        <5>1. Kept(d)
          BY <3>4, <3>5, <4>2 DEF KeptInv
        <5> QED BY <2>2, <2>3, <3>3, <5>1 DEF Kept
      <4> QED BY <3>4, <4>1, <4>2
    <3> QED BY <2>2, <3>2, <3>5 DEF KeptInv
  <2>6. CASE Evicted
    <3> DEFINE h == Head(audioQueue)
    <3>1. ~failed => pc # "finally"
      BY <1>0, <2>6 DEF ServedInv, Evicted
    <3>2. Range(audioQueue') = Range(audioQueue) \ {h}
      BY <1>0, <2>6, TailRange DEF Evicted, OwnInv
    <3>3. accepted' = accepted /\ overflowed' = overflowed \cup {h}
      BY <2>6 DEF Evicted
    <3> HIDE DEF h
    <3>4. ASSUME ~failed, NEW d \in accepted' \ overflowed' PROVE Kept(d)'
      <4>1. Kept(d) /\ d # h
        BY <3>3, <3>4 DEF KeptInv
      <4> QED BY <2>2, <2>3, <3>2, <4>1 DEF Kept
    <3> QED BY <2>2, <3>1, <3>4 DEF KeptInv
  <2>7. ASSUME NEW n \in 1..MaxChunk, Delivered(n) PROVE KeptInv'
    <3>1. CASE Refuse(n)
      BY <2>4, <2>7, <3>1 DEF Delivered, Refuse
    <3>2. CASE acceptingAudio /\ Enqueue(n)
      BY <2>5, <2>7, <3>2
    <3> QED BY <2>7, <3>1, <3>2 DEF Delivered
  <2> QED BY <1>2, <2>1, <2>4, <2>6, <2>7, SubmitCases DEF Idle
<1>3. CASE RequestStop
  <2>1. /\ UNCHANGED <<audioQueue, pendingAudio, outputs, chunk, accepted, overflowed, failed>>
        /\ pc' = "finally" => pc = "finally"
    BY <1>3 DEF RequestStop, stream, delivery
  <2> QED BY <1>s, <2>1
<1>4. CASE ResumeAudioSubmission
  <2>1. /\ UNCHANGED <<audioQueue, pendingAudio, outputs, chunk, accepted, overflowed, failed>>
        /\ pc' = "finally" => pc = "finally"
    BY <1>4 DEF ResumeAudioSubmission, stream, delivery
  <2> QED BY <1>s, <2>1
<1>5. CASE OpenModel
  <2>1. /\ UNCHANGED <<audioQueue, pendingAudio, outputs, chunk, accepted, overflowed>>
        /\ (failed' \/ failed' = failed) /\ pc' # "finally"
    BY <1>5 DEF OpenModel, Fail, stream, delivery
  <2> QED BY <1>f, <1>s, <2>1
<1>6. CASE TakeChunk
  <2>1. /\ audioQueue # <<>> /\ chunk = NoChunk /\ chunk' = Head(audioQueue)
        /\ audioQueue' = Tail(audioQueue) /\ pc' = "append"
        /\ UNCHANGED <<pendingAudio, outputs, accepted, overflowed, failed>>
    BY <1>6, <1>0 DEF TakeChunk, OwnInv, stream, delivery
  <2>2. Range(Tail(audioQueue)) = Range(audioQueue) \ {Head(audioQueue)}
    BY <1>0, <2>1, TailRange DEF OwnInv
  <2>3. NoChunk \notin accepted
    BY <1>0, ChunkIsNotNoChunk DEF OwnInv
  <2>4. UNCHANGED Covered
    BY <2>1 DEF Covered
  <2>5. ASSUME ~failed, NEW d \in accepted \ overflowed PROVE Kept(d)'
    <3>1. Kept(d) /\ d # chunk
      BY <2>1, <2>3, <2>5 DEF KeptInv
    <3> QED BY <2>1, <2>2, <2>4, <3>1 DEF Kept
  <2> QED BY <2>1, <2>5 DEF KeptInv
<1>7. CASE PollEmpty
  <2>1. /\ UNCHANGED <<audioQueue, pendingAudio, outputs, chunk, accepted, overflowed, failed>>
        /\ pc' = "finally" => pc = "finally"
    BY <1>7 DEF PollEmpty, stream, delivery
  <2> QED BY <1>s, <2>1
<1>8. CASE AppendChunk
  <2>1. chunk \in ChunkSet /\ Len(pendingAudio) + chunk.count <= RingCapacity
    BY <1>8, <1>0, ConstantFacts DEF AppendChunk, RingInv, RingCapacity, ChunkSet
  <2>2. /\ pendingAudio' = pendingAudio \o AsSequence(chunk) /\ pc' = "windows" /\ chunk' = NoChunk
        /\ UNCHANGED <<audioQueue, outputs, accepted, overflowed, failed>>
    BY <1>8, <2>1 DEF AppendChunk, delivery
  <2>3. Range(pendingAudio) \cup Samples(chunk) \subseteq Range(pendingAudio')
    BY <1>0, <2>1, <2>2, AppendedRange DEF TypedInv
  <2>4. UNCHANGED Covered
    BY <2>2 DEF Covered
  <2>5. ASSUME ~failed, NEW d \in accepted \ overflowed PROVE Kept(d)'
    <3>1. Kept(d)
      BY <2>5 DEF KeptInv
    <3>2. CASE d = chunk
      BY <2>3, <3>2 DEF Kept
    <3>3. CASE d \in Range(audioQueue)
      BY <2>2, <3>3 DEF Kept
    <3>4. CASE Samples(d) \subseteq Range(pendingAudio) \cup Covered
      BY <2>3, <2>4, <3>4 DEF Kept
    <3> QED BY <3>1, <3>2, <3>3, <3>4 DEF Kept
  <2> QED BY <2>2, <2>5 DEF KeptInv
<1>9. CASE TranscribeWindow
  <2>1. /\ Len(pendingAudio) >= Window /\ pc' = "windows"
        /\ pendingAudio' = SubSeq(pendingAudio, DiscardSamples + 1, Len(pendingAudio))
        /\ Output(SubSeq(pendingAudio, 1, Window), FALSE, FALSE)
        /\ UNCHANGED <<audioQueue, chunk, accepted, overflowed, failed>>
    BY <1>9 DEF TranscribeWindow, delivery
  <2>2. /\ SubSeq(pendingAudio, 1, Window) \in Seq(Nat)
        /\ Range(pendingAudio) \subseteq Range(SubSeq(pendingAudio, 1, Window)) \cup Range(pendingAudio')
    BY <1>0, <2>1, WindowSplit, WindowCovers DEF TypedInv
  <2>3. Range(pendingAudio) \cup Covered \subseteq Range(pendingAudio') \cup Covered'
    BY <1>0, <2>1, <2>2, OutputAppends
  <2>4. ASSUME ~failed, NEW d \in accepted \ overflowed PROVE Kept(d)'
    <3>1. Kept(d)
      BY <2>4 DEF KeptInv
    <3>2. CASE Samples(d) \subseteq Range(pendingAudio) \cup Covered
      BY <2>3, <3>2 DEF Kept
    <3> QED BY <2>1, <3>1, <3>2 DEF Kept
  <2> QED BY <2>1, <2>4 DEF KeptInv
<1>10. CASE WindowsDone
  <2>1. /\ UNCHANGED <<audioQueue, pendingAudio, outputs, chunk, accepted, overflowed, failed>>
        /\ pc' = "finally" => pc = "finally"
    BY <1>10 DEF WindowsDone, stream, delivery
  <2> QED BY <1>s, <2>1
<1>11. CASE BeginTerminationIfDrained
  <2>1. /\ UNCHANGED <<audioQueue, pendingAudio, outputs, chunk, accepted, overflowed, failed>>
        /\ pc' = "finally" => pc = "finally"
    BY <1>11 DEF BeginTerminationIfDrained, stream, delivery
  <2> QED BY <1>s, <2>1
<1>12. CASE TranscribeRemaining
  <2>1. pc = "final" /\ pc' = "finally" /\ UNCHANGED <<audioQueue, chunk, accepted, overflowed, failed>>
    BY <1>12 DEF TranscribeRemaining, delivery
  <2>2. audioQueue = <<>> /\ finishAfterQueuedAudio
    BY <1>0, <2>1 DEF ServedInv
  <2>3. Range(pendingAudio) \cup Covered \subseteq Range(pendingAudio') \cup Covered' /\ pendingAudio' = <<>>
    <3>1. CASE RemainingIsTranscribed
      <4>1. Output(pendingAudio, TRUE, FALSE) /\ pendingAudio' = <<>>
        BY <1>12, <3>1 DEF TranscribeRemaining
      <4>2. Covered' = Covered \cup Range(pendingAudio)
        BY <1>0, <4>1, OutputAppends DEF TypedInv
      <4> QED BY <4>1, <4>2
    <3>2. CASE ~RemainingIsTranscribed
      <4>1. pendingAudio = <<>>
        BY <1>0, <2>2, <3>2 DEF RemainingIsTranscribed, TypedInv
      <4>2. UNCHANGED <<pendingAudio, outputs>>
        BY <1>12, <3>2 DEF TranscribeRemaining, stream
      <4>3. UNCHANGED Covered
        BY <4>2 DEF Covered
      <4> QED BY <4>1, <4>2, <4>3
    <3> QED BY <3>1, <3>2
  <2>4. ASSUME ~failed, NEW d \in accepted \ overflowed PROVE Kept(d)'
    <3>1. Kept(d)
      BY <2>4 DEF KeptInv
    <3>2. CASE Samples(d) \subseteq Range(pendingAudio) \cup Covered
      BY <2>3, <3>2 DEF Kept
    <3> QED BY <2>1, <3>1, <3>2 DEF Kept
  <2> QED BY <2>1, <2>2, <2>3, <2>4 DEF KeptInv
<1>13. CASE TranscribeFails
  BY <1>13, <1>f DEF TranscribeFails, Fail
<1>14. CASE OutputError
  <2>1. failed'
    BY <1>14, <1>0 DEF OutputError, ServedInv
  <2> QED BY <1>f, <2>1
<1>15. CASE Finally
  <2>1. /\ pc = "finally" /\ pc' = "publish" /\ pendingAudio' = <<>> /\ audioQueue' = <<>>
        /\ UNCHANGED <<chunk, outputs, accepted, overflowed, failed>>
    BY <1>15 DEF Finally, delivery
  <2>2. UNCHANGED Covered
    BY <2>1 DEF Covered
  <2>3. ASSUME ~failed, NEW d \in accepted \ overflowed PROVE Kept(d)'
    <3>1. Kept(d) /\ audioQueue = <<>> /\ pendingAudio = <<>>
      BY <2>1, <2>3 DEF KeptInv
    <3> QED BY <2>1, <2>2, <3>1 DEF Kept
  <2> QED BY <2>1, <2>3 DEF KeptInv
<1>16. CASE PublishStopped
  <2>1. /\ UNCHANGED <<audioQueue, pendingAudio, outputs, chunk, accepted, overflowed, failed>>
        /\ pc' = "finally" => pc = "finally"
    BY <1>16 DEF PublishStopped, stream, delivery
  <2> QED BY <1>s, <2>1
<1>17. CASE UNCHANGED vars
  BY <1>17, <1>s DEF vars, stream, delivery
<1> QED
  BY <1>1, <1>2, <1>3, <1>4, <1>5, <1>6, <1>7, <1>8, <1>9, <1>10, <1>11, <1>12, <1>13,
     <1>14, <1>15, <1>16, <1>17 DEF Next, WorkerStep, SubmitStep

(* As long as the thread has not failed, every chunk submit accepted and   *)
(* did not push out of the full queue is waiting, in hand, pending or      *)
(* covered by a published result, however submit, stop, resume, the drain  *)
(* and the final window interleave.                                        *)
THEOREM AcceptedAudioIsKept == Spec => []AudioAccountedFor
<1>1. Init => KeptInv
  BY DEF Init, KeptInv
<1>2. WorkerInv /\ KeptInv => AudioAccountedFor
  <2> SUFFICES ASSUME WorkerInv, KeptInv PROVE AudioAccountedFor
    OBVIOUS
  <2>1. FlagsOK /\ RingInv /\ ServedInv /\ OwnInv /\ TypedInv
    BY DEF WorkerInv
  <2>2. recorded \in InitialSamples..(InitialSamples + MaxRecorded)
    BY <2>1, ConstantFacts DEF RingInv, TypedInv
  <2>3. closed \subseteq accepted
    BY <2>1 DEF OwnInv
  <2>5. SubmittingOK
    BY DEF WorkerInv, SubInv
  <2>4. DataOK
    BY <2>1, <2>2, <2>3, <2>5 DEF DataOK, TypedInv, ServedInv, OwnInv
  <2> QED BY <2>1, <2>4 DEF AudioAccountedFor, TypeOK, KeptInv, Kept
<1> QED BY WorkerInvariant, KeptStep, <1>1, <1>2, PTL DEF Spec

-----------------------------------------------------------------------------
(* The order of the samples: what is pending comes before the chunk in     *)
(* hand, that before the chunks waiting, and those in the order they came. *)
Increasing(s) == \A i, j \in DOMAIN s : i < j => s[i] < s[j]

QueueOrder ==
    /\ \A i, j \in DOMAIN audioQueue :
          i < j => audioQueue[i].from + audioQueue[i].count <= audioQueue[j].from
    /\ \A i \in DOMAIN audioQueue :
          /\ audioQueue[i].from + audioQueue[i].count <= recorded
          /\ chunk.from + chunk.count <= audioQueue[i].from
    /\ chunk.from + chunk.count <= recorded

PendingOrder ==
    /\ Increasing(pendingAudio)
    /\ \A k \in DOMAIN pendingAudio :
          /\ pendingAudio[k] < recorded
          /\ pc = "append" => pendingAudio[k] < chunk.from
          /\ \A i \in DOMAIN audioQueue : pendingAudio[k] < audioQueue[i].from
    /\ \A i \in DOMAIN outputs : Increasing(outputs[i].audio)

OrderInv == QueueOrder /\ PendingOrder

(* Chunks have whole numbers for position and length. *)
LEMMA ChunkFacts ==
    ASSUME WorkerInv
    PROVE  /\ \A i \in DOMAIN audioQueue :
                 audioQueue[i] \in ChunkSet /\ audioQueue[i].from \in Nat /\ audioQueue[i].count \in Nat
           /\ chunk.from \in Nat /\ chunk.count \in Nat /\ recorded \in Nat
           /\ \A k \in DOMAIN pendingAudio : pendingAudio[k] \in Nat
<1>1. RingInv /\ OwnInv /\ TypedInv
  BY DEF WorkerInv
<1>2. \A c \in ChunkSet : c.from \in Nat /\ c.count \in Nat
  BY ConstantFacts DEF ChunkSet
<1>3. \A i \in DOMAIN audioQueue : audioQueue[i] \in ChunkSet
  BY <1>1 DEF RingInv
<1>4. chunk.from \in Nat /\ chunk.count \in Nat
  BY <1>1, <1>2 DEF TypedInv, NoChunk
<1>5. \A k \in DOMAIN pendingAudio : pendingAudio[k] \in Nat
  BY <1>1 DEF TypedInv
<1> QED BY <1>1, <1>2, <1>3, <1>4, <1>5 DEF RingInv

(* A step of submit that changes the queue puts the new chunk last or      *)
(* takes the first away, and keeps the others in their order.              *)
LEMMA DeliveredQueue ==
    ASSUME WorkerInv, NEW n \in 1..MaxChunk, Delivered(n), audioQueue' # audioQueue
    PROVE  \A j \in DOMAIN audioQueue' :
              \/ j = Len(audioQueue') /\ audioQueue'[j] = [from |-> recorded, count |-> n]
              \/ j < Len(audioQueue') /\ j \in DOMAIN audioQueue /\ audioQueue'[j] = audioQueue[j]
<1> DEFINE c == [from |-> recorded, count |-> n]
           q == audioQueue
<1>1. q \in Seq(ChunkSet) /\ c \in ChunkSet
  BY ConstantFacts DEF Delivered, ChunkSet, WorkerInv, RingInv
<1>2. audioQueue' = Append(q, c)
  BY DEF Delivered, Refuse, Enqueue
<1> HIDE DEF c
<1>3. DOMAIN audioQueue' = 1..(Len(q) + 1) /\ Len(audioQueue') = Len(q) + 1
      /\ audioQueue'[Len(q) + 1] = c /\ \A j \in 1..Len(q) : audioQueue'[j] = q[j]
  BY <1>1, <1>2
<1>4. \A j \in 1..(Len(q) + 1) : j = Len(q) + 1 \/ (j < Len(q) + 1 /\ j \in 1..Len(q))
  BY <1>1
<1>5. \A j \in DOMAIN audioQueue' :
          \/ j = Len(audioQueue') /\ audioQueue'[j] = c
          \/ j < Len(audioQueue') /\ j \in DOMAIN q /\ audioQueue'[j] = q[j]
  BY <1>1, <1>3, <1>4
<1> QED BY <1>5 DEF c

LEMMA EvictedQueue ==
    ASSUME WorkerInv, Evicted
    PROVE  \A j \in DOMAIN audioQueue' : j + 1 \in DOMAIN audioQueue /\ audioQueue'[j] = audioQueue[j + 1]
<1>1. audioQueue \in Seq(ChunkSet) /\ audioQueue # <<>> /\ audioQueue' = Tail(audioQueue)
  BY DEF WorkerInv, RingInv, Evicted
<1>2. Len(audioQueue) \in Nat /\ Len(audioQueue) >= 1 /\ DOMAIN audioQueue = 1..Len(audioQueue)
      /\ DOMAIN audioQueue' = 1..(Len(audioQueue) - 1)
  BY <1>1
<1>3. \A j \in 1..(Len(audioQueue) - 1) :
          j + 1 \in 1..Len(audioQueue) /\ audioQueue'[j] = audioQueue[j + 1]
  BY <1>1, <1>2
<1> QED BY <1>2, <1>3

LEMMA TakenQueue ==
    ASSUME WorkerInv, TakeChunk
    PROVE  /\ 1 \in DOMAIN audioQueue /\ chunk' = audioQueue[1]
           /\ \A j \in DOMAIN audioQueue' : j + 1 \in DOMAIN audioQueue /\ audioQueue'[j] = audioQueue[j + 1]
<1>1. audioQueue \in Seq(ChunkSet) /\ audioQueue # <<>> /\ audioQueue' = Tail(audioQueue)
      /\ chunk' = Head(audioQueue)
  BY DEF WorkerInv, RingInv, TakeChunk
<1>2. Len(audioQueue) \in Nat /\ Len(audioQueue) >= 1 /\ DOMAIN audioQueue = 1..Len(audioQueue)
      /\ DOMAIN audioQueue' = 1..(Len(audioQueue) - 1)
  BY <1>1
<1>3. \A j \in 1..(Len(audioQueue) - 1) :
          j + 1 \in 1..Len(audioQueue) /\ audioQueue'[j] = audioQueue[j + 1]
  BY <1>1, <1>2
<1> QED BY <1>1, <1>2, <1>3

LEMMA OutputKeeps ==
    ASSUME TypedInv, NEW audio \in Seq(Nat), NEW final \in BOOLEAN, NEW error \in BOOLEAN,
           Output(audio, final, error), Increasing(audio),
           \A i \in DOMAIN outputs : Increasing(outputs[i].audio)
    PROVE  \A i \in DOMAIN outputs' : Increasing(outputs'[i].audio)
<1>1. /\ \A i \in 1..Len(outputs) : outputs'[i] = outputs[i]
      /\ outputs'[Len(outputs) + 1].audio = audio /\ Len(outputs) \in Nat
      /\ DOMAIN outputs = 1..Len(outputs) /\ DOMAIN outputs' = 1..(Len(outputs) + 1)
  BY OutputAppends
<1>2. \A i \in 1..(Len(outputs) + 1) : i \in 1..Len(outputs) \/ i = Len(outputs) + 1
  BY <1>1
<1> QED BY <1>1, <1>2

LEMMA OrderStep == WorkerInv /\ OrderInv /\ [Next]_vars => OrderInv'
<1> SUFFICES ASSUME WorkerInv, OrderInv, [Next]_vars PROVE OrderInv'
  OBVIOUS
<1>0. TypedInv /\ OwnInv /\ RingInv
  BY DEF WorkerInv
<1>s. ASSUME UNCHANGED <<audioQueue, pendingAudio, outputs, chunk, recorded>>, pc' = "append" => pc = "append"
      PROVE  OrderInv'
  BY <1>s DEF OrderInv, QueueOrder, PendingOrder, Increasing
<1>1. CASE Start
  <2>1. UNCHANGED <<audioQueue, pendingAudio, outputs, chunk, recorded>> /\ (pc' = "append" => pc = "append")
    BY <1>1 DEF Start, stream, delivery
  <2> QED BY <1>s, <2>1
<1>2. CASE SubmitStep
  <2>0. SubInv
    BY DEF WorkerInv
  <2>1. UNCHANGED <<pendingAudio, outputs, chunk, pc>>
    BY <1>2, <2>0, SubmitCases DEF Frame, stream
  <2>2. CASE Idle
    BY <1>s, <2>1, <2>2 DEF Idle
  <2>3. ASSUME NEW n \in 1..MaxChunk, Delivered(n) PROVE OrderInv'
    <3>1. recorded' = recorded + n
      BY <2>3 DEF Delivered, Refuse, Enqueue
    <3>2. CASE UNCHANGED audioQueue
      BY <2>1, <3>1, <3>2, ChunkFacts DEF OrderInv, QueueOrder, PendingOrder
    <3>3. CASE audioQueue' # audioQueue
      <4>1. \A j \in DOMAIN audioQueue' :
                \/ j = Len(audioQueue') /\ audioQueue'[j].from = recorded /\ audioQueue'[j].count = n
                \/ j < Len(audioQueue') /\ j \in DOMAIN audioQueue /\ audioQueue'[j] = audioQueue[j]
        BY <2>3, <3>3, DeliveredQueue
      <4>2. audioQueue' \in Seq(ChunkSet)
        BY OwnStep, <1>0, <2>0 DEF OwnInv
      <4>3. DOMAIN audioQueue' = 1..Len(audioQueue') /\ Len(audioQueue') \in Nat
        BY <4>2
      <4>4. ASSUME NEW j \in DOMAIN audioQueue'
            PROVE  /\ audioQueue'[j].from + audioQueue'[j].count <= recorded'
                   /\ chunk.from + chunk.count <= audioQueue'[j].from
                   /\ \A k \in DOMAIN pendingAudio : pendingAudio[k] < audioQueue'[j].from
        <5>1. CASE audioQueue'[j].from = recorded /\ audioQueue'[j].count = n
          BY <3>1, <5>1, ChunkFacts DEF OrderInv, QueueOrder, PendingOrder
        <5>2. CASE j \in DOMAIN audioQueue /\ audioQueue'[j] = audioQueue[j]
          BY <3>1, <5>2, ChunkFacts DEF OrderInv, QueueOrder, PendingOrder
        <5> QED BY <4>1, <5>1, <5>2
      <4>5. ASSUME NEW i \in DOMAIN audioQueue', NEW j \in DOMAIN audioQueue', i < j
            PROVE  audioQueue'[i].from + audioQueue'[i].count <= audioQueue'[j].from
        <5>1. i < Len(audioQueue') /\ i \in DOMAIN audioQueue /\ audioQueue'[i] = audioQueue[i]
          BY <4>1, <4>3, <4>5
        <5>2. CASE audioQueue'[j].from = recorded
          BY <5>1, <5>2 DEF OrderInv, QueueOrder
        <5>3. CASE j \in DOMAIN audioQueue /\ audioQueue'[j] = audioQueue[j]
          BY <4>5, <5>1, <5>3 DEF OrderInv, QueueOrder
        <5> QED BY <4>1, <5>2, <5>3
      <4>6. chunk.from + chunk.count <= recorded' /\ \A k \in DOMAIN pendingAudio : pendingAudio[k] < recorded'
        BY <3>1, ChunkFacts DEF OrderInv, QueueOrder, PendingOrder
      <4>7. QueueOrder'
        BY <2>1, <4>4, <4>5, <4>6 DEF QueueOrder
      <4>8. PendingOrder'
        BY <2>1, <4>4, <4>6 DEF OrderInv, PendingOrder, Increasing
      <4> QED BY <4>7, <4>8 DEF OrderInv
    <3> QED BY <3>2, <3>3
  <2>4. CASE Evicted
    <3>1. UNCHANGED recorded
      BY <2>4 DEF Evicted
    <3>2. \A j \in DOMAIN audioQueue' : j + 1 \in DOMAIN audioQueue /\ audioQueue'[j] = audioQueue[j + 1]
      BY <2>4, EvictedQueue
    <3>3. audioQueue' \in Seq(ChunkSet)
      BY OwnStep, <1>0, <2>0 DEF OwnInv
    <3>4. ASSUME NEW i \in DOMAIN audioQueue', NEW j \in DOMAIN audioQueue', i < j
          PROVE  audioQueue'[i].from + audioQueue'[i].count <= audioQueue'[j].from
      <4>1. i + 1 < j + 1
        BY <3>3, <3>4
      <4> QED BY <3>2, <4>1 DEF OrderInv, QueueOrder
    <3>5. QueueOrder'
      BY <2>1, <3>1, <3>2, <3>4 DEF OrderInv, QueueOrder
    <3>6. PendingOrder'
      BY <2>1, <3>1, <3>2 DEF OrderInv, PendingOrder, Increasing
    <3> QED BY <3>5, <3>6 DEF OrderInv
  <2> QED BY <1>2, <2>0, <2>2, <2>3, <2>4, SubmitCases
<1>3. CASE RequestStop
  <2>1. UNCHANGED <<audioQueue, pendingAudio, outputs, chunk, recorded>> /\ (pc' = "append" => pc = "append")
    BY <1>3 DEF RequestStop, stream, delivery
  <2> QED BY <1>s, <2>1
<1>4. CASE ResumeAudioSubmission
  <2>1. UNCHANGED <<audioQueue, pendingAudio, outputs, chunk, recorded>> /\ (pc' = "append" => pc = "append")
    BY <1>4 DEF ResumeAudioSubmission, stream, delivery
  <2> QED BY <1>s, <2>1
<1>5. CASE OpenModel
  <2>1. UNCHANGED <<audioQueue, pendingAudio, outputs, chunk, recorded>> /\ (pc' = "append" => pc = "append")
    BY <1>5 DEF OpenModel, stream, delivery, Fail
  <2> QED BY <1>s, <2>1
<1>6. CASE TakeChunk
  <2>1. UNCHANGED <<pendingAudio, outputs, recorded>>
    BY <1>6 DEF TakeChunk, stream, delivery
  <2>2. /\ 1 \in DOMAIN audioQueue /\ chunk' = audioQueue[1]
        /\ \A j \in DOMAIN audioQueue' : j + 1 \in DOMAIN audioQueue /\ audioQueue'[j] = audioQueue[j + 1]
    BY <1>6, TakenQueue
  <2>3. \A j \in DOMAIN audioQueue' : j \in Nat /\ 1 < j + 1
    <3>1. audioQueue' \in Seq(ChunkSet)
      BY OwnStep, <1>0 DEF OwnInv, WorkerInv
    <3> QED BY <3>1
  <2>4. QueueOrder'
    BY <2>1, <2>2, <2>3 DEF OrderInv, QueueOrder
  <2>5. PendingOrder'
    BY <2>1, <2>2 DEF OrderInv, PendingOrder, Increasing
  <2> QED BY <2>4, <2>5 DEF OrderInv
<1>7. CASE PollEmpty
  <2>1. UNCHANGED <<audioQueue, pendingAudio, outputs, chunk, recorded>> /\ (pc' = "append" => pc = "append")
    BY <1>7 DEF PollEmpty, stream, delivery
  <2> QED BY <1>s, <2>1
<1>8. CASE AppendChunk
  <2>1. chunk \in ChunkSet /\ Len(pendingAudio) + chunk.count <= RingCapacity /\ pc = "append"
    BY <1>8, <1>0, ConstantFacts DEF AppendChunk, RingInv, RingCapacity, ChunkSet
  <2>2. /\ pendingAudio' = pendingAudio \o AsSequence(chunk) /\ pc' = "windows" /\ chunk' = NoChunk
        /\ UNCHANGED <<audioQueue, outputs, recorded>>
    BY <1>8, <2>1 DEF AppendChunk, delivery
  <2> DEFINE l == Len(pendingAudio)
  <2>3. /\ Len(pendingAudio') = l + chunk.count
        /\ \A i \in 1..l : pendingAudio'[i] = pendingAudio[i]
        /\ \A i \in 1..chunk.count : pendingAudio'[l + i] = chunk.from + i - 1
    BY <1>0, <2>1, <2>2, AppendSamples DEF TypedInv
  <2>4. l \in Nat /\ DOMAIN pendingAudio = 1..l /\ chunk.from \in Nat /\ chunk.count \in Nat
    BY <1>0, ChunkFacts DEF TypedInv
  <2>5. DOMAIN pendingAudio' = 1..(l + chunk.count)
    <3>1. pendingAudio' \in Seq(Nat)
      BY <1>0, TypedStep DEF TypedInv
    <3> QED BY <2>3, <3>1
  <2> HIDE DEF l
  <2>6. ASSUME NEW k \in DOMAIN pendingAudio'
        PROVE  \/ k \in DOMAIN pendingAudio /\ pendingAudio'[k] = pendingAudio[k]
               \/ k > l /\ pendingAudio'[k] = chunk.from + (k - l) - 1 /\ k - l \in 1..chunk.count
    <3>1. CASE k <= l
      BY <2>3, <2>4, <2>5, <3>1
    <3>2. CASE k > l
      <4>1. k - l \in 1..chunk.count /\ l + (k - l) = k
        BY <2>4, <2>5, <3>2
      <4>2. pendingAudio'[l + (k - l)] = chunk.from + (k - l) - 1
        BY <2>3, <4>1
      <4> QED BY <3>2, <4>1, <4>2
    <3> QED BY <2>4, <2>5, <3>1, <3>2
  <2>7. QueueOrder'
    BY <2>2, ChunkFacts DEF OrderInv, QueueOrder, NoChunk
  <2>8. Increasing(pendingAudio')
    <3> SUFFICES ASSUME NEW i \in DOMAIN pendingAudio', NEW j \in DOMAIN pendingAudio', i < j
                 PROVE  pendingAudio'[i] < pendingAudio'[j]
      BY DEF Increasing
    <3>1. i \in Nat /\ j \in Nat
      BY <2>4, <2>5
    <3>2. CASE i \in DOMAIN pendingAudio /\ pendingAudio'[i] = pendingAudio[i]
      <4>1. CASE j \in DOMAIN pendingAudio /\ pendingAudio'[j] = pendingAudio[j]
        BY <3>2, <4>1 DEF OrderInv, PendingOrder, Increasing
      <4>2. CASE pendingAudio'[j] = chunk.from + (j - l) - 1 /\ j - l \in 1..chunk.count
        <5>1. pendingAudio[i] < chunk.from /\ pendingAudio[i] \in Nat
          BY <2>1, <3>2, ChunkFacts DEF OrderInv, PendingOrder
        <5> QED BY <2>4, <3>1, <3>2, <4>2, <5>1
      <4> QED BY <2>6, <4>1, <4>2
    <3>3. CASE i > l /\ pendingAudio'[i] = chunk.from + (i - l) - 1
      <4>1. j > l
        BY <2>4, <3>1, <3>3
      <4>2. pendingAudio'[j] = chunk.from + (j - l) - 1
        BY <2>4, <2>6, <4>1
      <4> QED BY <2>4, <3>1, <3>3, <4>2
    <3> QED BY <2>6, <3>2, <3>3
  <2>9. ASSUME NEW k \in DOMAIN pendingAudio'
        PROVE  /\ pendingAudio'[k] < recorded
               /\ \A i \in DOMAIN audioQueue : pendingAudio'[k] < audioQueue[i].from
    <3>1. CASE k \in DOMAIN pendingAudio /\ pendingAudio'[k] = pendingAudio[k]
      BY <3>1 DEF OrderInv, PendingOrder
    <3>2. CASE pendingAudio'[k] = chunk.from + (k - l) - 1 /\ k - l \in 1..chunk.count
      <4>1. k \in Nat
        BY <2>4, <2>5
      <4>2. pendingAudio'[k] < chunk.from + chunk.count
        BY <2>4, <3>2, <4>1
      <4>3. pendingAudio'[k] \in Int
        BY <2>4, <3>2, <4>1
      <4> QED BY <2>4, <4>2, <4>3, ChunkFacts DEF OrderInv, QueueOrder
    <3> QED BY <2>6, <3>1, <3>2
  <2>10. PendingOrder'
    <3>1. \A i \in DOMAIN outputs' : Increasing(outputs'[i].audio)
      BY <2>2 DEF OrderInv, PendingOrder
    <3> QED BY <2>2, <2>8, <2>9, <3>1 DEF PendingOrder, Increasing
  <2> QED BY <2>7, <2>10 DEF OrderInv
<1>9. CASE TranscribeWindow
  <2> DEFINE w == SubSeq(pendingAudio, 1, Window)
             l == Len(pendingAudio)
             d == DiscardSamples
  <2>1. /\ l >= Window /\ pc' = "windows"
        /\ pendingAudio' = SubSeq(pendingAudio, d + 1, l)
        /\ Output(w, FALSE, FALSE) /\ UNCHANGED <<audioQueue, chunk, recorded>>
    BY <1>9 DEF TranscribeWindow, delivery
  <2>2. /\ w \in Seq(Nat) /\ Len(w) = Window /\ \A i \in 1..Window : w[i] = pendingAudio[i]
        /\ pendingAudio' \in Seq(Nat) /\ Len(pendingAudio') = l - d
        /\ \A i \in 1..(l - d) : pendingAudio'[i] = pendingAudio[d + i]
    BY <1>0, <2>1, WindowSplit DEF TypedInv
  <2>3. d \in 1..Window /\ Window \in Nat /\ l \in Nat /\ DOMAIN pendingAudio = 1..l
    BY <1>0, ConstantFacts, OverlapAssumption DEF DiscardSamples, Larger, TypedInv
  <2>4. DOMAIN w = 1..Window /\ DOMAIN pendingAudio' = 1..(l - d)
    BY <2>2
  <2> HIDE DEF w, l, d
  <2>5. \A i \in 1..(l - d) : d + i \in 1..l
    BY <2>1, <2>3
  <2>6. Increasing(pendingAudio')
    <3> SUFFICES ASSUME NEW i \in 1..(l - d), NEW j \in 1..(l - d), i < j
                 PROVE  pendingAudio[d + i] < pendingAudio[d + j]
      BY <2>2, <2>4 DEF Increasing
    <3>1. d + i < d + j
      BY <2>3
    <3> QED BY <2>3, <2>5, <3>1 DEF OrderInv, PendingOrder, Increasing
  <2>7. Increasing(w)
    <3>1. \A i \in 1..Window : i \in 1..l
      BY <2>1, <2>3
    <3> QED BY <2>2, <2>3, <2>4, <3>1 DEF OrderInv, PendingOrder, Increasing
  <2>8. \A i \in DOMAIN outputs' : Increasing(outputs'[i].audio)
    BY <1>0, <2>1, <2>2, <2>7, OutputKeeps DEF OrderInv, PendingOrder
  <2>9. QueueOrder'
    BY <2>1 DEF OrderInv, QueueOrder
  <2>10. PendingOrder'
    BY <2>1, <2>2, <2>3, <2>4, <2>5, <2>6, <2>8 DEF OrderInv, PendingOrder
  <2> QED BY <2>9, <2>10 DEF OrderInv
<1>10. CASE WindowsDone
  <2>1. UNCHANGED <<audioQueue, pendingAudio, outputs, chunk, recorded>> /\ (pc' = "append" => pc = "append")
    BY <1>10 DEF WindowsDone, stream, delivery
  <2> QED BY <1>s, <2>1
<1>11. CASE BeginTerminationIfDrained
  <2>1. UNCHANGED <<audioQueue, pendingAudio, outputs, chunk, recorded>> /\ (pc' = "append" => pc = "append")
    BY <1>11 DEF BeginTerminationIfDrained, stream, delivery
  <2> QED BY <1>s, <2>1
<1>12. CASE TranscribeRemaining
  <2>1. pc' = "finally" /\ UNCHANGED <<audioQueue, chunk, recorded>>
    BY <1>12 DEF TranscribeRemaining, delivery
  <2>2. CASE UNCHANGED stream
    BY <1>s, <2>1, <2>2 DEF stream
  <2>3. CASE Output(pendingAudio, TRUE, FALSE) /\ pendingAudio' = <<>>
    <3>1. \A i \in DOMAIN outputs' : Increasing(outputs'[i].audio)
      BY <1>0, <2>3, OutputKeeps DEF OrderInv, PendingOrder, TypedInv
    <3>2. Increasing(pendingAudio') /\ DOMAIN pendingAudio' = {}
      BY <2>3 DEF Increasing
    <3>3. PendingOrder'
      BY <3>1, <3>2 DEF PendingOrder
    <3> QED BY <2>1, <3>3 DEF OrderInv, QueueOrder
  <2> QED BY <1>12, <2>2, <2>3 DEF TranscribeRemaining
<1>13. CASE TranscribeFails
  <2>1. UNCHANGED <<audioQueue, pendingAudio, outputs, chunk, recorded>> /\ (pc' = "append" => pc = "append")
    BY <1>13 DEF TranscribeFails, stream, delivery, Fail
  <2> QED BY <1>s, <2>1
<1>14. CASE OutputError
  <2>1. pc' = "finally" /\ UNCHANGED <<audioQueue, chunk, recorded, pendingAudio>> /\ Output(<<>>, FALSE, TRUE)
    BY <1>14 DEF OutputError, delivery
  <2>2. \A i \in DOMAIN outputs' : Increasing(outputs'[i].audio)
    <3>1. Increasing(<<>>)
      BY DEF Increasing
    <3> QED BY <1>0, <2>1, <3>1, EmptyAudio, OutputKeeps DEF OrderInv, PendingOrder
  <2>3. PendingOrder'
    BY <2>1, <2>2 DEF OrderInv, PendingOrder, Increasing
  <2> QED BY <2>1, <2>3 DEF OrderInv, QueueOrder
<1>15. CASE Finally
  <2>1. /\ pc' = "publish" /\ pendingAudio' = <<>> /\ audioQueue' = <<>>
        /\ UNCHANGED <<chunk, outputs, recorded>>
    BY <1>15 DEF Finally, delivery
  <2>2. Increasing(pendingAudio') /\ DOMAIN pendingAudio' = {} /\ DOMAIN audioQueue' = {}
    BY <2>1 DEF Increasing
  <2> QED BY <2>1, <2>2 DEF OrderInv, QueueOrder, PendingOrder
<1>16. CASE PublishStopped
  <2>1. UNCHANGED <<audioQueue, pendingAudio, outputs, chunk, recorded>> /\ (pc' = "append" => pc = "append")
    BY <1>16 DEF PublishStopped, stream, delivery
  <2> QED BY <1>s, <2>1
<1>17. CASE UNCHANGED vars
  BY <1>17, <1>s DEF vars, stream, delivery
<1> QED
  BY <1>1, <1>2, <1>3, <1>4, <1>5, <1>6, <1>7, <1>8, <1>9, <1>10, <1>11, <1>12, <1>13,
     <1>14, <1>15, <1>16, <1>17 DEF Next, WorkerStep, SubmitStep

(* Until the thread ends, the pending audio begins with the end of the     *)
(* last window.                                                            *)
Ending == {"catch", "finally", "publish", "done"}

Follows(audio, before) ==
    /\ Len(audio) >= Overlap /\ Len(before) = Window
    /\ \A k \in 1..Overlap : audio[k] = before[Window - Overlap + k]

OverlapInv ==
    /\ pc \notin Ending /\ outputs # <<>> => Follows(pendingAudio, outputs[Len(outputs)].audio)
    /\ \A i \in 2..Len(outputs) :
          ~outputs[i].error => Follows(outputs[i].audio, outputs[i - 1].audio)

LEMMA SameOverlap ==
    ASSUME NEW a \in Seq(Nat), NEW b \in Seq(Nat), Follows(a, b)
    PROVE  SubSeq(a, 1, Overlap) = SubSeq(b, Window - Overlap + 1, Window)
<1>1. Overlap \in Nat /\ Window \in Nat /\ Overlap < Window
  BY ConstantFacts, OverlapAssumption
<1>2. Overlap <= Len(a) /\ Len(b) = Window /\ Len(a) \in Nat
  BY DEF Follows
<1> DEFINE x == SubSeq(a, 1, Overlap)
           y == SubSeq(b, Window - Overlap + 1, Window)
<1>3. x \in Seq(Nat) /\ Len(x) = Overlap /\ \A i \in 1..Overlap : x[i] = a[i]
  <2>1. \A i \in 1..Overlap : a[i] \in Nat
    BY <1>1, <1>2
  <2> QED BY <1>1, <2>1, SubSeqProperties
<1>4. y \in Seq(Nat) /\ Len(y) = Overlap /\ \A i \in 1..Overlap : y[i] = b[Window - Overlap + i]
  <2> DEFINE m == Window - Overlap + 1
  <2>1. m \in Nat /\ m >= 1 /\ m <= Window + 1 /\ Window - m + 1 = Overlap
    BY <1>1
  <2>2. \A i \in m..Window : b[i] \in Nat
    BY <1>2, <2>1
  <2>3. \A i \in 1..Overlap : m + i - 1 = Window - Overlap + i
    BY <1>1
  <2> HIDE DEF m
  <2>4. LET s == SubSeq(b, m, Window)
        IN  s \in Seq(Nat) /\ Len(s) = Overlap /\ \A i \in 1..Overlap : s[i] = b[m + i - 1]
    BY <1>1, <2>1, <2>2, SubSeqProperties
  <2> QED BY <2>3, <2>4 DEF m
<1>5. \A i \in 1..Overlap : x[i] = y[i]
  BY <1>3, <1>4 DEF Follows
<1> HIDE DEF x, y
<1>6. x = y
  BY <1>3, <1>4, <1>5, SeqEqual
<1> QED BY <1>6 DEF x, y

LEMMA NextFollows ==
    ASSUME WorkerInv, OverlapInv, NEW audio \in Seq(Nat), NEW final \in BOOLEAN, NEW error \in BOOLEAN,
           Output(audio, final, error),
           ~error /\ outputs # <<>> => Follows(audio, outputs[Len(outputs)].audio)
    PROVE  /\ \A i \in 2..Len(outputs') :
                 ~outputs'[i].error => Follows(outputs'[i].audio, outputs'[i - 1].audio)
           /\ outputs'[Len(outputs')].audio = audio
<1>1. /\ Len(outputs') = Len(outputs) + 1
      /\ \A i \in 1..Len(outputs) : outputs'[i] = outputs[i]
      /\ outputs'[Len(outputs) + 1].audio = audio
      /\ outputs'[Len(outputs) + 1].error = error /\ Len(outputs) \in Nat
  BY OutputAppends DEF WorkerInv
<1>2. ASSUME NEW i \in 2..Len(outputs'), ~outputs'[i].error
      PROVE  Follows(outputs'[i].audio, outputs'[i - 1].audio)
  <2>1. i - 1 \in 1..Len(outputs) /\ i - 1 >= 1
    BY <1>1
  <2>2. CASE i \in 1..Len(outputs)
    <3>1. i \in 2..Len(outputs)
      BY <1>1, <2>2
    <3>2. outputs'[i] = outputs[i] /\ outputs'[i - 1] = outputs[i - 1]
      BY <1>1, <2>1, <2>2
    <3> QED BY <1>2, <3>1, <3>2 DEF OverlapInv
  <2>3. CASE i = Len(outputs) + 1
    <3>1. outputs # <<>> /\ i - 1 = Len(outputs)
      BY <1>1, <2>3
    <3>2. Follows(audio, outputs[Len(outputs)].audio)
      BY <1>1, <1>2, <2>3, <3>1
    <3> QED BY <1>1, <2>1, <2>3, <3>1, <3>2
  <2> QED BY <1>1, <2>2, <2>3
<1> QED BY <1>1, <1>2

LEMMA OverlapStep == WorkerInv /\ OverlapInv /\ [Next]_vars => OverlapInv'
<1> SUFFICES ASSUME WorkerInv, OverlapInv, [Next]_vars PROVE OverlapInv'
  OBVIOUS
<1>0. TypedInv /\ RingInv /\ ServedInv
  BY DEF WorkerInv
<1>s. ASSUME UNCHANGED <<pendingAudio, outputs>>, pc \in Ending => pc' \in Ending
      PROVE  OverlapInv'
  BY <1>s DEF OverlapInv
<1> USE DEF Ending
<1>1. CASE Start
  <2>1. UNCHANGED <<pendingAudio, outputs>> /\ (pc \in Ending => pc' \in Ending)
    BY <1>1 DEF Start, stream
  <2> QED BY <1>s, <2>1
<1>2. CASE SubmitStep
  <2>1. UNCHANGED <<pendingAudio, outputs>> /\ (pc \in Ending => pc' \in Ending)
    BY <1>2, SubmitCases DEF Frame, stream, WorkerInv
  <2> QED BY <1>s, <2>1
<1>3. CASE RequestStop
  <2>1. UNCHANGED <<pendingAudio, outputs>> /\ (pc \in Ending => pc' \in Ending)
    BY <1>3 DEF RequestStop, stream
  <2> QED BY <1>s, <2>1
<1>4. CASE ResumeAudioSubmission
  <2>1. UNCHANGED <<pendingAudio, outputs>> /\ (pc \in Ending => pc' \in Ending)
    BY <1>4 DEF ResumeAudioSubmission, stream
  <2> QED BY <1>s, <2>1
<1>5. CASE OpenModel
  <2>1. UNCHANGED <<pendingAudio, outputs>> /\ (pc \in Ending => pc' \in Ending)
    BY <1>5 DEF OpenModel, stream, Fail
  <2> QED BY <1>s, <2>1
<1>6. CASE TakeChunk
  <2>1. UNCHANGED <<pendingAudio, outputs>> /\ (pc \in Ending => pc' \in Ending)
    BY <1>6 DEF TakeChunk, stream
  <2> QED BY <1>s, <2>1
<1>7. CASE PollEmpty
  <2>1. UNCHANGED <<pendingAudio, outputs>> /\ (pc \in Ending => pc' \in Ending)
    BY <1>7 DEF PollEmpty, stream
  <2> QED BY <1>s, <2>1
<1>8. CASE AppendChunk
  <2>1. chunk \in ChunkSet /\ Len(pendingAudio) + chunk.count <= RingCapacity /\ pc = "append"
    BY <1>8, <1>0, ConstantFacts DEF AppendChunk, RingInv, RingCapacity, ChunkSet
  <2>2. pendingAudio' = pendingAudio \o AsSequence(chunk) /\ UNCHANGED outputs
    BY <1>8, <2>1 DEF AppendChunk
  <2>3. /\ Len(pendingAudio') = Len(pendingAudio) + chunk.count
        /\ \A i \in 1..Len(pendingAudio) : pendingAudio'[i] = pendingAudio[i]
    BY <1>0, <2>1, <2>2, AppendSamples DEF TypedInv
  <2>4. Len(pendingAudio) \in Nat /\ chunk.count \in Nat /\ Overlap \in Nat
    BY <1>0, ChunkFacts, ConstantFacts DEF TypedInv
  <2>5. ASSUME outputs # <<>> PROVE Follows(pendingAudio', outputs[Len(outputs)].audio)
    <3>1. Follows(pendingAudio, outputs[Len(outputs)].audio)
      BY <2>1, <2>5 DEF OverlapInv
    <3>2. \A k \in 1..Overlap : k \in 1..Len(pendingAudio)
      BY <2>4, <3>1 DEF Follows
    <3> QED BY SMTT(30), <2>3, <2>4, <3>1, <3>2 DEF Follows
  <2> QED BY <2>2, <2>5 DEF OverlapInv
<1>9. CASE TranscribeWindow
  <2> DEFINE w == SubSeq(pendingAudio, 1, Window)
             l == Len(pendingAudio)
             d == DiscardSamples
  <2>1. /\ l >= Window /\ pc = "windows"
        /\ pendingAudio' = SubSeq(pendingAudio, d + 1, l) /\ Output(w, FALSE, FALSE)
    BY <1>9 DEF TranscribeWindow
  <2>2. /\ w \in Seq(Nat) /\ Len(w) = Window /\ \A i \in 1..Window : w[i] = pendingAudio[i]
        /\ Len(pendingAudio') = l - d
        /\ \A i \in 1..(l - d) : pendingAudio'[i] = pendingAudio[d + i]
    BY <1>0, <2>1, WindowSplit DEF TypedInv
  <2>3. d = Window - Overlap /\ Window \in Nat /\ l \in Nat /\ Overlap \in Nat /\ Overlap < Window
    BY <1>0, ConstantFacts, OverlapAssumption DEF DiscardSamples, Larger, TypedInv
  <2> HIDE DEF w, l, d
  <2>4. outputs # <<>> => Follows(w, outputs[Len(outputs)].audio)
    <3> SUFFICES ASSUME outputs # <<>> PROVE Follows(w, outputs[Len(outputs)].audio)
      OBVIOUS
    <3>1. \A k \in 1..Overlap : k \in 1..Window
      BY <2>3
    <3>2. Follows(pendingAudio, outputs[Len(outputs)].audio)
      BY <2>1 DEF OverlapInv
    <3> DEFINE b == outputs[Len(outputs)].audio
    <3>3. /\ Len(b) = Window
          /\ \A k \in 1..Overlap : pendingAudio[k] = b[Window - Overlap + k]
      BY <3>2 DEF Follows
    <3>4. Len(w) >= Overlap
      BY <2>2, <2>3
    <3> HIDE DEF b
    <3>5. \A k \in 1..Overlap : w[k] = b[Window - Overlap + k]
      BY <2>2, <3>1, <3>3
    <3>6. Follows(w, b)
      BY <3>3, <3>4, <3>5 DEF Follows
    <3> QED BY <3>6 DEF b
  <2>5. /\ \A i \in 2..Len(outputs') :
              ~outputs'[i].error => Follows(outputs'[i].audio, outputs'[i - 1].audio)
        /\ outputs'[Len(outputs')].audio = w
    BY <2>1, <2>2, <2>4, NextFollows
  <2>6. Follows(pendingAudio', w)
    <3>1. Len(pendingAudio') >= Overlap
      BY <2>1, <2>2, <2>3
    <3>2. \A k \in 1..Overlap : k \in 1..(l - d) /\ Window - Overlap + k \in 1..Window
      BY <2>1, <2>3
    <3> QED BY <2>2, <2>3, <3>1, <3>2 DEF Follows
  <2> QED BY <2>5, <2>6 DEF OverlapInv
<1>10. CASE WindowsDone
  <2>1. UNCHANGED <<pendingAudio, outputs>> /\ (pc \in Ending => pc' \in Ending)
    BY <1>10 DEF WindowsDone, stream
  <2> QED BY <1>s, <2>1
<1>11. CASE BeginTerminationIfDrained
  <2>1. UNCHANGED <<pendingAudio, outputs>> /\ (pc \in Ending => pc' \in Ending)
    BY <1>11 DEF BeginTerminationIfDrained, stream
  <2> QED BY <1>s, <2>1
<1>12. CASE TranscribeRemaining
  <2>1. pc = "final" /\ pc' = "finally"
    BY <1>12 DEF TranscribeRemaining
  <2>2. CASE UNCHANGED stream
    BY <1>s, <2>1, <2>2 DEF stream
  <2>3. CASE Output(pendingAudio, TRUE, FALSE)
    <3>1. outputs # <<>> => Follows(pendingAudio, outputs[Len(outputs)].audio)
      BY <2>1 DEF OverlapInv
    <3> QED BY <1>0, <2>1, <2>3, <3>1, NextFollows DEF OverlapInv, TypedInv
  <2> QED BY <1>12, <2>2, <2>3 DEF TranscribeRemaining
<1>13. CASE TranscribeFails
  <2>1. UNCHANGED <<pendingAudio, outputs>> /\ (pc \in Ending => pc' \in Ending)
    BY <1>13 DEF TranscribeFails, stream, Fail
  <2> QED BY <1>s, <2>1
<1>14. CASE OutputError
  <2>1. pc' = "finally" /\ Output(<<>>, FALSE, TRUE)
    BY <1>14 DEF OutputError
  <2> QED BY <2>1, EmptyAudio, NextFollows DEF OverlapInv
<1>15. CASE Finally
  <2>1. pc' = "publish" /\ UNCHANGED outputs
    BY <1>15 DEF Finally
  <2> QED BY <2>1 DEF OverlapInv
<1>16. CASE PublishStopped
  <2>1. UNCHANGED <<pendingAudio, outputs>> /\ (pc \in Ending => pc' \in Ending)
    BY <1>16 DEF PublishStopped, stream
  <2> QED BY <1>s, <2>1
<1>17. CASE UNCHANGED vars
  BY <1>17, <1>s DEF vars, stream
<1> QED
  BY <1>1, <1>2, <1>3, <1>4, <1>5, <1>6, <1>7, <1>8, <1>9, <1>10, <1>11, <1>12, <1>13,
     <1>14, <1>15, <1>16, <1>17 DEF Next, WorkerStep, SubmitStep

(* Results overlap: every window, the final one included, begins with the  *)
(* last overlapSamples of the window before it, and no result holds a      *)
(* sample twice or out of order, however the recording was cut into        *)
(* chunks and whatever the queue dropped.                                  *)
THEOREM ResultsOverlap == Spec => []WindowsOverlap
<1>1. Init => OrderInv /\ OverlapInv
  <2>1. Init => QueueOrder
    BY InitialAssumption DEF Init, QueueOrder, NoChunk
  <2>2. Init => PendingOrder /\ OverlapInv
    BY DEF Init, PendingOrder, Increasing, OverlapInv
  <2> QED BY <2>1, <2>2 DEF OrderInv
<1>2. WorkerInv /\ OrderInv /\ OverlapInv => WindowsOverlap
  <2> SUFFICES ASSUME WorkerInv, OrderInv, OverlapInv PROVE WindowsOverlap
    OBVIOUS
  <2>1. outputs \in Seq(OutputSet)
    BY DEF WorkerInv, TypedInv
  <2>2. ASSUME NEW i \in 1..Len(outputs) PROVE outputs[i].audio \in Seq(Nat)
    <3>1. outputs[i] \in OutputSet
      BY <2>1
    <3> QED BY <3>1 DEF OutputSet
  <2>3. ASSUME NEW i \in 2..Len(outputs), ~outputs[i].error
        PROVE  SubSeq(outputs[i].audio, 1, Overlap)
                   = SubSeq(outputs[i - 1].audio, Window - Overlap + 1, Window)
    <3>1. i \in 1..Len(outputs) /\ i - 1 \in 1..Len(outputs)
      BY <2>1
    <3>2. outputs[i].audio \in Seq(Nat) /\ outputs[i - 1].audio \in Seq(Nat)
      BY <2>2, <3>1
    <3>3. Follows(outputs[i].audio, outputs[i - 1].audio)
      BY <2>3 DEF OverlapInv
    <3> QED BY <3>2, <3>3, SameOverlap
  <2> QED BY <2>3 DEF WindowsOverlap, OrderInv, PendingOrder, Increasing
<1> QED BY WorkerInvariant, OrderStep, OverlapStep, <1>1, <1>2, PTL DEF Spec

-----------------------------------------------------------------------------
(* Positions in the stream.  The audio still ahead of the pending buffer   *)
(* is what waits and what is in hand; Fed is what has gone into the        *)
(* buffer, Present(p, Live) what of the recording before p was not   *)
(* lost.  No later step changes it for a position the buffer has reached.  *)
Live == accepted \ overflowed
Ahead == Range(audioQueue) \cup Hand
FedChunks == Live \ Ahead
Fed == UNION {Samples(c) : c \in FedChunks}
Present(p, live) == {q \in InitialSamples..(p - 1) : \E c \in live : q \in Samples(c)}

Settled(p, ahead, end) ==
    p \in Nat /\ InitialSamples <= p /\ p <= end /\ \A a \in ahead : p <= a.from
Placed(p, n, ahead, end, live) ==
    Settled(p, ahead, end) /\ n = InitialSamples + Cardinality(Present(p, live))

LiveInv ==
    /\ overflowed \subseteq closed
    /\ \A c \in accepted : c.from >= InitialSamples
    /\ \A c \in FedChunks, a \in Ahead : c.from + c.count <= a.from

OutputsPlaced ==
    \A i \in DOMAIN outputs : ~outputs[i].error =>
        Len(outputs[i].audio) >= 1 /\ Placed(outputs[i].audio[1], outputs[i].start, Ahead, recorded, Live)

PendingPlaced ==
    pc \notin Ending =>
        /\ processedSamples + Len(pendingAudio) = InitialSamples + Cardinality(Fed)
        /\ \A i \in DOMAIN pendingAudio : Placed(pendingAudio[i], processedSamples + i - 1, Ahead, recorded, Live)

PlaceInv == LiveInv /\ OutputsPlaced /\ PendingPlaced

(* How a step may change what is live and what is ahead. *)
Onward ==
    /\ recorded' \in Nat /\ recorded' >= recorded
    /\ \A a \in Ahead' : a \in Ahead \/ a.from = recorded
    /\ \A c \in Live' : c \in Live \/ c.from = recorded
    /\ \A c \in Live : c \in Live' \/ c \in Ahead

LEMMA LiveFacts ==
    ASSUME WorkerInv, LiveInv
    PROVE  /\ Ahead \subseteq accepted /\ Ahead \subseteq Live
           /\ \A c \in accepted : /\ c \in ChunkSet /\ c.from \in Nat /\ c.count \in Nat /\ c.count >= 1
                                 /\ c.from + c.count <= recorded
           /\ recorded \in Nat /\ InitialSamples \in Nat
<1>1. OwnInv /\ TypedInv
  BY DEF WorkerInv
<1>2. Ahead \subseteq accepted /\ Ahead \cap closed = {}
  BY <1>1, Zenon DEF OwnInv, Ahead
<1>3. Ahead \subseteq Live
  BY <1>2 DEF Live, LiveInv
<1>4. \A c \in accepted : c \in ChunkSet /\ c.from + c.count <= recorded
  BY <1>1 DEF OwnInv
<1>5. \A c \in ChunkSet : c.from \in Nat /\ c.count \in Nat /\ c.count >= 1
  BY ConstantFacts DEF ChunkSet
<1> QED BY <1>1, <1>2, <1>3, <1>4, <1>5, ConstantFacts DEF OwnInv

LEMMA SettledStays ==
    ASSUME WorkerInv, LiveInv, Onward, NEW x, Settled(x, Ahead, recorded)
    PROVE  Settled(x, Ahead', recorded') /\ Present(x, Live') = Present(x, Live)
<1>1. recorded \in Nat /\ InitialSamples \in Nat /\ x \in Nat
  BY LiveFacts DEF Settled
<1>2. Settled(x, Ahead', recorded')
  BY <1>1 DEF Settled, Onward
<1>3. ASSUME NEW q \in InitialSamples..(x - 1)
      PROVE  (\E c \in Live : q \in Samples(c)) <=> (\E c \in Live' : q \in Samples(c))
  <2>1. ASSUME NEW c \in Live, q \in Samples(c) PROVE c \in Live'
    <3>1. c.from \in Nat /\ c.from <= q
      BY <2>1, LiveFacts DEF Live, Samples
    <3>2. c \notin Ahead
      BY <1>1, <3>1 DEF Settled
    <3> QED BY <3>2 DEF Onward
  <2>2. ASSUME NEW c \in Live', q \in Samples(c) PROVE c \in Live
    <3>1. CASE c.from = recorded
      BY <1>1, <2>2, <3>1 DEF Settled, Samples
    <3> QED BY <3>1 DEF Onward
  <2> QED BY <2>1, <2>2
<1>4. Present(x, Live') = Present(x, Live)
  BY <1>3 DEF Present
<1> QED BY <1>2, <1>4

(* submit leaves what was fed alone: the new chunk is ahead, and the one   *)
(* pushed out of the queue was.                                            *)
LEMMA DeliveredOnward ==
    ASSUME WorkerInv, LiveInv, Frame, NEW n \in 1..MaxChunk, Delivered(n)
    PROVE  Onward /\ LiveInv' /\ FedChunks' = FedChunks
<1> DEFINE c == [from |-> recorded, count |-> n]
<1>1. c \in ChunkSet /\ c.from = recorded /\ n \in Nat /\ n >= 1
  BY ConstantFacts DEF Delivered, ChunkSet, WorkerInv, RingInv
<1>2. /\ recorded' = recorded + n /\ UNCHANGED <<chunk, pc, Hand>>
      /\ UNCHANGED <<overflowed, closed>>
  BY DEF Delivered, Refuse, Enqueue, Frame, Hand
<1>3. /\ recorded \in Nat /\ InitialSamples \in Nat /\ recorded >= InitialSamples
      /\ \A d \in accepted : d.from \in Nat /\ d.count \in Nat /\ d.count >= 1 /\ d.from + d.count <= recorded
      /\ Ahead \subseteq Live
  BY LiveFacts DEF WorkerInv, RingInv
<1>4. recorded' \in Nat /\ recorded' >= recorded
  BY <1>1, <1>2, <1>3
<1>5. c \notin accepted
  BY <1>1, <1>3
<1>6. OwnInv
  BY DEF WorkerInv
<1>7. CASE Refuse(n)
  <2>1. UNCHANGED <<Live, Ahead, FedChunks>> /\ UNCHANGED accepted
    BY <1>2, <1>7 DEF Live, Ahead, FedChunks, Refuse
  <2> QED BY <1>2, <1>4, <2>1 DEF Onward, LiveInv
<1>8. CASE Enqueue(n)
  <2>0. accepted' = accepted \cup {c} /\ audioQueue' = Append(audioQueue, c)
    BY <1>8 DEF Enqueue
  <2> HIDE DEF c
  <2>1. Range(audioQueue') = Range(audioQueue) \cup {c}
    BY <1>1, <1>6, <2>0, AppendedQueue DEF OwnInv
  <2>2. Ahead' = Ahead \cup {c}
    BY <1>2, <2>1 DEF Ahead
  <2>3. c \notin overflowed /\ Live' = Live \cup {c}
    BY <1>2, <1>5, <1>6, <2>0 DEF Live, OwnInv, LiveInv
  <2>4. FedChunks' = FedChunks
    BY <1>5, <2>2, <2>3 DEF FedChunks, Live
  <2>5. \A d \in FedChunks : d.from + d.count <= c.from
    BY <1>1, <1>3 DEF FedChunks, Live
  <2>6. LiveInv'
    BY <1>1, <1>2, <1>3, <2>0, <2>2, <2>4, <2>5 DEF LiveInv
  <2> QED BY <1>1, <1>4, <2>2, <2>3, <2>4, <2>6 DEF Onward
<1> QED BY <1>7, <1>8 DEF Delivered

LEMMA EvictedOnward ==
    ASSUME WorkerInv, LiveInv, Frame, Evicted
    PROVE  Onward /\ LiveInv' /\ FedChunks' = FedChunks
<1> DEFINE h == Head(audioQueue)
<1>1. OwnInv /\ recorded \in Nat
  BY DEF WorkerInv, OwnInv
<1>2. h \in Range(audioQueue) /\ Range(audioQueue') = Range(audioQueue) \ {h}
  BY <1>1, TailRange DEF Evicted, OwnInv
<1>3. /\ overflowed' = overflowed \cup {h} /\ closed' = closed \cup {h}
      /\ UNCHANGED <<accepted, recorded, Hand>>
  BY DEF Evicted, Frame, Hand
<1> HIDE DEF h
<1>4. h \notin Hand /\ h \in Ahead
  BY <1>1, <1>2 DEF OwnInv, Ahead
<1>5. Ahead' = Ahead \ {h}
  BY <1>2, <1>3, <1>4 DEF Ahead
<1>6. Live' = Live \ {h}
  BY <1>3 DEF Live
<1>7. FedChunks' = FedChunks
  BY <1>4, <1>5, <1>6 DEF FedChunks
<1>8. LiveInv'
  BY <1>3, <1>5, <1>7 DEF LiveInv
<1> QED BY <1>1, <1>3, <1>4, <1>5, <1>6, <1>7, <1>8 DEF Onward

LEMMA SubmitOnward ==
    ASSUME WorkerInv, LiveInv, SubmitStep
    PROVE  Onward /\ LiveInv' /\ FedChunks' = FedChunks
<1>1. SubInv /\ OwnInv
  BY DEF WorkerInv
<1>2. CASE Idle
  <2>1. UNCHANGED <<Live, Ahead, FedChunks, accepted, overflowed, closed, recorded>>
    BY <1>1, <1>2, SubmitCases DEF Idle, Frame, Live, Ahead, FedChunks, Hand
  <2> QED BY <1>1, <2>1 DEF Onward, LiveInv, OwnInv
<1> QED BY <1>1, <1>2, SubmitCases, DeliveredOnward, EvictedOnward

(* A step that only moves a chunk from the queue to the hand, or drops the *)
(* queue, changes nothing that is settled.                                 *)
LEMMA QuietOnward ==
    ASSUME WorkerInv, LiveInv, UNCHANGED <<accepted, overflowed, recorded>>, Ahead' \subseteq Ahead
    PROVE  Onward /\ UNCHANGED Live
<1>1. recorded \in Nat
  BY LiveFacts
<1> QED BY <1>1 DEF Onward, Live

LEMMA FedFinite ==
    ASSUME WorkerInv, LiveInv
    PROVE  IsFiniteSet(Fed) /\ Cardinality(Fed) \in Nat
<1>1. Fed \subseteq 0..recorded
  <2>1. ASSUME NEW c \in FedChunks, NEW q \in Samples(c) PROVE q \in 0..recorded
    BY LiveFacts DEF FedChunks, Live, Samples
  <2> QED BY <2>1 DEF Fed
<1>2. IsFiniteSet(0..recorded)
  BY LiveFacts, FS_Interval
<1> QED BY <1>1, <1>2, FS_Subset, FS_CardinalityType

(* The samples of the chunk in hand follow what was fed. *)
LEMMA FedGrows ==
    ASSUME WorkerInv, LiveInv, OrderInv, pc = "append", NEW j \in 0..chunk.count
    PROVE  /\ chunk \in Ahead /\ chunk.from \in Nat /\ chunk.count \in Nat
           /\ Settled(chunk.from, Ahead, recorded)
           /\ Cardinality(Fed \cup chunk.from..(chunk.from + j - 1)) = Cardinality(Fed) + j
           /\ Present(chunk.from + j, Live) = Fed \cup chunk.from..(chunk.from + j - 1)
<1>1. chunk \in ChunkSet /\ Hand = {chunk} /\ chunk \in Ahead
  BY DEF WorkerInv, OwnInv, RingInv, Hand, Ahead
<1>2. /\ chunk \in Live /\ chunk \in accepted /\ chunk.from \in Nat /\ chunk.count \in Nat
      /\ chunk.from + chunk.count <= recorded /\ recorded \in Nat /\ InitialSamples \in Nat
      /\ Ahead \subseteq Live
  BY <1>1, LiveFacts
<1>3. chunk.from >= InitialSamples
  BY <1>2 DEF LiveInv
<1>4. \A a \in Ahead : a = chunk \/ chunk.from + chunk.count <= a.from
  BY <1>1 DEF Ahead, Range, OrderInv, QueueOrder
<1>5. \A a \in Ahead : a.from \in Nat
  BY <1>2, LiveFacts
<1>6. Settled(chunk.from, Ahead, recorded)
  BY <1>2, <1>3, <1>4, <1>5 DEF Settled
<1> DEFINE R == chunk.from..(chunk.from + j - 1)
<1>7. IsFiniteSet(R) /\ Cardinality(R) = j
  <2>1. chunk.from \in Int /\ chunk.from + j - 1 \in Int
    BY <1>2
  <2>2. IsFiniteSet(R) /\ Cardinality(R) = IF chunk.from > chunk.from + j - 1 THEN 0 ELSE (chunk.from + j - 1) - chunk.from + 1
    BY <2>1, FS_Interval
  <2> QED BY <1>2, <2>2
<1>8. ASSUME NEW q \in Fed PROVE q \in Nat /\ q >= InitialSamples /\ q < chunk.from
  <2>1. PICK c \in FedChunks : q \in Samples(c)
    BY DEF Fed
  <2>2. c.from + c.count <= chunk.from /\ c.from >= InitialSamples
    BY <1>1 DEF LiveInv, FedChunks, Live
  <2>3. c.from \in Nat /\ c.count \in Nat
    BY LiveFacts DEF FedChunks, Live
  <2> QED BY <1>2, <2>1, <2>2, <2>3 DEF Samples
<1>9. Cardinality(Fed \cup R) = Cardinality(Fed) + j
  <2>1. Fed \cap R = {}
    BY <1>2, <1>8
  <2>2. IsFiniteSet(Fed) /\ Cardinality(Fed) \in Nat
    BY FedFinite
  <2> HIDE DEF R
  <2>3. Cardinality(Fed \cup R) = Cardinality(Fed) + Cardinality(R) - Cardinality({})
    BY <1>7, <2>1, <2>2, FS_Union
  <2> QED BY <1>7, <2>2, <2>3, FS_EmptySet
<1>10. ASSUME NEW q \in Present(chunk.from + j, Live) PROVE q \in Fed \cup R
  <2>1. q \in Nat /\ q < chunk.from + j
    BY <1>2 DEF Present
  <2>2. PICK c \in Live : q \in Samples(c)
    BY DEF Present
  <2>3. c.from \in Nat /\ c.from <= q
    BY <2>2, LiveFacts DEF Live, Samples
  <2>4. CASE c \in FedChunks
    BY <2>2, <2>4 DEF Fed
  <2>5. CASE c \in Ahead
    <3>1. c = chunk
      BY <1>2, <1>4, <2>1, <2>3, <2>5
    <3> QED BY <1>2, <2>1, <2>3, <3>1
  <2> QED BY <2>4, <2>5 DEF FedChunks
<1>11. ASSUME NEW q \in Fed PROVE q \in Present(chunk.from + j, Live)
  <2>1. PICK c \in FedChunks : q \in Samples(c)
    BY DEF Fed
  <2>2. q \in InitialSamples..((chunk.from + j) - 1)
    BY <1>2, <1>8
  <2>3. c \in Live
    BY DEF FedChunks
  <2>4. \E d \in Live : q \in Samples(d)
    BY <2>1, <2>3
  <2> QED BY <2>2, <2>4 DEF Present
<1>12. ASSUME NEW q \in R PROVE q \in Present(chunk.from + j, Live)
  <2>1. q \in Samples(chunk)
    BY <1>2 DEF Samples
  <2>2. q \in InitialSamples..((chunk.from + j) - 1)
    BY <1>2, <1>3
  <2> QED BY <1>2, <2>1, <2>2 DEF Present
<1> HIDE DEF R
<1>13. Present(chunk.from + j, Live) = Fed \cup R
  BY <1>10, <1>11, <1>12
<1> QED BY <1>1, <1>2, <1>6, <1>9, <1>13 DEF R

LEMMA PlacedStays ==
    ASSUME WorkerInv, LiveInv, Onward, NEW x, NEW n, Placed(x, n, Ahead, recorded, Live)
    PROVE  Placed(x, n, Ahead', recorded', Live')
<1>1. Settled(x, Ahead', recorded') /\ Present(x, Live') = Present(x, Live)
  BY SettledStays DEF Placed
<1> QED BY <1>1 DEF Placed

LEMMA OutputPlaces ==
    ASSUME WorkerInv, PlaceInv, NEW audio \in Seq(Nat), NEW final \in BOOLEAN, NEW error \in BOOLEAN,
           Output(audio, final, error), Onward,
           ~error => Len(audio) >= 1 /\ Placed(audio[1], processedSamples, Ahead, recorded, Live)
    PROVE  OutputsPlaced'
<1>1. /\ \A i \in 1..Len(outputs) : outputs'[i] = outputs[i]
      /\ outputs'[Len(outputs) + 1].audio = audio
      /\ outputs'[Len(outputs) + 1].start = processedSamples
      /\ outputs'[Len(outputs) + 1].error = error /\ Len(outputs) \in Nat
      /\ DOMAIN outputs = 1..Len(outputs) /\ DOMAIN outputs' = 1..(Len(outputs) + 1)
  BY OutputAppends DEF WorkerInv
<1>2. LiveInv /\ OutputsPlaced
  BY DEF PlaceInv
<1>3. ASSUME NEW i \in DOMAIN outputs', ~outputs'[i].error
      PROVE  /\ Len(outputs'[i].audio) >= 1
             /\ Placed(outputs'[i].audio[1], outputs'[i].start, Ahead', recorded', Live')
  <2>1. CASE i \in 1..Len(outputs)
    <3>1. outputs'[i] = outputs[i] /\ i \in DOMAIN outputs
      BY <1>1, <2>1
    <3>2. /\ Len(outputs[i].audio) >= 1
          /\ Placed(outputs[i].audio[1], outputs[i].start, Ahead, recorded, Live)
      BY <1>2, <1>3, <3>1 DEF OutputsPlaced
    <3> QED BY <1>2, <3>1, <3>2, PlacedStays
  <2>2. CASE i = Len(outputs) + 1
    <3>1. outputs'[i].audio = audio /\ outputs'[i].start = processedSamples
      BY <1>1, <2>2
    <3>2. Len(audio) >= 1 /\ Placed(audio[1], processedSamples, Ahead, recorded, Live)
      BY <1>1, <1>3, <2>2
    <3> QED BY <1>2, <3>1, <3>2, PlacedStays
  <2> QED BY <1>1, <2>1, <2>2
<1> QED BY <1>3 DEF OutputsPlaced

LEMMA OutputsStay ==
    ASSUME WorkerInv, PlaceInv, UNCHANGED outputs, Onward
    PROVE  OutputsPlaced'
<1>1. LiveInv /\ OutputsPlaced
  BY DEF PlaceInv
<1>2. ASSUME NEW i \in DOMAIN outputs, ~outputs[i].error
      PROVE  /\ Len(outputs[i].audio) >= 1
             /\ Placed(outputs[i].audio[1], outputs[i].start, Ahead', recorded', Live')
  <2>1. /\ Len(outputs[i].audio) >= 1
        /\ Placed(outputs[i].audio[1], outputs[i].start, Ahead, recorded, Live)
    BY <1>1, <1>2 DEF OutputsPlaced
  <2> QED BY <1>1, <2>1, PlacedStays
<1> QED BY <1>2 DEF OutputsPlaced

LEMMA PendingStays ==
    ASSUME WorkerInv, PlaceInv, UNCHANGED <<pendingAudio, processedSamples>>, Onward,
           pc \in Ending => pc' \in Ending, pc' \notin Ending => FedChunks' = FedChunks
    PROVE  PendingPlaced'
<1>1. LiveInv /\ PendingPlaced
  BY DEF PlaceInv
<1>2. SUFFICES ASSUME pc' \notin Ending PROVE PendingPlaced'
  BY DEF PendingPlaced
<1>3. Fed' = Fed /\ pc \notin Ending
  BY <1>2 DEF Fed
<1>4. ASSUME NEW i \in DOMAIN pendingAudio
      PROVE  Placed(pendingAudio[i], processedSamples + i - 1, Ahead', recorded', Live')
  <2>1. Placed(pendingAudio[i], processedSamples + i - 1, Ahead, recorded, Live)
    BY <1>1, <1>3 DEF PendingPlaced
  <2> QED BY <1>1, <2>1, PlacedStays
<1> QED BY <1>1, <1>3, <1>4 DEF PendingPlaced

LEMMA PlaceStep == WorkerInv /\ OrderInv /\ PlaceInv /\ [Next]_vars => PlaceInv'
<1> SUFFICES ASSUME WorkerInv, OrderInv, PlaceInv, [Next]_vars PROVE PlaceInv'
  OBVIOUS
<1>0. /\ TypedInv /\ RingInv /\ ServedInv /\ OwnInv
      /\ LiveInv /\ OutputsPlaced /\ PendingPlaced
  BY DEF WorkerInv, PlaceInv
<1>s. ASSUME UNCHANGED <<audioQueue, pendingAudio, processedSamples, outputs, chunk, accepted,
                         overflowed, closed, recorded>>,
             pc \in Ending => pc' \in Ending
      PROVE  PlaceInv'
  <2>1. UNCHANGED <<Live, Ahead, FedChunks>>
    BY <1>s DEF Live, Ahead, FedChunks, Hand
  <2>2. Onward
    BY <1>0, <1>s, <2>1, QuietOnward
  <2>3. LiveInv'
    BY <1>0, <1>s, <2>1 DEF LiveInv
  <2> QED BY <1>s, <2>1, <2>2, <2>3, OutputsStay, PendingStays DEF PlaceInv
<1>1. CASE Start
  <2>1. /\ UNCHANGED <<audioQueue, pendingAudio, processedSamples, outputs, chunk, accepted,
                      overflowed, closed, recorded>>
        /\ pc \in Ending => pc' \in Ending
    BY <1>1 DEF Start, stream, delivery, Ending
  <2> QED BY <1>s, <2>1
<1>2. CASE SubmitStep
  <2>1. UNCHANGED <<pendingAudio, processedSamples, outputs, pc>>
    BY <1>2, SubmitCases DEF Frame, stream, WorkerInv
  <2>2. Onward /\ LiveInv' /\ FedChunks' = FedChunks
    BY <1>0, <1>2, SubmitOnward
  <2> QED BY <2>1, <2>2, OutputsStay, PendingStays DEF PlaceInv
<1>3. CASE RequestStop
  <2>1. /\ UNCHANGED <<audioQueue, pendingAudio, processedSamples, outputs, chunk, accepted,
                      overflowed, closed, recorded>>
        /\ pc \in Ending => pc' \in Ending
    BY <1>3 DEF RequestStop, stream, delivery, Ending
  <2> QED BY <1>s, <2>1
<1>4. CASE ResumeAudioSubmission
  <2>1. /\ UNCHANGED <<audioQueue, pendingAudio, processedSamples, outputs, chunk, accepted,
                      overflowed, closed, recorded>>
        /\ pc \in Ending => pc' \in Ending
    BY <1>4 DEF ResumeAudioSubmission, stream, delivery, Ending
  <2> QED BY <1>s, <2>1
<1>5. CASE OpenModel
  <2>1. /\ UNCHANGED <<audioQueue, pendingAudio, processedSamples, outputs, chunk, accepted,
                      overflowed, closed, recorded>>
        /\ pc \in Ending => pc' \in Ending
    BY <1>5 DEF OpenModel, stream, delivery, Ending, Fail
  <2> QED BY <1>s, <2>1
<1>6. CASE TakeChunk
  <2>1. /\ UNCHANGED <<pendingAudio, processedSamples, outputs, accepted, overflowed, closed, recorded>>
        /\ pc' = "append" /\ pc = "poll" /\ audioQueue # <<>> /\ audioQueue' = Tail(audioQueue)
        /\ chunk' = Head(audioQueue) /\ Hand = {}
    BY <1>6, <1>0 DEF TakeChunk, stream, delivery, OwnInv, Hand
  <2>2. /\ Range(audioQueue') = Range(audioQueue) \ {Head(audioQueue)}
        /\ Head(audioQueue) \in Range(audioQueue) /\ Head(audioQueue) \in ChunkSet
    BY <1>0, <2>1, TailRange DEF OwnInv
  <2>3. Hand' = {Head(audioQueue)}
    BY <2>1, <2>2, ChunkIsNotNoChunk DEF Hand
  <2>4. Ahead' = Ahead
    BY <2>1, <2>2, <2>3 DEF Ahead
  <2>5. Onward /\ UNCHANGED Live
    BY <1>0, <2>1, <2>4, QuietOnward
  <2>6. FedChunks' = FedChunks
    BY <2>4, <2>5 DEF FedChunks
  <2>7. LiveInv'
    BY <1>0, <2>1, <2>4, <2>6 DEF LiveInv
  <2>8. pc \in Ending => pc' \in Ending
    BY <2>1 DEF Ending
  <2> QED BY <2>1, <2>5, <2>6, <2>7, <2>8, OutputsStay, PendingStays DEF PlaceInv
<1>7. CASE PollEmpty
  <2>1. /\ UNCHANGED <<audioQueue, pendingAudio, processedSamples, outputs, chunk, accepted,
                      overflowed, closed, recorded>>
        /\ pc \in Ending => pc' \in Ending
    BY <1>7 DEF PollEmpty, stream, delivery, Ending
  <2> QED BY <1>s, <2>1
<1>8. CASE AppendChunk
  <2>1. chunk \in ChunkSet /\ Len(pendingAudio) + chunk.count <= RingCapacity /\ pc = "append"
    BY <1>8, <1>0, ConstantFacts DEF AppendChunk, RingInv, RingCapacity, ChunkSet
  <2>2. /\ pendingAudio' = pendingAudio \o AsSequence(chunk) /\ pc' = "windows" /\ chunk' = NoChunk
        /\ UNCHANGED <<audioQueue, outputs, accepted, overflowed, recorded, processedSamples>>
        /\ closed' = closed \cup {chunk}
    BY <1>8, <2>1 DEF AppendChunk, delivery
  <2> DEFINE l == Len(pendingAudio)
  <2>3. /\ Len(pendingAudio') = l + chunk.count
        /\ \A i \in 1..l : pendingAudio'[i] = pendingAudio[i]
        /\ \A i \in 1..chunk.count : pendingAudio'[l + i] = chunk.from + i - 1
    BY <1>0, <2>1, <2>2, AppendSamples DEF TypedInv
  <2>4. l \in Nat /\ DOMAIN pendingAudio = 1..l /\ chunk.from \in Nat /\ chunk.count \in Nat
        /\ processedSamples \in Nat /\ InitialSamples \in Nat /\ recorded \in Nat
        /\ chunk.from + chunk.count <= recorded
    BY <1>0, ChunkFacts, LiveFacts DEF TypedInv, OrderInv, QueueOrder
  <2>5. DOMAIN pendingAudio' = 1..(l + chunk.count)
    <3>1. pendingAudio' \in Seq(Nat)
      BY <1>0, TypedStep DEF TypedInv
    <3> QED BY <2>3, <3>1
  <2>6. Hand = {chunk} /\ Hand' = {} /\ chunk \notin Range(audioQueue) /\ chunk \in Live
    <3>1. Hand = {chunk} /\ Hand' = {}
      BY <1>0, <2>1, <2>2 DEF OwnInv, Hand
    <3>2. chunk \in Ahead
      BY <3>1 DEF Ahead
    <3>3. chunk \in Live
      BY <1>0, <3>2, LiveFacts
    <3> QED BY <1>0, <3>1, <3>3 DEF OwnInv
  <2>7. Ahead' = Ahead \ {chunk}
    BY <2>2, <2>6 DEF Ahead
  <2>8. Onward /\ UNCHANGED Live
    BY <1>0, <2>2, <2>7, QuietOnward
  <2>9. FedChunks' = FedChunks \cup {chunk}
    BY <2>6, <2>7, <2>8 DEF FedChunks
  <2>10. \A a \in Ahead' : chunk.from + chunk.count <= a.from
    BY <2>2, <2>6 DEF Ahead, Range, OrderInv, QueueOrder
  <2>11. LiveInv'
    <3>1. \A c \in FedChunks', a \in Ahead' : c.from + c.count <= a.from
      BY <1>0, <2>7, <2>9, <2>10 DEF LiveInv
    <3>2. overflowed' \subseteq closed'
      BY <1>0, <2>2 DEF LiveInv
    <3> QED BY <1>0, <2>2, <3>1, <3>2 DEF LiveInv
  <2>12. OutputsPlaced'
    BY <2>2, <2>8, OutputsStay
  <2>13. Fed' = Fed \cup Samples(chunk)
    BY <2>9 DEF Fed
  <2>14. Cardinality(Fed') = Cardinality(Fed) + chunk.count /\ Cardinality(Fed) \in Nat
    <3>1. chunk.count \in 0..chunk.count
      BY <2>4
    <3>2. Cardinality(Fed \cup chunk.from..(chunk.from + chunk.count - 1)) = Cardinality(Fed) + chunk.count
      BY <1>0, <2>1, <3>1, FedGrows
    <3> QED BY <1>0, <2>13, <3>2, FedFinite DEF Samples
  <2>15. /\ processedSamples + l = InitialSamples + Cardinality(Fed)
         /\ \A i \in DOMAIN pendingAudio : Placed(pendingAudio[i], processedSamples + i - 1, Ahead, recorded, Live)
    BY <1>0, <2>1 DEF PendingPlaced, Ending
  <2> HIDE DEF l
  <2>16. ASSUME NEW k \in 1..(l + chunk.count)
         PROVE  Placed(pendingAudio'[k], processedSamples + k - 1, Ahead', recorded', Live')
    <3>1. CASE k <= l
      <4>1. k \in DOMAIN pendingAudio /\ pendingAudio'[k] = pendingAudio[k]
        BY <2>3, <2>4, <3>1
      <4>2. Placed(pendingAudio[k], processedSamples + k - 1, Ahead, recorded, Live)
        BY <2>15, <4>1
      <4> QED BY <1>0, <2>8, <4>1, <4>2, PlacedStays
    <3>2. CASE k > l
      <4> DEFINE j == k - l - 1
      <4>1. j \in 0..chunk.count /\ j < chunk.count /\ k - l \in 1..chunk.count /\ l + (k - l) = k
        BY <2>4, <3>2
      <4>2. pendingAudio'[k] = chunk.from + j
        <5>1. pendingAudio'[l + (k - l)] = chunk.from + (k - l) - 1
          BY <2>3, <4>1
        <5> QED BY <2>4, <4>1, <5>1
      <4>3. processedSamples + k - 1 = (processedSamples + l) + j
        BY <2>4
      <4> HIDE DEF j
      <4>4. Present(chunk.from + j, Live) = Fed \cup chunk.from..(chunk.from + j - 1)
            /\ Cardinality(Fed \cup chunk.from..(chunk.from + j - 1)) = Cardinality(Fed) + j
            /\ Settled(chunk.from, Ahead, recorded)
        BY <1>0, <2>1, <4>1, FedGrows
      <4>5. Settled(chunk.from + j, Ahead', recorded')
        <5>1. j \in Nat /\ chunk.from + j \in Nat /\ chunk.from + j <= chunk.from + chunk.count
              /\ chunk.from <= chunk.from + j
          BY <2>4, <4>1
        <5>2. InitialSamples <= chunk.from + j /\ chunk.from + j <= recorded
          <6>1. InitialSamples <= chunk.from
            BY <4>4 DEF Settled
          <6> QED BY <2>4, <5>1, <6>1
        <5>3. ASSUME NEW a \in Ahead' PROVE chunk.from + j <= a.from
          <6>1. chunk.from + chunk.count <= a.from /\ a.from \in Nat
            BY <1>0, <2>7, <2>10, LiveFacts, ChunkFacts
          <6> QED BY <2>4, <5>1, <6>1
        <5> QED BY <2>2, <5>1, <5>2, <5>3 DEF Settled
      <4>6. processedSamples + k - 1 = InitialSamples + Cardinality(Present(chunk.from + j, Live))
        <5> DEFINE f == Cardinality(Fed)
        <5>1. Cardinality(Present(chunk.from + j, Live)) = f + j
          BY <4>4
        <5>2. processedSamples + l = InitialSamples + f /\ f \in Nat /\ j \in Nat
          BY <2>14, <2>15, <4>1
        <5> HIDE DEF f
        <5>3. (processedSamples + l) + j = InitialSamples + (f + j)
          BY <2>4, <5>2
        <5> QED BY <4>3, <5>1, <5>3
      <4> QED BY <2>8, <4>2, <4>5, <4>6 DEF Placed
    <3> QED BY <2>4, <3>1, <3>2
  <2>17. PendingPlaced'
    <3>1. processedSamples' + Len(pendingAudio') = InitialSamples + Cardinality(Fed')
      <4> DEFINE f == Cardinality(Fed)
      <4>1. processedSamples + l = InitialSamples + f /\ f \in Nat /\ Cardinality(Fed') = f + chunk.count
        BY <2>14, <2>15
      <4> HIDE DEF f
      <4>2. processedSamples + (l + chunk.count) = InitialSamples + (f + chunk.count)
        <5>1. /\ processedSamples \in Nat /\ l \in Nat /\ chunk.count \in Nat
              /\ InitialSamples \in Nat /\ f \in Nat
          BY <2>4, <4>1
        <5>2. processedSamples + l = InitialSamples + f
          BY <4>1
        <5>3. (processedSamples + l) + chunk.count = (InitialSamples + f) + chunk.count
          BY <5>2
        <5> QED BY <5>1, <5>3, SMT
      <4>3. Len(pendingAudio') = l + chunk.count /\ processedSamples' = processedSamples
        BY <2>2, <2>3
      <4> HIDE DEF l
      <4>4. processedSamples' + Len(pendingAudio') = processedSamples + (l + chunk.count)
        BY <4>3
      <4>5. Cardinality(Fed') = f + chunk.count
        BY <4>1
      <4> QED BY <4>2, <4>4, <4>5
    <3> QED BY <2>2, <2>5, <2>16, <3>1 DEF PendingPlaced
  <2> QED BY <2>11, <2>12, <2>17 DEF PlaceInv
<1>9. CASE TranscribeWindow
  <2> DEFINE w == SubSeq(pendingAudio, 1, Window)
             l == Len(pendingAudio)
             d == DiscardSamples
  <2>1. /\ l >= Window /\ pc = "windows" /\ pc' = "windows"
        /\ pendingAudio' = SubSeq(pendingAudio, d + 1, l) /\ Output(w, FALSE, FALSE)
        /\ processedSamples' = processedSamples + d
        /\ UNCHANGED <<audioQueue, chunk, accepted, overflowed, closed, recorded>>
    BY <1>9 DEF TranscribeWindow, delivery
  <2>2. Onward /\ UNCHANGED <<Live, Ahead, FedChunks>>
    <3>1. UNCHANGED <<Ahead, Live, FedChunks>>
      BY <2>1 DEF Ahead, Hand, Live, FedChunks
    <3> QED BY <1>0, <2>1, <3>1, QuietOnward
  <2>3. LiveInv'
    BY <1>0, <2>1, <2>2 DEF LiveInv
  <2>4. /\ w \in Seq(Nat) /\ Len(w) = Window /\ \A i \in 1..Window : w[i] = pendingAudio[i]
        /\ pendingAudio' \in Seq(Nat) /\ Len(pendingAudio') = l - d
        /\ \A i \in 1..(l - d) : pendingAudio'[i] = pendingAudio[d + i]
    BY <1>0, <2>1, WindowSplit DEF TypedInv
  <2>5. d \in 1..Window /\ Window \in Nat /\ Window >= 1 /\ l \in Nat /\ DOMAIN pendingAudio = 1..l
        /\ processedSamples \in Nat /\ InitialSamples \in Nat
    BY <1>0, ConstantFacts, OverlapAssumption DEF DiscardSamples, Larger, TypedInv
  <2>6. DOMAIN pendingAudio' = 1..(l - d)
    BY <2>4
  <2>7. /\ processedSamples + l = InitialSamples + Cardinality(Fed)
        /\ \A i \in 1..l : Placed(pendingAudio[i], processedSamples + i - 1, Ahead, recorded, Live)
    BY <1>0, <2>1, <2>5 DEF PendingPlaced, Ending
  <2> HIDE DEF w, l, d
  <2>8. Len(w) >= 1 /\ Placed(w[1], processedSamples, Ahead, recorded, Live)
    <3>1. 1 \in 1..Window /\ 1 \in 1..l /\ processedSamples + 1 - 1 = processedSamples
      BY <2>1, <2>5
    <3>2. Placed(pendingAudio[1], processedSamples + 1 - 1, Ahead, recorded, Live) /\ w[1] = pendingAudio[1]
      BY <2>4, <2>7, <3>1
    <3> QED BY <2>4, <2>5, <3>1, <3>2
  <2>9. OutputsPlaced'
    BY <2>1, <2>2, <2>4, <2>8, OutputPlaces
  <2>10. ASSUME NEW i \in 1..(l - d)
         PROVE  Placed(pendingAudio'[i], processedSamples' + i - 1, Ahead', recorded', Live')
    <3>1. d + i \in 1..l /\ processedSamples' + i - 1 = processedSamples + (d + i) - 1
      BY <2>1, <2>5
    <3>2. Placed(pendingAudio[d + i], processedSamples + (d + i) - 1, Ahead, recorded, Live)
      BY <2>7, <3>1
    <3> QED BY <1>0, <2>2, <2>4, <3>1, <3>2, PlacedStays
  <2>11. PendingPlaced'
    <3>1. Fed' = Fed
      BY <2>2 DEF Fed
    <3>2. processedSamples' + Len(pendingAudio') = processedSamples + l
      BY <2>1, <2>4, <2>5
    <3> QED BY <2>6, <2>7, <2>10, <3>1, <3>2 DEF PendingPlaced
  <2> QED BY <2>3, <2>9, <2>11 DEF PlaceInv
<1>10. CASE WindowsDone
  <2>1. /\ UNCHANGED <<audioQueue, pendingAudio, processedSamples, outputs, chunk, accepted,
                      overflowed, closed, recorded>>
        /\ pc \in Ending => pc' \in Ending
    BY <1>10 DEF WindowsDone, stream, delivery, Ending
  <2> QED BY <1>s, <2>1
<1>11. CASE BeginTerminationIfDrained
  <2>1. /\ UNCHANGED <<audioQueue, pendingAudio, processedSamples, outputs, chunk, accepted,
                      overflowed, closed, recorded>>
        /\ pc \in Ending => pc' \in Ending
    BY <1>11 DEF BeginTerminationIfDrained, stream, delivery, Ending
  <2> QED BY <1>s, <2>1
<1>12. CASE TranscribeRemaining
  <2>1. pc = "final" /\ pc' = "finally" /\ UNCHANGED <<audioQueue, chunk, accepted, overflowed, closed, recorded>>
    BY <1>12 DEF TranscribeRemaining, delivery
  <2>2. Onward /\ UNCHANGED <<Live, Ahead, FedChunks>>
    <3>1. UNCHANGED <<Ahead, Live, FedChunks>>
      BY <2>1 DEF Ahead, Hand, Live, FedChunks
    <3> QED BY <1>0, <2>1, <3>1, QuietOnward
  <2>3. LiveInv'
    BY <1>0, <2>1, <2>2 DEF LiveInv
  <2>4. PendingPlaced'
    BY <2>1 DEF PendingPlaced, Ending
  <2>5. OutputsPlaced'
    <3>1. CASE UNCHANGED stream
      BY <2>2, <3>1, OutputsStay DEF stream
    <3>2. CASE RemainingIsTranscribed /\ Output(pendingAudio, TRUE, FALSE)
      <4>1. pendingAudio \in Seq(Nat) /\ Len(pendingAudio) >= 1
        BY <1>0, <3>2, MinFinalAssumption, WindowAssumption DEF RemainingIsTranscribed, TypedInv
      <4>2. 1 \in DOMAIN pendingAudio /\ processedSamples + 1 - 1 = processedSamples
        BY <1>0, <4>1 DEF TypedInv
      <4>3. Placed(pendingAudio[1], processedSamples + 1 - 1, Ahead, recorded, Live)
        BY <1>0, <2>1, <4>2 DEF PendingPlaced, Ending
      <4>4. Placed(pendingAudio[1], processedSamples, Ahead, recorded, Live)
        BY <4>2, <4>3
      <4> QED BY <2>2, <3>2, <4>1, <4>4, OutputPlaces
    <3> QED BY <1>12, <3>1, <3>2 DEF TranscribeRemaining
  <2> QED BY <2>3, <2>4, <2>5 DEF PlaceInv
<1>13. CASE TranscribeFails
  <2>1. /\ UNCHANGED <<audioQueue, pendingAudio, processedSamples, outputs, chunk, accepted,
                      overflowed, closed, recorded>>
        /\ pc \in Ending => pc' \in Ending
    BY <1>13 DEF TranscribeFails, stream, delivery, Ending, Fail
  <2> QED BY <1>s, <2>1
<1>14. CASE OutputError
  <2>1. pc' = "finally" /\ Output(<<>>, FALSE, TRUE) /\ UNCHANGED <<audioQueue, chunk, accepted, overflowed, closed, recorded>>
    BY <1>14 DEF OutputError, delivery
  <2>2. Onward /\ UNCHANGED <<Live, Ahead, FedChunks>>
    <3>1. UNCHANGED <<Ahead, Live, FedChunks>>
      BY <2>1 DEF Ahead, Hand, Live, FedChunks
    <3> QED BY <1>0, <2>1, <3>1, QuietOnward
  <2>3. LiveInv'
    BY <1>0, <2>1, <2>2 DEF LiveInv
  <2>4. PendingPlaced'
    BY <2>1 DEF PendingPlaced, Ending
  <2>5. OutputsPlaced'
    BY <2>1, <2>2, EmptyAudio, OutputPlaces
  <2> QED BY <2>3, <2>4, <2>5 DEF PlaceInv
<1>15. CASE Finally
  <2>1. /\ pc' = "publish" /\ audioQueue' = <<>> /\ closed' = closed \cup Range(audioQueue)
        /\ UNCHANGED <<chunk, outputs, accepted, overflowed, recorded>> /\ chunk = NoChunk
    BY <1>15, <1>0 DEF Finally, delivery, OwnInv
  <2>2. Ahead' = {}
    BY <2>1, NoRange DEF Ahead, Hand
  <2>3. Onward
    BY <1>0, <2>1, <2>2, QuietOnward
  <2>4. LiveInv'
    BY <1>0, <2>1, <2>2 DEF LiveInv
  <2>5. PendingPlaced'
    BY <2>1 DEF PendingPlaced, Ending
  <2> QED BY <2>1, <2>3, <2>4, <2>5, OutputsStay DEF PlaceInv
<1>16. CASE PublishStopped
  <2>1. /\ UNCHANGED <<audioQueue, pendingAudio, processedSamples, outputs, chunk, accepted,
                      overflowed, closed, recorded>>
        /\ pc \in Ending => pc' \in Ending
    BY <1>16 DEF PublishStopped, stream, delivery, Ending
  <2> QED BY <1>s, <2>1
<1>17. CASE UNCHANGED vars
  BY <1>17, <1>s DEF vars, stream, delivery
<1> QED
  BY <1>1, <1>2, <1>3, <1>4, <1>5, <1>6, <1>7, <1>8, <1>9, <1>10, <1>11, <1>12, <1>13,
     <1>14, <1>15, <1>16, <1>17 DEF Next, WorkerStep, SubmitStep

(* The start an event is published with is the position of its first       *)
(* sample less the samples refused by submit or pushed out of the queue    *)
(* before it, for every cutting into chunks: processedSamples counts the   *)
(* audio that reached the buffer, not the time that passed.                *)
THEOREM StartsLagByGaps == Spec => []StartLagsByGaps
<1>1. Init => PlaceInv /\ OrderInv
  <2> SUFFICES ASSUME Init PROVE PlaceInv /\ OrderInv
    OBVIOUS
  <2>1. accepted = {} /\ overflowed = {} /\ closed = {} /\ Live = {} /\ FedChunks = {}
    BY DEF Init, Live, FedChunks
  <2>2. Fed = {} /\ LiveInv
    BY <2>1 DEF Fed, LiveInv
  <2>3. OutputsPlaced
    BY DEF Init, OutputsPlaced
  <2>4. PendingPlaced
    <3>1. Cardinality(Fed) = 0
      BY <2>2, FS_EmptySet
    <3>2. processedSamples = InitialSamples /\ Len(pendingAudio) = 0 /\ DOMAIN pendingAudio = {}
      BY DEF Init
    <3> QED BY <3>1, <3>2, InitialAssumption DEF PendingPlaced
  <2>5. QueueOrder
    BY InitialAssumption DEF Init, QueueOrder, NoChunk
  <2>6. PendingOrder
    BY DEF Init, PendingOrder, Increasing
  <2> QED BY <2>2, <2>3, <2>4, <2>5, <2>6 DEF PlaceInv, OrderInv
<1>2. WorkerInv /\ PlaceInv => StartLagsByGaps
  <2> SUFFICES ASSUME WorkerInv, PlaceInv, NEW i \in DOMAIN outputs, ~outputs[i].error
               PROVE  outputs[i].start + Cardinality(MissingBefore(outputs[i].audio[1])) = outputs[i].audio[1]
    BY DEF StartLagsByGaps
  <2> DEFINE x == outputs[i].audio[1]
             P == Present(x, Live)
             M == MissingBefore(x)
  <2>1. Placed(x, outputs[i].start, Ahead, recorded, Live)
    BY DEF PlaceInv, OutputsPlaced
  <2>2. x \in Nat /\ InitialSamples <= x /\ outputs[i].start = InitialSamples + Cardinality(P)
    BY <2>1 DEF Placed, Settled
  <2>3. P \cup M = InitialSamples..(x - 1) /\ P \cap M = {}
    BY DEF Present, MissingBefore, Live
  <2>4. IsFiniteSet(InitialSamples..(x - 1)) /\ Cardinality(InitialSamples..(x - 1)) = x - InitialSamples
    <3>1. InitialSamples \in Int /\ x - 1 \in Int
      BY <2>2, InitialAssumption
    <3> HIDE DEF x
    <3>2. /\ IsFiniteSet(InitialSamples..(x - 1))
          /\ Cardinality(InitialSamples..(x - 1)) = IF InitialSamples > x - 1 THEN 0 ELSE (x - 1) - InitialSamples + 1
      BY <3>1, FS_Interval
    <3> QED BY <2>2, <3>2, InitialAssumption
  <2> HIDE DEF x, P, M
  <2>5. /\ IsFiniteSet(P) /\ IsFiniteSet(M) /\ Cardinality(P) \in Nat /\ Cardinality(M) \in Nat
    BY <2>3, <2>4, FS_Subset, FS_CardinalityType
  <2>6. x - InitialSamples = Cardinality(P) + Cardinality(M) - Cardinality({})
    BY <2>3, <2>4, <2>5, FS_Union
  <2>7. outputs[i].start + Cardinality(M) = x
    BY <2>2, <2>5, <2>6, FS_EmptySet, InitialAssumption
  <2> QED BY <2>7 DEF x, M
<1> QED BY WorkerInvariant, OrderStep, PlaceStep, <1>1, <1>2, PTL DEF Spec

(* What startMs promises holds until audio is refused or dropped: while no *)
(* sample recorded before a result is missing, the result starts where it  *)
(* is said to start, counted from the beginning of the recording, through  *)
(* any number of overlaps, drains, stops and resumes.                      *)
THEOREM StartsExactWithoutLoss == Spec => []StartExactWithoutLoss
<1>1. WorkerInv /\ StartLagsByGaps => StartExactWithoutLoss
  <2> SUFFICES ASSUME WorkerInv, StartLagsByGaps, NEW i \in DOMAIN outputs, ~outputs[i].error,
                      MissingBefore(outputs[i].audio[1]) = {}
               PROVE  outputs[i].start = outputs[i].audio[1]
    BY DEF StartExactWithoutLoss
  <2>1. outputs[i].start \in Nat
    <3>1. outputs \in Seq(OutputSet)
      BY DEF WorkerInv, TypedInv
    <3>2. outputs[i] \in OutputSet
      BY <3>1
    <3> QED BY <3>2 DEF OutputSet
  <2>2. Cardinality(MissingBefore(outputs[i].audio[1])) = 0
    BY FS_EmptySet
  <2>3. outputs[i].start + 0 = outputs[i].audio[1]
    BY <2>2 DEF StartLagsByGaps
  <2> QED BY <2>1, <2>3
<1> QED BY WorkerInvariant, StartsLagByGaps, <1>1, PTL
=============================================================================
