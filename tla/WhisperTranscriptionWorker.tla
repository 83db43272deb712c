--------------------- MODULE WhisperTranscriptionWorker ---------------------
(***************************************************************************)
(* WhisperTranscriptionWorker: the thread that turns recorded PCM chunks   *)
(* into transcription events, and the three synchronized calls other       *)
(* threads make on it (submit from the recorder thread, requestStop and    *)
(* resumeAudioSubmission from the service).                                *)
(*                                                                         *)
(* A sample is its position in the recording.  The pending audio is the    *)
(* FIFO that PcmRingBuffer is shown to implement.  Nothing interrupts the  *)
(* thread (its reference never leaves the object), so the interrupt tests  *)
(* of the source are always false and are left out.  The calls hold the    *)
(* monitor of the worker; the thread polls its queue without it, so submit *)
(* on a full queue is three steps, and whatever else needs the monitor     *)
(* waits for the last of them.                                             *)
(***************************************************************************)
EXTENDS Integers, Sequences, FiniteSets, Functions

CONSTANTS
    Window,             \* windowSamples
    Overlap,            \* overlapSamples
    MinFinal,           \* minFinalSamples
    SampleRate,         \* sampleRate, the slack of the ring capacity
    QueueCapacity,      \* QUEUE_CAPACITY
    MaxChunk,           \* longest chunk the recorder delivers
    InitialSequence,    \* initialSequence of the constructor
    InitialSamples,     \* initialProcessedSamples of the constructor
    MaxRecorded         \* bound: samples recorded in a behaviour

ASSUME WindowAssumption == Window \in Nat \ {0}
ASSUME OverlapAssumption == Overlap \in 0..(Window - 1)
ASSUME MinFinalAssumption == MinFinal \in 1..Window
ASSUME RateAssumption == SampleRate \in Nat \ {0}
ASSUME QueueAssumption == QueueCapacity \in Nat \ {0}
(* createBufferSize asks for half a second of audio, far below one window  *)
(* plus one second.                                                        *)
ASSUME ChunkAssumption == MaxChunk \in 1..(Window + SampleRate)
ASSUME InitialAssumption == InitialSequence \in Nat /\ InitialSamples \in Nat
ASSUME BoundAssumption == MaxRecorded \in Nat

(* Bug: the ring holds no more than one window. *)
RingCapacityOneWindow == Window

RingCapacity == Window * 2 + SampleRate

VARIABLES
    running, acceptingAudio, drainStopRequested, terminating,
    finishAfterQueuedAudio,
    workerThread,       \* TRUE iff the field is not null
    audioQueue,         \* chunks waiting, oldest first
    pendingAudio,       \* samples waiting for a window, oldest first
    sequence, processedSamples,
    pc,                 \* where the thread is
    mode,               \* "live": run's loop; "drain": drainQueuedAudio's
    chunk,              \* the chunk the thread holds, or NoChunk
    failed,             \* TRUE once the thread caught an exception
    submitting,         \* the call of submit that holds the monitor, if any
    recorded,           \* samples the recorder has delivered so far
    accepted,           \* chunks submit took ownership of
    overflowed,         \* chunks submit dropped from a full queue
    closed,             \* chunks returned to the recorder's pool
    outputs,            \* the transcription events published
    stopEvents          \* number of ThreadStoppedEvents published

flags == <<running, acceptingAudio, drainStopRequested, terminating,
           finishAfterQueuedAudio, workerThread>>
stream == <<pendingAudio, sequence, processedSamples, outputs>>
delivery == <<submitting, recorded, accepted, overflowed>>
vars == <<flags, audioQueue, stream, pc, mode, chunk, failed, delivery, closed, stopEvents>>

NotSubmitting == [at |-> "out", count |-> 0]
NoChunk == [from |-> 0, count |-> 0]
ChunkSet == [from : 0..(InitialSamples + MaxRecorded), count : 1..MaxChunk]

Samples(c) == c.from..(c.from + c.count - 1)
AsSequence(c) == [i \in 1..c.count |-> c.from + i - 1]
Larger(a, b) == IF a >= b THEN a ELSE b

Init ==
    /\ running = FALSE /\ acceptingAudio = FALSE /\ drainStopRequested = FALSE
    /\ terminating = FALSE /\ finishAfterQueuedAudio = FALSE /\ workerThread = FALSE
    /\ audioQueue = <<>> /\ pendingAudio = <<>>
    /\ sequence = InitialSequence /\ processedSamples = InitialSamples
    /\ pc = "new" /\ mode = "live" /\ chunk = NoChunk /\ failed = FALSE
    /\ submitting = NotSubmitting /\ recorded = InitialSamples
    /\ accepted = {} /\ overflowed = {} /\ closed = {}
    /\ outputs = <<>> /\ stopEvents = 0

-----------------------------------------------------------------------------
(* Calls of other threads.  Each is one synchronized method. *)

Start ==
    /\ pc = "new"
    /\ running' = TRUE /\ acceptingAudio' = TRUE
    /\ drainStopRequested' = FALSE /\ terminating' = FALSE
    /\ workerThread' = TRUE
    /\ pc' = "open"
    /\ UNCHANGED <<finishAfterQueuedAudio, audioQueue, stream, mode, chunk, failed,
                   delivery, closed, stopEvents>>

(* The recorder delivers its next n samples, and they wait in the queue; or *)
(* submit returns false and the caller keeps and closes them.               *)
Enqueue(n) ==
    LET c == [from |-> recorded, count |-> n]
    IN  /\ recorded' = recorded + n
        /\ audioQueue' = Append(audioQueue, c)
        /\ accepted' = accepted \cup {c}
Refuse(n) == recorded' = recorded + n /\ UNCHANGED <<audioQueue, accepted>>

HasRoom == Len(audioQueue) < QueueCapacity

(* submit up to its first offer: the chunk is refused, or enters a queue    *)
(* with room, or finds the queue full.                                      *)
Submit(n) ==
    /\ pc # "new" /\ submitting = NotSubmitting
    /\ recorded + n <= InitialSamples + MaxRecorded
    /\ \/ ~(running /\ acceptingAudio) /\ Refuse(n) /\ UNCHANGED submitting
       \/ running /\ acceptingAudio /\ HasRoom /\ Enqueue(n) /\ UNCHANGED submitting
       \/ /\ running /\ acceptingAudio /\ ~HasRoom
          /\ submitting' = [at |-> "evict", count |-> n]
          /\ UNCHANGED <<audioQueue, recorded, accepted>>
    /\ UNCHANGED <<flags, stream, pc, mode, chunk, failed, overflowed, closed, stopEvents>>

(* Bug: the chunk evicted from the full queue is not returned to its pool. *)
SubmitEvictLeaking ==
    /\ submitting.at = "evict"
    /\ submitting' = [submitting EXCEPT !.at = "again"]
    /\ IF audioQueue = <<>> THEN UNCHANGED <<audioQueue, overflowed>>
       ELSE /\ overflowed' = overflowed \cup {Head(audioQueue)}
            /\ audioQueue' = Tail(audioQueue)
    /\ UNCHANGED <<flags, stream, pc, mode, chunk, failed, recorded, accepted, closed,
                   stopEvents>>

(* The oldest chunk is dropped, unless the thread has emptied the queue.   *)
SubmitEvict ==
    /\ submitting.at = "evict"
    /\ submitting' = [submitting EXCEPT !.at = "again"]
    /\ IF audioQueue = <<>> THEN UNCHANGED <<audioQueue, overflowed, closed>>
       ELSE /\ overflowed' = overflowed \cup {Head(audioQueue)}
            /\ closed' = closed \cup {Head(audioQueue)}
            /\ audioQueue' = Tail(audioQueue)
    /\ UNCHANGED <<flags, stream, pc, mode, chunk, failed, recorded, accepted, stopEvents>>

(* The second offer. *)
SubmitAgain ==
    /\ submitting.at = "again"
    /\ submitting' = NotSubmitting
    /\ IF HasRoom THEN Enqueue(submitting.count) ELSE Refuse(submitting.count)
    /\ UNCHANGED <<flags, stream, pc, mode, chunk, failed, overflowed, closed, stopEvents>>

RequestStop ==
    /\ pc # "new" /\ submitting = NotSubmitting
    /\ acceptingAudio' = FALSE
    /\ drainStopRequested' = TRUE
    /\ finishAfterQueuedAudio' = TRUE
    /\ UNCHANGED <<running, terminating, workerThread, audioQueue, stream, pc, mode,
                   chunk, failed, delivery, closed, stopEvents>>

(* Bug: resume does not look at terminating. *)
ResumeWhileTerminating ==
    /\ submitting = NotSubmitting /\ running /\ workerThread
    /\ drainStopRequested' = FALSE
    /\ finishAfterQueuedAudio' = FALSE
    /\ acceptingAudio' = TRUE
    /\ UNCHANGED <<running, terminating, workerThread, audioQueue, stream, pc, mode,
                   chunk, failed, delivery, closed, stopEvents>>

(* resumeAudioSubmission when it returns true; otherwise it does nothing. *)
ResumeAudioSubmission ==
    /\ submitting = NotSubmitting /\ running /\ workerThread /\ ~terminating
    /\ drainStopRequested' = FALSE
    /\ finishAfterQueuedAudio' = FALSE
    /\ acceptingAudio' = TRUE
    /\ UNCHANGED <<running, terminating, workerThread, audioQueue, stream, pc, mode,
                   chunk, failed, delivery, closed, stopEvents>>

-----------------------------------------------------------------------------
(* Steps of the worker thread: run and the methods it calls. *)

Fail == failed' = TRUE /\ pc' = "catch"

(* output: publish the next event, with the audio it covers. *)
Output(audio, final, error) ==
    /\ outputs' = Append(outputs, [sequence |-> sequence, start |-> processedSamples,
                                   audio |-> audio, final |-> final, error |-> error])
    /\ sequence' = sequence + 1

(* The try-with-resources header: the model opens or the constructor throws. *)
OpenModel ==
    /\ pc = "open"
    /\ \/ pc' = "poll" /\ UNCHANGED failed
       \/ Fail
    /\ UNCHANGED <<flags, audioQueue, stream, mode, chunk, delivery, closed, stopEvents>>

TakeChunk ==
    /\ pc = "poll" /\ audioQueue # <<>>
    /\ chunk' = Head(audioQueue)
    /\ audioQueue' = Tail(audioQueue)
    /\ pc' = "append"
    /\ UNCHANGED <<flags, stream, mode, failed, delivery, closed, stopEvents>>

(* poll(200ms) of the live loop times out; poll() of the drain finds nothing. *)
PollEmpty ==
    /\ pc = "poll" /\ audioQueue = <<>>
    /\ pc' = IF mode = "live" THEN "check" ELSE "final"
    /\ UNCHANGED <<flags, audioQueue, stream, mode, chunk, failed, delivery, closed, stopEvents>>

(* append to the ring; the chunk is closed whether or not it fits. *)
AppendChunk ==
    /\ pc = "append"
    /\ IF Len(pendingAudio) + chunk.count <= RingCapacity
       THEN /\ pendingAudio' = pendingAudio \o AsSequence(chunk)
            /\ pc' = "windows" /\ UNCHANGED failed
       ELSE Fail /\ UNCHANGED pendingAudio
    /\ closed' = closed \cup {chunk}
    /\ chunk' = NoChunk
    /\ UNCHANGED <<flags, audioQueue, sequence, processedSamples, outputs, mode, delivery,
                   stopEvents>>

(* Bug: the whole window is discarded and nothing overlaps. *)
DiscardWholeWindow == Window

(* How far a full window moves the stream. *)
DiscardSamples == Larger(1, Window - Overlap)

(* Bug: the position of the next window ignores the overlap. *)
TranscribeWindowMisplaced ==
    /\ pc = "windows" /\ Len(pendingAudio) >= Window
    /\ Output(SubSeq(pendingAudio, 1, Window), FALSE, FALSE)
    /\ pendingAudio' = SubSeq(pendingAudio, DiscardSamples + 1, Len(pendingAudio))
    /\ processedSamples' = processedSamples + Window
    /\ UNCHANGED <<flags, audioQueue, pc, mode, chunk, failed, delivery, closed, stopEvents>>

(* transcribeNextWindow(false), repeated while a whole window is pending. *)
TranscribeWindow ==
    /\ pc = "windows" /\ Len(pendingAudio) >= Window
    /\ Output(SubSeq(pendingAudio, 1, Window), FALSE, FALSE)
    /\ pendingAudio' = SubSeq(pendingAudio, DiscardSamples + 1, Len(pendingAudio))
    /\ processedSamples' = processedSamples + DiscardSamples
    /\ UNCHANGED <<flags, audioQueue, pc, mode, chunk, failed, delivery, closed, stopEvents>>

WindowsDone ==
    /\ pc = "windows" /\ Len(pendingAudio) < Window
    /\ pc' = IF mode = "live" THEN "check" ELSE "poll"
    /\ UNCHANGED <<flags, audioQueue, stream, mode, chunk, failed, delivery, closed, stopEvents>>

(* Bug: a stop request is enough to terminate, whatever still waits, and   *)
(* callers are not told.                                                   *)
BeginTerminationUnguarded ==
    /\ pc = "check" /\ submitting = NotSubmitting
    /\ IF drainStopRequested
       THEN mode' = "drain" /\ pc' = "final"
       ELSE UNCHANGED mode /\ pc' = "poll"
    /\ UNCHANGED <<flags, audioQueue, stream, chunk, failed, delivery, closed, stopEvents>>

(* Bug: the stop request is taken back by the loop that should serve it. *)
BeginTerminationForgetful ==
    /\ pc = "check" /\ submitting = NotSubmitting
    /\ pc' = "poll"
    /\ UNCHANGED <<flags, audioQueue, stream, mode, chunk, failed, delivery, closed, stopEvents>>

BeginTerminationIfDrained ==
    /\ pc = "check" /\ submitting = NotSubmitting
    /\ IF drainStopRequested /\ audioQueue = <<>>
       THEN /\ acceptingAudio' = FALSE /\ terminating' = TRUE
            /\ mode' = "drain"
       ELSE UNCHANGED <<acceptingAudio, terminating, mode>>
    /\ pc' = "poll"
    /\ UNCHANGED <<running, drainStopRequested, finishAfterQueuedAudio, workerThread,
                   audioQueue, stream, chunk, failed, delivery, closed, stopEvents>>

(* The condition of transcribeRemainingAudio. *)
RemainingIsTranscribed ==
    \/ Len(pendingAudio) >= MinFinal
    \/ finishAfterQueuedAudio /\ Len(pendingAudio) > 0

(* transcribeRemainingAudio after its drain: one final, shorter window. *)
TranscribeRemaining ==
    /\ pc = "final"
    /\ IF RemainingIsTranscribed
       THEN /\ Output(pendingAudio, TRUE, FALSE)
            /\ pendingAudio' = <<>>
            /\ processedSamples' = processedSamples + Len(pendingAudio)
       ELSE UNCHANGED stream
    /\ pc' = "finally"
    /\ UNCHANGED <<flags, audioQueue, mode, chunk, failed, delivery, closed, stopEvents>>

(* The native call of transcribeNextWindow throws. *)
TranscribeFails ==
    /\ \/ pc = "windows" /\ Len(pendingAudio) >= Window
       \/ pc = "final" /\ RemainingIsTranscribed
    /\ Fail
    /\ UNCHANGED <<flags, audioQueue, stream, mode, chunk, delivery, closed, stopEvents>>

(* outputError of the catch block. *)
OutputError ==
    /\ pc = "catch"
    /\ Output(<<>>, FALSE, TRUE)
    /\ pc' = "finally"
    /\ UNCHANGED <<flags, audioQueue, pendingAudio, processedSamples, mode, chunk, failed,
                   delivery, closed, stopEvents>>

(* The finally block, up to and including its synchronized section. *)
Finally ==
    /\ pc = "finally" /\ submitting = NotSubmitting
    /\ pendingAudio' = <<>>
    /\ running' = FALSE /\ acceptingAudio' = FALSE /\ drainStopRequested' = FALSE
    /\ terminating' = TRUE /\ workerThread' = FALSE
    /\ audioQueue' = <<>>
    /\ closed' = closed \cup Range(audioQueue)
    /\ pc' = "publish"
    /\ UNCHANGED <<finishAfterQueuedAudio, sequence, processedSamples, outputs, mode, chunk,
                   failed, delivery, stopEvents>>

PublishStopped ==
    /\ pc = "publish"
    /\ stopEvents' = stopEvents + 1
    /\ pc' = "done"
    /\ UNCHANGED <<flags, audioQueue, stream, mode, chunk, failed, delivery, closed>>

WorkerStep ==
    \/ OpenModel \/ TakeChunk \/ PollEmpty \/ AppendChunk \/ TranscribeWindow
    \/ WindowsDone \/ BeginTerminationIfDrained \/ TranscribeRemaining
    \/ TranscribeFails \/ OutputError \/ Finally \/ PublishStopped

Next ==
    \/ Start
    \/ \E n \in 1..MaxChunk : Submit(n)
    \/ SubmitEvict \/ SubmitAgain
    \/ RequestStop
    \/ ResumeAudioSubmission
    \/ WorkerStep

Spec == Init /\ [][Next]_vars

(* The Java thread keeps running: it never waits on anything but its queue *)
(* with a timeout, and the native call returns.  A call of submit that     *)
(* found the queue full goes on to its end.                                *)
FairSpec == Spec /\ WF_vars(WorkerStep) /\ WF_vars(SubmitEvict \/ SubmitAgain)

-----------------------------------------------------------------------------
PcValues == {"new", "open", "poll", "append", "windows", "check", "final", "catch",
             "finally", "publish", "done"}

FlagsOK ==
    /\ running \in BOOLEAN /\ acceptingAudio \in BOOLEAN
    /\ drainStopRequested \in BOOLEAN /\ terminating \in BOOLEAN
    /\ finishAfterQueuedAudio \in BOOLEAN /\ workerThread \in BOOLEAN
    /\ failed \in BOOLEAN

SubmittingOK ==
    /\ submitting \in [at : {"out", "evict", "again"}, count : 0..MaxChunk]
    /\ submitting.at # "out" =>
          submitting.count >= 1 /\ recorded + submitting.count <= InitialSamples + MaxRecorded

DataOK ==
    /\ SubmittingOK
    /\ audioQueue \in Seq(ChunkSet) /\ Len(audioQueue) <= QueueCapacity
    /\ pendingAudio \in Seq(Nat)
    /\ sequence \in Nat /\ processedSamples \in Nat
    /\ pc \in PcValues /\ mode \in {"live", "drain"}
    /\ chunk \in ChunkSet \cup {NoChunk}
    /\ recorded \in InitialSamples..(InitialSamples + MaxRecorded)
    /\ accepted \subseteq ChunkSet /\ overflowed \subseteq accepted /\ closed \subseteq accepted
    /\ stopEvents \in 0..1

(* Flags, queue, stream and thread position have their types; submit keeps *)
(* the queue within QUEUE_CAPACITY and run publishes one stop event.       *)
TypeOK == FlagsOK /\ DataOK

Covered == UNION {Range(outputs[i].audio) : i \in DOMAIN outputs}

(* As long as the thread has not failed, audio that submit accepted is     *)
(* never silently lost: unless it was pushed out of the full queue, every  *)
(* accepted chunk is waiting, in hand, in the pending buffer or covered by *)
(* a published result.  Stopping, resuming during the stop, draining and   *)
(* the final window may interleave in any way.  (And every variable has    *)
(* its type.)                                                              *)
AudioAccountedFor ==
    /\ TypeOK
    /\ ~failed =>
          \A c \in accepted \ overflowed :
              \/ c \in Range(audioQueue)
              \/ c = chunk
              \/ Samples(c) \subseteq Range(pendingAudio) \cup Covered

(* A chunk taken over from the recorder belongs to exactly one place, the  *)
(* queue, the thread's hand or the pool it was returned to; none is read   *)
(* after its return, and a stopped worker has returned all of them.        *)
ChunksOwnedOnce ==
    /\ \A c \in accepted :
          \/ c \in closed /\ c \notin Range(audioQueue) /\ c # chunk
          \/ c \notin closed /\ c \in Range(audioQueue) /\ c # chunk
          \/ c \notin closed /\ c \notin Range(audioQueue) /\ c = chunk
    /\ pc \in {"publish", "done"} => closed = accepted

(* Every result starts with the last overlapSamples of the window before   *)
(* it, the final one included, and covers recorded samples in order.       *)
WindowsOverlap ==
    /\ \A i \in DOMAIN outputs :
          \A j, k \in DOMAIN outputs[i].audio : j < k => outputs[i].audio[j] < outputs[i].audio[k]
    /\ \A i \in 2..Len(outputs) : ~outputs[i].error =>
          SubSeq(outputs[i].audio, 1, Overlap)
              = SubSeq(outputs[i - 1].audio, Window - Overlap + 1, Window)

(* The samples recorded before position p that never reached this worker's *)
(* pending buffer: refused by submit or pushed out of the queue.           *)
MissingBefore(p) ==
    {q \in InitialSamples..(p - 1) : \A c \in accepted \ overflowed : q \notin Samples(c)}

(* The published start of a result is exactly that many samples behind the *)
(* position of its first sample.                                           *)
StartLagsByGaps ==
    \A i \in DOMAIN outputs : ~outputs[i].error =>
        outputs[i].start + Cardinality(MissingBefore(outputs[i].audio[1]))
            = outputs[i].audio[1]

(* While nothing recorded before a result was refused or dropped, the      *)
(* result starts where it is said to start, counted from the beginning of  *)
(* the recording: through overlaps, drains, stops and resumes.             *)
StartExactWithoutLoss ==
    \A i \in DOMAIN outputs :
        ~outputs[i].error /\ MissingBefore(outputs[i].audio[1]) = {}
            => outputs[i].start = outputs[i].audio[1]

(* The parameter startMs of output: the time from the start of the         *)
(* recording at which the audio of a result begins.                        *)
StartIsRecordingTime ==
    \A i \in DOMAIN outputs : ~outputs[i].error => outputs[i].start = outputs[i].audio[1]

(* A chunk in hand always fits: the ring of two windows and one second is  *)
(* never found full, whatever the recorder delivered before.               *)
RingNeverFull == pc = "append" => Len(pendingAudio) + chunk.count <= RingCapacity

(* While submit accepts audio and the thread has not failed, the thread    *)
(* has not left the loop that reads the queue; once it has begun to        *)
(* terminate, its final window includes whatever is pending.               *)
AcceptingMeansServed ==
    /\ acceptingAudio /\ ~failed => mode = "live" /\ pc \in {"open", "poll", "append", "windows", "check"}
    /\ pc = "final" => finishAfterQueuedAudio /\ audioQueue = <<>>

(* A stop request is served: the stop event is published, unless a resume  *)
(* takes the request back first.                                           *)
StopIsServed == drainStopRequested ~> (stopEvents = 1 \/ acceptingAudio)
=============================================================================
