-------------------------- MODULE AudioRecordWorker --------------------------
(***************************************************************************)
(* The recorder thread (AudioRecordWorker) and the pool its chunks come    *)
(* from and go back to (DirectPcm16BufferPool, PooledPcmChunk).  The       *)
(* recorder takes a chunk, reads into it and hands it to the service,      *)
(* which queues it for the inference thread or refuses it; whoever is last *)
(* closes it.  A stop comes from the service's thread.                     *)
(*                                                                         *)
(* A chunk is an object; one nobody refers to is garbage and may be the    *)
(* next one allocated.  close() is two steps: the flag, then the pool.     *)
(* What was read is the number of samples, none or some.                   *)
(***************************************************************************)
EXTENDS Integers, Sequences, FiniteSets

CONSTANTS
    Chunks,         \* the objects, positive numbers
    QueueLimit,     \* capacity of the inference queue
    PoolLimit,      \* maxCachedBuffers
    Sources         \* the values of audioSource

ASSUME RecorderAssumption ==
    /\ Chunks \subseteq Nat \ {0} /\ IsFiniteSet(Chunks)
    /\ QueueLimit \in Nat \ {0} /\ PoolLimit \in Nat
    /\ Sources \subseteq {"MICROPHONE", "APP_CAPTURE", "MICROPHONE_AND_APP"}

VARIABLES
    rec_pc,         \* the recorder thread, "off" before start()
    running,
    audioSource,
    microphone,     \* microphoneRecord: "none", "created", "recording", "stopped"
    playback,       \* playbackRecord
    chunk,          \* the chunk in the recorder's hand, 0 for none
    old,            \* the chunk dropped from a full queue
    failing,        \* an exception is on its way out of the loop
    freeBuffers,    \* of the pool
    released,       \* the chunks that are closed
    queue,          \* audioQueue of the inference worker
    inf_pc,         \* inference thread: "poll", "use", "close"
    held,           \* the chunk in its hand, 0 for none
    accepting       \* the inference worker takes chunks

recorderVars == <<rec_pc, running, audioSource, microphone, playback, chunk, old, failing>>
poolVars == <<freeBuffers, released>>
inferenceVars == <<queue, inf_pc, held, accepting>>
vars == <<recorderVars, poolVars, inferenceVars>>

NeedsMicrophone == audioSource # "APP_CAPTURE"
NeedsCapture == audioSource # "MICROPHONE"

Init ==
    /\ rec_pc = "off" /\ running = FALSE /\ audioSource \in Sources
    /\ microphone = "none" /\ playback = "none" /\ chunk = 0 /\ old = 0 /\ failing = FALSE
    /\ freeBuffers = <<>> /\ released = Chunks
    /\ queue = <<>> /\ inf_pc = "poll" /\ held = 0 /\ accepting = TRUE

Pooled == {freeBuffers[k] : k \in 1..Len(freeBuffers)}
Queued == {queue[k] : k \in 1..Len(queue)}

(* Nobody refers to the chunk. *)
Unreferenced(c) == c \notin {chunk, old, held} \cup Pooled \cup Queued
Garbage == {c \in Chunks : Unreferenced(c) /\ c \in released}
-----------------------------------------------------------------------------
(* start() and requestStop(), on the service's thread.                     *)

StartThread ==
    /\ microphone' = IF NeedsMicrophone THEN "created" ELSE "none"
    /\ playback' = IF NeedsCapture THEN "created" ELSE "none"
    /\ running' = TRUE /\ rec_pc' = "begin"

(* The records are created one after the other; when one cannot be, those  *)
(* created are released and there is no thread.                            *)
Start ==
    /\ rec_pc = "off"
    /\ \/ StartThread
       \/ rec_pc' = "failed" /\ UNCHANGED <<running, microphone, playback>>
    /\ UNCHANGED <<audioSource, chunk, old, failing, poolVars, inferenceVars>>

Stopped(record) == IF record = "recording" THEN "stopped" ELSE record

(* Bug: only the microphone is stopped. *)
RequestStopMicrophone ==
    /\ rec_pc \notin {"off", "failed"}
    /\ running' = FALSE
    /\ microphone' = Stopped(microphone)
    /\ UNCHANGED <<rec_pc, audioSource, playback, chunk, old, failing, poolVars, inferenceVars>>

(* The flag is cleared, and stopping the records ends a read that blocks;  *)
(* what the thread does between the two (at most releasing the records,    *)
(* whose stop then has no effect) it may also do before or after.          *)
RequestStop ==
    /\ rec_pc \notin {"off", "failed"}
    /\ running' = FALSE
    /\ microphone' = Stopped(microphone) /\ playback' = Stopped(playback)
    /\ UNCHANGED <<rec_pc, audioSource, chunk, old, failing, poolVars, inferenceVars>>
-----------------------------------------------------------------------------
(* run() *)

Goto(pc) ==
    /\ rec_pc' = pc
    /\ UNCHANGED <<running, audioSource, microphone, playback>>

Recording(record) == IF record = "none" THEN "none" ELSE "recording"

StartRecords ==
    /\ rec_pc = "begin"
    /\ \/ /\ microphone' = Recording(microphone) /\ playback' = Recording(playback)
          /\ rec_pc' = "loop" /\ UNCHANGED failing
       \/ failing' = TRUE /\ rec_pc' = "finally" /\ UNCHANGED <<microphone, playback>>
    /\ UNCHANGED <<running, audioSource, chunk, old, poolVars, inferenceVars>>

LeaveLoop ==
    /\ rec_pc = "loop" /\ ~ running
    /\ Goto("finally")
    /\ UNCHANGED <<chunk, old, failing, poolVars, inferenceVars>>

Fresh == CHOOSE c \in Garbage : TRUE

(* Bug: the pool is never asked. *)
AcquireNew ==
    /\ rec_pc = "loop" /\ running
    /\ Garbage # {} /\ chunk' = Fresh
    /\ released' = released \ {chunk'}
    /\ Goto("read")
    /\ UNCHANGED <<old, failing, freeBuffers, inferenceVars>>

(* acquire(): the chunk released last, or a new one. *)
Acquire ==
    /\ rec_pc = "loop" /\ running
    /\ IF freeBuffers # <<>>
       THEN chunk' = Head(freeBuffers) /\ freeBuffers' = Tail(freeBuffers)
       ELSE Garbage # {} /\ chunk' = Fresh /\ UNCHANGED freeBuffers
    /\ released' = released \ {chunk'}
    /\ Goto("read")
    /\ UNCHANGED <<old, failing, inferenceVars>>

Primary == IF audioSource = "APP_CAPTURE" THEN playback ELSE microphone

(* Audio was read.  (Less than a sample counts as a chunk without samples.) *)
ReadAudio ==
    /\ rec_pc = "read" /\ Primary = "recording"
    /\ Goto(IF audioSource = "MICROPHONE_AND_APP" THEN "mix" ELSE "deliver")
    /\ UNCHANGED <<chunk, old, failing, poolVars, inferenceVars>>

(* Nothing or an error, of either record; on a stopped one at once.        *)
ReadNothing ==
    /\ \/ rec_pc = "read"
       \/ rec_pc = "mix"
    /\ Goto("close")
    /\ UNCHANGED <<chunk, old, failing, poolVars, inferenceVars>>

(* The second source is read and mixed in; no samples of it make a chunk   *)
(* without samples.                                                        *)
Mix ==
    /\ rec_pc = "mix"
    /\ Goto("deliver")
    /\ UNCHANGED <<chunk, old, failing, poolVars, inferenceVars>>
-----------------------------------------------------------------------------
(* The service's onAudioChunk and submit, on the recorder's thread.        *)

(* No worker takes it, or it has no samples. *)
Refuse ==
    /\ rec_pc = "deliver"
    /\ Goto("refuse")
    /\ UNCHANGED <<chunk, old, failing, poolVars, inferenceVars>>

ListenerThrows ==
    /\ rec_pc = "deliver"
    /\ failing' = TRUE
    /\ Goto("refuse")
    /\ UNCHANGED <<chunk, old, poolVars, inferenceVars>>

(* Into the queue: the recorder lets go of the chunk.  The second offer    *)
(* finds room: only this thread adds to the queue.                         *)
Offer ==
    /\ \/ rec_pc = "deliver" /\ accepting
       \/ rec_pc = "offer"
    /\ Len(queue) < QueueLimit
    /\ queue' = Append(queue, chunk) /\ chunk' = 0
    /\ Goto("loop")
    /\ UNCHANGED <<old, failing, poolVars, inf_pc, held, accepting>>

(* The queue is full: its head is taken out, unless the inference thread   *)
(* was faster.                                                             *)
OfferFull ==
    /\ rec_pc = "deliver" /\ accepting
    /\ Len(queue) = QueueLimit
    /\ Goto("poll")
    /\ UNCHANGED <<chunk, old, failing, poolVars, inferenceVars>>

PollOld ==
    /\ rec_pc = "poll"
    /\ IF queue = <<>>
       THEN Goto("offer") /\ UNCHANGED <<old, queue>>
       ELSE Goto("drop") /\ old' = Head(queue) /\ queue' = Tail(queue)
    /\ UNCHANGED <<chunk, failing, poolVars, inf_pc, held, accepting>>
-----------------------------------------------------------------------------
(* close() of chunk c: closes(c) is the change of the flag, after which    *)
(* the pool is called only if it was this call that changed it.            *)

(* Bug: the flag is set without looking at it. *)
ClosesAlways(c) == TRUE

Closes(c) == c \notin released

MarkReleased(c) == released' = released \cup {c}

(* release(): kept for reuse unless the pool is full. *)
Release(c) ==
    freeBuffers' = IF Len(freeBuffers) < PoolLimit THEN <<c>> \o freeBuffers ELSE freeBuffers

(* The dropped chunk, in submit. *)
DropOld ==
    /\ rec_pc = "drop"
    /\ MarkReleased(old)
    /\ IF Closes(old) THEN Goto("release old") /\ UNCHANGED old
                      ELSE Goto("offer") /\ old' = 0
    /\ UNCHANGED <<chunk, failing, freeBuffers, inferenceVars>>

ReleaseOld ==
    /\ rec_pc = "release old"
    /\ Release(old) /\ old' = 0
    /\ Goto("offer")
    /\ UNCHANGED <<chunk, failing, released, inferenceVars>>

AfterClose == IF failing THEN "finally" ELSE "loop"

(* The recorder's own chunk: in onAudioChunk when it was not taken over,   *)
(* after an exception once more in readNextAudioChunk.                     *)
AfterRefused ==
    IF failing THEN Goto("close") /\ UNCHANGED chunk
               ELSE Goto("loop") /\ chunk' = 0

CloseRefused ==
    /\ rec_pc = "refuse"
    /\ MarkReleased(chunk)
    /\ IF Closes(chunk) THEN Goto("release refused") /\ UNCHANGED chunk ELSE AfterRefused
    /\ UNCHANGED <<old, failing, freeBuffers, inferenceVars>>

(* Without an exception readNextAudioChunk believes the chunk transferred. *)
ReleaseRefused ==
    /\ rec_pc = "release refused"
    /\ Release(chunk)
    /\ AfterRefused
    /\ UNCHANGED <<old, failing, released, inferenceVars>>

CloseChunk ==
    /\ rec_pc = "close"
    /\ MarkReleased(chunk)
    /\ IF Closes(chunk) THEN Goto("release") /\ UNCHANGED chunk
                        ELSE Goto(AfterClose) /\ chunk' = 0
    /\ UNCHANGED <<old, failing, freeBuffers, inferenceVars>>

ReleaseChunk ==
    /\ rec_pc = "release"
    /\ Release(chunk) /\ chunk' = 0
    /\ Goto(AfterClose)
    /\ UNCHANGED <<old, failing, released, inferenceVars>>

(* The records are released, the pool emptied and the stop published.      *)
Finally ==
    /\ rec_pc = "finally"
    /\ microphone' = "none" /\ playback' = "none" /\ freeBuffers' = <<>>
    /\ running' = FALSE /\ rec_pc' = "stopped"
    /\ UNCHANGED <<audioSource, chunk, old, failing, released, inferenceVars>>
-----------------------------------------------------------------------------
(* The inference thread takes chunks out of the queue, without a lock, and *)
(* closes them; the service may stop and resume it.                        *)

Take ==
    /\ inf_pc = "poll" /\ queue # <<>>
    /\ held' = Head(queue) /\ queue' = Tail(queue) /\ inf_pc' = "use"
    /\ UNCHANGED <<recorderVars, poolVars, accepting>>

CloseHeld ==
    /\ inf_pc = "use"
    /\ MarkReleased(held)
    /\ IF Closes(held) THEN inf_pc' = "close" /\ UNCHANGED held
                       ELSE inf_pc' = "poll" /\ held' = 0
    /\ UNCHANGED <<recorderVars, freeBuffers, queue, accepting>>

ReleaseHeld ==
    /\ inf_pc = "close"
    /\ Release(held) /\ held' = 0 /\ inf_pc' = "poll"
    /\ UNCHANGED <<recorderVars, released, queue, accepting>>

SwitchInference ==
    /\ accepting' = ~ accepting
    /\ UNCHANGED <<recorderVars, poolVars, queue, inf_pc, held>>
-----------------------------------------------------------------------------
(* A blocking read of a stopped record returns; of a running one it need   *)
(* not, as when no application plays anything.                             *)
BlockingRead ==
    \/ rec_pc = "read" /\ Primary = "recording"
    \/ rec_pc = "mix" /\ playback = "recording"

ThreadStep ==
    \/ StartRecords \/ LeaveLoop \/ Acquire \/ ReadAudio \/ ReadNothing \/ Mix
    \/ Refuse \/ ListenerThrows \/ Offer \/ OfferFull \/ PollOld
    \/ DropOld \/ ReleaseOld \/ CloseRefused \/ ReleaseRefused \/ CloseChunk \/ ReleaseChunk
    \/ Finally
InferenceStep == Take \/ CloseHeld \/ ReleaseHeld

Next == Start \/ RequestStop \/ ThreadStep \/ InferenceStep \/ SwitchInference

Fairness ==
    /\ WF_vars(ThreadStep /\ ~ BlockingRead)
    /\ WF_vars(InferenceStep)

Spec == Init /\ [][Next]_vars /\ Fairness
-----------------------------------------------------------------------------
Records == {"none", "created", "recording", "stopped"}

TypeOK ==
    /\ rec_pc \in {"off", "failed", "begin", "loop", "read", "mix", "deliver", "refuse",
                   "release refused", "offer", "poll", "drop", "release old", "close", "release",
                   "finally", "stopped"}
    /\ running \in BOOLEAN /\ audioSource \in Sources
    /\ microphone \in Records /\ playback \in Records
    /\ {chunk, old, held} \subseteq Chunks \cup {0} /\ failing \in BOOLEAN
    /\ freeBuffers \in Seq(Chunks) /\ Len(freeBuffers) <= PoolLimit
    /\ released \subseteq Chunks
    /\ queue \in Seq(Chunks) /\ Len(queue) <= QueueLimit
    /\ inf_pc \in {"poll", "use", "close"} /\ accepting \in BOOLEAN

Distinct(s) == \A i, k \in 1..Len(s) : s[i] = s[k] => i = k

RecorderOwns == {"read", "mix", "deliver", "refuse", "offer", "poll", "drop", "release old"}

(* Two uses of the same samples never meet: a chunk in the pool is in no   *)
(* queue and no hand and stands there once, and a chunk is in one place of *)
(* the queue or in one hand.  (A thread that is about to call the pool has *)
(* let go of it.)                                                          *)
OneHolder ==
    /\ Distinct(freeBuffers) /\ Distinct(queue)
    /\ Pooled \cap Queued = {}
    /\ rec_pc \in RecorderOwns => chunk \notin Pooled \cup Queued
    /\ old # 0 => old \notin {chunk, held} /\ old \notin Pooled \cup Queued
    /\ held # 0 => held # chunk /\ held \notin Pooled \cup Queued

(* No chunk is used after it was closed (bytes() would throw), and none is *)
(* taken from the pool that was not closed (acquireForUse() would throw).  *)
UsedWhileOwned ==
    /\ rec_pc \in RecorderOwns => chunk \notin released
    /\ Queued \cap released = {}
    /\ inf_pc = "use" => held \notin released
    /\ Pooled \subseteq released

(* Every chunk is closed, on the paths of errors and exceptions as well:   *)
(* none is lost while it counts as used.                                   *)
NoChunkLost == \A c \in Chunks : c \notin released => ~ Unreferenced(c)

(* The three together: no sample of the recorder is overwritten while the  *)
(* service or the inference thread reads it, on any path by which a chunk  *)
(* is refused, dropped, failed or consumed.                                *)
ChunksOwned == OneHolder /\ UsedWhileOwned /\ NoChunkLost

(* The pool is large enough for every chunk there can be: none that is     *)
(* closed is thrown away while the recorder runs.                          *)
PoolSuffices ==
    rec_pc \in {"release", "release refused", "release old"} \/ inf_pc = "close" =>
        Len(freeBuffers) < PoolLimit

(* A stop ends the thread, also when it waits for audio that never comes.  *)
StopEndsThread == (~ running /\ rec_pc \notin {"off", "failed"}) ~> rec_pc = "stopped"
=============================================================================
