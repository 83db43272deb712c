--------------------------- MODULE WhisperFeatures ---------------------------
(***************************************************************************)
(* The parallel feature extraction in front of the CTranslate2 engine      *)
(* (make_whisper_features).  The frames that hold audio are divided into   *)
(* blocks; each block is a task of a thread pool and takes a workspace of  *)
(* its own with an atomic counter; the caller waits for the pool, takes    *)
(* the maximum of the blocks' maxima and normalises with it.               *)
(*                                                                         *)
(* A frame's features are the number of the frame whose samples they were  *)
(* computed from.  All frames are equally loud but one, chosen for each    *)
(* call: the place of the loudest is all the maximum depends on.  The pool *)
(* has as many threads as the handle, at least one for every task.         *)
(***************************************************************************)
EXTENDS Integers, FiniteSets

CONSTANTS
    MaxThreads,     \* bound: threads of a handle
    Frames,         \* kFrames
    HopLength,      \* kHopLength
    FftHalfSize,    \* kFftHalfSize
    Grain           \* kFeatureParallelGrainFrames

ASSUME FeaturesAssumption ==
    {MaxThreads, Frames, HopLength, FftHalfSize, Grain} \subseteq Nat \ {0}

VARIABLES
    feat_pc,        \* the caller: "idle", "wait" (in the pool's wait), "done"
    num_threads,    \* of the handle
    copied_samples, \* samples of the call
    loudest,        \* the frame with the highest energy
    next_workspace, \* the atomic counter of the call
    task,           \* the blocks of the call, see NoTask
    fft_input,      \* frame in the buffers of each workspace
    thread_maxima,  \* per workspace
    features,       \* per frame: the frame its features were computed from
    maximum         \* what the last call normalised with

featVars == <<feat_pc, num_threads, copied_samples, loudest, next_workspace, task, fft_input,
              thread_maxima, features, maximum>>

AtMost(a, b) == IF a < b THEN a ELSE b
Greater(a, b) == IF a > b THEN a ELSE b
CeilDivide(a, b) == (a + b - 1) \div b

ChunkSamples == Frames * HopLength
FrameSet == 0..(Frames - 1)
Slots == 0..(MaxThreads - 1)

Initial == -1                       \* kInitialLogMel, below every feature
Energy(f) == IF f = loudest THEN 1 ELSE 0
NoTask == [phase |-> "none", begin |-> 0, end |-> 0, frame |-> 0, workspace |-> 0,
           local_maximum |-> Initial]
QueuedTask(from, to) ==
    [phase |-> "queued", begin |-> from, end |-> to, frame |-> 0, workspace |-> 0,
     local_maximum |-> Initial]

(* Bug: rounds down, and misses a frame that begins before the end. *)
ActiveFramesShort(n) == AtMost(Frames, (n + FftHalfSize) \div HopLength)

(* The frames whose window reaches into the first n samples. *)
ActiveFrames(n) == AtMost(Frames, CeilDivide(n + FftHalfSize, HopLength))

(* parallel_for: as many blocks as threads, none smaller than the grain. *)
NumBlocks(n) == AtMost(num_threads, CeilDivide(ActiveFrames(n), Grain))

(* BS::blocks: the first blocks are one frame longer when the division     *)
(* leaves a remainder.                                                     *)
BlockStart(n, b) ==
    b * (ActiveFrames(n) \div NumBlocks(n)) + AtMost(b, ActiveFrames(n) % NumBlocks(n))

(* Bug: every block has the size of the last one. *)
BlockEndEven(n, b) == BlockStart(n, b) + ActiveFrames(n) \div NumBlocks(n)

BlockEnd(n, b) == IF b = NumBlocks(n) - 1 THEN ActiveFrames(n) ELSE BlockStart(n, b + 1)

FeatInit ==
    /\ feat_pc = "idle" /\ num_threads \in 1..MaxThreads
    /\ copied_samples = 0 /\ loudest = 0 /\ next_workspace = 0
    /\ task = [b \in Slots |-> NoTask]
    /\ fft_input = [w \in 0..(num_threads - 1) |-> Initial]
    /\ thread_maxima = [w \in 0..(num_threads - 1) |-> Initial]
    /\ features = [f \in FrameSet |-> Initial] /\ maximum = Initial

(* make_whisper_features up to the call of the pool.  Samples beyond half  *)
(* a minute are left out.                                                  *)
MakeFeatures(samples) ==
    LET n == AtMost(samples, ChunkSamples)
    IN  /\ feat_pc = "idle"
        /\ feat_pc' = "wait"
        /\ copied_samples' = n
        /\ loudest' \in 0..(ActiveFrames(n) - 1)
        /\ next_workspace' = 0
        /\ features' = [f \in FrameSet |-> Initial]
        /\ thread_maxima' = [w \in DOMAIN thread_maxima |-> Initial]
        /\ task' = [b \in Slots |->
                       IF b < NumBlocks(n)
                       THEN QueuedTask(BlockStart(n, b), BlockEnd(n, b))
                       ELSE NoTask]
        /\ UNCHANGED <<num_threads, fft_input, maximum>>

featCall == <<feat_pc, num_threads, copied_samples, loudest, maximum>>
-----------------------------------------------------------------------------
(* The body of the task of block b, on a thread of the pool.               *)

(* Bug: the counter is read and written back in two steps, and here the    *)
(* write has not happened yet.                                             *)
ClaimWithoutAdd(b) ==
    /\ task[b].phase = "queued"
    /\ task' = [task EXCEPT ![b] = [@ EXCEPT !.phase = "window", !.workspace = next_workspace,
                                             !.frame = task[b].begin]]
    /\ UNCHANGED <<featCall, next_workspace, fft_input, thread_maxima, features>>

(* next_workspace.fetch_add(1) *)
Claim(b) ==
    /\ task[b].phase = "queued"
    /\ task' = [task EXCEPT ![b] = [@ EXCEPT !.phase = "window", !.workspace = next_workspace,
                                             !.frame = task[b].begin]]
    /\ next_workspace' = next_workspace + 1
    /\ UNCHANGED <<featCall, fft_input, thread_maxima, features>>

(* make_windowed_frame *)
WindowFrame(b) ==
    /\ task[b].phase = "window" /\ task[b].frame < task[b].end
    /\ fft_input' = [fft_input EXCEPT ![task[b].workspace] = task[b].frame]
    /\ task' = [task EXCEPT ![b].phase = "transform"]
    /\ UNCHANGED <<featCall, next_workspace, thread_maxima, features>>

(* fft, calculate_power and the mel bands, from the workspace's buffers.   *)
TransformFrame(b) ==
    LET source == fft_input[task[b].workspace]
    IN  /\ task[b].phase = "transform"
        /\ features' = [features EXCEPT ![task[b].frame] = source]
        /\ task' = [task EXCEPT ![b].phase = "window", ![b].frame = @ + 1,
                                ![b].local_maximum = Greater(@, Energy(source))]
        /\ UNCHANGED <<featCall, next_workspace, fft_input, thread_maxima>>

FinishTask(b) ==
    /\ task[b].phase = "window" /\ task[b].frame = task[b].end
    /\ thread_maxima' = [thread_maxima EXCEPT ![task[b].workspace] = task[b].local_maximum]
    /\ task' = [task EXCEPT ![b].phase = "none"]
    /\ UNCHANGED <<featCall, next_workspace, fft_input, features>>
-----------------------------------------------------------------------------
MaximumOf(S) == CHOOSE m \in S : \A n \in S : m >= n

(* The pool's wait returns when no task is left. *)
Normalize ==
    /\ feat_pc = "wait" /\ \A b \in Slots : task[b].phase = "none"
    /\ feat_pc' = "done"
    /\ maximum' = MaximumOf({thread_maxima[w] : w \in 0..(next_workspace - 1)})
    /\ UNCHANGED <<num_threads, copied_samples, loudest, next_workspace, task, fft_input,
                   thread_maxima, features>>

(* The next call may come.                                                 *)
Return ==
    /\ feat_pc = "done"
    /\ feat_pc' = "idle"
    /\ UNCHANGED <<num_threads, copied_samples, loudest, next_workspace, task, fft_input,
                   thread_maxima, features, maximum>>

TaskStep(b) == Claim(b) \/ WindowFrame(b) \/ TransformFrame(b) \/ FinishTask(b)

(* One sample more than a chunk holds is as good as many more.             *)
FeatNext ==
    \/ \E samples \in 0..(ChunkSamples + 1) : MakeFeatures(samples)
    \/ \E b \in Slots : TaskStep(b)
    \/ Normalize \/ Return

FeatSpec == FeatInit /\ [][FeatNext]_featVars
-----------------------------------------------------------------------------
Busy(b) == task[b].phase \in {"window", "transform"}

TaskType ==
    [phase : {"none", "queued", "window", "transform"}, begin : Nat, end : Nat, frame : Nat,
     workspace : Nat, local_maximum : Initial..1]

FeatTypeOK ==
    /\ feat_pc \in {"idle", "wait", "done"} /\ num_threads \in 1..MaxThreads
    /\ copied_samples \in 0..ChunkSamples /\ loudest \in Nat /\ next_workspace \in Nat
    /\ task \in [Slots -> TaskType]
    /\ fft_input \in [0..(num_threads - 1) -> Initial..(Frames - 1)]
    /\ thread_maxima \in [0..(num_threads - 1) -> Initial..1]
    /\ features \in [FrameSet -> Initial..(Frames - 1)] /\ maximum \in Initial..1

(* No two tasks that run at the same time use the same workspace, and no   *)
(* task one beyond those the handle has.                                   *)
WorkspaceExclusive ==
    \A b \in Slots : Busy(b) =>
        /\ task[b].workspace < num_threads
        /\ \A c \in Slots \ {b} : Busy(c) => task[c].workspace # task[b].workspace

(* When the pool is done every frame with audio has the features of its    *)
(* own samples, no other frame has been touched, and the features are      *)
(* normalised with the highest value of all blocks.                        *)
FeaturesComplete ==
    /\ FeatTypeOK
    /\ feat_pc = "done" =>
          /\ \A f \in FrameSet :
                features[f] = IF f < ActiveFrames(copied_samples) THEN f ELSE Initial
          /\ maximum = MaximumOf({Energy(f) : f \in 0..(ActiveFrames(copied_samples) - 1)})

(* reflected_sample: the sample read for an index outside the audio.       *)
ReflectedIndex(k) == IF k < 0 THEN -k ELSE IF k >= ChunkSamples THEN 2 * ChunkSamples - k - 2 ELSE k

(* A frame that is left out would only have read the zeros after the       *)
(* audio, the samples mirrored at the end of the chunk included.           *)
SkippedFramesSilent ==
    feat_pc = "wait" =>
        \A f \in ActiveFrames(copied_samples)..(Frames - 1) :
            \A k \in (f * HopLength - FftHalfSize)..(f * HopLength + FftHalfSize - 1) :
                ReflectedIndex(k) >= copied_samples
=============================================================================
