# Verification of the local Whisper recorder

TLA+ models of the recording and transcription core of the Android app: the
Java threads and the service that runs them (`app/src/main/java`), and the
native stages around an inference (`app/src/main/CTranslate2`, `NativeText`, and
the voice activity filter of `Whisper/src/whisper.cpp`). They are model-checked
with TLC and, where marked, proved with TLAPS. Java paths below are relative to
`app/src/main/java`, where `P` stands for `jp/ac/gifu_u/programmingjissen2`;
native paths are relative to `app/src/main`.

## 1. Inventory

The app records the microphone or another app's sound, transcribes it on the
device while it is recorded, writes the results to a JSON file and the audio to
a WAV file, and may transcribe the WAV again afterwards.

```
 RecordActivity / notification
        | Intents (START, STOP, PAUSE, RESUME, ...)
        v
 BackgroundWhisperService  <---- stop events, results ----+
   | creates, requestStop      (through SystemEventHub)   |
   +--> AudioRecordWorker --PCM chunk--> service.onAudioChunk
   |                                     |-> RecordedAudioFileWriter (WAV)
   |                                     +-> WhisperTranscriptionWorker.submit
   +--> WhisperTranscriptionWorker --WhisperTranscriptionEvent--> service, UI
   |        (pending audio in DirectPcm16RingBuffer)
   +--> TranscriptionJsonWorker  <--submit-- service
   +--> WhisperFileTranscriptionWorker (transcribes a WAV, no recording meanwhile)

 one native call (CTranslate2), under the mutex of its handle:
   UTF-16 prompt -> UTF-8 -> prompt tokens                       +
   PCM -> voice activity filter -> feature extraction (FFT, pool) +-> engine
   UTF-16 text <- UTF-8 <- token decoder <------------------------+
```

| Component | State it keeps | Operations | What is hard | What makes it correct |
|---|---|---|---|---|
| PCM ring buffer (`DirectPcm16RingBuffer`) | storage, head, size | append, discardFirst, clear, four segment accessors | wrap-around, exactly full or empty, rejected counts | the two segments given to native code are the oldest samples; it is a bounded FIFO |
| Realtime inference worker (`WhisperTranscriptionWorker`) | five flags, queue of 128 chunks, pending audio, sequence number, position | thread loop; submit, requestStop, resumeAudioSubmission from other threads | stop and resume race with the drain; full queue; model failure; chunk ownership | accepted audio is transcribed; every chunk returned once; stop is served |
| Background service (`BackgroundWhisperService`) | about thirty fields: session and inference flags, worker references, deferred requests, WAV writer, retranscription queue | eight commands, four stop events, results, audio chunks, start threads | events of ended workers arrive late or out of order; deferred starts and resumes; partial failures of a start | workers reachable, results saved, session ends and leaves nothing behind |
| Event hub (`events/SystemEventHub`) | map class -> consumers, cache class -> superclasses | subscribe, unsubscribe, publish, clear | no common lock over two maps | subscribers reached, nobody after leaving |
| Recorder and chunk pool (`AudioRecordWorker`, `DirectPcm16BufferPool`, `PooledPcmChunk`) | running flag, two audio records, chunk in hand, up to 132 pooled buffers, a closed flag per chunk | start, requestStop, loop: acquire, read, mix, deliver, close | three parties pass chunks on and return them; blocked read at stop; pool against queue limit; exceptions of the listener | a chunk's memory has one user; none is lost; a stop ends the thread |
| JSON worker and writer (`TranscriptionJsonWorker`, `TranscriptionJsonWriter`, `TranscriptionTextRepository`) | queue of 128 results, running flag, items, two files | submit, requestStop, run: clear, append, drain, finish, rewrite | submit without a lock against the last drain; each write may fail | accepted results become items in order; both files agree at the end |
| Voice activity filter (`whisper_vad_segments_from_probs`, `collect_whisper_vad_speech`, `whisper_vad`) | five locals of a scan, segments, time table | scan, merge, remove, pad, collect or copy | cuts and rounding at every boundary; two loops that must agree on a size | all speech kept, once and in order; the copy fits; times monotone |
| Feature extraction (`whisper-feature-extractor.cpp`, `parallel_for`, `BS::thread_pool`) | a workspace per thread, an atomic counter, maxima | prepare, one task per block, normalise | tasks share one counter and one output | a workspace per task; every frame from its own samples |
| FFT (`fft`) | two buffers that change places | recursion over factors 2 and 5 | buffers swapped at each level and dirty | it is the Fourier transform |
| UTF converter | none | two conversions | broken and truncated input | no half pairs, nothing lost |
| Prompt tokenizer, token decoder | ranks, vocabulary | encode, decode | merging while walking | decoding gives the text back |
| File transcription (`WhisperFileTranscriptionWorker`, decoder, emitter) | pending PCM, offsets | emit windows, finish | interruption | excluded from recording; ends |
| WAV writer (`RecordedAudioFileWriter`) | stream, byte count | append, close | empty or failed recordings | transcribed again only when whole |
| Recording screen (`RecordActivity`) | mirror of the service's flags | buttons, state events | mirror stale | buttons offered only where legal |
| Inference bridges (JNI) | native handles | open, transcribe, close | - | one call at a time per handle |
| Event awaiters, object and string pools, settings, model import, result files, vendored engines | see section 5 | | | |

`PROJECT.json` lists them all with their status, and under `hazards` the places
where the code is hard to test.

## 2. Modules

| Module | Models | Checked by | Proofs |
|---|---|---|---|
| `PcmFifo` | abstract: a bounded FIFO whose calls return or throw | - | - |
| `PcmRingBuffer` | `P/Record/Buffer/DirectPcm16RingBuffer.java` | `MCPcmRingBuffer` | `PcmRingBufferProofs` |
| `AudioRecordWorker` | `P/Record/AudioRecordWorker.java`, its pool and chunks, with the queue of the inference worker | `MCRecorder` | `AudioRecordWorkerProofs` |
| `WhisperTranscriptionWorker` | `P/Transcription/WhisperTranscriptionWorker.java`; its pending audio is a `PcmFifo` | `MCWhisperWorker` | `WhisperTranscriptionWorkerProofs` |
| `TranscriptionJsonWorker` | `P/TransscriptsJSON/TranscriptionJsonWorker.java`, its writer and the text repository | `MCJson` | `ResultTextProofs` |
| `BackgroundWhisperService` | `P/Transcription/BackgroundWhisperService.java`, composed with the life cycles of the four families of workers | `MCService`, five configurations | `BackgroundWhisperServiceInvariants`, `BackgroundWhisperServiceProofs` |
| `SystemEventHub` | `events/SystemEventHub.java` | `MCSystemEventHub` | `SystemEventHubProofs` |
| `VadSegments` | `whisper.cpp` (VAD), `CTranslate2/whisper-vad-filter.cpp` | `MCNative` | `VadSegmentsProofs` |
| `WhisperFeatures` | `CTranslate2/whisper-feature-extractor.cpp`, the thread pool behind `parallel_for` | `MCNative` | `WhisperFeaturesProofs` |
| `WhisperFft` | `fft` of the same file | `MCNative` | - |
| `UtfConverter` | `NativeText/utf-converter.cpp` | `MCNative` | `ResultTextProofs` |
| `WhisperTokens` | `CTranslate2/whisper-prompt-tokenizer.cpp`, `whisper-token-decoder.cpp` | `MCNative` | - |

Definitions named `...Unwrapped`, `...Hasty` and the like, each under a comment
that begins with "Bug:", are variants of the definition that follows. They are not
part of any specification; substituting one shows that a property would notice
that mistake.

### PcmRingBuffer
One action per public method. Positions are samples, where the code has bytes
(twice as many). Counts range one below and one above the legal ones so that
every `IllegalArgumentException` and `IllegalStateException` happens; a call
that throws changes nothing. `call` and `result` record the last call, so that
the refinement `ImplementsFifo` also compares what was asked and whether it threw.

### WhisperTranscriptionWorker
A sample is its position in the recording, so that results can be compared with
what was recorded. `pc` is the place of the thread; a step of the thread ends at
each point where another thread can see or change something (the queue, a
synchronized block, a published event). `submit`, `requestStop` and
`resumeAudioSubmission` are synchronized, but the thread polls the queue without
the monitor: a `submit` that finds the queue full is three steps (the offer that
fails, the drop of the oldest chunk, the second offer), between which the thread
may empty the queue, while everything else that needs the monitor waits for the
last of them. The other calls are one action each. The native
call returns or throws; texts are left out. The thread's reference never leaves
the object, so nobody can interrupt it, and the interrupt tests are left out.
The assumptions on `Window`, `Overlap` and `MinFinal` are what the constructor of
`WhisperSettings` enforces (lines 71-73).

### BackgroundWhisperService
Handlers are `synchronized` and call each other, so each is an operator from
state to state with the name of its method, and an action applies one of them.
A recorder, JSON or file worker is `live`, `stopping` once it was told to stop,
`exited` once its thread cleared its reference (`isAlive()` is false from here
on) and `gone` once its stop event was handled. An inference worker is
`accepting`, `draining`, `terminating` (it takes no resume any more and may still
publish a final result or fail at it), `failed`, `finished`, and then likewise
`exited` and `gone`. The distance between the last two is real: the thread clears
the reference and then publishes, and any command may come in between. `Outcomes`
is what the platform answers to a start, a resume or a close: it works, or the
permission, the model files, the WAV, the capture token, `AudioRecord` or the
closing of the WAV fail.

Choices a reader should know:

- The parts of `onStartCommand` for START that run outside the lock are one step
  (`Start`), the thread that START creates and its locked part another
  (`StartThread`); anything may happen between the two.
- `onAudioChunk` holds the lock only to count: it is three steps, the count
  (`CountChunk`), the WAV (`WriteChunk`, which may fail, as may the close that
  follows) and the submit (`SubmitChunk`). Each looks at the fields as they are
  then. `onTranscriptionEvent` is two: the number is counted under the lock
  (`Publish`), then the result is passed on without it (`PassOn`); in between its
  thread does nothing else.
- The screen offers START outside a session only, and after a START again only
  once STOP was pressed; a file can be chosen only while no service exists. STOP
  may come at any time, also from the notification. Commands sent after
  `stopSelf` reach a new service object and are not modelled.
- One chunk gives one result, and a terminating worker may add one of what is
  left over; the windows are the worker module's matter. A full queue of the
  inference worker drops a chunk, as there.
- `retranscriptionSessionId`, notifications, URIs and paths are left out.
- A new worker is an object that was never used (`Fresh`). `Room` is a bound: a
  behaviour goes on while every family has such an object left.

Stop events are matched by session id only. So when a worker has cleared its
reference, the next command may create its successor before the stop event is
handled, and the event then makes the service forget the successor. Nothing in
the code prevents it and nothing in the model does; `late_pause` shows a
consequence. The history variable `overtaken` becomes
true in such a step, and the properties that this breaks say `overtaken` in
their premise, so that they state that there is no *other* way to break them.
The same goes for the other history fields in `gh`: `recorderDied` (a recorder
ended by itself), `inferenceStopped` (inference was stopped on its own, or
failed), `wavFailed` and `starts`. For each premise section
3 says what happens without it; none of them restricts what the model does.

### SystemEventHub
A step is one call on one `ConcurrentHashMap` or one copy-on-write list.
`computeIfAbsent` of `subscribe` is two steps, because its function clears the
other map before the new list becomes visible; it keeps the entry of its key
locked in between. A consumer is subscribed at most once at a time, as in the
app. `ConcurrentHashMap.clear` is one step. `publish(event, false)` is not
called anywhere and changes nothing; it is left out.

### AudioRecordWorker
Three parties handle chunks: the recorder thread, the inference thread and the
pool. A step ends at each point where another thread can see something: a chunk
leaves the pool, is offered, is polled by the recorder that found the queue full,
is marked closed, goes back to the pool. `close()` is two steps, the
compare-and-set and the call of the pool, so that what two closes of one chunk
can do is in the model. Chunks are objects; one that nobody refers to and that
is closed may be the next allocation. Reads of a record that records may block
forever; `requestStop` stops the records, and a read of a stopped record returns.
The service's listener may refuse the chunk, or throw after it has closed it. The
inference worker is reduced to its queue and its thread's take, use and close;
its own module has the rest.

### TranscriptionJsonWorker
`submit` takes no lock and is three steps (test of the flag, offer, poll of the
full queue and the second offer). The results come from one thread, the
inference thread. A write of a file succeeds, leaves the old content or leaves a
broken file. An interrupt that hits the poll is the same as leaving the loop.

### VadSegments
A step is one iteration of one loop of the code. A probability matters only by
the side of the two thresholds it is on, so it is one of three classes, any at
each window; a graph that fails in the middle leaves probabilities of an earlier
call, which are covered by that. `Call` is entered for the CTranslate2 engine
(`collect_whisper_vad_speech`) and the whisper.cpp engine (`whisper_vad`), with
the parameters each passes. Output is modelled as the pieces of the recording it
is made of. The sort of the time table is not stable, so of the points with
equal times any one may stay. `FilterSettings` says what `SpeechKept` needs of
the parameters that `collect_whisper_vad_speech` passes, `CopySettings` what
`CopyFits` needs of those that reach `whisper_vad`; the module assumes neither,
`MCNative` does, so TLC evaluates both for the settings of the run.

### WhisperFeatures, WhisperFft
A task of the pool takes its workspace, and then for every frame fills the
buffers and transforms them, in separate steps, so that two tasks with one
workspace would mix their frames. The features of a frame are the number of the
frame in the buffers. The transform itself is `WhisperFft`: the recursion as a
stack, run over the integers modulo 401, where 3 generates the 400th roots of
unity and equality is exact; rounding of floats is outside the model.

### UtfConverter, WhisperTokens
One step per iteration of the loops. Masks and shifts are remainders and
quotients. `RoundTrip` and `NoCharacterLost` compare with definitions written
from the encodings and not from the code: where in the bytes the encoding of a
code point stands. `MCNative` composes these modules with `VadSegments` and
`WhisperFeatures`: the stages run one at a time, as under the mutex of the
handle, and each is explored while the others rest as they were created.

## 3. Runs

| Run | Bounds | Shows |
|---|---|---|
| `ring` | three samples of two values, sources of up to four | every head position, fill level, wrap-around and rejection; `WindowIsOldest`, and `ImplementsFifo` |
| `worker` | window 3, overlap 1, final minimum 2, queue of 2, chunks of up to 3, 7 recorded samples | windows span chunks, a chunk may complete two windows, the queue overflows, stop and resume at any point, failures of the model; see below |
| `session` | one session of an app capture, six commands (all but those for files), two chunks; the recorder may end by itself, the WAV may fail to be written or closed | the invariants of a session until the service has stopped itself; see below |
| `sessions` | two sessions, four of the same commands, two chunks, a recorder that may end by itself | no thread lost (`ReachableUnlessOvertaken`), no number given twice (`NumbersUniqueUnlessOvertaken`), recording and file transcription apart (`FileNeverWithRecorder`), a second START during the first session's end included; under fairness a start that had to wait is carried out (`PendingStartServed`) |
| `faults` | all eight commands, three of them in a behaviour, failures of the start's steps, of the recorder and of the inference and JSON threads | a session asked to end ends (`SessionEnds`), after its results (`StopWaitsForResults`) |
| `stop_before_recorder`, `late_pause` | the commands each needs, no failure | each ends in a violation; see below |
| `start_time` | as `worker` | ends in a violation; see below |
| `hub` | two threads, three consumers of two related classes, five calls | nothing after leaving; while calls do not overlap, the cache is right and everyone is reached |
| `recorder` | queue of 2, pool of 6, eight chunk objects, three kinds of source | `ChunksOwned`, `PoolSuffices`; under fairness `StopEndsThread` |
| `json` | four results, queue of 2, any write may fail | `EventsAccounted`, `FilesAgree`; under fairness `StopEndsJsonThread` |
| `native` | filter: up to 20 samples in windows of 3, centiseconds of 2 samples, four settings, every sequence of probability classes | `PiecesOrdered`, `SpeechKept`, `CopyFits`, `TimesMonotone` |
| | features: one to three threads, five frames, recordings of every length up to one sample more than a chunk; all 400 unit vectors | `WorkspaceExclusive`, `FeaturesComplete`, `SkippedFramesSilent`, `FftIsDft`; the caller always gets on (no deadlock) |
| | texts of up to three units or four bytes at the limits of the ranges, prompts of up to five bytes and every single byte, five merges | `UnitsWellFormed`, `RoundTrip`, `NoCharacterLost`, `TokensKeepText` |

`worker` checks: `AudioAccountedFor` (accepted audio is never silently lost
while the thread has not failed), `ChunksOwnedOnce`, `WindowsOverlap`,
`StartExactWithoutLoss` (while no sample before a result is missing, its
published start is its time in the recording), `RingNeverFull`,
`AcceptingMeansServed` and, under fairness, `StopIsServed`.

`session` checks: `TypeOK`, `ResultsReachJson`, `ShownStateIsTrue` (state,
recording and inference flags against the threads), `StopLeavesNothing`,
`RecordingRetranscribed`. These four say `gh.starts <= 1`: with a second START
that meets the end of the first session they do not hold (see below).
`MaxWorkers` cuts no behaviour of the passing runs off: with more objects
of each family they find the same states.

`sessions` has no such premise. `NumbersUniqueUnlessOvertaken` speaks of the time
until the service is destroyed: `onTranscriptionEvent` of a destroyed service
counts no more, so a worker created by a thread that START left behind would
begin at an old number. `FileNeverWithRecorder` speaks of the time until
inference was stopped on its own or failed (what happens then is described below) and counts the recorder until its thread has ended, not only until
it was told to stop.

Where a module has no `TypeOK` of its own in a run, its types are the first
conjunct of the module's main invariant (`AudioAccountedFor`, `EventsAccounted`,
`PiecesOrdered`, `FeaturesComplete`, `ReachedIfSerial`) or a theorem (ring,
recorder, UTF converter).

Why the bounds are enough: the ring's behaviour depends on the position of head
and tail relative to the end, all of which occur with three slots. A window of
three with an overlap of one is the smallest in which discard, overlap and
window differ, and two windows and a rest fit into the recording. In the
service, six commands hold a pause, a resume, an inference stop and an
inference resume between START and STOP in any order, and four hold two sessions
with one of them in between; three commands are START, STOP and one more in any
order around every failure. Five hub calls hold two
subscriptions, an unsubscribe and two publishes. Queue and pool of the recorder
differ by four as 128 and 132 do (two would do, see `PoolIsLargeEnough` in
section 4); two more objects than the pool holds let an allocation happen while it is full.
Four results fill a queue of two, lose one and leave one to the drain. Seven
windows hold a cut, a merge and two segments apart, and a window of three
samples is no multiple of a centisecond of two, so that rounding matters. Five
frames on three threads give blocks of two lengths and fewer blocks than
threads. The texts have every byte and unit at which the converters branch. The
transform is linear, so unit vectors are all inputs; the buffers it finds are
clean in the first call and dirty afterwards, with one content for all.

Fairness. `worker`, `recorder`, `json`, `sessions` and `faults`
assume that a thread that can run does run (weak fairness of its steps): the
threads block only on a poll with a timeout, on the monitor, or in a read that
`requestStop` unblocks, and native calls return. In `recorder` a read of a record
that records has no fairness at all. No fairness is assumed of commands,
failures, the delivery of new audio, or a stop nobody asked for.

Deadlock is checked for `ring`, `worker` and `native`. A
service that has stopped itself, a recorder or a JSON worker that has ended, and
the hub after its bounded number of calls really stop, so it is off there.

### What the code does against its own comments

Three runs end in a violation; `findings` in `PROJECT.json` quotes the comment
each one is about.

- `stop_before_recorder` (`StopWaitsForRecorder`): STOP_INFERENCE, then STOP
  while the inference worker still drains: its stop event may come before the
  recorder's; `finishIdleWorkIfPossible` looks at the two inference threads
  only, and the service stops itself with the recorder running and the WAV open.
- `late_pause` (`PauseStopsRecorder`): pause, then resume between the end of the
  recorder thread and its event: the late event clears `recordWorker`, which is
  the new recorder by then, and the next pause reaches none.
- `start_time` (`StartIsRecordingTime`): start times of results count only the
  audio that reached the pending buffer; after refused or dropped chunks they lag
  behind the recording, by exactly what is missing (`StartsLagByGaps`, proved).

Further behaviour met while modelling, without a run of its own. The first six
are why the properties named say `overtaken`, `inferenceStopped`, `recorderDied`
or `starts` in their premise; TLC shows each when the premise is left out.

- The race of `late_pause` for the inference worker: it then runs on while the
  service reports that there is none (`InferenceShownIsTrue`).
- The test of `stop_before_recorder` with a WAV of an earlier session waiting:
  its transcription is started beside the recorder (`FileNeverWithRecorder`).
- A recorder that ends by itself leaves `recording` true (`RecordingShownIsTrue`).
- START while the JSON worker of the session before is stopping keeps that
  worker, which takes no more results (`ResultsSaved`). Its stop event has the
  old session's id and is ignored, and the service waits for it after the second
  STOP (`StopWaitsForResults`; also `SessionEnds`, whose run has one START for that
  reason).
- START, STOP and START before the first start thread has the lock: the second
  start thread, should it meet a pause, asks the running session's inference
  worker to stop and leaves the state that is shown (`ShownStateIsTrue` with two
  starts).
- A START whose thread gets the lock after the session before has ended begins a
  recording in a service that has stopped itself already and is about to be
  destroyed (`StopLeavesNothing`, `RecordingRetranscribed` with two starts).
- A deferred start whose WAV cannot be opened stays pending: when the inference
  and JSON threads it created have ended, `finishIdleWorkIfPossible` tries it
  again, for as long as the WAV cannot be opened.
- STOP before the thread created by START has the lock finds no session and
  returns; recording begins afterwards.
- A publish between `typeCache.clear()` and the insertion of the list in
  `subscribe` caches a set of classes without the new one; later publishes miss
  the new subscriber until the cache is cleared again (`SubscribersReached`
  without the premise of `ReachedIfSerial`).
- A result submitted while the stop is requested may be accepted after the last
  look at the queue and stay in it: the last conjunct of `EventsAccounted` has
  `overlap` in its premise for that. In the app the inference thread has ended
  before the JSON worker is stopped, so it does not come to this.
- After an exception of the listener a chunk is closed twice. The second close
  finds the flag set. This is safe only because chunks are acquired on the thread
  that closes them twice, so that no acquire can come in between.
- `CopyFits` holds because the whisper.cpp engine asks for segments longer than
  a window and pads them: the first loop does not clamp the start of a segment,
  the second does, and a short segment at the very end whose start is rounded up
  could tell the difference. Without minimum and padding TLC finds it violated.
- The first loop of the filter allows for a limit of the length of speech that
  neither engine sets; the last setting of `native` exercises it. A limit together
  with a threshold below 0.01 would lose speech: after a cut at a window that
  counts as speech and as silence at once, the segment that goes on there may
  end empty at its own start and be dropped (`SpeechKept` with `lowThreshold`, `maxSpeech = 9` and 24 samples).
- START resets `nextInferenceSequence` and `sessionRecordedSamples` while the
  session before may still deliver and publish. The numbers stay unique all the
  same (`NumbersUniqueUnlessOvertaken`), being compared within a session; the
  count of samples does not belong to either session then.
- A resume that finds the recording permission withdrawn stops the service
  without stopping inference and JSON threads.
- `unsubscribe` asks `isEmpty` and removes the class in two steps; a subscriber
  that came in between is removed with the list.

## 4. Proofs

| Theorem | For | Argument |
|---|---|---|
| `TypeCorrect` | every capacity | `TypeOK` of the ring is inductive: `% Capacity` keeps the head inside |
| `WindowCorrect` | every capacity | follows from `TypeOK`: the two segments and the ring order agree position by position, before and after the wrap |
| `RingImplementsFifo` | every capacity and set of samples | an append writes exactly the slots after the contents (`AppendStorage`), so the contents grow by the source (`AppendMapping`); a discard shifts them (`DiscardMapping`); a rejected call is a rejected call |
| `RingCapacitySuffices` | every window, overlap, rate and chunk size | `RingInv`: less than a window is pending whenever the thread goes for the next chunk |
| `AcceptedAudioIsServed` | every constant | `ServedInv`: relates the flags to the place of the thread; `terminating` is set before the drain begins, and no resume succeeds after that |
| `ChunkOwnership` | every constant | `SubInv`: a `submit` that found the queue full still finds a running worker that accepts, since it holds the monitor; `OwnInv`: queue without repetition, chunks end where the next begins (so a new one differs from all), queue, hand and returned chunks are disjoint and together the accepted ones |
| `AcceptedAudioIsKept` | every constant | `WorkerInv` (the three invariants above with the types) and `KeptInv`: each step moves a chunk from the queue to the hand, its samples to the pending audio and from there to a result, and a discarded part of a window is covered by the result just published (`WindowCovers`) |
| `ResultsOverlap` | every window and overlap | `OrderInv`: queue, hand and pending audio are in the order of recording; `OverlapInv`: the pending audio, and so the next result, begins with the last `Overlap` samples of the last result (`Follows`) |
| `StartsLagByGaps`, `StartsExactWithoutLoss` | every constant | `PlaceInv`: for each pending sample and the first of each result, position and published position differ by the number of samples that can no longer arrive (`Placed`); only audio behind everything still waiting counts, so a later drop does not change it (`SettledStays`); the samples that arrived are counted (`FedGrows`). The first says by how much a start lags, the second that nothing else than missing audio makes it lag |
| `OwnershipOfChunks`, `RecorderTypeCorrect` | every set of chunks, queue and pool limit, source | `OwnershipInv`: at each place of the two threads it is known which hands hold a chunk (`Hands`), that they, the queue and the pool are apart (`Apart`), and which chunks are closed (`Flags`) |
| `PoolIsLargeEnough` | every set of chunks, `PoolLimit >= QueueLimit + 2` | `FewReferenced`: at most `QueueLimit + 2` chunks are referenced by pool, queue and hands, because a chunk is allocated only when the pool is empty, and then only the queue and one other hand can hold some |
| `ResultsAccounted`, `FilesAgreeInTheEnd` | every queue capacity and number of results | `JsonInv`: `Kept` (items, hand, queue) is increasing and is what was accepted and not dropped; a step of the thread leaves `Kept` alone, a submit adds a newer result at its end, a full queue takes one out (`KeptMoves`, `TakeOut`); after a stop that met no submit nothing enters the queue (`StopInv`) |
| `NothingDeliveredLate` | every set of threads, classes and consumers, every number of calls | `HubInv`: who is in a list of the map is subscribed to its class (`MapOK`); a list that is about to enter the map is empty and known to one call only (`NewListsOK`); each list in use was taken by a call of its own (`ListsCounted`), so a new one exists |
| `SerialCallsReachAll` | the same, while no two calls have overlapped | `SerialInv`: every subscriber is in the list of the map (`AllHeld`), the list in a call's hand is that of the map (`CallInMap`), and the cache is right except within a call that is about to clear it (`CacheSettled`) |
| `FeaturesAreComplete` | every number of threads, frames and samples, every grain | `FeaturesInv`: blocks partition the frames (`BlocksPartition`), a task has written its block up to where it is (`FrameInv`), no workspace number is given out twice in a call (`ClaimInv`), so the maximum of an ended task stays (`MaximaInv`) |
| `SkippedFramesAreSilent` | every length of recording | arithmetic of `ActiveFrames` and the mirrored index, from the typed `copied_samples` |
| `PiecesStayOrdered` | every window, rounding, setting, length and sequence of probabilities | `VadInv`: the ends and cuts noted by the scan lie inside the open segment, and what was found ends before it begins (`ScanOK`); merging, removal and padding keep pieces in order (`MergedOrdered`, `WithoutOrdered`, `PaddedOrdered`: the paddings of a gap do not meet), rounding is monotone (`RoundingMonotone`) |
| `SpeechIsKept` | the same, under `FilterSettings` | `KeptInv`: a loud window begins in a segment found or will begin in the one the open segment becomes, also if that is cut at `prev_end` and goes on at `next_start` (`WillHold`); merging leaves gaps of at least `MergeGap` behind it, so the padding of either side of a gap covers a window and the rounding (`PaddingCovers`), and rounding moves an end by half a centisecond at most (`RoundingClose`) |
| `CopyStaysInside` | every window, rounding, length and sequence of probabilities, under `CopySettings` | `LengthInv`: once the short segments are removed each begins at least the minimum before the end, and padding moves no start back, so every segment begins inside the recording and counts with what the second loop copies of it (`SegmentNeeds`, `CopyAdds`); `SumInv`: the partial sums of what the segments need are monotone, the first loop has their total, the second is at most at the sum before its segment |
| `TimesStayInOrder` | every window, rounding, setting, length and sequence of probabilities | `TableInv`: the points of a segment rise in both times and lie behind those of the table (`PointsBehind`, `RisingUnion`), and after the sort no time has two; a time then has neighbours in the table (`MapTimeCases`, natural numbers being well-founded), and interpolation is monotone and stays between them (`Fraction`, `InterpolatedFacts`) |
| `TypeCorrect` (service) | every set of commands and faults, every number of commands, starts, chunks and workers | `Shape`: the fields of the state and their types are kept by every method, whatever state it is called in |
| `NoThreadLost` | the same | `Reached`: each worker that has not ended is the one in the service's field; kept while `Alone`, that is, while no worker whose stop event is on its way has a successor, which is what `overtaken` records |
| `NumbersUnique` | the same | `Numbered`: the next number of every session that may still get an inference worker, and that of the worker there is, are beyond every number published in it; a new session's time data is newer than every session published in (`Counted`, `Dated`), so resetting the counter gives no number of it twice |
| `WorkspacesExclusive` | every number of threads, frames and samples, every grain | `WorkspaceInv`: the number of workspaces taken and of tasks still queued is at most the number of threads; a busy task's workspace is below the counter and differs from the others' |
| `NoHalfPairs`, `ConversionsTyped` | every text of every length | `UtfInv`; the bytes that pass `invalid_range` encode no surrogate and nothing beyond the last code point (`DecodedIsScalar`), and what `append_utf16` adds for such a point is closed under pairing (`EmitKeeps`) |
| `TextsComeBack` | every Java text of every length | `TextInv`: the bytes are the encodings of the characters of the text one behind the other, each standing at a known place (`Placed`); the second loop is always at the beginning of one, with the units of those before it behind it, and reads it as what was encoded there (`EncodedIsRead`) |

None of these properties is inductive: `RingNeverFull` says nothing outside
`pc = "append"`, `AcceptingMeansServed` nothing of `terminating`,
`ChunksOwnedOnce` nothing that makes a new chunk new, `ChunksOwned` nothing of
which chunk is about to be returned to the pool, `WorkspaceExclusive` nothing of
the counter, `WindowsOverlap` nothing of the pending audio the next window is
made of, `FilesAgree` nothing before the end, `NoLateDelivery` nothing of who is
in the lists, `FeaturesComplete` nothing while tasks run, `PiecesOrdered` nothing
of the locals of the scan, `SpeechKept` nothing before the last segment is
joined, `CopyFits` nothing of the segments not yet copied, `TimesMonotone` nothing
of the table while it grows, `RoundTrip` nothing before the last byte is read, `ReachableUnlessOvertaken` nothing of the stop events on their way,
`NumbersUniqueUnlessOvertaken` nothing of the numbers yet to be given. The invariants above add exactly that. The one subtle place of `OwnershipInv` is the listener's exception:
there the recorder holds a chunk that is already in the pool, which `Apart`
allows at `close` only, with the flag set.

Assumptions are the `ASSUME`s of the modules, evaluated by TLC in every run:
positive capacity and window, overlap below the window, final minimum within
the window, a chunk no longer than a window and a second; finitely many chunks
and a queue of at least one; positive sizes in the feature extraction; texts
that are sequences of bytes and of 16-bit units; in the hub, superclasses that
are among the classes, and a `None` that is no list (the code's null).
`PoolIsLargeEnough` has the hypothesis `PoolLimit >= QueueLimit + 2` instead of
an assumption; the code has 132 and 128. `SpeechIsKept` has the hypothesis
`FilterSettings`: no minimum of speech, a padding of at least a window and half
a centisecond, a merge gap of at least twice that, and no limit of length if the
threshold is below the lower one. The code has a window of 512 samples,
centiseconds of 160, a padding of 6400, a merge gap of 3200, no minimum and no
limit. `CopyStaysInside` has the hypothesis `CopySettings`: a minimum of speech
of at least a window and half a centisecond. The app leaves the library's 250 ms,
4000 samples, against 512 and 80 (the padding it leaves at 30 ms would do as well;
without either `CopyFits` fails, section 3). `TimesStayInOrder` has no
hypothesis. `MaxRecorded`, `MaxSource`, `MaxSamples` and `MaxThreads` are bounds of
the model; the theorems hold for each value of them.

The theorems about the service have no hypothesis: they hold for all commands and
faults, any number of sessions, and every moment at which a stop event may come.
`NoThreadLost` and `NumbersUnique` are about behaviours up to the first step that
lets a command overtake a stop event, because from then on the first is false
(`late_pause`): what they prove is that this race is the only
way to lose a thread or to give a number twice before the service is destroyed.

Only model-checked are: the other invariants of the service (`ResultsReachJson`,
`ShownStateIsTrue`, `FileNeverWithRecorder`, `StopWaitsForResults`,
`StopLeavesNothing`, `RecordingRetranscribed`) and its liveness properties; what
the conversion of malformed bytes, the tokenizer and the transform compute
(`NoCharacterLost`, `TokensKeepText`, `FftIsDft`: the first compares with every
code point at every place of the bytes, the others are inductions over the input,
which this prover cannot do); and all liveness.

## 5. Not modelled, and the plan

Most of the repository's lines are vendored: ggml with its device back ends,
whisper.cpp outside the voice activity filter, CTranslate2 and the libraries it
brings (more than nine lines in ten of the native code). They are numeric kernels
and loaders that this program links and does not change; a model of them would
be a model of other projects, and what they compute is arithmetic on floats. So
the share of all native lines that the modules translate is small by
construction; of the program's own native files the converters, the tokenizer,
the decoder, the filter and the control of the feature extraction are covered.

Left out of those files: windowing, mel filters and the conversion of samples to
floats (floating point, no control), the OpenMP variant of `parallel_for` (the
build uses the thread pool's interface; its tasks are scheduled the same way),
reading of vocabulary and merge files, and the JNI glue, which is a mutex around
one call.

Of the Java code: the awaiters carry permission dialogs of one activity on the
main thread and the service waits for nothing through them; the string builder
pool is thread-local; settings, import and cleanup of models and the result
files are file I/O of one thread at a time; the file decoder is the platform's;
the emitter cuts windows with the arithmetic that the worker's module checks;
the screens are layout, but for which command they offer when, which is a guard
of the service module.

What could come next, in order of weight:

1. Proofs: `NoCharacterLost` of the converter; the invariants of the service that
   are only model-checked, of which `FileNeverWithRecorder` and
   `StopWaitsForResults` need to know which events can still end a session.
2. The file emitter and builder: windows of a file against a reference definition.
3. Model import, verification and cleanup with an interruption at each step.
4. `RecordActivity`'s mirror, composed with the service.
