---------------------- MODULE BackgroundWhisperService ----------------------
(***************************************************************************)
(* BackgroundWhisperService, the foreground service that runs a recording  *)
(* session: it owns the recorder, inference, JSON and file-transcription   *)
(* workers, reacts to the commands of the UI and the notification, and     *)
(* learns that a worker ended from the event the worker's thread publishes *)
(* after it has cleared its own thread reference.                          *)
(*                                                                         *)
(* A handler that is synchronized on the service is one action.  onAudio-  *)
(* Chunk and onTranscriptionEvent hold the lock for a counter only and are *)
(* several.  A handler is written as an operator on the whole state (sv    *)
(* and the four families of worker threads) because handlers call each     *)
(* other.                                                                  *)
(* Session ids, and the time data they are made of, are numbers; 0 is      *)
(* null.  A chunk of audio is one sample and gives one result.             *)
(***************************************************************************)
EXTENDS Integers, FiniteSets

CONSTANTS
    Commands,           \* the commands the environment may send
    Faults,             \* what may fail: see FaultKinds
    WavEnabled,         \* settings.audioRecordingEnabled()
    AutoRetranscribe,   \* settings.autoRetranscribeEnabled()
    AudioSources,       \* the sources START may ask for
    MaxCommands,        \* bound: commands in a behaviour
    MaxStarts,          \* bound: START commands among them
    MaxWorkers,         \* bound: worker objects of each family
    MaxSamples,         \* bound: chunks a session delivers
    MaxBacklog          \* QUEUE_CAPACITY of the inference worker

CommandKinds == {"START", "STOP", "PAUSE", "RESUME", "STOP_INFERENCE", "RESUME_INFERENCE",
                 "TRANSCRIBE_FILE", "STOP_FILE"}
StartFaults == {"permission", "prepare", "open", "projection", "record"}
FaultKinds == StartFaults \cup {"recorder", "whisper", "json", "wav", "close"}

ASSUME ConstantsAssumption ==
    /\ Commands \subseteq CommandKinds /\ Faults \subseteq FaultKinds
    /\ WavEnabled \in BOOLEAN /\ AutoRetranscribe \in BOOLEAN
    /\ AutoRetranscribe => WavEnabled       \* the constructor of WhisperSettings
    /\ AudioSources \subseteq {"MICROPHONE", "APP_CAPTURE"}
    /\ {MaxCommands, MaxStarts, MaxWorkers, MaxSamples, MaxBacklog} \subseteq Nat

VARIABLES
    sv,         \* the fields of the service
    rec,        \* AudioRecordWorker objects
    wh,         \* WhisperTranscriptionWorker objects
    js,         \* TranscriptionJsonWorker objects
    fl,         \* WhisperFileTranscriptionWorker objects
    commands,   \* number of commands sent
    gh,         \* history: what was published, saved and opened
    overtaken   \* history: a worker was replaced before its stop event was handled

vars == <<sv, rec, wh, js, fl, commands, gh, overtaken>>

Ids == 1..MaxWorkers
null == 0

InitService ==
    [sessionActive |-> FALSE, recording |-> FALSE,
     inferenceAlive |-> FALSE, inferenceAccepting |-> FALSE, currentState |-> "none",
     recordingSessionId |-> null, recordingTimeData |-> null,
     pendingRecordingTimeData |-> null, inferenceSessionId |-> null,
     nextInferenceSequence |-> 0, sessionRecordedSamples |-> 0,
     recordWorker |-> null, transcriptionWorker |-> null,
     transcriptionJsonWorker |-> null, retranscriptionWorker |-> null,
     audioFileWriter |-> null, wavEmpty |-> TRUE,
     pendingRecordingStart |-> FALSE, pendingRecordingResume |-> FALSE,
     pendingInferenceResume |-> FALSE, sessionEndRequested |-> FALSE,
     inferenceFailed |-> FALSE, whisperThreadStopped |-> TRUE, jsonThreadStopped |-> TRUE,
     retranscriptionQueue |-> 0,
     requestedAudioSource |-> "MICROPHONE", projectionData |-> FALSE,
     mediaProjection |-> FALSE,
     startThreads |-> 0,        \* threads about to run startRecordingInternal
     lastTime |-> 0,            \* the newest time data handed out
     selfStopped |-> FALSE, destroyed |-> FALSE]

Init ==
    /\ sv = InitService
    /\ rec = [i \in Ids |-> [st |-> "unused", session |-> null, hand |-> "none"]]
    /\ wh = [i \in Ids |-> [st |-> "unused", session |-> null, backlog |-> 0, sequence |-> 0,
                            hand |-> "none"]]
    /\ js = [i \in Ids |-> [st |-> "unused", session |-> null]]
    /\ fl = [i \in Ids |-> "unused"]
    /\ commands = 0
    /\ gh = [published |-> {}, saved |-> {}, openWavs |-> {}, jsonDied |-> FALSE,
             recorderDied |-> FALSE, wavWritten |-> FALSE, wavFailed |-> FALSE, starts |-> 0,
             stopAsked |-> FALSE, inferenceStopped |-> FALSE]
    /\ overtaken = FALSE

State == [sv |-> sv, rec |-> rec, wh |-> wh, js |-> js, fl |-> fl, gh |-> gh]

(* Bound: a behaviour goes on while every family has an object left. *)
Room ==
    /\ "unused" \in {rec[i].st : i \in Ids} /\ "unused" \in {wh[i].st : i \in Ids}
    /\ "unused" \in {js[i].st : i \in Ids} /\ "unused" \in {fl[i] : i \in Ids}

(* Two workers of a family, one of which has only its stop event left to   *)
(* deliver: the other was created while that event was on its way.         *)
Succeeded(workers) ==
    \E i, j \in Ids :
        i # j /\ workers[i].st = "exited" /\ workers[j].st \notin {"unused", "gone"}

Become(target) ==
    /\ Room
    /\ \E t \in {target} :
         /\ sv' = t.sv /\ rec' = t.rec /\ wh' = t.wh /\ js' = t.js /\ fl' = t.fl /\ gh' = t.gh
         /\ overtaken' = \/ overtaken
                         \/ Succeeded(t.rec) \/ Succeeded(t.wh) \/ Succeeded(t.js)

-----------------------------------------------------------------------------
(* The worker objects as the service sees them. *)

(* The next object of a family is one that was never used. *)
Fresh(used) == CHOOSE i \in Ids : ~used[i]
FreshRec(t) == Fresh([i \in Ids |-> t.rec[i].st # "unused"])
FreshWh(t) == Fresh([i \in Ids |-> t.wh[i].st # "unused"])
FreshJs(t) == Fresh([i \in Ids |-> t.js[i].st # "unused"])
FreshFl(t) == Fresh([i \in Ids |-> t.fl[i] # "unused"])

(* isAlive: the thread reference is set; the thread clears it, and only    *)
(* then publishes its stop event ("exited").                               *)
RecorderAlive(t) ==
    t.sv.recordWorker # null /\ t.rec[t.sv.recordWorker].st \in {"live", "stopping"}
WhisperAlive(t) ==
    /\ t.sv.transcriptionWorker # null
    /\ t.wh[t.sv.transcriptionWorker].st
          \in {"accepting", "draining", "terminating", "failed", "finished"}
FileAlive(t) ==
    t.sv.retranscriptionWorker # null /\ t.fl[t.sv.retranscriptionWorker] \in {"live", "stopping"}

(* WhisperTranscriptionWorker.requestStop: a worker that terminates, failed *)
(* or finished takes no further notice.                                     *)
StopWhisper(t) ==
    [t EXCEPT !.wh[t.sv.transcriptionWorker].st = IF @ = "accepting" THEN "draining" ELSE @]

-----------------------------------------------------------------------------
(* The private methods of the service, callees first. *)

StateOf(v) ==
    CASE ~v.sessionActive -> IF v.sessionEndRequested THEN "StopRecord" ELSE "none"
      [] v.sessionActive /\ v.recording /\ v.inferenceAccepting -> "Recording"
      [] v.sessionActive /\ ~v.recording /\ v.inferenceAccepting -> "RecordingPaused"
      [] v.sessionActive /\ v.recording /\ ~v.inferenceAccepting -> "InferencePaused"
      [] OTHER -> "RecordingAndInferencePaused"

UpdateSessionState(t) == [t EXCEPT !.sv.currentState = StateOf(t.sv)]

StopForegroundAndSelf(t) ==
    [t EXCEPT !.sv = [@ EXCEPT !.sessionActive = FALSE, !.recording = FALSE,
                               !.inferenceAlive = FALSE, !.inferenceAccepting = FALSE,
                               !.currentState = "none", !.recordingSessionId = null,
                               !.recordingTimeData = null,
                               !.pendingRecordingTimeData = null,
                               !.sessionEndRequested = FALSE, !.selfStopped = TRUE]]

StartRecordingInternalAsync(t) == [t EXCEPT !.sv.startThreads = @ + 1]

ReleaseMediaProjection(t) == [t EXCEPT !.sv.mediaProjection = FALSE]

(* openAudioFile: a writer that was still open is forgotten, not closed. *)
OpenAudioFile(t) ==
    IF ~WavEnabled THEN t
    ELSE [t EXCEPT !.sv = [@ EXCEPT !.audioFileWriter = t.sv.recordingSessionId,
                                    !.wavEmpty = TRUE],
                   !.gh.openWavs = @ \cup {t.sv.recordingSessionId}]

(* closeAudioFile: an empty WAV is deleted, a full one may be queued for   *)
(* transcription.  With outcome "close", close() fails: the WAV keeps its  *)
(* provisional header and is not queued.                                   *)
CloseAudioFile(t, enqueueRetranscription, outcome) ==
    IF t.sv.audioFileWriter = null THEN t
    ELSE IF outcome = "close"
    THEN [t EXCEPT !.sv.audioFileWriter = null, !.gh.wavFailed = TRUE]
    ELSE [t EXCEPT
            !.sv = [@ EXCEPT
                !.retranscriptionQueue =
                    t.sv.retranscriptionQueue +
                    IF enqueueRetranscription /\ AutoRetranscribe /\ ~t.sv.wavEmpty
                    THEN 1 ELSE 0,
                !.audioFileWriter = null],
            !.gh.openWavs = @ \ {t.sv.audioFileWriter}]

StartNextRetranscriptionOrStop(t) ==
    IF t.sv.sessionActive \/ t.sv.inferenceAlive \/ t.sv.pendingRecordingStart
    THEN IF t.sv.pendingRecordingStart THEN StartRecordingInternalAsync(t) ELSE t
    ELSE IF FileAlive(t) THEN t
    ELSE IF t.sv.retranscriptionQueue = 0 THEN StopForegroundAndSelf(t)
    ELSE [t EXCEPT !.sv = [@ EXCEPT !.retranscriptionQueue = t.sv.retranscriptionQueue - 1,
                                    !.currentState = "FileTranscribing",
                                    !.inferenceAlive = TRUE, !.inferenceAccepting = FALSE,
                                    !.retranscriptionWorker = FreshFl(t)],
                   !.fl[FreshFl(t)] = "live"]

(* Bug: the inference worker is not waited for. *)
FinishIdleWorkHasty(t) ==
    IF t.sv.sessionActive THEN UpdateSessionState(t)
    ELSE IF ~t.sv.jsonThreadStopped THEN t
    ELSE StartNextRetranscriptionOrStop([t EXCEPT !.sv.inferenceAlive = FALSE])

FinishIdleWorkIfPossible(t) ==
    LET cleared == IF t.sv.inferenceFailed
                   THEN [t EXCEPT !.sv.retranscriptionQueue = 0] ELSE t
    IN  IF t.sv.sessionActive THEN UpdateSessionState(t)
        ELSE IF ~t.sv.whisperThreadStopped \/ ~t.sv.jsonThreadStopped THEN t
        ELSE IF t.sv.pendingRecordingStart THEN StartRecordingInternalAsync(cleared)
        ELSE StartNextRetranscriptionOrStop(cleared)

RequestJsonThreadStop(t) ==
    LET j == t.sv.transcriptionJsonWorker
    IN  IF j = null \/ t.js[j].st \in {"exited", "gone"}
        THEN FinishIdleWorkIfPossible(
                [t EXCEPT !.sv = [@ EXCEPT !.jsonThreadStopped = TRUE,
                                           !.transcriptionJsonWorker = null]])
        ELSE [t EXCEPT !.js[j].st = "stopping"]

(* Drain-stop a live inference worker, or go straight to the JSON worker. *)
StopInferenceOrJson(t) ==
    IF WhisperAlive(t)
    THEN StopWhisper([t EXCEPT !.sv.inferenceAccepting = FALSE])
    ELSE RequestJsonThreadStop(t)

StopInferenceIfNotRecording(t) ==
    LET ended == [t EXCEPT !.sv = [@ EXCEPT !.sessionActive = FALSE,
                                            !.sessionEndRequested = TRUE]]
    IN  IF ~t.sv.recording THEN StopInferenceOrJson(ended) ELSE RequestJsonThreadStop(ended)

(* startInferencePipeline: a JSON worker is created only if the field is   *)
(* null.                                                                   *)
StartInferencePipeline(t, time) ==
    LET session == IF t.sv.recordingSessionId = null THEN time ELSE t.sv.recordingSessionId
        w == FreshWh(t)
        j == FreshJs(t)
        started == [t EXCEPT
            !.sv = [@ EXCEPT !.inferenceSessionId = session, !.transcriptionWorker = w,
                             !.whisperThreadStopped = FALSE, !.inferenceAlive = TRUE,
                             !.inferenceAccepting = TRUE, !.inferenceFailed = FALSE],
            !.wh[w] = [st |-> "accepting", session |-> session, backlog |-> 0,
                       sequence |-> t.sv.nextInferenceSequence, hand |-> "none"]]
    IN  IF t.sv.transcriptionJsonWorker # null THEN started
        ELSE [started EXCEPT !.sv = [@ EXCEPT !.transcriptionJsonWorker = j,
                                              !.jsonThreadStopped = FALSE],
                             !.js[j] = [st |-> "live", session |-> session]]

(* ensureInferenceAccepting: the state after it and its result. *)
EnsureInferenceAccepting(t, time) ==
    LET w == t.sv.transcriptionWorker
        resumed == t.wh[w].st \in {"accepting", "draining", "failed"}
    IN  IF ~WhisperAlive(t) THEN [after |-> StartInferencePipeline(t, time), ok |-> TRUE]
        ELSE IF t.sv.inferenceSessionId # time
        THEN [after |-> StopWhisper([t EXCEPT !.sv.inferenceAccepting = FALSE]), ok |-> FALSE]
        ELSE [after |-> [t EXCEPT !.sv = [@ EXCEPT !.inferenceAlive = TRUE,
                                                   !.inferenceAccepting = resumed],
                                  !.wh[w].st = IF @ = "draining" THEN "accepting" ELSE @],
              ok |-> resumed]

NewRecorder(t) ==
    [t EXCEPT !.sv = [@ EXCEPT !.recordWorker = FreshRec(t), !.recording = TRUE],
              !.rec[FreshRec(t)] = [st |-> "live", session |-> t.sv.recordingSessionId,
                                    hand |-> "none"]]

(* startRecordingWorkerForSession; outcome says what the platform answers. *)
StartRecordingWorkerForSession(t, outcome) ==
    CASE outcome = "permission" -> StopForegroundAndSelf(t)
      [] outcome = "open" -> t
      [] outcome = "record" ->
            UpdateSessionState([t EXCEPT !.sv = [@ EXCEPT !.pendingRecordingResume = FALSE,
                                                          !.recordWorker = null]])
      [] OTHER -> UpdateSessionState(NewRecorder([t EXCEPT !.sv.pendingRecordingResume = FALSE]))

(* Bug: the end of the session neither queues the WAV nor returns the      *)
(* capture permission.                                                     *)
FinishRecordThreadCareless(t, outcome) ==
    LET gone == [t EXCEPT !.sv.recordWorker = null]
    IN  IF ~t.sv.sessionEndRequested
        THEN IF t.sv.pendingRecordingResume /\ t.sv.sessionActive
             THEN StartRecordingWorkerForSession(gone, outcome)
             ELSE UpdateSessionState(gone)
        ELSE StopInferenceOrJson(CloseAudioFile(gone, FALSE, outcome))

(* Bug: the JSON worker is ended at once, before the inference queue drained. *)
FinishRecordThreadJsonFirst(t, outcome) ==
    LET gone == [t EXCEPT !.sv.recordWorker = null]
        closed == CloseAudioFile(ReleaseMediaProjection(gone), TRUE, outcome)
    IN  IF ~t.sv.sessionEndRequested
        THEN IF t.sv.pendingRecordingResume /\ t.sv.sessionActive
             THEN StartRecordingWorkerForSession(gone, outcome)
             ELSE UpdateSessionState(gone)
        ELSE RequestJsonThreadStop(IF WhisperAlive(closed) THEN StopWhisper(closed) ELSE closed)

(* Bug: a start that waits for the recorder is not carried out. *)
FinishRecordThreadStuck(t, outcome) ==
    LET gone == [t EXCEPT !.sv.recordWorker = null]
        closed == CloseAudioFile(ReleaseMediaProjection(gone), TRUE, outcome)
    IN  IF ~t.sv.sessionEndRequested THEN UpdateSessionState(gone)
        ELSE IF t.sv.pendingRecordingStart THEN closed
        ELSE StopInferenceOrJson(closed)

FinishRecordThread(t, outcome) ==
    LET gone == [t EXCEPT !.sv.recordWorker = null]
        closed == CloseAudioFile(ReleaseMediaProjection(gone), TRUE, outcome)
    IN  IF ~t.sv.sessionEndRequested
        THEN IF t.sv.pendingRecordingResume /\ t.sv.sessionActive
             THEN StartRecordingWorkerForSession(gone, outcome)
             ELSE UpdateSessionState(gone)
        ELSE IF t.sv.pendingRecordingStart THEN StartRecordingInternalAsync(closed)
        ELSE StopInferenceOrJson(closed)

RequestRecordThreadStop(t, outcome) ==
    IF RecorderAlive(t)
    THEN [t EXCEPT !.rec[t.sv.recordWorker].st = "stopping"]
    ELSE FinishRecordThread(t, outcome)

(* prepareMediaProjectionIfNeeded succeeds; a token serves only once. *)
ProjectionPrepared(t, outcome) ==
    \/ t.sv.requestedAudioSource = "MICROPHONE"
    \/ t.sv.projectionData /\ outcome # "projection"

TakeProjection(t) ==
    IF t.sv.requestedAudioSource = "MICROPHONE" THEN t
    ELSE [t EXCEPT !.sv = [@ EXCEPT !.mediaProjection = TRUE, !.projectionData = FALSE]]

(* startRecordingInternal up to ensureInferenceAccepting: the session the  *)
(* recording will belong to.                                               *)
ChooseSession(t) ==
    LET time == IF t.sv.pendingRecordingTimeData = null
                THEN t.sv.lastTime + 1 ELSE t.sv.pendingRecordingTimeData
    IN  [t EXCEPT !.sv = [@ EXCEPT !.lastTime = IF t.sv.lastTime < time THEN time ELSE t.sv.lastTime,
                                   !.pendingRecordingTimeData = time,
                                   !.recordingSessionId = time]]

(* The part of startRecordingInternal that runs once inference accepts. *)
OpenAndRecord(t, outcome) ==
    LET opened == OpenAudioFile(t)
        begun == [TakeProjection(opened) EXCEPT
                    !.sv = [@ EXCEPT !.pendingRecordingStart = FALSE,
                                     !.sessionEndRequested = FALSE, !.sessionActive = TRUE,
                                     !.recordingTimeData = t.sv.pendingRecordingTimeData,
                                     !.pendingRecordingTimeData = null]]
    IN  CASE outcome = "open" -> StopInferenceIfNotRecording(t)
          [] outcome # "open" /\ ~ProjectionPrepared(t, outcome) ->
                StopInferenceIfNotRecording(CloseAudioFile(
                    IF outcome = "projection" THEN ReleaseMediaProjection(opened) ELSE opened,
                    FALSE, outcome))
          [] outcome = "record" /\ ProjectionPrepared(t, outcome) ->
                StopInferenceIfNotRecording(CloseAudioFile(
                    ReleaseMediaProjection([begun EXCEPT !.sv.recordWorker = null]), FALSE,
                    outcome))
          [] OTHER -> [NewRecorder(begun) EXCEPT !.sv.currentState = "Recording"]

(* Bug: a running file transcription does not delay the recording. *)
StartRecordingInternalEager(t, outcome) ==
    LET chosen == ChooseSession(t)
        ensured == EnsureInferenceAccepting(chosen, chosen.sv.pendingRecordingTimeData)
    IN  IF t.sv.recording THEN t
        ELSE IF RecorderAlive(t) \/ ~ensured.ok THEN [t EXCEPT !.sv.pendingRecordingStart = TRUE]
        ELSE OpenAndRecord(ensured.after, outcome)

StartRecordingInternal(t, outcome) ==
    LET chosen == ChooseSession(t)
        ensured == EnsureInferenceAccepting(chosen, chosen.sv.pendingRecordingTimeData)
    IN  IF t.sv.recording THEN t
        ELSE IF RecorderAlive(t) \/ FileAlive(t)
        THEN [t EXCEPT !.sv.pendingRecordingStart = TRUE]
        ELSE IF outcome \in {"permission", "prepare"} THEN StopForegroundAndSelf(t)
        ELSE IF ~ensured.ok THEN [ensured.after EXCEPT !.sv.pendingRecordingStart = TRUE]
        ELSE OpenAndRecord(ensured.after, outcome)

-----------------------------------------------------------------------------
(* The handlers of onStartCommand. *)

RequestStopRecording(t, outcome) ==
    IF ~t.sv.sessionActive THEN t
    ELSE RequestRecordThreadStop(
            [t EXCEPT !.sv = [@ EXCEPT !.sessionActive = FALSE,
                                       !.sessionEndRequested = TRUE, !.recording = FALSE,
                                       !.pendingRecordingStart = FALSE,
                                       !.pendingRecordingResume = FALSE,
                                       !.pendingInferenceResume = FALSE,
                                       !.inferenceAccepting = FALSE,
                                       !.currentState = "StopRecord"]],
            outcome)

RequestPauseRecording(t, outcome) ==
    IF ~t.sv.sessionActive \/ ~t.sv.recording THEN t
    ELSE RequestRecordThreadStop(
            UpdateSessionState([t EXCEPT !.sv = [@ EXCEPT !.recording = FALSE,
                                                          !.pendingRecordingResume = FALSE]]),
            outcome)

(* Bug: a resume does not wait for the old recorder thread. *)
RequestResumeRecordingAtOnce(t, outcome) ==
    IF ~t.sv.sessionActive \/ t.sv.recording THEN t
    ELSE StartRecordingWorkerForSession(t, outcome)

RequestResumeRecording(t, outcome) ==
    IF ~t.sv.sessionActive \/ t.sv.recording THEN t
    ELSE IF RecorderAlive(t) THEN [t EXCEPT !.sv.pendingRecordingResume = TRUE]
    ELSE StartRecordingWorkerForSession(t, outcome)

(* Bug: the worker counts as gone, and the shown state stays, while it drains. *)
RequestStopInferenceHasty(t) ==
    IF ~t.sv.sessionActive \/ t.sv.transcriptionWorker = null THEN t
    ELSE StopWhisper([t EXCEPT !.sv = [@ EXCEPT !.pendingInferenceResume = FALSE,
                                                !.inferenceAlive = FALSE,
                                                !.inferenceAccepting = FALSE]])

RequestStopInference(t) ==
    IF ~t.sv.sessionActive \/ t.sv.transcriptionWorker = null THEN t
    ELSE StopWhisper(UpdateSessionState(
            [t EXCEPT !.sv = [@ EXCEPT !.pendingInferenceResume = FALSE,
                                       !.inferenceAccepting = FALSE]]))

(* Bug: the sequence of a recreated worker starts again. *)
RequestResumeInferenceRestarting(t) ==
    LET ensured == EnsureInferenceAccepting([t EXCEPT !.sv.nextInferenceSequence = 0],
                                            t.sv.recordingTimeData)
    IN  IF ~t.sv.sessionActive THEN t
        ELSE UpdateSessionState([ensured.after EXCEPT !.sv.pendingInferenceResume = ~ensured.ok])

RequestResumeInference(t) ==
    LET ensured == EnsureInferenceAccepting(t, t.sv.recordingTimeData)
    IN  IF ~t.sv.sessionActive THEN t
        ELSE IF ensured.ok
        THEN UpdateSessionState([ensured.after EXCEPT !.sv.pendingInferenceResume = FALSE])
        ELSE [ensured.after EXCEPT !.sv.pendingInferenceResume = TRUE]

RequestStopFileTranscription(t) ==
    LET cleared == [t EXCEPT !.sv = [@ EXCEPT !.retranscriptionQueue = 0,
                                              !.pendingRecordingStart = FALSE]]
    IN  IF FileAlive(t) THEN [cleared EXCEPT !.fl[t.sv.retranscriptionWorker] = "stopping"]
        ELSE StopForegroundAndSelf(cleared)

(* The branch of onStartCommand for ACTION_START: the counters of the      *)
(* session are reset here, whatever of the session before still runs.      *)
StartCommand(t, source) ==
    LET request == [t EXCEPT !.sv = [@ EXCEPT !.requestedAudioSource = source,
                                              !.projectionData = (source = "APP_CAPTURE")]]
    IN  StartRecordingInternalAsync(
            IF t.sv.sessionActive THEN request
            ELSE [request EXCEPT
                    !.sv = [@ EXCEPT !.pendingRecordingTimeData = t.sv.lastTime + 1,
                                     !.lastTime = t.sv.lastTime + 1, !.nextInferenceSequence = 0,
                                     !.sessionRecordedSamples = 0]])

EnqueueSelectedFile(t) ==
    StartNextRetranscriptionOrStop([t EXCEPT !.sv.retranscriptionQueue = @ + 1])

-----------------------------------------------------------------------------
(* The events the worker threads deliver to the service. *)

OnRecordStopped(t, session, outcome) ==
    IF t.sv.destroyed \/ session # t.sv.recordingSessionId THEN t
    ELSE FinishRecordThread(t, outcome)

(* Bug: the end of the inference worker does not end the JSON worker. *)
OnWhisperStoppedSilent(t, session) ==
    IF t.sv.destroyed \/ session # t.sv.inferenceSessionId THEN t
    ELSE UpdateSessionState(
            [t EXCEPT !.sv = [@ EXCEPT !.whisperThreadStopped = TRUE,
                                       !.transcriptionWorker = null,
                                       !.inferenceAlive = FALSE,
                                       !.inferenceAccepting = FALSE]])

(* The event never carries an error: an error was a result before it. *)
OnWhisperStopped(t, session) ==
    LET stopped == [t EXCEPT !.sv = [@ EXCEPT !.whisperThreadStopped = TRUE,
                                              !.transcriptionWorker = null,
                                              !.inferenceAlive = FALSE,
                                              !.inferenceAccepting = FALSE]]
    IN  IF t.sv.destroyed \/ session # t.sv.inferenceSessionId THEN t
        ELSE IF t.sv.sessionEndRequested THEN RequestJsonThreadStop(stopped)
        ELSE IF t.sv.pendingInferenceResume /\ t.sv.sessionActive
        THEN UpdateSessionState(StartInferencePipeline(
                [stopped EXCEPT !.sv.pendingInferenceResume = FALSE], t.sv.recordingTimeData))
        ELSE UpdateSessionState(stopped)

OnJsonStopped(t, session) ==
    IF t.sv.destroyed \/ session # t.sv.inferenceSessionId THEN t
    ELSE FinishIdleWorkIfPossible(
            [t EXCEPT !.sv = [@ EXCEPT !.jsonThreadStopped = TRUE,
                                       !.transcriptionJsonWorker = null]])

OnRetranscriptionComplete(t) ==
    LET done == [t EXCEPT !.sv = [@ EXCEPT !.retranscriptionWorker = null,
                                           !.inferenceAlive = FALSE,
                                           !.inferenceAccepting = FALSE,
                                           !.currentState = "none"]]
    IN  IF t.sv.destroyed THEN t
        ELSE IF t.sv.pendingRecordingStart THEN StartRecordingInternalAsync(done)
        ELSE StartNextRetranscriptionOrStop(done)

Result(session, n, w, error) ==
    [session |-> session, sequence |-> n, worker |-> w, error |-> error]

(* onTranscriptionEvent, first half, for result number n of inference      *)
(* worker w: the number is counted under the lock.                         *)
OnTranscriptionEvent(t, w, n, error) ==
    IF t.sv.destroyed \/ t.wh[w].session # t.sv.inferenceSessionId THEN t
    ELSE [t EXCEPT !.sv.nextInferenceSequence = IF @ < n + 1 THEN n + 1 ELSE @,
                   !.wh[w].hand = IF error THEN "error" ELSE "text"]

(* onTranscriptionEvent, second half, without the lock: the JSON worker    *)
(* keeps the result only while it runs, and keeps no error.                *)
PassResultOn(t, w) ==
    LET error == t.wh[w].hand = "error"
        j == t.sv.transcriptionJsonWorker
        kept == j # null /\ t.js[j].st = "live" /\ ~error
    IN  [t EXCEPT
            !.sv.inferenceFailed = @ \/ error,
            !.wh[w].hand = "none",
            !.gh.saved = IF kept
                         THEN @ \cup {Result(t.wh[w].session, t.wh[w].sequence - 1, w, error)}
                         ELSE @]

OnDestroyed(t, outcome) ==
    LET closed == ReleaseMediaProjection(CloseAudioFile(t, FALSE, outcome))
        f == t.sv.retranscriptionWorker
    IN  [closed EXCEPT !.sv = [@ EXCEPT !.destroyed = TRUE, !.retranscriptionWorker = null,
                                        !.retranscriptionQueue = 0, !.sessionActive = FALSE,
                                        !.recording = FALSE, !.inferenceAlive = FALSE,
                                        !.inferenceAccepting = FALSE,
                                        !.currentState = "none"],
                       !.fl = [i \in Ids |-> IF i = f /\ @[i] = "live" THEN "stopping" ELSE @[i]]]

-----------------------------------------------------------------------------
(* Actions. *)

(* What the platform answers to what a step asks of it. *)
Outcomes == {"ok"} \cup (Faults \cap (StartFaults \cup {"close"}))

(* RecordActivity offers START outside a session only, and after a START   *)
(* only once STOP was pressed; a file transcription only while no service  *)
(* exists.  STOP may come at any time, from the notification too.          *)
Send(c) ==
    /\ c \in Commands /\ commands < MaxCommands /\ ~sv.selfStopped
    /\ commands' = commands + 1

Start ==
    /\ Send("START") /\ ~sv.sessionActive /\ sv.currentState # "FileTranscribing"
    /\ gh.starts < MaxStarts /\ (sv.startThreads = 0 \/ gh.stopAsked)
    /\ \E source \in AudioSources :
          Become([StartCommand(State, source) EXCEPT !.gh.starts = @ + 1, !.gh.stopAsked = FALSE])

Stop ==
    /\ Send("STOP") /\ commands > 0
    /\ \E o \in Outcomes :
          Become([RequestStopRecording(State, o) EXCEPT !.gh.stopAsked = TRUE])

Pause ==
    /\ Send("PAUSE") /\ sv.sessionActive
    /\ \E o \in Outcomes : Become(RequestPauseRecording(State, o))

Resume ==
    /\ Send("RESUME") /\ sv.sessionActive
    /\ \E o \in Outcomes : Become(RequestResumeRecording(State, o))

StopInference ==
    /\ Send("STOP_INFERENCE") /\ sv.sessionActive
    /\ Become([RequestStopInference(State) EXCEPT !.gh.inferenceStopped = TRUE])

ResumeInference ==
    Send("RESUME_INFERENCE") /\ sv.sessionActive /\ Become(RequestResumeInference(State))

TranscribeFile == Send("TRANSCRIBE_FILE") /\ commands = 0 /\ Become(EnqueueSelectedFile(State))

StopFile ==
    /\ Send("STOP_FILE") /\ sv.currentState = "FileTranscribing"
    /\ Become(RequestStopFileTranscription(State))

(* MediaProjection.Callback.onStop: the user revokes the capture. *)
ProjectionStopped ==
    /\ sv.mediaProjection /\ sv.sessionActive /\ "projection" \in Faults
    /\ \E o \in Outcomes : Become(RequestStopRecording(State, o))
    /\ UNCHANGED commands

(* A thread created by startRecordingInternalAsync gets the lock. *)
StartThread ==
    /\ sv.startThreads > 0
    /\ \E o \in Outcomes :
          Become(StartRecordingInternal([State EXCEPT !.sv.startThreads = @ - 1], o))
    /\ UNCHANGED commands

(* onAudioChunk is three steps: the samples are counted under the lock,    *)
(* the chunk is appended to the WAV and then submitted to the inference    *)
(* worker, both without the lock.  A read that was in progress still       *)
(* delivers after a stop request.                                          *)
CountChunk(i) ==
    /\ rec[i].st \in {"live", "stopping"} /\ rec[i].hand = "none"
    /\ sv.sessionRecordedSamples < MaxSamples
    /\ rec' = [rec EXCEPT ![i].hand = "counted"]
    /\ sv' = [sv EXCEPT !.sessionRecordedSamples = @ + 1]
    /\ UNCHANGED <<wh, js, fl, commands, gh, overtaken>>

WriteChunk(i) ==
    /\ rec[i].hand = "counted"
    /\ \E written \in IF "wav" \in Faults THEN BOOLEAN ELSE {TRUE}, o \in Outcomes :
          Become([IF sv.audioFileWriter = null THEN State
                  ELSE IF ~written
                  THEN CloseAudioFile([State EXCEPT !.gh.wavFailed = TRUE], FALSE, o)
                  ELSE [State EXCEPT !.sv.wavEmpty = FALSE, !.gh.wavWritten = TRUE]
                  EXCEPT !.rec[i].hand = "written"])
    /\ UNCHANGED commands

(* Bug: the queue of the inference worker takes more than its capacity. *)
SubmitChunkUnbounded(i) ==
    /\ rec[i].hand = "written"
    /\ LET w == sv.transcriptionWorker
       IN  Become([State EXCEPT
              !.rec[i].hand = "none",
              !.wh = IF w # null /\ sv.inferenceAccepting
                     THEN [wh EXCEPT ![w].backlog = wh[w].backlog + 1] ELSE wh])
    /\ UNCHANGED commands

(* A full queue drops its oldest chunk. *)
SubmitChunk(i) ==
    /\ rec[i].hand = "written"
    /\ LET w == sv.transcriptionWorker
           taken == w # null /\ sv.inferenceAccepting /\ wh[w].st = "accepting"
       IN  Become([State EXCEPT
              !.rec[i].hand = "none",
              !.wh = IF taken /\ wh[w].backlog < MaxBacklog
                     THEN [wh EXCEPT ![w].backlog = wh[w].backlog + 1] ELSE wh])
    /\ UNCHANGED commands

(* The recorder thread leaves its loop, asked to or by an exception, and   *)
(* clears workerThread.                                                    *)
RecorderExit(i) ==
    /\ rec[i].hand = "none"
    /\ rec[i].st = "stopping" \/ (rec[i].st = "live" /\ "recorder" \in Faults)
    /\ rec' = [rec EXCEPT ![i].st = "exited"]
    /\ gh' = [gh EXCEPT !.recorderDied = @ \/ rec[i].st = "live"]
    /\ UNCHANGED <<sv, wh, js, fl, commands, overtaken>>

RecorderStopped(i) ==
    /\ rec[i].st = "exited"
    /\ \E o \in Outcomes :
          Become(OnRecordStopped([State EXCEPT !.rec[i].st = "gone"], rec[i].session, o))
    /\ UNCHANGED commands

(* Inference worker w publishes its next result and is in state st then. *)
Publish(w, backlog, error, st) ==
    LET n == wh[w].sequence
        t == OnTranscriptionEvent(State, w, n, error)
    IN  Become([t EXCEPT !.wh[w] = [@ EXCEPT !.sequence = n + 1, !.st = st, !.backlog = backlog],
                         !.gh = [gh EXCEPT
                                    !.published = @ \cup {Result(wh[w].session, n, w, error)},
                                    !.inferenceStopped = @ \/ error]])

(* The inference worker publishes the result of one chunk. *)
Infer(w) ==
    /\ wh[w].st \in {"accepting", "draining"} /\ wh[w].backlog > 0 /\ wh[w].hand = "none"
    /\ Publish(w, wh[w].backlog - 1, FALSE, wh[w].st)
    /\ UNCHANGED commands

(* transcribeRemainingAudio: what is left over gives a final result. *)
FinalResult(w) ==
    /\ wh[w].st = "terminating" /\ wh[w].hand = "none"
    /\ Publish(w, wh[w].backlog, FALSE, "finished")
    /\ UNCHANGED commands

(* The inference worker fails, also at its final result: an error result,  *)
(* and then its finally block.                                             *)
WhisperFails(w) ==
    /\ "whisper" \in Faults /\ wh[w].hand = "none"
    /\ wh[w].st \in {"accepting", "draining", "terminating"}
    /\ Publish(w, wh[w].backlog, TRUE, IF wh[w].st = "terminating" THEN "finished" ELSE "failed")
    /\ UNCHANGED commands

(* The rest of onTranscriptionEvent, on the inference thread. *)
PassOn(w) == wh[w].hand # "none" /\ Become(PassResultOn(State, w)) /\ UNCHANGED commands

(* beginTerminationIfDrained, and later the synchronized end of run. *)
WhisperExit(w) ==
    /\ wh[w].hand = "none"
    /\ \/ wh[w].st = "draining" /\ wh[w].backlog = 0
       \/ wh[w].st \in {"terminating", "failed", "finished"}
    /\ wh' = [wh EXCEPT ![w].st = IF @ = "draining" THEN "terminating" ELSE "exited"]
    /\ UNCHANGED <<sv, rec, js, fl, commands, gh, overtaken>>

WhisperStopped(w) ==
    /\ wh[w].st = "exited"
    /\ Become(OnWhisperStopped([State EXCEPT !.wh[w].st = "gone"], wh[w].session))
    /\ UNCHANGED commands

(* The JSON worker ends, asked to or by an exception of its writer. *)
JsonExit(j) ==
    /\ js[j].st = "stopping" \/ (js[j].st = "live" /\ "json" \in Faults)
    /\ js' = [js EXCEPT ![j].st = "exited"]
    /\ gh' = [gh EXCEPT !.jsonDied = @ \/ js[j].st = "live"]
    /\ UNCHANGED <<sv, rec, wh, fl, commands, overtaken>>

JsonStopped(j) ==
    /\ js[j].st = "exited"
    /\ Become(OnJsonStopped([State EXCEPT !.js[j].st = "gone"], js[j].session))
    /\ UNCHANGED commands

(* A file transcription ends by itself or after an interrupt. *)
FileExit(f) ==
    /\ fl[f] \in {"live", "stopping"}
    /\ fl' = [fl EXCEPT ![f] = "exited"]
    /\ UNCHANGED <<sv, rec, wh, js, commands, gh, overtaken>>

FileComplete(f) ==
    /\ fl[f] = "exited"
    /\ Become(OnRetranscriptionComplete([State EXCEPT !.fl[f] = "gone"]))
    /\ UNCHANGED commands

(* The platform destroys the service after stopSelf. *)
OnDestroy ==
    /\ sv.selfStopped /\ ~sv.destroyed
    /\ \E o \in Outcomes : Become(OnDestroyed(State, o))
    /\ UNCHANGED commands

RecorderStep(i) ==
    \/ CountChunk(i) \/ WriteChunk(i) \/ SubmitChunk(i) \/ RecorderExit(i) \/ RecorderStopped(i)
WhisperStep(w) ==
    \/ Infer(w) \/ FinalResult(w) \/ WhisperFails(w) \/ PassOn(w)
    \/ WhisperExit(w) \/ WhisperStopped(w)
JsonStep(j) == JsonExit(j) \/ JsonStopped(j)
FileStep(f) == FileExit(f) \/ FileComplete(f)

Next ==
    \/ Start \/ Stop \/ Pause \/ Resume \/ StopInference \/ ResumeInference
    \/ TranscribeFile \/ StopFile \/ ProjectionStopped
    \/ StartThread \/ OnDestroy
    \/ \E i \in Ids : RecorderStep(i) \/ WhisperStep(i) \/ JsonStep(i) \/ FileStep(i)

Spec == Init /\ [][Next]_vars

(* Threads keep running: a recorder that was asked to stop leaves its loop *)
(* (requestStop unblocks the read), results are computed, a file ends, a   *)
(* started thread gets the lock, and the platform calls onDestroy.  No     *)
(* fairness for commands or failures.                                      *)
RecorderRuns(i) ==
    \/ WriteChunk(i) \/ SubmitChunk(i) \/ RecorderStopped(i)
    \/ rec[i].st = "stopping" /\ RecorderExit(i)
WhisperRuns(w) == Infer(w) \/ PassOn(w) \/ WhisperExit(w) \/ WhisperStopped(w)
JsonRuns(j) == JsonStopped(j) \/ (js[j].st = "stopping" /\ JsonExit(j))

FairSpec ==
    /\ Spec
    /\ WF_vars(StartThread) /\ WF_vars(OnDestroy)
    /\ \A i \in Ids :
          /\ WF_vars(RecorderRuns(i)) /\ WF_vars(WhisperRuns(i))
          /\ WF_vars(JsonRuns(i)) /\ WF_vars(FileStep(i))

-----------------------------------------------------------------------------
RecorderStates == {"unused", "live", "stopping", "exited", "gone"}
WhisperStates ==
    {"unused", "accepting", "draining", "terminating", "failed", "finished", "exited", "gone"}

TypeOK ==
    /\ DOMAIN sv = DOMAIN InitService
    /\ {sv.recordWorker, sv.transcriptionWorker, sv.transcriptionJsonWorker,
        sv.retranscriptionWorker} \subseteq {null} \cup Ids
    /\ \A i \in Ids : /\ rec[i].st \in RecorderStates
                      /\ rec[i].hand \in {"none", "counted", "written"}
                      /\ wh[i].hand \in {"none", "text", "error"}
                      /\ wh[i].st \in WhisperStates /\ wh[i].backlog \in 0..MaxBacklog
                      /\ js[i].st \in RecorderStates /\ fl[i] \in RecorderStates
    /\ commands \in 0..MaxCommands

-----------------------------------------------------------------------------
(* What the service knows of its threads. *)

(* The service can still reach every thread that was not told to stop: a   *)
(* running recorder is recordWorker, an inference worker that accepts      *)
(* audio is transcriptionWorker, a running JSON worker is                  *)
(* transcriptionJsonWorker.                                                *)
ThreadsReachable ==
    \A i \in Ids :
        /\ rec[i].st = "live" => sv.recordWorker = i
        /\ wh[i].st = "accepting" => sv.transcriptionWorker = i
        /\ js[i].st = "live" => sv.transcriptionJsonWorker = i

(* A stop event is matched by session id only, so one that is overtaken by *)
(* the creation of the next worker makes the service forget that worker    *)
(* (see PauseStopsRecorder and InferenceShownIsTrue).  This is the only    *)
(* way to lose a thread, over any starts, commands and failures.           *)
ReachableUnlessOvertaken == ~overtaken => ThreadsReachable

(* No two results of a session have the same number, though a worker that  *)
(* takes over counts on from nextInferenceSequence, which the results of   *)
(* the worker before still raise and which START sets to zero.  A service  *)
(* that was destroyed counts no more.                                      *)
NumbersUniqueUnlessOvertaken ==
    ~overtaken /\ ~sv.destroyed =>
        \A p, q \in gh.published : p.session = q.session /\ p.sequence = q.sequence => p = q

(* The recorder and a file transcription run together, the recorder        *)
(* counted until its thread has ended.                                     *)
RecorderBesideFile ==
    \E i, f \in Ids : rec[i].st \in {"live", "stopping"} /\ fl[f] \in {"live", "stopping"}

(* startRecordingInternal and finishIdleWorkIfPossible keep recorder and   *)
(* file transcription apart, also if a start was asked for while the file  *)
(* was being transcribed.  With inference stopped on its own before, the   *)
(* code does not: finishIdleWorkIfPossible starts a waiting file while the *)
(* recorder still runs.                                                    *)
FileNeverWithRecorder == ~overtaken /\ ~gh.inferenceStopped => ~RecorderBesideFile

-----------------------------------------------------------------------------
(* What the UI is told of a session. *)

(* requestPauseRecording: a pause stops the recorder.  The code does not   *)
(* keep this: a resume between the end of the recorder thread and its stop *)
(* event creates a recorder that the event makes the service forget, and   *)
(* the next pause reaches none.                                            *)
PauseStopsRecorder == sv.sessionActive /\ ~sv.recording => \A i \in Ids : rec[i].st # "live"

(* WhisperRecordingStateEvent: recording is true while the microphone is   *)
(* recorded, but for a recorder whose stop event is still on its way.  The *)
(* code does not keep this when the recorder ends by itself.               *)
RecordingShownIsTrue ==
    sv.sessionActive /\ sv.recording => \E i \in Ids : rec[i].st \in {"live", "exited"}

(* WhisperRecordingStateEvent: inferenceAlive is true while the inference  *)
(* worker is alive.  The code does not keep this when a stop event finds a *)
(* new worker in place of the one it is about.                             *)
InferenceShownIsTrue ==
    sv.sessionActive =>
        \A w \in Ids : wh[w].st \in {"accepting", "draining", "terminating"} => sv.inferenceAlive

(* In a first session the displayed state is the one the flags describe,   *)
(* also after a pause, a resume or a stop that had to wait for a worker to *)
(* end.  The flags are those of the threads, unless a stop event was       *)
(* overtaken or, for recording, the recorder has ended by itself.          *)
ShownStateIsTrue ==
    sv.sessionActive /\ gh.starts <= 1 =>
        /\ sv.currentState = StateOf(sv)
        /\ overtaken \/ (PauseStopsRecorder /\ InferenceShownIsTrue)
        /\ overtaken \/ gh.recorderDied \/ RecordingShownIsTrue

-----------------------------------------------------------------------------
(* What becomes of the results and the recording. *)

(* onTranscriptionEvent: every result is on its way to, or was handed to,  *)
(* a running JSON worker, unless a JSON worker died of an exception.  The  *)
(* code does not keep this for a second session that begins while the JSON *)
(* worker of the first is stopping.                                        *)
ResultsSaved ==
    \/ gh.jsonDied
    \/ \A p \in gh.published :
          \/ p.error \/ p \in gh.saved
          \/ wh[p.worker].hand # "none" /\ wh[p.worker].sequence = p.sequence + 1

(* Within one session every result is saved, unless a stop event was       *)
(* overtaken: the JSON worker outlives the drain of the inference queue    *)
(* and its final result.                                                   *)
ResultsReachJson == ~overtaken /\ gh.starts <= 1 => ResultsSaved

(* With both settings on, the WAV of a session that received audio is      *)
(* transcribed again before the service stops itself, unless inference     *)
(* failed or was stopped on its own before, or the WAV could not be        *)
(* written or closed.                                                      *)
RecordingRetranscribed ==
    /\ sv.selfStopped /\ ~gh.inferenceStopped /\ gh.starts <= 1
    /\ WavEnabled /\ AutoRetranscribe /\ gh.wavWritten /\ ~gh.wavFailed
    => \E f \in Ids : fl[f] \in {"exited", "gone"}

-----------------------------------------------------------------------------
(* How a session and the service end. *)

(* finishIdleWorkIfPossible: the service ends once no worker is alive.     *)
StopWaitsForRecorder ==
    sv.selfStopped => \A i \in Ids : rec[i].st \notin {"live", "stopping"}

InferenceEnded ==
    \A i \in Ids : /\ wh[i].st \in {"unused", "exited", "gone"}
                   /\ js[i].st \in {"unused", "exited", "gone"}

(* A service that has stopped itself after its only session leaves no      *)
(* inference and no JSON thread behind: the queue was drained and the      *)
(* result file finished.                                                   *)
StopWaitsForResults == sv.selfStopped /\ ~overtaken /\ gh.starts <= 1 => InferenceEnded

(* Nor does it leave an open WAV, a held capture or a recorder behind, if  *)
(* inference did not stop or fail before (see StopWaitsForRecorder);       *)
(* a WAV whose close failed stays open, and a recorder whose stop event    *)
(* was overtaken may run on.                                               *)
StopLeavesNothing ==
    sv.selfStopped /\ ~gh.inferenceStopped /\ gh.starts <= 1 =>
        /\ InferenceEnded
        /\ gh.openWavs = {} \/ gh.wavFailed
        /\ ~sv.mediaProjection
        /\ overtaken \/ \A i \in Ids : rec[i].st \in {"unused", "exited", "gone"}

(* A session that was asked to end does end, and with it the service.      *)
SessionEnds == sv.sessionEndRequested ~> (sv.selfStopped \/ sv.sessionActive)

(* A start that had to wait for the session before it is carried out,      *)
(* through late stop events and recorders that end by themselves, if       *)
(* inference was not stopped on its own (see StopWaitsForRecorder).        *)
PendingStartServed == sv.pendingRecordingStart /\ ~gh.inferenceStopped ~> sv.sessionActive
=============================================================================
