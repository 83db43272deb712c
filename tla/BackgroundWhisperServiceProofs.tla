------------------- MODULE BackgroundWhisperServiceProofs -------------------
(***************************************************************************)
(* Proofs about BackgroundWhisperService, for every number of commands,    *)
(* starts, chunks and workers, every set of commands and of failures.      *)
(*                                                                         *)
(* A handler is an operator on the whole state, so each method of the      *)
(* service has its own lemmas, callees first: ...Effect says which fields  *)
(* it leaves alone, ...Cases which branches it has (both from its          *)
(* definition only), and ...Kept or ...Held that it keeps the invariant.   *)
(* The actions then only compose methods.  The invariants are in           *)
(* BackgroundWhisperServiceInvariants.                                     *)
(***************************************************************************)
EXTENDS BackgroundWhisperServiceInvariants, TLAPS

-----------------------------------------------------------------------------
(* What the methods of the service leave alone. *)

SameThreads(t, r) == r.rec = t.rec /\ r.wh = t.wh /\ r.js = t.js /\ r.fl = t.fl
SameWorkers(t, r) ==
    /\ r.sv.recordWorker = t.sv.recordWorker
    /\ r.sv.transcriptionWorker = t.sv.transcriptionWorker
    /\ r.sv.transcriptionJsonWorker = t.sv.transcriptionJsonWorker
SameNumbers(t, r) ==
    /\ r.gh.published = t.gh.published /\ r.sv.lastTime = t.sv.lastTime
    /\ r.sv.inferenceSessionId = t.sv.inferenceSessionId
    /\ r.sv.nextInferenceSequence = t.sv.nextInferenceSequence
SameSession(t, r) ==
    /\ r.sv.sessionActive = t.sv.sessionActive /\ r.sv.destroyed = t.sv.destroyed
    /\ r.sv.recordingSessionId = t.sv.recordingSessionId
    /\ r.sv.pendingRecordingTimeData = t.sv.pendingRecordingTimeData

Alike(t, r) ==
    /\ SameThreads(t, r) /\ SameWorkers(t, r) /\ SameNumbers(t, r) /\ SameSession(t, r)

(* At most, threads have ended and sessions are over. *)
FewerSessions(t, r) ==
    /\ t.sv.destroyed => r.sv.destroyed
    /\ r.sv.pendingRecordingTimeData \in {null, t.sv.pendingRecordingTimeData}
    /\ r.sv.recordingSessionId \in {null, t.sv.recordingSessionId}
    /\ r.sv.sessionActive =>
          t.sv.sessionActive /\ r.sv.recordingSessionId = t.sv.recordingSessionId
FewerWorkers(t, r) ==
    \A i \in Ids : WhActive(r, i) =>
        /\ WhActive(t, i)
        /\ r.wh[i].session = t.wh[i].session /\ r.wh[i].sequence = t.wh[i].sequence

Keeps(t, r) == SameNumbers(t, r) /\ FewerSessions(t, r) /\ FewerWorkers(t, r) /\ Reached(r)

(* That a method ends threads only, and keeps the others reachable, may    *)
(* rest on the fields holding them before.                                 *)
Preserves(t, r) == Shape(r) /\ (Reached(t) => Keeps(t, r))

LEMMA PreservesHeld ==
    ASSUME NEW t, Shape(t), NEW r, Preserves(t, r)
    PROVE  Shape(r) /\ (Held(t) => Held(r))
<1>1. ASSUME Held(t), ~r.sv.destroyed
      PROVE  Counted(r) /\ Dated(r) /\ WorkersCount(r) /\ SessionsCount(r)
  <2>1. Keeps(t, r)
    BY <1>1 DEF Preserves, Held
  <2>2. Counted(t) /\ Dated(t) /\ WorkersCount(t) /\ SessionsCount(t)
    BY <1>1, <2>1 DEF Held, Numbered, Keeps, FewerSessions
  <2>3. Counted(r)
    BY <2>1, <2>2 DEF Counted, Keeps, SameNumbers
  <2>4. Dated(r)
    BY <2>1, <2>2 DEF Dated, Keeps, SameNumbers, FewerSessions, Shape, Numbers, null
  <2>5. WorkersCount(r)
    BY <2>1, <2>2 DEF WorkersCount, Beyond, Keeps, SameNumbers, FewerWorkers
  <2>6. SessionsCount(r)
    BY <2>1, <2>2 DEF SessionsCount, Beyond, Keeps, SameNumbers, FewerSessions
  <2> QED
    BY <2>3, <2>4, <2>5, <2>6
<1> QED
  BY <1>1 DEF Held, Numbered, Preserves, Keeps

LEMMA AlikePreserves ==
    ASSUME NEW t, NEW r, Shape(r), Alike(t, r)
    PROVE  Preserves(t, r)
BY DEF Alike, SameThreads, SameWorkers, SameSession, Preserves, Keeps, FewerSessions,
   FewerWorkers, Reached, RecActive, WhActive, JsActive

LEMMA AlikeTransitive ==
    ASSUME NEW a, NEW b, NEW c, Alike(a, b), Alike(b, c)
    PROVE  Alike(a, c)
BY DEF Alike, SameThreads, SameWorkers, SameNumbers, SameSession

LEMMA PreservesTransitive ==
    ASSUME NEW a, NEW b, NEW c, Preserves(a, b), Preserves(b, c)
    PROVE  Preserves(a, c)
<1> SUFFICES ASSUME Reached(a)
             PROVE  Keeps(a, c)
  BY DEF Preserves
<1>1. Keeps(a, b) /\ Keeps(b, c)
  BY DEF Preserves, Keeps
<1>2. SameNumbers(a, c)
  BY <1>1 DEF Keeps, SameNumbers
<1>3. FewerSessions(a, c)
  BY <1>1 DEF Keeps, FewerSessions
<1>4. FewerWorkers(a, c)
  BY <1>1 DEF Keeps, FewerWorkers
<1> QED
  BY <1>1, <1>2, <1>3, <1>4 DEF Keeps

LEMMA SelfPreserves ==
    ASSUME NEW t, Shape(t)
    PROVE  Preserves(t, t)
<1>1. Alike(t, t)
  BY DEF Alike, SameThreads, SameWorkers, SameNumbers, SameSession
<1> QED
  BY <1>1, AlikePreserves

-----------------------------------------------------------------------------
(* The fields that the small methods change. *)

LEMMA UpdateSessionStateEffect ==
    ASSUME NEW t, Shape(t), NEW r, r = UpdateSessionState(t)
    PROVE  Shape(r) /\ Alike(t, r)
<1>1. Shape(r)
  BY DEF Shape, Numbers, UpdateSessionState, ServiceFields, InitService
<1> QED
  BY <1>1 DEF Shape, UpdateSessionState, ServiceFields, InitService, Alike,
     SameThreads, SameWorkers, SameNumbers, SameSession

LEMMA StopSelfEffect ==
    ASSUME NEW t, Shape(t), NEW r, r = StopForegroundAndSelf(t)
    PROVE  Preserves(t, r)
<1>1. Shape(r)
  BY DEF Shape, Numbers, StopForegroundAndSelf, ServiceFields, InitService, null
<1>2. SameThreads(t, r) /\ SameNumbers(t, r)
  BY DEF Shape, StopForegroundAndSelf, ServiceFields, InitService, SameThreads, SameNumbers
<1>3. SameWorkers(t, r)
  BY DEF Shape, StopForegroundAndSelf, ServiceFields, InitService, SameWorkers
<1>4. /\ r.sv.destroyed = t.sv.destroyed /\ ~r.sv.sessionActive
      /\ r.sv.recordingSessionId = null /\ r.sv.pendingRecordingTimeData = null
  BY DEF Shape, StopForegroundAndSelf, ServiceFields, InitService
<1>5. Reached(t) => Keeps(t, r)
  BY <1>2, <1>3, <1>4 DEF SameThreads, SameWorkers, Keeps, FewerSessions,
     FewerWorkers, Reached, RecActive, WhActive, JsActive
<1> QED
  BY <1>1, <1>5 DEF Preserves

LEMMA AsyncEffect ==
    ASSUME NEW t, Shape(t), NEW r, r = StartRecordingInternalAsync(t)
    PROVE  Shape(r) /\ Alike(t, r)
<1>1. Shape(r)
  BY DEF Shape, Numbers, StartRecordingInternalAsync, ServiceFields, InitService
<1> QED
  BY <1>1 DEF Shape, StartRecordingInternalAsync, ServiceFields, InitService, Alike,
     SameThreads, SameWorkers, SameNumbers, SameSession

LEMMA ReleaseEffect ==
    ASSUME NEW t, Shape(t), NEW r, r = ReleaseMediaProjection(t)
    PROVE  Shape(r) /\ Alike(t, r)
<1>1. Shape(r)
  BY DEF Shape, Numbers, ReleaseMediaProjection, ServiceFields, InitService
<1> QED
  BY <1>1 DEF Shape, ReleaseMediaProjection, ServiceFields, InitService, Alike,
     SameThreads, SameWorkers, SameNumbers, SameSession

LEMMA OpenAudioFileEffect ==
    ASSUME NEW t, Shape(t), NEW r, r = OpenAudioFile(t)
    PROVE  Shape(r) /\ Alike(t, r)
<1>1. CASE ~WavEnabled
  BY <1>1 DEF OpenAudioFile, Alike, SameThreads, SameWorkers, SameNumbers, SameSession
<1>2. CASE WavEnabled
  <2>1. Shape(r)
    BY <1>2 DEF Shape, Numbers, OpenAudioFile, ServiceFields, HistoryFields, InitService
  <2>2. Alike(t, r)
    BY <1>2 DEF Shape, OpenAudioFile, ServiceFields, HistoryFields, InitService, Alike,
       SameThreads, SameWorkers, SameNumbers, SameSession
  <2> QED
    BY <2>1, <2>2
<1> QED
  BY <1>1, <1>2

WavFailed(t) == [t EXCEPT !.gh.wavFailed = TRUE]
WavForgotten(t) == [t EXCEPT !.sv.audioFileWriter = null]
WavFinished(t, n) ==
    [t EXCEPT !.sv = [@ EXCEPT !.retranscriptionQueue = n, !.audioFileWriter = null],
              !.gh.openWavs = @ \ {t.sv.audioFileWriter}]

LEMMA WavFailedEffect ==
    ASSUME NEW t, Shape(t), NEW r, r = WavFailed(t)
    PROVE  Shape(r) /\ Alike(t, r)
<1>1. Shape(r)
  BY DEF Shape, WavFailed, HistoryFields
<1> QED
  BY <1>1 DEF Shape, WavFailed, HistoryFields, Alike, SameThreads, SameWorkers, SameNumbers,
     SameSession

LEMMA WavForgottenEffect ==
    ASSUME NEW t, Shape(t), NEW r, r = WavForgotten(t)
    PROVE  Shape(r) /\ Alike(t, r)
<1>1. Shape(r)
  BY DEF Shape, Numbers, WavForgotten, ServiceFields, InitService
<1> QED
  BY <1>1 DEF Shape, WavForgotten, ServiceFields, InitService, Alike,
     SameThreads, SameWorkers, SameNumbers, SameSession

LEMMA WavFinishedEffect ==
    ASSUME NEW t, Shape(t), NEW n \in Nat, NEW r, r = WavFinished(t, n)
    PROVE  Shape(r) /\ Alike(t, r)
<1>1. Shape(r)
  BY DEF Shape, Numbers, WavFinished, ServiceFields, HistoryFields, InitService
<1>2. Alike(t, r)
  BY DEF Shape, WavFinished, ServiceFields, HistoryFields, InitService, Alike,
     SameThreads, SameWorkers, SameNumbers, SameSession
<1> QED
  BY <1>1, <1>2

LEMMA CloseAudioFileCases ==
    ASSUME NEW t, Shape(t), NEW q, NEW o, NEW r, r = CloseAudioFile(t, q, o)
    PROVE  \/ r = t \/ r = WavForgotten(WavFailed(t))
           \/ \E n \in Nat : r = WavFinished(t, n)
<1>1. CASE t.sv.audioFileWriter = null
  BY <1>1 DEF CloseAudioFile
<1>2. CASE t.sv.audioFileWriter # null /\ o = "close"
  <2>1. r = [t EXCEPT !.sv.audioFileWriter = null, !.gh.wavFailed = TRUE]
    BY <1>2 DEF CloseAudioFile
  <2>2. WavForgotten(WavFailed(t)) = [t EXCEPT !.sv.audioFileWriter = null, !.gh.wavFailed = TRUE]
    BY DEF WavForgotten, WavFailed, Shape
  <2> QED
    BY <2>1, <2>2
<1>3. CASE t.sv.audioFileWriter # null /\ o # "close"
  <2> DEFINE n == t.sv.retranscriptionQueue +
                  IF q /\ AutoRetranscribe /\ ~t.sv.wavEmpty THEN 1 ELSE 0
  <2>1. n \in Nat
    BY DEF Shape, Numbers
  <2>2. r = [t EXCEPT !.sv = [@ EXCEPT !.retranscriptionQueue = n, !.audioFileWriter = null],
                      !.gh.openWavs = @ \ {t.sv.audioFileWriter}]
    BY <1>3 DEF CloseAudioFile
  <2> HIDE DEF n
  <2> QED
    BY <2>1, <2>2 DEF WavFinished
<1> QED
  BY <1>1, <1>2, <1>3

LEMMA CloseAudioFileEffect ==
    ASSUME NEW t, Shape(t), NEW q, NEW o, NEW r, r = CloseAudioFile(t, q, o)
    PROVE  Shape(r) /\ Alike(t, r)
<1>1. CASE r = t
  BY <1>1 DEF Alike, SameThreads, SameWorkers, SameNumbers, SameSession
<1>2. CASE r = WavForgotten(WavFailed(t))
  <2>1. Shape(WavFailed(t)) /\ Alike(t, WavFailed(t))
    BY WavFailedEffect
  <2>2. Shape(r) /\ Alike(WavFailed(t), r)
    BY <1>2, <2>1, WavForgottenEffect
  <2> QED
    BY <2>1, <2>2, AlikeTransitive
<1>3. CASE \E n \in Nat : r = WavFinished(t, n)
  BY <1>3, WavFinishedEffect
<1> QED
  BY <1>1, <1>2, <1>3, CloseAudioFileCases

LEMMA TakeProjectionEffect ==
    ASSUME NEW t, Shape(t), NEW r, r = TakeProjection(t)
    PROVE  Shape(r) /\ Alike(t, r)
<1>1. CASE t.sv.requestedAudioSource = "MICROPHONE"
  BY <1>1 DEF TakeProjection, Alike, SameThreads, SameWorkers, SameNumbers, SameSession
<1>2. CASE t.sv.requestedAudioSource # "MICROPHONE"
  <2>1. Shape(r)
    BY <1>2 DEF Shape, Numbers, TakeProjection, ServiceFields, InitService
  <2> QED
    BY <1>2, <2>1 DEF Shape, TakeProjection, ServiceFields, InitService, Alike,
       SameThreads, SameWorkers, SameNumbers, SameSession
<1> QED
  BY <1>1, <1>2

-----------------------------------------------------------------------------
(* A new worker is an object of the family that was not used before. *)

FreeRec(t) == \E i \in Ids : t.rec[i].st = "unused"
FreeWh(t) == \E i \in Ids : t.wh[i].st = "unused"
FreeJs(t) == \E i \in Ids : t.js[i].st = "unused"
FreeFl(t) == \E i \in Ids : t.fl[i] = "unused"
RoomIn(t) == FreeRec(t) /\ FreeWh(t) /\ FreeJs(t) /\ FreeFl(t)

NoRec(t) == \A i \in Ids : ~RecActive(t, i)
NoWh(t) == \A i \in Ids : ~WhActive(t, i)
NoJson(t) == \A i \in Ids : ~JsActive(t, i)

LEMMA FreshUnused ==
    ASSUME NEW t
    PROVE  /\ FreeRec(t) => FreshRec(t) \in Ids /\ t.rec[FreshRec(t)].st = "unused"
           /\ FreeWh(t) => FreshWh(t) \in Ids /\ t.wh[FreshWh(t)].st = "unused"
           /\ FreeJs(t) => FreshJs(t) \in Ids /\ t.js[FreshJs(t)].st = "unused"
           /\ FreeFl(t) => FreshFl(t) \in Ids /\ t.fl[FreshFl(t)] = "unused"
BY DEF FreeRec, FreeWh, FreeJs, FreeFl, FreshRec, FreshWh, FreshJs, FreshFl, Fresh

LEMMA IdsNotNull == null \notin Ids
BY DEF null, Ids

(* What isAlive says of a field, it says of the whole family. *)
LEMMA NotAlive ==
    ASSUME NEW t, Reached(t)
    PROVE  /\ ~RecorderAlive(t) => NoRec(t)
           /\ ~WhisperAlive(t) => NoWh(t)
           /\ t.sv.transcriptionJsonWorker = null => NoJson(t)
BY IdsNotNull DEF Reached, RecorderAlive, WhisperAlive, NoRec, NoWh, NoJson, RecActive,
   WhActive, JsActive

LEMMA AlikeFamilies ==
    ASSUME NEW t, NEW r, SameThreads(t, r)
    PROVE  /\ FreeRec(t) <=> FreeRec(r)
           /\ FreeWh(t) <=> FreeWh(r)
           /\ FreeJs(t) <=> FreeJs(r)
           /\ FreeFl(t) <=> FreeFl(r)
           /\ RoomIn(t) <=> RoomIn(r)
           /\ NoRec(t) <=> NoRec(r)
           /\ NoWh(t) <=> NoWh(r)
           /\ NoJson(t) <=> NoJson(r)
BY DEF SameThreads, RoomIn, FreeRec, FreeWh, FreeJs, FreeFl, NoRec, NoWh, NoJson,
   RecActive, WhActive, JsActive

-----------------------------------------------------------------------------
(* The end of a session. *)

FileStarted(t) ==
    [t EXCEPT !.sv = [@ EXCEPT !.retranscriptionQueue = t.sv.retranscriptionQueue - 1,
                               !.currentState = "FileTranscribing",
                               !.inferenceAlive = TRUE, !.inferenceAccepting = FALSE,
                               !.retranscriptionWorker = FreshFl(t)],
              !.fl[FreshFl(t)] = "live"]

LEMMA FileStartedEffect ==
    ASSUME NEW t, Shape(t), FreeFl(t), t.sv.retranscriptionQueue # 0
    PROVE  Preserves(t, FileStarted(t))
<1> DEFINE r == FileStarted(t)
<1>1. FreshFl(t) \in Ids
  BY FreshUnused
<1>2. t.sv.retranscriptionQueue - 1 \in Nat
  BY DEF Shape, Numbers
<1>3. Shape(r)
  BY <1>1, <1>2 DEF Shape, Numbers, FileStarted, ServiceFields, InitService, Workers, RecorderStates
<1>4. SameWorkers(t, r) /\ SameNumbers(t, r) /\ SameSession(t, r)
  BY DEF Shape, FileStarted, ServiceFields, InitService, SameWorkers, SameNumbers, SameSession
<1>5. r.rec = t.rec /\ r.wh = t.wh /\ r.js = t.js
  BY DEF Shape, FileStarted
<1> HIDE DEF r
<1>6. Reached(t) => Keeps(t, r)
  BY <1>4, <1>5 DEF SameWorkers, SameSession, Keeps, FewerSessions, FewerWorkers, Reached,
     RecActive, WhActive, JsActive
<1>7. Preserves(t, r)
  BY <1>3, <1>6 DEF Preserves
<1> QED
  BY <1>7 DEF r

(* The outcomes of startNextRetranscriptionOrStop. *)
LEMMA StartNextCases ==
    ASSUME NEW t, NEW r, r = StartNextRetranscriptionOrStop(t)
    PROVE  \/ r = t
           \/ r = StartRecordingInternalAsync(t)
           \/ r = StopForegroundAndSelf(t)
           \/ t.sv.retranscriptionQueue # 0 /\ r = FileStarted(t)
BY DEF StartNextRetranscriptionOrStop, FileStarted

LEMMA StartNextKept ==
    ASSUME NEW t, Shape(t), FreeFl(t), NEW r, r = StartNextRetranscriptionOrStop(t)
    PROVE  Preserves(t, r)
<1>1. CASE r = t
  BY <1>1, SelfPreserves
<1>2. CASE r = StartRecordingInternalAsync(t)
  BY <1>2, AsyncEffect, AlikePreserves
<1>3. CASE r = StopForegroundAndSelf(t)
  BY <1>3, StopSelfEffect
<1>4. CASE t.sv.retranscriptionQueue # 0 /\ r = FileStarted(t)
  BY <1>4, FileStartedEffect
<1> QED
  BY <1>1, <1>2, <1>3, <1>4, StartNextCases

(* The changes that FinishIdleWorkIfPossible and RequestJsonThreadStop make. *)
Cleared(t) == [t EXCEPT !.sv.retranscriptionQueue = 0]
JsonForgotten(t) ==
    [t EXCEPT !.sv = [@ EXCEPT !.jsonThreadStopped = TRUE, !.transcriptionJsonWorker = null]]
JsonAsked(t) == [t EXCEPT !.js[t.sv.transcriptionJsonWorker].st = "stopping"]

LEMMA ClearedEffect ==
    ASSUME NEW t, Shape(t), NEW r, r = Cleared(t)
    PROVE  Shape(r) /\ Alike(t, r)
<1>1. Shape(r)
  BY DEF Shape, Numbers, Cleared, ServiceFields, InitService
<1> QED
  BY <1>1 DEF Shape, Cleared, ServiceFields, InitService, Alike,
     SameThreads, SameWorkers, SameNumbers, SameSession

LEMMA FinishIdleCases ==
    ASSUME NEW t, NEW r, r = FinishIdleWorkIfPossible(t)
    PROVE  \/ r = UpdateSessionState(t)
           \/ r = t
           \/ \E c \in {t, Cleared(t)} :
                 r = StartRecordingInternalAsync(c) \/ r = StartNextRetranscriptionOrStop(c)
BY DEF FinishIdleWorkIfPossible, Cleared

LEMMA FinishIdleKept ==
    ASSUME NEW t, Shape(t), FreeFl(t), NEW r, r = FinishIdleWorkIfPossible(t)
    PROVE  Preserves(t, r)
<1>1. CASE r = UpdateSessionState(t)
  BY <1>1, UpdateSessionStateEffect, AlikePreserves
<1>2. CASE r = t
  BY <1>2, SelfPreserves
<1>3. ASSUME NEW c \in {t, Cleared(t)},
             r = StartRecordingInternalAsync(c) \/ r = StartNextRetranscriptionOrStop(c)
      PROVE  Preserves(t, r)
  <2>1. Shape(c) /\ (c = t \/ Alike(t, c))
    BY <1>3, ClearedEffect
  <2>2. Preserves(t, c) /\ FreeFl(c)
    BY <2>1, SelfPreserves, AlikePreserves, AlikeFamilies DEF Alike
  <2>3. CASE r = StartRecordingInternalAsync(c)
    BY <2>1, <2>2, <2>3, AsyncEffect, AlikePreserves, PreservesTransitive
  <2>4. CASE r = StartNextRetranscriptionOrStop(c)
    BY <2>1, <2>2, <2>4, StartNextKept, PreservesTransitive
  <2> QED
    BY <1>3, <2>3, <2>4
<1> QED
  BY <1>1, <1>2, <1>3, FinishIdleCases

LEMMA JsonForgottenEffect ==
    ASSUME NEW t, Shape(t), NEW r, r = JsonForgotten(t)
    PROVE  Shape(r) /\ SameThreads(t, r) /\ (NoJson(t) => Preserves(t, r))
<1>1. Shape(r)
  BY DEF Shape, Numbers, JsonForgotten, ServiceFields, InitService, Workers
<1>2. SameThreads(t, r) /\ SameNumbers(t, r) /\ SameSession(t, r)
  BY DEF Shape, JsonForgotten, ServiceFields, InitService, SameThreads, SameNumbers, SameSession
<1>3. /\ r.sv.recordWorker = t.sv.recordWorker
      /\ r.sv.transcriptionWorker = t.sv.transcriptionWorker
  BY DEF Shape, JsonForgotten, ServiceFields, InitService
<1>4. NoJson(t) /\ Reached(t) => Reached(r)
  BY <1>2, <1>3 DEF SameThreads, Reached, RecActive, WhActive, JsActive, NoJson
<1>5. FewerWorkers(t, r)
  BY <1>2 DEF SameThreads, FewerWorkers, WhActive
<1> QED
  BY <1>1, <1>2, <1>4, <1>5 DEF Preserves, Keeps, SameSession, FewerSessions

LEMMA JsonAskedEffect ==
    ASSUME NEW t, Shape(t), NEW r, r = JsonAsked(t), t.sv.transcriptionJsonWorker # null
    PROVE  Preserves(t, r)
<1>1. t.sv.transcriptionJsonWorker \in Ids
  BY DEF Shape, Workers
<1>2. Shape(r)
  BY <1>1 DEF Shape, Numbers, JsonAsked, Json, RecorderStates
<1>3. /\ r.sv = t.sv /\ r.gh = t.gh /\ r.rec = t.rec /\ r.wh = t.wh
      /\ \A i \in Ids : JsActive(r, i) => JsActive(t, i) \/ i = t.sv.transcriptionJsonWorker
  BY <1>1 DEF Shape, JsonAsked, Json, JsActive
<1>4. Reached(t) => Keeps(t, r)
  BY <1>3 DEF Keeps, SameNumbers, FewerSessions, FewerWorkers, Reached, RecActive, WhActive
<1> QED
  BY <1>2, <1>4 DEF Preserves

LEMMA RequestJsonStopCases ==
    ASSUME NEW t, NEW r, r = RequestJsonThreadStop(t)
    PROVE  LET j == t.sv.transcriptionJsonWorker
           IN  \/ /\ j = null \/ t.js[j].st \in {"exited", "gone"}
                  /\ r = FinishIdleWorkIfPossible(JsonForgotten(t))
               \/ /\ j # null /\ t.js[j].st \notin {"exited", "gone"}
                  /\ r = JsonAsked(t)
BY DEF RequestJsonThreadStop, JsonForgotten, JsonAsked

LEMMA RequestJsonStopKept ==
    ASSUME NEW t, Shape(t), FreeFl(t), NEW r, r = RequestJsonThreadStop(t)
    PROVE  Preserves(t, r)
<1> DEFINE j == t.sv.transcriptionJsonWorker
<1>1. CASE /\ j = null \/ t.js[j].st \in {"exited", "gone"}
           /\ r = FinishIdleWorkIfPossible(JsonForgotten(t))
  <2> DEFINE f == JsonForgotten(t)
  <2>1. Reached(t) => NoJson(t)
    BY <1>1, NotAlive DEF Reached, NoJson, JsActive
  <2>2. Preserves(t, f) /\ Shape(f) /\ SameThreads(t, f)
    BY <2>1, JsonForgottenEffect DEF Preserves
  <2>3. r = FinishIdleWorkIfPossible(f)
    BY <1>1
  <2> HIDE DEF f
  <2>4. FreeFl(f)
    BY <2>2, AlikeFamilies
  <2> QED
    BY <2>2, <2>3, <2>4, FinishIdleKept, PreservesTransitive
<1>2. CASE j # null /\ t.js[j].st \notin {"exited", "gone"} /\ r = JsonAsked(t)
  BY <1>2, JsonAskedEffect
<1> QED
  BY <1>1, <1>2, RequestJsonStopCases

-----------------------------------------------------------------------------
(* Inference stops: the worker drains, or the JSON worker is asked next. *)

NotAccepting(t) == [t EXCEPT !.sv.inferenceAccepting = FALSE]
Ended(t) ==
    [t EXCEPT !.sv = [@ EXCEPT !.sessionActive = FALSE, !.sessionEndRequested = TRUE]]

(* A change of the state of the inference worker in the field. *)
LEMMA WhisperChanged ==
    ASSUME NEW t, Shape(t), t.sv.transcriptionWorker # null, NEW f,
           f = IF t.wh[t.sv.transcriptionWorker].st = "accepting" THEN "draining"
               ELSE t.wh[t.sv.transcriptionWorker].st
    PROVE  LET w == t.sv.transcriptionWorker
               threads == [t.wh EXCEPT ![w].st = f]
           IN  /\ threads \in [Ids -> Whisper]
               /\ \A i \in Ids :
                     /\ \/ threads[i].st = t.wh[i].st
                        \/ t.wh[i].st = "accepting" /\ threads[i].st = "draining"
                     /\ threads[i].session = t.wh[i].session
                     /\ threads[i].sequence = t.wh[i].sequence
BY DEF Shape, Workers, Whisper, WhisperStates

LEMMA StopWhisperKept ==
    ASSUME NEW t, Shape(t), t.sv.transcriptionWorker # null, NEW r, r = StopWhisper(t)
    PROVE  Preserves(t, r) /\ r.fl = t.fl /\ r.rec = t.rec /\ r.sv = t.sv
<1> DEFINE w == t.sv.transcriptionWorker
           f == IF t.wh[w].st = "accepting" THEN "draining" ELSE t.wh[w].st
           threads == [t.wh EXCEPT ![w].st = f]
<1>1. w \in Ids
  BY DEF Shape, Workers
<1>2. /\ threads \in [Ids -> Whisper]
      /\ \A i \in Ids :
            /\ \/ threads[i].st = t.wh[i].st
               \/ t.wh[i].st = "accepting" /\ threads[i].st = "draining"
            /\ threads[i].session = t.wh[i].session
            /\ threads[i].sequence = t.wh[i].sequence
  BY WhisperChanged
<1>3. r.wh = threads
  BY <1>1 DEF StopWhisper, Shape
<1>4. /\ r.sv = t.sv /\ r.gh = t.gh /\ r.rec = t.rec /\ r.js = t.js /\ r.fl = t.fl
      /\ DOMAIN r = DOMAIN t
  BY DEF StopWhisper, Shape
<1> HIDE DEF threads
<1>5. Shape(r)
  BY <1>2, <1>3, <1>4 DEF Shape
<1>6. FewerWorkers(t, r)
  BY <1>2, <1>3 DEF FewerWorkers, WhActive
<1>7. Reached(t) => Reached(r)
  BY <1>4, <1>6 DEF Reached, FewerWorkers, RecActive, JsActive
<1> QED
  BY <1>4, <1>5, <1>6, <1>7 DEF Preserves, Keeps, SameNumbers, FewerSessions

LEMMA NotAcceptingEffect ==
    ASSUME NEW t, Shape(t), NEW r, r = NotAccepting(t)
    PROVE  Shape(r) /\ Alike(t, r)
<1>1. Shape(r)
  BY DEF Shape, Numbers, NotAccepting, ServiceFields, InitService
<1> QED
  BY <1>1 DEF Shape, NotAccepting, ServiceFields, InitService, Alike,
     SameThreads, SameWorkers, SameNumbers, SameSession

LEMMA DrainKept ==
    ASSUME NEW t, Shape(t), t.sv.transcriptionWorker # null, NEW r,
           r = StopWhisper(NotAccepting(t))
    PROVE  /\ Preserves(t, r) /\ r.fl = t.fl /\ r.rec = t.rec
           /\ SameSession(t, r) /\ r.sv.recordWorker = t.sv.recordWorker
<1> DEFINE n == NotAccepting(t)
<1>1. Shape(n) /\ Alike(t, n)
  BY NotAcceptingEffect
<1>2. r = StopWhisper(n)
  OBVIOUS
<1> HIDE DEF n
<1>3. n.sv.transcriptionWorker # null
  BY <1>1 DEF Alike, SameWorkers
<1>4. Preserves(n, r) /\ r.fl = n.fl /\ r.rec = n.rec /\ r.sv = n.sv
  BY <1>1, <1>2, <1>3, StopWhisperKept
<1>5. Preserves(t, r)
  BY <1>1, <1>4, AlikePreserves, PreservesTransitive
<1> QED
  BY <1>1, <1>4, <1>5 DEF Alike, SameThreads, SameWorkers, SameSession

LEMMA StopInferenceOrJsonCases ==
    ASSUME NEW t, NEW r, r = StopInferenceOrJson(t)
    PROVE  \/ t.sv.transcriptionWorker # null /\ r = StopWhisper(NotAccepting(t))
           \/ r = RequestJsonThreadStop(t)
BY DEF StopInferenceOrJson, NotAccepting, WhisperAlive

LEMMA StopInferenceOrJsonKept ==
    ASSUME NEW t, Shape(t), FreeFl(t), NEW r, r = StopInferenceOrJson(t)
    PROVE  Preserves(t, r)
<1>1. CASE t.sv.transcriptionWorker # null /\ r = StopWhisper(NotAccepting(t))
  BY <1>1, DrainKept
<1>2. CASE r = RequestJsonThreadStop(t)
  BY <1>2, RequestJsonStopKept
<1> QED
  BY <1>1, <1>2, StopInferenceOrJsonCases

LEMMA EndedEffect ==
    ASSUME NEW t, Shape(t), NEW r, r = Ended(t)
    PROVE  SameThreads(t, r) /\ Preserves(t, r)
<1>1. Shape(r)
  BY DEF Shape, Numbers, Ended, ServiceFields, InitService
<1>2. SameThreads(t, r) /\ SameWorkers(t, r) /\ SameNumbers(t, r)
  BY DEF Shape, Ended, ServiceFields, InitService, SameThreads, SameWorkers, SameNumbers
<1>3. /\ ~r.sv.sessionActive /\ r.sv.destroyed = t.sv.destroyed
      /\ r.sv.recordingSessionId = t.sv.recordingSessionId
      /\ r.sv.pendingRecordingTimeData = t.sv.pendingRecordingTimeData
  BY DEF Shape, Ended, ServiceFields, InitService
<1>4. Reached(t) => Keeps(t, r)
  BY <1>2, <1>3 DEF SameThreads, SameWorkers, Keeps, FewerSessions, FewerWorkers, Reached,
     RecActive, WhActive, JsActive
<1> QED
  BY <1>1, <1>2, <1>4 DEF Preserves

LEMMA StopIfNotRecordingKept ==
    ASSUME NEW t, Shape(t), FreeFl(t), NEW r, r = StopInferenceIfNotRecording(t)
    PROVE  Preserves(t, r)
<1> DEFINE e == Ended(t)
<1>1. SameThreads(t, e) /\ Preserves(t, e)
  BY EndedEffect
<1>2. r = StopInferenceOrJson(e) \/ r = RequestJsonThreadStop(e)
  BY DEF StopInferenceIfNotRecording, Ended
<1> HIDE DEF e
<1>3. Shape(e) /\ FreeFl(e)
  BY <1>1, AlikeFamilies DEF Preserves
<1>4. Preserves(e, r)
  BY <1>2, <1>3, StopInferenceOrJsonKept, RequestJsonStopKept
<1> QED
  BY <1>1, <1>4, PreservesTransitive

-----------------------------------------------------------------------------
(* The inference worker and the JSON worker start. *)

WhisperStarted(t, session) ==
    [t EXCEPT
        !.sv = [@ EXCEPT !.inferenceSessionId = session, !.transcriptionWorker = FreshWh(t),
                         !.whisperThreadStopped = FALSE, !.inferenceAlive = TRUE,
                         !.inferenceAccepting = TRUE, !.inferenceFailed = FALSE],
        !.wh[FreshWh(t)] = [st |-> "accepting", session |-> session, backlog |-> 0,
                            sequence |-> t.sv.nextInferenceSequence, hand |-> "none"]]
JsonStarted(t, session) ==
    [t EXCEPT !.sv = [@ EXCEPT !.transcriptionJsonWorker = FreshJs(t),
                               !.jsonThreadStopped = FALSE],
              !.js[FreshJs(t)] = [st |-> "live", session |-> session]]

(* A worker of this session would number on from what was published in it. *)
Ready(t, session) ==
    \/ t.sv.destroyed
    \/ session <= t.sv.lastTime /\ Beyond(t, session, t.sv.nextInferenceSequence)

LEMMA WhisperStartedEffect ==
    ASSUME NEW t, Shape(t), FreeWh(t), NEW session \in Nat
    PROVE  LET r == WhisperStarted(t, session)
               w == FreshWh(t)
           IN  /\ Shape(r) /\ r.rec = t.rec /\ r.js = t.js /\ r.fl = t.fl /\ r.gh = t.gh
               /\ SameSession(t, r) /\ r.sv.lastTime = t.sv.lastTime
               /\ r.sv.recordWorker = t.sv.recordWorker
               /\ r.sv.transcriptionJsonWorker = t.sv.transcriptionJsonWorker
               /\ r.sv.nextInferenceSequence = t.sv.nextInferenceSequence
               /\ r.sv.inferenceSessionId = session /\ r.sv.transcriptionWorker = w
               /\ r.wh[w].session = session
               /\ r.wh[w].sequence = t.sv.nextInferenceSequence
               /\ \A i \in Ids \ {w} : r.wh[i] = t.wh[i]
<1> DEFINE r == WhisperStarted(t, session)
           w == FreshWh(t)
           new == [st |-> "accepting", session |-> session, backlog |-> 0,
                   sequence |-> t.sv.nextInferenceSequence, hand |-> "none"]
<1>1. w \in Ids
  BY FreshUnused
<1>2. new \in Whisper
  BY ConstantsAssumption DEF Shape, Numbers, Whisper, WhisperStates
<1>3. r.wh = [t.wh EXCEPT ![w] = new]
  BY DEF WhisperStarted, Shape
<1>4. r.wh \in [Ids -> Whisper]
  BY <1>1, <1>2, <1>3 DEF Shape
<1>5. /\ r.rec = t.rec /\ r.js = t.js /\ r.fl = t.fl /\ r.gh = t.gh /\ DOMAIN r = DOMAIN t
  BY DEF WhisperStarted, Shape
<1>6. /\ SameSession(t, r) /\ r.sv.lastTime = t.sv.lastTime
      /\ r.sv.recordWorker = t.sv.recordWorker
      /\ r.sv.transcriptionJsonWorker = t.sv.transcriptionJsonWorker
      /\ r.sv.retranscriptionWorker = t.sv.retranscriptionWorker
      /\ r.sv.nextInferenceSequence = t.sv.nextInferenceSequence
      /\ r.sv.inferenceSessionId = session /\ r.sv.transcriptionWorker = w
  BY DEF WhisperStarted, Shape, ServiceFields, InitService, SameSession
<1>7. Numbers(r.sv) /\ DOMAIN r.sv = ServiceFields
  BY DEF WhisperStarted, Shape, Numbers, ServiceFields, InitService
<1>8. Shape(r)
  BY <1>1, <1>4, <1>5, <1>6, <1>7 DEF Shape, Workers
<1>9. /\ r.wh[w].session = session
      /\ r.wh[w].sequence = t.sv.nextInferenceSequence
      /\ \A i \in Ids \ {w} : r.wh[i] = t.wh[i]
  BY <1>1, <1>3 DEF Shape
<1> QED
  BY <1>5, <1>6, <1>8, <1>9

LEMMA WhisperStartedHeld ==
    ASSUME NEW t, Shape(t), FreeWh(t), NEW session \in Nat, Held(t), NoWh(t), Ready(t, session)
    PROVE  Held(WhisperStarted(t, session))
<1> DEFINE r == WhisperStarted(t, session)
           w == FreshWh(t)
<1>1. /\ r.rec = t.rec /\ r.js = t.js /\ r.gh = t.gh /\ SameSession(t, r)
      /\ r.sv.lastTime = t.sv.lastTime
      /\ r.sv.recordWorker = t.sv.recordWorker
      /\ r.sv.transcriptionJsonWorker = t.sv.transcriptionJsonWorker
      /\ r.sv.nextInferenceSequence = t.sv.nextInferenceSequence
      /\ r.sv.inferenceSessionId = session /\ r.sv.transcriptionWorker = w
      /\ r.wh[w].session = session
      /\ r.wh[w].sequence = t.sv.nextInferenceSequence
      /\ \A i \in Ids \ {w} : r.wh[i] = t.wh[i]
  BY WhisperStartedEffect
<1> HIDE DEF r, w
<1>2. \A i \in Ids : WhActive(r, i) => i = w
  BY <1>1 DEF NoWh, WhActive
<1>3. Reached(r)
  BY <1>1, <1>2 DEF Held, Reached, RecActive, JsActive
<1>4. ASSUME ~r.sv.destroyed
      PROVE  Counted(r) /\ Dated(r) /\ WorkersCount(r) /\ SessionsCount(r)
  <2>1. /\ Counted(t) /\ Dated(t) /\ SessionsCount(t)
        /\ session <= t.sv.lastTime /\ Beyond(t, session, t.sv.nextInferenceSequence)
    BY <1>1, <1>4 DEF Held, Numbered, SameSession, Ready
  <2>2. Counted(r)
    BY <1>1, <2>1 DEF Counted
  <2>3. Dated(r)
    BY <1>1, <2>1 DEF Dated, SameSession
  <2>4. WorkersCount(r)
    BY <1>1, <1>2, <2>1 DEF WorkersCount, Beyond
  <2>5. SessionsCount(r)
    BY <1>1, <2>1 DEF SessionsCount, Beyond, SameSession
  <2> QED
    BY <2>2, <2>3, <2>4, <2>5
<1>5. Held(r)
  BY <1>3, <1>4 DEF Held, Numbered
<1> QED
  BY <1>5 DEF r

LEMMA JsonStartedEffect ==
    ASSUME NEW t, Shape(t), FreeJs(t), NEW session \in Nat
    PROVE  LET r == JsonStarted(t, session)
               j == FreshJs(t)
           IN  /\ Shape(r) /\ r.rec = t.rec /\ r.wh = t.wh /\ r.fl = t.fl
               /\ SameSession(t, r) /\ SameNumbers(t, r)
               /\ r.sv.recordWorker = t.sv.recordWorker
               /\ r.sv.transcriptionWorker = t.sv.transcriptionWorker
               /\ r.sv.transcriptionJsonWorker = j
               /\ \A i \in Ids \ {j} : r.js[i] = t.js[i]
<1> DEFINE r == JsonStarted(t, session)
           j == FreshJs(t)
           new == [st |-> "live", session |-> session]
<1>1. j \in Ids
  BY FreshUnused
<1>2. new \in Json
  BY DEF Json, RecorderStates
<1>3. r.js = [t.js EXCEPT ![j] = new]
  BY DEF JsonStarted, Shape
<1>4. r.js \in [Ids -> Json]
  BY <1>1, <1>2, <1>3 DEF Shape
<1>5. /\ r.rec = t.rec /\ r.wh = t.wh /\ r.fl = t.fl /\ r.gh = t.gh /\ DOMAIN r = DOMAIN t
  BY DEF JsonStarted, Shape
<1>6. /\ SameSession(t, r) /\ SameNumbers(t, r)
      /\ r.sv.recordWorker = t.sv.recordWorker
      /\ r.sv.transcriptionWorker = t.sv.transcriptionWorker
      /\ r.sv.retranscriptionWorker = t.sv.retranscriptionWorker
      /\ r.sv.transcriptionJsonWorker = j
  BY DEF JsonStarted, Shape, ServiceFields, InitService, SameSession, SameNumbers
<1>7. Numbers(r.sv) /\ DOMAIN r.sv = ServiceFields
  BY DEF JsonStarted, Shape, Numbers, ServiceFields, InitService
<1>8. Shape(r)
  BY <1>1, <1>4, <1>5, <1>6, <1>7 DEF Shape, Workers
<1>9. \A i \in Ids \ {j} : r.js[i] = t.js[i]
  BY <1>1, <1>3 DEF Shape
<1> QED
  BY <1>5, <1>6, <1>8, <1>9

LEMMA JsonStartedKept ==
    ASSUME NEW t, Shape(t), FreeJs(t), NEW session \in Nat,
           t.sv.transcriptionJsonWorker = null
    PROVE  Preserves(t, JsonStarted(t, session))
<1> DEFINE r == JsonStarted(t, session)
           j == FreshJs(t)
<1>1. /\ Shape(r) /\ r.rec = t.rec /\ r.wh = t.wh
      /\ SameSession(t, r) /\ SameNumbers(t, r)
      /\ r.sv.recordWorker = t.sv.recordWorker
      /\ r.sv.transcriptionWorker = t.sv.transcriptionWorker
      /\ r.sv.transcriptionJsonWorker = j
      /\ \A i \in Ids \ {j} : r.js[i] = t.js[i]
  BY JsonStartedEffect
<1> HIDE DEF r, j
<1>2. Reached(t) => Reached(r)
  BY <1>1, NotAlive DEF Reached, NoJson, RecActive, WhActive, JsActive
<1>3. Preserves(t, r)
  BY <1>1, <1>2 DEF Preserves, Keeps, SameSession, FewerSessions, FewerWorkers, WhActive
<1> QED
  BY <1>3 DEF r

PipelineSession(t, time) ==
    IF t.sv.recordingSessionId = null THEN time ELSE t.sv.recordingSessionId

LEMMA PipelineCases ==
    ASSUME NEW t, Shape(t), FreeWh(t), NEW time \in Nat, NEW r,
           r = StartInferencePipeline(t, time)
    PROVE  LET session == PipelineSession(t, time)
               s == WhisperStarted(t, session)
           IN  \/ t.sv.transcriptionJsonWorker # null /\ r = s
               \/ t.sv.transcriptionJsonWorker = null /\ r = JsonStarted(s, session)
<1> DEFINE session == PipelineSession(t, time)
           s == WhisperStarted(t, session)
<1>1. session \in Nat
  BY DEF Shape, Numbers, PipelineSession
<1>2. s.js = t.js
  BY <1>1, WhisperStartedEffect
<1>3. FreshJs(s) = FreshJs(t)
  BY <1>2 DEF FreshJs
<1>4. r = IF t.sv.transcriptionJsonWorker # null THEN s
          ELSE [s EXCEPT !.sv = [@ EXCEPT !.transcriptionJsonWorker = FreshJs(t),
                                          !.jsonThreadStopped = FALSE],
                         !.js[FreshJs(t)] = [st |-> "live", session |-> session]]
  BY DEF StartInferencePipeline, WhisperStarted, PipelineSession
<1>5. JsonStarted(s, session) =
        [s EXCEPT !.sv = [@ EXCEPT !.transcriptionJsonWorker = FreshJs(t),
                                   !.jsonThreadStopped = FALSE],
                  !.js[FreshJs(t)] = [st |-> "live", session |-> session]]
  BY <1>3 DEF JsonStarted
<1> HIDE DEF s, session
<1>6. \/ t.sv.transcriptionJsonWorker # null /\ r = s
      \/ t.sv.transcriptionJsonWorker = null /\ r = JsonStarted(s, session)
  BY <1>4, <1>5
<1> QED
  BY <1>6 DEF s, session

LEMMA PipelineHeld ==
    ASSUME NEW t, Shape(t), FreeWh(t), FreeJs(t), NEW time \in Nat, NEW r,
           r = StartInferencePipeline(t, time)
    PROVE  /\ Shape(r) /\ r.rec = t.rec /\ r.fl = t.fl /\ SameSession(t, r)
           /\ Held(t) /\ NoWh(t) /\ Ready(t, PipelineSession(t, time)) => Held(r)
<1> DEFINE session == PipelineSession(t, time)
           s == WhisperStarted(t, session)
<1>1. session \in Nat
  BY DEF Shape, Numbers, PipelineSession
<1>2. \/ t.sv.transcriptionJsonWorker # null /\ r = s
      \/ t.sv.transcriptionJsonWorker = null /\ r = JsonStarted(s, session)
  BY PipelineCases
<1> HIDE DEF session
<1>3. /\ Shape(s) /\ s.rec = t.rec /\ s.fl = t.fl /\ s.js = t.js /\ SameSession(t, s)
      /\ s.sv.transcriptionJsonWorker = t.sv.transcriptionJsonWorker
  BY <1>1, WhisperStartedEffect
<1>4. Held(t) /\ NoWh(t) /\ Ready(t, session) => Held(s)
  BY <1>1, WhisperStartedHeld
<1> HIDE DEF s
<1>5. FreeJs(s)
  BY <1>3 DEF FreeJs
<1>6. CASE r = s
  BY <1>3, <1>4, <1>6 DEF session
<1>7. CASE t.sv.transcriptionJsonWorker = null /\ r = JsonStarted(s, session)
  <2>1. Shape(r) /\ r.rec = s.rec /\ r.fl = s.fl /\ SameSession(s, r)
    BY <1>1, <1>3, <1>5, <1>7, JsonStartedEffect
  <2>2. Preserves(s, r)
    BY <1>1, <1>3, <1>5, <1>7, JsonStartedKept
  <2>3. Held(s) => Held(r)
    BY <1>3, <2>2, PreservesHeld
  <2> QED
    BY <1>3, <1>4, <2>1, <2>3 DEF session, SameSession
<1> QED
  BY <1>2, <1>6, <1>7

(* An inference worker that is draining takes audio again. *)
Reaccepting(t, resumed) ==
    [t EXCEPT !.sv = [@ EXCEPT !.inferenceAlive = TRUE, !.inferenceAccepting = resumed],
              !.wh[t.sv.transcriptionWorker].st = IF @ = "draining" THEN "accepting" ELSE @]

LEMMA ReacceptingKept ==
    ASSUME NEW t, Shape(t), t.sv.transcriptionWorker # null, NEW b, NEW r,
           r = Reaccepting(t, b)
    PROVE  Preserves(t, r) /\ r.rec = t.rec /\ r.fl = t.fl /\ SameSession(t, r)
<1> DEFINE w == t.sv.transcriptionWorker
<1>1. w \in Ids
  BY DEF Shape, Workers
<1>2. r.wh = [t.wh EXCEPT ![w].st = IF @ = "draining" THEN "accepting" ELSE @]
  BY <1>1 DEF Reaccepting, Shape
<1>3. r.wh \in [Ids -> Whisper]
  BY <1>1, <1>2 DEF Shape, Whisper, WhisperStates
<1>4. /\ r.gh = t.gh /\ r.rec = t.rec /\ r.js = t.js /\ r.fl = t.fl
      /\ DOMAIN r = DOMAIN t /\ DOMAIN r.sv = DOMAIN t.sv
  BY DEF Reaccepting, Shape
<1>5. /\ SameWorkers(t, r) /\ SameNumbers(t, r) /\ SameSession(t, r) /\ Numbers(r.sv)
      /\ r.sv.retranscriptionWorker = t.sv.retranscriptionWorker
  BY DEF Reaccepting, Shape, ServiceFields, InitService, SameWorkers, SameNumbers,
     SameSession, Numbers
<1>6. Shape(r)
  BY <1>3, <1>4, <1>5 DEF Shape, SameWorkers
<1>7. FewerWorkers(t, r)
  BY <1>1, <1>2 DEF FewerWorkers, WhActive, Shape, Whisper
<1>8. Reached(t) => Reached(r)
  BY <1>4, <1>5, <1>7 DEF Reached, FewerWorkers, SameWorkers, RecActive, JsActive
<1> QED
  BY <1>4, <1>5, <1>6, <1>7, <1>8 DEF Preserves, Keeps, SameSession, FewerSessions

LEMMA EnsureCases ==
    ASSUME NEW t, NEW time, NEW r, r = EnsureInferenceAccepting(t, time).after
    PROVE  \/ ~WhisperAlive(t) /\ r = StartInferencePipeline(t, time)
           \/ t.sv.transcriptionWorker # null /\ r = StopWhisper(NotAccepting(t))
           \/ t.sv.transcriptionWorker # null /\ \E b \in BOOLEAN : r = Reaccepting(t, b)
<1>1. CASE ~WhisperAlive(t)
  BY <1>1 DEF EnsureInferenceAccepting
<1>2. CASE WhisperAlive(t) /\ t.sv.inferenceSessionId # time
  BY <1>2 DEF EnsureInferenceAccepting, NotAccepting, WhisperAlive
<1>3. CASE WhisperAlive(t) /\ t.sv.inferenceSessionId = time
  <2> DEFINE b == t.wh[t.sv.transcriptionWorker].st \in {"accepting", "draining", "failed"}
  <2>1. b \in BOOLEAN
    OBVIOUS
  <2>2. r = Reaccepting(t, b)
    BY <1>3, Zenon DEF EnsureInferenceAccepting, Reaccepting
  <2>3. t.sv.transcriptionWorker # null
    BY <1>3 DEF WhisperAlive
  <2> HIDE DEF b
  <2> QED
    BY <2>1, <2>2, <2>3
<1> QED
  BY <1>1, <1>2, <1>3

LEMMA EnsureHeld ==
    ASSUME NEW t, Shape(t), FreeWh(t), FreeJs(t), NEW time \in Nat, NEW r,
           r = EnsureInferenceAccepting(t, time).after
    PROVE  /\ Shape(r) /\ r.rec = t.rec /\ r.fl = t.fl /\ SameSession(t, r)
           /\ Held(t) /\ Ready(t, PipelineSession(t, time)) => Held(r)
<1>1. CASE ~WhisperAlive(t) /\ r = StartInferencePipeline(t, time)
  <2>1. Held(t) => NoWh(t)
    BY <1>1, NotAlive DEF Held
  <2> QED
    BY <1>1, <2>1, PipelineHeld
<1>2. CASE t.sv.transcriptionWorker # null /\ r = StopWhisper(NotAccepting(t))
  BY <1>2, DrainKept, PreservesHeld
<1>3. ASSUME t.sv.transcriptionWorker # null, NEW b \in BOOLEAN, r = Reaccepting(t, b)
      PROVE  /\ Shape(r) /\ r.rec = t.rec /\ r.fl = t.fl /\ SameSession(t, r)
             /\ Held(t) => Held(r)
  BY <1>3, ReacceptingKept, PreservesHeld
<1> QED
  BY <1>1, <1>2, <1>3, EnsureCases

-----------------------------------------------------------------------------
(* The recorder starts and ends. *)

LEMMA NewRecorderHeld ==
    ASSUME NEW t, Shape(t), FreeRec(t), NEW r, r = NewRecorder(t)
    PROVE  Shape(r) /\ (Held(t) /\ NoRec(t) => Held(r))
<1> DEFINE i == FreshRec(t)
           new == [st |-> "live", session |-> t.sv.recordingSessionId, hand |-> "none"]
<1>1. i \in Ids
  BY FreshUnused
<1>2. new \in Recorder
  BY DEF Shape, Numbers, Recorder, RecorderStates
<1>3. r.rec = [t.rec EXCEPT ![i] = new]
  BY DEF NewRecorder, Shape
<1>4. r.rec \in [Ids -> Recorder]
  BY <1>1, <1>2, <1>3 DEF Shape
<1>5. r.wh = t.wh /\ r.js = t.js /\ r.fl = t.fl /\ r.gh = t.gh /\ DOMAIN r = DOMAIN t
  BY DEF NewRecorder, Shape
<1>6. /\ SameNumbers(t, r) /\ SameSession(t, r)
      /\ r.sv.transcriptionWorker = t.sv.transcriptionWorker
      /\ r.sv.transcriptionJsonWorker = t.sv.transcriptionJsonWorker
      /\ r.sv.retranscriptionWorker = t.sv.retranscriptionWorker
      /\ r.sv.recordWorker = i
  BY DEF NewRecorder, Shape, ServiceFields, InitService, SameNumbers, SameSession
<1>7. Numbers(r.sv) /\ DOMAIN r.sv = ServiceFields
  BY DEF NewRecorder, Shape, Numbers, ServiceFields, InitService
<1>8. Shape(r)
  BY <1>1, <1>4, <1>5, <1>6, <1>7 DEF Shape, Workers
<1>9. \A k \in Ids \ {i} : r.rec[k] = t.rec[k]
  BY <1>1, <1>3 DEF Shape
<1> HIDE DEF i, new
<1>10. ASSUME NoRec(t) PROVE Preserves(t, r)
  <2>1. Reached(t) => Reached(r)
    BY <1>5, <1>6, <1>9, <1>10 DEF Reached, NoRec, RecActive, WhActive, JsActive
  <2>2. FewerWorkers(t, r)
    BY <1>5 DEF FewerWorkers, WhActive
  <2> QED
    BY <1>6, <1>8, <2>1, <2>2 DEF Preserves, Keeps, SameSession, FewerSessions
<1> QED
  BY <1>8, <1>10, PreservesHeld

NoPendingResume(t) == [t EXCEPT !.sv.pendingRecordingResume = FALSE]
Gone(t) == [t EXCEPT !.sv.recordWorker = null]

LEMMA NoPendingResumeEffect ==
    ASSUME NEW t, Shape(t), NEW r, r = NoPendingResume(t)
    PROVE  Shape(r) /\ Alike(t, r)
<1>1. Shape(r)
  BY DEF Shape, Numbers, NoPendingResume, ServiceFields, InitService
<1> QED
  BY <1>1 DEF Shape, NoPendingResume, ServiceFields, InitService, Alike,
     SameThreads, SameWorkers, SameNumbers, SameSession

LEMMA GoneEffect ==
    ASSUME NEW t, Shape(t), NEW r, r = Gone(t)
    PROVE  Shape(r) /\ SameThreads(t, r) /\ (NoRec(t) => Preserves(t, r))
<1>1. Shape(r)
  BY DEF Shape, Numbers, Gone, ServiceFields, InitService, Workers
<1>2. SameThreads(t, r) /\ SameNumbers(t, r) /\ SameSession(t, r)
  BY DEF Shape, Gone, ServiceFields, InitService, SameThreads, SameNumbers, SameSession
<1>3. /\ r.sv.transcriptionWorker = t.sv.transcriptionWorker
      /\ r.sv.transcriptionJsonWorker = t.sv.transcriptionJsonWorker
  BY DEF Shape, Gone, ServiceFields, InitService
<1>4. NoRec(t) /\ Reached(t) => Reached(r)
  BY <1>2, <1>3 DEF SameThreads, Reached, RecActive, WhActive, JsActive, NoRec
<1>5. FewerWorkers(t, r)
  BY <1>2 DEF SameThreads, FewerWorkers, WhActive
<1> QED
  BY <1>1, <1>2, <1>4, <1>5 DEF Preserves, Keeps, SameSession, FewerSessions

LEMMA GoneHeld ==
    ASSUME NEW t, Shape(t), NEW r, r = Gone(t)
    PROVE  Shape(r) /\ (Held(t) /\ NoRec(t) => Held(r) /\ NoRec(r))
BY GoneEffect, PreservesHeld, AlikeFamilies

LEMMA StartRecorderCases ==
    ASSUME NEW t, Shape(t), NEW o, NEW r, r = StartRecordingWorkerForSession(t, o)
    PROVE  \/ r = StopForegroundAndSelf(t)
           \/ r = t
           \/ r = UpdateSessionState(Gone(NoPendingResume(t)))
           \/ r = UpdateSessionState(NewRecorder(NoPendingResume(t)))
<1>1. [t EXCEPT !.sv = [@ EXCEPT !.pendingRecordingResume = FALSE, !.recordWorker = null]]
        = Gone(NoPendingResume(t))
  BY DEF Shape, Gone, NoPendingResume
<1> QED
  BY <1>1 DEF StartRecordingWorkerForSession, NoPendingResume

LEMMA StartRecorderHeld ==
    ASSUME NEW t, Shape(t), FreeRec(t), NEW o, NEW r, r = StartRecordingWorkerForSession(t, o)
    PROVE  Shape(r) /\ (Held(t) /\ NoRec(t) => Held(r))
<1> DEFINE n == NoPendingResume(t)
<1>1. Shape(n) /\ Alike(t, n)
  BY NoPendingResumeEffect
<1>2. \/ r = StopForegroundAndSelf(t) \/ r = t
      \/ r = UpdateSessionState(Gone(n)) \/ r = UpdateSessionState(NewRecorder(n))
  BY StartRecorderCases
<1> HIDE DEF n
<1>3. (Held(t) => Held(n)) /\ (NoRec(t) => NoRec(n)) /\ FreeRec(n)
  BY <1>1, AlikePreserves, PreservesHeld, AlikeFamilies DEF Alike
<1>4. CASE r = StopForegroundAndSelf(t)
  BY <1>4, StopSelfEffect, PreservesHeld
<1>5. ASSUME NEW s, s = Gone(n) \/ s = NewRecorder(n), r = UpdateSessionState(s)
      PROVE  Shape(r) /\ (Held(t) /\ NoRec(t) => Held(r))
  <2>1. Shape(s) /\ (Held(t) /\ NoRec(t) => Held(s))
    BY <1>1, <1>3, <1>5, GoneHeld, NewRecorderHeld
  <2> QED
    BY <1>5, <2>1, UpdateSessionStateEffect, AlikePreserves, PreservesHeld
<1> QED
  BY <1>2, <1>4, <1>5

Closed(t, o) == CloseAudioFile(ReleaseMediaProjection(Gone(t)), TRUE, o)

LEMMA ClosedEffect ==
    ASSUME NEW t, Shape(t), NEW o
    PROVE  Shape(Closed(t, o)) /\ Alike(Gone(t), Closed(t, o))
<1> DEFINE g == Gone(t)
           m == ReleaseMediaProjection(g)
<1>1. Shape(g)
  BY GoneEffect
<1> HIDE DEF g
<1>2. Shape(m) /\ Alike(g, m)
  BY <1>1, ReleaseEffect
<1> HIDE DEF m
<1>3. Shape(CloseAudioFile(m, TRUE, o)) /\ Alike(m, CloseAudioFile(m, TRUE, o))
  BY <1>2, CloseAudioFileEffect
<1> QED
  BY <1>2, <1>3, AlikeTransitive DEF Closed, g, m

LEMMA FinishRecordCases ==
    ASSUME NEW t, NEW o, NEW r, r = FinishRecordThread(t, o)
    PROVE  \/ r = StartRecordingWorkerForSession(Gone(t), o)
           \/ r = UpdateSessionState(Gone(t))
           \/ r = StartRecordingInternalAsync(Closed(t, o))
           \/ r = StopInferenceOrJson(Closed(t, o))
BY DEF FinishRecordThread, Gone, Closed

LEMMA FinishRecordHeld ==
    ASSUME NEW t, Shape(t), FreeRec(t), FreeFl(t), NEW o, NEW r, r = FinishRecordThread(t, o)
    PROVE  Shape(r) /\ (Held(t) /\ NoRec(t) => Held(r))
<1> DEFINE g == Gone(t)
           c == Closed(t, o)
<1>1. /\ Shape(g) /\ FreeRec(g) /\ FreeFl(g)
      /\ Held(t) /\ NoRec(t) => Held(g) /\ NoRec(g)
  BY GoneEffect, GoneHeld, AlikeFamilies
<1>2. Shape(c) /\ Alike(g, c)
  BY ClosedEffect
<1>3. \/ r = StartRecordingWorkerForSession(g, o) \/ r = UpdateSessionState(g)
      \/ r = StartRecordingInternalAsync(c) \/ r = StopInferenceOrJson(c)
  BY FinishRecordCases
<1> HIDE DEF g, c
<1>4. FreeFl(c) /\ (Held(g) => Held(c))
  BY <1>1, <1>2, AlikePreserves, PreservesHeld, AlikeFamilies DEF Alike
<1>5. CASE r = StartRecordingWorkerForSession(g, o)
  BY <1>1, <1>5, StartRecorderHeld
<1>6. CASE r = UpdateSessionState(g)
  BY <1>1, <1>6, UpdateSessionStateEffect, AlikePreserves, PreservesHeld
<1>7. CASE r = StartRecordingInternalAsync(c)
  BY <1>1, <1>2, <1>4, <1>7, AsyncEffect, AlikePreserves, PreservesHeld
<1>8. CASE r = StopInferenceOrJson(c)
  BY <1>1, <1>2, <1>4, <1>8, StopInferenceOrJsonKept, PreservesHeld
<1> QED
  BY <1>3, <1>5, <1>6, <1>7, <1>8

RecorderAsked(t) == [t EXCEPT !.rec[t.sv.recordWorker].st = "stopping"]

LEMMA RecorderAskedKept ==
    ASSUME NEW t, Shape(t), t.sv.recordWorker # null, NEW r, r = RecorderAsked(t)
    PROVE  Preserves(t, r)
<1>1. t.sv.recordWorker \in Ids
  BY DEF Shape, Workers
<1>2. Shape(r)
  BY <1>1 DEF Shape, Numbers, RecorderAsked, Recorder, RecorderStates
<1>3. /\ r.sv = t.sv /\ r.gh = t.gh /\ r.wh = t.wh /\ r.js = t.js
      /\ \A i \in Ids : RecActive(r, i) => RecActive(t, i) \/ i = t.sv.recordWorker
  BY <1>1 DEF Shape, RecorderAsked, Recorder, RecActive
<1>4. Reached(t) => Keeps(t, r)
  BY <1>3 DEF Keeps, SameNumbers, FewerSessions, FewerWorkers, Reached, WhActive, JsActive
<1> QED
  BY <1>2, <1>4 DEF Preserves

LEMMA RecordStopCases ==
    ASSUME NEW t, NEW o, NEW r, r = RequestRecordThreadStop(t, o)
    PROVE  \/ t.sv.recordWorker # null /\ r = RecorderAsked(t)
           \/ ~RecorderAlive(t) /\ r = FinishRecordThread(t, o)
BY DEF RequestRecordThreadStop, RecorderAsked, RecorderAlive

LEMMA RecordStopHeld ==
    ASSUME NEW t, Shape(t), FreeRec(t), FreeFl(t), NEW o, NEW r,
           r = RequestRecordThreadStop(t, o)
    PROVE  Shape(r) /\ (Held(t) => Held(r))
<1>1. CASE t.sv.recordWorker # null /\ r = RecorderAsked(t)
  BY <1>1, RecorderAskedKept, PreservesHeld
<1>2. CASE ~RecorderAlive(t) /\ r = FinishRecordThread(t, o)
  BY <1>2, NotAlive, FinishRecordHeld DEF Held
<1> QED
  BY <1>1, <1>2, RecordStopCases

-----------------------------------------------------------------------------
(* startRecordingInternal. *)

Chosen(t) ==
    /\ t.sv.pendingRecordingTimeData # null
    /\ t.sv.recordingSessionId = t.sv.pendingRecordingTimeData

SessionChosen(t, last, time) ==
    [t EXCEPT !.sv = [@ EXCEPT !.lastTime = last, !.pendingRecordingTimeData = time,
                               !.recordingSessionId = time]]

LEMMA SessionChosenEffect ==
    ASSUME NEW t, Shape(t), NEW time \in Nat, NEW last \in Nat, NEW r,
           r = SessionChosen(t, last, time)
    PROVE  /\ Shape(r) /\ SameThreads(t, r) /\ SameWorkers(t, r)
           /\ r.gh = t.gh /\ r.sv.inferenceSessionId = t.sv.inferenceSessionId
           /\ r.sv.nextInferenceSequence = t.sv.nextInferenceSequence
           /\ r.sv.sessionActive = t.sv.sessionActive /\ r.sv.destroyed = t.sv.destroyed
           /\ r.sv.lastTime = last /\ r.sv.pendingRecordingTimeData = time
           /\ r.sv.recordingSessionId = time
<1>1. Shape(r)
  BY DEF Shape, Numbers, SessionChosen, ServiceFields, InitService
<1>2. SameThreads(t, r) /\ SameWorkers(t, r) /\ r.gh = t.gh
  BY DEF Shape, SessionChosen, ServiceFields, InitService, SameThreads, SameWorkers
<1>3. /\ r.sv.inferenceSessionId = t.sv.inferenceSessionId
      /\ r.sv.nextInferenceSequence = t.sv.nextInferenceSequence
      /\ r.sv.sessionActive = t.sv.sessionActive /\ r.sv.destroyed = t.sv.destroyed
      /\ r.sv.lastTime = last /\ r.sv.pendingRecordingTimeData = time
      /\ r.sv.recordingSessionId = time
  BY DEF Shape, SessionChosen, ServiceFields, InitService
<1> QED
  BY <1>1, <1>2, <1>3

(* The recording's session is a new one, or the one that START announced.  *)
LEMMA ChooseSessionHeld ==
    ASSUME NEW t, Shape(t), NEW r, r = ChooseSession(t)
    PROVE  /\ Shape(r) /\ SameThreads(t, r) /\ SameWorkers(t, r) /\ Chosen(r)
           /\ Held(t) => Held(r) /\ Ready(r, r.sv.recordingSessionId)
<1> DEFINE time == IF t.sv.pendingRecordingTimeData = null
                   THEN t.sv.lastTime + 1 ELSE t.sv.pendingRecordingTimeData
           last == IF t.sv.lastTime < time THEN time ELSE t.sv.lastTime
<1>1. /\ time \in Nat /\ last \in Nat /\ time # null
      /\ t.sv.lastTime <= last /\ time <= last
      /\ time = t.sv.pendingRecordingTimeData \/ time = t.sv.lastTime + 1
      /\ time = t.sv.pendingRecordingTimeData => t.sv.pendingRecordingTimeData # null
  BY DEF Shape, Numbers, null
<1>2. r = SessionChosen(t, last, time)
  BY DEF ChooseSession, SessionChosen
<1> HIDE DEF time, last
<1>3. /\ Shape(r) /\ SameThreads(t, r) /\ SameWorkers(t, r)
      /\ r.gh = t.gh /\ r.sv.inferenceSessionId = t.sv.inferenceSessionId
      /\ r.sv.nextInferenceSequence = t.sv.nextInferenceSequence
      /\ r.sv.sessionActive = t.sv.sessionActive /\ r.sv.destroyed = t.sv.destroyed
      /\ r.sv.lastTime = last /\ r.sv.pendingRecordingTimeData = time
      /\ r.sv.recordingSessionId = time
  BY <1>1, <1>2, SessionChosenEffect
<1>4. Reached(t) => Reached(r)
  BY <1>3 DEF SameThreads, SameWorkers, Reached, RecActive, WhActive, JsActive
<1>5. ASSUME Held(t), ~r.sv.destroyed
      PROVE  /\ Counted(r) /\ Dated(r) /\ WorkersCount(r) /\ SessionsCount(r)
             /\ Beyond(r, time, r.sv.nextInferenceSequence)
  <2>1. Counted(t) /\ Dated(t) /\ WorkersCount(t) /\ SessionsCount(t)
    BY <1>3, <1>5 DEF Held, Numbered
  <2>2. /\ t.sv.lastTime \in Nat /\ t.sv.inferenceSessionId \in Nat
    BY DEF Shape, Numbers
  <2>3. Beyond(r, time, r.sv.nextInferenceSequence)
    BY <1>1, <1>3, <2>1, <2>2 DEF Beyond, Counted, SessionsCount
  <2>4. Counted(r)
    BY <1>1, <1>3, <2>1, <2>2 DEF Counted
  <2>5. Dated(r)
    BY <1>1, <1>3, <2>1, <2>2 DEF Dated
  <2>6. WorkersCount(r)
    BY <1>3, <2>1 DEF WorkersCount, Beyond, SameThreads, WhActive
  <2>7. SessionsCount(r)
    BY <1>1, <1>3, <2>3 DEF SessionsCount
  <2> QED
    BY <2>3, <2>4, <2>5, <2>6, <2>7
<1>6. Held(t) => Held(r)
  BY <1>4, <1>5 DEF Held, Numbered
<1>7. Held(t) => Ready(r, r.sv.recordingSessionId)
  BY <1>1, <1>3, <1>5 DEF Ready
<1> QED
  BY <1>1, <1>3, <1>6, <1>7 DEF Chosen

SessionBegun(t, time) ==
    [t EXCEPT !.sv = [@ EXCEPT !.pendingRecordingStart = FALSE,
                               !.sessionEndRequested = FALSE, !.sessionActive = TRUE,
                               !.recordingTimeData = time,
                               !.pendingRecordingTimeData = null]]
Shown(t) == [t EXCEPT !.sv.currentState = "Recording"]
Opened(t) == TakeProjection(OpenAudioFile(t))

LEMMA SessionBegunHeld ==
    ASSUME NEW t, Shape(t), NEW time \in Nat, NEW r, r = SessionBegun(t, time)
    PROVE  /\ Shape(r) /\ SameThreads(t, r)
           /\ Held(t) /\ Chosen(t) => Held(r)
<1>1. Shape(r)
  BY DEF Shape, Numbers, SessionBegun, ServiceFields, InitService, null
<1>2. SameThreads(t, r) /\ SameWorkers(t, r) /\ SameNumbers(t, r)
  BY DEF Shape, SessionBegun, ServiceFields, InitService,
     SameThreads, SameWorkers, SameNumbers
<1>3. /\ r.sv.sessionActive /\ r.sv.destroyed = t.sv.destroyed
      /\ r.sv.recordingSessionId = t.sv.recordingSessionId
      /\ r.sv.pendingRecordingTimeData = null
  BY DEF Shape, SessionBegun, ServiceFields, InitService
<1>4. Reached(t) => Reached(r)
  BY <1>2 DEF SameThreads, SameWorkers, Reached, RecActive, WhActive, JsActive
<1>5. ASSUME Held(t), Chosen(t), ~r.sv.destroyed
      PROVE  Counted(r) /\ Dated(r) /\ WorkersCount(r) /\ SessionsCount(r)
  <2>1. Counted(t) /\ Dated(t) /\ WorkersCount(t) /\ SessionsCount(t)
    BY <1>3, <1>5 DEF Held, Numbered
  <2>2. Counted(r)
    BY <1>2, <2>1 DEF Counted, SameNumbers
  <2>3. Dated(r)
    BY <1>2, <1>3, <2>1 DEF Dated, SameNumbers, Shape, Numbers, null
  <2>4. WorkersCount(r)
    BY <1>2, <2>1 DEF WorkersCount, Beyond, SameThreads, SameNumbers, WhActive
  <2>5. SessionsCount(r)
    BY <1>2, <1>3, <1>5, <2>1 DEF SessionsCount, Beyond, SameNumbers, Chosen
  <2> QED
    BY <2>2, <2>3, <2>4, <2>5
<1> QED
  BY <1>1, <1>2, <1>4, <1>5 DEF Held, Numbered

LEMMA ShownEffect ==
    ASSUME NEW t, Shape(t), NEW r, r = Shown(t)
    PROVE  Shape(r) /\ Alike(t, r)
<1>1. Shape(r)
  BY DEF Shape, Numbers, Shown, ServiceFields, InitService
<1> QED
  BY <1>1 DEF Shape, Shown, ServiceFields, InitService, Alike,
     SameThreads, SameWorkers, SameNumbers, SameSession

LEMMA OpenedEffect ==
    ASSUME NEW t, Shape(t)
    PROVE  /\ Shape(OpenAudioFile(t)) /\ Alike(t, OpenAudioFile(t))
           /\ Shape(Opened(t)) /\ Alike(t, Opened(t))
<1> DEFINE a == OpenAudioFile(t)
<1>1. Shape(a) /\ Alike(t, a)
  BY OpenAudioFileEffect
<1> HIDE DEF a
<1>2. Shape(TakeProjection(a)) /\ Alike(a, TakeProjection(a))
  BY <1>1, TakeProjectionEffect
<1> QED
  BY <1>1, <1>2, AlikeTransitive DEF Opened, a

LEMMA OpenCases ==
    ASSUME NEW t, NEW o, NEW r, r = OpenAndRecord(t, o)
    PROVE  \/ r = StopInferenceIfNotRecording(t)
           \/ \E c \in {OpenAudioFile(t), ReleaseMediaProjection(OpenAudioFile(t)),
                        ReleaseMediaProjection(
                            Gone(SessionBegun(Opened(t), t.sv.pendingRecordingTimeData)))} :
                 r = StopInferenceIfNotRecording(CloseAudioFile(c, FALSE, o))
           \/ r = Shown(NewRecorder(SessionBegun(Opened(t), t.sv.pendingRecordingTimeData)))
BY DEF OpenAndRecord, Gone, SessionBegun, Opened, Shown

(* The states in which openAndRecord may find itself. *)
Opens(t, s) == Shape(s) /\ FreeFl(s) /\ (Held(t) /\ NoRec(t) /\ Chosen(t) => Held(s))

LEMMA OpensKept ==
    ASSUME NEW t, NEW s, Opens(t, s), NEW o
    PROVE  /\ Opens(t, ReleaseMediaProjection(s))
           /\ Opens(t, CloseAudioFile(s, FALSE, o))
<1>1. ASSUME NEW r, Shape(r), Alike(s, r) PROVE Opens(t, r)
  BY <1>1, AlikePreserves, PreservesHeld, AlikeFamilies DEF Opens, Alike
<1>2. Shape(ReleaseMediaProjection(s)) /\ Alike(s, ReleaseMediaProjection(s))
  BY ReleaseEffect DEF Opens
<1>3. Shape(CloseAudioFile(s, FALSE, o)) /\ Alike(s, CloseAudioFile(s, FALSE, o))
  BY CloseAudioFileEffect DEF Opens
<1> QED
  BY <1>1, <1>2, <1>3

LEMMA OpenHeld ==
    ASSUME NEW t, Shape(t), FreeRec(t), FreeFl(t), NEW o, NEW r, r = OpenAndRecord(t, o)
    PROVE  Shape(r) /\ (Held(t) /\ NoRec(t) /\ Chosen(t) => Held(r))
<1> DEFINE a == OpenAudioFile(t)
           p == Opened(t)
           b == SessionBegun(p, t.sv.pendingRecordingTimeData)
           g == Gone(b)
<1>1. Shape(p) /\ Alike(t, p) /\ Shape(a) /\ Alike(t, a)
  BY OpenedEffect
<1>2. \/ r = StopInferenceIfNotRecording(t)
      \/ \E c \in {a, ReleaseMediaProjection(a), ReleaseMediaProjection(g)} :
            r = StopInferenceIfNotRecording(CloseAudioFile(c, FALSE, o))
      \/ r = Shown(NewRecorder(b))
  BY OpenCases
<1> HIDE DEF a, p
<1>3. t.sv.pendingRecordingTimeData \in Nat
  BY DEF Shape, Numbers
<1>4. Shape(b) /\ SameThreads(p, b) /\ (Held(p) /\ Chosen(p) => Held(b))
  BY <1>1, <1>3, SessionBegunHeld
<1>5. (Held(t) => Held(p)) /\ (Chosen(t) => Chosen(p))
  BY <1>1, AlikePreserves, PreservesHeld DEF Alike, SameSession, Chosen
<1> HIDE DEF b
<1>6. FreeRec(b) /\ FreeFl(b) /\ (NoRec(t) => NoRec(b))
  BY <1>1, <1>4, AlikeFamilies DEF Alike
<1>7. Opens(t, t) /\ Opens(t, a)
  BY <1>1, AlikePreserves, PreservesHeld, AlikeFamilies DEF Opens, Alike
<1>8. Opens(t, g)
  BY <1>4, <1>5, <1>6, GoneEffect, GoneHeld, AlikeFamilies DEF Opens
<1> HIDE DEF g
<1>9. ASSUME NEW s, Opens(t, s), r = StopInferenceIfNotRecording(s)
      PROVE  Shape(r) /\ (Held(t) /\ NoRec(t) /\ Chosen(t) => Held(r))
  BY <1>9, StopIfNotRecordingKept, PreservesHeld DEF Opens
<1>10. CASE r = Shown(NewRecorder(b))
  <2> DEFINE n == NewRecorder(b)
  <2>1. Shape(n) /\ (Held(t) /\ NoRec(t) /\ Chosen(t) => Held(n))
    BY <1>4, <1>5, <1>6, NewRecorderHeld
  <2>2. r = Shown(n)
    BY <1>10
  <2> HIDE DEF n
  <2> QED
    BY <2>1, <2>2, ShownEffect, AlikePreserves, PreservesHeld
<1>11. ASSUME NEW c \in {a, ReleaseMediaProjection(a), ReleaseMediaProjection(g)}
       PROVE  Opens(t, CloseAudioFile(c, FALSE, o))
  BY <1>7, <1>8, OpensKept
<1> QED
  BY <1>2, <1>7, <1>9, <1>10, <1>11

PendingStart(t) == [t EXCEPT !.sv.pendingRecordingStart = TRUE]

LEMMA PendingStartEffect ==
    ASSUME NEW t, Shape(t), NEW r, r = PendingStart(t)
    PROVE  Shape(r) /\ Alike(t, r)
<1>1. Shape(r)
  BY DEF Shape, Numbers, PendingStart, ServiceFields, InitService
<1> QED
  BY <1>1 DEF Shape, PendingStart, ServiceFields, InitService, Alike,
     SameThreads, SameWorkers, SameNumbers, SameSession

LEMMA StartInternalCases ==
    ASSUME NEW t, NEW o, NEW r, r = StartRecordingInternal(t, o)
    PROVE  LET c == ChooseSession(t)
               a == EnsureInferenceAccepting(c, c.sv.pendingRecordingTimeData).after
           IN  \/ r = t
               \/ r = PendingStart(t)
               \/ r = StopForegroundAndSelf(t)
               \/ r = PendingStart(a)
               \/ ~RecorderAlive(t) /\ r = OpenAndRecord(a, o)
BY DEF StartRecordingInternal, PendingStart

LEMMA StartInternalHeld ==
    ASSUME NEW t, Shape(t), RoomIn(t), NEW o, NEW r, r = StartRecordingInternal(t, o)
    PROVE  Shape(r) /\ (Held(t) => Held(r))
<1> DEFINE c == ChooseSession(t)
           time == c.sv.pendingRecordingTimeData
           a == EnsureInferenceAccepting(c, time).after
<1>1. /\ r = t \/ r = PendingStart(t) \/ r = StopForegroundAndSelf(t) \/ r = PendingStart(a)
         \/ (~RecorderAlive(t) /\ r = OpenAndRecord(a, o))
  BY StartInternalCases
<1>2. /\ Shape(c) /\ SameThreads(t, c) /\ Chosen(c)
      /\ Held(t) => Held(c) /\ Ready(c, c.sv.recordingSessionId)
  BY ChooseSessionHeld
<1> HIDE DEF c
<1>3. RoomIn(c) /\ (NoRec(t) => NoRec(c))
  BY <1>2, AlikeFamilies
<1>4. time \in Nat /\ PipelineSession(c, time) = c.sv.recordingSessionId
  BY <1>2 DEF Shape, Numbers, Chosen, PipelineSession
<1>5. /\ Shape(a) /\ a.rec = c.rec /\ a.fl = c.fl /\ SameSession(c, a)
      /\ Held(c) /\ Ready(c, PipelineSession(c, time)) => Held(a)
  BY <1>2, <1>3, <1>4, EnsureHeld DEF RoomIn
<1> HIDE DEF a, time
<1>6. /\ Held(t) => Held(a)
      /\ Chosen(a) /\ FreeRec(a) /\ FreeFl(a) /\ (NoRec(t) => NoRec(a))
  BY <1>2, <1>3, <1>4, <1>5 DEF SameSession, Chosen, RoomIn, FreeRec, FreeFl, NoRec, RecActive
<1>7. CASE r = PendingStart(t)
  BY <1>7, PendingStartEffect, AlikePreserves, PreservesHeld
<1>8. CASE r = StopForegroundAndSelf(t)
  BY <1>8, StopSelfEffect, PreservesHeld
<1>9. CASE r = PendingStart(a)
  BY <1>5, <1>6, <1>9, PendingStartEffect, AlikePreserves, PreservesHeld
<1>10. CASE ~RecorderAlive(t) /\ r = OpenAndRecord(a, o)
  <2>1. Held(t) => NoRec(a)
    BY <1>6, <1>10, NotAlive DEF Held
  <2> QED
    BY <1>5, <1>6, <1>10, <2>1, OpenHeld
<1> QED
  BY <1>1, <1>7, <1>8, <1>9, <1>10


-----------------------------------------------------------------------------
(* The commands. *)

(* A command, given the recorder and file it may need, keeps the invariant. *)
Good(t, r) == Shape(r) /\ (Held(t) => Held(r))

LEMMA PreservesGood ==
    ASSUME NEW t, Shape(t), NEW r, Preserves(t, r)
    PROVE  Good(t, r)
BY PreservesHeld DEF Good

LEMMA AlikeGood ==
    ASSUME NEW t, Shape(t), NEW r, Shape(r), Alike(t, r)
    PROVE  Good(t, r)
BY AlikePreserves, PreservesHeld DEF Good

LEMMA SelfGood ==
    ASSUME NEW t, Shape(t)
    PROVE  Good(t, t)
BY DEF Good

StopAccepted(t) ==
    [t EXCEPT !.sv = [@ EXCEPT !.sessionActive = FALSE,
                               !.sessionEndRequested = TRUE, !.recording = FALSE,
                               !.pendingRecordingStart = FALSE,
                               !.pendingRecordingResume = FALSE,
                               !.pendingInferenceResume = FALSE,
                               !.inferenceAccepting = FALSE,
                               !.currentState = "StopRecord"]]

LEMMA StopAcceptedEffect ==
    ASSUME NEW t, Shape(t), NEW r, r = StopAccepted(t)
    PROVE  SameThreads(t, r) /\ Preserves(t, r)
<1>1. Shape(r)
  BY DEF Shape, Numbers, StopAccepted, ServiceFields, InitService
<1>2. SameThreads(t, r) /\ SameNumbers(t, r)
  BY DEF Shape, StopAccepted, ServiceFields, InitService, SameThreads, SameNumbers
<1>3. SameWorkers(t, r)
  BY DEF Shape, StopAccepted, ServiceFields, InitService, SameWorkers
<1>4. /\ r.sv.destroyed = t.sv.destroyed /\ ~r.sv.sessionActive
      /\ r.sv.recordingSessionId = t.sv.recordingSessionId
      /\ r.sv.pendingRecordingTimeData = t.sv.pendingRecordingTimeData
  BY DEF Shape, StopAccepted, ServiceFields, InitService
<1>5. Reached(t) => Keeps(t, r)
  BY <1>2, <1>3, <1>4 DEF SameThreads, SameWorkers, Keeps, FewerSessions,
     FewerWorkers, Reached, RecActive, WhActive, JsActive
<1> QED
  BY <1>1, <1>2, <1>5 DEF Preserves

LEMMA RequestStopRecordingHeld ==
    ASSUME NEW t, Shape(t), RoomIn(t), NEW o, NEW r, r = RequestStopRecording(t, o)
    PROVE  Good(t, r)
<1> DEFINE s == StopAccepted(t)
<1>1. r = t \/ r = RequestRecordThreadStop(s, o)
  BY DEF RequestStopRecording, StopAccepted
<1>2. SameThreads(t, s) /\ Preserves(t, s)
  BY StopAcceptedEffect
<1> HIDE DEF s
<1>3. Shape(s) /\ (Held(t) => Held(s)) /\ FreeRec(s) /\ FreeFl(s)
  BY <1>2, PreservesHeld, AlikeFamilies DEF RoomIn
<1>4. CASE r = RequestRecordThreadStop(s, o)
  BY <1>3, <1>4, RecordStopHeld DEF Good
<1> QED
  BY <1>1, <1>4, SelfGood

PauseAccepted(t) ==
    [t EXCEPT !.sv = [@ EXCEPT !.recording = FALSE, !.pendingRecordingResume = FALSE]]
ResumePending(t) == [t EXCEPT !.sv.pendingRecordingResume = TRUE]
InferenceStopAccepted(t) ==
    [t EXCEPT !.sv = [@ EXCEPT !.pendingInferenceResume = FALSE, !.inferenceAccepting = FALSE]]
InferencePending(t, b) == [t EXCEPT !.sv.pendingInferenceResume = b]
FilesCleared(t) ==
    [t EXCEPT !.sv = [@ EXCEPT !.retranscriptionQueue = 0, !.pendingRecordingStart = FALSE]]
Queued(t) == [t EXCEPT !.sv.retranscriptionQueue = @ + 1]
ThreadTaken(t) == [t EXCEPT !.sv.startThreads = @ - 1]
Requested(t, source) ==
    [t EXCEPT !.sv = [@ EXCEPT !.requestedAudioSource = source,
                               !.projectionData = (source = "APP_CAPTURE")]]

LEMMA PauseAcceptedEffect ==
    ASSUME NEW t, Shape(t), NEW r, r = PauseAccepted(t)
    PROVE  Shape(r) /\ Alike(t, r)
<1>1. Shape(r)
  BY DEF Shape, Numbers, PauseAccepted, ServiceFields, InitService
<1> QED
  BY <1>1 DEF Shape, PauseAccepted, ServiceFields, InitService, Alike,
     SameThreads, SameWorkers, SameNumbers, SameSession

LEMMA ResumePendingEffect ==
    ASSUME NEW t, Shape(t), NEW r, r = ResumePending(t)
    PROVE  Shape(r) /\ Alike(t, r)
<1>1. Shape(r)
  BY DEF Shape, Numbers, ResumePending, ServiceFields, InitService
<1> QED
  BY <1>1 DEF Shape, ResumePending, ServiceFields, InitService, Alike,
     SameThreads, SameWorkers, SameNumbers, SameSession

LEMMA InferenceStopAcceptedEffect ==
    ASSUME NEW t, Shape(t), NEW r, r = InferenceStopAccepted(t)
    PROVE  Shape(r) /\ Alike(t, r)
<1>1. Shape(r)
  BY DEF Shape, Numbers, InferenceStopAccepted, ServiceFields, InitService
<1> QED
  BY <1>1 DEF Shape, InferenceStopAccepted, ServiceFields, InitService, Alike,
     SameThreads, SameWorkers, SameNumbers, SameSession

LEMMA InferencePendingEffect ==
    ASSUME NEW t, Shape(t), NEW b, NEW r, r = InferencePending(t, b)
    PROVE  Shape(r) /\ Alike(t, r)
<1>1. Shape(r)
  BY DEF Shape, Numbers, InferencePending, ServiceFields, InitService
<1> QED
  BY <1>1 DEF Shape, InferencePending, ServiceFields, InitService, Alike,
     SameThreads, SameWorkers, SameNumbers, SameSession

LEMMA FilesClearedEffect ==
    ASSUME NEW t, Shape(t), NEW r, r = FilesCleared(t)
    PROVE  Shape(r) /\ Alike(t, r)
<1>1. Shape(r)
  BY DEF Shape, Numbers, FilesCleared, ServiceFields, InitService
<1> QED
  BY <1>1 DEF Shape, FilesCleared, ServiceFields, InitService, Alike,
     SameThreads, SameWorkers, SameNumbers, SameSession

LEMMA QueuedEffect ==
    ASSUME NEW t, Shape(t), NEW r, r = Queued(t)
    PROVE  Shape(r) /\ Alike(t, r)
<1>1. Shape(r)
  BY DEF Shape, Numbers, Queued, ServiceFields, InitService
<1> QED
  BY <1>1 DEF Shape, Queued, ServiceFields, InitService, Alike,
     SameThreads, SameWorkers, SameNumbers, SameSession

LEMMA ThreadTakenEffect ==
    ASSUME NEW t, Shape(t), t.sv.startThreads > 0, NEW r, r = ThreadTaken(t)
    PROVE  Shape(r) /\ Alike(t, r)
<1>1. Shape(r)
  BY DEF Shape, Numbers, ThreadTaken, ServiceFields, InitService
<1> QED
  BY <1>1 DEF Shape, ThreadTaken, ServiceFields, InitService, Alike,
     SameThreads, SameWorkers, SameNumbers, SameSession

LEMMA RequestedEffect ==
    ASSUME NEW t, Shape(t), NEW source, NEW r, r = Requested(t, source)
    PROVE  Shape(r) /\ Alike(t, r)
<1>1. Shape(r)
  BY DEF Shape, Numbers, Requested, ServiceFields, InitService
<1> QED
  BY <1>1 DEF Shape, Requested, ServiceFields, InitService, Alike,
     SameThreads, SameWorkers, SameNumbers, SameSession

LEMMA RequestPauseRecordingHeld ==
    ASSUME NEW t, Shape(t), RoomIn(t), NEW o, NEW r, r = RequestPauseRecording(t, o)
    PROVE  Good(t, r)
<1> DEFINE p == PauseAccepted(t)
           s == UpdateSessionState(p)
<1>1. r = t \/ r = RequestRecordThreadStop(s, o)
  BY DEF RequestPauseRecording, PauseAccepted
<1>2. Shape(p) /\ Alike(t, p)
  BY PauseAcceptedEffect
<1> HIDE DEF p
<1>3. Shape(s) /\ Alike(p, s)
  BY <1>2, UpdateSessionStateEffect
<1> HIDE DEF s
<1>4. Good(t, s) /\ FreeRec(s) /\ FreeFl(s)
  BY <1>2, <1>3, AlikeTransitive, AlikeGood, AlikeFamilies DEF RoomIn, Alike
<1>5. CASE r = RequestRecordThreadStop(s, o)
  BY <1>4, <1>5, RecordStopHeld DEF Good
<1> QED
  BY <1>1, <1>5, SelfGood

LEMMA RequestResumeRecordingHeld ==
    ASSUME NEW t, Shape(t), RoomIn(t), NEW o, NEW r, r = RequestResumeRecording(t, o)
    PROVE  Good(t, r)
<1>1. \/ r = t \/ r = ResumePending(t)
      \/ ~RecorderAlive(t) /\ r = StartRecordingWorkerForSession(t, o)
  BY DEF RequestResumeRecording, ResumePending
<1>2. CASE r = ResumePending(t)
  BY <1>2, ResumePendingEffect, AlikeGood
<1>3. CASE ~RecorderAlive(t) /\ r = StartRecordingWorkerForSession(t, o)
  <2>1. Held(t) => NoRec(t)
    BY <1>3, NotAlive DEF Held
  <2> QED
    BY <1>3, <2>1, StartRecorderHeld DEF RoomIn, Good
<1> QED
  BY <1>1, <1>2, <1>3, SelfGood

LEMMA RequestStopInferenceHeld ==
    ASSUME NEW t, Shape(t), NEW r, r = RequestStopInference(t)
    PROVE  Good(t, r)
<1> DEFINE p == InferenceStopAccepted(t)
           s == UpdateSessionState(p)
<1>1. r = t \/ (t.sv.transcriptionWorker # null /\ r = StopWhisper(s))
  BY DEF RequestStopInference, InferenceStopAccepted
<1>2. Shape(p) /\ Alike(t, p)
  BY InferenceStopAcceptedEffect
<1> HIDE DEF p
<1>3. Shape(s) /\ Alike(p, s)
  BY <1>2, UpdateSessionStateEffect
<1> HIDE DEF s
<1>4. Good(t, s) /\ s.sv.transcriptionWorker = t.sv.transcriptionWorker
  BY <1>2, <1>3, AlikeTransitive, AlikeGood DEF Alike, SameWorkers
<1>5. CASE t.sv.transcriptionWorker # null /\ r = StopWhisper(s)
  BY <1>4, <1>5, StopWhisperKept, PreservesHeld DEF Good
<1> QED
  BY <1>1, <1>5, SelfGood

LEMMA RequestResumeInferenceHeld ==
    ASSUME NEW t, Shape(t), RoomIn(t), NEW r, r = RequestResumeInference(t)
    PROVE  Good(t, r)
<1> DEFINE time == t.sv.recordingTimeData
           a == EnsureInferenceAccepting(t, time).after
<1>1. \/ r = t
      \/ t.sv.sessionActive /\ (\/ r = UpdateSessionState(InferencePending(a, FALSE))
                                \/ r = InferencePending(a, TRUE))
  BY DEF RequestResumeInference, InferencePending
<1>2. time \in Nat
  BY DEF Shape, Numbers
<1>3. Shape(a) /\ (Held(t) /\ Ready(t, PipelineSession(t, time)) => Held(a))
  BY <1>2, EnsureHeld DEF RoomIn
<1>4. ASSUME t.sv.sessionActive, Held(t) PROVE Ready(t, PipelineSession(t, time))
  BY <1>4 DEF Held, Numbered, Dated, SessionsCount, Ready, PipelineSession
<1> HIDE DEF a, time
<1>5. ASSUME NEW b \in BOOLEAN
      PROVE  Shape(InferencePending(a, b)) /\ Good(a, InferencePending(a, b))
  BY <1>3, InferencePendingEffect, AlikeGood
<1>6. CASE r = t
  BY <1>6, SelfGood
<1>7. CASE t.sv.sessionActive /\ r = UpdateSessionState(InferencePending(a, FALSE))
  <2>1. Good(InferencePending(a, FALSE), r)
    BY <1>5, <1>7, UpdateSessionStateEffect, AlikeGood
  <2> QED
    BY <1>3, <1>4, <1>5, <1>7, <2>1 DEF Good
<1>8. CASE t.sv.sessionActive /\ r = InferencePending(a, TRUE)
  BY <1>3, <1>4, <1>5, <1>8 DEF Good
<1> QED
  BY <1>1, <1>6, <1>7, <1>8

FileAsked(t, f) == [t EXCEPT !.fl[f] = "stopping"]

LEMMA FileAskedEffect ==
    ASSUME NEW t, Shape(t), NEW f \in Ids, NEW r, r = FileAsked(t, f)
    PROVE  Preserves(t, r)
<1>1. r.fl = [t.fl EXCEPT ![f] = "stopping"]
  BY DEF FileAsked, Shape
<1>2. /\ r.rec = t.rec /\ r.wh = t.wh /\ r.js = t.js /\ r.sv = t.sv /\ r.gh = t.gh
      /\ DOMAIN r = DOMAIN t
  BY DEF FileAsked, Shape
<1>3. Shape(r)
  BY <1>1, <1>2 DEF Shape, RecorderStates
<1>4. Reached(t) => Keeps(t, r)
  BY <1>2 DEF Keeps, SameNumbers, FewerSessions, FewerWorkers, Reached, RecActive, WhActive,
     JsActive
<1> QED
  BY <1>3, <1>4 DEF Preserves

LEMMA RequestStopFileHeld ==
    ASSUME NEW t, Shape(t), NEW r, r = RequestStopFileTranscription(t)
    PROVE  Good(t, r)
<1> DEFINE c == FilesCleared(t)
           f == t.sv.retranscriptionWorker
<1>1. (FileAlive(t) /\ r = FileAsked(c, f)) \/ r = StopForegroundAndSelf(c)
  BY DEF RequestStopFileTranscription, FilesCleared, FileAsked
<1>2. Shape(c) /\ Good(t, c)
  BY FilesClearedEffect, AlikeGood
<1> HIDE DEF c
<1>3. CASE FileAlive(t) /\ r = FileAsked(c, f)
  <2>1. f \in Ids
    BY <1>3 DEF FileAlive, Shape, Workers
  <2> HIDE DEF f
  <2> QED
    BY <1>2, <1>3, <2>1, FileAskedEffect, PreservesHeld DEF Good
<1>4. CASE r = StopForegroundAndSelf(c)
  BY <1>2, <1>4, StopSelfEffect, PreservesHeld DEF Good
<1> QED
  BY <1>1, <1>3, <1>4

(* A new session: its number is newer than that of any result. *)
NewSession(t) ==
    [t EXCEPT !.sv = [@ EXCEPT !.pendingRecordingTimeData = t.sv.lastTime + 1,
                               !.lastTime = t.sv.lastTime + 1, !.nextInferenceSequence = 0,
                               !.sessionRecordedSamples = 0]]

LEMMA NewSessionHeld ==
    ASSUME NEW t, Shape(t), ~t.sv.sessionActive, NEW r, r = NewSession(t)
    PROVE  Good(t, r)
<1>0. t.sv.lastTime + 1 \in Nat
  BY DEF Shape, Numbers
<1>1. Shape(r)
  <2>1. Numbers(r.sv)
    BY <1>0 DEF Shape, Numbers, NewSession, ServiceFields, InitService
  <2> QED
    BY <2>1 DEF Shape, NewSession, ServiceFields, InitService
<1>2. SameThreads(t, r) /\ r.gh = t.gh
  BY DEF Shape, NewSession, SameThreads
<1>3. SameWorkers(t, r)
  BY DEF Shape, NewSession, ServiceFields, InitService, SameWorkers
<1>4. /\ r.sv.destroyed = t.sv.destroyed /\ r.sv.sessionActive = t.sv.sessionActive
      /\ r.sv.recordingSessionId = t.sv.recordingSessionId
      /\ r.sv.inferenceSessionId = t.sv.inferenceSessionId
      /\ r.sv.pendingRecordingTimeData = t.sv.lastTime + 1
      /\ r.sv.lastTime = t.sv.lastTime + 1 /\ r.sv.nextInferenceSequence = 0
  BY DEF Shape, NewSession, ServiceFields, InitService
<1>5. Reached(t) => Reached(r)
  BY <1>2, <1>3 DEF SameThreads, SameWorkers, Reached, RecActive, WhActive, JsActive
<1>6. ASSUME Held(t), ~r.sv.destroyed
      PROVE  Counted(r) /\ Dated(r) /\ WorkersCount(r) /\ SessionsCount(r)
  <2>1. Counted(t) /\ Dated(t) /\ WorkersCount(t)
    BY <1>4, <1>6 DEF Held, Numbered
  <2>2. t.sv.lastTime \in Nat
    BY DEF Shape, Numbers
  <2>3. Counted(r)
    BY <1>2, <1>4, <2>1, <2>2 DEF Counted
  <2>4. Dated(r)
    BY <1>1, <1>4, <2>1, <2>2 DEF Dated, Shape, Numbers
  <2>5. WorkersCount(r)
    BY <1>2, <1>4, <2>1 DEF WorkersCount, Beyond, SameThreads, WhActive
  <2>6. SessionsCount(r)
    BY <1>2, <1>4, <2>1, <2>2 DEF SessionsCount, Beyond, Counted
  <2> QED
    BY <2>3, <2>4, <2>5, <2>6
<1> QED
  BY <1>1, <1>5, <1>6 DEF Good, Held, Numbered

LEMMA StartCommandHeld ==
    ASSUME NEW t, Shape(t), NEW source, NEW r, r = StartCommand(t, source)
    PROVE  Good(t, r)
<1> DEFINE q == Requested(t, source)
<1>1. \/ r = StartRecordingInternalAsync(q)
      \/ ~t.sv.sessionActive /\ r = StartRecordingInternalAsync(NewSession(q))
  <2>1. q.sv.lastTime = t.sv.lastTime
    BY RequestedEffect DEF Alike, SameNumbers
  <2> QED
    BY <2>1 DEF StartCommand, Requested, NewSession
<1>2. Shape(q) /\ Alike(t, q)
  BY RequestedEffect
<1> HIDE DEF q
<1>3. Good(t, q) /\ q.sv.sessionActive = t.sv.sessionActive
  BY <1>2, AlikeGood DEF Alike, SameSession
<1>4. CASE r = StartRecordingInternalAsync(q)
  BY <1>2, <1>3, <1>4, AsyncEffect, AlikePreserves, PreservesHeld DEF Good
<1>5. CASE ~t.sv.sessionActive /\ r = StartRecordingInternalAsync(NewSession(q))
  <2> DEFINE n == NewSession(q)
  <2>1. Good(q, n)
    BY <1>2, <1>3, <1>5, NewSessionHeld
  <2>2. r = StartRecordingInternalAsync(n)
    BY <1>5
  <2> HIDE DEF n
  <2>3. Good(n, r)
    BY <2>1, <2>2, AsyncEffect, AlikeGood DEF Good
  <2> QED
    BY <1>3, <2>1, <2>3 DEF Good
<1> QED
  BY <1>1, <1>4, <1>5

LEMMA EnqueueHeld ==
    ASSUME NEW t, Shape(t), RoomIn(t), NEW r, r = EnqueueSelectedFile(t)
    PROVE  Good(t, r)
<1> DEFINE q == Queued(t)
<1>1. r = StartNextRetranscriptionOrStop(q)
  BY DEF EnqueueSelectedFile, Queued
<1>2. Shape(q) /\ Alike(t, q)
  BY QueuedEffect
<1> HIDE DEF q
<1>3. Good(t, q) /\ FreeFl(q)
  BY <1>2, AlikeGood, AlikeFamilies DEF Alike, RoomIn
<1> QED
  BY <1>1, <1>3, StartNextKept, PreservesHeld DEF Good

(* The history that the commands note. *)
StartNoted(t) == [t EXCEPT !.gh.starts = @ + 1, !.gh.stopAsked = FALSE]
StopNoted(t) == [t EXCEPT !.gh.stopAsked = TRUE]
InferenceStopNoted(t) == [t EXCEPT !.gh.inferenceStopped = TRUE]

LEMMA NotedGood ==
    ASSUME NEW t, Shape(t)
    PROVE  Good(t, StartNoted(t)) /\ Good(t, StopNoted(t)) /\ Good(t, InferenceStopNoted(t))
<1>1. Shape(StartNoted(t)) /\ Alike(t, StartNoted(t))
  BY DEF Shape, StartNoted, HistoryFields, Alike, SameThreads, SameWorkers, SameNumbers,
     SameSession
<1>2. Shape(StopNoted(t)) /\ Alike(t, StopNoted(t))
  BY DEF Shape, StopNoted, HistoryFields, Alike, SameThreads, SameWorkers, SameNumbers,
     SameSession
<1>3. Shape(InferenceStopNoted(t)) /\ Alike(t, InferenceStopNoted(t))
  BY DEF Shape, InferenceStopNoted, HistoryFields, Alike, SameThreads, SameWorkers, SameNumbers,
     SameSession
<1> QED
  BY <1>1, <1>2, <1>3, AlikeGood

-----------------------------------------------------------------------------
(* The events that worker threads deliver.  A stop event forgets whatever  *)
(* worker is in the field, so it needs a family without one.               *)

LEMMA OnRecordStoppedHeld ==
    ASSUME NEW t, Shape(t), RoomIn(t), NEW session, NEW o, NEW r,
           r = OnRecordStopped(t, session, o)
    PROVE  Shape(r) /\ (Held(t) /\ NoRec(t) => Held(r))
<1>1. r = t \/ r = FinishRecordThread(t, o)
  BY DEF OnRecordStopped
<1>2. CASE r = FinishRecordThread(t, o)
  BY <1>2, FinishRecordHeld DEF RoomIn
<1> QED
  BY <1>1, <1>2

WhisperForgotten(t) ==
    [t EXCEPT !.sv = [@ EXCEPT !.whisperThreadStopped = TRUE,
                               !.transcriptionWorker = null,
                               !.inferenceAlive = FALSE,
                               !.inferenceAccepting = FALSE]]

LEMMA WhisperForgottenEffect ==
    ASSUME NEW t, Shape(t), NEW r, r = WhisperForgotten(t)
    PROVE  Shape(r) /\ SameThreads(t, r) /\ SameSession(t, r) /\ (NoWh(t) => Preserves(t, r))
<1>1. Shape(r)
  BY DEF Shape, Numbers, WhisperForgotten, ServiceFields, InitService, Workers
<1>2. SameThreads(t, r) /\ SameNumbers(t, r) /\ SameSession(t, r)
  BY DEF Shape, WhisperForgotten, ServiceFields, InitService, SameThreads, SameNumbers,
     SameSession
<1>3. /\ r.sv.recordWorker = t.sv.recordWorker
      /\ r.sv.transcriptionJsonWorker = t.sv.transcriptionJsonWorker
  BY DEF Shape, WhisperForgotten, ServiceFields, InitService
<1>4. NoWh(t) /\ Reached(t) => Reached(r)
  BY <1>2, <1>3 DEF SameThreads, Reached, RecActive, WhActive, JsActive, NoWh
<1>5. FewerWorkers(t, r)
  BY <1>2 DEF SameThreads, FewerWorkers, WhActive
<1> QED
  BY <1>1, <1>2, <1>4, <1>5 DEF Preserves, Keeps, SameSession, FewerSessions

LEMMA OnWhisperStoppedHeld ==
    ASSUME NEW t, Shape(t), RoomIn(t), NEW session, NEW r, r = OnWhisperStopped(t, session)
    PROVE  Shape(r) /\ (Held(t) /\ NoWh(t) => Held(r))
<1> DEFINE s == WhisperForgotten(t)
           p == InferencePending(s, FALSE)
           time == t.sv.recordingTimeData
           b == StartInferencePipeline(p, time)
<1>1. \/ r = t \/ r = RequestJsonThreadStop(s) \/ r = UpdateSessionState(s)
      \/ t.sv.sessionActive /\ r = UpdateSessionState(b)
  BY DEF OnWhisperStopped, WhisperForgotten, InferencePending
<1>2. Shape(s) /\ SameThreads(t, s) /\ SameSession(t, s) /\ (NoWh(t) => Preserves(t, s))
  BY WhisperForgottenEffect
<1> HIDE DEF s
<1>3. RoomIn(s) /\ (NoWh(t) => NoWh(s) /\ Good(t, s))
  BY <1>2, AlikeFamilies, PreservesGood
<1>4. Shape(p) /\ Alike(s, p)
  BY <1>2, InferencePendingEffect
<1> HIDE DEF p
<1>5. Good(s, p) /\ RoomIn(p) /\ (NoWh(s) => NoWh(p)) /\ SameSession(t, p)
  BY <1>2, <1>3, <1>4, AlikeGood, AlikeFamilies DEF Alike, SameSession
<1>6. time \in Nat
  BY DEF Shape, Numbers
<1>7. Shape(b) /\ (Held(p) /\ NoWh(p) /\ Ready(p, PipelineSession(p, time)) => Held(b))
  BY <1>4, <1>5, <1>6, PipelineHeld DEF RoomIn
<1>8. ASSUME t.sv.sessionActive, Held(p) PROVE Ready(p, PipelineSession(p, time))
  BY <1>5, <1>8 DEF Held, Numbered, Dated, SessionsCount, Ready, PipelineSession, SameSession
<1> HIDE DEF b, time
<1>9. CASE r = RequestJsonThreadStop(s)
  BY <1>2, <1>3, <1>9, RequestJsonStopKept, PreservesHeld DEF RoomIn, Good
<1>10. CASE r = UpdateSessionState(s)
  BY <1>2, <1>3, <1>10, UpdateSessionStateEffect, AlikeGood DEF Good
<1>11. CASE t.sv.sessionActive /\ r = UpdateSessionState(b)
  <2>1. Good(b, r)
    BY <1>7, <1>11, UpdateSessionStateEffect, AlikeGood
  <2> QED
    BY <1>3, <1>5, <1>7, <1>8, <1>11, <2>1 DEF Good
<1> QED
  BY <1>1, <1>9, <1>10, <1>11

LEMMA OnJsonStoppedHeld ==
    ASSUME NEW t, Shape(t), RoomIn(t), NEW session, NEW r, r = OnJsonStopped(t, session)
    PROVE  Shape(r) /\ (Held(t) /\ NoJson(t) => Held(r))
<1> DEFINE s == JsonForgotten(t)
<1>1. r = t \/ r = FinishIdleWorkIfPossible(s)
  BY DEF OnJsonStopped, JsonForgotten
<1>2. Shape(s) /\ SameThreads(t, s) /\ (NoJson(t) => Preserves(t, s))
  BY JsonForgottenEffect
<1> HIDE DEF s
<1>3. FreeFl(s) /\ (NoJson(t) => Good(t, s))
  BY <1>2, AlikeFamilies, PreservesGood DEF RoomIn
<1>4. CASE r = FinishIdleWorkIfPossible(s)
  BY <1>2, <1>3, <1>4, FinishIdleKept, PreservesHeld DEF Good
<1> QED
  BY <1>1, <1>4

FileDone(t) ==
    [t EXCEPT !.sv = [@ EXCEPT !.retranscriptionWorker = null, !.inferenceAlive = FALSE,
                               !.inferenceAccepting = FALSE, !.currentState = "none"]]

LEMMA FileDoneEffect ==
    ASSUME NEW t, Shape(t), NEW r, r = FileDone(t)
    PROVE  Shape(r) /\ Alike(t, r)
<1>1. Shape(r)
  BY DEF Shape, Numbers, FileDone, ServiceFields, InitService, Workers
<1> QED
  BY <1>1 DEF Shape, FileDone, ServiceFields, InitService, Alike,
     SameThreads, SameWorkers, SameNumbers, SameSession

LEMMA OnRetranscriptionHeld ==
    ASSUME NEW t, Shape(t), RoomIn(t), NEW r, r = OnRetranscriptionComplete(t)
    PROVE  Good(t, r)
<1> DEFINE d == FileDone(t)
<1>1. r = t \/ r = StartRecordingInternalAsync(d) \/ r = StartNextRetranscriptionOrStop(d)
  BY DEF OnRetranscriptionComplete, FileDone
<1>2. Shape(d) /\ Alike(t, d)
  BY FileDoneEffect
<1> HIDE DEF d
<1>3. Good(t, d) /\ FreeFl(d)
  BY <1>2, AlikeGood, AlikeFamilies DEF Alike, RoomIn
<1>4. CASE r = StartRecordingInternalAsync(d)
  BY <1>3, <1>4, AsyncEffect, AlikeGood DEF Good
<1>5. CASE r = StartNextRetranscriptionOrStop(d)
  BY <1>3, <1>5, StartNextKept, PreservesGood DEF Good
<1> QED
  BY <1>1, <1>4, <1>5, SelfGood

(* The target of Publish. *)
Published(t, w, backlog, error, st) ==
    LET n == t.wh[w].sequence
    IN  [OnTranscriptionEvent(t, w, n, error) EXCEPT
            !.wh[w] = [@ EXCEPT !.sequence = n + 1, !.st = st, !.backlog = backlog],
            !.gh = [t.gh EXCEPT !.published = @ \cup {Result(t.wh[w].session, n, w, error)},
                                !.inferenceStopped = @ \/ error]]

LEMMA OnTranscriptionEffect ==
    ASSUME NEW t, Shape(t), NEW w \in Ids, NEW error \in BOOLEAN, NEW r,
           r = OnTranscriptionEvent(t, w, t.wh[w].sequence, error)
    PROVE  /\ Shape(r) /\ r.rec = t.rec /\ r.js = t.js /\ r.fl = t.fl /\ r.gh = t.gh
           /\ SameWorkers(t, r) /\ SameSession(t, r) /\ r.sv.lastTime = t.sv.lastTime
           /\ r.sv.inferenceSessionId = t.sv.inferenceSessionId
           /\ r.sv.nextInferenceSequence >= t.sv.nextInferenceSequence
           /\ ~t.sv.destroyed /\ t.wh[w].session = t.sv.inferenceSessionId
              => r.sv.nextInferenceSequence >= t.wh[w].sequence + 1
           /\ \A i \in Ids : /\ r.wh[i].st = t.wh[i].st
                             /\ r.wh[i].session = t.wh[i].session
                             /\ r.wh[i].sequence = t.wh[i].sequence
<1> DEFINE n == t.wh[w].sequence
           next == IF t.sv.nextInferenceSequence < n + 1 THEN n + 1
                   ELSE t.sv.nextInferenceSequence
           hand == IF error THEN "error" ELSE "text"
<1>1. n \in Nat /\ t.sv.nextInferenceSequence \in Nat
  BY DEF Shape, Numbers, Whisper
<1>2. CASE t.sv.destroyed \/ t.wh[w].session # t.sv.inferenceSessionId
  BY <1>1, <1>2 DEF OnTranscriptionEvent, SameWorkers, SameSession
<1>3. CASE ~(t.sv.destroyed \/ t.wh[w].session # t.sv.inferenceSessionId)
  <2>1. r = [t EXCEPT !.sv.nextInferenceSequence = next, !.wh[w].hand = hand]
    BY <1>3 DEF OnTranscriptionEvent
  <2>2. next \in Nat /\ next >= n + 1 /\ next >= t.sv.nextInferenceSequence
    BY <1>1
  <2>3. hand \in {"none", "text", "error"}
    OBVIOUS
  <2> HIDE DEF n, next, hand
  <2>4. /\ r.rec = t.rec /\ r.js = t.js /\ r.fl = t.fl /\ r.gh = t.gh /\ DOMAIN r = DOMAIN t
        /\ r.wh = [t.wh EXCEPT ![w].hand = hand]
        /\ r.sv = [t.sv EXCEPT !.nextInferenceSequence = next]
    BY <2>1 DEF Shape
  <2>5. r.wh \in [Ids -> Whisper]
    BY <2>3, <2>4 DEF Shape, Whisper
  <2>6. SameWorkers(t, r) /\ SameSession(t, r) /\ r.sv.lastTime = t.sv.lastTime
        /\ r.sv.inferenceSessionId = t.sv.inferenceSessionId
        /\ r.sv.retranscriptionWorker = t.sv.retranscriptionWorker
        /\ r.sv.nextInferenceSequence = next
    BY <2>4 DEF Shape, ServiceFields, InitService, SameWorkers, SameSession
  <2>7. Numbers(r.sv) /\ DOMAIN r.sv = ServiceFields
    BY <2>2, <2>4 DEF Shape, Numbers, ServiceFields, InitService
  <2>8. Shape(r)
    BY <2>4, <2>5, <2>6, <2>7 DEF Shape, SameWorkers
  <2>9. \A i \in Ids : /\ r.wh[i].st = t.wh[i].st
                       /\ r.wh[i].session = t.wh[i].session
                       /\ r.wh[i].sequence = t.wh[i].sequence
    BY <2>4 DEF Shape, Whisper
  <2> QED
    BY <2>2, <2>4, <2>6, <2>8, <2>9 DEF n
<1> QED
  BY <1>2, <1>3

ActiveStates == {"accepting", "draining", "terminating", "failed", "finished"}

LEMMA PublishedHeld ==
    ASSUME NEW t, Shape(t), NEW w \in Ids, WhActive(t, w), NEW backlog \in 0..MaxBacklog,
           NEW error \in BOOLEAN, NEW st \in ActiveStates, NEW r,
           r = Published(t, w, backlog, error, st)
    PROVE  Good(t, r)
<1> DEFINE n == t.wh[w].sequence
           u == OnTranscriptionEvent(t, w, n, error)
           p == Result(t.wh[w].session, n, w, error)
<1>1. n \in Nat
  BY DEF Shape, Whisper
<1>2. /\ Shape(u) /\ u.rec = t.rec /\ u.js = t.js /\ u.fl = t.fl /\ u.gh = t.gh
      /\ SameWorkers(t, u) /\ SameSession(t, u) /\ u.sv.lastTime = t.sv.lastTime
      /\ u.sv.inferenceSessionId = t.sv.inferenceSessionId
      /\ u.sv.nextInferenceSequence >= t.sv.nextInferenceSequence
      /\ ~t.sv.destroyed /\ t.wh[w].session = t.sv.inferenceSessionId
         => u.sv.nextInferenceSequence >= n + 1
      /\ \A i \in Ids : /\ u.wh[i].st = t.wh[i].st /\ u.wh[i].session = t.wh[i].session
                        /\ u.wh[i].sequence = t.wh[i].sequence
  BY OnTranscriptionEffect
<1>3. p.session = t.wh[w].session /\ p.sequence = n
  BY DEF Result
<1> DEFINE threads == [u.wh EXCEPT ![w] = [@ EXCEPT !.sequence = n + 1, !.st = st,
                                                   !.backlog = backlog]]
           history == [t.gh EXCEPT !.published = @ \cup {p},
                                   !.inferenceStopped = @ \/ error]
<1>4. r = [u EXCEPT !.wh = threads, !.gh = history]
  BY DEF Published
<1> HIDE DEF n, u, p
<1>5. DOMAIN history = HistoryFields /\ history.published = t.gh.published \cup {p}
  BY <1>2 DEF Shape, HistoryFields
<1>6. threads \in [Ids -> Whisper]
  <2>1. u.wh \in [Ids -> Whisper] /\ n + 1 \in Nat /\ st \in WhisperStates
    BY <1>1, <1>2 DEF Shape, WhisperStates, ActiveStates
  <2> QED
    BY <2>1 DEF Whisper
<1>7. /\ \A i \in Ids : threads[i].st = IF i = w THEN st ELSE t.wh[i].st
      /\ \A i \in Ids : threads[i].session = t.wh[i].session
      /\ threads[w].sequence = n + 1
  BY <1>2 DEF Shape, Whisper
<1> HIDE DEF threads, history
<1>8. /\ r.sv = u.sv /\ r.rec = u.rec /\ r.js = u.js /\ r.fl = u.fl /\ DOMAIN r = DOMAIN u
      /\ r.wh = threads /\ r.gh = history
  BY <1>2, <1>4 DEF Shape
<1>9. Shape(r)
  BY <1>2, <1>5, <1>6, <1>8 DEF Shape
<1>10. \A i \in Ids : WhActive(r, i) => WhActive(t, i)
  BY <1>7, <1>8 DEF WhActive
<1>11. Reached(t) => Reached(r)
  BY <1>2, <1>8, <1>10 DEF SameWorkers, Reached, RecActive, JsActive
<1>12. ASSUME Held(t), ~r.sv.destroyed
       PROVE  Counted(r) /\ Dated(r) /\ WorkersCount(r) /\ SessionsCount(r)
  <2>1. ~t.sv.destroyed /\ Counted(t) /\ Dated(t) /\ WorkersCount(t) /\ SessionsCount(t)
    BY <1>2, <1>8, <1>12 DEF Held, Numbered, SameSession
  <2>2. p.session = t.sv.inferenceSessionId /\ Beyond(t, t.sv.inferenceSessionId, n)
    BY <1>3, <2>1 DEF WorkersCount, n
  <2>3. /\ t.sv.inferenceSessionId \in 0..t.sv.lastTime
        /\ u.sv.nextInferenceSequence \in Nat /\ t.sv.nextInferenceSequence \in Nat
    BY <1>2, <2>1 DEF Dated, Shape, Numbers
  <2>4. u.sv.nextInferenceSequence >= n + 1
    BY <1>2, <1>3, <2>1, <2>2
  <2>5. \A q \in t.gh.published : q.sequence \in Nat
    BY <2>1 DEF Counted
  <2>6. Counted(r)
    <3>1. \A q \in t.gh.published : ~(q.session = p.session /\ q.sequence = p.sequence)
      BY <1>1, <1>3, <2>2, <2>5 DEF Beyond
    <3> QED
      BY <1>1, <1>2, <1>3, <1>5, <1>8, <2>1, <2>2, <2>3, <3>1 DEF Counted
  <2>7. Dated(r)
    BY <1>2, <1>8, <2>1 DEF Dated, SameSession
  <2>8. WorkersCount(r)
    <3> SUFFICES ASSUME NEW i \in Ids, WhActive(r, i)
                 PROVE  /\ r.wh[i].session = r.sv.inferenceSessionId
                        /\ Beyond(r, r.sv.inferenceSessionId, r.wh[i].sequence)
      BY DEF WorkersCount
    <3>1. i = w
      BY <1>10, <1>12 DEF Held, Reached
    <3>2. r.wh[i].session = r.sv.inferenceSessionId
      BY <1>2, <1>3, <1>7, <1>8, <2>2, <3>1
    <3>3. Beyond(r, r.sv.inferenceSessionId, n + 1)
      BY <1>1, <1>2, <1>3, <1>5, <1>8, <2>2, <2>5 DEF Beyond
    <3> QED
      BY <1>7, <1>8, <3>1, <3>2, <3>3
  <2>9. ASSUME NEW session, Beyond(t, session, t.sv.nextInferenceSequence)
        PROVE  Beyond(r, session, r.sv.nextInferenceSequence)
    BY <1>1, <1>2, <1>3, <1>5, <1>8, <2>3, <2>4, <2>5, <2>9 DEF Beyond
  <2>10. SessionsCount(r)
    BY <1>2, <1>8, <2>1, <2>9 DEF SessionsCount, SameSession
  <2> QED
    BY <2>6, <2>7, <2>8, <2>10
<1> QED
  BY <1>9, <1>11, <1>12 DEF Good, Held, Numbered

LEMMA PassResultOnHeld ==
    ASSUME NEW t, Shape(t), NEW w \in Ids, NEW r, r = PassResultOn(t, w)
    PROVE  Good(t, r)
<1>1. /\ r.rec = t.rec /\ r.js = t.js /\ r.fl = t.fl /\ DOMAIN r = DOMAIN t
      /\ r.wh = [t.wh EXCEPT ![w].hand = "none"]
      /\ DOMAIN r.gh = HistoryFields /\ r.gh.published = t.gh.published
  BY DEF PassResultOn, Shape, HistoryFields
<1>2. r.wh \in [Ids -> Whisper]
  BY <1>1 DEF Shape, Whisper
<1>3. /\ SameNumbers(t, r) /\ SameSession(t, r) /\ SameWorkers(t, r)
      /\ r.sv.retranscriptionWorker = t.sv.retranscriptionWorker
  BY <1>1 DEF PassResultOn, Shape, ServiceFields, InitService, SameNumbers, SameSession,
     SameWorkers
<1>4. Numbers(r.sv) /\ DOMAIN r.sv = ServiceFields
  BY DEF PassResultOn, Shape, Numbers, ServiceFields, InitService
<1>5. Shape(r)
  BY <1>1, <1>2, <1>3, <1>4 DEF Shape, SameWorkers
<1>6. \A i \in Ids : /\ r.wh[i].st = t.wh[i].st /\ r.wh[i].session = t.wh[i].session
                     /\ r.wh[i].sequence = t.wh[i].sequence
  BY <1>1 DEF Shape, Whisper
<1>7. Reached(t) => Keeps(t, r)
  BY <1>1, <1>3, <1>6 DEF Keeps, SameSession, SameWorkers, FewerSessions, FewerWorkers,
     Reached, RecActive, WhActive, JsActive
<1> QED
  BY <1>5, <1>7, PreservesGood DEF Preserves

Destroyed(t, f) ==
    [t EXCEPT !.sv = [@ EXCEPT !.destroyed = TRUE, !.retranscriptionWorker = null,
                               !.retranscriptionQueue = 0, !.sessionActive = FALSE,
                               !.recording = FALSE, !.inferenceAlive = FALSE,
                               !.inferenceAccepting = FALSE, !.currentState = "none"],
              !.fl = [i \in Ids |-> IF i = f /\ @[i] = "live" THEN "stopping" ELSE @[i]]]

LEMMA DestroyedEffect ==
    ASSUME NEW t, Shape(t), NEW f, NEW r, r = Destroyed(t, f)
    PROVE  Preserves(t, r)
<1>1. /\ r.rec = t.rec /\ r.wh = t.wh /\ r.js = t.js /\ r.gh = t.gh /\ DOMAIN r = DOMAIN t
      /\ r.fl = [i \in Ids |-> IF i = f /\ t.fl[i] = "live" THEN "stopping" ELSE t.fl[i]]
  BY DEF Destroyed, Shape
<1>2. r.fl \in [Ids -> RecorderStates]
  BY <1>1 DEF Shape, RecorderStates
<1>3. SameNumbers(t, r) /\ SameWorkers(t, r)
  BY <1>1 DEF Destroyed, Shape, ServiceFields, InitService, SameNumbers, SameWorkers
<1>4. /\ r.sv.destroyed /\ ~r.sv.sessionActive /\ r.sv.retranscriptionWorker = null
      /\ r.sv.recordingSessionId = t.sv.recordingSessionId
      /\ r.sv.pendingRecordingTimeData = t.sv.pendingRecordingTimeData
  BY DEF Destroyed, Shape, ServiceFields, InitService
<1>5. Numbers(r.sv) /\ DOMAIN r.sv = ServiceFields
  BY DEF Destroyed, Shape, Numbers, ServiceFields, InitService
<1>6. Shape(r)
  BY <1>1, <1>2, <1>3, <1>4, <1>5 DEF Shape, SameWorkers, Workers
<1>7. Reached(t) => Keeps(t, r)
  BY <1>1, <1>3, <1>4 DEF Keeps, SameWorkers, FewerSessions, FewerWorkers, Reached,
     RecActive, WhActive, JsActive
<1> QED
  BY <1>6, <1>7 DEF Preserves

LEMMA OnDestroyedHeld ==
    ASSUME NEW t, Shape(t), NEW o, NEW r, r = OnDestroyed(t, o)
    PROVE  Good(t, r)
<1> DEFINE a == CloseAudioFile(t, FALSE, o)
           c == ReleaseMediaProjection(a)
<1>1. r = Destroyed(c, t.sv.retranscriptionWorker)
  BY DEF OnDestroyed, Destroyed
<1>2. Shape(a) /\ Alike(t, a)
  BY CloseAudioFileEffect
<1> HIDE DEF a
<1>3. Shape(c) /\ Alike(a, c)
  BY <1>2, ReleaseEffect
<1> HIDE DEF c
<1>4. Good(t, c)
  BY <1>2, <1>3, AlikeTransitive, AlikeGood
<1> QED
  BY <1>1, <1>3, <1>4, DestroyedEffect, PreservesHeld DEF Good

(* A worker that has delivered its stop event. *)
RecGone(t, i) == [t EXCEPT !.rec[i].st = "gone"]
WhGone(t, i) == [t EXCEPT !.wh[i].st = "gone"]
JsGone(t, i) == [t EXCEPT !.js[i].st = "gone"]
FlGone(t, i) == [t EXCEPT !.fl[i] = "gone"]

LEMMA RecGoneEffect ==
    ASSUME NEW t, Shape(t), NEW i \in Ids, NEW r, r = RecGone(t, i)
    PROVE  Preserves(t, r) /\ (Alone(t) /\ t.rec[i].st = "exited" => NoRec(r))
<1>1. /\ r.sv = t.sv /\ r.gh = t.gh /\ r.wh = t.wh /\ r.js = t.js /\ r.fl = t.fl
      /\ DOMAIN r = DOMAIN t /\ r.rec = [t.rec EXCEPT ![i].st = "gone"]
  BY DEF Shape, RecGone
<1>2. r.rec \in [Ids -> Recorder]
  BY <1>1 DEF Shape, Recorder, RecorderStates
<1>3. Shape(r)
  BY <1>1, <1>2 DEF Shape
<1>4. r.rec[i].st = "gone" /\ \A k \in Ids \ {i} : r.rec[k].st = t.rec[k].st
  BY <1>1 DEF Shape, Recorder
<1>5. Reached(t) => Keeps(t, r)
  BY <1>1, <1>4 DEF Keeps, SameNumbers, FewerSessions, FewerWorkers, Reached, RecActive,
     WhActive, JsActive
<1>6. Alone(t) /\ t.rec[i].st = "exited" => NoRec(r)
  BY <1>4 DEF Alone, Succeeded, NoRec, RecActive
<1> QED
  BY <1>3, <1>5, <1>6 DEF Preserves

LEMMA WhGoneEffect ==
    ASSUME NEW t, Shape(t), NEW i \in Ids, NEW r, r = WhGone(t, i)
    PROVE  Preserves(t, r) /\ (Alone(t) /\ t.wh[i].st = "exited" => NoWh(r))
<1>1. /\ r.sv = t.sv /\ r.gh = t.gh /\ r.rec = t.rec /\ r.js = t.js /\ r.fl = t.fl
      /\ DOMAIN r = DOMAIN t /\ r.wh = [t.wh EXCEPT ![i].st = "gone"]
  BY DEF Shape, WhGone
<1>2. r.wh \in [Ids -> Whisper]
  BY <1>1 DEF Shape, Whisper, WhisperStates
<1>3. Shape(r)
  BY <1>1, <1>2 DEF Shape
<1>4. /\ r.wh[i].st = "gone" /\ \A k \in Ids \ {i} : r.wh[k].st = t.wh[k].st
      /\ \A k \in Ids : /\ r.wh[k].session = t.wh[k].session
                        /\ r.wh[k].sequence = t.wh[k].sequence
  BY <1>1 DEF Shape, Whisper
<1>5. \A k \in Ids : WhActive(r, k) => WhActive(t, k)
  BY <1>4 DEF WhActive
<1>6. Reached(t) => Keeps(t, r)
  BY <1>1, <1>4, <1>5 DEF Keeps, SameNumbers, FewerSessions, FewerWorkers, Reached, RecActive,
     JsActive
<1>7. Alone(t) /\ t.wh[i].st = "exited" => NoWh(r)
  BY <1>4 DEF Alone, Succeeded, NoWh, WhActive
<1> QED
  BY <1>3, <1>6, <1>7 DEF Preserves

LEMMA JsGoneEffect ==
    ASSUME NEW t, Shape(t), NEW i \in Ids, NEW r, r = JsGone(t, i)
    PROVE  Preserves(t, r) /\ (Alone(t) /\ t.js[i].st = "exited" => NoJson(r))
<1>1. /\ r.sv = t.sv /\ r.gh = t.gh /\ r.wh = t.wh /\ r.rec = t.rec /\ r.fl = t.fl
      /\ DOMAIN r = DOMAIN t /\ r.js = [t.js EXCEPT ![i].st = "gone"]
  BY DEF Shape, JsGone
<1>2. r.js \in [Ids -> Json]
  BY <1>1 DEF Shape, Json, RecorderStates
<1>3. Shape(r)
  BY <1>1, <1>2 DEF Shape
<1>4. r.js[i].st = "gone" /\ \A k \in Ids \ {i} : r.js[k].st = t.js[k].st
  BY <1>1 DEF Shape, Json
<1>5. Reached(t) => Keeps(t, r)
  BY <1>1, <1>4 DEF Keeps, SameNumbers, FewerSessions, FewerWorkers, Reached, RecActive,
     WhActive, JsActive
<1>6. Alone(t) /\ t.js[i].st = "exited" => NoJson(r)
  BY <1>4 DEF Alone, Succeeded, NoJson, JsActive
<1> QED
  BY <1>3, <1>5, <1>6 DEF Preserves

LEMMA FlGoneEffect ==
    ASSUME NEW t, Shape(t), NEW i \in Ids, NEW r, r = FlGone(t, i)
    PROVE  Preserves(t, r)
<1>1. /\ r.sv = t.sv /\ r.gh = t.gh /\ r.wh = t.wh /\ r.rec = t.rec /\ r.js = t.js
      /\ DOMAIN r = DOMAIN t /\ r.fl = [t.fl EXCEPT ![i] = "gone"]
  BY DEF Shape, FlGone
<1>2. Shape(r)
  BY <1>1 DEF Shape, RecorderStates
<1>3. Reached(t) => Keeps(t, r)
  BY <1>1 DEF Keeps, SameNumbers, FewerSessions, FewerWorkers, Reached, RecActive,
     WhActive, JsActive
<1> QED
  BY <1>2, <1>3 DEF Preserves

-----------------------------------------------------------------------------
(* The actions. *)

LEMMA SameFields ==
    ASSUME NEW t, NEW r, DOMAIN r = {"sv", "rec", "wh", "js", "fl", "gh"},
           r.sv = t.sv, r.rec = t.rec, r.wh = t.wh, r.js = t.js, r.fl = t.fl, r.gh = t.gh
    PROVE  (Shape(t) => Shape(r)) /\ (Held(t) => Held(r)) /\ (Alone(t) <=> Alone(r))
<1>1. Shape(t) => Shape(r)
  BY DEF Shape
<1>2. Reached(t) => Reached(r)
  BY DEF Reached, RecActive, WhActive, JsActive
<1>3. Numbered(t) => Numbered(r)
  BY DEF Numbered, Counted, Dated, WorkersCount, SessionsCount, Beyond, WhActive
<1>4. Alone(t) <=> Alone(r)
  BY DEF Alone
<1> QED
  BY <1>1, <1>2, <1>3, <1>4 DEF Held

LEMMA StateFields ==
    /\ DOMAIN State = {"sv", "rec", "wh", "js", "fl", "gh"}
    /\ State.sv = sv /\ State.rec = rec /\ State.wh = wh /\ State.js = js
    /\ State.fl = fl /\ State.gh = gh
BY DEF State

LEMMA StateFieldsNext ==
    /\ DOMAIN State' = {"sv", "rec", "wh", "js", "fl", "gh"}
    /\ State'.sv = sv' /\ State'.rec = rec' /\ State'.wh = wh' /\ State'.js = js'
    /\ State'.fl = fl' /\ State'.gh = gh'
BY DEF State

(* What every action keeps. *)
Intact == overtaken \/ (Held(State) /\ Alone(State))
After == Shape(State') /\ (Intact => Intact')

LEMMA BecomeRoom ==
    ASSUME NEW t, Become(t)
    PROVE  RoomIn(State)
BY StateFields DEF Become, Room, RoomIn, FreeRec, FreeWh, FreeJs, FreeFl

LEMMA BecomeAfter ==
    ASSUME NEW t, Become(t), Shape(t), Held(State) /\ Alone(State) => Held(t)
    PROVE  After
<1>1. /\ State'.sv = t.sv /\ State'.rec = t.rec /\ State'.wh = t.wh /\ State'.js = t.js
      /\ State'.fl = t.fl /\ State'.gh = t.gh
      /\ DOMAIN State' = {"sv", "rec", "wh", "js", "fl", "gh"}
      /\ overtaken' = \/ overtaken \/ Succeeded(t.rec) \/ Succeeded(t.wh) \/ Succeeded(t.js)
  BY StateFieldsNext DEF Become
<1>2. Shape(State') /\ (Held(t) => Held(State')) /\ (Alone(t) <=> Alone(State'))
  BY <1>1, SameFields
<1>3. (overtaken => overtaken') /\ (overtaken' \/ Alone(t))
  BY <1>1 DEF Alone
<1> QED
  BY <1>2, <1>3 DEF After, Intact

LEMMA BecomeGood ==
    ASSUME NEW t, Become(t), Good(State, t)
    PROVE  After
BY BecomeAfter DEF Good

LEMMA StartStep ==
    ASSUME Shape(State), Start
    PROVE  After
<1>1. PICK source \in AudioSources : Become(StartNoted(StartCommand(State, source)))
  BY DEF Start, StartNoted
<1> DEFINE c == StartCommand(State, source)
<1>2. Good(State, c)
  BY StartCommandHeld
<1>3. Become(StartNoted(c))
  BY <1>1
<1> HIDE DEF c
<1>4. Good(State, StartNoted(c))
  BY <1>2, NotedGood DEF Good
<1> QED
  BY <1>3, <1>4, BecomeGood

LEMMA StopStep ==
    ASSUME Shape(State), Stop
    PROVE  After
<1>1. PICK o \in Outcomes : Become(StopNoted(RequestStopRecording(State, o)))
  BY DEF Stop, StopNoted
<1> DEFINE c == RequestStopRecording(State, o)
<1>2. Good(State, c)
  BY <1>1, BecomeRoom, RequestStopRecordingHeld
<1>3. Become(StopNoted(c))
  BY <1>1
<1> HIDE DEF c
<1>4. Good(State, StopNoted(c))
  BY <1>2, NotedGood DEF Good
<1> QED
  BY <1>3, <1>4, BecomeGood

LEMMA PauseStep ==
    ASSUME Shape(State), Pause
    PROVE  After
<1>1. PICK o \in Outcomes : Become(RequestPauseRecording(State, o))
  BY DEF Pause
<1> QED
  BY <1>1, BecomeRoom, RequestPauseRecordingHeld, BecomeGood

LEMMA ResumeStep ==
    ASSUME Shape(State), Resume
    PROVE  After
<1>1. PICK o \in Outcomes : Become(RequestResumeRecording(State, o))
  BY DEF Resume
<1> QED
  BY <1>1, BecomeRoom, RequestResumeRecordingHeld, BecomeGood

LEMMA StopInferenceStep ==
    ASSUME Shape(State), StopInference
    PROVE  After
<1> DEFINE c == RequestStopInference(State)
<1>1. Become(InferenceStopNoted(c))
  BY DEF StopInference, InferenceStopNoted
<1>2. Good(State, c)
  BY RequestStopInferenceHeld
<1> HIDE DEF c
<1>3. Good(State, InferenceStopNoted(c))
  BY <1>2, NotedGood DEF Good
<1> QED
  BY <1>1, <1>3, BecomeGood

LEMMA ResumeInferenceStep ==
    ASSUME Shape(State), ResumeInference
    PROVE  After
<1>1. Become(RequestResumeInference(State))
  BY DEF ResumeInference
<1> QED
  BY <1>1, BecomeRoom, RequestResumeInferenceHeld, BecomeGood

LEMMA FileCommandStep ==
    ASSUME Shape(State), TranscribeFile \/ StopFile
    PROVE  After
<1>1. CASE TranscribeFile
  <2>1. Become(EnqueueSelectedFile(State))
    BY <1>1 DEF TranscribeFile
  <2> QED
    BY <2>1, BecomeRoom, EnqueueHeld, BecomeGood
<1>2. CASE StopFile
  <2>1. Become(RequestStopFileTranscription(State))
    BY <1>2 DEF StopFile
  <2> QED
    BY <2>1, RequestStopFileHeld, BecomeGood
<1> QED
  BY <1>1, <1>2

LEMMA ProjectionStoppedStep ==
    ASSUME Shape(State), ProjectionStopped
    PROVE  After
<1>1. PICK o \in Outcomes : Become(RequestStopRecording(State, o))
  BY DEF ProjectionStopped
<1> QED
  BY <1>1, BecomeRoom, RequestStopRecordingHeld, BecomeGood

LEMMA StartThreadStep ==
    ASSUME Shape(State), StartThread
    PROVE  After
<1> DEFINE c == ThreadTaken(State)
<1>1. PICK o \in Outcomes : Become(StartRecordingInternal(c, o))
  BY DEF StartThread, ThreadTaken
<1>2. State.sv.startThreads > 0
  BY StateFields DEF StartThread
<1>3. Shape(c) /\ Alike(State, c)
  BY <1>2, ThreadTakenEffect
<1> HIDE DEF c
<1>4. RoomIn(c) /\ Good(State, c)
  BY <1>1, <1>3, BecomeRoom, AlikeFamilies, AlikeGood DEF Alike
<1>5. Good(State, StartRecordingInternal(c, o))
  BY <1>3, <1>4, StartInternalHeld DEF Good
<1> QED
  BY <1>1, <1>5, BecomeGood

LEMMA OnDestroyStep ==
    ASSUME Shape(State), OnDestroy
    PROVE  After
<1>1. PICK o \in Outcomes : Become(OnDestroyed(State, o))
  BY DEF OnDestroy
<1> QED
  BY <1>1, OnDestroyedHeld, BecomeGood

(* A recorder thread takes the next step with a chunk. *)
Handed(t, i, h) == [t EXCEPT !.rec[i].hand = h]

LEMMA HandedEffect ==
    ASSUME NEW t, Shape(t), NEW i \in Ids, NEW h \in {"none", "counted", "written"}, NEW r,
           r = Handed(t, i, h)
    PROVE  /\ Preserves(t, r) /\ (Alone(t) => Alone(r))
           /\ r.sv = t.sv /\ r.wh = t.wh /\ r.js = t.js /\ r.fl = t.fl /\ r.gh = t.gh
<1>1. /\ r.sv = t.sv /\ r.gh = t.gh /\ r.wh = t.wh /\ r.js = t.js /\ r.fl = t.fl
      /\ DOMAIN r = DOMAIN t /\ r.rec = [t.rec EXCEPT ![i].hand = h]
  BY DEF Shape, Handed
<1>2. r.rec \in [Ids -> Recorder]
  BY <1>1 DEF Shape, Recorder
<1>3. Shape(r)
  BY <1>1, <1>2 DEF Shape
<1>4. \A k \in Ids : r.rec[k].st = t.rec[k].st
  BY <1>1 DEF Shape, Recorder
<1>5. Reached(t) => Keeps(t, r)
  BY <1>1, <1>4 DEF Keeps, SameNumbers, FewerSessions, FewerWorkers, Reached, RecActive,
     WhActive, JsActive
<1>6. Alone(t) => Alone(r)
  BY <1>1, <1>4 DEF Alone, Succeeded
<1> QED
  BY <1>1, <1>3, <1>5, <1>6 DEF Preserves

SamplesCounted(t) == [t EXCEPT !.sv.sessionRecordedSamples = @ + 1]

LEMMA SamplesCountedEffect ==
    ASSUME NEW t, Shape(t), NEW r, r = SamplesCounted(t)
    PROVE  /\ Shape(r) /\ Alike(t, r) /\ r.gh = t.gh
           /\ r.sv = [t.sv EXCEPT !.sessionRecordedSamples = @ + 1]
<1>1. Shape(r)
  BY DEF Shape, Numbers, SamplesCounted, ServiceFields, InitService
<1> QED
  BY <1>1 DEF Shape, SamplesCounted, ServiceFields, InitService, Alike,
     SameThreads, SameWorkers, SameNumbers, SameSession

LEMMA CountChunkStep ==
    ASSUME Shape(State), NEW i \in Ids, CountChunk(i)
    PROVE  After
<1> DEFINE c == SamplesCounted(State)
           r == Handed(c, i, "counted")
<1>1. /\ Shape(c) /\ Alike(State, c) /\ c.gh = State.gh
      /\ c.sv = [State.sv EXCEPT !.sessionRecordedSamples = @ + 1]
  BY SamplesCountedEffect
<1> HIDE DEF c
<1>2. /\ Preserves(c, r) /\ (Alone(c) => Alone(r))
      /\ r.sv = c.sv /\ r.wh = c.wh /\ r.js = c.js /\ r.fl = c.fl /\ r.gh = c.gh
      /\ r.rec = [c.rec EXCEPT ![i].hand = "counted"]
  <2>1. Preserves(c, r) /\ (Alone(c) => Alone(r))
    BY <1>1, HandedEffect
  <2>2. /\ r.sv = c.sv /\ r.wh = c.wh /\ r.js = c.js /\ r.fl = c.fl /\ r.gh = c.gh
        /\ r.rec = [c.rec EXCEPT ![i].hand = "counted"]
    BY <1>1 DEF Handed, Shape
  <2> QED
    BY <2>1, <2>2
<1> HIDE DEF r
<1>3. /\ State'.sv = r.sv /\ State'.rec = r.rec /\ State'.wh = r.wh /\ State'.js = r.js
      /\ State'.fl = r.fl /\ State'.gh = r.gh /\ overtaken' = overtaken
  BY <1>1, <1>2, StateFields, StateFieldsNext DEF CountChunk, Alike, SameThreads
<1>4. Good(State, c) /\ Good(c, r) /\ (Alone(State) => Alone(c))
  BY <1>1, <1>2, AlikeGood, PreservesGood DEF Alike, SameThreads, Alone
<1>5. Shape(State') /\ (Held(r) => Held(State')) /\ (Alone(r) => Alone(State'))
  BY <1>3, <1>4, SameFields, StateFieldsNext DEF Good
<1> QED
  BY <1>2, <1>3, <1>4, <1>5 DEF Good, After, Intact

Written(t) == [t EXCEPT !.sv.wavEmpty = FALSE, !.gh.wavWritten = TRUE]

LEMMA WrittenEffect ==
    ASSUME NEW t, Shape(t), NEW r, r = Written(t)
    PROVE  Shape(r) /\ Alike(t, r)
<1>1. Shape(r)
  BY DEF Shape, Numbers, Written, ServiceFields, InitService, HistoryFields
<1> QED
  BY <1>1 DEF Shape, Written, ServiceFields, InitService, HistoryFields, Alike,
     SameThreads, SameWorkers, SameNumbers, SameSession

LEMMA WriteChunkStep ==
    ASSUME Shape(State), NEW i \in Ids, WriteChunk(i)
    PROVE  After
<1>1. PICK a, o : /\ \/ a = State \/ a = Written(State)
                     \/ a = CloseAudioFile(WavFailed(State), FALSE, o)
                  /\ Become(Handed(a, i, "written"))
  <2>1. PICK written \in IF "wav" \in Faults THEN BOOLEAN ELSE {TRUE}, o \in Outcomes :
          Become([IF sv.audioFileWriter = null THEN State
                  ELSE IF ~written
                  THEN CloseAudioFile([State EXCEPT !.gh.wavFailed = TRUE], FALSE, o)
                  ELSE [State EXCEPT !.sv.wavEmpty = FALSE, !.gh.wavWritten = TRUE]
                  EXCEPT !.rec[i].hand = "written"])
    BY DEF WriteChunk
  <2> DEFINE a == IF sv.audioFileWriter = null THEN State
                  ELSE IF ~written
                  THEN CloseAudioFile([State EXCEPT !.gh.wavFailed = TRUE], FALSE, o)
                  ELSE [State EXCEPT !.sv.wavEmpty = FALSE, !.gh.wavWritten = TRUE]
  <2>2. Become(Handed(a, i, "written"))
    BY <2>1 DEF Handed
  <2>3. \/ a = State \/ a = Written(State) \/ a = CloseAudioFile(WavFailed(State), FALSE, o)
    BY DEF Written, WavFailed
  <2> HIDE DEF a
  <2> QED
    BY <2>2, <2>3
<1> DEFINE r == Handed(a, i, "written")
<1>2. CASE a = State
  BY <1>1, <1>2, HandedEffect, PreservesGood, BecomeGood
<1>3. ASSUME Shape(a), Alike(State, a) PROVE After
  <2>1. Good(State, a) /\ Preserves(a, r)
    BY <1>3, AlikeGood, HandedEffect
  <2>2. Become(r)
    BY <1>1
  <2> HIDE DEF r
  <2>3. Good(State, r)
    BY <2>1, PreservesGood DEF Good
  <2> QED
    BY <2>2, <2>3, BecomeGood
<1>4. CASE a = Written(State)
  BY <1>3, <1>4, WrittenEffect
<1>5. CASE a = CloseAudioFile(WavFailed(State), FALSE, o)
  <2> DEFINE f == WavFailed(State)
  <2>1. Shape(f) /\ Alike(State, f)
    BY WavFailedEffect
  <2>2. a = CloseAudioFile(f, FALSE, o)
    BY <1>5
  <2> HIDE DEF f
  <2> QED
    BY <1>3, <2>1, <2>2, CloseAudioFileEffect, AlikeTransitive
<1> QED
  BY <1>1, <1>2, <1>4, <1>5

(* The queue of the inference workers after a chunk was submitted. *)
LEMMA BacklogEffect ==
    ASSUME NEW t, Shape(t), NEW queues \in [Ids -> Whisper],
           \A k \in Ids : /\ queues[k].st = t.wh[k].st
                          /\ queues[k].session = t.wh[k].session
                          /\ queues[k].sequence = t.wh[k].sequence,
           NEW r, r = [t EXCEPT !.wh = queues]
    PROVE  Preserves(t, r)
<1>1. /\ r.sv = t.sv /\ r.gh = t.gh /\ r.rec = t.rec /\ r.js = t.js /\ r.fl = t.fl
      /\ DOMAIN r = DOMAIN t /\ r.wh = queues
  BY DEF Shape
<1>2. Shape(r)
  BY <1>1 DEF Shape
<1>3. Reached(t) => Keeps(t, r)
  BY <1>1 DEF Keeps, SameNumbers, FewerSessions, FewerWorkers, Reached, RecActive,
     WhActive, JsActive
<1> QED
  BY <1>2, <1>3 DEF Preserves

LEMMA SubmitChunkStep ==
    ASSUME Shape(State), NEW i \in Ids, SubmitChunk(i)
    PROVE  After
<1> DEFINE w == sv.transcriptionWorker
           taken == w # null /\ sv.inferenceAccepting /\ wh[w].st = "accepting"
           queues == IF taken /\ wh[w].backlog < MaxBacklog
                     THEN [wh EXCEPT ![w].backlog = wh[w].backlog + 1] ELSE wh
           h == Handed(State, i, "none")
           r == [h EXCEPT !.wh = queues]
<1>1. Become(r)
  BY DEF SubmitChunk, Handed
<1>2. wh \in [Ids -> Whisper] /\ w \in Workers
  BY StateFields DEF Shape
<1>3. /\ queues \in [Ids -> Whisper]
      /\ \A k \in Ids : /\ queues[k].st = wh[k].st
                        /\ queues[k].session = wh[k].session
                        /\ queues[k].sequence = wh[k].sequence
  <2>1. CASE taken /\ wh[w].backlog < MaxBacklog
    <3> DEFINE n == wh[w].backlog + 1
    <3>1. w \in Ids
      BY <1>2, <2>1 DEF Workers
    <3>2. n \in 0..MaxBacklog
      BY <1>2, <2>1, <3>1, ConstantsAssumption DEF Whisper
    <3>3. queues = [wh EXCEPT ![w].backlog = n]
      BY <2>1
    <3> HIDE DEF n, w, queues
    <3> QED
      BY <1>2, <3>1, <3>2, <3>3 DEF Whisper
  <2>2. CASE ~(taken /\ wh[w].backlog < MaxBacklog)
    BY <1>2, <2>2
  <2> QED
    BY <2>1, <2>2
<1> HIDE DEF w, taken, queues
<1>4. Preserves(State, h) /\ h.wh = wh
  <2>1. "none" \in {"none", "counted", "written"}
    OBVIOUS
  <2>2. h = Handed(State, i, "none")
    OBVIOUS
  <2> HIDE DEF h
  <2>3. Preserves(State, h) /\ h.wh = State.wh
    BY <2>1, <2>2, HandedEffect
  <2> QED
    BY <2>3, StateFields
<1>5. Shape(h)
  BY <1>4 DEF Preserves
<1> HIDE DEF h
<1>6. Preserves(h, r)
  BY <1>3, <1>4, <1>5, BacklogEffect
<1> HIDE DEF r
<1>7. Good(State, r)
  BY <1>4, <1>6, PreservesTransitive, PreservesGood
<1> QED
  BY <1>1, <1>7, BecomeGood

(* The only worker of its family that has not ended does so.               *)
LEMMA ExitedAlone ==
    ASSUME NEW before, ~Succeeded(before), NEW after, NEW i \in Ids,
           before[i].st \notin {"unused", "exited", "gone"},
           \A k \in Ids \ {i} :
               after[k].st = before[k].st /\ before[k].st \in {"unused", "exited", "gone"}
    PROVE  ~Succeeded(after)
<1> SUFFICES ASSUME NEW x \in Ids, NEW y \in Ids, x # y, after[x].st = "exited",
                    after[y].st \notin {"unused", "gone"}
             PROVE  FALSE
  BY DEF Succeeded
<1>1. CASE x = i
  BY <1>1 DEF Succeeded
<1>2. CASE x # i
  BY <1>2 DEF Succeeded
<1> QED
  BY <1>1, <1>2

LEMMA RecorderExitStep ==
    ASSUME Shape(State), NEW i \in Ids, RecorderExit(i)
    PROVE  After
<1>1. /\ State'.sv = State.sv /\ State'.wh = State.wh /\ State'.js = State.js
      /\ State'.fl = State.fl /\ overtaken' = overtaken
      /\ State'.rec = [State.rec EXCEPT ![i].st = "exited"]
      /\ DOMAIN State'.gh = DOMAIN State.gh /\ State'.gh.published = State.gh.published
      /\ DOMAIN State' = DOMAIN State
  BY StateFields, StateFieldsNext DEF RecorderExit, Shape, HistoryFields
<1>2. RecActive(State, i)
  BY StateFields DEF RecorderExit, RecActive
<1>3. State'.rec \in [Ids -> Recorder]
  BY <1>1 DEF Shape, Recorder, RecorderStates
<1>4. Shape(State')
  BY <1>1, <1>3 DEF Shape
<1>5. /\ \A k \in Ids \ {i} : State'.rec[k].st = State.rec[k].st
      /\ State'.rec[i].st = "exited"
      /\ \A k \in Ids : State.rec[k].st \in RecorderStates
  BY <1>1 DEF Shape, Recorder
<1>6. Preserves(State, State')
  BY <1>1, <1>4, <1>5 DEF Preserves, Keeps, SameNumbers, FewerSessions, FewerWorkers, Reached,
     RecActive, WhActive, JsActive
<1>7. ASSUME Held(State), Alone(State) PROVE Alone(State')
  <2>1. \A k \in Ids \ {i} : ~RecActive(State, k)
    BY <1>2, <1>7 DEF Held, Reached
  <2>2. ~Succeeded(State'.rec)
    BY <1>2, <1>5, <1>7, <2>1, ExitedAlone DEF Alone, RecActive, RecorderStates
  <2> QED
    BY <1>1, <1>7, <2>2 DEF Alone
<1> QED
  BY <1>1, <1>4, <1>6, <1>7, PreservesHeld DEF After, Intact

LEMMA WhisperExitStep ==
    ASSUME Shape(State), NEW w \in Ids, WhisperExit(w)
    PROVE  After
<1> DEFINE st == IF wh[w].st = "draining" THEN "terminating" ELSE "exited"
<1>1. /\ State'.sv = State.sv /\ State'.rec = State.rec /\ State'.js = State.js
      /\ State'.fl = State.fl /\ overtaken' = overtaken /\ State'.gh = State.gh
      /\ State'.wh = [State.wh EXCEPT ![w].st = st]
      /\ DOMAIN State' = DOMAIN State
  BY StateFields, StateFieldsNext DEF WhisperExit
<1>2. WhActive(State, w)
  BY StateFields DEF WhisperExit, WhActive
<1>3. st \in WhisperStates
  BY DEF WhisperStates
<1> HIDE DEF st
<1>4. State'.wh \in [Ids -> Whisper]
  BY <1>1, <1>3 DEF Shape, Whisper
<1>5. Shape(State')
  BY <1>1, <1>4 DEF Shape
<1>6. /\ \A k \in Ids \ {w} : State'.wh[k].st = State.wh[k].st
      /\ \A k \in Ids : /\ State.wh[k].st \in WhisperStates
                        /\ State'.wh[k].session = State.wh[k].session
                        /\ State'.wh[k].sequence = State.wh[k].sequence
  BY <1>1 DEF Shape, Whisper
<1>7. \A k \in Ids : WhActive(State', k) => WhActive(State, k)
  BY <1>2, <1>6 DEF WhActive
<1>8. Preserves(State, State')
  BY <1>1, <1>5, <1>6, <1>7 DEF Preserves, Keeps, SameNumbers, FewerSessions, FewerWorkers,
     Reached, RecActive, JsActive
<1>9. ASSUME Held(State), Alone(State) PROVE Alone(State')
  <2>1. \A k \in Ids \ {w} : ~WhActive(State, k)
    BY <1>2, <1>9 DEF Held, Reached
  <2>2. \A k \in Ids \ {w} : /\ State'.wh[k].st = State.wh[k].st
                             /\ State.wh[k].st \in {"unused", "exited", "gone"}
    BY <1>6, <2>1 DEF WhActive, WhisperStates
  <2>3. State.wh[w].st \notin {"unused", "exited", "gone"}
    BY <1>2 DEF WhActive
  <2>4. ~Succeeded(State'.wh)
    BY <1>9, <2>2, <2>3, ExitedAlone DEF Alone
  <2> QED
    BY <1>1, <1>9, <2>4 DEF Alone
<1> QED
  BY <1>1, <1>5, <1>8, <1>9, PreservesHeld DEF After, Intact

LEMMA JsonExitStep ==
    ASSUME Shape(State), NEW j \in Ids, JsonExit(j)
    PROVE  After
<1>1. /\ State'.sv = State.sv /\ State'.wh = State.wh /\ State'.rec = State.rec
      /\ State'.fl = State.fl /\ overtaken' = overtaken
      /\ State'.js = [State.js EXCEPT ![j].st = "exited"]
      /\ DOMAIN State'.gh = DOMAIN State.gh /\ State'.gh.published = State.gh.published
      /\ DOMAIN State' = DOMAIN State
  BY StateFields, StateFieldsNext DEF JsonExit, Shape, HistoryFields
<1>2. JsActive(State, j)
  BY StateFields DEF JsonExit, JsActive
<1>3. State'.js \in [Ids -> Json]
  BY <1>1 DEF Shape, Json, RecorderStates
<1>4. Shape(State')
  BY <1>1, <1>3 DEF Shape
<1>5. /\ \A k \in Ids \ {j} : State'.js[k].st = State.js[k].st
      /\ State'.js[j].st = "exited"
      /\ \A k \in Ids : State.js[k].st \in RecorderStates
  BY <1>1 DEF Shape, Json
<1>6. Preserves(State, State')
  BY <1>1, <1>4, <1>5 DEF Preserves, Keeps, SameNumbers, FewerSessions, FewerWorkers, Reached,
     RecActive, WhActive, JsActive
<1>7. ASSUME Held(State), Alone(State) PROVE Alone(State')
  <2>1. \A k \in Ids \ {j} : ~JsActive(State, k)
    BY <1>2, <1>7 DEF Held, Reached
  <2>2. ~Succeeded(State'.js)
    BY <1>2, <1>5, <1>7, <2>1, ExitedAlone DEF Alone, JsActive, RecorderStates
  <2> QED
    BY <1>1, <1>7, <2>2 DEF Alone
<1> QED
  BY <1>1, <1>4, <1>6, <1>7, PreservesHeld DEF After, Intact

LEMMA FileExitStep ==
    ASSUME Shape(State), NEW f \in Ids, FileExit(f)
    PROVE  After
<1>1. /\ State'.sv = State.sv /\ State'.wh = State.wh /\ State'.rec = State.rec
      /\ State'.js = State.js /\ overtaken' = overtaken /\ State'.gh = State.gh
      /\ State'.fl = [State.fl EXCEPT ![f] = "exited"]
      /\ DOMAIN State' = DOMAIN State
  BY StateFields, StateFieldsNext DEF FileExit
<1>2. Shape(State')
  BY <1>1 DEF Shape, RecorderStates
<1>3. Preserves(State, State')
  BY <1>1, <1>2 DEF Preserves, Keeps, SameNumbers, FewerSessions, FewerWorkers, Reached,
     RecActive, WhActive, JsActive
<1>4. Alone(State) => Alone(State')
  BY <1>1 DEF Alone
<1> QED
  BY <1>1, <1>2, <1>3, <1>4, PreservesHeld DEF After, Intact

LEMMA RecorderStoppedStep ==
    ASSUME Shape(State), NEW i \in Ids, RecorderStopped(i)
    PROVE  After
<1> DEFINE c == RecGone(State, i)
           session == State.rec[i].session
<1>1. PICK o \in Outcomes : Become(OnRecordStopped(c, session, o))
  BY StateFields DEF RecorderStopped, RecGone
<1>2. State.rec[i].st = "exited"
  BY StateFields DEF RecorderStopped
<1>3. Preserves(State, c) /\ (Alone(State) => NoRec(c))
  BY <1>2, RecGoneEffect
<1>4. RoomIn(c)
  <2>1. RoomIn(State)
    BY <1>1, BecomeRoom
  <2>2. /\ c.wh = State.wh /\ c.js = State.js /\ c.fl = State.fl
        /\ \A k \in Ids \ {i} : c.rec[k] = State.rec[k]
    BY DEF RecGone, Shape
  <2> HIDE DEF c
  <2> QED
    BY <1>2, <2>1, <2>2 DEF RoomIn, FreeRec, FreeWh, FreeJs, FreeFl
<1> HIDE DEF c, session
<1> DEFINE r == OnRecordStopped(c, session, o)
<1>5. Shape(r) /\ (Held(c) /\ NoRec(c) => Held(r))
  BY <1>3, <1>4, OnRecordStoppedHeld DEF Preserves
<1>6. Become(r)
  BY <1>1
<1> HIDE DEF r
<1> QED
  BY <1>3, <1>5, <1>6, PreservesHeld, BecomeAfter

LEMMA WhisperStoppedStep ==
    ASSUME Shape(State), NEW w \in Ids, WhisperStopped(w)
    PROVE  After
<1> DEFINE c == WhGone(State, w)
           session == State.wh[w].session
<1>1. Become(OnWhisperStopped(c, session))
  BY StateFields DEF WhisperStopped, WhGone
<1>2. State.wh[w].st = "exited"
  BY StateFields DEF WhisperStopped
<1>3. Preserves(State, c) /\ (Alone(State) => NoWh(c))
  BY <1>2, WhGoneEffect
<1>4. RoomIn(c)
  <2>1. RoomIn(State)
    BY <1>1, BecomeRoom
  <2>2. /\ c.rec = State.rec /\ c.js = State.js /\ c.fl = State.fl
        /\ \A k \in Ids \ {w} : c.wh[k] = State.wh[k]
    BY DEF WhGone, Shape
  <2> HIDE DEF c
  <2> QED
    BY <1>2, <2>1, <2>2 DEF RoomIn, FreeRec, FreeWh, FreeJs, FreeFl
<1> HIDE DEF c, session
<1> DEFINE r == OnWhisperStopped(c, session)
<1>5. Shape(r) /\ (Held(c) /\ NoWh(c) => Held(r))
  BY <1>3, <1>4, OnWhisperStoppedHeld DEF Preserves
<1>6. Become(r)
  BY <1>1
<1> HIDE DEF r
<1> QED
  BY <1>3, <1>5, <1>6, PreservesHeld, BecomeAfter

LEMMA JsonStoppedStep ==
    ASSUME Shape(State), NEW j \in Ids, JsonStopped(j)
    PROVE  After
<1> DEFINE c == JsGone(State, j)
           session == State.js[j].session
<1>1. Become(OnJsonStopped(c, session))
  BY StateFields DEF JsonStopped, JsGone
<1>2. State.js[j].st = "exited"
  BY StateFields DEF JsonStopped
<1>3. Preserves(State, c) /\ (Alone(State) => NoJson(c))
  BY <1>2, JsGoneEffect
<1>4. RoomIn(c)
  <2>1. RoomIn(State)
    BY <1>1, BecomeRoom
  <2>2. /\ c.rec = State.rec /\ c.wh = State.wh /\ c.fl = State.fl
        /\ \A k \in Ids \ {j} : c.js[k] = State.js[k]
    BY DEF JsGone, Shape
  <2> HIDE DEF c
  <2> QED
    BY <1>2, <2>1, <2>2 DEF RoomIn, FreeRec, FreeWh, FreeJs, FreeFl
<1> HIDE DEF c, session
<1> DEFINE r == OnJsonStopped(c, session)
<1>5. Shape(r) /\ (Held(c) /\ NoJson(c) => Held(r))
  BY <1>3, <1>4, OnJsonStoppedHeld DEF Preserves
<1>6. Become(r)
  BY <1>1
<1> HIDE DEF r
<1> QED
  BY <1>3, <1>5, <1>6, PreservesHeld, BecomeAfter

LEMMA FileCompleteStep ==
    ASSUME Shape(State), NEW f \in Ids, FileComplete(f)
    PROVE  After
<1> DEFINE c == FlGone(State, f)
<1>1. Become(OnRetranscriptionComplete(c))
  BY StateFields DEF FileComplete, FlGone
<1>2. State.fl[f] = "exited"
  BY StateFields DEF FileComplete
<1>3. Preserves(State, c)
  BY FlGoneEffect
<1>4. RoomIn(c)
  <2>1. RoomIn(State)
    BY <1>1, BecomeRoom
  <2>2. /\ c.rec = State.rec /\ c.wh = State.wh /\ c.js = State.js
        /\ \A k \in Ids \ {f} : c.fl[k] = State.fl[k]
    BY DEF FlGone, Shape
  <2> HIDE DEF c
  <2> QED
    BY <1>2, <2>1, <2>2 DEF RoomIn, FreeRec, FreeWh, FreeJs, FreeFl
<1> HIDE DEF c
<1>5. Good(c, OnRetranscriptionComplete(c))
  BY <1>3, <1>4, OnRetranscriptionHeld DEF Preserves
<1> DEFINE r == OnRetranscriptionComplete(c)
<1>6. Become(r) /\ Good(c, r)
  BY <1>1, <1>5
<1> HIDE DEF r
<1>7. Good(State, r)
  BY <1>3, <1>6, PreservesGood DEF Good
<1> QED
  BY <1>6, <1>7, BecomeGood

LEMMA PublishStep ==
    ASSUME Shape(State), NEW w \in Ids, WhActive(State, w), NEW backlog \in 0..MaxBacklog,
           NEW error \in BOOLEAN, NEW st \in ActiveStates, Publish(w, backlog, error, st)
    PROVE  After
<1> DEFINE r == Published(State, w, backlog, error, st)
<1>1. Become(r)
  BY StateFields DEF Publish, Published
<1>2. Good(State, r)
  BY PublishedHeld
<1> HIDE DEF r
<1> QED
  BY <1>1, <1>2, BecomeGood

LEMMA ResultStep ==
    ASSUME Shape(State), NEW w \in Ids, Infer(w) \/ FinalResult(w) \/ WhisperFails(w)
    PROVE  After
<1>1. wh[w].backlog \in 0..MaxBacklog
  BY StateFields DEF Shape, Whisper
<1>2. CASE Infer(w)
  <2>1. wh[w].backlog - 1 \in 0..MaxBacklog
    BY <1>1, <1>2, ConstantsAssumption DEF Infer
  <2>2. /\ WhActive(State, w) /\ wh[w].st \in ActiveStates
        /\ Publish(w, wh[w].backlog - 1, FALSE, wh[w].st)
    BY <1>2, StateFields DEF Infer, WhActive, ActiveStates
  <2> QED
    BY <2>1, <2>2, PublishStep
<1>3. CASE FinalResult(w)
  <2>1. WhActive(State, w) /\ Publish(w, wh[w].backlog, FALSE, "finished")
    BY <1>3, StateFields DEF FinalResult, WhActive
  <2> QED
    BY <1>1, <2>1, PublishStep DEF ActiveStates
<1>4. CASE WhisperFails(w)
  <2> DEFINE st == IF wh[w].st = "terminating" THEN "finished" ELSE "failed"
  <2>1. WhActive(State, w) /\ Publish(w, wh[w].backlog, TRUE, st) /\ st \in ActiveStates
    BY <1>4, StateFields DEF WhisperFails, WhActive, ActiveStates
  <2> HIDE DEF st
  <2> QED
    BY <1>1, <2>1, PublishStep
<1> QED
  BY <1>2, <1>3, <1>4

LEMMA PassOnStep ==
    ASSUME Shape(State), NEW w \in Ids, PassOn(w)
    PROVE  After
<1>1. Become(PassResultOn(State, w))
  BY DEF PassOn
<1> QED
  BY <1>1, PassResultOnHeld, BecomeGood

LEMMA NextStep ==
    ASSUME Shape(State), Next
    PROVE  After
<1>1. CASE \/ Start \/ Stop \/ Pause \/ Resume \/ StopInference \/ ResumeInference
           \/ TranscribeFile \/ StopFile \/ ProjectionStopped \/ StartThread \/ OnDestroy
  BY <1>1, StartStep, StopStep, PauseStep, ResumeStep, StopInferenceStep, ResumeInferenceStep,
     FileCommandStep, ProjectionStoppedStep, StartThreadStep, OnDestroyStep
<1>2. CASE \E i \in Ids : RecorderStep(i)
  BY <1>2, CountChunkStep, WriteChunkStep, SubmitChunkStep, RecorderExitStep,
     RecorderStoppedStep DEF RecorderStep
<1>3. CASE \E i \in Ids : WhisperStep(i)
  BY <1>3, ResultStep, PassOnStep, WhisperExitStep, WhisperStoppedStep DEF WhisperStep
<1>4. CASE \E i \in Ids : JsonStep(i) \/ FileStep(i)
  BY <1>4, JsonExitStep, JsonStoppedStep, FileExitStep, FileCompleteStep
     DEF JsonStep, FileStep
<1> QED
  BY <1>1, <1>2, <1>3, <1>4 DEF Next

LEMMA StutterStep ==
    ASSUME Shape(State), UNCHANGED vars
    PROVE  After
<1>1. Shape(State') /\ (Held(State) => Held(State')) /\ (Alone(State) <=> Alone(State'))
  BY StateFields, StateFieldsNext, SameFields DEF vars
<1>2. overtaken' = overtaken
  BY DEF vars
<1> QED
  BY <1>1, <1>2 DEF After, Intact

LEMMA InitState ==
    ASSUME Init
    PROVE  Shape(State) /\ Intact
<1>1. /\ sv = InitService /\ DOMAIN gh = HistoryFields /\ gh.published = {}
      /\ rec = [i \in Ids |-> [st |-> "unused", session |-> null, hand |-> "none"]]
      /\ wh = [i \in Ids |-> [st |-> "unused", session |-> null, backlog |-> 0,
                              sequence |-> 0, hand |-> "none"]]
      /\ js = [i \in Ids |-> [st |-> "unused", session |-> null]]
      /\ fl = [i \in Ids |-> "unused"]
  BY DEF Init, HistoryFields
<1>2. DOMAIN sv = ServiceFields
  BY <1>1 DEF ServiceFields
<1>3. Numbers(sv) /\ {sv.recordWorker, sv.transcriptionWorker, sv.transcriptionJsonWorker,
                      sv.retranscriptionWorker} \subseteq Workers
  BY <1>1 DEF InitService, Numbers, Workers, null
<1>4. rec \in [Ids -> Recorder] /\ js \in [Ids -> Json] /\ fl \in [Ids -> RecorderStates]
  BY <1>1 DEF Recorder, Json, RecorderStates, null
<1>5. wh \in [Ids -> Whisper]
  BY <1>1, ConstantsAssumption DEF Whisper, WhisperStates, null
<1>6. Shape(State)
  BY <1>1, <1>2, <1>3, <1>4, <1>5, StateFields DEF Shape
<1>7. Reached(State) /\ WorkersCount(State)
  BY <1>1, StateFields DEF Reached, WorkersCount, RecActive, WhActive, JsActive
<1>8. Counted(State) /\ Dated(State) /\ SessionsCount(State)
  BY <1>1, StateFields DEF Counted, Dated, SessionsCount, InitService, null
<1>9. Alone(State)
  BY <1>1, StateFields DEF Alone, Succeeded
<1> QED
  BY <1>6, <1>7, <1>8, <1>9 DEF Intact, Held, Numbered

LEMMA CommandStep ==
    ASSUME Next
    PROVE  \/ commands < MaxCommands /\ commands' = commands + 1
           \/ commands' = commands
<1>1. CASE \/ Start \/ Stop \/ Pause \/ Resume \/ StopInference \/ ResumeInference
           \/ TranscribeFile \/ StopFile
  BY <1>1 DEF Start, Stop, Pause, Resume, StopInference, ResumeInference, TranscribeFile,
     StopFile, Send
<1>2. CASE ProjectionStopped \/ StartThread \/ OnDestroy
  BY <1>2 DEF ProjectionStopped, StartThread, OnDestroy
<1>3. CASE \E i \in Ids : RecorderStep(i)
  BY <1>3 DEF RecorderStep, CountChunk, WriteChunk, SubmitChunk, RecorderExit, RecorderStopped
<1>4. CASE \E i \in Ids : WhisperStep(i)
  BY <1>4 DEF WhisperStep, Infer, FinalResult, WhisperFails, PassOn, WhisperExit,
     WhisperStopped
<1>5. CASE \E i \in Ids : JsonStep(i) \/ FileStep(i)
  BY <1>5 DEF JsonStep, JsonExit, JsonStopped, FileStep, FileExit, FileComplete
<1> QED
  BY <1>1, <1>2, <1>3, <1>4, <1>5 DEF Next

(* The inductive invariant.                                                *)
LEMMA Invariance == Spec => []UnlessOvertaken
<1>1. Init => UnlessOvertaken
  <2> SUFFICES ASSUME Init
               PROVE  UnlessOvertaken
    OBVIOUS
  <2>1. Shape(State) /\ Intact
    BY InitState
  <2>2. CommandsBounded
    BY ConstantsAssumption DEF Init, CommandsBounded
  <2> QED
    BY <2>1, <2>2 DEF UnlessOvertaken, Intact
<1>2. UnlessOvertaken /\ [Next]_vars => UnlessOvertaken'
  <2> SUFFICES ASSUME UnlessOvertaken, [Next]_vars
               PROVE  UnlessOvertaken'
    OBVIOUS
  <2>1. After
    BY NextStep, StutterStep DEF UnlessOvertaken
  <2>2. CommandsBounded'
    <3>1. CASE Next
      BY <3>1, CommandStep, ConstantsAssumption DEF UnlessOvertaken, CommandsBounded
    <3>2. CASE UNCHANGED vars
      BY <3>2 DEF UnlessOvertaken, CommandsBounded, vars
    <3> QED
      BY <3>1, <3>2
  <2> QED
    BY <2>1, <2>2 DEF After, Intact, UnlessOvertaken
<1> QED
  BY <1>1, <1>2, PTL DEF Spec

-----------------------------------------------------------------------------

(* Whatever commands come, whatever fails and in whatever order stop       *)
(* events are handled: the fields that hold workers hold null or a worker, *)
(* threads are in the states of the model, and the queue of the inference  *)
(* worker never exceeds QUEUE_CAPACITY.                                    *)
THEOREM TypeCorrect == Spec => []TypeOK
<1>1. UnlessOvertaken => TypeOK
  <2> SUFFICES ASSUME Shape(State), CommandsBounded
               PROVE  TypeOK
    BY DEF UnlessOvertaken
  <2>1. /\ DOMAIN sv = DOMAIN InitService
        /\ {sv.recordWorker, sv.transcriptionWorker, sv.transcriptionJsonWorker,
            sv.retranscriptionWorker} \subseteq {null} \cup Ids
    BY StateFields DEF Shape, ServiceFields, Workers
  <2>2. /\ rec \in [Ids -> Recorder] /\ wh \in [Ids -> Whisper] /\ js \in [Ids -> Json]
        /\ fl \in [Ids -> RecorderStates]
    BY StateFields DEF Shape
  <2>3. \A i \in Ids : /\ rec[i].st \in RecorderStates
                       /\ rec[i].hand \in {"none", "counted", "written"}
                       /\ wh[i].hand \in {"none", "text", "error"}
                       /\ wh[i].st \in WhisperStates /\ wh[i].backlog \in 0..MaxBacklog
                       /\ js[i].st \in RecorderStates /\ fl[i] \in RecorderStates
    BY <2>2 DEF Recorder, Whisper, Json
  <2> QED
    BY <2>1, <2>3 DEF TypeOK, CommandsBounded
<1> QED
  BY <1>1, Invariance, PTL

(* A late stop event is the only way to lose a thread: until a worker is   *)
(* replaced while the stop event of the one before is on its way, every    *)
(* recorder that records, inference worker that accepts audio and JSON     *)
(* worker that writes is the one in the service's field, through any       *)
(* number of starts, pauses, resumes and failures, and in every order of   *)
(* commands and events.                                                    *)
THEOREM NoThreadLost == Spec => []ReachableUnlessOvertaken
<1>1. UnlessOvertaken => ReachableUnlessOvertaken
  BY StateFields DEF UnlessOvertaken, Held, Reached, RecActive, WhActive, JsActive,
     ReachableUnlessOvertaken, ThreadsReachable
<1> QED
  BY <1>1, Invariance, PTL

(* Until a stop event was overtaken or the service is destroyed, no two    *)
(* results of a session have the same number: a START that resets          *)
(* nextInferenceSequence while workers of the session before still publish *)
(* gives the next session a number of its own, and a worker created in a   *)
(* running session counts on.  For any number of starts, commands and      *)
(* failures.                                                               *)
THEOREM NumbersUnique == Spec => []NumbersUniqueUnlessOvertaken
<1>1. UnlessOvertaken => NumbersUniqueUnlessOvertaken
  BY StateFields DEF UnlessOvertaken, Held, Numbered, Counted, NumbersUniqueUnlessOvertaken
<1> QED
  BY <1>1, Invariance, PTL
=============================================================================
