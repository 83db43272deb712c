-------------------- MODULE BackgroundWhisperServiceInvariants --------------------
(***************************************************************************)
(* The inductive invariants of BackgroundWhisperService, as conditions on  *)
(* a whole state; BackgroundWhisperServiceProofs proves them.              *)
(*                                                                         *)
(* Shape: the fields of the state and their types, kept by every step.     *)
(* Held: every thread that has not ended is the one in the service's field *)
(* (Reached), and the next number of each session that may still get an    *)
(* inference worker is beyond every number published in it (Numbered).     *)
(* Alone: a worker whose stop event is on its way has no successor yet.    *)
(* Held is kept while every worker is Alone, which is what ~overtaken      *)
(* says; the steps that need it are the three stop events, which forget    *)
(* whatever worker is in the field.                                        *)
(***************************************************************************)
EXTENDS BackgroundWhisperService

-----------------------------------------------------------------------------
(* The shape of the state: which fields there are, and their types. *)

ServiceFields == DOMAIN InitService
HistoryFields == {"published", "saved", "openWavs", "jsonDied", "recorderDied", "wavWritten",
                  "wavFailed", "starts", "stopAsked", "inferenceStopped"}
Workers == {null} \cup Ids
Recorder == [st : RecorderStates, session : Nat, hand : {"none", "counted", "written"}]
Whisper == [st : WhisperStates, session : Nat, backlog : 0..MaxBacklog, sequence : Nat,
            hand : {"none", "text", "error"}]
Json == [st : RecorderStates, session : Nat]

Numbers(v) ==
    /\ v.nextInferenceSequence \in Nat /\ v.retranscriptionQueue \in Nat
    /\ v.startThreads \in Nat /\ v.lastTime \in Nat
    /\ v.recordingSessionId \in Nat /\ v.recordingTimeData \in Nat
    /\ v.pendingRecordingTimeData \in Nat /\ v.inferenceSessionId \in Nat

Shape(t) ==
    /\ DOMAIN t = {"sv", "rec", "wh", "js", "fl", "gh"}
    /\ DOMAIN t.sv = ServiceFields /\ DOMAIN t.gh = HistoryFields
    /\ t.sv.recordWorker \in Workers /\ t.sv.transcriptionWorker \in Workers
    /\ t.sv.transcriptionJsonWorker \in Workers /\ t.sv.retranscriptionWorker \in Workers
    /\ Numbers(t.sv)
    /\ t.rec \in [Ids -> Recorder] /\ t.wh \in [Ids -> Whisper] /\ t.js \in [Ids -> Json]
    /\ t.fl \in [Ids -> RecorderStates]

-----------------------------------------------------------------------------
(* The service's fields hold the threads that have not ended. *)

RecActive(t, i) == t.rec[i].st \in {"live", "stopping"}
WhActive(t, i) ==
    t.wh[i].st \in {"accepting", "draining", "terminating", "failed", "finished"}
JsActive(t, i) == t.js[i].st \in {"live", "stopping"}

Reached(t) ==
    \A i \in Ids :
        /\ RecActive(t, i) => t.sv.recordWorker = i
        /\ WhActive(t, i) => t.sv.transcriptionWorker = i
        /\ JsActive(t, i) => t.sv.transcriptionJsonWorker = i

-----------------------------------------------------------------------------
(* The numbers of the results. *)

Beyond(t, session, n) == \A p \in t.gh.published : p.session = session => p.sequence < n

Counted(t) ==
    /\ \A p \in t.gh.published : p.sequence \in Nat /\ p.session \in 0..t.sv.lastTime
    /\ \A p, q \in t.gh.published : p.session = q.session /\ p.sequence = q.sequence => p = q

(* No session is newer than the newest time data. *)
Dated(t) ==
    /\ t.sv.pendingRecordingTimeData <= t.sv.lastTime
    /\ t.sv.recordingSessionId <= t.sv.lastTime /\ t.sv.inferenceSessionId <= t.sv.lastTime

(* A worker numbers on from what was published in its session. *)
WorkersCount(t) ==
    \A i \in Ids : WhActive(t, i) =>
        t.wh[i].session = t.sv.inferenceSessionId
        /\ Beyond(t, t.sv.inferenceSessionId, t.wh[i].sequence)

(* The sessions an inference worker may still be created for: the one that *)
(* is to begin, and the one that is active.                                *)
SessionsCount(t) ==
    /\ t.sv.pendingRecordingTimeData # null =>
          Beyond(t, t.sv.pendingRecordingTimeData, t.sv.nextInferenceSequence)
    /\ t.sv.sessionActive =>
          /\ t.sv.recordingSessionId # null
          /\ Beyond(t, t.sv.recordingSessionId, t.sv.nextInferenceSequence)

Numbered(t) == t.sv.destroyed \/ (Counted(t) /\ Dated(t) /\ WorkersCount(t) /\ SessionsCount(t))

Held(t) == Reached(t) /\ Numbered(t)

Alone(t) == ~Succeeded(t.rec) /\ ~Succeeded(t.wh) /\ ~Succeeded(t.js)

(* No more commands than the bound allows. *)
CommandsBounded == commands \in 0..MaxCommands

UnlessOvertaken ==
    /\ Shape(State) /\ CommandsBounded
    /\ overtaken \/ (Held(State) /\ Alone(State))
=============================================================================
