----------------------------- MODULE VadSegments -----------------------------
(***************************************************************************)
(* The voice activity filter in front of both inference engines.  One      *)
(* probability per window of audio is turned into speech segments          *)
(* (whisper.cpp, whisper_vad_segments_from_probs); the CTranslate2 engine  *)
(* joins the samples inside the segments (collect_whisper_vad_speech), the *)
(* whisper.cpp engine copies them with a short silence in between and      *)
(* keeps a table from times in the copy to times in the recording          *)
(* (whisper_vad, map_processed_to_original_time).                          *)
(*                                                                         *)
(* A step is one iteration of one of the loops.  A probability is one of   *)
(* four classes: what matters is whether it reaches the threshold and      *)
(* whether it is below the lower threshold that ends speech.  A sample is  *)
(* its index, and a piece of audio a record [start, end).                  *)
(***************************************************************************)
EXTENDS Integers, Sequences

CONSTANTS
    Window,         \* n_window, samples per probability
    SamplesPerCs,   \* samples per centisecond
    SplitSilence,   \* min_silence_samples_at_max_speech
    MergeGap,       \* max_merge_gap_samples
    Silence,        \* silence_samples between two segments of the copy
    Settings,       \* the parameters the callers pass, in samples
    MaxSamples      \* bound: samples of one call

SettingsType == [engine : {"ctranslate2", "whisper.cpp"}, minSilence : Nat, minSpeech : Nat,
                 maxSpeech : Nat, pad : Nat, overlap : Nat, lowThreshold : BOOLEAN]

ASSUME VadAssumption ==
    /\ Window \in Nat \ {0} /\ SamplesPerCs \in Nat \ {0}
    /\ SplitSilence \in Nat /\ MergeGap \in Nat /\ Silence \in Nat /\ MaxSamples \in Nat
    /\ Settings \subseteq SettingsType

(* What the CTranslate2 engine passes, as far as keeping speech needs it:   *)
(* no minimum of speech, a padding that makes up for one window and the     *)
(* rounding, and no limit of length (or a threshold above the lower one).   *)
FilterSettings ==
    /\ MergeGap >= 2 * (Window + SamplesPerCs \div 2)
    /\ \A p \in Settings : p.engine = "ctranslate2" =>
          /\ p.minSpeech = 0 /\ p.pad >= Window + SamplesPerCs \div 2
          /\ p.lowThreshold => p.maxSpeech >= MaxSamples + Window

(* What the whisper.cpp engine passes, as far as the size of its copy needs *)
(* it: speech is longer than a window and half a centisecond, so that no    *)
(* segment begins behind the last sample.                                   *)
CopySettings ==
    \A p \in Settings : p.engine = "whisper.cpp" => p.minSpeech >= Window + SamplesPerCs \div 2

VARIABLES
    vad_pc,     \* the loop the call is in
    params,     \* the settings of the call
    size,       \* n_samples
    i,          \* the loop index
    scan,       \* the local variables of the first loop, see NotSpeaking
    speeches,   \* the segments found so far, in samples
    segments,   \* the final segments, in centiseconds
    output,     \* the pieces of the recording joined or copied
    allocated,  \* filtered_samples.size()
    offset,     \* samples written to filtered_samples
    mapping,    \* vad_mapping_table, a set: it is only read in the order of its times
    loud        \* history: the windows that reached the threshold

call == <<params, size, loud>>
copy == <<allocated, offset, mapping>>
vadVars == <<vad_pc, i, scan, speeches, segments, output, copy, call>>

(* The locals of the first loop while no segment is open.  (The code's     *)
(* has_curr_speech always equals is_speech_segment.)                       *)
NotSpeaking == [is_speech_segment |-> FALSE, start |-> 0,
                temp_end |-> 0, prev_end |-> 0, next_start |-> 0]

Piece(a, b) == [start |-> a, end |-> b]
Lesser(a, b) == IF a < b THEN a ELSE b

(* One more window for the samples that do not fill one. *)
NProbs == (size \div Window) + (IF size % Window = 0 THEN 0 ELSE 1)
AudioLength == NProbs * Window

(* Classes of probabilities.  The lower threshold is 0.15 below the        *)
(* threshold but at least 0.01, so below 0.01 they change places.          *)
Classes == IF params.lowThreshold THEN {"speech", "both", "silence"}
                                  ELSE {"speech", "between", "silence"}
Reaches(class) == class \in {"speech", "both"}
Below(class) == class \in {"silence", "both"}

VadInit ==
    /\ vad_pc = "idle" /\ params \in Settings /\ size = 0 /\ i = 0
    /\ scan = NotSpeaking /\ speeches = <<>> /\ segments = <<>> /\ output = <<>>
    /\ allocated = 0 /\ offset = 0 /\ mapping = {} /\ loud = {}

(* A call.  The output of the call before is cleared first.                *)
Call(p, n) ==
    /\ vad_pc = "idle"
    /\ params' = p /\ size' = n /\ i' = 0
    /\ scan' = NotSpeaking /\ speeches' = <<>> /\ segments' = <<>> /\ output' = <<>>
    /\ allocated' = 0 /\ offset' = 0 /\ mapping' = {} /\ loud' = {}
    /\ vad_pc' = IF n = 0 THEN "idle" ELSE "scan"

(* The graph cannot be allocated: no segments, and the caller throws.      *)
DetectFails ==
    /\ vad_pc = "scan" /\ i = 0
    /\ vad_pc' = "idle"
    /\ UNCHANGED <<i, scan, speeches, segments, output, copy, call>>
-----------------------------------------------------------------------------
(* The first loop.  Each operator is one block of its body; c is the       *)
(* record of its locals, found the segments so far, s the current sample.  *)

(* Bug: the silence is not forgotten when speech comes back. *)
ResumeSpeechKeepingEnd(c, s) ==
    IF c.temp_end # 0 /\ c.next_start < c.prev_end THEN [c EXCEPT !.next_start = s] ELSE c

(* "Reset temp_end when we get back to speech" *)
ResumeSpeech(c, s) ==
    IF c.temp_end # 0
    THEN [c EXCEPT !.temp_end = 0, !.next_start = IF @ < c.prev_end THEN s ELSE @]
    ELSE c

TooLong(c, s) == c.is_speech_segment /\ s - c.start > params.maxSpeech

(* "Handle maximum speech duration", when a silence was seen before: cut   *)
(* there and go on.                                                        *)
CutAtSilence(c) ==
    IF c.next_start < c.prev_end
    THEN [NotSpeaking EXCEPT !.start = c.start]
    ELSE [NotSpeaking EXCEPT !.is_speech_segment = TRUE, !.start = c.next_start]

(* "Handle silence after speech": the end and the possible cut it notes.   *)
NoteSilence(c, s) ==
    LET end == IF c.temp_end = 0 THEN s ELSE c.temp_end
    IN  [c EXCEPT !.temp_end = end,
                  !.prev_end = IF s - end > SplitSilence THEN end ELSE @]

(* The segment a silence that has lasted long enough ends, if it is longer *)
(* than the minimum.                                                       *)
Ended(c, found) ==
    IF c.temp_end - c.start > params.minSpeech
    THEN Append(found, Piece(c.start, c.temp_end)) ELSE found

NextWindow(class) ==
    /\ vad_pc = "scan" /\ i < NProbs
    /\ i' = i + 1
    /\ loud' = IF Reaches(class) THEN loud \cup {i} ELSE loud
    /\ UNCHANGED <<vad_pc, params, size, segments, output, copy>>

Resumed(class) == IF Reaches(class) THEN ResumeSpeech(scan, Window * i) ELSE scan

ScanStart(class) ==
    /\ NextWindow(class)
    /\ Reaches(class) /\ ~ scan.is_speech_segment
    /\ scan' = [Resumed(class) EXCEPT !.is_speech_segment = TRUE, !.start = Window * i]
    /\ UNCHANGED speeches

ScanCutHere(class) ==
    LET c == Resumed(class)
    IN  /\ NextWindow(class)
        /\ TooLong(c, Window * i) /\ c.prev_end = 0
        /\ speeches' = Append(speeches, Piece(c.start, Window * i))
        /\ scan' = [NotSpeaking EXCEPT !.start = c.start]

ScanWindow(class) ==
    LET s == Window * i
        c == Resumed(class)
        cut == TooLong(c, s)
        found == IF cut THEN Append(speeches, Piece(c.start, c.prev_end)) ELSE speeches
        d == IF cut THEN CutAtSilence(c) ELSE c
        e == NoteSilence(d, s)
    IN  /\ NextWindow(class)
        /\ ~ (Reaches(class) /\ ~ scan.is_speech_segment)
        /\ ~ (cut /\ c.prev_end = 0)
        /\ IF ~ (Below(class) /\ d.is_speech_segment)
           THEN scan' = d /\ speeches' = found
           ELSE IF s - e.temp_end < params.minSilence
           THEN scan' = e /\ speeches' = found
           ELSE scan' = [NotSpeaking EXCEPT !.start = d.start] /\ speeches' = Ended(e, found)

(* Still in speech at the end: the segment reaches to the end of the audio. *)
ScanEnd ==
    /\ vad_pc = "scan" /\ i = NProbs /\ i > 0
    /\ vad_pc' = "merge" /\ i' = 1
    /\ speeches' = IF scan.is_speech_segment /\ AudioLength - scan.start > params.minSpeech
                   THEN Append(speeches, Piece(scan.start, AudioLength)) ELSE speeches
    /\ UNCHANGED <<scan, segments, output, copy, call>>
-----------------------------------------------------------------------------
(* The loops over the segments; indices start at 1 here.                   *)

Without(f, k) == [j \in 1..(Len(f) - 1) |-> IF j < k THEN f[j] ELSE f[j + 1]]

(* "Merge adjacent segments with small gaps in between"                    *)
Merge ==
    /\ vad_pc = "merge" /\ i < Len(speeches)
    /\ IF speeches[i + 1].start - speeches[i].end < MergeGap
       THEN /\ speeches' = Without([speeches EXCEPT ![i].end = speeches[i + 1].end], i + 1)
            /\ i' = i
       ELSE i' = i + 1 /\ UNCHANGED speeches
    /\ UNCHANGED <<vad_pc, scan, segments, output, copy, call>>

(* "Double-check for minimum speech duration"                              *)
RemoveShort ==
    /\ vad_pc = "short" /\ i <= Len(speeches)
    /\ IF speeches[i].end - speeches[i].start < params.minSpeech
       THEN speeches' = Without(speeches, i) /\ i' = i
       ELSE i' = i + 1 /\ UNCHANGED speeches
    /\ UNCHANGED <<vad_pc, scan, segments, output, copy, call>>

Earlier(a) == IF a > params.pad THEN a - params.pad ELSE 0
Later(a) == Lesser(a + params.pad, AudioLength)

(* Bug: both neighbours get the whole padding, however close they are.     *)
PaddedFully(f, k) ==
    LET g == IF k = 1 THEN [f EXCEPT ![1].start = Earlier(@)] ELSE f
    IN  IF k < Len(f)
        THEN [g EXCEPT ![k].end = Later(@), ![k + 1].start = Earlier(@)]
        ELSE [g EXCEPT ![k].end = Later(@)]

(* "Apply padding to segments": the first start, the gap after the k-th    *)
(* segment, the last end.                                                  *)
Padded(f, k) ==
    LET g == IF k = 1 THEN [f EXCEPT ![1].start = Earlier(@)] ELSE f
        gap == f[k + 1].start - f[k].end
        half == gap \div 2
    IN  IF k = Len(f) THEN [g EXCEPT ![k].end = Later(@)]
        ELSE IF gap < 2 * params.pad
        THEN [g EXCEPT ![k].end = @ + half,
                       ![k + 1].start = IF @ > half THEN @ - half ELSE 0]
        ELSE [g EXCEPT ![k].end = Later(@), ![k + 1].start = Earlier(@)]

(* Rounded to the nearest centisecond, and back. *)
SamplesToCs(s) == (2 * s + SamplesPerCs) \div (2 * SamplesPerCs)
CsToSamples(c) == c * SamplesPerCs

Pad ==
    /\ vad_pc = "pad" /\ i <= Len(speeches)
    /\ speeches' = Padded(speeches, i)
    /\ segments' = Append(segments, Piece(SamplesToCs(speeches'[i].start),
                                          SamplesToCs(speeches'[i].end)))
    /\ i' = i + 1
    /\ UNCHANGED <<vad_pc, scan, output, copy, call>>

(* A loop has ended: the next one begins.                                  *)
LoopEnd ==
    /\ \/ vad_pc = "merge" /\ i >= Len(speeches) /\ vad_pc' = "short"
       \/ vad_pc = "short" /\ i > Len(speeches) /\ vad_pc' = "pad"
       \/ /\ vad_pc = "pad" /\ i > Len(speeches)
          /\ vad_pc' = IF params.engine = "ctranslate2" THEN "collect" ELSE "measure"
       \/ vad_pc = "measure" /\ i > Len(segments) /\ vad_pc' = "copy"
       \/ vad_pc = "collect" /\ i > Len(segments) /\ vad_pc' = "idle"
    /\ i' = 1
    /\ UNCHANGED <<scan, speeches, segments, output, copy, call>>
-----------------------------------------------------------------------------
(* collect_whisper_vad_speech: the samples inside the segments, joined.    *)

Collect ==
    LET start == Lesser(size, CsToSamples(segments[i].start))
        end == Lesser(size, CsToSamples(segments[i].end))
    IN  /\ vad_pc = "collect" /\ i <= Len(segments)
        /\ output' = IF end > start THEN Append(output, Piece(start, end)) ELSE output
        /\ i' = i + 1
        /\ UNCHANGED <<vad_pc, scan, speeches, segments, copy, call>>
-----------------------------------------------------------------------------
(* whisper_vad: one loop over the segments computes the size of the copy,  *)
(* a second one fills it.                                                  *)

IsLast(k) == k = Len(segments)
LastSample == size - 1
WithOverlap(k, end) == IF IsLast(k) THEN end ELSE end + params.overlap

(* Bug: the silence after a segment is not counted. *)
MeasureSpeechOnly ==
    LET end == Lesser(WithOverlap(i, CsToSamples(segments[i].end)), LastSample)
    IN  /\ vad_pc = "measure" /\ i <= Len(segments)
        /\ allocated' = allocated + (end - CsToSamples(segments[i].start))
        /\ i' = i + 1
        /\ UNCHANGED <<vad_pc, scan, speeches, segments, output, offset, mapping, call>>

Measure ==
    LET end == Lesser(WithOverlap(i, CsToSamples(segments[i].end)), LastSample)
    IN  /\ vad_pc = "measure" /\ i <= Len(segments)
        /\ allocated' = allocated + (end - CsToSamples(segments[i].start))
                                  + (IF IsLast(i) THEN 0 ELSE Silence)
        /\ i' = i + 1
        /\ UNCHANGED <<vad_pc, scan, speeches, segments, output, offset, mapping, call>>

Point(a, b) == [processed |-> SamplesToCs(a), original |-> b]

(* Bug: the two ends of the silence change places.                         *)
PointsSwapped(k, at, length, copied) ==
    {Point(at, segments[k].start), Point(at + length, segments[k].end)}
    \cup IF IsLast(k) THEN {}
         ELSE {Point(at + copied, segments[k + 1].start),
               Point(at + copied + Silence, segments[k].end)}

(* The points of the time table for segment k, whose copy begins at sample *)
(* at: its own two ends and those of the silence after it.                 *)
Points(k, at, length, copied) ==
    {Point(at, segments[k].start), Point(at + length, segments[k].end)}
    \cup IF IsLast(k) THEN {}
         ELSE {Point(at + copied, segments[k].end),
               Point(at + copied + Silence, segments[k + 1].start)}

CopySegment ==
    LET start == Lesser(CsToSamples(segments[i].start), LastSample)
        end == Lesser(CsToSamples(segments[i].end), LastSample)
        last == IF IsLast(i) THEN end ELSE Lesser(end + params.overlap, LastSample)
        copied == last - start
    IN  /\ vad_pc = "copy" /\ i <= Len(segments)
        /\ IF copied > 0
           THEN /\ output' = Append(output, Piece(start, last))
                /\ mapping' = mapping \cup Points(i, offset, end - start, copied)
                /\ offset' = offset + copied + (IF IsLast(i) THEN 0 ELSE Silence)
           ELSE UNCHANGED <<output, mapping, offset>>
        /\ i' = i + 1
        /\ UNCHANGED <<vad_pc, scan, speeches, segments, allocated, call>>

(* The table is sorted by processed time and one point kept of each time;  *)
(* the sort is not stable, so any of them.                                 *)
SortMapping ==
    /\ vad_pc = "copy" /\ i > Len(segments)
    /\ mapping' \in {m \in SUBSET mapping :
                        \A p \in mapping : \E q \in m :
                            /\ q.processed = p.processed
                            /\ \A r \in m : r.processed = p.processed => r = q}
    /\ vad_pc' = "idle"
    /\ UNCHANGED <<i, scan, speeches, segments, output, allocated, offset, call>>

(* map_processed_to_original_time: linear between two points of the table. *)
MapTime(t) ==
    LET front == CHOOSE p \in mapping : \A q \in mapping : p.processed <= q.processed
        back == CHOOSE p \in mapping : \A q \in mapping : p.processed >= q.processed
        upper == CHOOSE p \in mapping :
                    /\ p.processed >= t
                    /\ \A q \in mapping : q.processed >= t => p.processed <= q.processed
        lower == CHOOSE p \in mapping :
                    /\ p.processed < t
                    /\ \A q \in mapping : q.processed < t => p.processed >= q.processed
    IN  IF mapping = {} THEN t
        ELSE IF t <= front.processed THEN front.original
        ELSE IF t >= back.processed THEN back.original
        ELSE IF upper.processed = t THEN upper.original
        ELSE lower.original + ((t - lower.processed) * (upper.original - lower.original))
                              \div (upper.processed - lower.processed)
-----------------------------------------------------------------------------
VadNext ==
    \/ \E p \in Settings, n \in 0..MaxSamples : Call(p, n)
    \/ DetectFails
    \/ \E class \in Classes : ScanStart(class) \/ ScanCutHere(class) \/ ScanWindow(class)
    \/ ScanEnd \/ Merge \/ RemoveShort \/ Pad \/ LoopEnd
    \/ Collect \/ Measure \/ CopySegment \/ SortMapping

VadSpec == VadInit /\ [][VadNext]_vadVars
-----------------------------------------------------------------------------
(* Piece after piece, none overlapping the one before, up to sample bound. *)
Ordered(f, bound) ==
    /\ \A k \in 1..Len(f) : 0 <= f[k].start /\ f[k].start <= f[k].end /\ f[k].end <= bound
    /\ \A k \in 1..(Len(f) - 1) : f[k].end <= f[k + 1].start

PieceType == [start : Nat, end : Nat]

VadTypeOK ==
    /\ vad_pc \in {"idle", "scan", "merge", "short", "pad", "collect", "measure", "copy"}
    /\ params \in Settings /\ size \in 0..MaxSamples /\ i \in Nat
    /\ scan \in [is_speech_segment : BOOLEAN, start : Nat, temp_end : Nat, prev_end : Nat,
                  next_start : Nat]
    /\ speeches \in Seq(PieceType) /\ segments \in Seq(PieceType) /\ output \in Seq(PieceType)
    /\ allocated \in Int /\ offset \in Nat
    /\ mapping \subseteq [processed : Nat, original : Nat] /\ loud \subseteq Nat

(* No sample reaches the CTranslate2 engine twice or out of order, and     *)
(* none is read outside the recording: through scanning, merging, removal, *)
(* padding and rounding the pieces stay ordered and apart.  (And every     *)
(* variable has its type: no start falls below zero.)                      *)
PiecesOrdered ==
    /\ VadTypeOK
    /\ Ordered(speeches, AudioLength)
    /\ params.engine = "ctranslate2" => Ordered(output, size)

(* The filter of the CTranslate2 engine loses no speech: every sample of a *)
(* window that reached the threshold is passed on, but for the fraction of *)
(* a centisecond that rounding may cut off at the very end.                *)
SpeechKept ==
    vad_pc = "collect" /\ i > Len(segments) =>
        \A w \in loud : \A s \in (w * Window)..((w + 1) * Window - 1) :
            \/ s >= size \/ s >= AudioLength - SamplesPerCs \div 2
            \/ \E k \in 1..Len(output) : output[k].start <= s /\ s < output[k].end

(* The copy of the whisper.cpp engine stays inside the memory the first    *)
(* loop computed.                                                          *)
CopyFits == vad_pc = "copy" => offset <= allocated

(* Times of the transcript keep their order when they are mapped back to   *)
(* the recording, and stay inside it.                                      *)
TimesMonotone ==
    vad_pc = "idle" /\ mapping # {} =>
        \A t \in 0..SamplesToCs(offset) :
            /\ MapTime(t) <= MapTime(t + 1)
            /\ MapTime(t) \in 0..SamplesToCs(AudioLength)
=============================================================================
