------------------------------ MODULE MCNative ------------------------------
(* The stages of a native call around the inference itself.  They run one  *)
(* at a time, under the mutex of the handle; each is explored while the    *)
(* others rest as they were created.                                       *)
(*                                                                         *)
(* Filter: windows of three samples and centiseconds of two, so that       *)
(* rounding matters.  The silences and paddings have the order they have   *)
(* at 16 kHz; the merge gap is the smallest FilterSettings allows.         *)
(* Neither engine limits the length of speech; the last setting does, as   *)
(* the library allows.                                                     *)
(* Features: three threads and five frames, so blocks of different sizes,  *)
(* as many as threads or fewer, and windows that overlap.                  *)
(* Transform: the roots of unity are the powers of 3 modulo 401.           *)
(* Text: bytes and units are those at the limits of the ranges the code    *)
(* tells apart; every byte is also a prompt of its own.                    *)
EXTENDS VadSegments, WhisperFeatures, WhisperFft, WhisperTokens, UtfConverter

CTranslate2 == [engine |-> "ctranslate2", minSilence |-> 9, minSpeech |-> 0, maxSpeech |-> 99,
                pad |-> 7, overlap |-> 0, lowThreshold |-> FALSE]
WhisperCpp == [engine |-> "whisper.cpp", minSilence |-> 5, minSpeech |-> 4, maxSpeech |-> 99,
               pad |-> 2, overlap |-> 2, lowThreshold |-> FALSE]
MCSettings == {CTranslate2, [CTranslate2 EXCEPT !.lowThreshold = TRUE], WhisperCpp,
               [CTranslate2 EXCEPT !.maxSpeech = 7]}

(* The settings checked here satisfy the hypotheses of SpeechIsKept and    *)
(* CopyStaysInside.                                                        *)
ASSUME SettingsHold == FilterSettings /\ CopySettings

MCUnits == {65, 128, 2047, 2048, 55295, 55296, 56319, 56320, 57343, 57344, 65533, 65535}
MCBytes == {65, 143, 144, 159, 160, 194, 224, 237, 240, 244}
MCJavaTexts == UNION {[1..n -> MCUnits] : n \in 1..3}
MCEngineTexts == UNION {[1..n -> MCBytes] : n \in 0..4}

A == <<65>>
B == <<66>>
Space == <<196, 160>>
MCPrompts == UNION {[1..n -> {32, 65, 66, 227}] : n \in 0..5} \cup [1..1 -> 0..255]
MCMerges == << <<A, A>>, <<A \o A, B>>, <<A, B>>, <<Space, A>>, <<A \o A, A \o A>> >>
(* One byte is in no token. *)
MCVocabulary ==
    {Utf8(CodePoint(b)) : b \in 0..255 \ {7}} \cup {MCMerges[k][1] \o MCMerges[k][2] : k \in 1..5}

Powers(g) ==
    LET power[n \in 0..20] == IF n = 0 THEN 1 ELSE (g * power[n - 1]) % 401
    IN  [n \in 0..20 |-> power[n]]
MCRoots == [e \in 0..399 |-> (Powers(3)[e % 20] * Powers(Powers(3)[20])[e \div 20]) % 401]

VadRests == VadInit /\ params = CTranslate2
FeatRests == FeatInit /\ num_threads = 1
TextRests == utf_pc = "idle" /\ tok_pc = "idle" /\ fft_pc = "idle"

Init == VadInit /\ FeatInit /\ (VadRests \/ FeatRests) /\ UtfInit /\ TokInit /\ FftInit

Next ==
    \/ FeatRests /\ TextRests /\ VadNext /\ UNCHANGED <<featVars, utfVars, tokVars, fftVars>>
    \/ VadRests /\ TextRests /\ FeatNext /\ UNCHANGED <<vadVars, utfVars, tokVars, fftVars>>
    \/ /\ VadRests /\ FeatRests /\ UNCHANGED <<vadVars, featVars>>
       /\ \/ tok_pc = "idle" /\ fft_pc = "idle" /\ UtfNext /\ UNCHANGED <<tokVars, fftVars>>
          \/ utf_pc = "idle" /\ fft_pc = "idle" /\ TokNext /\ UNCHANGED <<utfVars, fftVars>>
          \/ utf_pc = "idle" /\ tok_pc = "idle" /\ FftNext /\ UNCHANGED <<utfVars, tokVars>>

Spec == Init /\ [][Next]_<<vadVars, featVars, utfVars, tokVars, fftVars>>
=============================================================================
