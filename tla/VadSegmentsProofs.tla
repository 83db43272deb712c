-------------------------- MODULE VadSegmentsProofs --------------------------
(***************************************************************************)
(* Proofs about VadSegments, for every window, rounding, settings of the   *)
(* callers, length of the recording and sequence of probabilities: the     *)
(* pieces of the recording stay in order and apart (VadInv), the filter of *)
(* the CTranslate2 engine loses no speech (KeptInv), and the copy of the   *)
(* whisper.cpp engine fits into its memory (SumInv) and keeps the order of *)
(* times (TableInv).                                                       *)
(***************************************************************************)
EXTENDS VadSegments, SequenceTheorems, WellFoundedInduction, TLAPS

(* The locals of the first loop at sample s: ends and cuts noted lie       *)
(* inside the open segment (0 stands for none).                            *)
Open(c, s) ==
    /\ c.start <= s /\ c.next_start <= s
    /\ c.temp_end = 0 \/ (c.start <= c.temp_end /\ c.temp_end <= s)
    /\ c.prev_end = 0 \/ (c.start <= c.prev_end /\ c.prev_end <= s)

ScanType ==
    [is_speech_segment : BOOLEAN, start : Nat, temp_end : Nat, prev_end : Nat, next_start : Nat]

(* The segments found end before the open one begins, or before sample s. *)
ScanOK(c, found, s) ==
    /\ Ordered(found, s)
    /\ IF c.is_speech_segment THEN Open(c, s) /\ Ordered(found, c.start)
       ELSE c.temp_end = 0 /\ c.prev_end = 0 /\ c.next_start = 0

ScanInv == vad_pc = "scan" => i <= NProbs /\ ScanOK(scan, speeches, Window * i)

(* What each loop may rely on when it begins. *)
ControlInv ==
    /\ vad_pc # "idle" => size >= 1
    /\ vad_pc \notin {"idle", "scan"} => i >= 1
    /\ vad_pc \in {"scan", "merge", "short"} => segments = <<>>
    /\ vad_pc \in {"scan", "merge", "short", "pad"} => output = <<>>
    /\ vad_pc \in {"measure", "copy"} => params.engine # "ctranslate2"

Rounded(p) == Piece(SamplesToCs(p.start), SamplesToCs(p.end))

(* Segments in their order, none reaching into the next. *)
InOrder(f) ==
    /\ \A k \in 1..Len(f) : f[k].start <= f[k].end
    /\ \A k \in 1..(Len(f) - 1) : f[k].end <= f[k + 1].start

SegmentsInv ==
    /\ InOrder(segments)
    /\ vad_pc = "pad" => /\ Len(segments) = i - 1 /\ i <= Len(speeches) + 1
                         /\ \A k \in 1..(i - 1) : segments[k] = Rounded(speeches[k])

OutputInv ==
    /\ params.engine = "ctranslate2" => Ordered(output, size)
    /\ vad_pc = "collect" /\ i <= Len(segments) =>
          \A k \in 1..Len(output) : output[k].end <= CsToSamples(segments[i].start)

VadInv ==
    /\ VadTypeOK /\ Ordered(speeches, AudioLength)
    /\ ControlInv /\ ScanInv /\ SegmentsInv /\ OutputInv
-----------------------------------------------------------------------------
(* Arithmetic of windows and of rounding.                                  *)

LEMMA ConstantFacts ==
    /\ Window \in Nat /\ Window >= 1 /\ SamplesPerCs \in Nat /\ SamplesPerCs >= 1
    /\ SplitSilence \in Nat /\ MergeGap \in Nat /\ Silence \in Nat /\ MaxSamples \in Nat
BY VadAssumption

LEMMA SettingFacts ==
    ASSUME NEW p \in Settings
    PROVE  /\ p.minSilence \in Nat /\ p.minSpeech \in Nat /\ p.maxSpeech \in Nat
           /\ p.pad \in Nat /\ p.overlap \in Nat
BY VadAssumption DEF SettingsType

LEMMA ProductMonotone ==
    ASSUME NEW a \in Nat, NEW b \in Nat, NEW d \in Nat, a <= b
    PROVE  /\ d * a \in Nat /\ d * b \in Nat /\ d * a <= d * b
           /\ a * d \in Nat /\ b * d \in Nat /\ a * d <= b * d
OBVIOUS

LEMMA DivideFloor ==
    ASSUME NEW a \in Nat, NEW d \in Nat \ {0}
    PROVE  a \div d \in Nat /\ (a \div d) * d <= a /\ a < (a \div d) * d + d
OBVIOUS

LEMMA WindowsFit ==
    ASSUME size \in Nat
    PROVE  /\ NProbs \in Nat /\ AudioLength \in Nat
           /\ \A j \in Nat : j <= NProbs => Window * j \in Nat /\ Window * j <= AudioLength
           /\ \A j \in Nat : Window * j \in Nat /\ Window * (j + 1) = Window * j + Window
<1>1. Window \in Nat \ {0}
  BY ConstantFacts
<1>2. size \div Window \in Nat
  BY <1>1, DivideFloor
<1>3. NProbs \in Nat
  BY <1>2 DEF NProbs
<1>4. AudioLength = Window * NProbs
  BY <1>1, <1>3 DEF AudioLength
<1> HIDE DEF NProbs
<1>5. ASSUME NEW j \in Nat, j <= NProbs PROVE Window * j \in Nat /\ Window * j <= AudioLength
  BY <1>1, <1>3, <1>4, <1>5, ProductMonotone
<1>6. ASSUME NEW j \in Nat PROVE Window * j \in Nat /\ Window * (j + 1) = Window * j + Window
  BY <1>1
<1>7. AudioLength \in Nat
  BY <1>1, <1>3, <1>4
<1> QED BY <1>3, <1>5, <1>6, <1>7

LEMMA GridFacts ==
    ASSUME VadTypeOK
    PROVE  /\ i \in Nat /\ Window * i \in Nat /\ Window * (i + 1) = Window * i + Window
           /\ NProbs \in Nat /\ AudioLength \in Nat /\ size \in Nat
           /\ i <= NProbs => Window * i <= AudioLength
<1>1. i \in Nat /\ size \in Nat
  BY ConstantFacts DEF VadTypeOK
<1> QED BY <1>1, WindowsFit

LEMMA RoundingMonotone ==
    ASSUME NEW a \in Nat, NEW b \in Nat, a <= b
    PROVE  /\ SamplesToCs(a) \in Nat /\ SamplesToCs(b) \in Nat
           /\ SamplesToCs(a) <= SamplesToCs(b)
<1> DEFINE d == 2 * SamplesPerCs
           x == 2 * a + SamplesPerCs
           y == 2 * b + SamplesPerCs
           q == x \div d
           r == y \div d
<1>1. d \in Nat \ {0} /\ x \in Nat /\ y \in Nat /\ x <= y
  BY ConstantFacts
<1> HIDE DEF d, x, y
<1>2. q \in Nat /\ q * d <= x /\ x < q * d + d /\ r \in Nat /\ r * d <= y /\ y < r * d + d
  BY <1>1, DivideFloor
<1> HIDE DEF q, r
<1>3. ASSUME q > r PROVE FALSE
  <2>1. r + 1 <= q /\ r + 1 \in Nat
    BY <1>2, <1>3
  <2>2. (r + 1) * d <= q * d
    BY <1>1, <1>2, <2>1, ProductMonotone
  <2>3. (r + 1) * d = r * d + d /\ r * d \in Nat /\ q * d \in Nat
    BY <1>1, <1>2
  <2> QED BY <1>1, <1>2, <2>2, <2>3
<1>4. q <= r
  BY <1>2, <1>3
<1> QED BY <1>2, <1>4 DEF q, r, d, x, y, SamplesToCs

LEMMA CsMonotone ==
    ASSUME NEW a \in Nat, NEW b \in Nat, a <= b
    PROVE  CsToSamples(a) \in Nat /\ CsToSamples(b) \in Nat /\ CsToSamples(a) <= CsToSamples(b)
BY ConstantFacts, ProductMonotone DEF CsToSamples
-----------------------------------------------------------------------------
(* Ordered sequences of pieces.                                            *)

LEMMA PieceFacts ==
    ASSUME NEW a \in Nat, NEW b \in Nat
    PROVE  Piece(a, b) \in PieceType /\ Piece(a, b).start = a /\ Piece(a, b).end = b
BY DEF Piece, PieceType

LEMMA PiecesTyped ==
    ASSUME NEW f \in Seq(PieceType), NEW k \in 1..Len(f)
    PROVE  f[k] \in PieceType /\ f[k].start \in Nat /\ f[k].end \in Nat
<1>1. f[k] \in PieceType
  BY ElementOfSeq
<1> QED BY <1>1 DEF PieceType

LEMMA Empty ==
    ASSUME NEW b \in Nat
    PROVE  <<>> \in Seq(PieceType) /\ Ordered(<<>>, b) /\ InOrder(<<>>)
BY DEF Ordered, InOrder

LEMMA OrderedWider ==
    ASSUME NEW f \in Seq(PieceType), NEW a \in Nat, NEW b \in Nat, a <= b, Ordered(f, a)
    PROVE  Ordered(f, b)
BY PiecesTyped DEF Ordered

LEMMA OrderedAppend ==
    ASSUME NEW f \in Seq(PieceType), NEW x \in Nat, NEW y \in Nat, NEW b \in Nat,
           Ordered(f, x), x <= y, y <= b
    PROVE  Append(f, Piece(x, y)) \in Seq(PieceType) /\ Ordered(Append(f, Piece(x, y)), b)
<1> DEFINE p == Piece(x, y)
           g == Append(f, p)
<1>1. p \in PieceType /\ p.start = x /\ p.end = y
  BY PieceFacts
<1> HIDE DEF p
<1>2. /\ g \in Seq(PieceType) /\ Len(g) = Len(f) + 1 /\ Len(f) \in Nat
      /\ \A k \in 1..Len(f) : g[k] = f[k]
      /\ g[Len(f) + 1] = p
  BY <1>1, AppendProperties, LenProperties
<1> HIDE DEF g
<1>3. /\ \A k \in 1..Len(f) : f[k].start \in Nat /\ f[k].end \in Nat /\ 0 <= f[k].start
                                /\ f[k].start <= f[k].end /\ f[k].end <= x
      /\ \A k \in 1..(Len(f) - 1) : f[k].end <= f[k + 1].start
  BY PiecesTyped DEF Ordered
<1>4. \A k \in 1..Len(g) : 0 <= g[k].start /\ g[k].start <= g[k].end /\ g[k].end <= b
  <2> TAKE k \in 1..Len(g)
  <2>1. CASE k \in 1..Len(f)
    BY <1>2, <1>3, <2>1
  <2>2. CASE k = Len(f) + 1
    BY <1>1, <1>2, <2>2
  <2> QED BY <1>2, <2>1, <2>2
<1>5. \A k \in 1..(Len(g) - 1) : g[k].end <= g[k + 1].start
  <2> TAKE k \in 1..(Len(g) - 1)
  <2>1. CASE k \in 1..(Len(f) - 1)
    <3>1. g[k] = f[k] /\ g[k + 1] = f[k + 1]
      BY <1>2, <2>1
    <3> QED BY <1>3, <2>1, <3>1
  <2>2. CASE k = Len(f)
    <3>1. g[k] = f[k] /\ g[k + 1] = p /\ k \in 1..Len(f)
      BY <1>2, <2>2
    <3> QED BY <1>1, <1>3, <3>1
  <2> QED BY <1>2, <2>1, <2>2
<1> QED BY <1>2, <1>4, <1>5 DEF g, p, Ordered

(* Taking one piece out. *)
LEMMA WithoutOrdered ==
    ASSUME NEW f \in Seq(PieceType), NEW b \in Nat, Ordered(f, b), NEW k \in 1..Len(f)
    PROVE  Without(f, k) \in Seq(PieceType) /\ Ordered(Without(f, k), b)
<1> DEFINE n == Len(f) - 1
           g == [j \in 1..n |-> IF j < k THEN f[j] ELSE f[j + 1]]
<1>1. n \in Nat /\ Len(f) \in Nat /\ Len(f) = n + 1
  BY LenProperties
<1>2. \A j \in 1..n : g[j] \in PieceType
  BY <1>1, PiecesTyped
<1>3. g \in Seq(PieceType) /\ Len(g) = n
  BY <1>1, <1>2
<1>4. /\ \A j \in 1..Len(f) : f[j].start \in Nat /\ f[j].end \in Nat
                                /\ f[j].start <= f[j].end /\ f[j].end <= b
      /\ \A j \in 1..(Len(f) - 1) : f[j].end <= f[j + 1].start
  BY PiecesTyped DEF Ordered
<1>5. \A j \in 1..n : g[j] = IF j < k THEN f[j] ELSE f[j + 1]
  OBVIOUS
<1> HIDE DEF g, n
<1>6. \A j \in 1..Len(g) : 0 <= g[j].start /\ g[j].start <= g[j].end /\ g[j].end <= b
  BY <1>1, <1>3, <1>4, <1>5
<1>7. ASSUME NEW j \in 1..(Len(g) - 1) PROVE g[j].end <= g[j + 1].start
  <2>1. j \in 1..n /\ j + 1 \in 1..n
    BY <1>1, <1>3
  <2>2. CASE j + 1 < k
    <3>1. g[j] = f[j] /\ g[j + 1] = f[j + 1]
      BY <1>5, <2>1, <2>2
    <3> QED BY <1>1, <1>4, <2>1, <3>1
  <2>3. CASE j + 1 = k
    <3>1. g[j] = f[j] /\ g[j + 1] = f[j + 2]
      BY <1>1, <1>5, <2>1, <2>3
    <3>2. f[j].end <= f[j + 1].start /\ f[j + 1].start <= f[j + 1].end /\ f[j + 1].end <= f[j + 2].start
      <4>1. j \in 1..(Len(f) - 1) /\ j + 1 \in 1..(Len(f) - 1) /\ j + 1 + 1 = j + 2 /\ j + 1 \in 1..Len(f)
        BY <1>1, <2>1
      <4> QED BY <1>4, <4>1
    <3>3. j \in 1..Len(f) /\ j + 1 \in 1..Len(f) /\ j + 2 \in 1..Len(f)
      BY <1>1, <2>1
    <3> QED BY <1>4, <3>1, <3>2, <3>3
  <2>4. CASE k <= j
    <3>1. g[j] = f[j + 1] /\ g[j + 1] = f[j + 2]
      BY <1>1, <1>5, <2>1, <2>4
    <3>2. j + 1 \in 1..(Len(f) - 1) /\ j + 1 + 1 = j + 2
      BY <1>1, <2>1
    <3> QED BY <1>4, <3>1, <3>2
  <2> QED BY <2>1, <2>2, <2>3, <2>4
<1> QED BY <1>1, <1>3, <1>6, <1>7 DEF g, n, Without, Ordered

(* Joining two neighbours. *)
LEMMA MergedOrdered ==
    ASSUME NEW f \in Seq(PieceType), NEW b \in Nat, Ordered(f, b), NEW k \in 1..(Len(f) - 1)
    PROVE  LET g == Without([f EXCEPT ![k].end = f[k + 1].end], k + 1)
           IN  /\ g \in Seq(PieceType) /\ Ordered(g, b) /\ Len(g) = Len(f) - 1
               /\ g[k].start = f[k].start /\ g[k].end = f[k + 1].end
               /\ \A j \in 1..(Len(f) - 1) : /\ j < k => g[j] = f[j]
                                             /\ j > k => g[j] = f[j + 1]
<1> DEFINE n == Len(f) - 1
           h == [f EXCEPT ![k].end = f[k + 1].end]
           w == Without(h, k + 1)
<1>1. n \in Nat /\ Len(f) \in Nat /\ Len(f) = n + 1 /\ k \in 1..n /\ k \in 1..Len(f) /\ k + 1 \in 1..Len(f)
  BY LenProperties
<1>2. DOMAIN f = 1..Len(f)
  BY LenProperties
<1>3. /\ \A j \in 1..Len(f) : f[j] \in PieceType /\ f[j].start \in Nat /\ f[j].end \in Nat
                                /\ f[j].start <= f[j].end /\ f[j].end <= b
      /\ \A j \in 1..(Len(f) - 1) : f[j].end <= f[j + 1].start
  BY PiecesTyped DEF Ordered
<1>4. h[k] \in PieceType /\ h[k].start = f[k].start /\ h[k].end = f[k + 1].end
  <2>1. h[k] = [f[k] EXCEPT !.end = f[k + 1].end]
    BY <1>1, <1>2
  <2>2. f[k] \in PieceType /\ f[k + 1].end \in Nat
    BY <1>1, <1>3
  <2> QED BY <2>1, <2>2 DEF PieceType
<1>5. \A j \in 1..Len(f) : j # k => h[j] = f[j]
  BY <1>2
<1>6. h \in Seq(PieceType) /\ Len(h) = Len(f)
  <2>1. \A j \in 1..Len(f) : h[j] \in PieceType
    BY <1>3, <1>4, <1>5
  <2>2. DOMAIN h = 1..Len(f)
    BY <1>2
  <2>3. h = [j \in 1..Len(f) |-> h[j]]
    BY <1>2
  <2> HIDE DEF h
  <2>4. h \in [1..Len(f) -> PieceType]
    BY <2>1, <2>3
  <2> QED BY <1>1, <2>4
<1> HIDE DEF h
<1>7. w = [j \in 1..n |-> IF j < k + 1 THEN h[j] ELSE h[j + 1]]
  BY <1>6 DEF Without
<1>8. \A j \in 1..n : w[j] = IF j < k THEN f[j] ELSE IF j = k THEN h[k] ELSE f[j + 1]
  <2> TAKE j \in 1..n
  <2>1. w[j] = IF j < k + 1 THEN h[j] ELSE h[j + 1]
    BY <1>7
  <2>2. j \in 1..Len(f) /\ j + 1 \in 1..Len(f)
    BY <1>1
  <2> QED BY <1>1, <1>5, <2>1, <2>2
<1>9. \A j \in 1..n : w[j] \in PieceType
  BY <1>1, <1>3, <1>4, <1>8
<1> HIDE DEF w
<1>10. w \in Seq(PieceType) /\ Len(w) = n
  BY <1>1, <1>7, <1>9
<1> HIDE DEF n
<1>11. /\ w[k].start = f[k].start /\ w[k].end = f[k + 1].end
       /\ f[k].start <= f[k + 1].end
  <2>1. w[k] = h[k]
    BY <1>1, <1>8
  <2>2. f[k].start <= f[k].end /\ f[k].end <= f[k + 1].start /\ f[k + 1].start <= f[k + 1].end
    BY <1>1, <1>3
  <2> QED BY <1>1, <1>3, <1>4, <2>1, <2>2
<1>12. ASSUME NEW j \in 1..n PROVE 0 <= w[j].start /\ w[j].start <= w[j].end /\ w[j].end <= b
  <2>1. j \in 1..Len(f) /\ j + 1 \in 1..Len(f)
    BY <1>1
  <2>2. CASE j < k
    BY <1>3, <1>8, <2>1, <2>2
  <2>3. CASE j = k
    BY <1>1, <1>3, <1>11, <2>1, <2>3
  <2>4. CASE j > k
    BY <1>1, <1>3, <1>8, <2>1, <2>4
  <2> QED BY <1>1, <2>1, <2>2, <2>3, <2>4
<1>13. ASSUME NEW j \in 1..(n - 1) PROVE w[j].end <= w[j + 1].start
  <2>1. /\ j \in 1..n /\ j + 1 \in 1..n /\ j \in 1..(Len(f) - 1) /\ j + 1 \in 1..(Len(f) - 1)
        /\ j + 1 + 1 = j + 2 /\ j \in Nat /\ k \in Nat
    BY <1>1
  <2>2. f[j].end <= f[j + 1].start /\ f[j + 1].end <= f[j + 2].start
    BY <1>3, <2>1
  <2>3. CASE j + 1 < k
    BY <1>8, <2>1, <2>2, <2>3
  <2>4. CASE j + 1 = k
    BY <1>8, <1>11, <2>1, <2>2, <2>4
  <2>5. CASE j = k
    BY <1>8, <1>11, <2>1, <2>2, <2>5
  <2>6. CASE j > k
    BY <1>8, <2>1, <2>2, <2>6
  <2> QED BY <2>1, <2>3, <2>4, <2>5, <2>6
<1>14. Ordered(w, b) /\ \A j \in 1..n : (j < k => w[j] = f[j]) /\ (j > k => w[j] = f[j + 1])
  BY <1>1, <1>8, <1>10, <1>12, <1>13 DEF Ordered
<1> QED BY <1>10, <1>11, <1>14 DEF w, h, n

(* Moving one end of one piece. *)
SetStart(f, k, v) == [f EXCEPT ![k].start = v]
SetEnd(f, k, v) == [f EXCEPT ![k].end = v]

LEMMA MovedEnds ==
    ASSUME NEW f \in Seq(PieceType), NEW k \in 1..Len(f), NEW v \in Nat
    PROVE  /\ SetStart(f, k, v) \in Seq(PieceType) /\ Len(SetStart(f, k, v)) = Len(f)
           /\ \A j \in 1..Len(f) : j # k => SetStart(f, k, v)[j] = f[j]
           /\ SetStart(f, k, v)[k].start = v /\ SetStart(f, k, v)[k].end = f[k].end
           /\ SetEnd(f, k, v) \in Seq(PieceType) /\ Len(SetEnd(f, k, v)) = Len(f)
           /\ \A j \in 1..Len(f) : j # k => SetEnd(f, k, v)[j] = f[j]
           /\ SetEnd(f, k, v)[k].end = v /\ SetEnd(f, k, v)[k].start = f[k].start
<1> DEFINE g == [f EXCEPT ![k].start = v]
           h == [f EXCEPT ![k].end = v]
<1>1. f \in [1..Len(f) -> PieceType] /\ Len(f) \in Nat
  BY LenProperties
<1>2. f[k] \in PieceType
  BY <1>1
<1>3. /\ g[k] = [f[k] EXCEPT !.start = v] /\ \A j \in 1..Len(f) : j # k => g[j] = f[j]
      /\ h[k] = [f[k] EXCEPT !.end = v] /\ \A j \in 1..Len(f) : j # k => h[j] = f[j]
  BY <1>1
<1>4. /\ g[k] \in PieceType /\ g[k].start = v /\ g[k].end = f[k].end
      /\ h[k] \in PieceType /\ h[k].end = v /\ h[k].start = f[k].start
  BY <1>2, <1>3 DEF PieceType
<1>5. g = [j \in 1..Len(f) |-> g[j]] /\ h = [j \in 1..Len(f) |-> h[j]]
  BY <1>1
<1> HIDE DEF g, h
<1>6. \A j \in 1..Len(f) : g[j] \in PieceType /\ h[j] \in PieceType
  BY <1>1, <1>3, <1>4
<1>7. g \in [1..Len(f) -> PieceType] /\ h \in [1..Len(f) -> PieceType]
  BY <1>5, <1>6
<1>8. g \in Seq(PieceType) /\ Len(g) = Len(f) /\ h \in Seq(PieceType) /\ Len(h) = Len(f)
  BY <1>1, <1>7
<1> QED BY <1>3, <1>4, <1>8 DEF g, h, SetStart, SetEnd

(* The padding at both sides of a gap does not meet. *)
LEMMA PadNumbers ==
    ASSUME params \in Settings, size \in Nat, NEW a \in Nat, NEW c \in Nat, a <= c, c <= AudioLength
    PROVE  /\ Earlier(c) \in Nat /\ Earlier(c) <= c
           /\ Later(a) \in Nat /\ a <= Later(a) /\ Later(a) <= AudioLength
           /\ c - a >= 2 * params.pad => Later(a) <= Earlier(c)
           /\ LET half == (c - a) \div 2
                  s == IF c > half THEN c - half ELSE 0
              IN  half \in Nat /\ s \in Nat /\ s <= c /\ a + half <= s
<1>1. params.pad \in Nat /\ AudioLength \in Nat
  BY SettingFacts, WindowsFit
<1> QED BY <1>1 DEF Earlier, Later, Lesser

LEMMA EarlierFacts ==
    ASSUME params \in Settings, NEW c \in Nat
    PROVE  Earlier(c) \in Nat /\ Earlier(c) <= c
<1>1. params.pad \in Nat
  BY SettingFacts
<1> QED BY <1>1 DEF Earlier

(* Where the padding puts the end of the k-th piece and the start of the   *)
(* one after it.                                                           *)
Gap(f, k) == f[k + 1].start - f[k].end
PaddedEnd(f, k) ==
    IF k < Len(f) /\ Gap(f, k) < 2 * params.pad THEN f[k].end + (Gap(f, k) \div 2)
    ELSE Later(f[k].end)
PaddedStart(f, k) ==
    LET half == Gap(f, k) \div 2
    IN  IF Gap(f, k) < 2 * params.pad
        THEN IF f[k + 1].start > half THEN f[k + 1].start - half ELSE 0
        ELSE Earlier(f[k + 1].start)

LEMMA PaddedOrdered ==
    ASSUME params \in Settings, size \in Nat, NEW f \in Seq(PieceType), Ordered(f, AudioLength),
           NEW k \in 1..Len(f)
    PROVE  /\ Padded(f, k) \in Seq(PieceType) /\ Len(Padded(f, k)) = Len(f)
           /\ Ordered(Padded(f, k), AudioLength)
           /\ \A j \in 1..(k - 1) : Padded(f, k)[j] = f[j]
           /\ Padded(f, k)[k].start = IF k = 1 THEN Earlier(f[1].start) ELSE f[k].start
           /\ Padded(f, k)[k].end = PaddedEnd(f, k)
           /\ k < Len(f) => /\ Padded(f, k)[k + 1].start = PaddedStart(f, k)
                            /\ Padded(f, k)[k + 1].end = f[k + 1].end
           /\ \A j \in 1..Len(f) : j > k + 1 => Padded(f, k)[j] = f[j]
<1> DEFINE B == AudioLength
           g == IF k = 1 THEN [f EXCEPT ![1].start = Earlier(@)] ELSE f
<1>1. B \in Nat /\ Len(f) \in Nat /\ params.pad \in Nat
  BY WindowsFit, SettingFacts
<1>2. /\ \A j \in 1..Len(f) : f[j].start \in Nat /\ f[j].end \in Nat
                                /\ f[j].start <= f[j].end /\ f[j].end <= B
      /\ \A j \in 1..(Len(f) - 1) : f[j].end <= f[j + 1].start
  BY PiecesTyped DEF Ordered
<1>3. /\ g \in Seq(PieceType) /\ Len(g) = Len(f)
      /\ \A j \in 1..Len(f) : g[j].end = f[j].end /\ g[j].start \in Nat /\ g[j].start <= f[j].start
      /\ \A j \in 1..Len(f) : j # 1 => g[j] = f[j]
      /\ \A j \in 1..(k - 1) : g[j] = f[j]
  <2>1. CASE k = 1
    <3>1. g = SetStart(f, 1, Earlier(f[1].start)) /\ 1 \in 1..Len(f)
      BY <2>1 DEF SetStart
    <3>2. Earlier(f[1].start) \in Nat /\ Earlier(f[1].start) <= f[1].start
      <4>1. f[1].start \in Nat
        BY <1>2, <3>1
      <4> QED BY <4>1, EarlierFacts
    <3> HIDE DEF g
    <3>3. g \in Seq(PieceType) /\ Len(g) = Len(f) /\ (\A j \in 1..Len(f) : j # 1 => g[j] = f[j])
          /\ g[1].start = Earlier(f[1].start) /\ g[1].end = f[1].end
      BY <3>1, <3>2, MovedEnds
    <3>4. ASSUME NEW j \in 1..Len(f)
          PROVE  g[j].end = f[j].end /\ g[j].start \in Nat /\ g[j].start <= f[j].start
      <4>1. f[j].start \in Nat /\ f[j].start <= f[j].start
        BY <1>2
      <4>2. CASE j = 1
        BY <3>2, <3>3, <4>2
      <4>3. CASE j # 1
        BY <3>3, <4>1, <4>3
      <4> QED BY <4>2, <4>3
    <3>5. 1..(k - 1) = {}
      BY <2>1
    <3> QED BY <3>3, <3>4, <3>5
  <2>2. CASE k # 1
    <3>1. g = f
      BY <2>2
    <3> HIDE DEF g
    <3>2. \A j \in 1..Len(f) : f[j].start <= f[j].start
      BY <1>2
    <3> QED BY <1>2, <3>1, <3>2
  <2> QED BY <2>1, <2>2
<1>3a. g[k].start = IF k = 1 THEN Earlier(f[1].start) ELSE f[k].start
  <2>1. CASE k = 1
    <3>1. g = SetStart(f, 1, Earlier(f[1].start)) /\ 1 \in 1..Len(f)
      BY <2>1 DEF SetStart
    <3>2. Earlier(f[1].start) \in Nat
      <4>1. f[1].start \in Nat
        BY <1>2, <3>1
      <4> QED BY <4>1, EarlierFacts
    <3> HIDE DEF g
    <3> QED BY <2>1, <3>1, <3>2, MovedEnds
  <2>2. CASE k # 1
    BY <2>2
  <2> QED BY <2>1, <2>2
<1>4. \A j \in 1..(Len(f) - 1) : f[j].end <= g[j + 1].start
  <2> TAKE j \in 1..(Len(f) - 1)
  <2>1. j + 1 \in 1..Len(f) /\ j + 1 # 1
    BY <1>1
  <2> QED BY <1>2, <1>3, <2>1
<1>5. CASE k = Len(f)
  <2> DEFINE p == SetEnd(g, k, Later(f[k].end))
  <2>1. Padded(f, k) = p
    <3>1. g[k].end = f[k].end
      BY <1>3
    <3> QED BY <1>5, <3>1 DEF Padded, SetEnd
  <2>2. Later(f[k].end) \in Nat /\ f[k].end <= Later(f[k].end) /\ Later(f[k].end) <= B
    BY <1>1, <1>2, PadNumbers
  <2>3. /\ p \in Seq(PieceType) /\ Len(p) = Len(f)
        /\ \A j \in 1..Len(f) : j # k => p[j] = g[j]
        /\ p[k].end = Later(f[k].end) /\ p[k].start = g[k].start
    <3> HIDE DEF g
    <3>1. g \in Seq(PieceType) /\ k \in 1..Len(g) /\ Len(g) = Len(f)
      BY <1>3
    <3> QED BY <2>2, <3>1, MovedEnds
  <2> HIDE DEF p, g
  <2>4. ASSUME NEW j \in 1..Len(f) PROVE 0 <= p[j].start /\ p[j].start <= p[j].end /\ p[j].end <= B
    <3>1. CASE j = k
      BY <1>1, <1>2, <1>3, <2>2, <2>3, <3>1
    <3>2. CASE j # k
      BY <1>1, <1>2, <1>3, <2>3, <3>2
    <3> QED BY <3>1, <3>2
  <2>5. ASSUME NEW j \in 1..(Len(f) - 1) PROVE p[j].end <= p[j + 1].start
    <3>1. j # k /\ j \in 1..Len(f) /\ j + 1 \in 1..Len(f)
      BY <1>1, <1>5
    <3>2. p[j].end = f[j].end /\ p[j + 1].start = g[j + 1].start
      BY <1>3, <2>3, <3>1
    <3> QED BY <1>4, <3>2
  <2>6. \A j \in 1..(k - 1) : p[j] = f[j]
    <3> TAKE j \in 1..(k - 1)
    <3>1. j \in 1..Len(f) /\ j # k
      BY <1>1
    <3> QED BY <1>3, <2>3, <3>1
  <2>7. Ordered(p, B)
    BY <2>3, <2>4, <2>5 DEF Ordered
  <2>8. PaddedEnd(f, k) = Later(f[k].end)
    BY <1>1, <1>5 DEF PaddedEnd
  <2>9. /\ p[k].start = IF k = 1 THEN Earlier(f[1].start) ELSE f[k].start
        /\ p[k].end = PaddedEnd(f, k)
        /\ ~ (k < Len(f)) /\ \A j \in 1..Len(f) : ~ (j > k + 1)
    BY <1>1, <1>5, <1>3a, <2>3, <2>8
  <2> QED BY <2>1, <2>3, <2>6, <2>7, <2>9
<1>6. CASE k # Len(f)
  <2> DEFINE gap == f[k + 1].start - f[k].end
             half == gap \div 2
             low == IF f[k + 1].start > half THEN f[k + 1].start - half ELSE 0
             e == IF gap < 2 * params.pad THEN f[k].end + half ELSE Later(f[k].end)
             s == IF gap < 2 * params.pad THEN low ELSE Earlier(f[k + 1].start)
             q == SetEnd(g, k, e)
             p == SetStart(q, k + 1, s)
  <2>1. k + 1 \in 1..Len(f) /\ k \in 1..(Len(f) - 1) /\ k + 1 # k /\ k + 1 # 1
    BY <1>1, <1>6
  <2>2. /\ f[k].end \in Nat /\ f[k + 1].start \in Nat /\ f[k + 1].end \in Nat /\ f[k].end <= f[k + 1].start
        /\ f[k + 1].start <= f[k + 1].end /\ f[k + 1].end <= B /\ f[k + 1].start <= B
    BY <1>1, <1>2, <2>1
  <2>3. /\ half \in Nat /\ low \in Nat /\ low <= f[k + 1].start /\ f[k].end + half <= low
        /\ Later(f[k].end) \in Nat /\ f[k].end <= Later(f[k].end)
        /\ Earlier(f[k + 1].start) \in Nat /\ Earlier(f[k + 1].start) <= f[k + 1].start
        /\ gap >= 2 * params.pad => Later(f[k].end) <= Earlier(f[k + 1].start)
    BY <2>2, PadNumbers
  <2>4. gap \in Nat
    BY <2>2
  <2>5. Padded(f, k) = p
    <3>1. g[k].end = f[k].end /\ g[k + 1] = f[k + 1]
      BY <1>3, <2>1
    <3>2. DOMAIN g = 1..Len(f)
      BY <1>3
    <3>3. CASE gap < 2 * params.pad
      <4>1. Padded(f, k) = [g EXCEPT ![k].end = @ + half, ![k + 1].start = IF @ > half THEN @ - half ELSE 0]
        BY <1>6, <3>3 DEF Padded
      <4>2. e = g[k].end + half /\ s = IF g[k + 1].start > half THEN g[k + 1].start - half ELSE 0
        BY <3>1, <3>3
      <4> HIDE DEF g, half, e, s, gap
      <4> QED BY <2>1, <3>2, <4>1, <4>2 DEF SetEnd, SetStart
    <3>4. CASE ~ (gap < 2 * params.pad)
      <4>1. Padded(f, k) = [g EXCEPT ![k].end = Later(@), ![k + 1].start = Earlier(@)]
        BY <1>6, <3>4 DEF Padded
      <4>2. e = Later(g[k].end) /\ s = Earlier(g[k + 1].start)
        BY <3>1, <3>4
      <4> HIDE DEF g, half, e, s, gap
      <4> QED BY <2>1, <3>2, <4>1, <4>2 DEF SetEnd, SetStart
    <3> QED BY <3>3, <3>4
  <2> HIDE DEF g, half, low, gap
  <2>6. e \in Nat /\ s \in Nat /\ f[k].end <= e /\ e <= s /\ s <= f[k + 1].start
    <3>1. CASE gap < 2 * params.pad
      <4>1. e = f[k].end + half /\ s = low
        BY <3>1
      <4> HIDE DEF e, s
      <4> QED BY <2>2, <2>3, <4>1
    <3>2. CASE ~ (gap < 2 * params.pad)
      <4>1. e = Later(f[k].end) /\ s = Earlier(f[k + 1].start)
        BY <3>2
      <4>2. gap >= 2 * params.pad
        BY <1>1, <2>4, <3>2
      <4> HIDE DEF e, s
      <4> QED BY <2>3, <4>1, <4>2
    <3> QED BY <3>1, <3>2
  <2> HIDE DEF e, s
  <2>7. /\ q \in Seq(PieceType) /\ Len(q) = Len(f)
        /\ \A j \in 1..Len(f) : j # k => q[j] = g[j]
        /\ q[k].end = e /\ q[k].start = g[k].start
    <3>1. g \in Seq(PieceType) /\ k \in 1..Len(g) /\ Len(g) = Len(f)
      BY <1>3
    <3> QED BY <2>6, <3>1, MovedEnds
  <2> HIDE DEF q
  <2>8. /\ p \in Seq(PieceType) /\ Len(p) = Len(f)
        /\ \A j \in 1..Len(f) : j # k + 1 => p[j] = q[j]
        /\ p[k + 1].start = s /\ p[k + 1].end = q[k + 1].end
    BY <2>1, <2>6, <2>7, MovedEnds
  <2> HIDE DEF p
  <2>9. ASSUME NEW j \in 1..Len(f) PROVE 0 <= p[j].start /\ p[j].start <= p[j].end /\ p[j].end <= B
    <3>1. CASE j = k
      <4>1. p[j].start = g[k].start /\ p[j].end = e
        BY <2>1, <2>7, <2>8, <3>1
      <4>2. /\ g[k].start \in Nat /\ g[k].start <= f[k].start /\ f[k].start \in Nat
            /\ f[k].start <= f[k].end
        BY <1>2, <1>3
      <4>3. e <= B
        BY <1>1, <2>1, <2>2, <2>6
      <4> QED BY <1>1, <2>2, <2>6, <4>1, <4>2, <4>3
    <3>2. CASE j = k + 1
      <4>1. p[j].start = s /\ p[j].end = f[k + 1].end
        BY <1>3, <2>1, <2>7, <2>8, <3>2
      <4> QED BY <1>1, <2>2, <2>6, <4>1
    <3>3. CASE j # k /\ j # k + 1
      <4>1. p[j] = g[j]
        BY <2>7, <2>8, <3>3
      <4> QED BY <1>1, <1>2, <1>3, <4>1
    <3> QED BY <3>1, <3>2, <3>3
  <2>10. ASSUME NEW j \in 1..(Len(f) - 1) PROVE p[j].end <= p[j + 1].start
    <3>0. j \in 1..Len(f) /\ j + 1 \in 1..Len(f) /\ j + 1 # 1
      BY <1>1
    <3>1. CASE j = k
      <4>1. p[j].end = e /\ p[j + 1].start = s
        BY <2>1, <2>7, <2>8, <3>1
      <4> QED BY <2>6, <4>1
    <3>2. CASE j = k + 1
      <4>1. p[j].end = f[j].end /\ p[j + 1] = f[j + 1]
        BY <1>1, <1>3, <2>1, <2>7, <2>8, <3>0, <3>2
      <4> QED BY <1>2, <4>1
    <3>3. CASE j + 1 = k
      <4>1. p[j].end = f[j].end /\ p[j + 1].start = g[j + 1].start
        BY <1>1, <1>3, <2>1, <2>7, <2>8, <3>0, <3>3
      <4> QED BY <1>4, <4>1
    <3>4. CASE j # k /\ j # k + 1 /\ j + 1 # k
      <4>1. p[j].end = f[j].end /\ p[j + 1] = g[j + 1]
        BY <1>1, <1>3, <2>1, <2>7, <2>8, <3>0, <3>4
      <4> QED BY <1>4, <4>1
    <3> QED BY <3>1, <3>2, <3>3, <3>4
  <2>11. \A j \in 1..(k - 1) : p[j] = f[j]
    <3> TAKE j \in 1..(k - 1)
    <3>1. j \in 1..Len(f) /\ j # k /\ j # k + 1
      BY <1>1
    <3> QED BY <1>3, <2>7, <2>8, <3>1
  <2>12. Ordered(p, B)
    BY <2>8, <2>9, <2>10 DEF Ordered
  <2>13. PaddedEnd(f, k) = e /\ PaddedStart(f, k) = s
    <3>1. Gap(f, k) = gap /\ k < Len(f)
      BY <1>1, <1>6 DEF Gap, gap
    <3> QED BY <3>1 DEF PaddedEnd, PaddedStart, e, s, low, half
  <2>14. /\ p[k].start = IF k = 1 THEN Earlier(f[1].start) ELSE f[k].start
         /\ p[k].end = e /\ p[k + 1].start = s /\ p[k + 1].end = f[k + 1].end
    BY <1>3, <1>3a, <2>1, <2>7, <2>8
  <2>15. \A j \in 1..Len(f) : j > k + 1 => p[j] = f[j]
    <3> SUFFICES ASSUME NEW j \in 1..Len(f), j > k + 1 PROVE p[j] = f[j]
      OBVIOUS
    <3>1. j # k + 1 /\ j # k /\ j # 1
      BY <1>1
    <3> QED BY <1>3, <2>7, <2>8, <3>1
  <2> QED BY <2>5, <2>8, <2>11, <2>12, <2>13, <2>14, <2>15
<1> QED BY <1>5, <1>6
-----------------------------------------------------------------------------
(* The blocks of the first loop.                                           *)

LEMMA NotSpeakingFacts ==
    ASSUME NEW a \in Nat, NEW f \in Seq(PieceType), NEW s \in Nat, Ordered(f, s)
    PROVE  LET c == [NotSpeaking EXCEPT !.start = a]
           IN  c \in ScanType /\ ~ c.is_speech_segment /\ ScanOK(c, f, s)
BY DEF NotSpeaking, ScanType, ScanOK

LEMMA ResumeFacts ==
    ASSUME NEW c \in ScanType, NEW f, NEW s \in Nat, ScanOK(c, f, s)
    PROVE  LET d == ResumeSpeech(c, s)
           IN  /\ d \in ScanType /\ ScanOK(d, f, s)
               /\ d.is_speech_segment = c.is_speech_segment /\ d.start = c.start
               /\ d.prev_end = c.prev_end
               /\ ~ c.is_speech_segment => d = c
<1>1. CASE c.temp_end = 0
  BY <1>1 DEF ResumeSpeech
<1>2. CASE c.temp_end # 0
  <2> DEFINE n == IF c.next_start < c.prev_end THEN s ELSE c.next_start
             d == [c EXCEPT !.temp_end = 0, !.next_start = n]
  <2>1. ResumeSpeech(c, s) = d
    BY <1>2 DEF ResumeSpeech
  <2>2. c.is_speech_segment = TRUE /\ c.next_start <= s
    BY <1>2 DEF ScanOK, Open, ScanType
  <2>3. n \in Nat /\ n <= s
    BY <2>2 DEF ScanType
  <2> HIDE DEF n
  <2>4. /\ d \in ScanType /\ d.is_speech_segment = TRUE /\ d.start = c.start /\ d.temp_end = 0
        /\ d.prev_end = c.prev_end /\ d.next_start = n
    BY <2>2, <2>3 DEF ScanType
  <2> HIDE DEF d
  <2>5. ScanOK(d, f, s)
    BY <2>2, <2>3, <2>4 DEF ScanOK, Open
  <2> QED BY <2>1, <2>2, <2>4, <2>5
<1> QED BY <1>1, <1>2

LEMMA ResumedFacts ==
    ASSUME VadTypeOK, ScanInv, vad_pc = "scan", NEW class
    PROVE  LET d == Resumed(class)
           IN  /\ d \in ScanType /\ ScanOK(d, speeches, Window * i)
               /\ d.is_speech_segment = scan.is_speech_segment
               /\ ~ scan.is_speech_segment => d = scan
<1>1. scan \in ScanType /\ Window * i \in Nat /\ ScanOK(scan, speeches, Window * i)
  BY WindowsFit DEF VadTypeOK, ScanInv, ScanType
<1>2. CASE Reaches(class)
  BY <1>1, <1>2, ResumeFacts DEF Resumed
<1>3. CASE ~ Reaches(class)
  BY <1>1, <1>3 DEF Resumed
<1> QED BY <1>2, <1>3

(* The cut at a silence seen before, when speech has lasted too long. *)
LEMMA CutFacts ==
    ASSUME NEW c \in ScanType, NEW f \in Seq(PieceType), NEW s \in Nat, ScanOK(c, f, s),
           c.is_speech_segment, c.prev_end # 0
    PROVE  LET g == Append(f, Piece(c.start, c.prev_end))
               d == CutAtSilence(c)
           IN  g \in Seq(PieceType) /\ d \in ScanType /\ ScanOK(d, g, s)
<1> DEFINE g == Append(f, Piece(c.start, c.prev_end))
           d == CutAtSilence(c)
<1>1. /\ c.start \in Nat /\ c.prev_end \in Nat /\ c.next_start \in Nat /\ c.start <= c.prev_end
      /\ c.prev_end <= s /\ c.next_start <= s /\ Ordered(f, c.start)
  BY DEF ScanType, ScanOK, Open
<1>2. g \in Seq(PieceType) /\ Ordered(g, c.prev_end) /\ Ordered(g, s)
  BY <1>1, OrderedAppend
<1> HIDE DEF g
<1>3. CASE c.next_start < c.prev_end
  <2>1. d = [NotSpeaking EXCEPT !.start = c.start]
    BY <1>3 DEF CutAtSilence
  <2> HIDE DEF d
  <2>2. d \in ScanType /\ ScanOK(d, g, s)
    BY <1>1, <1>2, <2>1, NotSpeakingFacts
  <2> QED BY <1>2, <2>2 DEF d, g
<1>4. CASE ~ (c.next_start < c.prev_end)
  <2>1. d = [NotSpeaking EXCEPT !.is_speech_segment = TRUE, !.start = c.next_start]
    BY <1>4 DEF CutAtSilence
  <2> HIDE DEF d
  <2>2. /\ d \in ScanType /\ d.is_speech_segment = TRUE /\ d.start = c.next_start
        /\ d.temp_end = 0 /\ d.prev_end = 0 /\ d.next_start = 0
    BY <1>1, <2>1 DEF NotSpeaking, ScanType
  <2>3. c.prev_end <= c.next_start
    BY <1>1, <1>4
  <2>4. Ordered(g, c.next_start)
    BY <1>1, <1>2, <2>3, OrderedWider
  <2> QED BY <1>1, <1>2, <2>2, <2>4 DEF ScanOK, Open, d, g
<1> QED BY <1>3, <1>4 DEF g

(* Silence within a segment, and the segment it ends. *)
LEMMA NoteFacts ==
    ASSUME NEW c \in ScanType, NEW f, NEW s \in Nat, ScanOK(c, f, s), c.is_speech_segment
    PROVE  LET e == NoteSilence(c, s)
           IN  /\ e \in ScanType /\ ScanOK(e, f, s) /\ e.start = c.start
               /\ c.start <= e.temp_end /\ e.temp_end <= s /\ e.temp_end \in Nat
<1> DEFINE t == IF c.temp_end = 0 THEN s ELSE c.temp_end
           r == IF s - t > SplitSilence THEN t ELSE c.prev_end
           e == [c EXCEPT !.temp_end = t, !.prev_end = r]
<1>1. NoteSilence(c, s) = e
  BY DEF NoteSilence
<1>2. t \in Nat /\ c.start <= t /\ t <= s
  BY DEF ScanType, ScanOK, Open
<1> HIDE DEF t
<1>3. r \in Nat /\ (r = 0 \/ (c.start <= r /\ r <= s))
  BY <1>2 DEF ScanType, ScanOK, Open
<1> HIDE DEF r
<1>4. /\ e \in ScanType /\ e.is_speech_segment = c.is_speech_segment /\ e.start = c.start
      /\ e.temp_end = t /\ e.prev_end = r /\ e.next_start = c.next_start
  BY <1>2, <1>3 DEF ScanType
<1> HIDE DEF e
<1>5. ScanOK(e, f, s)
  BY <1>2, <1>3, <1>4 DEF ScanOK, Open
<1> QED BY <1>1, <1>2, <1>4, <1>5

LEMMA EndedFacts ==
    ASSUME params \in Settings, NEW c \in ScanType, NEW f \in Seq(PieceType), NEW s \in Nat,
           Ordered(f, c.start), Ordered(f, s), c.temp_end <= s
    PROVE  Ended(c, f) \in Seq(PieceType) /\ Ordered(Ended(c, f), s)
<1>1. c.start \in Nat /\ c.temp_end \in Nat /\ params.minSpeech \in Nat
  BY SettingFacts DEF ScanType
<1>2. CASE c.temp_end - c.start > params.minSpeech
  <2>1. c.start <= c.temp_end
    BY <1>1, <1>2
  <2> QED BY <1>1, <1>2, <2>1, OrderedAppend DEF Ended
<1>3. CASE ~ (c.temp_end - c.start > params.minSpeech)
  BY <1>3 DEF Ended
<1> QED BY <1>2, <1>3

(* What an iteration of the first loop leaves behind. *)
ScanKeeps ==
    /\ scan' \in ScanType /\ speeches' \in Seq(PieceType)
    /\ ScanOK(scan', speeches', Window * i)

LEMMA ScanStartKeeps ==
    ASSUME VadTypeOK, ScanInv, NEW class, ScanStart(class)
    PROVE  ScanKeeps
<1> DEFINE s == Window * i
<1>1. vad_pc = "scan" /\ scan.is_speech_segment = FALSE /\ speeches' = speeches
  BY DEF ScanStart, NextWindow, VadTypeOK
<1>2. scan \in ScanType /\ s \in Nat /\ ScanOK(scan, speeches, s) /\ speeches \in Seq(PieceType)
  BY <1>1, WindowsFit DEF VadTypeOK, ScanInv, ScanType
<1> HIDE DEF s
<1>3. Resumed(class) = scan
  BY <1>1, ResumedFacts
<1>4. scan' = [scan EXCEPT !.is_speech_segment = TRUE, !.start = s]
  BY <1>3 DEF ScanStart, s
<1>5. /\ scan' \in ScanType /\ scan'.is_speech_segment = TRUE /\ scan'.start = s
      /\ scan'.temp_end = scan.temp_end /\ scan'.prev_end = scan.prev_end
      /\ scan'.next_start = scan.next_start
  BY <1>2, <1>4 DEF ScanType
<1>6. scan.temp_end = 0 /\ scan.prev_end = 0 /\ scan.next_start = 0 /\ Ordered(speeches, s)
  BY <1>1, <1>2 DEF ScanOK
<1>7. ScanOK(scan', speeches, s)
  BY <1>2, <1>5, <1>6 DEF ScanOK, Open
<1> QED BY <1>1, <1>2, <1>5, <1>7 DEF ScanKeeps, s

LEMMA ScanCutHereKeeps ==
    ASSUME VadTypeOK, ScanInv, NEW class, ScanCutHere(class)
    PROVE  ScanKeeps
<1> DEFINE s == Window * i
           c == Resumed(class)
<1>1. vad_pc = "scan"
  BY DEF ScanCutHere, NextWindow
<1>2. s \in Nat /\ speeches \in Seq(PieceType) /\ params.maxSpeech \in Nat
  BY GridFacts, SettingFacts DEF VadTypeOK
<1>3. c \in ScanType /\ ScanOK(c, speeches, s)
  BY <1>1, ResumedFacts
<1>4. /\ TooLong(c, s) /\ speeches' = Append(speeches, Piece(c.start, s))
      /\ scan' = [NotSpeaking EXCEPT !.start = c.start]
  BY DEF ScanCutHere
<1> HIDE DEF c, s
<1>5. c.start \in Nat /\ c.start <= s /\ Ordered(speeches, c.start)
  BY <1>2, <1>3, <1>4 DEF TooLong, ScanOK, Open, ScanType
<1>6. speeches' \in Seq(PieceType) /\ Ordered(speeches', s)
  BY <1>2, <1>4, <1>5, OrderedAppend
<1> QED BY <1>2, <1>4, <1>5, <1>6, NotSpeakingFacts DEF ScanKeeps, s

LEMMA ScanWindowKeeps ==
    ASSUME VadTypeOK, ScanInv, NEW class, ScanWindow(class)
    PROVE  ScanKeeps
<1> DEFINE s == Window * i
           c == Resumed(class)
           cut == TooLong(c, s)
           found == IF cut THEN Append(speeches, Piece(c.start, c.prev_end)) ELSE speeches
           d == IF cut THEN CutAtSilence(c) ELSE c
           e == NoteSilence(d, s)
<1>1. vad_pc = "scan"
  BY DEF ScanWindow, NextWindow
<1>2. s \in Nat /\ speeches \in Seq(PieceType) /\ params \in Settings
  BY GridFacts DEF VadTypeOK
<1>3. c \in ScanType /\ ScanOK(c, speeches, s)
  BY <1>1, ResumedFacts
<1>4. /\ ~ (cut /\ c.prev_end = 0)
      /\ IF ~ (Below(class) /\ d.is_speech_segment) THEN scan' = d /\ speeches' = found
         ELSE IF s - e.temp_end < params.minSilence THEN scan' = e /\ speeches' = found
         ELSE scan' = [NotSpeaking EXCEPT !.start = d.start] /\ speeches' = Ended(e, found)
  BY DEF ScanWindow
<1> HIDE DEF s, c
<1>5. found \in Seq(PieceType) /\ d \in ScanType /\ ScanOK(d, found, s)
  <2>1. CASE cut
    <3>1. c.is_speech_segment /\ c.prev_end # 0
      BY <1>4, <2>1 DEF TooLong
    <3> QED BY <1>2, <1>3, <2>1, <3>1, CutFacts
  <2>2. CASE ~ cut
    BY <1>2, <1>3, <2>2
  <2> QED BY <2>1, <2>2
<1> HIDE DEF cut, found, d, e
<1>6. CASE ~ (Below(class) /\ d.is_speech_segment)
  BY <1>4, <1>5, <1>6 DEF ScanKeeps, s
<1>7. CASE Below(class) /\ d.is_speech_segment
  <2>1. /\ e \in ScanType /\ ScanOK(e, found, s) /\ e.start = d.start /\ e.temp_end <= s
    BY <1>2, <1>5, <1>7, NoteFacts DEF e
  <2>2. CASE s - e.temp_end < params.minSilence
    BY <1>4, <1>5, <1>7, <2>1, <2>2 DEF ScanKeeps, s
  <2>3. CASE ~ (s - e.temp_end < params.minSilence)
    <3>1. scan' = [NotSpeaking EXCEPT !.start = d.start] /\ speeches' = Ended(e, found)
      BY <1>4, <1>7, <2>3
    <3>2. Ordered(found, e.start) /\ Ordered(found, s) /\ d.start \in Nat
      BY <1>5, <1>7, <2>1 DEF ScanOK, ScanType
    <3>3. speeches' \in Seq(PieceType) /\ Ordered(speeches', s)
      BY <1>2, <1>5, <2>1, <3>1, <3>2, EndedFacts
    <3> QED BY <1>2, <3>1, <3>2, <3>3, NotSpeakingFacts DEF ScanKeeps, s
  <2> QED BY <2>2, <2>3
<1> QED BY <1>6, <1>7
-----------------------------------------------------------------------------
(* One lemma per action, or for several that touch the same state.         *)

LEMMA SameLength == ASSUME size' = size PROVE NProbs' = NProbs /\ AudioLength' = AudioLength
BY DEF NProbs, AudioLength

LEMMA InitVad == VadInit => VadInv
<1> SUFFICES ASSUME VadInit PROVE VadInv
  OBVIOUS
<1>1. VadTypeOK
  BY ConstantFacts DEF VadInit, VadTypeOK, NotSpeaking
<1>2. AudioLength \in Nat /\ size = 0
  BY <1>1, GridFacts DEF VadInit
<1>3. Ordered(speeches, AudioLength) /\ Ordered(output, size) /\ InOrder(segments)
  BY <1>2, Empty DEF VadInit
<1>4. ControlInv /\ ScanInv /\ SegmentsInv /\ OutputInv
  BY <1>3 DEF VadInit, ControlInv, ScanInv, SegmentsInv, OutputInv
<1> QED BY <1>1, <1>3, <1>4 DEF VadInv

LEMMA CallKeeps ==
    ASSUME VadInv, NEW p \in Settings, NEW n \in 0..MaxSamples, Call(p, n)
    PROVE  VadInv'
<1>1. VadTypeOK'
  BY ConstantFacts DEF VadInv, Call, VadTypeOK, NotSpeaking
<1>2. size' \in Nat /\ i' = 0 /\ speeches' = <<>> /\ output' = <<>> /\ segments' = <<>>
  BY ConstantFacts DEF Call
<1>3. (NProbs \in Nat)' /\ (AudioLength \in Nat)' /\ (Window * i \in Nat)'
  BY <1>1, GridFacts, PTL
<1>4. /\ Ordered(speeches', AudioLength') /\ Ordered(output', size') /\ InOrder(segments')
      /\ Ordered(speeches', Window * i')
  BY <1>2, <1>3, Empty
<1>5. ControlInv'
  BY ConstantFacts DEF Call, ControlInv
<1>6. ScanInv'
  <2>1. i' <= NProbs'
    BY <1>2, <1>3
  <2>2. /\ scan'.is_speech_segment = FALSE /\ scan'.temp_end = 0 /\ scan'.prev_end = 0
        /\ scan'.next_start = 0
    BY DEF Call, NotSpeaking
  <2> QED BY <1>4, <2>1, <2>2 DEF ScanInv, ScanOK
<1>7. SegmentsInv' /\ OutputInv'
  BY <1>4 DEF Call, SegmentsInv, OutputInv
<1> QED BY <1>1, <1>4, <1>5, <1>6, <1>7 DEF VadInv

LEMMA DetectFailsKeeps == ASSUME VadInv, DetectFails PROVE VadInv'
<1>1. vad_pc' = "idle" /\ UNCHANGED <<i, scan, speeches, segments, output, allocated, offset, mapping, params, size, loud>>
  BY DEF DetectFails, copy, call
<1>2. AudioLength' = AudioLength
  BY <1>1, SameLength
<1>3. VadTypeOK'
  BY <1>1 DEF VadInv, VadTypeOK
<1>4. Ordered(speeches, AudioLength)'
  BY <1>1, <1>2 DEF VadInv, Ordered
<1>5. ControlInv' /\ ScanInv'
  BY <1>1 DEF ControlInv, ScanInv
<1>6. SegmentsInv' /\ OutputInv'
  BY <1>1 DEF VadInv, SegmentsInv, OutputInv, InOrder, Ordered
<1> QED BY <1>3, <1>4, <1>5, <1>6 DEF VadInv

(* The three ways through an iteration of the first loop. *)
LEMMA ScanKeepsInvariant ==
    ASSUME VadInv, NEW class, NextWindow(class), ScanKeeps
    PROVE  VadInv'
<1>1. /\ vad_pc = "scan" /\ vad_pc' = "scan" /\ i < NProbs /\ i' = i + 1
      /\ UNCHANGED <<params, size, segments, output, allocated, offset, mapping>>
  BY DEF NextWindow, copy
<1>2. VadTypeOK /\ i \in Nat /\ Window * i \in Nat /\ Window * (i + 1) = Window * i + Window
      /\ NProbs \in Nat /\ AudioLength \in Nat
  BY GridFacts DEF VadInv
<1>3. NProbs' = NProbs /\ AudioLength' = AudioLength
  BY <1>1, SameLength
<1>4. Window * i' = Window * i + Window /\ i' <= NProbs
  BY <1>1, <1>2
<1>5. VadTypeOK'
  <2>1. loud' \subseteq Nat
    BY <1>2 DEF NextWindow, VadTypeOK
  <2> QED BY <1>1, <1>2, <2>1 DEF VadTypeOK, ScanKeeps, ScanType
<1>6. Window * i' \in Nat /\ Window * i <= Window * i' /\ Window * i' <= AudioLength
  <2>1. Window \in Nat
    BY ConstantFacts
  <2>2. i' \in Nat /\ size \in Nat
    BY <1>1, <1>2, GridFacts
  <2>3. Window * i' <= AudioLength
    BY <1>4, <2>2, WindowsFit
  <2> QED BY <1>2, <1>4, <2>1, <2>3
<1>7. ScanOK(scan', speeches', Window * i')
  <2> DEFINE s == Window * i
             t == Window * i'
  <2>1. s \in Nat /\ t \in Nat /\ s <= t /\ scan' \in ScanType /\ speeches' \in Seq(PieceType) /\ ScanOK(scan', speeches', s)
    BY <1>2, <1>6 DEF ScanKeeps
  <2> HIDE DEF s, t
  <2>2. Ordered(speeches', t)
    BY <2>1, OrderedWider DEF ScanOK
  <2>3. ScanOK(scan', speeches', t)
    BY <2>1, <2>2 DEF ScanOK, Open, ScanType
  <2> QED BY <2>3 DEF t
<1>8. Ordered(speeches', AudioLength')
  BY <1>2, <1>3, <1>6, <1>7, OrderedWider DEF ScanOK, ScanKeeps
<1>9. ControlInv' /\ SegmentsInv' /\ OutputInv'
  BY <1>1 DEF VadInv, ControlInv, SegmentsInv, OutputInv, InOrder, Ordered
<1>10. ScanInv'
  BY <1>3, <1>4, <1>7 DEF ScanInv
<1> QED BY <1>5, <1>8, <1>9, <1>10 DEF VadInv

(* The first three steps after the scan change the segments found only. *)
LEMMA SpeechesKeepInvariant ==
    ASSUME VadInv, speeches' \in Seq(PieceType), Ordered(speeches', AudioLength),
           vad_pc \in {"scan", "merge", "short"}, vad_pc' \in {"merge", "short"},
           i' \in Nat, i' >= 1,
           UNCHANGED <<scan, segments, output, copy, call>>
    PROVE  VadInv'
<1>1. UNCHANGED <<scan, segments, output, allocated, offset, mapping, params, size, loud>>
  BY DEF copy, call
<1>2. AudioLength' = AudioLength
  BY <1>1, SameLength
<1>3. VadTypeOK'
  BY <1>1 DEF VadInv, VadTypeOK
<1>4. ControlInv' /\ ScanInv' /\ SegmentsInv' /\ OutputInv'
  BY <1>1 DEF VadInv, ControlInv, ScanInv, SegmentsInv, OutputInv, InOrder, Ordered
<1> QED BY <1>2, <1>3, <1>4 DEF VadInv

LEMMA ScanEndKeeps == ASSUME VadInv, ScanEnd PROVE VadInv'
<1>1. VadTypeOK /\ AudioLength \in Nat /\ Window * i \in Nat /\ params.minSpeech \in Nat
  BY GridFacts, SettingFacts DEF VadInv, VadTypeOK
<1>2. /\ vad_pc = "scan" /\ vad_pc' = "merge" /\ i' = 1 /\ UNCHANGED <<scan, segments, output, copy, call>>
      /\ speeches' = IF scan.is_speech_segment /\ AudioLength - scan.start > params.minSpeech
                     THEN Append(speeches, Piece(scan.start, AudioLength)) ELSE speeches
  BY DEF ScanEnd
<1>3. scan.start \in Nat /\ speeches \in Seq(PieceType) /\ Ordered(speeches, AudioLength)
  BY DEF VadInv, VadTypeOK
<1>4. speeches' \in Seq(PieceType) /\ Ordered(speeches', AudioLength)
  <2>1. CASE scan.is_speech_segment /\ AudioLength - scan.start > params.minSpeech
    <3>1. Ordered(speeches, scan.start)
      BY <1>2, <2>1 DEF VadInv, ScanInv, ScanOK
    <3>2. scan.start <= AudioLength
      BY <1>1, <1>3, <2>1
    <3> QED BY <1>1, <1>2, <1>3, <2>1, <3>1, <3>2, OrderedAppend
  <2>2. CASE ~ (scan.is_speech_segment /\ AudioLength - scan.start > params.minSpeech)
    BY <1>2, <1>3, <2>2
  <2> QED BY <2>1, <2>2
<1> QED BY <1>2, <1>4, SpeechesKeepInvariant

LEMMA MergeKeeps == ASSUME VadInv, Merge PROVE VadInv'
<1>1. /\ vad_pc = "merge" /\ vad_pc' = "merge" /\ i \in Nat /\ i >= 1 /\ i < Len(speeches)
      /\ UNCHANGED <<scan, segments, output, copy, call>>
      /\ speeches \in Seq(PieceType) /\ Ordered(speeches, AudioLength) /\ AudioLength \in Nat
  BY GridFacts DEF Merge, VadInv, VadTypeOK, ControlInv
<1>2. i \in 1..(Len(speeches) - 1)
  BY <1>1, LenProperties
<1>3. CASE speeches[i + 1].start - speeches[i].end < MergeGap
  <2>1. i' = i /\ speeches' = Without([speeches EXCEPT ![i].end = speeches[i + 1].end], i + 1)
    BY <1>3 DEF Merge
  <2>2. speeches' \in Seq(PieceType) /\ Ordered(speeches', AudioLength)
    BY <1>1, <1>2, <2>1, MergedOrdered
  <2> QED BY <1>1, <2>1, <2>2, SpeechesKeepInvariant
<1>4. CASE ~ (speeches[i + 1].start - speeches[i].end < MergeGap)
  <2>1. i' = i + 1 /\ speeches' = speeches
    BY <1>4 DEF Merge
  <2> QED BY <1>1, <2>1, SpeechesKeepInvariant
<1> QED BY <1>3, <1>4

LEMMA RemoveShortKeeps == ASSUME VadInv, RemoveShort PROVE VadInv'
<1>1. /\ vad_pc = "short" /\ vad_pc' = "short" /\ i \in Nat /\ i >= 1 /\ i <= Len(speeches)
      /\ UNCHANGED <<scan, segments, output, copy, call>>
      /\ speeches \in Seq(PieceType) /\ Ordered(speeches, AudioLength) /\ AudioLength \in Nat
  BY GridFacts DEF RemoveShort, VadInv, VadTypeOK, ControlInv
<1>2. i \in 1..Len(speeches)
  BY <1>1, LenProperties
<1>3. CASE speeches[i].end - speeches[i].start < params.minSpeech
  <2>1. i' = i /\ speeches' = Without(speeches, i)
    BY <1>3 DEF RemoveShort
  <2>2. speeches' \in Seq(PieceType) /\ Ordered(speeches', AudioLength)
    BY <1>1, <1>2, <2>1, WithoutOrdered
  <2> QED BY <1>1, <2>1, <2>2, SpeechesKeepInvariant
<1>4. CASE ~ (speeches[i].end - speeches[i].start < params.minSpeech)
  <2>1. i' = i + 1 /\ speeches' = speeches
    BY <1>4 DEF RemoveShort
  <2> QED BY <1>1, <2>1, SpeechesKeepInvariant
<1> QED BY <1>3, <1>4

(* Rounding keeps pieces in order. *)
LEMMA RoundedInOrder ==
    ASSUME NEW f \in Seq(PieceType), NEW b, Ordered(f, b), NEW g \in Seq(PieceType), Len(g) <= Len(f),
           \A k \in 1..Len(g) : g[k] = Rounded(f[k])
    PROVE  InOrder(g)
<1>0. Len(f) \in Nat /\ Len(g) \in Nat
  BY LenProperties
<1>1. ASSUME NEW k \in 1..Len(g)
      PROVE  g[k].start = SamplesToCs(f[k].start) /\ g[k].end = SamplesToCs(f[k].end)
  <2>1. g[k] = Rounded(f[k])
    OBVIOUS
  <2> QED BY <2>1 DEF Rounded, Piece
<1>2. ASSUME NEW k \in 1..Len(g) PROVE g[k].start <= g[k].end
  <2>1. k \in 1..Len(f)
    BY <1>0
  <2>2. f[k].start \in Nat /\ f[k].end \in Nat /\ f[k].start <= f[k].end
    BY <2>1, PiecesTyped DEF Ordered
  <2> QED BY <1>1, <2>2, RoundingMonotone
<1>3. ASSUME NEW k \in 1..(Len(g) - 1) PROVE g[k].end <= g[k + 1].start
  <2>1. k \in 1..Len(g) /\ k + 1 \in 1..Len(g) /\ k \in 1..(Len(f) - 1) /\ k \in 1..Len(f) /\ k + 1 \in 1..Len(f)
    BY <1>0
  <2>2. f[k].end \in Nat /\ f[k + 1].start \in Nat /\ f[k].end <= f[k + 1].start
    BY <2>1, PiecesTyped DEF Ordered
  <2> QED BY <1>1, <2>1, <2>2, RoundingMonotone
<1> QED BY <1>2, <1>3 DEF InOrder

LEMMA PadKeeps == ASSUME VadInv, Pad PROVE VadInv'
<1>1. /\ vad_pc = "pad" /\ vad_pc' = "pad" /\ i \in Nat /\ i >= 1 /\ i <= Len(speeches) /\ i' = i + 1
      /\ UNCHANGED <<scan, output, allocated, offset, mapping, params, size, loud>>
      /\ speeches' = Padded(speeches, i)
      /\ segments' = Append(segments, Rounded(speeches'[i]))
      /\ speeches \in Seq(PieceType) /\ Ordered(speeches, AudioLength) /\ segments \in Seq(PieceType)
      /\ Len(segments) = i - 1 /\ \A k \in 1..(i - 1) : segments[k] = Rounded(speeches[k])
      /\ params \in Settings
  BY DEF Pad, VadInv, VadTypeOK, ControlInv, SegmentsInv, copy, call, Rounded
<1>2. AudioLength \in Nat /\ size \in Nat /\ AudioLength' = AudioLength
  BY <1>1, GridFacts, SameLength DEF VadInv
<1>3. i \in 1..Len(speeches) /\ Len(speeches) \in Nat
  BY <1>1, LenProperties
<1>4. /\ speeches' \in Seq(PieceType) /\ Len(speeches') = Len(speeches)
      /\ Ordered(speeches', AudioLength) /\ \A j \in 1..(i - 1) : speeches'[j] = speeches[j]
  BY <1>1, <1>2, <1>3, PaddedOrdered
<1>5. Rounded(speeches'[i]) \in PieceType
  <2>1. speeches'[i].start \in Nat /\ speeches'[i].end \in Nat /\ speeches'[i].start <= speeches'[i].end
    BY <1>3, <1>4, PiecesTyped DEF Ordered
  <2>2. SamplesToCs(speeches'[i].start) \in Nat /\ SamplesToCs(speeches'[i].end) \in Nat
    BY <2>1, RoundingMonotone
  <2> QED BY <2>2, PieceFacts DEF Rounded
<1>6. /\ segments' \in Seq(PieceType) /\ Len(segments') = i
      /\ \A k \in 1..(i - 1) : segments'[k] = segments[k]
      /\ segments'[i] = Rounded(speeches'[i])
  BY <1>1, <1>5, AppendProperties
<1>7. \A k \in 1..i : segments'[k] = Rounded(speeches'[k])
  <2> TAKE k \in 1..i
  <2>1. CASE k = i
    BY <1>6, <2>1
  <2>2. CASE k \in 1..(i - 1)
    <3>1. segments'[k] = Rounded(speeches[k]) /\ speeches'[k] = speeches[k]
      BY <1>1, <1>4, <1>6, <2>2
    <3> QED BY <3>1
  <2> QED BY <1>1, <2>1, <2>2
<1>8. InOrder(segments')
  <2>1. Len(segments') <= Len(speeches') /\ \A k \in 1..Len(segments') : segments'[k] = Rounded(speeches'[k])
    BY <1>3, <1>4, <1>6, <1>7
  <2> QED BY <1>4, <1>6, <2>1, RoundedInOrder
<1>9. SegmentsInv'
  BY <1>1, <1>3, <1>4, <1>6, <1>7, <1>8 DEF SegmentsInv
<1>10. VadTypeOK'
  BY <1>1, <1>4, <1>6 DEF VadInv, VadTypeOK
<1>11. ControlInv' /\ ScanInv' /\ OutputInv'
  BY <1>1 DEF VadInv, ControlInv, ScanInv, OutputInv, Ordered
<1> QED BY <1>2, <1>4, <1>9, <1>10, <1>11 DEF VadInv

LEMMA LoopEndKeeps == ASSUME VadInv, LoopEnd PROVE VadInv'
<1>1. /\ i' = 1
      /\ UNCHANGED <<scan, speeches, segments, output, allocated, offset, mapping, params, size, loud>>
      /\ vad_pc \in {"merge", "short", "pad", "measure", "collect"}
      /\ vad_pc = "merge" => vad_pc' = "short"
      /\ vad_pc = "short" => vad_pc' = "pad"
      /\ vad_pc = "pad" => vad_pc' = IF params.engine = "ctranslate2" THEN "collect" ELSE "measure"
      /\ vad_pc = "measure" => vad_pc' = "copy"
      /\ vad_pc = "collect" => vad_pc' = "idle"
  BY DEF LoopEnd, copy, call
<1>2. AudioLength' = AudioLength
  BY <1>1, SameLength
<1>3. VadTypeOK'
  BY <1>1 DEF VadInv, VadTypeOK
<1>4. Ordered(speeches, AudioLength)'
  BY <1>1, <1>2 DEF VadInv
<1>5. ControlInv'
  BY <1>1 DEF VadInv, ControlInv
<1>6. ScanInv'
  BY <1>1 DEF ScanInv
<1>7. SegmentsInv'
  <2>1. InOrder(segments')
    BY <1>1 DEF VadInv, SegmentsInv
  <2>2. ASSUME vad_pc' = "pad" PROVE segments' = <<>> /\ i' = 1 /\ Len(speeches') \in Nat
    <3>1. segments = <<>> /\ Len(speeches) \in Nat
      BY <1>1, <2>2, LenProperties DEF VadInv, ControlInv, VadTypeOK
    <3> QED BY <1>1, <3>1
  <2>3. vad_pc' = "pad" => /\ Len(segments') = i' - 1 /\ i' <= Len(speeches') + 1
                           /\ \A k \in 1..(i' - 1) : segments'[k] = Rounded(speeches'[k])
    BY <2>2
  <2> QED BY <2>1, <2>3 DEF SegmentsInv
<1>8. OutputInv'
  <2>1. params'.engine = "ctranslate2" => Ordered(output', size')
    BY <1>1 DEF VadInv, OutputInv
  <2>2. vad_pc' = "collect" => output' = <<>>
    BY <1>1 DEF VadInv, ControlInv
  <2> QED BY <2>1, <2>2 DEF OutputInv
<1> QED BY <1>3, <1>4, <1>5, <1>6, <1>7, <1>8 DEF VadInv

(* A segment in samples again, cut off at sample last. *)
LEMMA ClampFacts ==
    ASSUME NEW a \in Nat, NEW b \in Nat, a <= b, NEW last \in Nat
    PROVE  /\ Lesser(last, a) \in Nat /\ Lesser(last, b) \in Nat /\ Lesser(last, a) <= Lesser(last, b)
           /\ Lesser(last, a) <= last /\ Lesser(last, b) <= last
           /\ Lesser(last, a) <= a /\ Lesser(last, b) <= b
           /\ Lesser(a, last) \in Nat /\ Lesser(b, last) \in Nat /\ Lesser(a, last) <= Lesser(b, last)
BY DEF Lesser

LEMMA SegmentFacts ==
    ASSUME VadInv, NEW k \in 1..Len(segments)
    PROVE  /\ segments[k].start \in Nat /\ segments[k].end \in Nat
           /\ segments[k].start <= segments[k].end
           /\ CsToSamples(segments[k].start) \in Nat /\ CsToSamples(segments[k].end) \in Nat
           /\ CsToSamples(segments[k].start) <= CsToSamples(segments[k].end)
           /\ k < Len(segments) => /\ segments[k + 1].start \in Nat
                                    /\ CsToSamples(segments[k + 1].start) \in Nat
                                    /\ CsToSamples(segments[k].end) <= CsToSamples(segments[k + 1].start)
<1>1. segments \in Seq(PieceType) /\ InOrder(segments) /\ Len(segments) \in Nat
  BY LenProperties DEF VadInv, VadTypeOK, SegmentsInv
<1>2. segments[k].start \in Nat /\ segments[k].end \in Nat /\ segments[k].start <= segments[k].end
  BY <1>1, PiecesTyped DEF InOrder
<1>3. /\ CsToSamples(segments[k].start) \in Nat /\ CsToSamples(segments[k].end) \in Nat
      /\ CsToSamples(segments[k].start) <= CsToSamples(segments[k].end)
  BY <1>2, CsMonotone
<1>4. ASSUME k < Len(segments)
      PROVE  /\ segments[k + 1].start \in Nat
             /\ CsToSamples(segments[k + 1].start) \in Nat
             /\ CsToSamples(segments[k].end) <= CsToSamples(segments[k + 1].start)
  <2>1. k \in 1..(Len(segments) - 1) /\ k + 1 \in 1..Len(segments)
    BY <1>1, <1>4
  <2>2. segments[k + 1].start \in Nat /\ segments[k].end <= segments[k + 1].start
    BY <1>1, <2>1, PiecesTyped DEF InOrder
  <2> QED BY <1>2, <2>2, CsMonotone
<1> QED BY <1>2, <1>3, <1>4

LEMMA CollectKeeps == ASSUME VadInv, Collect PROVE VadInv'
<1> DEFINE start == Lesser(size, CsToSamples(segments[i].start))
           end == Lesser(size, CsToSamples(segments[i].end))
<1>1. /\ vad_pc = "collect" /\ vad_pc' = "collect" /\ i \in Nat /\ i >= 1 /\ i <= Len(segments) /\ i' = i + 1
      /\ UNCHANGED <<scan, speeches, segments, allocated, offset, mapping, params, size, loud>>
      /\ output' = IF end > start THEN Append(output, Piece(start, end)) ELSE output
      /\ output \in Seq(PieceType) /\ segments \in Seq(PieceType)
  BY DEF Collect, VadInv, VadTypeOK, ControlInv, copy, call
<1>2. size \in Nat /\ AudioLength' = AudioLength /\ i \in 1..Len(segments) /\ Len(segments) \in Nat
  BY <1>1, GridFacts, SameLength, LenProperties DEF VadInv
<1> DEFINE a == CsToSamples(segments[i].start)
           b == CsToSamples(segments[i].end)
<1>3. a \in Nat /\ b \in Nat /\ a <= b /\ \A k \in 1..Len(output) : output[k].end <= a
  BY <1>1, <1>2, SegmentFacts DEF VadInv, OutputInv
<1>4. /\ start \in Nat /\ end \in Nat /\ start <= end /\ end <= size
      /\ end <= b /\ start = Lesser(size, a)
  BY <1>2, <1>3, ClampFacts
<1>5. i < Len(segments) => CsToSamples(segments[i + 1].start) \in Nat /\ b <= CsToSamples(segments[i + 1].start)
  BY <1>2, SegmentFacts
<1> HIDE DEF start, end, a, b
<1>6. output' \in Seq(PieceType) /\ \A k \in 1..Len(output') : output'[k].end \in Nat /\ output'[k].end <= b
  <2>1. \A k \in 1..Len(output) : output[k].end \in Nat /\ output[k].end <= b
    BY <1>1, <1>3, PiecesTyped
  <2>2. CASE end > start
    <3>1. output' = Append(output, Piece(start, end)) /\ Piece(start, end) \in PieceType /\ Piece(start, end).end = end
      BY <1>1, <1>4, <2>2, PieceFacts
    <3>2. /\ output' \in Seq(PieceType) /\ Len(output') = Len(output) + 1
          /\ \A k \in 1..Len(output) : output'[k] = output[k]
          /\ output'[Len(output) + 1] = Piece(start, end) /\ Len(output) \in Nat
      BY <1>1, <3>1, AppendProperties, LenProperties
    <3> QED BY <1>4, <2>1, <3>1, <3>2
  <2>3. CASE ~ (end > start)
    BY <1>1, <2>1, <2>3
  <2> QED BY <2>2, <2>3
<1>7. ASSUME params'.engine = "ctranslate2" PROVE Ordered(output', size')
  <2>1. Ordered(output, size)
    BY <1>1, <1>7 DEF VadInv, OutputInv
  <2>2. Ordered(output, start)
    <3>1. \A k \in 1..Len(output) : output[k].end \in Nat /\ output[k].end <= size /\ output[k].end <= a
      BY <1>1, <1>3, <2>1, PiecesTyped DEF Ordered
    <3>2. \A k \in 1..Len(output) : output[k].end <= start
      BY <1>2, <1>3, <1>4, <3>1 DEF Lesser
    <3> QED BY <2>1, <3>2 DEF Ordered
  <2>3. CASE end > start
    BY <1>1, <1>2, <1>4, <2>2, <2>3, OrderedAppend
  <2>4. CASE ~ (end > start)
    BY <1>1, <2>1, <2>4
  <2> QED BY <2>3, <2>4
<1>8. ASSUME i' <= Len(segments') PROVE \A k \in 1..Len(output') : output'[k].end <= CsToSamples(segments'[i'].start)
  <2>1. i < Len(segments) /\ segments'[i'].start = segments[i + 1].start
    BY <1>1, <1>2, <1>8
  <2> QED BY <1>3, <1>5, <1>6, <2>1
<1>9. OutputInv'
  BY <1>7, <1>8 DEF OutputInv
<1>10. VadTypeOK'
  BY <1>1, <1>6 DEF VadInv, VadTypeOK
<1>11. ControlInv' /\ ScanInv' /\ SegmentsInv'
  BY <1>1 DEF VadInv, ControlInv, ScanInv, SegmentsInv
<1>12. Ordered(speeches, AudioLength)'
  BY <1>1, <1>2 DEF VadInv
<1> QED BY <1>9, <1>10, <1>11, <1>12 DEF VadInv

(* The copy of the whisper.cpp engine: its numbers keep their types. *)
LEMMA CopyingKeeps ==
    ASSUME VadInv, vad_pc \in {"measure", "copy"}, vad_pc' \in {"idle", vad_pc}, i' \in Nat, i' >= 1,
           UNCHANGED <<scan, speeches, segments, call>>,
           output' \in Seq(PieceType), allocated' \in Int, offset' \in Nat,
           mapping' \subseteq [processed : Nat, original : Nat]
    PROVE  VadInv'
<1>1. UNCHANGED <<scan, speeches, segments, params, size, loud>>
  BY DEF call
<1>2. AudioLength' = AudioLength
  BY <1>1, SameLength
<1>3. VadTypeOK'
  BY <1>1 DEF VadInv, VadTypeOK
<1>4. ControlInv' /\ ScanInv' /\ SegmentsInv' /\ OutputInv'
  BY <1>1 DEF VadInv, ControlInv, ScanInv, SegmentsInv, OutputInv
<1>5. Ordered(speeches, AudioLength)'
  BY <1>1, <1>2 DEF VadInv
<1> QED BY <1>3, <1>4, <1>5 DEF VadInv

LEMMA MeasureKeeps == ASSUME VadInv, Measure PROVE VadInv'
<1>1. /\ vad_pc = "measure" /\ vad_pc' = vad_pc /\ i \in Nat /\ i >= 1 /\ i <= Len(segments) /\ i' = i + 1
      /\ UNCHANGED <<scan, speeches, segments, call>> /\ UNCHANGED <<output, offset, mapping>>
  BY DEF Measure, VadInv, VadTypeOK, ControlInv
<1>2. output' \in Seq(PieceType) /\ offset' \in Nat /\ mapping' \subseteq [processed : Nat, original : Nat]
  BY <1>1 DEF VadInv, VadTypeOK
<1>3. allocated' \in Int
  <2> DEFINE a == CsToSamples(segments[i].start)
             b == CsToSamples(segments[i].end)
             e == Lesser(WithOverlap(i, b), LastSample)
  <2>1. i \in 1..Len(segments) /\ size \in Nat /\ params.overlap \in Nat /\ allocated \in Int
    BY <1>1, GridFacts, SettingFacts, LenProperties DEF VadInv, VadTypeOK
  <2>2. a \in Nat /\ b \in Nat
    BY <2>1, SegmentFacts
  <2> HIDE DEF a, b
  <2>3. e \in Int
    BY <2>1, <2>2 DEF Lesser, WithOverlap, LastSample
  <2> HIDE DEF e
  <2>4. allocated' = allocated + (e - a) + (IF IsLast(i) THEN 0 ELSE Silence)
    BY DEF Measure, e, a, b
  <2> QED BY <2>1, <2>2, <2>3, <2>4, ConstantFacts
<1> QED BY <1>1, <1>2, <1>3, CopyingKeeps

LEMMA PointsTyped ==
    ASSUME VadInv, NEW k \in 1..Len(segments), NEW at \in Nat, NEW length \in Nat, NEW copied \in Nat
    PROVE  Points(k, at, length, copied) \subseteq [processed : Nat, original : Nat]
<1>1. /\ segments[k].start \in Nat /\ segments[k].end \in Nat /\ Silence \in Nat
      /\ ~ IsLast(k) => segments[k + 1].start \in Nat
  <2>1. Len(segments) \in Nat
    BY LenProperties DEF VadInv, VadTypeOK
  <2> QED BY <2>1, SegmentFacts, ConstantFacts DEF IsLast
<1>2. \A a \in Nat, b \in Nat : Point(a, b) \in [processed : Nat, original : Nat]
  BY RoundingMonotone DEF Point
<1> HIDE DEF Point
<1>3. at + length \in Nat /\ at + copied \in Nat /\ at + copied + Silence \in Nat
  BY <1>1
<1>4. CASE IsLast(k)
  <2>1. Points(k, at, length, copied) = {Point(at, segments[k].start), Point(at + length, segments[k].end)}
    BY <1>4 DEF Points
  <2>2. /\ Point(at, segments[k].start) \in [processed : Nat, original : Nat]
        /\ Point(at + length, segments[k].end) \in [processed : Nat, original : Nat]
    BY <1>1, <1>2, <1>3
  <2> QED BY <2>1, <2>2, Zenon
<1>5. CASE ~ IsLast(k)
  <2>1. Points(k, at, length, copied) =
            {Point(at, segments[k].start), Point(at + length, segments[k].end),
             Point(at + copied, segments[k].end), Point(at + copied + Silence, segments[k + 1].start)}
    BY <1>5 DEF Points
  <2>2. /\ Point(at, segments[k].start) \in [processed : Nat, original : Nat]
        /\ Point(at + length, segments[k].end) \in [processed : Nat, original : Nat]
        /\ Point(at + copied, segments[k].end) \in [processed : Nat, original : Nat]
        /\ Point(at + copied + Silence, segments[k + 1].start) \in [processed : Nat, original : Nat]
    BY <1>1, <1>2, <1>3, <1>5
  <2> QED BY <2>1, <2>2, Zenon
<1> QED BY <1>4, <1>5

LEMMA CopySegmentKeeps == ASSUME VadInv, CopySegment PROVE VadInv'
<1> DEFINE start == Lesser(CsToSamples(segments[i].start), LastSample)
           end == Lesser(CsToSamples(segments[i].end), LastSample)
           last == IF IsLast(i) THEN end ELSE Lesser(end + params.overlap, LastSample)
           copied == last - start
<1>1. /\ vad_pc = "copy" /\ vad_pc' = vad_pc /\ i \in Nat /\ i >= 1 /\ i <= Len(segments) /\ i' = i + 1
      /\ UNCHANGED <<scan, speeches, segments, call>> /\ allocated' = allocated
      /\ size >= 1
  BY DEF CopySegment, VadInv, VadTypeOK, ControlInv
<1>2. IF copied > 0
      THEN /\ output' = Append(output, Piece(start, last))
           /\ mapping' = mapping \cup Points(i, offset, end - start, copied)
           /\ offset' = offset + copied + (IF IsLast(i) THEN 0 ELSE Silence)
      ELSE UNCHANGED <<output, mapping, offset>>
  BY DEF CopySegment
<1>3. /\ i \in 1..Len(segments) /\ LastSample \in Nat /\ params.overlap \in Nat
      /\ output \in Seq(PieceType) /\ allocated \in Int /\ offset \in Nat
      /\ mapping \subseteq [processed : Nat, original : Nat]
  BY <1>1, GridFacts, SettingFacts, LenProperties DEF VadInv, VadTypeOK, LastSample
<1>4. start \in Nat /\ end \in Nat /\ start <= end
  BY <1>3, SegmentFacts, ClampFacts
<1> HIDE DEF start, end
<1>5. last \in Nat
  BY <1>3, <1>4 DEF Lesser
<1> HIDE DEF last
<1>6. output' \in Seq(PieceType) /\ offset' \in Nat /\ mapping' \subseteq [processed : Nat, original : Nat]
  <2>1. CASE copied > 0
    <3>1. copied \in Nat /\ end - start \in Nat
      BY <1>4, <1>5, <2>1
    <3>2. Piece(start, last) \in PieceType
      BY <1>4, <1>5, PieceFacts
    <3>3. Points(i, offset, end - start, copied) \subseteq [processed : Nat, original : Nat]
      BY <1>3, <3>1, PointsTyped
    <3> HIDE DEF copied
    <3>4. output' \in Seq(PieceType)
      BY <1>2, <1>3, <2>1, <3>2, AppendProperties
    <3>5. offset' \in Nat
      BY <1>2, <1>3, <2>1, <3>1, ConstantFacts
    <3>6. mapping' \subseteq [processed : Nat, original : Nat]
      BY <1>2, <1>3, <2>1, <3>3
    <3> QED BY <3>4, <3>5, <3>6
  <2>2. CASE ~ (copied > 0)
    BY <1>2, <1>3, <2>2
  <2> QED BY <2>1, <2>2
<1> QED BY <1>1, <1>3, <1>6, CopyingKeeps

LEMMA SortMappingKeeps == ASSUME VadInv, SortMapping PROVE VadInv'
<1>1. /\ vad_pc = "copy" /\ vad_pc' = "idle" /\ i' = i /\ i \in Nat /\ i >= 1
      /\ UNCHANGED <<scan, speeches, segments, call>> /\ UNCHANGED <<output, allocated, offset>>
      /\ mapping' \subseteq mapping
  BY DEF SortMapping, VadInv, VadTypeOK, ControlInv
<1>2. /\ output' \in Seq(PieceType) /\ allocated' \in Int /\ offset' \in Nat
      /\ mapping' \subseteq [processed : Nat, original : Nat]
  BY <1>1 DEF VadInv, VadTypeOK
<1> QED BY <1>1, <1>2, CopyingKeeps

LEMMA StutterKeeps == ASSUME VadInv, UNCHANGED vadVars PROVE VadInv'
<1>1. UNCHANGED <<vad_pc, i, scan, speeches, segments, output, allocated, offset, mapping, params, size, loud>>
  BY DEF vadVars, copy, call
<1>2. NProbs' = NProbs /\ AudioLength' = AudioLength
  BY <1>1, SameLength
<1>3. VadTypeOK' /\ ControlInv' /\ Ordered(speeches, AudioLength)'
  BY <1>1, <1>2 DEF VadInv, VadTypeOK, ControlInv
<1>4. ScanInv' /\ SegmentsInv' /\ OutputInv'
  BY <1>1, <1>2 DEF VadInv, ScanInv, SegmentsInv, OutputInv
<1> QED BY <1>3, <1>4 DEF VadInv

LEMMA VadStep == VadInv /\ [VadNext]_vadVars => VadInv'
<1> SUFFICES ASSUME VadInv, [VadNext]_vadVars PROVE VadInv'
  OBVIOUS
<1>1. ASSUME NEW p \in Settings, NEW n \in 0..MaxSamples, Call(p, n) PROVE VadInv'
  BY <1>1, CallKeeps
<1>2. ASSUME NEW class, ScanStart(class) \/ ScanCutHere(class) \/ ScanWindow(class) PROVE VadInv'
  <2>1. VadTypeOK /\ ScanInv
    BY DEF VadInv
  <2>2. NextWindow(class)
    BY <1>2 DEF ScanStart, ScanCutHere, ScanWindow
  <2>3. ScanKeeps
    BY <1>2, <2>1, ScanStartKeeps, ScanCutHereKeeps, ScanWindowKeeps
  <2> QED BY <2>2, <2>3, ScanKeepsInvariant
<1>3. CASE DetectFails
  BY <1>3, DetectFailsKeeps
<1>4. CASE ScanEnd
  BY <1>4, ScanEndKeeps
<1>5. CASE Merge
  BY <1>5, MergeKeeps
<1>6. CASE RemoveShort
  BY <1>6, RemoveShortKeeps
<1>7. CASE Pad
  BY <1>7, PadKeeps
<1>8. CASE LoopEnd
  BY <1>8, LoopEndKeeps
<1>9. CASE Collect
  BY <1>9, CollectKeeps
<1>10. CASE Measure
  BY <1>10, MeasureKeeps
<1>11. CASE CopySegment
  BY <1>11, CopySegmentKeeps
<1>12. CASE SortMapping
  BY <1>12, SortMappingKeeps
<1>13. CASE UNCHANGED vadVars
  BY <1>13, StutterKeeps
<1> QED
  BY <1>1, <1>2, <1>3, <1>4, <1>5, <1>6, <1>7, <1>8, <1>9, <1>10, <1>11, <1>12, <1>13 DEF VadNext

LEMMA VadInvariant == VadSpec => []VadInv
BY InitVad, VadStep, PTL DEF VadSpec

(* collect_whisper_vad_speech joins pieces of the recording in their order *)
(* and without overlap, for every setting and sequence of probabilities;   *)
(* no start falls below zero in whisper_vad_segments_from_probs.           *)
THEOREM PiecesStayOrdered == VadSpec => []PiecesOrdered
<1>1. VadInv => PiecesOrdered
  BY DEF VadInv, PiecesOrdered, OutputInv
<1> QED BY <1>1, VadInvariant, PTL
-----------------------------------------------------------------------------
(* No speech is lost.  A window that reached the threshold is held by a    *)
(* piece in which it begins, or at whose end it begins: a segment may end  *)
(* where such a window starts (a cut, or a threshold below the lower one), *)
(* and then the padding makes up for it.                                   *)

HalfCs == SamplesPerCs \div 2

Holds(p, w) == p.start <= Window * w /\ Window * w <= p.end
SomeHolds(f, w) == \E k \in 1..Len(f) : Holds(f[k], w)

(* The open segment will hold window w, also if it is cut at prev_end and  *)
(* goes on at next_start.                                                  *)
WillHold(c, w) ==
    /\ c.is_speech_segment /\ c.start <= Window * w
    /\ c.temp_end # 0 => Window * w <= c.temp_end
    /\ c.prev_end # 0 => \/ Window * w <= c.prev_end
                         \/ c.prev_end <= c.next_start /\ c.next_start <= Window * w

AllHeld(c, f, L) == \A w \in L : SomeHolds(f, w) \/ WillHold(c, w)

(* At sample s: what is noted is later than the start, so that no segment  *)
(* ends empty; a cut noted before the speech came back is followed by it.  *)
Strict(c, s) ==
    c.is_speech_segment =>
        /\ c.start < s
        /\ c.temp_end # 0 => c.start < c.temp_end
        /\ c.prev_end # 0 /\ c.temp_end = 0 => c.prev_end <= c.next_start
        /\ c.next_start # 0 => c.next_start < s

ScanKept ==
    vad_pc = "scan" =>
        /\ loud \subseteq 0..(i - 1)
        /\ Strict(scan, Window * i) /\ AllHeld(scan, speeches, loud)

(* Merging leaves wide gaps behind it. *)
PiecesKept ==
    /\ vad_pc \in {"merge", "short"} => \A w \in loud : SomeHolds(speeches, w)
    /\ vad_pc = "merge" => \A k \in 1..(Len(speeches) - 1) : k < i => Gap(speeches, k) >= MergeGap
    /\ vad_pc = "short" => \A k \in 1..(Len(speeches) - 1) : Gap(speeches, k) >= MergeGap

(* A segment, in centiseconds, with all samples of window w but those that *)
(* rounding may cut off at the end of the recording.                       *)
Spans(p, w) ==
    /\ CsToSamples(p.start) <= Window * w
    /\ Lesser(Window * w + Window, AudioLength - HalfCs) <= CsToSamples(p.end)

(* A piece not yet padded at its start, or padded by enough for rounding.  *)
Waits(k, w) ==
    /\ Holds(speeches[k], w)
    /\ k = i /\ i > 1 => speeches[k].start = 0 \/ speeches[k].start + HalfCs <= Window * w

PadKept ==
    vad_pc = "pad" =>
        /\ \A k \in 1..(Len(speeches) - 1) : k >= i => Gap(speeches, k) >= MergeGap
        /\ \A w \in loud : \/ \E k \in 1..(i - 1) : Spans(segments[k], w)
                           \/ \E k \in i..Len(speeches) : Waits(k, w)

Joined(s) == \E m \in 1..Len(output) : output[m].start <= s /\ s < output[m].end

CollectKept ==
    vad_pc = "collect" =>
        /\ \A w \in loud : \E k \in 1..Len(segments) : Spans(segments[k], w)
        /\ \A k \in 1..Len(segments), s \in 0..(size - 1) :
              k < i /\ CsToSamples(segments[k].start) <= s /\ s < CsToSamples(segments[k].end)
                  => Joined(s)

KeptInv ==
    /\ vad_pc = "collect" => params.engine = "ctranslate2"
    /\ params.engine = "ctranslate2" => ScanKept /\ PiecesKept /\ PadKept /\ CollectKept
-----------------------------------------------------------------------------
LEMMA HalfFacts == HalfCs \in Nat /\ 2 * HalfCs <= SamplesPerCs /\ SamplesPerCs <= 2 * HalfCs + 1
BY ConstantFacts DEF HalfCs

LEMMA EngineFacts ==
    ASSUME FilterSettings, params \in Settings, params.engine = "ctranslate2"
    PROVE  /\ params.minSpeech = 0 /\ params.pad \in Nat /\ params.pad >= Window + HalfCs
           /\ params.lowThreshold => params.maxSpeech >= MaxSamples + Window
           /\ MergeGap >= 2 * (Window + HalfCs)
BY SettingFacts DEF FilterSettings, HalfCs

LEMMA WindowPlace ==
    ASSUME NEW w \in Nat, NEW v \in Nat, w <= v
    PROVE  Window * w \in Nat /\ Window * v \in Nat /\ Window * w <= Window * v
BY ConstantFacts, ProductMonotone

(* The windows of a recording are at most one longer than it. *)
LEMMA LastWindow == ASSUME size \in Nat PROVE AudioLength <= size + Window
<1> DEFINE q == size \div Window
<1>1. Window \in Nat \ {0}
  BY ConstantFacts
<1>2. q \in Nat /\ q * Window <= size
  BY <1>1, DivideFloor
<1> HIDE DEF q
<1>3. NProbs = q \/ NProbs = q + 1
  BY <1>2 DEF NProbs, q
<1>4. (q + 1) * Window = q * Window + Window /\ q * Window \in Nat
  BY <1>1, <1>2
<1> QED BY <1>1, <1>2, <1>3, <1>4 DEF AudioLength

LEMMA AppendHolds ==
    ASSUME NEW f \in Seq(PieceType), NEW p \in PieceType, NEW w
    PROVE  SomeHolds(f, w) \/ Holds(p, w) => SomeHolds(Append(f, p), w)
<1> DEFINE g == Append(f, p)
<1>1. /\ Len(g) = Len(f) + 1 /\ Len(f) \in Nat /\ g[Len(f) + 1] = p
      /\ \A k \in 1..Len(f) : g[k] = f[k]
  BY AppendProperties, LenProperties
<1> HIDE DEF g
<1>2. ASSUME SomeHolds(f, w) PROVE SomeHolds(g, w)
  <2>1. PICK k \in 1..Len(f) : Holds(f[k], w)
    BY <1>2 DEF SomeHolds
  <2>2. k \in 1..Len(g) /\ g[k] = f[k]
    BY <1>1
  <2> QED BY <2>1, <2>2 DEF SomeHolds
<1>3. ASSUME Holds(p, w) PROVE SomeHolds(g, w)
  <2>1. Len(f) + 1 \in 1..Len(g)
    BY <1>1
  <2> QED BY <1>1, <1>3, <2>1 DEF SomeHolds
<1> QED BY <1>2, <1>3 DEF g

(* Inside an iteration, after the first block. *)
Midway(c, s, class) ==
    c.is_speech_segment =>
        /\ c.start < s /\ c.next_start <= s
        /\ c.temp_end # 0 => c.start < c.temp_end
        /\ c.prev_end # 0 /\ c.temp_end = 0 => c.prev_end <= c.next_start
        /\ Reaches(class) => c.temp_end = 0
        /\ ~ Reaches(class) /\ c.next_start # 0 => c.next_start < s

LEMMA ResumedHeld ==
    ASSUME VadInv, ScanKept, NEW class, NextWindow(class),
           scan.is_speech_segment \/ ~ Reaches(class)
    PROVE  /\ Midway(Resumed(class), Window * i, class)
           /\ AllHeld(Resumed(class), speeches, loud')
           /\ \A w \in loud' : w \in Nat /\ Window * w \in Nat /\ Window * w <= Window * i
<1> DEFINE s == Window * i
           d == Resumed(class)
<1>1. /\ vad_pc = "scan" /\ loud \subseteq 0..(i - 1) /\ Strict(scan, s) /\ AllHeld(scan, speeches, loud)
      /\ i \in Nat /\ s \in Nat /\ scan \in ScanType /\ ScanOK(scan, speeches, s)
      /\ loud' = IF Reaches(class) THEN loud \cup {i} ELSE loud
  BY GridFacts DEF VadInv, ScanKept, NextWindow, VadTypeOK, ScanType, ScanInv
<1>2. ASSUME NEW w \in loud' PROVE w \in Nat /\ Window * w \in Nat /\ Window * w <= s
  <2>1. w \in Nat /\ w <= i
    BY <1>1, <1>2
  <2> QED BY <1>1, <2>1, WindowPlace
<1>3. /\ scan.start \in Nat /\ scan.temp_end \in Nat /\ scan.prev_end \in Nat /\ scan.next_start \in Nat
      /\ scan.is_speech_segment \in BOOLEAN
  BY <1>1 DEF ScanType
<1>4. CASE ~ Reaches(class)
  <2>1. d = scan /\ loud' = loud
    BY <1>1, <1>4 DEF Resumed
  <2>2. Midway(scan, s, class)
    BY <1>1, <1>3, <1>4 DEF Strict, Midway
  <2> QED BY <1>1, <1>2, <2>1, <2>2
<1>5. CASE Reaches(class)
  <2>1. scan.is_speech_segment = TRUE
    BY <1>3, <1>5
  <2>2. /\ scan.start < s /\ scan.next_start <= s
        /\ scan.prev_end = 0 \/ scan.prev_end <= s
        /\ scan.prev_end # 0 /\ scan.temp_end = 0 => scan.prev_end <= scan.next_start
    BY <1>1, <2>1 DEF Strict, ScanOK, Open
  <2>3. /\ d.is_speech_segment = TRUE /\ d.start = scan.start /\ d.temp_end = 0
        /\ d.prev_end = scan.prev_end /\ d.next_start \in Nat /\ d.next_start <= s
        /\ d.prev_end # 0 => d.prev_end <= d.next_start
        /\ scan.prev_end <= scan.next_start => d.next_start = scan.next_start
    <3>1. CASE scan.temp_end = 0
      <4>1. d = scan
        BY <1>5, <3>1 DEF Resumed, ResumeSpeech
      <4> QED BY <1>3, <2>1, <2>2, <3>1, <4>1
    <3>2. CASE scan.temp_end # 0
      <4> DEFINE n == IF scan.next_start < scan.prev_end THEN s ELSE scan.next_start
      <4>1. d = [scan EXCEPT !.temp_end = 0, !.next_start = n]
        BY <1>5, <3>2 DEF Resumed, ResumeSpeech
      <4>2. n \in Nat /\ n <= s /\ (scan.prev_end # 0 => scan.prev_end <= n)
            /\ (scan.prev_end <= scan.next_start => n = scan.next_start)
        BY <1>1, <1>3, <2>2
      <4> HIDE DEF n, d
      <4>3. /\ d.is_speech_segment = scan.is_speech_segment /\ d.start = scan.start /\ d.temp_end = 0
            /\ d.prev_end = scan.prev_end /\ d.next_start = n
        BY <1>1, <4>1 DEF ScanType
      <4> QED BY <2>1, <4>2, <4>3
    <3> QED BY <3>1, <3>2
  <2> HIDE DEF d, s
  <2>4. Midway(d, s, class)
    BY <1>5, <2>2, <2>3 DEF Midway
  <2>5. ASSUME NEW w \in loud' PROVE SomeHolds(speeches, w) \/ WillHold(d, w)
    <3>1. CASE w = i
      BY <1>1, <1>3, <2>2, <2>3, <3>1 DEF WillHold, s
    <3>2. CASE w \in loud
      <4>1. SomeHolds(speeches, w) \/ WillHold(scan, w)
        BY <1>1, <3>2 DEF AllHeld
      <4> HIDE DEF SomeHolds
      <4>2. ASSUME WillHold(scan, w) PROVE WillHold(d, w)
        BY <1>3, <2>3, <4>2 DEF WillHold
      <4> QED BY <4>1, <4>2
    <3> QED BY <1>1, <3>1, <3>2
  <2> QED BY <1>2, <2>4, <2>5 DEF AllHeld, d, s
<1> QED BY <1>4, <1>5

(* What an iteration leaves behind, seen from the loud windows. *)
ScanHolds ==
    /\ AllHeld(scan', speeches', loud')
    /\ Strict(scan', Window * i + Window)

LEMMA ScanStartHolds ==
    ASSUME VadInv, ScanKept, NEW class, ScanStart(class)
    PROVE  ScanHolds
<1> DEFINE s == Window * i
<1>1. /\ vad_pc = "scan" /\ speeches' = speeches /\ scan.is_speech_segment = FALSE /\ Reaches(class)
      /\ VadTypeOK /\ ScanInv
  BY DEF ScanStart, NextWindow, VadInv, VadTypeOK
<1>2. s \in Nat /\ i \in Nat /\ Window \in Nat /\ Window >= 1 /\ scan \in ScanType
      /\ AllHeld(scan, speeches, loud) /\ ScanOK(scan, speeches, s)
  BY <1>1, GridFacts, ConstantFacts DEF ScanKept, ScanInv, VadTypeOK, ScanType
<1>3. scan' = [scan EXCEPT !.is_speech_segment = TRUE, !.start = s] /\ loud' = loud \cup {i}
  BY <1>1, ResumedFacts DEF ScanStart, NextWindow
<1>4. /\ scan'.is_speech_segment = TRUE /\ scan'.start = s /\ scan'.temp_end = 0
      /\ scan'.prev_end = 0 /\ scan'.next_start = 0
  BY <1>1, <1>2, <1>3 DEF ScanType, ScanOK
<1>5. ASSUME NEW w \in loud' PROVE SomeHolds(speeches', w) \/ WillHold(scan', w)
  <2>1. CASE w = i
    BY <1>2, <1>4, <2>1 DEF WillHold
  <2>2. CASE w \in loud
    BY <1>1, <1>2, <2>2 DEF AllHeld, WillHold
  <2> QED BY <1>3, <2>1, <2>2
<1> HIDE DEF s
<1>6. Strict(scan', s + Window)
  BY <1>2, <1>4 DEF Strict
<1> QED BY <1>5, <1>6 DEF ScanHolds, AllHeld, s

LEMMA ScanCutHereHolds ==
    ASSUME VadInv, ScanKept, NEW class, ScanCutHere(class)
    PROVE  ScanHolds
<1> DEFINE s == Window * i
           c == Resumed(class)
           p == Piece(c.start, s)
<1>1. /\ NextWindow(class) /\ vad_pc = "scan" /\ VadTypeOK /\ ScanInv /\ TooLong(c, s)
      /\ speeches' = Append(speeches, p) /\ scan' = [NotSpeaking EXCEPT !.start = c.start]
  BY DEF ScanCutHere, NextWindow, VadInv
<1>2. c \in ScanType /\ s \in Nat /\ speeches \in Seq(PieceType)
      /\ c.is_speech_segment /\ scan.is_speech_segment
  BY <1>1, ResumedFacts, GridFacts DEF VadTypeOK, TooLong
<1>3. AllHeld(c, speeches, loud') /\ \A w \in loud' : Window * w \in Nat /\ Window * w <= s
  BY <1>1, <1>2, ResumedHeld
<1>4. p \in PieceType /\ p.start = c.start /\ p.end = s
  BY <1>2, PieceFacts DEF ScanType
<1> HIDE DEF c, s, p
<1>5. ASSUME NEW w \in loud' PROVE SomeHolds(speeches', w)
  <2>1. SomeHolds(speeches, w) \/ WillHold(c, w)
    BY <1>3 DEF AllHeld
  <2>2. WillHold(c, w) => Holds(p, w)
    BY <1>3, <1>4 DEF WillHold, Holds
  <2> QED BY <1>1, <1>2, <1>4, <2>1, <2>2, AppendHolds
<1>6. ~ scan'.is_speech_segment
  BY <1>1 DEF NotSpeaking
<1> QED BY <1>5, <1>6 DEF ScanHolds, AllHeld, Strict

(* A cut is only made where classes do not overlap: with the threshold     *)
(* below the lower one speech is not limited.                              *)
LEMMA NoCutIfLow ==
    ASSUME VadInv, FilterSettings, params.engine = "ctranslate2", vad_pc = "scan", i < NProbs,
           NEW c \in ScanType, TooLong(c, Window * i), NEW class \in Classes
    PROVE  ~ (Reaches(class) /\ Below(class))
<1>1. params \in Settings /\ size \in Nat /\ size <= MaxSamples /\ VadTypeOK
  BY ConstantFacts DEF VadInv, VadTypeOK
<1>2. Window * i <= AudioLength /\ AudioLength <= size + Window /\ Window * i \in Nat /\ AudioLength \in Nat
  BY <1>1, GridFacts, LastWindow
<1>3. c.start \in Nat /\ params.maxSpeech \in Nat /\ Window \in Nat /\ MaxSamples \in Nat
  BY <1>1, SettingFacts, ConstantFacts DEF ScanType
<1>4. ~ (params.maxSpeech >= MaxSamples + Window)
  BY <1>1, <1>2, <1>3 DEF TooLong
<1>5. ~ params.lowThreshold
  BY <1>1, <1>4, EngineFacts
<1> QED BY <1>5 DEF Classes, Reaches, Below

(* The cut at a silence seen before loses no window. *)
LEMMA CutHolds ==
    ASSUME NEW c \in ScanType, NEW f \in Seq(PieceType), NEW s \in Nat, NEW class,
           c.is_speech_segment, c.prev_end # 0, ScanOK(c, f, s), Midway(c, s, class),
           NEW L, AllHeld(c, f, L)
    PROVE  LET g == Append(f, Piece(c.start, c.prev_end))
               d == CutAtSilence(c)
           IN  /\ AllHeld(d, g, L)
               /\ d.is_speech_segment => /\ d.start = c.next_start /\ c.next_start # 0
                                         /\ d.temp_end = 0 /\ d.prev_end = 0 /\ d.next_start = 0
<1> DEFINE p == Piece(c.start, c.prev_end)
           g == Append(f, p)
           d == CutAtSilence(c)
<1>1. c.start \in Nat /\ c.prev_end \in Nat /\ c.next_start \in Nat /\ c.temp_end \in Nat
  BY DEF ScanType
<1>2. p \in PieceType /\ p.start = c.start /\ p.end = c.prev_end
  BY <1>1, PieceFacts
<1> HIDE DEF p
<1>3. \A w \in L : SomeHolds(f, w) \/ Holds(p, w) => SomeHolds(g, w)
  BY <1>2, AppendHolds
<1> HIDE DEF g
<1>4. CASE c.next_start < c.prev_end
  <2>1. d = [NotSpeaking EXCEPT !.start = c.start]
    BY <1>4 DEF CutAtSilence
  <2>2. ~ d.is_speech_segment
    BY <2>1 DEF NotSpeaking
  <2>3. ASSUME NEW w \in L PROVE SomeHolds(g, w)
    <3>1. SomeHolds(f, w) \/ WillHold(c, w)
      BY DEF AllHeld
    <3>2. WillHold(c, w) => Holds(p, w)
      BY <1>1, <1>2, <1>4 DEF WillHold, Holds
    <3> QED BY <1>3, <3>1, <3>2
  <2> QED BY <2>2, <2>3 DEF AllHeld, g, p
<1>5. CASE ~ (c.next_start < c.prev_end)
  <2>1. d = [NotSpeaking EXCEPT !.is_speech_segment = TRUE, !.start = c.next_start]
    BY <1>5 DEF CutAtSilence
  <2> HIDE DEF d
  <2>2. /\ d.is_speech_segment = TRUE /\ d.start = c.next_start
        /\ d.temp_end = 0 /\ d.prev_end = 0 /\ d.next_start = 0
    BY <2>1 DEF NotSpeaking
  <2>3. ASSUME NEW w \in L PROVE SomeHolds(g, w) \/ WillHold(d, w)
    <3>1. SomeHolds(f, w) \/ WillHold(c, w)
      BY DEF AllHeld
    <3>2. WillHold(c, w) => Holds(p, w) \/ WillHold(d, w)
      BY <1>2, <2>2 DEF WillHold, Holds
    <3> QED BY <1>3, <3>1, <3>2
  <2>4. c.next_start # 0
    BY <1>1, <1>5
  <2> QED BY <2>2, <2>3, <2>4 DEF AllHeld, g, p, d
<1> QED BY <1>4, <1>5

(* A silence that is noted, and the segment it ends, lose none either. *)
LEMMA NoteHolds ==
    ASSUME NEW c \in ScanType, NEW f, NEW s \in Nat, c.is_speech_segment, ScanOK(c, f, s),
           c.start < s, c.temp_end # 0 => c.start < c.temp_end, c.next_start # 0 => c.next_start < s + Window,
           NEW L, AllHeld(c, f, L), \A w \in L : Window * w \in Nat /\ Window * w <= s
    PROVE  LET e == NoteSilence(c, s)
           IN  /\ AllHeld(e, f, L) /\ Strict(e, s + Window) /\ e.start < e.temp_end
               /\ \A w \in L : SomeHolds(f, w) \/ (e.start <= Window * w /\ Window * w <= e.temp_end)
<1> DEFINE t == IF c.temp_end = 0 THEN s ELSE c.temp_end
           r == IF s - t > SplitSilence THEN t ELSE c.prev_end
           e == [c EXCEPT !.temp_end = t, !.prev_end = r]
<1>1. NoteSilence(c, s) = e
  BY DEF NoteSilence
<1>2. /\ c.start \in Nat /\ c.prev_end \in Nat /\ c.next_start \in Nat /\ c.temp_end \in Nat
      /\ Window \in Nat /\ Window >= 1
  BY ConstantFacts DEF ScanType
<1>3. t \in Nat /\ c.start < t /\ t # 0 /\ (t = s \/ (c.temp_end # 0 /\ t = c.temp_end))
  BY <1>2
<1> HIDE DEF t
<1>4. r = t \/ r = c.prev_end
  OBVIOUS
<1> HIDE DEF r
<1>5. /\ e.is_speech_segment = c.is_speech_segment /\ e.start = c.start
      /\ e.temp_end = t /\ e.prev_end = r /\ e.next_start = c.next_start
  BY DEF ScanType
<1> HIDE DEF e
<1>6. ASSUME NEW w \in L, WillHold(c, w)
      PROVE  WillHold(e, w) /\ e.start <= Window * w /\ Window * w <= e.temp_end
  <2>1. Window * w \in Nat /\ Window * w <= s /\ c.start <= Window * w
    BY <1>6 DEF WillHold
  <2>2. Window * w <= t
    BY <1>3, <1>6, <2>1 DEF WillHold
  <2> QED BY <1>3, <1>4, <1>5, <1>6, <2>1, <2>2 DEF WillHold
<1>7. \A w \in L : SomeHolds(f, w) \/ WillHold(c, w)
  BY DEF AllHeld
<1>8. Strict(e, s + Window)
  BY <1>2, <1>3, <1>5 DEF Strict
<1>9. AllHeld(e, f, L)
  BY <1>6, <1>7 DEF AllHeld
<1> QED BY <1>1, <1>3, <1>5, <1>6, <1>7, <1>8, <1>9

LEMMA ScanWindowHolds ==
    ASSUME VadInv, ScanKept, FilterSettings, params.engine = "ctranslate2",
           NEW class \in Classes, ScanWindow(class)
    PROVE  ScanHolds
<1> DEFINE s == Window * i
           c == Resumed(class)
           cut == TooLong(c, s)
           found == IF cut THEN Append(speeches, Piece(c.start, c.prev_end)) ELSE speeches
           d == IF cut THEN CutAtSilence(c) ELSE c
           e == NoteSilence(d, s)
<1>1. /\ NextWindow(class) /\ vad_pc = "scan" /\ i < NProbs /\ VadTypeOK /\ ScanInv
      /\ scan.is_speech_segment \/ ~ Reaches(class)
  BY DEF ScanWindow, NextWindow, VadInv
<1>2. s \in Nat /\ speeches \in Seq(PieceType) /\ params \in Settings /\ Window \in Nat /\ Window >= 1
  BY <1>1, GridFacts, ConstantFacts DEF VadTypeOK
<1>3. c \in ScanType /\ ScanOK(c, speeches, s)
  BY <1>1, ResumedFacts
<1>4. /\ Midway(c, s, class) /\ AllHeld(c, speeches, loud')
      /\ \A w \in loud' : Window * w \in Nat /\ Window * w <= s
  BY <1>1, ResumedHeld
<1>5. /\ ~ (cut /\ c.prev_end = 0)
      /\ IF ~ (Below(class) /\ d.is_speech_segment) THEN scan' = d /\ speeches' = found
         ELSE IF s - e.temp_end < params.minSilence THEN scan' = e /\ speeches' = found
         ELSE scan' = [NotSpeaking EXCEPT !.start = d.start] /\ speeches' = Ended(e, found)
  BY DEF ScanWindow
<1>6. cut => ~ (Reaches(class) /\ Below(class))
  BY <1>1, <1>3, NoCutIfLow
<1> HIDE DEF s, c
<1>7. /\ found \in Seq(PieceType) /\ d \in ScanType /\ ScanOK(d, found, s) /\ AllHeld(d, found, loud')
      /\ d.is_speech_segment =>
            /\ d.start <= s /\ d.next_start <= s
            /\ Below(class) => d.start < s
            /\ d.temp_end # 0 => d.start < d.temp_end
            /\ d.prev_end # 0 /\ d.temp_end = 0 => d.prev_end <= d.next_start
  <2>1. CASE cut
    <3>1. c.is_speech_segment /\ c.prev_end # 0 /\ found = Append(speeches, Piece(c.start, c.prev_end))
          /\ d = CutAtSilence(c)
      BY <1>5, <2>1 DEF TooLong
    <3> HIDE DEF found, d, cut
    <3>2. found \in Seq(PieceType) /\ d \in ScanType /\ ScanOK(d, found, s)
      BY <1>2, <1>3, <3>1, CutFacts
    <3>3. /\ AllHeld(d, found, loud')
          /\ d.is_speech_segment => /\ d.start = c.next_start /\ c.next_start # 0
                                    /\ d.temp_end = 0 /\ d.prev_end = 0 /\ d.next_start = 0
      BY <1>2, <1>3, <1>4, <3>1, CutHolds
    <3>4. c.next_start <= s /\ (Below(class) /\ c.next_start # 0 => c.next_start < s)
      BY <1>4, <1>6, <2>1, <3>1 DEF Midway
    <3> QED BY <1>2, <3>2, <3>3, <3>4
  <2>2. CASE ~ cut
    <3>1. found = speeches /\ d = c
      BY <2>2
    <3> HIDE DEF found, d, cut
    <3>2. c.start \in Nat
      BY <1>3 DEF ScanType
    <3> QED BY <1>2, <1>3, <1>4, <3>1, <3>2 DEF Midway
  <2> QED BY <2>1, <2>2
<1> HIDE DEF cut, found, d, e
<1>8. CASE ~ (Below(class) /\ d.is_speech_segment)
  <2>1. scan' = d /\ speeches' = found
    BY <1>5, <1>8
  <2>2. Strict(d, s + Window)
    BY <1>2, <1>7 DEF Strict, ScanType
  <2> QED BY <1>7, <2>1, <2>2 DEF ScanHolds, s
<1>9. CASE Below(class) /\ d.is_speech_segment
  <2>1. d.start < s /\ (d.temp_end # 0 => d.start < d.temp_end) /\ d.next_start < s + Window
    BY <1>2, <1>7, <1>9 DEF ScanType
  <2>2. /\ AllHeld(e, found, loud') /\ Strict(e, s + Window) /\ e.start < e.temp_end
        /\ \A w \in loud' : SomeHolds(found, w) \/ (e.start <= Window * w /\ Window * w <= e.temp_end)
    BY <1>2, <1>4, <1>7, <1>9, <2>1, NoteHolds DEF e
  <2>3. CASE s - e.temp_end < params.minSilence
    BY <1>5, <1>9, <2>2, <2>3 DEF ScanHolds, s
  <2>4. CASE ~ (s - e.temp_end < params.minSilence)
    <3>1. scan' = [NotSpeaking EXCEPT !.start = d.start] /\ speeches' = Ended(e, found)
      BY <1>5, <1>9, <2>4
    <3>2. e \in ScanType
      BY <1>2, <1>7, <1>9, NoteFacts DEF e
    <3>3. params.minSpeech = 0 /\ e.start \in Nat /\ e.temp_end \in Nat
      BY <1>2, <3>2, EngineFacts DEF ScanType
    <3> DEFINE p == Piece(e.start, e.temp_end)
    <3>4. speeches' = Append(found, p)
      BY <2>2, <3>1, <3>3 DEF Ended
    <3>5. p \in PieceType /\ p.start = e.start /\ p.end = e.temp_end
      BY <3>3, PieceFacts
    <3> HIDE DEF p
    <3>6. \A w \in loud' : SomeHolds(speeches', w)
      BY <1>7, <2>2, <3>4, <3>5, AppendHolds DEF Holds
    <3>7. ~ scan'.is_speech_segment
      BY <3>1 DEF NotSpeaking
    <3> QED BY <3>6, <3>7 DEF ScanHolds, AllHeld, Strict
  <2> QED BY <2>3, <2>4
<1> QED BY <1>8, <1>9

LEMMA ScanKeepsHeld ==
    ASSUME VadInv, ScanKept, NEW class, NextWindow(class), ScanHolds
    PROVE  ScanKept' /\ vad_pc' = "scan"
<1>1. vad_pc = "scan" /\ vad_pc' = "scan" /\ i' = i + 1 /\ i \in Nat /\ Window * (i + 1) = Window * i + Window
      /\ loud \subseteq 0..(i - 1) /\ loud' = IF Reaches(class) THEN loud \cup {i} ELSE loud
  BY GridFacts DEF NextWindow, VadInv, ScanKept
<1>2. loud' \subseteq 0..(i' - 1)
  BY <1>1
<1>3. Strict(scan', Window * i')
  BY <1>1 DEF ScanHolds
<1> QED BY <1>1, <1>2, <1>3 DEF ScanKept, ScanHolds

-----------------------------------------------------------------------------
(* The segments that were found, up to the padding. *)

LEMMA ScanEndHolds ==
    ASSUME VadInv, KeptInv, FilterSettings, params.engine = "ctranslate2", ScanEnd
    PROVE  PiecesKept' /\ vad_pc' = "merge"
<1>1. /\ vad_pc = "scan" /\ vad_pc' = "merge" /\ i = NProbs /\ i' = 1 /\ loud' = loud /\ params \in Settings
      /\ VadTypeOK /\ ScanKept /\ speeches \in Seq(PieceType) /\ scan \in ScanType
      /\ speeches' = IF scan.is_speech_segment /\ AudioLength - scan.start > params.minSpeech
                     THEN Append(speeches, Piece(scan.start, AudioLength)) ELSE speeches
  BY DEF ScanEnd, call, VadInv, VadTypeOK, ScanType, KeptInv
<1>2. /\ AudioLength \in Nat /\ i \in Nat /\ Window * i <= AudioLength /\ Window * i \in Nat
      /\ params.minSpeech = 0 /\ scan.start \in Nat
  BY <1>1, GridFacts, EngineFacts DEF ScanType
<1>3. /\ loud \subseteq 0..(i - 1) /\ AllHeld(scan, speeches, loud)
      /\ scan.is_speech_segment => scan.start < AudioLength
  BY <1>1, <1>2 DEF ScanKept, Strict
<1>4. ASSUME NEW w \in loud PROVE SomeHolds(speeches', w)
  <2>1. CASE scan.is_speech_segment
    <3> DEFINE p == Piece(scan.start, AudioLength)
    <3>1. speeches' = Append(speeches, p)
      BY <1>1, <1>2, <1>3, <2>1
    <3>2. p \in PieceType /\ p.start = scan.start /\ p.end = AudioLength
      BY <1>2, PieceFacts
    <3> HIDE DEF p
    <3>3. Window * w <= AudioLength
      <4>1. w \in Nat /\ w <= i
        BY <1>2, <1>3
      <4>2. Window * w \in Nat /\ Window * w <= Window * i
        BY <1>2, <4>1, WindowPlace
      <4> QED BY <1>2, <4>2
    <3>4. SomeHolds(speeches, w) \/ scan.start <= Window * w
      BY <1>3 DEF AllHeld, WillHold
    <3> QED BY <1>1, <3>1, <3>2, <3>3, <3>4, AppendHolds DEF Holds
  <2>2. CASE ~ scan.is_speech_segment
    BY <1>1, <1>3, <2>2 DEF AllHeld, WillHold
  <2> QED BY <2>1, <2>2
<1>5. \A k \in 1..(Len(speeches') - 1) : ~ (k < i')
  BY <1>1
<1> QED BY <1>1, <1>4, <1>5 DEF PiecesKept

LEMMA MergeHolds ==
    ASSUME VadInv, PiecesKept, Merge
    PROVE  PiecesKept' /\ vad_pc' = "merge"
<1>1. /\ vad_pc = "merge" /\ vad_pc' = "merge" /\ i \in Nat /\ i >= 1 /\ i < Len(speeches) /\ loud' = loud
      /\ speeches \in Seq(PieceType) /\ Ordered(speeches, AudioLength) /\ AudioLength \in Nat
      /\ loud \subseteq Nat
  BY GridFacts DEF Merge, VadInv, VadTypeOK, ControlInv, call
<1>2. i \in 1..(Len(speeches) - 1) /\ Len(speeches) \in Nat /\ i \in 1..Len(speeches) /\ i + 1 \in 1..Len(speeches)
  BY <1>1, LenProperties
<1>3. /\ \A w \in loud : SomeHolds(speeches, w)
      /\ \A k \in 1..(Len(speeches) - 1) : k < i => Gap(speeches, k) >= MergeGap
  BY <1>1 DEF PiecesKept
<1>4. CASE Gap(speeches, i) < MergeGap
  <2>1. i' = i /\ speeches' = Without([speeches EXCEPT ![i].end = speeches[i + 1].end], i + 1)
    BY <1>4 DEF Merge, Gap
  <2>2. /\ Len(speeches') = Len(speeches) - 1
        /\ speeches'[i].start = speeches[i].start /\ speeches'[i].end = speeches[i + 1].end
        /\ \A j \in 1..(Len(speeches) - 1) : /\ j < i => speeches'[j] = speeches[j]
                                             /\ j > i => speeches'[j] = speeches[j + 1]
    BY <1>1, <1>2, <2>1, MergedOrdered
  <2>3. /\ speeches[i].start \in Nat /\ speeches[i].end \in Nat
        /\ speeches[i + 1].start \in Nat /\ speeches[i + 1].end \in Nat
        /\ speeches[i].start <= speeches[i + 1].start /\ speeches[i].end <= speeches[i + 1].end
    <3>1. /\ speeches[i].start \in Nat /\ speeches[i].end \in Nat
          /\ speeches[i + 1].start \in Nat /\ speeches[i + 1].end \in Nat
      BY <1>1, <1>2, PiecesTyped
    <3>2. /\ speeches[i].start <= speeches[i].end /\ speeches[i].end <= speeches[i + 1].start
          /\ speeches[i + 1].start <= speeches[i + 1].end
      BY <1>1, <1>2 DEF Ordered
    <3> QED BY <3>1, <3>2
  <2>4. ASSUME NEW w \in loud PROVE SomeHolds(speeches', w)
    <3>1. PICK k \in 1..Len(speeches) : Holds(speeches[k], w)
      BY <1>3 DEF SomeHolds
    <3>2. w \in Nat /\ Window * w \in Nat
      BY <1>1, WindowPlace
    <3>3. CASE k < i
      <4>1. k \in 1..Len(speeches') /\ speeches'[k] = speeches[k]
        BY <1>2, <2>2, <3>3
      <4> QED BY <3>1, <4>1 DEF SomeHolds
    <3>4. CASE k = i \/ k = i + 1
      <4>1. i \in 1..Len(speeches')
        BY <1>2, <2>2
      <4>2. Holds(speeches'[i], w)
        BY <2>2, <2>3, <3>1, <3>2, <3>4 DEF Holds
      <4> QED BY <4>1, <4>2 DEF SomeHolds
    <3>5. CASE k > i + 1
      <4>1. k - 1 \in 1..(Len(speeches) - 1) /\ k - 1 > i /\ (k - 1) + 1 = k
        BY <1>2, <3>5
      <4>2. speeches'[k - 1] = speeches[k] /\ k - 1 \in 1..Len(speeches')
        BY <2>2, <4>1
      <4> QED BY <3>1, <4>2 DEF SomeHolds
    <3> QED BY <1>2, <3>3, <3>4, <3>5
  <2>5. ASSUME NEW k \in 1..(Len(speeches') - 1), k < i' PROVE Gap(speeches', k) >= MergeGap
    <3>1. k \in 1..(Len(speeches) - 1) /\ k + 1 \in 1..(Len(speeches) - 1) /\ k < i /\ k + 1 <= i
      BY <1>2, <2>1, <2>2, <2>5
    <3>2. speeches'[k] = speeches[k]
      BY <2>2, <3>1
    <3>3. speeches'[k + 1].start = speeches[k + 1].start
      <4>1. CASE k + 1 = i
        BY <2>2, <4>1
      <4>2. CASE k + 1 < i
        BY <2>2, <3>1, <4>2
      <4> QED BY <1>1, <3>1, <4>1, <4>2
    <3>4. Gap(speeches, k) >= MergeGap
      BY <1>3, <3>1
    <3> QED BY <3>2, <3>3, <3>4 DEF Gap
  <2> QED BY <1>1, <2>4, <2>5 DEF PiecesKept
<1>5. CASE ~ (Gap(speeches, i) < MergeGap)
  <2>1. i' = i + 1 /\ speeches' = speeches
    BY <1>5 DEF Merge, Gap
  <2>2. Gap(speeches, i) >= MergeGap
    <3>1. speeches[i].end \in Nat /\ speeches[i + 1].start \in Nat /\ MergeGap \in Nat
      BY <1>1, <1>2, PiecesTyped, ConstantFacts
    <3> QED BY <1>5, <3>1 DEF Gap
  <2>3. ASSUME NEW k \in 1..(Len(speeches) - 1), k < i + 1 PROVE Gap(speeches, k) >= MergeGap
    BY <1>1, <1>3, <2>2, <2>3
  <2> QED BY <1>1, <1>3, <2>1, <2>3 DEF PiecesKept
<1> QED BY <1>4, <1>5

(* Without a minimum of speech nothing is removed. *)
LEMMA RemoveShortHolds ==
    ASSUME VadInv, PiecesKept, FilterSettings, params.engine = "ctranslate2", RemoveShort
    PROVE  PiecesKept' /\ vad_pc' = "short"
<1>1. /\ vad_pc = "short" /\ vad_pc' = "short" /\ i \in Nat /\ i >= 1 /\ i <= Len(speeches) /\ loud' = loud
      /\ speeches \in Seq(PieceType) /\ Ordered(speeches, AudioLength) /\ params \in Settings
  BY DEF RemoveShort, VadInv, VadTypeOK, ControlInv, call
<1>2. i \in 1..Len(speeches) /\ params.minSpeech = 0
  BY <1>1, LenProperties, EngineFacts
<1>3. speeches[i].start \in Nat /\ speeches[i].end \in Nat /\ speeches[i].start <= speeches[i].end
  BY <1>1, <1>2, PiecesTyped DEF Ordered
<1>4. ~ (speeches[i].end - speeches[i].start < params.minSpeech)
  BY <1>2, <1>3
<1>5. speeches' = speeches
  BY <1>4 DEF RemoveShort
<1> QED BY <1>1, <1>5 DEF PiecesKept
-----------------------------------------------------------------------------
(* Padding and rounding. *)

(* Rounding to a centisecond moves a sample by half of one at most. *)
LEMMA RoundingClose ==
    ASSUME NEW x \in Nat
    PROVE  /\ CsToSamples(SamplesToCs(x)) \in Nat
           /\ CsToSamples(SamplesToCs(x)) <= x + HalfCs
           /\ x <= CsToSamples(SamplesToCs(x)) + HalfCs
           /\ x = 0 => CsToSamples(SamplesToCs(x)) = 0
<1> DEFINE d == 2 * SamplesPerCs
           y == 2 * x + SamplesPerCs
           q == y \div d
<1>1. d \in Nat \ {0} /\ y \in Nat /\ SamplesPerCs \in Nat /\ SamplesPerCs >= 1
  BY ConstantFacts
<1> HIDE DEF d, y
<1>2. q \in Nat /\ q * d <= y /\ y < q * d + d
  BY <1>1, DivideFloor
<1> HIDE DEF q
<1>3. q * d = 2 * (q * SamplesPerCs) /\ q * SamplesPerCs \in Nat
  BY <1>1, <1>2 DEF d
<1>4. CsToSamples(SamplesToCs(x)) = q * SamplesPerCs
  BY DEF CsToSamples, SamplesToCs, q, y, d
<1> DEFINE z == q * SamplesPerCs
<1>5. z \in Nat /\ 2 * z <= 2 * x + SamplesPerCs /\ 2 * x + SamplesPerCs < 2 * z + 2 * SamplesPerCs
  BY <1>2, <1>3 DEF d, y
<1>6. z = 0 \/ z >= SamplesPerCs
  <2>1. CASE q = 0
    BY <1>1, <2>1
  <2>2. CASE q >= 1
    <3>1. 1 * SamplesPerCs <= q * SamplesPerCs
      BY <1>1, <1>2, <2>2, ProductMonotone
    <3> QED BY <1>1, <3>1
  <2> QED BY <1>2, <2>1, <2>2
<1> HIDE DEF z
<1>7. z <= x + HalfCs /\ x <= z + HalfCs /\ (x = 0 => z = 0)
  BY <1>1, <1>5, <1>6, HalfFacts
<1> QED BY <1>4, <1>5, <1>7 DEF z

LEMMA RoundedSpans ==
    ASSUME size \in Nat, NEW w \in Nat, NEW p \in PieceType,
           p.start = 0 \/ p.start + HalfCs <= Window * w,
           p.end = AudioLength \/ p.end >= Window * w + Window + HalfCs
    PROVE  Spans(Rounded(p), w)
<1>1. /\ p.start \in Nat /\ p.end \in Nat /\ AudioLength \in Nat /\ Window \in Nat
      /\ Window * w \in Nat /\ HalfCs \in Nat
  BY WindowsFit, WindowPlace, ConstantFacts, HalfFacts DEF PieceType
<1> DEFINE a == CsToSamples(SamplesToCs(p.start))
           b == CsToSamples(SamplesToCs(p.end))
<1>2. a \in Nat /\ a <= p.start + HalfCs /\ (p.start = 0 => a = 0) /\ b \in Nat /\ p.end <= b + HalfCs
  BY <1>1, RoundingClose
<1>3. CsToSamples(Rounded(p).start) = a /\ CsToSamples(Rounded(p).end) = b
  BY DEF Rounded, Piece
<1> HIDE DEF a, b
<1>4. a <= Window * w
  BY <1>1, <1>2
<1>5. Lesser(Window * w + Window, AudioLength - HalfCs) <= b
  BY <1>1, <1>2 DEF Lesser
<1> QED BY <1>3, <1>4, <1>5 DEF Spans

(* The padding of each side of a wide gap covers a window and the rounding. *)
LEMMA PaddingCovers ==
    ASSUME VadInv, FilterSettings, params.engine = "ctranslate2",
           NEW k \in 1..Len(speeches), NEW w \in Nat,
           k < Len(speeches) => Gap(speeches, k) >= MergeGap
    PROVE  /\ Window * w <= speeches[k].end =>
                 \/ PaddedEnd(speeches, k) = AudioLength
                 \/ PaddedEnd(speeches, k) >= Window * w + Window + HalfCs
           /\ k < Len(speeches) /\ speeches[k + 1].start <= Window * w =>
                 PaddedStart(speeches, k) = 0 \/ PaddedStart(speeches, k) + HalfCs <= Window * w
           /\ speeches[k].start <= Window * w =>
                 Earlier(speeches[k].start) = 0 \/ Earlier(speeches[k].start) + HalfCs <= Window * w
<1>1. /\ params \in Settings /\ VadTypeOK /\ speeches \in Seq(PieceType) /\ size \in Nat
      /\ AudioLength \in Nat /\ Len(speeches) \in Nat
  BY GridFacts, LenProperties DEF VadInv, VadTypeOK
<1>2. /\ params.pad \in Nat /\ params.pad >= Window + HalfCs /\ MergeGap >= 2 * (Window + HalfCs)
      /\ Window \in Nat /\ HalfCs \in Nat /\ Window * w \in Nat /\ MergeGap \in Nat
  BY <1>1, EngineFacts, ConstantFacts, HalfFacts, WindowPlace
<1>3. speeches[k].start \in Nat /\ speeches[k].end \in Nat
  BY <1>1, PiecesTyped
<1> DEFINE g == Gap(speeches, k)
           half == g \div 2
           x == Window * w
           e == speeches[k].end
<1>4. ASSUME k < Len(speeches)
      PROVE  speeches[k + 1].start \in Nat /\ g \in Int /\ half \in Int /\ half >= Window + HalfCs
  <2>1. k + 1 \in 1..Len(speeches)
    BY <1>1, <1>4
  <2>2. speeches[k + 1].start \in Nat
    BY <1>1, <2>1, PiecesTyped
  <2>3. g \in Int
    BY <1>3, <2>2 DEF Gap
  <2> HIDE DEF g
  <2>4. g >= 2 * (Window + HalfCs)
    BY <1>2, <1>4, <2>3 DEF g
  <2> QED BY <1>2, <2>2, <2>3, <2>4
<1>5. ASSUME x <= e
      PROVE  PaddedEnd(speeches, k) = AudioLength \/ PaddedEnd(speeches, k) >= x + Window + HalfCs
  <2>1. CASE k < Len(speeches) /\ g < 2 * params.pad
    <3>1. PaddedEnd(speeches, k) = e + half
      BY <2>1 DEF PaddedEnd
    <3> HIDE DEF g, half, x, e
    <3>2. x \in Nat /\ e \in Nat
      BY <1>2, <1>3 DEF x, e
    <3>3. half \in Int /\ half >= Window + HalfCs
      BY <1>4, <2>1
    <3> QED BY <1>2, <1>5, <3>1, <3>2, <3>3
  <2>2. CASE ~ (k < Len(speeches) /\ g < 2 * params.pad)
    <3>1. PaddedEnd(speeches, k) = Later(e)
      BY <2>2 DEF PaddedEnd
    <3> HIDE DEF g, half, x, e
    <3>2. x \in Nat /\ e \in Nat
      BY <1>2, <1>3 DEF x, e
    <3> QED BY <1>1, <1>2, <1>5, <3>1, <3>2 DEF Later, Lesser
  <2> QED BY <2>1, <2>2
<1>6. ASSUME NEW a \in Nat, a <= x PROVE Earlier(a) = 0 \/ Earlier(a) + HalfCs <= x
  <2>1. x \in Nat
    BY <1>2
  <2> HIDE DEF x
  <2> QED BY <1>2, <1>6, <2>1 DEF Earlier
<1>7. ASSUME k < Len(speeches), speeches[k + 1].start <= x
      PROVE  PaddedStart(speeches, k) = 0 \/ PaddedStart(speeches, k) + HalfCs <= x
  <2> DEFINE a == speeches[k + 1].start
  <2>1. a \in Nat /\ half \in Int /\ half >= Window + HalfCs /\ a <= x /\ x \in Nat
    BY <1>2, <1>4, <1>7
  <2>2. CASE g < 2 * params.pad
    <3>1. PaddedStart(speeches, k) = IF a > half THEN a - half ELSE 0
      BY <2>2 DEF PaddedStart
    <3> HIDE DEF a, half, x, g
    <3> QED BY <1>2, <2>1, <3>1
  <2>3. CASE ~ (g < 2 * params.pad)
    <3>1. PaddedStart(speeches, k) = Earlier(a)
      BY <2>3 DEF PaddedStart
    <3> HIDE DEF a, half, x, g
    <3> QED BY <1>6, <2>1, <3>1
  <2> QED BY <2>2, <2>3
<1> QED BY <1>3, <1>5, <1>6, <1>7

LEMMA PadHolds ==
    ASSUME VadInv, PadKept, FilterSettings, params.engine = "ctranslate2", Pad
    PROVE  PadKept' /\ vad_pc' = "pad"
<1>1. /\ vad_pc = "pad" /\ vad_pc' = "pad" /\ i \in Nat /\ i >= 1 /\ i <= Len(speeches) /\ i' = i + 1
      /\ loud' = loud /\ size' = size /\ loud \subseteq Nat
      /\ speeches' = Padded(speeches, i)
      /\ segments' = Append(segments, Rounded(speeches'[i]))
      /\ speeches \in Seq(PieceType) /\ Ordered(speeches, AudioLength) /\ segments \in Seq(PieceType)
      /\ Len(segments) = i - 1 /\ params \in Settings
  BY DEF Pad, VadInv, VadTypeOK, ControlInv, SegmentsInv, call, Rounded
<1>2. AudioLength \in Nat /\ size \in Nat /\ AudioLength' = AudioLength
  BY <1>1, GridFacts, SameLength DEF VadInv
<1>3. i \in 1..Len(speeches) /\ Len(speeches) \in Nat
  BY <1>1, LenProperties
<1>4. /\ speeches' \in Seq(PieceType) /\ Len(speeches') = Len(speeches)
      /\ speeches'[i].start = IF i = 1 THEN Earlier(speeches[1].start) ELSE speeches[i].start
      /\ speeches'[i].end = PaddedEnd(speeches, i)
      /\ i < Len(speeches) => /\ speeches'[i + 1].start = PaddedStart(speeches, i)
                              /\ speeches'[i + 1].end = speeches[i + 1].end
      /\ \A j \in 1..Len(speeches) : j > i + 1 => speeches'[j] = speeches[j]
  BY <1>1, <1>2, <1>3, PaddedOrdered
<1>5. speeches'[i] \in PieceType /\ Rounded(speeches'[i]) \in PieceType
  <2>1. speeches'[i] \in PieceType /\ speeches'[i].start \in Nat /\ speeches'[i].end \in Nat
    BY <1>3, <1>4, PiecesTyped
  <2>2. SamplesToCs(speeches'[i].start) \in Nat /\ SamplesToCs(speeches'[i].end) \in Nat
    BY <2>1, RoundingMonotone
  <2> QED BY <2>1, <2>2, PieceFacts DEF Rounded
<1>6. /\ \A k \in 1..(i - 1) : segments'[k] = segments[k]
      /\ segments'[i] = Rounded(speeches'[i])
  BY <1>1, <1>5, AppendProperties
<1>7. /\ \A k \in 1..(Len(speeches) - 1) : k >= i => Gap(speeches, k) >= MergeGap
      /\ \A w \in loud : \/ \E k \in 1..(i - 1) : Spans(segments[k], w)
                         \/ \E k \in i..Len(speeches) : Waits(k, w)
  BY <1>1 DEF PadKept
<1>8. i < Len(speeches) => Gap(speeches, i) >= MergeGap
  BY <1>3, <1>7
<1>9. ASSUME NEW k \in 1..(Len(speeches') - 1), k >= i' PROVE Gap(speeches', k) >= MergeGap
  <2>1. /\ k \in 1..(Len(speeches) - 1) /\ k >= i + 1 /\ k >= i /\ k \in 1..Len(speeches)
        /\ k + 1 \in 1..Len(speeches) /\ k + 1 > i + 1
    BY <1>1, <1>3, <1>4, <1>9
  <2>2. speeches'[k + 1] = speeches[k + 1]
    BY <1>4, <2>1
  <2>3. speeches'[k].end = speeches[k].end
    <3>1. CASE k = i + 1
      BY <1>3, <1>4, <2>1, <3>1
    <3>2. CASE k > i + 1
      BY <1>4, <2>1, <3>2
    <3> QED BY <1>1, <2>1, <3>1, <3>2
  <2>4. Gap(speeches, k) >= MergeGap
    BY <1>7, <2>1
  <2> QED BY <2>2, <2>3, <2>4 DEF Gap
<1>10. ASSUME NEW w \in loud
       PROVE  \/ \E k \in 1..(i' - 1) : Spans(segments[k], w)'
              \/ \E k \in i'..Len(speeches') : Waits(k, w)'
  <2>1. w \in Nat /\ Window * w \in Nat
    BY <1>1, WindowPlace
  <2>2. ASSUME NEW k \in 1..i, NEW p, segments'[k] = p, Spans(p, w)
        PROVE  \E j \in 1..(i' - 1) : Spans(segments[j], w)'
    <3>1. k \in 1..(i' - 1)
      BY <1>1
    <3>2. Spans(segments[k], w)'
      BY <1>2, <2>2 DEF Spans
    <3> QED BY <3>1, <3>2
  <2>3. CASE \E k \in 1..(i - 1) : Spans(segments[k], w)
    <3>1. PICK k \in 1..(i - 1) : Spans(segments[k], w)
      BY <2>3
    <3>2. k \in 1..i /\ segments'[k] = segments[k]
      BY <1>1, <1>6
    <3> QED BY <2>2, <3>1, <3>2
  <2>4. ASSUME NEW k \in i..Len(speeches), Waits(k, w)
        PROVE  \/ \E j \in 1..(i' - 1) : Spans(segments[j], w)'
               \/ \E j \in i'..Len(speeches') : Waits(j, w)'
    <3>1. /\ speeches[k].start <= Window * w /\ Window * w <= speeches[k].end
          /\ k = i /\ i > 1 => speeches[k].start = 0 \/ speeches[k].start + HalfCs <= Window * w
      BY <2>4 DEF Waits, Holds
    <3>2. CASE k = i
      <4>1. speeches'[i].start = 0 \/ speeches'[i].start + HalfCs <= Window * w
        <5>1. CASE i = 1
          BY <1>3, <1>4, <1>8, <2>1, <3>1, <3>2, <5>1, PaddingCovers
        <5>2. CASE i > 1
          BY <1>4, <3>1, <3>2, <5>2
        <5> QED BY <1>1, <5>1, <5>2
      <4>2. speeches'[i].end = AudioLength \/ speeches'[i].end >= Window * w + Window + HalfCs
        BY <1>3, <1>4, <1>8, <2>1, <3>1, <3>2, PaddingCovers
      <4>3. Spans(Rounded(speeches'[i]), w)
        BY <1>2, <1>5, <2>1, <4>1, <4>2, RoundedSpans
      <4>4. i \in 1..i
        BY <1>1
      <4> QED BY <1>6, <2>2, <4>3, <4>4
    <3>3. CASE k = i + 1
      <4>1. i < Len(speeches) /\ k \in i'..Len(speeches') /\ k \in 1..Len(speeches')
        BY <1>1, <1>3, <1>4, <3>3
      <4>2. speeches'[k].start = 0 \/ speeches'[k].start + HalfCs <= Window * w
        BY <1>3, <1>4, <1>8, <2>1, <3>1, <3>3, <4>1, PaddingCovers
      <4>3. speeches'[k].start \in Nat /\ HalfCs \in Nat /\ speeches'[k].end = speeches[k].end
        BY <1>4, <3>3, <4>1, PiecesTyped, HalfFacts
      <4>4. Holds(speeches'[k], w)
        BY <2>1, <3>1, <4>2, <4>3 DEF Holds
      <4>5. Waits(k, w)'
        BY <4>2, <4>4 DEF Waits, Holds
      <4> QED BY <4>1, <4>5
    <3>4. CASE k > i + 1
      <4>1. k \in i'..Len(speeches') /\ k # i' /\ k \in 1..Len(speeches)
        BY <1>1, <1>3, <1>4, <3>4
      <4>2. speeches'[k] = speeches[k]
        BY <1>4, <3>4, <4>1
      <4>3. Waits(k, w)'
        BY <3>1, <4>1, <4>2 DEF Waits, Holds
      <4> QED BY <4>1, <4>3
    <3> QED BY <1>3, <3>2, <3>3, <3>4
  <2> QED BY <1>7, <2>3, <2>4
<1> QED BY <1>1, <1>9, <1>10 DEF PadKept

LEMMA LoopEndHolds == ASSUME VadInv, KeptInv, LoopEnd PROVE KeptInv'
<1>1. /\ i' = 1 /\ UNCHANGED <<speeches, segments, output, params, size, loud>>
      /\ vad_pc \in {"merge", "short", "pad", "measure", "collect"}
      /\ vad_pc = "merge" => vad_pc' = "short" /\ i >= Len(speeches)
      /\ vad_pc = "short" => vad_pc' = "pad"
      /\ vad_pc = "pad" => /\ vad_pc' = IF params.engine = "ctranslate2" THEN "collect" ELSE "measure"
                           /\ i > Len(speeches)
      /\ vad_pc = "measure" => vad_pc' = "copy"
      /\ vad_pc = "collect" => vad_pc' = "idle"
  BY DEF LoopEnd, call
<1>2. /\ i \in Nat /\ Len(speeches) \in Nat /\ AudioLength' = AudioLength
      /\ vad_pc = "pad" => Len(segments) = i - 1
  BY <1>1, SameLength, LenProperties DEF VadInv, VadTypeOK, SegmentsInv
<1>3. vad_pc' = "collect" => params'.engine = "ctranslate2"
  BY <1>1
<1>4. ASSUME params.engine = "ctranslate2" PROVE (ScanKept /\ PiecesKept /\ PadKept /\ CollectKept)'
  <2>1. PiecesKept /\ PadKept
    BY <1>4 DEF KeptInv
  <2>2. ScanKept'
    BY <1>1 DEF ScanKept
  <2>3. PiecesKept'
    BY <1>1, <1>2, <2>1 DEF PiecesKept
  <2>4. PadKept'
    <3>1. CASE vad_pc # "short"
      BY <1>1, <3>1 DEF PadKept
    <3>2. CASE vad_pc = "short"
      <4>1. \A k \in 1..(Len(speeches') - 1) : k >= i' => Gap(speeches', k) >= MergeGap
        BY <1>1, <2>1, <3>2 DEF PiecesKept
      <4>2. ASSUME NEW w \in loud' PROVE \E k \in i'..Len(speeches') : Waits(k, w)'
        <5>1. PICK k \in 1..Len(speeches) : Holds(speeches[k], w)
          BY <1>1, <2>1, <3>2 DEF PiecesKept, SomeHolds
        <5>2. Waits(k, w)'
          BY <1>1, <5>1 DEF Waits, Holds
        <5> QED BY <1>1, <5>2
      <4> QED BY <4>1, <4>2 DEF PadKept
    <3> QED BY <3>1, <3>2
  <2>5. CollectKept'
    <3>1. CASE vad_pc # "pad"
      BY <1>1, <3>1 DEF CollectKept
    <3>2. CASE vad_pc = "pad"
      <4>1. ASSUME NEW w \in loud' PROVE \E k \in 1..Len(segments') : Spans(segments[k], w)'
        <5>1. PICK k \in 1..Len(segments) : Spans(segments[k], w)
          <6>1. i..Len(speeches) = {}
            BY <1>1, <1>2, <3>2
          <6>2. 1..(i - 1) = 1..Len(segments)
            BY <1>2, <3>2
          <6> QED BY <1>1, <2>1, <3>2, <6>1, <6>2 DEF PadKept
        <5>2. Spans(segments[k], w)'
          BY <1>1, <1>2, <5>1 DEF Spans
        <5> QED BY <1>1, <5>2
      <4>2. \A k \in 1..Len(segments') : ~ (k < i')
        BY <1>1
      <4> QED BY <4>1, <4>2 DEF CollectKept
    <3> QED BY <3>1, <3>2
  <2> QED BY <2>2, <2>3, <2>4, <2>5
<1> QED BY <1>1, <1>3, <1>4 DEF KeptInv
-----------------------------------------------------------------------------
(* Joining the samples. *)

LEMMA CollectHolds ==
    ASSUME VadInv, CollectKept, Collect
    PROVE  CollectKept' /\ vad_pc' = "collect"
<1> DEFINE a == CsToSamples(segments[i].start)
           b == CsToSamples(segments[i].end)
           start == Lesser(size, a)
           end == Lesser(size, b)
<1>1. /\ vad_pc = "collect" /\ vad_pc' = "collect" /\ i \in Nat /\ i >= 1 /\ i <= Len(segments) /\ i' = i + 1
      /\ UNCHANGED <<segments, size, loud>>
      /\ output' = IF end > start THEN Append(output, Piece(start, end)) ELSE output
      /\ output \in Seq(PieceType) /\ segments \in Seq(PieceType)
  BY DEF Collect, VadInv, VadTypeOK, ControlInv, call
<1>2. size \in Nat /\ AudioLength' = AudioLength /\ i \in 1..Len(segments)
  BY <1>1, GridFacts, SameLength, LenProperties DEF VadInv
<1>3. a \in Nat /\ b \in Nat /\ a <= b
  BY <1>2, SegmentFacts
<1> HIDE DEF a, b
<1>4. start \in Nat /\ end \in Nat /\ start = (IF size < a THEN size ELSE a) /\ end = (IF size < b THEN size ELSE b)
  BY <1>2, <1>3 DEF Lesser
<1> HIDE DEF start, end
<1>5. ASSUME end > start
      PROVE  /\ Len(output') = Len(output) + 1 /\ Len(output) \in Nat
             /\ \A m \in 1..Len(output) : output'[m] = output[m]
             /\ output'[Len(output) + 1].start = start /\ output'[Len(output) + 1].end = end
  <2>1. output' = Append(output, Piece(start, end)) /\ Piece(start, end) \in PieceType
        /\ Piece(start, end).start = start /\ Piece(start, end).end = end
    BY <1>1, <1>4, <1>5, PieceFacts
  <2> QED BY <1>1, <2>1, AppendProperties, LenProperties
<1>6. ASSUME NEW s, Joined(s) PROVE Joined(s)'
  <2>1. PICK m \in 1..Len(output) : output[m].start <= s /\ s < output[m].end
    BY <1>6 DEF Joined
  <2>2. m \in 1..Len(output') /\ output'[m] = output[m]
    <3>1. CASE end > start
      BY <1>5, <3>1
    <3>2. CASE ~ (end > start)
      BY <1>1, <3>2
    <3> QED BY <3>1, <3>2
  <2> QED BY <2>1, <2>2 DEF Joined
<1>7. ASSUME NEW s \in 0..(size - 1), a <= s, s < b PROVE Joined(s)'
  <2>1. end > start /\ start <= s /\ s < end
    BY <1>2, <1>3, <1>4, <1>7
  <2>2. Len(output) + 1 \in 1..Len(output')
    BY <1>5, <2>1
  <2> QED BY <1>5, <2>1, <2>2 DEF Joined
<1>8. ASSUME NEW k \in 1..Len(segments'), NEW s \in 0..(size' - 1), k < i',
             CsToSamples(segments'[k].start) <= s, s < CsToSamples(segments'[k].end)
      PROVE  Joined(s)'
  <2>1. CASE k = i
    BY <1>1, <1>7, <1>8, <2>1 DEF a, b
  <2>2. CASE k < i
    <3>1. Joined(s)
      BY <1>1, <1>8, <2>2 DEF CollectKept
    <3> QED BY <1>6, <3>1
  <2> QED BY <1>1, <1>8, <2>1, <2>2
<1>9. ASSUME NEW w \in loud' PROVE \E k \in 1..Len(segments') : Spans(segments[k], w)'
  <2>1. PICK k \in 1..Len(segments) : Spans(segments[k], w)
    BY <1>1 DEF CollectKept
  <2>2. Spans(segments[k], w)'
    BY <1>1, <1>2, <2>1 DEF Spans
  <2> QED BY <1>1, <2>2
<1> QED BY <1>1, <1>8, <1>9 DEF CollectKept

(* Outside a call, and on the other engine, there is nothing to keep.      *)
LEMMA IdleHolds ==
    ASSUME vad_pc' \notin {"scan", "merge", "short", "pad", "collect"}
    PROVE  KeptInv'
BY DEF KeptInv, ScanKept, PiecesKept, PadKept, CollectKept

LEMMA CallHolds ==
    ASSUME NEW p \in Settings, NEW n \in 0..MaxSamples, Call(p, n)
    PROVE  KeptInv'
<1>1. vad_pc' \in {"idle", "scan"} /\ loud' = {} /\ ~ scan'.is_speech_segment
  BY DEF Call, NotSpeaking
<1>2. ScanKept' /\ PiecesKept' /\ PadKept' /\ CollectKept'
  BY <1>1 DEF ScanKept, Strict, AllHeld, PiecesKept, PadKept, CollectKept
<1> QED BY <1>1, <1>2 DEF KeptInv

LEMMA StutterHolds == ASSUME KeptInv, UNCHANGED vadVars PROVE KeptInv'
<1>1. UNCHANGED <<vad_pc, i, scan, speeches, segments, output, params, size, loud>>
  BY DEF vadVars, copy, call
<1>2. AudioLength' = AudioLength
  BY <1>1, SameLength
<1>3. ASSUME params.engine = "ctranslate2" PROVE (ScanKept /\ PiecesKept /\ PadKept /\ CollectKept)'
  <2>1. ScanKept /\ PiecesKept /\ PadKept /\ CollectKept
    BY <1>3 DEF KeptInv
  <2>2. ScanKept' /\ PiecesKept'
    BY <1>1, <2>1 DEF ScanKept, PiecesKept
  <2>3. PadKept'
    BY <1>1, <1>2, <2>1 DEF PadKept, Spans, Waits
  <2>4. CollectKept'
    BY <1>1, <1>2, <2>1 DEF CollectKept, Spans, Joined
  <2> QED BY <2>2, <2>3, <2>4
<1> QED BY <1>1, <1>3 DEF KeptInv

LEMMA KeptStep == ASSUME FilterSettings, VadInv, KeptInv, [VadNext]_vadVars PROVE KeptInv'
<1> DEFINE Ours == params.engine = "ctranslate2"
<1>0. Ours => ScanKept /\ PiecesKept /\ PadKept /\ CollectKept
  BY DEF KeptInv
<1>1. ASSUME NEW p \in Settings, NEW n \in 0..MaxSamples, Call(p, n) PROVE KeptInv'
  BY <1>1, CallHolds
<1>2. ASSUME NEW class \in Classes, ScanStart(class) \/ ScanCutHere(class) \/ ScanWindow(class)
      PROVE  KeptInv'
  <2>1. NextWindow(class) /\ params' = params /\ vad_pc' = "scan"
    BY <1>2 DEF ScanStart, ScanCutHere, ScanWindow, NextWindow
  <2>2. Ours => ScanKept'
    BY <1>0, <1>2, <2>1, ScanStartHolds, ScanCutHereHolds, ScanWindowHolds, ScanKeepsHeld
  <2> QED BY <2>1, <2>2 DEF KeptInv, PiecesKept, PadKept, CollectKept
<1>3. CASE DetectFails \/ SortMapping
  BY <1>3, IdleHolds DEF DetectFails, SortMapping
<1>4. CASE Measure \/ CopySegment
  BY <1>4, IdleHolds DEF Measure, CopySegment
<1>5. CASE ScanEnd
  <2>1. params' = params /\ vad_pc' = "merge"
    BY <1>5 DEF ScanEnd, call
  <2>2. Ours => PiecesKept'
    BY <1>5, ScanEndHolds
  <2> QED BY <2>1, <2>2 DEF KeptInv, ScanKept, PadKept, CollectKept
<1>6. CASE Merge
  <2>1. params' = params /\ vad_pc' = "merge"
    BY <1>6 DEF Merge, call
  <2>2. Ours => PiecesKept'
    BY <1>0, <1>6, MergeHolds
  <2> QED BY <2>1, <2>2 DEF KeptInv, ScanKept, PadKept, CollectKept
<1>7. CASE RemoveShort
  <2>1. params' = params /\ vad_pc' = "short"
    BY <1>7 DEF RemoveShort, call
  <2>2. Ours => PiecesKept'
    BY <1>0, <1>7, RemoveShortHolds
  <2> QED BY <2>1, <2>2 DEF KeptInv, ScanKept, PadKept, CollectKept
<1>8. CASE Pad
  <2>1. params' = params /\ vad_pc' = "pad"
    BY <1>8 DEF Pad, call
  <2>2. Ours => PadKept'
    BY <1>0, <1>8, PadHolds
  <2> QED BY <2>1, <2>2 DEF KeptInv, ScanKept, PiecesKept, CollectKept
<1>9. CASE LoopEnd
  BY <1>9, LoopEndHolds
<1>10. CASE Collect
  <2>1. params' = params /\ vad_pc = "collect" /\ vad_pc' = "collect"
    BY <1>10 DEF Collect, call
  <2>2. Ours /\ CollectKept'
    BY <1>0, <1>10, <2>1, CollectHolds DEF KeptInv
  <2> QED BY <2>1, <2>2 DEF KeptInv, ScanKept, PiecesKept, PadKept
<1>11. CASE UNCHANGED vadVars
  BY <1>11, StutterHolds
<1> QED
  BY <1>1, <1>2, <1>3, <1>4, <1>5, <1>6, <1>7, <1>8, <1>9, <1>10, <1>11 DEF VadNext

(* With every segment joined, every sample of a loud window has arrived.   *)
LEMMA KeptSpeech == ASSUME VadInv, KeptInv PROVE SpeechKept
<1> SUFFICES ASSUME vad_pc = "collect", i > Len(segments), NEW w \in loud,
                    NEW s \in (w * Window)..((w + 1) * Window - 1),
                    ~ (s >= size), ~ (s >= AudioLength - SamplesPerCs \div 2)
             PROVE  Joined(s)
  BY DEF SpeechKept, Joined
<1>1. CollectKept /\ VadTypeOK
  BY DEF VadInv, KeptInv
<1>2. /\ w \in Nat /\ size \in Nat /\ AudioLength \in Nat /\ HalfCs \in Nat /\ Window \in Nat
      /\ Window * w \in Nat /\ Len(segments) \in Nat /\ i \in Nat
  BY <1>1, GridFacts, HalfFacts, ConstantFacts, WindowPlace, LenProperties DEF VadTypeOK
<1>3. w * Window = Window * w /\ (w + 1) * Window = Window * w + Window
  BY <1>2
<1>4. PICK k \in 1..Len(segments) : Spans(segments[k], w)
  BY <1>1 DEF CollectKept
<1>5. CsToSamples(segments[k].start) \in Nat /\ CsToSamples(segments[k].end) \in Nat
  BY SegmentFacts
<1>6. s \in Int /\ Window * w <= s /\ s < Window * w + Window /\ s < AudioLength - HalfCs /\ s < size
  BY <1>2, <1>3 DEF HalfCs
<1>7. CsToSamples(segments[k].start) <= s /\ s < CsToSamples(segments[k].end)
  BY <1>2, <1>4, <1>5, <1>6 DEF Spans, Lesser
<1>8. s \in 0..(size - 1) /\ k < i
  BY <1>2, <1>6
<1> QED BY <1>1, <1>7, <1>8 DEF CollectKept

(* collect_whisper_vad_speech passes on every sample of every window that  *)
(* reached the threshold, for every sequence of probabilities and length   *)
(* of the recording, if the settings satisfy FilterSettings, as those of   *)
(* the CTranslate2 engine do.                                              *)
THEOREM SpeechIsKept == ASSUME FilterSettings PROVE VadSpec => []SpeechKept
<1>1. VadInit => KeptInv
  BY DEF VadInit, KeptInv, ScanKept, PiecesKept, PadKept, CollectKept
<1>2. VadInv /\ KeptInv /\ [VadNext]_vadVars => KeptInv'
  BY KeptStep
<1>3. VadInv /\ KeptInv => SpeechKept
  BY KeptSpeech
<1> QED BY <1>1, <1>2, <1>3, VadInvariant, PTL DEF VadSpec
-----------------------------------------------------------------------------
(* The copy of the whisper.cpp engine stays inside its memory.  The first  *)
(* loop adds up what every segment may need, and partial sums are kept in  *)
(* a function of the number of segments measured.                          *)

(* Samples the first loop counts for segment k. *)
Needed(k) ==
    (Lesser(WithOverlap(k, CsToSamples(segments[k].end)), LastSample)
        - CsToSamples(segments[k].start)) + (IF IsLast(k) THEN 0 ELSE Silence)

StartsInside ==
    \A k \in 1..Len(segments) :
        CsToSamples(segments[k].start) + params.minSpeech <= AudioLength + HalfCs

(* No segment begins late: after the short ones are removed each begins at *)
(* least the minimum before the end, and padding moves no start back.      *)
LengthInv ==
    /\ vad_pc = "short" => \A k \in 1..Len(speeches) : k < i =>
                          speeches[k].start + params.minSpeech <= speeches[k].end
    /\ vad_pc = "pad" => \A k \in 1..Len(speeches) : speeches[k].start + params.minSpeech <= AudioLength
    /\ vad_pc \in {"pad", "measure", "copy"} => StartsInside

Sums(f, n) ==
    /\ f \in [0..n -> Nat] /\ f[0] = 0
    /\ \A k \in 1..n : f[k] = f[k - 1] + Needed(k)
    /\ \A j \in 0..n : \A k \in 0..n : j <= k => f[j] <= f[k]

SumInv ==
    /\ vad_pc \in {"scan", "merge", "short", "pad"} => allocated = 0 /\ offset = 0
    /\ vad_pc = "measure" =>
          /\ offset = 0 /\ i <= Len(segments) + 1
          /\ \E f : Sums(f, i - 1) /\ allocated = f[i - 1]
    /\ vad_pc = "copy" =>
          /\ i <= Len(segments) + 1
          /\ \E f : Sums(f, Len(segments)) /\ allocated = f[Len(segments)] /\ offset <= f[i - 1]

LEMMA LastWindowBegun == ASSUME size \in Nat PROVE AudioLength <= size + Window - 1
<1> DEFINE q == size \div Window
           r == size % Window
<1>1. Window \in Nat \ {0}
  BY ConstantFacts
<1>2. q \in Nat /\ r \in Nat /\ size = q * Window + r
  BY <1>1
<1>3. NProbs = IF r = 0 THEN q ELSE q + 1
  BY <1>1, <1>2 DEF NProbs
<1> HIDE DEF q, r
<1>4. (q + 1) * Window = q * Window + Window /\ q * Window \in Nat
  BY <1>1, <1>2
<1> QED BY <1>1, <1>2, <1>3, <1>4 DEF AudioLength

(* Every segment begins inside the recording: its size counts, and covers  *)
(* what the second loop copies.                                            *)
LEMMA SegmentNeeds ==
    ASSUME VadInv, StartsInside, CopySettings, vad_pc \in {"measure", "copy"},
           NEW k \in 1..Len(segments)
    PROVE  /\ Needed(k) \in Nat /\ LastSample \in Nat
           /\ CsToSamples(segments[k].start) <= LastSample
<1> DEFINE a == CsToSamples(segments[k].start)
           b == CsToSamples(segments[k].end)
<1>1. /\ a \in Nat /\ b \in Nat /\ a <= b
      /\ a + params.minSpeech <= AudioLength + HalfCs
  BY SegmentFacts DEF StartsInside
<1>2. /\ params \in Settings /\ params.engine = "whisper.cpp" /\ size \in Nat /\ size >= 1
      /\ AudioLength \in Nat
  <2>1. params \in Settings /\ params.engine # "ctranslate2" /\ size >= 1
    BY DEF VadInv, VadTypeOK, ControlInv
  <2>2. params.engine \in {"ctranslate2", "whisper.cpp"}
    BY <2>1, VadAssumption DEF SettingsType
  <2>3. size \in Nat /\ AudioLength \in Nat
    BY GridFacts DEF VadInv
  <2> QED BY <2>1, <2>2, <2>3
<1>3. /\ params.minSpeech >= Window + HalfCs /\ params.minSpeech \in Nat /\ params.overlap \in Nat
  BY <1>2, SettingFacts DEF CopySettings, HalfCs
<1>4. AudioLength <= size + Window - 1
  BY <1>2, LastWindowBegun
<1>5. LastSample \in Nat /\ LastSample = size - 1
  BY <1>2 DEF LastSample
<1> HIDE DEF a, b
<1>6. a <= LastSample
  BY <1>1, <1>2, <1>3, <1>4, <1>5, HalfFacts, ConstantFacts
<1>7. WithOverlap(k, b) \in Nat /\ b <= WithOverlap(k, b)
  BY <1>1, <1>3 DEF WithOverlap
<1>8. Lesser(WithOverlap(k, b), LastSample) \in Nat /\ a <= Lesser(WithOverlap(k, b), LastSample)
  BY <1>1, <1>5, <1>6, <1>7 DEF Lesser
<1>9. Needed(k) = (Lesser(WithOverlap(k, b), LastSample) - a) + (IF IsLast(k) THEN 0 ELSE Silence)
  BY DEF Needed, a, b
<1>10. Needed(k) \in Nat
  BY <1>1, <1>8, <1>9, ConstantFacts
<1> QED BY <1>5, <1>6, <1>10 DEF a

(* What the second loop adds for the segment at hand.                      *)
LEMMA CopyAdds ==
    ASSUME VadInv, StartsInside, CopySettings, CopySegment
    PROVE  offset' \in Nat /\ offset' <= offset + Needed(i)
<1> DEFINE a == CsToSamples(segments[i].start)
           b == CsToSamples(segments[i].end)
           start == Lesser(a, LastSample)
           end == Lesser(b, LastSample)
           last == IF IsLast(i) THEN end ELSE Lesser(end + params.overlap, LastSample)
           copied == last - start
           gap == IF IsLast(i) THEN 0 ELSE Silence
<1>1. /\ vad_pc = "copy" /\ i \in Nat /\ i >= 1 /\ i <= Len(segments) /\ offset \in Nat
      /\ params \in Settings /\ segments \in Seq(PieceType)
  BY DEF CopySegment, VadInv, VadTypeOK, ControlInv
<1>2. i \in 1..Len(segments) /\ params.overlap \in Nat
  BY <1>1, SettingFacts, LenProperties
<1>3. Needed(i) \in Nat /\ LastSample \in Nat /\ a <= LastSample /\ a \in Nat /\ b \in Nat /\ a <= b
  BY <1>1, <1>2, SegmentNeeds, SegmentFacts
<1>4. offset' = IF copied > 0 THEN offset + copied + gap ELSE offset
  BY DEF CopySegment
<1>5. Needed(i) = (Lesser(WithOverlap(i, b), LastSample) - a) + gap
  BY DEF Needed
<1> HIDE DEF a, b
<1>6. start = a /\ end \in Nat /\ a <= end /\ gap \in Nat
  BY <1>3, ConstantFacts DEF Lesser
<1>7. last = Lesser(WithOverlap(i, b), LastSample) /\ last \in Nat /\ a <= last
  <2>1. CASE IsLast(i)
    <3>1. last = end /\ WithOverlap(i, b) = b
      BY <2>1 DEF WithOverlap
    <3> QED BY <1>6, <3>1
  <2>2. CASE ~ IsLast(i)
    <3>1. last = Lesser(end + params.overlap, LastSample) /\ WithOverlap(i, b) = b + params.overlap
      BY <2>2 DEF WithOverlap
    <3>2. CASE b < LastSample
      <4>1. end = b
        BY <3>2 DEF Lesser
      <4>2. Lesser(b + params.overlap, LastSample) \in Nat
            /\ a <= Lesser(b + params.overlap, LastSample)
        BY <1>2, <1>3 DEF Lesser
      <4> QED BY <3>1, <4>1, <4>2
    <3>3. CASE ~ (b < LastSample)
      <4>1. end = LastSample
        BY <3>3 DEF Lesser
      <4>2. /\ Lesser(LastSample + params.overlap, LastSample) = LastSample
            /\ Lesser(b + params.overlap, LastSample) = LastSample
        BY <1>2, <1>3, <3>3 DEF Lesser
      <4> QED BY <1>3, <3>1, <4>1, <4>2
    <3> QED BY <3>2, <3>3
  <2> QED BY <2>1, <2>2
<1>8. copied \in Int /\ copied = last - a /\ Needed(i) = copied + gap
  BY <1>3, <1>5, <1>6, <1>7
<1>9. offset \in Nat /\ gap \in Nat /\ Needed(i) \in Nat
  BY <1>1, <1>3, <1>6
<1> HIDE DEF start, end, last, gap, copied
<1>10. CASE copied > 0
  <2>1. offset' = offset + copied + gap
    BY <1>4, <1>10
  <2> QED BY <1>8, <1>9, <1>10, <2>1
<1>11. CASE ~ (copied > 0)
  <2>1. offset' = offset
    BY <1>4, <1>11
  <2> QED BY <1>9, <2>1
<1> QED BY <1>10, <1>11

LEMMA NeededSame ==
    ASSUME UNCHANGED <<segments, params, size>>
    PROVE  /\ \A k : Needed(k)' = Needed(k)
           /\ StartsInside => StartsInside'
<1>1. segments' = segments /\ params' = params /\ size' = size /\ AudioLength' = AudioLength
  BY SameLength
<1>2. ASSUME NEW k PROVE Needed(k)' = Needed(k)
  BY <1>1 DEF Needed, WithOverlap, IsLast, LastSample
<1>3. StartsInside => StartsInside'
  BY <1>1 DEF StartsInside
<1> QED BY <1>2, <1>3

LEMMA RemoveShortLengths == ASSUME VadInv, LengthInv, RemoveShort PROVE LengthInv'
<1>1. /\ vad_pc = "short" /\ vad_pc' = "short" /\ i \in Nat /\ i >= 1 /\ i <= Len(speeches)
      /\ params' = params /\ params \in Settings /\ speeches \in Seq(PieceType)
  BY DEF RemoveShort, VadInv, VadTypeOK, ControlInv, call
<1>2. i \in 1..Len(speeches) /\ Len(speeches) \in Nat /\ params.minSpeech \in Nat
  BY <1>1, LenProperties, SettingFacts
<1>3. \A k \in 1..Len(speeches) : k < i => speeches[k].start + params.minSpeech <= speeches[k].end
  BY <1>1 DEF LengthInv
<1>4. ASSUME NEW k \in 1..Len(speeches'), k < i'
      PROVE  speeches'[k].start + params.minSpeech <= speeches'[k].end
  <2>1. CASE speeches[i].end - speeches[i].start < params.minSpeech
    <3>1. i' = i /\ speeches' = Without(speeches, i)
      BY <2>1 DEF RemoveShort
    <3>2. /\ Len(speeches') = Len(speeches) - 1
          /\ \A j \in 1..(Len(speeches) - 1) : j < i => speeches'[j] = speeches[j]
      BY <1>2, <3>1 DEF Without
    <3>3. k \in 1..Len(speeches) /\ k < i /\ speeches'[k] = speeches[k]
      BY <1>2, <1>4, <3>1, <3>2
    <3> QED BY <1>3, <3>3
  <2>2. CASE ~ (speeches[i].end - speeches[i].start < params.minSpeech)
    <3>1. i' = i + 1 /\ speeches' = speeches
      BY <2>2 DEF RemoveShort
    <3>2. speeches[i].start \in Nat /\ speeches[i].end \in Nat
      BY <1>1, <1>2, PiecesTyped
    <3>3. speeches[i].start + params.minSpeech <= speeches[i].end
      BY <1>2, <2>2, <3>2
    <3>4. k = i \/ k < i
      BY <1>1, <1>4, <3>1
    <3> QED BY <1>3, <3>1, <3>3, <3>4
  <2> QED BY <2>1, <2>2
<1> QED BY <1>1, <1>4 DEF LengthInv

LEMMA PadLengths == ASSUME VadInv, LengthInv, Pad PROVE LengthInv'
<1>1. /\ vad_pc = "pad" /\ vad_pc' = "pad" /\ i \in Nat /\ i >= 1 /\ i <= Len(speeches) /\ i' = i + 1
      /\ params' = params /\ size' = size
      /\ speeches' = Padded(speeches, i)
      /\ segments' = Append(segments, Rounded(speeches'[i]))
      /\ speeches \in Seq(PieceType) /\ Ordered(speeches, AudioLength) /\ segments \in Seq(PieceType)
      /\ Len(segments) = i - 1 /\ params \in Settings
  BY DEF Pad, VadInv, VadTypeOK, ControlInv, SegmentsInv, call, Rounded
<1>2. /\ AudioLength \in Nat /\ size \in Nat /\ AudioLength' = AudioLength
      /\ params.minSpeech \in Nat /\ params.pad \in Nat /\ HalfCs \in Nat
  BY <1>1, GridFacts, SameLength, SettingFacts, HalfFacts DEF VadInv
<1>3. i \in 1..Len(speeches) /\ Len(speeches) \in Nat
  BY <1>1, LenProperties
<1>4. /\ speeches' \in Seq(PieceType) /\ Len(speeches') = Len(speeches)
      /\ \A j \in 1..(i - 1) : speeches'[j] = speeches[j]
      /\ speeches'[i].start = IF i = 1 THEN Earlier(speeches[1].start) ELSE speeches[i].start
      /\ i < Len(speeches) => speeches'[i + 1].start = PaddedStart(speeches, i)
      /\ \A j \in 1..Len(speeches) : j > i + 1 => speeches'[j] = speeches[j]
  <2>1. /\ params \in Settings /\ size \in Nat /\ speeches \in Seq(PieceType)
        /\ Ordered(speeches, AudioLength)
    BY <1>1, <1>2
  <2> DEFINE g == Padded(speeches, i)
  <2>2. /\ g \in Seq(PieceType) /\ Len(g) = Len(speeches)
        /\ \A j \in 1..(i - 1) : g[j] = speeches[j]
        /\ g[i].start = IF i = 1 THEN Earlier(speeches[1].start) ELSE speeches[i].start
        /\ i < Len(speeches) => g[i + 1].start = PaddedStart(speeches, i)
        /\ \A j \in 1..Len(speeches) : j > i + 1 => g[j] = speeches[j]
    BY <1>3, <2>1, PaddedOrdered
  <2>3. speeches' = g
    BY <1>1
  <2> HIDE DEF g
  <2> QED BY <2>2, <2>3
<1>5. \A k \in 1..Len(speeches) : speeches[k].start + params.minSpeech <= AudioLength
  BY <1>1 DEF LengthInv
<1>6. ASSUME NEW k \in 1..Len(speeches) PROVE speeches'[k].start <= speeches[k].start
  <2>1. speeches[k].start \in Nat
    BY <1>1, PiecesTyped
  <2>2. CASE k < i
    <3>1. k \in 1..(i - 1)
      BY <1>1, <2>2
    <3> QED BY <1>4, <2>1, <3>1
  <2>3. CASE k = i
    <3>1. Earlier(speeches[k].start) <= speeches[k].start
      BY <1>1, <2>1, EarlierFacts
    <3>2. speeches'[k].start = Earlier(speeches[k].start) \/ speeches'[k].start = speeches[k].start
      BY <1>4, <2>3
    <3> QED BY <2>1, <3>1, <3>2
  <2>4. CASE k = i + 1
    <3> DEFINE a == speeches[i].end
               c == speeches[k].start
    <3>1. a \in Nat /\ c \in Nat /\ a <= c /\ c <= AudioLength /\ i < Len(speeches)
      <4>1. a \in Nat
        BY <1>1, <1>3, PiecesTyped
      <4>2. i \in 1..(Len(speeches) - 1) /\ i < Len(speeches)
        BY <1>3, <2>4
      <4>3. speeches[k].end \in Nat /\ speeches[k].start <= speeches[k].end
            /\ speeches[k].end <= AudioLength
        BY <1>1, PiecesTyped DEF Ordered
      <4> QED BY <1>1, <1>2, <2>1, <2>4, <4>1, <4>2, <4>3 DEF Ordered
    <3>2. /\ Earlier(c) <= c
          /\ LET half == (c - a) \div 2
                 s == IF c > half THEN c - half ELSE 0
             IN  s <= c
      BY <1>1, <1>2, <3>1, PadNumbers
    <3>3. PaddedStart(speeches, i) <= c
      BY <2>4, <3>2 DEF PaddedStart, Gap
    <3> QED BY <1>4, <2>4, <3>1, <3>3
  <2>5. CASE k > i + 1
    BY <1>4, <2>1, <2>5
  <2> QED BY <1>1, <2>2, <2>3, <2>4, <2>5
<1>7. \A k \in 1..Len(speeches') : /\ speeches'[k].start \in Nat
                                   /\ speeches'[k].start + params.minSpeech <= AudioLength
  <2> TAKE k \in 1..Len(speeches')
  <2>1. /\ speeches'[k].start \in Nat /\ speeches[k].start \in Nat
        /\ speeches'[k].start <= speeches[k].start
        /\ speeches[k].start + params.minSpeech <= AudioLength
    BY <1>1, <1>4, <1>5, <1>6, PiecesTyped
  <2> QED BY <1>2, <2>1
<1>8. Rounded(speeches'[i]) \in PieceType
  <2>1. speeches'[i] \in PieceType /\ speeches'[i].start \in Nat /\ speeches'[i].end \in Nat
    BY <1>3, <1>4, PiecesTyped
  <2>2. SamplesToCs(speeches'[i].start) \in Nat /\ SamplesToCs(speeches'[i].end) \in Nat
    BY <2>1, RoundingMonotone
  <2> QED BY <2>1, <2>2, PieceFacts DEF Rounded
<1>9. /\ Len(segments') = i /\ segments'[i] = Rounded(speeches'[i])
      /\ \A k \in 1..(i - 1) : segments'[k] = segments[k]
  BY <1>1, <1>8, AppendProperties
<1>10. ASSUME NEW k \in 1..Len(segments')
       PROVE  CsToSamples(segments'[k].start) + params.minSpeech <= AudioLength + HalfCs
  <2>1. CASE k = i
    <3> DEFINE x == speeches'[i].start
    <3>1. x \in Nat /\ x + params.minSpeech <= AudioLength
      BY <1>3, <1>4, <1>7
    <3>2. segments'[k].start = SamplesToCs(x)
      BY <1>9, <2>1 DEF Rounded, Piece
    <3>3. CsToSamples(SamplesToCs(x)) \in Nat /\ CsToSamples(SamplesToCs(x)) <= x + HalfCs
      BY <3>1, RoundingClose
    <3> HIDE DEF x
    <3>4. CsToSamples(segments'[k].start) \in Nat /\ CsToSamples(segments'[k].start) <= x + HalfCs
      BY <3>2, <3>3
    <3> QED BY <1>2, <3>1, <3>4
  <2>2. CASE k < i
    <3>1. k \in 1..(i - 1) /\ k \in 1..Len(segments)
      BY <1>1, <2>2
    <3> QED BY <1>1, <1>9, <3>1 DEF LengthInv, StartsInside
  <2> QED BY <1>1, <1>9, <2>1, <2>2
<1>11. StartsInside'
  BY <1>1, <1>2, <1>10 DEF StartsInside
<1> QED BY <1>1, <1>2, <1>7, <1>11 DEF LengthInv

LEMMA LoopEndLengths == ASSUME VadInv, LengthInv, LoopEnd PROVE LengthInv'
<1>1. /\ i' = 1 /\ UNCHANGED <<speeches, segments, params, size>>
      /\ \/ vad_pc = "merge" /\ vad_pc' = "short"
         \/ vad_pc = "short" /\ vad_pc' = "pad" /\ i > Len(speeches)
         \/ vad_pc = "pad" /\ vad_pc' \in {"measure", "collect"}
         \/ vad_pc = "measure" /\ vad_pc' = "copy"
         \/ vad_pc = "collect" /\ vad_pc' = "idle"
  BY DEF LoopEnd, call
<1>2. AudioLength' = AudioLength
  BY <1>1, SameLength
<1>3. CASE vad_pc = "merge"
  <2>1. \A k \in 1..Len(speeches') : ~ (k < i')
    BY <1>1
  <2> QED BY <1>1, <1>3, <2>1 DEF LengthInv
<1>4. CASE vad_pc = "short"
  <2>1. /\ speeches \in Seq(PieceType) /\ Ordered(speeches, AudioLength) /\ AudioLength \in Nat
        /\ Len(speeches) \in Nat /\ i \in Nat /\ params.minSpeech \in Nat /\ segments = <<>>
    BY <1>4, GridFacts, LenProperties, SettingFacts DEF VadInv, VadTypeOK, ControlInv
  <2>2. ASSUME NEW k \in 1..Len(speeches) PROVE speeches[k].start + params.minSpeech <= AudioLength
    <3>1. speeches[k].start + params.minSpeech <= speeches[k].end
      BY <1>1, <1>4, <2>1 DEF LengthInv
    <3>2. speeches[k].start \in Nat /\ speeches[k].end \in Nat /\ speeches[k].end <= AudioLength
      BY <2>1, PiecesTyped DEF Ordered
    <3> QED BY <2>1, <3>1, <3>2
  <2>3. StartsInside'
    BY <1>1, <2>1 DEF StartsInside
  <2> QED BY <1>1, <1>2, <1>4, <2>2, <2>3 DEF LengthInv
<1>5. CASE vad_pc \in {"pad", "measure"}
  <2>1. StartsInside'
    BY <1>1, <1>5, NeededSame DEF LengthInv
  <2> QED BY <1>1, <1>5, <2>1 DEF LengthInv
<1>6. CASE vad_pc = "collect"
  BY <1>1, <1>6 DEF LengthInv
<1> QED BY <1>1, <1>3, <1>4, <1>5, <1>6

LEMMA LengthStep == ASSUME VadInv, LengthInv, [VadNext]_vadVars PROVE LengthInv'
<1>1. ASSUME vad_pc' \in {"idle", "scan", "merge", "collect"} PROVE LengthInv'
  BY <1>1 DEF LengthInv
<1>2. ASSUME NEW p \in Settings, NEW n \in 0..MaxSamples, Call(p, n) PROVE LengthInv'
  BY <1>1, <1>2 DEF Call
<1>3. ASSUME NEW class, ScanStart(class) \/ ScanCutHere(class) \/ ScanWindow(class) PROVE LengthInv'
  BY <1>1, <1>3 DEF ScanStart, ScanCutHere, ScanWindow, NextWindow
<1>4. CASE DetectFails \/ SortMapping \/ ScanEnd \/ Merge \/ Collect
  BY <1>1, <1>4 DEF DetectFails, SortMapping, ScanEnd, Merge, Collect
<1>5. CASE RemoveShort
  BY <1>5, RemoveShortLengths
<1>6. CASE Pad
  BY <1>6, PadLengths
<1>7. CASE LoopEnd
  BY <1>7, LoopEndLengths
<1>8. CASE Measure \/ CopySegment
  <2>1. UNCHANGED <<segments, params, size>> /\ vad_pc' = vad_pc /\ vad_pc \in {"measure", "copy"}
    BY <1>8 DEF Measure, CopySegment, call
  <2> QED BY <2>1, NeededSame DEF LengthInv
<1>9. CASE UNCHANGED vadVars
  <2>1. UNCHANGED <<vad_pc, i, speeches, segments, params, size>>
    BY <1>9 DEF vadVars, call
  <2>2. AudioLength' = AudioLength
    BY <2>1, SameLength
  <2> QED BY <2>1, <2>2, NeededSame DEF LengthInv
<1> QED BY <1>2, <1>3, <1>4, <1>5, <1>6, <1>7, <1>8, <1>9 DEF VadNext

LEMMA SumsSame ==
    ASSUME UNCHANGED <<segments, params, size>>, NEW f, NEW n, Sums(f, n)
    PROVE  /\ f \in [0..n -> Nat] /\ f[0] = 0
           /\ \A k \in 1..n : f[k] = f[k - 1] + Needed(k)'
           /\ \A j \in 0..n : \A k \in 0..n : j <= k => f[j] <= f[k]
BY NeededSame DEF Sums

(* One more segment is measured. *)
LEMMA SumsGrow ==
    ASSUME NEW n \in Nat, NEW f, Sums(f, n), Needed(n + 1) \in Nat
    PROVE  \E g : Sums(g, n + 1) /\ g[n + 1] = f[n] + Needed(n + 1)
<1> DEFINE g == [k \in 0..(n + 1) |-> IF k <= n THEN f[k] ELSE f[n] + Needed(n + 1)]
<1>1. /\ f \in [0..n -> Nat] /\ f[0] = 0
      /\ \A k \in 1..n : f[k] = f[k - 1] + Needed(k)
      /\ \A j \in 0..n : \A k \in 0..n : j <= k => f[j] <= f[k]
  BY DEF Sums
<1>2. /\ \A k \in 0..n : g[k] = f[k] /\ f[k] \in Nat /\ f[k] <= f[n]
      /\ g[n + 1] = f[n] + Needed(n + 1) /\ f[n] \in Nat
  BY <1>1
<1>3. g \in [0..(n + 1) -> Nat] /\ g[0] = 0
  BY <1>1, <1>2
<1> HIDE DEF g
<1>4. ASSUME NEW k \in 1..(n + 1) PROVE g[k] = g[k - 1] + Needed(k)
  <2>1. CASE k <= n
    <3>1. k \in 1..n /\ k \in 0..n /\ k - 1 \in 0..n
      BY <2>1
    <3> QED BY <1>1, <1>2, <3>1
  <2>2. CASE k = n + 1
    <3>1. k - 1 = n /\ n \in 0..n
      BY <2>2
    <3> QED BY <1>2, <2>2, <3>1
  <2> QED BY <2>1, <2>2
<1>5. ASSUME NEW j \in 0..(n + 1), NEW k \in 0..(n + 1), j <= k PROVE g[j] <= g[k]
  <2>1. CASE k <= n
    <3>1. j \in 0..n /\ k \in 0..n
      BY <1>5, <2>1
    <3> QED BY <1>1, <1>2, <1>5, <3>1
  <2>2. CASE k = n + 1 /\ j <= n
    <3>1. j \in 0..n
      BY <2>2
    <3> QED BY <1>2, <2>2, <3>1
  <2>3. CASE k = n + 1 /\ j = n + 1
    BY <1>2, <2>3
  <2> QED BY <2>1, <2>2, <2>3
<1>6. Sums(g, n + 1)
  BY <1>3, <1>4, <1>5 DEF Sums
<1> QED BY <1>2, <1>6

LEMMA MeasureSums ==
    ASSUME VadInv, LengthInv, SumInv, CopySettings, Measure
    PROVE  SumInv'
<1>1. /\ vad_pc = "measure" /\ vad_pc' = "measure" /\ i \in Nat /\ i >= 1 /\ i <= Len(segments) /\ i' = i + 1
      /\ UNCHANGED <<segments, params, size>> /\ offset' = offset /\ segments \in Seq(PieceType)
  BY DEF Measure, VadInv, VadTypeOK, ControlInv, call
<1>2. i \in 1..Len(segments) /\ Len(segments) \in Nat
  BY <1>1, LenProperties
<1>3. PICK f : Sums(f, i - 1) /\ allocated = f[i - 1]
  BY <1>1 DEF SumInv
<1>4. Needed(i) \in Nat
  BY <1>1, <1>2, SegmentNeeds DEF LengthInv
<1>5. i - 1 \in Nat /\ (i - 1) + 1 = i
  BY <1>1
<1>6. PICK g : Sums(g, i) /\ g[i] = f[i - 1] + Needed(i)
  BY <1>3, <1>4, <1>5, SumsGrow
<1>7. allocated' = allocated + Needed(i)
  <2> DEFINE a == CsToSamples(segments[i].start)
             e == Lesser(WithOverlap(i, CsToSamples(segments[i].end)), LastSample)
             gap == IF IsLast(i) THEN 0 ELSE Silence
  <2>1. allocated' = allocated + (e - a) + gap /\ Needed(i) = (e - a) + gap
    BY DEF Measure, Needed
  <2>2. allocated \in Int /\ a \in Nat /\ gap \in Nat /\ e \in Int
    <3>1. /\ allocated \in Int /\ a \in Nat /\ CsToSamples(segments[i].end) \in Nat
          /\ params.overlap \in Nat /\ LastSample \in Nat
      BY <1>1, <1>2, SegmentFacts, SegmentNeeds, SettingFacts DEF VadInv, VadTypeOK, LengthInv
    <3> QED BY <3>1, ConstantFacts DEF Lesser, WithOverlap
  <2> HIDE DEF a, e, gap
  <2> QED BY <2>1, <2>2
<1>8. i' - 1 = i /\ i' <= Len(segments') + 1
  BY <1>1, <1>2
<1>9. offset' = 0
  BY <1>1 DEF SumInv
<1>10. allocated' = g[i]
  BY <1>3, <1>6, <1>7
<1>11. Sums(g, i - 1)'
  BY <1>1, <1>6, <1>8, NeededSame DEF Sums
<1>12. allocated' = g[i' - 1]
  BY <1>8, <1>10
<1> QED BY <1>1, <1>8, <1>9, <1>11, <1>12 DEF SumInv

LEMMA CopySums ==
    ASSUME VadInv, LengthInv, SumInv, CopySettings, CopySegment
    PROVE  SumInv'
<1>1. /\ vad_pc = "copy" /\ vad_pc' = "copy" /\ i \in Nat /\ i >= 1 /\ i <= Len(segments) /\ i' = i + 1
      /\ UNCHANGED <<segments, params, size>> /\ allocated' = allocated
      /\ segments \in Seq(PieceType) /\ offset \in Nat
  BY DEF CopySegment, VadInv, VadTypeOK, ControlInv, call
<1>2. i \in 1..Len(segments) /\ Len(segments) \in Nat /\ i - 1 \in 0..Len(segments)
  BY <1>1, LenProperties
<1>3. PICK f : /\ Sums(f, Len(segments)) /\ allocated = f[Len(segments)] /\ offset <= f[i - 1]
  BY <1>1 DEF SumInv
<1>4. /\ StartsInside /\ Needed(i) \in Nat /\ offset' \in Nat /\ offset' <= offset + Needed(i)
  BY <1>1, <1>2, SegmentNeeds, CopyAdds DEF LengthInv
<1>5. f[i] = f[i - 1] + Needed(i) /\ f[i - 1] \in Nat
  BY <1>2, <1>3 DEF Sums
<1>6. offset' <= f[i]
  BY <1>1, <1>3, <1>4, <1>5
<1>7. i' - 1 = i /\ i' <= Len(segments') + 1
  BY <1>1, <1>2
<1>8. Sums(f, Len(segments))'
  BY <1>1, <1>3, NeededSame DEF Sums
<1>9. allocated' = f[Len(segments')] /\ offset' <= f[i' - 1]
  BY <1>1, <1>3, <1>6, <1>7
<1> QED BY <1>1, <1>7, <1>8, <1>9 DEF SumInv

LEMMA LoopEndSums == ASSUME VadInv, SumInv, LoopEnd PROVE SumInv'
<1>1. /\ i' = 1 /\ UNCHANGED <<segments, params, size, allocated, offset>>
      /\ \/ vad_pc = "merge" /\ vad_pc' = "short"
         \/ vad_pc = "short" /\ vad_pc' = "pad"
         \/ vad_pc = "pad" /\ vad_pc' \in {"measure", "collect"}
         \/ vad_pc = "measure" /\ vad_pc' = "copy" /\ i > Len(segments)
         \/ vad_pc = "collect" /\ vad_pc' = "idle"
      /\ segments \in Seq(PieceType) /\ i \in Nat
  BY DEF LoopEnd, call, copy, VadInv, VadTypeOK
<1>2. Len(segments) \in Nat
  BY <1>1, LenProperties
<1>3. CASE vad_pc \in {"merge", "short"}
  BY <1>1, <1>3 DEF SumInv
<1>4. CASE vad_pc = "pad"
  <2> DEFINE f == [k \in 0..0 |-> 0]
  <2>1. i' - 1 = 0 /\ i' <= Len(segments') + 1 /\ allocated' = 0 /\ offset' = 0
    BY <1>1, <1>2, <1>4 DEF SumInv
  <2>2. Sums(f, 0)' /\ f[0] = 0
    BY DEF Sums
  <2> HIDE DEF f
  <2>3. allocated' = f[i' - 1]
    BY <2>1, <2>2
  <2>4. Sums(f, i - 1)'
    BY <2>1, <2>2 DEF Sums
  <2>5. vad_pc' \in {"measure", "collect"}
    BY <1>1, <1>4
  <2> QED BY <2>1, <2>3, <2>4, <2>5 DEF SumInv
<1>5. CASE vad_pc = "measure"
  <2>1. PICK f : Sums(f, i - 1) /\ allocated = f[i - 1]
    BY <1>5 DEF SumInv
  <2>2. i - 1 = Len(segments) /\ offset = 0
    BY <1>1, <1>2, <1>5 DEF SumInv
  <2>3. Sums(f, Len(segments))'
    BY <1>1, <2>1, <2>2, NeededSame DEF Sums
  <2>4. f[0] = 0
    BY <2>1 DEF Sums
  <2>5. i' - 1 = 0 /\ i' <= Len(segments') + 1 /\ allocated' = f[Len(segments')] /\ offset' <= f[i' - 1]
    BY <1>1, <1>2, <2>1, <2>2, <2>4
  <2> QED BY <1>1, <1>5, <2>3, <2>5 DEF SumInv
<1>6. CASE vad_pc = "collect"
  BY <1>1, <1>6 DEF SumInv
<1> QED BY <1>1, <1>3, <1>4, <1>5, <1>6

LEMMA SumStep ==
    ASSUME VadInv, LengthInv, SumInv, CopySettings, [VadNext]_vadVars
    PROVE  SumInv'
<1>1. ASSUME NEW p \in Settings, NEW n \in 0..MaxSamples, Call(p, n) PROVE SumInv'
  BY <1>1 DEF Call, SumInv
<1>2. ASSUME NEW class, ScanStart(class) \/ ScanCutHere(class) \/ ScanWindow(class) PROVE SumInv'
  BY <1>2 DEF ScanStart, ScanCutHere, ScanWindow, NextWindow, copy, SumInv
<1>3. CASE DetectFails \/ SortMapping \/ Collect
  BY <1>3 DEF DetectFails, SortMapping, Collect, SumInv
<1>4. CASE ScanEnd \/ Merge \/ RemoveShort \/ Pad
  BY <1>4 DEF ScanEnd, Merge, RemoveShort, Pad, copy, SumInv
<1>5. CASE LoopEnd
  BY <1>5, LoopEndSums
<1>6. CASE Measure
  BY <1>6, MeasureSums
<1>7. CASE CopySegment
  BY <1>7, CopySums
<1>8. CASE UNCHANGED vadVars
  <2>1. UNCHANGED <<vad_pc, i, allocated, offset, segments, params, size>>
    BY <1>8 DEF vadVars, copy, call
  <2>2. CASE vad_pc = "measure"
    <3>1. PICK f : Sums(f, i - 1) /\ allocated = f[i - 1]
      BY <2>2 DEF SumInv
    <3>2. Sums(f, i - 1)'
      BY <2>1, <3>1, NeededSame DEF Sums
    <3>3. offset' = 0 /\ i' <= Len(segments') + 1 /\ allocated' = f[i' - 1]
      BY <2>1, <2>2, <3>1 DEF SumInv
    <3> QED BY <2>1, <2>2, <3>2, <3>3 DEF SumInv
  <2>3. CASE vad_pc = "copy"
    <3>1. PICK f : /\ Sums(f, Len(segments)) /\ allocated = f[Len(segments)] /\ offset <= f[i - 1]
      BY <2>3 DEF SumInv
    <3>2. Sums(f, Len(segments))'
      BY <2>1, <3>1, NeededSame DEF Sums
    <3>3. i' <= Len(segments') + 1 /\ allocated' = f[Len(segments')] /\ offset' <= f[i' - 1]
      BY <2>1, <2>3, <3>1 DEF SumInv
    <3> QED BY <2>1, <2>3, <3>2, <3>3 DEF SumInv
  <2>4. CASE vad_pc \notin {"measure", "copy"}
    BY <2>1, <2>4 DEF SumInv
  <2> QED BY <2>2, <2>3, <2>4
<1> QED BY <1>1, <1>2, <1>3, <1>4, <1>5, <1>6, <1>7, <1>8 DEF VadNext

(* The partial sums are monotone, so what is copied so far is at most the  *)
(* whole.                                                                  *)
LEMMA SumsFit == ASSUME VadInv, SumInv PROVE CopyFits
<1> SUFFICES ASSUME vad_pc = "copy" PROVE offset <= allocated
  BY DEF CopyFits
<1>1. PICK f : Sums(f, Len(segments)) /\ allocated = f[Len(segments)] /\ offset <= f[i - 1]
  BY DEF SumInv
<1>2. /\ i \in Nat /\ i >= 1 /\ i <= Len(segments) + 1 /\ Len(segments) \in Nat /\ offset \in Nat
  BY LenProperties DEF VadInv, VadTypeOK, ControlInv, SumInv
<1>3. i - 1 \in 0..Len(segments) /\ Len(segments) \in 0..Len(segments) /\ i - 1 <= Len(segments)
  BY <1>2
<1>4. f[i - 1] <= f[Len(segments)] /\ f[i - 1] \in Nat /\ f[Len(segments)] \in Nat
  BY <1>1, <1>3 DEF Sums
<1> QED BY <1>1, <1>2, <1>4

(* whisper_vad never writes behind the memory its first loop asked for,    *)
(* for every sequence of probabilities and length of the recording, if the *)
(* settings satisfy CopySettings, as those of the whisper.cpp engine do.   *)
THEOREM CopyStaysInside == ASSUME CopySettings PROVE VadSpec => []CopyFits
<1>1. VadInit => LengthInv /\ SumInv
  BY DEF VadInit, LengthInv, SumInv
<1>2. VadInv /\ LengthInv /\ SumInv /\ [VadNext]_vadVars => (LengthInv /\ SumInv)'
  BY LengthStep, SumStep
<1>3. VadInv /\ SumInv => CopyFits
  BY SumsFit
<1> QED BY <1>1, <1>2, <1>3, VadInvariant, PTL DEF VadSpec
-----------------------------------------------------------------------------
(* The time table.  Its points rise in both times; between two neighbours  *)
(* the mapping is linear.                                                  *)

PointType == [processed : Nat, original : Nat]

Rising(table) ==
    \A p \in table : \A q \in table : p.processed < q.processed => p.original <= q.original
Single(table) ==
    \A p \in table : \A q \in table : p.processed = q.processed => p = q

(* Every set of natural numbers has a least element. *)
LEMMA Least ==
    ASSUME NEW S, S \subseteq Nat, S # {}
    PROVE  \E n \in S : \A m \in S : n <= m
<1> DEFINE R == OpToRel(<, Nat)
<1>1. IsWellFoundedOn(R, Nat)
  BY NatLessThanWellFounded
<1>2. \A m \in Nat : \A k \in Nat : m < k => <<m, k>> \in R
  BY DEF OpToRel
<1> HIDE DEF R
<1>3. PICK n \in S : \A m \in S : ~ (<<m, n>> \in R)
  BY <1>1, WFMin
<1>4. ASSUME NEW m \in S PROVE n <= m
  <2>1. m \in Nat /\ n \in Nat
    OBVIOUS
  <2>2. ~ (m < n)
    BY <1>2, <1>3, <2>1
  <2> QED BY <2>1, <2>2
<1> QED BY <1>4

LEMMA FirstPoint ==
    ASSUME NEW T, T \subseteq PointType, T # {}
    PROVE  \E p \in T : \A q \in T : p.processed <= q.processed
<1> DEFINE S == {p.processed : p \in T}
<1>1. S \subseteq Nat /\ S # {}
  BY DEF PointType
<1> HIDE DEF S
<1>2. PICK n \in S : \A m \in S : n <= m
  BY <1>1, Least
<1> QED BY <1>2 DEF S

LEMMA LastPoint ==
    ASSUME NEW T, T \subseteq PointType, T # {}, NEW bound \in Nat,
           \A p \in T : p.processed <= bound
    PROVE  \E p \in T : \A q \in T : q.processed <= p.processed
<1> DEFINE S == {bound - p.processed : p \in T}
<1>0. \A p \in T : p.processed \in Nat
  BY DEF PointType
<1>1. S \subseteq Nat /\ S # {}
  BY <1>0
<1> HIDE DEF S
<1>2. PICK n \in S : \A m \in S : n <= m
  BY <1>1, Least
<1>3. PICK p \in T : n = bound - p.processed
  BY <1>2 DEF S
<1>4. ASSUME NEW q \in T PROVE q.processed <= p.processed
  <2>1. bound - q.processed \in S
    BY DEF S
  <2>2. bound - p.processed <= bound - q.processed
    BY <1>2, <1>3, <2>1
  <2> QED BY <1>0, <2>2
<1> QED BY <1>4

TableOK(b) ==
    /\ mapping \subseteq PointType /\ mapping # {} /\ b \in Nat
    /\ \A p \in mapping : p.processed <= b
    /\ Rising(mapping) /\ Single(mapping)

LEMMA PointsRise ==
    ASSUME NEW b, TableOK(b), NEW p \in mapping, NEW q \in mapping, p.processed <= q.processed
    PROVE  p.original <= q.original
<1>1. /\ p.processed \in Nat /\ q.processed \in Nat /\ p.original \in Nat /\ q.original \in Nat
  BY DEF TableOK, PointType
<1>2. CASE p.processed < q.processed
  BY <1>2 DEF TableOK, Rising
<1>3. CASE p.processed = q.processed
  BY <1>1, <1>3 DEF TableOK, Single
<1> QED BY <1>1, <1>2, <1>3

(* The neighbours of a time in the table. *)
Between(l, u, t) ==
    /\ l \in mapping /\ u \in mapping /\ l.processed < t /\ t <= u.processed
    /\ \A q \in mapping : /\ q.processed < t => q.processed <= l.processed
                          /\ q.processed >= t => u.processed <= q.processed

Interpolated(l, u, t) ==
    IF u.processed = t THEN u.original
    ELSE l.original + ((t - l.processed) * (u.original - l.original))
                          \div (u.processed - l.processed)

IsFirst(p) == p \in mapping /\ \A q \in mapping : p.processed <= q.processed
IsBack(p) == p \in mapping /\ \A q \in mapping : p.processed >= q.processed

LEMMA MapTimeCases ==
    ASSUME NEW b, TableOK(b), NEW t \in Nat
    PROVE  \/ \E p : IsFirst(p) /\ t <= p.processed /\ MapTime(t) = p.original
           \/ \E p : IsBack(p) /\ t >= p.processed /\ MapTime(t) = p.original
           \/ \E l, u : Between(l, u, t) /\ MapTime(t) = Interpolated(l, u, t)
<1> DEFINE front == CHOOSE p \in mapping : \A q \in mapping : p.processed <= q.processed
           back == CHOOSE p \in mapping : \A q \in mapping : p.processed >= q.processed
           upper == CHOOSE p \in mapping :
                       /\ p.processed >= t
                       /\ \A q \in mapping : q.processed >= t => p.processed <= q.processed
           lower == CHOOSE p \in mapping :
                       /\ p.processed < t
                       /\ \A q \in mapping : q.processed < t => p.processed >= q.processed
<1>0. /\ mapping \subseteq PointType /\ mapping # {} /\ b \in Nat
      /\ \A p \in mapping : p.processed \in Nat /\ p.processed <= b
  BY DEF TableOK, PointType
<1>1. IsFirst(front)
  <2>1. \E p \in mapping : \A q \in mapping : p.processed <= q.processed
    BY <1>0, FirstPoint
  <2> QED BY <2>1 DEF IsFirst
<1>2. IsBack(back)
  <2>1. \E p \in mapping : \A q \in mapping : q.processed <= p.processed
    BY <1>0, LastPoint
  <2>2. PICK p \in mapping : \A q \in mapping : q.processed <= p.processed
    BY <2>1
  <2>3. \A q \in mapping : p.processed >= q.processed
    BY <1>0, <2>2
  <2>4. \E r \in mapping : \A q \in mapping : r.processed >= q.processed
    BY <2>3
  <2> QED BY <2>4 DEF IsBack
<1>3. MapTime(t) =
        IF t <= front.processed THEN front.original
        ELSE IF t >= back.processed THEN back.original
        ELSE IF upper.processed = t THEN upper.original
        ELSE lower.original + ((t - lower.processed) * (upper.original - lower.original))
                                \div (upper.processed - lower.processed)
  BY <1>0 DEF MapTime
<1>4. ASSUME ~ (t <= front.processed), ~ (t >= back.processed)
      PROVE  Between(lower, upper, t)
  <2>1. front \in mapping /\ back \in mapping /\ front.processed < t /\ t <= back.processed
    BY <1>0, <1>1, <1>2, <1>4 DEF IsFirst, IsBack
  <2> DEFINE Low == {p \in mapping : p.processed < t}
             Up == {p \in mapping : p.processed >= t}
  <2>2. Low \subseteq PointType /\ Low # {} /\ Up \subseteq PointType /\ Up # {}
    BY <1>0, <2>1
  <2>3. \A p \in Low : p.processed <= t
    BY <1>0
  <2>4. PICK p \in Up : \A q \in Up : p.processed <= q.processed
    <3> HIDE DEF Up
    <3> QED BY <2>2, FirstPoint
  <2>5. PICK r \in Low : \A q \in Low : q.processed <= r.processed
    <3> HIDE DEF Low
    <3> QED BY <2>2, <2>3, LastPoint
  <2>6. \E x \in mapping : /\ x.processed >= t
                           /\ \A q \in mapping : q.processed >= t => x.processed <= q.processed
    BY <2>4
  <2>7. \E x \in mapping : /\ x.processed < t
                           /\ \A q \in mapping : q.processed < t => x.processed >= q.processed
    BY <1>0, <2>5
  <2>8. /\ upper \in mapping /\ upper.processed >= t
        /\ \A q \in mapping : q.processed >= t => upper.processed <= q.processed
    BY <2>6
  <2>9. /\ lower \in mapping /\ lower.processed < t
        /\ \A q \in mapping : q.processed < t => lower.processed >= q.processed
    BY <2>7
  <2> HIDE DEF upper, lower
  <2>10. \A q \in mapping : q.processed < t => q.processed <= lower.processed
    BY <1>0, <2>9
  <2>11. t <= upper.processed
    BY <1>0, <2>8
  <2> QED BY <2>8, <2>9, <2>10, <2>11 DEF Between
<1> HIDE DEF front, back, upper, lower
<1>5. CASE t <= front.processed
  BY <1>1, <1>3, <1>5
<1>6. CASE ~ (t <= front.processed) /\ t >= back.processed
  BY <1>2, <1>3, <1>6
<1>7. CASE ~ (t <= front.processed) /\ ~ (t >= back.processed)
  <2>1. Between(lower, upper, t)
    BY <1>4, <1>7
  <2>2. MapTime(t) = Interpolated(lower, upper, t)
    BY <1>3, <1>7 DEF Interpolated
  <2> QED BY <2>1, <2>2
<1> QED BY <1>5, <1>6, <1>7

(* A fraction of a distance. *)
LEMMA Fraction ==
    ASSUME NEW x \in Nat, NEW y \in Nat, NEW d \in Nat, NEW w \in Nat \ {0}, x <= y, y <= w
    PROVE  /\ (x * d) \div w \in Nat /\ (y * d) \div w \in Nat
           /\ (x * d) \div w <= (y * d) \div w /\ (y * d) \div w <= d
<1> DEFINE m == x * d
           n == y * d
           q == m \div w
           r == n \div w
<1>1. m \in Nat /\ n \in Nat /\ m <= n /\ n <= w * d /\ w * d \in Nat
  BY ProductMonotone
<1> HIDE DEF m, n
<1>2. q \in Nat /\ q * w <= m /\ m < q * w + w /\ r \in Nat /\ r * w <= n /\ n < r * w + w
  BY <1>1, DivideFloor
<1> HIDE DEF q, r
<1>3. ASSUME q > r PROVE FALSE
  <2>1. r + 1 <= q /\ r + 1 \in Nat
    BY <1>2, <1>3
  <2>2. (r + 1) * w <= q * w
    BY <1>2, <2>1, ProductMonotone
  <2>3. (r + 1) * w = r * w + w /\ r * w \in Nat /\ q * w \in Nat
    BY <1>2
  <2> QED BY <1>1, <1>2, <2>2, <2>3
<1>4. ASSUME r > d PROVE FALSE
  <2>1. d + 1 <= r /\ d + 1 \in Nat
    BY <1>2, <1>4
  <2>2. (d + 1) * w <= r * w
    BY <1>2, <2>1, ProductMonotone
  <2>3. (d + 1) * w = w * d + w /\ r * w \in Nat
    BY <1>2
  <2> QED BY <1>1, <1>2, <2>2, <2>3
<1>5. q <= r /\ r <= d
  BY <1>2, <1>3, <1>4
<1> QED BY <1>2, <1>5 DEF q, r, m, n

LEMMA InterpolatedFacts ==
    ASSUME NEW b, TableOK(b), NEW t \in Nat, NEW l, NEW u, Between(l, u, t)
    PROVE  /\ Interpolated(l, u, t) \in Nat /\ l.original \in Nat /\ u.original \in Nat
           /\ l.original <= Interpolated(l, u, t) /\ Interpolated(l, u, t) <= u.original
           /\ t + 1 <= u.processed => Interpolated(l, u, t) <= Interpolated(l, u, t + 1)
<1> DEFINE p == l.processed  o == l.original  P == u.processed  O == u.original
<1>1. p \in Nat /\ o \in Nat /\ P \in Nat /\ O \in Nat /\ p < t /\ t <= P
  BY DEF Between, TableOK, PointType
<1>2. o <= O
  BY <1>1, PointsRise DEF Between
<1> DEFINE F(x) == ((x - p) * (O - o)) \div (P - p)
<1>3. \A x : Interpolated(l, u, x) = IF P = x THEN O ELSE o + F(x)
  BY DEF Interpolated
<1>4. ASSUME NEW x \in Nat, NEW y \in Nat, p <= x, x <= y, y <= P
      PROVE  F(x) \in Nat /\ F(y) \in Nat /\ F(x) <= F(y) /\ F(y) <= O - o
  <2> DEFINE a == x - p  c == y - p  d == O - o  w == P - p
  <2>1. a \in Nat /\ c \in Nat /\ d \in Nat /\ w \in Nat \ {0} /\ a <= c /\ c <= w
    BY <1>1, <1>2, <1>4
  <2> HIDE DEF a, c, d, w
  <2>2. /\ (a * d) \div w \in Nat /\ (c * d) \div w \in Nat
        /\ (a * d) \div w <= (c * d) \div w /\ (c * d) \div w <= d
    BY <2>1, Fraction
  <2> QED BY <2>2 DEF a, c, d, w
<1> HIDE DEF F, p, o, P, O
<1>5. F(t) \in Nat /\ F(t) <= O - o
  BY <1>1, <1>4
<1>6. /\ Interpolated(l, u, t) \in Nat /\ o <= Interpolated(l, u, t) /\ Interpolated(l, u, t) <= O
  BY <1>1, <1>2, <1>3, <1>5
<1>7. ASSUME t + 1 <= P PROVE Interpolated(l, u, t) <= Interpolated(l, u, t + 1)
  <2>1. F(t) \in Nat /\ F(t + 1) \in Nat /\ F(t) <= F(t + 1) /\ F(t + 1) <= O - o
    BY <1>1, <1>4, <1>7
  <2> QED BY <1>1, <1>2, <1>3, <1>7, <2>1
<1> QED BY <1>1, <1>6, <1>7 DEF o, O, P

LEMMA MapTimeRange ==
    ASSUME NEW b, TableOK(b), NEW t \in Nat, NEW top \in Nat, \A p \in mapping : p.original <= top
    PROVE  /\ MapTime(t) \in 0..top
           /\ \A p \in mapping : IsFirst(p) => p.original <= MapTime(t)
<1>0. \A p \in mapping : p.processed \in Nat /\ p.original \in Nat
  BY DEF TableOK, PointType
<1>1. ASSUME NEW p, p \in mapping, MapTime(t) = p.original
      PROVE  /\ MapTime(t) \in 0..top
             /\ \A q \in mapping : IsFirst(q) => q.original <= MapTime(t)
  <2>1. MapTime(t) \in 0..top
    BY <1>0, <1>1
  <2>2. ASSUME NEW q \in mapping, IsFirst(q) PROVE q.original <= MapTime(t)
    <3>1. q.processed <= p.processed
      BY <1>1, <2>2 DEF IsFirst
    <3> QED BY <1>1, <3>1, PointsRise
  <2> QED BY <2>1, <2>2
<1>2. CASE \E p : IsFirst(p) /\ t <= p.processed /\ MapTime(t) = p.original
  BY <1>1, <1>2 DEF IsFirst
<1>3. CASE \E p : IsBack(p) /\ t >= p.processed /\ MapTime(t) = p.original
  BY <1>1, <1>3 DEF IsBack
<1>4. CASE \E l, u : Between(l, u, t) /\ MapTime(t) = Interpolated(l, u, t)
  <2>1. PICK l, u : Between(l, u, t) /\ MapTime(t) = Interpolated(l, u, t)
    BY <1>4
  <2>2. l \in mapping /\ u \in mapping
    BY <2>1 DEF Between
  <2>3. /\ MapTime(t) \in Nat /\ l.original \in Nat /\ u.original \in Nat
        /\ l.original <= MapTime(t) /\ MapTime(t) <= u.original
    BY <2>1, InterpolatedFacts
  <2>4. MapTime(t) \in 0..top
    <3>1. u.original <= top
      BY <2>2
    <3> QED BY <2>3, <3>1
  <2>5. ASSUME NEW q \in mapping, IsFirst(q) PROVE q.original <= MapTime(t)
    <3>1. q.processed <= l.processed
      BY <2>2, <2>5 DEF IsFirst
    <3>2. q.original <= l.original /\ q.original \in Nat
      BY <1>0, <2>2, <3>1, PointsRise
    <3> QED BY <2>3, <3>2
  <2> QED BY <2>4, <2>5
<1> QED BY <1>2, <1>3, <1>4, MapTimeCases

LEMMA MapTimeMonotone ==
    ASSUME NEW b, TableOK(b), NEW t \in Nat
    PROVE  MapTime(t) <= MapTime(t + 1)
<1>0. /\ \A p \in mapping : p.processed \in Nat /\ p.original \in Nat
      /\ t + 1 \in Nat
  BY DEF TableOK, PointType
<1>1. CASE \E p : IsFirst(p) /\ t <= p.processed /\ MapTime(t) = p.original
  <2>1. PICK p : IsFirst(p) /\ MapTime(t) = p.original
    BY <1>1
  <2>2. p \in mapping
    BY <2>1 DEF IsFirst
  <2>3. CASE \E q : IsFirst(q) /\ t + 1 <= q.processed /\ MapTime(t + 1) = q.original
    <3>1. PICK q : IsFirst(q) /\ MapTime(t + 1) = q.original
      BY <2>3
    <3>2. q \in mapping /\ p.processed <= q.processed
      BY <2>1, <3>1 DEF IsFirst
    <3> QED BY <2>1, <2>2, <3>1, <3>2, PointsRise
  <2>4. CASE \E q : IsBack(q) /\ t + 1 >= q.processed /\ MapTime(t + 1) = q.original
    <3>1. PICK q : IsBack(q) /\ MapTime(t + 1) = q.original
      BY <2>4
    <3>2. q \in mapping /\ p.processed <= q.processed
      BY <2>1, <3>1 DEF IsFirst, IsBack
    <3> QED BY <2>1, <2>2, <3>1, <3>2, PointsRise
  <2>5. CASE \E l, u : Between(l, u, t + 1) /\ MapTime(t + 1) = Interpolated(l, u, t + 1)
    <3>1. PICK l, u : Between(l, u, t + 1) /\ MapTime(t + 1) = Interpolated(l, u, t + 1)
      BY <2>5
    <3>2. l \in mapping /\ p.processed <= l.processed
      BY <2>1, <3>1 DEF IsFirst, Between
    <3>3. p.original <= l.original
      BY <2>2, <3>2, PointsRise
    <3>4. l.original <= MapTime(t + 1) /\ l.original \in Nat /\ MapTime(t + 1) \in Nat
      BY <1>0, <3>1, InterpolatedFacts
    <3> QED BY <1>0, <2>1, <2>2, <3>3, <3>4
  <2> QED BY <1>0, <2>3, <2>4, <2>5, MapTimeCases
<1>2. CASE \E p : IsBack(p) /\ t >= p.processed /\ MapTime(t) = p.original
  <2>1. PICK p : IsBack(p) /\ t >= p.processed /\ MapTime(t) = p.original
    BY <1>2
  <2>2. p \in mapping /\ \A q \in mapping : q.processed <= p.processed
    BY <1>0, <2>1 DEF IsBack
  <2>3. \A q \in mapping : ~ (t + 1 <= q.processed)
    BY <1>0, <2>1, <2>2
  <2>4. CASE \E q : IsFirst(q) /\ t + 1 <= q.processed /\ MapTime(t + 1) = q.original
    BY <2>3, <2>4 DEF IsFirst
  <2>5. CASE \E q : IsBack(q) /\ t + 1 >= q.processed /\ MapTime(t + 1) = q.original
    <3>1. PICK q : IsBack(q) /\ MapTime(t + 1) = q.original
      BY <2>5
    <3>2. q \in mapping /\ p.processed <= q.processed
      BY <1>0, <2>2, <3>1 DEF IsBack
    <3> QED BY <2>1, <2>2, <3>1, <3>2, PointsRise
  <2>6. CASE \E l, u : Between(l, u, t + 1) /\ MapTime(t + 1) = Interpolated(l, u, t + 1)
    BY <2>3, <2>6 DEF Between
  <2> QED BY <1>0, <2>4, <2>5, <2>6, MapTimeCases
<1>3. CASE \E l, u : Between(l, u, t) /\ MapTime(t) = Interpolated(l, u, t)
  <2>1. PICK l, u : Between(l, u, t) /\ MapTime(t) = Interpolated(l, u, t)
    BY <1>3
  <2>2. /\ l \in mapping /\ u \in mapping /\ l.processed < t /\ t <= u.processed
        /\ \A q \in mapping : /\ q.processed < t => q.processed <= l.processed
                              /\ q.processed >= t => u.processed <= q.processed
    BY <2>1 DEF Between
  <2>3. /\ MapTime(t) \in Nat /\ MapTime(t) <= u.original /\ u.original \in Nat
        /\ t + 1 <= u.processed => MapTime(t) <= Interpolated(l, u, t + 1)
    BY <2>1, InterpolatedFacts
  <2>4. CASE \E q : IsFirst(q) /\ t + 1 <= q.processed /\ MapTime(t + 1) = q.original
    <3>1. PICK q : IsFirst(q) /\ t + 1 <= q.processed
      BY <2>4
    <3>2. q \in mapping /\ q.processed <= l.processed
      BY <2>2, <3>1 DEF IsFirst
    <3> QED BY <1>0, <2>2, <3>1, <3>2
  <2>5. CASE \E q : IsBack(q) /\ t + 1 >= q.processed /\ MapTime(t + 1) = q.original
    <3>1. PICK q : IsBack(q) /\ MapTime(t + 1) = q.original
      BY <2>5
    <3>2. q \in mapping /\ u.processed <= q.processed
      BY <1>0, <2>2, <3>1 DEF IsBack
    <3>3. u.original <= q.original /\ q.original \in Nat
      BY <1>0, <2>2, <3>2, PointsRise
    <3> QED BY <2>3, <3>1, <3>3
  <2>6. CASE \E m, v : Between(m, v, t + 1) /\ MapTime(t + 1) = Interpolated(m, v, t + 1)
    <3>1. PICK m, v : Between(m, v, t + 1) /\ MapTime(t + 1) = Interpolated(m, v, t + 1)
      BY <2>6
    <3>2. /\ m \in mapping /\ v \in mapping /\ m.processed < t + 1 /\ t + 1 <= v.processed
          /\ \A q \in mapping : /\ q.processed < t + 1 => q.processed <= m.processed
                                /\ q.processed >= t + 1 => v.processed <= q.processed
      BY <3>1 DEF Between
    <3>3. CASE u.processed = t
      <4>1. u.processed <= m.processed
        BY <1>0, <2>2, <3>2, <3>3
      <4>2. u.original <= m.original
        BY <2>2, <3>2, <4>1, PointsRise
      <4>3. m.original <= MapTime(t + 1) /\ m.original \in Nat /\ MapTime(t + 1) \in Nat
        BY <1>0, <3>1, InterpolatedFacts
      <4> QED BY <2>3, <4>2, <4>3
    <3>4. CASE u.processed # t
      <4>1. t + 1 <= u.processed
        BY <1>0, <2>2, <3>4
      <4>2. m.processed < t
        <5>1. ASSUME m.processed >= t PROVE FALSE
          BY <1>0, <2>2, <3>2, <4>1, <5>1
        <5> QED BY <1>0, <3>2, <5>1
      <4>3. m.processed <= l.processed /\ l.processed <= m.processed
        BY <1>0, <2>2, <3>2, <4>2
      <4>4. v.processed <= u.processed /\ u.processed <= v.processed
        BY <1>0, <2>2, <3>2, <4>1
      <4>5. m.processed = l.processed /\ v.processed = u.processed
        BY <1>0, <2>2, <3>2, <4>3, <4>4
      <4>6. m = l /\ v = u
        BY <2>2, <3>2, <4>5 DEF TableOK, Single
      <4> QED BY <2>3, <3>1, <4>1, <4>6
    <3> QED BY <3>3, <3>4
  <2> QED BY <1>0, <2>4, <2>5, <2>6, MapTimeCases
<1> QED BY <1>1, <1>2, <1>3, MapTimeCases
-----------------------------------------------------------------------------
(* Every segment adds points behind those of the table, in both times.     *)

EndsInside == \A k \in 1..Len(segments) : segments[k].end <= SamplesToCs(AudioLength)

TableInv ==
    /\ vad_pc \in {"pad", "measure", "copy"} => EndsInside
    /\ vad_pc \notin {"idle", "copy"} => mapping = {}
    /\ Rising(mapping)
    /\ \A p \in mapping : /\ p.processed <= SamplesToCs(offset)
                          /\ p.original <= SamplesToCs(AudioLength)
    /\ vad_pc = "copy" /\ i <= Len(segments) => \A p \in mapping : p.original <= segments[i].start
    /\ vad_pc = "idle" => Single(mapping)

(* Two tables one behind the other. *)
LEMMA RisingUnion ==
    ASSUME NEW M, NEW N, M \subseteq PointType, N \subseteq PointType, Rising(M), Rising(N),
           \A p \in M : \A q \in N : p.processed <= q.processed /\ p.original <= q.original
    PROVE  Rising(M \cup N)
<1> SUFFICES ASSUME NEW p \in M \cup N, NEW q \in M \cup N, p.processed < q.processed
             PROVE  p.original <= q.original
  BY DEF Rising
<1>1. p.processed \in Nat /\ q.processed \in Nat
  BY DEF PointType
<1>2. CASE p \in M /\ q \in M
  BY <1>2 DEF Rising
<1>3. CASE p \in N /\ q \in N
  BY <1>3 DEF Rising
<1>4. CASE p \in M /\ q \in N
  BY <1>4
<1>5. CASE p \in N /\ q \in M
  <2>1. q.processed <= p.processed
    BY <1>5
  <2> QED BY <1>1, <2>1
<1> QED BY <1>2, <1>3, <1>4, <1>5

LEMMA PointFacts ==
    ASSUME NEW a \in Nat, NEW b \in Nat
    PROVE  Point(a, b) \in PointType /\ Point(a, b).processed = SamplesToCs(a) /\ Point(a, b).original = b
BY RoundingMonotone DEF Point, PointType

(* Four points one behind the other. *)
LEMMA ChainRises ==
    ASSUME NEW P1 \in PointType, NEW P2 \in PointType, NEW P3 \in PointType, NEW P4 \in PointType,
           P1.processed <= P2.processed, P2.processed <= P3.processed, P3.processed <= P4.processed,
           P1.original <= P2.original, P2.original <= P3.original, P3.original <= P4.original
    PROVE  Rising({P1, P2, P3, P4})
<1>1. /\ P1.processed \in Nat /\ P2.processed \in Nat /\ P3.processed \in Nat /\ P4.processed \in Nat
      /\ P1.original \in Nat /\ P2.original \in Nat /\ P3.original \in Nat /\ P4.original \in Nat
  BY DEF PointType
<1> QED BY <1>1 DEF Rising

LEMMA PointsBehind ==
    ASSUME VadInv, EndsInside, NEW k \in 1..Len(segments), NEW at \in Nat, NEW length \in Nat,
           NEW copied \in Nat, length <= copied, NEW next \in Nat,
           next = at + copied + (IF IsLast(k) THEN 0 ELSE Silence)
    PROVE  /\ Points(k, at, length, copied) \subseteq PointType
           /\ Rising(Points(k, at, length, copied))
           /\ \A p \in Points(k, at, length, copied) :
                 /\ SamplesToCs(at) <= p.processed /\ p.processed <= SamplesToCs(next)
                 /\ segments[k].start <= p.original
                 /\ p.original <= SamplesToCs(AudioLength)
                 /\ k < Len(segments) => p.original <= segments[k + 1].start
<1> DEFINE s == segments[k].start  e == segments[k].end
           A == SamplesToCs(at)  B == SamplesToCs(at + length)  C == SamplesToCs(at + copied)
           P1 == Point(at, s)  P2 == Point(at + length, e)  P3 == Point(at + copied, e)
           top == SamplesToCs(AudioLength)
<1>1. s \in Nat /\ e \in Nat /\ s <= e /\ Silence \in Nat /\ Len(segments) \in Nat
  BY SegmentFacts, ConstantFacts, LenProperties DEF VadInv, VadTypeOK
<1>2. /\ A \in Nat /\ B \in Nat /\ C \in Nat /\ A <= B /\ B <= C
      /\ at + length \in Nat /\ at + copied \in Nat
  <2>1. /\ at + length \in Nat /\ at + copied \in Nat
        /\ at <= at + length /\ at + length <= at + copied
    OBVIOUS
  <2>2. A \in Nat /\ B \in Nat /\ A <= B
    BY <2>1, RoundingMonotone
  <2>3. C \in Nat /\ B <= C
    BY <2>1, RoundingMonotone
  <2> QED BY <2>1, <2>2, <2>3
<1>3. /\ P1 \in PointType /\ P2 \in PointType /\ P3 \in PointType
      /\ P1.processed = A /\ P2.processed = B /\ P3.processed = C
      /\ P1.original = s /\ P2.original = e /\ P3.original = e
  BY <1>1, <1>2, PointFacts
<1>4. e <= top /\ top \in Nat
  <2>1. AudioLength \in Nat
    BY GridFacts DEF VadInv
  <2> QED BY <2>1, RoundingMonotone DEF EndsInside
<1>5. CASE IsLast(k)
  <2>1. Points(k, at, length, copied) = {P1, P2} /\ next = at + copied /\ ~ (k < Len(segments))
    BY <1>1, <1>5 DEF Points, IsLast
  <2> HIDE DEF s, e, A, B, C, P1, P2, P3, top
  <2>2. Rising({P1, P2, P2, P2})
    BY <1>1, <1>2, <1>3, ChainRises
  <2>3. {P1, P2, P2, P2} = {P1, P2}
    OBVIOUS
  <2>4. ASSUME NEW p \in {P1, P2}
        PROVE  p \in PointType /\ A <= p.processed /\ p.processed <= C /\ s <= p.original /\ p.original <= top
    BY <1>1, <1>2, <1>3, <1>4, <2>4
  <2> QED BY <2>1, <2>2, <2>3, <2>4 DEF s, A, C, top
<1>6. CASE ~ IsLast(k)
  <2> DEFINE n == segments[k + 1].start
             D == SamplesToCs(at + copied + Silence)
             P4 == Point(at + copied + Silence, n)
  <2>1. n \in Nat /\ e <= n /\ n <= top
    <3>1. k < Len(segments) /\ k + 1 \in 1..Len(segments) /\ k \in 1..(Len(segments) - 1)
      BY <1>1, <1>6 DEF IsLast
    <3>2. n \in Nat /\ e <= n
      BY <1>1, <3>1, SegmentFacts DEF VadInv, SegmentsInv, InOrder
    <3>3. n <= segments[k + 1].end /\ segments[k + 1].end \in Nat /\ segments[k + 1].end <= top
      BY <3>1, SegmentFacts DEF EndsInside
    <3> QED BY <1>4, <3>2, <3>3
  <2>2. at + copied + Silence \in Nat /\ D \in Nat /\ C <= D
    <3>1. at + copied + Silence \in Nat /\ at + copied <= at + copied + Silence
      BY <1>1, <1>2
    <3> QED BY <1>2, <3>1, RoundingMonotone
  <2>3. P4 \in PointType /\ P4.processed = D /\ P4.original = n
    BY <2>1, <2>2, PointFacts
  <2>4. Points(k, at, length, copied) = {P1, P2, P3, P4} /\ next = at + copied + Silence
    BY <1>6 DEF Points
  <2> HIDE DEF s, e, A, B, C, P1, P2, P3, top, n, D, P4
  <2>5. Rising({P1, P2, P3, P4})
    <3>1. /\ P1.processed <= P2.processed /\ P2.processed <= P3.processed
          /\ P3.processed <= P4.processed
      BY <1>2, <1>3, <2>2, <2>3
    <3>2. /\ P1.original <= P2.original /\ P2.original <= P3.original
          /\ P3.original <= P4.original
      BY <1>1, <1>3, <2>1, <2>3
    <3>3. P1 \in PointType /\ P2 \in PointType /\ P3 \in PointType /\ P4 \in PointType
      BY <1>3, <2>3
    <3> QED BY <3>1, <3>2, <3>3, ChainRises
  <2>6. ASSUME NEW p \in {P1, P2, P3, P4}
        PROVE  /\ p \in PointType /\ A <= p.processed /\ p.processed <= D
               /\ s <= p.original /\ p.original <= top /\ p.original <= n
    BY <1>1, <1>2, <1>3, <1>4, <2>1, <2>2, <2>3, <2>6
  <2> QED BY <2>4, <2>5, <2>6 DEF s, A, D, top, n
<1> QED BY <1>5, <1>6

LEMMA PadTable == ASSUME VadInv, TableInv, Pad PROVE TableInv'
<1>1. /\ vad_pc = "pad" /\ vad_pc' = "pad" /\ i \in Nat /\ i >= 1 /\ i <= Len(speeches)
      /\ params' = params /\ size' = size /\ params \in Settings /\ UNCHANGED <<offset, mapping>>
      /\ speeches' = Padded(speeches, i)
      /\ segments' = Append(segments, Rounded(speeches'[i]))
      /\ speeches \in Seq(PieceType) /\ Ordered(speeches, AudioLength) /\ segments \in Seq(PieceType)
      /\ Len(segments) = i - 1
  BY DEF Pad, VadInv, VadTypeOK, ControlInv, SegmentsInv, call, copy, Rounded
<1>2. AudioLength \in Nat /\ size \in Nat /\ AudioLength' = AudioLength /\ params.pad \in Nat
  BY <1>1, GridFacts, SameLength, SettingFacts DEF VadInv
<1>3. i \in 1..Len(speeches) /\ Len(speeches) \in Nat
  BY <1>1, LenProperties
<1>4. /\ speeches' \in Seq(PieceType) /\ Len(speeches') = Len(speeches)
      /\ Ordered(speeches', AudioLength)
  BY <1>1, <1>2, <1>3, PaddedOrdered
<1>5. speeches'[i].start \in Nat /\ speeches'[i].end \in Nat /\ speeches'[i].end <= AudioLength
  BY <1>3, <1>4, PiecesTyped DEF Ordered
<1>6. /\ SamplesToCs(speeches'[i].start) \in Nat /\ SamplesToCs(speeches'[i].end) \in Nat
      /\ SamplesToCs(speeches'[i].end) <= SamplesToCs(AudioLength)
  BY <1>2, <1>5, RoundingMonotone
<1>7. Rounded(speeches'[i]) \in PieceType /\ Rounded(speeches'[i]).end = SamplesToCs(speeches'[i].end)
  BY <1>6, PieceFacts DEF Rounded
<1>8. /\ Len(segments') = i /\ segments'[i] = Rounded(speeches'[i])
      /\ \A k \in 1..(i - 1) : segments'[k] = segments[k]
  BY <1>1, <1>7, AppendProperties
<1>9. ASSUME NEW k \in 1..Len(segments') PROVE segments'[k].end <= SamplesToCs(AudioLength)
  <2>1. CASE k = i
    BY <1>6, <1>7, <1>8, <2>1
  <2>2. CASE k < i
    <3>1. k \in 1..(i - 1) /\ k \in 1..Len(segments)
      BY <1>1, <2>2
    <3> QED BY <1>1, <1>8, <3>1 DEF TableInv, EndsInside
  <2> QED BY <1>1, <1>8, <2>1, <2>2
<1>10. SamplesToCs(AudioLength)' = SamplesToCs(AudioLength)
  BY <1>2 DEF SamplesToCs
<1>11. EndsInside'
  BY <1>9, <1>10 DEF EndsInside
<1>12. mapping' = {}
  BY <1>1 DEF TableInv
<1> QED BY <1>1, <1>11, <1>12 DEF TableInv, Rising, Single

LEMMA LoopEndTable == ASSUME VadInv, TableInv, LoopEnd PROVE TableInv'
<1>1. /\ UNCHANGED <<segments, params, size, offset, mapping>>
      /\ \/ vad_pc = "merge" /\ vad_pc' = "short"
         \/ vad_pc = "short" /\ vad_pc' = "pad" /\ segments = <<>>
         \/ vad_pc = "pad" /\ vad_pc' \in {"measure", "collect"}
         \/ vad_pc = "measure" /\ vad_pc' = "copy"
         \/ vad_pc = "collect" /\ vad_pc' = "idle"
  BY DEF LoopEnd, call, copy, VadInv, ControlInv
<1>2. AudioLength' = AudioLength
  BY <1>1, SameLength
<1>3. SamplesToCs(AudioLength)' = SamplesToCs(AudioLength)
  BY <1>2 DEF SamplesToCs
<1>4. mapping' = {}
  BY <1>1 DEF TableInv
<1>5. vad_pc' \in {"pad", "measure", "copy"} => EndsInside'
  <2>1. CASE vad_pc = "short"
    BY <1>1, <2>1 DEF EndsInside
  <2>2. CASE vad_pc \in {"pad", "measure"}
    <3>1. EndsInside
      BY <2>2 DEF TableInv
    <3> QED BY <1>1, <1>3, <3>1 DEF EndsInside
  <2> QED BY <1>1, <2>1, <2>2
<1> QED BY <1>4, <1>5 DEF TableInv, Rising, Single

LEMMA CopyTable == ASSUME VadInv, TableInv, CopySegment PROVE TableInv'
<1> DEFINE start == Lesser(CsToSamples(segments[i].start), LastSample)
           end == Lesser(CsToSamples(segments[i].end), LastSample)
           last == IF IsLast(i) THEN end ELSE Lesser(end + params.overlap, LastSample)
           copied == last - start
           length == end - start
           top == SamplesToCs(AudioLength)
<1>1. /\ vad_pc = "copy" /\ vad_pc' = vad_pc /\ i \in Nat /\ i >= 1 /\ i <= Len(segments) /\ i' = i + 1
      /\ UNCHANGED <<segments, params, size>> /\ size >= 1 /\ params \in Settings
      /\ segments \in Seq(PieceType) /\ offset \in Nat /\ mapping \subseteq PointType
  BY DEF CopySegment, VadInv, VadTypeOK, ControlInv, call, PointType
<1>2. IF copied > 0
      THEN /\ mapping' = mapping \cup Points(i, offset, length, copied)
           /\ offset' = offset + copied + (IF IsLast(i) THEN 0 ELSE Silence)
      ELSE UNCHANGED <<mapping, offset>>
  BY DEF CopySegment
<1>3. /\ i \in 1..Len(segments) /\ Len(segments) \in Nat /\ LastSample \in Nat
      /\ params.overlap \in Nat /\ AudioLength' = AudioLength
  BY <1>1, GridFacts, SettingFacts, LenProperties, SameLength DEF VadInv, LastSample
<1>4. start \in Nat /\ end \in Nat /\ start <= end
  BY <1>3, SegmentFacts, ClampFacts
<1> HIDE DEF start, end
<1>5. last \in Nat /\ (end <= LastSample => end <= last)
  BY <1>3, <1>4 DEF Lesser
<1>6. end <= LastSample
  <2>1. CsToSamples(segments[i].end) \in Nat
    BY <1>3, SegmentFacts
  <2> QED BY <1>3, <2>1 DEF end, Lesser
<1> HIDE DEF last
<1>7. SamplesToCs(AudioLength)' = top /\ top = SamplesToCs(AudioLength) /\ EndsInside
  BY <1>1, <1>3 DEF TableInv, SamplesToCs
<1>8. EndsInside'
  BY <1>1, <1>7 DEF EndsInside
<1>9. /\ Rising(mapping)
      /\ \A p \in mapping : /\ p.processed <= SamplesToCs(offset) /\ p.original <= top
                            /\ p.original <= segments[i].start
  BY <1>1 DEF TableInv
<1>10. i < Len(segments) => /\ segments[i].start \in Nat /\ segments[i + 1].start \in Nat
                            /\ segments[i].start <= segments[i + 1].start
  <2> HAVE i < Len(segments)
  <2>1. /\ segments[i].start \in Nat /\ segments[i].end \in Nat
        /\ segments[i].start <= segments[i].end /\ segments[i + 1].start \in Nat
    BY <1>3, SegmentFacts
  <2>2. i \in 1..(Len(segments) - 1)
    BY <1>1, <1>3
  <2>3. segments[i].end <= segments[i + 1].start
    BY <2>2 DEF VadInv, SegmentsInv, InOrder
  <2> QED BY <2>1, <2>3
<1> HIDE DEF top
<1>11. CASE ~ (copied > 0)
  <2>1. UNCHANGED <<mapping, offset>>
    BY <1>2, <1>11
  <2>2. ASSUME NEW p \in mapping, i' <= Len(segments) PROVE p.original <= segments[i + 1].start
    BY <1>1, <1>3, <1>9, <1>10, <2>2 DEF PointType
  <2>3. SamplesToCs(offset)' = SamplesToCs(offset)
    BY <2>1 DEF SamplesToCs
  <2>4. ASSUME NEW p \in mapping'
        PROVE  p.processed <= SamplesToCs(offset)' /\ p.original <= SamplesToCs(AudioLength)'
    BY <1>7, <1>9, <2>1, <2>3
  <2>5. ASSUME i' <= Len(segments'), NEW p \in mapping' PROVE p.original <= segments'[i'].start
    BY <1>1, <2>1, <2>2, <2>5
  <2> QED BY <1>1, <1>8, <1>9, <2>1, <2>4, <2>5 DEF TableInv
<1>12. CASE copied > 0
  <2>1. copied \in Nat /\ length \in Nat /\ length <= copied
    BY <1>3, <1>4, <1>5, <1>6, <1>12
  <2> DEFINE N == Points(i, offset, length, copied)
             next == offset + copied + (IF IsLast(i) THEN 0 ELSE Silence)
  <2>2. next \in Nat /\ offset <= next
    BY <1>1, <2>1, ConstantFacts
  <2>3. mapping' = mapping \cup N /\ offset' = next
    BY <1>2, <1>12
  <2> HIDE DEF copied, length, next
  <2>4. /\ N \subseteq PointType /\ Rising(N)
        /\ \A p \in N : /\ SamplesToCs(offset) <= p.processed /\ p.processed <= SamplesToCs(next)
                        /\ segments[i].start <= p.original
                        /\ p.original <= SamplesToCs(AudioLength)
                        /\ i < Len(segments) => p.original <= segments[i + 1].start
    BY <1>1, <1>3, <1>7, <2>1, <2>2, PointsBehind DEF next
  <2> HIDE DEF N
  <2>5. /\ SamplesToCs(offset) \in Nat /\ SamplesToCs(next) \in Nat
        /\ SamplesToCs(offset) <= SamplesToCs(next)
    BY <1>1, <2>2, RoundingMonotone
  <2>6. segments[i].start \in Nat
    BY <1>3, SegmentFacts
  <2>7. Rising(mapping')
    <3>1. ASSUME NEW p \in mapping, NEW q \in N
          PROVE  p.processed <= q.processed /\ p.original <= q.original
      <4>1. /\ p.processed \in Nat /\ p.original \in Nat /\ q.processed \in Nat /\ q.original \in Nat
        BY <1>1, <2>4 DEF PointType
      <4>2. /\ p.processed <= SamplesToCs(offset) /\ p.original <= segments[i].start
            /\ SamplesToCs(offset) <= q.processed /\ segments[i].start <= q.original
        BY <1>9, <2>4
      <4> QED BY <2>5, <2>6, <4>1, <4>2
    <3>2. Rising(mapping \cup N)
      BY <1>1, <1>9, <2>4, <3>1, RisingUnion
    <3> QED BY <2>3, <3>2
  <2>8. SamplesToCs(offset)' = SamplesToCs(next)
    BY <2>3 DEF SamplesToCs
  <2>9. ASSUME NEW p \in mapping'
        PROVE  p.processed <= SamplesToCs(offset)' /\ p.original <= SamplesToCs(AudioLength)'
    <3>1. CASE p \in mapping
      <4>1. p.processed \in Nat /\ p.processed <= SamplesToCs(offset) /\ p.original <= top
        BY <1>1, <1>9, <3>1 DEF PointType
      <4> QED BY <1>7, <2>5, <2>8, <4>1
    <3>2. CASE p \in N
      BY <1>7, <2>4, <2>8, <3>2
    <3> QED BY <2>3, <3>1, <3>2
  <2>10. ASSUME i' <= Len(segments'), NEW p \in mapping' PROVE p.original <= segments'[i'].start
    <3>1. i < Len(segments) /\ segments'[i'].start = segments[i + 1].start
      BY <1>1, <1>3, <2>10
    <3>2. CASE p \in mapping
      <4>1. p.original \in Nat /\ p.original <= segments[i].start
        BY <1>1, <1>9, <3>2 DEF PointType
      <4> QED BY <1>10, <3>1, <4>1
    <3>3. CASE p \in N
      BY <2>4, <3>1, <3>3
    <3> QED BY <2>3, <3>2, <3>3
  <2> QED BY <1>1, <1>8, <2>7, <2>9, <2>10 DEF TableInv
<1> QED BY <1>11, <1>12

LEMMA SortTable == ASSUME VadInv, TableInv, SortMapping PROVE TableInv'
<1>1. /\ vad_pc' = "idle" /\ UNCHANGED <<segments, params, size, offset>> /\ mapping' \subseteq mapping
      /\ \A p \in mapping : \E q \in mapping' :
            /\ q.processed = p.processed
            /\ \A r \in mapping' : r.processed = p.processed => r = q
  BY DEF SortMapping, call
<1>2. Single(mapping')
  <2> SUFFICES ASSUME NEW p \in mapping', NEW q \in mapping', p.processed = q.processed PROVE p = q
    BY DEF Single
  <2>1. PICK r \in mapping' : \A s \in mapping' : s.processed = p.processed => s = r
    BY <1>1
  <2> QED BY <2>1
<1>3. Rising(mapping')
  BY <1>1 DEF TableInv, Rising
<1>4. SamplesToCs(AudioLength)' = SamplesToCs(AudioLength) /\ SamplesToCs(offset)' = SamplesToCs(offset)
  BY <1>1, SameLength DEF SamplesToCs
<1>5. ASSUME NEW p \in mapping'
      PROVE  p.processed <= SamplesToCs(offset)' /\ p.original <= SamplesToCs(AudioLength)'
  BY <1>1, <1>4 DEF TableInv
<1> QED BY <1>1, <1>2, <1>3, <1>5 DEF TableInv

LEMMA TableStep == ASSUME VadInv, TableInv, [VadNext]_vadVars PROVE TableInv'
<1>1. ASSUME mapping' = {}, vad_pc' \notin {"pad", "measure", "copy"} PROVE TableInv'
  BY <1>1 DEF TableInv, Rising, Single
<1>2. ASSUME NEW p \in Settings, NEW n \in 0..MaxSamples, Call(p, n) PROVE TableInv'
  BY <1>1, <1>2 DEF Call
<1>3. ASSUME NEW class, ScanStart(class) \/ ScanCutHere(class) \/ ScanWindow(class) PROVE TableInv'
  <2>1. vad_pc = "scan" /\ vad_pc' = "scan" /\ mapping' = mapping
    BY <1>3 DEF ScanStart, ScanCutHere, ScanWindow, NextWindow, copy
  <2> QED BY <1>1, <2>1 DEF TableInv
<1>4. CASE DetectFails \/ ScanEnd \/ Merge \/ RemoveShort \/ Collect
  <2>1. /\ vad_pc \in {"scan", "merge", "short", "collect"} /\ mapping' = mapping
        /\ vad_pc' \in {"idle", "merge", "short", "collect"}
    BY <1>4 DEF DetectFails, ScanEnd, Merge, RemoveShort, Collect, copy
  <2> QED BY <1>1, <2>1 DEF TableInv
<1>5. CASE Pad
  BY <1>5, PadTable
<1>6. CASE LoopEnd
  BY <1>6, LoopEndTable
<1>7. CASE Measure
  <2>1. vad_pc = "measure" /\ vad_pc' = "measure" /\ UNCHANGED <<segments, params, size, mapping>>
    BY <1>7 DEF Measure, call
  <2>2. SamplesToCs(AudioLength)' = SamplesToCs(AudioLength)
    BY <2>1, SameLength DEF SamplesToCs
  <2>3. EndsInside' /\ mapping' = {}
    BY <2>1, <2>2 DEF TableInv, EndsInside
  <2> QED BY <2>1, <2>3 DEF TableInv, Rising, Single
<1>8. CASE CopySegment
  BY <1>8, CopyTable
<1>9. CASE SortMapping
  BY <1>9, SortTable
<1>10. CASE UNCHANGED vadVars
  <2>1. UNCHANGED <<vad_pc, i, segments, params, size, offset, mapping>>
    BY <1>10 DEF vadVars, copy, call
  <2>2. SamplesToCs(AudioLength)' = SamplesToCs(AudioLength) /\ SamplesToCs(offset)' = SamplesToCs(offset)
    BY <2>1, SameLength DEF SamplesToCs
  <2>3. EndsInside => EndsInside'
    BY <2>1, <2>2 DEF EndsInside
  <2> QED BY <2>1, <2>2, <2>3 DEF TableInv
<1> QED BY <1>2, <1>3, <1>4, <1>5, <1>6, <1>7, <1>8, <1>9, <1>10 DEF VadNext

LEMMA TableMonotone == ASSUME VadInv, TableInv PROVE TimesMonotone
<1> SUFFICES ASSUME vad_pc = "idle", mapping # {}, NEW t \in 0..SamplesToCs(offset)
             PROVE  /\ MapTime(t) <= MapTime(t + 1)
                    /\ MapTime(t) \in 0..SamplesToCs(AudioLength)
  BY DEF TimesMonotone
<1>1. offset \in Nat /\ AudioLength \in Nat /\ mapping \subseteq PointType
  BY GridFacts DEF VadInv, VadTypeOK, PointType
<1>2. SamplesToCs(offset) \in Nat /\ SamplesToCs(AudioLength) \in Nat /\ t \in Nat
  BY <1>1, RoundingMonotone
<1>3. TableOK(SamplesToCs(offset))
  BY <1>1, <1>2 DEF TableOK, TableInv
<1>4. \A p \in mapping : p.original <= SamplesToCs(AudioLength)
  BY DEF TableInv
<1> QED BY <1>2, <1>3, <1>4, MapTimeMonotone, MapTimeRange

(* A later time of the transcript is never mapped before an earlier one,   *)
(* and none is mapped outside the recording, whichever of the points of    *)
(* one time the sort keeps and whatever the settings.                      *)
THEOREM TimesStayInOrder == VadSpec => []TimesMonotone
<1>1. VadInit => TableInv
  BY DEF VadInit, TableInv, Rising, Single
<1>2. VadInv /\ TableInv /\ [VadNext]_vadVars => TableInv'
  BY TableStep
<1>3. VadInv /\ TableInv => TimesMonotone
  BY TableMonotone
<1> QED BY <1>1, <1>2, <1>3, VadInvariant, PTL DEF VadSpec
=============================================================================
