-------------------------- MODULE ResultTextProofs --------------------------
(***************************************************************************)
(* Proofs about the two components a result passes on its way to its       *)
(* file.  UtfConverter: for every Java text and all bytes an engine may    *)
(* return, the outputs are bytes and UTF-16 units, no output holds half a  *)
(* surrogate pair, and a Java text comes back as it was but for halves of  *)
(* pairs.  TranscriptionJsonWorker, for every number of results and every  *)
(* queue capacity: no result is lost or written twice however submit(),    *)
(* requestStop() and the thread interleave and whatever write fails, and   *)
(* the two files agree in the end.                                         *)
(*                                                                         *)
(* A text that comes back is followed character by character: Placed says  *)
(* where in the bytes each of its characters stands, and the second loop   *)
(* is always at the beginning of one of them, with the units before it     *)
(* behind it.  EncodedIsRead is what one step of that loop rests on.       *)
(*                                                                         *)
(* The argument for the worker follows the sequence Kept: a step of the    *)
(* thread moves a result from the queue to its hand and on to the          *)
(* writer's items, which leaves Kept as it is; submit() lengthens it by a  *)
(* result newer than all of it, and a full queue (or a missing writer)     *)
(* takes one result out.                                                   *)
(***************************************************************************)
EXTENDS TranscriptionJsonWorker, UtfConverter, SequenceTheorems, TLAPS

-----------------------------------------------------------------------------
(* The text of a result: UtfConverter. *)

Point == {n \in Nat : n < K(1088)}

(* The code point of a pair lies beyond 16 bits. *)
LEMMA PairValue ==
    ASSUME NEW h \in Nat, NEW l \in Nat, High(h), Low(l)
    PROVE  K(64) + K(h - K(54)) + (l - K(55)) \in Point
BY DEF High, Low, Point, K

(* The code point of a unit or of a pair, and its bytes. *)
LEMMA PointType ==
    ASSUME NEW t \in Seq(Unit), NEW k \in 1..Len(t)
    PROVE  PointAt(t, k) \in Point
<1>1. t[k] \in Unit
  OBVIOUS
<1>2. CASE Paired(t, k)
  <2>1. High(t[k]) /\ Low(t[k + 1]) /\ k + 1 \in 1..Len(t)
    BY <1>2 DEF Paired
  <2>2. t[k] \in Nat /\ t[k + 1] \in Nat
    BY <1>1, <2>1 DEF Unit
  <2> QED
    BY <1>2, <2>1, <2>2, PairValue DEF PointAt
<1>3. CASE ~ Paired(t, k)
  BY <1>1, <1>3 DEF PointAt, Unit, Point, replacement_character, K
<1> QED
  BY <1>2, <1>3

LEMMA BytesType ==
    ASSUME NEW point \in Point
    PROVE  append_utf8(point) \in Seq(Byte)
<1>1. Tail6(point) \in Byte /\ Tail6(point \div 64) \in Byte /\ Tail6(point \div K(4)) \in Byte
  BY DEF Point, Tail6, Byte, K
<1>2. CASE point <= 127
  <2>1. append_utf8(point) = <<point>> /\ point \in Byte
    BY <1>2 DEF append_utf8, Point, Byte, K
  <2> QED
    BY <2>1
<1>3. CASE point >= 128 /\ point < 2048
  <2>1. append_utf8(point) = <<192 + point \div 64, Tail6(point)>> /\ 192 + point \div 64 \in Byte
    BY <1>3 DEF append_utf8, Point, Byte, K
  <2> QED
    BY <1>1, <2>1
<1>4. CASE point >= 2048 /\ point < K(64)
  <2>1. /\ append_utf8(point) = <<224 + point \div K(4), Tail6(point \div 64), Tail6(point)>>
        /\ 224 + point \div K(4) \in Byte
    BY <1>4 DEF append_utf8, Point, Byte, K
  <2> QED
    BY <1>1, <2>1
<1>5. CASE point >= K(64)
  <2>1. /\ append_utf8(point) = <<240 + point \div K(256), Tail6(point \div K(4)),
                                  Tail6(point \div 64), Tail6(point)>>
        /\ 240 + point \div K(256) \in Byte
    BY <1>5 DEF append_utf8, Point, Byte, K
  <2> QED
    BY <1>1, <2>1
<1> QED
  BY <1>2, <1>3, <1>4, <1>5 DEF Point, K

-----------------------------------------------------------------------------
(* A surrogate pair, or one unit that is no surrogate. *)
LEMMA UnitsOfPoint ==
    ASSUME NEW point, Scalar(point)
    PROVE  /\ append_utf16(point) \in Seq(Unit)
           /\ \/ Len(append_utf16(point)) = 1 /\ ~ High(append_utf16(point)[1])
                                              /\ ~ Low(append_utf16(point)[1])
              \/ Len(append_utf16(point)) = 2 /\ High(append_utf16(point)[1])
                                              /\ Low(append_utf16(point)[2])
<1>1. CASE point < K(64)
  <2>1. append_utf16(point) = <<point>> /\ point \in Unit /\ ~ High(point) /\ ~ Low(point)
    BY <1>1 DEF append_utf16, Scalar, Unit, K
  <2> QED
    BY <2>1
<1>2. CASE point >= K(64)
  <2> DEFINE h == K(54) + (point - K(64)) \div 1024
             l == K(55) + ((point - K(64)) % 1024)
  <2>1. h \in Nat /\ h >= K(54) /\ h < K(55) /\ l \in Nat /\ l >= K(55) /\ l < K(56)
    BY <1>2 DEF Scalar, K
  <2>2. append_utf16(point) = <<h, l>>
    BY <1>2 DEF append_utf16, Scalar, K
  <2>3. h \in Unit /\ l \in Unit /\ High(h) /\ Low(l)
    BY <2>1 DEF Unit, High, Low, K
  <2> HIDE DEF h, l
  <2> QED
    BY <2>2, <2>3
<1> QED
  BY <1>1, <1>2 DEF Scalar, K

(* What Emit appends keeps the output well formed. *)
LEMMA EmitKeeps ==
    ASSUME UtfTypeOK, UnitsWellFormed, NEW point, Scalar(point), NEW n \in Nat \ {0},
           Emit(point, n)
    PROVE  UtfTypeOK' /\ UnitsWellFormed'
<1> DEFINE a == append_utf16(point)
<1>1. /\ a \in Seq(Unit)
      /\ \/ Len(a) = 1 /\ ~ High(a[1]) /\ ~ Low(a[1])
         \/ Len(a) = 2 /\ High(a[1]) /\ Low(a[2])
  BY UnitsOfPoint
<1>2. units' = units \o a /\ units \in Seq(Unit) /\ index \in Nat
  BY DEF Emit, UtfTypeOK
<1> HIDE DEF a
<1>3. /\ units' \in Seq(Unit) /\ Len(units') = Len(units) + Len(a)
      /\ Len(units) \in Nat /\ Len(a) \in Nat
      /\ \A k \in 1..Len(units) : units'[k] = units[k]
      /\ \A k \in 1..Len(a) : units'[Len(units) + k] = a[k]
  BY <1>1, <1>2
<1>4. UtfTypeOK'
  BY <1>2, <1>3 DEF UtfTypeOK, Emit
<1>5. ASSUME NEW u \in Nat PROVE ~ (High(u) /\ Low(u))
  BY DEF High, Low, K
<1>6. UnitsWellFormed'
  <2> SUFFICES ASSUME NEW k \in 1..Len(units')
               PROVE  /\ High(units'[k]) => k < Len(units') /\ Low(units'[k + 1])
                      /\ Low(units'[k]) => k > 1 /\ High(units'[k - 1])
    BY DEF UnitsWellFormed, High, Low
  <2>1. CASE k \in 1..Len(units)
    <3>1. High(units'[k]) => k < Len(units') /\ Low(units'[k + 1])
      <4> SUFFICES ASSUME High(units'[k]) PROVE k < Len(units') /\ Low(units'[k + 1])
        OBVIOUS
      <4>1. k < Len(units) /\ Low(units[k + 1])
        BY <1>3, <2>1 DEF UnitsWellFormed
      <4>2. k + 1 \in 1..Len(units)
        BY <1>3, <2>1, <4>1
      <4> QED
        BY <1>3, <4>1, <4>2
    <3>2. Low(units'[k]) => k > 1 /\ High(units'[k - 1])
      <4> SUFFICES ASSUME Low(units'[k]) PROVE k > 1 /\ High(units'[k - 1])
        OBVIOUS
      <4>1. k > 1 /\ High(units[k - 1])
        BY <1>3, <2>1 DEF UnitsWellFormed
      <4>2. k - 1 \in 1..Len(units)
        BY <1>3, <2>1, <4>1
      <4> QED
        BY <1>3, <4>1, <4>2
    <3> QED
      BY <3>1, <3>2
  <2>2. CASE k > Len(units)
    <3>1. k - Len(units) \in 1..Len(a) /\ units'[k] = a[k - Len(units)]
      BY <1>3, <2>2
    <3>2. CASE Len(a) = 1 /\ ~ High(a[1]) /\ ~ Low(a[1])
      <4>1. k - Len(units) = 1
        BY <1>3, <3>1, <3>2
      <4> QED
        BY <3>1, <3>2, <4>1
    <3>3. CASE Len(a) = 2 /\ High(a[1]) /\ Low(a[2])
      <4>0. a[1] \in Nat /\ a[2] \in Nat
        <5>1. a[1] \in Unit /\ a[2] \in Unit
          BY <1>1, <3>3
        <5> QED
          BY <5>1 DEF Unit
      <4>1. CASE k = Len(units) + 1
        <5>1. units'[k] = a[1] /\ units'[k + 1] = a[2] /\ k < Len(units')
          BY <1>3, <3>3, <4>1
        <5> QED
          BY <1>5, <3>3, <4>0, <5>1
      <4>2. CASE k = Len(units) + 2
        <5>1. units'[k] = a[2] /\ units'[k - 1] = a[1] /\ k > 1
          BY <1>3, <3>3, <4>2
        <5> QED
          BY <1>5, <3>3, <4>0, <5>1
      <4> QED
        BY <1>3, <3>1, <3>3, <4>1, <4>2
    <3> QED
      BY <1>1, <3>2, <3>3
  <2> QED
    BY <1>3, <2>1, <2>2
<1> QED
  BY <1>4, <1>6
-----------------------------------------------------------------------------
LEMMA ReplacementIsScalar == Scalar(replacement_character)
BY DEF Scalar, replacement_character, High, Low, K

(* The number of bytes of a sequence that are there: the choice has a      *)
(* solution, and it counts the continuation bytes up to the first other.   *)
LEMMA ValidLength ==
    ASSUME UtfTypeOK, NEW k \in 1..Len(utf8_text), NEW n \in 1..4
    PROVE  LET v == valid_length(k, n)
           IN  /\ v \in 1..n
               /\ \A j \in 1..(v - 1) :
                     k + j <= Len(utf8_text) /\ is_continuation(utf8_text[k + j])
               /\ v < n => ~ (k + v <= Len(utf8_text) /\ is_continuation(utf8_text[k + v]))
<1> DEFINE There(j) == k + j <= Len(utf8_text) /\ is_continuation(utf8_text[k + j])
           Good(v) == /\ \A j \in 1..(v - 1) : There(j)
                      /\ v < n => ~ There(v)
<1>1. \E v \in 1..n : Good(v)
  <2> HIDE DEF There
  <2>1. CASE n = 1 \/ ~ There(1)
    <3>1. 1 \in 1..n /\ Good(1)
      BY <2>1
    <3> QED
      BY <3>1
  <2>2. CASE n > 1 /\ There(1) /\ (n = 2 \/ ~ There(2))
    <3>1. 2 \in 1..n /\ Good(2)
      BY <2>2
    <3> QED
      BY <3>1
  <2>3. CASE n > 2 /\ There(1) /\ There(2) /\ (n = 3 \/ ~ There(3))
    <3>1. 3 \in 1..n /\ Good(3)
      BY <2>3
    <3> QED
      BY <3>1
  <2>4. CASE n = 4 /\ There(1) /\ There(2) /\ There(3)
    <3>1. 4 \in 1..n /\ Good(4)
      BY <2>4
    <3> QED
      BY <3>1
  <2> QED
    BY <2>1, <2>2, <2>3, <2>4
<1>2. valid_length(k, n) = CHOOSE v \in 1..n : Good(v)
  BY DEF valid_length
<1> HIDE DEF Good
<1>3. valid_length(k, n) \in 1..n /\ Good(valid_length(k, n))
  BY <1>1, <1>2
<1> QED
  BY <1>3 DEF Good

LEMMA SequenceLength ==
    ASSUME NEW first \in Byte
    PROVE  /\ sequence_length(first) \in 0..4
           /\ sequence_length(first) = 1 => first <= 127
           /\ sequence_length(first) = 2 => 194 <= first /\ first < 224
           /\ sequence_length(first) = 3 => 224 <= first /\ first < 240
           /\ sequence_length(first) = 4 => 240 <= first /\ first <= 244
BY DEF sequence_length, Byte

(* The bits a byte contributes. *)
Continuation == {b \in Nat : 128 <= b /\ b < 192}

LEMMA ContinuationBits ==
    ASSUME NEW b \in Continuation
    PROVE  b % 64 = b - 128
BY DEF Continuation

LEMMA LeadBits ==
    ASSUME NEW b \in Nat
    PROVE  /\ 192 <= b /\ b < 224 => b % 32 = b - 192
           /\ 224 <= b /\ b < 240 => b % 16 = b - 224
           /\ 240 <= b /\ b < 248 => b % 8 = b - 240
<1>1. 192 <= b /\ b < 224 => b % 32 = b - 192
  OBVIOUS
<1>2. 224 <= b /\ b < 240 => b % 16 = b - 224
  OBVIOUS
<1>3. 240 <= b /\ b < 248 => b % 8 = b - 240
  OBVIOUS
<1> QED
  BY <1>1, <1>2, <1>3

(* What two, three and four bytes stand for: the ranges the code refuses   *)
(* are just the surrogates and what lies beyond the last code point.       *)
LEMMA TwoBytes ==
    ASSUME NEW x \in Nat, 192 <= x, x < 224, NEW y \in Continuation
    PROVE  Scalar((x - 192) * 64 + (y - 128))
BY DEF Continuation, Scalar, High, Low, K

LEMMA ThreeBytes ==
    ASSUME NEW x \in Nat, 224 <= x, x < 240, NEW y \in Continuation, NEW z \in Continuation,
           x = 237 => y <= 159
    PROVE  Scalar(K(4 * (x - 224)) + (y - 128) * 64 + (z - 128))
BY DEF Continuation, Scalar, High, Low, K

LEMMA FourBytes ==
    ASSUME NEW x \in Nat, 240 <= x, x <= 244, NEW y \in Continuation, NEW z \in Continuation,
           NEW w \in Continuation, x = 240 => y >= 144, x = 244 => y <= 143
    PROVE  Scalar(K(256 * (x - 240) + 4 * (y - 128)) + (z - 128) * 64 + (w - 128))
BY DEF Continuation, Scalar, High, Low, K

(* The code point of a sequence with its continuation bytes and without an *)
(* invalid range is no surrogate and not beyond the last one.              *)
LEMMA DecodedIsScalar ==
    ASSUME UtfTypeOK, NEW k \in 1..Len(utf8_text), NEW n \in 1..4,
           sequence_length(utf8_text[k]) = n, valid_length(k, n) = n,
           n > 1 => ~ invalid_range(utf8_text[k], utf8_text[k + 1])
    PROVE  Scalar(Decoded(k, n))
<1>0. utf8_text \in Seq(Byte)
  BY DEF UtfTypeOK
<1>1. utf8_text[k] \in Byte
  BY <1>0
<1>n. utf8_text[k] \in Nat
  BY <1>1 DEF Byte
<1>2. ASSUME NEW j \in 1..(n - 1) PROVE utf8_text[k + j] \in Continuation
  <2>1. \A i \in 1..(valid_length(k, n) - 1) : is_continuation(utf8_text[k + i])
    BY ValidLength
  <2>2. k + j \in 1..Len(utf8_text)
    BY ValidLength
  <2>3. utf8_text[k + j] \in Nat
    BY <1>0, <2>2 DEF Byte
  <2> QED
    BY <2>1, <2>3 DEF is_continuation, Continuation
<1>l. /\ n = 1 => utf8_text[k] <= 127
      /\ n = 2 => 192 <= utf8_text[k] /\ utf8_text[k] < 224
      /\ n = 3 => 224 <= utf8_text[k] /\ utf8_text[k] < 240
      /\ n = 4 => 240 <= utf8_text[k] /\ utf8_text[k] <= 244
  <2>1. /\ sequence_length(utf8_text[k]) = 1 => utf8_text[k] <= 127
        /\ sequence_length(utf8_text[k]) = 2 => 194 <= utf8_text[k] /\ utf8_text[k] < 224
        /\ sequence_length(utf8_text[k]) = 3 => 224 <= utf8_text[k] /\ utf8_text[k] < 240
        /\ sequence_length(utf8_text[k]) = 4 => 240 <= utf8_text[k] /\ utf8_text[k] <= 244
    BY <1>1, SequenceLength
  <2> QED
    BY <1>n, <2>1
<1>3. CASE n = 1
  <2>1. Decoded(k, n) = utf8_text[k] /\ utf8_text[k] <= 127
    BY <1>l, <1>3 DEF Decoded
  <2> QED
    BY <1>n, <2>1 DEF Scalar, High, Low, K
<1>4. CASE n = 2
  <2> DEFINE x == utf8_text[k]  y == utf8_text[k + 1]
  <2>1. x \in Nat /\ 192 <= x /\ x < 224
    BY <1>n, <1>l, <1>4
  <2>2. y \in Continuation
    BY <1>2, <1>4
  <2>3. Decoded(k, n) = (x % 32) * 64 + (y % 64)
    BY <1>4 DEF Decoded, Low6
  <2> HIDE DEF x, y
  <2>4. Decoded(k, n) = (x - 192) * 64 + (y - 128)
    BY <2>1, <2>2, <2>3, LeadBits, ContinuationBits
  <2> QED
    BY <2>1, <2>2, <2>4, TwoBytes
<1>5. CASE n = 3
  <2> DEFINE x == utf8_text[k]  y == utf8_text[k + 1]  z == utf8_text[k + 2]
  <2>1. x \in Nat /\ 224 <= x /\ x < 240
    BY <1>n, <1>l, <1>5
  <2>2. y \in Continuation /\ z \in Continuation
    BY <1>2, <1>5
  <2>3. Decoded(k, n) = K(4 * (x % 16)) + (y % 64) * 64 + (z % 64)
    BY <1>5 DEF Decoded, Low6
  <2>4. x = 237 => y <= 159
    BY <1>5, <2>2 DEF invalid_range, Continuation
  <2> HIDE DEF x, y, z
  <2>5. Decoded(k, n) = K(4 * (x - 224)) + (y - 128) * 64 + (z - 128)
    BY <2>1, <2>2, <2>3, LeadBits, ContinuationBits
  <2> QED
    BY <2>1, <2>2, <2>4, <2>5, ThreeBytes
<1>6. CASE n = 4
  <2> DEFINE x == utf8_text[k]  y == utf8_text[k + 1]  z == utf8_text[k + 2]  w == utf8_text[k + 3]
  <2>1. x \in Nat /\ 240 <= x /\ x <= 244
    BY <1>n, <1>l, <1>6
  <2>2. y \in Continuation /\ z \in Continuation /\ w \in Continuation
    BY <1>2, <1>6
  <2>3. Decoded(k, n) = K(256 * (x % 8) + 4 * (y % 64)) + (z % 64) * 64 + (w % 64)
    BY <1>6 DEF Decoded, Low6
  <2>4. (x = 240 => y >= 144) /\ (x = 244 => y <= 143)
    BY <1>6, <2>2 DEF invalid_range, Continuation
  <2> HIDE DEF x, y, z, w
  <2>5. Decoded(k, n) = K(256 * (x - 240) + 4 * (y - 128)) + (z - 128) * 64 + (w - 128)
    BY <2>1, <2>2, <2>3, LeadBits, ContinuationBits
  <2> QED
    BY <2>1, <2>2, <2>4, <2>5, FourBytes
<1> QED
  BY <1>3, <1>4, <1>5, <1>6
-----------------------------------------------------------------------------
UtfInv == UtfTypeOK /\ UnitsWellFormed

LEMMA UtfStep == UtfInv /\ [UtfNext]_utfVars => UtfInv'
<1> SUFFICES ASSUME UtfTypeOK, UnitsWellFormed, [UtfNext]_utfVars
             PROVE  UtfTypeOK' /\ UnitsWellFormed'
  BY DEF UtfInv
<1> USE UtfAssumption DEF UtfTypeOK
<1>1. ASSUME UNCHANGED units, java_text' \in Seq(Unit), utf8_text' \in Seq(Byte),
             index' \in Nat \ {0}, utf_pc' \in {"idle", "encode", "decode", "done"}
      PROVE  UtfTypeOK' /\ UnitsWellFormed'
  BY <1>1 DEF UnitsWellFormed
<1>2. CASE UNCHANGED utfVars
  BY <1>1, <1>2 DEF utfVars
<1>3. ASSUME NEW t \in JavaTexts, FromJava(t) PROVE UtfTypeOK' /\ UnitsWellFormed'
  BY <1>1, <1>3 DEF FromJava
<1>4. ASSUME NEW t \in EngineTexts, FromEngine(t) PROVE UtfTypeOK' /\ UnitsWellFormed'
  BY <1>1, <1>4 DEF FromEngine
<1>5. CASE EncodeUnit
  <2>1. index \in 1..Len(java_text)
    BY <1>5 DEF EncodeUnit
  <2>2. append_utf8(PointAt(java_text, index)) \in Seq(Byte)
    BY <2>1, PointType, BytesType
  <2>3. utf8_text' \in Seq(Byte) /\ index' \in Nat \ {0}
    BY <1>5, <2>2 DEF EncodeUnit
  <2> QED
    BY <1>1, <1>5, <2>3 DEF EncodeUnit
<1>6. CASE EncodeEnd
  BY <1>1, <1>6 DEF EncodeEnd
<1>7. CASE DecodeBadLead
  BY <1>7, ReplacementIsScalar, EmitKeeps DEF DecodeBadLead
<1>8. CASE DecodeIncomplete
  <2> DEFINE n == sequence_length(utf8_text[index])
  <2>1. index \in 1..Len(utf8_text) /\ n > 0 /\ Emit(replacement_character, valid_length(index, n))
    BY <1>8 DEF DecodeIncomplete, Skip
  <2>2. n \in 1..4
    BY <2>1, SequenceLength
  <2> HIDE DEF n
  <2>3. valid_length(index, n) \in Nat \ {0}
    BY <2>1, <2>2, ValidLength
  <2> QED
    BY <2>1, <2>3, ReplacementIsScalar, EmitKeeps
<1>9. CASE DecodeBadRange
  <2>1. sequence_length(utf8_text[index]) \in Nat \ {0}
    BY <1>9, SequenceLength DEF DecodeBadRange
  <2> QED
    BY <1>9, <2>1, ReplacementIsScalar, EmitKeeps DEF DecodeBadRange
<1>10. CASE DecodePoint
  <2> DEFINE n == sequence_length(utf8_text[index])
  <2>1. /\ index \in 1..Len(utf8_text) /\ n > 0 /\ valid_length(index, n) = n
        /\ n > 1 => ~ invalid_range(utf8_text[index], utf8_text[index + 1])
        /\ Emit(Decoded(index, n), n)
    BY <1>10 DEF DecodePoint
  <2>2. n \in 1..4
    BY <2>1, SequenceLength
  <2>3. Scalar(Decoded(index, n))
    BY <2>1, <2>2, DecodedIsScalar
  <2> QED
    BY <2>1, <2>2, <2>3, EmitKeeps
<1>11. CASE DecodeEnd
  BY <1>1, <1>11 DEF DecodeEnd
<1>12. CASE UtfReturn
  BY <1>12 DEF UtfReturn, UnitsWellFormed
<1> QED
  BY <1>2, <1>3, <1>4, <1>5, <1>6, <1>7, <1>8, <1>9, <1>10, <1>11, <1>12 DEF UtfNext

(* Whatever Java or an engine passes in, bytes come out as UTF-16 without  *)
(* half a surrogate pair.                                                  *)
THEOREM NoHalfPairs == UtfSpec => []UnitsWellFormed
<1>1. UtfInit => UtfInv
  BY DEF UtfInit, UtfInv, UtfTypeOK, UnitsWellFormed
<1>2. UtfInv => UnitsWellFormed
  BY DEF UtfInv
<1> QED
  BY <1>1, <1>2, UtfStep, PTL DEF UtfSpec

(* Both conversions produce only bytes and only 16-bit units. *)
THEOREM ConversionsTyped == UtfSpec => []UtfTypeOK
<1>1. UtfInit => UtfInv
  BY DEF UtfInit, UtfInv, UtfTypeOK, UnitsWellFormed
<1>2. UtfInv => UtfTypeOK
  BY DEF UtfInv
<1> QED
  BY <1>1, <1>2, UtfStep, PTL DEF UtfSpec

-----------------------------------------------------------------------------
(* The encoding of a code point is read back as that code point.           *)
Stands(bytes, k, e) ==
    /\ k + Len(e) - 1 <= Len(bytes)
    /\ \A j \in 1..Len(e) : bytes[k + j - 1] = e[j]

LEMMA AllThere ==
    ASSUME UtfTypeOK, NEW k \in 1..Len(utf8_text), NEW n \in 1..4,
           \A j \in 1..(n - 1) : k + j <= Len(utf8_text) /\ is_continuation(utf8_text[k + j])
    PROVE  valid_length(k, n) = n
<1> DEFINE v == valid_length(k, n)
<1>1. v \in 1..n /\ (v < n => ~ (k + v <= Len(utf8_text) /\ is_continuation(utf8_text[k + v])))
  BY ValidLength
<1> HIDE DEF v
<1>2. v < n => v \in 1..(n - 1)
  BY <1>1
<1>3. v = n
  BY <1>1, <1>2
<1> QED
  BY <1>3 DEF v

ReadAs(k, n, point) ==
    /\ sequence_length(utf8_text[k]) = n /\ valid_length(k, n) = n /\ Decoded(k, n) = point
    /\ n > 1 => ~ invalid_range(utf8_text[k], utf8_text[k + 1])

LEMMA EncodedOne ==
    ASSUME UtfTypeOK, NEW k \in 1..Len(utf8_text), NEW point, Scalar(point), point <= 127,
           Stands(utf8_text, k, append_utf8(point))
    PROVE  ReadAs(k, 1, point) /\ Len(append_utf8(point)) = 1
<1>1. append_utf8(point) = <<point>> /\ point \in Nat
  BY DEF append_utf8, Scalar
<1>2. utf8_text[k] = point
  <2>1. utf8_text[k + 1 - 1] = point
    BY <1>1 DEF Stands
  <2> QED
    BY <2>1
<1>3. valid_length(k, 1) = 1
  BY AllThere
<1>4. sequence_length(utf8_text[k]) = 1
  BY <1>1, <1>2 DEF sequence_length
<1>5. Decoded(k, 1) = point
  BY <1>2 DEF Decoded
<1> QED
  BY <1>1, <1>3, <1>4, <1>5 DEF ReadAs

LEMMA EncodedTwo ==
    ASSUME UtfTypeOK, NEW k \in 1..Len(utf8_text), NEW point, Scalar(point),
           point >= 128, point < 2048, Stands(utf8_text, k, append_utf8(point))
    PROVE  ReadAs(k, 2, point) /\ Len(append_utf8(point)) = 2
<1> DEFINE x == 192 + point \div 64
           y == Tail6(point)
<1>1. append_utf8(point) = <<x, y>>
  BY DEF append_utf8, Scalar
<1>2. /\ x \in Nat /\ 194 <= x /\ x < 224 /\ y \in Continuation
      /\ point = (x - 192) * 64 + (y - 128)
  BY DEF Tail6, Continuation, Scalar
<1> HIDE DEF x, y
<1>3. utf8_text[k] = x /\ utf8_text[k + 1] = y /\ k + 1 <= Len(utf8_text)
  <2>1. utf8_text[k + 1 - 1] = x /\ utf8_text[k + 2 - 1] = y /\ k + 2 - 1 <= Len(utf8_text)
    BY <1>1 DEF Stands
  <2> QED
    BY <2>1
<1>4. valid_length(k, 2) = 2
  BY <1>2, <1>3, AllThere DEF Continuation, is_continuation
<1>5. sequence_length(x) = 2 /\ ~ invalid_range(x, y)
  BY <1>2 DEF sequence_length, invalid_range
<1>6. Decoded(k, 2) = (x % 32) * 64 + (y % 64)
  BY <1>3 DEF Decoded, Low6
<1>7. Decoded(k, 2) = point
  BY <1>2, <1>6, LeadBits, ContinuationBits
<1> QED
  BY <1>1, <1>3, <1>4, <1>5, <1>7 DEF ReadAs

LEMMA EncodedThree ==
    ASSUME UtfTypeOK, NEW k \in 1..Len(utf8_text), NEW point, Scalar(point),
           point >= 2048, point < K(64), Stands(utf8_text, k, append_utf8(point))
    PROVE  ReadAs(k, 3, point) /\ Len(append_utf8(point)) = 3
<1> DEFINE x == 224 + point \div K(4)
           y == Tail6(point \div 64)
           z == Tail6(point)
<1>1. append_utf8(point) = <<x, y, z>>
  BY DEF append_utf8, Scalar, K
<1>2. /\ x \in Nat /\ 224 <= x /\ x < 240 /\ y \in Continuation /\ z \in Continuation
      /\ point = K(4 * (x - 224)) + (y - 128) * 64 + (z - 128)
      /\ (x = 224 => y >= 160) /\ (x = 237 => y <= 159)
  BY DEF Tail6, Continuation, Scalar, High, Low, K
<1> HIDE DEF x, y, z
<1>3. utf8_text[k] = x /\ utf8_text[k + 1] = y /\ utf8_text[k + 2] = z /\ k + 2 <= Len(utf8_text)
  <2>1. /\ utf8_text[k + 1 - 1] = x /\ utf8_text[k + 2 - 1] = y /\ utf8_text[k + 3 - 1] = z
        /\ k + 3 - 1 <= Len(utf8_text)
    BY <1>1 DEF Stands
  <2> QED
    BY <2>1
<1>4. valid_length(k, 3) = 3
  <2>1. is_continuation(y) /\ is_continuation(z)
    BY <1>2 DEF Continuation, is_continuation
  <2>2. \A j \in 1..2 : k + j <= Len(utf8_text) /\ is_continuation(utf8_text[k + j])
    <3> TAKE j \in 1..2
    <3>2. j = 1 \/ j = 2
      OBVIOUS
    <3> QED
      BY <1>3, <2>1, <3>2
  <2> QED
    BY <2>2, AllThere
<1>5. sequence_length(x) = 3 /\ ~ invalid_range(x, y)
  <2>1. y \in Nat
    BY <1>2 DEF Continuation
  <2>2. sequence_length(x) = 3
    BY <1>2 DEF sequence_length
  <2>3. ~ invalid_range(x, y)
    BY <1>2, <2>1 DEF invalid_range
  <2> QED
    BY <2>2, <2>3
<1>6. Decoded(k, 3) = K(4 * (x % 16)) + (y % 64) * 64 + (z % 64)
  BY <1>3 DEF Decoded, Low6
<1>7. Decoded(k, 3) = point
  BY <1>2, <1>6, LeadBits, ContinuationBits
<1> QED
  BY <1>1, <1>3, <1>4, <1>5, <1>7 DEF ReadAs

LEMMA EncodedFour ==
    ASSUME UtfTypeOK, NEW k \in 1..Len(utf8_text), NEW point, Scalar(point),
           point >= K(64), Stands(utf8_text, k, append_utf8(point))
    PROVE  ReadAs(k, 4, point) /\ Len(append_utf8(point)) = 4
<1> DEFINE x == 240 + point \div K(256)
           y == Tail6(point \div K(4))
           z == Tail6(point \div 64)
           w == Tail6(point)
<1>1. append_utf8(point) = <<x, y, z, w>>
  <2>1. ~ (point <= 127) /\ ~ (point < 2048) /\ ~ (point < K(64))
    BY DEF Scalar, K
  <2> QED
    BY <2>1 DEF append_utf8
<1>2. /\ x \in Nat /\ 240 <= x /\ x <= 244
      /\ y \in Continuation /\ z \in Continuation /\ w \in Continuation
      /\ point = K(256 * (x - 240) + 4 * (y - 128)) + (z - 128) * 64 + (w - 128)
      /\ (x = 240 => y >= 144) /\ (x = 244 => y <= 143)
  <2> DEFINE a == point \div 262144
             b == point \div 4096
             c == point \div 64
  <2>1. point \in Nat /\ 65536 <= point /\ point < 1114112
    BY DEF Scalar, K
  <2>2. /\ a \in Nat /\ b \in Nat /\ c \in Nat
        /\ point = 64 * c + (point % 64) /\ point % 64 \in 0..63
    BY <2>1
  <2>3. c = 64 * b + (c % 64) /\ c % 64 \in 0..63
    BY <2>1
  <2>4. b = 64 * a + (b % 64) /\ b % 64 \in 0..63
    BY <2>1
  <2>5. x = 240 + a /\ y = 128 + (b % 64) /\ z = 128 + (c % 64) /\ w = 128 + (point % 64)
    BY DEF Tail6, K
  <2> DEFINE bm == b % 64  cm == c % 64  pm == point % 64
  <2> HIDE DEF a, b, c, bm, cm, pm
  <2>6. /\ point = 64 * c + pm /\ c = 64 * b + cm /\ b = 64 * a + bm
        /\ pm \in 0..63 /\ cm \in 0..63 /\ bm \in 0..63
        /\ x = 240 + a /\ y = 128 + bm /\ z = 128 + cm /\ w = 128 + pm
    BY <2>2, <2>3, <2>4, <2>5 DEF bm, cm, pm
  <2> HIDE DEF x, y, z, w
  <2> QED
    BY <2>1, <2>2, <2>6 DEF Continuation, K
<1> HIDE DEF x, y, z, w
<1>3. /\ utf8_text[k] = x /\ utf8_text[k + 1] = y /\ utf8_text[k + 2] = z
      /\ utf8_text[k + 3] = w /\ k + 3 <= Len(utf8_text)
  <2>1. /\ utf8_text[k + 1 - 1] = x /\ utf8_text[k + 2 - 1] = y /\ utf8_text[k + 3 - 1] = z
        /\ utf8_text[k + 4 - 1] = w /\ k + 4 - 1 <= Len(utf8_text)
    BY <1>1 DEF Stands
  <2> QED
    BY <2>1
<1>4. valid_length(k, 4) = 4
  <2>1. is_continuation(y) /\ is_continuation(z) /\ is_continuation(w)
    BY <1>2 DEF Continuation, is_continuation
  <2>2. \A j \in 1..3 : k + j <= Len(utf8_text) /\ is_continuation(utf8_text[k + j])
    <3> TAKE j \in 1..3
    <3>2. j = 1 \/ j = 2 \/ j = 3
      OBVIOUS
    <3> QED
      BY <1>3, <2>1, <3>2
  <2> QED
    BY <2>2, AllThere
<1>5. sequence_length(x) = 4 /\ ~ invalid_range(x, y)
  <2>1. y \in Nat
    BY <1>2 DEF Continuation
  <2>2. sequence_length(x) = 4
    BY <1>2 DEF sequence_length
  <2>3. ~ invalid_range(x, y)
    <3>1. x # 224 /\ x # 237
      BY <1>2
    <3>2. ~ (x = 240 /\ y < 144) /\ ~ (x = 244 /\ y > 143)
      BY <1>2, <2>1
    <3> QED
      BY <3>1, <3>2 DEF invalid_range
  <2> QED
    BY <2>2, <2>3
<1>6. Decoded(k, 4) = K(256 * (x % 8) + 4 * (y % 64)) + (z % 64) * 64 + (w % 64)
  BY <1>3 DEF Decoded, Low6
<1>7. Decoded(k, 4) = point
  BY <1>2, <1>6, LeadBits, ContinuationBits
<1> QED
  BY <1>1, <1>3, <1>4, <1>5, <1>7 DEF ReadAs

LEMMA EncodedIsRead ==
    ASSUME UtfTypeOK, NEW k \in 1..Len(utf8_text), NEW point, Scalar(point),
           Stands(utf8_text, k, append_utf8(point))
    PROVE  Len(append_utf8(point)) \in 1..4 /\ ReadAs(k, Len(append_utf8(point)), point)
<1>1. point \in Nat
  BY DEF Scalar
<1>2. CASE point <= 127
  <2>1. ReadAs(k, 1, point) /\ Len(append_utf8(point)) = 1
    BY <1>2, EncodedOne
  <2> QED
    BY <2>1
<1>3. CASE point >= 128 /\ point < 2048
  <2>1. ReadAs(k, 2, point) /\ Len(append_utf8(point)) = 2
    BY <1>3, EncodedTwo
  <2> QED
    BY <2>1
<1>4. CASE point >= 2048 /\ point < K(64)
  <2>1. ReadAs(k, 3, point) /\ Len(append_utf8(point)) = 3
    BY <1>4, EncodedThree
  <2> QED
    BY <2>1
<1>5. CASE point >= K(64)
  <2>1. ReadAs(k, 4, point) /\ Len(append_utf8(point)) = 4
    BY <1>5, EncodedFour
  <2> QED
    BY <2>1
<1> QED
  BY <1>1, <1>2, <1>3, <1>4, <1>5 DEF K

-----------------------------------------------------------------------------
(* A Java text through the bytes and back.                                 *)
SecondAt(t, k) == k > 1 /\ Paired(t, k - 1)
Lone(t, k) == (High(t[k]) /\ ~ Paired(t, k)) \/ (Low(t[k]) /\ ~ SecondAt(t, k))
Returned(t, k) == IF Lone(t, k) THEN replacement_character ELSE t[k]
Back(t, n) == [k \in 1..n |-> Returned(t, k)]
Onward(t, k) == k + (IF Paired(t, k) THEN 2 ELSE 1)
Encoded(t, k) == append_utf8(PointAt(t, k))

LEMMA UnitsAre ==
    ASSUME NEW t \in Seq(Unit), NEW k \in 1..Len(t)
    PROVE  t[k] \in Nat /\ t[k] < K(64) /\ ~ (High(t[k]) /\ Low(t[k]))
<1>1. t[k] \in Unit
  OBVIOUS
<1> QED
  BY <1>1 DEF Unit, High, Low, K

LEMMA OnwardIs ==
    ASSUME NEW t \in Seq(Unit), NEW k \in 1..Len(t)
    PROVE  /\ Onward(t, k) \in 2..(Len(t) + 1) /\ Onward(t, k) > k
           /\ ~ SecondAt(t, Onward(t, k))
           /\ Paired(t, k) => Onward(t, k) = k + 2 /\ k + 1 \in 1..Len(t)
           /\ ~ Paired(t, k) => Onward(t, k) = k + 1
<1>1. CASE Paired(t, k)
  <2>1. Onward(t, k) = k + 2 /\ k < Len(t) /\ Low(t[k + 1]) /\ k + 1 \in 1..Len(t)
    BY <1>1 DEF Onward, Paired
  <2>2. ~ High(t[k + 1])
    BY <2>1, UnitsAre
  <2>3. k + 2 - 1 = k + 1
    OBVIOUS
  <2>4. ~ SecondAt(t, Onward(t, k))
    BY <2>1, <2>2, <2>3 DEF SecondAt, Paired
  <2> QED
    BY <1>1, <2>1, <2>4
<1>2. CASE ~ Paired(t, k)
  <2>1. Onward(t, k) = k + 1 /\ k + 1 - 1 = k
    BY <1>2 DEF Onward
  <2>2. ~ SecondAt(t, Onward(t, k))
    BY <1>2, <2>1 DEF SecondAt
  <2> QED
    BY <1>2, <2>1, <2>2
<1> QED
  BY <1>1, <1>2

LEMMA PointIsScalar ==
    ASSUME NEW t \in Seq(Unit), NEW k \in 1..Len(t)
    PROVE  Scalar(PointAt(t, k))
<1>1. CASE Paired(t, k)
  <2>1. High(t[k]) /\ Low(t[k + 1]) /\ k + 1 \in 1..Len(t)
    BY <1>1 DEF Paired
  <2>2. t[k] \in Nat /\ t[k + 1] \in Nat
    BY <2>1, UnitsAre
  <2>3. PointAt(t, k) = K(64) + K(t[k] - K(54)) + (t[k + 1] - K(55))
    BY <1>1 DEF PointAt
  <2> QED
    BY <2>1, <2>2, <2>3 DEF High, Low, Scalar, K
<1>2. CASE ~ Paired(t, k) /\ (High(t[k]) \/ Low(t[k]))
  BY <1>2, ReplacementIsScalar DEF PointAt
<1>3. CASE ~ Paired(t, k) /\ ~ High(t[k]) /\ ~ Low(t[k])
  <2>1. PointAt(t, k) = t[k]
    BY <1>3 DEF PointAt
  <2> QED
    BY <1>3, <2>1, UnitsAre DEF Scalar, K
<1> QED
  BY <1>1, <1>2, <1>3

LEMMA EncodedLength ==
    ASSUME NEW point, Scalar(point)
    PROVE  Len(append_utf8(point)) \in 1..4 /\ append_utf8(point) \in Seq(Byte)
<1>1. point \in Point
  BY DEF Scalar, Point
<1>2. ASSUME point <= 127 PROVE Len(append_utf8(point)) = 1
  <2>1. append_utf8(point) = <<point>>
    BY <1>1, <1>2 DEF append_utf8, Point
  <2> QED
    BY <2>1
<1>3. ASSUME point >= 128, point < 2048 PROVE Len(append_utf8(point)) = 2
  <2>1. append_utf8(point) = <<192 + point \div 64, Tail6(point)>>
    BY <1>1, <1>3 DEF append_utf8, Point
  <2> QED
    BY <2>1
<1>4. ASSUME point >= 2048, point < K(64) PROVE Len(append_utf8(point)) = 3
  <2>1. append_utf8(point) = <<224 + point \div K(4), Tail6(point \div 64), Tail6(point)>>
    BY <1>1, <1>4 DEF append_utf8, Point
  <2> QED
    BY <2>1
<1>5. ASSUME point >= K(64) PROVE Len(append_utf8(point)) = 4
  <2>1. append_utf8(point) = <<240 + point \div K(256), Tail6(point \div K(4)),
                               Tail6(point \div 64), Tail6(point)>>
    BY <1>1, <1>5 DEF append_utf8, Point, K
  <2> QED
    BY <2>1
<1>6. Len(append_utf8(point)) \in 1..4
  BY <1>1, <1>2, <1>3, <1>4, <1>5 DEF Point, K
<1> QED
  BY <1>1, <1>6, BytesType

(* A point goes back to the units it came from. *)
LEMMA PointBack ==
    ASSUME NEW t \in Seq(Unit), NEW k \in 1..Len(t), ~ SecondAt(t, k)
    PROVE  append_utf16(PointAt(t, k)) =
              IF Paired(t, k) THEN <<Returned(t, k), Returned(t, k + 1)>> ELSE <<Returned(t, k)>>
<1>0. t[k] \in Nat /\ t[k] < K(64) /\ ~ (High(t[k]) /\ Low(t[k]))
  BY UnitsAre
<1>1. CASE Paired(t, k)
  <2>1. High(t[k]) /\ Low(t[k + 1]) /\ k + 1 \in 1..Len(t)
    BY <1>1 DEF Paired
  <2>2. t[k + 1] \in Nat /\ ~ High(t[k + 1])
    BY <2>1, UnitsAre
  <2> DEFINE a == t[k] - K(54)
             b == t[k + 1] - K(55)
             p == PointAt(t, k)
  <2>3. p = K(64) + K(a) + b
    BY <1>1 DEF PointAt
  <2>4. a \in 0..1023 /\ b \in 0..1023 /\ t[k] = K(54) + a /\ t[k + 1] = K(55) + b
    <3> DEFINE u == t[k]  v == t[k + 1]
    <3>1. u \in Nat /\ v \in Nat /\ High(u) /\ Low(v)
      BY <1>0, <2>1, <2>2
    <3>2. a = u - K(54) /\ b = v - K(55)
      OBVIOUS
    <3> HIDE DEF u, v, a, b
    <3>3. a \in 0..1023 /\ b \in 0..1023 /\ u = K(54) + a /\ v = K(55) + b
      BY <3>1, <3>2 DEF High, Low, K
    <3> QED
      BY <3>3 DEF u, v
  <2> HIDE DEF a, b, p
  <2>5. p \in Nat /\ ~ (p < K(64)) /\ p - K(64) = 1024 * a + b
    BY <2>3, <2>4 DEF K
  <2>6. (p - K(64)) \div 1024 = a /\ (p - K(64)) % 1024 = b
    <3>1. a \in Nat /\ b \in Nat /\ b < 1024
      BY <2>4
    <3>2. (1024 * a + b) \div 1024 = a
      BY <3>1
    <3>3. (1024 * a + b) % 1024 = b
      BY <3>1
    <3> QED
      BY <2>5, <3>2, <3>3
  <2>7. append_utf16(p) = <<t[k], t[k + 1]>>
    BY <2>4, <2>5, <2>6 DEF append_utf16
  <2>8. Returned(t, k) = t[k]
    BY <1>0, <1>1, <2>1 DEF Returned, Lone
  <2>9. SecondAt(t, k + 1)
    <3>1. k + 1 - 1 = k /\ k + 1 > 1
      OBVIOUS
    <3> QED
      BY <1>1, <3>1 DEF SecondAt
  <2>10. Returned(t, k + 1) = t[k + 1]
    BY <2>2, <2>9 DEF Returned, Lone
  <2> QED
    BY <1>1, <2>7, <2>8, <2>10 DEF p
<1>2. CASE ~ Paired(t, k) /\ (High(t[k]) \/ Low(t[k]))
  <2>1. PointAt(t, k) = replacement_character /\ Returned(t, k) = replacement_character
    BY <1>2 DEF PointAt, Returned, Lone
  <2>2. append_utf16(replacement_character) = <<replacement_character>>
    BY DEF append_utf16, replacement_character, K
  <2> QED
    BY <1>2, <2>1, <2>2
<1>3. CASE ~ Paired(t, k) /\ ~ High(t[k]) /\ ~ Low(t[k])
  <2>1. PointAt(t, k) = t[k] /\ Returned(t, k) = t[k]
    BY <1>3 DEF PointAt, Returned, Lone
  <2> QED
    BY <1>0, <1>3, <2>1 DEF append_utf16
<1> QED
  BY <1>1, <1>2, <1>3

LEMMA ReturnedIsUnit ==
    ASSUME NEW t \in Seq(Unit), NEW k \in 1..Len(t)
    PROVE  Returned(t, k) \in Unit
<1>1. t[k] \in Unit
  OBVIOUS
<1> QED
  BY <1>1 DEF Returned, replacement_character, Unit, K

LEMMA BackStep ==
    ASSUME NEW t \in Seq(Unit), NEW k \in 1..Len(t), ~ SecondAt(t, k)
    PROVE  Back(t, k - 1) \o append_utf16(PointAt(t, k)) = Back(t, Onward(t, k) - 1)
<1> DEFINE R(j) == Returned(t, j)
           s == [j \in 1..(k - 1) |-> R(j)]
<1>1. \A j \in 1..Len(t) : R(j) \in Unit
  BY ReturnedIsUnit
<1>2. Back(t, k - 1) = s
  BY DEF Back
<1>3. CASE Paired(t, k)
  <2>1. append_utf16(PointAt(t, k)) = <<R(k), R(k + 1)>>
    BY <1>3, PointBack
  <2>2. Onward(t, k) - 1 = k + 1 /\ k + 1 \in 1..Len(t)
    BY <1>3, OnwardIs
  <2>3. Back(t, Onward(t, k) - 1) = [j \in 1..(k + 1) |-> R(j)]
    BY <2>2 DEF Back
  <2> HIDE DEF R
  <2>4. s \o <<R(k), R(k + 1)>> = [j \in 1..(k + 1) |-> R(j)]
    <3>1. s \in Seq(Unit) /\ Len(s) = k - 1
      BY <1>1
    <3>2. <<R(k), R(k + 1)>> \in Seq(Unit)
      BY <1>1, <2>2
    <3> QED
      BY <1>1, <2>2, <3>1, <3>2
  <2> QED
    BY <1>2, <2>1, <2>3, <2>4
<1>4. CASE ~ Paired(t, k)
  <2>1. append_utf16(PointAt(t, k)) = <<R(k)>>
    BY <1>4, PointBack
  <2>2. Onward(t, k) - 1 = k
    BY <1>4, OnwardIs
  <2>3. Back(t, Onward(t, k) - 1) = [j \in 1..k |-> R(j)]
    BY <2>2 DEF Back
  <2> HIDE DEF R
  <2>4. s \o <<R(k)>> = [j \in 1..k |-> R(j)]
    <3>1. s \in Seq(Unit) /\ Len(s) = k - 1
      BY <1>1
    <3>2. <<R(k)>> \in Seq(Unit)
      BY <1>1
    <3> QED
      BY <1>1, <3>1, <3>2
  <2> QED
    BY <1>2, <2>1, <2>3, <2>4
<1> QED
  BY <1>3, <1>4

(* Where the bytes of every character of the first m - 1 units stand:      *)
(* at[k] is the place of the character that begins at unit k.              *)
Placed(t, m, at, bytes) ==
    /\ at \in [1..m -> Nat \ {0}] /\ at[1] = 1 /\ at[m] = Len(bytes) + 1
    /\ \A k \in 1..(m - 1) : ~ SecondAt(t, k) =>
          /\ Onward(t, k) <= m
          /\ at[Onward(t, k)] = at[k] + Len(Encoded(t, k))
          /\ Stands(bytes, at[k], Encoded(t, k))

LEMMA PlaceNext ==
    ASSUME NEW t \in Seq(Unit), NEW m \in 1..Len(t), ~ SecondAt(t, m), NEW bytes \in Seq(Byte),
           NEW at, Placed(t, m, at, bytes)
    PROVE  \E at2 : Placed(t, Onward(t, m), at2, bytes \o Encoded(t, m))
<1> DEFINE e == Encoded(t, m)
           o == Onward(t, m)
           all == bytes \o e
           at2 == [k \in 1..o |-> IF k <= m THEN at[k] ELSE Len(all) + 1]
<1>1. e \in Seq(Byte) /\ Len(e) \in 1..4
  BY PointIsScalar, EncodedLength DEF Encoded
<1>2. /\ o \in Nat /\ o > m
      /\ Paired(t, m) => o = m + 2 /\ m + 1 \in 1..Len(t)
      /\ ~ Paired(t, m) => o = m + 1
  BY OnwardIs
<1> HIDE DEF e, o
<1>3. /\ all \in Seq(Byte) /\ Len(all) = Len(bytes) + Len(e) /\ Len(bytes) \in Nat
      /\ \A j \in 1..Len(bytes) : all[j] = bytes[j]
      /\ \A j \in 1..Len(e) : all[Len(bytes) + j] = e[j]
  BY <1>1
<1> HIDE DEF all
<1>4. /\ at \in [1..m -> Nat \ {0}] /\ at[1] = 1 /\ at[m] = Len(bytes) + 1
      /\ \A k \in 1..(m - 1) : ~ SecondAt(t, k) =>
            /\ Onward(t, k) <= m
            /\ at[Onward(t, k)] = at[k] + Len(Encoded(t, k))
            /\ Stands(bytes, at[k], Encoded(t, k))
  BY DEF Placed
<1>5. at2 \in [1..o -> Nat \ {0}] /\ at2[1] = 1 /\ at2[o] = Len(all) + 1
  BY <1>1, <1>2, <1>3, <1>4
<1>6. \A k \in 1..m : at2[k] = at[k]
  BY <1>2
<1> HIDE DEF at2
<1>7. ASSUME NEW k \in 1..(o - 1), ~ SecondAt(t, k)
      PROVE  /\ Onward(t, k) <= o
             /\ at2[Onward(t, k)] = at2[k] + Len(Encoded(t, k))
             /\ Stands(all, at2[k], Encoded(t, k))
  <2>1. CASE k < m
    <3>1. k \in 1..(m - 1) /\ k \in 1..m /\ k \in 1..Len(t)
      BY <2>1
    <3>2. /\ Onward(t, k) <= m /\ at[Onward(t, k)] = at[k] + Len(Encoded(t, k))
          /\ Stands(bytes, at[k], Encoded(t, k))
      BY <1>4, <1>7, <3>1
    <3>3. Onward(t, k) \in 1..m
      BY <3>1, <3>2, OnwardIs
    <3>4. at2[Onward(t, k)] = at2[k] + Len(Encoded(t, k)) /\ at2[k] = at[k] /\ at[k] \in Nat \ {0}
      BY <1>4, <1>6, <3>1, <3>2, <3>3
    <3>5. Len(Encoded(t, k)) \in 1..4
      BY <3>1, PointIsScalar, EncodedLength DEF Encoded
    <3>6. Stands(all, at[k], Encoded(t, k))
      <4> DEFINE c == Encoded(t, k)  p == at[k]
      <4>1. p \in Nat \ {0} /\ Len(c) \in 1..4 /\ Stands(bytes, p, c)
        BY <3>2, <3>4, <3>5
      <4> HIDE DEF c, p
      <4>2. p + Len(c) - 1 <= Len(all)
        BY <1>1, <1>3, <4>1 DEF Stands
      <4>3. ASSUME NEW j \in 1..Len(c) PROVE all[p + j - 1] = c[j]
        <5>1. p + j - 1 \in 1..Len(bytes) /\ bytes[p + j - 1] = c[j]
          BY <1>3, <4>1 DEF Stands
        <5> QED
          BY <1>3, <5>1
      <4>4. Stands(all, p, c)
        BY <4>2, <4>3 DEF Stands
      <4> QED
        BY <4>4 DEF c, p
    <3> QED
      BY <1>2, <3>2, <3>3, <3>4, <3>6
  <2>2. CASE k = m
    <3>1. Onward(t, k) = o /\ Encoded(t, k) = e /\ at2[k] = Len(bytes) + 1
      BY <1>4, <1>6, <2>2 DEF o, e
    <3>2. Stands(all, Len(bytes) + 1, e)
      <4>1. Len(bytes) + 1 + Len(e) - 1 <= Len(all)
        BY <1>1, <1>3
      <4>2. ASSUME NEW j \in 1..Len(e) PROVE all[Len(bytes) + 1 + j - 1] = e[j]
        <5>1. Len(bytes) + 1 + j - 1 = Len(bytes) + j
          BY <1>1, <1>3
        <5> QED
          BY <1>3, <5>1
      <4> QED
        BY <4>1, <4>2 DEF Stands
    <3> QED
      BY <1>1, <1>2, <1>3, <1>5, <3>1, <3>2
  <2>3. CASE k > m
    <3>1. Paired(t, m) /\ k = m + 1
      BY <1>2, <2>3
    <3>2. k - 1 = m /\ k > 1
      BY <3>1
    <3> QED
      BY <1>7, <3>1, <3>2 DEF SecondAt
  <2> QED
    BY <1>2, <2>1, <2>2, <2>3
<1>8. Placed(t, o, at2, all)
  BY <1>5, <1>7 DEF Placed
<1> QED
  BY <1>8 DEF o, all, e

(* In the first loop the bytes hold the characters of the units passed; in *)
(* the second the units are those passed in the first.                     *)
Encoding ==
    /\ units = <<>> /\ index <= Len(java_text) + 1 /\ ~ SecondAt(java_text, index)
    /\ \E at : Placed(java_text, index, at, utf8_text)

Decoding ==
    \E at : \E q \in 1..(Len(java_text) + 1) :
        /\ Placed(java_text, Len(java_text) + 1, at, utf8_text)
        /\ ~ SecondAt(java_text, q) /\ index = at[q] /\ units = Back(java_text, q - 1)

TextInv ==
    /\ utf_pc = "idle" => java_text = <<>> /\ utf8_text = <<>> /\ index = 1 /\ units = <<>>
    /\ java_text # <<>> =>
          /\ utf_pc = "encode" => Encoding
          /\ utf_pc = "decode" => Decoding
          /\ utf_pc = "done" => units = Back(java_text, Len(java_text))

LEMMA EncodeStep ==
    ASSUME UtfTypeOK, Encoding, EncodeUnit
    PROVE  Encoding'
<1>1. /\ java_text \in Seq(Unit) /\ utf8_text \in Seq(Byte) /\ index \in 1..Len(java_text)
      /\ ~ SecondAt(java_text, index) /\ units = <<>>
  BY DEF UtfTypeOK, Encoding, EncodeUnit
<1>2. PICK at : Placed(java_text, index, at, utf8_text)
  BY DEF Encoding
<1>3. /\ utf8_text' = utf8_text \o Encoded(java_text, index)
      /\ index' = Onward(java_text, index) /\ UNCHANGED <<java_text, units>>
  BY DEF EncodeUnit, Encoded, Onward
<1>4. PICK at2 : Placed(java_text, Onward(java_text, index), at2,
                        utf8_text \o Encoded(java_text, index))
  BY <1>1, <1>2, PlaceNext
<1>5. /\ Onward(java_text, index) <= Len(java_text) + 1
      /\ ~ SecondAt(java_text, Onward(java_text, index))
  BY <1>1, OnwardIs
<1>6. Placed(java_text', index', at2, utf8_text')
  BY <1>3, <1>4
<1>7. index' <= Len(java_text') + 1 /\ ~ SecondAt(java_text', index') /\ units' = <<>>
  BY <1>1, <1>3, <1>5
<1> QED
  BY <1>6, <1>7 DEF Encoding

LEMMA EncodedAll ==
    ASSUME UtfTypeOK, Encoding, EncodeEnd, java_text # <<>>
    PROVE  Decoding'
<1>1. /\ java_text \in Seq(Unit) /\ index = Len(java_text) + 1 /\ units = <<>>
  BY DEF UtfTypeOK, Encoding, EncodeEnd
<1>2. PICK at : Placed(java_text, Len(java_text) + 1, at, utf8_text)
  BY <1>1 DEF Encoding
<1>3. index' = 1 /\ UNCHANGED <<java_text, utf8_text, units>>
  BY DEF EncodeEnd
<1>4. at[1] = 1 /\ 1 \in 1..(Len(java_text) + 1)
  BY <1>1, <1>2 DEF Placed
<1>5. ~ SecondAt(java_text, 1)
  BY DEF SecondAt
<1>6. Back(java_text, 1 - 1) = <<>>
  BY DEF Back
<1>7. /\ Placed(java_text', Len(java_text') + 1, at, utf8_text') /\ 1 \in 1..(Len(java_text') + 1)
      /\ ~ SecondAt(java_text', 1) /\ index' = at[1] /\ units' = Back(java_text', 1 - 1)
  BY <1>1, <1>2, <1>3, <1>4, <1>5, <1>6
<1> QED
  BY <1>7 DEF Decoding

(* The character at hand is read whole.                                    *)
LEMMA CharacterHere ==
    ASSUME UtfTypeOK, NEW at, NEW q \in 1..Len(java_text), ~ SecondAt(java_text, q),
           Placed(java_text, Len(java_text) + 1, at, utf8_text), index = at[q]
    PROVE  LET n == Len(Encoded(java_text, q))
           IN  /\ n \in 1..4 /\ index \in 1..Len(utf8_text)
               /\ ReadAs(index, n, PointAt(java_text, q))
               /\ at[Onward(java_text, q)] = index + n
<1> DEFINE n == Len(Encoded(java_text, q))
<1>1. java_text \in Seq(Unit) /\ utf8_text \in Seq(Byte) /\ index \in Nat \ {0}
  BY DEF UtfTypeOK
<1>2. Scalar(PointAt(java_text, q))
  BY <1>1, PointIsScalar
<1>3. n \in 1..4
  BY <1>2, EncodedLength DEF Encoded
<1>4. q \in 1..(Len(java_text) + 1 - 1)
  BY <1>1
<1>5. Stands(utf8_text, index, Encoded(java_text, q)) /\ at[Onward(java_text, q)] = index + n
  BY <1>4 DEF Placed
<1>6. index \in 1..Len(utf8_text)
  <2>1. index + n - 1 <= Len(utf8_text)
    BY <1>5 DEF Stands
  <2> HIDE DEF n
  <2> QED
    BY <1>1, <1>3, <2>1
<1>7. ReadAs(index, n, PointAt(java_text, q))
  BY <1>2, <1>5, <1>6, EncodedIsRead DEF Encoded
<1> QED
  BY <1>3, <1>5, <1>6, <1>7

Decode == DecodeBadLead \/ DecodeIncomplete \/ DecodeBadRange \/ DecodePoint

LEMMA DecodeStep ==
    ASSUME UtfTypeOK, Decoding, Decode
    PROVE  Decoding'
<1>1. PICK at : \E q \in 1..(Len(java_text) + 1) :
        /\ Placed(java_text, Len(java_text) + 1, at, utf8_text)
        /\ ~ SecondAt(java_text, q) /\ index = at[q] /\ units = Back(java_text, q - 1)
  BY DEF Decoding
<1>2. PICK q \in 1..(Len(java_text) + 1) :
        /\ Placed(java_text, Len(java_text) + 1, at, utf8_text)
        /\ ~ SecondAt(java_text, q) /\ index = at[q] /\ units = Back(java_text, q - 1)
  BY <1>1
<1>3. java_text \in Seq(Unit) /\ utf8_text \in Seq(Byte) /\ index <= Len(utf8_text)
  BY DEF UtfTypeOK, Decode, DecodeBadLead, DecodeIncomplete, DecodeBadRange, DecodePoint
<1>4. q \in 1..Len(java_text)
  <2>1. q = Len(java_text) + 1 => index = Len(utf8_text) + 1
    BY <1>2 DEF Placed
  <2> QED
    BY <1>2, <1>3, <2>1
<1> DEFINE n == Len(Encoded(java_text, q))
           point == PointAt(java_text, q)
           o == Onward(java_text, q)
<1>5. n \in 1..4 /\ index \in 1..Len(utf8_text) /\ ReadAs(index, n, point) /\ at[o] = index + n
  BY <1>2, <1>4, CharacterHere
<1>6. /\ sequence_length(utf8_text[index]) = n /\ valid_length(index, n) = n
      /\ Decoded(index, n) = point
      /\ n > 1 => ~ invalid_range(utf8_text[index], utf8_text[index + 1])
  BY <1>5 DEF ReadAs
<1> HIDE DEF n, point
<1>7. Emit(point, n)
  <2>1. ~ DecodeBadLead
    BY <1>5, <1>6 DEF DecodeBadLead
  <2>2. ~ DecodeIncomplete
    BY <1>5, <1>6 DEF DecodeIncomplete
  <2>3. ~ DecodeBadRange
    BY <1>5, <1>6 DEF DecodeBadRange
  <2>4. DecodePoint => Emit(Decoded(index, n), n)
    BY <1>6 DEF DecodePoint
  <2> QED
    BY <1>6, <2>1, <2>2, <2>3, <2>4 DEF Decode
<1>8. /\ units' = units \o append_utf16(point) /\ index' = at[o]
      /\ UNCHANGED <<java_text, utf8_text>>
  BY <1>5, <1>7 DEF Emit
<1>9. units' = Back(java_text, o - 1)
  <2>1. Back(java_text, q - 1) \o append_utf16(point) = Back(java_text, o - 1)
    BY <1>2, <1>3, <1>4, BackStep DEF point
  <2> QED
    BY <1>2, <1>8, <2>1
<1>10. o \in 1..(Len(java_text) + 1) /\ ~ SecondAt(java_text, o)
  BY <1>3, <1>4, OnwardIs
<1> HIDE DEF o
<1>11. /\ Placed(java_text', Len(java_text') + 1, at, utf8_text')
       /\ o \in 1..(Len(java_text') + 1)
       /\ ~ SecondAt(java_text', o) /\ index' = at[o] /\ units' = Back(java_text', o - 1)
  BY <1>2, <1>8, <1>9, <1>10
<1> QED
  BY <1>11 DEF Decoding

LEMMA DecodedAll ==
    ASSUME UtfTypeOK, Decoding, DecodeEnd
    PROVE  units' = Back(java_text', Len(java_text'))
<1>1. PICK at : \E q \in 1..(Len(java_text) + 1) :
        /\ Placed(java_text, Len(java_text) + 1, at, utf8_text)
        /\ ~ SecondAt(java_text, q) /\ index = at[q] /\ units = Back(java_text, q - 1)
  BY DEF Decoding
<1>2. PICK q \in 1..(Len(java_text) + 1) :
        /\ Placed(java_text, Len(java_text) + 1, at, utf8_text)
        /\ ~ SecondAt(java_text, q) /\ index = at[q] /\ units = Back(java_text, q - 1)
  BY <1>1
<1>3. java_text \in Seq(Unit) /\ index > Len(utf8_text) /\ UNCHANGED <<java_text, units>>
  BY DEF UtfTypeOK, DecodeEnd
<1>4. q = Len(java_text) + 1
  <2>1. CASE q \in 1..Len(java_text)
    <3>1. index \in 1..Len(utf8_text)
      BY <1>2, <2>1, CharacterHere
    <3> QED
      BY <1>3, <3>1
  <2> QED
    BY <1>3, <2>1
<1>5. Len(java_text) + 1 - 1 = Len(java_text)
  BY <1>3
<1> QED
  BY <1>2, <1>3, <1>4, <1>5

LEMMA TextStep == UtfInv /\ TextInv /\ [UtfNext]_utfVars => TextInv'
<1> SUFFICES ASSUME UtfTypeOK, TextInv, [UtfNext]_utfVars PROVE TextInv'
  BY DEF UtfInv
<1>1. CASE UNCHANGED utfVars
  BY <1>1 DEF utfVars, TextInv, Encoding, Decoding
<1>2. ASSUME NEW t \in JavaTexts, FromJava(t) PROVE TextInv'
  <2>1. /\ utf_pc' = "encode" /\ java_text' = t /\ utf8_text' = <<>> /\ index' = 1 /\ units' = <<>>
        /\ t \in Seq(Unit)
    BY <1>2, UtfAssumption DEF FromJava, TextInv
  <2> DEFINE at == [k \in 1..1 |-> 1]
  <2>2. Placed(t, 1, at, <<>>)
    BY DEF Placed
  <2>3. 1 <= Len(t) + 1 /\ ~ SecondAt(t, 1)
    BY <2>1 DEF SecondAt
  <2>4. Placed(java_text', index', at, utf8_text')
    BY <2>1, <2>2
  <2>5. Encoding'
    BY <2>1, <2>3, <2>4 DEF Encoding
  <2> QED
    BY <2>1, <2>5 DEF TextInv
<1>3. ASSUME NEW t \in EngineTexts, FromEngine(t) PROVE TextInv'
  BY <1>3 DEF FromEngine, TextInv
<1>4. CASE EncodeUnit
  <2>1. utf_pc = "encode" /\ utf_pc' = "encode" /\ java_text' = java_text
    BY <1>4 DEF EncodeUnit
  <2>2. java_text # <<>> => Encoding'
    BY <1>4, <2>1, EncodeStep DEF TextInv
  <2> QED
    BY <2>1, <2>2 DEF TextInv
<1>5. CASE EncodeEnd
  <2>1. utf_pc = "encode" /\ utf_pc' = "decode" /\ java_text' = java_text
    BY <1>5 DEF EncodeEnd
  <2>2. java_text # <<>> => Decoding'
    BY <1>5, <2>1, EncodedAll DEF TextInv
  <2> QED
    BY <2>1, <2>2 DEF TextInv
<1>6. CASE Decode
  <2>1. utf_pc = "decode" /\ utf_pc' = "decode" /\ java_text' = java_text
    BY <1>6 DEF Decode, DecodeBadLead, DecodeIncomplete, DecodeBadRange, DecodePoint, Emit
  <2>2. java_text # <<>> => Decoding'
    BY <1>6, <2>1, DecodeStep DEF TextInv
  <2> QED
    BY <2>1, <2>2 DEF TextInv
<1>7. CASE DecodeEnd
  <2>1. utf_pc = "decode" /\ utf_pc' = "done" /\ java_text' = java_text
    BY <1>7 DEF DecodeEnd
  <2>2. java_text # <<>> => units' = Back(java_text', Len(java_text'))
    BY <1>7, <2>1, DecodedAll DEF TextInv
  <2> QED
    BY <2>1, <2>2 DEF TextInv
<1>8. CASE UtfReturn
  BY <1>8 DEF UtfReturn, TextInv
<1> QED
  BY <1>1, <1>2, <1>3, <1>4, <1>5, <1>6, <1>7, <1>8 DEF UtfNext, Decode

(* Whatever text Java passes in, it comes back from the bytes as it was,   *)
(* but for halves of surrogate pairs: each of them has become one          *)
(* replacement character.                                                  *)
THEOREM TextsComeBack == UtfSpec => []RoundTrip
<1>1. UtfInit => UtfInv /\ TextInv
  BY DEF UtfInit, UtfInv, UtfTypeOK, UnitsWellFormed, TextInv
<1>2. TextInv => RoundTrip
  <2> SUFFICES ASSUME TextInv, utf_pc = "done", java_text # <<>>
               PROVE  units = Back(java_text, Len(java_text)) /\ RoundTrip
    BY DEF RoundTrip
  <2>1. units = Back(java_text, Len(java_text))
    BY DEF TextInv
  <2> QED
    BY <2>1 DEF RoundTrip, Back, Returned, Lone, SecondAt
<1>3. UtfInv /\ TextInv /\ [UtfNext]_utfVars => (UtfInv /\ TextInv)'
  BY UtfStep, TextStep
<1> QED
  BY <1>1, <1>2, <1>3, PTL DEF UtfSpec

-----------------------------------------------------------------------------
(* The results: TranscriptionJsonWorker. *)

Results == 1..MaxEvents
InLoop == {"loop", "append", "appendText"}
After == {"finish", "rewrite", "end", "stopped"}

(* TypeOK, variable by variable. *)
FlagsTyped ==
    /\ submit_pc \in {"idle", "offer", "poll", "again"}
    /\ running \in BOOLEAN /\ interrupted \in BOOLEAN /\ writer \in BOOLEAN /\ failed \in BOOLEAN
    /\ overlap \in BOOLEAN /\ jsonSaved \in BOOLEAN /\ textSaved \in BOOLEAN
    /\ json_pc \in {"off", "clear", "create", "loop", "append", "appendText", "drain",
                    "finish", "rewrite", "end", "stopped"}

DataTyped ==
    /\ next \in 1..(MaxEvents + 1) /\ (event = 0 \/ event \in Results)
    /\ eventQueue \in Seq(Results) /\ Len(eventQueue) <= QueueCapacity
    /\ items \in Seq(Results)
    /\ json \in Unreadable \/ json \in Seq(Results)
    /\ text \in Unreadable \/ text \in Seq(Results)
    /\ accepted \subseteq Results /\ dropped \subseteq accepted

(* Where the thread is, against the flags the other threads see. *)
ControlInv ==
    /\ json_pc = "off" => ~ running /\ ~ interrupted /\ submit_pc = "idle"
    /\ interrupted => ~ running
    /\ submit_pc # "idle" => next \in Results
    /\ json_pc \in {"off", "clear", "create"} => ~ writer /\ ~ failed /\ items = <<>>
    /\ json_pc \in InLoop => writer /\ ~ failed
    /\ json_pc = "rewrite" => writer
    /\ json_pc \in {"append", "appendText"} => event \in Results
    /\ json_pc \in {"create"} \cup InLoop => text \in Seq(Results)
    /\ json_pc \in {"drain"} \cup After /\ ~ failed => writer /\ ~ running

(* After a stop outside of any submit() nothing enters the queue any more. *)
StopInv ==
    /\ ~ running /\ ~ overlap /\ ~ failed => submit_pc = "idle"
    /\ json_pc \in After /\ ~ failed /\ ~ overlap => eventQueue = <<>>

Increasing(s) == \A i, k \in DOMAIN s : i < k => s[i] < s[k]

KeptInv ==
    /\ Increasing(Kept)
    /\ \A r \in accepted : r < next
    /\ ToSet(Kept) \subseteq accepted \ dropped
    /\ writer \/ ~ failed => ToSet(Kept) = accepted \ dropped

FilesInv ==
    /\ ~ writer => ~ jsonSaved
    /\ json \notin Unreadable => IsPrefix(json, items)
    /\ json_pc \in {"rewrite", "end", "stopped"} /\ jsonSaved => json = items
    /\ json_pc \in {"end", "stopped"} /\ jsonSaved /\ textSaved => text = items

JsonInv == FlagsTyped /\ DataTyped /\ ControlInv /\ StopInv /\ KeptInv /\ FilesInv
-----------------------------------------------------------------------------
(* Facts about increasing sequences.                                       *)

LEMMA ResultsAreNumbers ==
    /\ MaxEvents \in Nat /\ QueueCapacity \in Nat \ {0} /\ Results \subseteq Nat
BY JsonAssumption DEF Results

LEMMA Types == FlagsTyped /\ DataTyped => TypeOK
BY ResultsAreNumbers DEF FlagsTyped, DataTyped, TypeOK, Content, Results

(* Moving the head of a queue to the end of what comes before it changes   *)
(* nothing of the whole.                                                   *)
LEMMA HeadMoves ==
    ASSUME NEW S, NEW s \in Seq(S), NEW q \in Seq(S), q # <<>>
    PROVE  /\ Head(q) \in S /\ Tail(q) \in Seq(S) /\ Len(Tail(q)) = Len(q) - 1
           /\ (s \o <<Head(q)>>) \o Tail(q) = s \o q
<1>1. Head(q) \in S /\ Tail(q) \in Seq(S) /\ Len(Tail(q)) = Len(q) - 1
  BY HeadTailProperties
<1>2. <<Head(q)>> \o Tail(q) = q
  OBVIOUS
<1>3. (s \o <<Head(q)>>) \o Tail(q) = s \o (<<Head(q)>> \o Tail(q))
  BY <1>1, ConcatAssociative
<1> QED BY <1>1, <1>2, <1>3

(* A newer result at the end. *)
LEMMA AppendNewest ==
    ASSUME NEW s \in Seq(Results), NEW n \in Results, Increasing(s), \A r \in ToSet(s) : r < n
    PROVE  /\ Append(s, n) \in Seq(Results) /\ Increasing(Append(s, n))
           /\ ToSet(Append(s, n)) = ToSet(s) \cup {n}
<1> DEFINE a == Append(s, n)
<1>1. /\ a \in Seq(Results) /\ Len(a) = Len(s) + 1
      /\ \A i \in 1..Len(s) : a[i] = s[i]
      /\ a[Len(s) + 1] = n
  BY AppendProperties
<1>2. DOMAIN a = 1..(Len(s) + 1) /\ DOMAIN s = 1..Len(s) /\ Len(s) \in Nat
  BY <1>1, LenProperties
<1> HIDE DEF a
<1>3. \A i \in 1..Len(s) : s[i] \in Nat /\ s[i] < n
  BY <1>2, ResultsAreNumbers, ElementOfSeq DEF ToSet
<1>4. Increasing(a)
  BY <1>1, <1>2, <1>3 DEF Increasing
<1>5. ToSet(a) = ToSet(s) \cup {n}
  BY <1>1, <1>2 DEF ToSet
<1> QED BY <1>1, <1>4, <1>5 DEF a

(* One result taken out: the others stay in order, and it is gone. *)
LEMMA TakeOut ==
    ASSUME NEW s \in Seq(Results), NEW q \in Seq(Results), q # <<>>, Increasing(s \o q)
    PROVE  /\ s \o Tail(q) \in Seq(Results) /\ Increasing(s \o Tail(q))
           /\ ToSet(s \o Tail(q)) = ToSet(s \o q) \ {Head(q)}
<1> DEFINE u == s \o q
           v == s \o Tail(q)
           m == Len(s) + 1
<1>1. /\ Tail(q) \in Seq(Results) /\ Len(Tail(q)) = Len(q) - 1 /\ Len(q) \in Nat /\ Len(q) >= 1
      /\ \A i \in 1..Len(Tail(q)) : Tail(q)[i] = q[i + 1]
      /\ Head(q) = q[1] /\ Len(s) \in Nat
  BY HeadTailProperties, EmptySeq, LenProperties
<1>2. /\ u \in Seq(Results) /\ Len(u) = Len(s) + Len(q)
      /\ \A i \in 1..(Len(s) + Len(q)) : u[i] = IF i <= Len(s) THEN s[i] ELSE q[i - Len(s)]
  BY ConcatProperties
<1>3. /\ v \in Seq(Results) /\ Len(v) = Len(s) + Len(q) - 1
      /\ \A i \in 1..(Len(s) + Len(Tail(q))) :
            v[i] = IF i <= Len(s) THEN s[i] ELSE Tail(q)[i - Len(s)]
  BY <1>1, ConcatProperties
<1>4. DOMAIN u = 1..Len(u) /\ DOMAIN v = 1..Len(v) /\ Len(u) = Len(v) + 1 /\ Len(v) \in Nat
      /\ m \in 1..Len(u)
  BY <1>1, <1>2, <1>3, LenProperties
<1>5. u[m] = Head(q)
  BY <1>1, <1>2
<1>6. \A i \in 1..Len(v) : v[i] = IF i < m THEN u[i] ELSE u[i + 1]
  <2> SUFFICES ASSUME NEW i \in 1..Len(v) PROVE v[i] = IF i < m THEN u[i] ELSE u[i + 1]
    OBVIOUS
  <2>1. CASE i < m
    BY <2>1, <1>1, <1>2, <1>3, <1>4
  <2>2. CASE ~(i < m)
    <3>1. i - Len(s) \in 1..Len(Tail(q)) /\ i \in 1..(Len(s) + Len(Tail(q))) /\ ~(i <= Len(s))
      BY <2>2, <1>1, <1>3, <1>4
    <3>2. v[i] = q[i - Len(s) + 1]
      BY <3>1, <1>1, <1>3
    <3>3. i + 1 \in 1..(Len(s) + Len(q)) /\ ~(i + 1 <= Len(s)) /\ i + 1 - Len(s) = i - Len(s) + 1
      BY <2>2, <1>1, <1>3, <1>4
    <3> QED BY <2>2, <3>2, <3>3, <1>2
  <2> QED BY <2>1, <2>2
<1>7. \A i \in 1..Len(u) : u[i] \in Nat
  BY <1>2, ElementOfSeq, ResultsAreNumbers
<1>8. \A i, k \in 1..Len(u) : i < k => u[i] < u[k]
  BY <1>4 DEF Increasing
<1> HIDE DEF u, v, m
<1>9. Increasing(v)
  <2> SUFFICES ASSUME NEW i \in 1..Len(v), NEW k \in 1..Len(v), i < k PROVE v[i] < v[k]
    BY <1>4 DEF Increasing
  <2>1. /\ i \in 1..Len(u) /\ k \in 1..Len(u) /\ i + 1 \in 1..Len(u) /\ k + 1 \in 1..Len(u)
        /\ i < k + 1 /\ i + 1 < k + 1 /\ (i < m \/ ~(k < m))
    BY <1>4
  <2> QED BY <2>1, <1>6, <1>8
<1>10. \A i \in 1..Len(u) : i # m => u[i] # u[m]
  <2> TAKE i \in 1..Len(u)
  <2>1. i # m => i < m \/ m < i
    BY <1>4
  <2> QED BY <2>1, <1>4, <1>7, <1>8
<1>11. \A i \in 1..Len(v) : \E k \in 1..Len(u) : k # m /\ v[i] = u[k]
  <2> TAKE i \in 1..Len(v)
  <2>1. CASE i < m
    BY <2>1, <1>4, <1>6
  <2>2. CASE ~(i < m)
    <3>1. i + 1 \in 1..Len(u) /\ i + 1 # m
      BY <2>2, <1>4
    <3> QED BY <2>2, <3>1, <1>6
  <2> QED BY <2>1, <2>2
<1>12. \A k \in 1..Len(u) : k # m => \E i \in 1..Len(v) : v[i] = u[k]
  <2> TAKE k \in 1..Len(u)
  <2>1. CASE k < m
    BY <2>1, <1>4, <1>6
  <2>2. CASE k > m
    <3>1. k - 1 \in 1..Len(v) /\ ~(k - 1 < m) /\ k - 1 + 1 = k
      BY <2>2, <1>4
    <3> QED BY <3>1, <1>6
  <2> QED BY <2>1, <2>2, <1>4
<1>13. ToSet(v) = ToSet(u) \ {u[m]}
  <2>1. ToSet(v) = {v[i] : i \in 1..Len(v)} /\ ToSet(u) = {u[i] : i \in 1..Len(u)}
    BY <1>4 DEF ToSet
  <2> QED BY <2>1, <1>4, <1>10, <1>11, <1>12
<1> QED BY <1>3, <1>5, <1>9, <1>13 DEF u, v, m
-----------------------------------------------------------------------------
(* The invariant, part by part.                                            *)

LEMMA InitJson == Init => JsonInv
<1> SUFFICES ASSUME Init PROVE JsonInv
  OBVIOUS
<1> USE DEF Init
<1>0. FlagsTyped
  BY DEF FlagsTyped
<1>1. DataTyped
  BY ResultsAreNumbers DEF DataTyped, Unreadable
<1>2. ControlInv /\ StopInv
  BY DEF ControlInv, StopInv, InLoop, After
<1>3. Kept = <<>>
  BY DEF Kept, InHand
<1>4. KeptInv
  BY <1>3 DEF KeptInv, Increasing, ToSet
<1>5. FilesInv
  BY DEF FilesInv, Unreadable
<1> QED BY <1>0, <1>1, <1>2, <1>4, <1>5 DEF JsonInv

(* Every flag is set to a truth value; write attempts end one way or the   *)
(* other.                                                                  *)
LEMMA FlagsStep == JsonInv /\ [Next]_vars => FlagsTyped'
<1> SUFFICES ASSUME FlagsTyped, [Next]_vars PROVE FlagsTyped'
  BY DEF JsonInv
<1> USE DEF FlagsTyped, submitVars, threadVars, fileVars
<1>1. CASE Start \/ RequestStop \/ Submit \/ Offer \/ DropOldest
  <2>1. CASE Start
    BY <2>1, Zenon DEF Start
  <2>2. CASE RequestStop
    BY <2>2, Zenon DEF RequestStop
  <2>3. CASE Submit
    BY <2>3, Zenon DEF Submit
  <2>4. CASE Offer
    BY <2>4, Zenon DEF Offer, Enqueue
  <2>5. CASE DropOldest
    BY <2>5, Zenon DEF DropOldest
  <2> QED
    BY <1>1, <2>1, <2>2, <2>3, <2>4, <2>5
<1>2. CASE Clear \/ Create \/ LeaveLoop \/ Poll
  BY <1>2 DEF Clear, Create, LeaveLoop, Poll, Step, SaveJson, SaveText, Write
<1>3. CASE AppendEvent \/ AppendText
  BY <1>3 DEF AppendEvent, AppendText, Step, SaveJson, SaveText, Write
<1>4. CASE Drain
  BY <1>4 DEF Drain, Step, SaveJson, Write
<1>5. CASE Finish \/ Rewrite \/ End
  BY <1>5 DEF Finish, Rewrite, End, Step, SaveJson, SaveText, Write
<1>6. CASE UNCHANGED vars
  BY <1>6 DEF vars
<1> QED
  BY <1>1, <1>2, <1>3, <1>4, <1>5, <1>6 DEF Next, ThreadStep

(* What is in the thread's hand, and the queue, are results. *)
LEMMA DataStep == JsonInv /\ [Next]_vars => DataTyped'
<1> SUFFICES ASSUME JsonInv, [Next]_vars PROVE DataTyped'
  OBVIOUS
<1> USE ResultsAreNumbers
<1>0. DataTyped /\ ControlInv
  BY DEF JsonInv
<1>1. CASE Start
  BY <1>0, <1>1 DEF Start, DataTyped, submitVars, fileVars
<1>2. CASE RequestStop
  BY <1>0, <1>2 DEF RequestStop, DataTyped, submitVars, threadVars, fileVars
<1>3. CASE Submit
  BY <1>0, <1>3 DEF Submit, DataTyped, threadVars, fileVars
<1>4. CASE Offer
  <2>1. next \in Results
    BY <1>0, <1>4 DEF Offer, ControlInv
  <2>2. CASE Len(eventQueue) < QueueCapacity
    <3>0. eventQueue \in Seq(Results) /\ eventQueue' = Append(eventQueue, next)
      BY <1>0, <1>4, <2>2 DEF Offer, Enqueue, DataTyped
    <3>1. eventQueue' \in Seq(Results) /\ Len(eventQueue') <= QueueCapacity
      BY <2>1, <2>2, <3>0, AppendProperties
    <3>2. next' = next + 1 /\ next \in 1..MaxEvents
      BY <1>4, <2>1, <2>2 DEF Offer, Enqueue, Results
    <3>3. accepted' \subseteq Results /\ dropped' \subseteq accepted'
      BY <1>0, <1>4, <2>1, <2>2 DEF Offer, Enqueue, DataTyped
    <3>4. UNCHANGED <<event, items, json, text>>
      BY <1>4 DEF Offer, threadVars, fileVars
    <3> QED BY <1>0, <3>1, <3>2, <3>3, <3>4 DEF DataTyped
  <2>3. CASE ~(Len(eventQueue) < QueueCapacity)
    BY <1>0, <1>4, <2>3 DEF Offer, DataTyped, threadVars, fileVars
  <2> QED BY <2>2, <2>3
<1>5. CASE DropOldest
  <2>1. CASE eventQueue = <<>>
    BY <1>0, <1>5, <2>1 DEF DropOldest, DataTyped, threadVars, fileVars
  <2>2. CASE eventQueue # <<>>
    <3>1. /\ eventQueue' \in Seq(Results) /\ Len(eventQueue') <= QueueCapacity
          /\ Head(eventQueue) \in Results
      BY <1>0, <1>5, <2>2, HeadTailProperties DEF DropOldest, DataTyped
    <3>2. Head(eventQueue) \in accepted
      <4>1. Head(eventQueue) \in ToSet(Kept)
        <5>1. items \in Seq(Results) /\ InHand \in Seq(Results) /\ eventQueue \in Seq(Results)
          BY <1>0 DEF DataTyped, ControlInv, InHand
        <5>2. items \o InHand \in Seq(Results)
          BY <5>1, ConcatProperties
        <5> DEFINE s == items \o InHand
        <5> HIDE DEF s
        <5>3. s \o eventQueue \in Seq(Results) /\ Len(s) \in Nat /\ Len(eventQueue) \in Nat
              /\ Len(eventQueue) >= 1 /\ Len(s \o eventQueue) = Len(s) + Len(eventQueue)
          BY <5>1, <5>2, <2>2, ConcatProperties, LenProperties, EmptySeq DEF s
        <5>4. (s \o eventQueue)[Len(s) + 1] = eventQueue[1] /\ Len(s) + 1 \in DOMAIN (s \o eventQueue)
          BY <5>1, <5>2, <5>3, ConcatProperties, LenProperties DEF s
        <5> QED BY <5>4, <2>2, <5>1 DEF ToSet, Kept, s
      <4> QED BY <4>1 DEF JsonInv, KeptInv
    <3> QED BY <1>0, <1>5, <2>2, <3>1, <3>2 DEF DropOldest, DataTyped, threadVars, fileVars
  <2> QED BY <2>1, <2>2
<1> USE DEF Step, submitVars
<1>6. CASE Clear
  <2>1. (text' \in Unreadable \/ text' \in Seq(Results)) /\ textSaved' \in BOOLEAN /\ UNCHANGED <<json, jsonSaved>>
    BY <1>0, <1>6, EmptySeq DEF Clear, SaveText, Write, DataTyped, Unreadable
  <2> QED BY <1>0, <1>6, <2>1 DEF Clear, DataTyped
<1>7. CASE Create
  <2>1. (json' \in Unreadable \/ json' \in Seq(Results)) /\ jsonSaved' \in BOOLEAN /\ UNCHANGED <<text, textSaved>>
    BY <1>0, <1>7 DEF Create, SaveJson, Write, DataTyped, Unreadable
  <2> QED BY <1>0, <1>7, <2>1 DEF Create, DataTyped
<1>8. CASE LeaveLoop
  BY <1>0, <1>8 DEF LeaveLoop, DataTyped, fileVars
<1>9. CASE Poll
  <2>1. event' \in Results /\ eventQueue' \in Seq(Results) /\ Len(eventQueue') <= QueueCapacity
    BY <1>0, <1>9, HeadTailProperties DEF Poll, DataTyped
  <2> QED BY <1>0, <1>9, <2>1 DEF Poll, DataTyped, fileVars
<1>10. CASE AppendEvent
  <2>1. items' \in Seq(Results)
    BY <1>0, <1>10, AppendProperties DEF AppendEvent, DataTyped, ControlInv
  <2>2. (json' \in Unreadable \/ json' \in Seq(Results)) /\ jsonSaved' \in BOOLEAN /\ UNCHANGED <<text, textSaved>>
    BY <1>0, <1>10, <2>1 DEF AppendEvent, SaveJson, Write, DataTyped, Unreadable
  <2> QED BY <1>0, <1>10, <2>1, <2>2 DEF AppendEvent, DataTyped
<1>11. CASE AppendText
  <2>1. Append(text, event) \in Seq(Results)
    BY <1>0, <1>11, AppendProperties DEF AppendText, ControlInv, InLoop
  <2>2. (text' \in Unreadable \/ text' \in Seq(Results)) /\ textSaved' \in BOOLEAN /\ UNCHANGED <<json, jsonSaved>>
    BY <1>0, <1>11, <2>1 DEF AppendText, SaveText, Write, DataTyped, Unreadable
  <2> QED BY <1>0, <1>11, <2>2 DEF AppendText, DataTyped
<1>12. CASE Drain
  <2>1. CASE eventQueue = <<>>
    BY <1>0, <1>12, <2>1 DEF Drain, DataTyped, fileVars
  <2>2. CASE eventQueue # <<>>
    <3>1. /\ eventQueue' \in Seq(Results) /\ Len(eventQueue') <= QueueCapacity
          /\ Head(eventQueue) \in Results
      <4>1. eventQueue \in Seq(Results) /\ eventQueue' = Tail(eventQueue)
        BY <1>0, <1>12, <2>2 DEF Drain, DataTyped
      <4> QED BY <1>0, <2>2, <4>1, HeadTailProperties DEF DataTyped
    <3>2. CASE writer
      <4>1. items' \in Seq(Results)
        <5>1. items \in Seq(Results) /\ items' = Append(items, Head(eventQueue))
          BY <1>0, <1>12, <2>2, <3>2 DEF Drain, DataTyped
        <5> QED BY <3>1, <5>1, AppendProperties
      <4>2. (json' \in Unreadable \/ json' \in Seq(Results)) /\ jsonSaved' \in BOOLEAN /\ UNCHANGED <<text, textSaved>>
        BY <1>0, <1>12, <2>2, <3>2, <4>1 DEF Drain, SaveJson, Write, DataTyped, Unreadable
      <4> QED BY <1>0, <1>12, <2>2, <3>1, <4>1, <4>2 DEF Drain, DataTyped
    <3>3. CASE ~ writer
      BY <1>0, <1>12, <2>2, <3>1, <3>3 DEF Drain, DataTyped, fileVars
    <3> QED BY <3>2, <3>3
  <2> QED BY <2>1, <2>2
<1>13. CASE Finish
  <2>1. CASE writer
    <3>1. (json' \in Unreadable \/ json' \in Seq(Results)) /\ jsonSaved' \in BOOLEAN /\ UNCHANGED <<text, textSaved>>
      BY <1>0, <1>13, <2>1 DEF Finish, SaveJson, Write, DataTyped, Unreadable
    <3> QED BY <1>0, <1>13, <2>1, <3>1 DEF Finish, DataTyped
  <2>2. CASE ~ writer
    BY <1>0, <1>13, <2>2 DEF Finish, DataTyped, fileVars
  <2> QED BY <2>1, <2>2
<1>14. CASE Rewrite
  <2>1. (text' \in Unreadable \/ text' \in Seq(Results)) /\ textSaved' \in BOOLEAN /\ UNCHANGED <<json, jsonSaved>>
    BY <1>0, <1>14 DEF Rewrite, SaveText, Write, DataTyped, Unreadable
  <2> QED BY <1>0, <1>14, <2>1 DEF Rewrite, DataTyped
<1>15. CASE End
  BY <1>0, <1>15 DEF End, DataTyped, fileVars
<1>16. CASE UNCHANGED vars
  BY <1>0, <1>16 DEF vars, DataTyped, threadVars, fileVars
<1> QED
  BY <1>1, <1>2, <1>3, <1>4, <1>5, <1>6, <1>7, <1>8, <1>9, <1>10, <1>11, <1>12, <1>13, <1>14,
     <1>15, <1>16 DEF Next, ThreadStep

(* The thread leaves its loop without an exception only after a stop.      *)
LEMMA ControlStep == JsonInv /\ [Next]_vars => ControlInv'
<1> SUFFICES ASSUME FlagsTyped, DataTyped, ControlInv, [Next]_vars PROVE ControlInv'
  BY DEF JsonInv
<1> USE ResultsAreNumbers DEF ControlInv, InLoop, After, submitVars, threadVars, fileVars
<1>1. CASE Start
  BY <1>1 DEF Start
<1>2. CASE RequestStop
  BY <1>2 DEF RequestStop
<1>3. CASE Submit
  <2>1. next \in Results
    BY <1>3 DEF Submit, DataTyped, Results
  <2> QED BY <1>3, <2>1 DEF Submit
<1>4. CASE Offer \/ DropOldest
  BY <1>4 DEF Offer, Enqueue, DropOldest
<1>5. CASE Clear
  <2>1. textSaved' => text' \in Seq(Results)
    BY <1>5, EmptySeq DEF Clear, SaveText, Write
  <2> QED BY <1>5, <2>1 DEF Clear, Step
<1>6. CASE Create
  BY <1>6 DEF Create, Step, SaveJson
<1>7. CASE LeaveLoop
  BY <1>7 DEF LeaveLoop, Step
<1>8. CASE Poll
  <2>1. event' \in Results
    BY <1>8, HeadTailProperties DEF Poll, DataTyped
  <2> QED BY <1>8, <2>1 DEF Poll, Step
<1>9. CASE AppendEvent
  BY <1>9 DEF AppendEvent, Step, SaveJson
<1>10. CASE AppendText
  <2>1. textSaved' => text' \in Seq(Results)
    BY <1>10, AppendProperties DEF AppendText, SaveText, Write
  <2> QED BY <1>10, <2>1 DEF AppendText, Step
<1>11. CASE Drain
  BY <1>11 DEF Drain, Step, SaveJson
<1>12. CASE Finish
  BY <1>12 DEF Finish, Step, SaveJson
<1>13. CASE Rewrite \/ End
  BY <1>13 DEF Rewrite, End, Step
<1>14. CASE UNCHANGED vars
  BY <1>14 DEF vars
<1> QED
  BY <1>1, <1>2, <1>3, <1>4, <1>5, <1>6, <1>7, <1>8, <1>9, <1>10, <1>11, <1>12, <1>13, <1>14
  DEF Next, ThreadStep

LEMMA StopStep == JsonInv /\ [Next]_vars => StopInv'
<1> SUFFICES ASSUME FlagsTyped, ControlInv, StopInv, [Next]_vars PROVE StopInv'
  BY DEF JsonInv
<1> USE DEF StopInv, ControlInv, After, InLoop, submitVars, threadVars, fileVars
<1>1. CASE Start \/ RequestStop \/ Submit
  BY <1>1 DEF Start, RequestStop, Submit, FlagsTyped
<1>2. CASE Offer \/ DropOldest
  BY <1>2 DEF Offer, Enqueue, DropOldest
<1>3. CASE Clear \/ Create \/ LeaveLoop \/ Poll \/ AppendEvent
  BY <1>3 DEF Clear, Create, LeaveLoop, Poll, AppendEvent, Step
<1>4. CASE AppendText
  BY <1>4 DEF AppendText, Step, FlagsTyped
<1>5. CASE Drain
  BY <1>5 DEF Drain, Step
<1>6. CASE Finish \/ Rewrite
  BY <1>6 DEF Finish, Rewrite, Step
<1>7. CASE End
  BY <1>7 DEF End
<1>8. CASE UNCHANGED vars
  BY <1>8 DEF vars
<1> QED
  BY <1>1, <1>2, <1>3, <1>4, <1>5, <1>6, <1>7, <1>8 DEF Next, ThreadStep

(* A result in the queue is one of those kept. *)
LEMMA KeptTyped ==
    ASSUME DataTyped, ControlInv
    PROVE  /\ items \o InHand \in Seq(Results) /\ Kept = (items \o InHand) \o eventQueue
           /\ Kept \in Seq(Results)
<1>1. items \in Seq(Results) /\ InHand \in Seq(Results) /\ eventQueue \in Seq(Results)
  BY DEF DataTyped, ControlInv, InHand
<1>2. items \o InHand \in Seq(Results)
  BY <1>1, ConcatProperties
<1> QED BY <1>1, <1>2, ConcatProperties DEF Kept

(* What a step does to the kept results: nothing, a newer one at the end,  *)
(* or the head of the queue taken out, which is recorded as dropped if     *)
(* there is, or may still be, a writer.                                    *)
KeptSame == UNCHANGED <<Kept, accepted, dropped, next>>
KeptSkips == UNCHANGED <<Kept, accepted, dropped>> /\ next' = next + 1
KeptGrows ==
    /\ next \in Results /\ Kept' = Append(Kept, next)
    /\ accepted' = accepted \cup {next} /\ next' = next + 1 /\ UNCHANGED dropped
KeptLoses ==
    /\ eventQueue # <<>> /\ Kept' = (items \o InHand) \o Tail(eventQueue)
    /\ UNCHANGED <<accepted, next>>
    /\ \/ dropped' = dropped \cup {Head(eventQueue)}
       \/ UNCHANGED dropped /\ ~ writer' /\ failed'

LEMMA KeptMoves ==
    ASSUME JsonInv, [Next]_vars PROVE KeptSame \/ KeptSkips \/ KeptGrows \/ KeptLoses
<1>0. FlagsTyped /\ DataTyped /\ ControlInv
  BY DEF JsonInv
<1>1. /\ items \o InHand \in Seq(Results) /\ Kept = (items \o InHand) \o eventQueue
      /\ Kept \in Seq(Results) /\ items \in Seq(Results) /\ eventQueue \in Seq(Results)
  BY <1>0, KeptTyped DEF DataTyped
<1>2. ASSUME UNCHANGED <<items, eventQueue>>, InHand' = InHand PROVE Kept' = Kept
  BY <1>2 DEF Kept
<1> USE DEF submitVars, threadVars, fileVars
<1>3. CASE Start \/ RequestStop
  <2>1. InHand' = InHand
    BY <1>3 DEF Start, RequestStop, InHand
  <2> QED BY <1>2, <1>3, <2>1 DEF Start, RequestStop, KeptSame
<1>4. CASE Submit
  <2>1. InHand' = InHand
    BY <1>4 DEF Submit, InHand
  <2> QED BY <1>2, <1>4, <2>1 DEF Submit, KeptSame, KeptSkips
<1>5. CASE Offer
  <2>1. InHand' = InHand
    BY <1>5 DEF Offer, InHand
  <2>2. CASE Len(eventQueue) < QueueCapacity
    <3>1. next \in Results /\ eventQueue' = Append(eventQueue, next) /\ items' = items
      BY <1>0, <1>5, <2>2 DEF Offer, Enqueue, ControlInv
    <3>2. Kept' = Append(Kept, next)
      <4> DEFINE s == items \o InHand
      <4> HIDE DEF s
      <4>1. s \in Seq(Results) /\ Kept = s \o eventQueue /\ Kept' = s \o Append(eventQueue, next)
        BY <1>1, <2>1, <3>1 DEF Kept, s
      <4>2. Append(eventQueue, next) = eventQueue \o <<next>> /\ <<next>> \in Seq(Results)
        BY <1>1, <3>1, AppendIsConcat
      <4>3. s \o (eventQueue \o <<next>>) = (s \o eventQueue) \o <<next>>
        BY <1>1, <4>1, <4>2, ConcatAssociative
      <4>4. (s \o eventQueue) \o <<next>> = Append(s \o eventQueue, next)
        BY <1>1, <4>1, <3>1, AppendIsConcat
      <4> QED BY <4>1, <4>2, <4>3, <4>4
    <3> QED BY <1>5, <2>2, <3>1, <3>2 DEF Offer, Enqueue, KeptGrows
  <2>3. CASE ~(Len(eventQueue) < QueueCapacity)
    BY <1>2, <1>5, <2>1, <2>3 DEF Offer, KeptSame
  <2> QED BY <2>2, <2>3
<1>6. CASE DropOldest
  <2>1. InHand' = InHand /\ items' = items
    BY <1>6 DEF DropOldest, InHand
  <2>2. CASE eventQueue = <<>>
    BY <1>2, <1>6, <2>1, <2>2 DEF DropOldest, KeptSame
  <2>3. CASE eventQueue # <<>>
    BY <1>6, <2>1, <2>3 DEF DropOldest, KeptLoses, Kept
  <2> QED BY <2>2, <2>3
<1>7. CASE Clear \/ Create \/ LeaveLoop \/ AppendText \/ Finish \/ Rewrite \/ End
  <2>1. InHand' = InHand
    BY <1>7 DEF Clear, Create, LeaveLoop, AppendText, Finish, Rewrite, End, Step, InHand
  <2>2. UNCHANGED <<items, eventQueue, accepted, dropped, next>>
    BY <1>7 DEF Clear, Create, LeaveLoop, AppendText, Finish, Rewrite, End, Step
  <2> QED BY <1>2, <2>1, <2>2 DEF KeptSame
<1>8. CASE Poll
  <2>1. /\ eventQueue # <<>> /\ event' = Head(eventQueue) /\ eventQueue' = Tail(eventQueue)
        /\ items' = items /\ InHand = <<>> /\ InHand' = <<event'>>
        /\ UNCHANGED <<accepted, dropped, next>>
    BY <1>8 DEF Poll, Step, InHand
  <2>2. (items \o <<Head(eventQueue)>>) \o Tail(eventQueue) = items \o eventQueue
    BY <1>1, <2>1, HeadMoves
  <2>3. items \o <<>> = items
    BY <1>1, ConcatEmptySeq
  <2> QED BY <2>1, <2>2, <2>3 DEF Kept, KeptSame
<1>9. CASE AppendEvent
  <2>1. /\ items' = Append(items, event) /\ InHand = <<event>> /\ InHand' = <<>>
        /\ event \in Results /\ UNCHANGED <<eventQueue, accepted, dropped, next>>
    BY <1>0, <1>9 DEF AppendEvent, Step, InHand, ControlInv
  <2>2. Append(items, event) = items \o <<event>> /\ Append(items, event) \in Seq(Results)
    BY <1>1, <2>1, AppendIsConcat, AppendProperties
  <2>3. Append(items, event) \o <<>> = Append(items, event)
    BY <2>2, ConcatEmptySeq
  <2> QED BY <2>1, <2>2, <2>3 DEF Kept, KeptSame
<1>10. CASE Drain
  <2>1. InHand = <<>> /\ InHand' = <<>> /\ UNCHANGED <<accepted, dropped, next, writer, failed>>
    BY <1>10 DEF Drain, Step, InHand
  <2>2. CASE eventQueue = <<>>
    BY <1>2, <1>10, <2>1, <2>2 DEF Drain, KeptSame
  <2>3. CASE eventQueue # <<>> /\ writer
    <3>1. /\ eventQueue' = Tail(eventQueue) /\ items' = Append(items, Head(eventQueue))
          /\ Head(eventQueue) \in Results
      BY <1>1, <1>10, <2>3, HeadTailProperties DEF Drain
    <3>2. (items \o <<Head(eventQueue)>>) \o Tail(eventQueue) = items \o eventQueue
      BY <1>1, <2>3, HeadMoves
    <3>3. items' = items \o <<Head(eventQueue)>> /\ items' \in Seq(Results)
      BY <1>1, <3>1, AppendIsConcat, AppendProperties
    <3>4. items \o <<>> = items /\ items' \o <<>> = items'
      BY <1>1, <3>3, ConcatEmptySeq
    <3> QED BY <2>1, <3>1, <3>2, <3>3, <3>4 DEF Kept, KeptSame
  <2>4. CASE eventQueue # <<>> /\ ~ writer
    <3>1. failed /\ eventQueue' = Tail(eventQueue) /\ items' = items
      BY <1>0, <1>10, <2>4 DEF Drain, ControlInv, FlagsTyped
    <3> QED BY <2>1, <2>4, <3>1 DEF Kept, KeptLoses
  <2> QED BY <2>2, <2>3, <2>4
<1>11. CASE UNCHANGED vars
  <2>1. InHand' = InHand
    BY <1>11 DEF vars, InHand
  <2> QED BY <1>2, <1>11, <2>1 DEF vars, KeptSame
<1> QED
  BY <1>3, <1>4, <1>5, <1>6, <1>7, <1>8, <1>9, <1>10, <1>11 DEF Next, ThreadStep

(* A writer that exists, or may yet, existed or might before. *)
LEMMA WriterStays ==
    ASSUME JsonInv, [Next]_vars, writer' \/ ~ failed' PROVE writer \/ ~ failed
<1>0. ControlInv /\ FlagsTyped
  BY DEF JsonInv
<1> USE DEF ControlInv, InLoop, submitVars, threadVars, fileVars
<1>1. CASE Start \/ RequestStop \/ Submit \/ Offer \/ DropOldest \/ End \/ UNCHANGED vars
  BY <1>1 DEF Start, RequestStop, Submit, Offer, DropOldest, End, vars
<1>2. CASE Clear \/ Create \/ AppendText
  BY <1>0, <1>2 DEF Clear, Create, AppendText
<1>3. CASE LeaveLoop \/ Poll \/ AppendEvent \/ Drain \/ Finish \/ Rewrite
  BY <1>3 DEF LeaveLoop, Poll, AppendEvent, Drain, Finish, Rewrite
<1> QED
  BY <1>1, <1>2, <1>3 DEF Next, ThreadStep

LEMMA KeptStep == JsonInv /\ [Next]_vars => KeptInv'
<1> SUFFICES ASSUME JsonInv, [Next]_vars PROVE KeptInv'
  OBVIOUS
<1>0. /\ items \o InHand \in Seq(Results) /\ Kept = (items \o InHand) \o eventQueue
      /\ Kept \in Seq(Results) /\ eventQueue \in Seq(Results)
      /\ accepted \subseteq Results /\ dropped \subseteq accepted /\ next \in Nat
  BY KeptTyped, ResultsAreNumbers DEF JsonInv, DataTyped
<1>1. /\ Increasing(Kept) /\ ToSet(Kept) \subseteq accepted \ dropped
      /\ \A r \in accepted : r \in Nat /\ r < next
      /\ (writer \/ ~ failed => ToSet(Kept) = accepted \ dropped)
  BY <1>0, ResultsAreNumbers DEF JsonInv, KeptInv
<1>2. writer' \/ ~ failed' => writer \/ ~ failed
  BY WriterStays
<1>3. CASE KeptSame \/ KeptSkips
  <2>1. Kept' = Kept /\ accepted' = accepted /\ dropped' = dropped /\ next' >= next /\ next' \in Nat
    BY <1>0, <1>3 DEF KeptSame, KeptSkips
  <2>2. Increasing(Kept') /\ ToSet(Kept') = ToSet(Kept)
    BY <1>1, <2>1
  <2>3. \A r \in accepted' : r < next'
    BY <1>0, <1>1, <2>1
  <2> QED BY <1>1, <1>2, <2>1, <2>2, <2>3 DEF KeptInv
<1>4. CASE KeptGrows
  <2>1. \A r \in ToSet(Kept) : r < next
    BY <1>1
  <2>2. Increasing(Kept') /\ ToSet(Kept') = ToSet(Kept) \cup {next}
    BY <1>0, <1>1, <1>4, <2>1, AppendNewest DEF KeptGrows
  <2>3. next \notin accepted
    BY <1>0, <1>1
  <2>4. \A r \in accepted' : r < next'
    BY <1>0, <1>1, <1>4 DEF KeptGrows
  <2>5. accepted' = accepted \cup {next} /\ dropped' = dropped
    BY <1>4 DEF KeptGrows
  <2> QED BY <1>0, <1>1, <1>2, <2>2, <2>3, <2>4, <2>5 DEF KeptInv
<1>5. CASE KeptLoses
  <2>1. Increasing(Kept') /\ ToSet(Kept') = ToSet(Kept) \ {Head(eventQueue)}
    BY <1>0, <1>1, <1>5, TakeOut DEF KeptLoses
  <2>2. accepted' = accepted /\ next' = next
    BY <1>5 DEF KeptLoses
  <2>3. CASE dropped' = dropped \cup {Head(eventQueue)}
    BY <1>1, <1>2, <2>1, <2>2, <2>3 DEF KeptInv
  <2>4. CASE dropped' = dropped /\ ~ writer' /\ failed'
    BY <1>1, <2>1, <2>2, <2>4 DEF KeptInv
  <2> QED BY <1>5, <2>3, <2>4 DEF KeptLoses
<1> QED BY <1>3, <1>4, <1>5, KeptMoves

(* The items only grow, so a file written from them stays a prefix. *)
LEMMA PrefixGrows ==
    ASSUME NEW S, NEW s \in Seq(S), NEW e \in S
    PROVE  /\ IsPrefix(s, s) /\ IsPrefix(s, Append(s, e))
           /\ \A f \in Seq(S) : IsPrefix(f, s) => IsPrefix(f, Append(s, e))
<1>1. /\ Append(s, e) \in Seq(S) /\ Len(Append(s, e)) = Len(s) + 1 /\ Len(s) \in Nat
      /\ \A i \in 1..Len(s) : Append(s, e)[i] = s[i]
  BY AppendProperties, LenProperties
<1>2. IsPrefix(s, s)
  BY <1>1 DEF IsPrefix
<1>3. ASSUME NEW f \in Seq(S), IsPrefix(f, s) PROVE IsPrefix(f, Append(s, e))
  <2>1. Len(f) \in Nat /\ Len(f) <= Len(s) /\ SubSeq(f, 1, Len(f)) = SubSeq(s, 1, Len(f))
    BY <1>3, LenProperties DEF IsPrefix
  <2>2. SubSeq(Append(s, e), 1, Len(f)) = SubSeq(s, 1, Len(f))
    <3>1. \A i \in 1..Len(f) : Append(s, e)[i] = s[i] /\ s[i] \in S
      BY <1>1, <2>1, ElementOfSeq
    <3> QED BY <1>1, <2>1, <3>1
  <2> QED BY <1>1, <2>1, <2>2 DEF IsPrefix
<1> QED BY <1>2, <1>3

LEMMA FilesStep == JsonInv /\ [Next]_vars => FilesInv'
<1> SUFFICES ASSUME JsonInv, [Next]_vars PROVE FilesInv'
  OBVIOUS
<1>0. FlagsTyped /\ DataTyped /\ ControlInv /\ FilesInv
  BY DEF JsonInv
<1>1. items \in Seq(Results) /\ (json \in Unreadable \/ json \in Seq(Results))
  BY <1>0 DEF DataTyped
<1>2. \A e \in Results : json \notin Unreadable => IsPrefix(json, Append(items, e))
  BY <1>0, <1>1, PrefixGrows DEF FilesInv
<1>3. IsPrefix(items, items) /\ \A e \in Results : IsPrefix(Append(items, e), Append(items, e))
  <2>1. \A s \in Seq(Results) : IsPrefix(s, s)
    BY DEF IsPrefix
  <2> QED BY <1>1, <2>1, AppendProperties
<1> USE DEF FilesInv, submitVars, threadVars, fileVars
<1>4. CASE Start \/ RequestStop \/ Submit \/ Offer \/ DropOldest \/ LeaveLoop \/ Poll \/ End \/ UNCHANGED vars
  BY <1>0, <1>4 DEF Start, RequestStop, Submit, Offer, Enqueue, DropOldest, LeaveLoop, Poll, End, Step, vars
<1>5. CASE Clear
  BY <1>0, <1>5 DEF Clear, Step, SaveText
<1>6. CASE Create
  <2>1. items' = items /\ (json' = items \/ json' \in {Broken, json}) /\ json_pc' = "loop" /\ writer'
    BY <1>6 DEF Create, Step, SaveJson, Write
  <2> QED BY <1>0, <1>3, <2>1 DEF Unreadable
<1>7. CASE AppendEvent
  <2>1. /\ event \in Results /\ items' = Append(items, event) /\ json_pc' = "appendText" /\ writer'
        /\ json' = Append(items, event) \/ json' \in {Broken, json}
    BY <1>0, <1>7 DEF AppendEvent, Step, SaveJson, Write, ControlInv, InLoop
  <2> QED BY <1>2, <1>3, <2>1 DEF Unreadable
<1>8. CASE AppendText
  BY <1>0, <1>8 DEF AppendText, Step, SaveText
<1>9. CASE Drain
  <2>1. CASE eventQueue = <<>> \/ ~ writer
    BY <1>0, <1>9, <2>1 DEF Drain, Step
  <2>2. CASE eventQueue # <<>> /\ writer
    <3>1. Head(eventQueue) \in Results
      BY <1>0, <2>2, HeadTailProperties DEF DataTyped
    <3> DEFINE e == Head(eventQueue)
    <3> HIDE DEF e
    <3>2. /\ e \in Results /\ items' = Append(items, e) /\ json_pc' = "drain" /\ writer'
          /\ json' = Append(items, e) \/ json' \in {Broken, json}
      BY <1>9, <2>2, <3>1 DEF Drain, Step, SaveJson, Write, e
    <3> QED BY <1>2, <1>3, <3>2 DEF Unreadable
  <2> QED BY <2>1, <2>2
<1>10. CASE Finish
  <2>1. CASE writer
    <3>1. /\ items' = items /\ json_pc' = "rewrite" /\ writer' /\ (jsonSaved' => json' = items)
          /\ json' = items \/ json' \in {Broken, json}
      BY <1>10, <2>1 DEF Finish, Step, SaveJson, Write
    <3> QED BY <1>0, <1>3, <3>1 DEF Unreadable
  <2>2. CASE ~ writer
    BY <1>0, <1>10, <2>2 DEF Finish, Step
  <2> QED BY <2>1, <2>2
<1>11. CASE Rewrite
  <2>1. /\ json_pc = "rewrite" /\ json_pc' = "end" /\ UNCHANGED <<json, jsonSaved, items, writer>>
        /\ (textSaved' => text' = json)
    BY <1>11 DEF Rewrite, Step, SaveText, Write
  <2> QED BY <1>0, <2>1
<1> QED
  BY <1>4, <1>5, <1>6, <1>7, <1>8, <1>9, <1>10, <1>11 DEF Next, ThreadStep
-----------------------------------------------------------------------------
(* The parts together are kept by every step of submit(), requestStop() and *)
(* run().                                                                  *)
THEOREM JsonInvariant == Spec => []JsonInv
<1>1. JsonInv /\ [Next]_vars => JsonInv'
  BY FlagsStep, DataStep, ControlStep, StopStep, KeptStep, FilesStep DEF JsonInv
<1> QED BY <1>1, InitJson, PTL DEF Spec

LEMMA AccountedIfInvariant == JsonInv => EventsAccounted
<1> SUFFICES ASSUME JsonInv PROVE EventsAccounted
  OBVIOUS
<1>1. TypeOK
  BY Types DEF JsonInv
<1>2. \A i, k \in DOMAIN Kept : i < k => Kept[i] < Kept[k]
  BY DEF JsonInv, KeptInv, Increasing
<1>3. writer \/ ~ failed => ToSet(Kept) = accepted \ dropped
  BY DEF JsonInv, KeptInv
<1>4. ASSUME json_pc = "stopped", ~ failed, ~ overlap PROVE ToSet(items) = accepted \ dropped
  <2>1. eventQueue = <<>> /\ InHand = <<>>
    BY <1>4 DEF JsonInv, StopInv, After, InHand
  <2>2. items \in Seq(Results)
    BY DEF JsonInv, DataTyped
  <2>3. Kept = items
    BY <2>1, <2>2, ConcatEmptySeq DEF Kept
  <2> QED BY <1>3, <1>4, <2>3
<1> QED BY <1>1, <1>2, <1>3, <1>4 DEF EventsAccounted

(* The results the JSON thread keeps (the items of its writer, the one in  *)
(* its hand and the queue) are the accepted ones in order, less those a    *)
(* full queue dropped, and a stop outside of any submit() loses none: for  *)
(* every number of results and every queue capacity, whatever write fails. *)
THEOREM ResultsAccounted == Spec => []EventsAccounted
BY JsonInvariant, AccountedIfInvariant, PTL

(* A readable JSON file is always a prefix of the writer's items, and when *)
(* the last writes succeeded the JSON and the text file both hold every    *)
(* item, whatever earlier writes failed.                                   *)
THEOREM FilesAgreeInTheEnd == Spec => []FilesAgree
<1>1. JsonInv => FilesAgree
  BY DEF JsonInv, FilesInv, FilesAgree
<1> QED BY <1>1, JsonInvariant, PTL
=============================================================================
