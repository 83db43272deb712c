----------------------------- MODULE UtfConverter -----------------------------
(***************************************************************************)
(* The two conversions between Java's UTF-16 and the engine's UTF-8        *)
(* (utf-converter.cpp).  A step is one iteration of one of the two loops.  *)
(* A session converts a Java text to bytes and these bytes back, or starts *)
(* with bytes an engine returned, which may end in the middle of a         *)
(* character or be no UTF-8 at all.  Shifts and masks are quotients and    *)
(* remainders by powers of two.                                            *)
(***************************************************************************)
EXTENDS Integers, Sequences, SequencesExt

CONSTANTS JavaTexts,    \* sequences of UTF-16 units
          EngineTexts   \* sequences of bytes

(* The ranges of code points begin at multiples of 1024 = 0x400. *)
K(n) == n * 1024

Unit == {u \in Nat : u < K(64)}    \* up to 0xFFFF
Byte == {b \in Nat : b < 256}

ASSUME UtfAssumption == JavaTexts \subseteq Seq(Unit) /\ EngineTexts \subseteq Seq(Byte)

VARIABLES
    utf_pc,     \* "idle", "encode", "decode", "done"
    java_text,  \* the Java text, or <<>> when the bytes came from an engine
    utf8_text,  \* the UTF-8 bytes
    index,      \* of the loop, from 1
    units       \* the output of the second conversion

utfVars == <<utf_pc, java_text, utf8_text, index, units>>

replacement_character == K(64) - 3  \* 0xFFFD
High(u) == u >= K(54) /\ u < K(55) \* 0xD800..0xDBFF
Low(u) == u >= K(55) /\ u < K(56)  \* 0xDC00..0xDFFF

append_utf16(point) ==
    IF point < K(64) THEN <<point>>
    ELSE <<K(54) + (point - K(64)) \div 1024, K(55) + ((point - K(64)) % 1024)>>

Tail6(n) == 128 + (n % 64)            \* 0x80 | (n & 0x3F)

append_utf8(point) ==
    CASE point <= 127 -> <<point>>
      [] point >= 128 /\ point < 2048 -> <<192 + point \div 64, Tail6(point)>>
      [] point >= 2048 /\ point < K(64) ->
            <<224 + point \div K(4), Tail6(point \div 64), Tail6(point)>>
      [] OTHER -> <<240 + point \div K(256), Tail6(point \div K(4)), Tail6(point \div 64),
                    Tail6(point)>>

is_continuation(b) == b >= 128 /\ b < 192

UtfInit ==
    /\ utf_pc = "idle" /\ java_text = <<>> /\ utf8_text = <<>> /\ index = 1 /\ units = <<>>

(* A Java text is passed to an engine, a text of an engine to Java.        *)
FromJava(t) ==
    /\ utf_pc = "idle"
    /\ utf_pc' = "encode" /\ java_text' = t
    /\ UNCHANGED <<utf8_text, index, units>>

FromEngine(t) ==
    /\ utf_pc = "idle"
    /\ utf_pc' = "decode" /\ utf8_text' = t
    /\ UNCHANGED <<java_text, index, units>>
-----------------------------------------------------------------------------
(* utf16_to_utf8_replacing_invalid *)

(* Bug: a high surrogate takes the next unit, whatever it is.              *)
PairedWithAny(t, k) == High(t[k]) /\ k < Len(t)

Paired(t, k) == High(t[k]) /\ k < Len(t) /\ Low(t[k + 1])

PointAt(t, k) ==
    IF Paired(t, k) THEN K(64) + K(t[k] - K(54)) + (t[k + 1] - K(55))
    ELSE IF High(t[k]) \/ Low(t[k]) THEN replacement_character
    ELSE t[k]

EncodeUnit ==
    /\ utf_pc = "encode" /\ index <= Len(java_text)
    /\ utf8_text' = utf8_text \o append_utf8(PointAt(java_text, index))
    /\ index' = index + (IF Paired(java_text, index) THEN 2 ELSE 1)
    /\ UNCHANGED <<utf_pc, java_text, units>>

EncodeEnd ==
    /\ utf_pc = "encode" /\ index > Len(java_text)
    /\ utf_pc' = "decode" /\ index' = 1
    /\ UNCHANGED <<java_text, utf8_text, units>>
-----------------------------------------------------------------------------
(* utf8_to_utf16_replacing_invalid *)

(* 0 for a byte that begins no sequence. *)
sequence_length(first) ==
    CASE first <= 127 -> 1
      [] first >= 194 /\ first < 224 -> 2
      [] first >= 224 /\ first < 240 -> 3
      [] first >= 240 /\ first <= 244 -> 4
      [] OTHER -> 0

(* The first byte and the continuation bytes after it, n at most.          *)
valid_length(k, n) ==
    CHOOSE v \in 1..n :
        /\ \A j \in 1..(v - 1) : k + j <= Len(utf8_text) /\ is_continuation(utf8_text[k + j])
        /\ v < n => ~ (k + v <= Len(utf8_text) /\ is_continuation(utf8_text[k + v]))

(* Bug: surrogates are accepted. *)
SurrogatesAccepted(first, second) ==
    \/ first = 224 /\ second < 160
    \/ first = 240 /\ second < 144
    \/ first = 244 /\ second > 143

(* Too long a form, a surrogate, or beyond the last code point.            *)
invalid_range(first, second) ==
    \/ first = 224 /\ second < 160
    \/ first = 237 /\ second > 159
    \/ first = 240 /\ second < 144
    \/ first = 244 /\ second > 143

Low6(k) == utf8_text[k] % 64

(* The code point of the n bytes at k. *)
Decoded(k, n) ==
    CASE n = 1 -> utf8_text[k]
      [] n = 2 -> (utf8_text[k] % 32) * 64 + Low6(k + 1)
      [] n = 3 -> K(4 * (utf8_text[k] % 16)) + Low6(k + 1) * 64 + Low6(k + 2)
      [] n = 4 -> K(256 * (utf8_text[k] % 8) + 4 * Low6(k + 1)) + Low6(k + 2) * 64 + Low6(k + 3)

Emit(point, n) ==
    /\ units' = units \o append_utf16(point)
    /\ index' = index + n
    /\ UNCHANGED <<utf_pc, java_text, utf8_text>>

(* Bug: the bytes a sequence should have had are skipped. *)
SkipWhole(v, n) == n

(* How far to go on after an incomplete sequence. *)
Skip(v, n) == v

DecodeBadLead ==
    /\ utf_pc = "decode" /\ index <= Len(utf8_text)
    /\ sequence_length(utf8_text[index]) = 0
    /\ Emit(replacement_character, 1)

DecodeIncomplete ==
    /\ utf_pc = "decode" /\ index <= Len(utf8_text)
    /\ LET n == sequence_length(utf8_text[index])
           v == valid_length(index, n)
       IN  n > 0 /\ v # n /\ Emit(replacement_character, Skip(v, n))

DecodeBadRange ==
    /\ utf_pc = "decode" /\ index <= Len(utf8_text)
    /\ LET n == sequence_length(utf8_text[index])
       IN  /\ n > 1 /\ valid_length(index, n) = n
           /\ invalid_range(utf8_text[index], utf8_text[index + 1])
           /\ Emit(replacement_character, n)

DecodePoint ==
    /\ utf_pc = "decode" /\ index <= Len(utf8_text)
    /\ LET n == sequence_length(utf8_text[index])
       IN  /\ n > 0 /\ valid_length(index, n) = n
           /\ n > 1 => ~ invalid_range(utf8_text[index], utf8_text[index + 1])
           /\ Emit(Decoded(index, n), n)

DecodeEnd ==
    /\ utf_pc = "decode" /\ index > Len(utf8_text)
    /\ utf_pc' = "done"
    /\ UNCHANGED <<java_text, utf8_text, index, units>>
-----------------------------------------------------------------------------
(* The texts go back to their callers; the buffers are local.              *)
UtfReturn ==
    /\ utf_pc = "done"
    /\ utf_pc' = "idle" /\ java_text' = <<>> /\ utf8_text' = <<>> /\ index' = 1 /\ units' = <<>>

UtfNext ==
    \/ utf_pc = "idle" /\ \E t \in JavaTexts : FromJava(t)
    \/ utf_pc = "idle" /\ \E t \in EngineTexts : FromEngine(t)
    \/ EncodeUnit \/ EncodeEnd
    \/ DecodeBadLead \/ DecodeIncomplete \/ DecodeBadRange \/ DecodePoint \/ DecodeEnd
    \/ UtfReturn

UtfSpec == UtfInit /\ [][UtfNext]_utfVars
-----------------------------------------------------------------------------
UtfTypeOK ==
    /\ utf_pc \in {"idle", "encode", "decode", "done"}
    /\ java_text \in Seq(Unit) /\ utf8_text \in Seq(Byte) /\ units \in Seq(Unit)
    /\ index \in Nat \ {0}

(* Whatever bytes an engine returns, Java receives no half of a surrogate  *)
(* pair.                                                                   *)
UnitsWellFormed ==
    \A k \in 1..Len(units) :
        /\ High(units[k]) => k < Len(units) /\ Low(units[k + 1])
        /\ Low(units[k]) => k > 1 /\ High(units[k - 1])

(* A Java text comes back as it was, but for halves of surrogate pairs,    *)
(* each of which has become one replacement character.                     *)
RoundTrip ==
    LET second(k) == k > 1 /\ Paired(java_text, k - 1)
        lone(k) == (High(java_text[k]) /\ ~ Paired(java_text, k)) \/ (Low(java_text[k]) /\ ~ second(k))
    IN  utf_pc = "done" /\ java_text # <<>> =>
            units = [k \in 1..Len(java_text) |->
                        IF lone(k) THEN replacement_character ELSE java_text[k]]

Scalar(point) == point \in Nat /\ point < K(1088) /\ ~ High(point) /\ ~ Low(point)

(* The characters that stand in the bytes: a place where the encoding of   *)
(* some code point begins.                                                 *)
CharacterAt(k) ==
    LET whole == {n \in 1..4 : /\ k + n - 1 <= Len(utf8_text)
                               /\ Scalar(Decoded(k, n))
                               /\ append_utf8(Decoded(k, n)) = SubSeq(utf8_text, k, k + n - 1)}
    IN  IF whole = {} THEN <<>>
        ELSE append_utf16(Decoded(k, CHOOSE n \in whole : TRUE))

Replaced(u) == u = replacement_character

(* Broken bytes never take a whole character with them: without the        *)
(* replacement characters the output is what the encodings of characters   *)
(* in the bytes stand for, in their order.                                 *)
NoCharacterLost ==
    LET kept(s) == SelectSeq(s, LAMBDA u : ~ Replaced(u))
    IN  utf_pc = "done" =>
            kept(units) = kept(FlattenSeq([k \in 1..Len(utf8_text) |-> CharacterAt(k)]))
=============================================================================
