---------------------------- MODULE WhisperTokens ----------------------------
(***************************************************************************)
(* The byte-level tokens of the CTranslate2 engine: a prompt is turned     *)
(* into tokens (WhisperPromptTokenizer::encode), tokens of the engine are  *)
(* turned into text (decode_whisper_tokens).  Each byte stands for a       *)
(* printable character of the vocabulary; pairs of pieces are merged in    *)
(* the order of their ranks.  A step is one pass of the outer loop or one  *)
(* iteration of the inner one.  A piece is the sequence of its bytes.      *)
(***************************************************************************)
EXTENDS Integers, Sequences, FiniteSets, SequencesExt

CONSTANTS
    Prompts,        \* sequences of bytes
    Merges,         \* merge_ranks_: the pairs of pieces, in the order of their ranks
    Vocabulary,     \* the pieces the model knows
    MaxTokens       \* max_tokens of the callers, a set

ASSUME TokensAssumption ==
    /\ Prompts \subseteq Seq(0..255) /\ MaxTokens \subseteq Nat
    /\ \A k \in 1..Len(Merges) : Merges[k] = <<Merges[k][1], Merges[k][2]>>

VARIABLES
    tok_pc,     \* "idle", "merge" (outer loop), "pass" (inner loop), "check", "done", "error"
    prompt,     \* the text
    max_tokens,
    pieces,
    pass        \* inner loop: [left, right, index]

tokVars == <<tok_pc, prompt, max_tokens, pieces, pass>>

NoPass == [left |-> <<>>, right |-> <<>>, index |-> 0]
-----------------------------------------------------------------------------
Printable == (33..126) \cup (161..172) \cup (174..255)
Extra == 0..255 \ Printable

(* make_byte_encoder: a printable byte is its own code point, the others   *)
(* are numbered from 256 on.                                               *)
CodePoint(byte) ==
    IF byte \in Printable THEN byte ELSE 256 + Cardinality({e \in Extra : e < byte})

(* utf8_from_code_point, up to the 323 code points in use *)
Utf8(point) == IF point <= 127 THEN <<point>> ELSE <<192 + point \div 64, 128 + (point % 64)>>

(* byte_decoder: the code points from 256 on are the bytes 0 to 32, 127 to *)
(* 160 and 173, in this order; others stand for no byte.                   *)
ByteOf(point) ==
    CASE point \in Printable -> <<point>>
      [] point \in 256..288 -> <<point - 256>>
      [] point \in 289..322 -> <<point - 162>>
      [] point = 323 -> <<173>>
      [] OTHER -> <<>>

(* utf8_code_points: s is what was read so far, the code points and the    *)
(* open one with the bytes it still waits for.  Bytes are not validated,   *)
(* and a text may end in the middle of a code point.                       *)
ReadByte(s, b) ==
    LET trailing == IF b < 128 THEN 0 ELSE IF b < 224 THEN 1 ELSE IF b < 240 THEN 2 ELSE 3
        open == IF s.trailing > 0
                THEN [s EXCEPT !.point = @ * 64 + (b % 64), !.trailing = @ - 1]
                ELSE [s EXCEPT !.point = b % 2^(7 - trailing), !.trailing = trailing]
    IN  IF open.trailing > 0 THEN open ELSE [open EXCEPT !.points = Append(@, open.point)]
CodePoints(piece) ==
    LET read == FoldLeft(ReadByte, [points |-> <<>>, point |-> 0, trailing |-> 0], piece)
    IN  IF read.trailing > 0 THEN Append(read.points, read.point) ELSE read.points

(* "<|...": a control token of the engine *)
IsControl(piece) == Len(piece) >= 4 /\ piece[1] = 60 /\ piece[2] = 124

(* decode_whisper_tokens *)
Decode(tokens) ==
    FlattenSeq([k \in 1..Len(tokens) |->
        IF IsControl(tokens[k]) THEN <<>>
        ELSE FlattenSeq([j \in 1..Len(CodePoints(tokens[k])) |->
                             ByteOf(CodePoints(tokens[k])[j])])])
-----------------------------------------------------------------------------
TokInit ==
    /\ tok_pc = "idle" /\ prompt = <<>> /\ max_tokens = 0 /\ pieces = <<>> /\ pass = NoPass

(* encode: an empty text or no room for tokens gives none. *)
Encode(t, n) ==
    /\ tok_pc = "idle"
    /\ prompt' = t /\ max_tokens' = n
    /\ IF t = <<>> \/ n = 0
       THEN tok_pc' = "done" /\ pieces' = <<>>
       ELSE tok_pc' = "merge" /\ pieces' = [k \in 1..Len(t) |-> Utf8(CodePoint(t[k]))]
    /\ UNCHANGED pass

(* The rank of the pair at k, beyond all ranks if it is not merged. *)
Rank(k) ==
    LET found == {r \in 1..Len(Merges) : Merges[r] = <<pieces[k], pieces[k + 1]>>}
    IN  IF found = {} THEN Len(Merges) + 1 ELSE CHOOSE r \in found : \A q \in found : r <= q

Mergeable(k) == Rank(k) <= Len(Merges)
Pairs == 1..(Len(pieces) - 1)

(* The outer loop: the pair of the lowest rank is merged everywhere.       *)
ChoosePair ==
    /\ tok_pc = "merge"
    /\ \E k \in Pairs :
          /\ Mergeable(k) /\ \A j \in Pairs : Rank(k) <= Rank(j)
          /\ pass' = [left |-> pieces[k], right |-> pieces[k + 1], index |-> 1]
    /\ tok_pc' = "pass"
    /\ UNCHANGED <<prompt, max_tokens, pieces>>

NothingToMerge ==
    /\ tok_pc = "merge" /\ \A k \in Pairs : ~ Mergeable(k)
    /\ tok_pc' = "check"
    /\ UNCHANGED <<prompt, max_tokens, pieces, pass>>

(* Bug: the right piece is erased before it is joined to the left one, so  *)
(* that the left one grows by whatever follows.                            *)
MergedAfterErase(k) ==
    LET rest == RemoveAt(pieces, k + 1)
    IN  IF k + 1 <= Len(rest) THEN [rest EXCEPT ![k] = @ \o rest[k + 1]] ELSE rest

Merged(k) == RemoveAt([pieces EXCEPT ![k] = @ \o pieces[k + 1]], k + 1)

MergePass ==
    LET k == pass.index
    IN  /\ tok_pc = "pass"
        /\ IF k \notin Pairs
           THEN tok_pc' = "merge" /\ pass' = NoPass /\ UNCHANGED pieces
           ELSE /\ IF pieces[k] = pass.left /\ pieces[k + 1] = pass.right
                   THEN pieces' = Merged(k) /\ UNCHANGED pass
                   ELSE pass' = [pass EXCEPT !.index = k + 1] /\ UNCHANGED pieces
                /\ UNCHANGED tok_pc
        /\ UNCHANGED <<prompt, max_tokens>>

LastTokens(n) == SubSeq(pieces, Len(pieces) - n + 1, Len(pieces))

(* A piece that is no token is an error; of too many the last are kept.    *)
CheckVocabulary ==
    /\ tok_pc = "check"
    /\ IF \E k \in 1..Len(pieces) : pieces[k] \notin Vocabulary
       THEN tok_pc' = "error" /\ UNCHANGED pieces
       ELSE /\ tok_pc' = "done"
            /\ pieces' = IF Len(pieces) > max_tokens THEN LastTokens(max_tokens) ELSE pieces
    /\ UNCHANGED <<prompt, max_tokens, pass>>

TokReturn ==
    /\ tok_pc \in {"done", "error"}
    /\ tok_pc' = "idle" /\ prompt' = <<>> /\ max_tokens' = 0 /\ pieces' = <<>> /\ pass' = NoPass

TokNext ==
    \/ tok_pc = "idle" /\ \E t \in Prompts, n \in MaxTokens : Encode(t, n)
    \/ ChoosePair \/ NothingToMerge \/ MergePass \/ CheckVocabulary
    \/ TokReturn
-----------------------------------------------------------------------------
(* At every step of the merging, and after the last tokens were chosen,    *)
(* decoding the pieces gives the prompt, or its end; the merging ends with *)
(* nothing left to merge and no more tokens than were asked for.  (A       *)
(* prompt that holds the text of a control token is left out: decoding     *)
(* drops it.)                                                              *)
TokensKeepText ==
    LET decoded == Decode(pieces)
    IN  (\A k \in 1..Len(pieces) : ~ IsControl(pieces[k])) =>
            /\ tok_pc \in {"merge", "pass", "check", "error"} => decoded = prompt
            /\ tok_pc = "done" =>
                  /\ IsSuffix(decoded, prompt)
                  /\ Len(pieces) < max_tokens => decoded = prompt
                  /\ Len(pieces) <= max_tokens /\ \A k \in Pairs : ~ Mergeable(k)
=============================================================================
