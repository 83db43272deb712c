------------------------------ MODULE WhisperFft ------------------------------
(***************************************************************************)
(* The 400-point mixed-radix Fourier transform of the feature extraction   *)
(* (fft in whisper-feature-extractor.cpp).  The recursion is a stack; a    *)
(* step is a recursive call, a direct transform of a prime size, or the    *)
(* combination of the parts.  A call writes to one buffer and uses the     *)
(* other as scratch space, and its recursive calls change the two.         *)
(*                                                                         *)
(* The algorithm only adds and multiplies by powers of a root of unity, so *)
(* it is run on the integers modulo a prime with a 400th root of unity,    *)
(* where equality is exact.  The transform is linear: unit vectors are all *)
(* the inputs it needs.                                                    *)
(***************************************************************************)
EXTENDS Integers, Sequences, FiniteSetsExt

CONSTANTS
    Modulus,    \* a prime
    Roots,      \* fft_roots(): Roots[e] is the e-th power of a 400th root of unity
    Bases       \* the unit vectors that are transformed

FftSize == 400
FftPoints == 0..(FftSize - 1)

ASSUME FftAssumption ==
    /\ Roots \in [FftPoints -> 1..(Modulus - 1)] /\ Bases \subseteq FftPoints
    /\ \A e \in FftPoints : Roots[(e + 1) % FftSize] = (Roots[e] * Roots[1]) % Modulus

VARIABLES
    fft_pc,     \* "idle", "run", "done"
    basis,      \* the position of the one in the input
    stack,      \* the active calls of fft, the innermost last
    buffers     \* buffers[1] is fft_output, buffers[2] fft_scratch

fftVars == <<fft_pc, basis, stack, buffers>>

fft_factor(n) == IF n \in {400, 200, 100, 50} THEN 2 ELSE IF n = 25 THEN 5 ELSE n
fft_part_size(n) == n \div fft_factor(n)
fft_root_stride(n) == FftSize \div n

fft_root(n, exponent) == Roots[((exponent % n) * fft_root_stride(n)) % FftSize]

Filled(value) == <<[p \in FftPoints |-> value], [p \in FftPoints |-> value]>>
FftCall(first, stride, offset, n) ==
    [first |-> first, stride |-> stride, offset |-> offset, n |-> n, part |-> 0]

FftInit == fft_pc = "idle" /\ basis = 0 /\ stack = <<>> /\ buffers = Filled(0)

Fft(b) ==
    /\ fft_pc = "idle"
    /\ fft_pc' = "run" /\ basis' = b
    /\ stack' = <<FftCall(0, 1, 0, FftSize)>>
    /\ UNCHANGED buffers
-----------------------------------------------------------------------------
Depth == Len(stack)
Top == stack[Depth]

(* Bug: an even number of levels ends in the scratch buffer. *)
OutputSwapped == IF Depth % 2 = 1 THEN 2 ELSE 1

Output == IF Depth % 2 = 1 THEN 1 ELSE 2
Scratch == 3 - Output

(* The recursive call for the next part of call c. *)
PartOf(c) ==
    FftCall(c.first + c.part * c.stride, c.stride * fft_factor(c.n),
         c.offset + c.part * fft_part_size(c.n), fft_part_size(c.n))

(* The call on top writes value(k) for k in 0..n-1 and returns.            *)
WriteAndReturn(value(_)) ==
    /\ buffers' = [buffers EXCEPT ![Output] =
          [p \in FftPoints |-> IF p \in Top.offset..(Top.offset + Top.n - 1)
                            THEN value(p - Top.offset) % Modulus ELSE @[p]]]
    /\ stack' = SubSeq(stack, 1, Depth - 1)
    /\ UNCHANGED <<fft_pc, basis>>

Recurse ==
    /\ fft_pc = "run" /\ stack # <<>>
    /\ fft_factor(Top.n) # Top.n /\ Top.part < fft_factor(Top.n)
    /\ stack' = Append([stack EXCEPT ![Depth].part = @ + 1], PartOf(Top))
    /\ UNCHANGED <<fft_pc, basis, buffers>>

Direct ==
    LET input(t) == IF Top.first + t * Top.stride = basis THEN 1 ELSE 0
        value(k) == MapThenSumSet(LAMBDA t : input(t) * fft_root(Top.n, k * t), 0..(Top.n - 1))
    IN  /\ fft_pc = "run" /\ stack # <<>>
        /\ fft_factor(Top.n) = Top.n
        /\ WriteAndReturn(value)

Combine ==
    LET size == fft_part_size(Top.n)
        scratch(part, k) == buffers[Scratch][Top.offset + part * size + (k % size)]
        value(k) == MapThenSumSet(LAMBDA part : scratch(part, k) * fft_root(Top.n, part * k),
                                  0..(fft_factor(Top.n) - 1))
    IN  /\ fft_pc = "run" /\ stack # <<>>
        /\ fft_factor(Top.n) # Top.n /\ Top.part = fft_factor(Top.n)
        /\ WriteAndReturn(value)

FftEnd ==
    /\ fft_pc = "run" /\ stack = <<>>
    /\ fft_pc' = "done"
    /\ UNCHANGED <<basis, stack, buffers>>

(* The buffers are those of the next frame, which finds them used.  Bound: *)
(* one content stands for all that a frame can leave in them.              *)
FftReturn ==
    /\ fft_pc = "done"
    /\ fft_pc' = "idle" /\ basis' = 0 /\ buffers' = Filled(1)
    /\ UNCHANGED stack

FftNext ==
    \/ fft_pc = "idle" /\ \E b \in Bases : Fft(b)
    \/ Recurse \/ Direct \/ Combine \/ FftEnd \/ FftReturn
-----------------------------------------------------------------------------
(* The result is the discrete Fourier transform of the input.              *)
FftIsDft == fft_pc = "done" => \A k \in FftPoints : buffers[1][k] = Roots[(basis * k) % FftSize]
===============================================================================
