------------------------ MODULE PcmRingBufferProofs ------------------------
(***************************************************************************)
(* DirectPcm16RingBuffer for every capacity, sample set and source length: *)
(* type correctness, the window handed to native code, and the refinement  *)
(* of the bounded FIFO.                                                    *)
(***************************************************************************)
EXTENDS PcmRingBuffer, SequenceTheorems, TLAPS

(* A position at most one lap ahead wraps by at most one subtraction: the  *)
(* arithmetic behind tailSample and the head of discardFirst.              *)
LEMMA Wrap ==
    ASSUME NEW a \in Nat, a < 2 * Capacity
    PROVE  a % Capacity = IF a < Capacity THEN a ELSE a - Capacity
<1>1. CASE a < Capacity
  BY <1>1, CapacityAssumption, SMT
<1>2. CASE a >= Capacity
  BY <1>2, CapacityAssumption, SMT
<1> QED
  BY <1>1, <1>2, CapacityAssumption

(* A source buffer is a sequence of samples. *)
LEMMA SourceType ==
    ASSUME NEW src \in Sources
    PROVE  src \in Seq(Sample) /\ Len(src) \in Nat
<1>1. PICK k \in 0..MaxSource : src \in [1..k -> Sample]
  BY DEF Sources
<1>2. src \in Seq(Sample)
  BY <1>1, MaxSourceAssumption
<1> QED
  BY <1>2

(* copyBytes keeps the storage a buffer of samples when the copied range   *)
(* lies within the source.                                                 *)
LEMMA CopyType ==
    ASSUME NEW src \in Seq(Sample), NEW so \in Nat, NEW do \in Slots, NEW n \in Nat,
           so + n <= Len(src), NEW dst \in [Slots -> Sample]
    PROVE  CopyBytes(src, so, dst, do, n) \in [Slots -> Sample]
BY CapacityAssumption DEF CopyBytes, Slots

(* The slot an append writes for the k-th new sample: the two copies of    *)
(* append together write src[k] at the k-th position after the tail and    *)
(* touch nothing else.                                                     *)
LEMMA AppendStorage ==
    ASSUME TypeOK, NEW src \in Seq(Sample), NEW n \in 0..Len(src),
           n <= Capacity - sizeSamples, AppendSamples(src, n)
    PROVE  /\ storage' \in [Slots -> Sample]
           /\ headSample' = headSample
           /\ sizeSamples' = sizeSamples + n
           /\ result' = "returned"
           /\ \A k \in 0..(sizeSamples - 1) :
                 storage'[(headSample + k) % Capacity] = storage[(headSample + k) % Capacity]
           /\ \A k \in 1..n :
                 storage'[(headSample + sizeSamples + k - 1) % Capacity] = src[k]
<1> DEFINE t == (headSample + sizeSamples) % Capacity
           f == Smaller(n, Capacity - t)
           mid == CopyBytes(src, 0, storage, t, f)
<1>0. /\ n \in Nat /\ Len(src) \in Nat /\ headSample \in Nat /\ sizeSamples \in Nat
      /\ Capacity \in Nat /\ Capacity > 0
      /\ headSample < Capacity /\ sizeSamples <= Capacity
      /\ storage \in [Slots -> Sample]
  BY CapacityAssumption DEF TypeOK, Slots
<1>1. /\ storage' = CopyBytes(src, f, mid, 0, n - f)
      /\ headSample' = headSample
      /\ sizeSamples' = sizeSamples + n
      /\ result' = "returned"
  BY DEF AppendSamples
<1>2. CASE sizeSamples = Capacity
  <2>1. n = 0
    BY <1>0, <1>2
  <2>2. t \in Slots
    BY <1>0 DEF Slots
  <2>3. f = 0 /\ n - f = 0
    BY <2>1, <2>2, <1>0 DEF Smaller, Slots
  <2>4. mid = storage
    BY <2>2, <2>3, <1>0 DEF CopyBytes, Slots
  <2>5. storage' = storage
    BY <1>1, <2>3, <2>4, <1>0 DEF CopyBytes, Slots
  <2> QED
    BY <1>0, <1>1, <2>1, <2>5
<1>3. CASE sizeSamples < Capacity
  <2>1. t = IF headSample + sizeSamples < Capacity THEN headSample + sizeSamples
            ELSE headSample + sizeSamples - Capacity
    BY <1>0, <1>3, Wrap
  <2>2. t \in Nat /\ t < Capacity /\ t \in Slots
    BY <2>1, <1>0, <1>3 DEF Slots
  <2>3. f \in Nat /\ f <= n /\ n - f \in Nat /\ t + f <= Capacity
        /\ (n - f > 0 => t + f = Capacity)
    BY <2>2, <1>0 DEF Smaller
  <2>4. mid \in [Slots -> Sample]
    <3>1. 0 + f <= Len(src)
      BY <2>3, <1>0
    <3> HIDE DEF t, f
    <3> QED
      BY <2>2, <2>3, <3>1, <1>0, CopyType
  <2>5. storage' \in [Slots -> Sample]
    BY <1>1, <2>3, <2>4, <1>0, CopyType DEF Slots
  <2>6. \A i \in Slots : storage'[i] =
           IF i < n - f THEN src[f + i + 1]
           ELSE IF t <= i /\ i < t + f THEN src[i - t + 1] ELSE storage[i]
    <3>1. \A i \in Slots : mid[i] = IF t <= i /\ i < t + f THEN src[i - t + 1] ELSE storage[i]
      BY <2>2, <2>3, <1>0 DEF CopyBytes, Slots
    <3>2. \A i \in Slots : storage'[i] = IF i < n - f THEN src[f + i + 1] ELSE mid[i]
      <4> HIDE DEF mid, f, t
      <4> QED
        BY SMTT(30), <1>1, <2>3, <1>0 DEF CopyBytes, Slots
    <3> QED
      BY <3>1, <3>2
  <2> HIDE DEF t, f, mid
  <2>7. ASSUME NEW k \in 0..(sizeSamples - 1)
        PROVE  storage'[(headSample + k) % Capacity] = storage[(headSample + k) % Capacity]
    <3>1. (headSample + k) % Capacity = IF headSample + k < Capacity THEN headSample + k
                                        ELSE headSample + k - Capacity
      BY <1>0, Wrap
    <3> DEFINE p == (headSample + k) % Capacity
    <3>2. p \in Slots /\ ~(p < n - f) /\ ~(t <= p /\ p < t + f)
      BY <3>1, <2>1, <2>2, <2>3, <1>0 DEF Slots
    <3> HIDE DEF p
    <3>3. storage'[p] = storage[p]
      BY <3>2, <2>6
    <3> QED
      BY <3>3 DEF p
  <2>8. ASSUME NEW k \in 1..n
        PROVE  storage'[(headSample + sizeSamples + k - 1) % Capacity] = src[k]
    <3>1. (headSample + sizeSamples + k - 1) % Capacity =
             IF headSample + sizeSamples + k - 1 < Capacity THEN headSample + sizeSamples + k - 1
             ELSE headSample + sizeSamples + k - 1 - Capacity
      BY <1>0, Wrap
    <3> DEFINE p == (headSample + sizeSamples + k - 1) % Capacity
    <3>2. p \in Nat /\ p < Capacity /\ p \in Slots
      BY <3>1, <1>0, <1>3 DEF Slots
    <3>3. p = t + k - 1 \/ p = t + k - 1 - Capacity
      BY <3>1, <2>1, <1>0
    <3> HIDE DEF p
    <3>4. CASE k <= f
      <4>1. p = t + k - 1 /\ t <= p /\ p < t + f /\ p - t + 1 = k /\ p >= n - f
        BY <3>2, <3>3, <3>4, <2>1, <2>2, <2>3, <1>0
      <4> QED
        BY <4>1, <3>2, <2>3, <2>6, <1>0 DEF p
    <3>5. CASE k > f
      <4>1. p < n - f /\ f + p + 1 = k
        BY <3>2, <3>3, <3>5, <2>2, <2>3, <1>0
      <4> QED
        BY <4>1, <3>2, <2>6 DEF p
    <3>6. k <= f \/ k > f
      BY <2>3
    <3> QED
      BY <3>4, <3>5, <3>6, Zenon
  <2> QED
    BY <2>5, <2>7, <2>8, <1>1
<1>4. sizeSamples = Capacity \/ sizeSamples < Capacity
  BY <1>0
<1> QED
  BY <1>2, <1>3, <1>4, Zenon

(* TypeOK: the head stays in the storage and the size within capacity. *)
THEOREM TypeCorrect == Spec => []TypeOK
<1>1. Init => TypeOK
  <2>0. 0 \in Counts /\ <<>> \in Sources
    BY CapacityAssumption, MaxSourceAssumption DEF Sources, Counts
  <2>1. NoCall \in Calls
    BY <2>0 DEF NoCall, Calls
  <2> QED
    BY <2>1, CapacityAssumption, SampleAssumption DEF Init, TypeOK, Slots
<1>2. TypeOK /\ [Next]_vars => TypeOK'
  <2> SUFFICES ASSUME TypeOK, [Next]_vars PROVE TypeOK'
    OBVIOUS
  <2>0. 0 \in Counts /\ <<>> \in Sources
    BY CapacityAssumption, MaxSourceAssumption DEF Sources, Counts
  <2>1. ASSUME NEW src \in Sources, NEW n \in Counts, AppendSamples(src, n)
        PROVE  TypeOK'
    <3>0. call' \in Calls
      BY <2>1 DEF AppendSamples, Calls
    <3>1. CASE n \in 0..Len(src) /\ n <= Capacity - sizeSamples
      <4>1. storage' \in [Slots -> Sample] /\ headSample' = headSample
            /\ sizeSamples' = sizeSamples + n /\ result' = "returned"
        BY <2>1, <3>1, SourceType, AppendStorage
      <4> QED
        BY <3>0, <4>1, <3>1, CapacityAssumption DEF TypeOK, Slots, Counts
    <3>2. CASE ~(n \in 0..Len(src) /\ n <= Capacity - sizeSamples)
      BY <2>1, <3>0, <3>2 DEF AppendSamples, Throw, TypeOK, Slots
    <3> QED
      BY <3>1, <3>2
  <2>2. ASSUME NEW n \in Counts, DiscardFirst(n)
        PROVE  TypeOK'
    <3>0. call' \in Calls
      BY <2>0, <2>2 DEF DiscardFirst, Calls
    <3>1. CASE n \in 0..sizeSamples
      <4>1. (headSample + n) % Capacity \in Slots
        BY <3>1, CapacityAssumption DEF TypeOK, Slots
      <4> QED
        BY <2>2, <3>0, <3>1, <4>1, CapacityAssumption DEF DiscardFirst, TypeOK, Slots
    <3>2. CASE n \notin 0..sizeSamples
      BY <2>2, <3>0, <3>2 DEF DiscardFirst, Throw, TypeOK, Slots
    <3> QED
      BY <3>1, <3>2
  <2>3. CASE Clear
    <3>1. call' \in Calls
      BY <2>0, <2>3 DEF Clear, Calls
    <3> QED
      BY <2>3, <3>1, CapacityAssumption DEF Clear, TypeOK, Slots
  <2>4. CASE UNCHANGED vars
    BY <2>4 DEF vars, TypeOK, Slots
  <2> QED
    BY <2>1, <2>2, <2>3, <2>4 DEF Next
<1> QED
  BY <1>1, <1>2, PTL DEF Spec

(* The samples held form a sequence of sizeSamples samples. *)
LEMMA ContentsType ==
    ASSUME TypeOK
    PROVE  Contents \in Seq(Sample) /\ Len(Contents) = sizeSamples
<1>1. \A i \in 1..sizeSamples : (headSample + i - 1) % Capacity \in Slots
  BY CapacityAssumption, Wrap DEF TypeOK, Slots
<1> QED
  BY <1>1, CapacityAssumption DEF Contents, TypeOK

(* WindowIsOldest for every window length: a type-correct ring gives       *)
(* native code exactly the oldest samples, without leaving the storage.    *)
LEMMA TypeGivesWindow == TypeOK => WindowIsOldest
<1> SUFFICES ASSUME TypeOK, NEW n \in 0..sizeSamples
             PROVE  /\ FirstOffset + FirstSampleCount(n) <= Capacity
                    /\ SecondOffset + SecondSampleCount(n) <= headSample
                    /\ Window(n) = SubSeq(Contents, 1, n)
  BY DEF WindowIsOldest
<1> DEFINE f == FirstSampleCount(n)
           g == SecondSampleCount(n)
<1>0. /\ n \in Nat /\ headSample \in Nat /\ sizeSamples \in Nat
      /\ Capacity \in Nat /\ Capacity > 0 /\ n <= sizeSamples
      /\ headSample < Capacity /\ sizeSamples <= Capacity
      /\ storage \in [Slots -> Sample]
  BY CapacityAssumption DEF TypeOK, Slots
<1>1. /\ f \in Nat /\ g \in Nat /\ f + g = n
      /\ headSample + f <= Capacity /\ g <= headSample
      /\ (g > 0 => headSample + f = Capacity)
  BY <1>0 DEF FirstSampleCount, SecondSampleCount, Smaller
<1>2. Window(n) = Segment(headSample, f) \o Segment(0, g)
  BY DEF Window, FirstOffset, SecondOffset
<1> HIDE DEF f, g
<1>3. Segment(headSample, f) \in Seq(Sample) /\ Len(Segment(headSample, f)) = f
  BY <1>0, <1>1 DEF Segment, Slots
<1>4. Segment(0, g) \in Seq(Sample) /\ Len(Segment(0, g)) = g
  BY <1>0, <1>1 DEF Segment, Slots
<1>5. \A i \in 1..n : (headSample + i - 1) % Capacity =
         IF headSample + i - 1 < Capacity THEN headSample + i - 1
         ELSE headSample + i - 1 - Capacity
  BY <1>0, Wrap
<1>6. Contents \in Seq(Sample) /\ Len(Contents) = sizeSamples
  BY ContentsType
<1>7. \A i \in 1..n : Window(n)[i] = Contents[i]
  <2> TAKE i \in 1..n
  <2>1. Contents[i] = storage[(headSample + i - 1) % Capacity]
    BY <1>0 DEF Contents
  <2>2. CASE i <= f
    <3>1. Window(n)[i] = Segment(headSample, f)[i]
      BY <1>0, <1>1, <1>2, <1>3, <1>4, <2>2
    <3>2. Segment(headSample, f)[i] = storage[headSample + i - 1]
      BY <1>0, <1>1, <2>2 DEF Segment
    <3> QED
      BY <2>1, <3>1, <3>2, <1>0, <1>1, <1>5, <2>2
  <2>3. CASE i > f
    <3>1. Window(n)[i] = Segment(0, g)[i - f]
      BY <1>0, <1>1, <1>2, <1>3, <1>4, <2>3
    <3>2. Segment(0, g)[i - f] = storage[i - f - 1]
      BY <1>0, <1>1, <2>3 DEF Segment
    <3>3. (headSample + i - 1) % Capacity = i - f - 1
      BY <1>0, <1>1, <1>5, <2>3
    <3> QED
      BY <2>1, <3>1, <3>2, <3>3
  <2> QED
    BY <2>2, <2>3, <1>0, <1>1
<1>8. Window(n) \in Seq(Sample) /\ Len(Window(n)) = n
  BY <1>1, <1>2, <1>3, <1>4
<1>9. /\ SubSeq(Contents, 1, n) \in Seq(Sample) /\ Len(SubSeq(Contents, 1, n)) = n
      /\ \A i \in 1..n : SubSeq(Contents, 1, n)[i] = Contents[i]
  BY <1>0, <1>6
<1>10. Window(n) = SubSeq(Contents, 1, n)
  BY <1>7, <1>8, <1>9
<1> QED
  BY <1>1, <1>10 DEF FirstOffset, SecondOffset, f, g

(* In every reachable state, for every capacity, the two segments handed   *)
(* to native code hold the oldest samples in order.                        *)
THEOREM WindowCorrect == Spec => []WindowIsOldest
BY TypeCorrect, TypeGivesWindow, PTL

(* The mapping of an append that fits: the new samples follow the old.     *)
LEMMA AppendMapping ==
    ASSUME TypeOK, NEW src \in Seq(Sample), NEW n \in 0..Len(src),
           n <= Capacity - sizeSamples, AppendSamples(src, n)
    PROVE  Contents' = Contents \o SubSeq(src, 1, n)
<1>0. /\ n \in Nat /\ Len(src) \in Nat /\ n <= Len(src)
      /\ headSample \in Nat /\ sizeSamples \in Nat
      /\ Capacity \in Nat /\ Capacity > 0
  BY CapacityAssumption DEF TypeOK, Slots
<1>1. /\ headSample' = headSample
      /\ sizeSamples' = sizeSamples + n
      /\ \A k \in 0..(sizeSamples - 1) :
            storage'[(headSample + k) % Capacity] = storage[(headSample + k) % Capacity]
      /\ \A k \in 1..n :
            storage'[(headSample + sizeSamples + k - 1) % Capacity] = src[k]
  BY AppendStorage
<1>2. Contents' = [i \in 1..(sizeSamples + n) |-> storage'[(headSample + i - 1) % Capacity]]
  BY <1>1 DEF Contents
<1>3. Contents = [i \in 1..sizeSamples |-> storage[(headSample + i - 1) % Capacity]]
  BY DEF Contents
<1>4. Contents \in Seq(Sample) /\ Len(Contents) = sizeSamples
  BY ContentsType
<1>5. /\ SubSeq(src, 1, n) \in Seq(Sample) /\ Len(SubSeq(src, 1, n)) = n
      /\ \A i \in 1..n : SubSeq(src, 1, n)[i] = src[i]
  BY <1>0
<1>6. \A i \in 1..sizeSamples : Contents'[i] = Contents[i]
  <2> TAKE i \in 1..sizeSamples
  <2>1. i - 1 \in 0..(sizeSamples - 1) /\ headSample + (i - 1) = headSample + i - 1
    BY <1>0
  <2>2. storage'[(headSample + i - 1) % Capacity] = storage[(headSample + i - 1) % Capacity]
    BY <2>1, <1>1
  <2> QED
    BY <2>2, <1>0, <1>2, <1>3
<1>7. \A k \in 1..n : Contents'[sizeSamples + k] = src[k]
  <2> TAKE k \in 1..n
  <2>1. sizeSamples + k \in 1..(sizeSamples + n)
        /\ headSample + (sizeSamples + k) - 1 = headSample + sizeSamples + k - 1
    BY <1>0
  <2> QED
    BY <2>1, <1>1, <1>2
<1>8. \A i \in 1..(sizeSamples + n) : Contents'[i] = (Contents \o SubSeq(src, 1, n))[i]
  <2> TAKE i \in 1..(sizeSamples + n)
  <2>1. CASE i <= sizeSamples
    BY <2>1, <1>0, <1>4, <1>5, <1>6
  <2>2. CASE i > sizeSamples
    <3>1. i - sizeSamples \in 1..n /\ i = sizeSamples + (i - sizeSamples)
      BY <2>2, <1>0
    <3>2. (Contents \o SubSeq(src, 1, n))[i] = src[i - sizeSamples]
      BY <3>1, <2>2, <1>0, <1>4, <1>5
    <3> QED
      BY <3>1, <3>2, <1>7
  <2>3. i <= sizeSamples \/ i > sizeSamples
    BY <1>0
  <2> QED
    BY <2>1, <2>2, <2>3, Zenon
<1>9. Contents \o SubSeq(src, 1, n) \in Seq(Sample)
      /\ Len(Contents \o SubSeq(src, 1, n)) = sizeSamples + n
  BY <1>0, <1>4, <1>5
<1>10. Contents' \in Seq(Sample) /\ Len(Contents') = sizeSamples + n
  <2>1. \A i \in 1..(sizeSamples + n) : storage'[(headSample + i - 1) % Capacity] \in Sample
    <3>1. storage' \in [Slots -> Sample]
      BY AppendStorage
    <3>2. \A i \in 1..(sizeSamples + n) : (headSample + i - 1) % Capacity \in Slots
      BY <1>0 DEF Slots
    <3> QED
      BY <3>1, <3>2
  <2> QED
    BY <2>1, <1>0, <1>2
<1> QED
  BY <1>8, <1>9, <1>10, SeqEqual

(* The mapping of a legal discard: the oldest n samples leave, and the     *)
(* head reset of an emptied ring is not visible.                           *)
LEMMA DiscardMapping ==
    ASSUME TypeOK, NEW n \in 0..sizeSamples, DiscardFirst(n)
    PROVE  Contents' = SubSeq(Contents, n + 1, sizeSamples)
<1>0. /\ n \in Nat /\ n <= sizeSamples
      /\ headSample \in Nat /\ sizeSamples \in Nat /\ sizeSamples <= Capacity
      /\ Capacity \in Nat /\ Capacity > 0 /\ headSample < Capacity
  BY CapacityAssumption DEF TypeOK, Slots
<1>1. /\ sizeSamples' = sizeSamples - n
      /\ headSample' = IF sizeSamples - n = 0 THEN 0 ELSE (headSample + n) % Capacity
      /\ storage' = storage
  BY DEF DiscardFirst
<1>2. Contents \in Seq(Sample) /\ Len(Contents) = sizeSamples
  BY ContentsType
<1>3. SubSeq(Contents, n + 1, sizeSamples)
         = [i \in 1..(sizeSamples - n) |-> Contents[i + n]]
  BY <1>0, <1>2
<1>4. Contents' = [i \in 1..(sizeSamples - n) |-> storage[(headSample' + i - 1) % Capacity]]
  BY <1>1 DEF Contents
<1>5. \A i \in 1..(sizeSamples - n) :
         storage[(headSample' + i - 1) % Capacity] = Contents[i + n]
  <2> TAKE i \in 1..(sizeSamples - n)
  <2>1. headSample' = (headSample + n) % Capacity
    BY <1>0, <1>1
  <2>2. headSample' = IF headSample + n < Capacity THEN headSample + n
                      ELSE headSample + n - Capacity
    BY <2>1, <1>0, Wrap
  <2>3. headSample' \in Nat /\ headSample' + i - 1 \in Nat /\ headSample' + i - 1 < 2 * Capacity
    BY <2>2, <1>0
  <2>4. (headSample' + i - 1) % Capacity =
           IF headSample' + i - 1 < Capacity THEN headSample' + i - 1
           ELSE headSample' + i - 1 - Capacity
    <3>1. PICK h \in Nat : h = headSample'
      BY <2>3
    <3>2. (h + i - 1) % Capacity = IF h + i - 1 < Capacity THEN h + i - 1
                                   ELSE h + i - 1 - Capacity
      BY <2>2, <3>1, <1>0, SMT
    <3> QED
      BY <3>1, <3>2, Zenon
  <2>5. headSample + (i + n) - 1 \in Nat /\ headSample + (i + n) - 1 < 2 * Capacity
    BY <1>0
  <2>6. (headSample + (i + n) - 1) % Capacity =
           IF headSample + (i + n) - 1 < Capacity THEN headSample + (i + n) - 1
           ELSE headSample + (i + n) - 1 - Capacity
    BY <2>5, <1>0, SMT
  <2>7. (headSample' + i - 1) % Capacity = (headSample + (i + n) - 1) % Capacity
    BY <2>2, <2>4, <2>6, <1>0
  <2>8. i + n \in 1..sizeSamples
    BY <1>0
  <2>9. Contents[i + n] = storage[(headSample + (i + n) - 1) % Capacity]
    BY <2>8 DEF Contents
  <2> QED
    BY <2>7, <2>9
<1> QED
  BY <1>3, <1>4, <1>5

(* DirectPcm16RingBuffer implements the bounded FIFO for every capacity.   *)
THEOREM RingImplementsFifo == Spec => ImplementsFifo
<1>1. Init => Fifo!Init
  BY DEF Init, NoCall, Fifo!Init, Fifo!NoCall, Contents
<1>2. TypeOK /\ [Next]_vars => [Fifo!Next]_(Fifo!vars)
  <2> SUFFICES ASSUME TypeOK, [Next]_vars PROVE [Fifo!Next]_(Fifo!vars)
    OBVIOUS
  <2>0. /\ Contents \in Seq(Sample) /\ Len(Contents) = sizeSamples
        /\ sizeSamples \in Nat /\ Capacity \in Nat
    BY ContentsType, CapacityAssumption DEF TypeOK
  <2>1. ASSUME NEW src \in Sources, NEW n \in Counts, AppendSamples(src, n)
        PROVE  Fifo!AppendSamples(src, n)
    <3>0. src \in Seq(Sample) /\ Len(src) \in Nat
      BY SourceType
    <3>1. CASE n \in 0..Len(src) /\ n <= Capacity - sizeSamples
      <4>1. Contents' = Contents \o SubSeq(src, 1, n)
        BY <2>1, <3>0, <3>1, AppendMapping
      <4>2. result' = "returned" /\ call' = <<"append", src, n>>
        BY <2>1, <3>1 DEF AppendSamples
      <4> QED
        BY <4>1, <4>2, <3>1, <2>0 DEF Fifo!AppendSamples
    <3>2. CASE ~(n \in 0..Len(src) /\ n <= Capacity - sizeSamples)
      <4>1. result' = "threw" /\ call' = <<"append", src, n>> /\ UNCHANGED <<storage, headSample, sizeSamples>>
        BY <2>1, <3>2 DEF AppendSamples, Throw
      <4>2. Contents' = Contents
        BY <4>1 DEF Contents
      <4> QED
        BY <4>1, <4>2, <3>2, <2>0 DEF Fifo!AppendSamples
    <3> QED
      BY <3>1, <3>2
  <2>2. ASSUME NEW n \in Counts, DiscardFirst(n)
        PROVE  Fifo!DiscardFirst(n)
    <3>1. CASE n \in 0..sizeSamples
      <4>1. Contents' = SubSeq(Contents, n + 1, sizeSamples)
        BY <2>2, <3>1, DiscardMapping
      <4>2. result' = "returned" /\ call' = <<"discardFirst", <<>>, n>>
        BY <2>2, <3>1 DEF DiscardFirst
      <4> QED
        BY <4>1, <4>2, <3>1, <2>0 DEF Fifo!DiscardFirst
    <3>2. CASE n \notin 0..sizeSamples
      <4>1. result' = "threw" /\ call' = <<"discardFirst", <<>>, n>> /\ UNCHANGED <<storage, headSample, sizeSamples>>
        BY <2>2, <3>2 DEF DiscardFirst, Throw
      <4>2. Contents' = Contents
        BY <4>1 DEF Contents
      <4> QED
        BY <4>1, <4>2, <3>2, <2>0 DEF Fifo!DiscardFirst
    <3> QED
      BY <3>1, <3>2
  <2>3. CASE Clear
    <3>1. Contents' = <<>> /\ result' = "returned" /\ call' = <<"clear", <<>>, 0>>
      BY <2>3 DEF Clear, Contents
    <3> QED
      BY <3>1 DEF Fifo!Next, Fifo!Clear
  <2>4. CASE UNCHANGED vars
    <3>1. Contents' = Contents /\ result' = result /\ call' = call
      BY <2>4 DEF vars, Contents
    <3> QED
      BY <3>1 DEF Fifo!vars
  <2>5. CASE \E src \in Sources, n \in Counts : AppendSamples(src, n)
    <3>1. PICK src \in Sources, n \in Counts : AppendSamples(src, n)
      BY <2>5
    <3>2. Fifo!AppendSamples(src, n) /\ src \in Fifo!Sources /\ n \in Fifo!Counts
      BY <3>1, <2>1 DEF Sources, Counts, Fifo!Sources, Fifo!Counts
    <3> QED
      BY <3>2 DEF Fifo!Next
  <2>6. CASE \E n \in Counts : DiscardFirst(n)
    <3>1. PICK n \in Counts : DiscardFirst(n)
      BY <2>6
    <3>2. Fifo!DiscardFirst(n) /\ n \in Fifo!Counts
      BY <3>1, <2>2 DEF Counts, Fifo!Counts
    <3> QED
      BY <3>2 DEF Fifo!Next
  <2> QED
    BY <2>3, <2>4, <2>5, <2>6 DEF Next
<1> QED
  BY <1>1, <1>2, TypeCorrect, PTL DEF Spec, Fifo!Spec, ImplementsFifo
=============================================================================
