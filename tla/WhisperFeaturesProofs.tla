------------------------ MODULE WhisperFeaturesProofs ------------------------
(***************************************************************************)
(* The workspaces of the parallel feature extraction, for every number of  *)
(* threads, frames and samples.  That no task reaches beyond the handle's  *)
(* workspaces follows from counting: every task that is still queued will  *)
(* take one number, and the numbers taken and the tasks queued together    *)
(* are never more than the threads.  From that: every frame with audio     *)
(* lies in a block, no task loses a frame of its block to another one, and *)
(* no block's maximum is overwritten, so the caller normalises what the    *)
(* serial loop would have computed.                                        *)
(***************************************************************************)
EXTENDS WhisperFeatures, FiniteSetTheorems, TLAPS

Queued == {b \in Slots : task[b].phase = "queued"}

TasksTyped ==
    /\ num_threads \in 1..MaxThreads /\ next_workspace \in Nat
    /\ task \in [Slots -> TaskType]

Counted == next_workspace + Cardinality(Queued) <= num_threads

Taken ==
    \A b \in Slots : Busy(b) =>
        /\ task[b].workspace < next_workspace
        /\ \A c \in Slots \ {b} : Busy(c) => task[c].workspace # task[b].workspace

WorkspaceInv == TasksTyped /\ Counted /\ Taken

LEMMA SlotsFinite == IsFiniteSet(Slots) /\ IsFiniteSet(Queued) /\ Cardinality(Queued) \in Nat
<1>1. IsFiniteSet(Slots)
  BY FS_Interval, FeaturesAssumption DEF Slots
<1>2. IsFiniteSet(Queued)
  BY <1>1, FS_Subset DEF Queued
<1> QED
  BY <1>1, <1>2, FS_CardinalityType

LEMMA InitialSegment ==
    ASSUME NEW k \in Nat, k >= 1
    PROVE  IsFiniteSet(0..(k - 1)) /\ Cardinality(0..(k - 1)) = k
<1> DEFINE l == k - 1
<1>1. l \in Int /\ 0 \in Int /\ ~(0 > l) /\ l - 0 + 1 = k
  OBVIOUS
<1> HIDE DEF l
<1>2. IsFiniteSet(0..l) /\ Cardinality(0..l) = IF 0 > l THEN 0 ELSE l - 0 + 1
  BY <1>1, FS_Interval
<1>3. Cardinality(0..l) = k
  BY <1>1, <1>2
<1> QED
  BY <1>2, <1>3 DEF l

LEMMA DivideType ==
    ASSUME NEW a \in Nat, NEW d \in Nat \ {0}
    PROVE  a \div d \in Nat /\ a % d \in Nat /\ (a >= d => a \div d >= 1)
OBVIOUS

(* There is at least one block, no more than threads, and its limits are   *)
(* frame numbers: the division into blocks is defined.                     *)
LEMMA BlocksType ==
    ASSUME TasksTyped, NEW n \in Nat
    PROVE  /\ NumBlocks(n) \in 1..num_threads
           /\ \A b \in Slots : b < NumBlocks(n) => BlockStart(n, b) \in Nat /\ BlockEnd(n, b) \in Nat
<1>0. /\ MaxThreads \in Nat \ {0} /\ Frames \in Nat \ {0} /\ HopLength \in Nat \ {0}
      /\ FftHalfSize \in Nat \ {0} /\ Grain \in Nat \ {0}
      /\ num_threads \in Nat /\ num_threads >= 1
  BY FeaturesAssumption DEF TasksTyped
<1>1. CeilDivide(n + FftHalfSize, HopLength) \in Nat /\ CeilDivide(n + FftHalfSize, HopLength) >= 1
  <2>1. n + FftHalfSize + HopLength - 1 \in Nat /\ n + FftHalfSize + HopLength - 1 >= HopLength
    BY <1>0
  <2> QED
    BY <1>0, <2>1, DivideType DEF CeilDivide
<1>2. ActiveFrames(n) \in Nat /\ ActiveFrames(n) >= 1
  BY <1>0, <1>1 DEF ActiveFrames, AtMost
<1>3. CeilDivide(ActiveFrames(n), Grain) \in Nat /\ CeilDivide(ActiveFrames(n), Grain) >= 1
  <2>1. ActiveFrames(n) + Grain - 1 \in Nat /\ ActiveFrames(n) + Grain - 1 >= Grain
    BY <1>0, <1>2
  <2> QED
    BY <1>0, <2>1, DivideType DEF CeilDivide
<1>4. NumBlocks(n) \in 1..num_threads
  BY <1>0, <1>3 DEF NumBlocks, AtMost
<1>5. ASSUME NEW b \in Nat PROVE BlockStart(n, b) \in Nat
  <2>1. NumBlocks(n) \in Nat \ {0}
    BY <1>0, <1>4
  <2>2. ActiveFrames(n) \div NumBlocks(n) \in Nat /\ ActiveFrames(n) % NumBlocks(n) \in Nat
    BY <1>2, <2>1, DivideType
  <2> HIDE DEF ActiveFrames
  <2>3. b * (ActiveFrames(n) \div NumBlocks(n)) \in Nat
    BY <2>2
  <2>4. AtMost(b, ActiveFrames(n) % NumBlocks(n)) \in Nat
    BY <2>2 DEF AtMost
  <2> QED
    BY <2>3, <2>4 DEF BlockStart
<1>6. ASSUME NEW b \in Slots PROVE b \in Nat /\ b + 1 \in Nat
  BY <1>0 DEF Slots
<1> QED
  BY <1>2, <1>4, <1>5, <1>6 DEF BlockEnd

LEMMA InitCorrect == FeatInit => WorkspaceInv
<1> SUFFICES ASSUME FeatInit PROVE WorkspaceInv
  OBVIOUS
<1>1. TasksTyped
  BY FeaturesAssumption DEF FeatInit, TasksTyped, TaskType, NoTask, Initial
<1>2. Queued = {}
  BY DEF FeatInit, Queued, NoTask
<1>3. Counted
  BY <1>1, <1>2, FS_EmptySet DEF Counted, FeatInit, TasksTyped
<1>4. Taken
  BY DEF FeatInit, Taken, Busy, NoTask
<1> QED
  BY <1>1, <1>3, <1>4 DEF WorkspaceInv

(* A new call: the counter starts over, and a task is queued for each of   *)
(* the blocks.                                                             *)
LEMMA CallKeeps ==
    ASSUME WorkspaceInv, NEW samples \in 0..(ChunkSamples + 1), MakeFeatures(samples)
    PROVE  WorkspaceInv'
<1> DEFINE n == AtMost(samples, ChunkSamples)
<1>0. n \in Nat
  BY FeaturesAssumption DEF AtMost, ChunkSamples
<1> HIDE DEF n
<1>t. TasksTyped
  BY DEF WorkspaceInv
<1>1. num_threads' = num_threads /\ next_workspace' = 0
  BY DEF MakeFeatures, n
<1>2. /\ NumBlocks(n) \in 1..num_threads
      /\ \A b \in Slots : b < NumBlocks(n) => BlockStart(n, b) \in Nat /\ BlockEnd(n, b) \in Nat
  BY <1>0, <1>t, BlocksType
<1>d. task' = [b \in Slots |->
                  IF b < NumBlocks(n) THEN QueuedTask(BlockStart(n, b), BlockEnd(n, b)) ELSE NoTask]
  BY DEF MakeFeatures, n
<1>3. TasksTyped'
  <2>1. NoTask \in TaskType
    BY DEF NoTask, TaskType, Initial
  <2>2. ASSUME NEW x \in Nat, NEW y \in Nat PROVE QueuedTask(x, y) \in TaskType
    BY DEF QueuedTask, TaskType, Initial
  <2>3. ASSUME NEW b \in Slots PROVE task'[b] \in TaskType
    <3>1. CASE b < NumBlocks(n)
      <4>1. BlockStart(n, b) \in Nat /\ BlockEnd(n, b) \in Nat
        BY <1>2, <3>1
      <4>2. task'[b] = QueuedTask(BlockStart(n, b), BlockEnd(n, b))
        BY <1>d, <3>1
      <4> QED
        BY <4>1, <4>2, <2>2
    <3>2. CASE ~(b < NumBlocks(n))
      BY <1>d, <3>2, <2>1
    <3> QED
      BY <3>1, <3>2
  <2>4. task' \in [Slots -> TaskType]
    <3> HIDE DEF TaskType
    <3> QED
      BY <1>d, <2>3
  <2> QED
    BY <1>1, <1>t, <2>4 DEF TasksTyped
<1>4. \A b \in Slots : task'[b].phase \in {"none", "queued"}
                       /\ (task'[b].phase = "queued" => b < NumBlocks(n))
  <2>1. NoTask.phase = "none" /\ \A x, y : QueuedTask(x, y).phase = "queued"
    BY DEF NoTask, QueuedTask
  <2> QED
    BY <1>d, <2>1
<1>5. Counted'
  <2>1. num_threads \in Nat /\ MaxThreads \in Nat /\ NumBlocks(n) \in Nat /\ NumBlocks(n) >= 1
        /\ NumBlocks(n) <= num_threads
    BY <1>t, <1>2, FeaturesAssumption DEF TasksTyped
  <2>2. Queued' \subseteq 0..(NumBlocks(n) - 1)
    BY <1>4, <2>1 DEF Queued, Slots
  <2>3. IsFiniteSet(0..(NumBlocks(n) - 1)) /\ Cardinality(0..(NumBlocks(n) - 1)) = NumBlocks(n)
    BY <2>1, InitialSegment
  <2>4. Cardinality(Queued') <= NumBlocks(n) /\ IsFiniteSet(Queued')
    BY <2>2, <2>3, FS_Subset
  <2>5. Cardinality(Queued') \in Nat
    BY <2>4, FS_CardinalityType
  <2> QED
    BY <1>1, <2>1, <2>4, <2>5 DEF Counted
<1>6. Taken'
  BY <1>4 DEF Taken, Busy
<1> QED
  BY <1>3, <1>5, <1>6 DEF WorkspaceInv

(* fetch_add hands out a number nobody has. *)
LEMMA ClaimKeeps ==
    ASSUME WorkspaceInv, NEW b \in Slots, Claim(b)
    PROVE  WorkspaceInv'
<1>t. TasksTyped /\ Counted /\ Taken
  BY DEF WorkspaceInv
<1>1. /\ task' = [task EXCEPT ![b] = [@ EXCEPT !.phase = "window", !.workspace = next_workspace,
                                               !.frame = task[b].begin]]
      /\ next_workspace' = next_workspace + 1 /\ num_threads' = num_threads
      /\ task[b].phase = "queued"
  BY DEF Claim, featCall
<1>d. task[b] \in TaskType /\ DOMAIN task = Slots /\ next_workspace \in Nat
  BY <1>t DEF TasksTyped
<1> DEFINE claimed == [task[b] EXCEPT !.phase = "window", !.workspace = next_workspace,
                                     !.frame = task[b].begin]
<1>e. task' = [task EXCEPT ![b] = claimed]
  BY <1>1, Zenon
<1>f. claimed \in TaskType /\ claimed.phase = "window" /\ claimed.workspace = next_workspace
  <2>1. ASSUME NEW r \in TaskType, NEW w \in Nat
        PROVE  /\ [r EXCEPT !.phase = "window", !.workspace = w, !.frame = r.begin] \in TaskType
               /\ [r EXCEPT !.phase = "window", !.workspace = w, !.frame = r.begin].phase = "window"
               /\ [r EXCEPT !.phase = "window", !.workspace = w, !.frame = r.begin].workspace = w
    BY DEF TaskType
  <2> QED
    BY <1>d, <2>1
<1> HIDE DEF claimed
<1>2. TasksTyped'
  <2>1. task' \in [Slots -> TaskType]
    BY <1>e, <1>f, <1>t DEF TasksTyped
  <2> QED
    BY <1>t, <1>1, <2>1 DEF TasksTyped
<1>3. /\ task'[b].phase = "window" /\ task'[b].workspace = next_workspace
      /\ \A c \in Slots \ {b} : task'[c] = task[c]
  BY <1>d, <1>e, <1>f
<1>4. Counted'
  <2>1. Queued' = Queued \ {b} /\ b \in Queued
    BY <1>1, <1>3 DEF Queued
  <2>2. Cardinality(Queued') = Cardinality(Queued) - 1
    BY <2>1, SlotsFinite, FS_RemoveElement
  <2> QED
    BY <1>t, <1>1, <2>2, SlotsFinite DEF Counted, TasksTyped
<1>5. Taken'
  <2>1. ASSUME NEW c \in Slots, c # b, Busy(c)'
        PROVE  Busy(c) /\ task'[c].workspace = task[c].workspace /\ task'[c].workspace < next_workspace
    BY <1>t, <1>3, <2>1 DEF Taken, Busy
  <2>2. \A c \in Slots : task[c].workspace \in Nat /\ next_workspace \in Nat
    BY <1>t DEF TasksTyped, TaskType
  <2>3. ASSUME NEW c \in Slots, Busy(c)' PROVE task'[c].workspace < next_workspace'
    <3>1. CASE c = b
      BY <1>1, <1>3, <2>2, <3>1
    <3>2. CASE c # b
      BY <1>1, <2>1, <2>2, <2>3, <3>2
    <3> QED
      BY <3>1, <3>2
  <2>4. ASSUME NEW c \in Slots, NEW e \in Slots \ {c}, Busy(c)', Busy(e)'
        PROVE  task'[e].workspace # task'[c].workspace
    <3>1. CASE c = b
      BY <1>3, <2>1, <2>2, <2>4, <3>1
    <3>2. CASE e = b
      BY <1>3, <2>1, <2>2, <2>4, <3>2
    <3>3. CASE c # b /\ e # b
      BY <1>t, <2>1, <2>4, <3>3 DEF Taken
    <3> QED
      BY <3>1, <3>2, <3>3
  <2> QED
    BY <2>3, <2>4 DEF Taken
<1> QED
  BY <1>2, <1>4, <1>5 DEF WorkspaceInv

(* The other steps of a task keep its workspace. *)
LEMMA TaskKeeps ==
    ASSUME WorkspaceInv, NEW b \in Slots, WindowFrame(b) \/ TransformFrame(b) \/ FinishTask(b)
    PROVE  WorkspaceInv'
<1>t. TasksTyped /\ Counted /\ Taken
  BY DEF WorkspaceInv
<1>1. UNCHANGED <<next_workspace, num_threads>> /\ Busy(b)
  BY DEF WindowFrame, TransformFrame, FinishTask, featCall, Busy
<1>2. TasksTyped'
  <2>1. CASE WindowFrame(b)
    BY <1>t, <1>1, <2>1 DEF WindowFrame, TasksTyped, TaskType
  <2>2. CASE TransformFrame(b)
    BY <1>t, <1>1, <2>2 DEF TransformFrame, TasksTyped, TaskType, Greater, Energy, Initial
  <2>3. CASE FinishTask(b)
    BY <1>t, <1>1, <2>3 DEF FinishTask, TasksTyped, TaskType
  <2> QED
    BY <2>1, <2>2, <2>3
<1>3. /\ \A c \in Slots \ {b} : task'[c] = task[c]
      /\ task'[b].workspace = task[b].workspace /\ task'[b].phase # "queued"
  BY <1>t DEF WindowFrame, TransformFrame, FinishTask, TasksTyped, TaskType
<1>4. Counted'
  <2>1. Queued' = Queued
    BY <1>1, <1>3 DEF Queued, Busy
  <2> QED
    BY <1>t, <1>1, <2>1 DEF Counted
<1>5. Taken'
  BY <1>t, <1>1, <1>3 DEF Taken, Busy
<1> QED
  BY <1>2, <1>4, <1>5 DEF WorkspaceInv

LEMMA WorkspaceStep == WorkspaceInv /\ [FeatNext]_featVars => WorkspaceInv'
<1>1. ASSUME WorkspaceInv, [FeatNext]_featVars PROVE WorkspaceInv'
  <2>1. CASE UNCHANGED <<num_threads, next_workspace, task>>
    BY <1>1, <2>1 DEF WorkspaceInv, TasksTyped, Counted, Queued, Taken, Busy
  <2>2. CASE Normalize \/ Return \/ UNCHANGED featVars
    BY <2>1, <2>2 DEF Normalize, Return, featVars
  <2> QED
    BY <1>1, <2>2, CallKeeps, ClaimKeeps, TaskKeeps DEF FeatNext, TaskStep
<1> QED
  BY <1>1

(* However the pool schedules the tasks of a call, no two of them use the  *)
(* same workspace at the same time, and none one the handle does not have. *)
THEOREM WorkspacesExclusive == FeatSpec => []WorkspaceExclusive
<1>1. WorkspaceInv => WorkspaceExclusive
  <2> SUFFICES ASSUME WorkspaceInv PROVE WorkspaceExclusive
    OBVIOUS
  <2>1. next_workspace <= num_threads
    BY SlotsFinite DEF WorkspaceInv, Counted, TasksTyped
  <2>2. \A b \in Slots : task[b].workspace \in Nat
    BY DEF WorkspaceInv, TasksTyped, TaskType
  <2> QED
    BY <2>1, <2>2 DEF WorkspaceInv, Taken, TasksTyped, WorkspaceExclusive
<1> QED
  BY <1>1, InitCorrect, WorkspaceStep, PTL DEF FeatSpec
-----------------------------------------------------------------------------
(* Arithmetic of the division into blocks. *)

LEMMA DivideFloor ==
    ASSUME NEW a \in Nat, NEW d \in Nat \ {0}
    PROVE  a \div d \in Nat /\ (a \div d) * d <= a /\ a < (a \div d) * d + d
OBVIOUS

LEMMA Remainder ==
    ASSUME NEW a \in Nat, NEW d \in Nat \ {0}
    PROVE  a % d \in Nat /\ a % d < d /\ a = d * (a \div d) + (a % d)
<1>1. a % d \in Nat
  OBVIOUS
<1>2. a % d < d
  OBVIOUS
<1>3. a = d * (a \div d) + (a % d)
  OBVIOUS
<1> QED
  BY <1>1, <1>2, <1>3

LEMMA ProductMonotone ==
    ASSUME NEW a \in Nat, NEW b \in Nat, NEW d \in Nat, a <= b
    PROVE  a * d <= b * d /\ a * d \in Nat /\ b * d \in Nat
OBVIOUS

(* K blocks, the first r of q + 1 frames and the others of q, leave no     *)
(* frame out: the block of frame f is found by dividing.                   *)
LEMMA BlocksCover ==
    ASSUME NEW K \in Nat \ {0}, NEW q \in Nat, NEW r \in Nat, r < K,
           NEW f \in Nat, f < K * q + r
    PROVE  \E b \in 0..(K - 1) : /\ b * q + AtMost(b, r) <= f
                                 /\ f < (b + 1) * q + AtMost(b + 1, r)
<1>1. CASE f < r * (q + 1)
  <2> DEFINE d == q + 1
             b == f \div d
  <2>1. d \in Nat \ {0}
    OBVIOUS
  <2> HIDE DEF d
  <2>2. b \in Nat /\ b * d <= f /\ f < b * d + d
    BY <2>1, DivideFloor
  <2> HIDE DEF b
  <2>3. b < r
    <3>1. ASSUME b >= r PROVE FALSE
      <4>1. r * d <= b * d /\ r * d \in Nat /\ b * d \in Nat
        BY <2>1, <2>2, <3>1, ProductMonotone
      <4>2. f < r * d
        BY <1>1 DEF d
      <4> QED
        BY <2>2, <4>1, <4>2
    <3> QED
      BY <2>2, <3>1
  <2>4. b \in 0..(K - 1) /\ AtMost(b, r) = b /\ AtMost(b + 1, r) = b + 1
    BY <2>2, <2>3 DEF AtMost
  <2>5. b * q + b = b * d /\ (b + 1) * q + (b + 1) = b * d + d
    BY <2>2 DEF d
  <2> QED
    BY <2>2, <2>4, <2>5
<1>2. CASE r * (q + 1) <= f
  <2> DEFINE g == f - r * (q + 1)
             m == K - r
  <2>1. m \in Nat /\ r * (q + 1) \in Nat /\ r * (q + 1) = r * q + r /\ g \in Nat
    BY <1>2
  <2>2. g < m * q
    <3>1. m * q = K * q - r * q
      OBVIOUS
    <3> QED
      BY <2>1, <3>1
  <2>3. q # 0
    BY <2>1, <2>2
  <2>4. f = r * q + r + g
    BY <2>1
  <2> HIDE DEF g, m
  <2> DEFINE c == g \div q
             b == r + c
  <2>5. c \in Nat /\ c * q <= g /\ g < c * q + q
    BY <2>1, <2>3, DivideFloor
  <2> HIDE DEF c
  <2>6. c < m
    <3>1. ASSUME c >= m PROVE FALSE
      <4>1. m * q <= c * q /\ m * q \in Nat /\ c * q \in Nat
        BY <2>1, <2>5, <3>1, ProductMonotone
      <4> QED
        BY <2>1, <2>2, <2>5, <4>1
    <3> QED
      BY <2>1, <2>5, <3>1
  <2>7. b \in 0..(K - 1) /\ AtMost(b, r) = r /\ AtMost(b + 1, r) = r
    BY <2>5, <2>6 DEF AtMost, m
  <2>8. b * q = r * q + c * q /\ (b + 1) * q = r * q + c * q + q
    BY <2>5
  <2>9. r * q \in Nat /\ c * q \in Nat
    BY <2>5
  <2> HIDE DEF b
  <2>10. b * q + r <= f /\ f < (b + 1) * q + r
    BY <2>1, <2>4, <2>5, <2>8, <2>9
  <2> QED
    BY <2>7, <2>10
<1> QED
  BY <1>1, <1>2

LEMMA BlocksEnd ==
    ASSUME NEW K \in Nat \ {0}, NEW q \in Nat, NEW r \in Nat, NEW b \in Nat, b <= K
    PROVE  b * q + AtMost(b, r) <= K * q + r
<1>1. b * q <= K * q /\ b * q \in Nat /\ K * q \in Nat
  BY ProductMonotone
<1>2. AtMost(b, r) <= r /\ AtMost(b, r) \in Nat
  BY DEF AtMost
<1> QED
  BY <1>1, <1>2

(* Every active frame lies in a block, and no block reaches beyond them.   *)
LEMMA BlocksPartition ==
    ASSUME TasksTyped, NEW n \in Nat
    PROVE  /\ ActiveFrames(n) \in 1..Frames /\ NumBlocks(n) \in 1..num_threads
           /\ \A b \in Slots : b < NumBlocks(n) =>
                 /\ BlockStart(n, b) \in Nat /\ BlockEnd(n, b) \in Nat
                 /\ BlockEnd(n, b) <= ActiveFrames(n)
           /\ \A f \in 0..(ActiveFrames(n) - 1) :
                 \E b \in Slots : b < NumBlocks(n) /\ f \in BlockStart(n, b)..(BlockEnd(n, b) - 1)
<1>0. /\ MaxThreads \in Nat \ {0} /\ Frames \in Nat \ {0} /\ HopLength \in Nat \ {0}
      /\ FftHalfSize \in Nat \ {0} /\ num_threads \in 1..MaxThreads
  BY FeaturesAssumption DEF TasksTyped
<1> DEFINE A == ActiveFrames(n)
           K == NumBlocks(n)
           q == A \div K
           r == A % K
<1>1. A \in 1..Frames
  <2>1. n + FftHalfSize + HopLength - 1 \in Nat /\ n + FftHalfSize + HopLength - 1 >= HopLength
    BY <1>0
  <2>2. CeilDivide(n + FftHalfSize, HopLength) \in Nat /\ CeilDivide(n + FftHalfSize, HopLength) >= 1
    BY <1>0, <2>1, DivideType DEF CeilDivide
  <2> QED
    BY <1>0, <2>2 DEF ActiveFrames, AtMost
<1>2. /\ K \in 1..num_threads
      /\ \A b \in Slots : b < K => BlockStart(n, b) \in Nat /\ BlockEnd(n, b) \in Nat
  BY BlocksType
<1>3. A \in Nat /\ K \in Nat \ {0} /\ K <= MaxThreads
  BY <1>0, <1>1, <1>2
<1>4. \A b : BlockStart(n, b) = b * q + AtMost(b, r)
  BY DEF BlockStart
<1>5. \A b : BlockEnd(n, b) = IF b = K - 1 THEN A ELSE BlockStart(n, b + 1)
  BY DEF BlockEnd
<1> HIDE DEF A, K
<1>6. q \in Nat /\ r \in Nat /\ r < K /\ A = K * q + r
  BY <1>3, DivideFloor, Remainder
<1> HIDE DEF q, r
<1>7. ASSUME NEW b \in Slots, b < K PROVE BlockEnd(n, b) <= A
  <2>1. b \in Nat /\ b + 1 \in Nat /\ b + 1 <= K
    BY <1>0, <1>3, <1>7 DEF Slots
  <2>2. (b + 1) * q + AtMost(b + 1, r) <= K * q + r
    BY <1>3, <1>6, <2>1, BlocksEnd
  <2> QED
    BY <1>1, <1>4, <1>5, <1>6, <2>2
<1>8. ASSUME NEW f \in 0..(A - 1)
      PROVE  \E b \in Slots : b < K /\ f \in BlockStart(n, b)..(BlockEnd(n, b) - 1)
  <2>1. f \in Nat /\ f < K * q + r /\ f < A
    BY <1>3, <1>6
  <2>2. PICK b \in 0..(K - 1) : b * q + AtMost(b, r) <= f /\ f < (b + 1) * q + AtMost(b + 1, r)
    BY <1>3, <1>6, <2>1, BlocksCover
  <2>3. b \in Slots /\ b < K
    BY <1>0, <1>3 DEF Slots
  <2>4. BlockStart(n, b) <= f /\ f < BlockEnd(n, b)
    <3>1. CASE b = K - 1
      BY <1>4, <1>5, <2>1, <2>2, <3>1
    <3>2. CASE b # K - 1
      BY <1>4, <1>5, <2>2, <3>2
    <3> QED
      BY <3>1, <3>2
  <2>5. BlockStart(n, b) \in Nat /\ BlockEnd(n, b) \in Nat
    BY <1>2, <2>3
  <2> QED
    BY <2>1, <2>3, <2>4, <2>5
<1> QED
  BY <1>1, <1>2, <1>7, <1>8 DEF A, K

-----------------------------------------------------------------------------
(* The invariant of a call.  Between the calls no task is left. *)

Active == ActiveFrames(copied_samples)
Blocks == NumBlocks(copied_samples)
Claimed(b) == b < Blocks /\ task[b].phase # "queued"
Reached(b) == IF Busy(b) THEN task[b].frame ELSE task[b].end

BuffersTyped ==
    /\ feat_pc \in {"idle", "wait", "done"}
    /\ copied_samples \in 0..ChunkSamples /\ loudest \in Nat
    /\ fft_input \in [0..(num_threads - 1) -> Initial..(Frames - 1)]
    /\ thread_maxima \in [0..(num_threads - 1) -> Initial..1]
    /\ features \in [FrameSet -> Initial..(Frames - 1)] /\ maximum \in Initial..1

(* The tasks are those of the blocks. *)
CallInv ==
    /\ loudest \in 0..(Active - 1)
    /\ \A b \in Slots : IF b < Blocks THEN /\ task[b].begin = BlockStart(copied_samples, b)
                                           /\ task[b].end = BlockEnd(copied_samples, b)
                                      ELSE task[b].phase = "none"

(* A workspace number is never given out twice in a call, and each one     *)
(* given out belongs to a task, also after the task has ended.             *)
ClaimInv ==
    /\ \A b \in Slots : Claimed(b) =>
          /\ task[b].workspace < next_workspace
          /\ \A c \in Slots \ {b} : Claimed(c) => task[c].workspace # task[b].workspace
    /\ \A w \in 0..(next_workspace - 1) : \E b \in Slots : Claimed(b) /\ task[b].workspace = w

(* A task has written the frames of its block up to the one it is at.      *)
FrameInv ==
    /\ \A b \in Slots : task[b].phase = "transform" =>
          task[b].frame < task[b].end /\ fft_input[task[b].workspace] = task[b].frame
    /\ \A f \in FrameSet : f >= Active => features[f] = Initial
    /\ \A b \in Slots : Claimed(b) =>
          \A f \in task[b].begin..(Reached(b) - 1) : f \in FrameSet /\ features[f] = f

(* The maximum of a task has seen the loudest frame as soon as the task    *)
(* is past it, and is kept when the task has ended.                        *)
MaximaInv ==
    \A b \in Slots :
        /\ Busy(b) /\ loudest \in task[b].begin..(task[b].frame - 1) => task[b].local_maximum = 1
        /\ Claimed(b) /\ ~ Busy(b) /\ loudest \in task[b].begin..(task[b].end - 1)
              => thread_maxima[task[b].workspace] = 1

Progress ==
    IF feat_pc = "wait" THEN CallInv /\ ClaimInv /\ FrameInv /\ MaximaInv
                   ELSE \A b \in Slots : task[b].phase = "none"

Normalised ==
    feat_pc = "done" =>
        /\ \A f \in FrameSet : features[f] = IF f < Active THEN f ELSE Initial
        /\ maximum = MaximumOf({Energy(f) : f \in 0..(Active - 1)})

FeaturesInv == BuffersTyped /\ Progress /\ Normalised

LEMMA ConstantFacts ==
    /\ MaxThreads \in Nat \ {0} /\ Frames \in Nat \ {0} /\ HopLength \in Nat \ {0}
    /\ FftHalfSize \in Nat \ {0} /\ Grain \in Nat \ {0} /\ ChunkSamples \in Nat
BY FeaturesAssumption DEF ChunkSamples

LEMMA BlockFacts ==
    ASSUME TasksTyped, BuffersTyped
    PROVE  /\ Active \in 1..Frames /\ Blocks \in 1..num_threads
           /\ num_threads \in 1..MaxThreads /\ copied_samples \in Nat
           /\ \A b \in Slots : b < Blocks => BlockEnd(copied_samples, b) <= Active
           /\ \A f \in 0..(Active - 1) :
                 \E b \in Slots : b < Blocks /\ f \in BlockStart(copied_samples, b)..(BlockEnd(copied_samples, b) - 1)
<1>1. copied_samples \in Nat
  BY ConstantFacts DEF BuffersTyped
<1>2. num_threads \in 1..MaxThreads
  BY DEF TasksTyped
<1> QED
  BY <1>1, <1>2, BlocksPartition DEF Active, Blocks

LEMMA InitFeatures == FeatInit => FeaturesInv
<1> SUFFICES ASSUME FeatInit PROVE FeaturesInv
  OBVIOUS
<1>1. BuffersTyped
  <2>1. 0 \in 0..ChunkSamples /\ Initial \in Initial..(Frames - 1) /\ Initial \in Initial..1
    BY ConstantFacts DEF Initial
  <2> QED
    BY <2>1 DEF FeatInit, BuffersTyped
<1>2. Progress
  BY DEF FeatInit, Progress, NoTask
<1>3. Normalised
  BY DEF FeatInit, Normalised
<1> QED
  BY <1>1, <1>2, <1>3 DEF FeaturesInv

LEMMA CallProgress ==
    ASSUME WorkspaceInv, WorkspaceInv', FeaturesInv, NEW samples \in 0..(ChunkSamples + 1), MakeFeatures(samples)
    PROVE  FeaturesInv'
<1> DEFINE n == AtMost(samples, ChunkSamples)
<1>0. n \in Nat /\ n \in 0..ChunkSamples
  BY ConstantFacts DEF AtMost
<1>1. /\ feat_pc' = "wait" /\ copied_samples' = n /\ loudest' \in 0..(ActiveFrames(n) - 1)
      /\ next_workspace' = 0 /\ features' = [f \in FrameSet |-> Initial]
      /\ thread_maxima' = [w \in DOMAIN thread_maxima |-> Initial]
      /\ UNCHANGED <<num_threads, fft_input, maximum>>
      /\ task' = [b \in Slots |->
                    IF b < NumBlocks(n) THEN QueuedTask(BlockStart(n, b), BlockEnd(n, b)) ELSE NoTask]
  BY DEF MakeFeatures
<1> HIDE DEF n
<1>t. TasksTyped /\ BuffersTyped /\ TasksTyped'
  BY DEF WorkspaceInv, FeaturesInv
<1>2. ActiveFrames(n) \in 1..Frames /\ NumBlocks(n) \in 1..num_threads
  BY <1>0, <1>t, BlocksPartition
<1>3. BuffersTyped'
  <2>1. loudest' \in Nat
    BY <1>1, <1>2, ConstantFacts
  <2>2. Initial \in Initial..(Frames - 1) /\ Initial \in Initial..1
    BY ConstantFacts DEF Initial
  <2>3. features' \in [FrameSet -> Initial..(Frames - 1)]
    BY <1>1, <2>2
  <2>4. thread_maxima' \in [0..(num_threads' - 1) -> Initial..1]
    BY <1>1, <1>t, <2>2 DEF BuffersTyped
  <2>5. fft_input' \in [0..(num_threads' - 1) -> Initial..(Frames - 1)] /\ maximum' \in Initial..1
    BY <1>1, <1>t DEF BuffersTyped
  <2>6. feat_pc' \in {"idle", "wait", "done"} /\ copied_samples' \in 0..ChunkSamples
    BY <1>0, <1>1
  <2> QED
    BY <2>1, <2>3, <2>4, <2>5, <2>6 DEF BuffersTyped
<1>4. Active' = ActiveFrames(n) /\ Blocks' = NumBlocks(n)
  BY <1>1 DEF Active, Blocks, ActiveFrames, NumBlocks
<1>5. ASSUME NEW b \in Slots
      PROVE  /\ b < NumBlocks(n) => /\ task'[b].phase = "queued" /\ task'[b].begin = BlockStart(n, b)
                                    /\ task'[b].end = BlockEnd(n, b)
             /\ ~(b < NumBlocks(n)) => task'[b].phase = "none"
  <2>1. CASE b < NumBlocks(n)
    <3>1. task'[b] = QueuedTask(BlockStart(n, b), BlockEnd(n, b))
      BY <1>1, <2>1
    <3> QED
      BY <2>1, <3>1 DEF QueuedTask
  <2>2. CASE ~(b < NumBlocks(n))
    <3>1. task'[b] = NoTask
      BY <1>1, <2>2
    <3> QED
      BY <2>2, <3>1 DEF NoTask
  <2> QED
    BY <2>1, <2>2
<1>6. ASSUME NEW b \in Slots PROVE ~Claimed(b)' /\ ~Busy(b)' /\ task'[b].phase # "transform"
  BY <1>4, <1>5 DEF Claimed, Busy
<1>7. CallInv'
  <2>1. \A b : BlockStart(copied_samples, b)' = BlockStart(n, b) /\ BlockEnd(copied_samples, b)' = BlockEnd(n, b)
    BY <1>1 DEF BlockStart, BlockEnd, NumBlocks
  <2> QED
    BY <1>1, <1>4, <1>5, <2>1 DEF CallInv
<1>8. ClaimInv'
  BY <1>1, <1>6 DEF ClaimInv
<1>9. FrameInv'
  BY <1>1, <1>6 DEF FrameInv
<1>10. MaximaInv'
  BY <1>6 DEF MaximaInv
<1> QED
  BY <1>1, <1>3, <1>7, <1>8, <1>9, <1>10 DEF FeaturesInv, Progress, Normalised

(* A step of the task of block b leaves the call and the other tasks alone. *)
LEMMA TaskFrame ==
    ASSUME TasksTyped, BuffersTyped, CallInv, NEW b \in Slots, task[b].phase # "none",
           UNCHANGED <<num_threads, copied_samples, loudest>>,
           \A c \in Slots \ {b} : task'[c] = task[c],
           task'[b].begin = task[b].begin, task'[b].end = task[b].end
    PROVE  /\ Active' = Active /\ Blocks' = Blocks /\ CallInv' /\ b < Blocks
           /\ \A c \in Slots \ {b} : /\ Claimed(c)' = Claimed(c) /\ Busy(c)' = Busy(c)
                                     /\ Reached(c)' = Reached(c)
<1>1. Active' = Active /\ Blocks' = Blocks
  BY DEF Active, Blocks, ActiveFrames, NumBlocks
<1>2. b < Blocks
  BY DEF CallInv
<1>3. \A c : /\ BlockStart(copied_samples, c)' = BlockStart(copied_samples, c)
             /\ BlockEnd(copied_samples, c)' = BlockEnd(copied_samples, c)
  BY DEF BlockStart, BlockEnd, NumBlocks
<1>4. ASSUME NEW c \in Slots
      PROVE  IF c < Blocks THEN /\ task'[c].begin = BlockStart(copied_samples, c)
                                /\ task'[c].end = BlockEnd(copied_samples, c)
                           ELSE task'[c].phase = "none"
  <2>1. CASE c = b
    BY <1>2, <2>1 DEF CallInv
  <2>2. CASE c # b
    <3>1. task'[c] = task[c]
      BY <2>2
    <3> QED
      BY <3>1 DEF CallInv
  <2> QED
    BY <2>1, <2>2
<1>5. CallInv'
  <2>1. loudest' \in 0..(Active' - 1)
    BY <1>1 DEF CallInv
  <2> QED
    BY <1>1, <1>3, <1>4, <2>1 DEF CallInv
<1>6. ASSUME NEW c \in Slots \ {b}
      PROVE  Claimed(c)' = Claimed(c) /\ Busy(c)' = Busy(c) /\ Reached(c)' = Reached(c)
  <2>1. task'[c] = task[c]
    OBVIOUS
  <2>2. Busy(c)' = Busy(c)
    BY <2>1 DEF Busy
  <2> QED
    BY <1>1, <2>1, <2>2 DEF Claimed, Reached
<1> QED
  BY <1>1, <1>2, <1>5, <1>6

LEMMA WaitFacts ==
    ASSUME WorkspaceInv, FeaturesInv, NEW b \in Slots, task[b].phase # "none"
    PROVE  /\ TasksTyped /\ BuffersTyped /\ feat_pc = "wait" /\ CallInv /\ ClaimInv /\ FrameInv /\ MaximaInv
           /\ task[b] \in TaskType /\ DOMAIN task = Slots
           /\ next_workspace \in Nat /\ next_workspace <= num_threads
<1>1. TasksTyped /\ Counted /\ FeaturesInv
  BY DEF WorkspaceInv
<1>2. next_workspace <= num_threads
  BY <1>1, SlotsFinite DEF Counted, TasksTyped
<1>3. feat_pc = "wait"
  BY DEF FeaturesInv, Progress
<1>4. task[b] \in TaskType /\ DOMAIN task = Slots /\ next_workspace \in Nat
  BY <1>1 DEF TasksTyped
<1> QED
  BY <1>1, <1>2, <1>3, <1>4 DEF FeaturesInv, Progress

LEMMA TaskFields ==
    ASSUME NEW t \in TaskType
    PROVE  /\ t.phase \in {"none", "queued", "window", "transform"} /\ t.begin \in Nat /\ t.end \in Nat
           /\ t.frame \in Nat /\ t.workspace \in Nat /\ t.local_maximum \in Initial..1
BY DEF TaskType

(* fetch_add: the number is new, and belongs to this task from now on.     *)
LEMMA ClaimProgress ==
    ASSUME WorkspaceInv, FeaturesInv, NEW b \in Slots, Claim(b)
    PROVE  FeaturesInv'
<1>1. /\ task[b].phase = "queued" /\ next_workspace' = next_workspace + 1
      /\ UNCHANGED <<feat_pc, num_threads, copied_samples, loudest, maximum, fft_input, thread_maxima, features>>
      /\ task' = [task EXCEPT ![b] = [@ EXCEPT !.phase = "window", !.workspace = next_workspace,
                                               !.frame = task[b].begin]]
  BY DEF Claim, featCall
<1>2. /\ TasksTyped /\ BuffersTyped /\ feat_pc = "wait" /\ CallInv /\ ClaimInv /\ FrameInv /\ MaximaInv
      /\ task[b] \in TaskType /\ DOMAIN task = Slots
      /\ next_workspace \in Nat /\ next_workspace <= num_threads
  BY <1>1, WaitFacts
<1>3. /\ task'[b].phase = "window" /\ task'[b].workspace = next_workspace /\ task'[b].frame = task[b].begin
      /\ task'[b].begin = task[b].begin /\ task'[b].end = task[b].end
      /\ \A c \in Slots \ {b} : task'[c] = task[c]
  <2> DEFINE claimed == [task[b] EXCEPT !.phase = "window", !.workspace = next_workspace,
                                        !.frame = task[b].begin]
  <2>1. task' = [task EXCEPT ![b] = claimed]
    BY <1>1, Zenon
  <2>2. /\ claimed.phase = "window" /\ claimed.workspace = next_workspace /\ claimed.frame = task[b].begin
        /\ claimed.begin = task[b].begin /\ claimed.end = task[b].end
    BY <1>2 DEF TaskType
  <2> HIDE DEF claimed
  <2> QED
    BY <1>2, <2>1, <2>2
<1>4. /\ Active' = Active /\ Blocks' = Blocks /\ CallInv' /\ b < Blocks
      /\ \A c \in Slots \ {b} : /\ Claimed(c)' = Claimed(c) /\ Busy(c)' = Busy(c)
                                /\ Reached(c)' = Reached(c)
  BY <1>1, <1>2, <1>3, TaskFrame
<1>5. Claimed(b)' /\ ~Claimed(b) /\ Busy(b)' /\ Reached(b)' = task[b].begin /\ task[b].begin \in Nat
  BY <1>1, <1>2, <1>3, <1>4, TaskFields DEF Claimed, Busy, Reached
<1>6. BuffersTyped'
  BY <1>1, <1>2 DEF BuffersTyped
<1>7. ClaimInv'
  <2>1. \A c \in Slots \ {b} : Claimed(c)' =>
            /\ Claimed(c) /\ task'[c].workspace = task[c].workspace /\ task[c].workspace < next_workspace
            /\ task[c].workspace \in Nat
    BY <1>2, <1>3, <1>4 DEF ClaimInv, TasksTyped, TaskType
  <2>2. ASSUME NEW c \in Slots, Claimed(c)' PROVE task'[c].workspace < next_workspace'
    <3>1. CASE c = b
      BY <1>1, <1>2, <1>3, <3>1
    <3>2. CASE c # b
      BY <1>1, <1>2, <2>1, <2>2, <3>2
    <3> QED
      BY <3>1, <3>2
  <2>3. ASSUME NEW c \in Slots, NEW e \in Slots \ {c}, Claimed(c)', Claimed(e)'
        PROVE  task'[e].workspace # task'[c].workspace
    <3>1. CASE c = b
      BY <1>2, <1>3, <2>1, <2>3, <3>1
    <3>2. CASE e = b
      BY <1>2, <1>3, <2>1, <2>3, <3>2
    <3>3. CASE c # b /\ e # b
      BY <1>2, <2>1, <2>3, <3>3 DEF ClaimInv
    <3> QED
      BY <3>1, <3>2, <3>3
  <2>4. ASSUME NEW w \in 0..(next_workspace' - 1)
        PROVE  \E c \in Slots : Claimed(c)' /\ task'[c].workspace = w
    <3>1. CASE w = next_workspace
      BY <1>3, <1>5, <3>1
    <3>2. CASE w # next_workspace
      <4>1. w \in 0..(next_workspace - 1)
        BY <1>1, <1>2, <3>2
      <4>2. PICK c \in Slots : Claimed(c) /\ task[c].workspace = w
        BY <1>2, <4>1 DEF ClaimInv
      <4>3. c # b
        BY <1>5, <4>2
      <4> QED
        BY <1>3, <1>4, <4>2, <4>3
    <3> QED
      BY <3>1, <3>2
  <2> QED
    BY <2>2, <2>3, <2>4 DEF ClaimInv
<1>8. FrameInv'
  <2>1. ASSUME NEW c \in Slots, task'[c].phase = "transform"
        PROVE  task'[c].frame < task'[c].end /\ fft_input'[task'[c].workspace] = task'[c].frame
    <3>1. c # b
      BY <1>3, <2>1
    <3> QED
      BY <1>1, <1>2, <1>3, <2>1, <3>1 DEF FrameInv
  <2>2. \A f \in FrameSet : f >= Active' => features'[f] = Initial
    BY <1>1, <1>2, <1>4 DEF FrameInv
  <2>3. ASSUME NEW c \in Slots, Claimed(c)', NEW f \in task'[c].begin..(Reached(c)' - 1)
        PROVE  f \in FrameSet /\ features'[f] = f
    <3>1. CASE c = b
      BY <1>3, <1>5, <3>1
    <3>2. CASE c # b
      <4>1. task'[c] = task[c] /\ Claimed(c) /\ Reached(c)' = Reached(c)
        BY <1>3, <1>4, <2>3, <3>2
      <4> QED
        BY <1>1, <1>2, <4>1 DEF FrameInv
    <3> QED
      BY <3>1, <3>2
  <2> QED
    BY <2>1, <2>2, <2>3 DEF FrameInv
<1>9. MaximaInv'
  <2>1. ASSUME NEW c \in Slots
        PROVE /\ Busy(c)' /\ loudest' \in task'[c].begin..(task'[c].frame - 1) => task'[c].local_maximum = 1
              /\ Claimed(c)' /\ ~ Busy(c)' /\ loudest' \in task'[c].begin..(task'[c].end - 1)
                    => thread_maxima'[task'[c].workspace] = 1
    <3>1. CASE c = b
      BY <1>3, <1>5, <3>1
    <3>2. CASE c # b
      <4>1. task'[c] = task[c] /\ Claimed(c)' = Claimed(c) /\ Busy(c)' = Busy(c)
        BY <1>3, <1>4, <3>2
      <4> QED
        BY <1>1, <1>2, <4>1 DEF MaximaInv
    <3> QED
      BY <3>1, <3>2
  <2> QED
    BY <2>1 DEF MaximaInv
<1> QED
  BY <1>1, <1>2, <1>4, <1>6, <1>7, <1>8, <1>9 DEF FeaturesInv, Progress, Normalised

(* The other steps keep the workspaces. *)
LEMMA ClaimsKept ==
    ASSUME ClaimInv, NEW b \in Slots, Claimed(b), Claimed(b)', UNCHANGED next_workspace,
           \A c \in Slots \ {b} : task'[c] = task[c] /\ Claimed(c)' = Claimed(c),
           task'[b].workspace = task[b].workspace
    PROVE  ClaimInv'
<1>1. \A c \in Slots : Claimed(c)' = Claimed(c) /\ task'[c].workspace = task[c].workspace
  <2>1. ASSUME NEW c \in Slots PROVE Claimed(c)' = Claimed(c) /\ task'[c].workspace = task[c].workspace
    <3>1. CASE c = b
      <4>1. Claimed(b)' = Claimed(b)
        BY DEF Claimed
      <4> QED
        BY <3>1, <4>1
    <3> QED
      BY <3>1
  <2> QED
    BY <2>1
<1> QED
  BY <1>1 DEF ClaimInv

(* make_windowed_frame writes the buffers of its own workspace only. *)
LEMMA WindowProgress ==
    ASSUME WorkspaceInv, FeaturesInv, NEW b \in Slots, WindowFrame(b)
    PROVE  FeaturesInv'
<1>1. /\ task[b].phase = "window" /\ task[b].frame < task[b].end
      /\ UNCHANGED <<feat_pc, num_threads, copied_samples, loudest, maximum, next_workspace, thread_maxima, features>>
      /\ task' = [task EXCEPT ![b].phase = "transform"]
      /\ fft_input' = [fft_input EXCEPT ![task[b].workspace] = task[b].frame]
  BY DEF WindowFrame, featCall
<1>2. /\ TasksTyped /\ BuffersTyped /\ feat_pc = "wait" /\ CallInv /\ ClaimInv /\ FrameInv /\ MaximaInv
      /\ task[b] \in TaskType /\ DOMAIN task = Slots
      /\ next_workspace \in Nat /\ next_workspace <= num_threads
  BY <1>1, WaitFacts
<1>3. /\ task'[b].phase = "transform" /\ task'[b].workspace = task[b].workspace
      /\ task'[b].frame = task[b].frame /\ task'[b].local_maximum = task[b].local_maximum
      /\ task'[b].begin = task[b].begin /\ task'[b].end = task[b].end
      /\ \A c \in Slots \ {b} : task'[c] = task[c]
  BY <1>1, <1>2 DEF TaskType
<1>4. /\ Active' = Active /\ Blocks' = Blocks /\ CallInv' /\ b < Blocks
      /\ \A c \in Slots \ {b} : /\ Claimed(c)' = Claimed(c) /\ Busy(c)' = Busy(c)
                                /\ Reached(c)' = Reached(c)
  BY <1>1, <1>2, <1>3, TaskFrame
<1>5. Claimed(b)' /\ Claimed(b) /\ Busy(b)' /\ Busy(b) /\ Reached(b)' = Reached(b)
  BY <1>1, <1>3, <1>4 DEF Claimed, Busy, Reached
<1>6. /\ task[b].workspace \in Nat /\ task[b].frame \in Nat /\ task[b].end \in Nat
      /\ task[b].workspace < next_workspace
      /\ num_threads \in Nat
  BY <1>2, <1>5, TaskFields, ConstantFacts DEF ClaimInv, TasksTyped
<1>7. task[b].workspace \in 0..(num_threads - 1) /\ task[b].frame \in Initial..(Frames - 1)
  <2>1. task[b].end = BlockEnd(copied_samples, b) /\ BlockEnd(copied_samples, b) <= Active /\ Active \in 1..Frames
    BY <1>2, <1>4, BlockFacts DEF CallInv
  <2> QED
    BY <1>1, <1>2, <1>6, <2>1, ConstantFacts DEF Initial
<1>8. BuffersTyped'
  <2>1. fft_input' \in [0..(num_threads' - 1) -> Initial..(Frames - 1)]
    BY <1>1, <1>2, <1>7 DEF BuffersTyped
  <2> QED
    BY <1>1, <1>2, <2>1 DEF BuffersTyped
<1>9. ClaimInv'
  BY <1>1, <1>2, <1>3, <1>4, <1>5, ClaimsKept
<1>10. FrameInv'
  <2>1. ASSUME NEW c \in Slots, task'[c].phase = "transform"
        PROVE  task'[c].frame < task'[c].end /\ fft_input'[task'[c].workspace] = task'[c].frame
    <3>1. CASE c = b
      BY <1>1, <1>2, <1>3, <1>7, <3>1 DEF BuffersTyped
    <3>2. CASE c # b
      <4>1. task'[c] = task[c]
        BY <1>3, <3>2
      <4>2. Claimed(c)
        BY <1>2, <2>1, <4>1 DEF Claimed, CallInv
      <4>3. task[c].workspace # task[b].workspace
        BY <1>2, <1>5, <3>2, <4>2 DEF ClaimInv
      <4>4. fft_input'[task[c].workspace] = fft_input[task[c].workspace]
        <5>1. task[c].workspace \in 0..(num_threads - 1)
          <6>1. task[c].workspace \in Nat /\ task[c].workspace < next_workspace
            BY <1>2, <4>2 DEF ClaimInv, TasksTyped, TaskType
          <6> QED
            BY <1>2, <1>6, <6>1
        <5> QED
          BY <1>1, <1>2, <4>3, <5>1 DEF BuffersTyped
      <4> QED
        BY <1>2, <2>1, <4>1, <4>4 DEF FrameInv
    <3> QED
      BY <3>1, <3>2
  <2>2. \A f \in FrameSet : f >= Active' => features'[f] = Initial
    BY <1>1, <1>2, <1>4 DEF FrameInv
  <2>3. ASSUME NEW c \in Slots, Claimed(c)', NEW f \in task'[c].begin..(Reached(c)' - 1)
        PROVE  f \in FrameSet /\ features'[f] = f
    <3>1. task'[c].begin = task[c].begin /\ Claimed(c) /\ Reached(c)' = Reached(c)
      BY <1>3, <1>4, <1>5, <2>3
    <3> QED
      BY <1>1, <1>2, <3>1 DEF FrameInv
  <2> QED
    BY <2>1, <2>2, <2>3 DEF FrameInv
<1>11. MaximaInv'
  <2>1. ASSUME NEW c \in Slots
        PROVE /\ Busy(c)' /\ loudest' \in task'[c].begin..(task'[c].frame - 1) => task'[c].local_maximum = 1
              /\ Claimed(c)' /\ ~ Busy(c)' /\ loudest' \in task'[c].begin..(task'[c].end - 1)
                    => thread_maxima'[task'[c].workspace] = 1
    <3>1. CASE c = b
      BY <1>1, <1>2, <1>3, <1>5, <3>1 DEF MaximaInv
    <3>2. CASE c # b
      <4>1. task'[c] = task[c] /\ Claimed(c)' = Claimed(c) /\ Busy(c)' = Busy(c)
        BY <1>3, <1>4, <3>2
      <4> QED
        BY <1>1, <1>2, <4>1 DEF MaximaInv
    <3> QED
      BY <3>1, <3>2
  <2> QED
    BY <2>1 DEF MaximaInv
<1> QED
  BY <1>1, <1>2, <1>4, <1>8, <1>9, <1>10, <1>11 DEF FeaturesInv, Progress, Normalised

(* The features are computed from the frame the task put into its own      *)
(* workspace, and go to that frame's place.                                *)
LEMMA TransformProgress ==
    ASSUME WorkspaceInv, FeaturesInv, NEW b \in Slots, TransformFrame(b)
    PROVE  FeaturesInv'
<1> DEFINE source == fft_input[task[b].workspace]
<1>1. /\ task[b].phase = "transform"
      /\ UNCHANGED <<feat_pc, num_threads, copied_samples, loudest, maximum, next_workspace, thread_maxima, fft_input>>
      /\ task' = [task EXCEPT ![b].phase = "window", ![b].frame = @ + 1,
                              ![b].local_maximum = Greater(@, Energy(source))]
      /\ features' = [features EXCEPT ![task[b].frame] = source]
  BY DEF TransformFrame, featCall
<1>2. /\ TasksTyped /\ BuffersTyped /\ feat_pc = "wait" /\ CallInv /\ ClaimInv /\ FrameInv /\ MaximaInv
      /\ task[b] \in TaskType /\ DOMAIN task = Slots
      /\ next_workspace \in Nat /\ next_workspace <= num_threads
  BY <1>1, WaitFacts
<1>s. source = task[b].frame /\ task[b].frame < task[b].end
  BY <1>1, <1>2 DEF FrameInv
<1> DEFINE m == Greater(task[b].local_maximum, Energy(task[b].frame))
<1>3. /\ task'[b].phase = "window" /\ task'[b].workspace = task[b].workspace
      /\ task'[b].frame = task[b].frame + 1 /\ task'[b].local_maximum = m
      /\ task'[b].begin = task[b].begin /\ task'[b].end = task[b].end
      /\ \A c \in Slots \ {b} : task'[c] = task[c]
  BY <1>1, <1>2, <1>s DEF TaskType
<1>4. /\ Active' = Active /\ Blocks' = Blocks /\ CallInv' /\ b < Blocks
      /\ \A c \in Slots \ {b} : /\ Claimed(c)' = Claimed(c) /\ Busy(c)' = Busy(c)
                                /\ Reached(c)' = Reached(c)
  BY <1>1, <1>2, <1>3, TaskFrame
<1>5. /\ Claimed(b)' /\ Claimed(b) /\ Busy(b)' /\ Busy(b) /\ Reached(b)' = task[b].frame + 1
      /\ Reached(b) = task[b].frame
  BY <1>1, <1>3, <1>4 DEF Claimed, Busy, Reached
<1>6. /\ task[b].begin \in Nat /\ task[b].frame \in Nat /\ task[b].end \in Nat
      /\ task[b].local_maximum \in Initial..1 /\ Active \in 1..Frames
      /\ \A c \in Slots : c < Blocks => task[c].end <= Active
      /\ \A c \in Slots : task[c].end \in Nat
  BY <1>2, TaskFields, BlockFacts DEF CallInv, TasksTyped
<1>7. task[b].frame < Active /\ task[b].frame \in FrameSet /\ task[b].frame \in Initial..(Frames - 1)
  BY <1>4, <1>6, <1>s, ConstantFacts DEF FrameSet, Initial
<1> HIDE DEF source
<1>8. BuffersTyped'
  <2>1. features' \in [FrameSet -> Initial..(Frames - 1)]
    BY <1>1, <1>2, <1>7, <1>s DEF BuffersTyped
  <2> QED
    BY <1>1, <1>2, <2>1 DEF BuffersTyped
<1>9. ClaimInv'
  BY <1>1, <1>2, <1>3, <1>4, <1>5, ClaimsKept
<1>o. /\ features'[task[b].frame] = task[b].frame
      /\ \A f \in FrameSet : f # task[b].frame => features'[f] = features[f]
  BY <1>1, <1>2, <1>7, <1>s DEF BuffersTyped
<1>10. FrameInv'
  <2>1. ASSUME NEW c \in Slots, task'[c].phase = "transform"
        PROVE  task'[c].frame < task'[c].end /\ fft_input'[task'[c].workspace] = task'[c].frame
    <3>1. c # b
      BY <1>3, <2>1
    <3> QED
      BY <1>1, <1>2, <1>3, <2>1, <3>1 DEF FrameInv
  <2>2. ASSUME NEW f \in FrameSet, f >= Active' PROVE features'[f] = Initial
    <3>1. f # task[b].frame
      BY <1>4, <1>6, <1>7, <2>2
    <3> QED
      BY <1>2, <1>4, <1>o, <2>2, <3>1 DEF FrameInv
  <2>3. ASSUME NEW c \in Slots, Claimed(c)', NEW f \in task'[c].begin..(Reached(c)' - 1)
        PROVE  f \in FrameSet /\ features'[f] = f
    <3>1. CASE f = task[b].frame
      BY <1>7, <1>o, <3>1
    <3>2. CASE f # task[b].frame
      <4>1. Claimed(c) /\ f \in task[c].begin..(Reached(c) - 1)
        <5>1. CASE c = b
          BY <1>3, <1>5, <1>6, <2>3, <3>2, <5>1
        <5>2. CASE c # b
          BY <1>3, <1>4, <2>3, <5>2
        <5> QED
          BY <5>1, <5>2
      <4>2. f \in FrameSet /\ features[f] = f
        BY <1>2, <4>1 DEF FrameInv
      <4> QED
        BY <1>o, <3>2, <4>2
    <3> QED
      BY <3>1, <3>2
  <2> QED
    BY <2>1, <2>2, <2>3 DEF FrameInv
<1>11. MaximaInv'
  <2>1. Energy(task[b].frame) = (IF task[b].frame = loudest THEN 1 ELSE 0)
    BY DEF Energy
  <2>2. m \in Initial..1 /\ (task[b].frame = loudest => m = 1) /\ (task[b].local_maximum = 1 => m = 1)
    BY <1>6, <2>1 DEF Greater, Initial
  <2> HIDE DEF m
  <2>3. ASSUME loudest \in task[b].begin..task[b].frame PROVE m = 1
    <3>1. CASE loudest = task[b].frame
      BY <2>2, <3>1
    <3>2. CASE loudest # task[b].frame
      <4>1. loudest \in task[b].begin..(task[b].frame - 1)
        BY <1>6, <2>3, <3>2
      <4> QED
        BY <1>2, <1>5, <2>2, <4>1 DEF MaximaInv
    <3> QED
      BY <3>1, <3>2
  <2>4. ASSUME NEW c \in Slots
        PROVE /\ Busy(c)' /\ loudest' \in task'[c].begin..(task'[c].frame - 1) => task'[c].local_maximum = 1
              /\ Claimed(c)' /\ ~ Busy(c)' /\ loudest' \in task'[c].begin..(task'[c].end - 1)
                    => thread_maxima'[task'[c].workspace] = 1
    <3>1. CASE c = b
      <4>1. task'[b].frame - 1 = task[b].frame
        BY <1>3, <1>6
      <4> QED
        BY <1>1, <1>3, <1>5, <2>3, <3>1, <4>1
    <3>2. CASE c # b
      <4>1. task'[c] = task[c] /\ Claimed(c)' = Claimed(c) /\ Busy(c)' = Busy(c)
        BY <1>3, <1>4, <3>2
      <4> QED
        BY <1>1, <1>2, <4>1 DEF MaximaInv
    <3> QED
      BY <3>1, <3>2
  <2> QED
    BY <2>4 DEF MaximaInv
<1> QED
  BY <1>1, <1>2, <1>4, <1>8, <1>9, <1>10, <1>11 DEF FeaturesInv, Progress, Normalised

(* The maximum of the block goes to the task's own place. *)
LEMMA FinishProgress ==
    ASSUME WorkspaceInv, FeaturesInv, NEW b \in Slots, FinishTask(b)
    PROVE  FeaturesInv'
<1>1. /\ task[b].phase = "window" /\ task[b].frame = task[b].end
      /\ UNCHANGED <<feat_pc, num_threads, copied_samples, loudest, maximum, next_workspace, fft_input, features>>
      /\ task' = [task EXCEPT ![b].phase = "none"]
      /\ thread_maxima' = [thread_maxima EXCEPT ![task[b].workspace] = task[b].local_maximum]
  BY DEF FinishTask, featCall
<1>2. /\ TasksTyped /\ BuffersTyped /\ feat_pc = "wait" /\ CallInv /\ ClaimInv /\ FrameInv /\ MaximaInv
      /\ task[b] \in TaskType /\ DOMAIN task = Slots
      /\ next_workspace \in Nat /\ next_workspace <= num_threads
  BY <1>1, WaitFacts
<1>3. /\ task'[b].phase = "none" /\ task'[b].workspace = task[b].workspace
      /\ task'[b].begin = task[b].begin /\ task'[b].end = task[b].end
      /\ \A c \in Slots \ {b} : task'[c] = task[c]
  BY <1>1, <1>2 DEF TaskType
<1>4. /\ Active' = Active /\ Blocks' = Blocks /\ CallInv' /\ b < Blocks
      /\ \A c \in Slots \ {b} : /\ Claimed(c)' = Claimed(c) /\ Busy(c)' = Busy(c)
                                /\ Reached(c)' = Reached(c)
  BY <1>1, <1>2, <1>3, TaskFrame
<1>5. Claimed(b)' /\ Claimed(b) /\ ~Busy(b)' /\ Busy(b) /\ Reached(b)' = Reached(b)
  BY <1>1, <1>3, <1>4 DEF Claimed, Busy, Reached
<1>6. \A c \in Slots : Claimed(c) => task[c].workspace \in 0..(num_threads - 1)
  <2>1. num_threads \in Nat
    BY <1>2, ConstantFacts DEF TasksTyped
  <2>2. ASSUME NEW c \in Slots, Claimed(c) PROVE task[c].workspace \in 0..(num_threads - 1)
    <3>1. task[c].workspace \in Nat /\ task[c].workspace < next_workspace
      BY <1>2, <2>2 DEF ClaimInv, TasksTyped, TaskType
    <3> QED
      BY <1>2, <2>1, <3>1
  <2> QED
    BY <2>2
<1>7. BuffersTyped'
  <2>1. task[b].local_maximum \in Initial..1
    BY <1>2, TaskFields
  <2>2. thread_maxima' \in [0..(num_threads' - 1) -> Initial..1]
    BY <1>1, <1>2, <1>5, <1>6, <2>1 DEF BuffersTyped
  <2> QED
    BY <1>1, <1>2, <2>2 DEF BuffersTyped
<1>8. ClaimInv'
  BY <1>1, <1>2, <1>3, <1>4, <1>5, ClaimsKept
<1>9. FrameInv'
  <2>1. ASSUME NEW c \in Slots, task'[c].phase = "transform"
        PROVE  task'[c].frame < task'[c].end /\ fft_input'[task'[c].workspace] = task'[c].frame
    <3>1. c # b
      BY <1>3, <2>1
    <3> QED
      BY <1>1, <1>2, <1>3, <2>1, <3>1 DEF FrameInv
  <2>2. \A f \in FrameSet : f >= Active' => features'[f] = Initial
    BY <1>1, <1>2, <1>4 DEF FrameInv
  <2>3. ASSUME NEW c \in Slots, Claimed(c)', NEW f \in task'[c].begin..(Reached(c)' - 1)
        PROVE  f \in FrameSet /\ features'[f] = f
    <3>1. task'[c].begin = task[c].begin /\ Claimed(c) /\ Reached(c)' = Reached(c)
      BY <1>3, <1>4, <1>5, <2>3
    <3> QED
      BY <1>1, <1>2, <3>1 DEF FrameInv
  <2> QED
    BY <2>1, <2>2, <2>3 DEF FrameInv
<1>10. MaximaInv'
  <2>1. ASSUME NEW c \in Slots
        PROVE /\ Busy(c)' /\ loudest' \in task'[c].begin..(task'[c].frame - 1) => task'[c].local_maximum = 1
              /\ Claimed(c)' /\ ~ Busy(c)' /\ loudest' \in task'[c].begin..(task'[c].end - 1)
                    => thread_maxima'[task'[c].workspace] = 1
    <3>1. CASE c = b
      <4>1. thread_maxima'[task[b].workspace] = task[b].local_maximum
        BY <1>1, <1>2, <1>5, <1>6 DEF BuffersTyped
      <4> QED
        BY <1>1, <1>2, <1>3, <1>5, <3>1, <4>1 DEF MaximaInv
    <3>2. CASE c # b
      <4>1. task'[c] = task[c] /\ Claimed(c)' = Claimed(c) /\ Busy(c)' = Busy(c)
        BY <1>3, <1>4, <3>2
      <4>2. Claimed(c) => thread_maxima'[task[c].workspace] = thread_maxima[task[c].workspace]
        <5>1. ASSUME Claimed(c) PROVE task[c].workspace # task[b].workspace
          BY <1>2, <1>5, <3>2, <5>1 DEF ClaimInv
        <5> QED
          BY <1>1, <1>2, <1>6, <5>1 DEF BuffersTyped
      <4> QED
        BY <1>1, <1>2, <4>1, <4>2 DEF MaximaInv
    <3> QED
      BY <3>1, <3>2
  <2> QED
    BY <2>1 DEF MaximaInv
<1> QED
  BY <1>1, <1>2, <1>4, <1>7, <1>8, <1>9, <1>10 DEF FeaturesInv, Progress, Normalised

LEMMA MaximumIsOne ==
    ASSUME NEW S, 1 \in S, \A x \in S : x \in Initial..1
    PROVE  MaximumOf(S) = 1
<1>1. \E m \in S : \A n \in S : m >= n
  BY DEF Initial
<1> DEFINE m == CHOOSE m \in S : \A n \in S : m >= n
<1>2. m \in S /\ \A n \in S : m >= n
  BY <1>1
<1> HIDE DEF m
<1>3. m >= 1 /\ m \in Initial..1
  BY <1>2
<1>4. m = 1
  BY <1>3 DEF Initial
<1> QED
  BY <1>4 DEF MaximumOf, m

(* No task is left: every block is done, and the block of the loudest      *)
(* frame has left its maximum in one of the places the caller looks at.    *)
LEMMA NormalizeProgress ==
    ASSUME WorkspaceInv, FeaturesInv, Normalize
    PROVE  FeaturesInv'
<1>1. /\ feat_pc = "wait" /\ feat_pc' = "done" /\ \A b \in Slots : task[b].phase = "none"
      /\ maximum' = MaximumOf({thread_maxima[w] : w \in 0..(next_workspace - 1)})
      /\ UNCHANGED <<num_threads, copied_samples, loudest, next_workspace, task, fft_input,
                     thread_maxima, features>>
  BY DEF Normalize
<1>2. TasksTyped /\ BuffersTyped /\ CallInv /\ ClaimInv /\ FrameInv /\ MaximaInv /\ Counted
  BY <1>1 DEF WorkspaceInv, FeaturesInv, Progress
<1>3. \A b \in Slots : ~Busy(b) /\ (b < Blocks => Claimed(b)) /\ Reached(b) = task[b].end
  BY <1>1 DEF Busy, Claimed, Reached
<1>4. /\ Active \in 1..Frames
      /\ \A f \in 0..(Active - 1) :
            \E b \in Slots : b < Blocks /\ f \in task[b].begin..(task[b].end - 1)
  BY <1>2, BlockFacts DEF CallInv
<1>5. ASSUME NEW f \in FrameSet PROVE features[f] = IF f < Active THEN f ELSE Initial
  <2>1. CASE f < Active
    <3>1. f \in 0..(Active - 1)
      BY <1>4, <2>1, ConstantFacts DEF FrameSet
    <3>2. PICK b \in Slots : b < Blocks /\ f \in task[b].begin..(task[b].end - 1)
      BY <1>4, <3>1
    <3> QED
      BY <1>2, <1>3, <2>1, <3>2 DEF FrameInv
  <2>2. CASE ~(f < Active)
    <3>1. f >= Active
      BY <1>4, <2>2, ConstantFacts DEF FrameSet
    <3> QED
      BY <1>2, <2>2, <3>1 DEF FrameInv
  <2> QED
    BY <2>1, <2>2
<1>6. loudest \in 0..(Active - 1)
  BY <1>2 DEF CallInv
<1>7. MaximumOf({thread_maxima[w] : w \in 0..(next_workspace - 1)}) = 1
  <2>1. PICK b \in Slots : b < Blocks /\ loudest \in task[b].begin..(task[b].end - 1)
    BY <1>4, <1>6
  <2>2. thread_maxima[task[b].workspace] = 1 /\ task[b].workspace < next_workspace
    BY <1>2, <1>3, <2>1 DEF MaximaInv, ClaimInv
  <2>3. task[b].workspace \in Nat /\ next_workspace \in Nat /\ num_threads \in Nat /\ next_workspace <= num_threads
    BY <1>2, SlotsFinite, ConstantFacts DEF TasksTyped, TaskType, Counted
  <2>4. 1 \in {thread_maxima[w] : w \in 0..(next_workspace - 1)}
    BY <2>2, <2>3
  <2>5. \A w \in 0..(next_workspace - 1) : thread_maxima[w] \in Initial..1
    BY <1>2, <2>3 DEF BuffersTyped
  <2> QED
    BY <2>4, <2>5, MaximumIsOne
<1>8. MaximumOf({Energy(f) : f \in 0..(Active - 1)}) = 1
  <2>1. Energy(loudest) = 1 /\ \A f \in 0..(Active - 1) : Energy(f) \in Initial..1
    BY DEF Energy, Initial
  <2> QED
    BY <1>6, <2>1, MaximumIsOne
<1>9. BuffersTyped'
  <2>1. maximum' \in Initial..1
    BY <1>1, <1>7 DEF Initial
  <2> QED
    BY <1>1, <1>2, <2>1 DEF BuffersTyped
<1>10. Active' = Active /\ \A f : Energy(f)' = Energy(f)
  BY <1>1 DEF Active, ActiveFrames, Energy
<1>11. Progress'
  BY <1>1 DEF Progress
<1>12. Normalised'
  <2>1. MaximumOf({Energy(f) : f \in 0..(Active - 1)})' = MaximumOf({Energy(f) : f \in 0..(Active - 1)})
    BY <1>1, <1>10 DEF MaximumOf, Energy
  <2> QED
    BY <1>1, <1>5, <1>7, <1>8, <1>10, <2>1 DEF Normalised
<1> QED
  BY <1>9, <1>11, <1>12 DEF FeaturesInv

LEMMA FeaturesStep == WorkspaceInv /\ FeaturesInv /\ [FeatNext]_featVars => FeaturesInv'
<1> SUFFICES ASSUME WorkspaceInv, FeaturesInv, [FeatNext]_featVars PROVE FeaturesInv'
  OBVIOUS
<1>1. CASE Return
  <2>1. /\ feat_pc = "done" /\ feat_pc' = "idle"
        /\ UNCHANGED <<num_threads, copied_samples, loudest, task, fft_input, thread_maxima, features, maximum>>
    BY <1>1 DEF Return
  <2> QED
    BY <2>1 DEF FeaturesInv, BuffersTyped, Progress, Normalised
<1>2. CASE UNCHANGED featVars
  <2>1. UNCHANGED <<feat_pc, num_threads, copied_samples, loudest, next_workspace, task, fft_input,
                    thread_maxima, features, maximum>>
    BY <1>2 DEF featVars
  <2>2. BuffersTyped'
    BY <2>1 DEF FeaturesInv, BuffersTyped
  <2>3. Progress'
    BY <2>1 DEF FeaturesInv, Progress, CallInv, ClaimInv, FrameInv, MaximaInv, Claimed, Busy, Reached,
                Active, Blocks, ActiveFrames, NumBlocks, BlockStart, BlockEnd
  <2>4. Normalised'
    BY <2>1 DEF FeaturesInv, Normalised, Active, ActiveFrames, MaximumOf, Energy
  <2> QED
    BY <2>2, <2>3, <2>4 DEF FeaturesInv
<1>3. WorkspaceInv'
  BY WorkspaceStep
<1> QED
  BY <1>1, <1>2, <1>3, CallProgress, ClaimProgress, WindowProgress, TransformProgress, FinishProgress,
     NormalizeProgress DEF FeatNext, TaskStep

(* Whatever the number of threads, frames and samples and however the pool *)
(* schedules its tasks, when wait returns every frame with audio has the   *)
(* features of its own samples, no other frame has been touched, and the   *)
(* caller normalises with the highest value of all.                        *)
THEOREM FeaturesAreComplete == FeatSpec => []FeaturesComplete
<1>1. WorkspaceInv /\ FeaturesInv => FeaturesComplete
  <2> SUFFICES ASSUME WorkspaceInv, FeaturesInv PROVE FeaturesComplete
    OBVIOUS
  <2>1. FeatTypeOK
    BY DEF WorkspaceInv, TasksTyped, FeaturesInv, BuffersTyped, FeatTypeOK
  <2> QED
    BY <2>1 DEF FeaturesInv, Normalised, FeaturesComplete, Active
<1> QED
  BY <1>1, InitCorrect, InitFeatures, WorkspaceStep, FeaturesStep, PTL DEF FeatSpec

(* A frame that is left out starts its window after the last sample, and   *)
(* what its window mirrors at the end of the chunk lies after it too.      *)
THEOREM SkippedFramesAreSilent == FeatSpec => []SkippedFramesSilent
<1>1. BuffersTyped => SkippedFramesSilent
  <2> SUFFICES ASSUME BuffersTyped,
                      NEW f \in ActiveFrames(copied_samples)..(Frames - 1),
                      NEW k \in (f * HopLength - FftHalfSize)..(f * HopLength + FftHalfSize - 1)
               PROVE  ReflectedIndex(k) >= copied_samples
    BY DEF SkippedFramesSilent
  <2> DEFINE n == copied_samples
             h == HopLength
             c == ChunkSamples
             a == n + FftHalfSize
             ceil == CeilDivide(a, h)
  <2>1. n \in Nat /\ h \in Nat \ {0} /\ c \in Nat /\ FftHalfSize \in Nat /\ Frames \in Nat /\ c = Frames * h
    BY ConstantFacts DEF BuffersTyped, ChunkSamples
  <2>2. ceil \in Nat /\ a <= ceil * h
    <3>1. a + h - 1 \in Nat
      BY <2>1
    <3>2. (a + h - 1) \div h \in Nat /\ a + h - 1 < ((a + h - 1) \div h) * h + h
      BY <2>1, <3>1, DivideFloor
    <3>3. ceil = (a + h - 1) \div h
      BY DEF CeilDivide
    <3> HIDE DEF ceil, a
    <3>4. a \in Nat /\ ceil * h \in Nat
      BY <2>1, <3>2, <3>3 DEF a
    <3> QED
      BY <2>1, <3>2, <3>3, <3>4
  <2>3. ActiveFrames(n) = AtMost(Frames, ceil)
    BY DEF ActiveFrames
  <2> HIDE DEF ceil, n, h, c
  <2>4. f \in Nat /\ f >= ceil /\ f + 1 <= Frames
    BY <2>1, <2>2, <2>3 DEF AtMost, n
  <2>5. a <= f * h /\ f * h \in Nat
    <3>1. ceil * h <= f * h /\ ceil * h \in Nat /\ f * h \in Nat
      BY <2>1, <2>2, <2>4, ProductMonotone
    <3> QED
      BY <2>1, <2>2, <3>1
  <2>6. f * h + h <= c
    <3>1. (f + 1) * h <= Frames * h
      BY <2>1, <2>4, ProductMonotone
    <3>2. (f + 1) * h = f * h + h
      BY <2>1, <2>4
    <3> QED
      BY <2>1, <3>1, <3>2
  <2>7. k \in Int /\ k >= f * h - FftHalfSize /\ k <= f * h + FftHalfSize - 1
    BY <2>1, <2>5 DEF h
  <2> DEFINE p == f * h
  <2>8. p \in Nat /\ n + FftHalfSize <= p /\ p + h <= c /\ k >= p - FftHalfSize /\ k <= p + FftHalfSize - 1
    BY <2>5, <2>6, <2>7
  <2> HIDE DEF p
  <2>9. k >= n /\ k >= 0 /\ 2 * c - k - 2 >= n
    BY <2>1, <2>7, <2>8
  <2>10. ReflectedIndex(k) >= n
    BY <2>7, <2>9 DEF ReflectedIndex, c
  <2> QED
    BY <2>10 DEF n
<1>2. FeaturesInv => BuffersTyped
  BY DEF FeaturesInv
<1> QED
  BY <1>1, <1>2, InitCorrect, InitFeatures, WorkspaceStep, FeaturesStep, PTL DEF FeatSpec
==============================================================================
