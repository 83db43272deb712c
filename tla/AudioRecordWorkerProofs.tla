----------------------- MODULE AudioRecordWorkerProofs -----------------------
(***************************************************************************)
(* The ownership of chunks for every number of chunks, every queue and     *)
(* pool limit and every source: who holds a chunk is inductive once it is  *)
(* known for every point of the two threads which hands hold one (Hands),  *)
(* that they are apart (Apart) and whether it is closed (Flags).  And the  *)
(* pool never overflows: a chunk is allocated only while the pool is       *)
(* empty, so no more are referred to than fit into the queue and the two   *)
(* hands that may hold one then.                                           *)
(***************************************************************************)
EXTENDS AudioRecordWorker, FiniteSetTheorems, TLAPS

Holding == RecorderOwns \cup {"release refused", "close", "release"}

Hands ==
    /\ chunk # 0 <=> rec_pc \in Holding
    /\ old # 0 <=> rec_pc \in {"drop", "release old"}
    /\ held # 0 <=> inf_pc # "poll"

(* After a listener's exception the chunk in the recorder's hand may be in *)
(* the pool already: the second close finds it released.                   *)
Apart ==
    /\ chunk # 0 => /\ chunk # old /\ chunk # held /\ chunk \notin Queued
                    /\ chunk \in Pooled => rec_pc = "close" /\ chunk \in released
    /\ old # 0 => old # held /\ old \notin Pooled \cup Queued
    /\ held # 0 => held \notin Pooled \cup Queued
    /\ Distinct(freeBuffers) /\ Distinct(queue)

Flags ==
    /\ UsedWhileOwned
    /\ rec_pc \in {"release refused", "release"} => chunk \in released
    /\ rec_pc = "drop" => old \notin released
    /\ rec_pc = "release old" => old \in released
    /\ inf_pc = "close" => held \in released

OwnershipInv == TypeOK /\ Hands /\ Apart /\ Flags /\ NoChunkLost

-----------------------------------------------------------------------------
(* What the three operations on sequences do to the elements. *)

LEMMA TailElements ==
    ASSUME NEW S, NEW s \in Seq(S), s # <<>>
    PROVE  /\ Head(s) \in S /\ Head(s) = s[1] /\ Len(s) \in Nat /\ Len(s) > 0
           /\ Tail(s) \in Seq(S) /\ Len(Tail(s)) = Len(s) - 1
           /\ \A i \in 1..Len(Tail(s)) : Tail(s)[i] = s[i + 1]
BY SMT

LEMMA AppendElements ==
    ASSUME NEW S, NEW s \in Seq(S), NEW e \in S
    PROVE  /\ Append(s, e) \in Seq(S) /\ Len(Append(s, e)) = Len(s) + 1 /\ Len(s) \in Nat
           /\ \A i \in 1..Len(s) : Append(s, e)[i] = s[i]
           /\ Append(s, e)[Len(s) + 1] = e
BY SMT

LEMMA PushElements ==
    ASSUME NEW S, NEW s \in Seq(S), NEW e \in S
    PROVE  /\ <<e>> \o s \in Seq(S) /\ Len(<<e>> \o s) = Len(s) + 1 /\ Len(s) \in Nat
           /\ (<<e>> \o s)[1] = e
           /\ \A i \in 1..Len(s) : (<<e>> \o s)[i + 1] = s[i]
<1>1. <<e>> \in Seq(S) /\ Len(<<e>>) = 1 /\ <<e>>[1] = e
  OBVIOUS
<1> QED
  BY <1>1, SMT
-----------------------------------------------------------------------------
(* The same for the pool and the queue as sets of chunks. *)

LEMMA TakeFromPool ==
    ASSUME TypeOK, Distinct(freeBuffers), freeBuffers # <<>>, freeBuffers' = Tail(freeBuffers)
    PROVE  /\ Head(freeBuffers) \in Pooled /\ Head(freeBuffers) \in Chunks
           /\ Pooled' = Pooled \ {Head(freeBuffers)}
           /\ freeBuffers' \in Seq(Chunks) /\ Len(freeBuffers') <= PoolLimit
           /\ Distinct(freeBuffers')
<1>0. freeBuffers \in Seq(Chunks) /\ Len(freeBuffers) <= PoolLimit /\ PoolLimit \in Nat
  BY RecorderAssumption DEF TypeOK
<1> DEFINE s == freeBuffers
<1>1. /\ Head(s) \in Chunks /\ Head(s) = s[1] /\ Len(s) \in Nat /\ Len(s) > 0
      /\ Tail(s) \in Seq(Chunks) /\ Len(Tail(s)) = Len(s) - 1
      /\ \A i \in 1..Len(Tail(s)) : Tail(s)[i] = s[i + 1]
  BY <1>0, TailElements
<1>2. Distinct(freeBuffers')
  BY <1>1 DEF Distinct
<1>3. Pooled' = Pooled \ {Head(freeBuffers)}
  <2>1. ASSUME NEW c \in Pooled' PROVE c \in Pooled /\ c # Head(freeBuffers)
    BY <1>1 DEF Pooled, Distinct
  <2>2. ASSUME NEW c \in Pooled, c # Head(freeBuffers) PROVE c \in Pooled'
    <3>1. PICK k \in 1..Len(s) : s[k] = c
      BY DEF Pooled
    <3>2. k - 1 \in 1..Len(Tail(s)) /\ Tail(s)[k - 1] = c
      BY <1>1, <2>2, <3>1
    <3> QED
      BY <3>2 DEF Pooled
  <2> QED
    BY <2>1, <2>2
<1>4. Head(freeBuffers) \in Pooled
  <2>1. 1 \in 1..Len(freeBuffers)
    BY <1>1
  <2> QED
    BY <1>1, <2>1 DEF Pooled
<1> QED
  BY <1>0, <1>1, <1>2, <1>3, <1>4

LEMMA TakeFromQueue ==
    ASSUME TypeOK, Distinct(queue), queue # <<>>, queue' = Tail(queue)
    PROVE  /\ Head(queue) \in Queued /\ Head(queue) \in Chunks
           /\ Queued' = Queued \ {Head(queue)}
           /\ queue' \in Seq(Chunks) /\ Len(queue') <= QueueLimit
           /\ Distinct(queue')
<1>0. queue \in Seq(Chunks) /\ Len(queue) <= QueueLimit /\ QueueLimit \in Nat
  BY RecorderAssumption DEF TypeOK
<1> DEFINE s == queue
<1>1. /\ Head(s) \in Chunks /\ Head(s) = s[1] /\ Len(s) \in Nat /\ Len(s) > 0
      /\ Tail(s) \in Seq(Chunks) /\ Len(Tail(s)) = Len(s) - 1
      /\ \A i \in 1..Len(Tail(s)) : Tail(s)[i] = s[i + 1]
  BY <1>0, TailElements
<1>2. Distinct(queue')
  BY <1>1 DEF Distinct
<1>3. Queued' = Queued \ {Head(queue)}
  <2>1. ASSUME NEW c \in Queued' PROVE c \in Queued /\ c # Head(queue)
    BY <1>1 DEF Queued, Distinct
  <2>2. ASSUME NEW c \in Queued, c # Head(queue) PROVE c \in Queued'
    <3>1. PICK k \in 1..Len(s) : s[k] = c
      BY DEF Queued
    <3>2. k - 1 \in 1..Len(Tail(s)) /\ Tail(s)[k - 1] = c
      BY <1>1, <2>2, <3>1
    <3> QED
      BY <3>2 DEF Queued
  <2> QED
    BY <2>1, <2>2
<1>4. Head(queue) \in Queued
  <2>1. 1 \in 1..Len(queue)
    BY <1>1
  <2> QED
    BY <1>1, <2>1 DEF Queued
<1> QED
  BY <1>0, <1>1, <1>2, <1>3, <1>4

LEMMA AddToQueue ==
    ASSUME TypeOK, Distinct(queue), NEW c \in Chunks, c \notin Queued,
           Len(queue) < QueueLimit, queue' = Append(queue, c)
    PROVE  /\ Queued' = Queued \cup {c}
           /\ queue' \in Seq(Chunks) /\ Len(queue') <= QueueLimit
           /\ Distinct(queue')
<1>0. queue \in Seq(Chunks) /\ QueueLimit \in Nat
  BY RecorderAssumption DEF TypeOK
<1>1. /\ queue' \in Seq(Chunks) /\ Len(queue') = Len(queue) + 1 /\ Len(queue) \in Nat
      /\ \A i \in 1..Len(queue) : queue'[i] = queue[i]
      /\ queue'[Len(queue) + 1] = c
  BY <1>0, AppendElements
<1>2. Distinct(queue')
  BY <1>1 DEF Distinct, Queued
<1>3. Queued' = Queued \cup {c}
  BY <1>1 DEF Queued
<1> QED
  BY <1>0, <1>1, <1>2, <1>3

(* The chunk is kept or, when the pool is full, not. *)
LEMMA ReturnToPool ==
    ASSUME TypeOK, Distinct(freeBuffers), NEW c \in Chunks, c \notin Pooled, Release(c)
    PROVE  /\ Pooled' = Pooled \cup {c} \/ Pooled' = Pooled
           /\ freeBuffers' \in Seq(Chunks) /\ Len(freeBuffers') <= PoolLimit
           /\ Distinct(freeBuffers')
<1>0. freeBuffers \in Seq(Chunks) /\ Len(freeBuffers) <= PoolLimit /\ PoolLimit \in Nat
  BY RecorderAssumption DEF TypeOK
<1>1. CASE Len(freeBuffers) < PoolLimit
  <2>1. freeBuffers' = <<c>> \o freeBuffers
    BY <1>1 DEF Release
  <2>2. /\ freeBuffers' \in Seq(Chunks) /\ Len(freeBuffers') = Len(freeBuffers) + 1
        /\ Len(freeBuffers) \in Nat /\ freeBuffers'[1] = c
        /\ \A i \in 1..Len(freeBuffers) : freeBuffers'[i + 1] = freeBuffers[i]
    BY <1>0, <2>1, PushElements
  <2>3. \A k \in 1..Len(freeBuffers') : k # 1 =>
            k - 1 \in 1..Len(freeBuffers) /\ freeBuffers'[k] = freeBuffers[k - 1]
    BY <2>2
  <2>4. Distinct(freeBuffers')
    BY <2>2, <2>3 DEF Distinct, Pooled
  <2>5. Pooled' = Pooled \cup {c}
    <3>1. ASSUME NEW d \in Pooled' PROVE d \in Pooled \cup {c}
      BY <2>2, <2>3 DEF Pooled
    <3>2. ASSUME NEW d \in Pooled PROVE d \in Pooled'
      <4>1. PICK k \in 1..Len(freeBuffers) : freeBuffers[k] = d
        BY DEF Pooled
      <4>2. k + 1 \in 1..Len(freeBuffers') /\ freeBuffers'[k + 1] = d
        BY <2>2, <4>1
      <4> QED
        BY <4>2 DEF Pooled
    <3>3. c \in Pooled'
      BY <2>2 DEF Pooled
    <3> QED
      BY <3>1, <3>2, <3>3
  <2> QED
    BY <1>0, <1>1, <2>2, <2>4, <2>5
<1>2. CASE ~ (Len(freeBuffers) < PoolLimit)
  <2>1. freeBuffers' = freeBuffers
    BY <1>2 DEF Release
  <2> QED
    BY <1>0, <2>1 DEF Pooled
<1> QED
  BY <1>1, <1>2
-----------------------------------------------------------------------------
(* Initially nothing is held and every chunk is closed. *)
LEMMA OwnershipInit == Init => OwnershipInv
<1> SUFFICES ASSUME Init PROVE OwnershipInv
  OBVIOUS
<1>1. Pooled = {} /\ Queued = {} /\ Distinct(freeBuffers) /\ Distinct(queue)
  BY DEF Init, Pooled, Queued, Distinct
<1>2. TypeOK
  <2>1. <<>> \in Seq(Chunks) /\ Len(<<>>) = 0
    OBVIOUS
  <2>2. freeBuffers \in Seq(Chunks) /\ Len(freeBuffers) <= PoolLimit
    BY <2>1, RecorderAssumption DEF Init
  <2>3. queue \in Seq(Chunks) /\ Len(queue) <= QueueLimit
    BY <2>1, RecorderAssumption DEF Init
  <2>4. {chunk, old, held} \subseteq Chunks \cup {0} /\ released \subseteq Chunks
    BY DEF Init
  <2>5. running \in BOOLEAN /\ failing \in BOOLEAN /\ accepting \in BOOLEAN
    BY DEF Init
  <2> QED
    BY <2>2, <2>3, <2>4, <2>5 DEF Init, TypeOK, Records
<1>3. Hands /\ Apart
  BY <1>1 DEF Init, Hands, Apart, Holding, RecorderOwns
<1>4. Flags /\ NoChunkLost
  BY <1>1 DEF Init, Flags, UsedWhileOwned, NoChunkLost, RecorderOwns
<1> QED
  BY <1>2, <1>3, <1>4 DEF OwnershipInv

LEMMA PoolUnchanged ==
    ASSUME UNCHANGED freeBuffers, OwnershipInv
    PROVE  /\ Pooled' = Pooled /\ Distinct(freeBuffers)'
           /\ freeBuffers' \in Seq(Chunks) /\ Len(freeBuffers') <= PoolLimit
BY DEF Pooled, Distinct, OwnershipInv, Apart, TypeOK

LEMMA QueueUnchanged ==
    ASSUME UNCHANGED queue, OwnershipInv
    PROVE  /\ Queued' = Queued /\ Distinct(queue)'
           /\ queue' \in Seq(Chunks) /\ Len(queue') <= QueueLimit
BY DEF Queued, Distinct, OwnershipInv, Apart, TypeOK

(* The types after a step of the inference thread. *)
LEMMA InferenceTyped ==
    ASSUME TypeOK, UNCHANGED <<recorderVars, accepting>>, inf_pc' \in {"poll", "use", "close"},
           {chunk, old, held}' \subseteq Chunks \cup {0}, released' \subseteq Chunks,
           freeBuffers' \in Seq(Chunks), Len(freeBuffers') <= PoolLimit,
           queue' \in Seq(Chunks), Len(queue') <= QueueLimit
    PROVE  TypeOK'
<1>1. /\ UNCHANGED <<rec_pc, running, audioSource>>
      /\ UNCHANGED <<microphone, playback, failing, accepting>>
  BY DEF recorderVars
<1>2. /\ rec_pc' \in {"off", "failed", "begin", "loop", "read", "mix", "deliver", "refuse",
                     "release refused", "offer", "poll", "drop", "release old", "close",
                     "release", "finally", "stopped"}
      /\ running' \in BOOLEAN /\ audioSource' \in Sources
      /\ microphone' \in Records /\ playback' \in Records
      /\ failing' \in BOOLEAN /\ accepting' \in BOOLEAN
  BY <1>1 DEF TypeOK
<1> QED
  BY <1>2 DEF TypeOK

(* Every step of either thread, and of the service, keeps the ownership.   *)
LEMMA OwnershipStep == OwnershipInv /\ [Next]_vars => OwnershipInv'
<1> SUFFICES ASSUME OwnershipInv, [Next]_vars PROVE OwnershipInv'
  OBVIOUS
<1> USE DEF recorderVars, poolVars, inferenceVars
<1>0. 0 \notin Chunks
  BY RecorderAssumption
<1>h. Hands /\ Apart /\ Flags /\ TypeOK /\ NoChunkLost
  BY DEF OwnershipInv
<1>t. /\ chunk \in Chunks \cup {0} /\ old \in Chunks \cup {0} /\ held \in Chunks \cup {0}
      /\ released \subseteq Chunks
  BY <1>h DEF TypeOK
<1> USE DEF Hands, Holding, RecorderOwns, Apart, Flags, UsedWhileOwned
<1>1. CASE LeaveLoop \/ ReadAudio \/ ReadNothing \/ Mix \/ Refuse \/ ListenerThrows \/ OfferFull
  <2>1. UNCHANGED <<chunk, old, held, freeBuffers, released, queue, inf_pc>>
    BY <1>1 DEF LeaveLoop, Goto, ReadAudio, ReadNothing, Mix, Refuse, ListenerThrows, OfferFull
  <2>2. /\ Pooled' = Pooled /\ Distinct(freeBuffers)'
        /\ freeBuffers' \in Seq(Chunks) /\ Len(freeBuffers') <= PoolLimit
    BY <2>1, PoolUnchanged
  <2>3. /\ Queued' = Queued /\ Distinct(queue)'
        /\ queue' \in Seq(Chunks) /\ Len(queue') <= QueueLimit
    BY <2>1, QueueUnchanged
  <2>5. TypeOK'
    BY ZenonT(60), <1>1, <1>0, <1>h, <1>t, <2>1, <2>2, <2>3
       DEF LeaveLoop, Goto, ReadAudio, ReadNothing, Mix, Refuse, ListenerThrows,
           OfferFull, TypeOK, Records
  <2>6. Hands'
    BY <1>1, <1>0, <1>h, <1>t, <2>1, <2>2, <2>3
       DEF LeaveLoop, Goto, ReadAudio, ReadNothing, Mix, Refuse, ListenerThrows,
           OfferFull
  <2>7. Apart'
    BY <1>1, <1>0, <1>h, <1>t, <2>1, <2>2, <2>3
       DEF LeaveLoop, Goto, ReadAudio, ReadNothing, Mix, Refuse, ListenerThrows,
           OfferFull
  <2>8. Flags'
    BY <1>1, <1>0, <1>h, <1>t, <2>1, <2>2, <2>3
       DEF LeaveLoop, Goto, ReadAudio, ReadNothing, Mix, Refuse, ListenerThrows,
           OfferFull
  <2>9. NoChunkLost'
    BY <1>1, <1>0, <1>h, <1>t, <2>1, <2>2, <2>3
       DEF LeaveLoop, Goto, ReadAudio, ReadNothing, Mix, Refuse, ListenerThrows,
           OfferFull, NoChunkLost, Unreferenced
  <2> QED
    BY <2>5, <2>6, <2>7, <2>8, <2>9 DEF OwnershipInv
<1>2. CASE Start \/ RequestStop \/ StartRecords
  <2>1. UNCHANGED <<chunk, old, held, freeBuffers, released, queue, inf_pc>>
    BY <1>2 DEF Start, StartThread, RequestStop, Stopped, StartRecords, Recording
  <2>2. /\ Pooled' = Pooled /\ Distinct(freeBuffers)'
        /\ freeBuffers' \in Seq(Chunks) /\ Len(freeBuffers') <= PoolLimit
    BY <2>1, PoolUnchanged
  <2>3. /\ Queued' = Queued /\ Distinct(queue)'
        /\ queue' \in Seq(Chunks) /\ Len(queue') <= QueueLimit
    BY <2>1, QueueUnchanged
  <2>4. /\ microphone' \in Records /\ playback' \in Records
        /\ running' \in BOOLEAN /\ failing' \in BOOLEAN
    <3>1. CASE Start
      BY <3>1, <1>h DEF Start, StartThread, TypeOK, Records
    <3>2. CASE RequestStop
      BY <3>2, <1>h DEF RequestStop, Stopped, TypeOK, Records
    <3>3. CASE StartRecords
      BY <3>3, <1>h DEF StartRecords, Recording, TypeOK, Records
    <3> QED
      BY <1>2, <3>1, <3>2, <3>3
  <2>5. TypeOK'
    BY <1>2, <1>0, <1>h, <1>t, <2>1, <2>2, <2>3, <2>4
       DEF Start, StartThread, RequestStop, Stopped, StartRecords, Recording, TypeOK,
           Records
  <2>6. Hands'
    BY <1>2, <1>0, <1>h, <1>t, <2>1, <2>2, <2>3, <2>4
       DEF Start, StartThread, RequestStop, Stopped, StartRecords, Recording
  <2>7. Apart'
    BY <1>2, <1>0, <1>h, <1>t, <2>1, <2>2, <2>3, <2>4
       DEF Start, StartThread, RequestStop, Stopped, StartRecords, Recording
  <2>8. Flags'
    BY <1>2, <1>0, <1>h, <1>t, <2>1, <2>2, <2>3, <2>4
       DEF Start, StartThread, RequestStop, Stopped, StartRecords, Recording
  <2>9. NoChunkLost'
    BY <1>2, <1>0, <1>h, <1>t, <2>1, <2>2, <2>3, <2>4
       DEF Start, StartThread, RequestStop, Stopped, StartRecords, Recording,
           NoChunkLost, Unreferenced
  <2> QED
    BY <2>5, <2>6, <2>7, <2>8, <2>9 DEF OwnershipInv
<1>3. CASE UNCHANGED vars
  <2>1. UNCHANGED <<chunk, old, held, freeBuffers, released, queue, inf_pc>>
    BY <1>3 DEF vars
  <2>2. /\ Pooled' = Pooled /\ Distinct(freeBuffers)'
        /\ freeBuffers' \in Seq(Chunks) /\ Len(freeBuffers') <= PoolLimit
    BY <2>1, PoolUnchanged
  <2>3. /\ Queued' = Queued /\ Distinct(queue)'
        /\ queue' \in Seq(Chunks) /\ Len(queue') <= QueueLimit
    BY <2>1, QueueUnchanged
  <2>5. TypeOK'
    BY ZenonT(60), <1>3, <1>0, <1>h, <1>t, <2>1, <2>2, <2>3 DEF vars, TypeOK, Records
  <2>6. Hands'
    BY <1>3, <1>0, <1>h, <1>t, <2>1, <2>2, <2>3 DEF vars
  <2>7. Apart'
    BY <1>3, <1>0, <1>h, <1>t, <2>1, <2>2, <2>3 DEF vars
  <2>8. Flags'
    BY <1>3, <1>0, <1>h, <1>t, <2>1, <2>2, <2>3 DEF vars
  <2>9. NoChunkLost'
    BY <1>3, <1>0, <1>h, <1>t, <2>1, <2>2, <2>3 DEF vars, NoChunkLost, Unreferenced
  <2> QED
    BY <2>5, <2>6, <2>7, <2>8, <2>9 DEF OwnershipInv
<1>4. CASE SwitchInference
  <2>1. UNCHANGED <<chunk, old, held, freeBuffers, released, queue, inf_pc>>
    BY <1>4 DEF SwitchInference
  <2>2. /\ Pooled' = Pooled /\ Distinct(freeBuffers)'
        /\ freeBuffers' \in Seq(Chunks) /\ Len(freeBuffers') <= PoolLimit
    BY <2>1, PoolUnchanged
  <2>3. /\ Queued' = Queued /\ Distinct(queue)'
        /\ queue' \in Seq(Chunks) /\ Len(queue') <= QueueLimit
    BY <2>1, QueueUnchanged
  <2>5. TypeOK'
    BY ZenonT(60), <1>4, <1>0, <1>h, <1>t, <2>1, <2>2, <2>3 DEF SwitchInference, TypeOK, Records
  <2>6. Hands'
    BY <1>4, <1>0, <1>h, <1>t, <2>1, <2>2, <2>3 DEF SwitchInference
  <2>7. Apart'
    BY <1>4, <1>0, <1>h, <1>t, <2>1, <2>2, <2>3 DEF SwitchInference
  <2>8. Flags'
    BY <1>4, <1>0, <1>h, <1>t, <2>1, <2>2, <2>3 DEF SwitchInference
  <2>9. NoChunkLost'
    BY <1>4, <1>0, <1>h, <1>t, <2>1, <2>2, <2>3 DEF SwitchInference, NoChunkLost, Unreferenced
  <2> QED
    BY <2>5, <2>6, <2>7, <2>8, <2>9 DEF OwnershipInv
<1>5. CASE Acquire /\ freeBuffers # <<>>
  <2>3. /\ Queued' = Queued /\ Distinct(queue)'
        /\ queue' \in Seq(Chunks) /\ Len(queue') <= QueueLimit
    BY <1>5, QueueUnchanged DEF Acquire, Goto
  <2>1. chunk' = Head(freeBuffers) /\ freeBuffers' = Tail(freeBuffers)
    BY <1>5 DEF Acquire, Goto
  <2>2. /\ chunk' \in Pooled /\ chunk' \in Chunks /\ Pooled' = Pooled \ {chunk'}
        /\ freeBuffers' \in Seq(Chunks) /\ Len(freeBuffers') <= PoolLimit
        /\ Distinct(freeBuffers')
    BY <1>5, <1>h, <2>1, TakeFromPool
  <2>5. TypeOK'
    BY <1>5, <1>0, <1>h, <1>t, <2>1, <2>2, <2>3 DEF Acquire, Goto, TypeOK, Records
  <2>6. Hands'
    BY <1>5, <1>0, <1>h, <1>t, <2>1, <2>2, <2>3 DEF Acquire, Goto
  <2>7. Apart'
    BY <1>5, <1>0, <1>h, <1>t, <2>1, <2>2, <2>3 DEF Acquire, Goto
  <2>8. Flags'
    BY <1>5, <1>0, <1>h, <1>t, <2>1, <2>2, <2>3 DEF Acquire, Goto
  <2>9. NoChunkLost'
    BY <1>5, <1>0, <1>h, <1>t, <2>1, <2>2, <2>3 DEF Acquire, Goto, NoChunkLost, Unreferenced
  <2> QED
    BY <2>5, <2>6, <2>7, <2>8, <2>9 DEF OwnershipInv
<1>6. CASE Acquire /\ freeBuffers = <<>>
  <2>2. /\ Pooled' = Pooled /\ Distinct(freeBuffers)'
        /\ freeBuffers' \in Seq(Chunks) /\ Len(freeBuffers') <= PoolLimit
    BY <1>6, PoolUnchanged DEF Acquire, Goto
  <2>3. /\ Queued' = Queued /\ Distinct(queue)'
        /\ queue' \in Seq(Chunks) /\ Len(queue') <= QueueLimit
    BY <1>6, QueueUnchanged DEF Acquire, Goto
  <2>1. chunk' \in Garbage
    BY <1>6 DEF Acquire, Goto, Fresh
  <2>4. chunk' \in Chunks /\ chunk' \in released /\ chunk' \notin {old, held} \cup Pooled \cup Queued
    BY <2>1 DEF Garbage, Unreferenced
  <2>5. TypeOK'
    BY <1>6, <1>0, <1>h, <1>t, <2>4, <2>2, <2>3 DEF Acquire, Goto, TypeOK, Records
  <2>6. Hands'
    BY <1>6, <1>0, <1>h, <1>t, <2>4, <2>2, <2>3 DEF Acquire, Goto
  <2>7. Apart'
    BY <1>6, <1>0, <1>h, <1>t, <2>4, <2>2, <2>3 DEF Acquire, Goto
  <2>8. Flags'
    BY <1>6, <1>0, <1>h, <1>t, <2>4, <2>2, <2>3 DEF Acquire, Goto
  <2>9. NoChunkLost'
    BY <1>6, <1>0, <1>h, <1>t, <2>4, <2>2, <2>3 DEF Acquire, Goto, NoChunkLost, Unreferenced
  <2> QED
    BY <2>5, <2>6, <2>7, <2>8, <2>9 DEF OwnershipInv
<1>7. CASE Offer
  <2>2. /\ Pooled' = Pooled /\ Distinct(freeBuffers)'
        /\ freeBuffers' \in Seq(Chunks) /\ Len(freeBuffers') <= PoolLimit
    BY <1>7, PoolUnchanged DEF Offer, Goto
  <2>1. chunk \in Chunks /\ chunk \notin Queued
    BY <1>7, <1>h, <1>t DEF Offer, Goto
  <2>3. /\ Queued' = Queued \cup {chunk}
        /\ queue' \in Seq(Chunks) /\ Len(queue') <= QueueLimit
        /\ Distinct(queue')
    BY <1>7, <1>h, <2>1, AddToQueue DEF Offer, Goto
  <2>5. TypeOK'
    BY <1>7, <1>0, <1>h, <1>t, <2>1, <2>2, <2>3 DEF Offer, Goto, TypeOK, Records
  <2>6. Hands'
    BY <1>7, <1>0, <1>h, <1>t, <2>1, <2>2, <2>3 DEF Offer, Goto
  <2>7. Apart'
    BY <1>7, <1>0, <1>h, <1>t, <2>1, <2>2, <2>3 DEF Offer, Goto
  <2>8. Flags'
    BY <1>7, <1>0, <1>h, <1>t, <2>1, <2>2, <2>3 DEF Offer, Goto
  <2>9. NoChunkLost'
    BY <1>7, <1>0, <1>h, <1>t, <2>1, <2>2, <2>3 DEF Offer, Goto, NoChunkLost, Unreferenced
  <2> QED
    BY <2>5, <2>6, <2>7, <2>8, <2>9 DEF OwnershipInv
<1>8. CASE PollOld /\ queue # <<>>
  <2>2. /\ Pooled' = Pooled /\ Distinct(freeBuffers)'
        /\ freeBuffers' \in Seq(Chunks) /\ Len(freeBuffers') <= PoolLimit
    BY <1>8, PoolUnchanged DEF PollOld, Goto
  <2>3. /\ Head(queue) \in Queued /\ Head(queue) \in Chunks
        /\ Queued' = Queued \ {Head(queue)}
        /\ queue' \in Seq(Chunks) /\ Len(queue') <= QueueLimit
        /\ Distinct(queue')
    BY <1>8, <1>h, TakeFromQueue DEF PollOld, Goto
  <2>5. TypeOK'
    BY <1>8, <1>0, <1>h, <1>t, <2>2, <2>3 DEF PollOld, Goto, TypeOK, Records
  <2>6. Hands'
    BY <1>8, <1>0, <1>h, <1>t, <2>2, <2>3 DEF PollOld, Goto
  <2>7. Apart'
    BY <1>8, <1>0, <1>h, <1>t, <2>2, <2>3 DEF PollOld, Goto
  <2>8. Flags'
    BY <1>8, <1>0, <1>h, <1>t, <2>2, <2>3 DEF PollOld, Goto
  <2>9. NoChunkLost'
    BY <1>8, <1>0, <1>h, <1>t, <2>2, <2>3 DEF PollOld, Goto, NoChunkLost, Unreferenced
  <2> QED
    BY <2>5, <2>6, <2>7, <2>8, <2>9 DEF OwnershipInv
<1>9. CASE PollOld /\ queue = <<>>
  <2>2. /\ Pooled' = Pooled /\ Distinct(freeBuffers)'
        /\ freeBuffers' \in Seq(Chunks) /\ Len(freeBuffers') <= PoolLimit
    BY <1>9, PoolUnchanged DEF PollOld, Goto
  <2>3. /\ Queued' = Queued /\ Distinct(queue)'
        /\ queue' \in Seq(Chunks) /\ Len(queue') <= QueueLimit
    BY <1>9, QueueUnchanged DEF PollOld, Goto
  <2>5. TypeOK'
    BY <1>9, <1>0, <1>h, <1>t, <2>2, <2>3 DEF PollOld, Goto, TypeOK, Records
  <2>6. Hands'
    BY <1>9, <1>0, <1>h, <1>t, <2>2, <2>3 DEF PollOld, Goto
  <2>7. Apart'
    BY <1>9, <1>0, <1>h, <1>t, <2>2, <2>3 DEF PollOld, Goto
  <2>8. Flags'
    BY <1>9, <1>0, <1>h, <1>t, <2>2, <2>3 DEF PollOld, Goto
  <2>9. NoChunkLost'
    BY <1>9, <1>0, <1>h, <1>t, <2>2, <2>3 DEF PollOld, Goto, NoChunkLost, Unreferenced
  <2> QED
    BY <2>5, <2>6, <2>7, <2>8, <2>9 DEF OwnershipInv
<1>10. CASE DropOld
  <2>2. /\ Pooled' = Pooled /\ Distinct(freeBuffers)'
        /\ freeBuffers' \in Seq(Chunks) /\ Len(freeBuffers') <= PoolLimit
    BY <1>10, PoolUnchanged DEF DropOld, MarkReleased, Closes, Goto
  <2>3. /\ Queued' = Queued /\ Distinct(queue)'
        /\ queue' \in Seq(Chunks) /\ Len(queue') <= QueueLimit
    BY <1>10, QueueUnchanged DEF DropOld, MarkReleased, Closes, Goto
  <2>5. TypeOK'
    BY <1>10, <1>0, <1>h, <1>t, <2>2, <2>3
       DEF DropOld, MarkReleased, Closes, Goto, TypeOK, Records
  <2>6. Hands'
    BY <1>10, <1>0, <1>h, <1>t, <2>2, <2>3 DEF DropOld, MarkReleased, Closes, Goto
  <2>7. Apart'
    BY <1>10, <1>0, <1>h, <1>t, <2>2, <2>3 DEF DropOld, MarkReleased, Closes, Goto
  <2>8. Flags'
    BY <1>10, <1>0, <1>h, <1>t, <2>2, <2>3 DEF DropOld, MarkReleased, Closes, Goto
  <2>9. NoChunkLost'
    BY <1>10, <1>0, <1>h, <1>t, <2>2, <2>3
       DEF DropOld, MarkReleased, Closes, Goto, NoChunkLost, Unreferenced
  <2> QED
    BY <2>5, <2>6, <2>7, <2>8, <2>9 DEF OwnershipInv
<1>11. CASE CloseRefused
  <2>2. /\ Pooled' = Pooled /\ Distinct(freeBuffers)'
        /\ freeBuffers' \in Seq(Chunks) /\ Len(freeBuffers') <= PoolLimit
    BY <1>11, PoolUnchanged DEF CloseRefused, MarkReleased, Closes, Goto, AfterRefused
  <2>3. /\ Queued' = Queued /\ Distinct(queue)'
        /\ queue' \in Seq(Chunks) /\ Len(queue') <= QueueLimit
    BY <1>11, QueueUnchanged DEF CloseRefused, MarkReleased, Closes, Goto, AfterRefused
  <2>5. TypeOK'
    BY <1>11, <1>0, <1>h, <1>t, <2>2, <2>3
       DEF CloseRefused, MarkReleased, Closes, Goto, AfterRefused, TypeOK, Records
  <2>6. Hands'
    BY <1>11, <1>0, <1>h, <1>t, <2>2, <2>3
       DEF CloseRefused, MarkReleased, Closes, Goto, AfterRefused
  <2>7. Apart'
    BY <1>11, <1>0, <1>h, <1>t, <2>2, <2>3
       DEF CloseRefused, MarkReleased, Closes, Goto, AfterRefused
  <2>8. Flags'
    BY <1>11, <1>0, <1>h, <1>t, <2>2, <2>3
       DEF CloseRefused, MarkReleased, Closes, Goto, AfterRefused
  <2>9. NoChunkLost'
    BY <1>11, <1>0, <1>h, <1>t, <2>2, <2>3
       DEF CloseRefused, MarkReleased, Closes, Goto, AfterRefused, NoChunkLost,
           Unreferenced
  <2> QED
    BY <2>5, <2>6, <2>7, <2>8, <2>9 DEF OwnershipInv
<1>12. CASE CloseChunk
  <2>2. /\ Pooled' = Pooled /\ Distinct(freeBuffers)'
        /\ freeBuffers' \in Seq(Chunks) /\ Len(freeBuffers') <= PoolLimit
    BY <1>12, PoolUnchanged DEF CloseChunk, MarkReleased, Closes, Goto, AfterClose
  <2>3. /\ Queued' = Queued /\ Distinct(queue)'
        /\ queue' \in Seq(Chunks) /\ Len(queue') <= QueueLimit
    BY <1>12, QueueUnchanged DEF CloseChunk, MarkReleased, Closes, Goto, AfterClose
  <2>5. TypeOK'
    <3>1. chunk \in Chunks
      BY <1>12, <1>h, <1>t DEF CloseChunk
    <3> HIDE DEF Hands, Holding, RecorderOwns, Apart, Flags, UsedWhileOwned
    <3>2. released' \subseteq Chunks /\ {chunk, old, held}' \subseteq Chunks \cup {0}
      BY <1>12, <1>t, <3>1 DEF CloseChunk, MarkReleased, Closes, Goto, AfterClose
    <3> QED
      BY <1>12, <1>h, <2>2, <2>3, <3>2
         DEF CloseChunk, Closes, Goto, AfterClose, TypeOK, Records
  <2>6. Hands'
    BY <1>12, <1>0, <1>h, <1>t, <2>2, <2>3
       DEF CloseChunk, MarkReleased, Closes, Goto, AfterClose
  <2>7. Apart'
    BY <1>12, <1>0, <1>h, <1>t, <2>2, <2>3
       DEF CloseChunk, MarkReleased, Closes, Goto, AfterClose
  <2>8. Flags'
    BY <1>12, <1>0, <1>h, <1>t, <2>2, <2>3
       DEF CloseChunk, MarkReleased, Closes, Goto, AfterClose
  <2>9. NoChunkLost'
    BY <1>12, <1>0, <1>h, <1>t, <2>2, <2>3
       DEF CloseChunk, MarkReleased, Closes, Goto, AfterClose, NoChunkLost, Unreferenced
  <2> QED
    BY <2>5, <2>6, <2>7, <2>8, <2>9 DEF OwnershipInv
<1>13. CASE CloseHeld
  <2>2. /\ Pooled' = Pooled /\ Distinct(freeBuffers)'
        /\ freeBuffers' \in Seq(Chunks) /\ Len(freeBuffers') <= PoolLimit
    BY <1>13, PoolUnchanged DEF CloseHeld, MarkReleased, Closes
  <2>3. /\ Queued' = Queued /\ Distinct(queue)'
        /\ queue' \in Seq(Chunks) /\ Len(queue') <= QueueLimit
    BY <1>13, QueueUnchanged DEF CloseHeld, MarkReleased, Closes
  <2>5. TypeOK'
    <3>1. held \in Chunks
      BY <1>13, <1>h, <1>t DEF CloseHeld
    <3> HIDE DEF Hands, Holding, RecorderOwns, Apart, Flags, UsedWhileOwned
    <3>2. released' \subseteq Chunks /\ {chunk, old, held}' \subseteq Chunks \cup {0}
      BY <1>13, <1>t, <3>1 DEF CloseHeld, MarkReleased, Closes
    <3> QED
      <4>1. inf_pc' \in {"close", "poll"} /\ UNCHANGED <<recorderVars, accepting>>
        BY <1>13 DEF CloseHeld
      <4> QED
        BY <1>h, <2>2, <2>3, <3>2, <4>1, InferenceTyped
  <2>6. Hands'
    BY <1>13, <1>0, <1>h, <1>t, <2>2, <2>3 DEF CloseHeld, MarkReleased, Closes
  <2>7. Apart'
    BY <1>13, <1>0, <1>h, <1>t, <2>2, <2>3 DEF CloseHeld, MarkReleased, Closes
  <2>8. Flags'
    BY <1>13, <1>0, <1>h, <1>t, <2>2, <2>3 DEF CloseHeld, MarkReleased, Closes
  <2>9. NoChunkLost'
    BY <1>13, <1>0, <1>h, <1>t, <2>2, <2>3
       DEF CloseHeld, MarkReleased, Closes, NoChunkLost, Unreferenced
  <2> QED
    BY <2>5, <2>6, <2>7, <2>8, <2>9 DEF OwnershipInv
<1>14. CASE ReleaseOld
  <2>1. old \in Chunks /\ old \notin Pooled
    BY <1>14, <1>h, <1>t DEF ReleaseOld, Goto
  <2>2. /\ Pooled' = Pooled \cup {old} \/ Pooled' = Pooled
        /\ freeBuffers' \in Seq(Chunks) /\ Len(freeBuffers') <= PoolLimit
        /\ Distinct(freeBuffers')
    BY <1>14, <1>h, <2>1, ReturnToPool DEF ReleaseOld, Goto
  <2>3. /\ Queued' = Queued /\ Distinct(queue)'
        /\ queue' \in Seq(Chunks) /\ Len(queue') <= QueueLimit
    BY <1>14, QueueUnchanged DEF ReleaseOld, Goto
  <2>5. TypeOK'
    BY <1>14, <1>0, <1>h, <1>t, <2>1, <2>2, <2>3 DEF ReleaseOld, Goto, TypeOK, Records
  <2>6. Hands'
    BY <1>14, <1>0, <1>h, <1>t, <2>1, <2>2, <2>3 DEF ReleaseOld, Goto
  <2>7. Apart'
    BY <1>14, <1>0, <1>h, <1>t, <2>1, <2>2, <2>3 DEF ReleaseOld, Goto
  <2>8. Flags'
    BY <1>14, <1>0, <1>h, <1>t, <2>1, <2>2, <2>3 DEF ReleaseOld, Goto
  <2>9. NoChunkLost'
    BY <1>14, <1>0, <1>h, <1>t, <2>1, <2>2, <2>3 DEF ReleaseOld, Goto, NoChunkLost, Unreferenced
  <2> QED
    BY <2>5, <2>6, <2>7, <2>8, <2>9 DEF OwnershipInv
<1>15. CASE ReleaseRefused
  <2>1. chunk \in Chunks /\ chunk \notin Pooled
    BY <1>15, <1>h, <1>t DEF ReleaseRefused, Goto, AfterRefused
  <2>2. /\ Pooled' = Pooled \cup {chunk} \/ Pooled' = Pooled
        /\ freeBuffers' \in Seq(Chunks) /\ Len(freeBuffers') <= PoolLimit
        /\ Distinct(freeBuffers')
    BY <1>15, <1>h, <2>1, ReturnToPool DEF ReleaseRefused, Goto, AfterRefused
  <2>3. /\ Queued' = Queued /\ Distinct(queue)'
        /\ queue' \in Seq(Chunks) /\ Len(queue') <= QueueLimit
    BY <1>15, QueueUnchanged DEF ReleaseRefused, Goto, AfterRefused
  <2>5. TypeOK'
    BY <1>15, <1>0, <1>h, <1>t, <2>1, <2>2, <2>3
       DEF ReleaseRefused, Goto, AfterRefused, TypeOK, Records
  <2>6. Hands'
    BY <1>15, <1>0, <1>h, <1>t, <2>1, <2>2, <2>3 DEF ReleaseRefused, Goto, AfterRefused
  <2>7. Apart'
    BY <1>15, <1>0, <1>h, <1>t, <2>1, <2>2, <2>3 DEF ReleaseRefused, Goto, AfterRefused
  <2>8. Flags'
    BY <1>15, <1>0, <1>h, <1>t, <2>1, <2>2, <2>3 DEF ReleaseRefused, Goto, AfterRefused
  <2>9. NoChunkLost'
    BY <1>15, <1>0, <1>h, <1>t, <2>1, <2>2, <2>3
       DEF ReleaseRefused, Goto, AfterRefused, NoChunkLost, Unreferenced
  <2> QED
    BY <2>5, <2>6, <2>7, <2>8, <2>9 DEF OwnershipInv
<1>16. CASE ReleaseChunk
  <2>1. chunk \in Chunks /\ chunk \notin Pooled
    BY <1>16, <1>h, <1>t DEF ReleaseChunk, Goto, AfterClose
  <2>2. /\ Pooled' = Pooled \cup {chunk} \/ Pooled' = Pooled
        /\ freeBuffers' \in Seq(Chunks) /\ Len(freeBuffers') <= PoolLimit
        /\ Distinct(freeBuffers')
    BY <1>16, <1>h, <2>1, ReturnToPool DEF ReleaseChunk, Goto, AfterClose
  <2>3. /\ Queued' = Queued /\ Distinct(queue)'
        /\ queue' \in Seq(Chunks) /\ Len(queue') <= QueueLimit
    BY <1>16, QueueUnchanged DEF ReleaseChunk, Goto, AfterClose
  <2>5. TypeOK'
    BY <1>16, <1>0, <1>h, <1>t, <2>1, <2>2, <2>3
       DEF ReleaseChunk, Goto, AfterClose, TypeOK, Records
  <2>6. Hands'
    BY <1>16, <1>0, <1>h, <1>t, <2>1, <2>2, <2>3 DEF ReleaseChunk, Goto, AfterClose
  <2>7. Apart'
    BY <1>16, <1>0, <1>h, <1>t, <2>1, <2>2, <2>3 DEF ReleaseChunk, Goto, AfterClose
  <2>8. Flags'
    BY <1>16, <1>0, <1>h, <1>t, <2>1, <2>2, <2>3 DEF ReleaseChunk, Goto, AfterClose
  <2>9. NoChunkLost'
    BY <1>16, <1>0, <1>h, <1>t, <2>1, <2>2, <2>3
       DEF ReleaseChunk, Goto, AfterClose, NoChunkLost, Unreferenced
  <2> QED
    BY <2>5, <2>6, <2>7, <2>8, <2>9 DEF OwnershipInv
<1>17. CASE ReleaseHeld
  <2>1. held \in Chunks /\ held \notin Pooled
    BY <1>17, <1>h, <1>t DEF ReleaseHeld
  <2>2. /\ Pooled' = Pooled \cup {held} \/ Pooled' = Pooled
        /\ freeBuffers' \in Seq(Chunks) /\ Len(freeBuffers') <= PoolLimit
        /\ Distinct(freeBuffers')
    BY <1>17, <1>h, <2>1, ReturnToPool DEF ReleaseHeld
  <2>3. /\ Queued' = Queued /\ Distinct(queue)'
        /\ queue' \in Seq(Chunks) /\ Len(queue') <= QueueLimit
    BY <1>17, QueueUnchanged DEF ReleaseHeld
  <2>5. TypeOK'
    <3> HIDE DEF Hands, Holding, RecorderOwns, Apart, Flags, UsedWhileOwned
    <3>1. {chunk, old, held}' \subseteq Chunks \cup {0} /\ released' \subseteq Chunks
      BY <1>17, <1>t DEF ReleaseHeld
    <3> QED
      <4>1. inf_pc' \in {"poll", "use"} /\ UNCHANGED <<recorderVars, accepting>>
        BY <1>17 DEF ReleaseHeld
      <4> QED
        BY <1>h, <2>2, <2>3, <3>1, <4>1, InferenceTyped
  <2>6. Hands'
    BY <1>17, <1>0, <1>h, <1>t, <2>1, <2>2, <2>3 DEF ReleaseHeld
  <2>7. Apart'
    BY <1>17, <1>0, <1>h, <1>t, <2>1, <2>2, <2>3 DEF ReleaseHeld
  <2>8. Flags'
    BY <1>17, <1>0, <1>h, <1>t, <2>1, <2>2, <2>3 DEF ReleaseHeld
  <2>9. NoChunkLost'
    BY <1>17, <1>0, <1>h, <1>t, <2>1, <2>2, <2>3 DEF ReleaseHeld, NoChunkLost, Unreferenced
  <2> QED
    BY <2>5, <2>6, <2>7, <2>8, <2>9 DEF OwnershipInv
<1>18. CASE Finally
  <2>3. /\ Queued' = Queued /\ Distinct(queue)'
        /\ queue' \in Seq(Chunks) /\ Len(queue') <= QueueLimit
    BY <1>18, QueueUnchanged DEF Finally
  <2>2. /\ Pooled' = {} /\ Distinct(freeBuffers')
        /\ freeBuffers' \in Seq(Chunks) /\ Len(freeBuffers') <= PoolLimit
    BY <1>18, RecorderAssumption DEF Finally, Pooled, Distinct
  <2>5. TypeOK'
    BY <1>18, <1>0, <1>h, <1>t, <2>2, <2>3 DEF Finally, TypeOK, Records
  <2>6. Hands'
    BY <1>18, <1>0, <1>h, <1>t, <2>2, <2>3 DEF Finally
  <2>7. Apart'
    BY <1>18, <1>0, <1>h, <1>t, <2>2, <2>3 DEF Finally
  <2>8. Flags'
    BY <1>18, <1>0, <1>h, <1>t, <2>2, <2>3 DEF Finally
  <2>9. NoChunkLost'
    BY <1>18, <1>0, <1>h, <1>t, <2>2, <2>3 DEF Finally, NoChunkLost, Unreferenced
  <2> QED
    BY <2>5, <2>6, <2>7, <2>8, <2>9 DEF OwnershipInv
<1>19. CASE Take
  <2>2. /\ Pooled' = Pooled /\ Distinct(freeBuffers)'
        /\ freeBuffers' \in Seq(Chunks) /\ Len(freeBuffers') <= PoolLimit
    BY <1>19, PoolUnchanged DEF Take
  <2>3. /\ Head(queue) \in Queued /\ Head(queue) \in Chunks
        /\ Queued' = Queued \ {Head(queue)}
        /\ queue' \in Seq(Chunks) /\ Len(queue') <= QueueLimit
        /\ Distinct(queue')
    BY <1>19, <1>h, TakeFromQueue DEF Take
  <2>5. TypeOK'
    <3> HIDE DEF Hands, Holding, RecorderOwns, Apart, Flags, UsedWhileOwned
    <3>1. {chunk, old, held}' \subseteq Chunks \cup {0} /\ released' \subseteq Chunks
      BY <1>19, <1>t, <2>3 DEF Take
    <3> QED
      <4>1. inf_pc' \in {"poll", "use"} /\ UNCHANGED <<recorderVars, accepting>>
        BY <1>19 DEF Take
      <4> QED
        BY <1>h, <2>2, <2>3, <3>1, <4>1, InferenceTyped
  <2>6. Hands'
    BY <1>19, <1>0, <1>h, <1>t, <2>2, <2>3 DEF Take
  <2>7. Apart'
    BY <1>19, <1>0, <1>h, <1>t, <2>2, <2>3 DEF Take
  <2>8. Flags'
    BY <1>19, <1>0, <1>h, <1>t, <2>2, <2>3 DEF Take
  <2>9. NoChunkLost'
    BY <1>19, <1>0, <1>h, <1>t, <2>2, <2>3 DEF Take, NoChunkLost, Unreferenced
  <2> QED
    BY <2>5, <2>6, <2>7, <2>8, <2>9 DEF OwnershipInv
<1> QED
  BY <1>1, <1>2, <1>3, <1>4, <1>5, <1>6, <1>7, <1>8, <1>9, <1>10, <1>11, <1>12, <1>13, <1>14, <1>15, <1>16, <1>17, <1>18, <1>19
     DEF Next, ThreadStep, InferenceStep

(* Two uses of the same samples never meet, no chunk is used after it was  *)
(* closed and none is lost, on the paths of failed reads, of refused       *)
(* chunks, of a full queue and of a listener's exception alike.            *)
THEOREM OwnershipOfChunks == Spec => []ChunksOwned
<1>1. OwnershipInv => ChunksOwned
  BY DEF ChunksOwned, OwnershipInv, Hands, Apart, Flags, UsedWhileOwned, OneHolder, RecorderOwns, Holding
<1> QED
  BY <1>1, OwnershipInit, OwnershipStep, PTL DEF Spec

(* Every variable keeps its type, the queue and the pool their limits.     *)
THEOREM RecorderTypeCorrect == Spec => []TypeOK
<1>1. OwnershipInv => TypeOK
  BY DEF OwnershipInv
<1> QED
  BY <1>1, OwnershipInit, OwnershipStep, PTL DEF Spec
-----------------------------------------------------------------------------
(* How many chunks somebody refers to. *)
Referenced == (Pooled \cup Queued \cup {chunk, old, held}) \ {0}
FewReferenced == IsFiniteSet(Referenced) /\ Cardinality(Referenced) <= QueueLimit + 2

LEMMA DistinctCount ==
    ASSUME NEW S, NEW s \in Seq(S), Distinct(s)
    PROVE  LET T == {s[k] : k \in 1..Len(s)} IN IsFiniteSet(T) /\ Cardinality(T) = Len(s)
<1> DEFINE T == {s[k] : k \in 1..Len(s)}
           f == [k \in 1..Len(s) |-> s[k]]
<1>1. Len(s) \in Nat
  OBVIOUS
<1>2. f \in [1..Len(s) -> T] /\ \A k \in 1..Len(s) : f[k] = s[k]
  OBVIOUS
<1>3. f \in Bijection(1..Len(s), T)
  <2>1. \A a, b \in 1..Len(s) : f[a] = f[b] => a = b
    BY <1>2 DEF Distinct
  <2>2. \A t \in T : \E a \in 1..Len(s) : f[a] = t
    BY <1>2
  <2> HIDE DEF f, T
  <2> QED
    BY <1>2, <2>1, <2>2 DEF Bijection, Injection, Surjection, IsInjective
<1>4. ExistsBijection(1..Len(s), T)
  BY <1>3 DEF ExistsBijection
<1>5. IsFiniteSet(T)
  BY <1>1, <1>4, FS_NatBijection
<1> QED
  BY <1>1, <1>4, <1>5, FS_CountingElements

(* Whatever a thread takes up was referred to before, but for a chunk that *)
(* acquire allocates, and it does so with an empty pool and empty hands.   *)
LEMMA ReferencedStep ==
    ASSUME OwnershipInv, [Next]_vars
    PROVE  \/ Referenced' \subseteq Referenced
           \/ /\ Pooled = {} /\ chunk = 0 /\ old = 0
              /\ Referenced' \subseteq Queued \cup {held, chunk'}
<1>h. Hands /\ Apart /\ TypeOK
  BY DEF OwnershipInv
<1> USE DEF recorderVars, poolVars, inferenceVars, Referenced
<1>1. CASE \/ LeaveLoop \/ ReadAudio \/ ReadNothing \/ Mix \/ Refuse \/ ListenerThrows \/ OfferFull
           \/ Start \/ RequestStop \/ StartRecords \/ SwitchInference \/ UNCHANGED vars
  <2>1. UNCHANGED <<chunk, old, held, freeBuffers, queue>>
    BY <1>1 DEF LeaveLoop, Goto, ReadAudio, ReadNothing, Mix, Refuse, ListenerThrows, OfferFull,
                Start, StartThread, RequestStop, StartRecords, SwitchInference, vars
  <2> QED
    BY <2>1 DEF Pooled, Queued
<1>2. CASE DropOld \/ CloseRefused \/ CloseChunk \/ CloseHeld
  <2>1. UNCHANGED <<freeBuffers, queue>> /\ chunk' \in {chunk, 0} /\ old' \in {old, 0} /\ held' \in {held, 0}
    BY <1>2 DEF DropOld, CloseRefused, CloseChunk, CloseHeld, MarkReleased, Goto, AfterRefused
  <2> QED
    BY <2>1 DEF Pooled, Queued
<1>3. CASE Acquire /\ freeBuffers # <<>>
  <2>1. chunk' = Head(freeBuffers) /\ freeBuffers' = Tail(freeBuffers) /\ UNCHANGED <<old, held, queue>>
    BY <1>3 DEF Acquire, Goto
  <2>2. Head(freeBuffers) \in Pooled /\ Pooled' = Pooled \ {Head(freeBuffers)}
    BY <1>3, <1>h, <2>1, TakeFromPool DEF Apart
  <2>3. Queued' = Queued
    BY <2>1 DEF Queued
  <2> QED
    BY <2>1, <2>2, <2>3
<1>4. CASE Acquire /\ freeBuffers = <<>>
  <2>1. /\ chunk' \in Garbage /\ UNCHANGED <<old, held, queue, freeBuffers>>
        /\ rec_pc = "loop"
    BY <1>4 DEF Acquire, Goto, Fresh
  <2>2. Pooled = {} /\ Pooled' = {}
    BY <1>4, <2>1 DEF Pooled
  <2>3. Queued' = Queued
    BY <2>1 DEF Queued
  <2>4. chunk = 0 /\ old = 0
    BY <1>h, <2>1 DEF Hands, Holding, RecorderOwns
  <2> QED
    BY <2>1, <2>2, <2>3, <2>4
<1>5. CASE Offer
  <2>1. queue' = Append(queue, chunk) /\ chunk' = 0 /\ UNCHANGED <<old, held, freeBuffers>>
        /\ Len(queue) < QueueLimit
    BY <1>5 DEF Offer, Goto
  <2>2. chunk # 0
    BY <1>5, <1>h DEF Offer, Hands, Holding, RecorderOwns
  <2>3. chunk \in Chunks /\ chunk \notin Queued
    BY <1>h, <2>2 DEF TypeOK, Apart
  <2>4. Queued' = Queued \cup {chunk}
    BY <1>h, <2>1, <2>3, AddToQueue DEF Apart
  <2> QED
    BY <2>1, <2>4 DEF Pooled
<1>6. CASE PollOld
  <2>1. CASE queue = <<>>
    <3>1. UNCHANGED <<chunk, old, held, freeBuffers, queue>>
      BY <1>6, <2>1 DEF PollOld, Goto
    <3> QED
      BY <3>1 DEF Pooled, Queued
  <2>2. CASE queue # <<>>
    <3>1. old' = Head(queue) /\ queue' = Tail(queue) /\ UNCHANGED <<chunk, held, freeBuffers>>
      BY <1>6, <2>2 DEF PollOld, Goto
    <3>2. Head(queue) \in Queued /\ Queued' = Queued \ {Head(queue)}
      BY <1>h, <2>2, <3>1, TakeFromQueue DEF Apart
    <3> QED
      BY <3>1, <3>2 DEF Pooled
  <2> QED
    BY <2>1, <2>2
<1>7. CASE Take
  <2>1. held' = Head(queue) /\ queue' = Tail(queue) /\ UNCHANGED <<chunk, old, freeBuffers>> /\ queue # <<>>
    BY <1>7 DEF Take
  <2>2. Head(queue) \in Queued /\ Queued' = Queued \ {Head(queue)}
    BY <1>h, <2>1, TakeFromQueue DEF Apart
  <2> QED
    BY <2>1, <2>2 DEF Pooled
<1>8. CASE ReleaseOld
  <2>1. Release(old) /\ old' = 0 /\ UNCHANGED <<chunk, held, queue>> /\ rec_pc = "release old"
    BY <1>8 DEF ReleaseOld, Goto
  <2>2. old \in Chunks /\ old \notin Pooled /\ Distinct(freeBuffers)
    BY <1>h, <2>1 DEF TypeOK, Hands, Apart
  <2>3. Pooled' = Pooled \cup {old} \/ Pooled' = Pooled
    BY <1>h, <2>1, <2>2, ReturnToPool
  <2> QED
    BY <2>1, <2>3 DEF Queued
<1>9. CASE ReleaseRefused \/ ReleaseChunk
  <2>1. /\ Release(chunk) /\ chunk' \in {chunk, 0} /\ UNCHANGED <<old, held, queue>>
        /\ rec_pc \in {"release refused", "release"}
    BY <1>9 DEF ReleaseRefused, ReleaseChunk, Goto, AfterRefused
  <2>2. chunk \in Chunks /\ chunk \notin Pooled /\ Distinct(freeBuffers)
    BY <1>h, <2>1 DEF TypeOK, Hands, Holding, Apart
  <2>3. Pooled' = Pooled \cup {chunk} \/ Pooled' = Pooled
    BY <1>h, <2>1, <2>2, ReturnToPool
  <2> QED
    BY <2>1, <2>3 DEF Queued
<1>10. CASE ReleaseHeld
  <2>1. Release(held) /\ held' = 0 /\ UNCHANGED <<chunk, old, queue>> /\ inf_pc = "close"
    BY <1>10 DEF ReleaseHeld
  <2>2. held \in Chunks /\ held \notin Pooled /\ Distinct(freeBuffers)
    BY <1>h, <2>1 DEF TypeOK, Hands, Apart
  <2>3. Pooled' = Pooled \cup {held} \/ Pooled' = Pooled
    BY <1>h, <2>1, <2>2, ReturnToPool
  <2> QED
    BY <2>1, <2>3 DEF Queued
<1>11. CASE Finally
  <2>1. freeBuffers' = <<>> /\ UNCHANGED <<chunk, old, held, queue>>
    BY <1>11 DEF Finally
  <2> QED
    BY <2>1 DEF Pooled, Queued
<1> QED
  BY <1>1, <1>2, <1>3, <1>4, <1>5, <1>6, <1>7, <1>8, <1>9, <1>10, <1>11 DEF Next, ThreadStep, InferenceStep

LEMMA FewStep == OwnershipInv /\ FewReferenced /\ [Next]_vars => FewReferenced'
<1> SUFFICES ASSUME OwnershipInv, FewReferenced, [Next]_vars PROVE FewReferenced'
  OBVIOUS
<1>0. QueueLimit \in Nat
  BY RecorderAssumption
<1>1. CASE Referenced' \subseteq Referenced
  <2>1. /\ IsFiniteSet(Referenced') /\ Cardinality(Referenced') <= Cardinality(Referenced)
        /\ Cardinality(Referenced') \in Nat /\ Cardinality(Referenced) \in Nat
    BY <1>1, FS_Subset, FS_CardinalityType DEF FewReferenced
  <2> QED
    BY <1>0, <2>1 DEF FewReferenced
<1>2. CASE Referenced' \subseteq Queued \cup {held, chunk'}
  <2> DEFINE q == Queued
             h == q \cup {held}
             c == h \cup {chunk'}
  <2>1. IsFiniteSet(q) /\ Cardinality(q) <= QueueLimit /\ Cardinality(q) \in Nat
    <3>1. queue \in Seq(Chunks) /\ Len(queue) <= QueueLimit /\ Distinct(queue)
      BY DEF OwnershipInv, TypeOK, Apart
    <3> QED
      BY <3>1, DistinctCount, FS_CardinalityType DEF Queued
  <2> HIDE DEF q
  <2>2. IsFiniteSet(h) /\ Cardinality(h) <= QueueLimit + 1 /\ Cardinality(h) \in Nat
    <3>1. IsFiniteSet(h) /\ Cardinality(h) \in {Cardinality(q), Cardinality(q) + 1}
      BY <2>1, FS_AddElement
    <3> QED
      BY <1>0, <2>1, <3>1
  <2> HIDE DEF h
  <2>3. IsFiniteSet(c) /\ Cardinality(c) <= QueueLimit + 2 /\ Cardinality(c) \in Nat
    <3>1. IsFiniteSet(c) /\ Cardinality(c) \in {Cardinality(h), Cardinality(h) + 1}
      BY <2>2, FS_AddElement
    <3> QED
      BY <1>0, <2>2, <3>1
  <2>4. Referenced' \subseteq c
    BY <1>2 DEF h, q
  <2> HIDE DEF c
  <2>5. /\ IsFiniteSet(Referenced') /\ Cardinality(Referenced') <= Cardinality(c)
        /\ Cardinality(Referenced') \in Nat
    BY <2>3, <2>4, FS_Subset, FS_CardinalityType
  <2> QED
    BY <1>0, <2>3, <2>5 DEF FewReferenced
<1> QED
  BY <1>1, <1>2, ReferencedStep

LEMMA RoomForOneMore ==
    ASSUME PoolLimit >= QueueLimit + 2, freeBuffers \in Seq(Chunks), Distinct(freeBuffers), FewReferenced,
           NEW c \in {chunk, old, held}, c # 0, c \notin Pooled
    PROVE  Len(freeBuffers) < PoolLimit
<1> DEFINE n == Len(freeBuffers)
           P == Pooled
           C == P \cup {c}
<1>1. n \in Nat /\ PoolLimit \in Nat /\ QueueLimit \in Nat /\ 0 \notin Chunks
  BY RecorderAssumption
<1>2. IsFiniteSet(P) /\ Cardinality(P) = n
  BY DistinctCount DEF Pooled
<1>3. C \subseteq Referenced
  <2>1. 0 \notin Pooled
    BY <1>1 DEF Pooled
  <2> QED
    BY <2>1 DEF Referenced
<1> HIDE DEF P, n
<1>4. IsFiniteSet(C) /\ Cardinality(C) = n + 1
  BY <1>2, FS_AddElement DEF P
<1> HIDE DEF C
<1>5. Cardinality(C) <= Cardinality(Referenced) /\ Cardinality(Referenced) \in Nat
  BY <1>3, FS_Subset, FS_CardinalityType DEF FewReferenced
<1>6. n + 1 <= QueueLimit + 2
  BY <1>1, <1>4, <1>5 DEF FewReferenced
<1>7. n < PoolLimit
  BY <1>1, <1>6
<1> QED
  BY <1>7 DEF n

(* The pool is never full when a chunk comes back, if it keeps two more    *)
(* than the queue holds (the code's 132 are four more than its 128), on    *)
(* whatever path and by whichever thread the chunk is closed: none is      *)
(* thrown away that acquire could give out again.                          *)
THEOREM PoolIsLargeEnough ==
    ASSUME PoolLimit >= QueueLimit + 2
    PROVE  Spec => []PoolSuffices
<1>1. Init => FewReferenced
  <2> SUFFICES ASSUME Init PROVE FewReferenced
    OBVIOUS
  <2>1. Referenced = {}
    BY DEF Init, Referenced, Pooled, Queued
  <2> QED
    BY <2>1, FS_EmptySet, RecorderAssumption DEF FewReferenced
<1>2. OwnershipInv /\ FewReferenced => PoolSuffices
  <2> SUFFICES ASSUME OwnershipInv, FewReferenced,
                      rec_pc \in {"release", "release refused", "release old"} \/ inf_pc = "close"
               PROVE  Len(freeBuffers) < PoolLimit
    BY DEF PoolSuffices
  <2>1. PICK c \in {chunk, old, held} : c # 0 /\ c \notin Pooled
    BY DEF OwnershipInv, Hands, Holding, Apart
  <2>2. freeBuffers \in Seq(Chunks) /\ Distinct(freeBuffers)
    BY DEF OwnershipInv, TypeOK, Apart
  <2> QED
    BY <2>1, <2>2, RoomForOneMore
<1> QED
  BY <1>1, <1>2, OwnershipInit, OwnershipStep, FewStep, PTL DEF Spec
=============================================================================
