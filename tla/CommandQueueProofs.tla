------------------------- MODULE CommandQueueProofs -------------------------
(***************************************************************************)
(* Proofs about CommandQueue, for every set of lanes and calls: type       *)
(* correctness, and the four facts that make the queue trustworthy (an     *)
(* accepted call is queued exactly once, slots are accounted for, no       *)
(* backlog sits next to a free slot, a drained wait means ended tasks).    *)
(*                                                                         *)
(* The facts are inductive only together, with two more: no task carries a *)
(* generation its lane has not reached (else a reset could turn an old     *)
(* task into a current one), and a snapshot of waitForActiveTasks holds    *)
(* only calls that have started (else one could start afterwards).         *)
(***************************************************************************)
EXTENDS CommandQueue, FiniteSetTheorems, SequenceTheorems, TLAPS

LaneType == [queue : Seq(Entries), active : SUBSET Entries,
             maxConcurrent : Nat \ {0}, generation : Nat]

Distinct(q) == \A i, j \in DOMAIN q : q[i] = q[j] => i = j

Members(q) == {q[i] : i \in DOMAIN q}

\* What ties one lane to the phases and generations of its calls.
LaneOK(s, l, ph, tg) ==
    /\ s \in LaneType
    /\ Distinct(s.queue)
    /\ Members(s.queue) = {e \in Entries : LaneOf[e] = l /\ ph[e] = "queued"}
    /\ s.active = {e \in Entries : LaneOf[e] = l /\ ph[e] = "running"
                                   /\ tg[e] = s.generation}
    /\ \A e \in Entries : LaneOf[e] = l /\ ph[e] = "running" => tg[e] <= s.generation

NoIdle(s) == s.queue # <<>> => Cardinality(s.active) >= s.maxConcurrent

\* A running task's generation is one its lane has reached.
GenerationsReached ==
    \A e \in Entries :
      phase[e] = "running" => taskGeneration[e] <= lanes[LaneOf[e]].generation

\* A snapshot holds started calls only.
SnapshotStarted ==
    \A e \in waiter.activeAtStart : phase[e] \notin {"idle", "queued"}

IInv ==
    /\ TypeOK
    /\ QueuedOnce
    /\ RunningAccounted
    /\ NoIdleBacklog
    /\ GenerationsReached
    /\ SnapshotStarted
    /\ DrainedMeansEnded

-----------------------------------------------------------------------------
\* The invariant speaks lane by lane; so does its next-state version.
LEMMA EachLane ==
    ASSUME IInv
    PROVE  \A l \in Lanes : LaneOK(lanes[l], l, phase, taskGeneration)
  BY QueueAssumption
     DEF IInv, TypeOK, QueuedOnce, RunningAccounted, GenerationsReached, LaneOK,
         LaneType, Distinct, Members

LEMMA AllLanesNext ==
    ASSUME lanes' \in [Lanes -> LaneType],
           \A l \in Lanes : /\ LaneOK(lanes'[l], l, phase', taskGeneration')
                            /\ NoIdle(lanes'[l])
    PROVE  QueuedOnce' /\ RunningAccounted' /\ NoIdleBacklog' /\ GenerationsReached'
  BY QueueAssumption
     DEF QueuedOnce, RunningAccounted, NoIdleBacklog, GenerationsReached, LaneOK,
         LaneType, Distinct, Members, NoIdle

\* The entries at the head of a queue of distinct entries are as many as the
\* places they take.
LEMMA HeadCount ==
    ASSUME NEW q \in Seq(Entries), Distinct(q), NEW n \in 0..Len(q)
    PROVE  /\ IsFiniteSet({q[i] : i \in 1..n})
           /\ Cardinality({q[i] : i \in 1..n}) = n
<1> DEFINE T == {q[i] : i \in 1..n}
           f == [i \in 1..n |-> q[i]]
<1>1. f \in Bijection(1..n, T)
  <2>1. DOMAIN q = 1..Len(q) /\ Len(q) \in Nat
    OBVIOUS
  <2>2. f \in [1..n -> T]
    OBVIOUS
  <2>3. ASSUME NEW i \in 1..n, NEW j \in 1..n, f[i] = f[j] PROVE i = j
    <3>1. i \in DOMAIN q /\ j \in DOMAIN q /\ q[i] = q[j]
      BY <2>1, <2>3
    <3> QED
      BY <3>1 DEF Distinct
  <2>4. \A t \in T : \E i \in 1..n : f[i] = t
    OBVIOUS
  <2> HIDE DEF f, T
  <2> QED
    BY <2>2, <2>3, <2>4 DEF Bijection, Injection, Surjection, IsInjective
<1>2. IsFiniteSet(1..n) /\ Cardinality(1..n) = n
  BY FS_Interval
<1>3. ExistsBijection(1..n, T)
  BY <1>1 DEF ExistsBijection
<1> QED
  BY <1>2, <1>3, FS_Bijection

\* The pump takes a prefix of the queue.
LEMMA PumpType ==
    ASSUME NEW s \in LaneType
    PROVE  /\ Cardinality(s.active) \in Nat
           /\ Batch(s) \in 0..Len(s.queue)
           /\ Startable(s) \subseteq Entries
           /\ Pump(s) \in LaneType
           /\ Len(Pump(s).queue) = Len(s.queue) - Batch(s)
           /\ \A i \in 1..Len(Pump(s).queue) :
                Pump(s).queue[i] = s.queue[Batch(s) + i]
<1> DEFINE n == Batch(s)
           q == s.queue
           r == SubSeq(q, n + 1, Len(q))
<1>1. Cardinality(s.active) \in Nat
  BY QueueAssumption, FS_Subset, FS_CardinalityType DEF LaneType
<1>2. q \in Seq(Entries) /\ Len(q) \in Nat /\ s.maxConcurrent \in Nat
  BY DEF LaneType
<1>3. n \in 0..Len(q)
  BY <1>1, <1>2 DEF Batch, Room
<1>4. Startable(s) \subseteq Entries
  BY <1>2, <1>3 DEF Startable
<1>5. /\ r \in Seq(Entries)
      /\ Len(r) = Len(q) - n
      /\ \A i \in 1..Len(r) : r[i] = q[n + i]
  <2>1. \A i \in n + 1 .. Len(q) : q[i] \in Entries
    BY <1>2, <1>3
  <2>2. n + 1 \in Int /\ Len(q) \in Int
    BY <1>2, <1>3
  <2>3. /\ r \in Seq(Entries)
        /\ Len(r) = IF n + 1 <= Len(q) THEN Len(q) - (n + 1) + 1 ELSE 0
        /\ \A i \in 1 .. Len(q) - (n + 1) + 1 : r[i] = q[(n + 1) + i - 1]
    BY <2>1, <2>2, SubSeqProperties
  <2> HIDE DEF n, q, r
  <2> QED
    BY <1>2, <1>3, <2>3
<1>6. Pump(s) \in LaneType /\ Pump(s).queue = r
  BY <1>4, <1>5 DEF Pump, LaneType
<1> HIDE DEF n, q, r
<1> QED
  BY <1>1, <1>3, <1>4, <1>5, <1>6 DEF n, q

\* What a pump starts was queued on that lane.
LEMMA PumpHead ==
    ASSUME NEW s, NEW l \in Lanes, NEW ph, NEW tg, LaneOK(s, l, ph, tg)
    PROVE  \A e \in Startable(s) : e \in Entries /\ LaneOf[e] = l /\ ph[e] = "queued"
<1>1. s \in LaneType /\ s.queue \in Seq(Entries)
  BY DEF LaneOK, LaneType
<1>2. Batch(s) \in 0..Len(s.queue)
  BY <1>1, PumpType
<1>3. Startable(s) \subseteq Members(s.queue)
  BY <1>1, <1>2 DEF Startable, Members
<1> QED
  BY <1>3 DEF LaneOK

\* The heart of the module: whatever a handler did to a lane, the pump it
\* ends with restores the lane's invariant and leaves no idle backlog.
LEMMA PumpLane ==
    ASSUME NEW s, NEW l \in Lanes, NEW ph, NEW tg, LaneOK(s, l, ph, tg),
           NEW ph2, NEW tg2,
           \A e \in Entries : LaneOf[e] = l =>
              /\ ph2[e] = IF e \in Startable(s) THEN "running" ELSE ph[e]
              /\ tg2[e] = IF e \in Startable(s) THEN s.generation ELSE tg[e]
    PROVE  LaneOK(Pump(s), l, ph2, tg2) /\ NoIdle(Pump(s))
<1> DEFINE n == Batch(s)
           q == s.queue
           r == Pump(s).queue
<1>1. s \in LaneType /\ Distinct(q)
  BY DEF LaneOK
<1>2. /\ n \in 0..Len(q)
      /\ Pump(s) \in LaneType
      /\ Len(r) = Len(q) - n
      /\ \A i \in 1..Len(r) : r[i] = q[n + i]
      /\ Cardinality(s.active) \in Nat
  BY <1>1, PumpType
<1>3. q \in Seq(Entries) /\ r \in Seq(Entries) /\ Len(q) \in Nat /\ Len(r) \in Nat
  BY <1>1, <1>2 DEF LaneType
<1>4. DOMAIN q = 1..Len(q) /\ DOMAIN r = 1..Len(r)
  BY <1>3
<1>5. Pump(s).active = s.active \cup Startable(s) /\ Pump(s).generation = s.generation
      /\ Pump(s).maxConcurrent = s.maxConcurrent
  BY <1>1 DEF Pump, LaneType
<1>6. Startable(s) = {q[i] : i \in 1..n}
  BY DEF Startable
<1> HIDE DEF n, q, r
<1>7. Distinct(r)
  <2> SUFFICES ASSUME NEW i \in DOMAIN r, NEW j \in DOMAIN r, r[i] = r[j]
               PROVE  i = j
    BY DEF Distinct
  <2>1. q[n + i] = q[n + j] /\ n + i \in DOMAIN q /\ n + j \in DOMAIN q
    BY <1>2, <1>3, <1>4
  <2>2. n + i = n + j
    BY <2>1, <1>1 DEF Distinct
  <2> QED
    BY <2>2, <1>2, <1>3, <1>4
<1>8. Members(r) = Members(q) \ Startable(s)
  <2>1. ASSUME NEW i \in DOMAIN r
        PROVE  r[i] \in Members(q) \ Startable(s)
    <3>1. r[i] = q[n + i] /\ n + i \in DOMAIN q /\ i >= 1 /\ i \in Nat
      BY <1>2, <1>3, <1>4
    <3>2. ASSUME NEW j \in 1..n, q[j] = r[i] PROVE FALSE
      <4>1. j \in DOMAIN q /\ q[j] = q[n + i]
        BY <3>1, <3>2, <1>2, <1>4
      <4>2. j = n + i
        BY <4>1, <3>1, <1>1 DEF Distinct
      <4> QED
        BY <4>2, <3>1, <1>2
    <3> QED
      BY <3>1, <3>2, <1>6 DEF Members
  <2>2. ASSUME NEW k \in DOMAIN q, q[k] \notin Startable(s)
        PROVE  q[k] \in Members(r)
    <3>1. k \in 1..Len(q) /\ ~(k \in 1..n)
      BY <2>2, <1>4, <1>6
    <3>2. k - n \in DOMAIN r /\ r[k - n] = q[n + (k - n)] /\ n + (k - n) = k
      BY <3>1, <1>2, <1>3, <1>4
    <3> QED
      BY <3>2 DEF Members
  <2> QED
    BY <2>1, <2>2 DEF Members
<1>10. \A e \in Startable(s) : e \in Entries /\ LaneOf[e] = l /\ ph[e] = "queued"
  BY PumpHead
<1>11. Members(r) = {e \in Entries : LaneOf[e] = l /\ ph2[e] = "queued"}
  BY <1>8, <1>10 DEF LaneOK, q
<1>12. Pump(s).active = {e \in Entries : LaneOf[e] = l /\ ph2[e] = "running"
                                         /\ tg2[e] = s.generation}
  BY <1>5, <1>10 DEF LaneOK
<1>13. \A e \in Entries : LaneOf[e] = l /\ ph2[e] = "running" => tg2[e] <= s.generation
  BY <1>1, <1>10 DEF LaneOK, LaneType
<1>14. LaneOK(Pump(s), l, ph2, tg2)
  BY <1>2, <1>5, <1>7, <1>11, <1>12, <1>13 DEF LaneOK, r
<1>15. NoIdle(Pump(s))
  <2> SUFFICES ASSUME r # <<>>
               PROVE  Cardinality(Pump(s).active) >= s.maxConcurrent
    BY <1>5 DEF NoIdle, r
  <2>1. n < Len(q)
    BY <1>2, <1>3
  <2>2. n = Room(s)
    BY <2>1, <1>1, <1>2, <1>3 DEF Batch, n, q
  <2>3. IsFiniteSet(Startable(s)) /\ Cardinality(Startable(s)) = n
    <3>1. /\ IsFiniteSet({q[i] : i \in 1..n})
          /\ Cardinality({q[i] : i \in 1..n}) = n
      BY <1>1, <1>2, <1>3, HeadCount
    <3> QED
      BY <3>1, <1>6
  <2>4. s.active \cap Startable(s) = {}
    BY <1>10 DEF LaneOK
  <2>5. IsFiniteSet(s.active)
    BY <1>1, QueueAssumption, FS_Subset DEF LaneType
  <2>6. Cardinality(Pump(s).active) = Cardinality(s.active) + n
    <3>1. Cardinality(s.active \cap Startable(s)) = 0
      BY <2>4, FS_EmptySet
    <3>2. Cardinality(s.active \cup Startable(s)) =
            Cardinality(s.active) + Cardinality(Startable(s))
              - Cardinality(s.active \cap Startable(s))
      BY <2>3, <2>5, FS_Union
    <3> QED
      BY <3>1, <3>2, <2>3, <1>2, <1>5
  <2> QED
    BY <2>2, <2>6, <1>1, <1>2 DEF Room, LaneType
<1> QED
  BY <1>14, <1>15
\* A pump that starts something fills the lane up to its limit at most.
LEMMA PumpLimit ==
    ASSUME NEW s, NEW l \in Lanes, NEW ph, NEW tg, LaneOK(s, l, ph, tg),
           Startable(s) # {}
    PROVE  Cardinality(Pump(s).active) <= s.maxConcurrent
<1> DEFINE n == Batch(s)
           q == s.queue
<1>1. /\ s \in LaneType /\ q \in Seq(Entries) /\ Distinct(q) /\ Len(q) \in Nat
      /\ s.maxConcurrent \in Nat
  BY DEF LaneOK, LaneType
<1>2. Cardinality(s.active) \in Nat /\ n \in 0..Len(q)
  BY <1>1, PumpType
<1>3. IsFiniteSet(s.active)
  BY <1>1, QueueAssumption, FS_Subset DEF LaneType
<1>4. IsFiniteSet(Startable(s)) /\ Cardinality(Startable(s)) = n
  <2> HIDE DEF n, q
  <2>1. /\ IsFiniteSet({q[i] : i \in 1..n})
        /\ Cardinality({q[i] : i \in 1..n}) = n
    BY <1>1, <1>2, HeadCount
  <2> QED
    BY <2>1 DEF Startable, n, q
<1>5. n >= 1 /\ n <= Room(s)
  <2>1. n # 0
    BY <1>4, FS_EmptySet
  <2>2. Room(s) \in Nat
    BY <1>1, <1>2 DEF Room
  <2> QED
    BY <2>1, <2>2, <1>1, <1>2 DEF Batch
<1>6. Cardinality(s.active) + n <= s.maxConcurrent
  <2> HIDE DEF n, q
  <2> QED
    BY <1>1, <1>2, <1>5 DEF Room
<1>7. /\ Cardinality(s.active \cup Startable(s)) =
           Cardinality(s.active) + n - Cardinality(s.active \cap Startable(s))
      /\ Cardinality(s.active \cap Startable(s)) \in Nat
  <2>1. IsFiniteSet(s.active \cap Startable(s))
    BY <1>3, FS_Subset
  <2> QED
    BY <1>3, <1>4, <2>1, FS_Union, FS_CardinalityType
<1>8. Pump(s).active = s.active \cup Startable(s)
  BY <1>1 DEF Pump, LaneType
<1> QED
  <2> HIDE DEF n, q
  <2> QED
    BY <1>1, <1>2, <1>6, <1>7, <1>8

-----------------------------------------------------------------------------
\* The step of StartsWithinLimit.
LimitKept ==
    \A e \in Entries :
      phase[e] # "running" /\ phase'[e] = "running" =>
        LET s == lanes'[LaneOf[e]] IN Cardinality(s.active) <= s.maxConcurrent

\* A handler that starts nothing.
LEMMA NoStartLimit ==
    ASSUME \A e \in Entries : phase'[e] = "running" => phase[e] = "running"
    PROVE  LimitKept
  BY DEF LimitKept

\* A handler that changes one lane and ends with drainLane.
LEMMA DrainStep ==
    ASSUME IInv, NEW l \in Lanes, NEW s, NEW was \in [Entries -> Phases],
           LaneOK(s, l, was, taskGeneration),
           s.generation = lanes[l].generation,
           \A e \in Entries : LaneOf[e] # l => was[e] = phase[e],
           \A e \in Entries : was[e] = "running" => phase[e] = "running",
           \A e \in waiter.activeAtStart : was[e] \notin {"idle", "queued"},
           DrainLane(l, s, was), UNCHANGED <<gatewayDraining, waiter>>
    PROVE  IInv' /\ LimitKept
<1>1. \A e \in Startable(s) : e \in Entries /\ LaneOf[e] = l /\ was[e] = "queued"
  BY PumpHead
<1>2. /\ \A e \in Entries : phase'[e] = IF e \in Startable(s) THEN "running" ELSE was[e]
      /\ \A e \in Entries : taskGeneration'[e] =
            IF e \in Startable(s) THEN s.generation ELSE taskGeneration[e]
  BY DEF DrainLane
<1>3. LaneOK(Pump(s), l, phase', taskGeneration') /\ NoIdle(Pump(s))
  BY <1>2, PumpLane
<1>4. lanes \in [Lanes -> LaneType]
  BY DEF IInv, TypeOK, LaneType
<1>5. lanes' = [lanes EXCEPT ![l] = Pump(s)]
  BY DEF DrainLane
<1>6. lanes' \in [Lanes -> LaneType] /\ lanes'[l] = Pump(s)
  BY <1>3, <1>4, <1>5 DEF LaneOK
<1>7. ASSUME NEW k \in Lanes, k # l
      PROVE  LaneOK(lanes'[k], k, phase', taskGeneration') /\ NoIdle(lanes'[k])
  <2>1. lanes'[k] = lanes[k]
    BY <1>4, <1>5, <1>7
  <2>2. LaneOK(lanes[k], k, phase, taskGeneration) /\ NoIdle(lanes[k])
    BY EachLane DEF IInv, NoIdleBacklog, NoIdle
  <2>3. \A e \in Entries : LaneOf[e] = k =>
           phase'[e] = phase[e] /\ taskGeneration'[e] = taskGeneration[e]
    BY <1>1, <1>2, <1>7
  <2> QED
    BY <2>1, <2>2, <2>3 DEF LaneOK
<1>8. QueuedOnce' /\ RunningAccounted' /\ NoIdleBacklog' /\ GenerationsReached'
  BY <1>3, <1>6, <1>7, AllLanesNext
<1>9. TypeOK'
  <2>1. phase' \in [Entries -> Phases]
    BY DEF DrainLane, Phases
  <2>2. taskGeneration' \in [Entries -> Nat]
    BY DEF DrainLane, IInv, TypeOK, LaneOK, LaneType
  <2> QED
    BY <2>1, <2>2, <1>6 DEF IInv, TypeOK, LaneType
<1>10. SnapshotStarted'
  BY <1>2 DEF IInv, TypeOK, SnapshotStarted
<1>11. DrainedMeansEnded'
  <2> SUFFICES ASSUME waiter.status = "drained", NEW e \in waiter.activeAtStart,
                      phase'[e] = "running"
               PROVE  taskGeneration'[e] < lanes'[LaneOf[e]].generation
    BY DEF DrainedMeansEnded
  <2>1. e \in Entries /\ e \notin Startable(s)
    BY <1>1 DEF IInv, TypeOK
  <2>2. phase[e] = "running" /\ taskGeneration'[e] = taskGeneration[e]
    BY <2>1, <1>2
  <2>3. taskGeneration[e] < lanes[LaneOf[e]].generation
    BY <2>2 DEF IInv, DrainedMeansEnded
  <2>4. Pump(s).generation = lanes[l].generation
    BY DEF Pump, LaneOK, LaneType
  <2>5. lanes'[LaneOf[e]].generation = lanes[LaneOf[e]].generation
    BY <1>4, <1>5, <2>1, <2>4, QueueAssumption
  <2> QED
    BY <2>2, <2>3, <2>5
<1>12. LimitKept
  <2> SUFFICES ASSUME NEW e \in Entries, phase[e] # "running", phase'[e] = "running"
               PROVE  /\ LaneOf[e] = l
                      /\ Cardinality(lanes'[l].active) <= lanes'[l].maxConcurrent
    BY DEF LimitKept
  <2>1. e \in Startable(s)
    BY <1>2
  <2>2. Cardinality(Pump(s).active) <= s.maxConcurrent
    BY <2>1, PumpLimit
  <2>3. Pump(s).maxConcurrent = s.maxConcurrent
    BY DEF Pump, LaneOK, LaneType
  <2> QED
    BY <1>1, <1>6, <2>1, <2>2, <2>3
<1> QED
  BY <1>8, <1>9, <1>10, <1>11, <1>12 DEF IInv
\* Adding a call at the end of its lane's queue.
LEMMA AppendLane ==
    ASSUME NEW l \in Lanes, NEW s, LaneOK(s, l, phase, taskGeneration),
           NEW e \in Entries, LaneOf[e] = l, phase[e] = "idle",
           phase \in [Entries -> Phases]
    PROVE  LaneOK(WithEntry(s, e), l, [phase EXCEPT ![e] = "queued"], taskGeneration)
<1> DEFINE q == s.queue
           r == Append(q, e)
<1>1. q \in Seq(Entries) /\ s \in LaneType /\ e \notin Members(q) /\ Distinct(q)
  BY DEF LaneOK, LaneType
<1>2. /\ WithEntry(s, e) \in LaneType
      /\ WithEntry(s, e).queue = r
      /\ WithEntry(s, e).active = s.active
      /\ WithEntry(s, e).generation = s.generation
  <2>1. r \in Seq(Entries)
    BY <1>1
  <2>2. WithEntry(s, e) = [s EXCEPT !.queue = r]
    BY DEF WithEntry
  <2> HIDE DEF r
  <2> QED
    BY <1>1, <2>1, <2>2 DEF LaneType
<1>3. /\ DOMAIN q = 1..Len(q) /\ DOMAIN r = 1..Len(q) + 1 /\ Len(q) \in Nat
      /\ \A i \in 1..Len(q) : r[i] = q[i]
      /\ r[Len(q) + 1] = e
  BY <1>1
<1> HIDE DEF q, r
<1>4. \A i \in 1..Len(q) : r[i] # e
  BY <1>1, <1>3 DEF Members
<1>5. Distinct(r)
  BY <1>1, <1>3, <1>4 DEF Distinct
<1>6. Members(r) = Members(q) \cup {e}
  BY <1>3 DEF Members
<1> QED
  BY <1>2, <1>5, <1>6 DEF LaneOK, q

LEMMA EnqueueStep ==
    ASSUME IInv, NEW e \in Entries, Enqueue(e)
    PROVE  IInv' /\ LimitKept
<1> DEFINE l == LaneOf[e]
           s == WithEntry(lanes[l], e)
           was == [phase EXCEPT ![e] = "queued"]
<1>1. CASE gatewayDraining /\ phase' = [phase EXCEPT ![e] = "refused"]
           /\ UNCHANGED <<lanes, taskGeneration>>
  <2>1. IInv'
    BY <1>1 DEF Enqueue, IInv, TypeOK, QueuedOnce, RunningAccounted, NoIdleBacklog,
                GenerationsReached, SnapshotStarted, DrainedMeansEnded, Phases, Settled
  <2>2. \A f \in Entries : phase'[f] = "running" => phase[f] = "running"
    BY <1>1 DEF IInv, TypeOK
  <2> QED
    BY <2>1, <2>2, NoStartLimit
<1>2. CASE DrainLane(l, s, was)
  <2>1. l \in Lanes /\ phase \in [Entries -> Phases] /\ phase[e] = "idle"
    BY QueueAssumption DEF IInv, TypeOK, Enqueue
  <2>2. LaneOK(lanes[l], l, phase, taskGeneration)
    BY <2>1, EachLane
  <2>3. LaneOK(s, l, was, taskGeneration)
    BY <2>1, <2>2, AppendLane
  <2>4. s.generation = lanes[l].generation
    BY <2>2 DEF WithEntry, LaneOK, LaneType
  <2>5. /\ was \in [Entries -> Phases]
        /\ \A f \in Entries : LaneOf[f] # l => was[f] = phase[f]
        /\ \A f \in Entries : was[f] = "running" => phase[f] = "running"
        /\ \A f \in waiter.activeAtStart : was[f] \notin {"idle", "queued"}
    BY <2>1 DEF IInv, TypeOK, SnapshotStarted, Phases
  <2>6. UNCHANGED <<gatewayDraining, waiter>>
    BY DEF Enqueue
  <2> HIDE DEF l, s, was
  <2> QED
    BY <1>2, <2>1, <2>3, <2>4, <2>5, <2>6, DrainStep
<1> QED
  BY <1>1, <1>2 DEF Enqueue

LEMMA CompleteStep ==
    ASSUME IInv, NEW e \in Entries, Complete(e)
    PROVE  IInv' /\ LimitKept
<1> DEFINE l == LaneOf[e]
           s == WithoutTask(lanes[l], e, taskGeneration[e])
<1>1. PICK outcome \in {"resolved", "rejected"} :
         IF taskGeneration[e] = lanes[l].generation
         THEN DrainLane(l, s, [phase EXCEPT ![e] = outcome])
         ELSE phase' = [phase EXCEPT ![e] = outcome] /\ UNCHANGED <<lanes, taskGeneration>>
  BY DEF Complete
<1> DEFINE was == [phase EXCEPT ![e] = outcome]
<1>2. /\ l \in Lanes /\ phase \in [Entries -> Phases] /\ phase[e] = "running"
      /\ UNCHANGED <<gatewayDraining, waiter>>
  BY QueueAssumption DEF IInv, TypeOK, Complete
<1>3. /\ was \in [Entries -> Phases]
      /\ \A f \in Entries : LaneOf[f] # l => was[f] = phase[f]
      /\ \A f \in Entries : was[f] = "running" => phase[f] = "running"
      /\ \A f \in waiter.activeAtStart : was[f] \notin {"idle", "queued"}
  BY <1>2 DEF IInv, TypeOK, SnapshotStarted, Phases, Settled
<1>4. CASE taskGeneration[e] = lanes[l].generation
  <2>1. LaneOK(lanes[l], l, phase, taskGeneration)
    BY <1>2, EachLane
  <2>2. s = [lanes[l] EXCEPT !.active = @ \ {e}]
    BY <1>4 DEF WithoutTask
  <2>3. LaneOK(s, l, was, taskGeneration)
    BY <1>2, <2>1, <2>2 DEF LaneOK, LaneType
  <2>4. s.generation = lanes[l].generation
    BY <2>1, <2>2 DEF LaneOK, LaneType
  <2>5. DrainLane(l, s, was)
    BY <1>1, <1>4
  <2> HIDE DEF l, s, was
  <2> QED
    BY <1>2, <1>3, <2>3, <2>4, <2>5, DrainStep
<1>5. CASE taskGeneration[e] # lanes[l].generation
  <2>1. phase' = was /\ UNCHANGED <<lanes, taskGeneration>>
    BY <1>1, <1>5
  <2>2. IInv'
    BY <1>2, <1>5, <2>1
       DEF IInv, TypeOK, QueuedOnce, RunningAccounted, NoIdleBacklog,
           GenerationsReached, SnapshotStarted, DrainedMeansEnded, Phases, Settled
  <2> QED
    BY <1>3, <2>1, <2>2, NoStartLimit
<1> QED
  BY <1>4, <1>5

LEMMA SetConcurrencyStep ==
    ASSUME IInv, NEW l \in Lanes, NEW n \in Requests, SetConcurrency(l, n)
    PROVE  IInv' /\ LimitKept
<1> DEFINE s == WithLimit(lanes[l], n)
<1>1. LaneOK(lanes[l], l, phase, taskGeneration)
  BY EachLane
<1>2. LaneOK(s, l, phase, taskGeneration) /\ s.generation = lanes[l].generation
  BY <1>1, QueueAssumption DEF WithLimit, LaneOK, LaneType
<1>3. /\ phase \in [Entries -> Phases]
      /\ \A f \in waiter.activeAtStart : phase[f] \notin {"idle", "queued"}
  BY DEF IInv, TypeOK, SnapshotStarted
<1>4. DrainLane(l, s, phase) /\ UNCHANGED <<gatewayDraining, waiter>>
  BY DEF SetConcurrency
<1> HIDE DEF s
<1> QED
  BY <1>2, <1>3, <1>4, DrainStep

LEMMA ClearLaneStep ==
    ASSUME IInv, NEW l \in Lanes, ClearLane(l)
    PROVE  IInv' /\ LimitKept
<1>1. /\ lanes \in [Lanes -> LaneType]
      /\ \A k \in Lanes : LaneOK(lanes[k], k, phase, taskGeneration) /\ NoIdle(lanes[k])
  BY EachLane DEF IInv, TypeOK, LaneType, NoIdleBacklog, NoIdle
<1>2. /\ lanes' = [lanes EXCEPT ![l] = Emptied(lanes[l])]
      /\ taskGeneration' = taskGeneration
      /\ \A e \in Entries : phase'[e] =
            IF phase[e] = "queued" /\ LaneOf[e] = l THEN "cleared" ELSE phase[e]
  BY DEF ClearLane
<1>3. /\ Emptied(lanes[l]) \in LaneType
      /\ Emptied(lanes[l]).queue = <<>>
      /\ Emptied(lanes[l]).active = lanes[l].active
      /\ Emptied(lanes[l]).generation = lanes[l].generation
  <2>1. PICK none \in Seq(Entries) : none = <<>>
    BY EmptySeq
  <2>2. Emptied(lanes[l]) = [lanes[l] EXCEPT !.queue = none]
    BY <2>1 DEF Emptied
  <2>3. lanes[l] \in LaneType
    BY <1>1
  <2> QED
    BY <2>1, <2>2, <2>3 DEF LaneType
<1>4. lanes' \in [Lanes -> LaneType]
  BY <1>1, <1>2, <1>3
<1>5. ASSUME NEW k \in Lanes
      PROVE  LaneOK(lanes'[k], k, phase', taskGeneration') /\ NoIdle(lanes'[k])
  <2>1. CASE k = l
    <3>1. lanes'[k] = Emptied(lanes[l])
      BY <1>1, <1>2, <2>1
    <3>2. Members(<<>>) = {} /\ Distinct(<<>>)
      BY DEF Members, Distinct
    <3> QED
      BY <3>1, <3>2, <1>1, <1>2, <1>3, <2>1 DEF LaneOK, NoIdle
  <2>2. CASE k # l
    BY <1>1, <1>2, <2>2 DEF LaneOK
  <2> QED
    BY <2>1, <2>2
<1>6. QueuedOnce' /\ RunningAccounted' /\ NoIdleBacklog' /\ GenerationsReached'
  BY <1>4, <1>5, AllLanesNext
<1>7. TypeOK'
  BY <1>4 DEF ClearLane, IInv, TypeOK, LaneType, Phases, Settled
<1>8. SnapshotStarted'
  BY <1>2 DEF ClearLane, IInv, TypeOK, SnapshotStarted
<1>9. DrainedMeansEnded'
  <2>1. \A k \in Lanes : lanes'[k].generation = lanes[k].generation
    BY <1>1, <1>2, <1>3
  <2> QED
    BY <1>2, <2>1, QueueAssumption DEF ClearLane, IInv, TypeOK, DrainedMeansEnded
<1>10. \A e \in Entries : phase'[e] = "running" => phase[e] = "running"
  BY <1>2
<1> QED
  BY <1>6, <1>7, <1>8, <1>9, <1>10, NoStartLimit DEF IInv
\* A new generation starts with nothing active: no running task belongs to it.
LEMMA NextGenerationOK ==
    ASSUME NEW s, NEW l \in Lanes, NEW ph, NEW tg \in [Entries -> Nat],
           LaneOK(s, l, ph, tg)
    PROVE  /\ LaneOK(NextGeneration(s), l, ph, tg)
           /\ NextGeneration(s).generation = s.generation + 1
           /\ NextGeneration(s).queue = s.queue
<1> DEFINE t == NextGeneration(s)
<1>1. s \in LaneType
  BY DEF LaneOK
<1>2. /\ t \in LaneType
      /\ t.queue = s.queue /\ t.active = {} /\ t.generation = s.generation + 1
  <2>1. PICK none \in SUBSET Entries : none = {}
    OBVIOUS
  <2>2. PICK g \in Nat : g = s.generation + 1
    BY <1>1 DEF LaneType
  <2>3. t = [s EXCEPT !.generation = g, !.active = none]
    BY <2>1, <2>2 DEF NextGeneration
  <2> HIDE DEF t
  <2>4. /\ t \in LaneType
        /\ t.queue = s.queue /\ t.active = none /\ t.generation = g
    BY <1>1, <2>3 DEF LaneType
  <2> QED
    BY <2>1, <2>2, <2>4
<1>3. \A e \in Entries : LaneOf[e] = l /\ ph[e] = "running" => tg[e] < s.generation + 1
  BY <1>1 DEF LaneOK, LaneType
<1>4. \A e \in Entries : tg[e] \in Nat
  OBVIOUS
<1>5. s.generation + 1 \in Nat
  BY <1>2 DEF LaneType
<1> HIDE DEF t
<1>6. t.active = {e \in Entries : LaneOf[e] = l /\ ph[e] = "running"
                                 /\ tg[e] = t.generation}
  BY <1>2, <1>3, <1>4, <1>5
<1>7. \A e \in Entries : LaneOf[e] = l /\ ph[e] = "running" => tg[e] <= t.generation
  BY <1>2, <1>3, <1>4, <1>5
<1>8. LaneOK(t, l, ph, tg)
  BY <1>2, <1>6, <1>7 DEF LaneOK
<1> QED
  BY <1>2, <1>8 DEF t

\* resetAllLanes: what a lane had active is abandoned with its generation, and
\* the preserved entries are pumped in the new one.
LEMMA ResetStep ==
    ASSUME IInv, ResetAllLanes
    PROVE  IInv' /\ LimitKept
<1> DEFINE fresh(l) == NextGeneration(lanes[l])
<1>1. /\ lanes \in [Lanes -> LaneType]
      /\ \A l \in Lanes : LaneOK(lanes[l], l, phase, taskGeneration)
      /\ taskGeneration \in [Entries -> Nat]
  BY EachLane DEF IInv, TypeOK, LaneType
<1>2. ASSUME NEW l \in Lanes
      PROVE  /\ LaneOK(fresh(l), l, phase, taskGeneration)
             /\ fresh(l).generation = lanes[l].generation + 1
  BY <1>1, NextGenerationOK
<1>3. \A l \in Lanes : \A e \in Startable(fresh(l)) :
         e \in Entries /\ LaneOf[e] = l /\ phase[e] = "queued"
  <2> SUFFICES ASSUME NEW l \in Lanes
               PROVE  \A e \in Startable(fresh(l)) :
                         e \in Entries /\ LaneOf[e] = l /\ phase[e] = "queued"
    OBVIOUS
  <2> HIDE DEF fresh
  <2> QED
    BY <1>2, PumpHead
<1>4. /\ lanes' = [l \in Lanes |-> Pump(fresh(l))]
      /\ \A e \in Entries :
           /\ phase'[e] = IF e \in UNION {Startable(fresh(k)) : k \in Lanes}
                          THEN "running" ELSE phase[e]
           /\ taskGeneration'[e] = IF e \in UNION {Startable(fresh(k)) : k \in Lanes}
                          THEN fresh(LaneOf[e]).generation ELSE taskGeneration[e]
      /\ phase' = [e \in Entries |-> phase'[e]]
      /\ taskGeneration' = [e \in Entries |-> taskGeneration'[e]]
      /\ gatewayDraining' = FALSE /\ UNCHANGED waiter
  BY QueueAssumption DEF ResetAllLanes
<1> HIDE DEF fresh
<1>5. \A e \in Entries : e \in UNION {Startable(fresh(k)) : k \in Lanes}
                          <=> e \in Startable(fresh(LaneOf[e]))
  BY <1>3, QueueAssumption
<1>6. \A e \in Entries :
         /\ phase'[e] = IF e \in Startable(fresh(LaneOf[e])) THEN "running" ELSE phase[e]
         /\ taskGeneration'[e] = IF e \in Startable(fresh(LaneOf[e]))
                THEN fresh(LaneOf[e]).generation ELSE taskGeneration[e]
  BY <1>4, <1>5
<1>7. ASSUME NEW l \in Lanes
      PROVE  LaneOK(Pump(fresh(l)), l, phase', taskGeneration') /\ NoIdle(Pump(fresh(l)))
  BY <1>2, <1>6, PumpLane
<1>8. lanes' \in [Lanes -> LaneType]
  BY <1>4, <1>7 DEF LaneOK
<1>9. QueuedOnce' /\ RunningAccounted' /\ NoIdleBacklog' /\ GenerationsReached'
  BY <1>4, <1>7, <1>8, AllLanesNext
<1>10. TypeOK'
  <2>1. phase' \in [Entries -> Phases]
    BY <1>4, <1>6 DEF IInv, TypeOK, Phases
  <2>2. taskGeneration' \in [Entries -> Nat]
    BY <1>2, <1>4, <1>6, QueueAssumption DEF IInv, TypeOK, LaneOK, LaneType
  <2> QED
    BY <1>4, <1>8, <2>1, <2>2 DEF IInv, TypeOK, LaneType
<1>11. SnapshotStarted'
  BY <1>4, <1>6 DEF IInv, TypeOK, SnapshotStarted
<1>12. DrainedMeansEnded'
  <2> SUFFICES ASSUME waiter.status = "drained", NEW e \in waiter.activeAtStart,
                      phase'[e] = "running"
               PROVE  taskGeneration'[e] < lanes'[LaneOf[e]].generation
    BY <1>4 DEF DrainedMeansEnded
  <2>1. e \in Entries /\ LaneOf[e] \in Lanes /\ phase[e] # "queued"
    BY QueueAssumption DEF IInv, TypeOK, SnapshotStarted
  <2>2. phase[e] = "running" /\ taskGeneration'[e] = taskGeneration[e]
    BY <1>3, <1>6, <2>1
  <2>3. taskGeneration[e] <= lanes[LaneOf[e]].generation
    BY <2>1, <2>2 DEF IInv, GenerationsReached
  <2>4. lanes'[LaneOf[e]].generation = lanes[LaneOf[e]].generation + 1
    <3>1. Pump(fresh(LaneOf[e])).generation = fresh(LaneOf[e]).generation
      BY <1>2, <2>1 DEF Pump, LaneOK, LaneType
    <3> QED
      BY <1>2, <1>4, <2>1, <3>1
  <2>5. taskGeneration[e] \in Nat /\ lanes[LaneOf[e]].generation \in Nat
    BY <1>1, <2>1 DEF IInv, TypeOK, LaneType
  <2> QED
    BY <2>2, <2>3, <2>4, <2>5
<1>13. LimitKept
  <2> SUFFICES ASSUME NEW e \in Entries, phase[e] # "running", phase'[e] = "running"
               PROVE  Cardinality(lanes'[LaneOf[e]].active)
                        <= lanes'[LaneOf[e]].maxConcurrent
    BY DEF LimitKept
  <2>1. LaneOf[e] \in Lanes /\ e \in Startable(fresh(LaneOf[e]))
    BY <1>6, QueueAssumption
  <2>2. Cardinality(Pump(fresh(LaneOf[e])).active) <= fresh(LaneOf[e]).maxConcurrent
    BY <1>2, <2>1, PumpLimit
  <2>3. Pump(fresh(LaneOf[e])).maxConcurrent = fresh(LaneOf[e]).maxConcurrent
    BY <1>2, <2>1 DEF Pump, LaneOK, LaneType
  <2> QED
    BY <1>4, <2>1, <2>2, <2>3
<1> QED
  BY <1>9, <1>10, <1>11, <1>12, <1>13 DEF IInv

\* waitForActiveTasks looks at the lanes and changes its own state only.
LEMMA WaiterStep ==
    ASSUME IInv, StartWait \/ PollWait
    PROVE  IInv' /\ LimitKept
<1>1. UNCHANGED <<gatewayDraining, lanes, phase, taskGeneration>>
  BY DEF StartWait, PollWait
<1>2. /\ QueuedOnce' /\ RunningAccounted' /\ NoIdleBacklog' /\ GenerationsReached'
      /\ LimitKept
  BY <1>1 DEF IInv, QueuedOnce, RunningAccounted, NoIdleBacklog, GenerationsReached,
              LimitKept
<1>3. ASSUME NEW l \in Lanes, NEW e \in lanes[l].active
      PROVE  e \in Entries /\ phase[e] = "running"
  BY DEF IInv, RunningAccounted
<1>4. CASE StartWait
  <2>1. TypeOK' /\ SnapshotStarted'
    BY <1>3, <1>4 DEF StartWait, ActiveTasks, IInv, TypeOK, SnapshotStarted
  <2>2. DrainedMeansEnded'
    BY <1>4 DEF StartWait, DrainedMeansEnded
  <2> QED
    BY <1>2, <2>1, <2>2 DEF IInv
<1>5. CASE PollWait
  <2>1. TypeOK' /\ SnapshotStarted'
    BY <1>5 DEF PollWait, IInv, TypeOK, SnapshotStarted
  <2>2. DrainedMeansEnded'
    <3> SUFFICES ASSUME waiter.activeAtStart \cap ActiveTasks = {},
                        NEW e \in waiter.activeAtStart, phase[e] = "running"
                 PROVE  taskGeneration[e] < lanes[LaneOf[e]].generation
      BY <1>1, <1>5 DEF PollWait, DrainedMeansEnded, IInv, TypeOK
    <3>1. e \in Entries /\ LaneOf[e] \in Lanes
      BY QueueAssumption DEF IInv, TypeOK
    <3>2. e \notin lanes[LaneOf[e]].active
      BY <3>1 DEF ActiveTasks
    <3>3. taskGeneration[e] # lanes[LaneOf[e]].generation
      BY <3>1, <3>2 DEF IInv, RunningAccounted
    <3>4. taskGeneration[e] <= lanes[LaneOf[e]].generation
      BY <3>1 DEF IInv, GenerationsReached
    <3> QED
      BY <3>1, <3>3, <3>4 DEF IInv, TypeOK
  <2> QED
    BY <1>2, <2>1, <2>2 DEF IInv
<1> QED
  BY <1>4, <1>5

LEMMA MarkStep ==
    ASSUME IInv, MarkGatewayDraining \/ UNCHANGED vars
    PROVE  IInv' /\ LimitKept
<1>1. /\ UNCHANGED <<lanes, phase, taskGeneration, waiter>>
      /\ gatewayDraining' \in BOOLEAN
  BY DEF MarkGatewayDraining, vars, IInv, TypeOK
<1>2. TypeOK'
  BY <1>1 DEF IInv, TypeOK
<1>3. QueuedOnce' /\ RunningAccounted' /\ NoIdleBacklog'
  BY <1>1 DEF IInv, QueuedOnce, RunningAccounted, NoIdleBacklog
<1>4. GenerationsReached' /\ SnapshotStarted' /\ DrainedMeansEnded' /\ LimitKept
  BY <1>1 DEF IInv, GenerationsReached, SnapshotStarted, DrainedMeansEnded, LimitKept
<1> QED
  BY <1>2, <1>3, <1>4 DEF IInv

LEMMA NextStep ==
    ASSUME IInv, [Next]_vars
    PROVE  IInv' /\ LimitKept
<1>1. ASSUME NEW e \in Entries, Enqueue(e) \/ Complete(e)
      PROVE  IInv' /\ LimitKept
  BY <1>1, EnqueueStep, CompleteStep
<1>2. ASSUME NEW l \in Lanes, ClearLane(l) PROVE IInv' /\ LimitKept
  BY <1>2, ClearLaneStep
<1>3. ASSUME NEW l \in Lanes, NEW n \in Requests, SetConcurrency(l, n)
      PROVE  IInv' /\ LimitKept
  BY <1>3, SetConcurrencyStep
<1> QED
  BY <1>1, <1>2, <1>3, ResetStep, WaiterStep, MarkStep DEF Next

LEMMA InitHolds == Init => IInv
<1> SUFFICES ASSUME Init PROVE IInv
  OBVIOUS
<1>1. TypeOK
  <2>1. NewLane \in LaneType
    BY DEF NewLane, LaneType
  <2> HIDE DEF NewLane
  <2> QED
    BY <2>1 DEF Init, TypeOK, Phases, LaneType
<1>2. QueuedOnce /\ RunningAccounted /\ NoIdleBacklog
  BY DEF Init, QueuedOnce, RunningAccounted, NoIdleBacklog, NewLane
<1> QED
  BY <1>1, <1>2 DEF Init, IInv, GenerationsReached, SnapshotStarted, DrainedMeansEnded

-----------------------------------------------------------------------------
\* Every variable keeps its type: limits stay positive, generations and task
\* ids stay those of the program.
THEOREM TypeCorrect == Spec => []TypeOK
<1>1. IInv /\ [Next]_vars => IInv'
  BY NextStep
<1>2. IInv => TypeOK
  BY DEF IInv
<1> QED
  BY <1>1, <1>2, InitHolds, PTL DEF Spec

\* The inductive invariant, and with it every safety invariant of the module.
THEOREM QueueSafe ==
    Spec => [](QueuedOnce /\ RunningAccounted /\ NoIdleBacklog /\ DrainedMeansEnded)
<1>1. IInv /\ [Next]_vars => IInv'
  BY NextStep
<1>2. IInv => QueuedOnce /\ RunningAccounted /\ NoIdleBacklog /\ DrainedMeansEnded
  BY DEF IInv
<1> QED
  BY <1>1, <1>2, InitHolds, PTL DEF Spec

\* waitForActiveTasks answers "drained" only when every task of the snapshot it
\* took has ended, whatever starts, ends or is reset while it polls.
THEOREM DrainHonest == Spec => []DrainedMeansEnded
<1>1. QueuedOnce /\ RunningAccounted /\ NoIdleBacklog /\ DrainedMeansEnded => DrainedMeansEnded
  OBVIOUS
<1> QED
  BY <1>1, QueueSafe, PTL

\* No step starts a task beyond its lane's limit.
THEOREM LimitRespected == Spec => StartsWithinLimit
<1>1. IInv /\ [Next]_vars => IInv'
  BY NextStep
<1>2. IInv /\ [Next]_vars => [LimitKept]_vars
  BY NextStep
<1>3. Spec => [][LimitKept]_vars
  BY <1>1, <1>2, InitHolds, PTL DEF Spec
<1> QED
  BY <1>3 DEF StartsWithinLimit, LimitKept
-----------------------------------------------------------------------------
\* The step of StartsInOrder, for one pair.
OrderKept(e, f) ==
    Ahead(e, f) => \/ Ahead(e, f)'
                   \/ phase'[e] # "queued"
                   \/ phase'[f] \in {"cleared", "refused"}

Precedes(q, e, f) == \E i, j \in DOMAIN q : i < j /\ q[i] = e /\ q[j] = f

\* A pump takes a prefix, so what stays keeps its order.
LEMMA PumpOrder ==
    ASSUME NEW s, NEW l \in Lanes, NEW ph, NEW tg, LaneOK(s, l, ph, tg),
           NEW e, NEW f, Precedes(s.queue, e, f), e \notin Startable(s)
    PROVE  Precedes(Pump(s).queue, e, f)
<1> DEFINE n == Batch(s)
           q == s.queue
           r == Pump(s).queue
<1>1. PICK i \in DOMAIN q, j \in DOMAIN q : i < j /\ q[i] = e /\ q[j] = f
  BY DEF Precedes
<1>2. s \in LaneType
  BY DEF LaneOK
<1>3. /\ n \in 0..Len(q) /\ Len(r) = Len(q) - n
      /\ \A k \in 1..Len(r) : r[k] = q[n + k]
      /\ r \in Seq(Entries) /\ q \in Seq(Entries)
  BY <1>2, PumpType DEF LaneType
<1>4. Startable(s) = {q[k] : k \in 1..n}
  BY DEF Startable
<1> HIDE DEF n, q, r
<1>5. DOMAIN q = 1..Len(q) /\ DOMAIN r = 1..Len(r) /\ Len(q) \in Nat
  BY <1>3
<1>6. ~(i \in 1..n)
  BY <1>1, <1>4
<1>7. i - n \in DOMAIN r /\ j - n \in DOMAIN r /\ i - n < j - n
  BY <1>1, <1>3, <1>5, <1>6
<1>8. n + (i - n) = i /\ n + (j - n) = j
  BY <1>1, <1>3, <1>5
<1>9. r[i - n] = e /\ r[j - n] = f
  BY <1>1, <1>3, <1>5, <1>7, <1>8
<1> QED
  BY <1>7, <1>9 DEF Precedes, r

LEMMA DrainOrder ==
    ASSUME IInv, NEW l \in Lanes, NEW s, NEW was,
           LaneOK(s, l, was, taskGeneration), DrainLane(l, s, was),
           \A x \in Entries : LaneOf[x] # l => was[x] = phase[x],
           NEW e \in Entries, NEW f \in Entries, Ahead(e, f),
           LaneOf[e] = l => was[f] = "idle" \/ Precedes(s.queue, e, f)
    PROVE  Ahead(e, f)' \/ phase'[e] # "queued"
<1> SUFFICES ASSUME phase'[e] = "queued" PROVE Ahead(e, f)'
  OBVIOUS
<1>1. \A x \in Startable(s) : x \in Entries /\ LaneOf[x] = l /\ was[x] = "queued"
  BY PumpHead
<1>2. \A x \in Entries : phase'[x] = IF x \in Startable(s) THEN "running" ELSE was[x]
  BY DEF DrainLane
<1>3. lanes' = [lanes EXCEPT ![l] = Pump(s)] /\ lanes \in [Lanes -> LaneType]
  BY DEF DrainLane, IInv, TypeOK, LaneType
<1>4. CASE LaneOf[e] # l
  <2>1. lanes'[LaneOf[e]] = lanes[LaneOf[e]]
    BY <1>3, <1>4, QueueAssumption
  <2>2. phase'[f] = phase[f] /\ LaneOf[f] = LaneOf[e]
    BY <1>1, <1>2, <1>4 DEF Ahead
  <2> QED
    BY <2>1, <2>2 DEF Ahead
<1>5. CASE LaneOf[e] = l
  <2>1. CASE was[f] = "idle"
    BY <1>1, <1>2, <2>1 DEF Ahead
  <2>2. CASE Precedes(s.queue, e, f)
    <3>1. e \notin Startable(s)
      BY <1>2
    <3>2. Precedes(Pump(s).queue, e, f)
      BY <2>2, <3>1, PumpOrder
    <3>3. lanes'[LaneOf[e]] = Pump(s)
      BY <1>3, <1>5
    <3> QED
      BY <3>2, <3>3 DEF Ahead, Precedes
  <2> QED
    BY <1>5, <2>1, <2>2
<1> QED
  BY <1>4, <1>5

LEMMA OrderStep ==
    ASSUME IInv, [Next]_vars, NEW e \in Entries, NEW f \in Entries
    PROVE  OrderKept(e, f)
<1> SUFFICES ASSUME Ahead(e, f)
             PROVE  \/ Ahead(e, f)'
                    \/ phase'[e] # "queued"
                    \/ phase'[f] \in {"cleared", "refused"}
  BY DEF OrderKept
<1> DEFINE k == LaneOf[e]
<1>1. /\ k \in Lanes /\ LaneOf[f] = k /\ phase[e] = "queued"
      /\ phase[f] = "idle" \/ Precedes(lanes[k].queue, e, f)
      /\ LaneOK(lanes[k], k, phase, taskGeneration)
      /\ phase \in [Entries -> Phases]
  BY EachLane, QueueAssumption DEF Ahead, Precedes, IInv, TypeOK
<1>2. phase[f] \in {"idle", "queued"}
  BY <1>1 DEF Precedes, LaneOK, Members
<1>3. ASSUME NEW x \in Entries, Enqueue(x)
      PROVE  Ahead(e, f)' \/ phase'[e] # "queued" \/ phase'[f] = "refused"
  <2>1. phase[x] = "idle" /\ LaneOf[x] \in Lanes
    BY <1>3, QueueAssumption DEF Enqueue
  <2>2. CASE phase' = [phase EXCEPT ![x] = "refused"] /\ UNCHANGED lanes
    BY <1>1, <2>1, <2>2 DEF Ahead
  <2> DEFINE l == LaneOf[x]
             s == WithEntry(lanes[l], x)
             was == [phase EXCEPT ![x] = "queued"]
  <2>3. CASE DrainLane(l, s, was)
    <3>1. LaneOK(s, l, was, taskGeneration)
      BY <1>1, <2>1, EachLane, AppendLane
    <3>2. \A y \in Entries : LaneOf[y] # l => was[y] = phase[y]
      BY <1>1
    <3>3. ASSUME k = l PROVE was[f] = "idle" \/ Precedes(s.queue, e, f)
      <4> DEFINE q == lanes[k].queue
                 r == s.queue
      <4>1. q \in Seq(Entries) /\ r = Append(q, x)
        BY <1>1, <3>3 DEF WithEntry, LaneOK, LaneType
      <4>2. /\ DOMAIN q = 1..Len(q) /\ DOMAIN r = 1..Len(q) + 1 /\ Len(q) \in Nat
            /\ \A i \in 1..Len(q) : r[i] = q[i]
            /\ r[Len(q) + 1] = x
        BY <4>1
      <4>3. e \in Members(q)
        BY <1>1 DEF LaneOK
      <4> HIDE DEF q, r
      <4>4. CASE f = x
        <5>1. PICK i \in DOMAIN q : q[i] = e
          BY <4>3 DEF Members
        <5>2. /\ i \in DOMAIN r /\ Len(q) + 1 \in DOMAIN r /\ i < Len(q) + 1
              /\ r[i] = e /\ r[Len(q) + 1] = f
          BY <4>2, <4>4, <5>1
        <5> QED
          BY <5>2 DEF Precedes, r
      <4>5. CASE f # x /\ phase[f] = "idle"
        BY <1>1, <4>5
      <4>6. CASE Precedes(q, e, f)
        BY <4>2, <4>6 DEF Precedes, r
      <4> QED
        BY <1>1, <4>4, <4>5, <4>6 DEF q
    <3> HIDE DEF l, s, was, k
    <3>4. k = LaneOf[e] /\ l \in Lanes
      BY <2>1 DEF k, l
    <3> QED
      BY <2>3, <3>1, <3>2, <3>3, <3>4, DrainOrder
  <2> QED
    BY <1>3, <2>2, <2>3 DEF Enqueue
<1>4. ASSUME NEW x \in Entries, Complete(x)
      PROVE  Ahead(e, f)' \/ phase'[e] # "queued"
  <2> DEFINE l == LaneOf[x]
             s == WithoutTask(lanes[l], x, taskGeneration[x])
  <2>1. PICK outcome \in {"resolved", "rejected"} :
          IF taskGeneration[x] = lanes[l].generation
          THEN DrainLane(l, s, [phase EXCEPT ![x] = outcome])
          ELSE phase' = [phase EXCEPT ![x] = outcome] /\ UNCHANGED <<lanes, taskGeneration>>
    BY <1>4 DEF Complete
  <2> DEFINE was == [phase EXCEPT ![x] = outcome]
  <2>2. phase[x] = "running" /\ l \in Lanes /\ x # e /\ x # f
    BY <1>1, <1>2, <1>4, QueueAssumption DEF Complete
  <2>3. CASE taskGeneration[x] = lanes[l].generation
    <3>1. LaneOK(lanes[l], l, phase, taskGeneration)
      BY <2>2, EachLane
    <3>2. s = [lanes[l] EXCEPT !.active = @ \ {x}]
      BY <2>3 DEF WithoutTask
    <3>3. LaneOK(s, l, was, taskGeneration) /\ s.queue = lanes[l].queue
      BY <1>1, <2>2, <3>1, <3>2 DEF LaneOK, LaneType
    <3>4. \A y \in Entries : LaneOf[y] # l => was[y] = phase[y]
      BY <1>1
    <3>5. k = l => was[f] = "idle" \/ Precedes(s.queue, e, f)
      BY <1>1, <2>2, <3>3
    <3>6. DrainLane(l, s, was)
      BY <2>1, <2>3
    <3> HIDE DEF l, s, was, k
    <3>7. k = LaneOf[e] /\ l \in Lanes
      BY <2>2 DEF k, l
    <3> QED
      BY <3>3, <3>4, <3>5, <3>6, <3>7, DrainOrder
  <2>4. CASE taskGeneration[x] # lanes[l].generation
    BY <1>1, <2>1, <2>2, <2>4 DEF Ahead
  <2> QED
    BY <2>3, <2>4
<1>5. ASSUME NEW l \in Lanes, NEW n \in Requests, SetConcurrency(l, n)
      PROVE  Ahead(e, f)' \/ phase'[e] # "queued"
  <2> DEFINE s == WithLimit(lanes[l], n)
  <2>1. LaneOK(lanes[l], l, phase, taskGeneration)
    BY EachLane
  <2>2. LaneOK(s, l, phase, taskGeneration) /\ s.queue = lanes[l].queue
    BY <2>1, QueueAssumption DEF WithLimit, LaneOK, LaneType
  <2>3. DrainLane(l, s, phase)
    BY <1>5 DEF SetConcurrency
  <2>4. LaneOf[e] = l => phase[f] = "idle" \/ Precedes(s.queue, e, f)
    BY <1>1, <2>2
  <2> HIDE DEF s
  <2> QED
    BY <2>2, <2>3, <2>4, DrainOrder
<1>6. ASSUME NEW l \in Lanes, ClearLane(l)
      PROVE  Ahead(e, f)' \/ phase'[e] # "queued"
  <2>1. CASE l = k
    BY <1>1, <1>6, <2>1 DEF ClearLane
  <2>2. CASE l # k
    <3>1. lanes'[k] = lanes[k] /\ phase'[f] = phase[f]
      BY <1>1, <1>6, <2>2 DEF ClearLane, IInv, TypeOK
    <3> QED
      BY <1>1, <3>1 DEF Ahead
  <2> QED
    BY <2>1, <2>2
<1>7. ASSUME ResetAllLanes
      PROVE  Ahead(e, f)' \/ phase'[e] # "queued"
  <2> DEFINE fresh(l) == NextGeneration(lanes[l])
             all == UNION {Startable(fresh(l)) : l \in Lanes}
  <2>1. /\ lanes'[k] = Pump(fresh(k))
        /\ \A x \in Entries : phase'[x] = IF x \in all THEN "running" ELSE phase[x]
    BY <1>1, <1>7 DEF ResetAllLanes
  <2>2. ASSUME NEW l \in Lanes
        PROVE  /\ LaneOK(fresh(l), l, phase, taskGeneration)
               /\ fresh(l).queue = lanes[l].queue
    BY EachLane, NextGenerationOK DEF IInv, TypeOK
  <2> HIDE DEF fresh
  <2>3. ASSUME NEW l \in Lanes, f \in Startable(fresh(l))
        PROVE  phase[f] = "queued"
    BY <2>2, <2>3, PumpHead
  <2> SUFFICES ASSUME phase'[e] = "queued" PROVE Ahead(e, f)'
    OBVIOUS
  <2>4. e \notin Startable(fresh(k))
    BY <1>1, <2>1
  <2>5. CASE phase[f] = "idle"
    BY <1>1, <2>1, <2>3, <2>5 DEF Ahead
  <2>6. CASE Precedes(lanes[k].queue, e, f)
    <3>1. Precedes(Pump(fresh(k)).queue, e, f)
      BY <1>1, <2>2, <2>4, <2>6, PumpOrder
    <3> QED
      BY <1>1, <2>1, <3>1 DEF Ahead, Precedes
  <2> QED
    BY <1>1, <2>5, <2>6
<1>8. ASSUME MarkGatewayDraining \/ StartWait \/ PollWait \/ UNCHANGED vars
      PROVE  Ahead(e, f)'
  BY <1>8 DEF MarkGatewayDraining, StartWait, PollWait, vars, Ahead
<1> QED
  BY <1>3, <1>4, <1>5, <1>6, <1>7, <1>8 DEF Next

\* Lanes are first come, first served.
THEOREM FifoRespected == Spec => StartsInOrder
<1> DEFINE Kept == \A e, f \in Entries : OrderKept(e, f)
<1>1. IInv /\ [Next]_vars => IInv'
  BY NextStep
<1>2. IInv /\ [Next]_vars => [Kept]_vars
  BY OrderStep
<1>3. Spec => [][Kept]_vars
  BY <1>1, <1>2, InitHolds, PTL DEF Spec
<1> QED
  BY <1>3 DEF StartsInOrder, OrderKept
=============================================================================
