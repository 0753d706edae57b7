----------------------- MODULE GatewayLifecycleProofs -----------------------
(***************************************************************************)
(* Proofs about GatewayLifecycle for any sessions, runs, limit of the main *)
(* lane and number of restarts.                                            *)
(*                                                                         *)
(* The lanes are tied to the runs' turns: LanesOK says what each queue and *)
(* each session lane's slot holds.  Its last part, that engaged runs of a  *)
(* session have different generations, remembers the runs that a reset     *)
(* abandoned; without it two of them could not be told apart.  DrainTells  *)
(* says what a restart's wait knows before it has answered.                *)
(*                                                                         *)
(* Both the composition and the restart scheduler only drive the run loop: *)
(* each implements it, and so keeps what is proved of the loop alone.      *)
(***************************************************************************)
EXTENDS GatewayLifecycle, RestartScheduler, FiniteSetTheorems, SequenceTheorems, TLAPS

LaneType == [queue : Seq(Runs), active : SUBSET Runs,
             maxConcurrent : Nat \ {0}, generation : Nat]

Turns == {"new", "refused", "outer", "inner", "body", "over", "done"}

\* The turns of a run whose session lane's task has started and not settled.
Engaged == {"inner", "body", "over"}

Distinct(q) == \A i, j \in DOMAIN q : q[i] = q[j] => i = j

Members(q) == {q[i] : i \in DOMAIN q}

MainOK(m, tn) ==
    /\ m \in LaneType
    /\ Distinct(m.queue)
    /\ Members(m.queue) = {r \in Runs : tn[r] = "inner"}

SessionOK(s, l, tn, og) ==
    /\ l \in LaneType /\ l.maxConcurrent = 1
    /\ Distinct(l.queue)
    /\ Members(l.queue) = {r \in Runs : SessionOf[r] = s /\ tn[r] = "outer"}
    /\ l.active = {r \in Runs : SessionOf[r] = s /\ tn[r] \in Engaged /\ og[r] = l.generation}
    /\ \A r \in Runs : SessionOf[r] = s /\ tn[r] \in Engaged => og[r] <= l.generation
    /\ \A r, q \in Runs :
         /\ SessionOf[r] = s /\ SessionOf[q] = s
         /\ tn[r] \in Engaged /\ tn[q] \in Engaged /\ og[r] = og[q]
         => r = q

LanesOK(ls, tn, og) ==
    /\ MainOK(ls[Main], tn)
    /\ \A s \in Sessions : SessionOK(s, ls[s], tn, og)

\* Handles are registered for their own session.
RegistryOfSession == \A s \in Sessions : registry[s] # NoRun => SessionOf[registry[s]] = s

Shutdowns == [action : {"none", "stop", "restart"},
              stage : {"none", "draining", "closing", "releasing", "released",
                       "unlocked", "locking", "ready"}]

\* From a restart's signal to its end the gateway refuses new tasks.
Marked ==
    /\ shutdown \in Shutdowns /\ gatewayDraining \in BOOLEAN
    /\ shutdown.stage = "draining" => shutdown.action = "restart"
    /\ shutdown.action = "restart" => gatewayDraining

\* A restart waits, or closes the server.
Window == shutdown.action = "restart" /\ shutdown.stage \in {"draining", "closing"}

\* A run of this lifecycle that may come to work is in the snapshot of the
\* restart's wait, which then has not drained.
DrainTells ==
    Window =>
        \A r \in Runs :
            turn[r] \in {"inner", "body"} /\ outerGen[r] = lanes[SessionOf[r]].generation =>
                <<SessionOf[r], r>> \in drain.snapshot /\ drain.tasks # "drained"

Types ==
    /\ lanes \in [Lanes -> LaneType]
    /\ turn \in [Runs -> Turns]
    /\ outerGen \in [Runs -> Nat] /\ innerGen \in [Runs -> Nat]

Registered ==
    /\ attempt \subseteq Runs
    /\ registry \in [Sessions -> Runs \cup {NoRun}]
    /\ waiting \subseteq Sessions
    /\ RegistryOfSession /\ RegistryLive /\ NoForgottenWaiter

DrainType == drain \in [snapshot : SUBSET (Lanes \X Runs),
                        tasks : {"waiting", "drained", "timedOut"},
                        runs : {"waiting", "drained", "timedOut"}]

IInv ==
    /\ Types /\ LanesOK(lanes, turn, outerGen)
    /\ Registered
    /\ DrainType /\ Marked /\ DrainTells

USE LifecycleAssumption DEF LifecycleAssumption

-----------------------------------------------------------------------------
(* Lanes. *)

\* The pump takes a prefix of the queue.
LEMMA PumpQueue ==
    ASSUME NEW l \in LaneType, Distinct(l.queue)
    PROVE  /\ Cardinality(l.active) \in Nat
           /\ Batch(l) \in 0..Len(l.queue)
           /\ Startable(l) \subseteq Members(l.queue)
           /\ Startable(l) \subseteq Runs
           /\ Pump(l) \in LaneType
           /\ Distinct(Pump(l).queue)
           /\ Members(Pump(l).queue) = Members(l.queue) \ Startable(l)
           /\ Pump(l).active = l.active \cup Startable(l)
           /\ Pump(l).generation = l.generation
           /\ Pump(l).maxConcurrent = l.maxConcurrent
<1> DEFINE n == Batch(l)
           q == l.queue
           p == SubSeq(q, n + 1, Len(q))
<1>1. Cardinality(l.active) \in Nat
  BY FS_Subset, FS_CardinalityType DEF LaneType
<1>2. q \in Seq(Runs) /\ Len(q) \in Nat /\ l.maxConcurrent \in Nat
  BY DEF LaneType
<1>0. DOMAIN q = 1..Len(q)
  BY <1>2
<1>3. n \in 0..Len(q)
  BY <1>1, <1>2 DEF Batch, Room
<1>4. Startable(l) \subseteq Members(q) /\ Startable(l) \subseteq Runs
  BY <1>2, <1>3 DEF Startable, Members
<1>5. /\ p \in Seq(Runs) /\ DOMAIN p = 1..Len(p) /\ Len(p) \in Nat
      /\ Len(p) = Len(q) - n
      /\ \A i \in 1..Len(p) : p[i] = q[n + i]
  <2>1. \A i \in n + 1 .. Len(q) : q[i] \in Runs
    BY <1>2, <1>3
  <2>2. n + 1 \in Int /\ Len(q) \in Int
    BY <1>2, <1>3
  <2>3. /\ p \in Seq(Runs)
        /\ Len(p) = IF n + 1 <= Len(q) THEN Len(q) - (n + 1) + 1 ELSE 0
        /\ \A i \in 1 .. Len(q) - (n + 1) + 1 : p[i] = q[(n + 1) + i - 1]
    BY <2>1, <2>2, SubSeqProperties
  <2> HIDE DEF n, q, p
  <2>4. Len(p) \in Nat /\ DOMAIN p = 1..Len(p)
    BY <2>3
  <2>5. Len(p) = Len(q) - n /\ Len(q) - (n + 1) + 1 = Len(q) - n
    BY <1>2, <1>3, <2>3
  <2>6. ASSUME NEW i \in 1..Len(p) PROVE p[i] = q[n + i]
    <3>1. (n + 1) + i - 1 = n + i
      BY <1>3, <2>4
    <3> QED
      BY <2>3, <2>5, <3>1
  <2> QED
    BY <2>3, <2>4, <2>5, <2>6
<1>6. /\ Pump(l) \in LaneType /\ Pump(l).queue = p
      /\ Pump(l).active = l.active \cup Startable(l)
      /\ Pump(l).generation = l.generation
      /\ Pump(l).maxConcurrent = l.maxConcurrent
  BY <1>4, <1>5 DEF Pump, LaneType
<1>7. Startable(l) = {q[i] : i \in 1..n}
  BY DEF Startable
<1> HIDE DEF n, q, p
<1>8. Distinct(q)
  BY DEF q
<1>9. Distinct(p)
  <2> SUFFICES ASSUME NEW i \in DOMAIN p, NEW j \in DOMAIN p, p[i] = p[j]
               PROVE  i = j
    BY DEF Distinct
  <2>1. q[n + i] = q[n + j] /\ n + i \in DOMAIN q /\ n + j \in DOMAIN q
    BY <1>0, <1>2, <1>3, <1>5
  <2>2. n + i = n + j
    BY <2>1, <1>8 DEF Distinct
  <2> QED
    BY <2>2, <1>3, <1>5
<1>10. Members(p) = Members(q) \ Startable(l)
  <2>1. ASSUME NEW i \in DOMAIN p
        PROVE  p[i] \in Members(q) \ Startable(l)
    <3>1. p[i] = q[n + i] /\ n + i \in DOMAIN q /\ i >= 1 /\ i \in Nat
      BY <1>0, <1>2, <1>3, <1>5
    <3>2. ASSUME NEW j \in 1..n, q[j] = p[i] PROVE FALSE
      <4>1. j \in DOMAIN q /\ q[j] = q[n + i]
        BY <3>1, <3>2, <1>0, <1>2, <1>3
      <4>2. j = n + i
        BY <4>1, <3>1, <1>8 DEF Distinct
      <4> QED
        BY <4>2, <3>1, <1>3
    <3> QED
      BY <3>1, <3>2, <1>7 DEF Members
  <2>2. ASSUME NEW k \in DOMAIN q, q[k] \notin Startable(l)
        PROVE  q[k] \in Members(p)
    <3>1. k \in 1..Len(q) /\ ~(k \in 1..n)
      BY <2>2, <1>0, <1>7
    <3>2. k - n \in DOMAIN p /\ p[k - n] = q[n + (k - n)] /\ n + (k - n) = k
      BY <3>1, <1>2, <1>3, <1>5
    <3> QED
      BY <3>2 DEF Members
  <2> QED
    BY <2>1, <2>2 DEF Members
<1> QED
  BY <1>1, <1>3, <1>4, <1>6, <1>9, <1>10 DEF n, q

\* A lane with one slot starts a call only when it is empty, and one only.
LEMMA OneSlot ==
    ASSUME NEW l \in LaneType, l.maxConcurrent = 1, Distinct(l.queue),
           NEW r \in Startable(l)
    PROVE  l.active = {} /\ \A q \in Startable(l) : q = r
<1> DEFINE n == Batch(l)
<1>1. Cardinality(l.active) \in Nat /\ n \in 0..Len(l.queue) /\ Len(l.queue) \in Nat
  BY PumpQueue DEF LaneType
<1>2. Startable(l) = {l.queue[i] : i \in 1..n}
  BY DEF Startable
<1>3. n <= Room(l) /\ Room(l) = IF Cardinality(l.active) < 1 THEN 1 - Cardinality(l.active) ELSE 0
  BY <1>1 DEF Batch, Room
<1> HIDE DEF n
<1>4. n >= 1
  BY <1>1, <1>2
<1>5. Cardinality(l.active) = 0 /\ n = 1
  BY <1>1, <1>3, <1>4
<1>6. l.active = {}
  <2>1. IsFiniteSet(l.active)
    BY FS_Subset DEF LaneType
  <2> QED
    BY <1>5, <2>1, FS_EmptySet
<1>7. \A i \in 1..1 : i = 1
  OBVIOUS
<1> QED
  BY <1>2, <1>5, <1>6, <1>7

\* Appending calls that are not yet queued, in any order.
LEMMA Appended ==
    ASSUME NEW q \in Seq(Runs), NEW o \in Seq(Runs), Distinct(q), Distinct(o),
           Members(q) \cap Members(o) = {}
    PROVE  /\ q \o o \in Seq(Runs)
           /\ Distinct(q \o o)
           /\ Members(q \o o) = Members(q) \cup Members(o)
<1> DEFINE c == q \o o
<1>1. /\ c \in Seq(Runs) /\ Len(c) = Len(q) + Len(o)
      /\ DOMAIN c = 1..Len(q) + Len(o)
      /\ \A i \in 1..Len(q) + Len(o) : c[i] = IF i <= Len(q) THEN q[i] ELSE o[i - Len(q)]
  BY ConcatProperties
<1>2. DOMAIN q = 1..Len(q) /\ DOMAIN o = 1..Len(o) /\ Len(q) \in Nat /\ Len(o) \in Nat
  OBVIOUS
<1> HIDE DEF c
<1>3. ASSUME NEW i \in DOMAIN c
      PROVE  \/ i \in DOMAIN q /\ c[i] = q[i]
             \/ i - Len(q) \in DOMAIN o /\ c[i] = o[i - Len(q)]
  BY <1>1, <1>2
<1>4. Distinct(c)
  <2> SUFFICES ASSUME NEW i \in DOMAIN c, NEW j \in DOMAIN c, c[i] = c[j]
               PROVE  i = j
    BY DEF Distinct
  <2>1. i \in Int /\ j \in Int
    BY <1>1, <1>2
  <2>2. CASE i \in DOMAIN q /\ c[i] = q[i] /\ j \in DOMAIN q /\ c[j] = q[j]
    BY <2>2 DEF Distinct
  <2>3. CASE /\ i - Len(q) \in DOMAIN o /\ c[i] = o[i - Len(q)]
             /\ j - Len(q) \in DOMAIN o /\ c[j] = o[j - Len(q)]
    <3>1. i - Len(q) = j - Len(q)
      BY <2>3 DEF Distinct
    <3> QED
      BY <3>1, <2>1, <1>2
  <2>4. CASE \/ /\ i \in DOMAIN q /\ c[i] = q[i]
                /\ j - Len(q) \in DOMAIN o /\ c[j] = o[j - Len(q)]
             \/ /\ j \in DOMAIN q /\ c[j] = q[j]
                /\ i - Len(q) \in DOMAIN o /\ c[i] = o[i - Len(q)]
    BY <2>4 DEF Members
  <2> QED
    BY <1>3, <2>2, <2>3, <2>4
<1>5. Members(c) \subseteq Members(q) \cup Members(o)
  BY <1>3 DEF Members
<1>6. Members(q) \subseteq Members(c)
  <2> SUFFICES ASSUME NEW i \in DOMAIN q PROVE q[i] \in Members(c)
    BY DEF Members
  <2>1. i \in DOMAIN c /\ c[i] = q[i]
    BY <1>1, <1>2
  <2> QED
    BY <2>1 DEF Members
<1>7. Members(o) \subseteq Members(c)
  <2> SUFFICES ASSUME NEW i \in DOMAIN o PROVE o[i] \in Members(c)
    BY DEF Members
  <2>1. Len(q) + i \in DOMAIN c /\ c[Len(q) + i] = o[Len(q) + i - Len(q)] /\ Len(q) + i - Len(q) = i
    BY <1>1, <1>2
  <2> QED
    BY <2>1 DEF Members
<1> QED
  BY <1>1, <1>4, <1>5, <1>6, <1>7 DEF c

\* An arrangement of a set of runs holds each of them, and each once.
LEMMA Arranged ==
    ASSUME NEW S \in SUBSET Runs, NEW o \in Orders(S)
    PROVE  o \in Seq(Runs) /\ Distinct(o) /\ Members(o) = S
<1> DEFINE n == Cardinality(S)
<1>1. IsFiniteSet(S) /\ n \in Nat
  BY FS_Subset, FS_CardinalityType
<1>2. /\ o \in [1..n -> S] /\ DOMAIN o = 1..n
      /\ \A i, j \in DOMAIN o : o[i] = o[j] => i = j
  BY DEF Orders
<1>3. IsFiniteSet(1..n) /\ Cardinality(1..n) = n
  BY <1>1, FS_Interval
<1> HIDE DEF n
<1>4. o \in Injection(1..n, S)
  BY <1>2 DEF Injection, IsInjective
<1>5. Cardinality(1..n) = Cardinality(S)
  BY <1>3 DEF n
<1>6. o \in Surjection(1..n, S)
  BY <1>1, <1>4, <1>5, FS_Injection
<1>7. Members(o) = S
  BY <1>2, <1>6 DEF Surjection, Members
<1>8. o \in Seq(Runs)
  BY <1>1, <1>2
<1> QED
  BY <1>2, <1>7, <1>8 DEF Distinct

\* A session lane that is pumped: what it starts becomes engaged, in the
\* lane's generation.
LEMMA PumpSession ==
    ASSUME NEW s \in Sessions, NEW l, NEW tn, NEW og, SessionOK(s, l, tn, og),
           NEW tn2, NEW og2 \in [Runs -> Nat],
           \A r \in Runs : SessionOf[r] = s =>
              /\ tn2[r] \in Engaged <=> tn[r] \in Engaged \/ r \in Startable(l)
              /\ tn2[r] = "outer" <=> tn[r] = "outer" /\ r \notin Startable(l)
              /\ og2[r] = IF r \in Startable(l) THEN l.generation ELSE og[r]
    PROVE  SessionOK(s, Pump(l), tn2, og2)
<1>1. l \in LaneType /\ l.maxConcurrent = 1 /\ Distinct(l.queue) /\ l.generation \in Nat
  BY DEF SessionOK, LaneType
<1>2. /\ Startable(l) \subseteq Members(l.queue)
      /\ Pump(l) \in LaneType
      /\ Distinct(Pump(l).queue)
      /\ Members(Pump(l).queue) = Members(l.queue) \ Startable(l)
      /\ Pump(l).active = l.active \cup Startable(l)
      /\ Pump(l).generation = l.generation
      /\ Pump(l).maxConcurrent = l.maxConcurrent
  BY <1>1, PumpQueue
<1>3. \A r \in Startable(l) :
        r \in Runs /\ SessionOf[r] = s /\ tn[r] = "outer" /\ tn[r] \notin Engaged
  BY <1>2 DEF SessionOK, Engaged
<1>4. Members(Pump(l).queue) = {r \in Runs : SessionOf[r] = s /\ tn2[r] = "outer"}
  BY <1>2 DEF SessionOK
<1>5. Pump(l).active =
        {r \in Runs : SessionOf[r] = s /\ tn2[r] \in Engaged /\ og2[r] = l.generation}
  BY <1>2, <1>3 DEF SessionOK
<1>6. \A r \in Runs : SessionOf[r] = s /\ tn2[r] \in Engaged => og2[r] <= l.generation
  BY <1>1 DEF SessionOK
<1>7. ASSUME NEW r \in Runs, NEW q \in Runs, SessionOf[r] = s, SessionOf[q] = s,
             tn2[r] \in Engaged, tn2[q] \in Engaged, og2[r] = og2[q]
      PROVE  r = q
  <2>1. CASE r \in Startable(l) /\ q \in Startable(l)
    BY <2>1, <1>1, OneSlot
  <2>2. CASE r \notin Startable(l) /\ q \notin Startable(l)
    BY <2>2, <1>7 DEF SessionOK
  <2>3. CASE r \in Startable(l) /\ q \notin Startable(l)
    <3>1. q \in l.active
      BY <2>3, <1>7 DEF SessionOK
    <3> QED
      BY <3>1, <2>3, <1>1, OneSlot
  <2>4. CASE r \notin Startable(l) /\ q \in Startable(l)
    <3>1. r \in l.active
      BY <2>4, <1>7 DEF SessionOK
    <3> QED
      BY <3>1, <2>4, <1>1, OneSlot
  <2> QED
    BY <2>1, <2>2, <2>3, <2>4
<1> QED
  BY <1>1, <1>2, <1>4, <1>5, <1>6, <1>7 DEF SessionOK

\* A session lane that is not pumped, and of whose runs none changes its part.
LEMMA SameSession ==
    ASSUME NEW s \in Sessions, NEW l, NEW tn, NEW og, SessionOK(s, l, tn, og),
           NEW tn2, NEW og2,
           \A r \in Runs : SessionOf[r] = s =>
              /\ tn2[r] \in Engaged <=> tn[r] \in Engaged
              /\ tn2[r] = "outer" <=> tn[r] = "outer"
              /\ og2[r] = og[r]
    PROVE  SessionOK(s, l, tn2, og2)
<1>1. {r \in Runs : SessionOf[r] = s /\ tn2[r] = "outer"} =
      {r \in Runs : SessionOf[r] = s /\ tn[r] = "outer"}
  OBVIOUS
<1>2. {r \in Runs : SessionOf[r] = s /\ tn2[r] \in Engaged /\ og2[r] = l.generation} =
      {r \in Runs : SessionOf[r] = s /\ tn[r] \in Engaged /\ og[r] = l.generation}
  OBVIOUS
<1> QED
  BY <1>1, <1>2 DEF SessionOK

-----------------------------------------------------------------------------
(* Launch. *)

\* The calls that the pumped session lanes start.
Starting(pumped, pre) == UNION {Startable(pre[s]) : s \in pumped}

LEMMA StartingWaited ==
    ASSUME NEW pumped \in SUBSET Sessions, NEW pre, NEW tn, NEW og, LanesOK(pre, tn, og)
    PROVE  /\ Starting(pumped, pre) \subseteq Runs
           /\ \A r \in Starting(pumped, pre) :
                SessionOf[r] \in pumped /\ tn[r] = "outer" /\ r \in Startable(pre[SessionOf[r]])
           /\ \A r \in Runs : \A s \in pumped :
                SessionOf[r] = s => (r \in Starting(pumped, pre) <=> r \in Startable(pre[s]))
<1>1. ASSUME NEW s \in pumped, NEW r \in Startable(pre[s])
      PROVE  r \in Runs /\ SessionOf[r] = s /\ tn[r] = "outer"
  <2>1. SessionOK(s, pre[s], tn, og)
    BY DEF LanesOK
  <2>2. Startable(pre[s]) \subseteq Members(pre[s].queue)
    BY <2>1, PumpQueue DEF SessionOK
  <2> QED
    BY <2>1, <2>2 DEF SessionOK
<1>2. ASSUME NEW r \in Starting(pumped, pre)
      PROVE  /\ r \in Runs /\ tn[r] = "outer"
             /\ SessionOf[r] \in pumped /\ r \in Startable(pre[SessionOf[r]])
  <2>1. PICK s \in pumped : r \in Startable(pre[s])
    BY DEF Starting
  <2> QED
    BY <1>1, <2>1
<1>3. ASSUME NEW s \in pumped, NEW r \in Startable(pre[s]) PROVE r \in Starting(pumped, pre)
  BY DEF Starting
<1> QED
  BY <1>2, <1>3

\* The main lane's queue, with the calls of the runs that start appended.
LEMMA MainQueued ==
    ASSUME NEW m, NEW tn, MainOK(m, tn), NEW S \in SUBSET Runs,
           \A r \in S : tn[r] # "inner", NEW order \in Orders(S)
    PROVE  /\ m.queue \o order \in Seq(Runs)
           /\ Distinct(m.queue \o order)
           /\ Members(m.queue \o order) = {r \in Runs : tn[r] = "inner"} \cup S
<1>1. m \in LaneType /\ m.queue \in Seq(Runs) /\ Distinct(m.queue)
      /\ Members(m.queue) = {r \in Runs : tn[r] = "inner"}
  BY DEF MainOK, LaneType
<1>2. order \in Seq(Runs) /\ Distinct(order) /\ Members(order) = S
  BY Arranged
<1>3. Members(m.queue) \cap Members(order) = {}
  BY <1>1, <1>2
<1>4. /\ m.queue \o order \in Seq(Runs)
      /\ Distinct(m.queue \o order)
      /\ Members(m.queue \o order) = Members(m.queue) \cup Members(order)
  BY <1>1, <1>2, <1>3, Appended
<1> QED
  BY <1>1, <1>2, <1>4

\* Whatever a handler left, the pumps it ends with tie the lanes to the turns
\* again; and while the gateway drains nothing new comes to work.
LEMMA LaunchKeeps ==
    ASSUME NEW pumped \in SUBSET Sessions, NEW pre \in [Lanes -> LaneType],
           NEW was \in [Runs -> Turns], NEW draining \in BOOLEAN,
           outerGen \in [Runs -> Nat], innerGen \in [Runs -> Nat],
           LanesOK(pre, was, outerGen),
           Launch(pumped, pre, was, draining)
    PROVE  /\ Types' /\ LanesOK(lanes', turn', outerGen')
           /\ \A l \in Lanes : lanes'[l].generation = pre[l].generation
           /\ draining => \A r \in Runs : turn'[r] \in {"inner", "body"} =>
                            was[r] \in {"inner", "body"} /\ outerGen'[r] = outerGen[r]
<1> DEFINE starting == Starting(pumped, pre)
<1>1. PICK order \in Orders(starting) :
        LET main == IF draining THEN pre[Main] ELSE [pre[Main] EXCEPT !.queue = @ \o order]
        IN  /\ lanes' = [l \in Lanes |-> IF l = Main THEN Pump(main)
                                         ELSE IF l \in pumped THEN Pump(pre[l]) ELSE pre[l]]
            /\ turn' = [r \in Runs |->
                   IF r \in Startable(main) THEN "body"
                   ELSE IF r \notin starting THEN was[r]
                   ELSE IF draining THEN "over" ELSE "inner"]
            /\ outerGen' = [r \in Runs |-> IF r \in starting
                   THEN pre[SessionOf[r]].generation ELSE outerGen[r]]
            /\ innerGen' = [r \in Runs |-> IF r \in Startable(main)
                   THEN main.generation ELSE innerGen[r]]
  BY DEF Launch, Starting
<1> DEFINE main == IF draining THEN pre[Main] ELSE [pre[Main] EXCEPT !.queue = @ \o order]
<1>2. /\ starting \subseteq Runs
      /\ \A r \in starting : /\ SessionOf[r] \in pumped /\ was[r] = "outer"
                             /\ r \in Startable(pre[SessionOf[r]])
      /\ \A r \in Runs : \A s \in pumped :
           SessionOf[r] = s => (r \in starting <=> r \in Startable(pre[s]))
  BY StartingWaited
<1>3. /\ main \in LaneType /\ main.generation = pre[Main].generation /\ Distinct(main.queue)
      /\ Members(main.queue) = {r \in Runs : was[r] = "inner"}
                                 \cup (IF draining THEN {} ELSE starting)
  <2>1. MainOK(pre[Main], was)
    BY DEF LanesOK
  <2>2. CASE draining
    BY <2>1, <2>2 DEF MainOK
  <2>3. CASE ~draining
    <3>1. \A r \in starting : was[r] # "inner"
      BY <1>2
    <3>2. starting \in SUBSET Runs
      BY <1>2
    <3> DEFINE m == pre[Main]
               c == m.queue \o order
    <3> HIDE DEF starting, m, main
    <3>3. /\ c \in Seq(Runs) /\ Distinct(c)
          /\ Members(c) = {r \in Runs : was[r] = "inner"} \cup starting
      <4>1. MainOK(m, was)
        BY <2>1 DEF m
      <4>2. order \in Orders(starting)
        BY <1>1
      <4> QED
        BY <3>1, <3>2, <4>1, <4>2, MainQueued
    <3> USE DEF m, main
    <3>4. main = [pre[Main] EXCEPT !.queue = c]
      BY <2>3
    <3>5. pre[Main] \in LaneType
      BY <2>1 DEF MainOK
    <3> HIDE DEF c, main
    <3>6. main \in LaneType /\ main.queue = c /\ main.generation = pre[Main].generation
      BY <3>3, <3>4, <3>5 DEF LaneType
    <3> QED
      BY <2>3, <3>3, <3>6
  <2> QED
    BY <2>2, <2>3
<1> HIDE DEF main, starting
<1>4. /\ Startable(main) \subseteq Members(main.queue) /\ Startable(main) \subseteq Runs
      /\ Pump(main) \in LaneType /\ Pump(main).generation = main.generation
      /\ Distinct(Pump(main).queue)
      /\ Members(Pump(main).queue) = Members(main.queue) \ Startable(main)
  BY <1>3, PumpQueue
<1>5. /\ lanes' = [l \in Lanes |-> IF l = Main THEN Pump(main)
                                   ELSE IF l \in pumped THEN Pump(pre[l]) ELSE pre[l]]
      /\ turn' = [r \in Runs |->
             IF r \in Startable(main) THEN "body"
             ELSE IF r \notin starting THEN was[r]
             ELSE IF draining THEN "over" ELSE "inner"]
      /\ outerGen' = [r \in Runs |-> IF r \in starting
             THEN pre[SessionOf[r]].generation ELSE outerGen[r]]
      /\ innerGen' = [r \in Runs |-> IF r \in Startable(main)
             THEN main.generation ELSE innerGen[r]]
  BY <1>1 DEF main
<1>6. \A s \in pumped : /\ Pump(pre[s]) \in LaneType
                        /\ Pump(pre[s]).generation = pre[s].generation
  BY PumpQueue DEF LanesOK, SessionOK
<1>7. Main \in Lanes /\ Sessions \subseteq Lanes /\ Lanes = Sessions \cup {Main}
  BY DEF Lanes
<1>8. \A l \in Lanes : lanes'[l] \in LaneType /\ lanes'[l].generation = pre[l].generation
  BY <1>3, <1>4, <1>5, <1>6, <1>7
<1>9. Types'
  <2>1. lanes' \in [Lanes -> LaneType]
    BY <1>5, <1>8
  <2>2. turn' \in [Runs -> Turns]
    BY <1>5 DEF Turns
  <2>3. \A r \in starting : pre[SessionOf[r]].generation \in Nat
    BY <1>2, <1>7 DEF LaneType
  <2>4. main.generation \in Nat
    BY <1>3 DEF LaneType
  <2> QED
    BY <2>1, <2>2, <2>3, <2>4, <1>5 DEF Types
\* What becomes of one run.
<1>10. ASSUME NEW r \in Runs
       PROVE  /\ turn'[r] = "inner" <=> r \in Members(main.queue) /\ r \notin Startable(main)
              /\ turn'[r] = "outer" <=> was[r] = "outer" /\ r \notin starting
              /\ turn'[r] \in Engaged <=> was[r] \in Engaged \/ r \in starting
              /\ draining /\ turn'[r] \in {"inner", "body"} =>
                   was[r] \in {"inner", "body"} /\ r \notin starting
  <2>1. r \in Startable(main) => was[r] = "inner" \/ (r \in starting /\ ~draining)
    BY <1>3, <1>4
  <2>2. r \in starting => was[r] = "outer"
    BY <1>2
  <2>3. turn'[r] = IF r \in Startable(main) THEN "body"
                   ELSE IF r \notin starting THEN was[r]
                   ELSE IF draining THEN "over" ELSE "inner"
    BY <1>5
  <2>4. r \in Members(main.queue) <=> was[r] = "inner" \/ (r \in starting /\ ~draining)
    BY <1>3
  <2> QED
    BY <2>1, <2>2, <2>3, <2>4 DEF Engaged
<1>11. MainOK(lanes'[Main], turn')
  <2>1. lanes'[Main] = Pump(main)
    BY <1>5, <1>7
  <2>2. Members(main.queue) \subseteq Runs
    BY <1>2, <1>3
  <2>3. Members(Pump(main).queue) = {r \in Runs : turn'[r] = "inner"}
    BY <1>4, <1>10, <2>2
  <2> QED
    BY <1>4, <2>1, <2>3 DEF MainOK
<1>12. ASSUME NEW s \in Sessions PROVE SessionOK(s, lanes'[s], turn', outerGen')
  <2>1. SessionOK(s, pre[s], was, outerGen)
    BY DEF LanesOK
  <2>2. outerGen' \in [Runs -> Nat]
    BY <1>9 DEF Types
  <2>3. CASE s \in pumped
    <3>1. lanes'[s] = Pump(pre[s])
      BY <2>3, <1>5, <1>7
    <3>2. \A r \in Runs : SessionOf[r] = s =>
             /\ turn'[r] \in Engaged <=> was[r] \in Engaged \/ r \in Startable(pre[s])
             /\ turn'[r] = "outer" <=> was[r] = "outer" /\ r \notin Startable(pre[s])
             /\ outerGen'[r] = IF r \in Startable(pre[s]) THEN pre[s].generation
                               ELSE outerGen[r]
      BY <2>3, <1>2, <1>5, <1>10
    <3> QED
      BY <2>1, <2>2, <3>1, <3>2, PumpSession
  <2>4. CASE s \notin pumped
    <3>1. lanes'[s] = pre[s]
      BY <2>4, <1>5, <1>7
    <3>2. \A r \in Runs : SessionOf[r] = s => r \notin starting
      BY <2>4, <1>2
    <3>3. \A r \in Runs : SessionOf[r] = s =>
             /\ turn'[r] \in Engaged <=> was[r] \in Engaged
             /\ turn'[r] = "outer" <=> was[r] = "outer"
             /\ outerGen'[r] = outerGen[r]
      BY <3>2, <1>5, <1>10
    <3> QED
      BY <2>1, <3>1, <3>3, SameSession
  <2> QED
    BY <2>3, <2>4
<1>13. draining => \A r \in Runs : turn'[r] \in {"inner", "body"} =>
                     was[r] \in {"inner", "body"} /\ outerGen'[r] = outerGen[r]
  BY <1>5, <1>10
<1> QED
  BY <1>8, <1>9, <1>11, <1>12, <1>13 DEF LanesOK

-----------------------------------------------------------------------------
(* What the handlers leave before the pumps. *)

LEMMA Queued ==
    ASSUME NEW s \in Sessions, NEW l, NEW og, NEW r \in Runs, SessionOf[r] = s,
           turn \in [Runs -> Turns], turn[r] = "new", SessionOK(s, l, turn, og)
    PROVE  /\ WithEntry(l, r) \in LaneType
           /\ WithEntry(l, r).generation = l.generation
           /\ SessionOK(s, WithEntry(l, r), [turn EXCEPT ![r] = "outer"], og)
<1> DEFINE tn == [turn EXCEPT ![r] = "outer"]
           q == Append(l.queue, r)
<1>1. l \in LaneType /\ l.queue \in Seq(Runs) /\ Distinct(l.queue)
      /\ Members(l.queue) = {x \in Runs : SessionOf[x] = s /\ turn[x] = "outer"}
  BY DEF SessionOK, LaneType
<1>2. <<r>> \in Seq(Runs) /\ Distinct(<<r>>) /\ Members(<<r>>) = {r}
  BY DEF Distinct, Members
<1>3. q = l.queue \o <<r>>
  BY <1>1, AppendIsConcat
<1>4. Members(l.queue) \cap Members(<<r>>) = {}
  BY <1>1, <1>2
<1>5. q \in Seq(Runs) /\ Distinct(q) /\ Members(q) = Members(l.queue) \cup {r}
  <2>1. /\ l.queue \o <<r>> \in Seq(Runs)
        /\ Distinct(l.queue \o <<r>>)
        /\ Members(l.queue \o <<r>>) = Members(l.queue) \cup Members(<<r>>)
    BY <1>1, <1>2, <1>4, Appended
  <2> HIDE DEF q
  <2> QED
    BY <1>2, <1>3, <2>1
<1> HIDE DEF q
<1>6. /\ WithEntry(l, r) \in LaneType /\ WithEntry(l, r).queue = q
      /\ WithEntry(l, r).active = l.active /\ WithEntry(l, r).generation = l.generation
      /\ WithEntry(l, r).maxConcurrent = l.maxConcurrent
  BY <1>1, <1>5 DEF WithEntry, LaneType, q
<1>7. \A x \in Runs : tn[x] = IF x = r THEN "outer" ELSE turn[x]
  OBVIOUS
<1> HIDE DEF tn
<1>8. Members(q) = {x \in Runs : SessionOf[x] = s /\ tn[x] = "outer"}
  BY <1>1, <1>5, <1>7
<1>9. \A x \in Runs : tn[x] \in Engaged <=> turn[x] \in Engaged
  BY <1>7 DEF Engaged
<1>10. SessionOK(s, WithEntry(l, r), tn, og)
  <2>1. l.active = {x \in Runs : SessionOf[x] = s /\ tn[x] \in Engaged /\ og[x] = l.generation}
    BY <1>9 DEF SessionOK
  <2>2. /\ l.maxConcurrent = 1
        /\ \A x \in Runs : SessionOf[x] = s /\ tn[x] \in Engaged => og[x] <= l.generation
        /\ \A x, y \in Runs : /\ SessionOf[x] = s /\ SessionOf[y] = s
                              /\ tn[x] \in Engaged /\ tn[y] \in Engaged /\ og[x] = og[y]
                              => x = y
    BY <1>9 DEF SessionOK
  <2> QED
    BY <1>5, <1>6, <1>8, <2>1, <2>2 DEF SessionOK
<1> QED
  BY <1>6, <1>10 DEF tn

\* A settled task of a session lane leaves it, if the lane still knows it.
LEMMA Left ==
    ASSUME NEW s \in Sessions, NEW l, NEW tn, NEW og, SessionOK(s, l, tn, og),
           NEW r \in Runs, NEW tn2,
           \A x \in Runs : SessionOf[x] = s =>
              /\ tn2[x] \in Engaged <=> tn[x] \in Engaged /\ x # r
              /\ tn2[x] = "outer" <=> tn[x] = "outer"
    PROVE  /\ WithoutTask(l, r, og[r]) \in LaneType
           /\ WithoutTask(l, r, og[r]).generation = l.generation
           /\ SessionOK(s, WithoutTask(l, r, og[r]), tn2, og)
<1> DEFINE k == WithoutTask(l, r, og[r])
<1>1. l \in LaneType
  BY DEF SessionOK
<1>2. /\ k \in LaneType /\ k.queue = l.queue
      /\ k.active = IF og[r] = l.generation THEN l.active \ {r} ELSE l.active
      /\ k.generation = l.generation /\ k.maxConcurrent = l.maxConcurrent
  BY <1>1 DEF WithoutTask, LaneType
<1> HIDE DEF k
<1>3. k.active = {x \in Runs : SessionOf[x] = s /\ tn2[x] \in Engaged /\ og[x] = k.generation}
  BY <1>2 DEF SessionOK
<1>4. Members(k.queue) = {x \in Runs : SessionOf[x] = s /\ tn2[x] = "outer"}
  BY <1>2 DEF SessionOK
<1>5. /\ k.maxConcurrent = 1 /\ Distinct(k.queue)
      /\ \A x \in Runs : SessionOf[x] = s /\ tn2[x] \in Engaged => og[x] <= k.generation
      /\ \A x, y \in Runs : /\ SessionOf[x] = s /\ SessionOf[y] = s
                            /\ tn2[x] \in Engaged /\ tn2[y] \in Engaged /\ og[x] = og[y]
                            => x = y
  BY <1>2 DEF SessionOK
<1> QED
  BY <1>2, <1>3, <1>4, <1>5 DEF SessionOK, k

\* A reset puts the lane in a generation none of its runs has.
LEMMA Refreshed ==
    ASSUME NEW l \in LaneType
    PROVE  /\ NextGeneration(l) \in LaneType
           /\ NextGeneration(l).queue = l.queue /\ NextGeneration(l).active = {}
           /\ NextGeneration(l).maxConcurrent = l.maxConcurrent
           /\ NextGeneration(l).generation = l.generation + 1
<1> DEFINE g == l.generation + 1
<1>1. g \in Nat
  BY DEF LaneType
<1>2. NextGeneration(l) = [l EXCEPT !.generation = g, !.active = {}]
  BY DEF NextGeneration
<1> HIDE DEF g
<1>3. /\ NextGeneration(l) \in LaneType
      /\ NextGeneration(l).queue = l.queue /\ NextGeneration(l).active = {}
      /\ NextGeneration(l).maxConcurrent = l.maxConcurrent
      /\ NextGeneration(l).generation = g
  BY <1>1, <1>2 DEF LaneType
<1> QED
  BY <1>3 DEF g

LEMMA RefreshedSession ==
    ASSUME NEW s \in Sessions, NEW l, NEW tn, NEW og \in [Runs -> Nat], SessionOK(s, l, tn, og)
    PROVE  SessionOK(s, NextGeneration(l), tn, og)
<1> DEFINE k == NextGeneration(l)
<1>1. l \in LaneType /\ l.generation \in Nat
  BY DEF SessionOK, LaneType
<1>2. /\ k \in LaneType /\ k.queue = l.queue /\ k.active = {}
      /\ k.maxConcurrent = l.maxConcurrent /\ k.generation = l.generation + 1
  BY <1>1, Refreshed
<1> HIDE DEF k
<1>3. \A r \in Runs : SessionOf[r] = s /\ tn[r] \in Engaged =>
         og[r] <= k.generation /\ og[r] # k.generation
  <2> SUFFICES ASSUME NEW r \in Runs, SessionOf[r] = s, tn[r] \in Engaged
               PROVE  og[r] <= k.generation /\ og[r] # k.generation
    OBVIOUS
  <2>1. og[r] \in Nat /\ og[r] <= l.generation
    BY DEF SessionOK
  <2> QED
    BY <1>1, <1>2, <2>1
<1>4. k.active = {r \in Runs : SessionOf[r] = s /\ tn[r] \in Engaged /\ og[r] = k.generation}
  BY <1>2, <1>3
<1> QED
  BY <1>2, <1>3, <1>4 DEF SessionOK, k

-----------------------------------------------------------------------------
(* The invariant holds initially. *)

LEMMA InitHolds == Init => IInv
<1> SUFFICES ASSUME Init PROVE IInv
  OBVIOUS
<1>1. Main \in Lanes /\ Sessions \subseteq Lanes /\ Lanes = Sessions \cup {Main}
  BY DEF Lanes
<1>2. /\ turn = [r \in Runs |-> "new"] /\ outerGen = [r \in Runs |-> 0]
      /\ innerGen = [r \in Runs |-> 0]
  BY DEF Init
<1>3. ASSUME NEW l \in Lanes
      PROVE  /\ lanes[l] \in LaneType /\ lanes[l].queue = <<>> /\ lanes[l].active = {}
             /\ l # Main => lanes[l].maxConcurrent = 1
  <2> DEFINE n == IF l = Main THEN MainLimit ELSE 1
  <2>1. lanes[l] = [NewLane EXCEPT !.maxConcurrent = n]
    BY DEF Init
  <2>2. <<>> \in Seq(Runs) /\ {} \in SUBSET Runs /\ n \in Nat \ {0}
    OBVIOUS
  <2>3. l # Main => n = 1
    OBVIOUS
  <2> HIDE DEF n
  <2>4. lanes[l] = [queue |-> <<>>, active |-> {}, maxConcurrent |-> n, generation |-> 0]
    BY <2>1 DEF NewLane
  <2> QED
    BY <2>2, <2>3, <2>4 DEF LaneType
<1>4. Types
  <2>1. lanes \in [Lanes -> LaneType]
    BY <1>3 DEF Init
  <2> QED
    BY <1>2, <2>1 DEF Types, Turns
<1>5. Distinct(<<>>) /\ Members(<<>>) = {}
  BY DEF Distinct, Members
<1>6. MainOK(lanes[Main], turn)
  BY <1>1, <1>2, <1>3, <1>5 DEF MainOK
<1>7. ASSUME NEW s \in Sessions PROVE SessionOK(s, lanes[s], turn, outerGen)
  BY <1>1, <1>2, <1>3, <1>5 DEF SessionOK, Engaged
<1>8. Registered
  BY DEF Init, Registered, RegistryOfSession, RegistryLive, NoForgottenWaiter
<1>9. DrainType /\ Marked /\ DrainTells
  BY DEF Init, LoopInit, NoDrain, NoShutdown, DrainType, Marked, Shutdowns, DrainTells, Window
<1> QED
  BY <1>4, <1>6, <1>7, <1>8, <1>9 DEF IInv, LanesOK

-----------------------------------------------------------------------------
(* The run loop within the composition. *)

\* A step of the composition is one of the loop's, or leaves the loop alone.
LEMMA StepOfLoop ==
    ASSUME [Next]_vars PROVE [LoopNext]_loopVars
<1>1. ASSUME NEW r \in Runs, AgentStep(r) PROVE UNCHANGED loopVars
  BY <1>1 DEF AgentStep, Submit, Register, Unregister, EndBody, EndTurn
<1>2. ASSUME NEW s \in Sessions, AwaitRunEnd(s) \/ AwaitTimeout(s) PROVE UNCHANGED loopVars
  BY <1>2 DEF AwaitRunEnd, AwaitTimeout
<1>3. CASE Restart
  <2>1. (ActiveTasks # {} \/ ActiveRuns # {}) \in BOOLEAN
    OBVIOUS
  <2> QED
    BY <1>3, <2>1 DEF Restart, LoopNext
<1>4. CASE TasksAnswer \/ RunsAnswer
  BY <1>4 DEF TasksAnswer, RunsAnswer
<1>5. CASE DrainAnswered \/ ResumeAndReset
  BY <1>5 DEF DrainAnswered, ResumeAndReset, LoopNext
<1>6. CASE LoopOnly
  BY <1>6 DEF LoopOnly, LoopNext
<1>7. CASE UNCHANGED vars
  BY <1>7 DEF vars
<1> QED
  BY <1>1, <1>2, <1>3, <1>4, <1>5, <1>6, <1>7 DEF Next

\* Only a restart's signal opens the window, and the gateway is marked with it.
LEMMA MarkedKept ==
    ASSUME Marked, [LoopNext]_loopVars
    PROVE  /\ Marked'
           /\ Window' => Window \/ \E busy \in BOOLEAN : RequestRestart(busy)
<1> USE DEF Marked, Window, Shutdowns
<1>1. CASE LoopStep
  BY <1>1 DEF LoopStep, StartOk, StartFail, LoopRemovesLock, LoopForgetsLock
<1>2. CASE RemoveLock
  BY <1>2 DEF RemoveLock
<1>3. CASE ForgetLock \/ SkipLock
  BY <1>3 DEF ForgetLock, SkipLock, AfterRelease
<1>4. CASE Relock
  BY <1>4 DEF Relock
<1>5. CASE Resume
  BY <1>5 DEF Resume, NoShutdown
<1>6. CASE RequestStop
  BY <1>6 DEF RequestStop, ToClose
<1>7. ASSUME NEW busy \in BOOLEAN, RequestRestart(busy) PROVE Marked'
  BY <1>7 DEF RequestRestart, ToClose
<1>8. CASE EndDrain
  BY <1>8 DEF EndDrain, ToClose
<1>9. CASE CloseServer
  BY <1>9 DEF CloseServer
<1>10. CASE ForceExit
  BY <1>10 DEF ForceExit
<1>11. CASE Rival
  BY <1>11 DEF Rival
<1>12. CASE UNCHANGED loopVars
  BY <1>12 DEF loopVars
<1> QED
  BY <1>1, <1>2, <1>3, <1>4, <1>5, <1>6, <1>7, <1>8, <1>9, <1>10, <1>11, <1>12
     DEF LoopNext, Release

-----------------------------------------------------------------------------
(* The handlers that move a run. *)

\* What IInv needs of them.
LanesKept ==
    /\ Types' /\ LanesOK(lanes', turn', outerGen')
    /\ \A l \in Lanes : lanes'[l].generation = lanes[l].generation
    /\ gatewayDraining => \A r \in Runs : turn'[r] \in {"inner", "body"} =>
                            turn[r] \in {"inner", "body"} /\ outerGen'[r] = outerGen[r]

\* A run that moves between turns its lane does not tell apart.
LEMMA TurnOnly ==
    ASSUME IInv, NEW r \in Runs, NEW t \in Turns, turn' = [turn EXCEPT ![r] = t],
           UNCHANGED <<lanes, outerGen, innerGen>>,
           LanesOK(lanes, turn', outerGen), t \notin {"inner", "body"}
    PROVE  LanesKept
<1>1. Types'
  BY DEF IInv, Types
<1>2. LanesOK(lanes', turn', outerGen')
  OBVIOUS
<1>3. \A x \in Runs : turn'[x] \in {"inner", "body"} => turn[x] \in {"inner", "body"}
  BY DEF IInv, Types
<1> QED
  BY <1>1, <1>2, <1>3 DEF LanesKept

\* The same for a handler that ends with pumps.
LEMMA Launched ==
    ASSUME IInv, NEW pumped \in SUBSET Sessions, NEW pre \in [Lanes -> LaneType],
           NEW r \in Runs, NEW t \in Turns, t \notin {"inner", "body"},
           LanesOK(pre, [turn EXCEPT ![r] = t], outerGen),
           \A l \in Lanes : pre[l].generation = lanes[l].generation,
           Launch(pumped, pre, [turn EXCEPT ![r] = t], gatewayDraining)
    PROVE  LanesKept
<1> DEFINE was == [turn EXCEPT ![r] = t]
<1>1. /\ was \in [Runs -> Turns] /\ gatewayDraining \in BOOLEAN
      /\ outerGen \in [Runs -> Nat] /\ innerGen \in [Runs -> Nat]
  BY DEF IInv, Types, Marked
<1>2. \A x \in Runs : was[x] \in {"inner", "body"} => turn[x] \in {"inner", "body"}
  BY DEF IInv, Types
<1>3. LanesOK(pre, was, outerGen) /\ Launch(pumped, pre, was, gatewayDraining)
  OBVIOUS
<1> HIDE DEF was
<1>4. /\ Types' /\ LanesOK(lanes', turn', outerGen')
      /\ \A l \in Lanes : lanes'[l].generation = pre[l].generation
      /\ gatewayDraining => \A x \in Runs : turn'[x] \in {"inner", "body"} =>
                               was[x] \in {"inner", "body"} /\ outerGen'[x] = outerGen[x]
  BY <1>1, <1>3, LaunchKeeps
<1> QED
  BY <1>2, <1>4 DEF LanesKept

LEMMA SubmitKeeps ==
    ASSUME IInv, NEW r \in Runs, Submit(r) PROVE LanesKept
<1> DEFINE s == SessionOf[r]
           was == [turn EXCEPT ![r] = "outer"]
           pre == [lanes EXCEPT ![s] = WithEntry(@, r)]
<1>1. s \in Sessions /\ s # Main /\ Sessions \subseteq Lanes /\ Main \in Lanes
  BY DEF Lanes
<1>2. /\ turn \in [Runs -> Turns] /\ turn[r] = "new" /\ lanes \in [Lanes -> LaneType]
      /\ MainOK(lanes[Main], turn)
      /\ \A x \in Sessions : SessionOK(x, lanes[x], turn, outerGen)
  BY DEF IInv, Types, LanesOK, Submit
<1>3. CASE gatewayDraining
  <2>1. turn' = [turn EXCEPT ![r] = "refused"] /\ UNCHANGED <<lanes, outerGen, innerGen>>
    BY <1>3 DEF Submit
  <2>2. \A x \in Runs : /\ turn'[x] \in Engaged <=> turn[x] \in Engaged
                        /\ turn'[x] = "outer" <=> turn[x] = "outer"
                        /\ turn'[x] = "inner" <=> turn[x] = "inner"
    BY <1>2, <2>1 DEF Engaged
  <2>3. MainOK(lanes[Main], turn')
    BY <1>2, <2>2 DEF MainOK
  <2>4. \A x \in Sessions : SessionOK(x, lanes[x], turn', outerGen)
    BY <1>2, <2>2, SameSession
  <2>5. "refused" \in Turns /\ "refused" \notin {"inner", "body"}
    BY DEF Turns
  <2> QED
    BY <2>1, <2>3, <2>4, <2>5, TurnOnly DEF LanesOK
<1>4. CASE ~gatewayDraining
  <2>1. Launch({s}, pre, was, gatewayDraining)
    <3>1. gatewayDraining = FALSE
      BY <1>4 DEF IInv, Marked
    <3>2. Launch({s}, pre, was, FALSE)
      BY <1>4 DEF Submit
    <3> QED
      BY <3>1, <3>2
  <2>2. \A x \in Runs : was[x] = IF x = r THEN "outer" ELSE turn[x]
    BY <1>2
  <2>3. /\ WithEntry(lanes[s], r) \in LaneType
        /\ WithEntry(lanes[s], r).generation = lanes[s].generation
        /\ SessionOK(s, WithEntry(lanes[s], r), was, outerGen)
    BY <1>1, <1>2, Queued
  <2>4. /\ pre \in [Lanes -> LaneType]
        /\ \A l \in Lanes : pre[l].generation = lanes[l].generation
        /\ pre[s] = WithEntry(lanes[s], r)
        /\ \A l \in Lanes : l # s => pre[l] = lanes[l]
    BY <1>1, <1>2, <2>3
  <2> HIDE DEF pre, was, s
  <2>5. \A x \in Runs : was[x] = "inner" <=> turn[x] = "inner"
    BY <1>2, <2>2
  <2>6. MainOK(pre[Main], was)
    BY <1>1, <1>2, <2>4, <2>5 DEF MainOK
  <2>7. ASSUME NEW x \in Sessions PROVE SessionOK(x, pre[x], was, outerGen)
    <3>1. CASE x = s
      BY <3>1, <2>3, <2>4
    <3>2. CASE x # s
      <4>1. \A y \in Runs : SessionOf[y] = x =>
               /\ was[y] \in Engaged <=> turn[y] \in Engaged
               /\ was[y] = "outer" <=> turn[y] = "outer"
               /\ outerGen[y] = outerGen[y]
        BY <3>2, <2>2 DEF s
      <4>2. SessionOK(x, lanes[x], turn, outerGen) /\ pre[x] = lanes[x]
        BY <1>1, <1>2, <2>4, <3>2
      <4> QED
        BY <4>1, <4>2, SameSession
    <3> QED
      BY <3>1, <3>2
  <2>8. LanesOK(pre, was, outerGen)
    BY <2>6, <2>7 DEF LanesOK
  <2>9. "outer" \in Turns /\ "outer" \notin {"inner", "body"} /\ {s} \in SUBSET Sessions
    BY <1>1 DEF Turns
  <2> USE DEF was
  <2> QED
    BY <2>1, <2>4, <2>8, <2>9, Launched
<1> QED
  BY <1>3, <1>4

LEMMA EndBodyKeeps ==
    ASSUME IInv, NEW r \in Runs, EndBody(r) PROVE LanesKept
<1> DEFINE was == [turn EXCEPT ![r] = "over"]
           m == WithoutTask(lanes[Main], r, innerGen[r])
           pre == [lanes EXCEPT ![Main] = m]
<1>1. Main \notin Sessions /\ Sessions \subseteq Lanes /\ Main \in Lanes
  BY DEF Lanes
<1>2. /\ turn \in [Runs -> Turns] /\ turn[r] = "body" /\ lanes \in [Lanes -> LaneType]
      /\ MainOK(lanes[Main], turn)
      /\ \A x \in Sessions : SessionOK(x, lanes[x], turn, outerGen)
  BY DEF IInv, Types, LanesOK, EndBody
<1>3. \A x \in Runs : was[x] = IF x = r THEN "over" ELSE turn[x]
  BY <1>2
<1>4. \A x \in Runs : /\ was[x] \in Engaged <=> turn[x] \in Engaged
                      /\ was[x] = "outer" <=> turn[x] = "outer"
                      /\ was[x] = "inner" <=> turn[x] = "inner"
  BY <1>2, <1>3 DEF Engaged
<1>5. \A x \in Sessions : SessionOK(x, lanes[x], was, outerGen)
  <2> HIDE DEF was
  <2> QED
    BY <1>2, <1>4, SameSession
<1>6. "over" \in Turns /\ "over" \notin {"inner", "body"} /\ {} \in SUBSET Sessions
  BY DEF Turns
<1>7. CASE innerGen[r] = lanes[Main].generation
  <2>1. Launch({}, pre, was, gatewayDraining)
    BY <1>7 DEF EndBody
  <2>2. m \in LaneType /\ m.queue = lanes[Main].queue /\ m.generation = lanes[Main].generation
    BY <1>1, <1>2 DEF WithoutTask, LaneType
  <2> HIDE DEF m, was
  <2>3. /\ pre \in [Lanes -> LaneType] /\ pre[Main] = m
        /\ \A l \in Lanes : pre[l].generation = lanes[l].generation
        /\ \A s \in Sessions : pre[s] = lanes[s]
    BY <1>1, <1>2, <2>2
  <2> HIDE DEF pre
  <2>4. MainOK(pre[Main], was)
    BY <1>2, <1>4, <2>2, <2>3 DEF MainOK
  <2>5. LanesOK(pre, was, outerGen)
    BY <1>5, <2>3, <2>4 DEF LanesOK
  <2> USE DEF was
  <2> QED
    BY <1>6, <2>1, <2>3, <2>5, Launched
<1>8. CASE innerGen[r] # lanes[Main].generation
  <2>1. turn' = was /\ UNCHANGED <<lanes, outerGen, innerGen>>
    BY <1>8 DEF EndBody
  <2>2. MainOK(lanes[Main], was)
    <3> HIDE DEF was
    <3> QED
      BY <1>2, <1>4 DEF MainOK
  <2>3. LanesOK(lanes, turn', outerGen)
    BY <1>5, <2>1, <2>2 DEF LanesOK
  <2> QED
    BY <1>6, <2>1, <2>3, TurnOnly
<1> QED
  BY <1>7, <1>8

LEMMA EndTurnKeeps ==
    ASSUME IInv, NEW r \in Runs, EndTurn(r) PROVE LanesKept
<1> DEFINE s == SessionOf[r]
           was == [turn EXCEPT ![r] = "done"]
           k == WithoutTask(lanes[s], r, outerGen[r])
           pre == [lanes EXCEPT ![s] = k]
<1>1. s \in Sessions /\ s # Main /\ Sessions \subseteq Lanes /\ Main \in Lanes
  BY DEF Lanes
<1>2. /\ turn \in [Runs -> Turns] /\ turn[r] = "over" /\ lanes \in [Lanes -> LaneType]
      /\ MainOK(lanes[Main], turn)
      /\ \A x \in Sessions : SessionOK(x, lanes[x], turn, outerGen)
  BY DEF IInv, Types, LanesOK, EndTurn
<1>3. \A x \in Runs : was[x] = IF x = r THEN "done" ELSE turn[x]
  BY <1>2
<1>4. k \in LaneType /\ k.generation = lanes[s].generation /\ SessionOK(s, k, was, outerGen)
  <2>1. \A x \in Runs : SessionOf[x] = s =>
           /\ was[x] \in Engaged <=> turn[x] \in Engaged /\ x # r
           /\ was[x] = "outer" <=> turn[x] = "outer"
    <3> HIDE DEF was
    <3> QED
      BY <1>2, <1>3 DEF Engaged
  <2>2. SessionOK(s, lanes[s], turn, outerGen)
    BY <1>1, <1>2
  <2> HIDE DEF was, s, k
  <2>3. /\ WithoutTask(lanes[s], r, outerGen[r]) \in LaneType
        /\ WithoutTask(lanes[s], r, outerGen[r]).generation = lanes[s].generation
        /\ SessionOK(s, WithoutTask(lanes[s], r, outerGen[r]), was, outerGen)
    BY <1>1, <2>1, <2>2, Left
  <2> QED
    BY <2>3 DEF k
<1>5. ASSUME NEW x \in Sessions, x # s PROVE SessionOK(x, lanes[x], was, outerGen)
  <2> HIDE DEF was
  <2>1. \A y \in Runs : SessionOf[y] = x =>
           /\ was[y] \in Engaged <=> turn[y] \in Engaged
           /\ was[y] = "outer" <=> turn[y] = "outer"
           /\ outerGen[y] = outerGen[y]
    BY <1>3, <1>5
  <2> QED
    BY <1>2, <2>1, SameSession
<1>6. MainOK(lanes[Main], was)
  <2>1. \A x \in Runs : was[x] = "inner" <=> turn[x] = "inner"
    BY <1>2, <1>3
  <2> HIDE DEF was
  <2> QED
    BY <1>2, <2>1 DEF MainOK
<1>7. "done" \in Turns /\ "done" \notin {"inner", "body"} /\ {s} \in SUBSET Sessions
  BY <1>1 DEF Turns
<1>8. CASE outerGen[r] = lanes[s].generation
  <2>1. Launch({s}, pre, was, gatewayDraining)
    BY <1>8 DEF EndTurn
  <2> HIDE DEF k, was, s
  <2>2. /\ pre \in [Lanes -> LaneType] /\ pre[s] = k
        /\ \A l \in Lanes : pre[l].generation = lanes[l].generation
        /\ \A l \in Lanes : l # s => pre[l] = lanes[l]
    BY <1>1, <1>2, <1>4
  <2> HIDE DEF pre
  <2>3. ASSUME NEW x \in Sessions PROVE SessionOK(x, pre[x], was, outerGen)
    <3>1. CASE x = s
      BY <3>1, <1>4, <2>2
    <3>2. CASE x # s
      BY <3>2, <1>1, <1>5, <2>2
    <3> QED
      BY <3>1, <3>2
  <2>4. MainOK(pre[Main], was)
    BY <1>1, <1>6, <2>2
  <2>5. LanesOK(pre, was, outerGen)
    BY <2>3, <2>4 DEF LanesOK
  <2> USE DEF was
  <2> QED
    BY <1>7, <2>1, <2>2, <2>5, Launched
<1>9. CASE outerGen[r] # lanes[s].generation
  <2>1. turn' = was /\ UNCHANGED <<lanes, outerGen, innerGen>>
    BY <1>9 DEF EndTurn
  <2>2. k = lanes[s]
    BY <1>9 DEF WithoutTask
  <2>3. \A x \in Sessions : SessionOK(x, lanes[x], was, outerGen)
    <3> HIDE DEF was, k, s
    <3> QED
      BY <1>4, <1>5, <2>2
  <2>4. LanesOK(lanes, turn', outerGen)
    BY <1>6, <2>1, <2>3 DEF LanesOK
  <2> QED
    BY <1>7, <2>1, <2>4, TurnOnly
<1> QED
  BY <1>8, <1>9

-----------------------------------------------------------------------------
(* Every step keeps the invariant. *)

\* Who is in the snapshot stays there; nobody else comes to work.
LEMMA LanesStep ==
    ASSUME IInv, LanesKept, UNCHANGED <<loopVars, drain>>, Registered'
    PROVE  IInv'
<1>1. Marked' /\ DrainType'
  BY DEF IInv, Marked, DrainType, loopVars
<1>2. DrainTells'
  <2> SUFFICES ASSUME Window', NEW r \in Runs, turn'[r] \in {"inner", "body"},
                      outerGen'[r] = lanes'[SessionOf[r]].generation
               PROVE  <<SessionOf[r], r>> \in drain'.snapshot /\ drain'.tasks # "drained"
    BY DEF DrainTells
  <2>1. Window /\ drain' = drain
    BY DEF Window, loopVars
  <2>2. gatewayDraining
    BY <2>1 DEF IInv, Marked, Window
  <2>3. turn[r] \in {"inner", "body"} /\ outerGen'[r] = outerGen[r]
    BY <2>2 DEF LanesKept
  <2>4. SessionOf[r] \in Lanes
    BY DEF Lanes
  <2>5. lanes'[SessionOf[r]].generation = lanes[SessionOf[r]].generation
    BY <2>4 DEF LanesKept
  <2>6. outerGen[r] = lanes[SessionOf[r]].generation
    BY <2>3, <2>5
  <2> QED
    BY <2>1, <2>3, <2>6 DEF IInv, DrainTells
<1>3. Types' /\ LanesOK(lanes, turn, outerGen)'
  BY DEF LanesKept
<1> QED
  BY <1>1, <1>2, <1>3 DEF IInv

\* The loop's own steps.
LEMMA LoopOnlyStep ==
    ASSUME IInv, [LoopNext]_loopVars, UNCHANGED agentVars, Window' => Window
    PROVE  IInv'
<1>1. Marked'
  BY MarkedKept DEF IInv
<1>2. Types' /\ LanesOK(lanes, turn, outerGen)'
  BY DEF IInv, Types, agentVars
<1>3. Registered'
  BY DEF IInv, Registered, RegistryOfSession, RegistryLive, NoForgottenWaiter, agentVars
<1>4. DrainType' /\ DrainTells'
  BY DEF IInv, DrainType, DrainTells, agentVars
<1> QED
  BY <1>1, <1>2, <1>3, <1>4 DEF IInv

\* The registry's.
LEMMA RegistryStep ==
    ASSUME IInv, UNCHANGED <<loopVars, lanes, turn, outerGen, innerGen, drain>>, Registered'
    PROVE  IInv'
<1>1. Types' /\ LanesOK(lanes, turn, outerGen)'
  BY DEF IInv, Types
<1>2. Marked' /\ DrainType' /\ DrainTells'
  BY DEF IInv, Marked, DrainType, DrainTells, Window, loopVars
<1> QED
  BY <1>1, <1>2 DEF IInv

\* A restart's signal takes the snapshot.
LEMMA RestartStep ==
    ASSUME IInv, Restart, [LoopNext]_loopVars PROVE IInv'
<1>1. Marked'
  BY MarkedKept DEF IInv
<1>2. /\ UNCHANGED <<lanes, turn, outerGen, innerGen, attempt, registry, waiting>>
      /\ drain' = [snapshot |-> ActiveTasks,
                   tasks |-> IF ActiveTasks = {} THEN "drained" ELSE "waiting",
                   runs |-> IF ActiveRuns = {} THEN "drained" ELSE "waiting"]
  BY DEF Restart
<1>3. Types' /\ LanesOK(lanes, turn, outerGen)'
  BY <1>2 DEF IInv, Types
<1>4. Registered'
  BY <1>2 DEF IInv, Registered, RegistryOfSession, RegistryLive, NoForgottenWaiter
<1>5. ActiveTasks \in SUBSET (Lanes \X Runs)
  BY DEF ActiveTasks
<1>6. DrainType'
  BY <1>2, <1>5 DEF DrainType
<1>7. DrainTells'
  <2> SUFFICES ASSUME NEW r \in Runs, turn[r] \in {"inner", "body"},
                      outerGen[r] = lanes[SessionOf[r]].generation
               PROVE  <<SessionOf[r], r>> \in ActiveTasks
    BY <1>2 DEF DrainTells
  <2>1. SessionOf[r] \in Lanes
    BY DEF Lanes
  <2>2. SessionOK(SessionOf[r], lanes[SessionOf[r]], turn, outerGen)
    BY DEF IInv, LanesOK
  <2>3. r \in lanes[SessionOf[r]].active
    BY <2>2 DEF SessionOK, Engaged
  <2> QED
    BY <2>1, <2>3 DEF ActiveTasks
<1> QED
  BY <1>1, <1>3, <1>4, <1>6, <1>7 DEF IInv

\* The answers of the two waits.
LEMMA AnswerStep ==
    ASSUME IInv, TasksAnswer \/ RunsAnswer PROVE IInv'
<1>1. UNCHANGED <<loopVars, lanes, turn, outerGen, innerGen, attempt, registry, waiting>>
  BY DEF TasksAnswer, RunsAnswer
<1>2. Types' /\ LanesOK(lanes, turn, outerGen)'
  BY <1>1 DEF IInv, Types
<1>3. Registered'
  BY <1>1 DEF IInv, Registered, RegistryOfSession, RegistryLive, NoForgottenWaiter
<1>4. Marked'
  BY <1>1 DEF IInv, Marked, loopVars
<1>5. DrainType'
  BY DEF IInv, DrainType, TasksAnswer, RunsAnswer
<1>6. DrainTells'
  <2> SUFFICES ASSUME Window, NEW r \in Runs, turn[r] \in {"inner", "body"},
                      outerGen[r] = lanes[SessionOf[r]].generation
               PROVE  <<SessionOf[r], r>> \in drain'.snapshot /\ drain'.tasks # "drained"
    BY <1>1 DEF DrainTells, Window, loopVars
  <2>1. <<SessionOf[r], r>> \in drain.snapshot /\ drain.tasks # "drained"
    BY DEF IInv, DrainTells
  <2>2. CASE RunsAnswer
    BY <2>1, <2>2 DEF RunsAnswer, IInv, DrainType
  <2>3. CASE TasksAnswer
    <3>1. SessionOf[r] \in Lanes
      BY DEF Lanes
    <3>2. SessionOK(SessionOf[r], lanes[SessionOf[r]], turn, outerGen)
      BY DEF IInv, LanesOK
    <3>3. r \in lanes[SessionOf[r]].active
      BY <3>2 DEF SessionOK, Engaged
    <3>4. <<SessionOf[r], r>> \in ActiveTasks
      BY <3>1, <3>3 DEF ActiveTasks
    <3>5. drain' = [drain EXCEPT !.tasks = "timedOut"]
      BY <2>1, <2>3, <3>4 DEF TasksAnswer
    <3> QED
      BY <2>1, <3>5 DEF IInv, DrainType
  <2> QED
    BY <2>2, <2>3
<1> QED
  BY <1>2, <1>3, <1>4, <1>5, <1>6 DEF IInv

\* The next iteration of the loop: every lane goes to a generation of its own
\* before any is pumped.
LEMMA ResumeStep ==
    ASSUME IInv, ResumeAndReset, [LoopNext]_loopVars PROVE IInv'
<1>1. Marked'
  BY MarkedKept DEF IInv
<1>2. UNCHANGED <<attempt, registry, waiting, drain>> /\ shutdown' = NoShutdown
  BY DEF ResumeAndReset, Resume
<1>3. Registered' /\ DrainType'
  BY <1>2 DEF IInv, Registered, RegistryOfSession, RegistryLive, NoForgottenWaiter, DrainType
<1>4. DrainTells'
  BY <1>2 DEF DrainTells, Window, NoShutdown
<1>5. Types' /\ LanesOK(lanes', turn', outerGen')
  <2>1. CASE loop = "parked"
    <3> DEFINE pre == [l \in Lanes |-> NextGeneration(lanes[l])]
    <3>1. Launch(Sessions, pre, turn, FALSE)
      BY <2>1 DEF ResumeAndReset
    <3>2. /\ lanes \in [Lanes -> LaneType] /\ turn \in [Runs -> Turns]
          /\ outerGen \in [Runs -> Nat] /\ innerGen \in [Runs -> Nat]
          /\ MainOK(lanes[Main], turn)
          /\ \A s \in Sessions : SessionOK(s, lanes[s], turn, outerGen)
      BY DEF IInv, Types, LanesOK
    <3>3. Main \in Lanes /\ Sessions \subseteq Lanes
      BY DEF Lanes
    <3>4. \A l \in Lanes : pre[l] = NextGeneration(lanes[l])
      OBVIOUS
    <3>5. pre \in [Lanes -> LaneType]
      BY <3>2, Refreshed
    <3> HIDE DEF pre
    <3>6. MainOK(pre[Main], turn)
      <4>1. lanes[Main] \in LaneType
        BY <3>2, <3>3
      <4>2. NextGeneration(lanes[Main]) \in LaneType
            /\ NextGeneration(lanes[Main]).queue = lanes[Main].queue
        BY <4>1, Refreshed
      <4> QED
        BY <3>2, <3>3, <3>4, <4>2 DEF MainOK
    <3>7. ASSUME NEW s \in Sessions PROVE SessionOK(s, pre[s], turn, outerGen)
      <4>1. SessionOK(s, NextGeneration(lanes[s]), turn, outerGen)
        BY <3>2, RefreshedSession
      <4> QED
        BY <4>1, <3>3, <3>4
    <3>8. LanesOK(pre, turn, outerGen)
      BY <3>6, <3>7 DEF LanesOK
    <3> QED
      BY <3>1, <3>2, <3>5, <3>8, LaunchKeeps
  <2>2. CASE loop # "parked"
    <3>1. UNCHANGED <<lanes, turn, outerGen, innerGen>>
      BY <2>2 DEF ResumeAndReset
    <3> QED
      BY <3>1 DEF IInv, Types
  <2> QED
    BY <2>1, <2>2
<1>6. LanesOK(lanes, turn, outerGen)'
  BY <1>5
<1> QED
  BY <1>1, <1>3, <1>4, <1>5, <1>6 DEF IInv

\* Handles are entered and removed by their own attempts.
LEMMA RegistryKept ==
    ASSUME IInv, NEW r \in Runs, Register(r) \/ Unregister(r)
    PROVE  Registered'
<1> USE DEF Registered, RegistryOfSession, RegistryLive, NoForgottenWaiter
<1>1. /\ attempt \subseteq Runs /\ registry \in [Sessions -> Runs \cup {NoRun}]
      /\ waiting \subseteq Sessions
      /\ \A s \in Sessions : registry[s] # NoRun =>
            SessionOf[registry[s]] = s /\ registry[s] \in attempt
      /\ \A s \in waiting : registry[s] # NoRun
  BY DEF IInv
<1>2. CASE Register(r)
  BY <1>1, <1>2 DEF Register
<1>3. CASE Unregister(r)
  <2>1. CASE registry[SessionOf[r]] = r
    BY <1>1, <1>3, <2>1 DEF Unregister
  <2>2. CASE registry[SessionOf[r]] # r
    <3>1. attempt' = attempt \ {r} /\ UNCHANGED <<registry, waiting>>
      BY <1>3, <2>2 DEF Unregister
    <3>2. \A s \in Sessions : registry[s] # NoRun => registry[s] # r
      BY <1>1, <2>2
    <3> QED
      BY <1>1, <3>1, <3>2
  <2> QED
    BY <2>1, <2>2
<1> QED
  BY <1>2, <1>3

LEMMA NextKeeps == IInv /\ [Next]_vars => IInv'
<1> SUFFICES ASSUME IInv, [Next]_vars PROVE IInv'
  OBVIOUS
<1>1. [LoopNext]_loopVars
  BY StepOfLoop
<1>2. ASSUME UNCHANGED <<attempt, registry, waiting>> PROVE Registered'
  BY <1>2 DEF IInv, Registered, RegistryOfSession, RegistryLive, NoForgottenWaiter
<1>3. ASSUME NEW r \in Runs, Submit(r) \/ EndBody(r) \/ EndTurn(r) PROVE IInv'
  <2>1. LanesKept
    BY <1>3, SubmitKeeps, EndBodyKeeps, EndTurnKeeps
  <2>2. UNCHANGED <<loopVars, attempt, registry, waiting, drain>>
    BY <1>3 DEF Submit, EndBody, EndTurn
  <2> QED
    BY <1>2, <2>1, <2>2, LanesStep
<1>4. ASSUME NEW r \in Runs, Register(r) \/ Unregister(r) PROVE IInv'
  <2>1. UNCHANGED <<loopVars, lanes, turn, outerGen, innerGen, drain>>
    BY <1>4 DEF Register, Unregister
  <2> QED
    BY <1>4, <2>1, RegistryKept, RegistryStep
<1>5. ASSUME NEW s \in Sessions, AwaitRunEnd(s) \/ AwaitTimeout(s) PROVE IInv'
  <2>1. UNCHANGED <<loopVars, lanes, turn, outerGen, innerGen, attempt, registry, drain>>
    BY <1>5 DEF AwaitRunEnd, AwaitTimeout
  <2>2. Registered'
    BY <1>5, <2>1 DEF AwaitRunEnd, AwaitTimeout, IInv, Registered, RegistryOfSession,
                      RegistryLive, NoForgottenWaiter
  <2> QED
    BY <2>1, <2>2, RegistryStep
<1>6. CASE Restart
  BY <1>1, <1>6, RestartStep
<1>7. CASE TasksAnswer \/ RunsAnswer
  BY <1>7, AnswerStep
<1>8. CASE DrainAnswered
  <2>1. UNCHANGED agentVars /\ Window
    BY <1>8 DEF DrainAnswered, EndDrain, Window, IInv, Marked
  <2> QED
    BY <1>1, <2>1, LoopOnlyStep
<1>9. CASE ResumeAndReset
  BY <1>1, <1>9, ResumeStep
<1>10. CASE LoopOnly /\ UNCHANGED agentVars
  <2>1. Window' => Window
    <3> USE DEF Window
    <3>0. shutdown \in Shutdowns
      BY DEF IInv, Marked
    <3>1. CASE LoopStep \/ ForceExit \/ Rival
      BY <3>1 DEF LoopStep, StartOk, StartFail, LoopRemovesLock, LoopForgetsLock,
                  ForceExit, Rival
    <3>2. CASE RemoveLock
      <4>1. shutdown' = [shutdown EXCEPT !.stage = "released"]
        BY <3>2 DEF RemoveLock
      <4>2. shutdown'.stage = "released"
        BY <3>0, <4>1 DEF Shutdowns
      <4> QED
        BY <4>2
    <3>3. CASE ForgetLock \/ SkipLock
      <4>1. PICK hadLock \in BOOLEAN : AfterRelease(hadLock)
        BY <3>3 DEF ForgetLock, SkipLock
      <4>2. \/ shutdown' = shutdown
            \/ shutdown' = [shutdown EXCEPT !.stage = IF hadLock THEN "locking" ELSE "ready"]
        BY <4>1 DEF AfterRelease
      <4> QED
        BY <3>0, <4>2 DEF Shutdowns
    <3>4. CASE Relock
      BY <3>0, <3>4 DEF Relock, Shutdowns
    <3>5. CASE RequestStop
      BY <3>5 DEF RequestStop, ToClose
    <3>6. CASE CloseServer
      BY <3>0, <3>6 DEF CloseServer, Shutdowns
    <3> QED
      BY <1>10, <3>1, <3>2, <3>3, <3>4, <3>5, <3>6 DEF LoopOnly, Release
  <2> QED
    BY <1>1, <1>10, <2>1, LoopOnlyStep
<1>11. CASE UNCHANGED vars
  BY <1>1, <1>11, LoopOnlyStep DEF vars, loopVars, Window
<1> QED
  BY <1>3, <1>4, <1>5, <1>6, <1>7, <1>8, <1>9, <1>10, <1>11 DEF Next, AgentStep

LEMMA Inductive == Spec => []IInv
BY InitHolds, NextKeeps, PTL DEF Spec

-----------------------------------------------------------------------------
(* The theorems. *)

\* Lanes, turns, registry and waiters agree about every run, however many
\* restarts abandoned runs (runs.ts, command-queue.ts, run.ts), and within a
\* lifecycle a session has one run at work at the most.
THEOREM RunsAgreed == Spec => []RunsAgree
<1>1. ASSUME IInv PROVE RunsAgree
  <2>1. /\ MainOK(lanes[Main], turn)
        /\ \A s \in Sessions : SessionOK(s, lanes[s], turn, outerGen)
        /\ \A r \in Runs : SessionOf[r] \in Sessions
    BY <1>1 DEF IInv, LanesOK
  <2>2. ExclusiveInLifecycle
    BY <2>1 DEF ExclusiveInLifecycle, Working, SessionOK, Engaged
  <2>3. NestingConsistent
    <3>1. ASSUME NEW r \in Runs
          PROVE  /\ turn[r] = "inner" <=>
                      \E i \in DOMAIN lanes[Main].queue : lanes[Main].queue[i] = r
                 /\ turn[r] = "outer" <=>
                      \E i \in DOMAIN lanes[SessionOf[r]].queue :
                         lanes[SessionOf[r]].queue[i] = r
      <4>1. turn[r] = "inner" <=> r \in Members(lanes[Main].queue)
        BY <2>1 DEF MainOK
      <4>2. turn[r] = "outer" <=> r \in Members(lanes[SessionOf[r]].queue)
        BY <2>1 DEF SessionOK
      <4> QED
        BY <4>1, <4>2 DEF Members
    <3>2. \A s \in Sessions : \A r \in lanes[s].active : turn[r] \in {"inner", "body", "over"}
      BY <2>1 DEF SessionOK, Engaged
    <3> QED
      BY <3>1, <3>2 DEF NestingConsistent
  <2> QED
    BY <1>1, <2>2, <2>3 DEF RunsAgree, IInv, Registered
<1> QED
  BY <1>1, Inductive, PTL

\* A run's handle leaves the registry when its own attempt ends or another one
\* replaces it (clearActiveEmbeddedRun's comparison, runs.ts).
THEOREM HandlesOwn == Spec => OwnHandleOnly
<1>1. ASSUME IInv, [Next]_vars
      PROVE  [\A s \in Sessions : registry[s] # NoRun /\ registry'[s] = NoRun =>
                 registry[s] \notin attempt']_vars
  <2>1. CASE registry' = registry
    BY <2>1
  <2>2. ASSUME NEW r \in Runs, Register(r) \/ Unregister(r)
        PROVE  \A s \in Sessions : registry[s] # NoRun /\ registry'[s] = NoRun =>
                  registry[s] \notin attempt'
    BY <1>1, <2>2 DEF Register, Unregister, IInv, Registered
  <2>3. registry' = registry \/ \E r \in Runs : Register(r) \/ Unregister(r)
    BY <1>1 DEF Next, AgentStep, Submit, EndBody, EndTurn, AwaitRunEnd, AwaitTimeout,
                Restart, TasksAnswer, RunsAnswer, DrainAnswered, ResumeAndReset,
                vars, agentVars
  <2> QED
    BY <2>1, <2>2, <2>3
<1> QED
  BY <1>1, Inductive, PTL DEF Spec, OwnHandleOnly

\* When both waits of a restart succeeded (run-loop.ts), no run works that a
\* session lane started in this lifecycle.
THEOREM DrainQuiet == Spec => []DrainedMeansQuiet
<1>1. ASSUME IInv PROVE DrainedMeansQuiet
  <2> SUFFICES ASSUME ReportedDrained, NEW r \in Runs, turn[r] = "body"
               PROVE  outerGen[r] < lanes[SessionOf[r]].generation
    BY DEF DrainedMeansQuiet, Working
  <2>1. Window /\ drain.tasks = "drained"
    BY DEF ReportedDrained, Window
  <2>2. outerGen[r] # lanes[SessionOf[r]].generation
    BY <1>1, <2>1 DEF IInv, DrainTells
  <2>3. SessionOK(SessionOf[r], lanes[SessionOf[r]], turn, outerGen)
    BY <1>1 DEF IInv, LanesOK
  <2>4. outerGen[r] <= lanes[SessionOf[r]].generation
    BY <2>3 DEF SessionOK, Engaged
  <2>5. outerGen[r] \in Nat /\ lanes[SessionOf[r]].generation \in Nat
    BY <1>1, <2>3 DEF IInv, Types, SessionOK, LaneType
  <2> QED
    BY <2>2, <2>4, <2>5
<1> QED
  BY <1>1, Inductive, PTL

\* Each step of the composition is a step of the run loop or leaves it alone:
\* what holds of the loop alone holds of it here.
THEOREM ImplementsLoop == Spec => LoopSpec
<1>1. Init => LoopInit
  BY DEF Init
<1>2. [Next]_vars => [LoopNext]_loopVars
  BY StepOfLoop
<1> QED
  BY <1>1, <1>2, PTL DEF Spec, LoopSpec

-----------------------------------------------------------------------------
(* The run loop by itself.  HandleIsOurs is inductive once the types are   *)
(* known: two release paths, the handler's and the loop's, may overlap, and*)
(* each removes the file while the handle is still set; the stages its     *)
(* guard excludes are just those between the removal and the forgetting.   *)

LoopInv == LoopTypeOK /\ HandleIsOurs

USE RunLoopAssumption DEF RunLoopAssumption

LEMMA LoopInitHolds == LoopInit => LoopInv
<1> SUFFICES ASSUME LoopInit PROVE LoopInv
  OBVIOUS
<1>1. NoShutdown \in [action : {"none", "stop", "restart"},
                     stage : {"none", "draining", "closing", "releasing", "released",
                              "unlocked", "locking", "ready"}]
  BY DEF NoShutdown
<1>2. 0 \in 0..MaxSignals
  OBVIOUS
<1>3. LoopTypeOK
  BY <1>1, <1>2 DEF LoopInit, LoopTypeOK
<1> QED
  BY <1>3 DEF LoopInit, LoopInv, HandleIsOurs

\* The loop removes the file and forgets the handle in stages that the
\* invariant's guard excludes, and starts are no concern of the lock.
LEMMA LoopStepKeeps ==
    ASSUME LoopInv, LoopStep
    PROVE  LoopInv'
<1> USE DEF LoopInv, LoopTypeOK, HandleIsOurs, Alive
<1>1. CASE StartOk
  BY <1>1 DEF StartOk
<1>2. CASE StartFail
  BY <1>2 DEF StartFail
<1>3. CASE LoopRemovesLock
  BY <1>3 DEF LoopRemovesLock
<1>4. CASE LoopForgetsLock
  BY <1>4 DEF LoopForgetsLock
<1> QED
  BY <1>1, <1>2, <1>3, <1>4 DEF LoopStep

\* A stage of the same shutdown is a shutdown.
LEMMA StageTyped ==
    ASSUME NEW s \in Shutdowns,
           NEW t \in {"none", "draining", "closing", "releasing", "released",
                      "unlocked", "locking", "ready"}
    PROVE  [s EXCEPT !.stage = t] \in Shutdowns /\ [s EXCEPT !.stage = t].stage = t
BY DEF Shutdowns

\* A request closes the server, or goes on to the release of the lock.
LEMMA ToCloseTyped ==
    ASSUME NEW a \in {"stop", "restart"}, LoopTypeOK, ToClose(a)
    PROVE  shutdown' \in Shutdowns /\ server' \in {"none", "up"}
BY DEF ToClose, LoopTypeOK, Shutdowns

LEMMA RequestKeeps ==
    ASSUME LoopInv, NEW busy \in BOOLEAN, RequestStop \/ RequestRestart(busy) \/ EndDrain
    PROVE  LoopInv'
<1>1. UNCHANGED <<loop, isFirstStart, listening, lock, lockFile>>
  BY DEF RequestStop, RequestRestart, EndDrain
<1>2. shutdown' \in Shutdowns /\ server' \in {"none", "up"}
  <2>1. [action |-> "restart", stage |-> "draining"] \in Shutdowns
    BY DEF Shutdowns
  <2> QED
    BY <2>1, ToCloseTyped DEF LoopInv, LoopTypeOK, RequestStop, RequestRestart, EndDrain
<1>3. signals' \in 0..MaxSignals /\ gatewayDraining' \in BOOLEAN
  <2>1. \/ signals' = signals + 1 /\ signals < MaxSignals
        \/ signals' = signals
    BY DEF RequestStop, RequestRestart, EndDrain
  <2>2. gatewayDraining' = gatewayDraining \/ gatewayDraining' = TRUE
    BY DEF RequestStop, RequestRestart, EndDrain
  <2>3. signals \in 0..MaxSignals /\ gatewayDraining \in BOOLEAN
    BY DEF LoopInv, LoopTypeOK
  <2>4. signals' \in 0..MaxSignals
    BY <2>1, <2>3
  <2> QED
    BY <2>2, <2>3, <2>4
<1>4. shutdown.stage \notin {"releasing", "released"}
  BY DEF RequestStop, RequestRestart, EndDrain, ShuttingDown, NoShutdown
<1> QED
  BY <1>1, <1>2, <1>3, <1>4 DEF LoopInv, LoopTypeOK, HandleIsOurs, Shutdowns, Alive

LEMMA CloseKeeps ==
    ASSUME LoopInv, CloseServer \/ ForceExit \/ Resume
    PROVE  LoopInv'
<1> USE DEF LoopInv, LoopTypeOK, HandleIsOurs, Alive
<1>1. CASE CloseServer
  <2>1. shutdown' \in Shutdowns
    BY <1>1, StageTyped DEF CloseServer, Shutdowns
  <2>2. listening' \in BOOLEAN
    BY <1>1 DEF CloseServer
  <2> QED
    BY <1>1, <2>1, <2>2 DEF CloseServer, Shutdowns
<1>2. CASE ForceExit
  BY <1>2 DEF ForceExit, Exit
<1>3. CASE Resume
  BY <1>3 DEF Resume, NoShutdown
<1> QED
  BY <1>1, <1>2, <1>3

\* The handle is forgotten before anything else happens after a release, and
\* taken only together with the file.
LEMMA ReleaseKeeps ==
    ASSUME LoopInv, Release
    PROVE  LoopInv'
<1> USE DEF LoopInv, LoopTypeOK, HandleIsOurs, Alive
<1>0. shutdown \in Shutdowns
  BY DEF Shutdowns
<1>1. CASE RemoveLock
  <2>1. shutdown' \in Shutdowns /\ shutdown'.stage = "released"
    BY <1>0, <1>1, StageTyped DEF RemoveLock
  <2> QED
    BY <1>1, <2>1 DEF RemoveLock, Shutdowns
<1>2. CASE ForgetLock
  <2>1. shutdown' \in Shutdowns
    BY <1>0, <1>2, StageTyped DEF ForgetLock, AfterRelease
  <2> QED
    BY <1>2, <2>1 DEF ForgetLock, AfterRelease, Exit, Shutdowns
<1>3. CASE SkipLock
  <2>1. shutdown' \in Shutdowns
    BY <1>0, <1>3, StageTyped DEF SkipLock, AfterRelease
  <2> QED
    BY <1>3, <2>1 DEF SkipLock, AfterRelease, Exit, Shutdowns
<1>4. CASE Relock
  <2>1. shutdown' \in Shutdowns
    BY <1>0, <1>4, StageTyped DEF Relock
  <2> QED
    BY <1>4, <2>1 DEF Relock, Exit, Shutdowns
<1> QED
  BY <1>1, <1>2, <1>3, <1>4 DEF Release

\* Every step of the loop, its handler and the rival keeps the invariant.
LEMMA LoopNextKeeps ==
    ASSUME LoopInv, [LoopNext]_loopVars
    PROVE  LoopInv'
<1>1. CASE Rival
  BY <1>1 DEF Rival, LoopInv, LoopTypeOK, HandleIsOurs, Alive
<1>2. CASE UNCHANGED loopVars
  BY <1>2 DEF loopVars, LoopInv, LoopTypeOK, HandleIsOurs, Alive
<1>3. CASE \E busy \in BOOLEAN : RequestStop \/ RequestRestart(busy) \/ EndDrain
  BY <1>3, RequestKeeps
<1>4. CASE LoopStep \/ Release \/ Resume \/ CloseServer \/ ForceExit
  BY <1>4, LoopStepKeeps, ReleaseKeeps, CloseKeeps
<1> QED
  BY <1>1, <1>2, <1>3, <1>4 DEF LoopNext

\* The run loop by itself keeps the types and the handle.
THEOREM LoopInvariance == LoopSpec => []LoopInv
BY LoopInitHolds, LoopNextKeeps, PTL DEF LoopSpec

\* Lanes, turns, generations, handles, waiters, waits and the loop's own
\* variables have their types.
THEOREM TypeCorrect == Spec => []TypeOK
<1>1. IInv => AgentTypeOK
  BY DEF IInv, Types, Registered, DrainType, LaneType, Turns, AgentTypeOK
<1>2. LoopInv /\ AgentTypeOK => TypeOK
  BY DEF LoopInv, TypeOK
<1> QED
  BY <1>1, <1>2, Inductive, ImplementsLoop, LoopInvariance, PTL

\* Whatever runs, lanes and waiters do across restarts, outside a release the
\* lock handle stands for a file this process wrote.
THEOREM HandleKept == Spec => []HandleIsOurs
<1>1. LoopInv => HandleIsOurs
  BY DEF LoopInv
<1> QED
  BY <1>1, ImplementsLoop, LoopInvariance, PTL

-----------------------------------------------------------------------------
(* The scheduler in front of it. *)

LEMMA EmitIsRequest == Emit => (\E busy \in BOOLEAN : RequestRestart(busy)) \/ UNCHANGED loopVars
BY DEF Emit

LEMMA EveryStepIsLoopStep == [SchedulerNext]_schedulerVars => [LoopNext]_loopVars
<1>1. CASE Loop
  BY <1>1 DEF Loop, LoopNext
<1>2. CASE Schedule \/ Cool \/ UNCHANGED schedulerVars
  BY <1>2 DEF Schedule, Cool, schedulerVars
<1>3. CASE TimerFires \/ WatcherRequest \/ \E p \in Polls : PollFires(p)
  <2>1. Emit \/ UNCHANGED loopVars
    BY <1>3 DEF TimerFires, Defer, WatcherRequest, PollFires
  <2> QED
    BY <2>1, EmitIsRequest DEF LoopNext
<1> SUFFICES ASSUME [SchedulerNext]_schedulerVars PROVE [LoopNext]_loopVars
  OBVIOUS
<1> QED
  BY <1>1, <1>2, <1>3 DEF SchedulerNext

\* Timers, deferrals, cooldown and watchers add nothing to what the run loop
\* may do: the scheduler implements the loop, its requests being signals.
THEOREM SchedulerImplementsLoop == SchedulerSpec => LoopSpec
BY EveryStepIsLoopStep, PTL DEF SchedulerSpec, SchedulerInit, LoopSpec

\* Whatever asks for restarts, and whatever a rival gateway does, outside a
\* release the lock handle stands for a file this process wrote.
THEOREM SchedulerKeepsHandle == SchedulerSpec => []HandleIsOurs
<1>1. LoopInv => HandleIsOurs
  BY DEF LoopInv
<1> QED
  BY <1>1, SchedulerImplementsLoop, LoopInvariance, PTL

LEMMA TimersTyped ==
    ASSUME timer \in BOOLEAN, cooling \in BOOLEAN, [SchedulerNext]_schedulerVars
    PROVE  timer' \in BOOLEAN /\ cooling' \in BOOLEAN
BY DEF SchedulerNext, Loop, Schedule, TimerFires, WatcherRequest, Cool, PollFires, Defer, Emit,
       schedulerVars, timingVars

LEMMA PollsTyped ==
    ASSUME poll \in [Polls -> {"none", "scheduled", "watcher", "old"}],
           [SchedulerNext]_schedulerVars
    PROVE  poll' \in [Polls -> {"none", "scheduled", "watcher", "old"}]
BY DEF SchedulerNext, Loop, Schedule, TimerFires, WatcherRequest, Cool, PollFires, Defer,
       schedulerVars, timingVars

\* The state keeps its type for any bound on signals and any deferrals.
THEOREM SchedulerTypeCorrect == SchedulerSpec => []SchedulerTypeOK
<1> DEFINE Own == /\ timer \in BOOLEAN /\ cooling \in BOOLEAN
                  /\ poll \in [Polls -> {"none", "scheduled", "watcher", "old"}]
<1>1. SchedulerInit => Own
  BY DEF SchedulerInit
<1>2. Own /\ [SchedulerNext]_schedulerVars => Own'
  BY TimersTyped, PollsTyped
<1>3. LoopInv /\ Own => SchedulerTypeOK
  BY DEF LoopInv, SchedulerTypeOK
<1> QED
  BY <1>1, <1>2, <1>3, SchedulerImplementsLoop, LoopInvariance, PTL DEF SchedulerSpec
==============================================================================
