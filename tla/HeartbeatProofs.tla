--------------------------- MODULE HeartbeatProofs ---------------------------
(***************************************************************************)
(* Proofs about Heartbeat for any targets, slots and bounds.               *)
(*                                                                         *)
(* The inductive invariant relates a callback to the batch it took: what   *)
(* is left to do, and the wake it awaits, come from the batch, so putting  *)
(* one of them or the whole batch back loses nothing.                      *)
(***************************************************************************)
EXTENDS Heartbeat, FiniteSetTheorems, TLAPS

\* What a callback has to do is what its batch says.
TodoOfBatch ==
    \A s \in InFlight : \A t \in Targets :
        callback[s].todo[t] # None => callback[s].todo[t] = callback[s].batch[t]

\* The wake it awaits is of its batch.
CurrentOfBatch ==
    \A s \in InFlight :
        callback[s].current # None => callback[s].batch[callback[s].current] # None

\* While the flag is down, every callback in flight is of a runner that was
\* replaced while it ran.
FlagCounts == Cardinality(InFlight) <= overlaps + (IF running THEN 1 ELSE 0)

\* A registered runner was started.
LiveStarted == live => life > 0

IInv ==
    /\ TypeOK /\ LiveStarted
    /\ TodoOfBatch /\ CurrentOfBatch
    /\ FlagCounts /\ UrgentIsKept /\ ChainHolds

-----------------------------------------------------------------------------
USE HeartbeatAssumption DEF HeartbeatAssumption

\* The slots in flight are among finitely many.
LEMMA InFlightFinite ==
    /\ IsFiniteSet(InFlight) /\ Cardinality(InFlight) \in Nat
    /\ InFlight \subseteq Slots
<1>1. InFlight \subseteq Slots
  BY DEF InFlight
<1> QED
  BY <1>1, FS_Subset, FS_CardinalityType

\* A callback in flight is a record, with wakes in its fields.
LEMMA CallbackType ==
    ASSUME TypeOK, NEW s \in Slots, callback[s] # None
    PROVE  /\ callback[s] \in Callbacks
           /\ callback[s].life \in 1..MaxLives
           /\ callback[s].batch \in Wakes /\ callback[s].todo \in Wakes
           /\ callback[s].current \in Targets \cup {None}
<1>1. callback[s] \in Callbacks
  BY DEF TypeOK
<1> QED
  BY <1>1 DEF Callbacks

\* Queueing wakes gives wakes, keeps what was urgent and loses no target.
LEMMA QueuedWakes ==
    ASSUME TypeOK, NEW wakes \in Wakes
    PROVE  /\ Queued(wakes) \in Wakes
           /\ \A t \in Targets :
                /\ pending[t] = "action" \/ wakes[t] = "action" => Queued(wakes)[t] = "action"
                /\ pending[t] # None \/ wakes[t] # None => Queued(wakes)[t] # None
  BY DEF TypeOK, Wakes, Queued, Reasons

\* A single wake.
LEMMA OneWake ==
    ASSUME NEW t \in Targets, NEW reason \in Reasons \cup {None}
    PROVE  /\ One(t, reason) \in Wakes
           /\ One(t, reason)[t] = reason
           /\ \A x \in Targets \ {t} : One(t, reason)[x] = None
  BY DEF One, NoWakes, Wakes

\* No wakes are wakes.
LEMMA NoWakesType == NoWakes \in Wakes /\ \A t \in Targets : NoWakes[t] = None
  BY DEF NoWakes, Wakes

\* Two different sets of wakes, one of them empty, differ on a target.
LEMMA SomeWake ==
    ASSUME NEW wakes \in Wakes
    PROVE  wakes # NoWakes <=> \E t \in Targets : wakes[t] # None
  BY DEF NoWakes, Wakes

-----------------------------------------------------------------------------
\* Nothing is pending or in flight at first.
LEMMA InitHolds == Init => IInv
<1> SUFFICES ASSUME Init PROVE IInv
  OBVIOUS
<1>1. InFlight = {}
  BY DEF Init, InFlight
<1>2. Cardinality(InFlight) = 0
  BY <1>1, FS_EmptySet
<1>3. TypeOK
  <2>1. callback \in [Slots -> {None} \cup Callbacks]
    BY DEF Init
  <2>2. life \in 0..MaxLives /\ throws \in 0..MaxThrows
    BY DEF Init
  <2> QED
    BY <2>1, <2>2, NoWakesType DEF Init, TypeOK
<1> QED
  BY <1>1, <1>2, <1>3
  DEF Init, IInv, LiveStarted, TodoOfBatch, CurrentOfBatch, FlagCounts, UrgentIsKept, ChainHolds

\* Every step preserves the types.
LEMMA TypeStep == TypeOK /\ LiveStarted /\ [Next]_vars => TypeOK' /\ LiveStarted'
<1> SUFFICES ASSUME TypeOK, LiveStarted, [Next]_vars PROVE TypeOK' /\ LiveStarted'
  OBVIOUS
<1>0. /\ pending \in Wakes /\ life \in 0..MaxLives /\ (live => life \in 1..MaxLives)
      /\ callback \in [Slots -> {None} \cup Callbacks]
  BY DEF TypeOK, LiveStarted
<1>a. ASSUME NEW wakes \in Wakes, Requeue(wakes)
      PROVE  pending' \in Wakes /\ timer' \in BOOLEAN /\ urgent' \subseteq Targets
  BY <1>a, QueuedWakes DEF Requeue, TypeOK, Urgent
<1>1. ASSUME NEW t \in Targets, Request(t) PROVE TypeOK' /\ LiveStarted'
  BY <1>1, <1>a, OneWake DEF Request, Reasons, runnerVars, TypeOK, LiveStarted
<1>2. CASE IntervalFires
  BY <1>2, <1>a, OneWake DEF IntervalFires, Reasons, runnerVars, TypeOK, LiveStarted
<1>3. CASE FireUnhandled
  BY <1>3 DEF FireUnhandled, runnerVars, TypeOK, LiveStarted
<1>4. CASE FireRunning
  BY <1>4 DEF FireRunning, runnerVars, TypeOK, LiveStarted
<1>5. ASSUME NEW s \in Slots, Fire(s) PROVE TypeOK' /\ LiveStarted'
  <2> DEFINE cb == [life |-> life, batch |-> pending, todo |-> pending, current |-> None]
  <2>1. cb \in Callbacks
    BY <1>0, <1>5 DEF Fire, Callbacks
  <2>2. callback' \in [Slots -> {None} \cup Callbacks]
    BY <1>0, <1>5, <2>1 DEF Fire, Take
  <2> QED
    BY <1>5, <2>2, NoWakesType DEF Fire, Take, runnerVars, TypeOK, LiveStarted
<1>6. ASSUME NEW s \in Slots, NEW t \in Targets, Begin(s, t) PROVE TypeOK' /\ LiveStarted'
  <2> DEFINE Left == [callback[s] EXCEPT !.todo[t] = None]
             Taken == [Left EXCEPT !.current = t]
  <2>1. callback[s] \in Callbacks
    BY <1>6, CallbackType DEF Begin
  <2>2. [callback[s].todo EXCEPT ![t] = None] \in Wakes
    BY <2>1 DEF Callbacks, Wakes
  <2>3. Left \in Callbacks /\ Taken \in Callbacks
    BY <2>1, <2>2 DEF Callbacks
  <2>4. callback' \in [Slots -> {None} \cup Callbacks]
    <3> HIDE DEF Left
    <3>1. callback' = [callback EXCEPT ![s] = Left] \/ callback' = [callback EXCEPT ![s] = Taken]
      BY <1>6 DEF Begin, Left
    <3> QED
      BY <1>0, <2>3, <3>1
  <2>5. armed' \in BOOLEAN /\ missed' \in BOOLEAN
    BY <1>6 DEF Begin, ScheduleNext, TypeOK
  <2> QED
    BY <1>6, <2>4, <2>5 DEF Begin, runnerVars, TypeOK, LiveStarted
<1>7. ASSUME NEW s \in Slots, Ran(s) PROVE TypeOK' /\ LiveStarted'
  <2>1. [callback[s] EXCEPT !.current = None] \in Callbacks
    BY <1>7, CallbackType DEF Ran, Callbacks
  <2>2. callback' \in [Slots -> {None} \cup Callbacks]
    BY <1>0, <1>7, <2>1 DEF Ran
  <2> QED
    BY <1>7, <2>2 DEF Ran, ScheduleNext, runnerVars, TypeOK, LiveStarted
<1>8. ASSUME NEW s \in Slots, Busy(s) PROVE TypeOK' /\ LiveStarted'
  <2>1. [callback[s] EXCEPT !.current = None] \in Callbacks
    BY <1>8, CallbackType DEF Busy, Callbacks
  <2>2. callback' \in [Slots -> {None} \cup Callbacks]
    BY <1>0, <1>8, <2>1 DEF Busy
  <2>3. callback[s].batch \in Wakes /\ callback[s].current \in Targets
    BY <1>8, CallbackType DEF Busy
  <2>4. callback[s].batch[callback[s].current] \in Reasons \cup {None}
    BY <2>3 DEF Wakes
  <2>5. One(callback[s].current, callback[s].batch[callback[s].current]) \in Wakes
    BY <2>3, <2>4, OneWake
  <2>6. pending' \in Wakes /\ timer' \in BOOLEAN /\ urgent' \subseteq Targets
    BY <1>8, <1>a, <2>5 DEF Busy
  <2> QED
    BY <1>8, <2>2, <2>6 DEF Busy, ScheduleNext, runnerVars, TypeOK, LiveStarted
<1>9. ASSUME NEW s \in Slots, Throw(s) PROVE TypeOK' /\ LiveStarted'
  <2>1. pending' \in Wakes /\ timer' \in BOOLEAN /\ urgent' \subseteq Targets
    <3>1. callback[s].batch \in Wakes
      BY <1>9, CallbackType DEF Throw
    <3> QED
      BY <1>9, <1>a, <3>1 DEF Throw
  <2>2. callback' \in [Slots -> {None} \cup Callbacks]
    BY <1>0, <1>9 DEF Throw
  <2>3. throws' \in 0..MaxThrows
    BY <1>9 DEF Throw, TypeOK
  <2> QED
    BY <1>9, <2>1, <2>2, <2>3 DEF Throw, runnerVars, TypeOK, LiveStarted
<1>10. ASSUME NEW s \in Slots, End(s) PROVE TypeOK' /\ LiveStarted'
  <2>1. callback' \in [Slots -> {None} \cup Callbacks] /\ timer' \in BOOLEAN
    BY <1>0, <1>10 DEF End
  <2> QED
    BY <1>10, <2>1 DEF End, runnerVars, TypeOK, LiveStarted
<1>11. CASE Start
  <2>1. life' \in 0..MaxLives /\ life' > 0 /\ overlaps' \in Nat
    BY <1>11 DEF Start, NewRunner, TypeOK
  <2>2. timer' \in BOOLEAN /\ running' \in BOOLEAN /\ scheduled' \in BOOLEAN
    BY <1>11 DEF Start
  <2>3. pending' = pending /\ callback' = callback /\ urgent' = urgent
        /\ enabled' = enabled /\ throws' = throws
        /\ live' = TRUE /\ agents' \in BOOLEAN /\ armed' \in BOOLEAN /\ missed' = FALSE
    BY <1>11 DEF Start, NewRunner
  <2> QED
    <3>1. TypeOK'
      BY <2>1, <2>2, <2>3 DEF TypeOK
    <3> QED
      BY <2>1, <3>1 DEF LiveStarted
<1>12. CASE Stop
  BY <1>12 DEF Stop, wakeVars, TypeOK, LiveStarted
<1>13. CASE UpdateConfig
  BY <1>13 DEF UpdateConfig, wakeVars, TypeOK, LiveStarted
<1>14. CASE SetHeartbeats
  BY <1>14 DEF SetHeartbeats, wakeVars, runnerVars, TypeOK, LiveStarted
<1>15. CASE UNCHANGED vars
  BY <1>15 DEF vars, wakeVars, runnerVars, TypeOK, LiveStarted
<1> QED
  BY <1>1, <1>2, <1>3, <1>4, <1>5, <1>6, <1>7, <1>8, <1>9, <1>10, <1>11, <1>12, <1>13, <1>14, <1>15
  DEF Next, CallbackStep

\* A callback changes by a step of its own, and only Fire makes one.
LEMMA CallbackChanges ==
    ASSUME TypeOK, [Next]_vars, NEW x \in Slots, callback'[x] # callback[x]
    PROVE  \/ Fire(x) /\ callback'[x] = [life |-> life, batch |-> pending,
                                         todo |-> pending, current |-> None]
           \/ \E t \in Targets : Begin(x, t)
           \/ (Ran(x) \/ Busy(x)) /\ callback'[x] = [callback[x] EXCEPT !.current = None]
           \/ (Throw(x) \/ End(x)) /\ callback'[x] = None
<1>1. callback \in [Slots -> {None} \cup Callbacks]
  BY DEF TypeOK
<1>2. /\ \A s \in Slots : Fire(s) => s = x
      /\ \A s \in Slots : CallbackStep(s) \/ Throw(s) => s = x
  <2>1. ASSUME NEW s \in Slots, s # x, Fire(s) PROVE FALSE
    BY <1>1, <2>1 DEF Fire, Take
  <2>2. ASSUME NEW s \in Slots, s # x, Ran(s) \/ Busy(s) \/ Throw(s) \/ End(s) PROVE FALSE
    BY <1>1, <2>2 DEF Ran, Busy, Throw, End
  <2>3. ASSUME NEW s \in Slots, s # x, NEW t \in Targets, Begin(s, t) PROVE FALSE
    BY <1>1, <2>3 DEF Begin
  <2> QED
    BY <2>1, <2>2, <2>3 DEF CallbackStep
<1>3. ~(UNCHANGED callback)
  OBVIOUS
<1>4. Fire(x) \/ CallbackStep(x) \/ Throw(x)
  BY <1>2, <1>3 DEF Next, vars, wakeVars, Request, IntervalFires, FireUnhandled, FireRunning,
     Start, NewRunner, Stop, UpdateConfig, SetHeartbeats
<1>5. Fire(x) => callback'[x] = [life |-> life, batch |-> pending,
                                 todo |-> pending, current |-> None]
  BY <1>1 DEF Fire, Take
<1>6. Ran(x) \/ Busy(x) => callback'[x] = [callback[x] EXCEPT !.current = None]
  BY <1>1 DEF Ran, Busy
<1>7. Throw(x) \/ End(x) => callback'[x] = None
  BY <1>1 DEF Throw, End
<1> QED
  BY <1>4, <1>5, <1>6, <1>7 DEF CallbackStep

\* What Begin leaves of a callback.
LEMMA BeginLeaves ==
    ASSUME TypeOK, NEW s \in Slots, NEW t \in Targets, Begin(s, t)
    PROVE  /\ callback[s] # None /\ callback[s].current = None /\ callback[s].todo[t] # None
           /\ callback'[s] # None
           /\ callback'[s].life = callback[s].life
           /\ callback'[s].batch = callback[s].batch
           /\ \A u \in Targets :
                callback'[s].todo[u] = IF u = t THEN None ELSE callback[s].todo[u]
           /\ callback'[s].current \in {None, t}
           /\ \A x \in Slots \ {s} : callback'[x] = callback[x]
<1> DEFINE Left == [callback[s] EXCEPT !.todo[t] = None]
           Taken == [Left EXCEPT !.current = t]
<1>1. callback \in [Slots -> {None} \cup Callbacks] /\ callback[s] \in Callbacks
  BY CallbackType DEF Begin, TypeOK
<1>2. callback[s] # None /\ callback[s].current = None /\ callback[s].todo[t] # None
  BY DEF Begin
<1>3. /\ Left.life = callback[s].life /\ Left.batch = callback[s].batch
      /\ Left.todo = [callback[s].todo EXCEPT ![t] = None] /\ Left.current = None
  BY <1>1, <1>2 DEF Callbacks
<1>4. /\ Taken.life = callback[s].life /\ Taken.batch = callback[s].batch
      /\ Taken.todo = [callback[s].todo EXCEPT ![t] = None] /\ Taken.current = t
  BY <1>1, <1>2 DEF Callbacks
<1>5. callback' = [callback EXCEPT ![s] = Left] \/ callback' = [callback EXCEPT ![s] = Taken]
  BY DEF Begin
<1>6. callback'[s] # None
  <2>1. [callback[s].todo EXCEPT ![t] = None] \in Wakes
    BY <1>1 DEF Callbacks, Wakes
  <2>2. Left \in Callbacks /\ Taken \in Callbacks
    BY <1>1, <2>1 DEF Callbacks
  <2> HIDE DEF Left, Taken
  <2> QED
    BY <1>1, <1>5, <2>2, NoneAssumption
<1>7. \A u \in Targets : [callback[s].todo EXCEPT ![t] = None][u]
                            = IF u = t THEN None ELSE callback[s].todo[u]
  BY <1>1 DEF Callbacks, Wakes
<1> HIDE DEF Left, Taken
<1>8. /\ callback'[s] = Left \/ callback'[s] = Taken
      /\ \A x \in Slots \ {s} : callback'[x] = callback[x]
  BY <1>1, <1>5
<1>9. CASE callback'[s] = Left
  BY <1>2, <1>3, <1>6, <1>7, <1>8, <1>9
<1>10. CASE callback'[s] = Taken
  BY <1>2, <1>4, <1>6, <1>7, <1>8, <1>10
<1> QED
  BY <1>8, <1>9, <1>10

\* A record that only forgets its current wake.
LEMMA CurrentForgotten ==
    ASSUME TypeOK, NEW s \in Slots, callback[s] # None,
           callback'[s] = [callback[s] EXCEPT !.current = None]
    PROVE  /\ callback'[s] # None /\ callback'[s].life = callback[s].life
           /\ callback'[s].batch = callback[s].batch
           /\ callback'[s].todo = callback[s].todo /\ callback'[s].current = None
<1>1. callback[s] \in Callbacks
  BY CallbackType
<1>2. [callback[s] EXCEPT !.current = None] \in Callbacks
  BY <1>1 DEF Callbacks
<1> QED
  BY <1>1, <1>2, NoneAssumption DEF Callbacks

\* Every step preserves the relation of a callback and its batch.
LEMMA BatchStep ==
    TypeOK /\ TodoOfBatch /\ CurrentOfBatch /\ [Next]_vars => TodoOfBatch' /\ CurrentOfBatch'
<1> SUFFICES ASSUME TypeOK, TodoOfBatch, CurrentOfBatch, [Next]_vars,
                    NEW x \in Slots, callback'[x] # None
             PROVE  /\ \A t \in Targets : callback'[x].todo[t] # None =>
                          callback'[x].todo[t] = callback'[x].batch[t]
                    /\ callback'[x].current # None =>
                          callback'[x].batch[callback'[x].current] # None
  BY DEF TodoOfBatch, CurrentOfBatch, InFlight
<1>1. callback[x] # None =>
         /\ \A t \in Targets : callback[x].todo[t] # None =>
              callback[x].todo[t] = callback[x].batch[t]
         /\ callback[x].current # None => callback[x].batch[callback[x].current] # None
  BY DEF TodoOfBatch, CurrentOfBatch, InFlight
<1>2. CASE callback'[x] = callback[x]
  BY <1>1, <1>2
<1>3. CASE callback'[x] = [life |-> life, batch |-> pending,
                           todo |-> pending, current |-> None]
  BY <1>3
<1>4. ASSUME NEW t \in Targets, Begin(x, t)
      PROVE  /\ \A u \in Targets : callback'[x].todo[u] # None =>
                   callback'[x].todo[u] = callback'[x].batch[u]
             /\ callback'[x].current # None =>
                   callback'[x].batch[callback'[x].current] # None
  <2>1. /\ callback[x] # None /\ callback[x].todo[t] # None
        /\ callback'[x].batch = callback[x].batch
        /\ \A u \in Targets :
             callback'[x].todo[u] = IF u = t THEN None ELSE callback[x].todo[u]
        /\ callback'[x].current \in {None, t}
    BY <1>4, BeginLeaves
  <2> QED
    BY <1>1, <2>1
<1>5. CASE callback[x] # None /\ callback'[x] = [callback[x] EXCEPT !.current = None]
  BY <1>1, <1>5, CurrentForgotten
<1> QED
  BY <1>2, <1>3, <1>4, <1>5, CallbackChanges DEF Ran, Busy

\* Every step keeps urgent wakes.
LEMMA UrgentStep ==
    TypeOK /\ LiveStarted /\ TodoOfBatch /\ UrgentIsKept /\ [Next]_vars => UrgentIsKept'
<1> SUFFICES ASSUME TypeOK, LiveStarted, TodoOfBatch, UrgentIsKept, [Next]_vars,
                    NEW t \in urgent', pending'[t] # "action"
             PROVE  \E s \in Slots : callback'[s] # None /\ callback'[s].todo[t] = "action"
  BY DEF UrgentIsKept, InFlight
<1> DEFINE Held(s) == callback[s] # None /\ callback[s].todo[t] = "action"
<1>1. t \in urgent =>
         t \in Targets /\ (pending[t] = "action" \/ \E s \in Slots : Held(s))
  BY DEF UrgentIsKept, InFlight, TypeOK
<1>2. ASSUME NEW wakes \in Wakes, Requeue(wakes)
      PROVE  t \in urgent /\ pending[t] # "action" /\ wakes[t] # "action"
  <2>1. t \in Targets
    BY <1>1, <1>2 DEF Requeue, Urgent
  <2>2. pending[t] # "action" /\ wakes[t] # "action"
    BY <1>2, <2>1, QueuedWakes DEF Requeue
  <2> QED
    BY <1>2, <2>2 DEF Requeue, Urgent
<1>3. CASE /\ UNCHANGED callback
           /\ \/ UNCHANGED <<pending, urgent>>
              \/ \E wakes \in Wakes : Requeue(wakes)
  <2>1. \E s \in Slots : Held(s)
    BY <1>1, <1>2, <1>3
  <2> QED
    BY <1>3, <2>1
<1>4. ASSUME NEW s \in Slots, Fire(s)
      PROVE  \E x \in Slots : callback'[x] # None /\ callback'[x].todo[t] = "action"
  <2> DEFINE cb == [life |-> life, batch |-> pending, todo |-> pending, current |-> None]
  <2>1. callback' = [callback EXCEPT ![s] = cb] /\ callback[s] = None /\ urgent' = urgent
    BY <1>4 DEF Fire, Take
  <2>2. cb \in Callbacks
    BY <1>4 DEF Callbacks, TypeOK, LiveStarted, Fire
  <2>3. callback'[s] = cb /\ \A x \in Slots \ {s} : callback'[x] = callback[x]
    BY <2>1 DEF TypeOK
  <2>4. cb # None /\ cb.todo = pending
    BY <2>2, NoneAssumption
  <2> HIDE DEF cb
  <2> QED
    BY <1>1, <2>1, <2>3, <2>4
<1>5. ASSUME NEW s \in Slots, NEW u \in Targets, Begin(s, u)
      PROVE  \E x \in Slots : callback'[x] # None /\ callback'[x].todo[t] = "action"
  <2>1. t \in urgent /\ t # u /\ pending[t] # "action"
    BY <1>5 DEF Begin
  <2>2. /\ callback'[s] # None
        /\ \A v \in Targets :
             callback'[s].todo[v] = IF v = u THEN None ELSE callback[s].todo[v]
        /\ \A x \in Slots \ {s} : callback'[x] = callback[x]
    BY <1>5, BeginLeaves
  <2> QED
    BY <1>1, <2>1, <2>2
<1>6. ASSUME NEW s \in Slots, Ran(s) \/ Busy(s)
      PROVE  \E x \in Slots : callback'[x] # None /\ callback'[x].todo[t] = "action"
  <2>1. callback' = [callback EXCEPT ![s] = [callback[s] EXCEPT !.current = None]]
        /\ callback[s] # None
    BY <1>6 DEF Ran, Busy
  <2>2. callback'[s] = [callback[s] EXCEPT !.current = None]
        /\ \A x \in Slots \ {s} : callback'[x] = callback[x]
    BY <2>1 DEF TypeOK
  <2>3. callback'[s] # None /\ callback'[s].todo = callback[s].todo
    BY <2>1, <2>2, CurrentForgotten
  <2>4. t \in urgent /\ pending[t] # "action"
    <3>1. CASE Ran(s)
      BY <3>1 DEF Ran
    <3>2. CASE Busy(s)
      <4>1. callback[s].batch \in Wakes /\ callback[s].current \in Targets
        BY <3>2, CallbackType DEF Busy
      <4>2. One(callback[s].current, callback[s].batch[callback[s].current]) \in Wakes
        BY <4>1, OneWake DEF Wakes
      <4> QED
        BY <1>2, <3>2, <4>2 DEF Busy
    <3> QED
      BY <1>6, <3>1, <3>2
  <2> QED
    BY <1>1, <2>2, <2>3, <2>4
<1>7. ASSUME NEW s \in Slots, Throw(s) \/ End(s)
      PROVE  \E x \in Slots : callback'[x] # None /\ callback'[x].todo[t] = "action"
  <2>1. callback[s] # None /\ \A x \in Slots \ {s} : callback'[x] = callback[x]
    BY <1>7 DEF Throw, End, TypeOK
  <2>2. t \in urgent /\ pending[t] # "action" /\ ~Held(s)
    <3>1. CASE Throw(s)
      <4>1. callback[s].batch \in Wakes /\ Requeue(callback[s].batch)
        BY <3>1, CallbackType DEF Throw
      <4>2. t \in urgent /\ pending[t] # "action" /\ callback[s].batch[t] # "action"
        BY <1>2, <4>1
      <4>3. callback[s].todo[t] # None => callback[s].todo[t] = callback[s].batch[t]
        BY <1>1, <2>1, <4>2 DEF TodoOfBatch, InFlight
      <4> QED
        BY <4>2, <4>3
    <3>2. CASE End(s)
      BY <1>1, <3>2, NoWakesType DEF End
    <3> QED
      BY <1>7, <3>1, <3>2
  <2> QED
    BY <1>1, <2>1, <2>2
<1>8. One(All, "interval") \in Wakes /\ \A u \in Targets : One(u, "action") \in Wakes
  BY OneWake DEF Reasons
<1> QED
  BY <1>3, <1>4, <1>5, <1>6, <1>7, <1>8
  DEF Next, CallbackStep, vars, wakeVars, Request, IntervalFires, FireUnhandled, FireRunning,
      Start, NewRunner, Stop, UpdateConfig, SetHeartbeats

\* A wake put back is pending, or one of a later request is.
LEMMA RequeuePends ==
    ASSUME TypeOK, NEW wakes \in Wakes, NEW t \in Targets, wakes[t] # None, Requeue(wakes)
    PROVE  pending' # NoWakes
<1>1. pending'[t] # None
  BY QueuedWakes DEF Requeue
<1> QED
  BY <1>1, NoWakesType

\* The batch of an awaited wake, put back, is pending.
LEMMA AwaitedPends ==
    ASSUME TypeOK, CurrentOfBatch, NEW s \in Slots, Busy(s) \/ Throw(s)
    PROVE  pending' # NoWakes
<1>1. /\ callback[s].current \in Targets /\ callback[s].batch \in Wakes
      /\ callback[s].batch[callback[s].current] # None
  BY CallbackType DEF Busy, Throw, CurrentOfBatch, InFlight
<1>2. CASE Throw(s)
  BY <1>1, <1>2, RequeuePends DEF Throw
<1>3. CASE Busy(s)
  <2> DEFINE t == callback[s].current
  <2>1. callback[s].batch[t] \in Reasons \cup {None}
    BY <1>1 DEF Wakes
  <2>2. One(t, callback[s].batch[t]) \in Wakes /\ One(t, callback[s].batch[t])[t] # None
    BY <1>1, <2>1, OneWake
  <2>3. Requeue(One(t, callback[s].batch[t]))
    BY <1>3 DEF Busy
  <2> HIDE DEF t
  <2> QED
    BY <1>1, <2>2, <2>3, RequeuePends DEF t
<1> QED
  BY <1>2, <1>3

\* Begin with the current runner arms the timer, awaits a heartbeat, or notes
\* that heartbeats are disabled or no agent has them.
LEMMA BeginChains ==
    ASSUME TypeOK, NEW s \in Slots, NEW t \in Targets, Begin(s, t), agents, ~missed'
    PROVE  \/ armed'
           \/ Current(s) /\ callback'[s].current = t
           \/ ~Current(s) /\ armed' = armed /\ ~missed
<1>1. CASE Current(s) /\ callback' = [callback EXCEPT ![s] =
               [[callback[s] EXCEPT !.todo[t] = None] EXCEPT !.current = t]]
  <2> DEFINE Left == [callback[s] EXCEPT !.todo[t] = None]
  <2>1. callback[s] \in Callbacks
    BY CallbackType DEF Begin
  <2>2. [Left EXCEPT !.current = t].current = t
    BY <2>1 DEF Callbacks
  <2> HIDE DEF Left
  <2>3. callback'[s] = [Left EXCEPT !.current = t]
    BY <1>1 DEF TypeOK, Left
  <2> QED
    BY <1>1, <2>2, <2>3
<1>2. CASE Current(s) /\ ~(callback' = [callback EXCEPT ![s] =
               [[callback[s] EXCEPT !.todo[t] = None] EXCEPT !.current = t]])
  BY <1>2 DEF Begin, ScheduleNext, TypeOK
<1>3. CASE ~Current(s)
  BY <1>3 DEF Begin, TypeOK
<1> QED
  BY <1>1, <1>2, <1>3

\* Every step keeps the chain of heartbeats.
LEMMA ChainStep ==
    TypeOK /\ LiveStarted /\ CurrentOfBatch /\ ChainHolds /\ [Next]_vars => ChainHolds'
<1> DEFINE Handling(s) ==
               /\ callback[s] # None /\ callback[s].life = life
               /\ callback[s].current # None \/ callback[s].todo # NoWakes
<1> SUFFICES ASSUME TypeOK, LiveStarted, CurrentOfBatch, ChainHolds, [Next]_vars,
                    live', agents', ~missed', ~armed', pending' = NoWakes
             PROVE  \E s \in Slots : Handling(s)'
  BY DEF ChainHolds, WakeOnItsWay, InFlight, Current
<1>1. live /\ agents /\ ~missed /\ ~armed /\ pending = NoWakes => \E s \in Slots : Handling(s)
  BY DEF ChainHolds, WakeOnItsWay, InFlight, Current
<1>2. CASE UNCHANGED <<callback, life, live, agents, missed, armed, pending>>
  BY <1>1, <1>2
<1>3. ASSUME NEW wakes \in Wakes, NEW t \in Targets, wakes[t] # None, Requeue(wakes) PROVE FALSE
  BY <1>3, RequeuePends
<1>4. (\E t \in Targets : Request(t)) \/ IntervalFires => FALSE
  <2>1. \A t \in Targets : One(t, "action") \in Wakes /\ One(t, "action")[t] # None
    BY OneWake DEF Reasons
  <2>2. One(All, "interval") \in Wakes /\ One(All, "interval")[All] # None
    BY OneWake DEF Reasons
  <2> QED
    BY <1>3, <2>1, <2>2 DEF Request, IntervalFires
<1>5. ASSUME NEW s \in Slots, Fire(s) PROVE \E x \in Slots : Handling(x)'
  <2> DEFINE cb == [life |-> life, batch |-> pending, todo |-> pending, current |-> None]
  <2>1. callback' = [callback EXCEPT ![s] = cb] /\ callback[s] = None
        /\ UNCHANGED <<life, live, agents, armed, missed>>
    BY <1>5 DEF Fire, Take, runnerVars
  <2>2. cb \in Callbacks
    BY <1>5 DEF Callbacks, TypeOK, LiveStarted, Fire
  <2>3. callback'[s] = cb /\ \A x \in Slots \ {s} : callback'[x] = callback[x]
    BY <2>1 DEF TypeOK
  <2>4. cb # None /\ cb.todo = pending /\ cb.life = life
    BY <2>2, NoneAssumption
  <2> HIDE DEF cb
  <2>5. CASE pending # NoWakes
    BY <2>1, <2>3, <2>4, <2>5
  <2>6. CASE pending = NoWakes
    <3>1. PICK x \in Slots : Handling(x)
      BY <1>1, <2>1, <2>6
    <3> QED
      BY <2>1, <2>3, <3>1
  <2> QED
    BY <2>5, <2>6
<1>6. ASSUME NEW s \in Slots, NEW t \in Targets, Begin(s, t)
      PROVE  \E x \in Slots : Handling(x)'
  <2>1. UNCHANGED <<pending, life, live, agents>>
    BY <1>6 DEF Begin, runnerVars
  <2>2. CASE Current(s) /\ callback'[s].current = t
    BY <1>6, <2>1, <2>2, BeginLeaves DEF Current
  <2>3. CASE ~Current(s) /\ armed' = armed /\ ~missed
    <3>1. PICK x \in Slots : Handling(x)
      BY <1>1, <2>1, <2>3
    <3>2. x # s
      BY <2>1, <2>3, <3>1 DEF Current
    <3> QED
      BY <1>6, <2>1, <3>1, <3>2, BeginLeaves
  <2> QED
    BY <1>6, <2>1, <2>2, <2>3, BeginChains
<1>7. ASSUME NEW s \in Slots, Ran(s) PROVE \E x \in Slots : Handling(x)'
  <2>1. /\ UNCHANGED <<pending, life, live, agents>>
        /\ \A x \in Slots \ {s} : callback'[x] = callback[x]
    BY <1>7 DEF Ran, runnerVars, TypeOK
  <2>2. ~Current(s) /\ armed' = armed /\ missed' = missed
    BY <1>7, <2>1 DEF Ran, ScheduleNext
  <2>3. PICK x \in Slots : Handling(x)
    BY <1>1, <2>1, <2>2
  <2>4. x # s
    BY <2>1, <2>2, <2>3 DEF Current
  <2> QED
    BY <2>1, <2>3, <2>4
<1>8. ASSUME NEW s \in Slots, Busy(s) \/ Throw(s) PROVE FALSE
  BY <1>8, AwaitedPends
<1>9. ASSUME NEW s \in Slots, End(s) PROVE \E x \in Slots : Handling(x)'
  <2>1. /\ UNCHANGED <<pending, life, live, agents, armed, missed>>
        /\ callback[s].current = None /\ callback[s].todo = NoWakes
        /\ \A x \in Slots \ {s} : callback'[x] = callback[x]
    BY <1>9 DEF End, runnerVars, TypeOK
  <2>2. PICK x \in Slots : Handling(x)
    BY <1>1, <2>1
  <2> QED
    BY <2>1, <2>2
<1>10. ~Start /\ ~UpdateConfig /\ ~Stop /\ ~FireUnhandled
  BY DEF Start, NewRunner, UpdateConfig, Stop, FireUnhandled, runnerVars
<1>11. CASE FireRunning \/ SetHeartbeats \/ UNCHANGED vars
  <2>1. UNCHANGED <<callback, life, live, agents, missed, armed, pending>>
    BY <1>11 DEF FireRunning, SetHeartbeats, vars, wakeVars, runnerVars
  <2> QED
    BY <1>2, <2>1
<1> QED
  BY <1>4, <1>5, <1>6, <1>7, <1>8, <1>9, <1>10, <1>11 DEF Next, CallbackStep

\* Every step keeps the count of callbacks and flag.
LEMMA FlagStep == TypeOK /\ FlagCounts /\ [Next]_vars => FlagCounts'
<1> SUFFICES ASSUME TypeOK, FlagCounts, [Next]_vars PROVE FlagCounts'
  OBVIOUS
<1>0. /\ overlaps \in Nat /\ running \in BOOLEAN
      /\ callback \in [Slots -> {None} \cup Callbacks]
  BY DEF TypeOK
<1>1. CASE UNCHANGED <<callback, overlaps, running>>
  BY <1>1 DEF FlagCounts, InFlight
<1>2. ASSUME NEW s \in Slots, Fire(s) PROVE FlagCounts'
  <2>1. callback[s] = None /\ ~running /\ running' = TRUE /\ overlaps' = overlaps
    BY <1>2 DEF Fire, Take, runnerVars
  <2>2. \A x \in Slots \ {s} : callback'[x] = callback[x]
    BY <1>0, <1>2 DEF Fire, Take
  <2>3. InFlight' \subseteq InFlight \cup {s} /\ s \notin InFlight
    BY <2>1, <2>2 DEF InFlight
  <2>4. Cardinality(InFlight \cup {s}) = Cardinality(InFlight) + 1
        /\ IsFiniteSet(InFlight \cup {s})
    BY <2>3, InFlightFinite, FS_AddElement
  <2>5. Cardinality(InFlight') <= Cardinality(InFlight) + 1 /\ Cardinality(InFlight') \in Nat
    BY <2>3, <2>4, FS_Subset, FS_CardinalityType
  <2> QED
    BY <1>0, <2>1, <2>5, InFlightFinite DEF FlagCounts
<1>3. ASSUME NEW s \in Slots, (\E t \in Targets : Begin(s, t)) \/ Ran(s) \/ Busy(s)
      PROVE  FlagCounts'
  <2>1. running' = running /\ overlaps' = overlaps
    BY <1>3 DEF Begin, Ran, Busy, runnerVars
  <2>2. callback[s] # None /\ \A x \in Slots \ {s} : callback'[x] = callback[x]
    BY <1>0, <1>3, BeginLeaves DEF Ran, Busy
  <2>3. InFlight' \subseteq InFlight
    BY <2>2 DEF InFlight
  <2>4. Cardinality(InFlight') <= Cardinality(InFlight) /\ Cardinality(InFlight') \in Nat
    BY <2>3, InFlightFinite, FS_Subset, FS_CardinalityType
  <2> QED
    BY <1>0, <2>1, <2>4, InFlightFinite DEF FlagCounts
<1>4. ASSUME NEW s \in Slots, Throw(s) \/ End(s) PROVE FlagCounts'
  <2>1. running' = FALSE /\ overlaps' = overlaps /\ callback[s] # None
    BY <1>4 DEF Throw, End, runnerVars
  <2>2. callback'[s] = None /\ \A x \in Slots \ {s} : callback'[x] = callback[x]
    BY <1>0, <1>4 DEF Throw, End
  <2>3. InFlight' = InFlight \ {s} /\ s \in InFlight
    BY <2>1, <2>2 DEF InFlight
  <2>4. Cardinality(InFlight') = Cardinality(InFlight) - 1
    BY <2>3, InFlightFinite, FS_RemoveElement
  <2> QED
    BY <1>0, <2>1, <2>4, InFlightFinite DEF FlagCounts
<1>5. CASE Start
  <2>1. running' = FALSE /\ overlaps' = (IF InFlight = {} THEN overlaps ELSE overlaps + 1)
        /\ InFlight' = InFlight
    BY <1>5 DEF Start, NewRunner, InFlight
  <2> QED
    BY <1>0, <2>1, InFlightFinite, FS_EmptySet DEF FlagCounts
<1> QED
  BY <1>1, <1>2, <1>3, <1>4, <1>5
  DEF Next, CallbackStep, vars, wakeVars, runnerVars, Request, IntervalFires, FireUnhandled,
      FireRunning, Stop, UpdateConfig, SetHeartbeats

-----------------------------------------------------------------------------
\* The inductive invariant holds of every behaviour.
THEOREM Invariance == Spec => []IInv
<1>1. IInv /\ [Next]_vars => IInv'
  BY TypeStep, BatchStep, UrgentStep, ChainStep, FlagStep DEF IInv
<1> QED
  BY <1>1, InitHolds, PTL DEF Spec

\* Variables keep their types.
THEOREM TypeCorrect == Spec => []TypeOK
  BY Invariance, PTL DEF IInv

\* No urgent wake is lost or demoted before a handler was called with it: not
\* by a busy lane, a throw, an overlapping callback or a restart.
THEOREM UrgentKept == Spec => []UrgentIsKept
  BY Invariance, PTL DEF IInv

\* The chain of periodic heartbeats breaks only by a wake while they are
\* disabled.
THEOREM ChainKept == Spec => []ChainHolds
  BY Invariance, PTL DEF IInv

\* Callbacks overlap only by as many restarts as found one in flight.
THEOREM HeartbeatsCounted == Spec => []OneHeartbeat
<1>1. IInv => OneHeartbeat
  <2> SUFFICES ASSUME IInv PROVE OneHeartbeat
    OBVIOUS
  <2>1. overlaps \in Nat /\ FlagCounts
    BY DEF IInv, TypeOK
  <2> QED
    BY <2>1, InFlightFinite DEF FlagCounts, OneHeartbeat
<1> QED
  BY <1>1, Invariance, PTL
=============================================================================
