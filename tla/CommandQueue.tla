---------------------------- MODULE CommandQueue ----------------------------
(***************************************************************************)
(* The in-process command queue of src/process/command-queue.ts: lanes of  *)
(* queued commands with a concurrency limit each, the draining flag set    *)
(* before a gateway restart, the reset after it, and the wait for active   *)
(* tasks the restart uses.  JavaScript runs each handler to completion, so *)
(* every exported function, and every continuation of a task, is one step. *)
(***************************************************************************)
EXTENDS LaneState

CONSTANTS
    Lanes,          \* lane names
    Entries,        \* calls of enqueueCommandInLane
    LaneOf,         \* the lane each call names
    Requests,       \* limits passed to setCommandLaneConcurrency
    MaxGeneration   \* bound: resets of the lanes in one behaviour

ASSUME QueueAssumption ==
    /\ LaneOf \in [Entries -> Lanes]
    /\ IsFiniteSet(Entries)
    /\ Requests \subseteq Int
    /\ MaxGeneration \in Nat

VARIABLES
    gatewayDraining,  \* queueState.gatewayDraining
    lanes,            \* queueState.lanes
    phase,            \* what became of each call: the life of its promise
    taskGeneration,   \* the generation captured when the call's task started
    waiter            \* the one caller of waitForActiveTasks

vars == <<gatewayDraining, lanes, phase, taskGeneration, waiter>>

Settled == {"resolved", "rejected", "cleared", "refused"}
Phases  == {"idle", "queued", "running"} \cup Settled

Init ==
    /\ gatewayDraining = FALSE
    /\ lanes = [l \in Lanes |-> NewLane]
    /\ phase = [e \in Entries |-> "idle"]
    /\ taskGeneration = [e \in Entries |-> 0]
    /\ waiter = [status |-> "idle", activeAtStart |-> {}]

-----------------------------------------------------------------------------
\* drainLane on lane l once its record is s: the pump runs, and the tasks it
\* takes off the queue start with the lane's generation.  `was` gives the
\* phases the handler itself sets.
DrainLane(l, s, was) ==
    /\ lanes' = [lanes EXCEPT ![l] = Pump(s)]
    /\ phase' = [e \in Entries |->
                    IF e \in Startable(s) THEN "running" ELSE was[e]]
    /\ taskGeneration' = [e \in Entries |->
                    IF e \in Startable(s) THEN s.generation ELSE taskGeneration[e]]

\* enqueueCommandInLane: refused while the gateway drains, else queued and
\* started at once if its lane has room.
Enqueue(e) ==
    /\ phase[e] = "idle"
    /\ \/ /\ gatewayDraining
          /\ phase' = [phase EXCEPT ![e] = "refused"]
          /\ UNCHANGED <<lanes, taskGeneration>>
       \/ /\ ~gatewayDraining
          /\ DrainLane(LaneOf[e], WithEntry(lanes[LaneOf[e]], e),
                       [phase EXCEPT ![e] = "queued"])
    /\ UNCHANGED <<gatewayDraining, waiter>>

\* Mutant: the continuation of a task forgets pump().
CompleteWithoutPump(e) ==
    /\ phase[e] = "running"
    /\ \E outcome \in {"resolved", "rejected"} : phase' = [phase EXCEPT ![e] = outcome]
    /\ lanes' = [lanes EXCEPT ![LaneOf[e]] = WithoutTask(@, e, taskGeneration[e])]
    /\ UNCHANGED <<gatewayDraining, taskGeneration, waiter>>

\* A task's promise settles: completeTask, then the pump if the task belongs
\* to the lane's current generation, then the caller's promise.
Complete(e) ==
    /\ phase[e] = "running"
    /\ \E outcome \in {"resolved", "rejected"} :
         LET l == LaneOf[e]
             s == lanes[l]
             p == [phase EXCEPT ![e] = outcome]
         IN  IF taskGeneration[e] = s.generation
             THEN DrainLane(l, WithoutTask(s, e, taskGeneration[e]), p)
             ELSE phase' = p /\ UNCHANGED <<lanes, taskGeneration>>
    /\ UNCHANGED <<gatewayDraining, waiter>>

\* setCommandLaneConcurrency clamps the limit to at least 1 and pumps.
SetConcurrency(l, n) ==
    /\ DrainLane(l, WithLimit(lanes[l], n), phase)
    /\ UNCHANGED <<gatewayDraining, waiter>>

\* clearCommandLane rejects what is queued and leaves active tasks alone.
ClearLane(l) ==
    /\ lanes' = [lanes EXCEPT ![l] = Emptied(lanes[l])]
    /\ phase' = [e \in Entries |->
                    IF phase[e] = "queued" /\ LaneOf[e] = l THEN "cleared" ELSE phase[e]]
    /\ UNCHANGED <<gatewayDraining, taskGeneration, waiter>>

MarkGatewayDraining ==
    /\ gatewayDraining' = TRUE
    /\ UNCHANGED <<lanes, phase, taskGeneration, waiter>>

\* Mutant: resetAllLanes leaves the preserved entries to a future enqueue.
ResetWithoutDrain ==
    /\ \A l \in Lanes : lanes[l].generation < MaxGeneration
    /\ gatewayDraining' = FALSE
    /\ lanes' = [l \in Lanes |-> NextGeneration(lanes[l])]
    /\ UNCHANGED <<phase, taskGeneration, waiter>>

\* resetAllLanes: every lane moves to its next generation with nothing
\* active, then the lanes that still hold entries are drained.
ResetAllLanes ==
    LET fresh   == [l \in Lanes |-> NextGeneration(lanes[l])]
        started == UNION {Startable(fresh[l]) : l \in Lanes}
    IN  /\ \A l \in Lanes : lanes[l].generation < MaxGeneration
        /\ gatewayDraining' = FALSE
        /\ lanes' = [l \in Lanes |-> Pump(fresh[l])]
        /\ phase' = [e \in Entries |-> IF e \in started THEN "running" ELSE phase[e]]
        /\ taskGeneration' = [e \in Entries |->
               IF e \in started THEN fresh[LaneOf[e]].generation ELSE taskGeneration[e]]
        /\ UNCHANGED waiter

ActiveTasks == UNION {lanes[l].active : l \in Lanes}

\* waitForActiveTasks takes its snapshot; an empty one resolves at once.
StartWait ==
    /\ waiter.status # "waiting"
    /\ waiter' = [status |-> IF ActiveTasks = {} THEN "drained" ELSE "waiting",
                  activeAtStart |-> ActiveTasks]
    /\ UNCHANGED <<gatewayDraining, lanes, phase, taskGeneration>>

\* Mutant: the poll gives up as soon as one task of the snapshot has ended.
PollAny ==
    /\ waiter.status = "waiting"
    /\ waiter' = [waiter EXCEPT !.status =
           IF waiter.activeAtStart \subseteq ActiveTasks THEN "timedOut" ELSE "drained"]
    /\ UNCHANGED <<gatewayDraining, lanes, phase, taskGeneration>>

\* The poll that resolves the wait: nothing of the snapshot is active any
\* more, or something is and the deadline has passed.
PollWait ==
    /\ waiter.status = "waiting"
    /\ waiter' = [waiter EXCEPT !.status =
           IF waiter.activeAtStart \cap ActiveTasks = {} THEN "drained" ELSE "timedOut"]
    /\ UNCHANGED <<gatewayDraining, lanes, phase, taskGeneration>>

Next ==
    \/ \E e \in Entries : Enqueue(e) \/ Complete(e)
    \/ \E l \in Lanes : ClearLane(l) \/ \E n \in Requests : SetConcurrency(l, n)
    \/ MarkGatewayDraining
    \/ ResetAllLanes
    \/ StartWait
    \/ PollWait

Spec == Init /\ [][Next]_vars

\* A task of the current generation ends: agent runs, cron jobs and
\* compactions carry a timeout.  A task abandoned by a reset may hang for ever
\* ("interrupted tasks' finally blocks may not run"), and nothing else is
\* assumed to happen.
CompleteCurrent(e) == taskGeneration[e] = lanes[LaneOf[e]].generation /\ Complete(e)

FairSpec == Spec /\ \A e \in Entries : WF_vars(CompleteCurrent(e))

-----------------------------------------------------------------------------
TypeOK ==
    /\ gatewayDraining \in BOOLEAN
    /\ lanes \in [Lanes -> [queue : Seq(Entries), active : SUBSET Entries,
                            maxConcurrent : Nat \ {0}, generation : Nat]]
    /\ phase \in [Entries -> Phases]
    /\ taskGeneration \in [Entries -> Nat]
    /\ waiter \in [status : {"idle", "waiting", "drained", "timedOut"},
                   activeAtStart : SUBSET Entries]

\* A call waiting for its turn is in the queue of its own lane, once, and
\* nothing else is: no interleaving of clears, resets and completions loses
\* an accepted call or queues it twice.
QueuedOnce ==
    \A l \in Lanes :
      LET q == lanes[l].queue
      IN  /\ \A i, j \in DOMAIN q : q[i] = q[j] => i = j
          /\ {q[i] : i \in DOMAIN q} =
               {e \in Entries : LaneOf[e] = l /\ phase[e] = "queued"}

\* activeTaskIds holds exactly the tasks of the current generation whose
\* body has not ended: a slot is neither leaked nor freed while in use.
RunningAccounted ==
    \A l \in Lanes :
      lanes[l].active =
        {e \in Entries : /\ LaneOf[e] = l /\ phase[e] = "running"
                         /\ taskGeneration[e] = lanes[l].generation}

\* No lost wakeup: between handlers a lane with queued entries is at its
\* limit (the condition drainLane warns about, "active=0 queue=n", is never
\* left behind by a completion, a reset or a new limit).
NoIdleBacklog ==
    \A l \in Lanes :
      lanes[l].queue # <<>> => Cardinality(lanes[l].active) >= lanes[l].maxConcurrent

\* waitForActiveTasks answers "drained" only when every task of its snapshot
\* has ended, or was abandoned by a reset of its lane.
DrainedMeansEnded ==
    waiter.status = "drained" =>
      \A e \in waiter.activeAtStart :
        phase[e] = "running" => taskGeneration[e] < lanes[LaneOf[e]].generation

\* A step that starts a task leaves its lane within the limit in force, even
\* when the limit was lowered below the number of tasks already active.
StartsWithinLimit ==
    [][\A e \in Entries :
         phase[e] # "running" /\ phase'[e] = "running" =>
           LET s == lanes'[LaneOf[e]] IN Cardinality(s.active) <= s.maxConcurrent]_vars

\* e came to its lane before f, and is still waiting for its turn.
Ahead(e, f) ==
    /\ LaneOf[e] = LaneOf[f]
    /\ phase[e] = "queued"
    /\ \/ phase[f] = "idle"
       \/ LET q == lanes[LaneOf[e]].queue IN
            \E i, j \in DOMAIN q : i < j /\ q[i] = e /\ q[j] = f

\* Lanes are FIFO: while e waits ahead of f, no step lets f start or moves f
\* before it; f can only be cleared or refused.
StartsInOrder ==
    [][\A e, f \in Entries :
         Ahead(e, f) => \/ Ahead(e, f)'
                        \/ phase'[e] # "queued"
                        \/ phase'[f] \in {"cleared", "refused"}]_vars

\* Every accepted call starts or is cleared, through any number of resets,
\* clears and limit changes, provided only that the tasks of the current
\* generation end: those a reset abandoned do not hold the lane up.
AcceptedStarts == \A e \in Entries : phase[e] = "queued" ~> phase[e] # "queued"
=============================================================================
