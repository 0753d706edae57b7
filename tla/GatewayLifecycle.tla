--------------------------- MODULE GatewayLifecycle ---------------------------
(***************************************************************************)
(* Agent runs across restarts: the composition of the run loop (RunLoop),  *)
(* the command queue's lanes (LaneState) and the registry of active        *)
(* embedded runs of src/agents/pi-embedded-runner/runs.ts.                 *)
(*                                                                         *)
(* runEmbeddedPiAgent nests two lanes: the task on the session's lane is   *)
(* the call that queues the run itself on the main lane, and it ends when  *)
(* that one does.  A run is its own entry in both lanes.                   *)
(***************************************************************************)
EXTENDS RunLoop, LaneState

CONSTANTS
    Sessions, Runs, SessionOf,
    Main,       \* the global lane
    MainLimit,  \* agents.defaults.maxConcurrent
    NoRun

ASSUME LifecycleAssumption ==
    /\ SessionOf \in [Runs -> Sessions]
    /\ IsFiniteSet(Runs)
    /\ Main \notin Sessions /\ NoRun \notin Runs
    /\ MainLimit \in Nat \ {0}

VARIABLES
    lanes,     \* the session lanes and the main lane
    turn,      \* where each run is
    outerGen,  \* generation its task on the session lane captured
    innerGen,  \* generation its task on the main lane captured
    attempt,   \* runs between setActiveEmbeddedRun and clearActiveEmbeddedRun
    registry,  \* ACTIVE_EMBEDDED_RUNS: the run whose handle is registered
    waiting,   \* sessions somebody awaits in waitForEmbeddedPiRunEnd
    drain      \* the restart's two waits

agentVars == <<lanes, turn, outerGen, innerGen, attempt, registry, waiting, drain>>
vars == <<loopVars, agentVars>>

Lanes == Sessions \cup {Main}

NoDrain == [snapshot |-> {}, tasks |-> "drained", runs |-> "drained"]

Init ==
    /\ LoopInit
    /\ lanes = [l \in Lanes |-> [NewLane EXCEPT !.maxConcurrent =
                                    IF l = Main THEN MainLimit ELSE 1]]
    /\ turn = [r \in Runs |-> "new"]
    /\ outerGen = [r \in Runs |-> 0]
    /\ innerGen = [r \in Runs |-> 0]
    /\ attempt = {}
    /\ registry = [s \in Sessions |-> NoRun]
    /\ waiting = {}
    /\ drain = NoDrain

-----------------------------------------------------------------------------
\* The arrangements of a finite set: session lanes are drained one after the
\* other, in the order their lanes were created.
Orders(S) == {q \in [1..Cardinality(S) -> S] : \A i, j \in DOMAIN q : q[i] = q[j] => i = j}

\* The lanes of some sessions and the main lane are pumped, after a handler
\* left all lanes as in pre.  Each run a session lane starts calls
\* enqueueCommandInLane for the main lane at once: refused while the gateway
\* drains, so that the run is over, else queued.
Launch(pumped, pre, was, draining) ==
    LET starting == UNION {Startable(pre[s]) : s \in pumped}
    IN  \E order \in Orders(starting) :
          LET main == IF draining THEN pre[Main]
                      ELSE [pre[Main] EXCEPT !.queue = @ \o order]
          IN  /\ lanes' = [l \in Lanes |-> IF l = Main THEN Pump(main)
                                           ELSE IF l \in pumped THEN Pump(pre[l]) ELSE pre[l]]
              /\ turn' = [r \in Runs |->
                     IF r \in Startable(main) THEN "body"
                     ELSE IF r \notin starting THEN was[r]
                     ELSE IF draining THEN "over" ELSE "inner"]
              /\ outerGen' = [r \in Runs |-> IF r \in starting
                     THEN pre[SessionOf[r]].generation ELSE outerGen[r]]
              /\ innerGen' = [r \in Runs |-> IF r \in Startable(main)
                     THEN main.generation ELSE innerGen[r]]

\* runEmbeddedPiAgent: enqueue on the session lane.
Submit(r) ==
    LET s == SessionOf[r]
    IN  /\ Alive /\ turn[r] = "new"
        /\ IF gatewayDraining
           THEN /\ turn' = [turn EXCEPT ![r] = "refused"]
                /\ UNCHANGED <<lanes, outerGen, innerGen>>
           ELSE Launch({s}, [lanes EXCEPT ![s] = WithEntry(@, r)],
                       [turn EXCEPT ![r] = "outer"], FALSE)
        /\ UNCHANGED <<loopVars, attempt, registry, waiting, drain>>

\* An attempt of the run registers its handle, over one that may be there.
Register(r) ==
    /\ Alive /\ turn[r] = "body" /\ r \notin attempt
    /\ attempt' = attempt \cup {r}
    /\ registry' = [registry EXCEPT ![SessionOf[r]] = r]
    /\ UNCHANGED <<loopVars, lanes, turn, outerGen, innerGen, waiting, drain>>

\* Mutant: whatever handle is registered for the session is removed.
UnregisterAny(r) ==
    LET s == SessionOf[r]
    IN  /\ Alive /\ r \in attempt
        /\ attempt' = attempt \ {r}
        /\ registry' = [registry EXCEPT ![s] = NoRun]
        /\ waiting' = waiting \ {s}
        /\ UNCHANGED <<loopVars, lanes, turn, outerGen, innerGen, drain>>

\* Its finally block: clearActiveEmbeddedRun, which only removes the run's own
\* handle and then answers whoever waits for the session's run to end.
Unregister(r) ==
    LET s == SessionOf[r]
    IN  /\ Alive /\ r \in attempt
        /\ attempt' = attempt \ {r}
        /\ IF registry[s] = r
           THEN registry' = [registry EXCEPT ![s] = NoRun] /\ waiting' = waiting \ {s}
           ELSE UNCHANGED <<registry, waiting>>
        /\ UNCHANGED <<loopVars, lanes, turn, outerGen, innerGen, drain>>

\* waitForEmbeddedPiRunEnd: it resolves at once without a run; its timeout may
\* give up at any time.
AwaitRunEnd(s) ==
    /\ Alive /\ registry[s] # NoRun /\ s \notin waiting
    /\ waiting' = waiting \cup {s}
    /\ UNCHANGED <<loopVars, lanes, turn, outerGen, innerGen, attempt, registry, drain>>

AwaitTimeout(s) ==
    /\ Alive /\ s \in waiting
    /\ waiting' = waiting \ {s}
    /\ UNCHANGED <<loopVars, lanes, turn, outerGen, innerGen, attempt, registry, drain>>

\* The task on the main lane settles.
EndBody(r) ==
    /\ Alive /\ turn[r] = "body" /\ r \notin attempt
    /\ IF innerGen[r] = lanes[Main].generation
       THEN Launch({}, [lanes EXCEPT ![Main] = WithoutTask(@, r, innerGen[r])],
                   [turn EXCEPT ![r] = "over"], gatewayDraining)
       ELSE turn' = [turn EXCEPT ![r] = "over"] /\ UNCHANGED <<lanes, outerGen, innerGen>>
    /\ UNCHANGED <<loopVars, attempt, registry, waiting, drain>>

\* Mutant: the session lane is not pumped when its task settles.
EndTurnWithoutPump(r) ==
    LET s == SessionOf[r]
    IN  /\ Alive /\ turn[r] = "over"
        /\ lanes' = [lanes EXCEPT ![s] = WithoutTask(@, r, outerGen[r])]
        /\ turn' = [turn EXCEPT ![r] = "done"]
        /\ UNCHANGED <<loopVars, outerGen, innerGen, attempt, registry, waiting, drain>>

\* The task on the session lane settles after it.
EndTurn(r) ==
    LET s == SessionOf[r]
    IN  /\ Alive /\ turn[r] = "over"
        /\ IF outerGen[r] = lanes[s].generation
           THEN Launch({s}, [lanes EXCEPT ![s] = WithoutTask(@, r, outerGen[r])],
                       [turn EXCEPT ![r] = "done"], gatewayDraining)
           ELSE turn' = [turn EXCEPT ![r] = "done"] /\ UNCHANGED <<lanes, outerGen, innerGen>>
        /\ UNCHANGED <<loopVars, attempt, registry, waiting, drain>>

-----------------------------------------------------------------------------
ActiveTasks == {p \in Lanes \X Runs : p[2] \in lanes[p[1]].active}
ActiveRuns  == {s \in Sessions : registry[s] # NoRun}

\* The drain: both waits start from what is active when the signal comes.
Restart ==
    /\ RequestRestart(ActiveTasks # {} \/ ActiveRuns # {})
    /\ drain' = [snapshot |-> ActiveTasks,
                 tasks |-> IF ActiveTasks = {} THEN "drained" ELSE "waiting",
                 runs |-> IF ActiveRuns = {} THEN "drained" ELSE "waiting"]
    /\ UNCHANGED <<lanes, turn, outerGen, innerGen, attempt, registry, waiting>>

\* waitForActiveTasks and waitForActiveEmbeddedRuns: drained, or out of time.
TasksAnswer ==
    /\ Alive /\ shutdown.stage = "draining" /\ drain.tasks = "waiting"
    /\ drain' = [drain EXCEPT !.tasks =
           IF drain.snapshot \cap ActiveTasks = {} THEN "drained" ELSE "timedOut"]
    /\ UNCHANGED <<loopVars, lanes, turn, outerGen, innerGen, attempt, registry, waiting>>

RunsAnswer ==
    /\ Alive /\ shutdown.stage = "draining" /\ drain.runs = "waiting"
    /\ drain' = [drain EXCEPT !.runs = IF ActiveRuns = {} THEN "drained" ELSE "timedOut"]
    /\ UNCHANGED <<loopVars, lanes, turn, outerGen, innerGen, attempt, registry, waiting>>

DrainAnswered ==
    /\ drain.tasks # "waiting" /\ drain.runs # "waiting"
    /\ EndDrain
    /\ UNCHANGED agentVars

\* The restarted loop's iteration hook calls resetAllLanes: the main lane, the
\* first one created, is drained before the session lanes.
ResumeAndReset ==
    /\ Resume
    /\ IF loop = "parked"
       THEN Launch(Sessions, [l \in Lanes |-> NextGeneration(lanes[l])], turn, FALSE)
       ELSE UNCHANGED <<lanes, turn, outerGen, innerGen>>
    /\ UNCHANGED <<attempt, registry, waiting, drain>>

AgentStep(r) == Submit(r) \/ Register(r) \/ Unregister(r) \/ EndBody(r) \/ EndTurn(r)

LoopOnly == LoopStep \/ Release \/ RequestStop \/ CloseServer \/ ForceExit \/ Rival

Next ==
    \/ \E r \in Runs : AgentStep(r)
    \/ \E s \in Sessions : AwaitRunEnd(s) \/ AwaitTimeout(s)
    \/ Restart \/ TasksAnswer \/ RunsAnswer \/ DrainAnswered \/ ResumeAndReset
    \/ LoopOnly /\ UNCHANGED agentVars

Spec == Init /\ [][Next]_vars

\* Runs end: an attempt has a timeout, and a run makes finitely many attempts
\* (hence strong fairness: each registration interrupts EndBody).  The
\* continuations of settled tasks run.
FairSpec ==
    /\ Spec
    /\ \A r \in Runs : /\ WF_vars(Unregister(r))
                       /\ SF_vars(EndBody(r))
                       /\ WF_vars(EndTurn(r))

-----------------------------------------------------------------------------
AgentTypeOK ==
    /\ lanes \in [Lanes -> [queue : Seq(Runs), active : SUBSET Runs,
                            maxConcurrent : Nat \ {0}, generation : Nat]]
    /\ turn \in [Runs -> {"new", "refused", "outer", "inner", "body", "over", "done"}]
    /\ outerGen \in [Runs -> Nat] /\ innerGen \in [Runs -> Nat]
    /\ attempt \subseteq Runs
    /\ registry \in [Sessions -> Runs \cup {NoRun}]
    /\ waiting \subseteq Sessions
    /\ drain \in [snapshot : SUBSET (Lanes \X Runs),
                  tasks : {"waiting", "drained", "timedOut"},
                  runs : {"waiting", "drained", "timedOut"}]

TypeOK == LoopTypeOK /\ AgentTypeOK

Working(r) == turn[r] = "body"

\* "Per-session lanes guarantee that only one agent run touches a given
\* session at a time" (docs/concepts/queue.md).
SessionExclusive ==
    \A r, q \in Runs : Working(r) /\ Working(q) /\ SessionOf[r] = SessionOf[q] => r = q

\* Within one lifecycle the nesting does guarantee it.
ExclusiveInLifecycle ==
    \A r, q \in Runs :
      /\ Working(r) /\ Working(q)
      /\ SessionOf[r] = SessionOf[q] /\ outerGen[r] = outerGen[q]
      => r = q

\* Both lanes agree on a run: its inner entry is queued or active on the main
\* lane exactly while the session lane's task waits for it, and a session
\* lane's slot is held by a run that has not finished its turn.
NestingConsistent ==
    /\ \A r \in Runs :
         turn[r] = "inner" <=> \E i \in DOMAIN lanes[Main].queue : lanes[Main].queue[i] = r
    /\ \A r \in Runs :
         turn[r] = "outer" <=>
           \E i \in DOMAIN lanes[SessionOf[r]].queue : lanes[SessionOf[r]].queue[i] = r
    /\ \A s \in Sessions : \A r \in lanes[s].active : turn[r] \in {"inner", "body", "over"}

\* The registry holds handles of running attempts only.
RegistryLive == \A s \in Sessions : registry[s] # NoRun => registry[s] \in attempt

\* A waiter is never left behind by the run it waits for.
NoForgottenWaiter == \A s \in waiting : registry[s] # NoRun

\* Lanes, turns, registry and waiters agree about every run, across restarts that leave
\* runs of an earlier lifecycle behind, and within a lifecycle a session has
\* one run at work at the most.
RunsAgree ==
    /\ ExclusiveInLifecycle /\ NestingConsistent /\ RegistryLive
    /\ NoForgottenWaiter

\* A handle leaves the registry when its own attempt ends or another replaces
\* it: a run abandoned by a restart cannot take the new run's handle away.
OwnHandleOnly ==
    [][\A s \in Sessions :
         registry[s] # NoRun /\ registry'[s] = NoRun => registry[s] \notin attempt']_vars

\* Both waits of a restart succeeded and the server is being closed.
ReportedDrained ==
    /\ Alive /\ shutdown = [action |-> "restart", stage |-> "closing"]
    /\ drain.tasks = "drained" /\ drain.runs = "drained"

\* What the waits mean: when both succeeded, no run works that a session lane
\* started in this lifecycle, although the waits only look at what was active
\* when the signal came, and the main lane goes on to start what it has queued.
DrainedMeansQuiet ==
    ReportedDrained =>
        \A r \in Runs : Working(r) => outerGen[r] < lanes[SessionOf[r]].generation

\* "all active work drained" (the log line after the waits): no run works but
\* those whose slots a reset has freed.  Not so: a run that the last lifecycle
\* left queued on the main lane starts after the snapshot.
DrainedMeansIdle ==
    ReportedDrained => \A r \in Runs : Working(r) => innerGen[r] < lanes[Main].generation

\* An accepted turn ends, with an answer or a restart error, unless the
\* process exits.
AcceptedTurnEnds == \A r \in Runs : turn[r] = "outer" ~> turn[r] = "done" \/ ~Alive
==============================================================================
