----------------------------- MODULE Heartbeat -----------------------------
(***************************************************************************)
(* Heartbeats: the wake layer (src/infra/heartbeat-wake.ts), which collects*)
(* wake requests and puts them to one handler, and the runner behind the   *)
(* handler (startHeartbeatRunner in src/infra/heartbeat-runner.ts), whose  *)
(* interval timer asks for the periodic wakes.                             *)
(*                                                                         *)
(* The wake layer is a module of the process and outlives the runners: an  *)
(* in-process restart stops one and starts the next.  Times are left out:  *)
(* a timer that is set may fire, and schedule sets one if there is none    *)
(* (a request that preempts a later timer sets it again).  A wake is the   *)
(* target it is for and its reason, "interval" or one of higher priority.  *)
(***************************************************************************)
EXTENDS Naturals, FiniteSets

CONSTANTS
    Targets,        \* targets of wakes
    All,            \* the target without agent and session: every agent
    Slots,          \* names for timer callbacks in flight
    None,
    MaxLives,       \* bound: runners started
    MaxThrows       \* bound: wakes whose handler throws

ASSUME HeartbeatAssumption ==
    /\ All \in Targets /\ None \notin Targets /\ None \notin {"interval", "action"}
    /\ MaxLives \in Nat /\ MaxThrows \in Nat
    /\ IsFiniteSet(Slots)

VARIABLES
    life,           \* runners started so far
    live,           \* the last one is registered as the handler and not stopped
    pending,        \* pendingWakes: the reason of each target's wake
    timer,          \* the wake timer is set
    scheduled,
    running,
    callback,       \* timer callbacks: [life, batch, todo, current], or None
    enabled,        \* heartbeatsEnabled
    agents,         \* the configuration names agents with a heartbeat
    armed,          \* the runner's interval timer is set
    throws,         \* wakes whose handler threw so far
    urgent,         \* history: targets with an urgent wake not yet put to a handler
    overlaps,       \* history: runners started while a callback was in flight
    missed          \* history: the last wake of this runner came while disabled

wakeVars == <<pending, timer, scheduled, running, callback, urgent>>
runnerVars == <<life, live, agents, overlaps>>
vars == <<wakeVars, runnerVars, enabled, armed, throws, missed>>

Reasons == {"interval", "action"}
NoWakes == [t \in Targets |-> None]
Wakes == [Targets -> Reasons \cup {None}]
Callbacks == [life : 1..MaxLives, batch : Wakes, todo : Wakes, current : Targets \cup {None}]

ASSUME NoneAssumption == None \notin Callbacks

TypeOK ==
    /\ life \in 0..MaxLives /\ live \in BOOLEAN
    /\ pending \in Wakes /\ timer \in BOOLEAN
    /\ scheduled \in BOOLEAN /\ running \in BOOLEAN
    /\ callback \in [Slots -> {None} \cup Callbacks]
    /\ enabled \in BOOLEAN /\ agents \in BOOLEAN /\ armed \in BOOLEAN
    /\ throws \in 0..MaxThrows
    /\ urgent \subseteq Targets /\ overlaps \in Nat /\ missed \in BOOLEAN

-----------------------------------------------------------------------------
Urgent(wakes) == {t \in Targets : wakes[t] = "action"}
InFlight == {s \in Slots : callback[s] # None}

\* Of this runner, so that its steps touch the runner's own state.
Current(s) == live /\ callback[s].life = life

\* queuePendingWakeReason for all the wakes of a batch: an urgent reason is
\* kept, whatever comes after it.
Queued(wakes) ==
    [t \in Targets |->
        IF wakes[t] = None \/ (pending[t] = "action" /\ wakes[t] = "interval")
        THEN pending[t] ELSE wakes[t]]

One(t, reason) == [NoWakes EXCEPT ![t] = reason]

\* A wake is queued and the timer scheduled.
Requeue(wakes) ==
    /\ pending' = Queued(wakes) /\ timer' = TRUE
    /\ urgent' = urgent \cup Urgent(wakes)

\* scheduleNext, as a runner calls it that may have been stopped.
ScheduleNext(s) ==
    IF Current(s) THEN armed' = agents /\ missed' = FALSE ELSE UNCHANGED <<armed, missed>>

-----------------------------------------------------------------------------
\* requestHeartbeatNow, from hooks, cron jobs, nodes and finished commands
Request(t) ==
    /\ Requeue(One(t, "action"))
    /\ UNCHANGED <<scheduled, running, callback, runnerVars, enabled, armed, throws, missed>>

\* The runner's interval timer.
IntervalFires ==
    /\ armed
    /\ armed' = FALSE
    /\ Requeue(One(All, "interval"))
    /\ UNCHANGED <<scheduled, running, callback, runnerVars, enabled, throws, missed>>

\* The wake timer fires without a handler.
FireUnhandled ==
    /\ timer /\ ~live
    /\ timer' = FALSE /\ scheduled' = FALSE
    /\ UNCHANGED <<pending, running, callback, urgent, runnerVars, enabled, armed, throws, missed>>

\* It fires while a callback runs, and is set again.
FireRunning ==
    /\ timer /\ live /\ running
    /\ scheduled' = TRUE
    /\ UNCHANGED <<pending, timer, running, callback, urgent, runnerVars, enabled, armed, throws, missed>>

\* What a callback that may run takes along.
Take(s) ==
    /\ callback[s] = None
    /\ timer' = FALSE /\ scheduled' = FALSE /\ running' = TRUE
    /\ pending' = NoWakes
    /\ callback' = [callback EXCEPT ![s] =
            [life |-> life, batch |-> pending, todo |-> pending, current |-> None]]
    /\ UNCHANGED <<urgent, runnerVars, enabled, armed, throws, missed>>

\* Mutant: a callback runs whether or not another does.
FireAnyway(s) == timer /\ live /\ Take(s)

\* It fires, and takes all the pending wakes.
Fire(s) == timer /\ live /\ ~running /\ Take(s)

-----------------------------------------------------------------------------
\* The callback puts a wake to its handler, run(): it is refused, it finds
\* nothing to do (no agent is due, or the target is not configured), or a
\* heartbeat begins, which is awaited.
Begin(s, t) ==
    LET cb == callback[s]
        refused == ~Current(s) \/ ~enabled \/ ~agents
        Left == [cb EXCEPT !.todo[t] = None]
    IN  /\ cb # None /\ cb.current = None /\ cb.todo[t] # None
        /\ urgent' = urgent \ {t}
        /\ \/ /\ refused
              /\ callback' = [callback EXCEPT ![s] = Left]
              /\ missed' = (missed \/ (Current(s) /\ ~enabled))
              /\ UNCHANGED armed
           \/ /\ ~refused /\ (cb.todo[t] = "interval" \/ t # All)
              /\ callback' = [callback EXCEPT ![s] = Left]
              /\ ScheduleNext(s)
           \/ /\ ~refused
              /\ callback' = [callback EXCEPT ![s] = [Left EXCEPT !.current = t]]
              /\ UNCHANGED <<armed, missed>>
        /\ UNCHANGED <<pending, timer, scheduled, running, runnerVars, enabled, throws>>

\* The awaited heartbeat ran, failed or was skipped for good.
Ran(s) ==
    /\ callback[s] # None /\ callback[s].current # None
    /\ callback' = [callback EXCEPT ![s].current = None]
    /\ ScheduleNext(s)
    /\ UNCHANGED <<pending, timer, scheduled, running, urgent, runnerVars, enabled, throws>>

\* Mutant: a wake that finds the main lane busy is dropped.
BusyDropped(s) ==
    /\ callback[s] # None /\ callback[s].current # None
    /\ callback' = [callback EXCEPT ![s].current = None]
    /\ UNCHANGED <<pending, timer, scheduled, running, urgent, runnerVars, enabled, armed, throws, missed>>

\* "requests-in-flight": the wake is queued again.  Only a wake for one
\* target schedules the next interval all the same.
Busy(s) ==
    LET t == callback[s].current
    IN  /\ callback[s] # None /\ t # None
        /\ callback' = [callback EXCEPT ![s].current = None]
        /\ Requeue(One(t, callback[s].batch[t]))
        /\ IF t = All THEN UNCHANGED <<armed, missed>> ELSE ScheduleNext(s)
        /\ UNCHANGED <<scheduled, running, runnerVars, enabled, throws>>

\* Mutant: after a throw only the wake that threw is queued again.
ThrowRequeuesOne(s) ==
    LET t == callback[s].current
    IN  /\ callback[s] # None /\ t # None /\ throws < MaxThrows
        /\ throws' = throws + 1
        /\ callback' = [callback EXCEPT ![s] = None]
        /\ running' = FALSE
        /\ Requeue(One(t, callback[s].batch[t]))
        /\ UNCHANGED <<scheduled, runnerVars, enabled, armed, missed>>

\* The handler throws: the whole batch is queued again, those that ran too.
Throw(s) ==
    /\ callback[s] # None /\ callback[s].current # None /\ throws < MaxThrows
    /\ throws' = throws + 1
    /\ callback' = [callback EXCEPT ![s] = None]
    /\ running' = FALSE
    /\ Requeue(callback[s].batch)
    /\ UNCHANGED <<scheduled, runnerVars, enabled, armed, missed>>

\* The callback ends; `running` is cleared whosever it is now.
End(s) ==
    /\ callback[s] # None /\ callback[s].current = None /\ callback[s].todo = NoWakes
    /\ callback' = [callback EXCEPT ![s] = None]
    /\ running' = FALSE
    /\ timer' = (timer \/ pending # NoWakes \/ scheduled)
    /\ UNCHANGED <<pending, scheduled, urgent, runnerVars, enabled, armed, throws, missed>>

-----------------------------------------------------------------------------
\* What startHeartbeatRunner does outside the wake layer.
NewRunner ==
    /\ ~live /\ life < MaxLives
    /\ life' = life + 1 /\ live' = TRUE
    /\ overlaps' = IF InFlight = {} THEN overlaps ELSE overlaps + 1
    /\ agents' \in BOOLEAN /\ armed' = agents' /\ missed' = FALSE
    /\ UNCHANGED <<pending, callback, urgent, enabled, throws>>

\* Mutant: `running` and the timer are left as the last runner left them.
StartAsFound ==
    /\ NewRunner
    /\ UNCHANGED <<timer, running, scheduled>>

\* A runner starts: setHeartbeatWakeHandler and updateConfig.
Start ==
    /\ NewRunner
    /\ timer' = (pending # NoWakes)
    /\ running' = FALSE /\ scheduled' = FALSE

\* stop
Stop ==
    /\ live
    /\ live' = FALSE /\ armed' = FALSE
    /\ UNCHANGED <<wakeVars, life, agents, overlaps, enabled, throws, missed>>

\* updateConfig on a reload
UpdateConfig ==
    /\ live
    /\ agents' \in BOOLEAN /\ armed' = agents' /\ missed' = FALSE
    /\ UNCHANGED <<wakeVars, life, live, overlaps, enabled, throws>>

\* set-heartbeats
SetHeartbeats ==
    /\ enabled' = ~enabled
    /\ UNCHANGED <<wakeVars, runnerVars, armed, throws, missed>>

-----------------------------------------------------------------------------
Init ==
    /\ life = 0 /\ live = FALSE
    /\ pending = NoWakes /\ timer = FALSE /\ scheduled = FALSE /\ running = FALSE
    /\ callback = [s \in Slots |-> None]
    /\ enabled = TRUE /\ agents = FALSE /\ armed = FALSE
    /\ throws = 0 /\ urgent = {} /\ overlaps = 0 /\ missed = FALSE

CallbackStep(s) == (\E t \in Targets : Begin(s, t)) \/ Ran(s) \/ Busy(s) \/ End(s)

\* Every callback awaits a heartbeat: between an await that is over and the
\* next one, a callback is not interrupted by another task.
Quiet == \A s \in InFlight : callback[s].current # None

Next ==
    \/ /\ Quiet
       /\ \/ \E t \in Targets : Request(t)
          \/ IntervalFires \/ FireUnhandled \/ FireRunning
          \/ \E s \in Slots : Fire(s)
          \/ Start \/ Stop \/ UpdateConfig \/ SetHeartbeats
    \/ \E s \in Slots : CallbackStep(s) \/ Throw(s)

\* A callback that awaits a heartbeat of an earlier runner.
Interrupted(s) == callback[s].current # None /\ ~Current(s)

\* Timers fire.  A heartbeat of the current runner ends, as agent runs have a
\* time limit; one of an earlier runner may have been interrupted for good.
Fairness ==
    /\ WF_vars(Quiet /\ \E s \in Slots : Fire(s))
    /\ \A s \in Slots : WF_vars(callback[s] # None /\ ~Interrupted(s) /\ CallbackStep(s))

Spec == Init /\ [][Next]_vars
FairSpec == Spec /\ Fairness

-----------------------------------------------------------------------------
\* At most one heartbeat callback is in flight, and one more for each runner
\* that was started while one was: the flag `running`, which a new handler
\* resets and the end of an old callback clears under the new one, lets no
\* further heartbeat start beside those.
OneHeartbeat == Cardinality(InFlight) <= 1 + overlaps

\* An urgent wake (a finished command, a hook, a cron event) is not lost and
\* not demoted to a periodic one, which may find nothing due, before a handler
\* was called with it: it is pending as urgent, or still to do in a batch.
UrgentIsKept ==
    \A t \in urgent :
        \/ pending[t] = "action"
        \/ \E s \in InFlight : callback[s].todo[t] = "action"

\* Some wake is still to be put to this runner, or being handled by it.
WakeOnItsWay ==
    \/ pending # NoWakes
    \/ \E s \in InFlight :
          Current(s) /\ (callback[s].current # None \/ callback[s].todo # NoWakes)

\* The chain of periodic heartbeats, each of which arms the timer for the
\* next, does not break: not by a busy main lane, a throw, a reload or an
\* overlapping callback of the last runner; only by a wake while heartbeats
\* are disabled.
ChainHolds == live /\ agents /\ ~missed => armed \/ WakeOnItsWay

\* A wake in a batch whose callback was interrupted by a restart.
Stranded(t) == \E s \in InFlight : Interrupted(s) /\ callback[s].todo[t] # None

\* An urgent wake is put to the handler, unless no runner is registered then:
\* even if a heartbeat of the last runner never ends, which takes with it only
\* the wakes of its own batch.
UrgentIsHeard ==
    \A t \in Targets : t \in urgent ~> t \notin urgent \/ ~live \/ Stranded(t)

\* "enable: turn heartbeats back on (use this if they were disabled)"
\* (docs/cli/system.md): with heartbeats enabled and an agent that has them,
\* the next one is timed or on its way.
EnabledIsArmed == live /\ agents /\ enabled => armed \/ WakeOnItsWay
=============================================================================
