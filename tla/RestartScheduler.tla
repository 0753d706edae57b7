-------------------------- MODULE RestartScheduler --------------------------
(***************************************************************************)
(* Restarts of the gateway from the inside (src/infra/restart.ts and       *)
(* requestGatewayRestart in src/gateway/server-reload-handlers.ts), in     *)
(* front of the run loop: requests are timed, put off until the gateway is *)
(* idle, and end in a SIGUSR1 the process emits to itself.                 *)
(*                                                                         *)
(* The signal is delivered synchronously: emitGatewayRestart authorizes it,*)
(* and onSigusr1 consumes authorization and cycle token and calls request, *)
(* all in one step.  Between steps no signal is unconsumed, so the cycle   *)
(* tokens are no state here, and every emission reaches request.           *)
(*                                                                         *)
(* Times are left out but for the cooldown.                                *)
(***************************************************************************)
EXTENDS RunLoop

CONSTANT Polls      \* bound: names for deferrals under way

VARIABLES
    timer,      \* pendingRestartTimer is set
    poll,       \* deferrals: "none", "scheduled", "watcher" (of this server:
                \* its restartPending is set) or "old" (of an earlier one)
    cooling     \* RESTART_COOLDOWN_MS have not passed since the last emission

timingVars == <<timer, poll, cooling>>
schedulerVars == <<loopVars, timingVars>>

SchedulerTypeOK ==
    /\ LoopTypeOK
    /\ timer \in BOOLEAN /\ cooling \in BOOLEAN
    /\ poll \in [Polls -> {"none", "scheduled", "watcher", "old"}]

-----------------------------------------------------------------------------
\* emitGatewayRestart: onSigusr1 calls request, which ignores the signal
\* while a shutdown is under way.
Emit ==
    /\ Alive
    /\ timer' = FALSE /\ cooling' = TRUE
    /\ IF ShuttingDown THEN UNCHANGED loopVars ELSE \E busy \in BOOLEAN : RequestRestart(busy)

\* deferGatewayRestartUntilIdle: at once if nothing is pending or the check
\* fails, else a poll is started, which closes over its own request.
Defer(source) ==
    \/ Emit /\ UNCHANGED poll
    \/ /\ \E p \in Polls : poll[p] = "none" /\ poll' = [poll EXCEPT ![p] = source]
       /\ timer' = FALSE
       /\ UNCHANGED <<cooling, loopVars>>

\* scheduleGatewaySigusr1Restart: a request joins the timer, or sets it again
\* for an earlier time.  It does not look at the deferrals.
Schedule ==
    /\ Alive /\ timer' = TRUE
    /\ UNCHANGED <<poll, cooling, loopVars>>

\* The timer includes the rest of the cooldown.
TimerFires == Alive /\ timer /\ ~cooling /\ Defer("scheduled")

\* requestGatewayRestart, called by the config watcher of a running server;
\* while its own deferral waits, further changes are covered by it.
WatcherRequest ==
    /\ Alive /\ server = "up"
    /\ \/ Emit /\ UNCHANGED poll
       \/ /\ \A p \in Polls : poll[p] # "watcher"
          /\ \E p \in Polls : poll[p] = "none" /\ poll' = [poll EXCEPT ![p] = "watcher"]
          /\ UNCHANGED <<timer, cooling, loopVars>>

\* Mutant: a deferral that waited too long is given up.
PollGivesUp(p) ==
    /\ Alive /\ poll[p] # "none"
    /\ poll' = [poll EXCEPT ![p] = "none"]
    /\ UNCHANGED <<timer, cooling, loopVars>>

\* A poll finds the gateway idle, or has waited for its maximum.
PollFires(p) ==
    /\ poll[p] # "none"
    /\ poll' = [poll EXCEPT ![p] = "none"]
    /\ Emit

Cool == cooling /\ cooling' = FALSE /\ UNCHANGED <<timer, poll, loopVars>>

\* The run loop goes on by itself; a server that comes up has a watcher that
\* knows nothing of earlier deferrals.
Loop ==
    /\ \/ LoopStep \/ Release \/ Resume
       \/ RequestStop
       \/ EndDrain \/ CloseServer \/ ForceExit
       \/ Rival
    /\ poll' = IF server = "none" /\ server' = "up"
               THEN [p \in Polls |-> IF poll[p] = "watcher" THEN "old" ELSE poll[p]]
               ELSE poll
    /\ UNCHANGED <<timer, cooling>>

-----------------------------------------------------------------------------
SchedulerInit == LoopInit /\ timer = FALSE /\ poll = [p \in Polls |-> "none"] /\ cooling = FALSE

SchedulerNext ==
    \/ Loop
    \/ Schedule \/ TimerFires \/ WatcherRequest \/ Cool
    \/ \E p \in Polls : PollFires(p)

SchedulerSpec == SchedulerInit /\ [][SchedulerNext]_schedulerVars

\* Besides the run loop's fairness: timers fire, and a deferral ends, at the
\* latest after its maximal wait.
SchedulerFair ==
    /\ SchedulerSpec
    /\ WF_schedulerVars(EndDrain /\ SchedulerNext) /\ WF_schedulerVars(ForceExit /\ SchedulerNext)
    /\ WF_schedulerVars(Release /\ SchedulerNext) /\ WF_schedulerVars(Resume /\ SchedulerNext)
    /\ WF_schedulerVars(Cool) /\ WF_schedulerVars(TimerFires)
    /\ \A p \in Polls : WF_schedulerVars(PollFires(p))

-----------------------------------------------------------------------------
\* A restart that was requested, whether it is timed or put off, comes to a
\* shutdown of the gateway (or the bound on signals): joining a timer, a
\* cooldown or a deferral of an earlier server does not swallow it.
RequestIsEmitted ==
    timer \/ (\E p \in Polls : poll[p] # "none")
        ~> ShuttingDown \/ ~Alive \/ signals = MaxSignals

\* "Restart requests are coalesced while one is already pending/in-flight, and
\* a 30-second cooldown applies between restart cycles"
\* (docs/gateway/configuration.md).
CooldownApplies == [][~ShuttingDown /\ shutdown'.action = "restart" => ~cooling]_schedulerVars
=============================================================================
