# Gateway verification project

TLA+ models of the parts of the OpenClaw gateway (`src/superclaw/src`) whose correctness
depends on the order of events: queues, drains, restarts, crashes, retries, schedules, locks
and approvals. Each module is translated from the TypeScript source; `PROJECT.json` maps
every definition to the lines it stands for. Paths below are relative to `src/superclaw/src`
unless they start with `src/`.

1. [The system](#1-the-system)
2. [Modules and how they correspond to the code](#2-modules-and-how-they-correspond-to-the-code)
3. [Runs: what is checked, bounds and fairness](#3-runs-what-is-checked-bounds-and-fairness)
4. [Theorems](#4-theorems)
5. [Where the code and its documents disagree](#5-where-the-code-and-its-documents-disagree)
6. [Plan](#6-plan)
7. [What is not modelled](#7-what-is-not-modelled)

## 1. The system

The gateway is one Node.js process. Chat channels, web clients and timers hand it
messages; it runs an agent (an LLM with tools) per session and sends the answers
back. JavaScript runs a callback to its next `await` without interruption, so a
model's step is the code between two awaits, and concurrency is the interleaving
of such steps: of several calls, of callbacks, timers and signal handlers, and,
where files are shared, of processes.

```
 channel message ──> auto-reply ──(agent busy)──> follow-up queue ──drain──┐
                         │ (agent idle)                                    │
                         └────────────> runEmbeddedPiAgent <───────────────┘
                                             │
                    session lane ⊃ main lane (command queue)
                                             │
                              embedded run registry (runs.ts)
                                             │ answer
                              outbound delivery queue (files) ──> channel
 config watcher, RPC ──> restart scheduler ──SIGUSR1──┐
 SIGTERM/SIGUSR1 ──> run loop <───────────────────────┘
                     run loop ── drains lanes and runs, closes, restarts in place,
                                 resets the lanes, recovers the delivery queue

 cron timer, manual run ──> cron service (jobs.json) ──> agent turn, or system event ─┐
 interval timer, hooks, finished commands ──> heartbeat wake layer <──────────────────┘
                                                 └──> heartbeat runner ──> agent turn
 agent run, gateway, other processes ──> session write lock (one .lock file each)
 client ──exec.approval.request──> approvals ──consumed by──> node.invoke ──> node
```

### Components, state, operations, correctness

| Component (source) | State | Operations | What makes it correct | What is hard |
| --- | --- | --- | --- | --- |
| Command queue (`process/command-queue.ts`) | lanes: FIFO, active task ids, limit, generation; draining flag | enqueue, completion, set limit, clear, mark draining, reset, wait for active tasks | no call lost, duplicated, overtaken or left beside a free slot; slots belong to the current generation; "drained" means ended | completions of tasks a reset abandoned; limits lowered under load; resets with preserved entries |
| Run loop (`cli/gateway-cli/run-loop.ts`) | loop position, server, lock handle, `shuttingDown`, restart resolver | start, SIGTERM/SIGINT, SIGUSR1, drain, close, force exit, lock release and reacquisition, resume | every accepted signal ends; the handle stands for our lock file; tasks are accepted again after a restart | a signal while `params.start()` is pending; two paths inside one lock release; a close that never returns |
| Embedded run registry (`agents/pi-embedded-runner/runs.ts`) | active handle per session, waiters | set, clear, wait for one run, wait for all | one run per session; a waiter is always answered; a handle is removed only by its run | runs that outlive a restart end after a newer run registered |
| Follow-up queue (`auto-reply/reply/queue/*`, `utils/queue-helpers.ts`) | queue object per key, cached callback, dedupe cache, drain loops | enqueue with drop policy, drain (collect, one by one, summary), finalize, kick, clear | nothing lost, nothing answered twice, order kept, dropped messages told of, no message stranded | items change while a run is awaited; drains close over objects, the registry is by key; settings change with each message |
| Outbound delivery queue (`infra/outbound/delivery-queue.ts`, `deliver.ts`) | `{id}.json`, `{id}.delivered`, `failed/` | enqueue, send, two-phase ack, fail, scan, recover, give up | no accepted message lost over crashes; acknowledged entries stay gone; retries bounded | crashes between send and rename; recovery beside live sends; read-modify-write over awaits |
| Restart scheduler (`infra/restart.ts`, `gateway/server-reload-handlers.ts`) | request timer, deferrals, cooldown | timed request, deferral until idle, config watcher's request, emission | no restart that was asked for is swallowed | deferrals outlive the server that made them; signals during a shutdown are ignored |
| Cron service (`cron/service/*`) | job store in memory and on file, running markers, timer, executions | start and catch-up, tick, manual run, add, enable, disable, remove, list | no two awaited executions of a job, no job blocked by a run that is over, no due time missed; edits survive; the timer stays | outcomes applied after reloads; two critical sections per manual run; executions that go on after their timeout; failed writes |
| Session write lock (`agents/session-write-lock.ts`) | lock file, `HELD_LOCKS` per process with counts | acquire, release, watchdog, stale reclaim, clean-up, signal and exit | one process inside; whoever is inside has the file; no other user's release ends a hold | inspect-then-remove by several processes; forced releases under live users |
| Heartbeats (`infra/heartbeat-wake.ts`, `infra/heartbeat-runner.ts`) | pending wakes, wake timer, `running`, handler; interval timer | request, timer, batch, retry, set and dispose handler, reload | no urgent wake lost or demoted; the periodic chain holds; heartbeats do not overlap | handler replaced while a callback awaits; throws in a batch |
| Exec approvals (`gateway/exec-approval-manager.ts`, `gateway/server-methods/exec-approval.ts`) | entries by id, their timers and promises | request, forward, resolve, expire, remove, consume | a denial never runs, an allow-once runs once; nobody waits for ever | timeout against decision against grace removal; reused ids |
| Node registry (`gateway/node-registry.ts`) | sessions by node and by connection, pending invokes | register, unregister, invoke, result, timeout | nobody waits for a node without a session, or without a timer | overlapping connections of one node; a close during the handshake |
| Config reload, channel manager, chat streams, pairing, subagent registry, ACP manager, auth profiles, debouncers | see `PROJECT.json` | | | timers, coalescing and cooldowns |

Everything else (command line, plugins, channel adapters, browser, memory index,
native apps, web UI, the WeChat client under `src/alaywx`) is listed in
`PROJECT.json` with the reason it is left out. All hazards found while reading,
modelled or not, are under `hazards` there, each at its line with the properties
that would catch it.

## 2. Modules and how they correspond to the code

| Module | Models | State | Steps |
| --- | --- | --- | --- |
| `LaneState` | the record `LaneState` and pure functions on it | none (operators) | |
| `CommandQueue` | `process/command-queue.ts` | `lanes`, `gatewayDraining`; `phase` and `taskGeneration` are each call's promise and its captured generation; `waiter` is one `waitForActiveTasks` | one action per exported function, `Complete` for a task's continuation |
| `RunLoop` | `cli/gateway-cli/run-loop.ts` | `loop` (where `runGatewayLoop` is suspended), `shutdown` (where `request` is suspended), `server`, `listening`, `lock`, `lockFile` | the code between two awaits of the loop or of the handler |
| `GatewayLifecycle` | `RunLoop` + lanes + `runs.ts` + the nested `runEmbeddedPiAgent` | both lanes of each run, `registry`, `waiting`, `drain` | conjunctions of `RunLoop` actions with their effect on lanes, plus the life of a run |
| `FollowupQueue` | `auto-reply/reply/queue/*.ts`, `utils/queue-helpers.ts` | `followups` (queue objects with their drains, the registered one, the cached callback), `recent`, `turns`, `admitted`, `status` | `Enqueue`, the drain's `Wake`, `RunSucceeds`, `RunFails`, `EndTurn`, `Clear` |
| `DeliveryContract` | what the delivery queue promises (abstract) | `outcome` of each message | `Accept`, `Settle`, `LateReceive`, `LateWithdraw` |
| `DeliveryQueue` | `infra/outbound/delivery-queue.ts` and its wrapper in `deliver.ts` | the files (`json`, `marker`, `parked`), the senders and recoveries (`jobs`), `bestEffort` | the code between two awaits of `deliverOutboundPayloads`, `ackDelivery`, `failDelivery`, `recoverPendingDeliveries` |
| `RestartScheduler` | `infra/restart.ts` and `requestGatewayRestart`, composed with `RunLoop` | `RunLoop`'s, plus `timer`, `poll` (deferrals), `cooling` | `Schedule`, `TimerFires`, `PollFires`, `WatcherRequest`, `Cool`, and the loop's own |
| `CronService` | `cron/service/{ops,timer,jobs,locked,store}.ts` | `mem` and `disk` (the store), `start`, `tick`, `timer`, `claims` (awaited executions), `strays` (executions that timed out and go on), `manual` | one action per section under `locked()`: `StartClear` to `StartArm`, `TickCollect`, `TickApply`, `Reserve`, `Finish`, the edits; executions between them; `Crash` |
| `SessionLock` | `agents/session-write-lock.ts` | `file` and `full` (the lock file), `held` and `ticket` (`HELD_LOCKS` and its objects), `user` | the code between two awaits of `acquireSessionWriteLock`, `releaseHeldLock`, the watchdog, `cleanStaleLockFiles`; signals, exits, crashes |
| `NodeRegistry` | `gateway/node-registry.ts` | `conn`, `nodesById`, `nodesByConn`, `invoke`, messages in `requests` and `results` | `CloseEarly`, `Register`, `Break`, `Close`, `Timeout`, `HandleInvokeResult`, `Serve` (the node) |
| `ExecApprovals` | `gateway/exec-approval-manager.ts`, `gateway/server-methods/exec-approval.ts` | `pending`, `record`, `promise`, `handler`, timers in `expiry` and `removal` | `Request`, `Forwarded`, `Resolve`, `ExpiryFires`, `RemovalFires`, `Pass` (time) |
| `NodeInvoke` | `node.invoke` for `system.run` over both | both, plus `approvedBy` | their steps, and `SystemRun`, which checks and consumes an approval and sends the command |
| `Heartbeat` | `infra/heartbeat-wake.ts` and `startHeartbeatRunner` | `pending`, `timer`, `scheduled`, `running`, `callback` (timer callbacks in flight), `enabled`, `agents`, `armed` | `Request`, `Fire`, `Begin`, `Ran`, `Busy`, `Throw`, `End`, `IntervalFires`, `Start`, `Stop`, `UpdateConfig`, `SetHeartbeats` |
| `*Proofs` | theorems about `CommandQueue`, `GatewayLifecycle` (with `RunLoop` and `RestartScheduler`), `FollowupQueue`, `DeliveryQueue`, `CronService`, `SessionLock`, `NodeInvoke`, `Heartbeat` | | |
| `MC*` | small instances | | |

Modules that compose others: `GatewayLifecycle` and `RestartScheduler` each put a
neighbour around `RunLoop`, `NodeInvoke` joins `NodeRegistry` and `ExecApprovals`, and
`DeliveryQueue` is shown to implement `DeliveryContract`.

Definitions whose comment begins with "Mutant" are wrong variants, used to confirm
that each property can fail; nothing else refers to them.

### Abstractions worth knowing

*Command queue.* An entry is one call; it doubles as its task id, which the code
draws fresh for each start. `draining` is true only inside one synchronous call, so
it is no state. The poll of `waitForActiveTasks` may time out at any poll.

*Run loop.* An accepted SIGUSR1 starts `request()`; where it comes from is
`RestartScheduler`'s. The first start has the lock. A rival process
may take a free lock, or that of a process that has exited.
`releaseLockIfHeld` is two steps, because the handle is forgotten only after the
awaited removal. A start binds the port exclusively, so it cannot succeed while a
server of this process still listens.

*Lifecycle.* `runEmbeddedPiAgent` enqueues on the session lane a task that enqueues
the run on the main lane. `Launch` pumps session lanes and main lane in one step,
as the synchronous calls do, in any order of the started runs. Several attempts of
one run (fall-back models) register and unregister again.

*Follow-up queue.* One session key. Drains close over queue objects, so objects have
an identity and two can be alive. The drain waits (debounce), then either breaks or
starts a run in the same step. A direct turn is any run of the session outside the
queue, which ends in `finalizeWithFollowup`; `Admit` is the check of an active run, and
the enqueue comes an await later. Dedupe ids are remembered for longer than a behaviour lasts.

*Delivery queue.* A message is one payload; `bestEffort` has those whose caller asked for
it. Temporary-file-and-rename is one step. `SendSwallows` is a best-effort failure that the
core swallows; whether it counts depends on the caller's `onError`. `SendTimesOut` is a
channel's own timeout that bears the name the wrapper takes for the caller's abort; only
channels of `OwnAborts` have such timeouts, from any other an `AbortError` means the
caller's abort (`SendWithdrawn`). Backoff and time budget are choices: a recovery may defer
an entry that was attempted, and may stop after any entry. A crash leaves the files and
starts a new process with one recovery; `Restart` is the in-place restart, whose recovery
runs beside live senders and, with two recovery names, beside the previous recovery.

*Restart scheduler.* `process.emit` calls the handler synchronously: authorization and
cycle token are set and consumed within one step, so neither is state. Times are left
out, but for the cooldown, which is on or off.

*Cron service.* Time is counted in units of the schedules' period. `locked()` runs
sections one at a time, so a section is an action; it writes the file at its end, and
when that fails the memory keeps what the file lacks. `executeJobCoreWithTimeout` races an
execution against the job's time limit: any failed end may be a timeout, which ends the claim
and puts the job in `strays`, where its execution goes on until `StrayEnds`. Its result is
lost, and it touches no state of the service. `loose` and `cut` are history: jobs whose execution
was parted from its marker, by an edit or by age, and one-shot jobs of which a crash cut off
an execution whose time had come. `used` counts what the bounds limit.

*Session lock.* A ticket is one creation of the lock file together with the object it
becomes: the code compares objects and removes files by path, and the races are about the
difference. Ages are booleans. `stolen` is history: a live lock file was removed as
stale; the clean-up, which judges a file that vanished since it was listed as stale, too, may
do that; `suspect` says that something happened after which that is to be expected (a
death, an old lock, a clean-up at a start).

*Approvals and nodes.* Time is a phase of each record: before `expiresAtMs`, in that
millisecond, after it. What is on a connection when it breaks is lost; the gateway may
notice the break after the node's next connection is registered. A connection may close during
its handshake (`CloseEarly`): its close handler has run then, and it registers all the same,
as a `ghost`. The caller of
`node.invoke` is the one that asked, for the command it asked for.

*Heartbeats.* A wake is its target and whether it is periodic. Which agents are due and
what a heartbeat says are left out. A slot names a timer callback that awaits a
heartbeat; between two awaits of a callback nothing else runs (`Quiet`).

## 3. Runs: what is checked, bounds and fairness

Each run asks one question of one part. Type invariants are part of the theorems
(section 4) and no run repeats them.

| Run | Instance | Properties | What it shows |
| --- | --- | --- | --- |
| `command_queue` | 1 lane, 3 calls, limits 1 and 2 (asked for as 0 and 2), one reset | `NoIdleBacklog` `DrainedMeansEnded` `StartsWithinLimit` `StartsInOrder` `AcceptedStarts` | no interleaving of enqueues, completions, limit changes, clears and a reset loses, leaks or reorders a call; every accepted call starts or is cleared |
| `restart` | 3 signals, 2 deferrals, a rival gateway, close and start errors | `HandleIsOurs` `StopEnds` `RestartEnds` `RequestIsEmitted` | each accepted signal ends even if the server never closes; a restart that was timed or put off comes; the lock handle is never somebody else's |
| `gateway_lifecycle` | 2 sessions, 3 runs, main limit 1, 2 signals | `RunsAgree` `DrainedMeansQuiet` `OwnHandleOnly` | nested lanes, registry and waiters agree about each run across restarts; a run is alone in its session within a lifecycle; a drain that succeeds leaves no run of its lifecycle at work |
| `gateway_lifecycle_live` | 1 session, 2 runs, 1 signal | `AcceptedTurnEnds` | an accepted turn ends or the process exits |
| `followup_queue` | 3 messages, 2 routes, 3 settings, clears | `KnownCallbackDrains` `InFlightIsPrefix` `AnsweredOnce` `AcceptedWithinCap` | no drain is forgotten, in-flight items stay in front, nothing is answered twice |
| `followup_queue_live` | 3 messages, 2 routes, policy `new`, no clears | `NothingLost` `WaitingIsAnswered` | outside the cases of section 5 messages are kept and answered |
| `delivery_queue` | 2 messages: a firm one, and one that may be best effort and, when it is not, goes to a channel whose own timeouts look like aborts; 2 retries, a recovery, a crash, restarts in place | `RetriesBounded` `AckedStaysGone` `KeepsContract` `OwedIsSettled` | the queue implements `DeliveryContract`; retries are bounded; every firm message is settled if the gateway keeps being started |
| `cron` | a recurring and a one-shot job, 1 manual run at a time, 2 periods, any 2 of edits, crashes, timeouts and failed writes | `OneExecution` `MarkersAreBacked` `TimerIsKept` `SlotsAreKept` `EditsStick` | awaited executions of a job do not overlap, no job stays blocked, the timer is never lost, due slots are kept, edits survive the runs they overlap |
| `session_lock` | 3 users in 2 processes, 3 lock files known at a time; with and without re-entrance and start times | `FileProtects` `OneProcessInside` `NoFalseSuspicion` `OnlyOwnReleaseEnds` | the lock excludes, unless a live file is removed as stale; where start times are known that takes a death, an old lock or a clean-up |
| `node_invoke` | 1 node with 2 connections, 2 invokes, 2 approvals of one id | `WaitingHasSession` `OpenIsPending` `NoEarlyExpiry` `DecisionIsObeyed` | what was denied never runs and what was allowed once runs once; nobody waits for a node without a session, or without a timer |
| `heartbeat` | 2 targets, 2 runners, 2 callbacks in flight, 1 throw | `OneHeartbeat` `UrgentIsKept` `ChainHolds` `UrgentIsHeard` | heartbeats overlap only after a restart under one, no urgent wake is lost or demoted, the periodic chain holds |
| `cron_one_shot_replay` | the jobs of `cron`, no manual runs, one trouble: a crash | `NoReplayAfterCrash` (violated) | section 5 |

**Why the bounds are enough.**
- *Command queue.* Its hazards need two entries on a lane in addition to the one that
  blocks it, and one reset separates two generations: three calls and one reset. Lanes do
  not touch each other but in a reset and in a wait, which `gateway_lifecycle` exercises
  with three lanes; the theorems hold for any number.
- *Restart.* The run loop's races are between the loop and one handler; a third signal
  lets a restart follow a restart that failed. Two deferrals are a scheduled one beside a
  watcher's, or that of an earlier server beside the present one's.
- *Lifecycle.* Two runs share a session, the third competes for the main lane from another.
- *Follow-up queue.* An item in flight, one behind it and one arriving (three messages),
  and two objects alive: the registered one and a cleared one whose drain goes on.
- *Delivery queue.* The races are between a message's sender and a recovery on one file.
  The second message is of either of the other two kinds the code tells apart: whether its
  caller asks for `bestEffort` is chosen with its enqueue. The contract is proved for any
  numbers of messages and recoveries.
- *Cron.* The two kinds of schedule; a tick and a manual run that compete for a job; two
  troubles, because a failed write followed by a crash, or an edit under a claim, are the
  shortest ways to part memory, file and executions. Proofs hold for any numbers. A batch
  runs one job at a time (`Concurrency = 1`); the catch-up takes one job and defers the
  other (`MaxMissed = 1`). An execution older than one period counts as stuck, so that
  both sides of that test occur within two periods.
- *Session lock.* A holder and a re-entrant second user in one process, a contender in
  another, and three lock files: the holder's, the one that replaces it, and the one a
  slow waiter still means.
- *Approvals and nodes.* An id used again needs two records; an overlapping reconnection,
  and a closed connection that takes a live one's place, need two connections; consuming
  twice needs two invokes.
- *Heartbeats.* Overlap needs one runner replaced by a second; a batch in which one wake
  throws with another behind it needs two targets.

Counters that could grow (resets, signals, direct turns, receipts of one message, cron
troubles, runners) are capped by `MaxGeneration`, `MaxSignals`, `MaxTurns`, `MaxCrashes`,
`MaxTime`, `MaxTrouble`, `MaxLives`, `MaxThrows` and a saturated counter of two receipts.

**Deadlock** is checked where the modelled system never stops (the command queue and the
heartbeats). The other models end: the process exits, or every call, message or period of
the bound has passed.

**Fairness** is assumed only for what the runtime guarantees.
- `CommandQueue`: tasks of the *current* generation end (agent runs, cron jobs and
  compactions have timeouts). A task abandoned by a reset may hang for ever.
- `RestartScheduler` (with `RunLoop`): timers fire, the cooldown passes, a deferral ends
  at its maximal wait at the latest, file operations and the bounded lock polling return.
  Closing or starting a server may hang.
- `GatewayLifecycle`: an attempt ends; a run makes finitely many attempts, so its
  body ends (strong fairness, as each registration disables the end for a while).
- `FollowupQueue`: debounce timers fire, direct turns end, and a run that is tried
  again and again succeeds at last (strong fairness; without it a permanent failure
  keeps its messages waiting, which is what the code intends).
- `DeliveryQueue`: awaited calls return. `OwedIsSettled` assumes that the gateway is
  started again and again, and that an entry whose turn comes infinitely often is not
  put off by its backoff every time. It says nothing about a gateway that stays up:
  the code retries only at a start.
- `Heartbeat`: wake timers fire, and a heartbeat of the *current* runner ends, as agent
  runs have time limits. One of a runner that was replaced may be interrupted for good.
- `CronService`, `SessionLock`, `NodeInvoke`: none, their properties are safety.
  "Waits for ever" and "the timer is lost" are stated there as invariants: who waits has a
  timer set, which is stronger than being answered at last.

## 4. Theorems

TLAPS proves these for every value of the constants allowed by the assumption named
in each module; the runs check the same formulas on small instances.

| Module | Theorem | States | Assumes |
| --- | --- | --- | --- |
| `CommandQueueProofs` | `TypeCorrect` | `Spec => []TypeOK` | `QueueAssumption` |
| | `QueueSafe` | `Spec => [](QueuedOnce /\ RunningAccounted /\ NoIdleBacklog /\ DrainedMeansEnded)` | |
| | `LimitRespected` | `Spec => StartsWithinLimit`: no step starts a task beyond the limit in force | |
| | `DrainHonest` | `Spec => []DrainedMeansEnded` | |
| | `FifoRespected` | `Spec => StartsInOrder`: of two queued calls of a lane the first starts first | |
| `GatewayLifecycleProofs` | `TypeCorrect` | `Spec => []TypeOK` | `LifecycleAssumption`, `RunLoopAssumption` |
| | `HandleKept` | `Spec => []HandleIsOurs` | |
| | `RunsAgreed` | `Spec => []RunsAgree` | |
| | `HandlesOwn` | `Spec => OwnHandleOnly` | |
| | `DrainQuiet` | `Spec => []DrainedMeansQuiet` | |
| | `ImplementsLoop` | `Spec => LoopSpec`: the composition implements the run loop | |
| | `SchedulerTypeCorrect` | `SchedulerSpec => []SchedulerTypeOK` | |
| | `SchedulerImplementsLoop` | `SchedulerSpec => LoopSpec`: the scheduler implements the run loop | |
| | `SchedulerKeepsHandle` | `SchedulerSpec => []HandleIsOurs` | |
| `FollowupQueueProofs` | `TypeCorrect` | `Spec => []TypeOK` | `FollowupAssumption` |
| | `DrainsKnown` | `Spec => []KnownCallbackDrains` | |
| | `PrefixKept` | `Spec => []InFlightIsPrefix` | |
| | `OnceAnswered` | `Spec => AnsweredOnce` | |
| | `WithinCap` | `Spec => AcceptedWithinCap` | |
| | `NothingIsLost` | `Spec => []NothingLost` | and `NewOnly` |
| | `RunsCarryWhatTheyTake` | `Spec => []RunCarriesWhatItTakes` | and `NewOnly` |
| `DeliveryQueueProofs` | `TypeCorrect` | `Spec => []TypeOK` | `DeliveryAssumption` |
| | `ContractKept` | `Spec => KeepsContract`: `DeliveryQueue` implements `DeliveryContract` | |
| | `AckedGone` | `Spec => AckedStaysGone` | |
| | `RetriesEnd` | `Spec => []RetriesBounded` | and at most one recovery |
| `CronServiceProofs` | `TypeCorrect` | `Spec => []Typed` | `CronAssumption` |
| | `ExecutionsAlone` | `Spec => []OneExecution` | |
| | `MarkersBacked` | `Spec => []MarkersAreBacked` | |
| | `EditsRespected` | `Spec => EditsStick` | |
| | `TimerKept` | `Spec => []TimerIsKept` | |
| | `SlotsKeep` | `Spec => SlotsAreKept` | |
| `SessionLockProofs` | `TypeCorrect` | `Spec => []TypeOK` | `SessionLockAssumption` |
| | `Protected` | `Spec => []FileProtects` | |
| | `OneInside` | `Spec => []OneProcessInside` | |
| | `NoSuspicion` | `Spec => []NoFalseSuspicion` | |
| | `OwnRelease` | `Spec => OnlyOwnReleaseEnds` | |
| `NodeInvokeProofs` | `TypeCorrect` | `Spec => []TypeOK` | `RegistryAssumption`, `ApprovalsAssumption`, `NodeInvokeAssumption` |
| | `SessionsServe` | `Spec => []WaitingHasSession` | |
| | `OpenDecisionsPending` | `Spec => []OpenIsPending` | |
| | `TimersAreOwn` | `Spec => []NoEarlyExpiry` | |
| | `DecisionsObeyed` | `Spec => []DecisionIsObeyed` | |
| `HeartbeatProofs` | `TypeCorrect` | `Spec => []TypeOK` | `HeartbeatAssumption`, `NoneAssumption` |
| | `HeartbeatsCounted` | `Spec => []OneHeartbeat` | |
| | `UrgentKept` | `Spec => []UrgentIsKept` | |
| | `ChainKept` | `Spec => []ChainHolds` | |

**Command queue.** The four safety invariants are inductive only together, and with two
more. `GenerationsReached`: a running task's generation is one its lane has reached;
without it a reset, which counts the generation up, could make an old task current and
`RunningAccounted` would fail. `SnapshotStarted`: a snapshot of `waitForActiveTasks`
holds only calls that have started; without it one of them could start after the wait
was answered. The heart of the proof is the pump (`PumpLane`, `PumpLimit`): it takes a
prefix of the queue, as long as the free slots, and stops only at an empty queue or a
full lane. `FifoRespected` adds that such a prefix leaves the order of the rest
(`PumpOrder`, `DrainOrder`). Sets of entries are finite (`QueueAssumption`), so that
slots can be counted.

**Delivery queue.** A firm message, one never best effort nor to a channel of `OwnAborts`,
must have been settled once its file is gone (`Accounted`). Files go in two steps only: the
move to `failed/`, which settles the message, and the rename of an acknowledgement, of which
`Acknowledges` says that a channel took the message, or an abort or a hook withdrew it,
before. `HoldsOwn` and `HoldsAccepted` say whose message an actor can be holding, and
`Untouched` that a message leaves no trace before its sender runs, so that no step concerns
a message the contract does not know yet. Where this invariant holds, a message's outcome is
a matter of four sets, so all steps but an enqueue, a receipt, a withdrawal and a move to
`failed/` are stutters of the contract (`OutcomesKept`), and those four are one step of it
each (`ContractStep`).

`RetriesEnd` needs a second invariant, `RInv`. A live sender counts one failure, whenever
it likes, so until it has, the count must leave room for it: `Top` is `MaxRetries`
before and `MaxRetries + 1` after. A recovery that means to count a failure (`Stakes`)
finds the count below `Top`, what it read is below `Top` when it writes (`Rewrites`), and
each message is on its list once (`ListedOnce`). With two recoveries the claim is
false (section 5), hence the assumption.

**Run loop and restart scheduler.** `LoopInv`, the loop's types and `HandleIsOurs`, is
invariant of the run loop alone (`LoopInvariance`). What the scheduler does to the loop's
variables is a step of the loop (a signal) or nothing, so `SchedulerSpec => LoopSpec`, and
the invariant carries over; so it does to the composition with lanes and runs.

**Gateway lifecycle.** `LanesOK` says what each lane holds in terms of the runs' turns: the
queues, each run once, and the slot of a session lane, which is that of the engaged run of
its generation. A reset frees slots under runs that go on, so this alone is not enough:
that two engaged runs of a session have different generations is a part of its own, and
with it `WithoutTask` can take only its own run off. `LaunchKeeps` carries `LanesOK` through
the pumps every handler ends with, whichever session lanes it pumps; a step that moves a
run is what the handler did before (`Queued`, `Left`, `RefreshedSession`) and then that
lemma. For `DrainedMeansQuiet`, `DrainTells` says what the wait knows before it answers:
while a restart waits or closes the server, each run of this lifecycle that may come to
work is in its snapshot, because the gateway refuses every new task from the signal on
(`Marked`), and then the wait cannot have found its snapshot ended.

**Follow-up queue.** `Sound` speaks of queue objects one by one and in pairs. In an object
(`QueueOK`), no item is there twice, none has been answered, and those its run carries are
the first ones and no more than the run will take off, so that the splice after the run
leaves only what the run did not carry. Between objects (`Apart`), no message of one is queued
in, or carried by, another: every message enters once, because the dedupe cache remembers
all that entered (`InQueue(q) \cup q.carried \subseteq recent`). Without this a redelivery
after a clear could put a message in the new object while the old one's run carries it, and
`AnsweredOnce` would fail. `Clean` says that a collected object is as good as new. The proof
goes by what a step does to one object (a push, an overflow, a wake, an end of a run), and
lifts that to the registry.

`NothingLost` needs more than the program always keeps: with another policy than `new` an
overflow takes items off the head while a run has them in flight, and after a clear the
old object's drain deletes the key of an object it never served (section 5). `NewOnly`
excludes both, and is what the run `followup_queue_live` instantiates. Then (`Holding`)
only the registered object has a drain, an object never counts drops, its run carries
exactly the items it will take off, and each waiting message is in that object.

**Cron service.** Three places know of an execution: its claim, and its job's marker in
memory and on file. `Guarded` says that a claim has its marker in both, unless an edit or
its age took the marker off (`loose`), and then no section can claim the job again, which is
`AloneIn`, of which `OneExecution` is a corollary. A claim ends with the wait for its
execution: `OneExecution` says that the service awaits one execution of a job at a time, and
nothing of one that timed out, beside which the next may start (`NoOverlap`, section 5). For
the other direction, `Backed` says that while writes succeed only claimed jobs are marked;
it needs `Agree` (memory and file have the same jobs, enabled alike), because some sections
reload from the file and others write what the memory has, and `Booting`, because the
clearing of markers at a start is right only while nothing runs. A lemma per kind of section
(`SectionKeeps` for the save that ends it, `BatchEnds` for outcomes, `WalkMarks` for the
walks over a store) carries all of it through every action. `EditsStick` follows step by
step: applying an outcome removes jobs or disables them. `TimerIsKept` needs `TimerInv`:
only enabled jobs have a next run, and all of them but one-shots that ran at their time
(`Planned`), so that a walk over the store plans no job anew; and while writes succeed
memory and file have the same jobs to wake for, so that a section which leaves the timer
alone leaves no job without one. `SlotsAreKept` needs `SlotInv`, about times: a next run
lies after the last one, or is the time of a one-shot job (`OnTime`); outcomes keep this
because executions end no earlier than they start (`Elapsed`). So the walk that moves on
slots which ran (`recomputeNextRunsForMaintenance`) finds none that is due and did not. And
while writes succeed memory and file agree about every next run (`SameNexts`), so that a
section which writes what the memory has moves none. Claims of one job can be counted
although there may be any number of jobs (`Countable`), so that an applied outcome leaves
fewer of them.

**Session lock.** `CreatorIsAlone`, `TableIsOwned` and `Counted` (the count of a held lock
is the number of users that entered it) say whose ticket is whose; then a release that
reaches zero is that of the last user, and `OnlyOwnReleaseEnds` follows. `LiveHasFile`: as
long as nothing live was stolen, a live ticket is the one on disk, so exclusive creation
fails for everybody else and `OneProcessInside` follows. `Calm` is the invariant of the
time before the first death, old lock or clean-up: nobody holds a reading that looks stale.

**Approvals and nodes.** The two components share no variable, so the invariant is one for
each and a third part that joins them. `TimersMatch` says that an expiry timer is that of
the undecided entry its id finds, whence `NoEarlyExpiry` although ids are used again.
`SessionsServe` says which connection a session may have: a registered one, and if its close
was handled it was handled before the registration. `RecordMatches` ties the record to the
promise of the request; `RunsMatch` says that a record from which an allow-once can still be
consumed has no run, so that consuming it makes exactly one.

**Heartbeats.** What a callback has still to do, and the wake it awaits, come from its
batch (`TodoOfBatch`, `CurrentOfBatch`), so requeueing one wake or the batch loses nothing
and demotes nothing. `FlagCounts` counts the callbacks in flight against the flag `running`
and the number of runners started under one: without the flag's part, a callback that
clears the flag of its successor would not be accounted for.

Every safety invariant and action property that a passing run checks is a theorem. Only
model-checked are the liveness properties (`AcceptedStarts`, `StopEnds`, `RestartEnds`,
`RequestIsEmitted`, `AcceptedTurnEnds`, `WaitingIsAnswered`, `OwedIsSettled`,
`UrgentIsHeard`): fairness and ENABLED are beyond the proof system.

## 5. Where the code and its documents disagree

One statement is a run that TLC must find violated; the line it quotes is in
`PROJECT.json`.

`cron_one_shot_replay` checks `NoReplayAfterCrash`, after the test that says "does not
replay interrupted one-shot jobs on startup" (`cron/service.restart-catchup.test.ts:195`).
The catch-up does leave such a job out (`cron/service/ops.ts:119`), but its next run stays
in the past. `start()` arms the timer (with at least the two seconds of `timer.ts:543`), and
its first tick runs the job again. The property counts only executions whose time had come
when they were cut off, and only what ticks claim after the start: TLC's trace is that of the
test, a due job that was running when the process died, with one tick more.

More statements of documents and comments are written down as definitions next to the
properties. TLC refutes each of them on the instance of the module (`DrainedMeansIdle` on
one with three sessions); they are not among the runs.

| Definition | Statement | What happens |
| --- | --- | --- |
| `RunLoop!DrainWindowCloses` | tasks are refused only during the drain window | a SIGUSR1 during `params.start()` ends in a resolver nobody waits on; the draining flag stays set |
| `GatewayLifecycle!SessionExclusive` | one active run per session (`docs/concepts/queue.md`) | after a restart whose drain timed out, the abandoned run and the next one work side by side |
| `GatewayLifecycle!DrainedMeansIdle` | "all active work drained" (`run-loop.ts:151`) | a run that the last lifecycle left queued on the main lane starts after the snapshot; this needs a third session |
| `FollowupQueue!RunCarriesWhatItTakes` | what leaves the queue after a run was in the run | an overflow shifts the items in flight off the head, and the splice after the run removes newer ones; in follow-up mode a summary takes the head message's place |
| `DeliveryQueue!SentOnce` | a message is sent once | it is sent again after a crash before the first rename, and by a recovery that scans what a live sender is sending |
| `DeliveryQueue!RemovedAfterSuccess` | "persist before sending, remove after success" (`deliver.ts:484`) | a channel's own timeout may be named `AbortError` (BlueBubbles requests, `src/superclaw/extensions/bluebubbles/src/types.ts:129`; any use of `utils/fetch-timeout.ts:22`); the wrapper takes it for the caller's abort (`deliver.ts:245`) and acknowledges the message (`deliver.ts:528`): it is lost |
| `CronService!NoOverlap` | an execution of a job starts when its last one is over | a timeout ends the wait and clears the marker (`timer.ts:76`), while the heartbeat of a main-session job heeds no signal and goes on (`timer.ts:1069`); the next slot, or a manual run, starts beside it |
| `NodeRegistry!SessionsAreOpen` | a session ends with its connection | a connection is asked whether it closed before the awaits of its handshake (`gateway/server/ws-connection/message-handler.ts:259`), and registered after them (`message-handler.ts:1000`); the close handler ran in between and found no client (`ws-connection.ts:245`), so the session of the closed connection stays, takes the place of the node's live one, and invokes sent to it fail or time out |
| `RestartScheduler!CooldownApplies` | a 30-second cooldown applies between restart cycles (`docs/gateway/configuration.md:498`) | the config watcher and a deferral emit without looking at the cooldown |
| `Heartbeat!EnabledIsArmed` | "turn heartbeats back on" (`docs/cli/system.md:41`) | a wake that came while heartbeats were disabled ended the interval chain (`heartbeat-runner.ts:1061`), and enabling them does not arm it |

Other behaviours the models show, met while the properties were being stated; where a
property has to excuse one, it is named.

*Run loop and restarts*
- `run-loop.ts:169`: the signal of `DrainWindowCloses` finds `server` null; the server that
  comes up afterwards keeps the port and is never closed.
- Two deferrals each emit a signal: the second comes after the first one's restart.
- Cycle tokens never coalesce anything: `process.emit` delivers the signal before the
  request returns, so the token is consumed when the next request looks at it.

*Follow-up queue*
- `drain.ts:172`: the drain of a cleared queue object deletes the key, and with it an
  object made since (`NothingLost` is therefore checked without clears).
- `drain.ts:132`: drops counted while a summary run is awaited are reset after it.
- `drain.ts:144`: with only drops left to tell, follow-up mode breaks out of the loop and
  schedules itself again without end.
- `drain.ts:118`: drops left over from `summarize` after a change of policy start turns
  that carry a title and nothing else.
- `enqueue.ts:101`: a message enqueued after its run ended, before any drain since the
  last clear, waits until the session's next turn (`KnownCallbackDrains` and
  `WaitingIsAnswered` therefore assume a cached callback).

*Delivery queue*
- `delivery-queue.ts:183`: a recovery's scan takes entries this process is sending.
- `delivery-queue.ts:374`: a recovery passes no `onError`, so a failed best-effort resend
  is acknowledged, and so is a timeout named `AbortError` (`RemovedAfterSuccess`, above).
  `KeepsContract` therefore speaks of firm messages only: neither best effort nor to a
  channel with such timeouts.
- `delivery-queue.ts:167`: retry counts are read before an await and written after it.
  Recoveries that overlap after restarts in place overwrite each other's counts, and an
  entry is tried more often than `MAX_RETRIES` allows (`RetriesBounded` is therefore
  checked and proved for one recovery at a time).
- `delivery-queue.ts:175`: a `failDelivery` under way writes back an entry that was
  acknowledged after it read it (the exception in `AckedStaysGone`).

*Cron*
- The recomputation at the end of `start()` and in `add()` moves on slots that became due
  and did not run, which the tick takes care not to do (`timer.ts:986`); `SlotsAreKept`
  excuses both.
- A forced run of a disabled job loses its marker at the next walk of `list` or `status`,
  and may then be started a second time; so may one that runs for longer than the stuck
  limit (`loose` in `OneExecution`).
- An execution that timed out may go on beside the next one of its job (`NoOverlap`, above;
  `OneExecution` counts awaited executions only).
- A failed write of an outcome leaves the marker on file until it counts as stuck, two
  hours later (`MarkersAreBacked` speaks of successful writes).
- A job of a batch that is disabled or removed while an earlier one executes is executed
  nevertheless.
- After two crashes in a row even the catch-up replays an interrupted one-shot: the first
  start takes its marker off, and the second finds nothing that tells it was cut off.

*Session lock*
- Between the inspection of a stale file and its removal another process may have put a
  new one at the path, which is removed (`stolen`).
- A live lock older than `staleMs` is taken away if the caller allows longer holds.
- Without start times of processes, a file of this process that is being created or closed
  looks like an orphan of an earlier process with the same number.
- `cleanStaleLockFiles` removes a file that was just created and has no payload yet. A file
  that vanished since the directory was read has none either, and whatever stands at its path
  by then is removed (`session-write-lock.ts:404`).
- Re-entrance gives no exclusion between calls inside one process.
- On a signal other listeners handle, locks are released while runs still drain.

*Approvals and nodes*
- The close of a node's old connection, handled after the node's reconnection, removes
  the new session and rejects its invokes; `WaitingHasSession` says that nobody waits on.
- A connection closed during its handshake gets a session for good (`SessionsAreOpen`, above).
- `exec.approval.request` answers `null` when there were no clients at its start, although
  an operator decided while the request was being forwarded.
- The fall-back on a request nobody answered can be used in the very millisecond
  `expiresAtMs` only: before it the record is undecided, after it expired.
- A send that fails has consumed the approval.

*Heartbeats*
- A timer with no delay fires again every millisecond while a heartbeat runs.
- A throw queues again wakes of its batch that already ran; a busy later agent makes
  earlier agents run again.
- Once a runner was replaced under a heartbeat, two heartbeats may overlap, and from then on the
  flag is cleared under whoever runs (`overlaps` in `OneHeartbeat`).
- A batch goes on with the handler it started with. Once that runner was stopped, its handler
  refuses the batch's wakes as disabled, and they are dropped (`heartbeat-wake.ts:165`); they
  were put to a handler, so `UrgentIsKept` and `UrgentIsHeard` count them as heard.
- Wakes behind an interrupted heartbeat of the old runner are stranded with it
  (`Stranded` in `UrgentIsHeard`).

Three properties say less than the hazards they are listed for: `DrainedMeansEnded` excuses
tasks a reset abandoned; `OneProcessInside` holds until a live file was removed as stale, so
it does not catch that removal itself; and on the instance with two callbacks in flight
`OneHeartbeat` says nothing after one overlap (the theorem does, for any number of them).

Two hazards in `PROJECT.json` have no property because the code does run into them:
`drain.ts:132` and `drain.ts:155`, described above.

## 6. Plan

Done, in this order: `LaneState`, `CommandQueue`, its proofs, `RunLoop`,
`GatewayLifecycle`, `FollowupQueue`, `DeliveryContract`, `DeliveryQueue`, its proofs,
`CronService`, `SessionLock` and its proofs, `NodeRegistry`, `ExecApprovals`, `NodeInvoke`,
`Heartbeat`, `RestartScheduler`, the proofs of those three, the proofs of `CronService`,
the proofs of `GatewayLifecycle`, the proofs of `FollowupQueue`.

Next, by importance:

1. `SubagentRegistry` (`agents/subagent-registry.ts`): announcements with retries and the
   restore from disk after a restart; each finished subagent is announced.
2. `ChannelManager`: start, stop and restart backoff of an account beside the health
   monitor; one running instance per account.
3. Two services on one cron file: a service that was stopped during a tick finishes it
   beside the next.

## 7. What is not modelled

Within the modelled components:
- size queries, diagnostics and log output; the text of prompts and summaries;
- transcript snapshots and message steering of a live run; aborts of runs, which only
  hasten an end;
- delivery queue: entries written by older versions, two writers sharing one temporary
  file name, file operations that fail for another reason than a missing file (such a
  failure is ignored or logged, and the entry stays for the next recovery), a transcript
  mirror that fails after the channel took the message;
- cron: edits of a schedule, schedule errors, deliveries and failure alerts, the lane in which manual
  runs queue, two services on one file;
- session lock: the payload but for what makes a file stale, back-off times;
- nodes and approvals: events without an answer, the match of command, directory and
  caller with the approved request, waking a node that is not connected;
  delays beyond 2^31-1 ms, which `setTimeout` fires at once: `timeoutMs` of an approval has
  no maximum, and the models' timers are never early;
- heartbeats: when an agent is due, active hours, what is said;
- restarts: restarts by a supervisor of another process, hot reload of parts of the
  configuration.

Components left out are in `PROJECT.json` with their reasons. Most of the repository's
lines are channel adapters, tools, commands, providers, native apps and configuration:
protocols of external services, parsing and user interface without interleavings of
their own, which tests reach better than a model does. The models cover the parts through
which all of these go when order matters. Liveness is model-checked only.
