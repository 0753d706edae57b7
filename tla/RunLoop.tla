------------------------------- MODULE RunLoop -------------------------------
(***************************************************************************)
(* runGatewayLoop of src/cli/gateway-cli/run-loop.ts: the loop that starts *)
(* the gateway server and waits for a restart, and the signal handlers     *)
(* that drain, close and then exit or restart in process.                  *)
(*                                                                         *)
(* The two are concurrent: the loop is suspended in params.start(), in a   *)
(* lock release or in the promise a restart resolves, while the handler of *)
(* a signal (one at a time, `shuttingDown`) goes through its own awaits.   *)
(* A step is what one of them does between two awaits.  Authorization and  *)
(* coalescing of SIGUSR1 happen before, in infra/restart.ts.  The lock is  *)
(* a file another gateway process competes for; releasing it removes the   *)
(* file, whoever wrote it, and forgets the handle only afterwards.         *)
(***************************************************************************)
EXTENDS Integers

CONSTANTS
    MaxSignals,  \* bound: signals that start a shutdown in one behaviour
    Rivals,      \* whether another gateway process competes for the lock
    CloseErrors  \* whether server.close() may reject and leave the port bound

ASSUME RunLoopAssumption ==
    MaxSignals \in Nat /\ Rivals \in BOOLEAN /\ CloseErrors \in BOOLEAN

VARIABLES
    loop,             \* where the loop is suspended
    isFirstStart,
    server,           \* the variable `server`
    listening,        \* whether a server of this process holds the port
    lock,             \* whether the variable `lock` holds a handle
    lockFile,         \* whose process wrote the lock file
    shutdown,         \* the running request: its action and where it is
    signals,          \* requests accepted so far
    gatewayDraining   \* the command queue's flag

loopVars == <<loop, isFirstStart, server, listening, lock, lockFile, shutdown,
              signals, gatewayDraining>>

NoShutdown   == [action |-> "none", stage |-> "none"]
ShuttingDown == shutdown # NoShutdown

LoopInit ==
    /\ loop = "starting"
    /\ isFirstStart = TRUE
    /\ server = "none"
    /\ listening = FALSE
    /\ lock = TRUE
    /\ lockFile = "ours"
    /\ shutdown = NoShutdown
    /\ signals = 0
    /\ gatewayDraining = FALSE

Alive == loop # "exited"

Exit == loop' = "exited" /\ UNCHANGED <<isFirstStart, server, listening, signals>>

-----------------------------------------------------------------------------
(* The loop. *)

\* params.start() resolves; it binds the port exclusively.
StartOk ==
    /\ loop = "starting"
    /\ ~listening
    /\ server' = "up"
    /\ listening' = TRUE
    /\ isFirstStart' = FALSE
    /\ loop' = "parked"
    /\ UNCHANGED <<lock, lockFile, shutdown, signals, gatewayDraining>>

\* params.start() rejects.  On the first start the error leaves the loop; later
\* it is swallowed.  Either way the lock is released, if there is a handle.
StartFail ==
    /\ loop = "starting"
    /\ server' = "none"
    /\ loop' = IF lock THEN "releasing" ELSE IF isFirstStart THEN "exited" ELSE "parked"
    /\ UNCHANGED <<isFirstStart, listening, lock, lockFile, shutdown, signals,
                   gatewayDraining>>

LoopRemovesLock ==
    /\ loop = "releasing"
    /\ lockFile' = "free"
    /\ loop' = "released"
    /\ UNCHANGED <<isFirstStart, server, listening, lock, shutdown, signals,
                   gatewayDraining>>

LoopForgetsLock ==
    /\ loop = "released"
    /\ lock' = FALSE
    /\ loop' = IF isFirstStart THEN "exited" ELSE "parked"
    /\ UNCHANGED <<isFirstStart, server, listening, lockFile, shutdown, signals,
                   gatewayDraining>>

-----------------------------------------------------------------------------
(* The handler of a signal. *)

\* Leaving the drain: `await server?.close()` with the server there is, or
\* nothing to wait for.  Then `server = null` and the lock.
ToClose(action) ==
    IF server = "up"
    THEN shutdown' = [action |-> action, stage |-> "closing"] /\ UNCHANGED server
    ELSE /\ shutdown' = [action |-> action,
                         stage |-> IF lock THEN "releasing" ELSE "unlocked"]
         /\ server' = "none"

\* request("stop").
RequestStop ==
    /\ Alive /\ ~ShuttingDown /\ signals < MaxSignals
    /\ signals' = signals + 1
    /\ ToClose("stop")
    /\ UNCHANGED <<loop, isFirstStart, listening, lock, lockFile, gatewayDraining>>

\* Mutant: markGatewayDraining() is forgotten.
RequestRestartUnmarked(busy) ==
    /\ Alive /\ ~ShuttingDown /\ signals < MaxSignals
    /\ signals' = signals + 1
    /\ IF busy THEN /\ shutdown' = [action |-> "restart", stage |-> "draining"]
                    /\ UNCHANGED server
               ELSE ToClose("restart")
    /\ UNCHANGED <<loop, isFirstStart, listening, lock, lockFile, gatewayDraining>>

\* request("restart"); `busy` is whether any task or embedded run is active.
RequestRestart(busy) ==
    /\ Alive /\ ~ShuttingDown /\ signals < MaxSignals
    /\ signals' = signals + 1
    /\ gatewayDraining' = TRUE
    /\ IF busy THEN /\ shutdown' = [action |-> "restart", stage |-> "draining"]
                    /\ UNCHANGED server
               ELSE ToClose("restart")
    /\ UNCHANGED <<loop, isFirstStart, listening, lock, lockFile>>

\* Both waits have answered, drained or timed out.
EndDrain ==
    /\ Alive /\ shutdown.stage = "draining"
    /\ ToClose("restart")
    /\ UNCHANGED <<loop, isFirstStart, listening, lock, lockFile, signals,
                   gatewayDraining>>

\* server.close() resolves, or rejects with the port still bound; an error is
\* logged and the shutdown goes on.
CloseServer ==
    /\ Alive /\ shutdown.stage = "closing"
    /\ listening' \in IF CloseErrors THEN {FALSE, listening} ELSE {FALSE}
    /\ server' = "none"
    /\ shutdown' = [shutdown EXCEPT !.stage = IF lock THEN "releasing" ELSE "unlocked"]
    /\ UNCHANGED <<loop, isFirstStart, lock, lockFile, signals, gatewayDraining>>

\* Mutant: the timer is cleared before the server is closed.
ForceExitDraining ==
    /\ Alive /\ shutdown.stage = "draining"
    /\ Exit
    /\ UNCHANGED <<lock, lockFile, shutdown, gatewayDraining>>

\* The force-exit timer, armed until the server is closed.
ForceExit ==
    /\ Alive /\ shutdown.stage \in {"draining", "closing"}
    /\ Exit
    /\ UNCHANGED <<lock, lockFile, shutdown, gatewayDraining>>

RemoveLock ==
    /\ Alive /\ shutdown.stage = "releasing"
    /\ lockFile' = "free"
    /\ shutdown' = [shutdown EXCEPT !.stage = "released"]
    /\ UNCHANGED <<loop, isFirstStart, server, listening, lock, signals, gatewayDraining>>

\* The handle is forgotten; a stop exits.  A restart exits when a fresh
\* process takes over (spawned, or the supervisor's), and otherwise goes on in
\* this process: it takes the lock again if it had it.
AfterRelease(hadLock) ==
    \/ Exit /\ UNCHANGED <<shutdown, gatewayDraining>>
    \/ /\ shutdown.action = "restart"
       /\ shutdown' = [shutdown EXCEPT !.stage = IF hadLock THEN "locking" ELSE "ready"]
       /\ UNCHANGED <<loop, isFirstStart, server, listening, signals, gatewayDraining>>

\* Mutant: releaseLockIfHeld keeps the handle.
KeepLock ==
    /\ Alive /\ shutdown.stage = "released"
    /\ AfterRelease(TRUE)
    /\ UNCHANGED <<lock, lockFile>>

ForgetLock ==
    /\ Alive /\ shutdown.stage = "released"
    /\ lock' = FALSE
    /\ AfterRelease(TRUE)
    /\ UNCHANGED lockFile

SkipLock ==
    /\ Alive /\ shutdown.stage = "unlocked"
    /\ AfterRelease(FALSE)
    /\ UNCHANGED <<lock, lockFile>>

\* Mutant: the polling for the lock has no deadline.
RelockForever ==
    /\ Alive /\ shutdown.stage = "locking" /\ lockFile = "free"
    /\ lockFile' = "ours"
    /\ lock' = TRUE
    /\ shutdown' = [shutdown EXCEPT !.stage = "ready"]
    /\ UNCHANGED <<loop, isFirstStart, server, listening, signals, gatewayDraining>>

\* acquireGatewayLock creates the file if it is free, and otherwise gives up
\* after its timeout: the process exits.
Relock ==
    /\ Alive /\ shutdown.stage = "locking"
    /\ \/ /\ lockFile = "free"
          /\ lockFile' = "ours"
          /\ lock' = TRUE
          /\ shutdown' = [shutdown EXCEPT !.stage = "ready"]
          /\ UNCHANGED <<loop, isFirstStart, server, listening, signals>>
       \/ /\ lockFile # "free"
          /\ Exit
          /\ UNCHANGED <<lock, lockFile, shutdown>>
    /\ UNCHANGED gatewayDraining

\* `shuttingDown = false; restartResolver?.()`.  Only a parked loop waits for
\* that promise: it then resets the lanes and starts again.  A loop that is
\* still starting has not created it yet, or holds the previous, settled one.
Resume ==
    /\ Alive /\ shutdown.stage = "ready"
    /\ shutdown' = NoShutdown
    /\ IF loop = "parked"
       THEN loop' = "starting" /\ gatewayDraining' = FALSE
       ELSE UNCHANGED <<loop, gatewayDraining>>
    /\ UNCHANGED <<isFirstStart, server, listening, lock, lockFile, signals>>

\* The rival process takes a free lock, or that of an exited process, and
\* gives it back.
Rival ==
    /\ Rivals
    /\ \/ lockFile = "free" \/ (lockFile = "ours" /\ ~Alive)
       \/ lockFile = "other"
    /\ lockFile' = IF lockFile = "other" THEN "free" ELSE "other"
    /\ UNCHANGED <<loop, isFirstStart, server, listening, lock, shutdown, signals,
                   gatewayDraining>>

-----------------------------------------------------------------------------
LoopStep == StartOk \/ StartFail \/ LoopRemovesLock \/ LoopForgetsLock
Release  == RemoveLock \/ ForgetLock \/ SkipLock \/ Relock

LoopNext ==
    \/ LoopStep \/ Release \/ Resume
    \/ RequestStop
    \/ \E busy \in BOOLEAN : RequestRestart(busy)
    \/ EndDrain \/ CloseServer \/ ForceExit
    \/ Rival

LoopSpec == LoopInit /\ [][LoopNext]_loopVars

\* Timers fire (the drain deadlines, the force exit), file operations and the
\* lock's bounded polling end.  Closing or starting a server may hang.
LoopFair ==
    LoopSpec /\ WF_loopVars(EndDrain) /\ WF_loopVars(ForceExit)
             /\ WF_loopVars(Release) /\ WF_loopVars(Resume)

-----------------------------------------------------------------------------
LoopTypeOK ==
    /\ loop \in {"starting", "parked", "releasing", "released", "exited"}
    /\ isFirstStart \in BOOLEAN
    /\ server \in {"none", "up"}
    /\ listening \in BOOLEAN
    /\ lock \in BOOLEAN
    /\ lockFile \in {"ours", "other", "free"}
    /\ shutdown \in [action : {"none", "stop", "restart"},
                     stage : {"none", "draining", "closing", "releasing", "released",
                              "unlocked", "locking", "ready"}]
    /\ signals \in 0..MaxSignals
    /\ gatewayDraining \in BOOLEAN

\* Every accepted signal ends: a stop with the process gone, a restart with
\* the process gone or the handler free for the next signal, whether or not
\* the server ever closes.
StopEnds == shutdown.action = "stop" ~> ~Alive

\* A restart that finds the loop parked also starts the server anew.
RestartEnds ==
    /\ shutdown.action = "restart" ~> ~Alive \/ ~ShuttingDown
    /\ shutdown.action = "restart" /\ loop = "parked" ~> ~Alive \/ loop = "starting"

\* No shutdown in progress and the loop parked: tasks are accepted.
DrainWindowCloses == loop = "parked" /\ ~ShuttingDown => ~gatewayDraining

\* Outside a release, the handle stands for a file this process wrote.
HandleIsOurs ==
    /\ Alive /\ lock
    /\ loop \notin {"releasing", "released"}
    /\ shutdown.stage \notin {"releasing", "released"}
    => lockFile = "ours"
==============================================================================
