---------------------------- MODULE SessionLock ----------------------------
(***************************************************************************)
(* The write lock of one session file (src/agents/session-write-lock.ts):  *)
(* a lock file created exclusively, an in-process table of held locks that *)
(* makes it re-entrant, a watchdog that releases locks held for too long,  *)
(* and the removal of lock files whose owner is gone.                      *)
(*                                                                         *)
(* A ticket is one creation of the lock file with the HeldLock object it   *)
(* becomes, so that a file, an object and the reference a release closure  *)
(* keeps have an identity: the code compares objects, and removes files by *)
(* path.  Every await of the code is a boundary between two actions.       *)
(*                                                                         *)
(* Abstractions.  Ages are booleans: a ticket is old once its file passed  *)
(* staleMs.  Process numbers are compared through the ticket: the pid of a *)
(* dead ticket is not alive, or alive with another start time.             *)
(***************************************************************************)
EXTENDS Naturals, FiniteSets

CONSTANTS
    Users,       \* calls of acquireSessionWriteLock and their release
    Processes,
    ProcessOf,   \* the process of each user
    Tickets      \* bound: lock files that some process still knows of

\* No lock file, no held lock, no ticket.
CONSTANT None

ASSUME SessionLockAssumption ==
    /\ ProcessOf \in [Users -> Processes]
    /\ IsFiniteSet(Users)
    /\ None \notin Tickets /\ None \notin Processes

VARIABLES
    setting,    \* allowReentrant, and whether start times of processes are
                \* known, which they are on Linux only
    file,       \* the ticket the file at lockPath was created for
    full,       \* whether the payload is in it
    held,       \* HELD_LOCKS of each process for this session file
    ticket,     \* each ticket: [owner, pc, count, old]
    user,       \* each user: [pc, ticket]
    stolen,     \* history: the file of a ticket that some process was still
                \* creating, holding or releasing was removed as stale
    suspect     \* history: some ticket died or grew old, or the gateway
                \* cleaned up at its start

vars == <<setting, file, full, held, ticket, user, stolen, suspect>>

TicketRecord ==
    [owner : Processes \cup {None}, pc : {"none", "creating", "held", "closing", "dead"},
     count : Nat, old : BOOLEAN]

UserRecord ==
    [pc : {"idle", "try", "creating", "read", "reclaim", "inspect", "clean", "in"},
     ticket : Tickets \cup {None}]

TypeOK ==
    /\ setting \in [reentrant : BOOLEAN, startTimes : BOOLEAN]
    /\ file \in Tickets \cup {None}
    /\ full \in BOOLEAN
    /\ held \in [Processes -> Tickets \cup {None}]
    /\ ticket \in [Tickets -> TicketRecord]
    /\ user \in [Users -> UserRecord]
    /\ stolen \in BOOLEAN
    /\ suspect \in BOOLEAN

-----------------------------------------------------------------------------
Blank == [owner |-> None, pc |-> "none", count |-> 0, old |-> FALSE]

\* A ticket whose process still knows of it.
Live(t) == ticket[t].pc \in {"creating", "held", "closing"}

Unused(t) == ~Live(t) /\ file # t /\ \A u \in Users : user[u].ticket # t

Enters(u, pc, t) == user' = [user EXCEPT ![u] = [pc |-> pc, ticket |-> t]]

\* rm(lockPath): it removes whatever file is there.
Removed == file' = None /\ full' = FALSE

\* The removal of a lock file found stale.
Reclaimed ==
    /\ Removed
    /\ stolen' = (stolen \/ (file # None /\ Live(file)))
    /\ ticket' = [t \in Tickets |-> IF t = file /\ ~Live(t) THEN Blank ELSE ticket[t]]

-----------------------------------------------------------------------------
\* acquireSessionWriteLock

\* A call enters at once a lock its process holds, or goes to the file.
Acquire(u) ==
    /\ user[u].pc = "idle"
    /\ LET t == held[ProcessOf[u]]
       IN  IF setting.reentrant /\ t # None
           THEN /\ Enters(u, "in", t)
                /\ ticket' = [ticket EXCEPT ![t].count = @ + 1]
           ELSE Enters(u, "try", None) /\ UNCHANGED ticket
    /\ UNCHANGED <<setting, file, full, held, stolen, suspect>>

\* Mutant: open does not insist on a new file.
OpenShared(u, t) ==
    /\ user[u].pc = "try" /\ Unused(t)
    /\ file' = t /\ full' = FALSE
    /\ ticket' = [ticket EXCEPT ![t] =
            [owner |-> ProcessOf[u], pc |-> "creating", count |-> 0, old |-> FALSE]]
    /\ Enters(u, "creating", t)
    /\ UNCHANGED <<setting, held, stolen, suspect>>

\* open(lockPath, "wx") creates the file.
Open(u, t) ==
    /\ user[u].pc = "try" /\ file = None /\ Unused(t)
    /\ file' = t /\ full' = FALSE
    /\ ticket' = [ticket EXCEPT ![t] =
            [owner |-> ProcessOf[u], pc |-> "creating", count |-> 0, old |-> FALSE]]
    /\ Enters(u, "creating", t)
    /\ UNCHANGED <<setting, held, stolen, suspect>>

\* The file exists, and its payload will be read.
Contend(u) ==
    /\ user[u].pc = "try" /\ file # None
    /\ Enters(u, "read", None)
    /\ UNCHANGED <<setting, file, full, held, ticket, stolen, suspect>>

\* writeFile(payload) reaches the file, if it is still there.
WritePayload(u) ==
    /\ user[u].pc = "creating" /\ file = user[u].ticket /\ ~full
    /\ full' = TRUE
    /\ UNCHANGED <<setting, file, held, ticket, user, stolen, suspect>>

\* The lock is entered in HELD_LOCKS after the write.
Hold(u) ==
    LET t == user[u].ticket
    IN  /\ user[u].pc = "creating" /\ (file = t => full)
        /\ held' = [held EXCEPT ![ProcessOf[u]] = t]
        /\ ticket' = [ticket EXCEPT ![t].pc = "held", ![t].count = 1]
        /\ Enters(u, "in", t)
        /\ UNCHANGED <<setting, file, full, stolen, suspect>>

\* The write fails: the file is removed and the error thrown.
CreateFails(u) ==
    /\ user[u].pc = "creating"
    /\ Removed
    /\ ticket' = [ticket EXCEPT ![user[u].ticket] = Blank]
    /\ Enters(u, "idle", None)
    /\ UNCHANGED <<setting, held, stolen, suspect>>

\* shouldTreatAsOrphanSelfLock, for a ticket whose payload is read by p.
OrphanSelf(t, p) ==
    ~setting.startTimes /\ ticket[t].owner = p /\ held[p] = None

\* Mutant: a file without a payload is stale whatever its age.
StaleUnwritten(p) ==
    file # None /\ IF full THEN \/ ticket[file].pc = "dead" \/ ticket[file].old
                               \/ OrphanSelf(file, p)
                   ELSE TRUE

\* What a waiter of process p finds in the lock file: inspectLockPayload and
\* shouldReclaimContendedLockFile.  A file without a payload must be old.
StaleFor(p) ==
    file # None /\ IF full THEN \/ ticket[file].pc = "dead" \/ ticket[file].old
                               \/ OrphanSelf(file, p)
                   ELSE ticket[file].old

\* The waiter reads the payload; it removes a stale file or sleeps.
Read(u) ==
    /\ user[u].pc = "read"
    /\ Enters(u, IF StaleFor(ProcessOf[u]) THEN "reclaim" ELSE "try", None)
    /\ UNCHANGED <<setting, file, full, held, ticket, stolen, suspect>>

Reclaim(u) ==
    /\ user[u].pc = "reclaim"
    /\ Reclaimed
    /\ Enters(u, "try", None)
    /\ UNCHANGED <<setting, held, suspect>>

GiveUp(u) ==
    /\ user[u].pc = "try"
    /\ Enters(u, "idle", None)
    /\ UNCHANGED <<setting, file, full, held, ticket, stolen, suspect>>

-----------------------------------------------------------------------------
\* releaseHeldLock

\* Mutant: a release counts down whatever lock its process holds now.
ReleaseCurrent(u) ==
    LET p == ProcessOf[u]
        t == held[p]
    IN  /\ user[u].pc = "in"
        /\ Enters(u, "idle", None)
        /\ IF t = None
           THEN UNCHANGED <<held, ticket>>
           ELSE IF ticket[t].count > 1
           THEN ticket' = [ticket EXCEPT ![t].count = @ - 1] /\ UNCHANGED held
           ELSE /\ held' = [held EXCEPT ![p] = None]
                /\ ticket' = [ticket EXCEPT ![t].count = 0, ![t].pc = "closing"]
        /\ UNCHANGED <<setting, file, full, stolen, suspect>>

\* Mutant: the last release leaves the lock in the table until its file is gone.
ReleaseKeepsEntry(u) ==
    LET t == user[u].ticket
    IN  /\ user[u].pc = "in"
        /\ Enters(u, "idle", None)
        /\ IF held[ProcessOf[u]] # t
           THEN UNCHANGED ticket
           ELSE ticket' = IF ticket[t].count > 1 THEN [ticket EXCEPT ![t].count = @ - 1]
                          ELSE [ticket EXCEPT ![t].pc = "closing"]
        /\ UNCHANGED <<setting, file, full, held, stolen, suspect>>

\* A release by the closure of acquire: it does nothing for a lock that is no
\* longer the one its process holds, and the last one leaves the table.
Release(u) ==
    LET p == ProcessOf[u]
        t == user[u].ticket
    IN  /\ user[u].pc = "in"
        /\ Enters(u, "idle", None)
        /\ IF held[p] # t
           THEN UNCHANGED <<held, ticket>>
           ELSE IF ticket[t].count > 1
           THEN ticket' = [ticket EXCEPT ![t].count = @ - 1] /\ UNCHANGED held
           ELSE /\ held' = [held EXCEPT ![p] = None]
                /\ ticket' = [ticket EXCEPT ![t].count = 0, ![t].pc = "closing"]
        /\ UNCHANGED <<setting, file, full, stolen, suspect>>

\* runLockWatchdogCheck: a lock held longer than maxHoldMs is released by force
\* while its users are still inside.
Watchdog(p) ==
    LET t == held[p]
    IN  /\ t # None
        /\ held' = [held EXCEPT ![p] = None]
        /\ ticket' = [ticket EXCEPT ![t].count = 0, ![t].pc = "closing"]
        /\ UNCHANGED <<setting, file, full, user, stolen, suspect>>

\* The releasePromise: the handle is closed and the file removed.
RemoveFile(t) ==
    /\ ticket[t].pc = "closing"
    /\ Removed
    /\ ticket' = [ticket EXCEPT ![t] = Blank]
    /\ UNCHANGED <<setting, held, user, stolen, suspect>>

-----------------------------------------------------------------------------
\* cleanStaleLockFiles, which the gateway and the doctor run at their start:
\* a listed file without a payload is stale whatever its age, and so is one that
\* is gone when it is read.

StartClean(u) ==
    /\ user[u].pc = "idle" /\ file # None
    /\ Enters(u, "inspect", None)
    /\ suspect' = TRUE
    /\ UNCHANGED <<setting, file, full, held, ticket, stolen>>

CleanRead(u) ==
    /\ user[u].pc = "inspect"
    /\ Enters(u, IF file = None \/ (full => ticket[file].pc = "dead" \/ ticket[file].old)
                 THEN "clean" ELSE "idle", None)
    /\ UNCHANGED <<setting, file, full, held, ticket, stolen, suspect>>

CleanRemove(u) ==
    /\ user[u].pc = "clean"
    /\ Reclaimed
    /\ Enters(u, "idle", None)
    /\ UNCHANGED <<setting, held, suspect>>

-----------------------------------------------------------------------------
\* The environment: time, and the death of processes.

GrowOld(t) ==
    /\ file = t /\ ~ticket[t].old
    /\ ticket' = [ticket EXCEPT ![t].old = TRUE]
    /\ suspect' = TRUE
    /\ UNCHANGED <<setting, file, full, held, user, stolen>>

\* What the death of p leaves of its users, tickets and table: a lock file left
\* behind keeps its dead ticket.
Died(p) ==
    /\ held' = [held EXCEPT ![p] = None]
    /\ ticket' = [t \in Tickets |->
            IF ticket[t].owner # p \/ ~Live(t) THEN ticket[t]
            ELSE IF file' = t THEN [ticket[t] EXCEPT !.pc = "dead", !.count = 0]
            ELSE Blank]
    /\ user' = [u \in Users |->
            IF ProcessOf[u] = p THEN [pc |-> "idle", ticket |-> None] ELSE user[u]]
    /\ suspect' = TRUE
    /\ UNCHANGED <<setting, stolen>>

Crash(p) == UNCHANGED <<file, full>> /\ Died(p)

\* releaseAllLocksSync on a termination signal that the process has other
\* listeners for: it lives on, and so do the users whose lock is gone.
Signal(p) ==
    /\ held[p] # None
    /\ Removed
    /\ held' = [held EXCEPT ![p] = None]
    /\ ticket' = [ticket EXCEPT ![held[p]] = Blank]
    /\ UNCHANGED <<setting, user, stolen, suspect>>

\* releaseAllLocksSync as the process ends.
Exit(p) ==
    /\ IF held[p] # None THEN Removed ELSE UNCHANGED <<file, full>>
    /\ Died(p)

-----------------------------------------------------------------------------
Init ==
    /\ setting \in [reentrant : BOOLEAN, startTimes : BOOLEAN]
    /\ file = None /\ full = FALSE
    /\ held = [p \in Processes |-> None]
    /\ ticket = [t \in Tickets |-> Blank]
    /\ user = [u \in Users |-> [pc |-> "idle", ticket |-> None]]
    /\ stolen = FALSE /\ suspect = FALSE

Next ==
    \/ \E u \in Users :
        \/ Acquire(u) \/ Contend(u) \/ WritePayload(u) \/ Hold(u) \/ CreateFails(u)
        \/ Read(u) \/ Reclaim(u) \/ GiveUp(u) \/ Release(u)
        \/ StartClean(u) \/ CleanRead(u) \/ CleanRemove(u)
        \/ \E t \in Tickets : Open(u, t)
    \/ \E t \in Tickets : RemoveFile(t) \/ GrowOld(t)
    \/ \E p \in Processes : Watchdog(p) \/ Signal(p) \/ Crash(p) \/ Exit(p)

Spec == Init /\ [][Next]_vars

-----------------------------------------------------------------------------
\* The lock a user has entered, and its process still holds for it.
Inside(u) == user[u].pc = "in" /\ held[ProcessOf[u]] = user[u].ticket

\* As long as no live lock file was taken for stale, whoever is inside has the
\* lock file on disk, with its own payload: neither the inner release of a
\* re-entrant call, nor a release after the watchdog's, nor a failed creation
\* removes the file of the lock that protects it.
FileProtects ==
    ~stolen => \A u \in Users : Inside(u) => file = user[u].ticket /\ full

\* Under the same condition two processes are never inside together.
OneProcessInside ==
    ~stolen => \A u, v \in Users : Inside(u) /\ Inside(v) => ProcessOf[u] = ProcessOf[v]

\* Under the same condition a user stays inside until its own release, the
\* watchdog, or the exit, death or signal of its process: no other user's release ends its hold,
\* whether that one is re-entrant or comes after the watchdog's.
OnlyOwnReleaseEnds ==
    [][~stolen => \A u \in Users :
          Inside(u) /\ ~Inside(u)' => user'[u] # user[u] \/ user' = user]_vars

\* Where start times are known, a waiter takes a live lock file for stale only
\* after a process died, a lock grew old, or a clean-up of the gateway began.
NoFalseSuspicion ==
    setting.startTimes /\ ~suspect => ~stolen
=============================================================================
