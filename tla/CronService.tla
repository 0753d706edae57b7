---------------------------- MODULE CronService ----------------------------
(***************************************************************************)
(* The cron service (src/cron/service): jobs in a store file, a timer that *)
(* claims the due ones, manual runs, edits, and the catch-up after a       *)
(* restart of the gateway.                                                 *)
(*                                                                         *)
(* locked() runs critical sections one at a time, so a section is one      *)
(* action; between sections jobs execute outside the lock.  A section      *)
(* works on the store in memory, which some sections reload from the file  *)
(* first, and ends by writing the file; when the write fails the section   *)
(* throws there, and the memory keeps what the file lacks.                 *)
(*                                                                         *)
(* Abstractions.  Time is counted in units of the schedules' period: a     *)
(* recurring job has a slot at each multiple of its Slot, a one-shot job   *)
(* one at its Slot.  A timer that is armed may fire at any moment, because *)
(* armTimer never sleeps longer than a minute.  The order of the jobs in   *)
(* the file and payloads, deliveries and alerts are left out.              *)
(***************************************************************************)
EXTENDS Integers, FiniteSets

CONSTANTS
    Jobs, OneShots, Slot,   \* jobs; those of kind `at`; period or time
    Endings,                \* how executions of each job may end
    AtStart,                \* jobs in the file when the gateway first starts
    Runs,                   \* bound: manual runs under way at the same time
    Concurrency,            \* cronConfig.maxConcurrentRuns
    MaxMissed,              \* maxMissedJobsPerRestart
    Backoff, StuckAfter,    \* errorBackoffMs, STUCK_RUN_MS
    MaxTime,                \* bound
    MaxTrouble              \* bound: edits, crashes, timeouts and failed writes in all

None == -1

\* No job: the manual run is not between its two sections.
NoJob == "none"

ASSUME CronAssumption ==
    /\ OneShots \subseteq Jobs /\ AtStart \subseteq Jobs
    /\ Slot \in [Jobs -> Nat \ {0}]
    /\ Endings \in [Jobs -> SUBSET {"ok", "skipped", "error", "fatal"}]
    /\ {Concurrency, Backoff, StuckAfter} \subseteq Nat \ {0}
    /\ {MaxMissed, MaxTime, MaxTrouble} \subseteq Nat

VARIABLES
    now,      \* deps.nowMs()
    disk,     \* the store file: a function from the jobs it holds
    mem,      \* state.store
    start,    \* start(): [pc, interrupted, deferred]
    tick,     \* onTimer(): pc
    timer,    \* whether state.timer is set
    claims,   \* executions claimed and not yet applied
    manual,   \* manual runs between preflight and reservation
    loose,    \* history: jobs whose execution cannot keep its marker, for being
              \* disabled or stale, for as long as executions of them last
    cut,      \* history: one-shot jobs whose execution of a due slot a crash cut off
    strays,   \* jobs of which an execution that timed out still goes on
    used      \* [edits, stops (crashes and timeouts), faults, born]: what the bounds count

vars == <<now, disk, mem, start, tick, timer, claims, manual, loose, cut, strays, used>>

-----------------------------------------------------------------------------
\* Schedules and single jobs.

NextSlot(j, t) == (t \div Slot[j] + 1) * Slot[j]

PreviousSlot(j, t) == (t \div Slot[j]) * Slot[j]

\* computeJobNextRunAtMs
NextRun(j, job) ==
    IF ~job.enabled THEN None
    ELSE IF j \notin OneShots THEN NextSlot(j, now)
    ELSE IF job.status = "ok" /\ job.last # None /\ Slot[j] <= job.last THEN None
    ELSE Slot[j]

Fresh(j) ==
    LET job == [enabled |-> TRUE, next |-> None, marker |-> None,
                last |-> None, status |-> "none"]
    IN  [job EXCEPT !.next = NextRun(j, job)]

Due(job) == job.enabled /\ job.marker = None /\ job.next # None /\ now >= job.next

\* isErrorBackoffPending
BackingOff(j, job) ==
    j \notin OneShots /\ job.status = "error" /\ job.last # None /\ now < job.last + Backoff

\* isRunnableJob as the catch-up calls it, with skipAtIfAlreadyRan and
\* allowCronMissedRunByLastRun.
Missed(j, job) ==
    /\ job.enabled /\ job.marker = None
    /\ IF j \in OneShots /\ job.status # "none"
       THEN job.status = "error" /\ job.next > job.last /\ Due(job)
       ELSE \/ Due(job)
            \/ /\ j \notin OneShots /\ job.last # None
               /\ ~(job.next > now /\ BackingOff(j, job))
               /\ PreviousSlot(j, now) > job.last

Stale(job) == job.marker # None /\ now - job.marker > StuckAfter

\* normalizeJobTickState
Normal(job) ==
    IF ~job.enabled THEN [job EXCEPT !.next = None, !.marker = None]
    ELSE IF Stale(job) THEN [job EXCEPT !.marker = None]
    ELSE job

\* recomputeNextRuns
Recomputed(store) ==
    [j \in DOMAIN store |->
        LET job == Normal(store[j])
        IN  IF job.next = None \/ now >= job.next
            THEN [job EXCEPT !.next = NextRun(j, job)] ELSE job]

\* Mutant: the tick's maintenance advances whatever is past due.
MaintainedEagerly(store, expired) == Recomputed(store)

\* recomputeNextRunsForMaintenance: an expired slot advances only when it ran.
Maintained(store, expired) ==
    [j \in DOMAIN store |->
        LET job == Normal(store[j])
        IN  IF \/ job.next = None
               \/ expired /\ now >= job.next /\ job.marker = None /\ job.last >= job.next
            THEN [job EXCEPT !.next = NextRun(j, job)] ELSE job]

\* applyJobResult, for a job that stays in the store.
Result(j, job, c) ==
    LET ended == [job EXCEPT !.marker = None, !.last = c.at,
                             !.status = IF c.outcome = "fatal" THEN "error" ELSE c.outcome]
        failed == c.outcome \in {"error", "fatal"}
        natural == NextSlot(j, c.ended)
    IN  IF j \in OneShots
        THEN IF c.outcome = "error" THEN [ended EXCEPT !.next = c.ended + Backoff]
             ELSE [ended EXCEPT !.enabled = FALSE, !.next = None]
        ELSE [ended EXCEPT !.next =
                IF ~job.enabled THEN None
                ELSE IF failed /\ c.ended + Backoff > natural THEN c.ended + Backoff
                ELSE natural]

\* shouldDelete: deleteAfterRun is set on one-shot jobs by default.
Deletes(c) == c.job \in OneShots /\ c.outcome = "ok"

\* applyOutcomeToStoredJob for each outcome of a batch; a job that is no
\* longer in the store loses its outcome.
Applied(store, batch) ==
    [j \in DOMAIN store \ {c.job : c \in {d \in batch : Deletes(d)}} |->
        LET mine == {c \in batch : c.job = j}
        IN  IF mine = {} THEN store[j] ELSE Result(j, store[j], CHOOSE c \in mine : TRUE)]

Marked(store, js, at) ==
    [j \in DOMAIN store |-> IF j \in js THEN [store[j] EXCEPT !.marker = at] ELSE store[j]]

\* Mutant: no timer for a next run that is already past.
WakesLater(store) == \E j \in DOMAIN store : store[j].enabled /\ store[j].next > now

\* armTimer: a timer is set when some enabled job has a next run.
Wakes(store) == \E j \in DOMAIN store : store[j].enabled /\ store[j].next # None

-----------------------------------------------------------------------------
\* Executions.  A claim is due until a worker takes it up, then running, then
\* has an outcome until its section applies it.  `own` says of a due claim of
\* the tick that the job object it holds is the one in memory.

Claim(by, j, at, outcome) ==
    [by |-> by, job |-> j, at |-> at, ended |-> None, outcome |-> outcome,
     own |-> by = "tick"]

By(b) == {c \in claims : c.by = b}

Over(cs) == \A c \in cs : c.outcome \notin {"due", "running"}

\* What a reload of the memory leaves of the executions under way.
Detached(cs) == {[c EXCEPT !.own = FALSE] : c \in cs}

Held(cs) == {c.job : c \in cs}

Trouble == used.edits + used.stops + used.faults < MaxTrouble

\* Jobs whose marker the next walk over the store takes off, whatever runs.
Unguarded(store) == {j \in DOMAIN store : ~store[j].enabled \/ Stale(store[j])}

\* persist(), which may fail, and the executions under way after the section.
Save(store, saved, cs) ==
    /\ saved \/ Trouble
    /\ mem' = store
    /\ disk' = IF saved THEN store ELSE disk
    /\ claims' = cs
    /\ loose' = Held(cs) \cap
         (loose \cup Unguarded(mem) \cup Unguarded(disk) \cup Unguarded(store))

Counted(saved, edits) ==
    used' = [used EXCEPT !.faults = IF saved THEN @ ELSE @ + 1, !.edits = @ + edits]

-----------------------------------------------------------------------------
\* start()

\* The markers on file are those of executions a crash cut off.
StartClear(saved) ==
    /\ start.pc = "boot"
    /\ LET interrupted == {j \in DOMAIN mem : mem[j].marker # None}
       IN  /\ Save(Marked(mem, interrupted, None), saved, claims)
           /\ start' = [start EXCEPT !.pc = IF saved THEN "plan" ELSE "failed",
                                     !.interrupted = interrupted]
    /\ Counted(saved, 0)
    /\ UNCHANGED <<now, tick, timer, manual, cut, strays>>

\* planStartupCatchup: the first MaxMissed missed jobs run at once.
StartPlan(saved) ==
    /\ start.pc = "plan"
    /\ LET missed == {j \in DOMAIN mem \ start.interrupted : Missed(j, mem[j])}
       IN  IF missed = {}
           THEN /\ saved
                /\ start' = [start EXCEPT !.pc = "arm", !.interrupted = {}]
                /\ UNCHANGED <<disk, mem, claims, loose>>
           ELSE \E first \in SUBSET missed :
                /\ Cardinality(first) =
                     IF Cardinality(missed) < MaxMissed THEN Cardinality(missed) ELSE MaxMissed
                /\ \A a \in first, b \in missed \ first : mem[a].next <= mem[b].next
                /\ Save(Marked(mem, first, now), saved,
                        IF saved THEN claims \cup {Claim("catchup", j, None, "due") : j \in first}
                        ELSE claims)
                /\ start' = [start EXCEPT !.pc = IF saved THEN "catchup" ELSE "failed",
                                          !.interrupted = {}, !.deferred = missed \ first]
    /\ Counted(saved, 0)
    /\ UNCHANGED <<now, tick, timer, manual, cut, strays>>

\* applyStartupCatchupOutcomes
StartApply(saved) ==
    /\ start.pc = "catchup" /\ Over(By("catchup"))
    /\ LET applied == Applied(disk, By("catchup"))
           staggered == [j \in DOMAIN applied |->
               IF j \in start.deferred /\ applied[j].enabled
               THEN [applied[j] EXCEPT !.next = now + 1] ELSE applied[j]]
       IN  Save(Maintained(staggered, FALSE), saved, Detached(claims \ By("catchup")))
    /\ start' = [start EXCEPT !.pc = IF saved THEN "arm" ELSE "failed", !.deferred = {}]
    /\ Counted(saved, 0)
    /\ UNCHANGED <<now, tick, timer, manual, cut, strays>>

StartArm(saved) ==
    /\ start.pc = "arm"
    /\ Save(Recomputed(disk), saved, Detached(claims))
    /\ timer' = IF saved THEN Wakes(Recomputed(disk)) ELSE timer
    /\ start' = [start EXCEPT !.pc = IF saved THEN "up" ELSE "failed"]
    /\ Counted(saved, 0)
    /\ UNCHANGED <<now, tick, manual, cut, strays>>

-----------------------------------------------------------------------------
\* onTimer().  A timer that fires during a tick only sets itself again.

TickFires ==
    /\ timer /\ tick = "idle"
    /\ tick' = "collect"
    /\ UNCHANGED <<now, disk, mem, start, timer, claims, manual, loose, cut, strays, used>>

TickCollect(saved) ==
    /\ tick = "collect"
    /\ LET due == {j \in DOMAIN disk : Due(disk[j])}
           idle == Maintained(disk, TRUE)
       IN  /\ due = {} /\ idle = disk => saved
           /\ Save(IF due = {} THEN idle ELSE Marked(disk, due, now), saved,
                   Detached(claims) \cup
                       {c \in {Claim("tick", j, None, "due") : j \in due} : saved})
           /\ tick' = IF saved /\ due # {} THEN "run" ELSE "end"
    /\ Counted(saved, 0)
    /\ UNCHANGED <<now, start, timer, manual, cut, strays>>

TickApply(saved) ==
    /\ tick = "run" /\ Over(By("tick"))
    /\ Save(Maintained(Applied(disk, By("tick")), FALSE), saved,
            Detached(claims \ By("tick")))
    /\ tick' = "end"
    /\ Counted(saved, 0)
    /\ UNCHANGED <<now, start, timer, manual, cut, strays>>

\* The finally block.
TickEnds ==
    /\ tick = "end"
    /\ tick' = "idle"
    /\ timer' = Wakes(mem)
    /\ UNCHANGED <<now, disk, mem, start, claims, manual, loose, cut, strays, used>>

\* A worker takes up the next claim of its batch; runDueJob writes the marker
\* of the job object it holds, outside the lock.
ExecutionStarts(c) ==
    /\ c.outcome = "due"
    /\ Cardinality({d \in By(c.by) : d.outcome = "running"}) <
         IF c.by = "tick" THEN Concurrency ELSE 1
    /\ claims' = (claims \ {c}) \cup {[c EXCEPT !.outcome = "running", !.at = now, !.own = FALSE]}
    /\ mem' = IF c.own /\ c.job \in DOMAIN mem
              THEN Marked(mem, {c.job}, now) ELSE mem
    /\ UNCHANGED <<now, disk, start, tick, timer, manual, loose, cut, strays, used>>

\* executeJobCoreWithTimeout: an error may be that of the job's timeout, which
\* only stops waiting for an execution that does not heed its signal.
ExecutionEnds(c, outcome) ==
    /\ c.outcome = "running"
    /\ claims' = (claims \ {c}) \cup {[c EXCEPT !.outcome = outcome, !.ended = now]}
    /\ \/ UNCHANGED <<strays, used>>
       \/ /\ outcome \in {"error", "fatal"} /\ Trouble
          /\ strays' = strays \cup {c.job}
          /\ used' = [used EXCEPT !.stops = @ + 1]
    /\ UNCHANGED <<now, disk, mem, start, tick, timer, manual, loose, cut>>

\* The last execution of a job that nobody waits for ends; its result is lost.
StrayEnds(j) ==
    /\ strays' = strays \ {j}
    /\ UNCHANGED <<now, disk, mem, start, tick, timer, claims, manual, loose, cut, used>>

-----------------------------------------------------------------------------
\* Manual runs: two sections before the execution and one after it.

\* inspectManualRunPreflight
Preflight(r, j, forced) ==
    /\ start.pc # "boot" /\ manual[r].job = NoJob /\ By(r) = {} /\ j \in DOMAIN mem
    /\ LET store == Maintained(mem, FALSE)
       IN  /\ store[j].marker = None /\ (forced \/ Due(store[j]))
           /\ mem' = store
           /\ loose' = loose \cup (Held(claims) \cap Unguarded(mem))
    /\ manual' = [manual EXCEPT ![r] = [job |-> j, at |-> now]]
    /\ UNCHANGED <<now, disk, start, tick, timer, claims, cut, strays, used>>

Dropped(r) == manual' = [manual EXCEPT ![r] = [job |-> NoJob, at |-> None]]

\* The marker is set to the time of the preflight and written to the file.
Reserved(r, j, saved) ==
    /\ Save(Marked(mem, {j}, manual[r].at), saved,
            claims \cup {c \in {Claim(r, j, manual[r].at, "running")} : saved})
    /\ Dropped(r)
    /\ cut' = cut \ {j}

\* Mutant: the second section trusts the first.
ReserveUnchecked(r, saved) ==
    /\ manual[r].job \in DOMAIN mem
    /\ Reserved(r, manual[r].job, saved)
    /\ Counted(saved, 0)
    /\ UNCHANGED <<now, start, tick, timer, strays>>

\* The second section of prepareManualRun.
Reserve(r, saved) ==
    /\ manual[r].job # NoJob
    /\ IF manual[r].job \in DOMAIN mem /\ mem[manual[r].job].marker = None
       THEN Reserved(r, manual[r].job, saved)
       ELSE saved /\ Dropped(r) /\ UNCHANGED <<disk, mem, claims, loose, cut>>
    /\ Counted(saved, 0)
    /\ UNCHANGED <<now, start, tick, timer, strays>>

\* Mutant: the run's end lays the job over the file even if it was removed.
FinishResurrects(r, saved) ==
    /\ Over(By(r))
    /\ \E c \in By(r) :
         Save([j \in DOMAIN disk \cup {c.job} |->
                  IF j = c.job THEN Result(j, Fresh(j), c) ELSE disk[j]],
              saved, Detached(claims \ {c}))
    /\ timer' = Wakes(mem')
    /\ Counted(saved, 0)
    /\ UNCHANGED <<now, start, tick, manual, cut, strays>>

\* Mutant: the run's end reloads the file over its own result.
FinishForgets(r, saved) ==
    /\ By(r) # {} /\ Over(By(r))
    /\ Save(Maintained(disk, TRUE), saved, Detached(claims \ By(r)))
    /\ timer' = Wakes(mem')
    /\ Counted(saved, 0)
    /\ UNCHANGED <<now, start, tick, manual, cut, strays>>

\* finishPreparedManualRun: the outcome is applied to the job in memory, and
\* that job laid over the reloaded file.
Finish(r, saved) ==
    /\ By(r) # {} /\ Over(By(r))
    /\ \E c \in By(r) :
         IF c.job \notin DOMAIN mem
         THEN /\ saved
              /\ claims' = claims \ {c}
              /\ loose' = loose \cap Held(claims')
              /\ UNCHANGED <<disk, mem, timer>>
         ELSE LET merged == [j \in DOMAIN disk \ (IF Deletes(c) THEN {c.job} ELSE {}) |->
                                IF j = c.job THEN Result(j, mem[j], c) ELSE disk[j]]
              IN  /\ Save(Maintained(merged, TRUE), saved, Detached(claims \ {c}))
                  /\ timer' = IF saved THEN Wakes(mem') ELSE timer
    /\ Counted(saved, 0)
    /\ UNCHANGED <<now, start, tick, manual, cut, strays>>

-----------------------------------------------------------------------------
\* Edits, which work on the store in memory.

Edit(store, saved) ==
    /\ start.pc # "boot" /\ Trouble
    /\ Save(store, saved, claims)
    /\ timer' = IF saved THEN Wakes(store) ELSE timer
    /\ UNCHANGED <<now, start, tick, manual, strays>>

Add(j, saved) ==
    /\ j \notin used.born
    /\ Edit(Recomputed([k \in DOMAIN mem \cup {j} |-> IF k = j THEN Fresh(j) ELSE mem[k]]), saved)
    /\ used' = [used EXCEPT !.faults = IF saved THEN @ ELSE @ + 1, !.edits = @ + 1,
                            !.born = @ \cup {j}]
    /\ UNCHANGED cut

\* update() with a patch of `enabled`.
SetEnabled(j, enabled, saved) ==
    /\ j \in DOMAIN mem
    /\ LET job == [mem[j] EXCEPT !.enabled = enabled]
       IN  Edit([mem EXCEPT ![j] =
                    [job EXCEPT !.next = NextRun(j, job),
                                !.marker = IF enabled THEN @ ELSE None]], saved)
    /\ Counted(saved, 1)
    /\ cut' = cut \ {j}

Remove(j, saved) ==
    /\ j \in DOMAIN mem
    /\ Edit([k \in DOMAIN mem \ {j} |-> mem[k]], saved)
    /\ Counted(saved, 1)
    /\ UNCHANGED cut

\* ensureLoadedForRead, for status and list.
Read(saved) ==
    /\ start.pc # "boot"
    /\ Maintained(mem, FALSE) # mem
    /\ Save(Maintained(mem, FALSE), saved, claims)
    /\ Counted(saved, 0)
    /\ UNCHANGED <<now, start, tick, timer, manual, cut, strays>>

-----------------------------------------------------------------------------
\* On file, the execution's slot had come when it started.
RunsDueSlot(c) ==
    /\ c.outcome = "running" /\ c.job \in DOMAIN disk
    /\ disk[c.job].next # None /\ c.at >= disk[c.job].next

\* The process dies and the gateway starts again from the file.
Crash ==
    /\ Trouble
    /\ used' = [used EXCEPT !.stops = @ + 1]
    /\ mem' = disk
    /\ start' = [pc |-> "boot", interrupted |-> {}, deferred |-> {}]
    /\ tick' = "idle" /\ timer' = FALSE
    /\ claims' = {} /\ loose' = {} /\ strays' = {}
    /\ manual' = [r \in Runs |-> [job |-> NoJob, at |-> None]]
    /\ cut' = cut \cup (OneShots \cap Held({c \in claims : RunsDueSlot(c)}))
    /\ UNCHANGED <<now, disk>>

Advance ==
    /\ now < MaxTime
    /\ now' = now + 1
    /\ UNCHANGED <<disk, mem, start, tick, timer, claims, manual, loose, cut, strays, used>>

Init ==
    /\ now = 0
    /\ disk = [j \in AtStart |-> Fresh(j)]
    /\ mem = disk
    /\ start = [pc |-> "boot", interrupted |-> {}, deferred |-> {}]
    /\ tick = "idle" /\ timer = FALSE
    /\ claims = {} /\ loose = {} /\ cut = {} /\ strays = {}
    /\ manual = [r \in Runs |-> [job |-> NoJob, at |-> None]]
    /\ used = [edits |-> 0, stops |-> 0, faults |-> 0, born |-> AtStart]

Section(saved) ==
    \/ StartClear(saved) \/ StartPlan(saved) \/ StartApply(saved) \/ StartArm(saved)
    \/ TickCollect(saved) \/ TickApply(saved)
    \/ \E r \in Runs : Reserve(r, saved) \/ Finish(r, saved)

UserStep(saved) ==
    \/ \E j \in Jobs : Add(j, saved) \/ Remove(j, saved)
    \/ \E j \in Jobs, enabled \in BOOLEAN : SetEnabled(j, enabled, saved)
    \/ Read(saved)

Execution ==
    \/ \E c \in claims :
        \/ ExecutionStarts(c)
        \/ \E outcome \in Endings[c.job] : ExecutionEnds(c, outcome)
    \/ \E j \in strays : StrayEnds(j)

Next ==
    \/ \E saved \in BOOLEAN : Section(saved) \/ UserStep(saved)
    \/ \E r \in Runs, j \in Jobs, forced \in BOOLEAN : Preflight(r, j, forced)
    \/ TickFires \/ TickEnds \/ Execution \/ Crash \/ Advance

Spec == Init /\ [][Next]_vars

-----------------------------------------------------------------------------
\* Of one job the service never awaits two executions at once, whichever of the
\* timer, the catch-up and the manual runs claimed them, unless an edit or its
\* age took the marker off the first.  An execution that timed out is awaited no
\* more, so it is not counted here although it may go on.
OneExecution ==
    \A j \in Jobs \ loose : Cardinality({c \in claims : c.job = j}) <= 1

\* An execution starts when the last one of its job is over.  TLC refutes it: the
\* next slot, or a manual run, starts beside an execution that timed out.
NoOverlap ==
    \A c \in claims : c.outcome = "running" /\ c.job \notin loose => c.job \notin strays

\* While writes succeed, a marker on file is that of an execution under way,
\* or of one a crash cut off and the next start has not cleared: no job is
\* blocked by a run that is over.
MarkersAreBacked ==
    used.faults = 0 /\ start.pc # "boot" =>
        \A j \in DOMAIN disk : disk[j].marker # None => j \in Held(claims)

\* A due slot of a job is not passed over: its next run moves on only when an
\* execution of the job is applied, when the job is edited, or in the two
\* places that recompute every job, the end of start() and add().
Passed(j) ==
    /\ j \in DOMAIN disk \cap DOMAIN disk'
    /\ Due(disk[j]) /\ disk'[j].next > now

SlotsAreKept ==
    [][\A j \in Jobs : Passed(j) =>
          \/ Cardinality({c \in claims' : c.job = j}) < Cardinality({c \in claims : c.job = j})
          \/ used'.edits # used.edits
          \/ start.pc # start'.pc
          \/ used.faults > 0]_vars

\* While writes succeed, an execution that ends does not undo what the user did
\* meanwhile: a disabled recurring job stays disabled until it is edited, and
\* no removed job comes back.
EditsStick ==
    [][used'.faults = 0 /\ used'.edits = used.edits =>
          /\ DOMAIN disk' \subseteq DOMAIN disk
          /\ \A j \in DOMAIN disk' : disk'[j].enabled => disk[j].enabled]_vars

\* While writes succeed, the scheduler never goes to sleep for good: once start()
\* is over, a job with a next run has a timer, or a tick under way, to claim it.
TimerIsKept ==
    start.pc = "up" /\ used.faults = 0 /\ (\E j \in DOMAIN disk : disk[j].next # None) =>
        timer \/ tick # "idle"

\* A one-shot job whose due execution the death of the process cut off is not
\* replayed by the ticks that follow the next start.
NoReplayAfterCrash ==
    [][start.pc = "up" =>
          (Held({c \in claims' : c.by = "tick"}) \ Held(By("tick"))) \cap cut = {}]_vars
=============================================================================
