-------------------------- MODULE CronServiceProofs --------------------------
(***************************************************************************)
(* Proofs about CronService for any jobs, schedules, manual runs, limits   *)
(* and bounds.                                                             *)
(*                                                                         *)
(* The inductive invariant relates three places that know of an execution: *)
(* the claim itself, and its job's marker in memory and in the file.       *)
(* Guarded says that a claim has its marker in both, unless it was taken   *)
(* off; then no section can claim the job again.  Agree and Backed hold    *)
(* while writes succeed: memory and file know the same jobs, enabled alike,*)
(* and a marker in either is that of a claim.  TimerInv adds when jobs have*)
(* a next run, and that a timer or a tick is there to claim it; SlotInv,   *)
(* that a next run lies after the last one, the same in memory and file.   *)
(***************************************************************************)
EXTENDS CronService, FiniteSetTheorems, TLAPS

Statuses == {"none", "ok", "skipped", "error"}
Outcomes == {"ok", "skipped", "error", "fatal"}

Job == [enabled : BOOLEAN, next : Int, marker : Int, last : Int, status : Statuses]

Claims == [by : {"tick", "catchup"} \cup Runs, job : Jobs, at : Int, ended : Int,
           outcome : {"due", "running"} \cup Outcomes, own : BOOLEAN]

IsStore(s) == DOMAIN s \subseteq Jobs /\ \A j \in DOMAIN s : s[j] \in Job

Troubles == [edits : Nat, stops : Nat, faults : Nat, born : SUBSET Jobs]

Typed ==
    /\ now \in Nat
    /\ IsStore(disk) /\ IsStore(mem)
    /\ start \in [pc : {"boot", "plan", "catchup", "arm", "up", "failed"},
                  interrupted : SUBSET Jobs, deferred : SUBSET Jobs]
    /\ claims \subseteq Claims
    /\ manual \in [Runs -> [job : Jobs \cup {NoJob}, at : Int]]
    /\ used \in Troubles

\* A manual run remembers a time at which its job may be marked.
Preflighted == \A r \in Runs : manual[r].job # NoJob => manual[r].at # None

\* Stores and claims are of jobs that were added, each of which once.
Born == DOMAIN mem \cup DOMAIN disk \cup Held(claims) \subseteq used.born

\* Claims of one job are one claim, but for loose jobs.
AloneIn(cs, ls) == \A c, d \in cs : c.job = d.job /\ c.job \notin ls => c = d

\* The jobs of a set are marked in a store, if they are in it.
MarkedIn(s, js) == \A j \in js : j \in DOMAIN s => s[j].marker # None

Guarded == MarkedIn(mem, Held(claims) \ loose) /\ MarkedIn(disk, Held(claims) \ loose)

\* Two stores have the same jobs, enabled alike.
SameJobs(s, t) ==
    DOMAIN s = DOMAIN t /\ \A j \in DOMAIN s : s[j].enabled = t[j].enabled

Agree == used.faults = 0 => SameJobs(mem, disk)

\* Only these jobs are marked in a store.
MarkedOnly(s, js) == \A j \in DOMAIN s : s[j].marker # None => j \in js

Backed ==
    used.faults = 0 /\ start.pc # "boot" =>
        MarkedOnly(mem, Held(claims)) /\ MarkedOnly(disk, Held(claims))

\* Before its first section the service has nothing under way.
Booting ==
    start.pc = "boot" =>
        claims = {} /\ tick = "idle" /\ ~timer /\ \A r \in Runs : manual[r].job = NoJob

IInv ==
    /\ Typed /\ Preflighted /\ Born /\ Booting
    /\ AloneIn(claims, loose) /\ Guarded /\ Agree /\ Backed

-----------------------------------------------------------------------------
USE CronAssumption DEF CronAssumption

\* Times of a schedule are whole numbers.
LEMMA SlotsTyped ==
    ASSUME NEW j \in Jobs, NEW t \in Int
    PROVE  NextSlot(j, t) \in Int /\ PreviousSlot(j, t) \in Int
<1>1. Slot[j] \in Nat \ {0}
  OBVIOUS
<1>2. t \div Slot[j] \in Int
  BY <1>1
<1>3. \A a \in Int : \A b \in Int : a * b \in Int
  OBVIOUS
<1> QED
  BY <1>1, <1>2, <1>3 DEF NextSlot, PreviousSlot

LEMMA NextRunTyped ==
    ASSUME NEW j \in Jobs, NEW job \in Job, now \in Nat
    PROVE  NextRun(j, job) \in Int
<1>1. now \in Int /\ Slot[j] \in Int /\ None \in Int
  BY DEF None
<1> QED
  BY <1>1, SlotsTyped DEF NextRun

\* Changing a time of a job leaves the rest of it.
LEMMA NextChanged ==
    ASSUME NEW job \in Job, NEW t \in Int
    PROVE  /\ [job EXCEPT !.next = t] \in Job
           /\ [job EXCEPT !.next = t].marker = job.marker
           /\ [job EXCEPT !.next = t].enabled = job.enabled
BY DEF Job

LEMMA MarkerChanged ==
    ASSUME NEW job \in Job, NEW t \in Int
    PROVE  /\ [job EXCEPT !.marker = t] \in Job
           /\ [job EXCEPT !.marker = t].marker = t
           /\ [job EXCEPT !.marker = t].enabled = job.enabled
BY DEF Job

\* A new job has no marker.
LEMMA FreshJob ==
    ASSUME NEW j \in Jobs, now \in Nat
    PROVE  Fresh(j) \in Job /\ Fresh(j).marker = None
<1> DEFINE job == [enabled |-> TRUE, next |-> None, marker |-> None,
                   last |-> None, status |-> "none"]
<1>1. job \in Job /\ job.marker = None
  BY DEF Job, None, Statuses
<1> HIDE DEF job
<1>2. NextRun(j, job) \in Int
  BY <1>1, NextRunTyped
<1>3. Fresh(j) = [job EXCEPT !.next = NextRun(j, job)]
  BY DEF Fresh, job
<1> QED
  BY <1>1, <1>2, <1>3, NextChanged

\* A walk over a store keeps its jobs, whether they are enabled, and the
\* markers but for those of disabled and stale jobs, which it may take off.
Walked(s, t) ==
    /\ DOMAIN t = DOMAIN s
    /\ \A j \in DOMAIN s :
          /\ t[j] \in Job
          /\ t[j].enabled = s[j].enabled
          /\ t[j].marker \in {None, s[j].marker}
          /\ j \notin Unguarded(s) => t[j].marker = s[j].marker

LEMMA NormalJob ==
    ASSUME NEW job \in Job
    PROVE  /\ Normal(job) \in Job
           /\ Normal(job).enabled = job.enabled
           /\ Normal(job).marker \in {None, job.marker}
           /\ job.enabled /\ ~Stale(job) => Normal(job) = job
<1>1. None \in Int
  BY DEF None
<1>2. CASE ~job.enabled
  <2>1. Normal(job) = [job EXCEPT !.next = None, !.marker = None]
    BY <1>2 DEF Normal
  <2>2. /\ [job EXCEPT !.next = None, !.marker = None] \in Job
        /\ [job EXCEPT !.next = None, !.marker = None].marker = None
        /\ [job EXCEPT !.next = None, !.marker = None].enabled = job.enabled
    BY <1>1 DEF Job
  <2>3. Normal(job) \in Job /\ Normal(job).marker = None /\ Normal(job).enabled = job.enabled
    BY <2>1, <2>2
  <2> QED
    BY <1>2, <2>3
<1>3. CASE job.enabled
  BY <1>1, <1>3, MarkerChanged DEF Normal
<1> QED
  BY <1>2, <1>3 DEF Job

LEMMA Walks ==
    ASSUME Typed, NEW s, IsStore(s), NEW expired \in BOOLEAN
    PROVE  Walked(s, Recomputed(s)) /\ Walked(s, Maintained(s, expired))
<1>1. ASSUME NEW j \in DOMAIN s, NEW t,
             t = Normal(s[j]) \/ t = [Normal(s[j]) EXCEPT !.next = NextRun(j, Normal(s[j]))]
      PROVE  /\ t \in Job
             /\ t.enabled = s[j].enabled
             /\ t.marker \in {None, s[j].marker}
             /\ j \notin Unguarded(s) => t.marker = s[j].marker
  <2>1. j \in Jobs /\ s[j] \in Job
    BY DEF IsStore
  <2>2. /\ Normal(s[j]) \in Job
        /\ Normal(s[j]).enabled = s[j].enabled
        /\ Normal(s[j]).marker \in {None, s[j].marker}
        /\ j \notin Unguarded(s) => Normal(s[j]) = s[j]
    BY <2>1, NormalJob DEF Unguarded
  <2>3. NextRun(j, Normal(s[j])) \in Int
    BY <2>1, <2>2, NextRunTyped DEF Typed
  <2>4. CASE t = Normal(s[j])
    BY <2>2, <2>4
  <2>5. CASE t = [Normal(s[j]) EXCEPT !.next = NextRun(j, Normal(s[j]))]
    <3>1. /\ t \in Job /\ t.marker = Normal(s[j]).marker
          /\ t.enabled = Normal(s[j]).enabled
      BY <2>2, <2>3, <2>5, NextChanged
    <3> QED
      BY <2>2, <3>1
  <2> QED
    BY <1>1, <2>4, <2>5
<1>2. /\ DOMAIN Recomputed(s) = DOMAIN s
      /\ \A j \in DOMAIN s :
            \/ Recomputed(s)[j] = Normal(s[j])
            \/ Recomputed(s)[j] = [Normal(s[j]) EXCEPT !.next = NextRun(j, Normal(s[j]))]
  BY DEF Recomputed
<1>3. /\ DOMAIN Maintained(s, expired) = DOMAIN s
      /\ \A j \in DOMAIN s :
            \/ Maintained(s, expired)[j] = Normal(s[j])
            \/ Maintained(s, expired)[j] = [Normal(s[j]) EXCEPT !.next = NextRun(j, Normal(s[j]))]
  BY DEF Maintained
<1> QED
  BY <1>1, <1>2, <1>3 DEF Walked

\* An applied outcome takes the marker off and enables nothing.
LEMMA ResultJob ==
    ASSUME NEW j \in Jobs, NEW job \in Job, NEW c \in Claims, c.outcome \in Outcomes, Typed
    PROVE  /\ Result(j, job, c) \in Job
           /\ Result(j, job, c).marker = None
           /\ Result(j, job, c).enabled => job.enabled
<1> DEFINE status == IF c.outcome = "fatal" THEN "error" ELSE c.outcome
           ended == [job EXCEPT !.marker = None, !.last = c.at, !.status = status]
<1>1. None \in Int /\ c.ended \in Int /\ c.at \in Int /\ NextSlot(j, c.ended) \in Int
  BY SlotsTyped DEF None, Claims
<1>2. c.ended + Backoff \in Int
  BY <1>1
<1>3. status \in Statuses
  BY DEF Outcomes, Statuses
<1>4. ended \in Job /\ ended.marker = None /\ ended.enabled = job.enabled
  BY <1>1, <1>3 DEF Job
<1> HIDE DEF ended, status
<1>5. \A t \in Int : /\ [ended EXCEPT !.next = t] \in Job
                     /\ [ended EXCEPT !.next = t].marker = None
                     /\ [ended EXCEPT !.next = t].enabled = job.enabled
  BY <1>4, NextChanged
<1>6. /\ [ended EXCEPT !.enabled = FALSE, !.next = None] \in Job
      /\ [ended EXCEPT !.enabled = FALSE, !.next = None].marker = None
      /\ ~[ended EXCEPT !.enabled = FALSE, !.next = None].enabled
  BY <1>1, <1>4 DEF Job
<1>7. \/ Result(j, job, c) = [ended EXCEPT !.enabled = FALSE, !.next = None]
      \/ \E t \in Int : Result(j, job, c) = [ended EXCEPT !.next = t]
  BY <1>1, <1>2 DEF Result, ended, status
<1> QED
  BY <1>5, <1>6, <1>7

\* Applying a batch that is over to a store.
LEMMA AppliedStore ==
    ASSUME Typed, NEW s, IsStore(s), NEW b \in SUBSET Claims, Over(b)
    PROVE  /\ IsStore(Applied(s, b))
           /\ DOMAIN Applied(s, b) \subseteq DOMAIN s
           /\ \A j \in DOMAIN Applied(s, b) :
                /\ Applied(s, b)[j].enabled => s[j].enabled
                /\ j \in Held(b) => Applied(s, b)[j].marker = None
                /\ j \notin Held(b) => Applied(s, b)[j] = s[j]
<1>1. DOMAIN Applied(s, b) \subseteq DOMAIN s
  BY DEF Applied
<1>2. ASSUME NEW j \in DOMAIN Applied(s, b)
      PROVE  /\ Applied(s, b)[j] \in Job
             /\ Applied(s, b)[j].enabled => s[j].enabled
             /\ j \in Held(b) => Applied(s, b)[j].marker = None
             /\ j \notin Held(b) => Applied(s, b)[j] = s[j]
  <2> DEFINE mine == {c \in b : c.job = j}
  <2>1. j \in Jobs /\ s[j] \in Job
    BY <1>1 DEF IsStore
  <2>2. Applied(s, b)[j] = IF mine = {} THEN s[j] ELSE Result(j, s[j], CHOOSE c \in mine : TRUE)
    BY DEF Applied
  <2>3. j \in Held(b) <=> mine # {}
    BY DEF Held
  <2>4. CASE mine = {}
    BY <2>1, <2>2, <2>3, <2>4
  <2>5. CASE mine # {}
    <3>1. (CHOOSE c \in mine : TRUE) \in mine
      BY <2>5
    <3>2. \A c \in mine : c \in Claims /\ c.outcome \in Outcomes
      BY DEF Over, Claims
    <3> HIDE DEF mine
    <3>3. PICK c \in Claims : c.outcome \in Outcomes /\ Applied(s, b)[j] = Result(j, s[j], c)
      BY <2>2, <2>5, <3>1, <3>2
    <3> QED
      BY <2>1, <2>3, <2>5, <3>3, ResultJob
  <2> QED
    BY <2>4, <2>5
<1> QED
  BY <1>1, <1>2 DEF IsStore

LEMMA MarkedStore ==
    ASSUME NEW s, IsStore(s), NEW js, NEW at \in Int
    PROVE  /\ IsStore(Marked(s, js, at))
           /\ SameJobs(s, Marked(s, js, at))
           /\ \A j \in DOMAIN s :
                Marked(s, js, at)[j].marker = IF j \in js THEN at ELSE s[j].marker
<1>1. DOMAIN Marked(s, js, at) = DOMAIN s
  BY DEF Marked
<1>2. ASSUME NEW j \in DOMAIN s
      PROVE  /\ Marked(s, js, at)[j] \in Job
             /\ Marked(s, js, at)[j].enabled = s[j].enabled
             /\ Marked(s, js, at)[j].marker = IF j \in js THEN at ELSE s[j].marker
  <2>1. s[j] \in Job
    BY DEF IsStore
  <2>2. Marked(s, js, at)[j] = IF j \in js THEN [s[j] EXCEPT !.marker = at] ELSE s[j]
    BY DEF Marked
  <2> QED
    BY <2>1, <2>2, MarkerChanged
<1> QED
  BY <1>1, <1>2 DEF IsStore, SameJobs

-----------------------------------------------------------------------------
(* A section in general. *)

\* A store adds no job to the file's and enables none.
Within(s, t) == DOMAIN s \subseteq DOMAIN t /\ \A j \in DOMAIN s : s[j].enabled => t[j].enabled

\* What EditsStick asks of a step.
EditsKept ==
    used'.faults = 0 /\ used'.edits = used.edits => Within(disk', disk)

LEMMA CountedUsed ==
    ASSUME Typed, NEW saved \in BOOLEAN, NEW edits \in {0, 1}, Counted(saved, edits)
    PROVE  /\ used' \in Troubles /\ used'.born = used.born
           /\ used'.faults = IF saved THEN used.faults ELSE used.faults + 1
           /\ used'.edits = used.edits + edits
<1> DEFINE faults == IF saved THEN used.faults ELSE used.faults + 1
           sum == used.edits + edits
<1>1. used \in Troubles /\ faults \in Nat /\ sum \in Nat
  BY DEF Typed, Troubles
<1>2. used' = [used EXCEPT !.faults = faults, !.edits = sum]
  BY DEF Counted
<1> HIDE DEF faults, sum
<1>3. /\ used' \in Troubles /\ used'.born = used.born
      /\ used'.faults = faults /\ used'.edits = sum
  BY <1>1, <1>2 DEF Troubles
<1> QED
  BY <1>3 DEF faults, sum

\* A reload changes neither the jobs with claims nor who is alone.
LEMMA DetachedClaims ==
    ASSUME NEW cs \in SUBSET Claims, NEW ls, AloneIn(cs, ls)
    PROVE  /\ Detached(cs) \in SUBSET Claims
           /\ Held(Detached(cs)) = Held(cs)
           /\ AloneIn(Detached(cs), ls)
<1>1. \A c \in Claims : /\ [c EXCEPT !.own = FALSE] \in Claims
                         /\ [c EXCEPT !.own = FALSE].job = c.job
  BY DEF Claims
<1>2. Detached(cs) \in SUBSET Claims
  BY <1>1 DEF Detached
<1>3. Held(Detached(cs)) = Held(cs)
  <2>1. ASSUME NEW j \in Held(cs) PROVE j \in Held(Detached(cs))
    <3>1. PICK c \in cs : c.job = j
      BY DEF Held
    <3>2. [c EXCEPT !.own = FALSE] \in Detached(cs) /\ [c EXCEPT !.own = FALSE].job = j
      BY <1>1, <3>1 DEF Detached
    <3> QED
      BY <3>2 DEF Held
  <2>2. ASSUME NEW j \in Held(Detached(cs)) PROVE j \in Held(cs)
    <3>1. PICK c \in cs : j = [c EXCEPT !.own = FALSE].job
      BY DEF Held, Detached
    <3> QED
      BY <1>1, <3>1 DEF Held
  <2> QED
    BY <2>1, <2>2
<1>4. AloneIn(Detached(cs), ls)
  <2> SUFFICES ASSUME NEW c \in cs, NEW d \in cs,
                      [c EXCEPT !.own = FALSE].job = [d EXCEPT !.own = FALSE].job,
                      [c EXCEPT !.own = FALSE].job \notin ls
               PROVE  c = d
    BY DEF Detached, AloneIn
  <2> QED
    BY <1>1 DEF AloneIn
<1> QED
  BY <1>2, <1>3, <1>4

\* New claims of jobs that have none, or only loose ones.
LEMMA AddedClaims ==
    ASSUME NEW cs, NEW more, NEW ls, AloneIn(cs, ls), AloneIn(more, ls),
           Held(more) \cap (Held(cs) \ ls) = {}
    PROVE  AloneIn(cs \cup more, ls) /\ Held(cs \cup more) = Held(cs) \cup Held(more)
BY DEF AloneIn, Held

\* A section that saves a store in which what it claims is marked.
LEMMA SectionKeeps ==
    ASSUME IInv, NEW store, NEW saved \in BOOLEAN, NEW cs \in SUBSET Claims,
           Save(store, saved, cs), IsStore(store), now' = now,
           start' \in [pc : {"plan", "catchup", "arm", "up", "failed"},
                       interrupted : SUBSET Jobs, deferred : SUBSET Jobs],
           manual' \in [Runs -> [job : Jobs \cup {NoJob}, at : Int]], Preflighted',
           used' \in Troubles,
           used.born \subseteq used'.born,
           used'.faults = IF saved THEN used.faults ELSE used.faults + 1,
           DOMAIN store \cup Held(cs) \subseteq used'.born,
           AloneIn(cs, loose),
           MarkedIn(store, Held(cs) \ (loose \cup Unguarded(mem) \cup Unguarded(disk)
                                             \cup Unguarded(store))),
           ~saved => Held(cs) \subseteq Held(claims),
           used.faults = 0 /\ saved => MarkedOnly(store, Held(cs)),
           used.faults = 0 /\ used'.edits = used.edits => Within(store, disk)
    PROVE  IInv' /\ EditsKept
<1>1. /\ mem' = store
      /\ disk' = store \/ (~saved /\ disk' = disk)
      /\ saved => disk' = store
      /\ claims' = cs
      /\ loose' = Held(cs) \cap
            (loose \cup Unguarded(mem) \cup Unguarded(disk) \cup Unguarded(store))
  BY DEF Save
<1>2. start'.pc # "boot"
  OBVIOUS
<1>3. used'.faults = 0 => saved /\ used.faults = 0
  BY DEF IInv, Typed, Troubles
<1>4. Typed'
  BY <1>1 DEF IInv, Typed
<1>5. Born'
  BY <1>1 DEF IInv, Born
<1>6. AloneIn(claims, loose)'
  BY <1>1 DEF AloneIn, Held
<1>7. Guarded'
  <2>1. Held(cs) \ loose' = Held(cs) \ (loose \cup Unguarded(mem) \cup Unguarded(disk)
                                             \cup Unguarded(store))
    BY <1>1
  <2>2. MarkedIn(store, Held(cs) \ loose')
    BY <2>1
  <2>3. ~saved => MarkedIn(disk, Held(cs) \ loose')
    BY <2>1 DEF IInv, Guarded, MarkedIn
  <2> QED
    BY <1>1, <2>2, <2>3 DEF Guarded
<1>8. Agree' /\ Backed' /\ Booting'
  BY <1>1, <1>2, <1>3 DEF Agree, Backed, Booting, SameJobs
<1>9. EditsKept
  BY <1>1, <1>3 DEF EditsKept
<1> QED
  BY <1>4, <1>5, <1>6, <1>7, <1>8, <1>9 DEF IInv

\* What a section that walks over a store leaves marked.
LEMMA WalkMarks ==
    ASSUME NEW s, NEW t, Walked(s, t), IsStore(s), NEW js, MarkedIn(s, js)
    PROVE  /\ IsStore(t)
           /\ MarkedIn(t, js \ Unguarded(s))
           /\ \A ks : MarkedOnly(s, ks) => MarkedOnly(t, ks)
           /\ SameJobs(t, s)
<1>1. IsStore(t) /\ SameJobs(t, s)
  BY DEF Walked, IsStore, SameJobs
<1>2. MarkedIn(t, js \ Unguarded(s))
  BY DEF Walked, MarkedIn
<1>3. \A ks : MarkedOnly(s, ks) => MarkedOnly(t, ks)
  BY DEF Walked, MarkedOnly
<1> QED
  BY <1>1, <1>2, <1>3

\* A batch of claims that are over is taken off the file, and the file walked
\* over: what is claimed still keeps its marker.
LEMMA BatchEnds ==
    ASSUME IInv, NEW b \in SUBSET claims, NEW s, IsStore(s), NEW expired \in BOOLEAN,
           DOMAIN s \subseteq DOMAIN disk,
           \A j \in DOMAIN s : j \in Held(b) => s[j].marker = None,
           \A j \in DOMAIN s : j \notin Held(b) =>
                s[j].marker = disk[j].marker /\ s[j].enabled = disk[j].enabled,
           NEW store, store = Maintained(s, expired),
           NEW cs, cs = Detached(claims \ b)
    PROVE  /\ IsStore(store) /\ SameJobs(store, s)
           /\ cs \in SUBSET Claims /\ Held(cs) \subseteq Held(claims)
           /\ AloneIn(cs, loose)
           /\ MarkedIn(store, Held(cs) \ (loose \cup Unguarded(disk)))
           /\ used.faults = 0 /\ start.pc # "boot" => MarkedOnly(store, Held(cs))
<1>1. /\ claims \in SUBSET Claims /\ claims \ b \in SUBSET Claims
      /\ AloneIn(claims, loose) /\ AloneIn(claims \ b, loose)
  BY DEF IInv, Typed, AloneIn
<1>2. /\ cs \in SUBSET Claims /\ AloneIn(cs, loose)
      /\ Held(cs) = Held(claims \ b) /\ Held(cs) \subseteq Held(claims)
  <2>1. Held(claims \ b) \subseteq Held(claims)
    BY DEF Held
  <2> QED
    BY <1>1, <2>1, DetachedClaims
<1>3. Walked(s, store)
  BY Walks DEF IInv
<1>4. ASSUME NEW j \in Held(cs) \ loose PROVE j \notin Held(b)
  <2>1. PICK c \in claims \ b : c.job = j
    BY <1>2 DEF Held
  <2>2. \A d \in b : d.job # j
    BY <1>1, <2>1 DEF AloneIn
  <2> QED
    BY <2>2 DEF Held
<1>5. \A j \in DOMAIN s \ Held(b) : j \in Unguarded(s) <=> j \in Unguarded(disk)
  <2> TAKE j \in DOMAIN s \ Held(b)
  <2>1. s[j].marker = disk[j].marker /\ s[j].enabled = disk[j].enabled /\ j \in DOMAIN disk
    OBVIOUS
  <2>2. Stale(s[j]) <=> Stale(disk[j])
    BY <2>1 DEF Stale
  <2>3. s[j] \in Job /\ disk[j] \in Job
    BY <2>1 DEF IInv, Typed, IsStore
  <2>4. ~s[j].enabled <=> ~disk[j].enabled
    BY <2>1
  <2> QED
    BY <2>1, <2>2, <2>4 DEF Unguarded
<1>6. MarkedIn(s, Held(cs) \ loose)
  BY <1>2, <1>4 DEF IInv, Guarded, MarkedIn
<1>7. /\ IsStore(store) /\ SameJobs(store, s)
      /\ MarkedIn(store, (Held(cs) \ loose) \ Unguarded(s))
  BY <1>3, <1>6, WalkMarks
<1>8. MarkedIn(store, Held(cs) \ (loose \cup Unguarded(disk)))
  <2>1. DOMAIN store = DOMAIN s
    BY <1>7 DEF SameJobs
  <2> QED
    BY <1>4, <1>5, <1>7, <2>1 DEF MarkedIn
<1>9. ASSUME used.faults = 0, start.pc # "boot" PROVE MarkedOnly(store, Held(cs))
  <2>1. MarkedOnly(disk, Held(claims))
    BY <1>9 DEF IInv, Backed
  <2>2. \A j \in Held(claims) \ Held(b) : j \in Held(cs)
    BY <1>2 DEF Held
  <2>3. MarkedOnly(s, Held(cs))
    BY <2>1, <2>2 DEF MarkedOnly
  <2> QED
    BY <1>3, <1>6, <2>3, WalkMarks
<1> QED
  BY <1>2, <1>7, <1>8, <1>9

\* The same for a section that only walks over the store in memory.
LEMMA MemoryWalked ==
    ASSUME IInv, start.pc # "boot", NEW store, Walked(mem, store)
    PROVE  /\ IsStore(store) /\ DOMAIN store = DOMAIN mem
           /\ MarkedIn(store, Held(claims) \ (loose \cup Unguarded(mem)))
           /\ used.faults = 0 => MarkedOnly(store, Held(claims)) /\ Within(store, disk)
<1>1. /\ IsStore(store) /\ SameJobs(store, mem)
      /\ MarkedIn(store, (Held(claims) \ loose) \ Unguarded(mem))
      /\ \A ks : MarkedOnly(mem, ks) => MarkedOnly(store, ks)
  BY WalkMarks DEF IInv, Typed, Guarded
<1>2. MarkedIn(store, Held(claims) \ (loose \cup Unguarded(mem)))
  BY <1>1 DEF MarkedIn
<1>3. used.faults = 0 => Within(store, disk)
  BY <1>1 DEF IInv, Agree, SameJobs, Within
<1> QED
  BY <1>1, <1>2, <1>3 DEF IInv, Backed, SameJobs

\* Jobs without a marker in memory, or in the file, can be claimed and marked.
LEMMA ClaimsMarked ==
    ASSUME IInv, start.pc # "boot", NEW s, s = mem \/ s = disk,
           NEW js \in SUBSET DOMAIN s, \A j \in js : s[j].marker = None,
           NEW at \in Int, at # None
    PROVE  /\ IsStore(Marked(s, js, at)) /\ DOMAIN Marked(s, js, at) = DOMAIN s
           /\ js \cap (Held(claims) \ loose) = {}
           /\ MarkedIn(Marked(s, js, at), (Held(claims) \cup js) \ loose)
           /\ used.faults = 0 => /\ MarkedOnly(Marked(s, js, at), Held(claims) \cup js)
                                /\ Within(Marked(s, js, at), disk)
<1> DEFINE store == Marked(s, js, at)
<1>1. /\ IsStore(s) /\ MarkedIn(s, Held(claims) \ loose)
      /\ used.faults = 0 => MarkedOnly(s, Held(claims)) /\ SameJobs(s, disk)
  BY DEF IInv, Typed, Guarded, Agree, Backed, SameJobs
<1>2. js \cap (Held(claims) \ loose) = {}
  BY <1>1 DEF MarkedIn
<1>3. /\ IsStore(store) /\ SameJobs(s, store)
      /\ \A j \in DOMAIN s : store[j].marker = IF j \in js THEN at ELSE s[j].marker
  BY <1>1, MarkedStore
<1> HIDE DEF store
<1>4. MarkedIn(store, (Held(claims) \cup js) \ loose)
  BY <1>1, <1>3 DEF MarkedIn, SameJobs
<1>5. used.faults = 0 => MarkedOnly(store, Held(claims) \cup js) /\ Within(store, disk)
  BY <1>1, <1>3 DEF MarkedOnly, SameJobs, Within
<1> QED
  BY <1>2, <1>3, <1>4, <1>5 DEF SameJobs, store

\* Claims made together for different jobs.
Batch(by, js, at, outcome) == {Claim(by, j, at, outcome) : j \in js}

LEMMA NewClaims ==
    ASSUME NEW by \in {"tick", "catchup"} \cup Runs, NEW js \in SUBSET Jobs, NEW at \in Int,
           NEW outcome \in {"due", "running"}, NEW ls
    PROVE  /\ Batch(by, js, at, outcome) \in SUBSET Claims
           /\ Held(Batch(by, js, at, outcome)) = js
           /\ AloneIn(Batch(by, js, at, outcome), ls)
<1> DEFINE more == Batch(by, js, at, outcome)
<1>1. \A j \in js : Claim(by, j, at, outcome) \in Claims /\ Claim(by, j, at, outcome).job = j
  BY DEF Claim, Claims, None
<1>2. more \in SUBSET Claims /\ Held(more) = js
  BY <1>1 DEF Held, Batch
<1>3. AloneIn(more, ls)
  BY <1>1 DEF AloneIn, Batch
<1> QED
  BY <1>2, <1>3

\* A step that leaves stores and claims alone.
LEMMA OthersUnchanged ==
    ASSUME IInv, start.pc # "boot", UNCHANGED <<now, disk, mem, claims, loose>>,
           start' \in [pc : {"plan", "catchup", "arm", "up", "failed"},
                       interrupted : SUBSET Jobs, deferred : SUBSET Jobs],
           manual' \in [Runs -> [job : Jobs \cup {NoJob}, at : Int]], Preflighted',
           used' \in Troubles, used'.born = used.born, used'.faults = used.faults
    PROVE  IInv' /\ EditsKept
<1>1. Typed' /\ Born'
  BY DEF IInv, Typed, Born, Held
<1>2. AloneIn(claims, loose)' /\ Guarded'
  BY DEF IInv, AloneIn, Guarded, MarkedIn, Held
<1>3. Agree' /\ Backed' /\ Booting'
  BY DEF IInv, Agree, SameJobs, Backed, MarkedOnly, Booting, Held
<1>4. EditsKept
  BY DEF EditsKept, Within
<1> QED
  BY <1>1, <1>2, <1>3, <1>4 DEF IInv

-----------------------------------------------------------------------------
(* The steps. *)

\* What every section of a running service has in common.
LEMMA Running ==
    ASSUME IInv, start.pc # "boot"
    PROVE  /\ start \in [pc : {"plan", "catchup", "arm", "up", "failed"},
                         interrupted : SUBSET Jobs, deferred : SUBSET Jobs]
           /\ now \in Int /\ now # None
           /\ IsStore(mem) /\ IsStore(disk)
           /\ claims \in SUBSET Claims /\ AloneIn(claims, loose)
           /\ manual \in [Runs -> [job : Jobs \cup {NoJob}, at : Int]]
           /\ DOMAIN mem \cup DOMAIN disk \cup Held(claims) \subseteq used.born
<1>1. /\ now \in Int /\ now # None
      /\ start \in [pc : {"boot", "plan", "catchup", "arm", "up", "failed"},
                   interrupted : SUBSET Jobs, deferred : SUBSET Jobs]
  BY DEF IInv, Typed, None
<1>2. start \in [pc : {"plan", "catchup", "arm", "up", "failed"},
                interrupted : SUBSET Jobs, deferred : SUBSET Jobs]
  BY <1>1
<1> QED
  BY <1>1, <1>2 DEF IInv, Typed, Born

LEMMA StartClearKeeps ==
    ASSUME IInv, NEW saved \in BOOLEAN, StartClear(saved)
    PROVE  IInv' /\ EditsKept
<1> DEFINE interrupted == {j \in DOMAIN mem : mem[j].marker # None}
           store == Marked(mem, interrupted, None)
           pc == IF saved THEN "plan" ELSE "failed"
<1>1. /\ Save(store, saved, claims) /\ Counted(saved, 0)
      /\ start' = [start EXCEPT !.pc = pc, !.interrupted = interrupted]
      /\ now' = now /\ manual' = manual
  BY DEF StartClear
<1>2. /\ used' \in Troubles /\ used'.born = used.born
      /\ used'.faults = IF saved THEN used.faults ELSE used.faults + 1
  BY <1>1, CountedUsed DEF IInv
<1>3. interrupted \in SUBSET Jobs /\ pc \in {"plan", "failed"}
  BY DEF IInv, Typed, IsStore
<1>4. start' \in [pc : {"plan", "catchup", "arm", "up", "failed"},
                 interrupted : SUBSET Jobs, deferred : SUBSET Jobs]
  <2> HIDE DEF interrupted, pc
  <2> QED
    BY <1>1, <1>3 DEF IInv, Typed
<1>5. claims = {} /\ Held(claims) = {}
  BY DEF StartClear, IInv, Booting, Held
<1>6. /\ IsStore(store) /\ SameJobs(mem, store)
      /\ \A j \in DOMAIN mem : store[j].marker = None
  <2>1. /\ IsStore(store) /\ SameJobs(mem, store)
        /\ \A j \in DOMAIN mem :
             store[j].marker = IF j \in interrupted THEN None ELSE mem[j].marker
    BY MarkedStore DEF IInv, Typed, None
  <2> QED
    BY <2>1
<1> HIDE DEF store
<1>7. MarkedOnly(store, Held(claims)) /\ (used.faults = 0 => Within(store, disk))
  BY <1>6 DEF MarkedOnly, SameJobs, Within, IInv, Agree
<1>8. DOMAIN store \cup Held(claims) \subseteq used'.born
  BY <1>2, <1>5, <1>6 DEF IInv, Born, SameJobs
<1>9. AloneIn(claims, loose) /\ claims \in SUBSET Claims
  BY DEF IInv, Typed
<1>10. MarkedIn(store, Held(claims) \ (loose \cup Unguarded(mem) \cup Unguarded(disk)
                                             \cup Unguarded(store)))
  BY <1>5 DEF MarkedIn
<1>11. Preflighted' /\ manual' \in [Runs -> [job : Jobs \cup {NoJob}, at : Int]]
  BY <1>1 DEF IInv, Typed, Preflighted
<1> QED
  BY <1>1, <1>2, <1>4, <1>6, <1>7, <1>8, <1>9, <1>10, <1>11, SectionKeeps

\* A section of a running service that leaves the manual runs alone; what
\* remains to be shown is what it does to stores and claims.
LEMMA RunningSection ==
    ASSUME IInv, start.pc # "boot", NEW store, NEW saved \in BOOLEAN, NEW cs \in SUBSET Claims,
           Save(store, saved, cs), IsStore(store), UNCHANGED <<now, manual>>,
           start' \in [pc : {"plan", "catchup", "arm", "up", "failed"},
                       interrupted : SUBSET Jobs, deferred : SUBSET Jobs],
           Counted(saved, 0),
           DOMAIN store \subseteq DOMAIN mem \cup DOMAIN disk,
           Held(cs) \subseteq used.born,
           AloneIn(cs, loose),
           MarkedIn(store, Held(cs) \ (loose \cup Unguarded(mem) \cup Unguarded(disk)
                                             \cup Unguarded(store))),
           ~saved => Held(cs) \subseteq Held(claims),
           used.faults = 0 /\ saved => MarkedOnly(store, Held(cs)),
           used.faults = 0 => Within(store, disk)
    PROVE  IInv' /\ EditsKept
<1>1. /\ used' \in Troubles /\ used'.born = used.born
      /\ used'.faults = IF saved THEN used.faults ELSE used.faults + 1
  BY CountedUsed DEF IInv
<1>2. DOMAIN store \cup Held(cs) \subseteq used'.born
  BY <1>1 DEF IInv, Born
<1>3. Preflighted' /\ manual' \in [Runs -> [job : Jobs \cup {NoJob}, at : Int]]
  BY DEF IInv, Typed, Preflighted
<1> QED
  BY <1>1, <1>2, <1>3, SectionKeeps

LEMMA StartPlanKeeps ==
    ASSUME IInv, NEW saved \in BOOLEAN, StartPlan(saved)
    PROVE  IInv' /\ EditsKept
<1> DEFINE missed == {j \in DOMAIN mem \ start.interrupted : Missed(j, mem[j])}
<1>0. start.pc = "plan" /\ start.pc # "boot"
  BY DEF StartPlan
<1>1. /\ Counted(saved, 0) /\ now' = now /\ manual' = manual
      /\ missed \in SUBSET DOMAIN mem /\ \A j \in missed : mem[j].marker = None
  BY DEF StartPlan, Missed
<1>2. CASE missed = {}
  <2>1. saved /\ UNCHANGED <<disk, mem, claims, loose>>
    BY <1>2 DEF StartPlan
  <2>2. start' = [start EXCEPT !.pc = "arm", !.interrupted = {}]
    BY <1>2 DEF StartPlan
  <2>3. start' \in [pc : {"plan", "catchup", "arm", "up", "failed"},
                   interrupted : SUBSET Jobs, deferred : SUBSET Jobs]
    BY <1>0, <2>2, Running
  <2>4. used' \in Troubles /\ used'.born = used.born /\ used'.faults = used.faults
    BY <1>1, <2>1, CountedUsed DEF IInv
  <2>5. Preflighted' /\ manual' \in [Runs -> [job : Jobs \cup {NoJob}, at : Int]]
    BY <1>1 DEF IInv, Typed, Preflighted
  <2> QED
    BY <1>0, <1>1, <2>1, <2>3, <2>4, <2>5, OthersUnchanged
<1>3. CASE missed # {}
  <2>1. PICK first \in SUBSET missed :
          /\ Save(Marked(mem, first, now), saved,
                  IF saved THEN claims \cup Batch("catchup", first, None, "due")
                  ELSE claims)
          /\ start' = [start EXCEPT !.pc = IF saved THEN "catchup" ELSE "failed",
                                    !.interrupted = {}, !.deferred = missed \ first]
    BY <1>3 DEF StartPlan, Batch
  <2> DEFINE more == Batch("catchup", first, None, "due")
             store == Marked(mem, first, now)
             cs == IF saved THEN claims \cup more ELSE claims
             pc == IF saved THEN "catchup" ELSE "failed"
  <2>2. missed \subseteq Jobs /\ first \subseteq Jobs /\ first \in SUBSET DOMAIN mem
    BY <1>1 DEF IInv, Typed, IsStore
  <2>3. start' \in [pc : {"plan", "catchup", "arm", "up", "failed"},
                   interrupted : SUBSET Jobs, deferred : SUBSET Jobs]
    <3> HIDE DEF missed
    <3>1. start' = [start EXCEPT !.pc = pc, !.interrupted = {}, !.deferred = missed \ first]
      BY <2>1
    <3>2. pc \in {"catchup", "failed"}
      OBVIOUS
    <3> HIDE DEF pc
    <3> QED
      BY <1>0, <2>2, <3>1, <3>2, Running
  <2> HIDE DEF missed
  <2>4. more \in SUBSET Claims /\ Held(more) = first /\ AloneIn(more, loose)
    BY <2>2, NewClaims DEF None
  <2>5. \A j \in first : mem[j].marker = None
    BY <1>1
  <2>6. /\ claims \in SUBSET Claims /\ AloneIn(claims, loose) /\ now \in Int /\ now # None
        /\ DOMAIN mem \cup Held(claims) \subseteq used.born
    BY <1>0, Running
  <2> HIDE DEF more, store
  <2>7. /\ IsStore(store) /\ DOMAIN store = DOMAIN mem
        /\ claims \cup more \in SUBSET Claims
        /\ Held(claims \cup more) = Held(claims) \cup first
        /\ AloneIn(claims \cup more, loose)
        /\ MarkedIn(store, Held(claims \cup more) \ loose)
        /\ used.faults = 0 => MarkedOnly(store, Held(claims \cup more)) /\ Within(store, disk)
    <3>1. /\ IsStore(store) /\ DOMAIN store = DOMAIN mem
          /\ first \cap (Held(claims) \ loose) = {}
          /\ MarkedIn(store, (Held(claims) \cup first) \ loose)
          /\ used.faults = 0 => MarkedOnly(store, Held(claims) \cup first) /\ Within(store, disk)
      BY <1>0, <2>2, <2>5, <2>6, ClaimsMarked DEF store
    <3>2. AloneIn(claims \cup more, loose) /\ Held(claims \cup more) = Held(claims) \cup first
      BY <2>4, <2>6, <3>1, AddedClaims
    <3> QED
      BY <2>4, <2>6, <3>1, <3>2
  <2>8. Save(store, saved, cs)
    BY <2>1 DEF store, more
  <2>9. cs \in SUBSET Claims /\ AloneIn(cs, loose) /\ Held(cs) \subseteq Held(claims) \cup first
    BY <2>6, <2>7
  <2>10. /\ MarkedIn(store, Held(cs) \ (loose \cup Unguarded(mem) \cup Unguarded(disk)
                                             \cup Unguarded(store)))
         /\ ~saved => Held(cs) \subseteq Held(claims)
         /\ used.faults = 0 /\ saved => MarkedOnly(store, Held(cs))
    BY <2>7 DEF MarkedIn
  <2> HIDE DEF cs
  <2> QED
    BY <1>0, <1>1, <2>2, <2>3, <2>6, <2>7, <2>8, <2>9, <2>10, RunningSection
<1> QED
  BY <1>2, <1>3

\* start.deferred is only told when to run; the walk is over the file without
\* the batch.
LEMMA StartApplyKeeps ==
    ASSUME IInv, NEW saved \in BOOLEAN, StartApply(saved)
    PROVE  IInv' /\ EditsKept
<1> DEFINE b == By("catchup")
           applied == Applied(disk, b)
           staggered == [j \in DOMAIN applied |->
               IF j \in start.deferred /\ applied[j].enabled
               THEN [applied[j] EXCEPT !.next = now + 1] ELSE applied[j]]
           store == Maintained(staggered, FALSE)
           cs == Detached(claims \ b)
           pc == IF saved THEN "arm" ELSE "failed"
<1>1. /\ start.pc # "boot" /\ Over(b) /\ Save(store, saved, cs) /\ Counted(saved, 0)
      /\ start' = [start EXCEPT !.pc = pc, !.deferred = {}]
      /\ now' = now /\ manual' = manual
  BY DEF StartApply
<1>2. start' \in [pc : {"plan", "catchup", "arm", "up", "failed"},
                 interrupted : SUBSET Jobs, deferred : SUBSET Jobs]
  <2>1. pc \in {"arm", "failed"}
    OBVIOUS
  <2> HIDE DEF pc
  <2> QED
    BY <1>1, <2>1, Running
<1>3. b \in SUBSET claims /\ b \in SUBSET Claims
  BY DEF By, IInv, Typed
<1> HIDE DEF b
<1>4. /\ IsStore(applied) /\ DOMAIN applied \subseteq DOMAIN disk
      /\ \A j \in DOMAIN applied :
           /\ applied[j].enabled => disk[j].enabled
           /\ j \in Held(b) => applied[j].marker = None
           /\ j \notin Held(b) => applied[j] = disk[j]
  BY <1>1, <1>3, AppliedStore DEF IInv, Typed
<1> HIDE DEF applied
<1>5. /\ IsStore(staggered) /\ DOMAIN staggered = DOMAIN applied
      /\ \A j \in DOMAIN applied : /\ staggered[j].marker = applied[j].marker
                                  /\ staggered[j].enabled = applied[j].enabled
  <2>1. now + 1 \in Int
    BY DEF IInv, Typed
  <2>2. DOMAIN staggered = DOMAIN applied
    OBVIOUS
  <2>3. ASSUME NEW j \in DOMAIN applied
        PROVE  /\ staggered[j] \in Job /\ staggered[j].marker = applied[j].marker
               /\ staggered[j].enabled = applied[j].enabled
    <3>1. applied[j] \in Job
      BY <1>4 DEF IsStore
    <3>2. staggered[j] = applied[j] \/ staggered[j] = [applied[j] EXCEPT !.next = now + 1]
      OBVIOUS
    <3> HIDE DEF staggered
    <3>3. CASE staggered[j] = [applied[j] EXCEPT !.next = now + 1]
      BY <2>1, <3>1, <3>3, NextChanged
    <3> QED
      BY <3>1, <3>2, <3>3
  <2> HIDE DEF staggered
  <2> QED
    BY <1>4, <2>2, <2>3 DEF IsStore
<1> HIDE DEF staggered
<1>6. /\ \A j \in DOMAIN staggered : j \in Held(b) => staggered[j].marker = None
      /\ \A j \in DOMAIN staggered : j \notin Held(b) =>
              staggered[j].marker = disk[j].marker /\ staggered[j].enabled = disk[j].enabled
      /\ DOMAIN staggered \subseteq DOMAIN disk
      /\ Within(staggered, disk)
  BY <1>4, <1>5 DEF Within
<1>7. /\ IsStore(store) /\ SameJobs(store, staggered)
      /\ cs \in SUBSET Claims /\ Held(cs) \subseteq Held(claims)
      /\ AloneIn(cs, loose)
      /\ MarkedIn(store, Held(cs) \ (loose \cup Unguarded(disk)))
      /\ used.faults = 0 /\ start.pc # "boot" => MarkedOnly(store, Held(cs))
  BY <1>3, <1>5, <1>6, BatchEnds
<1> HIDE DEF store, cs
<1>8. DOMAIN store \subseteq DOMAIN disk /\ Within(store, disk)
  BY <1>6, <1>7 DEF SameJobs, Within
<1>9. MarkedIn(store, Held(cs) \ (loose \cup Unguarded(mem) \cup Unguarded(disk)
                                             \cup Unguarded(store)))
  BY <1>7 DEF MarkedIn
<1>10. Held(cs) \subseteq used.born
  BY <1>1, <1>7, Running
<1> QED
  BY <1>1, <1>2, <1>7, <1>8, <1>9, <1>10, RunningSection

LEMMA TickApplyKeeps ==
    ASSUME IInv, NEW saved \in BOOLEAN, TickApply(saved)
    PROVE  IInv' /\ EditsKept
<1> DEFINE b == By("tick")
           applied == Applied(disk, b)
           store == Maintained(applied, FALSE)
           cs == Detached(claims \ b)
<1>1. /\ Over(b) /\ Save(store, saved, cs) /\ Counted(saved, 0)
      /\ start' = start /\ now' = now /\ manual' = manual
  BY DEF TickApply
<1>2. start.pc # "boot"
  BY DEF TickApply, IInv, Booting
<1>3. b \in SUBSET claims /\ b \in SUBSET Claims
  BY DEF By, IInv, Typed
<1> HIDE DEF b
<1>4. /\ IsStore(applied) /\ DOMAIN applied \subseteq DOMAIN disk
      /\ \A j \in DOMAIN applied :
           /\ applied[j].enabled => disk[j].enabled
           /\ j \in Held(b) => applied[j].marker = None
           /\ j \notin Held(b) => applied[j] = disk[j]
  BY <1>1, <1>3, AppliedStore DEF IInv, Typed
<1> HIDE DEF applied
<1>5. /\ IsStore(store) /\ SameJobs(store, applied)
      /\ cs \in SUBSET Claims /\ Held(cs) \subseteq Held(claims)
      /\ AloneIn(cs, loose)
      /\ MarkedIn(store, Held(cs) \ (loose \cup Unguarded(disk)))
      /\ used.faults = 0 /\ start.pc # "boot" => MarkedOnly(store, Held(cs))
  BY <1>3, <1>4, BatchEnds
<1> HIDE DEF store, cs
<1>6. DOMAIN store \subseteq DOMAIN disk /\ Within(store, disk)
  BY <1>4, <1>5 DEF SameJobs, Within
<1>7. MarkedIn(store, Held(cs) \ (loose \cup Unguarded(mem) \cup Unguarded(disk)
                                             \cup Unguarded(store)))
  BY <1>5 DEF MarkedIn
<1>8. /\ Held(cs) \subseteq used.born
      /\ start' \in [pc : {"plan", "catchup", "arm", "up", "failed"},
                     interrupted : SUBSET Jobs, deferred : SUBSET Jobs]
  BY <1>1, <1>2, <1>5, Running
<1> QED
  BY <1>1, <1>2, <1>5, <1>6, <1>7, <1>8, RunningSection

\* The reload of the whole file, walked over.
LEMMA FileWalked ==
    ASSUME IInv, start.pc # "boot", NEW store, Walked(disk, store)
    PROVE  /\ IsStore(store) /\ DOMAIN store = DOMAIN disk
           /\ MarkedIn(store, Held(claims) \ (loose \cup Unguarded(disk)))
           /\ used.faults = 0 => MarkedOnly(store, Held(claims))
           /\ Within(store, disk)
<1>1. /\ IsStore(store) /\ SameJobs(store, disk)
      /\ MarkedIn(store, (Held(claims) \ loose) \ Unguarded(disk))
      /\ \A ks : MarkedOnly(disk, ks) => MarkedOnly(store, ks)
  BY WalkMarks DEF IInv, Typed, Guarded
<1>2. MarkedIn(store, Held(claims) \ (loose \cup Unguarded(disk)))
  BY <1>1 DEF MarkedIn
<1>3. Within(store, disk)
  BY <1>1 DEF SameJobs, Within
<1> QED
  BY <1>1, <1>2, <1>3 DEF IInv, Backed, SameJobs

LEMMA StartArmKeeps ==
    ASSUME IInv, NEW saved \in BOOLEAN, StartArm(saved)
    PROVE  IInv' /\ EditsKept
<1> DEFINE store == Recomputed(disk)
           cs == Detached(claims)
           pc == IF saved THEN "up" ELSE "failed"
<1>1. /\ start.pc # "boot" /\ Save(store, saved, cs) /\ Counted(saved, 0)
      /\ start' = [start EXCEPT !.pc = pc] /\ now' = now /\ manual' = manual
  BY DEF StartArm
<1>2. start' \in [pc : {"plan", "catchup", "arm", "up", "failed"},
                 interrupted : SUBSET Jobs, deferred : SUBSET Jobs]
  <2>1. pc \in {"up", "failed"}
    OBVIOUS
  <2> HIDE DEF pc
  <2> QED
    BY <1>1, <2>1, Running
<1>3. /\ IsStore(disk) /\ claims \in SUBSET Claims /\ AloneIn(claims, loose)
      /\ Held(claims) \subseteq used.born
  BY <1>1, Running
<1>4. cs \in SUBSET Claims /\ Held(cs) = Held(claims) /\ AloneIn(cs, loose)
  BY <1>3, DetachedClaims
<1>5. Walked(disk, store)
  BY <1>3, Walks DEF IInv
<1> HIDE DEF store, cs
<1>6. /\ IsStore(store) /\ DOMAIN store = DOMAIN disk
      /\ MarkedIn(store, Held(claims) \ (loose \cup Unguarded(disk)))
      /\ used.faults = 0 => MarkedOnly(store, Held(claims))
      /\ Within(store, disk)
  BY <1>1, <1>5, FileWalked
<1>7. MarkedIn(store, Held(cs) \ (loose \cup Unguarded(mem) \cup Unguarded(disk)
                                             \cup Unguarded(store)))
  BY <1>4, <1>6 DEF MarkedIn
<1> QED
  BY <1>1, <1>2, <1>3, <1>4, <1>6, <1>7, RunningSection

LEMMA TickCollectKeeps ==
    ASSUME IInv, NEW saved \in BOOLEAN, TickCollect(saved)
    PROVE  IInv' /\ EditsKept
<1> DEFINE due == {j \in DOMAIN disk : Due(disk[j])}
           idle == Maintained(disk, TRUE)
           more == {c \in Batch("tick", due, None, "due") : saved}
           cs == Detached(claims) \cup more
           store == IF due = {} THEN idle ELSE Marked(disk, due, now)
<1>1. /\ Save(store, saved, cs) /\ Counted(saved, 0)
      /\ start' = start /\ now' = now /\ manual' = manual
  BY DEF TickCollect, Batch
<1>2. start.pc # "boot"
  BY DEF TickCollect, IInv, Booting
<1>3. /\ IsStore(disk) /\ claims \in SUBSET Claims /\ AloneIn(claims, loose)
      /\ now \in Int /\ now # None /\ DOMAIN disk \cup Held(claims) \subseteq used.born
      /\ start' \in [pc : {"plan", "catchup", "arm", "up", "failed"},
                     interrupted : SUBSET Jobs, deferred : SUBSET Jobs]
  BY <1>1, <1>2, Running
<1>4. due \in SUBSET DOMAIN disk /\ due \subseteq Jobs /\ \A j \in due : disk[j].marker = None
  BY <1>3 DEF Due, IsStore
<1> HIDE DEF due
<1>5. Detached(claims) \in SUBSET Claims /\ Held(Detached(claims)) = Held(claims)
      /\ AloneIn(Detached(claims), loose)
  BY <1>3, DetachedClaims
<1>6. /\ more \in SUBSET Claims /\ AloneIn(more, loose)
      /\ Held(more) = IF saved THEN due ELSE {}
  <2>1. /\ Batch("tick", due, None, "due") \in SUBSET Claims
        /\ Held(Batch("tick", due, None, "due")) = due
        /\ AloneIn(Batch("tick", due, None, "due"), loose)
    <3>1. due \in SUBSET Jobs /\ None \in Int
      BY <1>4 DEF None
    <3> QED
      BY <3>1, NewClaims
  <2>2. more = IF saved THEN Batch("tick", due, None, "due") ELSE {}
    OBVIOUS
  <2> HIDE DEF more
  <2>3. saved => Held(more) = due
    BY <2>1, <2>2
  <2>4. ~saved => Held(more) = {}
    BY <2>2 DEF Held
  <2> QED
    BY <2>1, <2>2, <2>3, <2>4 DEF AloneIn
<1> HIDE DEF more
<1>7. /\ IsStore(store) /\ DOMAIN store = DOMAIN disk
      /\ due \cap (Held(claims) \ loose) = {}
      /\ MarkedIn(store, (Held(claims) \cup due) \ (loose \cup Unguarded(disk)))
      /\ used.faults = 0 => MarkedOnly(store, Held(claims) \cup due) /\ Within(store, disk)
  <2>1. CASE due = {}
    <3>1. store = idle
      BY <2>1
    <3>2. Walked(disk, idle)
      BY <1>3, Walks DEF IInv
    <3> HIDE DEF store, idle
    <3>3. /\ IsStore(idle) /\ DOMAIN idle = DOMAIN disk
          /\ MarkedIn(idle, Held(claims) \ (loose \cup Unguarded(disk)))
          /\ used.faults = 0 => MarkedOnly(idle, Held(claims))
          /\ Within(idle, disk)
      BY <1>2, <3>2, FileWalked
    <3>4. Held(claims) \cup due = Held(claims)
      BY <2>1
    <3> QED
      BY <2>1, <3>1, <3>3, <3>4
  <2>2. CASE due # {}
    <3>1. store = Marked(disk, due, now)
      BY <2>2
    <3> HIDE DEF store
    <3>2. /\ IsStore(Marked(disk, due, now)) /\ DOMAIN Marked(disk, due, now) = DOMAIN disk
          /\ due \cap (Held(claims) \ loose) = {}
          /\ MarkedIn(Marked(disk, due, now), (Held(claims) \cup due) \ loose)
          /\ used.faults = 0 => /\ MarkedOnly(Marked(disk, due, now), Held(claims) \cup due)
                               /\ Within(Marked(disk, due, now), disk)
      BY <1>2, <1>3, <1>4, ClaimsMarked
    <3> QED
      BY <3>1, <3>2 DEF MarkedIn
  <2> QED
    BY <2>1, <2>2
<1> HIDE DEF store
<1>8. AloneIn(cs, loose) /\ Held(cs) = Held(claims) \cup Held(more) /\ cs \in SUBSET Claims
  <2>1. Held(more) \cap (Held(Detached(claims)) \ loose) = {}
    BY <1>5, <1>6, <1>7
  <2>2. /\ AloneIn(Detached(claims), loose) /\ AloneIn(more, loose)
        /\ Held(Detached(claims)) = Held(claims)
    BY <1>5, <1>6
  <2>3. cs = Detached(claims) \cup more
    OBVIOUS
  <2>4. cs \in SUBSET Claims
    BY <1>5, <1>6, <2>3
  <2> HIDE DEF cs
  <2>5. /\ AloneIn(Detached(claims) \cup more, loose)
        /\ Held(Detached(claims) \cup more) = Held(Detached(claims)) \cup Held(more)
    BY <2>1, <2>2, AddedClaims
  <2> QED
    BY <2>2, <2>3, <2>4, <2>5
<1> HIDE DEF cs
<1>9. /\ Held(cs) \subseteq used.born
      /\ ~saved => Held(cs) \subseteq Held(claims)
      /\ used.faults = 0 /\ saved => MarkedOnly(store, Held(cs))
      /\ MarkedIn(store, Held(cs) \ (loose \cup Unguarded(mem) \cup Unguarded(disk)
                                            \cup Unguarded(store)))
  BY <1>3, <1>4, <1>6, <1>7, <1>8 DEF MarkedIn
<1> QED
  BY <1>1, <1>2, <1>3, <1>7, <1>8, <1>9, RunningSection

LEMMA TickKeeps ==
    ASSUME IInv, TickFires \/ TickEnds
    PROVE  IInv' /\ EditsKept
<1>1. /\ UNCHANGED <<now, disk, mem, claims, loose>>
      /\ start' = start /\ manual' = manual /\ used' = used
  BY DEF TickFires, TickEnds
<1>2. start.pc # "boot"
  BY DEF TickFires, TickEnds, IInv, Booting
<1>3. Preflighted' /\ used \in Troubles
  BY <1>1 DEF IInv, Typed, Preflighted
<1> QED
  BY <1>1, <1>2, <1>3, Running, OthersUnchanged

\* An execution that starts or ends stays the claim of its job.
LEMMA ClaimReplaced ==
    ASSUME IInv, NEW c \in claims, NEW d \in Claims, d.job = c.job,
           claims' = (claims \ {c}) \cup {d}
    PROVE  claims' \subseteq Claims /\ Held(claims') = Held(claims) /\ AloneIn(claims', loose)
<1>1. claims \subseteq Claims /\ AloneIn(claims, loose)
  BY DEF IInv, Typed
<1>2. Held(claims') = Held(claims)
  <2>1. ASSUME NEW j \in Held(claims) PROVE j \in Held(claims')
    <3>1. PICK x \in claims : x.job = j
      BY DEF Held
    <3>2. \E y \in claims' : y.job = j
      BY <3>1
    <3> QED
      BY <3>2 DEF Held
  <2>2. ASSUME NEW j \in Held(claims') PROVE j \in Held(claims)
    <3>1. PICK x \in claims' : x.job = j
      BY DEF Held
    <3>2. \E y \in claims : y.job = j
      BY <3>1
    <3> QED
      BY <3>2 DEF Held
  <2> QED
    BY <2>1, <2>2
<1>3. AloneIn(claims', loose)
  BY <1>1 DEF AloneIn
<1> QED
  BY <1>1, <1>2, <1>3

LEMMA ExecutionStartsKeeps ==
    ASSUME IInv, NEW c \in claims, ExecutionStarts(c)
    PROVE  IInv' /\ EditsKept
<1>1. /\ UNCHANGED <<now, disk, start, tick, timer, manual, loose, used>>
      /\ claims' = (claims \ {c}) \cup {[c EXCEPT !.outcome = "running", !.at = now, !.own = FALSE]}
      /\ mem' = mem \/ mem' = Marked(mem, {c.job}, now)
  BY DEF ExecutionStarts
<1>2. start.pc # "boot"
  BY DEF IInv, Booting
<1>3. /\ IsStore(mem) /\ c \in Claims /\ now \in Int /\ now # None
  BY <1>2, Running
<1>4. /\ [c EXCEPT !.outcome = "running", !.at = now, !.own = FALSE] \in Claims
      /\ [c EXCEPT !.outcome = "running", !.at = now, !.own = FALSE].job = c.job
  BY <1>3 DEF Claims
<1>5. claims' \subseteq Claims /\ Held(claims') = Held(claims) /\ AloneIn(claims', loose)
  BY <1>1, <1>4, ClaimReplaced
<1>6. /\ IsStore(mem') /\ SameJobs(mem, mem')
      /\ \A j \in DOMAIN mem :
           mem'[j].marker = mem[j].marker \/ (j = c.job /\ mem'[j].marker = now)
  <2>1. CASE mem' = mem
    BY <1>3, <2>1 DEF SameJobs
  <2>2. CASE mem' = Marked(mem, {c.job}, now)
    <3>1. /\ IsStore(Marked(mem, {c.job}, now)) /\ SameJobs(mem, Marked(mem, {c.job}, now))
          /\ \A j \in DOMAIN mem : Marked(mem, {c.job}, now)[j].marker =
                IF j \in {c.job} THEN now ELSE mem[j].marker
      BY <1>3, MarkedStore
    <3> QED
      BY <2>2, <3>1
  <2> QED
    BY <1>1, <2>1, <2>2
<1>7. Typed' /\ Preflighted' /\ Booting'
  BY <1>1, <1>2, <1>5, <1>6 DEF IInv, Typed, Preflighted, Booting
<1>8. Born' /\ Agree'
  BY <1>1, <1>5, <1>6 DEF IInv, Born, Agree, SameJobs
<1>9. Guarded'
  BY <1>1, <1>3, <1>5, <1>6 DEF IInv, Guarded, MarkedIn, SameJobs
<1>10. Backed'
  <2>1. c.job \in Held(claims)
    BY DEF Held
  <2> QED
    BY <1>1, <1>5, <1>6, <2>1 DEF IInv, Backed, MarkedOnly, SameJobs
<1>11. EditsKept
  BY <1>1 DEF EditsKept, Within
<1> QED
  BY <1>1, <1>5, <1>7, <1>8, <1>9, <1>10, <1>11 DEF IInv

\* A timeout counts as a stop, and as nothing else.
LEMMA EndIsCounted ==
    ASSUME Typed, NEW c, NEW outcome, ExecutionEnds(c, outcome)
    PROVE  /\ used' \in Troubles /\ used'.born = used.born
           /\ used'.faults = used.faults /\ used'.edits = used.edits
<1> DEFINE sum == used.stops + 1
<1>1. used \in Troubles /\ sum \in Nat
  BY DEF Typed, Troubles
<1>2. used' = used \/ used' = [used EXCEPT !.stops = sum]
  BY DEF ExecutionEnds
<1> HIDE DEF sum
<1> QED
  BY <1>1, <1>2 DEF Troubles

LEMMA ExecutionEndsKeeps ==
    ASSUME IInv, NEW c \in claims, NEW outcome \in Outcomes, ExecutionEnds(c, outcome)
    PROVE  IInv' /\ EditsKept
<1>0. /\ used' \in Troubles /\ used'.born = used.born
      /\ used'.faults = used.faults /\ used'.edits = used.edits
  BY EndIsCounted DEF IInv
<1>1. /\ UNCHANGED <<now, disk, mem, start, tick, timer, manual, loose>>
      /\ claims' = (claims \ {c}) \cup {[c EXCEPT !.outcome = outcome, !.ended = now]}
  BY DEF ExecutionEnds
<1>2. start.pc # "boot"
  BY DEF IInv, Booting
<1>3. c \in Claims /\ now \in Int
  BY <1>2, Running
<1>4. /\ [c EXCEPT !.outcome = outcome, !.ended = now] \in Claims
      /\ [c EXCEPT !.outcome = outcome, !.ended = now].job = c.job
  BY <1>3 DEF Claims
<1>5. claims' \subseteq Claims /\ Held(claims') = Held(claims) /\ AloneIn(claims', loose)
  BY <1>1, <1>4, ClaimReplaced
<1>6. Typed' /\ Preflighted' /\ Booting'
  BY <1>0, <1>1, <1>2, <1>5 DEF IInv, Typed, Preflighted, Booting
<1>7. Born' /\ Agree' /\ Guarded' /\ Backed'
  BY <1>0, <1>1, <1>5 DEF IInv, Born, Agree, Guarded, Backed
<1>8. EditsKept
  BY <1>1 DEF EditsKept, Within
<1> QED
  BY <1>1, <1>5, <1>6, <1>7, <1>8 DEF IInv

\* The preflight may take markers off, and loosens the jobs it may take them
\* off of.
LEMMA PreflightKeeps ==
    ASSUME IInv, NEW r \in Runs, NEW j \in Jobs, NEW forced \in BOOLEAN, Preflight(r, j, forced)
    PROVE  IInv' /\ EditsKept
<1>1. /\ UNCHANGED <<now, disk, start, tick, timer, claims, used>>
      /\ mem' = Maintained(mem, FALSE)
      /\ loose' = loose \cup (Held(claims) \cap Unguarded(mem))
      /\ manual' = [manual EXCEPT ![r] = [job |-> j, at |-> now]]
      /\ start.pc # "boot"
  BY DEF Preflight
<1>2. Walked(mem, mem')
  BY <1>1, Walks DEF IInv, Typed
<1>3. /\ IsStore(mem') /\ SameJobs(mem', mem)
      /\ MarkedIn(mem', (Held(claims) \ loose) \ Unguarded(mem))
      /\ \A ks : MarkedOnly(mem, ks) => MarkedOnly(mem', ks)
  BY <1>2, WalkMarks DEF IInv, Typed, Guarded
<1>4. now \in Int /\ now # None
  BY <1>1, Running
<1>5. Typed' /\ Preflighted' /\ Booting'
  <2>1. manual \in [Runs -> [job : Jobs \cup {NoJob}, at : Int]]
    BY DEF IInv, Typed
  <2>2. /\ manual' \in [Runs -> [job : Jobs \cup {NoJob}, at : Int]]
        /\ manual'[r].at = now /\ \A x \in Runs \ {r} : manual'[x] = manual[x]
    BY <1>1, <1>4, <2>1
  <2>3. Preflighted'
    BY <1>4, <2>2 DEF IInv, Preflighted
  <2> QED
    BY <1>1, <1>3, <2>2, <2>3 DEF IInv, Typed, Booting
<1>6. Held(claims') = Held(claims) /\ AloneIn(claims', loose')
  BY <1>1 DEF IInv, AloneIn
<1>7. Born' /\ Agree'
  BY <1>1, <1>3, <1>6 DEF IInv, Born, Agree, SameJobs
<1>8. Guarded'
  BY <1>1, <1>3, <1>6 DEF IInv, Guarded, MarkedIn
<1>9. Backed'
  BY <1>1, <1>3, <1>6 DEF IInv, Backed
<1>10. EditsKept
  BY <1>1 DEF EditsKept, Within
<1> QED
  BY <1>5, <1>6, <1>7, <1>8, <1>9, <1>10 DEF IInv

\* The second section claims the job only if it finds it without a marker.
LEMMA ReserveKeeps ==
    ASSUME IInv, NEW r \in Runs, NEW saved \in BOOLEAN, Reserve(r, saved)
    PROVE  IInv' /\ EditsKept
<1> DEFINE j == manual[r].job
           at == manual[r].at
           more == {c \in Batch(r, {j}, at, "running") : saved}
           cs == claims \cup more
           store == Marked(mem, {j}, at)
<1>1. /\ Counted(saved, 0) /\ start' = start /\ now' = now
      /\ manual' = [manual EXCEPT ![r] = [job |-> NoJob, at |-> None]]
      /\ start.pc # "boot" /\ j # NoJob
  BY DEF Reserve, Reserved, Dropped, IInv, Booting
<1>2. /\ IsStore(mem) /\ claims \in SUBSET Claims /\ AloneIn(claims, loose)
      /\ DOMAIN mem \cup Held(claims) \subseteq used.born
      /\ start' \in [pc : {"plan", "catchup", "arm", "up", "failed"},
                     interrupted : SUBSET Jobs, deferred : SUBSET Jobs]
      /\ manual \in [Runs -> [job : Jobs \cup {NoJob}, at : Int]]
  BY <1>1, Running
<1>3. at \in Int /\ at # None
  BY <1>1, <1>2 DEF IInv, Preflighted
<1>4. Preflighted' /\ manual' \in [Runs -> [job : Jobs \cup {NoJob}, at : Int]]
  BY <1>1, <1>2 DEF IInv, Preflighted, None
<1>5. /\ used' \in Troubles /\ used'.born = used.born
      /\ used'.faults = IF saved THEN used.faults ELSE used.faults + 1
  BY <1>1, CountedUsed DEF IInv
<1>6. CASE j \in DOMAIN mem /\ mem[j].marker = None
  <2>1. Save(store, saved, cs)
    <3>1. Batch(r, {j}, at, "running") = {Claim(r, j, at, "running")}
      BY DEF Batch
    <3>2. cs = claims \cup {c \in {Claim(r, j, at, "running")} : saved}
      BY <3>1
    <3> QED
      BY <1>6, <3>2 DEF Reserve, Reserved
  <2>2. {j} \in SUBSET DOMAIN mem /\ {j} \in SUBSET Jobs /\ \A k \in {j} : mem[k].marker = None
    BY <1>2, <1>6 DEF IsStore
  <2> HIDE DEF j, at
  <2>3. /\ more \in SUBSET Claims /\ AloneIn(more, loose)
        /\ Held(more) = IF saved THEN {j} ELSE {}
    <3>1. /\ Batch(r, {j}, at, "running") \in SUBSET Claims
          /\ Held(Batch(r, {j}, at, "running")) = {j}
          /\ AloneIn(Batch(r, {j}, at, "running"), loose)
      BY <1>3, <2>2, NewClaims
    <3>2. more = IF saved THEN Batch(r, {j}, at, "running") ELSE {}
      OBVIOUS
    <3> HIDE DEF more
    <3>3. saved => Held(more) = {j}
      BY <3>1, <3>2
    <3>4. ~saved => Held(more) = {}
      BY <3>2 DEF Held
    <3> QED
      BY <3>1, <3>2, <3>3, <3>4 DEF AloneIn
  <2>4. /\ IsStore(store) /\ DOMAIN store = DOMAIN mem
        /\ {j} \cap (Held(claims) \ loose) = {}
        /\ MarkedIn(store, (Held(claims) \cup {j}) \ loose)
        /\ used.faults = 0 => MarkedOnly(store, Held(claims) \cup {j}) /\ Within(store, disk)
    BY <1>1, <1>3, <2>2, ClaimsMarked
  <2> HIDE DEF store, more
  <2>5. AloneIn(cs, loose) /\ Held(cs) = Held(claims) \cup Held(more) /\ cs \in SUBSET Claims
    BY <1>2, <2>3, <2>4, AddedClaims
  <2> HIDE DEF cs
  <2>6. /\ DOMAIN store \cup Held(cs) \subseteq used'.born
        /\ ~saved => Held(cs) \subseteq Held(claims)
        /\ used.faults = 0 /\ saved => MarkedOnly(store, Held(cs))
        /\ used.faults = 0 /\ used'.edits = used.edits => Within(store, disk)
        /\ MarkedIn(store, Held(cs) \ (loose \cup Unguarded(mem) \cup Unguarded(disk)
                                              \cup Unguarded(store)))
    BY <1>2, <1>5, <1>6, <2>2, <2>3, <2>4, <2>5 DEF MarkedIn
  <2> QED
    BY <1>1, <1>2, <1>4, <1>5, <2>1, <2>4, <2>5, <2>6, SectionKeeps
<1>7. CASE ~(j \in DOMAIN mem /\ mem[j].marker = None)
  <2>1. saved /\ UNCHANGED <<disk, mem, claims, loose>>
    BY <1>7 DEF Reserve
  <2> QED
    BY <1>1, <1>2, <1>4, <1>5, <2>1, OthersUnchanged
<1> QED
  BY <1>6, <1>7

\* The result is laid over the reloaded file, which has the job if the memory
\* has it, as long as writes succeed.
LEMMA FinishKeeps ==
    ASSUME IInv, NEW r \in Runs, NEW saved \in BOOLEAN, Finish(r, saved)
    PROVE  IInv' /\ EditsKept
<1>1. /\ Over(By(r)) /\ Counted(saved, 0) /\ start' = start /\ now' = now /\ manual' = manual
  BY DEF Finish
<1>2. PICK c \in By(r) :
        IF c.job \notin DOMAIN mem
        THEN /\ saved /\ claims' = claims \ {c} /\ loose' = loose \cap Held(claims')
             /\ UNCHANGED <<disk, mem>>
        ELSE Save(Maintained([j \in DOMAIN disk \ (IF Deletes(c) THEN {c.job} ELSE {}) |->
                                IF j = c.job THEN Result(j, mem[j], c) ELSE disk[j]], TRUE),
                  saved, Detached(claims \ {c}))
  BY DEF Finish
<1>3. c \in claims /\ c \in Claims /\ c.outcome \in Outcomes
  BY <1>1, <1>2 DEF By, Over, IInv, Typed, Claims
<1>4. start.pc # "boot"
  BY <1>3 DEF IInv, Booting
<1>5. /\ IsStore(mem) /\ IsStore(disk) /\ claims \in SUBSET Claims /\ AloneIn(claims, loose)
      /\ DOMAIN mem \cup DOMAIN disk \cup Held(claims) \subseteq used.born
      /\ start' \in [pc : {"plan", "catchup", "arm", "up", "failed"},
                     interrupted : SUBSET Jobs, deferred : SUBSET Jobs]
  BY <1>1, <1>4, Running
<1>6. CASE c.job \notin DOMAIN mem
  <2>1. /\ saved /\ claims' = claims \ {c} /\ loose' = loose \cap Held(claims')
        /\ UNCHANGED <<disk, mem>>
    BY <1>2, <1>6
  <2>2. /\ used' \in Troubles /\ used'.born = used.born /\ used'.faults = used.faults
    BY <1>1, <2>1, CountedUsed DEF IInv
  <2>3. /\ Held(claims') \subseteq Held(claims)
        /\ Held(claims) \ {c.job} \subseteq Held(claims')
    BY <2>1 DEF Held
  <2>4. Typed' /\ Preflighted' /\ Born' /\ Booting'
    BY <1>1, <1>4, <2>1, <2>2, <2>3 DEF IInv, Typed, Preflighted, Born, Booting
  <2>5. AloneIn(claims, loose)'
    <3>1. \A x \in claims' : x.job \in Held(claims')
      BY DEF Held
    <3> QED
      BY <1>5, <2>1, <3>1 DEF AloneIn
  <2>6. Guarded' /\ Agree'
    BY <2>1, <2>2, <2>3 DEF IInv, Guarded, Agree, MarkedIn, SameJobs
  <2>7. Backed'
    <3> SUFFICES ASSUME used.faults = 0, start.pc # "boot"
                 PROVE  MarkedOnly(mem, Held(claims')) /\ MarkedOnly(disk, Held(claims'))
      BY <1>1, <2>1, <2>2 DEF Backed
    <3>1. c.job \notin DOMAIN disk
      BY <1>6 DEF IInv, Agree, SameJobs
    <3> QED
      BY <1>6, <2>3, <3>1 DEF IInv, Backed, MarkedOnly
  <2>8. EditsKept
    BY <2>1 DEF EditsKept, Within
  <2> QED
    BY <2>4, <2>5, <2>6, <2>7, <2>8 DEF IInv
<1>7. CASE c.job \in DOMAIN mem
  <2> DEFINE merged == [j \in DOMAIN disk \ (IF Deletes(c) THEN {c.job} ELSE {}) |->
                           IF j = c.job THEN Result(j, mem[j], c) ELSE disk[j]]
             store == Maintained(merged, TRUE)
             cs == Detached(claims \ {c})
  <2>1. Save(store, saved, cs)
    BY <1>2, <1>7
  <2>2. c.job \in Jobs /\ mem[c.job] \in Job
    BY <1>5, <1>7 DEF IsStore
  <2>3. /\ Result(c.job, mem[c.job], c) \in Job
        /\ Result(c.job, mem[c.job], c).marker = None
        /\ Result(c.job, mem[c.job], c).enabled => mem[c.job].enabled
    BY <1>3, <2>2, ResultJob DEF IInv
  <2>4. /\ DOMAIN merged \subseteq DOMAIN disk
        /\ \A j \in DOMAIN merged : j # c.job => merged[j] = disk[j]
        /\ c.job \in DOMAIN merged => merged[c.job] = Result(c.job, mem[c.job], c)
    OBVIOUS
  <2> HIDE DEF merged
  <2>5. IsStore(merged)
    BY <1>5, <2>3, <2>4 DEF IsStore
  <2>6. {c} \in SUBSET claims /\ Held({c}) = {c.job}
    BY <1>3 DEF Held
  <2>7. /\ \A j \in DOMAIN merged : j \in Held({c}) => merged[j].marker = None
        /\ \A j \in DOMAIN merged : j \notin Held({c}) =>
              merged[j].marker = disk[j].marker /\ merged[j].enabled = disk[j].enabled
    BY <2>3, <2>4, <2>6
  <2>8. used.faults = 0 => Within(merged, disk)
    <3> SUFFICES ASSUME used.faults = 0, NEW j \in DOMAIN merged, merged[j].enabled
                 PROVE  disk[j].enabled
      BY <2>4 DEF Within
    <3>1. SameJobs(mem, disk)
      BY DEF IInv, Agree
    <3>2. CASE j = c.job
      BY <1>7, <2>3, <2>4, <3>1, <3>2 DEF SameJobs
    <3>3. CASE j # c.job
      BY <2>4, <3>3
    <3> QED
      BY <3>2, <3>3
  <2>9. /\ IsStore(store) /\ SameJobs(store, merged)
        /\ cs \in SUBSET Claims /\ Held(cs) \subseteq Held(claims)
        /\ AloneIn(cs, loose)
        /\ MarkedIn(store, Held(cs) \ (loose \cup Unguarded(disk)))
        /\ used.faults = 0 /\ start.pc # "boot" => MarkedOnly(store, Held(cs))
    BY <2>4, <2>5, <2>6, <2>7, BatchEnds
  <2> HIDE DEF store, cs
  <2>10. DOMAIN store \subseteq DOMAIN disk /\ (used.faults = 0 => Within(store, disk))
    BY <2>4, <2>8, <2>9 DEF SameJobs, Within
  <2>11. MarkedIn(store, Held(cs) \ (loose \cup Unguarded(mem) \cup Unguarded(disk)
                                               \cup Unguarded(store)))
    BY <2>9 DEF MarkedIn
  <2>12. Held(cs) \subseteq used.born
    BY <1>5, <2>9
  <2> QED
    BY <1>1, <1>4, <1>5, <2>1, <2>9, <2>10, <2>11, <2>12, RunningSection
<1> QED
  BY <1>6, <1>7

\* An edit, which says itself that it is one.
LEMMA EditKeeps ==
    ASSUME IInv, NEW saved \in BOOLEAN, NEW store, Edit(store, saved), IsStore(store),
           used' \in Troubles, used.born \subseteq used'.born, used'.edits = used.edits + 1,
           used'.faults = IF saved THEN used.faults ELSE used.faults + 1,
           DOMAIN store \subseteq used'.born,
           MarkedIn(store, Held(claims) \ (loose \cup Unguarded(mem) \cup Unguarded(store))),
           used.faults = 0 => MarkedOnly(store, Held(claims))
    PROVE  IInv' /\ EditsKept
<1>1. /\ start.pc # "boot" /\ Save(store, saved, claims)
      /\ start' = start /\ now' = now /\ manual' = manual
  BY DEF Edit
<1>2. /\ claims \in SUBSET Claims /\ AloneIn(claims, loose)
      /\ Held(claims) \subseteq used.born
      /\ start' \in [pc : {"plan", "catchup", "arm", "up", "failed"},
                     interrupted : SUBSET Jobs, deferred : SUBSET Jobs]
  BY <1>1, Running
<1>3. Preflighted' /\ manual' \in [Runs -> [job : Jobs \cup {NoJob}, at : Int]]
  BY <1>1 DEF IInv, Typed, Preflighted
<1>4. used'.edits # used.edits
  BY DEF IInv, Typed, Troubles
<1>5. MarkedIn(store, Held(claims) \ (loose \cup Unguarded(mem) \cup Unguarded(disk)
                                             \cup Unguarded(store)))
  BY DEF MarkedIn
<1>6. DOMAIN store \cup Held(claims) \subseteq used'.born
  BY <1>2
<1> QED
  BY <1>1, <1>2, <1>3, <1>4, <1>5, <1>6, SectionKeeps

\* A job that is added is new, so no claim is of it.
LEMMA AddKeeps ==
    ASSUME IInv, NEW j \in Jobs, NEW saved \in BOOLEAN, Add(j, saved)
    PROVE  IInv' /\ EditsKept
<1> DEFINE s == [k \in DOMAIN mem \cup {j} |-> IF k = j THEN Fresh(j) ELSE mem[k]]
           store == Recomputed(s)
           faults == IF saved THEN used.faults ELSE used.faults + 1
           edits == used.edits + 1
           born == used.born \cup {j}
<1>1. /\ j \notin used.born /\ Edit(store, saved) /\ start.pc # "boot"
      /\ used' = [used EXCEPT !.faults = faults, !.edits = edits, !.born = born]
  BY DEF Add, Edit
<1>2. /\ used' \in Troubles /\ used'.born = used.born \cup {j}
      /\ used'.faults = IF saved THEN used.faults ELSE used.faults + 1
      /\ used'.edits = used.edits + 1
  <2>1. used \in Troubles /\ faults \in Nat /\ edits \in Nat /\ born \in SUBSET Jobs
    BY DEF IInv, Typed, Troubles
  <2> HIDE DEF faults, edits, born
  <2>2. /\ used' \in Troubles /\ used'.born = born
        /\ used'.faults = faults /\ used'.edits = edits
    BY <1>1, <2>1 DEF Troubles
  <2> QED
    BY <2>2 DEF faults, edits, born
<1>3. /\ IsStore(mem) /\ DOMAIN mem \cup Held(claims) \subseteq used.born
  BY <1>1, Running
<1>4. Fresh(j) \in Job /\ Fresh(j).marker = None
  BY FreshJob DEF IInv, Typed
<1>5. /\ DOMAIN s = DOMAIN mem \cup {j} /\ s[j] = Fresh(j)
      /\ \A k \in DOMAIN mem : s[k] = mem[k]
  <2>1. j \notin DOMAIN mem
    BY <1>1, <1>3
  <2> QED
    BY <2>1
<1> HIDE DEF s
<1>6. IsStore(s)
  BY <1>3, <1>4, <1>5 DEF IsStore
<1>7. Walked(s, store)
  BY <1>6, Walks DEF IInv
<1>8. j \notin Held(claims)
  BY <1>1, <1>3
<1>9. MarkedIn(s, Held(claims) \ loose)
  BY <1>5, <1>8 DEF IInv, Guarded, MarkedIn
<1>10. /\ IsStore(store) /\ SameJobs(store, s)
       /\ MarkedIn(store, (Held(claims) \ loose) \ Unguarded(s))
       /\ \A ks : MarkedOnly(s, ks) => MarkedOnly(store, ks)
  BY <1>6, <1>7, <1>9, WalkMarks
<1> HIDE DEF store
<1>11. \A k \in Held(claims) : k \in Unguarded(s) => k \in Unguarded(mem)
  BY <1>5, <1>8 DEF Unguarded
<1>12. MarkedIn(store, Held(claims) \ (loose \cup Unguarded(mem) \cup Unguarded(store)))
  BY <1>10, <1>11 DEF MarkedIn
<1>13. used.faults = 0 => MarkedOnly(store, Held(claims))
  <2>1. used.faults = 0 => MarkedOnly(s, Held(claims))
    BY <1>1, <1>4, <1>5 DEF IInv, Backed, MarkedOnly
  <2> QED
    BY <1>10, <2>1
<1>14. DOMAIN store \subseteq used'.born /\ used.born \subseteq used'.born
  BY <1>2, <1>3, <1>5, <1>10 DEF SameJobs
<1> QED
  BY <1>1, <1>2, <1>10, <1>12, <1>13, <1>14, EditKeeps

LEMMA SetEnabledKeeps ==
    ASSUME IInv, NEW j \in Jobs, NEW enabled \in BOOLEAN, NEW saved \in BOOLEAN,
           SetEnabled(j, enabled, saved)
    PROVE  IInv' /\ EditsKept
<1> DEFINE job == [mem[j] EXCEPT !.enabled = enabled]
           marker == IF enabled THEN job.marker ELSE None
           edited == [job EXCEPT !.next = NextRun(j, job), !.marker = marker]
           store == [mem EXCEPT ![j] = edited]
<1>1. j \in DOMAIN mem /\ Edit(store, saved) /\ Counted(saved, 1) /\ start.pc # "boot"
  BY DEF SetEnabled, Edit
<1>2. /\ used' \in Troubles /\ used'.born = used.born /\ used'.edits = used.edits + 1
      /\ used'.faults = IF saved THEN used.faults ELSE used.faults + 1
  BY <1>1, CountedUsed DEF IInv
<1>3. IsStore(mem) /\ DOMAIN mem \subseteq used.born
  BY <1>1, Running
<1>4. job \in Job /\ job.marker = mem[j].marker /\ job.enabled = enabled
  <2>1. mem[j] \in Job
    BY <1>1, <1>3 DEF IsStore
  <2> QED
    BY <2>1 DEF Job
<1> HIDE DEF job
<1>5. NextRun(j, job) \in Int /\ marker \in Int
  <2>1. NextRun(j, job) \in Int
    BY <1>4, NextRunTyped DEF IInv, Typed
  <2>2. job.marker \in Int /\ None \in Int
    BY <1>4 DEF Job, None
  <2> QED
    BY <2>1, <2>2
<1> HIDE DEF marker
<1>6. edited \in Job /\ edited.marker = marker /\ edited.enabled = enabled
  BY <1>4, <1>5 DEF Job
<1> HIDE DEF edited
<1>7. /\ DOMAIN store = DOMAIN mem /\ store[j] = edited
      /\ \A k \in DOMAIN mem : k # j => store[k] = mem[k]
  BY <1>1
<1> HIDE DEF store
<1>8. IsStore(store)
  BY <1>3, <1>6, <1>7 DEF IsStore
<1>9. ~enabled => j \in Unguarded(store)
  BY <1>1, <1>6, <1>7 DEF Unguarded
<1>10. enabled => store[j].marker = mem[j].marker
  BY <1>4, <1>6, <1>7 DEF marker
<1>11. ~enabled => store[j].marker = None
  BY <1>6, <1>7 DEF marker
<1>12. MarkedIn(store, Held(claims) \ (loose \cup Unguarded(mem) \cup Unguarded(store)))
  BY <1>7, <1>9, <1>10 DEF IInv, Guarded, MarkedIn
<1>13. used.faults = 0 => MarkedOnly(store, Held(claims))
  BY <1>1, <1>7, <1>10, <1>11 DEF IInv, Backed, MarkedOnly
<1>14. DOMAIN store \subseteq used'.born /\ used.born \subseteq used'.born
  BY <1>2, <1>3, <1>7
<1> QED
  BY <1>1, <1>2, <1>8, <1>12, <1>13, <1>14, EditKeeps

LEMMA RemoveKeeps ==
    ASSUME IInv, NEW j \in Jobs, NEW saved \in BOOLEAN, Remove(j, saved)
    PROVE  IInv' /\ EditsKept
<1> DEFINE store == [k \in DOMAIN mem \ {j} |-> mem[k]]
<1>1. Edit(store, saved) /\ Counted(saved, 1) /\ start.pc # "boot"
  BY DEF Remove, Edit
<1>2. /\ used' \in Troubles /\ used'.born = used.born /\ used'.edits = used.edits + 1
      /\ used'.faults = IF saved THEN used.faults ELSE used.faults + 1
  BY <1>1, CountedUsed DEF IInv
<1>3. IsStore(mem) /\ DOMAIN mem \subseteq used.born
  BY <1>1, Running
<1>4. IsStore(store) /\ DOMAIN store \subseteq used'.born /\ used.born \subseteq used'.born
  BY <1>2, <1>3 DEF IsStore
<1>5. MarkedIn(store, Held(claims) \ (loose \cup Unguarded(mem) \cup Unguarded(store)))
  BY DEF IInv, Guarded, MarkedIn
<1>6. used.faults = 0 => MarkedOnly(store, Held(claims))
  BY <1>1 DEF IInv, Backed, MarkedOnly
<1> QED
  BY <1>1, <1>2, <1>4, <1>5, <1>6, EditKeeps

LEMMA ReadKeeps ==
    ASSUME IInv, NEW saved \in BOOLEAN, Read(saved)
    PROVE  IInv' /\ EditsKept
<1> DEFINE store == Maintained(mem, FALSE)
<1>1. /\ start.pc # "boot" /\ Save(store, saved, claims) /\ Counted(saved, 0)
      /\ start' = start /\ now' = now /\ manual' = manual
  BY DEF Read
<1>2. /\ IsStore(mem) /\ claims \in SUBSET Claims /\ AloneIn(claims, loose)
      /\ Held(claims) \subseteq used.born
      /\ start' \in [pc : {"plan", "catchup", "arm", "up", "failed"},
                     interrupted : SUBSET Jobs, deferred : SUBSET Jobs]
  BY <1>1, Running
<1>3. Walked(mem, store)
  BY <1>2, Walks DEF IInv
<1> HIDE DEF store
<1>4. /\ IsStore(store) /\ DOMAIN store = DOMAIN mem
      /\ MarkedIn(store, Held(claims) \ (loose \cup Unguarded(mem)))
      /\ used.faults = 0 => MarkedOnly(store, Held(claims)) /\ Within(store, disk)
  BY <1>1, <1>3, MemoryWalked
<1>5. MarkedIn(store, Held(claims) \ (loose \cup Unguarded(mem) \cup Unguarded(disk)
                                             \cup Unguarded(store)))
  BY <1>4 DEF MarkedIn
<1> QED
  BY <1>1, <1>2, <1>4, <1>5, RunningSection

\* Nothing is under way after a crash, and the memory is the file.
LEMMA CrashKeeps ==
    ASSUME IInv, Crash
    PROVE  IInv' /\ EditsKept
<1>1. /\ mem' = disk /\ disk' = disk /\ now' = now /\ tick' = "idle" /\ timer' = FALSE
      /\ start' = [pc |-> "boot", interrupted |-> {}, deferred |-> {}]
      /\ claims' = {} /\ loose' = {}
      /\ manual' = [r \in Runs |-> [job |-> NoJob, at |-> None]]
      /\ used' = [used EXCEPT !.stops = used.stops + 1]
  BY DEF Crash
<1>2. used' \in Troubles /\ used'.born = used.born /\ used'.faults = used.faults
  BY <1>1 DEF IInv, Typed, Troubles
<1>3. Held(claims') = {}
  BY <1>1 DEF Held
<1>4. start' \in [pc : {"boot", "plan", "catchup", "arm", "up", "failed"},
                 interrupted : SUBSET Jobs, deferred : SUBSET Jobs] /\ start'.pc = "boot"
  BY <1>1
<1>5. Typed' /\ Preflighted' /\ Booting'
  BY <1>1, <1>2, <1>4 DEF IInv, Typed, Preflighted, Booting, None
<1>6. Born' /\ Agree' /\ Backed' /\ Guarded'
  BY <1>1, <1>2, <1>3, <1>4 DEF IInv, Born, Agree, SameJobs, Backed, Guarded, MarkedIn
<1>7. AloneIn(claims, loose)' /\ EditsKept
  BY <1>1 DEF AloneIn, EditsKept, Within
<1> QED
  BY <1>5, <1>6, <1>7 DEF IInv

LEMMA ClockKeeps ==
    ASSUME IInv, Advance \/ UNCHANGED vars \/ \E j \in strays : StrayEnds(j)
    PROVE  IInv' /\ EditsKept
<1>1. /\ UNCHANGED <<disk, mem, start, tick, timer, claims, manual, loose, used>>
      /\ now' = now \/ now' = now + 1
  BY DEF Advance, StrayEnds, vars
<1>2. Typed' /\ Preflighted' /\ Booting'
  BY <1>1 DEF IInv, Typed, Preflighted, Booting
<1>3. Held(claims)' = Held(claims) /\ AloneIn(claims, loose)'
  BY <1>1 DEF Held, IInv, AloneIn
<1>4. Born' /\ Agree' /\ Backed' /\ Guarded'
  BY <1>1, <1>3 DEF IInv, Born, Agree, Backed, Guarded
<1>5. EditsKept
  BY <1>1 DEF EditsKept, Within
<1> QED
  BY <1>2, <1>3, <1>4, <1>5 DEF IInv

LEMMA NextKeeps ==
    ASSUME IInv, [Next]_vars
    PROVE  IInv' /\ EditsKept
<1>1. ASSUME NEW saved \in BOOLEAN, Section(saved) PROVE IInv' /\ EditsKept
  <2>1. CASE \E r \in Runs : Reserve(r, saved) \/ Finish(r, saved)
    BY <2>1, ReserveKeeps, FinishKeeps
  <2> QED
    BY <1>1, <2>1, StartClearKeeps, StartPlanKeeps, StartApplyKeeps, StartArmKeeps,
       TickCollectKeeps, TickApplyKeeps DEF Section
<1>2. ASSUME NEW saved \in BOOLEAN, UserStep(saved) PROVE IInv' /\ EditsKept
  BY <1>2, AddKeeps, RemoveKeeps, SetEnabledKeeps, ReadKeeps DEF UserStep
<1>3. ASSUME NEW c \in claims,
             \/ ExecutionStarts(c)
             \/ \E outcome \in Endings[c.job] : ExecutionEnds(c, outcome)
      PROVE  IInv' /\ EditsKept
  <2>2. Endings[c.job] \subseteq Outcomes
    <3>1. c.job \in Jobs
      BY DEF IInv, Typed, Claims
    <3> QED
      BY <3>1 DEF Outcomes
  <2> QED
    BY <1>3, <2>2, ExecutionStartsKeeps, ExecutionEndsKeeps
<1>4. CASE \E r \in Runs, j \in Jobs, forced \in BOOLEAN : Preflight(r, j, forced)
  BY <1>4, PreflightKeeps
<1>5. CASE TickFires \/ TickEnds
  BY <1>5, TickKeeps
<1>6. CASE Crash \/ Advance \/ UNCHANGED vars \/ \E j \in strays : StrayEnds(j)
  BY <1>6, CrashKeeps, ClockKeeps
<1> QED
  BY <1>1, <1>2, <1>3, <1>4, <1>5, <1>6 DEF Next, Execution

\* At first the file holds jobs without markers, and nothing is under way.
LEMMA InitHolds == Init => IInv
<1> SUFFICES ASSUME Init PROVE IInv
  OBVIOUS
<1>1. /\ now = 0 /\ disk = [j \in AtStart |-> Fresh(j)] /\ mem = disk
      /\ start = [pc |-> "boot", interrupted |-> {}, deferred |-> {}]
      /\ claims = {} /\ tick = "idle" /\ ~timer
      /\ manual = [r \in Runs |-> [job |-> NoJob, at |-> None]]
      /\ used = [edits |-> 0, stops |-> 0, faults |-> 0, born |-> AtStart]
  BY DEF Init
<1>2. DOMAIN disk = AtStart /\ IsStore(disk)
  <2>1. \A j \in AtStart : j \in Jobs /\ Fresh(j) \in Job
    BY <1>1, FreshJob
  <2> QED
    BY <1>1, <2>1 DEF IsStore
<1>3. used \in Troubles /\ used.born = AtStart
  BY <1>1 DEF Troubles
<1>4. Typed /\ Preflighted /\ Booting
  BY <1>1, <1>2, <1>3 DEF Typed, Preflighted, Booting, None
<1>5. Held(claims) = {}
  BY <1>1 DEF Held
<1>6. Born /\ AloneIn(claims, loose) /\ Guarded /\ Agree /\ Backed
  BY <1>1, <1>2, <1>3, <1>5 DEF Born, AloneIn, Guarded, MarkedIn, Agree, SameJobs, Backed
<1> QED
  BY <1>4, <1>6 DEF IInv

-----------------------------------------------------------------------------
\* Claims and their markers agree in every state, whatever sections, edits and
\* crashes come between (locked() and the executions outside it).
THEOREM Invariance == Spec => []IInv
BY InitHolds, NextKeeps, PTL DEF Spec

\* The stores, the claims, start, manual runs and counts keep their types.
THEOREM TypeCorrect == Spec => []Typed
<1>1. IInv => Typed
  BY DEF IInv
<1> QED
  BY <1>1, Invariance, PTL

\* Two executions whose outcome is awaited are never of one job, whichever of
\* the timer, the catch-up and the manual runs claimed them, however many jobs,
\* manual runs, edits, failed writes, timeouts and crashes there are; only an edit
\* or its age frees a job before (what timed out is not awaited: NoOverlap).
THEOREM ExecutionsAlone == Spec => []OneExecution
<1>1. IInv => OneExecution
  <2> SUFFICES ASSUME IInv, NEW j \in Jobs \ loose
               PROVE  Cardinality({c \in claims : c.job = j}) <= 1
    BY DEF OneExecution
  <2> DEFINE mine == {c \in claims : c.job = j}
  <2>1. CASE mine = {}
    <3>1. Cardinality({}) = 0
      BY FS_EmptySet
    <3> QED
      BY <2>1, <3>1
  <2>2. CASE mine # {}
    <3>1. PICK c \in mine : TRUE
      BY <2>2
    <3>2. mine = {c}
      BY <3>1 DEF IInv, AloneIn
    <3>3. Cardinality({c}) = 1
      BY FS_Singleton
    <3> QED
      BY <3>2, <3>3
  <2> QED
    BY <2>1, <2>2
<1> QED
  BY <1>1, Invariance, PTL

\* While writes succeed, no job is blocked by the marker of a run that is over.
THEOREM MarkersBacked == Spec => []MarkersAreBacked
<1>1. IInv => MarkersAreBacked
  BY DEF IInv, Backed, MarkedOnly, MarkersAreBacked
<1> QED
  BY <1>1, Invariance, PTL

\* While writes succeed, the outcome of an execution undoes no edit: it brings
\* back no removed job and enables none.
THEOREM EditsRespected == Spec => EditsStick
<1>1. IInv /\ [Next]_vars => [used'.faults = 0 /\ used'.edits = used.edits =>
          /\ DOMAIN disk' \subseteq DOMAIN disk
          /\ \A j \in DOMAIN disk' : disk'[j].enabled => disk[j].enabled]_vars
  BY NextKeeps DEF EditsKept, Within
<1> QED
  BY <1>1, Invariance, PTL DEF Spec, EditsStick

-----------------------------------------------------------------------------
(* The timer. *)

\* A one-shot job that ran at its time, and has no next run although enabled.
Finished(j, job) == j \in OneShots /\ job.status = "ok" /\ job.last # None /\ Slot[j] <= job.last

\* Only enabled jobs have a next run, and all of them but the finished ones.
Planned(s) ==
    \A j \in DOMAIN s :
        /\ s[j].next # None => s[j].enabled
        /\ s[j].next = None /\ s[j].enabled => Finished(j, s[j])

Waking(s) == {j \in DOMAIN s : s[j].next # None}

\* While writes succeed, memory and file have the same jobs to wake for, so
\* that a timer armed after the one serves the other.
TimerInv ==
    /\ Planned(mem) /\ Planned(disk)
    /\ used.faults = 0 => Waking(mem) = Waking(disk)
    /\ TimerIsKept

LEMMA NextRunPlanned ==
    ASSUME NEW j \in Jobs, NEW job \in Job, now \in Nat
    PROVE  NextRun(j, job) = None <=> ~job.enabled \/ Finished(j, job)
<1>1. Slot[j] \in Nat \ {0}
  OBVIOUS
<1>2. now \div Slot[j] \in Nat
  BY <1>1
<1>3. \A a \in Nat : \A b \in Nat : a * b \in Nat
  OBVIOUS
<1>4. NextSlot(j, now) \in Nat
  BY <1>1, <1>2, <1>3 DEF NextSlot
<1>5. NextSlot(j, now) # None /\ Slot[j] # None
  BY <1>1, <1>4 DEF None
<1> QED
  BY <1>5 DEF NextRun, Finished

\* What a walk leaves of a job is planned, whatever it was.
LEMMA JobWalked ==
    ASSUME NEW j \in Jobs, NEW job \in Job, now \in Nat, NEW t,
           \/ t = [Normal(job) EXCEPT !.next = NextRun(j, Normal(job))]
           \/ t = Normal(job) /\ t.next # None
    PROVE  /\ t.next # None => t.enabled
           /\ t.next = None /\ t.enabled => Finished(j, t)
<1> DEFINE n == Normal(job)
           m == NextRun(j, n)
<1>1. n \in Job /\ n.enabled = job.enabled
  BY NormalJob
<1>2. n.next # None => n.enabled
  <2>1. CASE ~job.enabled
    <3>1. n = [job EXCEPT !.next = None, !.marker = None]
      BY <2>1 DEF Normal
    <3> HIDE DEF n
    <3>2. n.next = None
      BY <3>1 DEF Job
    <3> QED
      BY <3>2
  <2> QED
    BY <1>1, <2>1
<1>3. m \in Int
  BY <1>1, NextRunTyped
<1>4. m = None <=> ~n.enabled \/ Finished(j, n)
  BY <1>1, NextRunPlanned
<1> HIDE DEF n, m
<1>5. CASE t = [n EXCEPT !.next = m]
  <2>1. /\ t.next = m /\ t.enabled = n.enabled
        /\ t.status = n.status /\ t.last = n.last
    BY <1>1, <1>3, <1>5 DEF Job
  <2> QED
    BY <1>4, <2>1 DEF Finished
<1>6. CASE t = n /\ t.next # None
  BY <1>2, <1>6
<1> QED
  BY <1>5, <1>6 DEF n, m

LEMMA WalksPlan ==
    ASSUME now \in Nat, NEW s, IsStore(s), NEW expired \in BOOLEAN
    PROVE  Planned(Recomputed(s)) /\ Planned(Maintained(s, expired))
<1>1. ASSUME NEW j \in DOMAIN s, NEW t,
             \/ t = [Normal(s[j]) EXCEPT !.next = NextRun(j, Normal(s[j]))]
             \/ t = Normal(s[j]) /\ t.next # None
      PROVE  /\ t.next # None => t.enabled
             /\ t.next = None /\ t.enabled => Finished(j, t)
  <2>1. j \in Jobs /\ s[j] \in Job
    BY DEF IsStore
  <2> QED
    BY <1>1, <2>1, JobWalked
<1>2. /\ DOMAIN Recomputed(s) = DOMAIN s
      /\ \A j \in DOMAIN s :
            \/ Recomputed(s)[j] = [Normal(s[j]) EXCEPT !.next = NextRun(j, Normal(s[j]))]
            \/ Recomputed(s)[j] = Normal(s[j]) /\ Recomputed(s)[j].next # None
  BY DEF Recomputed
<1>3. /\ DOMAIN Maintained(s, expired) = DOMAIN s
      /\ \A j \in DOMAIN s :
            \/ Maintained(s, expired)[j] =
                  [Normal(s[j]) EXCEPT !.next = NextRun(j, Normal(s[j]))]
            \/ Maintained(s, expired)[j] = Normal(s[j]) /\ Maintained(s, expired)[j].next # None
  BY DEF Maintained
<1> QED
  BY <1>1, <1>2, <1>3 DEF Planned

\* The walk of status, list and the preflight finds no new job to wake for.
LEMMA WalkIsSteady ==
    ASSUME now \in Nat, NEW s, IsStore(s), Planned(s)
    PROVE  Waking(Maintained(s, FALSE)) = Waking(s)
<1>1. DOMAIN Maintained(s, FALSE) = DOMAIN s
  BY DEF Maintained
<1>2. ASSUME NEW j \in DOMAIN s
      PROVE  Maintained(s, FALSE)[j].next # None <=> s[j].next # None
  <2> DEFINE n == Normal(s[j])
             m == NextRun(j, n)
             t == Maintained(s, FALSE)[j]
  <2>1. j \in Jobs /\ s[j] \in Job
    BY DEF IsStore
  <2>2. n \in Job /\ n.enabled = s[j].enabled
    BY <2>1, NormalJob
  <2>3. t = IF n.next = None THEN [n EXCEPT !.next = m] ELSE n
    BY DEF Maintained
  <2>4. /\ ~s[j].enabled => n.next = None
        /\ s[j].enabled => n.next = s[j].next /\ n.status = s[j].status /\ n.last = s[j].last
    <3>1. CASE ~s[j].enabled
      <4>1. n = [s[j] EXCEPT !.next = None, !.marker = None]
        BY <3>1 DEF Normal
      <4> HIDE DEF n
      <4>2. n.next = None
        BY <2>1, <4>1 DEF Job
      <4> QED
        BY <3>1, <4>2
    <3>2. CASE s[j].enabled
      <4>1. n = s[j] \/ n = [s[j] EXCEPT !.marker = None]
        BY <3>2 DEF Normal
      <4> HIDE DEF n
      <4>2. n.next = s[j].next /\ n.status = s[j].status /\ n.last = s[j].last
        BY <2>1, <4>1 DEF Job
      <4> QED
        BY <3>2, <4>2
    <3> QED
      BY <3>1, <3>2
  <2>5. m \in Int /\ (m = None <=> ~n.enabled \/ Finished(j, n))
    BY <2>1, <2>2, NextRunTyped, NextRunPlanned
  <2>6. /\ s[j].next # None => s[j].enabled
        /\ s[j].next = None /\ s[j].enabled => Finished(j, s[j])
    BY DEF Planned
  <2> HIDE DEF n, m, t
  <2>7. n.next = None => (t.next = None <=> ~n.enabled \/ Finished(j, n))
    BY <2>2, <2>3, <2>5 DEF Job
  <2>8. n.next # None => t.next = n.next
    BY <2>3
  <2> QED
    BY <2>2, <2>4, <2>6, <2>7, <2>8 DEF Finished, t
<1> QED
  BY <1>1, <1>2 DEF Waking

LEMMA MarkedPlans ==
    ASSUME NEW s, IsStore(s), Planned(s), NEW js, NEW at \in Int
    PROVE  Planned(Marked(s, js, at)) /\ Waking(Marked(s, js, at)) = Waking(s)
<1>1. DOMAIN Marked(s, js, at) = DOMAIN s
  BY DEF Marked
<1>2. ASSUME NEW j \in DOMAIN s
      PROVE  /\ Marked(s, js, at)[j].next = s[j].next
             /\ Marked(s, js, at)[j].enabled = s[j].enabled
             /\ Marked(s, js, at)[j].status = s[j].status
             /\ Marked(s, js, at)[j].last = s[j].last
  <2>1. s[j] \in Job
    BY DEF IsStore
  <2>2. Marked(s, js, at)[j] = IF j \in js THEN [s[j] EXCEPT !.marker = at] ELSE s[j]
    BY DEF Marked
  <2> QED
    BY <2>1, <2>2 DEF Job
<1>3. Planned(Marked(s, js, at))
  BY <1>1, <1>2 DEF Planned, Finished
<1> QED
  BY <1>1, <1>2, <1>3 DEF Waking

\* armTimer looks for what the store has to wake for.
LEMMA ArmedFor ==
    ASSUME NEW s, Planned(s)
    PROVE  Wakes(s) <=> Waking(s) # {}
BY DEF Wakes, Waking, Planned

\* What a section must show: the store it saves is planned, and it arms the
\* timer, or saves nothing new to wake for.
LEMMA SectionPlans ==
    ASSUME IInv, TimerInv, NEW saved \in BOOLEAN, NEW store, NEW cs, Save(store, saved, cs),
           used'.faults = IF saved THEN used.faults ELSE used.faults + 1, Planned(store),
           saved => \/ start'.pc # "up" \/ tick' # "idle"
                    \/ timer' <=> Wakes(store)
                    \/ UNCHANGED <<start, tick, timer>> /\ Waking(store) = Waking(mem)
    PROVE  TimerInv'
<1>1. mem' = store /\ disk' = IF saved THEN store ELSE disk
  BY DEF Save
<1>2. Planned(mem') /\ Planned(disk')
  BY <1>1 DEF TimerInv
<1>3. used.faults \in Nat
  BY DEF IInv, Typed, Troubles
<1>4. CASE ~saved
  <2>1. used'.faults # 0
    BY <1>3, <1>4
  <2> QED
    BY <1>2, <2>1 DEF TimerInv, TimerIsKept
<1>5. CASE saved
  <2>1. mem' = store /\ disk' = store /\ used'.faults = used.faults
    BY <1>1, <1>5
  <2>2. TimerIsKept'
    <3> SUFFICES ASSUME start'.pc = "up", used.faults = 0, Waking(store) # {}
                 PROVE  timer' \/ tick' # "idle"
      BY <2>1 DEF TimerIsKept, Waking
    <3>1. CASE timer' <=> Wakes(store)
      BY <3>1, ArmedFor
    <3>2. CASE UNCHANGED <<start, tick, timer>> /\ Waking(store) = Waking(mem)
      <4>1. Waking(disk) # {}
        BY <3>2 DEF TimerInv
      <4> QED
        BY <3>2, <4>1 DEF TimerInv, TimerIsKept, Waking
    <3> QED
      BY <1>5, <3>1, <3>2
  <2> QED
    BY <1>2, <2>1, <2>2 DEF TimerInv
<1> QED
  BY <1>4, <1>5

LEMMA StartPlans ==
    ASSUME IInv, TimerInv, NEW saved \in BOOLEAN,
           StartClear(saved) \/ StartPlan(saved) \/ StartApply(saved) \/ StartArm(saved)
    PROVE  TimerInv'
<1>1. /\ IsStore(mem) /\ IsStore(disk) /\ now \in Nat /\ now \in Int /\ None \in Int
      /\ Planned(mem) /\ Planned(disk)
  BY DEF IInv, Typed, TimerInv, None
<1>2. /\ used'.faults = IF saved THEN used.faults ELSE used.faults + 1
      /\ used'.faults = 0 => used.faults = 0
  <2>1. Counted(saved, 0)
    BY DEF StartClear, StartPlan, StartApply, StartArm
  <2>2. used.faults \in Nat
    BY DEF IInv, Typed, Troubles
  <2> QED
    BY <2>1, <2>2, CountedUsed DEF IInv
<1>3. start \in [pc : {"boot", "plan", "catchup", "arm", "up", "failed"},
                 interrupted : SUBSET Jobs, deferred : SUBSET Jobs]
  BY DEF IInv, Typed
<1>4. CASE StartClear(saved)
  <2> DEFINE js == {j \in DOMAIN mem : mem[j].marker # None}
             pc == IF saved THEN "plan" ELSE "failed"
  <2>1. /\ Save(Marked(mem, js, None), saved, claims)
        /\ start' = [start EXCEPT !.pc = pc, !.interrupted = js]
    BY <1>4 DEF StartClear
  <2>2. pc # "up"
    OBVIOUS
  <2> HIDE DEF js, pc
  <2>3. start'.pc # "up"
    BY <1>3, <2>1, <2>2
  <2>4. Planned(Marked(mem, js, None))
    BY <1>1, MarkedPlans
  <2> QED
    BY <1>2, <2>1, <2>3, <2>4, SectionPlans
<1>5. CASE StartPlan(saved)
  <2>1. start'.pc # "up"
    BY <1>3, <1>5 DEF StartPlan
  <2>2. CASE UNCHANGED <<disk, mem>>
    BY <1>2, <2>1, <2>2 DEF TimerInv, TimerIsKept, Planned, Waking
  <2>3. ASSUME NEW first, NEW cs, Save(Marked(mem, first, now), saved, cs)
        PROVE  TimerInv'
    <3>1. Planned(Marked(mem, first, now))
      BY <1>1, MarkedPlans
    <3> QED
      BY <1>2, <2>1, <2>3, <3>1, SectionPlans
  <2>4. UNCHANGED <<disk, mem>> \/ \E first, cs : Save(Marked(mem, first, now), saved, cs)
    BY <1>5 DEF StartPlan
  <2> QED
    BY <2>2, <2>3, <2>4
<1>6. CASE StartApply(saved)
  <2> DEFINE b == By("catchup")
             applied == Applied(disk, b)
             staggered == [j \in DOMAIN applied |->
                 IF j \in start.deferred /\ applied[j].enabled
                 THEN [applied[j] EXCEPT !.next = now + 1] ELSE applied[j]]
             store == Maintained(staggered, FALSE)
             pc == IF saved THEN "arm" ELSE "failed"
  <2>1. /\ Over(b) /\ Save(store, saved, Detached(claims \ b))
        /\ start' = [start EXCEPT !.pc = pc, !.deferred = {}]
    BY <1>6 DEF StartApply
  <2>2. pc # "up"
    OBVIOUS
  <2> HIDE DEF pc
  <2>3. start'.pc # "up"
    BY <1>3, <2>1, <2>2
  <2>4. b \in SUBSET Claims
    BY DEF By, IInv, Typed
  <2> HIDE DEF b
  <2>5. IsStore(applied)
    BY <1>1, <2>1, <2>4, AppliedStore DEF IInv
  <2> HIDE DEF applied
  <2>6. IsStore(staggered)
    <3>1. now + 1 \in Int
      BY <1>1
    <3>2. ASSUME NEW j \in DOMAIN applied PROVE staggered[j] \in Job
      <4>1. applied[j] \in Job
        BY <2>5 DEF IsStore
      <4>2. staggered[j] = applied[j] \/ staggered[j] = [applied[j] EXCEPT !.next = now + 1]
        OBVIOUS
      <4> HIDE DEF staggered
      <4> QED
        BY <3>1, <4>1, <4>2, NextChanged
    <3>3. DOMAIN staggered = DOMAIN applied
      OBVIOUS
    <3> HIDE DEF staggered
    <3> QED
      BY <2>5, <3>2, <3>3 DEF IsStore
  <2> HIDE DEF staggered
  <2>7. Planned(store)
    BY <1>1, <2>6, WalksPlan
  <2> HIDE DEF store
  <2> QED
    BY <1>2, <2>1, <2>3, <2>7, SectionPlans
<1>7. CASE StartArm(saved)
  <2> DEFINE store == Recomputed(disk)
             pc == IF saved THEN "up" ELSE "failed"
  <2>1. /\ Save(store, saved, Detached(claims))
        /\ timer' = IF saved THEN Wakes(store) ELSE timer
    BY <1>7 DEF StartArm
  <2>2. Planned(store)
    BY <1>1, WalksPlan
  <2>3. saved => (timer' <=> Wakes(store))
    BY <2>1 DEF Wakes
  <2> HIDE DEF store
  <2> QED
    BY <1>2, <2>1, <2>2, <2>3, SectionPlans
<1> QED
  BY <1>4, <1>5, <1>6, <1>7

LEMMA TickPlans ==
    ASSUME IInv, TimerInv, NEW saved \in BOOLEAN, TickCollect(saved) \/ TickApply(saved)
    PROVE  TimerInv'
<1>1. /\ IsStore(mem) /\ IsStore(disk) /\ now \in Nat /\ now \in Int
      /\ Planned(mem) /\ Planned(disk)
  BY DEF IInv, Typed, TimerInv
<1>2. /\ used'.faults = IF saved THEN used.faults ELSE used.faults + 1
      /\ tick' # "idle"
  <2>1. Counted(saved, 0) /\ tick' \in {"run", "end"}
    BY DEF TickCollect, TickApply
  <2> QED
    BY <2>1, CountedUsed DEF IInv
<1>3. CASE TickCollect(saved)
  <2> DEFINE due == {j \in DOMAIN disk : Due(disk[j])}
             store == IF due = {} THEN Maintained(disk, TRUE) ELSE Marked(disk, due, now)
  <2>1. \E cs : Save(store, saved, cs)
    BY <1>3 DEF TickCollect
  <2> HIDE DEF due
  <2>2. Planned(store)
    BY <1>1, WalksPlan, MarkedPlans
  <2> HIDE DEF store
  <2> QED
    BY <1>2, <2>1, <2>2, SectionPlans
<1>4. CASE TickApply(saved)
  <2> DEFINE b == By("tick")
             applied == Applied(disk, b)
             store == Maintained(applied, FALSE)
  <2>1. Over(b) /\ Save(store, saved, Detached(claims \ b))
    BY <1>4 DEF TickApply
  <2>2. b \in SUBSET Claims
    BY DEF By, IInv, Typed
  <2> HIDE DEF b
  <2>3. IsStore(applied)
    BY <1>1, <2>1, <2>2, AppliedStore DEF IInv
  <2> HIDE DEF applied
  <2>4. Planned(store)
    BY <1>1, <2>3, WalksPlan
  <2> HIDE DEF store
  <2> QED
    BY <1>2, <2>1, <2>4, SectionPlans
<1> QED
  BY <1>3, <1>4

LEMMA ReservePlans ==
    ASSUME IInv, TimerInv, NEW r \in Runs, NEW saved \in BOOLEAN, Reserve(r, saved)
    PROVE  TimerInv'
<1>1. /\ IsStore(mem) /\ manual[r].at \in Int /\ Planned(mem) /\ Planned(disk)
  BY DEF IInv, Typed, TimerInv
<1>2. /\ used'.faults = IF saved THEN used.faults ELSE used.faults + 1
      /\ UNCHANGED <<start, tick, timer>>
  <2>1. Counted(saved, 0) /\ UNCHANGED <<start, tick, timer>>
    BY DEF Reserve
  <2> QED
    BY <2>1, CountedUsed DEF IInv
<1>3. CASE manual[r].job \in DOMAIN mem /\ mem[manual[r].job].marker = None
  <2> DEFINE store == Marked(mem, {manual[r].job}, manual[r].at)
  <2>1. \E cs : Save(store, saved, cs)
    BY <1>3 DEF Reserve, Reserved
  <2>2. Planned(store) /\ Waking(store) = Waking(mem)
    BY <1>1, MarkedPlans
  <2> HIDE DEF store
  <2> QED
    BY <1>2, <2>1, <2>2, SectionPlans
<1>4. CASE ~(manual[r].job \in DOMAIN mem /\ mem[manual[r].job].marker = None)
  <2>1. saved /\ UNCHANGED <<disk, mem>>
    BY <1>4 DEF Reserve
  <2> QED
    BY <1>2, <2>1 DEF TimerInv, TimerIsKept, Planned, Waking
<1> QED
  BY <1>3, <1>4

LEMMA FinishPlans ==
    ASSUME IInv, TimerInv, NEW r \in Runs, NEW saved \in BOOLEAN, Finish(r, saved)
    PROVE  TimerInv'
<1>1. /\ IsStore(mem) /\ IsStore(disk) /\ now \in Nat
  BY DEF IInv, Typed
<1>2. used'.faults = IF saved THEN used.faults ELSE used.faults + 1
  <2>1. Counted(saved, 0)
    BY DEF Finish
  <2> QED
    BY <2>1, CountedUsed DEF IInv
<1>3. PICK c \in By(r) :
        IF c.job \notin DOMAIN mem
        THEN saved /\ UNCHANGED <<disk, mem, timer>>
        ELSE /\ Save(Maintained([j \in DOMAIN disk \ (IF Deletes(c) THEN {c.job} ELSE {}) |->
                                   IF j = c.job THEN Result(j, mem[j], c) ELSE disk[j]], TRUE),
                     saved, Detached(claims \ {c}))
             /\ timer' = IF saved THEN Wakes(mem') ELSE timer
  BY DEF Finish
<1>4. Over(By(r)) /\ UNCHANGED <<start, tick>>
  BY DEF Finish
<1>5. c \in Claims /\ c.outcome \in Outcomes
  BY <1>3, <1>4 DEF By, Over, IInv, Typed, Claims
<1>6. CASE c.job \notin DOMAIN mem
  <2>1. saved /\ UNCHANGED <<disk, mem, timer>>
    BY <1>3, <1>6
  <2> QED
    BY <1>2, <1>4, <2>1 DEF TimerInv, TimerIsKept, Planned, Waking
<1>7. CASE c.job \in DOMAIN mem
  <2> DEFINE merged == [j \in DOMAIN disk \ (IF Deletes(c) THEN {c.job} ELSE {}) |->
                           IF j = c.job THEN Result(j, mem[j], c) ELSE disk[j]]
             store == Maintained(merged, TRUE)
  <2>1. /\ Save(store, saved, Detached(claims \ {c}))
        /\ timer' = IF saved THEN Wakes(mem') ELSE timer
    BY <1>3, <1>7
  <2>2. Result(c.job, mem[c.job], c) \in Job
    <3>1. c.job \in Jobs /\ mem[c.job] \in Job
      BY <1>1, <1>7 DEF IsStore
    <3> QED
      BY <1>5, <3>1, ResultJob DEF IInv
  <2>3. IsStore(merged)
    <3>1. /\ DOMAIN merged \subseteq DOMAIN disk
          /\ \A j \in DOMAIN merged : j # c.job => merged[j] = disk[j]
          /\ c.job \in DOMAIN merged => merged[c.job] = Result(c.job, mem[c.job], c)
      OBVIOUS
    <3> HIDE DEF merged
    <3> QED
      BY <1>1, <2>2, <3>1 DEF IsStore
  <2> HIDE DEF merged
  <2>4. Planned(store)
    BY <1>1, <2>3, WalksPlan
  <2> HIDE DEF store
  <2>5. saved => (timer' <=> Wakes(store))
    <3>1. mem' = store
      BY <2>1 DEF Save
    <3> QED
      BY <2>1, <3>1 DEF Wakes
  <2> QED
    BY <1>2, <2>1, <2>4, <2>5, SectionPlans
<1> QED
  BY <1>6, <1>7

\* Every edit arms the timer for the store it wrote.
LEMMA EditPlans ==
    ASSUME IInv, TimerInv, NEW saved \in BOOLEAN, NEW store, Edit(store, saved),
           used'.faults = IF saved THEN used.faults ELSE used.faults + 1, Planned(store)
    PROVE  TimerInv'
<1>1. Save(store, saved, claims) /\ timer' = IF saved THEN Wakes(store) ELSE timer
  BY DEF Edit
<1>2. saved => (timer' <=> Wakes(store))
  BY <1>1 DEF Wakes
<1> QED
  BY <1>1, <1>2, SectionPlans

LEMMA UserPlans ==
    ASSUME IInv, TimerInv, NEW saved \in BOOLEAN, UserStep(saved)
    PROVE  TimerInv'
<1>1. IsStore(mem) /\ now \in Nat /\ Planned(mem) /\ used \in Troubles
  BY DEF IInv, Typed, TimerInv
<1>2. ASSUME NEW j \in Jobs, Add(j, saved) PROVE TimerInv'
  <2> DEFINE s == [k \in DOMAIN mem \cup {j} |-> IF k = j THEN Fresh(j) ELSE mem[k]]
             faults == IF saved THEN used.faults ELSE used.faults + 1
             edits == used.edits + 1
             born == used.born \cup {j}
  <2>1. /\ Edit(Recomputed(s), saved)
        /\ used' = [used EXCEPT !.faults = faults, !.edits = edits, !.born = born]
    BY <1>2 DEF Add
  <2>2. used'.faults = faults
    <3> HIDE DEF faults, edits, born
    <3> QED
      BY <1>1, <2>1 DEF Troubles
  <2>3. IsStore(s)
    <3>1. Fresh(j) \in Job
      BY <1>1, FreshJob
    <3>2. /\ DOMAIN s = DOMAIN mem \cup {j}
          /\ \A k \in DOMAIN s : s[k] = Fresh(j) \/ (k \in DOMAIN mem /\ s[k] = mem[k])
      OBVIOUS
    <3> HIDE DEF s
    <3> QED
      BY <1>1, <3>1, <3>2 DEF IsStore
  <2> HIDE DEF s
  <2>4. Planned(Recomputed(s))
    BY <1>1, <2>3, WalksPlan
  <2> QED
    BY <2>1, <2>2, <2>4, EditPlans
<1>3. ASSUME NEW j \in Jobs, Remove(j, saved) PROVE TimerInv'
  <2> DEFINE store == [k \in DOMAIN mem \ {j} |-> mem[k]]
  <2>1. Edit(store, saved) /\ Counted(saved, 1)
    BY <1>3 DEF Remove
  <2>2. used'.faults = IF saved THEN used.faults ELSE used.faults + 1
    BY <2>1, CountedUsed DEF IInv
  <2>3. Planned(store)
    BY <1>1 DEF Planned
  <2> HIDE DEF store
  <2> QED
    BY <2>1, <2>2, <2>3, EditPlans
<1>4. ASSUME NEW j \in Jobs, NEW enabled \in BOOLEAN, SetEnabled(j, enabled, saved)
      PROVE  TimerInv'
  <2> DEFINE job == [mem[j] EXCEPT !.enabled = enabled]
             next == NextRun(j, job)
             marker == IF enabled THEN job.marker ELSE None
             edited == [job EXCEPT !.next = next, !.marker = marker]
             store == [mem EXCEPT ![j] = edited]
  <2>1. j \in DOMAIN mem /\ Edit(store, saved) /\ Counted(saved, 1)
    BY <1>4 DEF SetEnabled
  <2>2. used'.faults = IF saved THEN used.faults ELSE used.faults + 1
    BY <2>1, CountedUsed DEF IInv
  <2>3. job \in Job
    <3>1. mem[j] \in Job
      BY <1>1, <2>1 DEF IsStore
    <3> QED
      BY <3>1 DEF Job
  <2> HIDE DEF job
  <2>4. next \in Int /\ (next = None <=> ~job.enabled \/ Finished(j, job))
    BY <1>1, <2>3, NextRunTyped, NextRunPlanned
  <2> HIDE DEF next, marker
  <2>5. /\ edited.next = next /\ edited.enabled = job.enabled
        /\ edited.status = job.status /\ edited.last = job.last
    BY <2>3 DEF Job
  <2> HIDE DEF edited
  <2>6. /\ DOMAIN store = DOMAIN mem /\ store[j] = edited
        /\ \A k \in DOMAIN mem : k # j => store[k] = mem[k]
    BY <2>1
  <2> HIDE DEF store
  <2>7. Planned(store)
    BY <1>1, <2>4, <2>5, <2>6 DEF Planned, Finished
  <2> QED
    BY <2>1, <2>2, <2>7, EditPlans
<1>5. CASE Read(saved)
  <2> DEFINE store == Maintained(mem, FALSE)
  <2>1. Save(store, saved, claims) /\ Counted(saved, 0) /\ UNCHANGED <<start, tick, timer>>
    BY <1>5 DEF Read
  <2>2. used'.faults = IF saved THEN used.faults ELSE used.faults + 1
    BY <2>1, CountedUsed DEF IInv
  <2>3. Planned(store) /\ Waking(store) = Waking(mem)
    BY <1>1, WalksPlan, WalkIsSteady
  <2> HIDE DEF store
  <2> QED
    BY <2>1, <2>2, <2>3, SectionPlans
<1> QED
  BY <1>2, <1>3, <1>4, <1>5 DEF UserStep

\* Between sections.
LEMMA BetweenPlans ==
    ASSUME IInv, TimerInv,
           \/ TickFires \/ TickEnds \/ Execution \/ Crash \/ Advance
           \/ \E r \in Runs, j \in Jobs, forced \in BOOLEAN : Preflight(r, j, forced)
           \/ UNCHANGED vars
    PROVE  TimerInv'
<1>1. IsStore(mem) /\ now \in Nat /\ now \in Int /\ Planned(mem) /\ used \in Troubles
  BY DEF IInv, Typed, TimerInv
\* The memory changes at most, and wakes for the same jobs.
<1>2. ASSUME Planned(mem'), Waking(mem') = Waking(mem),
             UNCHANGED <<disk, start, tick, timer>>, used'.faults = used.faults
      PROVE  TimerInv'
  BY <1>2 DEF TimerInv, TimerIsKept
<1>3. CASE TickFires
  BY <1>3 DEF TickFires, TimerInv, TimerIsKept
<1>4. CASE TickEnds
  <2>1. timer' = Wakes(mem) /\ UNCHANGED <<disk, mem, start, used>>
    BY <1>4 DEF TickEnds
  <2>2. timer' <=> Waking(mem) # {}
    BY <1>1, <2>1, ArmedFor
  <2>3. TimerIsKept'
    <3> SUFFICES ASSUME used.faults = 0, Waking(disk) # {} PROVE timer'
      BY <2>1 DEF TimerIsKept, Waking
    <3> QED
      BY <2>2 DEF TimerInv
  <2> QED
    BY <2>1, <2>3 DEF TimerInv
<1>5. CASE Execution
  <2>1. /\ UNCHANGED <<disk, start, tick, timer>> /\ used'.faults = used.faults
        /\ mem' = mem \/ \E js : mem' = Marked(mem, js, now)
    BY <1>5, EndIsCounted DEF Execution, ExecutionStarts, ExecutionEnds, StrayEnds, IInv
  <2>2. Planned(mem') /\ Waking(mem') = Waking(mem)
    BY <1>1, <2>1, MarkedPlans
  <2> QED
    BY <1>2, <2>1, <2>2
<1>6. CASE Crash
  <2>1. mem' = disk /\ UNCHANGED disk /\ start'.pc = "boot"
    BY <1>6 DEF Crash
  <2> QED
    BY <2>1 DEF TimerInv, TimerIsKept
<1>7. CASE Advance \/ UNCHANGED vars
  BY <1>1, <1>2, <1>7 DEF Advance, vars
<1>8. ASSUME NEW r \in Runs, NEW j \in Jobs, NEW forced \in BOOLEAN, Preflight(r, j, forced)
      PROVE  TimerInv'
  <2>1. mem' = Maintained(mem, FALSE) /\ UNCHANGED <<disk, start, tick, timer, used>>
    BY <1>8 DEF Preflight
  <2>2. Planned(mem') /\ Waking(mem') = Waking(mem)
    BY <1>1, <2>1, WalksPlan, WalkIsSteady
  <2> QED
    BY <1>2, <2>1, <2>2
<1> QED
  BY <1>3, <1>4, <1>5, <1>6, <1>7, <1>8

LEMMA InitPlanned ==
    ASSUME Init
    PROVE  TimerInv
<1>1. /\ now = 0 /\ disk = [j \in AtStart |-> Fresh(j)] /\ mem = disk /\ start.pc = "boot"
  BY DEF Init
<1>2. ASSUME NEW j \in AtStart
      PROVE  /\ Fresh(j).next # None => Fresh(j).enabled
             /\ Fresh(j).next = None /\ Fresh(j).enabled => Finished(j, Fresh(j))
  <2> DEFINE job == [enabled |-> TRUE, next |-> None, marker |-> None,
                     last |-> None, status |-> "none"]
             next == NextRun(j, job)
  <2>1. job \in Job /\ job.enabled /\ ~Finished(j, job) /\ j \in Jobs
    BY DEF Job, None, Statuses, Finished
  <2> HIDE DEF job
  <2>2. next \in Int /\ next # None
    BY <1>1, <2>1, NextRunTyped, NextRunPlanned
  <2>3. Fresh(j) = [job EXCEPT !.next = next]
    BY DEF Fresh, job
  <2> HIDE DEF next
  <2>4. Fresh(j).next = next /\ Fresh(j).enabled = job.enabled
    BY <2>1, <2>3 DEF Job
  <2> QED
    BY <2>1, <2>2, <2>4
<1> QED
  BY <1>1, <1>2 DEF TimerInv, TimerIsKept, Planned

LEMMA NextPlans ==
    ASSUME IInv, TimerInv, [Next]_vars
    PROVE  TimerInv'
<1>1. ASSUME NEW saved \in BOOLEAN, Section(saved) PROVE TimerInv'
  BY <1>1, StartPlans, TickPlans, ReservePlans, FinishPlans DEF Section
<1> QED
  BY <1>1, UserPlans, BetweenPlans DEF Next

\* While writes succeed, the scheduler never goes to sleep for good: after the
\* start a job with a next run has a timer, or a tick under way, whatever
\* edits, manual runs and restarts come between (armTimer and its callers).
THEOREM TimerKept == Spec => []TimerIsKept
<1>1. Init => TimerInv
  BY InitPlanned
<1>2. IInv /\ TimerInv /\ [Next]_vars => TimerInv'
  BY NextPlans
<1>3. TimerInv => TimerIsKept
  BY DEF TimerInv
<1> QED
  BY <1>1, <1>2, <1>3, Invariance, PTL DEF Spec
-----------------------------------------------------------------------------
(* Slots. *)

\* A job ran before its next run, or is a one-shot job planned for its time.
OnTime(j, job, t) ==
    /\ job.last <= t
    /\ job.next # None => job.last < job.next \/ (j \in OneShots /\ job.next = Slot[j])

Punctual(s, t) == \A j \in DOMAIN s : OnTime(j, s[j], t)

\* Executions start and end in the past, and end no earlier than they start.
Elapsed(cs, t) ==
    \A c \in cs : /\ c.at <= t /\ c.ended <= t
                  /\ c.outcome \in Outcomes => c.at <= c.ended

Of(j, cs) == {c \in cs : c.job = j}

\* Claims of one job can be counted.
Countable(cs) == \A j \in Jobs : IsFiniteSet(Of(j, cs))

\* Two stores plan their jobs for the same times.
SameNexts(s, t) == \A j \in DOMAIN s : s[j].next = t[j].next

\* While writes succeed the file plans each job as the memory does, so that a
\* section which writes what the memory has moves no job.
SlotInv ==
    /\ Punctual(mem, now) /\ Punctual(disk, now)
    /\ Elapsed(claims, now) /\ Countable(claims)
    /\ \A r \in Runs : manual[r].at <= now
    /\ used.faults = 0 => SameNexts(mem, disk)

\* The next slot of a schedule lies ahead.
LEMMA SlotAhead ==
    ASSUME NEW j \in Jobs, NEW t \in Int
    PROVE  NextSlot(j, t) > t
<1> DEFINE s == Slot[j]
           q == t \div s
           m == t % s
<1>1. s \in Nat \ {0}
  OBVIOUS
<1> HIDE DEF s
<1>2. q \in Int /\ m \in Int /\ m < s /\ t = s * q + m
  BY <1>1
<1> HIDE DEF q, m
<1>3. (q + 1) * s = s * q + s
  BY <1>1, <1>2
<1>4. s * q \in Int
  BY <1>1, <1>2
<1>5. NextSlot(j, t) = (q + 1) * s
  BY DEF NextSlot, q, s
<1> DEFINE p == s * q
<1> HIDE DEF p
<1>6. p \in Int /\ t = p + m /\ NextSlot(j, t) = p + s
  BY <1>2, <1>3, <1>4, <1>5 DEF p
<1> QED
  BY <1>1, <1>2, <1>6

\* A job that is planned anew is planned on time.
LEMMA NextRunOnTime ==
    ASSUME NEW j \in Jobs, NEW job \in Job, now \in Nat, job.last <= now
    PROVE  OnTime(j, [job EXCEPT !.next = NextRun(j, job)], now)
<1> DEFINE next == NextRun(j, job)
<1>1. next \in Int
  BY NextRunTyped
<1>2. NextSlot(j, now) > now /\ NextSlot(j, now) \in Int
  BY SlotAhead, SlotsTyped
<1>3. job.last \in Int
  BY DEF Job
<1>4. next # None => job.last < next \/ (j \in OneShots /\ next = Slot[j])
  BY <1>2, <1>3 DEF NextRun
<1> HIDE DEF next
<1>5. /\ [job EXCEPT !.next = next].next = next
      /\ [job EXCEPT !.next = next].last = job.last
  BY <1>1 DEF Job
<1> QED
  BY <1>4, <1>5 DEF OnTime, next

\* Normalising a job keeps its times, or takes its next run off.
LEMMA NormalTimes ==
    ASSUME NEW job \in Job
    PROVE  /\ Normal(job).last = job.last
           /\ Normal(job).next \in {None, job.next}
           /\ job.enabled => Normal(job).next = job.next
<1>1. None \in Int
  BY DEF None
<1>2. CASE ~job.enabled
  <2>1. Normal(job) = [job EXCEPT !.next = None, !.marker = None]
    BY <1>2 DEF Normal
  <2>2. /\ [job EXCEPT !.next = None, !.marker = None].last = job.last
        /\ [job EXCEPT !.next = None, !.marker = None].next = None
    BY <1>1 DEF Job
  <2> QED
    BY <1>2, <2>1, <2>2
<1>3. CASE job.enabled
  <2>1. Normal(job) = job \/ Normal(job) = [job EXCEPT !.marker = None]
    BY <1>3 DEF Normal
  <2>2. /\ [job EXCEPT !.marker = None].last = job.last
        /\ [job EXCEPT !.marker = None].next = job.next
    BY <1>1 DEF Job
  <2> QED
    BY <2>1, <2>2
<1> QED
  BY <1>2, <1>3

LEMMA WalksOnTime ==
    ASSUME now \in Nat, NEW s, IsStore(s), Punctual(s, now), NEW expired \in BOOLEAN
    PROVE  Punctual(Recomputed(s), now) /\ Punctual(Maintained(s, expired), now)
<1>1. ASSUME NEW j \in DOMAIN s
      PROVE  /\ OnTime(j, Normal(s[j]), now)
             /\ OnTime(j, [Normal(s[j]) EXCEPT !.next = NextRun(j, Normal(s[j]))], now)
  <2>1. j \in Jobs /\ s[j] \in Job /\ OnTime(j, s[j], now)
    BY DEF IsStore, Punctual
  <2>2. Normal(s[j]) \in Job
    BY <2>1, NormalJob
  <2>3. Normal(s[j]).last = s[j].last /\ Normal(s[j]).next \in {None, s[j].next}
    BY <2>1, NormalTimes
  <2>4. OnTime(j, Normal(s[j]), now) /\ Normal(s[j]).last <= now
    BY <2>1, <2>3 DEF OnTime
  <2> QED
    BY <2>1, <2>2, <2>4, NextRunOnTime
<1> QED
  BY <1>1 DEF Punctual, Recomputed, Maintained

\* The walk of status, list and the preflight moves no job.
LEMMA WalkKeepsNexts ==
    ASSUME now \in Nat, NEW s, IsStore(s), Planned(s)
    PROVE  SameNexts(Maintained(s, FALSE), s)
<1>1. ASSUME NEW j \in DOMAIN s PROVE Maintained(s, FALSE)[j].next = s[j].next
  <2>1. CASE s[j].next = None
    <3>1. j \notin Waking(Maintained(s, FALSE))
      BY <2>1, WalkIsSteady DEF Waking
    <3>2. j \in DOMAIN Maintained(s, FALSE)
      BY DEF Maintained
    <3> QED
      BY <2>1, <3>1, <3>2 DEF Waking
  <2>2. CASE s[j].next # None
    <3>1. s[j] \in Job /\ s[j].enabled
      BY <2>2 DEF IsStore, Planned
    <3>2. Normal(s[j]).next = s[j].next
      BY <3>1, NormalTimes
    <3> QED
      BY <2>2, <3>2 DEF Maintained
  <2> QED
    BY <2>1, <2>2
<1>2. DOMAIN Maintained(s, FALSE) = DOMAIN s
  BY DEF Maintained
<1> QED
  BY <1>1, <1>2 DEF SameNexts

\* Markers are not times.
LEMMA MarkedOnTime ==
    ASSUME NEW s, IsStore(s), Punctual(s, now), NEW js, NEW at \in Int
    PROVE  Punctual(Marked(s, js, at), now) /\ SameNexts(Marked(s, js, at), s)
<1>1. DOMAIN Marked(s, js, at) = DOMAIN s
  BY DEF Marked
<1>2. ASSUME NEW j \in DOMAIN s
      PROVE  /\ Marked(s, js, at)[j].next = s[j].next
             /\ Marked(s, js, at)[j].last = s[j].last
  <2>1. s[j] \in Job
    BY DEF IsStore
  <2>2. Marked(s, js, at)[j] = IF j \in js THEN [s[j] EXCEPT !.marker = at] ELSE s[j]
    BY DEF Marked
  <2> QED
    BY <2>1, <2>2 DEF Job
<1> QED
  BY <1>1, <1>2 DEF Punctual, OnTime, SameNexts

\* An applied outcome plans the job for a time after the execution's start.
LEMMA ResultOnTime ==
    ASSUME NEW j \in Jobs, NEW job \in Job, NEW c \in Claims, c.outcome \in Outcomes,
           now \in Nat, c.at <= now, c.at <= c.ended
    PROVE  OnTime(j, Result(j, job, c), now)
<1> DEFINE status == IF c.outcome = "fatal" THEN "error" ELSE c.outcome
           ended == [job EXCEPT !.marker = None, !.last = c.at, !.status = status]
           natural == NextSlot(j, c.ended)
           backed == c.ended + Backoff
<1>1. None \in Int /\ c.ended \in Int /\ c.at \in Int /\ natural \in Int /\ backed \in Int
  BY SlotsTyped DEF None, Claims
<1>2. c.at < natural /\ c.at < backed
  <2>1. natural > c.ended
    BY <1>1, SlotAhead
  <2>2. backed > c.ended
    BY <1>1
  <2> HIDE DEF natural, backed
  <2> QED
    BY <1>1, <2>1, <2>2
<1>3. status \in Statuses
  BY DEF Outcomes, Statuses
<1> HIDE DEF status
<1>4. ended \in Job /\ ended.last = c.at
  BY <1>1, <1>3 DEF Job
<1>5. \/ Result(j, job, c) = [ended EXCEPT !.enabled = FALSE, !.next = None]
      \/ \E t \in {None, natural, backed} : Result(j, job, c) = [ended EXCEPT !.next = t]
  BY DEF Result, status
<1> HIDE DEF ended, natural, backed
<1>6. OnTime(j, [ended EXCEPT !.enabled = FALSE, !.next = None], now)
  <2>1. /\ [ended EXCEPT !.enabled = FALSE, !.next = None].next = None
        /\ [ended EXCEPT !.enabled = FALSE, !.next = None].last = c.at
    BY <1>1, <1>4 DEF Job
  <2> QED
    BY <2>1 DEF OnTime
<1>7. ASSUME NEW t \in {None, natural, backed}
      PROVE  OnTime(j, [ended EXCEPT !.next = t], now)
  <2>1. [ended EXCEPT !.next = t].next = t /\ [ended EXCEPT !.next = t].last = c.at
    BY <1>1, <1>4 DEF Job
  <2> QED
    BY <1>2, <2>1 DEF OnTime
<1> QED
  BY <1>5, <1>6, <1>7

LEMMA AppliedOnTime ==
    ASSUME now \in Nat, NEW s, IsStore(s), Punctual(s, now),
           NEW b \in SUBSET Claims, Over(b), Elapsed(b, now)
    PROVE  Punctual(Applied(s, b), now)
<1> SUFFICES ASSUME NEW j \in DOMAIN Applied(s, b)
             PROVE  OnTime(j, Applied(s, b)[j], now)
  BY DEF Punctual
<1> DEFINE mine == {c \in b : c.job = j}
<1>1. j \in DOMAIN s
  BY DEF Applied
<1>2. j \in Jobs /\ s[j] \in Job /\ OnTime(j, s[j], now)
  BY <1>1 DEF IsStore, Punctual
<1>3. Applied(s, b)[j] = IF mine = {} THEN s[j] ELSE Result(j, s[j], CHOOSE c \in mine : TRUE)
  BY DEF Applied
<1>4. CASE mine = {}
  BY <1>2, <1>3, <1>4
<1>5. CASE mine # {}
  <2>1. (CHOOSE c \in mine : TRUE) \in mine
    BY <1>5
  <2>2. \A c \in mine : /\ c \in Claims /\ c.outcome \in Outcomes
                        /\ c.at <= now /\ c.at <= c.ended
    BY DEF Over, Claims, Elapsed
  <2> HIDE DEF mine
  <2>3. PICK c \in Claims : /\ c.outcome \in Outcomes /\ c.at <= now /\ c.at <= c.ended
                            /\ Applied(s, b)[j] = Result(j, s[j], c)
    BY <1>3, <1>5, <2>1, <2>2
  <2> QED
    BY <1>2, <2>3, ResultOnTime
<1> QED
  BY <1>4, <1>5

\* The claims of a job stay countable, and get no more, when some detach.
LEMMA DetachedOf ==
    ASSUME NEW cs \in SUBSET Claims, NEW j, IsFiniteSet(Of(j, cs))
    PROVE  /\ IsFiniteSet(Of(j, Detached(cs)))
           /\ Cardinality(Of(j, Detached(cs))) <= Cardinality(Of(j, cs))
<1> DEFINE f == [c \in Of(j, cs) |-> [c EXCEPT !.own = FALSE]]
<1>1. \A c \in Claims : [c EXCEPT !.own = FALSE].job = c.job
  BY DEF Claims
<1>2. ASSUME NEW c \in Of(j, cs) PROVE f[c] \in Of(j, Detached(cs))
  <2>1. c \in cs /\ c \in Claims /\ c.job = j
    BY DEF Of
  <2>2. [c EXCEPT !.own = FALSE] \in Detached(cs)
    BY <2>1 DEF Detached
  <2> QED
    BY <1>1, <2>1, <2>2 DEF Of
<1>3. ASSUME NEW d \in Of(j, Detached(cs)) PROVE \E c \in Of(j, cs) : f[c] = d
  <2>1. PICK c \in cs : d = [c EXCEPT !.own = FALSE]
    BY DEF Of, Detached
  <2>2. c \in Of(j, cs)
    BY <1>1, <2>1 DEF Of
  <2> QED
    BY <2>1, <2>2
<1>4. f \in Surjection(Of(j, cs), Of(j, Detached(cs)))
  <2>1. f \in [Of(j, cs) -> Of(j, Detached(cs))]
    BY <1>2
  <2> HIDE DEF f
  <2> QED
    BY <1>3, <2>1 DEF Surjection
<1> HIDE DEF f
<1> QED
  BY <1>4, FS_Surjection

LEMMA DetachedElapsed ==
    ASSUME NEW cs \in SUBSET Claims, Elapsed(cs, now), Countable(cs)
    PROVE  Elapsed(Detached(cs), now) /\ Countable(Detached(cs))
<1>1. \A c \in Claims : /\ [c EXCEPT !.own = FALSE].at = c.at
                         /\ [c EXCEPT !.own = FALSE].ended = c.ended
                         /\ [c EXCEPT !.own = FALSE].outcome = c.outcome
  BY DEF Claims
<1>2. ASSUME NEW d \in Detached(cs)
      PROVE  /\ d.at <= now /\ d.ended <= now
             /\ d.outcome \in Outcomes => d.at <= d.ended
  <2>1. PICK c \in cs : d = [c EXCEPT !.own = FALSE]
    BY DEF Detached
  <2>2. d.at = c.at /\ d.ended = c.ended /\ d.outcome = c.outcome
    BY <1>1, <2>1
  <2> QED
    BY <2>2 DEF Elapsed
<1> QED
  BY <1>2, DetachedOf DEF Elapsed, Countable

LEMMA SomeElapsed ==
    ASSUME NEW cs, Elapsed(cs, now), Countable(cs), NEW some \in SUBSET cs
    PROVE  Elapsed(some, now) /\ Countable(some)
<1>1. ASSUME NEW j \in Jobs PROVE IsFiniteSet(Of(j, some))
  <2>1. Of(j, some) \in SUBSET Of(j, cs) /\ IsFiniteSet(Of(j, cs))
    BY DEF Of, Countable
  <2> QED
    BY <2>1, FS_Subset
<1> QED
  BY <1>1 DEF Elapsed, Countable

\* New claims have run nowhere yet, and are one of each job.
LEMMA BatchElapsed ==
    ASSUME now \in Nat, NEW cs, Elapsed(cs, now), Countable(cs), NEW by, NEW js,
           NEW at \in Int, at <= now, NEW outcome \in {"due", "running"}
    PROVE  Elapsed(cs \cup Batch(by, js, at, outcome), now)
           /\ Countable(cs \cup Batch(by, js, at, outcome))
<1>1. \A j \in js : /\ Claim(by, j, at, outcome).at = at
                     /\ Claim(by, j, at, outcome).ended = None
                     /\ Claim(by, j, at, outcome).outcome = outcome
                     /\ Claim(by, j, at, outcome).job = j
  BY DEF Claim
<1>2. Elapsed(cs \cup Batch(by, js, at, outcome), now)
  <2>1. None <= now /\ outcome \notin Outcomes
    BY DEF None, Outcomes
  <2> QED
    BY <1>1, <2>1 DEF Elapsed, Batch
<1>3. ASSUME NEW j \in Jobs PROVE IsFiniteSet(Of(j, cs \cup Batch(by, js, at, outcome)))
  <2>1. IsFiniteSet(Of(j, cs) \cup {Claim(by, j, at, outcome)})
    BY FS_AddElement DEF Countable
  <2>2. Of(j, cs \cup Batch(by, js, at, outcome)) \in
          SUBSET (Of(j, cs) \cup {Claim(by, j, at, outcome)})
    BY <1>1 DEF Of, Batch
  <2> QED
    BY <2>1, <2>2, FS_Subset
<1> QED
  BY <1>2, <1>3 DEF Countable

\* A job with an applied outcome has fewer claims than before.
LEMMA FewerClaims ==
    ASSUME NEW cs \in SUBSET Claims, Countable(cs), NEW b \in SUBSET cs, NEW j \in Held(b)
    PROVE  Cardinality(Of(j, Detached(cs \ b))) < Cardinality(Of(j, cs))
<1>1. PICK c \in b : c.job = j
  BY DEF Held
<1>2. c \in Claims /\ j \in Jobs
  BY <1>1 DEF Claims
<1>3. IsFiniteSet(Of(j, cs)) /\ Of(j, cs \ b) \in SUBSET Of(j, cs) /\ Of(j, cs \ b) # Of(j, cs)
  BY <1>1, <1>2 DEF Countable, Of
<1>4. /\ IsFiniteSet(Of(j, cs \ b))
      /\ Cardinality(Of(j, cs \ b)) <= Cardinality(Of(j, cs))
      /\ Cardinality(Of(j, cs)) # Cardinality(Of(j, cs \ b))
  BY <1>3, FS_Subset
<1>5. /\ IsFiniteSet(Of(j, Detached(cs \ b)))
      /\ Cardinality(Of(j, Detached(cs \ b))) <= Cardinality(Of(j, cs \ b))
  BY <1>4, DetachedOf
<1>6. /\ Cardinality(Of(j, cs)) \in Nat /\ Cardinality(Of(j, cs \ b)) \in Nat
      /\ Cardinality(Of(j, Detached(cs \ b))) \in Nat
  BY <1>3, <1>4, <1>5, FS_CardinalityType
<1> QED
  BY <1>4, <1>5, <1>6

\* What SlotsAreKept asks of a step.
SlotsKept ==
    \A j \in Jobs : Passed(j) =>
        \/ Cardinality({c \in claims' : c.job = j}) < Cardinality({c \in claims : c.job = j})
        \/ used'.edits # used.edits
        \/ start.pc # start'.pc
        \/ used.faults > 0

\* What a section must show: the store it saves and the executions are on time.
LEMMA SectionSlots ==
    ASSUME IInv, SlotInv, NEW saved \in BOOLEAN, NEW store, NEW cs, Save(store, saved, cs),
           used'.faults = IF saved THEN used.faults ELSE used.faults + 1, now' = now,
           Punctual(store, now), Elapsed(cs, now), Countable(cs),
           \A r \in Runs : manual'[r].at <= now
    PROVE  SlotInv'
<1>1. mem' = store /\ claims' = cs /\ disk' = IF saved THEN store ELSE disk
  BY DEF Save
<1>2. used'.faults = 0 => disk' = mem'
  BY <1>1 DEF IInv, Typed, Troubles
<1> QED
  BY <1>1, <1>2 DEF SlotInv, SameNexts

\* No slot is passed over where the file keeps the next run of the due jobs.
LEMMA NothingPassed ==
    ASSUME IInv,
           \A j \in DOMAIN disk \cap DOMAIN disk' :
               Due(disk[j]) => disk'[j] = disk[j] \/ disk'[j].next = disk[j].next
                               \/ (disk'[j].next \in Int /\ disk'[j].next <= now)
    PROVE  SlotsKept
<1>1. now \in Int
  BY DEF IInv, Typed
<1>2. ASSUME NEW j \in Jobs, Passed(j) PROVE FALSE
  <2>1. j \in DOMAIN disk \cap DOMAIN disk' /\ Due(disk[j]) /\ disk'[j].next > now
    BY <1>2 DEF Passed
  <2>2. disk[j].next \in Int /\ now >= disk[j].next
    BY <2>1 DEF IInv, Typed, IsStore, Job, Due
  <2> QED
    BY <1>1, <2>1, <2>2
<1> QED
  BY <1>2 DEF SlotsKept

\* What the sections have in common.
LEMMA SlotSection ==
    ASSUME IInv, SlotInv
    PROVE  /\ now \in Nat /\ now \in Int /\ None \in Int /\ None <= now
           /\ IsStore(mem) /\ IsStore(disk)
           /\ Punctual(mem, now) /\ Punctual(disk, now)
           /\ claims \in SUBSET Claims /\ Elapsed(claims, now) /\ Countable(claims)
           /\ Elapsed(Detached(claims), now) /\ Countable(Detached(claims))
           /\ \A some \in SUBSET claims :
                /\ Elapsed(some, now)
                /\ Elapsed(Detached(some), now) /\ Countable(Detached(some))
<1>1. /\ now \in Nat /\ now \in Int /\ None \in Int /\ None <= now
      /\ IsStore(mem) /\ IsStore(disk) /\ claims \in SUBSET Claims
  BY DEF IInv, Typed, None
<1>2. /\ Punctual(mem, now) /\ Punctual(disk, now)
      /\ Elapsed(claims, now) /\ Countable(claims)
  BY DEF SlotInv
<1>3. ASSUME NEW some \in SUBSET claims
      PROVE  /\ Elapsed(some, now) /\ Elapsed(Detached(some), now)
             /\ Countable(Detached(some))
  <2>1. Elapsed(some, now) /\ Countable(some) /\ some \in SUBSET Claims
    BY <1>1, <1>2, SomeElapsed
  <2> QED
    BY <2>1, DetachedElapsed
<1>4. claims \in SUBSET claims
  OBVIOUS
<1> QED
  BY <1>1, <1>2, <1>3, <1>4

LEMMA StartSlots ==
    ASSUME IInv, SlotInv, NEW saved \in BOOLEAN,
           StartClear(saved) \/ StartPlan(saved) \/ StartApply(saved) \/ StartArm(saved)
    PROVE  SlotInv' /\ SlotsKept
<1>1. /\ now \in Nat /\ now \in Int /\ None \in Int /\ None <= now
      /\ IsStore(mem) /\ IsStore(disk)
      /\ Punctual(mem, now) /\ Punctual(disk, now)
      /\ claims \in SUBSET Claims /\ Elapsed(claims, now) /\ Countable(claims)
      /\ Elapsed(Detached(claims), now) /\ Countable(Detached(claims))
  BY SlotSection
<1>2. /\ used'.faults = IF saved THEN used.faults ELSE used.faults + 1
      /\ now' = now /\ manual' = manual
  <2>1. Counted(saved, 0) /\ UNCHANGED <<now, manual>>
    BY DEF StartClear, StartPlan, StartApply, StartArm
  <2> QED
    BY <2>1, CountedUsed DEF IInv
<1>3. \A r \in Runs : manual'[r].at <= now
  BY <1>2 DEF SlotInv
<1>4. start'.pc # start.pc
  <2>1. start \in [pc : {"boot", "plan", "catchup", "arm", "up", "failed"},
                   interrupted : SUBSET Jobs, deferred : SUBSET Jobs]
    BY DEF IInv, Typed
  <2>2. CASE StartClear(saved)
    BY <2>1, <2>2 DEF StartClear
  <2>3. CASE StartPlan(saved)
    BY <2>1, <2>3 DEF StartPlan
  <2>4. CASE StartApply(saved)
    BY <2>1, <2>4 DEF StartApply
  <2>5. CASE StartArm(saved)
    BY <2>1, <2>5 DEF StartArm
  <2> QED
    BY <2>2, <2>3, <2>4, <2>5
<1>5. SlotsKept
  BY <1>4 DEF SlotsKept
<1>6. CASE StartClear(saved)
  <2> DEFINE js == {j \in DOMAIN mem : mem[j].marker # None}
  <2>1. Save(Marked(mem, js, None), saved, claims)
    BY <1>6 DEF StartClear
  <2> HIDE DEF js
  <2>2. Punctual(Marked(mem, js, None), now)
    BY <1>1, MarkedOnTime
  <2> QED
    BY <1>1, <1>2, <1>3, <1>5, <2>1, <2>2, SectionSlots
<1>7. CASE StartPlan(saved)
  <2>1. CASE UNCHANGED <<disk, mem, claims>>
    <3>1. used'.faults = 0 => used.faults = 0
      BY <1>2 DEF IInv, Typed, Troubles
    <3> QED
      BY <1>2, <1>5, <2>1, <3>1 DEF SlotInv, SameNexts, Punctual
  <2>2. ASSUME NEW first \in SUBSET DOMAIN mem,
               Save(Marked(mem, first, now), saved,
                    IF saved THEN claims \cup Batch("catchup", first, None, "due") ELSE claims)
        PROVE  SlotInv'
    <3> DEFINE cs == IF saved THEN claims \cup Batch("catchup", first, None, "due") ELSE claims
    <3>1. Punctual(Marked(mem, first, now), now)
      BY <1>1, MarkedOnTime
    <3>2. Elapsed(cs, now) /\ Countable(cs)
      BY <1>1, BatchElapsed
    <3>3. Save(Marked(mem, first, now), saved, cs)
      BY <2>2
    <3> HIDE DEF cs
    <3> QED
      BY <1>2, <1>3, <3>1, <3>2, <3>3, SectionSlots
  <2>3. \/ UNCHANGED <<disk, mem, claims>>
        \/ \E first \in SUBSET DOMAIN mem :
             Save(Marked(mem, first, now), saved,
                  IF saved THEN claims \cup Batch("catchup", first, None, "due") ELSE claims)
    BY <1>7 DEF StartPlan, Batch
  <2> QED
    BY <1>5, <2>1, <2>2, <2>3
<1>8. CASE StartApply(saved)
  <2> DEFINE b == By("catchup")
             applied == Applied(disk, b)
             staggered == [j \in DOMAIN applied |->
                 IF j \in start.deferred /\ applied[j].enabled
                 THEN [applied[j] EXCEPT !.next = now + 1] ELSE applied[j]]
             store == Maintained(staggered, FALSE)
  <2>1. Over(b) /\ Save(store, saved, Detached(claims \ b))
    BY <1>8 DEF StartApply
  <2>2. b \in SUBSET Claims /\ b \in SUBSET claims /\ claims \ b \in SUBSET claims
    BY <1>1 DEF By
  <2> HIDE DEF b
  <2>3. /\ Elapsed(b, now)
        /\ Elapsed(Detached(claims \ b), now) /\ Countable(Detached(claims \ b))
    BY <2>2, SlotSection
  <2>4. IsStore(applied) /\ Punctual(applied, now)
    BY <1>1, <2>1, <2>2, <2>3, AppliedStore, AppliedOnTime DEF IInv
  <2> HIDE DEF applied
  <2>5. IsStore(staggered) /\ Punctual(staggered, now)
    <3>1. now + 1 \in Int /\ \A i \in Int : i <= now => i < now + 1
      BY <1>1
    <3>2. ASSUME NEW j \in DOMAIN applied
          PROVE  staggered[j] \in Job /\ OnTime(j, staggered[j], now)
      <4>1. applied[j] \in Job /\ OnTime(j, applied[j], now)
        BY <2>4 DEF IsStore, Punctual
      <4>2. staggered[j] = applied[j] \/ staggered[j] = [applied[j] EXCEPT !.next = now + 1]
        OBVIOUS
      <4>3. /\ [applied[j] EXCEPT !.next = now + 1] \in Job
            /\ [applied[j] EXCEPT !.next = now + 1].next = now + 1
            /\ [applied[j] EXCEPT !.next = now + 1].last = applied[j].last
            /\ applied[j].last \in Int
        BY <3>1, <4>1 DEF Job
      <4> HIDE DEF staggered
      <4> QED
        BY <3>1, <4>1, <4>2, <4>3 DEF OnTime
    <3>3. DOMAIN staggered = DOMAIN applied
      OBVIOUS
    <3> HIDE DEF staggered
    <3> QED
      BY <2>4, <3>2, <3>3 DEF IsStore, Punctual
  <2> HIDE DEF staggered
  <2>6. Punctual(store, now)
    BY <1>1, <2>5, WalksOnTime
  <2> HIDE DEF store
  <2> QED
    BY <1>2, <1>3, <1>5, <2>1, <2>3, <2>6, SectionSlots
<1>9. CASE StartArm(saved)
  <2>1. Save(Recomputed(disk), saved, Detached(claims))
    BY <1>9 DEF StartArm
  <2>2. Punctual(Recomputed(disk), now)
    BY <1>1, WalksOnTime
  <2> QED
    BY <1>1, <1>2, <1>3, <1>5, <2>1, <2>2, SectionSlots
<1> QED
  BY <1>6, <1>7, <1>8, <1>9

\* A walk over the store leaves a job that is due, due: it moves a next run on
\* only if the job ran since, or to the time of a one-shot job, which is past.
LEMMA DueStaysDue ==
    ASSUME now \in Nat, NEW s, IsStore(s), Punctual(s, now), NEW expired \in BOOLEAN,
           NEW j \in DOMAIN s, Due(s[j])
    PROVE  Maintained(s, expired)[j].next \in Int /\ Maintained(s, expired)[j].next <= now
<1>1. j \in Jobs /\ s[j] \in Job /\ OnTime(j, s[j], now)
  BY DEF IsStore, Punctual
<1>2. /\ s[j].enabled /\ s[j].next # None /\ s[j].next <= now
      /\ s[j].next \in Int /\ s[j].last \in Int /\ s[j].marker = None
  BY <1>1 DEF Due, Job
<1>3. Normal(s[j]) = s[j]
  BY <1>1, <1>2, NormalJob DEF Stale
<1>4. \/ Maintained(s, expired)[j] = s[j]
      \/ /\ Maintained(s, expired)[j] = [s[j] EXCEPT !.next = NextRun(j, s[j])]
         /\ s[j].last >= s[j].next
  BY <1>2, <1>3 DEF Maintained
<1>5. CASE Maintained(s, expired)[j] = s[j]
  BY <1>2, <1>5
<1>6. CASE /\ Maintained(s, expired)[j] = [s[j] EXCEPT !.next = NextRun(j, s[j])]
           /\ s[j].last >= s[j].next
  <2>1. j \in OneShots /\ s[j].next = Slot[j]
    BY <1>1, <1>2, <1>6 DEF OnTime
  <2>2. NextRun(j, s[j]) \in {None, Slot[j]}
    BY <1>2, <2>1 DEF NextRun
  <2>3. None <= now /\ None \in Int
    BY DEF None
  <2>4. NextRun(j, s[j]) \in Int /\ NextRun(j, s[j]) <= now
    BY <1>2, <2>1, <2>2, <2>3
  <2>5. Maintained(s, expired)[j].next = NextRun(j, s[j])
    BY <1>1, <1>6 DEF Job
  <2> QED
    BY <2>4, <2>5
<1> QED
  BY <1>4, <1>5, <1>6

LEMMA TickSlots ==
    ASSUME IInv, SlotInv, NEW saved \in BOOLEAN, TickCollect(saved) \/ TickApply(saved)
    PROVE  SlotInv' /\ SlotsKept
<1>1. /\ now \in Nat /\ now \in Int /\ None \in Int /\ None <= now
      /\ IsStore(mem) /\ IsStore(disk) /\ Punctual(disk, now)
      /\ claims \in SUBSET Claims /\ Countable(claims)
      /\ Elapsed(Detached(claims), now) /\ Countable(Detached(claims))
  BY SlotSection
<1>2. /\ used'.faults = IF saved THEN used.faults ELSE used.faults + 1
      /\ now' = now /\ \A r \in Runs : manual'[r].at <= now
  <2>1. Counted(saved, 0) /\ UNCHANGED <<now, manual>>
    BY DEF TickCollect, TickApply
  <2>2. used'.faults = IF saved THEN used.faults ELSE used.faults + 1
    BY <2>1, CountedUsed DEF IInv
  <2> QED
    BY <2>1, <2>2 DEF SlotInv
<1>3. CASE TickCollect(saved)
  <2> DEFINE due == {j \in DOMAIN disk : Due(disk[j])}
             store == IF due = {} THEN Maintained(disk, TRUE) ELSE Marked(disk, due, now)
             cs == IF saved THEN Detached(claims) \cup Batch("tick", due, None, "due")
                   ELSE Detached(claims)
  <2>1. Save(store, saved, cs)
    <3>1. Detached(claims) \cup {c \in {Claim("tick", j, None, "due") : j \in due} : saved} = cs
      BY DEF Batch
    <3> HIDE DEF cs
    <3> QED
      BY <1>3, <3>1 DEF TickCollect
  <2>2. \A j \in DOMAIN disk : Due(disk[j]) => j \in due
    OBVIOUS
  <2>3. Elapsed(cs, now) /\ Countable(cs)
    <3> HIDE DEF due
    <3> QED
      BY <1>1, BatchElapsed
  <2> HIDE DEF due, cs
  <2>4. Punctual(store, now)
    BY <1>1, WalksOnTime, MarkedOnTime
  <2>5. \A j \in DOMAIN disk \cap DOMAIN store :
          Due(disk[j]) => store[j].next = disk[j].next
    <3> SUFFICES ASSUME NEW j \in DOMAIN disk, j \in DOMAIN store, Due(disk[j])
                 PROVE  store[j].next = disk[j].next
      OBVIOUS
    <3>1. store = Marked(disk, due, now)
      BY <2>2
    <3>2. SameNexts(Marked(disk, due, now), disk)
      BY <1>1, MarkedOnTime
    <3> HIDE DEF store
    <3> QED
      BY <3>1, <3>2 DEF SameNexts
  <2> HIDE DEF store
  <2>6. disk' = store \/ disk' = disk
    BY <2>1 DEF Save
  <2>7. SlotsKept
    BY <2>5, <2>6, NothingPassed
  <2> QED
    BY <1>2, <2>1, <2>3, <2>4, <2>7, SectionSlots
<1>4. CASE TickApply(saved)
  <2> DEFINE b == By("tick")
             applied == Applied(disk, b)
             store == Maintained(applied, FALSE)
  <2>1. Over(b) /\ Save(store, saved, Detached(claims \ b))
    BY <1>4 DEF TickApply
  <2>2. b \in SUBSET Claims /\ b \in SUBSET claims /\ claims \ b \in SUBSET claims
    BY <1>1 DEF By
  <2> HIDE DEF b
  <2>3. /\ Elapsed(b, now)
        /\ Elapsed(Detached(claims \ b), now) /\ Countable(Detached(claims \ b))
    BY <2>2, SlotSection
  <2>4. /\ IsStore(applied) /\ Punctual(applied, now)
        /\ \A j \in DOMAIN applied : j \notin Held(b) => applied[j] = disk[j]
    BY <1>1, <2>1, <2>2, <2>3, AppliedStore, AppliedOnTime DEF IInv
  <2> HIDE DEF applied
  <2>5. Punctual(store, now)
    BY <1>1, <2>4, WalksOnTime
  <2>6. DOMAIN store = DOMAIN applied
    BY DEF Maintained
  <2>7. \A j \in DOMAIN applied :
          Due(applied[j]) => store[j].next \in Int /\ store[j].next <= now
    BY <1>1, <2>4, DueStaysDue
  <2> HIDE DEF store
  <2>8. claims' = Detached(claims \ b) /\ (disk' = store \/ disk' = disk)
    BY <2>1 DEF Save
  <2>9. SlotsKept
    <3> SUFFICES ASSUME NEW j \in Jobs, Passed(j)
                 PROVE  Cardinality(Of(j, claims')) < Cardinality(Of(j, claims))
      BY DEF SlotsKept, Of
    <3>1. j \in DOMAIN disk \cap DOMAIN disk' /\ Due(disk[j]) /\ disk'[j].next > now
      BY DEF Passed
    <3>2. disk[j].next \in Int /\ disk[j].next <= now
      BY <1>1, <3>1 DEF IsStore, Job, Due
    <3>3. disk' = store
      BY <1>1, <2>8, <3>1, <3>2
    <3>4. j \in Held(b)
      BY <1>1, <2>4, <2>6, <2>7, <3>1, <3>3
    <3> QED
      BY <1>1, <2>2, <2>8, <3>4, FewerClaims
  <2> QED
    BY <1>2, <2>1, <2>3, <2>5, <2>9, SectionSlots
<1> QED
  BY <1>3, <1>4

LEMMA ReserveSlots ==
    ASSUME IInv, SlotInv, NEW r \in Runs, NEW saved \in BOOLEAN, Reserve(r, saved)
    PROVE  SlotInv' /\ SlotsKept
<1>1. /\ now \in Nat /\ None <= now /\ IsStore(mem) /\ Punctual(mem, now)
      /\ Elapsed(claims, now) /\ Countable(claims)
      /\ manual \in [Runs -> [job : Jobs \cup {NoJob}, at : Int]]
      /\ manual[r].at \in Int /\ manual[r].at <= now
      /\ used.faults \in Nat
  <2>1. manual \in [Runs -> [job : Jobs \cup {NoJob}, at : Int]] /\ used.faults \in Nat
    BY DEF IInv, Typed, Troubles
  <2>2. manual[r].at \in Int
    BY <2>1
  <2> QED
    BY <2>1, <2>2, SlotSection DEF SlotInv
<1>2. /\ used'.faults = IF saved THEN used.faults ELSE used.faults + 1
      /\ now' = now
  <2>1. Counted(saved, 0) /\ now' = now
    BY DEF Reserve
  <2> QED
    BY <2>1, CountedUsed DEF IInv
<1>3. \A x \in Runs : manual'[x].at <= now
  <2>1. manual' = [manual EXCEPT ![r] = [job |-> NoJob, at |-> None]]
    BY DEF Reserve, Reserved, Dropped
  <2>2. manual'[r].at = None /\ \A x \in Runs : x # r => manual'[x] = manual[x]
    BY <1>1, <2>1
  <2> QED
    BY <1>1, <2>2 DEF SlotInv
<1>4. CASE manual[r].job \in DOMAIN mem /\ mem[manual[r].job].marker = None
  <2> DEFINE j == manual[r].job
             at == manual[r].at
             store == Marked(mem, {j}, at)
             cs == IF saved THEN claims \cup Batch(r, {j}, at, "running") ELSE claims
  <2>1. Save(store, saved, cs)
    <3>1. claims \cup {c \in {Claim(r, j, at, "running")} : saved} = cs
      BY DEF Batch
    <3> HIDE DEF cs
    <3> QED
      BY <1>4, <3>1 DEF Reserve, Reserved
  <2>2. Elapsed(cs, now) /\ Countable(cs)
    <3> HIDE DEF j
    <3> QED
      BY <1>1, BatchElapsed
  <2>3. Punctual(store, now) /\ SameNexts(store, mem) /\ DOMAIN store = DOMAIN mem
    <3>1. DOMAIN store = DOMAIN mem
      BY DEF Marked
    <3> QED
      BY <1>1, <3>1, MarkedOnTime
  <2> HIDE DEF j, store, cs
  <2>4. SlotsKept
    <3>1. CASE used.faults = 0
      <4>1. SameNexts(mem, disk)
        BY <3>1 DEF SlotInv
      <4>2. disk' = store \/ disk' = disk
        BY <2>1 DEF Save
      <4>3. \A k \in DOMAIN disk \cap DOMAIN disk' :
              disk'[k] = disk[k] \/ disk'[k].next = disk[k].next
        BY <2>3, <4>1, <4>2 DEF SameNexts
      <4> QED
        BY <4>3, NothingPassed
    <3>2. CASE used.faults # 0
      BY <1>1, <3>2 DEF SlotsKept
    <3> QED
      BY <3>1, <3>2
  <2> QED
    BY <1>2, <1>3, <2>1, <2>2, <2>3, <2>4, SectionSlots
<1>5. CASE ~(manual[r].job \in DOMAIN mem /\ mem[manual[r].job].marker = None)
  <2>1. saved /\ UNCHANGED <<disk, mem, claims>>
    BY <1>5 DEF Reserve
  <2>2. SlotsKept
    BY <2>1, NothingPassed
  <2> QED
    BY <1>2, <1>3, <2>1, <2>2 DEF SlotInv, SameNexts, Punctual
<1> QED
  BY <1>4, <1>5

LEMMA FinishSlots ==
    ASSUME IInv, SlotInv, NEW r \in Runs, NEW saved \in BOOLEAN, Finish(r, saved)
    PROVE  SlotInv' /\ SlotsKept
<1>1. /\ now \in Nat /\ now \in Int /\ IsStore(mem) /\ IsStore(disk) /\ Punctual(disk, now)
      /\ claims \in SUBSET Claims /\ Elapsed(claims, now) /\ Countable(claims)
  BY SlotSection
<1>2. /\ used'.faults = IF saved THEN used.faults ELSE used.faults + 1
      /\ now' = now /\ \A x \in Runs : manual'[x].at <= now
  <2>1. Counted(saved, 0) /\ UNCHANGED <<now, manual>>
    BY DEF Finish
  <2>2. used'.faults = IF saved THEN used.faults ELSE used.faults + 1
    BY <2>1, CountedUsed DEF IInv
  <2> QED
    BY <2>1, <2>2 DEF SlotInv
<1>3. PICK c \in By(r) :
        IF c.job \notin DOMAIN mem
        THEN saved /\ claims' = claims \ {c} /\ UNCHANGED <<disk, mem>>
        ELSE Save(Maintained([j \in DOMAIN disk \ (IF Deletes(c) THEN {c.job} ELSE {}) |->
                                   IF j = c.job THEN Result(j, mem[j], c) ELSE disk[j]], TRUE),
                  saved, Detached(claims \ {c}))
  BY DEF Finish
<1>4. /\ c \in Claims /\ c.outcome \in Outcomes
      /\ {c} \in SUBSET claims /\ claims \ {c} \in SUBSET claims /\ c.job \in Held({c})
      /\ c.at <= now /\ c.at <= c.ended
  <2>1. Over(By(r)) /\ c \in claims
    BY <1>3 DEF Finish, By
  <2>2. c \in Claims /\ c.outcome \in Outcomes
    BY <1>1, <1>3, <2>1 DEF Over, Claims
  <2> QED
    BY <1>1, <2>1, <2>2 DEF Elapsed, Held
<1>5. CASE c.job \notin DOMAIN mem
  <2>1. saved /\ claims' = claims \ {c} /\ UNCHANGED <<disk, mem>>
    BY <1>3, <1>5
  <2>2. Elapsed(claims', now) /\ Countable(claims')
    BY <1>1, <1>4, <2>1, SomeElapsed
  <2>3. SlotsKept
    BY <2>1, NothingPassed
  <2> QED
    BY <1>2, <2>1, <2>2, <2>3 DEF SlotInv, SameNexts, Punctual
<1>6. CASE c.job \in DOMAIN mem
  <2> DEFINE merged == [j \in DOMAIN disk \ (IF Deletes(c) THEN {c.job} ELSE {}) |->
                           IF j = c.job THEN Result(j, mem[j], c) ELSE disk[j]]
             store == Maintained(merged, TRUE)
  <2>1. Save(store, saved, Detached(claims \ {c}))
    BY <1>3, <1>6
  <2>2. /\ Result(c.job, mem[c.job], c) \in Job
        /\ OnTime(c.job, Result(c.job, mem[c.job], c), now)
    <3>1. c.job \in Jobs /\ mem[c.job] \in Job
      BY <1>1, <1>6 DEF IsStore
    <3> QED
      BY <1>1, <1>4, <3>1, ResultJob, ResultOnTime DEF IInv
  <2>3. /\ DOMAIN merged \subseteq DOMAIN disk
        /\ \A j \in DOMAIN merged : j # c.job => merged[j] = disk[j]
        /\ c.job \in DOMAIN merged => merged[c.job] = Result(c.job, mem[c.job], c)
    OBVIOUS
  <2> HIDE DEF merged
  <2>4. IsStore(merged) /\ Punctual(merged, now)
    BY <1>1, <2>2, <2>3 DEF IsStore, Punctual
  <2>5. Punctual(store, now)
    BY <1>1, <2>4, WalksOnTime
  <2>6. DOMAIN store = DOMAIN merged
    BY DEF Maintained
  <2>7. \A j \in DOMAIN merged :
          Due(merged[j]) => store[j].next \in Int /\ store[j].next <= now
    BY <1>1, <2>4, DueStaysDue
  <2>8. Elapsed(Detached(claims \ {c}), now) /\ Countable(Detached(claims \ {c}))
    BY <1>4, SlotSection
  <2> HIDE DEF store
  <2>9. claims' = Detached(claims \ {c}) /\ (disk' = store \/ disk' = disk)
    BY <2>1 DEF Save
  <2>10. SlotsKept
    <3> SUFFICES ASSUME NEW j \in Jobs, Passed(j)
                 PROVE  Cardinality(Of(j, claims')) < Cardinality(Of(j, claims))
      BY DEF SlotsKept, Of
    <3>1. j \in DOMAIN disk \cap DOMAIN disk' /\ Due(disk[j]) /\ disk'[j].next > now
      BY DEF Passed
    <3>2. disk[j].next \in Int /\ disk[j].next <= now
      BY <1>1, <3>1 DEF IsStore, Job, Due
    <3>3. disk' = store
      BY <1>1, <2>9, <3>1, <3>2
    <3>4. j = c.job
      BY <1>1, <2>3, <2>6, <2>7, <3>1, <3>3
    <3> QED
      BY <1>1, <1>4, <2>9, <3>4, FewerClaims
  <2> QED
    BY <1>2, <2>1, <2>5, <2>8, <2>10, SectionSlots
<1> QED
  BY <1>5, <1>6

\* An edit counts as one, whatever it does to the next run.
LEMMA EditSlots ==
    ASSUME IInv, SlotInv, NEW saved \in BOOLEAN, NEW store, Edit(store, saved),
           used'.faults = IF saved THEN used.faults ELSE used.faults + 1,
           used'.edits = used.edits + 1, Punctual(store, now)
    PROVE  SlotInv' /\ SlotsKept
<1>1. Save(store, saved, claims) /\ UNCHANGED <<now, manual>>
  BY DEF Edit
<1>2. SlotInv'
  BY <1>1, SlotSection, SectionSlots DEF SlotInv
<1>3. used'.edits # used.edits
  BY DEF IInv, Typed, Troubles
<1> QED
  BY <1>2, <1>3 DEF SlotsKept

LEMMA UserSlots ==
    ASSUME IInv, TimerInv, SlotInv, NEW saved \in BOOLEAN, UserStep(saved)
    PROVE  SlotInv' /\ SlotsKept
<1>1. /\ IsStore(mem) /\ Punctual(mem, now) /\ Planned(mem)
      /\ now \in Nat /\ now \in Int /\ used \in Troubles /\ None \in Int /\ None <= now
      /\ Elapsed(claims, now) /\ Countable(claims)
  BY SlotSection DEF TimerInv, IInv, Typed
<1>2. ASSUME NEW j \in Jobs, Add(j, saved) PROVE SlotInv' /\ SlotsKept
  <2> DEFINE s == [k \in DOMAIN mem \cup {j} |-> IF k = j THEN Fresh(j) ELSE mem[k]]
             faults == IF saved THEN used.faults ELSE used.faults + 1
             edits == used.edits + 1
             born == used.born \cup {j}
  <2>1. /\ Edit(Recomputed(s), saved)
        /\ used' = [used EXCEPT !.faults = faults, !.edits = edits, !.born = born]
    BY <1>2 DEF Add
  <2>2. used'.faults = faults /\ used'.edits = edits
    <3> HIDE DEF faults, edits, born
    <3> QED
      BY <1>1, <2>1 DEF Troubles
  <2>3. Fresh(j) \in Job /\ OnTime(j, Fresh(j), now)
    <3> DEFINE job == [enabled |-> TRUE, next |-> None, marker |-> None,
                       last |-> None, status |-> "none"]
    <3>1. job \in Job /\ job.last <= now
      BY <1>1 DEF Job, Statuses
    <3>2. Fresh(j) = [job EXCEPT !.next = NextRun(j, job)]
      BY DEF Fresh
    <3> HIDE DEF job
    <3> QED
      BY <1>1, <3>1, <3>2, FreshJob, NextRunOnTime
  <2>4. IsStore(s) /\ Punctual(s, now)
    <3>1. /\ DOMAIN s = DOMAIN mem \cup {j} /\ s[j] = Fresh(j)
          /\ \A k \in DOMAIN s : k # j => k \in DOMAIN mem /\ s[k] = mem[k]
      OBVIOUS
    <3> HIDE DEF s
    <3> QED
      BY <1>1, <2>3, <3>1 DEF IsStore, Punctual
  <2> HIDE DEF s
  <2>5. Punctual(Recomputed(s), now)
    BY <1>1, <2>4, WalksOnTime
  <2> QED
    BY <2>1, <2>2, <2>5, EditSlots
<1>3. ASSUME NEW j \in Jobs, Remove(j, saved) PROVE SlotInv' /\ SlotsKept
  <2> DEFINE store == [k \in DOMAIN mem \ {j} |-> mem[k]]
  <2>1. Edit(store, saved) /\ Counted(saved, 1)
    BY <1>3 DEF Remove
  <2>2. Punctual(store, now)
    BY <1>1 DEF Punctual
  <2> HIDE DEF store
  <2> QED
    BY <2>1, <2>2, CountedUsed, EditSlots DEF IInv
<1>4. ASSUME NEW j \in Jobs, NEW enabled \in BOOLEAN, SetEnabled(j, enabled, saved)
      PROVE  SlotInv' /\ SlotsKept
  <2> DEFINE job == [mem[j] EXCEPT !.enabled = enabled]
             next == NextRun(j, job)
             marker == IF enabled THEN job.marker ELSE None
             edited == [job EXCEPT !.next = next, !.marker = marker]
             store == [mem EXCEPT ![j] = edited]
  <2>1. j \in DOMAIN mem /\ Edit(store, saved) /\ Counted(saved, 1)
    BY <1>4 DEF SetEnabled
  <2>2. job \in Job /\ job.last <= now
    <3>1. mem[j] \in Job /\ OnTime(j, mem[j], now)
      BY <1>1, <2>1 DEF IsStore, Punctual
    <3> QED
      BY <3>1 DEF Job, OnTime
  <2> HIDE DEF job
  <2>3. next \in Int /\ OnTime(j, [job EXCEPT !.next = next], now)
    BY <1>1, <2>2, NextRunTyped, NextRunOnTime
  <2> HIDE DEF next, marker
  <2>4. /\ edited.next = next /\ edited.last = job.last
        /\ [job EXCEPT !.next = next].next = next /\ [job EXCEPT !.next = next].last = job.last
    BY <2>2 DEF Job
  <2>5. OnTime(j, edited, now)
    BY <2>3, <2>4 DEF OnTime
  <2> HIDE DEF edited
  <2>6. /\ DOMAIN store = DOMAIN mem /\ store[j] = edited
        /\ \A k \in DOMAIN mem : k # j => store[k] = mem[k]
    BY <2>1
  <2> HIDE DEF store
  <2>7. Punctual(store, now)
    BY <1>1, <2>5, <2>6 DEF Punctual
  <2> QED
    BY <2>1, <2>7, CountedUsed, EditSlots DEF IInv
<1>5. CASE Read(saved)
  <2> DEFINE store == Maintained(mem, FALSE)
  <2>1. Save(store, saved, claims) /\ Counted(saved, 0) /\ UNCHANGED <<now, manual>>
    BY <1>5 DEF Read
  <2>2. Punctual(store, now) /\ SameNexts(store, mem) /\ DOMAIN store = DOMAIN mem
    BY <1>1, WalksOnTime, WalkKeepsNexts DEF Maintained
  <2> HIDE DEF store
  <2>3. SlotInv'
    BY <1>1, <2>1, <2>2, CountedUsed, SectionSlots DEF IInv, SlotInv
  <2>4. SlotsKept
    <3>1. CASE used.faults = 0
      <4>1. SameNexts(mem, disk)
        BY <3>1 DEF SlotInv
      <4>2. disk' = store \/ disk' = disk
        BY <2>1 DEF Save
      <4>3. \A k \in DOMAIN disk \cap DOMAIN disk' :
              disk'[k] = disk[k] \/ disk'[k].next = disk[k].next
        BY <2>2, <4>1, <4>2 DEF SameNexts
      <4> QED
        BY <4>3, NothingPassed
    <3>2. CASE used.faults # 0
      <4>1. used.faults \in Nat
        BY <1>1 DEF Troubles
      <4> QED
        BY <3>2, <4>1 DEF SlotsKept
    <3> QED
      BY <3>1, <3>2
  <2> QED
    BY <2>3, <2>4
<1> QED
  BY <1>2, <1>3, <1>4, <1>5 DEF UserStep

\* A claim that starts or ends is replaced by one of the same job.
LEMMA ExecutionSlots ==
    ASSUME IInv, SlotInv, NEW e \in claims,
           \/ ExecutionStarts(e)
           \/ \E outcome \in Endings[e.job] : ExecutionEnds(e, outcome)
    PROVE  SlotInv' /\ SlotsKept
<1>1. /\ now \in Nat /\ now \in Int /\ IsStore(mem) /\ Punctual(mem, now)
      /\ claims \in SUBSET Claims /\ Elapsed(claims, now) /\ Countable(claims)
  BY SlotSection
<1>2. /\ UNCHANGED <<now, disk, manual>> /\ used'.faults = used.faults
      /\ mem' = mem \/ \E js : mem' = Marked(mem, js, now)
  BY EndIsCounted DEF ExecutionStarts, ExecutionEnds, IInv
<1>3. Punctual(mem', now) /\ SameNexts(mem', mem) /\ DOMAIN mem' = DOMAIN mem
  <2>1. CASE mem' = mem
    BY <1>1, <2>1 DEF SameNexts
  <2>2. ASSUME NEW js, mem' = Marked(mem, js, now)
        PROVE  Punctual(mem', now) /\ SameNexts(mem', mem) /\ DOMAIN mem' = DOMAIN mem
    <3>1. DOMAIN mem' = DOMAIN mem
      BY <2>2 DEF Marked
    <3> QED
      BY <1>1, <2>2, <3>1, MarkedOnTime
  <2> QED
    BY <1>2, <2>1, <2>2
<1>4. PICK c \in claims, d \in Claims :
        /\ claims' = (claims \ {c}) \cup {d} /\ d.job = c.job
        /\ d.at <= now /\ d.ended <= now /\ (d.outcome \in Outcomes => d.at <= d.ended)
  <2>1. PICK c \in claims : \/ ExecutionStarts(c)
                           \/ \E outcome \in Endings[c.job] : ExecutionEnds(c, outcome)
    OBVIOUS
  <2>2. c \in Claims /\ c.ended <= now /\ c.at <= now
    BY <1>1, <2>1 DEF Elapsed
  <2>3. CASE ExecutionStarts(c)
    <3> DEFINE d == [c EXCEPT !.outcome = "running", !.at = now, !.own = FALSE]
    <3>1. claims' = (claims \ {c}) \cup {d}
      BY <2>3 DEF ExecutionStarts
    <3>2. /\ d \in Claims /\ d.job = c.job /\ d.at = now /\ d.ended = c.ended
          /\ d.outcome = "running"
      BY <1>1, <2>2 DEF Claims
    <3> HIDE DEF d
    <3>3. d.outcome \notin Outcomes
      BY <3>2 DEF Outcomes
    <3> QED
      BY <1>1, <2>2, <3>1, <3>2, <3>3
  <2>4. ASSUME NEW outcome \in Endings[c.job], ExecutionEnds(c, outcome)
        PROVE  \E d \in Claims :
                 /\ claims' = (claims \ {c}) \cup {d} /\ d.job = c.job
                 /\ d.at <= now /\ d.ended <= now /\ (d.outcome \in Outcomes => d.at <= d.ended)
    <3> DEFINE d == [c EXCEPT !.outcome = outcome, !.ended = now]
    <3>1. claims' = (claims \ {c}) \cup {d}
      BY <2>4 DEF ExecutionEnds
    <3>2. outcome \in Outcomes
      <4>1. c.job \in Jobs
        BY <2>2 DEF Claims
      <4> QED
        BY <4>1 DEF Outcomes
    <3>3. d \in Claims /\ d.job = c.job /\ d.at = c.at /\ d.ended = now
      BY <1>1, <2>2, <3>2 DEF Claims
    <3> HIDE DEF d
    <3> QED
      BY <1>1, <2>2, <3>1, <3>3
  <2> QED
    BY <2>1, <2>3, <2>4
<1>5. Elapsed(claims', now)
  BY <1>1, <1>4 DEF Elapsed
<1>6. ASSUME NEW j \in Jobs PROVE IsFiniteSet(Of(j, claims'))
  <2>1. IsFiniteSet(Of(j, claims) \cup {d})
    BY <1>1, FS_AddElement DEF Countable
  <2>2. Of(j, claims') \in SUBSET (Of(j, claims) \cup {d})
    BY <1>4 DEF Of
  <2> QED
    BY <2>1, <2>2, FS_Subset
<1>7. SlotsKept
  BY <1>2, NothingPassed
<1> QED
  BY <1>2, <1>3, <1>5, <1>6, <1>7 DEF SlotInv, Countable, SameNexts

\* Between sections.
LEMMA BetweenSlots ==
    ASSUME IInv, TimerInv, SlotInv,
           \/ TickFires \/ TickEnds \/ Crash \/ Advance \/ \E j \in strays : StrayEnds(j)
           \/ \E r \in Runs, j \in Jobs, forced \in BOOLEAN : Preflight(r, j, forced)
           \/ UNCHANGED vars
    PROVE  SlotInv' /\ SlotsKept
<1>1. /\ IsStore(mem) /\ IsStore(disk) /\ Planned(mem)
      /\ Punctual(mem, now) /\ Punctual(disk, now)
      /\ now \in Nat /\ now \in Int /\ None <= now
      /\ claims \in SUBSET Claims /\ Elapsed(claims, now)
      /\ manual \in [Runs -> [job : Jobs \cup {NoJob}, at : Int]]
  BY SlotSection DEF TimerInv, IInv, Typed
<1>2. SlotsKept
  <2>1. UNCHANGED disk
    BY DEF TickFires, TickEnds, Crash, Advance, StrayEnds, Preflight, vars
  <2> QED
    BY <2>1, NothingPassed
<1>3. CASE TickFires \/ TickEnds \/ UNCHANGED vars \/ \E j \in strays : StrayEnds(j)
  BY <1>2, <1>3 DEF TickFires, TickEnds, StrayEnds, vars, SlotInv
<1>4. CASE Crash
  <2>1. /\ mem' = disk /\ UNCHANGED <<now, disk>> /\ claims' = {}
        /\ manual' = [r \in Runs |-> [job |-> NoJob, at |-> None]]
    BY <1>4 DEF Crash
  <2>2. Elapsed({}, now) /\ Countable({})
    <3>1. \A j : Of(j, {}) = {}
      BY DEF Of
    <3>2. IsFiniteSet({})
      BY FS_EmptySet
    <3> QED
      BY <3>1, <3>2 DEF Elapsed, Countable
  <2> QED
    BY <1>1, <1>2, <2>1, <2>2 DEF SlotInv, SameNexts
<1>5. CASE Advance
  <2>1. now' = now + 1 /\ UNCHANGED <<disk, mem, claims, manual, used>>
    BY <1>5 DEF Advance
  <2>2. \A i \in Int : i <= now => i <= now'
    BY <1>1, <2>1
  <2>3. ASSUME NEW s, IsStore(s), Punctual(s, now) PROVE Punctual(s, now')
    <3>1. \A j \in DOMAIN s : s[j].last \in Int
      BY <2>3 DEF IsStore, Job
    <3> QED
      BY <2>2, <2>3, <3>1 DEF Punctual, OnTime
  <2>4. Elapsed(claims, now')
    <3>1. \A c \in claims : c.at \in Int /\ c.ended \in Int
      BY <1>1 DEF Claims
    <3> QED
      BY <1>1, <2>2, <3>1 DEF Elapsed
  <2>5. \A r \in Runs : manual[r].at <= now'
    <3>1. \A r \in Runs : manual[r].at \in Int
      BY <1>1
    <3> QED
      BY <2>2, <3>1 DEF SlotInv
  <2> QED
    BY <1>1, <1>2, <2>1, <2>3, <2>4, <2>5 DEF SlotInv
<1>6. ASSUME NEW r \in Runs, NEW j \in Jobs, NEW forced \in BOOLEAN, Preflight(r, j, forced)
      PROVE  SlotInv'
  <2>1. /\ mem' = Maintained(mem, FALSE) /\ UNCHANGED <<now, disk, claims, used>>
        /\ manual' = [manual EXCEPT ![r] = [job |-> j, at |-> now]]
    BY <1>6 DEF Preflight
  <2>2. Punctual(mem', now) /\ SameNexts(mem', mem) /\ DOMAIN mem' = DOMAIN mem
    <3>1. DOMAIN Maintained(mem, FALSE) = DOMAIN mem
      BY DEF Maintained
    <3> QED
      BY <1>1, <2>1, <3>1, WalksOnTime, WalkKeepsNexts
  <2>3. \A x \in Runs : manual'[x].at <= now
    <3>1. manual'[r].at = now /\ \A x \in Runs : x # r => manual'[x] = manual[x]
      BY <1>1, <2>1
    <3> QED
      BY <1>1, <3>1 DEF SlotInv
  <2> QED
    BY <2>1, <2>2, <2>3 DEF SlotInv, SameNexts
<1> QED
  BY <1>2, <1>3, <1>4, <1>5, <1>6

\* While writes succeed no due slot is passed over: a job's next run moves on
\* only when an execution of it is applied, an edit is made, or a start ends
\* (recomputeNextRunsForMaintenance and the sections that write what they read).
THEOREM SlotsKeep == Spec => SlotsAreKept
<1>1. Init => IInv /\ TimerInv
  BY InitHolds, InitPlanned
<1>2. ASSUME Init PROVE SlotInv
  <2>1. /\ now = 0 /\ disk = [j \in AtStart |-> Fresh(j)] /\ mem = disk /\ claims = {}
        /\ manual = [r \in Runs |-> [job |-> NoJob, at |-> None]]
    BY <1>2 DEF Init
  <2>2. ASSUME NEW j \in AtStart PROVE OnTime(j, Fresh(j), now)
    <3> DEFINE job == [enabled |-> TRUE, next |-> None, marker |-> None,
                       last |-> None, status |-> "none"]
    <3>1. job \in Job /\ job.last <= now /\ j \in Jobs
      BY <2>1 DEF Job, None, Statuses
    <3>2. Fresh(j) = [job EXCEPT !.next = NextRun(j, job)]
      BY DEF Fresh
    <3> HIDE DEF job
    <3> QED
      BY <2>1, <3>1, <3>2, NextRunOnTime
  <2>3. Countable({})
    <3>1. \A j : Of(j, {}) = {}
      BY DEF Of
    <3> QED
      BY <3>1, FS_EmptySet DEF Countable
  <2>4. \A r \in Runs : manual[r].at <= now
    BY <2>1 DEF None
  <2> QED
    BY <2>1, <2>2, <2>3, <2>4 DEF SlotInv, Punctual, Elapsed, SameNexts
<1>3. ASSUME IInv, TimerInv, SlotInv, [Next]_vars PROVE SlotInv' /\ SlotsKept
  <2>1. ASSUME NEW saved \in BOOLEAN, Section(saved) PROVE SlotInv' /\ SlotsKept
    BY <1>3, <2>1, StartSlots, TickSlots, ReserveSlots, FinishSlots DEF Section
  <2>2. ASSUME NEW saved \in BOOLEAN, UserStep(saved) PROVE SlotInv' /\ SlotsKept
    BY <1>3, <2>2, UserSlots
  <2> QED
    BY <1>3, <2>1, <2>2, ExecutionSlots, BetweenSlots DEF Next, Execution
<1>4. IInv /\ TimerInv /\ [Next]_vars => IInv' /\ TimerInv'
  BY NextKeeps, NextPlans
<1>5. ASSUME SlotsKept
      PROVE  [\A j \in Jobs : Passed(j) =>
          \/ Cardinality({c \in claims' : c.job = j}) < Cardinality({c \in claims : c.job = j})
          \/ used'.edits # used.edits
          \/ start.pc # start'.pc
          \/ used.faults > 0]_vars
  BY <1>5 DEF SlotsKept
<1> QED
  BY <1>1, <1>2, <1>3, <1>4, <1>5, PTL DEF Spec, SlotsAreKept
=============================================================================
