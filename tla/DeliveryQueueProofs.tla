------------------------ MODULE DeliveryQueueProofs ------------------------
(***************************************************************************)
(* Proofs about DeliveryQueue, for any number of messages, retries,        *)
(* recoveries and crashes: the queue implements DeliveryContract.          *)
(*                                                                         *)
(* The heart of the invariant is Accounted: a message that was written to  *)
(* disk and whose file is gone has been settled.  The file goes at the     *)
(* rename of an acknowledgement and at the move to failed/; the latter     *)
(* settles the message, and of the former Acknowledges says that its       *)
(* message was settled before.  The rest says whose message a sender       *)
(* holds, so that no step concerns a message that is not yet accepted.     *)
(***************************************************************************)
EXTENDS DeliveryQueue, TLAPS

JobType == [pc : Pcs, msg : 0..N, read : Entry, names : SUBSET Messages,
            pending : SUBSET (Messages \X (Entry \ {NoEntry}))]

Holding == {"sending", "ack", "unlink", "read", "write", "park"}

\* A sender past its enqueue holds its own message; only a live sender, whose
\* write failed, sends what is not on disk.
HoldsOwn(a, j) ==
    /\ a \in Messages /\ j.pc \in Holding \cup {"unlogged"} => j.msg = a
    /\ a \in Recoveries => j.pc # "unlogged"

\* What a sender holds or has yet to send was accepted.
HoldsAccepted(j) ==
    /\ j.pc \in Holding => j.msg \in accepted
    /\ j.names \subseteq accepted
    /\ \A e \in j.pending : e[1] \in accepted

\* A firm message that is being acknowledged is settled.
Acknowledges(j) ==
    j.pc = "ack" /\ j.msg \in Firm => received[j.msg] > 0 \/ j.msg \in withdrawn

\* failDelivery writes back an entry it has read.
Counts(j) == j.pc = "write" => j.read # NoEntry

JobOK(a, j) == HoldsOwn(a, j) /\ HoldsAccepted(j) /\ Acknowledges(j) /\ Counts(j)

\* Before its sender runs, a message has left no trace.
Untouched ==
    \A m \in Messages : jobs[m].pc = "idle" => received[m] = 0 /\ m \notin accepted

AcceptedFirst == OnDisk \subseteq accepted /\ withdrawn \subseteq accepted

Accounted ==
    \A m \in Firm \cap accepted :
      received[m] > 0 \/ m \in withdrawn \/ m \in parked \/ m \in OnDisk

IInv ==
    /\ TypeOK
    /\ \A a \in Actors : JobOK(a, jobs[a])
    /\ Untouched
    /\ AcceptedFirst
    /\ Accounted

-----------------------------------------------------------------------------
\* The typing of the state that a step of one actor changes.
LEMMA JobsTyped ==
    ASSUME TypeOK, NEW a \in Actors
    PROVE  /\ jobs[a] \in JobType
           /\ jobs[a].pc \in Pcs /\ jobs[a].msg \in 0..N /\ jobs[a].read \in Entry
           /\ jobs[a].names \subseteq Messages
  BY DEF TypeOK, JobType

LEMMA EntriesDiffer ==
    /\ NoEntry \in Entry /\ Written \in Entry /\ Written # NoEntry
    /\ NoEntry.retryCount = -1 /\ Written.retryCount = 0
    /\ \A e \in Entry \ {NoEntry} :
         /\ e.retryCount \in Nat
         /\ [retryCount |-> e.retryCount + 1, tried |-> TRUE] \in Entry \ {NoEntry}
<1>1. NoEntry \in Entry /\ Written \in Entry
  BY DEF Entry
<1>2. NoEntry.retryCount = -1 /\ Written.retryCount = 0
  BY DEF NoEntry, Written
<1>3. ASSUME NEW e \in Entry \ {NoEntry}
      PROVE  e.retryCount \in Nat
  <2>1. e = Written \/ e \in [retryCount : Nat \ {0}, tried : {TRUE}]
    BY DEF Entry
  <2>2. e \in [retryCount : Nat \ {0}, tried : {TRUE}] => e.retryCount \in Nat
    OBVIOUS
  <2>3. e = Written => e.retryCount \in Nat
    BY DEF Written
  <2> QED
    BY <2>1, <2>2, <2>3
<1>4. ASSUME NEW n \in Nat
      PROVE  [retryCount |-> n + 1, tried |-> TRUE] \in Entry \ {NoEntry}
  <2>1. [retryCount |-> n + 1, tried |-> TRUE] \in [retryCount : Nat \ {0}, tried : {TRUE}]
    BY SMT
  <2>2. [retryCount |-> n + 1, tried |-> TRUE].retryCount # -1
    BY SMT
  <2> QED
    BY <1>2, <2>1, <2>2 DEF Entry
<1> QED
  BY <1>1, <1>2, <1>3, <1>4

\* Where the invariant holds, a message's outcome is a matter of four sets.
OutcomeFields == <<received, withdrawn, accepted, parked>>

Outcomes == [m \in Firm |-> Outcome(m)]

LEMMA OutcomesKept ==
    ASSUME IInv, IInv', UNCHANGED OutcomeFields
    PROVE  UNCHANGED Outcomes
<1>1. \A m \in Firm : Outcome(m)' = Outcome(m)
  BY DEF IInv, Accounted, Outcome, OutcomeFields
<1> QED
  BY <1>1 DEF Outcomes

\* A step of one actor that moves it and touches no file but a marker.
LEMMA MoveStep ==
    ASSUME IInv, NEW a \in Actors, NEW j \in JobType, JobOK(a, j),
           jobs' = [jobs EXCEPT ![a] = j],
           a \in Recoveries \/ (jobs[a].pc # "idle" /\ j.pc # "idle"),
           UNCHANGED <<json, received, withdrawn, accepted, parked, acked, bestEffort, crashes>>,
           marker' \subseteq marker
    PROVE  IInv' /\ UNCHANGED Outcomes
<1>1. TypeOK'
  BY DEF IInv, TypeOK, JobType
<1>2. jobs'[a] = j /\ \A b \in Actors : b # a => jobs'[b] = jobs[b]
  BY DEF IInv, TypeOK
<1>3. \A b \in Actors : JobOK(b, jobs[b])'
  BY <1>2 DEF IInv, JobOK, HoldsOwn, HoldsAccepted, Acknowledges, Counts
<1>4. Untouched'
  BY <1>2, DeliveryAssumption DEF IInv, Untouched, Actors
<1>5. AcceptedFirst' /\ Accounted'
  BY DEF IInv, AcceptedFirst, Accounted, OnDisk
<1>6. IInv'
  BY <1>1, <1>3, <1>4, <1>5 DEF IInv
<1> QED
  BY <1>6, OutcomesKept DEF OutcomeFields

\* A step that only changes where an actor is.
LEMMA GoesStep ==
    ASSUME IInv, NEW a \in Actors, NEW pc \in Pcs \ {"idle", "unlogged", "write"},
           Goes(a, pc), a \in Recoveries \/ jobs[a].pc # "idle",
           pc \in Holding => jobs[a].pc \in Holding,
           pc = "ack" => jobs[a].msg \notin Firm,
           UNCHANGED <<json, received, withdrawn, accepted, parked, acked, bestEffort, crashes>>,
           marker' \subseteq marker
    PROVE  IInv' /\ UNCHANGED Outcomes
<1> DEFINE j == [jobs[a] EXCEPT !.pc = pc]
<1>1. jobs[a] \in JobType /\ JobOK(a, jobs[a])
  BY DEF IInv, TypeOK, JobType
<1>2. j \in JobType
  BY <1>1 DEF JobType
<1>3. /\ j.pc = pc /\ j.msg = jobs[a].msg /\ j.read = jobs[a].read
      /\ j.names = jobs[a].names /\ j.pending = jobs[a].pending
  BY <1>1 DEF JobType
<1>4. jobs' = [jobs EXCEPT ![a] = j]
  BY <1>1 DEF Goes, JobType
<1> HIDE DEF j
<1>5. JobOK(a, j)
  BY <1>1, <1>3 DEF JobOK, HoldsOwn, HoldsAccepted, Acknowledges, Counts, Holding
<1> QED
  BY <1>2, <1>3, <1>4, <1>5, MoveStep

\* The send fails, is swallowed, or the marker is unlinked.
LEMMA SenderMoves ==
    ASSUME IInv, NEW a \in Actors,
           \/ SendThrows(a) \/ SendSwallows(a) \/ AckUnlink(a)
           \/ a \in Messages /\ SendTimesOut(a)
    PROVE  IInv' /\ UNCHANGED Outcomes
<1>1. CASE SendThrows(a)
  <2>1. PICK pc \in {"done", "read", "park"} :
          Goes(a, pc) /\ (pc # "done" => jobs[a].pc = "sending")
    BY <1>1 DEF SendThrows
  <2> QED
    BY <1>1, <2>1, GoesStep DEF SendThrows, Pcs, Holding
<1>2. CASE SendSwallows(a)
  <2>1. PICK pc \in {"read", "ack"} : Goes(a, pc)
    BY <1>2 DEF SendSwallows
  <2> QED
    BY <1>2, <2>1, GoesStep DEF SendSwallows, Pcs, Holding, Firm, IInv, TypeOK
<1>3. CASE AckUnlink(a)
  <2>1. PICK pc \in {"done", "next"} : Goes(a, pc)
    BY <1>3 DEF AckUnlink, Next1
  <2> QED
    BY <1>3, <2>1, GoesStep DEF AckUnlink, Pcs, Holding
<1>4. CASE a \in Messages /\ SendTimesOut(a)
  <2>1. jobs[a].pc = "sending" /\ jobs[a].msg = a
    BY <1>4 DEF SendTimesOut, IInv, JobOK, HoldsOwn, Holding
  <2>2. jobs[a].msg \notin Firm
    BY <1>4, <2>1 DEF SendTimesOut, Firm
  <2> QED
    BY <1>4, <2>1, <2>2, GoesStep DEF SendTimesOut, Pcs, Holding
<1> QED
  BY <1>1, <1>2, <1>3, <1>4

\* failDelivery takes the entry along.
LEMMA FailReadStep ==
    ASSUME IInv, NEW a \in Actors, FailRead(a)
    PROVE  IInv' /\ UNCHANGED Outcomes
<1> DEFINE m == jobs[a].msg
<1>1. CASE m \in OnDisk
  <2> DEFINE j == [jobs[a] EXCEPT !.pc = "write", !.read = json[m]]
  <2>1. jobs[a] \in JobType /\ JobOK(a, jobs[a]) /\ jobs[a].pc = "read"
    BY DEF IInv, TypeOK, JobType, FailRead
  <2>2. m \in Messages /\ json[m] \in Entry /\ json[m] # NoEntry
    BY <1>1 DEF OnDisk, IInv, TypeOK
  <2>3. j \in JobType
    BY <2>1, <2>2 DEF JobType, Pcs
  <2>4. /\ j.pc = "write" /\ j.msg = jobs[a].msg /\ j.read = json[m]
        /\ j.names = jobs[a].names /\ j.pending = jobs[a].pending
    BY <2>1 DEF JobType
  <2>5. jobs' = [jobs EXCEPT ![a] = j]
    BY <1>1, <2>1 DEF FailRead, JobType
  <2> HIDE DEF j
  <2>6. JobOK(a, j)
    BY <2>1, <2>2, <2>4 DEF JobOK, HoldsOwn, HoldsAccepted, Acknowledges, Counts, Holding
  <2> QED
    BY <2>1, <2>3, <2>4, <2>5, <2>6, MoveStep DEF FailRead
<1>2. CASE m \notin OnDisk
  <2>1. PICK pc \in {"done", "next"} : Goes(a, pc)
    BY <1>2 DEF FailRead, Next1, Goes
  <2> QED
    BY <2>1, GoesStep DEF FailRead, Pcs, Holding
<1> QED
  BY <1>1, <1>2

\* What a recovery lists and reads is on disk, hence accepted.
LEMMA LoadStep ==
    ASSUME IInv, NEW r \in Recoveries, Scan(r) \/ Load(r) \/ Loaded(r)
    PROVE  IInv' /\ UNCHANGED Outcomes
<1>1. /\ r \in Actors /\ jobs[r] \in JobType /\ JobOK(r, jobs[r])
      /\ json \in [Messages -> Entry] /\ OnDisk \subseteq accepted
      /\ OnDisk \subseteq Messages
  BY DEF IInv, TypeOK, JobType, Actors, AcceptedFirst, OnDisk
<1>2. CASE Scan(r)
  <2> DEFINE j == [jobs[r] EXCEPT !.pc = "load", !.names = OnDisk]
  <2>1. j \in JobType /\ jobs' = [jobs EXCEPT ![r] = j]
    BY <1>1, <1>2 DEF Scan, JobType, Pcs
  <2>2. JobOK(r, j)
    BY <1>1, DeliveryAssumption
       DEF JobType, JobOK, HoldsOwn, HoldsAccepted, Acknowledges, Counts, Holding
  <2> HIDE DEF j
  <2> QED
    BY <1>1, <1>2, <2>1, <2>2, MoveStep DEF Scan
<1>3. CASE Load(r)
  <2>1. PICK m \in jobs[r].names :
          jobs' = [jobs EXCEPT
             ![r].names = @ \ {m},
             ![r].pending = IF m \in OnDisk THEN @ \cup {<<m, json[m]>>} ELSE @]
    BY <1>3 DEF Load
  <2> DEFINE p == IF m \in OnDisk THEN jobs[r].pending \cup {<<m, json[m]>>}
                  ELSE jobs[r].pending
             j == [jobs[r] EXCEPT !.names = @ \ {m}, !.pending = p]
  <2>2. p \in SUBSET (Messages \X (Entry \ {NoEntry})) /\ \A e \in p : e[1] \in accepted
    BY <1>1 DEF JobType, OnDisk, JobOK, HoldsAccepted
  <2>3. j \in JobType /\ jobs' = [jobs EXCEPT ![r] = j]
    BY <1>1, <2>1, <2>2 DEF JobType
  <2>4. /\ j.pc = jobs[r].pc /\ j.msg = jobs[r].msg /\ j.read = jobs[r].read
        /\ j.names \subseteq jobs[r].names /\ j.pending = p
    BY <1>1 DEF JobType
  <2> HIDE DEF j, p
  <2>5. JobOK(r, j)
    BY <1>1, <2>2, <2>4 DEF JobOK, HoldsOwn, HoldsAccepted, Acknowledges, Counts
  <2> QED
    BY <1>1, <1>3, <2>3, <2>5, MoveStep DEF Load
<1>4. CASE Loaded(r)
  BY <1>1, <1>4, GoesStep DEF Loaded, Pcs, Holding
<1> QED
  BY <1>2, <1>3, <1>4

\* The entry a recovery turns to is one it has read.
LEMMA TakeStep ==
    ASSUME IInv, NEW r \in Recoveries, GiveUp(r) \/ Defer(r) \/ Attempt(r)
    PROVE  IInv' /\ UNCHANGED Outcomes
<1>1. PICK e \in jobs[r].pending, pc \in {"park", "next", "sending"} : Takes(r, e, pc)
  BY DEF GiveUp, Defer, Attempt, Oldest
<1> DEFINE j == [jobs[r] EXCEPT !.pc = pc, !.msg = e[1], !.pending = @ \ {e}]
<1>2. r \in Actors /\ jobs[r] \in JobType /\ JobOK(r, jobs[r])
  BY DEF IInv, TypeOK, JobType, Actors
<1>3. e[1] \in Messages /\ e[1] \in accepted
  BY <1>2 DEF JobType, JobOK, HoldsAccepted
<1>4. j \in JobType /\ jobs' = [jobs EXCEPT ![r] = j]
  <2>1. pc \in Pcs /\ e[1] \in 0..N
    BY <1>3, DeliveryAssumption DEF Pcs, Messages
  <2>2. jobs[r].pending \ {e} \in SUBSET (Messages \X (Entry \ {NoEntry}))
    BY <1>2 DEF JobType
  <2>3. j \in JobType
    BY <1>2, <2>1, <2>2 DEF JobType
  <2>4. jobs' = [jobs EXCEPT ![r] = j]
    BY <1>1, <1>2 DEF Takes, JobType
  <2> QED
    BY <2>3, <2>4
<1>5. /\ j.pc = pc /\ j.msg = e[1] /\ j.names = jobs[r].names
      /\ j.pending \subseteq jobs[r].pending
  BY <1>2 DEF JobType
<1> HIDE DEF j
<1>6. JobOK(r, j)
  BY <1>2, <1>3, <1>5, DeliveryAssumption
     DEF JobOK, HoldsOwn, HoldsAccepted, Acknowledges, Counts
<1> QED
  BY <1>2, <1>4, <1>6, MoveStep DEF GiveUp, Defer, Attempt

LEMMA IdleFits ==
    \A a \in Actors : Idle \in JobType /\ JobOK(a, Idle)
                      /\ Idle.pc = "idle" /\ [Idle EXCEPT !.pc = "scan"] \in JobType
  BY DeliveryAssumption, EntriesDiffer
     DEF Idle, JobType, Pcs, JobOK, HoldsOwn, HoldsAccepted, Acknowledges, Counts, Holding

LEMMA EndStep ==
    ASSUME IInv, NEW r \in Recoveries, EndRecovery(r) \/ Restart(r)
    PROVE  IInv' /\ UNCHANGED Outcomes
<1>1. CASE EndRecovery(r)
  BY <1>1, IdleFits, MoveStep DEF EndRecovery, Actors
<1>2. CASE Restart(r)
  BY <1>2, GoesStep DEF Restart, Pcs, Holding, Actors
<1> QED
  BY <1>1, <1>2

-----------------------------------------------------------------------------
\* A message moves on in the contract when its outcome does.
LEMMA ContractStep ==
    ASSUME NEW m \in Firm,
           \A n \in Firm \ {m} : Outcome(n)' = Outcome(n),
           \/ Outcome(m)' = Outcome(m)
           \/ Outcome(m) = "new" /\ Outcome(m)' = "owed"
           \/ Outcome(m) = "owed" /\ Outcome(m)' \in {"received", "withdrawn", "parked"}
           \/ Outcome(m) \in {"withdrawn", "parked"} /\ Outcome(m)' = "received"
           \/ Outcome(m) = "parked" /\ Outcome(m)' = "withdrawn"
    PROVE  [Contract!Next]_Outcomes
<1>1. Outcomes[m] = Outcome(m) /\ Outcomes'[m] = Outcome(m)'
  BY DEF Outcomes
<1>2. Outcomes' = [Outcomes EXCEPT ![m] = Outcome(m)']
  BY DEF Outcomes
<1>3. CASE Outcome(m)' = Outcome(m)
  BY <1>3 DEF Outcomes
<1>4. CASE Outcome(m) = "new" /\ Outcome(m)' = "owed"
  BY <1>1, <1>2, <1>4 DEF Contract!Next, Contract!Accept, Outcomes
<1>5. CASE Outcome(m) = "owed" /\ Outcome(m)' \in {"received", "withdrawn", "parked"}
  BY <1>1, <1>2, <1>5 DEF Contract!Next, Contract!Settle, Outcomes
<1>6. CASE Outcome(m) \in {"withdrawn", "parked"} /\ Outcome(m)' = "received"
  BY <1>1, <1>2, <1>6 DEF Contract!Next, Contract!LateReceive, Outcomes
<1>7. CASE Outcome(m) = "parked" /\ Outcome(m)' = "withdrawn"
  BY <1>1, <1>2, <1>7 DEF Contract!Next, Contract!LateWithdraw, Outcomes
<1> QED
  BY <1>3, <1>4, <1>5, <1>6, <1>7

\* What an actor holds stays in order when the sets it rests on only grow.
LEMMA JobsStep ==
    ASSUME IInv, NEW a \in Actors, NEW j \in JobType, JobOK(a, j)',
           jobs' = [jobs EXCEPT ![a] = j],
           accepted \subseteq accepted', withdrawn \subseteq withdrawn',
           \A m \in Messages : received[m] > 0 => received'[m] > 0
    PROVE  /\ jobs' \in [Actors -> JobType]
           /\ \A b \in Actors : JobOK(b, jobs[b])'
           /\ \A b \in Actors \ {a} : jobs'[b] = jobs[b]
           /\ jobs'[a] = j
<1>1. jobs' \in [Actors -> JobType] /\ jobs'[a] = j
  BY DEF IInv, TypeOK, JobType
<1>2. \A b \in Actors : b # a => jobs'[b] = jobs[b]
  BY DEF IInv, TypeOK
<1>3. ASSUME NEW b \in Actors, b # a PROVE JobOK(b, jobs[b])'
  <2>1. JobOK(b, jobs[b]) /\ jobs'[b] = jobs[b]
    BY <1>2, <1>3 DEF IInv
  <2> QED
    BY <2>1 DEF JobOK, HoldsOwn, HoldsAccepted, Acknowledges, Counts, Firm
<1> QED
  BY <1>1, <1>2, <1>3

\* A write-ahead makes a new message owed; without one it stays unknown.
LEMMA EnqueueStep ==
    ASSUME IInv, NEW m \in Messages, Enqueue(m)
    PROVE  IInv' /\ [Contract!Next]_Outcomes
<1>1. m \in Actors /\ jobs[m] \in JobType /\ JobOK(m, jobs[m]) /\ jobs[m].pc = "idle"
  BY DEF IInv, TypeOK, JobType, Actors, Enqueue
<1>2. received[m] = 0 /\ m \notin accepted
  BY <1>1 DEF IInv, Untouched
<1>3. PICK pc \in {"sending", "unlogged"} :
        /\ jobs' = [jobs EXCEPT ![m].pc = pc, ![m].msg = m]
        /\ IF pc = "sending" THEN /\ json' = [json EXCEPT ![m] = Written]
                                  /\ accepted' = accepted \cup {m}
                             ELSE UNCHANGED <<json, accepted>>
  BY DEF Enqueue
<1>4. /\ UNCHANGED <<marker, parked, received, withdrawn, acked, crashes>>
      /\ bestEffort' \subseteq BestEffort
  BY DEF Enqueue, IInv, TypeOK
<1>5. pc \in Pcs /\ m \in 0..N
  BY DeliveryAssumption DEF Pcs, Messages
<1>6. PICK j \in JobType :
        /\ jobs' = [jobs EXCEPT ![m] = j]
        /\ j.pc = pc /\ j.msg = m /\ j.read = jobs[m].read
        /\ j.names = jobs[m].names /\ j.pending = jobs[m].pending
  <2> DEFINE j == [jobs[m] EXCEPT !.pc = pc, !.msg = m]
  <2>1. j \in JobType /\ jobs' = [jobs EXCEPT ![m] = j]
    BY <1>1, <1>3, <1>5 DEF JobType
  <2> QED
    BY <1>1, <2>1 DEF JobType
<1>7. JobOK(m, j)'
  BY <1>1, <1>3, <1>6, DeliveryAssumption
     DEF JobOK, HoldsOwn, HoldsAccepted, Acknowledges, Counts, Holding
<1>8. /\ jobs' \in [Actors -> JobType]
      /\ \A b \in Actors : JobOK(b, jobs[b])'
      /\ \A b \in Actors \ {m} : jobs'[b] = jobs[b]
      /\ jobs'[m] = j
  BY <1>1, <1>3, <1>4, <1>6, <1>7, JobsStep
<1>9. /\ json \in [Messages -> Entry] /\ json' \in [Messages -> Entry]
      /\ \A n \in Messages \ {m} : json'[n] = json[n]
      /\ pc = "sending" => json'[m] = Written
  BY <1>3, EntriesDiffer DEF IInv, TypeOK
<1>10. TypeOK'
  BY <1>3, <1>4, <1>8, <1>9 DEF IInv, TypeOK, JobType
<1>11. AcceptedFirst' /\ Accounted' /\ Untouched'
  BY <1>3, <1>4, <1>6, <1>8, <1>9, EntriesDiffer
     DEF IInv, AcceptedFirst, Accounted, OnDisk, Untouched, Actors
<1>12. IInv'
  BY <1>8, <1>10, <1>11 DEF IInv
<1>13. [Contract!Next]_Outcomes
  <2>1. CASE pc = "unlogged"
    BY <1>3, <1>4, <1>12, <2>1, OutcomesKept DEF OutcomeFields
  <2>2. CASE pc = "sending" /\ m \in Firm
    <3>1. \A n \in Firm \ {m} : Outcome(n)' = Outcome(n)
      BY <1>3, <1>4, <1>9, <2>2 DEF Outcome, OnDisk, Firm
    <3>2. Outcome(m) = "new"
      BY <1>2 DEF Outcome
    <3>3. Outcome(m)' = "owed"
      BY <1>2, <1>3, <1>4, <1>9, <2>2, EntriesDiffer
         DEF Outcome, OnDisk, IInv, TypeOK, AcceptedFirst
    <3> QED
      BY <2>2, <3>1, <3>2, <3>3, ContractStep
  <2>3. CASE pc = "sending" /\ m \notin Firm
    <3>1. \A n \in Firm : Outcome(n)' = Outcome(n)
      BY <1>3, <1>4, <1>9, <2>3 DEF Outcome, OnDisk, Firm
    <3> QED
      BY <3>1 DEF Outcomes
  <2> QED
    BY <2>1, <2>2, <2>3
<1> QED
  BY <1>12, <1>13

\* What a change of place alone leaves to show of the jobs.
LEMMA GoesJobs ==
    ASSUME IInv, NEW a \in Actors, NEW pc \in Pcs \ {"idle", "unlogged", "write"},
           Goes(a, pc), jobs[a].pc # "idle",
           pc \in Holding => jobs[a].pc \in Holding,
           accepted' = accepted, withdrawn \subseteq withdrawn',
           \A m \in Messages : received[m] > 0 => received'[m] > 0,
           pc = "ack" => received'[jobs[a].msg] > 0 \/ jobs[a].msg \in withdrawn'
    PROVE  /\ jobs' \in [Actors -> JobType]
           /\ \A b \in Actors : JobOK(b, jobs[b])'
           /\ \A m \in Messages : jobs'[m].pc = "idle" => jobs[m].pc = "idle" /\ m # a
<1>1. jobs[a] \in JobType /\ JobOK(a, jobs[a])
  BY DEF IInv, TypeOK, JobType
<1>2. PICK j \in JobType :
        /\ jobs' = [jobs EXCEPT ![a] = j]
        /\ j.pc = pc /\ j.msg = jobs[a].msg /\ j.read = jobs[a].read
        /\ j.names = jobs[a].names /\ j.pending = jobs[a].pending
  <2> DEFINE j == [jobs[a] EXCEPT !.pc = pc]
  <2>1. j \in JobType /\ jobs' = [jobs EXCEPT ![a] = j]
    BY <1>1 DEF Goes, JobType
  <2> QED
    BY <1>1, <2>1 DEF JobType
<1>3. JobOK(a, j)'
  BY <1>1, <1>2 DEF JobOK, HoldsOwn, HoldsAccepted, Acknowledges, Counts, Holding
<1>4. /\ jobs' \in [Actors -> JobType]
      /\ \A b \in Actors : JobOK(b, jobs[b])'
      /\ \A b \in Actors \ {a} : jobs'[b] = jobs[b]
      /\ jobs'[a] = j
  BY <1>2, <1>3, JobsStep
<1> QED
  BY <1>2, <1>4 DEF Actors

\* The message a sender holds: its own, or one that was accepted.
LEMMA HeldMessage ==
    ASSUME IInv, NEW a \in Actors, jobs[a].pc \in Holding \cup {"unlogged"}
    PROVE  /\ jobs[a].msg \in Messages
           /\ jobs[jobs[a].msg].pc # "idle"
           /\ jobs[a].pc \in Holding => jobs[a].msg \in accepted
<1>1. JobOK(a, jobs[a])
  BY DEF IInv
<1>2. CASE jobs[a].pc \in Holding
  BY <1>1, <1>2 DEF JobOK, HoldsAccepted, IInv, TypeOK, Untouched
<1>3. CASE jobs[a].pc = "unlogged"
  BY <1>1, <1>3 DEF JobOK, HoldsOwn, Actors, Holding
<1> QED
  BY <1>2, <1>3

\* The channel takes a message.
LEMMA ReceivedStep ==
    ASSUME IInv, NEW a \in Actors, Received(a)
    PROVE  IInv' /\ [Contract!Next]_Outcomes
<1>0. PICK m \in Messages : m = jobs[a].msg /\ jobs[m].pc # "idle"
  BY HeldMessage DEF Received, Holding
<1>1. PICK pc \in {"ack", "done"} :
        Goes(a, pc) /\ (pc = "ack" => jobs[a].pc = "sending")
  BY DEF Received
<1>2. /\ jobs[a].pc \in {"sending", "unlogged"}
      /\ UNCHANGED <<json, marker, parked, withdrawn, accepted, acked, bestEffort, crashes>>
      /\ received' = [received EXCEPT ![m] = IF @ = 2 THEN 2 ELSE @ + 1]
  BY <1>0 DEF Received
<1>3. /\ received' \in [Messages -> 0..2] /\ received'[m] > 0
      /\ \A n \in Messages \ {m} : received'[n] = received[n]
  BY <1>2 DEF IInv, TypeOK
<1>4. /\ jobs' \in [Actors -> JobType]
      /\ \A b \in Actors : JobOK(b, jobs[b])'
      /\ \A n \in Messages : jobs'[n].pc = "idle" => jobs[n].pc = "idle" /\ n # a
  <2>1. \A n \in Messages : received[n] > 0 => received'[n] > 0
    BY <1>3
  <2> QED
    BY <1>0, <1>1, <1>2, <1>3, <2>1, GoesJobs DEF Pcs, Holding
<1>5. TypeOK'
  BY <1>2, <1>3, <1>4 DEF IInv, TypeOK, JobType
<1>6. Untouched' /\ AcceptedFirst' /\ Accounted'
  BY <1>0, <1>2, <1>3, <1>4
     DEF IInv, Untouched, AcceptedFirst, Accounted, OnDisk, Firm
<1>7. IInv'
  BY <1>4, <1>5, <1>6 DEF IInv
<1>8. \A n \in Firm \ {m} : Outcome(n)' = Outcome(n)
  BY <1>2, <1>3 DEF Outcome, OnDisk, Firm
<1>9. CASE m \in Firm
  <2>1. Outcome(m)' = IF m \in accepted THEN "received" ELSE "new"
    BY <1>2, <1>3 DEF Outcome
  <2>2. Outcome(m) \in IF m \in accepted
                       THEN {"received", "withdrawn", "parked", "owed"} ELSE {"new"}
    BY <1>9 DEF Outcome, IInv, Accounted
  <2> QED
    BY <1>7, <1>8, <1>9, <2>1, <2>2, ContractStep
<1>10. CASE m \notin Firm
  BY <1>7, <1>8, <1>10 DEF Outcomes
<1> QED
  BY <1>9, <1>10

\* A send is aborted or cancelled.
LEMMA WithdrawnStep ==
    ASSUME IInv, NEW a \in Actors, SendWithdrawn(a)
    PROVE  IInv' /\ [Contract!Next]_Outcomes
<1>0. PICK m \in Messages : m = jobs[a].msg /\ jobs[m].pc # "idle" /\ m \in accepted
  BY HeldMessage DEF SendWithdrawn, Holding
<1>1. /\ jobs[a].pc = "sending"
      /\ withdrawn' = withdrawn \cup {m} /\ Goes(a, "ack")
      /\ UNCHANGED <<json, marker, parked, received, accepted, acked, bestEffort, crashes>>
  BY <1>0 DEF SendWithdrawn
<1>2. /\ jobs' \in [Actors -> JobType]
      /\ \A b \in Actors : JobOK(b, jobs[b])'
      /\ \A n \in Messages : jobs'[n].pc = "idle" => jobs[n].pc = "idle" /\ n # a
  BY <1>0, <1>1, GoesJobs DEF Pcs, Holding
<1>3. TypeOK'
  BY <1>0, <1>1, <1>2 DEF IInv, TypeOK, JobType
<1>4. Untouched' /\ AcceptedFirst' /\ Accounted'
  BY <1>0, <1>1, <1>2 DEF IInv, Untouched, AcceptedFirst, Accounted, OnDisk
<1>5. IInv'
  BY <1>2, <1>3, <1>4 DEF IInv
<1>6. \A n \in Firm \ {m} : Outcome(n)' = Outcome(n)
  BY <1>1 DEF Outcome, OnDisk, Firm
<1>7. CASE m \in Firm
  <2>1. Outcome(m)' = IF received[m] > 0 THEN "received" ELSE "withdrawn"
    BY <1>0, <1>1 DEF Outcome
  <2>2. IF received[m] > 0 THEN Outcome(m) = "received"
        ELSE Outcome(m) \in {"withdrawn", "parked", "owed"}
    BY <1>0, <1>7 DEF Outcome, IInv, Accounted
  <2> QED
    BY <1>5, <1>6, <1>7, <2>1, <2>2, ContractStep
<1>8. CASE m \notin Firm
  BY <1>5, <1>6, <1>8 DEF Outcomes
<1> QED
  BY <1>7, <1>8

\* The rename takes the file of a message that was settled before.
LEMMA AckRenameStep ==
    ASSUME IInv, NEW a \in Actors, AckRename(a)
    PROVE  IInv' /\ UNCHANGED Outcomes
<1>1. PICK m \in Messages :
        /\ m = jobs[a].msg /\ m \in accepted
        /\ m \in Firm => received[m] > 0 \/ m \in withdrawn
  BY HeldMessage DEF AckRename, Holding, IInv, JobOK, Acknowledges
<1>2. CASE m \in OnDisk
  <2>1. /\ json' = [json EXCEPT ![m] = NoEntry] /\ marker' = marker \cup {m}
        /\ acked' = acked \cup {m} /\ Goes(a, "unlink") /\ jobs[a].pc = "ack"
        /\ UNCHANGED <<parked, received, withdrawn, accepted, bestEffort, crashes>>
    BY <1>1, <1>2 DEF AckRename
  <2>2. /\ jobs' \in [Actors -> JobType]
        /\ \A b \in Actors : JobOK(b, jobs[b])'
        /\ \A n \in Messages : jobs'[n].pc = "idle" => jobs[n].pc = "idle" /\ n # a
    BY <2>1, GoesJobs DEF Pcs, Holding
  <2>3. TypeOK'
    BY <1>1, <2>1, <2>2, EntriesDiffer DEF IInv, TypeOK, JobType
  <2>4. Untouched' /\ AcceptedFirst' /\ Accounted'
    BY <1>1, <2>1, <2>2 DEF IInv, TypeOK, Untouched, AcceptedFirst, Accounted, OnDisk
  <2>5. IInv'
    BY <2>2, <2>3, <2>4 DEF IInv
  <2> QED
    BY <2>1, <2>5, OutcomesKept DEF OutcomeFields
<1>3. CASE m \notin OnDisk
  <2>1. PICK pc \in {"done", "next"} : Goes(a, pc)
    BY <1>1, <1>3 DEF AckRename, Next1
  <2> QED
    BY <1>1, <1>3, <2>1, GoesStep DEF AckRename, Pcs, Holding
<1> QED
  BY <1>2, <1>3

\* failDelivery writes the file of a message that was accepted.
LEMMA FailWriteStep ==
    ASSUME IInv, NEW a \in Actors, FailWrite(a)
    PROVE  IInv' /\ UNCHANGED Outcomes
<1>1. PICK m \in Messages : m = jobs[a].msg /\ m \in accepted
  BY HeldMessage DEF FailWrite, Holding
<1>2. /\ jobs[a] \in JobType /\ JobOK(a, jobs[a]) /\ jobs[a].pc = "write"
      /\ jobs[a].read \in Entry \ {NoEntry}
  BY DEF IInv, TypeOK, JobType, JobOK, Counts, FailWrite
<1>3. PICK pc \in {"done", "next"} :
        jobs' = [jobs EXCEPT ![a].pc = pc, ![a].read = NoEntry]
  BY DEF FailWrite, Next1
<1>4. PICK e \in Entry \ {NoEntry} : json' = [json EXCEPT ![m] = e]
  BY <1>1, <1>2, EntriesDiffer DEF FailWrite
<1>5. UNCHANGED <<marker, parked, received, withdrawn, accepted, acked, bestEffort, crashes>>
  BY DEF FailWrite
<1>6. PICK j \in JobType :
        /\ jobs' = [jobs EXCEPT ![a] = j]
        /\ j.pc = pc /\ j.msg = jobs[a].msg /\ j.read = NoEntry
        /\ j.names = jobs[a].names /\ j.pending = jobs[a].pending
  <2> DEFINE j == [jobs[a] EXCEPT !.pc = pc, !.read = NoEntry]
  <2>1. j \in JobType /\ jobs' = [jobs EXCEPT ![a] = j]
    BY <1>2, <1>3, EntriesDiffer DEF JobType, Pcs
  <2> QED
    BY <1>2, <2>1 DEF JobType
<1>7. JobOK(a, j)'
  BY <1>2, <1>5, <1>6 DEF JobOK, HoldsOwn, HoldsAccepted, Acknowledges, Counts, Holding
<1>8. /\ jobs' \in [Actors -> JobType]
      /\ \A b \in Actors : JobOK(b, jobs[b])'
      /\ \A b \in Actors \ {a} : jobs'[b] = jobs[b]
      /\ jobs'[a] = j
  BY <1>5, <1>6, <1>7, JobsStep
<1>9. TypeOK'
  BY <1>4, <1>5, <1>8 DEF IInv, TypeOK, JobType
<1>10. Untouched' /\ AcceptedFirst' /\ Accounted'
  BY <1>1, <1>4, <1>5, <1>6, <1>8
     DEF IInv, TypeOK, Untouched, AcceptedFirst, Accounted, OnDisk, Actors
<1>11. IInv'
  BY <1>8, <1>9, <1>10 DEF IInv
<1> QED
  BY <1>5, <1>11, OutcomesKept DEF OutcomeFields

\* A message given up is settled by the move to failed/.
LEMMA ParkStep ==
    ASSUME IInv, NEW r \in Recoveries, Park(r)
    PROVE  IInv' /\ [Contract!Next]_Outcomes
<1>1. r \in Actors /\ jobs[r].pc = "park" /\ Goes(r, "next")
  BY DEF Park, Actors
<1>2. PICK m \in Messages : m = jobs[r].msg /\ m \in accepted
  BY <1>1, HeldMessage DEF Holding
<1>3. CASE m \in OnDisk
  <2>1. /\ parked' = parked \cup {m} /\ json' = [json EXCEPT ![m] = NoEntry]
        /\ UNCHANGED <<marker, received, withdrawn, accepted, acked, bestEffort, crashes>>
    BY <1>2, <1>3 DEF Park
  <2>2. /\ jobs' \in [Actors -> JobType]
        /\ \A b \in Actors : JobOK(b, jobs[b])'
        /\ \A n \in Messages : jobs'[n].pc = "idle" => jobs[n].pc = "idle" /\ n # r
    BY <1>1, <2>1, GoesJobs DEF Pcs, Holding
  <2>3. TypeOK'
    BY <1>2, <2>1, <2>2, EntriesDiffer DEF IInv, TypeOK, JobType
  <2>4. Untouched' /\ AcceptedFirst' /\ Accounted'
    BY <1>2, <2>1, <2>2 DEF IInv, TypeOK, Untouched, AcceptedFirst, Accounted, OnDisk
  <2>5. IInv'
    BY <2>2, <2>3, <2>4 DEF IInv
  <2>6. \A n \in Firm \ {m} : Outcome(n)' = Outcome(n)
    BY <2>1 DEF Outcome, OnDisk, Firm, IInv, TypeOK
  <2>7. CASE m \in Firm
    <3>1. Outcome(m)' = IF received[m] > 0 THEN "received"
                        ELSE IF m \in withdrawn THEN "withdrawn" ELSE "parked"
      BY <1>2, <2>1 DEF Outcome
    <3>2. Outcome(m) = IF received[m] > 0 THEN "received"
                       ELSE IF m \in withdrawn THEN "withdrawn"
                       ELSE IF m \in parked THEN "parked" ELSE "owed"
      BY <1>2, <1>3 DEF Outcome
    <3> QED
      BY <2>5, <2>6, <2>7, <3>1, <3>2, ContractStep
  <2>8. CASE m \notin Firm
    BY <2>5, <2>6, <2>8 DEF Outcomes
  <2> QED
    BY <2>7, <2>8
<1>4. CASE m \notin OnDisk
  BY <1>1, <1>2, <1>4, GoesStep DEF Park, Pcs, Holding
<1> QED
  BY <1>3, <1>4

\* A crash leaves the files, and actors with nothing in their hands.
LEMMA CrashStep ==
    ASSUME IInv, Crash
    PROVE  IInv' /\ UNCHANGED Outcomes
<1>1. UNCHANGED <<json, marker, parked, received, withdrawn, accepted, acked, bestEffort>>
      /\ crashes' \in 0..MaxCrashes
  BY DeliveryAssumption DEF Crash, IInv, TypeOK
<1>2. PICK r \in Recoveries :
        jobs' = [a \in Actors |->
             IF a = r THEN [Idle EXCEPT !.pc = "scan"]
             ELSE IF a \in Messages /\ jobs[a].pc # "idle" THEN [Idle EXCEPT !.pc = "done"]
             ELSE Idle]
  BY DEF Crash
<1>3. \A pc \in {"idle", "scan", "done"}, a \in Actors :
        /\ [Idle EXCEPT !.pc = pc] \in JobType
        /\ [Idle EXCEPT !.pc = pc].pc = pc
        /\ JobOK(a, [Idle EXCEPT !.pc = pc])'
  BY DeliveryAssumption, EntriesDiffer
     DEF Idle, JobType, Pcs, JobOK, HoldsOwn, HoldsAccepted, Acknowledges, Counts, Holding
<1>4. Idle = [Idle EXCEPT !.pc = "idle"]
  BY DEF Idle
<1>5. \A a \in Actors : \E pc \in {"idle", "scan", "done"} :
        /\ jobs'[a] = [Idle EXCEPT !.pc = pc]
        /\ a \in Messages /\ pc = "idle" => jobs[a].pc = "idle"
  BY <1>2, <1>4
<1>6. jobs' \in [Actors -> JobType] /\ \A a \in Actors : JobOK(a, jobs[a])'
  BY <1>2, <1>3, <1>5
<1>7. TypeOK'
  BY <1>1, <1>6 DEF IInv, TypeOK, JobType
<1>8. Untouched' /\ AcceptedFirst' /\ Accounted'
  BY <1>1, <1>3, <1>5 DEF IInv, Untouched, AcceptedFirst, Accounted, OnDisk, Actors
<1>9. IInv'
  BY <1>6, <1>7, <1>8 DEF IInv
<1> QED
  BY <1>1, <1>9, OutcomesKept DEF OutcomeFields

LEMMA NextStep ==
    ASSUME IInv, [Next]_vars
    PROVE  IInv' /\ [Contract!Next]_Outcomes
<1>1. ASSUME NEW m \in Messages, Enqueue(m)
      PROVE  IInv' /\ [Contract!Next]_Outcomes
  BY <1>1, EnqueueStep
<1>2. ASSUME NEW a \in Actors, Send(a) \/ Settles(a)
      PROVE  IInv' /\ [Contract!Next]_Outcomes
  BY <1>2, ReceivedStep, WithdrawnStep, SenderMoves, AckRenameStep, FailReadStep,
     FailWriteStep
     DEF Send, Settles
<1>3. ASSUME NEW r \in Recoveries, Recover(r) \/ Attempt(r) \/ Restart(r)
      PROVE  IInv' /\ [Contract!Next]_Outcomes
  BY <1>3, LoadStep, TakeStep, EndStep, ParkStep DEF Recover
<1>4. CASE UNCHANGED vars
  <2>1. TypeOK' /\ Untouched' /\ AcceptedFirst' /\ Accounted'
    BY <1>4 DEF vars, IInv, TypeOK, Untouched, AcceptedFirst, Accounted, OnDisk
  <2>2. \A a \in Actors : JobOK(a, jobs[a])'
    BY <1>4 DEF vars, IInv, JobOK, HoldsOwn, HoldsAccepted, Acknowledges, Counts
  <2>3. IInv'
    BY <2>1, <2>2 DEF IInv
  <2> QED
    BY <1>4, <2>3, OutcomesKept DEF vars, OutcomeFields
<1> QED
  BY <1>1, <1>2, <1>3, <1>4, CrashStep DEF Next

LEMMA InitHolds ==
    ASSUME Init
    PROVE  IInv /\ Outcomes = [m \in Firm |-> "new"]
<1>1. PICK r \in Recoveries :
        jobs = [a \in Actors |-> IF a = r THEN [Idle EXCEPT !.pc = "scan"] ELSE Idle]
  BY DEF Init
<1>2. \A pc \in {"idle", "scan"}, a \in Actors :
        /\ [Idle EXCEPT !.pc = pc] \in JobType
        /\ JobOK(a, [Idle EXCEPT !.pc = pc])
  BY DeliveryAssumption, EntriesDiffer
     DEF Idle, JobType, Pcs, JobOK, HoldsOwn, HoldsAccepted, Acknowledges, Counts, Holding
<1>3. Idle = [Idle EXCEPT !.pc = "idle"]
  BY DEF Idle
<1>4. jobs \in [Actors -> JobType] /\ \A a \in Actors : JobOK(a, jobs[a])
  BY <1>1, <1>2, <1>3
<1>5. TypeOK
  BY <1>4, DeliveryAssumption, EntriesDiffer DEF Init, TypeOK, JobType
<1>6. Untouched /\ AcceptedFirst /\ Accounted
  BY DEF Init, Untouched, AcceptedFirst, Accounted, OnDisk
<1> QED
  BY <1>4, <1>5, <1>6 DEF IInv, Init, Outcomes, Outcome

-----------------------------------------------------------------------------
\* Files, retry counts and what senders hold keep their types: in particular
\* failDelivery never counts up an entry that is not there, and a marker, a
\* parked or an acknowledged message was accepted before.
THEOREM TypeCorrect == Spec => []TypeOK
<1>1. Init => IInv
  BY InitHolds
<1>2. IInv /\ [Next]_vars => IInv'
  BY NextStep
<1>3. IInv => TypeOK
  BY DEF IInv
<1> QED
  BY <1>1, <1>2, <1>3, PTL DEF Spec

\* The queue implements its contract: over any number of crashes, restarts
\* and overlapping recoveries, a message that was written to disk stays owed
\* until it is received, withdrawn or parked in failed/.
THEOREM ContractKept == Spec => KeepsContract
<1>1. Init => IInv /\ Contract!Init
  BY InitHolds DEF Contract!Init, Outcomes
<1>2. IInv /\ [Next]_vars
        => IInv' /\ [Contract!Next]_[m \in Firm |-> Outcome(m)]
  BY NextStep DEF Outcomes
<1>3. Spec => Contract!Spec
  BY <1>1, <1>2, PTL DEF Spec, Contract!Spec
<1> QED
  BY <1>3 DEF KeepsContract

\* An acknowledged entry comes back only through a failDelivery under way.
ComesBack ==
    \A m \in Messages : m \in acked /\ json'[m] # NoEntry =>
      Writing(m) \/ json[m] # NoEntry

LEMMA ComesBackStep ==
    ASSUME IInv, [Next]_vars
    PROVE  ComesBack
<1>1. ASSUME NEW n \in Messages, Enqueue(n) PROVE ComesBack
  <2>1. n \notin acked
    BY <1>1 DEF Enqueue, IInv, Untouched, TypeOK
  <2>2. json \in [Messages -> Entry] /\ \A m \in Messages \ {n} : json'[m] = json[m]
    BY <1>1 DEF Enqueue, IInv, TypeOK
  <2> QED
    BY <2>1, <2>2 DEF ComesBack
<1>2. ASSUME NEW a \in Actors, Send(a) PROVE ComesBack
  BY <1>2 DEF Send, Received, SendThrows, SendSwallows, SendWithdrawn,
                SendTimesOut, ComesBack
<1>3. ASSUME NEW a \in Actors, FailWrite(a) PROVE ComesBack
  BY <1>3 DEF FailWrite, IInv, TypeOK, ComesBack, Writing
<1>4. ASSUME NEW a \in Actors, AckRename(a) \/ AckUnlink(a) \/ FailRead(a) PROVE ComesBack
  BY <1>4 DEF AckRename, AckUnlink, FailRead, IInv, TypeOK, ComesBack
<1>5. ASSUME NEW r \in Recoveries, Recover(r) \/ Attempt(r) \/ Restart(r) PROVE ComesBack
  BY <1>5 DEF Recover, Scan, Load, Loaded, GiveUp, Defer, EndRecovery, Park, Attempt,
              Restart, IInv, TypeOK, ComesBack
<1>6. CASE Crash \/ UNCHANGED vars
  BY <1>6 DEF Crash, vars, ComesBack
<1> QED
  BY <1>1, <1>2, <1>3, <1>4, <1>5, <1>6 DEF Next, Settles

\* Whatever the interleaving, only a read-modify-write that began before the
\* acknowledgement brings an acknowledged entry back.
THEOREM AckedGone == Spec => AckedStaysGone
<1>1. Init => IInv
  BY InitHolds
<1>2. IInv /\ [Next]_vars => IInv' /\ ComesBack
  BY NextStep, ComesBackStep
<1>3. ComesBack => [ComesBack]_json
  OBVIOUS
<1>4. Spec => [][ComesBack]_json
  BY <1>1, <1>2, <1>3, PTL DEF Spec
<1> QED
  BY <1>4 DEF AckedStaysGone, ComesBack

-----------------------------------------------------------------------------
\* Retries are bounded when recoveries do not overlap.  The live sender of a
\* message counts one failure, at any time; until it has, the count must leave
\* room for it.
Counting(m) == jobs[m].pc \in {"sending", "read", "write"}

Top(m) == IF Counting(m) THEN MaxRetries ELSE MaxRetries + 1

Count(m) == json[m].retryCount

\* A recovery that is going to count a failure of a message, or may choose to.
Stakes(r, m) ==
    \/ jobs[r].pc \in {"sending", "read"} /\ jobs[r].msg = m
    \/ \E e \in jobs[r].pending : e[1] = m /\ e[2].retryCount < MaxRetries

Rewrites(a, m) == jobs[a].pc = "write" /\ jobs[a].msg = m

\* A recovery has each message on its list at most once.
ListedOnce(r) ==
    /\ \A e \in jobs[r].pending :
         /\ e[1] \notin jobs[r].names
         /\ jobs[r].pc \in Holding => e[1] # jobs[r].msg
         /\ \A f \in jobs[r].pending : e[1] = f[1] => e = f
    /\ jobs[r].pc # "load" => jobs[r].names = {}
    /\ jobs[r].pc \in {"idle", "scan"} => jobs[r].pending = {}

RoomLeft(m) ==
    /\ Count(m) <= Top(m)
    /\ \A r \in Recoveries :
         /\ Stakes(r, m) => Count(m) < Top(m)
         /\ Rewrites(r, m) => jobs[r].read.retryCount < Top(m)
         /\ Rewrites(r, m) /\ Counting(m) => jobs[r].read = json[m]
         /\ Rewrites(m, m) /\ Stakes(r, m) => jobs[m].read.retryCount < MaxRetries
    /\ Rewrites(m, m) =>
         /\ jobs[m].read.retryCount <= MaxRetries
         /\ m \in OnDisk => jobs[m].read.retryCount <= Count(m)

RInv ==
    /\ IInv
    /\ \A r \in Recoveries : ListedOnce(r)
    /\ \A m \in Messages : RoomLeft(m)

LEMMA CountsAreIntegers ==
    ASSUME IInv
    PROVE  /\ \A m \in Messages : Count(m) \in Int /\ json[m] \in Entry
           /\ \A a \in Actors : jobs[a].read.retryCount \in Int
           /\ MaxRetries \in Nat /\ NoEntry.retryCount = -1
<1>1. ASSUME NEW e \in Entry PROVE e.retryCount \in Int
  <2>1. CASE e = NoEntry
    BY <2>1 DEF NoEntry
  <2>2. CASE e \in Entry \ {NoEntry}
    <3>1. e.retryCount \in Nat
      BY <2>2, EntriesDiffer
    <3> QED
      BY <3>1
  <2> QED
    BY <2>1, <2>2
<1> QED
  BY <1>1, DeliveryAssumption, EntriesDiffer DEF IInv, TypeOK, Count

\* Steps that begin no count and no rewrite leave room as it was; so does the
\* removal of the file, if no recovery is rewriting it beside its sender.
LEMMA RoomKept ==
    ASSUME IInv, IInv', NEW m \in Messages, RoomLeft(m),
           \/ json'[m] = json[m]
           \/ /\ json'[m] = NoEntry
              /\ \A r \in Recoveries : ~(Rewrites(r, m)' /\ Counting(m)'),
           Counting(m)' => Counting(m),
           Rewrites(m, m)' => Rewrites(m, m) /\ jobs'[m].read = jobs[m].read,
           \A r \in Recoveries :
             /\ Stakes(r, m)' => Stakes(r, m)
             /\ Rewrites(r, m)' => Rewrites(r, m) /\ jobs'[r].read = jobs[r].read
    PROVE  RoomLeft(m)'
<1>1. /\ Count(m) \in Int /\ MaxRetries \in Nat
      /\ \A r \in Recoveries : jobs[r].read.retryCount \in Int
      /\ Count(m)' = Count(m) \/ (Count(m)' = -1 /\ m \notin OnDisk')
      /\ m \in OnDisk' => m \in OnDisk
  BY CountsAreIntegers DEF Count, OnDisk, Actors
<1>2. Top(m) \in Int /\ Top(m)' \in Int /\ Top(m) <= Top(m)' /\ 0 <= Top(m)
  BY <1>1 DEF Top
<1>3. Count(m)' <= Top(m)'
  BY <1>1, <1>2 DEF RoomLeft
<1>4. ASSUME NEW r \in Recoveries
      PROVE  /\ Stakes(r, m)' => Count(m)' < Top(m)'
             /\ Rewrites(r, m)' => jobs'[r].read.retryCount < Top(m)'
             /\ Rewrites(m, m)' /\ Stakes(r, m)' => jobs'[m].read.retryCount < MaxRetries
  <2>1. jobs[r].read.retryCount \in Int
    BY <1>1
  <2>2. Stakes(r, m)' => Count(m)' < Top(m)'
    BY <1>1, <1>2 DEF RoomLeft
  <2> QED
    BY <1>2, <2>1, <2>2 DEF RoomLeft
<1>5. ASSUME NEW r \in Recoveries, Rewrites(r, m)', Counting(m)'
      PROVE  jobs'[r].read = json'[m]
  BY <1>5 DEF RoomLeft
<1>6. Rewrites(m, m)' => /\ jobs'[m].read.retryCount <= MaxRetries
                         /\ m \in OnDisk' => jobs'[m].read.retryCount <= Count(m)'
  BY <1>1 DEF RoomLeft
<1> QED
  BY <1>3, <1>4, <1>5, <1>6 DEF RoomLeft

\* An actor that moves without turning to a message anew leaves room.
LEMMA RoomAfterMove ==
    ASSUME RInv, IInv', NEW a \in Actors, json' = json,
           \A b \in Actors \ {a} : jobs'[b] = jobs[b],
           jobs'[a].pc # "write",
           a \in Messages /\ jobs'[a].pc \in {"sending", "read"}
             => jobs[a].pc \in {"sending", "read"},
           a \in Recoveries => \A m \in Messages : Stakes(a, m)' => Stakes(a, m)
    PROVE  \A m \in Messages : RoomLeft(m)'
<1> SUFFICES ASSUME NEW m \in Messages PROVE RoomLeft(m)'
  OBVIOUS
<1>1. IInv /\ RoomLeft(m) /\ m \in Actors /\ Recoveries \subseteq Actors
      /\ m \notin Recoveries
  BY DeliveryAssumption DEF RInv, Actors
<1>2. Counting(m)' => Counting(m)
  BY <1>1 DEF Counting
<1>3. Rewrites(m, m)' => Rewrites(m, m) /\ jobs'[m].read = jobs[m].read
  BY <1>1 DEF Rewrites
<1>4. ASSUME NEW r \in Recoveries
      PROVE  /\ Stakes(r, m)' => Stakes(r, m)
             /\ Rewrites(r, m)' => Rewrites(r, m) /\ jobs'[r].read = jobs[r].read
  BY <1>1 DEF Stakes, Rewrites
<1> QED
  BY <1>1, <1>2, <1>3, <1>4, RoomKept

LEMMA SenderRoom ==
    ASSUME RInv, IInv', NEW a \in Actors,
           \/ Received(a) \/ SendThrows(a) \/ SendSwallows(a) \/ AckUnlink(a)
           \/ SendWithdrawn(a) \/ (a \in Messages /\ SendTimesOut(a))
    PROVE  RInv'
<1>1. PICK pc \in Pcs \ {"write", "idle", "scan", "load"} :
        /\ Goes(a, pc) /\ json' = json
        /\ pc \in {"sending", "read"} => jobs[a].pc \in {"sending", "read"}
        /\ jobs[a].pc \in Holding \cup {"unlogged"}
        /\ pc \in Holding => jobs[a].pc \in Holding
  BY DEF Received, SendThrows, SendSwallows, AckUnlink, SendWithdrawn, SendTimesOut, Next1,
         Pcs, Holding
<1>2. jobs \in [Actors -> JobType]
  BY DEF RInv, IInv, TypeOK, JobType
<1>3. /\ jobs'[a].pc = pc /\ jobs'[a].msg = jobs[a].msg
      /\ jobs'[a].names = jobs[a].names /\ jobs'[a].pending = jobs[a].pending
      /\ \A b \in Actors \ {a} : jobs'[b] = jobs[b]
  BY <1>1, <1>2 DEF Goes, JobType
<1>4. \A m \in Messages : Stakes(a, m)' => Stakes(a, m)
  BY <1>1, <1>3 DEF Stakes
<1>5. \A m \in Messages : RoomLeft(m)'
  BY <1>1, <1>3, <1>4, RoomAfterMove
<1>6. \A r \in Recoveries : ListedOnce(r)'
  BY <1>1, <1>3 DEF RInv, ListedOnce, Actors, Holding
<1> QED
  BY <1>5, <1>6 DEF RInv

\* A recovery's steps through its list.
LEMMA LoopRoom ==
    ASSUME RInv, IInv', NEW r \in Recoveries,
           \/ Scan(r) \/ Loaded(r) \/ GiveUp(r) \/ Defer(r) \/ Attempt(r)
           \/ EndRecovery(r) \/ Restart(r)
    PROVE  RInv'
<1>1. jobs \in [Actors -> JobType] /\ r \in Actors /\ r \notin Messages
  BY DeliveryAssumption DEF RInv, IInv, TypeOK, JobType, Actors
<1>2. /\ json' = json /\ jobs'[r].pc # "write"
      /\ \A b \in Actors \ {r} : jobs'[b] = jobs[b]
  <2>1. CASE Scan(r) \/ Loaded(r) \/ Restart(r)
    BY <1>1, <2>1 DEF Scan, Loaded, Restart, Goes, JobType
  <2>2. CASE GiveUp(r) \/ Defer(r) \/ Attempt(r)
    <3>1. PICK e \in jobs[r].pending, pc \in {"park", "next", "sending"} : Takes(r, e, pc)
      BY <2>2 DEF GiveUp, Defer, Attempt, Oldest
    <3>2. json' = json
      BY <2>2 DEF GiveUp, Defer, Attempt
    <3>3. jobs'[r].pc = pc /\ \A b \in Actors \ {r} : jobs'[b] = jobs[b]
      BY <1>1, <3>1 DEF Takes, JobType
    <3> QED
      BY <3>2, <3>3
  <2>3. CASE EndRecovery(r)
    <3>1. jobs' = [jobs EXCEPT ![r] = Idle] /\ Idle.pc = "idle"
      BY <2>3 DEF EndRecovery, Idle
    <3> QED
      BY <1>1, <2>3, <3>1 DEF EndRecovery
  <2> QED
    BY <2>1, <2>2, <2>3
<1>3. ListedOnce(r)' /\ \A m \in Messages : Stakes(r, m)' => Stakes(r, m)
  <2>1. ListedOnce(r) /\ jobs[r] \in JobType
    BY <1>1 DEF RInv
  <2>2. CASE Scan(r)
    <3>1. /\ jobs'[r].pc = "load" /\ jobs'[r].pending = jobs[r].pending
          /\ jobs[r].pending = {}
      BY <1>1, <2>1, <2>2 DEF Scan, JobType, ListedOnce
    <3> QED
      BY <3>1 DEF ListedOnce, Stakes
  <2>3. CASE Loaded(r)
    <3>1. /\ jobs'[r].pc = "first" /\ jobs'[r].pending = jobs[r].pending
          /\ jobs'[r].names = {}
      BY <1>1, <2>1, <2>3 DEF Loaded, Goes, JobType
    <3> QED
      BY <2>1, <3>1 DEF ListedOnce, Stakes, Holding
  <2>4. CASE GiveUp(r) \/ Defer(r) \/ Attempt(r)
    <3>1. PICK e \in jobs[r].pending, pc \in {"park", "next", "sending"} :
            Takes(r, e, pc) /\ (pc = "sending" => ~Exhausted(e))
      BY <2>4 DEF GiveUp, Defer, Attempt, Oldest
    <3>2. /\ jobs'[r].pc = pc /\ jobs'[r].pending = jobs[r].pending \ {e}
          /\ jobs'[r].names = jobs[r].names /\ jobs'[r].msg = e[1]
          /\ jobs[r].pc \in {"first", "next"}
      BY <1>1, <2>1, <2>4, <3>1 DEF Takes, JobType, GiveUp, Defer, Attempt, Choosing
    <3>3. e[2].retryCount \in Nat /\ MaxRetries \in Nat
      BY <2>1, DeliveryAssumption, EntriesDiffer DEF JobType
    <3>4. ListedOnce(r)'
      BY <2>1, <3>1, <3>2 DEF ListedOnce
    <3>5. \A m \in Messages : Stakes(r, m)' => Stakes(r, m)
      BY <3>1, <3>2, <3>3 DEF Stakes, Exhausted
    <3> QED
      BY <3>4, <3>5
  <2>5. CASE EndRecovery(r)
    <3>1. jobs'[r] = Idle
      BY <1>1, <2>5 DEF EndRecovery
    <3> QED
      BY <3>1 DEF ListedOnce, Stakes, Idle, Holding
  <2>6. CASE Restart(r)
    <3>1. /\ jobs'[r].pc = "scan" /\ jobs'[r].pending = {} /\ jobs'[r].names = {}
      BY <1>1, <2>1, <2>6 DEF Restart, Goes, JobType, ListedOnce
    <3> QED
      BY <3>1 DEF ListedOnce, Stakes
  <2> QED
    BY <2>2, <2>3, <2>4, <2>5, <2>6
<1>4. \A m \in Messages : RoomLeft(m)'
  BY <1>1, <1>2, <1>3, RoomAfterMove
<1>5. \A s \in Recoveries : ListedOnce(s)'
  BY <1>2, <1>3 DEF RInv, ListedOnce, Actors
<1> QED
  BY <1>4, <1>5 DEF RInv

\* A step of an actor other than a recovery leaves the lists alone.
LEMMA ListsKept ==
    ASSUME RInv, NEW a \in Actors,
           \A b \in Actors \ {a} : jobs'[b] = jobs[b],
           jobs'[a].pending = jobs[a].pending, jobs'[a].names = jobs[a].names,
           jobs'[a].msg = jobs[a].msg,
           a \in Recoveries => /\ jobs'[a].pc \notin {"idle", "scan"}
                               /\ jobs[a].pc \in Holding
    PROVE  \A r \in Recoveries : ListedOnce(r)'
<1> SUFFICES ASSUME NEW r \in Recoveries PROVE ListedOnce(r)'
  OBVIOUS
<1>1. ListedOnce(r) /\ r \in Actors
  BY DEF RInv, Actors
<1>2. CASE r # a
  BY <1>1, <1>2 DEF ListedOnce
<1>3. CASE r = a
  BY <1>1, <1>3 DEF ListedOnce, Holding
<1> QED
  BY <1>2, <1>3

\* The removal of a file by an acknowledgement or by the move to failed/.
LEMMA RemovalRoom ==
    ASSUME RInv, IInv', NEW a \in Actors, AckRename(a) \/ (a \in Recoveries /\ Park(a)),
           \A r, s \in Recoveries : r = s
    PROVE  RInv'
<1>1. PICK pc \in {"unlink", "done", "next"} : Goes(a, pc)
  BY DEF AckRename, Park, Next1
<1>2. /\ jobs \in [Actors -> JobType] /\ jobs[a].pc \in {"ack", "park"}
      /\ jobs[a].msg \in Messages /\ json \in [Messages -> Entry]
      /\ a \in Messages => jobs[a].msg = a
      /\ a \in Messages \/ a \in Recoveries
  BY HeldMessage
     DEF RInv, IInv, TypeOK, JobType, AckRename, Park, Holding, JobOK, HoldsOwn, Actors
<1>3. /\ jobs'[a].pc = pc /\ jobs'[a].msg = jobs[a].msg
      /\ jobs'[a].names = jobs[a].names /\ jobs'[a].pending = jobs[a].pending
      /\ \A b \in Actors \ {a} : jobs'[b] = jobs[b]
  BY <1>1, <1>2 DEF Goes, JobType
<1>4. json' = json \/ json' = [json EXCEPT ![jobs[a].msg] = NoEntry]
  BY DEF AckRename, Park
<1>5. ASSUME NEW m \in Messages PROVE RoomLeft(m)'
  <2>1. IInv /\ RoomLeft(m) /\ m \in Actors /\ Recoveries \subseteq Actors
    BY DEF RInv, Actors
  <2>2. Counting(m)' => Counting(m) /\ m # a
    BY <1>2, <1>3, <2>1 DEF Counting
  <2>3. Rewrites(m, m)' => Rewrites(m, m) /\ jobs'[m].read = jobs[m].read
    BY <1>2, <1>3, <2>1 DEF Rewrites
  <2>4. ASSUME NEW r \in Recoveries
        PROVE  /\ Stakes(r, m)' => Stakes(r, m)
               /\ Rewrites(r, m)' => Rewrites(r, m) /\ jobs'[r].read = jobs[r].read
                                     /\ a \notin Recoveries
    BY <1>2, <1>3, <2>1 DEF Stakes, Rewrites
  <2>5. \/ json'[m] = json[m]
        \/ json'[m] = NoEntry /\ m = jobs[a].msg
    BY <1>2, <1>4
  <2>6. m = jobs[a].msg => \A r \in Recoveries : ~(Rewrites(r, m)' /\ Counting(m)')
    BY <1>2, <2>2, <2>4
  <2> QED
    BY <2>1, <2>2, <2>3, <2>4, <2>5, <2>6, RoomKept
<1>6. \A r \in Recoveries : ListedOnce(r)'
  BY <1>2, <1>3, ListsKept DEF Holding
<1> QED
  BY <1>5, <1>6 DEF RInv

\* failDelivery reads: what it is to write back leaves room for it.
LEMMA FailReadRoom ==
    ASSUME RInv, IInv', NEW a \in Actors, FailRead(a)
    PROVE  RInv'
<1>1. /\ jobs \in [Actors -> JobType] /\ jobs[a].pc = "read" /\ json' = json
      /\ a \in Messages => jobs[a].msg = a
      /\ a \in Messages \/ a \in Recoveries
  BY DEF RInv, IInv, TypeOK, JobType, FailRead, Holding, JobOK, HoldsOwn, Actors
<1>2. PICK n \in Messages : n = jobs[a].msg
  BY <1>1, HeldMessage DEF RInv, Holding
<1>3. /\ jobs'[a].pc \in {"write", "done", "next"} /\ jobs'[a].msg = n
      /\ jobs'[a].pc = "write" => jobs'[a].read = json[n] /\ n \in OnDisk
      /\ jobs'[a].names = jobs[a].names /\ jobs'[a].pending = jobs[a].pending
      /\ \A b \in Actors \ {a} : jobs'[b] = jobs[b]
  BY <1>1, <1>2 DEF FailRead, Next1, JobType
<1>4. ASSUME NEW m \in Messages PROVE RoomLeft(m)'
  <2>1. /\ IInv /\ RoomLeft(m) /\ m \in Actors /\ Recoveries \subseteq Actors
        /\ m \notin Recoveries
    BY DeliveryAssumption DEF RInv, Actors
  <2>2. CASE jobs'[a].pc # "write"
    <3>1. \A k \in Messages : Stakes(a, k)' => Stakes(a, k)
      BY <1>1, <1>3, <2>2 DEF Stakes
    <3> QED
      BY <1>1, <1>3, <2>2, <3>1, RoomAfterMove
  <2>3. CASE m # n
    <3>1. Counting(m)' => Counting(m)
      BY <1>1, <1>2, <1>3, <2>1, <2>3 DEF Counting
    <3>2. Rewrites(m, m)' => Rewrites(m, m) /\ jobs'[m].read = jobs[m].read
      BY <1>1, <1>2, <1>3, <2>1, <2>3 DEF Rewrites
    <3>3. ASSUME NEW r \in Recoveries
          PROVE  /\ Stakes(r, m)' => Stakes(r, m)
                 /\ Rewrites(r, m)' => Rewrites(r, m) /\ jobs'[r].read = jobs[r].read
      BY <1>1, <1>2, <1>3, <2>1, <2>3 DEF Stakes, Rewrites
    <3> QED
      BY <1>1, <2>1, <3>1, <3>2, <3>3, RoomKept
  <2>4. CASE m = n /\ jobs'[a].pc = "write" /\ a \in Messages
    <3>1. a = m /\ Counting(m) /\ Counting(m)' /\ Top(m)' = Top(m)
          /\ Top(m) = MaxRetries /\ Count(m)' = Count(m)
      BY <1>1, <1>2, <1>3, <2>4 DEF Counting, Top, Count
    <3>2. ASSUME NEW r \in Recoveries
          PROVE  /\ Stakes(r, m)' = Stakes(r, m) /\ Rewrites(r, m)' = Rewrites(r, m)
                 /\ jobs'[r] = jobs[r]
      BY <1>3, <2>1, <3>1 DEF Stakes, Rewrites
    <3>3. jobs'[m].read.retryCount = Count(m) /\ Count(m) \in Int
      BY <1>3, <2>1, <2>4, <3>1, CountsAreIntegers DEF Count
    <3> QED
      BY <1>1, <2>1, <3>1, <3>2, <3>3 DEF RoomLeft
  <2>5. CASE m = n /\ jobs'[a].pc = "write" /\ a \in Recoveries
    <3>1. /\ Counting(m)' = Counting(m) /\ Top(m)' = Top(m) /\ Count(m)' = Count(m)
          /\ Rewrites(m, m)' = Rewrites(m, m) /\ jobs'[m] = jobs[m]
      BY <1>1, <1>3, <2>1, <2>5 DEF Counting, Top, Count, Rewrites
    <3>2. Stakes(a, m) /\ jobs'[a].read.retryCount = Count(m)
      BY <1>1, <1>2, <1>3, <2>5 DEF Stakes, Count
    <3>3. ASSUME NEW r \in Recoveries
          PROVE  /\ Stakes(r, m)' => Stakes(r, m)
                 /\ \/ r = a /\ jobs'[r].read = json[m]
                    \/ jobs'[r] = jobs[r] /\ (Rewrites(r, m)' => Rewrites(r, m))
      BY <1>2, <1>3, <2>1, <2>5, <3>2 DEF Stakes, Rewrites
    <3> QED
      BY <1>1, <2>1, <3>1, <3>2, <3>3 DEF RoomLeft, Count, OnDisk
  <2> QED
    BY <1>1, <2>2, <2>3, <2>4, <2>5
<1>5. \A r \in Recoveries : ListedOnce(r)'
  BY <1>1, <1>2, <1>3, ListsKept DEF Holding
<1> QED
  BY <1>4, <1>5 DEF RInv

\* failDelivery writes: the count stays within its room.
LEMMA FailWriteRoom ==
    ASSUME RInv, IInv', NEW a \in Actors, FailWrite(a), \A r, s \in Recoveries : r = s
    PROVE  RInv'
<1>1. /\ jobs \in [Actors -> JobType] /\ jobs[a].pc = "write"
      /\ json \in [Messages -> Entry]
      /\ a \in Messages => jobs[a].msg = a
      /\ a \in Messages \/ a \in Recoveries
      /\ jobs[a].read \in Entry \ {NoEntry}
  BY DEF RInv, IInv, TypeOK, JobType, FailWrite, Holding, JobOK, HoldsOwn, Actors, Counts
<1>2. PICK n \in Messages : n = jobs[a].msg
  BY <1>1, HeldMessage DEF RInv, Holding
<1>3. /\ jobs'[a].pc \in {"done", "next"} /\ jobs'[a].msg = n
      /\ jobs'[a].names = jobs[a].names /\ jobs'[a].pending = jobs[a].pending
      /\ \A b \in Actors \ {a} : jobs'[b] = jobs[b]
  BY <1>1, <1>2 DEF FailWrite, Next1, JobType
<1>4. /\ json'[n].retryCount = jobs[a].read.retryCount + 1
      /\ \A m \in Messages \ {n} : json'[m] = json[m]
  BY <1>1, <1>2 DEF FailWrite
<1>5. ASSUME NEW m \in Messages PROVE RoomLeft(m)'
  <2>1. /\ IInv /\ RoomLeft(m) /\ m \in Actors /\ Recoveries \subseteq Actors
        /\ m \notin Recoveries
    BY DeliveryAssumption DEF RInv, Actors
  <2>2. /\ Count(m) \in Int /\ MaxRetries \in Nat
        /\ jobs[a].read.retryCount \in Int /\ jobs[m].read.retryCount \in Int
    BY <2>1, CountsAreIntegers
  <2>3. CASE m # n
    <3>1. Counting(m)' => Counting(m)
      BY <1>1, <1>2, <1>3, <2>1, <2>3 DEF Counting
    <3>2. Rewrites(m, m)' => Rewrites(m, m) /\ jobs'[m].read = jobs[m].read
      BY <1>1, <1>2, <1>3, <2>1, <2>3 DEF Rewrites
    <3>3. ASSUME NEW r \in Recoveries
          PROVE  /\ Stakes(r, m)' => Stakes(r, m)
                 /\ Rewrites(r, m)' => Rewrites(r, m) /\ jobs'[r].read = jobs[r].read
      BY <1>1, <1>2, <1>3, <2>1, <2>3 DEF Stakes, Rewrites
    <3> QED
      BY <1>4, <2>1, <2>3, <3>1, <3>2, <3>3, RoomKept
  <2>4. CASE m = n /\ a \in Messages
    <3>1. a = m /\ Rewrites(m, m) /\ ~Rewrites(m, m)' /\ Counting(m) /\ ~Counting(m)'
          /\ Top(m) = MaxRetries /\ Top(m)' = MaxRetries + 1
          /\ Count(m)' = jobs[m].read.retryCount + 1
      BY <1>1, <1>2, <1>3, <1>4, <2>4 DEF Counting, Top, Count, Rewrites
    <3>2. ASSUME NEW r \in Recoveries
          PROVE  /\ Stakes(r, m)' = Stakes(r, m) /\ Rewrites(r, m)' = Rewrites(r, m)
                 /\ jobs'[r] = jobs[r] /\ jobs[r].read.retryCount \in Int
      BY <1>3, <2>1, <3>1, CountsAreIntegers DEF Stakes, Rewrites
    <3> QED
      BY <2>1, <2>2, <3>1, <3>2 DEF RoomLeft
  <2>5. CASE m = n /\ a \in Recoveries
    <3>1. /\ Counting(m)' = Counting(m) /\ Top(m)' = Top(m) /\ Top(m) \in Int
          /\ Rewrites(m, m)' = Rewrites(m, m) /\ jobs'[m] = jobs[m]
          /\ Count(m)' = jobs[a].read.retryCount + 1
          /\ Rewrites(m, m) => Counting(m)
      BY <1>1, <1>3, <1>4, <2>1, <2>2, <2>5 DEF Counting, Top, Count, Rewrites
    <3>2. Rewrites(a, m)
      BY <1>1, <1>2, <2>5 DEF Rewrites
    <3>3. ASSUME NEW r \in Recoveries PROVE ~Stakes(r, m)' /\ ~Rewrites(r, m)'
      BY <1>1, <1>2, <1>3, <2>5 DEF Stakes, Rewrites, RInv, ListedOnce, Holding
    <3>4. Count(m)' <= Top(m)'
      BY <2>1, <2>2, <2>5, <3>1, <3>2 DEF RoomLeft
    <3>5. ASSUME Rewrites(m, m)
          PROVE  /\ jobs[m].read.retryCount <= MaxRetries
                 /\ jobs[m].read.retryCount <= Count(m)'
      <4>1. jobs[a].read = json[m] /\ m \in OnDisk
        BY <1>1, <2>1, <2>5, <3>1, <3>2, <3>5 DEF RoomLeft, OnDisk
      <4> QED
        BY <2>1, <2>2, <3>1, <3>5, <4>1 DEF RoomLeft, Count
    <3> QED
      BY <3>1, <3>3, <3>4, <3>5 DEF RoomLeft
  <2> QED
    BY <1>1, <2>3, <2>4, <2>5
<1>6. \A r \in Recoveries : ListedOnce(r)'
  BY <1>1, <1>2, <1>3, ListsKept DEF Holding
<1> QED
  BY <1>5, <1>6 DEF RInv

\* A recovery takes note of an entry that may still be tried.
LEMMA LoadRoom ==
    ASSUME RInv, IInv', NEW r \in Recoveries, Load(r), \A s, t \in Recoveries : s = t
    PROVE  RInv'
<1>1. /\ jobs \in [Actors -> JobType] /\ jobs[r].pc = "load" /\ json' = json
      /\ r \in Actors /\ r \notin Messages /\ ListedOnce(r)
      /\ json \in [Messages -> Entry]
  BY DeliveryAssumption DEF RInv, IInv, TypeOK, JobType, Load, Actors
<1>2. PICK n \in jobs[r].names :
        jobs' = [jobs EXCEPT
           ![r].names = @ \ {n},
           ![r].pending = IF n \in OnDisk THEN @ \cup {<<n, json[n]>>} ELSE @]
  BY DEF Load
<1>3. /\ jobs'[r].pc = "load" /\ jobs'[r].names = jobs[r].names \ {n}
      /\ jobs'[r].pending = IF n \in OnDisk THEN jobs[r].pending \cup {<<n, json[n]>>}
                            ELSE jobs[r].pending
      /\ \A b \in Actors \ {r} : jobs'[b] = jobs[b]
  BY <1>1, <1>2 DEF JobType
<1>4. ASSUME NEW m \in Messages PROVE RoomLeft(m)'
  <2>1. /\ IInv /\ RoomLeft(m) /\ m \in Actors /\ m # r
        /\ Count(m) \in Int /\ MaxRetries \in Nat /\ jobs[m].read.retryCount \in Int
    BY <1>1, CountsAreIntegers DEF RInv, Actors
  <2>2. /\ jobs'[m] = jobs[m] /\ Count(m)' = Count(m) /\ Top(m)' = Top(m)
        /\ Counting(m)' = Counting(m) /\ Rewrites(m, m)' = Rewrites(m, m)
        /\ OnDisk' = OnDisk
    BY <1>1, <1>3, <2>1 DEF Count, Top, Counting, Rewrites, OnDisk
  <2>3. ~Rewrites(r, m)'
    BY <1>3 DEF Rewrites
  <2>4. Stakes(r, m)' => \/ Stakes(r, m)
                         \/ m \in OnDisk /\ Count(m) < MaxRetries
    BY <1>3 DEF Stakes, Count
  <2>5. Stakes(r, m)' => /\ Count(m) < Top(m)
                         /\ Rewrites(m, m) => jobs[m].read.retryCount < MaxRetries
    BY <2>1, <2>4 DEF RoomLeft, Top
  <2> QED
    BY <2>1, <2>2, <2>3, <2>5 DEF RoomLeft
<1>5. ListedOnce(r)'
  BY <1>1, <1>2, <1>3 DEF ListedOnce, Holding
<1> QED
  BY <1>4, <1>5 DEF RInv

\* A new message is on no list, and no try of it has failed yet.
LEMMA EnqueueRoom ==
    ASSUME RInv, IInv', NEW n \in Messages, Enqueue(n)
    PROVE  RInv'
<1>1. /\ jobs \in [Actors -> JobType] /\ n \in Actors /\ n \notin Recoveries
      /\ jobs[n].pc = "idle" /\ n \notin accepted /\ json \in [Messages -> Entry]
      /\ Recoveries \subseteq Actors
  BY DeliveryAssumption DEF RInv, IInv, TypeOK, JobType, Actors, Untouched, Enqueue
<1>2. /\ jobs'[n].pc \in {"sending", "unlogged"}
      /\ jobs'[n].pc = "sending" => json'[n] = Written
      /\ jobs'[n].pc = "unlogged" => json' = json
      /\ \A b \in Actors \ {n} : jobs'[b] = jobs[b]
      /\ \A m \in Messages \ {n} : json'[m] = json[m]
  BY <1>1 DEF Enqueue, JobType
<1>3. ASSUME NEW r \in Recoveries PROVE ~Stakes(r, n) /\ ~Rewrites(r, n)
  BY <1>1 DEF RInv, IInv, JobOK, HoldsAccepted, Stakes, Rewrites, Holding
<1>4. ASSUME NEW m \in Messages PROVE RoomLeft(m)'
  <2>1. /\ IInv /\ RoomLeft(m) /\ m \in Actors /\ m \notin Recoveries
    BY DeliveryAssumption DEF RInv, Actors
  <2>2. ASSUME NEW r \in Recoveries
        PROVE  /\ Stakes(r, m)' = Stakes(r, m) /\ Rewrites(r, m)' = Rewrites(r, m)
               /\ jobs'[r] = jobs[r]
    BY <1>1, <1>2 DEF Stakes, Rewrites
  <2>3. Rewrites(m, m)' => Rewrites(m, m) /\ jobs'[m].read = jobs[m].read
    BY <1>1, <1>2, <2>1 DEF Rewrites
  <2>4. CASE m # n
    <3>1. Counting(m)' => Counting(m)
      BY <1>2, <2>1, <2>4 DEF Counting
    <3> QED
      BY <1>2, <2>1, <2>2, <2>3, <2>4, <3>1, RoomKept
  <2>5. CASE m = n /\ jobs'[n].pc = "unlogged"
    <3>1. Counting(m)' => Counting(m)
      BY <2>5 DEF Counting
    <3> QED
      BY <1>2, <2>1, <2>2, <2>3, <2>5, <3>1, RoomKept
  <2>6. CASE m = n /\ jobs'[n].pc = "sending"
    <3>1. Count(m)' = 0 /\ Top(m)' = MaxRetries /\ ~Rewrites(m, m)'
      BY <1>2, <2>6, EntriesDiffer DEF Count, Top, Counting, Rewrites
    <3> QED
      BY <1>3, <2>2, <2>6, <3>1, DeliveryAssumption DEF RoomLeft
  <2> QED
    BY <1>2, <2>4, <2>5, <2>6
<1>5. \A r \in Recoveries : ListedOnce(r)'
  BY <1>1, <1>2 DEF RInv, ListedOnce
<1> QED
  BY <1>4, <1>5 DEF RInv

LEMMA CrashRoom ==
    ASSUME RInv, IInv', Crash
    PROVE  RInv'
<1>1. json' = json
  BY DEF Crash
<1>2. ASSUME NEW a \in Actors
      PROVE  /\ jobs'[a].pc \in {"scan", "done", "idle"}
             /\ jobs'[a].names = {} /\ jobs'[a].pending = {}
  BY DEF Crash, Idle
<1>3. ASSUME NEW m \in Messages PROVE RoomLeft(m)'
  <2>1. m \in Actors /\ Recoveries \subseteq Actors /\ IInv /\ RoomLeft(m)
    BY DEF Actors, RInv
  <2>2. ~Counting(m)' /\ ~Rewrites(m, m)'
    BY <1>2, <2>1 DEF Counting, Rewrites
  <2>3. \A r \in Recoveries : ~Stakes(r, m)' /\ ~Rewrites(r, m)'
    BY <1>2, <2>1 DEF Stakes, Rewrites
  <2> QED
    BY <1>1, <2>1, <2>2, <2>3, RoomKept
<1>4. \A r \in Recoveries : ListedOnce(r)'
  BY <1>2 DEF ListedOnce, Actors
<1> QED
  BY <1>3, <1>4 DEF RInv

LEMMA RNextStep ==
    ASSUME RInv, [Next]_vars, \A r, s \in Recoveries : r = s
    PROVE  RInv'
<1>1. IInv'
  BY NextStep DEF RInv
<1>2. ASSUME NEW m \in Messages, Enqueue(m)
      PROVE  RInv'
  BY <1>1, <1>2, EnqueueRoom
<1>3. ASSUME NEW a \in Actors, Send(a) \/ Settles(a)
      PROVE  RInv'
  BY <1>1, <1>3, SenderRoom, RemovalRoom, FailReadRoom, FailWriteRoom DEF Send, Settles
<1>4. ASSUME NEW r \in Recoveries, Recover(r) \/ Attempt(r) \/ Restart(r)
      PROVE  RInv'
  BY <1>1, <1>4, LoopRoom, LoadRoom, RemovalRoom DEF Recover, Actors
<1>5. CASE UNCHANGED vars
  BY <1>1, <1>5 DEF vars, RInv, ListedOnce, RoomLeft, Stakes, Rewrites, Counting, Top, Count, OnDisk
<1> QED
  BY <1>1, <1>2, <1>3, <1>4, <1>5, CrashRoom DEF Next

LEMMA RInitHolds == Init => RInv
<1> SUFFICES ASSUME Init PROVE RInv
  OBVIOUS
<1>1. IInv
  BY InitHolds
<1>2. ASSUME NEW a \in Actors
      PROVE  /\ jobs[a].pc \in {"scan", "idle"}
             /\ jobs[a].names = {} /\ jobs[a].pending = {}
  BY DEF Init, Idle
<1>3. \A m \in Messages : Count(m) = -1
  BY EntriesDiffer DEF Init, Count
<1>4. ASSUME NEW m \in Messages PROVE RoomLeft(m)
  <2>1. m \in Actors /\ Recoveries \subseteq Actors
    BY DEF Actors
  <2>2. ~Counting(m) /\ ~Rewrites(m, m)
    BY <1>2, <2>1 DEF Counting, Rewrites
  <2>3. \A r \in Recoveries : ~Stakes(r, m) /\ ~Rewrites(r, m)
    BY <1>2, <2>1 DEF Stakes, Rewrites
  <2> QED
    BY <1>3, <2>2, <2>3, DeliveryAssumption DEF RoomLeft, Top
<1>5. \A r \in Recoveries : ListedOnce(r)
  BY <1>2 DEF ListedOnce, Actors
<1> QED
  BY <1>1, <1>4, <1>5 DEF RInv

\* With one recovery at a time, whatever its interleaving with live senders,
\* in-place restarts and crashes, an entry is counted at most once beyond
\* MAX_RETRIES.
THEOREM RetriesEnd ==
    ASSUME \A r, s \in Recoveries : r = s
    PROVE  Spec => []RetriesBounded
<1>1. RInv /\ [Next]_vars => RInv'
  BY RNextStep
<1>2. RInv => RetriesBounded
  <2> SUFFICES ASSUME RInv, NEW m \in Messages PROVE json[m].retryCount <= MaxRetries + 1
    BY DEF RetriesBounded
  <2>1. Count(m) \in Int /\ MaxRetries \in Nat
    BY CountsAreIntegers DEF RInv
  <2> QED
    BY <2>1 DEF RInv, RoomLeft, Top, Count
<1> QED
  BY <1>1, <1>2, RInitHolds, PTL DEF Spec

=============================================================================
