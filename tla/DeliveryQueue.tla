--------------------------- MODULE DeliveryQueue ---------------------------
(***************************************************************************)
(* The write-ahead queue of outbound deliveries: deliverOutboundPayloads   *)
(* of src/infra/outbound/deliver.ts and the files it keeps with            *)
(* src/infra/outbound/delivery-queue.ts.  A message is written to          *)
(* {id}.json before it is sent, renamed to {id}.delivered and unlinked     *)
(* after, counted as failed in place, or moved to failed/.  At every start *)
(* of the gateway, in a new process or in place, a recovery scans the      *)
(* directory and sends what it finds.  Every await on a file or a channel  *)
(* lets the other senders run, and the process may die at any of them.     *)
(*                                                                         *)
(* Abstractions.  A message is one payload; its number is its enqueuedAt.  *)
(* Writing a temporary file and renaming it is one step, the rename.       *)
(* Entries written by older versions and malformed files are left out.     *)
(* Clocks are: whether a backoff or the recovery's time budget has passed  *)
(* is a choice.                                                            *)
(***************************************************************************)
EXTENDS Integers, FiniteSets

CONSTANTS
    N,            \* bound: messages sent
    MaxRetries,   \* MAX_RETRIES
    Recoveries,   \* bound: recoveries under way at the same time
    BestEffort,   \* messages whose caller may ask for bestEffort
    Reporting,    \* messages whose caller passes onError
    OwnAborts,    \* messages to channels that name timeouts of their own AbortError
    MaxCrashes,   \* bound: deaths of the process
    CanRestart,   \* whether the gateway may restart in place
    OverlapScan   \* whether a scan may find entries this process is sending

Messages == 1..N

ASSUME DeliveryAssumption ==
    /\ N \in Nat
    /\ MaxRetries \in Nat
    /\ Recoveries \cap Messages = {}
    /\ Recoveries # {}
    /\ BestEffort \subseteq Messages
    /\ Reporting \subseteq Messages
    /\ OwnAborts \subseteq Messages
    /\ MaxCrashes \in Nat
    /\ {CanRestart, OverlapScan} \subseteq BOOLEAN

VARIABLES
    json,       \* {id}.json: its retry count and whether it was attempted
    marker,     \* messages with an {id}.delivered file
    parked,     \* messages in failed/
    jobs,       \* the live sender of each message, and the recoveries
    received,   \* how often the channel took each message, up to twice
    withdrawn,  \* messages aborted by the sender or cancelled by a hook
    accepted,   \* messages whose {id}.json was written
    acked,      \* history: messages renamed to {id}.delivered
    bestEffort, \* messages whose caller asked for it
    crashes     \* how often the process has died

vars == <<json, marker, parked, jobs, received, withdrawn, accepted, acked, bestEffort, crashes>>

Actors == Messages \cup Recoveries

NoEntry == [retryCount |-> -1, tried |-> FALSE]

Written == [retryCount |-> 0, tried |-> FALSE]

OnDisk == {m \in Messages : json[m] # NoEntry}

\* A sender: where it is, the message it holds, the entry it read, the file
\* names a recovery has yet to read and the entries it has yet to send.
Idle == [pc |-> "idle", msg |-> 0, read |-> NoEntry, names |-> {}, pending |-> {}]

Init ==
    /\ json = [m \in Messages |-> NoEntry]
    /\ marker = {}
    /\ parked = {}
    /\ \E r \in Recoveries :
         jobs = [a \in Actors |-> IF a = r THEN [Idle EXCEPT !.pc = "scan"] ELSE Idle]
    /\ received = [m \in Messages |-> 0]
    /\ withdrawn = {}
    /\ accepted = {}
    /\ acked = {}
    /\ bestEffort = {}
    /\ crashes = 0

\* Where an actor goes when it is through with its message.
Next1(a) == IF a \in Messages THEN "done" ELSE "next"

Goes(a, pc) == jobs' = [jobs EXCEPT ![a].pc = pc]

-----------------------------------------------------------------------------
\* enqueueDelivery by the sender of the next message; a failed write does
\* not stop the send, which then leaves no trace.
Enqueue(m) ==
    /\ jobs[m].pc = "idle"
    /\ \A n \in 1..(m - 1) : jobs[n].pc # "idle"
    /\ OverlapScan \/ \A r \in Recoveries : jobs[r].pc # "scan"
    /\ \/ /\ json' = [json EXCEPT ![m] = Written]
          /\ accepted' = accepted \cup {m}
          /\ jobs' = [jobs EXCEPT ![m].pc = "sending", ![m].msg = m]
       \/ /\ jobs' = [jobs EXCEPT ![m].pc = "unlogged", ![m].msg = m]
          /\ UNCHANGED <<json, accepted>>
    /\ \/ UNCHANGED bestEffort
       \/ m \in BestEffort /\ bestEffort' = bestEffort \cup {m}
    /\ UNCHANGED <<marker, parked, received, withdrawn, acked, crashes>>

\* The channel takes the message; the acknowledgement comes next.
Received(a) ==
    LET m == jobs[a].msg
    IN  /\ jobs[a].pc \in {"sending", "unlogged"}
        /\ received' = [received EXCEPT ![m] = IF @ = 2 THEN 2 ELSE @ + 1]
        /\ Goes(a, IF jobs[a].pc = "sending" THEN "ack" ELSE "done")
        /\ UNCHANGED <<json, marker, parked, withdrawn, accepted, acked, bestEffort, crashes>>

\* Mutant: a failed send is acknowledged.
SendThrowsAcked(a) ==
    /\ jobs[a].pc \in {"sending", "unlogged"}
    /\ Goes(a, IF jobs[a].pc = "unlogged" THEN "done" ELSE "ack")
    /\ UNCHANGED <<json, marker, parked, received, withdrawn, accepted, acked, bestEffort, crashes>>

\* The send fails and says so: failDelivery follows, or, when a recovery
\* takes the error for a permanent one, moveToFailed.
SendThrows(a) ==
    /\ jobs[a].pc \in {"sending", "unlogged"}
    /\ IF jobs[a].pc = "unlogged" THEN Goes(a, "done")
       ELSE \/ Goes(a, "read")
            \/ a \in Recoveries /\ Goes(a, "park")
    /\ UNCHANGED <<json, marker, parked, received, withdrawn, accepted, acked, bestEffort, crashes>>

\* Under bestEffort the error goes to onError, if the caller gave one:
\* failDelivery follows a reported error, ackDelivery an unreported one.
SendSwallows(a) ==
    /\ jobs[a].pc = "sending"
    /\ jobs[a].msg \in bestEffort
    /\ Goes(a, IF a \in Messages /\ a \in Reporting THEN "read" ELSE "ack")
    /\ UNCHANGED <<json, marker, parked, received, withdrawn, accepted, acked, bestEffort, crashes>>

\* The caller's abort signal, or a message_sending hook that cancels: such a
\* send is acknowledged.
SendWithdrawn(a) ==
    /\ jobs[a].pc = "sending"
    /\ withdrawn' = withdrawn \cup {jobs[a].msg}
    /\ Goes(a, "ack")
    /\ UNCHANGED <<json, marker, parked, received, accepted, acked, bestEffort, crashes>>

\* A channel's request runs into its own timeout and throws an AbortError.  The
\* wrapper takes it for the caller's abort and acknowledges a message that
\* nobody withdrew; a recovery takes it for any error (SendThrows).
SendTimesOut(m) ==
    /\ jobs[m].pc = "sending"
    /\ m \in OwnAborts \ bestEffort
    /\ Goes(m, "ack")
    /\ UNCHANGED <<json, marker, parked, received, withdrawn, accepted, acked, bestEffort, crashes>>

\* ackDelivery, phase 1: the rename, or the clean-up when the file is gone.
AckRename(a) ==
    LET m == jobs[a].msg
    IN  /\ jobs[a].pc = "ack"
        /\ IF m \in OnDisk
           THEN /\ json' = [json EXCEPT ![m] = NoEntry]
                /\ marker' = marker \cup {m}
                /\ acked' = acked \cup {m}
                /\ Goes(a, "unlink")
           ELSE /\ marker' = marker \ {m}
                /\ Goes(a, Next1(a))
                /\ UNCHANGED <<json, acked>>
        /\ UNCHANGED <<parked, received, withdrawn, accepted, bestEffort, crashes>>

\* ackDelivery, phase 2.
AckUnlink(a) ==
    /\ jobs[a].pc = "unlink"
    /\ marker' = marker \ {jobs[a].msg}
    /\ Goes(a, Next1(a))
    /\ UNCHANGED <<json, parked, received, withdrawn, accepted, acked, bestEffort, crashes>>

\* failDelivery reads the entry; without one it throws and is ignored.
FailRead(a) ==
    LET m == jobs[a].msg
    IN  /\ jobs[a].pc = "read"
        /\ jobs' = IF m \in OnDisk
                   THEN [jobs EXCEPT ![a].pc = "write", ![a].read = json[m]]
                   ELSE [jobs EXCEPT ![a].pc = Next1(a)]
        /\ UNCHANGED <<json, marker, parked, received, withdrawn, accepted, acked, bestEffort, crashes>>

\* failDelivery writes back what it read, counted up.
FailWrite(a) ==
    LET m == jobs[a].msg
    IN  /\ jobs[a].pc = "write"
        /\ json' = [json EXCEPT ![m] =
               [retryCount |-> jobs[a].read.retryCount + 1, tried |-> TRUE]]
        /\ jobs' = [jobs EXCEPT ![a].pc = Next1(a), ![a].read = NoEntry]
        /\ UNCHANGED <<marker, parked, received, withdrawn, accepted, acked, bestEffort, crashes>>

-----------------------------------------------------------------------------
\* Mutant: a leftover marker counts as a delivery to be made again.
ScanRevives(r) ==
    /\ jobs[r].pc = "scan"
    /\ json' = [m \in Messages |-> IF m \in marker THEN Written ELSE json[m]]
    /\ marker' = {}
    /\ jobs' = [jobs EXCEPT ![r].pc = "load", ![r].names = OnDisk \cup marker]
    /\ UNCHANGED <<parked, received, withdrawn, accepted, acked, bestEffort, crashes>>

\* loadPendingDeliveries lists the directory and unlinks the markers.
Scan(r) ==
    /\ jobs[r].pc = "scan"
    /\ marker' = {}
    /\ jobs' = [jobs EXCEPT ![r].pc = "load", ![r].names = OnDisk]
    /\ UNCHANGED <<json, parked, received, withdrawn, accepted, acked, bestEffort, crashes>>

\* It reads the files one by one; a file that is gone by then is skipped.
Load(r) ==
    /\ jobs[r].pc = "load"
    /\ \E m \in jobs[r].names :
         jobs' = [jobs EXCEPT
             ![r].names = @ \ {m},
             ![r].pending = IF m \in OnDisk THEN @ \cup {<<m, json[m]>>} ELSE @]
    /\ UNCHANGED <<json, marker, parked, received, withdrawn, accepted, acked, bestEffort, crashes>>

Loaded(r) ==
    /\ jobs[r].pc = "load"
    /\ jobs[r].names = {}
    /\ Goes(r, "first")
    /\ UNCHANGED <<json, marker, parked, received, withdrawn, accepted, acked, bestEffort, crashes>>

\* recoverPendingDeliveries takes the entries by age, the oldest first.
Oldest(r) == {e \in jobs[r].pending : \A f \in jobs[r].pending : e[1] <= f[1]}

Choosing(r) == jobs[r].pc \in {"first", "next"}

Takes(r, e, pc) ==
    jobs' = [jobs EXCEPT ![r].pc = pc, ![r].msg = e[1], ![r].pending = @ \ {e}]

\* Mutant: one retry too many.
ExhaustedLate(e) == e[2].retryCount > MaxRetries

Exhausted(e) == e[2].retryCount >= MaxRetries

\* Mutant: an exhausted entry is skipped and stays where it is.
GiveUpSkips(r) ==
    /\ Choosing(r)
    /\ \E e \in Oldest(r) : Exhausted(e) /\ Takes(r, e, "next")
    /\ UNCHANGED <<json, marker, parked, received, withdrawn, accepted, acked, bestEffort, crashes>>

\* An entry is given up after MaxRetries, left alone while its backoff lasts,
\* or sent.  One that was never attempted is sent at once.
GiveUp(r) ==
    /\ Choosing(r)
    /\ \E e \in Oldest(r) : Exhausted(e) /\ Takes(r, e, "park")
    /\ UNCHANGED <<json, marker, parked, received, withdrawn, accepted, acked, bestEffort, crashes>>

Defer(r) ==
    /\ Choosing(r)
    /\ \E e \in Oldest(r) : ~Exhausted(e) /\ e[2].tried /\ Takes(r, e, "next")
    /\ UNCHANGED <<json, marker, parked, received, withdrawn, accepted, acked, bestEffort, crashes>>

Attempt(r) ==
    /\ Choosing(r)
    /\ \E e \in Oldest(r) : ~Exhausted(e) /\ Takes(r, e, "sending")
    /\ UNCHANGED <<json, marker, parked, received, withdrawn, accepted, acked, bestEffort, crashes>>

\* The loop ends: nothing is left, or the time budget is spent, which takes
\* at least one entry.
EndRecovery(r) ==
    /\ Choosing(r)
    /\ jobs[r].pending = {} \/ jobs[r].pc = "next"
    /\ jobs' = [jobs EXCEPT ![r] = Idle]
    /\ UNCHANGED <<json, marker, parked, received, withdrawn, accepted, acked, bestEffort, crashes>>

\* moveToFailed; without a file it throws and is logged.
Park(r) ==
    LET m == jobs[r].msg
    IN  /\ jobs[r].pc = "park"
        /\ IF m \in OnDisk
           THEN parked' = parked \cup {m} /\ json' = [json EXCEPT ![m] = NoEntry]
           ELSE UNCHANGED <<parked, json>>
        /\ Goes(r, "next")
        /\ UNCHANGED <<marker, received, withdrawn, accepted, acked, bestEffort, crashes>>

-----------------------------------------------------------------------------
\* The process dies and is started again: only the files are left.
Crash ==
    /\ crashes < MaxCrashes
    /\ crashes' = crashes + 1
    /\ \E r \in Recoveries :
         jobs' = [a \in Actors |->
             IF a = r THEN [Idle EXCEPT !.pc = "scan"]
             ELSE IF a \in Messages /\ jobs[a].pc # "idle" THEN [Idle EXCEPT !.pc = "done"]
             ELSE Idle]
    /\ UNCHANGED <<json, marker, parked, received, withdrawn, accepted, acked, bestEffort>>

\* The gateway restarts in place and starts one more recovery.
Restart(r) ==
    /\ CanRestart
    /\ jobs[r].pc = "idle"
    /\ Goes(r, "scan")
    /\ UNCHANGED <<json, marker, parked, received, withdrawn, accepted, acked, bestEffort, crashes>>

Send(a) ==
    \/ Received(a) \/ SendThrows(a) \/ SendSwallows(a) \/ SendWithdrawn(a)
    \/ a \in Messages /\ SendTimesOut(a)

Settles(a) == AckRename(a) \/ AckUnlink(a) \/ FailRead(a) \/ FailWrite(a)

Recover(r) ==
    Scan(r) \/ Load(r) \/ Loaded(r) \/ GiveUp(r) \/ Defer(r) \/ EndRecovery(r) \/ Park(r)

Next ==
    \/ \E m \in Messages : Enqueue(m)
    \/ \E a \in Actors : Send(a) \/ Settles(a)
    \/ \E r \in Recoveries : Recover(r) \/ Attempt(r) \/ Restart(r)
    \/ Crash

Spec == Init /\ [][Next]_vars

\* Awaited calls settle.  A restarted gateway sends an entry whose backoff
\* has passed, and waits for the backoff only so often.
FairSpec ==
    /\ Spec
    /\ \A a \in Actors : WF_vars(Send(a)) /\ WF_vars(Settles(a))
    /\ \A r \in Recoveries : WF_vars(Recover(r)) /\ SF_vars(Attempt(r))

-----------------------------------------------------------------------------
Entry == {NoEntry, Written} \cup [retryCount : Nat \ {0}, tried : {TRUE}]

Pcs == {"idle", "sending", "unlogged", "ack", "unlink", "read", "write", "done",
        "scan", "load", "first", "next", "park"}

TypeOK ==
    /\ json \in [Messages -> Entry]
    /\ jobs \in [Actors -> [pc : Pcs, msg : 0..N, read : Entry, names : SUBSET Messages,
                            pending : SUBSET (Messages \X (Entry \ {NoEntry}))]]
    /\ received \in [Messages -> 0..2]
    /\ marker \subseteq accepted /\ parked \subseteq accepted /\ acked \subseteq accepted
    /\ accepted \subseteq Messages /\ withdrawn \subseteq Messages
    /\ bestEffort \subseteq BestEffort
    /\ crashes \in 0..MaxCrashes

\* While recoveries do not overlap, an entry is tried MAX_RETRIES times, and
\* once more if its live sender's own try was still under way.
RetriesBounded == \A m \in Messages : json[m].retryCount <= MaxRetries + 1

Writing(m) == \E a \in Actors : jobs[a].pc = "write" /\ jobs[a].msg = m

\* Once renamed to {id}.delivered, an entry comes back only through a
\* failDelivery that had read it before the rename.
AckedStaysGone ==
    [][\A m \in Messages : m \in acked /\ json'[m] # NoEntry =>
         Writing(m) \/ json[m] # NoEntry]_json

\* The messages the queue makes a promise of: not those whose caller may ask for best effort,
\* and not those of a channel whose timeouts pass for the caller's abort.  A message
\* without a file that nobody settled would be lost.
Firm == Messages \ (BestEffort \cup OwnAborts)

Outcome(m) ==
    IF m \notin accepted THEN "new"
    ELSE IF received[m] > 0 THEN "received"
    ELSE IF m \in withdrawn THEN "withdrawn"
    ELSE IF m \in parked THEN "parked"
    ELSE IF m \in OnDisk THEN "owed" ELSE "lost"

Contract == INSTANCE DeliveryContract WITH
    Messages <- Firm, outcome <- [m \in Firm |-> Outcome(m)]

\* No interleaving of senders, recoveries, restarts and crashes loses a firm
\* message that was written to disk.
KeepsContract == Contract!Spec

\* "Persist before sending, remove after success": an entry goes away when its
\* message was received, or withdrawn.  TLC refutes it for OwnAborts.
RemovedAfterSuccess ==
    \A m \in Messages \ bestEffort : m \in acked => received[m] > 0 \/ m \in withdrawn

\* A message is sent to its recipient at most once.
SentOnce == \A m \in Messages : received[m] <= 1

\* If the gateway is started over and over, no message stays owed for ever.
OwedIsSettled ==
    ([]<>(\E r \in Recoveries : jobs[r].pc = "scan")) =>
      \A m \in Firm : Outcome(m) = "owed" ~> Outcome(m) # "owed"
=============================================================================
