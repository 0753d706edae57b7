--------------------------- MODULE FollowupQueue ---------------------------
(***************************************************************************)
(* The follow-up queue of one session (src/auto-reply/reply/queue/*.ts and *)
(* src/utils/queue-helpers.ts): messages that arrive while the agent works *)
(* wait in a queue object registered under the session's key, and an async *)
(* drain loop hands them to the agent one by one or in one batch.          *)
(*                                                                         *)
(* A drain closes over the queue OBJECT it started on, while the registry  *)
(* is looked up by key, so objects have an identity here: `current` is the *)
(* registered one, and an object that a clear or another drain removed     *)
(* from the registry lives on as long as its drain does.                   *)
(*                                                                         *)
(* Abstractions.  A message stands for its run record and carries an id,   *)
(* which stays in the dedupe cache: a behaviour is shorter than the        *)
(* cache's five minutes and ten thousand ids.                              *)
(* Of the modes only collect or not matters to the drain.  summaryLines is *)
(* text; what it says is followed by the status of the dropped messages.   *)
(* The flag `draining` is pc # "idle".  lastRun is undefined only in an    *)
(* object a clear has emptied, where both loops leave by their first break.*)
(***************************************************************************)
EXTENDS Integers, Sequences, FiniteSets

CONSTANTS
    Messages,     \* messages for the session
    RouteOf,      \* the reply route of each message
    Unroutable,   \* a route resolveCrossChannelKey gives no key but `cross`
    Settings,     \* queue settings a message can bring: [mode, cap, drop]
    QueueIds,     \* bound: queue objects alive at the same time
    MaxTurns,     \* bound: direct turns of the session in progress
    CanClear      \* whether the session's queues are ever cleared

\* No object is registered under the key.
None == 0

ASSUME FollowupAssumption ==
    /\ IsFiniteSet(Messages)
    /\ Settings \subseteq [mode : {"collect", "followup"}, cap : Nat \ {0},
                           drop : {"summarize", "old", "new"}]
    /\ QueueIds \subseteq Nat \ {0}
    /\ MaxTurns \in Nat
    /\ CanClear \in BOOLEAN

VARIABLES
    followups,   \* FOLLOWUP_QUEUES and FOLLOWUP_RUN_CALLBACKS for the key
    recent,      \* RECENT_QUEUE_MESSAGE_IDS
    turns,       \* direct turns that will call finalizeWithFollowup
    admitted,    \* messages whose handler saw an active run and will enqueue
    status       \* what became of each message

vars == <<followups, recent, turns, admitted, status>>

Statuses == {"idle", "waiting", "answered", "rejected", "dropped", "told", "cleared"}

-----------------------------------------------------------------------------
\* A queue object and the drain that closed over it: the loop's pc, its
\* collectState, and what the run it awaits carries and will remove.
Fresh == [items |-> <<>>, mode |-> "collect", cap |-> 1, drop |-> "summarize",
          droppedCount |-> 0, pc |-> "idle", forced |-> FALSE,
          carried |-> {}, take |-> 0, told |-> {}, summary |-> FALSE]

InQueue(q) == {q.items[i] : i \in DOMAIN q.items}

Pending(q) == q.items # <<>> \/ q.droppedCount > 0

\* hasCrossChannelItems: an unroutable message, or two different routes.
CrossChannel(q) ==
    LET routes == {RouteOf[m] : m \in InQueue(q)}
    IN  Unroutable \in routes \/ Cardinality(routes) > 1

\* previewQueueSummaryPrompt returns a prompt.
Summarizes(q) == q.drop = "summarize" /\ q.droppedCount > 0

\* splice(0, n).
Without(items, n) == SubSeq(items, n + 1, Len(items))

\* An object neither registered nor closed over by a drain is garbage.
Collected(f) ==
    [f EXCEPT !.queues = [i \in QueueIds |->
        IF i # f.current /\ f.queues[i].pc = "idle" THEN Fresh ELSE f.queues[i]]]

Deleted(f) == [f EXCEPT !.current = None]

\* scheduleFollowupDrain(key): a drain begins on the registered object unless
\* one runs there; on an empty object its loop ends at once.
Scheduled(f) ==
    IF f.current = None \/ f.queues[f.current].pc # "idle" THEN f
    ELSE IF Pending(f.queues[f.current])
         THEN [f EXCEPT !.callback = TRUE,
                        !.queues[f.current].pc = "debounce",
                        !.queues[f.current].forced = FALSE]
         ELSE Deleted([f EXCEPT !.callback = TRUE])

\* Mutant: nobody restarts an idle drain.
NeverKicked(f) == f

\* kickFollowupDrainIfIdle, with the callback of the last drain if known.
Kicked(f) == IF f.callback THEN Scheduled(f) ELSE f

\* Mutant: the drain ends without looking at what is left.
DrainedNoReschedule(f, i) ==
    LET g == [f EXCEPT !.queues[i].pc = "idle"]
    IN  IF Pending(g.queues[i]) THEN g ELSE Deleted(g)

\* Mutant: the drain's end always deletes the key.
DrainedAlwaysDeletes(f, i) == Deleted([f EXCEPT !.queues[i].pc = "idle"])

\* The finally block of the drain on object i: it deletes whatever is
\* registered under the key, or schedules a drain of it.
Drained(f, i) ==
    LET g == [f EXCEPT !.queues[i].pc = "idle"]
    IN  IF Pending(g.queues[i]) THEN Scheduled(g) ELSE Deleted(g)

\* Mutant: the overflow makes room one slot short.
OverflowShort(q) ==
    IF Len(q.items) < q.cap THEN {} ELSE {q.items[j] : j \in 1..(Len(q.items) - q.cap)}

\* The messages applyQueueDropPolicy takes off the head for one more.
Overflow(q) ==
    IF Len(q.items) < q.cap THEN {}
    ELSE {q.items[j] : j \in 1..(Len(q.items) - q.cap + 1)}

\* Mutant: a new message goes to the head of the queue.
PushedFirst(q, m) ==
    [q EXCEPT !.items = <<m>> \o Without(q.items, Cardinality(Overflow(q))),
              !.droppedCount = IF q.drop = "summarize"
                               THEN @ + Cardinality(Overflow(q)) ELSE @]

Pushed(q, m) ==
    [q EXCEPT !.items = Append(Without(q.items, Cardinality(Overflow(q))), m),
              !.droppedCount = IF q.drop = "summarize"
                               THEN @ + Cardinality(Overflow(q)) ELSE @]

\* getFollowupQueue: the registered object, or a new one, with the settings
\* of the message at hand.
WithQueue(f, i, s) ==
    [f EXCEPT !.current = i,
              !.queues[i].mode = s.mode, !.queues[i].cap = s.cap,
              !.queues[i].drop = s.drop]

-----------------------------------------------------------------------------
Init ==
    /\ followups = [queues |-> [i \in QueueIds |-> Fresh], current |-> None,
                    callback |-> FALSE]
    /\ recent = {}
    /\ turns = 0
    /\ admitted = {}
    /\ status = [m \in Messages |-> "idle"]

Running(i) == followups.queues[i].pc = "running"

\* A message finds no active run and becomes a direct turn.
StartTurn ==
    /\ turns < MaxTurns
    /\ turns' = turns + 1
    /\ UNCHANGED <<followups, recent, admitted, status>>

\* finalizeWithFollowup, on every path out of a direct turn.
EndTurn ==
    /\ turns > 0
    /\ turns' = turns - 1
    /\ followups' = Collected(Scheduled(followups))
    /\ UNCHANGED <<recent, admitted, status>>

\* The handler of a message, new or delivered again, sees an active run; it
\* awaits the session's auth profile before it enqueues.
Admit(m) ==
    /\ m \notin admitted
    /\ turns > 0 \/ \E i \in QueueIds : Running(i)
    /\ admitted' = admitted \cup {m}
    /\ UNCHANGED <<followups, recent, turns, status>>

\* enqueueFollowupRun: the settings apply even when the message is then
\* refused as a duplicate or by the "new" policy.
Enqueue(m, s) ==
    /\ m \in admitted
    /\ admitted' = admitted \ {m}
    /\ \E i \in QueueIds :
         LET f == WithQueue(followups, i, s)
             q == f.queues[i]
         IN  /\ IF followups.current # None THEN i = followups.current
                ELSE /\ followups.queues[i].pc = "idle"
                     /\ \A j \in QueueIds : followups.queues[j].pc = "idle" => i <= j
             /\ \/ /\ m \in recent \cup InQueue(q)
                   /\ followups' = f
                   /\ UNCHANGED <<recent, status>>
                \/ /\ m \notin recent \cup InQueue(q)
                   /\ q.drop = "new" /\ Overflow(q) # {}
                   /\ followups' = f
                   /\ status' = [status EXCEPT ![m] = "rejected"]
                   /\ UNCHANGED recent
                \/ /\ m \notin recent \cup InQueue(q)
                   /\ q.drop # "new" \/ Overflow(q) = {}
                   /\ followups' = Kicked([f EXCEPT !.queues[i] = Pushed(q, m)])
                   /\ recent' = recent \cup {m}
                   /\ status' = [n \in Messages |->
                          IF n = m THEN "waiting"
                          ELSE IF n \notin Overflow(q) THEN status[n]
                          ELSE IF q.drop = "summarize" THEN "dropped" ELSE "rejected"]
    /\ UNCHANGED turns

\* The run the loop awaits next carries the prompts of `carried`, removes
\* `take` items when it ends and, with a summary, tells of the drops so far.
Awaits(q, carried, take, summary) ==
    [q EXCEPT !.pc = "running", !.carried = carried, !.take = take,
              !.summary = summary,
              !.told = IF summary THEN {m \in Messages : status[m] = "dropped"} ELSE {}]

\* The loop's body after the debounce: it starts a run, or breaks.
Wake(i) ==
    LET q      == followups.queues[i]
        forced == q.mode = "collect" /\ (q.forced \/ CrossChannel(q))
        starts(r) == [followups EXCEPT !.queues[i] =
                         [r EXCEPT !.forced = q.forced \/ forced]]
    IN  /\ q.pc = "debounce"
        /\ \/ /\ \/ ~Pending(q)
                 \/ q.items = <<>> /\ (q.mode = "followup" \/ forced)
              /\ followups' = Collected(Drained(followups, i))
           \/ /\ Pending(q) /\ q.mode = "collect" /\ ~forced
              /\ followups' = starts(Awaits(q, InQueue(q), Len(q.items), Summarizes(q)))
           \/ /\ q.items # <<>>
              /\ q.mode = "followup" /\ Summarizes(q)
              /\ followups' = starts(Awaits(q, {}, 1, TRUE))
           \/ /\ q.items # <<>>
              /\ forced \/ (q.mode = "followup" /\ ~Summarizes(q))
              /\ followups' = starts(Awaits(q, {Head(q.items)}, 1, FALSE))
        /\ UNCHANGED <<recent, turns, admitted, status>>

\* Mutant: the batch stays in the queue after its run.
AfterRunKeeps(q) ==
    [q EXCEPT !.droppedCount = IF q.summary THEN 0 ELSE @,
              !.carried = {}, !.take = 0, !.told = {}, !.summary = FALSE]

\* The object after its run has ended well.
AfterRun(q) ==
    [q EXCEPT !.items = Without(q.items, q.take),
              !.droppedCount = IF q.summary THEN 0 ELSE @,
              !.carried = {}, !.take = 0, !.told = {}, !.summary = FALSE]

\* The awaited run ends: the items it stood for leave the queue and the loop
\* goes on, or its finally block runs.
RunSucceeds(i) ==
    LET q == followups.queues[i]
        f == [followups EXCEPT !.queues[i] = AfterRun(q)]
    IN  /\ Running(i)
        /\ followups' = IF Pending(f.queues[i])
                        THEN [f EXCEPT !.queues[i].pc = "debounce"]
                        ELSE Collected(Drained(f, i))
        /\ status' = [m \in Messages |->
               IF m \in q.carried THEN "answered"
               ELSE IF m \in q.told THEN "told" ELSE status[m]]
        /\ UNCHANGED <<recent, turns, admitted>>

\* The awaited run throws: everything stays queued for the next drain.
RunFails(i) ==
    /\ Running(i)
    /\ followups' = Collected(Drained(
           [followups EXCEPT !.queues[i].carried = {}, !.queues[i].take = 0,
                             !.queues[i].told = {}, !.queues[i].summary = FALSE], i))
    /\ UNCHANGED <<recent, turns, admitted, status>>

\* clearSessionQueues: the registered object is emptied and removed, and the
\* callback is forgotten; a drain of it goes on.
Clear ==
    /\ CanClear
    /\ LET i == followups.current
           f == IF i = None THEN followups
                ELSE [followups EXCEPT !.queues[i].items = <<>>,
                                       !.queues[i].droppedCount = 0]
       IN  /\ followups' = Collected(Deleted([f EXCEPT !.callback = FALSE]))
           /\ status' = [m \in Messages |->
                  IF i # None /\ (m \in InQueue(followups.queues[i]) \/ status[m] = "dropped")
                  THEN "cleared" ELSE status[m]]
    /\ UNCHANGED <<recent, turns, admitted>>

Next ==
    \/ StartTurn \/ EndTurn \/ Clear
    \/ \E m \in Messages : Admit(m) \/ \E s \in Settings : Enqueue(m, s)
    \/ \E i \in QueueIds : Wake(i) \/ RunSucceeds(i) \/ RunFails(i)

Spec == Init /\ [][Next]_vars

\* Timers fire and runs settle (agent runs carry a timeout); a run that is
\* tried again and again ends well at last.
FairSpec ==
    /\ Spec
    /\ WF_vars(EndTurn)
    /\ \A i \in QueueIds : WF_vars(Wake(i)) /\ SF_vars(RunSucceeds(i))

-----------------------------------------------------------------------------
TypeOK ==
    /\ followups \in
         [queues : [QueueIds ->
             [items : Seq(Messages), mode : {"collect", "followup"}, cap : Nat \ {0},
              drop : {"summarize", "old", "new"}, droppedCount : Nat,
              pc : {"idle", "debounce", "running"}, forced : BOOLEAN,
              carried : SUBSET Messages, take : Nat, told : SUBSET Messages,
              summary : BOOLEAN]],
          current : QueueIds \cup {None}, callback : BOOLEAN]
    /\ recent \subseteq Messages
    /\ turns \in 0..MaxTurns
    /\ admitted \subseteq Messages
    /\ status \in [Messages -> Statuses]

\* Once a drain has run since the last clear, the registered queue never
\* holds messages without a drain: neither the end of a drain nor an enqueue
\* after it leaves them for a turn that may not come.
KnownCallbackDrains ==
    followups.current # None /\ followups.callback =>
      LET q == followups.queues[followups.current]
      IN  q.items # <<>> => q.pc # "idle"

\* What a run carries and the queue still holds is the front of the queue,
\* whatever arrived, overflowed or was cleared since the run started: the
\* splice and the shift after the await rely on it.
InFlightIsPrefix ==
    \A i \in QueueIds :
      LET q == followups.queues[i]
      IN  \A j, k \in DOMAIN q.items :
            k < j /\ q.items[j] \in q.carried => q.items[k] \in q.carried

\* A message is never handed to the agent again after a run that ended well:
\* no retry, redelivery, clear or restart of the drain answers it twice.
AnsweredOnce ==
    [][\A i \in QueueIds, m \in Messages :
         /\ m \in followups'.queues[i].carried
         /\ m \notin followups.queues[i].carried
         => status[m] # "answered"]_vars

\* A queue that takes a message in is within the cap that message brought,
\* also when the cap was lowered below what already waited.
AcceptedWithinCap ==
    [][\A i \in QueueIds, m \in Messages :
         /\ m \notin InQueue(followups.queues[i])
         /\ m \in InQueue(followups'.queues[i])
         => Len(followups'.queues[i].items) <= followups'.queues[i].cap]_vars

\* A message that was taken in and neither answered, dropped nor cleared is
\* still in a queue that is registered or being drained.
NothingLost ==
    \A m \in Messages : status[m] = "waiting" =>
      \E i \in QueueIds :
        /\ m \in InQueue(followups.queues[i])
        /\ i = followups.current \/ followups.queues[i].pc # "idle"

\* A run stands for as many items as it will remove: what leaves the queue
\* after a run has been put to the agent.
RunCarriesWhatItTakes ==
    \A i \in QueueIds :
      LET q == followups.queues[i] IN q.pc = "running" => q.take = Cardinality(q.carried)

\* A message that waits while a drain is known is answered, although runs
\* fail, settings change and messages keep arriving.
WaitingIsAnswered ==
    \A m \in Messages :
      status[m] = "waiting" /\ followups.callback ~> status[m] = "answered"
=============================================================================
