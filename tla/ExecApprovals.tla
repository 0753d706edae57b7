--------------------------- MODULE ExecApprovals ---------------------------
(***************************************************************************)
(* Approvals of commands (src/gateway/exec-approval-manager.ts) and the    *)
(* handlers exec.approval.request and exec.approval.resolve.               *)
(*                                                                         *)
(* A request makes one record; its id may be chosen by the caller, so that *)
(* several records share an id one after the other.  The map finds entries *)
(* by id; timers close over an id (the expiry) or an entry (the removal).  *)
(*                                                                         *)
(* Time is a phase of each record: "fresh" before expiresAtMs, "due" in    *)
(* that very millisecond, "late" after it.                                 *)
(***************************************************************************)
EXTENDS Naturals, FiniteSets

CONSTANTS
    Requests,   \* calls of exec.approval.request, each with its record
    Ids,
    IdOf,       \* the approval id of each request
    NoEntry

ASSUME ApprovalsAssumption == IdOf \in [Requests -> Ids] /\ NoEntry \notin Requests

VARIABLES
    pending,    \* the record in the entry of each id
    record,     \* each record: [phase, decision, by], with resolvedBy in by
    promise,    \* each record's decision promise: "open", "null" or a decision
    handler,    \* each request's handler: [pc, routed], routed if there were
                \* clients to ask
    expiry,     \* records whose expiry timer is set
    removal     \* records whose removal after the grace period is set

approvalVars == <<pending, record, promise, handler, expiry, removal>>

Decisions == {"allow-once", "allow-always", "deny"}

ApprovalsTypeOK ==
    /\ pending \in [Ids -> Requests \cup {NoEntry}]
    /\ record \in [Requests -> [phase : {"fresh", "due", "late"},
                                decision : Decisions \cup {"unset"},
                                by : {"unset", "timer", "no-route", "operator"}]]
    /\ promise \in [Requests -> Decisions \cup {"none", "open", "null"}]
    /\ handler \in [Requests -> [pc : {"idle", "forwarding", "done"}, routed : BOOLEAN]]
    /\ expiry \subseteq Requests /\ removal \subseteq Requests

-----------------------------------------------------------------------------
\* The entry of an id that still waits for a decision: resolvedAtMs is unset.
Undecided(id) == pending[id] # NoEntry /\ record[pending[id]].by = "unset"

\* Mutant: the expiry timer survives the decision.
SettleKeepsTimer(r, decision, by) ==
    /\ record' = [record EXCEPT ![r].decision = decision, ![r].by = by]
    /\ promise' = [promise EXCEPT ![r] = IF decision = "unset" THEN "null" ELSE decision]
    /\ removal' = removal \cup {r}
    /\ UNCHANGED expiry

\* What resolve and expire do to the entry of an undecided record.
Settle(r, decision, by) ==
    /\ record' = [record EXCEPT ![r].decision = decision, ![r].by = by]
    /\ promise' = [promise EXCEPT ![r] = IF decision = "unset" THEN "null" ELSE decision]
    /\ removal' = removal \cup {r}
    /\ expiry' = expiry \ {r}

\* Mutant: an expired entry is dropped at once, with its promise.
ExpireDrops(id, by) ==
    IF Undecided(id)
    THEN /\ pending' = [pending EXCEPT ![id] = NoEntry]
         /\ UNCHANGED <<record, promise, expiry, removal>>
    ELSE UNCHANGED <<pending, record, promise, expiry, removal>>

\* expire(id): whichever entry has the id now.
Expire(id, by) ==
    /\ IF Undecided(id) THEN Settle(pending[id], "unset", by)
       ELSE UNCHANGED <<record, promise, expiry, removal>>
    /\ UNCHANGED pending

-----------------------------------------------------------------------------
\* exec.approval.request: an id in the map is refused; else the record is
\* registered and the forwarder awaited.
Request(r) ==
    /\ handler[r].pc = "idle"
    /\ IF pending[IdOf[r]] # NoEntry
       THEN /\ handler' = [handler EXCEPT ![r].pc = "done"]
            /\ UNCHANGED <<pending, promise, expiry>>
       ELSE /\ \E routed \in BOOLEAN :
                  handler' = [handler EXCEPT ![r] = [pc |-> "forwarding", routed |-> routed]]
            /\ pending' = [pending EXCEPT ![IdOf[r]] = r]
            /\ promise' = [promise EXCEPT ![r] = "open"]
            /\ expiry' = expiry \cup {r}
    /\ UNCHANGED <<record, removal>>

\* The forwarder ends.  With nobody to ask the approval expires, by its id;
\* else the handler has only to reply with the decision once it is made.
Forwarded(r) ==
    /\ handler[r].pc = "forwarding"
    /\ handler' = [handler EXCEPT ![r] = [pc |-> "done", routed |-> FALSE]]
    /\ \/ UNCHANGED <<pending, record, promise, expiry, removal>>
       \/ ~handler[r].routed /\ Expire(IdOf[r], "no-route")

\* exec.approval.resolve: lookupPendingId finds undecided entries only.
Resolve(id, decision) ==
    /\ Undecided(id)
    /\ Settle(pending[id], decision, "operator")
    /\ UNCHANGED <<pending, handler>>

\* The expiry timer of r.
ExpiryFires(r) ==
    /\ r \in expiry /\ record[r].phase # "fresh"
    /\ \/ Undecided(IdOf[r]) /\ Settle(pending[IdOf[r]], "unset", "timer")
       \/ ~Undecided(IdOf[r]) /\ expiry' = expiry \ {r} /\ UNCHANGED <<record, promise, removal>>
    /\ UNCHANGED <<pending, handler>>

\* The removal of a decided entry, unless the id has a newer one.
RemovalFires(r) ==
    /\ r \in removal
    /\ removal' = removal \ {r}
    /\ pending' = IF pending[IdOf[r]] = r THEN [pending EXCEPT ![IdOf[r]] = NoEntry] ELSE pending
    /\ UNCHANGED <<record, promise, handler, expiry>>

\* consumeAllowOnce
Consume(r) == record' = [record EXCEPT ![r].decision = "unset"]

\* Time passes for a record in the map.
Pass(r) ==
    /\ pending[IdOf[r]] = r /\ record[r].phase # "late"
    /\ record' = [record EXCEPT ![r].phase = IF @ = "fresh" THEN "due" ELSE "late"]
    /\ UNCHANGED <<pending, promise, handler, expiry, removal>>

-----------------------------------------------------------------------------
ApprovalsInit ==
    /\ pending = [id \in Ids |-> NoEntry]
    /\ record = [r \in Requests |-> [phase |-> "fresh", decision |-> "unset", by |-> "unset"]]
    /\ promise = [r \in Requests |-> "none"]
    /\ handler = [r \in Requests |-> [pc |-> "idle", routed |-> FALSE]]
    /\ expiry = {} /\ removal = {}

ApprovalsNext ==
    \/ \E r \in Requests : \/ Request(r) \/ Forwarded(r)
                           \/ ExpiryFires(r) \/ RemovalFires(r) \/ Pass(r)
    \/ \E id \in Ids, d \in Decisions : Resolve(id, d)

-----------------------------------------------------------------------------
\* Nobody waits for ever: an open decision belongs to the entry its id finds,
\* whose own expiry timer is set, and a decided entry has its removal set, so
\* that its id becomes free again.
OpenIsPending ==
    /\ \A r \in Requests : promise[r] = "open" => pending[IdOf[r]] = r /\ r \in expiry
    /\ \A id \in Ids : pending[id] # NoEntry /\ ~Undecided(id) => pending[id] \in removal

\* A timer never ends an approval before its own time: not the timer of an
\* earlier approval with the same id.
NoEarlyExpiry ==
    \A r \in Requests : record[r].by = "timer" => record[r].phase # "fresh"
=============================================================================
