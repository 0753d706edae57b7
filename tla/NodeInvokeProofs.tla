-------------------------- MODULE NodeInvokeProofs --------------------------
(***************************************************************************)
(* Proofs about NodeInvoke for any nodes, connections, invokes, approvals  *)
(* and ids.                                                                *)
(*                                                                         *)
(* The registry and the approvals share no variable: each has a part of    *)
(* the inductive invariant, and a third part says what the invokes that    *)
(* were forwarded tell of the approval they refer to.                      *)
(***************************************************************************)
EXTENDS NodeInvoke, FiniteSetTheorems, TLAPS

\* A session is on a connection of its node.
SessionOfNode ==
    \A n \in Nodes : nodesById[n] # None => NodeOf[nodesById[n]] = n

\* Who waits, waits for a node.
WaitsForNode ==
    \A i \in Invokes : invoke[i].pc = "waiting" => invoke[i].node \in Nodes

RegistryInv == RegistryTypeOK /\ SessionOfNode /\ WaitsForNode /\ WaitingHasSession

\* An entry is found by its own id, and has a promise.
EntryMatches ==
    \A id \in Ids : pending[id] # NoEntry =>
        IdOf[pending[id]] = id /\ promise[pending[id]] # "none"

\* An expiry timer is that of an undecided entry, a removal that of a record
\* with its decision.
TimersMatch ==
    /\ \A r \in expiry : pending[IdOf[r]] = r /\ promise[r] = "open"
    /\ \A r \in removal : promise[r] \notin {"none", "open"}

\* Record and promise agree about who decided what; only an allow-once may
\* have been taken back from the record, by its consumption.
RecordMatches ==
    \A r \in Requests :
        /\ record[r].by = "unset" <=> promise[r] \in {"none", "open"}
        /\ record[r].by \in {"timer", "no-route"} <=> promise[r] = "null"
        /\ record[r].by # "operator" => record[r].decision = "unset"
        /\ promise[r] \in Decisions =>
              \/ record[r].decision = promise[r]
              \/ promise[r] = "allow-once" /\ record[r].decision = "unset"

\* A record nobody asked for is blank, and in no entry.
IdleIsBlank ==
    \A r \in Requests : handler[r].pc = "idle" =>
        /\ promise[r] = "none"
        /\ pending[IdOf[r]] # r
        /\ record[r].phase = "fresh"

ApprovalsInv ==
    /\ ApprovalsTypeOK
    /\ EntryMatches /\ TimersMatch /\ RecordMatches /\ IdleIsBlank
    /\ OpenIsPending /\ NoEarlyExpiry

\* An invoke that was not tried refers to no approval; an approval without a
\* decision has no runs, nor has one that could still be consumed.
RunsMatch ==
    /\ approvedBy \in [Invokes -> Requests \cup {NoEntry}]
    /\ \A i \in Invokes : invoke[i].pc \in {"idle", "refused"} => approvedBy[i] = NoEntry
    /\ \A r \in Requests :
          promise[r] \in {"none", "open"} \/ record[r].decision = "allow-once" => RunsOf(r) = {}

IInv == RegistryInv /\ ApprovalsInv /\ RunsMatch /\ DecisionIsObeyed

-----------------------------------------------------------------------------
USE RegistryAssumption DEF RegistryAssumption
USE ApprovalsAssumption DEF ApprovalsAssumption

InvokeRecord == [pc : {"idle", "waiting"} \cup Settled, node : Nodes \cup {None}]

\* An invoke that changes its pc only.
LEMMA InvokePc ==
    ASSUME RegistryTypeOK, NEW i \in Invokes, NEW pc \in {"idle", "waiting"} \cup Settled
    PROVE  /\ [invoke[i] EXCEPT !.pc = pc] \in InvokeRecord
           /\ [invoke[i] EXCEPT !.pc = pc].pc = pc
           /\ [invoke[i] EXCEPT !.pc = pc].node = invoke[i].node
<1>1. invoke[i] \in InvokeRecord
  BY DEF RegistryTypeOK, InvokeRecord
<1> QED
  BY <1>1 DEF InvokeRecord

\* Every step of the registry preserves its part, and lets no invoke wait that
\* has no session.
LEMMA RegistryStep == RegistryInv /\ [Next]_vars => RegistryInv'
<1> SUFFICES ASSUME RegistryInv, [Next]_vars PROVE RegistryInv'
  OBVIOUS
<1>0. /\ RegistryTypeOK /\ SessionOfNode /\ WaitsForNode /\ WaitingHasSession
      /\ conn \in [Conns -> ConnStates]
      /\ nodesById \in [Nodes -> Conns \cup {None}] /\ nodesByConn \subseteq Conns
      /\ invoke \in [Invokes -> InvokeRecord]
      /\ requests \subseteq Invokes \X Conns /\ results \subseteq Invokes \X Conns
  BY DEF RegistryInv, RegistryTypeOK, InvokeRecord
<1>1. ASSUME NEW c \in Conns, Register(c) PROVE RegistryInv'
  <2>1. /\ conn' \in [Conns -> ConnStates] /\ conn'[c] \in {"up", "ghost"}
        /\ \A d \in Conns \ {c} : conn'[d] = conn[d]
        /\ nodesById' \in [Nodes -> Conns \cup {None}] /\ nodesById'[NodeOf[c]] = c
        /\ \A n \in Nodes \ {NodeOf[c]} : nodesById'[n] = nodesById[n]
        /\ nodesByConn' = nodesByConn \cup {c}
        /\ invoke' = invoke /\ requests' = requests /\ results' = results
    BY <1>0, <1>1 DEF Register, ConnStates
  <2>2. RegistryTypeOK'
    BY <1>0, <2>1 DEF RegistryTypeOK, InvokeRecord
  <2>3. SessionOfNode' /\ WaitsForNode'
    BY <1>0, <2>1 DEF SessionOfNode, WaitsForNode
  <2>4. WaitingHasSession'
    BY <1>0, <2>1 DEF WaitingHasSession, WaitsForNode
  <2> QED
    BY <2>2, <2>3, <2>4 DEF RegistryInv
<1>2. ASSUME NEW c \in Conns, Break(c) PROVE RegistryInv'
  <2>1. /\ conn' \in [Conns -> ConnStates] /\ conn'[c] = "down"
        /\ \A d \in Conns \ {c} : conn'[d] = conn[d]
        /\ UNCHANGED <<nodesById, nodesByConn, invoke>>
        /\ requests' \subseteq requests /\ results' \subseteq results
    BY <1>0, <1>2 DEF Break, ConnStates
  <2>2. RegistryTypeOK'
    BY <1>0, <2>1 DEF RegistryTypeOK, InvokeRecord
  <2>3. SessionOfNode' /\ WaitsForNode'
    BY <1>0, <2>1 DEF SessionOfNode, WaitsForNode
  <2>4. WaitingHasSession'
    BY <1>0, <2>1 DEF WaitingHasSession
  <2> QED
    BY <2>2, <2>3, <2>4 DEF RegistryInv
<1>3. ASSUME NEW c \in Conns, Close(c) PROVE RegistryInv'
  <2> DEFINE Rejected(i) == invoke[i].pc = "waiting" /\ invoke[i].node = NodeOf[c]
  <2>1. /\ conn' \in [Conns -> ConnStates]
        /\ \A d \in Conns \ {c} : conn'[d] = conn[d]
        /\ nodesById' \in [Nodes -> Conns \cup {None}] /\ nodesById'[NodeOf[c]] = None
        /\ \A n \in Nodes \ {NodeOf[c]} : nodesById'[n] = nodesById[n]
        /\ nodesByConn' = nodesByConn \ {c}
        /\ requests' = requests /\ results' = results
    BY <1>0, <1>3 DEF Close, Unregister, ConnStates
  <2>2. \A i \in Invokes :
           invoke'[i] = IF Rejected(i) THEN [invoke[i] EXCEPT !.pc = "disconnected"]
                                       ELSE invoke[i]
    BY <1>3 DEF Close, Unregister
  <2>3. \A i \in Invokes : /\ invoke'[i] \in InvokeRecord
                           /\ invoke'[i].node = invoke[i].node
                           /\ invoke'[i].pc = "waiting" =>
                                 invoke[i].pc = "waiting" /\ invoke[i].node # NodeOf[c]
    <3> SUFFICES ASSUME NEW i \in Invokes
                 PROVE  /\ invoke'[i] \in InvokeRecord
                        /\ invoke'[i].node = invoke[i].node
                        /\ invoke'[i].pc = "waiting" =>
                              invoke[i].pc = "waiting" /\ invoke[i].node # NodeOf[c]
      OBVIOUS
    <3>1. CASE Rejected(i)
      <4>1. /\ [invoke[i] EXCEPT !.pc = "disconnected"] \in InvokeRecord
            /\ [invoke[i] EXCEPT !.pc = "disconnected"].pc = "disconnected"
            /\ [invoke[i] EXCEPT !.pc = "disconnected"].node = invoke[i].node
        <5>1. "disconnected" \in {"idle", "waiting"} \cup Settled
          BY DEF Settled
        <5> QED
          BY <1>0, <5>1, InvokePc
      <4>2. invoke'[i] = [invoke[i] EXCEPT !.pc = "disconnected"]
        BY <2>2, <3>1
      <4> QED
        BY <4>1, <4>2
    <3>2. CASE ~Rejected(i)
      BY <1>0, <2>2, <3>2
    <3> QED
      BY <3>1, <3>2
  <2>4. invoke' \in [Invokes -> InvokeRecord]
    <3>1. invoke' = [i \in Invokes |-> invoke'[i]]
      BY <1>3 DEF Close, Unregister
    <3> QED
      BY <2>3, <3>1
  <2>5. RegistryTypeOK'
    BY <1>0, <2>1, <2>4 DEF RegistryTypeOK, InvokeRecord
  <2>6. SessionOfNode' /\ WaitsForNode'
    BY <1>0, <2>1, <2>3 DEF SessionOfNode, WaitsForNode
  <2>7. WaitingHasSession'
    BY <1>0, <2>1, <2>3 DEF WaitingHasSession, WaitsForNode, SessionOfNode
  <2> QED
    BY <2>5, <2>6, <2>7 DEF RegistryInv
<1>4. ASSUME NEW i \in Invokes, NEW rec \in InvokeRecord, invoke' = [invoke EXCEPT ![i] = rec],
             rec.pc = "waiting" => rec.node \in Nodes /\ nodesById[rec.node] # None,
             UNCHANGED <<conn, nodesById, nodesByConn>>,
             requests' \subseteq Invokes \X Conns, results' \subseteq Invokes \X Conns
      PROVE  RegistryInv'
  <2>1. /\ invoke' \in [Invokes -> InvokeRecord] /\ invoke'[i] = rec
        /\ \A j \in Invokes \ {i} : invoke'[j] = invoke[j]
    BY <1>0, <1>4
  <2>2. RegistryTypeOK'
    BY <1>0, <1>4, <2>1 DEF RegistryTypeOK, InvokeRecord
  <2>3. SessionOfNode' /\ WaitsForNode'
    BY <1>0, <1>4, <2>1 DEF SessionOfNode, WaitsForNode
  <2>4. WaitingHasSession'
    BY <1>0, <1>4, <2>1 DEF WaitingHasSession
  <2> QED
    BY <2>2, <2>3, <2>4 DEF RegistryInv
<1>5. ASSUME UNCHANGED <<conn, nodesById, nodesByConn, invoke>>,
             requests' \subseteq Invokes \X Conns, results' \subseteq Invokes \X Conns
      PROVE  RegistryInv'
  BY <1>0, <1>5
  DEF RegistryInv, RegistryTypeOK, InvokeRecord, SessionOfNode, WaitsForNode, WaitingHasSession
<1>6. ASSUME NEW i \in Invokes, NEW n \in Nodes, Invoke(i, n) PROVE RegistryInv'
  <2>1. PICK pc \in {"unavailable", "waiting"} :
           /\ invoke' = [invoke EXCEPT ![i] = [pc |-> pc, node |-> n]]
           /\ pc = "waiting" => nodesById[n] # None
    BY <1>6 DEF Invoke
  <2>2. [pc |-> pc, node |-> n] \in InvokeRecord
    BY DEF InvokeRecord, Settled
  <2>3. requests' \subseteq Invokes \X Conns
    BY <1>0, <1>6 DEF Invoke
  <2>4. UNCHANGED <<conn, nodesById, nodesByConn, results>>
    BY <1>6 DEF Invoke
  <2> QED
    BY <1>0, <1>4, <2>1, <2>2, <2>3, <2>4
<1>7. ASSUME NEW i \in Invokes, NEW n \in Nodes, Refuse(i, n) PROVE RegistryInv'
  <2>1. [pc |-> "refused", node |-> n] \in InvokeRecord
    BY DEF InvokeRecord, Settled
  <2> QED
    BY <1>0, <1>4, <1>7, <2>1 DEF Refuse
<1>8. ASSUME NEW i \in Invokes, Timeout(i) PROVE RegistryInv'
  <2>1. invoke' = [invoke EXCEPT ![i] = [invoke[i] EXCEPT !.pc = "timeout"]]
    BY <1>8 DEF Timeout
  <2>2. [invoke[i] EXCEPT !.pc = "timeout"] \in InvokeRecord
        /\ [invoke[i] EXCEPT !.pc = "timeout"].pc = "timeout"
    <3>1. "timeout" \in {"idle", "waiting"} \cup Settled
      BY DEF Settled
    <3> QED
      BY <1>0, <3>1, InvokePc
  <2> HIDE DEF InvokeRecord
  <2> QED
    BY <1>0, <1>4, <1>8, <2>1, <2>2 DEF Timeout
<1>9. ASSUME NEW i \in Invokes, NEW c \in Conns, HandleInvokeResult(i, c) PROVE RegistryInv'
  <2>1. /\ UNCHANGED <<conn, nodesById, nodesByConn, requests>>
        /\ results' \subseteq Invokes \X Conns
    BY <1>0, <1>9 DEF HandleInvokeResult
  <2>2. CASE invoke' = invoke
    BY <1>0, <1>5, <2>1, <2>2
  <2>3. CASE invoke' = [invoke EXCEPT ![i] = [invoke[i] EXCEPT !.pc = "answered"]]
    <3>1. [invoke[i] EXCEPT !.pc = "answered"] \in InvokeRecord
          /\ [invoke[i] EXCEPT !.pc = "answered"].pc = "answered"
      <4>1. "answered" \in {"idle", "waiting"} \cup Settled
        BY DEF Settled
      <4> QED
        BY <1>0, <4>1, InvokePc
    <3> QED
      BY <1>0, <1>4, <2>1, <2>3, <3>1
  <2> QED
    BY <1>9, <2>2, <2>3 DEF HandleInvokeResult
<1>10. ASSUME NEW i \in Invokes, NEW c \in Conns, NEW d \in Conns, Serve(i, c, d)
       PROVE  RegistryInv'
  BY <1>0, <1>5, <1>10 DEF Serve
<1>11. ASSUME NEW c \in Conns, CloseEarly(c) PROVE RegistryInv'
  <2>1. /\ conn[c] = "new" /\ conn' \in [Conns -> ConnStates]
        /\ \A d \in Conns \ {c} : conn'[d] = conn[d]
        /\ UNCHANGED <<nodesById, nodesByConn, invoke, requests, results>>
    BY <1>0, <1>11 DEF CloseEarly, ConnStates
  <2>2. RegistryTypeOK'
    BY <1>0, <2>1 DEF RegistryTypeOK, InvokeRecord
  <2>3. SessionOfNode' /\ WaitsForNode'
    BY <1>0, <2>1 DEF SessionOfNode, WaitsForNode
  <2>4. WaitingHasSession'
    BY <1>0, <2>1 DEF WaitingHasSession
  <2> QED
    BY <2>2, <2>3, <2>4 DEF RegistryInv
<1>12. CASE UNCHANGED registryVars
  BY <1>0, <1>5, <1>12 DEF registryVars
<1> QED
  BY <1>1, <1>2, <1>3, <1>6, <1>7, <1>8, <1>9, <1>10, <1>11, <1>12
  DEF Next, RegistryNext, SystemRun, Forward, vars

-----------------------------------------------------------------------------
Record == [phase : {"fresh", "due", "late"}, decision : Decisions \cup {"unset"},
           by : {"unset", "timer", "no-route", "operator"}]

\* The types of the approvals, and what an entry says of its record.
LEMMA ApprovalsFacts ==
    ASSUME ApprovalsInv
    PROVE  /\ pending \in [Ids -> Requests \cup {NoEntry}]
           /\ record \in [Requests -> Record]
           /\ promise \in [Requests -> Decisions \cup {"none", "open", "null"}]
           /\ handler \in [Requests -> [pc : {"idle", "forwarding", "done"}, routed : BOOLEAN]]
           /\ expiry \subseteq Requests /\ removal \subseteq Requests
           /\ EntryMatches /\ TimersMatch /\ RecordMatches /\ IdleIsBlank
           /\ OpenIsPending /\ NoEarlyExpiry
  BY DEF ApprovalsInv, ApprovalsTypeOK, Record

\* A decision, by whoever makes it, keeps the invariant of the approvals.
LEMMA SettleKeeps ==
    ASSUME ApprovalsInv, NEW id \in Ids, Undecided(id),
           NEW decision \in Decisions \cup {"unset"}, NEW by \in {"timer", "no-route", "operator"},
           decision = "unset" <=> by # "operator",
           by = "timer" => record[pending[id]].phase # "fresh",
           Settle(pending[id], decision, by), pending' = pending,
           handler' \in [Requests -> [pc : {"idle", "forwarding", "done"}, routed : BOOLEAN]],
           \A r \in Requests : handler'[r].pc = "idle" => handler[r].pc = "idle"
    PROVE  ApprovalsInv'
<1> DEFINE p == pending[id]
           settled == [record[p] EXCEPT !.decision = decision, !.by = by]
<1>0. /\ pending \in [Ids -> Requests \cup {NoEntry}]
      /\ record \in [Requests -> Record]
      /\ promise \in [Requests -> Decisions \cup {"none", "open", "null"}]
      /\ expiry \subseteq Requests /\ removal \subseteq Requests
      /\ EntryMatches /\ TimersMatch /\ RecordMatches /\ IdleIsBlank
      /\ OpenIsPending /\ NoEarlyExpiry
  BY ApprovalsFacts
<1>1. p \in Requests /\ IdOf[p] = id /\ record[p].by = "unset" /\ promise[p] = "open"
  <2>1. p \in Requests /\ IdOf[p] = id /\ record[p].by = "unset"
    BY <1>0 DEF Undecided, EntryMatches
  <2>2. promise[p] \in {"none", "open"}
    BY <1>0, <2>1 DEF RecordMatches
  <2>3. promise[p] # "none"
    BY <1>0, <2>1 DEF EntryMatches, Undecided
  <2> QED
    BY <2>1, <2>2, <2>3
<1>2. /\ settled \in Record /\ settled.phase = record[p].phase
      /\ settled.decision = decision /\ settled.by = by
  <2>1. record[p] \in Record
    BY <1>0, <1>1
  <2> QED
    BY <2>1 DEF Record
<1>3. /\ record' \in [Requests -> Record] /\ record'[p] = settled
      /\ \A r \in Requests \ {p} : record'[r] = record[r]
  <2>1. record' = [record EXCEPT ![p] = settled]
    BY DEF Settle
  <2> HIDE DEF settled
  <2> QED
    BY <1>0, <1>1, <1>2, <2>1
<1>4. /\ promise' \in [Requests -> Decisions \cup {"none", "open", "null"}]
      /\ promise'[p] = (IF decision = "unset" THEN "null" ELSE decision)
      /\ \A r \in Requests \ {p} : promise'[r] = promise[r]
  BY <1>0, <1>1 DEF Settle
<1>5. expiry' = expiry \ {p} /\ removal' = removal \cup {p}
  BY DEF Settle
<1> HIDE DEF p, settled
<1>6. pending' = pending /\ promise'[p] \notin {"none", "open"}
  BY <1>4 DEF Decisions
<1>7. ApprovalsTypeOK'
  BY <1>0, <1>1, <1>3, <1>4, <1>5, <1>6, ApprovalsFacts DEF ApprovalsTypeOK, Record
<1>8. EntryMatches'
  BY <1>0, <1>4, <1>6 DEF EntryMatches
<1>9. TimersMatch'
  BY <1>0, <1>1, <1>4, <1>5, <1>6 DEF TimersMatch
<1>10. RecordMatches'
  <2> SUFFICES ASSUME NEW r \in Requests
               PROVE  /\ record'[r].by = "unset" <=> promise'[r] \in {"none", "open"}
                      /\ record'[r].by \in {"timer", "no-route"} <=> promise'[r] = "null"
                      /\ record'[r].by # "operator" => record'[r].decision = "unset"
                      /\ promise'[r] \in Decisions =>
                            \/ record'[r].decision = promise'[r]
                            \/ promise'[r] = "allow-once" /\ record'[r].decision = "unset"
    BY DEF RecordMatches
  <2>1. CASE r = p
    BY <1>2, <1>3, <1>4, <2>1 DEF Decisions
  <2>2. CASE r # p
    BY <1>0, <1>3, <1>4, <2>2 DEF RecordMatches
  <2> QED
    BY <2>1, <2>2
<1>11. IdleIsBlank'
  BY <1>0, <1>1, <1>2, <1>3, <1>4, <1>6 DEF IdleIsBlank
<1>12. OpenIsPending'
  <2>1. \A r \in Requests : promise'[r] = "open" => pending'[IdOf[r]] = r /\ r \in expiry'
    BY <1>0, <1>4, <1>5, <1>6 DEF OpenIsPending
  <2>2. ASSUME NEW d \in Ids, pending'[d] # NoEntry, ~Undecided(d)'
        PROVE  pending'[d] \in removal'
    <3>1. CASE pending[d] = p
      BY <1>5, <1>6, <3>1
    <3>2. CASE pending[d] # p
      <4>1. record'[pending[d]] = record[pending[d]] /\ pending[d] \in Requests
        BY <1>0, <1>3, <1>6, <2>2, <3>2
      <4>2. ~Undecided(d)
        BY <1>6, <2>2, <4>1 DEF Undecided
      <4> QED
        BY <1>0, <1>5, <1>6, <2>2, <4>2 DEF OpenIsPending
    <3> QED
      BY <3>1, <3>2
  <2> QED
    BY <2>1, <2>2 DEF OpenIsPending
<1>13. NoEarlyExpiry'
  BY <1>0, <1>2, <1>3 DEF NoEarlyExpiry, p
<1> QED
  BY <1>7, <1>8, <1>9, <1>10, <1>11, <1>12, <1>13 DEF ApprovalsInv

\* A step that leaves the approvals alone, or only notes that a handler is done.
LEMMA HandlerKeeps ==
    ASSUME ApprovalsInv, UNCHANGED <<pending, record, promise, expiry, removal>>,
           handler' \in [Requests -> [pc : {"idle", "forwarding", "done"}, routed : BOOLEAN]],
           \A r \in Requests : handler'[r].pc = "idle" => handler[r].pc = "idle"
    PROVE  ApprovalsInv'
<1>1. ApprovalsTypeOK'
  BY ApprovalsFacts DEF ApprovalsTypeOK, Record
<1>2. IdleIsBlank'
  BY ApprovalsFacts DEF IdleIsBlank
<1>3. EntryMatches' /\ TimersMatch' /\ RecordMatches' /\ OpenIsPending' /\ NoEarlyExpiry'
  BY ApprovalsFacts
  DEF EntryMatches, TimersMatch, RecordMatches, OpenIsPending, NoEarlyExpiry, Undecided
<1> QED
  BY <1>1, <1>2, <1>3 DEF ApprovalsInv

\* A record that changes its phase or is consumed.
LEMMA RecordKeeps ==
    ASSUME ApprovalsInv, NEW r \in Requests, NEW rec \in Record,
           record' = [record EXCEPT ![r] = rec],
           UNCHANGED <<pending, promise, handler, expiry, removal>>,
           rec.by = record[r].by,
           \/ rec.decision = record[r].decision /\ rec.phase # "fresh" /\ pending[IdOf[r]] = r
           \/ rec.decision = "unset" /\ rec.phase = record[r].phase
              /\ record[r].decision = "allow-once"
    PROVE  ApprovalsInv'
<1>0. /\ record \in [Requests -> Record]
      /\ promise \in [Requests -> Decisions \cup {"none", "open", "null"}]
      /\ EntryMatches /\ TimersMatch /\ RecordMatches /\ IdleIsBlank
      /\ OpenIsPending /\ NoEarlyExpiry
  BY ApprovalsFacts
<1>1. /\ record' \in [Requests -> Record] /\ record'[r] = rec
      /\ \A x \in Requests \ {r} : record'[x] = record[x]
      /\ \A x \in Requests : record'[x].by = record[x].by
  BY <1>0
<1>2. ApprovalsTypeOK'
  BY <1>1, ApprovalsFacts DEF ApprovalsTypeOK, Record
<1>3. EntryMatches' /\ TimersMatch'
  BY <1>0 DEF EntryMatches, TimersMatch
<1>4. RecordMatches'
  <2> SUFFICES ASSUME NEW x \in Requests
               PROVE  /\ record'[x].by = "unset" <=> promise[x] \in {"none", "open"}
                      /\ record'[x].by \in {"timer", "no-route"} <=> promise[x] = "null"
                      /\ record'[x].by # "operator" => record'[x].decision = "unset"
                      /\ promise[x] \in Decisions =>
                            \/ record'[x].decision = promise[x]
                            \/ promise[x] = "allow-once" /\ record'[x].decision = "unset"
    BY DEF RecordMatches
  <2>1. /\ record[x].by = "unset" <=> promise[x] \in {"none", "open"}
        /\ record[x].by \in {"timer", "no-route"} <=> promise[x] = "null"
        /\ record[x].by # "operator" => record[x].decision = "unset"
        /\ promise[x] \in Decisions =>
              \/ record[x].decision = promise[x]
              \/ promise[x] = "allow-once" /\ record[x].decision = "unset"
    BY <1>0 DEF RecordMatches
  <2>2. CASE record'[x].decision = record[x].decision
    BY <1>1, <2>1, <2>2
  <2>3. CASE record'[x].decision # record[x].decision
    <3>1. x = r /\ record'[x].decision = "unset" /\ record[x].decision = "allow-once"
      BY <1>1, <2>3
    <3> QED
      BY <1>1, <2>1, <3>1
  <2> QED
    BY <2>2, <2>3
<1>5. IdleIsBlank'
  BY <1>0, <1>1 DEF IdleIsBlank
<1>6. OpenIsPending'
  <2>1. \A id \in Ids : pending[id] # NoEntry => (Undecided(id)' <=> Undecided(id))
    BY <1>1, ApprovalsFacts DEF Undecided
  <2> QED
    BY <1>0, <2>1 DEF OpenIsPending
<1>7. NoEarlyExpiry'
  BY <1>0, <1>1 DEF NoEarlyExpiry
<1> QED
  BY <1>2, <1>3, <1>4, <1>5, <1>6, <1>7 DEF ApprovalsInv

\* Every step preserves the part of the approvals.
LEMMA ApprovalsStep == ApprovalsInv /\ [Next]_vars => ApprovalsInv'
<1> SUFFICES ASSUME ApprovalsInv, [Next]_vars PROVE ApprovalsInv'
  OBVIOUS
<1> DEFINE Handlers == [pc : {"idle", "forwarding", "done"}, routed : BOOLEAN]
<1>0. /\ pending \in [Ids -> Requests \cup {NoEntry}]
      /\ record \in [Requests -> Record]
      /\ promise \in [Requests -> Decisions \cup {"none", "open", "null"}]
      /\ handler \in [Requests -> Handlers]
      /\ expiry \subseteq Requests /\ removal \subseteq Requests
      /\ EntryMatches /\ TimersMatch /\ RecordMatches /\ IdleIsBlank
      /\ OpenIsPending /\ NoEarlyExpiry
  BY ApprovalsFacts
<1>1. ASSUME NEW r \in Requests, Request(r) PROVE ApprovalsInv'
  <2>1. CASE pending[IdOf[r]] # NoEntry
    <3>1. [handler[r] EXCEPT !.pc = "done"] \in Handlers
          /\ [handler[r] EXCEPT !.pc = "done"].pc = "done"
      BY <1>0
    <3>2. handler' = [handler EXCEPT ![r] = [handler[r] EXCEPT !.pc = "done"]]
      BY <1>1, <2>1 DEF Request
    <3>3. handler' \in [Requests -> Handlers]
          /\ \A x \in Requests : handler'[x].pc = "idle" => handler[x].pc = "idle"
      BY <1>0, <3>1, <3>2
    <3> QED
      BY <1>1, <2>1, <3>3, HandlerKeeps DEF Request
  <2>2. CASE pending[IdOf[r]] = NoEntry
    <3>1. /\ handler[r].pc = "idle" /\ promise[r] = "none" /\ record[r].by = "unset"
          /\ r \notin removal
      BY <1>0, <1>1 DEF Request, IdleIsBlank, RecordMatches, TimersMatch
    <3>2. /\ handler' \in [Requests -> Handlers] /\ handler'[r].pc = "forwarding"
          /\ \A x \in Requests \ {r} : handler'[x] = handler[x]
      <4>1. PICK routed \in BOOLEAN :
               handler' = [handler EXCEPT ![r] = [pc |-> "forwarding", routed |-> routed]]
        BY <1>1, <2>2 DEF Request
      <4> QED
        BY <1>0, <4>1
    <3>3. /\ pending' \in [Ids -> Requests \cup {NoEntry}] /\ pending'[IdOf[r]] = r
          /\ \A d \in Ids \ {IdOf[r]} : pending'[d] = pending[d]
          /\ promise' \in [Requests -> Decisions \cup {"none", "open", "null"}]
          /\ promise'[r] = "open" /\ \A x \in Requests \ {r} : promise'[x] = promise[x]
          /\ expiry' = expiry \cup {r} /\ record' = record /\ removal' = removal
      <4>1. /\ pending' = [pending EXCEPT ![IdOf[r]] = r]
            /\ promise' = [promise EXCEPT ![r] = "open"]
            /\ expiry' = expiry \cup {r} /\ record' = record /\ removal' = removal
        BY <1>1, <2>2 DEF Request
      <4>2. IdOf[r] \in Ids
        OBVIOUS
      <4> QED
        BY <1>0, <4>1, <4>2
    <3>4. ApprovalsTypeOK'
      BY <1>0, <3>2, <3>3 DEF ApprovalsTypeOK, Record
    <3>5. EntryMatches'
      BY <1>0, <3>3 DEF EntryMatches
    <3>6. \A x \in Requests : promise[x] = "open" => IdOf[x] # IdOf[r]
      BY <1>0, <2>2 DEF OpenIsPending
    <3>7. TimersMatch'
      BY <1>0, <3>1, <3>3, <3>6 DEF TimersMatch
    <3>8. RecordMatches'
      <4>1. record[r].decision = "unset"
        BY <1>0, <3>1 DEF RecordMatches
      <4> QED
        BY <1>0, <3>1, <3>3, <4>1 DEF RecordMatches, Decisions
    <3>9. IdleIsBlank'
      BY <1>0, <3>2, <3>3 DEF IdleIsBlank
    <3>10. OpenIsPending'
      <4>1. \A x \in Requests : promise'[x] = "open" => pending'[IdOf[x]] = x /\ x \in expiry'
        BY <1>0, <3>3, <3>6 DEF OpenIsPending
      <4>2. \A d \in Ids : pending'[d] # NoEntry /\ ~Undecided(d)' => pending'[d] \in removal'
        BY <1>0, <3>1, <3>3 DEF OpenIsPending, Undecided
      <4> QED
        BY <4>1, <4>2 DEF OpenIsPending
    <3>11. NoEarlyExpiry'
      BY <1>0, <3>3 DEF NoEarlyExpiry
    <3> QED
      BY <3>4, <3>5, <3>7, <3>8, <3>9, <3>10, <3>11 DEF ApprovalsInv
  <2> QED
    BY <2>1, <2>2
<1>2. ASSUME NEW r \in Requests, Forwarded(r) PROVE ApprovalsInv'
  <2>1. handler' \in [Requests -> Handlers]
        /\ \A x \in Requests : handler'[x].pc = "idle" => handler[x].pc = "idle"
    BY <1>0, <1>2 DEF Forwarded
  <2>2. CASE UNCHANGED <<pending, record, promise, expiry, removal>>
    BY <2>1, <2>2, HandlerKeeps
  <2>3. CASE Undecided(IdOf[r]) /\ Expire(IdOf[r], "no-route")
    <3>1. Settle(pending[IdOf[r]], "unset", "no-route") /\ pending' = pending
      BY <2>3 DEF Expire
    <3> QED
      BY <2>1, <2>3, <3>1, SettleKeeps
  <2> QED
    BY <1>2, <2>2, <2>3 DEF Forwarded, Expire
<1>3. ASSUME NEW r \in Requests, ExpiryFires(r) PROVE ApprovalsInv'
  <2>1. pending[IdOf[r]] = r /\ record[r].phase # "fresh" /\ record[r].by = "unset"
    BY <1>0, <1>3 DEF ExpiryFires, TimersMatch, RecordMatches
  <2>2. Undecided(IdOf[r])
    BY <2>1 DEF Undecided
  <2>3. Settle(pending[IdOf[r]], "unset", "timer") /\ pending' = pending /\ handler' = handler
    BY <1>3, <2>2 DEF ExpiryFires
  <2> QED
    BY <1>0, <2>1, <2>2, <2>3, SettleKeeps
<1>4. ASSUME NEW id \in Ids, NEW d \in Decisions, Resolve(id, d) PROVE ApprovalsInv'
  <2>1. d # "unset"
    BY DEF Decisions
  <2> QED
    BY <1>0, <1>4, <2>1, SettleKeeps DEF Resolve
<1>5. ASSUME NEW r \in Requests, RemovalFires(r) PROVE ApprovalsInv'
  <2>1. /\ pending' \in [Ids -> Requests \cup {NoEntry}]
        /\ removal' = removal \ {r} /\ r \in removal
        /\ UNCHANGED <<record, promise, handler, expiry>>
        /\ \A d \in Ids : pending'[d] = pending[d] \/ (pending'[d] = NoEntry /\ pending[d] = r)
        /\ pending'[IdOf[r]] # r
    <3>1. /\ removal' = removal \ {r} /\ r \in removal
          /\ UNCHANGED <<record, promise, handler, expiry>>
      BY <1>5 DEF RemovalFires
    <3>2. IdOf[r] \in Ids /\ r # NoEntry
      OBVIOUS
    <3>3. CASE pending[IdOf[r]] = r
      <4>1. pending' = [pending EXCEPT ![IdOf[r]] = NoEntry]
        BY <1>5, <3>3 DEF RemovalFires
      <4> QED
        BY <1>0, <3>1, <3>2, <3>3, <4>1
    <3>4. CASE pending[IdOf[r]] # r
      <4>1. pending' = pending
        BY <1>5, <3>4 DEF RemovalFires
      <4> QED
        BY <1>0, <3>1, <3>4, <4>1
    <3> QED
      BY <3>3, <3>4
  <2>2. ApprovalsTypeOK'
    BY <1>0, <2>1 DEF ApprovalsTypeOK, Record
  <2>3. promise[r] # "open"
    BY <1>0, <2>1 DEF TimersMatch
  <2>4. EntryMatches' /\ IdleIsBlank' /\ RecordMatches' /\ NoEarlyExpiry'
    BY <1>0, <2>1 DEF EntryMatches, IdleIsBlank, RecordMatches, NoEarlyExpiry
  <2>5. TimersMatch'
    BY <1>0, <2>1, <2>3 DEF TimersMatch
  <2>6. OpenIsPending'
    <3>1. \A x \in Requests : promise[x] = "open" => pending'[IdOf[x]] = x /\ x \in expiry
      BY <1>0, <2>1, <2>3 DEF OpenIsPending
    <3>2. ASSUME NEW d \in Ids, pending'[d] # NoEntry, ~Undecided(d)'
          PROVE  pending'[d] \in removal'
      <4>1. pending'[d] = pending[d] /\ ~Undecided(d)
        BY <2>1, <3>2 DEF Undecided
      <4>2. pending[d] # r
        BY <1>0, <2>1, <3>2, <4>1 DEF EntryMatches
      <4> QED
        BY <1>0, <2>1, <3>2, <4>1, <4>2 DEF OpenIsPending
    <3> QED
      BY <2>1, <3>1, <3>2 DEF OpenIsPending
  <2> QED
    BY <2>2, <2>4, <2>5, <2>6 DEF ApprovalsInv
<1>6. ASSUME NEW r \in Requests, Pass(r) PROVE ApprovalsInv'
  <2> DEFINE phase == IF record[r].phase = "fresh" THEN "due" ELSE "late"
             rec == [record[r] EXCEPT !.phase = phase]
  <2>1. record' = [record EXCEPT ![r] = rec]
    BY <1>6 DEF Pass
  <2>2. /\ rec \in Record /\ rec.by = record[r].by
        /\ rec.decision = record[r].decision /\ rec.phase # "fresh"
    <3>1. record[r] \in Record
      BY <1>0
    <3> QED
      BY <3>1 DEF Record
  <2> HIDE DEF rec
  <2> QED
    BY <1>6, <2>1, <2>2, RecordKeeps DEF Pass
<1>7. ASSUME NEW i \in Invokes, NEW n \in Nodes, NEW id \in Ids, Forward(i, n, id)
      PROVE  ApprovalsInv'
  <2> DEFINE r == pending[id]
             rec == [record[r] EXCEPT !.decision = "unset"]
  <2>1. CASE record' = record
    BY <1>0, <1>7, <2>1, HandlerKeeps DEF Forward
  <2>2. CASE record[r].decision = "allow-once" /\ Consume(r)
    <3>1. r \in Requests
      BY <1>0, <1>7 DEF Forward, Valid
    <3>2. rec \in Record /\ rec.by = record[r].by /\ rec.decision = "unset"
          /\ rec.phase = record[r].phase
      <4>1. record[r] \in Record
        BY <1>0, <3>1
      <4> QED
        BY <4>1 DEF Record
    <3>3. record' = [record EXCEPT ![r] = rec]
      BY <2>2 DEF Consume
    <3> HIDE DEF rec
    <3> QED
      BY <1>7, <2>2, <3>1, <3>2, <3>3, RecordKeeps DEF Forward
  <2> QED
    BY <1>7, <2>1, <2>2 DEF Forward
<1>8. CASE UNCHANGED approvalVars
  BY <1>0, <1>8, HandlerKeeps DEF approvalVars
<1> QED
  BY <1>1, <1>2, <1>3, <1>4, <1>5, <1>6, <1>7, <1>8
  DEF Next, ApprovalsNext, SystemRun, vars

-----------------------------------------------------------------------------
Untried == {"idle", "refused"}

\* A promise is made and kept once, and with it the decision of its record.
LEMMA PromiseKept ==
    ASSUME ApprovalsInv, ApprovalsNext, NEW r \in Requests
    PROVE  \/ promise[r] \in {"none", "open"}
           \/ promise'[r] = promise[r] /\ record'[r].decision = record[r].decision
              /\ promise[r] \notin {"none", "open"}
<1> SUFFICES ASSUME promise[r] \notin {"none", "open"}
             PROVE  promise'[r] = promise[r] /\ record'[r].decision = record[r].decision
  OBVIOUS
<1>0. /\ record \in [Requests -> Record]
      /\ promise \in [Requests -> Decisions \cup {"none", "open", "null"}]
      /\ TimersMatch /\ RecordMatches /\ IdleIsBlank /\ EntryMatches
      /\ pending \in [Ids -> Requests \cup {NoEntry}]
  BY ApprovalsFacts
<1>1. ASSUME NEW id \in Ids, Undecided(id),
             NEW d \in Decisions \cup {"unset"}, NEW by, Settle(pending[id], d, by)
      PROVE  promise'[r] = promise[r] /\ record'[r] = record[r]
  <2>1. pending[id] \in Requests /\ record[pending[id]].by = "unset"
    BY <1>0, <1>1 DEF Undecided
  <2>2. pending[id] # r
    BY <1>0, <2>1 DEF RecordMatches
  <2> QED
    BY <1>0, <1>1, <2>2 DEF Settle
<1>2. ASSUME NEW x \in Requests, Request(x)
      PROVE  promise'[r] = promise[r] /\ record'[r] = record[r]
  <2>1. promise[x] = "none"
    BY <1>0, <1>2 DEF Request, IdleIsBlank
  <2> QED
    BY <1>0, <1>2, <2>1 DEF Request
<1>3. ASSUME NEW x \in Requests, Forwarded(x)
      PROVE  promise'[r] = promise[r] /\ record'[r] = record[r]
  BY <1>1, <1>3 DEF Forwarded, Expire
<1>4. ASSUME NEW x \in Requests, ExpiryFires(x)
      PROVE  promise'[r] = promise[r] /\ record'[r] = record[r]
  BY <1>1, <1>4 DEF ExpiryFires
<1>5. ASSUME NEW x \in Requests, RemovalFires(x)
      PROVE  promise'[r] = promise[r] /\ record'[r] = record[r]
  BY <1>5 DEF RemovalFires
<1>6. ASSUME NEW x \in Requests, Pass(x)
      PROVE  promise'[r] = promise[r] /\ record'[r].decision = record[r].decision
  <2>1. PICK phase \in {"due", "late"} :
           record' = [record EXCEPT ![x] = [record[x] EXCEPT !.phase = phase]]
    BY <1>6 DEF Pass
  <2>2. record[x] \in Record
    BY <1>0
  <2>3. [record[x] EXCEPT !.phase = phase].decision = record[x].decision
    BY <2>2 DEF Record
  <2>4. promise' = promise
    BY <1>6 DEF Pass
  <2>5. CASE x = r
    BY <1>0, <2>1, <2>3, <2>4, <2>5
  <2>6. CASE x # r
    BY <1>0, <2>1, <2>4, <2>6
  <2> QED
    BY <2>5, <2>6
<1>7. ASSUME NEW id \in Ids, NEW d \in Decisions, Resolve(id, d)
      PROVE  promise'[r] = promise[r] /\ record'[r] = record[r]
  BY <1>1, <1>7 DEF Resolve
<1> QED
  BY <1>2, <1>3, <1>4, <1>5, <1>6, <1>7 DEF ApprovalsNext

\* No step makes a tried invoke an untried one.
LEMMA TriedKept ==
    ASSUME RegistryTypeOK, [Next]_vars, NEW i \in Invokes, invoke'[i].pc \in Untried
    PROVE  invoke[i].pc \in Untried
<1>0. invoke \in [Invokes -> InvokeRecord]
  BY DEF RegistryTypeOK, InvokeRecord
<1>1. ASSUME NEW j \in Invokes, NEW rec, invoke' = [invoke EXCEPT ![j] = rec],
             rec.pc \notin Untried
      PROVE  invoke[i].pc \in Untried
  BY <1>0, <1>1
<1>2. ASSUME NEW c \in Conns, Close(c) PROVE invoke[i].pc \in Untried
  <2>1. \/ invoke'[i] = [invoke[i] EXCEPT !.pc = "disconnected"]
        \/ invoke'[i] = invoke[i]
    BY <1>2 DEF Close, Unregister
  <2>2. "disconnected" \in {"idle", "waiting"} \cup Settled
    BY DEF Settled
  <2>3. [invoke[i] EXCEPT !.pc = "disconnected"].pc = "disconnected"
    BY <2>2, InvokePc
  <2> QED
    BY <2>1, <2>3 DEF Untried
<1>3. ASSUME NEW j \in Invokes, NEW pc \in {"timeout", "answered"},
             invoke' = [invoke EXCEPT ![j] = [invoke[j] EXCEPT !.pc = pc]]
      PROVE  invoke[i].pc \in Untried
  <2>1. pc \in {"idle", "waiting"} \cup Settled /\ pc \notin Untried
    BY DEF Settled, Untried
  <2>2. [invoke[j] EXCEPT !.pc = pc].pc = pc
    BY <2>1, InvokePc
  <2> QED
    BY <1>1, <1>3, <2>1, <2>2
<1>4. ASSUME NEW j \in Invokes, NEW n \in Nodes, Invoke(j, n) PROVE invoke[i].pc \in Untried
  <2>1. PICK pc \in {"unavailable", "waiting"} :
           invoke' = [invoke EXCEPT ![j] = [pc |-> pc, node |-> n]]
    BY <1>4 DEF Invoke
  <2> QED
    BY <1>1, <2>1 DEF Untried
<1>5. ASSUME NEW j \in Invokes, NEW n \in Nodes, Refuse(j, n) PROVE invoke[i].pc \in Untried
  BY <1>0, <1>5 DEF Refuse, Untried
<1>6. \A j \in Invokes : Timeout(j) => invoke[i].pc \in Untried
  BY <1>3 DEF Timeout
<1>7. \A j \in Invokes, c \in Conns : HandleInvokeResult(j, c) => invoke[i].pc \in Untried
  BY <1>3 DEF HandleInvokeResult
<1>8. CASE UNCHANGED invoke
  BY <1>8
<1> QED
  BY <1>2, <1>4, <1>5, <1>6, <1>7, <1>8
  DEF Next, RegistryNext, SystemRun, Forward, vars, registryVars, Register, CloseEarly,
      Break, Serve

\* The runs of an approval change by a forwarded invoke only.
LEMMA RunsSame ==
    ASSUME RegistryTypeOK, RunsMatch, [Next]_vars, approvedBy' = approvedBy,
           NEW r \in Requests
    PROVE  RunsOf(r)' = RunsOf(r)
<1>1. ASSUME NEW i \in Invokes, approvedBy[i] = r
      PROVE  invoke[i].pc # "refused" /\ invoke'[i].pc # "refused"
  <2>1. invoke[i].pc \notin {"idle", "refused"}
    BY <1>1 DEF RunsMatch
  <2> QED
    BY <2>1, TriedKept DEF Untried
<1> QED
  BY <1>1 DEF RunsOf

\* Every step keeps what the runs tell, and obeys the decisions.
LEMMA RunsStep ==
    IInv /\ [Next]_vars => RunsMatch' /\ DecisionIsObeyed'
<1> SUFFICES ASSUME IInv, [Next]_vars PROVE RunsMatch' /\ DecisionIsObeyed'
  OBVIOUS
<1>0. /\ RegistryTypeOK /\ ApprovalsInv /\ RunsMatch /\ DecisionIsObeyed
      /\ invoke \in [Invokes -> InvokeRecord]
      /\ record \in [Requests -> Record]
      /\ promise \in [Requests -> Decisions \cup {"none", "open", "null"}]
      /\ pending \in [Ids -> Requests \cup {NoEntry}]
      /\ approvedBy \in [Invokes -> Requests \cup {NoEntry}]
      /\ RecordMatches
  BY ApprovalsFacts DEF IInv, RegistryInv, RegistryTypeOK, InvokeRecord, RunsMatch
<1>1. ASSUME approvedBy' = approvedBy,
             \A r \in Requests :
                \/ promise[r] \in {"none", "open"}
                \/ /\ promise'[r] = promise[r] /\ record'[r].decision = record[r].decision
                   /\ promise[r] \notin {"none", "open"}
      PROVE  RunsMatch' /\ DecisionIsObeyed'
  <2>1. ASSUME NEW i \in Invokes, invoke'[i].pc \in {"idle", "refused"}
        PROVE  approvedBy'[i] = NoEntry
    <3>1. invoke[i].pc \in {"idle", "refused"}
      BY <1>0, <2>1, TriedKept DEF Untried
    <3> QED
      BY <1>0, <1>1, <3>1 DEF RunsMatch
  <2>2. \A r \in Requests : RunsOf(r) = {} => RunsOf(r)' = {}
    BY <1>0, <1>1, RunsSame
  <2>3. ASSUME NEW r \in Requests,
               promise'[r] \in {"none", "open"} \/ record'[r].decision = "allow-once"
        PROVE  RunsOf(r)' = {}
    BY <1>0, <1>1, <2>2, <2>3 DEF RunsMatch
  <2>4. RunsMatch'
    BY <1>0, <1>1, <2>1, <2>3 DEF RunsMatch
  <2>5. ASSUME NEW r \in Requests, promise'[r] = "deny" PROVE RunsOf(r)' = {}
    BY <1>0, <1>1, <2>2, <2>5 DEF RunsMatch, DecisionIsObeyed
  <2>6. ASSUME NEW r \in Requests, promise'[r] = "allow-once" PROVE Cardinality(RunsOf(r)') <= 1
    <3>1. CASE RunsOf(r) = {}
      BY <2>2, <3>1, FS_EmptySet
    <3>2. CASE RunsOf(r) # {}
      <4>1. promise[r] = "allow-once"
        BY <1>0, <1>1, <2>6, <3>2 DEF RunsMatch
      <4>2. Cardinality(RunsOf(r)) <= 1
        BY <1>0, <4>1 DEF DecisionIsObeyed
      <4>3. RunsOf(r)' = RunsOf(r)
        BY <1>0, <1>1, RunsSame
      <4> QED
        BY <4>2, <4>3
    <3> QED
      BY <3>1, <3>2
  <2> QED
    BY <2>4, <2>5, <2>6 DEF DecisionIsObeyed
<1>2. ASSUME NEW i \in Invokes, NEW n \in Nodes, NEW id \in Ids, Forward(i, n, id)
      PROVE  RunsMatch' /\ DecisionIsObeyed'
  <2>0. PICK r \in Requests : r = pending[id]
    BY <1>0, <1>2 DEF Forward, Valid
  <2>1. /\ r \in Requests /\ promise' = promise
        /\ approvedBy' = [approvedBy EXCEPT ![i] = r]
        /\ \A x \in Requests \ {r} : record'[x] = record[x]
    BY <1>0, <1>2, <2>0 DEF Forward, Valid, Consume
  <2>2. PICK pc \in {"unavailable", "waiting"} :
           invoke[i].pc = "idle" /\ invoke' = [invoke EXCEPT ![i] = [pc |-> pc, node |-> n]]
    BY <1>2 DEF Forward, Invoke
  <2>3. invoke'[i].pc \notin {"idle", "refused"} /\ \A j \in Invokes \ {i} : invoke'[j] = invoke[j]
    BY <1>0, <2>2
  <2>4. /\ approvedBy' \in [Invokes -> Requests \cup {NoEntry}] /\ approvedBy'[i] = r
        /\ \A j \in Invokes \ {i} : approvedBy'[j] = approvedBy[j]
        /\ approvedBy[i] = NoEntry
    BY <1>0, <2>1, <2>2 DEF RunsMatch
  <2>5. \A x \in Requests \ {r} : RunsOf(x)' = RunsOf(x)
    BY <2>3, <2>4 DEF RunsOf
  <2>6. RunsOf(r)' = RunsOf(r) \cup {i}
    BY <2>3, <2>4 DEF RunsOf
  <2>7. \/ /\ promise[r] = "allow-once" /\ RunsOf(r) = {} /\ record'[r].decision = "unset"
        \/ promise[r] = "allow-always" /\ record'[r].decision = "allow-always"
        \/ promise[r] = "null" /\ record'[r].decision = "unset"
    <3>1. /\ record[r].by = "unset" <=> promise[r] \in {"none", "open"}
          /\ record[r].by \in {"timer", "no-route"} <=> promise[r] = "null"
          /\ record[r].by # "operator" => record[r].decision = "unset"
          /\ promise[r] \in Decisions =>
                \/ record[r].decision = promise[r]
                \/ promise[r] = "allow-once" /\ record[r].decision = "unset"
      BY <1>0, <2>1 DEF RecordMatches
    <3>2. promise[r] \in Decisions \cup {"none", "open", "null"} /\ record[r] \in Record
      BY <1>0, <2>1
    <3>3. CASE record[r].decision = "allow-once" /\ Consume(r)
      <4>1. promise[r] = "allow-once"
        BY <3>1, <3>2, <3>3 DEF Decisions
      <4>2. RunsOf(r) = {}
        BY <1>0, <2>1, <3>3 DEF RunsMatch
      <4>3. record'[r].decision = "unset"
        <5>1. [record[r] EXCEPT !.decision = "unset"].decision = "unset"
          BY <3>2 DEF Record
        <5> QED
          BY <1>0, <2>1, <3>3, <5>1 DEF Consume
      <4> QED
        BY <4>1, <4>2, <4>3
    <3>4. CASE record[r].decision = "allow-always" /\ UNCHANGED record
      BY <3>1, <3>2, <3>4 DEF Decisions
    <3>5. CASE TimedOut(r) /\ UNCHANGED record
      BY <3>1, <3>2, <3>5 DEF TimedOut
    <3> QED
      BY <1>2, <2>0, <3>3, <3>4, <3>5 DEF Forward
  <2>8. RunsMatch'
    <3>1. \A j \in Invokes : invoke'[j].pc \in {"idle", "refused"} => approvedBy'[j] = NoEntry
      BY <1>0, <2>3, <2>4 DEF RunsMatch
    <3>2. ASSUME NEW x \in Requests,
                 promise'[x] \in {"none", "open"} \/ record'[x].decision = "allow-once"
          PROVE  RunsOf(x)' = {}
      <4>1. x # r
        BY <2>1, <2>7, <3>2
      <4> QED
        BY <1>0, <2>1, <2>5, <3>2, <4>1 DEF RunsMatch
    <3> QED
      BY <2>4, <3>1, <3>2 DEF RunsMatch
  <2>9. DecisionIsObeyed'
    <3>1. {} \cup {i} = {i} /\ Cardinality({i}) = 1
      BY FS_Singleton
    <3>2. ASSUME NEW x \in Requests
          PROVE  /\ promise'[x] = "deny" => RunsOf(x)' = {}
                 /\ promise'[x] = "allow-once" => Cardinality(RunsOf(x)') <= 1
      <4>1. CASE x = r
        BY <2>1, <2>6, <2>7, <3>1, <4>1
      <4>2. CASE x # r
        BY <1>0, <2>1, <2>5, <4>2 DEF DecisionIsObeyed
      <4> QED
        BY <4>1, <4>2
    <3> QED
      BY <3>2 DEF DecisionIsObeyed
  <2> QED
    BY <2>8, <2>9
<1>3. CASE ApprovalsNext /\ UNCHANGED <<registryVars, approvedBy>>
  BY <1>0, <1>1, <1>3, PromiseKept
<1>4. CASE UNCHANGED <<approvalVars, approvedBy>>
  BY <1>1, <1>4 DEF approvalVars
<1> QED
  BY <1>2, <1>3, <1>4 DEF Next, SystemRun, vars

\* Nothing is registered, asked or invoked at first.
LEMMA InitHolds == Init => IInv
<1> SUFFICES ASSUME Init PROVE IInv
  OBVIOUS
<1> USE DEF Init, RegistryInit, ApprovalsInit
<1>1. RegistryInv
  <2>1. RegistryTypeOK
    BY DEF RegistryTypeOK, ConnStates
  <2> QED
    BY <2>1 DEF RegistryInv, SessionOfNode, WaitsForNode, WaitingHasSession
<1>2. ApprovalsInv
  <2>1. ApprovalsTypeOK
    BY DEF ApprovalsTypeOK
  <2>2. EntryMatches /\ TimersMatch /\ RecordMatches /\ IdleIsBlank
    BY DEF EntryMatches, TimersMatch, RecordMatches, IdleIsBlank, Decisions
  <2>3. OpenIsPending /\ NoEarlyExpiry
    BY DEF OpenIsPending, NoEarlyExpiry
  <2> QED
    BY <2>1, <2>2, <2>3 DEF ApprovalsInv
<1>3. \A r \in Requests : RunsOf(r) = {}
  BY DEF RunsOf
<1>4. RunsMatch
  BY <1>3 DEF RunsMatch
<1>5. DecisionIsObeyed
  BY <1>3, FS_EmptySet DEF DecisionIsObeyed
<1> QED
  BY <1>1, <1>2, <1>4, <1>5 DEF IInv

-----------------------------------------------------------------------------
\* The inductive invariant holds of every behaviour.
THEOREM Invariance == Spec => []IInv
<1>1. IInv /\ [Next]_vars => IInv'
  BY RegistryStep, ApprovalsStep, RunsStep DEF IInv
<1> QED
  BY <1>1, InitHolds, PTL DEF Spec

\* Variables keep their types.
THEOREM TypeCorrect == Spec => []TypeOK
<1>1. IInv => TypeOK
  BY DEF IInv, RegistryInv, ApprovalsInv, RunsMatch, TypeOK
<1> QED
  BY <1>1, Invariance, PTL

\* No invoke waits for a node without a session, and the close of a session's
\* connection is still to come unless it was handled before it registered, whatever
\* the order in which connections open and close.
THEOREM SessionsServe == Spec => []WaitingHasSession
<1>1. IInv => WaitingHasSession
  BY DEF IInv, RegistryInv
<1> QED
  BY <1>1, Invariance, PTL

\* An open decision can be found by its id and has its timer; a decided entry
\* will be removed.
THEOREM OpenDecisionsPending == Spec => []OpenIsPending
<1>1. IInv => OpenIsPending
  BY DEF IInv, ApprovalsInv
<1> QED
  BY <1>1, Invariance, PTL

\* No timer ends an approval before its own time.
THEOREM TimersAreOwn == Spec => []NoEarlyExpiry
<1>1. IInv => NoEarlyExpiry
  BY DEF IInv, ApprovalsInv
<1> QED
  BY <1>1, Invariance, PTL

\* What was denied never runs, and what was allowed once is sent once at most,
\* for any number of approvals, ids and invokes.
THEOREM DecisionsObeyed == Spec => []DecisionIsObeyed
<1>1. IInv => DecisionIsObeyed
  BY DEF IInv
<1> QED
  BY <1>1, Invariance, PTL
=============================================================================
