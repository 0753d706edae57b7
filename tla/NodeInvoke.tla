----------------------------- MODULE NodeInvoke -----------------------------
(***************************************************************************)
(* The handler node.invoke (src/gateway/server-methods/nodes.ts) for the   *)
(* command system.run: the approval a caller refers to is checked and      *)
(* consumed, and the command sent, in one step without an await            *)
(* (src/gateway/node-invoke-system-run-approval.ts).                       *)
(*                                                                         *)
(* The match of client, directory and command with the approved request,   *)
(* and waking a node that is not connected, are left out: the caller is    *)
(* the one that asked, for the command it asked for.                       *)
(***************************************************************************)
EXTENDS NodeRegistry, ExecApprovals

CONSTANT
    TargetOf    \* the node each approval was asked for

ASSUME NodeInvokeAssumption == TargetOf \in [Requests -> Nodes]

VARIABLE
    approvedBy  \* history: the approval each invoke was forwarded under

vars == <<registryVars, approvalVars, approvedBy>>

TypeOK ==
    /\ RegistryTypeOK /\ ApprovalsTypeOK
    /\ approvedBy \in [Invokes -> Requests \cup {NoEntry}]

-----------------------------------------------------------------------------
\* The entry an override names is there, in time, and for this node.
Valid(id, n) ==
    /\ pending[id] # NoEntry
    /\ record[pending[id]].phase # "late"
    /\ TargetOf[pending[id]] = n

\* An approval nobody answered: the caller may fall back to allow-once.
TimedOut(r) == record[r].by = "timer" /\ record[r].decision = "unset"

\* Mutant: the approval is not consumed.
ForwardUnconsumed(i, n, id) ==
    LET r == pending[id]
    IN  /\ Valid(id, n)
        /\ record[r].decision \in {"allow-once", "allow-always"} \/ TimedOut(r)
        /\ Invoke(i, n)
        /\ approvedBy' = [approvedBy EXCEPT ![i] = r]
        /\ UNCHANGED approvalVars

\* The override is granted, and the command sent.
Forward(i, n, id) ==
    LET r == pending[id]
    IN  /\ Valid(id, n)
        /\ \/ record[r].decision = "allow-once" /\ Consume(r)
           \/ record[r].decision = "allow-always" /\ UNCHANGED record
           \/ TimedOut(r) /\ UNCHANGED record
        /\ Invoke(i, n)
        /\ approvedBy' = [approvedBy EXCEPT ![i] = r]
        /\ UNCHANGED <<pending, promise, handler, expiry, removal>>

\* A node without a session is reported before the approval is looked at.
SystemRun(i, n, id) ==
    \/ nodesById[n] # None /\ Forward(i, n, id)
    \/ /\ nodesById[n] # None /\ Valid(id, n) =>
            record[pending[id]].decision \notin {"allow-once", "allow-always"}
       /\ Refuse(i, n)
       /\ UNCHANGED <<approvalVars, approvedBy>>

-----------------------------------------------------------------------------
Init ==
    /\ RegistryInit /\ ApprovalsInit
    /\ approvedBy = [i \in Invokes |-> NoEntry]

Next ==
    \/ RegistryNext /\ UNCHANGED <<approvalVars, approvedBy>>
    \/ ApprovalsNext /\ UNCHANGED <<registryVars, approvedBy>>
    \/ \E i \in Invokes, n \in Nodes, id \in Ids : SystemRun(i, n, id)

Spec == Init /\ [][Next]_vars

-----------------------------------------------------------------------------
\* The invokes that were sent, or may have been, under an approval.
RunsOf(r) == {i \in Invokes : approvedBy[i] = r /\ invoke[i].pc # "refused"}

\* The operator's decision is obeyed as it was given, however resolutions,
\* timers, reused ids and invokes interleave: what was denied never runs, and
\* what was allowed once is sent once at the most.
DecisionIsObeyed ==
    \A r \in Requests :
        /\ promise[r] = "deny" => RunsOf(r) = {}
        /\ promise[r] = "allow-once" => Cardinality(RunsOf(r)) <= 1
=============================================================================
