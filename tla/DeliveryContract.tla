-------------------------- MODULE DeliveryContract --------------------------
(***************************************************************************)
(* What the write-ahead delivery queue promises of a message it has        *)
(* written to disk: the message stays owed, over crashes and restarts,     *)
(* until its channel has taken it, it was withdrawn (its sender aborted    *)
(* it, a hook cancelled it), or it lies in failed/ for the operator.       *)
(***************************************************************************)
CONSTANT Messages

VARIABLE outcome

Outcomes == {"new", "owed", "received", "withdrawn", "parked"}

Init == outcome = [m \in Messages |-> "new"]

Accept(m) == outcome[m] = "new" /\ outcome' = [outcome EXCEPT ![m] = "owed"]

Settle(m) ==
    /\ outcome[m] = "owed"
    /\ \E o \in {"received", "withdrawn", "parked"} : outcome' = [outcome EXCEPT ![m] = o]

\* An attempt under way may still reach the channel when another gave up.
LateReceive(m) ==
    /\ outcome[m] \in {"withdrawn", "parked"}
    /\ outcome' = [outcome EXCEPT ![m] = "received"]

\* A parked message that another attempt withdraws in the end.
LateWithdraw(m) ==
    /\ outcome[m] = "parked"
    /\ outcome' = [outcome EXCEPT ![m] = "withdrawn"]

Next == \E m \in Messages : Accept(m) \/ Settle(m) \/ LateReceive(m) \/ LateWithdraw(m)

Spec == Init /\ [][Next]_outcome
=============================================================================
