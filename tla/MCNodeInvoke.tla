---------------------------- MODULE MCNodeInvoke ----------------------------
(* Approvals that share an id, connections of one node, for TLC. *)
EXTENDS NodeInvoke, TLC

MCNodeOf == [c \in Conns |-> "n"]
MCIdOf == [r \in Requests |-> "id"]
MCTargetOf == [r \in Requests |-> "n"]

MCSymmetry == {f @@ g @@ h : f \in Permutations(Conns), g \in Permutations(Invokes),
                             h \in Permutations(Requests)}
=============================================================================
