--------------------------- MODULE MCSessionLock ---------------------------
(* Two users in one process and one in another, for TLC. *)
EXTENDS SessionLock, TLC

CONSTANTS u1, u2, u3, p1, p2

MCProcessOf == [u \in Users |-> IF u = u3 THEN p2 ELSE p1]

MCSymmetry == {f @@ g : f \in Permutations(Tickets), g \in Permutations({u1, u2})}
=============================================================================
