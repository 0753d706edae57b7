--------------------------- MODULE MCCommandQueue ---------------------------
(* One lane and three calls competing for it; GatewayLifecycle checks lanes  *)
(* together, and the theorems hold for any lanes.                            *)
EXTENDS CommandQueue
CONSTANTS l1, e1, e2, e3

MCLanes    == {l1}
MCEntries  == {e1, e2, e3}
MCLaneOf   == [e \in MCEntries |-> l1]
MCRequests == {0, 2}
=============================================================================
