-------------------------- MODULE MCGatewayLifecycle --------------------------
(* Two sessions, the first with two runs, and a main lane with one slot.     *)
EXTENDS GatewayLifecycle, TLC
CONSTANTS s1, s2, r1, r2, r3

MCSessions  == {s1, s2}
MCRuns      == {r1, r2, r3}
MCSessionOf == [r \in MCRuns |-> IF r = r3 THEN s2 ELSE s1]

\* The liveness run keeps the first session only.
MCSessionsOne  == {s1}
MCRunsOne      == {r1, r2}
MCSessionOfOne == [r \in MCRunsOne |-> s1]

MCSymmetry  == Permutations({r1, r2})
==============================================================================
