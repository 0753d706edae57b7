-------------------------- MODULE MCFollowupQueue --------------------------
(* Small instances of FollowupQueue for TLC. *)
EXTENDS FollowupQueue, TLC

CONSTANTS m1, m2, m3

\* One route for all messages, or one message that belongs elsewhere.
SameRoute == [m \in Messages |-> 1]
TwoRoutes == [m \in Messages |-> IF m = m3 THEN 2 ELSE 1]

Setting(mode, cap, drop) == [mode |-> mode, cap |-> cap, drop |-> drop]

MixedSettings == {Setting("collect", 2, "summarize"), Setting("collect", 1, "new"),
                  Setting("followup", 1, "old")}
NewSettings   == [mode : {"collect", "followup"}, cap : {1, 2}, drop : {"new"}]
CollectOld    == {Setting("collect", 2, "old")}
FollowupTells == {Setting("followup", 1, "summarize")}

Symmetry == Permutations({m1, m2})
=============================================================================
