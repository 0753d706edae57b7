--------------------------- MODULE MCCronService ---------------------------
(* One recurring and one one-shot job for TLC. *)
EXTENDS CronService

MCSlot == [j \in Jobs |-> 1]
MCEndings == [j \in Jobs |-> IF j \in OneShots THEN {"ok"} ELSE {"ok", "error"}]
=============================================================================
