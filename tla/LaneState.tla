----------------------------- MODULE LaneState -----------------------------
(***************************************************************************)
(* The record LaneState of src/process/command-queue.ts and the functions  *)
(* on it.  A lane is a FIFO queue of entries, the set of entries whose     *)
(* task it has started and counts as active, a concurrency limit and a     *)
(* generation number.                                                      *)
(*                                                                         *)
(* Abstractions.  An entry stands for one call of enqueueCommandInLane; a  *)
(* task id is handed to each started entry once, so the entry itself plays *)
(* the task id.  The flag `draining` is set and cleared within one         *)
(* synchronous call of drainLane and is FALSE between handlers, so it is   *)
(* not part of the record.  Lanes are created on first use with the        *)
(* default values; a lane nobody used is indistinguishable from one        *)
(* holding them.                                                           *)
(***************************************************************************)
EXTENDS Integers, Sequences, FiniteSets

\* The default record of getLaneState.
NewLane == [queue |-> <<>>, active |-> {}, maxConcurrent |-> 1, generation |-> 0]

\* Mutant: `size <= maxConcurrent` in the loop of pump().
RoomOffByOne(s) ==
    IF Cardinality(s.active) <= s.maxConcurrent
    THEN s.maxConcurrent - Cardinality(s.active) + 1 ELSE 0

\* How many entries the loop of pump() takes off the queue: the free slots,
\* or the whole queue when it is shorter.
Room(s) ==
    IF Cardinality(s.active) < s.maxConcurrent
    THEN s.maxConcurrent - Cardinality(s.active) ELSE 0

Batch(s) == IF Room(s) < Len(s.queue) THEN Room(s) ELSE Len(s.queue)

\* The entries a pump starts, and the lane after it.
Startable(s) == {s.queue[i] : i \in 1..Batch(s)}

Pump(s) ==
    [s EXCEPT !.queue  = SubSeq(s.queue, Batch(s) + 1, Len(s.queue)),
              !.active = s.active \cup Startable(s)]

\* Mutant: enqueue puts the entry at the head.
WithEntryFirst(s, e) == [s EXCEPT !.queue = <<e>> \o s.queue]

\* The lane just before the pump each operation ends with.
WithEntry(s, e) == [s EXCEPT !.queue = Append(s.queue, e)]

WithLimit(s, n) == [s EXCEPT !.maxConcurrent = IF n < 1 THEN 1 ELSE n]

\* Mutant: a reset clears the counters but keeps the generation.
SameGeneration(s) == [s EXCEPT !.active = {}]

\* A completion of another generation changes nothing; the pump that follows
\* a current completion is part of Pump(WithoutTask(...)).
WithoutTask(s, e, g) ==
    IF g = s.generation THEN [s EXCEPT !.active = s.active \ {e}] ELSE s

NextGeneration(s) ==
    [s EXCEPT !.generation = s.generation + 1, !.active = {}]

Emptied(s) == [s EXCEPT !.queue = <<>>]
=============================================================================
