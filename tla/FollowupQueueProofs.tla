------------------------ MODULE FollowupQueueProofs ------------------------
(***************************************************************************)
(* Proofs about FollowupQueue for any messages, routes, settings and       *)
(* number of queue objects.                                                *)
(*                                                                         *)
(* What the drains share is said object by object (QueueOK) and by pairs   *)
(* of objects (Apart): no message is in two places, and what a run carries *)
(* sits within the first `take` items, whatever overflowed or was cleared  *)
(* since.  So the splice after the run takes all of it off, and nothing    *)
(* that was answered is left to be answered again.  Where the queues       *)
(* refuse what they have no room for and are never cleared, only the       *)
(* registered object ever has a drain, nothing shifts what its run will    *)
(* take off, and all that waits is in it (Holding): nothing is lost.       *)
(***************************************************************************)
EXTENDS FollowupQueue, FiniteSetTheorems, SequenceTheorems, TLAPS

Queue == [items : Seq(Messages), mode : {"collect", "followup"}, cap : Nat \ {0},
          drop : {"summarize", "old", "new"}, droppedCount : Nat,
          pc : {"idle", "debounce", "running"}, forced : BOOLEAN,
          carried : SUBSET Messages, take : Nat, told : SUBSET Messages,
          summary : BOOLEAN]

Followups == [queues : [QueueIds -> Queue], current : QueueIds \cup {None},
              callback : BOOLEAN]

Distinct(s) == \A j, k \in DOMAIN s : s[j] = s[k] => j = k

\* One object: its items were taken in once and are not answered yet, and
\* those its run carries are the first ones, at most `take` of them.
QueueOK(q, rc, st) ==
    /\ Distinct(q.items)
    /\ InQueue(q) \cup q.carried \subseteq rc
    /\ \A j \in DOMAIN q.items : q.items[j] \in q.carried => j <= q.take
    /\ \A j, k \in DOMAIN q.items :
         k < j /\ q.items[j] \in q.carried => q.items[k] \in q.carried
    /\ \A m \in InQueue(q) : st[m] # "answered"

\* No message of one object is queued in, or carried by the run of, another.
Apart(f) ==
    \A i, k \in QueueIds :
      i # k => (InQueue(f.queues[i]) \cup f.queues[i].carried) \cap InQueue(f.queues[k]) = {}

Sound(f, rc, st) ==
    /\ f \in Followups
    /\ \A i \in QueueIds : QueueOK(f.queues[i], rc, st)
    /\ Apart(f)

\* Garbage is gone: a new queue object starts empty.
Clean(f) == \A i \in QueueIds : i # f.current /\ f.queues[i].pc = "idle" => f.queues[i] = Fresh

\* KnownCallbackDrains of f.
Drains(f) ==
    f.current # None /\ f.callback =>
      (f.queues[f.current].items # <<>> => f.queues[f.current].pc # "idle")

IInv ==
    /\ TypeOK
    /\ Sound(followups, recent, status)
    /\ Clean(followups)
    /\ Drains(followups)

-----------------------------------------------------------------------------
(* Sequences. *)

\* The head of a sequence of distinct elements has as many as it has places.
LEMMA HeadCount ==
    ASSUME NEW s \in Seq(Messages), Distinct(s), NEW n \in 0..Len(s)
    PROVE  Cardinality({s[j] : j \in 1..n}) = n
<1> DEFINE T == {s[j] : j \in 1..n}
           f == [j \in 1..n |-> s[j]]
<1>1. \A j \in 1..n : j \in DOMAIN s
  OBVIOUS
<1>2. f \in [1..n -> T] /\ \A t \in T : \E j \in 1..n : f[j] = t
  OBVIOUS
<1>3. \A j, k \in 1..n : f[j] = f[k] => j = k
  BY <1>1 DEF Distinct
<1> HIDE DEF f, T
<1>4. ExistsBijection(1..n, T)
  BY <1>2, <1>3 DEF ExistsBijection, Bijection, Injection, Surjection, IsInjective
<1>5. IsFiniteSet(1..n) /\ Cardinality(1..n) = n
  BY FS_Interval
<1>6. Cardinality(T) = n
  BY <1>4, <1>5, FS_Bijection
<1> QED
  BY <1>6 DEF T

LEMMA WithoutTyped ==
    ASSUME NEW s \in Seq(Messages), NEW n \in Nat
    PROVE  /\ Without(s, n) \in Seq(Messages)
           /\ Len(Without(s, n)) = IF n <= Len(s) THEN Len(s) - n ELSE 0
           /\ \A j \in DOMAIN Without(s, n) :
                j + n \in DOMAIN s /\ Without(s, n)[j] = s[j + n]
<1> DEFINE r == SubSeq(s, n + 1, Len(s))
<1>1. /\ n + 1 \in Int /\ Len(s) \in Int /\ Len(s) \in Nat
      /\ \A j \in n + 1 .. Len(s) : s[j] \in Messages
  OBVIOUS
<1>2. /\ r \in Seq(Messages)
      /\ Len(r) = IF n + 1 <= Len(s) THEN Len(s) - (n + 1) + 1 ELSE 0
      /\ \A j \in 1 .. Len(s) - (n + 1) + 1 : r[j] = s[(n + 1) + j - 1]
  BY <1>1, SubSeqProperties
<1> HIDE DEF r
<1>3. Len(r) = IF n <= Len(s) THEN Len(s) - n ELSE 0
  BY <1>1, <1>2
<1>4. ASSUME NEW j \in DOMAIN r
      PROVE  j + n \in DOMAIN s /\ r[j] = s[j + n]
  <2>1. j \in 1..Len(r)
    BY <1>2
  <2>2. j \in 1 .. Len(s) - (n + 1) + 1 /\ (n + 1) + j - 1 = j + n /\ j + n \in 1..Len(s)
    BY <1>1, <1>3, <2>1
  <2> QED
    BY <1>2, <2>2
<1> QED
  BY <1>2, <1>3, <1>4 DEF r, Without

\* What overflows for one more message brings the queue within its cap.
LEMMA OverflowCount ==
    ASSUME NEW q \in Queue, Distinct(q.items)
    PROVE  /\ Cardinality(Overflow(q)) =
                IF Len(q.items) < q.cap THEN 0 ELSE Len(q.items) - q.cap + 1
           /\ Cardinality(Overflow(q)) \in 0..Len(q.items)
           /\ Overflow(q) \subseteq InQueue(q)
           /\ Overflow(q) = {q.items[j] : j \in 1..Cardinality(Overflow(q))}
<1> DEFINE n == Len(q.items) - q.cap + 1
<1>1. q.items \in Seq(Messages) /\ Len(q.items) \in Nat /\ q.cap \in Nat \ {0}
  BY DEF Queue
<1>2. CASE Len(q.items) < q.cap
  <2>1. Overflow(q) = {} /\ Cardinality(Overflow(q)) = 0
    BY <1>2, FS_EmptySet DEF Overflow
  <2>2. {q.items[j] : j \in 1..0} = {}
    OBVIOUS
  <2> QED
    BY <1>1, <1>2, <2>1, <2>2
<1>3. CASE ~(Len(q.items) < q.cap)
  <2>1. n \in 0..Len(q.items)
    BY <1>1, <1>3
  <2>2. Overflow(q) = {q.items[j] : j \in 1..n}
    BY <1>3 DEF Overflow
  <2> HIDE DEF n
  <2>3. Cardinality(Overflow(q)) = n
    BY <1>1, <2>1, <2>2, HeadCount
  <2>4. Overflow(q) \subseteq InQueue(q)
    BY <1>1, <2>1, <2>2 DEF InQueue
  <2> QED
    BY <1>3, <2>1, <2>2, <2>3, <2>4 DEF n
<1> QED
  BY <1>2, <1>3

-----------------------------------------------------------------------------
(* The operators on the queues. *)

\* g has the same messages as f, queued and carried, whatever its drains do.
Alike(f, g) ==
    /\ g \in Followups
    /\ \A i \in QueueIds : /\ g.queues[i].items = f.queues[i].items
                           /\ g.queues[i].carried = f.queues[i].carried
                           /\ g.queues[i].take = f.queues[i].take

LEMMA SoundAlike ==
    ASSUME NEW f, NEW g, NEW rc, NEW st, Sound(f, rc, st), Alike(f, g)
    PROVE  Sound(g, rc, st)
BY DEF Sound, Alike, QueueOK, Apart, InQueue

\* g queues and carries nothing that f does not.
Fewer(f, g) ==
    \A i \in QueueIds : /\ g.queues[i].carried \subseteq f.queues[i].carried
                        /\ InQueue(g.queues[i]) \subseteq InQueue(f.queues[i])

LEMMA FewerAlike == ASSUME NEW f, NEW g, Alike(f, g) PROVE Fewer(f, g)
BY DEF Alike, Fewer, InQueue

LEMMA FewerYet ==
    ASSUME NEW f, NEW g, NEW h, Fewer(f, g), Fewer(g, h)
    PROVE  Fewer(f, h)
BY DEF Fewer

\* A queue holds messages only.
LEMMA QueuedTyped ==
    /\ \A q \in Queue : q.items \in Seq(Messages) /\ InQueue(q) \subseteq Messages
    /\ \A f \in Followups, k \in QueueIds :
          f.queues[k] \in Queue /\ InQueue(f.queues[k]) \subseteq Messages
<1>1. ASSUME NEW q \in Queue
      PROVE  q.items \in Seq(Messages) /\ InQueue(q) \subseteq Messages
  <2>1. q.items \in Seq(Messages)
    BY DEF Queue
  <2>2. \A j \in DOMAIN q.items : q.items[j] \in Messages
    BY <2>1
  <2> QED
    BY <2>1, <2>2 DEF InQueue
<1>2. ASSUME NEW f \in Followups, NEW k \in QueueIds
      PROVE  f.queues[k] \in Queue
  BY DEF Followups
<1> QED
  BY <1>1, <1>2

\* A new value of one field.
LEMMA FieldTyped ==
    ASSUME NEW q \in Queue
    PROVE  /\ \A p \in {"idle", "debounce", "running"} : [q EXCEPT !.pc = p] \in Queue
           /\ \A b \in BOOLEAN : [q EXCEPT !.forced = b] \in Queue
           /\ \A b \in BOOLEAN : [q EXCEPT !.summary = b] \in Queue
           /\ \A S \in SUBSET Messages : [q EXCEPT !.carried = S] \in Queue
           /\ \A S \in SUBSET Messages : [q EXCEPT !.told = S] \in Queue
           /\ \A n \in Nat : [q EXCEPT !.take = n] \in Queue
           /\ \A n \in Nat : [q EXCEPT !.droppedCount = n] \in Queue
           /\ \A s \in Seq(Messages) : [q EXCEPT !.items = s] \in Queue
           /\ \A v \in {"collect", "followup"} : [q EXCEPT !.mode = v] \in Queue
           /\ \A n \in Nat \ {0} : [q EXCEPT !.cap = n] \in Queue
           /\ \A v \in {"summarize", "old", "new"} : [q EXCEPT !.drop = v] \in Queue
BY DEF Queue

\* One object is replaced.
LEMMA Put ==
    ASSUME NEW f \in Followups, NEW i \in QueueIds, NEW q \in Queue
    PROVE  LET g == [f EXCEPT !.queues[i] = q]
           IN  /\ g \in Followups /\ g.current = f.current /\ g.callback = f.callback
               /\ g.queues[i] = q
               /\ \A k \in QueueIds : k # i => g.queues[k] = f.queues[k]
BY DEF Followups

\* An object whose pc alone changes.
LEMMA Stepped ==
    ASSUME NEW f \in Followups, NEW i \in QueueIds, NEW p \in {"idle", "debounce", "running"}
    PROVE  LET g == [f EXCEPT !.queues[i].pc = p]
           IN  /\ Alike(f, g) /\ g \in Followups
               /\ g.current = f.current /\ g.callback = f.callback
               /\ g.queues[i] = [f.queues[i] EXCEPT !.pc = p]
               /\ \A k \in QueueIds : k # i => g.queues[k] = f.queues[k]
<1> DEFINE q == [f.queues[i] EXCEPT !.pc = p]
           g == [f EXCEPT !.queues[i] = q]
<1>1. f.queues[i] \in Queue
  BY DEF Followups
<1>2. /\ q \in Queue /\ q.items = f.queues[i].items /\ q.carried = f.queues[i].carried
      /\ q.take = f.queues[i].take
  <2>1. q \in Queue
    BY <1>1, FieldTyped
  <2> QED
    BY <1>1, <2>1 DEF Queue
<1>3. [f EXCEPT !.queues[i].pc = p] = g
  BY DEF Followups
<1> HIDE DEF q
<1>4. /\ g \in Followups /\ g.current = f.current /\ g.callback = f.callback
      /\ g.queues[i] = q
      /\ \A k \in QueueIds : k # i => g.queues[k] = f.queues[k]
  BY <1>2, Put
<1> HIDE DEF g
<1>5. Alike(f, g)
  BY <1>2, <1>4 DEF Alike
<1> QED
  BY <1>3, <1>4, <1>5 DEF q

LEMMA ScheduledAlike ==
    ASSUME NEW f \in Followups
    PROVE  /\ Alike(f, Scheduled(f)) /\ Drains(Scheduled(f))
           /\ \A k \in QueueIds : k # f.current => Scheduled(f).queues[k] = f.queues[k]
           /\ f.current # None /\ Pending(f.queues[f.current]) => Scheduled(f).current = f.current
           /\ \A k \in QueueIds : Scheduled(f).queues[k].cap = f.queues[k].cap
<1>1. CASE f.current = None \/ f.queues[f.current].pc # "idle"
  BY <1>1 DEF Scheduled, Alike, Drains, Followups, Queue
<1>2. CASE f.current # None /\ f.queues[f.current].pc = "idle" /\ Pending(f.queues[f.current])
  <2> DEFINE i == f.current
             q == [f.queues[i] EXCEPT !.pc = "debounce", !.forced = FALSE]
             h == [f EXCEPT !.callback = TRUE]
             g == [h EXCEPT !.queues[i] = q]
  <2>1. i \in QueueIds /\ f.queues[i] \in Queue
    BY <1>2 DEF Followups
  <2>2. q \in Queue
    <3>1. [f.queues[i] EXCEPT !.pc = "debounce"] \in Queue
      BY <2>1, FieldTyped
    <3>2. [[f.queues[i] EXCEPT !.pc = "debounce"] EXCEPT !.forced = FALSE] \in Queue
      BY <3>1, FieldTyped
    <3> QED
      BY <3>2
  <2>3. /\ q.items = f.queues[i].items /\ q.carried = f.queues[i].carried
        /\ q.take = f.queues[i].take /\ q.pc = "debounce" /\ q.cap = f.queues[i].cap
    BY <2>1 DEF Queue
  <2>4. Scheduled(f) = g
    BY <1>2, <2>1 DEF Scheduled, Followups
  <2>5. h \in Followups /\ h.current = f.current /\ h.queues = f.queues
    BY DEF Followups
  <2> HIDE DEF q, h
  <2>6. /\ g \in Followups /\ g.current = i
        /\ g.queues[i] = q
        /\ \A k \in QueueIds : k # i => g.queues[k] = f.queues[k]
    BY <2>1, <2>2, <2>5, Put
  <2> HIDE DEF g
  <2> QED
    BY <2>3, <2>4, <2>6 DEF Alike, Drains
<1>3. CASE f.current # None /\ f.queues[f.current].pc = "idle" /\ ~Pending(f.queues[f.current])
  BY <1>3 DEF Scheduled, Deleted, Alike, Drains, Followups
<1> QED
  BY <1>1, <1>2, <1>3

LEMMA DrainedAlike ==
    ASSUME NEW f \in Followups, NEW i \in QueueIds
    PROVE  Alike(f, Drained(f, i)) /\ Drains(Drained(f, i))
<1> DEFINE g == [f EXCEPT !.queues[i].pc = "idle"]
<1>1. Alike(f, g) /\ g \in Followups
  BY Stepped DEF Alike
<1>2. Drained(f, i) = IF Pending(g.queues[i]) THEN Scheduled(g) ELSE Deleted(g)
  BY DEF Drained
<1> HIDE DEF g
<1>3. Alike(g, Scheduled(g)) /\ Drains(Scheduled(g))
  BY <1>1, ScheduledAlike
<1>4. Alike(g, Deleted(g)) /\ Drains(Deleted(g))
  BY <1>1 DEF Alike, Deleted, Drains, Followups
<1> QED
  BY <1>1, <1>2, <1>3, <1>4 DEF Alike

LEMMA FreshTyped == Fresh \in Queue /\ Fresh.items = <<>> /\ Fresh.carried = {} /\ Fresh.take = 0
BY DEF Fresh, Queue

\* What is collected was empty or nobody's any more: the rest stays sound.
LEMMA CollectedSound ==
    ASSUME NEW f, NEW rc, NEW st, Sound(f, rc, st), Drains(f)
    PROVE  /\ Sound(Collected(f), rc, st) /\ Clean(Collected(f)) /\ Drains(Collected(f))
           /\ \A i \in QueueIds : \/ Collected(f).queues[i] = f.queues[i]
                                  \/ Collected(f).queues[i] = Fresh
           /\ Fewer(f, Collected(f))
<1> DEFINE g == Collected(f)
<1>1. f \in Followups
  BY DEF Sound
<1>2. /\ g.current = f.current /\ g.callback = f.callback
      /\ g.queues = [i \in QueueIds |->
           IF i # f.current /\ f.queues[i].pc = "idle" THEN Fresh ELSE f.queues[i]]
      /\ g \in Followups
  BY <1>1, FreshTyped DEF Collected, Followups
<1> HIDE DEF g
<1>3. \A i \in QueueIds : QueueOK(Fresh, rc, st)
  BY FreshTyped DEF QueueOK, Distinct, InQueue
<1>4. \A i \in QueueIds : g.queues[i] = f.queues[i] \/ g.queues[i] = Fresh
  BY <1>2
<1>5. \A i \in QueueIds : QueueOK(g.queues[i], rc, st)
  BY <1>3, <1>4 DEF Sound
<1>6. InQueue(Fresh) = {}
  BY FreshTyped DEF InQueue
<1>7. Apart(g)
  BY <1>4, <1>6, FreshTyped DEF Apart, Sound
<1>8. Clean(g)
  BY <1>2, FreshTyped DEF Clean
<1>9. Drains(g)
  BY <1>1, <1>2 DEF Drains, Followups
<1>10. Fewer(f, g)
  BY <1>4, <1>6, FreshTyped DEF Fewer
<1> QED
  BY <1>2, <1>4, <1>5, <1>7, <1>8, <1>9, <1>10 DEF Sound, g

LEMMA KickedAlike ==
    ASSUME NEW f \in Followups
    PROVE  /\ Alike(f, Kicked(f)) /\ Drains(Kicked(f))
           /\ \A k \in QueueIds : k # f.current => Kicked(f).queues[k] = f.queues[k]
           /\ f.current # None /\ Pending(f.queues[f.current]) => Kicked(f).current = f.current
           /\ \A k \in QueueIds : Kicked(f).queues[k].cap = f.queues[k].cap
<1>1. CASE f.callback
  BY <1>1, ScheduledAlike DEF Kicked
<1>2. CASE ~f.callback
  BY <1>2 DEF Kicked, Alike, Drains
<1> QED
  BY <1>1, <1>2

LEMMA WithQueueAlike ==
    ASSUME NEW f \in Followups, NEW i \in QueueIds, NEW s \in Settings
    PROVE  LET g == WithQueue(f, i, s)
           IN  /\ Alike(f, g) /\ g \in Followups
               /\ g.current = i /\ g.callback = f.callback
               /\ g.queues[i].cap = s.cap /\ g.queues[i].drop = s.drop
               /\ g.queues[i].pc = f.queues[i].pc
               /\ g.queues[i].droppedCount = f.queues[i].droppedCount
               /\ g.queues[i].told = f.queues[i].told
               /\ \A k \in QueueIds : k # i => g.queues[k] = f.queues[k]
<1> DEFINE q == [f.queues[i] EXCEPT !.mode = s.mode, !.cap = s.cap, !.drop = s.drop]
           h == [f EXCEPT !.current = i]
           g == [h EXCEPT !.queues[i] = q]
<1>1. f.queues[i] \in Queue
  BY DEF Followups
<1>2. /\ s.mode \in {"collect", "followup"} /\ s.cap \in Nat \ {0}
      /\ s.drop \in {"summarize", "old", "new"}
  BY FollowupAssumption DEF FollowupAssumption
<1>3. q \in Queue
  <2>1. [f.queues[i] EXCEPT !.mode = s.mode] \in Queue
    BY <1>1, <1>2, FieldTyped
  <2>2. [[f.queues[i] EXCEPT !.mode = s.mode] EXCEPT !.cap = s.cap] \in Queue
    BY <1>2, <2>1, FieldTyped
  <2>3. [[[f.queues[i] EXCEPT !.mode = s.mode] EXCEPT !.cap = s.cap]
              EXCEPT !.drop = s.drop] \in Queue
    BY <1>2, <2>2, FieldTyped
  <2> QED
    BY <2>3
<1>4. /\ q.items = f.queues[i].items /\ q.carried = f.queues[i].carried
      /\ q.take = f.queues[i].take /\ q.pc = f.queues[i].pc
      /\ q.droppedCount = f.queues[i].droppedCount /\ q.told = f.queues[i].told
      /\ q.cap = s.cap /\ q.drop = s.drop
  BY <1>1 DEF Queue
<1>5. WithQueue(f, i, s) = g
  BY DEF WithQueue, Followups
<1>6. h \in Followups /\ h.current = i /\ h.queues = f.queues /\ h.callback = f.callback
  BY DEF Followups
<1> HIDE DEF q, h
<1>7. /\ g \in Followups /\ g.current = i /\ g.callback = f.callback
      /\ g.queues[i] = q
      /\ \A k \in QueueIds : k # i => g.queues[k] = f.queues[k]
  BY <1>3, <1>6, Put
<1> HIDE DEF g
<1>8. Alike(f, g)
  BY <1>4, <1>7 DEF Alike
<1> QED
  BY <1>4, <1>5, <1>7, <1>8

-----------------------------------------------------------------------------
(* A message is taken in. *)

\* The new message comes last, the others move up by what overflowed, and all
\* of them are within the cap.
LEMMA PushedItems ==
    ASSUME NEW q \in Queue, Distinct(q.items), NEW m \in Messages \ InQueue(q)
    PROVE  LET r == Pushed(q, m)
               c == Cardinality(Overflow(q))
           IN  /\ r \in Queue /\ r.carried = q.carried /\ r.take = q.take /\ r.pc = q.pc
               /\ r.drop = q.drop /\ r.told = q.told
               /\ Overflow(q) = {} \/ q.drop # "summarize" => r.droppedCount = q.droppedCount
               /\ r.cap = q.cap /\ Len(r.items) <= r.cap
               /\ c \in Nat /\ Len(r.items) = Len(q.items) - c + 1
               /\ r.items[Len(r.items)] = m
               /\ \A j \in DOMAIN r.items :
                    j # Len(r.items) => j + c \in DOMAIN q.items /\ r.items[j] = q.items[j + c]
<1> DEFINE c == Cardinality(Overflow(q))
           w == Without(q.items, c)
           d == IF q.drop = "summarize" THEN q.droppedCount + c ELSE q.droppedCount
           r == [q EXCEPT !.items = Append(w, m), !.droppedCount = d]
<1>1. q.items \in Seq(Messages) /\ Len(q.items) \in Nat /\ q.cap \in Nat \ {0}
      /\ q.droppedCount \in Nat
  BY DEF Queue
<1>2. /\ c = IF Len(q.items) < q.cap THEN 0 ELSE Len(q.items) - q.cap + 1
      /\ c \in 0..Len(q.items)
  BY OverflowCount
<1>3. Overflow(q) = {} => c = 0
  BY FS_EmptySet
<1>4. Pushed(q, m) = r
  BY <1>1 DEF Pushed, Queue
<1> HIDE DEF c
<1>5. /\ w \in Seq(Messages) /\ Len(w) = Len(q.items) - c
      /\ \A j \in DOMAIN w : j + c \in DOMAIN q.items /\ w[j] = q.items[j + c]
  <2>1. c \in Nat /\ c <= Len(q.items)
    BY <1>1, <1>2
  <2>2. /\ w \in Seq(Messages) /\ Len(w) = IF c <= Len(q.items) THEN Len(q.items) - c ELSE 0
        /\ \A j \in DOMAIN w : j + c \in DOMAIN q.items /\ w[j] = q.items[j + c]
    BY <1>1, <2>1, WithoutTyped
  <2> HIDE DEF w
  <2> QED
    BY <2>1, <2>2
<1> HIDE DEF w
<1>6. /\ Append(w, m) \in Seq(Messages) /\ Len(Append(w, m)) = Len(w) + 1
      /\ Append(w, m)[Len(w) + 1] = m
      /\ \A j \in 1..Len(w) : Append(w, m)[j] = w[j]
  BY <1>5, AppendProperties
<1>7. d \in Nat /\ (c = 0 \/ q.drop # "summarize" => d = q.droppedCount)
  BY <1>1, <1>2
<1> HIDE DEF d
<1>8. r \in Queue
  <2>1. [q EXCEPT !.items = Append(w, m)] \in Queue
    BY <1>6, FieldTyped
  <2>2. [[q EXCEPT !.items = Append(w, m)] EXCEPT !.droppedCount = d] \in Queue
    BY <1>7, <2>1, FieldTyped
  <2> QED
    BY <2>2
<1>9. /\ r.items = Append(w, m) /\ r.carried = q.carried /\ r.take = q.take /\ r.pc = q.pc
      /\ r.drop = q.drop /\ r.told = q.told /\ r.cap = q.cap /\ r.droppedCount = d
  BY DEF Queue
<1> HIDE DEF r
<1>10. Len(r.items) = Len(q.items) - c + 1 /\ Len(r.items) <= r.cap
  BY <1>1, <1>2, <1>5, <1>6, <1>9
<1>11. ASSUME NEW j \in DOMAIN r.items, j # Len(r.items)
       PROVE  j + c \in DOMAIN q.items /\ r.items[j] = q.items[j + c]
  <2>1. j \in 1..Len(w) /\ DOMAIN w = 1..Len(w)
    BY <1>5, <1>6, <1>9, <1>11
  <2> QED
    BY <1>5, <1>6, <1>9, <2>1
<1>12. r.items[Len(r.items)] = m
  BY <1>6, <1>9
<1> QED
  BY <1>2, <1>3, <1>4, <1>7, <1>8, <1>9, <1>10, <1>11, <1>12 DEF c

LEMMA PushedSound ==
    ASSUME NEW f, NEW rc, NEW st, NEW s2, Sound(f, rc, st), NEW i \in QueueIds,
           NEW m \in Messages, m \notin rc,
           \A n \in Messages : s2[n] = "answered" => st[n] = "answered" /\ n # m
    PROVE  LET g == [f EXCEPT !.queues[i] = Pushed(f.queues[i], m)]
           IN  /\ Sound(g, rc \cup {m}, s2) /\ g \in Followups
               /\ g.current = f.current /\ g.callback = f.callback
               /\ g.queues[i] = Pushed(f.queues[i], m)
               /\ \A k \in QueueIds : k # i => g.queues[k] = f.queues[k]
<1> DEFINE q == f.queues[i]
           r == Pushed(q, m)
           c == Cardinality(Overflow(q))
           g == [f EXCEPT !.queues[i] = r]
<1>1. f \in Followups /\ q \in Queue /\ QueueOK(q, rc, st) /\ Apart(f)
  BY DEF Sound, Followups
<1>2. m \notin InQueue(q) /\ m \notin q.carried /\ Distinct(q.items)
  BY <1>1 DEF QueueOK
<1>3. /\ r \in Queue /\ r.carried = q.carried /\ r.take = q.take
      /\ c \in Nat /\ Len(r.items) = Len(q.items) - c + 1
      /\ r.items[Len(r.items)] = m
      /\ \A j \in DOMAIN r.items :
           j # Len(r.items) => j + c \in DOMAIN q.items /\ r.items[j] = q.items[j + c]
  BY <1>1, <1>2, PushedItems
<1> HIDE DEF r, c
<1>4. /\ g \in Followups /\ g.current = f.current /\ g.callback = f.callback
      /\ g.queues[i] = r
      /\ \A k \in QueueIds : k # i => g.queues[k] = f.queues[k]
  BY <1>1, <1>3, Put
<1> HIDE DEF g
<1>5. /\ DOMAIN r.items = 1..Len(r.items) /\ Len(r.items) \in Nat
      /\ DOMAIN q.items = 1..Len(q.items) /\ Len(q.items) \in Nat
  BY <1>1, <1>3 DEF Queue
<1>6. InQueue(r) \subseteq InQueue(q) \cup {m}
  BY <1>3, <1>5 DEF InQueue
<1>7. \A j \in DOMAIN r.items : j # Len(r.items) => r.items[j] \in InQueue(q)
  BY <1>3 DEF InQueue
<1>8. QueueOK(r, rc \cup {m}, s2)
  <2>1. Distinct(r.items)
    <3> SUFFICES ASSUME NEW j \in DOMAIN r.items, NEW k \in DOMAIN r.items,
                        r.items[j] = r.items[k], j # k
                 PROVE  FALSE
      BY DEF Distinct
    <3>1. j # Len(r.items) /\ k # Len(r.items)
      BY <1>2, <1>3, <1>7
    <3>2. j + c = k + c
      BY <1>2, <1>3, <3>1 DEF Distinct
    <3> QED
      BY <1>3, <1>5, <3>2
  <2>2. InQueue(r) \cup r.carried \subseteq rc \cup {m}
    BY <1>1, <1>3, <1>6 DEF QueueOK
  <2>3. ASSUME NEW j \in DOMAIN r.items, r.items[j] \in r.carried
        PROVE  /\ j <= r.take
               /\ \A k \in DOMAIN r.items : k < j => r.items[k] \in r.carried
    <3>1. j # Len(r.items)
      BY <1>2, <1>3, <2>3
    <3>2. j + c \in DOMAIN q.items /\ q.items[j + c] \in q.carried
      BY <1>3, <2>3, <3>1
    <3>3. j + c <= q.take /\ q.take \in Nat
      BY <1>1, <3>2 DEF QueueOK, Queue
    <3>4. ASSUME NEW k \in DOMAIN r.items, k < j
          PROVE  r.items[k] \in r.carried
      <4>1. k # Len(r.items) /\ k + c < j + c
        BY <1>3, <1>5, <3>4
      <4>2. k + c \in DOMAIN q.items /\ r.items[k] = q.items[k + c]
        BY <1>3, <4>1
      <4>3. q.items[k + c] \in q.carried
        BY <1>1, <3>2, <4>1, <4>2 DEF QueueOK
      <4> QED
        BY <1>3, <4>2, <4>3
    <3> QED
      BY <1>3, <1>5, <3>3, <3>4
  <2>4. \A n \in InQueue(r) : s2[n] # "answered"
    <3>1. InQueue(r) \subseteq Messages
      BY <1>3, <1>5, QueuedTyped
    <3> QED
      BY <1>1, <1>6, <3>1 DEF QueueOK
  <2> QED
    BY <2>1, <2>2, <2>3, <2>4 DEF QueueOK
<1>9. \A k \in QueueIds : k # i => QueueOK(g.queues[k], rc \cup {m}, s2)
  <2> SUFFICES ASSUME NEW k \in QueueIds, k # i PROVE QueueOK(f.queues[k], rc \cup {m}, s2)
    BY <1>4
  <2>1. QueueOK(f.queues[k], rc, st) /\ f.queues[k] \in Queue
    BY DEF Sound, Followups
  <2>2. InQueue(f.queues[k]) \subseteq Messages
    BY <2>1, QueuedTyped
  <2> QED
    BY <2>1, <2>2 DEF QueueOK
<1>10. Apart(g)
  <2>1. \A k \in QueueIds : m \notin InQueue(f.queues[k]) \cup f.queues[k].carried
    BY DEF Sound, QueueOK
  <2> SUFFICES ASSUME NEW j \in QueueIds, NEW k \in QueueIds, j # k
               PROVE  (InQueue(g.queues[j]) \cup g.queues[j].carried)
                         \cap InQueue(g.queues[k]) = {}
    BY DEF Apart
  <2>2. (InQueue(f.queues[j]) \cup f.queues[j].carried) \cap InQueue(f.queues[k]) = {}
    BY <1>1 DEF Apart
  <2>3. CASE j = i
    BY <1>3, <1>4, <1>6, <2>1, <2>2, <2>3
  <2>4. CASE k = i
    BY <1>3, <1>4, <1>6, <2>1, <2>2, <2>4
  <2>5. CASE j # i /\ k # i
    BY <1>4, <2>2, <2>5
  <2> QED
    BY <2>3, <2>4, <2>5
<1> QED
  BY <1>4, <1>8, <1>9, <1>10 DEF Sound, g, r

-----------------------------------------------------------------------------
(* The actions. *)

USE FollowupAssumption DEF FollowupAssumption

LEMMA NoneIsNoId == None \notin QueueIds
BY DEF None

\* g starts no run, and where it takes a message in it is within the cap.
TakesIn(f, g) ==
    \A k \in QueueIds :
      /\ g.queues[k].carried = f.queues[k].carried
      /\ \/ InQueue(g.queues[k]) = InQueue(f.queues[k])
         \/ Len(g.queues[k].items) <= g.queues[k].cap

LEMMA EnqueueKeeps ==
    ASSUME IInv, NEW m \in Messages, NEW s \in Settings, Enqueue(m, s)
    PROVE  /\ Sound(followups, recent, status)' /\ Clean(followups') /\ Drains(followups')
           /\ TakesIn(followups, followups')
<1>1. PICK i \in QueueIds :
         LET f == WithQueue(followups, i, s)
             q == f.queues[i]
         IN  /\ IF followups.current # None THEN i = followups.current
                ELSE /\ followups.queues[i].pc = "idle"
                     /\ \A j \in QueueIds : followups.queues[j].pc = "idle" => i <= j
             /\ \/ /\ m \in recent \cup InQueue(q)
                   /\ followups' = f
                   /\ UNCHANGED <<recent, status>>
                \/ /\ m \notin recent \cup InQueue(q)
                   /\ q.drop = "new" /\ Overflow(q) # {}
                   /\ followups' = f
                   /\ status' = [status EXCEPT ![m] = "rejected"]
                   /\ UNCHANGED recent
                \/ /\ m \notin recent \cup InQueue(q)
                   /\ q.drop # "new" \/ Overflow(q) = {}
                   /\ followups' = Kicked([f EXCEPT !.queues[i] = Pushed(q, m)])
                   /\ recent' = recent \cup {m}
                   /\ status' = [n \in Messages |->
                          IF n = m THEN "waiting"
                          ELSE IF n \notin Overflow(q) THEN status[n]
                          ELSE IF q.drop = "summarize" THEN "dropped" ELSE "rejected"]
  BY DEF Enqueue
<1> DEFINE f == WithQueue(followups, i, s)
           q == f.queues[i]
           h == [f EXCEPT !.queues[i] = Pushed(q, m)]
<1>2. Sound(followups, recent, status) /\ followups \in Followups /\ Clean(followups)
      /\ Drains(followups) /\ status \in [Messages -> Statuses]
  BY DEF IInv, Sound, TypeOK
<1>3. /\ Alike(followups, f) /\ f \in Followups
      /\ f.current = i /\ f.callback = followups.callback
      /\ q.pc = followups.queues[i].pc
      /\ \A k \in QueueIds : k # i => f.queues[k] = followups.queues[k]
  BY <1>2, WithQueueAlike
<1>4. followups.current = i \/ (followups.current = None /\ followups.queues[i] = Fresh)
  BY <1>1, <1>2, NoneIsNoId DEF Clean
<1> HIDE DEF f
<1>5. Sound(f, recent, status)
  BY <1>2, <1>3, SoundAlike
<1>6. \A k \in QueueIds : k # i /\ f.queues[k].pc = "idle" => f.queues[k] = Fresh
  BY <1>2, <1>3, <1>4, NoneIsNoId DEF Clean
<1>7. CASE followups' = f /\ recent' = recent
           /\ (status' = status \/ status' = [status EXCEPT ![m] = "rejected"])
  <2>1. Drains(f)
    <3>1. q.items = followups.queues[i].items
      BY <1>3 DEF Alike
    <3> QED
      BY <1>2, <1>3, <1>4, <3>1, FreshTyped, NoneIsNoId DEF Drains
  <2>2. \A n \in Messages : status'[n] = "answered" => status[n] = "answered"
    BY <1>2, <1>7
  <2>3. Sound(f, recent, status')
    <3>1. \A k \in QueueIds : InQueue(f.queues[k]) \subseteq Messages
      BY <1>3, QueuedTyped
    <3> QED
      BY <1>5, <2>2, <3>1 DEF Sound, QueueOK
  <2>4. TakesIn(followups, f)
    BY <1>3 DEF TakesIn, Alike, InQueue
  <2> QED
    BY <1>3, <1>6, <1>7, <2>1, <2>3, <2>4 DEF Clean
<1>8. CASE /\ m \notin recent \cup InQueue(q)
           /\ followups' = Kicked(h)
           /\ recent' = recent \cup {m}
           /\ status' = [n \in Messages |->
                  IF n = m THEN "waiting"
                  ELSE IF n \notin Overflow(q) THEN status[n]
                  ELSE IF q.drop = "summarize" THEN "dropped" ELSE "rejected"]
  <2>1. \A n \in Messages : status'[n] = "answered" => status[n] = "answered" /\ n # m
    BY <1>8
  <2>2. /\ Sound(h, recent \cup {m}, status') /\ h \in Followups
        /\ h.current = i /\ h.queues[i] = Pushed(q, m)
        /\ \A k \in QueueIds : k # i => h.queues[k] = f.queues[k]
    <3>1. m \notin recent
      BY <1>8
    <3> QED
      BY <1>3, <1>5, <2>1, <3>1, PushedSound
  <2>3. /\ Pending(h.queues[i])
        /\ h.queues[i].carried = q.carried /\ Len(h.queues[i].items) <= h.queues[i].cap
    <3>1. q \in Queue /\ Distinct(q.items)
      BY <1>3, <1>5 DEF Sound, QueueOK, Followups
    <3>2. /\ Pushed(q, m) \in Queue
          /\ Len(Pushed(q, m).items) = Len(q.items) - Cardinality(Overflow(q)) + 1
          /\ Pushed(q, m).carried = q.carried /\ Len(Pushed(q, m).items) <= Pushed(q, m).cap
      BY <1>8, <3>1, PushedItems
    <3>3. Len(q.items) - Cardinality(Overflow(q)) \in Nat
      BY <3>1, OverflowCount DEF Queue
    <3> HIDE DEF q
    <3>4. Len(Pushed(q, m).items) # 0
      BY <3>2, <3>3
    <3> QED
      BY <2>2, <3>2, <3>4 DEF Pending
  <2> HIDE DEF h
  <2>4. /\ Alike(h, Kicked(h)) /\ Drains(Kicked(h)) /\ Kicked(h).current = i
        /\ \A k \in QueueIds : k # i => Kicked(h).queues[k] = h.queues[k]
        /\ \A k \in QueueIds : Kicked(h).queues[k].cap = h.queues[k].cap
    BY <2>2, <2>3, NoneIsNoId, KickedAlike
  <2>5. Sound(Kicked(h), recent \cup {m}, status')
    BY <2>2, <2>4, SoundAlike
  <2>6. Clean(Kicked(h))
    BY <1>6, <2>2, <2>4 DEF Clean
  <2>7. TakesIn(followups, Kicked(h))
    <3>1. \A k \in QueueIds : k # i => Kicked(h).queues[k] = followups.queues[k]
      BY <1>3, <2>2, <2>4
    <3>2. /\ Kicked(h).queues[i].carried = followups.queues[i].carried
          /\ Len(Kicked(h).queues[i].items) <= Kicked(h).queues[i].cap
      BY <1>3, <2>3, <2>4 DEF Alike
    <3> QED
      BY <3>1, <3>2 DEF TakesIn
  <2> QED
    BY <1>8, <2>4, <2>5, <2>6, <2>7
<1> QED
  BY <1>1, <1>7, <1>8 DEF f

\* A drain that ends, and what its end makes of the queue.
LEMMA DrainEndKeeps ==
    ASSUME NEW f, NEW rc, NEW st, Sound(f, rc, st), NEW i \in QueueIds
    PROVE  /\ Sound(Collected(Drained(f, i)), rc, st) /\ Clean(Collected(Drained(f, i)))
           /\ Drains(Collected(Drained(f, i))) /\ Fewer(f, Collected(Drained(f, i)))
<1>1. f \in Followups
  BY DEF Sound
<1>2. Alike(f, Drained(f, i)) /\ Drains(Drained(f, i))
  BY <1>1, DrainedAlike
<1>3. Sound(Drained(f, i), rc, st) /\ Fewer(f, Drained(f, i))
  BY <1>2, SoundAlike, FewerAlike
<1>4. Fewer(Drained(f, i), Collected(Drained(f, i)))
  BY <1>2, <1>3, CollectedSound
<1>5. Fewer(f, Collected(Drained(f, i)))
  BY <1>3, <1>4, FewerYet
<1> QED
  BY <1>2, <1>3, <1>5, CollectedSound

LEMMA EndTurnKeeps ==
    ASSUME IInv, EndTurn
    PROVE  /\ Sound(followups, recent, status)' /\ Clean(followups') /\ Drains(followups')
           /\ Fewer(followups, followups')
<1>1. followups \in Followups /\ Sound(followups, recent, status)
  BY DEF IInv, Sound
<1>2. Alike(followups, Scheduled(followups)) /\ Drains(Scheduled(followups))
  BY <1>1, ScheduledAlike
<1>3. Sound(Scheduled(followups), recent, status) /\ Fewer(followups, Scheduled(followups))
  BY <1>1, <1>2, SoundAlike, FewerAlike
<1>4. Fewer(Scheduled(followups), Collected(Scheduled(followups)))
  BY <1>2, <1>3, CollectedSound
<1>5. Fewer(followups, Collected(Scheduled(followups)))
  BY <1>3, <1>4, FewerYet
<1> QED
  BY <1>2, <1>3, <1>5, CollectedSound DEF EndTurn

\* A new run: it carries items the object holds, of which none is answered.
LEMMA AwaitsSound ==
    ASSUME NEW f, NEW rc, NEW st, Sound(f, rc, st), NEW i \in QueueIds, NEW q \in Queue,
           q.items = f.queues[i].items, NEW n \in Nat, n <= Len(q.items),
           q.take = n, q.carried = {} \/ q.carried = {q.items[j] : j \in 1..n}
    PROVE  /\ Sound([f EXCEPT !.queues[i] = q], rc, st)
           /\ \A m \in q.carried : st[m] # "answered"
<1> DEFINE g == [f EXCEPT !.queues[i] = q]
<1>1. f \in Followups /\ QueueOK(f.queues[i], rc, st) /\ f.queues[i] \in Queue /\ Apart(f)
  BY DEF Sound, Followups
<1>2. /\ g \in Followups /\ g.queues[i] = q
      /\ \A k \in QueueIds : k # i => g.queues[k] = f.queues[k]
  BY <1>1, Put
<1> HIDE DEF g
<1>3. DOMAIN q.items = 1..Len(q.items) /\ Len(q.items) \in Nat /\ Distinct(q.items)
  BY <1>1 DEF Queue, QueueOK
<1>4. q.carried \subseteq InQueue(q) /\ InQueue(q) = InQueue(f.queues[i])
  BY <1>3 DEF InQueue
<1>5. ASSUME NEW j \in DOMAIN q.items, q.items[j] \in q.carried
      PROVE  j \in 1..n /\ \A k \in 1..n : q.items[k] \in q.carried
  <2>1. PICK k \in 1..n : q.items[j] = q.items[k]
    BY <1>5
  <2>2. j = k
    BY <1>3, <2>1 DEF Distinct
  <2> QED
    BY <1>5, <2>1, <2>2
<1>6. QueueOK(q, rc, st)
  <2>1. ASSUME NEW j \in DOMAIN q.items, q.items[j] \in q.carried
        PROVE  j <= q.take /\ \A k \in DOMAIN q.items : k < j => q.items[k] \in q.carried
    BY <1>3, <1>5, <2>1
  <2> QED
    BY <1>1, <1>3, <1>4, <2>1 DEF QueueOK
<1>7. Apart(g)
  <2> SUFFICES ASSUME NEW j \in QueueIds, NEW k \in QueueIds, j # k
               PROVE  (InQueue(g.queues[j]) \cup g.queues[j].carried)
                         \cap InQueue(g.queues[k]) = {}
    BY DEF Apart
  <2>1. (InQueue(f.queues[j]) \cup f.queues[j].carried) \cap InQueue(f.queues[k]) = {}
    BY <1>1 DEF Apart
  <2> QED
    BY <1>2, <1>4, <2>1
<1> QED
  BY <1>1, <1>2, <1>4, <1>6, <1>7 DEF Sound, QueueOK, g

\* The object when the loop awaits a run.
Started(q, S, n, b, T, c) ==
    [q EXCEPT !.pc = "running", !.carried = S, !.take = n, !.summary = b, !.told = T,
              !.forced = c]

LEMMA StartedTyped ==
    ASSUME NEW q \in Queue, NEW S \in SUBSET Messages, NEW n \in Nat, NEW b \in BOOLEAN,
           NEW T \in SUBSET Messages, NEW c \in BOOLEAN
    PROVE  /\ Started(q, S, n, b, T, c) \in Queue
           /\ Started(q, S, n, b, T, c).items = q.items
           /\ Started(q, S, n, b, T, c).carried = S
           /\ Started(q, S, n, b, T, c).take = n
           /\ Started(q, S, n, b, T, c).pc = "running"
           /\ Started(q, S, n, b, T, c).drop = q.drop
           /\ Started(q, S, n, b, T, c).droppedCount = q.droppedCount
           /\ Started(q, S, n, b, T, c).told = T
<1> DEFINE r == [q EXCEPT !.pc = "running", !.carried = S, !.take = n, !.summary = b,
                          !.told = T, !.forced = c]
<1>1. Started(q, S, n, b, T, c) = r
  BY DEF Started
<1>2. r \in Queue
  <2>1. [q EXCEPT !.pc = "running"] \in Queue
    BY FieldTyped
  <2>2. [[q EXCEPT !.pc = "running"] EXCEPT !.carried = S] \in Queue
    BY <2>1, FieldTyped
  <2>3. [[[q EXCEPT !.pc = "running"] EXCEPT !.carried = S] EXCEPT !.take = n] \in Queue
    BY <2>2, FieldTyped
  <2>4. [[[[q EXCEPT !.pc = "running"] EXCEPT !.carried = S] EXCEPT !.take = n]
            EXCEPT !.summary = b] \in Queue
    BY <2>3, FieldTyped
  <2>5. [[[[[q EXCEPT !.pc = "running"] EXCEPT !.carried = S] EXCEPT !.take = n]
            EXCEPT !.summary = b] EXCEPT !.told = T] \in Queue
    BY <2>4, FieldTyped
  <2>6. [[[[[[q EXCEPT !.pc = "running"] EXCEPT !.carried = S] EXCEPT !.take = n]
            EXCEPT !.summary = b] EXCEPT !.told = T] EXCEPT !.forced = c] \in Queue
    BY <2>5, FieldTyped
  <2> QED
    BY <2>6
<1>3. /\ r.items = q.items /\ r.carried = S /\ r.take = n /\ r.pc = "running"
      /\ r.drop = q.drop /\ r.droppedCount = q.droppedCount /\ r.told = T
  BY DEF Queue
<1> QED
  BY <1>1, <1>2, <1>3

\* The three kinds of run a drain starts, or the break that ends its loop.
LEMMA WakeCases ==
    ASSUME followups \in Followups, NEW i \in QueueIds, Wake(i)
    PROVE  LET q == followups.queues[i] IN
           \/ /\ ~Pending(q) \/ q.items = <<>>
              /\ followups' = Collected(Drained(followups, i))
           \/ \E r \in Queue, n \in Nat :
                /\ followups' = [followups EXCEPT !.queues[i] = r]
                /\ r.items = q.items /\ r.take = n /\ n <= Len(q.items)
                /\ r.carried = {} \/ r.carried = {q.items[j] : j \in 1..n}
                /\ r.pc = "running" /\ r.drop = q.drop /\ r.droppedCount = q.droppedCount
                /\ q.droppedCount = 0 => /\ r.told = {}
                                         /\ r.carried = {q.items[j] : j \in 1..n}
<1> DEFINE q == followups.queues[i]
           forced == q.mode = "collect" /\ (q.forced \/ CrossChannel(q))
           b == q.forced \/ forced
           drops == {m \in Messages : status[m] = "dropped"}
           told == IF Summarizes(q) THEN drops ELSE {}
           yes == TRUE
           no == FALSE
           Ends == /\ ~Pending(q) \/ q.items = <<>>
                   /\ followups' = Collected(Drained(followups, i))
           Starts(r, n) ==
             /\ followups' = [followups EXCEPT !.queues[i] = r]
             /\ r.items = q.items /\ r.take = n /\ n <= Len(q.items)
             /\ r.carried = {} \/ r.carried = {q.items[j] : j \in 1..n}
             /\ r.pc = "running" /\ r.drop = q.drop /\ r.droppedCount = q.droppedCount
             /\ q.droppedCount = 0 => /\ r.told = {}
                                      /\ r.carried = {q.items[j] : j \in 1..n}
<1> SUFFICES Ends \/ \E r \in Queue, n \in Nat : Starts(r, n)
  OBVIOUS
<1>1. q \in Queue /\ q.items \in Seq(Messages) /\ Len(q.items) \in Nat
      /\ DOMAIN q.items = 1..Len(q.items) /\ q.forced \in BOOLEAN /\ q.droppedCount \in Nat
  BY DEF Followups, Queue
<1>2. b \in BOOLEAN
  BY <1>1
<1>3. \/ Ends
      \/ followups' = [followups EXCEPT !.queues[i] =
                          Started(q, InQueue(q), Len(q.items), Summarizes(q), told, b)]
      \/ /\ q.items # <<>> /\ Summarizes(q)
         /\ followups' = [followups EXCEPT !.queues[i] = Started(q, {}, 1, yes, drops, b)]
      \/ /\ q.items # <<>>
         /\ followups' = [followups EXCEPT !.queues[i] = Started(q, {Head(q.items)}, 1, no, {}, b)]
  BY DEF Wake, Awaits, Started
<1>4. Summarizes(q) \in BOOLEAN /\ (q.droppedCount = 0 => ~Summarizes(q))
  BY <1>1 DEF Summarizes
<1>5. drops \in SUBSET Messages /\ told \in SUBSET Messages /\ (~Summarizes(q) => told = {})
      /\ yes \in BOOLEAN /\ no \in BOOLEAN
  OBVIOUS
<1> HIDE DEF q, forced, b, drops, told, yes, no, Ends
<1>6. CASE followups' = [followups EXCEPT !.queues[i] =
                          Started(q, InQueue(q), Len(q.items), Summarizes(q), told, b)]
  <2> DEFINE r == Started(q, InQueue(q), Len(q.items), Summarizes(q), told, b)
  <2>1. InQueue(q) \in SUBSET Messages /\ InQueue(q) = {q.items[j] : j \in 1..Len(q.items)}
    BY <1>1 DEF InQueue
  <2>2. /\ r \in Queue /\ r.items = q.items /\ r.carried = InQueue(q)
        /\ r.take = Len(q.items)
        /\ r.pc = "running" /\ r.drop = q.drop /\ r.droppedCount = q.droppedCount
        /\ r.told = told
    BY <1>1, <1>2, <1>4, <1>5, <2>1, StartedTyped
  <2>3. followups' = [followups EXCEPT !.queues[i] = r]
    BY <1>6
  <2> HIDE DEF r
  <2>4. Starts(r, Len(q.items))
    BY <1>1, <1>4, <1>5, <2>1, <2>2, <2>3
  <2> QED
    BY <1>1, <2>2, <2>4
<1>7. CASE /\ q.items # <<>> /\ Summarizes(q)
           /\ followups' = [followups EXCEPT !.queues[i] = Started(q, {}, 1, yes, drops, b)]
  <2> DEFINE r == Started(q, {}, 1, yes, drops, b)
  <2>1. /\ r \in Queue /\ r.items = q.items /\ r.carried = {} /\ r.take = 1
        /\ r.pc = "running" /\ r.drop = q.drop /\ r.droppedCount = q.droppedCount
    BY <1>1, <1>2, <1>5, StartedTyped
  <2>2. 1 <= Len(q.items) /\ q.droppedCount # 0
    BY <1>1, <1>4, <1>7
  <2>3. followups' = [followups EXCEPT !.queues[i] = r]
    BY <1>7
  <2> HIDE DEF r
  <2>4. Starts(r, 1)
    BY <2>1, <2>2, <2>3
  <2> QED
    BY <2>1, <2>4
<1>8. CASE /\ q.items # <<>>
           /\ followups' = [followups EXCEPT !.queues[i] = Started(q, {Head(q.items)}, 1, no, {}, b)]
  <2> DEFINE r == Started(q, {Head(q.items)}, 1, no, {}, b)
  <2>1. /\ 1 <= Len(q.items) /\ {Head(q.items)} \in SUBSET Messages
        /\ {Head(q.items)} = {q.items[j] : j \in 1..1}
    BY <1>1, <1>8
  <2>2. /\ r \in Queue /\ r.items = q.items /\ r.carried = {Head(q.items)} /\ r.take = 1
        /\ r.pc = "running" /\ r.drop = q.drop /\ r.droppedCount = q.droppedCount
        /\ r.told = {}
    BY <1>1, <1>2, <1>5, <2>1, StartedTyped
  <2>3. followups' = [followups EXCEPT !.queues[i] = r]
    BY <1>8
  <2> HIDE DEF r
  <2>4. Starts(r, 1)
    BY <2>1, <2>2, <2>3
  <2> QED
    BY <2>2, <2>4
<1> QED
  BY <1>3, <1>6, <1>7, <1>8

LEMMA WakeKeeps ==
    ASSUME IInv, NEW i \in QueueIds, Wake(i)
    PROVE  /\ Sound(followups, recent, status)' /\ Clean(followups') /\ Drains(followups')
           /\ \A k \in QueueIds, m \in Messages :
                m \in followups'.queues[k].carried /\ m \notin followups.queues[k].carried
                => status[m] # "answered"
           /\ \A k \in QueueIds : InQueue(followups'.queues[k]) \subseteq InQueue(followups.queues[k])
<1>1. /\ Sound(followups, recent, status) /\ followups \in Followups /\ Clean(followups)
      /\ Drains(followups) /\ recent' = recent /\ status' = status
      /\ followups.queues[i] \in Queue
  BY DEF IInv, Sound, Wake, Followups
<1>2. CASE followups' = Collected(Drained(followups, i))
  <2>1. /\ Sound(followups', recent, status) /\ Clean(followups') /\ Drains(followups')
        /\ Fewer(followups, followups')
    BY <1>1, <1>2, DrainEndKeeps
  <2> QED
    BY <1>1, <2>1 DEF Fewer
<1>3. ASSUME NEW r \in Queue, NEW n \in Nat,
             followups' = [followups EXCEPT !.queues[i] = r],
             r.items = followups.queues[i].items, r.take = n,
             n <= Len(followups.queues[i].items),
             \/ r.carried = {}
             \/ r.carried = {followups.queues[i].items[j] : j \in 1..n},
             r.pc = "running"
      PROVE  /\ Sound(followups, recent, status)' /\ Clean(followups') /\ Drains(followups')
             /\ \A k \in QueueIds, m \in Messages :
                  m \in followups'.queues[k].carried /\ m \notin followups.queues[k].carried
                  => status[m] # "answered"
             /\ \A k \in QueueIds :
                  InQueue(followups'.queues[k]) \subseteq InQueue(followups.queues[k])
  <2>1. Sound(followups', recent, status) /\ \A m \in r.carried : status[m] # "answered"
    <3>1. r.carried = {} \/ r.carried = {r.items[j] : j \in 1..n}
      BY <1>3
    <3> QED
      BY <1>1, <1>3, <3>1, AwaitsSound
  <2>2. /\ followups'.queues[i] = r /\ followups'.current = followups.current
        /\ followups'.callback = followups.callback
        /\ \A k \in QueueIds : k # i => followups'.queues[k] = followups.queues[k]
    BY <1>1, <1>3, Put
  <2>3. Clean(followups') /\ Drains(followups')
    BY <1>1, <1>3, <2>2 DEF Clean, Drains, Followups
  <2>4. \A k \in QueueIds : InQueue(followups'.queues[k]) = InQueue(followups.queues[k])
    BY <1>3, <2>2 DEF InQueue
  <2> QED
    BY <1>1, <2>1, <2>2, <2>3, <2>4
<1>4. \/ followups' = Collected(Drained(followups, i))
      \/ \E r \in Queue, n \in Nat :
           /\ followups' = [followups EXCEPT !.queues[i] = r]
           /\ r.items = followups.queues[i].items /\ r.take = n
           /\ n <= Len(followups.queues[i].items)
           /\ \/ r.carried = {}
              \/ r.carried = {followups.queues[i].items[j] : j \in 1..n}
           /\ r.pc = "running"
  BY <1>1, WakeCases
<1> QED
  BY <1>2, <1>3, <1>4

\* r has lost c items of q from its head.
Shifted(r, q, c) ==
    \A j \in DOMAIN r.items : j + c \in DOMAIN q.items /\ r.items[j] = q.items[j + c]

\* From st to s2 only what q carries and r does not hold is answered.
Settles(st, s2, q, r) ==
    \A m \in Messages : s2[m] = "answered" =>
      st[m] = "answered" \/ (m \in q.carried /\ m \notin InQueue(r))

\* An object that loses items from its head, or its run.
LEMMA ReplacedSound ==
    ASSUME NEW f, NEW rc, NEW st, NEW s2, Sound(f, rc, st), NEW i \in QueueIds,
           NEW r \in Queue, NEW c \in Nat, Shifted(r, f.queues[i], c),
           r.carried \subseteq f.queues[i].carried, r.carried = {} \/ r.items = <<>>,
           Settles(st, s2, f.queues[i], r)
    PROVE  LET g == [f EXCEPT !.queues[i] = r]
           IN  /\ Sound(g, rc, s2) /\ Fewer(f, g) /\ g \in Followups
               /\ g.current = f.current /\ g.callback = f.callback /\ g.queues[i] = r
               /\ \A k \in QueueIds : k # i => g.queues[k] = f.queues[k]
<1> DEFINE q == f.queues[i]
           g == [f EXCEPT !.queues[i] = r]
<1>1. f \in Followups /\ QueueOK(q, rc, st) /\ q \in Queue /\ Apart(f)
  BY DEF Sound, Followups
<1>2. /\ g \in Followups /\ g.current = f.current /\ g.callback = f.callback
      /\ g.queues[i] = r
      /\ \A k \in QueueIds : k # i => g.queues[k] = f.queues[k]
  BY <1>1, Put
<1> HIDE DEF g
<1>3. InQueue(r) \subseteq InQueue(q) /\ InQueue(q) \subseteq Messages
  <2>1. InQueue(q) \subseteq Messages
    BY <1>1, QueuedTyped
  <2>2. \A j \in DOMAIN r.items : r.items[j] \in InQueue(q)
    BY DEF Shifted, InQueue
  <2> QED
    BY <2>1, <2>2 DEF InQueue
<1>4. Fewer(f, g)
  BY <1>2, <1>3 DEF Fewer
<1>5. DOMAIN r.items = 1..Len(r.items) /\ Len(r.items) \in Nat
  BY DEF Queue
<1>6. QueueOK(r, rc, s2)
  <2>1. Distinct(r.items)
    <3> SUFFICES ASSUME NEW j \in DOMAIN r.items, NEW k \in DOMAIN r.items,
                        r.items[j] = r.items[k]
                 PROVE  j = k
      BY DEF Distinct
    <3>1. j + c = k + c
      BY <1>1 DEF QueueOK, Distinct, Shifted
    <3> QED
      BY <1>5, <3>1
  <2>2. InQueue(r) \cup r.carried \subseteq rc
    BY <1>1, <1>3 DEF QueueOK
  <2>3. \A m \in InQueue(r) : s2[m] # "answered"
    BY <1>1, <1>3 DEF QueueOK, Settles
  <2>4. \A j \in DOMAIN r.items : r.items[j] \notin r.carried
    BY <1>5
  <2> QED
    BY <2>1, <2>2, <2>3, <2>4 DEF QueueOK
<1>7. ASSUME NEW k \in QueueIds, k # i
      PROVE  QueueOK(g.queues[k], rc, s2)
  <2>1. QueueOK(f.queues[k], rc, st) /\ f.queues[k] \in Queue
    BY DEF Sound, Followups
  <2>2. InQueue(f.queues[k]) \subseteq Messages
    BY <2>1, QueuedTyped
  <2>3. q.carried \cap InQueue(f.queues[k]) = {}
    BY <1>1, <1>7 DEF Apart
  <2> QED
    BY <1>2, <1>7, <2>1, <2>2, <2>3 DEF QueueOK, Settles
<1>8. Apart(g)
  <2> SUFFICES ASSUME NEW j \in QueueIds, NEW k \in QueueIds, j # k
               PROVE  (InQueue(g.queues[j]) \cup g.queues[j].carried)
                         \cap InQueue(g.queues[k]) = {}
    BY DEF Apart
  <2>1. (InQueue(f.queues[j]) \cup f.queues[j].carried) \cap InQueue(f.queues[k]) = {}
    BY <1>1 DEF Apart
  <2> QED
    BY <1>2, <1>3, <2>1
<1> QED
  BY <1>2, <1>6, <1>7, <1>8, <1>4 DEF Sound, g

\* What is left after a run that ended well, of which nothing was carried.
LEMMA AfterRunTyped ==
    ASSUME NEW q \in Queue
    PROVE  /\ AfterRun(q) \in Queue /\ AfterRun(q).carried = {} /\ AfterRun(q).take = 0
           /\ AfterRun(q).told = {} /\ AfterRun(q).drop = q.drop
           /\ q.droppedCount = 0 => AfterRun(q).droppedCount = 0
           /\ Len(AfterRun(q).items) = IF q.take <= Len(q.items) THEN Len(q.items) - q.take ELSE 0
           /\ \A j \in DOMAIN AfterRun(q).items :
                /\ j + q.take \in DOMAIN q.items
                /\ AfterRun(q).items[j] = q.items[j + q.take]
<1> DEFINE w == Without(q.items, q.take)
           d == IF q.summary THEN 0 ELSE q.droppedCount
           r == [q EXCEPT !.items = w, !.droppedCount = d,
                          !.carried = {}, !.take = 0, !.told = {}, !.summary = FALSE]
<1>1. q.items \in Seq(Messages) /\ q.take \in Nat /\ q.droppedCount \in Nat
  BY DEF Queue
<1>2. /\ w \in Seq(Messages)
      /\ Len(w) = IF q.take <= Len(q.items) THEN Len(q.items) - q.take ELSE 0
      /\ \A j \in DOMAIN w : j + q.take \in DOMAIN q.items /\ w[j] = q.items[j + q.take]
  BY <1>1, WithoutTyped
<1>3. AfterRun(q) = r
  BY DEF AfterRun, Queue
<1>4. d \in Nat /\ (q.droppedCount = 0 => d = 0)
  BY <1>1
<1> HIDE DEF w, d
<1>5. r \in Queue
  <2>1. [q EXCEPT !.items = w] \in Queue
    BY <1>2, FieldTyped
  <2>2. [[q EXCEPT !.items = w] EXCEPT !.droppedCount = d] \in Queue
    BY <1>4, <2>1, FieldTyped
  <2>3. [[[q EXCEPT !.items = w] EXCEPT !.droppedCount = d] EXCEPT !.carried = {}] \in Queue
    BY <2>2, FieldTyped
  <2>4. [[[[q EXCEPT !.items = w] EXCEPT !.droppedCount = d] EXCEPT !.carried = {}]
            EXCEPT !.take = 0] \in Queue
    BY <2>3, FieldTyped
  <2>5. [[[[[q EXCEPT !.items = w] EXCEPT !.droppedCount = d] EXCEPT !.carried = {}]
            EXCEPT !.take = 0] EXCEPT !.told = {}] \in Queue
    BY <2>4, FieldTyped
  <2>6. [[[[[[q EXCEPT !.items = w] EXCEPT !.droppedCount = d] EXCEPT !.carried = {}]
            EXCEPT !.take = 0] EXCEPT !.told = {}] EXCEPT !.summary = FALSE] \in Queue
    BY <2>5, FieldTyped
  <2> QED
    BY <2>6
<1>6. /\ r.items = w /\ r.carried = {} /\ r.take = 0 /\ r.told = {} /\ r.drop = q.drop
      /\ r.droppedCount = d
  BY DEF Queue
<1> HIDE DEF r
<1> QED
  BY <1>2, <1>3, <1>4, <1>5, <1>6

LEMMA RunSucceedsKeeps ==
    ASSUME IInv, NEW i \in QueueIds, RunSucceeds(i)
    PROVE  /\ Sound(followups, recent, status)' /\ Clean(followups') /\ Drains(followups')
           /\ Fewer(followups, followups')
<1> DEFINE q == followups.queues[i]
           r == AfterRun(q)
           h == [followups EXCEPT !.queues[i] = r]
<1>1. /\ Sound(followups, recent, status) /\ followups \in Followups /\ Clean(followups)
      /\ Drains(followups) /\ q \in Queue /\ QueueOK(q, recent, status)
  BY DEF IInv, Sound, Followups
<1>2. /\ r \in Queue /\ r.carried = {}
      /\ Shifted(r, q, q.take)
  BY <1>1, AfterRunTyped DEF Shifted
<1>3. /\ recent' = recent
      /\ followups' = IF Pending(h.queues[i]) THEN [h EXCEPT !.queues[i].pc = "debounce"]
                      ELSE Collected(Drained(h, i))
      /\ status' = [m \in Messages |->
             IF m \in q.carried THEN "answered"
             ELSE IF m \in q.told THEN "told" ELSE status[m]]
  BY DEF RunSucceeds
<1>4. q.take \in Nat
  BY <1>1 DEF Queue
<1>5. InQueue(r) \cap q.carried = {}
  <2> SUFFICES ASSUME NEW j \in DOMAIN r.items, r.items[j] \in q.carried PROVE FALSE
    BY DEF InQueue
  <2>1. j + q.take <= q.take
    BY <1>1, <1>2 DEF QueueOK, Shifted
  <2>2. j \in Nat \ {0}
    BY <1>2 DEF Queue
  <2> QED
    BY <1>4, <2>1, <2>2
<1>6. Settles(status, status', q, r)
  BY <1>3, <1>5 DEF Settles
<1> DEFINE c == q.take
           s2 == status'
<1>7. c \in Nat /\ Shifted(r, q, c) /\ Settles(status, s2, q, r)
  BY <1>2, <1>4, <1>6
<1> HIDE DEF r, c, s2
<1>8. /\ Sound(h, recent, s2) /\ Fewer(followups, h) /\ h \in Followups
      /\ h.current = followups.current /\ h.callback = followups.callback /\ h.queues[i] = r
      /\ \A k \in QueueIds : k # i => h.queues[k] = followups.queues[k]
  <2>1. Sound(h, recent, s2) /\ Fewer(followups, h)
    BY <1>1, <1>2, <1>7, ReplacedSound
  <2>2. /\ h \in Followups
        /\ h.current = followups.current /\ h.callback = followups.callback /\ h.queues[i] = r
        /\ \A k \in QueueIds : k # i => h.queues[k] = followups.queues[k]
    BY <1>1, <1>2, Put
  <2> QED
    BY <2>1, <2>2
<1> HIDE DEF h
<1>9. CASE ~Pending(h.queues[i])
  <2>1. Fewer(h, Collected(Drained(h, i)))
    BY <1>8, DrainEndKeeps
  <2>2. Fewer(followups, followups')
    BY <1>3, <1>8, <1>9, <2>1, FewerYet
  <2> QED
    BY <1>3, <1>8, <1>9, <2>2, DrainEndKeeps DEF s2
<1>10. CASE Pending(h.queues[i])
  <2> DEFINE g == [h EXCEPT !.queues[i].pc = "debounce"]
  <2>1. /\ Alike(h, g) /\ g \in Followups
        /\ g.current = h.current /\ g.callback = h.callback
        /\ g.queues[i] = [h.queues[i] EXCEPT !.pc = "debounce"]
        /\ \A k \in QueueIds : k # i => g.queues[k] = h.queues[k]
    BY <1>8, Stepped
  <2>2. followups' = g
    BY <1>3, <1>10
  <2> HIDE DEF g
  <2>3. Sound(g, recent, status') /\ Fewer(followups, g)
    BY <1>8, <2>1, SoundAlike, FewerAlike, FewerYet DEF s2
  <2>4. g.queues[i].pc = "debounce"
    BY <1>2, <1>8, <2>1 DEF Queue
  <2>5. /\ g.current = followups.current /\ g.callback = followups.callback
        /\ \A k \in QueueIds : k # i => g.queues[k] = followups.queues[k]
        /\ g.current \in QueueIds \cup {None}
    <3>1. followups.current \in QueueIds \cup {None}
      BY <1>1 DEF Followups
    <3> QED
      BY <1>8, <2>1, <3>1
  <2> HIDE DEF q
  <2>6. Clean(g)
    BY <1>1, <2>4, <2>5 DEF Clean
  <2>7. Drains(g)
    BY <1>1, <2>4, <2>5 DEF Drains
  <2> QED
    BY <1>3, <2>2, <2>3, <2>6, <2>7
<1> QED
  BY <1>9, <1>10

LEMMA RunFailsKeeps ==
    ASSUME IInv, NEW i \in QueueIds, RunFails(i)
    PROVE  /\ Sound(followups, recent, status)' /\ Clean(followups') /\ Drains(followups')
           /\ Fewer(followups, followups')
<1> DEFINE q == followups.queues[i]
           r == [q EXCEPT !.carried = {}, !.take = 0, !.told = {}, !.summary = FALSE]
           h == [followups EXCEPT !.queues[i] = r]
<1>1. /\ Sound(followups, recent, status) /\ followups \in Followups /\ q \in Queue
      /\ recent' = recent /\ status' = status
  BY DEF IInv, Sound, Followups, RunFails
<1>2. r \in Queue
  <2>1. [q EXCEPT !.carried = {}] \in Queue
    BY <1>1, FieldTyped
  <2>2. [[q EXCEPT !.carried = {}] EXCEPT !.take = 0] \in Queue
    BY <2>1, FieldTyped
  <2>3. [[[q EXCEPT !.carried = {}] EXCEPT !.take = 0] EXCEPT !.told = {}] \in Queue
    BY <2>2, FieldTyped
  <2>4. [[[[q EXCEPT !.carried = {}] EXCEPT !.take = 0] EXCEPT !.told = {}]
            EXCEPT !.summary = FALSE] \in Queue
    BY <2>3, FieldTyped
  <2> QED
    BY <2>4
<1>3. r.items = q.items /\ r.carried = {}
  BY <1>1 DEF Queue
<1>4. followups' = Collected(Drained(h, i))
  BY <1>1 DEF RunFails, Followups
<1> HIDE DEF r
<1>5. Shifted(r, q, 0)
  BY <1>1, <1>3 DEF Queue, Shifted
<1>6. Settles(status, status, q, r)
  BY DEF Settles
<1>7. Sound(h, recent, status) /\ Fewer(followups, h)
  BY <1>1, <1>2, <1>3, <1>5, <1>6, ReplacedSound
<1> HIDE DEF h
<1>8. Fewer(h, Collected(Drained(h, i)))
  BY <1>7, DrainEndKeeps
<1>9. Fewer(followups, followups')
  BY <1>4, <1>7, <1>8, FewerYet
<1> QED
  BY <1>1, <1>4, <1>7, <1>9, DrainEndKeeps

LEMMA EmptiedAtOnce ==
    ASSUME NEW f \in Followups, NEW i \in QueueIds
    PROVE  [f EXCEPT !.queues[i].items = <<>>, !.queues[i].droppedCount = 0] =
             [f EXCEPT !.queues[i] = [f.queues[i] EXCEPT !.items = <<>>, !.droppedCount = 0]]
BY DEF Followups, Queue

LEMMA ClearKeeps ==
    ASSUME IInv, Clear
    PROVE  /\ Sound(followups, recent, status)' /\ Clean(followups') /\ Drains(followups')
           /\ Fewer(followups, followups')
<1> DEFINE i == followups.current
           q == followups.queues[i]
           r == [q EXCEPT !.items = <<>>, !.droppedCount = 0]
           h == [followups EXCEPT !.queues[i] = r]
           f == IF i = None THEN followups ELSE h
           g == Deleted([f EXCEPT !.callback = FALSE])
           s2 == status'
<1>1. /\ Sound(followups, recent, status) /\ followups \in Followups /\ recent' = recent
      /\ \A m \in Messages : s2[m] = "answered" => status[m] = "answered"
  BY DEF IInv, Sound, Clear
<1>2. followups' = Collected(g)
  <2>1. i # None => [followups EXCEPT !.queues[i].items = <<>>,
                                      !.queues[i].droppedCount = 0] = h
    <3>1. i \in QueueIds \cup {None}
      BY <1>1 DEF Followups
    <3> QED
      BY <1>1, <3>1, EmptiedAtOnce
  <2> QED
    BY <2>1 DEF Clear
<1> HIDE DEF s2
<1>3. Sound(f, recent, s2) /\ Fewer(followups, f)
  <2>1. CASE i = None
    <3>1. \A k \in QueueIds : InQueue(followups.queues[k]) \subseteq Messages
      BY <1>1, QueuedTyped
    <3> QED
      BY <1>1, <2>1, <3>1 DEF Sound, QueueOK, Fewer
  <2>2. CASE i # None
    <3>1. i \in QueueIds /\ q \in Queue
      BY <1>1, <2>2 DEF Followups
    <3>2. r \in Queue
      <4>1. [q EXCEPT !.items = <<>>] \in Queue
        <5>1. <<>> \in Seq(Messages)
          OBVIOUS
        <5> QED
          BY <3>1, <5>1, FieldTyped
      <4>2. [[q EXCEPT !.items = <<>>] EXCEPT !.droppedCount = 0] \in Queue
        BY <4>1, FieldTyped
      <4> QED
        BY <4>2
    <3>3. r.items = <<>> /\ r.carried = q.carried
      BY <3>1 DEF Queue
    <3> HIDE DEF r
    <3>4. Shifted(r, q, 0) /\ Settles(status, s2, q, r)
      BY <1>1, <3>3 DEF Shifted, Settles
    <3>5. Sound(h, recent, s2) /\ Fewer(followups, h)
      BY <1>1, <3>1, <3>2, <3>3, <3>4, ReplacedSound
    <3> QED
      BY <2>2, <3>5
  <2> QED
    BY <2>1, <2>2
<1> HIDE DEF f
<1>4. Alike(f, g) /\ Drains(g)
  BY <1>3 DEF Sound, Followups, Alike, Deleted, Drains
<1> HIDE DEF g
<1>5. Sound(g, recent, s2) /\ Fewer(f, g)
  BY <1>3, <1>4, SoundAlike, FewerAlike
<1>6. Fewer(g, Collected(g))
  BY <1>4, <1>5, CollectedSound
<1>7. Fewer(followups, followups')
  BY <1>2, <1>3, <1>5, <1>6, FewerYet
<1> QED
  BY <1>1, <1>2, <1>4, <1>5, <1>7, CollectedSound DEF s2

\* The simple variables.
LEMMA TypesKept ==
    ASSUME TypeOK, [Next]_vars, followups' \in Followups
    PROVE  TypeOK'
<1>1. /\ recent \subseteq Messages /\ turns \in 0..MaxTurns /\ admitted \subseteq Messages
      /\ status \in [Messages -> Statuses] /\ MaxTurns \in Nat
  BY DEF TypeOK
<1> DEFINE Simple == /\ recent' \subseteq Messages /\ turns' \in 0..MaxTurns
                     /\ admitted' \subseteq Messages /\ status' \in [Messages -> Statuses]
<1>2. ASSUME StartTurn PROVE Simple
  BY <1>1, <1>2 DEF StartTurn
<1>3. ASSUME EndTurn PROVE Simple
  BY <1>1, <1>3 DEF EndTurn
<1>4. ASSUME Clear PROVE Simple
  BY <1>1, <1>4 DEF Clear, Statuses
<1>5. ASSUME NEW m \in Messages, Admit(m)
      PROVE  Simple
  BY <1>1, <1>5 DEF Admit
<1>6. ASSUME NEW m \in Messages, NEW s \in Settings, Enqueue(m, s)
      PROVE  Simple
  <2>1. turns' = turns /\ admitted' = admitted \ {m}
    BY <1>6 DEF Enqueue
  <2>2. recent' = recent \/ recent' = recent \cup {m}
    BY <1>6 DEF Enqueue
  <2>3. status' \in [Messages -> Statuses]
    BY <1>1, <1>6 DEF Enqueue, Statuses
  <2> QED
    BY <1>1, <2>1, <2>2, <2>3
<1>7. ASSUME NEW i \in QueueIds, Wake(i) \/ RunFails(i)
      PROVE  Simple
  BY <1>1, <1>7 DEF Wake, RunFails
<1>8. ASSUME NEW i \in QueueIds, RunSucceeds(i)
      PROVE  Simple
  BY <1>1, <1>8 DEF RunSucceeds, Statuses
<1>9. ASSUME UNCHANGED vars PROVE Simple
  BY <1>1, <1>9 DEF vars
<1>10. Simple
  <2> HIDE DEF Simple
  <2> QED
    BY <1>2, <1>3, <1>4, <1>5, <1>6, <1>7, <1>8, <1>9 DEF Next
<1> QED
  BY <1>10 DEF TypeOK, Followups, Queue

-----------------------------------------------------------------------------
(* The invariant. *)

LEMMA InitHolds == Init => IInv
<1> SUFFICES ASSUME Init PROVE IInv
  OBVIOUS
<1>1. /\ followups = [queues |-> [i \in QueueIds |-> Fresh], current |-> None, callback |-> FALSE]
      /\ recent = {} /\ turns = 0 /\ admitted = {} /\ status = [m \in Messages |-> "idle"]
  BY DEF Init
<1>2. followups \in Followups
  BY <1>1, FreshTyped DEF Followups
<1>3. \A i \in QueueIds : followups.queues[i] = Fresh
  BY <1>1
<1>4. TypeOK
  BY <1>1, <1>2 DEF TypeOK, Followups, Queue, Statuses
<1>5. Sound(followups, recent, status)
  BY <1>2, <1>3, FreshTyped DEF Sound, QueueOK, Apart, InQueue, Distinct
<1>6. Clean(followups) /\ Drains(followups)
  BY <1>1, <1>3 DEF Clean, Drains
<1> QED
  BY <1>4, <1>5, <1>6 DEF IInv

\* What a step may do to the messages: an enqueue takes one in, a wake starts
\* a run, and no other step adds to what is queued or carried.
Moves ==
    /\ \A k \in QueueIds, m \in Messages :
         m \in followups'.queues[k].carried /\ m \notin followups.queues[k].carried
         => status[m] # "answered"
    /\ \A k \in QueueIds :
         \/ InQueue(followups'.queues[k]) \subseteq InQueue(followups.queues[k])
         \/ Len(followups'.queues[k].items) <= followups'.queues[k].cap

LEMMA NextKeeps ==
    ASSUME IInv, [Next]_vars
    PROVE  IInv' /\ Moves
<1> DEFINE Kept == /\ Sound(followups, recent, status)' /\ Clean(followups') /\ Drains(followups')
                   /\ Moves
<1>1. ASSUME UNCHANGED <<followups, recent, status>> PROVE Kept
  BY <1>1 DEF IInv, Moves
<1>2. ASSUME Fewer(followups, followups') PROVE Moves
  BY <1>2 DEF Fewer, Moves
<1>3. ASSUME EndTurn PROVE Kept
  BY <1>2, <1>3, EndTurnKeeps
<1>4. ASSUME Clear PROVE Kept
  BY <1>2, <1>4, ClearKeeps
<1>5. ASSUME NEW m \in Messages, NEW s \in Settings, Enqueue(m, s) PROVE Kept
  BY <1>5, EnqueueKeeps DEF TakesIn, Moves
<1>6. ASSUME NEW i \in QueueIds, Wake(i) PROVE Kept
  BY <1>6, WakeKeeps DEF Moves
<1>7. ASSUME NEW i \in QueueIds, RunSucceeds(i) PROVE Kept
  BY <1>2, <1>7, RunSucceedsKeeps
<1>8. ASSUME NEW i \in QueueIds, RunFails(i) PROVE Kept
  BY <1>2, <1>8, RunFailsKeeps
<1>9. ASSUME StartTurn \/ \E m \in Messages : Admit(m) PROVE Kept
  BY <1>1, <1>9 DEF StartTurn, Admit
<1> HIDE DEF Kept
<1>10. Kept
  BY <1>1, <1>3, <1>4, <1>5, <1>6, <1>7, <1>8, <1>9 DEF Next, vars
<1>11. TypeOK'
  BY <1>10, TypesKept DEF Kept, IInv, Sound
<1> QED
  BY <1>10, <1>11 DEF Kept, IInv

LEMMA Invariance == Spec => []IInv
<1>1. IInv /\ [Next]_vars => IInv'
  BY NextKeeps
<1> QED
  BY InitHolds, <1>1, PTL DEF Spec

\* The queues, the dedupe cache and every status have their types.
THEOREM TypeCorrect == Spec => []TypeOK
<1>1. IInv => TypeOK
  BY DEF IInv
<1> QED
  BY Invariance, <1>1, PTL

\* A registered queue with messages has a drain once a callback is known.
THEOREM DrainsKnown == Spec => []KnownCallbackDrains
<1>1. IInv => KnownCallbackDrains
  BY DEF IInv, Drains, KnownCallbackDrains
<1> QED
  BY Invariance, <1>1, PTL

\* What a run carries and the queue still holds is the front of the queue.
THEOREM PrefixKept == Spec => []InFlightIsPrefix
<1>1. IInv => InFlightIsPrefix
  BY DEF IInv, Sound, QueueOK, InFlightIsPrefix
<1> QED
  BY Invariance, <1>1, PTL

\* No run is handed a message that a run has answered before.
THEOREM OnceAnswered == Spec => AnsweredOnce
<1>1. IInv /\ [Next]_vars =>
        [\A i \in QueueIds, m \in Messages :
           /\ m \in followups'.queues[i].carried
           /\ m \notin followups.queues[i].carried
           => status[m] # "answered"]_vars
  BY NextKeeps DEF Moves
<1> QED
  BY Invariance, <1>1, PTL DEF Spec, AnsweredOnce

\* A queue that takes a message in is within its cap.
THEOREM WithinCap == Spec => AcceptedWithinCap
<1>1. IInv /\ [Next]_vars =>
        [\A i \in QueueIds, m \in Messages :
           /\ m \notin InQueue(followups.queues[i])
           /\ m \in InQueue(followups'.queues[i])
           => Len(followups'.queues[i].items) <= followups'.queues[i].cap]_vars
  BY NextKeeps DEF Moves
<1> QED
  BY Invariance, <1>1, PTL DEF Spec, AcceptedWithinCap

-----------------------------------------------------------------------------
(* No message is lost.  Under the other policies an overflow moves what a  *)
(* run has in flight, and after a clear the old drain deletes a queue it   *)
(* never served: the claim is for queues that refuse what they have no     *)
(* room for and are never cleared.                                         *)

\* The policy is `new` and no session is cleared.
NewOnly == ~CanClear /\ \A s \in Settings : s.drop = "new"

\* An object that never dropped: the items its run will take off are its run's.
Keeping(q) ==
    /\ q.droppedCount = 0 /\ q.told = {}
    /\ q.items # <<>> => q.drop = "new"
    /\ q.take <= Len(q.items)
    /\ \A j \in DOMAIN q.items : j <= q.take => q.items[j] \in q.carried
    /\ q.pc = "running" => q.take = Cardinality(q.carried)

\* Only the registered object has a drain, and it holds all that waits.
Holding(f, st) ==
    /\ \A i \in QueueIds : Keeping(f.queues[i])
    /\ \A i \in QueueIds : f.queues[i].pc # "idle" => i = f.current
    /\ \A m \in Messages :
         st[m] = "waiting" => f.current # None /\ m \in InQueue(f.queues[f.current])

NewInv == IInv /\ Holding(followups, status)

LEMMA FreshKeeping == Keeping(Fresh) /\ Fresh.pc = "idle"
BY DEF Keeping, Fresh

\* The object holds all that waits.
Serves(q, st) == \A m \in Messages : st[m] = "waiting" => m \in InQueue(q)

\* The registered object is replaced by one that holds all that waits now.
LEMMA HoldingPut ==
    ASSUME NEW f \in Followups, NEW st, NEW s2, Holding(f, st),
           NEW i \in QueueIds, f.current = i, NEW r \in Queue, Keeping(r), Serves(r, s2)
    PROVE  Holding([f EXCEPT !.queues[i] = r], s2)
<1> DEFINE g == [f EXCEPT !.queues[i] = r]
<1>1. /\ g \in Followups /\ g.current = f.current /\ g.callback = f.callback
      /\ g.queues[i] = r
      /\ \A k \in QueueIds : k # i => g.queues[k] = f.queues[k]
  BY Put
<1> HIDE DEF g
<1>2. \A k \in QueueIds : Keeping(g.queues[k]) /\ (g.queues[k].pc # "idle" => k = g.current)
  BY <1>1 DEF Holding
<1>3. Holding(g, s2)
  BY <1>1, <1>2, NoneIsNoId DEF Holding, Serves
<1> QED
  BY <1>3 DEF g

\* The pc of the registered object moves, but not to a run.
LEMMA HoldingStepped ==
    ASSUME NEW f \in Followups, NEW st, Holding(f, st), f.current # None,
           NEW p \in {"idle", "debounce"}
    PROVE  Holding([f EXCEPT !.queues[f.current].pc = p], st)
<1> DEFINE i == f.current
           q == f.queues[i]
           r == [q EXCEPT !.pc = p]
<1>1. i \in QueueIds /\ q \in Queue /\ Keeping(q)
  BY DEF Followups, Holding
<1>2. /\ r \in Queue /\ r.items = q.items /\ r.carried = q.carried /\ r.take = q.take
      /\ r.pc = p /\ r.drop = q.drop /\ r.droppedCount = q.droppedCount /\ r.told = q.told
  <2>1. r \in Queue
    BY <1>1, FieldTyped
  <2> QED
    BY <1>1, <2>1 DEF Queue
<1>3. [f EXCEPT !.queues[i].pc = p] = [f EXCEPT !.queues[i] = r]
  BY <1>1 DEF Followups
<1> HIDE DEF r
<1>4. Keeping(r)
  BY <1>1, <1>2 DEF Keeping
<1>5. Serves(r, st)
  BY <1>2 DEF Holding, InQueue, Serves
<1>6. Holding([f EXCEPT !.queues[i] = r], st)
  BY <1>1, <1>2, <1>4, <1>5, HoldingPut
<1> QED
  BY <1>3, <1>6

\* An idle object with nothing in it is deleted.
LEMMA HoldingDeleted ==
    ASSUME NEW f \in Followups, NEW st, Holding(f, st), f.current # None,
           ~Pending(f.queues[f.current]), f.queues[f.current].pc = "idle"
    PROVE  Holding(Deleted(f), st)
<1>1. Deleted(f).current = None /\ Deleted(f).queues = f.queues
  BY DEF Deleted, Followups
<1>2. InQueue(f.queues[f.current]) = {}
  BY DEF Pending, InQueue
<1> QED
  BY <1>1, <1>2 DEF Holding

LEMMA HoldingScheduled ==
    ASSUME NEW f \in Followups, NEW st, Holding(f, st)
    PROVE  Holding(Scheduled(f), st)
<1> DEFINE h == [f EXCEPT !.callback = TRUE]
           i == f.current
<1>1. h \in Followups /\ h.current = i /\ h.queues = f.queues /\ Holding(h, st)
  BY DEF Followups, Holding
<1>2. CASE i = None \/ f.queues[i].pc # "idle"
  BY <1>2 DEF Scheduled
<1>3. CASE i # None /\ f.queues[i].pc = "idle" /\ ~Pending(f.queues[i])
  <2>1. Scheduled(f) = Deleted(h)
    BY <1>3 DEF Scheduled
  <2> HIDE DEF h
  <2> QED
    BY <1>1, <1>3, <2>1, HoldingDeleted
<1>4. CASE i # None /\ f.queues[i].pc = "idle" /\ Pending(f.queues[i])
  <2> DEFINE q == f.queues[i]
             r == [q EXCEPT !.pc = "debounce", !.forced = FALSE]
  <2>1. i \in QueueIds /\ q \in Queue /\ Keeping(q)
    BY <1>4 DEF Followups, Holding
  <2>2. r \in Queue
    <3>1. [q EXCEPT !.pc = "debounce"] \in Queue
      BY <2>1, FieldTyped
    <3>2. [[q EXCEPT !.pc = "debounce"] EXCEPT !.forced = FALSE] \in Queue
      BY <3>1, FieldTyped
    <3> QED
      BY <3>2
  <2>3. /\ r.items = q.items /\ r.carried = q.carried /\ r.take = q.take /\ r.pc = "debounce"
        /\ r.drop = q.drop /\ r.droppedCount = q.droppedCount /\ r.told = q.told
    BY <2>1 DEF Queue
  <2>4. Scheduled(f) = [h EXCEPT !.queues[i] = r]
    BY <1>4, <2>1 DEF Scheduled, Followups
  <2> HIDE DEF r, h
  <2>5. Keeping(r)
    BY <2>1, <2>3 DEF Keeping
  <2>6. Serves(r, st)
    BY <2>3 DEF Holding, InQueue, Serves
  <2> QED
    BY <1>1, <2>1, <2>2, <2>4, <2>5, <2>6, HoldingPut
<1> QED
  BY <1>2, <1>3, <1>4

LEMMA HoldingCollected ==
    ASSUME NEW f \in Followups, NEW st, Holding(f, st)
    PROVE  Holding(Collected(f), st)
<1> DEFINE g == Collected(f)
<1>1. /\ g.current = f.current
      /\ g.queues = [i \in QueueIds |->
           IF i # f.current /\ f.queues[i].pc = "idle" THEN Fresh ELSE f.queues[i]]
  BY DEF Collected, Followups
<1> HIDE DEF g
<1>2. f.current # None => f.current \in QueueIds
  BY DEF Followups
<1>3. \A i \in QueueIds : g.queues[i] = Fresh \/ g.queues[i] = f.queues[i]
  BY <1>1
<1>4. f.current # None => g.queues[f.current] = f.queues[f.current]
  BY <1>1, <1>2
<1>5. \A i \in QueueIds : Keeping(g.queues[i]) /\ (g.queues[i].pc # "idle" => i = g.current)
  BY <1>1, <1>3, FreshKeeping DEF Holding
<1> QED
  BY <1>1, <1>4, <1>5 DEF Holding, g

\* The registered object's drain ends.
LEMMA HoldingDrained ==
    ASSUME NEW f \in Followups, NEW st, Holding(f, st), f.current # None
    PROVE  Holding(Collected(Drained(f, f.current)), st)
<1> DEFINE i == f.current
           g == [f EXCEPT !.queues[i].pc = "idle"]
<1>1. i \in QueueIds /\ f.queues[i] \in Queue
  BY DEF Followups
<1>2. g \in Followups /\ g.current = i /\ g.queues[i].pc = "idle"
  <2>1. g \in Followups /\ g.current = i /\ g.queues[i] = [f.queues[i] EXCEPT !.pc = "idle"]
    BY <1>1, Stepped
  <2> HIDE DEF g
  <2> QED
    BY <1>1, <2>1 DEF Queue
<1>3. Holding(g, st)
  BY HoldingStepped
<1>4. Drained(f, i) = IF Pending(g.queues[i]) THEN Scheduled(g) ELSE Deleted(g)
  BY DEF Drained
<1>5. Drained(f, i) \in Followups
  BY <1>1, DrainedAlike DEF Alike
<1> HIDE DEF g
<1>6. Holding(Drained(f, i), st)
  BY <1>2, <1>3, <1>4, HoldingScheduled, HoldingDeleted
<1> QED
  BY <1>5, <1>6, HoldingCollected

LEMMA HoldingEnqueue ==
    ASSUME NewOnly, NewInv, NEW m \in Messages, NEW s \in Settings, Enqueue(m, s)
    PROVE  Holding(followups, status)'
<1>1. PICK i \in QueueIds :
         LET f == WithQueue(followups, i, s)
             q == f.queues[i]
         IN  /\ IF followups.current # None THEN i = followups.current
                ELSE /\ followups.queues[i].pc = "idle"
                     /\ \A j \in QueueIds : followups.queues[j].pc = "idle" => i <= j
             /\ \/ /\ m \in recent \cup InQueue(q)
                   /\ followups' = f
                   /\ UNCHANGED <<recent, status>>
                \/ /\ m \notin recent \cup InQueue(q)
                   /\ q.drop = "new" /\ Overflow(q) # {}
                   /\ followups' = f
                   /\ status' = [status EXCEPT ![m] = "rejected"]
                   /\ UNCHANGED recent
                \/ /\ m \notin recent \cup InQueue(q)
                   /\ q.drop # "new" \/ Overflow(q) = {}
                   /\ followups' = Kicked([f EXCEPT !.queues[i] = Pushed(q, m)])
                   /\ recent' = recent \cup {m}
                   /\ status' = [n \in Messages |->
                          IF n = m THEN "waiting"
                          ELSE IF n \notin Overflow(q) THEN status[n]
                          ELSE IF q.drop = "summarize" THEN "dropped" ELSE "rejected"]
  BY DEF Enqueue
<1> DEFINE f == WithQueue(followups, i, s)
           q == f.queues[i]
           h == [f EXCEPT !.queues[i] = Pushed(q, m)]
<1>2. /\ followups \in Followups /\ Clean(followups) /\ Holding(followups, status)
      /\ Sound(followups, recent, status) /\ status \in [Messages -> Statuses]
  BY DEF NewInv, IInv, Sound, TypeOK
<1>3. /\ Alike(followups, f) /\ f \in Followups /\ f.current = i
      /\ q.drop = s.drop /\ q.pc = followups.queues[i].pc
      /\ q.droppedCount = followups.queues[i].droppedCount
      /\ q.told = followups.queues[i].told
      /\ \A k \in QueueIds : k # i => f.queues[k] = followups.queues[k]
  <2>1. /\ Alike(followups, f) /\ f \in Followups /\ f.current = i
        /\ f.queues[i].drop = s.drop /\ f.queues[i].pc = followups.queues[i].pc
        /\ f.queues[i].droppedCount = followups.queues[i].droppedCount
        /\ f.queues[i].told = followups.queues[i].told
        /\ \A k \in QueueIds : k # i => f.queues[k] = followups.queues[k]
    <3>1. followups \in Followups
      BY <1>2
    <3> HIDE DEF q, h
    <3> QED
      BY <3>1, WithQueueAlike
  <2> HIDE DEF f
  <2> QED
    BY <2>1
<1>4. s.drop = "new"
  BY DEF NewOnly
<1>5. followups.current = i \/ (followups.current = None /\ followups.queues[i] = Fresh)
  BY <1>1, <1>2, NoneIsNoId DEF Clean
<1> HIDE DEF f
<1>6. /\ q.items = followups.queues[i].items /\ q.carried = followups.queues[i].carried
      /\ q.take = followups.queues[i].take
  BY <1>3 DEF Alike
<1>7. Keeping(q)
  BY <1>2, <1>3, <1>4, <1>6 DEF Holding, Keeping
<1>8. \A n \in Messages : status[n] = "waiting" => n \in InQueue(q)
  BY <1>2, <1>5, <1>6 DEF Holding, InQueue
<1>9. Holding(f, status)
  <2>1. \A k \in QueueIds : Keeping(f.queues[k]) /\ (f.queues[k].pc # "idle" => k = f.current)
    BY <1>2, <1>3, <1>5, <1>7, FreshKeeping, NoneIsNoId DEF Holding
  <2> QED
    BY <1>3, <1>8, <2>1, NoneIsNoId DEF Holding
<1>10. CASE followups' = f /\ (status' = status \/ status' = [status EXCEPT ![m] = "rejected"])
  <2>1. \A n \in Messages : status'[n] = "waiting" => status[n] = "waiting"
    BY <1>2, <1>10
  <2> QED
    BY <1>9, <1>10, <2>1 DEF Holding
<1>11. CASE /\ m \notin recent \cup InQueue(q)
            /\ q.drop # "new" \/ Overflow(q) = {}
            /\ followups' = Kicked(h)
            /\ status' = [n \in Messages |->
                   IF n = m THEN "waiting"
                   ELSE IF n \notin Overflow(q) THEN status[n]
                   ELSE IF q.drop = "summarize" THEN "dropped" ELSE "rejected"]
  <2> DEFINE r == Pushed(q, m)
             c == Cardinality(Overflow(q))
  <2>1. Overflow(q) = {} /\ c = 0
    BY <1>3, <1>4, <1>11, FS_EmptySet
  <2>2. /\ q \in Queue /\ Distinct(q.items) /\ DOMAIN q.items = 1..Len(q.items)
        /\ Len(q.items) \in Nat
    <3>1. Sound(f, recent, status)
      BY <1>2, <1>3, SoundAlike
    <3> QED
      BY <1>3, <3>1 DEF Sound, QueueOK, Followups, Queue
  <2>3. m \in Messages \ InQueue(q)
    BY <1>11
  <2> HIDE DEF q
  <2>4. /\ r \in Queue /\ r.carried = q.carried /\ r.take = q.take /\ r.pc = q.pc
        /\ r.drop = q.drop /\ r.told = q.told /\ r.droppedCount = q.droppedCount
        /\ Len(r.items) = Len(q.items) - c + 1 /\ r.items[Len(r.items)] = m
        /\ \A j \in DOMAIN r.items :
             j # Len(r.items) => j + c \in DOMAIN q.items /\ r.items[j] = q.items[j + c]
    BY <2>1, <2>2, <2>3, PushedItems
  <2> HIDE DEF r, c
  <2>5. DOMAIN r.items = 1..Len(r.items) /\ Len(r.items) = Len(q.items) + 1
    BY <2>1, <2>2, <2>4 DEF Queue
  <2>6. \A j \in DOMAIN q.items : j \in DOMAIN r.items /\ r.items[j] = q.items[j]
    <3> SUFFICES ASSUME NEW j \in DOMAIN q.items
                 PROVE  j \in DOMAIN r.items /\ r.items[j] = q.items[j]
      OBVIOUS
    <3>1. j \in DOMAIN r.items /\ j # Len(r.items) /\ j + c = j
      BY <2>1, <2>2, <2>5
    <3> QED
      BY <2>4, <3>1
  <2>7. \A j \in DOMAIN r.items : j # Len(r.items) => j \in DOMAIN q.items
    BY <2>2, <2>5
  <2>8. Keeping(r)
    <3>1. q.take \in Nat /\ q.take <= Len(q.items)
      BY <1>7, <2>2 DEF Keeping, Queue
    <3>2. \A j \in DOMAIN r.items : j <= q.take => j \in DOMAIN q.items /\ r.items[j] = q.items[j]
      BY <2>2, <2>5, <2>6, <3>1
    <3>3. r.take <= Len(r.items) /\ r.drop = "new"
      BY <1>3, <1>4, <2>2, <2>4, <2>5, <3>1 DEF q
    <3> QED
      BY <1>7, <2>4, <3>2, <3>3 DEF Keeping
  <2>9. Serves(r, status')
    <3>1. m \in InQueue(r)
      BY <2>2, <2>4, <2>5 DEF InQueue
    <3>2. InQueue(q) \subseteq InQueue(r)
      BY <2>6 DEF InQueue
    <3>3. \A n \in Messages : status'[n] = "waiting" => n = m \/ status[n] = "waiting"
      BY <1>11, <2>1
    <3> QED
      BY <1>8, <3>1, <3>2, <3>3 DEF Serves
  <2>10. h = [f EXCEPT !.queues[i] = r] /\ h \in Followups
    BY <1>3, <2>4, Put DEF r, q
  <2> HIDE DEF h
  <2>11. Holding(h, status')
    BY <1>3, <1>9, <2>4, <2>8, <2>9, <2>10, HoldingPut
  <2>12. Holding(Kicked(h), status')
    BY <2>10, <2>11, HoldingScheduled DEF Kicked
  <2> QED
    BY <1>11, <2>12
<1> QED
  BY <1>1, <1>10, <1>11 DEF f

LEMMA HoldingWake ==
    ASSUME NewInv, NEW i \in QueueIds, Wake(i)
    PROVE  Holding(followups, status)'
<1> DEFINE q == followups.queues[i]
<1>1. /\ followups \in Followups /\ Holding(followups, status) /\ status' = status
      /\ q \in Queue /\ Distinct(q.items) /\ Keeping(q) /\ Sound(followups, recent, status)
  BY DEF NewInv, IInv, Sound, QueueOK, Holding, Followups, Wake
<1>2. followups.current = i /\ i # None
  BY <1>1, NoneIsNoId DEF Wake, Holding
<1>3. CASE followups' = Collected(Drained(followups, i))
  BY <1>1, <1>2, <1>3, HoldingDrained
<1>4. ASSUME NEW r \in Queue, NEW n \in Nat,
             followups' = [followups EXCEPT !.queues[i] = r],
             r.items = q.items, r.take = n, n <= Len(q.items),
             r.drop = q.drop, r.droppedCount = q.droppedCount,
             q.droppedCount = 0 => r.told = {} /\ r.carried = {q.items[j] : j \in 1..n}
      PROVE  Holding(followups, status)'
  <2>1. q.droppedCount = 0 /\ r.told = {} /\ r.carried = {q.items[j] : j \in 1..n}
    BY <1>1, <1>4 DEF Keeping
  <2>2. q.items \in Seq(Messages) /\ n \in 0..Len(q.items) /\ DOMAIN q.items = 1..Len(q.items)
    BY <1>1, <1>4 DEF Queue
  <2>3. Cardinality(r.carried) = n
    BY <1>1, <1>4, <2>2, <2>1, HeadCount
  <2>4. \A j \in DOMAIN r.items : j <= r.take => r.items[j] \in r.carried
    BY <1>4, <2>2, <2>1
  <2>5. Keeping(r)
    BY <1>1, <1>4, <2>3, <2>4, <2>1 DEF Keeping
  <2>6. Serves(r, status)
    BY <1>1, <1>2, <1>4 DEF Holding, InQueue, Serves
  <2>7. Holding([followups EXCEPT !.queues[i] = r], status)
    BY <1>1, <1>2, <2>5, <2>6, HoldingPut
  <2> QED
    BY <1>1, <1>4, <2>7
<1>5. \/ followups' = Collected(Drained(followups, i))
      \/ \E r \in Queue, n \in Nat :
           /\ followups' = [followups EXCEPT !.queues[i] = r]
           /\ r.items = q.items /\ r.take = n /\ n <= Len(q.items)
           /\ r.carried = {} \/ r.carried = {q.items[j] : j \in 1..n}
           /\ r.pc = "running" /\ r.drop = q.drop /\ r.droppedCount = q.droppedCount
           /\ q.droppedCount = 0 => /\ r.told = {}
                                    /\ r.carried = {q.items[j] : j \in 1..n}
  BY <1>1, WakeCases
<1> QED
  BY <1>3, <1>4, <1>5

LEMMA HoldingRunSucceeds ==
    ASSUME NewInv, NEW i \in QueueIds, RunSucceeds(i)
    PROVE  Holding(followups, status)'
<1> DEFINE q == followups.queues[i]
           r == AfterRun(q)
           h == [followups EXCEPT !.queues[i] = r]
           s2 == status'
<1>1. /\ followups \in Followups /\ Holding(followups, status)
      /\ q \in Queue /\ Keeping(q) /\ q.take \in Nat
  BY DEF NewInv, IInv, Sound, Holding, Followups, Queue
<1>2. followups.current = i /\ i # None /\ q.pc = "running"
  BY <1>1, NoneIsNoId DEF RunSucceeds, Running, Holding
<1>3. /\ followups' = IF Pending(h.queues[i]) THEN [h EXCEPT !.queues[i].pc = "debounce"]
                      ELSE Collected(Drained(h, i))
      /\ s2 = [m \in Messages |->
             IF m \in q.carried THEN "answered"
             ELSE IF m \in q.told THEN "told" ELSE status[m]]
  BY DEF RunSucceeds
<1>4. /\ r \in Queue /\ r.carried = {} /\ r.take = 0 /\ r.told = {} /\ r.drop = q.drop
      /\ q.droppedCount = 0 => r.droppedCount = 0
      /\ Len(r.items) = IF q.take <= Len(q.items) THEN Len(q.items) - q.take ELSE 0
      /\ \A j \in DOMAIN r.items :
           j + q.take \in DOMAIN q.items /\ r.items[j] = q.items[j + q.take]
  BY <1>1, AfterRunTyped
<1> HIDE DEF r, s2
<1>5. /\ DOMAIN q.items = 1..Len(q.items) /\ Len(q.items) \in Nat
      /\ DOMAIN r.items = 1..Len(r.items)
  BY <1>1, <1>4 DEF Queue
<1>6. r.items # <<>> => q.items # <<>>
  <2>1. ASSUME r.items # <<>> PROVE q.items # <<>>
    <3>1. 1 \in DOMAIN r.items
      BY <1>4, <2>1 DEF Queue
    <3> QED
      BY <1>4, <3>1
  <2> QED
    BY <2>1
<1>7. ASSUME NEW m \in Messages, s2[m] = "waiting"
      PROVE  m \in InQueue(r)
  <2>1. m \notin q.carried /\ status[m] = "waiting"
    BY <1>3, <1>7
  <2>2. PICK k \in DOMAIN q.items : q.items[k] = m
    BY <1>1, <1>2, <2>1 DEF Holding, InQueue
  <2>3. k > q.take
    BY <1>1, <1>5, <2>1, <2>2 DEF Keeping
  <2> DEFINE j == k - q.take
  <2>4. j \in DOMAIN r.items /\ j + q.take = k
    <3>1. k \in Nat /\ k <= Len(q.items) /\ q.take <= Len(q.items)
      BY <1>1, <1>5 DEF Keeping
    <3> QED
      <4>1. Len(r.items) = Len(q.items) - q.take
        BY <1>4, <3>1
      <4> HIDE DEF q
      <4> QED
        BY <1>1, <1>5, <2>3, <3>1, <4>1
  <2> HIDE DEF j
  <2>5. r.items[j] = m
    BY <1>4, <2>2, <2>4
  <2> QED
    BY <2>4, <2>5 DEF InQueue
<1>8. q.droppedCount = 0 /\ (q.items # <<>> => q.drop = "new")
  BY <1>1 DEF Keeping
<1>9. Keeping(r)
  <2>1. r.take <= Len(r.items) /\ \A j \in DOMAIN r.items : ~(j <= r.take)
    BY <1>4, <1>5 DEF Queue
  <2>2. Cardinality(r.carried) = 0
    BY <1>4, FS_EmptySet
  <2> QED
    BY <1>4, <1>6, <1>8, <2>1, <2>2 DEF Keeping
<1>10. h \in Followups /\ h.current = i
  BY <1>1, <1>2, <1>4, Put
<1>11. Serves(r, s2)
  BY <1>7 DEF Serves
<1>12. Holding(h, s2)
  BY <1>1, <1>2, <1>4, <1>9, <1>11, HoldingPut
<1> HIDE DEF h
<1>13. CASE Pending(h.queues[i])
  BY <1>2, <1>3, <1>10, <1>12, <1>13, HoldingStepped DEF s2
<1>14. CASE ~Pending(h.queues[i])
  BY <1>2, <1>3, <1>10, <1>12, <1>14, HoldingDrained DEF s2
<1> QED
  BY <1>13, <1>14

LEMMA HoldingRunFails ==
    ASSUME NewInv, NEW i \in QueueIds, RunFails(i)
    PROVE  Holding(followups, status)'
<1> DEFINE q == followups.queues[i]
           r == [q EXCEPT !.carried = {}, !.take = 0, !.told = {}, !.summary = FALSE]
           h == [followups EXCEPT !.queues[i] = r]
<1>1. /\ followups \in Followups /\ Holding(followups, status) /\ status' = status
      /\ q \in Queue /\ Keeping(q)
  BY DEF NewInv, IInv, Sound, Holding, Followups, RunFails
<1>2. followups.current = i /\ i # None
  BY <1>1, NoneIsNoId DEF RunFails, Running, Holding
<1>3. r \in Queue
  <2>1. [q EXCEPT !.carried = {}] \in Queue
    BY <1>1, FieldTyped
  <2>2. [[q EXCEPT !.carried = {}] EXCEPT !.take = 0] \in Queue
    BY <2>1, FieldTyped
  <2>3. [[[q EXCEPT !.carried = {}] EXCEPT !.take = 0] EXCEPT !.told = {}] \in Queue
    BY <2>2, FieldTyped
  <2>4. [[[[q EXCEPT !.carried = {}] EXCEPT !.take = 0] EXCEPT !.told = {}]
            EXCEPT !.summary = FALSE] \in Queue
    BY <2>3, FieldTyped
  <2> QED
    BY <2>4
<1>4. /\ r.items = q.items /\ r.carried = {} /\ r.take = 0 /\ r.told = {}
      /\ r.drop = q.drop /\ r.droppedCount = q.droppedCount
  BY <1>1 DEF Queue
<1>5. followups' = Collected(Drained(h, i))
  BY <1>1 DEF RunFails, Followups
<1> HIDE DEF r
<1>6. Keeping(r)
  <2>1. r.take <= Len(r.items) /\ \A j \in DOMAIN r.items : ~(j <= r.take)
    BY <1>3, <1>4 DEF Queue
  <2>2. Cardinality(r.carried) = 0
    BY <1>4, FS_EmptySet
  <2> QED
    BY <1>1, <1>4, <2>1, <2>2 DEF Keeping
<1>7. Serves(r, status)
  BY <1>1, <1>2, <1>4 DEF Holding, Serves, InQueue
<1>8. Holding(h, status)
  BY <1>1, <1>2, <1>3, <1>6, <1>7, HoldingPut
<1>9. h \in Followups /\ h.current = i
  BY <1>1, <1>2, <1>3, Put
<1> HIDE DEF h
<1> QED
  BY <1>1, <1>2, <1>5, <1>8, <1>9, HoldingDrained

LEMMA NewKeeps ==
    ASSUME NewOnly, NewInv, [Next]_vars
    PROVE  NewInv'
<1> DEFINE Kept == Holding(followups, status)'
<1>1. IInv' /\ IInv /\ followups \in Followups /\ Holding(followups, status)
  BY NextKeeps DEF NewInv, IInv, Sound
<1>2. ASSUME UNCHANGED <<followups, status>> PROVE Kept
  BY <1>1, <1>2
<1>3. ASSUME EndTurn PROVE Kept
  <2>1. Holding(Scheduled(followups), status) /\ Scheduled(followups) \in Followups
    BY <1>1, HoldingScheduled, ScheduledAlike DEF Alike
  <2>2. Holding(Collected(Scheduled(followups)), status)
    BY <2>1, HoldingCollected
  <2> QED
    BY <1>3, <2>2 DEF EndTurn
<1>4. ASSUME NEW m \in Messages, NEW s \in Settings, Enqueue(m, s) PROVE Kept
  BY <1>4, HoldingEnqueue
<1>5. ASSUME NEW i \in QueueIds, Wake(i) PROVE Kept
  BY <1>5, HoldingWake
<1>6. ASSUME NEW i \in QueueIds, RunSucceeds(i) PROVE Kept
  BY <1>6, HoldingRunSucceeds
<1>7. ASSUME NEW i \in QueueIds, RunFails(i) PROVE Kept
  BY <1>7, HoldingRunFails
<1>8. ASSUME StartTurn \/ \E m \in Messages : Admit(m) PROVE Kept
  BY <1>2, <1>8 DEF StartTurn, Admit
<1>9. ~Clear
  BY DEF NewOnly, Clear
<1> HIDE DEF Kept
<1>10. Kept
  BY <1>2, <1>3, <1>4, <1>5, <1>6, <1>7, <1>8, <1>9 DEF Next, vars
<1> QED
  BY <1>1, <1>10 DEF NewInv, Kept

LEMMA NewInvariance ==
    ASSUME NewOnly
    PROVE  Spec => []NewInv
<1>1. Init => NewInv
  <2> SUFFICES ASSUME Init PROVE Holding(followups, status)
    BY InitHolds DEF NewInv
  <2>1. \A i \in QueueIds : followups.queues[i] = Fresh
    BY DEF Init
  <2>2. \A m \in Messages : status[m] # "waiting"
    BY DEF Init
  <2> QED
    BY <2>1, <2>2, FreshKeeping DEF Holding
<1>2. NewInv /\ [Next]_vars => NewInv'
  BY NewKeeps
<1> QED
  BY <1>1, <1>2, PTL DEF Spec

\* Queues that refuse what they have no room for and are never cleared lose no
\* message: it is answered, or in the registered queue, or being drained.
THEOREM NothingIsLost ==
    ASSUME NewOnly
    PROVE  Spec => []NothingLost
<1>1. NewInv => NothingLost
  <2> SUFFICES ASSUME NewInv, NEW m \in Messages, status[m] = "waiting"
               PROVE  \E i \in QueueIds :
                        /\ m \in InQueue(followups.queues[i])
                        /\ i = followups.current \/ followups.queues[i].pc # "idle"
    BY DEF NothingLost
  <2>1. followups.current # None /\ m \in InQueue(followups.queues[followups.current])
    BY DEF NewInv, Holding
  <2>2. followups.current \in QueueIds
    BY <2>1 DEF NewInv, IInv, Sound, Followups
  <2> QED
    BY <2>1, <2>2
<1> QED
  BY NewInvariance, <1>1, PTL

\* Nor does a run take off more items than it was handed.
THEOREM RunsCarryWhatTheyTake ==
    ASSUME NewOnly
    PROVE  Spec => []RunCarriesWhatItTakes
<1>1. NewInv => RunCarriesWhatItTakes
  BY DEF NewInv, Holding, Keeping, RunCarriesWhatItTakes
<1> QED
  BY NewInvariance, <1>1, PTL

=============================================================================
