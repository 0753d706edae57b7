------------------------- MODULE SessionLockProofs -------------------------
(***************************************************************************)
(* Proofs about SessionLock for any users, processes and tickets.          *)
(*                                                                         *)
(* The inductive invariant says who may refer to a ticket (a creator to    *)
(* the one it creates, the table of a process to a lock of that process),  *)
(* and, as long as no live file was stolen, that the only live ticket is   *)
(* the one whose file is on disk.                                          *)
(***************************************************************************)
EXTENDS SessionLock, FiniteSetTheorems, TLAPS

\* Only a creator and whoever is inside refer to a ticket.
RefsMatchPc ==
    \A u \in Users :
        user[u].pc \in {"creating", "in"} <=> user[u].ticket # None

\* A ticket under creation has one creator, of its owner's process, and no
\* other user.
CreatorIsAlone ==
    \A u \in Users : user[u].pc = "creating" =>
        /\ ticket[user[u].ticket].pc = "creating"
        /\ ticket[user[u].ticket].owner = ProcessOf[u]
        /\ \A v \in Users : user[v].ticket = user[u].ticket => v = u

\* The table of a process names a held lock of that process.
TableIsOwned ==
    \A p \in Processes : held[p] # None =>
        ticket[held[p]].pc = "held" /\ ticket[held[p]].owner = p

\* The count of a held lock is the number of users that entered it, all of
\* the process that holds it.
InsideOf(p) == {u \in Users : user[u].pc = "in" /\ user[u].ticket = held[p]}

Counted ==
    \A p \in Processes : held[p] # None =>
        /\ ticket[held[p]].count = Cardinality(InsideOf(p))
        /\ \A u \in InsideOf(p) : ProcessOf[u] = p

\* Unless a live file was stolen, a live ticket has its file on disk ...
LiveHasFile == ~stolen => \A t \in Tickets : Live(t) => file = t

\* ... with its payload in it, once it is held.
HeldIsFull == ~stolen => \A t \in Tickets : ticket[t].pc = "held" => full

\* Without a death, an old lock or a clean-up nothing looks stale.
Calm ==
    setting.startTimes /\ ~suspect =>
        /\ ~stolen
        /\ \A t \in Tickets : ticket[t].pc # "dead" /\ ~ticket[t].old
        /\ \A u \in Users : user[u].pc \notin {"reclaim", "inspect", "clean"}

IInv ==
    /\ TypeOK
    /\ RefsMatchPc /\ CreatorIsAlone /\ TableIsOwned
    /\ Counted /\ LiveHasFile /\ HeldIsFull /\ Calm

\* Invariance, by one lemma per part.
USE SessionLockAssumption

\* A process starts with no lock, no file and no user.
LEMMA InitHolds == Init => IInv
<1> SUFFICES ASSUME Init PROVE IInv
  OBVIOUS
<1> USE DEF Init, Blank
<1>1. TypeOK
  BY DEF TypeOK, TicketRecord, UserRecord
<1>2. RefsMatchPc /\ CreatorIsAlone
  BY DEF RefsMatchPc, CreatorIsAlone
<1>3. TableIsOwned
  BY DEF TableIsOwned
<1>4. LiveHasFile /\ HeldIsFull
  BY DEF LiveHasFile, HeldIsFull, Live
<1>5. Calm
  BY DEF Calm
<1>6. Counted
  BY DEF Counted
<1> QED
  BY <1>1, <1>2, <1>3, <1>4, <1>5, <1>6 DEF IInv

\* Records of the right type.
LEMMA EntersType ==
    ASSUME TypeOK, NEW u \in Users, NEW pc, NEW t,
           [pc |-> pc, ticket |-> t] \in UserRecord, Enters(u, pc, t)
    PROVE  /\ user' \in [Users -> UserRecord]
           /\ user'[u].pc = pc /\ user'[u].ticket = t
           /\ \A v \in Users \ {u} : user'[v] = user[v]
  BY DEF TypeOK, Enters

\* A ticket nobody knows of.
LEMMA BlankType == Blank \in TicketRecord
  BY DEF Blank, TicketRecord

\* Types are preserved by every step.
LEMMA TypeStep == TypeOK /\ RefsMatchPc /\ [Next]_vars => TypeOK'
<1> SUFFICES ASSUME TypeOK, RefsMatchPc, [Next]_vars PROVE TypeOK'
  OBVIOUS
<1>0. /\ \A t \in Tickets : ticket[t] \in TicketRecord
      /\ \A u \in Users : user[u] \in UserRecord /\ ProcessOf[u] \in Processes
      /\ \A p \in Processes : held[p] \in Tickets \cup {None}
  BY DEF TypeOK
<1>1. ASSUME NEW u \in Users, Acquire(u) PROVE TypeOK'
  <2> DEFINE h == held[ProcessOf[u]]
  <2>1. CASE setting.reentrant /\ h # None
    <3>1. h \in Tickets
      BY <1>0, <2>1
    <3>2. [ticket[h] EXCEPT !.count = @ + 1] \in TicketRecord
      BY <1>0, <3>1 DEF TicketRecord
    <3>3. [pc |-> "in", ticket |-> h] \in UserRecord
      BY <3>1 DEF UserRecord
    <3>4. user' \in [Users -> UserRecord]
      BY <1>1, <2>1, <3>3, EntersType DEF Acquire
    <3> QED
      BY <1>1, <2>1, <3>2, <3>4 DEF Acquire, TypeOK
  <2>2. CASE ~(setting.reentrant /\ h # None)
    <3>1. [pc |-> "try", ticket |-> None] \in UserRecord
      BY DEF UserRecord
    <3>2. user' \in [Users -> UserRecord]
      BY <1>1, <2>2, <3>1, EntersType DEF Acquire
    <3> QED
      BY <1>1, <2>2, <3>2 DEF Acquire, TypeOK
  <2> QED
    BY <2>1, <2>2
<1>2. ASSUME NEW u \in Users, NEW t \in Tickets, Open(u, t) PROVE TypeOK'
  <2>1. [pc |-> "creating", ticket |-> t] \in UserRecord
    BY DEF UserRecord
  <2>2. [owner |-> ProcessOf[u], pc |-> "creating", count |-> 0, old |-> FALSE]
          \in TicketRecord
    BY <1>0 DEF TicketRecord
  <2>3. user' \in [Users -> UserRecord]
    BY <1>2, <2>1, EntersType DEF Open
  <2> QED
    BY <1>2, <2>2, <2>3 DEF Open, TypeOK
<1>3. ASSUME NEW u \in Users, \/ Contend(u) \/ GiveUp(u) \/ Read(u)
                               \/ StartClean(u) \/ CleanRead(u)
      PROVE TypeOK'
  <2>1. /\ [pc |-> "read", ticket |-> None] \in UserRecord
        /\ [pc |-> "idle", ticket |-> None] \in UserRecord
        /\ [pc |-> "reclaim", ticket |-> None] \in UserRecord
        /\ [pc |-> "try", ticket |-> None] \in UserRecord
        /\ [pc |-> "inspect", ticket |-> None] \in UserRecord
        /\ [pc |-> "clean", ticket |-> None] \in UserRecord
    BY DEF UserRecord
  <2>2. CASE Contend(u) \/ GiveUp(u)
    BY <1>0, <2>1, <2>2, EntersType DEF TypeOK, Contend, GiveUp
  <2>3. CASE StartClean(u)
    BY <1>0, <2>1, <2>3, EntersType DEF TypeOK, StartClean
  <2>4. CASE Read(u)
    BY <1>0, <2>1, <2>4, EntersType DEF TypeOK, Read
  <2>5. CASE CleanRead(u)
    BY <1>0, <2>1, <2>5, EntersType DEF TypeOK, CleanRead
  <2> QED
    BY <1>3, <2>2, <2>3, <2>4, <2>5
<1>4. ASSUME NEW u \in Users, WritePayload(u) PROVE TypeOK'
  BY <1>4 DEF WritePayload, TypeOK
<1>5. ASSUME NEW u \in Users, Hold(u) PROVE TypeOK'
  <2> DEFINE t == user[u].ticket
  <2>1. t \in Tickets
    BY <1>0, <1>5 DEF Hold, RefsMatchPc, UserRecord
  <2>2. [pc |-> "in", ticket |-> t] \in UserRecord
    BY <2>1 DEF UserRecord
  <2>3. [ticket[t] EXCEPT !.pc = "held", !.count = 1] \in TicketRecord
    BY <1>0, <2>1 DEF TicketRecord
  <2>4. user' \in [Users -> UserRecord]
    BY <1>5, <2>2, EntersType DEF Hold
  <2>5. ticket' \in [Tickets -> TicketRecord]
    BY <1>5, <2>1, <2>3 DEF Hold, TypeOK
  <2> QED
    BY <1>0, <1>5, <2>1, <2>4, <2>5 DEF Hold, TypeOK
<1>6. ASSUME NEW u \in Users, CreateFails(u) PROVE TypeOK'
  <2>1. [pc |-> "idle", ticket |-> None] \in UserRecord
    BY DEF UserRecord
  <2>2. user' \in [Users -> UserRecord]
    BY <1>6, <2>1, EntersType DEF CreateFails
  <2> QED
    BY <1>6, <2>2, BlankType DEF CreateFails, Removed, TypeOK
<1>7. ASSUME NEW u \in Users, Reclaim(u) \/ CleanRemove(u) PROVE TypeOK'
  <2>1. /\ [pc |-> "idle", ticket |-> None] \in UserRecord
        /\ [pc |-> "try", ticket |-> None] \in UserRecord
    BY DEF UserRecord
  <2>2. user' \in [Users -> UserRecord]
    BY <1>7, <2>1, EntersType DEF Reclaim, CleanRemove
  <2>3. ticket' \in [Tickets -> TicketRecord]
    BY <1>0, <1>7, BlankType DEF Reclaim, CleanRemove, Reclaimed
  <2> QED
    BY <1>7, <2>2, <2>3 DEF Reclaim, CleanRemove, Reclaimed, Removed, Live, TypeOK
<1>8. ASSUME NEW u \in Users, Release(u) PROVE TypeOK'
  <2> DEFINE t == user[u].ticket
  <2>1. [pc |-> "idle", ticket |-> None] \in UserRecord
    BY DEF UserRecord
  <2>2. user' \in [Users -> UserRecord]
    BY <1>8, <2>1, EntersType DEF Release
  <2>3. t \in Tickets
    BY <1>0, <1>8 DEF Release, RefsMatchPc, UserRecord
  <2>4. [ticket[t] EXCEPT !.count = 0, !.pc = "closing"] \in TicketRecord
    BY <1>0, <2>3 DEF TicketRecord
  <2>7. ASSUME ticket[t].count > 1 PROVE [ticket[t] EXCEPT !.count = @ - 1] \in TicketRecord
    <3>1. ticket[t].count \in Nat
      BY <1>0, <2>3 DEF TicketRecord
    <3>2. ticket[t].count - 1 \in Nat
      BY <2>7, <3>1
    <3> QED
      BY <1>0, <2>3, <3>2 DEF TicketRecord
  <2>5. ticket' \in [Tickets -> TicketRecord]
    BY <1>8, <2>4, <2>7 DEF Release, TypeOK
  <2>6. held' \in [Processes -> Tickets \cup {None}]
    BY <1>8 DEF Release, TypeOK
  <2> QED
    BY <1>8, <2>2, <2>5, <2>6 DEF Release, TypeOK
<1>9. ASSUME NEW t \in Tickets, RemoveFile(t) \/ GrowOld(t) PROVE TypeOK'
  <2>1. [ticket[t] EXCEPT !.old = TRUE] \in TicketRecord
    BY <1>0 DEF TicketRecord
  <2>2. ticket' \in [Tickets -> TicketRecord]
    BY <1>9, <2>1, BlankType DEF RemoveFile, GrowOld, TypeOK
  <2> QED
    BY <1>9, <2>2 DEF RemoveFile, GrowOld, Removed, TypeOK
<1>10. ASSUME NEW p \in Processes, Watchdog(p) PROVE TypeOK'
  <2> DEFINE t == held[p]
  <2>1. t \in Tickets
    BY <1>0, <1>10 DEF Watchdog
  <2>2. [ticket[t] EXCEPT !.count = 0, !.pc = "closing"] \in TicketRecord
    BY <1>0, <2>1 DEF TicketRecord
  <2> QED
    BY <1>10, <2>2 DEF Watchdog, TypeOK
<1>11. ASSUME NEW p \in Processes, Crash(p) \/ Exit(p) PROVE TypeOK'
  <2>1. [pc |-> "idle", ticket |-> None] \in UserRecord
    BY DEF UserRecord
  <2>2. \A t \in Tickets : [ticket[t] EXCEPT !.pc = "dead", !.count = 0] \in TicketRecord
    BY <1>0 DEF TicketRecord
  <2>3. ticket' \in [Tickets -> TicketRecord]
    BY <1>0, <1>11, <2>2, BlankType DEF Crash, Exit, Died
  <2>4. user' \in [Users -> UserRecord]
    BY <1>0, <1>11, <2>1 DEF Crash, Exit, Died
  <2> QED
    BY <1>11, <2>3, <2>4 DEF Crash, Exit, Died, Removed, TypeOK
<1>13. ASSUME NEW p \in Processes, Signal(p) PROVE TypeOK'
  BY <1>0, <1>13, BlankType DEF Signal, Removed, TypeOK
<1>12. CASE UNCHANGED vars
  BY <1>12 DEF vars, TypeOK
<1> QED
  BY <1>1, <1>2, <1>3, <1>4, <1>5, <1>6, <1>7, <1>8, <1>9, <1>10, <1>11, <1>12, <1>13 DEF Next

-----------------------------------------------------------------------------
\* What each kind of step does to the fields of one ticket and of one user.

\* A user that enters a place is there, and nobody else moves.
LEMMA EntersFields ==
    ASSUME TypeOK, NEW u \in Users, NEW pc, NEW t, Enters(u, pc, t)
    PROVE  /\ user'[u].pc = pc /\ user'[u].ticket = t
           /\ \A v \in Users \ {u} : user'[v] = user[v]
  BY DEF TypeOK, Enters

\* The fields of an edited ticket.
LEMMA EditedTicket ==
    ASSUME NEW r \in TicketRecord, NEW pc, NEW c
    PROVE  /\ [r EXCEPT !.pc = pc, !.count = c].pc = pc
           /\ [r EXCEPT !.count = c, !.pc = pc].pc = pc
           /\ [r EXCEPT !.pc = pc, !.count = c].owner = r.owner
           /\ [r EXCEPT !.count = c, !.pc = pc].owner = r.owner
           /\ [r EXCEPT !.pc = pc, !.count = c].count = c
           /\ [r EXCEPT !.count = c, !.pc = pc].count = c
           /\ [r EXCEPT !.pc = pc, !.count = c].old = r.old
           /\ [r EXCEPT !.count = c, !.pc = pc].old = r.old
           /\ [r EXCEPT !.count = c].pc = r.pc
           /\ [r EXCEPT !.count = c].owner = r.owner
           /\ [r EXCEPT !.count = c].count = c
           /\ [r EXCEPT !.count = c].old = r.old
           /\ [r EXCEPT !.old = c].pc = r.pc
           /\ [r EXCEPT !.old = c].owner = r.owner
           /\ [r EXCEPT !.old = c].count = r.count
  BY DEF TicketRecord

\* A ticket whose count changes keeps everything else.
LEMMA CountedTicket ==
    ASSUME TypeOK, NEW h \in Tickets, NEW c, ticket' = [ticket EXCEPT ![h].count = c]
    PROVE  /\ \A s \in Tickets : /\ ticket'[s].pc = ticket[s].pc
                                  /\ ticket'[s].owner = ticket[s].owner
                                  /\ ticket'[s].old = ticket[s].old
           /\ \A s \in Tickets \ {h} : ticket'[s] = ticket[s]
           /\ ticket'[h].count = c
<1>1. \A t \in Tickets : ticket[t] \in TicketRecord
  BY DEF TypeOK
<1>2. /\ ticket'[h] = [ticket[h] EXCEPT !.count = c]
      /\ \A s \in Tickets \ {h} : ticket'[s] = ticket[s]
  BY DEF TypeOK
<1>3. /\ [ticket[h] EXCEPT !.count = c].pc = ticket[h].pc
      /\ [ticket[h] EXCEPT !.count = c].owner = ticket[h].owner
      /\ [ticket[h] EXCEPT !.count = c].old = ticket[h].old
      /\ [ticket[h] EXCEPT !.count = c].count = c
  BY <1>1, EditedTicket
<1> QED
  BY <1>2, <1>3

\* The death of a process.
LEMMA DiedFields ==
    ASSUME TypeOK, NEW p \in Processes, Died(p)
    PROVE  /\ \A v \in Users : user'[v] =
                IF ProcessOf[v] = p THEN [pc |-> "idle", ticket |-> None] ELSE user[v]
           /\ held'[p] = None
           /\ \A q \in Processes \ {p} : held'[q] = held[q]
           /\ \A t \in Tickets :
                ticket[t].owner # p \/ ~Live(t) => ticket'[t] = ticket[t]
           /\ \A t \in Tickets :
                ticket[t].owner = p /\ Live(t) => ticket'[t].pc \in {"dead", "none"}
<1>1. \A t \in Tickets : ticket[t] \in TicketRecord
  BY DEF TypeOK
<1>2. \A t \in Tickets : [ticket[t] EXCEPT !.pc = "dead", !.count = 0].pc = "dead"
  BY <1>1, EditedTicket
<1>3. \A t \in Tickets : ticket'[t] =
            IF ticket[t].owner # p \/ ~Live(t) THEN ticket[t]
            ELSE IF file' = t THEN [ticket[t] EXCEPT !.pc = "dead", !.count = 0]
            ELSE Blank
  BY DEF Died
<1>4. \A t \in Tickets :
            ticket[t].owner = p /\ Live(t) => ticket'[t].pc \in {"dead", "none"}
  <2> SUFFICES ASSUME NEW t \in Tickets, ticket[t].owner = p, Live(t)
               PROVE  ticket'[t].pc \in {"dead", "none"}
    OBVIOUS
  <2>1. CASE file' = t
    BY <1>2, <1>3, <2>1
  <2>2. CASE file' # t
    <3>1. ticket'[t] = Blank
      BY <1>3, <2>2
    <3> QED
      BY <3>1 DEF Blank
  <2> QED
    BY <2>1, <2>2
<1> QED
  BY <1>3, <1>4 DEF Died, TypeOK

\* The removal of a file found stale touches no live ticket.
LEMMA ReclaimedFields ==
    ASSUME TypeOK, Reclaimed
    PROVE  \A t \in Tickets : \/ ticket'[t] = ticket[t]
                              \/ ~Live(t) /\ ticket'[t].pc = "none" /\ ~ticket'[t].old
  BY DEF Reclaimed, Blank

\* References.
LEMMA RefsStep == TypeOK /\ RefsMatchPc /\ [Next]_vars => RefsMatchPc'
<1> SUFFICES ASSUME TypeOK, RefsMatchPc, [Next]_vars PROVE RefsMatchPc'
  OBVIOUS
<1> USE DEF RefsMatchPc
<1>0. \A u \in Users : ProcessOf[u] \in Processes
  OBVIOUS
<1>1. ASSUME NEW u \in Users, NEW t \in Tickets, Open(u, t) PROVE RefsMatchPc'
  BY <1>1, EntersFields DEF Open
<1>2. ASSUME NEW u \in Users, Acquire(u) PROVE RefsMatchPc'
  BY <1>2, EntersFields DEF Acquire
<1>3. ASSUME NEW u \in Users, Contend(u) \/ GiveUp(u) \/ StartClean(u) PROVE RefsMatchPc'
  BY <1>3, EntersFields DEF Contend, GiveUp, StartClean
<1>4. ASSUME NEW u \in Users, Read(u) PROVE RefsMatchPc'
  <2>1. PICK pc \in {"reclaim", "try"} : Enters(u, pc, None)
    BY <1>4 DEF Read
  <2> QED
    BY <2>1, EntersFields
<1>5. ASSUME NEW u \in Users, CleanRead(u) PROVE RefsMatchPc'
  <2>1. PICK pc \in {"clean", "idle"} : Enters(u, pc, None)
    BY <1>5 DEF CleanRead
  <2> QED
    BY <2>1, EntersFields
<1>6. ASSUME NEW u \in Users, Hold(u) PROVE RefsMatchPc'
  BY <1>6, EntersFields DEF Hold
<1>7. ASSUME NEW u \in Users,
             CreateFails(u) \/ Reclaim(u) \/ CleanRemove(u) \/ Release(u)
      PROVE RefsMatchPc'
  BY <1>7, EntersFields DEF CreateFails, Reclaim, CleanRemove, Release
<1>8. ASSUME NEW p \in Processes, Crash(p) \/ Exit(p) PROVE RefsMatchPc'
  BY <1>8, DiedFields DEF Crash, Exit
<1>9. CASE UNCHANGED user
  BY <1>9
<1> QED
  BY <1>1, <1>2, <1>3, <1>4, <1>5, <1>6, <1>7, <1>8, <1>9
  DEF Next, vars, WritePayload, RemoveFile, GrowOld, Watchdog, Signal

\* The creator of a lock file.
LEMMA CreatorStep ==
    TypeOK /\ RefsMatchPc /\ TableIsOwned /\ CreatorIsAlone /\ [Next]_vars
        => CreatorIsAlone'
<1> SUFFICES ASSUME TypeOK, RefsMatchPc, TableIsOwned, CreatorIsAlone, [Next]_vars
             PROVE  CreatorIsAlone'
  OBVIOUS
<1> USE DEF CreatorIsAlone
<1>0. /\ \A u \in Users : ProcessOf[u] \in Processes
      /\ \A t \in Tickets : ticket[t] \in TicketRecord
      /\ \A u \in Users : user[u].ticket \in Tickets \cup {None}
      /\ \A p \in Processes : held[p] \in Tickets \cup {None}
      /\ DOMAIN ticket = Tickets
  BY DEF TypeOK, UserRecord
<1>1. ASSUME NEW u \in Users, NEW t \in Tickets, Open(u, t) PROVE CreatorIsAlone'
  <2>1. /\ ticket'[t].pc = "creating" /\ ticket'[t].owner = ProcessOf[u]
        /\ \A s \in Tickets \ {t} : ticket'[s] = ticket[s]
    BY <1>0, <1>1 DEF Open
  <2> QED
    BY <1>0, <1>1, <2>1, EntersFields DEF Open, Unused, RefsMatchPc
<1>2. ASSUME NEW u \in Users, Acquire(u) PROVE CreatorIsAlone'
  <2> DEFINE h == held[ProcessOf[u]]
  <2>1. CASE setting.reentrant /\ h # None
    <3>1. /\ h \in Tickets /\ ticket[h].pc = "held"
          /\ \A s \in Tickets \ {h} : ticket'[s] = ticket[s]
      BY <1>0, <1>2, <2>1 DEF Acquire, TableIsOwned
    <3> QED
      BY <1>0, <1>2, <2>1, <3>1, EntersFields DEF Acquire, RefsMatchPc
  <2>2. CASE ~(setting.reentrant /\ h # None)
    BY <1>0, <1>2, <2>2, EntersFields DEF Acquire, RefsMatchPc
  <2> QED
    BY <2>1, <2>2
<1>3. ASSUME NEW u \in Users, NEW pc \in {"idle", "try", "read", "reclaim", "inspect", "clean"},
             Enters(u, pc, None),
             \A t \in Tickets : \/ ticket'[t].pc = ticket[t].pc /\ ticket'[t].owner = ticket[t].owner
                                \/ ticket[t].pc # "creating" \/ user[u].ticket = t
      PROVE  CreatorIsAlone'
  BY <1>0, <1>3, EntersFields DEF RefsMatchPc
<1>4. ASSUME NEW u \in Users, \/ Contend(u) \/ GiveUp(u) \/ StartClean(u)
                               \/ Read(u) \/ CleanRead(u)
      PROVE CreatorIsAlone'
  <2>1. UNCHANGED ticket
    BY <1>4 DEF Contend, GiveUp, StartClean, Read, CleanRead
  <2>2. PICK pc \in {"idle", "try", "read", "reclaim", "inspect", "clean"} : Enters(u, pc, None)
    BY <1>4 DEF Contend, GiveUp, StartClean, Read, CleanRead
  <2> QED
    BY <1>3, <2>1, <2>2
<1>5. ASSUME NEW u \in Users, Reclaim(u) \/ CleanRemove(u) PROVE CreatorIsAlone'
  <2>1. PICK pc \in {"idle", "try"} : Enters(u, pc, None)
    BY <1>5 DEF Reclaim, CleanRemove
  <2>2. \A t \in Tickets : ticket'[t] = ticket[t] \/ ticket[t].pc # "creating"
    BY <1>5, ReclaimedFields DEF Reclaim, CleanRemove, Live
  <2> QED
    BY <1>3, <2>1, <2>2
<1>6. ASSUME NEW u \in Users, CreateFails(u) PROVE CreatorIsAlone'
  <2>1. \A t \in Tickets : ticket'[t] = ticket[t] \/ user[u].ticket = t
    BY <1>0, <1>6 DEF CreateFails
  <2> QED
    BY <1>3, <1>6, <2>1 DEF CreateFails
<1>7. ASSUME NEW u \in Users, Release(u) PROVE CreatorIsAlone'
  <2>1. \A t \in Tickets : ticket'[t] = ticket[t] \/ user[u].ticket = t
    BY <1>0, <1>7 DEF Release
  <2> QED
    BY <1>3, <1>7, <2>1 DEF Release
<1>8. ASSUME NEW u \in Users, Hold(u) PROVE CreatorIsAlone'
  <2> DEFINE t == user[u].ticket
  <2>1. \A s \in Tickets \ {t} : ticket'[s] = ticket[s]
    BY <1>0, <1>8 DEF Hold
  <2> QED
    BY <1>0, <1>8, <2>1, EntersFields DEF Hold, RefsMatchPc
<1>9. ASSUME UNCHANGED user,
             \A t \in Tickets : \/ ticket'[t].pc = ticket[t].pc /\ ticket'[t].owner = ticket[t].owner
                                \/ ticket[t].pc # "creating"
      PROVE  CreatorIsAlone'
  BY <1>0, <1>9 DEF RefsMatchPc
<1>10. ASSUME NEW u \in Users, WritePayload(u) PROVE CreatorIsAlone'
  BY <1>9, <1>10 DEF WritePayload
<1>11. ASSUME NEW p \in Processes, Watchdog(p) PROVE CreatorIsAlone'
  <2>1. \A t \in Tickets : ticket'[t] = ticket[t] \/ held[p] = t
    BY <1>0, <1>11 DEF Watchdog
  <2> QED
    BY <1>0, <1>9, <1>11, <2>1 DEF Watchdog, TableIsOwned
<1>12. ASSUME NEW t \in Tickets, RemoveFile(t) PROVE CreatorIsAlone'
  <2>1. \A s \in Tickets : ticket'[s] = ticket[s] \/ s = t
    BY <1>0, <1>12 DEF RemoveFile
  <2> QED
    BY <1>9, <1>12, <2>1 DEF RemoveFile
<1>13. ASSUME NEW t \in Tickets, GrowOld(t) PROVE CreatorIsAlone'
  <2>1. \A s \in Tickets : ticket'[s].pc = ticket[s].pc /\ ticket'[s].owner = ticket[s].owner
    BY <1>0, <1>13, EditedTicket DEF GrowOld
  <2> QED
    BY <1>9, <1>13, <2>1 DEF GrowOld
<1>14. ASSUME NEW p \in Processes, Crash(p) \/ Exit(p) PROVE CreatorIsAlone'
  BY <1>0, <1>14, DiedFields DEF Crash, Exit, RefsMatchPc
<1>16. ASSUME NEW p \in Processes, Signal(p) PROVE CreatorIsAlone'
  <2>1. \A t \in Tickets : ticket'[t] = ticket[t] \/ held[p] = t
    BY <1>0, <1>16 DEF Signal
  <2> QED
    BY <1>0, <1>9, <1>16, <2>1 DEF Signal, TableIsOwned
<1>15. CASE UNCHANGED vars
  BY <1>9, <1>15 DEF vars
<1> QED
  BY <1>1, <1>2, <1>4, <1>5, <1>6, <1>7, <1>8, <1>10, <1>11, <1>12, <1>13, <1>14, <1>15, <1>16 DEF Next

\* The table of a process.
LEMMA TableStep ==
    TypeOK /\ RefsMatchPc /\ CreatorIsAlone /\ TableIsOwned /\ [Next]_vars
        => TableIsOwned'
<1> SUFFICES ASSUME TypeOK, RefsMatchPc, CreatorIsAlone, TableIsOwned, [Next]_vars
             PROVE  TableIsOwned'
  OBVIOUS
<1> USE DEF TableIsOwned
<1>0. /\ \A u \in Users : ProcessOf[u] \in Processes
      /\ \A t \in Tickets : ticket[t] \in TicketRecord
      /\ \A u \in Users : user[u].ticket \in Tickets \cup {None}
      /\ \A p \in Processes : held[p] \in Tickets \cup {None}
      /\ DOMAIN ticket = Tickets
      /\ held \in [Processes -> Tickets \cup {None}]
  BY DEF TypeOK, UserRecord
<1>1. ASSUME \A q \in Processes : held'[q] \in {held[q], None},
             \A q \in Processes : held'[q] # None =>
                /\ ticket'[held[q]].pc = ticket[held[q]].pc
                /\ ticket'[held[q]].owner = ticket[held[q]].owner
      PROVE  TableIsOwned'
  BY <1>1
<1>2. ASSUME NEW u \in Users, Acquire(u) PROVE TableIsOwned'
  <2> DEFINE h == held[ProcessOf[u]]
  <2>1. CASE setting.reentrant /\ h # None
    <3>1. \A s \in Tickets : ticket'[s].pc = ticket[s].pc /\ ticket'[s].owner = ticket[s].owner
      BY <1>0, <1>2, <2>1, CountedTicket DEF Acquire
    <3> QED
      BY <1>0, <1>1, <1>2, <3>1 DEF Acquire
  <2>2. CASE ~(setting.reentrant /\ h # None)
    BY <1>0, <1>1, <1>2, <2>2 DEF Acquire
  <2> QED
    BY <2>1, <2>2
<1>3. ASSUME NEW u \in Users, NEW t \in Tickets, Open(u, t) PROVE TableIsOwned'
  <2>1. \A s \in Tickets \ {t} : ticket'[s] = ticket[s]
    BY <1>0, <1>3 DEF Open
  <2> QED
    BY <1>0, <1>1, <1>3, <2>1 DEF Open, Unused, Live
<1>4. ASSUME NEW u \in Users, CreateFails(u) PROVE TableIsOwned'
  <2>1. \A s \in Tickets : ticket'[s] = ticket[s] \/ user[u].ticket = s
    BY <1>0, <1>4 DEF CreateFails
  <2> QED
    BY <1>0, <1>1, <1>4, <2>1 DEF CreateFails, CreatorIsAlone
<1>5. ASSUME NEW u \in Users, Reclaim(u) \/ CleanRemove(u) PROVE TableIsOwned'
  <2>1. \A t \in Tickets : ticket'[t] = ticket[t] \/ ticket[t].pc # "held"
    BY <1>5, ReclaimedFields DEF Reclaim, CleanRemove, Live
  <2> QED
    BY <1>0, <1>1, <1>5, <2>1 DEF Reclaim, CleanRemove
<1>6. ASSUME NEW u \in Users, Hold(u) PROVE TableIsOwned'
  <2> DEFINE t == user[u].ticket
  <2>1. t \in Tickets /\ ticket[t].pc = "creating" /\ ticket[t].owner = ProcessOf[u]
    BY <1>0, <1>6 DEF Hold, CreatorIsAlone, RefsMatchPc
  <2>2. /\ ticket'[t].pc = "held" /\ ticket'[t].owner = ticket[t].owner
        /\ \A s \in Tickets \ {t} : ticket'[s] = ticket[s]
    BY <1>0, <1>6, <2>1, EditedTicket DEF Hold
  <2>3. held'[ProcessOf[u]] = t /\ \A q \in Processes \ {ProcessOf[u]} : held'[q] = held[q]
    BY <1>0, <1>6 DEF Hold
  <2> QED
    BY <1>0, <2>1, <2>2, <2>3
<1>7. ASSUME NEW u \in Users, Release(u) PROVE TableIsOwned'
  <2> DEFINE p == ProcessOf[u]
             t == user[u].ticket
  <2>1. CASE held[p] # t
    BY <1>0, <1>1, <1>7, <2>1 DEF Release
  <2>2. CASE held[p] = t /\ ticket[t].count > 1
    <3>2. t \in Tickets
      BY <1>0, <1>7 DEF Release, RefsMatchPc
    <3>3. ticket' = [ticket EXCEPT ![t].count = ticket[t].count - 1]
      BY <1>7, <2>2 DEF Release
    <3>1. \A s \in Tickets : ticket'[s].pc = ticket[s].pc /\ ticket'[s].owner = ticket[s].owner
      BY <3>2, <3>3, CountedTicket
    <3> QED
      BY <1>0, <1>1, <1>7, <2>2, <3>1 DEF Release
  <2>3. CASE held[p] = t /\ ~(ticket[t].count > 1)
    <3>1. \A s \in Tickets \ {t} : ticket'[s] = ticket[s]
      BY <1>0, <1>7, <2>3 DEF Release
    <3>2. held'[p] = None /\ \A q \in Processes \ {p} : held'[q] = held[q]
      BY <1>0, <1>7, <2>3 DEF Release
    <3> QED
      BY <1>0, <1>1, <2>3, <3>1, <3>2
  <2> QED
    BY <2>1, <2>2, <2>3
<1>8. ASSUME NEW p \in Processes, Watchdog(p) PROVE TableIsOwned'
  <2>1. \A s \in Tickets : ticket'[s] = ticket[s] \/ s = held[p]
    BY <1>0, <1>8 DEF Watchdog
  <2>2. held'[p] = None /\ \A q \in Processes \ {p} : held'[q] = held[q]
    BY <1>0, <1>8 DEF Watchdog
  <2> QED
    BY <1>0, <1>1, <1>8, <2>1, <2>2 DEF Watchdog
<1>9. ASSUME NEW t \in Tickets, RemoveFile(t) PROVE TableIsOwned'
  <2>1. \A s \in Tickets : ticket'[s] = ticket[s] \/ s = t
    BY <1>0, <1>9 DEF RemoveFile
  <2> QED
    BY <1>0, <1>1, <1>9, <2>1 DEF RemoveFile
<1>10. ASSUME NEW t \in Tickets, GrowOld(t) PROVE TableIsOwned'
  <2>1. \A s \in Tickets : ticket'[s].pc = ticket[s].pc /\ ticket'[s].owner = ticket[s].owner
    BY <1>0, <1>10, EditedTicket DEF GrowOld
  <2> QED
    BY <1>0, <1>1, <1>10, <2>1 DEF GrowOld
<1>11. ASSUME NEW p \in Processes, Crash(p) \/ Exit(p) PROVE TableIsOwned'
  BY <1>0, <1>11, DiedFields DEF Crash, Exit
<1>13. ASSUME NEW p \in Processes, Signal(p) PROVE TableIsOwned'
  <2>1. \A s \in Tickets : ticket'[s] = ticket[s] \/ s = held[p]
    BY <1>0, <1>13 DEF Signal
  <2>2. held'[p] = None /\ \A q \in Processes \ {p} : held'[q] = held[q]
    BY <1>0, <1>13 DEF Signal
  <2> QED
    BY <1>0, <1>1, <1>13, <2>1, <2>2 DEF Signal
<1>12. CASE UNCHANGED <<held, ticket>>
  BY <1>1, <1>12
<1> QED
  BY <1>2, <1>3, <1>4, <1>5, <1>6, <1>7, <1>8, <1>9, <1>10, <1>11, <1>12, <1>13
  DEF Next, vars, Contend, GiveUp, StartClean, Read, CleanRead, WritePayload

\* The count of a held lock.
LEMMA CountStep ==
    TypeOK /\ RefsMatchPc /\ CreatorIsAlone /\ TableIsOwned /\ Counted /\ [Next]_vars
        => Counted'
<1> SUFFICES ASSUME TypeOK, RefsMatchPc, CreatorIsAlone, TableIsOwned, Counted, [Next]_vars,
                    NEW q \in Processes, held'[q] # None
             PROVE  /\ ticket'[held'[q]].count = Cardinality(InsideOf(q)')
                    /\ \A u \in InsideOf(q)' : ProcessOf[u] = q
  BY DEF Counted
<1> DEFINE Goal == /\ ticket'[held'[q]].count = Cardinality(InsideOf(q)')
                   /\ \A u \in InsideOf(q)' : ProcessOf[u] = q
<1>0. /\ \A u \in Users : ProcessOf[u] \in Processes
      /\ \A t \in Tickets : ticket[t] \in TicketRecord
      /\ \A u \in Users : user[u].ticket \in Tickets \cup {None}
      /\ \A p \in Processes : held[p] \in Tickets \cup {None}
      /\ DOMAIN ticket = Tickets
      /\ held \in [Processes -> Tickets \cup {None}]
  BY DEF TypeOK, UserRecord
\* The lock of q is untouched.
<1>1. ASSUME held'[q] = held[q], ticket'[held[q]].count = ticket[held[q]].count,
             InsideOf(q)' = InsideOf(q)
      PROVE  Goal
  BY <1>1 DEF Counted
<1>2. ASSUME UNCHANGED user, held'[q] = held[q], ticket'[held[q]].count = ticket[held[q]].count
      PROVE  Goal
  BY <1>1, <1>2 DEF InsideOf
\* A user that is outside before and after, or moves in another lock.
<1>3. ASSUME NEW u \in Users, NEW pc, NEW t, Enters(u, pc, t),
             held'[q] = held[q], ticket'[held[q]].count = ticket[held[q]].count,
             pc # "in" \/ t # held[q], u \notin InsideOf(q)
      PROVE  Goal
  <2>1. InsideOf(q)' = InsideOf(q)
    BY <1>3, EntersFields DEF InsideOf
  <2> QED
    BY <1>1, <1>3, <2>1
<1>4. ASSUME NEW p \in Processes, p # q, held[p] # None PROVE held[q] # held[p]
  BY <1>4 DEF TableIsOwned
<1>5. ASSUME NEW u \in Users, Acquire(u) PROVE Goal
  <2> DEFINE p == ProcessOf[u]
             h == held[p]
  <2>0. u \notin InsideOf(q) /\ held' = held
    BY <1>5 DEF Acquire, InsideOf
  <2>1. CASE setting.reentrant /\ h # None
    <3>1. h \in Tickets /\ Enters(u, "in", h)
      BY <1>0, <1>5, <2>1 DEF Acquire
    <3>2. ticket' = [ticket EXCEPT ![h].count = ticket[h].count + 1]
      BY <1>5, <2>1 DEF Acquire
    <3>3. /\ ticket'[h].count = ticket[h].count + 1
          /\ \A s \in Tickets \ {h} : ticket'[s] = ticket[s]
      BY <3>1, <3>2, CountedTicket
    <3>4. CASE p = q
      <4>1. InsideOf(q)' = InsideOf(q) \cup {u}
        BY <2>0, <3>1, <3>4, EntersFields DEF InsideOf
      <4>2. IsFiniteSet(InsideOf(q))
        BY FS_Subset DEF InsideOf, SessionLockAssumption
      <4>3. Cardinality(InsideOf(q)') = Cardinality(InsideOf(q)) + 1
        BY <2>0, <4>1, <4>2, FS_AddElement
      <4>4. \A v \in InsideOf(q)' : ProcessOf[v] = q
        BY <2>1, <3>4, <4>1 DEF Counted
      <4> QED
        BY <2>0, <2>1, <3>3, <3>4, <4>3, <4>4 DEF Counted
    <3>5. CASE p # q
      BY <1>0, <1>3, <1>4, <2>0, <2>1, <3>1, <3>3, <3>5
    <3> QED
      BY <3>4, <3>5
  <2>2. CASE ~(setting.reentrant /\ h # None)
    BY <1>3, <1>5, <2>0, <2>2 DEF Acquire
  <2> QED
    BY <2>1, <2>2
<1>6. ASSUME NEW u \in Users, NEW t \in Tickets, Open(u, t) PROVE Goal
  <2>1. \A s \in Tickets \ {t} : ticket'[s] = ticket[s]
    BY <1>0, <1>6 DEF Open
  <2>2. held'[q] = held[q] /\ held[q] # t /\ u \notin InsideOf(q)
    BY <1>0, <1>6 DEF Open, Unused, Live, TableIsOwned, InsideOf
  <2> QED
    BY <1>0, <1>3, <1>6, <2>1, <2>2 DEF Open
<1>7. ASSUME NEW u \in Users, \/ Contend(u) \/ GiveUp(u) \/ StartClean(u)
                               \/ Read(u) \/ CleanRead(u)
      PROVE Goal
  <2>1. UNCHANGED <<ticket, held>> /\ u \notin InsideOf(q)
    BY <1>7 DEF Contend, GiveUp, StartClean, Read, CleanRead, InsideOf
  <2>2. PICK pc \in {"idle", "try", "read", "reclaim", "inspect", "clean"} : Enters(u, pc, None)
    BY <1>7 DEF Contend, GiveUp, StartClean, Read, CleanRead
  <2> QED
    BY <1>3, <2>1, <2>2
<1>8. ASSUME NEW u \in Users, WritePayload(u) PROVE Goal
  BY <1>2, <1>8 DEF WritePayload
<1>9. ASSUME NEW u \in Users, Hold(u) PROVE Goal
  <2> DEFINE p == ProcessOf[u]
             t == user[u].ticket
  <2>1. t \in Tickets /\ ticket[t].pc = "creating" /\ ticket[t].owner = p
    BY <1>0, <1>9 DEF Hold, CreatorIsAlone, RefsMatchPc
  <2>2. ticket' = [ticket EXCEPT ![t].pc = "held", ![t].count = 1]
    BY <1>9 DEF Hold
  <2>3. ticket'[t].count = 1 /\ \A s \in Tickets \ {t} : ticket'[s] = ticket[s]
    BY <1>0, <2>1, <2>2, EditedTicket
  <2>4. held'[p] = t /\ \A r \in Processes \ {p} : held'[r] = held[r]
    BY <1>0, <1>9 DEF Hold
  <2>5. CASE q = p
    <3>1. InsideOf(q)' = {u}
      BY <1>0, <1>9, <2>1, <2>4, <2>5, EntersFields DEF Hold, InsideOf, CreatorIsAlone
    <3>2. Cardinality({u}) = 1
      BY FS_Singleton
    <3> QED
      BY <2>3, <2>4, <2>5, <3>1, <3>2
  <2>6. CASE q # p
    <3>1. held'[q] = held[q] /\ held[q] # t /\ held[q] \in Tickets
      BY <1>0, <2>1, <2>4, <2>6 DEF TableIsOwned
    <3>2. u \notin InsideOf(q) /\ Enters(u, "in", t)
      BY <1>9 DEF Hold, InsideOf
    <3> QED
      BY <1>3, <2>3, <3>1, <3>2
  <2> QED
    BY <2>5, <2>6
<1>10. ASSUME NEW u \in Users, CreateFails(u) PROVE Goal
  <2>1. \A s \in Tickets : ticket'[s] = ticket[s] \/ user[u].ticket = s
    BY <1>0, <1>10 DEF CreateFails
  <2>2. held'[q] = held[q] /\ held[q] \in Tickets /\ held[q] # user[u].ticket
    BY <1>0, <1>10 DEF CreateFails, CreatorIsAlone, TableIsOwned
  <2>3. u \notin InsideOf(q) /\ Enters(u, "idle", None)
    BY <1>10 DEF CreateFails, InsideOf
  <2> QED
    BY <1>3, <2>1, <2>2, <2>3
<1>11. ASSUME NEW u \in Users, Reclaim(u) \/ CleanRemove(u) PROVE Goal
  <2>1. \A t \in Tickets : ticket'[t] = ticket[t] \/ ticket[t].pc # "held"
    BY <1>11, ReclaimedFields DEF Reclaim, CleanRemove, Live
  <2>2. /\ held'[q] = held[q] /\ held[q] \in Tickets /\ ticket[held[q]].pc = "held"
        /\ u \notin InsideOf(q)
    BY <1>0, <1>11 DEF Reclaim, CleanRemove, InsideOf, TableIsOwned
  <2>3. PICK pc \in {"idle", "try"} : Enters(u, pc, None)
    BY <1>11 DEF Reclaim, CleanRemove
  <2> QED
    BY <1>3, <2>1, <2>2, <2>3
<1>12. ASSUME NEW u \in Users, Release(u) PROVE Goal
  <2> DEFINE p == ProcessOf[u]
             t == user[u].ticket
  <2>0. t \in Tickets /\ user[u].pc = "in" /\ Enters(u, "idle", None)
    BY <1>0, <1>12 DEF Release, RefsMatchPc
  <2>1. CASE held[p] # t
    <3>1. UNCHANGED <<held, ticket>>
      BY <1>12, <2>1 DEF Release
    <3>2. u \notin InsideOf(q)
      BY <2>1, <3>1 DEF InsideOf, Counted
    <3> QED
      BY <1>3, <2>0, <3>1, <3>2
  <2>2. CASE held[p] = t /\ ticket[t].count > 1
    <3>1. ticket' = [ticket EXCEPT ![t].count = ticket[t].count - 1] /\ held' = held
      BY <1>12, <2>2 DEF Release
    <3>2. /\ ticket'[t].count = ticket[t].count - 1
          /\ \A s \in Tickets \ {t} : ticket'[s] = ticket[s]
      BY <2>0, <3>1, CountedTicket
    <3>3. CASE p = q
      <4>1. InsideOf(q)' = InsideOf(q) \ {u} /\ u \in InsideOf(q)
        BY <2>0, <2>2, <3>1, <3>3, EntersFields DEF InsideOf
      <4>2. IsFiniteSet(InsideOf(q))
        BY FS_Subset DEF InsideOf, SessionLockAssumption
      <4>3. Cardinality(InsideOf(q)') = Cardinality(InsideOf(q)) - 1
        BY <4>1, <4>2, FS_RemoveElement
      <4>4. ticket[held[q]].count = Cardinality(InsideOf(q))
        BY <2>0, <2>2, <3>3 DEF Counted
      <4>5. \A v \in InsideOf(q)' : ProcessOf[v] = q
        BY <2>0, <2>2, <3>3, <4>1 DEF Counted
      <4> QED
        BY <2>2, <3>1, <3>2, <3>3, <4>3, <4>4, <4>5
    <3>4. CASE p # q
      <4>1. held'[q] = held[q] /\ held[q] # t /\ held[q] \in Tickets /\ u \notin InsideOf(q)
        BY <1>0, <1>4, <2>0, <2>2, <3>1, <3>4 DEF InsideOf
      <4> QED
        BY <1>3, <2>0, <3>2, <4>1
    <3> QED
      BY <3>3, <3>4
  <2>3. CASE held[p] = t /\ ~(ticket[t].count > 1)
    <3>1. held' = [held EXCEPT ![p] = None]
      BY <1>12, <2>3 DEF Release
    <3>2. \A s \in Tickets \ {t} : ticket'[s] = ticket[s]
      BY <1>0, <1>12, <2>3 DEF Release
    <3>3. p # q /\ held'[q] = held[q]
      BY <1>0, <3>1
    <3>4. held[q] # t /\ held[q] \in Tickets /\ u \notin InsideOf(q)
      BY <1>0, <1>4, <2>0, <2>3, <3>3 DEF InsideOf
    <3> QED
      BY <1>3, <2>0, <3>2, <3>3, <3>4
  <2> QED
    BY <2>1, <2>2, <2>3
<1>13. ASSUME NEW p \in Processes, Watchdog(p) PROVE Goal
  <2>1. \A s \in Tickets : ticket'[s] = ticket[s] \/ s = held[p]
    BY <1>0, <1>13 DEF Watchdog
  <2>2. p # q /\ held'[q] = held[q]
    BY <1>0, <1>13 DEF Watchdog
  <2>3. held[q] # held[p] /\ held[q] \in Tickets
    BY <1>0, <1>4, <1>13, <2>2 DEF Watchdog
  <2> QED
    BY <1>2, <1>13, <2>1, <2>2, <2>3 DEF Watchdog
<1>14. ASSUME NEW t \in Tickets, RemoveFile(t) PROVE Goal
  <2>1. \A s \in Tickets : ticket'[s] = ticket[s] \/ s = t
    BY <1>0, <1>14 DEF RemoveFile
  <2>2. held'[q] = held[q] /\ held[q] # t /\ held[q] \in Tickets
    BY <1>0, <1>14 DEF RemoveFile, TableIsOwned
  <2> QED
    BY <1>2, <1>14, <2>1, <2>2 DEF RemoveFile
<1>15. ASSUME NEW t \in Tickets, GrowOld(t) PROVE Goal
  <2>1. \A s \in Tickets : ticket'[s].count = ticket[s].count
    BY <1>0, <1>15, EditedTicket DEF GrowOld
  <2> QED
    BY <1>0, <1>2, <1>15, <2>1 DEF GrowOld
<1>16. ASSUME NEW p \in Processes, Crash(p) \/ Exit(p) PROVE Goal
  <2>1. Died(p)
    BY <1>16 DEF Crash, Exit
  <2>2. p # q /\ held'[q] = held[q]
    BY <2>1, DiedFields
  <2>3. held[q] \in Tickets /\ ticket'[held[q]] = ticket[held[q]]
    BY <1>0, <2>1, <2>2, DiedFields DEF TableIsOwned
  <2>4. InsideOf(q)' = InsideOf(q)
    <3>1. \A v \in InsideOf(q) : user'[v] = user[v]
      <4>1. \A v \in InsideOf(q) : v \in Users /\ ProcessOf[v] = q
        BY <1>0, <2>2 DEF InsideOf, Counted
      <4>2. \A v \in Users : ProcessOf[v] # p => user'[v] = user[v]
        BY <2>1, DiedFields
      <4> QED
        BY <2>2, <4>1, <4>2
    <3>2. \A v \in Users : user'[v].pc = "in" => user'[v] = user[v]
      BY <2>1, DiedFields
    <3> QED
      BY <2>2, <3>1, <3>2 DEF InsideOf
  <2> QED
    BY <1>1, <2>2, <2>3, <2>4
<1>18. ASSUME NEW p \in Processes, Signal(p) PROVE Goal
  <2>1. \A s \in Tickets : ticket'[s] = ticket[s] \/ s = held[p]
    BY <1>0, <1>18 DEF Signal
  <2>2. p # q /\ held'[q] = held[q]
    BY <1>0, <1>18 DEF Signal
  <2>3. held[q] # held[p] /\ held[q] \in Tickets
    BY <1>0, <1>4, <1>18, <2>2 DEF Signal
  <2> QED
    BY <1>2, <1>18, <2>1, <2>2, <2>3 DEF Signal
<1>17. CASE UNCHANGED vars
  BY <1>2, <1>17 DEF vars
<1> QED
  BY <1>5, <1>6, <1>7, <1>8, <1>9, <1>10, <1>11, <1>12, <1>13, <1>14, <1>15, <1>16, <1>17, <1>18 DEF Next

\* The live ticket and its file: without theft there is one live ticket at
\* most, so whoever removes a file of its own removes the last live one.
LEMMA FileStep ==
    TypeOK /\ RefsMatchPc /\ CreatorIsAlone /\ TableIsOwned /\ LiveHasFile /\ HeldIsFull /\ [Next]_vars
        => LiveHasFile' /\ HeldIsFull'
<1> SUFFICES ASSUME TypeOK, RefsMatchPc, CreatorIsAlone, TableIsOwned,
                    LiveHasFile, HeldIsFull, [Next]_vars
             PROVE  LiveHasFile' /\ HeldIsFull'
  OBVIOUS
<1> DEFINE Goal == /\ \A t \in Tickets : Live(t)' => file' = t
                   /\ \A t \in Tickets : ticket'[t].pc = "held" => full'
<1> SUFFICES ASSUME ~stolen' PROVE Goal
  <2>1. LiveHasFile' <=> (~stolen' => \A t \in Tickets : Live(t)' => file' = t)
    BY DEF LiveHasFile
  <2>2. HeldIsFull' <=> (~stolen' => \A t \in Tickets : ticket'[t].pc = "held" => full')
    BY DEF HeldIsFull
  <2> QED
    BY <2>1, <2>2
<1>0. /\ \A u \in Users : ProcessOf[u] \in Processes
      /\ \A t \in Tickets : ticket[t] \in TicketRecord
      /\ \A u \in Users : user[u].ticket \in Tickets \cup {None}
      /\ \A p \in Processes : held[p] \in Tickets \cup {None}
      /\ DOMAIN ticket = Tickets
  BY DEF TypeOK, UserRecord
<1>1. ~stolen
  BY DEF Next, vars, Acquire, Contend, WritePayload, Hold, CreateFails, Read, Reclaim,
         Reclaimed, GiveUp, Release, StartClean, CleanRead, CleanRemove, Open,
         RemoveFile, GrowOld, Watchdog, Signal, Crash, Exit, Died
<1>2. /\ \A t \in Tickets : Live(t) => file = t
      /\ \A t \in Tickets : ticket[t].pc = "held" => full
  BY <1>1 DEF LiveHasFile, HeldIsFull
<1>3. ASSUME file' = file, full => full',
             \A t \in Tickets : \/ ticket'[t].pc = ticket[t].pc
                                \/ ticket[t].pc = "held" /\ ticket'[t].pc = "closing"
                                \/ ticket'[t].pc \in {"none", "dead"}
      PROVE  Goal
  BY <1>2, <1>3 DEF Live
<1> HIDE DEF Goal
<1>4. ASSUME \A t \in Tickets : ticket'[t].pc \notin {"creating", "held", "closing"}
      PROVE  Goal
  BY <1>4 DEF Live, Goal
<1>5. ASSUME NEW s \in Tickets, Live(s), ticket'[s].pc = "none",
             \A t \in Tickets \ {s} : ticket'[t] = ticket[t]
      PROVE  Goal
  BY <1>2, <1>4, <1>5 DEF Live
<1>6. ASSUME NEW u \in Users, Acquire(u) PROVE Goal
  <2> DEFINE h == held[ProcessOf[u]]
  <2>1. CASE setting.reentrant /\ h # None
    <3>1. \A s \in Tickets : ticket'[s].pc = ticket[s].pc
      BY <1>0, <1>6, <2>1, CountedTicket DEF Acquire
    <3> QED
      BY <1>3, <1>6, <3>1 DEF Acquire
  <2>2. CASE ~(setting.reentrant /\ h # None)
    BY <1>3, <1>6, <2>2 DEF Acquire
  <2> QED
    BY <2>1, <2>2
<1>7. ASSUME NEW u \in Users, NEW t \in Tickets, Open(u, t) PROVE Goal
  <2>1. /\ ticket'[t].pc = "creating"
        /\ \A s \in Tickets \ {t} : ticket'[s] = ticket[s]
    BY <1>0, <1>7 DEF Open
  <2>2. \A s \in Tickets : ~Live(s)
    BY <1>2, <1>7 DEF Open
  <2> QED
    BY <1>7, <2>1, <2>2 DEF Live, Open, Goal
<1>8. ASSUME NEW u \in Users, WritePayload(u) PROVE Goal
  BY <1>3, <1>8 DEF WritePayload
<1>9. ASSUME NEW u \in Users, Hold(u) PROVE Goal
  <2> DEFINE t == user[u].ticket
  <2>1. t \in Tickets /\ ticket[t].pc = "creating"
    BY <1>0, <1>9 DEF Hold, CreatorIsAlone, RefsMatchPc
  <2>2. file = t /\ full
    BY <1>2, <1>9, <2>1 DEF Hold, Live
  <2>3. \A s \in Tickets \ {t} : ticket'[s] = ticket[s] /\ ~Live(s)
    BY <1>0, <1>2, <1>9, <2>2 DEF Hold
  <2> QED
    BY <1>9, <2>2, <2>3 DEF Hold, Live, Goal
<1>10. ASSUME NEW u \in Users, CreateFails(u) PROVE Goal
  <2> DEFINE t == user[u].ticket
  <2>1. t \in Tickets /\ Live(t)
    BY <1>0, <1>10 DEF CreateFails, CreatorIsAlone, RefsMatchPc, Live
  <2>2. ticket'[t].pc = "none" /\ \A s \in Tickets \ {t} : ticket'[s] = ticket[s]
    BY <1>0, <1>10, <2>1 DEF CreateFails, Blank
  <2> QED
    BY <1>5, <2>1, <2>2
<1>11. ASSUME NEW u \in Users, Reclaim(u) \/ CleanRemove(u) PROVE Goal
  <2>1. \A t \in Tickets : ~Live(t)
    BY <1>2, <1>11 DEF Reclaim, CleanRemove, Reclaimed, Live
  <2>2. \A t \in Tickets : ticket'[t] = ticket[t] \/ ticket'[t].pc = "none"
    BY <1>11, ReclaimedFields DEF Reclaim, CleanRemove
  <2> QED
    BY <1>4, <2>1, <2>2 DEF Live
<1>12. ASSUME NEW u \in Users, Release(u) PROVE Goal
  <2> DEFINE p == ProcessOf[u]
             t == user[u].ticket
  <2>0. t \in Tickets /\ file' = file /\ full' = full
    BY <1>0, <1>12 DEF Release, RefsMatchPc
  <2>1. CASE held[p] # t
    BY <1>3, <1>12, <2>0, <2>1 DEF Release
  <2>2. CASE held[p] = t /\ ticket[t].count > 1
    <3>1. ticket' = [ticket EXCEPT ![t].count = ticket[t].count - 1]
      BY <1>12, <2>2 DEF Release
    <3> QED
      BY <1>3, <2>0, <3>1, CountedTicket
  <2>3. CASE held[p] = t /\ ~(ticket[t].count > 1)
    <3>1. ticket[t].pc = "held"
      BY <1>0, <2>0, <2>3 DEF TableIsOwned
    <3>2. ticket' = [ticket EXCEPT ![t].count = 0, ![t].pc = "closing"]
      BY <1>12, <2>3 DEF Release
    <3>3. ticket'[t].pc = "closing" /\ \A s \in Tickets \ {t} : ticket'[s] = ticket[s]
      BY <1>0, <2>0, <3>2, EditedTicket
    <3> QED
      BY <1>3, <2>0, <3>1, <3>3
  <2> QED
    BY <2>1, <2>2, <2>3
<1>13. ASSUME NEW p \in Processes, Watchdog(p) PROVE Goal
  <2> DEFINE t == held[p]
  <2>1. t \in Tickets /\ ticket[t].pc = "held"
    BY <1>0, <1>13 DEF Watchdog, TableIsOwned
  <2>2. ticket'[t].pc = "closing" /\ \A s \in Tickets \ {t} : ticket'[s] = ticket[s]
    BY <1>0, <1>13, <2>1, EditedTicket DEF Watchdog
  <2> QED
    BY <1>3, <1>13, <2>1, <2>2 DEF Watchdog
<1>14. ASSUME NEW t \in Tickets, RemoveFile(t) PROVE Goal
  <2>1. Live(t)
    BY <1>14 DEF RemoveFile, Live
  <2>2. ticket'[t].pc = "none" /\ \A s \in Tickets \ {t} : ticket'[s] = ticket[s]
    BY <1>0, <1>14 DEF RemoveFile, Blank
  <2> QED
    BY <1>5, <2>1, <2>2
<1>15. ASSUME NEW t \in Tickets, GrowOld(t) PROVE Goal
  <2>1. \A s \in Tickets : ticket'[s].pc = ticket[s].pc
    BY <1>0, <1>15, EditedTicket DEF GrowOld
  <2> QED
    BY <1>3, <1>15, <2>1 DEF GrowOld
<1>16. ASSUME NEW p \in Processes, Crash(p) PROVE Goal
  <2>1. \A t \in Tickets : ticket'[t].pc = ticket[t].pc \/ ticket'[t].pc \in {"none", "dead"}
    BY <1>16, DiedFields DEF Crash
  <2> QED
    BY <1>3, <1>16, <2>1 DEF Crash
<1>17. ASSUME NEW p \in Processes, Exit(p) PROVE Goal
  <2>1. \A t \in Tickets : ticket'[t].pc = ticket[t].pc \/ ticket'[t].pc \in {"none", "dead"}
    BY <1>17, DiedFields DEF Exit
  <2>2. CASE held[p] = None
    BY <1>3, <1>17, <2>1, <2>2 DEF Exit
  <2>3. CASE held[p] # None
    <3> DEFINE h == held[p]
    <3>1. h \in Tickets /\ Live(h) /\ ticket[h].owner = p
      BY <1>0, <2>3 DEF TableIsOwned, Live
    <3>2. ticket'[h].pc \in {"none", "dead"}
      BY <1>17, <3>1, DiedFields DEF Exit
    <3>3. \A t \in Tickets \ {h} : ~Live(t) /\ ticket'[t] = ticket[t]
      BY <1>2, <1>17, <3>1, DiedFields DEF Exit
    <3> QED
      BY <1>4, <3>2, <3>3 DEF Live
  <2> QED
    BY <2>2, <2>3
<1>19. ASSUME NEW p \in Processes, Signal(p) PROVE Goal
  <2> DEFINE h == held[p]
  <2>1. h \in Tickets /\ Live(h)
    BY <1>0, <1>19 DEF Signal, TableIsOwned, Live
  <2>2. ticket'[h].pc = "none" /\ \A s \in Tickets \ {h} : ticket'[s] = ticket[s]
    BY <1>0, <1>19, <2>1 DEF Signal, Blank
  <2> QED
    BY <1>5, <2>1, <2>2
<1>18. CASE UNCHANGED <<file, full, ticket>>
  BY <1>3, <1>18
<1> QED
  BY <1>6, <1>7, <1>8, <1>9, <1>10, <1>11, <1>12, <1>13, <1>14, <1>15, <1>16, <1>17, <1>18, <1>19
  DEF Next, vars, Contend, GiveUp, StartClean, Read, CleanRead

\* Nothing looks stale until something died, grew old or cleaned up.
LEMMA CalmStep ==
    TypeOK /\ RefsMatchPc /\ TableIsOwned /\ Calm /\ [Next]_vars => Calm'
<1> SUFFICES ASSUME TypeOK, RefsMatchPc, TableIsOwned, Calm, [Next]_vars,
                    setting'.startTimes, ~suspect'
             PROVE  /\ ~stolen'
                    /\ \A t \in Tickets : ticket'[t].pc # "dead" /\ ~ticket'[t].old
                    /\ \A u \in Users : user'[u].pc \notin {"reclaim", "inspect", "clean"}
  BY DEF Calm
<1> DEFINE Goal == /\ ~stolen'
                   /\ \A t \in Tickets : ticket'[t].pc # "dead" /\ ~ticket'[t].old
                   /\ \A u \in Users : user'[u].pc \notin {"reclaim", "inspect", "clean"}
<1>0. /\ \A u \in Users : ProcessOf[u] \in Processes
      /\ \A t \in Tickets : ticket[t] \in TicketRecord
      /\ \A u \in Users : user[u].ticket \in Tickets \cup {None}
      /\ \A p \in Processes : held[p] \in Tickets \cup {None}
      /\ DOMAIN ticket = Tickets
      /\ file \in Tickets \cup {None}
  BY DEF TypeOK, UserRecord
<1>1. setting.startTimes /\ ~suspect
  <2>1. setting' = setting
    BY DEF Next, vars, Acquire, Contend, WritePayload, Hold, CreateFails, Read, Reclaim,
         GiveUp, Release, StartClean, CleanRead, CleanRemove, Open,
         RemoveFile, GrowOld, Watchdog, Signal, Crash, Exit, Died
  <2>2. suspect => suspect'
    BY DEF Next, vars, Acquire, Contend, WritePayload, Hold, CreateFails, Read, Reclaim,
         GiveUp, Release, StartClean, CleanRead, CleanRemove, Open,
         RemoveFile, GrowOld, Watchdog, Signal, Crash, Exit, Died
  <2> QED
    BY <2>1, <2>2
<1>2. /\ ~stolen
      /\ \A t \in Tickets : ticket[t].pc # "dead" /\ ~ticket[t].old
      /\ \A u \in Users : user[u].pc \notin {"reclaim", "inspect", "clean"}
  BY <1>1 DEF Calm
<1>3. ASSUME NEW u \in Users, NEW pc \in {"idle", "try", "read", "creating", "in"}, NEW t,
             Enters(u, pc, t), stolen' = stolen,
             \A s \in Tickets : ticket'[s].pc # "dead" /\ ~ticket'[s].old
      PROVE  Goal
  BY <1>2, <1>3, EntersFields
<1>4. ASSUME NEW u \in Users, Acquire(u) PROVE Goal
  <2> DEFINE h == held[ProcessOf[u]]
  <2>1. CASE setting.reentrant /\ h # None
    <3>1. \A s \in Tickets : ticket'[s].pc = ticket[s].pc /\ ticket'[s].old = ticket[s].old
      BY <1>0, <1>4, <2>1, CountedTicket DEF Acquire
    <3> QED
      BY <1>2, <1>3, <1>4, <2>1, <3>1 DEF Acquire
  <2>2. CASE ~(setting.reentrant /\ h # None)
    BY <1>2, <1>3, <1>4, <2>2 DEF Acquire
  <2> QED
    BY <2>1, <2>2
<1>5. ASSUME NEW u \in Users, NEW t \in Tickets, Open(u, t) PROVE Goal
  <2>1. \A s \in Tickets : ticket'[s].pc # "dead" /\ ~ticket'[s].old
    BY <1>0, <1>2, <1>5 DEF Open
  <2> QED
    BY <1>3, <1>5, <2>1 DEF Open
<1>6. ASSUME NEW u \in Users, Contend(u) \/ GiveUp(u) PROVE Goal
  BY <1>2, <1>3, <1>6 DEF Contend, GiveUp
<1>7. ASSUME NEW u \in Users, WritePayload(u) PROVE Goal
  BY <1>2, <1>7 DEF WritePayload
<1>8. ASSUME NEW u \in Users, Hold(u) PROVE Goal
  <2>1. \A s \in Tickets : ticket'[s].pc # "dead" /\ ~ticket'[s].old
    <3>1. \A s \in Tickets \ {user[u].ticket} : ticket'[s] = ticket[s]
      BY <1>0, <1>8 DEF Hold
    <3>2. user[u].ticket \in Tickets
      BY <1>0, <1>8 DEF Hold, RefsMatchPc
    <3>3. ticket'[user[u].ticket] = [ticket[user[u].ticket] EXCEPT !.pc = "held", !.count = 1]
      BY <1>0, <1>8, <3>2 DEF Hold
    <3>4. ticket'[user[u].ticket].pc = "held" /\ ticket'[user[u].ticket].old = ticket[user[u].ticket].old
      BY <1>0, <3>2, <3>3, EditedTicket
    <3> QED
      BY <1>2, <3>1, <3>2, <3>4
  <2> QED
    BY <1>3, <1>8, <2>1 DEF Hold
<1>9. ASSUME NEW u \in Users, CreateFails(u) PROVE Goal
  <2>1. \A s \in Tickets : ticket'[s].pc # "dead" /\ ~ticket'[s].old
    BY <1>0, <1>2, <1>9 DEF CreateFails, Blank
  <2> QED
    BY <1>3, <1>9, <2>1 DEF CreateFails
<1>10. ASSUME NEW u \in Users, Read(u) PROVE Goal
  <2>1. ~StaleFor(ProcessOf[u])
    <3> SUFFICES ASSUME file # None
                 PROVE  ticket[file].pc # "dead" /\ ~ticket[file].old /\ ~OrphanSelf(file, ProcessOf[u])
      BY DEF StaleFor
    <3> QED
      BY <1>0, <1>1, <1>2 DEF OrphanSelf
  <2>2. Enters(u, "try", None) /\ UNCHANGED <<ticket, stolen>>
    BY <1>10, <2>1 DEF Read
  <2> QED
    BY <1>2, <1>3, <2>2
<1>11. ASSUME NEW u \in Users, Release(u) PROVE Goal
  <2> DEFINE p == ProcessOf[u]
             t == user[u].ticket
  <2>0. t \in Tickets /\ Enters(u, "idle", None) /\ stolen' = stolen
    BY <1>0, <1>11 DEF Release, RefsMatchPc
  <2>1. CASE held[p] # t
    BY <1>2, <1>3, <1>11, <2>0, <2>1 DEF Release
  <2>2. CASE held[p] = t /\ ticket[t].count > 1
    <3>1. ticket' = [ticket EXCEPT ![t].count = ticket[t].count - 1]
      BY <1>11, <2>2 DEF Release
    <3>2. \A s \in Tickets : ticket'[s].pc = ticket[s].pc /\ ticket'[s].old = ticket[s].old
      BY <2>0, <3>1, CountedTicket
    <3> QED
      BY <1>2, <1>3, <2>0, <3>2
  <2>3. CASE held[p] = t /\ ~(ticket[t].count > 1)
    <3>1. ticket' = [ticket EXCEPT ![t].count = 0, ![t].pc = "closing"]
      BY <1>11, <2>3 DEF Release
    <3>2. /\ ticket'[t].pc = "closing" /\ ticket'[t].old = ticket[t].old
          /\ \A s \in Tickets \ {t} : ticket'[s] = ticket[s]
      BY <1>0, <2>0, <3>1, EditedTicket
    <3> QED
      BY <1>2, <1>3, <2>0, <3>2
  <2> QED
    BY <2>1, <2>2, <2>3
<1>12. ASSUME NEW p \in Processes, Watchdog(p) PROVE Goal
  <2> DEFINE t == held[p]
  <2>1. t \in Tickets
    BY <1>0, <1>12 DEF Watchdog
  <2>2. /\ ticket'[t].pc = "closing" /\ ticket'[t].old = ticket[t].old
        /\ \A s \in Tickets \ {t} : ticket'[s] = ticket[s]
    BY <1>0, <1>12, <2>1, EditedTicket DEF Watchdog
  <2> QED
    BY <1>2, <1>12, <2>2 DEF Watchdog
<1>13. ASSUME NEW t \in Tickets, RemoveFile(t) PROVE Goal
  <2>1. \A s \in Tickets : ticket'[s].pc # "dead" /\ ~ticket'[s].old
    BY <1>0, <1>2, <1>13 DEF RemoveFile, Blank
  <2> QED
    BY <1>2, <1>13, <2>1 DEF RemoveFile
<1>17. ASSUME NEW p \in Processes, Signal(p) PROVE Goal
  <2>1. \A s \in Tickets : ticket'[s].pc # "dead" /\ ~ticket'[s].old
    BY <1>0, <1>2, <1>17 DEF Signal, Blank
  <2> QED
    BY <1>2, <1>17, <2>1 DEF Signal
<1>14. CASE UNCHANGED vars
  BY <1>2, <1>14 DEF vars
<1>15. /\ \A u \in Users : ~StartClean(u)
       /\ \A t \in Tickets : ~GrowOld(t)
       /\ \A p \in Processes : ~Crash(p) /\ ~Exit(p)
  BY DEF StartClean, GrowOld, Crash, Exit, Died
<1>16. \A u \in Users : ~Reclaim(u) /\ ~CleanRead(u) /\ ~CleanRemove(u)
  BY <1>2 DEF Reclaim, CleanRead, CleanRemove
<1> QED
  BY <1>4, <1>5, <1>6, <1>7, <1>8, <1>9, <1>10, <1>11, <1>12, <1>13, <1>14, <1>15, <1>16, <1>17 DEF Next

\* Every step preserves all parts.
LEMMA Inductive == IInv /\ [Next]_vars => IInv'
  BY TypeStep, RefsStep, CreatorStep, TableStep, CountStep, FileStep, CalmStep DEF IInv

\* The inductive invariant holds throughout.
THEOREM Invariance == Spec => []IInv
<1>1. Init => IInv
  BY InitHolds
<1>2. IInv /\ [Next]_vars => IInv'
  BY Inductive
<1> QED
  BY <1>1, <1>2, PTL DEF Spec

\* Every variable has its type.
THEOREM TypeCorrect == Spec => []TypeOK
<1>1. IInv => TypeOK
  BY DEF IInv
<1> QED
  BY <1>1, Invariance, PTL

\* The lock file of whoever is inside is on disk with its payload, as long as
\* no live file was removed as stale.
THEOREM Protected == Spec => []FileProtects
<1>1. IInv => FileProtects
  BY DEF IInv, FileProtects, Inside, RefsMatchPc, TableIsOwned, LiveHasFile, HeldIsFull,
         Live, TypeOK, UserRecord
<1> QED
  BY <1>1, Invariance, PTL

\* Two processes are never inside together, under the same condition.
THEOREM OneInside == Spec => []OneProcessInside
<1>1. IInv => OneProcessInside
  BY DEF IInv, OneProcessInside, Inside, RefsMatchPc, TableIsOwned, LiveHasFile,
         Live, TypeOK, UserRecord
<1> QED
  BY <1>1, Invariance, PTL

\* With start times, no live file is removed as stale before a death, an old
\* lock or a clean-up.
THEOREM NoSuspicion == Spec => []NoFalseSuspicion
<1>1. IInv => NoFalseSuspicion
  BY DEF IInv, Calm, NoFalseSuspicion
<1> QED
  BY <1>1, Invariance, PTL

\* Nobody but its own release, the watchdog or the death of its process ends
\* the hold of a user, as long as no live file was removed as stale.
THEOREM OwnRelease == Spec => OnlyOwnReleaseEnds
<1> DEFINE Ends(u) == /\ Inside(u) /\ ~Inside(u)'
                      /\ user'[u] = user[u] /\ user' # user
<1>1. ASSUME IInv, Next, ~stolen, NEW u \in Users, Ends(u) PROVE FALSE
  <2> DEFINE p == ProcessOf[u]
             t == user[u].ticket
  <2>0. /\ TypeOK /\ RefsMatchPc /\ CreatorIsAlone /\ TableIsOwned /\ Counted
        /\ LiveHasFile
    BY <1>1 DEF IInv
  <2>1. /\ p \in Processes /\ t \in Tickets /\ held[p] = t /\ held'[p] # t
        /\ user[u].pc = "in" /\ ticket[t].pc = "held" /\ ticket[t].owner = p
        /\ file = t
    BY <1>1, <2>0 DEF Inside, RefsMatchPc, TypeOK, UserRecord, TableIsOwned, LiveHasFile, Live
  <2>2. \A v \in Users : ~Hold(v)
    <3> SUFFICES ASSUME NEW v \in Users, Hold(v), held'[p] # held[p] PROVE FALSE
      BY <2>1
    <3>1. user[v].pc = "creating" /\ user[v].ticket \in Tickets
      BY <2>0 DEF Hold, RefsMatchPc, TypeOK, UserRecord
    <3>2. ticket[user[v].ticket].pc = "creating"
      BY <2>0, <3>1 DEF CreatorIsAlone
    <3>3. file = user[v].ticket
      BY <1>1, <2>0, <3>1, <3>2 DEF LiveHasFile, Live
    <3> QED
      BY <2>1, <3>2, <3>3
  <2>3. \A v \in Users : ~Release(v)
    <3> SUFFICES ASSUME NEW v \in Users, Release(v) PROVE FALSE
      OBVIOUS
    <3>1. user[v].pc = "in" /\ v # u
      BY <1>1, <2>1, EntersFields, <2>0 DEF Release
    <3>2. ProcessOf[v] = p /\ user[v].ticket = t /\ ~(ticket[t].count > 1)
      BY <2>0, <2>1 DEF Release, TypeOK
    <3>3. {u, v} \subseteq InsideOf(p)
      BY <2>1, <3>1, <3>2 DEF InsideOf
    <3>4. IsFiniteSet(InsideOf(p))
      BY FS_Subset DEF InsideOf, SessionLockAssumption
    <3>5. Cardinality({u, v}) = 2
      <4>1. IsFiniteSet({u}) /\ Cardinality({u}) = 1
        BY FS_Singleton
      <4>2. Cardinality({u} \cup {v}) = Cardinality({u}) + 1
        BY <3>1, <4>1, FS_AddElement
      <4>3. {u} \cup {v} = {u, v}
        OBVIOUS
      <4> QED
        BY <4>1, <4>2, <4>3
    <3>6. /\ Cardinality({u, v}) <= Cardinality(InsideOf(p))
          /\ Cardinality(InsideOf(p)) \in Nat
      BY <3>3, <3>4, FS_Subset, FS_CardinalityType
    <3>7. ticket[t].count = Cardinality(InsideOf(p))
      BY <2>0, <2>1 DEF Counted
    <3> QED
      BY <3>2, <3>5, <3>6, <3>7
  <2>4. \A q \in Processes : ~Crash(q) /\ ~Exit(q)
    <3> SUFFICES ASSUME NEW q \in Processes, Died(q) PROVE FALSE
      BY DEF Crash, Exit
    <3>1. q # p => held'[p] = held[p]
      BY <2>0, <2>1, DiedFields
    <3>2. q = p => user'[u].pc = "idle"
      BY <2>0, <2>1, DiedFields
    <3> QED
      BY <1>1, <2>1, <3>1, <3>2
  <2>5. UNCHANGED held \/ UNCHANGED user
    BY <1>1, <2>2, <2>3, <2>4
    DEF Next, Acquire, Contend, WritePayload, CreateFails, Read, Reclaim, Reclaimed,
        GiveUp, StartClean, CleanRead, CleanRemove, Open, RemoveFile, GrowOld, Watchdog,
        Signal
  <2> QED
    BY <1>1, <2>1, <2>5
<1>2. IInv /\ [Next]_vars =>
        [~stolen => \A u \in Users :
            Inside(u) /\ ~Inside(u)' => user'[u] # user[u] \/ user' = user]_vars
  BY <1>1 DEF vars
<1> QED
  BY <1>2, Invariance, PTL DEF Spec, OnlyOwnReleaseEnds
=============================================================================
