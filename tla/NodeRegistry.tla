---------------------------- MODULE NodeRegistry ----------------------------
(***************************************************************************)
(* The gateway's registry of connected nodes (src/gateway/node-registry.ts)*)
(* and the invokes that wait for an answer of a node.                      *)
(*                                                                         *)
(* A node may open a new connection before the gateway has handled the     *)
(* close of its old one.  Messages travel on one connection; what is on    *)
(* the way when the connection breaks is lost.                             *)
(***************************************************************************)
EXTENDS Naturals, FiniteSets

CONSTANTS
    Nodes,
    Conns,
    NodeOf,     \* the node that opens each connection
    Invokes,
    None

ASSUME RegistryAssumption == NodeOf \in [Conns -> Nodes] /\ None \notin Conns

VARIABLES
    conn,           \* each connection: see ConnStates
    nodesById,      \* the connection of each node's session
    nodesByConn,    \* the connections with an entry
    invoke,         \* each invoke: [pc, node]; the waiting ones are pendingInvokes
    requests,       \* <<invoke, connection>> on the way to a node
    results         \* <<invoke, connection>> on the way back

registryVars == <<conn, nodesById, nodesByConn, invoke, requests, results>>

\* In its handshake a connection is "new", or "early" once its close has been
\* handled; registered it is "up", "down" when it broke and the gateway has not
\* noticed, then "closed"; an early one that registers is a "ghost".
ConnStates == {"new", "early", "up", "down", "closed", "ghost"}

Settled == {"answered", "timeout", "disconnected", "unavailable", "refused"}

RegistryTypeOK ==
    /\ conn \in [Conns -> ConnStates]
    /\ nodesById \in [Nodes -> Conns \cup {None}]
    /\ nodesByConn \subseteq Conns
    /\ invoke \in [Invokes -> [pc : {"idle", "waiting"} \cup Settled, node : Nodes \cup {None}]]
    /\ requests \subseteq Invokes \X Conns
    /\ results \subseteq Invokes \X Conns

-----------------------------------------------------------------------------
\* The close handler runs once.  During the awaits of the handshake it knows no
\* client yet, and finds nothing to unregister.
CloseEarly(c) ==
    /\ conn[c] = "new"
    /\ conn' = [conn EXCEPT ![c] = "early"]
    /\ UNCHANGED <<nodesById, nodesByConn, invoke, requests, results>>

\* register, at the end of the handshake of a connection, which is not asked
\* again whether it was closed meanwhile
Register(c) ==
    /\ conn[c] \in {"new", "early"}
    /\ conn' = [conn EXCEPT ![c] = IF @ = "new" THEN "up" ELSE "ghost"]
    /\ nodesById' = [nodesById EXCEPT ![NodeOf[c]] = c]
    /\ nodesByConn' = nodesByConn \cup {c}
    /\ UNCHANGED <<invoke, requests, results>>

\* The connection breaks, and all that is on it is lost.
Break(c) ==
    /\ conn[c] = "up"
    /\ conn' = [conn EXCEPT ![c] = "down"]
    /\ requests' = {m \in requests : m[2] # c}
    /\ results' = {m \in results : m[2] # c}
    /\ UNCHANGED <<nodesById, nodesByConn, invoke>>

\* Mutant: the invokes of the node are left to their timers.
UnregisterKeepsInvokes(c) ==
    /\ c \in nodesByConn
    /\ nodesByConn' = nodesByConn \ {c}
    /\ nodesById' = [nodesById EXCEPT ![NodeOf[c]] = None]
    /\ UNCHANGED invoke

\* unregister: whatever session the node has now goes, and all its invokes
\* are rejected.
Unregister(c) ==
    /\ c \in nodesByConn
    /\ nodesByConn' = nodesByConn \ {c}
    /\ nodesById' = [nodesById EXCEPT ![NodeOf[c]] = None]
    /\ invoke' = [i \in Invokes |->
            IF invoke[i].pc = "waiting" /\ invoke[i].node = NodeOf[c]
            THEN [invoke[i] EXCEPT !.pc = "disconnected"] ELSE invoke[i]]

\* The close of a broken connection is handled, perhaps after the node's next
\* connection has registered.
Close(c) ==
    /\ conn[c] = "down"
    /\ conn' = [conn EXCEPT ![c] = "closed"]
    /\ Unregister(c)
    /\ UNCHANGED <<requests, results>>

-----------------------------------------------------------------------------
\* invoke for node n.  The socket takes a message for a connection that broke or
\* was closed without an error, and may refuse any message.
Invoke(i, n) ==
    LET c == nodesById[n]
        Became(pc) == invoke' = [invoke EXCEPT ![i] = [pc |-> pc, node |-> n]]
    IN  /\ invoke[i].pc = "idle"
        /\ \/ c = None /\ Became("unavailable") /\ UNCHANGED requests
           \/ c # None /\ Became("unavailable") /\ UNCHANGED requests
           \/ /\ c # None /\ Became("waiting")
              /\ requests' = IF conn[c] = "up" THEN requests \cup {<<i, c>>} ELSE requests
        /\ UNCHANGED <<conn, nodesById, nodesByConn, results>>

\* An invoke that ends before it reaches the registry.
Refuse(i, n) ==
    /\ invoke[i].pc = "idle"
    /\ invoke' = [invoke EXCEPT ![i] = [pc |-> "refused", node |-> n]]
    /\ UNCHANGED <<conn, nodesById, nodesByConn, requests, results>>

\* The timer of a pending invoke.
Timeout(i) ==
    /\ invoke[i].pc = "waiting"
    /\ invoke' = [invoke EXCEPT ![i].pc = "timeout"]
    /\ UNCHANGED <<conn, nodesById, nodesByConn, requests, results>>

\* handleInvokeResult: a result for an invoke that no longer waits, or waits
\* for another node, is ignored.
HandleInvokeResult(i, c) ==
    /\ <<i, c>> \in results
    /\ results' = results \ {<<i, c>>}
    /\ invoke' = IF invoke[i].pc = "waiting" /\ invoke[i].node = NodeOf[c]
                 THEN [invoke EXCEPT ![i].pc = "answered"] ELSE invoke
    /\ UNCHANGED <<conn, nodesById, nodesByConn, requests>>

\* The node takes a request and answers it on any connection it has then.
Serve(i, c, d) ==
    /\ <<i, c>> \in requests /\ conn[d] = "up" /\ NodeOf[d] = NodeOf[c]
    /\ requests' = requests \ {<<i, c>>}
    /\ results' = results \cup {<<i, d>>}
    /\ UNCHANGED <<conn, nodesById, nodesByConn, invoke>>

-----------------------------------------------------------------------------
RegistryInit ==
    /\ conn = [c \in Conns |-> "new"]
    /\ nodesById = [n \in Nodes |-> None]
    /\ nodesByConn = {}
    /\ invoke = [i \in Invokes |-> [pc |-> "idle", node |-> None]]
    /\ requests = {} /\ results = {}

\* The steps of the registry that no handler of the gateway takes.
RegistryNext ==
    \/ \E c \in Conns : CloseEarly(c) \/ Register(c) \/ Break(c) \/ Close(c)
    \/ \E i \in Invokes : Timeout(i)
    \/ \E i \in Invokes, c \in Conns : HandleInvokeResult(i, c)
    \/ \E i \in Invokes, c, d \in Conns : Serve(i, c, d)

-----------------------------------------------------------------------------
\* A session's connection is registered, and its close is still to come unless it
\* was handled before it registered; an invoke waits only for a node that has a
\* session.  The late close of an old connection, which takes the new session with
\* it, leaves nobody waiting for a session that is gone.
WaitingHasSession ==
    /\ \A n \in Nodes : nodesById[n] # None =>
          nodesById[n] \in nodesByConn /\ conn[nodesById[n]] \in {"up", "down", "ghost"}
    /\ \A i \in Invokes : invoke[i].pc = "waiting" => nodesById[invoke[i].node] # None

\* A session ends with its connection.  TLC refutes it: that of a connection closed
\* during its handshake stays, and takes the place of the node's live one.
SessionsAreOpen ==
    \A n \in Nodes : nodesById[n] # None => conn[nodesById[n]] \in {"up", "down"}
=============================================================================
