---------------------------- MODULE McpServerProps ----------------------------
(***************************************************************************)
(* What the MCP server guarantees about sessions and tools.                *)
(***************************************************************************)
EXTENDS McpServer

\* An id with a session has one whose channel is open, and what the clean-up
\* has removed and somebody still refers to is closed: the clean-up never
\* closes a channel twice (session.go:115), which would end the process, and
\* no stream is left on a session that nobody can reach.
ReachableIsOpen ==
    /\ \A i \in Id : table[i] # NoSession => table[i] \notin closed
    /\ \A i, j \in Id : table[i] = table[j] /\ i # j => table[i] = NoSession
    /\ \A s \in Session \ (closed \cup Unreferenced) : Known(s)

\* A request is without the session it was given only if it took longer than
\* the timeout (session.go:114): what it selects within it is not lost.
OutlivedOnly ==
    \A r \in Request : holds[r] # NoSession /\ ~Known(holds[r]) => held[r] > Timeout

\* All calls of one request go to one device, whatever other requests of its
\* session select meanwhile.
OneTarget == \A r \in Request : Cardinality(asked[r]) <= 1

\* A request whose body has come ends although its client may have left, its
\* upload may stand still and the agent's answers may be errors or never come,
\* unless it waits for a call after ws.Manager froze.
RequestsEnd ==
    \A r \in Request :
        pc[r] # "idle" ~>
            pc[r] \in {"idle", "body"} \/ (frozen /\ pc[r] \in Calling)

\* A session that is idle for longer than the timeout goes, or it is used, and
\* the streams of a session that is gone end.
SessionsEnd ==
    /\ \A i \in Id : i \in Expired ~> i \notin Expired
    /\ \A c \in Stream :
           reading[c] # NoSession /\ ~Known(reading[c]) ~> reading[c] = NoSession

\* Requests end, unused sessions go and streams follow them: an agent, an
\* upload or a device's directory tree that stays silent holds nothing for ever
\* (session.go:106, tools.go:679), and a client no more than the request whose
\* body it owes.
AllEnd == RequestsEnd /\ SessionsEnd

-----------------------------------------------------------------------------
Context ==
    INSTANCE SessionContext WITH
        Absent <- NoSession,
        context <- [i \in Id |-> IF table[i] = NoSession THEN NoSession
                                 ELSE chosen[table[i]]],
        age <- [i \in Id |-> IF table[i] = NoSession THEN 0 ELSE idle[i]]

\* Clients see contexts that last: the sessions implement SessionContext.
ImplementsContext == Context!Contexts
=============================================================================
