-------------------------- MODULE AdminRequestsProps --------------------------
(***************************************************************************)
(* What the admin API guarantees about sessions, the limit and the audit   *)
(* log.                                                                    *)
(***************************************************************************)
EXTENDS AdminRequests

IsStored(r) == \E i \in 1..Len(stored) : stored[i] = r
Entries == {queue[i] : i \in 1..Len(queue)} \cup {r \in Req : IsStored(r)}
           \cup ({hand} \ {NoEntry})

\* The limit's channel holds an element for each request that runs and no
\* other (limiter.go:28), whatever way requests end: slots do not leak, and a
\* request is refused only when MaxConcurrent run.
SlotsAreHeld == slots = Cardinality({r \in Req : IsRunning(r)})

\* A request that comes with a session that was logged out, has expired or was
\* lost with the process (middleware.go:23) reaches neither an agent nor the
\* storage, whether or not the clean-up has run.  One that came before may go
\* on after the logout.
OutIsOut ==
    \A r \in late : pc[r] \in {"auth", "done", "cut"} /\ phase[r] = "new"

\* The audit log says of a call that it succeeded (api.go:261, api.go:344) only
\* if the agent said so and the caller had a session.  It does not say all: a
\* deletion whose answer comes too late is done and not logged.
AuditIsTruthful ==
    \A r \in Entries :
        kind[r] \in {"rpc", "delete"} => r \notin late /\ accepted[r] = {"success"}

\* What a client was told to be done is logged, waits to be, or is counted
\* among the entries that were dropped (logger.go:77), failed or lost in a
\* crash.  A logout is not logged, and the answer to an RPC is written before
\* its entry (api.go:258): a crash between the two leaves it without a trace.
AnsweredIsAudited ==
    \A r \in Req : reply[r] = "ok" /\ kind[r] # "logout" =>
        \/ r \in Entries \cup missing
        \/ kind[r] = "rpc" /\ pc[r] \in {"log", "cut"}

\* A request whose body has come ends although agents may be silent, whatever
\* the audit log does, unless its call hangs on a frozen ws.Manager; and an
\* entry that was logged is stored or lost in the end, because the worker
\* outlives its errors (logger.go:55).
AllSettles ==
    \A r \in Req :
        /\ IsRunning(r) ~> ~IsRunning(r) \/ pc[r] \in {"body", "stuck"}
        /\ r \in Entries ~> r \in missing \/ IsStored(r)

-----------------------------------------------------------------------------
Audit ==
    INSTANCE AuditTrail WITH
        Entry <- Req,
        trail <- stored \o (IF hand = NoEntry THEN <<>> ELSE <<hand>>) \o queue,
        written <- Len(stored)

\* Logger and its worker implement the abstract log.
ImplementsTrail == Audit!Trail
=============================================================================
