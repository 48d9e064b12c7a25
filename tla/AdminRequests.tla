---------------------------- MODULE AdminRequests ----------------------------
(***************************************************************************)
(* The requests of the admin page: admin/api.go behind the sessions of     *)
(* admin/session.go, auth.go and middleware.go, the concurrency limit of   *)
(* middleware/limiter.go, and the audit log of audit/logger.go, with the   *)
(* handlers of objects/api.go that write to it.                            *)
(*                                                                         *)
(* The RPC manager is its contract: a request begins a call, the agent's   *)
(* answer may be accepted, the call ends.  A request runs in a goroutine   *)
(* of its own; it meets others in the table of sessions, the channel of    *)
(* the limit and the channel of the audit log.  The function that wraps    *)
(* the handlers in the middlewares is not in the repository: the limit is  *)
(* taken to be outermost, as it guards the handlers of all pages.          *)
(***************************************************************************)
EXTENDS Naturals, Sequences, FiniteSets, CallContract

CONSTANTS
    NoSession,      \* a request without a cookie
    NoEntry,        \* an audit worker between two entries
    Life,           \* the life of a session, in ticks
    MaxConcurrent,  \* the requests that may run at a time
    QueueCap,       \* the capacity of the audit channel
    Crashes,        \* may the process be killed
    MaxFaults       \* how many INSERTs may fail in a behaviour

ASSUME AdminNamesAssumption == NoSession \notin Req /\ NoEntry \notin Req
ASSUME AdminAnswersAssumption ==
    /\ Answer = {"success", "failure"}
    /\ Failure = {"error"}
    /\ NoAnswer = "none"
ASSUME AdminBoundsAssumption ==
    /\ Life \in Nat /\ MaxConcurrent \in Nat \ {0} /\ QueueCap \in Nat \ {0}
    /\ Crashes \in BOOLEAN /\ MaxFaults \in Nat

VARIABLES
    kind,       \* what a request asks for
    cookie,     \* the session it names; a session is named for its login
    pc,         \* what it does next
    reply,      \* what its client was answered
    sessions,   \* SessionManager.sessions
    age,        \* the time since a session was created
    slots,      \* how many elements the limit's channel holds
    queue,      \* Logger.logChan; an entry is named for its request
    hand,       \* the entry the worker has received
    stored,     \* audit_logs
    missing,    \* the entries that will never be stored
    late,       \* the requests that came when their session was over
    ended,      \* the sessions that were logged out, or lost with the process
    faults, crashed

requestVars == <<kind, cookie, pc, reply, late>>
sessionVars == <<sessions, age, ended>>
auditVars == <<queue, hand, stored, missing>>
vars == <<contractVars, requestVars, sessionVars, slots, auditVars, faults, crashed>>

\* A login with the right or a wrong password, a logout, an RPC, a file's
\* deletion, and what objects/api.go does by itself: initialise an upload,
\* generate a token, delete an object.
Kind == {"login", "badLogin", "logout", "rpc", "delete", "local"}
Guarded == {"rpc", "delete", "local"}
Running == {"body", "login", "logout", "auth", "find", "call", "stuck", "work",
            "log"}
IsRunning(r) == pc[r] \in Running

TypeOK ==
    /\ kind \in [Req -> Kind \cup {"none"}]
    /\ cookie \in [Req -> Req \cup {NoSession}]
    /\ pc \in [Req -> {"new", "done", "cut"} \cup Running]
    /\ reply \in [Req -> {"none", "ok", "error"}]
    /\ sessions \in SUBSET Req
    /\ age \in [Req -> 0..Life + 1]
    /\ slots \in 0..MaxConcurrent
    /\ queue \in Seq(Req) /\ Len(queue) <= QueueCap
    /\ hand \in Req \cup {NoEntry}
    /\ stored \in Seq(Req)
    /\ missing \in SUBSET Req
    /\ late \in SUBSET Req
    /\ ended \in SUBSET Req
    /\ faults \in 0..MaxFaults
    /\ crashed \in BOOLEAN
    /\ phase \in [Req -> {"new", "waiting", "ended"}]
    /\ accepted \in [Req -> SUBSET Answer]
    /\ result \in [Req -> Answer \cup Failure \cup {NoAnswer}]

Init ==
    /\ ContractInit
    /\ kind = [r \in Req |-> "none"]
    /\ cookie = [r \in Req |-> NoSession]
    /\ pc = [r \in Req |-> "new"]
    /\ reply = [r \in Req |-> "none"]
    /\ sessions = {} /\ ended = {} /\ late = {}
    /\ age = [r \in Req |-> 0]
    /\ slots = 0
    /\ queue = <<>> /\ hand = NoEntry /\ stored = <<>> /\ missing = {}
    /\ faults = 0 /\ crashed = FALSE

-----------------------------------------------------------------------------
Goto(r, step) == pc' = [pc EXCEPT ![r] = step]

\* The cookies that have been given to clients.
Issued == {s \in Req : kind[s] = "login" /\ reply[s] = "ok"}
Created(s) == kind[s] = "login" /\ (pc[s] = "log" \/ reply[s] = "ok")
\* What a client may not use any more, told from outside.
Over(s) == s = NoSession \/ s \in ended \/ age[s] > Life

\* The handler returns, and the deferred function takes an element from the
\* limit's channel.
Return(r, answer) ==
    /\ Goto(r, "done")
    /\ reply' = [reply EXCEPT ![r] = answer]
    /\ slots' = slots - 1

\* Session ages are not told apart once they are expired.
Tick ==
    /\ age' = [s \in Req |-> IF Created(s) /\ age[s] <= Life THEN age[s] + 1 ELSE age[s]]
    /\ UNCHANGED <<contractVars, requestVars, sessions, ended, slots, auditVars,
                   faults, crashed>>

-----------------------------------------------------------------------------
(***************************************************************************)
(* ConcurrencyLimiter.Middleware, then the handler or AuthMiddleware.      *)
(***************************************************************************)
\* Requests are alike, and come in a fixed order.
Comes(r) == r = CHOOSE q \in Req : pc[q] = "new"

\* Mutant of Enter: the channel of the limit is not bounded.
EnterUnlimited(r, k, c) ==
    /\ pc[r] = "new" /\ Comes(r)
    /\ k \in {"login", "badLogin"} => c = NoSession
    /\ slots' = slots + 1
    /\ kind' = [kind EXCEPT ![r] = k]
    /\ cookie' = [cookie EXCEPT ![r] = c]
    /\ late' = IF k \in Guarded /\ Over(c) THEN late \cup {r} ELSE late
    /\ Goto(r, IF k \in Guarded THEN "auth" ELSE IF k = "logout" THEN k ELSE "body")
    /\ UNCHANGED <<contractVars, reply, sessionVars, auditVars, faults, crashed>>

Enter(r, k, c) ==
    /\ pc[r] = "new" /\ Comes(r) /\ slots < MaxConcurrent
    /\ k \in {"login", "badLogin"} => c = NoSession
    /\ slots' = slots + 1
    /\ kind' = [kind EXCEPT ![r] = k]
    /\ cookie' = [cookie EXCEPT ![r] = c]
    /\ late' = IF k \in Guarded /\ Over(c) THEN late \cup {r} ELSE late
    /\ Goto(r, IF k \in Guarded THEN "auth" ELSE IF k = "logout" THEN k ELSE "body")
    /\ UNCHANGED <<contractVars, reply, sessionVars, auditVars, faults, crashed>>

\* There is no room.
Refuse(r) ==
    /\ pc[r] = "new" /\ Comes(r) /\ slots = MaxConcurrent
    /\ Goto(r, "done")
    /\ reply' = [reply EXCEPT ![r] = "error"]
    /\ UNCHANGED <<contractVars, kind, cookie, late, sessionVars, slots, auditVars,
                   faults, crashed>>

\* The body comes, at the client's pace, while the request has its place.
Body(r) ==
    /\ pc[r] = "body"
    /\ Goto(r, CASE kind[r] = "login"    -> "login"
                 [] kind[r] = "badLogin" -> "log"
                 [] kind[r] = "local"    -> "work"
                 [] OTHER                -> "find")
    /\ UNCHANGED <<contractVars, kind, cookie, late, reply, sessionVars, slots, auditVars,
                   faults, crashed>>

\* The method is wrong, the client leaves, or it sends something else.
BadRequest(r) ==
    /\ pc[r] \in {"body", "logout"}
    /\ Return(r, "error")
    /\ UNCHANGED <<contractVars, kind, cookie, late, sessionVars, auditVars,
                   faults, crashed>>

\* Mutant of Authorize: the middleware returns before the release is deferred.
AuthorizeUnreleased(r) ==
    /\ pc[r] = "auth"
    /\ IF cookie[r] \in sessions /\ age[cookie[r]] <= Life
         THEN /\ Goto(r, "body")
              /\ UNCHANGED reply
         ELSE Goto(r, "done") /\ reply' = [reply EXCEPT ![r] = "error"]
    /\ UNCHANGED <<contractVars, kind, cookie, late, sessionVars, slots, auditVars,
                   faults, crashed>>

\* AuthMiddleware and Validate, which does not rely on the clean-up.
Authorize(r) ==
    /\ pc[r] = "auth"
    /\ IF cookie[r] \in sessions /\ age[cookie[r]] <= Life
         THEN /\ Goto(r, "body")
              /\ UNCHANGED <<reply, slots>>
         ELSE Return(r, "error")
    /\ UNCHANGED <<contractVars, kind, cookie, late, sessionVars, auditVars, faults, crashed>>

-----------------------------------------------------------------------------
(***************************************************************************)
(* Sessions.                                                               *)
(***************************************************************************)
\* HandleLogin with the right password: CreateSession, which may fail.
Login(r) ==
    /\ pc[r] = "login"
    /\ \/ /\ sessions' = sessions \cup {r}
          /\ age' = [age EXCEPT ![r] = 0]
          /\ Goto(r, "log")
          /\ UNCHANGED <<reply, slots>>
       \/ Return(r, "error") /\ UNCHANGED <<sessions, age>>
    /\ UNCHANGED <<contractVars, kind, cookie, late, ended, auditVars, faults, crashed>>

\* Mutant of Logout: the cookie is cleared, the session stays.
LogoutCookieOnly(r) ==
    /\ pc[r] = "logout"
    /\ ended' = ended \cup ({cookie[r]} \ {NoSession})
    /\ Return(r, "ok")
    /\ UNCHANGED <<contractVars, kind, cookie, late, sessions, age, auditVars, faults, crashed>>

\* HandleLogout.
Logout(r) ==
    /\ pc[r] = "logout"
    /\ sessions' = sessions \ {cookie[r]}
    /\ ended' = ended \cup ({cookie[r]} \ {NoSession})
    /\ Return(r, "ok")
    /\ UNCHANGED <<contractVars, kind, cookie, late, age, auditVars, faults, crashed>>

\* A round of cleanupExpiredSessions.
SessionSweep ==
    /\ \E s \in sessions : age[s] > Life
    /\ sessions' = {s \in sessions : age[s] <= Life}
    /\ UNCHANGED <<contractVars, requestVars, age, ended, slots, auditVars, faults, crashed>>

-----------------------------------------------------------------------------
(***************************************************************************)
(* HandleDeviceRPC, HandleDeleteFile, and the handlers of objects/api.go.  *)
(***************************************************************************)
\* The registry finds the device online and the RPC is begun, or not.
\* HandleDeviceRPC asks it before it reads the body, HandleDeleteFile after.
Find(r) ==
    /\ pc[r] = "find"
    /\ \/ Begin(r) /\ Goto(r, "call") /\ UNCHANGED <<reply, slots>>
       \/ Return(r, "error") /\ UNCHANGED contractVars
    /\ UNCHANGED <<kind, cookie, late, sessionVars, auditVars, faults, crashed>>

\* The call has sent nothing yet and waits for ws.Manager.mu, which a hello that
\* replaces a connection keeps until the process ends: what FreezeIsTotal of
\* AgentSessions shows of the code, and CallsEnd of RpcCalls of the call.
CallHangs(r) ==
    /\ pc[r] = "call" /\ accepted[r] = {}
    /\ Goto(r, "stuck")
    /\ UNCHANGED <<contractVars, kind, cookie, late, reply, sessionVars, slots, auditVars,
                   faults, crashed>>

\* The agent's doing.
AgentAnswers(r, a) ==
    /\ pc[r] = "call" /\ Accept(r, a)
    /\ UNCHANGED <<requestVars, sessionVars, slots, auditVars, faults, crashed>>

\* Mutant of CallReturns: Success is not looked at.
CallReturnsUnread(r) ==
    /\ pc[r] = "call" /\ End(r)
    /\ IF result'[r] \in Answer
         THEN Goto(r, "log") /\ UNCHANGED <<reply, slots>>
         ELSE Return(r, "error")
    /\ UNCHANGED <<kind, cookie, late, sessionVars, auditVars, faults, crashed>>

\* Mutant of CallReturns: the handler of RPCs returns with its reply.
CallReturnsUnlogged(r) ==
    /\ pc[r] = "call" /\ End(r)
    /\ IF result'[r] = "success" /\ kind[r] = "delete"
         THEN Goto(r, "log") /\ UNCHANGED <<reply, slots>>
         ELSE Return(r, IF result'[r] = "success" THEN "ok" ELSE "error")
    /\ UNCHANGED <<kind, cookie, late, sessionVars, auditVars, faults, crashed>>

\* Mutant of CallReturns: the call has no timeout.
CallReturnsAnswered(r) ==
    /\ pc[r] = "call" /\ accepted[r] # {} /\ End(r)
    /\ IF result'[r] = "success"
         THEN Goto(r, "log") /\ UNCHANGED <<reply, slots>>
         ELSE Return(r, "error")
    /\ UNCHANGED <<kind, cookie, late, sessionVars, auditVars, faults, crashed>>

\* An error, or the answer.  HandleDeviceRPC writes its reply before it logs,
\* HandleDeleteFile after; failures are not logged.
CallReturns(r) ==
    /\ pc[r] = "call" /\ End(r)
    /\ IF result'[r] = "success"
         THEN /\ Goto(r, "log")
              /\ reply' = IF kind[r] = "rpc" THEN [reply EXCEPT ![r] = "ok"] ELSE reply
              /\ UNCHANGED slots
         ELSE Return(r, "error")
    /\ UNCHANGED <<kind, cookie, late, sessionVars, auditVars, faults, crashed>>

\* The work in the storage and the token table, which has modules of its own.
LocalWork(r) ==
    /\ pc[r] = "work"
    /\ \/ Goto(r, "log") /\ UNCHANGED <<reply, slots>>
       \/ Return(r, "error")
    /\ UNCHANGED <<contractVars, kind, cookie, late, sessionVars, auditVars, faults, crashed>>

-----------------------------------------------------------------------------
(***************************************************************************)
(* The audit log.                                                          *)
(***************************************************************************)
\* Logger.Log, which does not wait, and the rest of the handler.
Log(r) ==
    /\ pc[r] = "log"
    /\ IF Len(queue) < QueueCap
         THEN queue' = Append(queue, r) /\ UNCHANGED missing
         ELSE missing' = missing \cup {r} /\ UNCHANGED queue
    /\ Return(r, IF kind[r] = "badLogin" THEN "error" ELSE "ok")
    /\ UNCHANGED <<contractVars, kind, cookie, late, sessionVars, hand, stored, faults, crashed>>

WorkerTake ==
    /\ hand = NoEntry /\ queue # <<>>
    /\ hand' = Head(queue)
    /\ queue' = Tail(queue)
    /\ UNCHANGED <<contractVars, requestVars, sessionVars, slots, stored, missing,
                   faults, crashed>>

\* Mutant of WorkerInsert: an entry is tried again although it may be stored.
WorkerInsertAgain ==
    /\ hand # NoEntry
    /\ stored' = Append(stored, hand)
    /\ \/ hand' = NoEntry /\ UNCHANGED faults
       \/ faults < MaxFaults /\ faults' = faults + 1 /\ UNCHANGED hand
    /\ UNCHANGED <<contractVars, requestVars, sessionVars, slots, queue, missing, crashed>>

\* Mutant of WorkerInsert: the worker returns at the first error.
WorkerInsertReturns ==
    /\ hand # NoEntry /\ faults = 0
    /\ \/ stored' = Append(stored, hand) /\ hand' = NoEntry /\ UNCHANGED faults
       \/ MaxFaults > 0 /\ faults' = 1 /\ UNCHANGED <<stored, hand>>
    /\ UNCHANGED <<contractVars, requestVars, sessionVars, slots, queue, missing, crashed>>

\* The entry is dated here, not where it was logged.  An error is logged.
WorkerInsert ==
    /\ hand # NoEntry
    /\ \/ stored' = Append(stored, hand) /\ UNCHANGED <<missing, faults>>
       \/ /\ faults < MaxFaults /\ faults' = faults + 1
          /\ missing' = missing \cup {hand}
          /\ UNCHANGED stored
    /\ hand' = NoEntry
    /\ UNCHANGED <<contractVars, requestVars, sessionVars, slots, queue, crashed>>

-----------------------------------------------------------------------------
\* The process is killed and started again: only the table is left.
Crash ==
    /\ Crashes /\ ~crashed
    /\ crashed' = TRUE
    /\ pc' = [r \in Req |-> IF IsRunning(r) THEN "cut" ELSE pc[r]]
    /\ sessions' = {}
    /\ ended' = ended \cup sessions
    /\ slots' = 0
    /\ queue' = <<>> /\ hand' = NoEntry
    /\ missing' = missing \cup {queue[i] : i \in 1..Len(queue)} \cup ({hand} \ {NoEntry})
    /\ UNCHANGED <<contractVars, kind, cookie, late, reply, age, stored, faults>>

\* What a handler does by itself, or when the RPC it waits for has ended.
Handler(r) ==
    \/ Authorize(r) \/ Login(r) \/ Logout(r) \/ Find(r) \/ CallReturns(r)
    \/ LocalWork(r) \/ Log(r)
Worker == WorkerTake \/ WorkerInsert

Next ==
    \/ Tick \/ SessionSweep \/ Worker \/ Crash
    \/ \E r \in Req :
        \/ Handler(r) \/ Refuse(r) \/ Body(r) \/ BadRequest(r) \/ CallHangs(r)
        \/ \E k \in Kind, c \in Issued \cup {NoSession} : Enter(r, k, c)
        \/ \E a \in Answer : AgentAnswers(r, a)

Spec == Init /\ [][Next]_vars

\* Handlers and the worker go on, and a call ends, by its timeout at the
\* latest, if it does not hang.  Clients owe nothing, not even the body of a
\* request that has its place, and neither do agents.
FairSpec == Spec /\ WF_vars(Worker) /\ \A r \in Req : WF_vars(Handler(r))
=============================================================================
