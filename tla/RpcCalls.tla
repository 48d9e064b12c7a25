------------------------------- MODULE RpcCalls -----------------------------
(***************************************************************************)
(* The RPC manager, internal/rpc/manager.go: HTTP handlers run Call, the   *)
(* readPump goroutines of the agent connections run HandleResponse, and a  *)
(* ticker runs CleanupExpired.  They meet in the pending table, which a    *)
(* lock protects, and in each request's response channel and context,      *)
(* which nothing protects together.  A step is what a goroutine does       *)
(* between two accesses to one of the three.                               *)
(***************************************************************************)
EXTENDS Naturals, FiniteSets

CONSTANTS
    Req,        \* the calls, each with a fresh request id
    Device,     \* the devices they go to
    DeviceOf,   \* the device of each call
    Pump,       \* the readPump goroutines of authenticated agent connections
    NoReq       \* a readPump that handles no response

ASSUME NoReqAssumption == NoReq \notin Req
ASSUME CallDeviceAssumption == DeviceOf \in [Req -> Device]

VARIABLES
    pc,          \* what the goroutine of the call does next
    pending,     \* Manager.pending
    responseCh,  \* PendingRequest.ResponseCh, a channel of capacity 1
    ctx,         \* the call's context: "live", or its Err()
    due,         \* the calls whose timeout is over
    left,        \* the calls whose own caller cancelled the context
    sent,        \* the calls whose message was queued for the agent
    outcome,     \* what Call returned, or how it ended
    hpc,         \* what a readPump does next
    hreq,        \* HandleResponse: the request it took from the table
    hreply,      \* HandleResponse: the response it is to deliver
    withdrawn,   \* the calls CancelRequest took from the table
    connected,   \* the devices with a connection in ws.Manager.connections
    frozen       \* ws.Manager.mu is held for ever

vars == <<pc, pending, responseCh, ctx, due, left, sent, outcome, hpc, hreq,
          hreply, withdrawn, connected, frozen>>

Message == {"result", "error"}      \* an agent answers with the one or other
\* A Response has Success set, or not and then Error set, or neither.
Response == {"success", "explainedFailure", "failure"}
NoResponse == "none"
Failure == {"deviceOffline", "notConnected", "bufferFull", "panic", "timeout",
            "cancelled"}
Waiting == {"select", "parked", "ctxDone"}

TypeOK ==
    /\ pc \in [Req -> {"idle", "send", "push", "sendFailed", "done"} \cup Waiting]
    /\ pending \in SUBSET Req
    /\ responseCh \in [Req -> Response \cup {NoResponse}]
    /\ ctx \in [Req -> {"live", "deadline", "canceled"}]
    /\ due \in SUBSET Req
    /\ left \in SUBSET Req
    /\ sent \in SUBSET Req
    /\ outcome \in [Req -> Response \cup {NoResponse} \cup Failure]
    /\ hpc \in [Pump -> {"read", "deliver", "cancel"}]
    /\ hreq \in [Pump -> Req \cup {NoReq}]
    /\ hreply \in [Pump -> Response \cup {NoResponse}]
    /\ withdrawn \in SUBSET Req
    /\ connected \in SUBSET Device
    /\ frozen \in BOOLEAN

Init ==
    /\ pc = [r \in Req |-> "idle"]
    /\ pending = {}
    /\ responseCh = [r \in Req |-> NoResponse]
    /\ ctx = [r \in Req |-> "live"]
    /\ due = {} /\ left = {} /\ sent = {}
    /\ outcome = [r \in Req |-> NoResponse]
    /\ hpc = [p \in Pump |-> "read"]
    /\ hreq = [p \in Pump |-> NoReq]
    /\ hreply = [p \in Pump |-> NoResponse]
    /\ withdrawn = {}
    /\ connected = {}
    /\ frozen = FALSE

-----------------------------------------------------------------------------
\* Mutant of Convert: the message is passed on as it is.
ConvertNot(message) == message

\* HandleResponse's conversion of the map a readPump builds: "success" and
\* "payload" are copied, "error" is not.
Convert(message) == IF message = "result" THEN "success" ELSE "failure"

\* The contexts of the calls in R are done with error err.  A context has one
\* error, the first; a call that is parked in its select wakes up for it.
Done(R, err) ==
    /\ ctx' = [r \in Req |-> IF r \in R /\ ctx[r] = "live" THEN err ELSE ctx[r]]
    /\ pc' = [r \in Req |-> IF r \in R /\ pc[r] = "parked" THEN "ctxDone"
                                                           ELSE pc[r]]

Return(r, result) ==
    /\ pc' = [pc EXCEPT ![r] = "done"]
    /\ outcome' = [outcome EXCEPT ![r] = result]

-----------------------------------------------------------------------------
(***************************************************************************)
(* Call.                                                                   *)
(***************************************************************************)
\* The request is entered into the pending table.
CallStart(r) ==
    /\ pc[r] = "idle"
    /\ pc' = [pc EXCEPT ![r] = "send"]
    /\ pending' = pending \cup {r}
    /\ UNCHANGED <<responseCh, ctx, due, left, sent, outcome, hpc, hreq, hreply,
                   withdrawn, connected, frozen>>

\* sendToDevice looks the connection up, under ws.Manager.mu, which it may
\* wait for in vain: it is not in Call's select, no timeout ends the wait.
SendLookup(r) ==
    /\ pc[r] = "send" /\ ~frozen
    /\ IF DeviceOf[r] \in connected
         THEN /\ pc' = [pc EXCEPT ![r] = "push"]
              /\ UNCHANGED outcome
         ELSE /\ pc' = [pc EXCEPT ![r] = "sendFailed"]
              /\ outcome' = [outcome EXCEPT ![r] = "notConnected"]
    /\ UNCHANGED <<pending, responseCh, ctx, due, left, sent, hpc, hreq, hreply,
                   withdrawn, connected, frozen>>

\* It sends to the connection's channel, which may be full or, when the
\* connection was closed since, closed: that send panics, the HTTP server
\* recovers, and Call is left with its entry in place.
SendPush(r) ==
    /\ pc[r] = "push"
    /\ \/ /\ pc' = [pc EXCEPT ![r] = "select"]
          /\ sent' = sent \cup {r}
          /\ UNCHANGED outcome
       \/ /\ pc' = [pc EXCEPT ![r] = "sendFailed"]
          /\ outcome' = [outcome EXCEPT ![r] = "bufferFull"]
          /\ UNCHANGED sent
       \/ /\ Return(r, "panic")
          /\ UNCHANGED sent
    /\ UNCHANGED <<pending, responseCh, ctx, due, left, hpc, hreq, hreply,
                   withdrawn, connected, frozen>>

\* Mutant of SendFailed: the entry is not deleted.
SendFailedLeaks(r) ==
    /\ pc[r] = "sendFailed"
    /\ pc' = [pc EXCEPT ![r] = "done"]
    /\ ctx' = [ctx EXCEPT ![r] = IF @ = "live" THEN "canceled" ELSE @]
    /\ UNCHANGED <<pending, responseCh, due, left, sent, outcome, hpc, hreq,
                   hreply, withdrawn, connected, frozen>>

\* The error return: the entry is deleted and the context cancelled.
SendFailed(r) ==
    /\ pc[r] = "sendFailed"
    /\ pending' = pending \ {r}
    /\ pc' = [pc EXCEPT ![r] = "done"]
    /\ ctx' = [ctx EXCEPT ![r] = IF @ = "live" THEN "canceled" ELSE @]
    /\ UNCHANGED <<responseCh, due, left, sent, outcome, hpc, hreq, hreply,
                   withdrawn, connected, frozen>>

\* The select is entered with a response in the channel.
SelectResponse(r) ==
    /\ pc[r] = "select" /\ responseCh[r] # NoResponse
    /\ Return(r, responseCh[r])
    /\ responseCh' = [responseCh EXCEPT ![r] = NoResponse]
    /\ UNCHANGED <<pending, ctx, due, left, sent, hpc, hreq, hreply, withdrawn,
                   connected, frozen>>

\* The select is entered with the context done.  When a response is there too
\* the runtime chooses either branch.
SelectDone(r) ==
    /\ pc[r] = "select" /\ ctx[r] # "live"
    /\ pc' = [pc EXCEPT ![r] = "ctxDone"]
    /\ UNCHANGED <<pending, responseCh, ctx, due, left, sent, outcome, hpc, hreq,
                   hreply, withdrawn, connected, frozen>>

\* The select is entered with neither: the goroutine parks.
SelectPark(r) ==
    /\ pc[r] = "select" /\ responseCh[r] = NoResponse /\ ctx[r] = "live"
    /\ pc' = [pc EXCEPT ![r] = "parked"]
    /\ UNCHANGED <<pending, responseCh, ctx, due, left, sent, outcome, hpc, hreq,
                   hreply, withdrawn, connected, frozen>>

\* Mutant of CtxDone: the entry is not deleted.
CtxDoneLeaks(r) ==
    /\ pc[r] = "ctxDone"
    /\ Return(r, IF ctx[r] = "deadline" THEN "timeout" ELSE "cancelled")
    /\ UNCHANGED <<pending, responseCh, ctx, due, left, sent, hpc, hreq, hreply,
                   withdrawn, connected, frozen>>

\* The branch of ctx.Done().
CtxDone(r) ==
    /\ pc[r] = "ctxDone"
    /\ pending' = pending \ {r}
    /\ Return(r, IF ctx[r] = "deadline" THEN "timeout" ELSE "cancelled")
    /\ UNCHANGED <<responseCh, ctx, due, left, sent, hpc, hreq, hreply,
                   withdrawn, connected, frozen>>

-----------------------------------------------------------------------------
(***************************************************************************)
(* HandleResponse, in the readPump of a connection.  An agent answers only *)
(* what it was sent, but as often and as late as it likes; a request that  *)
(* is not pending is refused, which changes nothing here.                  *)
(***************************************************************************)
\* Mutant of HandleTake: the entry is read and stays.
HandlePeek(p, r, message) ==
    /\ hpc[p] = "read" /\ r \in sent /\ r \in pending
    /\ hreq' = [hreq EXCEPT ![p] = r]
    /\ hreply' = [hreply EXCEPT ![p] = Convert(message)]
    /\ hpc' = [hpc EXCEPT ![p] = "deliver"]
    /\ UNCHANGED <<pc, pending, responseCh, ctx, due, left, sent, outcome,
                   withdrawn, connected, frozen>>

HandleTake(p, r, message) ==
    /\ hpc[p] = "read" /\ r \in sent /\ r \in pending
    /\ pending' = pending \ {r}
    /\ hreq' = [hreq EXCEPT ![p] = r]
    /\ hreply' = [hreply EXCEPT ![p] = Convert(message)]
    /\ hpc' = [hpc EXCEPT ![p] = "deliver"]
    /\ UNCHANGED <<pc, responseCh, ctx, due, left, sent, outcome, withdrawn,
                   connected, frozen>>

\* The caller is parked: it gets the response and is out of its select.
HandOver(p) ==
    LET r == hreq[p]
    IN  /\ hpc[p] = "deliver" /\ pc[r] = "parked"
        /\ Return(r, hreply[p])
        /\ hpc' = [hpc EXCEPT ![p] = "cancel"]
        /\ UNCHANGED <<pending, responseCh, ctx, due, left, sent, hreq, hreply,
                       withdrawn, connected, frozen>>

\* It is not: the response goes into the channel, if there is room.
HandleSend(p) ==
    LET r == hreq[p]
    IN  /\ hpc[p] = "deliver" /\ pc[r] # "parked"
        /\ IF responseCh[r] = NoResponse
             THEN /\ responseCh' = [responseCh EXCEPT ![r] = hreply[p]]
                  /\ hpc' = [hpc EXCEPT ![p] = "cancel"]
                  /\ UNCHANGED <<hreq, hreply>>
             ELSE /\ hpc' = [hpc EXCEPT ![p] = "read"]
                  /\ hreq' = [hreq EXCEPT ![p] = NoReq]
                  /\ hreply' = [hreply EXCEPT ![p] = NoResponse]
                  /\ UNCHANGED responseCh
        /\ UNCHANGED <<pc, pending, ctx, due, left, sent, outcome, withdrawn,
                       connected, frozen>>

\* The context is cancelled to stop its timer.
HandleCancel(p) ==
    /\ hpc[p] = "cancel"
    /\ Done({hreq[p]}, "canceled")
    /\ hpc' = [hpc EXCEPT ![p] = "read"]
    /\ hreq' = [hreq EXCEPT ![p] = NoReq]
    /\ hreply' = [hreply EXCEPT ![p] = NoResponse]
    /\ UNCHANGED <<pending, responseCh, due, left, sent, outcome, withdrawn,
                   connected, frozen>>

-----------------------------------------------------------------------------
(***************************************************************************)
(* CancelRequest, CleanupExpired, and the context.                         *)
(***************************************************************************)
CancelTake(r) ==
    /\ r \in pending
    /\ pending' = pending \ {r}
    /\ withdrawn' = withdrawn \cup {r}
    /\ UNCHANGED <<pc, responseCh, ctx, due, left, sent, outcome, hpc, hreq,
                   hreply, connected, frozen>>

CancelFire(r) ==
    /\ r \in withdrawn /\ ctx[r] = "live"
    /\ Done({r}, "canceled")
    /\ UNCHANGED <<pending, responseCh, due, left, sent, outcome, hpc, hreq,
                   hreply, withdrawn, connected, frozen>>

\* Mutant of CleanupExpired: every pending call is taken for expired.
CleanupAll ==
    /\ pending # {}
    /\ pending' = {}
    /\ Done(pending, "canceled")
    /\ UNCHANGED <<responseCh, due, left, sent, outcome, hpc, hreq, hreply,
                   withdrawn, connected, frozen>>

CleanupExpired ==
    /\ pending \cap due # {}
    /\ pending' = pending \ due
    /\ Done(pending \cap due, "canceled")
    /\ UNCHANGED <<responseCh, due, left, sent, outcome, hpc, hreq, hreply,
                   withdrawn, connected, frozen>>

\* Time passes, up to the call's timeout.
Elapse(r) ==
    /\ pc[r] # "idle" /\ r \notin due
    /\ due' = due \cup {r}
    /\ UNCHANGED <<pc, pending, responseCh, ctx, left, sent, outcome, hpc, hreq,
                   hreply, withdrawn, connected, frozen>>

\* Mutant of TimerFires: the context is created without a timeout.
TimerMissing(r) == FALSE

\* The context's timer fires, at its deadline or later.
TimerFires(r) ==
    /\ r \in due /\ ctx[r] = "live"
    /\ Done({r}, "deadline")
    /\ UNCHANGED <<pending, responseCh, due, left, sent, outcome, hpc, hreq,
                   hreply, withdrawn, connected, frozen>>

\* The HTTP client goes away and with it the context Call was given.
ParentCancels(r) ==
    /\ pc[r] \notin {"idle", "done"} /\ ctx[r] = "live"
    /\ left' = left \cup {r}
    /\ Done({r}, "canceled")
    /\ UNCHANGED <<pending, responseCh, due, sent, outcome, hpc, hreq, hreply,
                   withdrawn, connected, frozen>>

\* The agent of d connects (TRUE) or its connection is removed, both under
\* ws.Manager.mu.
Connection(d, up) ==
    /\ ~frozen
    /\ up # (d \in connected)
    /\ connected' = IF up THEN connected \cup {d} ELSE connected \ {d}
    /\ UNCHANGED <<pc, pending, responseCh, ctx, due, left, sent, outcome, hpc,
                   hreq, hreply, withdrawn, frozen>>

\* A hello that replaces a connection keeps ws.Manager.mu for ever: what
\* FreezeIsTotal of AgentSessions shows of the code.
Freeze ==
    /\ ~frozen
    /\ frozen' = TRUE
    /\ UNCHANGED <<pc, pending, responseCh, ctx, due, left, sent, outcome, hpc,
                   hreq, hreply, withdrawn, connected>>

-----------------------------------------------------------------------------
Send(r) == SendLookup(r) \/ SendPush(r) \/ SendFailed(r)
Select(r) == SelectResponse(r) \/ SelectDone(r) \/ SelectPark(r) \/ CtxDone(r)
Call(r) == CallStart(r) \/ Send(r) \/ Select(r)

HandleResponse(p) ==
    \/ \E r \in Req, message \in Message : HandleTake(p, r, message)
    \/ HandOver(p) \/ HandleSend(p) \/ HandleCancel(p)

CancelRequest(r) == CancelTake(r) \/ CancelFire(r)
Context(r) == Elapse(r) \/ TimerFires(r) \/ ParentCancels(r)

Next ==
    \/ \E r \in Req : Call(r) \/ CancelRequest(r) \/ Context(r)
    \/ \E p \in Pump : HandleResponse(p)
    \/ CleanupExpired
    \/ \E d \in Device, up \in BOOLEAN : Connection(d, up)
    \/ Freeze

\* A started call runs, time passes and timers fire.  Neither the agent nor
\* the ticker nor the readPump owes the call anything.  After a freeze the
\* connection's mutex may stay with a close() that waits for the manager's,
\* and then the push never comes.
Fairness ==
    \A r \in Req : /\ WF_vars(SendLookup(r)) /\ WF_vars(~frozen /\ SendPush(r))
                   /\ WF_vars(SendFailed(r)) /\ WF_vars(Select(r))
                   /\ WF_vars(Elapse(r)) /\ WF_vars(TimerFires(r))

Spec == Init /\ [][Next]_vars
FairSpec == Spec /\ Fairness
=============================================================================
