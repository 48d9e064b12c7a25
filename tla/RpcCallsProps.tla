---------------------------- MODULE RpcCallsProps ----------------------------
(***************************************************************************)
(* The properties of the RPC manager.                                      *)
(***************************************************************************)
EXTENDS RpcCalls

\* The readPumps that took r from the table and have not delivered to it.
Delivering(r) == {p \in Pump : hpc[p] = "deliver" /\ hreq[p] = r}

\* The answers accepted for r: on their way, in the channel, or returned.
Accepted(r) ==
    {hreply[p] : p \in Delivering(r)} \cup ({responseCh[r], outcome[r]} \cap Response)

Answered(r) ==
    Delivering(r) # {} \/ responseCh[r] \in Response \/ outcome[r] \in Response

\* An accepted answer always finds room in the response channel: the error
\* branch "Response channel full or closed" (manager.go:265) is never taken,
\* however often the agent answers and over however many connections.
ChannelHasRoom == \A p \in Pump : hpc[p] = "deliver" => responseCh[hreq[p]] = NoResponse

\* A call that returned has no entry in the pending table, whoever removed it,
\* except when the send to the agent panicked (manager.go:113).
NothingLeaks ==
    \A r \in pending : pc[r] = "done" => outcome[r] = "panic"

\* ErrCancelled has a cause: the caller left, the request was withdrawn, its
\* timeout was over, or an answer was accepted for it.
CancelledHasCause ==
    \A r \in Req : outcome[r] = "cancelled" =>
        r \in left \cup withdrawn \cup due \/ Answered(r)

\* However its call ends, an answer finds room, nothing is left behind and a
\* cancellation has a cause.
CallSafety == ChannelHasRoom /\ NothingLeaks /\ CancelledHasCause

-----------------------------------------------------------------------------
(***************************************************************************)
(* The inductive invariant behind them.                                    *)
(***************************************************************************)
\* Only a call that runs, or one that panicked, is pending.
PendingInv ==
    \A r \in pending : pc[r] # "idle" /\ (pc[r] = "done" => outcome[r] = "panic")

\* A message that was sent belongs to a call that got past its sending.
SentInv ==
    \A r \in sent : pc[r] \in Waiting \cup {"done"} /\ outcome[r] # "panic"

\* A readPump owns the request it took: it was sent, is not pending, and is
\* answered exactly when the readPump has delivered.
HandlerInv ==
    \A p \in Pump : hpc[p] # "read" =>
        /\ hreq[p] \in sent /\ hreq[p] \notin pending
        /\ hpc[p] = "deliver" =>
              /\ hreply[p] \in Response
              /\ responseCh[hreq[p]] = NoResponse
              /\ outcome[hreq[p]] \notin Response
        /\ hpc[p] = "cancel" =>
              responseCh[hreq[p]] # NoResponse \/ outcome[hreq[p]] \in Response

\* No two readPumps own the same request.
OwnerInv ==
    \A p, q \in Pump :
        hpc[p] # "read" /\ hpc[q] # "read" /\ hreq[p] = hreq[q] => p = q

\* An answer is in the channel or returned, never both, and its request was
\* sent and is not pending.
AnswerInv ==
    \A r \in Req : responseCh[r] # NoResponse \/ outcome[r] \in Response =>
        /\ r \in sent /\ r \notin pending
        /\ responseCh[r] = NoResponse \/ outcome[r] \notin Response

OutcomeInv ==
    \A r \in Req :
        /\ outcome[r] # NoResponse => pc[r] \in {"sendFailed", "done"}
        /\ pc[r] = "sendFailed" => outcome[r] \in Failure
        /\ pc[r] = "ctxDone" => ctx[r] # "live"

Cause(r) == r \in left \cup withdrawn \cup due \/ Answered(r)
CauseInv ==
    \A r \in Req :
        \/ ctx[r] = "canceled" /\ pc[r] \notin {"sendFailed", "done"}
        \/ outcome[r] = "cancelled"
        => Cause(r)

CallInv ==
    /\ PendingInv /\ SentInv /\ HandlerInv /\ OwnerInv /\ AnswerInv
    /\ OutcomeInv /\ CauseInv

-----------------------------------------------------------------------------
CallPhase(r) == CASE pc[r] = "idle" -> "new"
                  [] pc[r] = "done" -> "ended"
                  [] OTHER -> "waiting"

Contract == INSTANCE CallContract WITH
    Answer <- Response,
    NoAnswer <- NoResponse,
    phase <- [r \in Req |-> CallPhase(r)],
    accepted <- [r \in Req |-> Accepted(r)],
    result <- [r \in Req |-> IF pc[r] = "done" THEN outcome[r] ELSE NoResponse]

\* Calls, agents that answer repeatedly, timers and cancellations together
\* keep the contract of a call: one end, at most one accepted answer, and the
\* caller gets that answer or none.
ContractKept == Contract!Contract

\* A call that has sent its message, or failed to, ends whatever the agent does
\* (manager.go:87).  One that is still sending is not under its timeout: it
\* ends as well, unless ws.Manager froze before it was done with its locks.
CallsEnd ==
    \A r \in Req :
        /\ pc[r] = "send" ~>
              pc[r] = "done" \/ (frozen /\ pc[r] \in {"send", "push"})
        /\ pc[r] \in Waiting \cup {"sendFailed"} ~> pc[r] = "done"

-----------------------------------------------------------------------------
\* "Send response BEFORE cancelling context to avoid race condition where
\* ctx.Done() wins the select race in Call()" (manager.go:256): a call whose
\* caller stays and whose timeout is not over does not end as cancelled.
ResponseWinsSelect ==
    \A r \in Req : outcome[r] = "cancelled" => r \in left \cup withdrawn \cup due
=============================================================================
