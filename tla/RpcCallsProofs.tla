---------------------------- MODULE RpcCallsProofs ---------------------------
(***************************************************************************)
(* Theorems about the RPC manager, for every set of calls, devices and     *)
(* connections.                                                            *)
(***************************************************************************)
EXTENDS RpcCallsProps, TLAPS

USE NoReqAssumption, CallDeviceAssumption

-----------------------------------------------------------------------------
(***************************************************************************)
(* Type correctness.                                                       *)
(***************************************************************************)
\* A step of Call keeps the types.
LEMMA CallTypeOK ==
    ASSUME TypeOK, NEW r \in Req, Call(r)
    PROVE  TypeOK'
<1> USE DEF TypeOK, Waiting, Response, NoResponse, Failure, Return
<1>1. CASE CallStart(r) BY <1>1 DEF CallStart
<1>2. CASE SendLookup(r) BY <1>2 DEF SendLookup
<1>3. CASE SendPush(r) BY <1>3 DEF SendPush
<1>4. CASE SendFailed(r) BY <1>4 DEF SendFailed
<1>5. CASE SelectResponse(r) BY <1>5 DEF SelectResponse
<1>6. CASE SelectDone(r) BY <1>6 DEF SelectDone
<1>7. CASE SelectPark(r) BY <1>7 DEF SelectPark
<1>8. CASE CtxDone(r) BY <1>8 DEF CtxDone
<1>. QED BY <1>1, <1>2, <1>3, <1>4, <1>5, <1>6, <1>7, <1>8
         DEF Call, Send, Select

\* A step of HandleResponse keeps the types.
LEMMA HandleTypeOK ==
    ASSUME TypeOK, NEW p \in Pump, HandleResponse(p)
    PROVE  TypeOK'
<1> USE DEF TypeOK, Waiting, Response, NoResponse, Failure
<1>1. ASSUME NEW r \in Req, NEW m \in Message, HandleTake(p, r, m)
      PROVE  TypeOK'
  BY <1>1 DEF HandleTake, Convert
<1>2. ASSUME HandOver(p), hreq[p] \in Req PROVE TypeOK'
  BY <1>2 DEF HandOver, Return
<1>3. CASE HandleSend(p)
  BY <1>3 DEF HandleSend
<1>4. CASE HandleCancel(p) BY <1>4 DEF HandleCancel, Done
<1>5. ASSUME HandOver(p), hreq[p] \notin Req PROVE TypeOK'
  <2>1. pc' = pc /\ outcome' = outcome
    BY <1>5 DEF HandOver, Return
  <2>. QED BY <1>5, <2>1 DEF HandOver
<1>. QED BY <1>1, <1>2, <1>3, <1>4, <1>5 DEF HandleResponse

\* So do the steps of everyone else.
LEMMA OtherTypeOK ==
    ASSUME TypeOK,
           \/ \E r \in Req : CancelRequest(r) \/ Context(r)
           \/ CleanupExpired
           \/ \E d \in Device, up \in BOOLEAN : Connection(d, up)
           \/ Freeze
    PROVE  TypeOK'
<1> USE DEF TypeOK, Waiting, Done
<1>1. ASSUME NEW r \in Req, CancelRequest(r) PROVE TypeOK'
  BY <1>1 DEF CancelRequest, CancelTake, CancelFire
<1>2. ASSUME NEW r \in Req, Context(r) PROVE TypeOK'
  BY <1>2 DEF Context, Elapse, TimerFires, ParentCancels
<1>3. CASE CleanupExpired BY <1>3 DEF CleanupExpired
<1>4. ASSUME NEW d \in Device, NEW up \in BOOLEAN, Connection(d, up)
      PROVE  TypeOK'
  BY <1>4 DEF Connection
<1>5. CASE Freeze BY <1>5 DEF Freeze
<1>. QED BY <1>1, <1>2, <1>3, <1>4, <1>5

\* Every variable of the RPC manager keeps its type.
THEOREM CallsTypeCorrect == Spec => []TypeOK
<1>0. Init => frozen \in BOOLEAN BY Zenon DEF Init
<1>1. Init => TypeOK
  BY <1>0 DEF Init, TypeOK, Waiting, Response, NoResponse, Failure
<1>2. TypeOK /\ [Next]_vars => TypeOK'
  <2>1. CASE UNCHANGED vars BY <2>1 DEF vars, TypeOK
  <2>2. CASE Next BY <2>2, CallTypeOK, HandleTypeOK, OtherTypeOK DEF Next
  <2>. QED BY <2>1, <2>2
<1>. QED BY <1>1, <1>2, PTL DEF Spec
-----------------------------------------------------------------------------
(***************************************************************************)
(* The inductive invariant.                                                *)
(***************************************************************************)
\* A step of Call keeps the invariant.
LEMMA CallKeepsInv ==
    ASSUME TypeOK, CallInv, NEW r \in Req, Call(r)
    PROVE  CallInv'
<1> USE DEF TypeOK, CallInv, Waiting, Response, NoResponse, Failure, Return,
            PendingInv, SentInv, HandlerInv, OwnerInv, AnswerInv, OutcomeInv
<1>1. CASE CallStart(r)
  <2>1. PendingInv' /\ SentInv' /\ HandlerInv'
    BY <1>1 DEF CallStart
  <2>2. OwnerInv' /\ AnswerInv' /\ OutcomeInv'
    BY <1>1 DEF CallStart
  <2>3. CauseInv'
    BY <1>1 DEF CallStart, CauseInv, Cause, Answered, Delivering
  <2>. QED BY <2>1, <2>2, <2>3
<1>2. CASE SendLookup(r)
  <2>1. PendingInv' /\ SentInv' /\ HandlerInv'
    BY <1>2 DEF SendLookup
  <2>2. OwnerInv' /\ AnswerInv' /\ OutcomeInv'
    BY <1>2 DEF SendLookup
  <2>3. CauseInv'
    BY <1>2 DEF SendLookup, CauseInv, Cause, Answered, Delivering
  <2>. QED BY <2>1, <2>2, <2>3
<1>3. CASE SendPush(r)
  <2>1. PendingInv' /\ SentInv' /\ HandlerInv'
    BY <1>3 DEF SendPush
  <2>2. OwnerInv' /\ AnswerInv' /\ OutcomeInv'
    BY <1>3 DEF SendPush
  <2>3. CauseInv'
    BY <1>3 DEF SendPush, CauseInv, Cause, Answered, Delivering
  <2>. QED BY <2>1, <2>2, <2>3
<1>4. CASE SendFailed(r)
  <2>1. PendingInv' /\ SentInv' /\ HandlerInv'
    BY <1>4 DEF SendFailed
  <2>2. OwnerInv' /\ AnswerInv' /\ OutcomeInv'
    BY <1>4 DEF SendFailed
  <2>3. CauseInv'
    BY <1>4 DEF SendFailed, CauseInv, Cause, Answered, Delivering
  <2>. QED BY <2>1, <2>2, <2>3
<1>5. CASE SelectResponse(r)
  <2>1. PendingInv' /\ SentInv' /\ HandlerInv'
    BY <1>5 DEF SelectResponse
  <2>2. OwnerInv' /\ AnswerInv' /\ OutcomeInv'
    BY <1>5 DEF SelectResponse
  <2>3. CauseInv'
    BY <1>5 DEF SelectResponse, CauseInv, Cause, Answered, Delivering
  <2>. QED BY <2>1, <2>2, <2>3
<1>6. CASE SelectDone(r)
  <2>1. PendingInv' /\ SentInv' /\ HandlerInv'
    BY <1>6 DEF SelectDone
  <2>2. OwnerInv' /\ AnswerInv' /\ OutcomeInv'
    BY <1>6 DEF SelectDone
  <2>3. CauseInv'
    BY <1>6 DEF SelectDone, CauseInv, Cause, Answered, Delivering
  <2>. QED BY <2>1, <2>2, <2>3
<1>7. CASE SelectPark(r)
  <2>1. PendingInv' /\ SentInv' /\ HandlerInv'
    BY <1>7 DEF SelectPark
  <2>2. OwnerInv' /\ AnswerInv' /\ OutcomeInv'
    BY <1>7 DEF SelectPark
  <2>3. CauseInv'
    BY <1>7 DEF SelectPark, CauseInv, Cause, Answered, Delivering
  <2>. QED BY <2>1, <2>2, <2>3
<1>8. CASE CtxDone(r)
  <2>1. PendingInv' /\ SentInv' /\ HandlerInv'
    BY <1>8 DEF CtxDone
  <2>2. OwnerInv' /\ AnswerInv' /\ OutcomeInv'
    BY <1>8 DEF CtxDone
  <2>3. CauseInv'
    BY <1>8 DEF CtxDone, CauseInv, Cause, Answered, Delivering
  <2>. QED BY <2>1, <2>2, <2>3
<1>. QED BY <1>1, <1>2, <1>3, <1>4, <1>5, <1>6, <1>7, <1>8
         DEF Call, Send, Select

\* A step of HandleResponse keeps the invariant.
LEMMA HandleKeepsInv ==
    ASSUME TypeOK, CallInv, NEW p \in Pump, HandleResponse(p)
    PROVE  CallInv'
<1> USE DEF TypeOK, CallInv, Waiting, Response, NoResponse, Failure, Return,
            PendingInv, SentInv, HandlerInv, OwnerInv, AnswerInv, OutcomeInv
<1>1. ASSUME NEW r \in Req, NEW m \in Message, HandleTake(p, r, m)
      PROVE  CallInv'
  <2>1. PendingInv' /\ SentInv' /\ HandlerInv'
    BY <1>1 DEF HandleTake, Convert
  <2>2. OwnerInv' /\ AnswerInv' /\ OutcomeInv'
    BY <1>1 DEF HandleTake, Convert
  <2>3. CauseInv'
    BY <1>1 DEF HandleTake, CauseInv, Cause, Answered, Delivering
  <2>. QED BY <2>1, <2>2, <2>3
<1>2. CASE HandOver(p)
  <2>1. PendingInv' /\ SentInv' /\ HandlerInv'
    BY <1>2 DEF HandOver
  <2>2. OwnerInv' /\ AnswerInv' /\ OutcomeInv'
    BY <1>2 DEF HandOver
  <2>3. CauseInv'
    BY <1>2 DEF HandOver, CauseInv, Cause, Answered, Delivering
  <2>. QED BY <2>1, <2>2, <2>3
<1>3. CASE HandleSend(p)
  <2>1. PendingInv' /\ SentInv' /\ HandlerInv'
    BY <1>3 DEF HandleSend
  <2>2. OwnerInv' /\ AnswerInv' /\ OutcomeInv'
    BY <1>3 DEF HandleSend
  <2>3. CauseInv'
    BY <1>3 DEF HandleSend, CauseInv, Cause, Answered, Delivering
  <2>. QED BY <2>1, <2>2, <2>3
<1>4. CASE HandleCancel(p)
  <2>1. PendingInv' /\ SentInv' /\ HandlerInv'
    BY <1>4 DEF HandleCancel, Done
  <2>2. OwnerInv' /\ AnswerInv' /\ OutcomeInv'
    BY <1>4 DEF HandleCancel, Done
  <2>3. CauseInv'
    BY <1>4 DEF HandleCancel, Done, CauseInv, Cause, Answered, Delivering
  <2>. QED BY <2>1, <2>2, <2>3
<1>. QED BY <1>1, <1>2, <1>3, <1>4 DEF HandleResponse

\* So do the steps of everyone else.
LEMMA OtherKeepsInv ==
    ASSUME TypeOK, CallInv,
           \/ \E r \in Req : CancelRequest(r) \/ Context(r)
           \/ CleanupExpired
           \/ \E d \in Device, up \in BOOLEAN : Connection(d, up)
           \/ Freeze
    PROVE  CallInv'
<1> USE DEF TypeOK, CallInv, Waiting, Response, NoResponse, Done,
            PendingInv, SentInv, HandlerInv, OwnerInv, AnswerInv, OutcomeInv,
            CauseInv, Cause, Answered, Delivering
<1>1. ASSUME NEW r \in Req, CancelTake(r) PROVE CallInv'
  BY <1>1 DEF CancelTake
<1>2. ASSUME NEW r \in Req, CancelFire(r) PROVE CallInv'
  BY <1>2 DEF CancelFire
<1>3. ASSUME NEW r \in Req, Elapse(r) PROVE CallInv'
  BY <1>3 DEF Elapse
<1>4. ASSUME NEW r \in Req, TimerFires(r) PROVE CallInv'
  BY <1>4 DEF TimerFires
<1>5. ASSUME NEW r \in Req, ParentCancels(r) PROVE CallInv'
  BY <1>5 DEF ParentCancels
<1>6. CASE CleanupExpired BY <1>6 DEF CleanupExpired
<1>7. ASSUME NEW d \in Device, NEW up \in BOOLEAN, Connection(d, up)
      PROVE  CallInv'
  BY <1>7 DEF Connection
<1>8. CASE Freeze BY <1>8 DEF Freeze
<1>. QED BY <1>1, <1>2, <1>3, <1>4, <1>5, <1>6, <1>7, <1>8
         DEF CancelRequest, Context

\* A step or a stutter keeps the invariant.
LEMMA NextKeepsInv == TypeOK /\ CallInv /\ [Next]_vars => CallInv'
<1> SUFFICES ASSUME TypeOK, CallInv, [Next]_vars PROVE CallInv'
  OBVIOUS
<1>1. CASE UNCHANGED vars
  BY <1>1 DEF vars, CallInv, PendingInv, SentInv, HandlerInv, OwnerInv,
              AnswerInv, OutcomeInv, CauseInv, Cause, Answered, Delivering
<1>2. CASE Next BY <1>2, CallKeepsInv, HandleKeepsInv, OtherKeepsInv DEF Next
<1>. QED BY <1>1, <1>2

\* The invariant that ties the pending table, the channels, the contexts and
\* the readPumps together holds in every reachable state.
THEOREM CallInvHolds == Spec => []CallInv
<1>1. Init => CallInv
  BY DEF Init, CallInv, PendingInv, SentInv, HandlerInv, OwnerInv, AnswerInv,
         OutcomeInv, CauseInv, Waiting, Response, NoResponse, Failure
<1>. QED BY <1>1, NextKeepsInv, CallsTypeCorrect, PTL DEF Spec

\* However often the agent answers, an accepted answer finds the response
\* channel empty, a call that returned is not in the pending table unless its
\* send panicked, and a call ends as cancelled for a reason.
THEOREM CallsAreSafe == Spec => []CallSafety
<1>1. CallInv => ChannelHasRoom BY DEF CallInv, HandlerInv, ChannelHasRoom
<1>2. CallInv => NothingLeaks BY DEF CallInv, PendingInv, NothingLeaks
<1>3. TypeOK /\ CallInv => CancelledHasCause
  BY DEF CallInv, CauseInv, Cause, CancelledHasCause
<1>4. TypeOK /\ CallInv => CallSafety BY <1>1, <1>2, <1>3 DEF CallSafety
<1>. QED BY <1>4, CallInvHolds, CallsTypeCorrect, PTL

-----------------------------------------------------------------------------
(***************************************************************************)
(* The contract of a call.                                                 *)
(***************************************************************************)
\* A step that leaves the phases, the results and the accepted answers alone
\* is a stutter of the contract.
LEMMA ContractStutter ==
    ASSUME \A x \in Req : CallPhase(x)' = CallPhase(x),
           \A x \in Req : Accepted(x)' = Accepted(x),
           \A x \in Req : pc'[x] = "done" <=> pc[x] = "done",
           \A x \in Req : pc[x] = "done" => outcome'[x] = outcome[x]
    PROVE  UNCHANGED Contract!contractVars
BY DEF Contract!contractVars

\* A step that ends call r with a failure or an accepted answer, and touches
\* nothing else the contract sees, is a step of the contract.
LEMMA ContractEnd ==
    ASSUME TypeOK, NEW r \in Req,
           pc[r] \notin {"idle", "done"}, pc' = [pc EXCEPT ![r] = "done"],
           \A x \in Req : Accepted(x)' = Accepted(x),
           \A x \in Req \ {r} : outcome'[x] = outcome[x],
           outcome'[r] \in Accepted(r) \cup Failure
    PROVE  Contract!End(r)
<1>1. CallPhase(r) = "waiting" /\ CallPhase(r)' = "ended"
  BY DEF CallPhase, TypeOK
<1>2. \A x \in Req \ {r} : CallPhase(x)' = CallPhase(x)
  BY DEF CallPhase, TypeOK
<1>3. pc'[r] = "done" /\ \A x \in Req \ {r} : pc'[x] = pc[x]
  BY DEF TypeOK
<1>4. [x \in Req |-> Accepted(x)]' = [x \in Req |-> Accepted(x)]
  OBVIOUS
<1>5. [x \in Req |-> CallPhase(x)]'
        = [[x \in Req |-> CallPhase(x)] EXCEPT ![r] = "ended"]
  BY <1>1, <1>2
<1>6. [x \in Req |-> IF pc[x] = "done" THEN outcome[x] ELSE NoResponse]'
        = [[x \in Req |-> IF pc[x] = "done" THEN outcome[x] ELSE NoResponse]
             EXCEPT ![r] = outcome'[r]]
  BY <1>3
<1>. QED BY <1>1, <1>4, <1>5, <1>6 DEF Contract!End

\* A step of Call.
LEMMA CallKeepsContract ==
    ASSUME TypeOK, CallInv, NEW r \in Req, Call(r)
    PROVE  Contract!ContractNext \/ UNCHANGED Contract!contractVars
<1> USE DEF TypeOK, Waiting, Response, NoResponse, Failure, Return, CallInv
<1>1. CASE CallStart(r)
  <2>1. \A x \in Req : Accepted(x)' = Accepted(x)
    BY <1>1 DEF CallStart, Accepted, Delivering
  <2>2. Contract!Begin(r)
    BY ZenonT(40), <1>1, <2>1 DEF CallStart, Contract!Begin, CallPhase
  <2>. QED BY <2>2 DEF Contract!ContractNext
<1>2. CASE SendLookup(r)
  <2>1. \A x \in Req : Accepted(x)' = Accepted(x)
    BY <1>2 DEF SendLookup, Accepted, Delivering, OutcomeInv
  <2>. QED BY <1>2, <2>1, ContractStutter DEF SendLookup, CallPhase
<1>3. CASE SendPush(r)
  <2>1. \A x \in Req : Accepted(x)' = Accepted(x)
    BY <1>3 DEF SendPush, Accepted, Delivering, OutcomeInv
  <2>2. CASE pc'[r] = "done"
    BY <1>3, <2>1, <2>2, ContractEnd DEF SendPush, Contract!ContractNext
  <2>3. CASE pc'[r] # "done"
    BY <1>3, <2>1, <2>3, ContractStutter DEF SendPush, CallPhase
  <2>. QED BY <2>2, <2>3
<1>4. CASE SendFailed(r)
  <2>1. \A x \in Req : Accepted(x)' = Accepted(x)
    BY <1>4 DEF SendFailed, Accepted, Delivering
  <2>. QED BY <1>4, <2>1, ContractEnd
           DEF SendFailed, OutcomeInv, Contract!ContractNext
<1>5. CASE SelectResponse(r)
  <2>1. responseCh[r] \in Accepted(r)
    BY <1>5 DEF SelectResponse, Accepted
  <2>2. \A x \in Req : Accepted(x)' = Accepted(x)
    BY <1>5 DEF SelectResponse, Accepted, Delivering, AnswerInv, OutcomeInv
  <2>. QED BY <1>5, <2>1, <2>2, ContractEnd
           DEF SelectResponse, Contract!ContractNext
<1>6. CASE SelectDone(r)
  <2>1. \A x \in Req : Accepted(x)' = Accepted(x)
    BY <1>6 DEF SelectDone, Accepted, Delivering
  <2>. QED BY <1>6, <2>1, ContractStutter DEF SelectDone, CallPhase
<1>7. CASE SelectPark(r)
  <2>1. \A x \in Req : Accepted(x)' = Accepted(x)
    BY <1>7 DEF SelectPark, Accepted, Delivering
  <2>. QED BY <1>7, <2>1, ContractStutter DEF SelectPark, CallPhase
<1>8. CASE CtxDone(r)
  <2>1. \A x \in Req : Accepted(x)' = Accepted(x)
    BY <1>8 DEF CtxDone, Accepted, Delivering, OutcomeInv
  <2>. QED BY <1>8, <2>1, ContractEnd DEF CtxDone, Contract!ContractNext
<1>. QED BY <1>1, <1>2, <1>3, <1>4, <1>5, <1>6, <1>7, <1>8
         DEF Call, Send, Select

\* A step of HandleResponse: taking a request accepts the answer, and handing
\* it to the parked caller ends the call.
LEMMA HandleKeepsContract ==
    ASSUME TypeOK, CallInv, NEW p \in Pump, HandleResponse(p)
    PROVE  Contract!ContractNext \/ UNCHANGED Contract!contractVars
<1> USE DEF TypeOK, Waiting, Response, NoResponse, Failure, CallInv
<1>1. ASSUME NEW r \in Req, NEW m \in Message, HandleTake(p, r, m)
      PROVE  Contract!ContractNext
  <2>1. Accepted(r) = {}
    BY <1>1 DEF HandleTake, Accepted, Delivering, HandlerInv, AnswerInv
  <2>2. Accepted(r)' = {Convert(m)}
    <3>1. Delivering(r)' = {p}
      BY <1>1 DEF HandleTake, Delivering, HandlerInv
    <3>2. responseCh'[r] \notin Response /\ outcome'[r] \notin Response
      BY <1>1 DEF HandleTake, AnswerInv
    <3>3. hreply'[p] = Convert(m)
      BY <1>1 DEF HandleTake
    <3>. QED BY <3>1, <3>2, <3>3 DEF Accepted
  <2>3. \A x \in Req \ {r} : Accepted(x)' = Accepted(x)
    BY <1>1 DEF HandleTake, Accepted, Delivering
  <2>4. Convert(m) \in Response
    BY DEF Convert
  <2>5. pc[r] \notin {"idle", "done"}
    BY <1>1 DEF HandleTake, PendingInv, SentInv
  <2>6. [x \in Req |-> Accepted(x)]'
          = [[x \in Req |-> Accepted(x)] EXCEPT ![r] = {Convert(m)}]
    BY <2>2, <2>3
  <2>7. pc' = pc /\ outcome' = outcome
    BY <1>1 DEF HandleTake
  <2>8. CallPhase(r) = "waiting"
    BY <2>5 DEF CallPhase
  <2>9. Contract!Accept(r, Convert(m))
    <3>1. [x \in Req |-> CallPhase(x)]' = [x \in Req |-> CallPhase(x)]
      BY <2>7 DEF CallPhase
    <3>2. [x \in Req |-> IF pc[x] = "done" THEN outcome[x] ELSE NoResponse]'
            = [x \in Req |-> IF pc[x] = "done" THEN outcome[x] ELSE NoResponse]
      BY <2>7
    <3>. QED BY <2>1, <2>6, <2>8, <3>1, <3>2 DEF Contract!Accept
  <2>. QED BY <2>4, <2>9 DEF Contract!ContractNext
<1>2. ASSUME NEW r \in Req, r = hreq[p], HandOver(p)
      PROVE  Contract!ContractNext
  <2>1. hreply[p] \in Response /\ responseCh[r] = NoResponse
    BY <1>2 DEF HandOver, HandlerInv
  <2>2. Delivering(r) = {p} /\ Delivering(r)' = {}
    BY <1>2 DEF HandOver, Delivering, OwnerInv
  <2>3. Accepted(r) = {hreply[p]}
    BY <1>2, <2>1, <2>2 DEF HandOver, Accepted, HandlerInv
  <2>4. outcome'[r] = hreply[p] /\ responseCh'[r] = NoResponse
    BY <1>2, <2>1 DEF HandOver, Return
  <2>5. Accepted(r)' = {hreply[p]}
    BY <2>1, <2>2, <2>4 DEF Accepted
  <2>6. \A x \in Req \ {r} : Accepted(x)' = Accepted(x)
    BY <1>2 DEF HandOver, Return, Accepted, Delivering
  <2>7. \A x \in Req : Accepted(x)' = Accepted(x)
    BY <2>3, <2>5, <2>6
  <2>8. Contract!End(r)
    BY <1>2, <2>3, <2>4, <2>7, ContractEnd DEF HandOver, Return
  <2>. QED BY <2>8 DEF Contract!ContractNext
<1>3. ASSUME NEW r \in Req, r = hreq[p], HandleSend(p)
      PROVE  UNCHANGED Contract!contractVars
  <2>1. hreply[p] \in Response /\ responseCh[r] = NoResponse
    BY <1>3 DEF HandleSend, HandlerInv
  <2>2. Delivering(r) = {p} /\ Delivering(r)' = {}
    BY <1>3, <2>1 DEF HandleSend, Delivering, OwnerInv
  <2>3. Accepted(r) = {hreply[p]}
    BY <1>3, <2>1, <2>2 DEF HandleSend, Accepted, HandlerInv
  <2>4. responseCh'[r] = hreply[p] /\ outcome'[r] \notin Response
    BY <1>3, <2>1 DEF HandleSend, HandlerInv
  <2>5. Accepted(r)' = {hreply[p]}
    BY <2>1, <2>2, <2>4 DEF Accepted
  <2>6. \A x \in Req \ {r} : Accepted(x)' = Accepted(x)
    BY <1>3, <2>1 DEF HandleSend, Accepted, Delivering
  <2>. QED BY <1>3, <2>3, <2>5, <2>6, ContractStutter DEF HandleSend, CallPhase
<1>4. CASE HandleCancel(p)
  <2>1. \A x \in Req : Accepted(x)' = Accepted(x)
    BY <1>4 DEF HandleCancel, Accepted, Delivering
  <2>. QED BY <1>4, <2>1, ContractStutter DEF HandleCancel, Done, CallPhase
<1>5. HandOver(p) \/ HandleSend(p) => hreq[p] \in Req
  BY DEF HandOver, HandleSend, HandlerInv
<1>. QED BY <1>1, <1>2, <1>3, <1>4, <1>5 DEF HandleResponse

\* The contract does not see the steps of everyone else.
LEMMA OtherKeepsContract ==
    ASSUME TypeOK,
           \/ \E r \in Req : CancelRequest(r) \/ Context(r)
           \/ CleanupExpired
           \/ \E d \in Device, up \in BOOLEAN : Connection(d, up)
           \/ Freeze
    PROVE  UNCHANGED Contract!contractVars
<1>1. /\ outcome' = outcome /\ responseCh' = responseCh
      /\ hpc' = hpc /\ hreq' = hreq /\ hreply' = hreply
  BY DEF CancelRequest, CancelTake, CancelFire, Context, Elapse, TimerFires,
         ParentCancels, CleanupExpired, Connection, Freeze
<1>2. \A x \in Req : pc'[x] = pc[x] \/ (pc[x] = "parked" /\ pc'[x] = "ctxDone")
  BY DEF CancelRequest, CancelTake, CancelFire, Context, Elapse, TimerFires,
         ParentCancels, CleanupExpired, Connection, Freeze, Done
<1>3. \A x \in Req : Accepted(x)' = Accepted(x)
  BY <1>1 DEF Accepted, Delivering
<1>. QED BY <1>1, <1>2, <1>3, ContractStutter DEF CallPhase

\* The RPC manager implements the contract of a call: whatever agents, timers
\* and cancellations do, a call ends once, at most one answer is accepted for
\* it and none after its end, and its caller gets that answer or a failure.
THEOREM ImplementsContract == Spec => ContractKept
<1>1. Init => Contract!ContractInit
  BY DEF Init, Contract!ContractInit, CallPhase, Accepted, Delivering, Response,
         NoResponse
<1>2. TypeOK /\ CallInv /\ [Next]_vars
        => [Contract!ContractNext]_(Contract!contractVars)
  <2> SUFFICES ASSUME TypeOK, CallInv, [Next]_vars
               PROVE  Contract!ContractNext \/ UNCHANGED Contract!contractVars
    OBVIOUS
  <2>1. CASE UNCHANGED vars
    BY <2>1 DEF vars, Contract!contractVars, CallPhase, Accepted, Delivering
  <2>2. CASE Next
    BY <2>2, CallKeepsContract, HandleKeepsContract, OtherKeepsContract DEF Next
  <2>. QED BY <2>1, <2>2
<1>. QED BY <1>1, <1>2, CallInvHolds, CallsTypeCorrect, PTL
         DEF Spec, ContractKept, Contract!Contract

=============================================================================
