------------------------- MODULE AdminRequestsProofs -------------------------
(***************************************************************************)
(* Theorems about the admin API, for any number of requests, any limit, any  *)
(* capacity of the audit log and any life of a session.                    *)
(***************************************************************************)
EXTENDS AdminRequestsProps, FiniteSetTheorems, SequenceTheorems, TLAPS

USE AdminNamesAssumption, AdminAnswersAssumption, AdminBoundsAssumption

-----------------------------------------------------------------------------
(***************************************************************************)
(* Type correctness, and the limit.  They need each other: the limit bounds *)
(* slots from above, and a request that returns has one.                   *)
(***************************************************************************)
Run == {r \in Req : IsRunning(r)}
SlotInv == IsFiniteSet(Run) /\ slots = Cardinality(Run)

\* All variables but those of requests and of the limit.
RestTypeOK ==
    /\ sessions \in SUBSET Req
    /\ age \in [Req -> 0..Life + 1]
    /\ queue \in Seq(Req) /\ Len(queue) <= QueueCap
    /\ hand \in Req \cup {NoEntry}
    /\ stored \in Seq(Req)
    /\ missing \in SUBSET Req
    /\ ended \in SUBSET Req
    /\ faults \in 0..MaxFaults
    /\ crashed \in BOOLEAN
    /\ phase \in [Req -> {"new", "waiting", "ended"}]
    /\ accepted \in [Req -> SUBSET Answer]
    /\ result \in [Req -> Answer \cup Failure \cup {NoAnswer}]

RequestTypeOK ==
    /\ kind \in [Req -> Kind \cup {"none"}]
    /\ cookie \in [Req -> Req \cup {NoSession}]
    /\ pc \in [Req -> {"new", "done", "cut"} \cup Running]
    /\ reply \in [Req -> {"none", "ok", "error"}]
    /\ late \in SUBSET Req
    /\ slots \in 0..MaxConcurrent

LEMMA TypeParts == TypeOK <=> RestTypeOK /\ RequestTypeOK
BY DEF TypeOK, RestTypeOK, RequestTypeOK

\* A request that runs goes on, or returns.
LEMMA GotoSlots ==
    ASSUME RequestTypeOK, SlotInv, NEW r \in Req, IsRunning(r),
           NEW step \in Running, Goto(r, step), UNCHANGED slots
    PROVE  SlotInv'
<1>1. Run' = Run BY DEF Run, IsRunning, Goto, RequestTypeOK
<1>. QED BY <1>1 DEF SlotInv

LEMMA ReturnSlots ==
    ASSUME RequestTypeOK, SlotInv, NEW r \in Req, IsRunning(r),
           NEW answer \in {"ok", "error"}, Return(r, answer)
    PROVE  /\ SlotInv' /\ slots' \in 0..MaxConcurrent
           /\ reply' \in [Req -> {"none", "ok", "error"}]
           /\ pc' \in [Req -> {"new", "done", "cut"} \cup Running]
<1>1. Run' = Run \ {r} BY DEF Run, IsRunning, Return, Goto, RequestTypeOK, Running
<1>2. r \in Run BY DEF Run
<1>3. IsFiniteSet(Run \ {r}) /\ Cardinality(Run \ {r}) = Cardinality(Run) - 1
  BY <1>2, FS_RemoveElement DEF SlotInv
<1>4. Cardinality(Run \ {r}) \in Nat BY <1>3, FS_CardinalityType
<1>. QED BY <1>1, <1>3, <1>4 DEF SlotInv, Return, Goto, RequestTypeOK

\* A step of a handler.
LEMMA HandlerSlots ==
    ASSUME RequestTypeOK, SlotInv, NEW r \in Req, Handler(r)
    PROVE  RequestTypeOK' /\ SlotInv'
<1>1. IsRunning(r) /\ UNCHANGED <<kind, cookie, late>>
  BY DEF Handler, Authorize, Login, Logout, Find, CallReturns, LocalWork, Log, IsRunning,
         Running
<1>2. CASE \E answer \in {"ok", "error"} : Return(r, answer)
  BY ZenonT(40), <1>1, <1>2, ReturnSlots DEF RequestTypeOK
<1>3. CASE ~\E answer \in {"ok", "error"} : Return(r, answer)
  <2>1. UNCHANGED slots /\ reply' \in [Req -> {"none", "ok", "error"}]
    BY <1>3 DEF Handler, Authorize, Login, Logout, Find, CallReturns, LocalWork, Log,
                RequestTypeOK
  <2>2. \E step \in Running : Goto(r, step)
    BY <1>3 DEF Handler, Authorize, Login, Logout, Find, CallReturns, LocalWork, Log, Running
  <2>3. SlotInv' BY <1>1, <2>1, <2>2, GotoSlots
  <2>. QED BY <1>1, <2>1, <2>2, <2>3 DEF RequestTypeOK, Goto
<1>. QED BY <1>2, <1>3

\* A request comes, and the steps of everyone else.
LEMMA OtherSlots ==
    ASSUME RequestTypeOK, SlotInv,
           \/ Tick \/ SessionSweep \/ Worker \/ Crash
           \/ \E r \in Req :
               \/ Refuse(r) \/ Body(r) \/ BadRequest(r) \/ CallHangs(r)
               \/ \E k \in Kind, c \in Issued \cup {NoSession} : Enter(r, k, c)
               \/ \E a \in Answer : AgentAnswers(r, a)
    PROVE  RequestTypeOK' /\ SlotInv'
<1>1. CASE Crash
  <2>1. Run' = {} BY <1>1 DEF Run, Crash, IsRunning, Running
  <2>2. SlotInv' BY <1>1, <2>1, FS_EmptySet DEF SlotInv, Crash
  <2>3. RequestTypeOK' BY <1>1 DEF Crash, RequestTypeOK
  <2>. QED BY <2>2, <2>3
<1>2. ASSUME NEW r \in Req, NEW k \in Kind, NEW c \in Issued \cup {NoSession}, Enter(r, k, c)
      PROVE  RequestTypeOK' /\ SlotInv'
  <2> DEFINE step == IF k \in Guarded THEN "auth" ELSE IF k = "logout" THEN k ELSE "body"
  <2>1. /\ pc[r] = "new" /\ slots < MaxConcurrent /\ slots' = slots + 1
        /\ kind' = [kind EXCEPT ![r] = k] /\ cookie' = [cookie EXCEPT ![r] = c]
        /\ pc' = [pc EXCEPT ![r] = step] /\ UNCHANGED reply
        /\ late' \in {late, late \cup {r}}
    BY <1>2 DEF Enter, Goto
  <2>2. step \in Running BY DEF Kind, Guarded, Running
  <2>3. c \in Req \cup {NoSession} BY DEF Issued
  <2>4. RequestTypeOK' BY <2>1, <2>2, <2>3 DEF RequestTypeOK
  <2>5. r \notin Run /\ Run' = Run \cup {r}
    BY <2>1, <2>2 DEF Run, IsRunning, RequestTypeOK, Running
  <2>6. IsFiniteSet(Run \cup {r}) /\ Cardinality(Run \cup {r}) = Cardinality(Run) + 1
    BY <2>5, FS_AddElement DEF SlotInv
  <2>. QED BY <2>1, <2>4, <2>5, <2>6 DEF SlotInv
<1>3. ASSUME NEW r \in Req, Refuse(r) PROVE RequestTypeOK' /\ SlotInv'
  <2>1. RequestTypeOK' BY <1>3 DEF Refuse, Goto, RequestTypeOK
  <2>2. Run' = Run
    BY <1>3 DEF Refuse, Goto, RequestTypeOK, Run, IsRunning, Running
  <2>. QED BY <1>3, <2>1, <2>2 DEF SlotInv, Refuse
<1>4. ASSUME UNCHANGED <<requestVars, slots>> PROVE RequestTypeOK' /\ SlotInv'
  BY <1>4 DEF requestVars, RequestTypeOK, SlotInv, Run, IsRunning
<1>5. ASSUME NEW r \in Req, Body(r) \/ CallHangs(r) PROVE RequestTypeOK' /\ SlotInv'
  <2>1. IsRunning(r) /\ UNCHANGED <<kind, cookie, late, reply, slots>>
    BY <1>5 DEF Body, CallHangs, IsRunning, Running
  <2>2. PICK step \in Running : Goto(r, step) BY <1>5 DEF Body, CallHangs, Running
  <2>. QED BY <2>1, <2>2, GotoSlots DEF RequestTypeOK, Goto
<1>6. ASSUME NEW r \in Req, BadRequest(r) PROVE RequestTypeOK' /\ SlotInv'
  <2>1. IsRunning(r) /\ UNCHANGED <<kind, cookie, late>> /\ Return(r, "error")
    BY <1>6 DEF BadRequest, IsRunning, Running
  <2>. QED BY <2>1, ReturnSlots DEF RequestTypeOK
<1>. QED BY <1>1, <1>2, <1>3, <1>4, <1>5, <1>6
         DEF Tick, SessionSweep, Worker, WorkerTake, WorkerInsert, AgentAnswers

\* The other variables keep their types.
LEMMA HandlerRest ==
    ASSUME TypeOK, NEW r \in Req, Handler(r)
    PROVE  RestTypeOK'
<1> USE DEF TypeOK, RestTypeOK, sessionVars, auditVars, contractVars
<1>1. CASE Authorize(r) BY <1>1 DEF Authorize
<1>2. CASE Login(r) BY <1>2 DEF Login
<1>3. CASE Logout(r) BY <1>3 DEF Logout
<1>4. CASE Find(r) BY <1>4 DEF Find, Begin
<1>5. CASE CallReturns(r)
  <2>1. End(r) /\ UNCHANGED <<sessionVars, auditVars, faults, crashed>>
    BY <1>5 DEF CallReturns
  <2>2. PICK x \in accepted[r] \cup Failure : result' = [result EXCEPT ![r] = x]
    BY <2>1 DEF End
  <2>3. result' \in [Req -> Answer \cup Failure \cup {NoAnswer}] BY <2>2
  <2>. QED BY <2>1, <2>3 DEF End
<1>6. CASE LocalWork(r) BY <1>6 DEF LocalWork
<1>7. CASE Log(r)
  <2>1. Append(queue, r) \in Seq(Req) /\ Len(Append(queue, r)) = Len(queue) + 1
    BY AppendProperties
  <2>2. Len(queue) \in Nat BY LenProperties
  <2>3. queue' \in Seq(Req) /\ Len(queue') <= QueueCap
    <3>1. CASE Len(queue) < QueueCap
      <4>1. queue' = Append(queue, r) BY <1>7, <3>1 DEF Log
      <4>. QED BY <2>1, <2>2, <3>1, <4>1
    <3>2. CASE ~(Len(queue) < QueueCap)
      <4>1. queue' = queue BY <1>7, <3>2 DEF Log
      <4>. QED BY <4>1
    <3>. QED BY <3>1, <3>2
  <2>4. missing' \in SUBSET Req BY <1>7 DEF Log
  <2>. QED BY <1>7, <2>3, <2>4 DEF Log
<1>. QED BY <1>1, <1>2, <1>3, <1>4, <1>5, <1>6, <1>7 DEF Handler

LEMMA OtherRest ==
    ASSUME TypeOK,
           \/ Tick \/ SessionSweep \/ Worker \/ Crash
           \/ \E r \in Req :
               \/ Refuse(r) \/ Body(r) \/ BadRequest(r) \/ CallHangs(r)
               \/ \E k \in Kind, c \in Issued \cup {NoSession} : Enter(r, k, c)
               \/ \E a \in Answer : AgentAnswers(r, a)
    PROVE  RestTypeOK'
<1> USE DEF TypeOK, RestTypeOK, sessionVars, auditVars, contractVars
<1>1. CASE Tick BY <1>1 DEF Tick
<1>2. CASE SessionSweep BY <1>2 DEF SessionSweep
<1>3. CASE WorkerTake
  <2>1. Head(queue) \in Req /\ Tail(queue) \in Seq(Req) /\ Len(Tail(queue)) <= QueueCap
    BY <1>3, HeadTailProperties, LenProperties DEF WorkerTake
  <2>. QED BY <1>3, <2>1 DEF WorkerTake
<1>4. CASE WorkerInsert
  <2>1. hand \in Req => Append(stored, hand) \in Seq(Req) BY AppendProperties
  <2>2. hand \in Req /\ hand' = NoEntry BY <1>4 DEF WorkerInsert
  <2>3. stored' \in Seq(Req) BY <1>4, <2>1, <2>2 DEF WorkerInsert
  <2>4. missing' \in SUBSET Req /\ faults' \in 0..MaxFaults BY <1>4, <2>2 DEF WorkerInsert
  <2>. QED BY <1>4, <2>2, <2>3, <2>4 DEF WorkerInsert
<1>5. CASE Crash
  <2>1. {queue[i] : i \in 1..Len(queue)} \in SUBSET Req BY SMTT(20), ZenonT(20), ElementOfSeq
  <2>2. missing' \in SUBSET Req BY <1>5, <2>1 DEF Crash
  <2>3. queue' \in Seq(Req) /\ Len(queue') <= QueueCap BY <1>5, EmptySeq DEF Crash
  <2>. QED BY <1>5, <2>2, <2>3 DEF Crash
<1>6. ASSUME NEW r \in Req, Refuse(r) PROVE RestTypeOK' BY <1>6 DEF Refuse
<1>7. ASSUME NEW r \in Req, NEW k \in Kind, NEW c \in Issued \cup {NoSession}, Enter(r, k, c)
      PROVE  RestTypeOK'
  BY <1>7 DEF Enter
<1>8. ASSUME NEW r \in Req, NEW a \in Answer, AgentAnswers(r, a) PROVE RestTypeOK'
  BY <1>8 DEF AgentAnswers, Accept
<1>9. ASSUME NEW r \in Req, Body(r) \/ BadRequest(r) \/ CallHangs(r) PROVE RestTypeOK'
  BY <1>9 DEF Body, BadRequest, CallHangs
<1>. QED BY <1>1, <1>2, <1>3, <1>4, <1>5, <1>6, <1>7, <1>8, <1>9 DEF Worker

LEMMA NextTypeOK == TypeOK /\ SlotInv /\ [Next]_vars => TypeOK' /\ SlotInv'
<1> SUFFICES ASSUME TypeOK, SlotInv, [Next]_vars PROVE TypeOK' /\ SlotInv'
  OBVIOUS
<1>0. RequestTypeOK BY TypeParts
<1>1. CASE UNCHANGED vars
  BY <1>1 DEF vars, contractVars, requestVars, sessionVars, auditVars, TypeOK, SlotInv, Run,
              IsRunning
<1>2. CASE Next
  <2>1. RestTypeOK' BY <1>2, HandlerRest, OtherRest DEF Next
  <2>2. RequestTypeOK' /\ SlotInv' BY <1>0, <1>2, HandlerSlots, OtherSlots DEF Next
  <2>. QED BY <2>1, <2>2 DEF TypeOK, RestTypeOK, RequestTypeOK
<1>. QED BY <1>1, <1>2

LEMMA InitTypeOK == Init => TypeOK /\ SlotInv
<1> SUFFICES ASSUME Init PROVE TypeOK /\ SlotInv
  OBVIOUS
<1>1. <<>> \in Seq(Req) /\ Len(<<>>) = 0 BY EmptySeq
<1>2. Run = {} BY DEF Init, Run, IsRunning, Running
<1>3. TypeOK
  <2>1. queue \in Seq(Req) /\ Len(queue) <= QueueCap /\ stored \in Seq(Req)
    BY <1>1 DEF Init
  <2>2. RequestTypeOK BY DEF Init, RequestTypeOK
  <2>3. /\ phase \in [Req -> {"new", "waiting", "ended"}]
        /\ accepted \in [Req -> SUBSET Answer]
        /\ result \in [Req -> Answer \cup Failure \cup {NoAnswer}]
    BY DEF Init, ContractInit
  <2>4. age \in [Req -> 0..Life + 1] BY DEF Init
  <2>5. /\ sessions \in SUBSET Req /\ missing \in SUBSET Req /\ ended \in SUBSET Req
        /\ hand \in Req \cup {NoEntry} /\ faults \in 0..MaxFaults
    BY DEF Init
  <2>7. crashed \in BOOLEAN BY Zenon DEF Init
  <2>6. RestTypeOK BY <2>1, <2>3, <2>4, <2>5, <2>7 DEF RestTypeOK
  <2>. QED BY <2>2, <2>6, TypeParts
<1>4. SlotInv BY <1>2, FS_EmptySet DEF Init, SlotInv
<1>. QED BY <1>3, <1>4

LEMMA SlotInvHolds == Spec => [](TypeOK /\ SlotInv)
<1>. QED BY InitTypeOK, NextTypeOK, PTL DEF Spec

\* The variables of the admin API keep their types; the limit is kept.
THEOREM AdminTypeCorrect == Spec => []TypeOK
<1>. QED BY SlotInvHolds, PTL

\* There is a slot for each request that runs and no other (limiter.go:28).
THEOREM SlotsNeverLeak == Spec => []SlotsAreHeld
<1>1. SlotInv => SlotsAreHeld BY DEF SlotInv, SlotsAreHeld, Run
<1>. QED BY <1>1, SlotInvHolds, PTL

-----------------------------------------------------------------------------
(***************************************************************************)
(* How far a request is, and its call.                                     *)
(***************************************************************************)
CallKind == {"rpc", "delete"}

Flow(r) ==
    /\ pc[r] \in {"new", "body", "login", "logout", "auth", "find", "work"} =>
           reply[r] = "none" /\ phase[r] = "new"
    /\ pc[r] \in {"call", "stuck"} => reply[r] = "none"
    /\ pc[r] \in {"login", "logout"} => kind[r] = pc[r]
    /\ pc[r] = "work" => kind[r] = "local"
    /\ pc[r] = "auth" => kind[r] \in Guarded
    /\ accepted[r] = {} \/ \E a \in Answer : accepted[r] = {a}
    /\ pc[r] = "log" /\ kind[r] \in CallKind => phase[r] = "ended" /\ accepted[r] = {"success"}
    /\ pc[r] = "log" /\ reply[r] # "none" => kind[r] = "rpc"

FlowInv == \A r \in Req : Flow(r)

\* A login that has been through CreateSession.
Past(s) == kind[s] = "login" /\ pc[s] \notin {"new", "body", "login"}

\* A session is created once.  What is over stays over, and a request that
\* came with it does not get past AuthMiddleware.
SessionInv ==
    /\ sessions \cap ended = {}
    /\ \A s \in sessions \cup ended : Past(s)
    /\ \A r \in Req : cookie[r] # NoSession => Past(cookie[r])
    /\ \A r \in late : /\ pc[r] \in {"auth", "done", "cut"} /\ phase[r] = "new"
                       /\ pc[r] = "auth" => Over(cookie[r])

\* A call returns with the answer that was accepted, or with an error.
LEMMA CallEnd ==
    ASSUME TypeOK, FlowInv, NEW r \in Req, End(r)
    PROVE  /\ phase' = [phase EXCEPT ![r] = "ended"] /\ UNCHANGED accepted
           /\ result'[r] = "success" => accepted[r] = {"success"}
<1>1. PICK x \in accepted[r] \cup Failure : result' = [result EXCEPT ![r] = x]
  BY DEF End
<1>2. result'[r] = x BY <1>1 DEF TypeOK
<1>3. x = "success" => x \in accepted[r] OBVIOUS
<1>4. accepted[r] = {} \/ \E a \in Answer : accepted[r] = {a} BY DEF FlowInv, Flow
<1>. QED BY <1>2, <1>3, <1>4 DEF End

\* A step of a handler does nothing to other requests.
LEMMA HandlerFrame ==
    ASSUME TypeOK, NEW r \in Req, Handler(r)
    PROVE  /\ UNCHANGED <<kind, cookie, late, accepted>>
           /\ \A q \in Req \ {r} : /\ pc'[q] = pc[q] /\ reply'[q] = reply[q]
                                   /\ phase'[q] = phase[q]
BY DEF Handler, Authorize, Login, Logout, Find, CallReturns, LocalWork, Log, Return, Goto,
       Begin, End, contractVars, TypeOK

LEMMA FlowFrame ==
    ASSUME FlowInv, NEW r \in Req, Flow(r)',
           \A q \in Req \ {r} :
               /\ pc'[q] = pc[q] /\ reply'[q] = reply[q] /\ phase'[q] = phase[q]
               /\ kind'[q] = kind[q] /\ accepted'[q] = accepted[q]
    PROVE  FlowInv'
<1>1. ASSUME NEW q \in Req \ {r} PROVE Flow(q)'
  BY DEF FlowInv, Flow
<1>. QED BY <1>1 DEF FlowInv

LEMMA HandlerFlow ==
    ASSUME TypeOK, FlowInv, NEW r \in Req, Handler(r)
    PROVE  FlowInv'
<1>1. UNCHANGED <<kind, accepted>> /\ Flow(r) BY HandlerFrame DEF FlowInv
<1>2. CASE Authorize(r) \/ LocalWork(r) \/ Login(r)
  <2>1. /\ pc[r] \in {"auth", "work", "login"} /\ UNCHANGED phase
        /\ \/ pc'[r] = "done"
           \/ pc'[r] = "body" /\ UNCHANGED reply
           \/ pc'[r] = "log" /\ kind[r] \in {"local", "login"} /\ UNCHANGED reply
    BY <1>1, <1>2 DEF Authorize, LocalWork, Login, Return, Goto, contractVars, TypeOK, Flow
  <2>2. Flow(r)' BY <1>1, <2>1 DEF Flow, CallKind
  <2>. QED BY <2>2, HandlerFrame, FlowFrame
<1>3. CASE Logout(r) \/ Log(r)
  <2>1. pc'[r] = "done" BY <1>3 DEF Logout, Log, Return, Goto, TypeOK
  <2>2. Flow(r)' BY <1>1, <2>1 DEF Flow
  <2>. QED BY <2>2, HandlerFrame, FlowFrame
<1>4. CASE Find(r)
  <2>1. pc'[r] = "done" \/ (pc'[r] = "call" /\ pc[r] = "find" /\ UNCHANGED reply)
    BY <1>4 DEF Find, Return, Goto, TypeOK
  <2>2. Flow(r)' BY <1>1, <2>1 DEF Flow
  <2>. QED BY <2>2, HandlerFrame, FlowFrame
<1>5. CASE CallReturns(r)
  <2>1. phase'[r] = "ended" /\ (result'[r] = "success" => accepted[r] = {"success"})
    BY <1>5, CallEnd DEF CallReturns, TypeOK
  <2>2. \/ pc'[r] = "done"
        \/ /\ pc'[r] = "log" /\ result'[r] = "success"
           /\ reply'[r] # "none" => kind[r] = "rpc"
    BY <1>1, <1>5 DEF CallReturns, Return, Goto, TypeOK, Flow
  <2>3. Flow(r)' BY <1>1, <2>1, <2>2 DEF Flow
  <2>. QED BY <2>3, HandlerFrame, FlowFrame
<1>. QED BY <1>2, <1>3, <1>4, <1>5 DEF Handler

LEMMA OtherFlow ==
    ASSUME TypeOK, FlowInv,
           \/ Tick \/ SessionSweep \/ Worker \/ Crash
           \/ \E r \in Req :
               \/ Refuse(r) \/ Body(r) \/ BadRequest(r) \/ CallHangs(r)
               \/ \E k \in Kind, c \in Issued \cup {NoSession} : Enter(r, k, c)
               \/ \E a \in Answer : AgentAnswers(r, a)
    PROVE  FlowInv'
<1>1. CASE Crash
  <2>1. \A r \in Req : pc'[r] = pc[r] \/ pc'[r] = "cut" BY <1>1 DEF Crash
  <2>2. UNCHANGED <<kind, reply, phase, accepted>> BY <1>1 DEF Crash, contractVars
  <2>. QED BY <2>1, <2>2 DEF FlowInv, Flow
<1>2. ASSUME NEW r \in Req, NEW k \in Kind, NEW c \in Issued \cup {NoSession}, Enter(r, k, c)
      PROVE  FlowInv'
  <2>1. /\ pc[r] = "new" /\ kind' = [kind EXCEPT ![r] = k]
        /\ UNCHANGED <<reply, phase, accepted>>
        /\ pc' = [pc EXCEPT ![r] = IF k \in Guarded THEN "auth"
                                   ELSE IF k = "logout" THEN k ELSE "body"]
    BY <1>2 DEF Enter, Goto, contractVars
  <2>2. Flow(r) BY DEF FlowInv
  <2>3. Flow(r)' BY <2>1, <2>2 DEF Flow, TypeOK, Kind, Guarded, CallKind
  <2>. QED BY <2>1, <2>3, FlowFrame DEF TypeOK
<1>3. ASSUME NEW r \in Req, Refuse(r) PROVE FlowInv'
  <2>1. pc' = [pc EXCEPT ![r] = "done"] /\ reply' = [reply EXCEPT ![r] = "error"]
        /\ UNCHANGED <<kind, phase, accepted>>
    BY <1>3 DEF Refuse, Goto, contractVars
  <2>2. Flow(r) BY DEF FlowInv
  <2>3. Flow(r)' BY <2>1, <2>2 DEF Flow, TypeOK
  <2>. QED BY <2>1, <2>3, FlowFrame DEF TypeOK
<1>4. ASSUME NEW r \in Req, NEW a \in Answer, AgentAnswers(r, a) PROVE FlowInv'
  <2>1. /\ accepted' = [accepted EXCEPT ![r] = {a}] /\ UNCHANGED <<kind, phase, reply, pc>>
        /\ pc[r] = "call"
    BY <1>4 DEF AgentAnswers, Accept, requestVars
  <2>2. Flow(r) BY DEF FlowInv
  <2>3. Flow(r)' BY <2>1, <2>2 DEF Flow, TypeOK
  <2>. QED BY <2>1, <2>3, FlowFrame DEF TypeOK
<1>5. ASSUME UNCHANGED <<requestVars, contractVars>> PROVE FlowInv'
  BY <1>5 DEF requestVars, contractVars, FlowInv, Flow
<1>6. ASSUME NEW r \in Req, Body(r) PROVE FlowInv'
  <2>1. /\ pc[r] = "body" /\ UNCHANGED <<kind, reply, phase, accepted>>
        /\ \A q \in Req \ {r} : pc'[q] = pc[q]
        /\ \/ pc'[r] = kind[r] /\ kind[r] = "login"
           \/ pc'[r] = "log" /\ kind[r] = "badLogin"
           \/ pc'[r] = "work" /\ kind[r] = "local"
           \/ pc'[r] = "find"
    BY <1>6 DEF Body, Goto, contractVars, TypeOK
  <2>2. Flow(r) BY DEF FlowInv
  <2>3. Flow(r)' BY <2>1, <2>2 DEF Flow, CallKind
  <2>. QED BY <2>1, <2>3, FlowFrame
<1>7. ASSUME NEW r \in Req, BadRequest(r) \/ CallHangs(r) PROVE FlowInv'
  <2>1. /\ UNCHANGED <<kind, phase, accepted>>
        /\ pc'[r] = "done" \/ (pc[r] = "call" /\ pc'[r] = "stuck" /\ UNCHANGED reply)
        /\ \A q \in Req \ {r} : pc'[q] = pc[q] /\ reply'[q] = reply[q]
    BY <1>7 DEF BadRequest, CallHangs, Return, Goto, contractVars, TypeOK
  <2>2. Flow(r) BY DEF FlowInv
  <2>3. Flow(r)' BY <2>1, <2>2 DEF Flow
  <2>. QED BY <2>1, <2>3, FlowFrame
<1>. QED BY <1>1, <1>2, <1>3, <1>4, <1>5, <1>6, <1>7
         DEF Tick, SessionSweep, Worker, WorkerTake, WorkerInsert

LEMMA HandlerSession ==
    ASSUME TypeOK, FlowInv, SessionInv, NEW r \in Req, Handler(r)
    PROVE  SessionInv'
<1>1. UNCHANGED <<kind, cookie, late>> /\ \A q \in Req : Past(q) => Past(q)'
  <2>1. Authorize(r) => kind[r] # "login" BY DEF Authorize, FlowInv, Flow, Guarded
  <2>. QED BY SMTT(20), <2>1
           DEF Handler, Authorize, Login, Logout, Find, CallReturns, LocalWork, Log, Return,
               Goto, Past, TypeOK
<1>2. \A q \in Req \ {r} : pc'[q] = pc[q] /\ phase'[q] = phase[q]
  BY DEF Handler, Authorize, Login, Logout, Find, CallReturns, LocalWork, Log, Return, Goto,
         Begin, End, contractVars, TypeOK
<1>3. CASE Login(r) /\ pc'[r] = "log"
  <2>1. /\ sessions' = sessions \cup {r} /\ age' = [age EXCEPT ![r] = 0]
        /\ pc[r] = "login" /\ pc' = [pc EXCEPT ![r] = "log"] /\ UNCHANGED <<ended, phase>>
    BY <1>3 DEF Login, Goto, Return, contractVars, TypeOK
  <2>2. \A q \in Req : cookie[q] # r BY <2>1 DEF SessionInv, Past, TypeOK
  <2>3. ASSUME NEW q \in late', pc'[q] = "auth" PROVE Over(cookie[q])'
    <3>1. q \in Req /\ Over(cookie[q]) BY <1>1, <2>1, <2>3 DEF SessionInv, TypeOK
    <3>. QED BY <1>1, <2>1, <2>2, <3>1 DEF Over, TypeOK
  <2>4. r \notin late BY <2>1 DEF SessionInv
  <2>5. kind[r] = "login" /\ Past(r)'
    BY <1>1, <2>1 DEF FlowInv, Flow, Past, TypeOK
  <2>6. \A s \in sessions' \cup ended' : Past(s)'
    BY <1>1, <2>1, <2>5 DEF SessionInv, TypeOK
  <2>7. \A q \in Req : cookie'[q] # NoSession => Past(cookie[q])'
    BY <1>1 DEF SessionInv, TypeOK
  <2>8. sessions' \cap ended' = {} BY <2>1 DEF SessionInv, Past
  <2>. QED BY <1>1, <1>2, <2>1, <2>3, <2>4, <2>6, <2>7, <2>8 DEF SessionInv, TypeOK
<1>4. CASE ~(Login(r) /\ pc'[r] = "log")
  <2>1. UNCHANGED age
    BY <1>4 DEF Handler, Authorize, Login, Logout, Find, CallReturns, LocalWork, Log,
                Goto, sessionVars, TypeOK
  <2>2. /\ sessions' \subseteq sessions /\ ended \subseteq ended'
        /\ sessions' \cap ended' = {}
        /\ \A s \in ended' \ ended : Past(s)
    BY <1>4
       DEF Handler, Authorize, Login, Logout, Find, CallReturns, LocalWork, Log, sessionVars,
           Goto, SessionInv, TypeOK
  <2>3. \A q \in Req : Over(cookie[q]) => Over(cookie[q])' BY <1>1, <2>1, <2>2 DEF Over
  <2>4. ASSUME r \in late
        PROVE  pc'[r] = "done" /\ phase'[r] = "new"
    <3>1. pc[r] = "auth" /\ Over(cookie[r])
      BY <2>4
         DEF SessionInv, Handler, Authorize, Login, Logout, Find, CallReturns, LocalWork, Log
    <3>2. Authorize(r)
      BY <3>1 DEF Handler, Login, Logout, Find, CallReturns, LocalWork, Log
    <3>3. ~(cookie[r] \in sessions /\ age[cookie[r]] <= Life)
      BY <3>1 DEF Over, SessionInv, TypeOK
    <3>. QED BY <2>4, <3>2, <3>3 DEF Authorize, Return, Goto, TypeOK, SessionInv, contractVars
  <2>5. ASSUME NEW q \in late'
        PROVE  /\ pc'[q] \in {"auth", "done", "cut"} /\ phase'[q] = "new"
               /\ pc'[q] = "auth" => Over(cookie[q])'
    <3>1. q \in late /\ q \in Req /\ UNCHANGED cookie BY <1>1, <2>5 DEF TypeOK
    <3>2. CASE q = r BY <2>4, <3>1, <3>2
    <3>3. CASE q # r
      <4>1. pc'[q] = pc[q] /\ phase'[q] = phase[q] BY <1>2, <3>1, <3>3
      <4>. QED BY <2>3, <3>1, <4>1 DEF SessionInv
    <3>. QED BY <3>2, <3>3
  <2>6. ASSUME NEW s \in sessions' \cup ended' PROVE Past(s)'
    <3>1. s \in Req BY <2>6, HandlerRest DEF RestTypeOK
    <3>2. Past(s) BY <2>2, <2>6 DEF SessionInv
    <3>. QED BY <1>1, <3>1, <3>2
  <2>7. ASSUME NEW q \in Req, cookie'[q] # NoSession
        PROVE  Past(cookie[q])'
    BY <1>1, <2>7 DEF SessionInv, TypeOK
  <2>. QED BY <2>2, <2>5, <2>6, <2>7 DEF SessionInv
<1>. QED BY <1>3, <1>4

LEMMA OtherSession ==
    ASSUME TypeOK, FlowInv, SessionInv,
           \/ Tick \/ SessionSweep \/ Worker \/ Crash
           \/ \E r \in Req :
               \/ Refuse(r) \/ Body(r) \/ BadRequest(r) \/ CallHangs(r)
               \/ \E k \in Kind, c \in Issued \cup {NoSession} : Enter(r, k, c)
               \/ \E a \in Answer : AgentAnswers(r, a)
    PROVE  SessionInv'
<1>1. CASE Tick
  <2>1. /\ UNCHANGED <<sessions, ended, kind, cookie, pc, phase, late>>
        /\ \A s \in Req : age[s] > Life => age'[s] > Life
    BY <1>1 DEF Tick, requestVars, contractVars, TypeOK
  <2>2. \A q \in Req : Over(cookie[q]) => Over(cookie[q])' BY <2>1 DEF Over, TypeOK
  <2>. QED BY <2>1, <2>2 DEF SessionInv, Past, TypeOK
<1>2. CASE SessionSweep
  <2>1. sessions' \subseteq sessions
        /\ UNCHANGED <<age, ended, kind, cookie, pc, phase, late>>
    BY <1>2 DEF SessionSweep, requestVars, contractVars
  <2>. QED BY <2>1 DEF SessionInv, Over, Past
<1>3. CASE Crash
  <2>1. /\ sessions' = {} /\ ended' = ended \cup sessions
        /\ UNCHANGED <<age, kind, cookie, phase, late>>
        /\ \A q \in Req : pc'[q] = pc[q] \/ pc'[q] = "cut"
    BY <1>3 DEF Crash, contractVars
  <2>2. \A q \in Req : Over(cookie[q]) => Over(cookie[q])' BY <2>1 DEF Over
  <2>3. \A q \in Req : Past(q) => Past(q)' BY <2>1 DEF Past
  <2>. QED BY <2>1, <2>2, <2>3 DEF SessionInv, TypeOK
<1>4. ASSUME NEW r \in Req, NEW k \in Kind, NEW c \in Issued \cup {NoSession}, Enter(r, k, c)
      PROVE  SessionInv'
  <2> DEFINE step == IF k \in Guarded THEN "auth" ELSE IF k = "logout" THEN k ELSE "body"
  <2>1. /\ pc[r] = "new" /\ pc' = [pc EXCEPT ![r] = step]
        /\ cookie' = [cookie EXCEPT ![r] = c]
        /\ late' = IF k \in Guarded /\ Over(c) THEN late \cup {r} ELSE late
        /\ kind' = [kind EXCEPT ![r] = k]
        /\ UNCHANGED <<sessions, ended, age, phase>>
    BY <1>4 DEF Enter, Goto, sessionVars, contractVars
  <2>2. c # NoSession => c \in Req /\ Past(c)
    BY DEF Issued, FlowInv, Flow, Past
  <2>3. phase[r] = "new" BY <2>1 DEF FlowInv, Flow
  <2>4. r \notin late /\ r \notin sessions \cup ended BY <2>1 DEF SessionInv, Past
  <2>5. ASSUME NEW q \in Req, cookie'[q] # NoSession
        PROVE  Past(cookie[q])'
    <3>1. cookie'[q] \in Req /\ Past(cookie'[q])
      BY <2>1, <2>2, <2>5 DEF SessionInv, TypeOK
    <3>2. cookie'[q] # r BY <2>1, <3>1 DEF Past
    <3>. QED BY <2>1, <3>1, <3>2 DEF Past, TypeOK
  <2>6. ASSUME NEW q \in late'
        PROVE  /\ pc'[q] \in {"auth", "done", "cut"} /\ phase'[q] = "new"
               /\ pc'[q] = "auth" => Over(cookie[q])'
    <3>1. CASE q = r
      <4>1. k \in Guarded /\ Over(c) /\ cookie'[q] = c /\ pc'[q] = "auth"
        BY <2>1, <2>4, <2>6, <3>1 DEF TypeOK
      <4>. QED BY <2>1, <2>3, <3>1, <4>1 DEF Over
    <3>2. CASE q # r
      <4>1. q \in late /\ q \in Req BY <2>1, <2>6, <3>2 DEF TypeOK
      <4>2. pc'[q] = pc[q] /\ cookie'[q] = cookie[q] BY <2>1, <3>2, <4>1 DEF TypeOK
      <4>. QED BY <2>1, <4>1, <4>2 DEF SessionInv, Over
    <3>. QED BY <3>1, <3>2
  <2>7. \A s \in sessions' \cup ended' : Past(s)'
    BY <2>1, <2>4 DEF SessionInv, Past, TypeOK
  <2>. QED BY <2>1, <2>5, <2>6, <2>7 DEF SessionInv
<1>5. ASSUME NEW r \in Req, Refuse(r) PROVE SessionInv'
  <2>1. /\ pc[r] = "new" /\ pc' = [pc EXCEPT ![r] = "done"]
        /\ UNCHANGED <<sessions, ended, age, cookie, late, phase>>
    BY <1>5 DEF Refuse, Goto, sessionVars, contractVars
  <2>2. r \notin late BY <2>1 DEF SessionInv
  <2>3. \A s \in Req : Past(s) => Past(s)' BY <1>5, <2>1 DEF Refuse, Past, TypeOK
  <2>. QED BY <2>1, <2>2, <2>3 DEF SessionInv, Over, TypeOK
<1>6. ASSUME UNCHANGED <<requestVars, sessionVars, phase>> PROVE SessionInv'
  BY <1>6 DEF requestVars, sessionVars, SessionInv, Over, Past
<1>7. ASSUME NEW r \in Req, Body(r) \/ BadRequest(r) \/ CallHangs(r) PROVE SessionInv'
  <2>1. /\ pc[r] \in {"body", "logout", "call"} /\ \A q \in Req \ {r} : pc'[q] = pc[q]
        /\ pc[r] # "body" => pc'[r] \in {"done", "stuck"}
        /\ UNCHANGED <<sessions, ended, age, kind, cookie, late, phase>>
    BY <1>7 DEF Body, BadRequest, CallHangs, Return, Goto, sessionVars, contractVars, TypeOK
  <2>2. r \notin late BY <2>1 DEF SessionInv
  <2>3. \A s \in Req : Past(s) => Past(s)' BY <2>1 DEF Past
  <2>. QED BY ZenonT(40), <2>1, <2>2, <2>3 DEF SessionInv, Over, TypeOK
<1>. QED BY <1>1, <1>2, <1>3, <1>4, <1>5, <1>6, <1>7
         DEF Worker, WorkerTake, WorkerInsert, AgentAnswers, Accept, contractVars

LEMMA NextFlow == TypeOK /\ FlowInv /\ SessionInv /\ [Next]_vars => FlowInv' /\ SessionInv'
<1> SUFFICES ASSUME TypeOK, FlowInv, SessionInv, [Next]_vars PROVE FlowInv' /\ SessionInv'
  OBVIOUS
<1>1. CASE UNCHANGED vars
  BY <1>1 DEF vars, contractVars, requestVars, sessionVars, FlowInv, Flow, SessionInv, Over,
              Past
<1>2. CASE Next
  <2>1. FlowInv' BY <1>2, HandlerFlow, OtherFlow DEF Next
  <2>2. SessionInv' BY <1>2, HandlerSession, OtherSession DEF Next
  <2>. QED BY <2>1, <2>2
<1>. QED BY <1>1, <1>2

LEMMA FlowHolds == Spec => [](TypeOK /\ FlowInv /\ SessionInv)
<1>1. Init => FlowInv /\ SessionInv
  BY DEF Init, ContractInit, FlowInv, Flow, SessionInv, Past
<1>. QED BY <1>1, AdminTypeCorrect, NextFlow, PTL DEF Spec

\* A request that comes with a session that is over reaches neither an agent
\* nor the storage (middleware.go:23).
THEOREM SessionsEndForGood == Spec => []OutIsOut
<1>1. SessionInv => OutIsOut BY DEF SessionInv, OutIsOut
<1>. QED BY <1>1, FlowHolds, PTL

-----------------------------------------------------------------------------
(***************************************************************************)
(* The audit log.                                                          *)
(***************************************************************************)
Elements(q) == {q[i] : i \in 1..Len(q)}

LEMMA EntriesAre == Entries = Elements(queue) \cup {r \in Req : IsStored(r)} \cup ({hand} \ {NoEntry})
BY DEF Entries, Elements

LEMMA EntriesType == TypeOK => Entries \subseteq Req
<1> SUFFICES ASSUME TypeOK PROVE Entries \subseteq Req
  OBVIOUS
<1>1. Elements(queue) \subseteq Req BY ElementOfSeq DEF TypeOK, Elements
<1>. QED BY <1>1, EntriesAre DEF TypeOK

\* Elements of a sequence at its ends.
LEMMA AppendElements ==
    ASSUME NEW S, NEW q \in Seq(S), NEW e \in S
    PROVE  Elements(Append(q, e)) = Elements(q) \cup {e}
<1>1. /\ Len(Append(q, e)) = Len(q) + 1 /\ Append(q, e)[Len(q) + 1] = e
      /\ \A i \in 1..Len(q) : Append(q, e)[i] = q[i]
  BY AppendProperties
<1>2. Len(q) \in Nat BY LenProperties
<1>3. 1..Len(q) + 1 = 1..Len(q) \cup {Len(q) + 1} BY <1>2
<1>. QED BY <1>1, <1>3 DEF Elements

LEMMA HeadElements ==
    ASSUME NEW S, NEW q \in Seq(S), q # <<>>
    PROVE  Elements(q) = Elements(Tail(q)) \cup {Head(q)}
<1>1. /\ Len(Tail(q)) = Len(q) - 1 /\ Head(q) = q[1]
      /\ \A i \in 1..Len(Tail(q)) : Tail(q)[i] = q[i + 1]
  BY HeadTailProperties
<1>2. Len(q) \in Nat \ {0} BY EmptySeq
<1>3. ASSUME NEW i \in 1..Len(q) PROVE q[i] \in Elements(Tail(q)) \cup {Head(q)}
  <2>1. CASE i = 1 BY <1>1, <2>1
  <2>2. CASE i # 1
    <3>1. i - 1 \in 1..Len(Tail(q)) /\ (i - 1) + 1 = i BY <1>1, <1>2, <2>2
    <3>2. Tail(q)[i - 1] = q[i] BY <1>1, <3>1
    <3>. QED BY <3>1, <3>2 DEF Elements
  <2>. QED BY <2>1, <2>2
<1>4. ASSUME NEW i \in 1..Len(Tail(q)) PROVE Tail(q)[i] \in Elements(q)
  <2>1. i + 1 \in 1..Len(q) BY <1>1, <1>2
  <2>. QED BY <1>1, <2>1 DEF Elements
<1>5. Head(q) \in Elements(q) BY <1>1, <1>2 DEF Elements
<1>. QED BY <1>3, <1>4, <1>5 DEF Elements

\* What each step does to the entries.
LEMMA SameEntries ==
    ASSUME UNCHANGED <<queue, hand, stored>>
    PROVE  Entries' = Entries
BY DEF Entries, IsStored

LEMMA LogEntries ==
    ASSUME TypeOK, NEW r \in Req, Log(r)
    PROVE  /\ Entries' \subseteq Entries \cup {r}
           /\ Entries \cup missing \cup {r} \subseteq Entries' \cup missing'
<1>1. UNCHANGED <<hand, stored>> BY DEF Log
<1>2. \A q \in Req : IsStored(q)' <=> IsStored(q) BY <1>1 DEF IsStored
<1>3. CASE Len(queue) < QueueCap
  <2>1. queue' = Append(queue, r) /\ UNCHANGED missing BY <1>3 DEF Log
  <2>2. Elements(queue') = Elements(queue) \cup {r}
    BY <2>1, AppendElements DEF TypeOK
  <2>3. Elements(queue)' = Elements(queue') BY DEF Elements
  <2>4. Entries' = Elements(queue)' \cup {q \in Req : IsStored(q)'} \cup ({hand'} \ {NoEntry})
    BY DEF Entries, Elements
  <2>. QED BY <1>1, <1>2, <2>1, <2>2, <2>3, <2>4, EntriesAre
<1>4. CASE ~(Len(queue) < QueueCap)
  <2>1. queue' = queue /\ missing' = missing \cup {r} BY <1>4 DEF Log
  <2>. QED BY <1>1, <2>1, SameEntries
<1>. QED BY <1>3, <1>4

LEMMA WorkerEntries ==
    ASSUME TypeOK, Worker
    PROVE  /\ Entries' \subseteq Entries
           /\ Entries \cup missing \subseteq Entries' \cup missing'
<1>1. CASE WorkerTake
  <2>1. /\ queue # <<>> /\ hand = NoEntry /\ hand' = Head(queue) /\ queue' = Tail(queue)
        /\ UNCHANGED <<stored, missing>>
    BY <1>1 DEF WorkerTake
  <2>2. Elements(queue) = Elements(queue') \cup {hand'}
    BY <2>1, HeadElements DEF TypeOK
  <2>3. hand' # NoEntry BY <2>1, HeadTailProperties DEF TypeOK
  <2>4. Elements(queue)' = Elements(queue') BY DEF Elements
  <2>5. \A q \in Req : IsStored(q)' <=> IsStored(q) BY <2>1 DEF IsStored
  <2>6. Entries' = Elements(queue)' \cup {r \in Req : IsStored(r)'} \cup ({hand'} \ {NoEntry})
    BY DEF Entries, Elements
  <2>. QED BY <2>1, <2>2, <2>3, <2>4, <2>5, <2>6, EntriesAre
<1>2. CASE WorkerInsert
  <2>1. hand \in Req /\ hand' = NoEntry /\ UNCHANGED queue
    BY <1>2 DEF WorkerInsert, TypeOK
  <2>2. \/ stored' = Append(stored, hand) /\ missing' = missing
        \/ stored' = stored /\ missing' = missing \cup {hand}
    BY <1>2 DEF WorkerInsert
  <2>3. \A r \in Req : IsStored(r) <=> r \in Elements(stored)
    BY DEF IsStored, Elements
  <2>4. \A r \in Req : IsStored(r)' <=> r \in Elements(stored')
    BY DEF IsStored, Elements
  <2>5. Elements(Append(stored, hand)) = Elements(stored) \cup {hand}
    BY <2>1, AppendElements DEF TypeOK
  <2>6. Elements(queue)' = Elements(queue) BY <2>1 DEF Elements
  <2>7. Entries' = Elements(queue)' \cup {r \in Req : IsStored(r)'} \cup ({hand'} \ {NoEntry})
    BY DEF Entries, Elements
  <2>. QED BY <2>1, <2>2, <2>3, <2>4, <2>5, <2>6, <2>7, EntriesAre
<1>. QED BY <1>1, <1>2 DEF Worker

LEMMA CrashEntries ==
    ASSUME TypeOK, Crash
    PROVE  /\ Entries' \subseteq Entries
           /\ Entries \cup missing \subseteq Entries' \cup missing'
<1>1. /\ queue' = <<>> /\ hand' = NoEntry /\ UNCHANGED stored
      /\ missing' = missing \cup Elements(queue) \cup ({hand} \ {NoEntry})
  BY DEF Crash, Elements
<1>2. \A r \in Req : IsStored(r)' <=> IsStored(r) BY <1>1 DEF IsStored
<1>3. Elements(queue)' = {} BY <1>1, EmptySeq DEF Elements
<1>4. Entries' = Elements(queue)' \cup {r \in Req : IsStored(r)'} \cup ({hand'} \ {NoEntry})
  BY DEF Entries, Elements
<1>. QED BY <1>1, <1>2, <1>3, <1>4, EntriesAre

-----------------------------------------------------------------------------
\* An entry belongs to a request that is over, and to a call that succeeded.
EntryInv ==
    \A r \in Entries :
        /\ pc[r] \in {"done", "cut"}
        /\ kind[r] \in CallKind =>
               r \notin late /\ phase[r] = "ended" /\ accepted[r] = {"success"}

AuditInv == EntryInv /\ AnsweredIsAudited

\* A step keeps AuditInv if the requests that are over stay as they are, what
\* is new in the log is from a request that succeeded, and what is new in the
\* answers is logged or lost.
LEMMA AuditFrame ==
    ASSUME TypeOK, AuditInv,
           \A r \in Req : pc[r] \in {"done", "cut"} =>
               /\ pc'[r] = pc[r] /\ kind'[r] = kind[r] /\ reply'[r] = reply[r]
               /\ phase'[r] = phase[r] /\ accepted'[r] = accepted[r]
               /\ r \in late' => r \in late,
           Entries \cup missing \subseteq Entries' \cup missing',
           \A r \in Entries' \ Entries :
               /\ pc'[r] \in {"done", "cut"}
               /\ kind'[r] \in CallKind =>
                      r \notin late' /\ phase'[r] = "ended" /\ accepted'[r] = {"success"},
           \A r \in Req : /\ pc[r] \notin {"done", "cut"}
                           /\ reply'[r] = "ok" /\ kind'[r] # "logout"
                           => \/ r \in Entries' \cup missing'
                              \/ kind'[r] = "rpc" /\ pc'[r] \in {"log", "cut"}
    PROVE  AuditInv'
<1>1. EntryInv'
  <2> SUFFICES ASSUME NEW r \in Entries'
               PROVE  /\ pc'[r] \in {"done", "cut"}
                      /\ kind'[r] \in CallKind =>
                             r \notin late' /\ phase'[r] = "ended" /\ accepted'[r] = {"success"}
    BY DEF EntryInv
  <2>1. CASE r \in Entries BY <2>1, EntriesType DEF AuditInv, EntryInv
  <2>2. CASE r \notin Entries BY <2>2
  <2>. QED BY <2>1, <2>2
<1>2. AnsweredIsAudited'
  <2> SUFFICES ASSUME NEW r \in Req, reply'[r] = "ok", kind'[r] # "logout"
               PROVE  \/ r \in Entries' \cup missing'
                      \/ kind'[r] = "rpc" /\ pc'[r] \in {"log", "cut"}
    BY DEF AnsweredIsAudited
  <2>1. CASE pc[r] \in {"done", "cut"} BY <2>1 DEF AuditInv, AnsweredIsAudited
  <2>2. CASE pc[r] \notin {"done", "cut"} BY <2>2
  <2>. QED BY <2>1, <2>2
<1>. QED BY <1>1, <1>2 DEF AuditInv

LEMMA NextAudit == TypeOK /\ FlowInv /\ SessionInv /\ AuditInv /\ [Next]_vars => AuditInv'
<1> SUFFICES ASSUME TypeOK, FlowInv, SessionInv, AuditInv, [Next]_vars PROVE AuditInv'
  OBVIOUS
<1>0. \A q \in Req : reply[q] = "ok" /\ kind[q] # "logout"
          => \/ q \in Entries \cup missing
             \/ kind[q] = "rpc" /\ pc[q] \in {"log", "cut"}
  BY DEF AuditInv, AnsweredIsAudited
<1>1. CASE UNCHANGED vars
  <2>1. UNCHANGED <<requestVars, contractVars, auditVars>> BY <1>1 DEF vars
  <2>. QED BY <1>0, <2>1, SameEntries, AuditFrame DEF requestVars, contractVars, auditVars
<1>2. ASSUME NEW r \in Req, Handler(r) PROVE AuditInv'
  <2>1. \A q \in Req \ {r} : /\ pc'[q] = pc[q] /\ kind'[q] = kind[q] /\ reply'[q] = reply[q]
                             /\ phase'[q] = phase[q] /\ accepted'[q] = accepted[q]
    BY <1>2, HandlerFrame
  <2>2. pc[r] \notin {"done", "cut"} /\ UNCHANGED <<late, kind, accepted>>
    BY <1>2, HandlerFrame
       DEF Handler, Authorize, Login, Logout, Find, CallReturns, LocalWork, Log
  <2>3. Flow(r) BY DEF FlowInv
  <2>4. CASE Log(r)
    <3>1. pc[r] = "log" /\ pc'[r] = "done" /\ UNCHANGED phase
      BY <2>4 DEF Log, Return, Goto, TypeOK, contractVars
    <3>2. r \notin late BY <3>1 DEF SessionInv
    <3>3. /\ Entries' \subseteq Entries \cup {r}
          /\ Entries \cup missing \cup {r} \subseteq Entries' \cup missing'
      BY <2>4, LogEntries
    <3>4. kind[r] \in CallKind => phase[r] = "ended" /\ accepted[r] = {"success"}
      BY <2>3, <3>1 DEF Flow
    <3>. QED BY <1>0, <2>1, <2>2, <3>1, <3>2, <3>3, <3>4, AuditFrame
  <2>5. CASE ~Log(r)
    <3>1. UNCHANGED auditVars
      BY <1>2, <2>5 DEF Handler, Authorize, Login, Logout, Find, CallReturns, LocalWork
    <3>2. Entries' = Entries /\ missing' = missing BY <3>1, SameEntries DEF auditVars
    <3>3. reply'[r] = "ok" => kind[r] = "logout" \/ (kind[r] = "rpc" /\ pc'[r] = "log")
      BY <1>2, <2>3, <2>5
         DEF Handler, Authorize, Login, Logout, Find, CallReturns, LocalWork, Return, Goto,
             TypeOK, Flow
    <3>. QED BY <1>0, <2>1, <2>2, <3>2, <3>3, AuditFrame
  <2>. QED BY <2>4, <2>5
<1>3. CASE Worker
  <2>1. UNCHANGED <<requestVars, contractVars>>
    BY <1>3 DEF Worker, WorkerTake, WorkerInsert
  <2>. QED BY <1>0, <1>3, <2>1, WorkerEntries, AuditFrame DEF requestVars, contractVars
<1>4. CASE Crash
  <2>1. /\ UNCHANGED <<kind, reply, late, phase, accepted>>
        /\ \A q \in Req : pc'[q] = IF IsRunning(q) THEN "cut" ELSE pc[q]
    BY <1>4 DEF Crash, contractVars
  <2>. QED BY <1>0, <1>4, <2>1, CrashEntries, AuditFrame DEF IsRunning, Running
<1>5. CASE Tick \/ SessionSweep
  <2>1. UNCHANGED <<requestVars, contractVars, auditVars>>
    BY <1>5 DEF Tick, SessionSweep
  <2>. QED BY <1>0, <2>1, SameEntries, AuditFrame DEF requestVars, contractVars, auditVars
<1>6. ASSUME NEW r \in Req, Refuse(r) PROVE AuditInv'
  <2>1. /\ pc[r] = "new" /\ pc' = [pc EXCEPT ![r] = "done"]
        /\ reply' = [reply EXCEPT ![r] = "error"]
        /\ UNCHANGED <<kind, late, phase, accepted, auditVars>>
    BY <1>6 DEF Refuse, Goto, contractVars
  <2>. QED BY <1>0, <2>1, SameEntries, AuditFrame DEF auditVars, TypeOK
<1>7. ASSUME NEW r \in Req, NEW k \in Kind, NEW c \in Issued \cup {NoSession}, Enter(r, k, c)
      PROVE  AuditInv'
  <2>1. /\ pc[r] = "new" /\ kind' = [kind EXCEPT ![r] = k]
        /\ \A q \in Req \ {r} : pc'[q] = pc[q] /\ (q \in late' => q \in late)
        /\ pc'[r] # "done"
        /\ UNCHANGED <<reply, phase, accepted, auditVars>>
    BY <1>7 DEF Enter, Goto, contractVars, Kind, Guarded, TypeOK
  <2>2. reply[r] # "ok" BY <2>1 DEF FlowInv, Flow
  <2>. QED BY <1>0, <2>1, <2>2, SameEntries, AuditFrame DEF auditVars, TypeOK
<1>8. ASSUME NEW r \in Req, NEW a \in Answer, AgentAnswers(r, a) PROVE AuditInv'
  <2>1. /\ pc[r] = "call" /\ accepted' = [accepted EXCEPT ![r] = {a}]
        /\ UNCHANGED <<requestVars, phase, auditVars>>
    BY <1>8 DEF AgentAnswers, Accept
  <2>. QED BY <1>0, <2>1, SameEntries, AuditFrame DEF auditVars, requestVars, TypeOK
<1>9. ASSUME NEW r \in Req, Body(r) \/ BadRequest(r) \/ CallHangs(r) PROVE AuditInv'
  <2>1. /\ pc[r] \in {"body", "logout", "call"} /\ \A q \in Req \ {r} : pc'[q] = pc[q]
        /\ reply'[r] # "ok" \/ reply'[r] = reply[r]
        /\ \A q \in Req \ {r} : reply'[q] = reply[q]
        /\ UNCHANGED <<kind, late, phase, accepted, auditVars>>
    BY <1>9 DEF Body, BadRequest, CallHangs, Return, Goto, contractVars, TypeOK
  <2>2. UNCHANGED <<queue, hand, stored, missing>> BY <2>1 DEF auditVars
  <2>3. reply[r] # "ok" BY <2>1 DEF FlowInv, Flow
  <2>. QED BY <1>0, <2>1, <2>2, <2>3, SameEntries, AuditFrame
<1>. QED BY <1>1, <1>2, <1>3, <1>4, <1>5, <1>6, <1>7, <1>8, <1>9 DEF Next

LEMMA AuditHolds == Spec => []AuditInv
<1>1. Init => AuditInv
  <2> SUFFICES ASSUME Init PROVE AuditInv
    OBVIOUS
  <2>1. Entries = {} BY EmptySeq DEF Init, Entries, IsStored
  <2>. QED BY <2>1 DEF Init, AuditInv, EntryInv, AnsweredIsAudited
<1>. QED BY <1>1, FlowHolds, NextAudit, PTL DEF Spec

\* The audit log says of a call that it succeeded only if the agent said so
\* and the caller had a session (api.go:261, api.go:344).
THEOREM AuditNeverLies == Spec => []AuditIsTruthful
<1>1. AuditInv => AuditIsTruthful
  BY DEF AuditInv, EntryInv, AuditIsTruthful, CallKind
<1>. QED BY <1>1, AuditHolds, PTL

\* What a client was told to be done is logged, or its entry is lost
\* (logger.go:77); all but an RPC, whose answer comes before its entry
\* (api.go:258).
THEOREM AuditKnowsLosses == Spec => []AnsweredIsAudited
<1>1. AuditInv => AnsweredIsAudited BY DEF AuditInv
<1>. QED BY <1>1, AuditHolds, PTL

-----------------------------------------------------------------------------
(***************************************************************************)
(* The queue and its worker implement the abstract log.                    *)
(***************************************************************************)
InHand == IF hand = NoEntry THEN <<>> ELSE <<hand>>
TrailOf == stored \o InHand \o queue

LEMMA ConcatElements ==
    ASSUME NEW S, NEW s \in Seq(S), NEW t \in Seq(S), NEW i \in 1..Len(s \o t)
    PROVE  (s \o t)[i] \in Elements(s) \cup Elements(t)
<1>1. /\ Len(s \o t) = Len(s) + Len(t)
      /\ (s \o t)[i] = IF i <= Len(s) THEN s[i] ELSE t[i - Len(s)]
  BY ConcatProperties
<1>2. Len(s) \in Nat /\ Len(t) \in Nat BY LenProperties
<1>3. CASE i <= Len(s)
  <2>1. i \in 1..Len(s) BY <1>2, <1>3
  <2>. QED BY <1>1, <1>3, <2>1 DEF Elements
<1>4. CASE ~(i <= Len(s))
  <2>1. i - Len(s) \in 1..Len(t) BY <1>1, <1>2, <1>4
  <2>. QED BY <1>1, <1>4, <2>1 DEF Elements
<1>. QED BY <1>3, <1>4

LEMMA TrailType ==
    ASSUME TypeOK
    PROVE  /\ InHand \in Seq(Req) /\ stored \o InHand \in Seq(Req) /\ TrailOf \in Seq(Req)
           /\ Len(TrailOf) = Len(stored) + Len(InHand) + Len(queue)
<1>1. stored \in Seq(Req) /\ queue \in Seq(Req) BY DEF TypeOK
<1>2. InHand \in Seq(Req) BY DEF InHand, TypeOK
<1>3. stored \o InHand \in Seq(Req) /\ Len(stored \o InHand) = Len(stored) + Len(InHand)
  BY <1>1, <1>2, ConcatProperties
<1>. QED BY <1>1, <1>2, <1>3, ConcatProperties DEF TrailOf

LEMMA TrailElements ==
    ASSUME TypeOK, NEW i \in 1..Len(TrailOf)
    PROVE  TrailOf[i] \in Entries
<1>1. stored \in Seq(Req) /\ queue \in Seq(Req) /\ InHand \in Seq(Req)
      /\ stored \o InHand \in Seq(Req)
  BY TrailType DEF TypeOK
<1>2. CASE TrailOf[i] \in Elements(queue) BY <1>2, EntriesAre
<1>3. CASE TrailOf[i] \in Elements(stored \o InHand)
  <2>1. PICK j \in 1..Len(stored \o InHand) : TrailOf[i] = (stored \o InHand)[j]
    BY <1>3 DEF Elements
  <2>2. TrailOf[i] \in Elements(stored) \cup Elements(InHand)
    BY <1>1, <2>1, ConcatElements
  <2>3. \A e \in Elements(stored) : e \in Req /\ IsStored(e)
    BY <1>1, ElementOfSeq DEF Elements, IsStored
  <2>4. Elements(InHand) \subseteq {hand} \ {NoEntry}
    BY DEF Elements, InHand
  <2>. QED BY <2>2, <2>3, <2>4, EntriesAre
<1>. QED BY <1>1, <1>2, <1>3, ConcatElements DEF TrailOf

LEMMA TrailStutter ==
    ASSUME UNCHANGED <<queue, hand, stored>>
    PROVE  UNCHANGED Audit!trailVars
BY DEF Audit!trailVars

LEMMA TrailLog ==
    ASSUME TypeOK, AuditInv, NEW r \in Req, Log(r)
    PROVE  Audit!Add(r) \/ UNCHANGED Audit!trailVars
<1>1. pc[r] = "log" /\ UNCHANGED <<hand, stored>> BY DEF Log
<1>2. CASE queue' = queue BY <1>1, <1>2, TrailStutter
<1>3. CASE queue' # queue
  <2>1. queue' = Append(queue, r) BY <1>3 DEF Log
  <2>2. r \notin Entries BY <1>1 DEF AuditInv, EntryInv
  <2>3. \A i \in 1..Len(TrailOf) : TrailOf[i] # r BY <2>2, TrailElements
  <2>4. queue \in Seq(Req) /\ stored \o InHand \in Seq(Req) /\ <<r>> \in Seq(Req)
    BY TrailType DEF TypeOK
  <2>5. (stored \o InHand) \o Append(queue, r) = ((stored \o InHand) \o queue) \o <<r>>
    BY SMTT(20), <2>4, AppendIsConcat, ConcatAssociative
  <2>6. TrailOf \o <<r>> = Append(TrailOf, r) BY TrailType, AppendIsConcat
  <2>7. InHand' = InHand BY <1>1 DEF InHand
  <2>8. TrailOf' = Append(TrailOf, r) BY <1>1, <2>1, <2>5, <2>6, <2>7 DEF TrailOf
  <2>. QED BY <1>1, <2>3, <2>8 DEF Audit!Add, TrailOf, InHand
<1>. QED BY <1>2, <1>3

LEMMA TrailTake ==
    ASSUME TypeOK, WorkerTake
    PROVE  UNCHANGED Audit!trailVars
<1>1. /\ hand = NoEntry /\ queue # <<>> /\ hand' = Head(queue) /\ queue' = Tail(queue)
      /\ UNCHANGED stored
  BY DEF WorkerTake
<1>2. stored \in Seq(Req) /\ queue \in Seq(Req) BY DEF TypeOK
<1>3. Head(queue) \in Req /\ Tail(queue) \in Seq(Req) BY <1>1, <1>2, HeadTailProperties
<1>4. <<Head(queue)>> \o Tail(queue) = queue
  <2>1. 1 \in 1..Len(queue) /\ Len(queue) \in 1..Len(queue)
    BY <1>1, <1>2, EmptySeq
  <2>2. SubSeq(queue, 1, Len(queue)) = <<queue[1]>> \o SubSeq(queue, 1 + 1, Len(queue))
    BY <1>2, <2>1, SubSeqRecursiveFirst
  <2>3. SubSeq(queue, 1, Len(queue)) = queue BY <1>2, SubSeqFull
  <2>4. Tail(queue) = SubSeq(queue, 2, Len(queue)) BY <1>1, <1>2, TailIsSubSeq
  <2>5. Head(queue) = queue[1] BY <1>2
  <2>. QED BY <2>2, <2>3, <2>4, <2>5
<1>5. InHand = <<>> /\ InHand' = <<Head(queue)>> BY <1>1, <1>3 DEF InHand
<1>6. stored \o <<>> = stored BY <1>2, ConcatEmptySeq
<1>7. (stored \o <<Head(queue)>>) \o Tail(queue) = stored \o (<<Head(queue)>> \o Tail(queue))
  BY <1>2, <1>3, ConcatAssociative
<1>8. TrailOf' = TrailOf BY <1>1, <1>4, <1>5, <1>6, <1>7 DEF TrailOf
<1>. QED BY <1>1, <1>8 DEF Audit!trailVars, TrailOf, InHand

\* The beginning and the end of a concatenation.
LEMMA TrailPrefix ==
    ASSUME NEW S, NEW s \in Seq(S), NEW t \in Seq(S)
    PROVE  SubSeq(s \o t, 1, Len(s)) = s
<1>1. /\ Len(s) \in Nat
      /\ \A i \in 1..Len(s) + Len(t) : (s \o t)[i] = IF i <= Len(s) THEN s[i] ELSE t[i - Len(s)]
  BY LenProperties, ConcatProperties
<1>2. Len(t) \in Nat BY LenProperties
<1>3. \A i \in 1..Len(s) : (s \o t)[i] = s[i] /\ s[i] \in S
  BY <1>1, <1>2, ElementOfSeq
<1>4. /\ SubSeq(s \o t, 1, Len(s)) \in Seq(S)
      /\ Len(SubSeq(s \o t, 1, Len(s))) = IF 1 <= Len(s) THEN Len(s) - 1 + 1 ELSE 0
      /\ \A i \in 1..Len(s) - 1 + 1 : SubSeq(s \o t, 1, Len(s))[i] = (s \o t)[1 + i - 1]
  BY <1>1, <1>3, SubSeqProperties
<1>5. Len(SubSeq(s \o t, 1, Len(s))) = Len(s) BY <1>1, <1>4
<1>6. \A i \in 1..Len(s) : SubSeq(s \o t, 1, Len(s))[i] = s[i] BY <1>1, <1>3, <1>4
<1>. QED BY <1>4, <1>5, <1>6, SeqEqual

LEMMA TrailSuffix ==
    ASSUME NEW S, NEW s \in Seq(S), NEW t \in Seq(S)
    PROVE  SubSeq(s \o t, Len(s) + 1, Len(s \o t)) = t
<1>1. /\ Len(s \o t) = Len(s) + Len(t)
      /\ \A i \in 1..Len(s) + Len(t) : (s \o t)[i] = IF i <= Len(s) THEN s[i] ELSE t[i - Len(s)]
  BY ConcatProperties
<1>2. Len(s) \in Nat /\ Len(t) \in Nat BY LenProperties
<1> DEFINE m == Len(s) + 1
           n == Len(s) + Len(t)
<1>3. \A i \in 1..Len(t) : (s \o t)[Len(s) + i] = t[i] /\ t[i] \in S
  BY <1>1, <1>2, ElementOfSeq
<1>4. \A i \in m..n : (s \o t)[i] \in S
  <2> SUFFICES ASSUME NEW i \in m..n PROVE (s \o t)[i] \in S
    OBVIOUS
  <2>1. i - Len(s) \in 1..Len(t) /\ Len(s) + (i - Len(s)) = i BY <1>2
  <2>. QED BY <1>3, <2>1
<1>5. /\ SubSeq(s \o t, m, n) \in Seq(S)
      /\ Len(SubSeq(s \o t, m, n)) = IF m <= n THEN n - m + 1 ELSE 0
      /\ \A i \in 1..n - m + 1 : SubSeq(s \o t, m, n)[i] = (s \o t)[m + i - 1]
  <2>1. m \in Int /\ n \in Int BY <1>2
  <2>. QED BY <1>4, <2>1, SubSeqProperties
<1>6. Len(SubSeq(s \o t, m, n)) = Len(t) BY <1>2, <1>5
<1>7. \A i \in 1..Len(t) : SubSeq(s \o t, m, n)[i] = t[i] 
  <2> SUFFICES ASSUME NEW i \in 1..Len(t) PROVE SubSeq(s \o t, m, n)[i] = t[i]
    OBVIOUS
  <2>1. i \in 1..n - m + 1 /\ m + i - 1 = Len(s) + i BY <1>2
  <2>. QED BY <1>3, <1>5, <2>1
<1>8. SubSeq(s \o t, m, n) = t BY <1>5, <1>6, <1>7, SeqEqual
<1>. QED BY <1>1, <1>8

LEMMA TrailInsert ==
    ASSUME TypeOK, WorkerInsert
    PROVE  Audit!Write \/ Audit!Lose
<1>1. hand \in Req /\ hand # NoEntry /\ hand' = NoEntry /\ UNCHANGED queue
  BY DEF WorkerInsert, TypeOK
<1>2. stored \in Seq(Req) /\ queue \in Seq(Req) /\ Len(stored) \in Nat
  BY LenProperties DEF TypeOK
<1>3. InHand = <<hand>> /\ InHand' = <<>> BY <1>1 DEF InHand
<1>4. Len(TrailOf) = Len(stored) + 1 + Len(queue) /\ Len(queue) \in Nat
  BY <1>2, <1>3, TrailType, LenProperties
<1>5. Len(stored) < Len(TrailOf) BY <1>2, <1>4
<1>6. stored \o <<hand>> = Append(stored, hand) BY <1>1, <1>2, AppendIsConcat
<1>7. CASE stored' = Append(stored, hand)
  <2>1. Append(stored, hand) \in Seq(Req) /\ Len(Append(stored, hand)) = Len(stored) + 1
    BY <1>1, <1>2, AppendProperties
  <2>2. Append(stored, hand) \o <<>> = Append(stored, hand) BY <2>1, ConcatEmptySeq
  <2>3. TrailOf' = TrailOf BY <1>1, <1>3, <1>6, <1>7, <2>2 DEF TrailOf
  <2>4. Len(stored)' = Len(stored) + 1 BY <1>7, <2>1
  <2>. QED BY <1>5, <2>3, <2>4 DEF Audit!Write, TrailOf, InHand
<1>8. CASE stored' = stored
  <2>1. <<hand>> \in Seq(Req) /\ Len(<<hand>>) = 1 BY <1>1
  <2>2. TrailOf = stored \o (<<hand>> \o queue)
    BY <1>2, <1>3, <2>1, ConcatAssociative DEF TrailOf
  <2>3. SubSeq(TrailOf, 1, Len(stored)) = stored
    <3>1. <<hand>> \o queue \in Seq(Req) BY <1>2, <2>1, ConcatProperties
    <3>. QED BY <1>2, <2>2, <3>1, TrailPrefix
  <2>4. SubSeq(TrailOf, Len(stored) + 2, Len(TrailOf)) = queue
    <3>1. stored \o <<hand>> \in Seq(Req) /\ Len(stored \o <<hand>>) = Len(stored) + 1
      BY <1>2, <2>1, ConcatProperties
    <3>2. SubSeq((stored \o <<hand>>) \o queue, Len(stored \o <<hand>>) + 1,
                 Len((stored \o <<hand>>) \o queue)) = queue
      BY <1>2, <3>1, TrailSuffix
    <3>3. TrailOf = (stored \o <<hand>>) \o queue BY <1>3 DEF TrailOf
    <3>4. (Len(stored) + 1) + 1 = Len(stored) + 2 BY <1>2
    <3>. QED BY <3>1, <3>2, <3>3, <3>4
  <2>5. stored \o <<>> = stored BY <1>2, ConcatEmptySeq
  <2>6. TrailOf' = stored \o queue BY <1>1, <1>3, <1>8, <2>5 DEF TrailOf
  <2>7. TrailOf' = SubSeq(TrailOf, 1, Len(stored))
                       \o SubSeq(TrailOf, Len(stored) + 2, Len(TrailOf))
    BY <2>3, <2>4, <2>6
  <2>. QED BY <1>5, <1>8, <2>7 DEF Audit!Lose, TrailOf, InHand
<1>. QED BY <1>7, <1>8 DEF WorkerInsert

LEMMA TrailCrash ==
    ASSUME TypeOK, Crash
    PROVE  Audit!LoseAll
<1>1. queue' = <<>> /\ hand' = NoEntry /\ UNCHANGED stored BY DEF Crash
<1>2. stored \in Seq(Req) /\ queue \in Seq(Req) /\ InHand \in Seq(Req)
  BY TrailType DEF TypeOK
<1>3. TrailOf = stored \o (InHand \o queue) BY SMTT(20), <1>2, ConcatAssociative DEF TrailOf
<1>4. InHand \o queue \in Seq(Req) BY <1>2, ConcatProperties
<1>5. SubSeq(TrailOf, 1, Len(stored)) = stored BY <1>2, <1>3, <1>4, TrailPrefix
<1>6. InHand' = <<>> BY <1>1 DEF InHand
<1>7. (stored \o <<>>) \o <<>> = stored BY <1>2, ConcatEmptySeq
<1>8. TrailOf' = stored BY <1>1, <1>6, <1>7 DEF TrailOf
<1>. QED BY <1>1, <1>5, <1>8 DEF Audit!LoseAll, TrailOf, InHand

\* Entries are written in the order in which they were logged, once, and stay
\* written (logger.go:55): the logger implements AuditTrail.
THEOREM LoggerImplementsTrail == Spec => ImplementsTrail
<1>1. Init => Audit!TrailInit
  <2> SUFFICES ASSUME Init PROVE Audit!TrailInit
    OBVIOUS
  <2>1. stored = <<>> /\ queue = <<>> /\ InHand = <<>> BY DEF Init, InHand
  <2>2. (<<>> \o <<>>) \o <<>> = <<>> /\ Len(<<>>) = 0 BY ConcatEmptySeq, EmptySeq
  <2>3. TrailOf = <<>> /\ Len(stored) = 0 BY <2>1, <2>2 DEF TrailOf
  <2>. QED BY <2>3 DEF Audit!TrailInit, TrailOf, InHand
<1>2. TypeOK /\ AuditInv /\ [Next]_vars => [Audit!TrailNext]_(Audit!trailVars)
  <2> SUFFICES ASSUME TypeOK, AuditInv, [Next]_vars
               PROVE  Audit!TrailNext \/ UNCHANGED Audit!trailVars
    OBVIOUS
  <2>1. ASSUME NEW r \in Req, Handler(r) PROVE Audit!TrailNext \/ UNCHANGED Audit!trailVars
    <3>1. CASE Log(r)
      <4>1. Audit!Add(r) => Audit!TrailNext BY DEF Audit!TrailNext
      <4>. QED BY <3>1, <4>1, TrailLog
    <3>2. CASE ~Log(r)
      <4>1. UNCHANGED auditVars
        BY <2>1, <3>2 DEF Handler, Authorize, Login, Logout, Find, CallReturns, LocalWork
      <4>. QED BY <4>1, TrailStutter DEF auditVars
    <3>. QED BY <3>1, <3>2
  <2>2. CASE Worker
    <3>1. Audit!Write \/ Audit!Lose => Audit!TrailNext BY DEF Audit!TrailNext
    <3>. QED BY <2>2, <3>1, TrailTake, TrailInsert DEF Worker
  <2>3. CASE Crash
    <3>1. Audit!LoseAll => Audit!TrailNext BY DEF Audit!TrailNext
    <3>. QED BY <2>3, <3>1, TrailCrash
  <2>4. CASE UNCHANGED auditVars BY <2>4, TrailStutter DEF auditVars
  <2>5. ASSUME NEW r \in Req, Refuse(r) PROVE UNCHANGED auditVars BY <2>5 DEF Refuse
  <2>6. ASSUME NEW r \in Req, NEW k \in Kind, NEW c \in Issued \cup {NoSession}, Enter(r, k, c)
        PROVE  UNCHANGED auditVars
    BY <2>6 DEF Enter
  <2>7. ASSUME NEW r \in Req, NEW a \in Answer, AgentAnswers(r, a) PROVE UNCHANGED auditVars
    BY <2>7 DEF AgentAnswers
  <2>9. ASSUME NEW r \in Req, Body(r) \/ BadRequest(r) \/ CallHangs(r)
        PROVE  UNCHANGED auditVars
    BY <2>9 DEF Body, BadRequest, CallHangs
  <2>8. Tick \/ SessionSweep \/ UNCHANGED vars => UNCHANGED auditVars
    BY DEF Tick, SessionSweep, vars
  <2>. QED BY <2>1, <2>2, <2>3, <2>4, <2>5, <2>6, <2>7, <2>8, <2>9 DEF Next
<1>. QED BY <1>1, <1>2, AuditHolds, FlowHolds, PTL
         DEF Spec, ImplementsTrail, Audit!Trail
=============================================================================
