--------------------------- MODULE McpServerProofs ---------------------------
(***************************************************************************)
(* Theorems about the MCP server, for every set of clients, session ids,   *)
(* sessions, devices and streams, and every timeout.                       *)
(***************************************************************************)
EXTENDS McpServerProps, FiniteSetTheorems, TLAPS

USE McpNamesAssumption, LinkerAssumption, McpTimesAssumption

-----------------------------------------------------------------------------
(***************************************************************************)
(* Type correctness, with what is known of a request at each of its steps. *)
(***************************************************************************)
\* A request has a session while it runs, a device while it asks, and has
\* asked no other.
ToolInv ==
    \A r \in Request :
        /\ pc[r] = "idle" <=> holds[r] = NoSession
        /\ pc[r] \in Calling \cup {"set"} => target[r] \in Device
        /\ pc[r] \in {"idle", "body", "tool", "set"} => asked[r] = {}
        /\ asked[r] \subseteq {target[r]}

\* The end of a request keeps both.
LEMMA FinishTypeOK ==
    ASSUME TypeOK, ToolInv, NEW r \in Request, Finish(r),
           UNCHANGED <<table, idle, closed, reading, frozen>>,
           chosen' \in [Session -> Device \cup {NoDevice}]
    PROVE  TypeOK' /\ ToolInv'
<1>1. TypeOK' BY DEF TypeOK, Finish, Goto
<1>2. ToolInv' BY DEF TypeOK, ToolInv, Finish, Goto, Calling
<1>. QED BY <1>1, <1>2

\* So does a further call.
LEMMA CallTypeOK ==
    ASSUME TypeOK, ToolInv, NEW r \in Request, pc[r] \in Calling, Ask(r),
           NEW step \in Calling \cup {"wait"}, pc' = [pc EXCEPT ![r] = step],
           rest' \in [Request -> Nat],
           UNCHANGED <<table, idle, chosen, closed, holds, held, target, settled, reading, frozen>>
    PROVE  TypeOK' /\ ToolInv'
<1>1. asked' = [asked EXCEPT ![r] = asked[r] \cup {target[r]}] /\ target[r] \in Device
  BY DEF Ask, ToolInv
<1>2. TypeOK' BY <1>1 DEF TypeOK
<1>3. ToolInv' BY <1>1 DEF TypeOK, ToolInv, Calling
<1>. QED BY <1>2, <1>3

\* A step of a request that is in a tool.
LEMMA WorkTypeOK ==
    ASSUME TypeOK, ToolInv, NEW r \in Request, Work(r)
    PROVE  TypeOK' /\ ToolInv'
<1>1. CASE Finish(r)
  <2>1. UNCHANGED <<table, idle, closed, reading, frozen>>
    BY DEF Work, Answer, SelectSet, FilesEnds, InfoEnds, EmptyEnds, Compress,
           UploadInfo, Upload, CallEnds, Poll, sessionVars
  <2>2. SelectSet(r) \/ chosen' = chosen
    BY DEF Work, Answer, FilesEnds, InfoEnds, EmptyEnds, Compress, UploadInfo, Upload,
           CallEnds, Poll, sessionVars
  <2>3. chosen' \in [Session -> Device \cup {NoDevice}]
    BY <2>2 DEF SelectSet, TypeOK
  <2>. QED BY <1>1, <2>1, <2>3, FinishTypeOK
<1>2. CASE ~Finish(r) /\ pc[r] = "wait"
  <2>1. Poll(r) /\ rest[r] # 0
    BY <1>2 DEF Work, Answer, SelectSet, FilesEnds, InfoEnds, EmptyEnds, Compress,
                UploadInfo, Upload, CallEnds, Poll
  <2>2. UNCHANGED <<table, idle, chosen, closed, pc, holds, held, target, asked, settled,
                    reading, frozen>>
    BY <1>2, <2>1 DEF Poll, sessionVars
  <2>3. rest' \in [Request -> Nat]
    BY <1>2, <2>1 DEF Poll, TypeOK
  <2>. QED BY <2>2, <2>3 DEF TypeOK, ToolInv
<1>3. CASE ~Finish(r) /\ pc[r] # "wait"
  <2>1. InfoEnds(r) \/ EmptyEnds(r) \/ Compress(r) \/ UploadInfo(r) \/ Upload(r)
    BY <1>3 DEF Work, Answer, SelectSet, FilesEnds, Poll
  <2>2. pc[r] \in Calling /\ Ask(r)
    BY <1>3, <2>1 DEF InfoEnds, EmptyEnds, Compress, UploadInfo, Upload, CallEnds, Calling
  <2>3. PICK step \in Calling \cup {"wait"} : pc' = [pc EXCEPT ![r] = step]
    <3>1. CASE pc' = pc
      BY <2>2, <3>1 DEF TypeOK
    <3>2. CASE pc' # pc
      BY <1>3, <2>1, <3>2
         DEF InfoEnds, EmptyEnds, Compress, UploadInfo, Upload, CallEnds, Calling, Goto
    <3>. QED BY <3>1, <3>2
  <2>4. UNCHANGED <<table, idle, chosen, closed, holds, held, target, settled, reading, frozen>>
    BY <1>3, <2>1
       DEF InfoEnds, EmptyEnds, Compress, UploadInfo, Upload, CallEnds, sessionVars
  <2>5. rest' \in [Request -> Nat]
    BY <1>3, <2>1
       DEF InfoEnds, EmptyEnds, Compress, UploadInfo, Upload, CallEnds, TypeOK
  <2>. QED BY <2>2, <2>3, <2>4, <2>5, CallTypeOK
<1>. QED BY <1>1, <1>2, <1>3

\* The steps that begin a request or one of its tools, and its upload.
LEMMA BeginTypeOK ==
    ASSUME TypeOK, ToolInv, NEW r \in Request,
           \/ HandleMessages(r) \/ Body(r) \/ UploadSettles(r)
           \/ Begin(r, "files") \/ Begin(r, "info")
           \/ \E d \in Device : SelectFind(r, d)
    PROVE  TypeOK' /\ ToolInv'
<1> USE DEF sessionVars, callVars, Goto, Calling
<1>1. ASSUME NEW i \in Id, Resume(r, i) PROVE TypeOK' /\ ToolInv'
  <2>1. TypeOK' BY <1>1 DEF Resume, TypeOK
  <2>2. ToolInv' BY <1>1 DEF Resume, TypeOK, ToolInv
  <2>. QED BY <2>1, <2>2
<1>2. ASSUME NEW i \in Id, Create(r, i) PROVE TypeOK' /\ ToolInv'
  <2>1. PICK s \in Session :
            /\ table' = [table EXCEPT ![i] = s] /\ chosen' = [chosen EXCEPT ![s] = NoDevice]
            /\ holds' = [holds EXCEPT ![r] = s] /\ closed' = closed \ {s}
    BY <1>2 DEF Create, Unreferenced
  <2>2. /\ pc[r] = "idle" /\ pc' = [pc EXCEPT ![r] = "body"]
        /\ idle' = [idle EXCEPT ![i] = 0]
        /\ UNCHANGED <<held, target, asked, rest, settled, reading, frozen>>
    BY <1>2 DEF Create
  <2>3. TypeOK' BY <2>1, <2>2 DEF TypeOK
  <2>4. ToolInv' BY <2>1, <2>2 DEF TypeOK, ToolInv
  <2>. QED BY <2>3, <2>4
<1>3. CASE UploadSettles(r)
  BY <1>3 DEF UploadSettles, TypeOK, ToolInv
<1>4. ASSUME NEW d \in Device, NEW step \in Calling \cup {"set"}, pc[r] = "tool",
             target' = [target EXCEPT ![r] = d], Goto(r, step),
             \/ step = "set" /\ UNCHANGED asked
             \/ step # "set" /\ asked' = [asked EXCEPT ![r] = {d}],
             UNCHANGED <<sessionVars, holds, held, rest, settled, reading, frozen>>
      PROVE  TypeOK' /\ ToolInv'
  <2>1. TypeOK' BY <1>4 DEF TypeOK
  <2>2. ToolInv' BY <1>4 DEF TypeOK, ToolInv
  <2>. QED BY <2>1, <2>2
<1>5. ASSUME NEW d \in Device, SelectFind(r, d) PROVE TypeOK' /\ ToolInv'
  BY <1>4, <1>5 DEF SelectFind
<1>6. ASSUME NEW step \in {"files", "info"}, Begin(r, step) PROVE TypeOK' /\ ToolInv'
  <2>1. holds[r] \in Session /\ chosen[holds[r]] \in Device
    BY <1>6 DEF Begin, TypeOK, ToolInv
  <2>. QED BY <1>4, <1>6, <2>1 DEF Begin
<1>7. CASE Body(r) /\ Finish(r)
  BY <1>7, FinishTypeOK DEF Body, TypeOK
<1>8. CASE Body(r) /\ ~Finish(r)
  <2>1. TypeOK' BY <1>8 DEF Body, TypeOK
  <2>2. ToolInv' BY <1>8 DEF Body, TypeOK, ToolInv
  <2>. QED BY <2>1, <2>2
<1>. QED BY <1>1, <1>2, <1>3, <1>5, <1>6, <1>7, <1>8 DEF HandleMessages

\* The clock, the clean-up and the streams.
LEMMA OtherTypeOK ==
    ASSUME TypeOK, ToolInv,
           \/ Tick \/ Sweep \/ Freeze
           \/ \E c \in Stream :
               \/ StreamClosed(c) \/ StreamLeft(c)
               \/ \E i \in Id : StreamOpen(c, i)
    PROVE  TypeOK' /\ ToolInv'
<1> USE DEF sessionVars, callVars, requestVars
<1>1. CASE Tick
  <2>1. \A t \in 0..Timeout + 1 : Older(t) \in 0..Timeout + 1 BY DEF Older
  <2>2. TypeOK' BY <1>1, <2>1 DEF Tick, TypeOK
  <2>3. ToolInv' BY <1>1 DEF Tick, ToolInv
  <2>. QED BY <2>2, <2>3
<1>2. CASE Sweep
  <2>1. TypeOK' BY <1>2 DEF Sweep, Expired, TypeOK
  <2>2. ToolInv' BY <1>2 DEF Sweep, ToolInv
  <2>. QED BY <2>1, <2>2
<1>3. ASSUME NEW c \in Stream, StreamClosed(c) \/ StreamLeft(c) PROVE TypeOK' /\ ToolInv'
  <2>1. TypeOK' BY <1>3 DEF StreamClosed, StreamLeft, TypeOK
  <2>2. ToolInv' BY <1>3 DEF StreamClosed, StreamLeft, ToolInv
  <2>. QED BY <2>1, <2>2
<1>4. ASSUME NEW c \in Stream, NEW i \in Id, StreamOpen(c, i) PROVE TypeOK' /\ ToolInv'
  <2>1. TypeOK' BY <1>4 DEF StreamOpen, TypeOK
  <2>2. ToolInv' BY <1>4 DEF StreamOpen, ToolInv
  <2>. QED BY <2>1, <2>2
<1>5. CASE Freeze
  BY <1>5 DEF Freeze, TypeOK, ToolInv
<1>. QED BY <1>1, <1>2, <1>3, <1>4, <1>5

LEMMA NextTypeOK == TypeOK /\ ToolInv /\ [Next]_vars => TypeOK' /\ ToolInv'
<1> SUFFICES ASSUME TypeOK, ToolInv, [Next]_vars PROVE TypeOK' /\ ToolInv'
  OBVIOUS
<1>1. CASE UNCHANGED vars
  BY <1>1 DEF vars, sessionVars, requestVars, callVars, TypeOK, ToolInv
<1>2. CASE Next
  BY <1>2, WorkTypeOK, BeginTypeOK, OtherTypeOK DEF Next
<1>. QED BY <1>1, <1>2

\* The variables of the sessions, requests and streams keep their types, and
\* a request asks the device it took.
THEOREM McpTypeCorrect == Spec => [](TypeOK /\ ToolInv)
<1>0. Init => frozen \in BOOLEAN BY Zenon DEF Init
<1>1. Init => TypeOK /\ ToolInv
  BY <1>0 DEF Init, TypeOK, ToolInv, Calling
<1>. QED BY <1>1, NextTypeOK, PTL DEF Spec

\* The calls of a request go to one device (tools.go:344), whatever the other
\* requests of its session select.
THEOREM CallsGoToOneDevice == Spec => []OneTarget
<1>1. TypeOK /\ ToolInv => OneTarget
  <2> SUFFICES ASSUME TypeOK, ToolInv, NEW r \in Request PROVE Cardinality(asked[r]) <= 1
    BY DEF OneTarget
  <2>1. asked[r] = {} \/ asked[r] = {target[r]} BY DEF ToolInv
  <2>2. Cardinality({}) = 0 /\ Cardinality({target[r]}) = 1
    BY FS_EmptySet, FS_Singleton
  <2>. QED BY <2>1, <2>2
<1>. QED BY <1>1, McpTypeCorrect, PTL

-----------------------------------------------------------------------------
(***************************************************************************)
(* What the table, the requests and the streams have in common.  The last  *)
(* part says why a session that the clean-up takes from a request has been *)
(* with it for longer than the timeout: a request counts as activity when  *)
(* it is given its session.                                                *)
(***************************************************************************)
SessionInv ==
    /\ \A i \in Id : table[i] # NoSession => table[i] \notin closed
    /\ \A i, j \in Id : table[i] = table[j] /\ i # j => table[i] = NoSession
    /\ \A r \in Request : holds[r] # NoSession =>
           Known(holds[r]) \/ (holds[r] \in closed /\ held[r] > Timeout)
    /\ \A c \in Stream : reading[c] # NoSession =>
           Known(reading[c]) \/ reading[c] \in closed
    /\ \A r \in Request, i \in Id :
           holds[r] # NoSession /\ holds[r] = table[i] => idle[i] <= held[r]

LEMMA InitSessionInv == Init => SessionInv
BY DEF Init, SessionInv

\* Requests that keep their session or give it back, and streams that end.
LEMMA QuietSessionInv ==
    ASSUME SessionInv, UNCHANGED <<table, idle, closed>>,
           \A r \in Request : \/ holds'[r] = NoSession
                              \/ holds'[r] = holds[r] /\ held'[r] = held[r],
           \A c \in Stream : reading'[c] \in {reading[c], NoSession}
    PROVE  SessionInv'
<1>1. \A s : Known(s) <=> Known(s)' BY DEF Known
<1>. QED BY <1>1 DEF SessionInv

\* The steps of a request between its first and its last.
LEMMA RequestSessionInv ==
    ASSUME TypeOK, SessionInv, NEW r \in Request,
           \/ Body(r) \/ Work(r) \/ UploadSettles(r)
           \/ Begin(r, "files") \/ Begin(r, "info")
           \/ \E d \in Device : SelectFind(r, d)
    PROVE  SessionInv'
<1>1. UNCHANGED <<table, idle, closed, reading, frozen>>
  BY DEF Body, Work, Answer, SelectSet, FilesEnds, InfoEnds, EmptyEnds, Compress, UploadInfo,
         Upload, CallEnds, Poll, UploadSettles, Begin, SelectFind, sessionVars
<1>2. Finish(r) \/ UNCHANGED holds
  BY DEF Body, Work, Answer, SelectSet, FilesEnds, InfoEnds, EmptyEnds, Compress, UploadInfo,
         Upload, CallEnds, Poll, UploadSettles, Begin, SelectFind
<1>3. Finish(r) \/ UNCHANGED <<holds, held>>
  BY DEF Body, Work, Answer, SelectSet, FilesEnds, InfoEnds, EmptyEnds, Compress, UploadInfo,
         Upload, CallEnds, Poll, UploadSettles, Begin, SelectFind
<1>4. ASSUME NEW q \in Request
      PROVE  holds'[q] = NoSession \/ (holds'[q] = holds[q] /\ held'[q] = held[q])
  BY <1>3 DEF Finish, TypeOK
<1>. QED BY <1>1, <1>4, QuietSessionInv

\* A request is given a session.
LEMMA HandleSessionInv ==
    ASSUME TypeOK, ToolInv, SessionInv, NEW r \in Request, NEW i \in Id,
           Resume(r, i) \/ Create(r, i)
    PROVE  SessionInv'
<1>1. CASE Resume(r, i)
  <2>1. /\ table[i] # NoSession /\ UNCHANGED <<table, closed, held, reading>>
        /\ idle' = [idle EXCEPT ![i] = 0] /\ holds' = [holds EXCEPT ![r] = table[i]]
    BY <1>1 DEF Resume
  <2>2. \A s : Known(s) <=> Known(s)' BY <2>1 DEF Known
  <2>3. Known(table[i]) BY DEF Known
  <2>4. \A q \in Request : holds'[q] = IF q = r THEN table[i] ELSE holds[q]
    BY <2>1 DEF TypeOK
  <2>5. \A j \in Id : idle'[j] = IF j = i THEN 0 ELSE idle[j]
    BY <2>1 DEF TypeOK
  <2>6. \A q \in Request : held[q] \in Nat /\ held[q] >= 0
    BY DEF TypeOK
  <2>. QED BY <2>1, <2>2, <2>3, <2>4, <2>5, <2>6 DEF SessionInv
<1>2. CASE Create(r, i)
  <2>1. PICK s \in Unreferenced :
            /\ table' = [table EXCEPT ![i] = s] /\ closed' = closed \ {s}
            /\ holds' = [holds EXCEPT ![r] = s]
    BY <1>2 DEF Create
  <2>2. /\ table[i] = NoSession /\ UNCHANGED <<held, reading>>
        /\ idle' = [idle EXCEPT ![i] = 0]
    BY <1>2 DEF Create
  <2>3. /\ s # NoSession /\ \A j \in Id : table[j] # s
        /\ \A q \in Request : holds[q] # s
        /\ \A c \in Stream : reading[c] # s
    BY DEF Unreferenced, Known
  <2>4. \A j \in Id : table'[j] = IF j = i THEN s ELSE table[j]
    BY <2>1 DEF TypeOK
  <2>5. \A j \in Id : idle'[j] = IF j = i THEN 0 ELSE idle[j]
    BY <2>2 DEF TypeOK
  <2>6. \A q \in Request : holds'[q] = IF q = r THEN s ELSE holds[q]
    BY <2>1 DEF TypeOK
  <2>7. Known(s)' BY <2>4 DEF Known
  <2>8. \A t : t # NoSession /\ Known(t) => Known(t)'
    BY <2>2, <2>4 DEF Known
  <2>9. \A q \in Request : held[q] \in Nat /\ held[q] >= 0
    BY DEF TypeOK
  <2>. QED BY <2>1, <2>2, <2>3, <2>4, <2>5, <2>6, <2>7, <2>8, <2>9 DEF SessionInv
<1>. QED BY <1>1, <1>2

\* The clock and the clean-up.
LEMMA TimeSessionInv ==
    ASSUME TypeOK, ToolInv, SessionInv, Tick \/ Sweep
    PROVE  SessionInv'
<1>1. CASE Tick
  <2>1. UNCHANGED <<table, closed, holds, reading>> BY <1>1 DEF Tick
  <2>2. \A s : Known(s) <=> Known(s)' BY <2>1 DEF Known
  <2>3. \A r \in Request : holds[r] # NoSession => held'[r] = Older(held[r])
    BY <1>1 DEF Tick, ToolInv
  <2>4. \A i \in Id : table[i] # NoSession => idle'[i] = Older(idle[i])
    BY <1>1 DEF Tick
  <2>5. \A t \in Nat : t > Timeout => Older(t) > Timeout
    BY DEF Older
  <2>6. \A t, u \in 0..Timeout + 1 : t <= u => Older(t) <= Older(u)
    BY DEF Older
  <2>7. /\ \A i \in Id : idle[i] \in 0..Timeout + 1
        /\ \A r \in Request : held[r] \in 0..Timeout + 1 /\ held[r] \in Nat
    BY DEF TypeOK
  <2>. QED BY <2>1, <2>2, <2>3, <2>4, <2>5, <2>6, <2>7 DEF SessionInv
<1>2. CASE Sweep
  <2>1. /\ closed' = closed \cup {table[i] : i \in Expired}
        /\ UNCHANGED <<holds, held, reading>>
    BY <1>2 DEF Sweep, requestVars
  <2>2. \A i \in Id : table'[i] = IF i \in Expired THEN NoSession ELSE table[i]
    BY <1>2 DEF Sweep
  <2>3. \A i \in Id : i \notin Expired => idle'[i] = idle[i]
    BY <1>2 DEF Sweep
  <2>4. \A s : s # NoSession /\ Known(s) =>
            Known(s)' \/ \E i \in Expired : s = table[i]
    BY <2>2 DEF Known
  <2>5. \A i \in Id : i \in Expired <=> table[i] # NoSession /\ idle[i] > Timeout
    BY DEF Expired
  <2>6. ASSUME NEW i \in Id, table'[i] # NoSession PROVE table'[i] \notin closed'
    BY <2>1, <2>2, <2>5, <2>6 DEF SessionInv, Expired
  <2>7. ASSUME NEW r \in Request, holds'[r] # NoSession
        PROVE  Known(holds[r])' \/ (holds'[r] \in closed' /\ held'[r] > Timeout)
    <3>1. CASE \E i \in Expired : holds[r] = table[i]
      <4>1. PICK i \in Expired : holds[r] = table[i] BY <3>1
      <4>2. i \in Id /\ idle[i] > Timeout /\ idle[i] <= held[r]
        BY <2>1, <2>7, <4>1 DEF Expired, SessionInv
      <4>3. held[r] > Timeout BY <4>2 DEF TypeOK
      <4>. QED BY <2>1, <4>1, <4>3
    <3>2. CASE ~\E i \in Expired : holds[r] = table[i]
      BY <2>1, <2>4, <2>7, <3>2 DEF SessionInv
    <3>. QED BY <3>1, <3>2
  <2>8. ASSUME NEW c \in Stream, reading'[c] # NoSession
        PROVE  Known(reading[c])' \/ reading'[c] \in closed'
    BY <2>1, <2>4, <2>8 DEF SessionInv
  <2>. QED BY <2>1, <2>2, <2>3, <2>6, <2>7, <2>8 DEF SessionInv, Known
<1>. QED BY <1>1, <1>2

\* The streams.
LEMMA StreamSessionInv ==
    ASSUME TypeOK, SessionInv, NEW c \in Stream,
           StreamClosed(c) \/ StreamLeft(c) \/ \E i \in Id : StreamOpen(c, i)
    PROVE  SessionInv'
<1>1. CASE StreamClosed(c) \/ StreamLeft(c)
  <2>1. UNCHANGED <<table, idle, closed, holds, held>>
    BY <1>1 DEF StreamClosed, StreamLeft, sessionVars, requestVars
  <2>2. \A b \in Stream : reading'[b] \in {reading[b], NoSession}
    BY <1>1 DEF StreamClosed, StreamLeft, TypeOK
  <2>. QED BY <2>1, <2>2, QuietSessionInv
<1>2. ASSUME NEW i \in Id, StreamOpen(c, i) PROVE SessionInv'
  <2>1. /\ table[i] # NoSession /\ UNCHANGED <<table, closed, holds, held>>
        /\ idle' = [idle EXCEPT ![i] = 0]
    BY <1>2 DEF StreamOpen, requestVars
  <2>2. \A b \in Stream : reading'[b] = IF b = c THEN table[i] ELSE reading[b]
    BY <1>2 DEF StreamOpen, TypeOK
  <2>3. \A s : Known(s) <=> Known(s)' BY <2>1 DEF Known
  <2>4. Known(table[i]) BY DEF Known
  <2>5. \A j \in Id : idle'[j] = IF j = i THEN 0 ELSE idle[j]
    BY <2>1 DEF TypeOK
  <2>6. \A q \in Request : held[q] \in Nat /\ held[q] >= 0
    BY DEF TypeOK
  <2>. QED BY <2>1, <2>2, <2>3, <2>4, <2>5, <2>6 DEF SessionInv
<1>. QED BY <1>1, <1>2

LEMMA NextSessionInv == TypeOK /\ ToolInv /\ SessionInv /\ [Next]_vars => SessionInv'
<1> SUFFICES ASSUME TypeOK, ToolInv, SessionInv, [Next]_vars PROVE SessionInv'
  OBVIOUS
<1>1. CASE UNCHANGED vars
  BY <1>1, QuietSessionInv DEF vars, sessionVars, requestVars
<1>3. CASE Freeze
  BY <1>3, QuietSessionInv DEF Freeze, sessionVars, requestVars
<1>2. CASE Next
  BY <1>2, <1>3, RequestSessionInv, HandleSessionInv, TimeSessionInv, StreamSessionInv
     DEF Next, HandleMessages
<1>. QED BY <1>1, <1>2

LEMMA SessionInvHolds == Spec => []SessionInv
<1>. QED BY InitSessionInv, NextSessionInv, McpTypeCorrect, PTL DEF Spec

\* The clean-up closes a channel once (session.go:115), and no stream is left
\* on a session that nobody can reach.
THEOREM SessionsCloseOnce == Spec => []ReachableIsOpen
<1>1. TypeOK /\ SessionInv => ReachableIsOpen
  <2> SUFFICES ASSUME TypeOK, SessionInv PROVE ReachableIsOpen
    OBVIOUS
  <2>1. ASSUME NEW s \in Session \ (closed \cup Unreferenced) PROVE Known(s)
    <3>1. SUFFICES ASSUME ~Known(s) PROVE FALSE
      OBVIOUS
    <3>2. (\E r \in Request : holds[r] = s) \/ (\E c \in Stream : reading[c] = s)
      BY <3>1 DEF Unreferenced
    <3>. QED BY <3>1, <3>2 DEF SessionInv
  <2>. QED BY <2>1 DEF SessionInv, ReachableIsOpen
<1>. QED BY <1>1, SessionInvHolds, McpTypeCorrect, PTL

\* A request that is done within the timeout keeps its session
\* (session.go:114), so that what it selects is not lost.
THEOREM SessionsOutliveRequests == Spec => []OutlivedOnly
<1>1. TypeOK /\ SessionInv => OutlivedOnly
  BY DEF SessionInv, OutlivedOnly
<1>. QED BY <1>1, SessionInvHolds, McpTypeCorrect, PTL

-----------------------------------------------------------------------------
(***************************************************************************)
(* Sessions implement contexts.                                            *)
(***************************************************************************)
\* The refinement mapping.
ContextOf == [i \in Id |-> IF table[i] = NoSession THEN NoSession ELSE chosen[table[i]]]
AgeOf == [i \in Id |-> IF table[i] = NoSession THEN 0 ELSE idle[i]]

LEMMA ContextStutter ==
    ASSUME UNCHANGED <<table, idle, chosen>>
    PROVE  UNCHANGED Context!contextVars
BY DEF Context!contextVars

LEMMA ContextDomain ==
    ASSUME TypeOK, NEW i \in Id
    PROVE  table[i] # NoSession <=> ContextOf[i] # NoSession
BY DEF TypeOK, ContextOf

\* A session is used.
LEMMA ContextUse ==
    ASSUME TypeOK, SessionInv, NEW i \in Id,
           \/ \E r \in Request : Resume(r, i) \/ Create(r, i)
           \/ \E c \in Stream : StreamOpen(c, i)
    PROVE  Context!Use(i)
<1>1. ASSUME table[i] # NoSession, UNCHANGED <<table, chosen>>, idle' = [idle EXCEPT ![i] = 0]
      PROVE  Context!Use(i)
  <2>1. ContextOf[i] # NoSession BY <1>1, ContextDomain
  <2>2. ContextOf' = ContextOf BY <1>1 DEF ContextOf
  <2>3. AgeOf' = [AgeOf EXCEPT ![i] = 0] BY <1>1 DEF AgeOf, TypeOK
  <2>. QED BY <2>1, <2>2, <2>3 DEF Context!Use, Context!Has, ContextOf, AgeOf
<1>2. ASSUME NEW r \in Request, Create(r, i) PROVE Context!Use(i)
  <2>1. PICK s \in Unreferenced :
            /\ table' = [table EXCEPT ![i] = s] /\ chosen' = [chosen EXCEPT ![s] = NoDevice]
    BY <1>2 DEF Create
  <2>2. table[i] = NoSession /\ idle' = [idle EXCEPT ![i] = 0]
    BY <1>2 DEF Create
  <2>3. s \in Session /\ \A j \in Id : table[j] # s
    BY DEF Unreferenced, Known
  <2>4. ContextOf[i] = NoSession BY <2>2 DEF ContextOf
  <2>5. ContextOf' = [ContextOf EXCEPT ![i] = NoDevice]
    BY <2>1, <2>3 DEF ContextOf, TypeOK
  <2>6. AgeOf' = [AgeOf EXCEPT ![i] = 0]
    BY <2>1, <2>2, <2>3 DEF AgeOf, TypeOK
  <2>. QED BY <2>4, <2>5, <2>6 DEF Context!Use, Context!Has, ContextOf, AgeOf
<1>. QED BY <1>1, <1>2 DEF Resume, StreamOpen

\* A device is selected, in a session that is in the table or in one that the
\* clean-up has removed.
LEMMA ContextSelect ==
    ASSUME TypeOK, ToolInv, SessionInv, NEW r \in Request, SelectSet(r)
    PROVE  Context!ContextNext \/ UNCHANGED Context!contextVars
<1>1. /\ target[r] \in Device /\ holds[r] \in Session /\ UNCHANGED <<table, idle>>
      /\ chosen' = [chosen EXCEPT ![holds[r]] = target[r]]
  BY DEF SelectSet, ToolInv, TypeOK
<1>2. AgeOf' = AgeOf BY <1>1 DEF AgeOf
<1>3. CASE Known(holds[r])
  <2>1. PICK i \in Id : table[i] = holds[r] BY <1>3 DEF Known
  <2>2. \A j \in Id : j # i => table[j] # holds[r]
    BY <1>1, <2>1 DEF SessionInv
  <2>3. ContextOf[i] # NoSession BY <1>1, <2>1, ContextDomain
  <2>4. ContextOf' = [ContextOf EXCEPT ![i] = target[r]]
    BY <1>1, <2>1, <2>2 DEF ContextOf, TypeOK
  <2>5. PICK d \in Device : d = target[r] BY <1>1
  <2>6. Context!Select(i, d)
    BY <1>2, <2>3, <2>4, <2>5 DEF Context!Select, Context!Has, ContextOf, AgeOf
  <2>. QED BY <2>6 DEF Context!ContextNext
<1>4. CASE ~Known(holds[r])
  <2>1. ContextOf' = ContextOf
    BY <1>1, <1>4 DEF ContextOf, Known, TypeOK
  <2>. QED BY <1>2, <2>1 DEF Context!contextVars, ContextOf, AgeOf
<1>. QED BY <1>3, <1>4

LEMMA ContextTime ==
    ASSUME TypeOK, Tick \/ Sweep
    PROVE  Context!Pass \/ Context!Expire
<1>1. CASE Tick
  <2>1. ContextOf' = ContextOf BY <1>1 DEF ContextOf, Tick
  <2>2. AgeOf' = [i \in Id |-> IF ContextOf[i] # NoSession /\ AgeOf[i] <= Timeout
                               THEN AgeOf[i] + 1 ELSE AgeOf[i]]
    <3>1. \A i \in Id : ContextOf[i] # NoSession <=> table[i] # NoSession
      BY ContextDomain
    <3>2. UNCHANGED table
          /\ \A i \in Id : idle'[i] = IF table[i] = NoSession THEN 0
                                      ELSE IF idle[i] <= Timeout THEN idle[i] + 1 ELSE idle[i]
      BY <1>1 DEF Tick, Older
    <3>. QED BY <3>1, <3>2 DEF AgeOf
  <2>. QED BY <2>1, <2>2 DEF Context!Pass, Context!Has, ContextOf, AgeOf
<1>2. CASE Sweep
  <2> DEFINE old == {i \in Id : ContextOf[i] # NoSession /\ AgeOf[i] > Timeout}
  <2>1. old = Expired BY ContextDomain DEF AgeOf, Expired
  <2>2. \A i \in Id : table'[i] = IF i \in Expired THEN NoSession ELSE table[i]
    BY <1>2 DEF Sweep
  <2>3. UNCHANGED chosen /\ \A i \in Id : i \notin Expired => idle'[i] = idle[i]
    BY <1>2 DEF Sweep
  <2>4. ContextOf' = [i \in Id |-> IF i \in old THEN NoSession ELSE ContextOf[i]]
    BY <2>1, <2>2, <2>3 DEF ContextOf
  <2>5. AgeOf' = [i \in Id |-> IF i \in old THEN 0 ELSE AgeOf[i]]
    BY <2>1, <2>2, <2>3 DEF AgeOf
  <2>. QED BY <2>4, <2>5 DEF Context!Expire, Context!Has, ContextOf, AgeOf
<1>. QED BY <1>1, <1>2

\* A client that comes back with its session id within the timeout finds the
\* device it selected (session.go:66): the sessions implement SessionContext.
THEOREM SessionsAreContexts == Spec => ImplementsContext
<1>1. Init => Context!ContextInit
  BY DEF Init, Context!ContextInit
<1>2. TypeOK /\ ToolInv /\ SessionInv /\ [Next]_vars
        => [Context!ContextNext]_(Context!contextVars)
  <2> SUFFICES ASSUME TypeOK, ToolInv, SessionInv, [Next]_vars
               PROVE  Context!ContextNext \/ UNCHANGED Context!contextVars
    OBVIOUS
  <2>1. ASSUME NEW r \in Request, Work(r), ~SelectSet(r)
        PROVE  UNCHANGED Context!contextVars
    BY <2>1, ContextStutter
       DEF Work, Answer, FilesEnds, InfoEnds, EmptyEnds, Compress, UploadInfo, Upload,
           CallEnds, Poll, sessionVars
  <2>2. ASSUME NEW r \in Request,
               \/ Begin(r, "files") \/ Begin(r, "info") \/ UploadSettles(r) \/ Body(r)
               \/ \E d \in Device : SelectFind(r, d)
        PROVE  UNCHANGED Context!contextVars
    BY <2>2, ContextStutter DEF Begin, UploadSettles, Body, SelectFind, sessionVars
  <2>3. ASSUME NEW c \in Stream, StreamClosed(c) \/ StreamLeft(c)
        PROVE  UNCHANGED Context!contextVars
    BY <2>3, ContextStutter DEF StreamClosed, StreamLeft, sessionVars
  <2>4. CASE Freeze \/ UNCHANGED vars
    BY <2>4, ContextStutter DEF Freeze, vars, sessionVars
  <2>5. ASSUME NEW i \in Id, Context!Use(i) PROVE Context!ContextNext
    BY <2>5 DEF Context!ContextNext
  <2>6. Context!Pass \/ Context!Expire => Context!ContextNext
    BY DEF Context!ContextNext
  <2>7. CASE Next
    BY <2>1, <2>2, <2>3, <2>4, <2>5, <2>6, <2>7, ContextUse, ContextSelect, ContextTime
       DEF Next, HandleMessages
  <2>. QED BY <2>4, <2>7
<1>. QED BY <1>1, <1>2, SessionInvHolds, McpTypeCorrect, PTL
         DEF Spec, ImplementsContext, Context!Contexts
=============================================================================
