------------------------ MODULE AgentSessionsProofs -------------------------
(***************************************************************************)
(* Theorems about the agent sessions, for every set of connections and     *)
(* devices, every way agents behave and every bound.                       *)
(***************************************************************************)
EXTENDS AgentSessionsProps, TLAPS

USE DeviceAssumption, FaultAssumption, ConnAssumption, DeviceOfAssumption,
    TokensAssumption, QueueAssumption, FlagAssumption

-----------------------------------------------------------------------------
(***************************************************************************)
(* Type correctness.                                                       *)
(***************************************************************************)
\* The initial state is well typed.
LEMMA InitTypeOK == Init => TypeOK
BY DEF Init, RegistryInit, TypeOK, RegistryTypeOK, Steps, HelloSteps, CloseSteps

\* What an agent does keeps the types.
LEMMA AgentTypeOK ==
    ASSUME TypeOK, NEW c \in Conn, Agent(c)
    PROVE  TypeOK'
BY DEF Agent, Accept, Drop, Hello, Garbage, At, Goto, TypeOK, RegistryTypeOK,
       registryVars, Steps, HelloSteps, CloseSteps

\* A step of handleHello keeps the types.
LEMMA HelloTypeOK ==
    ASSUME TypeOK, NEW c \in Conn, ReadError(c) \/ HelloStep(c)
    PROVE  TypeOK'
<1> USE DEF TypeOK, RegistryTypeOK, registryVars, Steps, HelloSteps, CloseSteps,
            At, Goto, PumpSend, SqlFault, CallClose
<1>1. CASE ReadError(c) BY <1>1 DEF ReadError
<1>2. CASE HelloLock(c) BY <1>2 DEF HelloLock
<1>3. CASE HelloUnlock(c) BY <1>3 DEF HelloUnlock
<1>4. CASE HelloGet(c) BY <1>4 DEF HelloGet, HasRow, Find
<1>5. CASE HelloWrite(c) BY <1>5 DEF HelloWrite, CreateRow, UpdateRow, WriteRow
<1>6. CASE HelloInsert(c) BY <1>6 DEF HelloInsert
<1>7. CASE HelloSet(c) BY <1>7 DEF HelloSet, SetConnection
<1>8. CASE HelloNotify(c) BY <1>8 DEF HelloNotify
<1>9. CASE HelloAck(c) BY <1>9 DEF HelloAck
<1>10. CASE ErrReply(c) BY <1>10 DEF ErrReply
<1>11. CASE Reject(c) BY <1>11 DEF Reject
<1>. QED BY <1>1, <1>2, <1>3, <1>4, <1>5, <1>6, <1>7, <1>8, <1>9, <1>10, <1>11
         DEF HelloStep

\* A step of close() keeps the types.
LEMMA CloseTypeOK ==
    ASSUME TypeOK, NEW c \in Conn, CloseStep(c)
    PROVE  TypeOK'
<1> USE DEF TypeOK, RegistryTypeOK, registryVars, Steps, HelloSteps, CloseSteps,
            At, Goto, SqlFault
<1>1. CASE CloseLock(c) BY <1>1 DEF CloseLock
<1>2. CASE CloseRemove(c) BY <1>2 DEF CloseRemove
<1>3. CASE CloseGet(c) BY <1>3 DEF CloseGet, Find
<1>4. CASE CloseForget(c) BY <1>4 DEF CloseForget, ForgetConnection
<1>5. CASE CloseDelete(c) BY <1>5 DEF CloseDelete, DeleteRow
<1>6. CASE CloseNotify(c) BY <1>6 DEF CloseNotify
<1>7. CASE CloseSend(c) BY <1>7 DEF CloseSend
<1>. QED BY <1>1, <1>2, <1>3, <1>4, <1>5, <1>6, <1>7 DEF CloseStep

\* So do the write pumps, the requests, the stale-device checker, the end
\* of the process and its restart.
LEMMA OtherTypeOK ==
    ASSUME TypeOK,
           \/ \E c \in Conn : WritePump(c)
           \/ \E k \in Caller : Request(k)
           \/ Background \/ Crash \/ Restart
    PROVE  TypeOK'
<1> USE DEF TypeOK, RegistryTypeOK, registryVars
<1>1. ASSUME NEW c \in Conn, WritePump(c) PROVE TypeOK'
  BY <1>1 DEF WritePump, WriterSend, WriterStop
<1>2. ASSUME NEW k \in Caller, Request(k) PROVE TypeOK'
  BY <1>2 DEF Request, SendLookup, SendPush
<1>3. CASE Background
  <2>. USE DEF sessionVars
  <2>1. CASE StaleList /\ UNCHANGED sessionVars BY <2>1 DEF StaleList
  <2>2. ASSUME NEW d \in Device, StaleLook(d), UNCHANGED sessionVars
        PROVE  TypeOK'
    BY <2>2 DEF StaleLook
  <2>3. CASE StaleUpdate /\ UNCHANGED sessionVars
    BY <2>3 DEF StaleUpdate, HasRow, SqlFault
  <2>4. ASSUME NEW d \in Device, LastSeenAges(d), UNCHANGED sessionVars
        PROVE  TypeOK'
    BY <2>4 DEF LastSeenAges, Age
  <2>. QED BY <1>3, <2>1, <2>2, <2>3, <2>4 DEF Background, StaleChecker
<1>4. CASE Crash BY <1>4 DEF Crash
<1>5. CASE Restart BY <1>5 DEF Restart, CleanupAllDevices, SqlFault, Steps
<1>. QED BY <1>1, <1>2, <1>3, <1>4, <1>5

\* So does every step and every stutter.
LEMMA NextTypeOK == TypeOK /\ [Next]_vars => TypeOK'
<1> SUFFICES ASSUME TypeOK, [Next]_vars PROVE TypeOK'
  OBVIOUS
<1>1. ASSUME NEW c \in Conn, Agent(c) PROVE TypeOK'
  BY <1>1, AgentTypeOK
<1>2. ASSUME NEW c \in Conn, ReadPump(c) PROVE TypeOK'
  BY <1>2, HelloTypeOK, CloseTypeOK DEF ReadPump
<1>3. CASE UNCHANGED vars
  BY <1>3 DEF vars, sessionVars, registryVars, TypeOK, RegistryTypeOK
<1>. QED BY <1>1, <1>2, <1>3, OtherTypeOK DEF Next

\* Every variable keeps its type: in particular Connection.send never holds
\* more than its capacity and the locks are held by connections.
THEOREM TypeCorrect == Spec => []TypeOK
<1>. QED BY InitTypeOK, NextTypeOK, PTL DEF Spec

-----------------------------------------------------------------------------
(***************************************************************************)
(* The lock invariant, in every environment.                               *)
(***************************************************************************)
lockVars == <<connections, deviceID, target, resume, mgrMu, connMu>>

\* The steps outside close() and outside Manager.mu's long critical section.
Plain == Steps \ (CloseSteps \cup {"idle", "done", "helloUnlock"})

\* With no connection there is nothing to own.
LEMMA InitLockInv == Init => LockInv
BY DEF Init, LockInv, RegisteredInv, CloseInv, MutexInv, CloseSteps, Unregistered,
       Replaces

\* A goroutine that goes from one plain step to another, and a step of anyone
\* else, disturb nothing.
LEMMA PlainLockInv ==
    ASSUME TypeOK, LockInv, UNCHANGED lockVars, NEW c \in Conn, NEW s \in Plain,
           pc' = [pc EXCEPT ![c] = s], pc[c] \in Plain \cup {"idle"}
    PROVE  LockInv'
<1> USE DEF lockVars, Plain, Steps, HelloSteps, CloseSteps, TypeOK
<1>1. RegisteredInv' BY DEF LockInv, RegisteredInv, Unregistered
<1>2. CloseInv' BY DEF LockInv, CloseInv
<1>3. MutexInv' BY DEF LockInv, MutexInv, Replaces
<1>. QED BY <1>1, <1>2, <1>3 DEF LockInv

\* A step that leaves alone what LockInv talks about keeps it.
LEMMA FrameLockInv ==
    ASSUME LockInv, UNCHANGED <<lockVars, pc>>
    PROVE  LockInv'
BY DEF LockInv, RegisteredInv, CloseInv, MutexInv, lockVars, Replaces

\* A step of handleHello keeps the ownership of locks and map entries.
LEMMA HelloLockInv ==
    ASSUME TypeOK, LockInv, NEW c \in Conn, ReadError(c) \/ HelloStep(c)
    PROVE  LockInv'
<1> USE DEF At, Goto
<1>1. CASE ErrReply(c) \/ HelloGet(c) \/ HelloWrite(c) \/ HelloSet(c)
           \/ HelloNotify(c) \/ HelloAck(c)
  <2>1. /\ UNCHANGED lockVars
        /\ pc[c] \in Plain
        /\ \E s \in Plain : pc' = [pc EXCEPT ![c] = s]
    BY <1>1 DEF ErrReply, HelloGet, HelloWrite, HelloSet, HelloNotify, HelloAck,
                lockVars, Plain, Steps, HelloSteps, CloseSteps
  <2>. QED BY <2>1, PlainLockInv
<1>2. CASE ReadError(c) \/ Reject(c)
  <2> USE DEF LockInv, TypeOK, CloseSteps, ReadError, Reject, CallClose
  <2>1. RegisteredInv' BY <1>2 DEF RegisteredInv, Unregistered
  <2>2. CloseInv' BY <1>2 DEF CloseInv
  <2>3. MutexInv' BY <1>2 DEF MutexInv, Replaces
  <2>. QED BY <2>1, <2>2, <2>3
<1>3. CASE HelloLock(c)
  <2> USE DEF LockInv, TypeOK, CloseSteps, HelloLock, CallClose, MgrFree
  <2>1. RegisteredInv' BY <1>3 DEF RegisteredInv, Unregistered
  <2>2. CloseInv' BY <1>3 DEF CloseInv, RegisteredInv
  <2>3. MutexInv' BY <1>3 DEF MutexInv, Replaces
  <2>. QED BY <2>1, <2>2, <2>3
<1>4. CASE HelloUnlock(c)
  <2> USE DEF LockInv, TypeOK, CloseSteps, HelloUnlock
  <2>1. RegisteredInv' BY <1>4 DEF RegisteredInv, Unregistered
  <2>2. CloseInv' BY <1>4 DEF CloseInv, MutexInv, Replaces
  <2>3. MutexInv' BY <1>4 DEF MutexInv, Replaces
  <2>. QED BY <2>1, <2>2, <2>3
<1>5. CASE HelloInsert(c)
  <2> USE DEF LockInv, TypeOK, CloseSteps, HelloInsert, MgrFree
  <2>1. RegisteredInv' BY <1>5 DEF RegisteredInv, Unregistered
  <2>2. CloseInv' BY <1>5 DEF CloseInv, MutexInv, Replaces
  <2>3. MutexInv' BY <1>5 DEF MutexInv, Replaces
  <2>. QED BY <2>1, <2>2, <2>3
<1>. QED BY <1>1, <1>2, <1>3, <1>4, <1>5 DEF HelloStep

\* So does a step of close(), of the own connection or of a replaced one.
LEMMA CloseLockInv ==
    ASSUME TypeOK, LockInv, NEW c \in Conn, CloseStep(c)
    PROVE  LockInv'
<1> USE DEF At, Goto, LockInv, TypeOK, CloseSteps
<1>1. CASE CloseLock(c)
  <2> USE DEF CloseLock
  <2>1. RegisteredInv' BY <1>1 DEF RegisteredInv, CloseInv, Unregistered
  <2>2. CloseInv' BY <1>1 DEF CloseInv, RegisteredInv
  <2>3. MutexInv' BY <1>1 DEF MutexInv, Replaces
  <2>. QED BY <2>1, <2>2, <2>3
<1>2. CASE CloseRemove(c)
  <2> USE DEF CloseRemove, MgrFree
  <2>0. target[c] = c /\ deviceID[c] = DeviceOf[c]
    BY <1>2 DEF CloseInv, RegisteredInv
  <2>1. RegisteredInv' BY <1>2, <2>0 DEF RegisteredInv, Unregistered
  <2>2. CloseInv' BY <1>2, <2>0 DEF CloseInv, MutexInv, Replaces
  <2>3. MutexInv' BY <1>2 DEF MutexInv, Replaces
  <2>. QED BY <2>1, <2>2, <2>3
<1>3. CASE CloseGet(c) \/ CloseForget(c) \/ CloseDelete(c) \/ CloseNotify(c)
  <2>1. /\ UNCHANGED lockVars
        /\ pc[c] \in Unregistered \ {"closeSend"}
        /\ \E s \in Unregistered : pc' = [pc EXCEPT ![c] = s]
    BY <1>3 DEF CloseGet, CloseForget, CloseDelete, CloseNotify, lockVars,
                Unregistered
  <2> USE DEF lockVars, Unregistered
  <2>2. RegisteredInv' BY <2>1 DEF RegisteredInv
  <2>3. CloseInv' BY <2>1 DEF CloseInv
  <2>4. MutexInv' BY <2>1 DEF MutexInv, Replaces
  <2>. QED BY <2>2, <2>3, <2>4
<1>4. CASE CloseSend(c)
  <2> USE DEF CloseSend
  <2>1. RegisteredInv' BY <1>4 DEF RegisteredInv, Unregistered, CloseInv
  <2>2. CloseInv' BY <1>4 DEF CloseInv
  <2>3. MutexInv' BY <1>4 DEF MutexInv, Replaces, CloseInv
  <2>. QED BY <2>1, <2>2, <2>3
<1>. QED BY <1>1, <1>2, <1>3, <1>4 DEF CloseStep

\* So does every step and every stutter.
LEMMA NextLockInv == TypeOK /\ LockInv /\ [Next]_vars => LockInv'
<1> SUFFICES ASSUME TypeOK, LockInv, [Next]_vars PROVE LockInv'
  OBVIOUS
<1>1. ASSUME NEW c \in Conn, Agent(c) PROVE LockInv'
  <2>1. CASE Drop(c) BY <2>1, FrameLockInv DEF Drop, lockVars
  <2>2. CASE Accept(c) \/ Garbage(c) \/ \E token \in Tokens : Hello(c, token)
    <3>1. /\ UNCHANGED lockVars
          /\ pc[c] \in Plain \cup {"idle"}
          /\ \E s \in Plain : pc' = [pc EXCEPT ![c] = s]
      BY <2>2 DEF Accept, Garbage, Hello, At, Goto, lockVars, Plain, Steps,
                  HelloSteps, CloseSteps
    <3>. QED BY <3>1, PlainLockInv
  <2>. QED BY <1>1, <2>1, <2>2 DEF Agent
<1>2. ASSUME NEW c \in Conn, ReadPump(c) PROVE LockInv'
  BY <1>2, HelloLockInv, CloseLockInv DEF ReadPump
<1>3. CASE \/ \E c \in Conn : WritePump(c)
           \/ \E k \in Caller : Request(k)
           \/ Background \/ Crash \/ UNCHANGED vars
  <2>1. UNCHANGED <<lockVars, pc>>
    BY <1>3 DEF WritePump, WriterSend, WriterStop, Request, SendLookup, SendPush,
                Background, Crash, vars, sessionVars, lockVars
  <2>. QED BY <2>1, FrameLockInv
<1>4. CASE Restart
  BY <1>4 DEF Restart, LockInv, RegisteredInv, CloseInv, MutexInv, CloseSteps,
              Unregistered, Replaces, TypeOK, Steps
<1>. QED BY <1>1, <1>2, <1>3, <1>4 DEF Next

\* In every environment: a registered connection serves its own device and is
\* being served, every close() has one executor, and the two mutexes are held
\* by the goroutines inside their critical sections only.
THEOREM LockInvHolds == Spec => []LockInv
<1>1. Init => LockInv BY InitLockInv
<1>. QED BY <1>1, NextLockInv, TypeCorrect, PTL DEF Spec

-----------------------------------------------------------------------------
(***************************************************************************)
(* The orderly environment.                                                *)
(***************************************************************************)
\* With one connection of an agent at a time, a step of handleHello keeps the
\* map, the registry, the row and the event in step.
LEMMA HelloOrderly ==
    ASSUME ~Overlap, TypeOK, LockInv, OrderlyInv, NEW c \in Conn,
           ReadError(c) \/ HelloStep(c)
    PROVE  OrderlyInv'
<1> USE DEF At, Goto, TypeOK, RegistryTypeOK, registryVars, Steps, HelloSteps,
            CloseSteps, LockInv, OrderlyInv, RegisteredInv
<1>1. CASE ReadError(c)
  <2> USE <1>1 DEF ReadError, CallClose
  <2>1. OneServerInv' BY DEF OneServerInv, Active, HasRow, Announced
  <2>2. OnlineInv' BY DEF OnlineInv, Active, Served, OneServerInv
  <2>3. RowReadIsFresh' BY DEF RowReadIsFresh, HasRow, OneServerInv, Active
  <2>4. RowInv' BY DEF RowInv, Active, Served, HasRow, OneServerInv, RowReadIsFresh
  <2>5. FeedInv' BY DEF FeedInv, Active, Served, HasRow, Announced, OneServerInv, RowInv
  <2>. QED BY <2>1, <2>2, <2>3, <2>4, <2>5
<1>2. CASE HelloLock(c)
  <2> USE <1>2 DEF HelloLock, CallClose, MgrFree
  <2>1. OneServerInv' BY SMTT(20) DEF OneServerInv, Active, HasRow, Announced
  <2>2. OnlineInv' BY DEF OnlineInv, Active, Served, OneServerInv
  <2>3. RowReadIsFresh' BY DEF RowReadIsFresh, HasRow, OneServerInv, Active
  <2>4. RowInv' BY DEF RowInv, Active, Served, HasRow, OneServerInv, RowReadIsFresh
  <2>5. FeedInv' BY DEF FeedInv, Active, Served, HasRow, Announced, OneServerInv, RowInv
  <2>. QED BY <2>1, <2>2, <2>3, <2>4, <2>5
<1>3. CASE HelloUnlock(c)
  <2> USE <1>3 DEF HelloUnlock
  <2>1. OneServerInv' BY DEF OneServerInv, Active, HasRow, Announced
  <2>2. OnlineInv' BY DEF OnlineInv, Active, Served, OneServerInv
  <2>3. RowReadIsFresh' BY DEF RowReadIsFresh, HasRow, OneServerInv, Active
  <2>4. RowInv' BY DEF RowInv, Active, Served, HasRow, OneServerInv, RowReadIsFresh
  <2>5. FeedInv' BY DEF FeedInv, Active, Served, HasRow, Announced, OneServerInv, RowInv
  <2>. QED BY <2>1, <2>2, <2>3, <2>4, <2>5
<1>4. CASE HelloGet(c)
  <2> USE <1>4 DEF HelloGet, Find, SqlFault
  <2>1. OneServerInv' BY DEF OneServerInv, Active, HasRow, Announced
  <2>2. OnlineInv' BY DEF OnlineInv, Active, Served, OneServerInv
  <2>3. RowReadIsFresh' BY DEF RowReadIsFresh, HasRow, OneServerInv, Active
  <2>4. RowInv' BY DEF RowInv, Active, Served, HasRow, OneServerInv, RowReadIsFresh
  <2>5. FeedInv' BY DEF FeedInv, Active, Served, HasRow, Announced, OneServerInv, RowInv
  <2>. QED BY <2>1, <2>2, <2>3, <2>4, <2>5
<1>5. CASE HelloWrite(c)
  <2> USE <1>5 DEF HelloWrite, CreateRow, UpdateRow, WriteRow, SqlFault
  <2>1. OneServerInv' BY DEF OneServerInv, Active, HasRow, Announced
  <2>2. OnlineInv' BY DEF OnlineInv, Active, Served, OneServerInv
  <2>3. RowReadIsFresh' BY DEF RowReadIsFresh, HasRow, OneServerInv, Active
  <2>4. RowInv' BY DEF RowInv, Active, Served, HasRow, OneServerInv, RowReadIsFresh
  <2>5. FeedInv' BY DEF FeedInv, Active, Served, HasRow, Announced, OneServerInv, RowInv
  <2>. QED BY <2>1, <2>2, <2>3, <2>4, <2>5
<1>6. CASE HelloInsert(c)
  <2> USE <1>6 DEF HelloInsert
  <2>1. OneServerInv' BY DEF OneServerInv, Active, HasRow, Announced
  <2>2. OnlineInv' BY DEF OnlineInv, Active, Served, OneServerInv
  <2>3. RowReadIsFresh' BY DEF RowReadIsFresh, HasRow, OneServerInv, Active
  <2>4. RowInv' BY DEF RowInv, Active, Served, HasRow, OneServerInv, RowReadIsFresh
  <2>5. FeedInv'
    <3>1. pc[c] = "helloInsert" /\ pc'[c] = "helloSet" /\ connections'[DeviceOf[c]] = c
      OBVIOUS
    <3>2. UNCHANGED <<faults, feed, found, status>>
      OBVIOUS
    <3>3. ASSUME NEW o \in Conn \ {c}
          PROVE  /\ pc'[o] = pc[o]
                 /\ DeviceOf[o] = DeviceOf[c] => ~Active(o)
                 /\ DeviceOf[o] # DeviceOf[c] =>
                      connections'[DeviceOf[o]] = connections[DeviceOf[o]]
      BY <3>1 DEF OneServerInv, Active
    <3> HIDE <1>6 DEF HelloInsert, At, Goto, TypeOK, LockInv, OneServerInv
    <3>. QED BY <3>1, <3>2, <3>3 DEF OrderlyInv, FeedInv, Active, Served, HasRow, Announced
  <2>. QED BY <2>1, <2>2, <2>3, <2>4, <2>5
<1>7. CASE HelloSet(c)
  <2> USE <1>7 DEF HelloSet, SetConnection
  <2>1. OneServerInv' BY DEF OneServerInv, Active, HasRow, Announced
  <2>2. OnlineInv' BY DEF OnlineInv, Active, Served, OneServerInv
  <2>3. RowReadIsFresh' BY DEF RowReadIsFresh, HasRow, OneServerInv, Active
  <2>4. RowInv' BY DEF RowInv, Active, Served, HasRow, OneServerInv, RowReadIsFresh
  <2>5. FeedInv' BY DEF FeedInv, Active, Served, HasRow, Announced, OneServerInv, RowInv
  <2>. QED BY <2>1, <2>2, <2>3, <2>4, <2>5
<1>8. CASE HelloNotify(c)
  <2> USE <1>8 DEF HelloNotify
  <2>1. OneServerInv' BY DEF OneServerInv, Active, HasRow, Announced
  <2>2. OnlineInv' BY DEF OnlineInv, Active, Served, OneServerInv
  <2>3. RowReadIsFresh' BY DEF RowReadIsFresh, HasRow, OneServerInv, Active
  <2>4. RowInv' BY DEF RowInv, Active, Served, HasRow, OneServerInv, RowReadIsFresh
  <2>5. FeedInv' BY DEF FeedInv, Active, Served, HasRow, Announced, OneServerInv, RowInv
  <2>. QED BY <2>1, <2>2, <2>3, <2>4, <2>5
<1>9. CASE HelloAck(c)
  <2> USE <1>9 DEF HelloAck, PumpSend
  <2>1. OneServerInv' BY DEF OneServerInv, Active, HasRow, Announced
  <2>2. OnlineInv' BY DEF OnlineInv, Active, Served, OneServerInv
  <2>3. RowReadIsFresh' BY DEF RowReadIsFresh, HasRow, OneServerInv, Active
  <2>4. RowInv' BY DEF RowInv, Active, Served, HasRow, OneServerInv, RowReadIsFresh
  <2>5. FeedInv' BY DEF FeedInv, Active, Served, HasRow, Announced, OneServerInv, RowInv
  <2>. QED BY <2>1, <2>2, <2>3, <2>4, <2>5
<1>10. CASE ErrReply(c)
  <2> USE <1>10 DEF ErrReply, PumpSend
  <2>1. OneServerInv' BY DEF OneServerInv, Active, HasRow, Announced
  <2>2. OnlineInv' BY DEF OnlineInv, Active, Served, OneServerInv
  <2>3. RowReadIsFresh' BY DEF RowReadIsFresh, HasRow, OneServerInv, Active
  <2>4. RowInv' BY DEF RowInv, Active, Served, HasRow, OneServerInv, RowReadIsFresh
  <2>5. FeedInv' BY DEF FeedInv, Active, Served, HasRow, Announced, OneServerInv, RowInv
  <2>. QED BY <2>1, <2>2, <2>3, <2>4, <2>5
<1>11. CASE Reject(c)
  <2> USE <1>11 DEF Reject, PumpSend, CallClose
  <2>1. OneServerInv' BY DEF OneServerInv, Active, HasRow, Announced
  <2>2. OnlineInv' BY DEF OnlineInv, Active, Served, OneServerInv
  <2>3. RowReadIsFresh' BY DEF RowReadIsFresh, HasRow, OneServerInv, Active
  <2>4. RowInv' BY DEF RowInv, Active, Served, HasRow, OneServerInv, RowReadIsFresh
  <2>5. FeedInv' BY DEF FeedInv, Active, Served, HasRow, Announced, OneServerInv, RowInv
  <2>. QED BY <2>1, <2>2, <2>3, <2>4, <2>5
<1>. QED BY <1>1, <1>2, <1>3, <1>4, <1>5, <1>6, <1>7, <1>8, <1>9, <1>10, <1>11
         DEF HelloStep

\* So does a step of close().
LEMMA CloseOrderly ==
    ASSUME ~Overlap, TypeOK, LockInv, OrderlyInv, NEW c \in Conn, CloseStep(c)
    PROVE  OrderlyInv'
<1> USE DEF At, Goto, TypeOK, RegistryTypeOK, registryVars, Steps, HelloSteps,
            CloseSteps, LockInv, OrderlyInv, RegisteredInv, CloseInv, Unregistered
<1>1. CASE CloseLock(c)
  <2> USE <1>1 DEF CloseLock
  <2>1. OneServerInv' BY DEF OneServerInv, Active, HasRow, Announced
  <2>2. OnlineInv' BY DEF OnlineInv, Active, Served, OneServerInv
  <2>3. RowReadIsFresh' BY DEF RowReadIsFresh, HasRow, OneServerInv, Active
  <2>4. RowInv' BY DEF RowInv, Active, Served, HasRow, OneServerInv, RowReadIsFresh
  <2>5. FeedInv' BY DEF FeedInv, Active, Served, HasRow, Announced, OneServerInv, RowInv
  <2>. QED BY <2>1, <2>2, <2>3, <2>4, <2>5
<1>2. CASE CloseRemove(c)
  <2> USE <1>2 DEF CloseRemove, MgrFree
  <2>0. target[c] = c /\ deviceID[c] = DeviceOf[c] OBVIOUS
  <2>1. OneServerInv' BY DEF OneServerInv, Active, HasRow, Announced
  <2>2. OnlineInv' BY DEF OnlineInv, Active, Served, OneServerInv
  <2>3. RowReadIsFresh' BY DEF RowReadIsFresh, HasRow, OneServerInv, Active
  <2>4. RowInv' BY <2>0 DEF RowInv, Active, Served, HasRow, OneServerInv
  <2>5. FeedInv' BY DEF FeedInv, Active, Served, HasRow, Announced, OneServerInv, RowInv
  <2>. QED BY <2>1, <2>2, <2>3, <2>4, <2>5
<1>3. CASE CloseGet(c)
  <2> USE <1>3 DEF CloseGet, Find, SqlFault
  <2>1. OneServerInv' BY DEF OneServerInv, Active, HasRow, Announced
  <2>2. OnlineInv' BY DEF OnlineInv, Active, Served, OneServerInv
  <2>3. RowReadIsFresh' BY DEF RowReadIsFresh, HasRow, OneServerInv, Active
  <2>4. RowInv' BY DEF RowInv, Active, Served, HasRow, OneServerInv, RowReadIsFresh
  <2>5. FeedInv' BY DEF FeedInv, Active, Served, HasRow, Announced, OneServerInv, RowInv
  <2>. QED BY <2>1, <2>2, <2>3, <2>4, <2>5
<1>4. CASE CloseForget(c)
  <2> USE <1>4 DEF CloseForget, ForgetConnection
  <2>1. OneServerInv' BY DEF OneServerInv, Active, HasRow, Announced
  <2>2. OnlineInv' BY DEF OnlineInv, Active, Served, OneServerInv
  <2>3. RowReadIsFresh' BY DEF RowReadIsFresh, HasRow, OneServerInv, Active
  <2>4. RowInv' BY DEF RowInv, Active, Served, HasRow, OneServerInv, RowReadIsFresh
  <2>5. FeedInv' BY DEF FeedInv, Active, Served, HasRow, Announced, OneServerInv, RowInv
  <2>. QED BY <2>1, <2>2, <2>3, <2>4, <2>5
<1>5. CASE CloseDelete(c)
  <2> USE <1>5 DEF CloseDelete, DeleteRow, SqlFault
  <2>0. target[c] = c /\ deviceID[c] = DeviceOf[c] OBVIOUS
  <2>1. OneServerInv' BY DEF OneServerInv, Active, HasRow, Announced
  <2>2. OnlineInv' BY DEF OnlineInv, Active, Served, OneServerInv
  <2>3. RowReadIsFresh' BY DEF RowReadIsFresh, HasRow, OneServerInv, Active
  <2>4. RowInv' BY <2>0 DEF RowInv, Active, Served, HasRow, OneServerInv
  <2>5. FeedInv' BY SMTT(20), ZenonT(20) DEF FeedInv, Active, Served, HasRow, Announced, OneServerInv, RowInv
  <2>. QED BY <2>1, <2>2, <2>3, <2>4, <2>5
<1>6. CASE CloseNotify(c)
  <2> USE <1>6 DEF CloseNotify
  <2>1. OneServerInv' BY DEF OneServerInv, Active, HasRow, Announced
  <2>2. OnlineInv' BY DEF OnlineInv, Active, Served, OneServerInv
  <2>3. RowReadIsFresh' BY DEF RowReadIsFresh, HasRow, OneServerInv, Active
  <2>4. RowInv' BY DEF RowInv, Active, Served, HasRow, OneServerInv, RowReadIsFresh
  <2>5. FeedInv' BY DEF FeedInv, Active, Served, HasRow, Announced, OneServerInv, RowInv
  <2>. QED BY <2>1, <2>2, <2>3, <2>4, <2>5
<1>7. CASE CloseSend(c)
  <2> USE <1>7 DEF CloseSend
  <2>0. /\ DeviceOf[c] \notin online
        /\ faults = 0 => ~HasRow(DeviceOf[c]) /\ ~Announced(DeviceOf[c])
    BY DEF OnlineInv, RowInv, FeedInv, Active, Served
  <2>1. OneServerInv' BY <2>0 DEF OneServerInv, Active, HasRow, Announced
  <2>2. OnlineInv' BY DEF OnlineInv, Active, Served, OneServerInv
  <2>3. RowReadIsFresh' BY DEF RowReadIsFresh, HasRow, OneServerInv, Active
  <2>4. RowInv' BY DEF RowInv, Active, Served, HasRow, OneServerInv, RowReadIsFresh
  <2>5. FeedInv' BY DEF FeedInv, Active, Served, HasRow, Announced, OneServerInv, RowInv
  <2>. QED BY <2>1, <2>2, <2>3, <2>4, <2>5
<1>. QED BY <1>1, <1>2, <1>3, <1>4, <1>5, <1>6, <1>7 DEF CloseStep

\* So does what an agent does: a new connection starts when the last one has
\* left nothing behind.
LEMMA AgentOrderly ==
    ASSUME ~Overlap, TypeOK, LockInv, OrderlyInv, NEW c \in Conn, Agent(c)
    PROVE  OrderlyInv'
<1> USE DEF At, Goto, TypeOK, RegistryTypeOK, registryVars, LockInv, OrderlyInv,
            RegisteredInv
<1>1. CASE Accept(c)
  <2> USE <1>1 DEF Accept, OthersFinished
  <2>1. OneServerInv' BY DEF OneServerInv, Active, HasRow, Announced
  <2>0. /\ DeviceOf[c] \notin online /\ ~Served(c)
        /\ faults = 0 => ~HasRow(DeviceOf[c]) /\ ~Announced(DeviceOf[c])
    BY DEF OneServerInv, Active, Served
  <2>2. OnlineInv' BY <2>0 DEF OnlineInv, Active, Served
  <2>3. RowReadIsFresh' BY DEF RowReadIsFresh, HasRow
  <2>4. RowInv' BY <2>0 DEF RowInv, Active, Served, HasRow
  <2>5. FeedInv' BY <2>0 DEF FeedInv, Active, Served, HasRow, Announced
  <2>. QED BY <2>1, <2>2, <2>3, <2>4, <2>5
<1>2. CASE Drop(c)
  BY <1>2 DEF Drop, OneServerInv, OnlineInv, RowReadIsFresh, RowInv, FeedInv,
              Active, Served, HasRow, Announced
<1>3. CASE Garbage(c) \/ \E token \in Tokens : Hello(c, token)
  <2> USE <1>3 DEF Garbage, Hello
  <2>1. OneServerInv' BY SMTT(20) DEF OneServerInv, Active, HasRow, Announced
  <2>2. OnlineInv' BY DEF OnlineInv, Active, Served
  <2>3. RowReadIsFresh' BY DEF RowReadIsFresh, HasRow
  <2>4. RowInv' BY DEF RowInv, Active, Served, HasRow
  <2>5. FeedInv' BY DEF FeedInv, Active, Served, HasRow, Announced
  <2>. QED BY <2>1, <2>2, <2>3, <2>4, <2>5
<1>. QED BY <1>1, <1>2, <1>3 DEF Agent

\* The stale-device checker never changes whether a device has a row.
LEMMA BackgroundKeepsRows ==
    ASSUME TypeOK, Background
    PROVE  /\ UNCHANGED <<sessionVars, online>>
           /\ \A d \in Device : HasRow(d)' <=> HasRow(d)
           /\ faults' = 0 => faults = 0
<1> DEFINE RowsStay ==
             /\ UNCHANGED <<sessionVars, online>>
             /\ \A d \in Device : HasRow(d)' <=> HasRow(d)
             /\ faults' = 0 => faults = 0
<1> USE DEF HasRow, TypeOK, RegistryTypeOK
<1>1. CASE StaleList BY <1>1, Background DEF Background, StaleList
<1>2. ASSUME NEW d \in Device, StaleLook(d) PROVE RowsStay
  BY <1>2 DEF Background, StaleLook
<1>3. CASE StaleUpdate BY <1>3 DEF Background, StaleUpdate, SqlFault
<1>4. ASSUME NEW d \in Device, LastSeenAges(d) PROVE RowsStay
  BY <1>4 DEF Background, LastSeenAges, Age
<1>. QED BY <1>1, <1>2, <1>3, <1>4 DEF Background, StaleChecker

LEMMA BackgroundOrderly ==
    ASSUME TypeOK, OrderlyInv, Background
    PROVE  OrderlyInv'
BY BackgroundKeepsRows
   DEF OrderlyInv, OneServerInv, OnlineInv, RowReadIsFresh, RowInv, FeedInv,
       Active, Served, Announced, sessionVars, TypeOK

\* Every step and every stutter keeps OrderlyInv.
LEMMA NextOrderly == ~Overlap /\ TypeOK /\ LockInv /\ OrderlyInv /\ [Next]_vars => OrderlyInv'
<1> SUFFICES ASSUME ~Overlap, TypeOK, LockInv, OrderlyInv, [Next]_vars
             PROVE  OrderlyInv'
  OBVIOUS
<1>1. ASSUME NEW c \in Conn, Agent(c) PROVE OrderlyInv'
  BY <1>1, AgentOrderly
<1>2. ASSUME NEW c \in Conn, ReadPump(c) PROVE OrderlyInv'
  BY <1>2, HelloOrderly, CloseOrderly DEF ReadPump
<1>3. CASE \/ \E c \in Conn : WritePump(c)
           \/ \E k \in Caller : Request(k)
           \/ Crash \/ UNCHANGED vars
  <2>1. UNCHANGED <<connections, pc, found, feed, online, status, faults>>
    BY <1>3 DEF WritePump, WriterSend, WriterStop, Request, SendLookup, SendPush,
                Crash, vars, sessionVars, registryVars
  <2>. QED
    BY <2>1 DEF OrderlyInv, OneServerInv, OnlineInv, RowReadIsFresh, RowInv,
                FeedInv, Active, Served, Announced, HasRow
<1>4. CASE Background BY <1>4, BackgroundOrderly
<1>5. CASE Restart
  <2>1. /\ \A c \in Conn : pc'[c] \in {"idle", "done"}
        /\ \A d \in Device : connections'[d] = NoConn /\ ~Announced(d)'
        /\ online' = {}
    BY <1>5 DEF Restart, CleanupAllDevices, Announced
  <2>2. faults' = 0 => \A d \in Device : ~HasRow(d)'
    BY <1>5 DEF Restart, CleanupAllDevices, SqlFault, HasRow, TypeOK, RegistryTypeOK
  <2>. QED
    BY <2>1, <2>2 DEF OrderlyInv, OneServerInv, OnlineInv,
              RowReadIsFresh, RowInv, FeedInv, Active, Served
<1>. QED BY <1>1, <1>2, <1>3, <1>4, <1>5 DEF Next

\* With no device known, all four agree.
LEMMA InitOrderly == Init => OrderlyInv
BY DEF Init, RegistryInit, OrderlyInv, OneServerInv, OnlineInv, RowReadIsFresh,
       RowInv, FeedInv, Active, Served, Announced, HasRow

\* OrderlyInv is an invariant of the orderly environment.
THEOREM OrderlyInvHolds == ~Overlap => (Spec => []OrderlyInv)
<1> SUFFICES ASSUME ~Overlap PROVE Spec => []OrderlyInv
  OBVIOUS
<1>1. TypeOK /\ LockInv /\ OrderlyInv /\ [Next]_vars => OrderlyInv'
  BY NextOrderly
<1>. QED BY InitOrderly, <1>1, TypeCorrect, LockInvHolds, PTL DEF Spec

\* When each agent opens a connection only after the server is done with its
\* earlier ones: between two messages the manager's map and the registry's map
\* agree on who is connected; and while no SQL statement failed, so do the
\* rows of the table and the last event the admins were sent.
THEOREM SettledDevicesAgree ==
    ~Overlap => (Spec => []SettledAgree)
<1> SUFFICES ASSUME ~Overlap PROVE Spec => []SettledAgree
  OBVIOUS
<1>1. TypeOK /\ LockInv /\ OrderlyInv => SettledAgree
  <2> SUFFICES ASSUME TypeOK, LockInv, OrderlyInv, NEW d \in Device, Settled(d)
               PROVE  /\ d \in online <=> connections[d] # NoConn
                      /\ connections[d] # NoConn =>
                            DeviceOf[connections[d]] = d /\ pc[connections[d]] = "read"
                      /\ faults = 0 => (HasRow(d) <=> connections[d] # NoConn)
                      /\ faults = 0 => (Announced(d) <=> connections[d] # NoConn)
    BY DEF SettledAgree, MapsAgree, RowsAgree, FeedAgrees
  <2>1. \A c \in Conn : connections[d] = c =>
            DeviceOf[c] = d /\ pc[c] = "read" /\ Active(c) /\ Served(c)
    BY DEF LockInv, RegisteredInv, Settled, Active, Served
  <2>2. \A c \in Conn : DeviceOf[c] = d /\ Active(c) =>
            /\ d \in online <=> Served(c)
            /\ faults = 0 => (HasRow(d) <=> Served(c)) /\ (Announced(d) <=> Served(c))
    BY DEF Settled, Active, OrderlyInv, OnlineInv, RowInv, FeedInv
  <2>3. \A c \in Conn : DeviceOf[c] = d /\ Served(c) => connections[d] # NoConn
    BY DEF Served
  <2>4. connections[d] \in Conn \cup {NoConn}
    BY DEF TypeOK
  <2>. QED BY <2>1, <2>2, <2>3, <2>4 DEF OrderlyInv, OneServerInv
<1>. QED BY <1>1, TypeCorrect, LockInvHolds, OrderlyInvHolds, PTL

-----------------------------------------------------------------------------
(***************************************************************************)
(* The devices go through their stages.  OrderlyInv leaves open how row,   *)
(* registry and event stand in the steps that change them; StageInv says   *)
(* it for the stages.                                                      *)
(***************************************************************************)
StageInv ==
    \A c \in Conn : faults = 0 =>
        /\ pc[c] = "helloSet" => (DeviceOf[c] \in online <=> Announced(DeviceOf[c]))
        /\ pc[c] \in {"closeGet", "closeForget"} =>
             (DeviceOf[c] \in online <=> HasRow(DeviceOf[c]))
        /\ pc[c] \in {"closeGet", "closeForget", "closeDelete"} =>
             (HasRow(DeviceOf[c]) <=> Announced(DeviceOf[c]))
        /\ \/ pc[c] = "closeNotify"
           \/ pc[c] \in {"closeForget", "closeDelete"} /\ c \in found
           => Announced(DeviceOf[c])

\* After its first step a close() is of the goroutine's own connection.
LEMMA ClosesItself ==
    ASSUME TypeOK, LockInv, NEW c \in Conn,
           pc[c] \in {"closeGet", "closeForget", "closeDelete", "closeNotify"}
    PROVE  deviceID[target[c]] = DeviceOf[c]
BY DEF TypeOK, LockInv, CloseInv, RegisteredInv, CloseSteps

\* A goroutine that works for a device is the only one.
LEMMA OnlyServer ==
    ASSUME OrderlyInv, NEW c \in Conn, NEW o \in Conn, Active(c),
           DeviceOf[o] = DeviceOf[c], Active(o)
    PROVE  o = c
BY DEF OrderlyInv, OneServerInv

\* A readPump moves itself, and changes row, entry and event of its own device
\* only.
KeepsStage(d) ==
    /\ HasRow(d)' <=> HasRow(d)
    /\ d \in online' <=> d \in online
    /\ Announced(d)' <=> Announced(d)

LEMMA PumpKeepsOthers ==
    ASSUME TypeOK, LockInv, NEW c \in Conn, ReadPump(c)
    PROVE  /\ Active(c)
           /\ \A o \in Conn \ {c} : pc'[o] = pc[o] /\ (o \in found' <=> o \in found)
           /\ \A d \in Device \ {DeviceOf[c]} : KeepsStage(d)
           /\ faults' = 0 => faults = 0
<1> USE DEF At, Goto, TypeOK, RegistryTypeOK, registryVars, KeepsStage, HasRow, Announced,
            Active
<1>1. CASE ReadError(c) BY <1>1 DEF ReadError, CallClose
<1>2. CASE HelloLock(c) BY <1>2 DEF HelloLock, CallClose
<1>3. CASE HelloUnlock(c) BY <1>3 DEF HelloUnlock
<1>4. CASE HelloGet(c) BY <1>4 DEF HelloGet, Find, SqlFault
<1>5. CASE HelloWrite(c) BY <1>5 DEF HelloWrite, SqlFault, CreateRow, UpdateRow, WriteRow
<1>6. CASE HelloInsert(c) BY <1>6 DEF HelloInsert
<1>7. CASE HelloSet(c) BY <1>7 DEF HelloSet, SetConnection
<1>8. CASE HelloNotify(c) BY <1>8 DEF HelloNotify
<1>9. CASE HelloAck(c) BY <1>9 DEF HelloAck
<1>10. CASE ErrReply(c) BY <1>10 DEF ErrReply
<1>11. CASE Reject(c) BY <1>11 DEF Reject, CallClose
<1>12. CASE CloseLock(c) BY <1>12 DEF CloseLock
<1>13. CASE CloseRemove(c) BY <1>13 DEF CloseRemove
<1>14. CASE CloseGet(c) BY <1>14 DEF CloseGet, Find, SqlFault
<1>15. CASE CloseForget(c) BY <1>15, ClosesItself DEF CloseForget, ForgetConnection
<1>16. CASE CloseDelete(c) BY <1>16, ClosesItself DEF CloseDelete, DeleteRow, SqlFault
<1>17. CASE CloseNotify(c) BY <1>17, ClosesItself DEF CloseNotify
<1>18. CASE CloseSend(c) BY <1>18 DEF CloseSend
<1>. QED BY <1>1, <1>2, <1>3, <1>4, <1>5, <1>6, <1>7, <1>8, <1>9,
            <1>10, <1>11, <1>12, <1>13, <1>14, <1>15, <1>16, <1>17, <1>18
         DEF ReadPump, HelloStep, CloseStep

\* So the goroutines of other devices, and the ones of its own that rest, stand
\* where they stood.
LEMMA OtherStages ==
    ASSUME TypeOK, LockInv, OrderlyInv, StageInv, NEW c \in Conn, ReadPump(c),
           NEW o \in Conn, o # c, faults' = 0
    PROVE  /\ pc'[o] = "helloSet" => (DeviceOf[o] \in online' <=> Announced(DeviceOf[o])')
           /\ pc'[o] \in {"closeGet", "closeForget"} =>
                (DeviceOf[o] \in online' <=> HasRow(DeviceOf[o])')
           /\ pc'[o] \in {"closeGet", "closeForget", "closeDelete"} =>
                (HasRow(DeviceOf[o])' <=> Announced(DeviceOf[o])')
           /\ \/ pc'[o] = "closeNotify"
              \/ pc'[o] \in {"closeForget", "closeDelete"} /\ o \in found'
              => Announced(DeviceOf[o])'
<1>1. pc'[o] = pc[o] /\ (o \in found' <=> o \in found) /\ faults = 0 /\ Active(c)
  BY PumpKeepsOthers
<1>2. CASE DeviceOf[o] = DeviceOf[c]
  BY <1>1, <1>2, OnlyServer DEF Active
<1>3. CASE DeviceOf[o] # DeviceOf[c]
  <2>1. KeepsStage(DeviceOf[o]) BY <1>3, PumpKeepsOthers DEF TypeOK
  <2>. QED BY <1>1, <2>1 DEF StageInv, KeepsStage
<1>. QED BY <1>2, <1>3

LEMMA PumpStage ==
    ASSUME TypeOK, LockInv, OrderlyInv, StageInv, NEW c \in Conn, ReadPump(c)
    PROVE  StageInv'
<1> SUFFICES ASSUME faults' = 0
             PROVE  /\ pc'[c] = "helloSet" => (DeviceOf[c] \in online' <=> Announced(DeviceOf[c])')
                    /\ pc'[c] \in {"closeGet", "closeForget"} =>
                         (DeviceOf[c] \in online' <=> HasRow(DeviceOf[c])')
                    /\ pc'[c] \in {"closeGet", "closeForget", "closeDelete"} =>
                         (HasRow(DeviceOf[c])' <=> Announced(DeviceOf[c])')
                    /\ \/ pc'[c] = "closeNotify"
                       \/ pc'[c] \in {"closeForget", "closeDelete"} /\ c \in found'
                       => Announced(DeviceOf[c])'
  BY OtherStages DEF StageInv
<1>1. Active(c) /\ faults = 0 BY PumpKeepsOthers
<1> USE DEF At, Goto, TypeOK, RegistryTypeOK, registryVars, SqlFault, HasRow, Announced
<1>2. CASE HelloInsert(c)
  BY <1>1, <1>2 DEF HelloInsert, OrderlyInv, OnlineInv, FeedInv, Active, Served
<1>3. CASE CloseRemove(c)
  BY <1>1, <1>3 DEF CloseRemove, OrderlyInv, OnlineInv, RowInv, FeedInv, Active, Served
<1>4. CASE CloseGet(c)
  BY <1>1, <1>4, ClosesItself DEF CloseGet, Find, StageInv
<1>5. CASE CloseForget(c)
  BY <1>1, <1>5 DEF CloseForget, StageInv
<1>6. CASE CloseDelete(c)
  BY <1>1, <1>6 DEF CloseDelete, StageInv
<1>7. CASE ~(\/ HelloInsert(c) \/ CloseRemove(c) \/ CloseGet(c) \/ CloseForget(c)
             \/ CloseDelete(c))
  <2> DEFINE Off == pc'[c] \notin {"helloSet", "closeGet", "closeForget", "closeDelete",
                                  "closeNotify"}
  <2>1. CASE ReadError(c) \/ HelloStep(c)
    <3>1. CASE ReadError(c) \/ HelloLock(c) \/ HelloUnlock(c) \/ HelloGet(c) \/ HelloWrite(c)
      BY <3>1 DEF ReadError, HelloLock, HelloUnlock, HelloGet, HelloWrite, CallClose
    <3>2. CASE HelloSet(c) \/ HelloNotify(c) \/ HelloAck(c) \/ ErrReply(c) \/ Reject(c)
      BY <3>2 DEF HelloSet, HelloNotify, HelloAck, ErrReply, Reject, CallClose
    <3>. QED BY <1>7, <2>1, <3>1, <3>2 DEF HelloStep
  <2>2. CASE CloseStep(c)
    <3>1. CASE CloseLock(c) \/ CloseNotify(c)
      BY <3>1 DEF CloseLock, CloseNotify
    <3>2. CASE CloseSend(c) BY <3>2 DEF CloseSend
    <3>. QED BY <1>7, <2>2, <3>1, <3>2 DEF CloseStep
  <2>. QED BY <2>1, <2>2 DEF ReadPump
<1>. QED BY <1>2, <1>3, <1>4, <1>5, <1>6, <1>7

LEMMA NextStage ==
    TypeOK /\ LockInv /\ OrderlyInv /\ StageInv /\ [Next]_vars => StageInv'
<1> SUFFICES ASSUME TypeOK, LockInv, OrderlyInv, StageInv, [Next]_vars PROVE StageInv'
  OBVIOUS
<1>1. ASSUME NEW c \in Conn, Agent(c) PROVE StageInv'
  BY <1>1 DEF Agent, Accept, Drop, Garbage, Hello, At, Goto, TypeOK, registryVars,
              StageInv, HasRow, Announced
<1>2. ASSUME NEW c \in Conn, ReadPump(c) PROVE StageInv'
  BY <1>2, PumpStage
<1>3. CASE \/ \E c \in Conn : WritePump(c)
           \/ \E k \in Caller : Request(k)
           \/ Crash \/ UNCHANGED vars
  BY <1>3 DEF WritePump, WriterSend, WriterStop, Request, SendLookup, SendPush, Crash,
              vars, sessionVars, registryVars, StageInv, HasRow, Announced
<1>4. CASE Background
  BY <1>4, BackgroundKeepsRows DEF sessionVars, StageInv, Announced, TypeOK
<1>5. CASE Restart
  BY <1>5 DEF Restart, StageInv, TypeOK
<1>. QED BY <1>1, <1>2, <1>3, <1>4, <1>5 DEF Next

\* A step of one device is a step of the abstract devices.
LEMMA OneLife ==
    ASSUME NEW d \in Device, NEW from, NEW to, faults = 0, faults' = 0,
           Life(d) = from, Life(d)' = to, \A e \in Device \ {d} : KeepsStage(e)
    PROVE  Lives!Step(d, from, to)
<1>1. \A e \in Device \ {d} : Life(e)' = Life(e)
  BY Zenon DEF KeepsStage, Life
<1>2. (faults = 0)' = (faults = 0) OBVIOUS
<1>. QED BY <1>1, <1>2 DEF Lives!Step

LEMMA NoLife ==
    ASSUME faults = 0, faults' = 0, \A d \in Device : KeepsStage(d)
    PROVE  UNCHANGED <<[d \in Device |-> Life(d)], faults = 0>>
<1>1. \A d \in Device : Life(d)' = Life(d)
  BY Zenon DEF KeepsStage, Life
<1>. QED BY <1>1

\* The steps of a readPump that change the stage of its device.
LEMMA PumpLives ==
    ASSUME TypeOK, LockInv, OrderlyInv, StageInv, NEW c \in Conn, ReadPump(c),
           faults = 0, faults' = 0
    PROVE  Lives!Next \/ UNCHANGED <<[d \in Device |-> Life(d)], faults = 0>>
<1> DEFINE d == DeviceOf[c]
           Goal == Lives!Next \/ UNCHANGED <<[e \in Device |-> Life(e)], faults = 0>>
<1>1. d \in Device /\ \A e \in Device \ {d} : KeepsStage(e)
  BY PumpKeepsOthers DEF TypeOK
<1>2. ASSUME KeepsStage(d) PROVE Goal
  BY <1>1, <1>2, NoLife
<1>3. CASE HelloWrite(c)
  <2> USE <1>3 DEF HelloWrite, At, Goto, SqlFault, CreateRow, UpdateRow, WriteRow,
                   TypeOK, RegistryTypeOK
  <2>1. CASE c \in found
    <3>1. KeepsStage(d)
      BY <2>1 DEF KeepsStage, HasRow, Announced, OrderlyInv, RowReadIsFresh
    <3>. QED BY <3>1, <1>2
  <2>2. CASE c \notin found
    <3>1. ~HasRow(d) /\ d \notin online /\ ~Announced(d)
      BY <2>2 DEF OrderlyInv, RowReadIsFresh, OnlineInv, RowInv, FeedInv, Active
    <3>2. HasRow(d)' \/ UNCHANGED status
      BY <2>2 DEF HasRow
    <3>3. d \notin online' /\ ~Announced(d)'
      BY <3>1 DEF Announced
    <3>4. CASE UNCHANGED status
      <4>1. KeepsStage(d) BY <3>1, <3>3, <3>4 DEF KeepsStage, HasRow
      <4>. QED BY <4>1, <1>2
    <3>5. CASE HasRow(d)'
      <4>1. Life(d) = "off" /\ Life(d)' = "row" BY <3>1, <3>3, <3>5, Zenon DEF Life
      <4>2. Lives!Arrive(d) BY <4>1, <1>1, OneLife DEF Lives!Arrive
      <4>. QED BY <4>2, <1>1 DEF Lives!Next
    <3>. QED BY <3>2, <3>4, <3>5
  <2>. QED BY <2>1, <2>2
<1>4. CASE HelloSet(c)
  <2>1. HasRow(d) /\ (d \in online <=> Announced(d))
    BY <1>4 DEF HelloSet, At, OrderlyInv, OnlineInv, RowInv, Active, StageInv
  <2>2. HasRow(d)' /\ d \in online' /\ (Announced(d)' <=> Announced(d))
    BY <1>4, <2>1 DEF HelloSet, SetConnection, HasRow, Announced
  <2>3. CASE d \in online
    <3>1. KeepsStage(d) BY <2>1, <2>2, <2>3 DEF KeepsStage
    <3>. QED BY <3>1, <1>2
  <2>4. CASE d \notin online
    <3>1. Life(d) = "row" /\ Life(d)' = "mapped" BY <2>1, <2>2, <2>4, Zenon DEF Life
    <3>2. Lives!Enter(d) BY <3>1, <1>1, OneLife DEF Lives!Enter
    <3>. QED BY <3>2, <1>1 DEF Lives!Next
  <2>. QED BY <2>3, <2>4
<1>5. CASE HelloNotify(c)
  <2>1. HasRow(d) /\ d \in online
    BY <1>5 DEF HelloNotify, At, OrderlyInv, OnlineInv, RowInv, FeedInv, Active
  <2>2. HasRow(d)' /\ d \in online' /\ Announced(d)'
    BY <1>1, <1>5, <2>1 DEF HelloNotify, registryVars, HasRow, Announced, TypeOK
  <2>3. CASE Announced(d)
    <3>1. KeepsStage(d) BY <2>1, <2>2, <2>3 DEF KeepsStage
    <3>. QED BY <3>1, <1>2
  <2>4. CASE ~Announced(d)
    <3>1. Life(d) = "mapped" /\ Life(d)' = "up" BY <2>1, <2>2, <2>4, Zenon DEF Life
    <3>2. Lives!Announce(d) BY <3>1, <1>1, OneLife DEF Lives!Announce
    <3>. QED BY <3>2, <1>1 DEF Lives!Next
  <2>. QED BY <2>3, <2>4
<1>6. CASE CloseForget(c)
  <2>1. (d \in online <=> HasRow(d)) /\ (HasRow(d) <=> Announced(d))
    BY <1>6 DEF CloseForget, At, StageInv
  <2>2. /\ d \notin online' /\ (HasRow(d)' <=> HasRow(d))
        /\ Announced(d)' <=> Announced(d)
    BY <1>6, ClosesItself DEF CloseForget, At, ForgetConnection, HasRow, Announced
  <2>3. CASE d \notin online
    <3>1. KeepsStage(d) BY <2>1, <2>2, <2>3 DEF KeepsStage
    <3>. QED BY <3>1, <1>2
  <2>4. CASE d \in online
    <3>1. Life(d) = "up" /\ Life(d)' = "unmapped" BY <2>1, <2>2, <2>4, Zenon DEF Life
    <3>2. Lives!Forget(d) BY <3>1, <1>1, OneLife DEF Lives!Forget
    <3>. QED BY <3>2, <1>1 DEF Lives!Next
  <2>. QED BY <2>3, <2>4
<1>7. CASE CloseDelete(c)
  <2>1. d \notin online /\ (HasRow(d) <=> Announced(d))
    BY <1>7 DEF CloseDelete, At, StageInv, OrderlyInv, OnlineInv, Active, Served,
                LockInv, RegisteredInv, Unregistered, CloseSteps
  <2>2. d \notin online' /\ ~HasRow(d)' /\ (Announced(d)' <=> Announced(d))
    BY <1>1, <1>7, <2>1, ClosesItself
       DEF CloseDelete, At, DeleteRow, SqlFault, HasRow, Announced, TypeOK, RegistryTypeOK
  <2>3. CASE ~HasRow(d)
    <3>1. KeepsStage(d) BY <2>1, <2>2, <2>3 DEF KeepsStage
    <3>. QED BY <3>1, <1>2
  <2>4. CASE HasRow(d)
    <3>1. Life(d) = "unmapped" /\ Life(d)' = "gone" BY <2>1, <2>2, <2>4, Zenon DEF Life
    <3>2. Lives!DeleteRow(d) BY <3>1, <1>1, OneLife DEF Lives!DeleteRow
    <3>. QED BY <3>2, <1>1 DEF Lives!Next
  <2>. QED BY <2>3, <2>4
<1>8. CASE CloseNotify(c)
  <2>1. d \notin online /\ ~HasRow(d)
    BY <1>8 DEF CloseNotify, At, OrderlyInv, OnlineInv, RowInv, Active, Served,
                LockInv, RegisteredInv, Unregistered, CloseSteps
  <2>2. d \notin online' /\ ~HasRow(d)' /\ ~Announced(d)'
    BY <1>1, <1>8, <2>1, ClosesItself
       DEF CloseNotify, At, registryVars, HasRow, Announced, TypeOK
  <2>3. CASE ~Announced(d)
    <3>1. KeepsStage(d) BY <2>1, <2>2, <2>3 DEF KeepsStage
    <3>. QED BY <3>1, <1>2
  <2>4. CASE Announced(d)
    <3>1. Life(d) = "gone" /\ Life(d)' = "off" BY <2>1, <2>2, <2>4, Zenon DEF Life
    <3>2. Lives!Withdraw(d) BY <3>1, <1>1, OneLife DEF Lives!Withdraw
    <3>. QED BY <3>2, <1>1 DEF Lives!Next
  <2>. QED BY <2>3, <2>4
<1>9. CASE ~(\/ HelloWrite(c) \/ HelloSet(c) \/ HelloNotify(c)
             \/ CloseForget(c) \/ CloseDelete(c) \/ CloseNotify(c))
  <2>1. UNCHANGED <<online, status, feed>>
    BY <1>9 DEF ReadPump, ReadError, HelloStep, HelloLock, HelloUnlock, HelloGet,
           HelloInsert, HelloAck, ErrReply, Reject, CloseStep, CloseLock, CloseRemove,
           CloseGet, CloseSend, registryVars
  <2>2. KeepsStage(d) BY <2>1 DEF KeepsStage, HasRow, Announced
  <2>. QED BY <2>2, <1>2
<1>. QED BY <1>3, <1>4, <1>5, <1>6, <1>7, <1>8, <1>9

\* A step of the sessions is a step of the abstract devices, or a stutter.
LEMMA LifeStep ==
    ASSUME TypeOK, LockInv, OrderlyInv, StageInv, [Next]_vars
    PROVE  [Lives!Next]_<<[d \in Device |-> Life(d)], faults = 0>>
<1> DEFINE Goal == [Lives!Next]_<<[d \in Device |-> Life(d)], faults = 0>>
<1> SUFFICES Goal OBVIOUS
<1>1. ASSUME faults' # 0 PROVE Goal
  <2>1. (faults = 0)' = FALSE BY <1>1
  <2>. QED BY <2>1 DEF Lives!Next, Lives!Break
<1>2. ASSUME faults' = 0, faults = 0, \A d \in Device : KeepsStage(d) PROVE Goal
  BY <1>2, NoLife
<1>3. ASSUME faults' = 0, NEW c \in Conn, ReadPump(c) PROVE Goal
  BY <1>3, PumpKeepsOthers, PumpLives
<1>4. ASSUME faults' = 0,
             \/ \E c \in Conn : Agent(c) \/ WritePump(c)
             \/ \E k \in Caller : Request(k)
             \/ Crash \/ UNCHANGED vars
      PROVE  Goal
  <2>1. UNCHANGED <<online, status, feed, faults>>
    BY <1>4 DEF Agent, Accept, Drop, Garbage, Hello, WritePump, WriterSend, WriterStop,
           Request, SendLookup, SendPush, Crash, vars, sessionVars, registryVars
  <2>2. \A d \in Device : KeepsStage(d) BY <2>1 DEF KeepsStage, HasRow, Announced
  <2>. QED BY <1>2, <1>4, <2>1, <2>2
<1>5. ASSUME faults' = 0, Background PROVE Goal
  <2>1. \A d \in Device : KeepsStage(d)
    BY <1>5, BackgroundKeepsRows DEF KeepsStage, Announced, sessionVars
  <2>. QED BY <1>2, <1>5, <2>1, BackgroundKeepsRows
<1>6. ASSUME faults' = 0, Restart PROVE Goal
  <2>1. \A d \in Device : ~HasRow(d)' /\ d \notin online' /\ ~Announced(d)'
    BY <1>6 DEF Restart, CleanupAllDevices, SqlFault, HasRow, Announced, TypeOK, RegistryTypeOK
  <2>2. \A d \in Device : Life(d)' = "off" BY <2>1, Zenon DEF Life
  <2>3. faults = 0 /\ (faults = 0)' = (faults = 0)
    BY <1>6 DEF Restart, CleanupAllDevices, SqlFault, TypeOK, RegistryTypeOK
  <2>. QED BY <2>2, <2>3 DEF Lives!Next, Lives!EndAll
<1> HIDE DEF Goal
<1>7. CASE Next BY <1>1, <1>3, <1>4, <1>5, <1>6, <1>7 DEF Next
<1>8. CASE UNCHANGED vars BY <1>1, <1>4, <1>8
<1>. QED BY <1>7, <1>8

\* Every event is told at its stage.
LEMMA EventsFitStep ==
    ASSUME TypeOK, LockInv, OrderlyInv, StageInv, faults = 0, NEW c \in Conn
    PROVE  /\ HelloNotify(c) => Life(DeviceOf[c]) \in {"mapped", "up"}
           /\ CloseNotify(c) => Life(DeviceOf[c]) = "gone"
           /\ CloseSend(c) => Life(DeviceOf[c]) = "off" \/ target[c] # c
<1> DEFINE d == DeviceOf[c]
<1>1. ASSUME HelloNotify(c) PROVE Life(d) \in {"mapped", "up"}
  <2>1. HasRow(d) /\ d \in online
    BY <1>1 DEF HelloNotify, At, OrderlyInv, OnlineInv, RowInv, FeedInv, Active
  <2>. QED BY <2>1, Zenon DEF Life
<1>2. ASSUME CloseNotify(c) PROVE Life(d) = "gone"
  <2>1. d \notin online /\ ~HasRow(d) /\ Announced(d)
    BY <1>2 DEF CloseNotify, At, OrderlyInv, OnlineInv, RowInv, Active, Served,
                LockInv, RegisteredInv, Unregistered, CloseSteps, StageInv
  <2>. QED BY <2>1, Zenon DEF Life
<1>3. ASSUME CloseSend(c) PROVE Life(d) = "off"
  <2>1. d \notin online /\ ~HasRow(d) /\ ~Announced(d)
    BY <1>3 DEF CloseSend, At, OrderlyInv, OnlineInv, RowInv, FeedInv, Active, Served,
                LockInv, RegisteredInv, Unregistered, CloseSteps
  <2>. QED BY <2>1, Zenon DEF Life
<1>. QED BY <1>1, <1>2, <1>3

LEMMA InitStage == Init => StageInv
BY DEF Init, StageInv

\* In the orderly environment row, entry and event of a device go through the
\* stages that AdminHub takes them through, in that order and one at a time,
\* as long as no SQL statement fails.
THEOREM DevicesLiveInOrder == ~Overlap => (Spec => DevicesLive)
<1> SUFFICES ASSUME ~Overlap PROVE Spec => DevicesLive
  OBVIOUS
<1>1. Init => Lives!Init
  <2> SUFFICES ASSUME Init PROVE Lives!Init
    OBVIOUS
  <2>1. \A d \in Device : ~HasRow(d) /\ d \notin online /\ ~Announced(d)
    BY DEF Init, RegistryInit, HasRow, Announced
  <2>2. \A d \in Device : Life(d) = "off" BY <2>1, Zenon DEF Life
  <2>3. (faults = 0) = TRUE BY DEF Init, RegistryInit
  <2>. QED BY <2>2, <2>3 DEF Lives!Init
<1>2. TypeOK /\ LockInv /\ OrderlyInv /\ StageInv /\ [Next]_vars => StageInv'
  BY NextStage
<1>3. TypeOK /\ LockInv /\ OrderlyInv /\ StageInv /\ [Next]_vars =>
        [Lives!Next]_<<[d \in Device |-> Life(d)], faults = 0>>
  BY LifeStep
<1>4. TypeOK /\ LockInv /\ OrderlyInv /\ StageInv =>
        [faults = 0 => \A c \in Conn :
           /\ HelloNotify(c) => Life(DeviceOf[c]) \in {"mapped", "up"}
           /\ CloseNotify(c) => Life(DeviceOf[c]) = "gone"
           /\ CloseSend(c) => Life(DeviceOf[c]) = "off" \/ target[c] # c]_vars
  BY EventsFitStep
<1>. QED BY <1>1, <1>2, <1>3, <1>4, InitStage, TypeCorrect, LockInvHolds, OrderlyInvHolds,
            PTL DEF Spec, DevicesLive, EventsFit, Lives!Spec

-----------------------------------------------------------------------------
(***************************************************************************)
(* The freeze.                                                             *)
(***************************************************************************)
\* No step ends the freeze, except those that end the process.
LEMMA FrozenStep ==
    ASSUME TypeOK, LockInv, [Next]_vars, Frozen, fate = "up", fate' = "up"
    PROVE  /\ Frozen'
           /\ UNCHANGED <<connections, feed>>
           /\ \A k \in Caller : sending'[k] \in {sending[k], NoConn}
<1>1. PICK g \in Conn : mgrMu = g /\ Replaces(g)
  BY DEF Frozen, LockInv, MutexInv, CloseSteps
<1>2. ~MgrFree /\ pc[g] \in {"closeLock", "closeRemove"} /\ resume[g] = "helloUnlock"
  BY <1>1 DEF MgrFree, Replaces, LockInv, CloseInv, CloseSteps
<1> DEFINE Stays == /\ UNCHANGED <<connections, feed, mgrMu>>
                    /\ \A k \in Caller : sending'[k] \in {sending[k], NoConn}
                    /\ pc'[g] = pc[g] \/ pc'[g] \in {"closeRemove", "closeSend"}
<1> USE <1>1, <1>2 DEF TypeOK, At, Goto, CloseSteps
<1>3. ASSUME NEW c \in Conn, Agent(c) PROVE Stays
  BY <1>3 DEF Agent, Accept, Drop, Garbage, Hello
<1>4. ASSUME NEW c \in Conn, ReadError(c) \/ HelloStep(c)
      PROVE  Stays
  BY <1>4 DEF ReadError, HelloStep, HelloLock, HelloUnlock, HelloGet, HelloWrite,
              HelloInsert, HelloSet, HelloNotify, HelloAck, ErrReply, Reject,
              CallClose, LockInv, MutexInv
<1>5. ASSUME NEW c \in Conn, CloseStep(c)
      PROVE  Stays
  BY <1>5 DEF CloseStep, CloseLock, CloseRemove, CloseGet, CloseForget,
              CloseDelete, CloseNotify, CloseSend
<1>6. ASSUME NEW c \in Conn, WritePump(c) PROVE Stays
  BY <1>6 DEF WritePump, WriterSend, WriterStop
<1>7. ASSUME NEW k \in Caller, Request(k) PROVE Stays
  BY <1>7 DEF Request, SendLookup, SendPush
<1>8. ASSUME Background \/ UNCHANGED vars PROVE Stays
  BY <1>8 DEF Background, vars, sessionVars
<1>9. ~Crash /\ ~Restart
  BY DEF Crash, Restart
<1>10. Stays
  <2>1. CASE \E c \in Conn : Agent(c) BY <2>1, <1>3
  <2>2. CASE \E c \in Conn : ReadPump(c) BY <2>2, <1>4, <1>5 DEF ReadPump
  <2>. QED BY <2>1, <2>2, <1>6, <1>7, <1>8, <1>9 DEF Next
<1>. QED BY <1>10 DEF Frozen

\* In every environment: once a hello has found another connection of its
\* device in the map, Manager.mu is never released again by this process, and
\* nothing that needs it happens any more.
THEOREM ReplacementFreezesManager == Spec => FreezeIsTotal
<1>1. TypeOK /\ LockInv /\ [Next]_vars =>
        [Frozen /\ fate' = "up" /\ fate = "up" =>
           /\ Frozen'
           /\ UNCHANGED <<connections, feed>>
           /\ \A k \in Caller : sending'[k] \in {sending[k], NoConn}]_vars
  BY FrozenStep
<1>. QED BY <1>1, TypeCorrect, LockInvHolds, PTL DEF Spec, FreezeIsTotal

-----------------------------------------------------------------------------
(***************************************************************************)
(* Closed channels.                                                        *)
(***************************************************************************)
\* When no token is wrong, a channel is closed only by the last step of the
\* connection's own goroutine.
ClosedLastInv ==
    /\ fate # "panic"
    /\ \A c \in Conn : c \in closed => pc[c] = "done"
    /\ \A c \in Conn :
         pc[c] # "reject" /\ (pc[c] \in CloseSteps => resume[c] # "read")

\* A connection that is closed by its own goroutine is closed as the last
\* thing the goroutine does.
LEMMA ClosedLastStep ==
    "bad" \notin Tokens /\ TypeOK /\ LockInv /\ ClosedLastInv /\ [Next]_vars
        => ClosedLastInv'
<1> SUFFICES ASSUME "bad" \notin Tokens, TypeOK, LockInv, ClosedLastInv, [Next]_vars
             PROVE  ClosedLastInv'
  OBVIOUS
<1> USE DEF ClosedLastInv, TypeOK, At, Goto, CloseSteps, PumpSend
<1>1. ASSUME NEW c \in Conn, Agent(c) PROVE ClosedLastInv'
  BY <1>1 DEF Agent, Accept, Drop, Garbage, Hello
<1>2. ASSUME NEW c \in Conn, ReadError(c) \/ HelloStep(c) PROVE ClosedLastInv'
  <2>1. CASE ReadError(c) \/ Reject(c) BY <2>1 DEF ReadError, Reject, CallClose
  <2>2. CASE HelloLock(c) BY <2>2 DEF HelloLock, CallClose
  <2>3. CASE HelloUnlock(c) \/ HelloGet(c) \/ HelloWrite(c) \/ HelloInsert(c)
             \/ HelloSet(c) \/ HelloNotify(c)
    BY <2>3 DEF HelloUnlock, HelloGet, HelloWrite, HelloInsert, HelloSet, HelloNotify
  <2>4. CASE HelloAck(c) \/ ErrReply(c) BY <2>4 DEF HelloAck, ErrReply
  <2>. QED BY <1>2, <2>1, <2>2, <2>3, <2>4 DEF HelloStep
<1>3. ASSUME NEW c \in Conn, CloseStep(c), ~CloseSend(c) PROVE ClosedLastInv'
  <2>1. UNCHANGED <<closed, resume, fate>> /\ pc[c] \in CloseSteps
    BY <1>3 DEF CloseStep, CloseLock, CloseRemove, CloseGet, CloseForget,
                CloseDelete, CloseNotify
  <2>2. \E s \in CloseSteps : pc' = [pc EXCEPT ![c] = s]
    BY <1>3 DEF CloseStep, CloseLock, CloseRemove, CloseGet, CloseForget,
                CloseDelete, CloseNotify
  <2>. QED BY <2>1, <2>2
<1>4. ASSUME NEW c \in Conn, CloseSend(c) PROVE ClosedLastInv'
  <2>1. target[c] = c /\ resume[c] = "done"
    BY <1>4 DEF CloseSend, LockInv, CloseInv
  <2>. QED BY <1>4, <2>1 DEF CloseSend
<1>5. ASSUME NEW c \in Conn, WritePump(c) PROVE ClosedLastInv'
  BY <1>5 DEF WritePump, WriterSend, WriterStop
<1>6. ASSUME NEW k \in Caller, Request(k) PROVE ClosedLastInv'
  BY <1>6 DEF Request, SendLookup, SendPush
<1>7. CASE Background \/ UNCHANGED vars
  BY <1>7 DEF Background, vars, sessionVars
<1>8. CASE Crash \/ Restart
  BY <1>8 DEF Crash, Restart
<1>. QED BY <1>1, <1>2, <1>3, <1>4, <1>5, <1>6, <1>7, <1>8 DEF Next, ReadPump

\* As long as every agent presents the right token, in every other respect of
\* the environment: no readPump goroutine sends on or closes a closed channel,
\* and GetConnection hands out open channels only.
THEOREM RightTokensNeverPanic ==
    "bad" \notin Tokens => (Spec => []ClosedOnce)
<1> SUFFICES ASSUME "bad" \notin Tokens
             PROVE  Spec => []ClosedOnce
  OBVIOUS
<1>1. Init => ClosedLastInv
  BY DEF Init, ClosedLastInv, CloseSteps
<1>2. TypeOK /\ LockInv /\ ClosedLastInv /\ [Next]_vars => ClosedLastInv'
  BY ClosedLastStep
<1>3. TypeOK /\ LockInv /\ ClosedLastInv => ClosedOnce
  BY DEF ClosedOnce, TypeOK, LockInv, RegisteredInv, ClosedLastInv, NoPanic, RegisteredIsOpen
<1>. QED BY <1>1, <1>2, <1>3, TypeCorrect, LockInvHolds, PTL DEF Spec

-----------------------------------------------------------------------------
(***************************************************************************)
(* The connection map implements the session directory.                    *)
(***************************************************************************)
LeftNow == {c \in Conn : pc[c] \in Unregistered \cup {"done"}}
AdmittedNow == [d \in Device |-> {c \in Conn : Admitted(d, c)}]
Same == UNCHANGED <<connections, AdmittedNow, LeftNow, fate>>

IdleInv == \A c \in Conn : pc[c] = "idle" => deviceID[c] = NoDevice

LEMMA NextIdleInv == TypeOK /\ IdleInv /\ [Next]_vars => IdleInv'
<1> SUFFICES ASSUME TypeOK, IdleInv, [Next]_vars PROVE IdleInv'
  OBVIOUS
<1> USE DEF IdleInv, TypeOK, At, Goto
<1>1. ASSUME NEW c \in Conn, Agent(c) PROVE IdleInv'
  BY <1>1 DEF Agent, Accept, Drop, Garbage, Hello
<1>2. ASSUME NEW c \in Conn, ReadError(c) \/ HelloStep(c) PROVE IdleInv'
  BY <1>2 DEF ReadError, HelloStep, HelloLock, HelloUnlock, HelloGet, HelloWrite,
              HelloInsert, HelloSet, HelloNotify, HelloAck, ErrReply, Reject, CallClose
<1>3. ASSUME NEW c \in Conn, CloseStep(c) PROVE IdleInv'
  <2>1. UNCHANGED deviceID
    BY <1>3 DEF CloseStep, CloseLock, CloseRemove, CloseGet, CloseForget, CloseDelete,
                CloseNotify, CloseSend
  <2>2. CASE CloseSend(c)
    <3>1. \A o \in Conn : pc'[o] \in {pc[o], resume[o]} BY <2>2 DEF CloseSend
    <3>2. \A o \in Conn : resume[o] # "idle" OBVIOUS
    <3>. QED BY <2>1, <3>1, <3>2
  <2>3. CASE ~CloseSend(c)
    <3>1. \E s \in CloseSteps : pc' = [pc EXCEPT ![c] = s]
      BY <1>3, <2>3 DEF CloseStep, CloseLock, CloseRemove, CloseGet, CloseForget,
                        CloseDelete, CloseNotify, CloseSteps
    <3>2. \A o \in Conn : pc'[o] = pc[o] \/ pc'[o] # "idle"
      BY <3>1 DEF CloseSteps
    <3>. QED BY <2>1, <3>2
  <2>. QED BY <2>2, <2>3
<1>4. CASE \/ \E c \in Conn : WritePump(c)
           \/ \E k \in Caller : Request(k)
           \/ Background \/ Crash \/ UNCHANGED vars
  BY <1>4 DEF WritePump, WriterSend, WriterStop, Request, SendLookup, SendPush,
              Background, Crash, vars, sessionVars
<1>5. CASE Restart BY <1>5 DEF Restart
<1>. QED BY <1>1, <1>2, <1>3, <1>4, <1>5 DEF Next, ReadPump

\* What a step leaves alone, it leaves alone in the directory.
LEMMA DirectoryFrame ==
    ASSUME UNCHANGED <<connections, fate>>,
           \A c \in Conn : /\ Admitted(DeviceOf[c], c)' <=> Admitted(DeviceOf[c], c)
                           /\ c \in LeftNow' <=> c \in LeftNow
    PROVE  Same
<1>1. \A d \in Device, c \in Conn : Admitted(d, c)' <=> Admitted(d, c)
  BY DEF Admitted
<1>2. LeftNow' = LeftNow
  <2>1. LeftNow \subseteq Conn /\ LeftNow' \subseteq Conn BY DEF LeftNow
  <2>. QED BY <2>1
<1>3. \A d \in Device : {c \in Conn : Admitted(d, c)'} = {c \in Conn : Admitted(d, c)}
  BY <1>1
<1>. QED BY <1>2, <1>3 DEF Same, AdmittedNow

\* The goroutine of c admits, withdraws or finishes nobody but c.
LEMMA DirectoryChange ==
    ASSUME NEW c \in Conn,
           \A o \in Conn \ {c} : pc'[o] = pc[o] /\ deviceID'[o] = deviceID[o]
    PROVE  /\ LeftNow' \cup {c} = LeftNow \cup {c}
           /\ \A o \in Conn \ {c} : o \in LeftNow' <=> o \in LeftNow
           /\ \A d \in Device \ {DeviceOf[c]} : AdmittedNow'[d] = AdmittedNow[d]
           /\ \A d \in Device : AdmittedNow'[d] \cup {c} = AdmittedNow[d] \cup {c}
           /\ c \in AdmittedNow'[DeviceOf[c]] <=> Admitted(DeviceOf[c], c)'
           /\ c \in AdmittedNow[DeviceOf[c]] <=> Admitted(DeviceOf[c], c)
<1>1. \A d \in Device, o \in Conn \ {c} : Admitted(d, o)' <=> Admitted(d, o)
  BY DEF Admitted
<1>2. \A d \in Device \ {DeviceOf[c]} : ~Admitted(d, c) /\ ~Admitted(d, c)'
  BY DEF Admitted
<1>. QED BY <1>1, <1>2 DEF LeftNow, AdmittedNow

LEMMA AdmittedChange ==
    ASSUME NEW c \in Conn,
           \A o \in Conn \ {c} : pc'[o] = pc[o] /\ deviceID'[o] = deviceID[o]
    PROVE  LET d == DeviceOf[c]
           IN  /\ (Admitted(d, c)' <=> Admitted(d, c)) => AdmittedNow' = AdmittedNow
               /\ Admitted(d, c)' =>
                    AdmittedNow' = [AdmittedNow EXCEPT ![d] = AdmittedNow[d] \cup {c}]
               /\ ~Admitted(d, c)' =>
                    AdmittedNow' = [AdmittedNow EXCEPT ![d] = AdmittedNow[d] \ {c}]
<1> DEFINE d == DeviceOf[c]
           old == AdmittedNow
           new == AdmittedNow'
<1>1. /\ \A e \in Device \ {d} : new[e] = old[e]
      /\ new[d] \cup {c} = old[d] \cup {c}
      /\ c \in new[d] <=> Admitted(d, c)'
      /\ c \in old[d] <=> Admitted(d, c)
  BY DirectoryChange, DeviceOfAssumption
<1>2. new = [e \in Device |-> new[e]] /\ old = [e \in Device |-> old[e]]
  BY DEF AdmittedNow
<1> HIDE DEF old, new
<1>3. ASSUME Admitted(d, c)' <=> Admitted(d, c) PROVE new = old
  <2>1. c \in new[d] <=> c \in old[d] BY <1>1, <1>3, Zenon
  <2>2. \A x : x \in new[d] \cup {c} <=> x \in old[d] \cup {c} BY <1>1, Zenon
  <2>3. \A x : x \in new[d] <=> x \in old[d] BY <2>1, <2>2
  <2>4. new[d] = old[d] BY <2>3
  <2>. QED BY <1>1, <1>2, <2>4
<1>4. ASSUME Admitted(d, c)' PROVE new = [old EXCEPT ![d] = old[d] \cup {c}]
  <2>1. new[d] = old[d] \cup {c} BY <1>1, <1>4
  <2>. QED BY <1>1, <1>2, <2>1
<1>5. ASSUME ~Admitted(d, c)' PROVE new = [old EXCEPT ![d] = old[d] \ {c}]
  <2>1. new[d] = old[d] \ {c} BY <1>1, <1>5
  <2>. QED BY <1>1, <1>2, <2>1
<1>. QED BY <1>3, <1>4, <1>5 DEF old, new

\* The session of a device has been admitted.
LEMMA SessionAdmitted ==
    ASSUME TypeOK, LockInv, NEW d \in Device, connections[d] # NoConn
    PROVE  connections[d] \in AdmittedNow[d]
<1>1. connections[d] \in Conn BY DEF TypeOK
<1>2. /\ deviceID[connections[d]] = d /\ pc[connections[d]] \notin {"idle", "done"}
      /\ DeviceOf[connections[d]] = d /\ pc[connections[d]] \notin Unregistered
  BY <1>1 DEF LockInv, RegisteredInv
<1>. QED BY <1>1, <1>2 DEF AdmittedNow, Admitted

\* A connection that is admitted alone replaces and removes only itself.
LEMMA AloneOwns ==
    ASSUME TypeOK, LockInv, NEW d \in Device, NEW c \in Conn, AdmittedNow[d] = {c}
    PROVE  connections[d] \in {c, NoConn}
BY SessionAdmitted

LEMMA DirectoryIs ==
    /\ Directory!vars = <<connections, AdmittedNow, LeftNow, fate = "up">>
    /\ Directory!vars' = <<connections', AdmittedNow', LeftNow', fate' = "up">>
BY DEF Directory!vars, AdmittedNow, LeftNow

\* A step of the read loop or of handleHello.
LEMMA HelloDirectory ==
    ASSUME "bad" \notin Tokens, TypeOK, LockInv, ClosedLastInv, NEW c \in Conn,
           fate = "up", ReadError(c) \/ HelloStep(c)
    PROVE  \/ Same
           \/ Directory!Admit(DeviceOf[c], c) \/ Directory!Give(DeviceOf[c], c)
           \/ Directory!Enter(DeviceOf[c], c)
<1> DEFINE d == DeviceOf[c]
<1> USE DEF At, Goto, TypeOK
<1>1. d \in Device /\ deviceID[c] \in {d, NoDevice} /\ ~Reject(c) /\ c \notin LeftNow
  BY DEF LockInv, RegisteredInv, Reject, ClosedLastInv, LeftNow, ReadError, HelloStep,
         HelloLock, HelloUnlock, HelloGet, HelloWrite, HelloInsert, HelloSet,
         HelloNotify, HelloAck, ErrReply, Unregistered, CloseSteps
<1>2. \A o \in Conn \ {c} : pc'[o] = pc[o] /\ deviceID'[o] = deviceID[o]
  BY DEF ReadError, HelloStep, HelloLock, HelloUnlock, HelloGet, HelloWrite,
         HelloInsert, HelloSet, HelloNotify, HelloAck, ErrReply, Reject, CallClose
<1>3. fate' = fate
  BY DEF ReadError, HelloStep, HelloLock, HelloUnlock, HelloGet, HelloWrite,
         HelloInsert, HelloSet, HelloNotify, HelloAck, ErrReply, Reject, PumpSend,
         ClosedLastInv
<1>4. c \notin LeftNow'
  BY <1>1 DEF LeftNow, ReadError, HelloStep, HelloLock, HelloUnlock, HelloGet, HelloWrite,
         HelloInsert, HelloSet, HelloNotify, HelloAck, ErrReply, CallClose, Unregistered,
         CloseSteps
<1>5. LeftNow' = LeftNow
  <2>1. LeftNow \subseteq Conn /\ LeftNow' \subseteq Conn BY DEF LeftNow
  <2>2. \A o \in Conn : o \in LeftNow' <=> o \in LeftNow
    BY <1>1, <1>2, <1>4, DirectoryChange
  <2>. QED BY <2>1, <2>2
<1>6. ASSUME Admitted(d, c)' <=> Admitted(d, c)
      PROVE  AdmittedNow' = AdmittedNow
  BY <1>2, <1>6, AdmittedChange
<1>7. ASSUME UNCHANGED connections, Admitted(d, c)' <=> Admitted(d, c) PROVE Same
  BY <1>3, <1>5, <1>6, <1>7 DEF Same
<1>8. CASE HelloInsert(c)
  <2>1. Admitted(d, c) /\ Admitted(d, c)'
    BY <1>1, <1>8 DEF HelloInsert, Admitted, Unregistered, CloseSteps
  <2>2. connections' = [connections EXCEPT ![d] = c] BY <1>8 DEF HelloInsert
  <2>3. AdmittedNow[d] = {c} => connections[d] \in {c, NoConn} BY <1>1, AloneOwns
  <2>4. c \in AdmittedNow[d] BY <1>1, <1>2, <2>1, DirectoryChange
  <2>. QED BY <1>3, <1>5, <1>6, <2>1, <2>2, <2>3, <2>4
           DEF Directory!Enter, Directory!Alone, AdmittedNow, LeftNow
<1>9. CASE HelloLock(c)
  <2>1. UNCHANGED <<connections, deviceID>> /\ pc[c] = "helloLock" BY <1>9 DEF HelloLock
  <2>2. CASE connections[d] \notin {NoConn, c}
    <3>1. pc'[c] = "closeLock" BY <1>9, <2>2 DEF HelloLock, CallClose
    <3>. QED BY <1>7, <2>1, <3>1 DEF Admitted, Unregistered, CloseSteps
  <2>3. CASE connections[d] \in {NoConn, c}
    <3>1. pc'[c] = "helloUnlock" BY <1>9, <2>3 DEF HelloLock
    <3>2. Admitted(d, c)' BY <3>1 DEF Admitted
    <3>3. CASE deviceID[c] = d
      BY <1>7, <2>1, <3>2, <3>3 DEF Admitted, Unregistered, CloseSteps
    <3>4. CASE deviceID[c] # d
      <4>1. ~Admitted(d, c) BY <2>1, <3>4 DEF Admitted
      <4>2. connections[d] = NoConn BY <2>3, <3>4 DEF LockInv, RegisteredInv
      <4>3. AdmittedNow' = [AdmittedNow EXCEPT ![d] = AdmittedNow[d] \cup {c}]
        BY <1>2, <3>2, AdmittedChange
      <4>. QED BY <1>1, <1>2, <1>3, <1>5, <2>1, <4>1, <4>2, <4>3, DirectoryChange
               DEF Directory!Admit, AdmittedNow, LeftNow
    <3>. QED BY <3>3, <3>4
  <2>. QED BY <2>2, <2>3
<1>10. CASE (HelloGet(c) \/ HelloWrite(c)) /\ pc'[c] = "errReply"
  <2>1. UNCHANGED <<connections, deviceID>> /\ pc[c] \in {"helloGet", "helloWrite"}
    BY <1>10 DEF HelloGet, HelloWrite
  <2>2. CASE deviceID[c] = d
    BY <1>7, <1>10, <2>1, <2>2 DEF Admitted, Unregistered, CloseSteps
  <2>3. CASE deviceID[c] # d
    <3>1. Admitted(d, c) /\ ~Admitted(d, c)' BY <1>10, <2>1, <2>3 DEF Admitted
    <3>2. connections[d] # c BY <2>3 DEF LockInv, RegisteredInv
    <3>3. AdmittedNow' = [AdmittedNow EXCEPT ![d] = AdmittedNow[d] \ {c}]
      BY <1>2, <3>1, AdmittedChange
    <3>. QED BY <1>1, <1>2, <1>3, <1>5, <2>1, <3>1, <3>2, <3>3, DirectoryChange
             DEF Directory!Give, AdmittedNow, LeftNow
  <2>. QED BY <2>2, <2>3
<1>11. CASE (HelloGet(c) \/ HelloWrite(c)) /\ pc'[c] # "errReply"
  BY <1>7, <1>11 DEF HelloGet, HelloWrite, Admitted
<1>12. CASE ReadError(c) \/ HelloUnlock(c) \/ HelloSet(c) \/ HelloNotify(c)
            \/ HelloAck(c) \/ ErrReply(c)
  <2>1. UNCHANGED <<connections, deviceID>>
    BY <1>12 DEF ReadError, HelloUnlock, HelloSet, HelloNotify, HelloAck, ErrReply
  <2>2. Admitted(d, c)' <=> Admitted(d, c)
    BY <1>12, <2>1 DEF ReadError, HelloUnlock, HelloSet, HelloNotify, HelloAck, ErrReply,
       CallClose, Admitted, Unregistered, CloseSteps
  <2>. QED BY <1>7, <2>1, <2>2
<1>. QED BY <1>1, <1>8, <1>9, <1>10, <1>11, <1>12 DEF HelloStep

\* A step of close().
LEMMA CloseDirectory ==
    ASSUME "bad" \notin Tokens, TypeOK, LockInv, ClosedLastInv, NEW c \in Conn,
           fate = "up", CloseStep(c)
    PROVE  Same \/ Directory!Finish(c) \/ Directory!Leave(DeviceOf[c], c)
<1> DEFINE d == DeviceOf[c]
<1> USE DEF At, Goto, TypeOK, CloseSteps
<1>1. d \in Device /\ deviceID[c] \in {d, NoDevice} BY DEF LockInv, RegisteredInv
<1>2. \A o \in Conn \ {c} : pc'[o] = pc[o] /\ deviceID'[o] = deviceID[o]
  BY ZenonT(40) DEF CloseStep, CloseLock, CloseRemove, CloseGet, CloseForget, CloseDelete,
         CloseNotify, CloseSend
<1>3. ASSUME UNCHANGED <<connections, fate>>, Admitted(d, c)' <=> Admitted(d, c),
             c \in LeftNow' <=> c \in LeftNow
      PROVE  Same
  <2>1. \A o \in Conn \ {c} : /\ Admitted(DeviceOf[o], o)' <=> Admitted(DeviceOf[o], o)
                              /\ o \in LeftNow' <=> o \in LeftNow
    BY <1>2 DEF Admitted, LeftNow
  <2>. QED BY <1>3, <2>1, DirectoryFrame
<1>4. CASE CloseLock(c)
  <2>1. UNCHANGED <<connections, deviceID, fate>> /\ pc[c] = "closeLock"
    BY <1>4 DEF CloseLock
  <2>2. CASE deviceID[target[c]] # NoDevice
    <3>1. pc'[c] = "closeRemove" BY <1>4, <2>2 DEF CloseLock
    <3>. QED BY <1>3, <2>1, <3>1 DEF Admitted, LeftNow, Unregistered
  <2>3. CASE deviceID[target[c]] = NoDevice
    <3>1. target[c] = c BY <2>1, <2>3 DEF LockInv, CloseInv, RegisteredInv
    <3>2. pc'[c] = "closeSend" BY <1>4, <2>3 DEF CloseLock
    <3>3. ~Admitted(d, c) /\ ~Admitted(d, c)' BY <2>1, <2>3, <3>1, <3>2 DEF Admitted
    <3>4. AdmittedNow' = AdmittedNow /\ \A e \in Device : c \notin AdmittedNow[e]
      BY <1>2, <3>3, AdmittedChange DEF AdmittedNow, Admitted
    <3>5. LeftNow' = LeftNow \cup {c}
      BY <1>2, <3>2, DirectoryChange DEF LeftNow, Unregistered
    <3>. QED BY <2>1, <3>4, <3>5 DEF Directory!Finish, AdmittedNow, LeftNow
  <2>. QED BY <2>2, <2>3
<1>5. CASE CloseRemove(c)
  <2>1. /\ pc[c] = "closeRemove" /\ pc'[c] = "closeGet" /\ MgrFree
        /\ UNCHANGED <<deviceID, fate>>
    BY <1>5 DEF CloseRemove
  <2>2. target[c] = c /\ deviceID[c] = d
    BY <2>1 DEF MgrFree, LockInv, CloseInv, RegisteredInv
  <2>3. connections' = [connections EXCEPT ![d] = NoConn]
    BY <1>5, <2>2 DEF CloseRemove
  <2>4. Admitted(d, c) /\ ~Admitted(d, c)'
    BY <2>1, <2>2 DEF Admitted, Unregistered
  <2>5. LeftNow' = LeftNow \cup {c}
    BY <1>2, <2>1, DirectoryChange DEF LeftNow, Unregistered
  <2>6. AdmittedNow' = [AdmittedNow EXCEPT ![d] = AdmittedNow[d] \ {c}]
    BY <1>2, <2>4, AdmittedChange
  <2>7. AdmittedNow[d] = {c} => connections[d] \in {c, NoConn} BY <1>1, AloneOwns
  <2>8. c \in AdmittedNow[d] BY <1>1, <1>2, <2>4, DirectoryChange
  <2>. QED BY <2>1, <2>3, <2>5, <2>6, <2>7, <2>8
           DEF Directory!Leave, Directory!Alone, AdmittedNow, LeftNow
<1>6. CASE CloseGet(c) \/ CloseForget(c) \/ CloseDelete(c) \/ CloseNotify(c)
  <2>1. /\ UNCHANGED <<connections, deviceID, fate>> /\ pc[c] \in Unregistered
        /\ pc'[c] \in Unregistered
    BY SMTT(20), ZenonT(20), <1>6 DEF CloseGet, CloseForget, CloseDelete, CloseNotify, Unregistered
  <2>. QED BY <1>3, <2>1 DEF Admitted, LeftNow, Unregistered
<1>7. CASE CloseSend(c)
  <2>1. target[c] = c /\ resume[c] = "done" /\ pc[c] = "closeSend"
    BY <1>7 DEF CloseSend, LockInv, CloseInv, ClosedLastInv
  <2>2. c \notin closed BY <2>1 DEF ClosedLastInv
  <2>3. UNCHANGED <<connections, deviceID, fate>> /\ pc'[c] = "done"
    BY <1>7, <2>1, <2>2 DEF CloseSend
  <2>. QED BY <1>3, <2>1, <2>3 DEF Admitted, LeftNow, Unregistered
<1>. QED BY <1>4, <1>5, <1>6, <1>7 DEF CloseStep

\* A step of the sessions is a step of the directory, or a stutter.
LEMMA DirectoryStep ==
    ASSUME "bad" \notin Tokens, TypeOK, LockInv, ClosedLastInv, IdleInv, [Next]_vars
    PROVE  [Directory!Next]_(Directory!vars)
<1>1. Same => UNCHANGED Directory!vars BY DirectoryIs DEF Same
<1>2. ASSUME NEW c \in Conn, Agent(c) PROVE Same
  <2>1. \A o \in Conn : /\ Admitted(DeviceOf[o], o)' <=> Admitted(DeviceOf[o], o)
                        /\ o \in LeftNow' <=> o \in LeftNow
    BY <1>2 DEF Agent, Accept, Drop, Garbage, Hello, At, Goto, TypeOK, Admitted, LeftNow,
                Unregistered, CloseSteps, IdleInv
  <2>2. UNCHANGED <<connections, fate>> BY <1>2 DEF Agent, Accept, Drop, Garbage, Hello
  <2>. QED BY <2>1, <2>2, DirectoryFrame
<1>3. ASSUME NEW c \in Conn, ReadPump(c) PROVE Same \/ Directory!Next
  <2>1. fate = "up"
    BY <1>3 DEF ReadPump, ReadError, HelloStep, HelloLock, HelloUnlock, HelloGet,
       HelloWrite, HelloInsert, HelloSet, HelloNotify, HelloAck, ErrReply, Reject,
       CloseStep, CloseLock, CloseRemove, CloseGet, CloseForget, CloseDelete,
       CloseNotify, CloseSend, At
  <2>2. DeviceOf[c] \in Device OBVIOUS
  <2>. QED BY <1>3, <2>1, <2>2, HelloDirectory, CloseDirectory DEF ReadPump, Directory!Next
<1>4. CASE \/ \E c \in Conn : WritePump(c)
           \/ \E k \in Caller : Request(k)
           \/ Background \/ UNCHANGED vars
  <2>1. UNCHANGED <<connections, deviceID, pc, fate>>
    BY <1>4 DEF WritePump, WriterSend, WriterStop, Request, SendLookup, SendPush,
                Background, vars, sessionVars
  <2>. QED BY <1>1, <2>1, DirectoryFrame DEF Admitted, LeftNow
<1>5. CASE Crash
  <2>1. UNCHANGED <<connections, deviceID, pc>> /\ fate = "up" /\ fate' = "killed"
    BY <1>5 DEF Crash
  <2>2. UNCHANGED <<connections, AdmittedNow, LeftNow>>
    BY <2>1 DEF AdmittedNow, LeftNow, Admitted
  <2>3. (fate' = "up") = FALSE BY <2>1
  <2>. QED BY <2>1, <2>2, <2>3 DEF Directory!Next, Directory!Die, AdmittedNow, LeftNow
<1>6. CASE Restart
  <2>1. /\ fate # "up" /\ fate' = "up" /\ connections' = [d \in Device |-> NoConn]
        /\ deviceID' = [c \in Conn |-> NoDevice]
        /\ pc' = [c \in Conn |-> IF pc[c] = "idle" THEN "idle" ELSE "done"]
    BY <1>6 DEF Restart
  <2>2. \A d \in Device, c \in Conn : ~Admitted(d, c)' BY <2>1 DEF Admitted
  <2>3. AdmittedNow' = [d \in Device |-> {}] BY <2>2 DEF AdmittedNow
  <2>4. LeftNow \subseteq LeftNow' /\ LeftNow' \subseteq Conn
    BY <2>1 DEF LeftNow, Unregistered, CloseSteps
  <2>5. (fate' = "up") = TRUE BY <2>1
  <2>. QED BY <2>1, <2>3, <2>4, <2>5
           DEF Directory!Next, Directory!EndAll, AdmittedNow, LeftNow
<1>. QED BY <1>1, <1>2, <1>3, <1>4, <1>5, <1>6 DEF Next

\* As long as every agent presents the right token, also with any number of
\* connections of an agent at a time: Manager.connections is a session
\* directory.  A connection is admitted when its device has no session, and one
\* that is admitted alone replaces and removes no entry but its own
\* (manager.go:223-228, 245-248, 480-482).
THEOREM ImplementsDirectory == "bad" \notin Tokens => (Spec => DirectoryRefined)
<1> SUFFICES ASSUME "bad" \notin Tokens PROVE Spec => DirectoryRefined
  OBVIOUS
<1>1. Init => Directory!Init /\ IdleInv /\ ClosedLastInv
  <2> SUFFICES ASSUME Init PROVE Directory!Init /\ IdleInv /\ ClosedLastInv
    OBVIOUS
  <2>1. \A d \in Device, c \in Conn : ~Admitted(d, c) BY DEF Init, Admitted
  <2>2. LeftNow = {} BY DEF Init, LeftNow, Unregistered, CloseSteps
  <2>3. (fate = "up") = TRUE BY DEF Init
  <2>4. AdmittedNow = [d \in Device |-> {}] BY <2>1 DEF AdmittedNow
  <2>5. Directory!Init
    BY <2>2, <2>3, <2>4 DEF Directory!Init, Init, AdmittedNow, LeftNow
  <2>. QED BY <2>5 DEF Init, IdleInv, ClosedLastInv, CloseSteps
<1>2. TypeOK /\ LockInv /\ ClosedLastInv /\ IdleInv /\ [Next]_vars =>
          [Directory!Next]_(Directory!vars)
  BY DirectoryStep
<1>3. TypeOK /\ LockInv /\ ClosedLastInv /\ [Next]_vars => ClosedLastInv'
  BY ClosedLastStep
<1>. QED BY <1>1, <1>2, <1>3, NextIdleInv, TypeCorrect, LockInvHolds, PTL
         DEF Spec, DirectoryRefined, Directory!Spec
=============================================================================
