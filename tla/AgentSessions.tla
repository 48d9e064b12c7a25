--------------------------- MODULE AgentSessions ----------------------------
(***************************************************************************)
(* The agent side of the server: internal/ws/manager.go over the device    *)
(* registry.  Every accepted WebSocket has a readPump goroutine, which     *)
(* runs the message handlers and close(), and a writePump goroutine, which *)
(* drains the send channel.  HTTP handlers send through SendToDevice.      *)
(*                                                                         *)
(* A step of a goroutine is what it does between two accesses to shared    *)
(* state: a critical section of Manager.mu or Connection.mu that contains  *)
(* no call is one step, one that contains calls (handleHello 223-228 and   *)
(* the whole of close) keeps the lock in mgrMu or connMu in between.       *)
(* Readers of Manager.mu hold it for one step, so they only wait for it.   *)
(***************************************************************************)
EXTENDS DeviceRegistry

CONSTANTS
    Conn,       \* the WebSocket connections, each used once
    NoConn,     \* nil
    DeviceOf,   \* the device whose agent opens the connection
    Caller,     \* the HTTP request goroutines that send to devices
    Tokens,     \* the enroll tokens agents present: "good", "bad"
    Overlap,    \* may an agent open a connection while an earlier one of its
                \* own is not cleaned up here (half-open TCP, a second agent)
    Crashes,    \* may the process be killed
    QueueCap    \* capacity of Connection.send (256 in the code)

ASSUME ConnAssumption == NoConn \notin Conn
ASSUME DeviceOfAssumption == DeviceOf \in [Conn -> Device]
ASSUME TokensAssumption == Tokens \subseteq {"good", "bad"}
ASSUME FlagAssumption == Overlap \in BOOLEAN /\ Crashes \in BOOLEAN
ASSUME QueueAssumption == QueueCap \in Nat \ {0}

VARIABLES
    connections,  \* Manager.connections
    deviceID,     \* Connection.deviceID, NoDevice until a hello was accepted
    pc,           \* what the connection's readPump goroutine does next
    target,       \* the connection whose close() the goroutine runs, or last ran
    resume,       \* where it continues when that close() returns
    found,        \* the connections whose last store.Get returned a row
    mgrMu,        \* who holds Manager.mu for writing across steps
    connMu,       \* who holds Connection.mu across steps
    closed,       \* the connections whose send channel is closed
    queue,        \* the number of messages in the send channel
    writer,       \* the connections whose writePump runs
    sock,         \* "open" while both ends have the socket
    sending,      \* SendToDevice: the connection looked up, not sent to yet
    feed,         \* the last event about the device given to the admin hub
    fate          \* "up", or how the process died: "panic", "killed"

sessionVars == <<connections, deviceID, pc, target, resume, found, mgrMu,
                 connMu, closed, queue, writer, sock, sending, feed, fate>>
vars == <<sessionVars, registryVars>>

HelloSteps == {"helloLock", "helloUnlock", "helloGet", "helloWrite",
               "helloInsert", "helloSet", "helloNotify", "helloAck"}
CloseSteps == {"closeLock", "closeRemove", "closeGet", "closeForget",
               "closeDelete", "closeNotify", "closeSend"}
Steps == {"idle", "read", "reject", "errReply", "done"}
            \cup HelloSteps \cup CloseSteps

TypeOK ==
    /\ RegistryTypeOK
    /\ connections \in [Device -> Conn \cup {NoConn}]
    /\ deviceID \in [Conn -> Device \cup {NoDevice}]
    /\ pc \in [Conn -> Steps]
    /\ target \in [Conn -> Conn]
    /\ resume \in [Conn -> {"read", "done", "helloUnlock"}]
    /\ found \in SUBSET Conn
    /\ mgrMu \in Conn \cup {NoConn}
    /\ connMu \in [Conn -> Conn \cup {NoConn}]
    /\ closed \in SUBSET Conn
    /\ queue \in [Conn -> 0..QueueCap]
    /\ writer \in SUBSET Conn
    /\ sock \in [Conn -> {"none", "open", "gone"}]
    /\ sending \in [Caller -> Conn \cup {NoConn}]
    /\ feed \in [Device -> {"none", "connected", "updated", "disconnected"}]
    /\ fate \in {"up", "panic", "killed"}

Init ==
    /\ RegistryInit
    /\ connections = [d \in Device |-> NoConn]
    /\ deviceID = [c \in Conn |-> NoDevice]
    /\ pc = [c \in Conn |-> "idle"]
    /\ target = [c \in Conn |-> c]
    /\ resume = [c \in Conn |-> "read"]
    /\ found = {}
    /\ mgrMu = NoConn
    /\ connMu = [c \in Conn |-> NoConn]
    /\ closed = {}
    /\ queue = [c \in Conn |-> 0]
    /\ writer = {}
    /\ sock = [c \in Conn |-> "none"]
    /\ sending = [k \in Caller |-> NoConn]
    /\ feed = [d \in Device |-> "none"]
    /\ fate = "up"

-----------------------------------------------------------------------------
At(c, step) == fate = "up" /\ pc[c] = step
Goto(c, step) == pc' = [pc EXCEPT ![c] = step]
MgrFree == mgrMu = NoConn
Find(c, row) == found' = IF row THEN found \cup {c} ELSE found \ {c}

\* The readPump starts close(): of its own connection, or of the one a hello
\* replaces.
CallClose(c, t, after) ==
    /\ Goto(c, "closeLock")
    /\ target' = [target EXCEPT ![c] = t]
    /\ resume' = [resume EXCEPT ![c] = after]

\* Mutant of PumpSend: the channel takes every message.
PumpSendUnbounded(c) ==
    /\ connMu[c] = NoConn
    /\ queue' = [queue EXCEPT ![c] = @ + 1]
    /\ UNCHANGED fate

\* sendEnvelope: a non-blocking send that drops the message when the channel
\* is full and panics when the channel is closed.  In a readPump goroutine
\* nothing recovers the panic and the process dies.
PumpSend(c) ==
    /\ connMu[c] = NoConn
    /\ IF c \in closed
         THEN fate' = "panic" /\ UNCHANGED queue
         ELSE /\ queue' = [queue EXCEPT ![c] = IF @ < QueueCap THEN @ + 1 ELSE @]
              /\ UNCHANGED fate

\* Has the server finished with every other connection of c's agent?
OthersFinished(c) ==
    \A o \in Conn \ {c} : DeviceOf[o] = DeviceOf[c] => pc[o] \in {"idle", "done"}

-----------------------------------------------------------------------------
(***************************************************************************)
(* The agents and the network.                                             *)
(***************************************************************************)
\* HandleAgentConnection: the upgrade succeeded and both pumps are started.
Accept(c) ==
    /\ At(c, "idle")
    /\ Overlap \/ OthersFinished(c)
    /\ Goto(c, "read")
    /\ sock' = [sock EXCEPT ![c] = "open"]
    /\ writer' = writer \cup {c}
    /\ UNCHANGED <<connections, deviceID, target, resume, found, mgrMu, connMu,
                   closed, queue, sending, feed, fate, registryVars>>

\* The agent's end of the socket is gone.
Drop(c) ==
    /\ fate = "up" /\ sock[c] = "open"
    /\ sock' = [sock EXCEPT ![c] = "gone"]
    /\ UNCHANGED <<connections, deviceID, pc, target, resume, found, mgrMu,
                   connMu, closed, queue, writer, sending, feed, fate,
                   registryVars>>

-----------------------------------------------------------------------------
(***************************************************************************)
(* readPump and handleHello.                                               *)
(***************************************************************************)
\* ReadMessage returns an agent's hello, and handleHello tests its token.
Hello(c, token) ==
    /\ At(c, "read") /\ sock[c] = "open"
    /\ Goto(c, IF token = "good" THEN "helloLock" ELSE "reject")
    /\ UNCHANGED <<connections, deviceID, target, resume, found, mgrMu, connMu,
                   closed, queue, writer, sock, sending, feed, fate,
                   registryVars>>

\* ReadMessage returns something that is not an envelope or not a hello.
Garbage(c) ==
    /\ At(c, "read") /\ sock[c] = "open"
    /\ Goto(c, "errReply")
    /\ UNCHANGED <<connections, deviceID, target, resume, found, mgrMu, connMu,
                   closed, queue, writer, sock, sending, feed, fate,
                   registryVars>>

\* Mutant of ReadError: close() runs and the loop goes on.
ReadErrorLoops(c) ==
    /\ At(c, "read") /\ sock[c] = "gone"
    /\ CallClose(c, c, "read")
    /\ UNCHANGED <<connections, deviceID, found, mgrMu, connMu, closed, queue,
                   writer, sock, sending, feed, fate, registryVars>>

\* Mutant of ReadError: the error is skipped and the loop goes on.
ReadErrorSkipped(c) ==
    /\ At(c, "read") /\ sock[c] = "gone"
    /\ UNCHANGED vars

\* ReadMessage fails (close frame, reset, or no pong within pongWait): the
\* loop ends and the deferred close() runs.
ReadError(c) ==
    /\ At(c, "read") /\ sock[c] = "gone"
    /\ CallClose(c, c, "done")
    /\ UNCHANGED <<connections, deviceID, found, mgrMu, connMu, closed, queue,
                   writer, sock, sending, feed, fate, registryVars>>

\* sendError for an unreadable message or a failed registration.
ErrReply(c) ==
    /\ At(c, "errReply")
    /\ PumpSend(c)
    /\ Goto(c, "read")
    /\ UNCHANGED <<connections, deviceID, target, resume, found, mgrMu, connMu,
                   closed, writer, sock, sending, feed, registryVars>>

\* Wrong enroll token: sendError, then close() -- and the loop goes on.
Reject(c) ==
    /\ At(c, "reject")
    /\ PumpSend(c)
    /\ CallClose(c, c, "read")
    /\ UNCHANGED <<connections, deviceID, found, mgrMu, connMu, closed, writer,
                   sock, sending, feed, registryVars>>

\* Mutant of HelloLock: Manager.mu is free again when the replaced connection
\* is closed.
HelloLockReleased(c) ==
    /\ At(c, "helloLock") /\ MgrFree
    /\ LET existing == connections[DeviceOf[c]]
       IN  IF existing \in {NoConn, c}
             THEN Goto(c, "helloUnlock") /\ mgrMu' = c /\ UNCHANGED <<target, resume>>
             ELSE CallClose(c, existing, "helloUnlock") /\ UNCHANGED mgrMu
    /\ UNCHANGED <<connections, deviceID, found, connMu, closed, queue, writer,
                   sock, sending, feed, fate, registryVars>>

\* Mutant of HelloLock: no other connection of the device is looked for.
HelloLockBlind(c) ==
    /\ At(c, "helloLock") /\ MgrFree
    /\ mgrMu' = c
    /\ Goto(c, "helloUnlock")
    /\ UNCHANGED <<connections, deviceID, target, resume, found, connMu, closed,
                   queue, writer, sock, sending, feed, fate, registryVars>>

\* Manager.mu is taken and the map looked up; the close() of a connection that
\* is to be replaced runs inside the critical section.
HelloLock(c) ==
    /\ At(c, "helloLock") /\ MgrFree
    /\ mgrMu' = c
    /\ LET existing == connections[DeviceOf[c]]
       IN  IF existing \in {NoConn, c}
             THEN Goto(c, "helloUnlock") /\ UNCHANGED <<target, resume>>
             ELSE CallClose(c, existing, "helloUnlock")
    /\ UNCHANGED <<connections, deviceID, found, connMu, closed, queue, writer,
                   sock, sending, feed, fate, registryVars>>

\* Mutant of HelloUnlock: the lock is kept.
HelloKeepsLock(c) ==
    /\ At(c, "helloUnlock")
    /\ Goto(c, "helloGet")
    /\ UNCHANGED <<connections, deviceID, target, resume, found, mgrMu, connMu,
                   closed, queue, writer, sock, sending, feed, fate, registryVars>>

HelloUnlock(c) ==
    /\ At(c, "helloUnlock")
    /\ mgrMu' = NoConn
    /\ Goto(c, "helloGet")
    /\ UNCHANGED <<connections, deviceID, target, resume, found, connMu, closed,
                   queue, writer, sock, sending, feed, fate, registryVars>>

\* Register, first statement: is there a row for the device?
HelloGet(c) ==
    /\ At(c, "helloGet")
    /\ \/ /\ Find(c, HasRow(DeviceOf[c]))
          /\ Goto(c, "helloWrite")
          /\ UNCHANGED faults
       \/ /\ SqlFault
          /\ Goto(c, "errReply")
          /\ UNCHANGED found
    /\ UNCHANGED <<connections, deviceID, target, resume, mgrMu, connMu, closed,
                   queue, writer, sock, sending, feed, fate,
                   online, status, aged, staleTodo, staleMark>>

\* Register, second statement: an UPDATE of the row that was found, or an
\* INSERT; what was found may be out of date by now.
HelloWrite(c) ==
    LET d == DeviceOf[c]
    IN  /\ At(c, "helloWrite")
        /\ \/ /\ IF c \in found THEN UpdateRow(d) ELSE CreateRow(d)
              /\ Goto(c, "helloInsert")
              /\ UNCHANGED faults
           \/ /\ ~(c \in found <=> HasRow(d))
              /\ Goto(c, "errReply")
              /\ UNCHANGED <<status, aged, faults>>
           \/ /\ SqlFault
              /\ Goto(c, "errReply")
              /\ UNCHANGED <<status, aged>>
        /\ UNCHANGED <<connections, deviceID, target, resume, found, mgrMu,
                       connMu, closed, queue, writer, sock, sending, feed, fate,
                       online, staleTodo, staleMark>>

HelloInsert(c) ==
    /\ At(c, "helloInsert") /\ MgrFree
    /\ deviceID' = [deviceID EXCEPT ![c] = DeviceOf[c]]
    /\ connections' = [connections EXCEPT ![DeviceOf[c]] = c]
    /\ Goto(c, "helloSet")
    /\ UNCHANGED <<target, resume, found, mgrMu, connMu, closed, queue, writer,
                   sock, sending, feed, fate, registryVars>>

\* Mutant of HelloSet: the registry is not told.
HelloSetSkipped(c) ==
    /\ At(c, "helloSet")
    /\ Goto(c, "helloNotify")
    /\ UNCHANGED <<connections, deviceID, target, resume, found, mgrMu, connMu,
                   closed, queue, writer, sock, sending, feed, fate, registryVars>>

HelloSet(c) ==
    /\ At(c, "helloSet")
    /\ SetConnection(DeviceOf[c])
    /\ Goto(c, "helloNotify")
    /\ UNCHANGED <<connections, deviceID, target, resume, found, mgrMu, connMu,
                   closed, queue, writer, sock, sending, feed, fate,
                   status, aged, staleTodo, staleMark, faults>>

\* notifyAdminDeviceUpdate reads Manager.adminNotifier under Manager.mu.
HelloNotify(c) ==
    /\ At(c, "helloNotify") /\ MgrFree
    /\ feed' = [feed EXCEPT ![DeviceOf[c]] =
                    IF c \in found THEN "updated" ELSE "connected"]
    /\ Goto(c, "helloAck")
    /\ UNCHANGED <<connections, deviceID, target, resume, found, mgrMu, connMu,
                   closed, queue, writer, sock, sending, fate, registryVars>>

HelloAck(c) ==
    /\ At(c, "helloAck")
    /\ PumpSend(c)
    /\ Goto(c, "read")
    /\ UNCHANGED <<connections, deviceID, target, resume, found, mgrMu, connMu,
                   closed, writer, sock, sending, feed, registryVars>>

-----------------------------------------------------------------------------
(***************************************************************************)
(* Connection.close, executed by the readPump goroutine of c on target[c]. *)
(***************************************************************************)
\* Mutant of CloseLock: a registered connection is closed like one that is not.
CloseLockDirect(c) ==
    LET t == target[c]
    IN  /\ At(c, "closeLock")
        /\ connMu[t] = NoConn
        /\ connMu' = [connMu EXCEPT ![t] = c]
        /\ Goto(c, "closeSend")
        /\ UNCHANGED <<connections, deviceID, target, resume, found, mgrMu,
                       closed, queue, writer, sock, sending, feed, fate,
                       registryVars>>

CloseLock(c) ==
    LET t == target[c]
    IN  /\ At(c, "closeLock")
        /\ connMu[t] = NoConn
        /\ connMu' = [connMu EXCEPT ![t] = c]
        /\ Goto(c, IF deviceID[t] = NoDevice THEN "closeSend" ELSE "closeRemove")
        /\ UNCHANGED <<connections, deviceID, target, resume, found, mgrMu,
                       closed, queue, writer, sock, sending, feed, fate,
                       registryVars>>

\* Mutant of CloseRemove: the map is written without Manager.mu.
CloseRemoveUnlocked(c) ==
    /\ At(c, "closeRemove")
    /\ connections' = [connections EXCEPT ![deviceID[target[c]]] = NoConn]
    /\ Goto(c, "closeGet")
    /\ UNCHANGED <<deviceID, target, resume, found, mgrMu, connMu, closed, queue,
                   writer, sock, sending, feed, fate, registryVars>>

\* Mutant of CloseRemove: the connection stays in the map.
CloseRemoveSkipped(c) ==
    /\ At(c, "closeRemove") /\ MgrFree
    /\ Goto(c, "closeGet")
    /\ UNCHANGED <<connections, deviceID, target, resume, found, mgrMu, connMu,
                   closed, queue, writer, sock, sending, feed, fate, registryVars>>

CloseRemove(c) ==
    /\ At(c, "closeRemove") /\ MgrFree
    /\ connections' = [connections EXCEPT ![deviceID[target[c]]] = NoConn]
    /\ Goto(c, "closeGet")
    /\ UNCHANGED <<deviceID, target, resume, found, mgrMu, connMu, closed, queue,
                   writer, sock, sending, feed, fate, registryVars>>

\* Mutant of CloseGet: the device is looked up when it is deleted already.
CloseGetLate(c) ==
    /\ At(c, "closeGet")
    /\ Find(c, FALSE)
    /\ Goto(c, "closeForget")
    /\ UNCHANGED <<connections, deviceID, target, resume, mgrMu, connMu, closed,
                   queue, writer, sock, sending, feed, fate, registryVars>>

\* registry.Get: its error is dropped, the device is nil then.
CloseGet(c) ==
    /\ At(c, "closeGet")
    /\ \/ /\ Find(c, HasRow(deviceID[target[c]]))
          /\ UNCHANGED faults
       \/ /\ SqlFault
          /\ Find(c, FALSE)
    /\ Goto(c, "closeForget")
    /\ UNCHANGED <<connections, deviceID, target, resume, mgrMu, connMu, closed,
                   queue, writer, sock, sending, feed, fate,
                   online, status, aged, staleTodo, staleMark>>

\* Mutant of CloseForget: the registry's map keeps the device.
CloseForgetSkipped(c) ==
    /\ At(c, "closeForget")
    /\ Goto(c, "closeDelete")
    /\ UNCHANGED <<connections, deviceID, target, resume, found, mgrMu, connMu,
                   closed, queue, writer, sock, sending, feed, fate, registryVars>>

CloseForget(c) ==
    /\ At(c, "closeForget")
    /\ ForgetConnection(deviceID[target[c]])
    /\ Goto(c, "closeDelete")
    /\ UNCHANGED <<connections, deviceID, target, resume, found, mgrMu, connMu,
                   closed, queue, writer, sock, sending, feed, fate,
                   status, aged, staleTodo, staleMark, faults>>

\* Mutant of CloseDelete: the row stays.
CloseDeleteSkipped(c) ==
    /\ At(c, "closeDelete")
    /\ Goto(c, IF c \in found THEN "closeNotify" ELSE "closeSend")
    /\ UNCHANGED <<connections, deviceID, target, resume, found, mgrMu, connMu,
                   closed, queue, writer, sock, sending, feed, fate, registryVars>>

\* The DELETE: an error is logged and the row stays.
CloseDelete(c) ==
    /\ At(c, "closeDelete")
    /\ \/ DeleteRow(deviceID[target[c]]) /\ UNCHANGED faults
       \/ SqlFault /\ UNCHANGED <<status, aged>>
    /\ Goto(c, IF c \in found THEN "closeNotify" ELSE "closeSend")
    /\ UNCHANGED <<connections, deviceID, target, resume, found, mgrMu, connMu,
                   closed, queue, writer, sock, sending, feed, fate,
                   online, staleTodo, staleMark>>

CloseNotify(c) ==
    /\ At(c, "closeNotify") /\ MgrFree
    /\ feed' = [feed EXCEPT ![deviceID[target[c]]] = "disconnected"]
    /\ Goto(c, "closeSend")
    /\ UNCHANGED <<connections, deviceID, target, resume, found, mgrMu, connMu,
                   closed, queue, writer, sock, sending, fate, registryVars>>

\* close(c.send) panics on a channel that is closed already.
CloseSend(c) ==
    LET t == target[c]
    IN  /\ At(c, "closeSend")
        /\ IF t \in closed
             THEN /\ fate' = "panic"
                  /\ UNCHANGED <<closed, connMu, pc>>
             ELSE /\ closed' = closed \cup {t}
                  /\ connMu' = [connMu EXCEPT ![t] = NoConn]
                  /\ Goto(c, resume[c])
                  /\ UNCHANGED fate
        /\ UNCHANGED <<connections, deviceID, target, resume, found, mgrMu,
                       queue, writer, sock, sending, feed, registryVars>>

-----------------------------------------------------------------------------
(***************************************************************************)
(* writePump.                                                              *)
(***************************************************************************)
WriterSend(c) ==
    /\ fate = "up" /\ c \in writer /\ queue[c] > 0
    /\ queue' = [queue EXCEPT ![c] = @ - 1]
    /\ UNCHANGED <<connections, deviceID, pc, target, resume, found, mgrMu,
                   connMu, closed, writer, sock, sending, feed, fate,
                   registryVars>>

\* The channel is closed and drained, or a write or ping failed: the pump
\* closes the socket and ends.
WriterStop(c) ==
    /\ fate = "up" /\ c \in writer
    /\ (c \in closed /\ queue[c] = 0) \/ sock[c] = "gone"
    /\ writer' = writer \ {c}
    /\ sock' = [sock EXCEPT ![c] = "gone"]
    /\ UNCHANGED <<connections, deviceID, pc, target, resume, found, mgrMu,
                   connMu, closed, queue, sending, feed, fate, registryVars>>

-----------------------------------------------------------------------------
(***************************************************************************)
(* SendToDevice, in the goroutine of an HTTP request.                      *)
(***************************************************************************)
\* GetConnection returns the connection; Manager.mu is released again.
SendLookup(k, d) ==
    /\ fate = "up" /\ sending[k] = NoConn /\ MgrFree
    /\ connections[d] # NoConn
    /\ sending' = [sending EXCEPT ![k] = connections[d]]
    /\ UNCHANGED <<connections, deviceID, pc, target, resume, found, mgrMu,
                   connMu, closed, queue, writer, sock, feed, fate, registryVars>>

\* The non-blocking send under Connection.mu.  On a closed channel it panics;
\* the HTTP server recovers that in the request's goroutine.
SendPush(k) ==
    LET c == sending[k]
    IN  /\ fate = "up" /\ c # NoConn /\ connMu[c] = NoConn
        /\ queue' = [queue EXCEPT ![c] =
                        IF c \notin closed /\ @ < QueueCap THEN @ + 1 ELSE @]
        /\ sending' = [sending EXCEPT ![k] = NoConn]
        /\ UNCHANGED <<connections, deviceID, pc, target, resume, found, mgrMu,
                       connMu, closed, writer, sock, feed, fate, registryVars>>

-----------------------------------------------------------------------------
(***************************************************************************)
(* The process dies and is started again.                                  *)
(***************************************************************************)
Crash ==
    /\ Crashes /\ fate = "up"
    /\ fate' = "killed"
    /\ UNCHANGED <<connections, deviceID, pc, target, resume, found, mgrMu,
                   connMu, closed, queue, writer, sock, sending, feed,
                   registryVars>>

\* The service manager starts a new process: the memory of the old one and all
\* its sockets are gone, its rows are removed by the start-up cleanup.
Restart ==
    /\ fate # "up"
    /\ fate' = "up"
    /\ CleanupAllDevices
    /\ connections' = [d \in Device |-> NoConn]
    /\ pc' = [c \in Conn |-> IF pc[c] = "idle" THEN "idle" ELSE "done"]
    /\ deviceID' = [c \in Conn |-> NoDevice]
    /\ target' = [c \in Conn |-> c]
    /\ resume' = [c \in Conn |-> "read"]
    /\ found' = {}
    /\ mgrMu' = NoConn
    /\ connMu' = [c \in Conn |-> NoConn]
    /\ closed' = {}
    /\ queue' = [c \in Conn |-> 0]
    /\ writer' = {}
    /\ sock' = [c \in Conn |-> IF pc[c] = "idle" THEN "none" ELSE "gone"]
    /\ sending' = [k \in Caller |-> NoConn]
    /\ feed' = [d \in Device |-> "none"]

-----------------------------------------------------------------------------
HelloStep(c) ==
    \/ HelloLock(c) \/ HelloUnlock(c) \/ HelloGet(c) \/ HelloWrite(c)
    \/ HelloInsert(c) \/ HelloSet(c) \/ HelloNotify(c) \/ HelloAck(c)
    \/ ErrReply(c) \/ Reject(c)

CloseStep(c) ==
    \/ CloseLock(c) \/ CloseRemove(c) \/ CloseGet(c) \/ CloseForget(c)
    \/ CloseDelete(c) \/ CloseNotify(c) \/ CloseSend(c)

ReadPump(c) == ReadError(c) \/ HelloStep(c) \/ CloseStep(c)
WritePump(c) == WriterSend(c) \/ WriterStop(c)
Agent(c) ==
    \/ Accept(c) \/ Drop(c) \/ Garbage(c)
    \/ \E token \in Tokens : Hello(c, token)
Request(k) == (\E d \in Device : SendLookup(k, d)) \/ SendPush(k)

\* A row does not get old in the middle of the hello that wrote it: the
\* checker's timeout is much longer than a hello takes.
LastSeenAges(d) ==
    /\ \A c \in Conn : DeviceOf[c] = d => pc[c] \notin {"helloInsert", "helloSet"}
    /\ Age(d)

Background ==
    /\ fate = "up"
    /\ StaleChecker \/ \E d \in Device : LastSeenAges(d)
    /\ UNCHANGED sessionVars

Next ==
    \/ \E c \in Conn : Agent(c) \/ ReadPump(c) \/ WritePump(c)
    \/ \E k \in Caller : Request(k)
    \/ Background
    \/ Crash \/ Restart

\* Every goroutine that can run does.  A readPump gets strong fairness because
\* it may wait for a lock other goroutines keep taking: Go's mutexes hand the
\* lock to a waiter that has waited long.  Agents promise nothing.
Fairness ==
    /\ \A c \in Conn : SF_vars(ReadPump(c)) /\ WF_vars(WritePump(c))
    /\ WF_vars(Restart)

Spec == Init /\ [][Next]_vars
FairSpec == Spec /\ Fairness
=============================================================================
