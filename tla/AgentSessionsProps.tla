------------------------- MODULE AgentSessionsProps -------------------------
(***************************************************************************)
(* What the agent sessions guarantee, and in which environment.            *)
(***************************************************************************)
EXTENDS AgentSessions

\* No goroutine is between two steps of a hello or of a close for the device.
Settled(d) ==
    /\ fate = "up"
    /\ \A c \in Conn : DeviceOf[c] = d => pc[c] \in {"idle", "read", "done"}

\* The manager's lock is held by a hello that closes the connection it
\* replaces, from inside its critical section.
Frozen == \E c \in Conn : mgrMu = c /\ pc[c] \in CloseSteps

\* The steps of a close() after it took the connection out of the map.
Unregistered == CloseSteps \ {"closeLock", "closeRemove"}

\* The goroutine closes the connection its hello replaces.
Replaces(c) == pc[c] \in CloseSteps /\ resume[c] = "helloUnlock"

-----------------------------------------------------------------------------
(***************************************************************************)
(* The invariant behind the safety properties: who may be in the map, who  *)
(* closes what, and who holds which lock.                                  *)
(***************************************************************************)
\* A registered connection serves its own device, and its goroutine runs and
\* has not yet taken it out of the map.
RegisteredInv ==
    /\ \A c \in Conn : deviceID[c] \in {NoDevice, DeviceOf[c]}
    /\ \A d \in Device, c \in Conn : connections[d] = c =>
         /\ deviceID[c] = d
         /\ pc[c] \notin {"idle", "done"}
    /\ \A c \in Conn : pc[c] \in Unregistered => connections[DeviceOf[c]] # c

\* A goroutine closes its own connection; only the one that holds Manager.mu
\* closes another, which stays registered and is never taken out of the map.
CloseInv ==
    \A c \in Conn : pc[c] \in CloseSteps =>
        /\ pc[c] \notin {"closeLock", "closeSend"} => deviceID[target[c]] # NoDevice
        /\ resume[c] # "helloUnlock" => target[c] = c
        /\ resume[c] = "helloUnlock" =>
             /\ mgrMu = c /\ target[c] # c
             /\ connections[DeviceOf[c]] = target[c]
             /\ pc[c] \in {"closeLock", "closeRemove"}

\* The locks are held exactly by the goroutines inside the critical sections.
MutexInv ==
    /\ \A c \in Conn : mgrMu = c <=> pc[c] = "helloUnlock" \/ Replaces(c)
    /\ \A c \in Conn : pc[c] \in CloseSteps \ {"closeLock"} => connMu[target[c]] = c

\* A connection has one closer at a time, the manager lock one holder, and
\* what the map holds is being served.
LockInv == RegisteredInv /\ CloseInv /\ MutexInv

-----------------------------------------------------------------------------
(***************************************************************************)
(* The invariant of an orderly environment (~Overlap): how the map, the    *)
(* registry, the row and the admin event stand at each step of the one     *)
(* goroutine that serves the device.                                       *)
(***************************************************************************)
Active(c) == pc[c] \notin {"idle", "done"}
Served(c) == connections[DeviceOf[c]] = c
Announced(d) == feed[d] \in {"connected", "updated"}

\* A device is served by one goroutine at a time, and what is known of a
\* device is known because of it.
OneServerInv ==
    /\ \A c, o \in Conn :
         c # o /\ DeviceOf[c] = DeviceOf[o] => ~(Active(c) /\ Active(o))
    /\ \A d \in Device : d \in online \/ (faults = 0 /\ (HasRow(d) \/ Announced(d))) =>
         \E c \in Conn : DeviceOf[c] = d /\ Active(c)

\* The registry's map lags behind the manager's in three steps only.
OnlineInv ==
    \A c \in Conn :
        /\ pc[c] = "helloSet" => Served(c)
        /\ Active(c) /\ pc[c] \notin {"helloSet", "closeGet", "closeForget"} =>
             (DeviceOf[c] \in online <=> Served(c))

\* Register's check-then-act: what store.Get said of the row still holds when
\* the INSERT or UPDATE that relies on it runs.
RowReadIsFresh ==
    \A c \in Conn : pc[c] = "helloWrite" => (c \in found <=> HasRow(DeviceOf[c]))

RowInv ==
    \A c \in Conn : faults = 0 =>
        /\ pc[c] = "helloInsert" => HasRow(DeviceOf[c])
        /\ Active(c) /\ pc[c] \notin {"helloInsert", "closeGet", "closeForget",
                                    "closeDelete"} =>
             (HasRow(DeviceOf[c]) <=> Served(c))

FeedInv ==
    \A c \in Conn : faults = 0 =>
        /\ pc[c] \in {"helloSet", "helloNotify"} => Served(c)
        /\ pc[c] = "closeGet" /\ Announced(DeviceOf[c]) => HasRow(DeviceOf[c])
        /\ pc[c] \in {"closeForget", "closeDelete"} /\ Announced(DeviceOf[c]) =>
             c \in found
        /\ Active(c) /\ pc[c] \notin {"helloSet", "helloNotify", "closeGet",
                            "closeForget", "closeDelete", "closeNotify"} =>
             (Announced(DeviceOf[c]) <=> Served(c))

OrderlyInv == OneServerInv /\ OnlineInv /\ RowReadIsFresh /\ RowInv /\ FeedInv

-----------------------------------------------------------------------------
(***************************************************************************)
(* Safety.                                                                 *)
(***************************************************************************)
\* The send channel of a connection that is in Manager.connections is open:
\* GetConnection never hands out a channel that is closed already, so that
\* SendToDevice can only meet a close that comes after its lookup.
RegisteredIsOpen == \A d \in Device : connections[d] \notin closed

\* No readPump goroutine sends on a closed channel or closes one twice, which
\* would end the process: every connection is closed by one goroutine, once.
NoPanic == fate # "panic"

\* A connection is closed once, and after it left the map.
ClosedOnce == NoPanic /\ RegisteredIsOpen

\* Between two messages the two in-memory maps tell the same story: the
\* manager has a connection for a device iff the registry calls it online,
\* and that connection is one of the device's own, being read.
MapsAgree ==
    \A d \in Device : Settled(d) =>
        /\ d \in online <=> connections[d] # NoConn
        /\ connections[d] # NoConn =>
             /\ DeviceOf[connections[d]] = d
             /\ pc[connections[d]] = "read"

\* As long as no SQL statement failed, a device has a row iff it is connected.
RowsAgree ==
    \A d \in Device : Settled(d) /\ faults = 0 =>
        (HasRow(d) <=> connections[d] # NoConn)

\* As long as no SQL statement failed, the last event the admin hub was given
\* about a device says what the connection map says.
FeedAgrees ==
    \A d \in Device : Settled(d) /\ faults = 0 =>
        (Announced(d) <=> connections[d] # NoConn)

\* Between two messages everybody tells the same story about a device.
SettledAgree == MapsAgree /\ RowsAgree /\ FeedAgrees

-----------------------------------------------------------------------------
(***************************************************************************)
(* What a step may not do.                                                 *)
(***************************************************************************)
\* A hello that finds another connection of its device registered never gets
\* further: close() waits for the lock its caller holds.  From then on no
\* connection enters or leaves the map, no admin hears of a device, and no
\* request finds a connection to send to, until the process is replaced.
FreezeIsTotal ==
    [][Frozen /\ fate' = "up" /\ fate = "up" =>
         /\ Frozen'
         /\ UNCHANGED <<connections, feed>>
         /\ \A k \in Caller : sending'[k] \in {sending[k], NoConn}]_vars

\* The goroutine of c is between the lookup of handleHello, which found no other
\* connection (manager.go:223-228), and the entry; or c has been entered and
\* close() has not yet taken its device out of the map.
Admitted(d, c) ==
    /\ DeviceOf[c] = d
    /\ \/ pc[c] \in {"helloUnlock", "helloGet", "helloWrite", "helloInsert"}
       \/ deviceID[c] = d /\ pc[c] \notin {"idle", "done"} \cup Unregistered

\* The map is a directory of sessions in the sense of SessionDirectory, although
\* the lookup and the entry of a hello are two critical sections (manager.go:223,
\* 245) and close() deletes by device id (480): as long as no other hello of the
\* device is between its own two, nobody replaces or removes what a connection
\* entered but the connection itself.
Directory == INSTANCE SessionDirectory WITH
    session <- connections,
    admitted <- [d \in Device |-> {c \in Conn : Admitted(d, c)}],
    left <- {c \in Conn : pc[c] \in Unregistered \cup {"done"}},
    up <- fate = "up"

DirectoryRefined == Directory!Spec

\* The stage of a device, as its row, its entry in the registry's map and the
\* last event about it tell; "other" is what they must not be together.
Life(d) ==
    CASE ~HasRow(d) /\ d \notin online /\ ~Announced(d) -> "off"
      [] HasRow(d)  /\ d \notin online /\ ~Announced(d) -> "row"
      [] HasRow(d)  /\ d \in online    /\ ~Announced(d) -> "mapped"
      [] HasRow(d)  /\ d \in online    /\ Announced(d)  -> "up"
      [] HasRow(d)  /\ d \notin online /\ Announced(d)  -> "unmapped"
      [] ~HasRow(d) /\ d \notin online /\ Announced(d)  -> "gone"
      [] OTHER -> "other"

\* Row, map and event of a device go through the stages of DeviceLife, whatever
\* its connections do: registered again, cut off, rejected or killed, a device
\* is never announced before its row and its entry are there, nor withdrawn
\* while one of them is (manager.go:239-261 and 480-497).
Lives ==
    INSTANCE DeviceLife WITH life <- [d \in Device |-> Life(d)], intact <- faults = 0

\* Every event is the one its stage calls for: "connected" or "updated" of a
\* device that is in the table and the map, "disconnected" of one that was
\* announced and is in neither any more, and no such departure goes untold.
EventsFit ==
    [][faults = 0 => \A c \in Conn :
         /\ HelloNotify(c) => Life(DeviceOf[c]) \in {"mapped", "up"}
         /\ CloseNotify(c) => Life(DeviceOf[c]) = "gone"
         /\ CloseSend(c) => Life(DeviceOf[c]) = "off" \/ target[c] # c]_vars

DevicesLive == Lives!Spec /\ EventsFit

-----------------------------------------------------------------------------
(***************************************************************************)
(* Liveness, under FairSpec.                                               *)
(***************************************************************************)
\* A hello gets through the lock that the clean-ups of other connections take
\* as well (manager.go:223), and its handler returns to the read loop; and a
\* connection whose socket is gone is cleaned up.  The one thing that keeps
\* them is a hello that replaces a connection.
AllGetThrough ==
    \A c \in Conn :
        /\ (pc[c] = "helloLock") ~> (pc[c] \in {"read", "done"} \/ Frozen)
        /\ (sock[c] = "gone") ~> (pc[c] = "done" \/ Frozen)

\* A hello is answered, also one that replaces a connection (manager.go:225).
HelloReturns ==
    \A c \in Conn : (pc[c] = "helloLock") ~> (pc[c] \in {"read", "done"})
=============================================================================
