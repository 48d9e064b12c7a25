------------------------------- MODULE AdminHub ------------------------------
(***************************************************************************)
(* The admin hub, internal/admin/ws_manager.go: agents' goroutines put     *)
(* events about devices into a broadcast channel, the goroutine run()      *)
(* copies each into the send channel of every admin connection, and the    *)
(* connection's writePump sends it to the page (web/admin/devices.html),   *)
(* which keeps a list of devices.  A new admin first gets the whole list;  *)
(* beside that its page fetches the list over HTTP, when it is loaded and  *)
(* whenever it is told to, and shows the answer when it comes.             *)
(*                                                                         *)
(* Channels drop what does not fit; an admin whose send channel is full is *)
(* closed.  The agents are what AgentSessions makes of them when no SQL    *)
(* statement fails, which is what DeviceLife says.                         *)
(***************************************************************************)
EXTENDS Naturals, Sequences, FiniteSets

CONSTANTS
    Device,
    Admin,      \* the admin connections, each used once
    NoEvent,
    Progress,   \* a message about an upload, which the page ignores
    HubCap,     \* capacity of AdminWSManager.broadcast (256 in the code)
    SendCap,    \* capacity of AdminConnection.send (256 in the code)
    MaxVisits   \* how often agents connect, say hello again or report progress

ASSUME HubCapAssumption == HubCap \in Nat \ {0} /\ SendCap \in Nat \ {0}
ASSUME VisitsAssumption == MaxVisits \in Nat

Event == [device : Device, up : BOOLEAN]
List == [devices : SUBSET Device]
ASSUME NoEventAssumption ==
    /\ NoEvent \notin Event \cup {Progress}
    /\ Progress \notin Event \cup List

VARIABLES
    dev,        \* how far a device is with connecting or disconnecting
    visits,     \* how often one connected or reported progress
    broadcast,  \* AdminWSManager.broadcast
    hand,       \* the event run() has received and not yet copied
    registered, \* AdminWSManager.connections
    apc,        \* what HandleConnection does next for an admin
    listed,     \* the devices ListOnline has found for it so far
    send,       \* AdminConnection.send
    closed,     \* the admins whose send channel is closed
    writing,    \* the admins whose writePump runs
    reading,    \* the admins whose readPump runs
    sock,       \* "open" while both ends have the socket
    view,       \* the list on the admin's page
    fetching,   \* what its GET /api/admin/devices does next, "no" without one
    fetched,    \* the devices ListOnline has found for that so far
    dropped,    \* was an event or a list dropped because a channel was full
    crossed     \* the admins for which a list was made, or fetched and not yet
                \* shown, while a device changed, or for which none could be made

deviceVars == <<dev, visits>>
hubVars == <<broadcast, hand, registered>>
pageVars == <<fetching, fetched>>
adminVars == <<apc, listed, send, closed, writing, reading, sock, view, pageVars>>
vars == <<deviceVars, hubVars, adminVars, dropped, crossed>>

\* A device has a row, is in the registry's map, and the admins' goroutines
\* have been told.
HasRow(d) == dev[d] \in {"row", "mapped", "up", "unmapped"}
Online(d) == dev[d] \in {"mapped", "up"}

TypeOK ==
    /\ dev \in [Device -> {"off", "row", "mapped", "up", "unmapped", "gone"}]
    /\ visits \in 0..MaxVisits
    /\ broadcast \in Seq(Event \cup {Progress}) /\ Len(broadcast) <= HubCap
    /\ hand \in Event \cup {Progress, NoEvent}
    /\ registered \in SUBSET Admin
    /\ apc \in [Admin -> {"idle", "list", "filter", "send", "served", "panicked"}]
    /\ listed \in [Admin -> SUBSET Device]
    /\ send \in [Admin -> Seq(Event \cup List \cup {Progress})]
    /\ \A a \in Admin : Len(send[a]) <= SendCap
    /\ closed \in SUBSET Admin
    /\ writing \in SUBSET Admin
    /\ reading \in SUBSET Admin
    /\ sock \in [Admin -> {"none", "open", "gone"}]
    /\ view \in [Admin -> SUBSET Device]
    /\ fetching \in [Admin -> {"no", "filter", "show"}]
    /\ fetched \in [Admin -> SUBSET Device]
    /\ dropped \in BOOLEAN
    /\ crossed \in SUBSET Admin

Init ==
    /\ dev = [d \in Device |-> "off"]
    /\ visits = 0
    /\ broadcast = <<>>
    /\ hand = NoEvent
    /\ registered = {}
    /\ apc = [a \in Admin |-> "idle"]
    /\ listed = [a \in Admin |-> {}]
    /\ send = [a \in Admin |-> <<>>]
    /\ closed = {}
    /\ writing = {}
    /\ reading = {}
    /\ sock = [a \in Admin |-> "none"]
    /\ view = [a \in Admin |-> {}]
    /\ fetching = [a \in Admin |-> "no"]
    /\ fetched = [a \in Admin |-> {}]
    /\ dropped = FALSE
    /\ crossed = {}

-----------------------------------------------------------------------------
Joining == {a \in Admin : apc[a] \in {"list", "filter", "send"}}
Fetching == {a \in Admin : fetching[a] # "no"}

(***************************************************************************)
(* The agents: the hello and the close() of AgentSessions, in the stages   *)
(* of DeviceLife, which AgentSessions implements.                          *)
(***************************************************************************)
Agents == INSTANCE DeviceLife WITH life <- dev, intact <- TRUE

Crosses ==
    /\ crossed' = crossed \cup Joining \cup Fetching
    /\ UNCHANGED <<hubVars, adminVars, dropped>>

Arrive(d) ==
    /\ visits < MaxVisits /\ visits' = visits + 1
    /\ Agents!Arrive(d) /\ Crosses
Enter(d) == Agents!Enter(d) /\ Crosses /\ UNCHANGED visits
Forget(d) == Agents!Forget(d) /\ Crosses /\ UNCHANGED visits
DeleteRow(d) == Agents!DeleteRow(d) /\ Crosses /\ UNCHANGED visits

\* BroadcastDeviceUpdate, which drops the event when the channel is full.
BroadcastDeviceUpdate(d) ==
    /\ Agents!Announce(d) \/ Agents!Withdraw(d)
    /\ IF Len(broadcast) < HubCap
         THEN /\ broadcast' = Append(broadcast, [device |-> d, up |-> Online(d)])
              /\ UNCHANGED dropped
         ELSE dropped' = TRUE /\ UNCHANGED broadcast
    /\ UNCHANGED <<visits, hand, registered, adminVars, crossed>>

\* A connected agent says hello again: its row and its entry stay, and the
\* admins are told once more; what does not fit is dropped.
HelloAgain(d) ==
    /\ visits < MaxVisits /\ visits' = visits + 1
    /\ dev[d] = "up" /\ Len(broadcast) < HubCap
    /\ broadcast' = Append(broadcast, [device |-> d, up |-> TRUE])
    /\ UNCHANGED <<dev, hand, registered, adminVars, dropped, crossed>>

\* An agent reports the progress of an upload; what does not fit is dropped.
BroadcastProgress(d) ==
    /\ visits < MaxVisits /\ visits' = visits + 1
    /\ dev[d] = "up" /\ Len(broadcast) < HubCap
    /\ broadcast' = Append(broadcast, Progress)
    /\ UNCHANGED <<dev, hand, registered, adminVars, dropped, crossed>>

-----------------------------------------------------------------------------
(***************************************************************************)
(* run().                                                                  *)
(***************************************************************************)
HubTake ==
    /\ hand = NoEvent /\ broadcast # <<>>
    /\ hand' = Head(broadcast)
    /\ broadcast' = Tail(broadcast)
    /\ UNCHANGED <<deviceVars, registered, adminVars, dropped, crossed>>

Full == {a \in registered : Len(send[a]) >= SendCap}
CopyToOthers ==
    send' = [a \in Admin |-> IF a \in registered \ Full THEN Append(send[a], hand)
                                                       ELSE send[a]]

\* Mutant of HubSend: what does not fit is dropped for that admin.
HubSendSkips ==
    /\ hand # NoEvent
    /\ CopyToOthers
    /\ hand' = NoEvent
    /\ UNCHANGED <<deviceVars, pageVars, broadcast, registered, apc, listed,
                   closed, writing, reading, sock, view, dropped, crossed>>

\* Mutant of HubSend: a slow admin is closed and stays in the map.
HubSendKeeps ==
    /\ hand # NoEvent
    /\ CopyToOthers
    /\ closed' = closed \cup Full
    /\ hand' = NoEvent
    /\ UNCHANGED <<deviceVars, pageVars, broadcast, registered, apc, listed,
                   writing, reading, sock, view, dropped, crossed>>

\* Mutant of HubSend: the hub waits for a slow admin.
HubSendBlocks ==
    /\ hand # NoEvent /\ Full = {}
    /\ CopyToOthers
    /\ hand' = NoEvent
    /\ UNCHANGED <<deviceVars, pageVars, broadcast, registered, apc, listed,
                   closed, writing, reading, sock, view, dropped, crossed>>

\* The loop over the connections, under the lock; sends to different channels
\* do not interact.
HubSend ==
    /\ hand # NoEvent
    /\ CopyToOthers
    /\ closed' = closed \cup Full
    /\ registered' = registered \ Full
    /\ hand' = NoEvent
    /\ UNCHANGED <<deviceVars, pageVars, broadcast, apc, listed, writing,
                   reading, sock, view, dropped, crossed>>

-----------------------------------------------------------------------------
(***************************************************************************)
(* HandleConnection and sendDeviceList.                                    *)
(***************************************************************************)
Join(a) ==
    /\ apc[a] = "idle"
    /\ apc' = [apc EXCEPT ![a] = "list"]
    /\ sock' = [sock EXCEPT ![a] = "open"]
    /\ registered' = registered \cup {a}
    /\ UNCHANGED <<deviceVars, pageVars, broadcast, hand, listed, send, closed,
                   writing, reading, view, dropped, crossed>>

\* ListOnline reads the rows, and then the map.
ListRows(a) ==
    /\ apc[a] = "list"
    /\ apc' = [apc EXCEPT ![a] = "filter"]
    /\ listed' = [listed EXCEPT ![a] = {d \in Device : HasRow(d)}]
    /\ UNCHANGED <<deviceVars, pageVars, hubVars, send, closed, writing,
                   reading, sock, view, dropped, crossed>>

\* ListOnline fails: no list is sent, and the pumps start all the same.
ListFails(a) ==
    /\ apc[a] = "list"
    /\ apc' = [apc EXCEPT ![a] = "served"]
    /\ writing' = writing \cup {a} /\ reading' = reading \cup {a}
    /\ crossed' = crossed \cup {a}
    /\ UNCHANGED <<deviceVars, pageVars, hubVars, listed, send, closed, sock,
                   view, dropped>>

ListFilter(a) ==
    /\ apc[a] = "filter"
    /\ apc' = [apc EXCEPT ![a] = "send"]
    /\ listed' = [listed EXCEPT ![a] = {d \in @ : Online(d)}]
    /\ UNCHANGED <<deviceVars, pageVars, hubVars, send, closed, writing,
                   reading, sock, view, dropped, crossed>>

\* Mutant of ListSend: the list is queued whether there is room or not.
ListSendUnbounded(a) ==
    /\ apc[a] = "send"
    /\ send' = [send EXCEPT ![a] = Append(@, [devices |-> listed[a]])]
    /\ apc' = [apc EXCEPT ![a] = "served"]
    /\ writing' = writing \cup {a} /\ reading' = reading \cup {a}
    /\ listed' = [listed EXCEPT ![a] = {}]
    /\ UNCHANGED <<deviceVars, pageVars, hubVars, closed, sock, view, dropped,
                   crossed>>

\* The list is queued if it fits, and the pumps start.  When run() has closed
\* the channel meanwhile, the send panics; net/http recovers that, and the
\* connection is left without pumps.
ListSend(a) ==
    /\ apc[a] = "send"
    /\ IF a \in closed
         THEN /\ apc' = [apc EXCEPT ![a] = "panicked"]
              /\ UNCHANGED <<send, writing, reading, dropped>>
         ELSE /\ IF Len(send[a]) < SendCap
                   THEN /\ send' = [send EXCEPT ![a] = Append(@, [devices |-> listed[a]])]
                        /\ UNCHANGED dropped
                   ELSE dropped' = TRUE /\ UNCHANGED send
              /\ apc' = [apc EXCEPT ![a] = "served"]
              /\ writing' = writing \cup {a} /\ reading' = reading \cup {a}
    /\ listed' = [listed EXCEPT ![a] = {}]
    /\ UNCHANGED <<deviceVars, pageVars, hubVars, closed, sock, view, crossed>>

-----------------------------------------------------------------------------
(***************************************************************************)
(* The pumps, and the page.                                                *)
(***************************************************************************)
Shown(shown, m) ==
    IF m = Progress THEN shown
    ELSE IF m \in List THEN m.devices
    ELSE IF m.up THEN shown \cup {m.device} ELSE shown \ {m.device}

\* A message reaches the page, or its writing fails and the pump ends.
WriterSend(a) ==
    /\ a \in writing /\ send[a] # <<>> /\ sock[a] = "open"
    /\ send' = [send EXCEPT ![a] = Tail(@)]
    /\ view' = [view EXCEPT ![a] = Shown(@, Head(send[a]))]
    /\ UNCHANGED <<deviceVars, pageVars, hubVars, apc, listed, closed, writing,
                   reading, sock, dropped, crossed>>

\* Mutant of WriterStop: the pump of a closed channel goes on.
WriterStopNot(a) ==
    /\ a \in writing /\ sock[a] = "gone"
    /\ writing' = writing \ {a}
    /\ UNCHANGED <<deviceVars, pageVars, hubVars, apc, listed, send, closed,
                   reading, sock, view, dropped, crossed>>

\* The channel is closed and empty, or a write or a ping fails.
WriterStop(a) ==
    /\ a \in writing
    /\ sock[a] = "gone" \/ (a \in closed /\ send[a] = <<>>)
    /\ writing' = writing \ {a}
    /\ sock' = [sock EXCEPT ![a] = "gone"]
    /\ UNCHANGED <<deviceVars, pageVars, hubVars, apc, listed, send, closed,
                   reading, view, dropped, crossed>>

\* readPump ends with an error and takes the connection out of the map.
ReaderStop(a) ==
    /\ a \in reading /\ sock[a] = "gone"
    /\ reading' = reading \ {a}
    /\ registered' = registered \ {a}
    /\ UNCHANGED <<deviceVars, pageVars, broadcast, hand, apc, listed, send,
                   closed, writing, sock, view, dropped, crossed>>

\* checkAuth or the page's refresh: HandleDeviceList calls ListOnline ...
FetchRows(a) ==
    /\ fetching[a] = "no" /\ sock[a] # "gone"
    /\ fetching' = [fetching EXCEPT ![a] = "filter"]
    /\ fetched' = [fetched EXCEPT ![a] = {d \in Device : HasRow(d)}]
    /\ UNCHANGED <<deviceVars, hubVars, apc, listed, send, closed, writing, reading,
                   sock, view, dropped, crossed>>

FetchFilter(a) ==
    /\ fetching[a] = "filter"
    /\ fetching' = [fetching EXCEPT ![a] = "show"]
    /\ fetched' = [fetched EXCEPT ![a] = {d \in @ : Online(d)}]
    /\ UNCHANGED <<deviceVars, hubVars, apc, listed, send, closed, writing, reading,
                   sock, view, dropped, crossed>>

\* ... and the page shows the answer, whatever it has heard since; or there is
\* none, and it keeps its list.
FetchShow(a) ==
    /\ fetching[a] = "show"
    /\ fetching' = [fetching EXCEPT ![a] = "no"]
    /\ view' = [view EXCEPT ![a] = fetched[a]]
    /\ fetched' = [fetched EXCEPT ![a] = {}]
    /\ UNCHANGED <<deviceVars, hubVars, apc, listed, send, closed, writing, reading,
                   sock, dropped, crossed>>

FetchFails(a) ==
    /\ fetching[a] # "no"
    /\ fetching' = [fetching EXCEPT ![a] = "no"]
    /\ fetched' = [fetched EXCEPT ![a] = {}]
    /\ UNCHANGED <<deviceVars, hubVars, apc, listed, send, closed, writing, reading,
                   sock, view, dropped, crossed>>

\* The page is closed, or the network fails.
Leave(a) ==
    /\ sock[a] = "open"
    /\ sock' = [sock EXCEPT ![a] = "gone"]
    /\ UNCHANGED <<deviceVars, pageVars, hubVars, apc, listed, send, closed,
                   writing, reading, view, dropped, crossed>>

-----------------------------------------------------------------------------
Agent(d) ==
    \/ Arrive(d) \/ Enter(d) \/ Forget(d) \/ DeleteRow(d) \/ BroadcastDeviceUpdate(d)
    \/ HelloAgain(d) \/ BroadcastProgress(d)
Run == HubTake \/ HubSend
HandleConnection(a) == ListRows(a) \/ ListFails(a) \/ ListFilter(a) \/ ListSend(a)
Fetch(a) == FetchRows(a) \/ FetchFilter(a) \/ FetchShow(a) \/ FetchFails(a)
WritePump(a) == WriterSend(a) \/ WriterStop(a)

Next ==
    \/ \E d \in Device : Agent(d)
    \/ Run
    \/ \E a \in Admin :
          \/ Join(a) \/ HandleConnection(a) \/ WritePump(a) \/ ReaderStop(a)
          \/ Fetch(a) \/ Leave(a)

\* Goroutines that can run do.  A page that does not read lets writes fail
\* after ten seconds, which is Leave or WriterSend here; it owes nothing else.
Spec == Init /\ [][Next]_vars
FairSpec ==
    /\ Spec
    /\ WF_vars(Run)
    /\ \A a \in Admin : WF_vars(WritePump(a)) /\ WF_vars(ReaderStop(a))
=============================================================================
