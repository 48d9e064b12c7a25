--------------------------- MODULE AdminHubProofs ---------------------------
(***************************************************************************)
(* Theorems about the admin hub, for any number of devices, admins and     *)
(* visits, and channels of any capacity.                                   *)
(***************************************************************************)
EXTENDS AdminHubProps, SequenceTheorems, TLAPS

USE HubCapAssumption, VisitsAssumption, NoEventAssumption

Said == Event \cup {Progress}
Message == Event \cup List \cup {Progress}

\* A step of the agents, of run(), and of an admin's goroutines.
AdminStep(a) ==
    \/ Join(a) \/ HandleConnection(a) \/ WritePump(a) \/ ReaderStop(a)
    \/ Fetch(a) \/ Leave(a)

LEMMA NextSteps ==
    Next <=> (\E d \in Device : Agent(d)) \/ Run \/ (\E a \in Admin : AdminStep(a))
BY DEF Next, AdminStep

-----------------------------------------------------------------------------
(***************************************************************************)
(* Type correctness.                                                       *)
(***************************************************************************)
LEMMA ChangeTypeOK ==
    ASSUME TypeOK, NEW d \in Device, NEW from,
           NEW to \in {"off", "row", "mapped", "up", "unmapped", "gone"},
           Agents!Step(d, from, to), Crosses, visits' \in 0..MaxVisits
    PROVE  TypeOK'
BY DEF Agents!Step, Crosses, Joining, Fetching, TypeOK, hubVars, adminVars, pageVars

LEMMA AgentTypeOK ==
    ASSUME TypeOK, NEW d \in Device, Agent(d)
    PROVE  TypeOK'
<1>1. CASE Arrive(d)
  <2>1. visits' \in 0..MaxVisits BY <1>1 DEF Arrive, TypeOK
  <2>. QED BY <1>1, <2>1, ChangeTypeOK DEF Arrive, Agents!Arrive
<1>2. CASE Enter(d) \/ Forget(d) \/ DeleteRow(d)
  <2>1. visits' \in 0..MaxVisits BY <1>2 DEF Enter, Forget, DeleteRow, TypeOK
  <2>. QED BY <1>2, <2>1, ChangeTypeOK
       DEF Enter, Forget, DeleteRow, Agents!Enter, Agents!Forget, Agents!DeleteRow
<1>3. CASE BroadcastDeviceUpdate(d)
  <2>1. [device |-> d, up |-> Online(d)] \in Event
    BY DEF Event, Online
  <2>2. broadcast' \in Seq(Said) /\ Len(broadcast') <= HubCap /\ dropped' \in BOOLEAN
    <3>1. CASE Len(broadcast) < HubCap
      <4>1. broadcast' = Append(broadcast, [device |-> d, up |-> Online(d)])
            /\ dropped' = dropped
        BY <1>3, <3>1 DEF BroadcastDeviceUpdate
      <4>2. Len(Append(broadcast, [device |-> d, up |-> Online(d)])) = Len(broadcast) + 1
            /\ Append(broadcast, [device |-> d, up |-> Online(d)]) \in Seq(Said)
        BY <2>1, AppendProperties DEF TypeOK, Said
      <4>3. Len(broadcast) \in Nat BY LenProperties DEF TypeOK
      <4>. QED BY <3>1, <4>1, <4>2, <4>3 DEF TypeOK
    <3>2. CASE ~(Len(broadcast) < HubCap)
      <4>1. broadcast' = broadcast /\ dropped' = TRUE
        BY <1>3, <3>2 DEF BroadcastDeviceUpdate
      <4>. QED BY <4>1 DEF TypeOK, Said
    <3>. QED BY <3>1, <3>2
  <2>3. dev' \in [Device -> {"off", "row", "mapped", "up", "unmapped", "gone"}]
        /\ UNCHANGED <<visits, hand, registered, adminVars, crossed>>
    BY ZenonT(40), <1>3 DEF BroadcastDeviceUpdate, Agents!Announce, Agents!Withdraw, Agents!Step, TypeOK
  <2>. QED BY <2>2, <2>3 DEF TypeOK, adminVars, pageVars, Said
<1>4. CASE HelloAgain(d) \/ BroadcastProgress(d)
  <2>1. PICK m \in Said :
           /\ broadcast' = Append(broadcast, m) /\ Len(broadcast) < HubCap
           /\ visits' = visits + 1 /\ visits < MaxVisits
           /\ UNCHANGED <<dev, hand, registered, adminVars, dropped, crossed>>
    BY <1>4 DEF HelloAgain, BroadcastProgress, Said, Event
  <2>2. Append(broadcast, m) \in Seq(Said)
        /\ Len(Append(broadcast, m)) = Len(broadcast) + 1 /\ Len(broadcast) \in Nat
    BY AppendProperties, LenProperties DEF TypeOK, Said
  <2>3. broadcast' \in Seq(Said) /\ Len(broadcast') <= HubCap /\ visits' \in 0..MaxVisits
    BY <2>1, <2>2 DEF TypeOK
  <2>. QED BY <2>1, <2>3 DEF TypeOK, adminVars, pageVars, Said
<1>. QED BY <1>1, <1>2, <1>3, <1>4 DEF Agent

\* A message that is appended to a channel with room.
LEMMA RoomForOne ==
    ASSUME NEW S, NEW q \in Seq(S), NEW m \in S, Len(q) < SendCap
    PROVE  Append(q, m) \in Seq(S) /\ Len(Append(q, m)) <= SendCap
BY AppendProperties, LenProperties

LEMMA RunTypeOK ==
    ASSUME TypeOK, Run
    PROVE  TypeOK'
<1>1. CASE HubTake
  <2>1. Head(broadcast) \in Said /\ Tail(broadcast) \in Seq(Said)
        /\ Len(Tail(broadcast)) = Len(broadcast) - 1 /\ Len(broadcast) \in Nat
    BY <1>1, HeadTailProperties, LenProperties DEF HubTake, TypeOK, Said
  <2>2. hand' \in Said /\ broadcast' \in Seq(Said) /\ Len(broadcast') <= HubCap
        /\ UNCHANGED <<dev, visits, registered, adminVars, dropped, crossed>>
    BY <1>1, <2>1 DEF HubTake, TypeOK, deviceVars
  <2>. QED BY <2>2 DEF TypeOK, adminVars, pageVars, Said
<1>2. CASE HubSend
  <2>1. hand \in Message BY <1>2 DEF HubSend, TypeOK, Message
  <2>2. ASSUME NEW a \in Admin
        PROVE  send'[a] \in Seq(Message) /\ Len(send'[a]) <= SendCap
    <3>1. send[a] \in Seq(Message) /\ Len(send[a]) <= SendCap
      BY DEF TypeOK, Message
    <3>2. CASE a \in registered \ Full
      <4>1. send'[a] = Append(send[a], hand) BY <1>2, <3>2 DEF HubSend, CopyToOthers
      <4>2. Len(send[a]) < SendCap BY <3>1, <3>2, LenProperties DEF Full
      <4>. QED BY <2>1, <3>1, <4>1, <4>2, RoomForOne
    <3>3. CASE a \notin registered \ Full
      <4>1. send'[a] = send[a] BY <1>2, <3>3 DEF HubSend, CopyToOthers
      <4>. QED BY <3>1, <4>1
    <3>. QED BY <3>2, <3>3
  <2>3. send' \in [Admin -> Seq(Message)] BY <1>2, <2>2 DEF HubSend, CopyToOthers
  <2>4. /\ closed' \in SUBSET Admin /\ registered' \in SUBSET Admin /\ hand' = NoEvent
        /\ UNCHANGED <<dev, visits, broadcast, apc, listed, writing, reading, sock, view,
                       fetching, fetched, dropped, crossed>>
    BY <1>2 DEF HubSend, pageVars, Full, deviceVars, TypeOK
  <2>. QED BY <2>2, <2>3, <2>4 DEF TypeOK, Message
<1>. QED BY <1>1, <1>2 DEF Run

LEMMA AdminTypeOK ==
    ASSUME TypeOK, NEW a \in Admin, AdminStep(a)
    PROVE  TypeOK'
<1> USE DEF TypeOK, deviceVars, hubVars, pageVars
<1>1. CASE Join(a) BY <1>1 DEF Join
<1>2. CASE ListRows(a) BY <1>2 DEF ListRows
<1>10. CASE ListFails(a) BY <1>10 DEF ListFails
<1>3. CASE ListFilter(a) BY <1>3 DEF ListFilter
<1>4. CASE ListSend(a)
  <2>1. [devices |-> listed[a]] \in List BY DEF List
  <2>2. send' = send \/ (Len(send[a]) < SendCap
                          /\ send' = [send EXCEPT ![a] = Append(@, [devices |-> listed[a]])])
    BY <1>4 DEF ListSend
  <2>3. Len(send[a]) < SendCap =>
            /\ Append(send[a], [devices |-> listed[a]]) \in Seq(Message)
            /\ Len(Append(send[a], [devices |-> listed[a]])) <= SendCap
    BY <2>1, RoomForOne DEF Message
  <2>4. send' \in [Admin -> Seq(Message)] /\ \A b \in Admin : Len(send'[b]) <= SendCap
    <3> DEFINE sent == Append(send[a], [devices |-> listed[a]])
    <3>1. CASE send' = send BY <3>1 DEF Message
    <3>2. CASE Len(send[a]) < SendCap /\ send' = [send EXCEPT ![a] = sent]
      <4>1. sent \in Seq(Message) /\ Len(sent) <= SendCap BY <2>3, <3>2
      <4>2. send \in [Admin -> Seq(Message)] BY DEF Message
      <4> HIDE DEF sent
      <4>. QED BY <3>2, <4>1, <4>2
    <3>. QED BY <2>2, <3>1, <3>2
  <2>5. /\ apc' \in [Admin -> {"idle", "list", "filter", "send", "served", "panicked"}]
        /\ writing' \in SUBSET Admin /\ reading' \in SUBSET Admin
    <3>1. apc' = [apc EXCEPT ![a] = "panicked"] \/ apc' = [apc EXCEPT ![a] = "served"]
      BY <1>4 DEF ListSend
    <3>2. /\ writing' = writing \/ writing' = writing \cup {a}
          /\ reading' = reading \/ reading' = reading \cup {a}
      BY <1>4 DEF ListSend
    <3>. QED BY <3>1, <3>2
  <2>8. UNCHANGED <<deviceVars, pageVars, hubVars, closed, sock, view, crossed>>
    BY <1>4 DEF ListSend
  <2>6. dropped' \in BOOLEAN
    <3>1. dropped' = dropped \/ dropped' = TRUE BY <1>4 DEF ListSend
    <3>. QED BY <3>1
  <2>7. listed' \in [Admin -> SUBSET Device]
    <3>1. listed' = listed \/ listed' = [listed EXCEPT ![a] = {}] BY <1>4 DEF ListSend
    <3>. QED BY <3>1
  <2>. QED BY <2>4, <2>5, <2>6, <2>7, <2>8 DEF Message
<1>5. CASE WriterSend(a)
  <2>1. send[a] \in Seq(Message) /\ send[a] # <<>> BY <1>5 DEF WriterSend, Message
  <2>2. Head(send[a]) \in Message /\ Tail(send[a]) \in Seq(Message)
        /\ Len(Tail(send[a])) = Len(send[a]) - 1 /\ Len(send[a]) \in Nat
    BY <2>1, HeadTailProperties, LenProperties
  <2>3. Shown(view[a], Head(send[a])) \in SUBSET Device
    BY <2>2 DEF Shown, Message, List, Event
  <2>4. send' = [send EXCEPT ![a] = Tail(send[a])]
        /\ view' = [view EXCEPT ![a] = Shown(view[a], Head(send[a]))]
    BY <1>5 DEF WriterSend
  <2>5. send' \in [Admin -> Seq(Message)] /\ \A b \in Admin : Len(send'[b]) <= SendCap
    BY <2>2, <2>4 DEF Message
  <2>6. view' \in [Admin -> SUBSET Device] BY <2>3, <2>4
  <2>. QED BY <1>5, <2>5, <2>6 DEF WriterSend, Message
<1>6. CASE WriterStop(a) BY <1>6 DEF WriterStop
<1>7. CASE ReaderStop(a) BY <1>7 DEF ReaderStop
<1>8. CASE Leave(a) BY <1>8 DEF Leave
<1>9. CASE Fetch(a)
  <2>1. CASE FetchRows(a) BY <2>1 DEF FetchRows
  <2>2. CASE FetchFilter(a) BY <2>2 DEF FetchFilter
  <2>3. CASE FetchShow(a) BY <2>3 DEF FetchShow
  <2>4. CASE FetchFails(a) BY <2>4 DEF FetchFails
  <2>. QED BY <1>9, <2>1, <2>2, <2>3, <2>4 DEF Fetch
<1>. QED BY <1>1, <1>2, <1>3, <1>4, <1>5, <1>6, <1>7, <1>8, <1>9, <1>10
         DEF AdminStep, HandleConnection, WritePump

LEMMA NextTypeOK == TypeOK /\ [Next]_vars => TypeOK'
<1> SUFFICES ASSUME TypeOK, [Next]_vars PROVE TypeOK'
  OBVIOUS
<1>1. CASE UNCHANGED vars
  BY <1>1 DEF vars, deviceVars, hubVars, adminVars, pageVars, TypeOK
<1>2. CASE Next
  BY <1>2, NextSteps, AgentTypeOK, RunTypeOK, AdminTypeOK
<1>. QED BY <1>1, <1>2

\* The variables of the hub keep their types; channels do not overflow.
THEOREM HubTypeCorrect == Spec => []TypeOK
<1>1. Init => TypeOK
  <2> SUFFICES ASSUME Init PROVE TypeOK
    OBVIOUS
  <2>1. \A S : <<>> \in Seq(S) /\ Len(<<>>) = 0 BY EmptySeq
  <2>2. broadcast \in Seq(Event \cup {Progress}) /\ Len(broadcast) <= HubCap
    <3>1. broadcast = <<>> BY DEF Init
    <3>. QED BY <2>1, <3>1
  <2>3. /\ send \in [Admin -> Seq(Event \cup List \cup {Progress})]
        /\ \A a \in Admin : Len(send[a]) <= SendCap
    <3>1. send = [a \in Admin |-> <<>>] BY DEF Init
    <3>. QED BY <2>1, <3>1
  <2>4. dropped \in BOOLEAN /\ visits \in 0..MaxVisits
    <3>1. dropped = FALSE BY Zenon DEF Init
    <3>2. dropped \in BOOLEAN BY Zenon, <3>1
    <3>3. visits = 0 BY DEF Init
    <3>. QED BY <3>2, <3>3
  <2>5. /\ dev \in [Device -> {"off", "row", "mapped", "up", "unmapped", "gone"}]
        /\ apc \in [Admin -> {"idle", "list", "filter", "send", "served", "panicked"}]
        /\ sock \in [Admin -> {"none", "open", "gone"}]
    BY DEF Init
  <2>6. /\ listed \in [Admin -> SUBSET Device] /\ view \in [Admin -> SUBSET Device]
        /\ registered \in SUBSET Admin /\ closed \in SUBSET Admin
        /\ writing \in SUBSET Admin /\ reading \in SUBSET Admin
        /\ crossed \in SUBSET Admin
        /\ fetching \in [Admin -> {"no", "filter", "show"}]
        /\ fetched \in [Admin -> SUBSET Device]
    BY DEF Init
  <2>7. hand \in Event \cup {Progress, NoEvent}
    BY DEF Init
  <2>. QED BY Zenon, <2>2, <2>3, <2>4, <2>5, <2>6, <2>7 DEF TypeOK
<1>. QED BY <1>1, NextTypeOK, PTL DEF Spec

-----------------------------------------------------------------------------
\* An admin that is closed has connected, and has left the map.
ClosedInv ==
    /\ registered \cap closed = {}
    /\ \A a \in registered \cup closed : apc[a] # "idle"

LEMMA NextClosedInv == TypeOK /\ ClosedInv /\ [Next]_vars => ClosedInv'
<1> SUFFICES ASSUME TypeOK, ClosedInv, [Next]_vars PROVE ClosedInv'
  OBVIOUS
<1> USE DEF ClosedInv
<1>1. CASE UNCHANGED vars
  BY <1>1 DEF vars, hubVars, adminVars
<1>2. ASSUME NEW d \in Device, Agent(d) PROVE ClosedInv'
  BY <1>2 DEF Agent, Arrive, Enter, Forget, DeleteRow, Crosses, BroadcastDeviceUpdate,
              HelloAgain, BroadcastProgress, hubVars, adminVars
<1>3. CASE Run
  BY <1>3 DEF Run, HubTake, HubSend, Full, adminVars
<1>4. ASSUME NEW a \in Admin, AdminStep(a) PROVE ClosedInv'
  <2>1. CASE Join(a) BY <2>1 DEF Join, TypeOK
  <2>2. CASE HandleConnection(a)
    BY <2>2 DEF HandleConnection, ListRows, ListFails, ListFilter, ListSend, hubVars, TypeOK
  <2>3. CASE WritePump(a) BY <2>3 DEF WritePump, WriterSend, WriterStop, hubVars
  <2>4. CASE ReaderStop(a) \/ Leave(a) \/ Fetch(a)
    BY <2>4 DEF ReaderStop, Leave, Fetch, FetchRows, FetchFilter, FetchShow, FetchFails, hubVars
  <2>. QED BY <1>4, <2>1, <2>2, <2>3, <2>4 DEF AdminStep
<1>. QED BY <1>1, <1>2, <1>3, <1>4, NextSteps

\* run() never sends on a channel that it closed (ws_manager.go:57).
THEOREM HubSendsOnOpen == Spec => []RegisteredIsOpen
<1>1. Init => ClosedInv BY DEF Init, ClosedInv
<1>2. ClosedInv => RegisteredIsOpen BY DEF ClosedInv, RegisteredIsOpen
<1>. QED BY <1>1, <1>2, NextClosedInv, HubTypeCorrect, PTL DEF Spec

-----------------------------------------------------------------------------
(***************************************************************************)
(* What a channel's content says of a device: its last message about it.   *)
(***************************************************************************)
Speaks(m, d) == m # Progress /\ (m \in List \/ m.device = d)
Agrees(m, d, S) == d \in Shown({}, m) <=> d \in S
Silent(q, d) == \A i \in 1..Len(q) : ~Speaks(q[i], d)
EndsWith(q, d, S) ==
    \E i \in 1..Len(q) :
        /\ Speaks(q[i], d) /\ Agrees(q[i], d, S)
        /\ \A j \in 1..Len(q) : j > i => ~Speaks(q[j], d)

LEMMA EventIsNoList == \A e \in Event : e \notin List
BY DEF Event, List

\* What a message does to the list on a page.
LEMMA ShownOne ==
    ASSUME NEW m \in Message, NEW v \in SUBSET Device, NEW d \in Device, NEW S
    PROVE  /\ ~Speaks(m, d) => (d \in Shown(v, m) <=> d \in v)
           /\ Speaks(m, d) /\ Agrees(m, d, S) => (d \in Shown(v, m) <=> d \in S)
<1>1. CASE m = Progress BY <1>1 DEF Shown, Speaks
<1>2. CASE m # Progress /\ m \in List BY <1>2 DEF Shown, Speaks, Agrees
<1>3. CASE m # Progress /\ m \notin List
  <2>1. m \in Event BY <1>3 DEF Message
  <2>. QED BY <1>3, <2>1 DEF Shown, Speaks, Agrees, Event
<1>. QED BY <1>1, <1>2, <1>3

LEMMA SaysAppend ==
    ASSUME NEW q \in Seq(Message), NEW m \in Message, NEW d, NEW S
    PROVE  /\ Silent(Append(q, m), d) <=> Silent(q, d) /\ ~Speaks(m, d)
           /\ Speaks(m, d) /\ Agrees(m, d, S) => EndsWith(Append(q, m), d, S)
           /\ ~Speaks(m, d) /\ EndsWith(q, d, S) => EndsWith(Append(q, m), d, S)
<1> DEFINE r == Append(q, m)
<1>1. /\ Len(q) \in Nat /\ Len(r) = Len(q) + 1
      /\ \A i \in 1..Len(q) : r[i] = q[i]
      /\ r[Len(q) + 1] = m
  BY AppendProperties, LenProperties
<1> HIDE DEF r
<1>2. 1..Len(r) = 1..Len(q) \cup {Len(q) + 1} BY <1>1
<1>3. Silent(r, d) <=> Silent(q, d) /\ ~Speaks(m, d)
  BY <1>1, <1>2 DEF Silent
<1>4. ASSUME Speaks(m, d), Agrees(m, d, S) PROVE EndsWith(r, d, S)
  <2>1. Len(q) + 1 \in 1..Len(r) /\ r[Len(q) + 1] = m BY <1>1
  <2>2. \A j \in 1..Len(r) : ~(j > Len(q) + 1) BY <1>1
  <2>. QED BY <1>4, <2>1, <2>2 DEF EndsWith
<1>5. ASSUME ~Speaks(m, d), EndsWith(q, d, S) PROVE EndsWith(r, d, S)
  <2>1. PICK i \in 1..Len(q) :
            /\ Speaks(q[i], d) /\ Agrees(q[i], d, S)
            /\ \A j \in 1..Len(q) : j > i => ~Speaks(q[j], d)
    BY <1>5 DEF EndsWith
  <2>2. i \in 1..Len(r) /\ r[i] = q[i] BY <1>1
  <2>3. \A j \in 1..Len(r) : j > i => ~Speaks(r[j], d)
    BY <1>1, <1>2, <1>5, <2>1
  <2>. QED BY <2>1, <2>2, <2>3 DEF EndsWith
<1>. QED BY <1>3, <1>4, <1>5 DEF r

LEMMA SaysTail ==
    ASSUME NEW q \in Seq(Message), q # <<>>, NEW d, NEW S
    PROVE  /\ Silent(q, d) <=> Silent(Tail(q), d) /\ ~Speaks(Head(q), d)
           /\ EndsWith(q, d, S) =>
                  \/ EndsWith(Tail(q), d, S)
                  \/ Silent(Tail(q), d) /\ Speaks(Head(q), d) /\ Agrees(Head(q), d, S)
<1> DEFINE r == Tail(q)
<1>1. /\ Len(q) \in Nat \ {0} /\ Len(r) = Len(q) - 1
      /\ \A i \in 1..Len(r) : r[i] = q[i + 1]
      /\ Head(q) = q[1]
  BY HeadTailProperties, LenProperties, EmptySeq
<1> HIDE DEF r
<1>2. \A i \in 1..Len(q) : i = 1 \/ (i - 1 \in 1..Len(r) /\ q[i] = r[i - 1])
  BY <1>1
<1>3. Silent(q, d) <=> Silent(r, d) /\ ~Speaks(Head(q), d)
  <2>1. ASSUME Silent(q, d) PROVE Silent(r, d) /\ ~Speaks(Head(q), d)
    <3>1. ASSUME NEW i \in 1..Len(r) PROVE ~Speaks(r[i], d)
      <4>1. i + 1 \in 1..Len(q) /\ r[i] = q[i + 1] BY <1>1
      <4>. QED BY <2>1, <4>1 DEF Silent
    <3>. QED BY <1>1, <2>1, <3>1 DEF Silent
  <2>2. ASSUME Silent(r, d), ~Speaks(Head(q), d) PROVE Silent(q, d)
    BY <1>1, <1>2, <2>2 DEF Silent
  <2>. QED BY <2>1, <2>2
<1>4. ASSUME EndsWith(q, d, S)
      PROVE  \/ EndsWith(r, d, S)
             \/ Silent(r, d) /\ Speaks(Head(q), d) /\ Agrees(Head(q), d, S)
  <2>1. PICK i \in 1..Len(q) :
            /\ Speaks(q[i], d) /\ Agrees(q[i], d, S)
            /\ \A j \in 1..Len(q) : j > i => ~Speaks(q[j], d)
    BY <1>4 DEF EndsWith
  <2>2. \A j \in 1..Len(r) : j + 1 > i => ~Speaks(r[j], d)
    <3> SUFFICES ASSUME NEW j \in 1..Len(r), j + 1 > i PROVE ~Speaks(r[j], d)
      OBVIOUS
    <3>1. j + 1 \in 1..Len(q) /\ r[j] = q[j + 1] BY <1>1
    <3>. QED BY <2>1, <3>1
  <2>3. CASE i = 1
    <3>1. Silent(r, d) BY <1>1, <2>2, <2>3 DEF Silent
    <3>. QED BY <1>1, <2>1, <2>3, <3>1
  <2>4. CASE i # 1
    <3>1. i - 1 \in 1..Len(r) /\ q[i] = r[i - 1] BY <1>2, <2>4
    <3>2. \A j \in 1..Len(r) : j > i - 1 => ~Speaks(r[j], d) BY <1>1, <2>2
    <3>. QED BY <2>1, <3>1, <3>2 DEF EndsWith
  <2>. QED BY <2>3, <2>4
<1>. QED BY <1>3, <1>4 DEF r

-----------------------------------------------------------------------------
(***************************************************************************)
(* What is on its way to a page agrees with the devices.                   *)
(***************************************************************************)
OnlineSet == {d \in Device : Online(d)}
\* The event about the device's last change has been sent or dropped.
Settled(d) == dev[d] \in {"off", "row", "up"}
HandSilent(d) == hand = NoEvent \/ ~Speaks(hand, d)

\* The last event the hub has about a settled device is right.
HubAgrees(d) ==
    \/ EndsWith(broadcast, d, OnlineSet)
    \/ Silent(broadcast, d) /\ (HandSilent(d) \/ Agrees(hand, d, OnlineSet))

\* What the page of a will show of d, when the hub has nothing more on it.
PageAgrees(a, d) ==
    Silent(broadcast, d) /\ HandSilent(d) =>
        \/ EndsWith(send[a], d, OnlineSet)
        \/ Silent(send[a], d) /\ (d \in view[a] <=> d \in OnlineSet)

\* The list made for an admin that no device crosses.
ListAgrees(a) ==
    /\ apc[a] = "filter" => OnlineSet \subseteq listed[a]
    /\ apc[a] = "send" => listed[a] = OnlineSet

\* The same of the list that a page fetches.
FetchAgrees(a) ==
    /\ fetching[a] = "filter" => OnlineSet \subseteq fetched[a]
    /\ fetching[a] = "show" => fetched[a] = OnlineSet

ViewInv ==
    ~dropped =>
        /\ \A d \in Device : Settled(d) => HubAgrees(d)
        /\ \A a \in registered \ crossed : apc[a] = "served" =>
               \A d \in Device : Settled(d) => PageAgrees(a, d)
        /\ \A a \in Joining \ crossed : ListAgrees(a)
        /\ \A a \in Fetching \ crossed : FetchAgrees(a)

LEMMA ViewsAgree == TypeOK /\ ViewInv => ViewsConverge
<1> SUFFICES ASSUME TypeOK, ViewInv, Quiet, ~dropped,
                    NEW a \in registered \ crossed, apc[a] = "served", send[a] = <<>>
             PROVE  view[a] = OnlineSet
  BY DEF ViewsConverge, OnlineSet
<1>1. ASSUME NEW d \in Device PROVE d \in view[a] <=> d \in OnlineSet
  <2>1. PageAgrees(a, d) BY DEF ViewInv, Quiet, Settled
  <2>2. Len(<<>>) = 0 BY EmptySeq
  <2>3. Silent(broadcast, d) /\ HandSilent(d) BY <2>2 DEF Quiet, Silent, HandSilent
  <2>4. ~EndsWith(send[a], d, OnlineSet) BY <2>2 DEF EndsWith
  <2>. QED BY <2>1, <2>3, <2>4 DEF PageAgrees
<1>2. view[a] \subseteq Device /\ OnlineSet \subseteq Device BY DEF TypeOK, OnlineSet
<1>. QED BY <1>1, <1>2

LEMMA InitViewInv == Init => ViewInv
<1> SUFFICES ASSUME Init PROVE ViewInv
  OBVIOUS
<1>1. Len(<<>>) = 0 BY EmptySeq
<1>2. \A d \in Device : Silent(broadcast, d) /\ HandSilent(d)
  BY <1>1 DEF Init, Silent, HandSilent
<1>3. registered = {} /\ Joining = {} /\ Fetching = {} BY DEF Init, Joining, Fetching
<1>. QED BY <1>2, <1>3 DEF ViewInv, HubAgrees

\* A change of a device leaves it unsettled, or leaves it online or not.
LEMMA ChangeViewInv ==
    ASSUME TypeOK, ViewInv, NEW d \in Device, NEW from, NEW to,
           Agents!Step(d, from, to), Crosses,
           \/ from = "off" /\ to = "row"
           \/ to \in {"mapped", "unmapped"}
           \/ from = "unmapped" /\ to = "gone"
    PROVE  ViewInv'
<1> SUFFICES ASSUME ~dropped PROVE ViewInv'
  BY DEF Crosses, ViewInv
<1>1. \A e \in Device : Settled(e)' => Settled(e) /\ (Online(e)' <=> Online(e))
  BY DEF Agents!Step, Settled, Online, TypeOK
<1>2. \A e \in Device : Settled(e)' => (e \in OnlineSet' <=> e \in OnlineSet)
  BY <1>1 DEF OnlineSet
<1>3. \A m, e : Settled(e)' /\ e \in Device =>
          (Agrees(m, e, OnlineSet') <=> Agrees(m, e, OnlineSet))
  BY <1>2 DEF Agrees
<1>4. \A q, e : Settled(e)' /\ e \in Device =>
          (EndsWith(q, e, OnlineSet') <=> EndsWith(q, e, OnlineSet))
  BY <1>3 DEF EndsWith
<1>5. UNCHANGED <<broadcast, hand, registered, apc, send, view, fetching, dropped>>
  BY DEF Crosses, hubVars, adminVars, pageVars
<1>6. ASSUME NEW e \in Device, Settled(e)' PROVE HubAgrees(e)'
  <2>1. HubAgrees(e) BY <1>1, <1>6 DEF ViewInv
  <2>. QED BY <1>3, <1>4, <1>5, <1>6, <2>1 DEF HubAgrees, HandSilent
<1>7. ASSUME NEW a \in (registered \ crossed)', apc'[a] = "served",
             NEW e \in Device, Settled(e)'
      PROVE  PageAgrees(a, e)'
  <2>1. a \in registered \ crossed BY <1>5, <1>7 DEF Crosses
  <2>2. PageAgrees(a, e) BY <1>1, <1>5, <1>7, <2>1 DEF ViewInv
  <2>. QED BY <1>2, <1>4, <1>5, <1>7, <2>2 DEF PageAgrees, HandSilent
<1>8. (Joining \ crossed)' = {} /\ (Fetching \ crossed)' = {}
  BY <1>5 DEF Joining, Fetching, Crosses
<1>. QED BY <1>6, <1>7, <1>8 DEF ViewInv

\* An event that says of a device whether it is online now.
LEMMA EventViewInv ==
    ASSUME TypeOK, ViewInv, NEW d \in Device,
           ~dropped' => /\ ~dropped
                        /\ broadcast' = Append(broadcast, [device |-> d, up |-> Online(d)]),
           UNCHANGED <<hand, registered, apc, listed, send, view, pageVars, crossed>>,
           \A f \in Device : (Online(f)' <=> Online(f)) /\ (f # d /\ Settled(f)' => Settled(f))
    PROVE  ViewInv'
<1> DEFINE e == [device |-> d, up |-> Online(d)]
<1> SUFFICES ASSUME ~dropped' PROVE ViewInv'
  BY DEF ViewInv
<1>1. ~dropped /\ broadcast' = Append(broadcast, e)
  OBVIOUS
<1>2. UNCHANGED <<hand, registered, apc, listed, send, view, pageVars, crossed>>
  OBVIOUS
<1>3. \A f \in Device : (Online(f)' <=> Online(f)) /\ (f # d /\ Settled(f)' => Settled(f))
  OBVIOUS
<1>4. OnlineSet' = OnlineSet BY <1>3 DEF OnlineSet
<1>5. e \in Message /\ e \in Event /\ broadcast \in Seq(Message)
  <2>1. e \in Event BY DEF Event, Online
  <2>. QED BY <2>1 DEF Message, TypeOK
<1>6. \A f \in Device : Speaks(e, f) <=> f = d
  BY <1>5, EventIsNoList, NoEventAssumption DEF Speaks
<1>7. Agrees(e, d, OnlineSet)
  <2>1. e # Progress /\ e \notin List BY <1>5, EventIsNoList, NoEventAssumption
  <2>. QED BY <2>1 DEF Agrees, Shown, OnlineSet
<1>8. EndsWith(broadcast', d, OnlineSet) /\ ~Silent(broadcast', d)
  BY <1>1, <1>5, <1>6, <1>7, SaysAppend
<1>9. ASSUME NEW f \in Device, f # d
      PROVE  /\ Silent(broadcast', f) <=> Silent(broadcast, f)
             /\ EndsWith(broadcast, f, OnlineSet) => EndsWith(broadcast', f, OnlineSet)
  BY <1>1, <1>5, <1>6, <1>9, SaysAppend
<1> HIDE DEF e
<1>10. ASSUME NEW f \in Device, Settled(f)' PROVE HubAgrees(f)'
  <2>1. CASE f = d BY <1>4, <1>8, <2>1 DEF HubAgrees
  <2>2. CASE f # d
    <3>1. HubAgrees(f) BY <1>1, <1>3, <1>10, <2>2 DEF ViewInv
    <3>. QED BY <1>2, <1>4, <1>9, <2>2, <3>1 DEF HubAgrees, HandSilent
  <2>. QED BY <2>1, <2>2
<1>11. ASSUME NEW a \in (registered \ crossed)', apc'[a] = "served",
              NEW f \in Device, Settled(f)'
       PROVE  PageAgrees(a, f)'
  <2>1. CASE f = d BY <1>8, <2>1 DEF PageAgrees
  <2>2. CASE f # d
    <3>1. PageAgrees(a, f) BY <1>1, <1>2, <1>3, <1>11, <2>2 DEF ViewInv
    <3>. QED BY <1>2, <1>4, <1>9, <2>2, <3>1 DEF PageAgrees, HandSilent
  <2>. QED BY <2>1, <2>2
<1>12. ASSUME NEW a \in (Joining \ crossed)' PROVE ListAgrees(a)'
  BY <1>1, <1>2, <1>4, <1>12 DEF ViewInv, Joining, ListAgrees
<1>13. ASSUME NEW a \in (Fetching \ crossed)' PROVE FetchAgrees(a)'
  BY <1>1, <1>2, <1>4, <1>13 DEF ViewInv, Fetching, FetchAgrees, pageVars
<1>. QED BY <1>10, <1>11, <1>12, <1>13 DEF ViewInv

LEMMA BroadcastViewInv ==
    ASSUME TypeOK, ViewInv, NEW d \in Device, BroadcastDeviceUpdate(d) \/ HelloAgain(d)
    PROVE  ViewInv'
<1>1. ~dropped' => /\ ~dropped
                   /\ broadcast' = Append(broadcast, [device |-> d, up |-> Online(d)])
  BY DEF BroadcastDeviceUpdate, HelloAgain, Agents!Announce, Agents!Withdraw, Agents!Step,
         Online
<1>2. UNCHANGED <<hand, registered, apc, listed, send, view, pageVars, crossed>>
  BY DEF BroadcastDeviceUpdate, HelloAgain, adminVars
<1>3. \A f \in Device : (Online(f)' <=> Online(f)) /\ (f # d /\ Settled(f)' => Settled(f))
  BY DEF BroadcastDeviceUpdate, HelloAgain, Agents!Announce, Agents!Withdraw, Agents!Step,
         Online, Settled, TypeOK
<1>. QED BY <1>1, <1>2, <1>3, EventViewInv

LEMMA ProgressViewInv ==
    ASSUME TypeOK, ViewInv, NEW d \in Device, BroadcastProgress(d)
    PROVE  ViewInv'
<1>1. /\ broadcast' = Append(broadcast, Progress)
      /\ UNCHANGED <<dev, hand, registered, apc, listed, send, view, pageVars, dropped,
                     crossed>>
  BY DEF BroadcastProgress, adminVars
<1>2. Progress \in Message /\ broadcast \in Seq(Message) /\ \A f : ~Speaks(Progress, f)
  BY DEF Message, TypeOK, Speaks
<1>3. \A f : /\ Silent(broadcast', f) <=> Silent(broadcast, f)
             /\ EndsWith(broadcast, f, OnlineSet) => EndsWith(broadcast', f, OnlineSet)
  BY <1>1, <1>2, SaysAppend
<1>4. /\ OnlineSet' = OnlineSet /\ Joining' = Joining /\ Fetching' = Fetching
      /\ \A f : Settled(f)' <=> Settled(f)
  BY <1>1 DEF OnlineSet, Online, Joining, Fetching, Settled, pageVars
<1>5. \A f \in Device : HubAgrees(f) => HubAgrees(f)'
  BY <1>1, <1>3, <1>4 DEF HubAgrees, HandSilent
<1>6. \A a \in Admin, f \in Device : PageAgrees(a, f) => PageAgrees(a, f)'
  BY <1>1, <1>3, <1>4 DEF PageAgrees, HandSilent
<1>7. \A a : (ListAgrees(a) => ListAgrees(a)') /\ (FetchAgrees(a) => FetchAgrees(a)')
  BY <1>1, <1>4 DEF ListAgrees, FetchAgrees, pageVars
<1>. QED BY <1>1, <1>4, <1>5, <1>6, <1>7 DEF ViewInv, TypeOK

LEMMA AgentViewInv ==
    ASSUME TypeOK, ViewInv, NEW d \in Device, Agent(d)
    PROVE  ViewInv'
<1>1. CASE Arrive(d) \/ Enter(d) \/ Forget(d) \/ DeleteRow(d)
  BY <1>1, ChangeViewInv
     DEF Arrive, Enter, Forget, DeleteRow, Agents!Arrive, Agents!Enter, Agents!Forget,
         Agents!DeleteRow
<1>2. CASE BroadcastDeviceUpdate(d) \/ HelloAgain(d) BY <1>2, BroadcastViewInv
<1>3. CASE BroadcastProgress(d) BY <1>3, ProgressViewInv
<1>. QED BY <1>1, <1>2, <1>3 DEF Agent

\* run() moves an event to its hand, and from there to every admin it keeps.
LEMMA RunViewInv ==
    ASSUME TypeOK, ViewInv, Run
    PROVE  ViewInv'
<1>1. UNCHANGED <<dev, apc, listed, view, pageVars, dropped, crossed>>
  BY DEF Run, HubTake, HubSend, deviceVars, adminVars
<1>2. /\ OnlineSet' = OnlineSet /\ Joining' = Joining /\ Fetching' = Fetching
      /\ \A f : Settled(f)' <=> Settled(f)
  BY <1>1 DEF OnlineSet, Online, Joining, Fetching, Settled, pageVars
<1>3. \A a : (ListAgrees(a) => ListAgrees(a)') /\ (FetchAgrees(a) => FetchAgrees(a)')
  BY <1>1, <1>2 DEF ListAgrees, FetchAgrees, pageVars
<1>4. registered' \subseteq registered BY DEF Run, HubTake, HubSend
<1>5. CASE HubTake
  <2>1. /\ broadcast # <<>> /\ hand = NoEvent
        /\ hand' = Head(broadcast) /\ broadcast' = Tail(broadcast)
        /\ send' = send
    BY <1>5 DEF HubTake, adminVars
  <2>2. broadcast \in Seq(Message) BY DEF TypeOK, Message
  <2>3. Head(broadcast) # NoEvent
    BY <2>1, HeadTailProperties, NoEventAssumption DEF TypeOK
  <2>4. \A f : /\ Silent(broadcast, f) <=> Silent(broadcast', f) /\ HandSilent(f)'
               /\ EndsWith(broadcast, f, OnlineSet) =>
                      \/ EndsWith(broadcast', f, OnlineSet)
                      \/ Silent(broadcast', f) /\ Agrees(hand', f, OnlineSet)
    BY <2>1, <2>2, <2>3, SaysTail DEF HandSilent
  <2>5. \A f : HandSilent(f) BY <2>1 DEF HandSilent
  <2>6. \A f \in Device : HubAgrees(f) => HubAgrees(f)'
    BY <1>2, <2>4, <2>5 DEF HubAgrees
  <2>7. \A a \in Admin, f \in Device : PageAgrees(a, f) => PageAgrees(a, f)'
    BY <1>1, <1>2, <2>1, <2>4, <2>5 DEF PageAgrees
  <2>. QED BY <1>1, <1>2, <1>3, <1>4, <2>6, <2>7 DEF ViewInv, TypeOK
<1>6. CASE HubSend
  <2>1. /\ hand # NoEvent /\ hand' = NoEvent /\ broadcast' = broadcast
        /\ hand \in Message
    BY <1>6 DEF HubSend, TypeOK, Message
  <2>2. \A f : HandSilent(f)' BY <2>1 DEF HandSilent
  <2>3. \A f \in Device : HubAgrees(f) => HubAgrees(f)'
    BY <1>2, <2>1, <2>2 DEF HubAgrees
  <2>4. ASSUME ~dropped, NEW a \in registered' \ crossed, apc[a] = "served",
               NEW f \in Device, Settled(f), Silent(broadcast, f)
        PROVE  \/ EndsWith(send'[a], f, OnlineSet)
               \/ Silent(send'[a], f) /\ (f \in view[a] <=> f \in OnlineSet)
    <3>1. a \in registered \ Full /\ a \in Admin /\ a \in registered \ crossed
      BY <1>6, <2>4 DEF HubSend, TypeOK
    <3>2. send'[a] = Append(send[a], hand) /\ send[a] \in Seq(Message)
      BY <1>6, <3>1 DEF HubSend, CopyToOthers, TypeOK, Message
    <3>3. CASE Speaks(hand, f)
      <4>1. HubAgrees(f) /\ ~EndsWith(broadcast, f, OnlineSet)
        BY <2>4 DEF ViewInv, EndsWith, Silent
      <4>2. Agrees(hand, f, OnlineSet) BY <2>1, <3>3, <4>1 DEF HubAgrees, HandSilent
      <4>. QED BY <2>1, <3>2, <3>3, <4>2, SaysAppend
    <3>4. CASE ~Speaks(hand, f)
      <4>1. HandSilent(f) BY <3>4 DEF HandSilent
      <4>2. PageAgrees(a, f) BY <2>4, <3>1 DEF ViewInv
      <4>3. \/ EndsWith(send[a], f, OnlineSet)
            \/ Silent(send[a], f) /\ (f \in view[a] <=> f \in OnlineSet)
        BY <2>4, <4>1, <4>2 DEF PageAgrees
      <4>. QED BY <2>1, <3>2, <3>4, <4>3, SaysAppend
    <3>. QED BY <3>3, <3>4
  <2>5. ASSUME ~dropped, NEW a \in registered' \ crossed, apc[a] = "served",
               NEW f \in Device, Settled(f)
        PROVE  PageAgrees(a, f)'
    BY <1>1, <1>2, <2>1, <2>4, <2>5 DEF PageAgrees
  <2>. QED BY <1>1, <1>2, <1>3, <2>3, <2>5 DEF ViewInv
<1>. QED BY <1>5, <1>6 DEF Run

\* A step of an admin leaves the devices, the hub's events and the other
\* admins alone.
LEMMA OthersKeepTheirViews ==
    ASSUME TypeOK, ViewInv, NEW a \in Admin,
           UNCHANGED <<deviceVars, broadcast, hand>>,
           crossed \subseteq crossed', crossed' \subseteq crossed \cup {a},
           registered' \ {a} \subseteq registered,
           dropped => dropped',
           \A b \in Admin \ {a} : /\ apc'[b] = apc[b] /\ listed'[b] = listed[b]
                                  /\ send'[b] = send[b] /\ view'[b] = view[b]
                                  /\ fetching'[b] = fetching[b]
                                  /\ fetched'[b] = fetched[b],
           registered' \subseteq Admin,
           ~dropped' /\ a \in registered' \ crossed' /\ apc'[a] = "served" =>
               \A d \in Device : Settled(d) => PageAgrees(a, d)',
           ~dropped' /\ a \notin crossed' => ListAgrees(a)' /\ FetchAgrees(a)'
    PROVE  ViewInv'
<1> SUFFICES ASSUME ~dropped' PROVE ViewInv'
  BY DEF ViewInv
<1>1. OnlineSet' = OnlineSet /\ \A d : Settled(d)' <=> Settled(d)
  BY DEF OnlineSet, Online, Settled, deviceVars
<1>2. \A d : HubAgrees(d)' <=> HubAgrees(d)
  BY <1>1 DEF HubAgrees, HandSilent
<1>3. ASSUME NEW b \in Admin \ {a}
      PROVE  /\ \A d : PageAgrees(b, d)' <=> PageAgrees(b, d)
             /\ ListAgrees(b)' <=> ListAgrees(b)
             /\ b \in Joining' => b \in Joining
             /\ FetchAgrees(b)' <=> FetchAgrees(b)
             /\ b \in Fetching' => b \in Fetching
  BY <1>1 DEF PageAgrees, HandSilent, ListAgrees, Joining, FetchAgrees, Fetching
<1>4. ASSUME NEW b \in registered' \ crossed', apc'[b] = "served",
             NEW d \in Device, Settled(d)
      PROVE  PageAgrees(b, d)'
  <2>1. CASE b = a BY <1>4, <2>1
  <2>2. CASE b # a BY <1>3, <1>4, <2>2 DEF ViewInv
  <2>. QED BY <2>1, <2>2
<1>5. ASSUME NEW b \in Joining' \ crossed' PROVE ListAgrees(b)'
  <2>1. b \in Admin BY <1>5 DEF Joining
  <2>2. CASE b = a BY <1>5, <2>2
  <2>3. CASE b # a BY <1>3, <1>5, <2>1, <2>3 DEF ViewInv
  <2>. QED BY <2>2, <2>3
<1>6. ASSUME NEW b \in Fetching' \ crossed' PROVE FetchAgrees(b)'
  <2>1. b \in Admin BY <1>6 DEF Fetching
  <2>2. CASE b = a BY <1>6, <2>2
  <2>3. CASE b # a BY <1>3, <1>6, <2>1, <2>3 DEF ViewInv
  <2>. QED BY <2>2, <2>3
<1>. QED BY <1>1, <1>2, <1>4, <1>5, <1>6 DEF ViewInv

LEMMA AdminViewInv ==
    ASSUME TypeOK, ViewInv, NEW a \in Admin, AdminStep(a)
    PROVE  ViewInv'
<1> SUFFICES ASSUME ~dropped' PROVE ViewInv'
  BY DEF ViewInv
<1>1. /\ UNCHANGED <<deviceVars, broadcast, hand>>
      /\ ~dropped
      /\ crossed \subseteq crossed' /\ crossed' \subseteq crossed \cup {a}
      /\ registered' \ {a} \subseteq registered /\ registered' \subseteq Admin
      /\ \A b \in Admin \ {a} : /\ apc'[b] = apc[b] /\ listed'[b] = listed[b]
                                /\ send'[b] = send[b] /\ view'[b] = view[b]
                                /\ fetching'[b] = fetching[b] /\ fetched'[b] = fetched[b]
  <2> USE DEF hubVars, pageVars, TypeOK
  <2>1. CASE Join(a) BY <2>1 DEF Join
  <2>2. CASE ListRows(a) \/ ListFails(a) \/ ListFilter(a)
    BY <2>2 DEF ListRows, ListFails, ListFilter
  <2>3. CASE ListSend(a) BY <2>3 DEF ListSend
  <2>4. CASE WritePump(a) BY <2>4 DEF WritePump, WriterSend, WriterStop
  <2>5. CASE ReaderStop(a) \/ Leave(a) BY <2>5 DEF ReaderStop, Leave
  <2>6. CASE Fetch(a)
    BY <2>6 DEF Fetch, FetchRows, FetchFilter, FetchShow, FetchFails
  <2>. QED BY <2>1, <2>2, <2>3, <2>4, <2>5, <2>6 DEF AdminStep, HandleConnection
<1>2. OnlineSet' = OnlineSet /\ \A d : HandSilent(d)' <=> HandSilent(d)
  BY <1>1 DEF OnlineSet, Online, HandSilent, deviceVars
<1>3. ASSUME a \notin crossed' PROVE ListAgrees(a)'
  <2>1. CASE Join(a) BY <2>1 DEF Join, ListAgrees, TypeOK
  <2>2. CASE ListRows(a)
    BY <1>2, <2>2 DEF ListRows, ListAgrees, OnlineSet, Online, HasRow, TypeOK
  <2>3. CASE ListFilter(a)
    <3>1. OnlineSet \subseteq listed[a]
      BY <1>1, <1>3, <2>3 DEF ListFilter, ViewInv, Joining, ListAgrees
    <3>2. apc'[a] = "send" /\ listed'[a] = {d \in listed[a] : Online(d)}
      BY <2>3 DEF ListFilter, TypeOK
    <3>3. listed'[a] = OnlineSet BY <3>1, <3>2 DEF OnlineSet, TypeOK
    <3>. QED BY <1>2, <3>2, <3>3 DEF ListAgrees
  <2>4. CASE ListSend(a) BY <2>4 DEF ListSend, ListAgrees, TypeOK
  <2>5. CASE apc' = apc /\ listed' = listed
    BY <1>1, <1>2, <1>3, <2>5 DEF ViewInv, ListAgrees, Joining
  <2>6. CASE ListFails(a) BY <1>3, <2>6 DEF ListFails
  <2>. QED BY <2>1, <2>2, <2>3, <2>4, <2>5, <2>6
           DEF AdminStep, HandleConnection, WritePump, WriterSend, WriterStop,
               ReaderStop, Leave, Fetch, FetchRows, FetchFilter, FetchShow, FetchFails
<1>5. ASSUME a \notin crossed' PROVE FetchAgrees(a)'
  <2>1. CASE FetchRows(a)
    BY <1>2, <2>1 DEF FetchRows, FetchAgrees, OnlineSet, Online, HasRow, TypeOK
  <2>2. CASE FetchFilter(a)
    <3>1. OnlineSet \subseteq fetched[a]
      BY <1>1, <1>5, <2>2 DEF FetchFilter, ViewInv, Fetching, FetchAgrees
    <3>2. fetching'[a] = "show" /\ fetched'[a] = {d \in fetched[a] : Online(d)}
      BY <2>2 DEF FetchFilter, TypeOK
    <3>3. fetched'[a] = OnlineSet BY <3>1, <3>2 DEF OnlineSet, TypeOK
    <3>. QED BY <1>2, <3>2, <3>3 DEF FetchAgrees
  <2>3. CASE FetchShow(a) \/ FetchFails(a)
    BY <2>3 DEF FetchShow, FetchFails, FetchAgrees, TypeOK
  <2>4. CASE UNCHANGED pageVars
    BY <1>1, <1>2, <1>5, <2>4 DEF ViewInv, FetchAgrees, Fetching, pageVars
  <2>. QED BY <2>1, <2>2, <2>3, <2>4
           DEF AdminStep, HandleConnection, WritePump, WriterSend, WriterStop,
               ReaderStop, Leave, Join, ListRows, ListFails, ListFilter, ListSend, Fetch
<1>4. ASSUME a \in registered' \ crossed', apc'[a] = "served",
             NEW d \in Device, Settled(d)
      PROVE  PageAgrees(a, d)'
  <2>1. CASE ListSend(a)
    <3> DEFINE m == [devices |-> listed[a]]
    <3>1. listed[a] = OnlineSet
      BY <1>1, <1>4, <2>1 DEF ListSend, ViewInv, Joining, ListAgrees
    <3>2. a \notin closed BY <1>4, <2>1 DEF ListSend, TypeOK
    <3>3. dropped' = TRUE \/ send' = [send EXCEPT ![a] = Append(@, m)]
      BY <2>1, <3>2 DEF ListSend
    <3>4. send'[a] = Append(send[a], m) /\ send[a] \in Seq(Message)
      BY <3>3 DEF TypeOK, Message
    <3>5. m \in List /\ m \in Message /\ m # Progress
      BY NoEventAssumption DEF List, Message, TypeOK
    <3>6. Speaks(m, d) /\ Agrees(m, d, OnlineSet)
      BY <3>1, <3>5 DEF Speaks, Agrees, Shown
    <3> HIDE DEF m
    <3>7. EndsWith(send'[a], d, OnlineSet) BY <3>4, <3>5, <3>6, SaysAppend
    <3>. QED BY <1>2, <3>7 DEF PageAgrees
  <2>2. CASE WriterSend(a)
    <3>1. /\ send[a] # <<>> /\ send[a] \in Seq(Message)
          /\ send'[a] = Tail(send[a])
          /\ view'[a] = Shown(view[a], Head(send[a]))
          /\ apc' = apc /\ registered' = registered
      BY <2>2 DEF WriterSend, hubVars, TypeOK, Message
    <3>2. Head(send[a]) \in Message /\ view[a] \in SUBSET Device
      BY <3>1, HeadTailProperties DEF TypeOK
    <3>3. PageAgrees(a, d) BY <1>1, <1>4, <3>1 DEF ViewInv
    <3>4. CASE EndsWith(send[a], d, OnlineSet)
      BY <1>1, <1>2, <3>1, <3>2, <3>4, SaysTail, ShownOne DEF PageAgrees
    <3>5. CASE Silent(send[a], d) /\ (d \in view[a] <=> d \in OnlineSet)
      BY <1>1, <1>2, <3>1, <3>2, <3>5, SaysTail, ShownOne DEF PageAgrees
    <3>6. CASE ~(Silent(broadcast, d) /\ HandSilent(d))
      BY <1>1, <1>2, <3>6 DEF PageAgrees
    <3>. QED BY <3>3, <3>4, <3>5, <3>6 DEF PageAgrees
  <2>3. CASE UNCHANGED <<apc, send, view>> /\ registered' \subseteq registered
    <3>1. PageAgrees(a, d) BY <1>1, <1>4, <2>3 DEF ViewInv
    <3>. QED BY <1>1, <1>2, <2>3, <3>1 DEF PageAgrees
  <2>4. CASE Join(a) \/ ListRows(a) \/ ListFails(a) \/ ListFilter(a)
    BY <1>4, <2>4 DEF Join, ListRows, ListFails, ListFilter, TypeOK
  <2>5. CASE FetchShow(a)
    <3>1. /\ view'[a] = fetched[a] /\ fetching[a] = "show"
          /\ UNCHANGED <<apc, send, registered>>
      BY <2>5 DEF FetchShow, hubVars, TypeOK
    <3>2. PageAgrees(a, d) BY <1>1, <1>4, <3>1 DEF ViewInv
    <3>3. fetched[a] = OnlineSet
      BY <1>1, <1>4, <3>1 DEF ViewInv, Fetching, FetchAgrees
    <3>. QED BY <1>1, <1>2, <3>1, <3>2, <3>3 DEF PageAgrees
  <2>. QED BY <2>1, <2>2, <2>3, <2>4, <2>5
           DEF AdminStep, HandleConnection, WritePump, WriterStop, ReaderStop, Leave,
               Fetch, FetchRows, FetchFilter, FetchFails, hubVars
<1>. QED BY <1>1, <1>3, <1>4, <1>5, OthersKeepTheirViews

LEMMA NextViewInv == TypeOK /\ ViewInv /\ [Next]_vars => ViewInv'
<1> SUFFICES ASSUME TypeOK, ViewInv, [Next]_vars PROVE ViewInv'
  OBVIOUS
<1>1. CASE UNCHANGED vars
  BY <1>1 DEF vars, deviceVars, hubVars, adminVars, pageVars, ViewInv, Settled, HubAgrees,
              PageAgrees, ListAgrees, FetchAgrees, Joining, Fetching, HandSilent,
              OnlineSet, Online
<1>2. CASE Next
  BY <1>2, NextSteps, AgentViewInv, RunViewInv, AdminViewInv
<1>. QED BY <1>1, <1>2

\* Once everything has been sent, a page shows the devices that are online,
\* unless a full channel dropped something, its first list could not be made, or
\* a device changed while a list was made, or was fetched and not yet shown
\* (ws_manager.go:86, devices.html:320).
THEOREM PagesConverge == Spec => []ViewsConverge
BY HubTypeCorrect, InitViewInv, NextViewInv, ViewsAgree, PTL DEF Spec

-----------------------------------------------------------------------------
(***************************************************************************)
(* The hub as a feed.  An admin that connects has nothing in its channel,  *)
(* until its list is made it is in the map or closed, and it is read from  *)
(* after that.                                                             *)
(***************************************************************************)
FeedInv ==
    \A a \in Admin :
        /\ apc[a] = "idle" => send[a] = <<>>
        /\ apc[a] \in {"list", "filter", "send"} => a \in registered \cup closed
        /\ a \in reading => apc[a] = "served"

LEMMA NextFeedInv == TypeOK /\ ClosedInv /\ FeedInv /\ [Next]_vars => FeedInv'
<1> SUFFICES ASSUME TypeOK, ClosedInv, FeedInv, [Next]_vars PROVE FeedInv'
  OBVIOUS
<1> USE DEF FeedInv
<1>1. CASE UNCHANGED vars
  BY <1>1 DEF vars, hubVars, adminVars
<1>2. ASSUME NEW d \in Device, Agent(d) PROVE FeedInv'
  BY <1>2 DEF Agent, Arrive, Enter, Forget, DeleteRow, Crosses, BroadcastDeviceUpdate,
              HelloAgain, BroadcastProgress, hubVars, adminVars
<1>3. CASE Run
  BY <1>3 DEF Run, HubTake, HubSend, CopyToOthers, Full, adminVars, ClosedInv
<1>4. ASSUME NEW a \in Admin, AdminStep(a) PROVE FeedInv'
  <2> USE DEF hubVars, TypeOK
  <2>1. CASE Join(a) BY <2>1 DEF Join
  <2>2. CASE ListRows(a) \/ ListFails(a) \/ ListFilter(a)
    BY <2>2 DEF ListRows, ListFails, ListFilter
  <2>3. CASE ListSend(a) BY <2>3 DEF ListSend
  <2>4. CASE WriterSend(a) BY <2>4 DEF WriterSend
  <2>5. CASE WriterStop(a) \/ Leave(a) BY <2>5 DEF WriterStop, Leave
  <2>6. CASE ReaderStop(a) BY <2>6 DEF ReaderStop
  <2>7. CASE Fetch(a)
    BY <2>7 DEF Fetch, FetchRows, FetchFilter, FetchShow, FetchFails
  <2>. QED BY <1>4, <2>1, <2>2, <2>3, <2>4, <2>5, <2>6, <2>7
           DEF AdminStep, HandleConnection, WritePump
<1>. QED BY <1>1, <1>2, <1>3, <1>4, NextSteps

LEMMA InitFeedInv == Init => ClosedInv /\ FeedInv
BY DEF Init, ClosedInv, FeedInv

LEMMA UncopiedType == TypeOK => Uncopied \in Seq(Said)
<1> SUFFICES ASSUME TypeOK PROVE Uncopied \in Seq(Said)
  OBVIOUS
<1>1. broadcast \in Seq(Said) BY DEF TypeOK, Said
<1>2. CASE hand = NoEvent
  <2>1. Uncopied = broadcast BY <1>1, <1>2, ConcatEmptySeq DEF Uncopied
  <2>. QED BY <1>1, <2>1
<1>3. CASE hand # NoEvent
  <2>1. <<hand>> \in Seq(Said) BY <1>3 DEF TypeOK, Said
  <2>2. Uncopied = <<hand>> \o broadcast BY <1>3 DEF Uncopied
  <2>. QED BY <1>1, <2>1, <2>2, ConcatProperties
<1>. QED BY <1>2, <1>3

LEMMA FeedTypes ==
    ASSUME TypeOK
    PROVE  /\ Uncopied \in Seq(Message)
           /\ \A a \in Admin : send[a] \in Seq(Message)
<1>1. Uncopied \in Seq(Said) /\ Said \subseteq Message
  BY UncopiedType DEF Said, Message
<1>2. Uncopied \in Seq(Message) BY <1>1, SeqMonotonic
<1>3. \A a \in Admin : send[a] \in Seq(Message) BY DEF TypeOK, Message
<1>. QED BY <1>2, <1>3

\* Appending to the second part of a concatenation.
LEMMA AppendToConcat ==
    ASSUME NEW S, NEW s \in Seq(S), NEW t \in Seq(S), NEW m \in S
    PROVE  s \o Append(t, m) = Append(s \o t, m)
<1>1. <<m>> \in Seq(S) OBVIOUS
<1>2. s \o t \in Seq(S) BY ConcatProperties
<1>3. Append(t, m) = t \o <<m>> /\ Append(s \o t, m) = (s \o t) \o <<m>>
  BY <1>2, AppendIsConcat
<1>. QED BY <1>1, <1>3, ConcatAssociative

\* The same of messages.
LEMMA MessagesConcat ==
    ASSUME NEW s \in Seq(Message), NEW t \in Seq(Message), NEW u \in Seq(Message)
    PROVE  (s \o t) \o u = s \o (t \o u)
BY ConcatAssociative

LEMMA MessagesAppend ==
    ASSUME NEW s \in Seq(Message), NEW t \in Seq(Message), NEW m \in Message
    PROVE  s \o Append(t, m) = Append(s \o t, m)
BY AppendToConcat

LEMMA HeadAndTail ==
    ASSUME NEW S, NEW s \in Seq(S), s # <<>>
    PROVE  /\ <<Head(s)>> \o Tail(s) = s
           /\ Head(s) \in S /\ Tail(s) \in Seq(S)
<1>1. Head(s) \in S /\ Tail(s) \in Seq(S) BY HeadTailProperties
<1>2. Len(s) \in Nat \ {0} BY EmptySeq
<1>3. SubSeq(s, 1, Len(s)) = <<s[1]>> \o SubSeq(s, 2, Len(s))
  <2>1. 1 \in 1..Len(s) /\ Len(s) \in 1..Len(s) BY <1>2
  <2>. QED BY <2>1, SubSeqRecursiveFirst
<1>4. SubSeq(s, 1, Len(s)) = s BY SubSeqFull
<1>5. Tail(s) = SubSeq(s, 2, Len(s)) BY TailIsSubSeq
<1>. QED BY <1>1, <1>3, <1>4, <1>5

LEMMA TailOfConcat ==
    ASSUME NEW S, NEW s \in Seq(S), NEW t \in Seq(S), s # <<>>
    PROVE  s \o t # <<>> /\ Tail(s \o t) = Tail(s) \o t
<1>1. /\ s \o t \in Seq(S) /\ Len(s \o t) = Len(s) + Len(t)
      /\ Len(s) \in Nat \ {0} /\ Len(t) \in Nat
  BY ConcatProperties, EmptySeq, LenProperties
<1>2. s \o t # <<>>
  <2>1. Len(<<>>) = 0 BY EmptySeq
  <2>. QED BY <1>1, <2>1
<1>3. /\ Tail(s) \in Seq(S) /\ Len(Tail(s)) = Len(s) - 1
      /\ \A i \in 1..Len(Tail(s)) : Tail(s)[i] = s[i + 1]
      /\ Tail(s \o t) \in Seq(S) /\ Len(Tail(s \o t)) = Len(s) + Len(t) - 1
      /\ \A i \in 1..Len(Tail(s \o t)) : Tail(s \o t)[i] = (s \o t)[i + 1]
  BY <1>1, <1>2, HeadTailProperties
<1>4. /\ Tail(s) \o t \in Seq(S) /\ Len(Tail(s) \o t) = Len(s) - 1 + Len(t)
      /\ \A i \in 1..Len(s) - 1 + Len(t) :
           (Tail(s) \o t)[i] = IF i <= Len(s) - 1 THEN Tail(s)[i] ELSE t[i - (Len(s) - 1)]
  BY <1>3, ConcatProperties
<1>5. \A i \in 1..Len(s) + Len(t) :
        (s \o t)[i] = IF i <= Len(s) THEN s[i] ELSE t[i - Len(s)]
  BY ConcatProperties
<1>6. ASSUME NEW i \in 1..Len(Tail(s \o t)) PROVE Tail(s \o t)[i] = (Tail(s) \o t)[i]
  <2>1. i + 1 \in 1..Len(s) + Len(t) /\ i \in 1..Len(s) - 1 + Len(t)
        /\ i + 1 - Len(s) = i - (Len(s) - 1)
    BY <1>1, <1>3
  <2>2. CASE i <= Len(s) - 1
    <3>1. i + 1 <= Len(s) /\ i \in 1..Len(Tail(s)) BY <1>1, <1>3, <2>1, <2>2
    <3>. QED BY <1>3, <1>4, <1>5, <2>1, <2>2, <3>1
  <2>3. CASE ~(i <= Len(s) - 1)
    <3>1. ~(i + 1 <= Len(s)) BY <1>1, <2>1, <2>3
    <3>. QED BY <1>3, <1>4, <1>5, <2>1, <2>3, <3>1
  <2>. QED BY <2>2, <2>3
<1>7. Len(Tail(s \o t)) = Len(Tail(s) \o t) BY <1>1, <1>3, <1>4
<1>. QED BY <1>2, <1>3, <1>4, <1>6, <1>7, SeqEqual

\* The first part of a concatenation is a prefix of it, and what is put between
\* the parts is inserted.
LEMMA FirstPart ==
    ASSUME NEW S, NEW s \in Seq(S), NEW t \in Seq(S)
    PROVE  /\ SubSeq(s \o t, 1, Len(s)) = s
           /\ SubSeq(s \o t, Len(s) + 1, Len(s \o t)) = t
           /\ Len(s) <= Len(s \o t)
<1>1. /\ s \o t \in Seq(S) /\ Len(s \o t) = Len(s) + Len(t)
      /\ Len(s) \in Nat /\ Len(t) \in Nat
  BY ConcatProperties, LenProperties
<1>2. SubSeq(s \o t, 1, Len(s)) = s
  <2>1. CASE Len(s) = 0
    <3>1. SubSeq(s \o t, 1, Len(s)) = <<>> BY <2>1, SubSeqEmpty
    <3>2. s = <<>> BY <2>1, EmptySeq
    <3>. QED BY <3>1, <3>2
  <2>2. CASE Len(s) # 0
    <3>1. 1 \in 1..Len(s) /\ Len(s) \in 1..Len(s) BY <1>1, <2>2
    <3>. QED BY <3>1, SubSeqOfConcat1, SubSeqFull
  <2>. QED BY <2>1, <2>2
<1>3. SubSeq(s \o t, Len(s) + 1, Len(s) + Len(t)) = t
  <2>1. CASE Len(t) = 0
    <3>1. SubSeq(s \o t, Len(s) + 1, Len(s) + Len(t)) = <<>>
      BY <1>1, <2>1, SubSeqEmpty
    <3>2. t = <<>> BY <2>1, EmptySeq
    <3>. QED BY <3>1, <3>2
  <2>2. CASE Len(t) # 0
    <3>1. /\ Len(s) + 1 \in Len(s) + 1..Len(s) + Len(t)
          /\ Len(s) + Len(t) \in Len(s) + 1..Len(s) + Len(t)
          /\ Len(s) + 1 - Len(s) = 1 /\ Len(s) + Len(t) - Len(s) = Len(t)
      BY <1>1, <2>2
    <3>2. SubSeq(s \o t, Len(s) + 1, Len(s) + Len(t))
            = SubSeq(t, Len(s) + 1 - Len(s), Len(s) + Len(t) - Len(s))
      BY <3>1, SubSeqOfConcat2
    <3>. QED BY <3>1, <3>2, SubSeqFull
  <2>. QED BY <2>1, <2>2
<1>. QED BY <1>1, <1>2, <1>3

\* What the feed shows of the hub is the same after a step.
Greeted == {a \in Admin : apc[a] \in {"served", "panicked"}}
SameFeed ==
    /\ Uncopied' = Uncopied /\ Greeted' = Greeted
    /\ \A a \in Admin : Place(a)' = Place(a) /\ Pending(a)' = Pending(a)

LEMMA FeedStutters == SameFeed => UNCHANGED AdminFeed!feedVars
BY DEF SameFeed, Greeted, AdminFeed!feedVars

LEMMA PublishFeeds ==
    ASSUME TypeOK, NEW m \in Said, broadcast' = Append(broadcast, m),
           UNCHANGED <<hand, registered, adminVars>>
    PROVE  AdminFeed!Publish(m)
<1>1. broadcast \in Seq(Said) /\ m \in Message
  BY DEF TypeOK, Said, Message
<1>2. Uncopied' = Append(Uncopied, m)
  <2>1. CASE hand = NoEvent
    <3>1. Append(broadcast, m) \in Seq(Said) BY <1>1, AppendProperties
    <3>. QED BY <1>1, <2>1, <3>1, ConcatEmptySeq DEF Uncopied
  <2>2. CASE hand # NoEvent
    <3>1. <<hand>> \in Seq(Said) BY <2>2 DEF TypeOK, Said
    <3>. QED BY <1>1, <2>2, <3>1, AppendToConcat DEF Uncopied
  <2>. QED BY <2>1, <2>2
<1>3. ASSUME NEW a \in Admin
      PROVE  /\ Place(a)' = Place(a)
             /\ Pending(a)' = IF Place(a) = "in" THEN Append(Pending(a), m) ELSE Pending(a)
  <2>1. Place(a)' = Place(a) /\ (Place(a) = "in" <=> a \in registered)
    BY DEF Place, adminVars
  <2>2. CASE a \in registered
    <3>1. Pending(a)' = send[a] \o Append(Uncopied, m) BY <1>2, <2>2 DEF Pending, adminVars
    <3>2. send[a] \in Seq(Message) /\ Uncopied \in Seq(Message) BY FeedTypes
    <3>3. send[a] \o Append(Uncopied, m) = Append(send[a] \o Uncopied, m)
      BY <1>1, <3>2, MessagesAppend, Zenon
    <3>4. Pending(a) = send[a] \o Uncopied BY <2>2 DEF Pending
    <3>. QED BY <2>1, <2>2, <3>1, <3>3, <3>4
  <2>3. CASE a \notin registered BY <2>1, <2>3 DEF Pending, adminVars
  <2>. QED BY <2>1, <2>2, <2>3
<1>. QED BY <1>2, <1>3 DEF AdminFeed!Publish, adminVars

LEMMA AgentFeeds ==
    ASSUME TypeOK, NEW d \in Device, Agent(d)
    PROVE  AdminFeed!FeedNext \/ SameFeed
<1>1. /\ UNCHANGED <<hand, registered, adminVars>>
      /\ broadcast' = broadcast \/ \E m \in Said : broadcast' = Append(broadcast, m)
  <2>1. CASE Arrive(d) \/ Enter(d) \/ Forget(d) \/ DeleteRow(d)
    BY <2>1 DEF Arrive, Enter, Forget, DeleteRow, Crosses, hubVars
  <2>2. CASE BroadcastDeviceUpdate(d)
    <3>1. [device |-> d, up |-> Online(d)] \in Said BY DEF Said, Event, Online
    <3>. QED BY <2>2, <3>1 DEF BroadcastDeviceUpdate
  <2>3. CASE HelloAgain(d) \/ BroadcastProgress(d)
    BY <2>3 DEF HelloAgain, BroadcastProgress, Said, Event
  <2>. QED BY <2>1, <2>2, <2>3 DEF Agent
<1>2. CASE broadcast' = broadcast
  BY <1>1, <1>2 DEF SameFeed, Uncopied, Greeted, Place, Pending, adminVars
<1>3. ASSUME NEW m \in Said, broadcast' = Append(broadcast, m) PROVE AdminFeed!FeedNext
  <2>1. AdminFeed!Publish(m) BY <1>1, <1>3, PublishFeeds
  <2>. QED BY <2>1 DEF AdminFeed!FeedNext, Said
<1>. QED BY <1>1, <1>2, <1>3

LEMMA RunFeeds ==
    ASSUME TypeOK, ClosedInv, Run
    PROVE  AdminFeed!Settle \/ SameFeed
<1>1. broadcast \in Seq(Said) /\ UNCHANGED apc
  BY DEF TypeOK, Said, Run, HubTake, HubSend, adminVars
<1>2. CASE HubTake
  <2>1. /\ hand = NoEvent /\ broadcast # <<>> /\ UNCHANGED <<registered, adminVars>>
        /\ hand' = Head(broadcast) /\ broadcast' = Tail(broadcast)
    BY <1>2 DEF HubTake
  <2>2. <<Head(broadcast)>> \o Tail(broadcast) = broadcast /\ Head(broadcast) \in Said
    BY <1>1, <2>1, HeadAndTail
  <2>3. Head(broadcast) # NoEvent BY <2>2, NoEventAssumption DEF Said
  <2>4. Uncopied' = Uncopied
    BY <1>1, <2>1, <2>2, <2>3, ConcatEmptySeq DEF Uncopied
  <2>. QED BY <2>1, <2>4 DEF SameFeed, Greeted, Place, Pending, adminVars
<1>3. CASE HubSend
  <2>1. /\ hand # NoEvent /\ hand' = NoEvent /\ UNCHANGED broadcast
        /\ registered' = registered \ Full
    BY <1>3 DEF HubSend
  <2>2. hand \in Said /\ <<hand>> \in Seq(Said) /\ hand \in Message
        /\ <<hand>> \in Seq(Message)
    BY <2>1 DEF TypeOK, Said, Message
  <2>3. broadcast \in Seq(Message)
    BY <1>1, SeqMonotonic DEF Said, Message
  <2>4. Uncopied = <<hand>> \o broadcast /\ Uncopied' = broadcast
    BY <1>1, <2>1, ConcatEmptySeq DEF Uncopied
  <2>5. Uncopied # <<>> /\ Tail(Uncopied) = broadcast
    <3>1. <<hand>> # <<>> /\ Tail(<<hand>>) = <<>> BY <2>2
    <3>. QED BY <1>1, <2>2, <2>4, <3>1, TailOfConcat, ConcatEmptySeq
  <2>6. ASSUME NEW a \in Admin PROVE AdminFeed!Stays(a) \/ AdminFeed!PutOut(a)
    <3>1. send[a] \in Seq(Message) /\ Uncopied \in Seq(Message) BY FeedTypes
    <3>2. CASE a \in registered \ Full
      <4>1. send'[a] = Append(send[a], hand) BY <1>3, <3>2 DEF HubSend, CopyToOthers
      <4>2. send'[a] = send[a] \o <<hand>> BY <2>2, <3>1, <4>1, AppendIsConcat
      <4>3. (send[a] \o <<hand>>) \o broadcast = send[a] \o (<<hand>> \o broadcast)
        <5>1. <<hand>> \in Seq(Message) BY <2>2
        <5>2. send[a] \in Seq(Message) BY <3>1
        <5>. QED BY <2>3, <5>1, <5>2, MessagesConcat, Zenon
      <4>4. Pending(a)' = Pending(a) /\ Place(a)' = Place(a)
        BY <2>1, <2>4, <3>2, <4>2, <4>3 DEF Pending, Place
      <4>. QED BY <4>4 DEF AdminFeed!Stays
    <3>3. CASE a \in Full
      <4>1. a \in registered /\ a \notin registered' BY <2>1, <3>3 DEF Full
      <4>2. send'[a] = send[a] BY <1>3, <3>3 DEF HubSend, CopyToOthers
      <4>3. Pending(a) = send[a] \o Uncopied /\ Pending(a)' = send[a]
        BY <4>1, <4>2 DEF Pending
      <4>4. AdminFeed!IsPrefix(Pending(a)', Pending(a))
        BY <3>1, <4>3, FirstPart, SubSeqFull DEF AdminFeed!IsPrefix
      <4>5. Place(a) = "in" /\ Place(a)' = "out" BY <1>1, <4>1 DEF Place, ClosedInv
      <4>. QED BY <4>4, <4>5 DEF AdminFeed!PutOut
    <3>4. CASE a \notin registered
      <4>1. send'[a] = send[a] BY <1>3, <3>4 DEF HubSend, CopyToOthers
      <4>2. Pending(a)' = Pending(a) /\ Place(a)' = Place(a)
        BY <1>1, <2>1, <3>4, <4>1 DEF Pending, Place
      <4>. QED BY <4>2 DEF AdminFeed!Stays
    <3>. QED BY <3>2, <3>3, <3>4
  <2>. QED BY <1>1, <2>4, <2>5, <2>6 DEF AdminFeed!Settle
<1>. QED BY <1>2, <1>3 DEF Run

\* A step of an admin's goroutines does not show on the others.
LEMMA OthersAreFed ==
    ASSUME TypeOK, NEW a \in Admin, AdminStep(a)
    PROVE  /\ Uncopied' = Uncopied /\ AdminFeed!OthersStay(a)
           /\ \A b \in Admin \ {a} : b \in Greeted' <=> b \in Greeted
<1>1. UNCHANGED <<broadcast, hand>>
      /\ \A b \in Admin \ {a} : /\ b \in registered' <=> b \in registered
                                /\ apc'[b] = apc[b] /\ send'[b] = send[b]
  <2> USE DEF hubVars, TypeOK
  <2>1. CASE Join(a) BY <2>1 DEF Join
  <2>2. CASE ListRows(a) \/ ListFails(a) \/ ListFilter(a)
    BY <2>2 DEF ListRows, ListFails, ListFilter
  <2>3. CASE ListSend(a) BY <2>3 DEF ListSend
  <2>4. CASE WritePump(a) BY <2>4 DEF WritePump, WriterSend, WriterStop
  <2>5. CASE ReaderStop(a) \/ Leave(a) BY <2>5 DEF ReaderStop, Leave
  <2>6. CASE Fetch(a)
    BY <2>6 DEF Fetch, FetchRows, FetchFilter, FetchShow, FetchFails
  <2>. QED BY <2>1, <2>2, <2>3, <2>4, <2>5, <2>6 DEF AdminStep, HandleConnection
<1>2. \A b \in Admin \ {a} : Place(b)' = Place(b) /\ Pending(b)' = Pending(b)
  BY <1>1 DEF Place, Pending, Uncopied
<1>. QED BY <1>1, <1>2 DEF Uncopied, Greeted, AdminFeed!OthersStay, AdminFeed!Stays

\* The list is put between what waits in the channel and what the hub has
\* still to copy.
LEMMA ListIsGreeting ==
    ASSUME TypeOK, ClosedInv, FeedInv, NEW a \in Admin, ListSend(a)
    PROVE  AdminFeed!Greet(a)
<1> DEFINE m == [devices |-> listed[a]]
<1>1. /\ apc[a] = "send" /\ UNCHANGED <<registered, broadcast, hand>>
      /\ apc'[a] \in {"served", "panicked"}
      /\ \/ send' = send
         \/ a \notin closed /\ send' = [send EXCEPT ![a] = Append(@, m)]
  BY DEF ListSend, hubVars, TypeOK
<1>2. m \in List /\ m \in Message /\ <<m>> \in Seq(Message)
  BY DEF List, Message, TypeOK
<1> HIDE DEF m
<1>3. Uncopied' = Uncopied /\ AdminFeed!OthersStay(a)
      /\ \A b \in Admin \ {a} : b \in Greeted' <=> b \in Greeted
  BY OthersAreFed DEF AdminStep, HandleConnection
<1>4. Place(a) # "new" /\ Place(a)' = Place(a) BY <1>1 DEF Place
<1>5. a \notin Greeted /\ Greeted' = Greeted \cup {a} BY <1>1, <1>3 DEF Greeted
<1>6. CASE send' = send
  <2>1. Pending(a)' = Pending(a) BY <1>1, <1>3, <1>6 DEF Pending
  <2>. QED BY <1>3, <1>4, <1>5, <2>1 DEF AdminFeed!Greet, Greeted
<1>7. CASE a \notin closed /\ send' = [send EXCEPT ![a] = Append(@, m)]
  <2>1. a \in registered /\ Place(a) = "in" BY <1>1, <1>7 DEF FeedInv, Place
  <2>2. send[a] \in Seq(Message) /\ Uncopied \in Seq(Message) BY FeedTypes
  <2>3. send'[a] = send[a] \o <<m>> BY <1>2, <1>7, <2>2, AppendIsConcat DEF TypeOK
  <2>4. /\ Pending(a) = send[a] \o Uncopied
        /\ Pending(a)' = (send[a] \o <<m>>) \o Uncopied
    BY <1>1, <1>3, <2>1, <2>3 DEF Pending
  <2>5. /\ SubSeq(Pending(a), 1, Len(send[a])) = send[a]
        /\ SubSeq(Pending(a), Len(send[a]) + 1, Len(Pending(a))) = Uncopied
        /\ Len(send[a]) <= Len(Pending(a)) /\ Len(send[a]) \in Nat
        /\ Len(Pending(a)) \in Nat
    <3>1. Pending(a) \in Seq(Message) BY <2>2, <2>4, ConcatProperties
    <3>2. /\ SubSeq(send[a] \o Uncopied, 1, Len(send[a])) = send[a]
          /\ SubSeq(send[a] \o Uncopied, Len(send[a]) + 1, Len(send[a] \o Uncopied))
               = Uncopied
          /\ Len(send[a]) <= Len(send[a] \o Uncopied)
      BY <2>2, FirstPart
    <3>3. Len(send[a]) \in Nat /\ Len(Pending(a)) \in Nat BY <2>2, <3>1, LenProperties
    <3>. QED BY <2>4, <3>2, <3>3
  <2>6. PICK i \in 1..Len(Pending(a)) + 1 : i = Len(send[a]) + 1 BY <2>5
  <2>7. i - 1 = Len(send[a]) BY <2>5, <2>6
  <2>8. Pending(a)' = AdminFeed!InsertAt(Pending(a), i, m)
    BY <2>4, <2>5, <2>6, <2>7 DEF AdminFeed!InsertAt
  <2>9. \E g \in List, j \in 1..Len(Pending(a)) + 1 :
            Pending(a)' = AdminFeed!InsertAt(Pending(a), j, g)
    BY <1>2, <2>8
  <2>. QED BY <1>3, <1>4, <1>5, <2>1, <2>9 DEF AdminFeed!Greet, Greeted
<1>. QED BY <1>1, <1>6, <1>7

LEMMA AdminFeeds ==
    ASSUME TypeOK, ClosedInv, FeedInv, NEW a \in Admin, AdminStep(a)
    PROVE  AdminFeed!FeedNext \/ SameFeed
<1>1. /\ Uncopied' = Uncopied /\ AdminFeed!OthersStay(a)
      /\ \A b \in Admin \ {a} : b \in Greeted' <=> b \in Greeted
  BY OthersAreFed
<1>2. \A b \in Admin \ {a} : Place(b)' = Place(b) /\ Pending(b)' = Pending(b)
  BY <1>1 DEF AdminFeed!OthersStay, AdminFeed!Stays
<1>3. CASE Join(a)
  <2>1. /\ apc[a] = "idle" /\ apc'[a] = "list" /\ registered' = registered \cup {a}
        /\ UNCHANGED send
    BY <1>3 DEF Join, TypeOK
  <2>2. a \notin registered /\ send[a] = <<>> BY <2>1 DEF ClosedInv, FeedInv
  <2>3. Pending(a)' = Uncopied
    <3>1. Pending(a)' = <<>> \o Uncopied BY <1>1, <2>1, <2>2 DEF Pending
    <3>. QED BY <3>1, FeedTypes, ConcatEmptySeq
  <2>4. Place(a) = "new" /\ Place(a)' = "in" BY <2>1, <2>2 DEF Place
  <2>5. Greeted' = Greeted BY <1>1, <2>1 DEF Greeted
  <2>6. AdminFeed!ComeIn(a) BY <1>1, <2>3, <2>4, <2>5 DEF AdminFeed!ComeIn, Greeted
  <2>. QED BY <2>6 DEF AdminFeed!FeedNext
<1>4. CASE ListSend(a) BY <1>4, ListIsGreeting DEF AdminFeed!FeedNext
<1>5. CASE WriterSend(a)
  <2>1. /\ send[a] # <<>> /\ send'[a] = Tail(send[a])
        /\ UNCHANGED <<registered, apc>>
    BY <1>5 DEF WriterSend, hubVars, TypeOK
  <2>2. Pending(a) # <<>> /\ Pending(a)' = Tail(Pending(a))
    <3>1. send[a] \in Seq(Message) /\ Uncopied \in Seq(Message) BY FeedTypes
    <3>2. send[a] \o Uncopied # <<>> /\ Tail(send[a] \o Uncopied) = Tail(send[a]) \o Uncopied
      BY <2>1, <3>1, TailOfConcat
    <3>. QED BY <1>1, <2>1, <3>2 DEF Pending
  <2>3. Place(a)' = Place(a) /\ Greeted' = Greeted BY <2>1 DEF Place, Greeted
  <2>4. AdminFeed!Deliver(a)
    BY <1>1, <2>2, <2>3 DEF AdminFeed!Deliver, Greeted
  <2>. QED BY <2>4 DEF AdminFeed!FeedNext
<1>6. CASE ReaderStop(a)
  <2>1. /\ apc[a] = "served" /\ registered' = registered \ {a}
        /\ UNCHANGED <<apc, send>>
    BY <1>6 DEF ReaderStop, FeedInv
  <2>2. Greeted' = Greeted BY <2>1 DEF Greeted
  <2>3. CASE a \in registered
    <3>1. Place(a) = "in" /\ Place(a)' = "out" BY <2>1, <2>3 DEF Place
    <3>2. Pending(a) = send[a] \o Uncopied /\ Pending(a)' = send[a]
      BY <2>1, <2>3 DEF Pending
    <3>3. AdminFeed!IsPrefix(Pending(a)', Pending(a))
      BY <3>2, FeedTypes, FirstPart, SubSeqFull DEF AdminFeed!IsPrefix
    <3>4. AdminFeed!GoOut(a)
      BY <1>1, <2>2, <3>1, <3>3 DEF AdminFeed!GoOut, AdminFeed!PutOut, Greeted
    <3>. QED BY <3>4 DEF AdminFeed!FeedNext
  <2>4. CASE a \notin registered
    <3>1. Place(a)' = Place(a) /\ Pending(a)' = Pending(a)
      BY <2>1, <2>4 DEF Place, Pending
    <3>. QED BY <1>1, <1>2, <2>2, <3>1 DEF SameFeed
  <2>. QED BY <2>3, <2>4
<1>8. CASE ListFails(a)
  <2>1. /\ apc[a] = "list" /\ apc'[a] = "served" /\ UNCHANGED <<registered, send>>
    BY <1>8 DEF ListFails, hubVars, TypeOK
  <2>2. Place(a) # "new" /\ Place(a)' = Place(a) BY <2>1 DEF Place
  <2>3. Pending(a)' = Pending(a) BY <1>1, <2>1 DEF Pending
  <2>4. a \notin Greeted /\ Greeted' = Greeted \cup {a} BY <1>1, <2>1 DEF Greeted
  <2>5. AdminFeed!Greet(a)
    BY <1>1, <2>2, <2>3, <2>4 DEF AdminFeed!Greet, Greeted
  <2>. QED BY <2>5 DEF AdminFeed!FeedNext
<1>7. CASE ListRows(a) \/ ListFilter(a) \/ WriterStop(a) \/ Leave(a) \/ Fetch(a)
  <2>1. /\ UNCHANGED <<registered, send>>
        /\ \/ apc' = apc
           \/ apc[a] \in {"list", "filter"} /\ apc'[a] \in {"filter", "send"}
    BY <1>7 DEF ListRows, ListFilter, WriterStop, Leave, Fetch, FetchRows, FetchFilter,
                FetchShow, FetchFails, hubVars, TypeOK
  <2>2. Place(a)' = Place(a) /\ Pending(a)' = Pending(a)
    BY <1>1, <2>1 DEF Place, Pending
  <2>3. Greeted' = Greeted BY <1>1, <2>1 DEF Greeted
  <2>. QED BY <1>1, <1>2, <2>2, <2>3 DEF SameFeed
<1>. QED BY <1>3, <1>4, <1>5, <1>6, <1>7, <1>8 DEF AdminStep, HandleConnection, WritePump

\* Of the events that find room in the broadcast channel, an admin gets every
\* one, once and in the order they were sent, until it is closed: the hub
\* implements EventFeed (ws_manager.go:57).
THEOREM HubImplementsFeed == Spec => FeedsInOrder
<1>1. Init => AdminFeed!FeedInit
  <2> SUFFICES ASSUME Init PROVE AdminFeed!FeedInit
    OBVIOUS
  <2>1. Uncopied = <<>>
    <3>1. hand = NoEvent /\ broadcast = <<>> BY DEF Init
    <3>. QED BY <3>1, ConcatEmptySeq, EmptySeq DEF Uncopied
  <2>2. \A a \in Admin : Place(a) = "new" /\ Pending(a) = <<>>
    BY DEF Init, Place, Pending
  <2>3. Greeted = {} BY DEF Init, Greeted
  <2>. QED BY <2>1, <2>2, <2>3 DEF AdminFeed!FeedInit, Greeted
<1>2. TypeOK /\ ClosedInv /\ FeedInv /\ [Next]_vars
        => [AdminFeed!FeedNext]_(AdminFeed!feedVars)
  <2> SUFFICES ASSUME TypeOK, ClosedInv, FeedInv, [Next]_vars
               PROVE  AdminFeed!FeedNext \/ SameFeed
    BY FeedStutters
  <2>1. CASE UNCHANGED vars
    BY <2>1 DEF vars, hubVars, adminVars, SameFeed, Uncopied, Greeted, Place, Pending
  <2>2. CASE Run BY <2>2, RunFeeds DEF AdminFeed!FeedNext
  <2>. QED BY <2>1, <2>2, NextSteps, AgentFeeds, AdminFeeds
<1>. QED BY <1>1, <1>2, InitFeedInv, NextClosedInv, NextFeedInv, HubTypeCorrect, PTL
         DEF Spec, FeedsInOrder, AdminFeed!Feed
=============================================================================
