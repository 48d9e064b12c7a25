---------------------------- MODULE AdminHubProps ----------------------------
(***************************************************************************)
(* What the admins see.                                                    *)
(***************************************************************************)
EXTENDS AdminHub

\* Every device is settled and every event has been copied to the admins.
Quiet ==
    /\ \A d \in Device : dev[d] \in {"off", "up"}
    /\ broadcast = <<>> /\ hand = NoEvent

\* An admin the hub knows and owes nothing sees exactly the devices that are
\* online, whatever order events, its first list and the answers to its fetches
\* come in, unless a full channel dropped something, its first list could not be
\* made (ws_manager.go:94), or a device changed while that list was made or while
\* a fetched one was under way: such a list may be older than an event before it
\* (ws_manager.go:86, devices.html:320).  A slow admin is closed rather than
\* shown a gap.
ViewsConverge ==
    Quiet /\ ~dropped =>
        \A a \in registered \ crossed :
            apc[a] = "served" /\ send[a] = <<>> /\ sock[a] = "open" =>
                view[a] = {d \in Device : Online(d)}

\* The hub has open channels only (ws_manager.go:57): run() never sends on one
\* that it closed, which would end the process.
RegisteredIsOpen == registered \cap closed = {}

\* No admin holds up the others, however slowly its page reads or its list is
\* made: the hub gets rid of every event it has taken.
HubGoesOn == hand # NoEvent ~> hand = NoEvent

\* An admin the hub has closed is told so and leaves nothing behind: its
\* socket is closed and its pumps end.
ClosedIsGone ==
    \A a \in Admin : a \in closed /\ apc[a] = "served" ~>
        sock[a] = "gone" /\ a \notin writing \cup reading

\* The hub serves those that keep up, for ever, and gets rid of those that do
\* not (ws_manager.go:57).
HubServes == HubGoesOn /\ ClosedIsGone

-----------------------------------------------------------------------------
\* What the hub still has to copy, whether an admin is in its map, and what it
\* has still to get.
Uncopied == (IF hand = NoEvent THEN <<>> ELSE <<hand>>) \o broadcast
Place(a) ==
    IF a \in registered THEN "in" ELSE IF apc[a] = "idle" THEN "new" ELSE "out"
Pending(a) == IF a \in registered THEN send[a] \o Uncopied ELSE send[a]

\* The hub is a feed in the sense of EventFeed: of the events that found room
\* in the broadcast channel an admin gets every one, once and in order, up to
\* some point; a slow admin is closed (ws_manager.go:57), never shown a gap.
AdminFeed ==
    INSTANCE EventFeed WITH
        Reader <- Admin, Message <- Event \cup {Progress}, Greeting <- List,
        recent <- Uncopied,
        place <- [a \in Admin |-> Place(a)],
        pending <- [a \in Admin |-> Pending(a)],
        greeted <- {a \in Admin : apc[a] \in {"served", "panicked"}}

FeedsInOrder == AdminFeed!Feed
=============================================================================
