------------------------------ MODULE EventFeed ------------------------------
(***************************************************************************)
(* What the admin hub promises its readers.  A reader that is in gets      *)
(* every message that is published from then on, and those published       *)
(* recently, in the order of publication, each once and none left out,     *)
(* with at most one greeting somewhere among them.  A reader that does not *)
(* keep up is put out: it loses the end of what it has still to get, never *)
(* a part in between, and does not come back.                              *)
(***************************************************************************)
EXTENDS SequencesExt

CONSTANTS Reader, Message, Greeting

VARIABLES
    recent,     \* messages that whoever comes in now gets as well
    place,      \* is a reader "new", "in" or "out"
    pending,    \* what a reader has still to get
    greeted     \* the readers that have had their chance of a greeting

feedVars == <<recent, place, pending, greeted>>

FeedInit ==
    /\ recent = <<>>
    /\ place = [r \in Reader |-> "new"]
    /\ pending = [r \in Reader |-> <<>>]
    /\ greeted = {}

\* A reader is put out, and loses the end of what is pending.
PutOut(r) == place[r] = "in" /\ place'[r] = "out" /\ IsPrefix(pending'[r], pending[r])
Stays(r) == place'[r] = place[r] /\ pending'[r] = pending[r]
OthersStay(r) == \A o \in Reader \ {r} : Stays(o)

Publish(m) ==
    /\ recent' = Append(recent, m)
    /\ pending' = [r \in Reader |-> IF place[r] = "in" THEN Append(pending[r], m)
                                                       ELSE pending[r]]
    /\ UNCHANGED <<place, greeted>>

\* The oldest recent message has been handed to every reader that has room.
Settle ==
    /\ recent # <<>> /\ recent' = Tail(recent)
    /\ \A r \in Reader : Stays(r) \/ PutOut(r)
    /\ UNCHANGED greeted

ComeIn(r) ==
    /\ place[r] = "new" /\ place'[r] = "in"
    /\ pending'[r] = recent
    /\ OthersStay(r)
    /\ UNCHANGED <<recent, greeted>>

Greet(r) ==
    /\ place[r] # "new" /\ r \notin greeted
    /\ greeted' = greeted \cup {r}
    /\ \/ pending'[r] = pending[r]
       \/ /\ place[r] = "in"
          /\ \E g \in Greeting, i \in 1..Len(pending[r]) + 1 :
                pending'[r] = InsertAt(pending[r], i, g)
    /\ place'[r] = place[r]
    /\ OthersStay(r)
    /\ UNCHANGED recent

Deliver(r) ==
    /\ pending[r] # <<>> /\ pending'[r] = Tail(pending[r])
    /\ place'[r] = place[r]
    /\ OthersStay(r)
    /\ UNCHANGED <<recent, greeted>>

GoOut(r) == PutOut(r) /\ OthersStay(r) /\ UNCHANGED <<recent, greeted>>

FeedNext ==
    \/ \E m \in Message : Publish(m)
    \/ Settle
    \/ \E r \in Reader : ComeIn(r) \/ Greet(r) \/ Deliver(r) \/ GoOut(r)

Feed == FeedInit /\ [][FeedNext]_feedVars
=============================================================================
