-------------------------- MODULE SessionDirectory --------------------------
(***************************************************************************)
(* What the connection map promises its readers, however many connections  *)
(* an agent opens at a time.  A connection is admitted when its device has *)
(* no session; it may enter itself as the session, any number of times,    *)
(* and leaves once, after which it does not come back.  A device may admit *)
(* several before the first of them enters, and then each may put itself   *)
(* in another's place, and takes the session away when it leaves, whoever's *)
(* it is by then.  A connection that is admitted alone replaces and        *)
(* removes no session but its own.                                         *)
(***************************************************************************)
CONSTANTS Device, Conn, NoConn

VARIABLES
    session,    \* the connection that serves the device, or NoConn
    admitted,   \* the connections that may serve it
    left,       \* the connections that are finished for good
    up          \* does the process run

vars == <<session, admitted, left, up>>

Init ==
    /\ session = [d \in Device |-> NoConn]
    /\ admitted = [d \in Device |-> {}]
    /\ left = {}
    /\ up = TRUE

Alone(d, c) == admitted[d] = {c}

Admit(d, c) ==
    /\ up /\ session[d] = NoConn /\ c \notin left \cup admitted[d]
    /\ admitted' = [admitted EXCEPT ![d] = @ \cup {c}]
    /\ UNCHANGED <<session, left, up>>

\* The device is not registered after all.
Give(d, c) ==
    /\ up /\ c \in admitted[d] /\ session[d] # c
    /\ admitted' = [admitted EXCEPT ![d] = @ \ {c}]
    /\ UNCHANGED <<session, left, up>>

Enter(d, c) ==
    /\ up /\ c \in admitted[d]
    /\ Alone(d, c) => session[d] \in {c, NoConn}
    /\ session' = [session EXCEPT ![d] = c]
    /\ UNCHANGED <<admitted, left, up>>

Leave(d, c) ==
    /\ up /\ c \in admitted[d]
    /\ Alone(d, c) => session[d] \in {c, NoConn}
    /\ session' = [session EXCEPT ![d] = NoConn]
    /\ admitted' = [admitted EXCEPT ![d] = @ \ {c}]
    /\ left' = left \cup {c}
    /\ UNCHANGED up

\* A connection that was never admitted ends.
Finish(c) ==
    /\ up /\ \A d \in Device : c \notin admitted[d]
    /\ left' = left \cup {c}
    /\ UNCHANGED <<session, admitted, up>>

Die == up /\ up' = FALSE /\ UNCHANGED <<session, admitted, left>>

EndAll ==
    /\ ~up /\ up' = TRUE
    /\ session' = [d \in Device |-> NoConn]
    /\ admitted' = [d \in Device |-> {}]
    /\ left \subseteq left' /\ left' \subseteq Conn

Next ==
    \/ \E c \in Conn :
         \/ Finish(c)
         \/ \E d \in Device : Admit(d, c) \/ Give(d, c) \/ Enter(d, c) \/ Leave(d, c)
    \/ Die \/ EndAll

Spec == Init /\ [][Next]_vars
=============================================================================
