----------------------------- MODULE CallContract ----------------------------
(***************************************************************************)
(* What the RPC manager promises about one call after another: a call ends *)
(* once; the manager accepts at most one answer for it, and none after the *)
(* end; a call that ends with an answer ends with the accepted one.  It    *)
(* may end otherwise at any time, also when an answer was accepted.        *)
(***************************************************************************)
CONSTANTS Req, Answer, NoAnswer, Failure

VARIABLES
    phase,      \* "new", "waiting" or "ended"
    accepted,   \* the answers the manager took from the agent
    result      \* what the caller was given

contractVars == <<phase, accepted, result>>

ContractInit ==
    /\ phase = [r \in Req |-> "new"]
    /\ accepted = [r \in Req |-> {}]
    /\ result = [r \in Req |-> NoAnswer]

Begin(r) ==
    /\ phase[r] = "new"
    /\ phase' = [phase EXCEPT ![r] = "waiting"]
    /\ UNCHANGED <<accepted, result>>

Accept(r, a) ==
    /\ phase[r] = "waiting" /\ accepted[r] = {}
    /\ accepted' = [accepted EXCEPT ![r] = {a}]
    /\ UNCHANGED <<phase, result>>

End(r) ==
    /\ phase[r] = "waiting"
    /\ phase' = [phase EXCEPT ![r] = "ended"]
    /\ \E x \in accepted[r] \cup Failure : result' = [result EXCEPT ![r] = x]
    /\ UNCHANGED accepted

ContractNext ==
    \E r \in Req : Begin(r) \/ End(r) \/ \E a \in Answer : Accept(r, a)

Contract == ContractInit /\ [][ContractNext]_contractVars
=============================================================================
