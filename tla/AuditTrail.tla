------------------------------ MODULE AuditTrail ------------------------------
(***************************************************************************)
(* What an audit log promises: what is logged is written in the order it   *)
(* was logged, once, and stays.  An entry that is not yet written may be   *)
(* lost: one by one, or all of them with the process.                      *)
(***************************************************************************)
EXTENDS Naturals, Sequences

CONSTANT Entry

VARIABLES
    trail,      \* the entries that are logged and not lost
    written     \* how many of them are written

trailVars == <<trail, written>>

TrailInit == trail = <<>> /\ written = 0

Add(e) ==
    /\ \A i \in 1..Len(trail) : trail[i] # e
    /\ trail' = Append(trail, e)
    /\ UNCHANGED written

Write ==
    /\ written < Len(trail)
    /\ written' = written + 1
    /\ UNCHANGED trail

Lose ==
    /\ written < Len(trail)
    /\ trail' = SubSeq(trail, 1, written) \o SubSeq(trail, written + 2, Len(trail))
    /\ UNCHANGED written

LoseAll ==
    /\ trail' = SubSeq(trail, 1, written)
    /\ UNCHANGED written

TrailNext == Write \/ Lose \/ LoseAll \/ \E e \in Entry : Add(e)

Trail == TrailInit /\ [][TrailNext]_trailVars
=============================================================================
