------------------------------ MODULE DeviceLife -----------------------------
(***************************************************************************)
(* What the agent sessions promise to whoever watches the devices: a       *)
(* device gets a row, then an entry in the registry's map, then the admins *)
(* are told; it loses its entry, then its row, then the admins are told    *)
(* again.  No stage is left out or undone, and devices move one at a time. *)
(* The end of the process takes all of them off at once.  Nothing is       *)
(* promised once an SQL statement has failed.                              *)
(***************************************************************************)
CONSTANT Device

VARIABLES
    life,       \* the stage of a device
    intact      \* has every SQL statement succeeded

Init == life = [d \in Device |-> "off"] /\ intact = TRUE

Step(d, from, to) ==
    /\ intact /\ life[d] = from
    /\ life' = [life EXCEPT ![d] = to]
    /\ intact' = intact

Arrive(d) == Step(d, "off", "row")
Enter(d) == Step(d, "row", "mapped")
Announce(d) == Step(d, "mapped", "up")
Forget(d) == Step(d, "up", "unmapped")
DeleteRow(d) == Step(d, "unmapped", "gone")
Withdraw(d) == Step(d, "gone", "off")

EndAll ==
    /\ intact
    /\ life' = [d \in Device |-> "off"]
    /\ intact' = intact

Break == intact' = FALSE

Next ==
    \/ \E d \in Device :
         \/ Arrive(d) \/ Enter(d) \/ Announce(d)
         \/ Forget(d) \/ DeleteRow(d) \/ Withdraw(d)
    \/ EndAll \/ Break

Spec == Init /\ [][Next]_<<life, intact>>
=============================================================================
