---------------------------- MODULE MCObjectStore ----------------------------
(***************************************************************************)
(* Instances of ObjectStore for TLC: one object, which is all that uploads *)
(* interact through, and up to two PUT requests for it.                    *)
(***************************************************************************)
EXTENDS ObjectStoreProps, TLC

CONSTANTS u1, u2, o1, k1, x1

OneObject == [u \in Upload |-> o1]
=============================================================================
