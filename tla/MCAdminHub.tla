----------------------------- MODULE MCAdminHub ------------------------------
(***************************************************************************)
(* Instances of the admin hub for TLC.                                     *)
(***************************************************************************)
EXTENDS AdminHubProps

CONSTANTS d1, d2, a1, a2
=============================================================================
