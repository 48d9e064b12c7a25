--------------------------- MODULE MCAdminRequests ---------------------------
(***************************************************************************)
(* Instances of AdminRequests for TLC.                                     *)
(***************************************************************************)
EXTENDS AdminRequestsProps, TLC

CONSTANTS r1, r2, r3
=============================================================================
