----------------------------- MODULE MCMcpServer -----------------------------
(***************************************************************************)
(* Instances of McpServer for TLC.                                         *)
(***************************************************************************)
EXTENDS McpServerProps, TLC

CONSTANTS i1, s1, s2, d1, d2, r1, r2, c1
=============================================================================
