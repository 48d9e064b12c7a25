--------------------------- MODULE MCAgentSessions ---------------------------
(***************************************************************************)
(* Instances of the agent sessions for TLC.                                *)
(***************************************************************************)
EXTENDS AgentSessionsProps, TLC

CONSTANTS c1, c2, d1, k1

\* Two connections of one agent, one after the other or at the same time.
OneDevice == (c1 :> d1) @@ (c2 :> d1)
=============================================================================
