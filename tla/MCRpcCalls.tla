----------------------------- MODULE MCRpcCalls ------------------------------
(***************************************************************************)
(* Instances of RpcCalls for TLC: calls to one device, and readPumps of    *)
(* the device's old and new connection.                                    *)
(***************************************************************************)
EXTENDS RpcCallsProps, TLC

CONSTANTS r1, r2, d1, p1, p2

OneDevice == [r \in Req |-> d1]
=============================================================================
