----------------------------- MODULE MCRpcSystem -----------------------------
(* Constants of the model-checking runs of RpcSystem.                       *)
EXTENDS RpcSystem

CONSTANTS a1, c1, c2
=============================================================================
