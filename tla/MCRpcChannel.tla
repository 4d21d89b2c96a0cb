----------------------------- MODULE MCRpcChannel -----------------------------
(* Constants of the model-checking runs of RpcChannel.                      *)
EXTENDS RpcChannel, TLC

CONSTANTS a1, a2, c1, c2, c3

(* Calls made by application threads are interchangeable. *)
CallSymmetry == Permutations({c1, c2})
=============================================================================
