------------------------------ MODULE MCRpcServer ------------------------------
(* Constants of the model-checking run of RpcServer.                        *)
EXTENDS RpcServer

CONSTANTS k1, k2, e1, n1
=============================================================================
