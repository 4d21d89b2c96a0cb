------------------------------ MODULE MCEchoDelay ------------------------------
(* Constants of the model-checking run of EchoDelay.                        *)
EXTENDS EchoDelay, TLC

CONSTANTS t1, t2, t3, t4

(* Echo threads are interchangeable. *)
ThreadSymmetry == Permutations({t1, t2, t3, t4})
=============================================================================
