------------------------------ MODULE MCLifecycle ------------------------------
(* Constants of the model-checking runs of Lifecycle.                       *)
EXTENDS Lifecycle

CONSTANTS c1, c2
=============================================================================
