------------------------------ MODULE RpcPromise ------------------------------
(***************************************************************************)
(* What a channel promises about each call, with no threads, connections   *)
(* or caches: the request is delivered to a connection at most once, the   *)
(* closure runs at most once, and the outcome the closure finds in the     *)
(* controller tells what may have happened to the request.  It is the      *)
(* contract of google::protobuf::Service::CallMethod with the error codes  *)
(* of rpc_message.proto.                                                   *)
(***************************************************************************)
CONSTANT Calls

VARIABLES
  begun,      \* calls CallMethod was entered for
  canceled,   \* calls StartCancel was used on before they completed
  delivered,  \* how often the request of a call was handed to a connection
  outcome     \* what the closure found when it ran, "none" before

promiseVars == <<begun, canceled, delivered, outcome>>

(* Outcomes that are the server's own word, so the request reached it. *)
Answers  == {"ok", "SERVER_ERROR", "INVALID_RESPONSE"}
Outcomes == Answers \cup {"REQUEST_TIMEOUT", "NO_NETWORK", "canceled"}

PromiseInit ==
  /\ begun = {}
  /\ canceled = [c \in Calls |-> FALSE]
  /\ delivered = [c \in Calls |-> 0]
  /\ outcome = [c \in Calls |-> "none"]

Call(c) ==
  /\ c \notin begun
  /\ begun' = begun \cup {c}
  /\ UNCHANGED <<canceled, delivered, outcome>>

StartCancel(c) ==
  /\ c \in begun /\ outcome[c] = "none"
  /\ canceled' = [canceled EXCEPT ![c] = TRUE]
  /\ UNCHANGED <<begun, delivered, outcome>>

(* A timed out or canceled call may still be delivered later, one that was  *)
(* reported as NO_NETWORK may not.                                          *)
Deliver(c) ==
  /\ c \in begun /\ delivered[c] = 0
  /\ outcome[c] # "NO_NETWORK"
  /\ delivered' = [delivered EXCEPT ![c] = 1]
  /\ UNCHANGED <<begun, canceled, outcome>>

Complete(c, o) ==
  /\ c \in begun /\ outcome[c] = "none"
  /\ o = "canceled" <=> canceled[c]
  /\ o \in Answers => delivered[c] = 1
  /\ o = "NO_NETWORK" => delivered[c] = 0
  /\ outcome' = [outcome EXCEPT ![c] = o]
  /\ UNCHANGED <<begun, canceled, delivered>>

PromiseNext ==
  \E c \in Calls :
    \/ Call(c) \/ StartCancel(c) \/ Deliver(c)
    \/ \E o \in Outcomes : Complete(c, o)

PromiseSpec == PromiseInit /\ [][PromiseNext]_promiseVars
=============================================================================
