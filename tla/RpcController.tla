----------------------------- MODULE RpcController -----------------------------
(***************************************************************************)
(* RpcControllerImpl on both ends of a call: the one of the application,   *)
(* which it may use for one call after the other if it resets it, and the  *)
(* one decode makes on the server for each request, which the service's    *)
(* method may use as service.h says a method may.                          *)
(*                                                                         *)
(* StartCancel runs on the application's thread, at any point between the  *)
(* loop's reads of the controller.  The caches and the connection are in   *)
(* RpcChannel; here a call is in the callback cache or not.                *)
(***************************************************************************)
EXTENDS Naturals, FiniteSets

CONSTANTS
  MaxCalls,         \* bound: calls made with one controller
  MethodsMayFail,   \* whether a method may call SetFailed
  MethodsMayNotify  \* whether a method may call NotifyOnCancel

ASSUME ControllerAssumption ==
  /\ MaxCalls \in Nat \ {0}
  /\ {MethodsMayFail, MethodsMayNotify} \subseteq BOOLEAN

Calls == 1..MaxCalls

VARIABLES
  stage,      \* of the application's call
  call,       \* the call, 0 before the first
  cached,     \* whether it is in m_callback_cache
  m_bIsCanceled, m_errorText, \* the application's controller
  response,   \* the response object of the call
  request,    \* where the request of each call is
  server,     \* the server's controller for each request
  replies,    \* replies on their way
  asked,      \* history: calls the application canceled
  told        \* history: what DoneCallback found of each call

clientVars == <<stage, call, cached, m_bIsCanceled, m_errorText, response>>
serverVars == <<request, server, replies>>
vars == <<clientVars, serverVars, asked, told>>

Controller == [m_bIsCanceled |-> FALSE, m_errorText |-> FALSE]
Reply(c, error) == [call |-> c, error |-> error]

Init ==
  /\ stage = "ready" /\ call = 0 /\ cached = FALSE
  /\ m_bIsCanceled = FALSE /\ m_errorText = FALSE
  /\ response = "empty"
  /\ request = [c \in Calls |-> "none"]
  /\ server = [c \in Calls |-> Controller]
  /\ replies = {} /\ asked = {}
  /\ told = [c \in Calls |-> "nothing"]

-----------------------------------------------------------------------------
(* The application. *)

ResetErrorOnly ==   \* mutant: Reset forgets m_bIsCanceled
  /\ stage = "over"
  /\ stage' = "ready"
  /\ m_errorText' = FALSE
  /\ UNCHANGED <<call, cached, m_bIsCanceled, response, serverVars, asked, told>>

(* A new controller is as good as one that was reset.                       *)
Reset ==
  /\ stage = "over"
  /\ stage' = "ready"
  /\ m_bIsCanceled' = FALSE /\ m_errorText' = FALSE
  /\ UNCHANGED <<call, cached, response, serverVars, asked, told>>

(* With a response object of its own; the request may wait or get lost.     *)
CallMethod ==
  /\ stage = "ready" /\ call < MaxCalls
  /\ stage' = "called" /\ call' = call + 1
  /\ cached' = TRUE /\ response' = "empty"
  /\ request' = [request EXCEPT ![call + 1] = "sent"]
  /\ UNCHANGED <<m_bIsCanceled, m_errorText, server, replies, asked, told>>

InProgress == stage \in {"called", "fill", "give_up", "run_done"}

StartCancel ==
  /\ InProgress
  /\ m_bIsCanceled' = TRUE
  /\ asked' = asked \cup {call}
  /\ UNCHANGED <<stage, call, cached, m_errorText, response, serverVars, told>>

-----------------------------------------------------------------------------
(* The server: decode, the service's method, done_cb. *)

DecodeRequest(c) ==
  /\ request[c] = "sent"
  /\ \/ request' = [request EXCEPT ![c] = "method"] /\ UNCHANGED replies
     \/ /\ request' = [request EXCEPT ![c] = "rejected"]
        /\ replies' = replies \cup {Reply(c, TRUE)}
  /\ UNCHANGED <<clientVars, server, asked, told>>

SetFailed(c) ==
  /\ MethodsMayFail
  /\ request[c] = "method"
  /\ server' = [server EXCEPT ![c].m_errorText = TRUE]
  /\ UNCHANGED <<clientVars, request, replies, asked, told>>

(* It cancels at once, and runs the callback it is given at once.           *)
NotifyOnCancel(c) ==
  /\ MethodsMayNotify
  /\ request[c] = "method"
  /\ server' = [server EXCEPT ![c].m_bIsCanceled = TRUE]
  /\ UNCHANGED <<clientVars, request, replies, asked, told>>

(* The error of a reply is the one decode set, whatever the controller says. *)
DoneCb(c) ==
  /\ request[c] = "method"
  /\ request' = [request EXCEPT ![c] = "done"]
  /\ replies' = IF server[c].m_bIsCanceled THEN replies
                                           ELSE replies \cup {Reply(c, FALSE)}
  /\ UNCHANGED <<clientVars, server, asked, told>>

-----------------------------------------------------------------------------
(* The channel's loop: decode and the sweep, up to their read of the        *)
(* controller, from there to the closure, and the closure.                  *)

Take(next) ==
  /\ stage = "called" /\ cached
  /\ cached' = FALSE
  /\ stage' = IF m_bIsCanceled THEN "run_done" ELSE next
  /\ UNCHANGED <<call, m_bIsCanceled, m_errorText, response, request, server,
                 asked, told>>

DecodeReply ==
  \E r \in replies :
    /\ r.call = call
    /\ Take(IF r.error THEN "give_up" ELSE "fill")
    /\ replies' = replies \ {r}

(* del_callback_cache finds nothing, or the connection is lost. *)
DropReply ==
  \E r \in replies :
    /\ replies' = replies \ {r}
    /\ UNCHANGED <<clientVars, request, server, asked, told>>

(* A response that does not parse fails the call.                           *)
Fill ==
  /\ stage = "fill"
  /\ \/ response' = "filled" /\ UNCHANGED m_errorText
     \/ response' = "garbage" /\ m_errorText' = TRUE
  /\ stage' = "run_done"
  /\ UNCHANGED <<call, cached, m_bIsCanceled, serverVars, asked, told>>

(* Time passes for the call, wherever its request and its reply are.        *)
SweepNever == FALSE /\ UNCHANGED vars   \* mutant: decode alone completes calls
Sweep == Take("give_up") /\ UNCHANGED replies

GiveUp ==
  /\ stage = "give_up"
  /\ m_errorText' = TRUE
  /\ stage' = "run_done"
  /\ UNCHANGED <<call, cached, m_bIsCanceled, response, serverVars, asked, told>>

DoneCallback ==
  /\ stage = "run_done"
  /\ told' = [told EXCEPT ![call] = IF m_bIsCanceled THEN "canceled"
                                    ELSE IF m_errorText THEN "failed"
                                    ELSE response]
  /\ stage' = "over"
  /\ UNCHANGED <<call, cached, m_bIsCanceled, m_errorText, response, serverVars,
                 asked>>

LoopStep == Sweep \/ Fill \/ GiveUp \/ DoneCallback

Next ==
  \/ Reset \/ CallMethod \/ StartCancel
  \/ \E c \in Calls :
       DecodeRequest(c) \/ SetFailed(c) \/ NotifyOnCancel(c) \/ DoneCb(c)
  \/ DecodeReply \/ DropReply \/ LoopStep

Spec == Init /\ [][Next]_vars

(* The loop runs, and the request timer is always armed again.              *)
FairSpec == Spec /\ WF_vars(LoopStep)

-----------------------------------------------------------------------------
(* Properties *)

(* Every variable stays in its type. *)
TypeOK ==
  /\ stage \in {"ready", "called", "fill", "give_up", "run_done", "over"}
  /\ call \in 0..MaxCalls
  /\ {cached, m_bIsCanceled, m_errorText} \subseteq BOOLEAN
  /\ response \in {"empty", "filled", "garbage"}
  /\ request \in [Calls -> {"none", "sent", "method", "rejected", "done"}]
  /\ server \in [Calls -> [m_bIsCanceled : BOOLEAN, m_errorText : BOOLEAN]]
  /\ replies \subseteq [call : Calls, error : BOOLEAN]
  /\ asked \subseteq Calls
  /\ told \in [Calls -> {"nothing", "canceled", "failed", "filled"}]

(* What DoneCallback finds of a call is true of that call, though the        *)
(* controller was used for others before and their replies may come late:   *)
(* canceled, if the application canceled it; a response, if the method ran  *)
(* to its end and answered.  It never finds a response that is empty or     *)
(* that did not parse.                                                      *)
ToldTrue ==
  \A c \in Calls :
    /\ told[c] \notin {"empty", "garbage"}
    /\ told[c] = "canceled" => c \in asked
    /\ told[c] = "filled" => request[c] = "done" /\ ~server[c].m_bIsCanceled

(* Every call is told something, also when the reply is lost, or suppressed *)
(* because the method used NotifyOnCancel.                                  *)
EachCallTold == \A c \in Calls : call = c ~> told[c] # "nothing"

-----------------------------------------------------------------------------
(* What service.h says, and the code does not do: each is checked by a run  *)
(* that finds it violated.                                                  *)

(* SetFailed on the server causes Failed() to return true on the client.    *)
FailureReachesClient ==
  \A c \in Calls : server[c].m_errorText => told[c] # "filled"

(* IsCanceled on the server, if true, indicates that the client canceled.   *)
CanceledByClient ==
  \A c \in Calls : server[c].m_bIsCanceled => c \in asked
=============================================================================
