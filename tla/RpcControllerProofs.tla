-------------------------- MODULE RpcControllerProofs --------------------------
(* Theorems about RpcController, for any number of calls with one           *)
(* controller and whatever the methods do.                                  *)
EXTENDS RpcController, TLAPS

Ran(c) == request[c] = "done" /\ ~server[c].m_bIsCanceled

(* The controller is as new between calls, and there is a call otherwise.   *)
Stages ==
  /\ stage = "ready" => m_bIsCanceled = FALSE /\ m_errorText = FALSE
  /\ stage # "ready" => call \in Calls
  /\ \A c \in Calls : c > call => request[c] = "none"

(* Whoever is about to run the closure has left it something to find.       *)
Ready ==
  /\ stage = "called" => response = "empty"
  /\ stage \in {"fill", "give_up"} => response = "empty"
  /\ stage \in {"run_done", "over"} =>
       m_bIsCanceled = TRUE \/ m_errorText = TRUE \/ response = "filled"

(* A response is only there, on its way or about to be filled, when the     *)
(* method ran to its end.                                                   *)
Answered ==
  /\ stage = "fill" => Ran(call)
  /\ response = "filled" /\ stage # "ready" => Ran(call)
  /\ \A r \in replies : r.error = FALSE => Ran(r.call)

CanceledAsked == m_bIsCanceled = TRUE => call \in asked

ControlInv ==
  TypeOK /\ Stages /\ Ready /\ Answered /\ CanceledAsked /\ ToldTrue

-----------------------------------------------------------------------------

LEMMA ControlInit == Init => ControlInv
<1> SUFFICES ASSUME Init PROVE ControlInv
  OBVIOUS
<1>1. TypeOK
  <2>1. Controller \in [m_bIsCanceled : BOOLEAN, m_errorText : BOOLEAN]
    BY DEF Controller
  <2>2. server \in [Calls -> [m_bIsCanceled : BOOLEAN, m_errorText : BOOLEAN]]
    BY <2>1 DEF Init
  <2>3. call \in 0..MaxCalls
    BY ControllerAssumption DEF Init
  <2> QED
    BY <2>2, <2>3 DEF Init, TypeOK
<1> QED
  BY <1>1 DEF Init, ControlInv, Stages, Ready, Answered, CanceledAsked, ToldTrue

(* The application's steps.                                                 *)
LEMMA ControlCaller ==
  ControlInv /\ (Reset \/ CallMethod \/ StartCancel) => ControlInv'
<1> USE ControllerAssumption DEF ControlInv, Calls
<1>1. ASSUME ControlInv, Reset PROVE ControlInv'
  BY <1>1 DEF Reset, serverVars, TypeOK, Stages, Ready, Answered, Ran,
              CanceledAsked, ToldTrue
<1>2. ASSUME ControlInv, CallMethod PROVE ControlInv'
  <2>1. call + 1 \in Calls /\ call \in Nat /\ request[call + 1] = "none"
    BY <1>2 DEF CallMethod, TypeOK, Stages
  <2>2. \A c \in Calls : request'[c] = IF c = call + 1 THEN "sent" ELSE request[c]
    BY <1>2, <2>1 DEF CallMethod, TypeOK
  <2>3. TypeOK'
    BY <1>2, <2>1 DEF CallMethod, TypeOK
  <2>4. \A c \in Calls : Ran(c) => Ran(c)'
    BY <1>2, <2>1, <2>2 DEF CallMethod, Ran
  <2>5. Answered'
    BY <1>2, <2>4 DEF CallMethod, Answered, TypeOK
  <2>6. ToldTrue'
    BY <1>2, <2>1, <2>2 DEF CallMethod, ToldTrue
  <2>7. Stages' /\ Ready' /\ CanceledAsked'
    BY <1>2, <2>1, <2>2 DEF CallMethod, Stages, Ready, CanceledAsked, TypeOK
  <2> QED
    BY <2>3, <2>5, <2>6, <2>7
<1>3. ASSUME ControlInv, StartCancel PROVE ControlInv'
  BY <1>3 DEF StartCancel, InProgress, serverVars, TypeOK, Stages, Ready,
              Answered, Ran, CanceledAsked, ToldTrue
<1> QED
  BY <1>1, <1>2, <1>3

(* The server's: what a method has answered stays answered.                 *)
LEMMA ControlServer ==
  ASSUME ControlInv, NEW c \in Calls,
         DecodeRequest(c) \/ SetFailed(c) \/ NotifyOnCancel(c) \/ DoneCb(c)
  PROVE  ControlInv'
<1> USE DEF ControlInv, TypeOK
<1>1. UNCHANGED <<clientVars, asked, told>>
  BY DEF DecodeRequest, SetFailed, NotifyOnCancel, DoneCb
<1>2. /\ request[c] \in {"sent", "method"}
      /\ \A d \in Calls \ {c} : request'[d] = request[d] /\ server'[d] = server[d]
  BY DEF DecodeRequest, SetFailed, NotifyOnCancel, DoneCb
<1>3. TypeOK'
  <2>1. request' \in [Calls -> {"none", "sent", "method", "rejected", "done"}]
    BY DEF DecodeRequest, SetFailed, NotifyOnCancel, DoneCb
  <2>2. server' \in [Calls -> [m_bIsCanceled : BOOLEAN, m_errorText : BOOLEAN]]
    BY DEF DecodeRequest, SetFailed, NotifyOnCancel, DoneCb
  <2>3. replies' \subseteq [call : Calls, error : BOOLEAN]
    <3>1. \A e \in BOOLEAN : Reply(c, e) \in [call : Calls, error : BOOLEAN]
      BY DEF Reply
    <3>2. \/ replies' = replies
          \/ \E e \in BOOLEAN : replies' = replies \cup {Reply(c, e)}
      BY DEF DecodeRequest, SetFailed, NotifyOnCancel, DoneCb
    <3> QED
      BY <3>1, <3>2
  <2> QED
    BY <1>1, <2>1, <2>2, <2>3 DEF clientVars
<1>4. \A d \in Calls : Ran(d) => Ran(d)' /\ d # c
  BY <1>2 DEF Ran
<1>5. \A r \in replies' : r \in replies \/ r.error = TRUE
                            \/ (r.call = c /\ Ran(c)')
  BY DEF DecodeRequest, SetFailed, NotifyOnCancel, DoneCb, Reply, Ran
<1>6. Stages'
  BY <1>1, <1>2 DEF clientVars, Stages
<1>7. Answered'
  <2>1. \A r \in replies' : r.error = FALSE => Ran(r.call)'
    BY <1>4, <1>5 DEF Answered
  <2> QED
    BY <1>1, <1>4, <2>1 DEF clientVars, Answered, Stages
<1>8. ToldTrue'
  BY <1>1, <1>4 DEF ToldTrue, Ran
<1> QED
  BY <1>1, <1>3, <1>6, <1>7, <1>8 DEF clientVars, Ready, CanceledAsked

(* The loop's.                                                              *)
LEMMA ControlLoop ==
  ControlInv /\ (DecodeReply \/ DropReply \/ LoopStep) => ControlInv'
<1> USE DEF ControlInv
<1>1. ASSUME ControlInv, DecodeReply PROVE ControlInv'
  <2>1. PICK r \in replies : /\ r.call = call
                             /\ Take(IF r.error THEN "give_up" ELSE "fill")
                             /\ replies' = replies \ {r}
    BY <1>1 DEF DecodeReply
  <2>2. r.error \in BOOLEAN
    BY <1>1 DEF TypeOK
  <2>3. stage' = "fill" => Ran(call)
    BY <1>1, <2>1, <2>2 DEF Take, Answered
  <2> QED
    BY <1>1, <2>1, <2>2, <2>3 DEF Take, TypeOK, Stages, Ready, Answered, Ran,
                                  CanceledAsked, ToldTrue
<1>2. ASSUME ControlInv, DropReply PROVE ControlInv'
  BY <1>2 DEF DropReply, clientVars, TypeOK, Stages, Ready, Answered, Ran,
              CanceledAsked, ToldTrue
<1>3. ASSUME ControlInv, Sweep PROVE ControlInv'
  BY <1>3 DEF Sweep, Take, TypeOK, Stages, Ready, Answered, Ran, CanceledAsked,
              ToldTrue
<1>4. ASSUME ControlInv, Fill PROVE ControlInv'
  BY <1>4 DEF Fill, serverVars, TypeOK, Stages, Ready, Answered, Ran,
              CanceledAsked, ToldTrue
<1>5. ASSUME ControlInv, GiveUp PROVE ControlInv'
  BY <1>5 DEF GiveUp, serverVars, TypeOK, Stages, Ready, Answered, Ran,
              CanceledAsked, ToldTrue
<1>6. ASSUME ControlInv, DoneCallback PROVE ControlInv'
  <2>1. call \in Calls
    BY <1>6 DEF DoneCallback, Stages
  <2>2. told'[call] \in {"canceled", "failed", "filled"}
    BY <1>6, <2>1 DEF DoneCallback, Ready, TypeOK
  <2>3. /\ told'[call] = "canceled" => call \in asked
        /\ told'[call] = "filled" => Ran(call)
    BY <1>6, <2>1 DEF DoneCallback, Ready, Answered, CanceledAsked, TypeOK
  <2>4. TypeOK'
    BY <1>6, <2>1, <2>2 DEF DoneCallback, serverVars, TypeOK
  <2>5. told' = [told EXCEPT ![call] = told'[call]]
    BY <1>6, <2>1 DEF DoneCallback, TypeOK
  <2>6. ToldTrue'
    BY <1>6, <2>1, <2>2, <2>3, <2>5
       DEF DoneCallback, serverVars, ToldTrue, Ran, TypeOK
  <2> QED
    BY <1>6, <2>4, <2>6 DEF DoneCallback, serverVars, Stages, Ready, Answered,
                            Ran, CanceledAsked
<1> QED
  BY <1>1, <1>2, <1>3, <1>4, <1>5, <1>6 DEF LoopStep

LEMMA ControlNext == ControlInv /\ [Next]_vars => ControlInv'
<1> SUFFICES ASSUME ControlInv, [Next]_vars PROVE ControlInv'
  OBVIOUS
<1>1. CASE UNCHANGED vars
  BY <1>1 DEF vars, clientVars, serverVars, ControlInv, TypeOK, Stages, Ready,
              Answered, Ran, CanceledAsked, ToldTrue
<1> QED
  BY <1>1, ControlCaller, ControlServer, ControlLoop DEF Next

LEMMA ControlAlways == Spec => []ControlInv
  BY ControlInit, ControlNext, PTL DEF Spec

(* Every variable stays in its type: in particular no closure ever finds a  *)
(* response that is empty or did not parse and a controller without error.  *)
THEOREM ControllerTypeCorrect == Spec => []TypeOK
<1>1. ControlInv => TypeOK
  BY DEF ControlInv
<1> QED
  BY <1>1, ControlAlways, PTL

(* What DoneCallback finds of a call is true of that call, however often    *)
(* the controller is used and however late a reply or a StartCancel comes.  *)
THEOREM ToldTheTruth == Spec => []ToldTrue
<1>1. ControlInv => ToldTrue
  BY DEF ControlInv
<1> QED
  BY <1>1, ControlAlways, PTL
=============================================================================
