------------------------------- MODULE RpcSystem -------------------------------
(***************************************************************************)
(* A channel and a server at the two ends of its connections: RpcChannel    *)
(* with RpcServer in the place of the peer it leaves open, and the other    *)
(* way round.  Connection b is the channel's bufferevent b and the one the  *)
(* server accepts for it.  Each end learns of a failure by itself, or never *)
(* of one the other end has seen; bytes to an end that is gone are lost.    *)
(* Heartbeats are left out: KeepAlive has them, and each end by itself.     *)
(***************************************************************************)
EXTENDS RpcChannel, FiniteSets

CONSTANTS
  ServerLoop,      \* the thread started on RpcServer::worker
  EchoRequests,    \* the calls of Echo,
  InlineRequests,  \* of Add,
  BadRequests,     \* and those the server rejects
  HugeRequests,    \* calls whose reply may be too large for the server
  ThreadsMayFail

ASSUME SystemAssumption ==
  /\ EchoRequests \cup InlineRequests = Calls
  /\ EchoRequests \cap InlineRequests = {}
  /\ BadRequests \subseteq InlineRequests
  /\ HugeRequests \subseteq Calls
  /\ IsFiniteSet(Calls) /\ ServerLoop \notin Calls
  /\ NULL \notin Bevs \cup Calls \cup {ServerLoop}
  /\ ThreadsMayFail \in BOOLEAN

VARIABLES
  memory, bev, refcnt, lock, s_link, s_input, s_output, s_pc, at, s_cur,
  from, closure, answered

serverVars == <<memory, bev, refcnt, lock, s_link, s_input, s_output, s_pc, at,
                s_cur, from, closure, answered>>

S == INSTANCE RpcServer WITH
  Conns <- Bevs, Loop <- ServerLoop, JunkRequests <- {},
  link <- s_link, input <- s_input, output <- s_output,
  pc <- s_pc, cur <- s_cur

SystemInit == Init /\ S!Init

(* What each end does by itself. *)
ChannelStep ==
  /\ \/ \E t \in Callers : \E c \in AppCalls : Begin(t, c)
     \/ \E t \in Threads : CallMethodStep(t)
     \/ \E b \in Bevs : ConnectedCb(b) \/ ReadCb(b) \/ ErrorCb(b)
     \/ ConnectTimerCb \/ RequestTimerCb
     \/ CallbackStep
     \/ \E c \in Calls : Cancel(c)
     \/ Tick
     \/ \E b \in Bevs : ConnectOk(b) \/ ConnectionLost(b)
  /\ UNCHANGED serverVars

ServerStep ==
  /\ \/ \E b \in Bevs : S!ReadCb(b) \/ S!EventCb(b) \/ S!ConnectionLost(b)
     \/ S!CallbackStep
     \/ \E t \in S!Threads : S!DoneStep(t) \/ S!EchoWorker(t)
  /\ UNCHANGED vars

(* The listener accepts what has connected, now or a little later.          *)
Accept(b) ==
  /\ link[b] \notin {"unused", "connecting"}
  /\ S!AcceptSocketCb(b)
  /\ UNCHANGED vars

(* One request goes from the channel's output to the server's input.        *)
ToServer(b) ==
  /\ PeerReceive(b) /\ Head(output[b]) # Heartbeat
  /\ \/ S!PeerSend(b, Head(output[b]).call)
     \/ s_link[b] \in {"lost", "freed"} /\ UNCHANGED serverVars

(* And one reply from the server's output to the channel's input.           *)
ReplyKind(c) == IF c \in BadRequests THEN {"error"} ELSE {"ok", "unparsable"}

ToChannel(b) ==
  /\ S!PeerReceive(b)
  /\ LET c == Head(s_output[b]).req
     IN  \/ \E k \in ReplyKind(c) : PeerReply(b, [call |-> c, kind |-> k])
         \/ link[b] \in {"lost", "freed"} /\ UNCHANGED vars

SystemNext ==
  \/ ChannelStep \/ ServerStep
  \/ \E b \in Bevs : Accept(b) \/ ToServer(b) \/ ToChannel(b)

systemVars == <<vars, serverVars>>

SystemSpec == SystemInit /\ [][SystemNext]_systemVars

-----------------------------------------------------------------------------
(* Properties *)

(* The contract of RpcPromise from end to end: a request is delivered when  *)
(* the server takes it off the connection.  It is delivered once at most,   *)
(* NO_NETWORK is only told of one that never will be, and an answer only of *)
(* one that was.                                                            *)
Taken(c) == IF from[c] = NULL THEN 0 ELSE 1

EndToEnd == INSTANCE RpcPromise WITH
  delivered <- [c \in Calls |-> Taken(c)],
  outcome <- [c \in Calls |-> Outcome(c)]

EndToEndPromise == EndToEnd!PromiseSpec

(* No request is on its way to the server that the server has taken before, *)
(* on this connection or another.  (PeerSend takes a request once only.)    *)
TakenOnce ==
  \A b \in Bevs : \A i \in 1..Len(output[b]) :
    output[b][i].kind = "header" => from[output[b][i].call] = NULL

(* A caller that is told of a result, good or bad, is told what the server  *)
(* answered to that very call: an error if it rejected it, else a result.   *)
ResultWasAnswered ==
  \A c \in Calls :
    Outcome(c) \in {"ok", "SERVER_ERROR", "INVALID_RESPONSE"} =>
      /\ answered[c] = 1
      /\ Outcome(c) = "SERVER_ERROR" <=> c \in BadRequests
=============================================================================
