------------------------------- MODULE RpcServer -------------------------------
(***************************************************************************)
(* The server side of the RPC system: class RpcServer and its reference    *)
(* counted bufferevent_client (src/protobuf-libevent/RpcServer.cpp), with  *)
(* the two methods of EchoServiceImpl.                                     *)
(*                                                                         *)
(* One event-loop thread accepts, reads, dispatches and closes.  Echo      *)
(* answers from a thread of its own; Add, and every request the server     *)
(* rejects, is answered on the loop thread before read_cb goes on.  The    *)
(* client is shared by the bufferevent's callbacks and by the closures of  *)
(* requests in progress; client->lock protects it.  Callbacks run without  *)
(* the bufferevent's lock (BEV_OPT_UNLOCK_CALLBACKS), so that lock is only *)
(* held inside evbuffer calls and needs no variable.                       *)
(***************************************************************************)
EXTENDS Naturals, Sequences, FiniteSets

CONSTANTS
  Conns,          \* connections that may be accepted, each once
  EchoRequests,   \* requests for Echo, each sent at most once
  InlineRequests, \* requests for Add, or that decode rejects with an error
  JunkRequests,   \* requests whose message may not parse
  HugeRequests,   \* requests whose reply may be too large to be serialised
  Loop,           \* the thread started on RpcServer::worker
  NULL,
  ThreadsMayFail  \* whether sys_os_create_thread may fail

Requests == EchoRequests \cup InlineRequests \cup JunkRequests
Threads  == EchoRequests \cup {Loop}

ASSUME ServerAssumption ==
  /\ IsFiniteSet(Requests)
  /\ Loop \notin Requests
  /\ NULL \notin Conns \cup Requests \cup {Loop}
  /\ InlineRequests \cap EchoRequests = {}
  /\ HugeRequests \subseteq EchoRequests \cup InlineRequests
  /\ ThreadsMayFail \in BOOLEAN

Chunks == [kind : {"header", "body"}, req : Requests]
            \cup [kind : {"heartbeat"}, req : {NULL}]

DonePcs == {"lock_reply", "add_header", "add_body", "release", "free_client"}
LoopPcs == {"poll", "read", "set_bev", "drop_client", "free_bev"}
EchoPcs == {"unborn", "sleep", "exited"}

VARIABLES
  \* struct bufferevent_client of each connection; bev is NULL or not
  memory, bev, refcnt, lock,
  \* libevent: the bufferevent of each connection and its buffers
  link, input, output,
  \* per thread: location; the loop's connection and the closure it runs
  pc, at, cur,
  \* each request: the connection it came by and its RpcServerClosure
  from, closure,
  \* history: replies put in an output buffer
  answered

clientVars == <<memory, bev, refcnt, lock>>
bevVars    == <<link, input, output>>
threadVars == <<pc, at, cur>>
reqVars    == <<from, closure, answered>>
vars == <<clientVars, bevVars, threadVars, reqVars>>

-----------------------------------------------------------------------------
(* Helpers *)

Header(r) == [kind |-> "header", req |-> r]
Body(r)   == [kind |-> "body", req |-> r]
Heartbeat == [kind |-> "heartbeat", req |-> NULL]

Goto(t, label) == pc' = [pc EXCEPT ![t] = label]

(* The closure thread t runs, and the client it holds. *)
Task(t)   == IF t = Loop THEN cur ELSE t
Client(t) == from[Task(t)]

(* BEV_CLIENT_LOCK does not block. *)
LockIgnored(k) == TRUE    \* mutant: libevent's threading was not set up
LockFree(k) == lock[k] = NULL

(* bufferevent_client_add_reference *)
NoReference(k) == UNCHANGED refcnt   \* mutant: closure without a reference
AddReference(k) == refcnt' = [refcnt EXCEPT ![k] = @ + 1]

(* Where a thread is when it is done with a closure. *)
AfterDone(t) == IF t = Loop THEN "read" ELSE "exited"

Init ==
  /\ memory = [k \in Conns |-> "none"]
  /\ bev = [k \in Conns |-> FALSE]
  /\ refcnt = [k \in Conns |-> 0]
  /\ lock = [k \in Conns |-> NULL]
  /\ link = [k \in Conns |-> "none"]
  /\ input = [k \in Conns |-> <<>>]
  /\ output = [k \in Conns |-> <<>>]
  /\ pc = [t \in Threads |-> IF t = Loop THEN "poll" ELSE "unborn"]
  /\ at = NULL /\ cur = NULL
  /\ from = [r \in Requests |-> NULL]
  /\ closure = [r \in Requests |-> "none"]
  /\ answered = [r \in Requests |-> 0]

-----------------------------------------------------------------------------
(* The loop thread: accept_socket_cb, read_cb with decode, and event_cb.    *)

(* No other thread knows of the client yet.  When the bufferevent cannot be *)
(* made the client goes again and the socket is closed.                     *)
AcceptSocketCb(k) ==
  /\ pc[Loop] = "poll"
  /\ link[k] = "none"
  /\ \/ /\ memory' = [memory EXCEPT ![k] = "allocated"]
        /\ refcnt' = [refcnt EXCEPT ![k] = 1]
        /\ bev' = [bev EXCEPT ![k] = TRUE]
        /\ link' = [link EXCEPT ![k] = "open"]
     \/ /\ memory' = [memory EXCEPT ![k] = "freed"]
        /\ link' = [link EXCEPT ![k] = "freed"]
        /\ UNCHANGED <<refcnt, bev>>
  /\ UNCHANGED <<lock, input, output, threadVars, reqVars>>

ReadCb(k) ==
  /\ pc[Loop] = "poll"
  /\ link[k] \in {"open", "lost"}
  /\ input[k] # <<>>
  /\ at' = k
  /\ Goto(Loop, "read")
  /\ UNCHANGED <<clientVars, bevVars, cur, reqVars>>

(* A packet without a body is sent back, under the client's lock.           *)
EchoHeartbeat ==
  /\ pc[Loop] = "read"
  /\ input[at] # <<>> /\ Head(input[at]) = Heartbeat
  /\ LockFree(at)
  /\ input' = [input EXCEPT ![at] = Tail(@)]
  /\ output' = [output EXCEPT ![at] = Append(@, Heartbeat)]
  /\ UNCHANGED <<clientVars, link, threadVars, reqVars>>

(* decode makes the closure, which takes a reference, and runs it at once   *)
(* for Add and for what it rejects.  EchoServiceImpl::Echo starts a thread  *)
(* with it and does not look at the result of sys_os_create_thread.         *)
Decode ==
  /\ pc[Loop] = "read"
  /\ input[at] # <<>> /\ Head(input[at]) # Heartbeat
  /\ input' = [input EXCEPT ![at] = Tail(@)]
  /\ LET r == Head(input[at]).req IN
     \/ /\ r \in JunkRequests
        /\ UNCHANGED <<refcnt, pc, cur, closure>>
     \/ /\ LockFree(at)
        /\ AddReference(at)
        /\ closure' = [closure EXCEPT ![r] = "alive"]
        /\ \/ /\ r \in InlineRequests
              /\ cur' = r
              /\ Goto(Loop, "lock_reply")
           \/ /\ r \in EchoRequests
              /\ Goto(r, "sleep")
              /\ UNCHANGED cur
           \/ /\ r \in EchoRequests /\ ThreadsMayFail
              /\ UNCHANGED <<pc, cur>>
  /\ UNCHANGED <<memory, bev, lock, link, output, at, from, answered>>

ReadEnd ==
  /\ pc[Loop] = "read"
  /\ input[at] = <<>>
  /\ at' = NULL
  /\ Goto(Loop, "poll")
  /\ UNCHANGED <<clientVars, bevVars, cur, reqVars>>

(* event_cb with EOF, ERROR or TIMEOUT, after what was read before it.      *)
EventCb(k) ==
  /\ pc[Loop] = "poll"
  /\ link[k] = "lost" /\ input[k] = <<>>
  /\ at' = k
  /\ Goto(Loop, "set_bev")
  /\ UNCHANGED <<clientVars, bevVars, cur, reqVars>>

(* bufferevent_client_set_bev(client, NULL) *)
KeepBev(k) == UNCHANGED bev   \* mutant: the client goes on pointing to the bev
ClearBev(k) == bev' = [bev EXCEPT ![k] = FALSE]

SetBev ==
  /\ pc[Loop] = "set_bev"
  /\ LockFree(at)
  /\ ClearBev(at)
  /\ Goto(Loop, "drop_client")
  /\ UNCHANGED <<memory, refcnt, lock, bevVars, at, cur, reqVars>>

FreeBev ==
  /\ pc[Loop] = "free_bev"
  /\ link' = [link EXCEPT ![at] = "freed"]
  /\ output' = [output EXCEPT ![at] = <<>>]
  /\ at' = NULL
  /\ Goto(Loop, "poll")
  /\ UNCHANGED <<clientVars, input, cur, reqVars>>

-----------------------------------------------------------------------------
(* bufferevent_client_free, by thread t on the client of k: the count goes  *)
(* down under the lock; when it is not positive the lock is released and    *)
(* only then destroyed, and the client freed.                               *)

UnreferenceLeaks(t, k, label) ==   \* mutant: if (--client->refcnt >= 0)
  /\ LockFree(k)
  /\ refcnt' = [refcnt EXCEPT ![k] = @ - 1]
  /\ Goto(t, label)

Unreference(t, k, label) ==
  /\ LockFree(k)
  /\ refcnt' = [refcnt EXCEPT ![k] = @ - 1]
  /\ Goto(t, IF refcnt[k] - 1 > 0 THEN label ELSE "free_client")

Deallocate(k) == memory' = [memory EXCEPT ![k] = "freed"]

(* event_cb gives up the reference of the bufferevent. *)
DropClient ==
  /\ pc[Loop] = "drop_client"
  /\ Unreference(Loop, at, "free_bev")
  /\ UNCHANGED <<memory, bev, lock, bevVars, at, cur, reqVars>>

FreeDropped ==
  /\ pc[Loop] = "free_client" /\ cur = NULL
  /\ Deallocate(at)
  /\ Goto(Loop, "free_bev")
  /\ UNCHANGED <<bev, refcnt, lock, bevVars, at, cur, reqVars>>

-----------------------------------------------------------------------------
(* RpcServerClosure::Run on thread t: done_cb, then the destructor.  The    *)
(* controller is never canceled: no code on the server cancels it.          *)

(* mutant: EVLOCK_TRY_LOCK, and no reply when another thread has the lock *)
LockReplyTried(t) ==
  /\ pc[t] = "lock_reply"
  /\ IF bev[Client(t)] /\ LockFree(Client(t))
       THEN lock' = [lock EXCEPT ![Client(t)] = t] /\ Goto(t, "add_header")
       ELSE UNCHANGED lock /\ Goto(t, "release")
  /\ UNCHANGED <<memory, bev, refcnt, bevVars, at, cur, reqVars>>

(* SerializeToString fails for more than INT_MAX bytes: done_cb sends       *)
(* nothing then, and takes no lock.                                         *)
SerializeFails(t) ==
  /\ pc[t] = "lock_reply"
  /\ Task(t) \in HugeRequests
  /\ Goto(t, "release")
  /\ UNCHANGED <<clientVars, bevVars, at, cur, reqVars>>

(* The lock is kept to send, or released when the connection is gone.       *)
LockReply(t) ==
  /\ pc[t] = "lock_reply"
  /\ LockFree(Client(t))
  /\ IF bev[Client(t)]
       THEN lock' = [lock EXCEPT ![Client(t)] = t] /\ Goto(t, "add_header")
       ELSE UNCHANGED lock /\ Goto(t, "release")
  /\ UNCHANGED <<memory, bev, refcnt, bevVars, at, cur, reqVars>>

AddHeader(t) ==
  /\ pc[t] = "add_header"
  /\ output' = [output EXCEPT ![Client(t)] = Append(@, Header(Task(t)))]
  /\ Goto(t, "add_body")
  /\ UNCHANGED <<clientVars, link, input, at, cur, reqVars>>

UnlockForgotten(t) == UNCHANGED lock   \* mutant: BEV_CLIENT_UNLOCK left out
Unlock(t) == lock' = [lock EXCEPT ![Client(t)] = NULL]

AddBody(t) ==
  /\ pc[t] = "add_body"
  /\ output' = [output EXCEPT ![Client(t)] = Append(@, Body(Task(t)))]
  /\ answered' = [answered EXCEPT ![Task(t)] = @ + 1]
  /\ Unlock(t)
  /\ Goto(t, "release")
  /\ UNCHANGED <<memory, bev, refcnt, link, input, at, cur, from, closure>>

Leave(t) == cur' = IF t = Loop THEN NULL ELSE cur

(* ~RpcServerClosure gives up the reference of the closure. *)
Release(t) ==
  /\ pc[t] = "release"
  /\ Unreference(t, Client(t), AfterDone(t))
  /\ closure' = [closure EXCEPT ![Task(t)] = "deleted"]
  /\ IF refcnt[Client(t)] - 1 > 0 THEN Leave(t) ELSE UNCHANGED cur
  /\ UNCHANGED <<memory, bev, lock, bevVars, at, from, answered>>

FreeReleased(t) ==
  /\ pc[t] = "free_client" /\ Task(t) # NULL
  /\ Deallocate(Client(t))
  /\ Goto(t, AfterDone(t))
  /\ Leave(t)
  /\ UNCHANGED <<bev, refcnt, lock, bevVars, at, reqVars>>

DoneStep(t) ==
  \/ SerializeFails(t) \/ LockReply(t) \/ AddHeader(t) \/ AddBody(t)
  \/ Release(t) \/ FreeReleased(t)

(* echo_worker: the sleep is over. *)
EchoWorker(t) ==
  /\ t # Loop /\ pc[t] = "sleep"
  /\ Goto(t, "lock_reply")
  /\ UNCHANGED <<clientVars, bevVars, at, cur, reqVars>>

-----------------------------------------------------------------------------
(* The peer and the network. *)

(* libevent moves bytes to an input buffer on the loop thread, so never      *)
(* while that runs read_cb.                                                 *)
Polling == pc[Loop] = "poll"

PeerSend(k, r) ==
  /\ Polling
  /\ link[k] = "open" /\ from[r] = NULL
  /\ from' = [from EXCEPT ![r] = k]
  /\ input' = [input EXCEPT ![k] = Append(@, Body(r))]
  /\ UNCHANGED <<clientVars, link, output, threadVars, closure, answered>>

(* Bound: one heartbeat of a connection in its buffers at a time.           *)
PeerHeartbeat(k) ==
  /\ Polling
  /\ link[k] = "open"
  /\ \A i \in DOMAIN input[k] : input[k][i] # Heartbeat
  /\ \A i \in DOMAIN output[k] : output[k][i] # Heartbeat
  /\ input' = [input EXCEPT ![k] = Append(@, Heartbeat)]
  /\ UNCHANGED <<clientVars, link, output, threadVars, reqVars>>

(* libevent writes what it finds in the output buffer, in any portion.      *)
PeerReceive(k) ==
  /\ link[k] = "open" /\ output[k] # <<>>
  /\ \/ /\ Head(output[k]) = Heartbeat
        /\ output' = [output EXCEPT ![k] = Tail(@)]
     \/ /\ Len(output[k]) > 1 /\ Head(output[k]) # Heartbeat
        /\ output' = [output EXCEPT ![k] = Tail(Tail(@))]
  /\ UNCHANGED <<clientVars, link, input, threadVars, reqVars>>

(* Closed, reset, or silent for 30 s (tv_read). *)
ConnectionLost(k) ==
  /\ link[k] = "open"
  /\ link' = [link EXCEPT ![k] = "lost"]
  /\ UNCHANGED <<clientVars, input, output, threadVars, reqVars>>

-----------------------------------------------------------------------------

CallbackStep ==
  \/ EchoHeartbeat \/ Decode \/ ReadEnd
  \/ SetBev \/ DropClient \/ FreeDropped \/ FreeBev

Environment ==
  \E k \in Conns :
    \/ PeerHeartbeat(k) \/ PeerReceive(k) \/ ConnectionLost(k)
    \/ \E r \in Requests : PeerSend(k, r)

Next ==
  \/ \E k \in Conns : AcceptSocketCb(k) \/ ReadCb(k) \/ EventCb(k)
  \/ CallbackStep
  \/ \E t \in Threads : DoneStep(t) \/ EchoWorker(t)
  \/ Environment

Spec == Init /\ [][Next]_vars

(* Threads are scheduled, sleeps end, locks are granted in turn, and the    *)
(* event loop serves every event that is due.                               *)
Fairness ==
  /\ SF_vars(CallbackStep \/ DoneStep(Loop))
  /\ \A r \in EchoRequests : SF_vars(DoneStep(r) \/ EchoWorker(r))
  /\ \A k \in Conns : SF_vars(ReadCb(k) \/ EventCb(k))

FairSpec == Spec /\ Fairness

-----------------------------------------------------------------------------
(* Properties *)

(* Every variable of the server stays in its type. *)
TypeOK ==
  /\ memory \in [Conns -> {"none", "allocated", "freed"}]
  /\ bev \in [Conns -> BOOLEAN]
  /\ refcnt \in [Conns -> Nat]
  /\ lock \in [Conns -> Threads \cup {NULL}]
  /\ link \in [Conns -> {"none", "open", "lost", "freed"}]
  /\ input \in [Conns -> Seq(Chunks)]
  /\ output \in [Conns -> Seq(Chunks)]
  /\ pc \in [Threads -> LoopPcs \cup DonePcs \cup EchoPcs]
  /\ at \in Conns \cup {NULL}
  /\ cur \in InlineRequests \cup {NULL}
  /\ from \in [Requests -> Conns \cup {NULL}]
  /\ closure \in [Requests -> {"none", "alive", "deleted"}]
  /\ answered \in [Requests -> Nat]

(* The bufferevent's callbacks still hold a reference to the client. *)
Attached(k) ==
  /\ link[k] \in {"open", "lost"}
  /\ ~(at = k /\ (pc[Loop] = "free_bev" \/ (pc[Loop] = "free_client" /\ cur = NULL)))

Holders(k) ==
  {r \in Requests : closure[r] = "alive" /\ from[r] = k}
    \cup (IF Attached(k) THEN {Loop} ELSE {})

(* refcnt counts exactly the closures not yet deleted and the bufferevent.  *)
RefcntIsHolders == \A k \in Conns : refcnt[k] = Cardinality(Holders(k))

(* Clients a thread is about to read, write, lock or free. *)
InUse(t) ==
  IF pc[t] \in DonePcs /\ Task(t) # NULL THEN {Client(t)}
  ELSE IF t = Loop /\ pc[t] \in {"read", "set_bev", "drop_client", "free_client"}
         THEN {at} ELSE {}

(* No thread has a freed client in its hands, nor sends on a freed          *)
(* bufferevent, and a client is freed by one thread only.                   *)
NoUseAfterFree ==
  \A t \in Threads :
    /\ \A k \in InUse(t) : memory[k] = "allocated"
    /\ pc[t] \in {"add_header", "add_body"} => link[Client(t)] # "freed"
    /\ \A u \in Threads \ {t} :
         pc[t] = "free_client" => InUse(t) \cap InUse(u) = {}

(* Replies of echo threads, replies of the loop and heartbeats sent back    *)
(* never interleave in an output buffer, and each is on the connection its  *)
(* request came by.                                                         *)
FramesWhole ==
  \A k \in Conns : \A i \in 1..Len(output[k]) :
    LET f == output[k][i] IN
    /\ f.kind = "header" =>
         /\ from[f.req] = k
         /\ IF i < Len(output[k])
              THEN output[k][i + 1] = Body(f.req)
              ELSE \E t \in Threads : pc[t] = "add_body" /\ Task(t) = f.req
    /\ f.kind = "body" => i > 1 /\ output[k][i - 1] = Header(f.req)

(* A request is answered at most once, and only if its closure was made;    *)
(* a closure goes unanswered only when its connection went first, or when   *)
(* its reply was too large.                                                 *)
AnsweredOnce ==
  \A r \in Requests :
    /\ answered[r] <= 1
    /\ closure[r] = "none" => answered[r] = 0
    /\ closure[r] = "deleted" /\ answered[r] = 0 /\ r \notin HugeRequests =>
         ~bev[from[r]] /\ link[from[r]] \in {"lost", "freed"}

(* sys_os_create_thread failed for r: nobody has its closure any more.      *)
Stranded(r) == closure[r] = "alive" /\ r \in EchoRequests /\ pc[r] = "unborn"

(* The client of a lost connection is freed, once the requests it had are   *)
(* over, unless the thread of one of them could not be created.             *)
ClientFreed ==
  \A k \in Conns :
    link[k] = "lost" ~>
      (memory[k] = "freed" \/ \E r \in Requests : from[r] = k /\ Stranded(r))

(* Every closure made is run and deleted (service.h: "done" will be called  *)
(* when the method is complete), unless its thread could not be created:    *)
(* no failure, lock or lost connection strands the closure of another.      *)
ClosureRuns ==
  \A r \in Requests :
    closure[r] = "alive" ~> (closure[r] = "deleted" \/ Stranded(r))
=============================================================================
