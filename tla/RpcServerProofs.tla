---------------------------- MODULE RpcServerProofs ----------------------------
(* Theorems about RpcServer, for every value of its constants.              *)
EXTENDS RpcServer, FiniteSetTheorems, SequenceTheorems, TLAPS

Replying == {"lock_reply", "add_header", "add_body", "release"}

(* event_cb has given up the last reference and not freed the client yet. *)
Dropping == pc[Loop] = "free_client" /\ cur = NULL

(* Each thread is where it can be; inside a callback the loop has a         *)
(* connection, and a closure exactly while it runs it.                      *)
Located ==
  /\ pc[Loop] \in LoopPcs \cup DonePcs
  /\ \A e \in EchoRequests : pc[e] \in EchoPcs \cup DonePcs
  /\ pc[Loop] # "poll" => at \in Conns
  /\ pc[Loop] \in Replying => cur # NULL
  /\ cur # NULL => pc[Loop] \in DonePcs

TypeInv == TypeOK /\ Located

(* A request in an input buffer came by that connection, is there once, and *)
(* has no closure yet.                                                      *)
Queued ==
  \A k \in Conns : \A i \in DOMAIN input[k] : input[k][i] # Heartbeat =>
    /\ input[k][i].req \in Requests
    /\ from[input[k][i].req] = k
    /\ closure[input[k][i].req] = "none"
    /\ \A j \in DOMAIN input[k] : input[k][j].req = input[k][i].req => j = i

(* A closure came by a connection that was accepted. *)
Opened ==
  \A r \in Requests :
    /\ closure[r] # "none" => from[r] \in Conns
    /\ from[r] \in Conns => link[from[r]] # "none"

(* The closure of a request is alive until its thread has released it. *)
Tasks ==
  \A t \in Threads :
    /\ pc[t] \in Replying \cup {"sleep"} => closure[Task(t)] = "alive"
    /\ pc[t] = "free_client" /\ Task(t) # NULL => closure[Task(t)] = "deleted"

(* What the loop's callback works on has not been freed. *)
LoopLink ==
  /\ pc[Loop] = "read" \/ cur # NULL => link[at] \in {"open", "lost"}
  /\ pc[Loop] \in {"set_bev", "drop_client", "free_bev"} \/ Dropping =>
       link[at] = "lost"

TaskInv == Queued /\ Opened /\ Tasks /\ LoopLink

CountInv == RefcntIsHolders

(* The threads about to free the client of k. *)
Freed(t) == IF Task(t) # NULL THEN Client(t) ELSE at
Freeing(k) == {t \in Threads : pc[t] = "free_client" /\ Freed(t) = k}

(* A client is there as long as it is held, and whoever gave up the last    *)
(* reference is alone in freeing it.                                        *)
MemoryInv ==
  \A k \in Conns :
    /\ Holders(k) # {} => memory[k] = "allocated"
    /\ Freeing(k) # {} => memory[k] = "allocated" /\ Holders(k) = {}
    /\ \A t, u \in Freeing(k) : t = u

(* client->bev is NULL before the bufferevent is freed, and a thread that   *)
(* sends holds client->lock and has seen it not NULL.                       *)
Sending == {"add_header", "add_body"}
Detaching == pc[Loop] \in {"drop_client", "free_bev"} \/ Dropping

BevInv ==
  /\ \A k \in Conns :
       /\ link[k] = "open" => bev[k]
       /\ bev[k] => link[k] \in {"open", "lost"} /\ ~(Detaching /\ at = k)
  /\ \A t \in Threads : pc[t] \in Sending => lock[Client(t)] = t /\ bev[Client(t)]

(* The reply of a closure is not out before its thread has sent it, and     *)
(* when the thread goes on without a reply the connection is gone or the    *)
(* reply was too large to be serialised.                                    *)
Unanswered == {"sleep", "lock_reply", "add_header", "add_body"}
Gone(k) == ~bev[k] /\ link[k] \in {"lost", "freed"}
Excused(r) == r \in HugeRequests \/ Gone(from[r])

AnswerInv ==
  /\ \A t \in Threads :
       /\ pc[t] \in Unanswered => answered[Task(t)] = 0
       /\ pc[t] = "release" /\ answered[Task(t)] = 0 =>
            Excused(Task(t))
  /\ AnsweredOnce

USE DEF clientVars, bevVars, threadVars, reqVars

-----------------------------------------------------------------------------
(* Types. *)

LEMMA ChunkTypes ==
  /\ \A r \in Requests : Header(r) \in Chunks /\ Body(r) \in Chunks
  /\ Heartbeat \in Chunks
  BY DEF Header, Body, Heartbeat, Chunks

LEMMA AppendChunk ==
  ASSUME NEW f \in [Conns -> Seq(Chunks)], NEW k, NEW x \in Chunks
  PROVE  [f EXCEPT ![k] = Append(@, x)] \in [Conns -> Seq(Chunks)]
<1>1. \A j \in Conns : Append(f[j], x) \in Seq(Chunks)
  OBVIOUS
<1> QED
  BY <1>1

LEMMA EmptyOutput ==
  ASSUME output \in [Conns -> Seq(Chunks)], NEW k
  PROVE  [output EXCEPT ![k] = <<>>] \in [Conns -> Seq(Chunks)]
<1>1. <<>> \in Seq(Chunks)
  BY EmptySeq
<1> QED
  BY <1>1

LEMMA CountUp ==
  ASSUME NEW S, NEW f \in [S -> Nat], NEW x
  PROVE  [f EXCEPT ![x] = @ + 1] \in [S -> Nat]
<1>1. \A s \in S : f[s] \in Nat /\ f[s] + 1 \in Nat
  OBVIOUS
<1> QED
  BY <1>1

LEMMA SetOne ==
  ASSUME NEW S, NEW T, NEW f \in [S -> T], NEW x, NEW y \in T
  PROVE  [f EXCEPT ![x] = y] \in [S -> T]
  OBVIOUS

LEMMA TailOf ==
  ASSUME NEW S, NEW s \in Seq(S), s # <<>>
  PROVE  /\ Head(s) \in S /\ Tail(s) \in Seq(S)
         /\ Len(s) \in Nat \ {0} /\ Len(Tail(s)) = Len(s) - 1
         /\ \A i \in DOMAIN Tail(s) : i + 1 \in DOMAIN s /\ Tail(s)[i] = s[i + 1]
         /\ 1 \in DOMAIN s /\ Head(s) = s[1]
<1>1. Len(s) \in Nat \ {0} /\ DOMAIN s = 1..Len(s)
  BY EmptySeq, LenProperties
<1>2. Tail(s) \in Seq(S) /\ Head(s) \in S /\ Len(Tail(s)) = Len(s) - 1
  BY HeadTailProperties
<1>3. DOMAIN Tail(s) = 1..(Len(s) - 1)
  BY <1>2, LenProperties
<1>4. Head(s) = s[1]
  OBVIOUS
<1> QED
  BY <1>1, <1>2, <1>3, <1>4, HeadTailProperties

LEMMA TwoTails ==
  ASSUME NEW S, NEW s \in Seq(S), Len(s) > 1
  PROVE  /\ s # <<>> /\ Tail(s) # <<>>
         /\ Tail(Tail(s)) \in Seq(S) /\ Len(Tail(Tail(s))) = Len(s) - 2
<1>1. s # <<>> /\ Len(s) \in Nat
  BY EmptySeq
<1>2. Tail(s) \in Seq(S) /\ Len(Tail(s)) = Len(s) - 1
  BY <1>1, HeadTailProperties
<1>3. Tail(s) # <<>>
  <2>1. Len(<<>>) = 0 /\ Len(Tail(s)) # 0
    BY <1>1, <1>2
  <2> QED
    BY <2>1
<1>4. /\ Tail(Tail(s)) \in Seq(S)
      /\ Len(Tail(Tail(s))) = Len(Tail(s)) - 1
  BY <1>2, <1>3, HeadTailProperties
<1> QED
  BY <1>1, <1>2, <1>3, <1>4

LEMMA TypeInit == Init => TypeInv
<1> SUFFICES ASSUME Init PROVE TypeInv
  OBVIOUS
<1>1. Located
  BY ServerAssumption
  DEF Init, Located, Threads, LoopPcs, EchoPcs, DonePcs, Replying, Requests
<1>2. /\ pc \in [Threads -> LoopPcs \cup DonePcs \cup EchoPcs]
      /\ input \in [Conns -> Seq(Chunks)] /\ output \in [Conns -> Seq(Chunks)]
  BY DEF Init, LoopPcs, EchoPcs
<1>3. TypeOK
  BY <1>2 DEF Init, TypeOK
<1> QED
  BY <1>1, <1>3 DEF TypeInv

(* The closures that are alive, and the bufferevent, keep the count up.     *)
LEMMA HoldersFinite == \A k \in Conns : IsFiniteSet(Holders(k))
<1> SUFFICES ASSUME NEW k \in Conns PROVE IsFiniteSet(Holders(k))
  OBVIOUS
<1>1. IsFiniteSet(Requests \cup {Loop})
  BY ServerAssumption, FS_AddElement
<1>2. Holders(k) \in SUBSET (Requests \cup {Loop})
  BY DEF Holders
<1> QED
  BY <1>1, <1>2, FS_Subset

LEMMA HeldIsCounted ==
  ASSUME RefcntIsHolders, NEW k \in Conns
  PROVE  /\ refcnt[k] \in Nat
         /\ refcnt[k] = 0 <=> Holders(k) = {}
  BY HoldersFinite, FS_CardinalityType, FS_EmptySet DEF RefcntIsHolders

(* A thread in a closure holds the client of that closure. *)
LEMMA TaskTypes ==
  ASSUME TypeInv, Tasks, Opened, NEW t \in Threads,
         pc[t] \in Replying \/ (pc[t] = "free_client" /\ Task(t) # NULL)
  PROVE  /\ Task(t) \in Requests /\ Client(t) \in Conns
         /\ t = Loop \/ Task(t) = t
         /\ t = Loop => Task(t) \in InlineRequests /\ cur = Task(t)
         /\ pc[t] \in Replying => Task(t) \in Holders(Client(t))
<1>1. Task(t) \in Requests /\ (t = Loop \/ Task(t) = t)
  BY DEF TypeInv, TypeOK, Located, Task, Threads, Requests
<1>2. closure[Task(t)] # "none"
  BY DEF Tasks
<1>3. Client(t) \in Conns
  BY <1>1, <1>2 DEF Opened, Client
<1> QED
  BY <1>1, <1>3 DEF TypeInv, TypeOK, Located, Task, Tasks, Holders, Client

LEMMA TasksDiffer ==
  ASSUME TypeInv, NEW t \in Threads, NEW u \in Threads,
         Task(t) # NULL, Task(t) = Task(u)
  PROVE  t = u
  BY ServerAssumption DEF TypeInv, TypeOK, Task, Threads, Requests

(* Whoever gives up a reference finds it counted. *)
LEMMA CountPositive ==
  ASSUME TypeInv, RefcntIsHolders, NEW k \in Conns, Holders(k) # {}
  PROVE  refcnt[k] - 1 \in Nat
  BY HeldIsCounted DEF TypeInv, TypeOK

LEMMA LoopHolds ==
  ASSUME TypeInv, LoopLink, pc[Loop] = "drop_client"
  PROVE  at \in Conns /\ Loop \in Holders(at)
  BY DEF TypeInv, Located, LoopLink, Holders, Attached

LEMMA TypeUnreference ==
  ASSUME TypeInv, RefcntIsHolders, NEW t \in Threads, NEW k \in Conns,
         Holders(k) # {}, NEW label, Unreference(t, k, label),
         label \in LoopPcs \cup DonePcs \cup EchoPcs
  PROVE  /\ refcnt' \in [Conns -> Nat]
         /\ pc' \in [Threads -> LoopPcs \cup DonePcs \cup EchoPcs]
         /\ pc'[t] \in {label, "free_client"}
         /\ \A u \in Threads \ {t} : pc'[u] = pc[u]
<1>1. refcnt[k] - 1 \in Nat
  BY CountPositive
<1>2. "free_client" \in DonePcs
  BY DEF DonePcs
<1> QED
  BY <1>1, <1>2 DEF Unreference, Goto, TypeInv, TypeOK

LEMMA TypeCallback ==
  ASSUME TypeInv, TaskInv, CountInv, CallbackStep
  PROVE  TypeInv'
<1> USE ServerAssumption
    DEF TypeInv, TypeOK, Located, LoopPcs, EchoPcs, DonePcs, Replying, Threads,
        Goto, TaskInv, CountInv
<1>0. Loop \in Threads /\ Loop \notin EchoRequests
  BY DEF Requests
<1>1. CASE EchoHeartbeat
  <2>1. at \in Conns /\ input[at] # <<>>
    BY <1>1 DEF EchoHeartbeat
  <2>2. Tail(input[at]) \in Seq(Chunks)
    BY <2>1, TailOf
  <2>3. output' \in [Conns -> Seq(Chunks)]
    BY <1>1, ChunkTypes, AppendChunk DEF EchoHeartbeat
  <2> QED
    BY <1>1, <2>2, <2>3 DEF EchoHeartbeat
<1>2. CASE Decode
  <2>1. at \in Conns /\ input[at] # <<>>
    BY <1>2 DEF Decode
  <2>2. Tail(input[at]) \in Seq(Chunks) /\ Head(input[at]) \in Chunks
    BY <2>1, TailOf
  <2>3. input' \in [Conns -> Seq(Chunks)]
    BY <1>2, <2>2 DEF Decode
  <2>4. refcnt' \in [Conns -> Nat]
    BY <1>2 DEF Decode, AddReference
  <2> DEFINE r == Head(input[at]).req
  <2>5. /\ closure' \in [Requests -> {"none", "alive", "deleted"}]
        /\ UNCHANGED <<memory, bev, lock, link, output, at, from, answered>>
    BY <1>2 DEF Decode
  <2>6. \/ UNCHANGED <<pc, cur>>
        \/ /\ r \in InlineRequests /\ cur' = r
           /\ pc' = [pc EXCEPT ![Loop] = "lock_reply"]
        \/ /\ r \in EchoRequests /\ cur' = cur
           /\ pc' = [pc EXCEPT ![r] = "sleep"]
    BY <1>2 DEF Decode
  <2>7. pc[Loop] = "read"
    BY <1>2 DEF Decode
  <2>8. Located' /\ cur' \in InlineRequests \cup {NULL}
    <3>1. CASE UNCHANGED <<pc, cur>>
      BY <2>5, <3>1
    <3>2. CASE r \in InlineRequests /\ cur' = r
               /\ pc' = [pc EXCEPT ![Loop] = "lock_reply"]
      BY <1>0, <2>1, <2>5, <3>2 DEF Requests
    <3>3. CASE r \in EchoRequests /\ cur' = cur
               /\ pc' = [pc EXCEPT ![r] = "sleep"]
      BY <1>0, <2>1, <2>5, <2>7, <3>3
    <3> QED
      BY <2>6, <3>1, <3>2, <3>3
  <2>9. pc' \in [Threads -> LoopPcs \cup DonePcs \cup EchoPcs]
    BY <2>6
  <2> QED
    BY <2>3, <2>4, <2>5, <2>8, <2>9
<1>3. CASE ReadEnd
  BY <1>0, <1>3 DEF ReadEnd
<1>4. CASE SetBev
  BY <1>0, <1>4 DEF SetBev, ClearBev
<1>5. CASE DropClient
  <2>1. at \in Conns /\ Holders(at) # {} /\ cur = NULL
    BY <1>5, LoopHolds DEF DropClient
  <2>2. /\ refcnt' \in [Conns -> Nat]
        /\ pc' \in [Threads -> LoopPcs \cup DonePcs \cup EchoPcs]
        /\ pc'[Loop] \in {"free_bev", "free_client"}
        /\ \A u \in Threads \ {Loop} : pc'[u] = pc[u]
    BY <1>0, <1>5, <2>1, TypeUnreference DEF DropClient
  <2> QED
    BY <1>0, <1>5, <2>1, <2>2 DEF DropClient
<1>6. CASE FreeDropped
  BY <1>0, <1>6 DEF FreeDropped, Deallocate
<1>7. CASE FreeBev
  <2>1. output' \in [Conns -> Seq(Chunks)]
    BY <1>7, EmptyOutput DEF FreeBev
  <2> QED
    BY <1>0, <1>7, <2>1 DEF FreeBev
<1> QED
  BY <1>1, <1>2, <1>3, <1>4, <1>5, <1>6, <1>7 DEF CallbackStep

LEMMA TypeDone ==
  ASSUME TypeInv, TaskInv, CountInv, NEW t \in Threads, DoneStep(t)
  PROVE  TypeInv'
<1> USE ServerAssumption
    DEF TypeInv, TypeOK, Located, LoopPcs, EchoPcs, DonePcs, Replying, Threads,
        Goto, TaskInv, CountInv
<1>0. Loop \in Threads /\ Loop \notin EchoRequests
  BY DEF Requests
<1>1. CASE LockReply(t)
  <2>1. lock' \in [Conns -> Threads \cup {NULL}]
    BY <1>1, SetOne DEF LockReply
  <2>2. /\ pc' \in [Threads -> LoopPcs \cup DonePcs \cup EchoPcs]
        /\ pc'[t] \in {"add_header", "release"}
        /\ \A u \in Threads \ {t} : pc'[u] = pc[u]
    <3>1. Goto(t, "add_header") \/ Goto(t, "release")
      BY <1>1 DEF LockReply
    <3>2. CASE Goto(t, "add_header")
      BY <3>2
    <3>3. CASE Goto(t, "release")
      BY <3>3
    <3> QED
      BY <3>1, <3>2, <3>3
  <2>3. UNCHANGED <<memory, bev, refcnt, bevVars, at, cur, reqVars>>
    BY <1>1 DEF LockReply
  <2>4. Located'
    BY <1>0, <1>1, <2>2, <2>3 DEF LockReply
  <2> QED
    BY <2>1, <2>2, <2>3, <2>4
<1>2. CASE AddHeader(t)
  <2>1. Header(Task(t)) \in Chunks
    BY <1>2, TaskTypes, ChunkTypes DEF AddHeader
  <2>2. output' \in [Conns -> Seq(Chunks)]
    BY <1>2, <2>1, AppendChunk DEF AddHeader
  <2> QED
    BY <1>0, <1>2, <2>2 DEF AddHeader
<1>3. CASE AddBody(t)
  <2>1. Task(t) \in Requests /\ Body(Task(t)) \in Chunks
    BY <1>3, TaskTypes, ChunkTypes DEF AddBody
  <2>2. output' \in [Conns -> Seq(Chunks)]
    BY <1>3, <2>1, AppendChunk DEF AddBody
  <2>3. answered' = [answered EXCEPT ![Task(t)] = @ + 1]
    BY <1>3 DEF AddBody
  <2>4. answered' \in [Requests -> Nat]
    BY <2>3, CountUp
  <2>5. lock' = [lock EXCEPT ![Client(t)] = NULL]
    BY <1>3 DEF AddBody, Unlock
  <2>6. lock' \in [Conns -> Threads \cup {NULL}]
    BY <2>5
  <2> QED
    BY <1>0, <1>3, <2>2, <2>4, <2>6 DEF AddBody
<1>4. CASE Release(t)
  <2>1. Task(t) \in Requests /\ Client(t) \in Conns /\ Holders(Client(t)) # {}
    BY <1>4, TaskTypes DEF Release
  <2>2. /\ refcnt' \in [Conns -> Nat]
        /\ pc' \in [Threads -> LoopPcs \cup DonePcs \cup EchoPcs]
        /\ pc'[t] \in {AfterDone(t), "free_client"}
        /\ \A u \in Threads \ {t} : pc'[u] = pc[u]
    BY <1>4, <2>1, TypeUnreference DEF Release, AfterDone
  <2>3. t = Loop => cur' = NULL \/ pc'[Loop] = "free_client"
    BY <1>0, <1>4 DEF Release, Leave, Unreference
  <2>4. /\ UNCHANGED <<memory, bev, lock, bevVars, at, from, answered>>
        /\ closure' \in [Requests -> {"none", "alive", "deleted"}]
        /\ cur' \in {cur, NULL} /\ (t # Loop => cur' = cur)
        /\ pc[t] = "release"
    BY <1>4 DEF Release, Leave
  <2>5. CASE t = Loop
    <3>1. Located'
      BY ZenonT(40), <1>0, <2>2, <2>3, <2>4, <2>5 DEF AfterDone
    <3> QED
      BY <2>2, <2>4, <3>1
  <2>6. CASE t # Loop
    <3>1. pc'[Loop] = pc[Loop] /\ pc'[t] \in {"exited", "free_client"}
      BY <1>0, <2>2, <2>6 DEF AfterDone
    <3>2. Located'
      BY <1>0, <2>2, <2>4, <2>6, <3>1
    <3> QED
      BY <2>2, <2>4, <3>2
  <2> QED
    BY <2>5, <2>6
<1>5. CASE FreeReleased(t)
  <2>1. Client(t) \in Conns
    BY <1>5, TaskTypes DEF FreeReleased
  <2> QED
    BY ZenonT(40), <1>0, <1>5 DEF FreeReleased, Deallocate, Leave, AfterDone
<1>6. CASE SerializeFails(t)
  <2>1. /\ pc' \in [Threads -> LoopPcs \cup DonePcs \cup EchoPcs]
        /\ pc'[t] = "release" /\ \A u \in Threads \ {t} : pc'[u] = pc[u]
    BY <1>6 DEF SerializeFails
  <2>2. UNCHANGED <<clientVars, bevVars, at, cur, reqVars>> /\ pc[t] = "lock_reply"
    BY <1>6 DEF SerializeFails
  <2>3. Located'
    BY <1>0, <2>1, <2>2
  <2> QED
    BY <2>1, <2>2, <2>3
<1> QED
  BY <1>1, <1>2, <1>3, <1>4, <1>5, <1>6 DEF DoneStep

LEMMA TypeEnvironment ==
  ASSUME TypeInv, Environment
  PROVE  TypeInv'
<1> USE DEF TypeInv, TypeOK, Located
<1>1. ASSUME NEW k \in Conns, PeerHeartbeat(k) PROVE TypeInv'
  BY <1>1, ChunkTypes, AppendChunk DEF PeerHeartbeat
<1>2. ASSUME NEW k \in Conns, PeerReceive(k) PROVE TypeInv'
  <2>1. output[k] # <<>> => Tail(output[k]) \in Seq(Chunks)
    BY TailOf
  <2>2. Len(output[k]) > 1 => Tail(Tail(output[k])) \in Seq(Chunks)
    BY TwoTails
  <2>3. output' \in [Conns -> Seq(Chunks)]
    BY <1>2, <2>1, <2>2 DEF PeerReceive
  <2> QED
    BY <1>2, <2>3 DEF PeerReceive
<1>3. ASSUME NEW k \in Conns, ConnectionLost(k) PROVE TypeInv'
  BY <1>3 DEF ConnectionLost
<1>4. ASSUME NEW k \in Conns, NEW r \in Requests, PeerSend(k, r) PROVE TypeInv'
  BY <1>4, ChunkTypes, AppendChunk DEF PeerSend
<1> QED
  BY <1>1, <1>2, <1>3, <1>4 DEF Environment

LEMMA TypeNext ==
  ASSUME TypeInv, TaskInv, CountInv, [Next]_vars
  PROVE  TypeInv'
<1> USE ServerAssumption
    DEF TypeInv, TypeOK, Located, LoopPcs, EchoPcs, DonePcs, Replying, Threads,
        Goto
<1>0. Loop \in Threads /\ Loop \notin EchoRequests
  BY DEF Requests
<1>1. ASSUME NEW k \in Conns, AcceptSocketCb(k) PROVE TypeInv'
  <2>1. /\ memory' \in [Conns -> {"none", "allocated", "freed"}]
        /\ link' \in [Conns -> {"none", "open", "lost", "freed"}]
    BY <1>1, SetOne DEF AcceptSocketCb
  <2>3. bev' \in [Conns -> BOOLEAN]
    BY <1>1, SetOne DEF AcceptSocketCb
  <2>2. refcnt' \in [Conns -> Nat]
    BY <1>1, SetOne DEF AcceptSocketCb
  <2> QED
    BY <1>1, <2>1, <2>2, <2>3 DEF AcceptSocketCb
<1>2. ASSUME NEW k \in Conns, ReadCb(k) PROVE TypeInv'
  BY <1>0, <1>2 DEF ReadCb
<1>3. ASSUME NEW k \in Conns, EventCb(k) PROVE TypeInv'
  BY <1>0, <1>3 DEF EventCb
<1>4. ASSUME NEW t \in Threads, EchoWorker(t) PROVE TypeInv'
  BY <1>0, <1>4 DEF EchoWorker
<1>5. CASE UNCHANGED vars
  BY <1>5 DEF vars
<1> QED
  BY <1>1, <1>2, <1>3, <1>4, <1>5, TypeCallback, TypeDone, TypeEnvironment
  DEF Next

-----------------------------------------------------------------------------
(* Requests, their closures and where the loop is.                          *)

LEMMA AppendOf ==
  ASSUME NEW S, NEW s \in Seq(S), NEW x \in S
  PROVE  /\ Len(s) + 1 \in DOMAIN Append(s, x) /\ Append(s, x)[Len(s) + 1] = x
         /\ Len(s) + 1 \notin DOMAIN s
         /\ \A i \in DOMAIN Append(s, x) :
              i # Len(s) + 1 => i \in DOMAIN s /\ Append(s, x)[i] = s[i]
<1>1. /\ Append(s, x) \in Seq(S) /\ Len(Append(s, x)) = Len(s) + 1
      /\ \A i \in 1..Len(s) : Append(s, x)[i] = s[i]
      /\ Append(s, x)[Len(s) + 1] = x
  BY AppendProperties
<1>2. DOMAIN s = 1..Len(s) /\ Len(s) \in Nat
  BY LenProperties
<1>3. DOMAIN Append(s, x) = 1..(Len(s) + 1)
  BY <1>1, LenProperties
<1> QED
  BY <1>1, <1>2, <1>3

LEMMA QueuedTail ==
  ASSUME TypeInv, Queued, NEW k \in Conns, input[k] # <<>>,
         input' = [input EXCEPT ![k] = Tail(@)], UNCHANGED from,
         \A r \in Requests : closure[r] = "none" =>
           closure'[r] = "none" \/ r = Head(input[k]).req
  PROVE  Queued'
<1> SUFFICES ASSUME NEW j \in Conns, NEW i \in DOMAIN input'[j],
                    input'[j][i] # Heartbeat
             PROVE  /\ input'[j][i].req \in Requests
                    /\ from[input'[j][i].req] = j
                    /\ closure'[input'[j][i].req] = "none"
                    /\ \A n \in DOMAIN input'[j] :
                         input'[j][n].req = input'[j][i].req => n = i
  BY DEF Queued
<1>0. input[k] \in Seq(Chunks) /\ input \in [Conns -> Seq(Chunks)]
  BY DEF TypeInv, TypeOK
<1>1. CASE j = k
  <2>1. input'[j] = Tail(input[k])
    BY <1>0, <1>1
  <2>2. /\ \A n \in DOMAIN Tail(input[k]) :
             n + 1 \in DOMAIN input[k] /\ Tail(input[k])[n] = input[k][n + 1]
        /\ 1 \in DOMAIN input[k] /\ Head(input[k]) = input[k][1]
    BY <1>0, TailOf
  <2>3. DOMAIN Tail(input[k]) \subseteq Nat \ {0}
    <3>1. Tail(input[k]) \in Seq(Chunks)
      BY <1>0, TailOf
    <3> QED
      BY <3>1, LenProperties
  <2>4. /\ i + 1 \in DOMAIN input[k] /\ input'[j][i] = input[k][i + 1]
        /\ i \in Nat \ {0}
    BY <2>1, <2>2, <2>3
  <2>5. /\ input'[j][i].req \in Requests /\ from[input'[j][i].req] = j
        /\ closure[input'[j][i].req] = "none"
        /\ \A n \in DOMAIN input[k] :
             input[k][n].req = input'[j][i].req => n = i + 1
    BY <1>1, <2>4 DEF Queued
  <2>6. input'[j][i].req # Head(input[k]).req
    <3>1. 1 # i + 1
      BY <2>4
    <3> QED
      BY <2>2, <2>5, <3>1
  <2>7. \A n \in DOMAIN input'[j] : input'[j][n].req = input'[j][i].req => n = i
    <3> SUFFICES ASSUME NEW n \in DOMAIN input'[j],
                        input'[j][n].req = input'[j][i].req
                 PROVE  n = i
      OBVIOUS
    <3>1. n + 1 \in DOMAIN input[k] /\ input'[j][n] = input[k][n + 1]
      BY <2>1, <2>2
    <3>2. n + 1 = i + 1 /\ n \in Nat
      BY <2>1, <2>3, <2>5, <3>1
    <3> QED
      BY <2>4, <3>2
  <2> QED
    BY <2>5, <2>6, <2>7
<1>2. CASE j # k
  <2>1. input'[j] = input[j]
    BY <1>0, <1>2
  <2>2. /\ input[j][i].req \in Requests /\ from[input[j][i].req] = j
        /\ closure[input[j][i].req] = "none"
        /\ \A n \in DOMAIN input[j] : input[j][n].req = input[j][i].req => n = i
    <3>1. i \in DOMAIN input[j] /\ input[j][i] # Heartbeat
      BY <2>1
    <3> QED
      BY <3>1 DEF Queued
  <2>3. Head(input[k]).req # input[j][i].req
    <3>1. CASE input[k][1] = Heartbeat
      BY <1>0, <2>2, <3>1, TailOf, ServerAssumption DEF Heartbeat
    <3>2. CASE input[k][1] # Heartbeat
      <4>1. from[input[k][1].req] = k /\ Head(input[k]) = input[k][1]
        BY <1>0, <3>2, TailOf DEF Queued
      <4> QED
        BY <1>2, <2>2, <4>1
    <3> QED
      BY <3>1, <3>2
  <2> QED
    BY <2>1, <2>2, <2>3
<1> QED
  BY <1>1, <1>2

LEMMA QueuedAppend ==
  ASSUME TypeInv, Queued, NEW k \in Conns, NEW x \in Chunks,
         input' = [input EXCEPT ![k] = Append(@, x)], UNCHANGED closure,
         \/ x = Heartbeat /\ UNCHANGED from
         \/ \E r \in Requests : /\ x = Body(r) /\ from[r] = NULL
                                /\ closure[r] = "none"
                                /\ from' = [from EXCEPT ![r] = k]
  PROVE  Queued'
<1> SUFFICES ASSUME NEW j \in Conns, NEW i \in DOMAIN input'[j],
                    input'[j][i] # Heartbeat
             PROVE  /\ input'[j][i].req \in Requests
                    /\ from'[input'[j][i].req] = j
                    /\ closure[input'[j][i].req] = "none"
                    /\ \A n \in DOMAIN input'[j] :
                         input'[j][n].req = input'[j][i].req => n = i
  BY DEF Queued
<1>0. /\ input[k] \in Seq(Chunks) /\ input \in [Conns -> Seq(Chunks)]
      /\ from \in [Requests -> Conns \cup {NULL}]
  BY DEF TypeInv, TypeOK
<1>1. /\ x = Heartbeat => x.req = NULL /\ UNCHANGED from
      /\ x # Heartbeat => /\ x.req \in Requests /\ from[x.req] = NULL
                          /\ closure[x.req] = "none" /\ from'[x.req] = k
                          /\ \A r \in Requests \ {x.req} : from'[r] = from[r]
  BY <1>0 DEF Heartbeat, Body
<1>2. NULL \notin Requests /\ NULL \notin Conns
  BY ServerAssumption
<1> DEFINE last == Len(input[k]) + 1
<1>3. /\ last \notin DOMAIN input[k] /\ last \in DOMAIN Append(input[k], x)
      /\ Append(input[k], x)[last] = x
      /\ \A n \in DOMAIN Append(input[k], x) : n # last =>
           n \in DOMAIN input[k] /\ Append(input[k], x)[n] = input[k][n]
  BY <1>0, AppendOf
<1>4. input'[k] = Append(input[k], x) /\ \A n \in Conns \ {k} : input'[n] = input[n]
  BY <1>0
<1> HIDE DEF last
(* What was in a buffer before is not the new request. *)
<1>5. ASSUME NEW n \in DOMAIN input[j], input[j][n] # Heartbeat
      PROVE  /\ input[j][n].req \in Requests /\ from'[input[j][n].req] = j
             /\ closure[input[j][n].req] = "none" /\ input[j][n].req # x.req
             /\ \A m \in DOMAIN input[j] :
                  input[j][m].req = input[j][n].req => m = n
  <2>1. /\ input[j][n].req \in Requests /\ from[input[j][n].req] = j
        /\ closure[input[j][n].req] = "none"
        /\ \A m \in DOMAIN input[j] : input[j][m].req = input[j][n].req => m = n
    BY <1>5 DEF Queued
  <2> QED
    BY <1>1, <1>2, <2>1
<1>6. CASE j = k /\ i = last
  <2>1. input'[j][i] = x /\ x # Heartbeat
    BY <1>3, <1>4, <1>6
  <2>2. ASSUME NEW n \in DOMAIN input'[j], n # last PROVE input'[j][n].req # x.req
    <3>1. n \in DOMAIN input[j] /\ input'[j][n] = input[j][n]
      BY <1>3, <1>4, <1>6, <2>2
    <3>2. input[j][n] = Heartbeat => input[j][n].req = NULL
      BY DEF Heartbeat
    <3> QED
      BY <1>1, <1>2, <1>5, <2>1, <3>1, <3>2
  <2> QED
    BY <1>1, <1>6, <2>1, <2>2
<1>7. CASE j = k /\ i # last
  <2>1. i \in DOMAIN input[j] /\ input'[j][i] = input[j][i]
    BY <1>3, <1>4, <1>7
  <2>2. \A n \in DOMAIN input'[j] :
          n # last => n \in DOMAIN input[j] /\ input'[j][n] = input[j][n]
    BY <1>3, <1>4, <1>7
  <2>3. input'[j][last] = x
    BY <1>3, <1>4, <1>7
  <2> QED
    BY <1>5, <2>1, <2>2, <2>3
<1>8. CASE j # k
  BY <1>4, <1>5, <1>8
<1> QED
  BY <1>6, <1>7, <1>8

LEMMA TaskInit == Init => TaskInv
<1> SUFFICES ASSUME Init PROVE TaskInv
  OBVIOUS
<1>1. Queued
  BY DEF Init, Queued
<1>2. Opened /\ Tasks
  BY ServerAssumption DEF Init, Opened, Tasks, Replying, Threads, Task
<1>3. LoopLink
  BY DEF Init, LoopLink, Dropping, Threads
<1> QED
  BY <1>1, <1>2, <1>3 DEF TaskInv

LEMMA QueuedKept ==
  ASSUME Queued, UNCHANGED <<input, from, closure>>
  PROVE  Queued'
  BY DEF Queued

LEMMA OpenedKept ==
  ASSUME TypeInv, Opened, UNCHANGED <<from, closure>>,
         \A k \in Conns : link[k] # "none" => link'[k] # "none"
  PROVE  Opened'
  BY DEF Opened, TypeInv, TypeOK

LEMMA TasksKept ==
  ASSUME Tasks, UNCHANGED <<cur, closure>>,
         \A t \in Threads :
           /\ pc'[t] \in Replying \cup {"sleep"} => pc[t] \in Replying \cup {"sleep"}
           /\ pc'[t] = "free_client" => pc[t] = "free_client" \/ Task(t) = NULL
  PROVE  Tasks'
  BY DEF Tasks, Task

LEMMA BusyTask ==
  ASSUME TypeInv, NEW t \in Threads,
         pc[t] \in Replying \cup {"sleep"} \/
           (pc[t] = "free_client" /\ Task(t) # NULL)
  PROVE  Task(t) \in Requests /\ (t = Loop => cur # NULL)
  BY DEF TypeInv, TypeOK, Located, Task, Threads, Requests, LoopPcs, DonePcs,
         Replying

LEMMA TasksDecode ==
  ASSUME TypeInv, Tasks, NEW r \in Requests, closure[r] = "none", cur = NULL,
         \/ UNCHANGED <<pc, cur, closure>>
         \/ closure' = [closure EXCEPT ![r] = "alive"],
         \/ UNCHANGED <<pc, cur>>
         \/ /\ r \in InlineRequests /\ cur' = r
            /\ pc' = [pc EXCEPT ![Loop] = "lock_reply"]
            /\ closure' = [closure EXCEPT ![r] = "alive"]
         \/ /\ r \in EchoRequests /\ cur' = cur
            /\ pc' = [pc EXCEPT ![r] = "sleep"]
            /\ closure' = [closure EXCEPT ![r] = "alive"]
  PROVE  Tasks'
<1>1. ASSUME NEW t \in Threads,
             pc[t] \in Replying \cup {"sleep"} \/
               (pc[t] = "free_client" /\ Task(t) # NULL)
      PROVE  closure'[Task(t)] = closure[Task(t)] /\ t # Loop
  <2>1. closure[Task(t)] # "none" /\ Task(t) \in Requests /\ t # Loop
    BY <1>1, BusyTask DEF Tasks
  <2> QED
    BY <2>1 DEF TypeInv, TypeOK
<1>2. pc \in [Threads -> LoopPcs \cup DonePcs \cup EchoPcs] /\ Loop \in Threads
      /\ closure \in [Requests -> {"none", "alive", "deleted"}]
  BY DEF TypeInv, TypeOK, Threads
<1>3. CASE UNCHANGED <<pc, cur>>
  BY <1>1, <1>3 DEF Tasks, Task
<1>4. CASE /\ r \in InlineRequests /\ cur' = r
           /\ pc' = [pc EXCEPT ![Loop] = "lock_reply"]
           /\ closure' = [closure EXCEPT ![r] = "alive"]
  <2>1. pc'[Loop] = "lock_reply" /\ Task(Loop)' = r /\ closure'[r] = "alive"
    BY <1>2, <1>4 DEF Task
  <2>2. \A t \in Threads : t # Loop => pc'[t] = pc[t] /\ Task(t)' = Task(t)
    BY <1>2, <1>4 DEF Task
  <2> QED
    BY <1>1, <2>1, <2>2 DEF Tasks
<1>5. CASE /\ r \in EchoRequests /\ cur' = cur
           /\ pc' = [pc EXCEPT ![r] = "sleep"]
           /\ closure' = [closure EXCEPT ![r] = "alive"]
  <2>1. pc'[r] = "sleep" /\ Task(r)' = r /\ closure'[r] = "alive" /\ r # Loop
    BY <1>2, <1>5, ServerAssumption DEF Task, Threads
  <2>2. \A t \in Threads : t # r => pc'[t] = pc[t] /\ Task(t)' = Task(t)
    BY <1>2, <1>5 DEF Task
  <2>3. "sleep" # "free_client"
    OBVIOUS
  <2> QED
    BY <1>1, <2>1, <2>2, <2>3 DEF Tasks
<1> QED
  BY <1>3, <1>4, <1>5

LEMMA TaskCallback ==
  ASSUME TypeInv, TaskInv, CallbackStep
  PROVE  TaskInv'
<1> USE ServerAssumption
    DEF TypeInv, TypeOK, Located, LoopPcs, EchoPcs, DonePcs, Replying, Threads,
        Goto, TaskInv, LoopLink, Dropping, Task
<1>0. Loop \in Threads /\ Loop \notin EchoRequests /\ NULL \notin Requests
  BY DEF Requests
<1>1. CASE EchoHeartbeat
  <2>1. Queued'
    <3>1. at \in Conns /\ input' = [input EXCEPT ![at] = Tail(@)]
      BY <1>1 DEF EchoHeartbeat
    <3> QED
      BY <1>1, <3>1, QueuedTail DEF EchoHeartbeat
  <2> QED
    BY <1>1, <2>1, OpenedKept, TasksKept DEF EchoHeartbeat
<1>2. CASE Decode
  <2> DEFINE r == Head(input[at]).req
  <2>1. /\ at \in Conns /\ input[at] # <<>> /\ Head(input[at]) # Heartbeat
        /\ input' = [input EXCEPT ![at] = Tail(@)]
        /\ pc[Loop] = "read" /\ cur = NULL
        /\ UNCHANGED <<link, at, from>>
    BY <1>2 DEF Decode
  <2>2. r \in Requests /\ from[r] = at /\ closure[r] = "none"
    BY <2>1, TailOf DEF Queued
  <2>3. \/ UNCHANGED <<pc, cur, closure>>
        \/ closure' = [closure EXCEPT ![r] = "alive"]
    BY <1>2 DEF Decode
  <2>4. \/ UNCHANGED <<pc, cur>>
        \/ /\ r \in InlineRequests /\ cur' = r
           /\ pc' = [pc EXCEPT ![Loop] = "lock_reply"]
           /\ closure' = [closure EXCEPT ![r] = "alive"]
        \/ /\ r \in EchoRequests /\ cur' = cur
           /\ pc' = [pc EXCEPT ![r] = "sleep"]
           /\ closure' = [closure EXCEPT ![r] = "alive"]
    BY <1>2 DEF Decode
  <2>5. Queued'
    BY ZenonT(40), <2>1, <2>3, QueuedTail
  <2>6. Opened'
    BY <2>1, <2>2, <2>3 DEF Opened
  <2>7. Tasks'
    BY <2>1, <2>2, <2>3, <2>4, TasksDecode
  <2>8. LoopLink'
    <3>1. pc'[Loop] \in {"read", "lock_reply"}
      BY <1>0, <2>1, <2>4
    <3> QED
      BY <2>1, <3>1
  <2> QED
    BY <2>5, <2>6, <2>7, <2>8
<1>3. CASE ReadEnd
  BY <1>0, <1>3, QueuedKept, OpenedKept, TasksKept DEF ReadEnd
<1>4. CASE SetBev
  BY <1>0, <1>4, QueuedKept, OpenedKept, TasksKept DEF SetBev
<1>5. CASE DropClient
  BY <1>0, <1>5, QueuedKept, OpenedKept, TasksKept DEF DropClient, Unreference
<1>6. CASE FreeDropped
  BY <1>0, <1>6, QueuedKept, OpenedKept, TasksKept DEF FreeDropped
<1>7. CASE FreeBev
  <2>1. Opened'
    BY <1>7, OpenedKept DEF FreeBev
  <2> QED
    BY <1>0, <1>7, <2>1, QueuedKept, TasksKept DEF FreeBev
<1> QED
  BY <1>1, <1>2, <1>3, <1>4, <1>5, <1>6, <1>7 DEF CallbackStep

LEMMA TaskDone ==
  ASSUME TypeInv, TaskInv, NEW t \in Threads, DoneStep(t)
  PROVE  TaskInv'
<1> USE DEF TaskInv, Goto
<1>0. /\ Loop \in Threads /\ NULL \notin Requests
      /\ pc \in [Threads -> LoopPcs \cup DonePcs \cup EchoPcs]
      /\ closure \in [Requests -> {"none", "alive", "deleted"}]
  BY ServerAssumption DEF TypeInv, TypeOK, Threads
<1>1. CASE SerializeFails(t) \/ LockReply(t) \/ AddHeader(t) \/ AddBody(t)
  <2>1. /\ UNCHANGED <<from, closure, link, input, at, cur>>
        /\ pc[t] \in {"lock_reply", "add_header", "add_body"}
        /\ pc'[t] \in Replying
        /\ \A u \in Threads \ {t} : pc'[u] = pc[u]
    BY <1>0, <1>1 DEF SerializeFails, LockReply, AddHeader, AddBody, Replying
  <2>2. Queued' /\ Opened'
    BY <2>1, QueuedKept, OpenedKept
  <2>3. Tasks'
    BY <2>1, TasksKept DEF Replying
  <2>4. LoopLink'
    BY <1>0, <2>1 DEF LoopLink, Dropping, TypeInv, Located, Replying
  <2> QED
    BY <2>2, <2>3, <2>4
<1>2. CASE Release(t)
  <2>1. /\ pc[t] = "release" /\ Task(t) \in Requests
        /\ closure[Task(t)] = "alive"
        /\ closure' = [closure EXCEPT ![Task(t)] = "deleted"]
        /\ UNCHANGED <<from, link, input, at>>
        /\ pc'[t] \in {AfterDone(t), "free_client"}
        /\ \A u \in Threads \ {t} : pc'[u] = pc[u]
    BY <1>0, <1>2, BusyTask DEF Release, Unreference, Tasks, Replying
  <2>2. /\ t = Loop /\ pc'[Loop] = "read" => cur' = NULL
        /\ t = Loop /\ pc'[Loop] = "free_client" => cur' = cur
        /\ t # Loop => cur' = cur
    BY <1>0, <1>2 DEF Release, Unreference, Leave, AfterDone
  <2>3. Queued'
    BY <2>1 DEF Queued
  <2>4. Opened'
    BY <1>0, <2>1 DEF Opened
  <2>5. Tasks'
    <3>1. ASSUME NEW u \in Threads, u # t,
                 pc[u] \in Replying \cup {"sleep"} \/
                   (pc[u] = "free_client" /\ Task(u) # NULL)
          PROVE  closure'[Task(u)] = closure[Task(u)]
      <4>1. Task(u) \in Requests /\ Task(u) # Task(t)
        BY <1>0, <2>1, <3>1, BusyTask, TasksDiffer
      <4> QED
        BY <1>0, <2>1, <4>1
    <3>2. \A u \in Threads : u # t => Task(u)' = Task(u) /\ pc'[u] = pc[u]
      BY <2>1, <2>2 DEF Task
    <3>3. pc'[t] \notin Replying \cup {"sleep"}
      BY <2>1 DEF AfterDone, Replying
    <3>4. pc'[t] = "free_client" => closure'[Task(t)'] = "deleted"
      BY <1>0, <2>1, <2>2 DEF Task
    <3> QED
      BY <3>1, <3>2, <3>3, <3>4 DEF Tasks
  <2>6. LoopLink'
    <3>1. CASE t = Loop
      BY <1>0, <2>1, <2>2, <3>1
      DEF LoopLink, Dropping, TypeInv, Located, Replying, AfterDone
    <3>2. CASE t # Loop
      BY <1>0, <2>1, <2>2, <3>2 DEF LoopLink, Dropping
    <3> QED
      BY <3>1, <3>2
  <2> QED
    BY <2>3, <2>4, <2>5, <2>6
<1>3. CASE FreeReleased(t)
  <2>1. /\ pc[t] = "free_client" /\ Task(t) # NULL
        /\ UNCHANGED <<from, closure, link, input, at>>
        /\ pc'[t] = AfterDone(t)
        /\ \A u \in Threads \ {t} : pc'[u] = pc[u]
        /\ cur' = IF t = Loop THEN NULL ELSE cur
    BY <1>0, <1>3 DEF FreeReleased, Leave
  <2>2. Queued' /\ Opened'
    BY <2>1, QueuedKept, OpenedKept
  <2>3. Tasks'
    <3>1. \A u \in Threads : u # t => Task(u)' = Task(u) /\ pc'[u] = pc[u]
      BY <2>1 DEF Task
    <3>2. pc'[t] \notin Replying \cup {"sleep", "free_client"}
      BY <2>1 DEF AfterDone, Replying
    <3> QED
      BY <2>1, <3>1, <3>2 DEF Tasks
  <2>4. LoopLink'
    <3>1. CASE t = Loop
      BY <1>0, <2>1, <3>1 DEF LoopLink, Dropping, AfterDone, Task
    <3>2. CASE t # Loop
      BY <1>0, <2>1, <3>2 DEF LoopLink, Dropping
    <3> QED
      BY <3>1, <3>2
  <2> QED
    BY <2>2, <2>3, <2>4
<1> QED
  BY <1>1, <1>2, <1>3 DEF DoneStep

LEMMA TaskNext ==
  ASSUME TypeInv, TaskInv, [Next]_vars
  PROVE  TaskInv'
<1> USE DEF TaskInv
<1>0. /\ Loop \in Threads /\ Loop \notin EchoRequests
      /\ NULL \notin Requests \cup Conns
      /\ pc \in [Threads -> LoopPcs \cup DonePcs \cup EchoPcs]
      /\ link \in [Conns -> {"none", "open", "lost", "freed"}]
      /\ from \in [Requests -> Conns \cup {NULL}]
      /\ closure \in [Requests -> {"none", "alive", "deleted"}]
  BY ServerAssumption DEF TypeInv, TypeOK, Threads, Requests
<1>1. pc[Loop] = "poll" => cur = NULL
  BY DEF TypeInv, Located, DonePcs
<1>2. ASSUME NEW k \in Conns, AcceptSocketCb(k) PROVE TaskInv'
  <2>1. /\ UNCHANGED <<input, from, closure, pc, at, cur>> /\ pc[Loop] = "poll"
        /\ \A j \in Conns : link[j] # "none" => link'[j] = link[j]
    BY <1>0, <1>2 DEF AcceptSocketCb
  <2>2. LoopLink'
    BY <1>1, <2>1 DEF LoopLink, Dropping
  <2> QED
    BY <2>1, <2>2, QueuedKept, OpenedKept, TasksKept
<1>3. ASSUME NEW k \in Conns, ReadCb(k) \/ EventCb(k) PROVE TaskInv'
  <2>1. /\ UNCHANGED <<input, from, closure, cur, link>> /\ pc[Loop] = "poll"
        /\ at' = k
        /\ \/ pc' = [pc EXCEPT ![Loop] = "read"] /\ link[k] \in {"open", "lost"}
           \/ pc' = [pc EXCEPT ![Loop] = "set_bev"] /\ link[k] = "lost"
    BY <1>3 DEF ReadCb, EventCb, Goto
  <2>2. LoopLink'
    BY <1>0, <1>1, <2>1 DEF LoopLink, Dropping
  <2>3. Tasks'
    BY <1>0, <2>1, TasksKept DEF Replying
  <2> QED
    BY <2>1, <2>2, <2>3, QueuedKept, OpenedKept
<1>4. ASSUME NEW t \in Threads, EchoWorker(t) PROVE TaskInv'
  <2>1. /\ UNCHANGED <<input, from, closure, cur, link, at>> /\ t # Loop
        /\ pc[t] = "sleep" /\ pc' = [pc EXCEPT ![t] = "lock_reply"]
    BY <1>4 DEF EchoWorker, Goto
  <2>2. LoopLink'
    BY <1>0, <2>1 DEF LoopLink, Dropping
  <2>3. Tasks'
    BY <1>0, <2>1, TasksKept DEF Replying
  <2> QED
    BY <2>1, <2>2, <2>3, QueuedKept, OpenedKept
<1>5. ASSUME NEW k \in Conns, PeerHeartbeat(k) PROVE TaskInv'
  <2>1. Queued'
    BY <1>5, ChunkTypes, QueuedAppend DEF PeerHeartbeat
  <2> QED
    BY <1>5, <2>1, OpenedKept, TasksKept DEF PeerHeartbeat, LoopLink, Dropping
<1>6. ASSUME NEW k \in Conns, NEW r \in Requests, PeerSend(k, r) PROVE TaskInv'
  <2>1. closure[r] = "none"
    BY <1>0, <1>6 DEF PeerSend, Opened
  <2>2. Queued'
    <3>1. /\ input' = [input EXCEPT ![k] = Append(@, Body(r))]
          /\ UNCHANGED closure /\ from[r] = NULL
          /\ from' = [from EXCEPT ![r] = k]
      BY <1>6 DEF PeerSend
    <3> QED
      BY <2>1, <3>1, ChunkTypes, QueuedAppend
  <2>3. Opened'
    BY <1>0, <1>6, <2>1 DEF PeerSend, Opened
  <2> QED
    BY <1>6, <2>2, <2>3, TasksKept DEF PeerSend, LoopLink, Dropping
<1>7. ASSUME NEW k \in Conns, PeerReceive(k) PROVE TaskInv'
  BY <1>7, QueuedKept, OpenedKept, TasksKept DEF PeerReceive, LoopLink, Dropping
<1>8. ASSUME NEW k \in Conns, ConnectionLost(k) PROVE TaskInv'
  <2>1. /\ UNCHANGED <<input, from, closure, pc, at, cur>>
        /\ link[k] = "open" /\ link' = [link EXCEPT ![k] = "lost"]
    BY <1>8 DEF ConnectionLost
  <2>2. LoopLink'
    BY <1>0, <2>1 DEF LoopLink, Dropping
  <2> QED
    BY <1>0, <2>1, <2>2, QueuedKept, OpenedKept, TasksKept
<1>9. CASE UNCHANGED vars
  BY <1>9, QueuedKept, OpenedKept, TasksKept DEF vars, LoopLink, Dropping
<1> QED
  BY <1>2, <1>3, <1>4, <1>5, <1>6, <1>7, <1>8, <1>9, TaskCallback, TaskDone
  DEF Next, Environment

-----------------------------------------------------------------------------
(* References.  A step leaves every holder as it is, or adds or removes one *)
(* and counts it.                                                           *)

Kept == UNCHANGED refcnt /\ \A k \in Conns : Holders(k)' = Holders(k)

Gained(k, h) ==
  /\ h \notin Holders(k)
  /\ Holders(k)' = Holders(k) \cup {h}
  /\ refcnt' = [refcnt EXCEPT ![k] = @ + 1]
  /\ \A j \in Conns \ {k} : Holders(j)' = Holders(j)

Lost(k, h) ==
  /\ h \in Holders(k)
  /\ Holders(k)' = Holders(k) \ {h}
  /\ refcnt' = [refcnt EXCEPT ![k] = @ - 1]
  /\ \A j \in Conns \ {k} : Holders(j)' = Holders(j)

Accepted(k) ==
  /\ link[k] = "none" /\ Holders(k) = {} /\ Holders(k)' = {Loop}
  /\ refcnt' = [refcnt EXCEPT ![k] = 1]
  /\ \A j \in Conns \ {k} : Holders(j)' = Holders(j)

LEMMA HoldersKept ==
  ASSUME UNCHANGED <<from, closure, refcnt>>,
         \A k \in Conns : Attached(k)' <=> Attached(k)
  PROVE  Kept
  BY DEF Kept, Holders

LEMMA AcceptHolders ==
  ASSUME TypeInv, TaskInv, NEW k \in Conns, AcceptSocketCb(k)
  PROVE  Kept \/ (Accepted(k) /\ memory' = [memory EXCEPT ![k] = "allocated"])
<1>1. /\ UNCHANGED <<from, closure, pc, at, cur>> /\ pc[Loop] = "poll"
      /\ link[k] = "none" /\ link \in [Conns -> {"none", "open", "lost", "freed"}]
  BY DEF AcceptSocketCb, TypeInv, TypeOK
<1>2. \A j \in Conns : Attached(j) <=> link[j] \in {"open", "lost"}
  BY <1>1 DEF Attached
<1>3. \A j \in Conns : Attached(j)' <=> link'[j] \in {"open", "lost"}
  BY <1>1 DEF Attached
<1>4. \A r \in Requests : ~(closure[r] = "alive" /\ from[r] = k)
  BY <1>1 DEF TaskInv, Opened
<1>5. CASE link' = [link EXCEPT ![k] = "freed"] /\ UNCHANGED refcnt
  BY <1>1, <1>2, <1>3, <1>5, HoldersKept
<1>6. CASE link' = [link EXCEPT ![k] = "open"]
           /\ refcnt' = [refcnt EXCEPT ![k] = 1]
           /\ memory' = [memory EXCEPT ![k] = "allocated"]
  <2>1. ~Attached(k) /\ Attached(k)'
        /\ \A j \in Conns \ {k} : Attached(j)' <=> Attached(j)
    BY <1>1, <1>2, <1>3, <1>6
  <2>2. Holders(k) = {} /\ Holders(k)' = {Loop}
    BY <1>1, <1>4, <2>1 DEF Holders
  <2>3. \A j \in Conns \ {k} : Holders(j)' = Holders(j)
    BY <1>1, <2>1 DEF Holders
  <2> QED
    BY <1>1, <1>6, <2>2, <2>3 DEF Accepted
<1> QED
  BY <1>5, <1>6 DEF AcceptSocketCb

LEMMA DecodeHolders ==
  ASSUME TypeInv, TaskInv, Decode
  PROVE  \/ Kept
         \/ at \in Conns /\ Loop \in Holders(at)
            /\ \E r \in Requests : Gained(at, r)
<1> DEFINE r == Head(input[at]).req
<1>1. /\ at \in Conns /\ input[at] # <<>> /\ Head(input[at]) # Heartbeat
      /\ pc[Loop] = "read" /\ cur = NULL
      /\ UNCHANGED <<link, at, from>>
      /\ pc'[Loop] \in {"read", "lock_reply"}
  <2>1. Loop \in Threads /\ Loop \notin EchoRequests
        /\ pc \in [Threads -> LoopPcs \cup DonePcs \cup EchoPcs]
    BY ServerAssumption DEF Threads, Requests, TypeInv, TypeOK
  <2>2. pc[Loop] = "read" /\ UNCHANGED <<link, at, from>>
        /\ input[at] # <<>> /\ Head(input[at]) # Heartbeat
    BY DEF Decode
  <2>3. pc'[Loop] \in {"read", "lock_reply"}
    BY <2>1, <2>2 DEF Decode, Goto
  <2> QED
    BY <2>2, <2>3 DEF TypeInv, Located, DonePcs
<1>2. r \in Requests /\ from[r] = at /\ closure[r] = "none" /\ r # Loop
  BY <1>1, TailOf, ServerAssumption DEF TypeInv, TypeOK, TaskInv, Queued
<1>3. \A j \in Conns : Attached(j)' <=> Attached(j)
  BY <1>1 DEF Attached
<1>4. CASE UNCHANGED <<refcnt, closure>>
  BY <1>1, <1>3, <1>4, HoldersKept
<1>5. CASE /\ closure' = [closure EXCEPT ![r] = "alive"]
           /\ refcnt' = [refcnt EXCEPT ![at] = @ + 1]
  <2>1. /\ closure'[r] = "alive"
        /\ \A q \in Requests \ {r} : closure'[q] = closure[q]
    BY <1>2, <1>5 DEF TypeInv, TypeOK
  <2>2. r \notin Holders(at) /\ Holders(at)' = Holders(at) \cup {r}
    BY <1>1, <1>2, <1>3, <2>1 DEF Holders
  <2>3. \A j \in Conns \ {at} : Holders(j)' = Holders(j)
    BY <1>1, <1>2, <1>3, <2>1 DEF Holders
  <2>4. Loop \in Holders(at)
    BY <1>1 DEF Holders, Attached, TaskInv, LoopLink
  <2> QED
    BY <1>1, <1>2, <1>5, <2>2, <2>3, <2>4 DEF Gained
<1> QED
  BY <1>4, <1>5 DEF Decode, AddReference

LEMMA DropHolders ==
  ASSUME TypeInv, TaskInv, DropClient
  PROVE  at \in Conns /\ Lost(at, Loop)
<1>1. /\ pc[Loop] = "drop_client" /\ UNCHANGED <<link, at, cur, from, closure>>
      /\ pc'[Loop] \in {"free_bev", "free_client"} /\ cur = NULL
      /\ refcnt' = [refcnt EXCEPT ![at] = @ - 1]
  BY DEF DropClient, Unreference, Goto, TypeInv, TypeOK, Located, Threads, DonePcs
<1>2. at \in Conns /\ Loop \in Holders(at)
  BY <1>1, LoopHolds DEF TaskInv
<1>3. /\ ~Attached(at)'
      /\ \A j \in Conns \ {at} : Attached(j)' <=> Attached(j)
  BY <1>1 DEF Attached
<1>4. Loop \notin Requests
  BY ServerAssumption
<1>5. Holders(at)' = Holders(at) \ {Loop}
  BY <1>1, <1>3, <1>4 DEF Holders
<1>6. \A j \in Conns \ {at} : Holders(j)' = Holders(j)
  BY <1>1, <1>3 DEF Holders
<1> QED
  BY <1>1, <1>2, <1>5, <1>6 DEF Lost

LEMMA ReleaseHolders ==
  ASSUME TypeInv, TaskInv, NEW t \in Threads, Release(t)
  PROVE  \E k \in Conns, h \in Requests :
           k = Client(t) /\ h = Task(t) /\ Lost(k, h)
<1>1. /\ pc[t] = "release" /\ UNCHANGED <<link, at, from>>
      /\ closure' = [closure EXCEPT ![Task(t)] = "deleted"]
      /\ refcnt' = [refcnt EXCEPT ![Client(t)] = @ - 1]
  BY DEF Release, Unreference
<1>2. /\ Task(t) \in Requests /\ Client(t) \in Conns
      /\ Task(t) \in Holders(Client(t))
  BY <1>1, TaskTypes DEF Replying, TaskInv
<1>3. PICK k \in Conns, h \in Requests : k = Client(t) /\ h = Task(t)
  BY <1>2
<1>4. /\ closure'[h] = "deleted" /\ h # Loop
      /\ \A q \in Requests \ {h} : closure'[q] = closure[q]
  BY <1>1, <1>2, <1>3, ServerAssumption DEF TypeInv, TypeOK
<1>5. \A j \in Conns : Attached(j)' <=> Attached(j)
  <2>1. CASE t = Loop
    <3>1. /\ cur # NULL
          /\ pc'[Loop] = "read" \/ (pc'[Loop] = "free_client" /\ cur' = cur)
      BY <1>1, <2>1
      DEF Release, Unreference, Leave, AfterDone, Goto, TypeInv, TypeOK, Located,
          Replying, Threads
    <3> QED
      BY <1>1, <2>1, <3>1 DEF Attached
  <2>2. CASE t # Loop
    <3>1. pc'[Loop] = pc[Loop] /\ cur' = cur
      BY <2>2 DEF Release, Unreference, Leave, Goto, TypeInv, TypeOK, Threads
    <3> QED
      BY <1>1, <3>1 DEF Attached
  <2> QED
    BY <2>1, <2>2
<1>6. Holders(k)' = Holders(k) \ {h}
  BY <1>1, <1>4, <1>5 DEF Holders
<1>7. from[h] = k
  BY <1>3 DEF Client
<1>8. \A j \in Conns \ {k} : Holders(j)' = Holders(j)
  BY <1>1, <1>4, <1>5, <1>7 DEF Holders
<1> QED
  BY <1>1, <1>2, <1>3, <1>6, <1>8 DEF Lost

(* All other steps leave the holders alone. *)
OtherStep ==
  \/ \E k \in Conns : ReadCb(k) \/ EventCb(k)
  \/ EchoHeartbeat \/ ReadEnd \/ SetBev \/ FreeDropped \/ FreeBev
  \/ \E t \in Threads : \/ SerializeFails(t) \/ LockReply(t)
                        \/ AddHeader(t) \/ AddBody(t)
                        \/ FreeReleased(t) \/ EchoWorker(t)
  \/ Environment
  \/ UNCHANGED vars

LEMMA OtherSteps ==
  [Next]_vars => \/ OtherStep \/ Decode \/ DropClient
                 \/ \E k \in Conns : AcceptSocketCb(k)
                 \/ \E t \in Threads : Release(t)
  BY DEF Next, CallbackStep, DoneStep, OtherStep

LEMMA OtherHolders ==
  ASSUME TypeInv, TaskInv, OtherStep
  PROVE  Kept
<1>0. /\ pc \in [Threads -> LoopPcs \cup DonePcs \cup EchoPcs]
      /\ Loop \in Threads /\ NULL \notin Conns
      /\ link \in [Conns -> {"none", "open", "lost", "freed"}]
      /\ from \in [Requests -> Conns \cup {NULL}]
  BY ServerAssumption DEF TypeInv, TypeOK, Threads
<1>1. pc[Loop] \in LoopPcs => cur = NULL
  BY DEF TypeInv, Located, DonePcs, LoopPcs
<1>2. ASSUME NEW k \in Conns, ReadCb(k) \/ EventCb(k) PROVE Kept
  <2>1. /\ UNCHANGED <<from, closure, refcnt, link, cur>>
        /\ pc[Loop] = "poll" /\ pc'[Loop] \in {"read", "set_bev"}
    BY <1>0, <1>2 DEF ReadCb, EventCb, Goto
  <2>2. \A j \in Conns : Attached(j)' <=> Attached(j)
    BY <2>1 DEF Attached
  <2> QED
    BY <2>1, <2>2, HoldersKept
<1>3. CASE EchoHeartbeat \/ ReadEnd \/ SetBev
  <2>1. /\ UNCHANGED <<from, closure, refcnt, link, cur>>
        /\ pc[Loop] \in {"read", "set_bev"}
        /\ pc'[Loop] \in {"read", "poll", "drop_client"}
    BY <1>0, <1>3 DEF EchoHeartbeat, ReadEnd, SetBev, Goto
  <2>2. \A j \in Conns : Attached(j)' <=> Attached(j)
    BY <2>1 DEF Attached
  <2> QED
    BY <2>1, <2>2, HoldersKept
<1>4. CASE FreeDropped
  <2>1. /\ UNCHANGED <<from, closure, refcnt, link, at, cur>> /\ cur = NULL
        /\ pc[Loop] = "free_client" /\ pc'[Loop] = "free_bev"
    BY <1>0, <1>4 DEF FreeDropped, Goto
  <2>2. \A j \in Conns : Attached(j)' <=> Attached(j)
    BY <2>1 DEF Attached
  <2> QED
    BY <2>1, <2>2, HoldersKept
<1>5. CASE FreeBev
  <2>1. /\ UNCHANGED <<from, closure, refcnt, cur>> /\ at' = NULL
        /\ pc[Loop] = "free_bev" /\ pc'[Loop] = "poll"
        /\ link' = [link EXCEPT ![at] = "freed"]
    BY <1>0, <1>5 DEF FreeBev, Goto
  <2>2. ASSUME NEW j \in Conns PROVE Attached(j)' <=> Attached(j)
    BY <1>0, <2>1 DEF Attached
  <2> QED
    BY <2>1, <2>2, HoldersKept
<1>6. ASSUME NEW t \in Threads,
             \/ SerializeFails(t) \/ LockReply(t) \/ AddHeader(t) \/ AddBody(t)
             \/ FreeReleased(t) \/ EchoWorker(t)
      PROVE  Kept
  <2>1. /\ UNCHANGED <<from, closure, refcnt, link, at>>
        /\ \A u \in Threads \ {t} : pc'[u] = pc[u]
        /\ t # Loop => cur' = cur
    BY <1>0, <1>6
    DEF SerializeFails, LockReply, AddHeader, AddBody, FreeReleased,
        EchoWorker, Goto, Leave
  <2>2. CASE t # Loop
    <3>1. \A j \in Conns : Attached(j)' <=> Attached(j)
      BY <1>0, <2>1, <2>2 DEF Attached
    <3> QED
      BY <2>1, <3>1, HoldersKept
  <2>3. CASE t = Loop
    <3>1. /\ pc[Loop] # "free_bev" /\ cur # NULL
      BY <1>6, <2>3
      DEF SerializeFails, LockReply, AddHeader, AddBody, FreeReleased,
          EchoWorker, Task, TypeInv, Located, Replying
    <3>2. \/ pc'[Loop] \in Replying
          \/ pc'[Loop] = "read"
      BY <1>0, <1>6, <2>3
      DEF SerializeFails, LockReply, AddHeader, AddBody, FreeReleased,
          EchoWorker, Goto, AfterDone, Replying
    <3>3. \A j \in Conns : Attached(j)' <=> Attached(j)
      BY <2>1, <3>1, <3>2 DEF Attached, Replying
    <3> QED
      BY <2>1, <3>3, HoldersKept
  <2> QED
    BY <2>2, <2>3
<1>7. ASSUME NEW k \in Conns, NEW r \in Requests, PeerSend(k, r) PROVE Kept
  <2>1. /\ UNCHANGED <<closure, refcnt, link, at, pc, cur>>
        /\ from[r] = NULL /\ from' = [from EXCEPT ![r] = k]
    BY <1>7 DEF PeerSend
  <2>2. closure[r] # "alive"
    BY <1>0, <2>1 DEF TaskInv, Opened
  <2>3. \A j \in Conns : Attached(j)' <=> Attached(j)
    BY <2>1 DEF Attached
  <2>4. \A j \in Conns : \A q \in Requests :
          (closure'[q] = "alive" /\ from'[q] = j) <=>
            (closure[q] = "alive" /\ from[q] = j)
    BY <1>0, <2>1, <2>2
  <2> QED
    BY <2>1, <2>3, <2>4 DEF Kept, Holders
<1>8. ASSUME NEW k \in Conns, ConnectionLost(k) PROVE Kept
  <2>1. /\ UNCHANGED <<from, closure, refcnt, at, pc, cur>>
        /\ link[k] = "open" /\ link' = [link EXCEPT ![k] = "lost"]
    BY <1>8 DEF ConnectionLost
  <2>2. \A j \in Conns : Attached(j)' <=> Attached(j)
    BY <1>0, <2>1 DEF Attached
  <2> QED
    BY <2>1, <2>2, HoldersKept
<1>9. ASSUME UNCHANGED <<from, closure, refcnt, link, at, pc, cur>> PROVE Kept
  <2>1. \A j \in Conns : Attached(j)' <=> Attached(j)
    BY <1>9 DEF Attached
  <2> QED
    BY <1>9, <2>1, HoldersKept
<1>10. CASE UNCHANGED vars
  BY <1>9, <1>10 DEF vars
<1>11. ASSUME NEW k \in Conns, PeerHeartbeat(k) \/ PeerReceive(k) PROVE Kept
  BY <1>9, <1>11 DEF PeerHeartbeat, PeerReceive
<1> QED
  BY <1>2, <1>3, <1>4, <1>5, <1>6, <1>7, <1>8, <1>10, <1>11
  DEF OtherStep, Environment

LEMMA HoldersNext ==
  ASSUME TypeInv, TaskInv, [Next]_vars
  PROVE  \/ Kept
         \/ \E k \in Conns : \/ Accepted(k)
                             \/ \E h \in Requests \cup {Loop} :
                                  Gained(k, h) \/ Lost(k, h)
<1>1. CASE Decode
  <2>1. PICK k \in Conns : k = at \/ at \notin Conns
    BY <1>1 DEF TypeInv, Located, Decode
  <2> QED
    BY <1>1, DecodeHolders
<1>2. CASE DropClient
  BY <1>2, DropHolders
<1> QED
  BY <1>1, <1>2, OtherSteps, OtherHolders, AcceptHolders, ReleaseHolders

LEMMA CountInit == Init => CountInv
<1> SUFFICES ASSUME Init, NEW k \in Conns PROVE refcnt[k] = Cardinality(Holders(k))
  BY DEF CountInv, RefcntIsHolders
<1>1. Holders(k) = {}
  BY DEF Init, Holders, Attached
<1> QED
  BY <1>1, FS_EmptySet DEF Init

LEMMA CountNext ==
  ASSUME TypeInv, TaskInv, CountInv, [Next]_vars
  PROVE  CountInv'
<1> SUFFICES ASSUME NEW j \in Conns
             PROVE  refcnt'[j] = Cardinality(Holders(j)')
  BY DEF CountInv, RefcntIsHolders
<1>0. /\ refcnt[j] = Cardinality(Holders(j)) /\ IsFiniteSet(Holders(j))
      /\ refcnt \in [Conns -> Nat]
  BY HoldersFinite DEF CountInv, RefcntIsHolders, TypeInv, TypeOK
<1>1. CASE Kept
  BY <1>0, <1>1 DEF Kept
<1>2. ASSUME NEW k \in Conns, Accepted(k) PROVE refcnt'[j] = Cardinality(Holders(j)')
  <2>1. Cardinality({Loop}) = 1
    BY FS_Singleton
  <2> QED
    BY <1>0, <1>2, <2>1 DEF Accepted
<1>3. ASSUME NEW k \in Conns, NEW h, Gained(k, h)
      PROVE  refcnt'[j] = Cardinality(Holders(j)')
  <2>1. CASE j = k
    <3>1. h \notin Holders(j) /\ Holders(j)' = Holders(j) \cup {h}
      BY <1>3, <2>1 DEF Gained
    <3>2. Cardinality(Holders(j) \cup {h}) = Cardinality(Holders(j)) + 1
      BY <1>0, <3>1, FS_AddElement
    <3>3. refcnt'[j] = refcnt[j] + 1
      BY <1>0, <1>3, <2>1 DEF Gained
    <3> QED
      BY <1>0, <3>1, <3>2, <3>3
  <2>2. CASE j # k
    BY <1>0, <1>3, <2>2 DEF Gained
  <2> QED
    BY <2>1, <2>2
<1>4. ASSUME NEW k \in Conns, NEW h, Lost(k, h)
      PROVE  refcnt'[j] = Cardinality(Holders(j)')
  <2>1. CASE j = k
    <3>1. h \in Holders(j) /\ Holders(j)' = Holders(j) \ {h}
      BY <1>4, <2>1 DEF Lost
    <3>2. Cardinality(Holders(j) \ {h}) = Cardinality(Holders(j)) - 1
      BY <1>0, <3>1, FS_RemoveElement
    <3>3. refcnt'[j] = refcnt[j] - 1
      BY <1>0, <1>4, <2>1 DEF Lost
    <3> QED
      BY <1>0, <3>1, <3>2, <3>3
  <2>2. CASE j # k
    BY <1>0, <1>4, <2>2 DEF Lost
  <2> QED
    BY <2>1, <2>2
<1> QED
  BY <1>1, <1>2, <1>3, <1>4, HoldersNext

LEMMA CountInvariant == Spec => [](TypeInv /\ TaskInv /\ CountInv)
  BY TypeInit, TaskInit, CountInit, TypeNext, TaskNext, CountNext, PTL DEF Spec

(* Every variable of the server stays in its type; that refcnt does not go  *)
(* below zero is part of it.                                                *)
THEOREM ServerTypeCorrect == Spec => []TypeOK
<1>1. TypeInv => TypeOK
  BY DEF TypeInv
<1> QED
  BY <1>1, CountInvariant, PTL

(* With any number of connections and requests, the count of a client is    *)
(* the number of closures that hold it, and one for the bufferevent.        *)
THEOREM ReferencesCounted == Spec => []RefcntIsHolders
<1>1. CountInv => RefcntIsHolders
  BY DEF CountInv
<1> QED
  BY <1>1, CountInvariant, PTL

-----------------------------------------------------------------------------
(* Memory. *)

(* A client being freed belongs to a connection that was accepted. *)
LEMMA FreedOpened ==
  ASSUME TypeInv, TaskInv, NEW k \in Conns, Freeing(k) # {}
  PROVE  link[k] # "none"
<1>1. PICK t \in Threads : pc[t] = "free_client" /\ Freed(t) = k
  BY DEF Freeing
<1>2. CASE Task(t) # NULL
  BY <1>1, <1>2, TaskTypes DEF TaskInv, Tasks, Opened, Freed, Client
<1>3. CASE Task(t) = NULL
  <2>1. t = Loop /\ cur = NULL
    BY <1>1, <1>3, ServerAssumption DEF Task, Threads, Requests
  <2> QED
    BY <1>1, <1>3, <2>1 DEF TaskInv, LoopLink, Dropping, Freed
<1> QED
  BY <1>2, <1>3

LEMMA FreeingKept ==
  ASSUME TypeInv, TaskInv,
         \A t \in Threads : pc'[t] = "free_client" <=> pc[t] = "free_client",
         \A r \in Requests : from[r] # NULL => from'[r] = from[r],
         pc[Loop] = "free_client" => at' = at /\ cur' = cur
  PROVE  \A k \in Conns : Freeing(k)' = Freeing(k)
<1>1. ASSUME NEW t \in Threads, pc[t] = "free_client"
      PROVE  Freed(t)' = Freed(t)
  <2>1. Task(t)' = Task(t)
    BY <1>1 DEF Task
  <2>2. CASE Task(t) # NULL
    <3>1. Task(t) \in Requests /\ from[Task(t)] # NULL
      BY <1>1, <2>2, TaskTypes, ServerAssumption DEF TaskInv, Client
    <3> QED
      BY <2>1, <2>2, <3>1 DEF Freed, Client
  <2>3. CASE Task(t) = NULL
    BY <1>1, <2>1, <2>3, ServerAssumption DEF Freed, Task, Threads, Requests
  <2> QED
    BY <2>2, <2>3
<1> QED
  BY <1>1 DEF Freeing

LEMMA DecodeFreeing ==
  ASSUME TypeInv, TaskInv, Decode
  PROVE  UNCHANGED memory /\ \A k \in Conns : Freeing(k)' = Freeing(k)
<1> DEFINE r == Head(input[at]).req
<1>0. pc \in [Threads -> LoopPcs \cup DonePcs \cup EchoPcs]
  BY DEF TypeInv, TypeOK
<1>1. /\ pc[Loop] = "read" /\ UNCHANGED <<memory, from, at>>
      /\ \/ UNCHANGED pc
         \/ pc' = [pc EXCEPT ![Loop] = "lock_reply"]
         \/ r \in EchoRequests /\ pc' = [pc EXCEPT ![r] = "sleep"]
  BY DEF Decode, Goto
<1>2. r \in EchoRequests => pc[r] # "free_client"
  <2>1. at \in Conns /\ closure[r] = "none"
    BY TailOf DEF Decode, TypeInv, TypeOK, Located, TaskInv, Queued
  <2>2. r \in EchoRequests => r \in Threads /\ Task(r) = r /\ r # NULL
    BY ServerAssumption DEF Threads, Task, Requests
  <2> QED
    BY <2>1, <2>2 DEF TaskInv, Tasks
<1>3. \A t \in Threads : pc'[t] = "free_client" <=> pc[t] = "free_client"
  BY <1>0, <1>1, <1>2
<1> QED
  BY <1>1, <1>3, FreeingKept

(* The steps that do not free or give up a client. *)
LEMMA OtherFreeing ==
  ASSUME TypeInv, TaskInv, OtherStep
  PROVE  \/ UNCHANGED memory /\ \A k \in Conns : Freeing(k)' = Freeing(k)
         \/ FreeDropped
         \/ \E t \in Threads : FreeReleased(t)
<1> DEFINE Goal == UNCHANGED memory /\ \A k \in Conns : Freeing(k)' = Freeing(k)
<1>0. /\ pc \in [Threads -> LoopPcs \cup DonePcs \cup EchoPcs]
      /\ Loop \in Threads /\ Loop \notin EchoRequests
  BY ServerAssumption DEF TypeInv, TypeOK, Threads, Requests
<1>1. ASSUME pc[Loop] # "free_client", pc'[Loop] # "free_client",
             \A t \in Threads \ {Loop} : pc'[t] = pc[t],
             UNCHANGED <<memory, from>>
      PROVE  Goal
  BY <1>1, FreeingKept
<1>2. ASSUME NEW k \in Conns, ReadCb(k) \/ EventCb(k) PROVE Goal
  <2>1. pc[Loop] = "poll" /\ pc'[Loop] \in {"read", "set_bev"}
        /\ (\A t \in Threads \ {Loop} : pc'[t] = pc[t])
        /\ UNCHANGED <<memory, from>>
    BY <1>0, <1>2 DEF ReadCb, EventCb, Goto
  <2> QED
    BY <1>1, <2>1
<1>3. CASE EchoHeartbeat \/ ReadEnd \/ SetBev \/ FreeBev
  <2>1. pc[Loop] \in {"read", "set_bev", "free_bev"}
        /\ pc'[Loop] \in {"read", "poll", "drop_client"}
        /\ (\A t \in Threads \ {Loop} : pc'[t] = pc[t])
        /\ UNCHANGED <<memory, from>>
    BY <1>0, <1>3 DEF EchoHeartbeat, ReadEnd, SetBev, FreeBev, Goto
  <2> QED
    BY <1>1, <2>1
<1>4. ASSUME NEW t \in Threads,
             SerializeFails(t) \/ LockReply(t) \/ AddHeader(t)
             \/ AddBody(t) \/ EchoWorker(t)
      PROVE  Goal
  <2>1. /\ pc[t] # "free_client" /\ pc'[t] # "free_client"
        /\ \A u \in Threads \ {t} : pc'[u] = pc[u]
        /\ UNCHANGED <<memory, from, at, cur>>
    BY <1>0, <1>4 DEF SerializeFails, LockReply, AddHeader, AddBody,
                      EchoWorker, Goto
  <2>2. \A u \in Threads : pc'[u] = "free_client" <=> pc[u] = "free_client"
    BY <2>1
  <2> QED
    BY <2>1, <2>2, FreeingKept
<1>5. CASE Environment
  <2>1. UNCHANGED <<memory, pc, at, cur>>
        /\ \A r \in Requests : from[r] # NULL => from'[r] = from[r]
    <3>1. ASSUME NEW k \in Conns, NEW r \in Requests, PeerSend(k, r)
          PROVE  \A q \in Requests : from[q] # NULL => from'[q] = from[q]
      BY <3>1 DEF PeerSend, TypeInv, TypeOK
    <3> QED
      BY <1>5, <3>1
      DEF Environment, PeerHeartbeat, PeerReceive, ConnectionLost, PeerSend
  <2> QED
    BY <2>1, FreeingKept
<1>6. CASE UNCHANGED vars
  <2>1. UNCHANGED <<memory, pc, at, cur, from>>
    BY <1>6 DEF vars
  <2> QED
    BY <2>1, FreeingKept
<1> QED
  BY <1>2, <1>3, <1>4, <1>5, <1>6 DEF OtherStep

(* The thread that frees is the one that gave up the last reference. *)
LEMMA FreeStep ==
  ASSUME TypeInv, TaskInv,
         FreeDropped \/ \E t \in Threads : FreeReleased(t)
  PROVE  \E k \in Conns, t \in Threads :
           /\ t \in Freeing(k)
           /\ memory' = [memory EXCEPT ![k] = "freed"]
           /\ Freeing(k)' = Freeing(k) \ {t}
           /\ \A j \in Conns \ {k} : Freeing(j)' = Freeing(j)
<1>0. /\ pc \in [Threads -> LoopPcs \cup DonePcs \cup EchoPcs]
      /\ Loop \in Threads
  BY DEF TypeInv, TypeOK, Threads
<1>1. PICK t \in Threads :
        /\ pc[t] = "free_client"
        /\ memory' = [memory EXCEPT ![Freed(t)] = "freed"]
        /\ pc'[t] # "free_client"
        /\ \A u \in Threads \ {t} : pc'[u] = pc[u]
        /\ UNCHANGED <<from, at>>
        /\ t # Loop => cur' = cur
  <2>1. CASE FreeDropped
    BY <1>0, <2>1 DEF FreeDropped, Deallocate, Goto, Freed, Task
  <2>2. ASSUME NEW t \in Threads, FreeReleased(t)
        PROVE  /\ pc[t] = "free_client"
               /\ memory' = [memory EXCEPT ![Freed(t)] = "freed"]
               /\ pc'[t] # "free_client"
               /\ \A u \in Threads \ {t} : pc'[u] = pc[u]
               /\ UNCHANGED <<from, at>>
               /\ t # Loop => cur' = cur
    BY <1>0, <2>2 DEF FreeReleased, Deallocate, Goto, Freed, Leave, AfterDone
  <2> QED
    BY <2>1, <2>2
<1>2. Freed(t) \in Conns
  <2>1. CASE Task(t) # NULL
    BY <1>1, <2>1, TaskTypes DEF TaskInv, Freed
  <2>2. CASE Task(t) = NULL
    <3>1. t = Loop
      BY <2>2, ServerAssumption DEF Task, Threads, Requests
    <3> QED
      BY <1>1, <2>2, <3>1 DEF Freed, TypeInv, Located
  <2> QED
    BY <2>1, <2>2
<1>3. PICK k \in Conns : k = Freed(t)
  BY <1>2
<1>4. ASSUME NEW u \in Threads, u # t, pc[u] = "free_client"
      PROVE  Freed(u)' = Freed(u)
  <2>1. Task(u)' = Task(u)
    BY <1>1, <1>4 DEF Task
  <2> QED
    BY <1>1, <2>1 DEF Freed, Client
<1>5. Freeing(k)' = Freeing(k) \ {t}
  BY <1>1, <1>4 DEF Freeing
<1>6. \A j \in Conns \ {k} : Freeing(j)' = Freeing(j)
  BY <1>1, <1>3, <1>4 DEF Freeing
<1> QED
  BY <1>1, <1>3, <1>5, <1>6 DEF Freeing

(* Who gives up a reference of the client of k goes on to free it only when *)
(* it was the last one.                                                     *)
LEMMA UnreferenceFreeing ==
  ASSUME TypeInv, NEW t \in Threads, NEW k \in Conns, NEW label,
         label # "free_client", pc[t] # "free_client",
         Unreference(t, k, label), UNCHANGED <<at, from>>,
         t # Loop => cur' = cur,
         pc'[t] = "free_client" => Freed(t)' = k
  PROVE  /\ refcnt[k] - 1 > 0 => Freeing(k)' = Freeing(k)
         /\ Freeing(k)' \in SUBSET (Freeing(k) \cup {t})
         /\ \A j \in Conns \ {k} : Freeing(j)' = Freeing(j)
<1>1. /\ pc'[t] = IF refcnt[k] - 1 > 0 THEN label ELSE "free_client"
      /\ \A u \in Threads \ {t} : pc'[u] = pc[u]
  BY DEF Unreference, Goto, TypeInv, TypeOK
<1>2. ASSUME NEW u \in Threads, u # t PROVE Freed(u)' = Freed(u)
  <2>1. Task(u)' = Task(u)
    BY <1>2 DEF Task
  <2> QED
    BY <2>1 DEF Freed, Client
<1>3. Freeing(k)' \in SUBSET (Freeing(k) \cup {t})
  BY <1>1, <1>2 DEF Freeing
<1>4. \A j \in Conns \ {k} : Freeing(j)' = Freeing(j)
  BY <1>1, <1>2 DEF Freeing
<1>5. refcnt[k] - 1 > 0 => Freeing(k)' = Freeing(k)
  BY <1>1, <1>2 DEF Freeing
<1> QED
  BY <1>3, <1>4, <1>5

LEMMA LostStep ==
  ASSUME TypeInv, TaskInv, DropClient \/ \E t \in Threads : Release(t)
  PROVE  \E k \in Conns, t \in Threads, h \in Requests \cup {Loop} :
           /\ Lost(k, h) /\ UNCHANGED memory
           /\ refcnt[k] - 1 > 0 => Freeing(k)' = Freeing(k)
           /\ Freeing(k)' \in SUBSET (Freeing(k) \cup {t})
           /\ \A j \in Conns \ {k} : Freeing(j)' = Freeing(j)
<1>1. CASE DropClient
  <2>1. PICK k \in Conns : k = at /\ Lost(k, Loop)
    BY <1>1, DropHolders
  <2>2. /\ Unreference(Loop, k, "free_bev") /\ UNCHANGED <<memory, at, from>>
        /\ pc[Loop] = "drop_client" /\ Loop \in Threads /\ cur' = NULL
    BY <1>1, <2>1 DEF DropClient, Threads, TypeInv, Located, DonePcs
  <2>3. Freed(Loop)' = k
    BY <2>1, <2>2 DEF Freed, Task
  <2> QED
    BY <2>1, <2>2, <2>3, UnreferenceFreeing
<1>2. ASSUME NEW t \in Threads, Release(t)
      PROVE  \E k \in Conns, h \in Requests :
               /\ Lost(k, h) /\ UNCHANGED memory
               /\ refcnt[k] - 1 > 0 => Freeing(k)' = Freeing(k)
               /\ Freeing(k)' \in SUBSET (Freeing(k) \cup {t})
               /\ \A j \in Conns \ {k} : Freeing(j)' = Freeing(j)
  <2>1. PICK k \in Conns, h \in Requests :
          k = Client(t) /\ h = Task(t) /\ Lost(k, h)
    BY <1>2, ReleaseHolders
  <2>2. /\ Unreference(t, k, AfterDone(t)) /\ UNCHANGED <<memory, at, from>>
        /\ pc[t] = "release" /\ AfterDone(t) # "free_client"
        /\ t # Loop => cur' = cur
        /\ ~(refcnt[k] - 1 > 0) => cur' = cur
    BY <1>2, <2>1 DEF Release, AfterDone, Leave
  <2>3. pc'[t] = "free_client" => cur' = cur
    BY <2>2 DEF Unreference, Goto, TypeInv, TypeOK
  <2>4. cur' = cur => Freed(t)' = k
    <3>1. from[h] = k /\ h # NULL
      BY <2>1, ServerAssumption DEF Client, Requests
    <3>2. cur' = cur => Task(t)' = h
      BY <2>1 DEF Task
    <3> QED
      BY <2>2, <3>1, <3>2 DEF Freed, Client
  <2> QED
    BY <2>1, <2>2, <2>3, <2>4, UnreferenceFreeing
<1> QED
  BY <1>1, <1>2

LEMMA MemoryInit == Init => MemoryInv
<1> SUFFICES ASSUME Init, NEW k \in Conns
             PROVE  Holders(k) = {} /\ Freeing(k) = {}
  BY DEF MemoryInv
<1>1. Holders(k) = {}
  BY DEF Init, Holders, Attached
<1>2. \A t \in Threads : pc[t] # "free_client"
  BY DEF Init
<1> QED
  BY <1>1, <1>2 DEF Freeing

LEMMA MemoryNext ==
  ASSUME TypeInv, TaskInv, CountInv, MemoryInv, [Next]_vars
  PROVE  MemoryInv'
<1> SUFFICES ASSUME NEW j \in Conns
             PROVE  /\ Holders(j)' # {} => memory'[j] = "allocated"
                    /\ Freeing(j)' # {} =>
                         memory'[j] = "allocated" /\ Holders(j)' = {}
                    /\ \A t, u \in Freeing(j)' : t = u
  BY DEF MemoryInv
<1>0. /\ Holders(j) # {} => memory[j] = "allocated"
      /\ Freeing(j) # {} => memory[j] = "allocated" /\ Holders(j) = {}
      /\ \A t, u \in Freeing(j) : t = u
      /\ memory \in [Conns -> {"none", "allocated", "freed"}]
  BY DEF MemoryInv, TypeInv, TypeOK
<1>1. CASE OtherStep
  <2>1. Holders(j)' = Holders(j)
    BY <1>1, OtherHolders DEF Kept
  <2>2. CASE UNCHANGED memory /\ \A k \in Conns : Freeing(k)' = Freeing(k)
    BY <1>0, <2>1, <2>2
  <2>3. CASE FreeDropped \/ \E t \in Threads : FreeReleased(t)
    BY <1>0, <2>1, <2>3, FreeStep
  <2> QED
    BY <1>1, <2>2, <2>3, OtherFreeing
<1>2. CASE Decode
  <2>1. UNCHANGED memory /\ Freeing(j)' = Freeing(j)
    BY <1>2, DecodeFreeing
  <2>2. Holders(j)' = Holders(j) \/ Holders(j) # {}
    <3>1. CASE Kept
      BY <3>1 DEF Kept
    <3>2. ASSUME at \in Conns, Loop \in Holders(at),
                 NEW r \in Requests, Gained(at, r)
          PROVE  Holders(j)' = Holders(j) \/ Holders(j) # {}
      BY <3>2 DEF Gained
    <3> QED
      BY <1>2, <3>1, <3>2, DecodeHolders
  <2> QED
    BY <1>0, <2>1, <2>2
<1>3. ASSUME NEW k \in Conns, AcceptSocketCb(k)
      PROVE  /\ Holders(j)' # {} => memory'[j] = "allocated"
             /\ Freeing(j)' # {} =>
                  memory'[j] = "allocated" /\ Holders(j)' = {}
             /\ \A t, u \in Freeing(j)' : t = u
  <2>1. /\ pc[Loop] = "poll" /\ link[k] = "none"
        /\ UNCHANGED <<pc, from>>
        /\ \E m \in {"allocated", "freed"} : memory' = [memory EXCEPT ![k] = m]
    BY <1>3 DEF AcceptSocketCb
  <2>2. Freeing(j)' = Freeing(j) /\ (j = k => Freeing(j) = {})
    BY <2>1, FreeingKept, FreedOpened
  <2>3. j = k => Holders(j) = {}
    BY <2>1 DEF Holders, Attached, TaskInv, Opened
  <2>4. CASE Kept
    BY <1>0, <2>1, <2>2, <2>3, <2>4 DEF Kept
  <2>5. CASE Accepted(k) /\ memory' = [memory EXCEPT ![k] = "allocated"]
    BY <1>0, <2>2, <2>5 DEF Accepted
  <2> QED
    BY <1>3, <2>4, <2>5, AcceptHolders
<1>4. CASE DropClient \/ \E t \in Threads : Release(t)
  <2>1. PICK k \in Conns, t \in Threads, h \in Requests \cup {Loop} :
          /\ Lost(k, h) /\ UNCHANGED memory
          /\ refcnt[k] - 1 > 0 => Freeing(k)' = Freeing(k)
          /\ Freeing(k)' \in SUBSET (Freeing(k) \cup {t})
          /\ \A i \in Conns \ {k} : Freeing(i)' = Freeing(i)
    BY <1>4, LostStep
  <2>2. CASE j # k
    BY <1>0, <2>1, <2>2 DEF Lost
  <2>3. CASE j = k
    <3>1. Freeing(k) = {} /\ memory'[k] = "allocated"
      BY <1>0, <2>1, <2>3 DEF Lost
    <3>2. /\ refcnt[k] \in Nat /\ refcnt[k] - 1 \in Nat
          /\ refcnt'[k] = refcnt[k] - 1
      BY <2>1, CountPositive DEF Lost, CountInv, TypeInv, TypeOK
    <3>3. refcnt'[k] = 0 <=> Holders(k)' = {}
      <4>1. IsFiniteSet(Holders(k)')
        BY <2>1, HoldersFinite, FS_Subset DEF Lost
      <4>2. refcnt'[k] = Cardinality(Holders(k)')
        BY CountNext DEF CountInv, RefcntIsHolders
      <4> QED
        BY <4>1, <4>2, FS_EmptySet
    <3>4. Holders(k)' # {} => Freeing(k)' = {}
      <4>1. refcnt'[k] # 0 => refcnt[k] - 1 > 0
        BY <3>2
      <4>2. Holders(k)' # {} => refcnt'[k] # 0
        BY <3>3
      <4> QED
        BY <2>1, <3>1, <4>1, <4>2
    <3> QED
      BY <2>1, <2>3, <3>1, <3>4
  <2> QED
    BY <2>2, <2>3
<1> QED
  BY <1>1, <1>2, <1>3, <1>4, OtherSteps

-----------------------------------------------------------------------------
(* The bufferevent. *)

(* A thread that replies goes on with the same closure and client. *)
LEMMA TaskKept ==
  ASSUME TypeInv, TaskInv, NEW t \in Threads, pc[t] \in Replying,
         t = Loop => cur' = cur,
         \A r \in Requests : from[r] # NULL => from'[r] = from[r]
  PROVE  Task(t)' = Task(t) /\ Client(t)' = Client(t) /\ Client(t) \in Conns
<1>1. Task(t)' = Task(t)
  BY DEF Task
<1>2. Task(t) \in Requests /\ Client(t) \in Conns
  BY TaskTypes DEF TaskInv
<1>3. from[Task(t)] # NULL
  BY <1>2, ServerAssumption DEF Client
<1> QED
  BY <1>1, <1>2, <1>3 DEF Client

LEMMA BevInit == Init => BevInv
  BY DEF Init, BevInv, Detaching, Dropping, Sending

(* A step that leaves bev and the senders' locks alone, and does not detach *)
(* a connection that has a bufferevent.                                     *)
LEMMA BevKept ==
  ASSUME TypeInv, TaskInv, BevInv, UNCHANGED <<bev, lock>>,
         \A r \in Requests : from[r] # NULL => from'[r] = from[r],
         cur = NULL \/ cur' = cur \/ pc[Loop] \notin Sending,
         \A t \in Threads : pc'[t] \in Sending => pc[t] \in Sending,
         \A k \in Conns : link'[k] = "open" => link[k] = "open",
         \A k \in Conns : bev[k] =>
           link'[k] \in {"open", "lost"} /\ ~(Detaching' /\ at' = k)
  PROVE  BevInv'
<1>1. \A k \in Conns : /\ link'[k] = "open" => bev'[k]
                       /\ bev'[k] => /\ link'[k] \in {"open", "lost"}
                                     /\ ~(Detaching' /\ at' = k)
  BY DEF BevInv
<1>2. ASSUME NEW t \in Threads, pc'[t] \in Sending
      PROVE  lock'[Client(t)'] = t /\ bev'[Client(t)']
  <2>1. pc[t] \in Sending /\ pc[t] \in Replying
    BY <1>2 DEF Sending, Replying
  <2>2. t = Loop => cur' = cur
    BY <2>1 DEF TypeInv, Located
  <2>3. Client(t)' = Client(t)
    BY <2>1, <2>2, TaskKept
  <2> QED
    BY <2>1, <2>3 DEF BevInv
<1> QED
  BY <1>1, <1>2 DEF BevInv

LEMMA BevCallback ==
  ASSUME TypeInv, TaskInv, BevInv, CallbackStep
  PROVE  BevInv'
<1>0. /\ pc \in [Threads -> LoopPcs \cup DonePcs \cup EchoPcs]
      /\ bev \in [Conns -> BOOLEAN] /\ NULL \notin Conns
      /\ link \in [Conns -> {"none", "open", "lost", "freed"}]
      /\ Loop \in Threads /\ Loop \notin EchoRequests
  BY ServerAssumption DEF TypeInv, TypeOK, Threads, Requests
<1>1. CASE EchoHeartbeat \/ ReadEnd \/ Decode
  <2>1. /\ UNCHANGED <<bev, lock, link, from>> /\ pc[Loop] = "read"
        /\ cur = NULL
    BY <1>1 DEF EchoHeartbeat, ReadEnd, Decode, TypeInv, Located, DonePcs
  <2>2. /\ pc'[Loop] \in {"read", "poll", "lock_reply"}
        /\ \A t \in Threads : pc'[t] = pc[t] \/ pc'[t] \notin Sending
    BY <1>0, <1>1, <2>1 DEF EchoHeartbeat, ReadEnd, Decode, Goto, Sending
  <2>3. ~Detaching'
    BY <2>2 DEF Detaching, Dropping
  <2> QED
    BY <2>1, <2>2, <2>3, BevKept DEF BevInv
<1>2. CASE SetBev
  <2>1. /\ lock[at] = NULL /\ bev' = [bev EXCEPT ![at] = FALSE]
        /\ UNCHANGED <<lock, link, from, at, cur>> /\ pc[Loop] = "set_bev"
        /\ pc'[Loop] = "drop_client"
        /\ \A t \in Threads \ {Loop} : pc'[t] = pc[t]
    BY <1>0, <1>2 DEF SetBev, ClearBev, LockFree, Goto
  <2>2. at \in Conns /\ link[at] = "lost" /\ ~Detaching
    BY <2>1 DEF TypeInv, Located, TaskInv, LoopLink, Detaching, Dropping
  <2>3. \A k \in Conns : /\ link'[k] = "open" => bev'[k]
                         /\ bev'[k] => /\ link'[k] \in {"open", "lost"}
                                       /\ at' # k
    BY <1>0, <2>1, <2>2 DEF BevInv
  <2>4. ASSUME NEW t \in Threads, pc'[t] \in Sending
        PROVE  lock'[Client(t)'] = t /\ bev'[Client(t)']
    <3>1. pc[t] \in Sending /\ pc[t] \in Replying
      BY <2>1, <2>4 DEF Sending, Replying
    <3>2. Client(t)' = Client(t) /\ Client(t) \in Conns
      BY <2>1, <3>1, TaskKept
    <3>3. lock[Client(t)] = t /\ bev[Client(t)] /\ t # NULL
      BY <3>1, ServerAssumption DEF BevInv, Threads, Requests
    <3> QED
      BY <1>0, <2>1, <3>2, <3>3
  <2> QED
    BY <2>3, <2>4 DEF BevInv
<1>3. CASE DropClient \/ FreeDropped
  <2>1. /\ UNCHANGED <<bev, lock, link, from, at, cur>>
        /\ pc[Loop] = "drop_client" \/ Dropping
        /\ pc'[Loop] \in {"free_bev", "free_client"}
        /\ \A t \in Threads \ {Loop} : pc'[t] = pc[t]
    BY <1>0, <1>3 DEF DropClient, FreeDropped, Unreference, Goto, Dropping
  <2>2. Detaching /\ \A t \in Threads : pc'[t] \in Sending => pc[t] \in Sending
    BY <2>1 DEF Detaching, Sending
  <2> QED
    BY <2>1, <2>2, BevKept DEF BevInv
<1>4. CASE FreeBev
  <2>1. /\ UNCHANGED <<bev, lock, from, cur>> /\ at' = NULL
        /\ link' = [link EXCEPT ![at] = "freed"]
        /\ pc[Loop] = "free_bev" /\ pc'[Loop] = "poll"
        /\ \A t \in Threads \ {Loop} : pc'[t] = pc[t]
    BY <1>0, <1>4 DEF FreeBev, Goto
  <2>2. /\ ~bev[at] /\ ~Detaching'
        /\ \A t \in Threads : pc'[t] \in Sending => pc[t] \in Sending
    BY <2>1 DEF BevInv, Detaching, Dropping, Sending, TypeInv, Located
  <2>3. \A k \in Conns : /\ link'[k] = "open" => link[k] = "open"
                         /\ bev[k] => link'[k] \in {"open", "lost"}
    BY <1>0, <2>1, <2>2 DEF BevInv
  <2> QED
    BY <2>1, <2>2, <2>3, BevKept
<1> QED
  BY <1>1, <1>2, <1>3, <1>4 DEF CallbackStep

LEMMA BevDone ==
  ASSUME TypeInv, TaskInv, BevInv, NEW t \in Threads, DoneStep(t)
  PROVE  BevInv'
<1>0. /\ pc \in [Threads -> LoopPcs \cup DonePcs \cup EchoPcs]
      /\ lock \in [Conns -> Threads \cup {NULL}]
      /\ Loop \in Threads /\ NULL \notin Threads
  BY ServerAssumption DEF TypeInv, TypeOK, Threads, Requests
<1>1. /\ UNCHANGED <<bev, link, from, at>>
      /\ \A u \in Threads \ {t} : pc'[u] = pc[u]
      /\ t # Loop => cur' = cur
  BY <1>0
  DEF DoneStep, SerializeFails, LockReply, AddHeader, AddBody, Release,
      FreeReleased, Unreference, Goto, Leave
<1>2. t = Loop => cur # NULL
  BY DEF DoneStep, SerializeFails, LockReply, AddHeader, AddBody, Release,
         FreeReleased, Task, TypeInv, Located, Replying
<1>3. Detaching' => Detaching
  <2>1. CASE t # Loop
    BY <1>0, <1>1, <2>1 DEF Detaching, Dropping
  <2>2. CASE t = Loop
    <3>1. \/ pc'[Loop] \in Replying \cup {"read"}
          \/ pc'[Loop] = "free_client" /\ cur' = cur
      BY <1>0, <2>2
      DEF DoneStep, SerializeFails, LockReply, AddHeader, AddBody, Release,
          FreeReleased, Unreference, Goto, Leave, AfterDone, Replying
    <3> QED
      BY <1>2, <2>2, <3>1 DEF Detaching, Dropping, Replying
  <2> QED
    BY <2>1, <2>2
<1>4. \A k \in Conns : /\ link'[k] = "open" => bev'[k]
                       /\ bev'[k] => /\ link'[k] \in {"open", "lost"}
                                     /\ ~(Detaching' /\ at' = k)
  BY <1>1, <1>3 DEF BevInv
<1>5. ASSUME NEW u \in Threads, pc[u] \in Sending, pc'[u] \in Sending
      PROVE  lock'[Client(u)'] = u /\ bev'[Client(u)']
  <2>1. pc[u] \in Replying /\ lock[Client(u)] = u /\ bev[Client(u)]
    BY <1>5 DEF Sending, Replying, BevInv
  <2>2. u = Loop => cur' = cur
    BY <1>0, <1>1, <1>5
    DEF DoneStep, SerializeFails, LockReply, AddHeader, AddBody, Release,
        FreeReleased, Sending
  <2>3. Client(u)' = Client(u) /\ Client(u) \in Conns
    BY <1>1, <2>1, <2>2, TaskKept
  <2>4. lock'[Client(u)] = lock[Client(u)]
    <3>1. CASE LockReply(t)
      <4>1. UNCHANGED lock \/ (lock[Client(t)] = NULL
                               /\ lock' = [lock EXCEPT ![Client(t)] = t])
        BY <3>1 DEF LockReply, LockFree
      <4> QED
        BY <1>0, <2>1, <2>3, <4>1
    <3>2. CASE AddBody(t)
      <4>1. /\ pc[t] = "add_body" /\ pc'[t] = "release"
            /\ lock' = [lock EXCEPT ![Client(t)] = NULL]
        BY <1>0, <3>2 DEF AddBody, Unlock, Goto
      <4>2. lock[Client(t)] = t /\ u # t
        BY <1>5, <4>1 DEF BevInv, Sending
      <4> QED
        BY <1>0, <2>1, <2>3, <4>1, <4>2
    <3>3. CASE SerializeFails(t) \/ AddHeader(t) \/ Release(t) \/ FreeReleased(t)
      BY <3>3 DEF SerializeFails, AddHeader, Release, FreeReleased
    <3> QED
      BY <3>1, <3>2, <3>3 DEF DoneStep
  <2> QED
    BY <1>1, <2>1, <2>3, <2>4
<1>6. ASSUME NEW u \in Threads, pc[u] \notin Sending, pc'[u] \in Sending
      PROVE  lock'[Client(u)'] = u /\ bev'[Client(u)']
  <2>1. u = t
    BY <1>1, <1>6
  <2>2. LockReply(t) /\ pc'[t] = "add_header"
    BY <1>0, <1>6, <2>1
    DEF DoneStep, SerializeFails, LockReply, AddHeader, AddBody, Release,
        FreeReleased, Unreference, Goto, AfterDone, Sending
  <2>3. /\ bev[Client(t)] /\ lock' = [lock EXCEPT ![Client(t)] = t]
        /\ pc[t] \in Replying /\ cur' = cur
    BY <1>0, <2>2 DEF LockReply, Goto, Replying
  <2>4. Client(t)' = Client(t) /\ Client(t) \in Conns
    BY <1>1, <2>3, TaskKept
  <2> QED
    BY <1>0, <1>1, <2>1, <2>3, <2>4
<1> QED
  BY <1>4, <1>5, <1>6 DEF BevInv

LEMMA BevQuiet ==
  ASSUME TypeInv, TaskInv, BevInv, UNCHANGED <<bev, lock, pc, at, cur>>,
         \A r \in Requests : from[r] # NULL => from'[r] = from[r],
         \A k \in Conns :
           link'[k] = link[k] \/ (link[k] = "open" /\ link'[k] = "lost")
  PROVE  BevInv'
<1>1. Detaching' <=> Detaching
  BY DEF Detaching, Dropping
<1> QED
  BY <1>1, BevKept DEF BevInv

LEMMA BevNext ==
  ASSUME TypeInv, TaskInv, BevInv, [Next]_vars
  PROVE  BevInv'
<1>0. /\ pc \in [Threads -> LoopPcs \cup DonePcs \cup EchoPcs]
      /\ from \in [Requests -> Conns \cup {NULL}]
      /\ bev \in [Conns -> BOOLEAN]
      /\ link \in [Conns -> {"none", "open", "lost", "freed"}]
      /\ Loop \in Threads /\ NULL \notin Conns
  BY ServerAssumption DEF TypeInv, TypeOK, Threads
<1>1. ASSUME NEW k \in Conns, AcceptSocketCb(k) PROVE BevInv'
  <2>1. /\ link[k] = "none" /\ pc[Loop] = "poll"
        /\ UNCHANGED <<lock, from, pc, at, cur>>
        /\ \/ link' = [link EXCEPT ![k] = "open"] /\ bev' = [bev EXCEPT ![k] = TRUE]
           \/ link' = [link EXCEPT ![k] = "freed"] /\ bev' = bev
    BY <1>1 DEF AcceptSocketCb
  <2>2. ~Detaching' /\ ~bev[k]
    BY <2>1 DEF Detaching, Dropping, BevInv
  <2>3. \A j \in Conns : /\ link'[j] = "open" => bev'[j]
                         /\ bev'[j] => link'[j] \in {"open", "lost"}
                         /\ bev[j] => bev'[j]
    BY <1>0, <2>1, <2>2 DEF BevInv
  <2>4. ASSUME NEW t \in Threads, pc'[t] \in Sending
        PROVE  lock'[Client(t)'] = t /\ bev'[Client(t)']
    <3>1. pc[t] \in Replying /\ lock[Client(t)] = t /\ bev[Client(t)]
      BY <2>1, <2>4 DEF Sending, Replying, BevInv
    <3>2. Client(t)' = Client(t) /\ Client(t) \in Conns
      BY <2>1, <3>1, TaskKept
    <3> QED
      BY <2>1, <2>3, <3>1, <3>2
  <2> QED
    BY <2>2, <2>3, <2>4 DEF BevInv
<1>2. ASSUME NEW k \in Conns, ReadCb(k) \/ EventCb(k) PROVE BevInv'
  <2>1. /\ UNCHANGED <<bev, lock, link, from, cur>>
        /\ pc'[Loop] \in {"read", "set_bev"}
        /\ \A t \in Threads \ {Loop} : pc'[t] = pc[t]
    BY <1>0, <1>2 DEF ReadCb, EventCb, Goto
  <2>2. ~Detaching'
    BY <2>1 DEF Detaching, Dropping
  <2>3. \A t \in Threads : pc'[t] \in Sending => pc[t] \in Sending
    BY <2>1 DEF Sending
  <2> QED
    BY <2>1, <2>2, <2>3, BevKept DEF BevInv
<1>3. ASSUME NEW t \in Threads, EchoWorker(t) PROVE BevInv'
  <2>1. /\ UNCHANGED <<bev, lock, link, from, at, cur>> /\ pc'[Loop] = pc[Loop]
        /\ \A u \in Threads : pc'[u] \in Sending => pc[u] \in Sending
    BY <1>0, <1>3 DEF EchoWorker, Goto, Sending
  <2>2. Detaching' <=> Detaching
    BY <2>1 DEF Detaching, Dropping
  <2> QED
    BY <2>1, <2>2, BevKept DEF BevInv
<1>4. ASSUME NEW k \in Conns, NEW r \in Requests, PeerSend(k, r) PROVE BevInv'
  <2>1. UNCHANGED <<bev, lock, pc, at, cur, link>>
        /\ \A q \in Requests : from[q] # NULL => from'[q] = from[q]
    BY <1>0, <1>4 DEF PeerSend
  <2> QED
    BY <2>1, BevQuiet
<1>5. ASSUME NEW k \in Conns, ConnectionLost(k) PROVE BevInv'
  <2>1. /\ UNCHANGED <<bev, lock, pc, at, cur, from>>
        /\ link[k] = "open" /\ link' = [link EXCEPT ![k] = "lost"]
    BY <1>5 DEF ConnectionLost
  <2>2. \A j \in Conns :
          link'[j] = link[j] \/ (link[j] = "open" /\ link'[j] = "lost")
    BY <1>0, <2>1
  <2> QED
    BY <2>1, <2>2, BevQuiet
<1>6. ASSUME NEW k \in Conns, PeerHeartbeat(k) \/ PeerReceive(k) PROVE BevInv'
  <2>1. UNCHANGED <<bev, lock, pc, at, cur, link, from>>
    BY <1>6 DEF PeerHeartbeat, PeerReceive
  <2> QED
    BY <2>1, BevQuiet
<1>7. CASE UNCHANGED vars
  <2>1. UNCHANGED <<bev, lock, pc, at, cur, link, from>>
    BY <1>7 DEF vars
  <2> QED
    BY <2>1, BevQuiet
<1> QED
  BY <1>1, <1>2, <1>3, <1>4, <1>5, <1>6, <1>7, BevCallback, BevDone
  DEF Next, Environment

-----------------------------------------------------------------------------
(* A client in a thread's hands is held by it, or being freed by it. *)
LEMMA UseIsHeld ==
  ASSUME TypeInv, TaskInv, NEW t \in Threads, NEW k \in InUse(t)
  PROVE  k \in Conns /\ (Holders(k) # {} \/ t \in Freeing(k))
<1>1. CASE pc[t] \in DonePcs /\ Task(t) # NULL
  <2>1. k = Client(t) /\ k \in Conns
    BY <1>1, TaskTypes DEF InUse, DonePcs, Replying, TaskInv
  <2>2. CASE pc[t] = "free_client"
    BY <1>1, <2>1, <2>2 DEF Freeing, Freed
  <2>3. CASE pc[t] \in Replying
    BY <2>1, <2>3, TaskTypes DEF TaskInv
  <2> QED
    BY <1>1, <2>1, <2>2, <2>3 DEF DonePcs, Replying
<1>2. CASE ~(pc[t] \in DonePcs /\ Task(t) # NULL)
  <2>1. /\ t = Loop /\ k = at
        /\ pc[Loop] \in {"read", "set_bev", "drop_client", "free_client"}
    BY <1>2 DEF InUse
  <2>2. cur = NULL /\ at \in Conns
    BY <1>2, <2>1 DEF Task, TypeInv, Located, DonePcs
  <2>3. CASE pc[Loop] = "free_client"
    BY <2>1, <2>2, <2>3 DEF Freeing, Freed, Task
  <2>4. CASE pc[Loop] \in {"read", "set_bev", "drop_client"}
    <3>1. Attached(at)
      BY <2>4 DEF Attached, TaskInv, LoopLink
    <3> QED
      BY <2>1, <2>2, <3>1 DEF Holders
  <2> QED
    BY <2>1, <2>3, <2>4
<1> QED
  BY <1>1, <1>2

LEMMA FreedUses ==
  ASSUME NEW t \in Threads, NEW k, pc[t] = "free_client", k \in InUse(t)
  PROVE  t \in Freeing(k)
  BY DEF InUse, Freeing, Freed, DonePcs

LEMMA MemoryInvariant ==
  Spec => [](TypeInv /\ TaskInv /\ CountInv /\ MemoryInv /\ BevInv)
  BY TypeInit, TaskInit, CountInit, MemoryInit, BevInit,
     TypeNext, TaskNext, CountNext, MemoryNext, BevNext, PTL DEF Spec

(* Whatever the order of the loop, the echo threads and lost connections:   *)
(* no thread has a freed client in its hands, none sends on a freed         *)
(* bufferevent, and each client is freed by one thread.                     *)
THEOREM NothingUsedAfterFree == Spec => []NoUseAfterFree
<1>1. TypeInv /\ TaskInv /\ MemoryInv /\ BevInv => NoUseAfterFree
  <2> SUFFICES ASSUME TypeInv, TaskInv, MemoryInv, BevInv, NEW t \in Threads
               PROVE  /\ \A k \in InUse(t) : memory[k] = "allocated"
                      /\ pc[t] \in Sending => link[Client(t)] # "freed"
                      /\ \A u \in Threads \ {t} :
                           pc[t] = "free_client" => InUse(t) \cap InUse(u) = {}
    BY DEF NoUseAfterFree, Sending
  <2>1. \A k \in InUse(t) : memory[k] = "allocated"
    BY UseIsHeld DEF MemoryInv
  <2>2. pc[t] \in Sending => link[Client(t)] # "freed"
    <3>1. pc[t] \in Sending => Client(t) \in Conns
      BY TaskTypes DEF Sending, Replying, TaskInv
    <3> QED
      BY <3>1 DEF BevInv
  <2>3. ASSUME pc[t] = "free_client", NEW u \in Threads \ {t},
               NEW k \in InUse(t), k \in InUse(u)
        PROVE  FALSE
    <3>1. k \in Conns /\ t \in Freeing(k)
      BY <2>3, UseIsHeld, FreedUses
    <3>2. Holders(k) = {} /\ u \notin Freeing(k)
      BY <3>1 DEF MemoryInv
    <3> QED
      BY <2>3, <3>2, UseIsHeld
  <2> QED
    BY <2>1, <2>2, <2>3
<1> QED
  BY <1>1, MemoryInvariant, PTL

-----------------------------------------------------------------------------
(* Answers. *)

(* A connection that is gone does not come back. *)
LEMMA GoneForGood ==
  ASSUME TypeInv, BevInv, [Next]_vars, NEW k \in Conns, Gone(k)
  PROVE  Gone(k)'
<1>0. /\ bev \in [Conns -> BOOLEAN]
      /\ link \in [Conns -> {"none", "open", "lost", "freed"}]
  BY DEF TypeInv, TypeOK
<1>1. ASSUME NEW j \in Conns, AcceptSocketCb(j) PROVE Gone(k)'
  BY <1>0, <1>1 DEF AcceptSocketCb, Gone
<1>2. CASE SetBev
  BY <1>0, <1>2 DEF SetBev, ClearBev, Gone
<1>3. CASE FreeBev
  BY <1>0, <1>3 DEF FreeBev, Gone
<1>4. ASSUME NEW j \in Conns, ConnectionLost(j) PROVE Gone(k)'
  BY <1>0, <1>4 DEF ConnectionLost, Gone
<1>5. ASSUME UNCHANGED <<bev, link>> PROVE Gone(k)'
  BY <1>5 DEF Gone
<1>6. ASSUME NEW j \in Conns, NEW r \in Requests,
             \/ ReadCb(j) \/ EventCb(j) \/ PeerHeartbeat(j)
             \/ PeerReceive(j) \/ PeerSend(j, r)
      PROVE  UNCHANGED <<bev, link>>
  BY <1>6 DEF ReadCb, EventCb, PeerHeartbeat, PeerReceive, PeerSend
<1>7. ASSUME NEW t \in Threads, DoneStep(t) \/ EchoWorker(t)
      PROVE  UNCHANGED <<bev, link>>
  BY <1>7
  DEF DoneStep, SerializeFails, LockReply, AddHeader, AddBody, Release,
      FreeReleased, EchoWorker
<1>8. EchoHeartbeat \/ Decode \/ ReadEnd \/ DropClient \/ FreeDropped
        => UNCHANGED <<bev, link>>
  BY DEF EchoHeartbeat, Decode, ReadEnd, DropClient, FreeDropped
<1>9. \/ UNCHANGED <<bev, link>> \/ SetBev \/ FreeBev
      \/ \E j \in Conns : AcceptSocketCb(j) \/ ConnectionLost(j)
  <2>1. CASE Environment
    <3>1. ASSUME NEW j \in Conns, PeerHeartbeat(j) \/ PeerReceive(j)
          PROVE  UNCHANGED <<bev, link>>
      BY <3>1 DEF PeerHeartbeat, PeerReceive
    <3> QED
      BY <1>6, <2>1, <3>1 DEF Environment
  <2>2. ASSUME NEW j \in Conns, ReadCb(j) \/ EventCb(j)
        PROVE  UNCHANGED <<bev, link>>
    BY <2>2 DEF ReadCb, EventCb
  <2>3. CASE UNCHANGED vars
    BY <2>3 DEF vars
  <2> QED
    BY <1>7, <1>8, <2>1, <2>2, <2>3 DEF Next, CallbackStep
<1> QED
  BY <1>1, <1>2, <1>3, <1>4, <1>5, <1>9

LEMMA AnswerInit == Init => AnswerInv
  BY DEF Init, AnswerInv, AnsweredOnce, Unanswered

LEMMA ClosureFrom ==
  ASSUME TypeInv, TaskInv
  PROVE  /\ \A r \in Requests : closure[r] # "none" => from[r] \in Conns
         /\ \A t \in Threads : pc[t] \in Replying =>
              Task(t) \in Requests /\ from[Task(t)] \in Conns
  BY TaskTypes DEF TaskInv, Opened, Client

(* The steps that make, answer and delete no closure. *)
LEMMA AnswerKept ==
  ASSUME TypeInv, TaskInv, BevInv, AnswerInv, [Next]_vars,
         UNCHANGED <<answered, closure>>,
         \A r \in Requests : from[r] # NULL => from'[r] = from[r],
         cur' = cur \/ pc'[Loop] \notin Unanswered \cup {"release"},
         \A t \in Threads : pc'[t] \in Unanswered => pc[t] \in Unanswered,
         \A t \in Threads : pc'[t] = "release" =>
           \/ pc[t] = "release"
           \/ pc[t] \in Replying /\ Excused(Task(t))
  PROVE  AnswerInv'
<1>1. ASSUME NEW r \in Requests, from[r] \in Conns, Gone(from[r])
      PROVE  Gone(from[r])'
  <2>1. from'[r] = from[r]
    BY <1>1, ServerAssumption
  <2>2. PICK k \in Conns : k = from[r]
    BY <1>1
  <2>3. Gone(k)'
    BY <1>1, <2>2, GoneForGood
  <2> QED
    BY <2>1, <2>2, <2>3 DEF Gone
<1>2. AnsweredOnce'
  BY <1>1, ClosureFrom DEF AnswerInv, AnsweredOnce, Gone
<1>3. ASSUME NEW t \in Threads
      PROVE  /\ pc'[t] \in Unanswered => answered'[Task(t)'] = 0
             /\ pc'[t] = "release" /\ answered'[Task(t)'] = 0 =>
                  Excused(Task(t))'
  <2>1. pc'[t] \in Unanswered \cup {"release"} => Task(t)' = Task(t)
    BY DEF Task
  <2>2. pc'[t] \in Unanswered => answered'[Task(t)'] = 0
    BY <2>1 DEF AnswerInv
  <2>3. ASSUME pc'[t] = "release", answered'[Task(t)'] = 0
        PROVE  Excused(Task(t))'
    <3>1. pc[t] \in Replying /\ Excused(Task(t))
      BY <2>1, <2>3 DEF AnswerInv, Replying
    <3>2. PICK r \in Requests : r = Task(t) /\ from[r] \in Conns
      BY <3>1, ClosureFrom
    <3>3. r \in HugeRequests \/ Gone(from[r])'
      BY <1>1, <3>1, <3>2 DEF Excused
    <3>4. Task(t)' = r
      BY <2>1, <2>3, <3>2
    <3> QED
      BY <3>3, <3>4 DEF Excused, Gone
  <2> QED
    BY <2>2, <2>3
<1> QED
  BY <1>2, <1>3 DEF AnswerInv

(* A closure is made for a request that has none, and has no answer yet. *)
LEMMA AnswerDecode ==
  ASSUME TypeInv, TaskInv, AnswerInv, Decode
  PROVE  AnswerInv'
<1> DEFINE r == Head(input[at]).req
<1>0. /\ pc \in [Threads -> LoopPcs \cup DonePcs \cup EchoPcs]
      /\ closure \in [Requests -> {"none", "alive", "deleted"}]
      /\ Loop \in Threads /\ Loop \notin Requests
  BY ServerAssumption DEF TypeInv, TypeOK, Threads
<1>1. /\ r \in Requests /\ closure[r] = "none" /\ answered[r] = 0
  <2>1. at \in Conns /\ input[at] # <<>> /\ Head(input[at]) # Heartbeat
    BY DEF Decode, TypeInv, Located
  <2>2. r \in Requests /\ closure[r] = "none"
    BY <2>1, TailOf DEF TypeInv, TypeOK, TaskInv, Queued
  <2> QED
    BY <2>2 DEF AnswerInv, AnsweredOnce
<1>2. /\ UNCHANGED <<bev, link, from, answered>>
      /\ closure' = closure \/ closure' = [closure EXCEPT ![r] = "alive"]
      /\ \/ UNCHANGED <<pc, cur>>
         \/ cur' = r /\ pc' = [pc EXCEPT ![Loop] = "lock_reply"]
         \/ /\ r \in EchoRequests /\ cur' = cur
            /\ pc' = [pc EXCEPT ![r] = "sleep"]
  BY DEF Decode, Goto
<1>3. AnsweredOnce'
  <2>1. \A q \in Requests :
          closure'[q] = closure[q] \/ (closure'[q] = "alive" /\ answered[q] = 0)
    BY <1>0, <1>1, <1>2
  <2> QED
    BY <1>2, <2>1 DEF AnswerInv, AnsweredOnce
<1>4. ASSUME NEW t \in Threads
      PROVE  /\ pc'[t] \in Unanswered => answered'[Task(t)'] = 0
             /\ pc'[t] = "release" /\ answered'[Task(t)'] = 0 =>
                  Excused(Task(t))'
  <2>1. CASE pc'[t] = pc[t] /\ Task(t)' = Task(t)
    BY <1>2, <2>1 DEF AnswerInv, Excused, Gone
  <2>2. CASE pc'[t] \in {"lock_reply", "sleep"} /\ Task(t)' = r
    BY <1>1, <1>2, <2>2
  <2>3. CASE UNCHANGED <<pc, cur>>
    BY <2>1, <2>3 DEF Task
  <2>4. CASE cur' = r /\ pc' = [pc EXCEPT ![Loop] = "lock_reply"]
    BY <1>0, <2>1, <2>2, <2>4 DEF Task
  <2>5. CASE /\ r \in EchoRequests /\ cur' = cur
             /\ pc' = [pc EXCEPT ![r] = "sleep"]
    BY <1>0, <1>1, <2>1, <2>2, <2>5 DEF Task
  <2> QED
    BY <1>2, <2>3, <2>4, <2>5
<1> QED
  BY <1>3, <1>4 DEF AnswerInv

(* A thread that finds client->bev NULL gives no answer, nor does one that   *)
(* cannot serialise the reply.                                              *)
LEMMA AnswerLock ==
  ASSUME TypeInv, TaskInv, BevInv, AnswerInv, [Next]_vars,
         NEW t \in Threads, LockReply(t)
  PROVE  AnswerInv'
<1>0. /\ pc \in [Threads -> LoopPcs \cup DonePcs \cup EchoPcs]
      /\ link \in [Conns -> {"none", "open", "lost", "freed"}]
  BY DEF TypeInv, TypeOK
<1>1. /\ UNCHANGED <<answered, closure, from, cur>> /\ pc[t] = "lock_reply"
      /\ pc'[t] = IF bev[Client(t)] THEN "add_header" ELSE "release"
      /\ \A u \in Threads \ {t} : pc'[u] = pc[u]
  BY <1>0 DEF LockReply, Goto
<1>2. ~bev[Client(t)] => Gone(from[Task(t)])
  <2>1. Task(t) \in Requests /\ Client(t) \in Conns /\ closure[Task(t)] = "alive"
    BY <1>1, TaskTypes DEF TaskInv, Tasks, Replying
  <2>2. link[Client(t)] # "none"
    BY <2>1 DEF TaskInv, Opened, Client
  <2> QED
    BY <1>0, <2>1, <2>2 DEF BevInv, Gone, Client
<1>3. \A u \in Threads : pc'[u] \in Unanswered => pc[u] \in Unanswered
  BY <1>1 DEF Unanswered
<1>4. \A u \in Threads : pc'[u] = "release" =>
        \/ pc[u] = "release"
        \/ pc[u] \in Replying /\ Excused(Task(u))
  BY <1>1, <1>2 DEF Replying, Excused
<1> QED
  BY <1>1, <1>3, <1>4, AnswerKept

LEMMA AnswerHuge ==
  ASSUME TypeInv, TaskInv, BevInv, AnswerInv, [Next]_vars,
         NEW t \in Threads, SerializeFails(t)
  PROVE  AnswerInv'
<1>0. pc \in [Threads -> LoopPcs \cup DonePcs \cup EchoPcs]
  BY DEF TypeInv, TypeOK
<1>1. /\ UNCHANGED <<answered, closure, from, cur>> /\ pc[t] = "lock_reply"
      /\ pc'[t] = "release" /\ Task(t) \in HugeRequests
      /\ \A u \in Threads \ {t} : pc'[u] = pc[u]
  BY <1>0 DEF SerializeFails, Goto
<1>2. \A u \in Threads : pc'[u] \in Unanswered => pc[u] \in Unanswered
  BY <1>1 DEF Unanswered
<1>3. \A u \in Threads : pc'[u] = "release" =>
        \/ pc[u] = "release"
        \/ pc[u] \in Replying /\ Excused(Task(u))
  BY <1>1 DEF Replying, Excused
<1> QED
  BY <1>1, <1>2, <1>3, AnswerKept

LEMMA AnswerBody ==
  ASSUME TypeInv, TaskInv, AnswerInv, NEW t \in Threads, AddBody(t)
  PROVE  AnswerInv'
<1>0. /\ pc \in [Threads -> LoopPcs \cup DonePcs \cup EchoPcs]
      /\ answered \in [Requests -> Nat]
  BY DEF TypeInv, TypeOK
<1>1. PICK r \in Requests : r = Task(t)
  BY TaskTypes DEF AddBody, Replying, TaskInv
<1>2. /\ pc[t] = "add_body" /\ pc'[t] = "release"
      /\ answered' = [answered EXCEPT ![r] = @ + 1]
      /\ UNCHANGED <<bev, link, from, closure, cur>>
      /\ \A u \in Threads \ {t} : pc'[u] = pc[u]
  BY <1>0, <1>1 DEF AddBody, Goto
<1>3. answered[r] = 0 /\ closure[r] = "alive" /\ r # NULL
  BY <1>1, <1>2, ServerAssumption
  DEF AnswerInv, Unanswered, TaskInv, Tasks, Replying, Requests
<1>4. answered'[r] = 1 /\ \A q \in Requests \ {r} : answered'[q] = answered[q]
  BY <1>0, <1>2, <1>3
<1>5. AnsweredOnce'
  <2>1. \A q \in Requests : q # r => answered'[q] = answered[q]
    BY <1>4
  <2> QED
    BY <1>2, <1>3, <1>4, <2>1 DEF AnswerInv, AnsweredOnce
<1>6. ASSUME NEW u \in Threads
      PROVE  /\ pc'[u] \in Unanswered => answered'[Task(u)'] = 0
             /\ pc'[u] = "release" /\ answered'[Task(u)'] = 0 =>
                  Excused(Task(u))'
  <2>1. Task(u)' = Task(u)
    BY <1>2 DEF Task
  <2>2. CASE u = t
    BY <1>1, <1>2, <1>4, <2>1, <2>2 DEF Unanswered
  <2>3. CASE u # t
    <3>1. Task(u) # r
      BY <1>1, <1>3, <2>3, TasksDiffer
    <3>2. answered'[Task(u)] = answered[Task(u)]
      BY <1>0, <1>2, <3>1
    <3> QED
      BY <1>2, <2>1, <2>3, <3>2 DEF AnswerInv, Excused, Gone
  <2> QED
    BY <2>2, <2>3
<1> QED
  BY <1>5, <1>6 DEF AnswerInv

LEMMA AnswerRelease ==
  ASSUME TypeInv, TaskInv, AnswerInv, NEW t \in Threads, Release(t)
  PROVE  AnswerInv'
<1>0. /\ pc \in [Threads -> LoopPcs \cup DonePcs \cup EchoPcs]
      /\ closure \in [Requests -> {"none", "alive", "deleted"}]
  BY DEF TypeInv, TypeOK
<1>1. PICK r \in Requests : r = Task(t)
  BY TaskTypes DEF Release, Replying, TaskInv
<1>2. /\ pc[t] = "release" /\ pc'[t] \notin Unanswered \cup {"release"}
      /\ closure' = [closure EXCEPT ![r] = "deleted"]
      /\ UNCHANGED <<bev, link, from, answered>>
      /\ \A u \in Threads \ {t} : pc'[u] = pc[u]
      /\ t # Loop => cur' = cur
  BY <1>0, <1>1
  DEF Release, Unreference, AfterDone, Goto, Leave, Unanswered
<1>3. AnsweredOnce'
  <2>1. answered[r] = 0 => Excused(r)
    BY <1>1, <1>2 DEF AnswerInv
  <2>2. /\ closure'[r] = "deleted"
        /\ \A q \in Requests : q # r => closure'[q] = closure[q]
    BY <1>0, <1>2
  <2> QED
    BY <1>2, <2>1, <2>2 DEF AnswerInv, AnsweredOnce, Excused, Gone
<1>4. ASSUME NEW u \in Threads
      PROVE  /\ pc'[u] \in Unanswered => answered'[Task(u)'] = 0
             /\ pc'[u] = "release" /\ answered'[Task(u)'] = 0 =>
                  Excused(Task(u))'
  <2>1. CASE u = t
    BY <1>2, <2>1
  <2>2. CASE u # t
    <3>1. Task(u)' = Task(u)
      BY <1>2, <2>2 DEF Task
    <3> QED
      BY <1>2, <2>2, <3>1 DEF AnswerInv, Excused, Gone
  <2> QED
    BY <2>1, <2>2
<1> QED
  BY <1>3, <1>4 DEF AnswerInv

LEMMA AnswerNext ==
  ASSUME TypeInv, TaskInv, BevInv, AnswerInv, [Next]_vars
  PROVE  AnswerInv'
<1>0. /\ pc \in [Threads -> LoopPcs \cup DonePcs \cup EchoPcs]
      /\ from \in [Requests -> Conns \cup {NULL}]
      /\ Loop \in Threads
  BY DEF TypeInv, TypeOK, Threads
<1>1. ASSUME NEW k \in Conns,
             AcceptSocketCb(k) \/ ReadCb(k) \/ EventCb(k) PROVE AnswerInv'
  <2>1. /\ UNCHANGED <<answered, closure, from, cur>>
        /\ \A t \in Threads : \/ pc'[t] = pc[t]
                              \/ pc'[t] \in {"read", "set_bev"}
    BY <1>0, <1>1 DEF AcceptSocketCb, ReadCb, EventCb, Goto
  <2> QED
    BY <2>1, AnswerKept DEF Unanswered
<1>2. CASE CallbackStep /\ ~Decode
  <2>1. /\ UNCHANGED <<answered, closure, from, cur>>
        /\ \A t \in Threads :
             \/ pc'[t] = pc[t]
             \/ pc'[t] \in {"poll", "drop_client", "free_bev", "free_client"}
    BY <1>0, <1>2
    DEF CallbackStep, EchoHeartbeat, ReadEnd, SetBev, DropClient, FreeDropped,
        FreeBev, Unreference, Goto
  <2> QED
    BY <2>1, AnswerKept DEF Unanswered
<1>3. ASSUME NEW t \in Threads,
             AddHeader(t) \/ FreeReleased(t) \/ EchoWorker(t)
      PROVE  AnswerInv'
  <2>1. /\ UNCHANGED <<answered, closure, from>>
        /\ \/ pc[t] \in Unanswered /\ pc'[t] \in Unanswered /\ cur' = cur
           \/ pc'[t] \in {"read", "exited"} /\ (t # Loop => cur' = cur)
        /\ \A u \in Threads \ {t} : pc'[u] = pc[u]
    BY <1>0, <1>3
    DEF AddHeader, FreeReleased, EchoWorker, AfterDone, Leave, Goto, Unanswered
  <2>2. /\ \A u \in Threads : pc'[u] \in Unanswered => pc[u] \in Unanswered
        /\ \A u \in Threads : pc'[u] = "release" => pc[u] = "release"
        /\ cur' = cur \/ pc'[Loop] \notin Unanswered \cup {"release"}
    BY <2>1 DEF Unanswered
  <2> QED
    BY <2>1, <2>2, AnswerKept
<1>4. CASE Environment
  <2>1. /\ UNCHANGED <<answered, closure, cur, pc>>
        /\ \A r \in Requests : from[r] # NULL => from'[r] = from[r]
    <3>1. ASSUME NEW k \in Conns, NEW r \in Requests, PeerSend(k, r)
          PROVE  /\ UNCHANGED <<answered, closure, cur, pc>>
                 /\ \A q \in Requests : from[q] # NULL => from'[q] = from[q]
      BY <1>0, <3>1 DEF PeerSend
    <3>2. ASSUME NEW k \in Conns,
                 PeerHeartbeat(k) \/ PeerReceive(k) \/ ConnectionLost(k)
          PROVE  UNCHANGED <<answered, closure, cur, pc, from>>
      BY <3>2 DEF PeerHeartbeat, PeerReceive, ConnectionLost
    <3> QED
      BY <1>4, <3>1, <3>2 DEF Environment
  <2> QED
    BY <2>1, AnswerKept
<1>5. CASE UNCHANGED vars
  <2>1. UNCHANGED <<answered, closure, from, cur, pc>>
    BY <1>5 DEF vars
  <2> QED
    BY <2>1, AnswerKept
<1> QED
  BY <1>1, <1>2, <1>3, <1>4, <1>5,
     AnswerDecode, AnswerHuge, AnswerLock, AnswerBody, AnswerRelease
  DEF Next, DoneStep, CallbackStep

(* A request is answered at most once, and a closure that was deleted       *)
(* unanswered came by a connection that was lost before the answer, unless  *)
(* its reply was too large to be serialised.                                *)
THEOREM EachAnsweredOnce == Spec => []AnsweredOnce
<1>1. AnswerInv => AnsweredOnce
  BY DEF AnswerInv
<1>2. Init /\ [][Next]_vars => [](TypeInv /\ TaskInv /\ CountInv /\ BevInv /\ AnswerInv)
  BY TypeInit, TaskInit, CountInit, BevInit, AnswerInit,
     TypeNext, TaskNext, CountNext, BevNext, AnswerNext, PTL
<1> QED
  BY <1>1, <1>2, PTL DEF Spec

-----------------------------------------------------------------------------
(* Frames. *)

(* A header is followed by its body, if by anything, and a body stands      *)
(* behind its header.                                                       *)
Framed(s, k) ==
  \A i \in 1..Len(s) :
    /\ s[i].kind = "header" => from[s[i].req] = k
    /\ s[i].kind = "header" /\ i < Len(s) => s[i + 1] = Body(s[i].req)
    /\ s[i].kind = "body" => i > 1 /\ s[i - 1] = Header(s[i].req)

Half(s) == s # <<>> /\ s[Len(s)].kind = "header"
EndsIn(s, r) == s # <<>> /\ s[Len(s)] = Header(r)

(* A header is last exactly when a thread is about to add its body.         *)
FrameInv ==
  /\ \A k \in Conns : Framed(output[k], k)
  /\ \A k \in Conns :
       Half(output[k]) =>
         \E t \in Threads : pc[t] = "add_body" /\ EndsIn(output[k], Task(t))
  /\ \A t \in Threads :
       pc[t] = "add_body" => EndsIn(output[Client(t)], Task(t))

LEMMA FrameInit == Init => FrameInv
<1> SUFFICES ASSUME Init PROVE FrameInv
  OBVIOUS
<1>1. \A k \in Conns : output[k] = <<>>
  BY DEF Init
<1>2. \A k \in Conns : Framed(output[k], k) /\ ~Half(output[k])
  BY <1>1 DEF Framed, Half
<1>3. \A t \in Threads : pc[t] # "add_body"
  BY DEF Init
<1> QED
  BY <1>2, <1>3 DEF FrameInv

LEMMA FrameAppend ==
  ASSUME NEW s \in Seq(Chunks), NEW x \in Chunks, NEW k, Framed(s, k),
         x.kind = "header" => from[x.req] = k,
         Half(s) => x = Body(s[Len(s)].req),
         x.kind = "body" => EndsIn(s, x.req)
  PROVE  Framed(Append(s, x), k)
<1> DEFINE u == Append(s, x)
           n == Len(s)
<1>1. /\ u \in Seq(Chunks) /\ Len(u) = n + 1 /\ n \in Nat
      /\ \A i \in 1..n : u[i] = s[i]
      /\ u[n + 1] = x
  BY AppendProperties, LenProperties
<1>2. n > 0 => s # <<>>
  BY EmptySeq
<1>3. s # <<>> => n > 0
  BY EmptySeq
<1> HIDE DEF u
<1>4. ASSUME NEW i \in 1..(n + 1)
      PROVE  /\ u[i].kind = "header" => from[u[i].req] = k
             /\ u[i].kind = "header" /\ i < n + 1 => u[i + 1] = Body(u[i].req)
             /\ u[i].kind = "body" => i > 1 /\ u[i - 1] = Header(u[i].req)
  <2>1. CASE i = n + 1
    <3>1. x.kind = "body" => n > 0 /\ u[n] = Header(x.req)
      BY <1>1, <1>3 DEF EndsIn
    <3> QED
      BY <1>1, <2>1, <3>1
  <2>2. CASE i = n /\ i # n + 1
    <3>1. u[i].kind = "header" => u[i + 1] = Body(u[i].req)
      BY <1>1, <1>2, <2>2 DEF Half
    <3>2. u[i].kind = "body" => i > 1 /\ u[i - 1] = Header(u[i].req)
      BY <1>1, <2>2 DEF Framed
    <3> QED
      BY <1>1, <2>2, <3>1, <3>2 DEF Framed
  <2>3. CASE i < n
    BY <1>1, <2>3 DEF Framed
  <2> QED
    BY <1>1, <2>1, <2>2, <2>3
<1>5. Framed(u, k)
  BY <1>1, <1>4 DEF Framed
<1> QED
  BY <1>5 DEF u

(* What is left of a framed buffer when libevent has written a packet.      *)
LEMMA FrameRest ==
  ASSUME NEW s \in Seq(Chunks), NEW u \in Seq(Chunks), NEW k, Framed(s, k),
         NEW n \in Nat, Len(u) = Len(s) - n,
         \A i \in 1..Len(u) : u[i] = s[i + n],
         u # <<>> => u[1].kind # "body"
  PROVE  Framed(u, k)
<1>1. Len(u) \in Nat /\ Len(s) \in Nat /\ (Len(u) > 0 => u # <<>>)
  BY EmptySeq, LenProperties
<1>2. ASSUME NEW i \in 1..Len(u)
      PROVE  /\ u[i].kind = "header" => from[u[i].req] = k
             /\ u[i].kind = "header" /\ i < Len(u) => u[i + 1] = Body(u[i].req)
             /\ u[i].kind = "body" => i > 1 /\ u[i - 1] = Header(u[i].req)
  <2>1. i + n \in 1..Len(s) /\ u[i] = s[i + n]
    BY <1>1
  <2>2. i < Len(u) => i + n < Len(s) /\ u[i + 1] = s[(i + n) + 1]
    BY <1>1
  <2>3. i > 1 => u[i - 1] = s[(i + n) - 1]
    BY <1>1
  <2>4. u[i].kind = "body" => i > 1
    BY <1>1
  <2> QED
    BY <2>1, <2>2, <2>3, <2>4 DEF Framed
<1> QED
  BY <1>2 DEF Framed

(* Half a packet is at the end of a buffer only while its sender, which has *)
(* the lock of the client, is there.                                        *)
LEMMA HalfHasSender ==
  ASSUME TypeInv, TaskInv, BevInv, FrameInv, NEW k \in Conns, Half(output[k])
  PROVE  \E t \in Threads : /\ pc[t] = "add_body" /\ Client(t) = k
                            /\ lock[k] = t /\ bev[k]
<1>1. PICK t \in Threads : pc[t] = "add_body" /\ EndsIn(output[k], Task(t))
  BY DEF FrameInv
<1>2. /\ output[k] \in Seq(Chunks) /\ output[k] # <<>>
      /\ Len(output[k]) \in 1..Len(output[k])
  BY EmptySeq, LenProperties DEF Half, TypeInv, TypeOK
<1>3. output[k][Len(output[k])].req = Task(t)
  BY <1>1 DEF EndsIn, Header
<1>4. Client(t) = k
  BY <1>2, <1>3 DEF Half, FrameInv, Framed, Client
<1> QED
  BY <1>1, <1>4 DEF BevInv, Sending

LEMMA FramedKept ==
  ASSUME TypeInv, NEW k \in Conns, Framed(output[k], k), output'[k] = output[k],
         \A r \in Requests : from[r] # NULL => from'[r] = from[r]
  PROVE  Framed(output[k], k)'
<1>1. ASSUME NEW i \in 1..Len(output[k]), output[k][i].kind = "header"
      PROVE  from'[output[k][i].req] = k
  <2>1. output[k] \in Seq(Chunks) /\ output[k][i] \in Chunks
    BY LenProperties, ElementOfSeq DEF TypeInv, TypeOK
  <2>2. output[k][i].req \in Requests
    BY <1>1, <2>1 DEF Chunks
  <2>3. from[output[k][i].req] = k /\ k # NULL
    BY <1>1, ServerAssumption DEF Framed
  <2> QED
    BY <2>2, <2>3
<1> QED
  BY <1>1 DEF Framed, Body, Header

(* A step that changes no output but that of K, where it leaves frames.     *)
FramesAt(K) ==
  /\ \A r \in Requests : from[r] # NULL => from'[r] = from[r]
  /\ \A k \in Conns \ K : output'[k] = output[k]
  /\ cur' = cur \/ pc[Loop] # "add_body"
  /\ \A t \in Threads :
       pc[t] = "add_body" /\ Client(t) \notin K => pc'[t] = "add_body"
  /\ \A t \in Threads :
       pc'[t] = "add_body" =>
         \/ pc[t] = "add_body" /\ Client(t) \notin K
         \/ Client(t)' \in K /\ EndsIn(output[Client(t)], Task(t))'
  /\ \A k \in K :
       /\ Framed(output[k], k)'
       /\ Half(output[k])' =>
            \E t \in Threads : pc'[t] = "add_body" /\ EndsIn(output[k], Task(t))'

LEMMA FramesStep ==
  ASSUME TypeInv, TaskInv, FrameInv, NEW K \in SUBSET Conns, FramesAt(K)
  PROVE  FrameInv'
<1> USE DEF FramesAt
<1>1. ASSUME NEW t \in Threads, pc[t] = "add_body"
      PROVE  Task(t)' = Task(t) /\ Client(t)' = Client(t) /\ Client(t) \in Conns
  BY <1>1, TaskKept DEF Replying
<1>2. \A k \in Conns : Framed(output[k], k)'
  BY FramedKept DEF FrameInv
<1>3. ASSUME NEW k \in Conns \ K, Half(output[k])'
      PROVE  \E t \in Threads : pc'[t] = "add_body" /\ EndsIn(output[k], Task(t))'
  <2>1. Half(output[k])
    BY <1>3 DEF Half
  <2>2. PICK t \in Threads : pc[t] = "add_body" /\ EndsIn(output[k], Task(t))
    BY <2>1 DEF FrameInv
  <2>3. Client(t) = k
    <3>1. /\ output[k] \in Seq(Chunks)
          /\ Len(output[k]) \in 1..Len(output[k])
      BY <2>1, EmptySeq, LenProperties DEF Half, TypeInv, TypeOK
    <3>2. output[k][Len(output[k])].req = Task(t)
      BY <2>2 DEF EndsIn, Header
    <3> QED
      BY <2>1, <3>1, <3>2 DEF Half, FrameInv, Framed, Client
  <2>4. pc'[t] = "add_body" /\ Task(t)' = Task(t)
    BY <1>1, <2>2, <2>3
  <2>5. EndsIn(output[k], Task(t))'
    BY <2>2, <2>4 DEF EndsIn, Header
  <2> QED
    BY <2>4, <2>5
<1>4. ASSUME NEW t \in Threads, pc'[t] = "add_body"
      PROVE  EndsIn(output[Client(t)], Task(t))'
  <2>1. CASE pc[t] = "add_body" /\ Client(t) \notin K
    <3>1. Task(t)' = Task(t) /\ Client(t)' = Client(t) /\ Client(t) \in Conns
      BY <1>1, <2>1
    <3>2. EndsIn(output[Client(t)], Task(t)) /\ output'[Client(t)] = output[Client(t)]
      BY <2>1, <3>1 DEF FrameInv
    <3> QED
      BY <3>1, <3>2 DEF EndsIn, Header
  <2> QED
    BY <1>4, <2>1
<1> QED
  BY <1>2, <1>3, <1>4 DEF FrameInv

(* The steps that add nothing to an output buffer and take nothing out.     *)
LEMMA FrameQuiet ==
  ASSUME TypeInv, TaskInv, FrameInv, output' = output,
         \A r \in Requests : from[r] # NULL => from'[r] = from[r],
         cur' = cur \/ pc[Loop] # "add_body",
         \A t \in Threads : pc'[t] = "add_body" <=> pc[t] = "add_body"
  PROVE  FrameInv'
<1>1. FramesAt({})
  BY DEF FramesAt
<1> QED
  BY <1>1, FramesStep

LEMMA FrameCallback ==
  ASSUME TypeInv, TaskInv, FrameInv,
         Decode \/ ReadEnd \/ SetBev \/ DropClient \/ FreeDropped
  PROVE  FrameInv'
<1>0. /\ pc \in [Threads -> LoopPcs \cup DonePcs \cup EchoPcs]
      /\ Loop \in Threads
  BY DEF TypeInv, TypeOK, Threads
<1>1. CASE Decode
  <2>1. /\ UNCHANGED <<output, from>> /\ pc[Loop] = "read"
        /\ \/ pc' = pc
           \/ pc' = [pc EXCEPT ![Loop] = "lock_reply"]
           \/ \E r \in EchoRequests :
                /\ r = Head(input[at]).req
                /\ pc' = [pc EXCEPT ![r] = "sleep"]
    BY <1>1 DEF Decode, Goto
  <2>2. ASSUME NEW r \in EchoRequests, r = Head(input[at]).req
        PROVE  pc[r] # "add_body"
    <3>1. at \in Conns /\ input[at] # <<>> /\ Head(input[at]) # Heartbeat
      BY <1>1 DEF Decode, TypeInv, Located
    <3>2. closure[r] = "none"
      BY <2>2, <3>1, TailOf DEF TypeInv, TypeOK, TaskInv, Queued
    <3>3. r \in Threads /\ Task(r) = r
      BY ServerAssumption DEF Threads, Task, Requests
    <3> QED
      BY <3>2, <3>3 DEF TaskInv, Tasks, Replying
  <2>3. \A t \in Threads : pc'[t] = "add_body" <=> pc[t] = "add_body"
    BY <1>0, <2>1, <2>2
  <2> QED
    BY <2>1, <2>3, FrameQuiet
<1>2. CASE ReadEnd \/ SetBev \/ DropClient \/ FreeDropped
  <2>1. /\ UNCHANGED <<output, from, cur>>
        /\ pc[Loop] # "add_body" /\ pc'[Loop] # "add_body"
        /\ \A t \in Threads \ {Loop} : pc'[t] = pc[t]
    BY <1>0, <1>2
    DEF ReadEnd, SetBev, DropClient, FreeDropped, Unreference, Goto
  <2> QED
    BY <2>1, FrameQuiet
<1> QED
  BY <1>1, <1>2

(* A heartbeat is sent back, or a bufferevent freed, when nobody sends.     *)
LEMMA FrameHeartbeat ==
  ASSUME TypeInv, TaskInv, BevInv, FrameInv, EchoHeartbeat
  PROVE  FrameInv'
<1>1. PICK k \in Conns : k = at
  BY DEF EchoHeartbeat, TypeInv, Located
<1>2. /\ lock[k] = NULL /\ NULL \notin Threads
      /\ output' = [output EXCEPT ![k] = Append(@, Heartbeat)]
      /\ UNCHANGED <<pc, cur, from>>
      /\ output[k] \in Seq(Chunks) /\ output \in [Conns -> Seq(Chunks)]
  BY <1>1, ServerAssumption
  DEF EchoHeartbeat, LockFree, TypeInv, TypeOK, Threads, Requests
<1>3. ~Half(output[k])
  BY <1>2, HalfHasSender
<1>4. \A t \in Threads : pc[t] = "add_body" => Client(t) # k
  BY <1>2 DEF BevInv, Sending
<1>5. /\ Heartbeat \in Chunks /\ Heartbeat.kind = "heartbeat"
      /\ output'[k] = Append(output[k], Heartbeat)
      /\ \A j \in Conns \ {k} : output'[j] = output[j]
  BY <1>2, ChunkTypes DEF Heartbeat
<1>6. Framed(Append(output[k], Heartbeat), k)
  BY <1>2, <1>3, <1>5, FrameAppend DEF FrameInv
<1>7. Framed(output[k], k)'
  BY <1>2, <1>5, <1>6 DEF Framed, Body, Header
<1>8. ~Half(output[k])'
  <2>1. output'[k][Len(output'[k])] = Heartbeat
    BY <1>2, <1>5, AppendProperties
  <2> QED
    BY <1>5, <2>1 DEF Half
<1>9. FramesAt({k})
  BY <1>2, <1>4, <1>5, <1>7, <1>8 DEF FramesAt
<1> QED
  BY <1>9, FramesStep

LEMMA FrameFree ==
  ASSUME TypeInv, TaskInv, BevInv, FrameInv, FreeBev
  PROVE  FrameInv'
<1>1. PICK k \in Conns : k = at
  BY DEF FreeBev, TypeInv, Located
<1>2. /\ ~bev[k]
      /\ output' = [output EXCEPT ![k] = <<>>]
      /\ UNCHANGED <<cur, from>>
      /\ pc[Loop] = "free_bev" /\ pc'[Loop] = "poll"
      /\ \A t \in Threads \ {Loop} : pc'[t] = pc[t]
      /\ output \in [Conns -> Seq(Chunks)]
  BY <1>1 DEF FreeBev, Goto, BevInv, Detaching, TypeInv, TypeOK, Threads
<1>3. \A t \in Threads : pc[t] = "add_body" => Client(t) # k
  BY <1>2 DEF BevInv, Sending
<1>4. output'[k] = <<>> /\ \A j \in Conns \ {k} : output'[j] = output[j]
  BY <1>2
<1>5. Framed(output[k], k)' /\ ~Half(output[k])'
  BY <1>4 DEF Framed, Half
<1>6. \A t \in Threads : pc'[t] = "add_body" <=> pc[t] = "add_body"
  BY <1>2
<1>7. FramesAt({k})
  BY <1>2, <1>3, <1>4, <1>5, <1>6 DEF FramesAt
<1> QED
  BY <1>7, FramesStep

LEMMA FrameHeader ==
  ASSUME TypeInv, TaskInv, BevInv, FrameInv, NEW t \in Threads, AddHeader(t)
  PROVE  FrameInv'
<1>1. PICK k \in Conns, r \in Requests : k = Client(t) /\ r = Task(t)
  BY TaskTypes DEF AddHeader, Replying, TaskInv
<1>2. /\ from[r] = k /\ lock[k] = t
      /\ pc[t] = "add_header" /\ pc'[t] = "add_body"
      /\ \A u \in Threads \ {t} : pc'[u] = pc[u]
      /\ UNCHANGED <<cur, from>>
      /\ output' = [output EXCEPT ![k] = Append(@, Header(r))]
      /\ output \in [Conns -> Seq(Chunks)]
  BY <1>1 DEF AddHeader, Goto, BevInv, Sending, Client, TypeInv, TypeOK
<1>3. Task(t)' = r /\ Client(t)' = k
  BY <1>1, <1>2 DEF Task, Client
<1>4. ~Half(output[k])
  BY <1>2, HalfHasSender
<1>5. \A u \in Threads : pc[u] = "add_body" => Client(u) # k
  BY <1>2 DEF BevInv, Sending
<1>6. /\ Header(r) \in Chunks /\ Header(r).kind = "header" /\ Header(r).req = r
      /\ output'[k] = Append(output[k], Header(r)) /\ output[k] \in Seq(Chunks)
      /\ \A j \in Conns \ {k} : output'[j] = output[j]
  BY <1>2, ChunkTypes DEF Header
<1>7. Framed(Append(output[k], Header(r)), k)
  BY <1>2, <1>4, <1>6, FrameAppend DEF FrameInv
<1>8. Framed(output[k], k)'
  BY <1>2, <1>6, <1>7 DEF Framed, Body, Header
<1>9. EndsIn(output[Client(t)], Task(t))' /\ EndsIn(output[k], Task(t))'
  <2>1. output'[k] # <<>> /\ output'[k][Len(output'[k])] = Header(r)
    BY <1>6, AppendProperties
  <2> QED
    BY <1>3, <2>1 DEF EndsIn, Header
<1>10. FramesAt({k})
  BY <1>2, <1>3, <1>5, <1>6, <1>8, <1>9 DEF FramesAt
<1> QED
  BY <1>10, FramesStep

LEMMA FrameBody ==
  ASSUME TypeInv, TaskInv, BevInv, FrameInv, NEW t \in Threads, AddBody(t)
  PROVE  FrameInv'
<1>1. PICK k \in Conns, r \in Requests : k = Client(t) /\ r = Task(t)
  BY TaskTypes DEF AddBody, Replying, TaskInv
<1>2. /\ lock[k] = t /\ EndsIn(output[k], r)
      /\ pc[t] = "add_body" /\ pc'[t] = "release"
      /\ \A u \in Threads \ {t} : pc'[u] = pc[u]
      /\ UNCHANGED <<cur, from>>
      /\ output' = [output EXCEPT ![k] = Append(@, Body(r))]
      /\ output \in [Conns -> Seq(Chunks)]
  BY <1>1 DEF AddBody, Goto, BevInv, Sending, FrameInv, TypeInv, TypeOK
<1>3. \A u \in Threads : pc[u] = "add_body" /\ Client(u) = k => u = t
  BY <1>2 DEF BevInv, Sending
<1>4. /\ Body(r) \in Chunks /\ Body(r).kind = "body" /\ Body(r).req = r
      /\ output'[k] = Append(output[k], Body(r)) /\ output[k] \in Seq(Chunks)
      /\ \A j \in Conns \ {k} : output'[j] = output[j]
  BY <1>2, ChunkTypes DEF Body
<1>5. output[k][Len(output[k])].req = r
  BY <1>2 DEF EndsIn, Header
<1>6. Framed(Append(output[k], Body(r)), k)
  BY <1>2, <1>4, <1>5, FrameAppend DEF FrameInv
<1>7. Framed(output[k], k)'
  BY <1>2, <1>4, <1>6 DEF Framed, Body, Header
<1>8. ~Half(output[k])'
  <2>1. output'[k][Len(output'[k])] = Body(r)
    BY <1>4, AppendProperties
  <2> QED
    BY <1>4, <2>1 DEF Half
<1>9. \A u \in Threads : pc'[u] = "add_body" => pc[u] = "add_body" /\ u # t
  BY <1>2
<1>10. \A u \in Threads : pc[u] = "add_body" /\ u # t => pc'[u] = "add_body"
  BY <1>2
<1>11. FramesAt({k})
  BY <1>1, <1>2, <1>3, <1>4, <1>7, <1>8, <1>9, <1>10 DEF FramesAt
<1> QED
  BY <1>11, FramesStep

(* libevent writes the first n chunks of k, the last of which is not a      *)
(* header, and leaves u.                                                    *)
Writes(k, n, u) ==
  /\ n <= Len(output[k]) /\ Len(u) = Len(output[k]) - n
  /\ \A i \in 1..Len(u) : u[i] = output[k][i + n]
  /\ output[k][n].kind # "header"
  /\ u # <<>> => u[1].kind # "body"
  /\ output' = [output EXCEPT ![k] = u]

LEMMA FrameTaken ==
  ASSUME TypeInv, TaskInv, FrameInv, UNCHANGED <<pc, cur, from>>,
         NEW k \in Conns, NEW n \in Nat \ {0}, NEW u \in Seq(Chunks),
         Writes(k, n, u)
  PROVE  FrameInv'
<1> USE DEF Writes
<1>1. /\ output \in [Conns -> Seq(Chunks)] /\ output[k] \in Seq(Chunks)
      /\ Len(output[k]) \in Nat /\ Len(u) \in Nat
      /\ u # <<>> <=> Len(u) # 0
      /\ output[k] # <<>> <=> Len(output[k]) # 0
  BY EmptySeq, LenProperties DEF TypeInv, TypeOK
<1>2. output'[k] = u /\ \A j \in Conns \ {k} : output'[j] = output[j]
  BY <1>1
<1>3. Framed(u, k)
  BY <1>1, FrameRest DEF FrameInv
<1>4. Framed(output[k], k)'
  BY <1>2, <1>3 DEF Framed, Body, Header
<1>5. u # <<>> => u[Len(u)] = output[k][Len(output[k])]
  BY <1>1
<1>6. ASSUME NEW t \in Threads, EndsIn(output[k], Task(t))
      PROVE  EndsIn(output[k], Task(t))'
  <2>1. Len(output[k]) # n
    BY <1>6 DEF EndsIn, Header
  <2>2. u # <<>>
    BY <1>1, <2>1
  <2> QED
    BY <1>2, <1>5, <1>6, <2>2 DEF EndsIn, Header, Task
<1>7. Half(output[k])' =>
        \E t \in Threads : pc'[t] = "add_body" /\ EndsIn(output[k], Task(t))'
  <2>1. Half(output[k])' => Half(output[k])
    BY <1>1, <1>2, <1>5 DEF Half
  <2> QED
    BY <1>6, <2>1 DEF FrameInv
<1>8. ASSUME NEW t \in Threads, pc[t] = "add_body", Client(t) = k
      PROVE  Client(t)' = k /\ EndsIn(output[Client(t)], Task(t))'
  <2>1. Client(t)' = k
    BY <1>8 DEF Client, Task
  <2>2. EndsIn(output[k], Task(t))'
    BY <1>6, <1>8 DEF FrameInv
  <2> QED
    BY <2>1, <2>2 DEF EndsIn
<1>9. FramesAt({k})
  BY <1>2, <1>4, <1>7, <1>8 DEF FramesAt
<1> QED
  BY <1>9, FramesStep

LEMMA FrameReceive ==
  ASSUME TypeInv, TaskInv, FrameInv, NEW k \in Conns, PeerReceive(k)
  PROVE  FrameInv'
<1> DEFINE s == output[k]
<1>1. /\ s \in Seq(Chunks) /\ s # <<>> /\ Len(s) \in Nat \ {0}
      /\ Framed(s, k) /\ UNCHANGED <<pc, cur, from>>
  BY EmptySeq DEF PeerReceive, FrameInv, TypeInv, TypeOK
<1>2. /\ Tail(s) \in Seq(Chunks) /\ Len(Tail(s)) = Len(s) - 1
      /\ \A i \in 1..(Len(s) - 1) : Tail(s)[i] = s[i + 1]
      /\ Head(s) = s[1] /\ s[1] \in Chunks
  <2>1. \A i \in DOMAIN Tail(s) : Tail(s)[i] = s[i + 1]
    BY <1>1, TailOf
  <2> QED
    BY <1>1, <2>1, TailOf, LenProperties
<1>3. CASE Head(s) = Heartbeat /\ output' = [output EXCEPT ![k] = Tail(@)]
  <2>1. s[1].kind = "heartbeat"
    BY <1>2, <1>3 DEF Heartbeat
  <2>2. ASSUME Tail(s) # <<>> PROVE Tail(s)[1].kind # "body"
    <3>1. Len(s) > 1 /\ Tail(s)[1] = s[2]
      BY <1>1, <1>2, <2>2, EmptySeq
    <3>2. s[2].kind = "body" => s[1] = Header(s[2].req)
      BY <1>1, <3>1 DEF Framed
    <3> QED
      BY <2>1, <3>1, <3>2 DEF Header
  <2>3. output' = [output EXCEPT ![k] = Tail(s)]
    BY <1>3
  <2>4. Writes(k, 1, Tail(s))
    BY <1>1, <1>2, <2>1, <2>2, <2>3 DEF Writes
  <2>5. 1 \in Nat \ {0}
    OBVIOUS
  <2> HIDE DEF s
  <2> QED
    BY <1>1, <1>2, <2>4, <2>5, FrameTaken
<1>4. CASE /\ Len(s) > 1 /\ Head(s) # Heartbeat
           /\ output' = [output EXCEPT ![k] = Tail(Tail(s))]
  <2>1. s[1].kind = "header"
    <3>1. s[1].kind # "body"
      BY <1>1 DEF Framed
    <3> QED
      BY <1>2, <1>4, <3>1 DEF Chunks, Heartbeat
  <2>2. s[2].kind = "body"
    <3>1. 1 \in 1..Len(s) /\ 1 < Len(s) /\ 1 + 1 = 2
      BY <1>1, <1>4
    <3>2. s[1 + 1] = Body(s[1].req)
      BY <1>1, <2>1, <3>1 DEF Framed
    <3> QED
      BY <3>1, <3>2 DEF Body
  <2>3. /\ Tail(Tail(s)) \in Seq(Chunks) /\ Len(Tail(Tail(s))) = Len(s) - 2
        /\ Tail(s) # <<>>
    BY <1>1, <1>4, TwoTails
  <2>4. \A i \in 1..(Len(s) - 2) : Tail(Tail(s))[i] = s[i + 2]
    <3>1. DOMAIN Tail(Tail(s)) = 1..(Len(s) - 2)
      BY <2>3, LenProperties
    <3>2. \A i \in DOMAIN Tail(Tail(s)) : Tail(Tail(s))[i] = Tail(s)[i + 1]
      BY <1>2, <2>3, TailOf
    <3>3. \A i \in 1..(Len(s) - 2) : Tail(s)[i + 1] = s[(i + 1) + 1]
      BY <1>1, <1>2
    <3> QED
      BY <1>1, <3>1, <3>2, <3>3
  <2>5. ASSUME Tail(Tail(s)) # <<>> PROVE Tail(Tail(s))[1].kind # "body"
    <3>1. Len(s) > 2 /\ Tail(Tail(s))[1] = s[3]
      BY <1>1, <1>4, <2>3, <2>4, <2>5, EmptySeq
    <3>2. s[3].kind = "body" => s[2] = Header(s[3].req)
      BY <1>1, <3>1 DEF Framed
    <3> QED
      BY <2>2, <3>1, <3>2 DEF Header
  <2>6. Writes(k, 2, Tail(Tail(s)))
    <3>1. 2 <= Len(s) /\ output' = [output EXCEPT ![k] = Tail(Tail(s))]
      BY <1>1, <1>4
    <3> DEFINE u == Tail(Tail(s))
    <3>2. /\ Len(u) = Len(s) - 2 /\ (u # <<>> => u[1].kind # "body")
          /\ \A i \in 1..Len(u) : u[i] = s[i + 2]
      BY <2>3, <2>4, <2>5
    <3> HIDE DEF u
    <3> QED
      BY <2>2, <3>1, <3>2 DEF Writes, u
  <2>7. 2 \in Nat \ {0}
    OBVIOUS
  <2> HIDE DEF s
  <2> QED
    BY <1>1, <2>3, <2>6, <2>7, FrameTaken
<1> QED
  BY <1>3, <1>4 DEF PeerReceive

LEMMA FrameNext ==
  ASSUME TypeInv, TaskInv, BevInv, FrameInv, [Next]_vars
  PROVE  FrameInv'
<1>0. /\ pc \in [Threads -> LoopPcs \cup DonePcs \cup EchoPcs]
      /\ from \in [Requests -> Conns \cup {NULL}]
      /\ Loop \in Threads
  BY DEF TypeInv, TypeOK, Threads
<1>1. ASSUME NEW k \in Conns,
             AcceptSocketCb(k) \/ ReadCb(k) \/ EventCb(k) PROVE FrameInv'
  <2>1. /\ UNCHANGED <<output, from, cur>>
        /\ pc[Loop] # "add_body" /\ pc'[Loop] # "add_body"
        /\ \A t \in Threads \ {Loop} : pc'[t] = pc[t]
    BY <1>0, <1>1 DEF AcceptSocketCb, ReadCb, EventCb, Goto
  <2> QED
    BY <2>1, FrameQuiet
<1>2. ASSUME NEW t \in Threads,
             SerializeFails(t) \/ LockReply(t) \/ Release(t)
             \/ FreeReleased(t) \/ EchoWorker(t)
      PROVE  FrameInv'
  <2>1. /\ UNCHANGED <<output, from>>
        /\ pc[t] # "add_body" /\ pc'[t] # "add_body"
        /\ cur' = cur \/ t = Loop
        /\ \A u \in Threads \ {t} : pc'[u] = pc[u]
    BY <1>0, <1>2
    DEF SerializeFails, LockReply, Release, FreeReleased, EchoWorker,
        Unreference, Leave, AfterDone, Goto
  <2> QED
    BY <2>1, FrameQuiet
<1>3. CASE Environment
  <2>1. ASSUME NEW k \in Conns, NEW r \in Requests, PeerSend(k, r)
        PROVE  FrameInv'
    <3>1. /\ UNCHANGED <<output, pc, cur>>
          /\ \A q \in Requests : from[q] # NULL => from'[q] = from[q]
      BY <1>0, <2>1 DEF PeerSend
    <3> QED
      BY <3>1, FrameQuiet
  <2>2. ASSUME NEW k \in Conns, PeerHeartbeat(k) \/ ConnectionLost(k)
        PROVE  FrameInv'
    <3>1. UNCHANGED <<output, pc, cur, from>>
      BY <2>2 DEF PeerHeartbeat, ConnectionLost
    <3> QED
      BY <3>1, FrameQuiet
  <2> QED
    BY <1>3, <2>1, <2>2, FrameReceive DEF Environment
<1>4. CASE UNCHANGED vars
  <2>1. UNCHANGED <<output, pc, cur, from>>
    BY <1>4 DEF vars
  <2> QED
    BY <2>1, FrameQuiet
<1> QED
  BY <1>1, <1>2, <1>3, <1>4, FrameCallback, FrameHeartbeat, FrameFree,
     FrameHeader, FrameBody
  DEF Next, CallbackStep, DoneStep

(* Replies of any number of threads and heartbeats sent back share an       *)
(* output buffer without mixing: behind a header is its own body, or its    *)
(* sender with the client's lock.                                           *)
THEOREM FramesAreWhole == Spec => []FramesWhole
<1>1. TypeInv /\ FrameInv => FramesWhole
  <2> SUFFICES ASSUME TypeInv, FrameInv, NEW k \in Conns,
                      NEW i \in 1..Len(output[k])
               PROVE  LET f == output[k][i] IN
                      /\ f.kind = "header" =>
                           /\ from[f.req] = k
                           /\ IF i < Len(output[k])
                                THEN output[k][i + 1] = Body(f.req)
                                ELSE \E t \in Threads :
                                       pc[t] = "add_body" /\ Task(t) = f.req
                      /\ f.kind = "body" =>
                           i > 1 /\ output[k][i - 1] = Header(f.req)
    BY DEF FramesWhole
  <2>1. /\ output[k][i].kind = "header" => from[output[k][i].req] = k
        /\ output[k][i].kind = "header" /\ i < Len(output[k]) =>
             output[k][i + 1] = Body(output[k][i].req)
        /\ output[k][i].kind = "body" =>
             i > 1 /\ output[k][i - 1] = Header(output[k][i].req)
    BY DEF FrameInv, Framed
  <2>2. ASSUME output[k][i].kind = "header", ~(i < Len(output[k]))
        PROVE  \E t \in Threads : pc[t] = "add_body" /\ Task(t) = output[k][i].req
    <3>1. i = Len(output[k]) /\ output[k] # <<>>
      BY <2>2, EmptySeq, LenProperties DEF TypeInv, TypeOK
    <3>2. PICK t \in Threads : pc[t] = "add_body" /\ EndsIn(output[k], Task(t))
      BY <2>2, <3>1 DEF FrameInv, Half
    <3> QED
      BY <3>1, <3>2 DEF EndsIn, Header
  <2> QED
    BY <2>1, <2>2
<1>2. Init /\ [][Next]_vars =>
        [](TypeInv /\ TaskInv /\ CountInv /\ BevInv /\ FrameInv)
  BY TypeInit, TaskInit, CountInit, BevInit, FrameInit,
     TypeNext, TaskNext, CountNext, BevNext, FrameNext, PTL
<1> QED
  BY <1>1, <1>2, PTL DEF Spec

-----------------------------------------------------------------------------
(* What is sent as an answer is one. *)

BodiesOf(s, P) == \A i \in 1..Len(s) : s[i].kind = "body" => s[i].req \in P

Answered == {r \in Requests : answered[r] > 0}

BodyInv == \A k \in Conns : BodiesOf(output[k], Answered)

LEMMA BodiesAppend ==
  ASSUME NEW s \in Seq(Chunks), NEW x \in Chunks, NEW P, BodiesOf(s, P),
         x.kind = "body" => x.req \in P
  PROVE  BodiesOf(Append(s, x), P)
<1> DEFINE u == Append(s, x)
<1>1. /\ Len(u) = Len(s) + 1 /\ Len(s) \in Nat
      /\ \A i \in 1..Len(s) : u[i] = s[i]
      /\ u[Len(s) + 1] = x
  BY AppendProperties, LenProperties
<1> HIDE DEF u
<1>2. BodiesOf(u, P)
  BY <1>1 DEF BodiesOf
<1> QED
  BY <1>2 DEF u

LEMMA BodiesTail ==
  ASSUME NEW s \in Seq(Chunks), s # <<>>, NEW P, BodiesOf(s, P)
  PROVE  BodiesOf(Tail(s), P) /\ Tail(s) \in Seq(Chunks)
<1> DEFINE u == Tail(s)
<1>1. /\ u \in Seq(Chunks) /\ Len(u) = Len(s) - 1 /\ Len(s) \in Nat
      /\ \A i \in 1..Len(u) : u[i] = s[i + 1]
  BY HeadTailProperties
<1> HIDE DEF u
<1>2. BodiesOf(u, P)
  BY <1>1 DEF BodiesOf
<1> QED
  BY <1>1, <1>2 DEF u

(* A step that changes nothing but the output of k, and answers no less.    *)
LEMMA BodyWritten ==
  ASSUME TypeInv, BodyInv, Answered \subseteq Answered', NEW k \in Conns, NEW u,
         output' = [output EXCEPT ![k] = u], BodiesOf(u, Answered')
  PROVE  BodyInv'
<1>1. output'[k] = u /\ \A j \in Conns \ {k} : output'[j] = output[j]
  BY DEF TypeInv, TypeOK
<1>2. \A j \in Conns : BodiesOf(output'[j], Answered')
  BY <1>1 DEF BodyInv, BodiesOf
<1> QED
  BY <1>2 DEF BodyInv, BodiesOf

LEMMA BodyQuiet ==
  ASSUME BodyInv, UNCHANGED <<output, answered>>
  PROVE  BodyInv'
  BY DEF BodyInv, BodiesOf, Answered

LEMMA BodyReceive ==
  ASSUME TypeInv, BodyInv, NEW k \in Conns, PeerReceive(k)
  PROVE  BodyInv'
<1>1. PICK s \in Seq(Chunks) : s = output[k]
  BY DEF TypeInv, TypeOK
<1>2. /\ s # <<>> /\ BodiesOf(s, Answered) /\ answered' = answered
      /\ \/ output' = [output EXCEPT ![k] = Tail(s)]
         \/ Len(s) > 1 /\ output' = [output EXCEPT ![k] = Tail(Tail(s))]
  BY <1>1 DEF PeerReceive, BodyInv, reqVars
<1>3. BodiesOf(Tail(s), Answered) /\ Tail(s) \in Seq(Chunks)
  BY <1>2, BodiesTail
<1>4. Len(s) > 1 => BodiesOf(Tail(Tail(s)), Answered)
  <2>1. Len(s) > 1 => Tail(s) # <<>>
    BY <1>2, TwoTails
  <2> QED
    BY <1>3, <2>1, BodiesTail
<1>5. Answered' = Answered
  BY <1>2 DEF Answered
<1> QED
  BY <1>2, <1>3, <1>4, <1>5, BodyWritten

LEMMA BodyNext ==
  ASSUME TypeInv, TaskInv, BodyInv, [Next]_vars
  PROVE  BodyInv'
<1>0. /\ output \in [Conns -> Seq(Chunks)] /\ answered \in [Requests -> Nat]
  BY DEF TypeInv, TypeOK
<1>1. CASE EchoHeartbeat
  <2>1. PICK k \in Conns :
          /\ output' = [output EXCEPT ![k] = Append(@, Heartbeat)]
          /\ answered' = answered
    BY <1>1 DEF EchoHeartbeat, TypeInv, Located, reqVars
  <2>2. Heartbeat \in Chunks /\ Heartbeat.kind # "body"
    BY ChunkTypes DEF Heartbeat
  <2>3. output[k] \in Seq(Chunks) /\ BodiesOf(output[k], Answered)
    BY <1>0 DEF BodyInv
  <2>4. BodiesOf(Append(output[k], Heartbeat), Answered)
    BY <2>2, <2>3, BodiesAppend
  <2>5. Answered' = Answered
    BY <2>1 DEF Answered
  <2> QED
    BY <2>1, <2>4, <2>5, BodyWritten
<1>2. CASE FreeBev
  <2>1. PICK k \in Conns :
          output' = [output EXCEPT ![k] = <<>>] /\ answered' = answered
    BY <1>2 DEF FreeBev, TypeInv, Located, reqVars
  <2>2. BodiesOf(<<>>, Answered') /\ Answered' = Answered
    BY <2>1 DEF BodiesOf, Answered
  <2> QED
    BY <2>1, <2>2, BodyWritten
<1>3. ASSUME NEW t \in Threads, AddHeader(t) \/ AddBody(t)
      PROVE  BodyInv'
  <2>1. PICK k \in Conns, r \in Requests : k = Client(t) /\ r = Task(t)
    BY <1>3, TaskTypes DEF AddHeader, AddBody, Replying, TaskInv
  <2>2. output[k] \in Seq(Chunks) /\ BodiesOf(output[k], Answered)
    BY <1>0 DEF BodyInv
  <2>3. CASE AddHeader(t)
    <3>1. /\ output' = [output EXCEPT ![k] = Append(@, Header(r))]
          /\ answered' = answered
      BY <2>1, <2>3 DEF AddHeader, reqVars
    <3>2. Header(r) \in Chunks /\ Header(r).kind # "body"
      BY ChunkTypes DEF Header
    <3>3. BodiesOf(Append(output[k], Header(r)), Answered)
      BY <2>2, <3>2, BodiesAppend
    <3>4. Answered' = Answered
      BY <3>1 DEF Answered
    <3> QED
      BY <3>1, <3>3, <3>4, BodyWritten
  <2>4. CASE AddBody(t)
    <3>1. /\ output' = [output EXCEPT ![k] = Append(@, Body(r))]
          /\ answered' = [answered EXCEPT ![r] = @ + 1]
      BY <2>1, <2>4 DEF AddBody
    <3>2. Body(r) \in Chunks /\ Body(r).req = r
      BY ChunkTypes DEF Body
    <3>3. r \in Answered' /\ Answered \subseteq Answered'
      BY <1>0, <3>1 DEF Answered
    <3>4. BodiesOf(output[k], Answered')
      BY <2>2, <3>3 DEF BodiesOf
    <3>5. BodiesOf(Append(output[k], Body(r)), Answered')
      BY <2>2, <3>2, <3>3, <3>4, BodiesAppend
    <3> QED
      BY <3>1, <3>3, <3>5, BodyWritten
  <2> QED
    BY <1>3, <2>3, <2>4
<1>4. ASSUME NEW k \in Conns,
             \/ AcceptSocketCb(k) \/ ReadCb(k) \/ EventCb(k)
             \/ PeerHeartbeat(k) \/ ConnectionLost(k)
             \/ \E r \in Requests : PeerSend(k, r)
      PROVE  BodyInv'
  BY <1>4, BodyQuiet
  DEF AcceptSocketCb, ReadCb, EventCb, PeerHeartbeat, ConnectionLost, PeerSend,
      bevVars, reqVars
<1>5. ASSUME NEW t \in Threads,
             SerializeFails(t) \/ LockReply(t) \/ Release(t)
             \/ FreeReleased(t) \/ EchoWorker(t)
      PROVE  BodyInv'
  BY <1>5, BodyQuiet
  DEF SerializeFails, LockReply, Release, FreeReleased, EchoWorker, bevVars,
      reqVars
<1>6. CASE Decode \/ ReadEnd \/ SetBev \/ DropClient \/ FreeDropped
  BY <1>6, BodyQuiet
  DEF Decode, ReadEnd, SetBev, DropClient, FreeDropped, bevVars, reqVars
<1>7. CASE UNCHANGED vars
  BY <1>7, BodyQuiet DEF vars, bevVars, reqVars
<1> QED
  BY <1>1, <1>2, <1>3, <1>4, <1>5, <1>6, <1>7, BodyReceive
  DEF Next, CallbackStep, DoneStep, Environment

(* Whatever body the server sends is the answer to a request it has counted *)
(* as answered.                                                             *)
THEOREM BodiesAreAnswers == Spec => []BodyInv
<1>1. Init => BodyInv
  <2> SUFFICES ASSUME Init PROVE BodyInv
    OBVIOUS
  <2>1. \A k \in Conns : output[k] = <<>>
    BY DEF Init
  <2> QED
    BY <2>1 DEF BodyInv, BodiesOf
<1>2. Init /\ [][Next]_vars => [](TypeInv /\ TaskInv /\ CountInv /\ BodyInv)
  BY <1>1, TypeInit, TaskInit, CountInit, TypeNext, TaskNext, CountNext,
     BodyNext, PTL
<1> QED
  BY <1>2, PTL DEF Spec
=============================================================================
