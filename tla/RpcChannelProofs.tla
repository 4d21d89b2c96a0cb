--------------------------- MODULE RpcChannelProofs ---------------------------
(* Theorems about RpcChannel, for every value of its constants.             *)
EXTENDS RpcChannel, SequenceTheorems, TLAPS

(* What TypeOK needs to be inductive: a thread inside CallMethod has a call *)
(* in hand, and read_cb has the bufferevent it was called for.              *)
Located ==
  /\ \A t \in Threads : pc[t] \in CallPcs => cur[t] \in Calls
  /\ pc[Loop] = "read" => bev_locked \in Bevs
  /\ pc[Loop] \in CallPcs /\ resume = "read" => bev_locked \in Bevs

TypeInv == TypeOK /\ Located

LEMMA TypeInit == Init => TypeInv
<1> SUFFICES ASSUME Init PROVE TypeInv
  OBVIOUS
<1>1. Located
  BY ChannelAssumption DEF Init, Located, Threads, CallPcs
<1>2. /\ pc \in [Threads -> CallPcs \cup LoopPcs \cup {"idle"}]
      /\ link \in [Bevs -> {"unused", "connecting", "open", "lost", "freed"}]
      /\ output \in [Bevs -> Seq(Chunks)]
      /\ input \in [Bevs -> Seq(Replies)]
  BY DEF Init, LoopPcs
<1>3. /\ m_bev_lock \in Threads \cup {NULL} /\ m_bev \in Bevs \cup {NULL}
      /\ m_request_cache \in [Ids -> Calls \cup {NULL}]
      /\ m_callback_cache \in [Ids -> Calls \cup {NULL}]
      /\ sweeping \in Ids
      /\ age \in [Calls -> 0..Expire] /\ m_id \in 0..MaxId
      /\ msgid \in [Calls -> 0..MaxId] /\ reg \in [Threads -> 0..MaxId]
  BY ChannelAssumption DEF Init, Ids
<1>4. TypeOK
  BY <1>2, <1>3 DEF Init, TypeOK, Errors
<1> QED
  BY <1>1, <1>4 DEF TypeInv

USE DEF memberVars, threadVars, loopVars, bevVars, callVars, histVars

(* Chunks and sequences of chunks put in an output buffer.                  *)
LEMMA ChunkTypes ==
  /\ \A c \in Calls : Header(c) \in Chunks /\ Body(c) \in Chunks
  /\ Heartbeat \in Chunks
  BY DEF Header, Body, Heartbeat, Chunks

LEMMA AppendChunk ==
  ASSUME output \in [Bevs -> Seq(Chunks)], NEW b, NEW x \in Chunks
  PROVE  [output EXCEPT ![b] = Append(@, x)] \in [Bevs -> Seq(Chunks)]
<1>1. \A a \in Bevs : Append(output[a], x) \in Seq(Chunks)
  OBVIOUS
<1> QED
  BY <1>1

LEMMA EmptyOutput ==
  ASSUME output \in [Bevs -> Seq(Chunks)], NEW b
  PROVE  [output EXCEPT ![b] = <<>>] \in [Bevs -> Seq(Chunks)]
<1>1. <<>> \in Seq(Chunks)
  BY EmptySeq
<1> QED
  BY <1>1

LEMMA TailTypes ==
  ASSUME NEW S, NEW s \in Seq(S)
  PROVE  /\ s # <<>> => Head(s) \in S /\ Tail(s) \in Seq(S)
         /\ Len(s) > 1 => Tail(Tail(s)) \in Seq(S)
<1>1. s # <<>> => Head(s) \in S /\ Tail(s) \in Seq(S)
  BY HeadTailProperties
<1>2. ASSUME Len(s) > 1 PROVE Tail(Tail(s)) \in Seq(S)
  <2>1. s # <<>> /\ Len(s) \in Nat
    BY <1>2, EmptySeq
  <2>2. Tail(s) \in Seq(S) /\ Len(Tail(s)) = Len(s) - 1
    BY <2>1, HeadTailProperties
  <2>3. Tail(s) # <<>>
    <3>1. Len(<<>>) = 0 /\ Len(Tail(s)) # 0
      BY <1>2, <2>1, <2>2
    <3> QED
      BY <3>1
  <2> QED
    BY <2>2, <2>3, HeadTailProperties
<1> QED
  BY <1>1, <1>2

LEMMA TypeCallMethod ==
  ASSUME TypeInv, NEW t \in Threads, CallMethodStep(t)
  PROVE  TypeInv'
<1> USE ChannelAssumption DEF Goto, Return, TypeInv, TypeOK, Located, CallPcs, LoopPcs, Threads
<1>1. CASE Increment(t)
  BY SMTT(30), <1>1 DEF Increment, MessageId
<1>2. CASE Stamp(t)
  <2>1. age' \in [Calls -> 0..Expire] /\ reg' \in [Threads -> 0..MaxId]
    BY <1>2 DEF Stamp
  <2> QED
    BY ZenonT(40), <1>2, <2>1 DEF Stamp
<1>3. CASE AddCallback(t)
  BY ZenonT(40), <1>3 DEF AddCallback, Insert
<1>4. CASE CheckBev(t)
  <2>1. /\ m_bev_lock' \in Threads \cup {NULL} /\ pc[t] = "lock_bev"
        /\ \E label \in {"add_header", "read_id"} :
             pc' = [pc EXCEPT ![t] = label]
    BY <1>4 DEF CheckBev
  <2>2. UNCHANGED <<m_id, m_bev, m_connect_timer, m_request_cache,
                    m_callback_cache, m_callback_cache_lock, cur, reg, out,
                    loopVars, bevVars, peer, callVars, histVars>>
    BY <1>4 DEF CheckBev
  <2> QED
    BY SMTT(40), <2>1, <2>2
<1>5. CASE AddHeader(t)
  <2>1. output' \in [Bevs -> Seq(Chunks)]
    BY <1>5, AppendChunk, ChunkTypes DEF AddHeader
  <2> QED
    BY ZenonT(40), <1>5, <2>1 DEF AddHeader
<1>6. CASE AddBody(t)
  <2>1. output' \in [Bevs -> Seq(Chunks)]
    BY <1>6, AppendChunk, ChunkTypes DEF AddBody
  <2> QED
    <3>1. sends' \in [Calls -> Nat]
      BY SMTT(40), <1>6 DEF AddBody
    <3>2. CASE t = Loop
      BY <1>6, <2>1, <3>1, <3>2 DEF AddBody
    <3>3. CASE t # Loop
      BY <1>6, <2>1, <3>1, <3>3 DEF AddBody
    <3> QED
      BY <3>2, <3>3
<1>7. CASE AddRequest(t)
  BY ZenonT(40), <1>7 DEF AddRequest, Insert
<1>8. CASE ReadId(t)
  BY ZenonT(40), <1>8 DEF ReadId
<1> QED
  BY <1>1, <1>2, <1>3, <1>4, <1>5, <1>6, <1>7, <1>8 DEF CallMethodStep

LEMMA TypeRun ==
  ASSUME TypeInv, NEW c \in Calls, NEW label \in {"read", "erase"},
         Run(c, label)
  PROVE  /\ pc' \in [Threads -> CallPcs \cup LoopPcs \cup {"idle"}]
         /\ cur' \in [Threads -> Calls \cup {NULL}]
         /\ reg' \in [Threads -> 0..MaxId]
         /\ resume' \in {"poll", "read", "erase"}
         /\ begun' \in SUBSET Calls
         /\ done' \in [Calls -> Nat]
         /\ \A t \in Threads : pc'[t] \in CallPcs => cur'[t] \in Calls
         /\ pc'[Loop] \in CallPcs \cup {label}
         /\ pc'[Loop] \in CallPcs => resume' = label
<1> USE DEF TypeInv, TypeOK, Located, CallPcs, LoopPcs
<1>1. done' \in [Calls -> Nat]
  BY DEF Run
<1>2. CASE Goto(Loop, label) /\ UNCHANGED <<begun, cur, reg, resume>>
  BY <1>1, <1>2 DEF Goto, Threads
<1>3. CASE \E n \in LoopCalls :
             Enter(Loop, n) /\ Goto(Loop, "increment") /\ resume' = label
  BY SMTT(30), <1>1, <1>3 DEF Goto, Enter, Threads, Calls
<1> QED
  BY <1>2, <1>3 DEF Run

LEMMA TypeCallback ==
  ASSUME TypeInv, CallbackStep
  PROVE  TypeInv'
<1> USE ChannelAssumption DEF Goto, TypeInv, TypeOK, Located, CallPcs, LoopPcs, Threads
<1>1. CASE SetBev
  BY <1>1 DEF SetBev
<1>2. CASE SendCacheLock
  BY <1>2 DEF SendCacheLock, Threads
<1>3. CASE FlushOne
  <2> PICK k \in Ids :
        LET c == m_request_cache[k] IN
        /\ IsFirst(m_request_cache, k)
        /\ DelRequest(k)
        /\ output' = [output EXCEPT ![m_bev] = @ \o <<Header(c), Body(c)>>]
        /\ sends' = [sends EXCEPT ![c] = @ + 1]
    BY <1>3 DEF FlushOne
  <2>1. m_request_cache[k] \in Calls
    BY DEF IsFirst, Keys
  <2>2. output' \in [Bevs -> Seq(Chunks)]
    <3> DEFINE p == <<Header(m_request_cache[k]), Body(m_request_cache[k])>>
    <3>1. p \in Seq(Chunks)
      BY <2>1, ChunkTypes
    <3>2. \A a \in Bevs : output[a] \o p \in Seq(Chunks)
      BY <3>1
    <3> QED
      BY <3>2
  <2>3. m_request_cache' \in [Ids -> Calls \cup {NULL}]
    BY DEF DelRequest, Erase
  <2>4. sends' \in [Calls -> Nat]
    BY <2>1
  <2> QED
    BY <1>3, <2>2, <2>3, <2>4 DEF FlushOne
<1>4. CASE FlushEnd
  BY <1>4 DEF FlushEnd
<1>5. CASE Decode
  <2> DEFINE r == Head(input[bev_locked])
             c == Find(m_callback_cache, ReplyKey(r))
  <2>1. /\ bev_locked \in Bevs /\ r \in Replies
        /\ Tail(input[bev_locked]) \in Seq(Replies)
    BY <1>5, TailTypes DEF Decode
  <2>2. input' \in [Bevs -> Seq(Replies)]
    BY <1>5, <2>1 DEF Decode
  <2>3. CASE c = NULL
    BY <1>5, <2>1, <2>2, <2>3 DEF Decode
  <2>4. CASE c # NULL
    <3>1. r.call \in Calls /\ c \in Calls
      BY <2>1, <2>4 DEF Replies, Find
    <3>2. /\ m_callback_cache' = Erase(m_callback_cache, ReplyKey(r))
          /\ response' \in {response, [response EXCEPT ![c] = r.call]}
          /\ errorText' \in {errorText,
                             [errorText EXCEPT ![c] = "SERVER_ERROR"],
                             [errorText EXCEPT ![c] = "INVALID_RESPONSE"]}
          /\ Run(c, "read")
      BY <1>5, <2>4, Zenon DEF Decode, DelCallback
    <3>3. /\ m_callback_cache' \in [Ids -> Calls \cup {NULL}]
      BY <3>2 DEF Erase
    <3>4. response' \in [Calls -> Calls \cup {NULL}]
      BY <3>1, <3>2
    <3>5. errorText' \in [Calls -> Errors]
      BY <3>2 DEF Errors
    <3> HIDE DEF r, c
    <3> QED
      BY <1>5, <2>1, <2>2, <3>1, <3>2, <3>3, <3>4, <3>5, TypeRun DEF Decode
  <2> QED
    BY <2>3, <2>4
<1>6. CASE ReadEnd
  BY <1>6 DEF ReadEnd
<1>7. CASE ClearBev
  <2>1. output' \in [Bevs -> Seq(Chunks)]
    BY <1>7, EmptyOutput DEF ClearBev
  <2> QED
    BY <1>7, <2>1 DEF ClearBev, Rearm
<1>8. CASE Sweep
  <2> PICK k \in Ids :
        LET c == m_callback_cache[k] IN
        /\ IsOver(k)
        /\ sweeping' = k
        /\ DelRequest(k)
        /\ errorText' = IF canceled[c] THEN errorText
                         ELSE [errorText EXCEPT ![c] = GivenUp(k)]
        /\ Run(c, "erase")
    BY <1>8 DEF Sweep
  <2>1. m_callback_cache[k] \in Calls
    BY DEF IsOver, IsFirst, Keys
  <2>2. errorText' \in [Calls -> Errors]
    BY DEF GivenUp, Errors
  <2>3. m_request_cache' \in [Ids -> Calls \cup {NULL}]
    BY DEF DelRequest, Erase
  <2> QED
    BY <1>8, <2>1, <2>2, <2>3, TypeRun DEF Sweep
<1>9. CASE EraseSwept
  BY <1>9 DEF EraseSwept, DelCallback, Erase
<1>10. CASE SweepEnd
  BY <1>10 DEF SweepEnd
<1> QED
  BY <1>1, <1>2, <1>3, <1>4, <1>5, <1>6, <1>7, <1>8, <1>9, <1>10
  DEF CallbackStep

LEMMA TypeEnvironment ==
  ASSUME TypeInv, Environment
  PROVE  TypeInv'
<1> USE ChannelAssumption DEF TypeInv, TypeOK, Located, CallPcs, LoopPcs
<1>1. ASSUME NEW c \in Calls, Cancel(c) PROVE TypeInv'
  BY <1>1 DEF Cancel
<1>2. CASE Tick
  <2>1. \A c \in Calls : age[c] < Expire => age[c] + 1 \in 0..Expire
    OBVIOUS
  <2>2. age' \in [Calls -> 0..Expire]
    BY <1>2, <2>1 DEF Tick
  <2> QED
    BY <1>2, <2>2 DEF Tick
<1>3. ASSUME NEW b \in Bevs, ConnectOk(b) PROVE TypeInv'
  BY <1>3 DEF ConnectOk
<1>4. ASSUME NEW b \in Bevs, ConnectionLost(b) PROVE TypeInv'
  BY <1>4 DEF ConnectionLost
<1>5. ASSUME NEW b \in Bevs, PeerReceive(b) PROVE TypeInv'
  <2>1. output[b] \in Seq(Chunks) /\ output[b] # <<>>
    BY <1>5 DEF PeerReceive
  <2>2. /\ Tail(output[b]) \in Seq(Chunks)
        /\ Len(output[b]) > 1 => Tail(Tail(output[b])) \in Seq(Chunks)
        /\ Head(output[b]) \in Chunks
    BY <2>1, TailTypes
  <2>3. output' \in [Bevs -> Seq(Chunks)]
    BY ZenonT(40), <1>5, <2>2 DEF PeerReceive
  <2>4. peer' \in [Bevs -> SUBSET Calls]
    <3>1. Head(output[b]).kind = "header" => Head(output[b]).call \in Calls
      BY <2>2 DEF Chunks
    <3>2. \/ UNCHANGED peer
          \/ /\ Head(output[b]).kind = "header"
             /\ peer' = [peer EXCEPT ![b] = @ \cup {Head(output[b]).call}]
      BY <1>5 DEF PeerReceive
    <3>3. CASE UNCHANGED peer
      BY <3>3
    <3>4. CASE /\ Head(output[b]).call \in Calls
               /\ peer' = [peer EXCEPT ![b] = @ \cup {Head(output[b]).call}]
      BY <3>4
    <3> QED
      BY <3>1, <3>2, <3>3, <3>4
  <2> QED
    BY <1>5, <2>3, <2>4 DEF PeerReceive
<1>6. ASSUME NEW b \in Bevs, NEW r \in Replies, PeerReply(b, r)
      PROVE  TypeInv'
  BY SMTT(30), <1>6 DEF PeerReply
<1> QED
  BY <1>1, <1>2, <1>3, <1>4, <1>5, <1>6 DEF Environment

LEMMA TypeNext == TypeInv /\ [Next]_vars => TypeInv'
<1> SUFFICES ASSUME TypeInv, [Next]_vars PROVE TypeInv'
  OBVIOUS
<1> USE ChannelAssumption DEF Goto, TypeInv, TypeOK, Located, CallPcs, LoopPcs, Threads
<1>1. ASSUME NEW t \in Callers, NEW c \in AppCalls, Begin(t, c)
      PROVE  TypeInv'
  BY SMTT(30), <1>1 DEF Begin, Enter, Threads, Calls
<1>2. ASSUME NEW t \in Threads, CallMethodStep(t) PROVE TypeInv'
  BY <1>2, TypeCallMethod
<1>3. ASSUME NEW b \in Bevs, ConnectedCb(b) PROVE TypeInv'
  BY <1>3 DEF ConnectedCb
<1>4. ASSUME NEW b \in Bevs, ReadCb(b) PROVE TypeInv'
  BY <1>4 DEF ReadCb
<1>5. ASSUME NEW b \in Bevs, ErrorCb(b) PROVE TypeInv'
  BY <1>5 DEF ErrorCb
<1>6. CASE ConnectTimerCb
  BY ZenonT(40), <1>6 DEF ConnectTimerCb
<1>7. CASE HeartbeatCb
  BY <1>7, AppendChunk, ChunkTypes DEF HeartbeatCb
<1>8. CASE RequestTimerCb
  BY <1>8 DEF RequestTimerCb, Timed
<1>9. CASE CallbackStep
  BY <1>9, TypeCallback
<1>10. CASE Environment
  BY <1>10, TypeEnvironment
<1>11. CASE UNCHANGED vars
  BY <1>11 DEF vars
<1> QED
  BY <1>1, <1>2, <1>3, <1>4, <1>5, <1>6, <1>7, <1>8, <1>9, <1>10, <1>11
  DEF Next

(* Every variable keeps its type in every state the channel can reach.      *)
THEOREM TypeCorrect == Spec => []TypeOK
<1>1. Spec => []TypeInv
  BY TypeInit, TypeNext, PTL DEF Spec
<1>2. TypeInv => TypeOK
  BY DEF TypeInv
<1> QED
  BY <1>1, <1>2, PTL

-----------------------------------------------------------------------------
(* Completion.  The entries of m_callback_cache are the calls whose closure *)
(* is still to run, except for the one a sweep is at.                       *)

(* CallMethod was entered and add_callback_cache not yet reached. *)
Unregistered(t) == pc[t] \in {"increment", "stamp", "add_callback"}

(* A closure run by the sweep has not been followed by the erase yet. *)
InErase == \/ pc[Loop] = "erase"
           \/ pc[Loop] \in CallPcs /\ resume = "erase"

FreshCalls ==
  \A t \in Threads : Unregistered(t) =>
    /\ cur[t] \in begun /\ done[cur[t]] = 0
    /\ \A k \in Ids : m_callback_cache[k] # cur[t]

DistinctCalls ==
  \A t, u \in Threads :
    Unregistered(t) /\ Unregistered(u) /\ cur[t] = cur[u] => t = u

UnbegunCalls ==
  \A c \in Calls : c \notin begun =>
    done[c] = 0 /\ \A k \in Ids : m_callback_cache[k] # c

OneKey ==
  \A j, k \in Ids :
    m_callback_cache[j] # NULL /\ m_callback_cache[j] = m_callback_cache[k]
      => j = k

SweepLocked ==
  pc[Loop] = "sweep" \/ InErase => m_callback_cache_lock = Loop

StaleIsSwept ==
  \A k \in Ids :
    m_callback_cache[k] # NULL /\ done[m_callback_cache[k]] > 0 =>
      k = sweeping /\ InErase

SweptIsDone ==
  InErase => /\ m_callback_cache[sweeping] # NULL
             /\ done[m_callback_cache[sweeping]] > 0

EntryInv ==
  /\ FreshCalls /\ DistinctCalls /\ UnbegunCalls /\ OneKey
  /\ SweepLocked /\ StaleIsSwept /\ SweptIsDone
  /\ DoneOnce

(* Most steps touch none of this.                                           *)
Quiet ==
  /\ UNCHANGED <<begun, done, m_callback_cache, m_callback_cache_lock,
                 sweeping>>
  /\ \A t \in Threads :
       Unregistered(t)' => Unregistered(t) /\ cur'[t] = cur[t]
  /\ InErase' <=> InErase
  /\ pc'[Loop] = "sweep" => pc[Loop] = "sweep"

LEMMA QuietStep ==
  ASSUME EntryInv, Quiet
  PROVE  EntryInv'
<1> USE DEF EntryInv, Quiet
<1>1. FreshCalls' /\ DistinctCalls'
  BY DEF FreshCalls, DistinctCalls
<1>2. UnbegunCalls' /\ OneKey'
  BY DEF UnbegunCalls, OneKey
<1>3. SweepLocked' /\ StaleIsSwept' /\ SweptIsDone'
  BY DEF SweepLocked, StaleIsSwept, SweptIsDone
<1>4. DoneOnce'
  BY DEF DoneOnce
<1> QED
  BY <1>1, <1>2, <1>3, <1>4

LEMMA EntryInit == Init => EntryInv
<1> SUFFICES ASSUME Init PROVE EntryInv
  OBVIOUS
<1>1. /\ \A t \in Threads : ~Unregistered(t)
      /\ ~InErase /\ pc[Loop] # "sweep"
  BY ChannelAssumption DEF Init, Unregistered, InErase, CallPcs, Threads
<1>2. FreshCalls /\ DistinctCalls /\ SweepLocked /\ SweptIsDone
  BY <1>1 DEF FreshCalls, DistinctCalls, SweepLocked, SweptIsDone
<1>3. UnbegunCalls /\ OneKey /\ StaleIsSwept /\ DoneOnce
  BY ChannelAssumption
  DEF Init, UnbegunCalls, OneKey, StaleIsSwept, DoneOnce, Calls
<1> QED
  BY <1>2, <1>3 DEF EntryInv

LEMMA EntryBegin ==
  ASSUME TypeInv, EntryInv, NEW t \in Callers, NEW c \in AppCalls, Begin(t, c)
  PROVE  EntryInv'
<1> USE ChannelAssumption
    DEF EntryInv, Begin, Enter, Goto, Unregistered, TypeInv, TypeOK,
        Threads, Calls
<1>1. /\ UNCHANGED <<done, m_callback_cache, m_callback_cache_lock, sweeping>>
      /\ c \notin begun /\ begun' = begun \cup {c}
      /\ pc' = [pc EXCEPT ![t] = "increment"] /\ cur' = [cur EXCEPT ![t] = c]
      /\ UNCHANGED <<resume>>
  OBVIOUS
<1>2. InErase' <=> InErase
  BY DEF InErase
<1>3. FreshCalls'
  BY <1>1 DEF FreshCalls, UnbegunCalls
<1>4. DistinctCalls'
  BY <1>1 DEF FreshCalls, DistinctCalls
<1>5. UnbegunCalls' /\ OneKey' /\ DoneOnce'
  BY DEF UnbegunCalls, OneKey, DoneOnce
<1>6. SweepLocked' /\ StaleIsSwept' /\ SweptIsDone'
  BY <1>2 DEF SweepLocked, StaleIsSwept, SweptIsDone
<1> QED
  BY <1>3, <1>4, <1>5, <1>6

LEMMA EntryAddCallback ==
  ASSUME TypeInv, EntryInv, NEW t \in Threads, AddCallback(t)
  PROVE  EntryInv'
<1> USE ChannelAssumption DEF EntryInv, TypeInv, TypeOK
<1>1. /\ UNCHANGED <<begun, cur, done, m_callback_cache_lock, sweeping, resume>>
      /\ pc[t] = "add_callback" /\ pc' = [pc EXCEPT ![t] = "lock_bev"]
  BY DEF AddCallback, Goto
<1>2. \A k \in Ids : \/ m_callback_cache'[k] = m_callback_cache[k]
                     \/ /\ k = reg[t] /\ m_callback_cache[k] = NULL
                        /\ m_callback_cache'[k] = cur[t]
  BY DEF AddCallback, Insert
<1>3. InErase' <=> InErase
  BY <1>1 DEF InErase, CallPcs
<1>4. /\ Unregistered(t) /\ ~Unregistered(t)'
      /\ \A u \in Threads \ {t} : Unregistered(u)' <=> Unregistered(u)
  BY <1>1 DEF Unregistered
<1>5. /\ cur[t] \in begun /\ done[cur[t]] = 0
      /\ \A k \in Ids : m_callback_cache[k] # cur[t]
      /\ \A u \in Threads \ {t} : Unregistered(u) => cur[u] # cur[t]
  BY <1>4 DEF FreshCalls, DistinctCalls
<1>6. FreshCalls' /\ DistinctCalls'
  BY <1>1, <1>2, <1>4, <1>5 DEF FreshCalls, DistinctCalls
<1>7. UnbegunCalls' /\ DoneOnce'
  BY <1>1, <1>2, <1>5 DEF UnbegunCalls, DoneOnce
<1>8. OneKey'
  <2> SUFFICES ASSUME NEW j \in Ids, NEW k \in Ids,
                      m_callback_cache'[j] # NULL,
                      m_callback_cache'[j] = m_callback_cache'[k]
               PROVE  j = k
    BY DEF OneKey
  <2>1. CASE /\ m_callback_cache'[j] = m_callback_cache[j]
             /\ m_callback_cache'[k] = m_callback_cache[k]
    BY <2>1 DEF OneKey
  <2> QED
    BY <1>2, <1>5, <2>1
<1>9. SweepLocked'
  BY <1>1, <1>3 DEF SweepLocked
<1>10. StaleIsSwept'
  <2> SUFFICES ASSUME NEW k \in Ids, m_callback_cache'[k] # NULL,
                      done[m_callback_cache'[k]] > 0
               PROVE  k = sweeping /\ InErase
    BY <1>1, <1>3 DEF StaleIsSwept
  <2>1. m_callback_cache'[k] = m_callback_cache[k]
    BY <1>2, <1>5
  <2> QED
    BY <2>1 DEF StaleIsSwept
<1>11. SweptIsDone'
  BY <1>1, <1>2, <1>3 DEF SweptIsDone
<1> QED
  BY <1>6, <1>7, <1>8, <1>9, <1>10, <1>11

LEMMA EntryCallMethod ==
  ASSUME TypeInv, EntryInv, NEW t \in Threads, CallMethodStep(t)
  PROVE  EntryInv'
<1> USE ChannelAssumption
    DEF Quiet, Goto, Return, Unregistered, InErase, CallPcs, TypeInv, TypeOK,
        Threads
<1>1. CASE Increment(t)
  BY <1>1, QuietStep DEF Increment
<1>2. CASE Stamp(t)
  BY <1>2, QuietStep DEF Stamp
<1>3. CASE AddCallback(t)
  BY <1>3, EntryAddCallback
<1>4. CASE CheckBev(t)
  BY <1>4, QuietStep DEF CheckBev
<1>5. CASE AddHeader(t)
  BY <1>5, QuietStep DEF AddHeader
<1>6. CASE AddBody(t)
  BY <1>6, QuietStep DEF AddBody
<1>7. CASE AddRequest(t)
  BY <1>7, QuietStep DEF AddRequest
<1>8. CASE ReadId(t)
  BY <1>8, QuietStep DEF ReadId
<1> QED
  BY <1>1, <1>2, <1>3, <1>4, <1>5, <1>6, <1>7, <1>8 DEF CallMethodStep

(* Running the closure of a registered call, outside a sweep's erase.       *)
LEMMA EntryRun ==
  ASSUME TypeInv, EntryInv, NEW k \in Ids, m_callback_cache[k] # NULL,
         pc[Loop] \in {"read", "sweep"},
         NEW label \in {"read", "erase"}, Run(m_callback_cache[k], label),
         \A j \in Ids : m_callback_cache'[j] \in {m_callback_cache[j], NULL}
  PROVE  /\ FreshCalls' /\ DistinctCalls' /\ UnbegunCalls' /\ OneKey'
         /\ DoneOnce'
         /\ InErase' <=> label = "erase"
         /\ pc'[Loop] # "sweep"
         /\ done'[m_callback_cache[k]] = 1
         /\ \A j \in Ids : m_callback_cache[j] # NULL /\ j # k =>
              done'[m_callback_cache[j]] = 0
<1> DEFINE c == m_callback_cache[k]
<1>1. c \in Calls
  BY DEF TypeInv, TypeOK
<1>2. ~InErase
  BY DEF InErase, CallPcs
<1>3. \A j \in Ids : m_callback_cache[j] # NULL =>
        done[m_callback_cache[j]] = 0
  BY <1>2 DEF EntryInv, StaleIsSwept, TypeInv, TypeOK
<1>4. c \in begun
  BY <1>1 DEF EntryInv, UnbegunCalls
<1>5. done' = [done EXCEPT ![c] = 1]
  <2>1. done[c] = 0
    BY <1>3
  <2>2. done' = [done EXCEPT ![c] = done[c] + 1]
    BY DEF Run
  <2> QED
    BY <2>1, <2>2
<1>6. /\ done' \in [Calls -> Nat] /\ done'[c] = 1
      /\ \A d \in Calls : d # c => done'[d] = done[d]
  BY <1>1, <1>5 DEF TypeInv, TypeOK
<1>7. \/ /\ pc' = [pc EXCEPT ![Loop] = label]
         /\ begun' = begun /\ cur' = cur /\ resume' = resume
      \/ \E n \in LoopCalls :
           /\ n \notin begun /\ begun' = begun \cup {n}
           /\ cur' = [cur EXCEPT ![Loop] = n]
           /\ pc' = [pc EXCEPT ![Loop] = "increment"] /\ resume' = label
  BY DEF Run, Enter, Goto
<1>8. \A t \in Threads \ {Loop} :
        pc'[t] = pc[t] /\ cur'[t] = cur[t]
  BY <1>7 DEF TypeInv, TypeOK
<1>9. Loop \in Threads /\ ~Unregistered(Loop)
  BY DEF Threads, Unregistered
<1>10. \/ ~Unregistered(Loop)'
       \/ /\ cur'[Loop] \in LoopCalls \ begun
          /\ begun' = begun \cup {cur'[Loop]}
  BY <1>7, <1>9 DEF Unregistered, TypeInv, TypeOK
<1>11. begun \subseteq begun'
  BY <1>7
<1>12. \A t \in Threads \ {Loop} : Unregistered(t)' =>
         /\ Unregistered(t) /\ cur[t] \in begun /\ cur'[t] = cur[t]
         /\ cur[t] # c /\ done[cur[t]] = 0
  BY <1>8 DEF Unregistered, EntryInv, FreshCalls
<1>13. \A n \in LoopCalls \ begun :
         /\ n \in Calls /\ n # c /\ done'[n] = 0
         /\ \A j \in Ids : m_callback_cache[j] # n
  BY <1>4, <1>6 DEF EntryInv, UnbegunCalls, Calls
<1>14. FreshCalls'
  <2> SUFFICES ASSUME NEW t \in Threads, Unregistered(t)'
               PROVE  /\ cur'[t] \in begun' /\ done'[cur'[t]] = 0
                      /\ \A j \in Ids : m_callback_cache'[j] # cur'[t]
    BY DEF FreshCalls
  <2>0. \A j \in Ids : m_callback_cache[j] # cur'[t]
    BY <1>10, <1>12, <1>13 DEF EntryInv, FreshCalls
  <2>1. cur'[t] \in begun' /\ done'[cur'[t]] = 0
    <3>1. CASE t = Loop
      BY <1>10, <1>13, <3>1
    <3>2. CASE t # Loop
      BY <1>6, <1>11, <1>12, <3>2 DEF TypeInv, TypeOK
    <3> QED
      BY <3>1, <3>2
  <2>2. cur'[t] # NULL
    BY <2>1, <1>7, ChannelAssumption DEF TypeInv, TypeOK, Calls
  <2> QED
    BY <2>0, <2>1, <2>2
<1>15. DistinctCalls'
  BY <1>10, <1>12 DEF EntryInv, DistinctCalls
<1>16. UnbegunCalls'
  <2> SUFFICES ASSUME NEW d \in Calls, d \notin begun'
               PROVE  /\ done'[d] = 0
                      /\ \A j \in Ids : m_callback_cache'[j] # d
    BY DEF UnbegunCalls
  <2>1. d \notin begun /\ d # c /\ d # NULL
    BY <1>4, <1>11, ChannelAssumption
  <2> QED
    BY <1>6, <2>1 DEF EntryInv, UnbegunCalls
<1>17. OneKey'
  BY DEF EntryInv, OneKey
<1>18. DoneOnce'
  BY <1>6 DEF EntryInv, DoneOnce
<1>19. InErase' <=> label = "erase"
  BY <1>7, <1>9 DEF InErase, CallPcs, TypeInv, TypeOK
<1>20. pc'[Loop] # "sweep"
  BY <1>7, <1>9 DEF TypeInv, TypeOK
<1>21. \A j \in Ids : m_callback_cache[j] # NULL /\ j # k =>
         done'[m_callback_cache[j]] = 0
  BY <1>3, <1>6 DEF EntryInv, OneKey, TypeInv, TypeOK
<1> QED
  BY <1>6, <1>14, <1>15, <1>16, <1>17, <1>18, <1>19, <1>20, <1>21

LEMMA EntryDecode ==
  ASSUME TypeInv, EntryInv, Decode
  PROVE  EntryInv'
<1> DEFINE k == ReplyKey(Head(input[bev_locked]))
           c == Find(m_callback_cache, k)
<1>1. /\ pc[Loop] = "read" /\ m_callback_cache_lock = NULL
      /\ UNCHANGED <<m_callback_cache_lock, sweeping>>
  BY DEF Decode
<1>2. CASE c = NULL
  <2>1. UNCHANGED <<m_callback_cache, pc, cur, reg, resume, begun, done>>
    BY <1>2 DEF Decode
  <2> QED
    BY <1>1, <2>1, QuietStep DEF Quiet, Unregistered, InErase
<1>3. CASE c # NULL
  <2>1. /\ k \in Ids /\ m_callback_cache[k] # NULL /\ c = m_callback_cache[k]
    BY <1>3 DEF Find
  <2>2. Run(m_callback_cache[k], "read") /\ DelCallback(k)
    BY <1>3, <2>1 DEF Decode
  <2>3. \A j \in Ids :
          m_callback_cache'[j] = IF j = k THEN NULL ELSE m_callback_cache[j]
    BY <2>1, <2>2 DEF DelCallback, Erase, TypeInv, TypeOK
  <2> HIDE DEF k, c
  <2>4. /\ FreshCalls' /\ DistinctCalls' /\ UnbegunCalls' /\ OneKey'
        /\ DoneOnce' /\ ~InErase' /\ pc'[Loop] # "sweep"
        /\ \A j \in Ids : m_callback_cache[j] # NULL /\ j # k =>
             done'[m_callback_cache[j]] = 0
    BY <1>1, <2>1, <2>2, <2>3, EntryRun
  <2>5. SweepLocked' /\ SweptIsDone'
    BY <2>4 DEF SweepLocked, SweptIsDone
  <2>6. StaleIsSwept'
    BY <2>3, <2>4 DEF StaleIsSwept
  <2> QED
    BY <2>4, <2>5, <2>6 DEF EntryInv
<1> QED
  BY <1>2, <1>3

LEMMA EntrySweep ==
  ASSUME TypeInv, EntryInv, Sweep
  PROVE  EntryInv'
<1>1. /\ pc[Loop] = "sweep"
      /\ UNCHANGED <<m_callback_cache, m_callback_cache_lock>>
  BY DEF Sweep
<1> PICK k \in Ids : /\ IsOver(k) /\ sweeping' = k
                     /\ Run(m_callback_cache[k], "erase")
  BY DEF Sweep
<1>2. m_callback_cache[k] # NULL
  BY DEF IsOver, IsFirst, Keys
<1>3. /\ FreshCalls' /\ DistinctCalls' /\ UnbegunCalls' /\ OneKey'
      /\ DoneOnce' /\ InErase' /\ pc'[Loop] # "sweep"
      /\ done'[m_callback_cache[k]] = 1
      /\ \A j \in Ids : m_callback_cache[j] # NULL /\ j # k =>
           done'[m_callback_cache[j]] = 0
  BY <1>1, <1>2, EntryRun
<1>4. SweepLocked'
  BY <1>1 DEF SweepLocked, EntryInv
<1>5. StaleIsSwept' /\ SweptIsDone'
  BY <1>1, <1>2, <1>3 DEF StaleIsSwept, SweptIsDone
<1> QED
  BY <1>3, <1>4, <1>5 DEF EntryInv

LEMMA EntryEraseSwept ==
  ASSUME TypeInv, EntryInv, EraseSwept
  PROVE  EntryInv'
<1>1. /\ UNCHANGED <<begun, cur, done, m_callback_cache_lock, resume, sweeping>>
      /\ pc[Loop] = "erase" /\ pc' = [pc EXCEPT ![Loop] = "sweep"]
      /\ sweeping \in Ids
      /\ m_callback_cache' = [m_callback_cache EXCEPT ![sweeping] = NULL]
  BY DEF EraseSwept, DelCallback, Erase, Goto, TypeInv, TypeOK
<1>2. \A j \in Ids : m_callback_cache'[j] = IF j = sweeping THEN NULL
                                            ELSE m_callback_cache[j]
  BY <1>1 DEF TypeInv, TypeOK
<1>3. /\ InErase /\ ~InErase'
      /\ \A t \in Threads : Unregistered(t)' => Unregistered(t)
  BY <1>1 DEF InErase, Unregistered, CallPcs, TypeInv, TypeOK, Threads
<1> m_callback_cache_lock' = Loop
  BY <1>1, <1>3 DEF EntryInv, SweepLocked
<1>4. DistinctCalls' /\ DoneOnce'
  BY <1>1, <1>3 DEF EntryInv, DistinctCalls, DoneOnce
<1>5. FreshCalls' /\ UnbegunCalls'
  <2>1. NULL \notin Calls
    BY ChannelAssumption
  <2>2. \A t \in Threads : Unregistered(t) => cur[t] \in Calls
    BY DEF Unregistered, TypeInv, Located, CallPcs
  <2> QED
    BY <1>1, <1>2, <1>3, <2>1, <2>2 DEF EntryInv, FreshCalls, UnbegunCalls
<1>6. OneKey'
  BY <1>2 DEF EntryInv, OneKey
<1>7. SweepLocked' /\ SweptIsDone'
  BY <1>3 DEF SweepLocked, SweptIsDone
<1>8. StaleIsSwept'
  BY <1>1, <1>2 DEF EntryInv, StaleIsSwept
<1> QED
  BY <1>4, <1>5, <1>6, <1>7, <1>8 DEF EntryInv

LEMMA EntryCallback ==
  ASSUME TypeInv, EntryInv, CallbackStep
  PROVE  EntryInv'
<1> USE DEF Quiet, Goto, Unregistered, InErase, CallPcs, TypeInv, TypeOK
<1>1. CASE SetBev
  BY <1>1, QuietStep DEF SetBev
<1>2. CASE SendCacheLock
  BY <1>2, QuietStep DEF SendCacheLock
<1>3. CASE FlushOne
  BY <1>3, QuietStep DEF FlushOne
<1>4. CASE FlushEnd
  BY <1>4, QuietStep DEF FlushEnd
<1>5. CASE Decode
  BY <1>5, EntryDecode
<1>6. CASE ReadEnd
  BY <1>6, QuietStep DEF ReadEnd
<1>7. CASE ClearBev
  BY <1>7, QuietStep DEF ClearBev
<1>8. CASE Sweep
  BY <1>8, EntrySweep
<1>9. CASE EraseSwept
  BY <1>9, EntryEraseSwept
<1>10. CASE SweepEnd
  <2>1. ~InErase /\ ~InErase' /\ pc'[Loop] # "sweep"
    BY <1>10 DEF SweepEnd, Threads
  <2>2. UNCHANGED <<begun, cur, done, m_callback_cache, sweeping>>
    BY <1>10 DEF SweepEnd
  <2>3. \A t \in Threads : Unregistered(t)' => Unregistered(t)
    BY <1>10 DEF SweepEnd
  <2> HIDE DEF Quiet, Unregistered, InErase, TypeInv, TypeOK
  <2>4. FreshCalls' /\ DistinctCalls' /\ UnbegunCalls' /\ OneKey' /\ DoneOnce'
    BY <2>2, <2>3 DEF EntryInv, FreshCalls, DistinctCalls, UnbegunCalls,
                      OneKey, DoneOnce
  <2>5. SweepLocked' /\ StaleIsSwept' /\ SweptIsDone'
    BY <2>1, <2>2 DEF EntryInv, SweepLocked, StaleIsSwept, SweptIsDone
  <2> QED
    BY <2>4, <2>5 DEF EntryInv
<1> QED
  BY <1>1, <1>2, <1>3, <1>4, <1>5, <1>6, <1>7, <1>8, <1>9, <1>10
  DEF CallbackStep

LEMMA EntryEnvironment ==
  ASSUME TypeInv, EntryInv, Environment
  PROVE  EntryInv'
<1>1. UNCHANGED <<pc, cur, begun, done, m_callback_cache,
                  m_callback_cache_lock, sweeping, resume>>
  BY DEF Environment, Cancel, Tick, ConnectOk, ConnectionLost, PeerReceive,
         PeerReply
<1> QED
  BY <1>1, QuietStep DEF Quiet, Unregistered, InErase

LEMMA EntryNext == TypeInv /\ EntryInv /\ [Next]_vars => EntryInv'
<1> SUFFICES ASSUME TypeInv, EntryInv, [Next]_vars PROVE EntryInv'
  OBVIOUS
<1> USE DEF Quiet, Goto, Unregistered, InErase, CallPcs, TypeInv, TypeOK
<1>1. ASSUME NEW t \in Callers, NEW c \in AppCalls, Begin(t, c)
      PROVE  EntryInv'
  BY <1>1, EntryBegin
<1>2. ASSUME NEW t \in Threads, CallMethodStep(t) PROVE EntryInv'
  BY <1>2, EntryCallMethod
<1>3. ASSUME NEW b \in Bevs, ConnectedCb(b) PROVE EntryInv'
  BY <1>3, QuietStep DEF ConnectedCb
<1>4. ASSUME NEW b \in Bevs, ReadCb(b) PROVE EntryInv'
  BY <1>4, QuietStep DEF ReadCb
<1>5. ASSUME NEW b \in Bevs, ErrorCb(b) PROVE EntryInv'
  BY <1>5, QuietStep DEF ErrorCb
<1>6. CASE ConnectTimerCb
  BY <1>6, QuietStep DEF ConnectTimerCb
<1>7. CASE HeartbeatCb
  BY <1>7, QuietStep DEF HeartbeatCb
<1>8. CASE RequestTimerCb
  <2>1. ~InErase /\ ~InErase' /\ m_callback_cache_lock' = Loop
    BY <1>8 DEF RequestTimerCb
  <2>2. UNCHANGED <<begun, cur, done, m_callback_cache, sweeping>>
    BY <1>8 DEF RequestTimerCb
  <2>3. \A t \in Threads : Unregistered(t)' => Unregistered(t)
    BY <1>8 DEF RequestTimerCb
  <2> HIDE DEF Quiet, Unregistered, InErase, TypeInv, TypeOK
  <2>4. FreshCalls' /\ DistinctCalls' /\ UnbegunCalls' /\ OneKey' /\ DoneOnce'
    BY <2>2, <2>3 DEF EntryInv, FreshCalls, DistinctCalls, UnbegunCalls,
                      OneKey, DoneOnce
  <2>5. SweepLocked' /\ StaleIsSwept' /\ SweptIsDone'
    BY <2>1, <2>2 DEF EntryInv, SweepLocked, StaleIsSwept, SweptIsDone
  <2> QED
    BY <2>4, <2>5 DEF EntryInv
<1>9. CASE CallbackStep
  BY <1>9, EntryCallback
<1>10. CASE Environment
  BY <1>10, EntryEnvironment
<1>11. CASE UNCHANGED vars
  BY <1>11, QuietStep DEF vars
<1> QED
  BY <1>1, <1>2, <1>3, <1>4, <1>5, <1>6, <1>7, <1>8, <1>9, <1>10, <1>11
  DEF Next

LEMMA EntryInvariant == Spec => [](TypeInv /\ EntryInv)
  BY TypeInit, TypeNext, EntryInit, EntryNext, PTL DEF Spec

(* However replies, timeouts, cancellations and calls on any number of      *)
(* threads interleave, the closure of a call never runs twice.              *)
THEOREM CompletedOnce == Spec => []DoneOnce
<1>1. EntryInv => DoneOnce
  BY DEF EntryInv
<1> QED
  BY <1>1, EntryInvariant, PTL

(* Pointers of a completed call are reachable only through the entry the    *)
(* sweep is at, under the lock.                                             *)
THEOREM NoStaleEntries == Spec => []NoStaleEntry
<1>1. TypeInv /\ EntryInv => NoStaleEntry
  BY DEF EntryInv, StaleIsSwept, SweepLocked, InErase, NoStaleEntry
<1> QED
  BY <1>1, EntryInvariant, PTL

LEMMA NotDroppedStep ==
  ASSUME TypeInv, EntryInv, [Next]_vars,
         NEW k \in Ids, m_callback_cache[k] \notin {NULL, m_callback_cache'[k]}
  PROVE  done'[m_callback_cache[k]] > 0
<1>1. \/ \E t \in Threads : AddCallback(t)
      \/ Decode \/ EraseSwept
  <2> SUFFICES ASSUME ~\E t \in Threads : AddCallback(t),
                      ~Decode, ~EraseSwept
               PROVE  UNCHANGED m_callback_cache
    OBVIOUS
  <2>1. CallbackStep => UNCHANGED m_callback_cache
    BY DEF CallbackStep, SetBev, SendCacheLock, FlushOne, FlushEnd, ReadEnd,
           ClearBev, Sweep, SweepEnd
  <2>2. ASSUME NEW t \in Threads, CallMethodStep(t)
        PROVE  UNCHANGED m_callback_cache
    BY <2>2 DEF CallMethodStep, Increment, Stamp, CheckBev, AddHeader,
                AddBody, ReadId, AddRequest
  <2>3. Environment => UNCHANGED m_callback_cache
    BY DEF Environment, Cancel, Tick, ConnectOk, ConnectionLost,
           PeerReceive, PeerReply
  <2> QED
    BY <2>1, <2>2, <2>3
    DEF Next, vars, Begin, ConnectedCb, ReadCb, ErrorCb, ConnectTimerCb,
        HeartbeatCb, RequestTimerCb
<1>2. ASSUME NEW t \in Threads, AddCallback(t) PROVE FALSE
  BY <1>2 DEF AddCallback, Insert, TypeInv, TypeOK
<1>3. CASE Decode
  <2> DEFINE j == ReplyKey(Head(input[bev_locked]))
  <2>1. /\ j \in Ids /\ m_callback_cache[j] # NULL
        /\ Run(m_callback_cache[j], "read") /\ DelCallback(j)
    BY <1>3 DEF Decode, Find
  <2> HIDE DEF j
  <2>2. j = k
    BY <2>1 DEF DelCallback, Erase, TypeInv, TypeOK
  <2>3. /\ pc[Loop] = "read"
        /\ \A i \in Ids : m_callback_cache'[i] \in {m_callback_cache[i], NULL}
    BY <1>3, <2>1 DEF Decode, DelCallback, Erase, TypeInv, TypeOK
  <2> QED
    BY <2>1, <2>2, <2>3, EntryRun
<1>4. CASE EraseSwept
  <2>1. k = sweeping /\ done' = done /\ InErase
    BY <1>4 DEF EraseSwept, DelCallback, Erase, InErase, TypeInv, TypeOK
  <2> QED
    BY <2>1 DEF EntryInv, SweptIsDone
<1> QED
  BY <1>1, <1>2, <1>3, <1>4

(* No registered call is forgotten or overwritten: an entry leaves the map  *)
(* only with its closure run, even when callers race for ids.               *)
THEOREM CallbacksKept == Spec => NoCallbackDropped
<1>1. TypeInv /\ EntryInv /\ [Next]_vars =>
        [\A k \in Ids :
           m_callback_cache[k] \notin {NULL, m_callback_cache'[k]} =>
             done'[m_callback_cache[k]] > 0]_vars
  BY NotDroppedStep
<1> QED
  BY <1>1, EntryInvariant, PTL DEF Spec, NoCallbackDropped

LEMMA NotWrittenStep ==
  ASSUME TypeInv, EntryInv, [Next]_vars, NEW c \in Calls, done[c] > 0
  PROVE  errorText'[c] = errorText[c] /\ response'[c] = response[c]
<1>1. \/ UNCHANGED <<errorText, response>>
      \/ Decode \/ Sweep
  <2> SUFFICES ASSUME ~Decode, ~Sweep
               PROVE  UNCHANGED <<errorText, response>>
    OBVIOUS
  <2>1. CallbackStep => UNCHANGED <<errorText, response>>
    BY DEF CallbackStep, SetBev, SendCacheLock, FlushOne, FlushEnd, ReadEnd,
           ClearBev, EraseSwept, SweepEnd
  <2>2. ASSUME NEW t \in Threads, CallMethodStep(t)
        PROVE  UNCHANGED <<errorText, response>>
    BY <2>2 DEF CallMethodStep, Increment, Stamp, AddCallback, CheckBev,
                AddHeader, AddBody, ReadId, AddRequest
  <2>3. Environment => UNCHANGED <<errorText, response>>
    BY DEF Environment, Cancel, Tick, ConnectOk, ConnectionLost,
           PeerReceive, PeerReply
  <2> QED
    BY <2>1, <2>2, <2>3
    DEF Next, vars, Begin, ConnectedCb, ReadCb, ErrorCb, ConnectTimerCb,
        HeartbeatCb, RequestTimerCb
<1>2. ~InErase => \A k \in Ids : m_callback_cache[k] # c
  BY ChannelAssumption DEF EntryInv, StaleIsSwept
<1>3. CASE Decode
  <2> DEFINE d == Find(m_callback_cache, ReplyKey(Head(input[bev_locked])))
  <2>1. d # c
    BY <1>2, <1>3, ChannelAssumption
    DEF Decode, Find, InErase, CallPcs, EntryInv, SweepLocked
  <2>2. \/ UNCHANGED <<errorText, response>>
        \/ /\ \/ response' = response
              \/ \E r : response' = [response EXCEPT ![d] = r]
           /\ \/ errorText' = errorText
              \/ \E e : errorText' = [errorText EXCEPT ![d] = e]
    BY <1>3 DEF Decode
  <2> QED
    BY <2>1, <2>2 DEF TypeInv, TypeOK
<1>4. CASE Sweep
  <2>1. PICK k \in Ids :
          errorText' = IF canceled[m_callback_cache[k]] THEN errorText
                       ELSE [errorText EXCEPT ![m_callback_cache[k]] = GivenUp(k)]
    BY <1>4 DEF Sweep
  <2>2. ~InErase /\ response' = response
    BY <1>4 DEF Sweep, InErase, CallPcs
  <2> QED
    BY <1>2, <2>1, <2>2 DEF TypeInv, TypeOK
<1> QED
  BY <1>1, <1>3, <1>4

(* The controller and the response are left alone once the closure has run, *)
(* with any number of threads, and even when ids collide.                   *)
THEOREM DoneIsFinal == Spec => NoWriteAfterDone
<1>1. TypeInv /\ EntryInv /\ [Next]_vars =>
        [\A c \in Calls : done[c] > 0 =>
           errorText'[c] = errorText[c] /\ response'[c] = response[c]]_vars
  BY NotWrittenStep
<1> QED
  BY <1>1, EntryInvariant, PTL DEF Spec, NoWriteAfterDone

-----------------------------------------------------------------------------
(* Connections.  m_bev_lock is what keeps the bufferevent of a send alive.  *)

(* An event libevent has still to report says what became of the link. *)
EventsTell ==
  \A b \in Bevs : /\ "ERROR" \in events[b] => link[b] = "lost"
                  /\ "CONNECTED" \in events[b] => link[b] \in {"open", "lost"}

(* event_cb works on a bufferevent that is there. *)
CallbackBev ==
  /\ pc[Loop] = "set_bev" =>
       bev_locked \in Bevs /\ link[bev_locked] \in {"open", "lost"}
  /\ pc[Loop] = "clear_bev" =>
       /\ bev_locked \in Bevs
       /\ link[bev_locked] = "lost" /\ events[bev_locked] = {}

BevAlive == m_bev # NULL => link[m_bev] \in {"open", "lost"}

(* Who sends, or flushes, holds m_bev_lock; m_bev stays what it was. *)
SenderHolds ==
  /\ \A t \in Threads :
       /\ pc[t] \in {"add_header", "add_body"} => m_bev_lock = t /\ m_bev # NULL
       /\ pc[t] = "add_body" => out[t] = m_bev
  /\ pc[Loop] = "flush" => m_bev_lock = Loop

ConnInv == EventsTell /\ CallbackBev /\ BevAlive /\ SenderHolds /\ ReconnectArmed

LEMMA ConnInit == Init => ConnInv
<1> SUFFICES ASSUME Init PROVE ConnInv
  OBVIOUS
<1>1. EventsTell /\ CallbackBev /\ BevAlive /\ SenderHolds
  BY ChannelAssumption
  DEF Init, EventsTell, CallbackBev, BevAlive, SenderHolds, Threads
<1>2. LiveBevs = {1}
  BY ChannelAssumption DEF Init, LiveBevs, Bevs
<1>3. ReconnectArmed
  BY <1>2 DEF Init, ReconnectArmed
<1> QED
  BY <1>1, <1>3 DEF ConnInv

(* A step that leaves the connections alone has only SenderHolds to keep.   *)
LEMMA LinksKept ==
  ASSUME ConnInv, UNCHANGED <<link, events, m_bev, m_connect_timer>>,
         pc'[Loop] \in {"set_bev", "clear_bev"} =>
           pc'[Loop] = pc[Loop] /\ UNCHANGED bev_locked,
         SenderHolds'
  PROVE  ConnInv'
  BY DEF ConnInv, EventsTell, CallbackBev, BevAlive, ReconnectArmed, LiveBevs

LEMMA ConnCallMethod ==
  ASSUME TypeInv, ConnInv, NEW t \in Threads, CallMethodStep(t)
  PROVE  ConnInv'
<1> USE ChannelAssumption
    DEF Goto, Return, SenderHolds, TypeInv, TypeOK, Threads, BevLockFree
<1>0. SenderHolds
  BY DEF ConnInv
<1>1. CASE Increment(t)
  BY <1>0, <1>1, LinksKept DEF Increment
<1>2. CASE Stamp(t)
  BY <1>0, <1>2, LinksKept DEF Stamp
<1>3. CASE AddCallback(t)
  BY <1>0, <1>3, LinksKept DEF AddCallback
<1>4. CASE CheckBev(t)
  BY <1>0, <1>4, LinksKept DEF CheckBev
<1>5. CASE AddHeader(t)
  BY <1>0, <1>5, LinksKept DEF AddHeader
<1>6. CASE AddBody(t)
  BY <1>0, <1>6, LinksKept DEF AddBody
<1>7. CASE AddRequest(t)
  BY <1>0, <1>7, LinksKept DEF AddRequest
<1>8. CASE ReadId(t)
  BY <1>0, <1>8, LinksKept DEF ReadId
<1> QED
  BY <1>1, <1>2, <1>3, <1>4, <1>5, <1>6, <1>7, <1>8 DEF CallMethodStep

LEMMA ConnCallback ==
  ASSUME TypeInv, ConnInv, CallbackStep
  PROVE  ConnInv'
<1> USE ChannelAssumption
    DEF Goto, SenderHolds, TypeInv, TypeOK, Threads, BevLockFree
<1>0. SenderHolds
  BY DEF ConnInv
<1>1. CASE SetBev
  <2>1. SenderHolds'
    BY <1>0, <1>1 DEF SetBev
  <2>2. EventsTell' /\ CallbackBev' /\ BevAlive' /\ ReconnectArmed'
    BY <1>1 DEF SetBev, ConnInv, EventsTell, CallbackBev, BevAlive,
                ReconnectArmed, LiveBevs
  <2> QED
    BY <2>1, <2>2 DEF ConnInv
<1>2. CASE SendCacheLock
  BY <1>0, <1>2, LinksKept DEF SendCacheLock
<1>3. CASE FlushOne
  BY <1>0, <1>3, LinksKept DEF FlushOne
<1>4. CASE FlushEnd
  BY <1>0, <1>4, LinksKept DEF FlushEnd
<1>5. CASE Decode
  BY <1>0, <1>5, LinksKept DEF Decode, Run
<1>6. CASE ReadEnd
  BY <1>0, <1>6, LinksKept DEF ReadEnd
<1>7. CASE ClearBev
  <2>1. SenderHolds'
    BY <1>0, <1>7 DEF ClearBev
  <2>2. /\ bev_locked \in Bevs /\ link[bev_locked] = "lost"
        /\ link' = [link EXCEPT ![bev_locked] = "freed"]
        /\ LiveBevs = {bev_locked}
    BY <1>7 DEF ClearBev, ConnInv, CallbackBev, ReconnectArmed, LiveBevs
  <2>3. LiveBevs' = {}
    BY <2>2 DEF LiveBevs
  <2>4. ReconnectArmed'
    BY <1>7, <2>3 DEF ClearBev, Rearm, ReconnectArmed
  <2>5. EventsTell' /\ CallbackBev' /\ BevAlive'
    BY <1>7 DEF ClearBev, ConnInv, EventsTell, CallbackBev, BevAlive
  <2> QED
    BY <2>1, <2>4, <2>5 DEF ConnInv
<1>8. CASE Sweep
  BY <1>0, <1>8, LinksKept DEF Sweep, Run
<1>9. CASE EraseSwept
  BY <1>0, <1>9, LinksKept DEF EraseSwept
<1>10. CASE SweepEnd
  BY <1>0, <1>10, LinksKept DEF SweepEnd
<1> QED
  BY <1>1, <1>2, <1>3, <1>4, <1>5, <1>6, <1>7, <1>8, <1>9, <1>10
  DEF CallbackStep

LEMMA ConnNext == TypeInv /\ ConnInv /\ [Next]_vars => ConnInv'
<1> SUFFICES ASSUME TypeInv, ConnInv, [Next]_vars PROVE ConnInv'
  OBVIOUS
<1> USE ChannelAssumption
    DEF Goto, SenderHolds, TypeInv, TypeOK, Threads, BevLockFree
<1>0. SenderHolds
  BY DEF ConnInv
<1>1. ASSUME NEW t \in Callers, NEW c \in AppCalls, Begin(t, c)
      PROVE  ConnInv'
  BY <1>0, <1>1, LinksKept DEF Begin
<1>2. ASSUME NEW t \in Threads, CallMethodStep(t) PROVE ConnInv'
  BY <1>2, ConnCallMethod
<1>3. ASSUME NEW b \in Bevs, ConnectedCb(b) PROVE ConnInv'
  <2>1. SenderHolds'
    BY <1>0, <1>3 DEF ConnectedCb
  <2> QED
    BY <1>3, <2>1 DEF ConnectedCb, ConnInv, EventsTell, CallbackBev, BevAlive,
                      ReconnectArmed, LiveBevs
<1>4. ASSUME NEW b \in Bevs, ReadCb(b) PROVE ConnInv'
  BY <1>0, <1>4, LinksKept DEF ReadCb
<1>5. ASSUME NEW b \in Bevs, ErrorCb(b) PROVE ConnInv'
  <2>1. SenderHolds'
    BY <1>0, <1>5 DEF ErrorCb
  <2> QED
    BY <1>5, <2>1 DEF ErrorCb, ConnInv, EventsTell, CallbackBev, BevAlive,
                      ReconnectArmed, LiveBevs
<1>6. CASE ConnectTimerCb
  <2>1. SenderHolds'
    BY <1>0, <1>6 DEF ConnectTimerCb
  <2>2. LiveBevs = {}
    BY <1>6 DEF ConnectTimerCb, ConnInv, ReconnectArmed
  <2>3. CASE UNCHANGED <<link, m_connect_timer>>
    BY <1>6, <2>1, <2>3, LinksKept DEF ConnectTimerCb
  <2>4. ASSUME NEW b \in Bevs, link' = [link EXCEPT ![b] = "connecting"],
               link[b] = "unused", m_connect_timer' = FALSE
        PROVE  ConnInv'
    <3>1. ReconnectArmed'
      BY <2>2, <2>4 DEF ReconnectArmed, LiveBevs
    <3>2. EventsTell' /\ CallbackBev' /\ BevAlive'
      BY <1>6, <2>4 DEF ConnectTimerCb, ConnInv, EventsTell, CallbackBev,
                        BevAlive
    <3> QED
      BY <2>1, <3>1, <3>2 DEF ConnInv
  <2> QED
    BY <1>6, <2>3, <2>4 DEF ConnectTimerCb
<1>7. CASE HeartbeatCb
  BY <1>0, <1>7, LinksKept DEF HeartbeatCb
<1>8. CASE RequestTimerCb
  BY <1>0, <1>8, LinksKept DEF RequestTimerCb
<1>9. CASE CallbackStep
  BY <1>9, ConnCallback
<1>10. CASE Environment
  <2>1. ASSUME NEW b \in Bevs, ConnectOk(b) PROVE ConnInv'
    <3>1. SenderHolds' /\ LiveBevs' = LiveBevs
      BY <1>0, <2>1 DEF ConnectOk, LiveBevs
    <3> QED
      BY <2>1, <3>1 DEF ConnectOk, ConnInv, EventsTell, CallbackBev,
                        BevAlive, ReconnectArmed
  <2>2. ASSUME NEW b \in Bevs, ConnectionLost(b) PROVE ConnInv'
    <3>1. SenderHolds' /\ LiveBevs' = LiveBevs
      BY <1>0, <2>2 DEF ConnectionLost, LiveBevs
    <3> QED
      BY <2>2, <3>1 DEF ConnectionLost, ConnInv, EventsTell, CallbackBev,
                        BevAlive, ReconnectArmed
  <2>3. ASSUME NEW b \in Bevs, PeerReceive(b) PROVE ConnInv'
    BY <1>0, <2>3, LinksKept DEF PeerReceive
  <2>4. ASSUME NEW b \in Bevs, NEW r \in Replies, PeerReply(b, r)
        PROVE  ConnInv'
    BY <1>0, <2>4, LinksKept DEF PeerReply
  <2>5. ASSUME NEW c \in Calls, Cancel(c) PROVE ConnInv'
    BY <1>0, <2>5, LinksKept DEF Cancel
  <2>6. CASE Tick
    BY <1>0, <2>6, LinksKept DEF Tick
  <2> QED
    BY <1>10, <2>1, <2>2, <2>3, <2>4, <2>5, <2>6 DEF Environment
<1>11. CASE UNCHANGED vars
  BY <1>0, <1>11, LinksKept DEF vars
<1> QED
  BY <1>1, <1>2, <1>3, <1>4, <1>5, <1>6, <1>7, <1>8, <1>9, <1>10, <1>11
  DEF Next

LEMMA ConnInvariant == Spec => [](TypeInv /\ ConnInv)
  BY TypeInit, TypeNext, ConnInit, ConnNext, PTL DEF Spec

(* Reconnecting is neither lost nor doubled: one attempt or connection, or  *)
(* the timer.                                                               *)
THEOREM ReconnectNeverLost == Spec => []ReconnectArmed
<1>1. ConnInv => ReconnectArmed
  BY DEF ConnInv
<1> QED
  BY <1>1, ConnInvariant, PTL

(* With any number of threads, no send goes to a freed bufferevent.         *)
THEOREM SendsToLiveBev == Spec => []NoUseAfterFree
<1>1. TypeInv /\ ConnInv => NoUseAfterFree
  BY DEF ConnInv, BevAlive, SenderHolds, NoUseAfterFree
<1> QED
  BY <1>1, ConnInvariant, PTL

-----------------------------------------------------------------------------
(* Deadlock.  A lock is only held where it is soon released, and m_bev is a *)
(* bufferevent whose CONNECTED has been handled.                            *)

HoldInv ==
  /\ m_bev_lock # NULL =>
       \/ pc[m_bev_lock] \in {"add_header", "add_body"}
       \/ m_bev_lock = Loop /\ pc[Loop] = "flush"
  /\ m_callback_cache_lock # NULL => pc[Loop] = "sweep" \/ InErase
  /\ bev_locked # NULL =>
       \/ pc[Loop] \in {"set_bev", "lock_cache", "flush", "read", "clear_bev"}
       \/ pc[Loop] \in CallPcs /\ resume = "read"

HandledBev ==
  /\ m_bev # NULL => "CONNECTED" \notin events[m_bev]
  /\ pc[Loop] = "set_bev" =>
       m_bev # bev_locked /\ "CONNECTED" \notin events[bev_locked]

LEMMA HoldInit == Init => HoldInv /\ HandledBev
  BY ChannelAssumption DEF Init, HoldInv, HandledBev, Threads

LEMMA HoldCallMethod ==
  ASSUME TypeInv, ConnInv, HoldInv, NEW t \in Threads, CallMethodStep(t)
  PROVE  HoldInv'
<1> USE ChannelAssumption DEF Goto, HoldInv, TypeInv, TypeOK, Threads, InErase,
                              CallPcs
<1>1. CASE Increment(t)
  BY <1>1 DEF Increment
<1>2. CASE Stamp(t)
  BY <1>2 DEF Stamp
<1>3. CASE AddCallback(t)
  BY <1>3 DEF AddCallback
<1>4. CASE CheckBev(t)
  BY <1>4 DEF CheckBev, BevLockFree
<1>5. CASE AddHeader(t)
  BY <1>5 DEF AddHeader
<1>6. CASE AddBody(t)
  BY <1>6 DEF AddBody, Return
<1>7. CASE AddRequest(t)
  BY <1>7 DEF AddRequest, Return
<1>8. CASE ReadId(t)
  BY <1>8 DEF ReadId
<1> QED
  BY <1>1, <1>2, <1>3, <1>4, <1>5, <1>6, <1>7, <1>8 DEF CallMethodStep

LEMMA HoldCallback ==
  ASSUME TypeInv, ConnInv, HoldInv, CallbackStep
  PROVE  HoldInv'
<1> USE ChannelAssumption DEF Goto, HoldInv, TypeInv, TypeOK, Threads, InErase,
                              CallPcs
<1>1. CASE SetBev
  BY <1>1 DEF SetBev, BevLockFree
<1>2. CASE SendCacheLock
  BY <1>2 DEF SendCacheLock, BevLockFree
<1>3. CASE FlushOne
  BY <1>3 DEF FlushOne
<1>4. CASE FlushEnd
  BY <1>4 DEF FlushEnd
<1>5. CASE Decode
  BY <1>5 DEF Decode, Run, Enter
<1>6. CASE ReadEnd
  BY <1>6 DEF ReadEnd
<1>7. CASE ClearBev
  BY <1>7 DEF ClearBev, BevLockFree
<1>8. CASE Sweep
  BY <1>8 DEF Sweep, Run, Enter
<1>9. CASE EraseSwept
  BY <1>9 DEF EraseSwept
<1>10. CASE SweepEnd
  BY <1>10 DEF SweepEnd
<1> QED
  BY <1>1, <1>2, <1>3, <1>4, <1>5, <1>6, <1>7, <1>8, <1>9, <1>10
  DEF CallbackStep

LEMMA HoldNext ==
  TypeInv /\ ConnInv /\ HoldInv /\ [Next]_vars => HoldInv'
<1> SUFFICES ASSUME TypeInv, ConnInv, HoldInv, [Next]_vars PROVE HoldInv'
  OBVIOUS
<1> USE ChannelAssumption DEF Goto, HoldInv, TypeInv, TypeOK, Threads, InErase,
                              CallPcs
<1>1. ASSUME NEW t \in Callers, NEW c \in AppCalls, Begin(t, c)
      PROVE  HoldInv'
  BY <1>1 DEF Begin
<1>2. ASSUME NEW t \in Threads, CallMethodStep(t) PROVE HoldInv'
  BY <1>2, HoldCallMethod
<1>3. ASSUME NEW b \in Bevs, ConnectedCb(b) \/ ReadCb(b) \/ ErrorCb(b)
      PROVE  HoldInv'
  BY <1>3 DEF ConnectedCb, ReadCb, ErrorCb
<1>4. CASE ConnectTimerCb \/ HeartbeatCb
  BY <1>4 DEF ConnectTimerCb, HeartbeatCb
<1>5. CASE RequestTimerCb
  BY <1>5 DEF RequestTimerCb
<1>6. CASE CallbackStep
  BY <1>6, HoldCallback
<1>7. CASE Environment
  BY <1>7 DEF Environment, Cancel, Tick, ConnectOk, ConnectionLost,
              PeerReceive, PeerReply
<1>8. CASE UNCHANGED vars
  BY <1>8 DEF vars
<1> QED
  BY <1>1, <1>2, <1>3, <1>4, <1>5, <1>6, <1>7, <1>8 DEF Next

LEMMA HandledNext ==
  TypeInv /\ ConnInv /\ HandledBev /\ [Next]_vars => HandledBev'
<1> SUFFICES ASSUME TypeInv, ConnInv, HandledBev, [Next]_vars
             PROVE  HandledBev'
  OBVIOUS
<1> USE ChannelAssumption DEF Goto, HandledBev, TypeInv, TypeOK, Threads
<1>1. ASSUME NEW t \in Callers, NEW c \in AppCalls, Begin(t, c)
      PROVE  HandledBev'
  BY <1>1 DEF Begin
<1>2. ASSUME NEW t \in Threads, CallMethodStep(t) PROVE HandledBev'
  <2>1. UNCHANGED <<m_bev, events, bev_locked>>
    BY <1>2 DEF CallMethodStep, Increment, Stamp, AddCallback, CheckBev,
                AddHeader, AddBody, ReadId, AddRequest
  <2>2. pc'[Loop] # "set_bev" \/ pc'[Loop] = pc[Loop]
    BY <1>2 DEF CallMethodStep, Increment, Stamp, AddCallback, CheckBev,
                AddHeader, AddBody, ReadId, AddRequest, Return
  <2> QED
    BY <2>1, <2>2
<1>3. ASSUME NEW b \in Bevs, ConnectedCb(b) \/ ReadCb(b) \/ ErrorCb(b)
      PROVE  HandledBev'
  <2>1. CASE ConnectedCb(b)
    <3>1. /\ m_bev' = m_bev /\ m_bev # b /\ bev_locked' = b
          /\ events' = [events EXCEPT ![b] = @ \ {"CONNECTED"}]
      BY <2>1 DEF ConnectedCb
    <3> QED
      BY <3>1
  <2>2. CASE ReadCb(b)
    BY <2>2 DEF ReadCb
  <2>3. CASE ErrorCb(b)
    BY <2>3 DEF ErrorCb
  <2> QED
    BY <1>3, <2>1, <2>2, <2>3
<1>4. CASE ConnectTimerCb \/ HeartbeatCb \/ RequestTimerCb
  BY <1>4 DEF ConnectTimerCb, HeartbeatCb, RequestTimerCb
<1>5. CASE SetBev \/ ClearBev
  BY <1>5 DEF SetBev, ClearBev, ConnInv, CallbackBev
<1>6. CASE CallbackStep /\ ~SetBev /\ ~ClearBev
  BY <1>6 DEF CallbackStep, SendCacheLock, FlushOne, FlushEnd, Decode, Run,
              ReadEnd, Sweep, EraseSwept, SweepEnd
<1>7. CASE Environment
  <2>1. ASSUME NEW b \in Bevs, ConnectOk(b) PROVE HandledBev'
    <3>1. /\ UNCHANGED <<m_bev, pc, bev_locked>> /\ link[b] = "connecting"
          /\ events' = [events EXCEPT ![b] = @ \cup {"CONNECTED"}]
      BY <2>1 DEF ConnectOk
    <3>2. m_bev # b
          /\ (pc[Loop] = "set_bev" => bev_locked \in Bevs \ {b})
      BY <3>1 DEF ConnInv, BevAlive, CallbackBev
    <3> QED
      BY <3>1, <3>2
  <2>2. ASSUME NEW b \in Bevs, ConnectionLost(b) PROVE HandledBev'
    <3>1. /\ UNCHANGED <<m_bev, pc, bev_locked>>
          /\ events' = [events EXCEPT ![b] = @ \cup {"ERROR"}]
      BY <2>2 DEF ConnectionLost
    <3>2. pc[Loop] = "set_bev" => bev_locked \in Bevs
      BY DEF ConnInv, CallbackBev
    <3> QED
      BY <3>1, <3>2
  <2>3. CASE Environment /\ \A b \in Bevs : ~ConnectOk(b) /\ ~ConnectionLost(b)
    BY <2>3 DEF Environment, Cancel, Tick, PeerReceive, PeerReply
  <2> QED
    BY <1>7, <2>1, <2>2, <2>3
<1>8. CASE UNCHANGED vars
  BY <1>8 DEF vars
<1> QED
  BY <1>1, <1>2, <1>3, <1>4, <1>5, <1>6, <1>7, <1>8 DEF Next

(* Who sends is kept only by the loop, and the loop only by who sends.      *)
LEMMA SenderWorks ==
  ASSUME TypeInv, ConnInv, HoldInv, HandledBev, ~LockCycle,
         NEW t \in Threads, pc[t] \in {"add_header", "add_body"},
         WaitsFor(t) # NULL
  PROVE  /\ WaitsFor(t) = Loop /\ bev_locked # NULL
         /\ Working(Loop)
<1> USE ChannelAssumption DEF TypeInv, TypeOK, Threads
<1>1. m_bev_lock = t /\ m_bev # NULL /\ (pc[t] = "add_body" => out[t] = m_bev)
  BY DEF ConnInv, SenderHolds
<1>2. WaitsFor(t) = Loop /\ t # Loop /\ bev_locked = m_bev
  BY <1>1 DEF WaitsFor, CanWrite
<1>3. t \in Callers /\ pc[Loop] \notin {"lock_cache", "clear_bev", "lock_bev"}
  BY <1>2 DEF LockCycle
<1>4. pc[Loop] \notin {"flush", "add_header", "add_body", "set_bev"}
  BY <1>1, <1>2 DEF ConnInv, SenderHolds, HandledBev
<1>5. m_callback_cache_lock = NULL /\ pc[Loop] \notin {"idle", "poll"}
  BY <1>1, <1>2, <1>3, <1>4 DEF HoldInv, InErase, CallPcs
<1>6. WaitsFor(Loop) = NULL
  BY <1>3, <1>4, <1>5 DEF WaitsFor
<1> QED
  BY <1>1, <1>2, <1>5, <1>6 DEF Working

LEMMA SomeoneWorks ==
  TypeInv /\ ConnInv /\ HoldInv /\ HandledBev => OnlyLockCycle
<1> SUFFICES ASSUME TypeInv, ConnInv, HoldInv, HandledBev, ~LockCycle,
                    NEW t \in Threads, WaitsFor(t) # NULL
             PROVE  \E w \in {WaitsFor(t), WaitsFor(WaitsFor(t))} \ {NULL} :
                      Working(w)
  BY DEF OnlyLockCycle
<1> USE ChannelAssumption DEF TypeInv, TypeOK, Threads
(* The thread that has m_bev_lock works, or the loop does, and then waits   *)
(* for nobody.                                                              *)
<1>1. ASSUME m_bev_lock # NULL, WaitsFor(m_bev_lock) # NULL
      PROVE  /\ WaitsFor(m_bev_lock) = Loop /\ bev_locked # NULL
             /\ Working(Loop)
  <2>1. pc[m_bev_lock] \in {"add_header", "add_body"}
    BY <1>1 DEF HoldInv, WaitsFor
  <2> QED
    BY <1>1, <2>1, SenderWorks
<1>2. ASSUME m_bev_lock # NULL, WaitsFor(m_bev_lock) = NULL
      PROVE  Working(m_bev_lock)
  BY <1>2 DEF HoldInv, Working
<1>3. CASE pc[t] \in {"lock_bev", "set_bev", "lock_cache", "clear_bev"}
  <2>1. WaitsFor(t) = m_bev_lock
    BY <1>3 DEF WaitsFor
  <2> QED
    BY <2>1, <1>1, <1>2
<1>4. CASE pc[t] \in {"add_header", "add_body"}
  BY <1>4, SenderWorks
<1>5. CASE pc[t] \in {"add_callback", "read"} /\ m_callback_cache_lock # t
  <2>1. WaitsFor(t) = m_callback_cache_lock /\ m_callback_cache_lock = Loop
    BY <1>5 DEF WaitsFor
  <2>2. pc[Loop] = "sweep" \/ InErase
    BY <2>1 DEF HoldInv
  <2>3. bev_locked = NULL /\ pc[Loop] \notin {"idle", "poll"}
    BY <2>2 DEF HoldInv, InErase, CallPcs
  <2>4. CASE WaitsFor(Loop) = NULL
    BY <2>1, <2>3, <2>4 DEF Working
  <2>5. CASE WaitsFor(Loop) # NULL
    <3>1. pc[Loop] = "lock_bev"
      BY <2>1, <2>2, <2>3, <2>5 DEF WaitsFor, InErase, CallPcs, CanWrite
    <3>2. WaitsFor(Loop) = m_bev_lock
      BY <3>1 DEF WaitsFor
    <3>3. Working(m_bev_lock)
      BY <3>2, <2>3, <2>5, <1>1, <1>2
    <3> QED
      BY <2>1, <2>5, <3>2, <3>3
  <2> QED
    BY <2>4, <2>5
<1> QED
  BY <1>3, <1>4, <1>5 DEF WaitsFor

(* With any number of callers, the lock cycle is the one deadlock.          *)
THEOREM OneDeadlock == Spec => []OnlyLockCycle
  BY TypeInit, TypeNext, ConnInit, ConnNext, HoldInit, HoldNext, HandledNext,
     SomeoneWorks, PTL DEF Spec

-----------------------------------------------------------------------------
(* Sending.  A call is in the hands of one thread, or waits in              *)
(* m_request_cache, or was handed to a bufferevent.                         *)

InHand ==
  \A t \in Threads : pc[t] \in CallPcs =>
    cur[t] \in begun /\ sends[cur[t]] = 0 /\ ~Cached(cur[t])

OneHand ==
  \A t, u \in Threads :
    pc[t] \in CallPcs /\ pc[u] \in CallPcs /\ cur[t] = cur[u] => t = u

UnbegunUnsent ==
  \A c \in Calls : c \notin begun => sends[c] = 0 /\ ~Cached(c)

OneRequest ==
  \A j, k \in Ids :
    m_request_cache[j] # NULL /\ m_request_cache[j] = m_request_cache[k]
      => j = k

SendInv == InHand /\ OneHand /\ UnbegunUnsent /\ OneRequest /\ SentOnce

LEMMA SendInit == Init => SendInv
<1> SUFFICES ASSUME Init PROVE SendInv
  OBVIOUS
<1>1. \A t \in Threads : pc[t] \notin CallPcs
  BY DEF Init, CallPcs
<1>2. \A k \in Ids : m_request_cache[k] = NULL
  BY DEF Init
<1>3. \A c \in Calls : sends[c] = 0 /\ ~Cached(c)
  BY <1>2, ChannelAssumption DEF Init, Cached
<1> QED
  BY <1>1, <1>2, <1>3
  DEF SendInv, InHand, OneHand, UnbegunUnsent, OneRequest, SentOnce

(* A request may go out of the cache, but none comes in. *)
FewerRequests ==
  \A k \in Ids : m_request_cache'[k] \in {m_request_cache[k], NULL}

(* No thread but those in T has a call it did not have. *)
SameHands(T) ==
  \A t \in Threads \ T :
    pc'[t] \in CallPcs => pc[t] \in CallPcs /\ cur'[t] = cur[t]

LEMMA FewerCached ==
  ASSUME FewerRequests
  PROVE  \A c \in Calls : Cached(c)' => Cached(c)
<1> SUFFICES ASSUME NEW c \in Calls, NEW k \in Ids, m_request_cache'[k] = c
             PROVE  m_request_cache[k] = c
  BY DEF Cached
<1> QED
  BY ChannelAssumption DEF FewerRequests

LEMMA SendQuiet ==
  ASSUME SendInv, UNCHANGED <<sends, begun>>, FewerRequests, SameHands({}),
         TypeInv
  PROVE  SendInv'
<1>1. \A c \in Calls : Cached(c)' => Cached(c)
  BY FewerCached
<1>2. \A t \in Threads : pc[t] \in CallPcs => cur[t] \in Calls
  BY DEF TypeInv, Located
<1>3. InHand' /\ OneHand'
  BY <1>1, <1>2 DEF SendInv, InHand, OneHand, SameHands
<1>4. UnbegunUnsent' /\ SentOnce'
  BY <1>1 DEF SendInv, UnbegunUnsent, SentOnce
<1>5. OneRequest'
  BY DEF SendInv, OneRequest, FewerRequests
<1> QED
  BY <1>3, <1>4, <1>5 DEF SendInv

LEMMA SendEnter ==
  ASSUME SendInv, TypeInv, NEW t \in Threads, NEW c \in Calls, Enter(t, c),
         FewerRequests, SameHands({t}), sends' = sends
  PROVE  SendInv'
<1>1. \A d \in Calls : Cached(d)' => Cached(d)
  BY FewerCached
<1>2. \A u \in Threads : pc[u] \in CallPcs => cur[u] \in Calls
  BY DEF TypeInv, Located
<1>3. /\ c \notin begun /\ begun' = begun \cup {c} /\ cur'[t] = c
      /\ \A u \in Threads \ {t} :
           pc'[u] \in CallPcs => pc[u] \in CallPcs /\ cur'[u] = cur[u]
  BY DEF Enter, SameHands, TypeInv, TypeOK
<1>4. \A u \in Threads \ {t} :
        pc'[u] \in CallPcs =>
          /\ cur'[u] = cur[u] /\ cur[u] \in begun /\ cur[u] \in Calls
          /\ sends'[cur[u]] = 0 /\ ~Cached(cur[u])'
  BY <1>1, <1>2, <1>3 DEF SendInv, InHand
<1>5. sends'[c] = 0 /\ ~Cached(c)'
  BY <1>1, <1>3 DEF SendInv, UnbegunUnsent
<1>6. InHand'
  <2> SUFFICES ASSUME NEW u \in Threads, pc'[u] \in CallPcs
               PROVE  /\ cur'[u] \in begun' /\ sends'[cur'[u]] = 0
                      /\ ~(\E k \in Ids : m_request_cache'[k] = cur'[u])
    BY DEF InHand, Cached
  <2> QED
    BY <1>3, <1>4, <1>5 DEF Cached
<1>7. OneHand'
  BY <1>3, <1>4 DEF SendInv, OneHand
<1>8. UnbegunUnsent' /\ SentOnce'
  BY <1>1, <1>3 DEF SendInv, UnbegunUnsent, SentOnce
<1>9. OneRequest'
  BY DEF SendInv, OneRequest, FewerRequests
<1> QED
  BY <1>6, <1>7, <1>8, <1>9 DEF SendInv

LEMMA SendCallMethod ==
  ASSUME SendInv, TypeInv, NEW t \in Threads, CallMethodStep(t)
  PROVE  SendInv'
<1>0. /\ pc \in [Threads -> CallPcs \cup LoopPcs \cup {"idle"}]
      /\ cur \in [Threads -> Calls \cup {NULL}]
      /\ sends \in [Calls -> Nat]
      /\ m_request_cache \in [Ids -> Calls \cup {NULL}]
      /\ resume \notin CallPcs /\ "idle" \notin CallPcs
  BY DEF TypeInv, TypeOK, CallPcs
<1>1. CASE \/ Increment(t) \/ Stamp(t) \/ AddCallback(t) \/ CheckBev(t)
           \/ AddHeader(t) \/ ReadId(t)
  <2>1. /\ UNCHANGED <<sends, begun, m_request_cache, cur>>
        /\ pc[t] \in CallPcs
        /\ \A u \in Threads \ {t} : pc'[u] = pc[u]
    BY <1>0, <1>1
    DEF Increment, Stamp, AddCallback, CheckBev, AddHeader, ReadId, Goto, CallPcs
  <2> QED
    BY <2>1, SendQuiet DEF SameHands, FewerRequests
<1>2. ASSUME pc[t] \in CallPcs, Return(t)
      PROVE  /\ cur[t] \in Calls /\ sends[cur[t]] = 0 /\ ~Cached(cur[t])
             /\ cur[t] \in begun
             /\ \A u \in Threads :
                  pc'[u] \in CallPcs =>
                    /\ pc[u] \in CallPcs /\ cur'[u] = cur[u]
                    /\ cur[u] \in Calls /\ cur[u] # cur[t]
  <2>1. cur[t] \in Calls /\ \A u \in Threads : pc[u] \in CallPcs => cur[u] \in Calls
    BY <1>2 DEF TypeInv, Located
  <2>2. /\ pc'[t] \notin CallPcs
        /\ \A u \in Threads \ {t} : pc'[u] = pc[u] /\ cur'[u] = cur[u]
    BY <1>0, <1>2 DEF Return, Goto
  <2> QED
    BY <1>2, <2>1, <2>2 DEF SendInv, InHand, OneHand
<1>3. CASE AddBody(t)
  <2>1. /\ UNCHANGED <<begun, m_request_cache>>
        /\ sends' = [sends EXCEPT ![cur[t]] = @ + 1]
        /\ pc[t] \in CallPcs /\ Return(t)
    BY <1>3 DEF AddBody, CallPcs
  <2>2. \A c \in Calls : Cached(c)' <=> Cached(c)
    BY <2>1 DEF Cached
  <2>3. sends'[cur[t]] = 1 /\ \A c \in Calls \ {cur[t]} : sends'[c] = sends[c]
    BY <1>0, <1>2, <2>1
  <2>4. InHand' /\ OneHand'
    BY <1>2, <2>1, <2>2, <2>3 DEF SendInv, InHand, OneHand
  <2>5. UnbegunUnsent' /\ SentOnce' /\ OneRequest'
    BY <1>2, <2>1, <2>2, <2>3
    DEF SendInv, UnbegunUnsent, SentOnce, OneRequest
  <2> QED
    BY <2>4, <2>5 DEF SendInv
<1>4. CASE AddRequest(t)
  <2>1. /\ UNCHANGED <<begun, sends>>
        /\ pc[t] \in CallPcs /\ Return(t)
        /\ m_request_cache' = Insert(m_request_cache, reg[t], cur[t])
    BY <1>4 DEF AddRequest, CallPcs
  <2>2. \A k \in Ids : m_request_cache'[k] # m_request_cache[k] =>
          k = reg[t] /\ m_request_cache[k] = NULL /\ m_request_cache'[k] = cur[t]
    BY <1>0, <2>1 DEF Insert
  <2>3. \A k \in Ids : m_request_cache[k] # cur[t]
    BY <1>2, <2>1 DEF Cached
  <2>4. \A c \in Calls \ {cur[t]} : Cached(c)' => Cached(c)
    <3>1. ASSUME NEW c \in Calls \ {cur[t]}, NEW k \in Ids,
                 m_request_cache'[k] = c
          PROVE  m_request_cache[k] = c
      BY <2>2, <3>1
    <3> QED
      BY <3>1 DEF Cached
  <2>5. InHand' /\ OneHand'
    BY <1>2, <2>1, <2>4 DEF SendInv, InHand, OneHand
  <2>6. UnbegunUnsent' /\ SentOnce'
    BY <1>2, <2>1, <2>4 DEF SendInv, UnbegunUnsent, SentOnce
  <2>7. OneRequest'
    BY <2>2, <2>3 DEF SendInv, OneRequest
  <2> QED
    BY <2>5, <2>6, <2>7 DEF SendInv
<1> QED
  BY <1>1, <1>3, <1>4 DEF CallMethodStep

LEMMA SendRun ==
  ASSUME SendInv, TypeInv, NEW c, NEW label \in {"read", "erase"},
         pc[Loop] \notin CallPcs, Run(c, label), FewerRequests, sends' = sends
  PROVE  SendInv'
<1>0. /\ pc \in [Threads -> CallPcs \cup LoopPcs \cup {"idle"}]
      /\ cur \in [Threads -> Calls \cup {NULL}]
  BY DEF TypeInv, TypeOK
<1>1. \A u \in Threads \ {Loop} : pc'[u] = pc[u]
  BY <1>0 DEF Run, Goto
<1>2. CASE Goto(Loop, label) /\ UNCHANGED <<begun, cur>>
  <2>1. SameHands({})
    BY <1>0, <1>1, <1>2 DEF SameHands, Goto, CallPcs
  <2> QED
    BY <1>2, <2>1, SendQuiet
<1>3. ASSUME NEW n \in LoopCalls, Enter(Loop, n)
      PROVE  SendInv'
  <2>1. n \in Calls /\ Loop \in Threads
    BY DEF Calls, Threads
  <2>2. SameHands({Loop})
    BY <1>0, <1>1, <1>3 DEF SameHands, Enter
  <2> QED
    BY <1>3, <2>1, <2>2, SendEnter
<1> QED
  BY <1>2, <1>3 DEF Run

LEMMA SendFlush ==
  ASSUME SendInv, TypeInv, FlushOne
  PROVE  SendInv'
<1>0. /\ sends \in [Calls -> Nat]
      /\ m_request_cache \in [Ids -> Calls \cup {NULL}]
      /\ UNCHANGED <<pc, cur, begun>>
  BY DEF TypeInv, TypeOK, FlushOne
<1>1. PICK k \in Keys(m_request_cache) :
        /\ m_request_cache' = [m_request_cache EXCEPT ![k] = NULL]
        /\ sends' = [sends EXCEPT ![m_request_cache[k]] = @ + 1]
  BY DEF FlushOne, IsFirst, DelRequest, Erase
<1>2. PICK d \in Calls : d = m_request_cache[k]
  BY <1>0 DEF Keys
<1>3. k \in Ids /\ Cached(d) /\ d # NULL
  BY <1>2 DEF Keys, Cached
<1>4. FewerRequests /\ m_request_cache'[k] = NULL
  BY <1>0, <1>1, <1>3 DEF FewerRequests
<1>5. \A c \in Calls : Cached(c)' => Cached(c)
  BY <1>4, FewerCached
<1>6. ~Cached(d)'
  <2> SUFFICES ASSUME NEW j \in Ids, m_request_cache'[j] = d PROVE FALSE
    BY DEF Cached
  <2>1. m_request_cache[j] = d
    BY <1>2, <1>3, <1>4 DEF FewerRequests
  <2>2. j = k
    BY <1>2, <1>3, <2>1 DEF SendInv, OneRequest
  <2> QED
    BY <1>2, <1>3, <1>4, <2>2
<1>7. /\ sends[d] = 0 /\ sends'[d] = 1 /\ d \in begun
      /\ \A c \in Calls \ {d} : sends'[c] = sends[c]
  <2>1. sends[d] = 0 /\ d \in begun
    BY <1>0, <1>3 DEF SendInv, SentOnce, UnbegunUnsent
  <2> QED
    BY <1>0, <1>1, <1>2, <1>3, <2>1
<1>8. \A t \in Threads : pc[t] \in CallPcs => cur[t] \in Calls /\ cur[t] # d
  BY <1>2, <1>3 DEF SendInv, InHand, TypeInv, Located
<1>9. InHand' /\ OneHand'
  BY <1>0, <1>5, <1>7, <1>8 DEF SendInv, InHand, OneHand
<1>10. UnbegunUnsent' /\ SentOnce'
  BY <1>0, <1>5, <1>6, <1>7 DEF SendInv, UnbegunUnsent, SentOnce
<1>11. OneRequest'
  BY <1>4 DEF SendInv, OneRequest, FewerRequests
<1> QED
  BY <1>9, <1>10, <1>11 DEF SendInv

LEMMA SendNext == TypeInv /\ SendInv /\ [Next]_vars => SendInv'
<1> SUFFICES ASSUME TypeInv, SendInv, [Next]_vars PROVE SendInv'
  OBVIOUS
<1>0. /\ pc \in [Threads -> CallPcs \cup LoopPcs \cup {"idle"}]
      /\ cur \in [Threads -> Calls \cup {NULL}]
      /\ m_request_cache \in [Ids -> Calls \cup {NULL}]
      /\ Loop \in Threads /\ Callers \subseteq Threads
      /\ AppCalls \subseteq Calls
  BY DEF TypeInv, TypeOK, Threads, Calls
<1>1. ASSUME NEW t \in Callers, NEW c \in AppCalls, Begin(t, c)
      PROVE  SendInv'
  <2>1. /\ Enter(t, c) /\ UNCHANGED <<sends, m_request_cache>>
        /\ \A u \in Threads \ {t} : pc'[u] = pc[u] /\ cur'[u] = cur[u]
    BY <1>0, <1>1 DEF Begin, Enter, Goto
  <2>2. FewerRequests /\ SameHands({t})
    BY <2>1 DEF FewerRequests, SameHands
  <2> QED
    BY <1>0, <2>1, <2>2, SendEnter
<1>2. ASSUME NEW t \in Threads, CallMethodStep(t) PROVE SendInv'
  BY <1>2, SendCallMethod
<1>3. ASSUME UNCHANGED <<sends, begun, m_request_cache, cur>>,
             pc'[Loop] \notin CallPcs \/ pc'[Loop] = pc[Loop],
             \A u \in Threads \ {Loop} : pc'[u] = pc[u]
      PROVE  SendInv'
  <2>1. FewerRequests /\ SameHands({})
    BY <1>3 DEF FewerRequests, SameHands
  <2> QED
    BY <1>3, <2>1, SendQuiet
<1>4. ASSUME NEW b \in Bevs, ConnectedCb(b) \/ ReadCb(b) \/ ErrorCb(b)
      PROVE  SendInv'
  BY <1>0, <1>3, <1>4 DEF ConnectedCb, ReadCb, ErrorCb, Goto, CallPcs
<1>5. CASE ConnectTimerCb \/ HeartbeatCb \/ RequestTimerCb
  BY <1>0, <1>3, <1>5
  DEF ConnectTimerCb, HeartbeatCb, RequestTimerCb, Goto, CallPcs
<1>6. CASE \/ SetBev \/ SendCacheLock \/ FlushEnd \/ ReadEnd \/ ClearBev
           \/ EraseSwept \/ SweepEnd
  BY <1>0, <1>3, <1>6
  DEF SetBev, SendCacheLock, FlushEnd, ReadEnd, ClearBev, EraseSwept,
      SweepEnd, Goto, CallPcs
<1>7. CASE Decode
  <2>1. UNCHANGED <<sends, m_request_cache>> /\ pc[Loop] \notin CallPcs
    BY <1>7 DEF Decode, CallPcs
  <2>2. FewerRequests
    BY <2>1 DEF FewerRequests
  <2>3. CASE UNCHANGED <<begun, cur, pc>>
    BY <1>3, <2>1, <2>3
  <2>4. ASSUME NEW c, Run(c, "read") PROVE SendInv'
    BY <2>1, <2>2, <2>4, SendRun
  <2> QED
    BY <1>7, <2>3, <2>4 DEF Decode
<1>8. CASE Sweep
  <2>1. PICK k \in Ids : DelRequest(k) /\ Run(m_callback_cache[k], "erase")
    BY <1>8 DEF Sweep
  <2>2. FewerRequests
    BY <1>0, <2>1 DEF FewerRequests, DelRequest, Erase
  <2>3. sends' = sends /\ pc[Loop] \notin CallPcs
    BY <1>8 DEF Sweep, CallPcs
  <2> QED
    BY <2>1, <2>2, <2>3, SendRun
<1>9. CASE CallbackStep
  BY <1>6, <1>7, <1>8, <1>9, SendFlush DEF CallbackStep
<1>10. CASE Environment
  BY <1>3, <1>10
  DEF Environment, Cancel, Tick, ConnectOk, ConnectionLost, PeerReceive,
      PeerReply
<1>11. CASE UNCHANGED vars
  BY <1>3, <1>11 DEF vars
<1> QED
  BY <1>1, <1>2, <1>4, <1>5, <1>9, <1>10, <1>11 DEF Next

(* A request is handed to a bufferevent at most once, and is not also       *)
(* waiting for one, whichever ids racing callers are given.                 *)
THEOREM RequestsSentOnce == Spec => []SentOnce
<1>1. SendInv => SentOnce
  BY DEF SendInv
<1> QED
  BY <1>1, TypeInit, TypeNext, SendInit, SendNext, PTL DEF Spec

-----------------------------------------------------------------------------
(* Frames. *)

(* A header is followed by its body, if by anything, and a body stands      *)
(* behind its header.                                                       *)
Framed(s) ==
  \A i \in 1..Len(s) :
    /\ s[i].kind = "header" /\ i < Len(s) => s[i + 1] = Body(s[i].call)
    /\ s[i].kind = "body" => i > 1 /\ s[i - 1] = Header(s[i].call)

Half(s) == s # <<>> /\ s[Len(s)].kind = "header"
EndsIn(s, c) == s # <<>> /\ s[Len(s)] = Header(c)

(* A header is last exactly when a thread is about to add its body.         *)
FrameInv ==
  /\ \A b \in Bevs : Framed(output[b])
  /\ \A b \in Bevs :
       Half(output[b]) =>
         \E t \in Threads :
           pc[t] = "add_body" /\ out[t] = b /\ EndsIn(output[b], cur[t])
  /\ \A t \in Threads :
       pc[t] = "add_body" => EndsIn(output[out[t]], cur[t])

NoneHalfWay == \A t \in Threads : pc[t] # "add_body"

LEMMA FrameInit == Init => FrameInv
<1> SUFFICES ASSUME Init PROVE FrameInv
  OBVIOUS
<1>1. \A b \in Bevs : output[b] = <<>>
  BY DEF Init
<1>2. \A b \in Bevs : Framed(output[b]) /\ ~Half(output[b])
  BY <1>1 DEF Framed, Half
<1>3. \A t \in Threads : pc[t] # "add_body"
  BY DEF Init
<1> QED
  BY <1>2, <1>3 DEF FrameInv

LEMMA FrameAppend ==
  ASSUME NEW s \in Seq(Chunks), NEW x \in Chunks, Framed(s),
         Half(s) => x = Body(s[Len(s)].call),
         x.kind = "body" => EndsIn(s, x.call)
  PROVE  /\ Framed(Append(s, x)) /\ Append(s, x) \in Seq(Chunks)
         /\ Append(s, x) # <<>> /\ Append(s, x)[Len(Append(s, x))] = x
<1> DEFINE u == Append(s, x)
           n == Len(s)
<1>1. /\ u \in Seq(Chunks) /\ Len(u) = n + 1 /\ n \in Nat /\ u # <<>>
      /\ \A i \in 1..n : u[i] = s[i]
      /\ u[n + 1] = x
  BY AppendProperties, LenProperties
<1>2. s # <<>> <=> n > 0
  BY EmptySeq
<1> HIDE DEF u
<1>3. ASSUME NEW i \in 1..(n + 1)
      PROVE  /\ u[i].kind = "header" /\ i < n + 1 => u[i + 1] = Body(u[i].call)
             /\ u[i].kind = "body" => i > 1 /\ u[i - 1] = Header(u[i].call)
  <2>1. CASE i = n + 1
    <3>1. x.kind = "body" => n > 0 /\ u[n] = Header(x.call)
      BY <1>1, <1>2 DEF EndsIn
    <3> QED
      BY <1>1, <2>1, <3>1
  <2>2. CASE i = n /\ i # n + 1
    <3>1. u[i].kind = "header" => u[i + 1] = Body(u[i].call)
      BY <1>1, <1>2, <2>2 DEF Half
    <3>2. u[i].kind = "body" => i > 1 /\ u[i - 1] = Header(u[i].call)
      BY <1>1, <2>2 DEF Framed
    <3> QED
      BY <1>1, <2>2, <3>1, <3>2
  <2>3. CASE i < n
    BY <1>1, <2>3 DEF Framed
  <2> QED
    BY <1>1, <2>1, <2>2, <2>3
<1>4. Framed(u)
  BY <1>1, <1>3 DEF Framed
<1> QED
  BY <1>1, <1>4 DEF u

(* What libevent leaves of s when it has written the first n chunks.        *)
Rest(s, n, u) ==
  /\ n <= Len(s) /\ Len(u) = Len(s) - n
  /\ \A i \in 1..Len(u) : u[i] = s[i + n]
  /\ s[n].kind # "header"
  /\ u # <<>> => u[1].kind # "body"

LEMMA FrameRest ==
  ASSUME NEW s \in Seq(Chunks), NEW u \in Seq(Chunks), NEW n \in Nat \ {0},
         Framed(s), Rest(s, n, u)
  PROVE  /\ Framed(u)
         /\ Half(u) => Half(s)
         /\ \A c \in Calls : EndsIn(s, c) => EndsIn(u, c)
<1> USE DEF Rest
<1>1. /\ Len(u) \in Nat /\ Len(s) \in Nat
      /\ u # <<>> <=> Len(u) # 0
      /\ s # <<>> <=> Len(s) # 0
  BY EmptySeq, LenProperties
<1>2. ASSUME NEW i \in 1..Len(u)
      PROVE  /\ u[i].kind = "header" /\ i < Len(u) => u[i + 1] = Body(u[i].call)
             /\ u[i].kind = "body" => i > 1 /\ u[i - 1] = Header(u[i].call)
  <2>1. i + n \in 1..Len(s) /\ u[i] = s[i + n]
    BY <1>1
  <2>2. i < Len(u) => i + n < Len(s) /\ u[i + 1] = s[(i + n) + 1]
    BY <1>1
  <2>3. i > 1 => u[i - 1] = s[(i + n) - 1]
    BY <1>1
  <2>4. u[i].kind = "body" => i > 1
    BY <1>1
  <2> QED
    BY <2>1, <2>2, <2>3, <2>4 DEF Framed
<1>3. Framed(u)
  BY <1>2 DEF Framed
<1>4. u # <<>> => u[Len(u)] = s[Len(s)]
  BY <1>1
<1>5. ASSUME NEW c \in Calls, EndsIn(s, c) PROVE EndsIn(u, c)
  <2>1. Len(s) # n
    BY <1>5 DEF EndsIn, Header
  <2> QED
    BY <1>1, <1>4, <1>5, <2>1 DEF EndsIn
<1> QED
  BY <1>1, <1>3, <1>4, <1>5 DEF Half


(* A step that sends nothing has only to leave the senders where they are.  *)
SameSenders ==
  \A t \in Threads :
    /\ pc'[t] = "add_body" <=> pc[t] = "add_body"
    /\ pc[t] = "add_body" => cur'[t] = cur[t] /\ out'[t] = out[t]

LEMMA FrameQuiet ==
  ASSUME FrameInv, output' = output, SameSenders
  PROVE  FrameInv'
<1>1. \A b \in Bevs : Framed(output'[b])
  BY DEF FrameInv
<1>2. ASSUME NEW b \in Bevs, Half(output'[b])
      PROVE  \E t \in Threads :
               /\ pc'[t] = "add_body" /\ out'[t] = b
               /\ EndsIn(output'[b], cur'[t])
  BY <1>2 DEF FrameInv, SameSenders
<1>3. ASSUME NEW t \in Threads, pc'[t] = "add_body"
      PROVE  EndsIn(output'[out'[t]], cur'[t])
  BY <1>3 DEF FrameInv, SameSenders
<1> QED
  BY <1>1, <1>2, <1>3 DEF FrameInv

(* A step that leaves no thread half-way through a packet, and whole        *)
(* packets in every buffer.                                                 *)
LEMMA FrameAlone ==
  ASSUME FrameInv, output \in [Bevs -> Seq(Chunks)],
         NEW b \in Bevs, NEW s, Framed(s), ~Half(s),
         output' = [output EXCEPT ![b] = s],
         \A a \in Bevs \ {b} : ~Half(output[a]),
         \A t \in Threads : pc'[t] # "add_body"
  PROVE  FrameInv'
<1>1. \A a \in Bevs : Framed(output'[a]) /\ ~Half(output'[a])
  BY DEF FrameInv
<1> QED
  BY <1>1 DEF FrameInv

(* While m_bev_lock is free, or the loop thread flushes, nobody is half-way *)
(* through a packet, and every buffer holds whole ones.                     *)
LEMMA WholeWhenFree ==
  ASSUME TypeInv, ConnInv, FrameInv,
         BevLockFree \/ pc[Loop] = "flush"
  PROVE  /\ \A t \in Threads : pc[t] # "add_body"
         /\ \A b \in Bevs : Framed(output[b]) /\ ~Half(output[b])
<1>1. \A t \in Threads : pc[t] # "add_body"
  BY ChannelAssumption
  DEF ConnInv, SenderHolds, BevLockFree, TypeInv, TypeOK, Threads
<1> QED
  BY <1>1 DEF FrameInv

LEMMA FrameCallMethod ==
  ASSUME TypeInv, ConnInv, FrameInv, NEW t \in Threads, CallMethodStep(t)
  PROVE  FrameInv'
<1>0. /\ pc \in [Threads -> CallPcs \cup LoopPcs \cup {"idle"}]
      /\ cur \in [Threads -> Calls \cup {NULL}]
      /\ out \in [Threads -> Bevs \cup {NULL}]
      /\ output \in [Bevs -> Seq(Chunks)]
  BY DEF TypeInv, TypeOK
<1>1. CASE \/ Increment(t) \/ Stamp(t) \/ AddCallback(t) \/ CheckBev(t)
           \/ ReadId(t)
  <2>1. /\ UNCHANGED <<output, cur, out>>
        /\ pc[t] # "add_body" /\ pc'[t] # "add_body"
        /\ \A u \in Threads \ {t} : pc'[u] = pc[u]
    BY <1>0, <1>1 DEF Increment, Stamp, AddCallback, CheckBev, ReadId, Goto
  <2> QED
    BY <2>1, FrameQuiet DEF SameSenders
<1>2. CASE AddHeader(t)
  <2>1. /\ m_bev \in Bevs /\ cur[t] \in Calls /\ pc[t] = "add_header"
        /\ m_bev_lock = t
    BY <1>2 DEF AddHeader, ConnInv, SenderHolds, TypeInv, TypeOK, Located,
                CallPcs
  <2>2. \A u \in Threads : pc[u] # "add_body"
    BY <2>1 DEF ConnInv, SenderHolds
  <2>3. \A b \in Bevs : Framed(output[b]) /\ ~Half(output[b])
    BY <2>2 DEF FrameInv
  <2> DEFINE s == Append(output[m_bev], Header(cur[t]))
  <2>4. Framed(s) /\ EndsIn(s, cur[t])
    <3>1. Header(cur[t]) \in Chunks /\ Header(cur[t]).kind # "body"
      BY <2>1, ChunkTypes DEF Header
    <3>2. output[m_bev] \in Seq(Chunks)
      BY <1>0, <2>1
    <3> QED
      BY <2>1, <2>3, <3>1, <3>2, FrameAppend DEF EndsIn
  <2>5. /\ output' = [output EXCEPT ![m_bev] = s]
        /\ pc' = [pc EXCEPT ![t] = "add_body"]
        /\ out' = [out EXCEPT ![t] = m_bev] /\ cur' = cur
    BY <1>2 DEF AddHeader, Goto
  <2> HIDE DEF s
  <2>6. /\ output'[m_bev] = s /\ out'[t] = m_bev /\ pc'[t] = "add_body"
        /\ \A b \in Bevs \ {m_bev} : output'[b] = output[b]
        /\ \A u \in Threads \ {t} : pc'[u] # "add_body"
    BY <1>0, <2>1, <2>2, <2>5
  <2>7. \A b \in Bevs : Framed(output'[b])
    BY <2>3, <2>4, <2>6
  <2>8. \A b \in Bevs : Half(output'[b]) => b = m_bev
    BY <2>3, <2>6
  <2> QED
    BY <2>1, <2>4, <2>5, <2>6, <2>7, <2>8 DEF FrameInv
<1>3. CASE AddBody(t)
  <2>1. /\ m_bev \in Bevs /\ cur[t] \in Calls /\ pc[t] = "add_body"
        /\ m_bev_lock = t /\ out[t] = m_bev
    BY <1>3 DEF AddBody, ConnInv, SenderHolds, TypeInv, TypeOK, Located,
                CallPcs
  <2>2. \A u \in Threads \ {t} : pc[u] # "add_body"
    BY <2>1 DEF ConnInv, SenderHolds
  <2>3. /\ \A b \in Bevs \ {m_bev} : ~Half(output[b])
        /\ Framed(output[m_bev]) /\ EndsIn(output[m_bev], cur[t])
    BY <2>1, <2>2 DEF FrameInv
  <2> DEFINE s == Append(output[m_bev], Body(cur[t]))
  <2>4. Framed(s) /\ ~Half(s)
    <3>1. /\ Body(cur[t]) \in Chunks /\ Body(cur[t]).kind = "body"
          /\ Body(cur[t]).call = cur[t]
      BY <2>1, ChunkTypes DEF Body
    <3>2. output[m_bev] \in Seq(Chunks)
      BY <1>0, <2>1
    <3>3. Half(output[m_bev]) =>
            Body(cur[t]) = Body(output[m_bev][Len(output[m_bev])].call)
      BY <2>3 DEF EndsIn, Header
    <3>4. /\ Framed(s) /\ s # <<>> /\ s[Len(s)] = Body(cur[t])
      BY <2>3, <3>1, <3>2, <3>3, FrameAppend
    <3> QED
      BY <3>1, <3>4 DEF Half
  <2>5. output' = [output EXCEPT ![m_bev] = s]
    BY <1>3, <2>1 DEF AddBody
  <2> HIDE DEF s
  <2>6. pc'[t] # "add_body" /\ \A u \in Threads \ {t} : pc'[u] = pc[u]
    BY <1>0, <1>3 DEF AddBody, Return, Goto, TypeInv, TypeOK
  <2>7. \A u \in Threads : pc'[u] # "add_body"
    BY <2>2, <2>6
  <2> QED
    BY <1>0, <2>1, <2>3, <2>4, <2>5, <2>7, FrameAlone
<1>4. CASE AddRequest(t)
  <2>1. /\ output' = output /\ pc[t] # "add_body" /\ pc'[t] # "add_body"
        /\ \A u \in Threads \ {t} :
             pc'[u] = pc[u] /\ cur'[u] = cur[u] /\ out'[u] = out[u]
    BY <1>0, <1>4 DEF AddRequest, Return, Goto, TypeInv, TypeOK
  <2> QED
    BY <2>1, FrameQuiet DEF SameSenders
<1> QED
  BY <1>1, <1>2, <1>3, <1>4 DEF CallMethodStep

LEMMA FrameCallback ==
  ASSUME TypeInv, ConnInv, FrameInv, CallbackStep
  PROVE  FrameInv'
<1>0. /\ pc \in [Threads -> CallPcs \cup LoopPcs \cup {"idle"}]
      /\ output \in [Bevs -> Seq(Chunks)] /\ Loop \in Threads
  BY DEF TypeInv, TypeOK, Threads
<1>1. CASE SetBev \/ SendCacheLock \/ FlushEnd \/ ReadEnd \/ EraseSwept \/ SweepEnd
  <2>1. /\ UNCHANGED <<output, cur, out>>
        /\ pc[Loop] # "add_body" /\ pc'[Loop] # "add_body"
        /\ \A u \in Threads \ {Loop} : pc'[u] = pc[u]
    BY <1>0, <1>1
    DEF SetBev, SendCacheLock, FlushEnd, ReadEnd, EraseSwept, SweepEnd, Goto
  <2> QED
    BY <2>1, FrameQuiet DEF SameSenders
<1>2. CASE Decode \/ Sweep
  <2>1. /\ UNCHANGED <<output, out>>
        /\ pc[Loop] # "add_body" /\ pc'[Loop] # "add_body"
        /\ \A u \in Threads \ {Loop} : pc'[u] = pc[u] /\ cur'[u] = cur[u]
    BY <1>0, <1>2 DEF Decode, Sweep, Run, Enter, Goto, TypeInv, TypeOK
  <2> QED
    BY <2>1, FrameQuiet DEF SameSenders
<1>3. CASE ClearBev
  <2>1. /\ bev_locked \in Bevs
        /\ output' = [output EXCEPT ![bev_locked] = <<>>]
        /\ pc' = [pc EXCEPT ![Loop] = "poll"]
    BY <1>3 DEF ClearBev, ConnInv, CallbackBev, Goto
  <2>2. /\ \A t \in Threads : pc[t] # "add_body"
        /\ \A b \in Bevs : ~Half(output[b])
    BY <1>3, WholeWhenFree DEF ClearBev
  <2>3. Framed(<<>>) /\ ~Half(<<>>)
    BY DEF Framed, Half
  <2>4. \A t \in Threads : pc'[t] # "add_body"
    BY <1>0, <2>1, <2>2
  <2> QED
    BY <1>0, <2>1, <2>2, <2>3, <2>4, FrameAlone
<1>4. CASE FlushOne
  <2>1. PICK k \in Keys(m_request_cache) :
          output' = [output EXCEPT ![m_bev] =
            @ \o <<Header(m_request_cache[k]), Body(m_request_cache[k])>>]
    BY <1>4 DEF FlushOne, IsFirst
  <2> DEFINE c == m_request_cache[k]
             h == Append(output[m_bev], Header(c))
             s == Append(h, Body(c))
  <2>2. c \in Calls /\ m_bev \in Bevs /\ UNCHANGED pc
    BY <1>4 DEF FlushOne, Keys, TypeInv, TypeOK
  <2>3. /\ \A t \in Threads : pc[t] # "add_body"
        /\ \A b \in Bevs : Framed(output[b]) /\ ~Half(output[b])
    BY <1>4, WholeWhenFree DEF FlushOne
  <2>4. /\ Header(c) \in Chunks /\ Body(c) \in Chunks
        /\ Header(c).kind = "header" /\ Header(c).call = c
        /\ Body(c).kind = "body" /\ Body(c).call = c
    BY <2>2, ChunkTypes DEF Header, Body
  <2>5. output[m_bev] \in Seq(Chunks)
    BY <1>0, <2>2
  <2> HIDE DEF c
  <2>6. Framed(h) /\ h \in Seq(Chunks) /\ h # <<>> /\ h[Len(h)] = Header(c)
    BY <2>2, <2>3, <2>4, <2>5, FrameAppend
  <2> HIDE DEF h
  <2>7. Framed(s) /\ s # <<>> /\ s[Len(s)] = Body(c)
    BY <2>4, <2>6, FrameAppend DEF EndsIn
  <2>8. output[m_bev] \o <<Header(c), Body(c)>> = s
    BY <2>4, <2>5 DEF h
  <2>9. output' = [output EXCEPT ![m_bev] = s]
    BY <2>1, <2>8 DEF c
  <2>10. ~Half(s)
    BY <2>4, <2>7 DEF Half
  <2> HIDE DEF s
  <2> QED
    BY <1>0, <2>2, <2>3, <2>7, <2>9, <2>10, FrameAlone
<1> QED
  BY <1>1, <1>2, <1>3, <1>4 DEF CallbackStep

(* libevent writes a heartbeat, or a header and its body, to the socket.    *)
LEMMA FrameWritten ==
  ASSUME TypeInv, ConnInv, FrameInv, NEW b \in Bevs, PeerReceive(b)
  PROVE  FrameInv'
<1>0. /\ output \in [Bevs -> Seq(Chunks)] /\ UNCHANGED <<pc, cur, out>>
      /\ output[b] # <<>>
  BY DEF PeerReceive, TypeInv, TypeOK
<1>1. PICK s \in Seq(Chunks) : s = output[b]
  BY <1>0
<1>2. /\ s # <<>> /\ Len(s) \in Nat \ {0} /\ Head(s) = s[1] /\ Framed(s)
      /\ Tail(s) \in Seq(Chunks) /\ Len(Tail(s)) = Len(s) - 1
      /\ \A i \in 1..Len(Tail(s)) : Tail(s)[i] = s[i + 1]
  BY <1>0, <1>1, HeadTailProperties, EmptySeq DEF FrameInv
<1>3. \E n \in Nat \ {0} : \E u \in Seq(Chunks) :
        Rest(s, n, u) /\ output' = [output EXCEPT ![b] = u]
  <2>1. CASE Head(s) = Heartbeat /\ output' = [output EXCEPT ![b] = Tail(s)]
    <3> DEFINE u == Tail(s)
    <3>1. s[1].kind # "header" /\ s[1].kind = "heartbeat"
      BY <1>2, <2>1 DEF Heartbeat
    <3>2. u # <<>> => 1 \in 1..Len(u) /\ 2 \in 1..Len(s) /\ u[1] = s[2]
      <4>1. u # <<>> => Len(u) # 0
        BY <1>2, EmptySeq
      <4> QED
        BY <1>2, <4>1
    <3>3. u # <<>> => u[1].kind # "body"
      <4>1. SUFFICES ASSUME u # <<>>, s[2].kind = "body" PROVE FALSE
        BY <3>2
      <4>2. s[1] = Header(s[2].call)
        BY <3>2, <4>1, <1>2 DEF Framed
      <4> QED
        BY <3>1, <4>2 DEF Header
    <3>4. Rest(s, 1, u)
      BY <1>2, <3>1, <3>3 DEF Rest
    <3>5. 1 \in Nat \ {0}
      OBVIOUS
    <3> QED
      BY <1>2, <2>1, <3>4, <3>5
  <2>2. CASE /\ Len(s) > 1 /\ Head(s).kind = "header"
             /\ output' = [output EXCEPT ![b] = Tail(Tail(s))]
    <3> DEFINE v == Tail(s)
               u == Tail(v)
    <3>1. v \in Seq(Chunks) /\ v # <<>> /\ Len(v) = Len(s) - 1
      <4>1. v \in Seq(Chunks) /\ Len(v) = Len(s) - 1 /\ Len(v) # 0
        BY <1>2, <2>2
      <4> QED
        BY <4>1, EmptySeq
    <3>2. /\ u \in Seq(Chunks) /\ Len(u) = Len(v) - 1
          /\ \A i \in 1..Len(u) : u[i] = v[i + 1]
      BY <3>1, HeadTailProperties
    <3> HIDE DEF u
    <3>3. Len(u) = Len(s) - 2 /\ \A i \in 1..Len(u) : u[i] = s[i + 2]
      BY <1>2, <2>2, <3>1, <3>2
    <3>4. s[2] = Body(s[1].call)
      BY <1>2, <2>2 DEF Framed
    <3>5. s[2].kind # "header" /\ s[2].kind = "body"
      BY <3>4 DEF Body
    <3>6. u # <<>> => u[1].kind # "body"
      <4>1. SUFFICES ASSUME u # <<>>, u[1].kind = "body" PROVE FALSE
        OBVIOUS
      <4>2. Len(u) # 0
        BY <3>2, <4>1, EmptySeq
      <4>3. 3 \in 1..Len(s) /\ u[1] = s[3]
        BY <1>2, <2>2, <3>2, <3>3, <4>2
      <4>4. s[2] = Header(s[3].call)
        BY <1>2, <4>1, <4>3 DEF Framed
      <4> QED
        BY <3>5, <4>4 DEF Header
    <3>7. Rest(s, 2, u)
      BY <1>2, <2>2, <3>3, <3>5, <3>6 DEF Rest
    <3>8. 2 \in Nat \ {0} /\ output' = [output EXCEPT ![b] = u]
      BY <2>2 DEF u
    <3> QED
      BY <3>2, <3>7, <3>8
  <2> QED
    BY <1>1, <2>1, <2>2 DEF PeerReceive
<1>4. PICK u \in Seq(Chunks) :
        /\ output' = [output EXCEPT ![b] = u]
        /\ Framed(u) /\ (Half(u) => Half(s))
        /\ \A c \in Calls : EndsIn(s, c) => EndsIn(u, c)
  BY <1>2, <1>3, FrameRest
<1>5. output'[b] = u /\ \A a \in Bevs \ {b} : output'[a] = output[a]
  BY <1>0, <1>4
<1>6. \A a \in Bevs : Framed(output'[a]) /\ (Half(output'[a]) => Half(output[a]))
  BY <1>1, <1>4, <1>5 DEF FrameInv
<1>7. ASSUME NEW a \in Bevs, NEW c \in Calls, EndsIn(output[a], c)
      PROVE  EndsIn(output'[a], c)
  BY <1>1, <1>4, <1>5, <1>7
<1>8. \A t \in Threads :
        pc[t] = "add_body" =>
          /\ out[t] \in Bevs /\ cur[t] \in Calls
          /\ EndsIn(output[out[t]], cur[t])
  BY DEF FrameInv, ConnInv, SenderHolds, TypeInv, TypeOK, Located, CallPcs
<1>9. \A t \in Threads :
        pc'[t] = "add_body" => EndsIn(output'[out'[t]], cur'[t])
  BY <1>0, <1>7, <1>8
<1>10. ASSUME NEW a \in Bevs, Half(output'[a])
       PROVE  \E t \in Threads :
                /\ pc'[t] = "add_body" /\ out'[t] = a
                /\ EndsIn(output'[a], cur'[t])
  <2>1. PICK t \in Threads : pc[t] = "add_body" /\ out[t] = a
    BY <1>6, <1>10 DEF FrameInv
  <2> QED
    BY <1>0, <1>9, <2>1
<1> QED
  BY <1>6, <1>9, <1>10 DEF FrameInv

LEMMA FrameNext ==
  TypeInv /\ ConnInv /\ FrameInv /\ [Next]_vars => FrameInv'
<1> SUFFICES ASSUME TypeInv, ConnInv, FrameInv, [Next]_vars PROVE FrameInv'
  OBVIOUS
<1>0. /\ pc \in [Threads -> CallPcs \cup LoopPcs \cup {"idle"}]
      /\ output \in [Bevs -> Seq(Chunks)]
      /\ Loop \in Threads /\ Callers \subseteq Threads
  BY DEF TypeInv, TypeOK, Threads
<1>1. ASSUME NEW t \in Callers, NEW c \in AppCalls, Begin(t, c)
      PROVE  FrameInv'
  <2>1. /\ UNCHANGED <<output, out>> /\ t \in Threads
        /\ pc[t] # "add_body" /\ pc'[t] # "add_body"
        /\ \A u \in Threads \ {t} : pc'[u] = pc[u] /\ cur'[u] = cur[u]
    BY <1>0, <1>1 DEF Begin, Enter, Goto, TypeInv, TypeOK
  <2> QED
    BY <2>1, FrameQuiet DEF SameSenders
<1>2. ASSUME NEW t \in Threads, CallMethodStep(t) PROVE FrameInv'
  BY <1>2, FrameCallMethod
<1>3. ASSUME NEW b \in Bevs, ConnectedCb(b) \/ ReadCb(b) \/ ErrorCb(b)
      PROVE  FrameInv'
  <2>1. /\ UNCHANGED <<output, cur, out>>
        /\ pc[Loop] # "add_body" /\ pc'[Loop] # "add_body"
        /\ \A u \in Threads \ {Loop} : pc'[u] = pc[u]
    BY <1>0, <1>3 DEF ConnectedCb, ReadCb, ErrorCb, Goto
  <2> QED
    BY <2>1, FrameQuiet DEF SameSenders
<1>4. CASE RequestTimerCb
  <2>1. /\ UNCHANGED <<output, cur, out>>
        /\ pc[Loop] # "add_body" /\ pc'[Loop] # "add_body"
        /\ \A u \in Threads \ {Loop} : pc'[u] = pc[u]
    BY <1>0, <1>4 DEF RequestTimerCb, Goto
  <2> QED
    BY <2>1, FrameQuiet DEF SameSenders
<1>5. CASE HeartbeatCb
  <2>1. /\ m_bev \in Bevs /\ UNCHANGED pc
        /\ output' = [output EXCEPT ![m_bev] = Append(output[m_bev], Heartbeat)]
    BY <1>5 DEF HeartbeatCb, TypeInv, TypeOK
  <2>2. /\ \A t \in Threads : pc[t] # "add_body"
        /\ \A b \in Bevs : Framed(output[b]) /\ ~Half(output[b])
    BY <1>5, WholeWhenFree DEF HeartbeatCb
  <2>3. Heartbeat \in Chunks /\ Heartbeat.kind = "heartbeat"
    BY ChunkTypes DEF Heartbeat
  <2> DEFINE s == Append(output[m_bev], Heartbeat)
  <2>4. output[m_bev] \in Seq(Chunks)
    BY <1>0, <2>1
  <2>5. Framed(s) /\ s # <<>> /\ s[Len(s)] = Heartbeat
    BY <2>1, <2>2, <2>3, <2>4, FrameAppend
  <2>6. ~Half(s)
    BY <2>3, <2>5 DEF Half
  <2> HIDE DEF s
  <2> QED
    BY <1>0, <2>1, <2>2, <2>5, <2>6, FrameAlone DEF s
<1>6. CASE CallbackStep
  BY <1>6, FrameCallback
<1>7. ASSUME NEW b \in Bevs, PeerReceive(b) PROVE FrameInv'
  BY <1>7, FrameWritten
<1>8. CASE UNCHANGED <<output, pc, cur, out>>
  BY <1>8, FrameQuiet DEF SameSenders
<1>9. CASE Environment
  BY <1>7, <1>8, <1>9
  DEF Environment, Cancel, Tick, ConnectOk, ConnectionLost, PeerReply
<1>10. ConnectTimerCb => UNCHANGED <<output, pc, cur, out>>
  BY DEF ConnectTimerCb
<1>11. UNCHANGED vars => UNCHANGED <<output, pc, cur, out>>
  BY DEF vars
<1> QED
  BY <1>1, <1>2, <1>3, <1>4, <1>5, <1>6, <1>8, <1>9, <1>10, <1>11 DEF Next

(* With any number of threads, packets never interleave in an output buffer *)
(* of the channel.                                                          *)
THEOREM FramesStayWhole == Spec => []FramesWhole
<1>1. TypeInv /\ ConnInv /\ FrameInv => FramesWhole
  <2> SUFFICES ASSUME TypeInv, FrameInv, NEW b \in Bevs,
                      NEW i \in 1..Len(output[b])
               PROVE  LET f == output[b][i] IN
                      /\ f.kind = "header" =>
                           IF i < Len(output[b])
                             THEN output[b][i + 1] = Body(f.call)
                             ELSE \E t \in Threads :
                                    /\ pc[t] = "add_body"
                                    /\ out[t] = b /\ cur[t] = f.call
                      /\ f.kind = "body" =>
                           i > 1 /\ output[b][i - 1] = Header(f.call)
    BY DEF FramesWhole
  <2> DEFINE s == output[b]
  <2>1. s \in Seq(Chunks) /\ Framed(s) /\ Len(s) \in Nat
    BY DEF FrameInv, TypeInv, TypeOK
  <2>2. ASSUME s[i].kind = "header", ~(i < Len(s))
        PROVE  \E t \in Threads :
                 pc[t] = "add_body" /\ out[t] = b /\ cur[t] = s[i].call
    <3>1. i = Len(s) /\ s # <<>>
      BY <2>1, <2>2, EmptySeq
    <3>2. Half(s)
      BY <2>2, <3>1 DEF Half
    <3>3. PICK t \in Threads :
            pc[t] = "add_body" /\ out[t] = b /\ EndsIn(s, cur[t])
      BY <3>2 DEF FrameInv
    <3> QED
      BY <3>1, <3>3 DEF EndsIn, Header
  <2> QED
    BY <2>1, <2>2 DEF Framed
<1> QED
  BY <1>1, TypeInit, TypeNext, ConnInit, ConnNext, FrameInit, FrameNext, PTL
  DEF Spec

-----------------------------------------------------------------------------
(***************************************************************************)
(* What the caller is told.  The channel implements RpcPromise, for every   *)
(* number of calls, ids and bufferevents, as long as one thread makes the   *)
(* calls.                                                                   *)
(***************************************************************************)

(* ++m_id is not raced: one application thread, and no call from inside a   *)
(* done closure.                                                            *)
OneCaller ==
  /\ \A t, u \in Callers : t = u
  /\ LoopCalls = {}

-----------------------------------------------------------------------------
(* Message ids.                                                             *)

IdsGiven ==
  \A c \in Calls : msgid[c] <= m_id /\ (c \notin begun => msgid[c] = 0)

UniqueIds ==
  \A c, d \in Calls : msgid[c] = msgid[d] /\ msgid[c] # 0 => c = d

(* The call in hand has the latest id, which m_id still is when it is read  *)
(* for a cache, and when the cache is reached.                              *)
LatestId ==
  \A t \in Callers :
    /\ pc[t] = "increment" => reg[t] = m_id /\ msgid[cur[t]] = 0
    /\ pc[t] \in CallPcs \ {"increment"} => m_id # 0 /\ msgid[cur[t]] = m_id
    /\ pc[t] \in {"add_callback", "add_request"} => reg[t] = m_id

(* What waits under an id is the call that was given it. *)
Keyed ==
  \A k \in Ids :
    /\ m_callback_cache[k] # NULL => msgid[m_callback_cache[k]] = k
    /\ m_request_cache[k] # NULL => msgid[m_request_cache[k]] = k

IdInv ==
  /\ OneCaller /\ pc[Loop] \notin CallPcs
  /\ IdsGiven /\ UniqueIds /\ LatestId /\ Keyed

LEMMA IdInit == Init /\ OneCaller => IdInv
<1> SUFFICES ASSUME Init, OneCaller PROVE IdInv
  OBVIOUS
<1>1. /\ \A t \in Threads : pc[t] \notin CallPcs
      /\ Loop \in Threads /\ Callers \subseteq Threads
  <2>1. Loop \in Threads /\ Callers \subseteq Threads
    BY DEF Threads
  <2>2. \A t \in Threads : pc[t] \in {"poll", "idle"}
    BY DEF Init
  <2> QED
    BY <2>1, <2>2 DEF CallPcs
<1>2. /\ m_id = 0 /\ \A c \in Calls : msgid[c] = 0
      /\ \A k \in Ids : m_request_cache[k] = NULL /\ m_callback_cache[k] = NULL
  BY DEF Init
<1>3. IdsGiven /\ UniqueIds /\ Keyed
  BY <1>2 DEF IdsGiven, UniqueIds, Keyed
<1>4. LatestId
  BY <1>1 DEF LatestId, CallPcs
<1> QED
  BY <1>1, <1>3, <1>4 DEF IdInv

FewerCallbacks ==
  \A k \in Ids : m_callback_cache'[k] \in {m_callback_cache[k], NULL}

(* The loop, and what is outside, hands out no ids. *)
LEMMA IdQuiet ==
  ASSUME IdInv, UNCHANGED <<m_id, msgid, begun>>,
         FewerRequests, FewerCallbacks, pc'[Loop] \notin CallPcs,
         \A t \in Callers : pc'[t] = pc[t] /\ cur'[t] = cur[t] /\ reg'[t] = reg[t]
  PROVE  IdInv'
<1>1. IdsGiven' /\ UniqueIds'
  BY DEF IdInv, IdsGiven, UniqueIds
<1>2. LatestId'
  BY DEF IdInv, LatestId
<1>3. Keyed'
  BY DEF IdInv, Keyed, FewerRequests, FewerCallbacks
<1> QED
  BY <1>1, <1>2, <1>3 DEF IdInv, OneCaller

(* A caller's step, for the only caller there is. *)
LEMMA IdCaller ==
  ASSUME IdInv, NEW t \in Callers, UNCHANGED <<m_id, msgid>>,
         \A c \in begun : c \in begun',
         pc'[Loop] = pc[Loop],
         pc'[t] = "increment" => reg'[t] = m_id /\ msgid[cur'[t]] = 0,
         pc'[t] \in CallPcs \ {"increment"} =>
           m_id # 0 /\ msgid[cur'[t]] = m_id,
         pc'[t] \in {"add_callback", "add_request"} => reg'[t] = m_id,
         Keyed'
  PROVE  IdInv'
<1>1. IdsGiven' /\ UniqueIds'
  BY DEF IdInv, IdsGiven, UniqueIds
<1>2. LatestId'
  BY DEF IdInv, OneCaller, LatestId
<1> QED
  BY <1>1, <1>2 DEF IdInv, OneCaller

LEMMA IdCallMethod ==
  ASSUME TypeInv, SendInv, IdInv, NEW t \in Callers, CallMethodStep(t)
  PROVE  IdInv'
<1>0. /\ pc \in [Threads -> CallPcs \cup LoopPcs \cup {"idle"}]
      /\ cur \in [Threads -> Calls \cup {NULL}]
      /\ reg \in [Threads -> 0..MaxId] /\ msgid \in [Calls -> 0..MaxId]
      /\ m_callback_cache \in [Ids -> Calls \cup {NULL}]
      /\ m_request_cache \in [Ids -> Calls \cup {NULL}]
      /\ m_id \in Nat /\ t \in Threads /\ Loop \in Threads /\ t # Loop
  BY ChannelAssumption DEF TypeInv, TypeOK, Threads
<1>1. CASE Increment(t)
  <2>1. pc[t] = "increment" /\ reg[t] = m_id /\ msgid[cur[t]] = 0
    BY <1>1 DEF Increment, IdInv, LatestId
  <2>2. cur[t] \in Calls /\ cur[t] \in begun
    BY <1>0, <2>1 DEF TypeInv, Located, SendInv, InHand, CallPcs
  <2>3. /\ m_id' = m_id + 1
        /\ msgid' = [msgid EXCEPT ![cur[t]] = m_id + 1]
        /\ pc' = [pc EXCEPT ![t] = "stamp"]
        /\ UNCHANGED <<cur, reg, begun, m_callback_cache, m_request_cache>>
    BY <1>1, <2>1 DEF Increment, MessageId, Goto
  <2>4. /\ msgid'[cur[t]] = m_id + 1
        /\ \A c \in Calls \ {cur[t]} : msgid'[c] = msgid[c]
        /\ \A c \in Calls : msgid[c] \in Nat /\ msgid[c] <= m_id
    BY <1>0, <2>2, <2>3 DEF IdInv, IdsGiven
  <2>5. IdsGiven'
    BY <1>0, <2>2, <2>3, <2>4 DEF IdInv, IdsGiven
  <2>6. UniqueIds'
    BY <1>0, <2>2, <2>3, <2>4 DEF IdInv, UniqueIds
  <2>7. LatestId'
    BY <1>0, <2>3, <2>4 DEF IdInv, OneCaller, LatestId
  <2>8. Keyed'
    <3>1. ASSUME NEW k \in Ids, NEW c \in Calls, msgid[c] = k
          PROVE  msgid'[c] = k
      BY <2>1, <2>4, <3>1 DEF Ids
    <3> QED
      BY <1>0, <2>3, <3>1 DEF IdInv, Keyed
  <2>9. pc'[Loop] \notin CallPcs
    BY <1>0, <2>3 DEF IdInv
  <2> QED
    BY <2>5, <2>6, <2>7, <2>8, <2>9 DEF IdInv, OneCaller
<1>2. CASE Stamp(t) \/ CheckBev(t) \/ AddHeader(t) \/ ReadId(t)
  <2>1. /\ UNCHANGED <<m_id, msgid, begun, cur, m_callback_cache, m_request_cache>>
        /\ pc[t] \in CallPcs \ {"increment"} /\ pc'[t] # "increment"
        /\ pc'[t] \in {"add_callback", "add_request"} => reg'[t] = m_id
        /\ pc'[Loop] = pc[Loop]
    BY <1>0, <1>2 DEF Stamp, CheckBev, AddHeader, ReadId, Goto, CallPcs
  <2> QED
    BY <2>1, IdCaller DEF IdInv, LatestId, Keyed
<1>3. CASE AddCallback(t)
  <2>1. /\ UNCHANGED <<m_id, msgid, begun, cur, m_request_cache>>
        /\ pc[t] = "add_callback" /\ pc'[t] = "lock_bev"
        /\ pc'[Loop] = pc[Loop]
        /\ m_callback_cache' = Insert(m_callback_cache, reg[t], cur[t])
    BY <1>0, <1>3 DEF AddCallback, Goto
  <2>2. reg[t] = m_id /\ m_id # 0 /\ msgid[cur[t]] = m_id
    BY <2>1 DEF IdInv, LatestId, CallPcs
  <2>3. Keyed'
    BY <1>0, <2>1, <2>2 DEF IdInv, Keyed, Insert
  <2> QED
    BY <2>1, <2>2, <2>3, IdCaller
<1>4. CASE AddBody(t)
  <2>1. /\ UNCHANGED <<m_id, msgid, begun, m_callback_cache, m_request_cache>>
        /\ pc'[t] = "idle" /\ pc'[Loop] = pc[Loop]
    BY <1>0, <1>4 DEF AddBody, Return, Goto
  <2> QED
    BY <2>1, IdCaller DEF IdInv, Keyed, CallPcs
<1>5. CASE AddRequest(t)
  <2>1. /\ UNCHANGED <<m_id, msgid, begun, m_callback_cache>>
        /\ pc[t] = "add_request"
        /\ pc'[t] = "idle" /\ pc'[Loop] = pc[Loop]
        /\ m_request_cache' = Insert(m_request_cache, reg[t], cur[t])
    BY <1>0, <1>5 DEF AddRequest, Return, Goto
  <2>2. msgid[cur[t]] = reg[t]
    BY <2>1 DEF IdInv, LatestId, CallPcs
  <2>3. Keyed'
    BY <1>0, <2>1, <2>2 DEF IdInv, Keyed, Insert
  <2> QED
    BY <2>1, <2>3, IdCaller DEF CallPcs
<1> QED
  BY <1>1, <1>2, <1>3, <1>4, <1>5 DEF CallMethodStep

(* What a step of the loop, or of its surroundings, leaves a caller with.   *)
LoopOnly ==
  /\ pc'[Loop] \notin CallPcs
  /\ \A t \in Callers : pc'[t] = pc[t] /\ cur'[t] = cur[t] /\ reg'[t] = reg[t]

LEMMA LoopStep ==
  ASSUME TypeInv, IdInv, [Next]_vars,
         ~(\E t \in Callers : \E c \in AppCalls : Begin(t, c)),
         ~(\E t \in Callers : CallMethodStep(t))
  PROVE  /\ LoopOnly /\ UNCHANGED <<m_id, msgid, begun>>
         /\ FewerRequests /\ FewerCallbacks
<1>0. /\ pc \in [Threads -> CallPcs \cup LoopPcs \cup {"idle"}]
      /\ m_callback_cache \in [Ids -> Calls \cup {NULL}]
      /\ m_request_cache \in [Ids -> Calls \cup {NULL}]
      /\ Loop \in Threads /\ Callers \subseteq Threads /\ Loop \notin Callers
      /\ Threads = Callers \cup {Loop}
      /\ pc[Loop] \notin CallPcs
  BY ChannelAssumption DEF TypeInv, TypeOK, Threads, IdInv
<1>1. ~CallMethodStep(Loop)
  BY <1>0
  DEF CallMethodStep, Increment, Stamp, AddCallback, CheckBev, AddHeader,
      AddBody, ReadId, AddRequest, CallPcs
<1>2. ASSUME NEW c, NEW label, Run(c, label)
      PROVE  /\ UNCHANGED <<begun, cur, reg>>
             /\ pc' = [pc EXCEPT ![Loop] = label]
  BY <1>2 DEF Run, Goto, IdInv, OneCaller
<1>3. CASE Decode
  <2> DEFINE k == ReplyKey(Head(input[bev_locked]))
             c == Find(m_callback_cache, k)
  <2>1. /\ UNCHANGED <<m_id, msgid, m_request_cache>>
        /\ \/ UNCHANGED <<m_callback_cache, pc, cur, reg, begun>>
           \/ DelCallback(k) /\ Run(c, "read")
    BY <1>3 DEF Decode
  <2> HIDE DEF k, c
  <2> QED
    BY <1>0, <1>2, <2>1
    DEF LoopOnly, FewerRequests, FewerCallbacks, DelCallback, Erase, CallPcs
<1>4. CASE Sweep
  <2>1. PICK k \in Ids : DelRequest(k) /\ Run(m_callback_cache[k], "erase")
    BY <1>4 DEF Sweep
  <2>2. UNCHANGED <<m_id, msgid, m_callback_cache>>
    BY <1>4 DEF Sweep
  <2> QED
    BY <1>0, <1>2, <2>1, <2>2
    DEF LoopOnly, FewerRequests, FewerCallbacks, DelRequest, Erase, CallPcs
<1>5. CASE FlushOne
  <2>1. UNCHANGED <<m_id, msgid, begun, m_callback_cache, pc, cur, reg>>
    BY <1>5 DEF FlushOne
  <2>2. FewerRequests
    BY <1>0, <1>5 DEF FlushOne, FewerRequests, DelRequest, Erase
  <2> QED
    BY <1>0, <2>1, <2>2 DEF LoopOnly, FewerCallbacks
<1>6. CASE EraseSwept
  BY <1>0, <1>6
  DEF EraseSwept, LoopOnly, FewerRequests, FewerCallbacks, DelCallback, Erase,
      Goto, CallPcs
<1>7. ASSUME UNCHANGED <<m_id, msgid, begun, m_callback_cache,
                         m_request_cache, cur, reg>>,
             pc'[Loop] \notin CallPcs, \A t \in Callers : pc'[t] = pc[t]
      PROVE  /\ LoopOnly /\ UNCHANGED <<m_id, msgid, begun>>
             /\ FewerRequests /\ FewerCallbacks
  BY <1>7 DEF LoopOnly, FewerRequests, FewerCallbacks
<1>8. CASE \/ SetBev \/ SendCacheLock \/ FlushEnd \/ ReadEnd \/ ClearBev
           \/ SweepEnd
  BY <1>0, <1>7, <1>8
  DEF SetBev, SendCacheLock, FlushEnd, ReadEnd, ClearBev, SweepEnd, Goto,
      CallPcs
<1>9. ASSUME NEW b \in Bevs, ConnectedCb(b) \/ ReadCb(b) \/ ErrorCb(b)
      PROVE  /\ LoopOnly /\ UNCHANGED <<m_id, msgid, begun>>
             /\ FewerRequests /\ FewerCallbacks
  BY <1>0, <1>7, <1>9 DEF ConnectedCb, ReadCb, ErrorCb, Goto, CallPcs
<1>10. CASE ConnectTimerCb \/ HeartbeatCb \/ RequestTimerCb
  BY <1>0, <1>7, <1>10
  DEF ConnectTimerCb, HeartbeatCb, RequestTimerCb, Goto, CallPcs
<1>11. CASE Environment
  BY <1>0, <1>7, <1>11
  DEF Environment, Cancel, Tick, ConnectOk, ConnectionLost, PeerReceive,
      PeerReply
<1>12. CASE UNCHANGED vars
  BY <1>0, <1>7, <1>12 DEF vars
<1> QED
  BY <1>0, <1>1, <1>3, <1>4, <1>5, <1>6, <1>8, <1>9, <1>10, <1>11, <1>12
  DEF Next, CallbackStep

LEMMA IdNext ==
  TypeInv /\ SendInv /\ IdInv /\ [Next]_vars => IdInv'
<1> SUFFICES ASSUME TypeInv, SendInv, IdInv, [Next]_vars PROVE IdInv'
  OBVIOUS
<1>1. ASSUME NEW t \in Callers, NEW c \in AppCalls, Begin(t, c)
      PROVE  IdInv'
  <2>1. t \in Threads /\ Loop \in Threads /\ t # Loop /\ c \in Calls
    BY ChannelAssumption DEF Threads, Calls
  <2>2. /\ UNCHANGED <<m_id, msgid, m_callback_cache, m_request_cache>>
        /\ c \notin begun /\ begun' = begun \cup {c}
        /\ pc'[t] = "increment" /\ cur'[t] = c /\ reg'[t] = m_id
        /\ pc'[Loop] = pc[Loop]
    BY <1>1, <2>1 DEF Begin, Enter, Goto, TypeInv, TypeOK
  <2>3. msgid[c] = 0 /\ Keyed'
    BY <2>1, <2>2 DEF IdInv, IdsGiven, Keyed
  <2> QED
    BY <2>2, <2>3, IdCaller
<1>2. ASSUME NEW t \in Callers, CallMethodStep(t) PROVE IdInv'
  BY <1>2, IdCallMethod
<1>3. CASE LoopOnly /\ UNCHANGED <<m_id, msgid, begun>>
             /\ FewerRequests /\ FewerCallbacks
  BY <1>3, IdQuiet DEF LoopOnly
<1> QED
  BY <1>1, <1>2, <1>3, LoopStep

LEMMA IdInvariant == OneCaller /\ Spec => [](TypeInv /\ SendInv /\ IdInv)
  BY TypeInit, TypeNext, SendInit, SendNext, IdInit, IdNext, PTL DEF Spec

-----------------------------------------------------------------------------
(* What was handed to a bufferevent, and what can come back.                *)

Handed == {c \in Calls : sends[c] > 0}

(* Bodies are of calls in P, and replies are in W. *)
BodiesIn(s, P) ==
  \A i \in 1..Len(s) : s[i].kind = "body" => s[i].call \in P

RepliesIn(s, W) == \A i \in 1..Len(s) : s[i] \in W

AnswersIn(W) == \A b \in Bevs : RepliesIn(input[b], W)

AnswersTo(P) == {r \in Replies : r.call \in P}

AnswerInv ==
  \A b \in Bevs : /\ BodiesIn(output[b], Handed)
                  /\ peer[b] \subseteq Handed
                  /\ RepliesIn(input[b], AnswersTo(Handed))

LEMMA BodiesAppend ==
  ASSUME NEW s \in Seq(Chunks), NEW x \in Chunks, NEW P,
         BodiesIn(s, P), x.kind = "body" => x.call \in P
  PROVE  BodiesIn(Append(s, x), P) /\ Append(s, x) \in Seq(Chunks)
<1> DEFINE u == Append(s, x)
<1>1. /\ u \in Seq(Chunks) /\ Len(u) = Len(s) + 1 /\ Len(s) \in Nat
      /\ \A i \in 1..Len(s) : u[i] = s[i]
      /\ u[Len(s) + 1] = x
  BY AppendProperties, LenProperties
<1> HIDE DEF u
<1>2. BodiesIn(u, P)
  BY <1>1 DEF BodiesIn
<1> QED
  BY <1>1, <1>2 DEF u

LEMMA BodiesTail ==
  ASSUME NEW s \in Seq(Chunks), s # <<>>, NEW P, BodiesIn(s, P)
  PROVE  BodiesIn(Tail(s), P) /\ Tail(s) \in Seq(Chunks)
<1> DEFINE u == Tail(s)
<1>1. /\ u \in Seq(Chunks) /\ Len(u) = Len(s) - 1 /\ Len(s) \in Nat
      /\ \A i \in 1..Len(u) : u[i] = s[i + 1]
  BY HeadTailProperties
<1> HIDE DEF u
<1>2. BodiesIn(u, P)
  BY <1>1 DEF BodiesIn
<1> QED
  BY <1>1, <1>2 DEF u

LEMMA RepliesKept ==
  ASSUME NEW s \in Seq(Replies), NEW W, RepliesIn(s, W)
  PROVE  /\ \A r \in Replies : r \in W => RepliesIn(Append(s, r), W)
         /\ s # <<>> => Head(s) \in W /\ RepliesIn(Tail(s), W)
<1>1. ASSUME NEW r \in Replies, r \in W PROVE RepliesIn(Append(s, r), W)
  <2> DEFINE u == Append(s, r)
  <2>1. /\ Len(u) = Len(s) + 1 /\ Len(s) \in Nat
        /\ \A i \in 1..Len(s) : u[i] = s[i]
        /\ u[Len(s) + 1] = r
    BY AppendProperties, LenProperties
  <2> HIDE DEF u
  <2>2. RepliesIn(u, W)
    BY <1>1, <2>1 DEF RepliesIn
  <2> QED
    BY <2>2 DEF u
<1>2. ASSUME s # <<>> PROVE Head(s) \in W /\ RepliesIn(Tail(s), W)
  <2> DEFINE u == Tail(s)
  <2>1. /\ Len(u) = Len(s) - 1 /\ Len(s) \in Nat /\ Len(s) # 0
        /\ Head(s) = s[1]
        /\ \A i \in 1..Len(u) : u[i] = s[i + 1]
    BY <1>2, HeadTailProperties, EmptySeq
  <2> HIDE DEF u
  <2>2. RepliesIn(u, W) /\ Head(s) \in W
    BY <2>1 DEF RepliesIn
  <2> QED
    BY <2>2 DEF u
<1> QED
  BY <1>1, <1>2

LEMMA AnswerKept ==
  ASSUME AnswerInv, Handed \subseteq Handed',
         \A b \in Bevs :
           /\ output'[b] = output[b] \/ BodiesIn(output'[b], Handed')
           /\ peer'[b] \subseteq peer[b] \cup Handed'
           /\ input'[b] = input[b] \/ RepliesIn(input'[b], AnswersTo(Handed'))
  PROVE  AnswerInv'
<1>1. \A b \in Bevs : /\ BodiesIn(output[b], Handed')
                     /\ peer[b] \subseteq Handed'
                     /\ RepliesIn(input[b], AnswersTo(Handed'))
  BY DEF AnswerInv, BodiesIn, RepliesIn, AnswersTo
<1>2. \A b \in Bevs : /\ BodiesIn(output'[b], Handed')
                     /\ peer'[b] \subseteq Handed'
                     /\ RepliesIn(input'[b], AnswersTo(Handed'))
  BY <1>1
<1> QED
  BY <1>2 DEF AnswerInv, AnswersTo

(* A step that adds s to nothing but the output of one bufferevent. *)
LEMMA AnswerWritten ==
  ASSUME TypeInv, AnswerInv, Handed \subseteq Handed', UNCHANGED <<peer, input>>,
         NEW b \in Bevs, NEW s, output' = [output EXCEPT ![b] = s],
         BodiesIn(s, Handed')
  PROVE  AnswerInv'
<1>1. /\ output'[b] = s /\ \A a \in Bevs \ {b} : output'[a] = output[a]
  BY DEF TypeInv, TypeOK
<1> QED
  BY <1>1, AnswerKept

LEMMA AnswerCallMethod ==
  ASSUME TypeInv, ConnInv, AnswerInv, NEW t \in Threads, CallMethodStep(t)
  PROVE  AnswerInv'
<1>0. /\ output \in [Bevs -> Seq(Chunks)] /\ sends \in [Calls -> Nat]
      /\ pc[t] \in CallPcs => cur[t] \in Calls
  BY DEF TypeInv, TypeOK, Located
<1>1. CASE \/ Increment(t) \/ Stamp(t) \/ AddCallback(t) \/ CheckBev(t)
           \/ ReadId(t) \/ AddRequest(t)
  <2>1. UNCHANGED <<output, peer, input, sends>>
    BY <1>1 DEF Increment, Stamp, AddCallback, CheckBev, ReadId, AddRequest
  <2> QED
    BY <2>1, AnswerKept DEF Handed
<1>2. CASE AddHeader(t)
  <2>1. /\ m_bev \in Bevs /\ cur[t] \in Calls
        /\ UNCHANGED <<peer, input, sends>>
        /\ output' = [output EXCEPT ![m_bev] =
                        Append(output[m_bev], Header(cur[t]))]
    BY <1>0, <1>2 DEF AddHeader, ConnInv, SenderHolds, TypeInv, TypeOK, CallPcs
  <2>2. Header(cur[t]) \in Chunks /\ Header(cur[t]).kind # "body"
    BY <2>1, ChunkTypes DEF Header
  <2>3. output[m_bev] \in Seq(Chunks) /\ BodiesIn(output[m_bev], Handed)
    BY <1>0, <2>1 DEF AnswerInv
  <2>4. Handed' = Handed
    BY <2>1 DEF Handed
  <2>5. BodiesIn(Append(output[m_bev], Header(cur[t])), Handed)
    BY <2>2, <2>3, BodiesAppend
  <2> QED
    BY <2>1, <2>4, <2>5, AnswerWritten
<1>3. CASE AddBody(t)
  <2>1. /\ m_bev \in Bevs /\ out[t] = m_bev /\ cur[t] \in Calls
        /\ UNCHANGED <<peer, input>>
        /\ sends' = [sends EXCEPT ![cur[t]] = @ + 1]
        /\ output' = [output EXCEPT ![m_bev] =
                        Append(output[m_bev], Body(cur[t]))]
    BY <1>0, <1>3 DEF AddBody, ConnInv, SenderHolds, TypeInv, TypeOK, CallPcs
  <2>2. Body(cur[t]) \in Chunks /\ Body(cur[t]).call = cur[t]
    BY <2>1, ChunkTypes DEF Body
  <2>3. Handed' = Handed \cup {cur[t]}
    BY <1>0, <2>1 DEF Handed
  <2>4. output[m_bev] \in Seq(Chunks) /\ BodiesIn(output[m_bev], Handed')
    BY <1>0, <2>1, <2>3 DEF AnswerInv, BodiesIn
  <2>5. BodiesIn(Append(output[m_bev], Body(cur[t])), Handed')
    BY <2>2, <2>3, <2>4, BodiesAppend
  <2> QED
    BY <2>1, <2>3, <2>5, AnswerWritten
<1> QED
  BY <1>1, <1>2, <1>3 DEF CallMethodStep

LEMMA AnswerFlush ==
  ASSUME TypeInv, AnswerInv, FlushOne
  PROVE  AnswerInv'
<1>0. /\ output \in [Bevs -> Seq(Chunks)] /\ sends \in [Calls -> Nat]
      /\ m_bev \in Bevs /\ UNCHANGED <<peer, input>>
  BY DEF TypeInv, TypeOK, FlushOne
<1>1. PICK k \in Keys(m_request_cache) :
        /\ output' = [output EXCEPT ![m_bev] =
             @ \o <<Header(m_request_cache[k]), Body(m_request_cache[k])>>]
        /\ sends' = [sends EXCEPT ![m_request_cache[k]] = @ + 1]
  BY DEF FlushOne, IsFirst
<1>2. PICK c \in Calls : c = m_request_cache[k]
  BY DEF Keys, TypeInv, TypeOK
<1>3. /\ Header(c) \in Chunks /\ Body(c) \in Chunks
      /\ Header(c).kind # "body" /\ Body(c).call = c
  BY ChunkTypes DEF Header, Body
<1>4. Handed' = Handed \cup {c}
  BY <1>0, <1>1, <1>2 DEF Handed
<1>5. output[m_bev] \in Seq(Chunks) /\ BodiesIn(output[m_bev], Handed')
  BY <1>0, <1>4 DEF AnswerInv, BodiesIn
<1> DEFINE h == Append(output[m_bev], Header(c))
           s == Append(h, Body(c))
<1>6. BodiesIn(h, Handed') /\ h \in Seq(Chunks)
  BY <1>3, <1>5, BodiesAppend
<1> HIDE DEF h
<1>7. BodiesIn(s, Handed')
  BY <1>3, <1>4, <1>6, BodiesAppend
<1>8. output[m_bev] \o <<Header(c), Body(c)>> = s
  BY <1>3, <1>5 DEF h
<1>9. output' = [output EXCEPT ![m_bev] = s]
  BY <1>1, <1>2, <1>8
<1> HIDE DEF s
<1> QED
  BY <1>0, <1>4, <1>7, <1>9, AnswerWritten

(* The peer has a request when the socket has its body. *)
LEMMA AnswerReceive ==
  ASSUME TypeInv, FrameInv, AnswerInv, NEW b \in Bevs, PeerReceive(b)
  PROVE  AnswerInv'
<1>0. /\ output \in [Bevs -> Seq(Chunks)] /\ peer \in [Bevs -> SUBSET Calls]
      /\ UNCHANGED <<input, sends>> /\ output[b] # <<>>
  BY DEF PeerReceive, TypeInv, TypeOK
<1>1. Handed' = Handed
  BY <1>0 DEF Handed
<1>2. PICK s \in Seq(Chunks) : s = output[b]
  BY <1>0
<1>3. s # <<>> /\ BodiesIn(s, Handed) /\ Framed(s)
  BY <1>0, <1>2 DEF AnswerInv, FrameInv
<1>4. BodiesIn(Tail(s), Handed) /\ Tail(s) \in Seq(Chunks)
  BY <1>3, BodiesTail
<1>5. CASE output' = [output EXCEPT ![b] = Tail(s)] /\ UNCHANGED peer
  BY <1>0, <1>1, <1>4, <1>5, AnswerWritten
<1>6. CASE /\ Len(s) > 1 /\ Head(s).kind = "header"
           /\ output' = [output EXCEPT ![b] = Tail(Tail(s))]
           /\ peer' = [peer EXCEPT ![b] = @ \cup {Head(s).call}]
  <2>1. /\ Len(s) \in Nat /\ Head(s) = s[1]
        /\ Len(Tail(s)) = Len(s) - 1
    BY <1>3, HeadTailProperties
  <2>2. s[2] = Body(Head(s).call)
    BY <1>3, <1>6, <2>1 DEF Framed
  <2>3. Head(s).call \in Handed
    BY <1>3, <1>6, <2>1, <2>2 DEF BodiesIn, Body
  <2>4. Tail(s) # <<>>
    <3>1. PICK n \in Nat : n = Len(s)
      BY <2>1
    <3>2. n > 1
      BY <1>6, <3>1
    <3>3. n - 1 # 0
      BY <3>2
    <3>4. Len(Tail(s)) # Len(<<>>)
      <4>1. Len(Tail(s)) = n - 1
        BY <2>1, <3>1
      <4>2. Len(<<>>) = 0
        BY EmptySeq
      <4> QED
        BY <3>3, <4>1, <4>2
    <3> QED
      BY <3>4
  <2>5. BodiesIn(Tail(Tail(s)), Handed)
    BY <1>4, <2>4, BodiesTail
  <2>6. \A a \in Bevs : peer'[a] \subseteq peer[a] \cup Handed
    BY <1>0, <1>6, <2>3
  <2>7. /\ output'[b] = Tail(Tail(s))
        /\ \A a \in Bevs \ {b} : output'[a] = output[a]
    BY <1>0, <1>6
  <2> QED
    BY <1>0, <1>1, <2>5, <2>6, <2>7, AnswerKept
<1> QED
  BY <1>2, <1>5, <1>6 DEF PeerReceive

LEMMA AnswerInit == Init => AnswerInv
<1> SUFFICES ASSUME Init PROVE AnswerInv
  OBVIOUS
<1>1. \A b \in Bevs : output[b] = <<>> /\ peer[b] = {} /\ input[b] = <<>>
  BY DEF Init
<1> QED
  BY <1>1 DEF AnswerInv, BodiesIn, RepliesIn

LEMMA AnswerNext ==
  TypeInv /\ ConnInv /\ FrameInv /\ AnswerInv /\ [Next]_vars => AnswerInv'
<1> SUFFICES ASSUME TypeInv, ConnInv, FrameInv, AnswerInv, [Next]_vars
             PROVE  AnswerInv'
  OBVIOUS
<1>0. /\ output \in [Bevs -> Seq(Chunks)] /\ input \in [Bevs -> Seq(Replies)]
      /\ peer \in [Bevs -> SUBSET Calls]
  BY DEF TypeInv, TypeOK
<1>1. ASSUME UNCHANGED <<output, peer, input, sends>> PROVE AnswerInv'
  BY <1>1, AnswerKept DEF Handed
<1>2. ASSUME NEW t \in Callers, NEW c \in AppCalls, Begin(t, c)
      PROVE  AnswerInv'
  BY <1>1, <1>2 DEF Begin
<1>3. ASSUME NEW t \in Threads, CallMethodStep(t) PROVE AnswerInv'
  BY <1>3, AnswerCallMethod
<1>4. ASSUME NEW b \in Bevs, ConnectedCb(b) \/ ReadCb(b) \/ ErrorCb(b)
      PROVE  AnswerInv'
  BY <1>1, <1>4 DEF ConnectedCb, ReadCb, ErrorCb
<1>5. CASE ConnectTimerCb \/ RequestTimerCb
  BY <1>1, <1>5 DEF ConnectTimerCb, RequestTimerCb
<1>6. CASE HeartbeatCb
  <2>1. /\ m_bev \in Bevs /\ UNCHANGED <<peer, input, sends>>
        /\ output' = [output EXCEPT ![m_bev] = Append(output[m_bev], Heartbeat)]
    BY <1>6 DEF HeartbeatCb, TypeInv, TypeOK
  <2>2. Heartbeat \in Chunks /\ Heartbeat.kind # "body"
    BY ChunkTypes DEF Heartbeat
  <2>3. output[m_bev] \in Seq(Chunks) /\ BodiesIn(output[m_bev], Handed)
    BY <1>0, <2>1 DEF AnswerInv
  <2>4. BodiesIn(Append(output[m_bev], Heartbeat), Handed) /\ Handed' = Handed
    BY <2>1, <2>2, <2>3, BodiesAppend DEF Handed
  <2> QED
    BY <2>1, <2>4, AnswerWritten
<1>7. CASE \/ SetBev \/ SendCacheLock \/ FlushEnd \/ ReadEnd \/ Sweep
           \/ EraseSwept \/ SweepEnd
  BY <1>1, <1>7
  DEF SetBev, SendCacheLock, FlushEnd, ReadEnd, Sweep, EraseSwept, SweepEnd
<1>8. CASE ClearBev
  <2>1. /\ bev_locked \in Bevs /\ UNCHANGED <<peer, input, sends>>
        /\ output' = [output EXCEPT ![bev_locked] = <<>>]
    BY <1>8 DEF ClearBev, ConnInv, CallbackBev
  <2>2. BodiesIn(<<>>, Handed') /\ Handed' = Handed
    BY <2>1 DEF BodiesIn, Handed
  <2> QED
    BY <2>1, <2>2, AnswerWritten
<1>9. CASE Decode
  <2>1. /\ bev_locked \in Bevs /\ UNCHANGED <<output, peer, sends>>
        /\ input[bev_locked] # <<>>
        /\ input' = [input EXCEPT ![bev_locked] = Tail(@)]
    BY <1>9 DEF Decode, TypeInv, Located
  <2>2. PICK b \in Bevs : b = bev_locked
    BY <2>1
  <2>3. RepliesIn(Tail(input[b]), AnswersTo(Handed))
    BY <1>0, <2>1, <2>2, RepliesKept DEF AnswerInv
  <2>4. Handed' = Handed
    BY <2>1 DEF Handed
  <2>5. /\ input'[b] = Tail(input[b])
        /\ \A a \in Bevs \ {b} : input'[a] = input[a]
    BY <1>0, <2>1, <2>2
  <2> QED
    BY <2>1, <2>3, <2>4, <2>5, AnswerKept
<1>10. CASE CallbackStep
  BY <1>7, <1>8, <1>9, <1>10, AnswerFlush DEF CallbackStep
<1>11. ASSUME NEW b \in Bevs, NEW r \in Replies, PeerReply(b, r)
       PROVE  AnswerInv'
  <2>1. /\ UNCHANGED <<output, sends>> /\ r.call \in peer[b]
        /\ peer' = [peer EXCEPT ![b] = @ \ {r.call}]
        /\ input' = [input EXCEPT ![b] = Append(@, r)]
    BY <1>11 DEF PeerReply
  <2>2. RepliesIn(Append(input[b], r), AnswersTo(Handed))
    <3>1. r \in AnswersTo(Handed)
      BY <2>1 DEF AnswerInv, AnswersTo
    <3> QED
      BY <1>0, <3>1, RepliesKept DEF AnswerInv
  <2>3. Handed' = Handed
    BY <2>1 DEF Handed
  <2>4. /\ \A a \in Bevs : peer'[a] \subseteq peer[a]
        /\ input'[b] = Append(input[b], r)
        /\ \A a \in Bevs \ {b} : input'[a] = input[a]
    BY <1>0, <2>1
  <2> QED
    BY <2>1, <2>2, <2>3, <2>4, AnswerKept
<1>12. ASSUME NEW b \in Bevs, ConnectOk(b) \/ ConnectionLost(b)
       PROVE  AnswerInv'
  <2>1. /\ UNCHANGED <<output, input, sends>>
        /\ \A a \in Bevs : peer'[a] \subseteq peer[a]
    BY <1>0, <1>12 DEF ConnectOk, ConnectionLost
  <2> QED
    BY <2>1, AnswerKept DEF Handed
<1>13. CASE (\E c \in Calls : Cancel(c)) \/ Tick \/ UNCHANGED vars
  BY <1>1, <1>13 DEF Cancel, Tick, vars
<1> QED
  BY <1>2, <1>3, <1>4, <1>5, <1>6, <1>10, <1>11, <1>12, <1>13, AnswerReceive
  DEF Next, Environment

-----------------------------------------------------------------------------
(* What the closure of a call is told.                                      *)

InHandOf(c) == \E t \in Threads : pc[t] \in CallPcs /\ cur[t] = c

(* Nothing is told before the closure runs, a response is that of its own   *)
(* call, and NO_NETWORK is only told of a call that is out of the channel.  *)
ToldInv ==
  \A c \in Calls :
    /\ done[c] = 0 => errorText[c] = "none"
    /\ response[c] \in {c, NULL}
    /\ errorText[c] = "NO_NETWORK" =>
         sends[c] = 0 /\ ~Cached(c) /\ ~InHandOf(c)

(* The closure of c runs, with what it finds; replies are those of W. *)
Reply(c, kind) == [call |-> c, kind |-> kind]

ToldError(c, e, W) ==
  /\ response' = response
  /\ errorText' = [errorText EXCEPT ![c] = e]
  /\ e = "SERVER_ERROR" => Reply(c, "error") \in W
  /\ e = "INVALID_RESPONSE" => Reply(c, "unparsable") \in W
  /\ e = "NO_NETWORK" => sends[c] = 0 /\ ~InHandOf(c) /\ ~Cached(c)'

Told(c, W) ==
  /\ c \in begun /\ done[c] = 0
  /\ done' = [done EXCEPT ![c] = 1]
  /\ UNCHANGED <<begun, canceled, sends>>
  /\ \/ canceled[c] /\ UNCHANGED <<errorText, response>>
     \/ /\ ~canceled[c] /\ Reply(c, "ok") \in W
        /\ response' = [response EXCEPT ![c] = c] /\ errorText' = errorText
     \/ ~canceled[c] /\ \E e \in Errors \ {"none"} : ToldError(c, e, W)

LEMMA RunOnly ==
  ASSUME IdInv, NEW c \in Calls, NEW label, Run(c, label), done[c] = 0, TypeInv
  PROVE  done' = [done EXCEPT ![c] = 1] /\ begun' = begun
  BY DEF Run, IdInv, OneCaller, TypeInv, TypeOK

LEMMA Registered ==
  ASSUME TypeInv, EntryInv, NEW k \in Ids, m_callback_cache[k] # NULL, ~InErase
  PROVE  /\ m_callback_cache[k] \in Calls /\ m_callback_cache[k] \in begun
         /\ done[m_callback_cache[k]] = 0
<1>1. m_callback_cache[k] \in Calls
  BY DEF TypeInv, TypeOK
<1>2. done[m_callback_cache[k]] \in Nat
  BY <1>1 DEF TypeInv, TypeOK
<1> QED
  BY <1>1, <1>2 DEF EntryInv, StaleIsSwept, UnbegunCalls

(* A reply tells the call that it answers. *)
LEMMA DecodeTells ==
  ASSUME TypeInv, EntryInv, IdInv, NEW W, AnswersIn(W), Decode
  PROVE  \/ UNCHANGED <<done, errorText, response>>
         \/ \E c \in Calls : Told(c, W)
<1> DEFINE r == Head(input[bev_locked])
           k == ReplyKey(r)
           d == Find(m_callback_cache, k)
<1>1. /\ bev_locked \in Bevs /\ input[bev_locked] # <<>>
      /\ input[bev_locked] \in Seq(Replies)
      /\ RepliesIn(input[bev_locked], W)
  BY DEF Decode, TypeInv, TypeOK, Located, AnswersIn
<1>2. r \in Replies /\ r \in W
  <2>1. r \in Replies
    BY <1>1, TailTypes
  <2>2. r \in W
    BY <1>1, RepliesKept
  <2> QED
    BY <2>1, <2>2
<1>3. r.kind \in {"ok", "error", "unparsable"}
  BY <1>2 DEF Replies
<1>4. r.call \in Calls /\ r = Reply(r.call, r.kind)
  BY <1>2 DEF Replies, Reply
<1>5. /\ UNCHANGED <<canceled, sends>>
      /\ d = NULL => UNCHANGED <<done, errorText, response>>
      /\ d # NULL =>
           /\ response' = IF ~canceled[d] /\ r.kind = "ok"
                            THEN [response EXCEPT ![d] = r.call] ELSE response
           /\ errorText' =
                IF canceled[d] \/ r.kind = "ok" THEN errorText
                ELSE [errorText EXCEPT ![d] =
                        IF r.kind = "error" THEN "SERVER_ERROR"
                                            ELSE "INVALID_RESPONSE"]
           /\ Run(d, "read")
  BY DEF Decode
<1>6. ASSUME d # NULL
      PROVE  /\ d = r.call /\ d \in begun /\ done[d] = 0
             /\ done' = [done EXCEPT ![d] = 1] /\ begun' = begun
  <2>1. k \in Ids /\ d = m_callback_cache[k] /\ k = msgid[r.call]
    BY <1>6 DEF Find, ReplyKey
  <2>2. ~InErase
    BY ChannelAssumption DEF Decode, EntryInv, SweepLocked, Threads
  <2> HIDE DEF d, k, r
  <2>3. d \in Calls /\ d \in begun /\ done[d] = 0
    BY <1>6, <2>1, <2>2, Registered
  <2>4. msgid[d] = k /\ k # 0
    BY <1>6, <2>1 DEF IdInv, Keyed, Ids
  <2>5. d = r.call
    BY <1>4, <2>1, <2>3, <2>4 DEF IdInv, UniqueIds
  <2> QED
    BY <1>5, <1>6, <2>3, <2>5, RunOnly
<1> HIDE DEF d, k, r
<1>7. CASE d = NULL
  BY <1>5, <1>7
<1>8. CASE d # NULL
  <2>1. d \in Calls /\ r.call = d /\ Reply(d, r.kind) \in W
    BY <1>2, <1>4, <1>6, <1>8
  <2>2. CASE canceled[d]
    BY <1>5, <1>6, <1>8, <2>1, <2>2 DEF Told
  <2>3. CASE ~canceled[d] /\ r.kind = "ok"
    BY <1>5, <1>6, <1>8, <2>1, <2>3 DEF Told
  <2>4. CASE ~canceled[d] /\ r.kind # "ok"
    <3>1. CASE r.kind = "error"
      <4>1. /\ errorText' = [errorText EXCEPT ![d] = "SERVER_ERROR"]
            /\ response' = response
        BY <1>5, <1>8, <2>4, <3>1
      <4>2. ToldError(d, "SERVER_ERROR", W)
        BY <2>1, <3>1, <4>1 DEF ToldError
      <4> QED
        BY <1>5, <1>6, <1>8, <2>1, <2>4, <4>2 DEF Told, Errors
    <3>2. CASE r.kind = "unparsable"
      <4>1. /\ errorText' = [errorText EXCEPT ![d] = "INVALID_RESPONSE"]
            /\ response' = response
        BY <1>5, <1>8, <2>4, <3>2
      <4>2. ToldError(d, "INVALID_RESPONSE", W)
        BY <2>1, <3>2, <4>1 DEF ToldError
      <4> QED
        BY <1>5, <1>6, <1>8, <2>1, <2>4, <4>2 DEF Told, Errors
    <3> QED
      BY <1>3, <2>4, <3>1, <3>2
  <2> QED
    BY <2>2, <2>3, <2>4
<1> QED
  BY <1>7, <1>8

(* And the sweep tells NO_NETWORK of a request that it takes out.           *)
LEMMA SweepTells ==
  ASSUME TypeInv, EntryInv, SendInv, IdInv, NEW W, Sweep
  PROVE  \E c \in Calls : Told(c, W)
<1>1. PICK k \in Ids :
        /\ m_callback_cache[k] # NULL
        /\ DelRequest(k)
        /\ errorText' = IF canceled[m_callback_cache[k]] THEN errorText
                         ELSE [errorText EXCEPT ![m_callback_cache[k]] = GivenUp(k)]
        /\ Run(m_callback_cache[k], "erase")
  BY DEF Sweep, IsOver, IsFirst, Keys
<1>2. PICK c \in Calls : c = m_callback_cache[k]
  BY <1>1 DEF TypeInv, TypeOK
<1>3. c \in begun /\ done[c] = 0
  <2>1. ~InErase
    BY DEF Sweep, InErase, CallPcs
  <2> QED
    BY <1>1, <1>2, <2>1, Registered
<1>4. /\ UNCHANGED <<response, canceled, sends, begun>>
      /\ done' = [done EXCEPT ![c] = 1]
  BY <1>1, <1>2, <1>3, RunOnly DEF Sweep
<1>5. CASE canceled[c]
  BY <1>1, <1>2, <1>3, <1>4, <1>5 DEF Told
<1>6. CASE ~canceled[c] /\ m_request_cache[k] = NULL
  <2>1. errorText' = [errorText EXCEPT ![c] = "REQUEST_TIMEOUT"]
    BY <1>1, <1>2, <1>6 DEF GivenUp
  <2>2. ToldError(c, "REQUEST_TIMEOUT", W) /\ "REQUEST_TIMEOUT" \in Errors \ {"none"}
    BY <1>4, <2>1 DEF ToldError, Errors
  <2> QED
    BY <1>3, <1>4, <1>6, <2>2 DEF Told
<1>7. CASE ~canceled[c] /\ m_request_cache[k] # NULL
  <2>1. errorText' = [errorText EXCEPT ![c] = "NO_NETWORK"]
    BY <1>1, <1>2, <1>7 DEF GivenUp
  <2>2. PICK d \in Calls : d = m_request_cache[k]
    BY <1>7 DEF TypeInv, TypeOK
  <2>3. d = c
    <3>1. msgid[d] = k /\ msgid[c] = k /\ k # 0
      BY <1>1, <1>2, <1>7, <2>2 DEF IdInv, Keyed, Ids
    <3> QED
      BY <3>1 DEF IdInv, UniqueIds
  <2>4. Cached(c)
    BY <2>2, <2>3 DEF Cached
  <2>5. sends[c] = 0 /\ ~InHandOf(c)
    BY <2>4 DEF SendInv, SentOnce, InHand, InHandOf, TypeInv, TypeOK
  <2>6. ~(\E j \in Ids : m_request_cache'[j] = c)
    <3>1. \A j \in Ids : m_request_cache[j] = c => j = k
      BY <2>2, <2>3, <1>7 DEF SendInv, OneRequest
    <3>2. /\ m_request_cache'[k] = NULL
          /\ \A j \in Ids \ {k} : m_request_cache'[j] = m_request_cache[j]
      BY <1>1 DEF DelRequest, Erase, TypeInv, TypeOK
    <3> QED
      BY <1>1, <1>2, <3>1, <3>2
  <2>7. ToldError(c, "NO_NETWORK", W) /\ "NO_NETWORK" \in Errors \ {"none"}
    BY <1>4, <2>1, <2>5, <2>6 DEF ToldError, Errors, Cached
  <2> QED
    BY <1>3, <1>4, <1>7, <2>7 DEF Told
<1> QED
  BY <1>5, <1>6, <1>7

LEMMA TellStep ==
  ASSUME TypeInv, EntryInv, SendInv, IdInv, [Next]_vars, NEW W, AnswersIn(W)
  PROVE  \/ UNCHANGED <<done, errorText, response>>
         \/ \E c \in Calls : Told(c, W)
<1>1. CASE Decode
  BY <1>1, DecodeTells
<1>2. CASE Sweep
  BY <1>2, SweepTells
<1>3. CallbackStep => \/ UNCHANGED <<done, errorText, response>>
                      \/ Decode \/ Sweep
  BY DEF CallbackStep, SetBev, SendCacheLock, FlushOne, FlushEnd, ReadEnd,
         ClearBev, EraseSwept, SweepEnd
<1>4. ASSUME NEW t \in Threads, CallMethodStep(t)
      PROVE  UNCHANGED <<done, errorText, response>>
  BY <1>4 DEF CallMethodStep, Increment, Stamp, AddCallback, CheckBev,
              AddHeader, AddBody, ReadId, AddRequest
<1>5. Environment => UNCHANGED <<done, errorText, response>>
  BY DEF Environment, Cancel, Tick, ConnectOk, ConnectionLost, PeerReceive,
         PeerReply
<1> QED
  BY <1>1, <1>2, <1>3, <1>4, <1>5
  DEF Next, vars, Begin, ConnectedCb, ReadCb, ErrorCb, ConnectTimerCb,
      HeartbeatCb, RequestTimerCb

LEMMA ContractStep ==
  ASSUME TypeInv, IdInv, [Next]_vars
  PROVE  \/ \E t \in Callers : \E c \in AppCalls : Begin(t, c)
         \/ \E c \in Calls : Cancel(c)
         \/ \E t \in Callers : AddBody(t)
         \/ FlushOne
         \/ UNCHANGED <<begun, canceled, sends>>
<1>0. Threads = Callers \cup {Loop} /\ ~AddBody(Loop)
  BY DEF Threads, AddBody, IdInv, CallPcs
<1>1. ASSUME NEW c, NEW label, Run(c, label) PROVE begun' = begun
  BY <1>1 DEF Run, IdInv, OneCaller
<1>2. Decode => UNCHANGED <<begun, canceled, sends>>
  BY <1>1 DEF Decode
<1>3. Sweep => UNCHANGED <<begun, canceled, sends>>
  BY <1>1 DEF Sweep
<1>4. CallbackStep => FlushOne \/ UNCHANGED <<begun, canceled, sends>>
  BY <1>2, <1>3
  DEF CallbackStep, SetBev, SendCacheLock, FlushEnd, ReadEnd, ClearBev,
      EraseSwept, SweepEnd
<1>5. ASSUME NEW t \in Threads, CallMethodStep(t)
      PROVE  AddBody(t) \/ UNCHANGED <<begun, canceled, sends>>
  BY <1>5 DEF CallMethodStep, Increment, Stamp, AddCallback, CheckBev,
              AddHeader, ReadId, AddRequest
<1>6. Environment => \/ \E c \in Calls : Cancel(c)
                     \/ UNCHANGED <<begun, canceled, sends>>
  BY DEF Environment, Tick, ConnectOk, ConnectionLost, PeerReceive, PeerReply
<1> QED
  BY <1>0, <1>4, <1>5, <1>6
  DEF Next, vars, ConnectedCb, ReadCb, ErrorCb, ConnectTimerCb, HeartbeatCb,
      RequestTimerCb

(* The channel has nothing of the call left to send. *)
Gone(c) == c \in begun /\ sends[c] = 0 /\ ~Cached(c) /\ ~InHandOf(c)

LEMMA GoneStays ==
  ASSUME TypeInv, SendInv, IdInv, [Next]_vars, NEW c \in Calls, Gone(c)
  PROVE  Gone(c)'
<1>0. /\ pc \in [Threads -> CallPcs \cup LoopPcs \cup {"idle"}]
      /\ cur \in [Threads -> Calls \cup {NULL}]
      /\ sends \in [Calls -> Nat]
      /\ m_request_cache \in [Ids -> Calls \cup {NULL}]
      /\ Threads = Callers \cup {Loop} /\ Loop \notin Callers
      /\ pc[Loop] \notin CallPcs
  BY ChannelAssumption DEF TypeInv, TypeOK, Threads, IdInv
<1>1. /\ c \in begun /\ sends[c] = 0
      /\ \A k \in Ids : m_request_cache[k] # c
      /\ \A t \in Threads : pc[t] \in CallPcs => cur[t] # c
  BY DEF Gone, Cached, InHandOf
<1>2. SUFFICES /\ c \in begun' /\ sends'[c] = 0
               /\ \A k \in Ids : m_request_cache'[k] # c
               /\ \A t \in Threads : pc'[t] \in CallPcs => cur'[t] # c
  BY DEF Gone, Cached, InHandOf
<1>3. CASE \E t \in Callers : \E d \in AppCalls : Begin(t, d)
  <2>1. PICK t \in Callers, d \in AppCalls : Begin(t, d)
    BY <1>3
  <2>2. /\ d \notin begun /\ begun' = begun \cup {d}
        /\ UNCHANGED <<sends, m_request_cache>> /\ cur'[t] = d
        /\ \A u \in Threads \ {t} : pc'[u] = pc[u] /\ cur'[u] = cur[u]
    BY <1>0, <2>1 DEF Begin, Enter, Goto
  <2> QED
    BY <1>1, <2>2
<1>4. CASE \E t \in Callers : CallMethodStep(t)
  <2>1. PICK t \in Callers : CallMethodStep(t)
    BY <1>4
  <2>2. /\ begun' = begun /\ pc[t] \in CallPcs
        /\ \A u \in Threads \ {t} : pc'[u] = pc[u] /\ cur'[u] = cur[u]
        /\ pc'[t] \in CallPcs => cur'[t] = cur[t]
    BY <1>0, <2>1
    DEF CallMethodStep, Increment, Stamp, AddCallback, CheckBev, AddHeader,
        AddBody, ReadId, AddRequest, Return, Goto, CallPcs
  <2>3. cur[t] # c
    BY <1>0, <1>1, <2>2
  <2>4. /\ sends' = sends \/ sends' = [sends EXCEPT ![cur[t]] = @ + 1]
        /\ \/ m_request_cache' = m_request_cache
           \/ m_request_cache' = Insert(m_request_cache, reg[t], cur[t])
    BY <2>1
    DEF CallMethodStep, Increment, Stamp, AddCallback, CheckBev, AddHeader,
        AddBody, ReadId, AddRequest
  <2>5. sends'[c] = 0
    BY <1>0, <1>1, <2>3, <2>4
  <2>6. \A k \in Ids : m_request_cache'[k] # c
    BY <1>0, <1>1, <2>3, <2>4 DEF Insert
  <2> QED
    BY <1>0, <1>1, <2>2, <2>3, <2>5, <2>6
<1>5. CASE /\ ~(\E t \in Callers : \E d \in AppCalls : Begin(t, d))
           /\ ~(\E t \in Callers : CallMethodStep(t))
  <2>1. LoopOnly /\ begun' = begun /\ FewerRequests
    BY <1>5, LoopStep
  <2>2. sends'[c] = 0
    <3>1. CASE FlushOne
      <4>1. PICK k \in Keys(m_request_cache) :
              sends' = [sends EXCEPT ![m_request_cache[k]] = @ + 1]
        BY <3>1 DEF FlushOne, IsFirst
      <4> QED
        BY <1>0, <1>1, <4>1 DEF Keys
    <3>2. CASE UNCHANGED sends
      BY <1>1, <3>2
    <3> QED
      BY <1>5, <3>1, <3>2, ContractStep DEF CallMethodStep, Cancel
  <2>3. \A k \in Ids : m_request_cache'[k] # c
    BY <1>1, <2>1, ChannelAssumption DEF FewerRequests
  <2> QED
    BY <1>0, <1>1, <2>1, <2>2, <2>3 DEF LoopOnly
<1> QED
  BY <1>3, <1>4, <1>5

LEMMA ToldInit == Init => ToldInv
<1> SUFFICES ASSUME Init, NEW c \in Calls
             PROVE  /\ errorText[c] = "none" /\ response[c] = NULL
  BY DEF ToldInv
<1> QED
  BY DEF Init

LEMMA ToldNext ==
  TypeInv /\ EntryInv /\ SendInv /\ IdInv /\ AnswerInv /\ ToldInv /\ [Next]_vars
    => ToldInv'
<1> SUFFICES ASSUME TypeInv, EntryInv, SendInv, IdInv, AnswerInv, ToldInv,
                    [Next]_vars, NEW c \in Calls
             PROVE  /\ done'[c] = 0 => errorText'[c] = "none"
                    /\ response'[c] \in {c, NULL}
                    /\ errorText'[c] = "NO_NETWORK" =>
                         sends'[c] = 0 /\ ~Cached(c)' /\ ~InHandOf(c)'
  BY DEF ToldInv
<1>0. /\ done \in [Calls -> Nat] /\ errorText \in [Calls -> Errors]
      /\ response \in [Calls -> Calls \cup {NULL}]
  BY DEF TypeInv, TypeOK
<1>1. ASSUME errorText[c] = "NO_NETWORK"
      PROVE  sends'[c] = 0 /\ ~Cached(c)' /\ ~InHandOf(c)'
  <2>1. done[c] # 0
    BY <1>1 DEF ToldInv
  <2>2. c \in begun
    BY <2>1 DEF EntryInv, UnbegunCalls
  <2>3. Gone(c)
    BY <1>1, <2>2 DEF ToldInv, Gone
  <2> QED
    BY <2>3, GoneStays DEF Gone
<1>2. CASE UNCHANGED <<done, errorText, response>>
  BY <1>1, <1>2 DEF ToldInv
<1>3. ASSUME NEW d \in Calls, Told(d, AnswersTo(Handed))
      PROVE  /\ done'[c] = 0 => errorText'[c] = "none"
             /\ response'[c] \in {c, NULL}
             /\ errorText'[c] = "NO_NETWORK" =>
                  sends'[c] = 0 /\ ~Cached(c)' /\ ~InHandOf(c)'
  <2>1. done'[d] = 1 /\ \A x \in Calls \ {d} : done'[x] = done[x]
    BY <1>0, <1>3 DEF Told
  <2>2. \A x \in Calls \ {d} :
          errorText'[x] = errorText[x] /\ response'[x] = response[x]
    BY <1>0, <1>3 DEF Told, ToldError
  <2>3. CASE c # d
    BY <1>1, <2>1, <2>2, <2>3 DEF ToldInv
  <2>4. CASE c = d
    <3>1. response'[c] \in {c, NULL}
      BY <1>0, <1>3, <2>4 DEF Told, ToldError, ToldInv
    <3>2. ASSUME errorText'[c] = "NO_NETWORK", errorText[c] # "NO_NETWORK"
          PROVE  sends'[c] = 0 /\ ~Cached(c)' /\ ~InHandOf(c)'
      <4>1. sends[c] = 0 /\ ~InHandOf(c) /\ ~Cached(c)' /\ sends' = sends
        BY <1>0, <1>3, <2>4, <3>2 DEF Told, ToldError
      <4>2. ~InHandOf(c)'
        <5>1. c \in begun /\ done' # done
          BY <1>3, <2>1, <2>4 DEF Told
        <5>2. /\ ~(\E t \in Callers : \E x \in AppCalls : Begin(t, x))
              /\ ~(\E t \in Callers : CallMethodStep(t))
          BY <5>1
          DEF Begin, CallMethodStep, Increment, Stamp, AddCallback, CheckBev,
              AddHeader, AddBody, ReadId, AddRequest
        <5>3. LoopOnly
          BY <5>2, LoopStep
        <5> QED
          BY <4>1, <5>3 DEF InHandOf, LoopOnly, Threads
      <4> QED
        BY <4>1, <4>2
    <3> QED
      BY <1>1, <2>1, <2>4, <3>1, <3>2
  <2> QED
    BY <2>3, <2>4
<1>4. AnswersIn(AnswersTo(Handed))
  BY DEF AnswerInv, AnswersIn
<1> QED
  BY <1>2, <1>3, <1>4, TellStep

-----------------------------------------------------------------------------
(* Registration: the entry in m_callback_cache comes before the request.    *)

RegisteredInHand ==
  \A t \in Callers :
    pc[t] \in {"lock_bev", "add_header", "add_body", "read_id", "add_request"}
      /\ done[cur[t]] = 0 => m_callback_cache[m_id] = cur[t]

RegInv == RegisteredInHand /\ RegisteredBeforeSent

LEMMA RegInit == Init => RegInv
<1> SUFFICES ASSUME Init PROVE RegInv
  OBVIOUS
<1>1. \A c \in Calls : sends[c] = 0 /\ ~Cached(c)
  BY ChannelAssumption DEF Init, Cached
<1>2. RegisteredBeforeSent
  BY <1>1 DEF RegisteredBeforeSent
<1>3. \A t \in Callers : pc[t] \in {"poll", "idle"}
  BY DEF Init, Threads
<1> QED
  BY <1>2, <1>3 DEF RegInv, RegisteredInHand

LEMMA RegNext ==
  TypeInv /\ EntryInv /\ SendInv /\ IdInv /\ AnswerInv /\ RegInv /\ [Next]_vars
    => RegInv'
<1> SUFFICES ASSUME TypeInv, EntryInv, SendInv, IdInv, AnswerInv, RegInv,
                    [Next]_vars
             PROVE  RegInv'
  OBVIOUS
<1>0. /\ pc \in [Threads -> CallPcs \cup LoopPcs \cup {"idle"}]
      /\ cur \in [Threads -> Calls \cup {NULL}]
      /\ sends \in [Calls -> Nat] /\ done \in [Calls -> Nat]
      /\ m_id \in 0..MaxId /\ msgid \in [Calls -> 0..MaxId]
      /\ m_callback_cache \in [Ids -> Calls \cup {NULL}]
      /\ m_request_cache \in [Ids -> Calls \cup {NULL}]
      /\ Callers \subseteq Threads
  BY DEF TypeInv, TypeOK, Threads
<1>1. ASSUME NEW c \in Calls, done'[c] = 0 PROVE done[c] = 0
  <2>1. AnswersIn(AnswersTo(Handed))
    BY DEF AnswerInv, AnswersIn
  <2>2. \/ UNCHANGED done \/ \E d \in Calls : Told(d, AnswersTo(Handed))
    BY <2>1, TellStep
  <2> QED
    BY <1>0, <1>1, <2>2 DEF Told
<1>2. ASSUME NEW k \in Ids, NEW c \in Calls, m_callback_cache[k] = c,
             done'[c] = 0
      PROVE  m_callback_cache'[k] = c
  BY <1>2, NotDroppedStep, ChannelAssumption
<1>3. ASSUME NEW c \in Calls, sends[c] > 0 \/ Cached(c),
             done'[c] = 0, msgid'[c] = msgid[c]
      PROVE  msgid'[c] \in Ids /\ m_callback_cache'[msgid'[c]] = c
  BY <1>1, <1>2, <1>3 DEF RegInv, RegisteredBeforeSent
<1>4. CASE \E t \in Callers : \E c \in AppCalls : Begin(t, c)
  <2>1. PICK t \in Callers, d \in AppCalls : Begin(t, d)
    BY <1>4
  <2>2. /\ UNCHANGED <<sends, done, m_request_cache, m_callback_cache, msgid>>
        /\ pc'[t] = "increment"
    BY <1>0, <2>1 DEF Begin, Goto
  <2>3. RegisteredInHand'
    BY <2>2 DEF IdInv, OneCaller, RegisteredInHand
  <2>4. RegisteredBeforeSent'
    BY <2>2 DEF RegInv, RegisteredBeforeSent, Cached
  <2> QED
    BY <2>3, <2>4 DEF RegInv
<1>5. CASE \E t \in Callers : CallMethodStep(t)
  <2>1. PICK t \in Callers : CallMethodStep(t)
    BY <1>5
  <2>2. /\ cur[t] \in Calls /\ sends[cur[t]] = 0 /\ ~Cached(cur[t])
        /\ pc[t] \in CallPcs
    <3>1. pc[t] \in CallPcs
      BY <2>1
      DEF CallMethodStep, Increment, Stamp, AddCallback, CheckBev, AddHeader,
          AddBody, ReadId, AddRequest, CallPcs
    <3> QED
      BY <1>0, <3>1 DEF SendInv, InHand, TypeInv, Located
  <2>3. pc[t] # "increment" => msgid[cur[t]] = m_id /\ m_id \in Ids
    BY <1>0, <2>2 DEF IdInv, LatestId, Ids
  <2>4. \A u \in Callers : u = t
    BY DEF IdInv, OneCaller
  <2>5. CASE Increment(t) \/ Stamp(t)
    <3>1. /\ UNCHANGED <<sends, m_request_cache>>
          /\ \A c \in Calls \ {cur[t]} : msgid'[c] = msgid[c]
          /\ pc'[t] \in {"stamp", "add_callback"}
      BY <1>0, <2>5 DEF Increment, Stamp, Goto
    <3>2. RegisteredBeforeSent'
      BY <1>3, <2>2, <3>1 DEF RegisteredBeforeSent, Cached
    <3> QED
      BY <2>4, <3>1, <3>2 DEF RegInv, RegisteredInHand
  <2>6. CASE AddCallback(t)
    <3>1. /\ UNCHANGED <<sends, m_request_cache, msgid, m_id, cur, done>>
          /\ m_callback_cache' = Insert(m_callback_cache, m_id, cur[t])
          /\ pc[t] = "add_callback"
      BY <2>6 DEF AddCallback, IdInv, LatestId
    <3>2. m_callback_cache[m_id] = NULL
      <4>1. SUFFICES ASSUME NEW d \in Calls, m_callback_cache[m_id] = d
                     PROVE  FALSE
        BY <1>0, <2>3, <3>1
      <4>2. msgid[d] = m_id /\ m_id # 0
        BY <2>3, <3>1, <4>1, ChannelAssumption DEF IdInv, Keyed, Ids
      <4>3. d = cur[t]
        BY <2>2, <2>3, <3>1, <4>2 DEF IdInv, UniqueIds
      <4> QED
        BY <1>0, <2>3, <3>1, <4>1, <4>3
        DEF EntryInv, FreshCalls, Unregistered
    <3>3. m_callback_cache'[m_id] = cur[t]
      BY <1>0, <2>3, <3>1, <3>2 DEF Insert
    <3>4. RegisteredBeforeSent'
      BY <1>3, <3>1 DEF RegisteredBeforeSent, Cached
    <3> QED
      BY <2>4, <3>1, <3>3, <3>4 DEF RegInv, RegisteredInHand
  <2>7. CASE CheckBev(t) \/ AddHeader(t) \/ ReadId(t)
    <3>1. /\ UNCHANGED <<sends, m_request_cache, msgid, m_id, cur, done,
                         m_callback_cache>>
          /\ pc[t] \in {"lock_bev", "add_header", "read_id"}
      BY <2>7 DEF CheckBev, AddHeader, ReadId
    <3>2. RegisteredBeforeSent'
      BY <3>1 DEF RegInv, RegisteredBeforeSent, Cached
    <3>3. RegisteredInHand'
      BY <2>4, <3>1 DEF RegInv, RegisteredInHand
    <3> QED
      BY <3>2, <3>3 DEF RegInv
  <2>8. CASE AddBody(t) \/ AddRequest(t)
    <3>1. /\ UNCHANGED <<msgid, m_id, done, m_callback_cache>>
          /\ pc[t] \in {"add_body", "add_request"} /\ pc'[t] = "idle"
          /\ \A c \in Calls \ {cur[t]} : sends'[c] = sends[c]
      BY <1>0, <2>2, <2>8, ChannelAssumption
      DEF AddBody, AddRequest, Return, Goto, Threads
    <3>2. \A k \in Ids : m_request_cache'[k] \in {m_request_cache[k], cur[t]}
      BY <1>0, <2>8 DEF AddBody, AddRequest, Insert
    <3>3. \A c \in Calls \ {cur[t]} : Cached(c)' => Cached(c)
      BY <3>2 DEF Cached
    <3>4. done[cur[t]] = 0 =>
            msgid[cur[t]] \in Ids /\ m_callback_cache[msgid[cur[t]]] = cur[t]
      BY <2>3, <3>1 DEF RegInv, RegisteredInHand
    <3>5. RegisteredBeforeSent'
      BY <3>1, <3>3, <3>4 DEF RegInv, RegisteredBeforeSent
    <3> QED
      BY <2>4, <3>1, <3>5 DEF RegInv, RegisteredInHand
  <2> QED
    BY <2>1, <2>5, <2>6, <2>7, <2>8 DEF CallMethodStep
<1>6. CASE /\ ~(\E t \in Callers : \E c \in AppCalls : Begin(t, c))
           /\ ~(\E t \in Callers : CallMethodStep(t))
  <2>1. LoopOnly /\ UNCHANGED <<m_id, msgid>> /\ FewerRequests
    BY <1>6, LoopStep
  <2>2. \A c \in Calls : Cached(c)' => Cached(c)
    BY <2>1, FewerCached
  <2>3. \A c \in Calls : sends'[c] > 0 => sends[c] > 0 \/ Cached(c)
    <3>1. CASE FlushOne
      <4>1. PICK k \in Keys(m_request_cache) :
              sends' = [sends EXCEPT ![m_request_cache[k]] = @ + 1]
        BY <3>1 DEF FlushOne, IsFirst
      <4>2. k \in Ids
        BY DEF Keys
      <4>3. \A c \in Calls \ {m_request_cache[k]} : sends'[c] = sends[c]
        BY <1>0, <4>1
      <4> QED
        BY <4>2, <4>3 DEF Cached
    <3>2. CASE UNCHANGED sends
      BY <3>2
    <3> QED
      BY <1>6, <3>1, <3>2, ContractStep DEF CallMethodStep, Cancel
  <2>4. RegisteredBeforeSent'
    BY <1>3, <2>1, <2>2, <2>3 DEF RegisteredBeforeSent
  <2>5. RegisteredInHand'
    <3> SUFFICES ASSUME NEW t \in Callers, done'[cur'[t]] = 0,
                        pc'[t] \in {"lock_bev", "add_header", "add_body",
                                    "read_id", "add_request"}
                 PROVE  m_callback_cache'[m_id'] = cur'[t]
      BY DEF RegisteredInHand
    <3>1. pc'[t] = pc[t] /\ cur'[t] = cur[t] /\ pc[t] \in CallPcs \ {"increment"}
      BY <2>1 DEF LoopOnly, CallPcs
    <3>2. cur[t] \in Calls
      BY <1>0, <3>1 DEF TypeInv, Located
    <3>3. m_id \in Ids
      BY <1>0, <3>1 DEF IdInv, LatestId, Ids
    <3>4. m_callback_cache[m_id] = cur[t]
      BY <1>1, <3>1, <3>2 DEF RegInv, RegisteredInHand
    <3> QED
      BY <1>2, <2>1, <3>1, <3>2, <3>3, <3>4
  <2> QED
    BY <2>4, <2>5 DEF RegInv
<1> QED
  BY <1>4, <1>5, <1>6

-----------------------------------------------------------------------------
(* Theorems.                                                                *)

CallInv ==
  /\ TypeInv /\ EntryInv /\ ConnInv /\ SendInv /\ FrameInv
  /\ IdInv /\ AnswerInv /\ ToldInv /\ RegInv

LEMMA CallInvariant == OneCaller /\ Spec => []CallInv
<1>1. OneCaller /\ Init => CallInv
  BY TypeInit, EntryInit, ConnInit, SendInit, FrameInit, IdInit, AnswerInit,
     ToldInit, RegInit
  DEF CallInv
<1>2. CallInv /\ [Next]_vars => CallInv'
  BY TypeNext, EntryNext, ConnNext, SendNext, FrameNext, IdNext, AnswerNext,
     ToldNext, RegNext
  DEF CallInv
<1> QED
  BY <1>1, <1>2, PTL DEF Spec

(* With one caller a response is only ever filled from the answer to its    *)
(* own request, however many connections and late answers there are.        *)
THEOREM AnsweredByOwn == OneCaller /\ Spec => []OwnReply
<1>1. CallInv => OwnReply
  BY DEF CallInv, ToldInv, OwnReply
<1> QED
  BY <1>1, CallInvariant, PTL

(* And a request that went out, or waits to, is registered under the id its *)
(* message carries until its closure runs.                                  *)
THEOREM RegisteredFirst == OneCaller /\ Spec => []RegisteredBeforeSent
<1>1. CallInv => RegisteredBeforeSent
  BY DEF CallInv, RegInv
<1> QED
  BY <1>1, CallInvariant, PTL

LEMMA OutcomeSame ==
  ASSUME NEW c \in Calls, done'[c] = done[c], errorText'[c] = errorText[c],
         response'[c] = response[c],
         done[c] = 0 \/ canceled'[c] = canceled[c]
  PROVE  Outcome(c)' = Outcome(c)
<1>1. CASE done[c] = 0
  BY <1>1 DEF Outcome
<1>2. CASE done[c] # 0
  BY <1>2 DEF Outcome, Failed
<1> QED
  BY <1>1, <1>2

(* What the caller sees when the closure of c was told.                     *)
LEMMA ToldOutcome ==
  ASSUME TypeInv, ToldInv, NEW c \in Calls, NEW W, Told(c, W)
  PROVE  /\ c \in begun /\ Outcome(c) = "none"
         /\ UNCHANGED <<begun, canceled, sends>>
         /\ \A d \in Calls \ {c} : Outcome(d)' = Outcome(d)
         /\ \/ canceled[c] /\ Outcome(c)' = "canceled"
            \/ /\ ~canceled[c]
               /\ \/ Outcome(c)' = "ok" /\ Reply(c, "ok") \in W
                  \/ Outcome(c)' = "SERVER_ERROR" /\ Reply(c, "error") \in W
                  \/ /\ Outcome(c)' = "INVALID_RESPONSE"
                     /\ Reply(c, "unparsable") \in W
                  \/ Outcome(c)' = "REQUEST_TIMEOUT"
                  \/ Outcome(c)' = "NO_NETWORK" /\ sends[c] = 0
<1>0. /\ done \in [Calls -> Nat] /\ errorText \in [Calls -> Errors]
      /\ response \in [Calls -> Calls \cup {NULL}]
      /\ canceled \in [Calls -> BOOLEAN]
  BY DEF TypeInv, TypeOK
<1>1. /\ c \in begun /\ done[c] = 0 /\ done'[c] = 1
      /\ UNCHANGED <<begun, canceled, sends>>
      /\ \A d \in Calls \ {c} :
           /\ done'[d] = done[d] /\ errorText'[d] = errorText[d]
           /\ response'[d] = response[d]
  BY <1>0 DEF Told, ToldError
<1>2. Outcome(c) = "none"
  BY <1>1 DEF Outcome
<1>3. \A d \in Calls \ {c} : Outcome(d)' = Outcome(d)
  BY <1>1, OutcomeSame
<1>4. errorText[c] = "none"
  BY <1>1 DEF ToldInv
<1>5. CASE canceled[c]
  <2>1. Outcome(c)' = "canceled"
    BY <1>1, <1>5 DEF Outcome
  <2> QED
    BY <1>1, <1>2, <1>3, <1>5, <2>1
<1>6. CASE /\ ~canceled[c] /\ Reply(c, "ok") \in W
           /\ response' = [response EXCEPT ![c] = c] /\ errorText' = errorText
  <2>1. Outcome(c)' = "ok"
    BY <1>0, <1>1, <1>4, <1>6 DEF Outcome, Failed
  <2> QED
    BY <1>1, <1>2, <1>3, <1>6, <2>1
<1>7. ASSUME ~canceled[c], NEW e \in Errors \ {"none"}, ToldError(c, e, W)
      PROVE  /\ Outcome(c)' = e
             /\ e \in {"SERVER_ERROR", "INVALID_RESPONSE", "REQUEST_TIMEOUT",
                       "NO_NETWORK"}
             /\ e = "SERVER_ERROR" => Reply(c, "error") \in W
             /\ e = "INVALID_RESPONSE" => Reply(c, "unparsable") \in W
             /\ e = "NO_NETWORK" => sends[c] = 0
  <2>1. errorText'[c] = e
    BY <1>0, <1>7 DEF ToldError
  <2>2. Outcome(c)' = e
    BY <1>1, <1>7, <2>1 DEF Outcome, Failed
  <2> QED
    BY <1>7, <2>2 DEF ToldError, Errors
<1>8. CASE ~canceled[c] /\ \E e \in Errors \ {"none"} : ToldError(c, e, W)
  BY <1>1, <1>2, <1>3, <1>7, <1>8
<1> QED
  BY <1>5, <1>6, <1>8 DEF Told

LEMMA PromiseStep ==
  ASSUME CallInv, CallInv', [Next]_vars
  PROVE  [Promise!PromiseNext]_(Promise!promiseVars)
<1> USE DEF Promise!PromiseNext, Promise!promiseVars
<1>0. /\ TypeInv /\ EntryInv /\ SendInv /\ IdInv /\ AnswerInv /\ ToldInv
      /\ done \in [Calls -> Nat] /\ errorText \in [Calls -> Errors]
      /\ response \in [Calls -> Calls \cup {NULL}]
      /\ canceled \in [Calls -> BOOLEAN] /\ sends \in [Calls -> Nat]
  BY DEF CallInv, TypeInv, TypeOK
<1> DEFINE told == [c \in Calls |-> Outcome(c)]
<1>1. ASSUME UNCHANGED <<done, errorText, response>>,
             \A c \in Calls : done[c] = 0 \/ canceled'[c] = canceled[c]
      PROVE  told' = told
  BY <1>1, OutcomeSame
<1>2. ASSUME NEW t \in Callers, NEW c \in AppCalls, Begin(t, c)
      PROVE  Promise!Call(c) /\ c \in Calls
  BY <1>1, <1>2 DEF Begin, Enter, Calls, Promise!Call
<1>3. ASSUME NEW c \in Calls, Cancel(c) PROVE Promise!StartCancel(c)
  <2>1. /\ c \in begun /\ done[c] = 0
        /\ canceled' = [canceled EXCEPT ![c] = TRUE]
        /\ UNCHANGED <<begun, sends, done, errorText, response>>
    BY <1>3 DEF Cancel
  <2>2. told[c] = "none"
    BY <2>1 DEF Outcome
  <2>3. told' = told
    BY <1>0, <1>1, <2>1
  <2> QED
    BY <2>1, <2>2, <2>3 DEF Promise!StartCancel
<1>4. ASSUME NEW c \in Calls, c \in begun, sends[c] = 0,
             Cached(c) \/ InHandOf(c),
             sends' = [sends EXCEPT ![c] = @ + 1],
             UNCHANGED <<begun, canceled, done, errorText, response>>
      PROVE  Promise!Deliver(c)
  <2>1. told' = told
    BY <1>1, <1>4
  <2>2. errorText[c] # "NO_NETWORK"
    BY <1>0, <1>4 DEF ToldInv
  <2>3. told[c] # "NO_NETWORK"
    BY <2>2 DEF Outcome
  <2>4. sends' = [sends EXCEPT ![c] = 1]
    BY <1>0, <1>4
  <2> QED
    BY <1>4, <2>1, <2>3, <2>4 DEF Promise!Deliver
<1>5. ASSUME NEW t \in Callers, AddBody(t)
      PROVE  \E c \in Calls : Promise!Deliver(c)
  <2>1. /\ t \in Threads /\ pc[t] \in CallPcs
        /\ sends' = [sends EXCEPT ![cur[t]] = @ + 1]
        /\ UNCHANGED <<begun, canceled, done, errorText, response>>
    BY <1>5 DEF AddBody, Threads, CallPcs
  <2>2. /\ cur[t] \in Calls /\ cur[t] \in begun /\ sends[cur[t]] = 0
        /\ InHandOf(cur[t])
    BY <1>0, <2>1 DEF TypeInv, Located, SendInv, InHand, InHandOf
  <2> QED
    BY <1>4, <2>1, <2>2
<1>6. CASE FlushOne
  <2>1. PICK k \in Keys(m_request_cache) :
          sends' = [sends EXCEPT ![m_request_cache[k]] = @ + 1]
    BY <1>6 DEF FlushOne, IsFirst
  <2>2. UNCHANGED <<begun, canceled, done, errorText, response>>
    BY <1>6 DEF FlushOne
  <2>3. PICK c \in Calls : c = m_request_cache[k]
    BY <1>0 DEF Keys, TypeInv, TypeOK
  <2>4. Cached(c)
    BY <2>3 DEF Cached, Keys
  <2>5. c \in begun /\ sends[c] = 0
    BY <1>0, <2>4 DEF SendInv, SentOnce, UnbegunUnsent
  <2> QED
    BY <1>4, <2>1, <2>2, <2>3, <2>4, <2>5
<1>7. ASSUME NEW c \in Calls, Told(c, AnswersTo(Handed))
      PROVE  \E o \in Promise!Outcomes : Promise!Complete(c, o)
  <2> DEFINE o == told'[c]
  <2>1. /\ c \in begun /\ told[c] = "none"
        /\ UNCHANGED <<begun, canceled, sends>>
        /\ \A d \in Calls \ {c} : told'[d] = told[d]
        /\ canceled[c] => o = "canceled"
        /\ ~canceled[c] =>
             \/ o \in Promise!Answers /\ \E k : Reply(c, k) \in AnswersTo(Handed)
             \/ o = "REQUEST_TIMEOUT" \/ (o = "NO_NETWORK" /\ sends[c] = 0)
    BY <1>0, <1>7, ToldOutcome DEF Promise!Answers
  <2>2. told' = [told EXCEPT ![c] = o]
    BY <2>1
  <2>3. \A k : Reply(c, k) \in AnswersTo(Handed) => sends[c] = 1
    BY <1>0 DEF SendInv, SentOnce, Handed, AnswersTo, Reply
  <2> HIDE DEF told
  <2>4. /\ o \in Promise!Outcomes /\ (o = "canceled" <=> canceled[c])
        /\ o \in Promise!Answers => sends[c] = 1
        /\ o = "NO_NETWORK" => sends[c] = 0
    BY <2>1, <2>3 DEF Promise!Outcomes, Promise!Answers
  <2> QED
    BY <2>1, <2>2, <2>4 DEF Promise!Complete, told
<1>8. CASE UNCHANGED <<done, errorText, response, begun, canceled, sends>>
  BY <1>1, <1>8
<1>9. CASE \E c \in Calls : Told(c, AnswersTo(Handed))
  BY <1>7, <1>9
<1>10. CASE /\ UNCHANGED <<done, errorText, response>>
            /\ ~UNCHANGED <<begun, canceled, sends>>
  BY <1>0, <1>2, <1>3, <1>5, <1>6, <1>10, ContractStep
<1>11. AnswersIn(AnswersTo(Handed))
  BY <1>0 DEF AnswerInv, AnswersIn
<1> QED
  BY <1>0, <1>8, <1>9, <1>10, <1>11, TellStep

(* With one caller the channel implements RpcPromise: one delivery and one  *)
(* completion at most, and an outcome that is true of what was delivered.   *)
THEOREM PromiseIsKept == OneCaller /\ Spec => PromiseKept
<1>1. Init => Promise!PromiseInit
  BY DEF Init, Promise!PromiseInit, Outcome
<1>2. CallInv /\ CallInv' /\ [Next]_vars
        => [Promise!PromiseNext]_(Promise!promiseVars)
  BY PromiseStep
<1> QED
  BY <1>1, <1>2, CallInvariant, PTL DEF Spec, PromiseKept, Promise!PromiseSpec
=============================================================================
