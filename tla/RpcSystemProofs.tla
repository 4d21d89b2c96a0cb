---------------------------- MODULE RpcSystemProofs ----------------------------
(* The composition adds nothing to what its two parts allow for the peer:   *)
(* the theorems about RpcChannel and RpcServer hold of the whole system.    *)
(* From them follows what neither part can say alone: a request reaches the *)
(* server once at most, a result is what the server answered, and the       *)
(* contract of a call holds from end to end.                                *)
EXTENDS RpcSystem, RpcChannelProofs

USE DEF memberVars, threadVars, loopVars, bevVars, callVars, histVars

LEMMA ChannelStepIsNext == ChannelStep => Next
<1>1. (\E b \in Bevs : ConnectOk(b) \/ ConnectionLost(b))
        \/ (\E c \in Calls : Cancel(c)) \/ Tick => Environment
  BY DEF Environment
<1> QED
  BY <1>1 DEF ChannelStep, Next

LEMMA ServerStepIsNext == ServerStep => S!Next
<1>1. ASSUME NEW b \in Bevs, S!ConnectionLost(b) PROVE S!Environment
  BY <1>1 DEF S!Environment
<1> QED
  BY <1>1 DEF ServerStep, S!Next

(* What goes from one to the other is a step of each.                       *)
LEMMA ToServerIsNext ==
  ASSUME TypeInv, NEW b \in Bevs, ToServer(b)
  PROVE  Next /\ (S!Next \/ UNCHANGED serverVars)
<1>1. Next
  BY DEF ToServer, Next, Environment
<1>2. Head(output[b]) \in Chunks /\ Head(output[b]).kind = "header"
  <2>1. output[b] \in Seq(Chunks)
    BY DEF TypeInv, TypeOK
  <2>2. output[b] # <<>> /\ Head(output[b]).kind = "header"
    BY DEF ToServer, PeerReceive
  <2> QED
    BY <2>1, <2>2
<1>3. Head(output[b]).call \in S!Requests
  BY <1>2, SystemAssumption DEF Chunks, S!Requests
<1>4. S!PeerSend(b, Head(output[b]).call) => S!Next
  BY <1>3 DEF S!Next, S!Environment
<1> QED
  BY <1>1, <1>4 DEF ToServer

LEMMA ToChannelIsNext ==
  ASSUME TypeInv, NEW b \in Bevs, ToChannel(b)
  PROVE  (Next \/ UNCHANGED vars) /\ S!Next
<1>1. S!Next
  BY DEF ToChannel, S!Next, S!Environment
<1>2. ASSUME NEW c, NEW k \in ReplyKind(c),
             PeerReply(b, [call |-> c, kind |-> k])
      PROVE  Next
  <2>1. c \in peer[b]
    BY <1>2 DEF PeerReply
  <2>2. c \in Calls
    BY <2>1 DEF TypeInv, TypeOK
  <2>3. [call |-> c, kind |-> k] \in Replies
    BY <2>2 DEF Replies, ReplyKind
  <2> QED
    BY <1>2, <2>3 DEF Next, Environment
<1> QED
  BY <1>1, <1>2 DEF ToChannel

LEMMA SystemStep ==
  TypeInv /\ [SystemNext]_systemVars => [Next]_vars /\ [S!Next]_serverVars
<1> SUFFICES ASSUME TypeInv, [SystemNext]_systemVars
             PROVE  [Next]_vars /\ [S!Next]_serverVars
  OBVIOUS
<1>1. CASE ChannelStep
  BY <1>1, ChannelStepIsNext DEF ChannelStep
<1>2. CASE ServerStep
  BY <1>2, ServerStepIsNext DEF ServerStep
<1>3. ASSUME NEW b \in Bevs, Accept(b) PROVE UNCHANGED vars /\ S!Next
  BY <1>3 DEF Accept, S!Next
<1>4. CASE UNCHANGED systemVars
  BY <1>4 DEF systemVars
<1> QED
  BY <1>1, <1>2, <1>3, <1>4, ToServerIsNext, ToChannelIsNext DEF SystemNext

LEMMA SystemTypes == SystemSpec => []TypeInv
<1>1. SystemInit => TypeInv
  BY TypeInit DEF SystemInit
<1>2. TypeInv /\ [SystemNext]_systemVars => TypeInv'
  BY SystemStep, TypeNext
<1> QED
  BY <1>1, <1>2, PTL DEF SystemSpec

(* The system is a channel, with a real server for its peer.                *)
THEOREM SystemIsChannel == SystemSpec => Spec
<1>1. SystemInit => Init
  BY DEF SystemInit
<1>2. TypeInv /\ [SystemNext]_systemVars => [Next]_vars
  BY SystemStep
<1> QED
  BY <1>1, <1>2, SystemTypes, PTL DEF SystemSpec, Spec

(* And it is a server, with a real channel for its client.                  *)
THEOREM SystemIsServer == SystemSpec => S!Spec
<1>1. SystemInit => S!Init
  BY DEF SystemInit
<1>2. TypeInv /\ [SystemNext]_systemVars => [S!Next]_(S!vars)
  <2>1. UNCHANGED serverVars => UNCHANGED S!vars
    BY DEF serverVars, S!vars, S!clientVars, S!bevVars, S!threadVars, S!reqVars
  <2> QED
    BY <2>1, SystemStep
<1> QED
  BY <1>1, <1>2, SystemTypes, PTL DEF SystemSpec, S!Spec

(* So with a server at the other end, whose replies come when and on which  *)
(* connection they will, each closure still runs once, each request is sent *)
(* once and in one piece, and nothing to a bufferevent that is gone.        *)
THEOREM SystemSafe ==
  SystemSpec =>
    [](DoneOnce /\ SentOnce /\ FramesWhole /\ NoUseAfterFree /\ ReconnectArmed)
  BY SystemIsChannel, CompletedOnce, RequestsSentOnce, FramesStayWhole,
     SendsToLiveBev, ReconnectNeverLost, PTL

-----------------------------------------------------------------------------
(* A request is in one output at most, and there once.                      *)

HasHeader(s, c) == \E i \in 1..Len(s) : s[i] = Header(c)

DistinctHeaders(s) ==
  \A c \in Calls : \A i, j \in 1..Len(s) :
    s[i] = Header(c) /\ s[j] = Header(c) => i = j

OneHeader ==
  /\ \A b \in Bevs : DistinctHeaders(output[b])
  /\ \A c \in Calls : \A a, b \in Bevs :
       HasHeader(output[a], c) /\ HasHeader(output[b], c) => a = b

LEMMA HeaderAppend ==
  ASSUME NEW s \in Seq(Chunks), NEW x \in Chunks, DistinctHeaders(s),
         \A c \in Calls : x = Header(c) => ~HasHeader(s, c)
  PROVE  /\ Append(s, x) \in Seq(Chunks) /\ DistinctHeaders(Append(s, x))
         /\ \A c \in Calls :
              HasHeader(Append(s, x), c) => HasHeader(s, c) \/ x = Header(c)
<1> DEFINE u == Append(s, x)
<1>1. /\ u \in Seq(Chunks) /\ Len(u) = Len(s) + 1 /\ Len(s) \in Nat
      /\ \A i \in 1..Len(s) : u[i] = s[i]
      /\ u[Len(s) + 1] = x
  BY AppendProperties, LenProperties
<1> HIDE DEF u
<1>2. ASSUME NEW c \in Calls, NEW i \in 1..Len(u), u[i] = Header(c)
      PROVE  \/ i \in 1..Len(s) /\ s[i] = Header(c)
             \/ i = Len(s) + 1 /\ x = Header(c)
  BY <1>1, <1>2
<1>3. \A c \in Calls : HasHeader(u, c) => HasHeader(s, c) \/ x = Header(c)
  BY <1>2 DEF HasHeader
<1>4. DistinctHeaders(u)
  <2> SUFFICES ASSUME NEW c \in Calls, NEW i \in 1..Len(u), NEW j \in 1..Len(u),
                      u[i] = Header(c), u[j] = Header(c)
               PROVE  i = j
    BY DEF DistinctHeaders
  <2>1. CASE x = Header(c)
    <3>1. \A k \in 1..Len(s) : s[k] # Header(c)
      BY <2>1 DEF HasHeader
    <3> QED
      BY <1>2, <3>1
  <2>2. CASE x # Header(c)
    BY <1>2, <2>2 DEF DistinctHeaders
  <2> QED
    BY <2>1, <2>2
<1> QED
  BY <1>1, <1>3, <1>4 DEF u

LEMMA HeaderTail ==
  ASSUME NEW s \in Seq(Chunks), s # <<>>, DistinctHeaders(s)
  PROVE  /\ Tail(s) \in Seq(Chunks) /\ DistinctHeaders(Tail(s))
         /\ \A c \in Calls : HasHeader(Tail(s), c) =>
              HasHeader(s, c) /\ Head(s) # Header(c)
<1> DEFINE u == Tail(s)
<1>1. /\ u \in Seq(Chunks) /\ Len(u) = Len(s) - 1 /\ Len(s) \in Nat
      /\ \A i \in 1..Len(u) : u[i] = s[i + 1]
      /\ Head(s) = s[1]
  BY HeadTailProperties
<1> HIDE DEF u
<1>2. \A i \in 1..Len(u) : i + 1 \in 1..Len(s) /\ i + 1 # 1
  BY <1>1
<1>3. DistinctHeaders(u)
  <2> SUFFICES ASSUME NEW c \in Calls, NEW i \in 1..Len(u), NEW j \in 1..Len(u),
                      u[i] = Header(c), u[j] = Header(c)
               PROVE  i = j
    BY DEF DistinctHeaders
  <2>1. i + 1 = j + 1
    BY <1>1, <1>2 DEF DistinctHeaders
  <2> QED
    BY <2>1
<1>4. ASSUME NEW c \in Calls, HasHeader(u, c)
      PROVE  HasHeader(s, c) /\ Head(s) # Header(c)
  <2>1. PICK i \in 1..Len(u) : u[i] = Header(c)
    BY <1>4 DEF HasHeader
  <2>2. s[i + 1] = Header(c) /\ i + 1 \in 1..Len(s) /\ i + 1 # 1
    BY <1>1, <1>2, <2>1
  <2>3. 1 \in 1..Len(s)
    BY <1>1, <2>2
  <2> QED
    BY <1>1, <2>2, <2>3 DEF HasHeader, DistinctHeaders
<1> QED
  BY <1>1, <1>3, <1>4 DEF u

(* A header in an output is of a request that was handed to it, or that     *)
(* some thread is half-way through handing to it.                           *)
LEMMA HeaderIsHanded ==
  ASSUME TypeInv, FramesWhole, AnswerInv, NEW b \in Bevs, NEW c \in Calls,
         HasHeader(output[b], c)
  PROVE  c \in Handed \/ \E t \in Threads : pc[t] = "add_body" /\ cur[t] = c
<1>1. PICK i \in 1..Len(output[b]) : output[b][i] = Header(c)
  BY DEF HasHeader
<1>2. output[b][i].kind = "header" /\ output[b][i].call = c
  BY <1>1 DEF Header
<1>3. Len(output[b]) \in Nat
  BY LenProperties DEF TypeInv, TypeOK
<1>4. CASE i < Len(output[b])
  <2>1. output[b][i + 1] = Body(c)
    BY <1>2, <1>4 DEF FramesWhole
  <2>2. i + 1 \in 1..Len(output[b])
    BY <1>3, <1>4
  <2> QED
    BY <2>1, <2>2 DEF AnswerInv, BodiesIn, Body
<1>5. CASE ~(i < Len(output[b]))
  BY <1>2, <1>5 DEF FramesWhole
<1> QED
  BY <1>4, <1>5

(* What a step does to the headers: it adds none, or that of one request    *)
(* which was in no output and not handed to any.                            *)
FewerHeaders ==
  \A b \in Bevs :
    /\ DistinctHeaders(output'[b])
    /\ \A c \in Calls : HasHeader(output'[b], c) => HasHeader(output[b], c)

NewHeader(b, c) ==
  /\ sends[c] = 0 /\ \A a \in Bevs : ~HasHeader(output[a], c)
  /\ \A a \in Bevs : DistinctHeaders(output'[a])
  /\ \A a \in Bevs : \A d \in Calls :
       HasHeader(output'[a], d) => HasHeader(output[a], d) \/ (a = b /\ d = c)

LEMMA NoHeaderWritten ==
  ASSUME TypeInv, OneHeader, NEW b \in Bevs, NEW s,
         output' = [output EXCEPT ![b] = s], DistinctHeaders(s),
         \A c \in Calls : HasHeader(s, c) => HasHeader(output[b], c)
  PROVE  FewerHeaders
<1>1. output'[b] = s /\ \A a \in Bevs \ {b} : output'[a] = output[a]
  BY DEF TypeInv, TypeOK
<1> QED
  BY <1>1 DEF FewerHeaders, OneHeader

LEMMA HeaderWritten ==
  ASSUME TypeInv, OneHeader, NEW b \in Bevs, NEW s, NEW c \in Calls,
         output' = [output EXCEPT ![b] = s], DistinctHeaders(s),
         sends[c] = 0, \A a \in Bevs : ~HasHeader(output[a], c),
         \A d \in Calls : HasHeader(s, d) => HasHeader(output[b], d) \/ d = c
  PROVE  NewHeader(b, c)
<1>1. output'[b] = s /\ \A a \in Bevs \ {b} : output'[a] = output[a]
  BY DEF TypeInv, TypeOK
<1> QED
  BY <1>1 DEF NewHeader, OneHeader

LEMMA HeaderNames ==
  ASSUME NEW c \in Calls, NEW d \in Calls
  PROVE  /\ Header(c) = Header(d) => c = d
         /\ Body(c) # Header(d) /\ Heartbeat # Header(d)
<1>1. /\ Header(c).call = c /\ Header(d).call = d /\ Header(d).kind = "header"
      /\ Body(c).kind = "body" /\ Heartbeat.kind = "heartbeat"
  BY DEF Header, Body, Heartbeat
<1> QED
  BY <1>1

LEMMA HeaderCallMethod ==
  ASSUME TypeInv, ConnInv, SendInv, FramesWhole, AnswerInv, OneHeader,
         NEW t \in Threads, AddHeader(t) \/ AddBody(t)
  PROVE  FewerHeaders \/ \E b \in Bevs : \E c \in Calls : NewHeader(b, c)
<1>1. PICK c \in Calls, b \in Bevs :
        c = cur[t] /\ b = m_bev /\ (pc[t] = "add_body" => out[t] = b)
  BY DEF AddHeader, AddBody, CallPcs, TypeInv, TypeOK, Located, ConnInv,
         SenderHolds
<1>2. /\ output[b] \in Seq(Chunks) /\ DistinctHeaders(output[b])
      /\ Header(c) \in Chunks /\ Body(c) \in Chunks
  BY ChunkTypes DEF TypeInv, TypeOK, OneHeader
<1>3. CASE AddHeader(t)
  <2>1. /\ output' = [output EXCEPT ![b] = Append(output[b], Header(c))]
        /\ pc[t] = "add_header"
    BY <1>1, <1>3 DEF AddHeader
  <2>2. /\ sends[c] = 0
        /\ \A u \in Threads : pc[u] = "add_body" => cur[u] # c
    <3>1. pc[t] \in CallPcs /\ pc[t] # "add_body"
      BY <2>1 DEF CallPcs
    <3>2. \A u \in Threads : pc[u] = "add_body" => pc[u] \in CallPcs
      BY DEF CallPcs
    <3> QED
      BY <1>1, <3>1, <3>2 DEF SendInv, InHand, OneHand
  <2>3. \A a \in Bevs : ~HasHeader(output[a], c)
    <3>1. c \notin Handed
      BY <2>2 DEF Handed
    <3> QED
      BY <2>2, <3>1, HeaderIsHanded
  <2>4. \A d \in Calls : Header(c) = Header(d) => d = c
    BY HeaderNames
  <2>5. /\ DistinctHeaders(Append(output[b], Header(c)))
        /\ \A d \in Calls : HasHeader(Append(output[b], Header(c)), d) =>
             HasHeader(output[b], d) \/ Header(c) = Header(d)
    <3>1. \A d \in Calls : Header(c) = Header(d) => ~HasHeader(output[b], d)
      BY <2>3, <2>4
    <3> QED
      BY <1>2, <3>1, HeaderAppend
  <2> QED
    BY <2>1, <2>2, <2>3, <2>4, <2>5, HeaderWritten
<1>4. CASE AddBody(t)
  <2>1. output' = [output EXCEPT ![b] = Append(output[b], Body(c))]
    BY <1>1, <1>4 DEF AddBody
  <2>2. \A d \in Calls : Body(c) # Header(d)
    BY HeaderNames
  <2>3. /\ DistinctHeaders(Append(output[b], Body(c)))
        /\ \A d \in Calls :
             HasHeader(Append(output[b], Body(c)), d) => HasHeader(output[b], d)
    BY <1>2, <2>2, HeaderAppend
  <2> QED
    BY <2>1, <2>3, NoHeaderWritten
<1> QED
  BY <1>3, <1>4

LEMMA TwoAppended ==
  ASSUME NEW T, NEW s \in Seq(T), NEW x \in T, NEW y \in T
  PROVE  s \o <<x, y>> = Append(Append(s, x), y)
  OBVIOUS

LEMMA HeaderFlush ==
  ASSUME TypeInv, SendInv, FramesWhole, AnswerInv, OneHeader, FlushOne
  PROVE  \E b \in Bevs : \E c \in Calls : NewHeader(b, c)
<1>1. PICK k \in Keys(m_request_cache) :
        output' = [output EXCEPT ![m_bev] =
             @ \o <<Header(m_request_cache[k]), Body(m_request_cache[k])>>]
  BY DEF FlushOne, IsFirst
<1>2. PICK c \in Calls : c = m_request_cache[k] /\ k \in Ids
  BY DEF Keys, TypeInv, TypeOK
<1>3. PICK b \in Bevs : b = m_bev
  BY DEF FlushOne, TypeInv, TypeOK
<1>4. /\ output[b] \in Seq(Chunks) /\ DistinctHeaders(output[b])
      /\ Header(c) \in Chunks /\ Body(c) \in Chunks
  BY ChunkTypes DEF TypeInv, TypeOK, OneHeader
<1>5. Cached(c)
  BY <1>2 DEF Cached
<1>6. sends[c] = 0 /\ \A t \in Threads : pc[t] = "add_body" => cur[t] # c
  BY <1>5 DEF SendInv, SentOnce, InHand, CallPcs, TypeInv, TypeOK
<1>7. \A a \in Bevs : ~HasHeader(output[a], c)
  <2>1. c \notin Handed
    BY <1>6 DEF Handed
  <2> QED
    BY <1>6, <2>1, HeaderIsHanded
<1>8. \A d \in Calls : (Header(c) = Header(d) => d = c) /\ Body(c) # Header(d)
  BY HeaderNames
<1>9. PICK h \in Seq(Chunks) :
        /\ h = Append(output[b], Header(c)) /\ DistinctHeaders(h)
        /\ \A d \in Calls : HasHeader(h, d) => HasHeader(output[b], d) \/ d = c
  <2>1. \A d \in Calls : Header(c) = Header(d) => ~HasHeader(output[b], d)
    BY <1>7, <1>8
  <2> QED
    BY <1>4, <1>8, <2>1, HeaderAppend
<1>10. PICK s \in Seq(Chunks) :
         /\ s = Append(h, Body(c)) /\ DistinctHeaders(s)
         /\ \A d \in Calls : HasHeader(s, d) => HasHeader(output[b], d) \/ d = c
  <2>1. /\ Append(h, Body(c)) \in Seq(Chunks)
        /\ DistinctHeaders(Append(h, Body(c)))
        /\ \A d \in Calls : HasHeader(Append(h, Body(c)), d) => HasHeader(h, d)
    BY <1>4, <1>8, <1>9, HeaderAppend
  <2> QED
    BY <1>9, <2>1
<1>11. output[b] \o <<Header(c), Body(c)>> = s
  <2>1. output[b] \o <<Header(c), Body(c)>>
          = Append(Append(output[b], Header(c)), Body(c))
    BY <1>4, TwoAppended
  <2> QED
    BY <1>9, <1>10, <2>1
<1>12. output' = [output EXCEPT ![b] = s]
  BY <1>1, <1>2, <1>3, <1>11
<1> QED
  BY <1>6, <1>7, <1>10, <1>12, HeaderWritten

(* What libevent writes takes the header in front with it.                  *)
LEMMA HeaderReceive ==
  ASSUME TypeInv, OneHeader, NEW b \in Bevs, PeerReceive(b)
  PROVE  /\ FewerHeaders
         /\ \A c \in Calls : Head(output[b]) = Header(c) =>
              \A a \in Bevs : ~HasHeader(output'[a], c)
<1>1. PICK s \in Seq(Chunks) : s = output[b]
  BY DEF TypeInv, TypeOK
<1>2. /\ s # <<>> /\ DistinctHeaders(s)
      /\ \/ output' = [output EXCEPT ![b] = Tail(s)]
         \/ Len(s) > 1 /\ output' = [output EXCEPT ![b] = Tail(Tail(s))]
  BY <1>1 DEF PeerReceive, OneHeader
<1>3. /\ Tail(s) \in Seq(Chunks) /\ DistinctHeaders(Tail(s))
      /\ \A c \in Calls : HasHeader(Tail(s), c) =>
           HasHeader(s, c) /\ Head(s) # Header(c)
  BY <1>2, HeaderTail
<1>4. Len(s) > 1 => Tail(s) # <<>>
  <2>1. Len(Tail(s)) = Len(s) - 1
    BY <1>2, HeadTailProperties
  <2>2. PICK n \in Nat : n = Len(s)
    BY LenProperties
  <2>3. Len(Tail(s)) = n - 1 /\ Len(<<>>) = 0
    BY <2>1, <2>2, EmptySeq
  <2> QED
    BY <2>2, <2>3
<1>5. PICK u :
        /\ output' = [output EXCEPT ![b] = u] /\ DistinctHeaders(u)
        /\ \A c \in Calls : HasHeader(u, c) =>
             HasHeader(s, c) /\ Head(s) # Header(c)
  <2>1. CASE output' = [output EXCEPT ![b] = Tail(s)]
    BY <1>3, <2>1
  <2>2. CASE Len(s) > 1 /\ output' = [output EXCEPT ![b] = Tail(Tail(s))]
    <3>1. /\ DistinctHeaders(Tail(Tail(s)))
          /\ \A c \in Calls : HasHeader(Tail(Tail(s)), c) => HasHeader(Tail(s), c)
      BY <1>3, <1>4, <2>2, HeaderTail
    <3> QED
      BY <1>3, <2>2, <3>1
  <2> QED
    BY <1>2, <2>1, <2>2
<1>6. FewerHeaders
  BY <1>1, <1>5, NoHeaderWritten
<1>7. ASSUME NEW c \in Calls, Head(output[b]) = Header(c), NEW a \in Bevs,
             HasHeader(output'[a], c)
      PROVE  FALSE
  <2>1. Len(s) \in Nat /\ Len(s) # 0 /\ Head(s) = s[1]
    BY <1>2, HeadTailProperties, EmptySeq
  <2>2. HasHeader(output[b], c)
    BY <1>1, <1>7, <2>1 DEF HasHeader
  <2>3. a = b
    BY <1>6, <1>7, <2>2 DEF FewerHeaders, OneHeader
  <2>4. output'[b] = u
    BY <1>5 DEF TypeInv, TypeOK
  <2> QED
    BY <1>1, <1>5, <1>7, <2>3, <2>4
<1> QED
  BY <1>6, <1>7

LEMMA HeaderStep ==
  ASSUME TypeInv, ConnInv, SendInv, FramesWhole, AnswerInv, OneHeader, [Next]_vars
  PROVE  FewerHeaders \/ \E b \in Bevs : \E c \in Calls : NewHeader(b, c)
<1>1. ASSUME output' = output PROVE FewerHeaders
  BY <1>1 DEF FewerHeaders, OneHeader
<1>2. ASSUME NEW t \in Threads, CallMethodStep(t)
      PROVE  FewerHeaders \/ \E b \in Bevs : \E c \in Calls : NewHeader(b, c)
  BY <1>1, <1>2, HeaderCallMethod
  DEF CallMethodStep, Increment, Stamp, AddCallback, CheckBev, ReadId, AddRequest
<1>3. CASE HeartbeatCb
  <2>1. PICK b \in Bevs :
          output' = [output EXCEPT ![b] = Append(output[b], Heartbeat)]
    BY <1>3 DEF HeartbeatCb, TypeInv, TypeOK
  <2>2. /\ output[b] \in Seq(Chunks) /\ DistinctHeaders(output[b])
        /\ Heartbeat \in Chunks /\ \A c \in Calls : Heartbeat # Header(c)
    BY ChunkTypes, HeaderNames DEF TypeInv, TypeOK, OneHeader
  <2>3. /\ DistinctHeaders(Append(output[b], Heartbeat))
        /\ \A d \in Calls :
             HasHeader(Append(output[b], Heartbeat), d) => HasHeader(output[b], d)
    BY <2>2, HeaderAppend
  <2> QED
    BY <2>1, <2>3, NoHeaderWritten
<1>4. CASE ClearBev
  <2>1. PICK b \in Bevs : output' = [output EXCEPT ![b] = <<>>]
    BY <1>4 DEF ClearBev, ConnInv, CallbackBev
  <2>2. DistinctHeaders(<<>>) /\ \A c \in Calls : ~HasHeader(<<>>, c)
    BY DEF DistinctHeaders, HasHeader
  <2> QED
    BY <2>1, <2>2, NoHeaderWritten
<1>5. CASE CallbackStep
  BY <1>1, <1>4, <1>5, HeaderFlush
  DEF CallbackStep, SetBev, SendCacheLock, FlushEnd, Decode, ReadEnd, Sweep,
      EraseSwept, SweepEnd
<1>6. CASE Environment
  <2>1. ASSUME NEW b \in Bevs, PeerReceive(b) PROVE FewerHeaders
    BY <2>1, HeaderReceive
  <2> QED
    BY <1>1, <1>6, <2>1
    DEF Environment, Cancel, Tick, ConnectOk, ConnectionLost, PeerReply
<1> QED
  BY <1>1, <1>2, <1>3, <1>5, <1>6
  DEF Next, vars, Begin, ConnectedCb, ReadCb, ErrorCb, ConnectTimerCb,
      RequestTimerCb

LEMMA OneHeaderNext ==
  ASSUME OneHeader, FewerHeaders \/ \E b \in Bevs : \E c \in Calls : NewHeader(b, c)
  PROVE  OneHeader'
<1>1. \A b \in Bevs : DistinctHeaders(output'[b])
  BY DEF FewerHeaders, NewHeader
<1>2. ASSUME NEW c \in Calls, NEW a \in Bevs, NEW b \in Bevs,
             HasHeader(output'[a], c), HasHeader(output'[b], c)
      PROVE  a = b
  BY <1>2 DEF FewerHeaders, NewHeader, OneHeader
<1> QED
  BY <1>1, <1>2 DEF OneHeader, DistinctHeaders, HasHeader, Header

-----------------------------------------------------------------------------
(* What RpcServerProofs proves of the server, for the one in the system.    *)
(* Its definitions are those of S under another name.                       *)

P == INSTANCE RpcServerProofs WITH
  Conns <- Bevs, Loop <- ServerLoop, JunkRequests <- {},
  link <- s_link, input <- s_input, output <- s_output,
  pc <- s_pc, cur <- s_cur

LEMMA ServerAssumed == P!ServerAssumption
  BY SystemAssumption
  DEF P!ServerAssumption, P!Requests, IsFiniteSet, P!IsFiniteSet

LEMMA SameNext == S!Next <=> P!Next
<1> USE DEF S!Threads, P!Threads, S!Requests, P!Requests,
            S!clientVars, P!clientVars, S!bevVars, P!bevVars,
            S!threadVars, P!threadVars, S!reqVars, P!reqVars,
            S!Header, P!Header, S!Body, P!Body, S!Heartbeat, P!Heartbeat,
            S!Goto, P!Goto, S!Task, P!Task, S!Client, P!Client,
            S!LockFree, P!LockFree, S!Unlock, P!Unlock,
            S!AddReference, P!AddReference, S!Unreference, P!Unreference,
            S!Deallocate, P!Deallocate, S!ClearBev, P!ClearBev,
            S!Leave, P!Leave, S!AfterDone, P!AfterDone, S!Polling, P!Polling
<1>1. ASSUME NEW k \in Bevs
      PROVE  /\ S!AcceptSocketCb(k) <=> P!AcceptSocketCb(k)
             /\ S!ReadCb(k) <=> P!ReadCb(k)
             /\ S!EventCb(k) <=> P!EventCb(k)
  BY DEF S!AcceptSocketCb, P!AcceptSocketCb, S!ReadCb, P!ReadCb,
         S!EventCb, P!EventCb
<1>2. S!CallbackStep <=> P!CallbackStep
  BY DEF S!CallbackStep, P!CallbackStep, S!EchoHeartbeat, P!EchoHeartbeat,
         S!Decode, P!Decode, S!ReadEnd, P!ReadEnd, S!SetBev, P!SetBev,
         S!DropClient, P!DropClient, S!FreeDropped, P!FreeDropped,
         S!FreeBev, P!FreeBev
<1>3. ASSUME NEW t \in S!Threads
      PROVE  S!DoneStep(t) \/ S!EchoWorker(t) <=> P!DoneStep(t) \/ P!EchoWorker(t)
  BY DEF S!DoneStep, P!DoneStep, S!EchoWorker, P!EchoWorker,
         S!SerializeFails, P!SerializeFails, S!LockReply, P!LockReply,
         S!AddHeader, P!AddHeader,
         S!AddBody, P!AddBody, S!Release, P!Release,
         S!FreeReleased, P!FreeReleased
<1>4. S!Environment <=> P!Environment
  BY DEF S!Environment, P!Environment, S!PeerHeartbeat, P!PeerHeartbeat,
         S!PeerReceive, P!PeerReceive, S!ConnectionLost, P!ConnectionLost,
         S!PeerSend, P!PeerSend
<1> QED
  BY <1>1, <1>2, <1>3, <1>4 DEF S!Next, P!Next

LEMMA SameServer == S!Spec => P!Spec
<1>1. S!Init => P!Init
  BY DEF S!Init, P!Init, S!Threads, P!Threads, S!Requests, P!Requests
<1>2. UNCHANGED S!vars => UNCHANGED P!vars
  BY DEF S!vars, P!vars, S!clientVars, P!clientVars, S!bevVars, P!bevVars,
         S!threadVars, P!threadVars, S!reqVars, P!reqVars
<1>3. [S!Next]_(S!vars) => [P!Next]_(P!vars)
  BY <1>2, SameNext
<1> QED
  BY <1>1, <1>3, PTL DEF S!Spec, P!Spec

ServerTypes ==
  /\ from \in [Calls -> Bevs \cup {NULL}]
  /\ answered \in [Calls -> Nat]
  /\ s_output \in [Bevs -> Seq(S!Chunks)]

(* What goes over the connection to the channel is an answer to a request   *)
(* that came by it.                                                         *)
Answering ==
  \A b \in Bevs : \A i \in 1..Len(s_output[b]) :
    LET f == s_output[b][i] IN
    /\ f.kind = "header" =>
         /\ from[f.req] = b
         /\ i < Len(s_output[b]) => s_output[b][i + 1] = S!Body(f.req)
    /\ f.kind = "body" => i > 1 /\ answered[f.req] > 0

ServerInv == ServerTypes /\ Answering /\ S!AnsweredOnce

LEMMA ServerInvariant == SystemSpec => []ServerInv
<1>1. P!Spec => [](P!TypeOK /\ P!FramesWhole /\ P!BodyInv /\ P!AnsweredOnce)
  <2>1. P!Spec => []P!TypeOK
    BY P!ServerTypeCorrect, ServerAssumed
  <2>2. P!Spec => []P!FramesWhole
    BY P!FramesAreWhole, ServerAssumed
  <2>3. P!Spec => []P!BodyInv
    BY P!BodiesAreAnswers, ServerAssumed
  <2>4. P!Spec => []P!AnsweredOnce
    BY P!EachAnsweredOnce, ServerAssumed
  <2> QED
    BY <2>1, <2>2, <2>3, <2>4, PTL
<1>2. P!TypeOK => ServerTypes
  <2>1. P!Requests = Calls /\ P!Chunks = S!Chunks
    BY SystemAssumption DEF P!Requests, S!Requests, P!Chunks, S!Chunks
  <2> QED
    BY <2>1 DEF P!TypeOK, ServerTypes
<1>3. P!FramesWhole /\ P!BodyInv => Answering
  BY DEF P!FramesWhole, P!BodyInv, P!BodiesOf, P!Answered, P!Body, S!Body,
         Answering
<1>4. P!AnsweredOnce => S!AnsweredOnce
  BY DEF P!AnsweredOnce, S!AnsweredOnce, P!Requests, S!Requests
<1> QED
  BY <1>1, <1>2, <1>3, <1>4, SystemIsServer, SameServer, PTL DEF ServerInv

ChannelInv ==
  /\ TypeInv /\ EntryInv /\ ConnInv /\ SendInv /\ FrameInv /\ AnswerInv
  /\ FramesWhole /\ OneHeader

LEMMA ChannelInvariant == Spec => []ChannelInv
<1>1. Init => OneHeader
  <2> SUFFICES ASSUME Init PROVE OneHeader
    OBVIOUS
  <2>1. \A b \in Bevs : output[b] = <<>>
    BY DEF Init
  <2> QED
    BY <2>1 DEF OneHeader, DistinctHeaders, HasHeader
<1> DEFINE Inv == /\ TypeInv /\ EntryInv /\ ConnInv /\ SendInv /\ FrameInv
                  /\ AnswerInv /\ OneHeader
<1>2. Init => Inv
  BY <1>1, TypeInit, EntryInit, ConnInit, SendInit, FrameInit, AnswerInit
<1>3. FramesWhole /\ Inv /\ [Next]_vars => Inv'
  BY TypeNext, EntryNext, ConnNext, SendNext, FrameNext, AnswerNext, HeaderStep,
     OneHeaderNext
<1>4. FramesWhole /\ Inv => ChannelInv
  BY DEF ChannelInv
<1> HIDE DEF Inv
<1> QED
  BY <1>2, <1>3, <1>4, FramesStayWhole, PTL DEF Spec

-----------------------------------------------------------------------------
(* A request the server has taken was handed to a connection, and is in no  *)
(* output any more.                                                         *)

TakenInv ==
  \A c \in Calls : from[c] # NULL =>
    c \in Handed /\ \A b \in Bevs : ~HasHeader(output[b], c)

Takes(b, c) ==
  /\ PeerReceive(b) /\ Head(output[b]) = Header(c)
  /\ from[c] = NULL /\ from' = [from EXCEPT ![c] = b]

(* Only what goes from channel to server changes from, and only an echo     *)
(* thread or the loop, with the body it adds, answered.                     *)
LEMMA ServerHistory ==
  ASSUME TypeInv, ServerInv, [SystemNext]_systemVars
  PROVE  /\ \/ from' = from
            \/ \E b \in Bevs : \E c \in Calls : Takes(b, c)
         /\ \A c \in Calls : answered'[c] >= answered[c]
<1> USE DEF S!clientVars, S!bevVars, S!threadVars, S!reqVars, serverVars
<1>0. /\ from \in [Calls -> Bevs \cup {NULL}] /\ answered \in [Calls -> Nat]
      /\ S!Requests = Calls /\ \A n \in Nat : n >= n /\ n + 1 >= n
  BY SystemAssumption DEF ServerInv, ServerTypes, S!Requests
<1>1. ASSUME UNCHANGED <<from, answered>>
      PROVE  /\ from' = from
             /\ \A c \in Calls : answered'[c] >= answered[c]
  BY <1>0, <1>1
<1>2. CASE ChannelStep \/ UNCHANGED systemVars
  BY <1>1, <1>2 DEF ChannelStep, systemVars
<1>3. CASE ServerStep
  <2>1. ASSUME NEW t \in S!Threads, S!AddBody(t)
        PROVE  /\ from' = from
               /\ \A c \in Calls : answered'[c] >= answered[c]
    BY <1>0, <2>1 DEF S!AddBody
  <2>2. ASSUME NEW t \in S!Threads, S!DoneStep(t) \/ S!EchoWorker(t)
        PROVE  S!AddBody(t) \/ UNCHANGED <<from, answered>>
    BY <2>2 DEF S!DoneStep, S!EchoWorker, S!SerializeFails, S!LockReply,
                S!AddHeader, S!Release,
                S!FreeReleased
  <2>3. S!CallbackStep => UNCHANGED <<from, answered>>
    BY DEF S!CallbackStep, S!EchoHeartbeat, S!Decode, S!ReadEnd, S!SetBev,
           S!DropClient, S!FreeDropped, S!FreeBev
  <2>4. ASSUME NEW b \in Bevs, S!ReadCb(b) \/ S!EventCb(b) \/ S!ConnectionLost(b)
        PROVE  UNCHANGED <<from, answered>>
    BY <2>4 DEF S!ReadCb, S!EventCb, S!ConnectionLost
  <2> QED
    BY <1>1, <1>3, <2>1, <2>2, <2>3, <2>4 DEF ServerStep
<1>4. ASSUME NEW b \in Bevs, Accept(b) \/ ToChannel(b)
      PROVE  UNCHANGED <<from, answered>>
  BY <1>4 DEF Accept, ToChannel, S!AcceptSocketCb, S!PeerReceive
<1>5. ASSUME NEW b \in Bevs, ToServer(b)
      PROVE  \/ UNCHANGED <<from, answered>>
             \/ \E c \in Calls : Takes(b, c) /\ answered' = answered
  <2>1. Head(output[b]) \in Chunks /\ Head(output[b]).kind = "header"
    <3>1. output[b] \in Seq(Chunks) /\ output[b] # <<>>
      BY <1>5 DEF ToServer, PeerReceive, TypeInv, TypeOK
    <3> QED
      BY <1>5, <3>1, TailTypes DEF ToServer, PeerReceive
  <2>2. PICK c \in Calls : Head(output[b]) = Header(c)
    <3>1. /\ Head(output[b]).call \in Calls
          /\ Head(output[b]) = Header(Head(output[b]).call)
      BY <2>1 DEF Chunks, Header
    <3> QED
      BY <3>1
  <2>3. Header(c).call = c
    BY DEF Header
  <2> QED
    BY <1>5, <2>2, <2>3 DEF ToServer, S!PeerSend, Takes
<1> QED
  BY <1>0, <1>1, <1>2, <1>3, <1>4, <1>5 DEF SystemNext

LEMMA HandedStays ==
  ASSUME TypeInv, [Next]_vars
  PROVE  Handed \subseteq Handed'
<1>0. sends \in [Calls -> Nat]
  BY DEF TypeInv, TypeOK
<1>1. \/ sends' = sends
      \/ \E c : sends' = [sends EXCEPT ![c] = @ + 1]
  <2>1. ASSUME NEW t \in Threads, CallMethodStep(t)
        PROVE  sends' = sends \/ \E c : sends' = [sends EXCEPT ![c] = @ + 1]
    BY <2>1 DEF CallMethodStep, Increment, Stamp, AddCallback, CheckBev,
                AddHeader, AddBody, ReadId, AddRequest
  <2>2. CallbackStep =>
          sends' = sends \/ \E c : sends' = [sends EXCEPT ![c] = @ + 1]
    BY DEF CallbackStep, SetBev, SendCacheLock, FlushOne, FlushEnd, Decode,
           ReadEnd, ClearBev, Sweep, EraseSwept, SweepEnd
  <2>3. Environment => sends' = sends
    BY DEF Environment, Cancel, Tick, ConnectOk, ConnectionLost, PeerReceive,
           PeerReply
  <2> QED
    BY <2>1, <2>2, <2>3
    DEF Next, vars, Begin, ConnectedCb, ReadCb, ErrorCb, ConnectTimerCb,
        HeartbeatCb, RequestTimerCb
<1>2. CASE sends' = sends
  BY <1>2 DEF Handed
<1>3. ASSUME NEW c, sends' = [sends EXCEPT ![c] = @ + 1]
      PROVE  Handed \subseteq Handed'
  <2>1. \A d \in Calls : sends'[d] \in {sends[d], sends[d] + 1}
    BY <1>0, <1>3
  <2> QED
    BY <1>0, <2>1 DEF Handed
<1> QED
  BY <1>1, <1>2, <1>3

LEMMA ReceivedIsHanded ==
  ASSUME TypeInv, FrameInv, AnswerInv, NEW b \in Bevs, PeerReceive(b),
         NEW c \in Calls, Head(output[b]) = Header(c)
  PROVE  c \in Handed
<1>1. PICK s \in Seq(Chunks) : s = output[b]
  BY DEF TypeInv, TypeOK
<1>2. s # <<>> /\ Len(s) \in Nat /\ Head(s) = s[1]
  BY <1>1, HeadTailProperties, LenProperties DEF PeerReceive
<1>3. Header(c).kind = "header" /\ Header(c).call = c /\ Heartbeat # Header(c)
  BY HeaderNames DEF Header
<1>4. Len(s) > 1
  BY <1>1, <1>3 DEF PeerReceive
<1>5. s[2] = Body(c)
  BY <1>1, <1>2, <1>3, <1>4 DEF FrameInv, Framed
<1> QED
  BY <1>1, <1>2, <1>4, <1>5 DEF AnswerInv, BodiesIn, Body

LEMMA TakenNext ==
  ASSUME ChannelInv, ServerInv, TakenInv, [SystemNext]_systemVars
  PROVE  TakenInv'
<1>0. /\ TypeInv /\ ConnInv /\ SendInv /\ FrameInv /\ AnswerInv /\ FramesWhole
      /\ OneHeader /\ [Next]_vars
      /\ from \in [Calls -> Bevs \cup {NULL}]
  BY SystemStep DEF ChannelInv, ServerInv, ServerTypes
<1>1. Handed \subseteq Handed'
  BY <1>0, HandedStays
<1>2. ASSUME NEW c \in Calls, c \in Handed, \A a \in Bevs : ~HasHeader(output[a], c)
      PROVE  \A a \in Bevs : ~HasHeader(output'[a], c)
  <2>1. sends[c] # 0
    BY <1>0, <1>2 DEF Handed, TypeInv, TypeOK
  <2> QED
    BY <1>0, <1>2, <2>1, HeaderStep DEF FewerHeaders, NewHeader
<1>3. CASE from' = from
  <2> SUFFICES ASSUME NEW c \in Calls, from'[c] # NULL
               PROVE  c \in Handed' /\ \A a \in Bevs : ~HasHeader(output'[a], c)
    BY DEF TakenInv, HasHeader, Header
  <2> QED
    BY <1>1, <1>2, <1>3 DEF TakenInv
<1>4. ASSUME NEW b \in Bevs, NEW d \in Calls, Takes(b, d)
      PROVE  TakenInv'
  <2> SUFFICES ASSUME NEW c \in Calls, from'[c] # NULL
               PROVE  c \in Handed' /\ \A a \in Bevs : ~HasHeader(output'[a], c)
    BY DEF TakenInv, HasHeader, Header
  <2>1. CASE c = d
    <3>1. PeerReceive(b) /\ Head(output[b]) = Header(c)
      BY <1>4, <2>1 DEF Takes
    <3> QED
      BY <1>0, <1>1, <3>1, ReceivedIsHanded, HeaderReceive
  <2>2. CASE c # d
    <3>1. from[c] # NULL
      BY <1>0, <1>4, <2>2 DEF Takes
    <3> QED
      BY <1>1, <1>2, <3>1 DEF TakenInv
  <2> QED
    BY <2>1, <2>2
<1> QED
  BY <1>0, <1>3, <1>4, ServerHistory

LEMMA TakenInvariant == SystemSpec => [](ChannelInv /\ ServerInv /\ TakenInv)
<1>1. SystemInit => TakenInv
  <2>1. S!Init => from = [r \in Calls |-> NULL]
    BY SystemAssumption DEF S!Init, S!Requests
  <2> QED
    BY <2>1 DEF SystemInit, TakenInv
<1>2. ChannelInv /\ ServerInv /\ TakenInv /\ [SystemNext]_systemVars => TakenInv'
  BY TakenNext
<1> QED
  BY <1>1, <1>2, SystemIsChannel, ChannelInvariant, ServerInvariant, PTL
  DEF SystemSpec

(* The server never finds a request it has taken before on its way to it,   *)
(* whatever the ids do.                                                     *)
THEOREM TakenAtMostOnce == SystemSpec => []TakenOnce
<1>1. ChannelInv /\ TakenInv => TakenOnce
  <2> SUFFICES ASSUME ChannelInv, TakenInv, NEW b \in Bevs,
                      NEW i \in 1..Len(output[b]), output[b][i].kind = "header"
               PROVE  from[output[b][i].call] = NULL
    BY DEF TakenOnce
  <2>1. output[b] \in Seq(Chunks)
    BY DEF ChannelInv, TypeInv, TypeOK
  <2>2. output[b][i] \in Chunks
    BY <2>1, ElementOfSeq
  <2>3. output[b][i].call \in Calls /\ output[b][i] = Header(output[b][i].call)
    BY <2>2 DEF Chunks, Header
  <2>4. HasHeader(output[b], output[b][i].call)
    BY <2>3 DEF HasHeader
  <2> QED
    BY <2>3, <2>4 DEF TakenInv
<1> QED
  BY <1>1, TakenInvariant, PTL

-----------------------------------------------------------------------------
(* What comes back, and what the caller is told of it, for one caller.      *)

(* The replies the server may have sent so far. *)
SystemReplies ==
  {r \in Replies :
     /\ from[r.call] # NULL /\ answered[r.call] > 0
     /\ r.kind = "error" <=> r.call \in BadRequests}

LEMMA RepliesStay ==
  ASSUME TypeInv, ServerInv, ServerInv', [SystemNext]_systemVars
  PROVE  SystemReplies \subseteq SystemReplies'
<1>0. /\ from \in [Calls -> Bevs \cup {NULL}] /\ answered \in [Calls -> Nat]
      /\ answered' \in [Calls -> Nat]
      /\ NULL \notin Bevs
  BY SystemAssumption DEF ServerInv, ServerTypes
<1>1. \A c \in Calls : from[c] # NULL => from'[c] # NULL
  <2>1. ASSUME NEW b \in Bevs, NEW d \in Calls, Takes(b, d),
               NEW c \in Calls, from[c] # NULL
        PROVE  from'[c] # NULL
    BY <1>0, <2>1 DEF Takes
  <2> QED
    BY <2>1, ServerHistory
<1>2. \A c \in Calls : answered[c] > 0 => answered'[c] > 0
  BY <1>0, ServerHistory
<1>3. \A r \in Replies : r.call \in Calls
  BY DEF Replies
<1> QED
  BY <1>1, <1>2, <1>3 DEF SystemReplies

(* The reply that libevent hands over is such a one.                        *)
LEMMA ReplyIsAnswer ==
  ASSUME ChannelInv, ServerInv, NEW b \in Bevs, S!PeerReceive(b),
         NEW k \in ReplyKind(Head(s_output[b]).req),
         PeerReply(b, Reply(Head(s_output[b]).req, k))
  PROVE  Reply(Head(s_output[b]).req, k) \in SystemReplies
<1>1. PICK s \in Seq(S!Chunks) : s = s_output[b]
  BY DEF ServerInv, ServerTypes
<1>2. PICK c \in Calls : c = Head(s).req
  <2>1. Reply(Head(s).req, k).call \in peer[b]
    BY <1>1 DEF PeerReply
  <2> QED
    BY <2>1 DEF Reply, ChannelInv, TypeInv, TypeOK
<1>3. s # <<>> /\ Len(s) \in Nat /\ Head(s) = s[1] /\ s[1] \in S!Chunks
  BY <1>1, HeadTailProperties, LenProperties DEF S!PeerReceive
<1>4. c # NULL /\ b # NULL
  BY <1>2, SystemAssumption
<1>5. Head(s) # S!Heartbeat
  BY <1>2, <1>4 DEF S!Heartbeat
<1>6. Len(s) > 1
  BY <1>1, <1>5 DEF S!PeerReceive
<1>7. 1 \in 1..Len(s) /\ 2 \in 1..Len(s) /\ 1 < Len(s) /\ 1 + 1 = 2 /\ ~(1 > 1)
  BY <1>3, <1>6
<1>8. s[1].kind = "header"
  <2>1. s[1].kind # "body"
    BY <1>1, <1>7 DEF ServerInv, Answering
  <2>2. s[1].kind = "heartbeat" => s[1].req = NULL
    BY <1>3 DEF S!Chunks
  <2> QED
    BY <1>2, <1>3, <1>4, <2>1, <2>2 DEF S!Chunks
<1>9. from[c] = b /\ s[2] = S!Body(c)
  BY <1>1, <1>2, <1>3, <1>7, <1>8 DEF ServerInv, Answering
<1>10. answered[c] > 0
  BY <1>1, <1>7, <1>9 DEF ServerInv, Answering, S!Body
<1>11. k \in {"ok", "error", "unparsable"} /\ (k = "error" <=> c \in BadRequests)
  BY <1>1, <1>2 DEF ReplyKind
<1>12. Reply(c, k) \in Replies /\ Reply(c, k).call = c /\ Reply(c, k).kind = k
  BY <1>11 DEF Reply, Replies
<1> QED
  BY <1>1, <1>2, <1>4, <1>9, <1>10, <1>11, <1>12 DEF SystemReplies

LEMMA ComesBack ==
  ASSUME ChannelInv, ServerInv, [SystemNext]_systemVars, NEW b \in Bevs
  PROVE  \/ input'[b] = input[b]
         \/ input[b] # <<>> /\ input'[b] = Tail(input[b])
         \/ \E r \in SystemReplies : input'[b] = Append(input[b], r)
<1>0. input \in [Bevs -> Seq(Replies)]
  BY DEF ChannelInv, TypeInv, TypeOK
<1>1. CASE Decode
  <2>1. /\ input[bev_locked] # <<>>
        /\ input' = [input EXCEPT ![bev_locked] = Tail(input[bev_locked])]
    BY <1>1 DEF Decode
  <2> QED
    BY <1>0, <2>1
<1>2. CASE ChannelStep /\ ~Decode
  <2>1. ASSUME NEW t \in Threads, CallMethodStep(t) PROVE input' = input
    BY <2>1 DEF CallMethodStep, Increment, Stamp, AddCallback, CheckBev,
                AddHeader, AddBody, ReadId, AddRequest
  <2>2. CallbackStep /\ ~Decode => input' = input
    BY DEF CallbackStep, SetBev, SendCacheLock, FlushOne, FlushEnd, ReadEnd,
           ClearBev, Sweep, EraseSwept, SweepEnd
  <2> QED
    BY <1>2, <2>1, <2>2
    DEF ChannelStep, Begin, ConnectedCb, ReadCb, ErrorCb, ConnectTimerCb,
        RequestTimerCb, Cancel, Tick, ConnectOk, ConnectionLost
<1>3. ASSUME NEW a \in Bevs, ToChannel(a), input' # input
      PROVE  \E r \in SystemReplies : input' = [input EXCEPT ![a] = Append(@, r)]
  <2>1. PICK k \in ReplyKind(Head(s_output[a]).req) :
          PeerReply(a, Reply(Head(s_output[a]).req, k))
    BY <1>3 DEF ToChannel, Reply, vars
  <2>2. Reply(Head(s_output[a]).req, k) \in SystemReplies
    BY <1>3, <2>1, ReplyIsAnswer DEF ToChannel
  <2> QED
    BY <2>1, <2>2 DEF PeerReply
<1>4. ASSUME NEW a \in Bevs, Accept(a) \/ ToServer(a) PROVE input' = input
  BY <1>4 DEF Accept, ToServer, PeerReceive, vars
<1>5. ServerStep \/ UNCHANGED systemVars => input' = input
  BY DEF ServerStep, systemVars, vars
<1> QED
  BY <1>0, <1>1, <1>2, <1>3, <1>4, <1>5 DEF SystemNext

LEMMA RepliesNext ==
  ASSUME ChannelInv, ServerInv, ServerInv', AnswersIn(SystemReplies),
         [SystemNext]_systemVars
  PROVE  AnswersIn(SystemReplies)'
<1>0. input \in [Bevs -> Seq(Replies)] /\ SystemReplies \subseteq Replies
  BY DEF ChannelInv, TypeInv, TypeOK, SystemReplies
<1>1. SystemReplies \subseteq SystemReplies'
  BY RepliesStay DEF ChannelInv
<1>2. ASSUME NEW b \in Bevs PROVE RepliesIn(input'[b], SystemReplies)
  <2>1. input[b] \in Seq(Replies) /\ RepliesIn(input[b], SystemReplies)
    BY <1>0 DEF AnswersIn
  <2>2. /\ \A r \in SystemReplies : RepliesIn(Append(input[b], r), SystemReplies)
        /\ input[b] # <<>> => RepliesIn(Tail(input[b]), SystemReplies)
    BY <1>0, <2>1, RepliesKept
  <2> QED
    BY <2>1, <2>2, ComesBack
<1> QED
  BY <1>1, <1>2 DEF AnswersIn, RepliesIn

LEMMA OutcomeKept ==
  ASSUME CallInv, [Next]_vars, UNCHANGED <<done, errorText, response>>,
         NEW c \in Calls
  PROVE  Outcome(c)' = Outcome(c)
<1>1. ASSUME NEW d \in Calls, Cancel(d)
      PROVE  done[c] = 0 \/ canceled'[c] = canceled[c]
  BY <1>1 DEF Cancel, CallInv, TypeInv, TypeOK
<1>2. ASSUME NEW t \in Callers, NEW d \in AppCalls, Begin(t, d)
      PROVE  canceled' = canceled
  BY <1>2 DEF Begin
<1>3. (\E t \in Callers : AddBody(t)) \/ FlushOne => canceled' = canceled
  BY DEF AddBody, FlushOne
<1>4. done[c] = 0 \/ canceled'[c] = canceled[c]
  BY <1>1, <1>2, <1>3, ContractStep DEF CallInv
<1> QED
  BY <1>4, OutcomeSame

(* Each step of the system is one of the contract from end to end, or none. *)
LEMMA EndToEndStep ==
  ASSUME CallInv, ServerInv, TakenInv, AnswersIn(SystemReplies),
         [SystemNext]_systemVars
  PROVE  [EndToEnd!PromiseNext]_(EndToEnd!promiseVars)
<1> USE DEF EndToEnd!PromiseNext, EndToEnd!promiseVars
<1> DEFINE told == [c \in Calls |-> Outcome(c)]
           seen == [c \in Calls |-> Taken(c)]
<1>0. /\ TypeInv /\ EntryInv /\ SendInv /\ IdInv /\ ToldInv /\ [Next]_vars
      /\ from \in [Calls -> Bevs \cup {NULL}] /\ NULL \notin Bevs
      /\ sends \in [Calls -> Nat]
  BY SystemStep, SystemAssumption
  DEF CallInv, TypeInv, TypeOK, ServerInv, ServerTypes
<1>1. UNCHANGED <<done, errorText, response>> => told' = told
  BY <1>0, OutcomeKept
<1>2. from' = from => seen' = seen
  BY DEF Taken
<1>3. ASSUME NEW b \in Bevs, NEW c \in Calls, Takes(b, c)
      PROVE  EndToEnd!Deliver(c)
  <2>1. UNCHANGED <<begun, canceled, done, errorText, response>>
    BY <1>3 DEF Takes, PeerReceive
  <2>2. c \in Handed
    BY <1>0, <1>3, ReceivedIsHanded DEF CallInv, Takes
  <2>3. c \in begun /\ sends[c] # 0
    BY <1>0, <2>2 DEF SendInv, UnbegunUnsent, Handed
  <2>4. errorText[c] # "NO_NETWORK"
    BY <1>0, <2>3 DEF ToldInv
  <2>5. told[c] # "NO_NETWORK"
    BY <2>4 DEF Outcome
  <2>6. seen[c] = 0 /\ seen' = [seen EXCEPT ![c] = 1]
    BY <1>0, <1>3 DEF Takes, Taken
  <2> HIDE DEF told, seen
  <2>7. told' = told
    BY <1>1, <2>1
  <2> QED
    BY <2>1, <2>3, <2>5, <2>6, <2>7 DEF EndToEnd!Deliver, told, seen
<1>4. ASSUME NEW c \in Calls, Told(c, SystemReplies), from' = from
      PROVE  \E o \in EndToEnd!Outcomes : EndToEnd!Complete(c, o)
  <2> DEFINE o == told'[c]
  <2>1. /\ c \in begun /\ told[c] = "none"
        /\ UNCHANGED <<begun, canceled>>
        /\ \A d \in Calls \ {c} : told'[d] = told[d]
        /\ canceled[c] => o = "canceled"
        /\ ~canceled[c] =>
             \/ /\ o \in EndToEnd!Answers
                /\ \E k : Reply(c, k) \in SystemReplies
             \/ o = "REQUEST_TIMEOUT" \/ (o = "NO_NETWORK" /\ sends[c] = 0)
    BY <1>0, <1>4, ToldOutcome DEF EndToEnd!Answers
  <2>2. told' = [told EXCEPT ![c] = o]
    BY <2>1
  <2>3. (\E k : Reply(c, k) \in SystemReplies) => seen[c] = 1
    BY DEF SystemReplies, Reply, Taken
  <2>4. sends[c] = 0 => seen[c] = 0
    BY DEF TakenInv, Handed, Taken
  <2>5. seen' = seen
    BY <1>2, <1>4
  <2> HIDE DEF told, seen
  <2>6. /\ o \in EndToEnd!Outcomes /\ (o = "canceled" <=> canceled[c])
        /\ o \in EndToEnd!Answers => seen[c] = 1
        /\ o = "NO_NETWORK" => seen[c] = 0
    BY <2>1, <2>3, <2>4 DEF EndToEnd!Outcomes, EndToEnd!Answers
  <2> QED
    BY <2>1, <2>2, <2>5, <2>6 DEF EndToEnd!Complete, told, seen
<1>5. CASE from' = from /\ UNCHANGED <<done, errorText, response>>
  <2>1. told' = told /\ seen' = seen
    BY <1>1, <1>2, <1>5
  <2>2. ASSUME NEW t \in Callers, NEW c \in AppCalls, Begin(t, c)
        PROVE  c \in Calls /\ EndToEnd!Call(c)
    BY <2>1, <2>2 DEF Begin, Enter, Calls, EndToEnd!Call
  <2>3. ASSUME NEW c \in Calls, Cancel(c) PROVE EndToEnd!StartCancel(c)
    <3>1. told[c] = "none"
      BY <2>3 DEF Cancel, Outcome
    <3> QED
      BY <2>1, <2>3, <3>1 DEF Cancel, EndToEnd!StartCancel
  <2>4. (\E t \in Callers : AddBody(t)) \/ FlushOne => UNCHANGED <<begun, canceled>>
    BY DEF AddBody, FlushOne
  <2> HIDE DEF told, seen
  <2>5. UNCHANGED <<begun, canceled>> => UNCHANGED EndToEnd!promiseVars
    BY <2>1 DEF told, seen
  <2> QED
    BY <1>0, <2>2, <2>3, <2>4, <2>5, ContractStep
<1> QED
  BY <1>0, <1>3, <1>4, <1>5, ServerHistory, TellStep

(* A result, once told, stays true: a request is answered once.             *)
LEMMA ResultNext ==
  ASSUME CallInv, ServerInv, ServerInv', AnswersIn(SystemReplies),
         ResultWasAnswered, [SystemNext]_systemVars
  PROVE  ResultWasAnswered'
<1>0. /\ TypeInv /\ EntryInv /\ SendInv /\ IdInv /\ ToldInv /\ [Next]_vars
      /\ answered \in [Calls -> Nat] /\ answered' \in [Calls -> Nat]
      /\ \A c \in Calls : answered[c] <= 1 /\ answered'[c] <= 1
  <2>1. S!Requests = Calls
    BY SystemAssumption DEF S!Requests
  <2> QED
    BY <2>1, SystemStep DEF CallInv, ServerInv, ServerTypes, S!AnsweredOnce
<1>1. \A c \in Calls : answered[c] > 0 => answered'[c] = 1
  BY <1>0, ServerHistory
<1>2. ASSUME NEW c \in Calls, Outcome(c)' = Outcome(c),
             Outcome(c)' \in {"ok", "SERVER_ERROR", "INVALID_RESPONSE"}
      PROVE  answered'[c] = 1 /\ (Outcome(c)' = "SERVER_ERROR" <=> c \in BadRequests)
  BY <1>0, <1>1, <1>2 DEF ResultWasAnswered
<1>3. ASSUME NEW c \in Calls, Told(c, SystemReplies),
             Outcome(c)' \in {"ok", "SERVER_ERROR", "INVALID_RESPONSE"}
      PROVE  answered'[c] = 1 /\ (Outcome(c)' = "SERVER_ERROR" <=> c \in BadRequests)
  <2>1. \A kind : Reply(c, kind) \in SystemReplies =>
          answered[c] > 0 /\ (kind = "error" <=> c \in BadRequests)
    BY DEF SystemReplies, Reply
  <2> QED
    BY <1>0, <1>1, <1>3, <2>1, ToldOutcome
<1>4. CASE UNCHANGED <<done, errorText, response>>
  BY <1>0, <1>2, <1>4, OutcomeKept DEF ResultWasAnswered
<1>5. ASSUME NEW c \in Calls, Told(c, SystemReplies)
      PROVE  ResultWasAnswered'
  <2>1. \A d \in Calls \ {c} : Outcome(d)' = Outcome(d)
    BY <1>0, <1>5, ToldOutcome
  <2> QED
    BY <1>2, <1>3, <1>5, <2>1 DEF ResultWasAnswered
<1> QED
  BY <1>0, <1>4, <1>5, TellStep

LEMMA SystemInvariant ==
  OneCaller /\ SystemSpec =>
    [](/\ CallInv /\ ServerInv /\ TakenInv /\ AnswersIn(SystemReplies)
       /\ ResultWasAnswered)
<1>1. SystemInit => AnswersIn(SystemReplies) /\ ResultWasAnswered
  <2>1. Init => AnswersIn(SystemReplies)
    <3> SUFFICES ASSUME Init, NEW b \in Bevs PROVE RepliesIn(input[b], SystemReplies)
      BY DEF AnswersIn
    <3>1. input[b] = <<>>
      BY DEF Init
    <3> QED
      BY <3>1 DEF RepliesIn
  <2>2. Init => ResultWasAnswered
    BY DEF Init, ResultWasAnswered, Outcome
  <2> QED
    BY <2>1, <2>2 DEF SystemInit
<1>2. /\ ChannelInv /\ CallInv /\ ServerInv /\ ServerInv'
      /\ AnswersIn(SystemReplies) /\ ResultWasAnswered /\ [SystemNext]_systemVars
      => AnswersIn(SystemReplies)' /\ ResultWasAnswered'
  BY RepliesNext, ResultNext
<1> QED
  BY <1>1, <1>2, TakenInvariant, SystemIsChannel, CallInvariant, PTL DEF SystemSpec

(* A result that is told, good or bad, is what the server answered.         *)
THEOREM ResultsAreAnswers == OneCaller /\ SystemSpec => []ResultWasAnswered
  BY SystemInvariant, PTL

(* The contract holds from end to end: channel, connections and server      *)
(* together implement RpcPromise.                                           *)
THEOREM EndToEndIsKept == OneCaller /\ SystemSpec => EndToEndPromise
<1>1. SystemInit => EndToEnd!PromiseInit
  <2>1. S!Init => from = [r \in Calls |-> NULL]
    BY SystemAssumption DEF S!Init, S!Requests
  <2> QED
    BY <2>1 DEF SystemInit, Init, EndToEnd!PromiseInit, Outcome, Taken
<1>2. /\ CallInv /\ ServerInv /\ TakenInv /\ AnswersIn(SystemReplies)
      /\ [SystemNext]_systemVars
      => [EndToEnd!PromiseNext]_(EndToEnd!promiseVars)
  BY EndToEndStep
<1> QED
  BY <1>1, <1>2, SystemInvariant, PTL
  DEF SystemSpec, EndToEndPromise, EndToEnd!PromiseSpec
=============================================================================
