------------------------------ MODULE RpcChannel ------------------------------
(***************************************************************************)
(* The client side of the RPC system: class RpcChannelImpl                 *)
(* (src/protobuf-libevent/RpcChannelImpl.cpp).                             *)
(*                                                                         *)
(* Application threads run CallMethod; one event-loop thread runs the      *)
(* libevent callbacks (connect, read, event and the three timers) and, in  *)
(* read_cb and request_time_cb, the application's done closures, which may *)
(* themselves call CallMethod.  A step is the code between two points at   *)
(* which another thread can be observed: a lock that may be contended, or  *)
(* a read or write of unprotected shared data.                             *)
(*                                                                         *)
(* The two caches are total functions on Ids, NULL where std::map has no   *)
(* entry.  m_request_cache_lock is never held across another lock, so its  *)
(* critical sections are single steps and it needs no variable.            *)
(***************************************************************************)
EXTENDS Naturals, Sequences

CONSTANTS
  Callers,     \* application threads
  Loop,        \* the thread started on RpcChannelImpl::worker
  AppCalls,    \* calls made by application threads
  LoopCalls,   \* calls made from inside done closures, on the loop thread
  NULL,
  MaxBev,      \* bound: bufferevents created; later creations fail
  MaxId,       \* bound: message ids handed out
  Expire       \* ticks of the clock that make the 12 s request timeout

Calls   == AppCalls \cup LoopCalls
Threads == Callers \cup {Loop}
Bevs    == 1..MaxBev
Ids     == 1..MaxId

ASSUME ChannelAssumption ==
  /\ Loop \notin Callers
  /\ NULL \notin Threads
  /\ NULL \notin Calls
  /\ NULL \notin Bevs
  /\ MaxBev \in Nat \ {0}
  /\ MaxId \in Nat \ {0}
  /\ Expire \in Nat \ {0}

Errors == {"none", "INVALID_RESPONSE", "SERVER_ERROR",
           "REQUEST_TIMEOUT", "NO_NETWORK"}
Chunks == [kind : {"header", "body"}, call : Calls]
            \cup [kind : {"heartbeat"}, call : {NULL}]
Replies == [call : Calls, kind : {"ok", "error", "unparsable"}]

CallPcs == {"increment", "stamp", "add_callback", "lock_bev",
            "add_header", "add_body", "read_id", "add_request"}
LoopPcs == {"poll", "set_bev", "lock_cache", "flush", "read", "clear_bev",
            "sweep", "erase"}

VARIABLES
  \* members of RpcChannelImpl
  m_id, m_bev, m_bev_lock, m_connect_timer,
  m_request_cache, m_callback_cache, m_callback_cache_lock,
  \* per thread: location, the call in progress, the value it read of m_id
  \* and the bufferevent send_no_lock took the output buffer of
  pc, cur, reg, out,
  \* the loop thread only: where a done closure returns to, the entry a
  \* sweep is at, and the calls past their timeout when the sweep began
  resume, sweeping, expired,
  \* libevent: state and pending events of each bufferevent, its buffers,
  \* and the one whose lock the running deferred callback holds
  link, events, output, input, bev_locked,
  \* requests each connection has carried to the peer, unanswered so far
  peer,
  \* each call: age of its callback_cache.tv, message id, RpcControllerImpl
  begun, age, msgid, canceled, errorText,
  \* history: whose answer was parsed into the response, how often done ran
  \* and how often the request was handed to a bufferevent
  response, done, sends

memberVars == <<m_id, m_bev, m_bev_lock, m_connect_timer,
                m_request_cache, m_callback_cache, m_callback_cache_lock>>
threadVars == <<pc, cur, reg, out>>
loopVars   == <<resume, sweeping, expired>>
bevVars    == <<link, events, output, input, bev_locked>>
callVars   == <<begun, age, msgid, canceled, errorText>>
histVars   == <<response, done, sends>>
vars == <<memberVars, threadVars, loopVars, bevVars, peer, callVars, histVars>>

-----------------------------------------------------------------------------
(* Helpers *)

Keys(map) == {k \in Ids : map[k] # NULL}

(* std::map::begin() is the smallest key. *)
IsFirst(map, k) == k \in Keys(map) /\ \A j \in Keys(map) : k <= j

(* std::map::find, NULL for end(). *)
Find(map, k) == IF k \in Ids THEN map[k] ELSE NULL

(* std::map::insert leaves an existing entry alone. *)
Insert(map, k, c) == IF map[k] = NULL THEN [map EXCEPT ![k] = c] ELSE map

Erase(map, k) == [map EXCEPT ![k] = NULL]

Header(c) == [kind |-> "header", call |-> c]
Body(c)   == [kind |-> "body", call |-> c]
Heartbeat == [kind |-> "heartbeat", call |-> NULL]

(* evbuffer_add takes the bufferevent's own recursive lock, which a         *)
(* deferred callback of that bufferevent holds while it runs.               *)
CanWrite(t, b) == bev_locked # b \/ t = Loop

Goto(t, label) == pc' = [pc EXCEPT ![t] = label]

(* Calls whose callback_cache.tv has been taken and is still of use. *)
Timed == {c \in Calls : \E k \in Ids : m_callback_cache[k] = c}
           \cup {cur[t] : t \in {u \in Threads : pc[u] = "add_callback"}}

(* CHANNEL_BEV_LOCK does not block: no other thread has m_bev_lock, and the *)
(* calling one never has it already.                                        *)
BevLockIgnored == TRUE    \* mutant: libevent's threading was not set up
BevLockFree == m_bev_lock = NULL

(* del_request_cache and del_request_cache_first. *)
DelRequestFinds(k) == UNCHANGED m_request_cache  \* mutant: has_request_cache
DelRequest(k) == m_request_cache' = Erase(m_request_cache, k)

(* del_callback_cache, and the erase at the end of guess_callback_cache. *)
DelCallbackFinds(k) == UNCHANGED m_callback_cache  \* mutant: copied, not erased
DelCallback(k) == m_callback_cache' = Erase(m_callback_cache, k)

Failed(c) == errorText[c] # "none"

-----------------------------------------------------------------------------
(* The constructor: no connection yet, one connect in progress, m_id 0. *)

Init ==
  /\ m_id = 0
  /\ m_bev = NULL
  /\ m_bev_lock = NULL
  /\ m_connect_timer = FALSE
  /\ m_request_cache = [k \in Ids |-> NULL]
  /\ m_callback_cache = [k \in Ids |-> NULL]
  /\ m_callback_cache_lock = NULL
  /\ pc = [t \in Threads |-> IF t = Loop THEN "poll" ELSE "idle"]
  /\ cur = [t \in Threads |-> NULL]
  /\ reg = [t \in Threads |-> 0]
  /\ out = [t \in Threads |-> NULL]
  /\ resume = "poll" /\ sweeping = 1 /\ expired = {}
  /\ link = [b \in Bevs |-> IF b = 1 THEN "connecting" ELSE "unused"]
  /\ events = [b \in Bevs |-> {}]
  /\ output = [b \in Bevs |-> <<>>]
  /\ input = [b \in Bevs |-> <<>>]
  /\ bev_locked = NULL
  /\ peer = [b \in Bevs |-> {}]
  /\ begun = {}
  /\ age = [c \in Calls |-> 0]
  /\ msgid = [c \in Calls |-> 0]
  /\ canceled = [c \in Calls |-> FALSE]
  /\ errorText = [c \in Calls |-> "none"]
  /\ response = [c \in Calls |-> NULL]
  /\ done = [c \in Calls |-> 0]
  /\ sends = [c \in Calls |-> 0]

-----------------------------------------------------------------------------
(* CallMethod, on thread t.  ++m_id is a load and a store with no lock, and *)
(* both caches are keyed by m_id as it is when they are reached, not by the *)
(* id that was put in the message.                                          *)

Enter(t, c) ==
  /\ c \notin begun
  /\ begun' = begun \cup {c}
  /\ cur' = [cur EXCEPT ![t] = c]
  /\ reg' = [reg EXCEPT ![t] = m_id]

Return(t) ==
  /\ Goto(t, IF t = Loop THEN resume ELSE "idle")
  /\ cur' = [cur EXCEPT ![t] = NULL]
  /\ out' = [out EXCEPT ![t] = NULL]

Begin(t, c) ==
  /\ pc[t] = "idle"
  /\ Enter(t, c)
  /\ Goto(t, "increment")
  /\ UNCHANGED <<memberVars, out, loopVars, bevVars, peer,
                 age, msgid, canceled, errorText, histVars>>

MessageIdBefore(t) == reg[t]    \* mutant: message.set_id(m_id++)
MessageId(t) == reg[t] + 1

Increment(t) ==
  /\ pc[t] = "increment"
  /\ reg[t] < MaxId
  /\ m_id' = reg[t] + 1
  /\ msgid' = [msgid EXCEPT ![cur[t]] = MessageId(t)]
  /\ Goto(t, "stamp")
  /\ UNCHANGED <<m_bev, m_bev_lock, m_connect_timer, m_request_cache,
                 m_callback_cache, m_callback_cache_lock, cur, reg, out,
                 loopVars, bevVars, peer, begun, age, canceled, errorText,
                 histVars>>

(* The time is taken and m_id read again, for the wait for the lock.        *)
Stamp(t) ==
  /\ pc[t] = "stamp"
  /\ age' = [age EXCEPT ![cur[t]] = 0]
  /\ reg' = [reg EXCEPT ![t] = m_id]
  /\ Goto(t, "add_callback")
  /\ UNCHANGED <<memberVars, cur, out, loopVars, bevVars, peer,
                 begun, msgid, canceled, errorText, histVars>>

AddCallback(t) ==
  /\ pc[t] = "add_callback"
  /\ m_callback_cache_lock \in {NULL, t}
  /\ m_callback_cache' = Insert(m_callback_cache, reg[t], cur[t])
  /\ Goto(t, "lock_bev")
  /\ UNCHANGED <<m_id, m_bev, m_bev_lock, m_connect_timer, m_request_cache,
                 m_callback_cache_lock, cur, reg, out, loopVars, bevVars,
                 peer, callVars, histVars>>

(* Mutant: CHANNEL_BEV_UNLOCK left out of the else branch. *)
CheckBevKeepsLock(t) ==
  /\ pc[t] = "lock_bev"
  /\ BevLockFree
  /\ m_bev_lock' = t
  /\ Goto(t, IF m_bev # NULL THEN "add_header" ELSE "read_id")
  /\ UNCHANGED <<m_id, m_bev, m_connect_timer, m_request_cache,
                 m_callback_cache, m_callback_cache_lock, cur, reg, out,
                 loopVars, bevVars, peer, callVars, histVars>>

(* The lock is kept for the send, or released at once when there is no bev. *)
CheckBev(t) ==
  /\ pc[t] = "lock_bev"
  /\ BevLockFree
  /\ IF m_bev # NULL
       THEN m_bev_lock' = t /\ Goto(t, "add_header")
       ELSE m_bev_lock' = NULL /\ Goto(t, "read_id")
  /\ UNCHANGED <<m_id, m_bev, m_connect_timer, m_request_cache,
                 m_callback_cache, m_callback_cache_lock, cur, reg, out,
                 loopVars, bevVars, peer, callVars, histVars>>

AddHeader(t) ==
  /\ pc[t] = "add_header"
  /\ CanWrite(t, m_bev)
  /\ out' = [out EXCEPT ![t] = m_bev]
  /\ output' = [output EXCEPT ![m_bev] = Append(@, Header(cur[t]))]
  /\ Goto(t, "add_body")
  /\ UNCHANGED <<memberVars, cur, reg, loopVars, link, events, input,
                 bev_locked, peer, callVars, histVars>>

AddBody(t) ==
  /\ pc[t] = "add_body"
  /\ CanWrite(t, out[t])
  /\ output' = [output EXCEPT ![out[t]] = Append(@, Body(cur[t]))]
  /\ sends' = [sends EXCEPT ![cur[t]] = @ + 1]
  /\ m_bev_lock' = NULL
  /\ Return(t)
  /\ UNCHANGED <<m_id, m_bev, m_connect_timer, m_request_cache,
                 m_callback_cache, m_callback_cache_lock, reg, loopVars,
                 link, events, input, bev_locked, peer, callVars,
                 response, done>>

(* m_id is read a third time, for the wait for m_request_cache_lock.        *)
ReadId(t) ==
  /\ pc[t] = "read_id"
  /\ reg' = [reg EXCEPT ![t] = m_id]
  /\ Goto(t, "add_request")
  /\ UNCHANGED <<memberVars, cur, out, loopVars, bevVars, peer, callVars,
                 histVars>>

AddRequest(t) ==
  /\ pc[t] = "add_request"
  /\ m_request_cache' = Insert(m_request_cache, reg[t], cur[t])
  /\ Return(t)
  /\ UNCHANGED <<m_id, m_bev, m_bev_lock, m_connect_timer, m_callback_cache,
                 m_callback_cache_lock, reg, loopVars, bevVars, peer,
                 callVars, histVars>>

CallMethodStep(t) ==
  \/ Increment(t) \/ Stamp(t) \/ AddCallback(t) \/ CheckBev(t)
  \/ AddHeader(t) \/ AddBody(t) \/ ReadId(t) \/ AddRequest(t)

-----------------------------------------------------------------------------
(* Closure::Run on the loop thread, for call c.  The closure may itself     *)
(* make a call, which runs to its end before control is back at label.      *)

RunUnlessCanceled(c, label) ==  \* mutant: returns early for a canceled call
  /\ done' = IF canceled[c] THEN done ELSE [done EXCEPT ![c] = @ + 1]
  /\ Goto(Loop, label)
  /\ UNCHANGED <<begun, cur, reg, resume>>

Run(c, label) ==
  /\ done' = [done EXCEPT ![c] = @ + 1]
  /\ \/ /\ Goto(Loop, label)
        /\ UNCHANGED <<begun, cur, reg, resume>>
     \/ \E n \in LoopCalls :
          /\ Enter(Loop, n)
          /\ Goto(Loop, "increment")
          /\ resume' = label

(* event_cb with BEV_EVENT_CONNECTED, run with the lock of b held (the      *)
(* bufferevent is created without BEV_OPT_UNLOCK_CALLBACKS).                *)
ConnectedCb(b) ==
  /\ pc[Loop] = "poll"
  /\ "CONNECTED" \in events[b]
  /\ events' = [events EXCEPT ![b] = @ \ {"CONNECTED"}]
  /\ bev_locked' = b
  /\ Goto(Loop, "set_bev")
  /\ UNCHANGED <<memberVars, cur, reg, out, loopVars, link, output, input,
                 peer, callVars, histVars>>

SetBev ==
  /\ pc[Loop] = "set_bev"
  /\ BevLockFree
  /\ m_bev' = bev_locked
  /\ Goto(Loop, "lock_cache")
  /\ UNCHANGED <<m_id, m_bev_lock, m_connect_timer, m_request_cache,
                 m_callback_cache, m_callback_cache_lock, cur, reg, out,
                 loopVars, bevVars, peer, callVars, histVars>>

(* send_request_cache: m_bev_lock is taken anew and kept for the whole loop. *)
SendCacheLock ==
  /\ pc[Loop] = "lock_cache"
  /\ BevLockFree
  /\ m_bev_lock' = Loop
  /\ Goto(Loop, "flush")
  /\ UNCHANGED <<m_id, m_bev, m_connect_timer, m_request_cache,
                 m_callback_cache, m_callback_cache_lock, cur, reg, out,
                 loopVars, bevVars, peer, callVars, histVars>>

FlushOne ==
  /\ pc[Loop] = "flush"
  /\ m_bev # NULL
  /\ \E k \in Ids :
       LET c == m_request_cache[k] IN
       /\ IsFirst(m_request_cache, k)
       /\ DelRequest(k)
       /\ output' = [output EXCEPT ![m_bev] = @ \o <<Header(c), Body(c)>>]
       /\ sends' = [sends EXCEPT ![c] = @ + 1]
  /\ UNCHANGED <<m_id, m_bev, m_bev_lock, m_connect_timer, m_callback_cache,
                 m_callback_cache_lock, threadVars, loopVars, link, events,
                 input, bev_locked, peer, callVars, response, done>>

FlushEnd ==
  /\ pc[Loop] = "flush"
  /\ m_bev = NULL \/ Keys(m_request_cache) = {}
  /\ m_bev_lock' = NULL
  /\ bev_locked' = NULL
  /\ Goto(Loop, "poll")
  /\ UNCHANGED <<m_id, m_bev, m_connect_timer, m_request_cache,
                 m_callback_cache, m_callback_cache_lock, cur, reg, out,
                 loopVars, link, events, output, input, peer, callVars,
                 histVars>>

(* read_cb: the deferred callback takes the lock of b; whole replies are    *)
(* in the input buffer.  CONNECTED is always delivered before.              *)
ReadCb(b) ==
  /\ pc[Loop] = "poll"
  /\ link[b] # "freed" /\ "CONNECTED" \notin events[b]
  /\ input[b] # <<>>
  /\ bev_locked' = b
  /\ Goto(Loop, "read")
  /\ UNCHANGED <<memberVars, cur, reg, out, loopVars, link, events, output,
                 input, peer, callVars, histVars>>

(* decode: a reply whose id is not in m_callback_cache is dropped; else the *)
(* entry is removed, the result stored unless the call is canceled, and the *)
(* closure run.                                                             *)
ReplyKeyOldest(r) ==  \* mutant: replies taken to come in the order of requests
  IF \E k \in Ids : IsFirst(m_callback_cache, k)
    THEN CHOOSE k \in Ids : IsFirst(m_callback_cache, k)
    ELSE msgid[r.call]
ReplyKey(r) == msgid[r.call]

Decode ==
  /\ pc[Loop] = "read"
  /\ input[bev_locked] # <<>>
  /\ m_callback_cache_lock = NULL
  /\ input' = [input EXCEPT ![bev_locked] = Tail(@)]
  /\ LET r == Head(input[bev_locked])
         k == ReplyKey(r)
         c == Find(m_callback_cache, k)
     IN  IF c = NULL
           THEN UNCHANGED <<m_callback_cache, pc, cur, reg, resume, begun,
                            errorText, response, done>>
           ELSE /\ DelCallback(k)
                /\ response' = IF ~canceled[c] /\ r.kind = "ok"
                                 THEN [response EXCEPT ![c] = r.call]
                                 ELSE response
                /\ errorText' =
                     IF canceled[c] \/ r.kind = "ok" THEN errorText
                     ELSE [errorText EXCEPT ![c] =
                             IF r.kind = "error" THEN "SERVER_ERROR"
                                                 ELSE "INVALID_RESPONSE"]
                /\ Run(c, "read")
  /\ UNCHANGED <<m_id, m_bev, m_bev_lock, m_connect_timer, m_request_cache,
                 m_callback_cache_lock, out, sweeping, expired, link, events,
                 output, bev_locked, peer, age, msgid, canceled, sends>>

ReadEnd ==
  /\ pc[Loop] = "read"
  /\ input[bev_locked] = <<>>
  /\ bev_locked' = NULL
  /\ Goto(Loop, "poll")
  /\ UNCHANGED <<memberVars, cur, reg, out, loopVars, link, events, output,
                 input, peer, callVars, histVars>>

(* event_cb with EOF, ERROR or TIMEOUT, delivered after CONNECTED and after *)
(* what was read before the failure.                                        *)
ErrorCb(b) ==
  /\ pc[Loop] = "poll"
  /\ events[b] = {"ERROR"}
  /\ input[b] = <<>>
  /\ events' = [events EXCEPT ![b] = {}]
  /\ bev_locked' = b
  /\ Goto(Loop, "clear_bev")
  /\ UNCHANGED <<memberVars, cur, reg, out, loopVars, link, output, input,
                 peer, callVars, histVars>>

RearmForgotten == UNCHANGED m_connect_timer  \* mutant: evtimer_add left out
Rearm == m_connect_timer' = TRUE

(* m_bev is cleared under its lock; then bufferevent_free, which drops the  *)
(* output, and evtimer_add(m_connect_timer).                                *)
ClearBev ==
  /\ pc[Loop] = "clear_bev"
  /\ BevLockFree
  /\ m_bev' = NULL
  /\ link' = [link EXCEPT ![bev_locked] = "freed"]
  /\ output' = [output EXCEPT ![bev_locked] = <<>>]
  /\ Rearm
  /\ bev_locked' = NULL
  /\ Goto(Loop, "poll")
  /\ UNCHANGED <<m_id, m_bev_lock, m_request_cache, m_callback_cache,
                 m_callback_cache_lock, cur, reg, out, loopVars, events,
                 input, peer, callVars, histVars>>

(* connect_time_cb: a failed create_bufferevent_socket arms the timer again *)
(* and changes nothing else; a new bufferevent has no one-shot timer left.  *)
ConnectTimerCb ==
  /\ pc[Loop] = "poll"
  /\ m_connect_timer
  /\ \/ UNCHANGED <<link, m_connect_timer>>
     \/ \E b \in Bevs :
          /\ link[b] = "unused"
          /\ \A a \in 1..(b - 1) : link[a] # "unused"
          /\ link' = [link EXCEPT ![b] = "connecting"]
          /\ m_connect_timer' = FALSE
  /\ UNCHANGED <<m_id, m_bev, m_bev_lock, m_request_cache, m_callback_cache,
                 m_callback_cache_lock, threadVars, loopVars, events, output,
                 input, bev_locked, peer, callVars, histVars>>

(* heartbeat_time_cb.  Bound: one heartbeat at a time in a buffer.          *)
HeartbeatCb ==
  /\ pc[Loop] = "poll"
  /\ BevLockFree
  /\ m_bev # NULL
  /\ \A i \in 1..Len(output[m_bev]) : output[m_bev][i] # Heartbeat
  /\ output' = [output EXCEPT ![m_bev] = Append(@, Heartbeat)]
  /\ UNCHANGED <<memberVars, threadVars, loopVars, link, events, input,
                 bev_locked, peer, callVars, histVars>>

(* request_time_cb, guess_callback_cache: the time is read, then            *)
(* m_callback_cache_lock is taken and kept through the sweep.               *)
RequestTimerCb ==
  /\ pc[Loop] = "poll"
  /\ m_callback_cache_lock = NULL
  /\ m_callback_cache_lock' = Loop
  /\ expired' = {c \in Timed : age[c] >= Expire}
  /\ Goto(Loop, "sweep")
  /\ UNCHANGED <<m_id, m_bev, m_bev_lock, m_connect_timer, m_request_cache,
                 m_callback_cache, cur, reg, out, resume, sweeping, bevVars,
                 peer, callVars, histVars>>

(* There is an entry, and the first, in id order, is to be given up. *)
IsOver(k) ==
  /\ IsFirst(m_callback_cache, k)
  /\ canceled[m_callback_cache[k]] \/ m_callback_cache[k] \in expired

GivenUpUnknown(k) == "UNKNOWN"         \* mutant: falls off error_str_table
GivenUpNoNetwork(k) == "NO_NETWORK"    \* mutant: the two errors merged
GivenUpOneOff(k) ==          \* mutant: error_str_table read one place too low
  IF m_request_cache[k] # NULL THEN "REQUEST_TIMEOUT" ELSE "INVALID_RESPONSE"
GivenUp(k) == IF m_request_cache[k] # NULL THEN "NO_NETWORK"
                                           ELSE "REQUEST_TIMEOUT"

(* The entry stays in the map while its closure runs.                       *)
Sweep ==
  /\ pc[Loop] = "sweep"
  /\ \E k \in Ids :
       LET c == m_callback_cache[k] IN
       /\ IsOver(k)
       /\ sweeping' = k
       /\ DelRequest(k)
       /\ errorText' = IF canceled[c] THEN errorText
                        ELSE [errorText EXCEPT ![c] = GivenUp(k)]
       /\ Run(c, "erase")
  /\ UNCHANGED <<m_id, m_bev, m_bev_lock, m_connect_timer, m_callback_cache,
                 m_callback_cache_lock, out, expired, bevVars, peer, age,
                 msgid, canceled, response, sends>>

EraseSwept ==
  /\ pc[Loop] = "erase"
  /\ DelCallback(sweeping)
  /\ Goto(Loop, "sweep")
  /\ UNCHANGED <<m_id, m_bev, m_bev_lock, m_connect_timer, m_request_cache,
                 m_callback_cache_lock, cur, reg, out, loopVars, bevVars,
                 peer, callVars, histVars>>

(* The sweep stops at the first entry that is not over.                     *)
SweepEnd ==
  /\ pc[Loop] = "sweep"
  /\ \A k \in Ids : ~IsOver(k)
  /\ m_callback_cache_lock' = NULL
  /\ expired' = {}
  /\ Goto(Loop, "poll")
  /\ UNCHANGED <<m_id, m_bev, m_bev_lock, m_connect_timer, m_request_cache,
                 m_callback_cache, cur, reg, out, resume, sweeping, bevVars,
                 peer, callVars, histVars>>

-----------------------------------------------------------------------------
(* The application cancels, the clock ticks, and the network and the server *)
(* at the other end do what they can do.                                    *)

Cancel(c) ==
  /\ c \in begun /\ done[c] = 0 /\ ~canceled[c]
  /\ canceled' = [canceled EXCEPT ![c] = TRUE]
  /\ UNCHANGED <<memberVars, threadVars, loopVars, bevVars, peer, begun, age,
                 msgid, errorText, histVars>>

Tick ==
  /\ \E c \in Timed : age[c] < Expire
  /\ age' = [c \in Calls |-> IF c \in Timed /\ age[c] < Expire
                               THEN age[c] + 1 ELSE age[c]]
  /\ UNCHANGED <<memberVars, threadVars, loopVars, bevVars, peer, begun,
                 msgid, canceled, errorText, histVars>>

ConnectOk(b) ==
  /\ link[b] = "connecting"
  /\ link' = [link EXCEPT ![b] = "open"]
  /\ events' = [events EXCEPT ![b] = @ \cup {"CONNECTED"}]
  /\ UNCHANGED <<memberVars, threadVars, loopVars, output, input, bev_locked,
                 peer, callVars, histVars>>

(* Refused, closed by the peer, reset, or silent for 30 s (tv_read).        *)
ConnectionLost(b) ==
  /\ link[b] \in {"connecting", "open"}
  /\ link' = [link EXCEPT ![b] = "lost"]
  /\ events' = [events EXCEPT ![b] = @ \cup {"ERROR"}]
  /\ peer' = [peer EXCEPT ![b] = {}]
  /\ UNCHANGED <<memberVars, threadVars, loopVars, output, input, bev_locked,
                 callVars, histVars>>

PeerReceive(b) ==
  /\ link[b] = "open"
  /\ output[b] # <<>>
  /\ \/ /\ Head(output[b]) = Heartbeat
        /\ output' = [output EXCEPT ![b] = Tail(@)]
        /\ UNCHANGED peer
     \/ /\ Len(output[b]) > 1 /\ Head(output[b]).kind = "header"
        /\ output' = [output EXCEPT ![b] = Tail(Tail(@))]
        /\ peer' = [peer EXCEPT ![b] = @ \cup {Head(output[b]).call}]
  /\ UNCHANGED <<memberVars, threadVars, loopVars, link, events, input,
                 bev_locked, callVars, histVars>>

PeerReply(b, r) ==
  /\ link[b] = "open"
  /\ r.call \in peer[b]
  /\ peer' = [peer EXCEPT ![b] = @ \ {r.call}]
  /\ input' = [input EXCEPT ![b] = Append(@, r)]
  /\ UNCHANGED <<memberVars, threadVars, loopVars, link, events, output,
                 bev_locked, callVars, histVars>>

-----------------------------------------------------------------------------

(* What the loop thread does inside a callback it has begun. *)
CallbackStep ==
  \/ SetBev \/ SendCacheLock \/ FlushOne \/ FlushEnd
  \/ Decode \/ ReadEnd \/ ClearBev
  \/ Sweep \/ EraseSwept \/ SweepEnd

Environment ==
  \/ \E c \in Calls : Cancel(c)
  \/ Tick
  \/ \E b \in Bevs : ConnectOk(b) \/ ConnectionLost(b) \/ PeerReceive(b)
  \/ \E b \in Bevs : \E r \in Replies : PeerReply(b, r)

Next ==
  \/ \E t \in Callers : \E c \in AppCalls : Begin(t, c)
  \/ \E t \in Threads : CallMethodStep(t)
  \/ \E b \in Bevs : ConnectedCb(b) \/ ReadCb(b) \/ ErrorCb(b)
  \/ ConnectTimerCb \/ HeartbeatCb \/ RequestTimerCb
  \/ CallbackStep
  \/ Environment

Spec == Init /\ [][Next]_vars

(* Threads are scheduled and get the locks they wait for, the request timer *)
(* is always re-armed and served again, and time passes.                    *)
TimerFairness ==
  /\ \A t \in Callers : SF_vars(CallMethodStep(t))
  /\ SF_vars(CallbackStep \/ CallMethodStep(Loop))
  /\ SF_vars(RequestTimerCb)
  /\ WF_vars(Tick)

(* The event loop also serves the callbacks of a bufferevent.               *)
EventFairness ==
  \A b \in Bevs : SF_vars(ConnectedCb(b) \/ ReadCb(b) \/ ErrorCb(b))

(* Nothing is assumed of the network, of the server, or of the application  *)
(* making more calls.                                                       *)
TimerSpec == Spec /\ TimerFairness
FairSpec == TimerSpec /\ EventFairness

-----------------------------------------------------------------------------
(* Properties *)

(* Every variable of the channel stays in its type. *)
TypeOK ==
  /\ m_id \in 0..MaxId
  /\ m_bev \in Bevs \cup {NULL}
  /\ m_bev_lock \in Threads \cup {NULL}
  /\ m_connect_timer \in BOOLEAN
  /\ m_request_cache \in [Ids -> Calls \cup {NULL}]
  /\ m_callback_cache \in [Ids -> Calls \cup {NULL}]
  /\ m_callback_cache_lock \in {Loop, NULL}
  /\ pc \in [Threads -> CallPcs \cup LoopPcs \cup {"idle"}]
  /\ cur \in [Threads -> Calls \cup {NULL}]
  /\ reg \in [Threads -> 0..MaxId]
  /\ out \in [Threads -> Bevs \cup {NULL}]
  /\ resume \in {"poll", "read", "erase"}
  /\ sweeping \in Ids
  /\ expired \in SUBSET Calls
  /\ link \in [Bevs -> {"unused", "connecting", "open", "lost", "freed"}]
  /\ events \in [Bevs -> SUBSET {"CONNECTED", "ERROR"}]
  /\ output \in [Bevs -> Seq(Chunks)]
  /\ input \in [Bevs -> Seq(Replies)]
  /\ bev_locked \in Bevs \cup {NULL}
  /\ peer \in [Bevs -> SUBSET Calls]
  /\ begun \in SUBSET Calls
  /\ age \in [Calls -> 0..Expire]
  /\ msgid \in [Calls -> 0..MaxId]
  /\ canceled \in [Calls -> BOOLEAN]
  /\ errorText \in [Calls -> Errors]
  /\ response \in [Calls -> Calls \cup {NULL}]
  /\ done \in [Calls -> Nat]
  /\ sends \in [Calls -> Nat]

(* The closure of a call runs at most once, whatever the order of reply,    *)
(* timeout and cancellation: it deletes the controller, the messages and    *)
(* itself (main.cpp DoneCallback), so a second run would be on freed memory.*)
DoneOnce == \A c \in Calls : done[c] <= 1

(* An entry of m_callback_cache whose closure has run holds dangling        *)
(* pointers.  Only the sweep leaves one there, at the entry it is at, while *)
(* it still holds the lock.                                                 *)
NoStaleEntry ==
  \A k \in Ids :
    m_callback_cache[k] # NULL /\ done[m_callback_cache[k]] > 0 =>
      /\ k = sweeping
      /\ m_callback_cache_lock = Loop
      /\ \/ pc[Loop] = "erase"
         \/ pc[Loop] \in CallPcs /\ resume = "erase"

(* No thread writes to a bufferevent event_cb has freed: m_bev never points *)
(* to one, nor does the buffer a half-done send_no_lock is writing to.      *)
NoUseAfterFree ==
  /\ m_bev # NULL => link[m_bev] \in {"open", "lost"}
  /\ \A t \in Threads : pc[t] = "add_body" => link[out[t]] # "freed"

(* A packet is two evbuffer_add calls.  Headers and bodies of different     *)
(* messages, and heartbeats, never interleave in an output buffer.          *)
FramesWhole ==
  \A b \in Bevs : \A i \in 1..Len(output[b]) :
    LET f == output[b][i] IN
    /\ f.kind = "header" =>
         IF i < Len(output[b])
           THEN output[b][i + 1] = Body(f.call)
           ELSE \E t \in Threads : /\ pc[t] = "add_body"
                                   /\ out[t] = b /\ cur[t] = f.call
    /\ f.kind = "body" => i > 1 /\ output[b][i - 1] = Header(f.call)

LiveBevs == {b \in Bevs : link[b] \in {"connecting", "open", "lost"}}

(* There is one connection attempt or connection, or else the reconnect     *)
(* timer is armed: reconnecting is neither lost nor doubled.                *)
ReconnectArmed ==
  /\ \A a, b \in LiveBevs : a = b
  /\ m_connect_timer <=> LiveBevs = {}

Cached(c) == \E k \in Ids : m_request_cache[k] = c

(* A request reaches a connection at most once and is not also waiting to   *)
(* be sent: direct send and flush after a reconnect never both take it.     *)
SentOnce ==
  \A c \in Calls : sends[c] <= 1 /\ (sends[c] = 1 => ~Cached(c))

(* A response is only ever filled from the answer to its own request.       *)
OwnReply == \A c \in Calls : response[c] \in {c, NULL}

(* As long as the closure has not run, a request handed to a connection or  *)
(* waiting for one is registered under the id its message carries, so that  *)
(* its answer will be recognised.                                           *)
RegisteredBeforeSent ==
  \A c \in Calls :
    (sends[c] > 0 \/ Cached(c)) /\ done[c] = 0 =>
      msgid[c] \in Ids /\ m_callback_cache[msgid[c]] = c

(* No entry is taken out of m_callback_cache, or replaced, without its      *)
(* closure being run.                                                       *)
NoCallbackDropped ==
  [][\A k \in Ids : m_callback_cache[k] \notin {NULL, m_callback_cache'[k]} =>
       done'[m_callback_cache[k]] > 0]_vars

(* The controller and the response are not written once done has run.       *)
NoWriteAfterDone ==
  [][\A c \in Calls : done[c] > 0 =>
       errorText'[c] = errorText[c] /\ response'[c] = response[c]]_vars

(* What the closure of a call found in its controller and response when it  *)
(* ran; "mixed" would be a response filled from another call's answer.      *)
Outcome(c) ==
  CASE done[c] = 0                               -> "none"
    [] done[c] > 0 /\ canceled[c]                -> "canceled"
    [] done[c] > 0 /\ ~canceled[c] /\ Failed(c)  -> errorText[c]
    [] OTHER            -> IF response[c] = c THEN "ok" ELSE "mixed"

Promise == INSTANCE RpcPromise WITH
  delivered <- sends,
  outcome <- [c \in Calls |-> Outcome(c)]

(* The channel implements RpcPromise: one delivery and one completion at    *)
(* most, in an order that makes the reported outcome true.                  *)
PromiseKept == Promise!PromiseSpec

(* The two threads wait for each other: a caller in send_no_lock holds      *)
(* m_bev_lock and needs the bufferevent's lock, which a callback on the     *)
(* loop thread holds while it waits for m_bev_lock.                         *)
LockCycle ==
  \E t \in Callers :
    /\ pc[t] \in {"add_header", "add_body"}
    /\ bev_locked = m_bev
    /\ pc[Loop] \in {"lock_cache", "clear_bev", "lock_bev"}

(* The thread that has the lock t wants, NULL if t wants none or can have it. *)
WaitsFor(t) ==
  CASE pc[t] \in {"lock_bev", "set_bev", "lock_cache", "clear_bev"} ->
         m_bev_lock
    [] pc[t] \in {"add_callback", "read"} /\ m_callback_cache_lock # t ->
         m_callback_cache_lock
    [] pc[t] = "add_header" /\ ~CanWrite(t, m_bev) -> Loop
    [] pc[t] = "add_body" /\ ~CanWrite(t, out[t]) -> Loop
    [] OTHER -> NULL

Working(t) == pc[t] \notin {"idle", "poll"} /\ WaitsFor(t) = NULL

(* That cycle is the one deadlock there is, for any number of callers and   *)
(* with closures that make calls: else whoever waits for a lock waits for a *)
(* thread that works, or for one that waits for a thread that works.        *)
OnlyLockCycle ==
  LockCycle \/
  \A t \in Threads :
    LET u == WaitsFor(t) IN
    u # NULL => \E w \in {u, WaitsFor(u)} \ {NULL} : Working(w)

(* Every call's closure is eventually run, whatever the server and the      *)
(* network do, unless the two threads are in that cycle.                    *)
DoneUnlessLockCycle ==
  \A c \in Calls : c \in begun ~> (done[c] > 0 \/ LockCycle)

(* A connection that failed is given up in the end (ReconnectArmed says     *)
(* what follows it), if the callbacks of bufferevents are served and unless *)
(* the two threads are in that cycle.                                       *)
LostIsReplaced ==
  EventFairness =>
    \A b \in Bevs : link[b] = "lost" ~> (link[b] = "freed" \/ LockCycle)

-----------------------------------------------------------------------------
(* What documents and comments of the repository say, and the code does not *)
(* do: each is checked by a run that finds it violated.                     *)

(* service.h: "done" will be called when the method is complete, and also   *)
(* when the call is canceled.                                               *)
DoneCalled == \A c \in Calls : c \in begun ~> done[c] > 0

(* CallMethod: the request waits for the network to be reconnected and is   *)
(* then sent.  So none waits once the flush after a connect is over.        *)
CachedOnlyOffline ==
  m_bev # NULL /\ pc[Loop] \notin {"lock_cache", "flush"} =>
    \A c \in Calls : ~Cached(c)

(* CallMethod: a request waiting for the network is removed when it times   *)
(* out; guess_callback_cache: canceled, deleted from the request cache.     *)
GivenUpNotCached == \A c \in Calls : done[c] > 0 => ~Cached(c)

(* service.h: if the call is canceled, the controller will indicate that    *)
(* the call failed when "done" is called.                                   *)
CanceledIndicatesFailure ==
  \A c \in Calls : done[c] > 0 /\ canceled[c] => Failed(c)
=============================================================================
