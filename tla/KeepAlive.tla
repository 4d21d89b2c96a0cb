------------------------------- MODULE KeepAlive -------------------------------
(***************************************************************************)
(* The time a connection lives without calls.  The channel sends a          *)
(* heartbeat every HEARTBEAT, the server sends it back, and each end has a  *)
(* read timeout of READ after which its event_cb frees the bufferevent      *)
(* (RpcChannelImpl.cpp, RpcServer.cpp).  Calls only add to the traffic.     *)
(*                                                                         *)
(* The network may be interrupted once, shortly or for ever; TCP keeps what *)
(* is on its way.  This is one connection from the moment it is made: the   *)
(* reconnect that follows is in RpcChannel.                                 *)
(***************************************************************************)
EXTENDS Naturals

CONSTANTS
  HEARTBEAT,  \* tv_heartbeat
  READ,       \* tv_read of both files
  DELAY,      \* bound: time on the way, from one loop into the other
  LAG         \* bound: how late a loop comes to a timer that is due

ASSUME KeepAliveAssumption ==
  /\ {HEARTBEAT, READ} \subseteq Nat \ {0} /\ {DELAY, LAG} \subseteq Nat
  /\ HEARTBEAT + LAG + 2 * DELAY < READ

SPARE == READ - (HEARTBEAT + LAG + 2 * DELAY)

VARIABLES
  network,      \* "up", "cut", or "healed" after that
  lost,         \* history: how long it was cut
  client, server,           \* state of the bufferevent of each end
  clientQuiet, serverQuiet, \* time since each end read something
  beat,         \* time since the heartbeat timer was armed
  toServer, toClient        \* heartbeats on their way: how long they are

vars == <<network, lost, client, server, clientQuiet, serverQuiet, beat,
          toServer, toClient>>

Init ==
  /\ network = "up" /\ lost = 0
  /\ client = "open" /\ server = "open"
  /\ clientQuiet = 0 /\ serverQuiet = 0
  /\ beat \in 0..HEARTBEAT
  /\ toServer = {} /\ toClient = {}

Cut ==
  /\ network = "up"
  /\ network' = "cut"
  /\ UNCHANGED <<lost, client, server, clientQuiet, serverQuiet, beat, toServer,
                 toClient>>

Heal ==
  /\ network = "cut"
  /\ network' = "healed"
  /\ UNCHANGED <<lost, client, server, clientQuiet, serverQuiet, beat, toServer,
                 toClient>>

(* Time stops for what is on its way while the network is cut.              *)
Travel(ages) == IF network = "cut" THEN ages ELSE {a + 1 : a \in ages}
OnTime(ages) == network # "cut" => \A a \in ages : a < DELAY

(* What is sent to an end that is closed is thrown away.                    *)
Send(ages, end) == IF end = "open" THEN ages \cup {0} ELSE ages

Period == HEARTBEAT

ClientDueUp == client = "open" /\ clientQuiet >= READ /\ network # "cut"
                     \* mutant: the client relies on being told
ClientDue == client = "open" /\ clientQuiet >= READ
ServerDue == server = "open" /\ serverQuiet >= READ

Tick ==
  /\ OnTime(toServer) /\ OnTime(toClient)
  /\ beat < Period + LAG
  /\ ClientDue => clientQuiet < READ + LAG
  /\ ServerDue => serverQuiet < READ + LAG
  /\ lost' = IF network = "cut" /\ lost <= READ + LAG THEN lost + 1 ELSE lost
  /\ clientQuiet' = IF client = "open" THEN clientQuiet + 1 ELSE clientQuiet
  /\ serverQuiet' = IF server = "open" THEN serverQuiet + 1 ELSE serverQuiet
  /\ beat' = beat + 1
  /\ toServer' = Travel(toServer) /\ toClient' = Travel(toClient)
  /\ UNCHANGED <<network, client, server>>

(* heartbeat_time_cb and send_heartbeat, which needs m_bev. *)
HeartbeatTimeCb ==
  /\ beat >= Period
  /\ beat' = 0
  /\ toServer' = IF client = "open" THEN Send(toServer, server) ELSE toServer
  /\ UNCHANGED <<network, lost, client, server, clientQuiet, serverQuiet,
                 toClient>>

NoEcho == UNCHANGED toClient        \* mutant: the server keeps heartbeats
Echo == toClient' = Send(toClient, client)

ServerReadCb ==
  \E a \in toServer :
    /\ network # "cut" /\ server = "open"
    /\ toServer' = toServer \ {a}
    /\ serverQuiet' = 0
    /\ Echo
    /\ UNCHANGED <<network, lost, client, server, clientQuiet, beat>>

ClientReadCb ==
  \E a \in toClient :
    /\ network # "cut" /\ client = "open"
    /\ toClient' = toClient \ {a}
    /\ clientQuiet' = 0
    /\ UNCHANGED <<network, lost, client, server, serverQuiet, beat, toServer>>

(* event_cb of each end: TIMEOUT, or EOF when the other end was closed.     *)
ClientEventCb ==
  /\ client = "open"
  /\ \/ ClientDue
     \/ server # "open" /\ network # "cut"
  /\ client' = "closed"
  /\ clientQuiet' = 0 /\ toClient' = {}
  /\ UNCHANGED <<network, lost, server, serverQuiet, beat, toServer>>

ServerEventCb ==
  /\ server = "open"
  /\ \/ ServerDue /\ server' = "timed_out"
     \/ client # "open" /\ network # "cut" /\ server' = "closed"
  /\ serverQuiet' = 0 /\ toServer' = {}
  /\ UNCHANGED <<network, lost, client, clientQuiet, beat, toClient>>

Next ==
  \/ Cut \/ Heal \/ Tick
  \/ HeartbeatTimeCb \/ ServerReadCb \/ ClientReadCb
  \/ ClientEventCb \/ ServerEventCb

Spec == Init /\ [][Next]_vars

-----------------------------------------------------------------------------
(* Properties *)

(* Every variable stays in its type: no end is quiet for longer than its    *)
(* timeout, and nothing travels longer than DELAY.                          *)
TypeOK ==
  /\ network \in {"up", "cut", "healed"}
  /\ lost \in 0..(READ + LAG + 1)
  /\ client \in {"open", "closed"}
  /\ server \in {"open", "closed", "timed_out"}
  /\ clientQuiet \in 0..(READ + LAG) /\ serverQuiet \in 0..(READ + LAG)
  /\ beat \in 0..(HEARTBEAT + LAG)
  /\ toServer \subseteq 0..DELAY /\ toClient \subseteq 0..DELAY

(* Neither end gives up an idle connection, whatever the phases of the two  *)
(* loops and of the heartbeat timer, unless the network was interrupted for *)
(* at least the time the heartbeats leave to spare.                         *)
IdleStaysUp == lost < SPARE => client = "open" /\ server = "open"

(* A network that is gone without a word is noticed: both ends have given   *)
(* the connection up READ later, and what their loops are late.             *)
SilenceDetected ==
  network = "cut" /\ lost > READ + LAG => client # "open" /\ server # "open"

(* RpcServer::event_cb: "None of the other events can happen here, since we *)
(* haven't enabled timeouts".  A run finds it violated.                     *)
NoTimeout == server # "timed_out"
=============================================================================
