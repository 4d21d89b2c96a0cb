---------------------------- MODULE KeepAliveProofs ----------------------------
(* Theorems about KeepAlive, for every HEARTBEAT, READ, DELAY and LAG that  *)
(* satisfy KeepAliveAssumption.                                             *)
EXTENDS KeepAlive, TLAPS

SENT == HEARTBEAT + LAG   \* the most between two heartbeats

BothOpen == client = "open" /\ server = "open"

(* The server has read since the last heartbeat was sent, or one is on its  *)
(* way that was sent in time.                                               *)
ServerServed ==
  \/ serverQuiet <= beat
  \/ \E a \in toServer : serverQuiet <= SENT + a + lost

(* For the client, that one may also be on its way back.                    *)
ClientServed ==
  \/ clientQuiet <= beat
  \/ \E a \in toServer : clientQuiet <= SENT + a + lost
  \/ \E a \in toClient : clientQuiet <= SENT + DELAY + a + lost

Served == BothOpen => ServerServed /\ ClientServed

(* Who is open has read nothing since the network was cut.                  *)
Silence ==
  /\ network = "up" => lost = 0
  /\ network = "cut" => /\ client = "open" => lost <= clientQuiet
                        /\ server = "open" => lost <= serverQuiet

AliveInv == Served /\ IdleStaysUp /\ Silence

-----------------------------------------------------------------------------
(* Types *)

LEMMA TypeNext == TypeOK /\ [Next]_vars => TypeOK'
<1> SUFFICES ASSUME TypeOK, [Next]_vars PROVE TypeOK'
  OBVIOUS
<1> USE KeepAliveAssumption DEF TypeOK
<1>1. CASE Cut \/ Heal
  BY <1>1 DEF Cut, Heal
<1>2. CASE Tick
  <2>1. ASSUME NEW ages \in SUBSET (0..DELAY), OnTime(ages)
        PROVE  Travel(ages) \subseteq 0..DELAY
    <3>1. CASE network = "cut"
      BY <3>1 DEF Travel
    <3>2. CASE network # "cut"
      <4>1. \A a \in ages : a + 1 \in 0..DELAY
        BY <2>1, <3>2 DEF OnTime
      <4>2. Travel(ages) = {a + 1 : a \in ages}
        BY <3>2 DEF Travel
      <4>3. \A b \in {a + 1 : a \in ages} : b \in 0..DELAY
        BY <4>1
      <4> QED
        BY <4>2, <4>3
    <3> QED
      BY <3>1, <3>2
  <2>2. toServer' \subseteq 0..DELAY /\ toClient' \subseteq 0..DELAY
    BY <1>2, <2>1 DEF Tick
  <2>3. /\ clientQuiet' \in 0..(READ + LAG)
        /\ serverQuiet' \in 0..(READ + LAG)
    BY <1>2 DEF Tick, ClientDue, ServerDue
  <2>4. lost' \in 0..(READ + LAG + 1) /\ beat' \in 0..(HEARTBEAT + LAG)
    BY <1>2 DEF Tick, Period
  <2> QED
    BY <1>2, <2>2, <2>3, <2>4 DEF Tick
<1>3. CASE HeartbeatTimeCb
  BY <1>3 DEF HeartbeatTimeCb, Send
<1>4. CASE ServerReadCb
  BY <1>4 DEF ServerReadCb, Echo, Send
<1>5. CASE ClientReadCb
  BY <1>5 DEF ClientReadCb
<1>6. CASE ClientEventCb
  BY <1>6 DEF ClientEventCb
<1>7. CASE ServerEventCb
  BY <1>7 DEF ServerEventCb
<1>8. CASE UNCHANGED vars
  BY <1>8 DEF vars
<1> QED
  BY <1>1, <1>2, <1>3, <1>4, <1>5, <1>6, <1>7, <1>8 DEF Next

LEMMA TypeInit == Init => TypeOK
  BY KeepAliveAssumption DEF Init, TypeOK

(* Every variable stays in its type: in particular no end is quiet for      *)
(* longer than READ and the lag of its loop.                                *)
THEOREM AliveTypeCorrect == Spec => []TypeOK
  BY TypeInit, TypeNext, PTL DEF Spec

-----------------------------------------------------------------------------
(* Heartbeats *)

LEMMA AliveInit == Init => AliveInv
  BY KeepAliveAssumption
     DEF Init, AliveInv, Served, ServerServed, ClientServed, IdleStaysUp, Silence

LEMMA ServedTick == TypeOK /\ Served /\ Tick => Served'
<1> SUFFICES ASSUME TypeOK, Tick, BothOpen, ServerServed, ClientServed
             PROVE  ServerServed' /\ ClientServed'
  BY DEF Served, BothOpen, Tick
<1> USE KeepAliveAssumption DEF TypeOK, SENT
<1>1. /\ clientQuiet' = clientQuiet + 1 /\ serverQuiet' = serverQuiet + 1
      /\ beat' = beat + 1
  BY DEF Tick, BothOpen
<1>2. CASE network = "cut"
  <2>1. toServer' = toServer /\ toClient' = toClient
    BY <1>2 DEF Tick, Travel
  <2>2. lost' = lost + 1 \/ (lost' = lost /\ lost > READ + LAG)
    BY <1>2 DEF Tick
  <2>3. ServerServed'
    BY <1>1, <2>1, <2>2 DEF ServerServed
  <2>4. ClientServed'
    BY <1>1, <2>1, <2>2 DEF ClientServed
  <2> QED
    BY <2>3, <2>4
<1>3. CASE network # "cut"
  <2>1. lost' = lost
    BY <1>3 DEF Tick
  <2>2. /\ \A a \in toServer : a + 1 \in toServer'
        /\ \A a \in toClient : a + 1 \in toClient'
    BY <1>3 DEF Tick, Travel
  <2>3. ServerServed'
    BY <1>1, <2>1, <2>2 DEF ServerServed
  <2>4. ClientServed'
    BY <1>1, <2>1, <2>2 DEF ClientServed
  <2> QED
    BY <2>3, <2>4
<1> QED
  BY <1>2, <1>3

LEMMA ServedBeat == TypeOK /\ Served /\ HeartbeatTimeCb => Served'
<1> SUFFICES ASSUME TypeOK, HeartbeatTimeCb, BothOpen, ServerServed, ClientServed
             PROVE  ServerServed' /\ ClientServed'
  BY DEF Served, BothOpen, HeartbeatTimeCb
<1> USE KeepAliveAssumption DEF TypeOK, SENT
<1>1. toServer' = toServer \cup {0} /\ beat <= SENT
  BY DEF HeartbeatTimeCb, Send, BothOpen
<1>2. ServerServed'
  BY <1>1 DEF HeartbeatTimeCb, ServerServed
<1>3. ClientServed'
  BY <1>1 DEF HeartbeatTimeCb, ClientServed
<1> QED
  BY <1>2, <1>3

LEMMA ServedReads ==
  TypeOK /\ Served /\ (ServerReadCb \/ ClientReadCb) => Served'
<1> SUFFICES ASSUME TypeOK, ServerReadCb \/ ClientReadCb, BothOpen,
                    ServerServed, ClientServed
             PROVE  ServerServed' /\ ClientServed'
  BY DEF Served, BothOpen, ServerReadCb, ClientReadCb
<1> USE KeepAliveAssumption DEF TypeOK, SENT
<1>1. CASE ServerReadCb
  <2>1. PICK a \in toServer : /\ toServer' = toServer \ {a}
                              /\ toClient' = toClient \cup {0}
                              /\ serverQuiet' = 0
                              /\ UNCHANGED <<clientQuiet, beat, lost>>
    BY <1>1 DEF ServerReadCb, Echo, Send, BothOpen
  <2>2. ServerServed'
    BY <2>1 DEF ServerServed
  <2>3. ClientServed'
    BY <2>1 DEF ClientServed
  <2> QED
    BY <2>2, <2>3
<1>2. CASE ClientReadCb
  BY <1>2 DEF ClientReadCb, ServerServed, ClientServed
<1> QED
  BY <1>1, <1>2

LEMMA AliveNext == TypeOK /\ AliveInv /\ [Next]_vars => AliveInv'
<1> SUFFICES ASSUME TypeOK, AliveInv, [Next]_vars PROVE AliveInv'
  OBVIOUS
<1> USE KeepAliveAssumption DEF TypeOK, AliveInv
<1>1. CASE Cut \/ Heal
  BY <1>1 DEF Cut, Heal, Served, ServerServed, ClientServed, BothOpen,
              IdleStaysUp, Silence
<1>2. CASE Tick
  <2>1. Silence'
    BY <1>2 DEF Tick, Silence
  <2>2. IdleStaysUp'
    BY <1>2 DEF Tick, IdleStaysUp, SPARE
  <2> QED
    BY <1>2, <2>1, <2>2, ServedTick
<1>3. CASE HeartbeatTimeCb
  BY <1>3, ServedBeat DEF HeartbeatTimeCb, IdleStaysUp, Silence, SPARE
<1>4. CASE ServerReadCb
  BY <1>4, ServedReads DEF ServerReadCb, IdleStaysUp, Silence, SPARE
<1>5. CASE ClientReadCb
  BY <1>5, ServedReads DEF ClientReadCb, IdleStaysUp, Silence, SPARE
<1>6. CASE ClientEventCb
  <2>1. lost >= SPARE
    BY <1>6 DEF ClientEventCb, ClientDue, Served, ClientServed, BothOpen, SENT,
                IdleStaysUp, SPARE
  <2> QED
    BY <1>6, <2>1 DEF ClientEventCb, Served, BothOpen, IdleStaysUp, Silence, SPARE
<1>7. CASE ServerEventCb
  <2>1. lost >= SPARE
    BY <1>7 DEF ServerEventCb, ServerDue, Served, ServerServed, BothOpen, SENT,
                IdleStaysUp, SPARE
  <2> QED
    BY <1>7, <2>1 DEF ServerEventCb, Served, BothOpen, IdleStaysUp, Silence, SPARE
<1>8. CASE UNCHANGED vars
  BY <1>8 DEF vars, Served, ServerServed, ClientServed, BothOpen, IdleStaysUp,
              Silence
<1> QED
  BY <1>1, <1>2, <1>3, <1>4, <1>5, <1>6, <1>7, <1>8 DEF Next

LEMMA AliveAlways == Spec => [](TypeOK /\ AliveInv)
  BY TypeInit, TypeNext, AliveInit, AliveNext, PTL DEF Spec

(* With 10 s and 30 s, heartbeats that take less than 10 s each way on time *)
(* loops keep an idle connection up, and an interruption costs it only when *)
(* it lasts what they leave to spare.                                       *)
THEOREM NotGivenUpIdle == Spec => []IdleStaysUp
<1>1. AliveInv => IdleStaysUp
  BY DEF AliveInv
<1> QED
  BY <1>1, AliveAlways, PTL

(* And a network that is gone is noticed at both ends after tv_read.        *)
THEOREM SilenceIsNoticed == Spec => []SilenceDetected
<1>1. TypeOK /\ AliveInv => SilenceDetected
  BY KeepAliveAssumption DEF TypeOK, AliveInv, Silence, SilenceDetected
<1> QED
  BY <1>1, AliveAlways, PTL
=============================================================================
