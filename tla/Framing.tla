-------------------------------- MODULE Framing --------------------------------
(***************************************************************************)
(* How read_cb finds packets in the bytes of a connection: both ends, in   *)
(* RpcChannelImpl.cpp and RpcServer.cpp, have the same loop and differ in  *)
(* what they do with a heartbeat and when evbuffer_pullup fails.           *)
(*                                                                         *)
(* Bytes are numbers up to MaxByte and RPC_PACKET (rpc.h) is shortened to  *)
(* two bytes of magic, one of version and one of length.  The other end    *)
(* sends segments: packets, packets of another version (aliens) and noise; *)
(* the network cuts them into chunks as it likes.                          *)
(***************************************************************************)
EXTENDS Naturals, Sequences, FiniteSets

CONSTANTS
  Bodies,         \* bodies of packets and aliens, <<>> for a heartbeat
  Noise,          \* byte sequences that belong to no packet
  MaxByte,        \* the largest byte, and the largest length in a header
  MaxSegments     \* bound: packets, aliens and noises on a connection

P == MaxByte - 1  \* "PROTOB", whose first byte does not occur again in it
B == MaxByte
Version == 1
HeaderLen == 4

(* No length looks like magic: that takes a body of more than 1 GB.         *)
ASSUME FramingAssumption ==
  /\ MaxByte \in Nat /\ MaxByte > 2
  /\ Bodies \subseteq Seq(0..MaxByte) /\ \A b \in Bodies : Len(b) < P
  /\ Noise \subseteq Seq(0..MaxByte) /\ <<>> \notin Noise
  /\ MaxSegments \in Nat

(* send_rpc_message and send_no_lock put a header before a body.            *)
Packet(b) == <<P, B, Version, Len(b)>> \o b

Wire(s) ==
  CASE s.kind = "packet" -> Packet(s.body)
    [] s.kind = "alien"  -> <<P, B, Version - 1, Len(s.body)>> \o s.body
    [] s.kind = "noise"  -> s.body

VARIABLES
  role,     \* the end that reads: "channel" or "server"
  sent,     \* history: the segments of this connection, and where they begin
  wire,     \* history: their bytes
  arrived,  \* how many bytes the input evbuffer was given
  drained,  \* how many were taken out of it again
  due,      \* libevent has scheduled read_cb
  reading,  \* read_cb is running
  decoded,  \* history: bodies handed to decode, and where they were found
  echoed,   \* history: heartbeats sent back
  failed,   \* history: whether the last read_cb failed in evbuffer_pullup
  dropped   \* history: how many bytes were gone after the last such failure

readVars == <<role, sent, wire, arrived>>
vars == <<readVars, drained, due, reading, decoded, echoed, failed, dropped>>

Init ==
  /\ role \in {"channel", "server"}
  /\ sent = {} /\ wire = <<>>
  /\ arrived = 0 /\ drained = 0
  /\ due = FALSE /\ reading = FALSE
  /\ decoded = <<>> /\ echoed = <<>>
  /\ failed = FALSE /\ dropped = 0

Send(kind, body) ==
  LET s == [kind |-> kind, body |-> body, at |-> Len(wire)] IN
  /\ Cardinality(sent) < MaxSegments
  /\ sent' = sent \cup {s}
  /\ wire' = wire \o Wire(s)
  /\ UNCHANGED <<role, arrived, drained, due, reading, decoded, echoed,
                 failed, dropped>>

(* libevent reads on the loop thread, so never while read_cb runs.          *)
Receive ==
  /\ ~reading
  /\ arrived' \in arrived + 1..Len(wire)
  /\ due' = TRUE
  /\ UNCHANGED <<role, sent, wire, drained, reading, decoded, echoed,
                 failed, dropped>>

ReadCb ==
  /\ ~reading /\ due
  /\ due' = FALSE /\ reading' = TRUE
  /\ failed' = FALSE
  /\ UNCHANGED <<readVars, drained, decoded, echoed, dropped>>

-----------------------------------------------------------------------------
(* One iteration of the loop: an action for each way through it.            *)

HeaderThere == arrived - drained >= HeaderLen
MagicOk     == wire[drained + 1] = P /\ wire[drained + 2] = B
VersionOk   == wire[drained + 3] = Version
Length      == wire[drained + 4]

(* size_t has 64 bits (event-config.h), so the sum of an unsigned int and   *)
(* the size of the header does not wrap.                                    *)
BodyTotal == Length    \* mutant: the header is forgotten in the total
PacketTotal == Length + HeaderLen

Whole ==
  /\ HeaderThere /\ MagicOk /\ VersionOk
  /\ arrived - drained >= PacketTotal

(* What a packet at the front of the input buffer would be.                 *)
Found ==
  [at |-> drained,
   body |-> SubSeq(wire, drained + HeaderLen + 1, drained + PacketTotal)]

SkipByteWide ==   \* mutant: drains sizeof(RPC_PACKET) after a bad magic
  /\ reading /\ HeaderThere /\ ~MagicOk
  /\ drained' = drained + HeaderLen
  /\ UNCHANGED <<readVars, due, reading, decoded, echoed, failed, dropped>>

SkipByte ==
  /\ reading /\ HeaderThere /\ ~MagicOk
  /\ drained' = drained + 1
  /\ UNCHANGED <<readVars, due, reading, decoded, echoed, failed, dropped>>

(* Of a packet of another version only the header is skipped.               *)
SkipHeader ==
  /\ reading /\ HeaderThere /\ MagicOk /\ ~VersionOk
  /\ drained' = drained + HeaderLen
  /\ UNCHANGED <<readVars, due, reading, decoded, echoed, failed, dropped>>

(* Only the server sends heartbeats back. *)
TakeHeartbeat ==
  /\ reading /\ Whole /\ Length = 0
  /\ drained' = drained + HeaderLen
  /\ echoed' = IF role = "server" THEN Append(echoed, Found) ELSE echoed
  /\ UNCHANGED <<readVars, due, reading, decoded, failed, dropped>>

TakePacket ==
  /\ reading /\ Whole /\ Length > 0
  /\ drained' = drained + PacketTotal
  /\ decoded' = Append(decoded, Found)
  /\ UNCHANGED <<readVars, due, reading, echoed, failed, dropped>>

(* evbuffer_pullup runs out of memory: the channel drops all it has, the    *)
(* server the body; both leave the loop.                                    *)
PullupFails ==
  /\ reading /\ Whole /\ Length > 0
  /\ drained' = IF role = "server" THEN drained + PacketTotal ELSE arrived
  /\ failed' = TRUE /\ dropped' = drained'
  /\ reading' = FALSE
  /\ UNCHANGED <<readVars, due, decoded, echoed>>

(* Less than a header, or less than the packet it announces.                *)
Waiting == HeaderThere => MagicOk /\ VersionOk /\ ~Whole

WaitForMore ==
  /\ reading /\ Waiting
  /\ reading' = FALSE
  /\ UNCHANGED <<readVars, drained, due, decoded, echoed, failed, dropped>>

Next ==
  \/ \E b \in Bodies : Send("packet", b) \/ Send("alien", b)
  \/ \E n \in Noise : Send("noise", n)
  \/ Receive \/ ReadCb
  \/ SkipByte \/ SkipHeader \/ TakeHeartbeat \/ TakePacket \/ PullupFails
  \/ WaitForMore

Spec == Init /\ [][Next]_vars

-----------------------------------------------------------------------------
(* Properties *)

Cells(s) == 1..Len(Wire(s))
End(s) == s.at + Len(Wire(s))

Packets == {s \in sent : s.kind = "packet"}
IsPacket(d) == \E s \in Packets : d = [at |-> s.at, body |-> s.body]

(* Segments in which a header, or the start of one, could be seen that is   *)
(* none.  A packet is one if its body contains the first byte of the magic, *)
(* which does no harm as long as read_cb knows where packets begin.         *)
Loud ==
  {s \in sent : \E j \in Cells(s) :
                  Wire(s)[j] = P /\ (s.kind = "noise" \/ j > 1)}

(* Nothing has made read_cb lose track: no loud noise or alien, and not the *)
(* channel's dropping of half a packet.                                     *)
OnTrack == Loud \subseteq Packets /\ (role = "channel" => dropped = 0)

(* No header seen in something loud can matter at q or later: one that      *)
(* starts with the last byte of it announces at most MaxByte.               *)
Beyond(q) == \A s \in Loud : End(s) - 1 + HeaderLen + MaxByte <= q

Clear(q) == OnTrack \/ Beyond(q)

InOrder(ds) == \A i, j \in DOMAIN ds : i < j => ds[i].at < ds[j].at

(* However the stream is cut into chunks, what decode gets are packets that *)
(* were sent, whole, in order and each once, and so is what the server      *)
(* echoes: aliens, noise, partial packets and a failed evbuffer_pullup in   *)
(* between invent nothing.  Noise that looks like a header may, but not     *)
(* beyond the largest packet that can be seen in it.                        *)
NothingInvented ==
  \A ds \in {decoded, echoed} :
    /\ InOrder(ds)
    /\ \A i \in DOMAIN ds : Clear(ds[i].at) => IsPacket(ds[i])

(* Everything has arrived and read_cb has nothing to do. *)
Quiet == arrived = Len(wire) /\ ~due /\ ~reading /\ ~failed

(* No packet that has arrived is left in the buffer until the next one      *)
(* comes, nor is one lost, except by a failure: all are decoded, and the    *)
(* server has sent every heartbeat back.  After noise that looks like a     *)
(* header read_cb finds the next header again, and so does the channel      *)
(* after a failure in the middle of a packet.                               *)
NothingHeldBack ==
  Quiet => \A s \in Packets :
    LET d == [at |-> s.at, body |-> s.body] IN
    s.at >= dropped /\ Clear(s.at) =>
      IF s.body # <<>>
      THEN \E i \in DOMAIN decoded : decoded[i] = d
      ELSE role = "server" => \E i \in DOMAIN echoed : echoed[i] = d
=============================================================================
