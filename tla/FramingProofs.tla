----------------------------- MODULE FramingProofs -----------------------------
(* Theorems about Framing: for all bodies, noises and sizes of a byte that   *)
(* FramingAssumption admits, and for streams of any length.                 *)
EXTENDS Framing, SequenceTheorems, TLAPS

Byte == 0..MaxByte

Segment ==
  [kind : {"packet", "alien"}, body : Bodies, at : Nat]
    \cup [kind : {"noise"}, body : Noise, at : Nat]

Finding == [at : Nat, body : Seq(Byte)]

TypeOK ==
  /\ role \in {"channel", "server"}
  /\ sent \in SUBSET Segment
  /\ wire \in Seq(Byte)
  /\ arrived \in 0..Len(wire) /\ drained \in 0..arrived
  /\ due \in BOOLEAN /\ reading \in BOOLEAN /\ failed \in BOOLEAN
  /\ decoded \in Seq(Finding) /\ echoed \in Seq(Finding)
  /\ dropped \in 0..drained

(* The bytes of the wire are those of the segments, one behind the other.   *)
Layout ==
  /\ \A s \in sent : /\ End(s) <= Len(wire)
                     /\ \A j \in Cells(s) : wire[s.at + j] = Wire(s)[j]
  /\ \A q \in 1..Len(wire) : \E s \in sent : s.at < q /\ q <= End(s)
  /\ \A s, t \in sent : s = t \/ End(s) <= t.at \/ End(t) <= s.at

(* As long as it has not lost track, read_cb is never inside a packet.      *)
Aligned ==
  OnTrack => \A s \in Packets : drained <= s.at \/ End(s) <= drained

(* What is found is found before the place where read_cb is now.            *)
Behind ==
  \A ds \in {decoded, echoed} : \A i \in DOMAIN ds : ds[i].at < drained

(* What NothingHeldBack says of a packet.                                   *)
Handled(s) ==
  LET d == [at |-> s.at, body |-> s.body] IN
  IF s.body # <<>>
  THEN \E i \in DOMAIN decoded : decoded[i] = d
  ELSE role = "server" => \E i \in DOMAIN echoed : echoed[i] = d

PassedHandled ==
  \A s \in Packets :
    s.at < drained /\ s.at >= dropped /\ Clear(s.at) => Handled(s)

(* read_cb leaves nothing to do behind, unless it failed.                   *)
Settled == ~due /\ ~reading /\ ~failed => Waiting

FrameInv ==
  /\ TypeOK /\ Layout /\ Aligned /\ Behind /\ NothingInvented
  /\ PassedHandled /\ Settled

-----------------------------------------------------------------------------
(* The bytes of a segment *)

LEMMA Constants ==
  /\ MaxByte \in Nat /\ MaxByte > 2 /\ P = MaxByte - 1 /\ B = MaxByte
  /\ P \in Byte /\ B \in Byte /\ Version = 1 /\ HeaderLen = 4
  /\ \A b \in Bodies : b \in Seq(Byte) /\ Len(b) \in 0..P - 1
  /\ \A n \in Noise : n \in Seq(Byte) /\ Len(n) > 0
BY FramingAssumption, EmptySeq DEF P, B, Version, HeaderLen, Byte

(* A segment has bytes, and a packet or an alien has those of its header.   *)
LEMMA WireOf ==
  ASSUME NEW s \in Segment
  PROVE  /\ s.at \in Nat /\ s.body \in Seq(Byte)
         /\ Wire(s) \in Seq(Byte) /\ Len(Wire(s)) \in Nat \ {0}
         /\ s.kind # "noise" =>
              /\ Len(Wire(s)) = HeaderLen + Len(s.body)
              /\ Wire(s)[1] = P /\ Wire(s)[2] = B
              /\ Wire(s)[3] = Version <=> s.kind = "packet"
              /\ Wire(s)[4] = Len(s.body)
              /\ \A i \in 1..Len(s.body) : Wire(s)[i + 4] = s.body[i]
<1>1. CASE s.kind = "noise"
  BY <1>1, Constants DEF Segment, Wire
<1>2. CASE s.kind # "noise"
  <2> DEFINE v == IF s.kind = "packet" THEN Version ELSE Version - 1
             head == <<P, B, v, Len(s.body)>>
  <2>1. s.body \in Bodies /\ s.body \in Seq(Byte) /\ Len(s.body) \in Byte
    BY <1>2, Constants DEF Segment, Byte
  <2>2. v \in Byte /\ head \in Seq(Byte) /\ Len(head) = 4
    BY <2>1, Constants DEF Byte
  <2>3. Wire(s) = head \o s.body
    BY <1>2 DEF Segment, Wire, Packet
  <2>4. /\ Len(Wire(s)) = 4 + Len(s.body)
        /\ \A i \in 1..4 : Wire(s)[i] = head[i]
        /\ \A i \in 1..Len(s.body) : Wire(s)[i + 4] = s.body[i]
        /\ Wire(s) \in Seq(Byte)
    BY <2>1, <2>2, <2>3
  <2>5. v = Version <=> s.kind = "packet"
    BY Constants
  <2> HIDE DEF v
  <2>6. /\ Wire(s)[1] = P /\ Wire(s)[2] = B /\ Wire(s)[3] = v
        /\ Wire(s)[4] = Len(s.body)
    BY <2>4
  <2> QED
    BY <2>1, <2>4, <2>5, <2>6, Constants DEF Segment
<1> QED
  BY <1>1, <1>2

(* The same of what was sent.                                               *)
LEMMA SentIs ==
  ASSUME TypeOK, Layout, NEW s \in sent
  PROVE  /\ s \in Segment /\ s.at \in Nat /\ End(s) \in Nat
         /\ s.at < End(s) /\ End(s) <= Len(wire) /\ Len(wire) \in Nat
         /\ End(s) = s.at + Len(Wire(s))
         /\ \A q \in Nat : s.at < q /\ q <= End(s) =>
              q - s.at \in Cells(s) /\ wire[q] = Wire(s)[q - s.at]
<1>1. s \in Segment /\ Len(wire) \in Nat
  BY DEF TypeOK
<1>2. s.at \in Nat /\ Len(Wire(s)) \in Nat \ {0}
  BY <1>1, WireOf
<1>3. End(s) <= Len(wire) /\ \A j \in Cells(s) : wire[s.at + j] = Wire(s)[j]
  BY DEF Layout
<1>4. ASSUME NEW q \in Nat, s.at < q, q <= End(s)
      PROVE  q - s.at \in Cells(s) /\ wire[q] = Wire(s)[q - s.at]
  <2>1. q - s.at \in Cells(s) /\ s.at + (q - s.at) = q
    BY <1>2, <1>4 DEF Cells, End
  <2> QED
    BY <1>3, <2>1
<1> QED
  BY <1>1, <1>2, <1>3, <1>4 DEF End

LEMMA Positions ==
  ASSUME TypeOK
  PROVE  /\ Len(wire) \in Nat /\ arrived \in Nat /\ drained \in Nat
         /\ arrived <= Len(wire) /\ drained <= arrived
         /\ \A q \in 1..Len(wire) : wire[q] \in Nat /\ wire[q] <= MaxByte
BY Constants DEF TypeOK, Byte

(* Two segments with a byte in common are the same.                         *)
LEMMA SameSegment ==
  ASSUME TypeOK, Layout, NEW s \in sent, NEW t \in sent, NEW q \in Nat,
         s.at <= q, q < End(s), t.at <= q, q < End(t)
  PROVE  s = t
<1>1. s.at \in Nat /\ End(s) \in Nat /\ t.at \in Nat /\ End(t) \in Nat
  BY SentIs
<1>2. s = t \/ End(s) <= t.at \/ End(t) <= s.at
  BY DEF Layout
<1> QED
  BY <1>1, <1>2

-----------------------------------------------------------------------------
(* Where read_cb sees a header *)

(* In front of a packet it sees that packet, and all of it if it is there.  *)
LEMMA AtPacket ==
  ASSUME TypeOK, Layout, NEW s \in Packets, s.at = drained, HeaderThere
  PROVE  /\ MagicOk /\ VersionOk /\ Length = Len(s.body)
         /\ drained + PacketTotal = End(s)
         /\ Found = [at |-> s.at, body |-> s.body]
<1> DEFINE n == Len(s.body)
           b == SubSeq(wire, drained + 4 + 1, drained + 4 + n)
<1>1. s \in sent /\ s \in Segment /\ s.kind = "packet"
  BY SentIs DEF Packets
<1>2. /\ Len(Wire(s)) = 4 + n /\ s.body \in Seq(Byte)
      /\ Wire(s)[1] = P /\ Wire(s)[2] = B /\ Wire(s)[3] = Version
      /\ Wire(s)[4] = n
  BY <1>1, WireOf, Constants
<1>3. \A i \in 1..n : Wire(s)[i + 4] = s.body[i]
  BY <1>1, WireOf
<1>4. n \in Nat
  BY <1>2
<1> HIDE DEF n
<1>5. /\ drained \in Nat /\ Len(wire) \in Nat
      /\ End(s) <= Len(wire) /\ End(s) = drained + 4 + n
  <2>1. End(s) = drained + Len(Wire(s)) /\ End(s) <= Len(wire)
    BY <1>1, SentIs
  <2> QED
    BY <1>2, <1>4, <2>1, Positions
<1>6. \A i \in 1..4 + n : wire[drained + i] = Wire(s)[i]
  <2>1. \A i \in Cells(s) : wire[s.at + i] = Wire(s)[i]
    BY <1>1 DEF Layout
  <2> QED
    BY <2>1, <1>2 DEF Cells
<1>7. /\ wire[drained + 1] = P /\ wire[drained + 2] = B
      /\ wire[drained + 3] = Version /\ wire[drained + 4] = n
  BY <1>2, <1>4, <1>6
<1>8. b = s.body
  <2>1. \A i \in drained + 4 + 1..drained + 4 + n : wire[i] \in Byte
    <3>1. wire \in Seq(Byte)
      BY DEF TypeOK
    <3> QED
      BY <3>1, <1>4, <1>5
  <2>2. /\ drained + 4 + 1 \in Int /\ drained + 4 + n \in Int
        /\ (drained + 4 + n) - (drained + 4 + 1) + 1 = n
        /\ drained + 4 + 1 <= drained + 4 + n \/ n = 0
    BY <1>4, <1>5
  <2>3. /\ b \in Seq(Byte) /\ Len(b) = n
        /\ \A i \in 1..n : b[i] = wire[(drained + 4 + 1) + i - 1]
    BY <2>1, <2>2, SubSeqProperties
  <2>4. ASSUME NEW i \in 1..n PROVE b[i] = s.body[i]
    <3>1. /\ i + 4 \in 1..4 + n
          /\ (drained + 4 + 1) + i - 1 = drained + (i + 4)
      BY <1>4, <1>5
    <3> QED
      BY <3>1, <2>3, <1>3, <1>6
  <2> HIDE DEF b
  <2> QED
    BY <2>3, <2>4, <1>2, SeqEqual DEF n
<1> HIDE DEF b
<1>9. Length = n /\ drained + PacketTotal = End(s)
  BY <1>5, <1>7, <1>4, Constants DEF Length, PacketTotal
<1>10. Found = [at |-> s.at, body |-> s.body]
  <2>1. /\ drained + HeaderLen + 1 = drained + 4 + 1
        /\ drained + PacketTotal = drained + 4 + n
    BY <1>5, <1>9, Constants
  <2> QED
    BY <2>1, <1>8 DEF Found, b
<1> QED
  BY <1>7, <1>9, <1>10, <1>4 DEF MagicOk, VersionOk, n

LEMMA AtAlien ==
  ASSUME TypeOK, Layout, NEW s \in sent, s.kind = "alien", s.at = drained
  PROVE  ~VersionOk /\ drained + HeaderLen <= End(s)
<1>1. /\ Wire(s)[3] # Version /\ Len(Wire(s)) = 4 + Len(s.body)
      /\ Len(s.body) \in Nat
  BY SentIs, WireOf, Constants
<1>2. /\ End(s) = drained + Len(Wire(s)) /\ drained \in Nat
      /\ \A q \in Nat : drained < q /\ q <= End(s) =>
           wire[q] = Wire(s)[q - drained]
  BY SentIs, Positions
<1>3. /\ drained + 3 \in Nat /\ drained < drained + 3
      /\ drained + 3 <= End(s) /\ (drained + 3) - drained = 3
  BY <1>1, <1>2
<1>4. wire[drained + 3] = Wire(s)[3]
  BY <1>2, <1>3
<1> QED
  BY <1>1, <1>2, <1>4, Constants DEF VersionOk

(* A magic is that of a segment which begins there, or within one in which  *)
(* a header seems to begin; not so as long as read_cb is on track.          *)
LEMMA HeaderSeen ==
  ASSUME TypeOK, Layout, Aligned, HeaderThere, MagicOk
  PROVE  \E s \in sent :
           /\ s.at <= drained /\ drained < End(s)
           /\ \/ s.at = drained /\ s.kind # "noise"
              \/ s \in Loud /\ ~OnTrack
<1>1. drained + 1 \in 1..Len(wire) /\ drained \in Nat /\ arrived \in Nat
  BY Positions, Constants DEF HeaderThere
<1>2. PICK s \in sent : s.at < drained + 1 /\ drained + 1 <= End(s)
  BY <1>1 DEF Layout
<1>3. s.at \in Nat /\ End(s) \in Nat
  BY SentIs
<1>4. s.at <= drained /\ drained < End(s)
  BY <1>1, <1>2, <1>3
<1>5. (drained + 1) - s.at \in Cells(s) /\ Wire(s)[(drained + 1) - s.at] = P
  <2>1. drained + 1 \in Nat
    BY <1>1
  <2> QED
    BY <1>2, <2>1, SentIs DEF MagicOk
<1>6. CASE s.at = drained /\ s.kind # "noise"
  BY <1>4, <1>6
<1>7. CASE ~(s.at = drained /\ s.kind # "noise")
  <2>1. s.kind = "noise" \/ (drained + 1) - s.at > 1
    BY <1>7, <1>1, <1>3, <1>4
  <2>2. s \in Loud
    BY <1>5, <2>1 DEF Loud
  <2>3. ASSUME OnTrack PROVE FALSE
    <3>1. s \in Packets
      BY <2>2, <2>3 DEF OnTrack
    <3>2. drained <= s.at
      BY <2>3, <3>1, <1>1, <1>3, <1>4 DEF Aligned
    <3> QED
      BY <3>1, <3>2, <1>1, <1>3, <1>4, <1>7 DEF Packets
  <2> QED
    BY <1>4, <2>2, <2>3
<1> QED
  BY <1>6, <1>7

(* What a header makes read_cb take leaves it on track, and ends no later   *)
(* than the next packet which nothing loud is near.                         *)
LEMMA Jump ==
  ASSUME TypeOK, Layout, Aligned, HeaderThere, MagicOk,
         NEW n, n = IF VersionOk THEN PacketTotal ELSE HeaderLen
  PROVE  /\ n \in Nat /\ n > 0
         /\ \A s \in Packets :
              /\ OnTrack => drained + n <= s.at \/ End(s) <= drained + n
              /\ Clear(s.at) /\ drained < s.at => drained + n <= s.at
<1>1. drained + 4 \in 1..Len(wire) /\ drained \in Nat
  BY Positions, Constants DEF HeaderThere
<1>2. n \in Nat /\ n > 0 /\ n <= HeaderLen + MaxByte
  BY <1>1, Positions, Constants DEF PacketTotal, Length
<1>3. PICK t \in sent :
        /\ t.at <= drained /\ drained < End(t)
        /\ \/ t.at = drained /\ t.kind # "noise"
           \/ t \in Loud /\ ~OnTrack
  BY HeaderSeen
<1>4. t.at \in Nat /\ End(t) \in Nat /\ t \in Segment
  BY SentIs
<1> SUFFICES ASSUME NEW s \in Packets
             PROVE  /\ OnTrack => drained + n <= s.at \/ End(s) <= drained + n
                    /\ Clear(s.at) /\ drained < s.at => drained + n <= s.at
  BY <1>2
<1>5. s \in sent /\ s.at \in Nat /\ End(s) \in Nat /\ s.at < End(s)
  BY SentIs DEF Packets
<1>6. s = t \/ End(s) <= t.at \/ End(t) <= s.at
  BY <1>5 DEF Layout
<1>7. CASE t.at = drained /\ t.kind # "noise"
  <2>1. drained + n <= End(t) /\ (t \in Packets => drained + n = End(t))
    <3>1. CASE t.kind = "packet"
      <4>1. t \in Packets
        BY <3>1 DEF Packets
      <4>2. VersionOk /\ drained + PacketTotal = End(t)
        BY <4>1, <1>7, AtPacket
      <4> QED
        BY <4>2, <1>4
    <3>2. CASE t.kind = "alien"
      <4>1. ~VersionOk /\ drained + HeaderLen <= End(t)
        BY <3>2, <1>7, AtAlien
      <4>2. t \notin Packets
        BY <3>2 DEF Packets
      <4> QED
        BY <4>1, <4>2
    <3> QED
      BY <1>4, <1>7, <3>1, <3>2 DEF Segment
  <2>2. s.at > drained => End(t) <= s.at
    BY <1>1, <1>5, <1>6, <1>7
  <2>3. s.at = drained => s = t
    BY <1>1, <1>4, <1>5, <1>6, <1>7, <1>3
  <2>4. OnTrack => drained <= s.at \/ End(s) <= drained
    BY DEF Aligned
  <2>5. CASE s.at = drained
    BY <2>1, <2>3, <2>5, <1>1, <1>2, <1>4
  <2>6. CASE s.at > drained
    BY <2>1, <2>2, <2>6, <1>1, <1>2, <1>4, <1>5
  <2>7. CASE s.at < drained
    BY <2>4, <2>7, <1>1, <1>2, <1>4, <1>5
  <2> QED
    BY <2>5, <2>6, <2>7, <1>1, <1>5
<1>8. CASE t \in Loud /\ ~OnTrack
  <2>1. Clear(s.at) => End(t) - 1 + HeaderLen + MaxByte <= s.at
    BY <1>8 DEF Clear, Beyond
  <2> QED
    BY <2>1, <1>1, <1>2, <1>3, <1>4, <1>5, <1>8, Constants
<1> QED
  BY <1>3, <1>7, <1>8

(* Without a magic one byte is skipped, and that is never one of a packet   *)
(* as long as read_cb is on track.                                          *)
LEMMA Skip ==
  ASSUME TypeOK, Layout, Aligned, HeaderThere, ~MagicOk, OnTrack,
         NEW s \in Packets
  PROVE  drained + 1 <= s.at \/ End(s) <= drained + 1
<1>1. s.at \in Nat /\ End(s) \in Nat /\ drained \in Nat
  BY SentIs, Positions DEF Packets
<1>2. s.at # drained
  BY AtPacket
<1>3. drained <= s.at \/ End(s) <= drained
  BY DEF Aligned
<1> QED
  BY <1>1, <1>2, <1>3

(* What is found where nothing loud is near is a packet that was sent.      *)
LEMMA FoundIsPacket ==
  ASSUME TypeOK, Layout, Aligned, Whole
  PROVE  Found \in Finding /\ (Clear(drained) => IsPacket(Found))
<1>1. /\ drained \in Nat /\ Length \in Nat /\ Len(wire) \in Nat
      /\ drained + PacketTotal <= Len(wire)
      /\ PacketTotal = Length + 4 /\ HeaderLen = 4
  <2>1. drained + 4 \in 1..Len(wire)
    BY Positions, Constants DEF Whole, HeaderThere
  <2> QED
    BY <2>1, Positions, Constants DEF Whole, PacketTotal, Length
<1>2. Found \in Finding
  <2>1. \A i \in drained + HeaderLen + 1..drained + PacketTotal :
          wire[i] \in Byte
    BY <1>1 DEF TypeOK
  <2>2. drained + HeaderLen + 1 \in Int /\ drained + PacketTotal \in Int
    BY <1>1
  <2>3. SubSeq(wire, drained + HeaderLen + 1, drained + PacketTotal)
          \in Seq(Byte)
    BY <2>1, <2>2, SubSeqProperties
  <2> QED
    BY <1>1, <2>3 DEF Found, Finding
<1>3. ASSUME Clear(drained) PROVE IsPacket(Found)
  <2>1. HeaderThere /\ MagicOk /\ VersionOk
    BY DEF Whole
  <2>2. PICK t \in sent :
          /\ t.at <= drained /\ drained < End(t)
          /\ \/ t.at = drained /\ t.kind # "noise"
             \/ t \in Loud /\ ~OnTrack
    BY <2>1, HeaderSeen
  <2>3. CASE t.at = drained /\ t.kind # "noise"
    <3>1. t \in Packets
      BY <2>1, <2>3, AtAlien, SentIs DEF Segment, Packets
    <3> QED
      BY <3>1, <2>1, <2>3, AtPacket DEF IsPacket
  <2>4. CASE t \in Loud /\ ~OnTrack
    <3>1. End(t) - 1 + HeaderLen + MaxByte <= drained
      BY <1>3, <2>4 DEF Clear, Beyond
    <3> QED
      BY <3>1, <2>2, <1>1, SentIs, Constants
  <2> QED
    BY <2>2, <2>3, <2>4
<1> QED
  BY <1>2, <1>3

-----------------------------------------------------------------------------
(* Steps *)

(* What is sent later, or lost later, puts no more of the stream in the     *)
(* clear.                                                                   *)
LEMMA ClearLater ==
  ASSUME sent \subseteq sent', role' = role, dropped \in Nat,
         dropped' \in Nat, dropped <= dropped'
  PROVE  /\ OnTrack' => OnTrack
         /\ \A q : Clear(q)' => Clear(q)
         /\ \A d : IsPacket(d) => IsPacket(d)'
<1>1. Loud \subseteq Loud'
  BY DEF Loud, Cells
<1>2. \A s \in sent : s \in Packets' => s \in Packets
  BY DEF Packets
<1>3. Loud \subseteq sent
  BY DEF Loud
<1>4. OnTrack' => OnTrack
  BY <1>1, <1>2, <1>3 DEF OnTrack
<1>5. \A q : Beyond(q)' => Beyond(q)
  BY <1>1 DEF Beyond, End
<1>6. Packets \subseteq Packets'
  BY DEF Packets
<1> QED
  BY <1>4, <1>5, <1>6 DEF Clear, IsPacket

(* One more finding, where read_cb is: it is in order, and what was there   *)
(* stays.                                                                   *)
LEMMA OneMore ==
  ASSUME NEW ds \in Seq(Finding), NEW d \in Finding, NEW p \in Nat,
         NEW q \in Nat, d.at = p, p < q,
         InOrder(ds), \A i \in DOMAIN ds : ds[i].at < p
  PROVE  LET es == Append(ds, d) IN
         /\ es \in Seq(Finding) /\ InOrder(es)
         /\ \A i \in DOMAIN es : es[i].at < q
         /\ \A i \in DOMAIN es : es[i] = d \/ \E j \in DOMAIN ds : es[i] = ds[j]
         /\ \A i \in DOMAIN ds : \E j \in DOMAIN es : es[j] = ds[i]
         /\ \E j \in DOMAIN es : es[j] = d
<1> DEFINE es == Append(ds, d)
           n == Len(ds)
<1>1. /\ n \in Nat /\ DOMAIN ds = 1..n /\ DOMAIN es = 1..n + 1
      /\ es \in Seq(Finding) /\ es[n + 1] = d
      /\ \A i \in 1..n : es[i] = ds[i]
  OBVIOUS
<1>2. \A i \in 1..n : ds[i].at \in Nat
  <2>1. \A i \in 1..n : ds[i] \in Finding
    BY <1>1
  <2> QED
    BY <2>1 DEF Finding
<1> HIDE DEF n, es
<1>3. InOrder(es)
  BY <1>1, <1>2 DEF InOrder
<1>4. \A i \in 1..n + 1 : i \in 1..n \/ i = n + 1
  BY <1>1
<1>5. \A i \in DOMAIN es : es[i].at < q
  BY <1>1, <1>2, <1>4
<1>6. /\ \A i \in DOMAIN es : es[i] = d \/ \E j \in DOMAIN ds : es[i] = ds[j]
      /\ \A i \in DOMAIN ds : \E j \in DOMAIN es : es[j] = ds[i]
      /\ \E j \in DOMAIN es : es[j] = d
  BY <1>1, <1>4
<1> QED
  BY <1>1, <1>3, <1>5, <1>6 DEF es

(* What is decoded, or echoed, may grow by what is found.                   *)
Grows(old, new) == new = old \/ (Whole /\ new = Append(old, Found))

LEMMA FindingsGrow ==
  ASSUME TypeOK, Layout, Aligned, NEW ds \in Seq(Finding), NEW es,
         Grows(ds, es), drained' \in Nat, drained < drained',
         InOrder(ds), \A i \in DOMAIN ds : ds[i].at < drained,
         \A i \in DOMAIN ds : Clear(ds[i].at) => IsPacket(ds[i])
  PROVE  /\ es \in Seq(Finding) /\ InOrder(es)
         /\ \A i \in DOMAIN es : es[i].at < drained'
         /\ \A i \in DOMAIN es : Clear(es[i].at) => IsPacket(es[i])
         /\ \A i \in DOMAIN ds : \E j \in DOMAIN es : es[j] = ds[i]
<1>1. drained \in Nat
  BY Positions
<1>2. CASE es = ds
  <2>1. \A i \in DOMAIN ds : ds[i] \in Finding
    OBVIOUS
  <2>2. \A i \in DOMAIN ds : ds[i].at \in Nat
    BY <2>1 DEF Finding
  <2> QED
    BY <1>1, <1>2, <2>2
<1>3. CASE Whole /\ es = Append(ds, Found)
  <2>1. Found \in Finding /\ Found.at = drained
        /\ (Clear(Found.at) => IsPacket(Found))
    BY <1>3, FoundIsPacket DEF Found
  <2> HIDE DEF IsPacket, Clear
  <2>2. /\ es \in Seq(Finding) /\ InOrder(es)
        /\ \A i \in DOMAIN es : es[i].at < drained'
        /\ \A i \in DOMAIN es :
             es[i] = Found \/ \E j \in DOMAIN ds : es[i] = ds[j]
        /\ \A i \in DOMAIN ds : \E j \in DOMAIN es : es[j] = ds[i]
    BY <1>1, <1>3, <2>1, OneMore
  <2>3. \A i \in DOMAIN es : Clear(es[i].at) => IsPacket(es[i])
    BY <2>1, <2>2
  <2> QED
    BY <2>2, <2>3
<1> QED
  BY <1>2, <1>3 DEF Grows

(* An iteration of the loop that takes something out of the buffer.         *)
LEMMA Advance ==
  ASSUME FrameInv, UNCHANGED readVars,
         drained' \in drained + 1..arrived, dropped' \in {dropped, drained'},
         due' \in BOOLEAN, reading' \in BOOLEAN, failed' \in BOOLEAN,
         reading' \/ failed',
         Grows(decoded, decoded'), Grows(echoed, echoed'),
         OnTrack' => \A s \in Packets : drained' <= s.at \/ End(s) <= drained',
         \A s \in Packets :
           drained <= s.at /\ s.at < drained' /\ s.at >= dropped'
             /\ Clear(s.at)' => Handled(s)'
  PROVE  FrameInv'
<1>1. /\ TypeOK /\ Layout /\ Aligned /\ Behind /\ NothingInvented
      /\ PassedHandled
  BY DEF FrameInv
<1>2. /\ drained \in Nat /\ arrived \in Nat /\ Len(wire) \in Nat
      /\ drained' \in Nat /\ drained < drained' /\ drained' <= arrived
      /\ dropped \in Nat /\ dropped <= drained
      /\ dropped' \in Nat /\ dropped <= dropped' /\ dropped' <= drained'
  BY <1>1, Positions DEF TypeOK
<1>3. /\ role' = role /\ sent' = sent /\ wire' = wire /\ arrived' = arrived
  BY DEF readVars
<1>4. /\ OnTrack' => OnTrack
      /\ \A q : Clear(q)' => Clear(q)
      /\ \A d : IsPacket(d) => IsPacket(d)'
  BY <1>2, <1>3, ClearLater
<1> DEFINE Kept(ds, es) ==
             /\ es \in Seq(Finding) /\ InOrder(es)
             /\ \A i \in DOMAIN es : es[i].at < drained'
             /\ \A i \in DOMAIN es : Clear(es[i].at) => IsPacket(es[i])
             /\ \A i \in DOMAIN ds : \E j \in DOMAIN es : es[j] = ds[i]
<1>5. \A ds \in {decoded, echoed} :
        /\ ds \in Seq(Finding) /\ InOrder(ds)
        /\ \A i \in DOMAIN ds : ds[i].at < drained
        /\ \A i \in DOMAIN ds : Clear(ds[i].at) => IsPacket(ds[i])
  BY <1>1 DEF TypeOK, NothingInvented, Behind
<1>6. Kept(decoded, decoded') /\ Kept(echoed, echoed')
  <2>1. Kept(decoded, decoded')
    BY <1>1, <1>2, <1>5, FindingsGrow
  <2>2. Kept(echoed, echoed')
    BY <1>1, <1>2, <1>5, FindingsGrow
  <2> QED
    BY <2>1, <2>2
<1>7. TypeOK'
  BY <1>1, <1>2, <1>3, <1>6 DEF TypeOK
<1>8. Layout'
  BY <1>1, <1>3 DEF Layout, End, Cells
<1>9. Aligned'
  BY <1>3 DEF Aligned, Packets, End
<1>10. Behind' /\ NothingInvented'
  <2>1. Loud' = Loud /\ Packets' = Packets
    BY <1>3 DEF Loud, Packets, Cells
  <2>2. \A ds \in {decoded', echoed'} :
          /\ InOrder(ds)
          /\ \A i \in DOMAIN ds : ds[i].at < drained'
          /\ \A i \in DOMAIN ds :
               OnTrack' \/ Beyond(ds[i].at) => IsPacket(ds[i])
    BY <1>4, <1>6 DEF Clear
  <2>3. Behind'
    BY <2>2 DEF Behind
  <2>4. NothingInvented'
    BY <2>1, <2>2 DEF NothingInvented, InOrder, Clear, Beyond, End, IsPacket
  <2> QED
    BY <2>3, <2>4
<1>11. PassedHandled'
  <2> SUFFICES ASSUME NEW s \in Packets, s.at < drained', s.at >= dropped',
                      Clear(s.at)'
               PROVE  Handled(s)'
    BY <1>3 DEF PassedHandled, Packets
  <2>1. s.at \in Nat
    BY <1>1, SentIs DEF Packets
  <2>2. CASE drained <= s.at
    BY <2>2
  <2>3. CASE s.at < drained
    <3>1. Handled(s)
      BY <1>1, <1>2, <1>4, <2>1, <2>3 DEF PassedHandled
    <3>2. /\ \A i \in DOMAIN decoded :
               \E j \in DOMAIN decoded' : decoded'[j] = decoded[i]
          /\ \A i \in DOMAIN echoed :
               \E j \in DOMAIN echoed' : echoed'[j] = echoed[i]
      BY <1>6
    <3> QED
      BY <3>1, <3>2, <1>3 DEF Handled
  <2> QED
    BY <1>2, <2>1, <2>2, <2>3
<1>12. Settled'
  BY DEF Settled
<1> QED
  BY <1>7, <1>8, <1>9, <1>10, <1>11, <1>12 DEF FrameInv

(* The other end sends a segment: it begins behind all that read_cb has     *)
(* seen.                                                                    *)
LEMMA SendKeeps ==
  ASSUME FrameInv, NEW kind, NEW body, Send(kind, body),
         [kind |-> kind, body |-> body, at |-> Len(wire)] \in Segment
  PROVE  FrameInv'
<1> DEFINE s == [kind |-> kind, body |-> body, at |-> Len(wire)]
           n == Len(wire)
<1>1. /\ TypeOK /\ Layout /\ Aligned /\ Behind /\ NothingInvented
      /\ PassedHandled /\ Settled
  BY DEF FrameInv
<1>2. /\ sent' = sent \cup {s} /\ wire' = wire \o Wire(s)
      /\ UNCHANGED <<role, arrived, drained, due, reading, decoded, echoed,
                     failed, dropped>>
  BY DEF Send
<1>3. /\ s \in Segment /\ s.at = n /\ n \in Nat
      /\ Wire(s) \in Seq(Byte) /\ Len(Wire(s)) \in Nat \ {0}
  BY <1>1, WireOf DEF TypeOK
<1> HIDE DEF s
<1>4. /\ wire' \in Seq(Byte) /\ Len(wire') = n + Len(Wire(s))
      /\ \A q \in 1..n : wire'[q] = wire[q]
      /\ \A j \in 1..Len(Wire(s)) : wire'[n + j] = Wire(s)[j]
  <2>1. wire \in Seq(Byte)
    BY <1>1 DEF TypeOK
  <2> QED
    BY <2>1, <1>2, <1>3
<1>5. /\ arrived \in Nat /\ drained \in Nat /\ dropped \in Nat
      /\ arrived <= n /\ drained <= arrived
  BY <1>1, Positions DEF TypeOK
<1>6. End(s) = Len(wire') /\ \A t \in sent : End(t)' = End(t)
  BY <1>3, <1>4 DEF End
<1>7. /\ OnTrack' => OnTrack
      /\ \A q : Clear(q)' => Clear(q)
      /\ \A d : IsPacket(d) => IsPacket(d)'
  BY <1>2, <1>5, ClearLater
<1>8. \A t \in sent : t.at \in Nat /\ End(t) \in Nat /\ End(t) <= n
  BY <1>1, SentIs
<1>9. TypeOK'
  BY <1>1, <1>2, <1>3, <1>4, <1>5 DEF TypeOK
<1>10. Layout'
  <2>1. ASSUME NEW t \in sent'
        PROVE  /\ End(t) <= Len(wire')
               /\ \A j \in Cells(t) : wire'[t.at + j] = Wire(t)[j]
    <3>1. CASE t = s
      BY <3>1, <1>3, <1>4, <1>6 DEF Cells
    <3>2. CASE t \in sent
      <4>1. \A j \in Cells(t) : wire[t.at + j] = Wire(t)[j]
        BY <1>1, <3>2 DEF Layout
      <4>2. t \in Segment
        BY <1>1, <3>2 DEF TypeOK
      <4>3. \A j \in Cells(t) : t.at + j \in 1..n
        BY <3>2, <4>2, <1>8, <1>3, WireOf DEF Cells, End
      <4> QED
        BY <3>2, <4>1, <4>3, <1>4, <1>8, <1>3
    <3> QED
      BY <3>1, <3>2, <1>2
  <2>2. ASSUME NEW q \in 1..Len(wire')
        PROVE  \E t \in sent' : t.at < q /\ q <= End(t)
    <3>1. CASE q \in 1..n
      BY <3>1, <1>1, <1>2 DEF Layout
    <3>2. CASE q \notin 1..n
      BY <3>2, <2>2, <1>2, <1>3, <1>4, <1>6
    <3> QED
      BY <3>1, <3>2
  <2>3. ASSUME NEW t \in sent', NEW u \in sent'
        PROVE  t = u \/ End(t) <= u.at \/ End(u) <= t.at
    <3>1. CASE t \in sent /\ u \in sent
      BY <3>1, <1>1 DEF Layout
    <3>2. CASE t = s \/ u = s
      BY <3>2, <1>2, <1>3, <1>8
    <3> QED
      BY <3>1, <3>2, <1>2
  <2> QED
    BY <2>1, <2>2, <2>3 DEF Layout, End, Cells
<1>11. Aligned'
  <2>1. ASSUME NEW t \in Packets', OnTrack'
        PROVE  drained <= t.at \/ End(t) <= drained
    <3>1. CASE t = s
      BY <3>1, <1>3, <1>5
    <3>2. CASE t \in sent
      BY <3>2, <2>1, <1>1, <1>7 DEF Aligned, Packets
    <3> QED
      BY <3>1, <3>2, <1>2 DEF Packets
  <2> QED
    BY <2>1, <1>2 DEF Aligned, End
<1>12. Behind'
  BY <1>1, <1>2 DEF Behind
<1>13. NothingInvented'
  <2>1. \A ds \in {decoded, echoed} :
          InOrder(ds) /\ \A i \in DOMAIN ds : Clear(ds[i].at) => IsPacket(ds[i])
    BY <1>1 DEF NothingInvented
  <2>2. \A ds \in {decoded, echoed} :
          InOrder(ds) /\ \A i \in DOMAIN ds : Clear(ds[i].at)' => IsPacket(ds[i])'
    BY <2>1, <1>2, <1>7
  <2> QED
    BY <2>2, <1>2 DEF NothingInvented, InOrder
<1>14. PassedHandled'
  <2>1. ASSUME NEW t \in Packets', t.at < drained, t.at >= dropped, Clear(t.at)'
        PROVE  Handled(t)
    <3>1. t # s
      BY <2>1, <1>3, <1>5
    <3>2. t \in Packets
      BY <3>1, <1>2 DEF Packets
    <3> QED
      BY <3>2, <2>1, <1>1, <1>7 DEF PassedHandled
  <2> QED
    BY <2>1, <1>2 DEF PassedHandled, Handled
<1>15. Settled'
  <2>1. ASSUME HeaderThere PROVE drained + 4 \in 1..n
    BY <2>1, <1>5, Constants DEF HeaderThere
  <2>2. HeaderThere => /\ MagicOk' <=> MagicOk
                       /\ VersionOk' <=> VersionOk
                       /\ Length' = Length
    <3>1. HeaderThere => /\ wire'[drained + 1] = wire[drained + 1]
                         /\ wire'[drained + 2] = wire[drained + 2]
                         /\ wire'[drained + 3] = wire[drained + 3]
                         /\ wire'[drained + 4] = wire[drained + 4]
      BY <2>1, <1>4, <1>5
    <3> QED
      BY <3>1, <1>2 DEF MagicOk, VersionOk, Length
  <2> QED
    BY <2>2, <1>1, <1>2
    DEF Settled, Waiting, Whole, PacketTotal, HeaderThere
<1> QED
  BY <1>9, <1>10, <1>11, <1>12, <1>13, <1>14, <1>15 DEF FrameInv

(* Steps that take nothing out of the buffer.                               *)
LEMMA IdleKeeps ==
  ASSUME FrameInv, Receive \/ ReadCb \/ WaitForMore \/ UNCHANGED vars
  PROVE  FrameInv'
<1>1. /\ TypeOK /\ Layout /\ Aligned /\ Behind /\ NothingInvented
      /\ PassedHandled /\ Settled
  BY DEF FrameInv
<1>2. UNCHANGED <<role, sent, wire, drained, decoded, echoed, dropped>>
  BY DEF Receive, ReadCb, WaitForMore, vars, readVars
<1>3. TypeOK'
  <2>1. arrived' \in arrived..Len(wire)
    BY <1>1 DEF TypeOK, Receive, ReadCb, WaitForMore, vars, readVars
  <2>2. due' \in BOOLEAN /\ reading' \in BOOLEAN /\ failed' \in BOOLEAN
    BY <1>1 DEF TypeOK, Receive, ReadCb, WaitForMore, vars
  <2> QED
    BY <1>1, <1>2, <2>1, <2>2, Positions DEF TypeOK
<1>4. Layout' /\ Aligned' /\ Behind' /\ NothingInvented' /\ PassedHandled'
  <2>1. Loud' = Loud /\ Packets' = Packets
    BY <1>2 DEF Loud, Packets, Cells
  <2>2. OnTrack' = OnTrack
    BY <1>2, <2>1 DEF OnTrack
  <2>3. Layout'
    BY <1>1, <1>2 DEF Layout, End, Cells
  <2>4. Aligned'
    BY <1>1, <1>2, <2>1, <2>2 DEF Aligned, End
  <2>5. Behind'
    BY <1>1, <1>2 DEF Behind
  <2>6. NothingInvented'
    BY <1>1, <1>2, <2>1, <2>2
    DEF NothingInvented, InOrder, Clear, Beyond, End, IsPacket
  <2>7. PassedHandled'
    BY <1>1, <1>2, <2>1, <2>2
    DEF PassedHandled, Handled, Clear, Beyond, End
  <2> QED
    BY <2>3, <2>4, <2>5, <2>6, <2>7
<1>5. Settled'
  <2>1. CASE Receive \/ ReadCb
    BY <2>1 DEF Receive, ReadCb, Settled
  <2>2. CASE WaitForMore \/ UNCHANGED vars
    <3>1. Waiting' <=> Waiting
      BY <2>2 DEF WaitForMore, vars, readVars, Waiting, Whole, HeaderThere,
                  MagicOk, VersionOk, PacketTotal, Length
    <3> QED
      BY <3>1, <2>2, <1>1 DEF WaitForMore, vars, Settled
  <2> QED
    BY <2>1, <2>2
<1> QED
  BY <1>1, <1>3, <1>4, <1>5 DEF FrameInv

(* The ways through the loop that take something out.                       *)
LEMMA SkipByteKeeps == FrameInv /\ SkipByte => FrameInv'
<1> SUFFICES ASSUME FrameInv, SkipByte PROVE FrameInv'
  OBVIOUS
<1>1. /\ TypeOK /\ Layout /\ Aligned
      /\ drained \in Nat /\ arrived \in Nat /\ dropped \in Nat
  BY Positions DEF FrameInv, TypeOK
<1>2. /\ HeaderThere /\ ~MagicOk /\ drained' = drained + 1
      /\ UNCHANGED <<readVars, due, reading, decoded, echoed, failed, dropped>>
      /\ reading
  BY DEF SkipByte
<1>3. role' = role /\ sent' = sent
  BY <1>2 DEF readVars
<1>4. OnTrack' => OnTrack
  BY <1>1, <1>2, <1>3, ClearLater
<1>5. drained' \in drained + 1..arrived
  BY <1>1, <1>2, Constants DEF HeaderThere
<1>6. OnTrack' => \A s \in Packets : drained' <= s.at \/ End(s) <= drained'
  BY <1>1, <1>2, <1>4, Skip
<1>7. ASSUME NEW s \in Packets, drained <= s.at, s.at < drained' PROVE FALSE
  <2>1. s.at = drained
    BY <1>1, <1>2, <1>7, SentIs DEF Packets
  <2> QED
    BY <2>1, <1>1, <1>2, AtPacket
<1> QED
  BY <1>1, <1>2, <1>5, <1>6, <1>7, Advance DEF TypeOK, Grows

LEMMA SkipHeaderKeeps == FrameInv /\ SkipHeader => FrameInv'
<1> SUFFICES ASSUME FrameInv, SkipHeader PROVE FrameInv'
  OBVIOUS
<1>1. /\ TypeOK /\ Layout /\ Aligned
      /\ drained \in Nat /\ arrived \in Nat /\ dropped \in Nat
  BY Positions DEF FrameInv, TypeOK
<1>2. /\ HeaderThere /\ MagicOk /\ ~VersionOk /\ drained' = drained + HeaderLen
      /\ UNCHANGED <<readVars, due, reading, decoded, echoed, failed, dropped>>
      /\ reading
  BY DEF SkipHeader
<1>3. role' = role /\ sent' = sent
  BY <1>2 DEF readVars
<1>4. /\ OnTrack' => OnTrack
      /\ \A q : Clear(q)' => Clear(q)
  BY <1>1, <1>2, <1>3, ClearLater
<1>5. drained' \in drained + 1..arrived
  BY <1>1, <1>2, Constants DEF HeaderThere
<1>6. \A s \in Packets :
        /\ OnTrack => drained' <= s.at \/ End(s) <= drained'
        /\ Clear(s.at) /\ drained < s.at => drained' <= s.at
  BY <1>1, <1>2, Jump
<1>7. ASSUME NEW s \in Packets, drained <= s.at, s.at < drained', Clear(s.at)'
      PROVE  FALSE
  <2>1. s.at = drained
    BY <1>1, <1>2, <1>4, <1>5, <1>6, <1>7, SentIs DEF Packets
  <2> QED
    BY <2>1, <1>1, <1>2, AtPacket
<1> QED
  BY <1>1, <1>2, <1>4, <1>5, <1>6, <1>7, Advance DEF TypeOK, Grows

(* A whole packet, or heartbeat.                                            *)
LEMMA WholeTaken ==
  ASSUME FrameInv, Whole
  PROVE  /\ TypeOK /\ Layout /\ Aligned
         /\ drained \in Nat /\ arrived \in Nat /\ dropped \in Nat
         /\ HeaderThere /\ MagicOk /\ VersionOk
         /\ drained + PacketTotal \in drained + 1..arrived
         /\ Length \in Nat /\ PacketTotal = Length + HeaderLen
         /\ \A s \in Packets :
              /\ OnTrack => \/ drained + PacketTotal <= s.at
                           \/ End(s) <= drained + PacketTotal
              /\ Clear(s.at) /\ drained < s.at => drained + PacketTotal <= s.at
<1>1. /\ TypeOK /\ Layout /\ Aligned
      /\ drained \in Nat /\ arrived \in Nat /\ dropped \in Nat
  BY Positions DEF FrameInv, TypeOK
<1>2. /\ HeaderThere /\ MagicOk /\ VersionOk
      /\ arrived - drained >= PacketTotal
  BY DEF Whole
<1>3. /\ PacketTotal \in Nat /\ PacketTotal > 0
      /\ \A s \in Packets :
           /\ OnTrack => \/ drained + PacketTotal <= s.at
                        \/ End(s) <= drained + PacketTotal
           /\ Clear(s.at) /\ drained < s.at => drained + PacketTotal <= s.at
  BY <1>1, <1>2, Jump
<1>4. drained + PacketTotal \in drained + 1..arrived
  BY <1>1, <1>2, <1>3
<1>5. drained + 4 \in 1..Len(wire)
  BY <1>1, <1>2, Positions, Constants DEF HeaderThere
<1>6. Length \in Nat
  BY <1>1, <1>5, Positions DEF Length
<1> QED
  BY <1>1, <1>2, <1>3, <1>4, <1>6 DEF PacketTotal

LEMMA TakeKeeps == FrameInv /\ (TakePacket \/ TakeHeartbeat) => FrameInv'
<1> SUFFICES ASSUME FrameInv, TakePacket \/ TakeHeartbeat PROVE FrameInv'
  OBVIOUS
<1>1. Whole /\ reading
  BY DEF TakePacket, TakeHeartbeat
<1>2. /\ TypeOK /\ Layout /\ Aligned
      /\ drained \in Nat /\ arrived \in Nat /\ dropped \in Nat
      /\ HeaderThere /\ MagicOk /\ VersionOk
      /\ drained + PacketTotal \in drained + 1..arrived
      /\ Length \in Nat /\ PacketTotal = Length + HeaderLen
      /\ \A s \in Packets :
           /\ OnTrack => \/ drained + PacketTotal <= s.at
                        \/ End(s) <= drained + PacketTotal
           /\ Clear(s.at) /\ drained < s.at => drained + PacketTotal <= s.at
  BY <1>1, WholeTaken
<1>3. /\ drained' = drained + PacketTotal
      /\ UNCHANGED <<readVars, due, reading, failed, dropped>>
  BY <1>2, Constants DEF TakePacket, TakeHeartbeat
<1>4. role' = role /\ sent' = sent
  BY <1>3 DEF readVars
<1>5. /\ OnTrack' => OnTrack
      /\ \A q : Clear(q)' => Clear(q)
  BY <1>2, <1>3, <1>4, ClearLater
<1>6. Grows(decoded, decoded') /\ Grows(echoed, echoed')
  BY <1>1 DEF TakePacket, TakeHeartbeat, Grows
<1>7. \A ds \in {decoded, echoed} :
        \E i \in DOMAIN Append(ds, Found) : Append(ds, Found)[i] = Found
  <2>1. ASSUME NEW ds \in Seq(Finding)
        PROVE  \E i \in DOMAIN Append(ds, Found) : Append(ds, Found)[i] = Found
    <3>1. /\ Len(ds) + 1 \in DOMAIN Append(ds, Found)
          /\ Append(ds, Found)[Len(ds) + 1] = Found
      OBVIOUS
    <3> QED
      BY <3>1
  <2> QED
    BY <2>1, <1>2 DEF TypeOK
<1>8. ASSUME NEW s \in Packets, drained <= s.at, s.at < drained', Clear(s.at)'
      PROVE  Handled(s)'
  <2>0. s \in Segment /\ s.at \in Nat
    BY <1>2, SentIs DEF Packets
  <2>1. s.at = drained
    <3>1. drained < s.at => drained + PacketTotal <= s.at
      BY <1>2, <1>5, <1>8
    <3> QED
      BY <3>1, <2>0, <1>2, <1>3, <1>8
  <2>2. /\ Found = [at |-> s.at, body |-> s.body]
        /\ Length = Len(s.body) /\ s.body \in Seq(Byte)
    BY <2>0, <2>1, <1>2, AtPacket, WireOf
  <2>3. CASE TakePacket
    <3>1. s.body # <<>> /\ decoded' = Append(decoded, Found)
      BY <2>2, <2>3 DEF TakePacket
    <3> QED
      BY <3>1, <2>2, <1>7 DEF Handled
  <2>4. CASE TakeHeartbeat
    <3>1. s.body = <<>>
      <4>1. Len(s.body) = 0
        BY <2>2, <2>4 DEF TakeHeartbeat
      <4> QED
        BY <4>1, <2>2, EmptySeq
    <3>2. role = "server" => echoed' = Append(echoed, Found)
      BY <2>4 DEF TakeHeartbeat
    <3> QED
      BY <3>1, <3>2, <2>2, <1>4, <1>7 DEF Handled
  <2> QED
    BY <2>3, <2>4
<1>9. OnTrack' => \A s \in Packets : drained' <= s.at \/ End(s) <= drained'
  BY <1>2, <1>3, <1>5
<1> QED
  BY <1>1, <1>2, <1>3, <1>6, <1>8, <1>9, Advance DEF TypeOK

LEMMA PullupFailsKeeps == FrameInv /\ PullupFails => FrameInv'
<1> SUFFICES ASSUME FrameInv, PullupFails PROVE FrameInv'
  OBVIOUS
<1>1. /\ Whole /\ reading /\ reading' = FALSE
      /\ drained' = IF role = "server" THEN drained + PacketTotal ELSE arrived
      /\ failed' = TRUE /\ dropped' = drained'
      /\ UNCHANGED <<readVars, due, decoded, echoed>>
  BY DEF PullupFails
<1>2. /\ TypeOK /\ Layout /\ Aligned
      /\ drained \in Nat /\ arrived \in Nat /\ dropped \in Nat
      /\ drained + PacketTotal \in drained + 1..arrived
      /\ \A s \in Packets :
           OnTrack => \/ drained + PacketTotal <= s.at
                      \/ End(s) <= drained + PacketTotal
  BY <1>1, WholeTaken
<1>3. role' = role /\ sent' = sent
  BY <1>1 DEF readVars
<1>4. drained' \in drained + 1..arrived
  BY <1>1, <1>2
<1>5. drained' \in Nat /\ dropped' \in Nat /\ dropped <= dropped'
  BY <1>1, <1>2, <1>4 DEF TypeOK
<1>6. OnTrack' => OnTrack
  BY <1>2, <1>3, <1>5, ClearLater
<1>7. OnTrack' => role = "server"
  BY <1>1, <1>2, <1>3, <1>4 DEF OnTrack, TypeOK
<1>8. OnTrack' => \A s \in Packets : drained' <= s.at \/ End(s) <= drained'
  BY <1>1, <1>2, <1>6, <1>7
<1>9. ASSUME NEW s \in Packets, s.at < drained', s.at >= dropped' PROVE FALSE
  BY <1>1, <1>2, <1>5, <1>9, SentIs DEF Packets
<1> QED
  BY <1>1, <1>2, <1>4, <1>8, <1>9, Advance DEF TypeOK, Grows

-----------------------------------------------------------------------------
(* Theorems *)

LEMMA FramingInvariant == Spec => []FrameInv
<1>1. Init => FrameInv
  <2> SUFFICES ASSUME Init PROVE FrameInv
    OBVIOUS
  <2>1. /\ sent = {} /\ wire = <<>> /\ arrived = 0 /\ drained = 0
        /\ dropped = 0 /\ decoded = <<>> /\ echoed = <<>>
    BY DEF Init
  <2>2. TypeOK
    <3>1. wire \in Seq(Byte) /\ Len(wire) = 0
      BY <2>1
    <3>2. decoded \in Seq(Finding) /\ echoed \in Seq(Finding)
      BY <2>1
    <3>3. /\ sent \in SUBSET Segment /\ arrived \in 0..Len(wire)
          /\ drained \in 0..arrived /\ dropped \in 0..drained
      BY <2>1, <3>1
    <3>4. /\ role \in {"channel", "server"}
          /\ due \in BOOLEAN /\ reading \in BOOLEAN /\ failed \in BOOLEAN
      BY DEF Init
    <3> QED
      BY <3>1, <3>2, <3>3, <3>4 DEF TypeOK
  <2>3. Layout /\ Aligned /\ PassedHandled
    BY <2>1 DEF Layout, Aligned, PassedHandled, Packets
  <2>4. Behind /\ NothingInvented
    BY <2>1 DEF Behind, NothingInvented, InOrder
  <2>5. Settled
    BY <2>1, Constants DEF Settled, Waiting, HeaderThere
  <2> QED
    BY <2>2, <2>3, <2>4, <2>5 DEF FrameInv
<1>2. FrameInv /\ [Next]_vars => FrameInv'
  <2> SUFFICES ASSUME FrameInv, [Next]_vars PROVE FrameInv'
    OBVIOUS
  <2>1. ASSUME NEW b \in Bodies, Send("packet", b) \/ Send("alien", b)
        PROVE  FrameInv'
    <3>1. Len(wire) \in Nat
      BY Positions DEF FrameInv
    <3>2. \A kind \in {"packet", "alien"} :
            [kind |-> kind, body |-> b, at |-> Len(wire)] \in Segment
      BY <3>1 DEF Segment
    <3> QED
      BY <2>1, <3>2, SendKeeps
  <2>2. ASSUME NEW n \in Noise, Send("noise", n) PROVE FrameInv'
    <3>1. Len(wire) \in Nat
      BY Positions DEF FrameInv
    <3>2. [kind |-> "noise", body |-> n, at |-> Len(wire)] \in Segment
      BY <3>1 DEF Segment
    <3> QED
      BY <2>2, <3>2, SendKeeps
  <2> QED
    BY <2>1, <2>2, IdleKeeps, SkipByteKeeps, SkipHeaderKeeps, TakeKeeps,
       PullupFailsKeeps DEF Next
<1> QED
  BY <1>1, <1>2, PTL DEF Spec

(* Every variable stays in its type: no position runs ahead of what has      *)
(* arrived.                                                                 *)
THEOREM FramingTypeCorrect == Spec => []TypeOK
<1>1. FrameInv => TypeOK
  BY DEF FrameInv
<1> QED
  BY <1>1, FramingInvariant, PTL

(* What read_cb hands to decode, and what the server echoes, was sent:      *)
(* nothing is made up of aliens, noise or parts of packets, however the     *)
(* stream is cut and wherever evbuffer_pullup fails.                        *)
THEOREM OnlyPacketsFound == Spec => []NothingInvented
<1>1. FrameInv => NothingInvented
  BY DEF FrameInv
<1> QED
  BY <1>1, FramingInvariant, PTL

(* And when it returns everything that is there was found.                  *)
THEOREM AllPacketsFound == Spec => []NothingHeldBack
<1>1. FrameInv => NothingHeldBack
  <2> SUFFICES ASSUME FrameInv, Quiet,
                      NEW s \in Packets, s.at >= dropped, Clear(s.at)
               PROVE  Handled(s)
    BY DEF NothingHeldBack, Handled
  <2>1. /\ TypeOK /\ Layout /\ Aligned /\ PassedHandled /\ Waiting
    BY DEF FrameInv, Settled, Quiet
  <2>2. /\ s \in sent /\ s.at \in Nat /\ End(s) \in Nat /\ s.at < End(s)
        /\ End(s) <= arrived /\ drained \in Nat /\ arrived \in Nat
        /\ drained <= arrived
    BY <2>1, SentIs, Positions DEF Packets, Quiet
  <2>3. ASSUME drained <= s.at PROVE FALSE
    <3>1. End(s) = s.at + 4 + Len(s.body) /\ Len(s.body) \in Nat
      <4>1. s \in Segment /\ s.kind = "packet"
        BY <2>1, <2>2, SentIs DEF Packets
      <4>2. Len(Wire(s)) = 4 + Len(s.body) /\ s.body \in Seq(Byte)
        BY <4>1, WireOf, Constants
      <4>3. Len(s.body) \in Nat
        BY <4>2
      <4> QED
        BY <4>2, <4>3, <2>2 DEF End
    <3>2. HeaderThere
      BY <3>1, <2>2, <2>3, Constants DEF HeaderThere
    <3>3. MagicOk /\ VersionOk /\ ~Whole
      BY <2>1, <3>2 DEF Waiting
    <3>4. /\ PacketTotal \in Nat
          /\ drained < s.at => drained + PacketTotal <= s.at
      BY <2>1, <3>2, <3>3, Jump
    <3>5. drained = s.at => drained + PacketTotal = End(s)
      BY <2>1, <3>2, AtPacket
    <3>6. drained + PacketTotal <= arrived
      BY <3>4, <3>5, <2>2, <2>3
    <3> QED
      BY <3>2, <3>3, <3>4, <3>6, <2>2 DEF Whole
  <2> QED
    BY <2>1, <2>2, <2>3 DEF PassedHandled
<1> QED
  BY <1>1, FramingInvariant, PTL
=============================================================================
