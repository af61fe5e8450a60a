------------------------ MODULE QueueDiscRun_proofs ------------------------
(***************************************************************************)
(* Proofs about QueueDiscRun for packets of any sizes, any limits and any  *)
(* number of arrivals: the output implements the safety part of FifoLink,  *)
(* and no backlog is left without somebody who will run the queue disc.    *)
(***************************************************************************)
EXTENDS QueueDiscRun, Sums_proofs

-----------------------------------------------------------------------------
(* The bytes of a device queue that gains or loses a packet.               *)

Weights(q) == [i \in DOMAIN q |-> q[i].size + Header]

LEMMA PacketWeight ==
    ASSUME NEW p \in Packet
    PROVE  p.size \in Sizes /\ p.size \in Nat /\ Header \in Nat /\ p.size + Header \in Nat
<1>1. p.size \in Sizes
  BY DEF Packet
<1>2. p.size \in Nat /\ Header \in Nat
  BY <1>1, SizeAssumption
<1> QED
  BY <1>1, <1>2

LEMMA WeightsType ==
    ASSUME NEW q \in Seq(Packet)
    PROVE  /\ Weights(q) \in Seq(Nat) /\ Weights(q) \in Seq(Int) /\ Len(Weights(q)) = Len(q)
           /\ \A i \in 1..Len(q) : Weights(q)[i] = q[i].size + Header
<1>1. DOMAIN q = 1..Len(q) /\ Len(q) \in Nat /\ \A i \in 1..Len(q) : q[i].size + Header \in Nat
  <2>1. \A i \in 1..Len(q) : q[i] \in Packet
    OBVIOUS
  <2> QED
    BY <2>1, PacketWeight
<1>2. Weights(q) = [i \in 1..Len(q) |-> q[i].size + Header]
  BY <1>1 DEF Weights
<1>3. Weights(q) \in Seq(Nat) /\ Len(Weights(q)) = Len(q)
  BY <1>1, <1>2
<1>4. Weights(q) \in Seq(Int)
  BY <1>3, SeqMonotonic
<1> QED
  BY <1>2, <1>3, <1>4

LEMMA BytesEmpty == Bytes(<<>>) = 0
<1>1. Weights(<<>>) = <<>>
  BY DEF Weights
<1> QED
  BY <1>1, SumEmpty DEF Bytes, Weights

LEMMA BytesType ==
    ASSUME NEW q \in Seq(Packet)
    PROVE  Bytes(q) \in Nat
BY WeightsType, SumNat DEF Bytes, Weights

LEMMA BytesAppend ==
    ASSUME NEW q \in Seq(Packet), NEW p \in Packet
    PROVE  Bytes(Append(q, p)) = Bytes(q) + (p.size + Header)
<1> DEFINE w == p.size + Header
           more == Append(q, p)
<1>1. more \in Seq(Packet) /\ w \in Int
  BY PacketWeight
<1>2. /\ Len(more) = Len(q) + 1 /\ Len(q) \in Nat /\ more[Len(q) + 1] = p
      /\ \A i \in 1..Len(q) : more[i] = q[i]
  OBVIOUS
<1>3. /\ Weights(q) \in Seq(Int) /\ Len(Weights(q)) = Len(q)
      /\ Weights(more) \in Seq(Int) /\ Len(Weights(more)) = Len(q) + 1
      /\ \A i \in 1..Len(q) : Weights(q)[i] = q[i].size + Header
      /\ \A i \in 1..(Len(q) + 1) : Weights(more)[i] = more[i].size + Header
  BY <1>1, <1>2, WeightsType
<1>4. Weights(more) = Append(Weights(q), w)
  <2> HIDE DEF more
  <2>1. \A i \in 1..(Len(q) + 1) : Weights(more)[i] = Append(Weights(q), w)[i]
    <3> SUFFICES ASSUME NEW i \in 1..(Len(q) + 1)
                 PROVE  Weights(more)[i] = Append(Weights(q), w)[i]
      OBVIOUS
    <3>1. CASE i = Len(q) + 1
      BY <1>1, <1>2, <1>3, <3>1
    <3>2. CASE i # Len(q) + 1
      <4>1. i \in 1..Len(q)
        BY <1>2, <3>2
      <4>2. Append(Weights(q), w)[i] = Weights(q)[i]
        BY <1>1, <1>3, <4>1, AppendProperties
      <4> QED
        BY <1>2, <1>3, <4>1, <4>2
    <3> QED
      BY <3>1, <3>2
  <2>2. Append(Weights(q), w) \in Seq(Int) /\ Len(Append(Weights(q), w)) = Len(q) + 1
    BY <1>1, <1>3, AppendProperties
  <2> HIDE DEF w
  <2> QED
    BY <1>3, <2>1, <2>2, SeqEqual
<1>5. SumSeq(Append(Weights(q), w)) = SumSeq(Weights(q)) + w
  BY <1>1, <1>3, SumAppend
<1> QED
  BY <1>4, <1>5 DEF Bytes, Weights

LEMMA BytesTail ==
    ASSUME NEW q \in Seq(Packet), q # <<>>
    PROVE  Bytes(q) = (Head(q).size + Header) + Bytes(Tail(q))
<1> DEFINE rest == Tail(q)
<1>1. /\ rest \in Seq(Packet) /\ Len(rest) = Len(q) - 1 /\ Len(rest) \in Nat
      /\ Head(q) = q[1] /\ Len(q) \in Nat \ {0}
      /\ \A i \in 1..Len(rest) : rest[i] = q[i + 1]
  BY HeadTailProperties
<1> HIDE DEF rest
<1>2. /\ Weights(q) \in Seq(Int) /\ Len(Weights(q)) = Len(q)
      /\ Weights(rest) \in Seq(Int) /\ Len(Weights(rest)) = Len(rest)
      /\ \A i \in 1..Len(q) : Weights(q)[i] = q[i].size + Header
      /\ \A i \in 1..Len(rest) : Weights(rest)[i] = rest[i].size + Header
  BY <1>1, WeightsType
<1>3. Weights(q) # <<>> /\ Head(Weights(q)) = Head(q).size + Header
  BY <1>1, <1>2
<1>4. /\ Tail(Weights(q)) \in Seq(Int) /\ Len(Tail(Weights(q))) = Len(rest)
      /\ \A i \in 1..Len(rest) : Tail(Weights(q))[i] = Weights(q)[i + 1]
  BY <1>1, <1>2, <1>3, HeadTailProperties
<1>5. Tail(Weights(q)) = Weights(rest)
  <2>1. \A i \in 1..Len(rest) : Tail(Weights(q))[i] = Weights(rest)[i]
    <3> SUFFICES ASSUME NEW i \in 1..Len(rest) PROVE Tail(Weights(q))[i] = Weights(rest)[i]
      OBVIOUS
    <3>1. i + 1 \in 1..Len(q)
      BY <1>1
    <3> QED
      BY <1>1, <1>2, <1>4, <3>1
  <2> QED
    BY <1>2, <1>4, <2>1, SeqEqual
<1>6. SumSeq(Weights(q)) = Head(Weights(q)) + SumSeq(Tail(Weights(q)))
  BY <1>2, <1>3, SumTail
<1> QED
  BY <1>3, <1>5, <1>6 DEF rest, Bytes, Weights

-----------------------------------------------------------------------------
(* The invariants.                                                         *)

Shape ==
    /\ arrived \in 0..Total /\ up \in Nat
    /\ qdisc \in Seq(Packet) /\ devq \in Seq(Packet)
    /\ current \in Seq(Packet) /\ channel \in Seq(Packet)
    /\ running \in BOOLEAN /\ quota \in 0..UintMax
    /\ stopped \in BOOLEAN /\ wakes \in Nat /\ busy \in BOOLEAN

\* The device queue is stopped exactly while it has no room; an idle transmitter has
\* nothing to send.
Device ==
    /\ ~busy => devq = <<>> /\ current = <<>>
    /\ stopped <=> ~HasRoom(devq)
    /\ stopped => busy /\ devq # <<>>

LinkInv == Shape /\ Device

\* The device queue has come to have room with its last packet.
JustWoken == \E s \in Sizes : Bytes(devq) + Mtu + (s + Header) > DevMax

SmallestSize == CHOOSE s \in Sizes : \A t \in Sizes : s <= t

\* What is left of the quota is enough to fill the device queue.
QuotaLeft == Bytes(devq) + Mtu + quota * (SmallestSize + Header) > DevMax

\* Who will run the queue disc: a Run of a single packet, a Run with quota enough to
\* stop the device queue, a wake-up event, or the stopped device queue.
Served ==
    /\ wakes > 0 => busy /\ JustWoken
    /\ running /\ ~stopped /\ wakes = 0 /\ qdisc # <<>> =>
           Len(qdisc) = 1 \/ (busy /\ QuotaLeft)
    /\ ~running /\ ~stopped /\ wakes = 0 => qdisc = <<>>

WakeInv == LinkInv /\ Served

\* A Run may move as many of the smallest packets as one of the largest takes bytes:
\* the default quota of 64 does for the packets of TCP on a link of 1500 bytes.
QuotaCovers == \A s, t \in Sizes : s + Header <= Quota * (t + Header)

-----------------------------------------------------------------------------
(* The link without the quota: what fits, and who is stopped.              *)

LEMMA Constants ==
    /\ Header \in Nat /\ Mtu \in Nat /\ DevMax \in Nat /\ Total \in Nat
    /\ UintMax \in Nat /\ Quota \in 0..UintMax
    /\ Mtu <= DevMax /\ \A s \in Sizes : s \in Nat /\ s + Header <= Mtu
BY SizeAssumption, QueueAssumption, QuotaAssumption, RoomAssumption

LEMMA RoomWhenEmpty == HasRoom(<<>>)
BY BytesEmpty, Constants DEF HasRoom

\* Room for the largest packet is room for any.
LEMMA RoomIsEnough ==
    ASSUME NEW q \in Seq(Packet), NEW p \in Packet, HasRoom(q)
    PROVE  Fits(q, p)
<1>1. Bytes(q) \in Nat /\ p.size \in Nat /\ p.size + Header <= Mtu
  BY BytesType, PacketWeight, Constants
<1> QED
  BY <1>1, Constants DEF Fits, HasRoom

LEMMA FirstOf ==
    ASSUME NEW q \in Seq(Packet), q # <<>>
    PROVE  Head(q) \in Packet /\ Tail(q) \in Seq(Packet) /\ Len(Tail(q)) = Len(q) - 1
BY HeadTailProperties

\* Every packet that arrives has a number of its own.
LEMMA ArrivalType ==
    ASSUME Shape, NEW s \in Sizes, Send(s)
    PROVE  Arrival(s) \in Packet /\ arrived' \in 0..Total
<1>1. arrived \in 0..Total /\ arrived < Total /\ arrived' = arrived + 1
  BY DEF Shape, Send
<1>2. arrived + 1 \in 1..Total /\ arrived' \in 0..Total
  BY <1>1, Constants
<1> QED
  BY <1>2 DEF Arrival, Packet

\* The quota counts down in an unsigned number.
LEMMA QuotaType ==
    ASSUME Shape, GoOn
    PROVE  /\ quota' \in 0..UintMax /\ running' \in BOOLEAN
           /\ quota > 0 => quota' = quota - 1
<1>1. quota' = (quota + UintMax) % (UintMax + 1) /\ running' \in BOOLEAN
  BY DEF GoOn
<1>2. quota \in 0..UintMax /\ UintMax \in Nat
  BY Constants DEF Shape
<1>3. quota' \in 0..UintMax
  <2>1. quota + UintMax \in Nat /\ UintMax + 1 \in Nat /\ UintMax + 1 > 0
    BY <1>2
  <2>2. \A a \in Int, b \in Nat \ {0} : a % b \in 0..(b - 1)
    OBVIOUS
  <2>3. quota' \in 0..((UintMax + 1) - 1)
    BY <1>1, <2>1, <2>2
  <2> QED
    BY <1>2, <2>3
<1>4. ASSUME quota > 0 PROVE quota' = quota - 1
  <2>1. \A m \in Nat \ {0} : \A r \in 0..(m - 1) : (r + m) % m = r
    OBVIOUS
  <2>2. quota - 1 \in 0..((UintMax + 1) - 1) /\ UintMax + 1 \in Nat \ {0}
    BY <1>2, <1>4
  <2>3. ((quota - 1) + (UintMax + 1)) % (UintMax + 1) = quota - 1
    BY <2>1, <2>2
  <2>4. (quota - 1) + (UintMax + 1) = quota + UintMax
    BY <1>2
  <2> QED
    BY <1>1, <2>3, <2>4
<1> QED
  BY <1>1, <1>3, <1>4

\* The packet that leaves the queue disc for the device queue is never discarded.
LEMMA QueueOutcome ==
    ASSUME LinkInv, Queue
    PROVE  /\ Head(qdisc) \in Packet /\ qdisc # <<>> /\ busy /\ ~stopped /\ running
           /\ qdisc' = Tail(qdisc) /\ devq' = Append(devq, Head(qdisc))
           /\ stopped' \in BOOLEAN /\ (stopped' <=> ~HasRoom(devq'))
           /\ devq' \in Seq(Packet) /\ devq' # <<>> /\ GoOn
           /\ UNCHANGED <<arrived, wakes, busy, current, channel, up>>
<1>1. qdisc # <<>> /\ qdisc \in Seq(Packet) /\ devq \in Seq(Packet) /\ ~stopped /\ HasRoom(devq)
  BY DEF LinkInv, Shape, Device, Queue
<1>2. Head(qdisc) \in Packet
  BY <1>1, FirstOf
<1>3. Fits(devq, Head(qdisc))
  BY <1>1, <1>2, RoomIsEnough
<1>4. Append(devq, Head(qdisc)) \in Seq(Packet) /\ Append(devq, Head(qdisc)) # <<>>
  BY <1>1, <1>2, AppendProperties
<1> QED
  BY <1>1, <1>2, <1>3, <1>4 DEF Queue

\* An idle transmitter takes the packet at once, and leaves the device queue empty.
LEMMA TransmitOutcome ==
    ASSUME LinkInv, Transmit
    PROVE  /\ Head(qdisc) \in Packet /\ qdisc # <<>> /\ ~busy /\ ~stopped /\ running
           /\ devq = <<>> /\ current = <<>>
           /\ qdisc' = Tail(qdisc) /\ devq' = <<>> /\ current' = <<Head(qdisc)>>
           /\ stopped' = FALSE /\ busy' = TRUE /\ GoOn
           /\ wakes' = IF HasRoom(<<Head(qdisc)>>) THEN wakes ELSE wakes + 1
           /\ UNCHANGED <<arrived, channel, up>>
<1>1. /\ qdisc # <<>> /\ qdisc \in Seq(Packet) /\ devq = <<>> /\ current = <<>>
      /\ ~busy /\ ~stopped /\ running
  BY DEF LinkInv, Shape, Device, Transmit
<1>2. Head(qdisc) \in Packet
  BY <1>1, FirstOf
<1>3. Append(devq, Head(qdisc)) = <<Head(qdisc)>> /\ Tail(<<Head(qdisc)>>) = <<>>
      /\ Head(<<Head(qdisc)>>) = Head(qdisc)
  BY <1>1
<1>4. /\ Wake(<<>>, ~HasRoom(<<Head(qdisc)>>)) /\ devq' = <<>>
      /\ current' = <<Head(qdisc)>>
  BY <1>3 DEF Transmit
<1>5. /\ stopped' = FALSE
      /\ wakes' = IF HasRoom(<<Head(qdisc)>>) THEN wakes ELSE wakes + 1
  BY <1>4, RoomWhenEmpty DEF Wake
<1> QED
  BY <1>1, <1>2, <1>4, <1>5 DEF Transmit

\* At the end of a transmission the next packet of the device queue follows.
LEMMA CompleteOutcome ==
    ASSUME LinkInv, TransmitComplete, devq # <<>>
    PROVE  /\ Head(devq) \in Packet /\ ~running /\ wakes = 0 /\ busy
           /\ devq' = Tail(devq) /\ devq' \in Seq(Packet) /\ current' = <<Head(devq)>>
           /\ Bytes(devq) = (Head(devq).size + Header) + Bytes(devq')
           /\ stopped' \in BOOLEAN /\ (stopped' <=> ~HasRoom(devq'))
           /\ wakes' = IF stopped /\ HasRoom(devq') THEN 1 ELSE 0
           /\ channel' = channel \o current
           /\ UNCHANGED <<arrived, qdisc, running, quota, busy, up>>
<1>1. devq \in Seq(Packet) /\ busy /\ ~running /\ wakes = 0 /\ (stopped <=> ~HasRoom(devq))
      /\ stopped \in BOOLEAN
  BY DEF LinkInv, Shape, Device, TransmitComplete
<1>2. Head(devq) \in Packet /\ Tail(devq) \in Seq(Packet)
      /\ Bytes(devq) = (Head(devq).size + Header) + Bytes(Tail(devq))
  BY <1>1, FirstOf, BytesTail
<1>3. HasRoom(devq) => HasRoom(Tail(devq))
  <2>1. Bytes(Tail(devq)) \in Nat /\ Head(devq).size + Header \in Nat
    BY <1>2, BytesType, PacketWeight
  <2> QED
    BY <1>2, <2>1, Constants DEF HasRoom
<1>4. /\ devq' = Tail(devq) /\ Wake(Tail(devq), stopped) /\ current' = <<Head(devq)>>
      /\ channel' = channel \o current /\ UNCHANGED <<arrived, qdisc, running, quota, busy, up>>
  BY DEF TransmitComplete
<1>5. stopped' \in BOOLEAN /\ (stopped' <=> ~HasRoom(devq'))
  <2>1. stopped' = (stopped /\ ~HasRoom(Tail(devq)))
    BY <1>4, Zenon DEF Wake
  <2>2. stopped' \in BOOLEAN /\ (stopped' <=> (stopped /\ ~HasRoom(Tail(devq))))
    BY <2>1
  <2>3. stopped' <=> ~HasRoom(Tail(devq))
    BY <1>1, <1>3, <2>2, Zenon
  <2> QED
    BY <1>4, <2>2, <2>3
<1>6. wakes' = IF stopped /\ HasRoom(devq') THEN 1 ELSE 0
  <2>1. wakes' = IF stopped /\ HasRoom(Tail(devq)) THEN wakes + 1 ELSE wakes
    BY <1>4, Zenon DEF Wake
  <2>2. wakes = 0 /\ devq' = Tail(devq) /\ 0 + 1 = 1
    BY <1>1, <1>4
  <2> QED
    BY <2>1, <2>2, Zenon
<1> QED
  BY <1>1, <1>2, <1>4, <1>5, <1>6, Zenon

LEMMA LinkStarts == Init => LinkInv
<1> SUFFICES ASSUME Init PROVE LinkInv
  OBVIOUS
<1>1. Shape
  <2>1. <<>> \in Seq(Packet) /\ 0 \in 0..Total /\ 0 \in 0..UintMax /\ 0 \in Nat
    BY Constants
  <2> QED
    BY <2>1, Zenon DEF Init, Shape
<1>2. Device
  BY RoomWhenEmpty DEF Init, Device
<1> QED
  BY <1>1, <1>2 DEF LinkInv

LEMMA LinkStep == LinkInv /\ [Next]_vars => LinkInv'
<1> SUFFICES ASSUME LinkInv, [Next]_vars PROVE LinkInv'
  OBVIOUS
<1>0. Shape /\ Device
  BY DEF LinkInv
<1>1. ASSUME NEW s \in Sizes, Send(s) PROVE LinkInv'
  <2>1. arrived' \in 0..Total /\ Arrival(s) \in Packet
    BY <1>0, <1>1, ArrivalType
  <2>2. qdisc' \in Seq(Packet)
    BY <1>0, <1>1, <2>1 DEF Send, Shape
  <2>3. quota' \in 0..UintMax /\ running' = TRUE
    BY <1>1, Constants DEF Send, RunBegin
  <2>4. UNCHANGED <<devq, stopped, wakes, busy, current, channel, up>>
    BY <1>1 DEF Send
  <2> QED
    BY <1>0, <2>1, <2>2, <2>3, <2>4 DEF LinkInv, Shape, Device
<1>2. CASE RunEnd
  BY <1>0, <1>2 DEF RunEnd, LinkInv, Shape, Device
<1>3. CASE Queue
  <2>1. /\ Head(qdisc) \in Packet /\ Tail(qdisc) \in Seq(Packet) /\ devq' \in Seq(Packet)
    BY <1>0, <1>3, QueueOutcome, FirstOf DEF Shape
  <2>2. Shape'
    BY <1>0, <1>3, <2>1, QueueOutcome, QuotaType DEF Shape
  <2>3. Device'
    <3>1. (stopped' <=> ~HasRoom(devq')) /\ busy' /\ devq' # <<>>
      BY <1>0, <1>3, QueueOutcome
    <3> QED
      BY <3>1, Zenon DEF Device
  <2> QED
    BY <2>2, <2>3 DEF LinkInv
<1>4. CASE Transmit
  <2>1. Head(qdisc) \in Packet /\ Tail(qdisc) \in Seq(Packet) /\ <<Head(qdisc)>> \in Seq(Packet)
    BY <1>0, <1>4, TransmitOutcome, FirstOf DEF Shape
  <2>2. wakes' \in Nat /\ <<>> \in Seq(Packet)
    BY <1>0, <1>4, TransmitOutcome DEF Shape
  <2>3. Shape'
    BY <1>0, <1>4, <2>1, <2>2, TransmitOutcome, QuotaType DEF Shape
  <2>4. Device'
    BY <1>0, <1>4, TransmitOutcome, RoomWhenEmpty DEF Device
  <2> QED
    BY <2>3, <2>4 DEF LinkInv
<1>5. CASE WakeCallback
  <2>1. wakes' \in Nat /\ quota' \in 0..UintMax /\ running' = TRUE
    BY <1>0, <1>5, Constants DEF WakeCallback, RunBegin, Shape
  <2> QED
    BY <1>0, <1>5, <2>1 DEF WakeCallback, LinkInv, Shape, Device
<1>6. CASE TransmitComplete
  <2>1. channel' \in Seq(Packet)
    <3>1. channel' = channel \o current
      BY <1>6 DEF TransmitComplete
    <3> QED
      BY <1>0, <3>1, ConcatProperties DEF Shape
  <2>2. CASE devq = <<>>
    BY <1>0, <1>6, <2>1, <2>2 DEF TransmitComplete, LinkInv, Shape, Device
  <2>3. CASE devq # <<>>
    <3>1. /\ stopped' \in BOOLEAN /\ devq' \in Seq(Packet)
          /\ current' \in Seq(Packet) /\ wakes' \in Nat
          /\ UNCHANGED <<arrived, qdisc, running, quota, busy, up>>
      <4>1. Head(devq) \in Packet /\ current' = <<Head(devq)>> /\ wakes' \in {0, 1}
        BY <1>6, <2>3, CompleteOutcome, Zenon
      <4>2. current' \in Seq(Packet) /\ wakes' \in Nat
        BY <4>1
      <4> QED
        BY <1>6, <2>3, <4>2, CompleteOutcome, Zenon
    <3>2. Shape'
      BY <1>0, <2>1, <3>1 DEF Shape
    <3>3. Device'
      BY <1>6, <2>3, <3>1, CompleteOutcome, RoomWhenEmpty DEF Device
    <3> QED
      BY <3>2, <3>3 DEF LinkInv
  <2> QED
    BY <2>2, <2>3
<1>7. CASE Receive
  <2>1. channel' \in Seq(Packet)
    BY <1>0, <1>7, FirstOf DEF Receive, Shape
  <2> QED
    BY <1>0, <1>7, <2>1 DEF Receive, LinkInv, Shape, Device
<1>8. CASE UNCHANGED vars
  BY <1>0, <1>8 DEF vars, LinkInv, Shape, Device
<1> QED
  BY <1>1, <1>2, <1>3, <1>4, <1>5, <1>6, <1>7, <1>8 DEF Next

-----------------------------------------------------------------------------
(* The link with the quota: nobody polls, and yet every backlog is served. *)

LEMMA SmallestIsLeast ==
    ASSUME NEW s \in Sizes
    PROVE  /\ SmallestSize \in Sizes /\ SmallestSize + Header \in Nat
           /\ SmallestSize <= s
<1>1. Sizes \subseteq Nat /\ Sizes # {}
  BY SizeAssumption
<1>2. PICK m \in Sizes : \A t \in Sizes : <<t, m>> \notin OpToRel(<, Nat)
  BY <1>1, NatLessThanWellFounded, WFMin
<1>3. \A t \in Sizes : m <= t
  <2> SUFFICES ASSUME NEW t \in Sizes, ~(m <= t) PROVE FALSE
    OBVIOUS
  <2>1. m \in Nat /\ t \in Nat /\ t < m
    BY <1>1
  <2>2. <<t, m>> \in OpToRel(<, Nat)
    BY <2>1 DEF OpToRel
  <2> QED
    BY <1>2, <2>2
<1>4. SmallestSize \in Sizes /\ \A t \in Sizes : SmallestSize <= t
  BY <1>3, Zenon DEF SmallestSize
<1> QED
  BY <1>1, <1>4, Constants

\* A new packet in the device queue makes up for the quota it took.
LEMMA QuotaPaysOff ==
    ASSUME LinkInv, Queue, QuotaLeft
    PROVE  quota' = quota - 1 /\ QuotaLeft'
<1> DEFINE w == SmallestSize + Header
           h == Head(qdisc)
<1>1. /\ h \in Packet /\ devq \in Seq(Packet) /\ ~stopped /\ HasRoom(devq)
      /\ devq' = Append(devq, h) /\ GoOn /\ Shape
  BY QueueOutcome DEF LinkInv, Shape, Device
<1>2. /\ h.size \in Sizes /\ h.size \in Nat /\ h.size + Header \in Nat
      /\ Bytes(devq) \in Nat /\ Bytes(devq') = Bytes(devq) + (h.size + Header)
  BY <1>1, PacketWeight, BytesType, BytesAppend
<1>3. w \in Nat /\ w <= h.size + Header
  <2>1. w \in Nat /\ SmallestSize <= h.size /\ SmallestSize \in Nat
    BY <1>2, SmallestIsLeast, Constants
  <2> QED
    BY <1>2, <2>1, Constants
<1>4. quota \in Nat /\ UintMax \in Nat
  BY <1>1, Constants DEF Shape
<1>5. Bytes(devq) + Mtu <= DevMax /\ Bytes(devq) + Mtu + quota * w > DevMax
  BY <1>1 DEF HasRoom, QuotaLeft
<1> HIDE DEF w, h
<1>6. quota > 0
  <2>1. quota = 0 => quota * w = 0
    BY <1>3
  <2> QED
    BY <1>2, <1>4, <1>5, <2>1, Constants
<1>7. quota' = quota - 1
  BY <1>1, <1>6, QuotaType
<1>8. (quota - 1) * w + w = quota * w /\ quota * w \in Nat /\ (quota - 1) * w \in Nat
  <2>1. \A a \in Nat \ {0}, b \in Nat :
           (a - 1) * b + b = a * b /\ a * b \in Nat /\ (a - 1) * b \in Nat
    OBVIOUS
  <2> QED
    BY <1>3, <1>4, <1>6, <2>1
<1>9. Bytes(devq') + Mtu + (quota - 1) * w > DevMax
  <2> DEFINE x == quota * w
             y == (quota - 1) * w
  <2>1. x \in Nat /\ y \in Nat /\ y + w = x /\ Bytes(devq) + Mtu + x > DevMax
    BY <1>5, <1>8
  <2> HIDE DEF x, y
  <2>2. Bytes(devq') + Mtu + y > DevMax
    BY <1>2, <1>3, <2>1, Constants
  <2> QED
    BY <2>2 DEF y
<1> QED
  BY <1>7, <1>9 DEF QuotaLeft, w

LEMMA ServedStarts == Init => Served
BY DEF Init, Served

LEMMA ServedQueue ==
    ASSUME LinkInv, Served, Queue
    PROVE  Served'
<1> DEFINE h == Head(qdisc)
<1>1. /\ h \in Packet /\ qdisc # <<>> /\ qdisc \in Seq(Packet) /\ devq \in Seq(Packet)
      /\ busy /\ busy' = busy /\ ~stopped /\ running /\ wakes' = wakes /\ wakes \in Nat
      /\ qdisc' = Tail(qdisc) /\ devq' = Append(devq, h)
      /\ (stopped' <=> ~HasRoom(devq')) /\ GoOn /\ Shape
  BY QueueOutcome DEF LinkInv, Shape
<1>2. /\ Bytes(devq) \in Nat /\ h.size + Header \in Nat
      /\ Bytes(devq') = Bytes(devq) + (h.size + Header)
  BY <1>1, PacketWeight, BytesType, BytesAppend
<1>3. wakes' > 0 => busy' /\ JustWoken'
  <2> SUFFICES ASSUME wakes > 0 PROVE JustWoken'
    BY <1>1
  <2>1. PICK s \in Sizes : Bytes(devq) + Mtu + (s + Header) > DevMax
    BY DEF Served, JustWoken
  <2>2. Bytes(devq') + Mtu + (s + Header) > DevMax
    <3>1. s + Header \in Nat
      BY Constants
    <3> HIDE DEF h
    <3> QED
      BY <1>2, <2>1, <3>1, Constants
  <2> QED
    BY <2>2 DEF JustWoken
<1>4. ASSUME ~stopped', wakes' = 0, qdisc' # <<>>
      PROVE  running' /\ busy' /\ QuotaLeft'
  <2>1. Len(qdisc) # 1 /\ wakes = 0
    <3>1. Len(qdisc) = 1 => Tail(qdisc) = <<>>
      BY <1>1
    <3> QED
      BY <1>1, <1>4, <3>1
  <2>2. QuotaLeft
    BY <1>1, <2>1 DEF Served
  <2>3. quota' = quota - 1 /\ QuotaLeft'
    BY <2>2, QuotaPaysOff
  <2>4. quota' \in Nat
    BY <1>1, QuotaType, Constants
  <2>5. quota' # 0
    <3> SUFFICES ASSUME quota' = 0 PROVE FALSE
      OBVIOUS
    <3>1. h.size \in Sizes
      BY <1>1, PacketWeight
    <3>2. SmallestSize + Header \in Nat
      BY <3>1, SmallestIsLeast
    <3>3. Bytes(devq') + Mtu + 0 * (SmallestSize + Header) > DevMax
      BY <2>3 DEF QuotaLeft
    <3>4. 0 * (SmallestSize + Header) = 0
      BY <3>2
    <3>5. Bytes(devq') \in Nat
      BY <1>2
    <3>6. Bytes(devq') + Mtu > DevMax
      BY <3>3, <3>4, <3>5, Constants
    <3>7. ~HasRoom(devq')
      BY <3>5, <3>6, Constants DEF HasRoom
    <3> QED
      BY <1>1, <1>4, <3>7
  <2>6. running'
    <3>1. quota' > 0
      BY <2>4, <2>5
    <3>2. running' = (qdisc' # <<>> /\ ~stopped' /\ quota' > 0)
      BY <1>1, Zenon DEF GoOn
    <3> QED
      BY <1>4, <3>1, <3>2, Zenon
  <2> QED
    BY <1>1, <2>3, <2>6
<1> QED
  BY <1>3, <1>4 DEF Served

LEMMA ServedTransmit ==
    ASSUME LinkInv, Served, Transmit
    PROVE  Served'
<1>1. /\ Head(qdisc) \in Packet /\ qdisc # <<>> /\ qdisc \in Seq(Packet)
      /\ ~busy /\ ~stopped /\ running /\ qdisc' = Tail(qdisc) /\ devq' = <<>>
      /\ busy' = TRUE /\ wakes \in Nat
      /\ wakes' = IF HasRoom(<<Head(qdisc)>>) THEN wakes ELSE wakes + 1
  BY TransmitOutcome DEF LinkInv, Shape
<1>2. wakes = 0 /\ Len(qdisc) = 1
  BY <1>1 DEF Served
<1>3. qdisc' = <<>>
  BY <1>1, <1>2
<1>4. wakes' > 0 => JustWoken'
  <2> SUFFICES ASSUME ~HasRoom(<<Head(qdisc)>>) PROVE JustWoken'
    BY <1>1, <1>2
  <2> DEFINE h == Head(qdisc)
  <2>1. Bytes(<<h>>) = h.size + Header
    <3>1. <<h>> = Append(<<>>, h) /\ <<>> \in Seq(Packet) /\ h \in Packet
      BY <1>1
    <3>2. Bytes(Append(<<>>, h)) = Bytes(<<>>) + (h.size + Header)
      BY <3>1, BytesAppend
    <3>3. h.size + Header \in Nat
      BY <3>1, PacketWeight
    <3> QED
      BY <3>1, <3>2, <3>3, BytesEmpty
  <2>2. h.size \in Sizes /\ h.size + Header \in Nat
    BY <1>1, PacketWeight
  <2> HIDE DEF h
  <2>3. ~(Bytes(<<h>>) + Mtu <= DevMax)
    BY DEF HasRoom, h
  <2>4. 0 + Mtu + (h.size + Header) > DevMax
    BY <2>1, <2>2, <2>3, Constants
  <2> QED
    BY <1>1, <2>2, <2>4, BytesEmpty DEF JustWoken
<1> QED
  BY <1>1, <1>3, <1>4 DEF Served

LEMMA ServedCallback ==
    ASSUME QuotaCovers, LinkInv, Served, WakeCallback
    PROVE  Served'
<1>1. /\ wakes > 0 /\ wakes \in Nat /\ running' = TRUE /\ quota' = Quota
      /\ UNCHANGED <<qdisc, devq, stopped, busy>> /\ devq \in Seq(Packet)
  BY DEF WakeCallback, RunBegin, LinkInv, Shape
<1>2. busy /\ JustWoken
  BY <1>1 DEF Served
<1>3. JustWoken'
  BY <1>1, <1>2 DEF JustWoken
<1>4. QuotaLeft'
  <2>1. PICK s \in Sizes : Bytes(devq) + Mtu + (s + Header) > DevMax
    BY <1>2 DEF JustWoken
  <2> DEFINE w == SmallestSize + Header
             x == Quota * w
  <2>2. SmallestSize \in Sizes /\ w \in Nat
    BY SmallestIsLeast
  <2>3. s + Header <= x
    BY <2>2 DEF QuotaCovers
  <2>4. x \in Nat /\ s + Header \in Nat /\ Bytes(devq) \in Nat
    <3>1. \A a, b \in Nat : a * b \in Nat
      OBVIOUS
    <3>2. Quota \in Nat
      BY Constants
    <3> QED
      BY <1>1, <2>2, <3>1, <3>2, Constants, BytesType
  <2> HIDE DEF x
  <2>5. Bytes(devq) + Mtu + x > DevMax
    BY <2>1, <2>3, <2>4, Constants
  <2> QED
    BY <1>1, <2>5 DEF QuotaLeft, x
<1> QED
  BY <1>1, <1>2, <1>3, <1>4 DEF Served

LEMMA ServedComplete ==
    ASSUME LinkInv, Served, TransmitComplete
    PROVE  Served'
<1>1. /\ ~running /\ running' = running /\ wakes = 0 /\ busy /\ qdisc' = qdisc
      /\ devq \in Seq(Packet)
  BY DEF TransmitComplete, LinkInv, Shape
<1>2. CASE devq = <<>>
  BY <1>1, <1>2 DEF TransmitComplete, Served
<1>3. CASE devq # <<>>
  <2>1. /\ Head(devq) \in Packet /\ devq' \in Seq(Packet) /\ busy'
        /\ Bytes(devq) = (Head(devq).size + Header) + Bytes(devq')
        /\ (stopped' <=> ~HasRoom(devq'))
        /\ wakes' = IF stopped /\ HasRoom(devq') THEN 1 ELSE 0
        /\ (stopped <=> ~HasRoom(devq))
    <3>1. stopped <=> ~HasRoom(devq)
      BY DEF LinkInv, Device
    <3> QED
      BY <1>1, <1>3, <3>1, CompleteOutcome, Zenon
  <2>2. ASSUME wakes' > 0 PROVE JustWoken'
    <3>1. ~HasRoom(devq)
      BY <2>1, <2>2
    <3> DEFINE s == Head(devq).size
    <3>2. s \in Sizes /\ s + Header \in Nat /\ Bytes(devq') \in Nat /\ Bytes(devq) \in Nat
      BY <1>1, <2>1, PacketWeight, BytesType
    <3>3. Bytes(devq) = (s + Header) + Bytes(devq')
      BY <2>1
    <3> HIDE DEF s
    <3>4. Bytes(devq') + Mtu + (s + Header) > DevMax
      BY <3>1, <3>2, <3>3, Constants DEF HasRoom
    <3> QED
      BY <3>2, <3>4 DEF JustWoken
  <2>3. ASSUME ~stopped', wakes' = 0 PROVE qdisc' = <<>>
    <3>1. ~stopped
      BY <2>1, <2>3
    <3> QED
      BY <1>1, <3>1 DEF Served
  <2> QED
    BY <1>1, <2>1, <2>2, <2>3 DEF Served
<1> QED
  BY <1>2, <1>3

LEMMA ServedStep ==
    ASSUME QuotaCovers
    PROVE  WakeInv /\ [Next]_vars => WakeInv'
<1> SUFFICES ASSUME WakeInv, [Next]_vars PROVE WakeInv'
  OBVIOUS
<1>0. LinkInv /\ Served /\ LinkInv'
  BY LinkStep DEF WakeInv
<1> SUFFICES Served'
  BY <1>0 DEF WakeInv
<1>1. ASSUME NEW s \in Sizes, Send(s) PROVE Served'
  <2>1. /\ ~running /\ qdisc \in Seq(Packet) /\ wakes \in Nat
        /\ running' = TRUE /\ UNCHANGED <<devq, stopped, wakes, busy>>
        /\ qdisc' = IF Len(qdisc) < Limit THEN Append(qdisc, Arrival(s)) ELSE qdisc
    BY <1>0, <1>1 DEF Send, RunBegin, LinkInv, Shape
  <2>2. ASSUME ~stopped', wakes' = 0, qdisc' # <<>> PROVE Len(qdisc') = 1
    <3>1. qdisc = <<>>
      BY <1>0, <2>1, <2>2 DEF Served
    <3> QED
      BY <2>1, <2>2, <3>1
  <2>3. wakes' > 0 => busy' /\ JustWoken'
    BY <1>0, <2>1 DEF Served, JustWoken
  <2> QED
    BY <2>1, <2>2, <2>3 DEF Served
<1>2. CASE RunEnd
  <2>1. (qdisc = <<>> \/ stopped) /\ running' = FALSE /\ UNCHANGED <<qdisc, devq, stopped, wakes, busy>>
    BY <1>2 DEF RunEnd
  <2> QED
    BY <1>0, <2>1 DEF Served, JustWoken
<1>3. CASE Queue
  BY <1>0, <1>3, ServedQueue
<1>4. CASE Transmit
  BY <1>0, <1>4, ServedTransmit
<1>5. CASE WakeCallback
  BY <1>0, <1>5, ServedCallback
<1>6. CASE TransmitComplete
  BY <1>0, <1>6, ServedComplete
<1>7. CASE Receive
  BY <1>0, <1>7 DEF Receive, Served, JustWoken, QuotaLeft
<1>8. CASE UNCHANGED vars
  BY <1>0, <1>8 DEF vars, Served, JustWoken, QuotaLeft
<1> QED
  BY <1>1, <1>2, <1>3, <1>4, <1>5, <1>6, <1>7, <1>8 DEF Next

\* TrafficControlLayer::Send, QueueDisc::Run and the wake callback: a backlog always
\* has a Run, a wake-up event or a full device queue that will serve it, provided the
\* quota covers a wake-up.
THEOREM BacklogIsServed ==
    ASSUME QuotaCovers
    PROVE  Spec => []WakeUpPending
<1>1. Init => WakeInv
  BY LinkStarts, ServedStarts DEF WakeInv
<1>2. WakeInv /\ [Next]_vars => WakeInv'
  BY ServedStep
<1>3. WakeInv => WakeUpPending
  <2> SUFFICES ASSUME WakeInv PROVE WakeUpPending
    OBVIOUS
  <2>1. wakes \in Nat /\ Device /\ Served
    BY DEF WakeInv, LinkInv, Shape
  <2> QED
    BY <2>1 DEF Device, Served, WakeUpPending
<1> QED
  BY <1>1, <1>2, <1>3, PTL DEF Spec

-----------------------------------------------------------------------------
(* The output implements FifoLink.                                         *)

LEMMA AppendInside ==
    ASSUME NEW S, NEW s \in Seq(S), NEW t \in Seq(S), NEW x \in S
    PROVE  s \o Append(t, x) = Append(s \o t, x)
<1>1. Append(t, x) = t \o <<x>> /\ <<x>> \in Seq(S) /\ s \o t \in Seq(S)
  BY AppendIsConcat, ConcatProperties
<1>2. Append(s \o t, x) = (s \o t) \o <<x>>
  BY <1>1, AppendIsConcat
<1> QED
  BY <1>1, <1>2, ConcatAssociative

LEMMA FirstAndRest ==
    ASSUME NEW S, NEW t \in Seq(S), t # <<>>
    PROVE  <<Head(t)>> \o Tail(t) = t
<1>1. Head(t) \in S /\ Tail(t) \in Seq(S) /\ <<Head(t)>> \in Seq(S)
  BY HeadTailProperties
<1>2. /\ <<Head(t)>> \o Tail(t) \in Seq(S)
      /\ Len(<<Head(t)>> \o Tail(t)) = Len(t)
      /\ \A i \in 1..Len(t) : (<<Head(t)>> \o Tail(t))[i] = t[i]
  BY <1>1
<1> QED
  BY <1>2, SeqEqual

LEMMA MoveFirst ==
    ASSUME NEW S, NEW s \in Seq(S), NEW t \in Seq(S), t # <<>>
    PROVE  Append(s, Head(t)) \o Tail(t) = s \o t
<1>1. Head(t) \in S /\ Tail(t) \in Seq(S) /\ <<Head(t)>> \in Seq(S)
  BY HeadTailProperties
<1>2. Append(s, Head(t)) = s \o <<Head(t)>>
  BY <1>1, AppendIsConcat
<1>3. (s \o <<Head(t)>>) \o Tail(t) = s \o (<<Head(t)>> \o Tail(t))
  BY <1>1, ConcatAssociative
<1> QED
  BY <1>2, <1>3, FirstAndRest

LEMMA TailOfConcat ==
    ASSUME NEW S, NEW s \in Seq(S), NEW t \in Seq(S), s # <<>>
    PROVE  s \o t # <<>> /\ Tail(s \o t) = Tail(s) \o t
<1>1. Tail(s) \in Seq(S) /\ Head(s) \in S /\ Len(s) \in Nat /\ Len(s) > 0
      /\ Len(Tail(s)) = Len(s) - 1 /\ \A i \in 1..(Len(s) - 1) : Tail(s)[i] = s[i + 1]
  BY HeadTailProperties
<1>2. /\ s \o t \in Seq(S) /\ Len(s \o t) = Len(s) + Len(t) /\ Len(t) \in Nat
      /\ \A i \in 1..(Len(s) + Len(t)) :
            (s \o t)[i] = IF i <= Len(s) THEN s[i] ELSE t[i - Len(s)]
  BY ConcatProperties
<1>3. s \o t # <<>>
  BY <1>1, <1>2
<1>4. /\ Tail(s \o t) \in Seq(S) /\ Len(Tail(s \o t)) = (Len(s) - 1) + Len(t)
      /\ \A i \in 1..((Len(s) - 1) + Len(t)) : Tail(s \o t)[i] = (s \o t)[i + 1]
  BY <1>1, <1>2, <1>3, HeadTailProperties
<1>5. /\ Tail(s) \o t \in Seq(S) /\ Len(Tail(s) \o t) = (Len(s) - 1) + Len(t)
      /\ \A i \in 1..((Len(s) - 1) + Len(t)) :
            (Tail(s) \o t)[i] = IF i <= Len(s) - 1 THEN Tail(s)[i] ELSE t[i - (Len(s) - 1)]
  BY <1>1, ConcatProperties
<1>6. \A i \in 1..((Len(s) - 1) + Len(t)) : Tail(s \o t)[i] = (Tail(s) \o t)[i]
  <2> SUFFICES ASSUME NEW i \in 1..((Len(s) - 1) + Len(t))
               PROVE  Tail(s \o t)[i] = (Tail(s) \o t)[i]
    OBVIOUS
  <2>1. i + 1 \in 1..(Len(s) + Len(t)) /\ i \in Nat
        /\ (i + 1) - Len(s) = i - (Len(s) - 1)
        /\ (i <= Len(s) - 1 <=> i + 1 <= Len(s))
    BY <1>1, <1>2
  <2>2. CASE i <= Len(s) - 1
    <3>1. i \in 1..(Len(s) - 1)
      BY <1>1, <2>1, <2>2
    <3> QED
      BY <1>1, <1>2, <1>4, <1>5, <2>1, <2>2, <3>1, Zenon
  <2>3. CASE ~(i <= Len(s) - 1)
    BY <1>2, <1>4, <1>5, <2>1, <2>3, Zenon
  <2> QED
    BY <2>2, <2>3
<1> QED
  BY <1>3, <1>4, <1>5, <1>6, SeqEqual

\* Queues of packets and their concatenation, as the provers do not take them apart.
Queues == Seq(Packet)
Cat(s, t) == s \o t

LEMMA CatType ==
    ASSUME NEW s \in Queues, NEW t \in Queues
    PROVE  Cat(s, t) \in Queues
BY ConcatProperties DEF Cat, Queues

LEMMA CatEmpty ==
    ASSUME NEW s \in Queues
    PROVE  <<>> \in Queues /\ Cat(s, <<>>) = s /\ Cat(<<>>, s) = s
BY ConcatEmptySeq, EmptySeq DEF Cat, Queues

LEMMA CatAssociative ==
    ASSUME NEW s \in Queues, NEW t \in Queues, NEW u \in Queues
    PROVE  Cat(Cat(s, t), u) = Cat(s, Cat(t, u))
BY ConcatAssociative DEF Cat, Queues

LEMMA CatFirst ==
    ASSUME NEW s \in Queues, s # <<>>
    PROVE  <<Head(s)>> \in Queues /\ Tail(s) \in Queues /\ Cat(<<Head(s)>>, Tail(s)) = s
<1>1. <<Head(s)>> \in Seq(Packet) /\ Tail(s) \in Seq(Packet)
  BY HeadTailProperties DEF Queues
<1>2. <<Head(s)>> \o Tail(s) = s
  BY FirstAndRest DEF Queues
<1> QED
  BY <1>1, <1>2 DEF Cat, Queues

LEMMA CatTail ==
    ASSUME NEW s \in Queues, NEW t \in Queues, s # <<>>
    PROVE  Cat(s, t) # <<>> /\ Tail(Cat(s, t)) = Cat(Tail(s), t)
BY TailOfConcat DEF Cat, Queues

LEMMA CatMove ==
    ASSUME NEW s \in Queues, NEW t \in Queues, t # <<>>
    PROVE  Append(s, Head(t)) \in Queues /\ Cat(Append(s, Head(t)), Tail(t)) = Cat(s, t)
<1>1. Append(s, Head(t)) \in Seq(Packet)
  BY HeadTailProperties, AppendProperties DEF Queues
<1>2. Append(s, Head(t)) \o Tail(t) = s \o t
  BY MoveFirst DEF Queues
<1> QED
  BY <1>1, <1>2 DEF Cat, Queues

\* The queues of the output, the first to be emptied first.
LineOf(a, b, c, d) == Cat(Cat(Cat(a, b), c), d)

LEMMA LineType ==
    ASSUME NEW a \in Queues, NEW b \in Queues, NEW c \in Queues, NEW d \in Queues
    PROVE  LineOf(a, b, c, d) = Cat(Cat(a, b), Cat(c, d))
BY CatType, CatAssociative DEF LineOf

LEMMA LineAccepts ==
    ASSUME NEW a \in Queues, NEW b \in Queues, NEW c \in Queues, NEW d \in Queues,
           NEW x \in Packet
    PROVE  LineOf(a, b, c, Append(d, x)) = Append(LineOf(a, b, c, d), x)
<1>1. ASSUME NEW s \in Queues PROVE Cat(s, Append(d, x)) = Append(Cat(s, d), x)
  BY AppendInside DEF Cat, Queues
<1>2. Cat(Cat(a, b), c) \in Queues
  BY CatType
<1> QED
  BY <1>1, <1>2 DEF LineOf

LEMMA LineMovesToDevice ==
    ASSUME NEW a \in Queues, NEW b \in Queues, NEW c \in Queues, NEW d \in Queues, d # <<>>
    PROVE  LineOf(a, b, Append(c, Head(d)), Tail(d)) = LineOf(a, b, c, d)
<1> DEFINE c2 == Append(c, Head(d))
           d2 == Tail(d)
<1>1. c2 \in Queues /\ d2 \in Queues /\ Cat(c2, d2) = Cat(c, d)
  BY CatFirst, CatMove
<1> HIDE DEF c2, d2
<1>2. LineOf(a, b, c2, d2) = LineOf(a, b, c, d)
  BY <1>1, LineType
<1> QED
  BY <1>2 DEF c2, d2

LEMMA LineMovesToTransmitter ==
    ASSUME NEW a \in Queues, NEW d \in Queues, d # <<>>
    PROVE  LineOf(a, <<Head(d)>>, <<>>, Tail(d)) = LineOf(a, <<>>, <<>>, d)
<1> DEFINE h == <<Head(d)>>
           d2 == Tail(d)
           e == <<>>
<1>1. h \in Queues /\ d2 \in Queues /\ Cat(h, d2) = d
  BY CatFirst
<1>2. e \in Queues /\ Cat(a, e) = a /\ Cat(e, d) = d
  BY CatEmpty
<1>3. Cat(e, d2) = d2
  BY <1>1, CatEmpty
<1> HIDE DEF h, d2, e
<1>4. LineOf(a, h, e, d2) = Cat(Cat(a, h), d2)
  BY <1>1, <1>2, <1>3, LineType
<1>5. Cat(Cat(a, h), d2) = Cat(a, d)
  BY <1>1, CatAssociative
<1>6. LineOf(a, e, e, d) = Cat(a, d)
  BY <1>2, LineType
<1>7. LineOf(a, h, e, d2) = LineOf(a, e, e, d)
  BY <1>4, <1>5, <1>6
<1> QED
  BY <1>7 DEF h, d2, e

LEMMA LineMovesToChannel ==
    ASSUME NEW a \in Queues, NEW b \in Queues, NEW c \in Queues, NEW d \in Queues, c # <<>>
    PROVE  LineOf(Cat(a, b), <<Head(c)>>, Tail(c), d) = LineOf(a, b, c, d)
<1> DEFINE ab == Cat(a, b)
           h == <<Head(c)>>
           c2 == Tail(c)
<1>1. ab \in Queues
  BY CatType
<1>2. h \in Queues /\ c2 \in Queues /\ Cat(h, c2) = c
  BY CatFirst
<1>3. LineOf(a, b, c, d) = Cat(Cat(ab, c), d)
  BY Zenon DEF LineOf
<1> HIDE DEF ab, h, c2
<1>4. Cat(Cat(ab, h), c2) = Cat(ab, c)
  BY <1>1, <1>2, CatAssociative
<1>5. LineOf(ab, h, c2, d) = LineOf(a, b, c, d)
  BY <1>3, <1>4, Zenon DEF LineOf
<1> QED
  BY <1>5 DEF ab, h, c2

LEMMA LineLeavesTransmitter ==
    ASSUME NEW a \in Queues, NEW b \in Queues
    PROVE  \A d \in Queues : LineOf(Cat(a, b), <<>>, <<>>, d) = LineOf(a, b, <<>>, d)
<1> DEFINE ab == Cat(a, b)
<1>1. ab \in Queues
  BY CatType
<1>2. Cat(ab, <<>>) = ab
  BY <1>1, CatEmpty
<1> QED
  BY <1>2, Zenon DEF LineOf

LEMMA LineHandsUp ==
    ASSUME NEW a \in Queues, a # <<>>
    PROVE  \A b, c, d \in Queues :
              /\ LineOf(a, b, c, d) # <<>>
              /\ Tail(LineOf(a, b, c, d)) = LineOf(Tail(a), b, c, d)
<1> SUFFICES ASSUME NEW b \in Queues, NEW c \in Queues, NEW d \in Queues
             PROVE  /\ LineOf(a, b, c, d) # <<>>
                    /\ Tail(LineOf(a, b, c, d)) = LineOf(Tail(a), b, c, d)
  OBVIOUS
<1>1. Cat(a, b) \in Queues /\ Cat(Cat(a, b), c) \in Queues
  BY CatType
<1>2. Cat(a, b) # <<>> /\ Tail(Cat(a, b)) = Cat(Tail(a), b)
  BY CatTail
<1>3. /\ Cat(Cat(a, b), c) # <<>>
      /\ Tail(Cat(Cat(a, b), c)) = Cat(Tail(Cat(a, b)), c)
  BY <1>1, <1>2, CatTail
<1>4. /\ LineOf(a, b, c, d) # <<>>
      /\ Tail(LineOf(a, b, c, d)) = Cat(Tail(Cat(Cat(a, b), c)), d)
  BY <1>1, <1>3, CatTail DEF LineOf
<1> QED
  BY <1>2, <1>3, <1>4, Zenon DEF LineOf

Line == LineOf(channel, current, devq, qdisc)

\* Every step takes a packet into the line, hands the first one up or only moves it on.
LEMMA LineStep ==
    ASSUME LinkInv, [Next]_vars
    PROVE  \/ \E p \in Packet : Line' = Append(Line, p) /\ up' = up
           \/ Line # <<>> /\ Line' = Tail(Line) /\ up' = up + 1
           \/ Line' = Line /\ up' = up
<1>0. /\ channel \in Queues /\ current \in Queues
      /\ devq \in Queues /\ qdisc \in Queues /\ <<>> \in Queues /\ Shape
  BY EmptySeq DEF LinkInv, Shape, Queues
<1>9. Line' = LineOf(channel', current', devq', qdisc')
  BY DEF Line
<1>1. ASSUME NEW s \in Sizes, Send(s)
      PROVE  (\E p \in Packet : Line' = Append(Line, p) /\ up' = up) \/ (Line' = Line /\ up' = up)
  <2>1. /\ Arrival(s) \in Packet /\ UNCHANGED <<channel, current, devq, up>>
        /\ qdisc' = IF Len(qdisc) < Limit THEN Append(qdisc, Arrival(s)) ELSE qdisc
    BY <1>0, <1>1, ArrivalType DEF Send
  <2>2. LineOf(channel, current, devq, Append(qdisc, Arrival(s))) = Append(Line, Arrival(s))
    <3>1. \A c, d \in Queues : \A x \in Packet :
             LineOf(channel, current, c, Append(d, x)) = Append(LineOf(channel, current, c, d), x)
      BY <1>0, LineAccepts, Zenon
    <3> QED
      BY <1>0, <2>1, <3>1, Zenon DEF Line
  <2> QED
    BY <1>9, <2>1, <2>2 DEF Line
<1>2. RunEnd => Line' = Line /\ up' = up
  BY DEF RunEnd, Line
<1>3. ASSUME Queue PROVE Line' = Line /\ up' = up
  <2>1. /\ qdisc # <<>> /\ qdisc' = Tail(qdisc) /\ devq' = Append(devq, Head(qdisc))
        /\ UNCHANGED <<channel, current, up>>
    BY <1>3, QueueOutcome
  <2>2. LineOf(channel, current, Append(devq, Head(qdisc)), Tail(qdisc)) = Line
    BY <1>0, <2>1, LineMovesToDevice DEF Line
  <2> QED
    BY <1>9, <2>1, <2>2
<1>4. ASSUME Transmit PROVE Line' = Line /\ up' = up
  <2>1. /\ qdisc # <<>> /\ devq = <<>> /\ current = <<>>
        /\ qdisc' = Tail(qdisc) /\ devq' = <<>> /\ current' = <<Head(qdisc)>>
        /\ UNCHANGED <<channel, up>>
    BY <1>4, TransmitOutcome
  <2>2. LineOf(channel, <<Head(qdisc)>>, <<>>, Tail(qdisc)) = LineOf(channel, <<>>, <<>>, qdisc)
    BY <1>0, <2>1, LineMovesToTransmitter
  <2> QED
    BY <1>9, <2>1, <2>2 DEF Line
<1>5. WakeCallback => Line' = Line /\ up' = up
  BY DEF WakeCallback, Line
<1>6. ASSUME TransmitComplete PROVE Line' = Line /\ up' = up
  <2>1. channel' = Cat(channel, current) /\ UNCHANGED <<qdisc, up>>
    BY <1>6 DEF TransmitComplete, Cat
  <2>2. CASE devq = <<>>
    <3>1. devq' = <<>> /\ current' = <<>>
      BY <1>6, <2>2 DEF TransmitComplete
    <3>2. LineOf(Cat(channel, current), <<>>, <<>>, qdisc)
             = LineOf(channel, current, <<>>, qdisc)
      BY <1>0, LineLeavesTransmitter, Zenon
    <3> QED
      BY <1>9, <2>1, <2>2, <3>1, <3>2 DEF Line
  <2>3. CASE devq # <<>>
    <3>1. devq' = Tail(devq) /\ current' = <<Head(devq)>>
      BY <1>6, <2>3, CompleteOutcome, Zenon
    <3>2. LineOf(Cat(channel, current), <<Head(devq)>>, Tail(devq), qdisc) = Line
      BY <1>0, <2>3, LineMovesToChannel DEF Line
    <3> QED
      BY <1>9, <2>1, <3>1, <3>2
  <2> QED
    BY <2>2, <2>3
<1>7. ASSUME Receive PROVE Line # <<>> /\ Line' = Tail(Line) /\ up' = up + 1
  <2>1. /\ channel # <<>> /\ channel' = Tail(channel) /\ up' = up + 1
        /\ UNCHANGED <<current, devq, qdisc>>
    BY <1>7 DEF Receive
  <2>2. Line # <<>> /\ Tail(Line) = LineOf(Tail(channel), current, devq, qdisc)
    <3>1. \A b, c, d \in Queues :
             /\ LineOf(channel, b, c, d) # <<>>
             /\ Tail(LineOf(channel, b, c, d)) = LineOf(Tail(channel), b, c, d)
      BY <1>0, <2>1, LineHandsUp, Zenon
    <3> QED
      BY <1>0, <3>1, Zenon DEF Line
  <2> QED
    BY <1>9, <2>1, <2>2
<1>8. CASE UNCHANGED vars
  BY <1>8 DEF vars, Line
<1> QED
  BY <1>1, <1>2, <1>3, <1>4, <1>5, <1>6, <1>7, <1>8 DEF Next

\* Behind the queue disc nothing is lost, overtaken or handed up twice: queue disc,
\* device queue, transmitter and channel are one line, whatever the quota.
THEOREM OutputIsFifo == Spec => Output!Init /\ [][Output!Next]_(Output!lvars)
<1>1. Init => LinkInv
  BY LinkStarts
<1>2. LinkInv /\ [Next]_vars => LinkInv'
  BY LinkStep
<1>3. Init => Output!Init
  <2>1. <<>> \o <<>> \o <<>> \o <<>> = <<>>
    OBVIOUS
  <2> QED
    BY <2>1 DEF Init, Output!Init
<1>4. LinkInv /\ [Next]_vars => [Output!Next]_(Output!lvars)
  <2> SUFFICES ASSUME LinkInv, [Next]_vars PROVE [Output!Next]_(Output!lvars)
    OBVIOUS
  <2> QED
    BY LineStep
       DEF Line, LineOf, Cat, Output!Next, Output!HandUp, Output!Accept, Output!lvars
<1> QED
  BY <1>1, <1>2, <1>3, <1>4, PTL DEF Spec
=============================================================================
