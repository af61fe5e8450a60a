------------------------ MODULE VcpFeedback_proofs ------------------------
(***************************************************************************)
(* Proofs about module VcpFeedback, for any number of segments, any flight *)
(* size, any number of lost ACKs and any delayed-ACK count.                *)
(***************************************************************************)
EXTENDS VcpFeedback, SequenceTheorems, TLAPS

AckType == [ack : Nat, ece : BOOLEAN, cwr : BOOLEAN, mark : LoadType]

\* An ACK that does not make the path look better than it is.
Honest(m) == DecodeLoad(m.ece, m.cwr) >= m.mark

(* The sender that is not in CA_CWR has everything acknowledged that it    *)
(* had sent when it last was, which is what makes m_recover a limit of     *)
(* one reduction per window.                                               *)
FInv ==
    /\ acks \in Seq(AckType)
    /\ \A i \in 1..Len(acks) : Honest(acks[i])
    /\ data \in Seq([seq : Nat, cwr : BOOLEAN])
    /\ next \in Nat /\ una \in Nat /\ recover \in Nat
    /\ loadOut \in LoadType /\ rcvNext \in Nat
    /\ cong = "OPEN" => recover < una

-----------------------------------------------------------------------------

\* The two flags carry every load at least at its own value, with the ECN
\* echo or without it.
LEMMA FlagsHonest ==
    ASSUME NEW withEce \in BOOLEAN, NEW load \in LoadType, NEW ackNumber \in Nat
    PROVE  LET flags == AckFlags(withEce, load)
               m == [ack |-> ackNumber, ece |-> flags.ece, cwr |-> flags.cwr,
                     mark |-> load]
           IN  m \in AckType /\ Honest(m)
<1>. DEFINE flags == AckFlags(withEce, load)
            m == [ack |-> ackNumber, ece |-> flags.ece, cwr |-> flags.cwr,
                  mark |-> load]
<1>1. m \in AckType
  BY DEF AckFlags, AckType
<1>2. /\ m.mark = load
      /\ m.cwr <=> load \in {LOAD_HIGH, LOAD_OVERLOAD}
      /\ load \in {LOAD_LOW, LOAD_OVERLOAD} => m.ece
  BY DEF AckFlags
<1>3. DecodeLoad(m.ece, m.cwr) >= load
  <2>. DEFINE e == m.ece
              c == m.cwr
  <2>1. /\ e \in BOOLEAN /\ c \in BOOLEAN
        /\ c <=> load \in {LOAD_HIGH, LOAD_OVERLOAD}
        /\ load \in {LOAD_LOW, LOAD_OVERLOAD} => e
    BY <1>1, <1>2 DEF AckType
  <2>. HIDE DEF e, c
  <2>2. DecodeLoad(e, c) >= load
    BY <2>1 DEF DecodeLoad, LoadType, LOAD_NOT_SUPPORTED, LOAD_LOW, LOAD_HIGH,
        LOAD_OVERLOAD
  <2>. QED
    BY <2>2 DEF e, c
<1>. QED
  BY <1>1, <1>2, <1>3 DEF Honest

\* Sending an ACK keeps the ACKs in flight honest.
LEMMA SendAckStep ==
    ASSUME FInv, NEW ackNumber \in Nat, NEW ecn, NEW load \in LoadType,
           SendAck(ackNumber, ecn, load)
    PROVE  /\ acks' \in Seq(AckType)
           /\ \A i \in 1..Len(acks') : Honest(acks'[i])
<1>. DEFINE flags == AckFlags(Echoes(ecn), load)
            m == [ack |-> ackNumber, ece |-> flags.ece, cwr |-> flags.cwr,
                  mark |-> load]
<1>1. Echoes(ecn) \in BOOLEAN
  BY DEF Echoes
<1>2. m \in AckType /\ Honest(m)
  BY <1>1, FlagsHonest
<1>3. acks' = Append(acks, m)
  BY DEF SendAck
<1>. HIDE DEF m
<1>. QED
  BY <1>2, <1>3, AppendProperties DEF FInv

\* Taking the oldest ACK from the network keeps the others as they are.
LEMMA TakeAckStep ==
    ASSUME FInv, acks # <<>>, acks' = Tail(acks)
    PROVE  /\ acks' \in Seq(AckType) /\ Head(acks) \in AckType
           /\ \A i \in 1..Len(acks') : Honest(acks'[i])
BY HeadTailProperties DEF FInv

\* A burst only moves the sequence number to send next forward.
LEMMA BurstStep ==
    ASSUME FInv, NEW n \in Nat, NEW ecn, NEW echo, NEW head,
           SendBurst(n, ecn, echo, head)
    PROVE  next' \in Nat /\ data' \in Seq([seq : Nat, cwr : BOOLEAN])
<1>. DEFINE answer == n > 0 /\ ecn = "ECE_RCVD" /\ echo > cwrSeq
            burst == [i \in 1..n |-> [seq |-> next + i - 1, cwr |-> answer /\ i = 1]]
<1>1. next' = next + n /\ data' = data \o burst
  BY DEF SendBurst
<1>2. burst \in Seq([seq : Nat, cwr : BOOLEAN])
  <2>1. \A i \in 1..n : [seq |-> next + i - 1, cwr |-> answer /\ i = 1]
                          \in [seq : Nat, cwr : BOOLEAN]
    BY DEF FInv
  <2>. QED
    BY <2>1, IsASeq
<1>. HIDE DEF burst
<1>. QED
  BY <1>1, <1>2, ConcatProperties DEF FInv

\* Every step keeps the invariant.
LEMMA FInvStep == FInv /\ [Next]_vars => FInv'
<1>. SUFFICES ASSUME FInv, [Next]_vars PROVE FInv'
  OBVIOUS
<1>1. ASSUME NEW n \in 1..MaxFlight, AppSend(n) PROVE FInv'
  <2>1. next' \in Nat /\ data' \in Seq([seq : Nat, cwr : BOOLEAN])
    BY <1>1, BurstStep, BoundAssumption DEF AppSend
  <2>. QED
    BY <1>1, <2>1 DEF AppSend, receiverVars, FInv
<1>2. ASSUME NEW load \in PathLoads, NEW n \in 0..MaxFlight,
             SenderReceivesAck(load, n)
      PROVE  FInv'
  <2>. DEFINE m == Head(acks)
  <2>1. /\ acks' \in Seq(AckType) /\ m \in AckType
        /\ \A i \in 1..Len(acks') : Honest(acks'[i])
    BY <1>2, TakeAckStep DEF SenderReceivesAck
  <2>2. next' \in Nat /\ data' \in Seq([seq : Nat, cwr : BOOLEAN])
    BY <1>2, BurstStep, BoundAssumption DEF SenderReceivesAck
  <2>3. m.ack \in Nat
    BY <2>1 DEF AckType
  <2>4. una' = IF m.ack > una THEN m.ack ELSE una
    BY <1>2 DEF SenderReceivesAck
  <2>5. recover' \in {recover, next}
    BY <1>2 DEF SenderReceivesAck
  <2>6. cong' = "OPEN" => RecoveryOver(m.ack) /\ recover' = recover
    BY <1>2 DEF SenderReceivesAck
  <2>7. UNCHANGED receiverVars
    BY <1>2 DEF SenderReceivesAck
  <2>. HIDE DEF m
  <2>8. una' \in Nat /\ recover' \in Nat
    BY <2>3, <2>4, <2>5 DEF FInv
  <2>9. cong' = "OPEN" => recover' < una'
    BY <2>3, <2>4, <2>6 DEF FInv, RecoveryOver
  <2>. QED
    BY <2>1, <2>2, <2>7, <2>8, <2>9 DEF FInv, receiverVars
<1>3. ASSUME NEW load \in PathLoads, ReceiverReceivesData(load) PROVE FInv'
  <2>. DEFINE m == Head(data)
  <2>0. load \in LoadType
    BY PathAssumption
  <2>1. /\ m.seq \in Nat
        /\ data' \in Seq([seq : Nat, cwr : BOOLEAN])
    <3>1. data # <<>> /\ data' = Tail(data)
      BY <1>3 DEF ReceiverReceivesData
    <3>2. /\ m \in [seq : Nat, cwr : BOOLEAN]
          /\ Tail(data) \in Seq([seq : Nat, cwr : BOOLEAN])
      BY <3>1, HeadTailProperties DEF FInv
    <3>. HIDE DEF m
    <3>. QED
      BY <3>1, <3>2
  <2>2. rcvNext' = m.seq + 1 /\ loadOut' = load
    BY <1>3 DEF ReceiverReceivesData
  <2>3. acks' \in Seq(AckType) /\ \A i \in 1..Len(acks') : Honest(acks'[i])
    <3>1. CASE UNCHANGED acks
      BY <3>1 DEF FInv
    <3>2. ASSUME NEW ecn, SendAck(m.seq + 1, ecn, load)
          PROVE  acks' \in Seq(AckType) /\ \A i \in 1..Len(acks') : Honest(acks'[i])
      <4>1. m.seq + 1 \in Nat
        BY <2>1
      <4>. HIDE DEF m
      <4>. QED
        BY <3>2, <4>1, <2>0, SendAckStep
    <3>. QED
      BY <1>3, <3>1, <3>2 DEF ReceiverReceivesData
  <2>4. UNCHANGED senderVars
    BY <1>3 DEF ReceiverReceivesData
  <2>. HIDE DEF m
  <2>. QED
    BY <2>0, <2>1, <2>2, <2>3, <2>4 DEF FInv, senderVars
<1>4. CASE DelAckTimeout
  <2>1. acks' \in Seq(AckType) /\ \A i \in 1..Len(acks') : Honest(acks'[i])
    BY <1>4, SendAckStep DEF DelAckTimeout, FInv
  <2>. QED
    BY <1>4, <2>1 DEF DelAckTimeout, FInv, senderVars
<1>5. CASE LoseAck
  BY <1>5, TakeAckStep DEF LoseAck, FInv, senderVars, receiverVars
<1>6. CASE UNCHANGED vars
  BY <1>6 DEF vars, FInv
<1>. QED
  BY <1>1, <1>2, <1>3, <1>4, <1>5, <1>6 DEF Next

\* The invariant holds in every reachable state.
LEMMA FeedbackInvariant == Spec => []FInv
<1>1. Init => FInv
  BY PathAssumption DEF Init, FInv
<1>. QED
  BY <1>1, FInvStep, PTL DEF Spec

-----------------------------------------------------------------------------

\* Whatever the state of the ECN machine that shares the two flags, an ACK
\* never reports a better load than the segment it answers found.
THEOREM PathNeverUnderReported == Spec => []NeverUnderReported
<1>1. FInv => NeverUnderReported
  BY DEF FInv, NeverUnderReported, Honest
<1>. QED
  BY <1>1, FeedbackInvariant, PTL

\* The sender sets m_recover, and so enters CA_CWR, only on an ACK beyond
\* the previous m_recover.
THEOREM ReducesOncePerWindow == Spec => OncePerWindow
<1>1. FInv /\ [Next]_vars => [recover' # recover => una' > recover]_vars
  <2>. SUFFICES ASSUME FInv, Next, recover' # recover PROVE una' > recover
    OBVIOUS
  <2>1. ASSUME NEW load \in PathLoads, NEW n \in 0..MaxFlight,
               SenderReceivesAck(load, n)
        PROVE  una' > recover
    <3>. DEFINE m == Head(acks)
    <3>1. m.ack \in Nat
      BY <2>1, TakeAckStep DEF SenderReceivesAck, AckType
    <3>2. m.ack > una /\ RecoveryOver(m.ack) /\ una' = m.ack
      BY <2>1 DEF SenderReceivesAck
    <3>. HIDE DEF m
    <3>. QED
      BY <3>1, <3>2 DEF FInv, RecoveryOver
  <2>2. CASE \/ \E n \in 1..MaxFlight : AppSend(n)
             \/ \E load \in PathLoads : ReceiverReceivesData(load)
             \/ DelAckTimeout
             \/ LoseAck
    BY <2>2 DEF AppSend, ReceiverReceivesData, DelAckTimeout, LoseAck, senderVars
  <2>. QED
    BY <2>1, <2>2 DEF Next
<1>. QED
  BY <1>1, FeedbackInvariant, PTL DEF Spec, OncePerWindow
-----------------------------------------------------------------------------
(* Segments and acknowledgments account for each other.  A delayed ACK is  *)
(* due only while the last segment is not acknowledged by any ACK.         *)

SegmentsInOrder ==
    /\ next = rcvNext + Len(data)
    /\ \A i \in 1..Len(data) : data[i].seq = rcvNext + i - 1

AcksInOrder ==
    /\ una <= rcvNext
    /\ \A i \in 1..Len(acks) : acks[i].ack \in (una + 1)..rcvNext
    /\ \A i, j \in 1..Len(acks) : i < j => acks[i].ack < acks[j].ack

DelayedAckDue ==
    /\ delAck \in Nat
    /\ delAck \in 1..(DelAckMax - 1) =>
           una < rcvNext /\ \A i \in 1..Len(acks) : acks[i].ack < rcvNext

OrderInv == FInv /\ SegmentsInOrder /\ AcksInOrder /\ DelayedAckDue

\* The segments of a burst follow those in flight.
LEMMA BurstInOrder ==
    ASSUME OrderInv, NEW n \in Nat, NEW ecn, NEW echo, NEW head,
           SendBurst(n, ecn, echo, head), UNCHANGED rcvNext
    PROVE  SegmentsInOrder'
<1> DEFINE answer == n > 0 /\ ecn = "ECE_RCVD" /\ echo > cwrSeq
           burst == [i \in 1..n |-> [seq |-> next + i - 1, cwr |-> answer /\ i = 1]]
<1>1. next' = next + n /\ data' = data \o burst
  BY DEF SendBurst
<1>2. /\ burst \in Seq([seq : Nat, cwr : BOOLEAN]) /\ Len(burst) = n
      /\ \A i \in 1..n : burst[i].seq = next + i - 1
  <2>1. \A i \in 1..n : [seq |-> next + i - 1, cwr |-> answer /\ i = 1]
                          \in [seq : Nat, cwr : BOOLEAN]
    BY DEF OrderInv, FInv
  <2> QED
    BY <2>1, IsASeq
<1> HIDE DEF burst
<1> DEFINE Segment == [seq : Nat, cwr : BOOLEAN]
<1>3. data \in Seq(Segment) /\ burst \in Seq(Segment)
  BY <1>2 DEF OrderInv, FInv
<1> HIDE DEF Segment
<1>4. /\ Len(data') = Len(data) + n /\ Len(data) \in Nat
      /\ \A i \in 1..Len(data') :
             data'[i] = IF i <= Len(data) THEN data[i] ELSE burst[i - Len(data)]
  <2>1. /\ Len(data \o burst) = Len(data) + Len(burst)
        /\ \A i \in 1..(Len(data) + Len(burst)) :
               (data \o burst)[i] = IF i <= Len(data) THEN data[i]
                                    ELSE burst[i - Len(data)]
    BY <1>3, ConcatProperties
  <2>2. Len(data) \in Nat
    BY <1>3, LenProperties
  <2> QED
    BY <1>1, <1>2, <2>1, <2>2
<1>5. \A i \in 1..Len(data') :
          i > Len(data) => i - Len(data) \in 1..n /\ i - Len(data) + Len(data) = i
  BY <1>4
<1>6. next \in Nat /\ rcvNext \in Nat /\ next = rcvNext + Len(data)
  BY DEF OrderInv, FInv, SegmentsInOrder
<1>7. \A i \in 1..Len(data') : data'[i].seq = rcvNext + i - 1
  <2> SUFFICES ASSUME NEW i \in 1..Len(data') PROVE data'[i].seq = rcvNext + i - 1
    OBVIOUS
  <2>1. CASE i <= Len(data)
    BY <1>4, <2>1 DEF OrderInv, SegmentsInOrder
  <2>2. CASE i > Len(data)
    <3>1. data'[i] = burst[i - Len(data)] /\ i - Len(data) \in 1..n
      BY <1>4, <1>5, <2>2
    <3>2. data'[i].seq = next + (i - Len(data)) - 1
      BY <1>2, <3>1
    <3> QED
      BY <1>4, <1>6, <3>2
  <2> QED
    BY <1>4, <2>1, <2>2
<1> QED
  BY <1>1, <1>4, <1>6, <1>7, SMTT(30) DEF SegmentsInOrder

\* The oldest ACK arrives or is lost; the others are beyond it.
LEMMA TakeInOrder ==
    ASSUME OrderInv, acks # <<>>, acks' = Tail(acks), UNCHANGED <<rcvNext, delAck>>,
           una' \in {una, Head(acks).ack}
    PROVE  /\ AcksInOrder' /\ DelayedAckDue'
           /\ Head(acks).ack \in (una + 1)..rcvNext
<1>1. acks \in Seq(AckType) /\ una \in Nat /\ rcvNext \in Nat
  BY DEF OrderInv, FInv
<1>2. /\ Len(acks') = Len(acks) - 1 /\ Len(acks) \in Nat \ {0} /\ Head(acks) = acks[1]
      /\ \A i \in 1..Len(acks') : acks'[i] = acks[i + 1]
  BY <1>1, HeadTailProperties
<1>3. \A i \in 1..Len(acks') : i + 1 \in 1..Len(acks) /\ 1 \in 1..Len(acks) /\ 1 < i + 1
  BY <1>2
<1> DEFINE a(i) == acks[i].ack
<1>4. /\ \A i \in 1..Len(acks) : a(i) \in (una + 1)..rcvNext
      /\ \A i, j \in 1..Len(acks) : i < j => a(i) < a(j)
  BY DEF OrderInv, AcksInOrder
<1>5. Head(acks).ack = a(1) /\ a(1) \in (una + 1)..rcvNext
  BY <1>2, <1>4
<1>6. \A i \in 1..Len(acks') : acks'[i].ack = a(i + 1) /\ a(i + 1) > a(1)
  BY <1>2, <1>3, <1>4
<1>7. delAck \in 1..(DelAckMax - 1) =>
          una < rcvNext /\ \A i \in 1..Len(acks) : a(i) < rcvNext
  BY DEF OrderInv, DelayedAckDue
<1> HIDE DEF a
<1>8. AcksInOrder'
  <2>1. una' <= rcvNext /\ una' \in Nat /\ \A i \in 1..Len(acks') : acks'[i].ack > una'
    BY <1>1, <1>3, <1>4, <1>5, <1>6
  <2>2. \A i \in 1..Len(acks') : acks'[i].ack \in (una' + 1)..rcvNext
    BY <1>1, <1>3, <1>4, <1>6, <2>1
  <2>3. \A i, j \in 1..Len(acks') : i < j => acks'[i].ack < acks'[j].ack
    BY <1>2, <1>3, <1>4, <1>6
  <2> QED
    BY <2>1, <2>2, <2>3 DEF AcksInOrder
<1>9. DelayedAckDue'
  <2>1. delAck' \in 1..(DelAckMax - 1) => una' < rcvNext
    BY <1>2, <1>5, <1>7
  <2> QED
    BY <1>3, <1>6, <1>7, <2>1 DEF DelayedAckDue, OrderInv
<1> QED
  BY <1>5, <1>8, <1>9

\* A new ACK for what the receiver has now is beyond all others.
LEMMA PutInOrder ==
    ASSUME OrderInv, NEW ecn, NEW load, SendAck(rcvNext', ecn, load),
           rcvNext' \in Nat, rcvNext' >= rcvNext, UNCHANGED una, una < rcvNext',
           \A i \in 1..Len(acks) : acks[i].ack < rcvNext'
    PROVE  AcksInOrder' /\ DelayedAckDue'
<1> DEFINE flags == AckFlags(Echoes(ecn), load)
           m == [ack |-> rcvNext', ece |-> flags.ece, cwr |-> flags.cwr, mark |-> load]
<1>1. acks' = Append(acks, m) /\ delAck' = 0 /\ m.ack = rcvNext'
  BY DEF SendAck
<1> HIDE DEF m
<1>2. /\ acks \in Seq(AckType) /\ Len(acks) \in Nat /\ una \in Nat /\ rcvNext \in Nat
  BY DEF OrderInv, FInv
<1>3. /\ Len(acks') = Len(acks) + 1 /\ acks'[Len(acks) + 1] = m
      /\ \A i \in 1..Len(acks) : acks'[i] = acks[i]
  BY <1>1, <1>2
<1>4. \A i \in 1..Len(acks') : i # Len(acks) + 1 => i \in 1..Len(acks)
  BY <1>2, <1>3
<1>5. \A i \in 1..Len(acks') : acks'[i].ack \in (una + 1)..rcvNext'
  BY <1>1, <1>2, <1>3, <1>4 DEF OrderInv, AcksInOrder
<1>6. \A i, j \in 1..Len(acks') : i < j => acks'[i].ack < acks'[j].ack
  BY <1>1, <1>2, <1>3, <1>4 DEF OrderInv, AcksInOrder
<1> QED
  BY <1>1, <1>2, <1>5, <1>6 DEF AcksInOrder, DelayedAckDue

LEMMA OrderStep == OrderInv /\ [Next]_vars => OrderInv'
<1> SUFFICES ASSUME OrderInv, [Next]_vars PROVE OrderInv'
  OBVIOUS
<1>0. FInv'
  BY FInvStep DEF OrderInv
<1>1. ASSUME NEW n \in 1..MaxFlight, AppSend(n) PROVE OrderInv'
  <2>1. SegmentsInOrder'
    BY <1>1, BurstInOrder, BoundAssumption DEF AppSend, receiverVars
  <2> QED
    BY <1>0, <1>1, <2>1
      DEF AppSend, receiverVars, OrderInv, AcksInOrder, DelayedAckDue
<1>2. ASSUME NEW load \in PathLoads, NEW n \in 0..MaxFlight,
             SenderReceivesAck(load, n)
      PROVE  OrderInv'
  <2>1. /\ acks # <<>> /\ acks' = Tail(acks) /\ UNCHANGED <<rcvNext, delAck>>
        /\ una' \in {una, Head(acks).ack}
    BY <1>2 DEF SenderReceivesAck, receiverVars
  <2>2. \E ecn, echo, head : SendBurst(n, ecn, echo, head)
    BY <1>2, Zenon DEF SenderReceivesAck
  <2>3. SegmentsInOrder'
    <3>1. PICK ecn, echo, head : SendBurst(n, ecn, echo, head)
      BY <2>2
    <3>2. n \in Nat /\ UNCHANGED rcvNext
      BY <2>1, BoundAssumption
    <3> QED
      BY <3>1, <3>2, BurstInOrder, Zenon
  <2> QED
    BY <1>0, <2>1, <2>3, TakeInOrder DEF OrderInv
<1>3. ASSUME NEW load \in PathLoads, ReceiverReceivesData(load) PROVE OrderInv'
  <2> DEFINE Segment == [seq : Nat, cwr : BOOLEAN]
             m == Head(data)
  <2>1. /\ data # <<>> /\ data' = Tail(data) /\ rcvNext' = m.seq + 1
        /\ UNCHANGED <<next, una>>
    BY <1>3 DEF ReceiverReceivesData, senderVars
  <2>2. /\ data \in Seq(Segment) /\ next \in Nat /\ una \in Nat /\ rcvNext \in Nat
    BY DEF OrderInv, FInv
  <2> HIDE DEF Segment
  <2>3. /\ Len(data') = Len(data) - 1 /\ Len(data) \in Nat \ {0} /\ m = data[1]
        /\ \A i \in 1..Len(data') : data'[i] = data[i + 1]
    BY <2>1, <2>2, HeadTailProperties, SMTT(30)
  <2>4. m.seq = rcvNext
    BY <2>2, <2>3, SMTT(30) DEF OrderInv, SegmentsInOrder
  <2>5. \/ delAck' = delAck + 1 /\ UNCHANGED acks
        \/ \E ecn : SendAck(rcvNext', ecn, load)
    BY <1>3, <2>1, Zenon DEF ReceiverReceivesData
  <2> HIDE DEF m
  <2>6. rcvNext' = rcvNext + 1 /\ rcvNext' \in Nat
    BY <2>1, <2>2, <2>4
  <2>7. SegmentsInOrder'
    <3>1. next' = rcvNext' + Len(data')
      BY <2>1, <2>2, <2>3, <2>6 DEF OrderInv, SegmentsInOrder
    <3>2. ASSUME NEW i \in 1..Len(data') PROVE data'[i].seq = rcvNext' + i - 1
      <4>1. data'[i] = data[i + 1] /\ i + 1 \in 1..Len(data)
        BY <2>3
      <4>2. data'[i].seq = rcvNext + (i + 1) - 1
        BY <4>1 DEF OrderInv, SegmentsInOrder
      <4> QED
        BY <2>2, <2>3, <2>6, <4>2
    <3> QED
      BY <3>1, <3>2 DEF SegmentsInOrder
  <2>8. /\ una < rcvNext'
        /\ \A i \in 1..Len(acks) :
               acks[i].ack < rcvNext' /\ acks[i].ack \in (una + 1)..rcvNext'
    BY <2>2, <2>6 DEF OrderInv, AcksInOrder
  <2>9. AcksInOrder' /\ DelayedAckDue'
    <3>1. CASE delAck' = delAck + 1 /\ UNCHANGED acks
      BY <2>1, <2>2, <2>6, <2>8, <3>1 DEF OrderInv, AcksInOrder, DelayedAckDue
    <3>2. CASE \E ecn : SendAck(rcvNext', ecn, load)
      BY <2>1, <2>2, <2>6, <2>8, <3>2, PutInOrder
    <3> QED
      BY <2>5, <3>1, <3>2
  <2> QED
    BY <1>0, <2>7, <2>9 DEF OrderInv
<1>4. CASE DelAckTimeout
  <2>1. /\ delAck \in 1..(DelAckMax - 1) /\ SendAck(rcvNext, rcvEcn, loadOut)
        /\ UNCHANGED <<rcvNext, data, next, una>>
    BY <1>4 DEF DelAckTimeout, senderVars
  <2>2. una < rcvNext /\ \A i \in 1..Len(acks) : acks[i].ack < rcvNext
    BY <2>1 DEF OrderInv, DelayedAckDue
  <2>3. SendAck(rcvNext', rcvEcn, loadOut) /\ rcvNext' \in Nat /\ rcvNext' = rcvNext
    BY <2>1 DEF OrderInv, FInv
  <2>4. AcksInOrder' /\ DelayedAckDue'
    BY <2>1, <2>2, <2>3, PutInOrder
  <2> QED
    BY <1>0, <2>1, <2>4 DEF OrderInv, SegmentsInOrder
<1>5. CASE LoseAck
  <2>1. /\ acks # <<>> /\ acks' = Tail(acks)
        /\ UNCHANGED <<next, una, rcvNext, delAck, data>>
    BY <1>5 DEF LoseAck, senderVars, receiverVars
  <2> QED
    BY <1>0, <2>1, TakeInOrder DEF OrderInv, SegmentsInOrder
<1>6. CASE UNCHANGED vars
  BY <1>0, <1>6 DEF vars, OrderInv, SegmentsInOrder, AcksInOrder, DelayedAckDue
<1> QED
  BY <1>1, <1>2, <1>3, <1>4, <1>5, <1>6 DEF Next

LEMMA OrderStarts == Init => OrderInv
<1>1. Init => FInv
  BY PathAssumption DEF Init, FInv
<1> QED
  BY <1>1, BoundAssumption
    DEF Init, OrderInv, SegmentsInOrder, AcksInOrder, DelayedAckDue

\* However many ACKs are lost or delayed, the segments in flight are the ones the
\* receiver expects next, and the ACKs in flight are new to the sender and in order.
THEOREM EverythingInOrder == Spec => []InOrder
<1>1. Init => OrderInv
  BY OrderStarts
<1>2. OrderInv => InOrder
  BY DEF OrderInv, SegmentsInOrder, AcksInOrder, InOrder
<1> QED
  BY OrderStep, <1>1, <1>2, PTL DEF Spec
-----------------------------------------------------------------------------
(* The rest of the shape: what the two ECN machines and the counters hold. *)

Counters ==
    /\ next \in 1..(Segments + 1)
    /\ sndEcn \in EcnState /\ rcvEcn \in EcnState
    /\ echoSeq \in 0..una /\ cwrSeq \in 0..Segments
    /\ sndCeSeq \in 0..AckSeq /\ ceSeq \in 0..Segments
    /\ una >= 1 /\ cong \in {"OPEN", "CWR"} /\ recover \in 0..next
    /\ loadIn \in LoadType
    /\ delAck \in 0..DelAckMax /\ lost \in 0..MaxLost

\* The numbers both ends keep are related through what is in flight.
LEMMA Between ==
    ASSUME OrderInv
    PROVE  /\ una <= rcvNext /\ rcvNext <= next
           /\ una \in Nat /\ rcvNext \in Nat /\ next \in Nat
           /\ \A i \in 1..Len(acks) : acks[i].ack \in (una + 1)..rcvNext
           /\ \A i \in 1..Len(data) : data[i].seq \in rcvNext..(next - 1)
<1>1. Len(data) \in Nat
  BY LenProperties DEF OrderInv, FInv
<1> QED
  BY <1>1 DEF OrderInv, FInv, SegmentsInOrder, AcksInOrder

\* The ECN machine of either end stays within its states.
LEMMA EcnStates ==
    ASSUME NEW ecn \in EcnState, NEW load, NEW seq, NEW lastCe, NEW cwr
    PROVE  AfterCwrFlag(AfterIpHeader(ecn, load, seq, lastCe), cwr) \in EcnState
BY Zenon DEF AfterCwrFlag, AfterIpHeader, EcnState

\* A burst answers an echo at most once, with the number of its first segment.
LEMMA BurstCounters ==
    ASSUME Counters, NEW n \in Nat, NEW ecn \in EcnState, NEW echo, NEW head,
           SendBurst(n, ecn, echo, head)
    PROVE  /\ next' \in next..(Segments + 1)
           /\ sndEcn' \in EcnState /\ cwrSeq' \in 0..Segments
<1> DEFINE answer == n > 0 /\ ecn = "ECE_RCVD" /\ echo > cwrSeq
<1>1. /\ next + n <= Segments + 1 /\ next' = next + n
      /\ sndEcn' = IF answer THEN "CWR_SENT" ELSE ecn
      /\ cwrSeq' = IF answer THEN next ELSE cwrSeq
  BY DEF SendBurst
<1>2. answer => n > 0
  OBVIOUS
<1> HIDE DEF answer
<1>3. next' \in next..(Segments + 1) /\ cwrSeq' \in 0..Segments
  BY <1>1, <1>2, BoundAssumption DEF Counters
<1>4. sndEcn' \in EcnState
  BY <1>1, Zenon DEF EcnState
<1> QED
  BY <1>3, <1>4

LEMMA CountersStep == OrderInv /\ Counters /\ [Next]_vars => Counters'
<1> SUFFICES ASSUME OrderInv, Counters, [Next]_vars PROVE Counters'
  OBVIOUS
<1>0. /\ una <= rcvNext /\ rcvNext <= next
      /\ una \in Nat /\ rcvNext \in Nat /\ next \in Nat
      /\ \A i \in 1..Len(acks) : acks[i].ack \in (una + 1)..rcvNext
      /\ \A i \in 1..Len(data) : data[i].seq \in rcvNext..(next - 1)
  BY Between
<1>1. ASSUME NEW n \in 1..MaxFlight, AppSend(n) PROVE Counters'
  <2>1. /\ next' \in next..(Segments + 1)
        /\ sndEcn' \in EcnState /\ cwrSeq' \in 0..Segments
    BY <1>1, BurstCounters, BoundAssumption DEF AppSend, Counters
  <2> QED
    BY <1>0, <1>1, <2>1, BoundAssumption DEF AppSend, receiverVars, Counters
<1>2. ASSUME NEW load \in PathLoads, NEW n \in 0..MaxFlight,
             SenderReceivesAck(load, n)
      PROVE  Counters'
  <2> DEFINE m == Head(acks)
             ecn == AfterCwrFlag(AfterIpHeader(sndEcn, load, AckSeq, sndCeSeq), m.cwr)
             open == RecoveryOver(m.ack)
             echoed == m.ack > una /\ ecn # "DISABLED" /\ m.ece
             valid == echoed /\ echoSeq < m.ack
             ecnAfter == IF valid THEN "ECE_RCVD"
                         ELSE IF ~echoed /\ ecn = "ECE_RCVD" /\ ~m.ece THEN "IDLE"
                         ELSE ecn
             echo == IF valid THEN m.ack ELSE echoSeq
             enterCwr == valid /\ open
  <2>1. m.ack \in (una + 1)..rcvNext
    <3>1. acks \in Seq(AckType) /\ acks # <<>>
      BY <1>2 DEF SenderReceivesAck, OrderInv, FInv
    <3>2. m = acks[1] /\ 1 \in 1..Len(acks)
      BY <3>1, HeadTailProperties
    <3> QED
      BY <1>0, <3>2
  <2>2. /\ loadIn' = DecodeLoad(m.ece, m.cwr)
        /\ sndCeSeq' = IF load = ECN_CE /\ sndCeSeq < AckSeq THEN AckSeq ELSE sndCeSeq
        /\ una' = IF m.ack > una THEN m.ack ELSE una
        /\ echoSeq' = echo
        /\ cong' = IF enterCwr \/ ~open THEN "CWR" ELSE "OPEN"
        /\ recover' = IF enterCwr THEN next ELSE recover
        /\ SendBurst(n, ecnAfter, echo, una')
        /\ UNCHANGED lost
        /\ UNCHANGED receiverVars
    BY <1>2, Zenon DEF SenderReceivesAck
  <2>3. ecn \in EcnState
    BY EcnStates DEF Counters
  <2>4. ecnAfter \in EcnState
    <3> HIDE DEF ecn, echoed, valid
    <3> QED
      BY <2>3, Zenon DEF EcnState
  <2>5. /\ next' \in next..(Segments + 1)
        /\ sndEcn' \in EcnState /\ cwrSeq' \in 0..Segments
    <3> HIDE DEF ecnAfter, echo
    <3> QED
      BY <2>2, <2>4, BurstCounters, BoundAssumption
  <2>6. loadIn' \in LoadType
    BY <2>2 DEF DecodeLoad, LoadType, LOAD_NOT_SUPPORTED, LOAD_LOW, LOAD_HIGH,
                LOAD_OVERLOAD
  <2>7. sndCeSeq' \in 0..AckSeq
    BY <2>2 DEF Counters, AckSeq
  <2> HIDE DEF m, valid, open
  <2>8. una' = m.ack /\ echoSeq' \in 0..una' /\ una' >= 1
    BY <1>0, <2>1, <2>2 DEF Counters
  <2>9. cong' \in {"OPEN", "CWR"} /\ recover' \in 0..next'
    <3>1. recover' \in {recover, next} /\ cong' \in {"OPEN", "CWR"}
      BY <2>2, Zenon
    <3> QED
      BY <1>0, <2>5, <3>1 DEF Counters
  <2> QED
    BY <1>0, <2>2, <2>5, <2>6, <2>7, <2>8, <2>9, BoundAssumption
      DEF Counters, receiverVars
<1>3. ASSUME NEW load \in PathLoads, ReceiverReceivesData(load) PROVE Counters'
  <2> DEFINE m == Head(data)
             ecn == AfterCwrFlag(AfterIpHeader(rcvEcn, load, m.seq, ceSeq), m.cwr)
  <2>1. m.seq \in rcvNext..(next - 1)
    <3>1. data \in Seq([seq : Nat, cwr : BOOLEAN]) /\ data # <<>>
      BY <1>3 DEF ReceiverReceivesData, OrderInv, FInv
    <3>2. m = data[1] /\ 1 \in 1..Len(data)
      BY <3>1, HeadTailProperties
    <3> QED
      BY <1>0, <3>2
  <2>2. /\ ceSeq' \in {m.seq, ceSeq}
        /\ \/ SendAck(m.seq + 1, ecn, load)
           \/ delAck + 1 < DelAckMax /\ delAck' = delAck + 1 /\ rcvEcn' = ecn
        /\ UNCHANGED lost /\ UNCHANGED senderVars
    <3>1. delAck + 1 >= DelAckMax \/ delAck + 1 < DelAckMax
      BY BoundAssumption DEF Counters
    <3> QED
      BY <1>3, <3>1, Zenon DEF ReceiverReceivesData
  <2>3. ecn \in EcnState
    BY EcnStates DEF Counters
  <2> HIDE DEF m, ecn
  <2>4. ceSeq' \in 0..Segments
    BY <1>0, <2>1, <2>2, BoundAssumption DEF Counters
  <2>5. delAck' \in 0..DelAckMax /\ rcvEcn' \in EcnState
    <3>1. CASE SendAck(m.seq + 1, ecn, load)
      BY <2>3, <3>1, BoundAssumption DEF SendAck, EcnState
    <3>2. CASE delAck + 1 < DelAckMax /\ delAck' = delAck + 1 /\ rcvEcn' = ecn
      BY <2>3, <3>2, BoundAssumption DEF Counters
    <3> QED
      BY <2>2, <3>1, <3>2
  <2> QED
    BY <1>0, <2>2, <2>4, <2>5 DEF Counters, senderVars
<1>4. CASE DelAckTimeout
  <2>1. delAck' = 0 /\ rcvEcn' \in {"SENDING_ECE", rcvEcn}
    BY <1>4 DEF DelAckTimeout, SendAck
  <2> QED
    BY <1>4, <2>1, BoundAssumption DEF DelAckTimeout, senderVars, Counters, EcnState
<1>5. CASE LoseAck
  BY <1>5, BoundAssumption DEF LoseAck, senderVars, receiverVars, Counters
<1>6. CASE UNCHANGED vars
  BY <1>6 DEF vars, Counters
<1> QED
  BY <1>1, <1>2, <1>3, <1>4, <1>5, <1>6 DEF Next

\* For any number of segments, flight, losses and delayed ACKs the state of both ends
\* and of the two lines keeps its shape, and the sequence numbers keep their order.
THEOREM FeedbackTypeCorrect == Spec => []TypeOK
<1>1. Init => OrderInv
  BY OrderStarts
<1>2. Init => Counters
  <2> SUFFICES ASSUME Init PROVE Counters
    OBVIOUS
  <2>1. rcvEcn \in EcnState /\ sndEcn \in EcnState
    BY DEF Init, AfterIpHeader, EcnState
  <2>2. ceSeq \in 0..Segments
    BY BoundAssumption DEF Init, AckSeq
  <2> QED
    BY <2>1, <2>2, BoundAssumption
      DEF Init, Counters, AckSeq, LoadType, LOAD_NOT_SUPPORTED, LOAD_OVERLOAD
<1>3. OrderInv /\ Counters => TypeOK
  <2> SUFFICES ASSUME OrderInv, Counters PROVE TypeOK
    OBVIOUS
  <2>1. /\ una <= rcvNext /\ rcvNext <= next
        /\ una \in Nat /\ rcvNext \in Nat /\ next \in Nat
        /\ \A i \in 1..Len(acks) : acks[i].ack \in (una + 1)..rcvNext
        /\ \A i \in 1..Len(data) : data[i].seq \in rcvNext..(next - 1)
    BY Between
  <2>2. data \in Seq([seq : 1..Segments, cwr : BOOLEAN])
    <3> DEFINE Segment == [seq : 1..Segments, cwr : BOOLEAN]
    <3>1. data \in [1..Len(data) -> [seq : Nat, cwr : BOOLEAN]] /\ Len(data) \in Nat
      BY LenProperties DEF OrderInv, FInv
    <3>2. \A i \in 1..Len(data) : data[i] \in Segment
      <4> SUFFICES ASSUME NEW i \in 1..Len(data) PROVE data[i] \in Segment
        OBVIOUS
      <4>1. data[i] \in [seq : Nat, cwr : BOOLEAN]
        BY <3>1
      <4>2. data[i].seq \in rcvNext..(next - 1)
        BY <2>1
      <4>3. data[i].seq \in 1..Segments
        BY <2>1, <4>2, BoundAssumption, SMTT(30) DEF Counters
      <4> QED
        BY <4>1, <4>3
    <3> HIDE DEF Segment
    <3>3. data \in Seq(Segment)
      BY <3>1, <3>2
    <3> QED
      BY <3>3 DEF Segment
  <2>3. acks \in Seq([ack : 1..(Segments + 1), ece : BOOLEAN, cwr : BOOLEAN,
                      mark : LoadType])
    <3> DEFINE Ack == [ack : 1..(Segments + 1), ece : BOOLEAN, cwr : BOOLEAN,
                       mark : LoadType]
    <3>1. acks \in [1..Len(acks) -> AckType] /\ Len(acks) \in Nat
      BY LenProperties DEF OrderInv, FInv
    <3>2. \A i \in 1..Len(acks) : acks[i] \in Ack
      <4> SUFFICES ASSUME NEW i \in 1..Len(acks) PROVE acks[i] \in Ack
        OBVIOUS
      <4>1. acks[i] \in AckType /\ acks[i].ack \in 1..(Segments + 1)
        BY <2>1, <3>1, BoundAssumption DEF Counters
      <4> QED
        BY <4>1 DEF AckType
    <3> HIDE DEF Ack
    <3>3. acks \in Seq(Ack)
      BY <3>1, <3>2
    <3> QED
      BY <3>3 DEF Ack
  <2> QED
    BY <2>1, <2>2, <2>3 DEF TypeOK, Counters, OrderInv, FInv
<1>4. OrderInv /\ Counters /\ [Next]_vars => (OrderInv /\ Counters)'
  BY OrderStep, CountersStep
<1> QED
  BY <1>1, <1>2, <1>3, <1>4, PTL DEF Spec
=============================================================================
