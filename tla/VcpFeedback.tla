---------------------------- MODULE VcpFeedback ----------------------------
(***************************************************************************)
(* How the load of a path comes back to the sender.  Two established       *)
(* TcpSocketBase endpoints (internet/model/tcp-socket-base.cc): one sends  *)
(* data, the other returns pure ACKs.  Every packet crosses at least one   *)
(* VcpQueueDisc, so it arrives with a load that Ipv4L3Protocol::Receive    *)
(* copied from its VcpPacketTag to the ECN bits of the IP header.          *)
(*                                                                         *)
(* The receiver keeps that load in m_vcpLoadOut and puts it on its ACKs in *)
(* the two TCP flags ECE and CWR; the sender decodes them to m_vcpLoadIn.  *)
(* The same bits of IP and TCP headers are those of ECN, whose state       *)
(* machine is still in the code and runs although UseEcn is Off: the model *)
(* has both.                                                               *)
(*                                                                         *)
(* Sequence numbers count segments, the first data segment is 1.  Packets  *)
(* are not reordered; ACKs may be lost, data is not (no retransmission).   *)
(* The window is left open: any burst the bound on flight allows may be    *)
(* sent where the code calls SendPendingData.                              *)
(***************************************************************************)
EXTENDS Naturals, Sequences

CONSTANTS
    Segments,       \* bound of the model: data segments the application sends
    MaxFlight,      \* bound of the model: segments sent and not yet acked
    MaxLost,        \* bound of the model: ACKs the network may lose
    DelAckMax,      \* m_delAckMaxCount
    PathLoads       \* loads a packet may arrive with

(* VcpPacketTag::LoadType, and Ipv4Header::ECN_CE, which has the value of  *)
(* LOAD_OVERLOAD.                                                          *)
LOAD_NOT_SUPPORTED == 0
LOAD_LOW == 1
LOAD_HIGH == 2
LOAD_OVERLOAD == 3
LoadType == LOAD_NOT_SUPPORTED..LOAD_OVERLOAD
ECN_CE == LOAD_OVERLOAD

EcnState == {"DISABLED", "IDLE", "CE_RCVD", "SENDING_ECE", "ECE_RCVD", "CWR_SENT"}

ASSUME BoundAssumption ==
    /\ Segments \in Nat \ {0} /\ MaxFlight \in Nat \ {0}
    /\ MaxLost \in Nat /\ DelAckMax \in Nat
ASSUME PathAssumption == PathLoads \subseteq LoadType

VARIABLES
    next,       \* sender: m_nextTxSequence = m_highTxMark
    una,        \* sender: m_txBuffer->HeadSequence
    sndEcn,     \* sender: m_tcb->m_ecnState
    echoSeq,    \* sender: m_ecnEchoSeq
    cwrSeq,     \* sender: m_ecnCWRSeq
    sndCeSeq,   \* sender: m_ecnCESeq
    cong,       \* sender: m_tcb->m_congState, "OPEN" or "CWR"
    recover,    \* sender: m_recover
    loadIn,     \* sender: m_tcb->m_vcpLoadIn
    rcvNext,    \* receiver: m_rxBuffer->NextRxSequence
    rcvEcn,     \* receiver: m_tcb->m_ecnState
    ceSeq,      \* receiver: m_ecnCESeq
    loadOut,    \* receiver: m_tcb->m_vcpLoadOut
    delAck,     \* receiver: m_delAckCount
    data,       \* data segments in flight: [seq, cwr]
    acks,       \* ACKs in flight: [ack, ece, cwr, mark]
    lost        \* ACKs lost so far

senderVars == <<next, una, sndEcn, echoSeq, cwrSeq, sndCeSeq, cong, recover, loadIn>>
receiverVars == <<rcvNext, rcvEcn, ceSeq, loadOut, delAck>>
vars == <<next, una, sndEcn, echoSeq, cwrSeq, sndCeSeq, cong, recover, loadIn,
          rcvNext, rcvEcn, ceSeq, loadOut, delAck, data, acks, lost>>

(* The sequence number of every pure ACK of an endpoint that sends no data.*)
AckSeq == 1

-----------------------------------------------------------------------------
(* The flags of a pure ACK, SendEmptyPacket called with or without ECE.    *)

\* Faulty variant: OVERLOAD gets the one flag of LOW.
AckFlagsOneBit(withEce, load) ==
    [ece |-> load \in {LOAD_LOW, LOAD_OVERLOAD}
             \/ (withEce /\ load # LOAD_NOT_SUPPORTED),
     cwr |-> load = LOAD_HIGH]

AckFlags(withEce, load) ==
    [ece |-> load \in {LOAD_LOW, LOAD_OVERLOAD}
             \/ (withEce /\ load # LOAD_NOT_SUPPORTED),
     cwr |-> load \in {LOAD_HIGH, LOAD_OVERLOAD}]

\* Faulty variant: looks at the flags one by one.
DecodeFirstFlag(ece, cwr) ==
    IF cwr THEN LOAD_HIGH
    ELSE IF ece THEN LOAD_LOW
    ELSE LOAD_NOT_SUPPORTED

\* ProcessEstablished's reading of them.
DecodeLoad(ece, cwr) ==
    IF ece /\ cwr THEN LOAD_OVERLOAD
    ELSE IF cwr THEN LOAD_HIGH
    ELSE IF ece THEN LOAD_LOW
    ELSE LOAD_NOT_SUPPORTED

\* ForwardUp: an IP header that reads as Congestion Experienced.
AfterIpHeader(ecn, load, seq, lastCe) ==
    IF load = ECN_CE /\ lastCe < seq THEN "CE_RCVD" ELSE ecn

\* DoForwardUp: a segment with CWR ends the echo, and enables ECN.
AfterCwrFlag(ecn, cwr) == IF cwr /\ ecn # "CE_RCVD" THEN "IDLE" ELSE ecn

-----------------------------------------------------------------------------
(* The sender.                                                             *)

\* SendPendingData, then SendDataPacket for each segment of a burst of n.
\* The first one reports CWR if an echo has not been answered yet.
SendBurst(n, ecn, echo, head) ==
    LET answer == n > 0 /\ ecn = "ECE_RCVD" /\ echo > cwrSeq
    IN  /\ next + n <= Segments + 1 /\ next + n <= head + MaxFlight
        /\ next' = next + n
        /\ data' = data \o [i \in 1..n |-> [seq |-> next + i - 1,
                                            cwr |-> answer /\ i = 1]]
        /\ sndEcn' = IF answer THEN "CWR_SENT" ELSE ecn
        /\ cwrSeq' = IF answer THEN next ELSE cwrSeq

\* The application hands over data: Send -> SendPendingData.
AppSend(n) ==
    /\ SendBurst(n, sndEcn, echoSeq, una)
    /\ UNCHANGED <<una, echoSeq, sndCeSeq, cong, recover, loadIn, acks, lost>>
    /\ UNCHANGED receiverVars

\* Faulty variant: over one segment early.
RecoveryOverEarly(ack) == cong = "OPEN" \/ ack >= recover

\* ReceivedAck: the window of the last reduction has been acknowledged.
RecoveryOver(ack) == cong = "OPEN" \/ ack > recover

\* ForwardUp, DoForwardUp, ProcessEstablished, ReceivedAck at the sender.
\* load is what the ACK collected on the way back.
SenderReceivesAck(load, n) ==
    LET m == Head(acks)
        ecn == AfterCwrFlag(AfterIpHeader(sndEcn, load, AckSeq, sndCeSeq), m.cwr)
        open == RecoveryOver(m.ack)
        echoed == m.ack > una /\ ecn # "DISABLED" /\ m.ece
        valid == echoed /\ echoSeq < m.ack
        ecnAfter == IF valid THEN "ECE_RCVD"
                    ELSE IF ~echoed /\ ecn = "ECE_RCVD" /\ ~m.ece THEN "IDLE"
                    ELSE ecn
        echo == IF valid THEN m.ack ELSE echoSeq
        enterCwr == valid /\ open
    IN  /\ acks # <<>>
        /\ acks' = Tail(acks)
        /\ loadIn' = DecodeLoad(m.ece, m.cwr)
        /\ sndCeSeq' = IF load = ECN_CE /\ sndCeSeq < AckSeq THEN AckSeq ELSE sndCeSeq
        /\ una' = IF m.ack > una THEN m.ack ELSE una
        /\ echoSeq' = echo
        /\ cong' = IF enterCwr \/ ~open THEN "CWR" ELSE "OPEN"
        /\ recover' = IF enterCwr THEN next ELSE recover
        /\ SendBurst(n, ecnAfter, echo, una')
        /\ UNCHANGED lost
        /\ UNCHANGED receiverVars

-----------------------------------------------------------------------------
(* The receiver.                                                           *)

Echoes(ecn) == ecn \in {"CE_RCVD", "SENDING_ECE"}

\* Faulty variant: the ACK does not reset m_delAckCount.
SendAckNoReset(ackNumber, ecn, load) ==
    LET flags == AckFlags(Echoes(ecn), load)
    IN  /\ acks' = Append(acks, [ack |-> ackNumber, ece |-> flags.ece,
                                 cwr |-> flags.cwr, mark |-> load])
        /\ rcvEcn' = IF Echoes(ecn) THEN "SENDING_ECE" ELSE ecn
        /\ delAck' = delAck + 1

\* An ACK and the ECN state it leaves behind; mark is the load of the segment
\* the ACK answers, kept for the properties only.
SendAck(ackNumber, ecn, load) ==
    LET flags == AckFlags(Echoes(ecn), load)
    IN  /\ acks' = Append(acks, [ack |-> ackNumber, ece |-> flags.ece,
                                 cwr |-> flags.cwr, mark |-> load])
        /\ rcvEcn' = IF Echoes(ecn) THEN "SENDING_ECE" ELSE ecn
        /\ delAck' = 0

\* ForwardUp, DoForwardUp, ProcessEstablished, ReceivedData: an in-sequence
\* segment that collected the given load.
ReceiverReceivesData(load) ==
    LET m == Head(data)
        ecn == AfterCwrFlag(AfterIpHeader(rcvEcn, load, m.seq, ceSeq), m.cwr)
    IN  /\ data # <<>>
        /\ data' = Tail(data)
        /\ ceSeq' = IF load = ECN_CE /\ ceSeq < m.seq THEN m.seq ELSE ceSeq
        /\ loadOut' = load
        /\ rcvNext' = m.seq + 1
        /\ IF delAck + 1 >= DelAckMax
           THEN SendAck(m.seq + 1, ecn, load)
           ELSE delAck' = delAck + 1 /\ rcvEcn' = ecn /\ UNCHANGED acks
        /\ UNCHANGED lost
        /\ UNCHANGED senderVars

\* Faulty variant: the event survives the ACK that should have cancelled it.
DelAckTimeoutStale ==
    /\ delAck \in 0..(DelAckMax - 1)
    /\ SendAck(rcvNext, rcvEcn, loadOut)
    /\ UNCHANGED <<rcvNext, ceSeq, loadOut, data, lost>>
    /\ UNCHANGED senderVars

\* The delayed ACK is due.
DelAckTimeout ==
    /\ delAck \in 1..(DelAckMax - 1)
    /\ SendAck(rcvNext, rcvEcn, loadOut)
    /\ UNCHANGED <<rcvNext, ceSeq, loadOut, data, lost>>
    /\ UNCHANGED senderVars

-----------------------------------------------------------------------------

LoseAck ==
    /\ acks # <<>> /\ lost < MaxLost
    /\ acks' = Tail(acks)
    /\ lost' = lost + 1
    /\ UNCHANGED data
    /\ UNCHANGED senderVars
    /\ UNCHANGED receiverVars

\* Right after the handshake, whose last ACK passed the receiver's ForwardUp
\* with some load: it has sequence number 1, so that an overload on it already
\* counts as Congestion Experienced, and only the sender has left that state
\* (ProcessSynSent sets ECN_DISABLED).  m_delAckCount starts at its maximum:
\* the first segment is acknowledged at once.
Init ==
    /\ next = 1 /\ una = 1
    /\ sndEcn = "DISABLED" /\ echoSeq = 0 /\ cwrSeq = 0 /\ sndCeSeq = 0
    /\ cong = "OPEN" /\ recover = 0 /\ loadIn = LOAD_NOT_SUPPORTED
    /\ loadOut \in PathLoads
    /\ rcvEcn = AfterIpHeader("DISABLED", loadOut, AckSeq, 0)
    /\ ceSeq = IF loadOut = ECN_CE THEN AckSeq ELSE 0
    /\ rcvNext = 1 /\ delAck = DelAckMax
    /\ data = <<>> /\ acks = <<>> /\ lost = 0

Next ==
    \/ \E n \in 1..MaxFlight : AppSend(n)
    \/ \E load \in PathLoads, n \in 0..MaxFlight : SenderReceivesAck(load, n)
    \/ \E load \in PathLoads : ReceiverReceivesData(load)
    \/ DelAckTimeout
    \/ LoseAck

Spec == Init /\ [][Next]_vars

(* The network delivers what it does not lose, and the delayed-ACK timer   *)
(* fires; the application is free not to send.                             *)
FairSpec ==
    /\ Spec
    /\ WF_vars(\E load \in PathLoads, n \in 0..MaxFlight : SenderReceivesAck(load, n))
    /\ WF_vars(\E load \in PathLoads : ReceiverReceivesData(load))
    /\ WF_vars(DelAckTimeout)
-----------------------------------------------------------------------------
(* Properties.                                                             *)

\* Shape of the state.
TypeOK ==
    /\ next \in 1..(Segments + 1) /\ una \in 1..next
    /\ sndEcn \in EcnState /\ rcvEcn \in EcnState
    /\ echoSeq \in 0..una /\ cwrSeq \in 0..Segments
    /\ sndCeSeq \in 0..AckSeq /\ ceSeq \in 0..Segments
    /\ cong \in {"OPEN", "CWR"} /\ recover \in 0..next
    /\ loadIn \in LoadType /\ loadOut \in LoadType
    /\ rcvNext \in una..next
    /\ delAck \in 0..DelAckMax
    /\ data \in Seq([seq : 1..Segments, cwr : BOOLEAN])
    /\ acks \in Seq([ack : 1..(Segments + 1), ece : BOOLEAN, cwr : BOOLEAN,
                     mark : LoadType])
    /\ lost \in 0..MaxLost

\* Segments and acknowledgements account for each other: what the receiver
\* expects next heads the data in flight, and ACKs in flight run from beyond
\* what the sender knows to at most what the receiver has.
InOrder ==
    /\ next = rcvNext + Len(data)
    /\ \A i \in 1..Len(data) : data[i].seq = rcvNext + i - 1
    /\ \A i \in 1..Len(acks) : acks[i].ack \in (una + 1)..rcvNext
    /\ \A i, j \in 1..Len(acks) : i < j => acks[i].ack < acks[j].ack

\* The ECN state machine that shares the flags never makes a path look
\* better than the segment an ACK answers found it.
NeverUnderReported ==
    \A i \in 1..Len(acks) : DecodeLoad(acks[i].ece, acks[i].cwr) >= acks[i].mark

\* tcp-socket-base.cc:1594 "Sender should reduce the Congestion Window as a
\* response to receiver's ECN Echo notification only once per window": the
\* sender does not enter CA_CWR again before the data it had outstanding
\* when it last did is acknowledged, whatever order the loads come in.
OncePerWindow == [][recover' # recover => una' > recover]_vars

\* Once the network has stopped losing ACKs, an overload that an ACK on its way
\* answers for reaches the controller of the sender, whatever the ECN states of the
\* two ends and the delayed ACKs have made of the flags in between.
OverloadReachesSender ==
    (lost = MaxLost /\ \E i \in 1..Len(acks) : acks[i].mark = LOAD_OVERLOAD)
        ~> (loadIn = LOAD_OVERLOAD)

\* tcp-socket-base.cc:1501 "Receiver sets ECE flags when it receives a packet
\* with CE bit on" (or while the sender has not answered such an echo): the
\* sender only takes an ACK for an ECN echo, and only enters CA_CWR, when
\* some segment did reach the receiver marked as congested.
CwrOnlyAfterCe == cong = "CWR" => ceSeq > 0
=============================================================================
