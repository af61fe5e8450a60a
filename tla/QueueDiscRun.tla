--------------------------- MODULE QueueDiscRun ---------------------------
(***************************************************************************)
(* One output of a node: the root queue disc, the transmission queue of    *)
(* its point-to-point device, the transmitter and the channel.  Nobody     *)
(* polls: the queue disc is run by every arrival and, when the device      *)
(* queue has stopped it, by an event that the device queue schedules when  *)
(* it has room again.  Events are atomic in the simulator; Run is taken    *)
(* packet by packet, and while it runs no other event is processed.        *)
(*                                                                         *)
(* Queue limits (BQL), devices with several queues, Peek and requeueing,   *)
(* which a device of one queue never causes, are left out.                 *)
(***************************************************************************)
EXTENDS Naturals, Sequences, Sums

CONSTANTS
    Sizes,      \* sizes of packets with their IP header (1 for a queue in packets)
    Header,     \* what PointToPointNetDevice::AddHeader adds (0 for a queue in packets)
    Mtu,        \* size of the packet with which the room is measured (1 likewise)
    DevMax,     \* MaxSize of the device queue
    Limit,      \* MaxSize of the queue disc, in packets
    Quota,      \* Quota of the queue disc
    UintMax,    \* largest uint32_t
    Total       \* bound of the model: packets that arrive

ASSUME SizeAssumption == Sizes \subseteq Nat /\ Header \in Nat /\ Mtu \in Nat /\ DevMax \in Nat
ASSUME QueueAssumption == Limit \in Nat /\ Total \in Nat
ASSUME QuotaAssumption == UintMax \in Nat /\ Quota \in 0..UintMax

\* The room kept for one more packet is enough for any, and an empty queue has it.
ASSUME RoomAssumption == (\A s \in Sizes : s + Header <= Mtu) /\ Mtu <= DevMax

VARIABLES
    arrived,    \* packets handed to TrafficControlLayer::Send so far
    qdisc,      \* the internal queue
    running,    \* m_running
    quota,      \* quota of the Run that is running
    devq,       \* m_queue of the device
    stopped,    \* m_stoppedByDevice
    wakes,      \* events of now that call the wake callback, which is Run
    busy,       \* m_txMachineState = BUSY
    current,    \* m_currentPkt; <<>> if there is none
    channel,    \* packets that have left and wait for their Receive event
    up          \* packets handed up by the other device

vars == <<arrived, qdisc, running, quota, devq, stopped, wakes, busy, current, channel, up>>

Packet == [id : 1..Total, size : Sizes]

-----------------------------------------------------------------------------
(* The device queue.                                                       *)

Bytes(q) == SumSeq([i \in DOMAIN q |-> q[i].size + Header])

Fits(q, p) == Bytes(q) + p.size + Header <= DevMax

\* Faulty variant: room for the smallest packet is room enough.
HasAnyRoom(q) == Bytes(q) < DevMax

\* What PacketEnqueued and PacketDequeued ask.
HasRoom(q) == Bytes(q) + Mtu <= DevMax

\* Faulty variant: the flag is cleared before it is looked at.
WakeAfterStart(q, st) ==
    /\ stopped' = (st /\ ~HasRoom(q))
    /\ UNCHANGED wakes

\* PacketDequeued: wake the queue disc if there is room for one more.
Wake(q, st) ==
    /\ stopped' = (st /\ ~HasRoom(q))
    /\ wakes' = IF st /\ HasRoom(q) THEN wakes + 1 ELSE wakes

-----------------------------------------------------------------------------
(* The queue disc.                                                         *)

RunBegin == ~running /\ running' = TRUE /\ quota' = Quota

Arrival(s) == [id |-> arrived + 1, size |-> s]

\* TrafficControlLayer::Send: enqueue, or drop at the limit, and run.
Send(s) ==
    /\ arrived < Total
    /\ arrived' = arrived + 1
    /\ qdisc' = IF Len(qdisc) < Limit THEN Append(qdisc, Arrival(s)) ELSE qdisc
    /\ RunBegin
    /\ UNCHANGED <<devq, stopped, wakes, busy, current, channel, up>>

\* The event that NetDeviceQueue::Wake has scheduled.
WakeCallback ==
    /\ wakes > 0
    /\ wakes' = wakes - 1
    /\ RunBegin
    /\ UNCHANGED <<arrived, qdisc, devq, stopped, busy, current, channel, up>>

\* Faulty variant: the quota is counted from one.
GoOnToOne ==
    /\ quota' = (quota + UintMax) % (UintMax + 1)
    /\ running' = (qdisc' # <<>> /\ ~stopped' /\ quota' > 1)

\* Run goes round as long as there are packets, the device queue is not stopped and
\* the quota, an unsigned number, is not used up.
GoOn ==
    /\ quota' = (quota + UintMax) % (UintMax + 1)
    /\ running' = (qdisc' # <<>> /\ ~stopped' /\ quota' > 0)

\* DequeuePacket has nothing to give: no packet, or the device queue is stopped.
RunEnd ==
    /\ running /\ (qdisc = <<>> \/ stopped)
    /\ running' = FALSE
    /\ UNCHANGED <<arrived, qdisc, quota, devq, stopped, wakes, busy, current, channel, up>>

\* Restart and PointToPointNetDevice::Send with the transmitter busy: the packet goes
\* to the device queue, which stops the queue disc if it has no room for another one.
\* A packet that does not fit is discarded, and stops it too.
Queue ==
    /\ running /\ qdisc # <<>> /\ ~stopped /\ busy
    /\ qdisc' = Tail(qdisc)
    /\ devq' = IF Fits(devq, Head(qdisc)) THEN Append(devq, Head(qdisc)) ELSE devq
    /\ stopped' = ~(Fits(devq, Head(qdisc)) /\ HasRoom(devq'))
    /\ GoOn
    /\ UNCHANGED <<arrived, wakes, busy, current, channel, up>>

\* The same with the transmitter ready: the packet is queued and dequeued at once.
Transmit ==
    /\ running /\ qdisc # <<>> /\ ~stopped /\ ~busy
    /\ qdisc' = Tail(qdisc)
    /\ LET q == Append(devq, Head(qdisc))
       IN /\ Wake(Tail(q), ~HasRoom(q))
          /\ devq' = Tail(q)
          /\ current' = <<Head(q)>>
    /\ busy' = TRUE
    /\ GoOn
    /\ UNCHANGED <<arrived, channel, up>>

-----------------------------------------------------------------------------
(* The transmitter and the channel.                                        *)

\* Faulty variant: the next packet waits for the next arrival.
TransmitCompleteIdles ==
    /\ ~running /\ wakes = 0 /\ busy
    /\ channel' = channel \o current
    /\ busy' = FALSE /\ current' = <<>>
    /\ UNCHANGED <<arrived, qdisc, running, quota, devq, stopped, wakes, up>>

\* PointToPointNetDevice::TransmitComplete.  A transmission takes time, so the events
\* of now come before.
TransmitComplete ==
    /\ ~running /\ wakes = 0 /\ busy
    /\ channel' = channel \o current
    /\ IF devq = <<>>
         THEN busy' = FALSE /\ current' = <<>> /\ UNCHANGED <<devq, stopped, wakes>>
         ELSE /\ devq' = Tail(devq)
              /\ Wake(Tail(devq), stopped)
              /\ current' = <<Head(devq)>>
              /\ UNCHANGED busy
    /\ UNCHANGED <<arrived, qdisc, running, quota, up>>

\* PointToPointNetDevice::Receive of the device at the other end.
Receive ==
    /\ ~running /\ channel # <<>>
    /\ channel' = Tail(channel)
    /\ up' = up + 1
    /\ UNCHANGED <<arrived, qdisc, running, quota, devq, stopped, wakes, busy, current>>

-----------------------------------------------------------------------------

Init ==
    /\ arrived = 0 /\ up = 0
    /\ qdisc = <<>> /\ devq = <<>> /\ current = <<>> /\ channel = <<>>
    /\ running = FALSE /\ quota = 0
    /\ stopped = FALSE /\ wakes = 0 /\ busy = FALSE

Event == RunEnd \/ Queue \/ Transmit \/ WakeCallback \/ TransmitComplete

Next ==
    \/ \E s \in Sizes : Send(s)
    \/ RunEnd \/ Queue \/ Transmit \/ WakeCallback \/ TransmitComplete \/ Receive

Spec == Init /\ [][Next]_vars

\* The scheduler processes every event; nothing forces a packet to arrive.
FairSpec == Spec /\ WF_vars(Event) /\ WF_vars(Receive)

-----------------------------------------------------------------------------
(* Properties.                                                             *)

\* Nobody polls, so a backlog must always have somebody who will run the queue disc:
\* a Run that is going on, a wake-up event, or a device queue that has stopped the
\* queue disc and, being full and draining, will wake it.
WakeUpPending ==
    /\ qdisc # <<>> => running \/ wakes > 0 \/ stopped
    /\ stopped => busy /\ devq # <<>> /\ ~HasRoom(devq)

\* "This should not happen if the device correctly stops the queue"
\* (net-device-queue-interface.h:392), and the rest of the contract: behind the queue
\* disc nothing is lost, overtaken or left behind.
Output == INSTANCE FifoLink WITH line <- channel \o current \o devq \o qdisc
ImplementsFifo == Output!Spec
=============================================================================
