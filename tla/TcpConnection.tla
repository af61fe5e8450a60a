--------------------------- MODULE TcpConnection ---------------------------
(***************************************************************************)
(* Opening and closing a connection: the state machine of TcpSocketBase    *)
(* (internet/model/tcp-socket-base.cc) at both ends, as BulkSend and       *)
(* PacketSink use it.  The client connects, sends Data segments and        *)
(* closes; the server listens, is forked by a SYN, never sends data and    *)
(* has called ShutdownSend, as PacketSink does.                            *)
(*                                                                         *)
(* SendEmptyPacket ORs the load of the path into the flags of everything   *)
(* it sends, SYN, FIN and RST included, and some states compare the flags  *)
(* with ECE and CWR in them.  A load is the set of the flags it is sent    *)
(* as: {} not supported, {"ECE"} LOW, {"CWR"} HIGH, both OVERLOAD.         *)
(*                                                                         *)
(* A sequence number counts segments: SYN is 0, data 1..Data, FIN next.    *)
(* Packets are not reordered but may be lost.  ACKs are not delayed        *)
(* (DelAckCount 0), applications read at once, the window is never closed  *)
(* and fewer than ReTxThreshold duplicate ACKs arrive.                     *)
(***************************************************************************)
EXTENDS Naturals, Sequences

CONSTANTS
    Data,           \* segments the client has to send
    SynRetries,     \* m_synRetries
    DataRetries,    \* m_dataRetries
    PathLoads,      \* loads a packet may arrive with
    MaxLost,        \* bound of the model: packets the network may lose
    MaxEarly        \* bound of the model: timeouts while packets are in flight

Load == SUBSET {"ECE", "CWR"}

ASSUME CountAssumption ==
    /\ Data \in Nat /\ SynRetries \in Nat \ {0} /\ DataRetries \in Nat
    /\ MaxLost \in Nat /\ MaxEarly \in Nat
ASSUME LoadAssumption == PathLoads \subseteq Load

VARIABLES
    sock,       \* the socket of each node
    net,        \* packets on their way to each node
    listening,  \* the server application holds its listening socket
    closed,     \* nodes whose application has called Close
    lost,       \* packets lost so far
    early       \* early timeouts so far

vars == <<sock, net, listening, closed, lost, early>>

Client == "client"
Server == "server"
Node == {Client, Server}
Peer(n) == IF n = Client THEN Server ELSE Client

State == {"CLOSED", "SYN_SENT", "SYN_RCVD", "ESTABLISHED", "CLOSE_WAIT",
          "LAST_ACK", "FIN_WAIT_1", "FIN_WAIT_2", "CLOSING", "TIME_WAIT"}
PacketType == {"SYN", "SYN_ACK", "ACK", "FIN_ACK", "RST", "RST_ACK"}

Larger(a, b) == IF a > b THEN a ELSE b

NoTimer == [kind |-> "none", bits |-> {}]
DataTimer == [kind |-> "RTO", bits |-> {}]
TimerKind == {"none", "RTO", "SYN", "SYN_ACK", "FIN_ACK"}

\* What the state machine sees of a segment, and the members of a socket.
Packet == [type : PacketType, seq : Nat, ack : Nat, len : 0..1, bits : Load]

Socket == [
    st : State, up : BOOLEAN, load : Load,
    nextTx : Nat, high : Nat, head : Nat, tail : Nat,
    rcv : Nat, held : SUBSET Nat, fin : Nat,
    syn : 0..SynRetries, retr : 0..DataRetries,
    retx : [kind : TimerKind, bits : Load], lato : BOOLEAN,
    coe : BOOLEAN, shut : BOOLEAN, normal : BOOLEAN, error : BOOLEAN,
    out : Seq(Packet)]

\* A socket before Connect, or as Fork leaves it: the copy of m_tcb has no load.
NewSocket == [
    st |-> "CLOSED",        \* m_state
    up |-> FALSE,           \* m_endPoint # nullptr
    load |-> {},            \* m_tcb->m_vcpLoadOut
    nextTx |-> 0,           \* m_tcb->m_nextTxSequence
    high |-> 0,             \* m_tcb->m_highTxMark
    head |-> 0,             \* m_txBuffer->HeadSequence, set when connected
    tail |-> 0,             \* m_txBuffer->TailSequence
    rcv |-> 0,              \* m_rxBuffer->NextRxSequence
    held |-> {},            \* m_rxBuffer: segments beyond rcv
    fin |-> 0,              \* m_rxBuffer->m_finSeq, 0 while m_gotFin is false
    syn |-> SynRetries,     \* m_synCount
    retr |-> DataRetries,   \* m_dataRetrCount
    retx |-> NoTimer,       \* m_retxEvent: ReTxTimeout, or SendEmptyPacket (flags)
    lato |-> FALSE,         \* m_lastAckEvent is running
    coe |-> FALSE,          \* m_closeOnEmpty
    shut |-> FALSE,         \* m_shutdownSend
    normal |-> FALSE,       \* m_closeNotified: the application saw a normal close
    error |-> FALSE,        \* NotifyErrorClose or NotifyConnectionFailed was called
    out |-> <<>>]           \* packets sent in this step

-----------------------------------------------------------------------------
(* Sending.  Each operator maps a socket to the socket after the call.     *)

Deallocate(s) == [s EXCEPT !.up = FALSE, !.retx = NoTimer, !.lato = FALSE]

CloseAndNotify(s) == Deallocate([s EXCEPT !.normal = TRUE, !.st = "CLOSED"])

\* Faulty variant: a SYN does not use up a retry.
SendEmptyForever(s, type, kept) ==
    LET bits == IF s.load = {} THEN {} ELSE kept \cup s.load
        after == type # "FIN_ACK" /\ s.st \in {"FIN_WAIT_1", "LAST_ACK", "CLOSING"}
        guarded == type \in {"SYN", "SYN_ACK", "FIN_ACK"} /\ s.retx = NoTimer
    IN IF ~s.up THEN s
       ELSE [s EXCEPT
                !.out = Append(@, [type |-> type, len |-> 0, ack |-> s.rcv, bits |-> bits,
                                   seq |-> IF after THEN s.nextTx + 1 ELSE s.nextTx]),
                !.retx = IF guarded THEN [kind |-> type, bits |-> bits] ELSE @]

\* SendEmptyPacket (flags), kept being the ECE and CWR bits flags has already.
\* A FIN always has ACK; after a FIN other packets go one beyond it.
SendEmpty(s, type, kept) ==
    LET bits == IF s.load = {} THEN {} ELSE kept \cup s.load
        after == type # "FIN_ACK" /\ s.st \in {"FIN_WAIT_1", "LAST_ACK", "CLOSING"}
        guarded == type \in {"SYN", "SYN_ACK", "FIN_ACK"} /\ s.retx = NoTimer
        syn == type \in {"SYN", "SYN_ACK"}
    IN IF ~s.up THEN s
       ELSE IF syn /\ s.syn = 0
       THEN Deallocate([s EXCEPT !.st = "CLOSED", !.error = TRUE])
       ELSE [s EXCEPT
                !.out = Append(@, [type |-> type, len |-> 0, ack |-> s.rcv, bits |-> bits,
                                   seq |-> IF after THEN s.nextTx + 1 ELSE s.nextTx]),
                !.syn = IF syn THEN @ - 1 ELSE @,
                !.retx = IF guarded THEN [kind |-> type, bits |-> bits] ELSE @]

SendAck(s) == SendEmpty(s, "ACK", {})

SendRST(s) == Deallocate([SendEmpty(s, "RST", {}) EXCEPT !.error = TRUE])

\* SendDataPacket for every segment from the given one.  With m_closeOnEmpty the
\* last one carries the FIN and the state moves on.
SendData(s, first) ==
    LET segment(seq) ==
            [type |-> IF s.coe /\ seq + 1 = s.tail THEN "FIN_ACK" ELSE "ACK",
             seq |-> seq, ack |-> s.rcv, len |-> 1, bits |-> {}]
    IN IF ~s.up \/ first >= s.tail THEN s
       ELSE [s EXCEPT
                !.out = @ \o [i \in 1..(s.tail - first) |-> segment(first + i - 1)],
                !.nextTx = s.tail,
                !.high = Larger(@, s.tail),
                !.retx = IF @ = NoTimer THEN DataTimer ELSE @,
                !.st = CASE s.coe /\ @ = "ESTABLISHED" -> "FIN_WAIT_1"
                         [] s.coe /\ @ = "CLOSE_WAIT" -> "LAST_ACK"
                         [] OTHER -> @]

\* SendPendingData: what was never sent.
SendPending(s) == SendData(s, Larger(s.high, s.head))

\* DoClose.
DoClose(s) ==
    CASE s.st = "ESTABLISHED" -> [SendEmpty(s, "FIN_ACK", {}) EXCEPT !.st = "FIN_WAIT_1"]
      [] s.st = "CLOSE_WAIT" -> [SendEmpty(s, "FIN_ACK", {}) EXCEPT !.st = "LAST_ACK"]
      [] s.st \in {"SYN_SENT", "CLOSING"} -> CloseAndNotify(SendRST(s))
      [] OTHER -> s

\* Faulty variant: the close does not wait for data that was never sent.
CloseAtOnce(s) == IF s.held # {} THEN SendRST(s) ELSE DoClose(s)

\* Close: a reset when received data has not been read, which here is data behind
\* a gap; deferred while there is data that was never sent.
Close(s) == CASE s.held # {} -> SendRST(s)
              [] s.held = {} /\ s.tail > s.nextTx -> [s EXCEPT !.coe = TRUE]
              [] OTHER -> DoClose(s)

TimeWait(s) == [s EXCEPT !.st = "TIME_WAIT", !.normal = TRUE, !.retx = NoTimer, !.lato = FALSE]

-----------------------------------------------------------------------------
(* Receiving.  m is the packet.                                            *)

Finished(s) == s.fin # 0 /\ s.fin < s.rcv

SetFinSequence(s, q) == [s EXCEPT !.fin = q, !.rcv = IF @ = q THEN q + 1 ELSE @]

\* DoPeerClose: the FIN is in sequence.
DoPeerClose(s) ==
    LET told == [s EXCEPT !.st = "CLOSE_WAIT", !.normal = TRUE]
        answered == IF s.shut THEN Close(told) ELSE SendAck(told)
    IN IF answered.st = "LAST_ACK"
       THEN [answered EXCEPT !.retr = DataRetries, !.lato = TRUE]
       ELSE answered

\* TcpRxBuffer::Add of a segment that is neither old nor held.
AddSegment(s, m) ==
    LET all == s.held \cup {m.seq}
        next == CHOOSE q \in s.rcv..(s.rcv + Data + 1) :
                    q \notin all /\ (s.rcv..(q - 1)) \subseteq all
    IN [s EXCEPT !.held = {q \in all : q >= next},
                 !.rcv = IF s.fin # 0 /\ next = s.fin THEN next + 1 ELSE next]

\* ReceivedData.
ReceivedData(s, m) ==
    LET added == AddSegment(s, m)
    IN CASE m.len = 0 -> s
         [] m.len > 0 /\ (m.seq < s.rcv \/ m.seq \in s.held) -> SendAck(s)
         [] OTHER -> IF added.rcv > s.rcv /\ Finished(added) /\ m.type # "FIN_ACK"
                     THEN DoPeerClose(added)
                     ELSE SendAck(added)

\* Faulty variant: the timer stops with the data, though a FIN is outstanding.
NewAckStops(s, ack) ==
    [s EXCEPT !.head = ack,
              !.tail = Larger(@, ack),
              !.nextTx = Larger(@, ack),
              !.retr = DataRetries,
              !.retx = IF ack >= s.tail THEN NoTimer ELSE DataTimer]

\* NewAck: the timer stays on after a FIN of this side.
NewAck(s, ack) ==
    LET empty == ack >= s.tail /\ s.st \notin {"FIN_WAIT_1", "CLOSING"}
    IN [s EXCEPT !.head = ack,
                 !.tail = Larger(@, ack),
                 !.nextTx = Larger(@, ack),
                 !.retr = DataRetries,
                 !.retx = IF empty THEN NoTimer ELSE DataTimer]

\* ReceivedAck: process the ACK, then the data, then try to send.
ReceivedAck(s, m) ==
    LET acked == CASE m.ack > s.head -> NewAck(s, m.ack)
                   [] m.ack = s.head /\ m.ack > s.high -> [s EXCEPT !.nextTx = m.ack]
                   [] OTHER -> s
    IN IF m.ack < s.head
       THEN ReceivedData(s, m)
       ELSE SendPending(ReceivedData(acked, m))

\* Faulty variant: the FIN takes the place of the data it comes with.
PeerCloseAtHead(s, m) ==
    LET got == ReceivedData(SetFinSequence(s, m.seq), m)
    IN CASE m.seq < s.rcv \/ (s.fin # 0 /\ m.seq > s.fin) -> s
         [] Finished(got) /\ got.st = "FIN_WAIT_1" -> [got EXCEPT !.st = "CLOSING"]
         [] Finished(got) /\ got.st # "FIN_WAIT_1" -> DoPeerClose(got)
         [] OTHER -> got

\* PeerClose: a FIN, perhaps with data; one out of range is not even answered.
PeerClose(s, m) ==
    LET got == ReceivedData(SetFinSequence(s, m.seq + m.len), m)
    IN CASE m.seq < s.rcv \/ (s.fin # 0 /\ m.seq > s.fin) -> s
         [] Finished(got) /\ got.st = "FIN_WAIT_1" -> [got EXCEPT !.st = "CLOSING"]
         [] Finished(got) /\ got.st # "FIN_WAIT_1" -> DoPeerClose(got)
         [] OTHER -> got

-----------------------------------------------------------------------------
(* The state machine: one operator per Process function.  RSTs made by     *)
(* TcpL4Protocol carry no load, all others that of the socket.             *)

\* The handshake is complete: the SYN counts as sent and acknowledged.
Connected(s) == LET first == s.nextTx + 1
                IN [s EXCEPT !.retx = NoTimer, !.nextTx = first, !.high = first,
                             !.head = first, !.tail = first]

\* ProcessSynSent.  An ACK without SYN is ignored, the RST+ACK of a host that
\* does not listen with it.
ProcessSynSent(s, m) ==
    CASE m.type = "SYN_ACK" /\ m.ack = s.nextTx + 1 ->
            SendPending(SendAck([Connected(s) EXCEPT !.st = "ESTABLISHED",
                                                     !.rcv = m.seq + 1]))
      [] m.type = "RST" -> CloseAndNotify(s)
      [] OTHER -> s

\* Faulty variant: a SYN that is sent again counts again.
ProcessSynRcvdAgain(s, m) ==
    CASE m.type = "ACK" /\ m.ack = s.nextTx + 1 ->
            ReceivedAck([Connected(s) EXCEPT !.st = "ESTABLISHED"], m)
      [] m.type = "SYN" -> SendEmpty([s EXCEPT !.rcv = @ + 1], "SYN_ACK", {})
      [] m.type = "FIN_ACK" -> IF m.seq = s.rcv THEN PeerClose(Connected(s), m) ELSE s
      [] OTHER -> CloseAndNotify(IF m.type = "RST" THEN s ELSE SendRST(s))

\* ProcessSynRcvd.
ProcessSynRcvd(s, m) ==
    CASE m.type = "ACK" /\ m.ack = s.nextTx + 1 ->
            ReceivedAck([Connected(s) EXCEPT !.st = "ESTABLISHED"], m)
      [] m.type = "SYN" -> SendEmpty([s EXCEPT !.rcv = m.seq + 1], "SYN_ACK", {})
      [] m.type = "FIN_ACK" -> IF m.seq = s.rcv THEN PeerClose(Connected(s), m) ELSE s
      [] OTHER -> CloseAndNotify(IF m.type = "RST" THEN s ELSE SendRST(s))

\* ProcessEstablished.  The acknowledgment in a FIN is not looked at.
ProcessEstablished(s, m) ==
    CASE m.type = "ACK" ->
            CASE m.ack < s.head -> s
              [] m.ack > s.high -> SendAck(s)
              [] OTHER -> ReceivedAck(s, m)
      [] m.type = "FIN_ACK" -> PeerClose(s, m)
      [] m.type \in {"SYN", "SYN_ACK"} -> s
      [] m.type = "RST_ACK" -> CloseAndNotify(SendRST(s))
      [] m.type = "RST" -> CloseAndNotify(s)

\* Faulty variant: any ACK of all the data ends FIN_WAIT_1.
ProcessWaitAnyAck(s, m) ==
    LET acked == ReceivedAck(s, m)
        ofFin == acked.head >= acked.tail
        got == IF m.type = "FIN_ACK" THEN SetFinSequence(acked, m.seq)
               ELSE IF acked.st = "FIN_WAIT_1" /\ ofFin
               THEN [acked EXCEPT !.st = "FIN_WAIT_2"]
               ELSE acked
    IN CASE m.type \in {"ACK", "FIN_ACK"} ->
            CASE got.st = "FIN_WAIT_1" /\ Finished(got) ->
                    SendAck(IF ofFin THEN TimeWait(got) ELSE [got EXCEPT !.st = "CLOSING"])
              [] got.st = "FIN_WAIT_2" /\ Finished(got) -> SendAck(TimeWait(got))
              [] OTHER -> got
         [] m.type \in {"SYN", "SYN_ACK"} -> s
         [] m.type = "RST_ACK" -> CloseAndNotify(SendRST(s))
         [] m.type = "RST" -> CloseAndNotify(s)

\* ProcessWait: CLOSE_WAIT, FIN_WAIT_1 and FIN_WAIT_2.
ProcessWait(s, m) ==
    LET acked == ReceivedAck(s, m)
        ofFin == acked.head >= acked.tail /\ m.ack = acked.high + 1
        got == IF m.type = "FIN_ACK" THEN SetFinSequence(acked, m.seq)
               ELSE IF acked.st = "FIN_WAIT_1" /\ ofFin
               THEN [acked EXCEPT !.st = "FIN_WAIT_2"]
               ELSE acked
    IN CASE m.type \in {"ACK", "FIN_ACK"} ->
            CASE got.st = "FIN_WAIT_1" /\ Finished(got) ->
                    SendAck(IF ofFin THEN TimeWait(got) ELSE [got EXCEPT !.st = "CLOSING"])
              [] got.st = "FIN_WAIT_2" /\ Finished(got) -> SendAck(TimeWait(got))
              [] OTHER -> got
         [] m.type \in {"SYN", "SYN_ACK"} -> s
         [] m.type = "RST_ACK" -> CloseAndNotify(SendRST(s))
         [] m.type = "RST" -> CloseAndNotify(s)

\* ProcessClosing.  ECE and CWR are part of the comparison.
ProcessClosing(s, m) ==
    CASE m.type = "ACK" /\ m.bits = {} -> IF m.seq = s.rcv THEN TimeWait(s) ELSE s
      [] m.type = "FIN_ACK" /\ m.bits = {} -> CloseAndNotify(SendAck(s))
      [] m.type = "RST" /\ m.bits = {} -> CloseAndNotify(s)
      [] OTHER -> CloseAndNotify(SendRST(s))

\* ProcessLastAck.  ECE and CWR are part of the comparison, and the number that
\* is acknowledged is not looked at.
ProcessLastAck(s, m) ==
    CASE m.type = "ACK" /\ m.bits = {} -> IF m.seq = s.rcv THEN CloseAndNotify(s) ELSE s
      [] m.type \in {"FIN_ACK", "RST"} /\ m.bits = {} -> CloseAndNotify(s)
      [] OTHER -> CloseAndNotify(SendRST(s))

-----------------------------------------------------------------------------
(* Steps.                                                                  *)

Init ==
    /\ sock = [n \in Node |-> NewSocket]
    /\ net = [n \in Node |-> <<>>]
    /\ listening = TRUE
    /\ closed = {}
    /\ lost = 0
    /\ early = 0

\* The socket of n becomes s and what it has sent is on its way.
Becomes(n, s) ==
    /\ sock' = [sock EXCEPT ![n] = [s EXCEPT !.out = <<>>]]
    /\ net' = [net EXCEPT ![Peer(n)] = @ \o s.out]

\* The same after the first packet for n has been taken off the network.
BecomesOnReceipt(n, s) ==
    /\ sock' = [sock EXCEPT ![n] = [s EXCEPT !.out = <<>>]]
    /\ net' = [net EXCEPT ![n] = Tail(@), ![Peer(n)] = @ \o s.out]
    /\ UNCHANGED <<listening, closed, lost, early>>

\* OutOfRange, for packets with data only.
OutOfRange(s, m) ==
    /\ m.len > 0
    /\ \/ s.st \in {"LAST_ACK", "CLOSING", "CLOSE_WAIT"} /\ s.rcv # m.seq
       \/ /\ s.st \in {"ESTABLISHED", "FIN_WAIT_1", "FIN_WAIT_2", "TIME_WAIT"}
          /\ m.seq + 1 < s.rcv \/ (s.fin # 0 /\ s.fin <= m.seq)

\* Connect and DoConnect.
Connect ==
    /\ sock[Client] = NewSocket
    /\ Becomes(Client, [SendEmpty([NewSocket EXCEPT !.up = TRUE], "SYN", {})
                            EXCEPT !.st = "SYN_SENT"])
    /\ UNCHANGED <<listening, closed, lost, early>>

\* Send: the data waits for the scheduled SendPendingData.
AppSend ==
    /\ Client \notin closed
    /\ sock[Client].st \in {"ESTABLISHED", "CLOSE_WAIT"}
    /\ sock[Client].tail <= Data
    /\ sock' = [sock EXCEPT ![Client].tail = @ + 1]
    /\ UNCHANGED <<net, listening, closed, lost, early>>

SendPendingData ==
    /\ sock[Client].up
    /\ Larger(sock[Client].high, sock[Client].head) < sock[Client].tail
    /\ Becomes(Client, SendPending(sock[Client]))
    /\ UNCHANGED <<listening, closed, lost, early>>

\* StopApplication of BulkSend, and of PacketSink, which also closes the
\* listening socket.
AppClose(n) ==
    /\ n \notin closed
    /\ n = Client => sock[n] # NewSocket
    /\ closed' = closed \cup {n}
    /\ listening' = (listening /\ n = Client)
    /\ IF sock[n].up /\ (n = Client \/ sock[n].st # "SYN_RCVD")
       THEN Becomes(n, Close(sock[n]))
       ELSE UNCHANGED <<sock, net>>
    /\ UNCHANGED <<lost, early>>

\* ForwardUp, IsValidTcpSegment and DoForwardUp in the given states: the load of
\* the path is stored, unless the packet is refused as out of range.
ForwardUp(n, states, Process(_, _)) ==
    /\ net[n] # <<>>
    /\ sock[n].up
    /\ sock[n].st \in states
    /\ LET m == Head(net[n])
       IN IF OutOfRange(sock[n], m)
          THEN BecomesOnReceipt(n, SendAck(sock[n]))
          ELSE \E load \in PathLoads :
                  BecomesOnReceipt(n, Process([sock[n] EXCEPT !.load = load], m))

Ignore(s, m) == s

ReceiveSynSent(n) == ForwardUp(n, {"SYN_SENT"}, ProcessSynSent)
ReceiveSynRcvd(n) == ForwardUp(n, {"SYN_RCVD"}, ProcessSynRcvd)
ReceiveEstablished(n) == ForwardUp(n, {"ESTABLISHED"}, ProcessEstablished)
ReceiveWait(n) == ForwardUp(n, {"CLOSE_WAIT", "FIN_WAIT_1", "FIN_WAIT_2"}, ProcessWait)
ReceiveClosing(n) == ForwardUp(n, {"CLOSING"}, ProcessClosing)
ReceiveLastAck(n) == ForwardUp(n, {"LAST_ACK"}, ProcessLastAck)
ReceiveTimeWait(n) == ForwardUp(n, {"TIME_WAIT"}, Ignore)

\* ProcessListen, Fork and CompleteFork: without an endpoint of its own a packet
\* goes to the listening socket, which answers a SYN and nothing else.
ProcessListen ==
    /\ listening
    /\ net[Server] # <<>>
    /\ ~sock[Server].up
    /\ LET m == Head(net[Server])
           fork == [NewSocket EXCEPT !.st = "SYN_RCVD", !.up = TRUE, !.rcv = m.seq + 1,
                                     !.shut = TRUE, !.coe = TRUE]
       IN BecomesOnReceipt(Server, IF m.type = "SYN"
                                   THEN SendEmpty(fork, "SYN_ACK", {})
                                   ELSE sock[Server])

\* TcpL4Protocol::NoEndPointsFound.
NoEndPointsFound(n) ==
    /\ net[n] # <<>>
    /\ ~sock[n].up
    /\ n = Server => ~listening
    /\ LET m == Head(net[n])
           reply(type, seq, ack) ==
               <<[type |-> type, len |-> 0, seq |-> seq, ack |-> ack, bits |-> {}]>>
       IN BecomesOnReceipt(n, [sock[n] EXCEPT !.out =
              CASE m.type = "RST" \/ m.type = "RST_ACK" -> <<>>
                [] m.type = "SYN" -> reply("RST_ACK", 0, m.seq + 1)
                [] OTHER -> reply("RST", m.ack, 0)])

LosePacket(n) ==
    /\ net[n] # <<>>
    /\ lost < MaxLost
    /\ lost' = lost + 1
    /\ net' = [net EXCEPT ![n] = Tail(@)]
    /\ UNCHANGED <<sock, listening, closed, early>>

\* A timer expires when nothing is in flight any more, or early.
Expires(n, s) ==
    /\ IF \A p \in Node : net[p] = <<>>
       THEN early' = early
       ELSE early < MaxEarly /\ early' = early + 1
    /\ Becomes(n, s)
    /\ UNCHANGED <<listening, closed, lost>>

\* The event that SendEmptyPacket has scheduled: itself, with the flags it sent.
ResendEmpty(n) ==
    LET s == sock[n]
    IN /\ s.retx.kind \in {"SYN", "SYN_ACK", "FIN_ACK"}
       /\ Expires(n, SendEmpty([s EXCEPT !.retx = NoTimer], s.retx.kind, s.retx.bits))

\* ReTxTimeout: with an empty buffer only a FIN is sent again.
ReTxTimeout(n) ==
    LET s == [sock[n] EXCEPT !.retx = NoTimer]
        empty == s.head >= s.tail
    IN /\ sock[n].retx = DataTimer
       /\ Expires(n, CASE empty /\ s.st \in {"FIN_WAIT_1", "CLOSING"} -> SendEmpty(s, "FIN_ACK", {})
                       [] empty /\ s.st \notin {"FIN_WAIT_1", "CLOSING"} -> s
                       [] ~empty /\ s.retr = 0 -> Deallocate([s EXCEPT !.error = TRUE])
                       [] OTHER -> SendData([s EXCEPT !.retr = @ - 1], s.head))

LastAckTimeout(n) ==
    LET s == sock[n]
    IN /\ s.lato
       /\ s.st = "LAST_ACK"
       /\ Expires(n, IF s.retr = 0
                     THEN Deallocate([s EXCEPT !.error = TRUE])
                     ELSE SendEmpty([s EXCEPT !.retr = @ - 1], "FIN_ACK", {}))

\* The end of TIME_WAIT, whatever the peer still sends.
TimeWaitTimeout(n) ==
    /\ sock[n].st = "TIME_WAIT"
    /\ sock[n].up
    /\ Becomes(n, CloseAndNotify(sock[n]))
    /\ UNCHANGED <<listening, closed, lost, early>>

Receive(n) ==
    \/ ReceiveSynSent(n)
    \/ ReceiveSynRcvd(n)
    \/ ReceiveEstablished(n)
    \/ ReceiveWait(n)
    \/ ReceiveClosing(n)
    \/ ReceiveLastAck(n)
    \/ ReceiveTimeWait(n)
    \/ NoEndPointsFound(n)
    \/ ProcessListen

Timeout(n) ==
    \/ ResendEmpty(n)
    \/ ReTxTimeout(n)
    \/ LastAckTimeout(n)
    \/ TimeWaitTimeout(n)

Next ==
    \/ Connect
    \/ AppSend
    \/ SendPendingData
    \/ \E n \in Node : AppClose(n) \/ Receive(n) \/ LosePacket(n) \/ Timeout(n)

Spec == Init /\ [][Next]_vars

\* The simulator delivers every packet it does not lose and runs every timer that
\* is due: one that the model allows again and again, whenever nothing is in
\* flight, does expire.  Applications and losses are not required.
FairSpec ==
    /\ Spec
    /\ WF_vars(SendPendingData)
    /\ \A n \in Node : /\ WF_vars(Receive(n))
                      /\ SF_vars(ResendEmpty(n))
                      /\ SF_vars(ReTxTimeout(n))
                      /\ SF_vars(LastAckTimeout(n))
                      /\ WF_vars(TimeWaitTimeout(n))

-----------------------------------------------------------------------------
(* Properties.                                                             *)

\* Between two steps every member of a socket is within its range, the retry counters of
\* SendEmptyPacket, ReTxTimeout and LastAckTimeout included, which are unsigned; and both
\* sockets have handed over what they have sent.
TypeOK ==
    /\ sock \in [Node -> Socket] /\ \A n \in Node : sock[n].out = <<>>
    /\ net \in [Node -> Seq(Packet)]
    /\ listening \in BOOLEAN /\ closed \subseteq Node
    /\ lost \in 0..MaxLost /\ early \in 0..MaxEarly

\* The receiver takes the FIN for received only when all the data before it is
\* (TcpRxBuffer::Finished after SetFinSequence, with the FIN on a data segment or
\* ahead of a gap): the end of the stream is never reported early.  One that has
\* closed its own side misplaces the FIN by the data it comes with, but no more.
EofAfterData ==
    Finished(sock[Server]) => /\ sock[Server].rcv >= sock[Client].tail
                              /\ Server \notin closed => sock[Server].rcv > sock[Client].high

\* No packet on its way to a live socket acknowledges what that socket has not
\* sent; only SYN and FIN count one beyond m_highTxMark.
AcksOnlySent ==
    \A n \in Node : \A i \in DOMAIN net[n] :
        LET m == net[n][i] s == sock[n]
        IN s.up /\ m.type \in {"ACK", "SYN_ACK", "FIN_ACK"}
           => m.ack <= s.high + (IF s.st \in {"ESTABLISHED", "CLOSE_WAIT"} THEN 0 ELSE 1)

\* FIN_WAIT_2 means that the peer has received this side's FIN in sequence.
FinWait2Acked ==
    \A n \in Node : sock[n].st = "FIN_WAIT_2" => Finished(sock[Peer(n)])

Established(s) == s.head # 0

\* A connection that was established and that only the client closes, over a
\* network that loses nothing and with no early timeout, ends without an error at
\* either side: "This socket closed peacefully" (ProcessLastAck).
PeacefulClose ==
    Established(sock[Client]) /\ lost = 0 /\ early = 0 /\ Server \notin closed
        => \A n \in Node : ~sock[n].error

\* Connect succeeds, or fails after the retries (m_synCount), also when nobody
\* listens any more or packets are lost.
ConnectResolves == (sock[Client].st = "SYN_SENT") ~> (sock[Client].st # "SYN_SENT")

\* When both applications have closed, every endpoint is released in the end, also
\* after losses; only FIN_WAIT_2 has no timer of its own and may stay.
EndpointsReleased ==
    closed = Node ~> \A n \in Node : ~sock[n].up \/ sock[n].st = "FIN_WAIT_2"
=============================================================================
