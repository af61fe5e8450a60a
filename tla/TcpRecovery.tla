---------------------------- MODULE TcpRecovery ----------------------------
(***************************************************************************)
(* Loss recovery of an established connection: duplicate ACKs, fast        *)
(* retransmit, the retransmission timer and the congestion states of       *)
(* TcpSocketBase (internet/model/tcp-socket-base.cc), with the scoreboard  *)
(* that TcpTxBuffer (tcp-tx-buffer.cc) guesses from duplicate ACKs.  SACK  *)
(* is off and limited transmit on, as in the simulations.                  *)
(*                                                                         *)
(* One direction carries Data segments, all of them in the send buffer     *)
(* from the start; the receiver acknowledges every segment at once.        *)
(* Packets may be lost and are not reordered.  An acknowledgment may carry *)
(* ECE, which VCP sends for a LOW load and the sender takes for an ECN     *)
(* echo.  Windows are multiples of a fraction of a segment: Seg units are  *)
(* one segment.  The controller is modelled in Vcp; here it may leave the  *)
(* window or set it to any value of Windows.                               *)
(***************************************************************************)
EXTENDS Integers, FiniteSets, Sequences

CONSTANTS
    Data,           \* segments to send
    Seg,            \* m_segmentSize, in units of the window
    Windows,        \* windows the controller may set
    RetxThresh,     \* m_retxThresh
    DataRetries,    \* m_dataRetries
    Echoes,         \* values of ECE on the acknowledgments that arrive
    MaxLost,        \* bound of the model: packets the network may lose
    MaxEarly        \* bound of the model: timeouts while packets are in flight

ASSUME CountAssumption ==
    /\ Data \in Nat /\ Seg \in Nat \ {0} /\ RetxThresh \in Nat \ {0}
    /\ DataRetries \in Nat /\ MaxLost \in Nat /\ MaxEarly \in Nat
ASSUME WindowAssumption == Windows \subseteq Nat \ {0}
ASSUME EchoAssumption == Echoes \subseteq BOOLEAN

VARIABLES
    snd,        \* the socket of the sender
    pending,    \* m_sendPendingDataEvent: SendPendingData is scheduled
    rcv,        \* m_rxBuffer of the receiver: NextRxSequence
    held,       \* m_rxBuffer of the receiver: segments beyond it
    data,       \* segments in flight
    acks,       \* acknowledgments in flight
    lost,       \* packets lost so far
    early       \* early timeouts so far

vars == <<snd, pending, rcv, held, data, acks, lost, early>>

CongState == {"OPEN", "DISORDER", "CWR", "RECOVERY", "LOSS"}

\* m_cWndFractional before the first call of CongControl.
Indeterminate == 0

Sender == [
    up : BOOLEAN,               \* m_endPoint # nullptr
    head : 0..Data,             \* m_txBuffer: HeadSequence, and m_highRxAckMark
    high : 0..Data,             \* m_highTxMark, the end of m_sentList
    lost : SUBSET (0..Data),    \* segments with m_lost
    sacked : SUBSET (0..Data),  \* segments with m_sacked
    retrans : SUBSET (0..Data), \* segments with m_retrans
    cong : CongState,           \* m_congState
    dup : Nat,                  \* m_dupAckCount
    recover : 0..Data,          \* m_recover
    active : BOOLEAN,           \* m_recoverActive
    first : BOOLEAN,            \* m_isFirstPartialAck
    ssThresh : Nat,             \* m_ssThresh
    cWnd : Nat,                 \* m_cWnd
    frac : Nat,                 \* m_cWndFractional of the controller
    retr : Nat,                 \* m_dataRetrCount
    rto : BOOLEAN,              \* m_retxEvent is running
    out : Seq(0..Data)]         \* segments sent in this step

Smaller(a, b) == IF a < b THEN a ELSE b

Least(S) == CHOOSE q \in S : \A p \in S : q <= p

\* The members of S in increasing order.
InOrder(S) ==
    [i \in 1..Cardinality(S) |->
        CHOOSE q \in S : Cardinality({p \in S : p < q}) = i - 1]

-----------------------------------------------------------------------------
(* TcpTxBuffer.                                                            *)

Sent(s) == s.head..(s.high - 1)

\* BytesInFlight.
InFlight(s) ==
    Seg * (s.high - s.head - Cardinality(s.lost) - Cardinality(s.sacked)
               + Cardinality(s.retrans))

\* MarkHeadAsLost.
MarkHeadAsLost(s) ==
    IF s.head = s.high THEN s
    ELSE [s EXCEPT !.lost = @ \cup {s.head},
                   !.sacked = @ \ {s.head},
                   !.retrans = @ \ {s.head}]

\* Faulty variant: the head counts too.
AddRenoSackHead(s) ==
    LET free == Sent(s) \ s.sacked
    IN IF free = {} THEN s ELSE [s EXCEPT !.sacked = @ \cup {Least(free)}]

\* AddRenoSack: a duplicate ACK stands for the first segment behind the head that
\* none stands for yet.
AddRenoSack(s) ==
    LET free == {q \in Sent(s) : q > s.head} \ s.sacked
    IN IF free = {} THEN s ELSE [s EXCEPT !.sacked = @ \cup {Least(free)}]

\* DiscardUpTo.  The head cannot have been received: its flag moves on.
DiscardUpTo(s, ack) ==
    LET left == [s EXCEPT !.head = ack,
                          !.lost = {q \in @ : q >= ack},
                          !.sacked = {q \in @ : q >= ack},
                          !.retrans = {q \in @ : q >= ack}]
    IN IF ack <= s.head THEN s
       ELSE IF ack \in left.sacked
       THEN MarkHeadAsLost(AddRenoSack([left EXCEPT !.sacked = @ \ {ack}]))
       ELSE left

\* Faulty variant: what was sent again still counts as in flight.
SetSentListLostFirstTime(s) == [s EXCEPT !.lost = Sent(s), !.sacked = {}]

\* SetSentListLost.
SetSentListLost(s) == [s EXCEPT !.lost = Sent(s), !.sacked = {}, !.retrans = {}]

-----------------------------------------------------------------------------
(* TcpSocketBase.                                                          *)

\* SendDataPacket for a segment that was sent before.
Resend(s, q) == [s EXCEPT !.retrans = @ \cup {q}, !.out = Append(@, q), !.rto = TRUE]

\* Faulty variant: the window is not read again after the lost segments.
SendPendingDataOnce(s) ==
    LET again == s.lost \ (s.retrans \cup s.sacked)
        room == IF s.cWnd >= InFlight(s) THEN (s.cWnd - InFlight(s)) \div Seg ELSE 0
        resent == {q \in again : Cardinality({p \in again : p < q}) < room}
        fresh == Smaller(room, Data - s.high)
    IN IF s.head = Data \/ room = 0 \/ (resent = {} /\ fresh = 0) THEN s
       ELSE [s EXCEPT
                !.retrans = @ \cup resent,
                !.high = @ + fresh,
                !.out = @ \o InOrder(resent) \o [i \in 1..fresh |-> s.high + i - 1],
                !.rto = TRUE]

\* SendPendingData with NextSeg: as many segments as the window leaves room for,
\* lost ones first.  Room for less than a segment is not used (silly window).
SendPendingData(s) ==
    LET again == s.lost \ (s.retrans \cup s.sacked)
        room == IF s.cWnd >= InFlight(s) THEN (s.cWnd - InFlight(s)) \div Seg ELSE 0
        resent == {q \in again : Cardinality({p \in again : p < q}) < room}
        fresh == Smaller(room - Cardinality(resent), Data - s.high)
    IN IF s.head = Data \/ room = 0 \/ (resent = {} /\ fresh = 0) THEN s
       ELSE [s EXCEPT
                !.retrans = @ \cup resent,
                !.high = @ + fresh,
                !.out = @ \o InOrder(resent) \o [i \in 1..fresh |-> s.high + i - 1],
                !.rto = TRUE]

\* Faulty variant: the controller that leaves the window initialises nothing.
CongControlLate(s) == {s} \cup {[s EXCEPT !.frac = w, !.cWnd = w] : w \in Windows}

\* The controller in CongControl, or in CwndEvent for a loss.  Whatever it does to
\* the window, it has set its own copy by then.
CongControl(s) ==
    {[s EXCEPT !.frac = IF @ = Indeterminate THEN s.cWnd ELSE @]}
        \cup {[s EXCEPT !.frac = w, !.cWnd = w] : w \in Windows}

\* EnterCwr.
EnterCwr(s) == [s EXCEPT !.ssThresh = s.frac, !.cong = "CWR", !.recover = s.high]

\* EnterRecovery, which sends the head again whatever the window is.
EnterRecovery(s) ==
    LET marked == MarkHeadAsLost(AddRenoSack(s))
    IN Resend([marked EXCEPT !.recover = s.high, !.active = TRUE,
                             !.cong = "RECOVERY", !.ssThresh = s.frac],
              s.head)

\* DupAck.  Its second way into recovery, IsLost of the segment behind the head, is
\* never taken: in CA_DISORDER only the head can be lost (Scoreboard).
DupAck(s) ==
    LET counted == [s EXCEPT !.dup = @ + 1,
                             !.cong = IF @ = "OPEN" THEN "DISORDER" ELSE @]
        enough == /\ counted.dup = RetxThresh
                  /\ s.head >= s.recover \/ ~s.active
    IN CASE s.cong = "LOSS" -> s
         [] s.cong = "RECOVERY" -> AddRenoSack(s)
         [] s.cong = "CWR" -> counted
         [] s.cong \in {"OPEN", "DISORDER"} /\ enough -> EnterRecovery(counted)
         [] OTHER -> AddRenoSack(counted)

\* Faulty variant: the timer is cancelled and not scheduled again.
NewAckCancels(s, resetRTO) ==
    [s EXCEPT !.retr = DataRetries,
              !.rto = s.head < Data /\ ~resetRTO /\ @]

\* NewAck.
NewAck(s, resetRTO) ==
    [s EXCEPT !.retr = DataRetries,
              !.rto = s.head < Data /\ (resetRTO \/ @)]

\* ProcessAck of an ACK in CA_RECOVERY that does not reach m_recover.
PartialAck(s) ==
    [NewAck(Resend(MarkHeadAsLost(s), s.head), s.first) EXCEPT !.first = FALSE]

\* Faulty variant: CA_LOSS is never left.
FullAckInLoss(s) ==
    LET ended == [s EXCEPT !.first = @ \/ s.cong \in {"RECOVERY", "LOSS"},
                           !.cong = IF @ = "LOSS" THEN @ ELSE "OPEN",
                           !.active = @ /\ s.head < s.recover]
    IN NewAck(IF s.cong = "RECOVERY" THEN [ended EXCEPT !.cWnd = s.ssThresh] ELSE ended,
              TRUE)

\* ProcessAck of an ACK that ends what state there was.
FullAck(s) ==
    LET ended == [s EXCEPT !.first = @ \/ s.cong \in {"RECOVERY", "LOSS"},
                           !.cong = "OPEN",
                           !.active = @ /\ s.head < s.recover]
    IN NewAck(IF s.cong = "RECOVERY" THEN [ended EXCEPT !.cWnd = s.ssThresh] ELSE ended,
              TRUE)

\* Faulty variant: m_dupAckCount survives an ACK of new data.
ProcessAckKeepsCount(s, isNew) ==
    CASE ~isNew /\ s.head < s.high -> DupAck(s)
      [] ~isNew /\ s.head >= s.high -> s
      [] isNew /\ s.cong = "RECOVERY" /\ s.head < s.recover -> PartialAck(s)
      [] isNew /\ s.cong = "LOSS" /\ s.head < s.recover -> NewAck(s, TRUE)
      [] isNew /\ s.cong = "CWR" -> NewAck(s, TRUE)
      [] OTHER -> FullAck(s)

\* ProcessAck, once the buffer has been discarded up to the ACK.
ProcessAck(s, isNew) ==
    LET counted == [s EXCEPT !.dup = 0]
    IN CASE ~isNew /\ s.head < s.high -> DupAck(s)
         [] ~isNew /\ s.head >= s.high -> s
         [] isNew /\ s.cong = "RECOVERY" /\ s.head < s.recover -> PartialAck(counted)
         [] isNew /\ s.cong = "LOSS" /\ s.head < s.recover -> NewAck(counted, TRUE)
         [] isNew /\ s.cong = "CWR" -> NewAck(counted, TRUE)
         [] OTHER -> FullAck(counted)

\* Faulty variant: the first ACK leaves CA_CWR.
AcknowledgedAtOnce(s, ack, ece) ==
    LET isNew == ack > s.head
        discarded == DiscardUpTo(s, ack)
        over == IF s.cong = "CWR" THEN [discarded EXCEPT !.cong = "OPEN"] ELSE discarded
        echoed == IF isNew /\ ece /\ over.cong # "CWR" THEN EnterCwr(over) ELSE over
    IN ProcessAck(echoed, isNew)

\* ReceivedAck up to the call of CongControl: CA_CWR is left beyond m_recover, and
\* entered by an echo on an ACK of new data (m_ecnEchoSeq never exceeds the head).
Acknowledged(s, ack, ece) ==
    LET isNew == ack > s.head
        discarded == DiscardUpTo(s, ack)
        over == IF s.cong = "CWR" /\ ack > s.recover
                THEN [discarded EXCEPT !.cong = "OPEN"]
                ELSE discarded
        echoed == IF isNew /\ ece /\ over.cong # "CWR" THEN EnterCwr(over) ELSE over
    IN ProcessAck(echoed, isNew)

-----------------------------------------------------------------------------
(* Steps.                                                                  *)

\* A connection after the handshake; the initial window is one of whole segments.
Init ==
    /\ \E w \in {v \in Windows : v >= Seg} :
          snd = [up |-> TRUE, head |-> 0, high |-> 0, lost |-> {}, sacked |-> {},
                 retrans |-> {}, cong |-> "OPEN", dup |-> 0, recover |-> 0,
                 active |-> FALSE, first |-> TRUE, ssThresh |-> w, cWnd |-> w,
                 frac |-> Indeterminate, retr |-> DataRetries, rto |-> FALSE,
                 out |-> <<>>]
    /\ pending = TRUE
    /\ rcv = 0
    /\ held = {}
    /\ data = <<>>
    /\ acks = <<>>
    /\ lost = 0
    /\ early = 0

\* The sender becomes s and what it has sent is on its way.
Becomes(s) ==
    /\ snd' = [s EXCEPT !.out = <<>>]
    /\ data' = data \o s.out

\* The event that Send has scheduled.
SendScheduled ==
    /\ pending
    /\ pending' = FALSE
    /\ Becomes(SendPendingData(snd))
    /\ UNCHANGED <<rcv, held, acks, lost, early>>

\* ReceivedAck; an ACK behind the head is stale.
ReceiveAck ==
    /\ acks # <<>>
    /\ acks' = Tail(acks)
    /\ IF ~snd.up \/ Head(acks) < snd.head
       THEN UNCHANGED <<snd, data>>
       ELSE \E ece \in Echoes :
              \E s \in CongControl(Acknowledged(snd, Head(acks), ece)) :
                  Becomes(SendPendingData(s))
    /\ UNCHANGED <<pending, rcv, held, lost, early>>

\* Faulty variant: acknowledges the segment, whatever is missing before it.
ReceiveDataHighest ==
    /\ data # <<>>
    /\ data' = Tail(data)
    /\ LET all == IF Head(data) < rcv THEN held ELSE held \cup {Head(data)}
           next == Least({Data} \cup {q \in rcv..Data : q \notin all})
       IN /\ rcv' = next
          /\ held' = {q \in all : q > next}
          /\ acks' = Append(acks, Head(data) + 1)
    /\ UNCHANGED <<snd, pending, lost, early>>

\* ReceivedData of the receiver, with TcpRxBuffer::Add.
ReceiveData ==
    /\ data # <<>>
    /\ data' = Tail(data)
    /\ LET all == IF Head(data) < rcv THEN held ELSE held \cup {Head(data)}
           next == Least({Data} \cup {q \in rcv..Data : q \notin all})
       IN /\ rcv' = next
          /\ held' = {q \in all : q > next}
          /\ acks' = Append(acks, next)
    /\ UNCHANGED <<snd, pending, lost, early>>

\* Faulty variant: the retries are not counted down to an end.
ReTxTimeoutForever ==
    /\ snd.up
    /\ snd.rto
    /\ IF data = <<>> /\ acks = <<>>
       THEN early' = early
       ELSE early < MaxEarly /\ early' = early + 1
    /\ \E s \in CongControl([SetSentListLost(snd) EXCEPT
                                 !.rto = FALSE, !.retr = @ - 1, !.dup = 0,
                                 !.recover = snd.high, !.active = TRUE,
                                 !.ssThresh = snd.frac, !.cong = "LOSS"]) :
           Becomes(SendPendingData(s))
    /\ UNCHANGED <<pending, rcv, held, acks, lost>>

\* ReTxTimeout: nothing is in flight any more, or the timer was too short.
ReTxTimeout ==
    /\ snd.up
    /\ snd.rto
    /\ IF data = <<>> /\ acks = <<>>
       THEN early' = early
       ELSE early < MaxEarly /\ early' = early + 1
    /\ IF snd.retr = 0
       THEN Becomes([snd EXCEPT !.up = FALSE, !.rto = FALSE])
       ELSE \E s \in CongControl([SetSentListLost(snd) EXCEPT
                                     !.rto = FALSE, !.retr = @ - 1, !.dup = 0,
                                     !.recover = snd.high, !.active = TRUE,
                                     !.ssThresh = snd.frac, !.cong = "LOSS"]) :
               Becomes(SendPendingData(s))
    /\ UNCHANGED <<pending, rcv, held, acks, lost>>

LosePacket ==
    /\ lost < MaxLost
    /\ lost' = lost + 1
    /\ \/ data # <<>> /\ data' = Tail(data) /\ UNCHANGED acks
       \/ acks # <<>> /\ acks' = Tail(acks) /\ UNCHANGED data
    /\ UNCHANGED <<snd, pending, rcv, held, early>>

Next == SendScheduled \/ ReceiveAck \/ ReceiveData \/ ReTxTimeout \/ LosePacket

Spec == Init /\ [][Next]_vars

\* The simulator runs every event: what is scheduled and not cancelled happens.
FairSpec ==
    /\ Spec
    /\ WF_vars(SendScheduled)
    /\ WF_vars(ReceiveAck)
    /\ WF_vars(ReceiveData)
    /\ WF_vars(ReTxTimeout)

-----------------------------------------------------------------------------
(* Properties.                                                             *)

\* Shape of the state; the count of duplicate ACKs and the retries keep to their
\* unsigned types.
TypeOK ==
    /\ snd \in Sender
    /\ snd.out = <<>> /\ snd.retr <= DataRetries
    /\ pending \in BOOLEAN
    /\ rcv \in 0..Data /\ held \subseteq 0..Data
    /\ data \in Seq(0..Data) /\ acks \in Seq(0..Data)
    /\ lost \in 0..MaxLost /\ early \in 0..MaxEarly

\* The scoreboard without SACK is guesswork, but consistent ("Count of sacked and
\* lost is out of sync with sent list size", tcp-tx-buffer.cc:1083): no segment
\* counts as received and as lost, the head never counts as received, lost segments
\* are the oldest ones and only the head outside of CA_LOSS and CA_CWR, and in
\* CA_LOSS nothing is guessed to have been received (tcp-socket-base.cc:2077).
Scoreboard ==
    /\ snd.lost \cup snd.sacked \cup snd.retrans \subseteq Sent(snd)
    /\ snd.lost \cap snd.sacked = {} /\ snd.retrans \cap snd.sacked = {}
    /\ snd.head \notin snd.sacked
    /\ snd.retrans \subseteq snd.lost
    /\ \A q \in snd.lost : snd.head..q \subseteq snd.lost
    /\ snd.cong \notin {"LOSS", "CWR"} => snd.lost \subseteq {snd.head}
    /\ snd.cong = "LOSS" => snd.sacked = {}

\* Duplicate ACKs are counted from zero in each round ("From OPEN->DISORDER but
\* with N dup ACKs" and the assertion behind it, tcp-socket-base.cc:1708): none is
\* counted in CA_OPEN, and the threshold starts recovery.
DupAcksCounted ==
    /\ snd.cong = "OPEN" => snd.dup = 0
    /\ snd.cong = "DISORDER" => snd.dup < RetxThresh

\* Recovery ends at m_recover: the state is left by the ACK that reaches it.
RecoveryEnds ==
    /\ snd.cong \in {"RECOVERY", "LOSS"} => snd.head < snd.recover
    /\ snd.cong = "CWR" => snd.head <= snd.recover
    /\ snd.recover <= snd.high

\* What the sender discards the receiver has: no number of ACKs, losses and
\* retransmissions makes the head of the send buffer pass the receiver.
NeverDiscardsUnreceived == snd.head <= rcv

\* While data is outstanding the retransmission timer runs, in every state and
\* after every way through ProcessAck and ReTxTimeout.
TimerRuns == snd.up /\ snd.head < snd.high => snd.rto

\* m_cWndFractional is indeterminate until the controller is first called, and
\* GetSsThresh may read it before: the value never becomes the window.
WindowDefined == snd.cWnd # Indeterminate

\* tcp-socket-base.cc:2064 "a new recovery phase MUST NOT be initiated until
\* HighACK is greater than or equal to the new value of RecoveryPoint".
OneRecoveryPerWindow ==
    [][snd.cong # "RECOVERY" /\ snd'.cong = "RECOVERY" => snd.head >= snd.recover]_vars

\* New data is sent only when what is guessed to be in flight fits the window.
FlightWithinWindow == [][snd'.high > snd.high => InFlight(snd') <= snd'.cWnd]_vars

\* All data is acknowledged in the end, or the retries are used up.
Delivered == <>(~snd.up \/ snd.head = Data)
=============================================================================
