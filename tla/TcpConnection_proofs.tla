------------------------ MODULE TcpConnection_proofs ------------------------
(***************************************************************************)
(* Proofs about TcpConnection for any amount of data, retries, loads,      *)
(* losses and early timeouts.  Every handler maps a socket to a socket, so *)
(* the invariant is stated about a pair: a socket s and its peer p.        *)
(***************************************************************************)
EXTENDS TcpConnection, SequenceTheorems, WellFoundedInduction, TLAPS

-----------------------------------------------------------------------------
(* The parts of the invariant.                                             *)

\* This side may still send its FIN.
Open(s) == s.st \in {"ESTABLISHED", "CLOSE_WAIT"}

\* The FIN of this side is acknowledged.
Acked(s) == ~Open(s) /\ s.head = s.high + 1 /\ s.tail = s.head /\ s.nextTx = s.head

\* The FIN of this side may be on its way: there will be no further data.
FinSent(s) == s.head # 0 /\ ~Open(s) /\ (s.tail = s.high \/ Acked(s))

\* This side takes no FIN any more.
Past(s) == s.head # 0 /\ s.st \in {"LAST_ACK", "CLOSING", "TIME_WAIT", "CLOSED"}

\* The end of what this side has sent, SYN and FIN included.
Bound(s) == s.high + (IF Open(s) THEN 0 ELSE 1)

\* A side without data.
Quiet(s) == s.high <= 1 /\ s.tail <= s.head

\* A socket before the handshake is complete, and after.
Unconnected(s) ==
    /\ s.high = 0 /\ s.nextTx = 0 /\ s.tail = 0
    /\ s.st \in {"CLOSED", "SYN_SENT", "SYN_RCVD"}
    /\ s.held = {} /\ s.fin = 0 /\ s.rcv <= 1
    /\ s.st = "SYN_RCVD" => s.rcv = 1
    /\ s.retx.kind \notin {"RTO", "FIN_ACK"}

Connection(s) ==
    /\ s.st \notin {"SYN_SENT", "SYN_RCVD"} /\ s.rcv >= 1 /\ s.high >= 1
    /\ Acked(s) \/ (s.head <= s.high /\ s.nextTx = s.high /\ s.high <= s.tail)
    /\ s.up /\ ~Open(s) => FinSent(s)
    /\ s.retx.kind \notin {"SYN", "SYN_ACK"}
    /\ s.retx.kind = "FIN_ACK" => ~Open(s)

Own(s) ==
    /\ s.head = 0 => Unconnected(s)
    /\ s.head # 0 => Connection(s)
    /\ s.st = "FIN_WAIT_2" => Acked(s)
    /\ s.tail <= Data + 1 \/ Acked(s)
    /\ \A q \in s.held : q > s.rcv
    /\ s.shut => s.st # "CLOSE_WAIT"

\* From s to p: what p has received and acknowledged is what s has sent.
Flow(s, p) ==
    /\ s.head <= p.rcv
    /\ p.rcv <= Bound(s)
    /\ p.rcv > s.high /\ p.rcv > 1 => p.fin # 0
    /\ p.fin # 0 => FinSent(s) /\ p.fin \in {s.high, s.high - 1}
    /\ \A q \in p.held : q < s.high

\* A packet m that s has sent and p has not received yet.
Pk(m, s, p) ==
    /\ m.type \in {"ACK", "SYN_ACK", "FIN_ACK"} => m.ack <= s.rcv
    /\ m.len = 1 => 1 <= m.seq /\ m.seq < s.high /\ m.type \in {"ACK", "FIN_ACK"}
    /\ m.type = "FIN_ACK" =>
           /\ FinSent(s)
           /\ m.seq + m.len = s.high \/ (m.len = 0 /\ m.seq = s.high + 1 /\ Past(p))
    /\ m.type \in {"ACK", "FIN_ACK"} => s.head # 0
    /\ m.type \in {"SYN", "SYN_ACK"} => m.seq = 0

\* So are all packets of a sequence.
AllPk(q, s, p) == \A i \in 1..Len(q) : Pk(q[i], s, p)

\* No request for a connection among them.
NoSyn(q) == \A i \in 1..Len(q) : q[i].type # "SYN"

Joined(s, p) ==
    /\ s \in Socket /\ p \in Socket
    /\ Own(s) /\ Own(p) /\ Flow(s, p) /\ Flow(p, s)

Pair(s, p) == Joined(s, p) /\ AllPk(s.out, s, p) /\ (s.head # 0 => NoSyn(s.out))

\* Between handlers: the end of the peer's stream has been told to the application ...
Told(s) == Finished(s) => s.st \notin {"ESTABLISHED", "FIN_WAIT_1", "FIN_WAIT_2"}

\* ... and a FIN that is sent again though acknowledged meets a peer that has sent its own.
Waits(s, p) ==
    Acked(s) /\ (s.st \in {"FIN_WAIT_1", "CLOSING", "LAST_ACK"} \/ s.retx.kind = "FIN_ACK")
        => FinSent(p)

Settled(s, p) == Told(s) /\ Waits(s, p)

\* What a handler may do to a socket s that becomes t.
Later(s, t) ==
    /\ s.rcv <= t.rcv /\ s.high <= t.high
    /\ s.head # 0 => t.head # 0
    /\ FinSent(s) => FinSent(t) /\ t.high = s.high
    /\ Past(s) => Past(t)

Keeps(s, t) ==
    /\ t.shut = s.shut
    /\ t.up => s.up
    /\ s.shut /\ Quiet(s) => Quiet(t)
    /\ t.retx.kind = "SYN" => s.retx.kind = "SYN"
    /\ t.retx.kind = "SYN_ACK" => s.retx.kind = "SYN_ACK" \/ s.st = "SYN_RCVD"
    /\ t.st \in {"SYN_SENT", "SYN_RCVD"} => t.st = s.st
    /\ t.head = 0 => s.head = 0 /\ t.rcv = s.rcv

Moves(s, t, p) == Pair(t, p) /\ Later(s, t) /\ Keeps(s, t)

\* A side that has not been closed by its application puts the FIN where it belongs.
Straight(s, p) == s.st \notin {"FIN_WAIT_1", "FIN_WAIT_2"} /\ (s.fin = 0 \/ s.fin = p.high)

Direct(s, t, p) == s.shut /\ Straight(s, p) => Straight(t, p)

-----------------------------------------------------------------------------
(* Packets stay what they are while both ends go on.                       *)

LEMMA PkLater ==
    ASSUME NEW m \in Packet, NEW s \in Socket, NEW t \in Socket, NEW p, NEW q,
           Pk(m, s, p), Later(s, t), Later(p, q)
    PROVE  Pk(m, t, q)
<1>1. /\ m.ack \in Nat /\ m.seq \in Nat /\ m.len \in 0..1
      /\ s.rcv \in Nat /\ t.rcv \in Nat /\ s.high \in Nat /\ t.high \in Nat
  BY DEF Packet, Socket
<1>2. m.ack <= s.rcv => m.ack <= t.rcv
  BY <1>1 DEF Later
<1>3. m.seq < s.high => m.seq < t.high
  BY <1>1 DEF Later
<1> QED
  BY <1>2, <1>3 DEF Pk, Later

LEMMA LaterSame == \A s \in Socket : Later(s, s)
BY DEF Later, Socket

LEMMA LaterTwice ==
    ASSUME NEW s \in Socket, NEW t \in Socket, NEW u \in Socket, Later(s, t), Later(t, u)
    PROVE  Later(s, u)
<1>1. /\ s.rcv \in Nat /\ t.rcv \in Nat /\ u.rcv \in Nat
      /\ s.high \in Nat /\ t.high \in Nat /\ u.high \in Nat
  BY DEF Socket
<1> QED
  BY <1>1 DEF Later

LEMMA AllPkLater ==
    ASSUME NEW x \in Seq(Packet), NEW s \in Socket, NEW t \in Socket,
           NEW p \in Socket, NEW q \in Socket,
           AllPk(x, s, p), Later(s, t), Later(p, q)
    PROVE  AllPk(x, t, q)
<1> SUFFICES ASSUME NEW i \in 1..Len(x) PROVE Pk(x[i], t, q)
  BY DEF AllPk
<1>1. x[i] \in Packet /\ Pk(x[i], s, p)
  BY DEF AllPk
<1> QED
  BY <1>1, PkLater

LEMMA MovesTwice ==
    ASSUME NEW s \in Socket, NEW t \in Socket, NEW u \in Socket, NEW p,
           Moves(s, t, p), Moves(t, u, p)
    PROVE  Moves(s, u, p)
<1>1. Later(s, u)
  BY LaterTwice DEF Moves
<1>2. Keeps(s, u)
  BY DEF Moves, Keeps
<1> QED
  BY <1>1, <1>2 DEF Moves

LEMMA AllPkAppend ==
    ASSUME NEW x \in Seq(Packet), NEW m \in Packet, NEW s, NEW p, AllPk(x, s, p), Pk(m, s, p)
    PROVE  Append(x, m) \in Seq(Packet) /\ AllPk(Append(x, m), s, p)
<1> SUFFICES ASSUME NEW i \in 1..Len(Append(x, m)) PROVE Pk(Append(x, m)[i], s, p)
  BY DEF AllPk
<1>1. Append(x, m)[i] = IF i <= Len(x) THEN x[i] ELSE m
  OBVIOUS
<1>2. i <= Len(x) => i \in 1..Len(x)
  OBVIOUS
<1> QED
  BY <1>1, <1>2 DEF AllPk

LEMMA NoSynAppend ==
    ASSUME NEW x \in Seq(Packet), NEW m \in Packet, NoSyn(x), m.type # "SYN"
    PROVE  NoSyn(Append(x, m))
<1> SUFFICES ASSUME NEW i \in 1..Len(Append(x, m)) PROVE Append(x, m)[i].type # "SYN"
  BY DEF NoSyn
<1>1. Append(x, m)[i] = IF i <= Len(x) THEN x[i] ELSE m
  OBVIOUS
<1>2. i <= Len(x) => i \in 1..Len(x)
  OBVIOUS
<1> QED
  BY <1>1, <1>2 DEF NoSyn

LEMMA NoSynConcat ==
    ASSUME NEW x \in Seq(Packet), NEW y \in Seq(Packet), NoSyn(x), NoSyn(y)
    PROVE  NoSyn(x \o y)
<1> SUFFICES ASSUME NEW i \in 1..Len(x \o y) PROVE (x \o y)[i].type # "SYN"
  BY DEF NoSyn
<1>1. (x \o y)[i] = IF i <= Len(x) THEN x[i] ELSE y[i - Len(x)]
  OBVIOUS
<1>2. IF i <= Len(x) THEN i \in 1..Len(x) ELSE i - Len(x) \in 1..Len(y)
  OBVIOUS
<1> QED
  BY <1>1, <1>2 DEF NoSyn

LEMMA AllPkConcat ==
    ASSUME NEW x \in Seq(Packet), NEW y \in Seq(Packet), NEW s, NEW p,
           AllPk(x, s, p), AllPk(y, s, p)
    PROVE  x \o y \in Seq(Packet) /\ AllPk(x \o y, s, p)
<1> SUFFICES ASSUME NEW i \in 1..Len(x \o y) PROVE Pk((x \o y)[i], s, p)
  BY DEF AllPk
<1>1. (x \o y)[i] = IF i <= Len(x) THEN x[i] ELSE y[i - Len(x)]
  OBVIOUS
<1>2. IF i <= Len(x) THEN i \in 1..Len(x) ELSE i - Len(x) \in 1..Len(y)
  OBVIOUS
<1> QED
  BY <1>1, <1>2 DEF AllPk

LEMMA AllPkTail ==
    ASSUME NEW x \in Seq(Packet), x # <<>>, NEW s, NEW p, AllPk(x, s, p)
    PROVE  /\ Head(x) \in Packet /\ Pk(Head(x), s, p)
           /\ Tail(x) \in Seq(Packet) /\ AllPk(Tail(x), s, p)
<1>1. Len(x) \in Nat /\ Len(x) >= 1 /\ Head(x) = x[1] /\ 1 \in 1..Len(x) /\ Len(Tail(x)) = Len(x) - 1
  OBVIOUS
<1>2. ASSUME NEW i \in 1..Len(Tail(x)) PROVE Pk(Tail(x)[i], s, p)
  <2>1. Tail(x)[i] = x[i + 1] /\ i + 1 \in 1..Len(x)
    BY <1>1
  <2> QED
    BY <2>1 DEF AllPk
<1> QED
  BY <1>1, <1>2 DEF AllPk

-----------------------------------------------------------------------------
(* A socket whose state, timers or flags change, but not its numbers.      *)

SameCore(s, t) ==
    /\ t.nextTx = s.nextTx /\ t.high = s.high /\ t.head = s.head /\ t.tail = s.tail
    /\ t.rcv = s.rcv /\ t.held = s.held /\ t.fin = s.fin /\ t.shut = s.shut

\* The changes of state: none, to CLOSED, after a FIN that is the last to be sent,
\* after the FIN is acknowledged, after the FIN of the peer.
Turn(s, t) ==
    \/ t.st = s.st
    \/ t.st = "CLOSED" /\ ~t.up
    \/ s.head # 0 /\ Open(s) /\ s.tail = s.high /\ t.st \in {"FIN_WAIT_1", "LAST_ACK"}
    \/ s.head # 0 /\ ~Open(s) /\ t.st \in {"LAST_ACK", "CLOSING", "TIME_WAIT"}
    \/ s.st = "FIN_WAIT_1" /\ Acked(s) /\ t.st = "FIN_WAIT_2"
    \/ s.st = "ESTABLISHED" /\ t.st = "CLOSE_WAIT" /\ ~s.shut

\* The changes of the timer: none, stopped, or for a FIN.
Rearm(s, t) ==
    \/ t.retx.kind \in {s.retx.kind, "none"}
    \/ t.head # 0 /\ t.retx.kind = "RTO"
    \/ t.head # 0 /\ t.retx.kind = "FIN_ACK" /\ ~Open(t)

LEMMA Turned ==
    ASSUME NEW s, NEW p, NEW t \in Socket,
           Joined(s, p), SameCore(s, t), t.up => s.up, Turn(s, t), Rearm(s, t)
    PROVE  Joined(t, p) /\ Later(s, t) /\ Keeps(s, t)
<1>0. /\ s.rcv \in Nat /\ s.high \in Nat /\ s.head \in Nat /\ s.tail \in Nat
      /\ s.nextTx \in Nat /\ s.fin \in Nat
      /\ p.rcv \in Nat /\ p.high \in Nat /\ p.head \in Nat /\ p.fin \in Nat
  BY DEF Joined, Socket
<1>1. Later(s, t)
  BY <1>0 DEF Joined, Own, Connection, Unconnected, SameCore, Turn, Open, Acked, FinSent, Past, Later
<1>2. Own(t)
  BY <1>0 DEF Joined, Own, Connection, Unconnected, SameCore, Turn, Rearm, Open, Acked, FinSent
<1>3. Flow(t, p)
  BY <1>0, <1>1 DEF Joined, Flow, SameCore, Turn, Open, Bound, Later
<1>4. Flow(p, t)
  BY <1>0 DEF Joined, Flow, SameCore
<1>5. Keeps(s, t)
  BY <1>0 DEF Joined, Own, Connection, Unconnected, SameCore, Turn, Rearm, Keeps, Quiet
<1> QED
  BY <1>1, <1>2, <1>3, <1>4, <1>5 DEF Joined

-----------------------------------------------------------------------------
(* Sending packets without data.                                           *)

LEMMA BitsType ==
    ASSUME NEW s \in Socket, NEW kept \in Load
    PROVE  (IF s.load = {} THEN {} ELSE kept \cup s.load) \in Load
BY DEF Socket, Load

\* The packet that SendEmptyPacket sends, if it sends one.
EmptyPacket(s, type, kept) ==
    [type |-> type, len |-> 0, ack |-> s.rcv,
     bits |-> IF s.load = {} THEN {} ELSE kept \cup s.load,
     seq |-> IF type # "FIN_ACK" /\ s.st \in {"FIN_WAIT_1", "LAST_ACK", "CLOSING"}
             THEN s.nextTx + 1 ELSE s.nextTx]

LEMMA EmptyType ==
    ASSUME NEW s \in Socket, NEW type \in PacketType, NEW kept \in Load
    PROVE  EmptyPacket(s, type, kept) \in Packet
<1>1. s.nextTx \in Nat /\ s.nextTx + 1 \in Nat /\ s.rcv \in Nat
  BY DEF Socket
<1> QED
  BY <1>1, BitsType DEF EmptyPacket, Packet

LEMMA SendEmptyFields ==
    ASSUME NEW s \in Socket, NEW type \in PacketType, NEW kept \in Load,
           NEW t, t = SendEmpty(s, type, kept)
    PROVE  /\ t \in Socket /\ SameCore(s, t) /\ (t.up => s.up)
           /\ \/ t = s /\ ~s.up
              \/ /\ t.st = "CLOSED" /\ ~t.up /\ t.retx.kind = "none" /\ t.out = s.out
                 /\ type \in {"SYN", "SYN_ACK"}
              \/ /\ t.st = s.st /\ t.up = s.up /\ t.coe = s.coe
                 /\ t.out = Append(s.out, EmptyPacket(s, type, kept))
                 /\ t.retx.kind = s.retx.kind
                    \/ (type \in {"SYN", "SYN_ACK", "FIN_ACK"} /\ t.retx.kind = type)
<1> DEFINE bits == IF s.load = {} THEN {} ELSE kept \cup s.load
           guarded == type \in {"SYN", "SYN_ACK", "FIN_ACK"} /\ s.retx = NoTimer
           syn == type \in {"SYN", "SYN_ACK"}
<1>0. /\ NoTimer \in [kind : TimerKind, bits : Load] /\ NoTimer.kind = "none"
      /\ guarded => [kind |-> type, bits |-> bits] \in [kind : TimerKind, bits : Load]
  BY BitsType DEF NoTimer, TimerKind, Load
<1>1. CASE ~s.up
  BY <1>1 DEF SendEmpty, SameCore
<1>2. CASE s.up /\ syn /\ s.syn = 0
  <2>1. t = Deallocate([s EXCEPT !.st = "CLOSED", !.error = TRUE])
    BY <1>2 DEF SendEmpty
  <2>2. "CLOSED" \in State
    BY DEF State
  <2>3. t = [s EXCEPT !.st = "CLOSED", !.error = TRUE, !.up = FALSE, !.retx = NoTimer, !.lato = FALSE]
    BY <2>1 DEF Deallocate, Socket
  <2> HIDE DEF syn, guarded, bits
  <2>4. NoTimer \in [kind : TimerKind, bits : Load]
    BY <1>0
  <2>5. t \in Socket
    BY <2>2, <2>3, <2>4 DEF Socket
  <2>6. SameCore(s, t) /\ t.st = "CLOSED" /\ t.up = FALSE /\ t.retx = NoTimer /\ t.out = s.out
    BY <2>2, <2>3, <2>4 DEF Socket, SameCore
  <2> QED
    BY <1>0, <1>2, <2>5, <2>6 DEF syn
<1>3. CASE s.up /\ ~(syn /\ s.syn = 0)
  <2>1. t = [s EXCEPT !.out = Append(@, EmptyPacket(s, type, kept)),
                      !.syn = IF syn THEN @ - 1 ELSE @,
                      !.retx = IF guarded THEN [kind |-> type, bits |-> bits] ELSE @]
    BY <1>3 DEF SendEmpty, EmptyPacket
  <2>2. Append(s.out, EmptyPacket(s, type, kept)) \in Seq(Packet)
    BY EmptyType DEF Socket
  <2>3. (IF syn THEN s.syn - 1 ELSE s.syn) \in 0..SynRetries
    BY <1>3, CountAssumption DEF Socket
  <2>4. (IF guarded THEN [kind |-> type, bits |-> bits] ELSE s.retx) \in [kind : TimerKind, bits : Load]
    BY <1>0 DEF Socket
  <2> HIDE DEF bits, guarded, syn
  <2>5. /\ t \in Socket /\ SameCore(s, t) /\ t.st = s.st /\ t.up = s.up /\ t.coe = s.coe
        /\ t.out = Append(s.out, EmptyPacket(s, type, kept))
        /\ t.retx = IF guarded THEN [kind |-> type, bits |-> bits] ELSE s.retx
    BY <2>1, <2>2, <2>3, <2>4, ZenonT(60) DEF Socket, SameCore
  <2> QED
    BY <1>3, <2>5 DEF guarded
<1> QED
  BY <1>1, <1>2, <1>3

\* What stays when a packet is acknowledged or an event is noted.
Unmoved(s, t) == SameCore(s, t) /\ t.st = s.st /\ t.retx.kind = s.retx.kind

LEMMA Emits ==
    ASSUME NEW s, NEW p, Pair(s, p), NEW t \in Socket, Joined(t, p), Later(s, t), Keeps(s, t),
           NEW m, m \in Packet, Pk(m, t, p), t.out = s.out \/ t.out = Append(s.out, m),
           t.head = s.head, m.type # "SYN" \/ s.head = 0
    PROVE  Moves(s, t, p)
<1>1. s \in Socket /\ p \in Socket /\ s.out \in Seq(Packet) /\ AllPk(s.out, s, p)
  BY DEF Pair, Joined, Socket
<1>2. AllPk(s.out, t, p)
  BY <1>1, AllPkLater, LaterSame
<1>3. AllPk(t.out, t, p)
  BY <1>1, <1>2, AllPkAppend
<1>4. t.head # 0 => NoSyn(t.out)
  BY <1>1, NoSynAppend DEF Pair
<1> QED
  BY <1>3, <1>4 DEF Moves, Pair

LEMMA Silent ==
    ASSUME NEW s, NEW p, Pair(s, p), NEW t \in Socket, SameCore(s, t), t.up => s.up,
           Turn(s, t), Rearm(s, t), t.out = s.out
    PROVE  Moves(s, t, p)
<1>1. s \in Socket /\ p \in Socket /\ s.out \in Seq(Packet) /\ AllPk(s.out, s, p)
  BY DEF Pair, Joined, Socket
<1>2. Joined(t, p) /\ Later(s, t) /\ Keeps(s, t)
  BY Turned DEF Pair
<1>3. AllPk(t.out, t, p)
  BY <1>1, <1>2, AllPkLater, LaterSame
<1>4. t.head # 0 => NoSyn(t.out)
  BY DEF Pair, SameCore
<1> QED
  BY <1>2, <1>3, <1>4 DEF Moves, Pair

LEMMA MovesSelf ==
    ASSUME NEW s, NEW p, Pair(s, p)
    PROVE  Moves(s, s, p)
BY Silent DEF Pair, Joined, SameCore, Turn, Rearm

LEMMA MovesAck ==
    ASSUME NEW s, NEW p, Pair(s, p), s.head # 0, NEW t, t = SendAck(s)
    PROVE  Moves(s, t, p) /\ Unmoved(s, t) /\ t.up = s.up /\ t.coe = s.coe
<1>0. s \in Socket /\ "ACK" \in PacketType /\ {} \in Load /\ t = SendEmpty(s, "ACK", {})
  BY DEF Pair, Joined, PacketType, Load, SendAck
<1>1. /\ t \in Socket /\ SameCore(s, t) /\ t.up = s.up /\ t.st = s.st /\ t.coe = s.coe
      /\ t.retx.kind = s.retx.kind
      /\ t.out = s.out \/ t.out = Append(s.out, EmptyPacket(s, "ACK", {}))
  BY <1>0, SendEmptyFields
<1>2. Joined(t, p) /\ Later(s, t) /\ Keeps(s, t)
  BY <1>1, Turned DEF Pair, Turn, Rearm
<1>3. EmptyPacket(s, "ACK", {}) \in Packet
  BY <1>0, EmptyType
<1>4. Pk(EmptyPacket(s, "ACK", {}), t, p)
  <2>1. s.rcv \in Nat
    BY <1>0 DEF Socket
  <2> QED
    BY <1>1, <2>1 DEF Pk, EmptyPacket, SameCore
<1>5. EmptyPacket(s, "ACK", {}).type # "SYN" /\ t.head = s.head
  BY <1>1 DEF EmptyPacket, SameCore
<1>6. Moves(s, t, p)
  BY <1>0, <1>1, <1>2, <1>3, <1>4, <1>5, Emits
<1> QED
  BY <1>1, <1>6 DEF Unmoved

LEMMA MovesRST ==
    ASSUME NEW s, NEW p, Pair(s, p), NEW t, t = SendRST(s)
    PROVE  /\ Moves(s, t, p) /\ SameCore(s, t) /\ t.st = s.st
           /\ ~t.up /\ t.retx.kind = "none"
<1>0. s \in Socket /\ "RST" \in PacketType /\ {} \in Load
  BY DEF Pair, Joined, PacketType, Load
<1> DEFINE u == SendEmpty(s, "RST", {})
<1>1. /\ u \in Socket /\ SameCore(s, u) /\ u.st = s.st
      /\ u.out = s.out \/ u.out = Append(s.out, EmptyPacket(s, "RST", {}))
  BY <1>0, SendEmptyFields
<1>2. t = Deallocate([u EXCEPT !.error = TRUE])
  BY DEF SendRST
<1> HIDE DEF u
<1>3. NoTimer \in [kind : TimerKind, bits : Load] /\ NoTimer.kind = "none"
  BY DEF NoTimer, TimerKind, Load
<1>4. t = [u EXCEPT !.error = TRUE, !.up = FALSE, !.retx = NoTimer, !.lato = FALSE]
  BY <1>1, <1>2 DEF Deallocate, Socket
<1>5. t \in Socket
  BY <1>1, <1>3, <1>4 DEF Socket
<1>6. /\ SameCore(s, t) /\ t.st = s.st /\ t.up = FALSE /\ t.retx = NoTimer
      /\ t.out = s.out \/ t.out = Append(s.out, EmptyPacket(s, "RST", {}))
  BY <1>1, <1>3, <1>4 DEF Socket, SameCore
<1>7. Joined(t, p) /\ Later(s, t) /\ Keeps(s, t)
  BY <1>3, <1>5, <1>6, Turned DEF Pair, Turn, Rearm
<1>8. EmptyPacket(s, "RST", {}) \in Packet
  BY <1>0, EmptyType
<1>9. Pk(EmptyPacket(s, "RST", {}), t, p)
  BY DEF Pk, EmptyPacket
<1>10. EmptyPacket(s, "RST", {}).type # "SYN" /\ t.head = s.head
  BY <1>6 DEF EmptyPacket, SameCore
<1>11. Moves(s, t, p)
  BY <1>5, <1>6, <1>7, <1>8, <1>9, <1>10, Emits
<1> QED
  BY <1>3, <1>6, <1>11

LEMMA MovesClosed ==
    ASSUME NEW s, NEW p, Pair(s, p), NEW t, t = CloseAndNotify(s)
    PROVE  /\ Moves(s, t, p) /\ SameCore(s, t) /\ t.st = "CLOSED"
           /\ ~t.up /\ t.retx.kind = "none"
<1>0. s \in Socket /\ "CLOSED" \in State
  BY DEF Pair, Joined, State
<1>3. NoTimer \in [kind : TimerKind, bits : Load] /\ NoTimer.kind = "none"
  BY DEF NoTimer, TimerKind, Load
<1>4. t = [s EXCEPT !.normal = TRUE, !.st = "CLOSED", !.up = FALSE, !.retx = NoTimer, !.lato = FALSE]
  BY <1>0 DEF CloseAndNotify, Deallocate, Socket
<1>5. t \in Socket
  BY <1>0, <1>3, <1>4 DEF Socket
<1>6. SameCore(s, t) /\ t.st = "CLOSED" /\ t.up = FALSE /\ t.retx = NoTimer /\ t.out = s.out
  BY <1>0, <1>3, <1>4 DEF Socket, SameCore
<1> QED
  BY <1>3, <1>5, <1>6, Silent DEF Turn, Rearm

\* A FIN without data goes behind all the data, or one beyond if it is acknowledged
\* already, to a peer that looks at no FIN any more.
LEMMA MovesFin ==
    ASSUME NEW s, NEW p, Pair(s, p), s.head # 0, NEW kept \in Load,
           NEW t \in Socket, SameCore(s, t), t.up => s.up, Turn(s, t), Rearm(s, t),
           FinSent(t), Acked(s) => Past(p),
           t.out = s.out \/ t.out = Append(s.out, EmptyPacket(s, "FIN_ACK", kept))
    PROVE  Moves(s, t, p)
<1>0. s \in Socket /\ "FIN_ACK" \in PacketType /\ s.rcv \in Nat /\ s.high \in Nat
  BY DEF Pair, Joined, PacketType, Socket
<1>1. Joined(t, p) /\ Later(s, t) /\ Keeps(s, t)
  BY Turned DEF Pair
<1>2. EmptyPacket(s, "FIN_ACK", kept) \in Packet
  BY <1>0, EmptyType
<1>3. s.nextTx = s.high \/ (s.nextTx = s.high + 1 /\ Past(p))
  BY DEF Pair, Joined, Own, Connection, Acked
<1>4. Pk(EmptyPacket(s, "FIN_ACK", kept), t, p)
  BY <1>0, <1>3 DEF Pk, EmptyPacket, SameCore
<1>5. EmptyPacket(s, "FIN_ACK", kept).type # "SYN"
  BY DEF EmptyPacket
<1> QED
  BY <1>1, <1>2, <1>4, <1>5, Emits DEF SameCore

-----------------------------------------------------------------------------
(* Closing.                                                                *)

\* Who has had the FIN of this side acknowledged by a peer that has sent its own, has
\* a peer that has received both and is past FIN_WAIT.
LEMMA PastPeer ==
    ASSUME NEW s, NEW p, Joined(s, p), Told(p), FinSent(p), Acked(s), s.head # 0
    PROVE  Past(p)
<1>1. /\ s.high \in Nat /\ p.rcv \in Nat /\ p.fin \in Nat /\ p.st \in State
  BY DEF Joined, Socket
<1>2. s.high >= 1 /\ p.rcv >= s.high + 1
  BY <1>1 DEF Joined, Own, Connection, Flow, Acked
<1>3. p.fin # 0 /\ p.fin <= s.high
  BY <1>1, <1>2 DEF Joined, Flow
<1>4. p.st \notin {"ESTABLISHED", "FIN_WAIT_1", "FIN_WAIT_2"}
  BY <1>1, <1>2, <1>3 DEF Told, Finished
<1>5. p.head # 0 /\ p.st \notin {"SYN_SENT", "SYN_RCVD", "CLOSE_WAIT"}
  BY DEF Joined, Own, Connection, FinSent, Open
<1> QED
  BY <1>1, <1>4, <1>5 DEF Past, State

\* Nothing is sent, or nothing behind the last data, by who has had all acknowledged.
LEMMA AllSent ==
    ASSUME NEW s, NEW p, Joined(s, p), s.head # 0,
           Quiet(s) \/ (Open(s) /\ ~(s.tail > s.nextTx))
    PROVE  /\ ~(s.tail > s.nextTx)
           /\ Acked(s) \/ s.tail = s.high
<1>1. s.high \in Nat /\ s.head \in Nat /\ s.tail \in Nat /\ s.nextTx \in Nat
  BY DEF Joined, Socket
<1>2. Acked(s) \/ (s.head <= s.high /\ s.nextTx = s.high /\ s.high <= s.tail)
  BY DEF Joined, Own, Connection
<1> QED
  BY <1>1, <1>2 DEF Quiet, Acked

\* A FIN without data, and the state it leads to.
SendFin(s, kept, st) == [SendEmpty(s, "FIN_ACK", kept) EXCEPT !.st = st]

LEMMA FinTaken ==
    ASSUME NEW s \in Socket, NEW kept \in Load, NEW st \in {"FIN_WAIT_1", "LAST_ACK"},
           NEW t, t = SendFin(s, kept, st)
    PROVE  /\ t \in Socket /\ SameCore(s, t) /\ t.up = s.up /\ t.st = st
           /\ t.retx.kind \in {s.retx.kind, "FIN_ACK"}
           /\ t.out = s.out \/ t.out = Append(s.out, EmptyPacket(s, "FIN_ACK", kept))
<1>0. "FIN_ACK" \in PacketType /\ st \in State
  BY DEF PacketType, State
<1> DEFINE u == SendEmpty(s, "FIN_ACK", kept)
<1>1. /\ u \in Socket /\ SameCore(s, u) /\ u.up = s.up
      /\ u.retx.kind \in {s.retx.kind, "FIN_ACK"}
      /\ u.out = s.out \/ u.out = Append(s.out, EmptyPacket(s, "FIN_ACK", kept))
  BY <1>0, SendEmptyFields
<1>2. t = [u EXCEPT !.st = st]
  BY DEF SendFin
<1> HIDE DEF u
<1>3. t \in Socket
  BY <1>0, <1>1, <1>2, ZenonT(60) DEF Socket
<1>4. SameCore(u, t) /\ t.up = u.up /\ t.st = st /\ t.retx = u.retx /\ t.out = u.out
  BY <1>1, <1>2 DEF Socket, SameCore
<1> QED
  BY <1>1, <1>3, <1>4 DEF SameCore

LEMMA MovesDoClose ==
    ASSUME NEW s, NEW p, Pair(s, p), ~(s.tail > s.nextTx), NEW t, t = DoClose(s)
    PROVE  /\ Moves(s, t, p) /\ SameCore(s, t)
           /\ \/ t = s
              \/ s.st = "ESTABLISHED" /\ t.st = "FIN_WAIT_1"
              \/ s.st = "CLOSE_WAIT" /\ t.st = "LAST_ACK"
              \/ t.st = "CLOSED" /\ t.retx.kind = "none"
<1>0. s \in Socket /\ p \in Socket /\ {} \in Load /\ Joined(s, p)
  BY DEF Pair, Joined, Load
<1>1. ASSUME Open(s), NEW st \in {"FIN_WAIT_1", "LAST_ACK"}, t.st = st, Turn(s, t),
             t = SendFin(s, {}, st)
      PROVE  Moves(s, t, p) /\ SameCore(s, t)
  <2>1. s.head # 0 /\ ~Acked(s)
    BY <1>0, <1>1 DEF Joined, Own, Unconnected, Open, Acked
  <2>2. s.tail = s.high
    BY <1>0, <1>1, <2>1, AllSent
  <2>3. /\ t \in Socket /\ SameCore(s, t) /\ t.up = s.up
        /\ t.retx.kind \in {s.retx.kind, "FIN_ACK"}
        /\ t.out = s.out \/ t.out = Append(s.out, EmptyPacket(s, "FIN_ACK", {}))
    BY <1>0, <1>1, FinTaken
  <2>4. FinSent(t) /\ Rearm(s, t)
    BY <1>1, <2>1, <2>2, <2>3 DEF FinSent, Open, SameCore, Rearm
  <2> QED
    BY <1>0, <1>1, <2>1, <2>3, <2>4, MovesFin
<1>2. CASE s.st = "ESTABLISHED"
  <2>1. t = SendFin(s, {}, "FIN_WAIT_1")
    BY <1>2 DEF DoClose, SendFin
  <2>2. t.st = "FIN_WAIT_1"
    BY <1>0, <2>1, FinTaken
  <2>3. s.head # 0 /\ s.tail = s.high /\ Open(s)
    BY <1>0, <1>2, AllSent DEF Joined, Own, Unconnected, Open, Acked
  <2> QED
    BY <1>1, <1>2, <2>1, <2>2, <2>3 DEF Turn
<1>3. CASE s.st = "CLOSE_WAIT"
  <2>1. t = SendFin(s, {}, "LAST_ACK")
    BY <1>3 DEF DoClose, SendFin
  <2>2. t.st = "LAST_ACK"
    BY <1>0, <2>1, FinTaken
  <2>3. s.head # 0 /\ s.tail = s.high /\ Open(s)
    BY <1>0, <1>3, AllSent DEF Joined, Own, Unconnected, Open, Acked
  <2> QED
    BY <1>1, <1>3, <2>1, <2>2, <2>3 DEF Turn
<1>4. CASE s.st \in {"SYN_SENT", "CLOSING"}
  <2> DEFINE u == SendRST(s)
  <2>1. t = CloseAndNotify(u)
    BY <1>4 DEF DoClose
  <2>2. Moves(s, u, p) /\ SameCore(s, u)
    BY MovesRST
  <2>3. Moves(u, t, p) /\ SameCore(u, t) /\ t.st = "CLOSED" /\ t.retx.kind = "none"
    BY <2>1, <2>2, MovesClosed DEF Moves
  <2>4. u \in Socket /\ t \in Socket
    BY <2>2, <2>3 DEF Moves, Pair, Joined
  <2> HIDE DEF u
  <2>5. Moves(s, t, p)
    BY <1>0, <2>2, <2>3, <2>4, MovesTwice
  <2> QED
    BY <2>2, <2>3, <2>5 DEF SameCore
<1>5. CASE s.st \notin {"ESTABLISHED", "CLOSE_WAIT", "SYN_SENT", "CLOSING"}
  <2>1. t = s
    BY <1>5 DEF DoClose
  <2> QED
    BY <1>0, <2>1, Silent DEF SameCore, Turn, Rearm
<1> QED
  BY <1>2, <1>3, <1>4, <1>5

LEMMA SettledSame ==
    ASSUME NEW s, NEW t, NEW p, Settled(s, p), SameCore(s, t), t.st = s.st,
           t.retx.kind \in {s.retx.kind, "none", "RTO"}
    PROVE  Settled(t, p)
BY DEF Settled, Told, Waits, SameCore, Acked, Open, Finished

LEMMA MovesClose ==
    ASSUME NEW s, NEW p, Pair(s, p), Settled(s, p), NEW t, t = Close(s)
    PROVE  Moves(s, t, p) /\ Settled(t, p) /\ SameCore(s, t)
<1>0. s \in Socket /\ p \in Socket /\ Joined(s, p)
  BY DEF Pair, Joined
<1>1. CASE s.held # {}
  <2>1. t = SendRST(s)
    BY <1>1 DEF Close
  <2>2. /\ Moves(s, t, p) /\ SameCore(s, t) /\ t.st = s.st
        /\ t.retx.kind = "none"
    BY <2>1, MovesRST
  <2> QED
    BY <2>2, SettledSame
<1>2. CASE s.held = {} /\ s.tail > s.nextTx
  <2>1. t = [s EXCEPT !.coe = TRUE]
    BY <1>2 DEF Close
  <2>2. t \in Socket /\ SameCore(s, t) /\ t.st = s.st /\ t.up = s.up /\ t.retx = s.retx /\ t.out = s.out
    BY <1>0, <2>1 DEF Socket, SameCore
  <2>3. Moves(s, t, p)
    BY <2>2, Silent DEF Turn, Rearm
  <2> QED
    BY <2>2, <2>3, SettledSame
<1>3. CASE s.held = {} /\ ~(s.tail > s.nextTx)
  <2>1. t = DoClose(s)
    BY <1>3 DEF Close
  <2>2. /\ Moves(s, t, p) /\ SameCore(s, t)
        /\ \/ t = s
           \/ s.st = "ESTABLISHED" /\ t.st = "FIN_WAIT_1"
           \/ s.st = "CLOSE_WAIT" /\ t.st = "LAST_ACK"
           \/ t.st = "CLOSED" /\ t.retx.kind = "none"
    BY <1>3, <2>1, MovesDoClose
  <2>3. Open(s) => s.head <= s.high
    BY <1>0 DEF Joined, Own, Unconnected, Connection, Acked, Open
  <2>4. ~(s.head <= s.high) \/ s.head # s.high + 1
    <3>1. s.head \in Nat /\ s.high \in Nat
      BY <1>0 DEF Socket
    <3> QED
      BY <3>1
  <2> QED
    BY <2>2, <2>3, <2>4 DEF Settled, Told, Waits, SameCore, Acked, Open, Finished
<1> QED
  BY <1>1, <1>2, <1>3

\* When the stream of the peer has ended, a side without data answers with its FIN, the
\* other one waits for its application.
LEMMA NoneHeld ==
    ASSUME NEW s, NEW p, Joined(s, p), Finished(s)
    PROVE  s.held = {} /\ FinSent(p)
<1>1. s.fin \in Nat /\ s.rcv \in Nat /\ p.high \in Nat /\ s.held \subseteq Nat
  BY DEF Joined, Socket
<1>2. s.fin # 0 /\ s.fin < s.rcv /\ s.fin \in {p.high, p.high - 1} /\ FinSent(p)
  BY DEF Joined, Flow, Finished
<1>3. ASSUME NEW q \in s.held PROVE FALSE
  <2>1. q \in Nat /\ q > s.rcv /\ q < p.high
    BY <1>1 DEF Joined, Own, Flow
  <2> QED
    BY <1>1, <1>2, <2>1
<1> QED
  BY <1>2, <1>3

LEMMA MovesPeerClose ==
    ASSUME NEW s, NEW p, Pair(s, p), Told(p), Finished(s), s.head # 0,
           IF s.shut THEN Quiet(s) ELSE s.st = "ESTABLISHED",
           NEW t, t = DoPeerClose(s)
    PROVE  /\ Moves(s, t, p) /\ Settled(t, p) /\ SameCore(s, t)
           /\ t.st = IF s.shut THEN "LAST_ACK" ELSE "CLOSE_WAIT"
           /\ t.up = s.up
<1> DEFINE told == [s EXCEPT !.st = "CLOSE_WAIT", !.normal = TRUE]
<1>0. s \in Socket /\ p \in Socket /\ Joined(s, p) /\ {} \in Load /\ s.rcv \in Nat /\ s.fin \in Nat
  BY DEF Pair, Joined, Load, Socket
<1>1. /\ told \in Socket /\ SameCore(s, told) /\ told.st = "CLOSE_WAIT" /\ told.up = s.up
      /\ told.retx = s.retx /\ told.out = s.out
  BY <1>0 DEF Socket, State, SameCore
<1>2. s.held = {} /\ FinSent(p)
  BY <1>0, NoneHeld
<1>3. t = LET answered == IF told.shut THEN Close(told) ELSE SendAck(told)
          IN IF answered.st = "LAST_ACK"
             THEN [answered EXCEPT !.retr = DataRetries, !.lato = TRUE]
             ELSE answered
  BY <1>0 DEF DoPeerClose, Socket
<1> HIDE DEF told
<1>4. CASE s.shut
  <2>1. ~(s.tail > s.nextTx) /\ (Acked(s) \/ s.tail = s.high)
    BY <1>0, <1>4, AllSent
  <2> DEFINE u == SendFin(told, {}, "LAST_ACK")
  <2>2. Close(told) = u
    BY <1>1, <1>2, <2>1 DEF Close, DoClose, SendFin, SameCore
  <2>3. /\ u \in Socket /\ SameCore(told, u) /\ u.up = told.up /\ u.st = "LAST_ACK"
        /\ u.retx.kind \in {told.retx.kind, "FIN_ACK"}
        /\ u.out = told.out \/ u.out = Append(told.out, EmptyPacket(told, "FIN_ACK", {}))
    BY <1>0, <1>1, FinTaken
  <2> HIDE DEF u
  <2>4. t = [u EXCEPT !.retr = DataRetries, !.lato = TRUE]
    BY <1>1, <1>3, <1>4, <2>2, <2>3 DEF SameCore
  <2>5. EmptyPacket(told, "FIN_ACK", {}) = EmptyPacket(s, "FIN_ACK", {})
    <3>1. told.load = s.load
      BY <1>0 DEF told, Socket
    <3> QED
      BY <1>1, <3>1 DEF EmptyPacket, SameCore
  <2>6. /\ t \in Socket /\ SameCore(s, t) /\ t.up = s.up /\ t.st = "LAST_ACK"
        /\ t.retx.kind \in {s.retx.kind, "FIN_ACK"}
        /\ t.out = s.out \/ t.out = Append(s.out, EmptyPacket(s, "FIN_ACK", {}))
    <3>1. DataRetries \in 0..DataRetries
      BY CountAssumption
    <3>2. /\ t \in Socket /\ SameCore(u, t) /\ t.up = u.up /\ t.st = u.st /\ t.retx = u.retx
          /\ t.out = u.out
      BY <2>3, <2>4, <3>1 DEF Socket, SameCore
    <3> QED
      BY <1>1, <2>3, <2>5, <3>2 DEF SameCore
  <2>7. s.st # "CLOSE_WAIT" /\ (Open(s) => ~Acked(s))
    BY <1>0, <1>4 DEF Joined, Own, Acked
  <2>8. Turn(s, t) /\ Rearm(s, t) /\ FinSent(t)
    BY <2>1, <2>6, <2>7 DEF Turn, Rearm, FinSent, Acked, Open, SameCore
  <2>9. Acked(s) => Past(p)
    BY <1>0, <1>2, PastPeer
  <2>10. Moves(s, t, p)
    BY <1>0, <2>6, <2>8, <2>9, MovesFin
  <2>11. Settled(t, p)
    BY <1>2, <2>6 DEF Settled, Told, Waits
  <2> QED
    BY <1>4, <2>6, <2>10, <2>11
<1>5. CASE ~s.shut
  <2>1. Moves(s, told, p)
    BY <1>1, <1>5, Silent DEF Turn, Rearm
  <2>2. t = SendAck(told) \/ t.st = "LAST_ACK"
    BY <1>1, <1>3, <1>5 DEF SameCore
  <2> DEFINE u == SendAck(told)
  <2>3. Moves(told, u, p) /\ Unmoved(told, u) /\ u.up = told.up
    BY <1>1, <2>1, MovesAck DEF Moves, SameCore
  <2>4. t = u
    BY <1>1, <1>3, <1>5, <2>3 DEF SameCore, Unmoved
  <2>5. u \in Socket
    BY <2>3 DEF Moves, Pair, Joined
  <2> HIDE DEF u
  <2>6. Moves(s, t, p)
    BY <1>0, <1>1, <2>1, <2>3, <2>4, <2>5, MovesTwice
  <2>7. SameCore(s, t) /\ t.st = "CLOSE_WAIT" /\ t.up = s.up
    BY <1>1, <2>3, <2>4 DEF Unmoved, SameCore
  <2> QED
    BY <1>5, <2>6, <2>7 DEF Settled, Told, Waits, Acked, Open
<1> QED
  BY <1>4, <1>5

-----------------------------------------------------------------------------
(* Sending data.                                                           *)

Segment(s, q) ==
    [type |-> IF s.coe /\ q + 1 = s.tail THEN "FIN_ACK" ELSE "ACK",
     seq |-> q, ack |-> s.rcv, len |-> 1, bits |-> {}]

Segments(s, first) == [i \in 1..(s.tail - first) |-> Segment(s, first + i - 1)]

StateAfterData(s) ==
    IF s.coe /\ s.st = "ESTABLISHED" THEN "FIN_WAIT_1"
    ELSE IF s.coe /\ s.st = "CLOSE_WAIT" THEN "LAST_ACK" ELSE s.st

DataSent(s, t, first) ==
    /\ t \in Socket
    /\ t.head = s.head /\ t.tail = s.tail /\ t.rcv = s.rcv /\ t.held = s.held
    /\ t.fin = s.fin /\ t.shut = s.shut /\ t.up = s.up /\ t.coe = s.coe
    /\ t.nextTx = s.tail /\ t.high = Larger(s.high, s.tail)
    /\ t.retx.kind \in {s.retx.kind, "RTO"}
    /\ t.st = StateAfterData(s)
    /\ Segments(s, first) \in Seq(Packet) /\ t.out = s.out \o Segments(s, first)

LEMMA SendFields ==
    ASSUME NEW s \in Socket, NEW first \in Nat, s.up, first < s.tail,
           NEW t, t = SendData(s, first)
    PROVE  DataSent(s, t, first)
<1> DEFINE retx == IF s.retx = NoTimer THEN DataTimer ELSE s.retx
<1>0. s.tail \in Nat /\ s.high \in Nat /\ s.rcv \in Nat /\ s.st \in State /\ s.coe \in BOOLEAN
  BY DEF Socket
<1> DEFINE out == s.out \o Segments(s, first)
<1> DEFINE high == Larger(s.high, s.tail)
<1> DEFINE st == StateAfterData(s)
<1>1. t = [s EXCEPT !.out = out, !.nextTx = s.tail, !.high = high, !.retx = retx, !.st = st]
  <2>1. StateAfterData(s) = CASE s.coe /\ s.st = "ESTABLISHED" -> "FIN_WAIT_1"
                              [] s.coe /\ s.st = "CLOSE_WAIT" -> "LAST_ACK"
                              [] OTHER -> s.st
    BY <1>0 DEF StateAfterData
  <2>2. ~(~s.up \/ first >= s.tail)
    BY <1>0
  <2> QED
    BY <2>1, <2>2 DEF SendData, Segments, Segment
<1>2. st \in State /\ high \in Nat
  BY <1>0 DEF State, StateAfterData, Larger
<1>3. retx \in [kind : TimerKind, bits : Load] /\ retx.kind \in {s.retx.kind, "RTO"}
  BY DEF Socket, DataTimer, TimerKind, Load
<1>4. Segments(s, first) \in Seq(Packet)
  <2>1. ASSUME NEW i \in 1..(s.tail - first) PROVE Segment(s, first + i - 1) \in Packet
    <3>1. first + i - 1 \in Nat /\ {} \in Load
      BY <1>0 DEF Load
    <3>2. (IF s.coe /\ first + i - 1 + 1 = s.tail THEN "FIN_ACK" ELSE "ACK") \in PacketType
      BY DEF PacketType
    <3> QED
      BY <1>0, <3>1, <3>2 DEF Segment, Packet
  <2>2. s.tail - first \in Nat
    BY <1>0
  <2> QED
    BY <2>1, <2>2 DEF Segments
<1>5. out \in Seq(Packet)
  BY <1>4 DEF Socket
<1> HIDE DEF retx, out, high, st
<1>6. /\ t \in Socket
      /\ t.head = s.head /\ t.tail = s.tail /\ t.rcv = s.rcv /\ t.held = s.held
      /\ t.fin = s.fin /\ t.shut = s.shut /\ t.up = s.up /\ t.coe = s.coe
      /\ t.nextTx = s.tail /\ t.high = high /\ t.retx = retx /\ t.st = st /\ t.out = out
  <2>1. t \in Socket
    BY <1>0, <1>1, <1>2, <1>3, <1>5, ZenonT(60) DEF Socket
  <2> QED
    BY <1>1, <2>1 DEF Socket
<1>7. t.retx.kind \in {s.retx.kind, "RTO"}
  BY <1>3, <1>6
<1> QED
  BY <1>4, <1>6, <1>7 DEF DataSent, out, high, st

LEMMA MovesSend ==
    ASSUME NEW s, NEW p, Pair(s, p), NEW first \in Nat, s.head <= first,
           NEW t, t = SendData(s, first)
    PROVE  /\ Moves(s, t, p) /\ t.head = s.head /\ t.up = s.up
           /\ t.fin = s.fin /\ t.rcv = s.rcv
           /\ Told(s) => Told(t)
           /\ t = s \/ (~Acked(t) /\ ~Quiet(s))
           /\ \/ t.st = s.st
              \/ s.st = "ESTABLISHED" /\ t.st = "FIN_WAIT_1"
              \/ s.st = "CLOSE_WAIT" /\ t.st = "LAST_ACK"
<1>0. /\ s \in Socket /\ p \in Socket /\ Joined(s, p) /\ s.out \in Seq(Packet)
      /\ s.rcv \in Nat /\ s.high \in Nat /\ s.head \in Nat /\ s.tail \in Nat /\ s.nextTx \in Nat
      /\ p.rcv \in Nat /\ p.fin \in Nat
  BY DEF Pair, Joined, Socket
<1>1. CASE ~s.up \/ first >= s.tail
  <2>1. t = s
    BY <1>1 DEF SendData
  <2> QED
    BY <1>0, <2>1, Silent DEF SameCore, Turn, Rearm
<1>2. CASE s.up /\ first < s.tail
  <2>0. /\ t \in Socket
        /\ t.head = s.head /\ t.tail = s.tail /\ t.rcv = s.rcv /\ t.held = s.held
        /\ t.fin = s.fin /\ t.shut = s.shut /\ t.up = s.up /\ t.coe = s.coe
        /\ t.nextTx = s.tail /\ t.high = Larger(s.high, s.tail)
        /\ t.retx.kind \in {s.retx.kind, "RTO"}
        /\ t.st = StateAfterData(s)
        /\ Segments(s, first) \in Seq(Packet) /\ t.out = s.out \o Segments(s, first)
    <3>1. DataSent(s, t, first)
      BY <1>0, <1>2, SendFields
    <3> QED
      BY <3>1 DEF DataSent
  <2>1. s.head # 0
    BY <1>0, <1>2 DEF Joined, Own, Unconnected
  <2>2. ~Acked(s) /\ s.head <= s.high /\ s.nextTx = s.high /\ s.high <= s.tail /\ s.high >= 1
    BY <1>0, <1>2, <2>1 DEF Joined, Own, Connection, Acked
  <2>3. t.high = s.tail /\ s.head < s.tail
    BY <1>0, <1>2, <2>0, <2>2 DEF Larger
  <2>4. ~Acked(t) /\ ~Quiet(s)
    BY <1>0, <2>0, <2>3 DEF Acked, Quiet
  <2>5. /\ Open(t) => Open(s) /\ t.st = s.st /\ ~s.coe
        /\ \/ t.st = s.st
           \/ s.st = "ESTABLISHED" /\ t.st = "FIN_WAIT_1"
           \/ s.st = "CLOSE_WAIT" /\ t.st = "LAST_ACK"
    BY <1>0, <2>0 DEF Open, StateAfterData, Socket
  <2>6. ~Open(t) => FinSent(t)
    BY <2>0, <2>1, <2>3 DEF FinSent
  <2>7. FinSent(s) => s.tail = s.high /\ ~Open(s) /\ t.st = s.st
    BY <2>2, <2>5 DEF FinSent, Open
  <2>8. Later(s, t)
    <3>1. FinSent(s) => FinSent(t) /\ t.high = s.high
      BY <2>3, <2>5, <2>6, <2>7 DEF Open
    <3>2. Past(s) => Past(t)
      BY <2>0, <2>5 DEF Past
    <3> QED
      BY <1>0, <2>0, <2>2, <2>3, <3>1, <3>2 DEF Later
  <2>9. Own(t)
    <3>1. Connection(t)
      BY <1>0, <2>0, <2>1, <2>2, <2>3, <2>5, <2>6 DEF Joined, Own, Connection
    <3>2. t.st # "FIN_WAIT_2"
      BY <1>0, <2>2, <2>5 DEF Joined, Own
    <3>3. t.tail <= Data + 1
      BY <1>0, <2>0, <2>2 DEF Joined, Own
    <3> QED
      BY <1>0, <2>0, <2>1, <2>5, <3>1, <3>2, <3>3 DEF Joined, Own
  <2>10. Flow(t, p)
    <3>1. p.rcv <= Bound(t)
      BY <1>0, <2>2, <2>3, <2>5 DEF Joined, Flow, Bound
    <3>2. p.fin # 0 => FinSent(t) /\ p.fin \in {t.high, t.high - 1}
      BY <1>0, <2>8 DEF Joined, Flow, Later
    <3>3. ASSUME NEW q \in p.held PROVE q < t.high
      <4>1. q \in Nat /\ q < s.high
        BY <1>0 DEF Joined, Flow, Socket
      <4> QED
        BY <1>0, <2>2, <2>3, <4>1
    <3>4. p.rcv > t.high => p.rcv > s.high
      BY <1>0, <2>2, <2>3
    <3> QED
      BY <1>0, <2>0, <3>1, <3>2, <3>3, <3>4 DEF Joined, Flow
  <2>11. Flow(p, t)
    BY <1>0, <2>0 DEF Joined, Flow
  <2>12. Keeps(s, t)
    BY <2>0, <2>1, <2>4, <2>5 DEF Keeps
  <2>13. AllPk(t.out, t, p)
    <3>1. AllPk(s.out, t, p)
      BY <1>0, <2>0, <2>8, AllPkLater, LaterSame DEF Pair
    <3>2. ASSUME NEW i \in 1..Len(Segments(s, first)) PROVE Pk(Segments(s, first)[i], t, p)
      <4>1. Len(Segments(s, first)) = s.tail - first /\ i \in 1..(s.tail - first)
        BY <1>0, <1>2 DEF Segments
      <4>2. Segments(s, first)[i] = Segment(s, first + i - 1)
        BY <4>1 DEF Segments
      <4>3. first + i - 1 \in Nat /\ 1 <= first + i - 1 /\ first + i - 1 < t.high
        BY <1>0, <2>1, <2>3, <4>1
      <4>4. s.coe => FinSent(t)
        BY <2>5, <2>6
      <4> HIDE DEF Segments
      <4>5. Pk(Segment(s, first + i - 1), t, p)
        BY <1>0, <2>0, <2>1, <2>3, <4>3, <4>4 DEF Pk, Segment
      <4> QED
        BY <4>2, <4>5
    <3>3. AllPk(Segments(s, first), t, p)
      BY <3>2 DEF AllPk
    <3> QED
      BY <1>0, <2>0, <3>1, <3>3, AllPkConcat
  <2>15. NoSyn(t.out)
    <3>1. NoSyn(s.out)
      BY <2>1 DEF Pair
    <3>2. ASSUME NEW i \in 1..Len(Segments(s, first)) PROVE Segments(s, first)[i].type # "SYN"
      <4>1. Len(Segments(s, first)) = s.tail - first /\ i \in 1..(s.tail - first)
        BY <1>0, <1>2 DEF Segments
      <4> QED
        BY <4>1 DEF Segments, Segment
    <3>3. NoSyn(Segments(s, first))
      BY <3>2 DEF NoSyn
    <3> QED
      BY <1>0, <2>0, <3>1, <3>3, NoSynConcat
  <2>14. Told(s) => Told(t)
    BY <2>0, <2>5 DEF Told, Finished
  <2> QED
    BY <1>0, <2>0, <2>4, <2>5, <2>8, <2>9, <2>10, <2>11, <2>12, <2>13, <2>14, <2>15
       DEF Moves, Pair, Joined
<1> QED
  BY <1>0, <1>1, <1>2

-----------------------------------------------------------------------------
(* Acknowledgments.                                                        *)

\* The socket after the acknowledgment of a packet is processed (ReceivedAck).
AfterAck(s, ack) ==
    CASE ack > s.head -> NewAck(s, ack)
      [] ack = s.head /\ ack > s.high -> [s EXCEPT !.nextTx = ack]
      [] OTHER -> s

\* What it leaves alone.
AckTaken(s, t) ==
    /\ t.high = s.high /\ t.st = s.st /\ t.up = s.up /\ t.shut = s.shut
    /\ t.rcv = s.rcv /\ t.held = s.held /\ t.fin = s.fin

LEMMA NewAckFields ==
    ASSUME NEW s \in Socket, NEW ack \in Nat, NEW t, t = NewAck(s, ack)
    PROVE  /\ t \in Socket /\ AckTaken(s, t) /\ t.out = s.out
           /\ t.head = ack /\ t.tail = Larger(s.tail, ack) /\ t.nextTx = Larger(s.nextTx, ack)
           /\ t.retx.kind \in {"none", "RTO"}
<1> DEFINE retx == IF ack >= s.tail /\ s.st \notin {"FIN_WAIT_1", "CLOSING"}
                   THEN NoTimer ELSE DataTimer
           tail == Larger(s.tail, ack)
           nextTx == Larger(s.nextTx, ack)
<1>1. t = [s EXCEPT !.head = ack, !.tail = tail, !.nextTx = nextTx,
                    !.retr = DataRetries, !.retx = retx]
  BY DEF NewAck
<1>2. tail \in Nat /\ nextTx \in Nat /\ DataRetries \in 0..DataRetries
  BY CountAssumption DEF Socket, Larger
<1>3. retx \in [kind : TimerKind, bits : Load] /\ retx.kind \in {"none", "RTO"}
  BY DEF NoTimer, DataTimer, TimerKind, Load
<1> HIDE DEF retx, tail, nextTx
<1>4. t \in Socket
  BY <1>1, <1>2, <1>3, ZenonT(60) DEF Socket
<1>5. /\ AckTaken(s, t) /\ t.out = s.out
      /\ t.head = ack /\ t.tail = tail /\ t.nextTx = nextTx /\ t.retx = retx
  BY <1>1 DEF Socket, AckTaken
<1> QED
  BY <1>3, <1>4, <1>5 DEF tail, nextTx

LEMMA MovesAckTaken ==
    ASSUME NEW s, NEW p, Pair(s, p), s.up, s.head # 0,
           NEW ack \in Nat, ack <= p.rcv, NEW t, t = AfterAck(s, ack)
    PROVE  /\ Moves(s, t, p) /\ AckTaken(s, t)
           /\ t.head >= ack
           /\ t = s \/ (t.head = ack /\ t.retx.kind # "FIN_ACK")
<1>0. /\ s \in Socket /\ p \in Socket /\ Joined(s, p) /\ s.out \in Seq(Packet)
      /\ s.rcv \in Nat /\ s.high \in Nat /\ s.head \in Nat /\ s.tail \in Nat /\ s.nextTx \in Nat
      /\ p.rcv \in Nat /\ p.fin \in Nat
  BY DEF Pair, Joined, Socket
<1>4. Moves(s, s, p) /\ AckTaken(s, s)
  BY MovesSelf DEF AckTaken
<1>1. CASE ack > s.head
  <2>1. t = NewAck(s, ack)
    BY <1>1 DEF AfterAck
  <2>2. /\ t \in Socket /\ AckTaken(s, t) /\ t.out = s.out
        /\ t.head = ack /\ t.tail = Larger(s.tail, ack) /\ t.nextTx = Larger(s.nextTx, ack)
        /\ t.retx.kind \in {"none", "RTO"}
    BY <1>0, <2>1, NewAckFields
  <2>3. ack <= Bound(s)
    BY <1>0 DEF Joined, Flow, Bound
  <2>4. ~Acked(s) /\ s.head <= s.high /\ s.nextTx = s.high /\ s.high <= s.tail /\ s.high >= 1
    BY <1>0, <1>1, <2>3 DEF Joined, Own, Connection, Acked, Bound
  <2>5. ~Open(s) => s.tail = s.high /\ FinSent(s)
    BY <1>0, <2>4 DEF Joined, Own, Connection, FinSent
  <2>6. \/ ack <= s.high /\ t.tail = s.tail /\ t.nextTx = s.high
        \/ ack = s.high + 1 /\ ~Open(s) /\ t.tail = ack /\ t.nextTx = ack
    BY <1>0, <2>2, <2>3, <2>4, <2>5 DEF Bound, Larger
  <2>7. ack = s.high + 1 => Acked(t)
    BY <1>0, <2>2, <2>6 DEF Acked, AckTaken, Open
  <2>8. Open(t) <=> Open(s)
    BY <2>2 DEF Open, AckTaken
  <2>9. ~Open(s) => FinSent(t)
    BY <1>0, <1>1, <2>2, <2>5, <2>6, <2>7, <2>8 DEF FinSent, AckTaken
  <2>10. Later(s, t)
    BY <1>0, <1>1, <2>2, <2>8, <2>9 DEF Later, AckTaken, FinSent, Past
  <2>11. Own(t)
    <3>1. Connection(t)
      BY <1>0, <2>2, <2>4, <2>6, <2>7, <2>8, <2>9 DEF Joined, Own, Connection, AckTaken
    <3>2. t.st # "FIN_WAIT_2"
      BY <1>0, <2>2, <2>4 DEF Joined, Own, AckTaken
    <3>3. t.tail <= Data + 1 \/ Acked(t)
      BY <1>0, <2>4, <2>6, <2>7 DEF Joined, Own
    <3> QED
      BY <1>0, <1>1, <2>2, <3>1, <3>2, <3>3 DEF Joined, Own, AckTaken
  <2>12. Flow(t, p)
    <3>1. Bound(t) = Bound(s)
      BY <2>2, <2>8 DEF Bound, AckTaken
    <3> QED
      BY <1>0, <2>2, <2>10, <3>1 DEF Joined, Flow, Later, AckTaken
  <2>13. Flow(p, t)
    BY <1>0, <2>2 DEF Joined, Flow, AckTaken
  <2>14. Keeps(s, t)
    <3>1. Quiet(s) => Quiet(t)
      BY <1>0, <1>1, <2>2 DEF Quiet, AckTaken, Larger
    <3> QED
      BY <1>0, <1>1, <2>2, <3>1 DEF Keeps, AckTaken, Joined, Own, Connection
  <2>15. AllPk(t.out, t, p)
    BY <1>0, <2>2, <2>10, AllPkLater, LaterSame DEF Pair
  <2>16. NoSyn(t.out)
    BY <2>2 DEF Pair
  <2> QED
    BY <1>0, <2>2, <2>10, <2>11, <2>12, <2>13, <2>14, <2>15, <2>16 DEF Moves, Pair, Joined
<1>2. CASE ack = s.head /\ ack > s.high
  <2>1. t = [s EXCEPT !.nextTx = ack]
    BY <1>0, <1>2 DEF AfterAck
  <2>2. s.nextTx = ack
    BY <1>0, <1>2 DEF Joined, Own, Connection, Acked
  <2>3. t = s
    BY <1>0, <2>1, <2>2 DEF Socket
  <2> QED
    BY <1>0, <1>2, <1>4, <2>3
<1>3. CASE ~(ack > s.head) /\ ~(ack = s.head /\ ack > s.high)
  <2>1. t = s
    BY <1>3 DEF AfterAck
  <2> QED
    BY <1>0, <1>3, <1>4, <2>1
<1> QED
  BY <1>1, <1>2, <1>3

-----------------------------------------------------------------------------
(* Received data.                                                          *)

\* The first number from r on that is missing in a finite set.
FirstGap(all, r) ==
    CHOOSE q \in r..(r + Data + 1) : q \notin all /\ (r..(q - 1)) \subseteq all

LEMMA FirstGapFound ==
    ASSUME NEW all \in SUBSET Nat, NEW r \in Nat, NEW hi \in Nat,
           \A q \in all : q < hi, r <= hi, hi <= r + Data + 1
    PROVE  /\ FirstGap(all, r) \in r..hi /\ FirstGap(all, r) \notin all
           /\ (r..(FirstGap(all, r) - 1)) \subseteq all
<1> DEFINE T == {q \in Nat : r <= q /\ q \notin all}
           gap(q) == q \notin all /\ (r..(q - 1)) \subseteq all
<1>1. hi \in T
  OBVIOUS
<1>2. PICK q \in T : \A z \in T : <<z, q>> \notin OpToRel(<, Nat)
  BY <1>1, NatLessThanWellFounded, WFMin
<1>3. (r..(q - 1)) \subseteq all
  <2> SUFFICES ASSUME NEW z \in r..(q - 1), z \notin all PROVE FALSE
    OBVIOUS
  <2>1. z \in T /\ z \in Nat /\ q \in Nat /\ z < q
    OBVIOUS
  <2>2. <<z, q>> \in OpToRel(<, Nat)
    BY <2>1 DEF OpToRel
  <2> QED
    BY <1>2, <2>1, <2>2
<1>4. q <= hi
  <2> SUFFICES ASSUME q > hi PROVE FALSE
    BY <1>1
  <2>1. hi \in r..(q - 1)
    BY <1>1
  <2> QED
    BY <1>3, <2>1
<1>5. q \in r..(r + Data + 1) /\ gap(q)
  BY <1>3, <1>4, CountAssumption
<1> HIDE DEF gap
<1>6. \E x \in r..(r + Data + 1) : gap(x)
  BY <1>5
<1>7. FirstGap(all, r) \in r..(r + Data + 1) /\ gap(FirstGap(all, r))
  BY <1>6 DEF FirstGap, gap
<1>8. FirstGap(all, r) <= hi
  <2> SUFFICES ASSUME FirstGap(all, r) > hi PROVE FALSE
    BY <1>7, CountAssumption
  <2>1. hi \in r..(FirstGap(all, r) - 1)
    BY <1>7, CountAssumption
  <2> QED
    BY <1>7, <2>1 DEF gap
<1> QED
  BY <1>7, <1>8, CountAssumption DEF gap

\* What a segment of data leaves alone.
DataTaken(s, t) ==
    /\ t.nextTx = s.nextTx /\ t.high = s.high /\ t.head = s.head /\ t.tail = s.tail
    /\ t.fin = s.fin /\ t.shut = s.shut /\ t.up = s.up

\* What it changes, next being the first number that is still missing.
Added(s, t, seq, next) ==
    /\ t \in Socket /\ DataTaken(s, t) /\ t.out = s.out /\ t.st = s.st /\ t.retx = s.retx
    /\ t.held = {q \in s.held \cup {seq} : q >= next}
    /\ t.rcv = IF s.fin # 0 /\ next = s.fin THEN next + 1 ELSE next

LEMMA AddFields ==
    ASSUME NEW s \in Socket, NEW m \in Packet, NEW next \in Nat,
           next = FirstGap(s.held \cup {m.seq}, s.rcv),
           NEW t, t = AddSegment(s, m)
    PROVE  Added(s, t, m.seq, next)
<1> DEFINE all == s.held \cup {m.seq}
           held == {q \in all : q >= next}
           rcv == IF s.fin # 0 /\ next = s.fin THEN next + 1 ELSE next
<1>1. t = [s EXCEPT !.held = held, !.rcv = rcv]
  BY DEF AddSegment, FirstGap
<1>2. held \in SUBSET Nat /\ rcv \in Nat
  BY DEF Socket, Packet
<1> HIDE DEF held, rcv
<1>3. t \in Socket
  BY <1>1, <1>2 DEF Socket
<1>4. /\ DataTaken(s, t) /\ t.out = s.out /\ t.st = s.st /\ t.retx = s.retx
      /\ t.held = held /\ t.rcv = rcv
  BY <1>1 DEF Socket, DataTaken
<1> QED
  BY <1>3, <1>4 DEF held, rcv, Added

LEMMA MovesAdd ==
    ASSUME NEW s, NEW p, Pair(s, p), NEW m \in Packet, m.len = 1, Pk(m, p, s), s.head # 0,
           m.seq >= s.rcv, m.seq \notin s.held,
           NEW t, t = AddSegment(s, m)
    PROVE  /\ Moves(s, t, p) /\ DataTaken(s, t) /\ t.st = s.st /\ t.retx = s.retx
           /\ m.seq = s.rcv => t.rcv > s.rcv
           /\ t.fin # 0 => t.rcv # t.fin
<1>0. /\ s \in Socket /\ p \in Socket /\ Joined(s, p) /\ s.out \in Seq(Packet)
      /\ s.rcv \in Nat /\ s.high \in Nat /\ s.head \in Nat /\ s.fin \in Nat /\ s.held \in SUBSET Nat
      /\ p.rcv \in Nat /\ p.high \in Nat /\ p.head \in Nat /\ p.tail \in Nat /\ m.seq \in Nat
  BY DEF Pair, Joined, Socket, Packet
<1> DEFINE all == s.held \cup {m.seq}
           next == FirstGap(all, s.rcv)
<1>1. m.seq < p.high /\ p.head # 0
  BY DEF Pk
<1>2. ~Acked(p) /\ p.high <= Data + 1
  BY <1>0, <1>1, CountAssumption DEF Joined, Flow, Own, Connection, Acked
<1>3. all \in SUBSET Nat /\ \A q \in all : q < p.high
  BY <1>0, <1>1 DEF Joined, Flow
<1>4. s.rcv >= 1 /\ s.rcv < p.high
  BY <1>0, <1>1 DEF Joined, Own, Connection
<1>5. next \in s.rcv..p.high /\ next \notin all /\ (s.rcv..(next - 1)) \subseteq all
  <2>1. p.high <= s.rcv + Data + 1 /\ s.rcv <= p.high
    BY <1>0, <1>2, <1>4, CountAssumption
  <2> HIDE DEF all
  <2> QED
    BY <1>0, <1>3, <2>1, FirstGapFound
<1>6. next \in Nat
  BY <1>0, <1>5
<1>7. /\ t \in Socket /\ DataTaken(s, t) /\ t.out = s.out /\ t.st = s.st /\ t.retx = s.retx
      /\ t.held = {q \in all : q >= next}
      /\ t.rcv = IF s.fin # 0 /\ next = s.fin THEN next + 1 ELSE next
  <2>1. next = FirstGap(s.held \cup {m.seq}, s.rcv)
    OBVIOUS
  <2> HIDE DEF next
  <2>2. Added(s, t, m.seq, next)
    BY <1>0, <1>6, <2>1, AddFields
  <2> QED
    BY <2>2 DEF Added
<1> HIDE DEF next
<1>8. s.fin # 0 => FinSent(p) /\ s.fin \in {p.high, p.high - 1}
  BY <1>0 DEF Joined, Flow
<1>9. t.rcv \in Nat /\ s.rcv <= t.rcv
  BY <1>0, <1>5, <1>7
<1>10. Later(s, t)
  BY <1>0, <1>7, <1>9 DEF Later, DataTaken, FinSent, Acked, Open, Past
<1>11. Own(t)
  <2>1. ASSUME NEW q \in t.held PROVE q > t.rcv
    <3>1. q \in all /\ q >= next /\ q # next /\ q \in Nat /\ q < p.high
      BY <1>3, <1>5, <1>7
    <3>2. q > next
      BY <1>6, <3>1
    <3>3. CASE s.fin # 0 /\ next = s.fin
      BY <1>0, <1>6, <1>8, <3>1, <3>2, <3>3
    <3>4. CASE ~(s.fin # 0 /\ next = s.fin)
      BY <1>7, <3>2, <3>4
    <3> QED
      BY <3>3, <3>4
  <2>2. Connection(t)
    BY <1>0, <1>4, <1>7, <1>9 DEF Joined, Own, Connection, DataTaken, FinSent, Acked, Open
  <2> QED
    BY <1>0, <1>7, <2>1, <2>2 DEF Joined, Own, DataTaken, Acked, Open
<1>12. Flow(t, p)
  BY <1>0, <1>7, <1>10 DEF Joined, Flow, DataTaken, Bound, Open, Later
<1>13. Flow(p, t)
  <2>1. t.rcv <= Bound(p)
    BY <1>0, <1>5, <1>7, <1>8 DEF Bound, FinSent
  <2>2. t.rcv > p.high => t.fin # 0
    BY <1>0, <1>5, <1>7 DEF DataTaken
  <2>3. \A q \in t.held : q < p.high
    BY <1>3, <1>7
  <2> QED
    BY <1>0, <1>7, <1>8, <1>9, <2>1, <2>2, <2>3 DEF Joined, Flow, DataTaken
<1>14. Keeps(s, t)
  BY <1>0, <1>7 DEF Keeps, DataTaken, Quiet
<1>15. AllPk(t.out, t, p)
  BY <1>0, <1>7, <1>10, AllPkLater, LaterSame DEF Pair
<1>16. NoSyn(t.out)
  BY <1>7 DEF Pair
<1>17. m.seq = s.rcv => t.rcv > s.rcv
  BY <1>0, <1>5, <1>7
<1>18. t.fin # 0 => t.rcv # t.fin
  BY <1>0, <1>6, <1>7 DEF DataTaken
<1> QED
  BY <1>0, <1>7, <1>10, <1>11, <1>12, <1>13, <1>14, <1>15, <1>16, <1>17, <1>18
     DEF Moves, Pair, Joined

\* Only the client sends data, and only the server has shut its sending side down.
OneWay(s, p) == IF s.shut THEN Quiet(s) ELSE Quiet(p)

LEMMA MovesData ==
    ASSUME NEW s, NEW p, Pair(s, p), NEW m \in Packet, Pk(m, p, s), Told(p), s.head # 0,
           OneWay(s, p), NEW t, t = ReceivedData(s, m)
    PROVE  /\ Moves(s, t, p) /\ DataTaken(s, t)
           /\ m.type # "FIN_ACK" /\ Told(s) => Told(t)
           /\ \/ t.st = s.st /\ t.retx.kind = s.retx.kind
              \/ t.st = "LAST_ACK" /\ s.shut /\ Settled(t, p) /\ m.type # "FIN_ACK"
           /\ m.len = 0 => t = s
           /\ m.len = 1 /\ m.seq = s.rcv => t.rcv > s.rcv /\ (t.fin # 0 => t.rcv # t.fin)
<1>0. /\ s \in Socket /\ p \in Socket /\ Joined(s, p) /\ m.len \in 0..1
      /\ s.rcv \in Nat /\ m.seq \in Nat /\ p.high \in Nat
  BY DEF Pair, Joined, Socket, Packet
<1>1. m.len = 1 => s.shut /\ Quiet(s)
  BY <1>0 DEF OneWay, Quiet, Pk
<1>2. m.seq = s.rcv => m.seq \notin s.held
  BY <1>0 DEF Joined, Own
<1>3. CASE m.len = 0
  <2>1. t = s
    BY <1>3 DEF ReceivedData
  <2>2. Moves(s, s, p) /\ DataTaken(s, s)
    BY MovesSelf DEF DataTaken
  <2> QED
    BY <1>3, <2>1, <2>2
<1>4. CASE m.len = 1 /\ (m.seq < s.rcv \/ m.seq \in s.held)
  <2>1. t = SendAck(s)
    BY <1>4 DEF ReceivedData
  <2>2. Moves(s, t, p) /\ Unmoved(s, t) /\ t.up = s.up
    BY <2>1, MovesAck
  <2> QED
    BY <1>0, <1>2, <1>4, <2>2 DEF Unmoved, SameCore, DataTaken, Told, Finished
<1>5. CASE m.len = 1 /\ ~(m.seq < s.rcv \/ m.seq \in s.held)
  <2> DEFINE a == AddSegment(s, m)
  <2>1. /\ Moves(s, a, p) /\ DataTaken(s, a) /\ a.st = s.st /\ a.retx = s.retx
        /\ m.seq = s.rcv => a.rcv > s.rcv
        /\ a.fin # 0 => a.rcv # a.fin
    BY <1>0, <1>5, MovesAdd
  <2>2. Pair(a, p) /\ a \in Socket /\ a.head # 0 /\ a.shut /\ Quiet(a) /\ a.rcv \in Nat
    BY <1>0, <1>1, <1>5, <2>1 DEF Moves, Pair, Joined, DataTaken, Keeps, Socket
  <2>3. t = IF a.rcv > s.rcv /\ Finished(a) /\ m.type # "FIN_ACK" THEN DoPeerClose(a) ELSE SendAck(a)
    BY <1>0, <1>5 DEF ReceivedData
  <2> HIDE DEF a
  <2>4. CASE a.rcv > s.rcv /\ Finished(a) /\ m.type # "FIN_ACK"
    <3>1. /\ Moves(a, t, p) /\ Settled(t, p) /\ SameCore(a, t)
          /\ t.st = "LAST_ACK" /\ t.up = a.up
      BY <2>2, <2>3, <2>4, MovesPeerClose
    <3>2. t \in Socket
      BY <3>1 DEF Moves, Pair, Joined
    <3>3. Moves(s, t, p)
      BY <1>0, <2>1, <2>2, <3>1, <3>2, MovesTwice
    <3>4. DataTaken(s, t) /\ t.rcv = a.rcv /\ t.fin = a.fin
      BY <2>1, <3>1 DEF DataTaken, SameCore
    <3> QED
      BY <1>1, <1>5, <2>1, <2>4, <3>1, <3>3, <3>4 DEF Settled
  <2>5. CASE ~(a.rcv > s.rcv /\ Finished(a) /\ m.type # "FIN_ACK")
    <3>0. t = SendAck(a)
      BY <2>3, <2>5
    <3>1. Moves(a, t, p) /\ Unmoved(a, t) /\ t.up = a.up
      BY <2>2, <3>0, MovesAck
    <3>2. t \in Socket
      BY <3>1 DEF Moves, Pair, Joined
    <3>3. Moves(s, t, p)
      BY <1>0, <2>1, <2>2, <3>1, <3>2, MovesTwice
    <3>4. DataTaken(s, t) /\ t.rcv = a.rcv /\ t.fin = a.fin /\ t.st = s.st /\ t.retx.kind = s.retx.kind
      BY <2>1, <3>1 DEF DataTaken, SameCore, Unmoved
    <3>5. m.type # "FIN_ACK" /\ Told(s) => Told(t)
      <4>1. a.rcv >= s.rcv /\ a.fin = s.fin
        BY <2>1 DEF Moves, Later, DataTaken
      <4>2. m.type # "FIN_ACK" /\ Finished(a) => Finished(s)
        BY <1>0, <2>2, <2>5, <4>1 DEF Finished
      <4> QED
        BY <3>4, <4>2 DEF Told, Finished
    <3> QED
      BY <1>5, <2>1, <3>3, <3>4, <3>5
  <2> QED
    BY <2>4, <2>5
<1> QED
  BY <1>0, <1>3, <1>4, <1>5

LEMMA MovesReceivedAck ==
    ASSUME NEW s, NEW p, Pair(s, p), s.up, s.head # 0,
           s.st \in {"ESTABLISHED", "CLOSE_WAIT", "FIN_WAIT_1", "FIN_WAIT_2"},
           NEW m \in Packet, m.type \in {"ACK", "FIN_ACK"}, Pk(m, p, s),
           Settled(s, p), Told(p), OneWay(s, p), NEW t, t = ReceivedAck(s, m)
    PROVE  /\ Moves(s, t, p) /\ t.fin = s.fin /\ t.up = s.up
           /\ t.head >= m.ack
           /\ m.type = "ACK" => Told(t)
           /\ \/ Waits(t, p)
              \/ s.st = "FIN_WAIT_1" /\ t.st = "FIN_WAIT_1" /\ t.head = m.ack /\ t.retx.kind # "FIN_ACK"
           /\ s.shut => t.st \in {s.st, "LAST_ACK"}
           /\ t.st # s.st => t.st = "LAST_ACK" \/ (s.st = "ESTABLISHED" /\ t.st = "FIN_WAIT_1")
<1> DEFINE a == AfterAck(s, m.ack)
           d == ReceivedData(a, m)
<1>0. /\ s \in Socket /\ p \in Socket /\ Joined(s, p) /\ m.ack \in Nat /\ m.ack <= p.rcv
      /\ s.head \in Nat
  BY DEF Pair, Joined, Socket, Packet, Pk
<1>1. /\ Moves(s, a, p) /\ AckTaken(s, a) /\ a.head >= m.ack
      /\ a = s \/ (a.head = m.ack /\ a.retx.kind # "FIN_ACK")
  BY <1>0, MovesAckTaken
<1>2. t = IF m.ack < s.head THEN d ELSE SendPending(d)
  <2>1. CASE m.ack < s.head
    <3>1. a = s
      BY <1>0, <2>1 DEF AfterAck
    <3> QED
      BY <2>1, <3>1 DEF ReceivedAck
  <2>2. CASE ~(m.ack < s.head)
    BY <2>2 DEF ReceivedAck, AfterAck
  <2> QED
    BY <2>1, <2>2
<1> HIDE DEF a
<1>3. /\ Pair(a, p) /\ a \in Socket /\ a.head # 0 /\ OneWay(a, p) /\ a.shut = s.shut
      /\ a.rcv = s.rcv /\ a.fin = s.fin /\ a.st = s.st /\ a.up = s.up
  BY <1>1 DEF Moves, Pair, Joined, Later, Keeps, OneWay, AckTaken
<1>4. Pk(m, p, a)
  BY <1>0, <1>1, <1>3, PkLater, LaterSame DEF Moves
<1>5. Told(s) => Told(a)
  BY <1>3 DEF Told, Finished
<1>6. /\ Moves(a, d, p) /\ DataTaken(a, d)
      /\ m.type # "FIN_ACK" /\ Told(a) => Told(d)
      /\ \/ d.st = a.st /\ d.retx.kind = a.retx.kind
         \/ d.st = "LAST_ACK" /\ a.shut /\ Settled(d, p) /\ m.type # "FIN_ACK"
  BY <1>3, <1>4, MovesData
<1> HIDE DEF d
<1>7. /\ Pair(d, p) /\ d \in Socket /\ d.shut = s.shut /\ d.head = a.head /\ d.fin = s.fin /\ d.up = s.up
      /\ s.shut => Quiet(d)
      /\ d.high \in Nat /\ d.head \in Nat
  BY <1>3, <1>6 DEF Moves, Pair, Joined, Keeps, OneWay, DataTaken, Socket
<1>8. Moves(s, d, p)
  BY <1>0, <1>1, <1>3, <1>6, <1>7, MovesTwice
<1>9. \/ Waits(d, p)
      \/ s.st = "FIN_WAIT_1" /\ d.st = "FIN_WAIT_1" /\ d.head = m.ack /\ d.retx.kind # "FIN_ACK"
  <2>1. CASE Settled(d, p)
    BY <2>1 DEF Settled
  <2>2. CASE d.st = a.st /\ d.retx.kind = a.retx.kind /\ a = s
    BY <1>6, <2>2 DEF Settled, Waits, Acked, Open, DataTaken
  <2>3. CASE d.st = a.st /\ d.retx.kind = a.retx.kind /\ a # s
    BY <1>1, <1>3, <1>7, <2>3 DEF Waits, Acked, Open
  <2> QED
    BY <1>6, <2>1, <2>2, <2>3
<1>10. CASE t = d
  BY <1>1, <1>3, <1>5, <1>6, <1>7, <1>8, <1>9, <1>10 DEF Settled
<1>11. CASE t = SendPending(d) /\ t # d
  <2> DEFINE first == Larger(d.high, d.head)
  <2>1. first \in Nat /\ d.head <= first
    BY <1>7 DEF Larger
  <2>2. t = SendData(d, first)
    BY <1>11 DEF SendPending
  <2> HIDE DEF first
  <2>3. /\ Moves(d, t, p) /\ t.head = d.head /\ t.up = d.up /\ t.fin = d.fin
        /\ Told(d) => Told(t)
        /\ ~Acked(t) /\ ~Quiet(d)
        /\ \/ t.st = d.st
           \/ d.st = "ESTABLISHED" /\ t.st = "FIN_WAIT_1"
           \/ d.st = "CLOSE_WAIT" /\ t.st = "LAST_ACK"
    <3>1. Pair(d, p) /\ t # d
      BY <1>7, <1>11
    <3> HIDE <1>1, <1>3, <1>6, <1>8, <1>9, <1>10, <1>11
    <3> QED
      BY <2>1, <2>2, <3>1, MovesSend
  <2>4. t \in Socket
    BY <2>3 DEF Moves, Pair, Joined
  <2>5. Moves(s, t, p)
    BY <1>0, <1>7, <1>8, <2>3, <2>4, MovesTwice
  <2>6. Waits(t, p)
    BY <2>3 DEF Waits
  <2>7. d.st = s.st \/ d.st = "LAST_ACK"
    BY <1>3, <1>6
  <2> QED
    BY <1>1, <1>5, <1>6, <1>7, <2>3, <2>5, <2>6, <2>7 DEF Settled
<1> QED
  BY <1>2, <1>10, <1>11

-----------------------------------------------------------------------------
(* The FIN of the peer.                                                    *)

\* What it leaves alone.
FinNoted(s, t) ==
    /\ t.nextTx = s.nextTx /\ t.high = s.high /\ t.head = s.head /\ t.tail = s.tail
    /\ t.held = s.held /\ t.shut = s.shut /\ t.st = s.st /\ t.up = s.up
    /\ t.retx = s.retx /\ t.out = s.out

\* The number that the FIN is taken to have is the right one, or that of the data it
\* comes with.
LEMMA MovesSetFin ==
    ASSUME NEW s, NEW p, Pair(s, p), s.head # 0, FinSent(p),
           NEW q \in Nat \ {0}, q \in {p.high, p.high - 1}, NEW t, t = SetFinSequence(s, q)
    PROVE  /\ Moves(s, t, p) /\ FinNoted(s, t) /\ t.fin = q
           /\ t.rcv = IF s.rcv = q THEN q + 1 ELSE s.rcv
<1>0. /\ s \in Socket /\ p \in Socket /\ Joined(s, p) /\ s.out \in Seq(Packet)
      /\ s.rcv \in Nat /\ s.high \in Nat /\ s.head \in Nat /\ s.held \in SUBSET Nat
      /\ p.rcv \in Nat /\ p.high \in Nat /\ p.head \in Nat /\ q \in Nat
  BY DEF Pair, Joined, Socket
<1> DEFINE rcv == IF s.rcv = q THEN q + 1 ELSE s.rcv
<1>1. rcv \in Nat /\ s.rcv <= rcv /\ (rcv = s.rcv \/ (s.rcv = q /\ rcv = q + 1))
  BY <1>0
<1>2. t = [s EXCEPT !.fin = q, !.rcv = rcv]
  BY DEF SetFinSequence
<1> HIDE DEF rcv
<1>3. t \in Socket
  BY <1>0, <1>1, <1>2 DEF Socket
<1>4. FinNoted(s, t) /\ t.fin = q /\ t.rcv = rcv
  BY <1>2 DEF Socket, FinNoted
<1>5. Later(s, t)
  BY <1>0, <1>1, <1>4 DEF Later, FinNoted, FinSent, Acked, Open, Past
<1>6. Own(t)
  <2>1. ASSUME NEW z \in t.held PROVE z > t.rcv
    <3>1. z \in Nat /\ z > s.rcv /\ z < p.high
      BY <1>0, <1>4 DEF Joined, Own, Flow, FinNoted
    <3> QED
      BY <1>0, <1>1, <1>4, <3>1
  <2>2. Connection(t)
    BY <1>0, <1>1, <1>4 DEF Joined, Own, Connection, FinNoted, FinSent, Acked, Open
  <2> QED
    BY <1>0, <1>4, <2>1, <2>2 DEF Joined, Own, FinNoted, Acked, Open
<1>7. Flow(t, p)
  BY <1>0, <1>4, <1>5 DEF Joined, Flow, FinNoted, Bound, Open, Later
<1>8. Flow(p, t)
  <2>1. t.rcv <= Bound(p)
    BY <1>0, <1>1, <1>4 DEF Joined, Flow, Bound, FinSent
  <2>2. p.head <= t.rcv
    BY <1>0, <1>1, <1>4 DEF Joined, Flow
  <2>3. \A z \in t.held : z < p.high
    BY <1>0, <1>4 DEF Joined, Flow, FinNoted
  <2> QED
    BY <1>0, <1>4, <2>1, <2>2, <2>3 DEF Flow
<1>9. Keeps(s, t)
  BY <1>0, <1>4 DEF Keeps, FinNoted, Quiet
<1>10. AllPk(t.out, t, p)
  BY <1>0, <1>3, <1>4, <1>5, AllPkLater, LaterSame DEF Pair, FinNoted
<1>11. NoSyn(t.out)
  BY <1>4 DEF Pair, FinNoted
<1> QED
  BY <1>0, <1>3, <1>4, <1>5, <1>6, <1>7, <1>8, <1>9, <1>10, <1>11 DEF Moves, Pair, Joined, rcv

\* Where the FIN of a packet belongs, seen by who may still take one.
LEMMA FinPlace ==
    ASSUME NEW p \in Socket, NEW s, NEW m \in Packet, Pk(m, p, s), m.type = "FIN_ACK", ~Past(s),
           Own(p)
    PROVE  /\ FinSent(p) /\ m.seq + m.len = p.high /\ m.seq + m.len \in Nat \ {0}
           /\ m.seq \in Nat \ {0} /\ m.seq \in {p.high, p.high - 1}
<1>1. p.high \in Nat /\ m.seq \in Nat /\ m.len \in 0..1
  BY DEF Socket, Packet
<1>2. FinSent(p) /\ m.seq + m.len = p.high
  BY DEF Pk
<1>3. p.high >= 1
  BY <1>1, <1>2 DEF FinSent, Own, Connection
<1>4. m.len = 1 => m.seq >= 1
  BY <1>1 DEF Pk
<1> QED
  BY <1>1, <1>2, <1>3, <1>4

\* A FIN and its data, before the end of the stream is looked at.
FinTakenIn(s, m) == ReceivedData(SetFinSequence(s, m.seq + m.len), m)

LEMMA MovesFinTakenIn ==
    ASSUME NEW s, NEW p, Pair(s, p), s.head # 0, ~Past(s),
           NEW m \in Packet, m.type = "FIN_ACK", Pk(m, p, s), Told(p), OneWay(s, p),
           NEW t, t = FinTakenIn(s, m)
    PROVE  /\ Moves(s, t, p) /\ t.st = s.st /\ t.fin = p.high /\ t.up = s.up
           /\ m.seq = s.rcv => Finished(t)
<1> DEFINE q == m.seq + m.len
           f == SetFinSequence(s, q)
<1>0. /\ s \in Socket /\ p \in Socket /\ Joined(s, p) /\ Own(p)
      /\ s.rcv \in Nat /\ m.seq \in Nat /\ m.len \in 0..1
  BY DEF Pair, Joined, Socket, Packet
<1>1. FinSent(p) /\ q = p.high /\ q \in Nat \ {0}
  BY <1>0, FinPlace
<1>2. t = ReceivedData(f, m)
  BY DEF FinTakenIn
<1>3. m.len = 0 => q = m.seq
  BY <1>0
<1>4. m.len # 0 => m.len = 1 /\ q = m.seq + 1
  BY <1>0
<1> HIDE DEF q
<1>5. /\ Moves(s, f, p) /\ FinNoted(s, f) /\ f.fin = q
      /\ f.rcv = IF s.rcv = q THEN q + 1 ELSE s.rcv
  BY <1>1, MovesSetFin
<1> HIDE DEF f
<1>6. Pair(f, p) /\ f \in Socket /\ f.head # 0 /\ OneWay(f, p)
  BY <1>5 DEF Moves, Pair, Joined, FinNoted, Keeps, OneWay
<1>7. Pk(m, p, f)
  BY <1>0, <1>5, <1>6, PkLater, LaterSame DEF Moves
<1>8. /\ Moves(f, t, p) /\ DataTaken(f, t) /\ t.st = f.st
      /\ m.len = 0 => t = f
      /\ m.len = 1 /\ m.seq = f.rcv => t.rcv > f.rcv /\ (t.fin # 0 => t.rcv # t.fin)
  BY <1>2, <1>6, <1>7, MovesData
<1>9. t \in Socket /\ t.rcv \in Nat
  BY <1>8 DEF Moves, Pair, Joined, Socket
<1>10. Moves(s, t, p)
  BY <1>0, <1>5, <1>6, <1>8, <1>9, MovesTwice
<1>11. m.seq = s.rcv => Finished(t)
  <2>1. CASE m.len = 0
    BY <1>0, <1>1, <1>3, <1>5, <1>8, <2>1 DEF Finished
  <2>2. CASE m.len # 0
    BY <1>0, <1>1, <1>4, <1>5, <1>8, <1>9, <2>2 DEF Finished, DataTaken
  <2> QED
    BY <2>1, <2>2
<1> QED
  BY <1>1, <1>5, <1>8, <1>10, <1>11 DEF FinNoted, DataTaken

LEMMA MovesPeerFin ==
    ASSUME NEW s, NEW p, Pair(s, p), s.st = "ESTABLISHED",
           NEW m \in Packet, m.type = "FIN_ACK", Pk(m, p, s), Settled(s, p), Told(p), OneWay(s, p),
           NEW t, t = PeerClose(s, m)
    PROVE  /\ Moves(s, t, p) /\ Settled(t, p) /\ t.up = s.up
           /\ t.st \in IF s.shut THEN {"ESTABLISHED", "LAST_ACK"} ELSE {"ESTABLISHED", "CLOSE_WAIT"}
           /\ t.fin = s.fin \/ t.fin = p.high
<1> DEFINE g == FinTakenIn(s, m)
<1>0. s \in Socket /\ p \in Socket /\ Joined(s, p) /\ s.head # 0 /\ ~Past(s)
  BY DEF Pair, Joined, Own, Unconnected, Past
<1>1. /\ Moves(s, g, p) /\ g.st = "ESTABLISHED" /\ g.fin = p.high /\ g.up = s.up
  BY <1>0, MovesFinTakenIn
<1>2. t = CASE m.seq < s.rcv \/ (s.fin # 0 /\ m.seq > s.fin) -> s
            [] Finished(g) /\ g.st = "FIN_WAIT_1" -> [g EXCEPT !.st = "CLOSING"]
            [] Finished(g) /\ g.st # "FIN_WAIT_1" -> DoPeerClose(g)
            [] OTHER -> g
  BY DEF PeerClose, FinTakenIn
<1> HIDE DEF g
<1>3. /\ Pair(g, p) /\ g \in Socket /\ g.head # 0 /\ g.shut = s.shut
      /\ IF g.shut THEN Quiet(g) ELSE g.st = "ESTABLISHED"
  BY <1>0, <1>1 DEF Moves, Pair, Joined, Later, Keeps, OneWay
<1>4. CASE t = s
  BY <1>4, MovesSelf
<1>5. CASE Finished(g) /\ t = DoPeerClose(g)
  <2>1. /\ Moves(g, t, p) /\ Settled(t, p) /\ SameCore(g, t) /\ t.up = g.up
        /\ t.st = IF g.shut THEN "LAST_ACK" ELSE "CLOSE_WAIT"
    BY <1>3, <1>5, MovesPeerClose
  <2>2. t \in Socket
    BY <2>1 DEF Moves, Pair, Joined
  <2>3. Moves(s, t, p)
    BY <1>0, <1>1, <1>3, <2>1, <2>2, MovesTwice
  <2> QED
    BY <1>1, <1>3, <2>1, <2>3 DEF SameCore
<1>6. CASE ~Finished(g) /\ t = g
  BY <1>1, <1>6 DEF Settled, Told, Waits, Acked, Open
<1>7. t = s \/ (Finished(g) /\ t = DoPeerClose(g)) \/ (~Finished(g) /\ t = g)
  BY <1>1, <1>2
<1> QED
  BY <1>4, <1>5, <1>6, <1>7

-----------------------------------------------------------------------------
(* What a whole handler does: it keeps the invariant, and a side that has  *)
(* not been closed puts the FIN where it belongs.                          *)

Handled(s, t, p) == Moves(s, t, p) /\ Settled(t, p) /\ Direct(s, t, p)

LEMMA HandledTwice ==
    ASSUME NEW s \in Socket, NEW t \in Socket, NEW u \in Socket, NEW p,
           Handled(s, t, p), Handled(t, u, p)
    PROVE  Handled(s, u, p)
<1>1. Moves(s, u, p)
  BY MovesTwice DEF Handled
<1> QED
  BY <1>1 DEF Handled, Direct, Moves, Keeps

LEMMA HandledSelf ==
    ASSUME NEW s, NEW p, Pair(s, p), Settled(s, p)
    PROVE  Handled(s, s, p)
BY MovesSelf DEF Handled, Direct

\* A change of flags, counters or timers, and a close.
LEMMA HandledSame ==
    ASSUME NEW s, NEW p, Pair(s, p), Settled(s, p), NEW t, Moves(s, t, p), SameCore(s, t),
           t.st = s.st, t.retx.kind \in {s.retx.kind, "none", "RTO"}
    PROVE  Handled(s, t, p)
<1>1. Settled(t, p)
  BY SettledSame
<1>2. Direct(s, t, p)
  BY DEF Direct, Straight, SameCore
<1> QED
  BY <1>1, <1>2 DEF Handled

LEMMA HandledClosed ==
    ASSUME NEW s, NEW p, Pair(s, p), NEW t, t = CloseAndNotify(s) \/ t = CloseAndNotify(SendRST(s))
    PROVE  Handled(s, t, p) /\ t.head = s.head
<1>0. s \in Socket
  BY DEF Pair, Joined
<1>1. Moves(s, t, p) /\ SameCore(s, t) /\ t.st = "CLOSED" /\ t.retx.kind = "none"
  <2>1. CASE t = CloseAndNotify(s)
    BY <2>1, MovesClosed
  <2>2. CASE t = CloseAndNotify(SendRST(s))
    <3> DEFINE u == SendRST(s)
    <3>1. Moves(s, u, p) /\ SameCore(s, u)
      BY MovesRST
    <3>2. Pair(u, p) /\ u \in Socket /\ t = CloseAndNotify(u)
      BY <2>2, <3>1 DEF Moves, Pair, Joined
    <3> HIDE DEF u
    <3>3. Moves(u, t, p) /\ SameCore(u, t) /\ t.st = "CLOSED" /\ t.retx.kind = "none"
      BY <3>2, MovesClosed
    <3>4. t \in Socket
      BY <3>3 DEF Moves, Pair, Joined
    <3>5. Moves(s, t, p)
      BY <1>0, <3>1, <3>2, <3>3, <3>4, MovesTwice
    <3> QED
      BY <3>1, <3>3, <3>5 DEF SameCore
  <2> QED
    BY <2>1, <2>2
<1>2. Settled(t, p) /\ Direct(s, t, p)
  BY <1>1 DEF Settled, Told, Waits, Direct, Straight, SameCore
<1> QED
  BY <1>1, <1>2 DEF Handled, SameCore

LEMMA HandledAck ==
    ASSUME NEW s, NEW p, Pair(s, p), Settled(s, p), s.head # 0, NEW t, t = SendAck(s)
    PROVE  Handled(s, t, p) /\ Unmoved(s, t)
<1>1. Moves(s, t, p) /\ Unmoved(s, t)
  BY MovesAck
<1> QED
  BY <1>1, HandledSame DEF Unmoved

\* The load of the path is stored.
LEMMA HandledLoad ==
    ASSUME NEW s, NEW p, Pair(s, p), Settled(s, p), NEW load \in Load,
           NEW t, t = [s EXCEPT !.load = load]
    PROVE  Handled(s, t, p) /\ Unmoved(s, t) /\ t.up = s.up /\ t.out = s.out
<1>0. s \in Socket
  BY DEF Pair, Joined
<1>1. t \in Socket
  BY <1>0 DEF Socket
<1>2. Unmoved(s, t) /\ t.up = s.up /\ t.out = s.out
  BY <1>0 DEF Socket, Unmoved, SameCore
<1>3. Moves(s, t, p)
  BY <1>1, <1>2, Silent DEF Unmoved, Turn, Rearm
<1> QED
  BY <1>2, <1>3, HandledSame DEF Unmoved

-----------------------------------------------------------------------------
(* The handshake.                                                          *)

\* The socket after the packet that completes the handshake.
Opened(s) == [Connected(s) EXCEPT !.st = "ESTABLISHED", !.rcv = 1]

LEMMA HandledOpened ==
    ASSUME NEW s, NEW p, Pair(s, p), s.head = 0, s.st \in {"SYN_SENT", "SYN_RCVD"},
           NoSyn(s.out), p.rcv >= 1, NEW t, t = Opened(s)
    PROVE  /\ Handled(s, t, p) /\ t.head = 1 /\ t.st = "ESTABLISHED" /\ t.rcv = 1 /\ t.fin = 0
           /\ t.up = s.up
<1>0. /\ s \in Socket /\ p \in Socket /\ Joined(s, p) /\ s.out \in Seq(Packet)
      /\ p.rcv \in Nat /\ p.head \in Nat /\ p.high \in Nat /\ p.fin \in Nat /\ s.rcv \in Nat
      /\ "ESTABLISHED" \in State
  BY DEF Pair, Joined, Socket, State
<1>1. Unconnected(s)
  BY <1>0 DEF Joined, Own
<1>2. NoTimer \in [kind : TimerKind, bits : Load] /\ NoTimer.kind = "none"
  BY DEF NoTimer, TimerKind, Load
<1> DEFINE u == [s EXCEPT !.retx = NoTimer, !.nextTx = 1, !.high = 1, !.head = 1, !.tail = 1]
<1>3. t = [u EXCEPT !.st = "ESTABLISHED", !.rcv = 1]
  BY <1>0, <1>1 DEF Opened, Connected, Unconnected, Socket
<1>14. u \in Socket
  BY <1>0, <1>2, ZenonT(60) DEF Socket
<1>15. /\ u.retx = NoTimer /\ u.nextTx = 1 /\ u.high = 1 /\ u.head = 1 /\ u.tail = 1
       /\ u.up = s.up /\ u.shut = s.shut /\ u.held = s.held /\ u.fin = s.fin /\ u.out = s.out
  BY <1>0 DEF Socket
<1> HIDE DEF u
<1>4. t \in Socket
  <2> DEFINE one == 1
  <2>1. one \in Nat /\ t = [u EXCEPT !.st = "ESTABLISHED", !.rcv = one]
    BY <1>3
  <2> HIDE DEF one
  <2> QED
    BY <1>0, <1>14, <2>1 DEF Socket
<1>5. /\ t.retx = NoTimer /\ t.nextTx = 1 /\ t.high = 1 /\ t.head = 1 /\ t.tail = 1
      /\ t.st = "ESTABLISHED" /\ t.rcv = 1 /\ t.up = s.up /\ t.shut = s.shut
      /\ t.held = {} /\ t.fin = 0 /\ t.out = s.out
  BY <1>1, <1>3, <1>14, <1>15 DEF Socket, Unconnected
<1>6. Later(s, t)
  BY <1>0, <1>1, <1>5 DEF Unconnected, Later, FinSent, Past
<1>7. Own(t)
  BY <1>2, <1>5, CountAssumption DEF Own, Connection, Open
<1>8. Flow(t, p)
  <2>1. p.rcv <= 1 /\ p.fin = 0 /\ (\A q \in p.held : q < 0)
    BY <1>0, <1>1 DEF Joined, Flow, Unconnected, Bound, Open, FinSent
  <2>2. p.held \in SUBSET Nat
    BY <1>0 DEF Socket
  <2> QED
    BY <1>0, <1>5, <2>1, <2>2 DEF Flow, Bound, Open
<1>9. Flow(p, t)
  <2>1. p.head <= 1 /\ p.held = p.held
    BY <1>0, <1>1 DEF Joined, Flow, Unconnected
  <2>2. 1 <= Bound(p)
    BY <1>0 DEF Joined, Own, Unconnected, Connection, Bound, Open
  <2> QED
    BY <1>5, <2>1, <2>2 DEF Flow
<1>10. Keeps(s, t)
  BY <1>2, <1>5 DEF Keeps, Quiet
<1>11. AllPk(t.out, t, p)
  BY <1>0, <1>4, <1>5, <1>6, AllPkLater, LaterSame DEF Pair
<1>12. Settled(t, p) /\ Direct(s, t, p)
  BY <1>5 DEF Settled, Told, Finished, Waits, Acked, Open, Direct, Straight
<1>13. Moves(s, t, p)
  BY <1>0, <1>4, <1>5, <1>6, <1>7, <1>8, <1>9, <1>10, <1>11 DEF Moves, Pair, Joined
<1> QED
  BY <1>5, <1>12, <1>13 DEF Handled

LEMMA HandledSendPending ==
    ASSUME NEW s, NEW p, Pair(s, p), Settled(s, p), s.shut => Quiet(s),
           NEW t, t = SendPending(s)
    PROVE  Handled(s, t, p) /\ t.head = s.head
<1> DEFINE first == Larger(s.high, s.head)
<1>0. s.high \in Nat /\ s.head \in Nat
  BY DEF Pair, Joined, Socket
<1>1. first \in Nat /\ s.head <= first
  BY <1>0 DEF Larger
<1>2. t = SendData(s, first)
  BY DEF SendPending
<1> HIDE DEF first
<1>3. /\ Moves(s, t, p) /\ t.head = s.head
      /\ Told(s) => Told(t)
      /\ t = s \/ (~Acked(t) /\ ~Quiet(s))
  BY <1>1, <1>2, MovesSend
<1>4. CASE t = s
  BY <1>4, HandledSelf
<1>5. CASE ~Acked(t) /\ ~Quiet(s)
  BY <1>3, <1>5 DEF Handled, Settled, Waits, Direct
<1> QED
  BY <1>3, <1>4, <1>5

LEMMA HandledSynSent ==
    ASSUME NEW s, NEW p, Pair(s, p), Settled(s, p), ~s.shut, s.out = <<>>, s.st = "SYN_SENT",
           NEW m \in Packet, Pk(m, p, s), NEW t, t = ProcessSynSent(s, m)
    PROVE  Handled(s, t, p)
<1>0. /\ s \in Socket /\ p \in Socket /\ Joined(s, p) /\ m.seq \in Nat /\ m.ack \in Nat
      /\ p.rcv \in Nat
  BY DEF Pair, Joined, Socket, Packet
<1>1. s.head = 0 /\ s.nextTx = 0 /\ NoSyn(s.out)
  BY <1>0 DEF Joined, Own, Connection, Unconnected, NoSyn
<1>2. CASE m.type = "SYN_ACK" /\ m.ack = s.nextTx + 1
  <2> DEFINE a == Opened(s)
             b == SendAck(a)
  <2>1. m.seq = 0 /\ p.rcv >= 1
    BY <1>0, <1>1, <1>2 DEF Pk
  <2>2. [Connected(s) EXCEPT !.st = "ESTABLISHED", !.rcv = m.seq + 1] = a
    BY <2>1 DEF Opened
  <2>3. t = SendPending(b)
    BY <1>2, <2>2 DEF ProcessSynSent
  <2>4. Handled(s, a, p) /\ a.head = 1
    BY <1>1, <2>1, HandledOpened
  <2> HIDE DEF a
  <2>5. Pair(a, p) /\ a \in Socket /\ Settled(a, p) /\ a.head # 0 /\ ~a.shut
    BY <2>4 DEF Handled, Moves, Pair, Joined, Keeps
  <2>6. Handled(a, b, p)
    BY <2>5, HandledAck
  <2> HIDE DEF b
  <2>7. Pair(b, p) /\ b \in Socket /\ Settled(b, p) /\ ~b.shut
    BY <2>5, <2>6 DEF Handled, Moves, Pair, Joined, Keeps
  <2>8. Handled(b, t, p)
    BY <2>3, <2>7, HandledSendPending
  <2>9. t \in Socket
    BY <2>8 DEF Handled, Moves, Pair, Joined
  <2>10. Handled(s, b, p)
    BY <1>0, <2>4, <2>5, <2>6, <2>7, HandledTwice
  <2> QED
    BY <1>0, <2>7, <2>8, <2>9, <2>10, HandledTwice
<1>3. CASE m.type = "RST"
  <2>1. t = CloseAndNotify(s)
    BY <1>3 DEF ProcessSynSent
  <2> QED
    BY <2>1, HandledClosed
<1>4. CASE ~(m.type = "SYN_ACK" /\ m.ack = s.nextTx + 1) /\ m.type # "RST"
  <2>1. t = s
    BY <1>4 DEF ProcessSynSent
  <2> QED
    BY <2>1, HandledSelf
<1> QED
  BY <1>2, <1>3, <1>4

\* A request for a connection or its answer, again or for the first time.
LEMMA HandledSyn ==
    ASSUME NEW s, NEW p, Pair(s, p), s.head = 0, NEW type \in {"SYN", "SYN_ACK"}, NEW kept \in Load,
           s.retx.kind = type \/ (type = "SYN_ACK" /\ s.st = "SYN_RCVD"),
           NEW u \in Socket, u.st = s.st,
           SameCore(s, u), u.up = s.up, u.out = s.out, u.retx.kind \in {s.retx.kind, "none"},
           NEW t, t = SendEmpty(u, type, kept)
    PROVE  Handled(s, t, p) /\ t.head = 0
<1>0. s \in Socket /\ p \in Socket /\ Joined(s, p) /\ type \in PacketType
  BY DEF Pair, Joined, PacketType
<1>1. Unconnected(s)
  BY <1>0 DEF Joined, Own
<1>2. /\ t \in Socket /\ SameCore(s, t) /\ (t.up => s.up)
      /\ t.st \in {s.st, "CLOSED"} /\ (t.st # s.st => ~t.up)
      /\ t.retx.kind \in {s.retx.kind, "none", type}
      /\ t.out = s.out \/ t.out = Append(s.out, EmptyPacket(u, type, kept))
  BY <1>0, SendEmptyFields DEF SameCore
<1>3. Joined(t, p) /\ Later(s, t)
  <2>1. Own(t)
    BY <1>1, <1>2, CountAssumption DEF SameCore, Own, Unconnected
  <2>2. /\ t.head = 0 /\ t.high = 0 /\ s.high = 0 /\ t.rcv = s.rcv /\ t.fin = s.fin /\ t.held = s.held
        /\ ~Open(s) /\ ~Open(t) /\ s.rcv \in Nat
    BY <1>0, <1>1, <1>2 DEF SameCore, Unconnected, Open, Socket
  <2>3. Flow(t, p) /\ Flow(p, t)
    BY <1>0, <2>2 DEF Joined, Flow, Bound, FinSent
  <2>4. Later(s, t)
    BY <2>2 DEF Later, FinSent, Past
  <2> QED
    BY <1>0, <1>2, <2>1, <2>3, <2>4 DEF Joined
<1>4. Keeps(s, t)
  BY <1>0, <1>1, <1>2 DEF Keeps, SameCore, Quiet, Unconnected
<1>5. EmptyPacket(u, type, kept) \in Packet
  BY <1>0, EmptyType
<1>6. Pk(EmptyPacket(u, type, kept), t, p)
  <2>1. u.rcv = t.rcv /\ t.rcv \in Nat /\ u.nextTx = 0 /\ u.st \in {"CLOSED", "SYN_SENT", "SYN_RCVD"}
    BY <1>1, <1>2 DEF SameCore, Unconnected, Socket
  <2> QED
    BY <2>1 DEF Pk, EmptyPacket
<1>7. Moves(s, t, p)
  BY <1>0, <1>2, <1>3, <1>4, <1>5, <1>6, Emits DEF SameCore
<1>8. Settled(t, p)
  BY <1>1, <1>2 DEF Settled, Told, Waits, Finished, Acked, Unconnected, SameCore
<1>9. Direct(s, t, p)
  BY <1>1, <1>2 DEF Direct, Straight, SameCore, Unconnected
<1> QED
  BY <1>2, <1>7, <1>8, <1>9 DEF Handled, SameCore

\* A FIN in SYN_RCVD is handled in that state as it would be in ESTABLISHED.
InEstablished(s) == [s EXCEPT !.st = "ESTABLISHED"]

LEMMA AckState ==
    ASSUME NEW s \in Socket, s.st = "SYN_RCVD"
    PROVE  /\ SendAck(s) \in Socket /\ SendAck(s).st = "SYN_RCVD"
           /\ SendAck(InEstablished(s)) = InEstablished(SendAck(s))
<1> DEFINE e == InEstablished(s)
           packet == EmptyPacket(s, "ACK", {})
           out == Append(s.out, packet)
<1>0. "ACK" \in PacketType /\ {} \in Load /\ "ESTABLISHED" \in State
  BY DEF PacketType, Load, State
<1>1. packet \in Packet
  BY <1>0, EmptyType
<1>2. out \in Seq(Packet)
  BY <1>1 DEF Socket
<1>3. e \in Socket /\ e.up = s.up /\ e.out = s.out /\ e.syn = s.syn /\ e.retx = s.retx /\ e.st = "ESTABLISHED"
  BY <1>0 DEF Socket, InEstablished
<1>4. EmptyPacket(e, "ACK", {}) = packet
  <2>1. e.rcv = s.rcv /\ e.load = s.load /\ e.nextTx = s.nextTx
    BY DEF Socket, InEstablished
  <2> QED
    BY <1>3, <2>1 DEF EmptyPacket
<1> HIDE DEF packet
<1>5. \A x \in {s, e} : SendAck(x) = IF ~x.up THEN x ELSE [x EXCEPT !.out = out]
  <2>1. ASSUME NEW x \in {s, e} PROVE SendAck(x) = IF ~x.up THEN x ELSE [x EXCEPT !.out = out]
    <3>0. x \in Socket
      BY <1>3
    <3>1. SendAck(x) = IF ~x.up THEN x
                       ELSE [x EXCEPT !.out = Append(@, EmptyPacket(x, "ACK", {})),
                                      !.syn = @, !.retx = @]
      BY DEF SendAck, SendEmpty, EmptyPacket
    <3>2. Append(x.out, EmptyPacket(x, "ACK", {})) = out
      BY <1>3, <1>4 DEF packet
    <3>3. SendAck(x) = IF ~x.up THEN x
                       ELSE [x EXCEPT !.out = out, !.syn = x.syn, !.retx = x.retx]
      BY <3>1, <3>2
    <3> HIDE DEF out, e
    <3> QED
      BY <1>2, <3>0, <3>3 DEF Socket
  <2> QED
    BY <2>1
<1> HIDE DEF out
<1>6. SendAck(s) = IF ~s.up THEN s ELSE [s EXCEPT !.out = out]
  BY <1>5
<1>7. SendAck(e) = IF ~s.up THEN e ELSE [e EXCEPT !.out = out]
  BY <1>3, <1>5
<1>8. SendAck(s) \in Socket /\ SendAck(s).st = "SYN_RCVD"
  BY <1>2, <1>6, ZenonT(60) DEF Socket
<1>9. SendAck(e) = InEstablished(SendAck(s))
  BY <1>0, <1>2, <1>6, <1>7 DEF Socket, InEstablished
<1> QED
  BY <1>8, <1>9

LEMMA FinState ==
    ASSUME NEW s \in Socket, s.st = "SYN_RCVD", s.held = {}, s.rcv = 1,
           NEW m \in Packet, m.type = "FIN_ACK", m.seq = 1
    PROVE  /\ FinTakenIn(s, m) \in Socket /\ FinTakenIn(s, m).st = "SYN_RCVD"
           /\ FinTakenIn(InEstablished(s), m) = InEstablished(FinTakenIn(s, m))
<1> DEFINE q == m.seq + m.len
           f == SetFinSequence(s, q)
           e == InEstablished(f)
<1>0. q \in Nat /\ q + 1 \in Nat /\ m.seq \in Nat /\ "ESTABLISHED" \in State /\ m.len \in 0..1
  BY DEF Packet, State
<1> HIDE DEF q
<1>1. f \in Socket /\ f.st = "SYN_RCVD"
  BY <1>0 DEF Socket, SetFinSequence
<1>2. SetFinSequence(InEstablished(s), q) = e
  BY <1>0 DEF Socket, SetFinSequence, InEstablished
<1> HIDE DEF f
<1>3. e \in Socket /\ e.rcv = f.rcv /\ e.held = f.held /\ e.fin = f.fin
  BY <1>0, <1>1 DEF Socket, InEstablished
<1>4. CASE m.len = 0
  BY <1>1, <1>2, <1>4 DEF FinTakenIn, ReceivedData, f, q
<1>5. CASE m.len # 0 /\ (m.seq < f.rcv \/ m.seq \in f.held)
  <2>1. FinTakenIn(s, m) = SendAck(f) /\ FinTakenIn(InEstablished(s), m) = SendAck(e)
    BY <1>0, <1>2, <1>3, <1>5 DEF FinTakenIn, ReceivedData, f, q
  <2> QED
    BY <1>1, <2>1, AckState
<1>6. CASE m.len # 0 /\ ~(m.seq < f.rcv \/ m.seq \in f.held)
  <2> DEFINE a == AddSegment(f, m)
             b == AddSegment(e, m)
  <2>1. FinTakenIn(s, m) = SendAck(a) /\ FinTakenIn(InEstablished(s), m) = SendAck(b)
    BY <1>0, <1>2, <1>3, <1>6 DEF FinTakenIn, ReceivedData, f, q
  <2> DEFINE next == FirstGap(f.held \cup {m.seq}, f.rcv)
             held == {x \in f.held \cup {m.seq} : x >= next}
             rcv == IF f.fin # 0 /\ next = f.fin THEN next + 1 ELSE next
  <2>2. a = [f EXCEPT !.held = held, !.rcv = rcv]
    BY DEF AddSegment, FirstGap
  <2>3. b = [e EXCEPT !.held = held, !.rcv = rcv]
    BY <1>3 DEF AddSegment, FirstGap
  <2>4. f.held = {} /\ f.rcv = 1
    <3>1. q # 1
      BY <1>0, <1>6 DEF q
    <3> QED
      BY <3>1 DEF f, SetFinSequence, Socket
  <2>5. next \in Nat
    <3>1. {1} \in SUBSET Nat /\ 1 \in Nat /\ 2 \in Nat /\ (\A x \in {1} : x < 2) /\ 1 <= 2 /\ 2 <= 1 + Data + 1
      BY CountAssumption
    <3>2. FirstGap({1}, 1) \in 1..2
      BY <3>1, FirstGapFound
    <3> QED
      BY <2>4, <3>2
  <2> HIDE DEF next
  <2>6. held \in SUBSET Nat /\ rcv \in Nat
    BY <1>0, <2>4, <2>5
  <2> HIDE DEF a, b, held, rcv
  <2>7. a \in Socket /\ a.st = "SYN_RCVD"
    BY <1>1, <2>2, <2>6 DEF Socket
  <2>8. b = InEstablished(a)
    BY <1>0, <1>1, <2>2, <2>3, <2>6 DEF Socket, InEstablished, e
  <2> QED
    BY <2>1, <2>7, <2>8, AckState
<1> QED
  BY <1>4, <1>5, <1>6

\* The packets of ESTABLISHED.
LEMMA HandledReceivedAck ==
    ASSUME NEW s, NEW p, Pair(s, p), Settled(s, p), Told(p), OneWay(s, p), s.up,
           s.st = "ESTABLISHED", NEW m \in Packet, m.type = "ACK", Pk(m, p, s),
           NEW t, t = ReceivedAck(s, m)
    PROVE  Handled(s, t, p)
<1>1. s.head # 0
  BY DEF Pair, Joined, Own, Unconnected
<1>2. /\ Moves(s, t, p) /\ t.fin = s.fin /\ Told(t) /\ Waits(t, p)
      /\ s.shut => t.st \in {s.st, "LAST_ACK"}
  BY <1>1, MovesReceivedAck
<1> QED
  BY <1>2 DEF Handled, Settled, Direct, Straight

LEMMA HandledPeerFin ==
    ASSUME NEW s, NEW p, Pair(s, p), Settled(s, p), Told(p), OneWay(s, p),
           s.st = "ESTABLISHED", NEW m \in Packet, m.type = "FIN_ACK", Pk(m, p, s),
           NEW t, t = PeerClose(s, m)
    PROVE  Handled(s, t, p)
<1>1. /\ Moves(s, t, p) /\ Settled(t, p)
      /\ t.st \in IF s.shut THEN {"ESTABLISHED", "LAST_ACK"} ELSE {"ESTABLISHED", "CLOSE_WAIT"}
      /\ t.fin = s.fin \/ t.fin = p.high
  BY MovesPeerFin
<1> QED
  BY <1>1 DEF Handled, Direct, Straight

\* The same FIN, in SYN_RCVD: it is in sequence.
LEMMA PeerCloseState ==
    ASSUME NEW s \in Socket, s.st = "SYN_RCVD", s.held = {}, s.rcv = 1, s.fin = 0,
           NEW m \in Packet, m.type = "FIN_ACK", m.seq = 1,
           Finished(FinTakenIn(InEstablished(s), m))
    PROVE  PeerClose(s, m) = PeerClose(InEstablished(s), m)
<1> DEFINE g == FinTakenIn(s, m)
           e == InEstablished(s)
           h == InEstablished(g)
<1>1. g \in Socket /\ g.st = "SYN_RCVD" /\ FinTakenIn(e, m) = h
  BY FinState
<1>2. e.rcv = 1 /\ e.fin = 0
  BY DEF InEstablished, Socket
<1>3. Finished(h)
  BY <1>1
<1>4. PeerClose(s, m) = CASE FALSE -> s
                          [] Finished(g) /\ g.st = "FIN_WAIT_1" -> [g EXCEPT !.st = "CLOSING"]
                          [] Finished(g) /\ g.st # "FIN_WAIT_1" -> DoPeerClose(g)
                          [] OTHER -> g
  BY DEF PeerClose, FinTakenIn
<1>5. PeerClose(e, m) = CASE FALSE -> e
                          [] Finished(h) /\ h.st = "FIN_WAIT_1" -> [h EXCEPT !.st = "CLOSING"]
                          [] Finished(h) /\ h.st # "FIN_WAIT_1" -> DoPeerClose(h)
                          [] OTHER -> h
  <2> HIDE DEF g, e, h
  <2>1. ReceivedData(SetFinSequence(e, m.seq + m.len), m) = h
    BY <1>1 DEF FinTakenIn
  <2> QED
    BY <1>2, <2>1 DEF PeerClose
<1> HIDE DEF g, e
<1>6. h.st = "ESTABLISHED" /\ h.rcv = g.rcv /\ h.fin = g.fin
  BY <1>1 DEF Socket, InEstablished
<1>7. Finished(g)
  BY <1>3, <1>6 DEF Finished
<1>8. [h EXCEPT !.st = "CLOSE_WAIT", !.normal = TRUE] = [g EXCEPT !.st = "CLOSE_WAIT", !.normal = TRUE]
  BY <1>1 DEF Socket, InEstablished
<1>9. h.shut = g.shut
  BY <1>1 DEF Socket, InEstablished
<1> HIDE DEF h
<1>10. DoPeerClose(h) = DoPeerClose(g)
  BY <1>8, <1>9 DEF DoPeerClose
<1>11. PeerClose(s, m) = DoPeerClose(g)
  BY <1>1, <1>4, <1>7
<1>12. PeerClose(e, m) = DoPeerClose(h)
  BY <1>3, <1>5, <1>6
<1> QED
  BY <1>10, <1>11, <1>12 DEF e

LEMMA HandledSynRcvd ==
    ASSUME NEW s, NEW p, Pair(s, p), Settled(s, p), Told(p), s.shut, Quiet(s), s.up, s.out = <<>>,
           s.st = "SYN_RCVD", NEW m \in Packet, Pk(m, p, s), NEW t, t = ProcessSynRcvd(s, m)
    PROVE  Handled(s, t, p) /\ (t.head # 0 => m.type \in {"ACK", "FIN_ACK"})
<1> DEFINE c == Connected(s)
           e == Opened(s)
<1>0. /\ s \in Socket /\ p \in Socket /\ Joined(s, p) /\ m.seq \in Nat /\ m.ack \in Nat
      /\ p.rcv \in Nat /\ s.rcv \in Nat
  BY DEF Pair, Joined, Socket, Packet
<1>1. s.head = 0 /\ Unconnected(s) /\ NoSyn(s.out) /\ s.rcv = 1 /\ s.nextTx = 0 /\ s.held = {} /\ s.fin = 0
  BY <1>0 DEF Joined, Own, Connection, Unconnected, NoSyn
<1>2. /\ c.st = "SYN_RCVD" /\ c.rcv = 1 /\ c.held = {} /\ c.fin = 0
      /\ c \in Socket
  <2>1. NoTimer \in [kind : TimerKind, bits : Load] /\ s.nextTx + 1 \in Nat
    BY <1>1 DEF NoTimer, TimerKind, Load
  <2> DEFINE first == s.nextTx + 1
  <2>2. c = [s EXCEPT !.retx = NoTimer, !.nextTx = first, !.high = first,
                      !.head = first, !.tail = first]
    BY DEF Connected
  <2> HIDE DEF first, c
  <2>3. first \in Nat
    BY <2>1 DEF first
  <2> QED
    BY <1>0, <1>1, <2>1, <2>2, <2>3 DEF Socket
<1> HIDE DEF c
<1>3. InEstablished(c) = e
  <2> DEFINE one == 1
  <2>1. e = [c EXCEPT !.st = "ESTABLISHED", !.rcv = one]
    BY DEF Opened, c
  <2>2. c.rcv = one
    BY <1>2
  <2> HIDE DEF one, e
  <2> QED
    BY <1>2, <2>1, <2>2 DEF InEstablished, Socket
<1>4. ASSUME p.rcv >= 1, Handled(e, t, p) PROVE Handled(s, t, p)
  <2>1. Handled(s, e, p)
    BY <1>1, <1>4, HandledOpened
  <2>2. e \in Socket /\ t \in Socket
    BY <1>4, <2>1 DEF Handled, Moves, Pair, Joined
  <2> HIDE DEF e
  <2> QED
    BY <1>0, <1>4, <2>1, <2>2, HandledTwice
<1>5. ASSUME p.rcv >= 1
      PROVE  /\ Pair(e, p) /\ Settled(e, p) /\ OneWay(e, p) /\ e.up /\ e.st = "ESTABLISHED" /\ e.rcv = 1
             /\ Pk(m, p, e) /\ e.head # 0
  <2>1. Handled(s, e, p) /\ e.st = "ESTABLISHED" /\ e.up = s.up /\ e.rcv = 1 /\ e.head = 1
    BY <1>1, <1>5, HandledOpened
  <2> HIDE DEF e
  <2>2. e \in Socket /\ Later(s, e)
    BY <2>1 DEF Handled, Moves, Pair, Joined
  <2>3. Pk(m, p, e)
    BY <1>0, <2>2, PkLater, LaterSame
  <2> QED
    BY <2>1, <2>3 DEF Handled, Moves, Keeps, OneWay
<1>6. CASE m.type = "ACK" /\ m.ack = s.nextTx + 1
  <2>2. p.rcv >= 1
    BY <1>0, <1>1, <1>6 DEF Pk
  <2>3. [Connected(s) EXCEPT !.st = "ESTABLISHED"] = e
    BY <1>3 DEF InEstablished, c
  <2>4. t = ReceivedAck(e, m)
    BY <1>6, <2>3 DEF ProcessSynRcvd
  <2> HIDE DEF e
  <2>5. Handled(e, t, p)
    BY <1>5, <1>6, <2>2, <2>4, HandledReceivedAck
  <2> QED
    BY <1>4, <1>6, <2>2, <2>5
<1>7. CASE m.type = "SYN"
  <2>1. m.seq = 0
    BY <1>7 DEF Pk
  <2>2. [s EXCEPT !.rcv = m.seq + 1] = s
    BY <1>0, <1>1, <2>1 DEF Socket
  <2>3. t = SendEmpty(s, "SYN_ACK", {}) /\ {} \in Load
    BY <1>7, <2>2 DEF ProcessSynRcvd, Load
  <2> QED
    BY <1>0, <1>1, <2>3, HandledSyn DEF SameCore
<1>8. CASE m.type = "FIN_ACK" /\ m.seq = s.rcv
  <2>1. p.head # 0 /\ p.rcv >= 1
    BY <1>0, <1>8 DEF Pk, Joined, Own, Connection
  <2>2. t = PeerClose(c, m)
    BY <1>8 DEF ProcessSynRcvd, c
  <2> HIDE DEF e
  <2>3. Finished(FinTakenIn(e, m))
    <3>1. ~Past(e)
      BY <1>5, <2>1 DEF Past
    <3> QED
      BY <1>1, <1>5, <1>8, <2>1, <3>1, MovesFinTakenIn
  <2>4. t = PeerClose(e, m)
    BY <1>1, <1>2, <1>3, <1>8, <2>2, <2>3, PeerCloseState
  <2>5. Handled(e, t, p)
    BY <1>5, <1>8, <2>1, <2>4, HandledPeerFin
  <2> QED
    BY <1>4, <1>8, <2>1, <2>5
<1>9. CASE m.type = "FIN_ACK" /\ m.seq # s.rcv
  <2>1. t = s
    BY <1>9 DEF ProcessSynRcvd
  <2> QED
    BY <1>1, <2>1, HandledSelf
<1>10. CASE ~(m.type = "ACK" /\ m.ack = s.nextTx + 1) /\ m.type \notin {"SYN", "FIN_ACK"}
  <2>1. t = CloseAndNotify(s) \/ t = CloseAndNotify(SendRST(s))
    BY <1>10 DEF ProcessSynRcvd
  <2> QED
    BY <1>1, <2>1, HandledClosed
<1> QED
  BY <1>6, <1>7, <1>8, <1>9, <1>10

-----------------------------------------------------------------------------
(* The connection.                                                         *)

LEMMA HandledEstablished ==
    ASSUME NEW s, NEW p, Pair(s, p), Settled(s, p), Told(p), OneWay(s, p), s.up,
           s.st = "ESTABLISHED", NEW m \in Packet, Pk(m, p, s), NEW t, t = ProcessEstablished(s, m)
    PROVE  Handled(s, t, p)
<1>0. s.head # 0 /\ m.type \in PacketType
  BY DEF Pair, Joined, Own, Unconnected, Packet
<1>1. CASE t = s
  BY <1>1, HandledSelf
<1>2. CASE t = SendAck(s)
  BY <1>0, <1>2, HandledAck
<1>3. CASE m.type = "ACK" /\ t = ReceivedAck(s, m)
  BY <1>3, HandledReceivedAck
<1>4. CASE m.type = "FIN_ACK" /\ t = PeerClose(s, m)
  BY <1>4, HandledPeerFin
<1>5. CASE t = CloseAndNotify(s) \/ t = CloseAndNotify(SendRST(s))
  BY <1>5, HandledClosed
<1> QED
  BY <1>0, <1>1, <1>2, <1>3, <1>4, <1>5 DEF ProcessEstablished, PacketType

LEMMA HandledTimeWait ==
    ASSUME NEW s, NEW p, Pair(s, p), s.head # 0, ~Open(s), NEW t, t = TimeWait(s)
    PROVE  Handled(s, t, p)
<1>0. s \in Socket /\ "TIME_WAIT" \in State /\ NoTimer \in [kind : TimerKind, bits : Load] /\ NoTimer.kind = "none"
  BY DEF Pair, Joined, State, NoTimer, TimerKind, Load
<1>1. t \in Socket
  BY <1>0 DEF TimeWait, Socket
<1>2. SameCore(s, t) /\ t.st = "TIME_WAIT" /\ t.up = s.up /\ t.retx = NoTimer /\ t.out = s.out
  BY <1>0 DEF TimeWait, Socket, SameCore
<1>3. Moves(s, t, p)
  BY <1>0, <1>1, <1>2, Silent DEF Turn, Rearm
<1>4. Settled(t, p)
  BY <1>0, <1>2 DEF Settled, Told, Waits
<1>5. Direct(s, t, p)
  BY <1>2 DEF Direct, Straight, SameCore
<1> QED
  BY <1>3, <1>4, <1>5 DEF Handled

LEMMA HandledAckClosed ==
    ASSUME NEW s, NEW p, Pair(s, p), Settled(s, p), s.head # 0, NEW t, t = CloseAndNotify(SendAck(s))
    PROVE  Handled(s, t, p)
<1> DEFINE u == SendAck(s)
<1>1. Handled(s, u, p)
  BY HandledAck
<1> HIDE DEF u
<1>2. Pair(u, p) /\ u \in Socket /\ s \in Socket
  BY <1>1 DEF Handled, Moves, Pair, Joined
<1>3. t = CloseAndNotify(u)
  BY DEF u
<1>4. Handled(u, t, p)
  BY <1>2, <1>3, HandledClosed
<1>5. t \in Socket
  BY <1>4 DEF Handled, Moves, Pair, Joined
<1> QED
  BY <1>1, <1>2, <1>4, <1>5, HandledTwice

LEMMA HandledClosing ==
    ASSUME NEW s, NEW p, Pair(s, p), Settled(s, p),
           s.st = "CLOSING", NEW m, NEW t, t = ProcessClosing(s, m)
    PROVE  Handled(s, t, p)
<1>0. s.head # 0 /\ ~Open(s)
  BY DEF Pair, Joined, Own, Unconnected, Open
<1>1. CASE t = s
  BY <1>1, HandledSelf
<1>2. CASE t = TimeWait(s)
  BY <1>0, <1>2, HandledTimeWait
<1>3. CASE t = CloseAndNotify(SendAck(s))
  BY <1>0, <1>3, HandledAckClosed
<1>4. CASE t = CloseAndNotify(s) \/ t = CloseAndNotify(SendRST(s))
  BY <1>4, HandledClosed
<1> QED
  BY <1>1, <1>2, <1>3, <1>4 DEF ProcessClosing

LEMMA HandledLastAck ==
    ASSUME NEW s, NEW p, Pair(s, p), Settled(s, p), NEW m, NEW t, t = ProcessLastAck(s, m)
    PROVE  Handled(s, t, p)
<1>1. CASE t = s
  BY <1>1, HandledSelf
<1>2. CASE t = CloseAndNotify(s) \/ t = CloseAndNotify(SendRST(s))
  BY <1>2, HandledClosed
<1> QED
  BY <1>1, <1>2 DEF ProcessLastAck

\* FIN_WAIT_1 ends when the FIN of this side is acknowledged, and with the FIN of the peer.
LEMMA MovesFinWait2 ==
    ASSUME NEW s, NEW p, Pair(s, p), s.st = "FIN_WAIT_1", Acked(s), NEW t,
           t = [s EXCEPT !.st = "FIN_WAIT_2"]
    PROVE  Moves(s, t, p) /\ SameCore(s, t) /\ t.st = "FIN_WAIT_2" /\ t.retx = s.retx
<1>0. s \in Socket /\ "FIN_WAIT_2" \in State
  BY DEF Pair, Joined, State
<1>1. t \in Socket
  BY <1>0 DEF Socket
<1>2. SameCore(s, t) /\ t.st = "FIN_WAIT_2" /\ t.retx = s.retx /\ t.up = s.up /\ t.out = s.out
  BY <1>0 DEF Socket, SameCore
<1> QED
  BY <1>1, <1>2, Silent DEF Turn, Rearm

LEMMA EndsFinWait ==
    ASSUME NEW s, NEW p, Pair(s, p), s.st \in {"FIN_WAIT_1", "FIN_WAIT_2"}, FinSent(p), NEW u,
           u = TimeWait(s) \/ u = [s EXCEPT !.st = "CLOSING"], NEW t, t = SendAck(u)
    PROVE  Moves(s, t, p) /\ Settled(t, p)
<1>0. s \in Socket /\ "CLOSING" \in State /\ s.head # 0 /\ ~Open(s)
  BY DEF Pair, Joined, State, Own, Unconnected, Open
<1>1. CASE u = TimeWait(s)
  <2>1. Handled(s, u, p)
    BY <1>0, <1>1, HandledTimeWait
  <2>2. Pair(u, p) /\ u \in Socket /\ u.head # 0 /\ Settled(u, p)
    BY <1>0, <2>1 DEF Handled, Moves, Pair, Joined, Later
  <2>3. Handled(u, t, p)
    BY <2>2, HandledAck
  <2>4. t \in Socket
    BY <2>3 DEF Handled, Moves, Pair, Joined
  <2> QED
    BY <1>0, <2>1, <2>2, <2>3, <2>4, HandledTwice DEF Handled
<1>2. CASE u = [s EXCEPT !.st = "CLOSING"]
  <2>1. u \in Socket
    BY <1>0, <1>2 DEF Socket
  <2>2. SameCore(s, u) /\ u.st = "CLOSING" /\ u.retx = s.retx /\ u.up = s.up /\ u.out = s.out
    BY <1>0, <1>2 DEF Socket, SameCore
  <2>3. Moves(s, u, p)
    BY <1>0, <2>1, <2>2, Silent DEF Turn, Rearm
  <2>4. Settled(u, p)
    BY <2>2 DEF Settled, Told, Waits
  <2>5. Pair(u, p) /\ u.head # 0
    BY <1>0, <2>2, <2>3 DEF Moves, SameCore
  <2>6. Handled(u, t, p)
    BY <2>4, <2>5, HandledAck
  <2>7. t \in Socket
    BY <2>6 DEF Handled, Moves, Pair, Joined
  <2> QED
    BY <1>0, <2>1, <2>3, <2>6, <2>7, MovesTwice DEF Handled
<1> QED
  BY <1>1, <1>2

LEMMA HandledWait ==
    ASSUME NEW s, NEW p, Pair(s, p), Settled(s, p), Told(p), OneWay(s, p), s.up,
           s.st \in {"CLOSE_WAIT", "FIN_WAIT_1", "FIN_WAIT_2"},
           NEW m \in Packet, Pk(m, p, s), NEW t, t = ProcessWait(s, m)
    PROVE  Handled(s, t, p)
<1> DEFINE a == ReceivedAck(s, m)
           ofFin == a.head >= a.tail /\ m.ack = a.high + 1
           got == IF m.type = "FIN_ACK" THEN SetFinSequence(a, m.seq)
                  ELSE IF a.st = "FIN_WAIT_1" /\ ofFin THEN [a EXCEPT !.st = "FIN_WAIT_2"] ELSE a
<1>0. /\ s \in Socket /\ p \in Socket /\ Own(s) /\ Own(p) /\ s.head # 0 /\ ~Past(s)
      /\ m.type \in PacketType /\ m.ack \in Nat
  BY DEF Pair, Joined, Own, Unconnected, Packet, Past
<1>1. Direct(s, t, p)
  BY <1>0 DEF Direct, Straight, Own
<1>2. CASE m.type \notin {"ACK", "FIN_ACK"}
  <2>1. t = s \/ t = CloseAndNotify(s) \/ t = CloseAndNotify(SendRST(s))
    BY <1>0, <1>2 DEF ProcessWait, PacketType
  <2> QED
    BY <2>1, HandledSelf, HandledClosed
<1>3. CASE m.type \in {"ACK", "FIN_ACK"}
  <2>0. t = CASE got.st = "FIN_WAIT_1" /\ Finished(got) ->
                    SendAck(IF ofFin THEN TimeWait(got) ELSE [got EXCEPT !.st = "CLOSING"])
              [] got.st = "FIN_WAIT_2" /\ Finished(got) -> SendAck(TimeWait(got))
              [] OTHER -> got
    BY <1>3 DEF ProcessWait
  <2>1. /\ Moves(s, a, p)
        /\ a.head >= m.ack
        /\ m.type = "ACK" => Told(a)
        /\ Waits(a, p) \/ (a.st = "FIN_WAIT_1" /\ a.head = m.ack /\ a.retx.kind # "FIN_ACK")
        /\ a.st # s.st => a.st = "LAST_ACK"
    BY <1>0, <1>3, MovesReceivedAck
  <2> HIDE DEF a
  <2>2. Pair(a, p) /\ a \in Socket /\ a.head # 0 /\ a.head \in Nat /\ a.high \in Nat /\ a.tail \in Nat /\ a.st # "ESTABLISHED"
    BY <1>0, <2>1 DEF Moves, Pair, Joined, Later, Socket
  <2>3. ofFin => Acked(a)
    BY <1>0, <2>1, <2>2 DEF Pair, Joined, Own, Connection
  <2>4. CASE m.type = "ACK" /\ a.st = "FIN_WAIT_1" /\ ofFin
    <3>1. got = [a EXCEPT !.st = "FIN_WAIT_2"]
      BY <2>4
    <3> HIDE DEF got
    <3>2. Moves(a, got, p) /\ SameCore(a, got) /\ got.st = "FIN_WAIT_2" /\ got.retx = a.retx
      BY <2>2, <2>3, <2>4, <3>1, MovesFinWait2
    <3>3. ~Finished(got)
      BY <2>1, <2>4, <3>2 DEF Told, Finished, SameCore
    <3>4. t = got /\ got \in Socket
      BY <2>0, <3>2, <3>3 DEF Moves, Pair, Joined
    <3>5. Moves(s, t, p)
      BY <1>0, <2>1, <2>2, <3>2, <3>4, MovesTwice
    <3>6. Settled(t, p)
      BY <2>1, <2>3, <2>4, <3>2, <3>3, <3>4 DEF Settled, Told, Waits
    <3> QED
      BY <1>1, <3>5, <3>6 DEF Handled
  <2>5. CASE m.type = "ACK" /\ ~(a.st = "FIN_WAIT_1" /\ ofFin)
    <3>1. got = a
      BY <2>5
    <3> HIDE DEF got
    <3>2. t = a
      BY <2>0, <2>1, <2>5, <3>1 DEF Told
    <3>3. Waits(a, p)
      BY <2>1, <2>2, <2>5 DEF Waits, Acked
    <3> QED
      BY <1>1, <2>1, <2>5, <3>2, <3>3 DEF Handled, Settled
  <2>6. CASE m.type = "FIN_ACK"
    <3>0. FinSent(p) /\ m.seq \in Nat \ {0} /\ m.seq \in {p.high, p.high - 1}
      BY <1>0, <2>6, FinPlace
    <3>1. got = SetFinSequence(a, m.seq)
      BY <2>6
    <3> HIDE DEF got, ofFin
    <3>2. Moves(a, got, p) /\ FinNoted(a, got)
      BY <2>2, <3>0, <3>1, MovesSetFin
    <3>3. Pair(got, p) /\ got \in Socket /\ got.st # "ESTABLISHED"
      BY <2>2, <3>2 DEF Moves, Pair, Joined, FinNoted
    <3>4. Moves(s, got, p)
      BY <1>0, <2>1, <2>2, <3>2, <3>3, MovesTwice
    <3>5. CASE Finished(got) /\ got.st \in {"FIN_WAIT_1", "FIN_WAIT_2"}
      <4> DEFINE u == IF got.st = "FIN_WAIT_1" /\ ~ofFin THEN [got EXCEPT !.st = "CLOSING"] ELSE TimeWait(got)
      <4>1. t = SendAck(u)
        BY <2>0, <3>5
      <4>2. u = TimeWait(got) \/ u = [got EXCEPT !.st = "CLOSING"]
        OBVIOUS
      <4> HIDE DEF u
      <4>3. Moves(got, t, p) /\ Settled(t, p)
        BY <3>0, <3>3, <3>5, <4>1, <4>2, EndsFinWait
      <4>4. t \in Socket
        BY <4>3 DEF Moves, Pair, Joined
      <4>5. Moves(s, t, p)
        BY <1>0, <3>3, <3>4, <4>3, <4>4, MovesTwice
      <4> QED
        BY <1>1, <4>3, <4>5 DEF Handled
    <3>6. CASE ~(Finished(got) /\ got.st \in {"FIN_WAIT_1", "FIN_WAIT_2"})
      <4>1. t = got
        BY <2>0, <3>6
      <4>2. Settled(t, p)
        BY <3>0, <3>3, <3>6, <4>1 DEF Settled, Told, Waits
      <4> QED
        BY <1>1, <3>4, <4>1, <4>2 DEF Handled
    <3> QED
      BY <3>5, <3>6
  <2> QED
    BY <1>3, <2>4, <2>5, <2>6
<1> QED
  BY <1>2, <1>3

-----------------------------------------------------------------------------
(* The timers.                                                             *)

LEMMA HandledStopped ==
    ASSUME NEW s, NEW p, Pair(s, p), Settled(s, p), NEW t, t = [s EXCEPT !.retx = NoTimer]
    PROVE  /\ Handled(s, t, p) /\ t \in Socket /\ SameCore(s, t) /\ t.st = s.st /\ t.up = s.up
           /\ t.out = s.out /\ t.retx.kind = "none"
<1>0. s \in Socket /\ NoTimer \in [kind : TimerKind, bits : Load] /\ NoTimer.kind = "none"
  BY DEF Pair, Joined, NoTimer, TimerKind, Load
<1>1. t \in Socket
  BY <1>0 DEF Socket
<1>2. /\ SameCore(s, t) /\ t.st = s.st /\ t.up = s.up /\ t.out = s.out /\ t.retx = NoTimer
  BY <1>0 DEF Socket, SameCore
<1>3. Moves(s, t, p)
  BY <1>0, <1>1, <1>2, Silent DEF Turn, Rearm
<1> QED
  BY <1>0, <1>1, <1>2, <1>3, HandledSame

\* A FIN is sent again.
LEMMA HandledFinAgain ==
    ASSUME NEW s, NEW p, Pair(s, p), Settled(s, p), Told(p), s.head # 0, ~Open(s),
           s.st \in {"FIN_WAIT_1", "CLOSING", "LAST_ACK"} \/ s.retx.kind = "FIN_ACK",
           NEW kept \in Load,
           NEW u \in Socket, SameCore(s, u), u.st = s.st, u.up = s.up, u.out = s.out,
           u.retx.kind \in {s.retx.kind, "none"},
           NEW t, t = SendEmpty(u, "FIN_ACK", kept)
    PROVE  Handled(s, t, p) /\ t.head = s.head
<1>0. s \in Socket /\ p \in Socket /\ Joined(s, p) /\ "FIN_ACK" \in PacketType
  BY DEF Pair, Joined, PacketType
<1>1. /\ t \in Socket /\ SameCore(s, t) /\ t.st = s.st /\ t.up = s.up
      /\ t.retx.kind \in {s.retx.kind, "none", "FIN_ACK"}
      /\ t.out = s.out \/ (u.up /\ t.out = Append(s.out, EmptyPacket(u, "FIN_ACK", kept)))
  <2>1. "FIN_ACK" \notin {"SYN", "SYN_ACK"}
    OBVIOUS
  <2>2. /\ t \in Socket /\ SameCore(u, t)
        /\ \/ t = u /\ ~u.up
           \/ /\ t.st = u.st /\ t.up = u.up
              /\ t.out = Append(u.out, EmptyPacket(u, "FIN_ACK", kept))
              /\ t.retx.kind \in {u.retx.kind, "FIN_ACK"}
    BY <1>0, <2>1, SendEmptyFields
  <2>3. t.up = u.up /\ t.st = u.st /\ t.retx.kind \in {u.retx.kind, "FIN_ACK"}
    BY <2>2
  <2> DEFINE packet == EmptyPacket(u, "FIN_ACK", kept)
  <2>4. t.out = s.out \/ (u.up /\ t.out = Append(s.out, packet))
    <3>1. (t = u /\ ~u.up) \/ t.out = Append(s.out, packet)
      BY <2>2
    <3>2. CASE u.up
      BY <3>1, <3>2
    <3>3. CASE ~u.up
      <4>1. t = u => t.out = s.out
        OBVIOUS
      <4>2. t = u
        BY <1>0, <3>3 DEF SendEmpty
      <4> QED
        BY <4>1, <4>2
    <3> QED
      BY <3>2, <3>3
  <2> QED
    BY <2>2, <2>3, <2>4 DEF SameCore
<1>2. Turn(s, t) /\ Rearm(s, t)
  BY <1>1 DEF Turn, Rearm, SameCore, Open
<1>3. Moves(s, t, p)
  <2>1. CASE t.out = s.out
    BY <1>1, <1>2, <2>1, Silent
  <2>2. CASE u.up /\ t.out = Append(s.out, EmptyPacket(u, "FIN_ACK", kept))
    <3>1. FinSent(s)
      BY <1>0, <2>2 DEF Joined, Own, Connection
    <3>2. FinSent(t)
      BY <1>1, <3>1 DEF FinSent, Acked, Open, SameCore
    <3>3. Acked(s) => Past(p)
      BY <1>0, PastPeer DEF Settled, Waits
    <3>4. t.up => s.up
      BY <1>1
    <3> DEFINE packet == EmptyPacket(u, "FIN_ACK", kept)
    <3>5. packet \in Packet
      BY <1>0, EmptyType
    <3>6. s.nextTx = s.high \/ (s.nextTx = s.high + 1 /\ Past(p))
      BY <1>0, <3>3 DEF Joined, Own, Connection, Acked
    <3>7. Pk(packet, t, p) /\ packet.type # "SYN"
      <4>1. s.high \in Nat /\ s.rcv \in Nat
        BY <1>0 DEF Socket
      <4>2. /\ packet.seq = s.nextTx /\ packet.len = 0 /\ packet.type = "FIN_ACK" /\ packet.ack = s.rcv
        BY DEF EmptyPacket, SameCore
      <4> HIDE DEF packet
      <4> QED
        BY <1>1, <3>2, <3>6, <4>1, <4>2 DEF Pk, SameCore
    <3> HIDE DEF packet
    <3>8. Joined(t, p) /\ Later(s, t) /\ Keeps(s, t)
      BY <1>0, <1>1, <1>2, Turned
    <3>9. t.out = Append(s.out, packet)
      BY <2>2 DEF packet
    <3> QED
      BY <1>1, <3>5, <3>7, <3>8, <3>9, Emits DEF SameCore
  <2> QED
    BY <1>1, <2>1, <2>2
<1>4. Settled(t, p)
  BY <1>1 DEF Settled, Told, Finished, Waits, Acked, Open, SameCore
<1>5. Direct(s, t, p)
  BY <1>1 DEF Direct, Straight, SameCore
<1> QED
  BY <1>1, <1>3, <1>4, <1>5 DEF Handled, SameCore

LEMMA HandledResend ==
    ASSUME NEW s, NEW p, Pair(s, p), Settled(s, p), Told(p),
           s.retx.kind \in {"SYN", "SYN_ACK", "FIN_ACK"},
           NEW t, t = SendEmpty([s EXCEPT !.retx = NoTimer], s.retx.kind, s.retx.bits)
    PROVE  Handled(s, t, p) /\ t.head = s.head
<1> DEFINE u == [s EXCEPT !.retx = NoTimer]
<1>0. s \in Socket /\ Joined(s, p) /\ s.retx.bits \in Load
  BY DEF Pair, Joined, Socket
<1>1. /\ u \in Socket /\ SameCore(s, u) /\ u.st = s.st /\ u.up = s.up
      /\ u.out = s.out /\ u.retx.kind = "none"
  BY HandledStopped
<1>2. t = SendEmpty(u, s.retx.kind, s.retx.bits)
  OBVIOUS
<1> HIDE DEF u
<1>3. CASE s.head = 0
  <2>1. s.retx.kind \in {"SYN", "SYN_ACK"}
    BY <1>0, <1>3 DEF Joined, Own, Unconnected
  <2> QED
    BY <1>0, <1>1, <1>2, <1>3, <2>1, HandledSyn
<1>4. CASE s.head # 0
  <2>1. s.retx.kind = "FIN_ACK" /\ ~Open(s)
    BY <1>0, <1>4 DEF Joined, Own, Connection
  <2> QED
    BY <1>0, <1>1, <1>2, <1>4, <2>1, HandledFinAgain
<1> QED
  BY <1>3, <1>4

LEMMA HandledGiveUp ==
    ASSUME NEW s, NEW p, Pair(s, p), Settled(s, p), NEW t, t = Deallocate([s EXCEPT !.error = TRUE])
    PROVE  Handled(s, t, p) /\ t.head = s.head
<1>0. s \in Socket /\ NoTimer \in [kind : TimerKind, bits : Load] /\ NoTimer.kind = "none"
  BY DEF Pair, Joined, NoTimer, TimerKind, Load
<1>1. t = [s EXCEPT !.error = TRUE, !.up = FALSE, !.retx = NoTimer, !.lato = FALSE]
  BY <1>0 DEF Deallocate, Socket
<1>2. t \in Socket
  BY <1>0, <1>1 DEF Socket
<1>3. SameCore(s, t) /\ t.st = s.st /\ t.up = FALSE /\ t.out = s.out /\ t.retx = NoTimer
  BY <1>0, <1>1 DEF Socket, SameCore
<1>4. Moves(s, t, p)
  BY <1>0, <1>2, <1>3, Silent DEF Turn, Rearm
<1> QED
  BY <1>0, <1>3, <1>4, HandledSame DEF SameCore

LEMMA HandledRetry ==
    ASSUME NEW s, NEW p, Pair(s, p), Settled(s, p), s.retr # 0, NEW t, t = [s EXCEPT !.retr = @ - 1]
    PROVE  /\ Handled(s, t, p) /\ t \in Socket /\ SameCore(s, t) /\ t.st = s.st /\ t.up = s.up
           /\ t.out = s.out /\ t.retx = s.retx
<1>0. s \in Socket /\ s.retr \in 0..DataRetries
  BY DEF Pair, Joined, Socket
<1> DEFINE retr == s.retr - 1
<1>1. retr \in 0..DataRetries
  BY <1>0, CountAssumption
<1>2. t = [s EXCEPT !.retr = retr]
  OBVIOUS
<1> HIDE DEF retr
<1>3. t \in Socket
  BY <1>0, <1>1, <1>2 DEF Socket
<1>4. SameCore(s, t) /\ t.st = s.st /\ t.up = s.up /\ t.out = s.out /\ t.retx = s.retx
  BY <1>0, <1>2 DEF Socket, SameCore
<1>5. Moves(s, t, p)
  BY <1>3, <1>4, Silent DEF Turn, Rearm
<1> QED
  BY <1>3, <1>4, <1>5, HandledSame

\* What a timeout makes of a socket u whose timer has run out.
TimedOut(u, t) ==
    \/ u.head >= u.tail /\ u.st \in {"FIN_WAIT_1", "CLOSING"} /\ t = SendEmpty(u, "FIN_ACK", {})
    \/ t = u
    \/ t = Deallocate([u EXCEPT !.error = TRUE])
    \/ u.retr # 0 /\ t = SendData([u EXCEPT !.retr = @ - 1], u.head)

LEMMA HandledReTx ==
    ASSUME NEW s, NEW p, Pair(s, p), Settled(s, p), Told(p), s.shut => Quiet(s), s.retx = DataTimer,
           NEW u, u = [s EXCEPT !.retx = NoTimer], NEW t, TimedOut(u, t)
    PROVE  Handled(s, t, p) /\ t.head = s.head
<1>0. s \in Socket /\ Joined(s, p) /\ {} \in Load
  BY DEF Pair, Joined, Load
<1>1. s.head # 0
  BY <1>0 DEF Joined, Own, Unconnected, DataTimer
<1>2. /\ Handled(s, u, p) /\ u \in Socket /\ SameCore(s, u) /\ u.st = s.st /\ u.up = s.up
      /\ u.out = s.out /\ u.retx.kind = "none"
  BY HandledStopped
<1>3. Pair(u, p) /\ Settled(u, p) /\ u.head = s.head /\ (u.shut => Quiet(u))
  BY <1>2 DEF Handled, Moves, SameCore, Quiet
<1>4. CASE u.st \in {"FIN_WAIT_1", "CLOSING"} /\ t = SendEmpty(u, "FIN_ACK", {})
  BY <1>0, <1>1, <1>2, <1>4, HandledFinAgain DEF Open
<1>5. CASE t = u
  BY <1>2, <1>3, <1>5
<1>6. CASE t = Deallocate([u EXCEPT !.error = TRUE])
  <2>1. Handled(u, t, p) /\ t.head = u.head
    BY <1>3, <1>6, HandledGiveUp
  <2>2. t \in Socket
    BY <2>1 DEF Handled, Moves, Pair, Joined
  <2> QED
    BY <1>0, <1>2, <1>3, <2>1, <2>2, HandledTwice
<1>7. CASE u.retr # 0 /\ t = SendData([u EXCEPT !.retr = @ - 1], u.head)
  <2> DEFINE v == [u EXCEPT !.retr = @ - 1]
  <2>1. Handled(u, v, p) /\ v \in Socket /\ SameCore(u, v)
    BY <1>3, <1>7, HandledRetry
  <2>2. t = SendData(v, v.head)
    BY <1>7, <2>1 DEF SameCore
  <2> HIDE DEF v
  <2>3. Pair(v, p) /\ Settled(v, p) /\ v.head \in Nat /\ v.head = u.head /\ (v.shut => Quiet(v))
    BY <1>3, <2>1 DEF Handled, Moves, SameCore, Socket, Quiet
  <2>4. /\ Moves(v, t, p) /\ t.head = v.head
        /\ Told(v) => Told(t)
        /\ t = v \/ (~Acked(t) /\ ~Quiet(v))
    BY <2>2, <2>3, MovesSend
  <2>5. Handled(v, t, p)
    <3>1. CASE t = v
      BY <2>3, <3>1, HandledSelf
    <3>2. CASE ~Acked(t) /\ ~Quiet(v)
      BY <2>3, <2>4, <3>2 DEF Handled, Settled, Waits, Direct
    <3> QED
      BY <2>4, <3>1, <3>2
  <2>6. t \in Socket
    BY <2>4 DEF Moves, Pair, Joined
  <2>7. Handled(s, v, p)
    BY <1>0, <1>2, <2>1, HandledTwice
  <2> QED
    BY <1>0, <1>3, <2>1, <2>3, <2>4, <2>5, <2>6, <2>7, HandledTwice
<1> QED
  BY <1>4, <1>5, <1>6, <1>7 DEF TimedOut

LEMMA HandledLastAckTimeout ==
    ASSUME NEW s, NEW p, Pair(s, p), Settled(s, p), Told(p), s.st = "LAST_ACK", NEW t,
           \/ t = Deallocate([s EXCEPT !.error = TRUE])
           \/ s.retr # 0 /\ t = SendEmpty([s EXCEPT !.retr = @ - 1], "FIN_ACK", {})
    PROVE  Handled(s, t, p) /\ t.head = s.head
<1>0. s.head # 0 /\ ~Open(s) /\ {} \in Load
  BY DEF Pair, Joined, Own, Unconnected, Open, Load
<1>1. CASE t = Deallocate([s EXCEPT !.error = TRUE])
  BY <1>1, HandledGiveUp
<1>2. CASE s.retr # 0 /\ t = SendEmpty([s EXCEPT !.retr = @ - 1], "FIN_ACK", {})
  <2> DEFINE u == [s EXCEPT !.retr = @ - 1]
  <2>1. /\ u \in Socket /\ SameCore(s, u) /\ u.st = s.st /\ u.up = s.up
        /\ u.out = s.out /\ u.retx = s.retx
    BY <1>2, HandledRetry
  <2>2. t = SendEmpty(u, "FIN_ACK", {})
    BY <1>2
  <2> HIDE DEF u
  <2> QED
    BY <1>0, <2>1, <2>2, HandledFinAgain
<1> QED
  BY <1>1, <1>2

-----------------------------------------------------------------------------
(* The invariant.                                                          *)

\* A request for a connection meets a server that has not been connected, and comes
\* before everything that the client sends when it is.
SynFirst(q, s) ==
    \A j \in 1..Len(q) : q[j].type = "SYN" =>
        s.head = 0 /\ \A i \in 1..j : q[i].type \notin {"ACK", "FIN_ACK"}

\* The part of each side.
Sides(c, s, straight) ==
    /\ ~c.shut /\ c.st # "SYN_RCVD" /\ c.retx.kind # "SYN_ACK"
    /\ c.head = 0 => c.rcv = 0
    /\ s.shut => Quiet(s)
    /\ s.up \/ s.rcv # 0 => s.shut
    /\ s.st # "SYN_SENT" /\ s.retx.kind # "SYN"
    /\ straight => Straight(s, c)

NodeInv(n) ==
    /\ Own(sock[n]) /\ Flow(sock[n], sock[Peer(n)]) /\ Settled(sock[n], sock[Peer(n)])
    /\ AllPk(net[Peer(n)], sock[n], sock[Peer(n)])

ConnInv ==
    /\ TypeOK
    /\ \A n \in Node : NodeInv(n)
    /\ Sides(sock[Client], sock[Server], Server \notin closed)
    /\ SynFirst(net[Server], sock[Server])

LEMMA SynFirstTail ==
    ASSUME NEW q \in Seq(Packet), q # <<>>, NEW s, SynFirst(q, s)
    PROVE  /\ SynFirst(Tail(q), s)
           /\ Head(q).type \in {"ACK", "FIN_ACK"} => NoSyn(Tail(q))
<1>1. Len(q) \in Nat /\ Len(q) >= 1 /\ Head(q) = q[1] /\ Len(Tail(q)) = Len(q) - 1
  OBVIOUS
<1>2. \A i \in 1..Len(Tail(q)) : Tail(q)[i] = q[i + 1] /\ i + 1 \in 1..Len(q)
  BY <1>1
<1>3. ASSUME NEW j \in 1..Len(Tail(q)), Tail(q)[j].type = "SYN", NEW i \in 1..j
      PROVE  s.head = 0 /\ Tail(q)[i].type \notin {"ACK", "FIN_ACK"} /\ q[1].type \notin {"ACK", "FIN_ACK"}
  <2>1. q[j + 1].type = "SYN" /\ j + 1 \in 1..Len(q) /\ i + 1 \in 1..(j + 1) /\ 1 \in 1..(j + 1)
    BY <1>1, <1>2, <1>3
  <2>2. i \in 1..Len(Tail(q))
    BY <1>1
  <2> QED
    BY <1>2, <2>1, <2>2 DEF SynFirst
<1>4. \A j \in 1..Len(Tail(q)) : j \in 1..j
  OBVIOUS
<1>5. SynFirst(Tail(q), s)
  BY <1>3, <1>4 DEF SynFirst
<1>6. Head(q).type \in {"ACK", "FIN_ACK"} => NoSyn(Tail(q))
  BY <1>1, <1>3, <1>4 DEF NoSyn
<1> QED
  BY <1>5, <1>6

LEMMA SynFirstNone ==
    ASSUME NEW q \in Seq(Packet), NEW s, NoSyn(q)
    PROVE  SynFirst(q, s)
BY DEF NoSyn, SynFirst

LEMMA NoneSynFirst ==
    ASSUME NEW q \in Seq(Packet), NEW s, SynFirst(q, s), s.head # 0
    PROVE  NoSyn(q)
BY DEF NoSyn, SynFirst

LEMMA SynFirstFresh ==
    ASSUME NEW q \in Seq(Packet), NEW s, NEW c, s.head = 0, c.head = 0, AllPk(q, c, s)
    PROVE  SynFirst(q, s)
<1> SUFFICES ASSUME NEW j \in 1..Len(q), NEW i \in 1..j PROVE q[i].type \notin {"ACK", "FIN_ACK"}
  BY DEF SynFirst
<1>1. i \in 1..Len(q)
  OBVIOUS
<1> QED
  BY <1>1 DEF AllPk, Pk

LEMMA SynFirstConcat ==
    ASSUME NEW q \in Seq(Packet), NEW x \in Seq(Packet), NEW s, SynFirst(q, s), NoSyn(x)
    PROVE  SynFirst(q \o x, s)
<1> SUFFICES ASSUME NEW j \in 1..Len(q \o x), (q \o x)[j].type = "SYN"
             PROVE  s.head = 0 /\ \A i \in 1..j : (q \o x)[i].type \notin {"ACK", "FIN_ACK"}
  BY DEF SynFirst
<1>1. \A i \in 1..Len(q \o x) : (q \o x)[i] = IF i <= Len(q) THEN q[i] ELSE x[i - Len(q)]
  OBVIOUS
<1>2. Len(q \o x) = Len(q) + Len(x) /\ Len(q) \in Nat /\ Len(x) \in Nat
  OBVIOUS
<1>3. j <= Len(q)
  <2> SUFFICES ASSUME j > Len(q) PROVE FALSE
    BY <1>2
  <2>1. (q \o x)[j] = x[j - Len(q)] /\ j - Len(q) \in 1..Len(x)
    BY <1>1, <1>2
  <2> QED
    BY <2>1 DEF NoSyn
<1>4. q[j].type = "SYN" /\ j \in 1..Len(q)
  BY <1>1, <1>2, <1>3
<1>5. s.head = 0 /\ \A i \in 1..j : q[i].type \notin {"ACK", "FIN_ACK"}
  BY <1>4 DEF SynFirst
<1>6. \A i \in 1..j : (q \o x)[i] = q[i]
  BY <1>1, <1>2, <1>3
<1> QED
  BY <1>5, <1>6

-----------------------------------------------------------------------------
(* A step of one node.                                                     *)

Empty(t) == [t EXCEPT !.out = <<>>]

LEMMA Emptied ==
    ASSUME NEW t, NEW p, Pair(t, p), Settled(t, p)
    PROVE  /\ Joined(Empty(t), p) /\ Settled(Empty(t), p) /\ Empty(t).out = <<>>
           /\ Later(t, Empty(t)) /\ SameCore(t, Empty(t)) /\ Empty(t).st = t.st
           /\ Empty(t).up = t.up /\ Empty(t).retx = t.retx
           /\ t.out \in Seq(Packet) /\ AllPk(t.out, Empty(t), p)
           /\ Empty(t).head # 0 => NoSyn(t.out)
<1> DEFINE u == Empty(t)
<1>0. t \in Socket /\ p \in Socket /\ t.out \in Seq(Packet) /\ <<>> \in Seq(Packet)
  <2>1. t \in Socket /\ p \in Socket
    BY DEF Pair, Joined
  <2>2. t.out \in Seq(Packet)
    BY <2>1 DEF Socket
  <2> QED
    BY <2>1, <2>2
<1>1. u \in Socket
  BY <1>0 DEF Empty, Socket
<1>2. SameCore(t, u) /\ u.st = t.st /\ u.up = t.up /\ u.retx = t.retx /\ u.out = <<>>
  BY <1>0 DEF Empty, Socket, SameCore
<1> HIDE DEF u
<1>3. Joined(u, p) /\ Later(t, u)
  BY <1>1, <1>2, Turned DEF Pair, Turn, Rearm
<1>4. Settled(u, p)
  BY <1>2, SettledSame
<1>5. AllPk(t.out, u, p)
  BY <1>0, <1>1, <1>3, AllPkLater, LaterSame DEF Pair
<1>6. u.head # 0 => NoSyn(t.out)
  BY <1>2 DEF Pair, SameCore
<1> QED
  BY <1>0, <1>2, <1>3, <1>4, <1>5, <1>6 DEF u

\* What is left for n after a step, a packet that is taken being the first one.
Rest(n, rest, taken) ==
    IF taken THEN net[n] # <<>> /\ rest = Tail(net[n]) ELSE rest = net[n]

LEMMA PairOf ==
    ASSUME ConnInv, NEW n \in Node
    PROVE  /\ Peer(n) \in Node /\ Peer(Peer(n)) = n /\ Peer(n) # n
           /\ Pair(sock[n], sock[Peer(n)]) /\ sock[n].out = <<>>
           /\ Settled(sock[n], sock[Peer(n)]) /\ Told(sock[Peer(n)])
           /\ Joined(sock[Peer(n)], sock[n]) /\ Settled(sock[Peer(n)], sock[n])
           /\ net[n] \in Seq(Packet) /\ AllPk(net[n], sock[Peer(n)], sock[n])
           /\ net[Peer(n)] \in Seq(Packet) /\ AllPk(net[Peer(n)], sock[n], sock[Peer(n)])
<1>1. Peer(n) \in Node /\ Peer(Peer(n)) = n /\ Peer(n) # n
  BY DEF Node, Peer, Client, Server
<1>2. /\ sock[n] \in Socket /\ sock[Peer(n)] \in Socket /\ sock[n].out = <<>>
      /\ net[n] \in Seq(Packet) /\ net[Peer(n)] \in Seq(Packet)
  BY <1>1 DEF ConnInv, TypeOK
<1>3. NodeInv(n) /\ NodeInv(Peer(n))
  BY <1>1 DEF ConnInv
<1>4. AllPk(<<>>, sock[n], sock[Peer(n)]) /\ NoSyn(<<>>)
  BY DEF AllPk, NoSyn
<1> QED
  BY <1>1, <1>2, <1>3, <1>4 DEF NodeInv, Pair, Joined, Settled

LEMMA Keeping ==
    ASSUME ConnInv, NEW n \in Node, NEW t, NEW taken \in BOOLEAN, NEW rest,
           Pair(t, sock[Peer(n)]), Settled(t, sock[Peer(n)]), Later(sock[n], t),
           Rest(n, rest, taken),
           sock' = [sock EXCEPT ![n] = Empty(t)],
           net' = [net EXCEPT ![n] = rest, ![Peer(n)] = @ \o t.out],
           listening' \in BOOLEAN, closed' \subseteq Node, lost' \in 0..MaxLost, early' \in 0..MaxEarly,
           Sides(sock'[Client], sock'[Server], Server \notin closed'),
           t.head # 0 /\ sock[n].head = 0 =>
               n = Client \/ (taken /\ Head(net[n]).type \in {"ACK", "FIN_ACK"})
    PROVE  ConnInv'
<1> DEFINE s == sock[n]
           p == sock[Peer(n)]
           u == Empty(t)
<1>1. /\ Peer(n) \in Node /\ Peer(Peer(n)) = n /\ Peer(n) # n
      /\ Pair(s, p) /\ s.out = <<>> /\ Settled(s, p) /\ Joined(p, s) /\ Settled(p, s)
      /\ net[n] \in Seq(Packet) /\ AllPk(net[n], p, s)
      /\ net[Peer(n)] \in Seq(Packet) /\ AllPk(net[Peer(n)], s, p)
  BY PairOf
<1>2. /\ Joined(u, p) /\ Settled(u, p) /\ u.out = <<>>
      /\ Later(t, u) /\ SameCore(t, u)
      /\ t.out \in Seq(Packet) /\ AllPk(t.out, u, p)
      /\ u.head # 0 => NoSyn(t.out)
  BY Emptied
<1>3. s \in Socket /\ p \in Socket /\ t \in Socket /\ u \in Socket
  BY <1>1, <1>2 DEF Pair, Joined
<1>4. Later(s, u)
  BY <1>2, <1>3, LaterTwice
<1>5. sock'[n] = u /\ sock'[Peer(n)] = p /\ net'[n] = rest /\ net'[Peer(n)] = net[Peer(n)] \o t.out
  BY <1>1 DEF ConnInv, TypeOK
<1>6. rest \in Seq(Packet) /\ AllPk(rest, p, s)
  BY <1>1, AllPkTail DEF Rest
<1>7. AllPk(rest, p, u)
  BY <1>3, <1>4, <1>6, AllPkLater, LaterSame
<1>8. net[Peer(n)] \o t.out \in Seq(Packet) /\ AllPk(net[Peer(n)] \o t.out, u, p)
  <2>1. AllPk(net[Peer(n)], u, p)
    BY <1>1, <1>3, <1>4, AllPkLater, LaterSame
  <2> QED
    BY <1>1, <1>2, <2>1, AllPkConcat
<1>9. Settled(p, u)
  BY <1>1, <1>4 DEF Settled, Waits, Later
<1>10. \A x \in Node : x = n \/ x = Peer(n)
  BY DEF Node, Peer, Client, Server
<1>11. TypeOK'
  <2>1. sock' \in [Node -> Socket]
    BY <1>3 DEF ConnInv, TypeOK
  <2>2. \A x \in Node : sock'[x].out = <<>>
    BY <1>1, <1>2, <1>5, <1>10 DEF ConnInv, TypeOK
  <2>3. net' \in [Node -> Seq(Packet)]
    BY <1>6, <1>8 DEF ConnInv, TypeOK
  <2> QED
    BY <2>1, <2>2, <2>3 DEF TypeOK
<1>12. ASSUME NEW x \in Node PROVE NodeInv(x)'
  <2>1. CASE x = n
    BY <1>2, <1>5, <1>8, <2>1 DEF NodeInv, Joined
  <2>2. CASE x = Peer(n)
    BY <1>1, <1>2, <1>5, <1>7, <1>9, <2>2 DEF NodeInv, Joined
  <2> QED
    BY <1>10, <2>1, <2>2
<1>13. SynFirst(net'[Server], sock'[Server])
  <2>0. SynFirst(net[Server], sock[Server])
    BY DEF ConnInv
  <2>1. CASE n = Client
    <3>1. Peer(n) = Server
      BY <2>1 DEF Peer, Client, Server
    <3>2. CASE u.head # 0
      <4>1. NoSyn(t.out) /\ SynFirst(net[Peer(n)], p)
        BY <1>2, <2>0, <3>1, <3>2
      <4> QED
        BY <1>1, <1>2, <1>5, <3>1, <4>1, SynFirstConcat
    <3>3. CASE u.head = 0
      <4>1. u.rcv = 0
        BY <1>5, <2>1, <3>3 DEF Sides
      <4>2. p.head <= u.rcv
        BY <1>2 DEF Joined, Flow
      <4>3. p.head \in Nat
        BY <1>3 DEF Socket
      <4>4. p.head = 0
        BY <4>1, <4>2, <4>3
      <4> QED
        BY <1>5, <1>8, <3>1, <3>3, <4>4, SynFirstFresh
    <3> QED
      BY <3>2, <3>3
  <2>2. CASE n = Server
    <3>1. SynFirst(rest, s)
      BY <1>1, <2>0, <2>2, SynFirstTail DEF Rest
    <3>2. CASE u.head = 0
      <4> SUFFICES SynFirst(rest, u)
        BY <1>5, <2>2
      <4> QED
        BY <3>1, <3>2 DEF SynFirst
    <3>3. CASE u.head # 0
      <4>1. NoSyn(rest)
        <5>1. CASE s.head # 0
          BY <1>6, <3>1, <5>1, NoneSynFirst
        <5>2. CASE s.head = 0
          <6>1. taken /\ Head(net[n]).type \in {"ACK", "FIN_ACK"}
            BY <1>2, <2>2, <3>3, <5>2 DEF SameCore, Client, Server
          <6> QED
            BY <1>1, <2>0, <2>2, <6>1, SynFirstTail DEF Rest
        <5> QED
          BY <5>1, <5>2
      <4> QED
        BY <1>5, <1>6, <2>2, <4>1, SynFirstNone
    <3> QED
      BY <3>2, <3>3
  <2> QED
    BY <2>1, <2>2 DEF Node
<1> QED
  BY <1>11, <1>12, <1>13 DEF ConnInv

\* Everything but a fork keeps the part of each side.
LEMMA Step ==
    ASSUME ConnInv, NEW n \in Node, NEW t, NEW taken \in BOOLEAN, NEW rest,
           Moves(sock[n], t, sock[Peer(n)]), Settled(t, sock[Peer(n)]),
           n = Server /\ Server \notin closed' => Direct(sock[n], t, sock[Peer(n)]),
           Rest(n, rest, taken),
           sock' = [sock EXCEPT ![n] = Empty(t)],
           net' = [net EXCEPT ![n] = rest, ![Peer(n)] = @ \o t.out],
           listening' \in BOOLEAN, closed \subseteq closed', closed' \subseteq Node,
           lost' \in 0..MaxLost, early' \in 0..MaxEarly,
           t.head # 0 /\ sock[n].head = 0 =>
               sock[n].up /\ (n = Client \/ (taken /\ Head(net[n]).type \in {"ACK", "FIN_ACK"}))
    PROVE  ConnInv'
<1> DEFINE s == sock[n]
           p == sock[Peer(n)]
           u == Empty(t)
<1>1. Pair(s, p) /\ Peer(n) # n /\ Peer(n) \in Node /\ Peer(Peer(n)) = n
  BY PairOf
<1>2. Pair(t, p) /\ Later(s, t) /\ Keeps(s, t)
  BY DEF Moves
<1>3. Joined(u, p) /\ SameCore(t, u) /\ u.st = t.st /\ u.up = t.up /\ u.retx = t.retx
  BY <1>2, Emptied
<1>4. sock'[n] = u /\ sock'[Peer(n)] = p
  BY <1>1 DEF ConnInv, TypeOK
<1>5. Sides(sock[Client], sock[Server], Server \notin closed)
  BY DEF ConnInv
<1>6. Sides(sock'[Client], sock'[Server], Server \notin closed')
  <2>1. CASE n = Client
    <3>1. Peer(n) = Server
      BY <2>1 DEF Peer, Client, Server
    <3>2. Server \notin closed' => Straight(p, u)
      <4>1. p.fin # 0 => FinSent(s)
        BY <1>1 DEF Pair, Joined, Flow
      <4>2. p.fin # 0 => u.high = s.high
        BY <1>2, <1>3, <4>1 DEF Later, SameCore
      <4>3. Server \notin closed' => Straight(p, s)
        BY <1>5, <2>1, <3>1 DEF Sides
      <4> QED
        BY <4>2, <4>3 DEF Straight
    <3>3. ~u.shut /\ u.st # "SYN_RCVD" /\ u.retx.kind # "SYN_ACK"
      BY <1>2, <1>3, <1>5, <2>1 DEF Sides, Keeps, SameCore
    <3>4. u.head = 0 => u.rcv = 0
      BY <1>2, <1>3, <1>5, <2>1 DEF Sides, Keeps, SameCore
    <3> QED
      BY <1>4, <1>5, <2>1, <3>1, <3>2, <3>3, <3>4 DEF Sides
  <2>2. CASE n = Server
    <3>1. Peer(n) = Client
      BY <2>2 DEF Peer, Client, Server
    <3>2. u.up \/ u.rcv # 0 => u.shut
      <4>1. u.shut = s.shut /\ (u.up => s.up)
        BY <1>2, <1>3 DEF Keeps, SameCore
      <4>2. s.up \/ s.rcv # 0 => s.shut
        BY <1>5, <2>2 DEF Sides
      <4>3. u.rcv # 0 => s.rcv # 0 \/ s.up
        BY <1>1, <1>2, <1>3 DEF Keeps, SameCore, Pair, Joined, Own, Connection
      <4> QED
        BY <4>1, <4>2, <4>3
    <3>3. u.shut => Quiet(u)
      BY <1>2, <1>3, <1>5, <2>2 DEF Sides, Keeps, SameCore, Quiet
    <3>4. u.st # "SYN_SENT" /\ u.retx.kind # "SYN"
      BY <1>2, <1>3, <1>5, <2>2 DEF Sides, Keeps
    <3>5. Server \notin closed' => Straight(u, p)
      <4> SUFFICES ASSUME Server \notin closed' PROVE Straight(u, p)
        OBVIOUS
      <4>1. Straight(s, p) /\ Direct(s, t, p)
        BY <1>5, <2>2, <3>1 DEF Sides
      <4>2. CASE s.shut
        BY <1>3, <4>1, <4>2 DEF Direct, Straight, SameCore
      <4>3. CASE ~s.shut
        <5>1. u.rcv = 0
          BY <1>2, <1>3, <3>2, <4>3 DEF Keeps, SameCore
        <5>2. Unconnected(u)
          BY <1>3, <5>1 DEF Joined, Own, Connection
        <5> QED
          BY <5>2 DEF Unconnected, Straight
      <4> QED
        BY <4>2, <4>3
    <3> QED
      BY <1>4, <1>5, <2>2, <3>1, <3>2, <3>3, <3>4, <3>5 DEF Sides
  <2> QED
    BY <2>1, <2>2 DEF Node
<1> QED
  BY <1>2, <1>6, Keeping

LEMMA StepAlone ==
    ASSUME ConnInv, NEW n \in Node, NEW t, Becomes(n, t),
           Moves(sock[n], t, sock[Peer(n)]), Settled(t, sock[Peer(n)]),
           n = Server /\ Server \notin closed' => Direct(sock[n], t, sock[Peer(n)]),
           listening' \in BOOLEAN, closed \subseteq closed', closed' \subseteq Node,
           lost' \in 0..MaxLost, early' \in 0..MaxEarly,
           t.head # 0 => sock[n].head # 0
    PROVE  ConnInv'
<1>1. Peer(n) # n /\ Peer(n) \in Node
  BY PairOf
<1>2. net \in [Node -> Seq(Packet)]
  BY DEF ConnInv, TypeOK
<1>3. net' = [net EXCEPT ![n] = net[n], ![Peer(n)] = @ \o t.out]
  BY <1>1, <1>2 DEF Becomes
<1>4. sock' = [sock EXCEPT ![n] = Empty(t)]
  BY DEF Becomes, Empty
<1>5. Rest(n, net[n], FALSE)
  BY DEF Rest
<1> QED
  BY <1>3, <1>4, <1>5, Step

LEMMA StepReceived ==
    ASSUME ConnInv, NEW n \in Node, NEW t, BecomesOnReceipt(n, t), net[n] # <<>>,
           Handled(sock[n], t, sock[Peer(n)]),
           t.head # 0 /\ sock[n].head = 0 =>
               sock[n].up /\ (n = Client \/ Head(net[n]).type \in {"ACK", "FIN_ACK"})
    PROVE  ConnInv'
<1>1. listening' \in BOOLEAN /\ closed' = closed /\ closed' \subseteq Node /\ lost' \in 0..MaxLost /\ early' \in 0..MaxEarly
  BY DEF ConnInv, TypeOK, BecomesOnReceipt
<1>2. sock' = [sock EXCEPT ![n] = Empty(t)]
  BY DEF BecomesOnReceipt, Empty
<1> DEFINE rest == Tail(net[n])
<1>3. net' = [net EXCEPT ![n] = rest, ![Peer(n)] = @ \o t.out]
  BY DEF BecomesOnReceipt
<1>4. Rest(n, rest, TRUE)
  BY DEF Rest
<1> HIDE DEF rest
<1> QED
  BY <1>1, <1>2, <1>3, <1>4, Step DEF Handled

\* What a handler needs to know of the packet it takes.
LEMMA Taken ==
    ASSUME ConnInv, NEW n \in Node, net[n] # <<>>
    PROVE  /\ Head(net[n]) \in Packet /\ Pk(Head(net[n]), sock[Peer(n)], sock[n])
           /\ sock[n].up => OneWay(sock[n], sock[Peer(n)])
<1>1. Head(net[n]) \in Packet /\ Pk(Head(net[n]), sock[Peer(n)], sock[n])
  BY PairOf, AllPkTail
<1>2. Sides(sock[Client], sock[Server], Server \notin closed)
  BY DEF ConnInv
<1>3. CASE n = Client
  <2>1. Peer(n) = Server
    BY <1>3 DEF Peer, Client, Server
  <2>2. Quiet(sock[Server])
    <3>1. CASE sock[Server].shut
      BY <1>2, <3>1 DEF Sides
    <3>2. CASE ~sock[Server].shut
      <4>1. sock[Server].rcv = 0
        BY <1>2, <3>2 DEF Sides
      <4>2. Own(sock[Server])
        BY DEF ConnInv, NodeInv, Node
      <4> QED
        BY <4>1, <4>2 DEF Own, Connection, Unconnected, Quiet
    <3> QED
      BY <3>1, <3>2
  <2> QED
    BY <1>1, <1>2, <1>3, <2>1, <2>2 DEF Sides, OneWay
<1>4. CASE n = Server
  BY <1>1, <1>2, <1>4 DEF Sides, OneWay
<1> QED
  BY <1>3, <1>4 DEF Node

LEMMA ShutQuiet ==
    ASSUME ConnInv, NEW n \in Node
    PROVE  /\ sock[n].shut => n = Server /\ Quiet(sock[n])
           /\ n = Server /\ sock[n].up => sock[n].shut
BY DEF ConnInv, Sides, Node

-----------------------------------------------------------------------------
(* Receiving.                                                              *)

\* The load of the path is stored before the packet is handled.
Laden(s, load) == [s EXCEPT !.load = load]

LEMMA LadenFirst ==
    ASSUME ConnInv, NEW n \in Node, net[n] # <<>>, sock[n].up, NEW load \in PathLoads,
           NEW s, s = Laden(sock[n], load)
    PROVE  /\ Handled(sock[n], s, sock[Peer(n)]) /\ Unmoved(sock[n], s)
           /\ Pair(s, sock[Peer(n)]) /\ Settled(s, sock[Peer(n)]) /\ Told(sock[Peer(n)])
           /\ OneWay(s, sock[Peer(n)]) /\ s.up /\ s.out = <<>>
           /\ Head(net[n]) \in Packet /\ Pk(Head(net[n]), sock[Peer(n)], s)
<1> DEFINE r == sock[n]
           p == sock[Peer(n)]
           m == Head(net[n])
<1>1. Pair(r, p) /\ Settled(r, p) /\ Told(p) /\ r.out = <<>>
  BY PairOf
<1>2. load \in Load
  BY LoadAssumption
<1>3. s = [r EXCEPT !.load = load]
  BY DEF Laden
<1>4. m \in Packet /\ Pk(m, p, r) /\ OneWay(r, p)
  BY Taken
<1> HIDE DEF r, p, m
<1>5. Handled(r, s, p) /\ Unmoved(r, s) /\ s.up = r.up /\ s.out = r.out
  BY <1>1, <1>2, <1>3, HandledLoad
<1>6. Pair(s, p) /\ Settled(s, p) /\ Later(r, s)
  BY <1>5 DEF Handled, Moves
<1>7. r \in Socket /\ p \in Socket /\ s \in Socket
  BY <1>1, <1>6 DEF Pair, Joined
<1>8. Pk(m, p, s)
  BY <1>4, <1>6, <1>7, PkLater, LaterSame
<1>9. OneWay(s, p)
  BY <1>4, <1>5 DEF OneWay, Unmoved, SameCore, Quiet
<1> QED
  BY <1>1, <1>4, <1>5, <1>6, <1>8, <1>9 DEF r, p, m

LEMMA StepForwardUp ==
    ASSUME ConnInv, NEW n \in Node, net[n] # <<>>, sock[n].up, NEW load \in PathLoads,
           NEW t, BecomesOnReceipt(n, t), Handled(Laden(sock[n], load), t, sock[Peer(n)]),
           t.head # 0 /\ sock[n].head = 0 =>
               n = Client \/ Head(net[n]).type \in {"ACK", "FIN_ACK"}
    PROVE  ConnInv'
<1> DEFINE s == Laden(sock[n], load)
<1>1. Handled(sock[n], s, sock[Peer(n)])
  BY LadenFirst
<1>2. sock[n] \in Socket /\ s \in Socket /\ t \in Socket
  BY <1>1, PairOf DEF Handled, Moves, Pair, Joined
<1> HIDE DEF s
<1>3. Handled(sock[n], t, sock[Peer(n)])
  BY <1>1, <1>2, HandledTwice DEF s
<1> QED
  BY <1>3, StepReceived

LEMMA StepOutOfRange ==
    ASSUME ConnInv, NEW n \in Node, net[n] # <<>>, OutOfRange(sock[n], Head(net[n])),
           BecomesOnReceipt(n, SendAck(sock[n]))
    PROVE  ConnInv'
<1>1. Pair(sock[n], sock[Peer(n)]) /\ Settled(sock[n], sock[Peer(n)])
  BY PairOf
<1>2. sock[n].head # 0
  <2>1. Head(net[n]).len > 0
    BY DEF OutOfRange
  <2>2. Head(net[n]) \in Packet /\ Pk(Head(net[n]), sock[Peer(n)], sock[n])
    BY Taken
  <2>3. SUFFICES ASSUME sock[n].head = 0 PROVE sock[n].st \in {"CLOSED", "SYN_SENT", "SYN_RCVD"}
    BY DEF OutOfRange
  <2> QED
    BY <1>1, <2>3 DEF Pair, Joined, Own, Unconnected
<1> DEFINE t == SendAck(sock[n])
<1>3. BecomesOnReceipt(n, t)
  OBVIOUS
<1>4. t = SendAck(sock[n])
  OBVIOUS
<1> HIDE DEF t
<1>5. Handled(sock[n], t, sock[Peer(n)])
  BY <1>1, <1>2, <1>4, HandledAck
<1> QED
  BY <1>2, <1>3, <1>5, StepReceived

\* After the handshake the packet opens nothing.
LEMMA StatesOpen ==
    ASSUME ConnInv, NEW n \in Node,
           sock[n].st \notin {"CLOSED", "SYN_SENT", "SYN_RCVD"}
    PROVE  sock[n].head # 0
BY PairOf DEF Pair, Joined, Own, Unconnected

LEMMA ReceiveSynSentKeeps ==
    ASSUME ConnInv, NEW n \in Node, ReceiveSynSent(n)
    PROVE  ConnInv'
<1> DEFINE m == Head(net[n])
           p == sock[Peer(n)]
<1>1. net[n] # <<>> /\ sock[n].up /\ sock[n].st = "SYN_SENT"
  BY DEF ReceiveSynSent, ForwardUp
<1>2. ASSUME NEW load \in PathLoads, BecomesOnReceipt(n, ProcessSynSent(Laden(sock[n], load), m))
      PROVE  ConnInv'
  <2> DEFINE s == Laden(sock[n], load)
             t == ProcessSynSent(s, m)
  <2>1. n = Client
    BY <1>1 DEF ConnInv, Sides, Node
  <2>2. ~sock[n].shut
    BY <2>1 DEF ConnInv, Sides
  <2>3. /\ Unmoved(sock[n], s) /\ Pair(s, p) /\ Settled(s, p) /\ s.out = <<>>
        /\ m \in Packet /\ Pk(m, p, s)
    BY <1>1, LadenFirst
  <2>4. t = ProcessSynSent(s, m)
    OBVIOUS
  <2>5. BecomesOnReceipt(n, t)
    BY <1>2
  <2> HIDE DEF t, m, p
  <2>6. Handled(s, t, p)
    <3> HIDE DEF s
    <3> QED
      BY <1>1, <2>2, <2>3, <2>4, HandledSynSent DEF Unmoved, SameCore
  <2> QED
    BY <1>1, <2>1, <2>5, <2>6, StepForwardUp DEF p
<1> QED
  BY <1>1, <1>2, StepOutOfRange DEF ReceiveSynSent, ForwardUp, Laden

LEMMA ReceiveSynRcvdKeeps ==
    ASSUME ConnInv, NEW n \in Node, ReceiveSynRcvd(n)
    PROVE  ConnInv'
<1> DEFINE m == Head(net[n])
           p == sock[Peer(n)]
<1>1. net[n] # <<>> /\ sock[n].up /\ sock[n].st = "SYN_RCVD"
  BY DEF ReceiveSynRcvd, ForwardUp
<1>2. ASSUME NEW load \in PathLoads, BecomesOnReceipt(n, ProcessSynRcvd(Laden(sock[n], load), m))
      PROVE  ConnInv'
  <2> DEFINE s == Laden(sock[n], load)
             t == ProcessSynRcvd(s, m)
  <2>1. n = Server
    BY <1>1 DEF ConnInv, Sides, Node
  <2>2. sock[n].shut /\ Quiet(sock[n])
    BY <1>1, <2>1, ShutQuiet
  <2>3. /\ Unmoved(sock[n], s) /\ Pair(s, p) /\ Settled(s, p) /\ Told(p) /\ s.up /\ s.out = <<>>
        /\ m \in Packet /\ Pk(m, p, s)
    BY <1>1, LadenFirst
  <2>4. t = ProcessSynRcvd(s, m)
    OBVIOUS
  <2>5. BecomesOnReceipt(n, t)
    BY <1>2
  <2> HIDE DEF t, m, p
  <2>6. Handled(s, t, p) /\ (t.head # 0 => m.type \in {"ACK", "FIN_ACK"})
    <3> HIDE DEF s
    <3>1. s.st = "SYN_RCVD" /\ s.shut /\ Quiet(s)
      BY <1>1, <2>2, <2>3 DEF Unmoved, SameCore, Quiet
    <3> QED
      BY <2>3, <2>4, <3>1, HandledSynRcvd
  <2> QED
    BY <1>1, <2>5, <2>6, StepForwardUp DEF p, m
<1> QED
  BY <1>1, <1>2, StepOutOfRange DEF ReceiveSynRcvd, ForwardUp, Laden

LEMMA ReceiveEstablishedKeeps ==
    ASSUME ConnInv, NEW n \in Node, ReceiveEstablished(n)
    PROVE  ConnInv'
<1> DEFINE m == Head(net[n])
           p == sock[Peer(n)]
<1>1. net[n] # <<>> /\ sock[n].up /\ sock[n].st = "ESTABLISHED"
  BY DEF ReceiveEstablished, ForwardUp
<1>2. ASSUME NEW load \in PathLoads, BecomesOnReceipt(n, ProcessEstablished(Laden(sock[n], load), m))
      PROVE  ConnInv'
  <2> DEFINE s == Laden(sock[n], load)
             t == ProcessEstablished(s, m)
  <2>1. sock[n].head # 0
    BY <1>1, StatesOpen
  <2>2. /\ Unmoved(sock[n], s) /\ Pair(s, p) /\ Settled(s, p) /\ Told(p) /\ OneWay(s, p) /\ s.up
        /\ m \in Packet /\ Pk(m, p, s)
    BY <1>1, LadenFirst
  <2>3. t = ProcessEstablished(s, m)
    OBVIOUS
  <2>4. BecomesOnReceipt(n, t)
    BY <1>2
  <2> HIDE DEF t, m, p
  <2>5. Handled(s, t, p)
    <3> HIDE DEF s
    <3> QED
      BY <1>1, <2>2, <2>3, HandledEstablished DEF Unmoved
  <2> QED
    BY <1>1, <2>1, <2>4, <2>5, StepForwardUp DEF p
<1> QED
  BY <1>1, <1>2, StepOutOfRange DEF ReceiveEstablished, ForwardUp, Laden

LEMMA ReceiveWaitKeeps ==
    ASSUME ConnInv, NEW n \in Node, ReceiveWait(n)
    PROVE  ConnInv'
<1> DEFINE m == Head(net[n])
           p == sock[Peer(n)]
<1>1. net[n] # <<>> /\ sock[n].up /\ sock[n].st \in {"CLOSE_WAIT", "FIN_WAIT_1", "FIN_WAIT_2"}
  BY DEF ReceiveWait, ForwardUp
<1>2. ASSUME NEW load \in PathLoads, BecomesOnReceipt(n, ProcessWait(Laden(sock[n], load), m))
      PROVE  ConnInv'
  <2> DEFINE s == Laden(sock[n], load)
             t == ProcessWait(s, m)
  <2>1. sock[n].head # 0
    BY <1>1, StatesOpen
  <2>2. /\ Unmoved(sock[n], s) /\ Pair(s, p) /\ Settled(s, p) /\ Told(p) /\ OneWay(s, p) /\ s.up
        /\ m \in Packet /\ Pk(m, p, s)
    BY <1>1, LadenFirst
  <2>3. t = ProcessWait(s, m)
    OBVIOUS
  <2>4. BecomesOnReceipt(n, t)
    BY <1>2
  <2> HIDE DEF t, m, p
  <2>5. Handled(s, t, p)
    <3> HIDE DEF s
    <3> QED
      BY <1>1, <2>2, <2>3, HandledWait DEF Unmoved
  <2> QED
    BY <1>1, <2>1, <2>4, <2>5, StepForwardUp DEF p
<1> QED
  BY <1>1, <1>2, StepOutOfRange DEF ReceiveWait, ForwardUp, Laden

LEMMA ReceiveClosingKeeps ==
    ASSUME ConnInv, NEW n \in Node, ReceiveClosing(n)
    PROVE  ConnInv'
<1> DEFINE m == Head(net[n])
           p == sock[Peer(n)]
<1>1. net[n] # <<>> /\ sock[n].up /\ sock[n].st = "CLOSING"
  BY DEF ReceiveClosing, ForwardUp
<1>2. ASSUME NEW load \in PathLoads, BecomesOnReceipt(n, ProcessClosing(Laden(sock[n], load), m))
      PROVE  ConnInv'
  <2> DEFINE s == Laden(sock[n], load)
             t == ProcessClosing(s, m)
  <2>1. sock[n].head # 0
    BY <1>1, StatesOpen
  <2>2. Unmoved(sock[n], s) /\ Pair(s, p) /\ Settled(s, p)
    BY <1>1, LadenFirst
  <2>3. t = ProcessClosing(s, m)
    OBVIOUS
  <2>4. BecomesOnReceipt(n, t)
    BY <1>2
  <2> HIDE DEF t, m, p
  <2>5. Handled(s, t, p)
    <3> HIDE DEF s
    <3> QED
      BY <1>1, <2>2, <2>3, HandledClosing DEF Unmoved
  <2> QED
    BY <1>1, <2>1, <2>4, <2>5, StepForwardUp DEF p
<1> QED
  BY <1>1, <1>2, StepOutOfRange DEF ReceiveClosing, ForwardUp, Laden

LEMMA ReceiveLastAckKeeps ==
    ASSUME ConnInv, NEW n \in Node, ReceiveLastAck(n)
    PROVE  ConnInv'
<1> DEFINE m == Head(net[n])
           p == sock[Peer(n)]
<1>1. net[n] # <<>> /\ sock[n].up /\ sock[n].st = "LAST_ACK"
  BY DEF ReceiveLastAck, ForwardUp
<1>2. ASSUME NEW load \in PathLoads, BecomesOnReceipt(n, ProcessLastAck(Laden(sock[n], load), m))
      PROVE  ConnInv'
  <2> DEFINE s == Laden(sock[n], load)
             t == ProcessLastAck(s, m)
  <2>1. sock[n].head # 0
    BY <1>1, StatesOpen
  <2>2. Pair(s, p) /\ Settled(s, p)
    BY <1>1, LadenFirst
  <2>3. t = ProcessLastAck(s, m)
    OBVIOUS
  <2>4. BecomesOnReceipt(n, t)
    BY <1>2
  <2> HIDE DEF t, m, p
  <2>5. Handled(s, t, p)
    <3> HIDE DEF s
    <3> QED
      BY <2>2, <2>3, HandledLastAck
  <2> QED
    BY <1>1, <2>1, <2>4, <2>5, StepForwardUp DEF p
<1> QED
  BY <1>1, <1>2, StepOutOfRange DEF ReceiveLastAck, ForwardUp, Laden

LEMMA ReceiveTimeWaitKeeps ==
    ASSUME ConnInv, NEW n \in Node, ReceiveTimeWait(n)
    PROVE  ConnInv'
<1> DEFINE p == sock[Peer(n)]
<1>1. net[n] # <<>> /\ sock[n].up /\ sock[n].st = "TIME_WAIT"
  BY DEF ReceiveTimeWait, ForwardUp
<1>2. ASSUME NEW load \in PathLoads, BecomesOnReceipt(n, Laden(sock[n], load))
      PROVE  ConnInv'
  <2> DEFINE s == Laden(sock[n], load)
  <2>1. sock[n].head # 0
    BY <1>1, StatesOpen
  <2>2. Pair(s, p) /\ Settled(s, p)
    BY <1>1, LadenFirst
  <2>3. BecomesOnReceipt(n, s)
    BY <1>2
  <2>4. Handled(s, s, p)
    BY <2>2, HandledSelf
  <2> HIDE DEF p
  <2> QED
    BY <1>1, <2>1, <2>3, <2>4, StepForwardUp DEF p
<1> QED
  BY <1>1, <1>2, StepOutOfRange DEF ReceiveTimeWait, ForwardUp, Laden, Ignore

-----------------------------------------------------------------------------
(* Packets for nobody, packets that are lost.                              *)

LEMMA ResetKeeps ==
    ASSUME NEW s, NEW p, Pair(s, p), Settled(s, p), NEW x,
           x = <<>> \/ \E m \in Packet : m.type \in {"RST", "RST_ACK"} /\ m.len = 0 /\ x = <<m>>,
           NEW t, t = [s EXCEPT !.out = x]
    PROVE  Handled(s, t, p) /\ t.head = s.head
<1>0. s \in Socket /\ p \in Socket /\ Joined(s, p)
  BY DEF Pair, Joined
<1>1. x \in Seq(Packet) /\ AllPk(x, t, p) /\ NoSyn(x)
  <2>1. CASE x = <<>>
    BY <2>1 DEF AllPk, NoSyn
  <2>2. ASSUME NEW m \in Packet, m.type \in {"RST", "RST_ACK"}, m.len = 0, x = <<m>>
        PROVE  x \in Seq(Packet) /\ AllPk(x, t, p) /\ NoSyn(x)
    <3>1. Len(x) = 1 /\ x[1] = m /\ x \in Seq(Packet)
      BY <2>2
    <3>2. Pk(m, t, p) /\ m.type # "SYN"
      BY <2>2 DEF Pk
    <3> QED
      BY <3>1, <3>2 DEF AllPk, NoSyn
  <2> QED
    BY <2>1, <2>2
<1>2. t \in Socket
  BY <1>0, <1>1 DEF Socket
<1>3. SameCore(s, t) /\ t.st = s.st /\ t.up = s.up /\ t.retx = s.retx /\ t.out = x
  BY <1>0 DEF Socket, SameCore
<1>4. Joined(t, p) /\ Later(s, t) /\ Keeps(s, t)
  BY <1>0, <1>2, <1>3, Turned DEF Turn, Rearm
<1>5. Moves(s, t, p)
  BY <1>1, <1>3, <1>4 DEF Moves, Pair
<1>6. Handled(s, t, p)
  BY <1>3, <1>5, HandledSame
<1> QED
  BY <1>3, <1>6 DEF SameCore

LEMMA NoEndPointsFoundKeeps ==
    ASSUME ConnInv, NEW n \in Node, NoEndPointsFound(n)
    PROVE  ConnInv'
<1> DEFINE m == Head(net[n])
           reply(type, seq, ack) ==
               <<[type |-> type, len |-> 0, seq |-> seq, ack |-> ack, bits |-> {}]>>
           x == CASE m.type = "RST" \/ m.type = "RST_ACK" -> <<>>
                  [] m.type = "SYN" -> reply("RST_ACK", 0, m.seq + 1)
                  [] OTHER -> reply("RST", m.ack, 0)
           t == [sock[n] EXCEPT !.out = x]
<1>1. net[n] # <<>> /\ BecomesOnReceipt(n, t)
  BY DEF NoEndPointsFound
<1>2. m \in Packet
  BY <1>1, Taken
<1>3. x = <<>> \/ \E k \in Packet : k.type \in {"RST", "RST_ACK"} /\ k.len = 0 /\ x = <<k>>
  <2> DEFINE a == [type |-> "RST_ACK", len |-> 0, seq |-> 0, ack |-> m.seq + 1, bits |-> {}]
             b == [type |-> "RST", len |-> 0, seq |-> m.ack, ack |-> 0, bits |-> {}]
  <2>1. x \in {<<>>, <<a>>, <<b>>}
    OBVIOUS
  <2>2. m.seq \in Nat /\ m.ack \in Nat /\ {} \in Load /\ 0 \in 0..1 /\ 0 \in Nat
    BY <1>2 DEF Packet, Load
  <2>3. a \in Packet /\ a.type = "RST_ACK" /\ a.len = 0
    BY <2>2 DEF Packet, PacketType
  <2>4. b \in Packet /\ b.type = "RST" /\ b.len = 0
    BY <2>2 DEF Packet, PacketType
  <2> HIDE DEF a, b, x
  <2> QED
    BY <2>1, <2>3, <2>4
<1> HIDE DEF x, m
<1>4. Pair(sock[n], sock[Peer(n)]) /\ Settled(sock[n], sock[Peer(n)])
  BY PairOf
<1>5. Handled(sock[n], t, sock[Peer(n)]) /\ t.head = sock[n].head
  BY <1>3, <1>4, ResetKeeps
<1> HIDE DEF t
<1> QED
  BY <1>1, <1>5, StepReceived

LEMMA EmptyAlready ==
    ASSUME NEW t \in Socket, t.out = <<>>
    PROVE  Empty(t) = t
BY DEF Empty, Socket

LEMMA LosePacketKeeps ==
    ASSUME ConnInv, NEW n \in Node, LosePacket(n)
    PROVE  ConnInv'
<1> DEFINE s == sock[n]
           rest == Tail(net[n])
<1>1. /\ Pair(s, sock[Peer(n)]) /\ Settled(s, sock[Peer(n)]) /\ s.out = <<>>
      /\ Peer(n) \in Node /\ Peer(n) # n /\ net[Peer(n)] \in Seq(Packet)
  BY PairOf
<1>2. Handled(s, s, sock[Peer(n)]) /\ s \in Socket
  BY <1>1, HandledSelf DEF Pair, Joined
<1>3. TypeOK
  BY DEF ConnInv
<1>4. sock' = [sock EXCEPT ![n] = Empty(s)]
  <2>1. Empty(s) = s
    BY <1>1, <1>2, EmptyAlready
  <2> QED
    BY <1>3, <2>1 DEF LosePacket, TypeOK
<1>5. net' = [net EXCEPT ![n] = rest, ![Peer(n)] = @ \o s.out]
  <2>1. net' = [net EXCEPT ![n] = rest]
    BY DEF LosePacket
  <2>2. net[Peer(n)] \o s.out = net[Peer(n)]
    BY <1>1
  <2> HIDE DEF rest, s
  <2> QED
    BY <1>1, <1>3, <2>1, <2>2 DEF TypeOK
<1>6. Rest(n, rest, TRUE)
  BY DEF Rest, LosePacket
<1>7. /\ listening' \in BOOLEAN /\ closed' = closed /\ closed' \subseteq Node
      /\ lost' \in 0..MaxLost /\ early' \in 0..MaxEarly
  BY <1>3, CountAssumption DEF TypeOK, LosePacket
<1> HIDE DEF rest
<1> QED
  BY <1>2, <1>4, <1>5, <1>6, <1>7, Step DEF Handled

-----------------------------------------------------------------------------
(* The applications and the timers.                                        *)

LEMMA ConnectKeeps ==
    ASSUME ConnInv, Connect
    PROVE  ConnInv'
<1> DEFINE s == sock[Client]
           p == sock[Peer(Client)]
           fresh == [NewSocket EXCEPT !.up = TRUE]
           w == SendEmpty(fresh, "SYN", {})
           t == [w EXCEPT !.st = "SYN_SENT"]
<1>1. /\ Client \in Node /\ Server \in Node /\ Peer(Client) = Server /\ Client # Server
      /\ {} \in Load /\ "SYN" \in PacketType
  BY DEF Node, Peer, Client, Server, Load, PacketType
<1>2. s = NewSocket /\ Becomes(Client, t)
  BY DEF Connect
<1>3. /\ Pair(s, p) /\ Settled(s, p) /\ Joined(s, p) /\ s \in Socket /\ p \in Socket
      /\ net[Server] \in Seq(Packet)
  BY <1>1, PairOf DEF Pair, Joined
<1>4. /\ NewSocket.nextTx = 0 /\ NewSocket.high = 0 /\ NewSocket.head = 0 /\ NewSocket.tail = 0
      /\ NewSocket.rcv = 0 /\ NewSocket.held = {} /\ NewSocket.fin = 0 /\ NewSocket.shut = FALSE
      /\ NewSocket.retx.kind = "none" /\ NewSocket.st = "CLOSED" /\ NewSocket.out = <<>>
  BY DEF NewSocket, NoTimer
<1>5. fresh \in Socket /\ SameCore(NewSocket, fresh) /\ fresh.retx = NewSocket.retx /\ fresh.out = <<>>
  <2>1. fresh.out = <<>>
    BY DEF NewSocket
  <2>2. fresh \in Socket
    <3>1. fresh = [s EXCEPT !.up = TRUE]
      BY <1>2
    <3> QED
      BY <1>3, <3>1 DEF Socket
  <2> QED
    BY <2>1, <2>2 DEF NewSocket, SameCore
<1>6. /\ w \in Socket /\ SameCore(fresh, w) /\ w.retx.kind \in {"none", "SYN"}
      /\ w.out = <<>> \/ w.out = Append(<<>>, EmptyPacket(fresh, "SYN", {}))
  <2> DEFINE v == fresh
  <2>1. v \in Socket /\ v.out = <<>> /\ v.retx.kind = "none"
    BY <1>4, <1>5
  <2>2. w = SendEmpty(v, "SYN", {})
    OBVIOUS
  <2> HIDE DEF v, w
  <2>3. /\ w \in Socket /\ SameCore(v, w) /\ w.retx.kind \in {"none", "SYN"}
        /\ w.out = <<>> \/ w.out = Append(<<>>, EmptyPacket(v, "SYN", {}))
    BY <1>1, <2>1, <2>2, SendEmptyFields
  <2> QED
    BY <2>3 DEF v
<1>7. /\ t \in Socket /\ SameCore(NewSocket, t) /\ t.retx.kind \in {"none", "SYN"}
      /\ t.out = w.out /\ t.st = "SYN_SENT"
  <2>1. "SYN_SENT" \in State
    BY DEF State
  <2> HIDE DEF w
  <2> QED
    BY <1>5, <1>6, <2>1 DEF Socket, SameCore
<1>8. EmptyPacket(fresh, "SYN", {}) \in Packet
  <2> HIDE DEF fresh
  <2> QED
    BY <1>1, <1>5, EmptyType
<1>9. Pk(EmptyPacket(fresh, "SYN", {}), t, p)
  <2>1. fresh.rcv = 0 /\ fresh.nextTx = 0 /\ fresh.st = "CLOSED" /\ t.rcv = 0
    BY <1>4, <1>7 DEF NewSocket, SameCore
  <2> HIDE DEF fresh, t
  <2> QED
    BY <2>1 DEF Pk, EmptyPacket
<1> HIDE DEF t, w, fresh
<1>10. AllPk(t.out, t, p)
  <2>1. AllPk(<<>>, t, p) /\ <<>> \in Seq(Packet)
    BY DEF AllPk
  <2>2. AllPk(Append(<<>>, EmptyPacket(fresh, "SYN", {})), t, p)
    BY <1>8, <1>9, <2>1, AllPkAppend
  <2> QED
    BY <1>6, <1>7, <2>1, <2>2
<1>11. t.head = 0 /\ t.high = 0 /\ t.rcv = 0 /\ t.fin = 0 /\ t.tail = 0 /\ t.nextTx = 0
       /\ t.held = {} /\ t.shut = FALSE /\ s.head = 0 /\ s.high = 0 /\ s.rcv = 0 /\ s.fin = 0
       /\ s.held = {} /\ s.st = "CLOSED"
  BY <1>2, <1>4, <1>7 DEF SameCore
<1>12. Joined(t, p)
  <2>1. Own(t)
    BY <1>7, <1>11, CountAssumption DEF Own, Unconnected
  <2>2. Flow(t, p)
    BY <1>3, <1>7, <1>11 DEF Joined, Flow, Bound, Open, FinSent
  <2>3. Flow(p, t)
    BY <1>3, <1>11 DEF Joined, Flow
  <2> QED
    BY <1>3, <1>7, <2>1, <2>2, <2>3 DEF Joined
<1>13. Pair(t, p)
  BY <1>10, <1>11, <1>12 DEF Pair
<1>14. Settled(t, p)
  BY <1>11 DEF Settled, Told, Waits, Finished, Acked
<1>15. Later(s, t)
  BY <1>11 DEF Later, FinSent, Past
<1>16. /\ sock' = [sock EXCEPT ![Client] = Empty(t)]
       /\ net' = [net EXCEPT ![Client] = net[Client], ![Peer(Client)] = @ \o t.out]
  BY <1>1, <1>2 DEF Becomes, Empty, ConnInv, TypeOK
<1>17. /\ listening' \in BOOLEAN /\ closed' = closed /\ closed' \subseteq Node
       /\ lost' \in 0..MaxLost /\ early' \in 0..MaxEarly
  BY DEF Connect, ConnInv, TypeOK
<1>18. Sides(sock'[Client], sock'[Server], Server \notin closed')
  <2>1. sock'[Client] = Empty(t) /\ sock'[Server] = sock[Server]
    BY <1>1, <1>16 DEF ConnInv, TypeOK
  <2>2. SameCore(t, Empty(t)) /\ Empty(t).st = t.st /\ Empty(t).retx = t.retx
    BY <1>13, <1>14, Emptied
  <2>3. Sides(s, sock[Server], Server \notin closed)
    BY DEF ConnInv
  <2>4. Server \notin closed => Straight(sock[Server], Empty(t))
    BY <1>11, <2>2, <2>3 DEF Sides, Straight, SameCore
  <2> QED
    BY <1>7, <1>11, <1>17, <2>1, <2>2, <2>3, <2>4 DEF Sides, SameCore
<1>19. Rest(Client, net[Client], FALSE)
  BY DEF Rest
<1> QED
  BY <1>1, <1>11, <1>13, <1>14, <1>15, <1>16, <1>17, <1>18, <1>19, Keeping

LEMMA MovesAppSend ==
    ASSUME NEW s, NEW p, Pair(s, p), Settled(s, p), Open(s), ~s.shut, s.tail <= Data,
           NEW t, t = [s EXCEPT !.tail = @ + 1]
    PROVE  Moves(s, t, p) /\ Settled(t, p) /\ t \in Socket /\ t.out = s.out /\ t.head = s.head
<1>0. s \in Socket /\ p \in Socket /\ Joined(s, p)
  BY DEF Pair, Joined
<1>1. /\ s.rcv \in Nat /\ s.high \in Nat /\ s.head \in Nat /\ s.tail \in Nat /\ s.tail + 1 \in Nat
  <2>1. s.rcv \in Nat /\ s.high \in Nat /\ s.head \in Nat /\ s.tail \in Nat
    BY <1>0 DEF Socket
  <2> QED
    BY <2>1
<1>2. t \in Socket /\ t.tail = s.tail + 1
  BY <1>0, <1>1 DEF Socket
<1>3. /\ t.nextTx = s.nextTx /\ t.high = s.high /\ t.head = s.head /\ t.rcv = s.rcv
      /\ t.held = s.held /\ t.fin = s.fin /\ t.shut = s.shut /\ t.st = s.st /\ t.up = s.up
      /\ t.retx = s.retx /\ t.out = s.out
  BY <1>0 DEF Socket
<1>4. s.head # 0 /\ ~Acked(s) /\ ~Acked(t) /\ ~FinSent(s)
  BY <1>0, <1>3 DEF Joined, Own, Unconnected, Acked, FinSent, Open
<1>5. Own(t)
  <2>1. Connection(t)
    BY <1>0, <1>1, <1>2, <1>3, <1>4 DEF Joined, Own, Connection, Open, FinSent
  <2>2. t.tail <= Data + 1
    BY <1>1, <1>2, CountAssumption
  <2> QED
    BY <1>0, <1>1, <1>3, <1>4, <2>1, <2>2 DEF Joined, Own, Open
<1>6. Flow(t, p)
  BY <1>0, <1>3, <1>4 DEF Joined, Flow, Bound, Open
<1>7. Flow(p, t)
  BY <1>0, <1>3 DEF Joined, Flow
<1>8. Later(s, t)
  BY <1>1, <1>3, <1>4 DEF Later, Past
<1>9. Keeps(s, t)
  BY <1>3, <1>4 DEF Keeps
<1>10. Joined(t, p)
  BY <1>0, <1>2, <1>5, <1>6, <1>7 DEF Joined
<1>11. AllPk(t.out, t, p)
  <2>1. s.out \in Seq(Packet) /\ AllPk(s.out, s, p)
    BY <1>0 DEF Pair, Socket
  <2> QED
    BY <1>0, <1>2, <1>3, <1>8, <2>1, AllPkLater, LaterSame
<1>12. Moves(s, t, p)
  BY <1>3, <1>8, <1>9, <1>10, <1>11 DEF Moves, Pair
<1>13. Settled(t, p)
  BY <1>3, <1>4 DEF Settled, Told, Waits, Finished
<1> QED
  BY <1>2, <1>3, <1>12, <1>13

LEMMA AppSendKeeps ==
    ASSUME ConnInv, AppSend
    PROVE  ConnInv'
<1> DEFINE s == sock[Client]
           p == sock[Peer(Client)]
           t == [s EXCEPT !.tail = @ + 1]
<1>1. Client \in Node
  BY DEF Node
<1>2. Pair(s, p) /\ Settled(s, p) /\ s.out = <<>> /\ Peer(Client) \in Node /\ net[Peer(Client)] \in Seq(Packet)
  BY <1>1, PairOf
<1>3. Open(s) /\ s.tail <= Data
  BY DEF AppSend, Open
<1>4. ~s.shut
  BY DEF ConnInv, Sides
<1>5. t = [s EXCEPT !.tail = @ + 1]
  OBVIOUS
<1>6. sock' = [sock EXCEPT ![Client] = t]
  BY DEF AppSend
<1> HIDE DEF t
<1>7. Moves(s, t, p) /\ Settled(t, p) /\ t \in Socket /\ t.out = <<>> /\ t.head = s.head
  BY <1>2, <1>3, <1>4, <1>5, MovesAppSend
<1>8. Becomes(Client, t)
  <2>1. Empty(t) = t
    BY <1>7, EmptyAlready
  <2>2. net[Peer(Client)] \o t.out = net[Peer(Client)]
    BY <1>2, <1>7
  <2>3. net' = [net EXCEPT ![Peer(Client)] = @ \o t.out]
    BY <1>2, <2>2 DEF AppSend, ConnInv, TypeOK
  <2> QED
    BY <1>6, <2>1, <2>3 DEF Becomes, Empty
<1>9. /\ listening' \in BOOLEAN /\ closed' = closed /\ closed' \subseteq Node
      /\ lost' \in 0..MaxLost /\ early' \in 0..MaxEarly /\ Client # Server
  BY DEF AppSend, ConnInv, TypeOK, Client, Server
<1> QED
  BY <1>1, <1>7, <1>8, <1>9, StepAlone

LEMMA SendPendingDataKeeps ==
    ASSUME ConnInv, SendPendingData
    PROVE  ConnInv'
<1> DEFINE s == sock[Client]
           p == sock[Peer(Client)]
           t == SendPending(s)
<1>1. Client \in Node
  BY DEF Node
<1>2. Pair(s, p) /\ Settled(s, p) /\ (s.shut => Quiet(s))
  BY <1>1, PairOf, ShutQuiet
<1>3. t = SendPending(s) /\ Becomes(Client, t)
  BY DEF SendPendingData
<1> HIDE DEF t
<1>4. Handled(s, t, p) /\ t.head = s.head
  BY <1>2, <1>3, HandledSendPending
<1>5. /\ listening' \in BOOLEAN /\ closed' = closed /\ closed' \subseteq Node
      /\ lost' \in 0..MaxLost /\ early' \in 0..MaxEarly
  BY DEF SendPendingData, ConnInv, TypeOK
<1> QED
  BY <1>1, <1>3, <1>4, <1>5, StepAlone DEF Handled

LEMMA AppCloseKeeps ==
    ASSUME ConnInv, NEW n \in Node, AppClose(n)
    PROVE  ConnInv'
<1> DEFINE s == sock[n]
           p == sock[Peer(n)]
           t == Close(s)
<1>1. Pair(s, p) /\ Settled(s, p)
  BY PairOf
<1>2. /\ listening' \in BOOLEAN /\ closed \subseteq closed' /\ closed' \subseteq Node /\ n \in closed'
      /\ lost' \in 0..MaxLost /\ early' \in 0..MaxEarly
  BY DEF AppClose, ConnInv, TypeOK
<1>3. CASE Becomes(n, Close(sock[n]))
  <2>1. t = Close(s) /\ Becomes(n, t)
    BY <1>3
  <2> HIDE DEF t
  <2>2. Moves(s, t, p) /\ Settled(t, p) /\ SameCore(s, t)
    BY <1>1, <2>1, MovesClose
  <2> QED
    BY <1>2, <2>1, <2>2, StepAlone DEF SameCore
<1>4. CASE UNCHANGED <<sock, net>>
  <2>1. TypeOK'
    BY <1>2, <1>4 DEF ConnInv, TypeOK
  <2>2. \A x \in Node : NodeInv(x)'
    BY <1>4 DEF ConnInv, NodeInv
  <2>3. Sides(sock'[Client], sock'[Server], Server \notin closed')
    BY <1>2, <1>4 DEF ConnInv, Sides
  <2>4. SynFirst(net'[Server], sock'[Server])
    BY <1>4 DEF ConnInv
  <2> QED
    BY <2>1, <2>2, <2>3, <2>4 DEF ConnInv
<1> QED
  BY <1>3, <1>4 DEF AppClose

LEMMA StepExpires ==
    ASSUME ConnInv, NEW n \in Node, NEW t, Expires(n, t),
           Handled(sock[n], t, sock[Peer(n)]), t.head = sock[n].head
    PROVE  ConnInv'
<1>1. early' \in 0..MaxEarly
  BY CountAssumption DEF Expires, ConnInv, TypeOK
<1>2. /\ Becomes(n, t) /\ listening' \in BOOLEAN /\ closed' = closed /\ closed' \subseteq Node
      /\ lost' \in 0..MaxLost
  BY DEF Expires, ConnInv, TypeOK
<1> QED
  BY <1>1, <1>2, StepAlone DEF Handled

LEMMA TimeoutKeeps ==
    ASSUME ConnInv, NEW n \in Node, Timeout(n)
    PROVE  ConnInv'
<1> DEFINE s == sock[n]
           p == sock[Peer(n)]
           u == [s EXCEPT !.retx = NoTimer]
<1>1. Pair(s, p) /\ Settled(s, p) /\ Told(p) /\ (s.shut => Quiet(s)) /\ s \in Socket
  BY PairOf, ShutQuiet DEF Pair, Joined
<1>2. CASE ResendEmpty(n)
  <2> DEFINE t == SendEmpty([s EXCEPT !.retx = NoTimer], s.retx.kind, s.retx.bits)
  <2>1. /\ s.retx.kind \in {"SYN", "SYN_ACK", "FIN_ACK"} /\ Expires(n, t)
        /\ t = SendEmpty([s EXCEPT !.retx = NoTimer], s.retx.kind, s.retx.bits)
    BY <1>2 DEF ResendEmpty
  <2> HIDE DEF t
  <2>2. Handled(s, t, p) /\ t.head = s.head
    BY <1>1, <2>1, HandledResend
  <2> QED
    BY <2>1, <2>2, StepExpires
<1>3. CASE ReTxTimeout(n)
  <2> DEFINE empty == u.head >= u.tail
             t == CASE empty /\ u.st \in {"FIN_WAIT_1", "CLOSING"} -> SendEmpty(u, "FIN_ACK", {})
                    [] empty /\ u.st \notin {"FIN_WAIT_1", "CLOSING"} -> u
                    [] ~empty /\ u.retr = 0 -> Deallocate([u EXCEPT !.error = TRUE])
                    [] OTHER -> SendData([u EXCEPT !.retr = @ - 1], u.head)
  <2>1. s.retx = DataTimer /\ Expires(n, t)
    BY <1>3 DEF ReTxTimeout
  <2>2. u = [s EXCEPT !.retx = NoTimer]
    OBVIOUS
  <2> HIDE DEF u
  <2>3. TimedOut(u, t)
    BY DEF TimedOut
  <2> HIDE DEF t, s, p
  <2>4. Handled(s, t, p) /\ t.head = s.head
    BY <1>1, <2>1, <2>2, <2>3, HandledReTx
  <2> QED
    BY <2>1, <2>4, StepExpires DEF s, p
<1>4. CASE LastAckTimeout(n)
  <2> DEFINE t == IF s.retr = 0 THEN Deallocate([s EXCEPT !.error = TRUE])
                  ELSE SendEmpty([s EXCEPT !.retr = @ - 1], "FIN_ACK", {})
  <2>1. s.st = "LAST_ACK" /\ Expires(n, t)
    BY <1>4 DEF LastAckTimeout
  <2>2. \/ t = Deallocate([s EXCEPT !.error = TRUE])
        \/ s.retr # 0 /\ t = SendEmpty([s EXCEPT !.retr = @ - 1], "FIN_ACK", {})
    OBVIOUS
  <2> HIDE DEF t
  <2>3. Handled(s, t, p) /\ t.head = s.head
    BY <1>1, <2>1, <2>2, HandledLastAckTimeout
  <2> QED
    BY <2>1, <2>3, StepExpires
<1>5. CASE TimeWaitTimeout(n)
  <2> DEFINE t == CloseAndNotify(s)
  <2>1. Becomes(n, t) /\ t = CloseAndNotify(s)
    BY <1>5 DEF TimeWaitTimeout
  <2> HIDE DEF t
  <2>2. Handled(s, t, p) /\ t.head = s.head
    BY <1>1, <2>1, HandledClosed
  <2>3. /\ listening' \in BOOLEAN /\ closed' = closed /\ closed' \subseteq Node
        /\ lost' \in 0..MaxLost /\ early' \in 0..MaxEarly
    BY <1>5 DEF TimeWaitTimeout, ConnInv, TypeOK
  <2> QED
    BY <2>1, <2>2, <2>3, StepAlone DEF Handled
<1> QED
  BY <1>2, <1>3, <1>4, <1>5 DEF Timeout

-----------------------------------------------------------------------------
(* The listening socket.                                                   *)

\* What Fork and CompleteFork make of a SYN whose sequence number is 0.
Forked == [NewSocket EXCEPT !.st = "SYN_RCVD", !.up = TRUE, !.rcv = 1, !.shut = TRUE, !.coe = TRUE]

LEMMA ForkedFields ==
    ASSUME NewSocket \in Socket
    PROVE  /\ Forked \in Socket /\ Forked.st = "SYN_RCVD" /\ Forked.rcv = 1 /\ Forked.shut
           /\ Forked.nextTx = 0 /\ Forked.high = 0 /\ Forked.head = 0 /\ Forked.tail = 0
           /\ Forked.held = {} /\ Forked.fin = 0 /\ Forked.retx.kind = "none" /\ Forked.out = <<>>
<1>1. "SYN_RCVD" \in State /\ 1 \in Nat
  BY DEF State
<1>2. Forked \in Socket
  BY <1>1 DEF Forked, Socket
<1> QED
  BY <1>2 DEF Forked, NewSocket, NoTimer

LEMMA NewSocketType == NewSocket \in Socket
<1>1. /\ "CLOSED" \in State /\ {} \in Load /\ NoTimer \in [kind : TimerKind, bits : Load]
      /\ SynRetries \in 0..SynRetries /\ DataRetries \in 0..DataRetries
      /\ <<>> \in Seq(Packet) /\ {} \in SUBSET Nat
  BY CountAssumption DEF State, Load, NoTimer, TimerKind
<1> QED
  BY <1>1 DEF NewSocket, Socket

\* The answer to a request for a connection, sent by a socket of its own.
LEMMA PairForked ==
    ASSUME NEW s, NEW p, Joined(s, p), s.head = 0, NEW t, t = SendEmpty(Forked, "SYN_ACK", {})
    PROVE  /\ Pair(t, p) /\ Settled(t, p) /\ Later(s, t)
           /\ t.shut /\ t.head = 0 /\ t.fin = 0 /\ Quiet(t)
           /\ t.st \in {"SYN_RCVD", "CLOSED"} /\ t.retx.kind \in {"none", "SYN_ACK"}
<1> DEFINE fork == Forked
<1>0. s \in Socket /\ p \in Socket /\ "SYN_ACK" \in PacketType /\ {} \in Load
  BY DEF Joined, PacketType, Load
<1>1. /\ fork \in Socket /\ fork.st = "SYN_RCVD" /\ fork.rcv = 1 /\ fork.shut
      /\ fork.nextTx = 0 /\ fork.high = 0 /\ fork.head = 0 /\ fork.tail = 0
      /\ fork.held = {} /\ fork.fin = 0 /\ fork.retx.kind = "none" /\ fork.out = <<>>
  BY NewSocketType, ForkedFields
<1>2. t = SendEmpty(fork, "SYN_ACK", {})
  OBVIOUS
<1> HIDE DEF fork
<1>3. /\ t \in Socket /\ SameCore(fork, t)
      /\ t.st \in {"SYN_RCVD", "CLOSED"} /\ t.retx.kind \in {"none", "SYN_ACK"}
      /\ t.out = <<>> \/ t.out = Append(<<>>, EmptyPacket(fork, "SYN_ACK", {}))
  BY <1>0, <1>1, <1>2, SendEmptyFields
<1>4. /\ t.rcv = 1 /\ t.shut /\ t.nextTx = 0 /\ t.high = 0 /\ t.head = 0 /\ t.tail = 0
      /\ t.held = {} /\ t.fin = 0
  BY <1>1, <1>3 DEF SameCore
<1>5. /\ s.high = 0 /\ s.rcv <= 1 /\ s.fin = 0 /\ ~Open(s) /\ ~Open(t)
  BY <1>3 DEF Joined, Own, Unconnected, Open
<1>6. Own(t)
  BY <1>3, <1>4, CountAssumption DEF Own, Unconnected
<1>7. Flow(t, p)
  <2>1. /\ p.rcv <= 1 /\ (p.rcv > 0 /\ p.rcv > 1 => p.fin # 0) /\ p.fin = 0
        /\ \A q \in p.held : q < 0
    BY <1>5 DEF Joined, Flow, Bound, FinSent
  <2>2. p.rcv \in Nat
    BY <1>0 DEF Socket
  <2> QED
    BY <1>4, <1>5, <2>1, <2>2 DEF Flow, Bound
<1>8. Flow(p, t)
  <2>1. p.head <= 1
    <3>1. p.head <= s.rcv /\ s.rcv <= 1 /\ p.head \in Nat /\ s.rcv \in Nat
      BY <1>0, <1>5 DEF Joined, Flow, Socket
    <3> QED
      BY <3>1
  <2>2. Bound(p) >= 1
    <3>1. p.high \in Nat /\ Own(p)
      BY <1>0 DEF Joined, Socket
    <3>2. ~Open(p) \/ p.high >= 1
      BY <3>1 DEF Own, Unconnected, Connection, Open
    <3> QED
      BY <3>1, <3>2 DEF Bound
  <2> QED
    BY <1>4, <2>1, <2>2 DEF Flow
<1>9. EmptyPacket(fork, "SYN_ACK", {}) \in Packet
  BY <1>0, <1>1, EmptyType
<1>10. Pk(EmptyPacket(fork, "SYN_ACK", {}), t, p)
  BY <1>1, <1>4 DEF Pk, EmptyPacket
<1>11. AllPk(t.out, t, p)
  <2>1. AllPk(<<>>, t, p) /\ <<>> \in Seq(Packet)
    BY DEF AllPk
  <2>2. AllPk(Append(<<>>, EmptyPacket(fork, "SYN_ACK", {})), t, p)
    BY <1>9, <1>10, <2>1, AllPkAppend
  <2> QED
    BY <1>3, <2>1, <2>2
<1>12. Pair(t, p)
  BY <1>0, <1>3, <1>4, <1>6, <1>7, <1>8, <1>11 DEF Pair, Joined
<1>13. Settled(t, p)
  BY <1>4 DEF Settled, Told, Waits, Finished, Acked
<1>14. Later(s, t)
  BY <1>0, <1>4, <1>5 DEF Later, FinSent, Past, Socket
<1> QED
  BY <1>3, <1>4, <1>12, <1>13, <1>14 DEF Quiet

LEMMA ProcessListenKeeps ==
    ASSUME ConnInv, ProcessListen
    PROVE  ConnInv'
<1> DEFINE m == Head(net[Server])
           s == sock[Server]
           p == sock[Peer(Server)]
<1>1. Server \in Node /\ Client \in Node /\ Peer(Server) = Client /\ Client # Server
  BY DEF Node, Peer, Client, Server
<1>2. net[Server] # <<>> /\ net[Server] \in Seq(Packet) /\ Pair(s, p) /\ Settled(s, p) /\ Joined(s, p)
  BY <1>1, PairOf DEF ProcessListen, Pair
<1>3. m \in Packet /\ Pk(m, p, s)
  BY <1>1, <1>2, Taken
<1>4. CASE m.type # "SYN"
  <2>1. BecomesOnReceipt(Server, s)
    BY <1>4 DEF ProcessListen
  <2>2. Handled(s, s, p)
    BY <1>2, HandledSelf
  <2> QED
    BY <1>1, <1>2, <2>1, <2>2, StepReceived
<1>5. CASE m.type = "SYN"
  <2> DEFINE t == SendEmpty(Forked, "SYN_ACK", {})
  <2>1. s.head = 0
    <3>1. SynFirst(net[Server], s)
      BY DEF ConnInv
    <3>2. m = net[Server][1] /\ 1 \in 1..Len(net[Server])
      BY <1>2
    <3> QED
      BY <1>5, <3>1, <3>2 DEF SynFirst
  <2>2. m.seq + 1 = 1
    BY <1>3, <1>5 DEF Pk
  <2>3. BecomesOnReceipt(Server, t)
    BY <1>5, <2>2 DEF ProcessListen, Forked
  <2>4. t = SendEmpty(Forked, "SYN_ACK", {})
    OBVIOUS
  <2> HIDE DEF t
  <2>5. /\ Pair(t, p) /\ Settled(t, p) /\ Later(s, t)
        /\ t.shut /\ t.head = 0 /\ t.fin = 0 /\ Quiet(t)
        /\ t.st \in {"SYN_RCVD", "CLOSED"} /\ t.retx.kind \in {"none", "SYN_ACK"}
    BY <1>2, <2>1, <2>4, PairForked
  <2>6. /\ sock' = [sock EXCEPT ![Server] = Empty(t)]
        /\ net' = [net EXCEPT ![Server] = Tail(net[Server]), ![Peer(Server)] = @ \o t.out]
    BY <2>3 DEF BecomesOnReceipt, Empty
  <2>7. /\ listening' \in BOOLEAN /\ closed' = closed /\ closed' \subseteq Node
        /\ lost' \in 0..MaxLost /\ early' \in 0..MaxEarly
    BY <2>3 DEF BecomesOnReceipt, ConnInv, TypeOK
  <2>8. Rest(Server, Tail(net[Server]), TRUE)
    BY <1>2 DEF Rest
  <2>9. Sides(sock'[Client], sock'[Server], Server \notin closed')
    <3>1. sock'[Server] = Empty(t) /\ sock'[Client] = sock[Client]
      BY <1>1, <2>6 DEF ConnInv, TypeOK
    <3>2. SameCore(t, Empty(t)) /\ Empty(t).st = t.st /\ Empty(t).retx = t.retx
      BY <2>5, Emptied
    <3>3. Quiet(Empty(t)) /\ Empty(t).shut /\ Empty(t).fin = 0
      BY <2>5, <3>2 DEF SameCore, Quiet
    <3>4. Straight(Empty(t), sock[Client])
      BY <2>5, <3>2, <3>3 DEF Straight
    <3>5. Sides(sock[Client], s, Server \notin closed)
      BY DEF ConnInv
    <3> QED
      BY <2>5, <3>1, <3>2, <3>3, <3>4, <3>5 DEF Sides
  <2> DEFINE rest == Tail(net[Server])
  <2> HIDE DEF rest
  <2>10. /\ net' = [net EXCEPT ![Server] = rest, ![Peer(Server)] = @ \o t.out]
         /\ Rest(Server, rest, TRUE)
    BY <2>6, <2>8 DEF rest
  <2> QED
    BY <1>1, <2>5, <2>6, <2>7, <2>9, <2>10, Keeping
<1> QED
  BY <1>4, <1>5

-----------------------------------------------------------------------------
(* The invariant of the specification.                                     *)

LEMMA ConnInit ==
    ASSUME Init
    PROVE  ConnInv
<1>1. NewSocket \in Socket
  BY NewSocketType
<1>2. /\ NewSocket.nextTx = 0 /\ NewSocket.high = 0 /\ NewSocket.head = 0 /\ NewSocket.tail = 0
      /\ NewSocket.rcv = 0 /\ NewSocket.held = {} /\ NewSocket.fin = 0 /\ NewSocket.shut = FALSE
      /\ NewSocket.retx.kind = "none" /\ NewSocket.st = "CLOSED" /\ NewSocket.out = <<>>
      /\ NewSocket.up = FALSE
  BY DEF NewSocket, NoTimer
<1>3. \A n \in Node : sock[n] = NewSocket /\ net[n] = <<>> /\ Peer(n) \in Node
  BY DEF Init, Node, Peer, Client, Server
<1> DEFINE s == NewSocket
<1> HIDE DEF s
<1>4. Own(s) /\ Flow(s, s) /\ Settled(s, s) /\ AllPk(<<>>, s, s) /\ SynFirst(<<>>, s)
  <2>1. Own(s)
    BY <1>2, CountAssumption DEF s, Own, Unconnected
  <2>2. Flow(s, s)
    BY <1>2 DEF s, Flow, Bound, Open
  <2>3. Settled(s, s)
    BY <1>2 DEF s, Settled, Told, Waits, Finished, Acked
  <2> QED
    BY <2>1, <2>2, <2>3 DEF AllPk, SynFirst
<1>5. Sides(s, s, TRUE)
  BY <1>2 DEF s, Sides, Straight
<1>6. TypeOK
  <2>1. \A n \in Node : sock[n].out = <<>>
    BY <1>2, <1>3
  <2>2. sock \in [Node -> Socket] /\ net \in [Node -> Seq(Packet)]
    BY <1>1 DEF Init
  <2>3. listening \in BOOLEAN /\ closed \subseteq Node /\ lost \in 0..MaxLost /\ early \in 0..MaxEarly
    BY CountAssumption DEF Init
  <2> QED
    BY <2>1, <2>2, <2>3 DEF TypeOK
<1>7. ASSUME NEW n \in Node PROVE NodeInv(n)
  <2>1. sock[n] = s /\ sock[Peer(n)] = s /\ net[Peer(n)] = <<>>
    BY <1>3 DEF s
  <2> QED
    BY <1>4, <2>1 DEF NodeInv
<1>8. sock[Client] = s /\ sock[Server] = s /\ net[Server] = <<>> /\ Server \notin closed
  BY <1>3 DEF s, Node, Init
<1> QED
  BY <1>4, <1>5, <1>6, <1>7, <1>8 DEF ConnInv

LEMMA ReceiveKeeps ==
    ASSUME ConnInv, NEW n \in Node, Receive(n)
    PROVE  ConnInv'
BY ReceiveSynSentKeeps, ReceiveSynRcvdKeeps, ReceiveEstablishedKeeps, ReceiveWaitKeeps,
   ReceiveClosingKeeps, ReceiveLastAckKeeps, ReceiveTimeWaitKeeps, NoEndPointsFoundKeeps,
   ProcessListenKeeps DEF Receive

LEMMA ConnNext ==
    ASSUME ConnInv, [Next]_vars
    PROVE  ConnInv'
<1>1. CASE Next
  BY <1>1, ConnectKeeps, AppSendKeeps, SendPendingDataKeeps, AppCloseKeeps, ReceiveKeeps,
     LosePacketKeeps, TimeoutKeeps DEF Next
<1>2. CASE UNCHANGED vars
  <2>1. TypeOK'
    BY <1>2 DEF ConnInv, TypeOK, vars
  <2>2. \A x \in Node : NodeInv(x)'
    BY <1>2 DEF ConnInv, NodeInv, vars
  <2>3. Sides(sock'[Client], sock'[Server], Server \notin closed')
    BY <1>2 DEF ConnInv, vars
  <2>4. SynFirst(net'[Server], sock'[Server])
    BY <1>2 DEF ConnInv, vars
  <2> QED
    BY <2>1, <2>2, <2>3, <2>4 DEF ConnInv
<1> QED
  BY <1>1, <1>2

\* The inductive invariant: at every moment each end is in order and what one end has
\* received and acknowledged is what the other one has sent.
THEOREM ConnectionInvariant == Spec => []ConnInv
<1>1. Init => ConnInv
  BY ConnInit
<1>2. ConnInv /\ [Next]_vars => ConnInv'
  BY ConnNext
<1> QED
  BY <1>1, <1>2, PTL DEF Spec

\* Every socket stays within the range of its members, the retry counters of
\* SendEmptyPacket, ReTxTimeout and LastAckTimeout included, and has handed over what it
\* has sent when a handler returns.
THEOREM TypeCorrect == Spec => []TypeOK
<1>1. ConnInv => TypeOK
  BY DEF ConnInv
<1> QED
  BY <1>1, ConnectionInvariant, PTL

\* The end of the stream is never reported early: TcpRxBuffer::Finished holds only when
\* all the data before the FIN has been received.
THEOREM EndAfterData == Spec => []EofAfterData
<1>1. ASSUME ConnInv PROVE EofAfterData
  <2> SUFFICES ASSUME Finished(sock[Server])
               PROVE  /\ sock[Server].rcv >= sock[Client].tail
                      /\ Server \notin closed => sock[Server].rcv > sock[Client].high
    BY DEF EofAfterData
  <2> DEFINE c == sock[Client]
             s == sock[Server]
  <2>1. Client \in Node /\ Server \in Node /\ Peer(Client) = Server
    BY DEF Node, Peer, Client, Server
  <2>2. Own(c) /\ Flow(c, s) /\ Sides(c, s, Server \notin closed)
    BY <1>1, <2>1 DEF ConnInv, NodeInv
  <2>3. c \in Socket /\ s \in Socket
    BY <1>1, <2>1 DEF ConnInv, TypeOK
  <2>4. /\ c.high \in Nat /\ c.tail \in Nat /\ c.head \in Nat
        /\ s.rcv \in Nat /\ s.fin \in Nat
    BY <2>3 DEF Socket
  <2>5. s.fin # 0 /\ s.fin < s.rcv
    BY DEF Finished
  <2>6. FinSent(c) /\ s.fin \in {c.high, c.high - 1} /\ c.head <= s.rcv
    BY <2>2, <2>5 DEF Flow
  <2>7. s.rcv >= c.tail
    <3>1. CASE c.tail = c.high
      BY <2>4, <2>5, <2>6, <3>1
    <3>2. CASE Acked(c)
      BY <2>4, <2>6, <3>2 DEF Acked
    <3> QED
      BY <2>6, <3>1, <3>2 DEF FinSent
  <2>8. Server \notin closed => s.fin = c.high
    BY <2>2, <2>5 DEF Sides, Straight
  <2> HIDE DEF c, s
  <2>9. Server \notin closed => s.rcv > c.high
    BY <2>4, <2>5, <2>8
  <2> QED
    BY <2>7, <2>9 DEF c, s
<1> QED
  BY <1>1, ConnectionInvariant, PTL

\* No packet in flight to a live socket acknowledges what that socket has not sent:
\* only SYN and FIN count one beyond m_highTxMark (ProcessEstablished, ProcessWait).
THEOREM OnlySentIsAcked == Spec => []AcksOnlySent
<1>1. ASSUME ConnInv PROVE AcksOnlySent
  <2> SUFFICES ASSUME NEW n \in Node, NEW i \in DOMAIN net[n], sock[n].up,
                      net[n][i].type \in {"ACK", "SYN_ACK", "FIN_ACK"}
               PROVE  net[n][i].ack <= Bound(sock[n])
    BY DEF AcksOnlySent, Bound, Open
  <2> DEFINE p == sock[Peer(n)]
             m == net[n][i]
             s == sock[n]
  <2>1. /\ net[n] \in Seq(Packet) /\ AllPk(net[n], p, s) /\ Joined(s, p)
    BY <1>1, PairOf DEF Pair
  <2>2. i \in 1..Len(net[n]) /\ m \in Packet
    BY <2>1
  <2>3. m.ack <= p.rcv
    BY <2>1, <2>2 DEF AllPk, Pk
  <2>4. p.rcv <= Bound(s)
    BY <2>1 DEF Joined, Flow
  <2>5. m.ack \in Nat /\ p.rcv \in Nat /\ Bound(s) \in Nat
    <3>1. m.ack \in Nat
      BY <2>2 DEF Packet
    <3>2. p.rcv \in Nat /\ s.high \in Nat
      BY <2>1 DEF Socket, Joined
    <3> HIDE DEF m, p, s
    <3> QED
      BY <3>1, <3>2 DEF Bound
  <2> HIDE DEF m, p, s
  <2>6. m.ack <= Bound(s)
    BY <2>3, <2>4, <2>5
  <2> QED
    BY <2>6 DEF m, s
<1> QED
  BY <1>1, ConnectionInvariant, PTL

\* ProcessWait goes to FIN_WAIT_2 only when the peer has received the FIN in sequence.
THEOREM FinIsReceived == Spec => []FinWait2Acked
<1>1. ASSUME ConnInv PROVE FinWait2Acked
  <2> SUFFICES ASSUME NEW n \in Node, sock[n].st = "FIN_WAIT_2"
               PROVE  Finished(sock[Peer(n)])
    BY DEF FinWait2Acked
  <2> DEFINE p == sock[Peer(n)]
             s == sock[n]
  <2>1. Joined(s, p) /\ s.st = "FIN_WAIT_2"
    BY <1>1, PairOf DEF Pair
  <2> HIDE DEF s, p
  <2>2. Acked(s) /\ Flow(s, p)
    BY <2>1 DEF Joined, Own
  <2>3. s.head # 0 /\ s.high >= 1
    BY <2>1 DEF Joined, Own, Unconnected, Connection
  <2>4. s.high \in Nat /\ p.rcv \in Nat /\ p.fin \in Nat /\ s.head = s.high + 1
    BY <2>1, <2>2 DEF Joined, Socket, Acked
  <2>5. p.rcv > s.high
    BY <2>2, <2>4 DEF Flow
  <2>6. p.fin # 0
    BY <2>2, <2>3, <2>4, <2>5 DEF Flow
  <2>7. p.fin \in {s.high, s.high - 1}
    BY <2>2, <2>6 DEF Flow
  <2>8. Finished(p)
    BY <2>4, <2>5, <2>6, <2>7 DEF Finished
  <2> QED
    BY <2>8 DEF p
<1> QED
  BY <1>1, ConnectionInvariant, PTL

-----------------------------------------------------------------------------
(* A peaceful close: no load on the path, no loss, no early timeout, and a *)
(* server that is not closed by its application.                           *)

Unloaded == PathLoads \subseteq {{}}

\* Nothing has gone wrong at this end, and no received data waits behind a gap.
Fine(s) == ~s.error /\ s.load = {} /\ s.held = {}

\* No timer runs.
Still(s) == s.retx = NoTimer /\ ~s.lato

\* The client before its data is sent, with the request on its way ...
Asking(c) ==
    /\ c.st = "SYN_SENT" /\ c.up /\ Fine(c) /\ ~c.lato
    /\ c.nextTx = 0 /\ c.high = 0 /\ c.head = 0 /\ c.tail = 0 /\ c.fin = 0

\* ... while it sends data and its FIN ...
Carrying(c) ==
    /\ c.st \in {"ESTABLISHED", "FIN_WAIT_1"} /\ c.up /\ Fine(c) /\ ~c.lato
    /\ c.rcv = 1 /\ c.fin = 0
    /\ 1 <= c.head /\ c.head <= c.high /\ c.nextTx = c.high /\ c.high <= c.tail
    /\ c.st = "FIN_WAIT_1" => c.tail = c.high

Sending(c) == Carrying(c) /\ (c.st = "ESTABLISHED" /\ c.head = c.high => c.retx = NoTimer)

\* ... when everything is acknowledged ...
AllAcked(c) ==
    /\ 1 <= c.high /\ c.head = c.high + 1 /\ c.nextTx = c.head /\ c.tail = c.head

\* ... when it waits for the FIN of the server ...
Waiting(c) ==
    /\ c.st = "FIN_WAIT_2" /\ c.up /\ Fine(c) /\ ~c.lato
    /\ c.rcv = 1 /\ c.fin = 0 /\ AllAcked(c)

\* ... and when it has that.
Served(c) ==
    /\ (c.st = "TIME_WAIT" /\ c.up) \/ (c.st = "CLOSED" /\ ~c.up)
    /\ Fine(c) /\ Still(c) /\ AllAcked(c)

\* The server after the SYN ...
Answering(s) ==
    /\ s.st = "SYN_RCVD" /\ s.up /\ Fine(s) /\ ~s.lato /\ s.shut
    /\ s.nextTx = 0 /\ s.high = 0 /\ s.head = 0 /\ s.tail = 0 /\ s.rcv = 1 /\ s.fin = 0

\* ... while it receives ...
Receiving(s) ==
    /\ s.st = "ESTABLISHED" /\ s.up /\ Fine(s) /\ Still(s) /\ s.shut
    /\ s.nextTx = 1 /\ s.high = 1 /\ s.head = 1 /\ s.tail = 1 /\ s.rcv >= 1 /\ s.fin = 0

\* ... when it has sent its FIN, and when that is acknowledged.
Leaving(s) == s.st = "LAST_ACK" /\ s.up /\ Fine(s)
Gone(s) == s.st = "CLOSED" /\ ~s.up /\ Fine(s) /\ Still(s)

\* A packet without data.
Bare(m, type, ack) == m.type = type /\ m.len = 0 /\ m.ack = ack

\* The segments from the given one to high, the last with the FIN, or followed by it.
Stream(q, from, high, fin) ==
    /\ \A i \in 1..Len(q) :
          /\ q[i].seq = from + i - 1 /\ q[i].ack = 1
          /\ fin /\ i = Len(q) => q[i].type = "FIN_ACK" /\ q[i].seq + q[i].len = high
          /\ ~(fin /\ i = Len(q)) => q[i].type = "ACK" /\ q[i].len = 1
    /\ fin => Len(q) > 0
    /\ ~fin => from + Len(q) = high

\* What the client has yet to send to a server that has everything before the given one.
StreamOf(q, c, from) == Stream(q, from, c.high, c.st = "FIN_WAIT_1")

\* Acknowledgments, the last one of all that the server has received.
Acks(r, c, rcv) ==
    /\ \A i \in 1..Len(r) : r[i].type = "ACK" /\ r[i].len = 0 /\ r[i].ack <= rcv
    /\ IF Len(r) > 0 THEN r[Len(r)].ack = rcv ELSE c.head = rcv

\* Acknowledgments and the FIN of the server.
AcksAndFin(r, high) ==
    /\ Len(r) > 0 /\ Bare(r[Len(r)], "FIN_ACK", high + 1) /\ r[Len(r)].seq = 1
    /\ \A i \in 1..Len(r) : i < Len(r) =>
          r[i].type = "ACK" /\ r[i].len = 0 /\ r[i].ack <= high + 1

\* The phases of a connection, q being on its way to the server and r to the client.
Fresh(c, s, q, r) == c = NewSocket /\ s = NewSocket /\ q = <<>> /\ r = <<>>

Requested(c, s, q, r) ==
    /\ Asking(c) /\ s = NewSocket /\ r = <<>>
    /\ Len(q) = 1 /\ q[1].type = "SYN" /\ q[1].seq = 0

Answered(c, s, q, r) ==
    /\ Asking(c) /\ Answering(s) /\ q = <<>>
    /\ Len(r) = 1 /\ Bare(r[1], "SYN_ACK", 1) /\ r[1].seq = 0

Opening(c, s, q, r) ==
    /\ Sending(c) /\ Answering(s) /\ c.head = 1 /\ r = <<>>
    /\ q # <<>> /\ Bare(q[1], "ACK", 1) /\ StreamOf(Tail(q), c, 1)

Streaming(c, s, q, r) ==
    /\ Sending(c) /\ Receiving(s)
    /\ s.rcv <= c.high /\ c.head <= s.rcv
    /\ StreamOf(q, c, s.rcv) /\ Acks(r, c, s.rcv)

Finishing(c, s, q, r) ==
    /\ (Sending(c) /\ c.st = "FIN_WAIT_1") \/ Waiting(c)
    /\ Leaving(s) /\ s.rcv = c.high + 1
    /\ q = <<>> /\ AcksAndFin(r, c.high)

LastWord(c, s, q, r) ==
    /\ Served(c) /\ Leaving(s) /\ r = <<>>
    /\ Len(q) = 1 /\ q[1].type = "ACK" /\ q[1].len = 0 /\ q[1].bits = {} /\ q[1].seq = s.rcv

Over(c, s, q, r) == Served(c) /\ Gone(s) /\ q = <<>> /\ r = <<>>

\* The application of the client closes before the connection is there.
Aborted(c) == c.head = 0 /\ ~c.up /\ c.st = "CLOSED" /\ Still(c) /\ c.error

Calm(c, s, q, r) ==
    \/ Fresh(c, s, q, r)
    \/ Requested(c, s, q, r)
    \/ Answered(c, s, q, r)
    \/ Opening(c, s, q, r)
    \/ Streaming(c, s, q, r)
    \/ Finishing(c, s, q, r)
    \/ LastWord(c, s, q, r)
    \/ Over(c, s, q, r)
    \/ Aborted(c)

PeaceInv ==
    lost = 0 /\ early = 0 /\ Server \notin closed =>
        listening /\ Calm(sock[Client], sock[Server], net[Server], net[Client])

\* What all handlers but those that give up leave alone.
Calmly(s, t) == t.error = s.error /\ t.load = s.load /\ t.lato = s.lato

\* An ACK or a FIN only adds to what has been sent.
LEMMA EmptyCalmly ==
    ASSUME NEW s \in Socket, s.up, s.load = {}, NEW type \in {"ACK", "FIN_ACK"},
           NEW t, t = SendEmpty(s, type, {})
    PROVE  /\ t \in Socket /\ SameCore(s, t) /\ t.st = s.st /\ t.up /\ Calmly(s, t)
           /\ type = "ACK" => t.retx = s.retx
           /\ t.out = Append(s.out, EmptyPacket(s, type, {}))
<1> DEFINE bits == IF s.load = {} THEN {} ELSE {} \cup s.load
           guarded == type \in {"SYN", "SYN_ACK", "FIN_ACK"} /\ s.retx = NoTimer
           syn == type \in {"SYN", "SYN_ACK"}
           retx == IF guarded THEN [kind |-> type, bits |-> bits] ELSE s.retx
           out == Append(s.out, EmptyPacket(s, type, {}))
           n == IF syn THEN s.syn - 1 ELSE s.syn
<1>1. ~syn /\ (type = "ACK" => retx = s.retx)
  OBVIOUS
<1>2. t = [s EXCEPT !.out = out, !.syn = n, !.retx = retx]
  BY <1>1 DEF SendEmpty, EmptyPacket
<1>3. t \in Socket
  BY SendEmptyFields DEF PacketType, Load
<1> HIDE DEF bits, guarded, retx, out, n
<1>4. /\ SameCore(s, t) /\ t.st = s.st /\ t.up = s.up /\ Calmly(s, t)
      /\ t.out = out /\ t.retx = retx
  BY <1>2 DEF Socket, SameCore, Calmly
<1> QED
  BY <1>1, <1>3, <1>4 DEF out

\* So do data segments; the other members are those of SendFields.
LEMMA SendCalmly ==
    ASSUME NEW s \in Socket, NEW first \in Nat, s.up, first < s.tail,
           NEW t, t = SendData(s, first)
    PROVE  DataSent(s, t, first) /\ Calmly(s, t)
<1> DEFINE retx == IF s.retx = NoTimer THEN DataTimer ELSE s.retx
           high == Larger(s.high, s.tail)
           out == s.out \o [i \in 1..(s.tail - first) |->
                      [type |-> IF s.coe /\ first + i - 1 + 1 = s.tail THEN "FIN_ACK" ELSE "ACK",
                       seq |-> first + i - 1, ack |-> s.rcv, len |-> 1, bits |-> {}]]
           st == CASE s.coe /\ s.st = "ESTABLISHED" -> "FIN_WAIT_1"
                   [] s.coe /\ s.st = "CLOSE_WAIT" -> "LAST_ACK"
                   [] OTHER -> s.st
<1>1. t = [s EXCEPT !.out = out, !.nextTx = s.tail, !.high = high, !.retx = retx, !.st = st]
  <2>1. ~(~s.up \/ first >= s.tail)
    BY DEF Socket
  <2> QED
    BY <2>1 DEF SendData
<1> HIDE DEF retx, high, out, st
<1>2. Calmly(s, t)
  BY <1>1 DEF Socket, Calmly
<1> QED
  BY <1>2, SendFields

\* NewAck, which stops the timer when nothing is outstanding.
LEMMA NewAckCalmly ==
    ASSUME NEW s \in Socket, NEW ack \in Nat, NEW t, t = NewAck(s, ack)
    PROVE  /\ t \in Socket /\ AckTaken(s, t) /\ t.out = s.out /\ Calmly(s, t) /\ t.coe = s.coe
           /\ t.head = ack /\ t.tail = Larger(s.tail, ack) /\ t.nextTx = Larger(s.nextTx, ack)
           /\ ack >= s.tail /\ s.st = "ESTABLISHED" => t.retx = NoTimer
<1> DEFINE retx == IF ack >= s.tail /\ s.st \notin {"FIN_WAIT_1", "CLOSING"}
                   THEN NoTimer ELSE DataTimer
           tail == Larger(s.tail, ack)
           nextTx == Larger(s.nextTx, ack)
<1>1. t = [s EXCEPT !.head = ack, !.tail = tail, !.nextTx = nextTx,
                    !.retr = DataRetries, !.retx = retx]
  BY DEF NewAck
<1>2. ack >= s.tail /\ s.st = "ESTABLISHED" => retx = NoTimer
  OBVIOUS
<1> HIDE DEF retx, tail, nextTx
<1>3. Calmly(s, t) /\ t.retx = retx /\ t.coe = s.coe
  BY <1>1 DEF Socket, Calmly
<1> QED
  BY <1>2, <1>3, NewAckFields

\* The segment that is expected is taken at once: nothing is held back.
LEMMA AddCalmly ==
    ASSUME NEW s \in Socket, NEW m \in Packet, s.held = {}, m.seq = s.rcv,
           NEW t, t = AddSegment(s, m)
    PROVE  /\ t \in Socket /\ DataTaken(s, t) /\ t.out = s.out /\ t.st = s.st /\ t.retx = s.retx
           /\ t.held = {} /\ Calmly(s, t)
           /\ t.rcv = IF s.fin # 0 /\ s.rcv + 1 = s.fin THEN s.rcv + 2 ELSE s.rcv + 1
<1>1. s.rcv \in Nat /\ s.rcv + 1 \in Nat /\ s.fin \in Nat
  BY DEF Socket
<1> DEFINE all == s.held \cup {m.seq}
           next == FirstGap(all, s.rcv)
           held == {q \in all : q >= next}
           rcv == IF s.fin # 0 /\ next = s.fin THEN next + 1 ELSE next
<1>2. all = {s.rcv}
  OBVIOUS
<1>3. next \in s.rcv..(s.rcv + 1) /\ next \notin all
  <2>1. all \in SUBSET Nat /\ (\A q \in all : q < s.rcv + 1)
    BY <1>1, <1>2
  <2>2. s.rcv <= s.rcv + 1 /\ s.rcv + 1 <= s.rcv + Data + 1
    BY <1>1, CountAssumption
  <2> HIDE DEF all
  <2> QED
    BY <1>1, <2>1, <2>2, FirstGapFound
<1>4. next = s.rcv + 1
  BY <1>1, <1>2, <1>3
<1>5. t = [s EXCEPT !.held = held, !.rcv = rcv]
  BY DEF AddSegment, FirstGap
<1>6. Added(s, t, m.seq, next)
  BY <1>1, <1>4, AddFields
<1>7. held = {}
  BY <1>1, <1>2, <1>4
<1> HIDE DEF held, rcv, next, all
<1>8. Calmly(s, t) /\ t.held = held
  BY <1>5 DEF Socket, Calmly
<1>9. t.rcv = IF s.fin # 0 /\ s.rcv + 1 = s.fin THEN s.rcv + 2 ELSE s.rcv + 1
  BY <1>1, <1>4, <1>6 DEF Added
<1> QED
  BY <1>6, <1>7, <1>8, <1>9 DEF Added

\* SetFinSequence.
LEMMA FinCalmly ==
    ASSUME NEW s \in Socket, NEW q \in Nat, NEW t, t = SetFinSequence(s, q)
    PROVE  /\ t \in Socket /\ FinNoted(s, t) /\ Calmly(s, t) /\ t.fin = q
           /\ t.rcv = IF s.rcv = q THEN q + 1 ELSE s.rcv
<1> DEFINE rcv == IF s.rcv = q THEN q + 1 ELSE s.rcv
<1>1. rcv \in Nat
  BY DEF Socket
<1>2. t = [s EXCEPT !.fin = q, !.rcv = rcv]
  BY DEF SetFinSequence
<1> HIDE DEF rcv
<1>3. t \in Socket
  BY <1>1, <1>2 DEF Socket
<1>4. FinNoted(s, t) /\ Calmly(s, t) /\ t.fin = q /\ t.rcv = rcv
  BY <1>2 DEF Socket, FinNoted, Calmly
<1> QED
  BY <1>3, <1>4 DEF rcv

\* A path without loads leaves a socket as it is.
LEMMA LadenCalmly ==
    ASSUME Unloaded, NEW load \in PathLoads, NEW s \in Socket, s.load = {}
    PROVE  Laden(s, load) = s
<1>1. load = {}
  BY DEF Unloaded
<1> QED
  BY <1>1 DEF Laden, Socket

-----------------------------------------------------------------------------
(* The stream of the client.                                               *)

\* Segments that follow on segments.
LEMMA StreamConcat ==
    ASSUME NEW q \in Seq(Packet), NEW z \in Seq(Packet), NEW from \in Nat, NEW mid \in Nat,
           NEW high \in Nat, NEW fin \in BOOLEAN,
           Stream(q, from, mid, FALSE), Stream(z, mid, high, fin)
    PROVE  Stream(q \o z, from, high, fin)
<1>1. from + Len(q) = mid /\ Len(q) \in Nat /\ Len(z) \in Nat
  BY DEF Stream
<1>2. q \o z \in Seq(Packet) /\ Len(q \o z) = Len(q) + Len(z)
  OBVIOUS
<1> DEFINE last == Len(q \o z)
           ok(m, i) == /\ m.seq = from + i - 1 /\ m.ack = 1
                       /\ fin /\ i = last => m.type = "FIN_ACK" /\ m.seq + m.len = high
                       /\ ~(fin /\ i = last) => m.type = "ACK" /\ m.len = 1
<1>3. ASSUME NEW i \in 1..Len(q \o z) PROVE ok((q \o z)[i], i)
  <2>1. CASE i <= Len(q)
    <3>1. (q \o z)[i] = q[i] /\ i \in 1..Len(q)
      BY <1>1, <2>1
    <3>2. fin => Len(z) > 0
      BY DEF Stream
    <3>3. ~(fin /\ i = last)
      BY <1>1, <1>2, <2>1, <3>2
    <3>4. q[i].seq = from + i - 1 /\ q[i].ack = 1 /\ q[i].type = "ACK" /\ q[i].len = 1
      BY <3>1 DEF Stream
    <3> HIDE DEF last
    <3> QED
      BY <3>1, <3>3, <3>4
  <2>2. CASE i > Len(q)
    <3> DEFINE j == i - Len(q)
    <3>1. (q \o z)[i] = z[j] /\ j \in 1..Len(z)
      BY <1>1, <1>2, <2>2
    <3>2. mid + j - 1 = from + i - 1
      BY <1>1, <3>1
    <3>3. j = Len(z) <=> i = last
      BY <1>1, <1>2, <3>1
    <3> HIDE DEF last, j
    <3>4. /\ z[j].seq = mid + j - 1 /\ z[j].ack = 1
          /\ fin /\ j = Len(z) => z[j].type = "FIN_ACK" /\ z[j].seq + z[j].len = high
          /\ ~(fin /\ j = Len(z)) => z[j].type = "ACK" /\ z[j].len = 1
      BY <3>1 DEF Stream
    <3> QED
      BY <3>1, <3>2, <3>3, <3>4
  <2> QED
    BY <1>1, <1>2, <2>1, <2>2
<1>4. fin => Len(q \o z) > 0
  BY <1>1, <1>2 DEF Stream
<1>5. ~fin => from + Len(q \o z) = high
  <2>1. ~fin => mid + Len(z) = high
    BY DEF Stream
  <2> QED
    BY <1>1, <1>2, <2>1
<1> QED
  BY <1>3, <1>4, <1>5 DEF Stream

\* The segment that the receiver expects is the first one on its way.
LEMMA StreamHead ==
    ASSUME NEW q \in Seq(Packet), NEW from \in Nat, NEW high \in Nat, NEW fin \in BOOLEAN,
           Stream(q, from, high, fin), q # <<>>
    PROVE  /\ Head(q) \in Packet /\ Tail(q) \in Seq(Packet)
           /\ Head(q).seq = from /\ Head(q).ack = 1
           /\ \/ /\ Head(q).type = "ACK" /\ Head(q).len = 1 /\ from + 1 <= high
                 /\ Stream(Tail(q), from + 1, high, fin)
              \/ Head(q).type = "FIN_ACK" /\ fin /\ Tail(q) = <<>> /\ from + Head(q).len = high
<1> DEFINE z == Tail(q)
<1>1. /\ Len(q) \in Nat /\ Len(q) >= 1 /\ 1 \in 1..Len(q) /\ Head(q) = q[1] /\ q[1] \in Packet
      /\ z \in Seq(Packet) /\ Len(z) = Len(q) - 1
  OBVIOUS
<1>2. \A i \in 1..Len(z) : z[i] = q[i + 1] /\ i + 1 \in 1..Len(q)
  BY <1>1
<1>3. q[1].seq = from /\ q[1].ack = 1
  <2>1. q[1].seq = from + 1 - 1 /\ q[1].ack = 1
    BY <1>1 DEF Stream
  <2> QED
    BY <2>1
<1>4. CASE fin /\ Len(q) = 1
  <2>1. q[1].type = "FIN_ACK" /\ q[1].seq + q[1].len = high
    BY <1>1, <1>4 DEF Stream
  <2>2. z = <<>>
    <3> HIDE DEF z
    <3>1. Len(z) = 0 /\ z \in Seq(Packet)
      BY <1>1, <1>4
    <3> QED
      BY <3>1, EmptySeq
  <2> QED
    BY <1>1, <1>3, <1>4, <2>1, <2>2
<1>5. CASE ~(fin /\ Len(q) = 1)
  <2>1. q[1].type = "ACK" /\ q[1].len = 1
    BY <1>1, <1>5 DEF Stream
  <2> HIDE DEF z
  <2>2. ASSUME NEW i \in 1..Len(z)
        PROVE  /\ z[i].seq = from + 1 + i - 1 /\ z[i].ack = 1
               /\ fin /\ i = Len(z) => z[i].type = "FIN_ACK" /\ z[i].seq + z[i].len = high
               /\ ~(fin /\ i = Len(z)) => z[i].type = "ACK" /\ z[i].len = 1
    <3>1. z[i] = q[i + 1] /\ i + 1 \in 1..Len(q) /\ (i = Len(z) <=> i + 1 = Len(q))
      BY <1>1, <1>2
    <3> DEFINE j == i + 1
    <3>2. j \in 1..Len(q) /\ z[i] = q[j] /\ (i = Len(z) <=> j = Len(q)) /\ from + j - 1 = from + 1 + i - 1
      BY <3>1
    <3> HIDE DEF j
    <3> QED
      BY <3>2 DEF Stream
  <2>3. fin => Len(z) > 0
    BY <1>1, <1>5
  <2>4. ~fin => from + 1 + Len(z) = high
    <3>1. ~fin => from + Len(q) = high
      BY DEF Stream
    <3> QED
      BY <1>1, <3>1
  <2>5. Stream(z, from + 1, high, fin)
    BY <2>2, <2>3, <2>4 DEF Stream
  <2>6. from + 1 <= high
    <3>1. CASE ~fin
      BY <1>1, <2>4, <3>1
    <3>2. CASE fin
      <4>1. Len(q) \in 1..Len(q) /\ q[Len(q)] \in Packet
        BY <1>1
      <4>2. q[Len(q)].seq = from + Len(q) - 1 /\ q[Len(q)].seq + q[Len(q)].len = high
        BY <3>2, <4>1 DEF Stream
      <4>3. q[Len(q)].len \in 0..1 /\ Len(q) >= 2
        BY <1>1, <1>5, <3>2, <4>1 DEF Packet
      <4> QED
        BY <1>1, <4>2, <4>3
    <3> QED
      BY <3>1, <3>2
  <2> QED
    BY <1>1, <1>3, <2>1, <2>5, <2>6 DEF z
<1> QED
  BY <1>4, <1>5

\* What a step of the client adds to the stream.
Goes(c, t) ==
    /\ t \in Socket /\ Sending(t) /\ t.out \in Seq(Packet) /\ t.high >= c.high
    /\ \/ t.out = <<>> /\ t.high = c.high /\ t.st = c.st
       \/ c.st = "ESTABLISHED" /\ Stream(t.out, c.high, t.high, t.st = "FIN_WAIT_1")

\* What is on its way and what is sent are one stream.
LEMMA GoesOn ==
    ASSUME NEW c \in Socket, NEW t, Goes(c, t), NEW q \in Seq(Packet), NEW from \in Nat,
           StreamOf(q, c, from)
    PROVE  q \o t.out \in Seq(Packet) /\ StreamOf(q \o t.out, t, from)
<1>1. c.high \in Nat /\ t.high \in Nat /\ t.out \in Seq(Packet)
  BY DEF Goes, Socket
<1>2. CASE t.out = <<>> /\ t.high = c.high /\ t.st = c.st
  BY <1>2 DEF StreamOf
<1>3. CASE c.st = "ESTABLISHED" /\ Stream(t.out, c.high, t.high, t.st = "FIN_WAIT_1")
  <2> DEFINE fin == t.st = "FIN_WAIT_1"
  <2>1. Stream(q, from, c.high, FALSE)
    BY <1>3 DEF StreamOf
  <2>2. fin \in BOOLEAN /\ Stream(t.out, c.high, t.high, fin)
    BY <1>3
  <2> HIDE DEF fin
  <2>3. Stream(q \o t.out, from, t.high, fin)
    BY <1>1, <2>1, <2>2, StreamConcat
  <2> QED
    BY <1>1, <2>3 DEF StreamOf, fin
<1> QED
  BY <1>2, <1>3 DEF Goes

\* Nothing is to be sent from the end on.
LEMMA NoStream == \A high \in Nat : Stream(<<>>, high, high, FALSE)
BY DEF Stream

\* SendPendingData sends the rest, with the FIN if the close was deferred.
LEMMA PendingGoes ==
    ASSUME NEW c \in Socket, Carrying(c), c.out = <<>>,
           c.st = "ESTABLISHED" /\ c.head = c.tail => c.retx = NoTimer,
           NEW t, t = SendPending(c)
    PROVE  Goes(c, t) /\ t.head = c.head
<1>0. /\ c.high \in Nat /\ c.head \in Nat /\ c.tail \in Nat /\ c.rcv \in Nat /\ <<>> \in Seq(Packet)
      /\ Larger(c.high, c.head) = c.high
  <2>1. /\ c.high \in Nat /\ c.head \in Nat /\ c.tail \in Nat /\ c.rcv \in Nat
    BY DEF Socket
  <2> QED
    BY <2>1 DEF Carrying, Larger
<1>1. t = SendData(c, c.high)
  BY <1>0 DEF SendPending
<1>2. CASE c.high >= c.tail
  <2>1. t = c
    BY <1>1, <1>2 DEF SendData
  <2>2. c.high = c.tail
    BY <1>0, <1>2 DEF Carrying
  <2>3. Sending(c) /\ c.high >= c.high
    BY <1>0, <2>2 DEF Sending
  <2> QED
    BY <1>0, <2>1, <2>3 DEF Goes
<1>3. CASE c.high < c.tail
  <2>1. DataSent(c, t, c.high) /\ Calmly(c, t)
    BY <1>0, <1>1, <1>3, SendCalmly DEF Carrying
  <2>2. c.st = "ESTABLISHED"
    BY <1>0, <1>3 DEF Carrying
  <2>3. t.high = c.tail /\ t.nextTx = c.tail /\ t.tail = c.tail /\ t.head = c.head
    BY <1>0, <1>3, <2>1 DEF DataSent, Larger
  <2>4. t.st = IF c.coe THEN "FIN_WAIT_1" ELSE "ESTABLISHED"
    BY <2>1, <2>2 DEF DataSent, StateAfterData
  <2>5. Sending(t)
    <3>1. t.head < t.high
      BY <1>0, <1>3, <2>3 DEF Carrying
    <3>2. Fine(t) /\ ~t.lato /\ t.up /\ t.rcv = 1 /\ t.fin = 0
      BY <2>1 DEF DataSent, Calmly, Carrying, Fine
    <3> QED
      BY <1>0, <2>3, <2>4, <3>1, <3>2 DEF Carrying, Sending
  <2>6. t.out = Segments(c, c.high) /\ t.out \in Seq(Packet)
    BY <2>1 DEF DataSent
  <2> DEFINE S == Segments(c, c.high)
  <2>7. /\ Len(S) = c.tail - c.high /\ Len(S) \in Nat
        /\ \A i \in 1..Len(S) : S[i] = Segment(c, c.high + i - 1)
    BY <1>0, <1>3 DEF Segments
  <2> HIDE DEF S
  <2>8. Stream(S, c.high, c.tail, t.st = "FIN_WAIT_1")
    <3> DEFINE fin == t.st = "FIN_WAIT_1"
    <3>1. fin <=> c.coe
      BY <2>4
    <3> HIDE DEF fin
    <3>2. ASSUME NEW i \in 1..Len(S)
          PROVE  /\ S[i].seq = c.high + i - 1 /\ S[i].ack = 1 /\ S[i].len = 1
                 /\ S[i].type = IF fin /\ i = Len(S) THEN "FIN_ACK" ELSE "ACK"
      <4>1. S[i] = Segment(c, c.high + i - 1)
        BY <2>7
      <4>2. c.high + i - 1 + 1 = c.tail <=> i = Len(S)
        BY <1>0, <2>7
      <4>3. c.rcv = 1
        BY DEF Carrying
      <4> QED
        BY <3>1, <4>1, <4>2, <4>3 DEF Segment
    <3>3. c.high + Len(S) = c.tail /\ Len(S) > 0
      BY <1>0, <1>3, <2>7
    <3>4. ASSUME NEW i \in 1..Len(S), i = Len(S) PROVE S[i].seq + S[i].len = c.tail
      BY <1>0, <2>7, <3>2, <3>4
    <3>5. Stream(S, c.high, c.tail, fin)
      BY <3>2, <3>3, <3>4 DEF Stream
    <3> QED
      BY <3>5 DEF fin
  <2>9. t \in Socket
    BY <2>1 DEF DataSent
  <2>10. t.high >= c.high
    BY <1>0, <1>3, <2>3
  <2> QED
    BY <2>2, <2>3, <2>5, <2>6, <2>8, <2>9, <2>10 DEF Goes, S
<1> QED
  BY <1>0, <1>2, <1>3

\* Send only extends the buffer.
LEMMA AppSendGoes ==
    ASSUME NEW c \in Socket, Sending(c), c.out = <<>>, c.st = "ESTABLISHED",
           NEW t, t = [c EXCEPT !.tail = @ + 1]
    PROVE  Goes(c, t) /\ t.head = c.head /\ t.out = <<>>
<1> DEFINE tail == c.tail + 1
<1>0. /\ c.high \in Nat /\ c.head \in Nat /\ c.tail \in Nat /\ c.nextTx \in Nat
      /\ tail \in Nat /\ <<>> \in Seq(Packet)
  BY DEF Socket
<1>1. t = [c EXCEPT !.tail = tail]
  OBVIOUS
<1>2. c.high <= tail
  BY <1>0 DEF Sending, Carrying
<1> HIDE DEF tail
<1>3. t \in Socket
  BY <1>0, <1>1 DEF Socket
<1>4. /\ t.high = c.high /\ t.head = c.head /\ t.nextTx = c.nextTx /\ t.tail = tail
      /\ t.st = c.st /\ t.up = c.up /\ t.rcv = c.rcv /\ t.fin = c.fin /\ t.out = c.out
      /\ t.held = c.held /\ t.retx = c.retx /\ Calmly(c, t)
  BY <1>1 DEF Socket, Calmly
<1>5. Sending(t)
  BY <1>2, <1>4 DEF Sending, Carrying, Fine, Calmly
<1>6. t.high >= c.high
  BY <1>0, <1>4
<1> QED
  BY <1>0, <1>3, <1>4, <1>5, <1>6 DEF Goes

\* A FIN of its own ends the stream.
LEMMA FinGoes ==
    ASSUME NEW c \in Socket, Sending(c), c.out = <<>>, c.st = "ESTABLISHED", c.tail = c.high,
           NEW t, t = SendFin(c, {}, "FIN_WAIT_1")
    PROVE  Goes(c, t) /\ t.head = c.head
<1> DEFINE u == SendEmpty(c, "FIN_ACK", {})
           m == EmptyPacket(c, "FIN_ACK", {})
<1>0. /\ c.up /\ c.load = {} /\ c.high \in Nat /\ c.head \in Nat /\ c.nextTx = c.high /\ c.rcv = 1
  BY DEF Sending, Carrying, Fine, Socket
<1>1. /\ u \in Socket /\ SameCore(c, u) /\ u.st = c.st /\ u.up /\ Calmly(c, u)
      /\ u.out = Append(c.out, m)
  BY <1>0, EmptyCalmly
<1>2. t = [u EXCEPT !.st = "FIN_WAIT_1"]
  BY DEF SendFin
<1>3. m \in Packet /\ m.type = "FIN_ACK" /\ m.len = 0 /\ m.ack = 1 /\ m.seq = c.high
  <2>1. m \in Packet
    BY EmptyType DEF PacketType, Load
  <2> QED
    BY <1>0, <2>1 DEF EmptyPacket
<1> HIDE DEF u, m
<1>4. t \in Socket
  BY FinTaken DEF Load
<1>5. SameCore(u, t) /\ t.st = "FIN_WAIT_1" /\ t.up = u.up /\ t.out = u.out /\ Calmly(u, t)
  BY <1>1, <1>2 DEF Socket, SameCore, Calmly
<1>6. Sending(t)
  BY <1>1, <1>5 DEF Sending, Carrying, Fine, SameCore, Calmly
<1>7. t.out = <<m>> /\ <<m>> \in Seq(Packet)
  BY <1>1, <1>3, <1>5
<1>8. Stream(<<m>>, c.high, c.high, TRUE)
  <2>1. Len(<<m>>) = 1 /\ <<m>>[1] = m
    OBVIOUS
  <2>2. m.seq = c.high + 1 - 1 /\ m.seq + m.len = c.high
    BY <1>0, <1>3
  <2> QED
    BY <1>3, <2>1, <2>2 DEF Stream
<1>9. t.high = c.high /\ t.head = c.head /\ t.high >= c.high
  BY <1>0, <1>1, <1>5 DEF SameCore
<1>10. Stream(t.out, c.high, t.high, t.st = "FIN_WAIT_1")
  <2> DEFINE fin == t.st = "FIN_WAIT_1"
  <2>1. fin = TRUE
    BY <1>5
  <2> HIDE DEF fin
  <2>2. Stream(t.out, c.high, t.high, fin)
    BY <1>7, <1>8, <1>9, <2>1
  <2> QED
    BY <2>2 DEF fin
<1> QED
  BY <1>4, <1>6, <1>7, <1>9, <1>10 DEF Goes

\* Close sends the FIN, or leaves it to the last segment.
LEMMA CloseGoes ==
    ASSUME NEW c \in Socket, Sending(c), c.out = <<>>, NEW t, t = Close(c)
    PROVE  Goes(c, t) /\ t.head = c.head
<1>0. /\ c.high \in Nat /\ c.tail \in Nat /\ c.nextTx = c.high /\ c.held = {} /\ <<>> \in Seq(Packet)
      /\ c.st \in {"ESTABLISHED", "FIN_WAIT_1"}
  BY DEF Sending, Carrying, Fine, Socket
<1>1. CASE c.tail > c.nextTx
  <2>1. t = [c EXCEPT !.coe = TRUE]
    BY <1>0, <1>1 DEF Close
  <2>2. t \in Socket
    BY <2>1 DEF Socket
  <2>3. /\ SameCore(c, t) /\ t.st = c.st /\ t.up = c.up /\ t.out = c.out /\ t.retx = c.retx
        /\ Calmly(c, t)
    BY <2>1 DEF Socket, SameCore, Calmly
  <2>4. Sending(t)
    BY <2>3 DEF Sending, Carrying, Fine, SameCore, Calmly
  <2> QED
    BY <1>0, <2>2, <2>3, <2>4 DEF Goes, SameCore
<1>2. CASE ~(c.tail > c.nextTx)
  <2>1. t = DoClose(c)
    BY <1>0, <1>2 DEF Close
  <2>2. CASE c.st = "ESTABLISHED"
    <3>1. t = SendFin(c, {}, "FIN_WAIT_1")
      BY <2>1, <2>2 DEF DoClose, SendFin
    <3>2. c.tail = c.high
      BY <1>0, <1>2 DEF Sending, Carrying
    <3> QED
      BY <2>2, <3>1, <3>2, FinGoes
  <2>3. CASE c.st = "FIN_WAIT_1"
    <3>1. t = c
      BY <2>1, <2>3 DEF DoClose
    <3>2. c.high >= c.high
      BY <1>0
    <3> QED
      BY <1>0, <3>1, <3>2 DEF Goes
  <2> QED
    BY <1>0, <2>2, <2>3
<1> QED
  BY <1>1, <1>2

\* Without data the packet is an acknowledgment and nothing else.
LEMMA AckAlone ==
    ASSUME NEW s, NEW m, m.len = 0
    PROVE  ReceivedData(s, m) = s
BY DEF ReceivedData

\* An acknowledgment moves the head of the buffer and sends what waits.
LEMMA AckGoes ==
    ASSUME NEW c \in Socket, Sending(c), c.out = <<>>, NEW m \in Packet, m.len = 0,
           m.ack <= c.high, NEW t, t = ReceivedAck(c, m)
    PROVE  Goes(c, t) /\ t.head = Larger(c.head, m.ack)
<1> DEFINE ack == m.ack
           u == AfterAck(c, ack)
<1>0. /\ c.high \in Nat /\ c.head \in Nat /\ c.tail \in Nat /\ c.nextTx \in Nat /\ ack \in Nat
      /\ <<>> \in Seq(Packet) /\ ack <= c.high
  BY DEF Socket, Packet
<1>1. CASE ack < c.head
  <2>1. t = ReceivedData(c, m)
    BY <1>1 DEF ReceivedAck
  <2>2. t = c
    BY <2>1, AckAlone
  <2>3. c.high >= c.high /\ Larger(c.head, m.ack) = c.head
    BY <1>0, <1>1 DEF Larger
  <2> QED
    BY <1>0, <2>2, <2>3 DEF Goes
<1>2. CASE ack > c.head
  <2>1. u = NewAck(c, ack)
    BY <1>0, <1>2 DEF AfterAck
  <2>2. t = SendPending(ReceivedData(u, m))
    BY <1>0, <1>2, <2>1 DEF ReceivedAck
  <2>3. t = SendPending(u)
    BY <2>2, AckAlone
  <2>11. ack \in Nat /\ u = NewAck(c, ack)
    BY <1>0, <2>1
  <2> HIDE DEF u, ack
  <2>4. /\ u \in Socket /\ AckTaken(c, u) /\ u.out = c.out /\ Calmly(c, u) /\ u.coe = c.coe
        /\ u.head = ack /\ u.tail = Larger(c.tail, ack) /\ u.nextTx = Larger(c.nextTx, ack)
    BY <2>11, NewAckCalmly
  <2>10. ack >= c.tail /\ c.st = "ESTABLISHED" => u.retx = NoTimer
    BY <2>11, NewAckCalmly
  <2>5. c.nextTx = c.high /\ c.high <= c.tail /\ 1 <= c.head
    BY DEF Sending, Carrying
  <2>6. u.tail = c.tail /\ u.nextTx = c.nextTx /\ 1 <= u.head
    BY <1>0, <1>2, <2>4, <2>5 DEF Larger
  <2>7. Carrying(u)
    BY <1>0, <2>4, <2>6 DEF Sending, Carrying, AckTaken, Calmly, Fine
  <2>8. u.st = "ESTABLISHED" /\ u.head = u.tail => u.retx = NoTimer
    BY <1>0, <2>4, <2>6, <2>10 DEF AckTaken
  <2>9. Goes(u, t) /\ t.head = ack
    BY <2>3, <2>4, <2>7, <2>8, PendingGoes
  <2> QED
    BY <1>0, <1>2, <2>4, <2>9 DEF Goes, AckTaken, Larger, ack
<1>3. CASE ack = c.head
  <2>1. t = SendPending(ReceivedData(c, m))
    BY <1>0, <1>3 DEF ReceivedAck
  <2>2. t = SendPending(c)
    BY <2>1, AckAlone
  <2>3. c.st = "ESTABLISHED" /\ c.head = c.tail => c.retx = NoTimer
    BY <1>0 DEF Sending, Carrying
  <2>4. Carrying(c)
    BY DEF Sending
  <2>5. Goes(c, t) /\ t.head = c.head
    BY <2>2, <2>3, <2>4, PendingGoes
  <2> QED
    BY <1>0, <1>3, <2>5 DEF Larger
<1> QED
  BY <1>0, <1>1, <1>2, <1>3

\* The FIN of the client is acknowledged, now or before.
LEMMA FinAcked ==
    ASSUME NEW c \in Socket, (Sending(c) /\ c.st = "FIN_WAIT_1") \/ Waiting(c),
           NEW m \in Packet, m.len = 0, m.ack = c.high + 1, NEW u, u = ReceivedAck(c, m)
    PROVE  /\ u \in Socket /\ u.st = c.st /\ u.up /\ Fine(u) /\ ~u.lato /\ u.rcv = 1 /\ u.fin = 0
           /\ AllAcked(u) /\ u.high = c.high /\ u.out = c.out
<1>0. /\ c.high \in Nat /\ c.head \in Nat /\ c.tail \in Nat /\ c.nextTx \in Nat
      /\ c.st \in {"FIN_WAIT_1", "FIN_WAIT_2"}
  BY DEF Socket, Sending, Waiting
<1>1. CASE Sending(c) /\ c.st = "FIN_WAIT_1"
  <2> DEFINE w == NewAck(c, c.high + 1)
  <2>1. c.nextTx = c.high /\ c.tail = c.high /\ c.head <= c.high /\ 1 <= c.high
    BY <1>0, <1>1 DEF Sending, Carrying
  <2>2. u = SendPending(ReceivedData(w, m))
    BY <1>0, <2>1 DEF ReceivedAck
  <2>3. u = SendPending(w)
    BY <2>2, AckAlone
  <2>4. /\ w \in Socket /\ AckTaken(c, w) /\ w.out = c.out /\ Calmly(c, w)
        /\ w.head = c.high + 1 /\ w.tail = Larger(c.tail, c.high + 1)
        /\ w.nextTx = Larger(c.nextTx, c.high + 1)
    <3>1. c.high + 1 \in Nat
      BY <1>0
    <3> QED
      BY <3>1, NewAckCalmly
  <2> HIDE DEF w
  <2>5. w.tail = c.high + 1 /\ w.nextTx = c.high + 1 /\ w.high = c.high
    BY <1>0, <2>1, <2>4 DEF Larger, AckTaken
  <2>6. u = w
    BY <1>0, <2>3, <2>4, <2>5 DEF SendPending, SendData, Larger
  <2>7. AllAcked(u)
    BY <2>1, <2>4, <2>5, <2>6 DEF AllAcked
  <2> QED
    BY <1>1, <2>4, <2>5, <2>6, <2>7 DEF AckTaken, Calmly, Sending, Carrying, Fine
<1>2. CASE Waiting(c)
  <2>1. c.head = c.high + 1 /\ c.nextTx = c.head /\ c.tail = c.head
    BY <1>2 DEF Waiting, AllAcked
  <2> DEFINE w == [c EXCEPT !.nextTx = c.high + 1]
  <2>2. u = SendPending(ReceivedData(w, m))
    BY <1>0, <2>1 DEF ReceivedAck
  <2>3. u = SendPending(w)
    BY <2>2, AckAlone
  <2>4. w = c
    BY <2>1 DEF Socket
  <2>5. u = c
    BY <1>0, <2>1, <2>3, <2>4 DEF SendPending, SendData, Larger
  <2> QED
    BY <1>2, <2>5 DEF Waiting
<1> QED
  BY <1>1, <1>2

\* In FIN_WAIT_1 an acknowledgment of data changes no state ...
LEMMA WaitAckData ==
    ASSUME NEW c \in Socket, Sending(c), c.st = "FIN_WAIT_1", c.out = <<>>,
           NEW m \in Packet, m.type = "ACK", m.len = 0, m.ack <= c.high,
           NEW t, t = ProcessWait(c, m)
    PROVE  Goes(c, t) /\ t.head = Larger(c.head, m.ack)
<1> DEFINE u == ReceivedAck(c, m)
<1>1. Goes(c, u) /\ u.head = Larger(c.head, m.ack)
  BY AckGoes
<1>2. u.st = "FIN_WAIT_1" /\ u.fin = 0 /\ u.high = c.high
  BY <1>1 DEF Goes, Sending, Carrying
<1>3. m.ack # u.high + 1
  BY <1>2 DEF Socket, Packet
<1>4. ~Finished(u)
  BY <1>2 DEF Finished
<1>5. t = u
  BY <1>2, <1>3, <1>4 DEF ProcessWait
<1> HIDE DEF u
<1> QED
  BY <1>1, <1>5

\* ... that of the FIN leads to FIN_WAIT_2, if it is not there already.
LEMMA WaitAckFin ==
    ASSUME NEW c \in Socket, (Sending(c) /\ c.st = "FIN_WAIT_1") \/ Waiting(c), c.out = <<>>,
           NEW m \in Packet, m.type = "ACK", m.len = 0, m.ack = c.high + 1,
           NEW t, t = ProcessWait(c, m)
    PROVE  t \in Socket /\ Waiting(t) /\ t.high = c.high /\ t.out = <<>>
<1> DEFINE u == ReceivedAck(c, m)
           v == [u EXCEPT !.st = "FIN_WAIT_2"]
<1>1. /\ u \in Socket /\ u.st = c.st /\ u.up /\ Fine(u) /\ ~u.lato /\ u.rcv = 1 /\ u.fin = 0
      /\ AllAcked(u) /\ u.high = c.high /\ u.out = c.out
  BY FinAcked
<1>2. c.st \in {"FIN_WAIT_1", "FIN_WAIT_2"}
  BY DEF Waiting
<1>3. u.head >= u.tail /\ m.ack = u.high + 1
  <2>1. u.head \in Nat /\ u.tail = u.head
    BY <1>1 DEF Socket, AllAcked
  <2> QED
    BY <1>1, <2>1
<1>4. v \in Socket
  BY <1>1 DEF Socket, State
<1>5. /\ SameCore(u, v) /\ v.st = "FIN_WAIT_2" /\ v.up = u.up /\ v.out = u.out /\ Calmly(u, v)
  BY <1>1 DEF Socket, SameCore, Calmly
<1>6. Waiting(v) /\ v.high = c.high /\ v.out = <<>>
  BY <1>1, <1>5 DEF Waiting, SameCore, Calmly, Fine, AllAcked
<1>7. ~Finished(u) /\ ~Finished(v)
  BY <1>1, <1>6 DEF Finished, Waiting
<1>8. CASE c.st = "FIN_WAIT_1"
  <2>1. t = v
    BY <1>1, <1>3, <1>5, <1>7, <1>8 DEF ProcessWait
  <2> QED
    BY <1>4, <1>6, <2>1
<1>9. CASE c.st = "FIN_WAIT_2"
  <2>1. t = u
    BY <1>1, <1>7, <1>9 DEF ProcessWait
  <2> QED
    BY <1>1, <1>9, <2>1 DEF Waiting
<1> QED
  BY <1>2, <1>8, <1>9

\* An old acknowledgment in FIN_WAIT_2.
LEMMA WaitAckOld ==
    ASSUME NEW c \in Socket, Waiting(c), NEW m \in Packet, m.type = "ACK", m.len = 0,
           m.ack <= c.high, NEW t, t = ProcessWait(c, m)
    PROVE  t = c
<1>1. m.ack < c.head
  BY DEF Waiting, AllAcked, Socket, Packet
<1>2. ReceivedAck(c, m) = c
  BY <1>1, AckAlone DEF ReceivedAck
<1>3. c.st = "FIN_WAIT_2" /\ ~Finished(c)
  BY DEF Waiting, Finished
<1> QED
  BY <1>2, <1>3 DEF ProcessWait

\* The FIN of the server ends the connection for the client.
LEMMA WaitFin ==
    ASSUME NEW c \in Socket, (Sending(c) /\ c.st = "FIN_WAIT_1") \/ Waiting(c), c.out = <<>>,
           NEW m \in Packet, Bare(m, "FIN_ACK", c.high + 1), m.seq = 1,
           NEW t, t = ProcessWait(c, m)
    PROVE  /\ t \in Socket /\ Served(t) /\ Len(t.out) = 1 /\ t.out \in Seq(Packet)
           /\ t.out[1].type = "ACK" /\ t.out[1].len = 0 /\ t.out[1].bits = {}
           /\ t.out[1].seq = c.high + 1
<1> DEFINE u == ReceivedAck(c, m)
           v == SetFinSequence(u, 1)
           w == TimeWait(v)
           e == EmptyPacket(w, "ACK", {})
<1>1. /\ u \in Socket /\ u.st = c.st /\ u.up /\ Fine(u) /\ ~u.lato /\ u.rcv = 1 /\ u.fin = 0
      /\ AllAcked(u) /\ u.high = c.high /\ u.out = c.out
  BY FinAcked DEF Bare
<1>2. c.st \in {"FIN_WAIT_1", "FIN_WAIT_2"}
  BY DEF Waiting
<1>3. 1 \in Nat
  OBVIOUS
<1> HIDE DEF u
<1>4. /\ v \in Socket /\ FinNoted(u, v) /\ Calmly(u, v) /\ v.fin = 1 /\ v.rcv = 2
  BY <1>1, <1>3, FinCalmly
<1>5. Finished(v)
  BY <1>4 DEF Finished
<1>6. v.head >= v.tail /\ m.ack = v.high + 1 /\ v.st = c.st
  <2>1. v.head \in Nat /\ v.tail = v.head /\ v.high = c.high /\ v.st = c.st
    BY <1>1, <1>4 DEF Socket, AllAcked, FinNoted
  <2> QED
    BY <2>1 DEF Bare
<1>7. t = SendAck(w)
  <2>1. u.head >= u.tail /\ m.ack = u.high + 1
    BY <1>4, <1>6 DEF FinNoted
  <2>2. m.type = "FIN_ACK" /\ m.seq = 1
    BY DEF Bare
  <2> HIDE DEF v, w
  <2>3. t = CASE v.st = "FIN_WAIT_1" /\ Finished(v) ->
                    SendAck(IF u.head >= u.tail /\ m.ack = u.high + 1
                            THEN TimeWait(v) ELSE [v EXCEPT !.st = "CLOSING"])
              [] v.st = "FIN_WAIT_2" /\ Finished(v) -> SendAck(TimeWait(v))
              [] OTHER -> v
    BY <2>2 DEF ProcessWait, u, v
  <2> QED
    BY <1>2, <1>5, <1>6, <2>1, <2>3 DEF w
<1> HIDE DEF v
<1>8. w = [v EXCEPT !.st = "TIME_WAIT", !.normal = TRUE, !.retx = NoTimer, !.lato = FALSE]
  BY DEF TimeWait
<1> HIDE DEF w
<1>9. w \in Socket
  <2>1. "TIME_WAIT" \in State /\ NoTimer \in [kind : TimerKind, bits : Load]
    BY DEF State, NoTimer, TimerKind, Load
  <2> HIDE DEF NoTimer
  <2> QED
    BY <1>4, <1>8, <2>1, ZenonT(60) DEF Socket
<1>10. /\ SameCore(v, w) /\ w.st = "TIME_WAIT" /\ w.up = v.up /\ w.retx = NoTimer /\ ~w.lato
       /\ w.out = v.out /\ w.error = v.error /\ w.load = v.load
  BY <1>4, <1>8 DEF Socket, SameCore
<1>11. w.up /\ w.load = {} /\ w.out = <<>> /\ Fine(w) /\ Still(w) /\ AllAcked(w) /\ w.high = c.high
  BY <1>1, <1>4, <1>10 DEF FinNoted, Calmly, SameCore, Fine, Still, AllAcked
<1>12. /\ t \in Socket /\ SameCore(w, t) /\ t.st = w.st /\ t.up /\ Calmly(w, t)
       /\ t.retx = w.retx /\ t.out = Append(w.out, e)
  BY <1>7, <1>9, <1>11, EmptyCalmly DEF SendAck
<1>13. e.type = "ACK" /\ e.len = 0 /\ e.bits = {} /\ e.seq = c.high + 1 /\ e \in Packet
  <2>1. e \in Packet
    BY <1>9, EmptyType DEF PacketType, Load
  <2>2. w.nextTx = c.high + 1
    BY <1>11 DEF AllAcked
  <2> QED
    BY <1>10, <1>11, <2>1, <2>2 DEF EmptyPacket
<1> HIDE DEF e
<1>14. t.out = <<e>> /\ Len(t.out) = 1 /\ t.out[1] = e /\ t.out \in Seq(Packet)
  BY <1>11, <1>12, <1>13
<1>15. Served(t)
  BY <1>10, <1>11, <1>12 DEF Served, SameCore, Calmly, Fine, Still, AllAcked
<1> QED
  BY <1>12, <1>13, <1>14, <1>15

-----------------------------------------------------------------------------
(* The handshake.                                                          *)

\* The event that is not scheduled is one of the events.
LEMMA NoTimerType == NoTimer \in [kind : TimerKind, bits : Load]
BY DEF NoTimer, TimerKind, Load

\* The end of the handshake: the SYN is sent and acknowledged.
LEMMA OpenedCalmly ==
    ASSUME NEW s \in Socket, s.nextTx = 0, NEW t, t = Opened(s)
    PROVE  /\ t \in Socket /\ t.st = "ESTABLISHED" /\ t.retx = NoTimer
           /\ t.nextTx = 1 /\ t.high = 1 /\ t.head = 1 /\ t.tail = 1 /\ t.rcv = 1
           /\ t.up = s.up /\ t.shut = s.shut /\ t.held = s.held /\ t.fin = s.fin
           /\ t.out = s.out /\ Calmly(s, t)
<1> DEFINE one == 1
           u == [s EXCEPT !.retx = NoTimer, !.nextTx = one, !.high = one, !.head = one, !.tail = one]
<1>1. t = [u EXCEPT !.st = "ESTABLISHED", !.rcv = one]
  BY DEF Opened, Connected
<1>2. one \in Nat /\ one = 1 /\ "ESTABLISHED" \in State
  BY DEF State
<1> HIDE DEF one
<1>3. u \in Socket
  BY <1>2, NoTimerType, ZenonT(60) DEF Socket
<1>4. /\ u.retx = NoTimer /\ u.nextTx = one /\ u.high = one /\ u.head = one /\ u.tail = one
      /\ u.up = s.up /\ u.shut = s.shut /\ u.held = s.held /\ u.fin = s.fin /\ u.out = s.out
      /\ Calmly(s, u)
  BY DEF Socket, Calmly
<1> HIDE DEF u
<1>5. t \in Socket
  BY <1>1, <1>2, <1>3 DEF Socket
<1>6. /\ t.st = "ESTABLISHED" /\ t.retx = u.retx
      /\ t.nextTx = u.nextTx /\ t.high = u.high /\ t.head = u.head /\ t.tail = u.tail /\ t.rcv = one
      /\ t.up = u.up /\ t.shut = u.shut /\ t.held = u.held /\ t.fin = u.fin
      /\ t.out = u.out /\ Calmly(u, t)
  BY <1>1, <1>3 DEF Socket, Calmly
<1> QED
  BY <1>2, <1>4, <1>5, <1>6 DEF Calmly

\* The first SYN or SYN_ACK never finds its retries used up.
LEMMA SynCalmly ==
    ASSUME NEW s \in Socket, s.up, s.load = {}, s.syn # 0, NEW type \in {"SYN", "SYN_ACK"},
           NEW t, t = SendEmpty(s, type, {})
    PROVE  /\ t \in Socket /\ SameCore(s, t) /\ t.st = s.st /\ t.up /\ Calmly(s, t)
           /\ t.out = Append(s.out, EmptyPacket(s, type, {}))
<1> DEFINE bits == IF s.load = {} THEN {} ELSE {} \cup s.load
           guarded == type \in {"SYN", "SYN_ACK", "FIN_ACK"} /\ s.retx = NoTimer
           syn == type \in {"SYN", "SYN_ACK"}
           retx == IF guarded THEN [kind |-> type, bits |-> bits] ELSE s.retx
           out == Append(s.out, EmptyPacket(s, type, {}))
           n == IF syn THEN s.syn - 1 ELSE s.syn
<1>1. t = [s EXCEPT !.out = out, !.syn = n, !.retx = retx]
  BY DEF SendEmpty, EmptyPacket
<1>2. t \in Socket
  BY SendEmptyFields DEF PacketType, Load
<1> HIDE DEF bits, guarded, retx, out, n
<1>3. /\ SameCore(s, t) /\ t.st = s.st /\ t.up = s.up /\ Calmly(s, t) /\ t.out = out
  BY <1>1 DEF Socket, SameCore, Calmly
<1> QED
  BY <1>2, <1>3 DEF out

\* One packet.
LEMMA OneSent ==
    ASSUME NEW m \in Packet, NEW out, out = <<>>, NEW all, all = Append(out, m)
    PROVE  Len(all) = 1 /\ all[1] = m /\ all \in Seq(Packet)
<1>1. all = <<m>>
  OBVIOUS
<1> QED
  BY <1>1

\* A socket before Connect.
LEMMA NewSocketFields ==
    /\ NewSocket.nextTx = 0 /\ NewSocket.high = 0 /\ NewSocket.head = 0 /\ NewSocket.tail = 0
    /\ NewSocket.rcv = 0 /\ NewSocket.held = {} /\ NewSocket.fin = 0 /\ ~NewSocket.shut
    /\ NewSocket.retx = NoTimer /\ NewSocket.st = "CLOSED" /\ NewSocket.out = <<>>
    /\ ~NewSocket.up /\ ~NewSocket.error /\ ~NewSocket.lato /\ NewSocket.load = {}
    /\ NewSocket.syn = SynRetries /\ SynRetries # 0
BY CountAssumption DEF NewSocket

\* Connect.
LEMMA ConnectAsks ==
    ASSUME NEW t, t = [SendEmpty([NewSocket EXCEPT !.up = TRUE], "SYN", {}) EXCEPT !.st = "SYN_SENT"]
    PROVE  /\ t \in Socket /\ Asking(t)
           /\ Len(t.out) = 1 /\ t.out \in Seq(Packet) /\ t.out[1].type = "SYN" /\ t.out[1].seq = 0
<1> DEFINE s == NewSocket
           u == [s EXCEPT !.up = TRUE]
           w == SendEmpty(u, "SYN", {})
           m == EmptyPacket(u, "SYN", {})
<1>1. s \in Socket /\ t = [w EXCEPT !.st = "SYN_SENT"]
  BY NewSocketType
<1>2. /\ s.nextTx = 0 /\ s.high = 0 /\ s.head = 0 /\ s.tail = 0 /\ s.fin = 0 /\ s.held = {}
      /\ s.out = <<>> /\ ~s.error /\ ~s.lato /\ s.load = {} /\ s.syn # 0 /\ s.st = "CLOSED"
  BY NewSocketFields
<1> HIDE DEF s
<1>3. u \in Socket
  BY <1>1 DEF Socket
<1>4. SameCore(s, u) /\ u.up /\ u.out = s.out /\ Calmly(s, u) /\ u.syn = s.syn /\ u.st = s.st
  BY <1>1 DEF Socket, SameCore, Calmly
<1> HIDE DEF u
<1>5. u.load = {} /\ u.syn # 0 /\ u.out = <<>> /\ u.nextTx = 0 /\ u.st = "CLOSED"
  BY <1>2, <1>4 DEF SameCore, Calmly
<1>6. w \in Socket /\ SameCore(u, w) /\ w.up /\ Calmly(u, w) /\ w.out = Append(u.out, m)
  BY <1>3, <1>4, <1>5, SynCalmly
<1>7. m \in Packet
  BY <1>3, EmptyType DEF PacketType, Load
<1>8. m.type = "SYN" /\ m.seq = 0
  BY <1>5 DEF EmptyPacket
<1> HIDE DEF w, m
<1>9. t \in Socket
  BY <1>1, <1>6 DEF Socket, State
<1>10. SameCore(w, t) /\ t.st = "SYN_SENT" /\ t.up = w.up /\ t.out = w.out /\ Calmly(w, t)
  BY <1>1, <1>6 DEF Socket, SameCore, Calmly
<1>11. Asking(t)
  <2>1. /\ w.nextTx = 0 /\ w.high = 0 /\ w.head = 0 /\ w.tail = 0 /\ w.fin = 0 /\ w.held = {}
        /\ ~w.error /\ ~w.lato /\ w.load = {}
    BY <1>2, <1>4, <1>6 DEF SameCore, Calmly
  <2> QED
    BY <1>6, <1>10, <2>1 DEF Asking, Fine, SameCore, Calmly
<1>12. Len(t.out) = 1 /\ t.out[1] = m /\ t.out \in Seq(Packet)
  <2>1. u.out = <<>> /\ t.out = Append(u.out, m)
    BY <1>5, <1>6, <1>10
  <2> QED
    BY <1>7, <2>1, OneSent
<1> QED
  BY <1>7, <1>8, <1>9, <1>11, <1>12

\* Fork and CompleteFork.
LEMMA ForkAnswers ==
    ASSUME NEW t, t = SendEmpty(Forked, "SYN_ACK", {})
    PROVE  /\ t \in Socket /\ Answering(t) /\ Len(t.out) = 1 /\ t.out \in Seq(Packet)
           /\ Bare(t.out[1], "SYN_ACK", 1) /\ t.out[1].seq = 0
<1> DEFINE s == Forked
           m == EmptyPacket(s, "SYN_ACK", {})
<1>1. /\ s \in Socket /\ s.st = "SYN_RCVD" /\ s.rcv = 1 /\ s.shut
      /\ s.nextTx = 0 /\ s.high = 0 /\ s.head = 0 /\ s.tail = 0
      /\ s.held = {} /\ s.fin = 0 /\ s.out = <<>>
  BY NewSocketType, ForkedFields
<1>2. s.up /\ ~s.error /\ ~s.lato /\ s.load = {} /\ s.syn # 0
  BY NewSocketFields DEF Forked, NewSocket
<1> HIDE DEF s
<1>3. t \in Socket /\ SameCore(s, t) /\ t.st = s.st /\ t.up /\ Calmly(s, t) /\ t.out = Append(s.out, m)
  BY <1>1, <1>2, SynCalmly DEF s
<1>4. m \in Packet
  BY <1>1, EmptyType DEF PacketType, Load
<1>5. m.type = "SYN_ACK" /\ m.seq = 0 /\ m.len = 0 /\ m.ack = 1
  BY <1>1 DEF EmptyPacket
<1> HIDE DEF m
<1>6. Len(t.out) = 1 /\ t.out[1] = m /\ t.out \in Seq(Packet)
  BY <1>1, <1>3, <1>4, OneSent
<1>7. Answering(t)
  BY <1>1, <1>2, <1>3 DEF Answering, Fine, SameCore, Calmly
<1> QED
  BY <1>3, <1>4, <1>5, <1>6, <1>7 DEF Bare

\* The SYN_ACK establishes the client.
LEMMA SynSentOpens ==
    ASSUME NEW c \in Socket, Asking(c), c.out = <<>>, NEW m \in Packet,
           Bare(m, "SYN_ACK", 1), m.seq = 0, NEW t, t = ProcessSynSent(c, m)
    PROVE  /\ t \in Socket /\ Sending(t) /\ t.head = 1 /\ t.high = 1 /\ t.st = "ESTABLISHED"
           /\ Len(t.out) = 1 /\ t.out \in Seq(Packet) /\ Bare(t.out[1], "ACK", 1)
<1> DEFINE u == Opened(c)
           w == SendAck(u)
           a == EmptyPacket(u, "ACK", {})
<1>1. c.nextTx = 0 /\ c.up /\ Fine(c) /\ ~c.lato /\ c.fin = 0
  BY DEF Asking
<1>2. [Connected(c) EXCEPT !.st = "ESTABLISHED", !.rcv = m.seq + 1] = u
  BY DEF Opened
<1>3. t = SendPending(w)
  BY <1>1, <1>2 DEF ProcessSynSent, Bare
<1>4. /\ u \in Socket /\ u.st = "ESTABLISHED" /\ u.retx = NoTimer
      /\ u.nextTx = 1 /\ u.high = 1 /\ u.head = 1 /\ u.tail = 1 /\ u.rcv = 1
      /\ u.up = c.up /\ u.shut = c.shut /\ u.held = c.held /\ u.fin = c.fin
      /\ u.out = c.out /\ Calmly(c, u)
  BY <1>1, OpenedCalmly
<1> HIDE DEF u
<1>5. /\ w \in Socket /\ SameCore(u, w) /\ w.st = u.st /\ w.up /\ Calmly(u, w)
      /\ w.retx = u.retx /\ w.out = Append(u.out, a)
  BY <1>1, <1>4, EmptyCalmly DEF SendAck, Calmly, Fine
<1>6. a \in Packet
  BY <1>4, EmptyType DEF PacketType, Load
<1>7. a.type = "ACK" /\ a.len = 0 /\ a.ack = 1
  BY <1>4 DEF EmptyPacket
<1> HIDE DEF w, a
<1>8. w.high = 1 /\ w.head = 1 /\ w.tail = 1
  BY <1>4, <1>5 DEF SameCore
<1>9. t = w
  BY <1>3, <1>8 DEF SendPending, SendData, Larger
<1>10. Sending(w)
  BY <1>1, <1>4, <1>5, <1>8 DEF Sending, Carrying, SameCore, Calmly, Fine
<1>11. Len(w.out) = 1 /\ w.out[1] = a /\ w.out \in Seq(Packet)
  <2>1. u.out = <<>>
    BY <1>4
  <2> QED
    BY <1>5, <1>6, <2>1
<1> QED
  BY <1>4, <1>5, <1>6, <1>7, <1>8, <1>9, <1>10, <1>11 DEF Bare

\* CloseAndNotify stops the timers and reports no error.
LEMMA ClosedCalmly ==
    ASSUME NEW s \in Socket, NEW t, t = CloseAndNotify(s)
    PROVE  /\ t \in Socket /\ SameCore(s, t) /\ t.st = "CLOSED" /\ ~t.up /\ Still(t)
           /\ t.out = s.out /\ t.error = s.error /\ t.load = s.load
<1>1. t = [s EXCEPT !.normal = TRUE, !.st = "CLOSED", !.up = FALSE, !.retx = NoTimer, !.lato = FALSE]
  BY DEF CloseAndNotify, Deallocate, Socket
<1>2. "CLOSED" \in State /\ NoTimer \in [kind : TimerKind, bits : Load]
  BY NoTimerType DEF State
<1> HIDE DEF NoTimer
<1>3. t \in Socket
  BY <1>1, <1>2, ZenonT(60) DEF Socket
<1>4. /\ SameCore(s, t) /\ t.st = "CLOSED" /\ t.up = FALSE /\ t.retx = NoTimer /\ t.lato = FALSE
      /\ t.out = s.out /\ t.error = s.error /\ t.load = s.load
  BY <1>1 DEF Socket, SameCore
<1> QED
  BY <1>3, <1>4 DEF Still

\* Close before the SYN_ACK gives the connection up.
LEMMA AskingCloses ==
    ASSUME NEW c \in Socket, Asking(c), NEW t, t = Close(c)
    PROVE  t \in Socket /\ Aborted(t)
<1> DEFINE u == SendEmpty(c, "RST", {})
           v == [u EXCEPT !.error = TRUE, !.up = FALSE, !.retx = NoTimer, !.lato = FALSE]
<1>1. t = CloseAndNotify(SendRST(c))
  BY DEF Asking, Fine, Close, DoClose
<1>2. u \in Socket /\ SameCore(c, u)
  BY SendEmptyFields DEF PacketType, Load
<1> HIDE DEF u
<1>3. SendRST(c) = v
  BY <1>2 DEF SendRST, Deallocate, u, Socket
<1>4. v \in Socket
  <2> HIDE DEF NoTimer
  <2> QED
    BY <1>2, NoTimerType, ZenonT(60) DEF Socket
<1>5. v.error = TRUE /\ v.head = u.head
  BY <1>2 DEF Socket
<1> HIDE DEF v
<1>6. /\ t \in Socket /\ SameCore(v, t) /\ t.st = "CLOSED" /\ ~t.up /\ Still(t) /\ t.error = v.error
  BY <1>1, <1>3, <1>4, ClosedCalmly
<1> QED
  BY <1>2, <1>5, <1>6 DEF Aborted, Asking, SameCore

-----------------------------------------------------------------------------
(* The handlers of the server, and the end of the client.                  *)

\* The ACK establishes the server.
LEMMA SynRcvdConnects ==
    ASSUME NEW s \in Socket, Answering(s), s.out = <<>>, NEW m \in Packet, Bare(m, "ACK", 1),
           NEW t, t = ProcessSynRcvd(s, m)
    PROVE  t \in Socket /\ Receiving(t) /\ t.rcv = 1 /\ t.out = <<>>
<1> DEFINE c == Connected(s)
           e == Opened(s)
<1>1. s.nextTx = 0 /\ s.rcv = 1 /\ s.up /\ Fine(s) /\ ~s.lato /\ s.fin = 0 /\ s.shut
  BY DEF Answering
<1>2. /\ e \in Socket /\ e.st = "ESTABLISHED" /\ e.retx = NoTimer
      /\ e.nextTx = 1 /\ e.high = 1 /\ e.head = 1 /\ e.tail = 1 /\ e.rcv = 1
      /\ e.up = s.up /\ e.shut = s.shut /\ e.held = s.held /\ e.fin = s.fin
      /\ e.out = s.out /\ Calmly(s, e)
  BY <1>1, OpenedCalmly
<1>3. InEstablished(c) = e
  <2> DEFINE one == 1
             first == s.nextTx + 1
  <2>1. c = [s EXCEPT !.retx = NoTimer, !.nextTx = first, !.high = first,
                      !.head = first, !.tail = first]
    BY DEF Connected
  <2>2. first \in Nat
    BY <1>1
  <2> HIDE DEF first, c, NoTimer
  <2>3. c \in Socket
    BY <2>1, <2>2, NoTimerType, ZenonT(60) DEF Socket
  <2>4. c.rcv = one
    BY <1>1, <2>1 DEF Socket
  <2>5. e = [c EXCEPT !.st = "ESTABLISHED", !.rcv = one]
    BY DEF Opened, c
  <2> HIDE DEF one, e
  <2> QED
    BY <2>3, <2>4, <2>5 DEF InEstablished, Socket
<1>4. t = ReceivedAck(e, m)
  BY <1>1, <1>3 DEF ProcessSynRcvd, Bare, InEstablished, c
<1> HIDE DEF e, c
<1>5. t = SendPending(ReceivedData(e, m))
  BY <1>2, <1>4 DEF ReceivedAck, Bare
<1>6. t = SendPending(e)
  BY <1>5, AckAlone DEF Bare
<1>7. t = e
  BY <1>2, <1>6 DEF SendPending, SendData, Larger
<1>8. Fine(e) /\ Still(e) /\ e.up /\ e.shut /\ e.fin = 0 /\ e.out = <<>>
  BY <1>1, <1>2 DEF Fine, Still, Calmly
<1>9. Receiving(e)
  BY <1>2, <1>8 DEF Receiving
<1> QED
  BY <1>2, <1>7, <1>8, <1>9

\* One segment in sequence is taken and acknowledged.
LEMMA DataReceived ==
    ASSUME NEW s \in Socket, s.up, s.load = {}, s.held = {}, s.out = <<>>, s.nextTx = 1,
           s.st = "ESTABLISHED",
           NEW m \in Packet, m.len = 1, m.seq = s.rcv, m.type = "FIN_ACK" \/ s.fin = 0,
           NEW t, t = ReceivedData(s, m)
    PROVE  /\ t \in Socket /\ DataTaken(s, t) /\ t.st = s.st /\ t.retx = s.retx /\ t.held = {}
           /\ Calmly(s, t)
           /\ t.rcv = IF s.fin # 0 /\ s.rcv + 1 = s.fin THEN s.rcv + 2 ELSE s.rcv + 1
           /\ Len(t.out) = 1 /\ t.out \in Seq(Packet) /\ Bare(t.out[1], "ACK", t.rcv)
<1> DEFINE u == AddSegment(s, m)
           a == EmptyPacket(u, "ACK", {})
<1>1. /\ u \in Socket /\ DataTaken(s, u) /\ u.out = s.out /\ u.st = s.st /\ u.retx = s.retx
      /\ u.held = {} /\ Calmly(s, u)
      /\ u.rcv = IF s.fin # 0 /\ s.rcv + 1 = s.fin THEN s.rcv + 2 ELSE s.rcv + 1
  BY AddCalmly
<1> HIDE DEF u
<1>2. ~(m.seq < s.rcv) /\ m.seq \notin s.held /\ m.len > 0 /\ m.len # 0
  BY DEF Socket
<1>3. m.type = "FIN_ACK" \/ ~Finished(u)
  BY <1>1 DEF Finished, DataTaken
<1>4. t = SendAck(u)
  BY <1>2, <1>3 DEF ReceivedData, u
<1>5. /\ t \in Socket /\ SameCore(u, t) /\ t.st = u.st /\ t.up /\ Calmly(u, t)
      /\ t.retx = u.retx /\ t.out = Append(u.out, a)
  BY <1>1, <1>4, EmptyCalmly DEF SendAck, Calmly, DataTaken
<1>6. a \in Packet
  BY <1>1, EmptyType DEF PacketType, Load
<1>7. a.type = "ACK" /\ a.len = 0 /\ a.ack = u.rcv
  BY DEF EmptyPacket
<1> HIDE DEF a
<1>8. Len(t.out) = 1 /\ t.out[1] = a /\ t.out \in Seq(Packet)
  BY <1>1, <1>5, <1>6, OneSent
<1>9. t.rcv = u.rcv
  BY <1>5 DEF SameCore
<1> QED
  BY <1>1, <1>5, <1>7, <1>8, <1>9 DEF DataTaken, SameCore, Calmly, Bare

\* A segment in sequence is acknowledged at once.
LEMMA ReceivingData ==
    ASSUME NEW s \in Socket, Receiving(s), s.out = <<>>, NEW m \in Packet,
           m.type = "ACK", m.len = 1, m.seq = s.rcv, m.ack = 1,
           NEW t, t = ProcessEstablished(s, m)
    PROVE  /\ t \in Socket /\ Receiving(t) /\ t.rcv = s.rcv + 1
           /\ Len(t.out) = 1 /\ t.out \in Seq(Packet) /\ Bare(t.out[1], "ACK", t.rcv)
<1> DEFINE u == ReceivedData(s, m)
<1>0. s.head = 1 /\ s.high = 1 /\ s.tail = 1 /\ s.rcv \in Nat /\ s.st = "ESTABLISHED"
  BY DEF Receiving, Socket
<1>1. t = SendPending(u)
  BY <1>0 DEF ProcessEstablished, ReceivedAck
<1>2. /\ u \in Socket /\ DataTaken(s, u) /\ u.st = s.st /\ u.retx = s.retx /\ u.held = {}
      /\ Calmly(s, u) /\ u.rcv = s.rcv + 1
      /\ Len(u.out) = 1 /\ u.out \in Seq(Packet) /\ Bare(u.out[1], "ACK", u.rcv)
  BY DataReceived DEF Receiving, Fine
<1> HIDE DEF u
<1>3. u.head = 1 /\ u.high = 1 /\ u.tail = 1
  BY <1>0, <1>2 DEF DataTaken
<1>4. t = u
  BY <1>1, <1>3 DEF SendPending, SendData, Larger
<1>5. 1 <= u.rcv
  BY <1>0, <1>2 DEF Receiving
<1>6. Receiving(u)
  BY <1>2, <1>5 DEF Receiving, DataTaken, Calmly, Fine, Still
<1> QED
  BY <1>2, <1>4, <1>6

\* The FIN with or without data ends the stream and is answered with one.
LEMMA PeerCloseLeaves ==
    ASSUME NEW u \in Socket, u.st = "ESTABLISHED", u.up, Fine(u), u.shut, Finished(u),
           u.nextTx = 1, u.tail = 1,
           NEW t, t = DoPeerClose(u)
    PROVE  /\ t \in Socket /\ Leaving(t) /\ t.rcv = u.rcv
           /\ t.out = Append(u.out, EmptyPacket(u, "FIN_ACK", {}))
           /\ EmptyPacket(u, "FIN_ACK", {}).seq = 1
<1> DEFINE v == [u EXCEPT !.st = "CLOSE_WAIT", !.normal = TRUE]
           w == SendEmpty(v, "FIN_ACK", {})
           x == [w EXCEPT !.st = "LAST_ACK"]
           retr == DataRetries
<1>1. v \in Socket
  BY DEF Socket, State
<1>2. SameCore(u, v) /\ v.st = "CLOSE_WAIT" /\ v.up = u.up /\ v.out = u.out /\ Calmly(u, v)
  BY DEF Socket, SameCore, Calmly
<1> HIDE DEF v
<1>3. Close(v) = x
  BY <1>2 DEF Close, DoClose, SameCore, Fine
<1>4. /\ w \in Socket /\ SameCore(v, w) /\ w.st = v.st /\ w.up /\ Calmly(v, w)
      /\ w.out = Append(v.out, EmptyPacket(v, "FIN_ACK", {}))
  BY <1>1, <1>2, EmptyCalmly DEF Calmly, Fine
<1> HIDE DEF w
<1>5. x \in Socket
  BY <1>4 DEF Socket, State
<1>6. SameCore(w, x) /\ x.st = "LAST_ACK" /\ x.up = w.up /\ x.out = w.out /\ Calmly(w, x)
  BY <1>4 DEF Socket, SameCore, Calmly
<1> HIDE DEF x
<1>7. t = [x EXCEPT !.retr = retr, !.lato = TRUE]
  BY <1>2, <1>3, <1>6 DEF DoPeerClose, SameCore, v
<1>8. retr \in 0..DataRetries
  BY CountAssumption
<1> HIDE DEF retr
<1>9. t \in Socket
  BY <1>5, <1>7, <1>8 DEF Socket
<1>10. /\ SameCore(x, t) /\ t.st = x.st /\ t.up = x.up /\ t.out = x.out /\ t.error = x.error
       /\ t.load = x.load
  BY <1>5, <1>7 DEF Socket, SameCore
<1>11. EmptyPacket(v, "FIN_ACK", {}) = EmptyPacket(u, "FIN_ACK", {})
  BY <1>2 DEF EmptyPacket, SameCore, Calmly
<1>12. EmptyPacket(u, "FIN_ACK", {}).seq = 1
  BY DEF EmptyPacket
<1>13. Leaving(t)
  BY <1>2, <1>4, <1>6, <1>10 DEF Leaving, Fine, SameCore, Calmly
<1> QED
  BY <1>2, <1>4, <1>6, <1>9, <1>10, <1>11, <1>12, <1>13 DEF SameCore

\* The FIN is in sequence: the server, which has shut its side, answers with its own.
LEMMA ReceivingFin ==
    ASSUME NEW s \in Socket, Receiving(s), s.out = <<>>, NEW m \in Packet, NEW high \in Nat,
           m.type = "FIN_ACK", m.seq = s.rcv, s.rcv + m.len = high,
           NEW t, t = ProcessEstablished(s, m)
    PROVE  t \in Socket /\ Leaving(t) /\ t.rcv = high + 1 /\ t.out \in Seq(Packet) /\ AcksAndFin(t.out, high)
<1> DEFINE u == SetFinSequence(s, high)
           g == ReceivedData(u, m)
           f == EmptyPacket(g, "FIN_ACK", {})
<1>0. /\ s.rcv \in Nat /\ s.rcv >= 1 /\ s.fin = 0 /\ s.st = "ESTABLISHED" /\ s.up /\ Fine(s)
      /\ s.nextTx = 1 /\ s.tail = 1 /\ s.shut /\ m.len \in 0..1
  BY DEF Receiving, Socket, Packet
<1>10. u = SetFinSequence(s, high)
  OBVIOUS
<1> HIDE DEF u
<1>1. /\ u \in Socket /\ FinNoted(s, u) /\ Calmly(s, u) /\ u.fin = high
      /\ u.rcv = IF s.rcv = high THEN high + 1 ELSE s.rcv
  BY <1>10, FinCalmly
<1>2. high >= 1 /\ (m.len = 0 => high = s.rcv) /\ (m.len = 1 => high = s.rcv + 1)
  BY <1>0
<1>3. /\ g \in Socket /\ g.st = "ESTABLISHED" /\ g.up /\ Fine(g) /\ g.shut /\ g.fin = high
      /\ g.rcv = high + 1 /\ g.nextTx = 1 /\ g.tail = 1
      /\ \/ g.out = <<>>
         \/ Len(g.out) = 1 /\ g.out \in Seq(Packet) /\ Bare(g.out[1], "ACK", high + 1)
  <2>1. CASE m.len = 0
    <3>1. g = u
      BY <2>1, AckAlone
    <3> QED
      BY <1>0, <1>1, <1>2, <2>1, <3>1 DEF FinNoted, Calmly, Fine
  <2>2. CASE m.len = 1
    <3>1. u.rcv = s.rcv /\ m.seq = u.rcv /\ u.fin = u.rcv + 1 /\ u.fin # 0
      BY <1>0, <1>1, <1>2, <2>2
    <3>2. /\ u.up /\ u.load = {} /\ u.held = {} /\ u.out = <<>> /\ u.nextTx = 1
          /\ u.st = "ESTABLISHED"
      BY <1>0, <1>1 DEF FinNoted, Calmly, Fine
    <3>3. /\ g \in Socket /\ DataTaken(u, g) /\ g.st = u.st /\ g.retx = u.retx /\ g.held = {}
          /\ Calmly(u, g)
          /\ g.rcv = IF u.fin # 0 /\ u.rcv + 1 = u.fin THEN u.rcv + 2 ELSE u.rcv + 1
          /\ Len(g.out) = 1 /\ g.out \in Seq(Packet) /\ Bare(g.out[1], "ACK", g.rcv)
      BY <1>1, <2>2, <3>1, <3>2, DataReceived
    <3>4. g.rcv = high + 1
      BY <1>0, <1>2, <2>2, <3>1, <3>3
    <3> HIDE DEF g
    <3> QED
      BY <1>0, <1>1, <3>2, <3>3, <3>4 DEF FinNoted, DataTaken, Calmly, Fine
  <2> QED
    BY <1>0, <2>1, <2>2
<1> HIDE DEF g
<1>4. Finished(g) /\ g.st # "FIN_WAIT_1"
  BY <1>2, <1>3 DEF Finished
<1>5. t = DoPeerClose(g)
  <2>1. t = PeerClose(s, m)
    BY <1>0 DEF ProcessEstablished
  <2>2. g = ReceivedData(SetFinSequence(s, m.seq + m.len), m)
    BY DEF g, u
  <2>3. ~(m.seq < s.rcv \/ (s.fin # 0 /\ m.seq > s.fin))
    BY <1>0
  <2> QED
    BY <1>4, <2>1, <2>2, <2>3 DEF PeerClose
<1>6. /\ t \in Socket /\ Leaving(t) /\ t.rcv = g.rcv /\ t.out = Append(g.out, f) /\ f.seq = 1
  BY <1>3, <1>4, <1>5, PeerCloseLeaves
<1>7. f \in Packet
  BY <1>3, EmptyType DEF PacketType, Load
<1>8. Bare(f, "FIN_ACK", high + 1)
  BY <1>3 DEF EmptyPacket, Bare
<1> HIDE DEF f
<1>9. t.out \in Seq(Packet) /\ AcksAndFin(t.out, high)
  <2>1. CASE g.out = <<>>
    <3>1. Len(t.out) = 1 /\ t.out[1] = f /\ t.out \in Seq(Packet)
      BY <1>6, <1>7, <2>1, OneSent
    <3> QED
      BY <1>6, <1>8, <3>1 DEF AcksAndFin
  <2>2. CASE Len(g.out) = 1 /\ g.out \in Seq(Packet) /\ Bare(g.out[1], "ACK", high + 1)
    <3>1. Len(t.out) = 2 /\ t.out[2] = f /\ t.out[1] = g.out[1] /\ t.out \in Seq(Packet)
      BY <1>6, <1>7, <2>2
    <3>2. \A i \in 1..2 : i < 2 => i = 1
      OBVIOUS
    <3>3. high + 1 <= high + 1
      OBVIOUS
    <3> QED
      BY <1>6, <1>8, <2>2, <3>1, <3>2, <3>3 DEF AcksAndFin, Bare
  <2> QED
    BY <1>3, <2>1, <2>2
<1> QED
  BY <1>3, <1>6, <1>9

\* The ACK without ECE and CWR that LAST_ACK waits for.
LEMMA LastAckEnds ==
    ASSUME NEW s \in Socket, Leaving(s), s.out = <<>>, NEW m, m.type = "ACK", m.bits = {},
           m.seq = s.rcv, NEW t, t = ProcessLastAck(s, m)
    PROVE  t \in Socket /\ Gone(t) /\ t.out = <<>>
<1>1. t = CloseAndNotify(s)
  BY DEF ProcessLastAck
<1>2. /\ t \in Socket /\ SameCore(s, t) /\ t.st = "CLOSED" /\ ~t.up /\ Still(t)
      /\ t.out = s.out /\ t.error = s.error /\ t.load = s.load
  BY <1>1, ClosedCalmly
<1> QED
  BY <1>2 DEF Leaving, Gone, Fine, SameCore

\* The end of TIME_WAIT.
LEMMA TimeWaitEnds ==
    ASSUME NEW c \in Socket, Served(c), NEW t, t = CloseAndNotify(c)
    PROVE  t \in Socket /\ Served(t) /\ t.out = c.out
<1>1. /\ t \in Socket /\ SameCore(c, t) /\ t.st = "CLOSED" /\ ~t.up /\ Still(t)
      /\ t.out = c.out /\ t.error = c.error /\ t.load = c.load
  BY ClosedCalmly
<1> QED
  BY <1>1 DEF Served, Fine, SameCore, AllAcked

-----------------------------------------------------------------------------
(* Steps of the client.                                                    *)

CalmNow == Calm(sock[Client], sock[Server], net[Server], net[Client])

\* Both ends and both directions.
LEMMA Ends ==
    ASSUME ConnInv
    PROVE  /\ sock[Client] \in Socket /\ sock[Server] \in Socket
           /\ sock[Client].out = <<>> /\ sock[Server].out = <<>>
           /\ net[Server] \in Seq(Packet) /\ net[Client] \in Seq(Packet)
           /\ Client \in Node /\ Server \in Node /\ Client # Server
           /\ Peer(Client) = Server /\ Peer(Server) = Client
BY DEF ConnInv, TypeOK, Node, Peer, Client, Server

\* A step of the client ...
LEMMA ClientBecomes ==
    ASSUME ConnInv, NEW t, Becomes(Client, t)
    PROVE  /\ sock'[Client] = Empty(t) /\ sock'[Server] = sock[Server]
           /\ net'[Server] = net[Server] \o t.out /\ net'[Client] = net[Client]
BY Ends DEF ConnInv, TypeOK, Becomes, Empty

\* ... one with a packet that it receives ...
LEMMA ClientTakes ==
    ASSUME ConnInv, NEW t, BecomesOnReceipt(Client, t)
    PROVE  /\ sock'[Client] = Empty(t) /\ sock'[Server] = sock[Server]
           /\ net'[Server] = net[Server] \o t.out /\ net'[Client] = Tail(net[Client])
BY Ends DEF ConnInv, TypeOK, BecomesOnReceipt, Empty

\* ... and one with a packet that the server receives.
LEMMA ServerTakes ==
    ASSUME ConnInv, NEW t, BecomesOnReceipt(Server, t)
    PROVE  /\ sock'[Server] = Empty(t) /\ sock'[Client] = sock[Client]
           /\ net'[Client] = net[Client] \o t.out /\ net'[Server] = Tail(net[Server])
BY Ends DEF ConnInv, TypeOK, BecomesOnReceipt, Empty

\* What the phases are told from does not depend on the packets that have been handed over.
LEMMA EmptyFields ==
    ASSUME NEW t \in Socket, NEW u, u = Empty(t)
    PROVE  /\ SameCore(t, u) /\ u.st = t.st /\ u.up = t.up /\ u.retx = t.retx /\ Calmly(t, u)
<1>1. u = [t EXCEPT !.out = <<>>]
  BY DEF Empty
<1> QED
  BY <1>1 DEF Socket, SameCore, Calmly

\* Every phase is one of those.
LEMMA EmptySame ==
    ASSUME NEW t \in Socket, NEW u, u = Empty(t)
    PROVE  /\ u.high = t.high /\ u.head = t.head /\ u.rcv = t.rcv /\ u.st = t.st
           /\ Asking(t) => Asking(u)
           /\ Sending(t) => Sending(u)
           /\ Waiting(t) => Waiting(u)
           /\ Served(t) => Served(u)
           /\ Answering(t) => Answering(u)
           /\ Receiving(t) => Receiving(u)
           /\ Leaving(t) => Leaving(u)
           /\ Gone(t) => Gone(u)
           /\ Aborted(t) => Aborted(u)
<1>1. /\ SameCore(t, u) /\ u.st = t.st /\ u.up = t.up /\ u.retx = t.retx /\ Calmly(t, u)
  BY EmptyFields
<1>2. Fine(t) => Fine(u)
  BY <1>1 DEF Fine, SameCore, Calmly
<1>3. Asking(t) => Asking(u)
  BY <1>1, <1>2 DEF Asking, SameCore, Calmly
<1>4. Sending(t) => Sending(u)
  BY <1>1, <1>2 DEF Sending, Carrying, SameCore, Calmly
<1>5. AllAcked(t) => AllAcked(u)
  BY <1>1 DEF AllAcked, SameCore
<1>6. Waiting(t) => Waiting(u)
  BY <1>1, <1>2, <1>5 DEF Waiting, SameCore, Calmly
<1>7. Served(t) => Served(u)
  BY <1>1, <1>2, <1>5 DEF Served, Still, Calmly
<1>8. Answering(t) => Answering(u)
  BY <1>1, <1>2 DEF Answering, SameCore, Calmly
<1>9. Receiving(t) => Receiving(u)
  BY <1>1, <1>2 DEF Receiving, Still, SameCore, Calmly
<1>10. Leaving(t) => Leaving(u)
  BY <1>1, <1>2 DEF Leaving
<1>11. Gone(t) => Gone(u)
  BY <1>1, <1>2 DEF Gone, Still, Calmly
<1>12. Aborted(t) => Aborted(u)
  BY <1>1 DEF Aborted, Still, SameCore, Calmly
<1> QED
  BY <1>1, <1>3, <1>4, <1>6, <1>7, <1>8, <1>9, <1>10, <1>11, <1>12 DEF SameCore

\* A socket that has sent nothing.
LEMMA EmptySelf == \A t \in Socket : t.out = <<>> => Empty(t) = t
BY DEF Empty, Socket

\* While the client sends.
LEMMA GoesCalm ==
    ASSUME NEW c \in Socket, NEW s \in Socket, NEW q \in Seq(Packet), NEW r \in Seq(Packet),
           Opening(c, s, q, r) \/ Streaming(c, s, q, r),
           NEW t, Goes(c, t), t.head = c.head
    PROVE  Calm(Empty(t), s, q \o t.out, r)
<1> DEFINE u == Empty(t)
           z == t.out
<1>1. t \in Socket /\ Sending(t) /\ z \in Seq(Packet) /\ t.high >= c.high
  BY DEF Goes
<1>2. Sending(u) /\ u.high = t.high /\ u.head = t.head /\ u.st = t.st /\ u.rcv = t.rcv
  BY <1>1, EmptySame
<1>3. c.high \in Nat /\ t.high \in Nat /\ s.rcv \in Nat /\ 1 \in Nat
  BY <1>1 DEF Socket
<1> HIDE DEF u, z
<1>4. CASE Opening(c, s, q, r)
  <2>1. q # <<>> /\ Tail(q) \in Seq(Packet) /\ Len(q) >= 1
    BY <1>4 DEF Opening
  <2>2. Tail(q) \o z \in Seq(Packet) /\ StreamOf(Tail(q) \o z, t, 1)
    BY <1>3, <1>4, <2>1, GoesOn DEF Opening, z
  <2>3. Tail(q \o z) = Tail(q) \o z /\ (q \o z)[1] = q[1] /\ q \o z # <<>>
    BY <1>1, <2>1
  <2>4. StreamOf(Tail(q \o z), u, 1)
    BY <1>2, <2>2, <2>3 DEF StreamOf
  <2>5. Opening(u, s, q \o z, r)
    BY <1>2, <1>4, <2>3, <2>4 DEF Opening
  <2> QED
    BY <2>5 DEF Calm, u, z
<1>5. CASE Streaming(c, s, q, r)
  <2>1. StreamOf(q \o z, t, s.rcv)
    BY <1>3, <1>5, GoesOn DEF Streaming, z
  <2>2. StreamOf(q \o z, u, s.rcv)
    BY <1>2, <2>1 DEF StreamOf
  <2>3. Acks(r, u, s.rcv)
    BY <1>2, <1>5 DEF Streaming, Acks
  <2>4. s.rcv <= u.high /\ u.head <= s.rcv
    BY <1>1, <1>2, <1>3, <1>5 DEF Streaming
  <2>5. Streaming(u, s, q \o z, r)
    BY <1>2, <1>5, <2>2, <2>3, <2>4 DEF Streaming
  <2> QED
    BY <2>5 DEF Calm, u, z
<1> QED
  BY <1>4, <1>5

\* Who may still send: only while the client sends is there anything to be sent.
LEMMA Pending ==
    ASSUME ConnInv, CalmNow,
           \/ sock[Client].st \in {"ESTABLISHED", "CLOSE_WAIT"}
           \/ /\ sock[Client].up
              /\ Larger(sock[Client].high, sock[Client].head) < sock[Client].tail
    PROVE  \/ Opening(sock[Client], sock[Server], net[Server], net[Client])
           \/ Streaming(sock[Client], sock[Server], net[Server], net[Client])
<1> DEFINE c == sock[Client]
           s == sock[Server]
           q == net[Server]
           r == net[Client]
<1>1. c \in Socket
  BY Ends
<1>2. c.high \in Nat /\ c.head \in Nat /\ c.tail \in Nat
  BY <1>1 DEF Socket
<1>3. Calm(c, s, q, r)
  BY DEF CalmNow
<1>4. /\ NewSocket.st = "CLOSED" /\ ~NewSocket.up
  BY NewSocketFields
<1> HIDE DEF c, s, q, r
<1>5. ~Fresh(c, s, q, r)
  BY <1>4 DEF Fresh, c
<1>6. ~Asking(c)
  BY DEF Asking, Larger, c
<1>7. ~Aborted(c)
  BY DEF Aborted, c
<1>8. ~(AllAcked(c) /\ c.st \notin {"ESTABLISHED", "CLOSE_WAIT"})
  BY <1>2 DEF AllAcked, Larger, c
<1>9. ~Served(c) /\ ~Waiting(c)
  BY <1>8 DEF Served, Waiting
<1>10. ~(Sending(c) /\ c.st = "FIN_WAIT_1" /\ Finishing(c, s, q, r))
  BY <1>2 DEF Sending, Carrying, Larger, c
<1>11. ~Finishing(c, s, q, r)
  BY <1>9, <1>10 DEF Finishing
<1> QED
  BY <1>3, <1>5, <1>6, <1>7, <1>9, <1>11 DEF Calm, Requested, Answered, LastWord, Over, c, s, q, r

\* Send.
LEMMA AppSendCalm ==
    ASSUME ConnInv, CalmNow, AppSend
    PROVE  CalmNow'
<1> DEFINE c == sock[Client]
           t == [c EXCEPT !.tail = @ + 1]
<1>1. /\ c \in Socket /\ c.out = <<>> /\ sock[Server] \in Socket
      /\ net[Server] \in Seq(Packet) /\ net[Client] \in Seq(Packet)
  BY Ends
<1>2. \/ Opening(c, sock[Server], net[Server], net[Client])
      \/ Streaming(c, sock[Server], net[Server], net[Client])
  BY Pending DEF AppSend
<1>3. Sending(c) /\ c.st = "ESTABLISHED"
  BY <1>2 DEF Opening, Streaming, Sending, Carrying, AppSend
<1>4. Goes(c, t) /\ t.head = c.head /\ t.out = <<>>
  BY <1>1, <1>3, AppSendGoes
<1>5. t \in Socket
  BY <1>4 DEF Goes
<1>6. /\ sock'[Client] = t /\ sock'[Server] = sock[Server]
      /\ net'[Server] = net[Server] /\ net'[Client] = net[Client]
  BY Ends DEF AppSend, ConnInv, TypeOK
<1> HIDE DEF t, c
<1>7. Calm(Empty(t), sock[Server], net[Server] \o t.out, net[Client])
  BY <1>1, <1>2, <1>4, GoesCalm
<1>8. Empty(t) = t /\ net[Server] \o t.out = net[Server]
  BY <1>1, <1>4, <1>5, EmptySelf
<1> QED
  BY <1>6, <1>7, <1>8 DEF CalmNow

\* SendPendingData.
LEMMA SendPendingDataCalm ==
    ASSUME ConnInv, CalmNow, SendPendingData
    PROVE  CalmNow'
<1> DEFINE c == sock[Client]
           t == SendPending(c)
<1>1. /\ c \in Socket /\ c.out = <<>> /\ sock[Server] \in Socket
      /\ net[Server] \in Seq(Packet) /\ net[Client] \in Seq(Packet)
  BY Ends
<1>2. \/ Opening(c, sock[Server], net[Server], net[Client])
      \/ Streaming(c, sock[Server], net[Server], net[Client])
  BY Pending DEF SendPendingData
<1>3. Sending(c)
  BY <1>2 DEF Opening, Streaming
<1>4. c.st = "ESTABLISHED" /\ c.head = c.tail => c.retx = NoTimer
  BY <1>1, <1>3 DEF Sending, Carrying, Socket
<1>5. Goes(c, t) /\ t.head = c.head
  BY <1>1, <1>3, <1>4, PendingGoes DEF Sending
<1>6. Becomes(Client, t)
  BY DEF SendPendingData
<1> HIDE DEF t, c
<1>7. Calm(Empty(t), sock[Server], net[Server] \o t.out, net[Client])
  BY <1>1, <1>2, <1>5, GoesCalm
<1> QED
  BY <1>6, <1>7, ClientBecomes DEF CalmNow

\* A second close changes nothing.
LEMMA CloseSame ==
    ASSUME NEW c, c.held = {}, ~(c.tail > c.nextTx),
           c.st \in {"FIN_WAIT_1", "FIN_WAIT_2", "TIME_WAIT", "CLOSED"}
    PROVE  Close(c) = c
BY DEF Close, DoClose

\* Connect: there was no connection before.
LEMMA ConnectCalm ==
    ASSUME ConnInv, CalmNow, Connect
    PROVE  CalmNow'
<1> DEFINE c == sock[Client]
           s == sock[Server]
           t == [SendEmpty([NewSocket EXCEPT !.up = TRUE], "SYN", {}) EXCEPT !.st = "SYN_SENT"]
<1>1. c = NewSocket /\ Becomes(Client, t)
  BY DEF Connect
<1>2. ~NewSocket.up /\ ~NewSocket.error /\ NewSocket.head = 0 /\ NewSocket.high = 0
  BY NewSocketFields
<1>3. Fresh(c, s, net[Server], net[Client])
  <2>1. ~Asking(c) /\ ~Sending(c) /\ ~Waiting(c) /\ ~Aborted(c)
    BY <1>1, <1>2 DEF Asking, Sending, Carrying, Waiting, Aborted
  <2>2. ~Served(c)
    BY <1>1, <1>2 DEF Served, AllAcked
  <2> HIDE DEF c, s
  <2> QED
    BY <2>1, <2>2 DEF CalmNow, Calm, Requested, Answered, Opening, Streaming, Finishing, LastWord,
                      Over, c, s
<1>4. /\ t \in Socket /\ Asking(t)
      /\ Len(t.out) = 1 /\ t.out \in Seq(Packet) /\ t.out[1].type = "SYN" /\ t.out[1].seq = 0
  BY ConnectAsks
<1> HIDE DEF t, c, s
<1>5. Asking(Empty(t))
  BY <1>4, EmptySame
<1>6. net[Server] \o t.out = t.out
  BY <1>3, <1>4 DEF Fresh
<1>7. Requested(Empty(t), s, net[Server] \o t.out, net[Client])
  BY <1>3, <1>4, <1>5, <1>6 DEF Requested, Fresh
<1> QED
  BY <1>1, <1>7, ClientBecomes DEF CalmNow, Calm, s

\* Close of the client, in every phase.
LEMMA AppCloseCalm ==
    ASSUME ConnInv, CalmNow, AppClose(Client)
    PROVE  CalmNow'
<1> DEFINE c == sock[Client]
           s == sock[Server]
           q == net[Server]
           r == net[Client]
           t == Close(c)
<1>1. c \in Socket /\ c.out = <<>> /\ s \in Socket /\ q \in Seq(Packet) /\ r \in Seq(Packet)
  BY Ends
<1>2. Calm(c, s, q, r)
  BY DEF CalmNow
<1>3. c # NewSocket /\ (IF c.up THEN Becomes(Client, t) ELSE UNCHANGED <<sock, net>>)
  BY DEF AppClose
<1>4. c.high \in Nat /\ c.head \in Nat /\ c.tail \in Nat /\ c.nextTx \in Nat
  BY <1>1 DEF Socket
<1> HIDE DEF c, s, q, r, t
<1>5. CASE ~c.up
  BY <1>2, <1>3, <1>5 DEF CalmNow, c, s, q, r
<1>6. CASE c.up
  <2>1. /\ sock'[Client] = Empty(t) /\ sock'[Server] = s
        /\ net'[Server] = q \o t.out /\ net'[Client] = r
    BY <1>3, <1>6, ClientBecomes DEF s, q, r
  <2>2. CASE Asking(c)
    <3>1. t \in Socket /\ Aborted(t)
      BY <1>1, <2>2, AskingCloses DEF t
    <3>2. Aborted(Empty(t))
      BY <3>1, EmptySame
    <3> QED
      BY <2>1, <3>2 DEF CalmNow, Calm
  <2>3. CASE Opening(c, s, q, r) \/ Streaming(c, s, q, r)
    <3>1. Sending(c)
      BY <2>3 DEF Opening, Streaming
    <3>2. Goes(c, t) /\ t.head = c.head
      BY <1>1, <3>1, CloseGoes DEF t
    <3>3. Calm(Empty(t), s, q \o t.out, r)
      BY <1>1, <2>3, <3>2, GoesCalm
    <3> QED
      BY <2>1, <3>3 DEF CalmNow
  <2>4. CASE Finishing(c, s, q, r) \/ Served(c)
    <3>1. /\ c.held = {} /\ ~(c.tail > c.nextTx)
          /\ c.st \in {"FIN_WAIT_1", "FIN_WAIT_2", "TIME_WAIT", "CLOSED"}
      BY <1>4, <2>4 DEF Finishing, Sending, Carrying, Waiting, Served, AllAcked, Fine
    <3>2. t = c
      BY <3>1, CloseSame DEF t
    <3>3. Empty(t) = c /\ q \o t.out = q
      BY <1>1, <3>2, EmptySelf
    <3> QED
      BY <1>2, <2>1, <3>3 DEF CalmNow
  <2> QED
    BY <1>2, <1>3, <1>6, <2>2, <2>3, <2>4
       DEF Calm, Fresh, Requested, Answered, LastWord, Over, Aborted
<1> QED
  BY <1>5, <1>6

-----------------------------------------------------------------------------
(* What the client receives.                                               *)

\* A packet goes to the Process function of the state.
Delivered(n) ==
    \/ ReceiveSynSent(n)
    \/ ReceiveSynRcvd(n)
    \/ ReceiveEstablished(n)
    \/ ReceiveWait(n)
    \/ ReceiveClosing(n)
    \/ ReceiveLastAck(n)
    \/ ReceiveTimeWait(n)

Processed(n, t) ==
    LET s == sock[n] m == Head(net[n])
    IN /\ s.st = "SYN_SENT" => t = ProcessSynSent(s, m)
       /\ s.st = "SYN_RCVD" => t = ProcessSynRcvd(s, m)
       /\ s.st = "ESTABLISHED" => t = ProcessEstablished(s, m)
       /\ s.st \in {"FIN_WAIT_1", "FIN_WAIT_2"} => t = ProcessWait(s, m)
       /\ s.st = "LAST_ACK" => t = ProcessLastAck(s, m)

\* What a packet without data, or in range, leads to at a path without loads.
LEMMA DeliveredAlone ==
    ASSUME ConnInv, Unloaded, NEW n \in Node, Delivered(n), sock[n].load = {},
           ~OutOfRange(sock[n], Head(net[n]))
    PROVE  /\ net[n] # <<>> /\ sock[n].up
           /\ \E t : Processed(n, t) /\ BecomesOnReceipt(n, t)
<1> DEFINE s == sock[n]
           m == Head(net[n])
<1>1. s \in Socket
  BY DEF ConnInv, TypeOK
<1>2. \A load \in PathLoads : Laden(s, load) = s
  BY <1>1, LadenCalmly
<1>3. \A load \in PathLoads : [s EXCEPT !.load = load] = s
  BY <1>2 DEF Laden
<1> HIDE DEF s, m
<1>4. net[n] # <<>> /\ sock[n].up
  BY DEF Delivered, ReceiveSynSent, ReceiveSynRcvd, ReceiveEstablished, ReceiveWait,
         ReceiveClosing, ReceiveLastAck, ReceiveTimeWait, ForwardUp
<1>5. CASE ReceiveSynSent(n)
  <2>1. s.st = "SYN_SENT" /\ BecomesOnReceipt(n, ProcessSynSent(s, m))
    BY <1>3, <1>5 DEF ReceiveSynSent, ForwardUp, s, m
  <2>2. Processed(n, ProcessSynSent(s, m))
    BY <2>1 DEF Processed, s, m
  <2> QED
    BY <1>4, <2>1, <2>2
<1>6. CASE ReceiveSynRcvd(n)
  <2>1. s.st = "SYN_RCVD" /\ BecomesOnReceipt(n, ProcessSynRcvd(s, m))
    BY <1>3, <1>6 DEF ReceiveSynRcvd, ForwardUp, s, m
  <2>2. Processed(n, ProcessSynRcvd(s, m))
    BY <2>1 DEF Processed, s, m
  <2> QED
    BY <1>4, <2>1, <2>2
<1>7. CASE ReceiveEstablished(n)
  <2>1. s.st = "ESTABLISHED" /\ BecomesOnReceipt(n, ProcessEstablished(s, m))
    BY <1>3, <1>7 DEF ReceiveEstablished, ForwardUp, s, m
  <2>2. Processed(n, ProcessEstablished(s, m))
    BY <2>1 DEF Processed, s, m
  <2> QED
    BY <1>4, <2>1, <2>2
<1>8. CASE ReceiveWait(n)
  <2>1. /\ s.st \in {"CLOSE_WAIT", "FIN_WAIT_1", "FIN_WAIT_2"}
        /\ BecomesOnReceipt(n, ProcessWait(s, m))
    BY <1>3, <1>8 DEF ReceiveWait, ForwardUp, s, m
  <2>2. Processed(n, ProcessWait(s, m))
    BY <2>1 DEF Processed, s, m
  <2> QED
    BY <1>4, <2>1, <2>2
<1>9. CASE ReceiveClosing(n)
  <2>1. s.st = "CLOSING" /\ BecomesOnReceipt(n, ProcessClosing(s, m))
    BY <1>3, <1>9 DEF ReceiveClosing, ForwardUp, s, m
  <2>2. Processed(n, ProcessClosing(s, m))
    BY <2>1 DEF Processed, s, m
  <2> QED
    BY <1>4, <2>1, <2>2
<1>10. CASE ReceiveLastAck(n)
  <2>1. s.st = "LAST_ACK" /\ BecomesOnReceipt(n, ProcessLastAck(s, m))
    BY <1>3, <1>10 DEF ReceiveLastAck, ForwardUp, s, m
  <2>2. Processed(n, ProcessLastAck(s, m))
    BY <2>1 DEF Processed, s, m
  <2> QED
    BY <1>4, <2>1, <2>2
<1>11. CASE ReceiveTimeWait(n)
  <2>1. s.st = "TIME_WAIT" /\ BecomesOnReceipt(n, s)
    BY <1>3, <1>11 DEF ReceiveTimeWait, ForwardUp, Ignore, s, m
  <2>2. Processed(n, s)
    BY <2>1 DEF Processed, s
  <2> QED
    BY <1>4, <2>1, <2>2
<1> QED
  BY <1>5, <1>6, <1>7, <1>8, <1>9, <1>10, <1>11 DEF Delivered

\* The first packet on its way.
LEMMA HeadAndTail ==
    ASSUME NEW q \in Seq(Packet), q # <<>>
    PROVE  /\ Head(q) = q[1] /\ Head(q) \in Packet /\ Tail(q) \in Seq(Packet)
           /\ Len(q) = 1 => Tail(q) = <<>>
           /\ Len(q) > 0 /\ Len(Tail(q)) = Len(q) - 1
           /\ \A i \in 1..Len(Tail(q)) : Tail(q)[i] = q[i + 1]
<1>1. Len(q) \in Nat /\ Len(q) > 0
  OBVIOUS
<1>2. Head(q) = q[1] /\ Head(q) \in Packet /\ Tail(q) \in Seq(Packet)
  OBVIOUS
<1>3. Len(Tail(q)) = Len(q) - 1
  OBVIOUS
<1>4. \A i \in 1..Len(Tail(q)) : Tail(q)[i] = q[i + 1]
  BY <1>1, <1>3
<1>5. ASSUME Len(q) = 1 PROVE Tail(q) = <<>>
  <2> DEFINE z == Tail(q)
  <2>1. z \in Seq(Packet) /\ Len(z) = 0
    BY <1>2, <1>3, <1>5
  <2> HIDE DEF z
  <2>2. z = <<>>
    BY <2>1
  <2> QED
    BY <2>2 DEF z
<1> QED
  BY <1>1, <1>2, <1>3, <1>4, <1>5

\* SYN_ACK: the connection is established.
LEMMA AnsweredReceives ==
    ASSUME ConnInv, Unloaded, Delivered(Client),
           Answered(sock[Client], sock[Server], net[Server], net[Client])
    PROVE  CalmNow'
<1> DEFINE c == sock[Client]
           s == sock[Server]
           q == net[Server]
           r == net[Client]
           m == Head(r)
<1>1. c \in Socket /\ c.out = <<>> /\ r \in Seq(Packet) /\ Client \in Node
  BY Ends
<1>2. Answered(c, s, q, r)
  OBVIOUS
<1> HIDE DEF c, s, q, r, m
<1>3. r # <<>> /\ Len(r) = 1 /\ q = <<>> /\ Asking(c) /\ Answering(s)
  BY <1>2 DEF Answered
<1>4. m = r[1] /\ m \in Packet /\ Tail(r) = <<>>
  BY <1>1, <1>3, HeadAndTail DEF m
<1>5. Bare(m, "SYN_ACK", 1) /\ m.seq = 0
  BY <1>2, <1>4 DEF Answered
<1>6. c.load = {} /\ ~OutOfRange(c, m) /\ c.st = "SYN_SENT"
  BY <1>3, <1>5 DEF Asking, Fine, OutOfRange, Bare
<1>7. PICK t : Processed(Client, t) /\ BecomesOnReceipt(Client, t)
  BY <1>1, <1>6, DeliveredAlone DEF c, r, m
<1>8. t = ProcessSynSent(c, m)
  BY <1>6, <1>7 DEF Processed, c, r, m
<1>9. /\ t \in Socket /\ Sending(t) /\ t.head = 1 /\ t.high = 1 /\ t.st = "ESTABLISHED"
      /\ Len(t.out) = 1 /\ t.out \in Seq(Packet) /\ Bare(t.out[1], "ACK", 1)
  BY <1>1, <1>3, <1>4, <1>5, <1>8, SynSentOpens
<1>10. /\ sock'[Client] = Empty(t) /\ sock'[Server] = s
       /\ net'[Server] = q \o t.out /\ net'[Client] = Tail(r)
  BY <1>7, ClientTakes DEF s, q, r
<1>11. q \o t.out = t.out
  BY <1>3, <1>9
<1>12. Sending(Empty(t)) /\ Empty(t).head = 1 /\ Empty(t).high = 1 /\ Empty(t).st = "ESTABLISHED"
  BY <1>9, EmptySame
<1>13. Stream(<<>>, 1, 1, FALSE)
  BY NoStream
<1>14. StreamOf(Tail(t.out), Empty(t), 1)
  <2> DEFINE fin == Empty(t).st = "FIN_WAIT_1"
  <2>1. fin = FALSE
    BY <1>12
  <2>2. t.out # <<>>
    BY <1>9
  <2>3. Tail(t.out) = <<>>
    BY <1>9, <2>2, HeadAndTail
  <2>4. Stream(Tail(t.out), 1, Empty(t).high, fin)
    BY <1>12, <1>13, <2>1, <2>3
  <2> QED
    BY <2>4 DEF StreamOf
<1>15. Opening(Empty(t), s, t.out, <<>>)
  BY <1>3, <1>9, <1>12, <1>14 DEF Opening
<1> QED
  BY <1>4, <1>10, <1>11, <1>15 DEF CalmNow, Calm

\* Acknowledgments when the first one has been taken.
LEMMA AcksRest ==
    ASSUME NEW r \in Seq(Packet), r # <<>>, NEW c, NEW t, NEW rcv \in Nat, c.head \in Nat,
           Acks(r, c, rcv), c.head <= rcv, t.head = Larger(c.head, Head(r).ack)
    PROVE  /\ Head(r).type = "ACK" /\ Head(r).len = 0 /\ Head(r).ack <= rcv
           /\ Acks(Tail(r), t, rcv) /\ t.head <= rcv
<1> DEFINE m == Head(r)
           z == Tail(r)
           n == Len(z)
<1>1. /\ m = r[1] /\ m \in Packet /\ z \in Seq(Packet) /\ Len(r) > 0 /\ n = Len(r) - 1
      /\ \A i \in 1..n : z[i] = r[i + 1]
  BY HeadAndTail
<1>2. n \in Nat /\ Len(r) = n + 1 /\ m.ack \in Nat
  BY <1>1 DEF Packet
<1> HIDE DEF m, z, n
<1>3. \A i \in 1..(n + 1) : r[i].type = "ACK" /\ r[i].len = 0 /\ r[i].ack <= rcv
  BY <1>2 DEF Acks
<1>4. r[n + 1].ack = rcv
  BY <1>2 DEF Acks
<1>5. m.type = "ACK" /\ m.len = 0 /\ m.ack <= rcv
  BY <1>1, <1>2, <1>3
<1>6. t.head <= rcv /\ (m.ack = rcv => t.head = rcv)
  BY <1>2, <1>5 DEF Larger, m
<1>7. \A i \in 1..n : z[i].type = "ACK" /\ z[i].len = 0 /\ z[i].ack <= rcv
  BY <1>1, <1>2, <1>3
<1>8. IF n > 0 THEN z[n].ack = rcv ELSE t.head = rcv
  BY <1>1, <1>2, <1>4, <1>6
<1>9. Acks(z, t, rcv)
  BY <1>7, <1>8 DEF Acks, n
<1> QED
  BY <1>5, <1>6, <1>9 DEF m, z

\* The same with the FIN behind them.
LEMMA AcksAndFinRest ==
    ASSUME NEW r \in Seq(Packet), NEW high \in Nat, AcksAndFin(r, high)
    PROVE  /\ r # <<>> /\ Head(r) \in Packet
           /\ \/ Tail(r) = <<>> /\ Bare(Head(r), "FIN_ACK", high + 1) /\ Head(r).seq = 1
              \/ /\ Head(r).type = "ACK" /\ Head(r).len = 0 /\ Head(r).ack <= high + 1
                 /\ AcksAndFin(Tail(r), high)
<1> DEFINE m == Head(r)
           z == Tail(r)
           n == Len(z)
<1>0. r # <<>>
  BY DEF AcksAndFin
<1>1. /\ m = r[1] /\ m \in Packet /\ z \in Seq(Packet) /\ Len(r) > 0 /\ n = Len(r) - 1
      /\ \A i \in 1..n : z[i] = r[i + 1]
      /\ Len(r) = 1 => z = <<>>
  BY <1>0, HeadAndTail
<1>2. n \in Nat /\ Len(r) = n + 1
  BY <1>1
<1> HIDE DEF m, z, n
<1>3. CASE n = 0
  <2>1. Bare(m, "FIN_ACK", high + 1) /\ m.seq = 1 /\ z = <<>>
    BY <1>1, <1>2, <1>3 DEF AcksAndFin
  <2> QED
    BY <1>0, <1>1, <2>1 DEF m, z
<1>4. CASE n > 0
  <2>1. \A i \in 1..n : r[i].type = "ACK" /\ r[i].len = 0 /\ r[i].ack <= high + 1
    BY <1>2 DEF AcksAndFin
  <2>2. m.type = "ACK" /\ m.len = 0 /\ m.ack <= high + 1
    BY <1>1, <1>2, <1>4, <2>1
  <2>3. z[n] = r[n + 1]
    BY <1>1, <1>2, <1>4
  <2>4. Bare(z[n], "FIN_ACK", high + 1) /\ z[n].seq = 1
    BY <1>2, <2>3 DEF AcksAndFin
  <2>5. \A i \in 1..n : i < n => z[i].type = "ACK" /\ z[i].len = 0 /\ z[i].ack <= high + 1
    BY <1>1, <1>2, <2>1
  <2>6. AcksAndFin(z, high)
    BY <1>4, <2>4, <2>5 DEF AcksAndFin, n
  <2> QED
    BY <1>0, <1>1, <2>2, <2>6 DEF m, z
<1> QED
  BY <1>2, <1>3, <1>4

\* An acknowledgment while the client sends, established or with its FIN on the way.
LEMMA SendingAcked ==
    ASSUME NEW c \in Socket, Sending(c), c.out = <<>>, NEW m \in Packet, m.type = "ACK",
           m.len = 0, m.ack <= c.high,
           NEW t, c.st = "ESTABLISHED" => t = ProcessEstablished(c, m),
           c.st = "FIN_WAIT_1" => t = ProcessWait(c, m)
    PROVE  Goes(c, t) /\ t.head = Larger(c.head, m.ack)
<1>1. c.head \in Nat /\ c.high \in Nat /\ m.ack \in Nat /\ c.out \in Seq(Packet)
  BY DEF Socket, Packet
<1>2. CASE c.st = "FIN_WAIT_1"
  BY <1>2, WaitAckData
<1>3. CASE c.st = "ESTABLISHED" /\ m.ack < c.head
  <2>1. t = c
    <3>1. m.ack < c.head /\ ~(m.ack > c.high)
      BY <1>1, <1>3
    <3>2. ProcessEstablished(c, m) = c
      BY <3>1 DEF ProcessEstablished
    <3> QED
      BY <1>3, <3>2
  <2>2. c.head = Larger(c.head, m.ack)
    BY <1>1, <1>3 DEF Larger
  <2> QED
    <3>1. Goes(c, c)
      BY <1>1 DEF Goes
    <3> QED
      BY <2>1, <2>2, <3>1
<1>4. CASE c.st = "ESTABLISHED" /\ ~(m.ack < c.head)
  <2>1. ~(m.ack > c.high)
    BY <1>1
  <2>2. t = ReceivedAck(c, m)
    BY <1>4, <2>1 DEF ProcessEstablished
  <2> QED
    BY <2>2, AckGoes
<1> QED
  BY <1>2, <1>3, <1>4 DEF Sending, Carrying

\* Acknowledgments while the client sends.
LEMMA StreamingClient ==
    ASSUME ConnInv, Unloaded, Delivered(Client),
           Streaming(sock[Client], sock[Server], net[Server], net[Client])
    PROVE  CalmNow'
<1> DEFINE c == sock[Client]
           s == sock[Server]
           q == net[Server]
           r == net[Client]
           m == Head(r)
<1>1. /\ c \in Socket /\ c.out = <<>> /\ r \in Seq(Packet) /\ q \in Seq(Packet)
      /\ s \in Socket /\ Client \in Node
  BY Ends
<1>2. Streaming(c, s, q, r) /\ Delivered(Client)
  OBVIOUS
<1>3. r # <<>> /\ sock[Client].up
  BY <1>2 DEF Delivered, ReceiveSynSent, ReceiveSynRcvd, ReceiveEstablished, ReceiveWait,
         ReceiveClosing, ReceiveLastAck, ReceiveTimeWait, ForwardUp
<1>4. c.head \in Nat /\ c.high \in Nat /\ s.rcv \in Nat
  BY <1>1 DEF Socket
<1> HIDE DEF c, s, q, r, m
<1>5. /\ Sending(c) /\ Receiving(s) /\ s.rcv <= c.high /\ c.head <= s.rcv
      /\ StreamOf(q, c, s.rcv) /\ Acks(r, c, s.rcv)
  BY <1>2 DEF Streaming
<1>6. m \in Packet /\ Tail(r) \in Seq(Packet)
  BY <1>1, <1>3, HeadAndTail DEF m
<1>7. m.type = "ACK" /\ m.len = 0 /\ m.ack <= s.rcv
  <2> DEFINE t == [head |-> Larger(c.head, m.ack)]
  <2>1. t.head = Larger(c.head, Head(r).ack)
    BY DEF m
  <2> HIDE DEF t
  <2> QED
    BY <1>1, <1>3, <1>4, <1>5, <2>1, AcksRest DEF m
<1>8. c.load = {} /\ ~OutOfRange(c, m) /\ c.st \in {"ESTABLISHED", "FIN_WAIT_1"}
  BY <1>5, <1>7 DEF Sending, Carrying, Fine, OutOfRange
<1>9. PICK t : Processed(Client, t) /\ BecomesOnReceipt(Client, t)
  BY <1>1, <1>8, DeliveredAlone DEF c, r, m
<1>10. /\ c.st = "ESTABLISHED" => t = ProcessEstablished(c, m)
       /\ c.st = "FIN_WAIT_1" => t = ProcessWait(c, m)
  BY <1>9 DEF Processed, c, r, m
<1>11. m.ack <= c.high
  BY <1>4, <1>5, <1>6, <1>7 DEF Packet
<1>12. Goes(c, t) /\ t.head = Larger(c.head, m.ack)
  BY <1>1, <1>5, <1>6, <1>7, <1>10, <1>11, SendingAcked
<1>13. t \in Socket /\ Sending(t) /\ t.high >= c.high
  BY <1>12 DEF Goes
<1>14. q \o t.out \in Seq(Packet) /\ StreamOf(q \o t.out, t, s.rcv)
  BY <1>1, <1>4, <1>5, <1>12, GoesOn
<1> DEFINE u == Empty(t)
<1>15. u.high = t.high /\ u.head = t.head /\ u.st = t.st /\ Sending(u)
  BY <1>13, EmptySame
<1>16. /\ sock'[Client] = u /\ sock'[Server] = s
       /\ net'[Server] = q \o t.out /\ net'[Client] = Tail(r)
  BY <1>9, ClientTakes DEF s, q, r
<1> HIDE DEF u
<1>17. Acks(Tail(r), u, s.rcv) /\ u.head <= s.rcv
  BY <1>1, <1>3, <1>4, <1>5, <1>12, <1>15, AcksRest DEF m
<1>18. StreamOf(q \o t.out, u, s.rcv)
  BY <1>14, <1>15 DEF StreamOf
<1>19. s.rcv <= u.high
  <2>1. t.high \in Nat
    BY <1>13 DEF Socket
  <2> QED
    BY <1>4, <1>5, <1>13, <1>15, <2>1
<1>20. Streaming(u, s, q \o t.out, Tail(r))
  BY <1>5, <1>15, <1>17, <1>18, <1>19 DEF Streaming
<1> QED
  BY <1>16, <1>20 DEF CalmNow, Calm

\* An acknowledgment while the FIN of the server is on its way ...
LEMMA FinishingAcked ==
    ASSUME NEW c \in Socket, (Sending(c) /\ c.st = "FIN_WAIT_1") \/ Waiting(c), c.out = <<>>,
           NEW m \in Packet, m.type = "ACK", m.len = 0, m.ack <= c.high + 1,
           NEW t, t = ProcessWait(c, m)
    PROVE  /\ t \in Socket
           /\ (Sending(t) /\ t.st = "FIN_WAIT_1") \/ Waiting(t)
           /\ t.high = c.high /\ t.out = <<>>
<1>1. c.high \in Nat /\ m.ack \in Nat
  BY DEF Socket, Packet
<1>2. CASE m.ack = c.high + 1
  BY <1>2, WaitAckFin
<1>3. CASE m.ack <= c.high /\ Waiting(c)
  BY <1>3, WaitAckOld
<1>4. CASE m.ack <= c.high /\ Sending(c) /\ c.st = "FIN_WAIT_1"
  <2>1. Goes(c, t)
    BY <1>4, WaitAckData
  <2> QED
    BY <1>4, <2>1 DEF Goes
<1> QED
  BY <1>1, <1>2, <1>3, <1>4

\* ... and that FIN.
LEMMA FinishingClient ==
    ASSUME ConnInv, Unloaded, Delivered(Client),
           Finishing(sock[Client], sock[Server], net[Server], net[Client])
    PROVE  CalmNow'
<1> DEFINE c == sock[Client]
           s == sock[Server]
           q == net[Server]
           r == net[Client]
           m == Head(r)
<1>1. /\ c \in Socket /\ c.out = <<>> /\ r \in Seq(Packet) /\ s \in Socket /\ Client \in Node
  BY Ends
<1>2. Finishing(c, s, q, r)
  OBVIOUS
<1>3. c.high \in Nat
  BY <1>1 DEF Socket
<1> HIDE DEF c, s, q, r, m
<1>4. /\ (Sending(c) /\ c.st = "FIN_WAIT_1") \/ Waiting(c)
      /\ Leaving(s) /\ s.rcv = c.high + 1 /\ q = <<>> /\ AcksAndFin(r, c.high)
  BY <1>2 DEF Finishing
<1>5. /\ m \in Packet
      /\ \/ Tail(r) = <<>> /\ Bare(m, "FIN_ACK", c.high + 1) /\ m.seq = 1
         \/ /\ m.type = "ACK" /\ m.len = 0 /\ m.ack <= c.high + 1
            /\ AcksAndFin(Tail(r), c.high)
  BY <1>1, <1>3, <1>4, AcksAndFinRest DEF m
<1>6. c.load = {} /\ ~OutOfRange(c, m) /\ c.st \in {"FIN_WAIT_1", "FIN_WAIT_2"}
  BY <1>4, <1>5 DEF Sending, Carrying, Waiting, Fine, OutOfRange, Bare
<1>7. PICK t : Processed(Client, t) /\ BecomesOnReceipt(Client, t)
  BY <1>1, <1>6, DeliveredAlone DEF c, r, m
<1>8. t = ProcessWait(c, m)
  BY <1>6, <1>7 DEF Processed, c, r, m
<1> DEFINE u == Empty(t)
<1>9. /\ sock'[Client] = u /\ sock'[Server] = s
      /\ net'[Server] = q \o t.out /\ net'[Client] = Tail(r)
  BY <1>7, ClientTakes DEF s, q, r
<1>10. CASE Tail(r) = <<>> /\ Bare(m, "FIN_ACK", c.high + 1) /\ m.seq = 1
  <2>1. /\ t \in Socket /\ Served(t) /\ Len(t.out) = 1 /\ t.out \in Seq(Packet)
        /\ t.out[1].type = "ACK" /\ t.out[1].len = 0 /\ t.out[1].bits = {}
        /\ t.out[1].seq = c.high + 1
    BY <1>1, <1>4, <1>5, <1>8, <1>10, WaitFin
  <2>2. Served(u)
    BY <2>1, EmptySame
  <2>3. q \o t.out = t.out
    BY <1>4, <2>1
  <2> HIDE DEF u
  <2>4. LastWord(u, s, t.out, <<>>)
    BY <1>4, <2>1, <2>2 DEF LastWord
  <2> QED
    BY <1>9, <1>10, <2>3, <2>4 DEF CalmNow, Calm
<1>11. CASE /\ m.type = "ACK" /\ m.len = 0 /\ m.ack <= c.high + 1
            /\ AcksAndFin(Tail(r), c.high)
  <2>1. /\ t \in Socket
        /\ (Sending(t) /\ t.st = "FIN_WAIT_1") \/ Waiting(t)
        /\ t.high = c.high /\ t.out = <<>>
    BY <1>1, <1>4, <1>5, <1>8, <1>11, FinishingAcked
  <2>2. (Sending(u) /\ u.st = "FIN_WAIT_1") \/ Waiting(u)
    BY <2>1, EmptySame
  <2>3. u.high = c.high
    BY <2>1, EmptySame
  <2>4. q \o t.out = <<>>
    BY <1>4, <2>1
  <2> HIDE DEF u
  <2>5. Finishing(u, s, <<>>, Tail(r))
    BY <1>4, <1>11, <2>2, <2>3 DEF Finishing
  <2> QED
    BY <1>9, <2>4, <2>5 DEF CalmNow, Calm
<1> QED
  BY <1>5, <1>10, <1>11

\* Before the SYN_ACK, and after the last word, nothing is on its way to the client.
LEMMA DeliveredClient ==
    ASSUME ConnInv, Unloaded, CalmNow, Delivered(Client)
    PROVE  CalmNow'
<1>1. net[Client] # <<>> /\ sock[Client].up
  BY DEF Delivered, ReceiveSynSent, ReceiveSynRcvd, ReceiveEstablished, ReceiveWait,
         ReceiveClosing, ReceiveLastAck, ReceiveTimeWait, ForwardUp
<1>2. \/ Answered(sock[Client], sock[Server], net[Server], net[Client])
      \/ Streaming(sock[Client], sock[Server], net[Server], net[Client])
      \/ Finishing(sock[Client], sock[Server], net[Server], net[Client])
  BY <1>1 DEF CalmNow, Calm, Fresh, Requested, Opening, LastWord, Over, Aborted
<1> QED
  BY <1>2, AnsweredReceives, StreamingClient, FinishingClient

-----------------------------------------------------------------------------
(* What the server receives.                                               *)

\* The request.
LEMMA RequestedServer ==
    ASSUME ConnInv, ProcessListen,
           Requested(sock[Client], sock[Server], net[Server], net[Client])
    PROVE  CalmNow'
<1> DEFINE c == sock[Client]
           q == net[Server]
           r == net[Client]
           m == Head(q)
           t == SendEmpty(Forked, "SYN_ACK", {})
<1>1. /\ q \in Seq(Packet) /\ Requested(c, sock[Server], q, r)
  BY Ends
<1>2. Asking(c) /\ r = <<>> /\ Len(q) = 1 /\ q[1].type = "SYN" /\ q[1].seq = 0 /\ q # <<>>
  BY <1>1 DEF Requested
<1>3. m = q[1] /\ m \in Packet /\ Tail(q) = <<>>
  BY <1>1, <1>2, HeadAndTail
<1>4. m.type = "SYN" /\ m.seq + 1 = 1
  BY <1>2, <1>3
<1>5. BecomesOnReceipt(Server, t)
  BY <1>4 DEF ProcessListen, Forked
<1>6. t = SendEmpty(Forked, "SYN_ACK", {})
  OBVIOUS
<1> HIDE DEF c, q, r, m, t
<1>7. /\ t \in Socket /\ Answering(t) /\ Len(t.out) = 1 /\ t.out \in Seq(Packet)
      /\ Bare(t.out[1], "SYN_ACK", 1) /\ t.out[1].seq = 0
  BY <1>6, ForkAnswers
<1>8. Answering(Empty(t))
  BY <1>7, EmptySame
<1>9. r \o t.out = t.out
  BY <1>2, <1>7
<1>10. /\ sock'[Server] = Empty(t) /\ sock'[Client] = c
       /\ net'[Client] = r \o t.out /\ net'[Server] = Tail(q)
  BY <1>5, ServerTakes DEF c, q, r
<1>11. Answered(c, Empty(t), <<>>, t.out)
  BY <1>2, <1>7, <1>8 DEF Answered
<1> QED
  BY <1>3, <1>9, <1>10, <1>11 DEF CalmNow, Calm

\* The acknowledgment that completes the handshake.
LEMMA OpeningServer ==
    ASSUME ConnInv, Unloaded, Delivered(Server),
           Opening(sock[Client], sock[Server], net[Server], net[Client])
    PROVE  CalmNow'
<1> DEFINE c == sock[Client]
           s == sock[Server]
           q == net[Server]
           r == net[Client]
           m == Head(q)
<1>1. c \in Socket /\ s \in Socket /\ s.out = <<>> /\ q \in Seq(Packet) /\ Server \in Node
  BY Ends
<1>2. Opening(c, s, q, r)
  OBVIOUS
<1> HIDE DEF c, s, q, r, m
<1>3. /\ Sending(c) /\ Answering(s) /\ c.head = 1 /\ r = <<>>
      /\ q # <<>> /\ Bare(q[1], "ACK", 1) /\ StreamOf(Tail(q), c, 1)
  BY <1>2 DEF Opening
<1>4. m = q[1] /\ m \in Packet
  BY <1>1, <1>3, HeadAndTail DEF m
<1>5. s.load = {} /\ ~OutOfRange(s, m) /\ s.st = "SYN_RCVD"
  BY <1>3, <1>4 DEF Answering, Fine, OutOfRange, Bare
<1>6. PICK t : Processed(Server, t) /\ BecomesOnReceipt(Server, t)
  BY <1>1, <1>5, DeliveredAlone DEF s, q, m
<1>7. t = ProcessSynRcvd(s, m)
  BY <1>5, <1>6 DEF Processed, s, q, m
<1>8. t \in Socket /\ Receiving(t) /\ t.rcv = 1 /\ t.out = <<>>
  BY <1>1, <1>3, <1>4, <1>7, SynRcvdConnects
<1> DEFINE u == Empty(t)
<1>9. Receiving(u) /\ u.rcv = 1
  BY <1>8, EmptySame
<1>10. /\ sock'[Server] = u /\ sock'[Client] = c
       /\ net'[Client] = r \o t.out /\ net'[Server] = Tail(q)
  BY <1>6, ServerTakes DEF c, q, r
<1>11. r \o t.out = <<>>
  BY <1>3, <1>8
<1> HIDE DEF u
<1>12. u.rcv <= c.high /\ c.head <= u.rcv
  <2>1. c.head <= c.high
    BY <1>3 DEF Sending, Carrying
  <2> QED
    BY <1>3, <1>9, <2>1
<1>13. Acks(<<>>, c, 1)
  BY <1>3 DEF Acks
<1>14. Streaming(c, u, Tail(q), <<>>)
  BY <1>3, <1>9, <1>12, <1>13 DEF Streaming
<1> QED
  BY <1>10, <1>11, <1>14 DEF CalmNow, Calm

\* The members of a concatenation.
LEMMA ConcatAt ==
    ASSUME NEW r \in Seq(Packet), NEW z \in Seq(Packet)
    PROVE  /\ Len(r) \in Nat /\ Len(z) \in Nat /\ Len(r \o z) = Len(r) + Len(z)
           /\ \A i \in 1..Len(r) : (r \o z)[i] = r[i]
           /\ \A i \in 1..(Len(r) + Len(z)) : i > Len(r) => (r \o z)[i] = z[i - Len(r)]
<1>1. Len(r) \in Nat /\ Len(z) \in Nat /\ Len(r \o z) = Len(r) + Len(z)
  OBVIOUS
<1>2. \A i \in 1..Len(r) : (r \o z)[i] = r[i]
  OBVIOUS
<1>3. \A i \in 1..(Len(r) + Len(z)) : i > Len(r) => (r \o z)[i] = z[i - Len(r)]
  OBVIOUS
<1> QED
  BY <1>1, <1>2, <1>3

\* One more acknowledgment.
LEMMA AcksMore ==
    ASSUME NEW r \in Seq(Packet), NEW z \in Seq(Packet), NEW c, NEW rcv \in Nat,
           Acks(r, c, rcv), Len(z) = 1, Bare(z[1], "ACK", rcv + 1)
    PROVE  Acks(r \o z, c, rcv + 1)
<1> DEFINE all == r \o z
           n == Len(r)
<1>1. /\ n \in Nat /\ Len(all) = n + 1
      /\ \A i \in 1..n : all[i] = r[i]
      /\ \A i \in 1..(n + 1) : i > n => all[i] = z[i - n]
  BY ConcatAt
<1>2. \A i \in 1..n : r[i] \in Packet
  OBVIOUS
<1> HIDE DEF all, n
<1>3. all[n + 1] = z[1]
  <2>1. n + 1 \in 1..(n + 1) /\ n + 1 > n /\ n + 1 - n = 1
    BY <1>1
  <2> QED
    BY <1>1, <2>1
<1>5. \A i \in 1..n : r[i].type = "ACK" /\ r[i].len = 0 /\ r[i].ack <= rcv
  BY DEF Acks, n
<1>6. z[1].type = "ACK" /\ z[1].len = 0 /\ z[1].ack = rcv + 1
  BY DEF Bare
<1>7. \A i \in 1..n : r[i].ack <= rcv + 1
  BY <1>2, <1>5 DEF Packet
<1>8. \A i \in 1..Len(all) : all[i].type = "ACK" /\ all[i].len = 0 /\ all[i].ack <= rcv + 1
  <2>1. ASSUME NEW i \in 1..Len(all)
        PROVE  all[i].type = "ACK" /\ all[i].len = 0 /\ all[i].ack <= rcv + 1
    <3>1. CASE i = n + 1
      BY <1>3, <1>6, <3>1
    <3>2. CASE i # n + 1
      <4>1. i \in 1..n
        BY <1>1, <3>2
      <4> QED
        BY <1>1, <1>5, <1>7, <4>1
    <3> QED
      BY <3>1, <3>2
  <2> QED
    BY <2>1
<1>9. all[Len(all)].ack = rcv + 1 /\ Len(all) > 0
  BY <1>1, <1>3, <1>6
<1>10. Acks(all, c, rcv + 1)
  BY <1>8, <1>9 DEF Acks
<1> QED
  BY <1>10 DEF all

\* The FIN after the acknowledgments.
LEMMA AcksThenFin ==
    ASSUME NEW r \in Seq(Packet), NEW z \in Seq(Packet), NEW c, NEW rcv \in Nat,
           NEW high \in Nat, rcv <= high + 1, Acks(r, c, rcv), AcksAndFin(z, high)
    PROVE  AcksAndFin(r \o z, high)
<1> DEFINE all == r \o z
           n == Len(r)
           k == Len(z)
<1>1. n \in Nat /\ k \in Nat /\ Len(all) = n + k
  BY ConcatAt
<1>2. \A i \in 1..n : all[i] = r[i]
  BY ConcatAt
<1>3. \A i \in 1..(n + k) : i > n => all[i] = z[i - n]
  BY ConcatAt
<1>4. \A i \in 1..n : r[i] \in Packet
  OBVIOUS
<1> HIDE DEF all
<1>5. \A i \in 1..n : r[i].type = "ACK" /\ r[i].len = 0 /\ r[i].ack <= rcv
  BY DEF Acks
<1>6. /\ k > 0 /\ Bare(z[k], "FIN_ACK", high + 1) /\ z[k].seq = 1
      /\ \A i \in 1..k : i < k => z[i].type = "ACK" /\ z[i].len = 0 /\ z[i].ack <= high + 1
  BY DEF AcksAndFin
<1> HIDE DEF n, k
<1>7. \A i \in 1..n : r[i].ack <= high + 1
  BY <1>4, <1>5 DEF Packet
<1>8. ASSUME NEW i \in 1..Len(all), i < Len(all)
      PROVE  all[i].type = "ACK" /\ all[i].len = 0 /\ all[i].ack <= high + 1
  <2>1. CASE i <= n
    BY <1>1, <1>2, <1>5, <1>7, <2>1
  <2>2. CASE i > n
    <3>1. all[i] = z[i - n] /\ i - n \in 1..k /\ i - n < k
      BY <1>1, <1>3, <1>8, <2>2
    <3> QED
      BY <1>6, <3>1
  <2> QED
    BY <1>1, <2>1, <2>2
<1>9. all[Len(all)] = z[k] /\ Len(all) > 0
  <2>1. n + k \in 1..(n + k) /\ n + k > n /\ n + k - n = k
    BY <1>1, <1>6
  <2> QED
    BY <1>1, <1>3, <1>6, <2>1
<1>10. AcksAndFin(all, high)
  BY <1>6, <1>8, <1>9 DEF AcksAndFin
<1> QED
  BY <1>10 DEF all

\* A segment of the stream, with the FIN or without.
LEMMA StreamingServer ==
    ASSUME ConnInv, Unloaded, Delivered(Server),
           Streaming(sock[Client], sock[Server], net[Server], net[Client])
    PROVE  CalmNow'
<1> DEFINE c == sock[Client]
           s == sock[Server]
           q == net[Server]
           r == net[Client]
           m == Head(q)
           fin == c.st = "FIN_WAIT_1"
<1>1. /\ c \in Socket /\ s \in Socket /\ s.out = <<>> /\ q \in Seq(Packet)
      /\ r \in Seq(Packet) /\ Server \in Node
  BY Ends
<1>2. Streaming(c, s, q, r) /\ Delivered(Server)
  OBVIOUS
<1>3. q # <<>>
  BY <1>2 DEF Delivered, ReceiveSynSent, ReceiveSynRcvd, ReceiveEstablished, ReceiveWait,
         ReceiveClosing, ReceiveLastAck, ReceiveTimeWait, ForwardUp
<1>4. c.head \in Nat /\ c.high \in Nat /\ s.rcv \in Nat /\ fin \in BOOLEAN
  BY <1>1 DEF Socket
<1> HIDE DEF c, s, q, r, m
<1>5. /\ Sending(c) /\ Receiving(s) /\ s.rcv <= c.high /\ c.head <= s.rcv
      /\ Stream(q, s.rcv, c.high, fin) /\ Acks(r, c, s.rcv)
  BY <1>2 DEF Streaming, StreamOf
<1> HIDE DEF fin
<1>6. /\ m \in Packet /\ Tail(q) \in Seq(Packet) /\ m.seq = s.rcv /\ m.ack = 1
      /\ \/ /\ m.type = "ACK" /\ m.len = 1 /\ s.rcv + 1 <= c.high
            /\ Stream(Tail(q), s.rcv + 1, c.high, fin)
         \/ m.type = "FIN_ACK" /\ fin /\ Tail(q) = <<>> /\ s.rcv + m.len = c.high
  BY <1>1, <1>3, <1>4, <1>5, StreamHead DEF m
<1>7. s.load = {} /\ s.st = "ESTABLISHED" /\ s.fin = 0
  BY <1>5 DEF Receiving, Fine
<1>8. ~OutOfRange(s, m)
  <2>1. ~(m.seq + 1 < s.rcv)
    BY <1>4, <1>6
  <2> QED
    BY <1>7, <2>1 DEF OutOfRange
<1>9. PICK t : Processed(Server, t) /\ BecomesOnReceipt(Server, t)
  BY <1>1, <1>7, <1>8, DeliveredAlone DEF s, q, m
<1>10. t = ProcessEstablished(s, m)
  BY <1>7, <1>9 DEF Processed, s, q, m
<1> DEFINE u == Empty(t)
<1>11. /\ sock'[Server] = u /\ sock'[Client] = c
       /\ net'[Client] = r \o t.out /\ net'[Server] = Tail(q)
  BY <1>9, ServerTakes DEF c, q, r
<1>12. CASE /\ m.type = "ACK" /\ m.len = 1 /\ s.rcv + 1 <= c.high
            /\ Stream(Tail(q), s.rcv + 1, c.high, fin)
  <2>1. /\ t \in Socket /\ Receiving(t) /\ t.rcv = s.rcv + 1
        /\ Len(t.out) = 1 /\ t.out \in Seq(Packet) /\ Bare(t.out[1], "ACK", t.rcv)
    BY <1>1, <1>5, <1>6, <1>10, <1>12, ReceivingData
  <2>2. Receiving(u) /\ u.rcv = s.rcv + 1
    BY <2>1, EmptySame
  <2>3. Acks(r \o t.out, c, s.rcv + 1)
    BY <1>1, <1>4, <1>5, <2>1, AcksMore
  <2> HIDE DEF u
  <2>4. StreamOf(Tail(q), c, u.rcv) /\ Acks(r \o t.out, c, u.rcv)
    BY <1>12, <2>2, <2>3 DEF StreamOf, fin
  <2>5. u.rcv <= c.high /\ c.head <= u.rcv
    BY <1>4, <1>5, <1>12, <2>2
  <2>6. Streaming(c, u, Tail(q), r \o t.out)
    BY <1>5, <2>2, <2>4, <2>5 DEF Streaming
  <2> QED
    BY <1>11, <2>6 DEF CalmNow, Calm
<1>13. CASE m.type = "FIN_ACK" /\ fin /\ Tail(q) = <<>> /\ s.rcv + m.len = c.high
  <2>1. /\ t \in Socket /\ Leaving(t) /\ t.rcv = c.high + 1 /\ t.out \in Seq(Packet)
        /\ AcksAndFin(t.out, c.high)
    BY <1>1, <1>4, <1>5, <1>6, <1>10, <1>13, ReceivingFin
  <2>2. Leaving(u) /\ u.rcv = c.high + 1
    BY <2>1, EmptySame
  <2>3. s.rcv <= c.high + 1
    BY <1>4, <1>5
  <2>4. AcksAndFin(r \o t.out, c.high)
    BY <1>1, <1>4, <1>5, <2>1, <2>3, AcksThenFin
  <2> HIDE DEF u
  <2>5. Finishing(c, u, <<>>, r \o t.out)
    BY <1>5, <1>13, <2>2, <2>4 DEF Finishing, fin
  <2> QED
    BY <1>11, <1>13, <2>5 DEF CalmNow, Calm
<1> QED
  BY <1>6, <1>12, <1>13

\* The acknowledgment of the FIN: this socket closes peacefully.
LEMMA LastWordServer ==
    ASSUME ConnInv, Unloaded, Delivered(Server),
           LastWord(sock[Client], sock[Server], net[Server], net[Client])
    PROVE  CalmNow'
<1> DEFINE c == sock[Client]
           s == sock[Server]
           q == net[Server]
           r == net[Client]
           m == Head(q)
<1>1. s \in Socket /\ s.out = <<>> /\ q \in Seq(Packet) /\ Server \in Node
  BY Ends
<1>2. LastWord(c, s, q, r)
  OBVIOUS
<1> HIDE DEF c, s, q, r, m
<1>3. /\ Served(c) /\ Leaving(s) /\ r = <<>> /\ q # <<>>
      /\ Len(q) = 1 /\ q[1].type = "ACK" /\ q[1].len = 0 /\ q[1].bits = {} /\ q[1].seq = s.rcv
  BY <1>2 DEF LastWord
<1>4. m = q[1] /\ m \in Packet /\ Tail(q) = <<>>
  BY <1>1, <1>3, HeadAndTail DEF m
<1>5. s.load = {} /\ ~OutOfRange(s, m) /\ s.st = "LAST_ACK"
  BY <1>3, <1>4 DEF Leaving, Fine, OutOfRange
<1>6. PICK t : Processed(Server, t) /\ BecomesOnReceipt(Server, t)
  BY <1>1, <1>5, DeliveredAlone DEF s, q, m
<1>7. t = ProcessLastAck(s, m)
  BY <1>5, <1>6 DEF Processed, s, q, m
<1>8. t \in Socket /\ Gone(t) /\ t.out = <<>>
  BY <1>1, <1>3, <1>4, <1>7, LastAckEnds
<1>9. Gone(Empty(t)) /\ r \o t.out = <<>>
  BY <1>3, <1>8, EmptySame
<1>10. /\ sock'[Server] = Empty(t) /\ sock'[Client] = c
       /\ net'[Client] = r \o t.out /\ net'[Server] = Tail(q)
  BY <1>6, ServerTakes DEF c, q, r
<1>11. Over(c, Empty(t), <<>>, <<>>)
  BY <1>3, <1>9 DEF Over
<1> QED
  BY <1>4, <1>9, <1>10, <1>11 DEF CalmNow, Calm

\* What happens at the server does not bring back a client that has given up.
LEMMA AbortedAtServer ==
    ASSUME Aborted(sock[Client]), sock'[Client] = sock[Client]
    PROVE  CalmNow'
BY DEF CalmNow, Calm

\* All that is delivered to the server.
LEMMA DeliveredServer ==
    ASSUME ConnInv, Unloaded, CalmNow, Delivered(Server)
    PROVE  CalmNow'
<1>1. /\ net[Server] # <<>> /\ sock[Server].up
      /\ \E t : sock' = [sock EXCEPT ![Server] = t]
  BY DEF Delivered, ReceiveSynSent, ReceiveSynRcvd, ReceiveEstablished, ReceiveWait,
         ReceiveClosing, ReceiveLastAck, ReceiveTimeWait, ForwardUp, BecomesOnReceipt
<1>2. sock'[Client] = sock[Client]
  BY <1>1, Ends DEF ConnInv, TypeOK
<1>3. sock[Server] # NewSocket
  BY <1>1, NewSocketFields
<1>4. \/ Opening(sock[Client], sock[Server], net[Server], net[Client])
      \/ Streaming(sock[Client], sock[Server], net[Server], net[Client])
      \/ LastWord(sock[Client], sock[Server], net[Server], net[Client])
      \/ Aborted(sock[Client])
  BY <1>1, <1>3 DEF CalmNow, Calm, Fresh, Requested, Answered, Finishing, Over
<1> QED
  BY <1>2, <1>4, OpeningServer, StreamingServer, LastWordServer, AbortedAtServer

\* The listening socket is reached by the request and by nothing else.
LEMMA ListenCalm ==
    ASSUME ConnInv, CalmNow, ProcessListen
    PROVE  CalmNow'
<1>1. /\ net[Server] # <<>> /\ ~sock[Server].up
      /\ \E t : sock' = [sock EXCEPT ![Server] = t]
  BY DEF ProcessListen, BecomesOnReceipt
<1>2. sock'[Client] = sock[Client]
  BY <1>1, Ends DEF ConnInv, TypeOK
<1>3. \/ Requested(sock[Client], sock[Server], net[Server], net[Client])
      \/ Aborted(sock[Client])
  BY <1>1 DEF CalmNow, Calm, Fresh, Answered, Opening, Streaming, Finishing, LastWord, Over,
              Answering, Receiving, Leaving
<1> QED
  BY <1>2, <1>3, RequestedServer, AbortedAtServer

-----------------------------------------------------------------------------
(* Timeouts, and the end.                                                  *)

\* When nothing is on its way, no timer runs at a client that has not given up, nor at the
\* server: every packet has done its work.
LEMMA QuietCalm ==
    ASSUME ConnInv, CalmNow, net[Server] = <<>>, net[Client] = <<>>
    PROVE  \/ Aborted(sock[Client])
           \/ Still(sock[Client]) /\ Still(sock[Server])
<1> DEFINE c == sock[Client]
           s == sock[Server]
           fin == c.st = "FIN_WAIT_1"
<1>1. c \in Socket /\ s \in Socket
  BY Ends
<1>2. Calm(c, s, <<>>, <<>>)
  BY DEF CalmNow
<1> HIDE DEF c, s
<1>3. CASE Fresh(c, s, <<>>, <<>>)
  BY <1>3, NewSocketFields DEF Fresh, Still, c, s
<1>4. CASE Streaming(c, s, <<>>, <<>>)
  <2>1. Sending(c) /\ Receiving(s) /\ Stream(<<>>, s.rcv, c.high, fin) /\ Acks(<<>>, c, s.rcv)
    BY <1>4 DEF Streaming, StreamOf
  <2>2. fin \in BOOLEAN /\ s.rcv \in Nat
    BY <1>1 DEF Socket
  <2> HIDE DEF fin
  <2>3. ~fin /\ s.rcv = c.high
    BY <2>1, <2>2 DEF Stream
  <2>4. c.head = c.high
    BY <2>1, <2>3 DEF Acks
  <2>5. Still(c)
    BY <2>1, <2>3, <2>4 DEF Sending, Carrying, Still, fin
  <2>6. Still(s)
    BY <2>1 DEF Receiving
  <2> QED
    BY <2>5, <2>6 DEF c, s
<1>5. CASE Over(c, s, <<>>, <<>>)
  BY <1>5 DEF Over, Served, Gone, c, s
<1>6. CASE Aborted(c)
  BY <1>6 DEF c
<1>7. /\ ~Requested(c, s, <<>>, <<>>) /\ ~Answered(c, s, <<>>, <<>>) /\ ~Opening(c, s, <<>>, <<>>)
      /\ ~Finishing(c, s, <<>>, <<>>) /\ ~LastWord(c, s, <<>>, <<>>)
  BY DEF Requested, Answered, Opening, Finishing, LastWord, AcksAndFin
<1> QED
  BY <1>2, <1>3, <1>4, <1>5, <1>6, <1>7 DEF Calm

\* Hence no timer expires while all goes well.
LEMMA TimeoutCalm ==
    ASSUME ConnInv, CalmNow, early = 0, early' = 0, NEW n \in Node,
           ResendEmpty(n) \/ ReTxTimeout(n) \/ LastAckTimeout(n)
    PROVE  CalmNow'
<1>1. sock[n].retx # NoTimer \/ sock[n].lato
  BY DEF ResendEmpty, ReTxTimeout, LastAckTimeout, NoTimer, DataTimer
<1>2. /\ \A p \in Node : net[p] = <<>>
      /\ \E t : sock' = [sock EXCEPT ![n] = t]
  <2>1. \E t : Expires(n, t)
    BY DEF ResendEmpty, ReTxTimeout, LastAckTimeout
  <2>2. PICK t : Expires(n, t)
    BY <2>1
  <2>3. \A p \in Node : net[p] = <<>>
    BY <2>2 DEF Expires
  <2>4. sock' = [sock EXCEPT ![n] = [t EXCEPT !.out = <<>>]]
    BY <2>2 DEF Expires, Becomes
  <2> QED
    BY <2>3, <2>4
<1>3. Aborted(sock[Client]) \/ (Still(sock[Client]) /\ Still(sock[Server]))
  BY <1>2, Ends, QuietCalm
<1>4. ~Still(sock[n])
  BY <1>1 DEF Still
<1>5. Aborted(sock[Client]) /\ n # Client
  BY <1>3, <1>4 DEF Node, Aborted
<1>6. sock'[Client] = sock[Client]
  BY <1>2, <1>5, Ends DEF ConnInv, TypeOK
<1> QED
  BY <1>5, <1>6, AbortedAtServer

\* TIME_WAIT is left in peace.
LEMMA TimeWaitCalm ==
    ASSUME ConnInv, CalmNow, NEW n \in Node, TimeWaitTimeout(n)
    PROVE  CalmNow'
<1> DEFINE c == sock[Client]
           s == sock[Server]
           q == net[Server]
           r == net[Client]
           t == CloseAndNotify(c)
<1>1. /\ c \in Socket /\ c.out = <<>> /\ q \in Seq(Packet) /\ r \in Seq(Packet)
      /\ Client # Server
  BY Ends
<1>2. Calm(c, s, q, r)
  BY DEF CalmNow
<1>3. sock[n].st = "TIME_WAIT" /\ sock[n].up /\ Becomes(n, CloseAndNotify(sock[n]))
  BY DEF TimeWaitTimeout
<1>4. NewSocket.st = "CLOSED"
  BY NewSocketFields
<1> HIDE DEF c, s, q, r, t
<1>5. CASE n = Client
  <2>1. c.st = "TIME_WAIT" /\ c.up /\ Becomes(Client, t)
    BY <1>3, <1>5 DEF c, t
  <2>2. ~Asking(c) /\ ~Sending(c) /\ ~Waiting(c) /\ ~Aborted(c) /\ c # NewSocket
    BY <1>4, <2>1 DEF Asking, Sending, Carrying, Waiting, Aborted
  <2>3. LastWord(c, s, q, r) \/ Over(c, s, q, r)
    BY <1>2, <2>2 DEF Calm, Fresh, Requested, Answered, Opening, Streaming, Finishing
  <2>4. Served(c)
    BY <2>3 DEF LastWord, Over
  <2>5. t \in Socket /\ Served(t) /\ t.out = <<>>
    BY <1>1, <2>4, TimeWaitEnds DEF t
  <2>6. Served(Empty(t)) /\ q \o t.out = q
    BY <1>1, <2>5, EmptySame
  <2>7. /\ sock'[Client] = Empty(t) /\ sock'[Server] = s
        /\ net'[Server] = q \o t.out /\ net'[Client] = r
    BY <2>1, ClientBecomes DEF s, q, r
  <2>8. LastWord(Empty(t), s, q, r) \/ Over(Empty(t), s, q, r)
    BY <2>3, <2>6 DEF LastWord, Over
  <2> QED
    BY <2>6, <2>7, <2>8 DEF CalmNow, Calm
<1>6. CASE n = Server
  <2>1. s.st = "TIME_WAIT"
    BY <1>3, <1>6 DEF s
  <2>2. ~Answering(s) /\ ~Receiving(s) /\ ~Leaving(s) /\ ~Gone(s) /\ s # NewSocket
    BY <1>4, <2>1 DEF Answering, Receiving, Leaving, Gone
  <2>3. Aborted(c)
    BY <1>2, <2>2 DEF Calm, Fresh, Requested, Answered, Opening, Streaming, Finishing, LastWord,
                      Over
  <2>4. sock'[Client] = c
    BY <1>1, <1>3, <1>6 DEF Becomes, ConnInv, TypeOK, c
  <2> QED
    BY <2>3, <2>4, AbortedAtServer DEF c
<1> QED
  BY <1>5, <1>6 DEF Node

\* Only a client that has given up receives packets without an endpoint.
LEMMA NoEndPointsCalm ==
    ASSUME ConnInv, CalmNow, NoEndPointsFound(Client)
    PROVE  CalmNow'
<1> DEFINE c == sock[Client]
           m == Head(net[Client])
           out == CASE m.type = "RST" \/ m.type = "RST_ACK" -> <<>>
                    [] m.type = "SYN" -> <<[type |-> "RST_ACK", len |-> 0, seq |-> 0,
                                            ack |-> m.seq + 1, bits |-> {}]>>
                    [] OTHER -> <<[type |-> "RST", len |-> 0, seq |-> m.ack,
                                   ack |-> 0, bits |-> {}]>>
           t == [c EXCEPT !.out = out]
<1>1. net[Client] # <<>> /\ ~c.up /\ BecomesOnReceipt(Client, t)
  BY DEF NoEndPointsFound
<1>2. c \in Socket
  BY Ends
<1> HIDE DEF out
<1>3. Aborted(c)
  BY <1>1 DEF CalmNow, Calm, Fresh, Requested, Answered, Opening, Streaming, Finishing, LastWord,
              Over, Asking, Sending, Carrying, Waiting
<1>4. Aborted(Empty(t))
  BY <1>2, <1>3 DEF Aborted, Still, Empty, Socket
<1> HIDE DEF t
<1>5. sock'[Client] = Empty(t)
  BY <1>1, ClientTakes
<1> QED
  BY <1>4, <1>5 DEF CalmNow, Calm

-----------------------------------------------------------------------------
(* The invariant of a peaceful close.                                      *)

\* What goes wrong is counted, and what an application has done it does not undo.
LEMMA Counts ==
    ASSUME ConnInv, Next, lost' = 0, early' = 0, Server \notin closed'
    PROVE  /\ lost = 0 /\ early = 0 /\ Server \notin closed /\ listening' = listening
           /\ \A n \in Node : ~LosePacket(n)
           /\ ~AppClose(Server)
<1>1. lost \in Nat /\ early \in Nat
  BY CountAssumption DEF ConnInv, TypeOK
<1>2. ~(lost' = lost + 1) /\ ~(early' = early + 1)
  BY <1>1
<1>3. \A n \in Node : ~LosePacket(n)
  BY <1>2 DEF LosePacket
<1>4. ~AppClose(Server)
  BY DEF AppClose
<1>5. Server # Client
  BY Ends
<1>6. lost' = lost /\ early' = early /\ closed \subseteq closed' /\ listening' = listening
  <2>1. CASE Connect \/ AppSend \/ SendPendingData
    BY <2>1 DEF Connect, AppSend, SendPendingData
  <2>2. ASSUME NEW n \in Node, AppClose(n)
        PROVE  lost' = lost /\ early' = early /\ closed \subseteq closed' /\ listening' = listening
    <3>1. n = Client
      BY <1>4, <2>2 DEF Node
    <3>2. listening' = listening
      BY <2>2, <3>1 DEF AppClose, ConnInv, TypeOK
    <3> QED
      BY <2>2, <3>2 DEF AppClose
  <2>3. ASSUME NEW n \in Node, Receive(n)
        PROVE  lost' = lost /\ early' = early /\ closed \subseteq closed' /\ listening' = listening
    BY <2>3 DEF Receive, ReceiveSynSent, ReceiveSynRcvd, ReceiveEstablished, ReceiveWait,
                ReceiveClosing, ReceiveLastAck, ReceiveTimeWait, ForwardUp, ProcessListen,
                NoEndPointsFound, BecomesOnReceipt
  <2>4. ASSUME NEW n \in Node, Timeout(n)
        PROVE  lost' = lost /\ early' = early /\ closed \subseteq closed' /\ listening' = listening
    BY <1>2, <2>4 DEF Timeout, ResendEmpty, ReTxTimeout, LastAckTimeout, TimeWaitTimeout, Expires
  <2> QED
    BY <1>3, <2>1, <2>2, <2>3, <2>4 DEF Next
<1> QED
  BY <1>3, <1>4, <1>6

\* Every step that nothing goes wrong in leads from a phase to a phase.
LEMMA StepCalm ==
    ASSUME ConnInv, Unloaded, CalmNow, listening, Next,
           lost' = 0, early' = 0, Server \notin closed'
    PROVE  CalmNow'
<1>1. early = 0 /\ (\A n \in Node : ~LosePacket(n)) /\ ~AppClose(Server)
  BY Counts
<1>2. CASE Connect
  BY <1>2, ConnectCalm
<1>3. CASE AppSend
  BY <1>3, AppSendCalm
<1>4. CASE SendPendingData
  BY <1>4, SendPendingDataCalm
<1>5. ASSUME NEW n \in Node, AppClose(n) PROVE CalmNow'
  <2>1. n = Client
    BY <1>1, <1>5 DEF Node
  <2> QED
    BY <1>5, <2>1, AppCloseCalm
<1>6. ASSUME NEW n \in Node, Receive(n) PROVE CalmNow'
  <2>1. CASE Delivered(n)
    BY <2>1, DeliveredClient, DeliveredServer DEF Node
  <2>2. CASE NoEndPointsFound(n)
    <3>1. n = Client
      BY <2>2 DEF NoEndPointsFound, Node
    <3> QED
      BY <2>2, <3>1, NoEndPointsCalm
  <2>3. CASE ProcessListen
    BY <2>3, ListenCalm
  <2> QED
    BY <1>6, <2>1, <2>2, <2>3 DEF Receive, Delivered
<1>7. ASSUME NEW n \in Node, Timeout(n) PROVE CalmNow'
  BY <1>1, <1>7, TimeoutCalm, TimeWaitCalm DEF Timeout
<1> QED
  BY <1>1, <1>2, <1>3, <1>4, <1>5, <1>6, <1>7 DEF Next

\* At first nothing has gone wrong.
LEMMA PeaceInit == Init => PeaceInv
<1> SUFFICES ASSUME Init PROVE PeaceInv
  OBVIOUS
<1>1. /\ sock[Client] = NewSocket /\ sock[Server] = NewSocket
      /\ net[Client] = <<>> /\ net[Server] = <<>> /\ listening
  BY DEF Init, Node
<1> QED
  BY <1>1 DEF PeaceInv, Calm, Fresh

\* What holds of Calm holds of the counted invariant.
LEMMA PeaceNext == ConnInv /\ Unloaded /\ PeaceInv /\ [Next]_vars => PeaceInv'
<1> SUFFICES ASSUME ConnInv, Unloaded, PeaceInv, [Next]_vars,
                    lost' = 0, early' = 0, Server \notin closed'
             PROVE  listening' /\ CalmNow'
  BY DEF PeaceInv, CalmNow
<1>1. CASE Next
  <2>1. lost = 0 /\ early = 0 /\ Server \notin closed /\ listening' = listening
    BY <1>1, Counts
  <2>2. listening /\ CalmNow
    BY <2>1 DEF PeaceInv, CalmNow
  <2> QED
    BY <1>1, <2>1, <2>2, StepCalm
<1>2. CASE UNCHANGED vars
  BY <1>2 DEF PeaceInv, CalmNow, vars
<1> QED
  BY <1>1, <1>2

\* Without loads on the path, every state that nothing went wrong before is in one of the
\* phases of Calm.
LEMMA PeaceAlways == Unloaded /\ Spec => [](ConnInv /\ PeaceInv)
<1>1. Spec => []ConnInv
  BY ConnectionInvariant
<1>2. Init => PeaceInv
  BY PeaceInit
<1>3. ConnInv /\ Unloaded /\ PeaceInv /\ [Next]_vars => PeaceInv'
  BY PeaceNext
<1>4. Unloaded <=> Unloaded'
  BY DEF Unloaded
<1> QED
  BY <1>1, <1>2, <1>3, <1>4, PTL DEF Spec

\* A client that was established has not given up, and no phase after that has an error:
\* "This socket closed peacefully" (ProcessLastAck) is what happens when nothing is lost, no
\* timer expires early and only the client closes.
THEOREM ClosesInPeace == Unloaded /\ Spec => []PeacefulClose
<1>1. ASSUME ConnInv, PeaceInv PROVE PeacefulClose
  <2> SUFFICES ASSUME Established(sock[Client]), lost = 0, early = 0, Server \notin closed
               PROVE  \A n \in Node : ~sock[n].error
    BY DEF PeacefulClose
  <2> DEFINE c == sock[Client]
             s == sock[Server]
             q == net[Server]
             r == net[Client]
  <2>1. Calm(c, s, q, r) /\ c.head # 0
    BY <1>1 DEF PeaceInv, Established
  <2>2. ~NewSocket.error /\ NewSocket.head = 0
    BY NewSocketFields
  <2> HIDE DEF c, s, q, r
  <2>3. ~Aborted(c) /\ ~Asking(c) /\ c # NewSocket
    BY <2>1, <2>2 DEF Aborted, Asking
  <2>4. ~c.error
    BY <2>1, <2>3 DEF Calm, Fresh, Requested, Answered, Opening, Streaming, Finishing, LastWord,
                      Over, Sending, Carrying, Waiting, Served, Fine
  <2>5. ~s.error
    BY <2>1, <2>3 DEF Calm, Fresh, Requested, Answered, Opening, Streaming, Finishing, LastWord,
                      Over, Answering, Receiving, Leaving, Gone, Fine
  <2> QED
    BY <2>4, <2>5 DEF Node, c, s
<1> QED
  BY <1>1, PeaceAlways, PTL

\* As long as nothing has gone wrong and the client has not given up, a timer runs only while
\* something is on its way.
NothingPending ==
    /\ lost = 0 /\ early = 0 /\ Server \notin closed /\ Established(sock[Client])
    /\ \A n \in Node : net[n] = <<>>
    => \A n \in Node : Still(sock[n])

\* The retransmission timer and the FIN of LAST_ACK are stopped in time, so that without a
\* loss or an early timeout nothing is sent twice, to the end of the connection.
THEOREM NothingSentTwice == Unloaded /\ Spec => []NothingPending
<1>1. ASSUME ConnInv, PeaceInv PROVE NothingPending
  <2> SUFFICES ASSUME lost = 0, early = 0, Server \notin closed, Established(sock[Client]),
                      \A n \in Node : net[n] = <<>>
               PROVE  \A n \in Node : Still(sock[n])
    BY DEF NothingPending
  <2>1. CalmNow
    BY <1>1 DEF PeaceInv, CalmNow
  <2>2. net[Server] = <<>> /\ net[Client] = <<>>
    BY DEF Node
  <2>3. ~Aborted(sock[Client])
    BY DEF Aborted, Established
  <2>4. Still(sock[Client]) /\ Still(sock[Server])
    BY <1>1, <2>1, <2>2, <2>3, QuietCalm
  <2> QED
    BY <2>4 DEF Node
<1> QED
  BY <1>1, PeaceAlways, PTL

-----------------------------------------------------------------------------
(* Nobody waits without a timer.                                           *)

\* The retransmission timer runs.
Timed(s) == s.retx # NoTimer

\* It runs while data is outstanding, and only while something is not acknowledged.
Ready(s) == (s.head < s.high => Timed(s)) /\ (Timed(s) => s.head < s.tail)

\* Every state in which the peer has to answer is under a timer, and in LAST_ACK one that
\* does not stop without sending again: the RTO of an empty buffer would.
Duty(s) ==
    s.up =>
        /\ s.st \in {"SYN_SENT", "SYN_RCVD", "FIN_WAIT_1", "CLOSING"} => Timed(s)
        /\ s.st = "LAST_ACK" =>
               s.lato \/ (Timed(s) /\ (s.retx.kind = "RTO" => s.head < s.tail))
        /\ Open(s) => Ready(s)

DutyInv == \A n \in Node : Duty(sock[n])

\* What Duty depends on stays the same, but perhaps for the endpoint.
Alike(s, t) ==
    /\ t.st = s.st /\ t.head = s.head /\ t.high = s.high /\ t.tail = s.tail
    /\ t.retx = s.retx /\ t.lato = s.lato /\ (t.up => s.up)

LEMMA DutyAlike ==
    ASSUME NEW s, NEW t, Alike(s, t), Duty(s)
    PROVE  Duty(t)
BY DEF Alike, Duty, Open, Ready, Timed

LEMMA AlikeTwice ==
    ASSUME NEW r, NEW s, NEW t, Alike(r, s), Alike(s, t)
    PROVE  Alike(r, t)
BY DEF Alike

\* A timer and unacknowledged data are enough in every state.
LEMMA DutyBusy ==
    ASSUME NEW t, Timed(t), t.head < t.tail
    PROVE  Duty(t)
BY DEF Duty, Ready

\* SendEmptyPacket starts a timer for a SYN or a FIN and leaves one that runs.
LEMMA EmptyTimer ==
    ASSUME NEW s \in Socket, NEW type \in PacketType, NEW kept \in Load,
           NEW t, t = SendEmpty(s, type, kept)
    PROVE  /\ t \in Socket /\ SameCore(s, t) /\ (t.up => s.up)
           /\ t.up => /\ t.st = s.st /\ t.lato = s.lato
                      /\ \/ t.retx = s.retx
                         \/ type \in {"SYN", "SYN_ACK", "FIN_ACK"} /\ t.retx.kind = type
                      /\ type \in {"SYN", "SYN_ACK", "FIN_ACK"} => Timed(t)
           /\ type = "ACK" => Alike(s, t) /\ t.up = s.up
<1> DEFINE bits == IF s.load = {} THEN {} ELSE kept \cup s.load
           guarded == type \in {"SYN", "SYN_ACK", "FIN_ACK"} /\ s.retx = NoTimer
           syn == type \in {"SYN", "SYN_ACK"}
           out == Append(s.out, EmptyPacket(s, type, kept))
           retx == IF guarded THEN [kind |-> type, bits |-> bits] ELSE s.retx
           count == IF syn THEN s.syn - 1 ELSE s.syn
<1>0. t \in Socket /\ SameCore(s, t) /\ (t.up => s.up)
  BY SendEmptyFields
<1>1. CASE ~s.up
  <2>1. t = s
    BY <1>1 DEF SendEmpty
  <2> QED
    BY <1>0, <1>1, <2>1 DEF Alike
<1>2. CASE s.up /\ syn /\ s.syn = 0
  <2>1. t = Deallocate([s EXCEPT !.st = "CLOSED", !.error = TRUE])
    BY <1>2 DEF SendEmpty
  <2>2. t.up = FALSE
    BY <2>1 DEF Deallocate, Socket
  <2> QED
    BY <1>0, <1>2, <2>2
<1>3. CASE s.up /\ ~(syn /\ s.syn = 0)
  <2>1. t = [s EXCEPT !.out = out, !.syn = count, !.retx = retx]
    BY <1>3 DEF SendEmpty, EmptyPacket
  <2>2. \/ retx = s.retx /\ (type \in {"SYN", "SYN_ACK", "FIN_ACK"} => s.retx # NoTimer)
        \/ type \in {"SYN", "SYN_ACK", "FIN_ACK"} /\ retx.kind = type /\ retx # NoTimer
    BY DEF NoTimer
  <2>3. type = "ACK" => retx = s.retx
    OBVIOUS
  <2> HIDE DEF bits, guarded, syn, out, retx, count
  <2>4. /\ t.st = s.st /\ t.lato = s.lato /\ t.retx = retx /\ t.up = s.up
        /\ t.head = s.head /\ t.high = s.high /\ t.tail = s.tail
    BY <2>1 DEF Socket
  <2> QED
    BY <1>0, <2>2, <2>3, <2>4 DEF Timed, Alike
<1> QED
  BY <1>1, <1>2, <1>3

LEMMA AckTimer ==
    ASSUME NEW s \in Socket, NEW t, t = SendAck(s)
    PROVE  t \in Socket /\ Alike(s, t) /\ t.up = s.up
BY EmptyTimer DEF SendAck, PacketType, Load

\* Without an endpoint there is nothing to wait for.
LEMMA DutyDown ==
    ASSUME NEW t, ~t.up
    PROVE  Duty(t)
BY DEF Duty

LEMMA RSTDown ==
    ASSUME NEW s \in Socket, NEW t, t = SendRST(s)
    PROVE  t \in Socket /\ ~t.up
<1> DEFINE u == SendEmpty(s, "RST", {})
<1>1. u \in Socket
  BY EmptyTimer DEF PacketType, Load
<1>2. t = Deallocate([u EXCEPT !.error = TRUE])
  BY DEF SendRST
<1> HIDE DEF u
<1>3. NoTimer \in [kind : TimerKind, bits : Load]
  BY NoTimerType
<1>4. t = [u EXCEPT !.error = TRUE, !.up = FALSE, !.retx = NoTimer, !.lato = FALSE]
  BY <1>1, <1>2 DEF Deallocate, Socket
<1> QED
  BY <1>1, <1>3, <1>4 DEF Socket

LEMMA ClosedDown ==
    ASSUME NEW s \in Socket, NEW t, t = CloseAndNotify(s) \/ t = CloseAndNotify(SendRST(s))
    PROVE  ~t.up /\ Duty(t)
<1>1. ASSUME NEW x \in Socket, t = CloseAndNotify(x) PROVE ~t.up
  BY <1>1 DEF CloseAndNotify, Deallocate, Socket
<1>2. SendRST(s) \in Socket
  BY RSTDown
<1>3. ~t.up
  BY <1>1, <1>2
<1> QED
  BY <1>3, DutyDown

\* SendDataPacket starts the timer unless it runs, and leaves data unacknowledged.
LEMMA SendBusy ==
    ASSUME NEW s \in Socket, NEW first \in Nat, s.head <= first, first < s.tail,
           NEW t, t = SendData(s, first)
    PROVE  Duty(t)
<1> DEFINE retx == IF s.retx = NoTimer THEN DataTimer ELSE s.retx
           high == Larger(s.high, s.tail)
           out == s.out \o [i \in 1..(s.tail - first) |->
                      [type |-> IF s.coe /\ first + i - 1 + 1 = s.tail THEN "FIN_ACK" ELSE "ACK",
                       seq |-> first + i - 1, ack |-> s.rcv, len |-> 1, bits |-> {}]]
           st == CASE s.coe /\ s.st = "ESTABLISHED" -> "FIN_WAIT_1"
                   [] s.coe /\ s.st = "CLOSE_WAIT" -> "LAST_ACK"
                   [] OTHER -> s.st
<1>0. s.head \in Nat /\ s.tail \in Nat
  BY DEF Socket
<1>1. CASE ~s.up
  BY <1>1, DutyDown DEF SendData
<1>2. CASE s.up
  <2>1. ~(~s.up \/ first >= s.tail)
    BY <1>0, <1>2
  <2>2. t = [s EXCEPT !.out = out, !.nextTx = s.tail, !.high = high, !.retx = retx, !.st = st]
    BY <2>1 DEF SendData
  <2>3. retx # NoTimer
    BY DEF NoTimer, DataTimer
  <2> HIDE DEF retx, high, out, st
  <2>4. t.head = s.head /\ t.tail = s.tail /\ t.retx = retx
    BY <2>2 DEF Socket
  <2>5. Timed(t) /\ t.head < t.tail
    BY <1>0, <2>3, <2>4 DEF Timed
  <2> QED
    BY <2>5, DutyBusy
<1> QED
  BY <1>1, <1>2

LEMMA DutySend ==
    ASSUME NEW s \in Socket, NEW first \in Nat, s.head <= first, Duty(s),
           NEW t, t = SendData(s, first)
    PROVE  Duty(t)
<1>1. CASE first >= s.tail
  BY <1>1 DEF SendData
<1>2. CASE first < s.tail
  BY <1>2, SendBusy
<1> QED
  BY <1>1, <1>2 DEF Socket

LEMMA DutySendPending ==
    ASSUME NEW s \in Socket, Duty(s), NEW t, t = SendPending(s)
    PROVE  Duty(t)
<1> DEFINE first == Larger(s.high, s.head)
<1>1. first \in Nat /\ s.head <= first
  BY DEF Larger, Socket
<1>2. t = SendData(s, first)
  BY DEF SendPending
<1> HIDE DEF first
<1> QED
  BY <1>1, <1>2, DutySend

\* A FIN without data is under a timer of its own, or under that of the data before it.
LEMMA DutyFin ==
    ASSUME NEW s \in Socket, Open(s), Duty(s),
           NEW st \in {"FIN_WAIT_1", "LAST_ACK"}, NEW t, t = SendFin(s, {}, st)
    PROVE  Duty(t)
<1> DEFINE u == SendEmpty(s, "FIN_ACK", {})
<1>1. /\ u \in Socket /\ SameCore(s, u) /\ (u.up => s.up)
      /\ u.up => /\ u.retx = s.retx \/ u.retx.kind = "FIN_ACK"
                 /\ Timed(u)
  BY EmptyTimer DEF PacketType, Load
<1>2. t = [u EXCEPT !.st = st] /\ st \in State
  BY DEF SendFin, State
<1> HIDE DEF u
<1>3. t.st = st /\ t.up = u.up /\ t.retx = u.retx /\ t.head = u.head /\ t.tail = u.tail
  BY <1>1, <1>2 DEF Socket
<1>4. SUFFICES ASSUME t.up PROVE Duty(t)
  BY DutyDown
<1>5. Timed(t) /\ (t.retx = s.retx \/ t.retx.kind = "FIN_ACK")
  BY <1>1, <1>3, <1>4 DEF Timed
<1>6. t.retx.kind = "RTO" => t.head < t.tail
  <2>1. SUFFICES ASSUME t.retx.kind = "RTO" PROVE s.head < s.tail
    BY <1>1, <1>3 DEF SameCore
  <2>2. Timed(s)
    BY <1>5, <2>1 DEF Timed
  <2>3. s.up
    BY <1>1, <1>3, <1>4
  <2> QED
    BY <2>2, <2>3 DEF Duty, Ready
<1> QED
  BY <1>3, <1>5, <1>6 DEF Duty, Open

LEMMA DutyDoClose ==
    ASSUME NEW s \in Socket, Duty(s), NEW t, t = DoClose(s)
    PROVE  Duty(t)
<1>1. CASE s.st = "ESTABLISHED"
  <2>1. t = SendFin(s, {}, "FIN_WAIT_1")
    BY <1>1 DEF DoClose, SendFin
  <2> QED
    BY <1>1, <2>1, DutyFin DEF Open
<1>2. CASE s.st = "CLOSE_WAIT"
  <2>1. t = SendFin(s, {}, "LAST_ACK")
    BY <1>2 DEF DoClose, SendFin
  <2> QED
    BY <1>2, <2>1, DutyFin DEF Open
<1>3. CASE s.st \in {"SYN_SENT", "CLOSING"}
  <2>1. t = CloseAndNotify(SendRST(s))
    BY <1>3 DEF DoClose
  <2> QED
    BY <2>1, ClosedDown
<1>4. CASE s.st \notin {"ESTABLISHED", "CLOSE_WAIT", "SYN_SENT", "CLOSING"}
  <2>1. t = s
    BY <1>4 DEF DoClose
  <2> QED
    BY <2>1
<1> QED
  BY <1>1, <1>2, <1>3, <1>4

\* Close by the application: at once, after the data, or with a reset.
LEMMA DutyClose ==
    ASSUME NEW s \in Socket, Duty(s), NEW t, t = Close(s)
    PROVE  Duty(t)
<1>1. CASE s.held # {}
  <2>1. t = SendRST(s)
    BY <1>1 DEF Close
  <2> QED
    BY <2>1, RSTDown, DutyDown
<1>2. CASE s.held = {} /\ s.tail > s.nextTx
  <2>1. t = [s EXCEPT !.coe = TRUE]
    BY <1>2 DEF Close
  <2>2. Alike(s, t)
    BY <2>1 DEF Alike, Socket
  <2> QED
    BY <2>2, DutyAlike
<1>3. CASE s.held = {} /\ ~(s.tail > s.nextTx)
  <2>1. t = DoClose(s)
    BY <1>3 DEF Close
  <2> QED
    BY <2>1, DutyDoClose
<1> QED
  BY <1>1, <1>2, <1>3

LEMMA CloseType ==
    ASSUME NEW s \in Socket, NEW t, t = Close(s)
    PROVE  t \in Socket
<1>1. CASE s.held # {}
  BY <1>1, RSTDown DEF Close
<1>2. CASE s.held = {} /\ s.tail > s.nextTx
  BY <1>2 DEF Close, Socket
<1>3. CASE s.held = {} /\ ~(s.tail > s.nextTx)
  <2>1. t = DoClose(s)
    BY <1>3 DEF Close
  <2>2. ASSUME NEW st \in {"FIN_WAIT_1", "LAST_ACK"}, t = SendFin(s, {}, st) PROVE t \in Socket
    BY <2>2, FinTaken DEF Load
  <2>3. \/ t = SendFin(s, {}, "FIN_WAIT_1") \/ t = SendFin(s, {}, "LAST_ACK")
        \/ t = CloseAndNotify(SendRST(s)) \/ t = s
    BY <2>1 DEF DoClose, SendFin
  <2>4. CASE t = CloseAndNotify(SendRST(s))
    <3> DEFINE u == SendRST(s)
    <3>1. u \in Socket
      BY RSTDown
    <3>2. t = CloseAndNotify(u)
      BY <2>4
    <3> HIDE DEF u
    <3>3. t = [u EXCEPT !.normal = TRUE, !.st = "CLOSED", !.up = FALSE, !.retx = NoTimer, !.lato = FALSE]
      BY <3>1, <3>2 DEF CloseAndNotify, Deallocate, Socket
    <3>4. "CLOSED" \in State
      BY DEF State
    <3> QED
      BY <3>1, <3>3, <3>4, NoTimerType DEF Socket
  <2> QED
    BY <2>2, <2>3, <2>4
<1> QED
  BY <1>1, <1>2, <1>3

\* The FIN of the peer in sequence: this side answers with its own under the timeout of
\* LAST_ACK, or its application is told and the timers stay as they are.
LEMMA PeerCloseTimer ==
    ASSUME NEW s \in Socket, NEW t, t = DoPeerClose(s)
    PROVE  /\ t.st = "LAST_ACK" => t.lato
           /\ ~s.shut => /\ t.head = s.head /\ t.high = s.high /\ t.tail = s.tail
                         /\ t.retx = s.retx /\ t.up = s.up /\ t.st = "CLOSE_WAIT"
<1> DEFINE told == [s EXCEPT !.st = "CLOSE_WAIT", !.normal = TRUE]
           answered == IF s.shut THEN Close(told) ELSE SendAck(told)
<1>1. /\ told \in Socket /\ told.st = "CLOSE_WAIT" /\ told.up = s.up /\ told.retx = s.retx
      /\ told.head = s.head /\ told.high = s.high /\ told.tail = s.tail
  BY DEF Socket, State
<1>2. t = IF answered.st = "LAST_ACK" THEN [answered EXCEPT !.retr = DataRetries, !.lato = TRUE]
          ELSE answered
  BY DEF DoPeerClose
<1> HIDE DEF told
<1>3. answered \in Socket
  BY <1>1, CloseType, AckTimer
<1>4. ~s.shut => Alike(told, answered) /\ answered.up = told.up
  BY <1>1, AckTimer
<1> HIDE DEF answered
<1>5. t.st = "LAST_ACK" => t.lato
  BY <1>2, <1>3 DEF Socket
<1>6. ~s.shut => t = answered
  BY <1>1, <1>2, <1>4 DEF Alike
<1> QED
  BY <1>1, <1>4, <1>5, <1>6 DEF Alike

LEMMA DutyPeerClose ==
    ASSUME NEW s, NEW p, Pair(s, p), Told(p), Finished(s), s.head # 0, Duty(s),
           IF s.shut THEN Quiet(s) ELSE s.st = "ESTABLISHED",
           NEW t, t = DoPeerClose(s)
    PROVE  Duty(t) /\ (s.shut => t.st = "LAST_ACK" /\ t.lato)
<1>1. s \in Socket
  BY DEF Pair, Joined
<1>2. t.st = IF s.shut THEN "LAST_ACK" ELSE "CLOSE_WAIT"
  BY MovesPeerClose
<1>3. /\ t.st = "LAST_ACK" => t.lato
      /\ ~s.shut => /\ t.head = s.head /\ t.high = s.high /\ t.tail = s.tail
                    /\ t.retx = s.retx /\ t.up = s.up /\ t.st = "CLOSE_WAIT"
  BY <1>1, PeerCloseTimer
<1>4. CASE s.shut
  BY <1>2, <1>3, <1>4 DEF Duty, Open
<1>5. CASE ~s.shut
  BY <1>3, <1>5 DEF Duty, Open, Ready, Timed
<1> QED
  BY <1>4, <1>5, <1>2, <1>3

\* Data changes no timer, unless it completes the stream of the peer.
LEMMA DutyData ==
    ASSUME NEW s, NEW p, Pair(s, p), NEW m \in Packet, Pk(m, p, s), Told(p), s.head # 0,
           OneWay(s, p), Duty(s), NEW t, t = ReceivedData(s, m)
    PROVE  Duty(t) /\ (m.type = "FIN_ACK" => Alike(s, t))
<1>0. /\ s \in Socket /\ p \in Socket /\ Joined(s, p) /\ m.len \in 0..1
      /\ s.rcv \in Nat /\ m.seq \in Nat /\ p.high \in Nat
  BY DEF Pair, Joined, Socket, Packet
<1>1. m.len = 1 => s.shut /\ Quiet(s)
  BY <1>0 DEF OneWay, Quiet, Pk
<1>2. SUFFICES Alike(s, t) \/ (Duty(t) /\ m.type # "FIN_ACK")
  BY DutyAlike
<1>3. CASE m.len = 0
  BY <1>3 DEF ReceivedData, Alike
<1>4. CASE m.len = 1 /\ (m.seq < s.rcv \/ m.seq \in s.held)
  <2>1. t = SendAck(s)
    BY <1>4 DEF ReceivedData
  <2> QED
    BY <1>0, <2>1, AckTimer
<1>5. CASE m.len = 1 /\ ~(m.seq < s.rcv \/ m.seq \in s.held)
  <2> DEFINE a == AddSegment(s, m)
  <2>1. Moves(s, a, p) /\ DataTaken(s, a) /\ a.st = s.st /\ a.retx = s.retx
    BY <1>0, <1>5, MovesAdd
  <2>2. a = [s EXCEPT !.held = a.held, !.rcv = a.rcv]
    BY <1>0 DEF AddSegment, Socket
  <2>3. Pair(a, p) /\ a \in Socket /\ a.head # 0 /\ a.shut /\ Quiet(a)
    BY <1>0, <1>1, <1>5, <2>1 DEF Moves, Pair, Joined, DataTaken, Keeps
  <2>4. t = IF a.rcv > s.rcv /\ Finished(a) /\ m.type # "FIN_ACK" THEN DoPeerClose(a) ELSE SendAck(a)
    BY <1>0, <1>5 DEF ReceivedData
  <2> HIDE DEF a
  <2>5. Alike(s, a)
    <3>1. a.lato = s.lato
      BY <1>0, <2>2 DEF Socket
    <3> QED
      BY <2>1, <3>1 DEF Alike, DataTaken
  <2>6. Duty(a)
    BY <2>5, DutyAlike
  <2>7. CASE a.rcv > s.rcv /\ Finished(a) /\ m.type # "FIN_ACK"
    BY <2>3, <2>4, <2>6, <2>7, DutyPeerClose
  <2>8. CASE ~(a.rcv > s.rcv /\ Finished(a) /\ m.type # "FIN_ACK")
    <3>1. t = SendAck(a)
      BY <2>4, <2>8
    <3>2. Alike(a, t)
      BY <2>3, <3>1, AckTimer
    <3> QED
      BY <2>5, <3>2, AlikeTwice
  <2> QED
    BY <2>7, <2>8
<1> QED
  BY <1>0, <1>3, <1>4, <1>5

\* NewAck stops the timer when nothing is outstanding, and never that of a FIN.
LEMMA DutyAck ==
    ASSUME NEW s \in Socket, Own(s), s.head # 0, Duty(s),
           s.st \in {"ESTABLISHED", "CLOSE_WAIT", "FIN_WAIT_1", "FIN_WAIT_2"},
           NEW ack \in Nat, NEW t, t = AfterAck(s, ack)
    PROVE  Duty(t)
<1>0. s.head \in Nat /\ s.high \in Nat /\ s.tail \in Nat
  BY DEF Socket
<1>1. CASE ack > s.head
  <2> DEFINE retx == IF ack >= s.tail /\ s.st \notin {"FIN_WAIT_1", "CLOSING"}
                     THEN NoTimer ELSE DataTimer
             tail == Larger(s.tail, ack)
             nextTx == Larger(s.nextTx, ack)
  <2>1. t = [s EXCEPT !.head = ack, !.tail = tail, !.nextTx = nextTx,
                      !.retr = DataRetries, !.retx = retx]
    BY <1>1 DEF AfterAck, NewAck
  <2>2. /\ retx = DataTimer => retx # NoTimer
        /\ retx = NoTimer \/ retx = DataTimer
        /\ retx = NoTimer => ack >= s.tail /\ s.st # "FIN_WAIT_1"
        /\ retx = DataTimer => ack < s.tail \/ s.st = "FIN_WAIT_1"
    BY <1>0 DEF NoTimer, DataTimer
  <2>3. tail \in Nat /\ tail >= s.tail
    BY <1>0 DEF Larger
  <2> HIDE DEF retx, tail, nextTx
  <2>4. t.head = ack /\ t.tail = tail /\ t.high = s.high /\ t.retx = retx /\ t.st = s.st
    BY <2>1 DEF Socket
  <2>5. CASE retx = DataTimer /\ ack < s.tail
    <3>1. Timed(t) /\ t.head < t.tail
      BY <1>0, <2>2, <2>3, <2>4, <2>5 DEF Timed
    <3> QED
      BY <3>1, DutyBusy
  <2>6. CASE retx = DataTimer /\ s.st = "FIN_WAIT_1"
    BY <2>2, <2>4, <2>6 DEF Duty, Open, Timed
  <2>7. CASE retx = NoTimer
    <3>1. Open(s) => s.high <= s.tail
      BY <1>0 DEF Own, Connection, Acked
    <3>2. Open(s) => ~(t.head < t.high)
      BY <1>0, <2>2, <2>4, <2>7, <3>1
    <3>3. ~Timed(t)
      BY <2>4, <2>7 DEF Timed
    <3> QED
      BY <2>2, <2>4, <2>7, <3>2, <3>3 DEF Duty, Open, Ready
  <2> QED
    BY <2>2, <2>5, <2>6, <2>7
<1>2. CASE ~(ack > s.head)
  <2>1. t = s \/ t = [s EXCEPT !.nextTx = ack]
    BY <1>2 DEF AfterAck
  <2>2. Alike(s, t)
    BY <2>1 DEF Alike, Socket
  <2> QED
    BY <2>2, DutyAlike
<1> QED
  BY <1>1, <1>2

\* ReceivedAck: the acknowledgment, the data, and what may be sent then.
LEMMA DutyReceivedAck ==
    ASSUME NEW s, NEW p, Pair(s, p), s.up, s.head # 0, Duty(s),
           s.st \in {"ESTABLISHED", "CLOSE_WAIT", "FIN_WAIT_1", "FIN_WAIT_2"},
           NEW m \in Packet, m.type \in {"ACK", "FIN_ACK"}, Pk(m, p, s),
           Told(p), OneWay(s, p), NEW t, t = ReceivedAck(s, m)
    PROVE  Duty(t)
<1> DEFINE a == AfterAck(s, m.ack)
           d == ReceivedData(a, m)
<1>0. /\ s \in Socket /\ p \in Socket /\ Joined(s, p) /\ Own(s) /\ m.ack \in Nat
      /\ m.ack <= p.rcv /\ s.head \in Nat
  BY DEF Pair, Joined, Socket, Packet, Pk
<1>1. Moves(s, a, p) /\ AckTaken(s, a)
  BY <1>0, MovesAckTaken
<1>2. t = d \/ t = SendPending(d)
  <2>1. CASE m.ack < s.head
    <3>1. a = s
      BY <1>0, <2>1 DEF AfterAck
    <3> QED
      BY <2>1, <3>1 DEF ReceivedAck
  <2>2. CASE ~(m.ack < s.head)
    BY <2>2 DEF ReceivedAck, AfterAck
  <2> QED
    BY <2>1, <2>2
<1>3. Duty(a)
  BY <1>0, DutyAck
<1> HIDE DEF a
<1>4. Pair(a, p) /\ a \in Socket /\ a.head # 0 /\ OneWay(a, p)
  BY <1>1 DEF Moves, Pair, Joined, Later, Keeps, OneWay, AckTaken
<1>5. Pk(m, p, a)
  BY <1>0, <1>1, <1>4, PkLater, LaterSame DEF Moves
<1>6. Moves(a, d, p) /\ Duty(d)
  BY <1>3, <1>4, <1>5, MovesData, DutyData
<1>7. d \in Socket
  BY <1>6 DEF Moves, Pair, Joined
<1> HIDE DEF d
<1> QED
  BY <1>2, <1>6, <1>7, DutySendPending

\* A FIN, perhaps with data, before its place in the stream is looked at.
LEMMA FinTimer ==
    ASSUME NEW s, NEW p, Pair(s, p), s.head # 0, ~Past(s), Duty(s),
           NEW m \in Packet, m.type = "FIN_ACK", Pk(m, p, s), Told(p), OneWay(s, p),
           NEW t, t = FinTakenIn(s, m)
    PROVE  Alike(s, t)
<1> DEFINE q == m.seq + m.len
           f == SetFinSequence(s, q)
<1>0. s \in Socket /\ p \in Socket /\ Joined(s, p) /\ Own(p) /\ m.seq \in Nat /\ m.len \in 0..1
  BY DEF Pair, Joined, Socket, Packet
<1>1. FinSent(p) /\ q = p.high /\ q \in Nat \ {0}
  BY <1>0, FinPlace
<1>2. t = ReceivedData(f, m)
  BY DEF FinTakenIn
<1>3. q + 1 \in Nat
  BY <1>0
<1> HIDE DEF q
<1>4. Moves(s, f, p) /\ FinNoted(s, f)
  BY <1>1, MovesSetFin
<1>5. Alike(s, f)
  BY <1>0 DEF SetFinSequence, Alike, Socket
<1> HIDE DEF f
<1>6. Pair(f, p) /\ f \in Socket /\ f.head # 0 /\ OneWay(f, p)
  BY <1>4 DEF Moves, Pair, Joined, FinNoted, Keeps, OneWay
<1>7. Pk(m, p, f)
  BY <1>0, <1>4, <1>6, PkLater, LaterSame DEF Moves
<1>8. Duty(f)
  BY <1>5, DutyAlike
<1>9. Alike(f, t)
  BY <1>2, <1>6, <1>7, <1>8, DutyData
<1> QED
  BY <1>5, <1>9, AlikeTwice

LEMMA DutyPeerFin ==
    ASSUME NEW s, NEW p, Pair(s, p), s.st = "ESTABLISHED", Duty(s),
           NEW m \in Packet, m.type = "FIN_ACK", Pk(m, p, s), Told(p), OneWay(s, p),
           NEW t, t = PeerClose(s, m)
    PROVE  Duty(t)
<1> DEFINE g == FinTakenIn(s, m)
<1>0. s \in Socket /\ p \in Socket /\ Joined(s, p) /\ s.head # 0 /\ ~Past(s)
  BY DEF Pair, Joined, Own, Unconnected, Past
<1>1. Moves(s, g, p) /\ g.st = "ESTABLISHED"
  BY <1>0, MovesFinTakenIn
<1>2. Alike(s, g)
  BY <1>0, FinTimer
<1>3. t = CASE m.seq < s.rcv \/ (s.fin # 0 /\ m.seq > s.fin) -> s
            [] Finished(g) /\ g.st = "FIN_WAIT_1" -> [g EXCEPT !.st = "CLOSING"]
            [] Finished(g) /\ g.st # "FIN_WAIT_1" -> DoPeerClose(g)
            [] OTHER -> g
  BY DEF PeerClose, FinTakenIn
<1> HIDE DEF g
<1>4. /\ Pair(g, p) /\ g.head # 0
      /\ IF g.shut THEN Quiet(g) ELSE g.st = "ESTABLISHED"
  BY <1>0, <1>1 DEF Moves, Pair, Joined, Later, Keeps, OneWay
<1>5. Duty(g)
  BY <1>2, DutyAlike
<1>6. t = s \/ (Finished(g) /\ t = DoPeerClose(g)) \/ t = g
  BY <1>1, <1>3
<1> QED
  BY <1>4, <1>5, <1>6, DutyPeerClose

-----------------------------------------------------------------------------
(* One lemma per Process function.                                         *)

LEMMA DutyEstablished ==
    ASSUME NEW s, NEW p, Pair(s, p), Told(p), OneWay(s, p), s.up, Duty(s),
           s.st = "ESTABLISHED", NEW m \in Packet, Pk(m, p, s), NEW t, t = ProcessEstablished(s, m)
    PROVE  Duty(t)
<1>0. s.head # 0 /\ m.type \in PacketType /\ s \in Socket
  BY DEF Pair, Joined, Own, Unconnected, Packet
<1>1. CASE t = s
  BY <1>1
<1>2. CASE t = SendAck(s)
  BY <1>0, <1>2, AckTimer, DutyAlike
<1>3. CASE m.type = "ACK" /\ t = ReceivedAck(s, m)
  BY <1>0, <1>3, DutyReceivedAck
<1>4. CASE m.type = "FIN_ACK" /\ t = PeerClose(s, m)
  BY <1>4, DutyPeerFin
<1>5. CASE t = CloseAndNotify(s) \/ t = CloseAndNotify(SendRST(s))
  BY <1>0, <1>5, ClosedDown
<1> QED
  BY <1>0, <1>1, <1>2, <1>3, <1>4, <1>5 DEF ProcessEstablished, PacketType

\* FIN_WAIT_1 is left for a state without a duty, or for CLOSING with the timer on.
LEMMA DutyWait ==
    ASSUME NEW s, NEW p, Pair(s, p), Settled(s, p), Told(p), OneWay(s, p), s.up, Duty(s),
           s.st \in {"CLOSE_WAIT", "FIN_WAIT_1", "FIN_WAIT_2"},
           NEW m \in Packet, Pk(m, p, s), NEW t, t = ProcessWait(s, m)
    PROVE  Duty(t)
<1> DEFINE a == ReceivedAck(s, m)
           ofFin == a.head >= a.tail /\ m.ack = a.high + 1
           got == IF m.type = "FIN_ACK" THEN SetFinSequence(a, m.seq)
                  ELSE IF a.st = "FIN_WAIT_1" /\ ofFin THEN [a EXCEPT !.st = "FIN_WAIT_2"] ELSE a
<1>0. s \in Socket /\ p \in Socket /\ s.head # 0 /\ m.type \in PacketType /\ m.seq \in Nat
  BY DEF Pair, Joined, Own, Unconnected, Packet
<1>1. CASE m.type \notin {"ACK", "FIN_ACK"}
  <2>1. t = s \/ t = CloseAndNotify(s) \/ t = CloseAndNotify(SendRST(s))
    BY <1>0, <1>1 DEF ProcessWait, PacketType
  <2> QED
    BY <1>0, <2>1, ClosedDown
<1>2. CASE m.type \in {"ACK", "FIN_ACK"}
  <2>0. t = CASE got.st = "FIN_WAIT_1" /\ Finished(got) ->
                    SendAck(IF ofFin THEN TimeWait(got) ELSE [got EXCEPT !.st = "CLOSING"])
              [] got.st = "FIN_WAIT_2" /\ Finished(got) -> SendAck(TimeWait(got))
              [] OTHER -> got
    BY <1>2 DEF ProcessWait
  <2>1. Moves(s, a, p)
    BY <1>0, <1>2, MovesReceivedAck
  <2>2. Duty(a)
    BY <1>0, <1>2, DutyReceivedAck
  <2> HIDE DEF a
  <2>3. a \in Socket
    BY <2>1 DEF Moves, Pair, Joined
  <2>4. got \in Socket /\ Duty(got)
    <3>1. CASE got = SetFinSequence(a, m.seq)
      <4> DEFINE q == m.seq
                 rcv == IF a.rcv = q THEN q + 1 ELSE a.rcv
      <4>1. got = [a EXCEPT !.fin = q, !.rcv = rcv]
        BY <3>1 DEF SetFinSequence
      <4>2. q \in Nat /\ rcv \in Nat
        <5>1. a.rcv \in Nat
          BY <2>3 DEF Socket
        <5>2. q \in Nat
          BY <1>0
        <5> HIDE DEF q
        <5> QED
          BY <5>1, <5>2
      <4> HIDE DEF q, rcv, got
      <4>3. got \in Socket
        BY <2>3, <4>1, <4>2 DEF Socket
      <4>4. Alike(a, got)
        BY <2>3, <4>1 DEF Socket, Alike
      <4> QED
        BY <2>2, <4>3, <4>4, DutyAlike
    <3>2. CASE got = [a EXCEPT !.st = "FIN_WAIT_2"]
      <4>1. got \in Socket /\ got.st = "FIN_WAIT_2"
        BY <2>3, <3>2 DEF Socket, State
      <4> QED
        BY <4>1 DEF Duty, Open
    <3>3. CASE got = a
      BY <2>2, <2>3, <3>3
    <3> QED
      BY <3>1, <3>2, <3>3
  <2> HIDE DEF got, ofFin
  <2>5. ASSUME NEW u, u = TimeWait(got) PROVE u \in Socket /\ Duty(u)
    <3>1. u \in Socket /\ u.st = "TIME_WAIT"
      BY <2>4, <2>5, NoTimerType DEF TimeWait, Socket, State
    <3> QED
      BY <3>1 DEF Duty, Open
  <2>6. ASSUME NEW u, u = [got EXCEPT !.st = "CLOSING"], got.st = "FIN_WAIT_1"
        PROVE  u \in Socket /\ Duty(u)
    <3>1. u \in Socket /\ u.st = "CLOSING" /\ u.retx = got.retx /\ u.up = got.up
      BY <2>4, <2>6 DEF Socket, State
    <3> QED
      BY <2>4, <2>6, <3>1 DEF Duty, Open, Timed
  <2>7. CASE t = got
    BY <2>4, <2>7
  <2>8. ASSUME NEW u, u = TimeWait(got) \/ (got.st = "FIN_WAIT_1" /\ u = [got EXCEPT !.st = "CLOSING"]),
               t = SendAck(u)
        PROVE  Duty(t)
    BY <2>5, <2>6, <2>8, AckTimer, DutyAlike
  <2>9. \/ t = got
        \/ t = SendAck(TimeWait(got))
        \/ got.st = "FIN_WAIT_1" /\ t = SendAck([got EXCEPT !.st = "CLOSING"])
    BY <2>0
  <2> QED
    BY <2>7, <2>8, <2>9
<1> QED
  BY <1>1, <1>2

LEMMA DutyClosing ==
    ASSUME NEW s \in Socket, s.up, Duty(s), s.st = "CLOSING",
           NEW m, NEW t, t = ProcessClosing(s, m)
    PROVE  Duty(t)
<1> DEFINE a == SendAck(s)
<1>1. a \in Socket
  BY AckTimer
<1>2. \/ t = TimeWait(s) \/ t = s \/ t = CloseAndNotify(a)
      \/ t = CloseAndNotify(s) \/ t = CloseAndNotify(SendRST(s))
  BY DEF ProcessClosing
<1> HIDE DEF a
<1>3. CASE t = TimeWait(s)
  <2>1. t.st = "TIME_WAIT"
    BY <1>3 DEF TimeWait, Socket
  <2> QED
    BY <2>1 DEF Duty, Open
<1> QED
  BY <1>1, <1>2, <1>3, ClosedDown

LEMMA DutyLastAck ==
    ASSUME NEW s \in Socket, Duty(s), NEW m, NEW t, t = ProcessLastAck(s, m)
    PROVE  Duty(t)
<1>1. t = s \/ t = CloseAndNotify(s) \/ t = CloseAndNotify(SendRST(s))
  BY DEF ProcessLastAck
<1> QED
  BY <1>1, ClosedDown

\* The handshake: nothing is outstanding and the timer of the SYN is stopped.
LEMMA OpenedTimer ==
    ASSUME NEW s \in Socket, NEW rcv \in Nat,
           NEW t, t = [Connected(s) EXCEPT !.st = "ESTABLISHED", !.rcv = rcv]
    PROVE  t \in Socket /\ Duty(t)
<1> DEFINE first == s.nextTx + 1
           c == [s EXCEPT !.retx = NoTimer, !.nextTx = first, !.high = first,
                          !.head = first, !.tail = first]
<1>1. first \in Nat
  BY DEF Socket
<1>2. t = [c EXCEPT !.st = "ESTABLISHED", !.rcv = rcv]
  BY DEF Connected
<1> HIDE DEF first
<1>3. c \in Socket /\ c.retx = NoTimer /\ c.high = first /\ c.head = first
  BY <1>1, NoTimerType DEF Socket
<1> HIDE DEF c
<1>4. /\ t \in Socket /\ t.st = "ESTABLISHED" /\ t.retx = c.retx /\ t.head = c.head
      /\ t.high = c.high
  BY <1>2, <1>3 DEF Socket, State
<1>5. ~Timed(t) /\ ~(t.head < t.high)
  BY <1>1, <1>3, <1>4 DEF Timed
<1> QED
  BY <1>4, <1>5 DEF Duty, Open, Ready

LEMMA DutySynSent ==
    ASSUME NEW s \in Socket, Duty(s), NEW m \in Packet, NEW t, t = ProcessSynSent(s, m)
    PROVE  Duty(t)
<1> DEFINE rcv == m.seq + 1
           o == [Connected(s) EXCEPT !.st = "ESTABLISHED", !.rcv = rcv]
           a == SendAck(o)
<1>1. t = SendPending(a) \/ t = CloseAndNotify(s) \/ t = s
  BY DEF ProcessSynSent
<1>2. rcv \in Nat
  BY DEF Packet
<1> HIDE DEF rcv
<1>3. o \in Socket /\ Duty(o)
  BY <1>2, OpenedTimer
<1> HIDE DEF o
<1>4. a \in Socket /\ Duty(a)
  BY <1>3, AckTimer, DutyAlike
<1> HIDE DEF a
<1> QED
  BY <1>1, <1>4, DutySendPending, ClosedDown

\* A SYN that comes again is answered again, under the timer that runs.
LEMMA DutySynRcvd ==
    ASSUME NEW s, NEW p, Pair(s, p), Settled(s, p), Told(p), s.shut, Quiet(s), s.up, s.out = <<>>,
           s.st = "SYN_RCVD", Duty(s), NEW m \in Packet, Pk(m, p, s), NEW t, t = ProcessSynRcvd(s, m)
    PROVE  Duty(t)
<1> DEFINE c == Connected(s)
           e == Opened(s)
<1>0. /\ s \in Socket /\ p \in Socket /\ Joined(s, p) /\ m.seq \in Nat /\ m.ack \in Nat
      /\ p.rcv \in Nat /\ s.rcv \in Nat
  BY DEF Pair, Joined, Socket, Packet
<1>1. s.head = 0 /\ Unconnected(s) /\ NoSyn(s.out) /\ s.rcv = 1 /\ s.nextTx = 0 /\ s.held = {} /\ s.fin = 0
  BY <1>0 DEF Joined, Own, Connection, Unconnected, NoSyn
<1>2. /\ c.st = "SYN_RCVD" /\ c.rcv = 1 /\ c.held = {} /\ c.fin = 0
      /\ c \in Socket
  <2> DEFINE first == s.nextTx + 1
  <2>1. c = [s EXCEPT !.retx = NoTimer, !.nextTx = first, !.high = first,
                      !.head = first, !.tail = first]
    BY DEF Connected
  <2>2. first \in Nat
    BY <1>1
  <2> HIDE DEF first, c
  <2> QED
    BY <1>0, <1>1, <2>1, <2>2, NoTimerType DEF Socket
<1>3. Duty(e) /\ e \in Socket
  <2>1. e = [Connected(s) EXCEPT !.st = "ESTABLISHED", !.rcv = 1] /\ 1 \in Nat
    BY DEF Opened
  <2> HIDE DEF e
  <2> QED
    BY <1>0, <2>1, OpenedTimer
<1> HIDE DEF c
<1>4. InEstablished(c) = e
  <2> DEFINE one == 1
  <2>1. e = [c EXCEPT !.st = "ESTABLISHED", !.rcv = one]
    BY DEF Opened, c
  <2>2. c.rcv = one
    BY <1>2
  <2> HIDE DEF one, e
  <2> QED
    BY <1>2, <2>1, <2>2 DEF InEstablished, Socket
<1>5. ASSUME p.rcv >= 1
      PROVE  /\ Pair(e, p) /\ Settled(e, p) /\ OneWay(e, p) /\ e.up /\ e.st = "ESTABLISHED" /\ e.rcv = 1
             /\ Pk(m, p, e) /\ e.head # 0
  <2>1. Handled(s, e, p) /\ e.st = "ESTABLISHED" /\ e.up = s.up /\ e.rcv = 1 /\ e.head = 1
    BY <1>1, <1>5, HandledOpened
  <2> HIDE DEF e
  <2>2. e \in Socket /\ Later(s, e)
    BY <2>1 DEF Handled, Moves, Pair, Joined
  <2>3. Pk(m, p, e)
    BY <1>0, <2>2, PkLater, LaterSame
  <2> QED
    BY <2>1, <2>3 DEF Handled, Moves, Keeps, OneWay
<1>6. CASE m.type = "ACK" /\ m.ack = s.nextTx + 1
  <2>1. p.rcv >= 1
    BY <1>0, <1>1, <1>6 DEF Pk
  <2>2. [Connected(s) EXCEPT !.st = "ESTABLISHED"] = e
    BY <1>4 DEF InEstablished, c
  <2>3. t = ReceivedAck(e, m)
    BY <1>6, <2>2 DEF ProcessSynRcvd
  <2> HIDE DEF e
  <2> QED
    BY <1>3, <1>5, <1>6, <2>1, <2>3, DutyReceivedAck
<1>7. CASE m.type = "SYN"
  <2>1. m.seq = 0
    BY <1>7 DEF Pk
  <2>2. [s EXCEPT !.rcv = m.seq + 1] = s
    BY <1>0, <1>1, <2>1 DEF Socket
  <2>3. t = SendEmpty(s, "SYN_ACK", {}) /\ {} \in Load /\ "SYN_ACK" \in PacketType
    BY <1>7, <2>2 DEF ProcessSynRcvd, Load, PacketType
  <2>4. t.up => t.st = "SYN_RCVD" /\ Timed(t)
    BY <1>0, <2>3, EmptyTimer
  <2> QED
    BY <2>4 DEF Duty, Open
<1>8. CASE m.type = "FIN_ACK" /\ m.seq = s.rcv
  <2>1. p.head # 0 /\ p.rcv >= 1
    BY <1>0, <1>8 DEF Pk, Joined, Own, Connection
  <2>2. t = PeerClose(c, m)
    BY <1>8 DEF ProcessSynRcvd, c
  <2> HIDE DEF e
  <2>3. Finished(FinTakenIn(e, m))
    <3>1. ~Past(e)
      BY <1>5, <2>1 DEF Past
    <3> QED
      BY <1>1, <1>5, <1>8, <2>1, <3>1, MovesFinTakenIn
  <2>4. t = PeerClose(e, m)
    BY <1>1, <1>2, <1>4, <1>8, <2>2, <2>3, PeerCloseState
  <2> QED
    BY <1>3, <1>5, <1>8, <2>1, <2>4, DutyPeerFin
<1>9. CASE m.type = "FIN_ACK" /\ m.seq # s.rcv
  <2>1. t = s
    BY <1>9 DEF ProcessSynRcvd
  <2> QED
    BY <2>1
<1>10. CASE ~(m.type = "ACK" /\ m.ack = s.nextTx + 1) /\ m.type \notin {"SYN", "FIN_ACK"}
  <2>1. t = CloseAndNotify(s) \/ t = CloseAndNotify(SendRST(s))
    BY <1>10 DEF ProcessSynRcvd
  <2> QED
    BY <1>0, <2>1, ClosedDown
<1> QED
  BY <1>6, <1>7, <1>8, <1>9, <1>10

-----------------------------------------------------------------------------
(* The timers themselves.                                                  *)

\* SendEmptyPacket of a SYN or a FIN: what it leaves is timed.
LEMMA EmptyAgain ==
    ASSUME NEW u \in Socket, NEW type \in PacketType, NEW kept \in Load,
           type \in {"SYN", "SYN_ACK", "FIN_ACK"},
           NEW t, t = SendEmpty(u, type, kept)
    PROVE  /\ SameCore(u, t) /\ (t.up => u.up)
           /\ t.up => /\ t.st = u.st /\ t.lato = u.lato /\ Timed(t)
                      /\ t.retx = u.retx \/ t.retx.kind = type
BY EmptyTimer

\* The event of a SYN or a FIN starts itself again.
LEMMA DutyResend ==
    ASSUME NEW s \in Socket, s.retx.kind \in {"SYN", "SYN_ACK", "FIN_ACK"}, Duty(s),
           NEW u \in Socket, SameCore(s, u), u.st = s.st, u.lato = s.lato, u.up = s.up,
           u.retx = NoTimer,
           NEW t, t = SendEmpty(u, s.retx.kind, s.retx.bits)
    PROVE  Duty(t)
<1>1. s.retx.kind \in PacketType /\ s.retx.bits \in Load
  BY DEF Socket, PacketType
<1>2. /\ SameCore(u, t) /\ (t.up => u.up)
      /\ t.up => /\ t.st = u.st /\ t.lato = u.lato /\ Timed(t)
                 /\ t.retx = u.retx \/ t.retx.kind = s.retx.kind
  BY <1>1, EmptyAgain
<1>3. SUFFICES ASSUME t.up PROVE Duty(t)
  BY DutyDown
<1>4. Timed(t) /\ t.retx.kind = s.retx.kind /\ Timed(s)
  BY <1>2, <1>3 DEF Timed, NoTimer
<1> QED
  BY <1>2, <1>3, <1>4 DEF Duty, Open, Ready, SameCore

\* ReTxTimeout with an empty buffer stops the timer where a FIN has one of its own, or
\* where there is nothing to wait for.
LEMMA DutyReTx ==
    ASSUME NEW s \in Socket, Own(s), s.retx = DataTimer, Duty(s),
           NEW u, u = [s EXCEPT !.retx = NoTimer],
           NEW t, \/ u.head >= u.tail /\ u.st \in {"FIN_WAIT_1", "CLOSING"}
                     /\ t = SendEmpty(u, "FIN_ACK", {})
                  \/ u.head >= u.tail /\ u.st \notin {"FIN_WAIT_1", "CLOSING"} /\ t = u
                  \/ t = Deallocate([u EXCEPT !.error = TRUE])
                  \/ u.retr # 0 /\ ~(u.head >= u.tail)
                     /\ t = SendData([u EXCEPT !.retr = @ - 1], u.head)
    PROVE  Duty(t)
<1>0. /\ s.head \in Nat /\ s.tail \in Nat /\ Timed(s) /\ s.retx.kind = "RTO"
  BY DEF Socket, Timed, NoTimer, DataTimer
<1>1. /\ u \in Socket /\ u.st = s.st /\ u.lato = s.lato /\ u.up = s.up /\ u.retx = NoTimer
      /\ u.head = s.head /\ u.tail = s.tail
  BY NoTimerType DEF Socket
<1>2. CASE u.st \in {"FIN_WAIT_1", "CLOSING"} /\ t = SendEmpty(u, "FIN_ACK", {})
  <2>1. t.up => t.st = u.st /\ Timed(t)
    BY <1>1, <1>2, EmptyTimer DEF PacketType, Load
  <2> QED
    BY <1>2, <2>1 DEF Duty, Open
<1>3. CASE u.head >= u.tail /\ u.st \notin {"FIN_WAIT_1", "CLOSING"} /\ t = u
  <2>1. ~(s.head < s.tail)
    BY <1>0, <1>1, <1>3
  <2>2. s.st \notin {"SYN_SENT", "SYN_RCVD"}
    BY <1>0 DEF Own, Unconnected, Connection
  <2>3. s.up => ~Open(s) /\ (s.st = "LAST_ACK" => s.lato)
    BY <1>0, <2>1 DEF Duty, Ready
  <2> QED
    BY <1>1, <1>3, <2>2, <2>3 DEF Duty, Open
<1>4. CASE t = Deallocate([u EXCEPT !.error = TRUE])
  <2>1. ~t.up
    BY <1>1, <1>4 DEF Deallocate, Socket
  <2> QED
    BY <2>1, DutyDown
<1>5. CASE u.retr # 0 /\ ~(u.head >= u.tail) /\ t = SendData([u EXCEPT !.retr = @ - 1], u.head)
  <2> DEFINE v == [u EXCEPT !.retr = @ - 1]
  <2>1. u.retr - 1 \in 0..DataRetries
    <3>1. u.retr \in 0..DataRetries
      BY <1>1 DEF Socket
    <3> QED
      BY <1>5, <3>1, CountAssumption
  <2>2. v \in Socket /\ v.head = u.head /\ v.tail = u.tail
    BY <1>1, <2>1 DEF Socket
  <2>3. t = SendData(v, u.head)
    BY <1>5
  <2> HIDE DEF v
  <2>4. u.head < v.tail /\ u.head \in Nat /\ v.head <= u.head
    BY <1>0, <1>1, <1>5, <2>2
  <2> QED
    BY <2>2, <2>3, <2>4, SendBusy
<1> QED
  BY <1>2, <1>3, <1>4, <1>5

\* LastAckTimeout schedules itself again until it gives up.
LEMMA DutyLastAckTimeout ==
    ASSUME NEW s \in Socket, s.lato, s.st = "LAST_ACK",
           NEW t, \/ t = Deallocate([s EXCEPT !.error = TRUE])
                  \/ s.retr # 0 /\ t = SendEmpty([s EXCEPT !.retr = @ - 1], "FIN_ACK", {})
    PROVE  Duty(t)
<1>1. CASE t = Deallocate([s EXCEPT !.error = TRUE])
  <2>1. ~t.up
    BY <1>1 DEF Deallocate, Socket
  <2> QED
    BY <2>1, DutyDown
<1>2. CASE s.retr # 0 /\ t = SendEmpty([s EXCEPT !.retr = @ - 1], "FIN_ACK", {})
  <2> DEFINE v == [s EXCEPT !.retr = @ - 1]
  <2>1. s.retr - 1 \in 0..DataRetries
    <3>1. s.retr \in 0..DataRetries
      BY DEF Socket
    <3> QED
      BY <1>2, <3>1, CountAssumption
  <2>2. v \in Socket /\ v.st = "LAST_ACK" /\ v.lato
    BY <2>1 DEF Socket
  <2>3. t = SendEmpty(v, "FIN_ACK", {})
    BY <1>2
  <2> HIDE DEF v
  <2>4. t.up => t.st = "LAST_ACK" /\ t.lato
    BY <2>2, <2>3, EmptyTimer DEF PacketType, Load
  <2> QED
    BY <2>4 DEF Duty, Open
<1> QED
  BY <1>1, <1>2

-----------------------------------------------------------------------------
(* The steps.                                                              *)

\* One socket changes and hands over what it has sent.
LEMMA DutyStep ==
    ASSUME ConnInv, ConnInv', DutyInv, NEW n \in Node, NEW t, Duty(t),
           Becomes(n, t) \/ BecomesOnReceipt(n, t)
    PROVE  DutyInv'
<1>1. sock \in [Node -> Socket] /\ sock' \in [Node -> Socket]
  BY DEF ConnInv, TypeOK
<1>2. sock' = [sock EXCEPT ![n] = Empty(t)]
  BY DEF Becomes, BecomesOnReceipt, Empty
<1>3. Empty(t) \in Socket
  BY <1>1, <1>2
<1>4. Duty(Empty(t))
  <2> DEFINE e == Empty(t)
  <2>1. e = [t EXCEPT !.out = <<>>]
    BY DEF Empty
  <2>2. /\ e.st = t.st /\ e.head = t.head /\ e.high = t.high /\ e.tail = t.tail
        /\ e.retx = t.retx /\ e.lato = t.lato /\ e.up = t.up
    BY <1>3, <2>1 DEF Socket
  <2> HIDE DEF e
  <2>3. Alike(t, e)
    BY <2>2 DEF Alike
  <2> QED
    BY <2>3, DutyAlike DEF e
<1>5. ASSUME NEW x \in Node PROVE Duty(sock'[x])
  BY <1>1, <1>2, <1>4 DEF DutyInv
<1> QED
  BY <1>5 DEF DutyInv

LEMMA DutyUnmoved ==
    ASSUME DutyInv, UNCHANGED sock
    PROVE  DutyInv'
BY DEF DutyInv

\* The load that a packet comes with stops no timer.
LEMMA DutyLaden ==
    ASSUME ConnInv, DutyInv, NEW n \in Node, NEW load \in PathLoads,
           NEW s, s = Laden(sock[n], load)
    PROVE  /\ s \in Socket /\ Duty(s) /\ s.st = sock[n].st /\ s.shut = sock[n].shut
           /\ Quiet(sock[n]) => Quiet(s)
<1>1. sock[n] \in Socket /\ Duty(sock[n]) /\ load \in Load
  BY LoadAssumption DEF ConnInv, TypeOK, DutyInv
<1>2. s = [sock[n] EXCEPT !.load = load]
  BY DEF Laden
<1>3. s \in Socket /\ Alike(sock[n], s) /\ s.shut = sock[n].shut
  BY <1>1, <1>2 DEF Socket, Alike
<1> QED
  BY <1>1, <1>3, DutyAlike DEF Alike, Quiet

LEMMA DutyDelivered ==
    ASSUME ConnInv, ConnInv', DutyInv, NEW n \in Node, Delivered(n)
    PROVE  DutyInv'
<1> DEFINE m == Head(net[n])
           p == sock[Peer(n)]
<1>1. net[n] # <<>> /\ sock[n].up
  BY DEF Delivered, ReceiveSynSent, ReceiveSynRcvd, ReceiveEstablished, ReceiveWait,
         ReceiveClosing, ReceiveLastAck, ReceiveTimeWait, ForwardUp
<1>2. CASE BecomesOnReceipt(n, SendAck(sock[n]))
  <2> DEFINE t == SendAck(sock[n])
  <2>1. sock[n] \in Socket /\ Duty(sock[n])
    BY DEF ConnInv, TypeOK, DutyInv
  <2>2. Duty(t)
    BY <2>1, AckTimer, DutyAlike
  <2>3. BecomesOnReceipt(n, t)
    BY <1>2
  <2> HIDE DEF t
  <2> QED
    BY <2>2, <2>3, DutyStep
<1> DEFINE L(load) == Laden(sock[n], load)
<1>3. ASSUME NEW load \in PathLoads
      PROVE  /\ L(load) \in Socket /\ Duty(L(load)) /\ L(load).st = sock[n].st
             /\ L(load).shut = sock[n].shut /\ (Quiet(sock[n]) => Quiet(L(load)))
             /\ Pair(L(load), p) /\ Settled(L(load), p) /\ Told(p) /\ OneWay(L(load), p)
             /\ L(load).up /\ L(load).out = <<>> /\ m \in Packet /\ Pk(m, p, L(load))
  BY <1>1, DutyLaden, LadenFirst
<1>4. \/ BecomesOnReceipt(n, SendAck(sock[n]))
      \/ sock[n].st = "SYN_SENT" /\ \E l \in PathLoads : BecomesOnReceipt(n, ProcessSynSent(L(l), m))
      \/ sock[n].st = "SYN_RCVD" /\ \E l \in PathLoads : BecomesOnReceipt(n, ProcessSynRcvd(L(l), m))
      \/ sock[n].st = "ESTABLISHED"
         /\ \E l \in PathLoads : BecomesOnReceipt(n, ProcessEstablished(L(l), m))
      \/ sock[n].st \in {"CLOSE_WAIT", "FIN_WAIT_1", "FIN_WAIT_2"}
         /\ \E l \in PathLoads : BecomesOnReceipt(n, ProcessWait(L(l), m))
      \/ sock[n].st = "CLOSING" /\ \E l \in PathLoads : BecomesOnReceipt(n, ProcessClosing(L(l), m))
      \/ sock[n].st = "LAST_ACK" /\ \E l \in PathLoads : BecomesOnReceipt(n, ProcessLastAck(L(l), m))
      \/ sock[n].st = "TIME_WAIT" /\ \E l \in PathLoads : BecomesOnReceipt(n, L(l))
  BY DEF Delivered, ReceiveSynSent, ReceiveSynRcvd, ReceiveEstablished, ReceiveWait,
         ReceiveClosing, ReceiveLastAck, ReceiveTimeWait, ForwardUp, Ignore, Laden
<1>5. sock[n].st = "SYN_RCVD" => sock[n].shut /\ Quiet(sock[n])
  <2>1. SUFFICES ASSUME sock[n].st = "SYN_RCVD" PROVE sock[n].shut /\ Quiet(sock[n])
    OBVIOUS
  <2>2. n = Server
    BY <2>1 DEF ConnInv, Sides, Node
  <2> QED
    BY <1>1, <2>2, ShutQuiet
<1> HIDE DEF L, m, p
<1>6. ASSUME NEW l \in PathLoads, sock[n].st = "SYN_SENT", BecomesOnReceipt(n, ProcessSynSent(L(l), m))
      PROVE  DutyInv'
  BY <1>3, <1>6, DutySynSent, DutyStep
<1>7. ASSUME NEW l \in PathLoads, sock[n].st = "SYN_RCVD", BecomesOnReceipt(n, ProcessSynRcvd(L(l), m))
      PROVE  DutyInv'
  BY <1>3, <1>5, <1>7, DutySynRcvd, DutyStep
<1>8. ASSUME NEW l \in PathLoads, sock[n].st = "ESTABLISHED",
             BecomesOnReceipt(n, ProcessEstablished(L(l), m))
      PROVE  DutyInv'
  BY <1>3, <1>8, DutyEstablished, DutyStep
<1>9. ASSUME NEW l \in PathLoads, sock[n].st \in {"CLOSE_WAIT", "FIN_WAIT_1", "FIN_WAIT_2"},
             BecomesOnReceipt(n, ProcessWait(L(l), m))
      PROVE  DutyInv'
  BY <1>3, <1>9, DutyWait, DutyStep
<1>10. ASSUME NEW l \in PathLoads, sock[n].st = "CLOSING", BecomesOnReceipt(n, ProcessClosing(L(l), m))
       PROVE  DutyInv'
  BY <1>3, <1>10, DutyClosing, DutyStep
<1>11. ASSUME NEW l \in PathLoads, sock[n].st = "LAST_ACK", BecomesOnReceipt(n, ProcessLastAck(L(l), m))
       PROVE  DutyInv'
  BY <1>3, <1>11, DutyLastAck, DutyStep
<1>12. ASSUME NEW l \in PathLoads, sock[n].st = "TIME_WAIT", BecomesOnReceipt(n, L(l))
       PROVE  DutyInv'
  BY <1>3, <1>12, DutyStep
<1> QED
  BY <1>2, <1>4, <1>6, <1>7, <1>8, <1>9, <1>10, <1>11, <1>12

\* Packets that find no endpoint of their own: a reset, or a new socket for a SYN.
LEMMA DutyNoEndPoint ==
    ASSUME ConnInv, ConnInv', DutyInv, NEW n \in Node,
           NoEndPointsFound(n) \/ (n = Server /\ ProcessListen)
    PROVE  DutyInv'
<1>1. sock[n] \in Socket /\ ~sock[n].up /\ Duty(sock[n]) /\ net[n] # <<>>
  BY DEF ConnInv, TypeOK, DutyInv, NoEndPointsFound, ProcessListen
<1>2. CASE NoEndPointsFound(n)
  <2>1. PICK x : BecomesOnReceipt(n, [sock[n] EXCEPT !.out = x])
    BY <1>2 DEF NoEndPointsFound
  <2> DEFINE t == [sock[n] EXCEPT !.out = x]
  <2>2. ~t.up /\ BecomesOnReceipt(n, t)
    BY <1>1, <2>1 DEF Socket
  <2> HIDE DEF t
  <2> QED
    BY <2>2, DutyDown, DutyStep
<1>3. CASE n = Server /\ ProcessListen
  <2> DEFINE m == Head(net[Server])
             rcv == m.seq + 1
             fork == [NewSocket EXCEPT !.st = "SYN_RCVD", !.up = TRUE, !.rcv = rcv,
                                       !.shut = TRUE, !.coe = TRUE]
             t == SendEmpty(fork, "SYN_ACK", {})
  <2>1. BecomesOnReceipt(n, t) \/ BecomesOnReceipt(n, sock[n])
    BY <1>3 DEF ProcessListen
  <2>2. m \in Packet
    BY <1>1, <1>3, Taken
  <2>3. rcv \in Nat
    BY <2>2 DEF Packet
  <2> HIDE DEF rcv
  <2>4. fork \in Socket /\ fork.st = "SYN_RCVD"
    BY <2>3, NewSocketType DEF Socket, State
  <2> HIDE DEF fork
  <2>5. t.up => t.st = "SYN_RCVD" /\ Timed(t)
    BY <2>4, EmptyTimer DEF PacketType, Load
  <2>6. Duty(t)
    BY <2>5 DEF Duty, Open
  <2> HIDE DEF t
  <2> QED
    BY <1>1, <2>1, <2>6, DutyStep
<1> QED
  BY <1>2, <1>3

\* What the applications do.
LEMMA DutyApp ==
    ASSUME ConnInv, ConnInv', DutyInv,
           Connect \/ AppSend \/ SendPendingData \/ \E n \in Node : AppClose(n)
    PROVE  DutyInv'
<1>0. Client \in Node /\ \A n \in Node : sock[n] \in Socket /\ Duty(sock[n])
  BY DEF ConnInv, TypeOK, DutyInv, Node
<1>1. CASE Connect
  <2> DEFINE fresh == [NewSocket EXCEPT !.up = TRUE]
             w == SendEmpty(fresh, "SYN", {})
             t == [w EXCEPT !.st = "SYN_SENT"]
  <2>1. Becomes(Client, t)
    BY <1>1 DEF Connect
  <2>2. fresh \in Socket
    BY NewSocketType DEF Socket
  <2> HIDE DEF fresh
  <2>3. w \in Socket /\ (w.up => Timed(w))
    BY <2>2, EmptyTimer DEF PacketType, Load
  <2> HIDE DEF w
  <2>4. t.st = "SYN_SENT" /\ t.up = w.up /\ t.retx = w.retx
    BY <2>3 DEF Socket
  <2> HIDE DEF t
  <2>5. Duty(t)
    BY <2>3, <2>4 DEF Duty, Open, Timed
  <2> QED
    BY <1>0, <2>1, <2>5, DutyStep
<1>2. CASE AppSend
  <2> DEFINE s == sock[Client]
             tail == s.tail + 1
             t == [s EXCEPT !.tail = tail]
  <2>1. Open(s) /\ sock' = [sock EXCEPT ![Client] = t]
    BY <1>2 DEF AppSend, Open
  <2>2. s \in Socket /\ Duty(s) /\ s.head \in Nat /\ s.tail \in Nat /\ tail > s.tail /\ tail \in Nat
    BY <1>0 DEF Socket
  <2> HIDE DEF s, tail
  <2>3. /\ t.st = s.st /\ t.head = s.head /\ t.high = s.high /\ t.tail = tail
        /\ t.retx = s.retx /\ t.up = s.up
    BY <2>2 DEF Socket
  <2>4. Timed(t) => Timed(s)
    BY <2>3 DEF Timed
  <2>5. s.head < s.tail => t.head < t.tail
    BY <2>2, <2>3
  <2>6. Duty(t)
    BY <2>1, <2>2, <2>3, <2>4, <2>5 DEF Duty, Open, Ready, Timed
  <2> HIDE DEF t
  <2>7. \A n \in Node : sock'[n] = IF n = Client THEN t ELSE sock[n]
    BY <1>0, <2>1 DEF ConnInv, TypeOK
  <2> QED
    BY <1>0, <2>6, <2>7 DEF DutyInv
<1>3. CASE SendPendingData
  <2> DEFINE t == SendPending(sock[Client])
  <2>1. Becomes(Client, t) /\ Duty(t)
    BY <1>0, <1>3, DutySendPending DEF SendPendingData
  <2> HIDE DEF t
  <2> QED
    BY <1>0, <2>1, DutyStep
<1>4. ASSUME NEW n \in Node, AppClose(n) PROVE DutyInv'
  <2> DEFINE t == Close(sock[n])
  <2>1. UNCHANGED sock \/ Becomes(n, t)
    BY <1>4 DEF AppClose
  <2>2. Duty(t)
    BY <1>0, DutyClose
  <2> HIDE DEF t
  <2> QED
    BY <2>1, <2>2, DutyStep, DutyUnmoved
<1> QED
  BY <1>1, <1>2, <1>3, <1>4

LEMMA DutyTimeout ==
    ASSUME ConnInv, ConnInv', DutyInv, NEW n \in Node, Timeout(n)
    PROVE  DutyInv'
<1> DEFINE s == sock[n]
           u == [s EXCEPT !.retx = NoTimer]
<1>0. s \in Socket /\ Own(s) /\ Duty(s)
  BY DEF ConnInv, NodeInv, TypeOK, DutyInv
<1>1. CASE ResendEmpty(n)
  <2> DEFINE t == SendEmpty(u, s.retx.kind, s.retx.bits)
  <2>1. s.retx.kind \in {"SYN", "SYN_ACK", "FIN_ACK"} /\ Becomes(n, t)
    BY <1>1 DEF ResendEmpty, Expires
  <2>2. /\ u \in Socket /\ SameCore(s, u) /\ u.st = s.st /\ u.lato = s.lato /\ u.up = s.up
        /\ u.retx = NoTimer
    BY <1>0, NoTimerType DEF Socket, SameCore
  <2>3. Duty(t)
    <3> HIDE DEF u, s
    <3> QED
      BY <1>0, <2>1, <2>2, DutyResend
  <2> HIDE DEF t
  <2> QED
    BY <2>1, <2>3, DutyStep
<1>2. CASE ReTxTimeout(n)
  <2> DEFINE empty == u.head >= u.tail
             t == CASE empty /\ u.st \in {"FIN_WAIT_1", "CLOSING"} -> SendEmpty(u, "FIN_ACK", {})
                    [] empty /\ u.st \notin {"FIN_WAIT_1", "CLOSING"} -> u
                    [] ~empty /\ u.retr = 0 -> Deallocate([u EXCEPT !.error = TRUE])
                    [] OTHER -> SendData([u EXCEPT !.retr = @ - 1], u.head)
  <2>1. s.retx = DataTimer /\ Becomes(n, t)
    BY <1>2 DEF ReTxTimeout, Expires
  <2>2. u = [s EXCEPT !.retx = NoTimer]
    OBVIOUS
  <2> HIDE DEF u
  <2>3. \/ u.head >= u.tail /\ u.st \in {"FIN_WAIT_1", "CLOSING"} /\ t = SendEmpty(u, "FIN_ACK", {})
        \/ u.head >= u.tail /\ u.st \notin {"FIN_WAIT_1", "CLOSING"} /\ t = u
        \/ t = Deallocate([u EXCEPT !.error = TRUE])
        \/ u.retr # 0 /\ ~(u.head >= u.tail) /\ t = SendData([u EXCEPT !.retr = @ - 1], u.head)
    OBVIOUS
  <2> HIDE DEF t, s
  <2>4. Duty(t)
    BY <1>0, <2>1, <2>2, <2>3, DutyReTx
  <2> QED
    BY <2>1, <2>4, DutyStep
<1>3. CASE LastAckTimeout(n)
  <2> DEFINE t == IF s.retr = 0 THEN Deallocate([s EXCEPT !.error = TRUE])
                  ELSE SendEmpty([s EXCEPT !.retr = @ - 1], "FIN_ACK", {})
  <2>1. s.lato /\ s.st = "LAST_ACK" /\ Becomes(n, t)
    BY <1>3 DEF LastAckTimeout, Expires
  <2>2. \/ t = Deallocate([s EXCEPT !.error = TRUE])
        \/ s.retr # 0 /\ t = SendEmpty([s EXCEPT !.retr = @ - 1], "FIN_ACK", {})
    OBVIOUS
  <2> HIDE DEF t
  <2>3. Duty(t)
    BY <1>0, <2>1, <2>2, DutyLastAckTimeout
  <2> QED
    BY <2>1, <2>3, DutyStep
<1>4. CASE TimeWaitTimeout(n)
  <2> DEFINE t == CloseAndNotify(s)
  <2>1. Becomes(n, t) /\ Duty(t)
    BY <1>0, <1>4, ClosedDown DEF TimeWaitTimeout
  <2> HIDE DEF t
  <2> QED
    BY <2>1, DutyStep
<1> QED
  BY <1>1, <1>2, <1>3, <1>4 DEF Timeout

LEMMA DutyNext ==
    ASSUME ConnInv, ConnInv', DutyInv, [Next]_vars
    PROVE  DutyInv'
<1>1. ASSUME NEW n \in Node, Receive(n) PROVE DutyInv'
  <2>1. ProcessListen => DutyInv'
    BY DutyNoEndPoint DEF Node
  <2> QED
    BY <1>1, <2>1, DutyDelivered, DutyNoEndPoint DEF Receive, Delivered
<1>2. ASSUME NEW n \in Node, LosePacket(n) PROVE DutyInv'
  BY <1>2, DutyUnmoved DEF LosePacket
<1>3. CASE UNCHANGED vars
  BY <1>3, DutyUnmoved DEF vars
<1> QED
  BY <1>1, <1>2, <1>3, DutyApp, DutyTimeout DEF Next

\* In SYN_SENT, SYN_RCVD, FIN_WAIT_1, CLOSING and LAST_ACK, and while data is outstanding,
\* a live socket has a timer; with an empty buffer the one of LAST_ACK sends the FIN again.
UnderTimer(s) ==
    s.up =>
        /\ s.st \in {"SYN_SENT", "SYN_RCVD", "FIN_WAIT_1", "CLOSING"} => Timed(s)
        /\ s.st = "LAST_ACK" => s.lato \/ (Timed(s) /\ (s.retx = DataTimer => s.head < s.tail))
        /\ Open(s) /\ s.head < s.high => Timed(s)

NobodyForgotten == \A n \in Node : UnderTimer(sock[n])

\* Whatever is lost, however early timers expire and whatever the loads of the path are,
\* no socket waits for an answer of its peer (DoConnect, DoClose, SendDataPacket,
\* DoPeerClose) without an event that sends again or gives up.  Of the states of a socket
\* that was closed only FIN_WAIT_2 waits for the peer without one.
THEOREM EveryWaitIsTimed == Spec => []NobodyForgotten
<1>1. Init => DutyInv
  <2> SUFFICES ASSUME Init, NEW n \in Node PROVE Duty(sock[n])
    BY DEF DutyInv
  <2>1. sock[n] = NewSocket
    BY DEF Init
  <2> QED
    BY <2>1, NewSocketFields DEF Duty
<1>2. ConnInv /\ ConnInv' /\ DutyInv /\ [Next]_vars => DutyInv'
  BY DutyNext
<1>3. DutyInv => NobodyForgotten
  <2> SUFFICES ASSUME NEW s, Duty(s) PROVE UnderTimer(s)
    BY DEF DutyInv, NobodyForgotten
  <2> QED
    BY DEF Duty, Ready, UnderTimer, DataTimer
<1> QED
  BY <1>1, <1>2, <1>3, ConnectionInvariant, PTL DEF Spec
=============================================================================
