------------------------- MODULE TcpRecovery_proofs -------------------------
(***************************************************************************)
(* Proofs about TcpRecovery for any amount of data, windows, thresholds    *)
(* and numbers of losses.  The socket is a record that the helpers pass    *)
(* on, so the lemmas first say which of its fields each helper may touch.  *)
(* The second part is about rounds: those of congestion begin and end at   *)
(* m_recover, duplicate ACKs are counted from zero in each, and, if the    *)
(* controller keeps windows of at least one segment, the retransmission    *)
(* timer runs whenever data is outstanding; the scoreboard stays           *)
(* consistent; and the state keeps its types.                              *)
(***************************************************************************)
EXTENDS TcpRecovery, FiniteSetTheorems, SequenceTheorems, WellFoundedInduction, TLAPS

-----------------------------------------------------------------------------
(* Types of the fields that the theorems depend on.                        *)

Fields == {"head", "high", "recover", "cWnd", "frac", "ssThresh", "cong",
           "lost", "sacked", "retrans"}

Typed(s) ==
    /\ Fields \subseteq DOMAIN s
    /\ s.head \in Int /\ s.high \in Int /\ s.recover \in Int
    /\ s.cWnd \in Int /\ s.frac \in Int /\ s.ssThresh \in Int
    /\ IsFiniteSet(s.lost) /\ IsFiniteSet(s.sacked) /\ IsFiniteSet(s.retrans)

\* t is s with other marks, windows or timers.
SameRound(s, t) ==
    t.head = s.head /\ t.high = s.high /\ t.cong = s.cong /\ t.recover = s.recover

-----------------------------------------------------------------------------
(* TcpTxBuffer: the scoreboard functions mark segments and move nothing.   *)

LEMMA MarkHead ==
    ASSUME NEW s, Typed(s)
    PROVE  Typed(MarkHeadAsLost(s)) /\ SameRound(s, MarkHeadAsLost(s))
<1>1. /\ IsFiniteSet(s.lost \cup {s.head}) /\ IsFiniteSet(s.sacked \ {s.head})
      /\ IsFiniteSet(s.retrans \ {s.head})
  BY FS_AddElement, FS_RemoveElement DEF Typed
<1> QED
  BY <1>1, Zenon DEF MarkHeadAsLost, Typed, SameRound, Fields

LEMMA RenoSack ==
    ASSUME NEW s, Typed(s)
    PROVE  Typed(AddRenoSack(s)) /\ SameRound(s, AddRenoSack(s))
<1> DEFINE free == {q \in Sent(s) : q > s.head} \ s.sacked
<1>1. IsFiniteSet(s.sacked \cup {Least(free)})
  BY FS_AddElement DEF Typed
<1> QED
  BY <1>1, Zenon DEF AddRenoSack, Typed, SameRound, Fields

LEMMA ListLost ==
    ASSUME NEW s, Typed(s)
    PROVE  Typed(SetSentListLost(s)) /\ SameRound(s, SetSentListLost(s))
<1>1. IsFiniteSet(Sent(s))
  <2>1. s.high - 1 \in Int /\ s.head \in Int
    BY DEF Typed
  <2> QED
    BY <2>1, FS_Interval, Zenon DEF Sent
<1>2. IsFiniteSet({})
  BY FS_EmptySet
<1> QED
  BY <1>1, <1>2, Zenon DEF SetSentListLost, Typed, SameRound, Fields

LEMMA Discarded ==
    ASSUME NEW s, Typed(s), NEW ack \in Int
    PROVE  LET d == DiscardUpTo(s, ack)
           IN /\ Typed(d)
              /\ d.high = s.high /\ d.cong = s.cong /\ d.recover = s.recover
              /\ d.head = IF ack > s.head THEN ack ELSE s.head
<1> DEFINE left == [s EXCEPT !.head = ack,
                             !.lost = {q \in @ : q >= ack},
                             !.sacked = {q \in @ : q >= ack},
                             !.retrans = {q \in @ : q >= ack}]
           rest == [left EXCEPT !.sacked = @ \ {ack}]
<1>1. /\ IsFiniteSet({q \in s.lost : q >= ack})
      /\ IsFiniteSet({q \in s.sacked : q >= ack})
      /\ IsFiniteSet({q \in s.retrans : q >= ack})
  <2> DEFINE after(S) == {q \in S : q >= ack}
  <2>1. /\ after(s.lost) \in SUBSET s.lost /\ after(s.sacked) \in SUBSET s.sacked
        /\ after(s.retrans) \in SUBSET s.retrans
    OBVIOUS
  <2> QED
    BY <2>1, FS_Subset DEF Typed
<1>2. /\ Typed(left) /\ left.head = ack
      /\ left.high = s.high /\ left.cong = s.cong /\ left.recover = s.recover
  BY <1>1, Zenon DEF Typed, Fields
<1>3. IsFiniteSet(left.sacked \ {ack})
  BY <1>2, FS_RemoveElement DEF Typed
<1>4. Typed(rest) /\ SameRound(left, rest)
  <2> HIDE DEF left
  <2> QED
    BY <1>2, <1>3, Zenon DEF Typed, SameRound, Fields
<1>5. Typed(AddRenoSack(rest)) /\ SameRound(rest, AddRenoSack(rest))
  <2> HIDE DEF rest
  <2> QED
    BY <1>4, RenoSack
<1>6. /\ Typed(MarkHeadAsLost(AddRenoSack(rest)))
      /\ SameRound(AddRenoSack(rest), MarkHeadAsLost(AddRenoSack(rest)))
  <2> HIDE DEF rest
  <2> QED
    BY <1>5, MarkHead
<1>7. \/ ack <= s.head /\ ~(ack > s.head) /\ DiscardUpTo(s, ack) = s
      \/ ack > s.head /\ DiscardUpTo(s, ack) = left
      \/ ack > s.head /\ DiscardUpTo(s, ack) = MarkHeadAsLost(AddRenoSack(rest))
  <2>1. s.head \in Int
    BY DEF Typed
  <2>2. (ack <= s.head /\ ~(ack > s.head)) \/ (~(ack <= s.head) /\ ack > s.head)
    <3> HIDE DEF left, rest
    <3> QED
      BY <2>1
  <2>3. DiscardUpTo(s, ack) = IF ack <= s.head THEN s
                             ELSE IF ack \in left.sacked
                             THEN MarkHeadAsLost(AddRenoSack(rest))
                             ELSE left
    BY Zenon DEF DiscardUpTo
  <2> HIDE DEF left, rest
  <2> QED
    BY <2>2, <2>3, Zenon
<1> HIDE DEF left, rest
<1> QED
  BY <1>2, <1>4, <1>5, <1>6, <1>7, Zenon DEF SameRound

-----------------------------------------------------------------------------
(* TcpSocketBase: what sends, and what enters a state of congestion.       *)

\* Segments are sent again in place.
LEMMA Resent ==
    ASSUME NEW s, Typed(s), NEW q
    PROVE  Typed(Resend(s, q)) /\ SameRound(s, Resend(s, q))
<1>1. IsFiniteSet(s.retrans \cup {q})
  BY FS_AddElement DEF Typed
<1> QED
  BY <1>1, Zenon DEF Resend, Typed, SameRound, Fields

\* Outstanding data is a finite number of segments, counted in units of the window.
LEMMA InFlightType ==
    ASSUME NEW s, Typed(s)
    PROVE  InFlight(s) \in Int
<1>1. /\ Cardinality(s.lost) \in Nat /\ Cardinality(s.sacked) \in Nat
      /\ Cardinality(s.retrans) \in Nat
  BY FS_CardinalityType DEF Typed
<1> QED
  BY <1>1, CountAssumption DEF InFlight, Typed

\* SendPendingData moves the end of the sent list only.
LEMMA Sends ==
    ASSUME NEW s, Typed(s)
    PROVE  LET t == SendPendingData(s)
           IN /\ Typed(t)
              /\ t.head = s.head /\ t.cong = s.cong /\ t.recover = s.recover
<1> DEFINE again == s.lost \ (s.retrans \cup s.sacked)
           room == IF s.cWnd >= InFlight(s) THEN (s.cWnd - InFlight(s)) \div Seg ELSE 0
           resent == {q \in again : Cardinality({p \in again : p < q}) < room}
           fresh == Smaller(room - Cardinality(resent), Data - s.high)
           t == [s EXCEPT !.retrans = @ \cup resent, !.high = @ + fresh,
                          !.out = @ \o InOrder(resent) \o [i \in 1..fresh |-> s.high + i - 1],
                          !.rto = TRUE]
<1>1. IsFiniteSet(again)
  BY FS_Difference, Zenon DEF Typed
<1>2. IsFiniteSet(resent) /\ Cardinality(resent) \in Nat
  <2>1. resent \in SUBSET again
    BY Zenon
  <2> QED
    BY <1>1, <2>1, FS_Subset, FS_CardinalityType
<1>3. room \in Int
  <2>1. InFlight(s) \in Int /\ s.cWnd \in Int
    BY InFlightType DEF Typed
  <2> QED
    BY <2>1, CountAssumption
<1>4. s.high + fresh \in Int
  <2> HIDE DEF room, resent
  <2>1. room - Cardinality(resent) \in Int /\ Data - s.high \in Int
    BY <1>2, <1>3, CountAssumption DEF Typed
  <2> QED
    BY <2>1 DEF Smaller, Typed
<1>5. IsFiniteSet(s.retrans \cup resent)
  BY <1>2, FS_Union, Zenon DEF Typed
<1>6. Typed(t) /\ t.head = s.head /\ t.cong = s.cong /\ t.recover = s.recover
  <2> HIDE DEF resent, fresh
  <2> QED
    BY <1>4, <1>5, Zenon DEF Typed, Fields
<1>7. SendPendingData(s) \in {s, t}
  <2>1. SendPendingData(s) = IF s.head = Data \/ room = 0 \/ (resent = {} /\ fresh = 0)
                             THEN s ELSE t
    BY Zenon DEF SendPendingData
  <2> HIDE DEF room, resent, fresh, t
  <2> QED
    BY <2>1, Zenon
<1> HIDE DEF t
<1> QED
  BY <1>6, <1>7, Zenon

\* The controller sets windows.
LEMMA Controls ==
    ASSUME NEW s, Typed(s), NEW t \in CongControl(s)
    PROVE  Typed(t) /\ SameRound(s, t)
<1>1. Indeterminate \in Int /\ \A w \in Windows : w \in Int
  BY WindowAssumption DEF Indeterminate
<1>2. CASE t = [s EXCEPT !.frac = IF @ = Indeterminate THEN s.cWnd ELSE @]
  BY <1>2, Zenon DEF Typed, SameRound, Fields
<1>3. CASE \E w \in Windows : t = [s EXCEPT !.frac = w, !.cWnd = w]
  BY <1>1, <1>3, Zenon DEF Typed, SameRound, Fields
<1> QED
  BY <1>2, <1>3, Zenon DEF CongControl

-----------------------------------------------------------------------------
(* TcpSocketBase: what an acknowledgment does.                             *)

\* Outside of congestion the last round is over.
RoundOver(s) ==
    /\ s.cong \in CongState
    /\ s.cong \in {"OPEN", "DISORDER"} => s.head >= s.recover

LEMMA Recovers ==
    ASSUME NEW s, Typed(s)
    PROVE  LET t == EnterRecovery(s)
           IN Typed(t) /\ t.head = s.head /\ t.cong = "RECOVERY"
<1> DEFINE marked == MarkHeadAsLost(AddRenoSack(s))
           entered == [marked EXCEPT !.recover = s.high, !.active = TRUE,
                                     !.cong = "RECOVERY", !.ssThresh = s.frac]
<1>1. Typed(AddRenoSack(s)) /\ SameRound(s, AddRenoSack(s))
  BY RenoSack
<1>2. Typed(marked) /\ marked.head = s.head
  BY <1>1, MarkHead, Zenon DEF SameRound
<1>3. Typed(entered) /\ entered.head = s.head /\ entered.cong = "RECOVERY"
  <2>1. s.high \in Int /\ s.frac \in Int
    BY DEF Typed
  <2> HIDE DEF marked
  <2> QED
    BY <1>2, <2>1, Zenon DEF Typed, Fields
<1>4. Typed(Resend(entered, s.head)) /\ SameRound(entered, Resend(entered, s.head))
  <2> HIDE DEF entered
  <2> QED
    BY <1>3, Resent
<1>5. EnterRecovery(s) = Resend(entered, s.head)
  BY Zenon DEF EnterRecovery
<1> HIDE DEF entered
<1> QED
  BY <1>3, <1>4, <1>5, Zenon DEF SameRound

\* A duplicate ACK starts recovery only in CA_OPEN and CA_DISORDER.
LEMMA Duplicate ==
    ASSUME NEW s, Typed(s), RoundOver(s)
    PROVE  LET t == DupAck(s)
           IN /\ Typed(t) /\ RoundOver(t) /\ t.head = s.head
              /\ t.cong = "RECOVERY" => s.cong = "RECOVERY" \/ s.head >= s.recover
<1> DEFINE counted == [s EXCEPT !.dup = @ + 1,
                                !.cong = IF @ = "OPEN" THEN "DISORDER" ELSE @]
<1>1. /\ Typed(counted) /\ counted.head = s.head /\ counted.recover = s.recover
      /\ counted.cong = IF s.cong = "OPEN" THEN "DISORDER" ELSE s.cong
  BY Zenon DEF Typed, Fields
<1>2. Typed(AddRenoSack(s)) /\ SameRound(s, AddRenoSack(s))
  BY RenoSack
<1>3. Typed(AddRenoSack(counted)) /\ SameRound(counted, AddRenoSack(counted))
  <2> HIDE DEF counted
  <2> QED
    BY <1>1, RenoSack
<1>4. /\ Typed(EnterRecovery(counted)) /\ EnterRecovery(counted).head = s.head
      /\ EnterRecovery(counted).cong = "RECOVERY"
  <2> HIDE DEF counted
  <2> QED
    BY <1>1, Recovers, Zenon
<1>5. \/ DupAck(s) = s /\ s.cong = "LOSS"
      \/ DupAck(s) = AddRenoSack(s)
      \/ DupAck(s) = counted
      \/ DupAck(s) = EnterRecovery(counted) /\ s.cong \in {"OPEN", "DISORDER"}
      \/ DupAck(s) = AddRenoSack(counted)
  BY Zenon DEF DupAck
<1> HIDE DEF counted
<1>6. CASE DupAck(s) = s /\ s.cong = "LOSS"
  BY <1>6, Zenon
<1>7. CASE DupAck(s) = AddRenoSack(s)
  BY <1>2, <1>7, Zenon DEF SameRound, RoundOver, CongState
<1>8. CASE DupAck(s) = counted
  BY <1>1, <1>8, Zenon DEF RoundOver, CongState
<1>9. CASE DupAck(s) = EnterRecovery(counted) /\ s.cong \in {"OPEN", "DISORDER"}
  BY <1>4, <1>9, Zenon DEF RoundOver, CongState
<1>10. CASE DupAck(s) = AddRenoSack(counted)
  BY <1>1, <1>3, <1>10, Zenon DEF SameRound, RoundOver, CongState
<1> QED
  BY <1>5, <1>6, <1>7, <1>8, <1>9, <1>10, Zenon

LEMMA Restarts ==
    ASSUME NEW s, Typed(s), NEW resetRTO
    PROVE  Typed(NewAck(s, resetRTO)) /\ SameRound(s, NewAck(s, resetRTO))
BY Zenon DEF NewAck, Typed, SameRound, Fields

LEMMA Partial ==
    ASSUME NEW s, Typed(s)
    PROVE  Typed(PartialAck(s)) /\ SameRound(s, PartialAck(s))
<1> DEFINE sent == Resend(MarkHeadAsLost(s), s.head)
           acked == NewAck(sent, s.first)
<1>1. Typed(MarkHeadAsLost(s)) /\ SameRound(s, MarkHeadAsLost(s))
  BY MarkHead
<1>2. Typed(sent) /\ SameRound(s, sent)
  BY <1>1, Resent, Zenon DEF SameRound
<1>3. Typed(acked) /\ SameRound(s, acked)
  <2> HIDE DEF sent
  <2> QED
    BY <1>2, Restarts, Zenon DEF SameRound
<1>4. PartialAck(s) = [acked EXCEPT !.first = FALSE]
  BY Zenon DEF PartialAck
<1> HIDE DEF acked
<1> QED
  BY <1>3, <1>4, Zenon DEF Typed, SameRound, Fields

LEMMA Full ==
    ASSUME NEW s, Typed(s)
    PROVE  LET t == FullAck(s)
           IN Typed(t) /\ t.head = s.head /\ t.cong = "OPEN" /\ t.recover = s.recover
<1> DEFINE ended == [s EXCEPT !.first = @ \/ s.cong \in {"RECOVERY", "LOSS"},
                              !.cong = "OPEN",
                              !.active = @ /\ s.head < s.recover]
           left == IF s.cong = "RECOVERY" THEN [ended EXCEPT !.cWnd = s.ssThresh] ELSE ended
<1>1. /\ Typed(ended) /\ ended.head = s.head /\ ended.cong = "OPEN"
      /\ ended.recover = s.recover
  BY Zenon DEF Typed, Fields
<1>2. Typed(left) /\ left.head = s.head /\ left.cong = "OPEN" /\ left.recover = s.recover
  <2>1. s.ssThresh \in Int
    BY DEF Typed
  <2> HIDE DEF ended
  <2> QED
    BY <1>1, <2>1, Zenon DEF Typed, Fields
<1>3. Typed(NewAck(left, TRUE)) /\ SameRound(left, NewAck(left, TRUE))
  <2> HIDE DEF left
  <2> QED
    BY <1>2, Restarts
<1>4. FullAck(s) = NewAck(left, TRUE)
  BY Zenon DEF FullAck
<1> HIDE DEF left
<1> QED
  BY <1>2, <1>3, <1>4, Zenon DEF SameRound

\* Recovery is entered by a duplicate ACK, once the last round is over.
LEMMA Processed ==
    ASSUME NEW s, Typed(s), RoundOver(s), NEW isNew \in BOOLEAN
    PROVE  LET t == ProcessAck(s, isNew)
           IN /\ Typed(t) /\ RoundOver(t) /\ t.head = s.head
              /\ t.cong = "RECOVERY" =>
                     s.cong = "RECOVERY" \/ (~isNew /\ s.head >= s.recover)
<1> DEFINE counted == [s EXCEPT !.dup = 0]
<1>1. Typed(counted) /\ SameRound(s, counted)
  BY Zenon DEF Typed, SameRound, Fields
<1> HIDE DEF counted
<1>2. /\ Typed(PartialAck(counted)) /\ SameRound(s, PartialAck(counted))
      /\ Typed(NewAck(counted, TRUE)) /\ SameRound(s, NewAck(counted, TRUE))
  BY <1>1, Partial, Restarts, Zenon DEF SameRound
<1>3. LET t == FullAck(counted)
      IN Typed(t) /\ t.head = s.head /\ t.cong = "OPEN" /\ t.recover = s.recover
  BY <1>1, Full, Zenon DEF SameRound
<1>4. s.head \in Int /\ s.high \in Int /\ s.recover \in Int
  BY DEF Typed
<1>5. /\ s.head < s.high \/ s.head >= s.high
      /\ s.head < s.recover \/ s.head >= s.recover
  BY <1>4
<1>6. \/ ProcessAck(s, isNew) = DupAck(s) /\ ~isNew
      \/ ProcessAck(s, isNew) = s
      \/ ProcessAck(s, isNew) = PartialAck(counted) /\ s.cong = "RECOVERY"
      \/ ProcessAck(s, isNew) = NewAck(counted, TRUE) /\ s.cong \in {"LOSS", "CWR"}
      \/ /\ ProcessAck(s, isNew) = FullAck(counted)
         /\ s.cong \in {"RECOVERY", "LOSS"} => s.head >= s.recover
         /\ s.cong # "CWR"
  <2>1. ProcessAck(s, isNew) =
           CASE ~isNew /\ s.head < s.high -> DupAck(s)
             [] ~isNew /\ s.head >= s.high -> s
             [] isNew /\ s.cong = "RECOVERY" /\ s.head < s.recover -> PartialAck(counted)
             [] isNew /\ s.cong = "LOSS" /\ s.head < s.recover -> NewAck(counted, TRUE)
             [] isNew /\ s.cong = "CWR" -> NewAck(counted, TRUE)
             [] OTHER -> FullAck(counted)
    BY Zenon DEF ProcessAck, counted
  <2>2. CASE ~isNew
    BY <1>5, <2>1, <2>2, Zenon
  <2>3. CASE isNew
    <3>1. CASE s.cong = "CWR"
      BY <2>1, <2>3, <3>1, Zenon
    <3>2. CASE s.cong = "RECOVERY" /\ s.head < s.recover
      BY <2>1, <2>3, <3>2, Zenon
    <3>3. CASE s.cong = "LOSS" /\ s.head < s.recover
      BY <2>1, <2>3, <3>3, Zenon
    <3>4. CASE /\ s.cong # "CWR"
               /\ s.cong \in {"RECOVERY", "LOSS"} => ~(s.head < s.recover)
      BY <1>5, <2>1, <2>3, <3>4, Zenon
    <3> QED
      BY <3>1, <3>2, <3>3, <3>4, Zenon
  <2> QED
    BY <2>2, <2>3, Zenon
<1>7. CASE ProcessAck(s, isNew) = DupAck(s) /\ ~isNew
  BY <1>7, Duplicate, Zenon
<1>8. CASE ProcessAck(s, isNew) = s
  BY <1>8, Zenon
<1>9. CASE ProcessAck(s, isNew) = PartialAck(counted) /\ s.cong = "RECOVERY"
  BY <1>2, <1>9, Zenon DEF SameRound, RoundOver, CongState
<1>10. CASE ProcessAck(s, isNew) = NewAck(counted, TRUE) /\ s.cong \in {"LOSS", "CWR"}
  BY <1>2, <1>10, Zenon DEF SameRound, RoundOver, CongState
<1>11. CASE /\ ProcessAck(s, isNew) = FullAck(counted)
            /\ s.cong \in {"RECOVERY", "LOSS"} => s.head >= s.recover
            /\ s.cong # "CWR"
  BY <1>3, <1>11, Zenon DEF RoundOver, CongState
<1> QED
  BY <1>6, <1>7, <1>8, <1>9, <1>10, <1>11, Zenon

\* An acknowledgment moves the head to it and keeps the rounds apart.
LEMMA Acknowledges ==
    ASSUME NEW s, Typed(s), RoundOver(s), NEW ack \in Int, ack >= s.head,
           NEW ece \in BOOLEAN
    PROVE  LET t == Acknowledged(s, ack, ece)
           IN /\ Typed(t) /\ RoundOver(t) /\ t.head = ack
              /\ t.cong = "RECOVERY" /\ s.cong # "RECOVERY" => s.head >= s.recover
<1> DEFINE isNew == ack > s.head
           discarded == DiscardUpTo(s, ack)
           over == IF s.cong = "CWR" /\ ack > s.recover
                   THEN [discarded EXCEPT !.cong = "OPEN"]
                   ELSE discarded
           echoed == IF isNew /\ ece /\ over.cong # "CWR" THEN EnterCwr(over) ELSE over
<1>1. s.head \in Int /\ s.recover \in Int
  BY DEF Typed
<1>2. /\ Typed(discarded) /\ discarded.head = ack
      /\ discarded.high = s.high /\ discarded.cong = s.cong
      /\ discarded.recover = s.recover
  <2>1. ack = IF ack > s.head THEN ack ELSE s.head
    BY <1>1
  <2> QED
    BY <2>1, Discarded, Zenon
<1>3. /\ ack > s.recover => ack >= s.recover
      /\ s.head >= s.recover => ack >= s.recover
      /\ ~isNew => ack = s.head
  BY <1>1
<1> HIDE DEF discarded
<1>4. /\ Typed(over) /\ over.head = ack /\ over.recover = s.recover
      /\ RoundOver(over) /\ over.cong \in {s.cong, "OPEN"}
  BY <1>2, <1>3, Zenon DEF RoundOver, CongState, Typed, Fields
<1> HIDE DEF over
<1>5. LET t == EnterCwr(over)
      IN Typed(t) /\ t.head = ack /\ t.cong = "CWR"
  BY <1>4, Zenon DEF EnterCwr, Typed, Fields
<1>6. /\ Typed(echoed) /\ RoundOver(echoed) /\ echoed.head = ack
      /\ echoed.cong \in {s.cong, "OPEN", "CWR"}
      /\ ~isNew => echoed.recover = s.recover
  BY <1>4, <1>5, Zenon DEF RoundOver, CongState
<1>7. Acknowledged(s, ack, ece) = ProcessAck(echoed, isNew)
  BY Zenon DEF Acknowledged, over, discarded
<1>8. isNew \in BOOLEAN
  BY <1>1
<1> HIDE DEF echoed, isNew
<1>9. LET t == ProcessAck(echoed, isNew)
      IN /\ Typed(t) /\ RoundOver(t) /\ t.head = ack
         /\ t.cong = "RECOVERY" =>
                echoed.cong = "RECOVERY" \/ (~isNew /\ ack >= echoed.recover)
  BY <1>6, <1>8, Processed, Zenon
<1> QED
  BY <1>3, <1>6, <1>7, <1>9, Zenon

-----------------------------------------------------------------------------
(* The receiver.                                                           *)

\* CHOOSE finds the least member: the natural numbers are well ordered.
LEMMA LeastMember ==
    ASSUME NEW S, S \subseteq Nat, S # {}
    PROVE  Least(S) \in S /\ \A p \in S : Least(S) <= p
<1>1. \A a, b \in Nat : a < b => <<a, b>> \in OpToRel(<, Nat)
  BY DEF OpToRel
<1>2. \E a \in S : \A b \in S : <<b, a>> \notin OpToRel(<, Nat)
  BY NatLessThanWellFounded, WFMin
<1>3. \E a \in S : \A b \in S : a <= b
  <2>1. \A a, b \in Nat : a <= b \/ b < a
    OBVIOUS
  <2> QED
    BY <1>1, <1>2, <2>1, Zenon
<1> QED
  BY <1>3, Zenon DEF Least

\* What the receiver asks for next is not behind what it asked for before.
LEMMA Advances ==
    ASSUME rcv \in 0..Data, NEW all
    PROVE  Least({Data} \cup {q \in rcv..Data : q \notin all}) \in rcv..Data
<1> DEFINE open == {Data} \cup {q \in rcv..Data : q \notin all}
<1>1. open \subseteq Nat /\ open \subseteq rcv..Data /\ open # {}
  BY CountAssumption
<1>2. Least(open) \in open
  <2> HIDE DEF open
  <2> QED
    BY <1>1, LeastMember
<1> QED
  BY <1>1, <1>2, Zenon

-----------------------------------------------------------------------------
(* The invariant: the acknowledgments in flight never ask for more than    *)
(* the receiver has, and outside of congestion the last round is over.     *)

Received ==
    /\ rcv \in 0..Data
    /\ acks \in Seq(Int)
    /\ \A i \in 1..Len(acks) : acks[i] <= rcv
    /\ snd.head <= rcv

RecInv == Typed(snd) /\ RoundOver(snd) /\ Received

\* The sender settles in s after a step that sends.
LEMMA Settles ==
    ASSUME NEW s, Typed(s), RoundOver(s), Becomes(SendPendingData(s))
    PROVE  /\ Typed(snd') /\ RoundOver(snd')
           /\ snd'.head = s.head /\ snd'.cong = s.cong
<1>1. LET t == SendPendingData(s)
      IN Typed(t) /\ t.head = s.head /\ t.cong = s.cong /\ t.recover = s.recover
  BY Sends
<1>2. snd' = [SendPendingData(s) EXCEPT !.out = <<>>]
  BY DEF Becomes
<1>3. /\ Typed(snd') /\ snd'.head = s.head /\ snd'.cong = s.cong
      /\ snd'.recover = s.recover
  BY <1>1, <1>2, Zenon DEF Typed, Fields
<1> QED
  BY <1>3, Zenon DEF RoundOver

LEMMA Starts == Init => RecInv
<1> SUFFICES ASSUME Init PROVE RecInv
  OBVIOUS
<1>1. IsFiniteSet({})
  BY FS_EmptySet
<1>2. \A w \in Windows : w \in Int
  BY WindowAssumption
<1>3. Typed(snd) /\ snd.head = 0 /\ snd.recover = 0 /\ snd.cong = "OPEN"
  BY <1>1, <1>2 DEF Init, Typed, Fields, Indeterminate
<1>4. rcv = 0 /\ acks = <<>>
  BY DEF Init
<1> QED
  BY <1>3, <1>4, CountAssumption DEF RecInv, Received, RoundOver, CongState

\* What one step does, for both theorems.
LEMMA Steps ==
    ASSUME RecInv, [Next]_vars
    PROVE  /\ RecInv'
           /\ snd.cong # "RECOVERY" /\ snd'.cong = "RECOVERY" => snd.head >= snd.recover
<1> USE DEF RecInv
<1>1. CASE SendScheduled
  <2>1. Typed(snd') /\ RoundOver(snd') /\ snd'.head = snd.head /\ snd'.cong = snd.cong
    BY <1>1, Settles, Zenon DEF SendScheduled
  <2> QED
    BY <1>1, <2>1 DEF SendScheduled, Received
<1>2. CASE ReceiveAck
  <2>1. /\ Head(acks) \in Int /\ Head(acks) <= rcv /\ Head(acks) = acks[1]
        /\ acks' \in Seq(Int) /\ \A i \in 1..Len(acks') : acks'[i] <= rcv
    BY <1>2 DEF ReceiveAck, Received
  <2>2. rcv' = rcv
    BY <1>2 DEF ReceiveAck
  <2>3. CASE ~snd.up \/ Head(acks) < snd.head
    <3>1. snd' = snd
      BY <1>2, <2>3 DEF ReceiveAck
    <3> QED
      BY <2>1, <2>2, <3>1 DEF Received
  <2>4. CASE ~(~snd.up \/ Head(acks) < snd.head)
    <3>0. PICK ece \in Echoes :
              \E s \in CongControl(Acknowledged(snd, Head(acks), ece)) :
                  Becomes(SendPendingData(s))
      BY <1>2, <2>4, Zenon DEF ReceiveAck
    <3>1. PICK s \in CongControl(Acknowledged(snd, Head(acks), ece)) :
              Becomes(SendPendingData(s))
      BY <3>0
    <3>2. Head(acks) >= snd.head /\ ece \in BOOLEAN
      BY <2>1, <2>4, EchoAssumption DEF Typed
    <3>3. LET t == Acknowledged(snd, Head(acks), ece)
          IN /\ Typed(t) /\ RoundOver(t) /\ t.head = Head(acks)
             /\ t.cong = "RECOVERY" /\ snd.cong # "RECOVERY"
                    => snd.head >= snd.recover
      BY <2>1, <3>2, Acknowledges
    <3>4. Typed(s) /\ SameRound(Acknowledged(snd, Head(acks), ece), s)
      BY <3>1, <3>3, Controls
    <3>5. RoundOver(s)
      BY <3>3, <3>4, Zenon DEF SameRound, RoundOver
    <3>6. /\ Typed(snd') /\ RoundOver(snd')
          /\ snd'.head = s.head /\ snd'.cong = s.cong
      BY <3>1, <3>4, <3>5, Settles, Zenon
    <3>7. snd'.head = Head(acks)
      BY <3>3, <3>4, <3>6, Zenon DEF SameRound
    <3>8. Received'
      BY <2>1, <2>2, <3>7 DEF Received
    <3> QED
      BY <3>3, <3>4, <3>6, <3>8, Zenon DEF SameRound
  <2> QED
    BY <2>3, <2>4
<1>3. CASE ReceiveData
  <2> DEFINE all == IF Head(data) < rcv THEN held ELSE held \cup {Head(data)}
             next == Least({Data} \cup {q \in rcv..Data : q \notin all})
  <2>1. snd' = snd /\ rcv' = next /\ acks' = Append(acks, next)
    BY <1>3, Zenon DEF ReceiveData
  <2>2. next \in rcv..Data
    <3> HIDE DEF all
    <3> QED
      BY Advances DEF Received
  <2> HIDE DEF next
  <2>3. rcv' \in 0..Data /\ rcv <= rcv' /\ next = rcv'
    BY <2>1, <2>2, CountAssumption DEF Received
  <2>4. acks' \in Seq(Int) /\ \A i \in 1..Len(acks') : acks'[i] <= rcv'
    BY <2>1, <2>3 DEF Received
  <2>5. snd'.head <= rcv'
    BY <2>1, <2>3 DEF Received, Typed
  <2> QED
    BY <2>1, <2>3, <2>4, <2>5 DEF Received
<1>4. CASE ReTxTimeout
  <2>1. rcv' = rcv /\ acks' = acks
    BY <1>4 DEF ReTxTimeout
  <2>2. CASE snd.retr = 0
    <3>1. snd' = [[snd EXCEPT !.up = FALSE, !.rto = FALSE] EXCEPT !.out = <<>>]
      BY <1>4, <2>2, Zenon DEF ReTxTimeout, Becomes
    <3>2. Typed(snd') /\ SameRound(snd, snd')
      BY <3>1, Zenon DEF Typed, SameRound, Fields
    <3> QED
      BY <2>1, <3>2, Zenon DEF SameRound, RoundOver, Received
  <2>3. CASE snd.retr # 0
    <3> DEFINE t == [SetSentListLost(snd) EXCEPT
                        !.rto = FALSE, !.retr = @ - 1, !.dup = 0,
                        !.recover = snd.high, !.active = TRUE,
                        !.ssThresh = snd.frac, !.cong = "LOSS"]
    <3>1. PICK s \in CongControl(t) : Becomes(SendPendingData(s))
      BY <1>4, <2>3, Zenon DEF ReTxTimeout
    <3>2. /\ Typed(SetSentListLost(snd)) /\ SameRound(snd, SetSentListLost(snd))
          /\ snd.high \in Int /\ snd.frac \in Int
      BY ListLost DEF Typed
    <3>3. Typed(t) /\ t.head = snd.head /\ t.cong = "LOSS"
      BY <3>2, Zenon DEF Typed, SameRound, Fields
    <3> HIDE DEF t
    <3>4. Typed(s) /\ s.head = snd.head /\ s.cong = "LOSS"
      BY <3>1, <3>3, Controls, Zenon DEF SameRound
    <3>5. RoundOver(s)
      BY <3>4 DEF RoundOver, CongState
    <3>6. /\ Typed(snd') /\ RoundOver(snd') /\ snd'.head = snd.head
          /\ snd'.cong = "LOSS"
      BY <3>1, <3>4, <3>5, Settles, Zenon
    <3> QED
      BY <2>1, <3>6, Zenon DEF Received
  <2> QED
    BY <2>2, <2>3
<1>5. CASE LosePacket
  <2>1. snd' = snd /\ rcv' = rcv
    BY <1>5 DEF LosePacket
  <2>2. CASE acks' = acks
    BY <2>1, <2>2 DEF Received
  <2>3. CASE acks # <<>> /\ acks' = Tail(acks)
    <3>1. acks' \in Seq(Int) /\ \A i \in 1..Len(acks') : acks'[i] <= rcv
      BY <2>3 DEF Received
    <3> QED
      BY <2>1, <3>1 DEF Received
  <2>4. acks' = acks \/ (acks # <<>> /\ acks' = Tail(acks))
    BY <1>5 DEF LosePacket
  <2> QED
    BY <2>2, <2>3, <2>4
<1>6. CASE UNCHANGED vars
  BY <1>6 DEF vars, Received
<1> QED
  BY <1>1, <1>2, <1>3, <1>4, <1>5, <1>6 DEF Next

\* What the sender has discarded the receiver has, for any amount of data and any
\* number of losses: the head of the send buffer comes from acknowledgments only,
\* and no acknowledgment is ahead of the receiver that sent it.
THEOREM NothingLost == Spec => []NeverDiscardsUnreceived
<1>1. RecInv => NeverDiscardsUnreceived
  BY DEF RecInv, Received, NeverDiscardsUnreceived
<1>2. RecInv /\ [Next]_vars => RecInv'
  BY Steps
<1> QED
  BY Starts, <1>1, <1>2, PTL DEF Spec

\* No second recovery for one window: CA_RECOVERY is entered only once m_recover of
\* the last round is acknowledged, whatever way that round ended.
THEOREM RecoveredOnce == Spec => OneRecoveryPerWindow
<1>1. RecInv /\ [Next]_vars
          => RecInv' /\ [snd.cong # "RECOVERY" /\ snd'.cong = "RECOVERY"
                             => snd.head >= snd.recover]_vars
  BY Steps
<1> QED
  BY Starts, <1>1, PTL DEF Spec, OneRecoveryPerWindow

-----------------------------------------------------------------------------
(* The order in which segments are sent: every rank below the size of a    *)
(* set of numbers is that of one of its members.                           *)

Before(S, q) == {p \in S : p < q}

LEMMA Ranks ==
    ASSUME NEW S, S \subseteq Nat, IsFiniteSet(S), NEW k \in Nat, k < Cardinality(S)
    PROVE  \E q \in S : Cardinality(Before(S, q)) = k
<1> DEFINE missing == {i \in Nat : i < Cardinality(S)
                           /\ \A q \in S : Cardinality(Before(S, q)) # i}
<1>0. /\ Cardinality(S) \in Nat
      /\ \A p, q \in S : ~(p < q) => q <= p
      /\ \A p, q \in S : q <= p => ~(p < q)
      /\ \A p, q \in S : p < q <=> q > p
      /\ \A p, q \in S : p <= q => p < q \/ p = q
      /\ \A p, q, r \in S : p <= q /\ q < r => p < r
  BY FS_CardinalityType
<1>1. \A q : IsFiniteSet(Before(S, q))
  <2>1. \A q : Before(S, q) \in SUBSET S
    BY DEF Before
  <2> QED
    BY <2>1, FS_Subset
<1>2. SUFFICES ASSUME missing # {} PROVE FALSE
  OBVIOUS
<1> DEFINE i == Least(missing)
<1>3. i \in missing /\ \A j \in missing : i <= j
  <2>1. missing \subseteq Nat
    OBVIOUS
  <2> HIDE DEF missing
  <2> QED
    BY <1>2, <2>1, LeastMember
<1>4. /\ i \in Nat /\ i < Cardinality(S)
      /\ \A q \in S : Cardinality(Before(S, q)) # i
      /\ \A j \in Nat : j < i => \E q \in S : Cardinality(Before(S, q)) = j
  <2>1. i \in Nat /\ i < Cardinality(S) /\ \A q \in S : Cardinality(Before(S, q)) # i
    BY <1>3
  <2>2. \A j \in Nat : j < i => j < Cardinality(S) /\ ~(i <= j)
    <3> HIDE DEF i
    <3> QED
      BY <1>0, <2>1
  <2>3. \A j \in Nat : j < i => \E q \in S : Cardinality(Before(S, q)) = j
    BY <1>3, <2>2, Zenon
  <2> QED
    BY <2>1, <2>3
<1> HIDE DEF i, missing
<1>5. i # 0
  <2>1. S # {}
    BY <1>4, FS_EmptySet
  <2>2. Least(S) \in S /\ \A p \in S : Least(S) <= p
    BY <2>1, LeastMember
  <2>3. Before(S, Least(S)) = {}
    BY <1>0, <2>2, Zenon DEF Before
  <2> QED
    BY <1>4, <2>2, <2>3, FS_EmptySet
<1>6. PICK last \in S : Cardinality(Before(S, last)) = i - 1
  <2>1. i - 1 \in Nat /\ i - 1 < i
    BY <1>4, <1>5
  <2> QED
    BY <1>4, <2>1
<1> DEFINE upTo == Before(S, last) \cup {last}
           after == {p \in S : p > last}
<1>7. IsFiniteSet(upTo) /\ Cardinality(upTo) = i
  <2>1. last \notin Before(S, last)
    BY DEF Before
  <2>2. IsFiniteSet(upTo) /\ Cardinality(upTo) = Cardinality(Before(S, last)) + 1
    BY <1>1, <2>1, FS_AddElement
  <2> QED
    BY <1>4, <1>6, <2>2
<1>8. after # {}
  <2>1. SUFFICES ASSUME after = {} PROVE S = upTo
    BY <1>0, <1>4, <1>7
  <2>2. \A q \in S : q < last \/ q = last
    BY <1>0, <2>1, Zenon
  <2> QED
    BY <2>2, Zenon DEF Before
<1>9. Least(after) \in after /\ \A p \in after : Least(after) <= p
  <2>1. after \subseteq Nat
    OBVIOUS
  <2> HIDE DEF after
  <2> QED
    BY <1>8, <2>1, LeastMember
<1>10. Before(S, Least(after)) = upTo
  <2> DEFINE m == Least(after)
  <2>1. m \in S /\ m > last /\ \A p \in S : p > last => m <= p
    BY <1>9
  <2> HIDE DEF m
  <2>2. \A p \in S : p < m <=> p < last \/ p = last
    <3> SUFFICES ASSUME NEW p \in S PROVE p < m <=> p < last \/ p = last
      OBVIOUS
    <3>1. p \in Nat /\ m \in Nat /\ last \in Nat /\ (p > last => m <= p)
      BY <2>1
    <3> QED
      BY <2>1, <3>1
  <2>3. Before(S, m) = upTo
    BY <2>2, Zenon DEF Before
  <2> QED
    BY <2>3 DEF m
<1> QED
  BY <1>4, <1>7, <1>9, <1>10

LEMMA Ordered ==
    ASSUME NEW S, S \subseteq Nat, IsFiniteSet(S)
    PROVE  /\ InOrder(S) \in Seq(S) /\ Len(InOrder(S)) = Cardinality(S)
           /\ \A i \in 1..Len(InOrder(S)) : InOrder(S)[i] \in S
<1> DEFINE pick(i) == CHOOSE q \in S : Cardinality({p \in S : p < q}) = i - 1
<1>1. Cardinality(S) \in Nat
  BY FS_CardinalityType
<1>2. \A i \in 1..Cardinality(S) : pick(i) \in S
  <2> SUFFICES ASSUME NEW i \in 1..Cardinality(S) PROVE pick(i) \in S
    OBVIOUS
  <2>1. i - 1 \in Nat /\ i - 1 < Cardinality(S)
    BY <1>1
  <2>2. \E q \in S : Cardinality({p \in S : p < q}) = i - 1
    BY <2>1, Ranks DEF Before
  <2> QED
    BY <2>2, Zenon
<1>3. InOrder(S) = [i \in 1..Cardinality(S) |-> pick(i)]
  BY Zenon DEF InOrder
<1> HIDE DEF pick
<1> QED
  BY <1>1, <1>2, <1>3, IsASeq

-----------------------------------------------------------------------------
(* What is sent lies within the data, and marks only what is sent.         *)

More == {"up", "dup", "rto", "out"}

Below(q, n) == q \in Seq(Int) /\ \A i \in 1..Len(q) : q[i] < n

Places(s) == 0 <= s.head /\ s.head <= s.high /\ s.high <= Data /\ s.recover <= s.high

Marks(s) == s.lost \subseteq Sent(s) /\ s.sacked \subseteq Sent(s) /\ s.retrans \subseteq Sent(s)

Bounded(s) ==
    /\ Typed(s) /\ More \subseteq DOMAIN s
    /\ Places(s) /\ Marks(s)
    /\ s.dup \in Int /\ s.rto \in BOOLEAN
    /\ Below(s.out, s.high)

\* t is s with other marks, or with more of the buffer discarded.
Kept(s, t) ==
    /\ t.high = s.high /\ t.cong = s.cong /\ t.recover = s.recover
    /\ t.dup = s.dup /\ t.up = s.up
    /\ t.cWnd = s.cWnd /\ t.frac = s.frac /\ t.ssThresh = s.ssThresh

Marked(s, t) == Kept(s, t) /\ t.head = s.head /\ t.rto = s.rto

LEMMA MarkBounded ==
    ASSUME NEW s, Bounded(s)
    PROVE  LET t == MarkHeadAsLost(s) IN Bounded(t) /\ Marked(s, t)
<1> DEFINE t == [s EXCEPT !.lost = @ \cup {s.head}, !.sacked = @ \ {s.head},
                          !.retrans = @ \ {s.head}]
<1>1. CASE s.head = s.high
  BY <1>1, Zenon DEF MarkHeadAsLost, Marked, Kept
<1>2. CASE s.head # s.high
  <2>1. MarkHeadAsLost(s) = t
    BY <1>2, Zenon DEF MarkHeadAsLost
  <2>2. Typed(t)
    BY <2>1, MarkHead DEF Bounded
  <2>3. s.head \in Sent(s)
    BY <1>2 DEF Bounded, Typed, Places, Sent
  <2>4. /\ Marked(s, t) /\ More \subseteq DOMAIN t /\ t.out = s.out
        /\ t.lost = s.lost \cup {s.head} /\ t.sacked \subseteq s.sacked
        /\ t.retrans \subseteq s.retrans
    BY Zenon DEF Bounded, Typed, Fields, More, Marked, Kept
  <2> HIDE DEF t
  <2>5. Sent(t) = Sent(s)
    BY <2>4, Zenon DEF Sent, Marked, Kept
  <2>6. Marks(t)
    BY <2>3, <2>4, <2>5, Zenon DEF Bounded, Marks
  <2> QED
    BY <2>1, <2>2, <2>4, <2>6, Zenon DEF Bounded, Places, Marked, Kept
<1> QED
  BY <1>1, <1>2

LEMMA SackBounded ==
    ASSUME NEW s, Bounded(s)
    PROVE  LET t == AddRenoSack(s)
           IN Bounded(t) /\ Marked(s, t) /\ t.lost = s.lost
<1> DEFINE free == {q \in Sent(s) : q > s.head} \ s.sacked
           t == [s EXCEPT !.sacked = @ \cup {Least(free)}]
<1>1. CASE free = {}
  BY <1>1, Zenon DEF AddRenoSack, Marked, Kept
<1>2. CASE free # {}
  <2>1. AddRenoSack(s) = t
    BY <1>2, Zenon DEF AddRenoSack
  <2>2. Typed(t)
    BY <2>1, RenoSack DEF Bounded
  <2>3. Least(free) \in Sent(s)
    <3>1. free \subseteq Nat /\ free \subseteq Sent(s)
      BY DEF Bounded, Typed, Places, Sent
    <3> HIDE DEF free
    <3> QED
      BY <1>2, <3>1, LeastMember
  <2> HIDE DEF free
  <2>4. /\ Marked(s, t) /\ More \subseteq DOMAIN t /\ t.out = s.out
        /\ t.lost = s.lost /\ t.sacked = s.sacked \cup {Least(free)}
        /\ t.retrans = s.retrans
    BY Zenon DEF Bounded, Typed, Fields, More, Marked, Kept
  <2> HIDE DEF t
  <2>5. Sent(t) = Sent(s)
    BY <2>4, Zenon DEF Sent, Marked, Kept
  <2>6. Marks(t)
    BY <2>3, <2>4, <2>5, Zenon DEF Bounded, Marks
  <2> QED
    BY <2>1, <2>2, <2>4, <2>6, Zenon DEF Bounded, Places, Marked, Kept
<1> QED
  BY <1>1, <1>2

LEMMA ListBounded ==
    ASSUME NEW s, Bounded(s)
    PROVE  LET t == SetSentListLost(s)
           IN /\ Bounded(t) /\ Marked(s, t)
              /\ t.lost = Sent(t) /\ t.sacked = {} /\ t.retrans = {}
<1> DEFINE t == [s EXCEPT !.lost = Sent(s), !.sacked = {}, !.retrans = {}]
<1>1. SetSentListLost(s) = t
  BY Zenon DEF SetSentListLost
<1>2. Typed(t)
  BY <1>1, ListLost DEF Bounded
<1>3. /\ Marked(s, t) /\ More \subseteq DOMAIN t /\ t.out = s.out
      /\ t.lost = Sent(s) /\ t.sacked = {} /\ t.retrans = {}
  BY Zenon DEF Bounded, Typed, Fields, More, Marked, Kept
<1> HIDE DEF t
<1>4. Sent(t) = Sent(s)
  BY <1>3, Zenon DEF Sent, Marked, Kept
<1>5. Marks(t)
  BY <1>3, <1>4, Zenon DEF Marks
<1> QED
  BY <1>1, <1>2, <1>3, <1>4, <1>5, Zenon DEF Bounded, Places, Marked, Kept

\* DiscardUpTo without its last move, and with the flag of the new head taken away.
Dropped(s, ack) == [s EXCEPT !.head = ack,
                             !.lost = {q \in @ : q >= ack},
                             !.sacked = {q \in @ : q >= ack},
                             !.retrans = {q \in @ : q >= ack}]
Cleared(s, ack) == [Dropped(s, ack) EXCEPT !.sacked = @ \ {ack}]

LEMMA DropBounded ==
    ASSUME NEW s, Bounded(s), NEW ack \in Int, ack >= s.head, ack <= s.high
    PROVE  LET left == Dropped(s, ack)
               rest == Cleared(s, ack)
           IN /\ Bounded(left) /\ Kept(s, left) /\ left.head = ack /\ left.rto = s.rto
              /\ left.lost = {q \in s.lost : q >= ack}
              /\ left.sacked = {q \in s.sacked : q >= ack}
              /\ left.retrans = {q \in s.retrans : q >= ack}
              /\ Bounded(rest) /\ Marked(left, rest)
              /\ rest.lost = left.lost /\ rest.sacked = left.sacked \ {ack}
              /\ rest.retrans = left.retrans
<1> DEFINE left == Dropped(s, ack)
           rest == Cleared(s, ack)
<1>1. /\ Kept(s, left) /\ left.head = ack /\ left.rto = s.rto /\ left.out = s.out
      /\ left.lost = {q \in s.lost : q >= ack}
      /\ left.sacked = {q \in s.sacked : q >= ack}
      /\ left.retrans = {q \in s.retrans : q >= ack}
      /\ More \subseteq DOMAIN left /\ Fields \subseteq DOMAIN left
  BY Zenon DEF Dropped, Bounded, Typed, Fields, More, Kept
<1>2. /\ IsFiniteSet({q \in s.lost : q >= ack})
      /\ IsFiniteSet({q \in s.sacked : q >= ack})
      /\ IsFiniteSet({q \in s.retrans : q >= ack})
  <2> DEFINE after(S) == {q \in S : q >= ack}
  <2>1. /\ after(s.lost) \in SUBSET s.lost /\ after(s.sacked) \in SUBSET s.sacked
        /\ after(s.retrans) \in SUBSET s.retrans
    OBVIOUS
  <2> QED
    BY <2>1, FS_Subset DEF Bounded, Typed
<1>3. rest = [left EXCEPT !.sacked = @ \ {ack}]
  BY Zenon DEF Cleared
<1> HIDE DEF left, rest
<1>4. Typed(left)
  BY <1>1, <1>2, Zenon DEF Bounded, Typed, Kept
<1>5. Sent(left) = {q \in Sent(s) : q >= ack}
  <2>1. Sent(left) = ack..(s.high - 1)
    BY <1>1, Zenon DEF Sent, Kept
  <2>2. ack..(s.high - 1) = {q \in s.head..(s.high - 1) : q >= ack}
    <3>1. s.head \in Int /\ s.high \in Int
      BY DEF Bounded, Typed
    <3> DEFINE a == s.head
               b == s.high - 1
    <3>2. a \in Int /\ b \in Int /\ ack >= a
      BY <3>1
    <3> HIDE DEF a, b
    <3>3. ack..b = {q \in a..b : q >= ack}
      BY <3>2
    <3> QED
      BY <3>3 DEF a, b
  <2> QED
    BY <2>1, <2>2 DEF Sent
<1>6. Marks(left)
  BY <1>1, <1>5, Zenon DEF Bounded, Marks
<1>7. Places(left)
  <2>1. left.head = ack /\ left.high = s.high /\ left.recover = s.recover
    BY <1>1, Zenon DEF Kept
  <2> QED
    BY <2>1 DEF Bounded, Typed, Places
<1>8. Bounded(left)
  BY <1>1, <1>4, <1>6, <1>7, Zenon DEF Bounded, Kept
<1>9. /\ Marked(left, rest) /\ More \subseteq DOMAIN rest /\ rest.out = left.out
      /\ rest.lost = left.lost /\ rest.sacked = left.sacked \ {ack}
      /\ rest.retrans = left.retrans /\ Fields \subseteq DOMAIN rest
  BY <1>1, <1>3, Zenon DEF Fields, More, Marked, Kept
<1>10. IsFiniteSet(left.sacked \ {ack})
  BY <1>4, FS_RemoveElement DEF Typed
<1>11. Typed(rest)
  BY <1>4, <1>9, <1>10, Zenon DEF Typed, Marked, Kept
<1>12. Sent(rest) = Sent(left)
  BY <1>9, Zenon DEF Sent, Marked, Kept
<1>13. Marks(rest)
  BY <1>6, <1>9, <1>12, Zenon DEF Marks
<1>14. Bounded(rest)
  BY <1>8, <1>9, <1>11, <1>13, Zenon DEF Bounded, Places, Marked, Kept
<1> QED
  BY <1>1, <1>8, <1>9, <1>14, Zenon DEF left, rest

\* The head moves up to the ACK; a mark on the new head moves on.
LEMMA DiscardCases ==
    ASSUME NEW s, Bounded(s), NEW ack \in Int, ack >= s.head
    PROVE  \/ ack = s.head /\ DiscardUpTo(s, ack) = s
           \/ /\ ack \in Dropped(s, ack).sacked
              /\ DiscardUpTo(s, ack) = MarkHeadAsLost(AddRenoSack(Cleared(s, ack)))
           \/ /\ ack \notin Dropped(s, ack).sacked
              /\ DiscardUpTo(s, ack) = Dropped(s, ack)
<1>1. CASE ack <= s.head
  <2>1. ack = s.head
    BY <1>1 DEF Bounded, Typed
  <2> QED
    BY <1>1, <2>1, Zenon DEF DiscardUpTo
<1>2. CASE ~(ack <= s.head)
  BY <1>2, Zenon DEF DiscardUpTo, Dropped, Cleared
<1> QED
  BY <1>1, <1>2

LEMMA DiscardBounded ==
    ASSUME NEW s, Bounded(s), NEW ack \in Int, ack >= s.head, ack <= s.high
    PROVE  LET t == DiscardUpTo(s, ack)
           IN Bounded(t) /\ Kept(s, t) /\ t.head = ack /\ t.rto = s.rto
<1> DEFINE left == Dropped(s, ack)
           rest == Cleared(s, ack)
<1>1. /\ Bounded(left) /\ Kept(s, left) /\ left.head = ack /\ left.rto = s.rto
      /\ Bounded(rest) /\ Marked(left, rest)
  BY DropBounded
<1> HIDE DEF left, rest
<1>2. Bounded(AddRenoSack(rest)) /\ Marked(rest, AddRenoSack(rest))
  BY <1>1, SackBounded
<1>3. /\ Bounded(MarkHeadAsLost(AddRenoSack(rest)))
      /\ Marked(AddRenoSack(rest), MarkHeadAsLost(AddRenoSack(rest)))
  BY <1>2, MarkBounded
<1>4. \/ ack = s.head /\ DiscardUpTo(s, ack) = s
      \/ DiscardUpTo(s, ack) \in {left, MarkHeadAsLost(AddRenoSack(rest))}
  BY DiscardCases, Zenon DEF left, rest
<1>5. CASE ack = s.head /\ DiscardUpTo(s, ack) = s
  BY <1>5, Zenon DEF Kept
<1>6. CASE DiscardUpTo(s, ack) = left
  BY <1>1, <1>6, Zenon
<1>7. CASE DiscardUpTo(s, ack) = MarkHeadAsLost(AddRenoSack(rest))
  BY <1>1, <1>2, <1>3, <1>7, Zenon DEF Marked, Kept
<1> QED
  BY <1>4, <1>5, <1>6, <1>7, Zenon

-----------------------------------------------------------------------------
(* What is sent in one step.                                               *)

LEMMA BelowConcat ==
    ASSUME NEW n \in Int, NEW a, NEW b, Below(a, n), Below(b, n)
    PROVE  Below(a \o b, n)
<1>1. /\ a \in Seq(Int) /\ b \in Seq(Int)
      /\ Len(a) \in Nat /\ Len(b) \in Nat
      /\ a \o b \in Seq(Int) /\ Len(a \o b) = Len(a) + Len(b)
      /\ \A i \in 1..(Len(a) + Len(b)) :
             (a \o b)[i] = IF i <= Len(a) THEN a[i] ELSE b[i - Len(a)]
  BY ConcatProperties, LenProperties DEF Below
<1>2. \A i \in 1..(Len(a) + Len(b)) : IF i <= Len(a) THEN i \in 1..Len(a)
                                      ELSE i - Len(a) \in 1..Len(b)
  BY <1>1
<1>3. \A i \in 1..(Len(a) + Len(b)) : (a \o b)[i] < n
  BY <1>1, <1>2, Zenon DEF Below
<1> QED
  BY <1>1, <1>3, Zenon DEF Below

LEMMA BelowMore ==
    ASSUME NEW n \in Int, NEW m \in Int, n <= m, NEW a, Below(a, n)
    PROVE  Below(a, m)
<1>1. \A i \in 1..Len(a) : a[i] \in Int
  BY ElementOfSeq DEF Below
<1> QED
  BY <1>1 DEF Below

LEMMA ResendBounded ==
    ASSUME NEW s, Bounded(s), s.head < s.high
    PROVE  LET t == Resend(s, s.head)
           IN Bounded(t) /\ Kept(s, t) /\ t.head = s.head /\ t.rto = TRUE
<1> DEFINE t == [s EXCEPT !.retrans = @ \cup {s.head}, !.out = Append(@, s.head), !.rto = TRUE]
<1>1. Resend(s, s.head) = t
  BY Zenon DEF Resend
<1>2. Typed(t)
  BY <1>1, Resent DEF Bounded
<1>3. /\ Kept(s, t) /\ t.head = s.head /\ t.rto = TRUE
      /\ More \subseteq DOMAIN t /\ t.out = Append(s.out, s.head)
      /\ t.lost = s.lost /\ t.sacked = s.sacked
      /\ t.retrans = s.retrans \cup {s.head}
  BY Zenon DEF Bounded, Typed, Fields, More, Kept
<1> HIDE DEF t
<1>4. Marks(t)
  <2>1. s.head \in Sent(s)
    BY DEF Bounded, Typed, Sent
  <2>2. Sent(t) = Sent(s)
    BY <1>3, Zenon DEF Sent, Kept
  <2> QED
    BY <1>3, <2>1, <2>2, Zenon DEF Bounded, Marks
<1>5. Below(t.out, t.high)
  <2>1. s.out \in Seq(Int) /\ s.head \in Int
    BY DEF Bounded, Below, Typed
  <2>2. /\ t.out \in Seq(Int) /\ Len(t.out) = Len(s.out) + 1 /\ Len(s.out) \in Nat
        /\ t.out[Len(s.out) + 1] = s.head
        /\ \A i \in 1..Len(s.out) : t.out[i] = s.out[i]
    BY <1>3, <2>1, AppendProperties, LenProperties
  <2>3. \A i \in 1..Len(t.out) : i \in 1..Len(s.out) \/ i = Len(s.out) + 1
    BY <2>2
  <2>4. \A i \in 1..Len(t.out) : t.out[i] < s.high
    BY <2>2, <2>3, Zenon DEF Bounded, Below
  <2> QED
    BY <1>3, <2>2, <2>4, Zenon DEF Below, Kept
<1> QED
  BY <1>1, <1>2, <1>3, <1>4, <1>5, Zenon DEF Bounded, Places, Kept

\* Marks on a finite list that holds nothing count for nothing.
LEMMA NothingSent ==
    ASSUME NEW s, Bounded(s), s.head = s.high
    PROVE  s.lost = {} /\ InFlight(s) = 0
<1>1. Sent(s) = {}
  BY DEF Bounded, Typed, Sent
<1>2. s.lost = {} /\ s.sacked = {} /\ s.retrans = {}
  BY <1>1 DEF Bounded, Marks
<1> QED
  BY <1>2, FS_EmptySet, CountAssumption DEF InFlight, Bounded, Typed

LEMMA AllLost ==
    ASSUME NEW s, Bounded(s), s.head < s.high,
           s.lost = Sent(s), s.sacked = {}, s.retrans = {}
    PROVE  InFlight(s) = 0
<1>1. Cardinality(s.lost) = s.high - s.head
  <2>1. s.head \in Int /\ s.high - 1 \in Int /\ s.high \in Int
    BY DEF Bounded, Typed
  <2>2. Cardinality(s.head..(s.high - 1)) = IF s.head > s.high - 1 THEN 0
                                           ELSE s.high - 1 - s.head + 1
    BY <2>1, FS_Interval
  <2>3. ~(s.head > s.high - 1) /\ s.high - 1 - s.head + 1 = s.high - s.head
    BY <2>1
  <2> QED
    BY <2>2, <2>3 DEF Sent
<1> QED
  BY <1>1, FS_EmptySet, CountAssumption DEF InFlight, Bounded, Typed

LEMMA SendsBounded ==
    ASSUME NEW s, Bounded(s)
    PROVE  LET t == SendPendingData(s)
           IN /\ Bounded(t)
              /\ t.head = s.head /\ t.cong = s.cong /\ t.recover = s.recover
              /\ t.dup = s.dup /\ t.up = s.up
              /\ t.cWnd = s.cWnd /\ t.frac = s.frac /\ t.ssThresh = s.ssThresh
              /\ t.high >= s.high
              /\ t.rto = s.rto \/ (t.rto = TRUE /\ t.head < t.high)
              /\ t.high > s.high => t.rto = TRUE
              /\ s.cWnd >= Seg /\ s.head = s.high /\ s.head # Data => t.high > s.high
              /\ (/\ s.cWnd >= Seg /\ s.head < s.high
                  /\ s.lost = Sent(s) /\ s.sacked = {} /\ s.retrans = {}) => t.rto = TRUE
<1> DEFINE again == s.lost \ (s.retrans \cup s.sacked)
           room == IF s.cWnd >= InFlight(s) THEN (s.cWnd - InFlight(s)) \div Seg ELSE 0
           resent == {q \in again : Cardinality({p \in again : p < q}) < room}
           fresh == Smaller(room - Cardinality(resent), Data - s.high)
           new == [i \in 1..fresh |-> s.high + i - 1]
           t == [s EXCEPT !.retrans = @ \cup resent, !.high = @ + fresh,
                          !.out = @ \o InOrder(resent) \o [i \in 1..fresh |-> s.high + i - 1],
                          !.rto = TRUE]
<1>0. /\ s.head \in Int /\ s.high \in Int /\ s.recover \in Int /\ s.cWnd \in Int
      /\ 0 <= s.head /\ s.head <= s.high /\ s.high <= Data /\ s.recover <= s.high
      /\ Data \in Nat /\ Seg \in Nat \ {0} /\ InFlight(s) \in Int
  BY InFlightType, CountAssumption DEF Bounded, Typed, Places
<1>1. again \subseteq Nat /\ IsFiniteSet(again) /\ again \subseteq Sent(s)
  <2>1. IsFiniteSet(again)
    BY FS_Difference, Zenon DEF Bounded, Typed
  <2>2. Sent(s) \subseteq Nat
    BY <1>0 DEF Sent
  <2> QED
    BY <2>1, <2>2 DEF Bounded, Marks
<1>2. room \in Nat
  BY <1>0
<1> HIDE DEF again, room
<1>3. /\ resent \subseteq again /\ IsFiniteSet(resent) /\ Cardinality(resent) \in Nat
      /\ Cardinality(resent) <= room
  <2>1. resent \in SUBSET again
    BY Zenon
  <2>2. IsFiniteSet(resent) /\ Cardinality(resent) \in Nat
    BY <1>1, <2>1, FS_Subset, FS_CardinalityType
  <2>3. SUFFICES ASSUME room < Cardinality(resent) PROVE FALSE
    BY <1>2, <2>1, <2>2
  <2>4. PICK q \in resent : Cardinality(Before(resent, q)) = room
    <3>1. resent \subseteq Nat
      BY <1>1, <2>1
    <3> HIDE DEF resent
    <3> QED
      BY <1>2, <2>2, <2>3, <3>1, Ranks
  <2>5. Before(resent, q) \in SUBSET Before(again, q) /\ Before(again, q) \in SUBSET again
    BY <2>1, Zenon DEF Before
  <2>6. /\ IsFiniteSet(Before(again, q)) /\ Cardinality(Before(again, q)) \in Nat
        /\ Cardinality(Before(resent, q)) <= Cardinality(Before(again, q))
    BY <1>1, <2>5, FS_Subset, FS_CardinalityType
  <2>7. Cardinality(Before(again, q)) < room
    BY <2>4, Zenon DEF Before
  <2> QED
    BY <1>2, <2>4, <2>6, <2>7
<1> HIDE DEF resent
<1>4. fresh \in Nat /\ s.high + fresh \in Int /\ s.high + fresh <= Data
  BY <1>0, <1>2, <1>3 DEF Smaller
<1> HIDE DEF fresh
<1>5. Below(s.out \o InOrder(resent) \o new, s.high + fresh)
  <2>1. Below(s.out, s.high + fresh)
    BY <1>0, <1>4, BelowMore DEF Bounded
  <2>2. Below(InOrder(resent), s.high + fresh)
    <3>1. resent \subseteq Nat /\ resent \subseteq Int /\ resent \subseteq Sent(s)
      BY <1>1, <1>3
    <3>2. /\ InOrder(resent) \in Seq(resent)
          /\ \A i \in 1..Len(InOrder(resent)) : InOrder(resent)[i] \in resent
      BY <1>3, <3>1, Ordered
    <3>3. InOrder(resent) \in Seq(Int)
      BY <3>1, <3>2, SeqMonotonic
    <3>4. \A q \in Sent(s) : q < s.high
      BY <1>0 DEF Sent
    <3>5. Below(InOrder(resent), s.high)
      BY <3>1, <3>2, <3>3, <3>4, Zenon DEF Below
    <3> QED
      BY <1>0, <1>4, <3>5, BelowMore
  <2>3. Below(new, s.high + fresh)
    <3>1. \A i \in 1..fresh : s.high + i - 1 \in Int /\ s.high + i - 1 < s.high + fresh
      BY <1>0, <1>4
    <3>2. new \in Seq(Int) /\ Len(new) = fresh
      BY <1>4, <3>1, IsASeq
    <3> QED
      BY <3>1, <3>2 DEF Below
  <2> HIDE DEF new
  <2>4. Below(s.out \o InOrder(resent), s.high + fresh)
    BY <1>4, <2>1, <2>2, BelowConcat
  <2> QED
    BY <1>4, <2>3, <2>4, BelowConcat
<1>6. /\ t.head = s.head /\ t.cong = s.cong /\ t.recover = s.recover
      /\ t.dup = s.dup /\ t.up = s.up
      /\ t.cWnd = s.cWnd /\ t.frac = s.frac /\ t.ssThresh = s.ssThresh
      /\ t.high = s.high + fresh /\ t.rto = TRUE
      /\ t.lost = s.lost /\ t.sacked = s.sacked /\ t.retrans = s.retrans \cup resent
      /\ t.out = s.out \o InOrder(resent) \o new
      /\ More \subseteq DOMAIN t /\ Fields \subseteq DOMAIN t
  BY Zenon DEF Bounded, Typed, Fields, More
<1>7. SendPendingData(s) = IF s.head = Data \/ room = 0 \/ (resent = {} /\ fresh = 0)
                           THEN s ELSE t
  BY Zenon DEF SendPendingData, again, room, resent, fresh
<1> HIDE DEF t, new
<1>8. Bounded(t)
  <2>1. IsFiniteSet(s.retrans \cup resent)
    BY <1>3, FS_Union, Zenon DEF Bounded, Typed
  <2>2. Typed(t)
    BY <1>4, <1>6, <2>1, Zenon DEF Bounded, Typed
  <2>3. Places(t)
    BY <1>0, <1>4, <1>6 DEF Places
  <2>4. Sent(s) \subseteq Sent(t)
    <3>1. t.head = s.head /\ t.high \in Int /\ s.high <= t.high
      BY <1>0, <1>4, <1>6
    <3> QED
      BY <1>0, <3>1 DEF Sent
  <2>5. Marks(t)
    BY <1>1, <1>3, <1>6, <2>4 DEF Bounded, Marks
  <2> QED
    BY <1>5, <1>6, <2>2, <2>3, <2>5, Zenon DEF Bounded
<1>9. ASSUME s.cWnd >= Seg, InFlight(s) = 0 PROVE room > 0
  BY <1>0, <1>9 DEF room
<1>10. s.cWnd >= Seg /\ s.head = s.high /\ s.head # Data
           => SendPendingData(s) = t /\ fresh > 0
  <2> SUFFICES ASSUME s.cWnd >= Seg, s.head = s.high, s.head # Data
               PROVE  SendPendingData(s) = t /\ fresh > 0
    OBVIOUS
  <2>1. room > 0 /\ s.lost = {}
    BY <1>9, NothingSent
  <2>2. resent = {}
    BY <2>1 DEF resent, again
  <2>3. fresh > 0
    BY <1>0, <1>2, <2>1, <2>2, FS_EmptySet DEF fresh, Smaller
  <2>4. room # 0 /\ fresh # 0
    BY <1>2, <1>4, <2>1, <2>3
  <2> QED
    BY <1>7, <2>3, <2>4, Zenon
<1>11. (/\ s.cWnd >= Seg /\ s.head < s.high
        /\ s.lost = Sent(s) /\ s.sacked = {} /\ s.retrans = {}) => SendPendingData(s) = t
  <2> SUFFICES ASSUME s.cWnd >= Seg, s.head < s.high,
                      s.lost = Sent(s), s.sacked = {}, s.retrans = {}
               PROVE  SendPendingData(s) = t
    OBVIOUS
  <2>1. room > 0
    BY <1>9, AllLost
  <2>2. s.head \in again /\ {p \in again : p < s.head} = {}
    <3>1. again = Sent(s)
      BY DEF again
    <3>2. s.head \in Sent(s) /\ \A p \in Sent(s) : ~(p < s.head)
      BY <1>0 DEF Sent
    <3> QED
      BY <3>1, <3>2
  <2>3. s.head \in resent
    BY <2>1, <2>2, FS_EmptySet DEF resent
  <2>4. room # 0 /\ resent # {} /\ s.head # Data
    BY <1>0, <1>2, <2>1, <2>3
  <2> QED
    BY <1>7, <2>4, Zenon
<1>12. CASE SendPendingData(s) = s
  <2>1. s.high >= s.high /\ ~(s.high > s.high)
    BY <1>0
  <2>2. ~(s.cWnd >= Seg /\ s.head = s.high /\ s.head # Data)
    <3>1. fresh > 0 => s # t
      <4> SUFFICES ASSUME fresh > 0, s = t PROVE FALSE
        OBVIOUS
      <4>1. s.high = s.high + fresh
        BY <1>6, Zenon
      <4> QED
        BY <1>0, <1>4, <4>1
    <3> QED
      BY <1>10, <1>12, <3>1, Zenon
  <2>3. (/\ s.cWnd >= Seg /\ s.head < s.high
         /\ s.lost = Sent(s) /\ s.sacked = {} /\ s.retrans = {}) => s.rto = TRUE
    BY <1>6, <1>11, <1>12, Zenon
  <2> QED
    BY <1>12, <2>1, <2>2, <2>3, Zenon
<1>13. CASE SendPendingData(s) = t
  <2>1. t.high >= s.high /\ (fresh > 0 => t.high > s.high)
    BY <1>0, <1>4, <1>6
  <2>2. t.rto = s.rto \/ t.head < t.high
    <3>1. SendPendingData(s) = s \/ resent # {} \/ fresh # 0
      BY <1>7, Zenon
    <3>2. CASE SendPendingData(s) = s
      BY <1>13, <3>2, Zenon
    <3>3. CASE resent # {}
      <4>1. Sent(s) # {}
        BY <1>1, <1>3, <3>3
      <4>2. s.head < s.high
        BY <1>0, <4>1 DEF Sent
      <4> QED
        BY <1>0, <1>4, <1>6, <4>2
    <3>4. CASE fresh # 0
      BY <1>0, <1>4, <1>6, <3>4
    <3> QED
      BY <3>1, <3>2, <3>3, <3>4
  <2> QED
    BY <1>6, <1>8, <1>10, <1>13, <2>1, <2>2, Zenon
<1> QED
  BY <1>7, <1>12, <1>13, Zenon

-----------------------------------------------------------------------------
(* TcpSocketBase: what an acknowledgment makes of a round.                 *)

\* The limits of a round, and the count of duplicate ACKs in it.
Rounds(s) ==
    /\ s.cong \in CongState
    /\ s.cong = "RECOVERY" => s.head < s.recover
    /\ s.cong = "CWR" => s.head <= s.recover
    /\ s.cong \in {"OPEN", "DISORDER"} => s.head >= s.recover
    /\ s.cong = "OPEN" => s.dup = 0
    /\ s.cong = "DISORDER" => s.dup < RetxThresh

LEMMA ControlsBounded ==
    ASSUME NEW s, Bounded(s), NEW t \in CongControl(s)
    PROVE  /\ Bounded(t)
           /\ t.head = s.head /\ t.high = s.high /\ t.cong = s.cong
           /\ t.recover = s.recover /\ t.dup = s.dup /\ t.up = s.up
           /\ t.rto = s.rto /\ t.ssThresh = s.ssThresh
           /\ t.lost = s.lost /\ t.sacked = s.sacked /\ t.retrans = s.retrans
           /\ \/ t.cWnd = s.cWnd /\ t.frac = IF s.frac = Indeterminate THEN s.cWnd ELSE s.frac
              \/ t.cWnd = t.frac /\ t.frac \in Windows
<1>1. Typed(t)
  BY Controls DEF Bounded
<1>2. /\ t.head = s.head /\ t.high = s.high /\ t.cong = s.cong
      /\ t.recover = s.recover /\ t.dup = s.dup /\ t.up = s.up
      /\ t.rto = s.rto /\ t.ssThresh = s.ssThresh /\ t.out = s.out
      /\ t.lost = s.lost /\ t.sacked = s.sacked /\ t.retrans = s.retrans
      /\ More \subseteq DOMAIN t
      /\ \/ t.cWnd = s.cWnd /\ t.frac = IF s.frac = Indeterminate THEN s.cWnd ELSE s.frac
         \/ t.cWnd = t.frac /\ t.frac \in Windows
  <2>1. CASE t = [s EXCEPT !.frac = IF @ = Indeterminate THEN s.cWnd ELSE @]
    BY <2>1, Zenon DEF Bounded, Typed, Fields, More
  <2>2. CASE \E w \in Windows : t = [s EXCEPT !.frac = w, !.cWnd = w]
    BY <2>2, Zenon DEF Bounded, Typed, Fields, More
  <2> QED
    BY <2>1, <2>2, Zenon DEF CongControl
<1>3. Sent(t) = Sent(s)
  BY <1>2, Zenon DEF Sent
<1>4. Marks(t) /\ Places(t)
  BY <1>2, <1>3, Zenon DEF Bounded, Marks, Places
<1> QED
  BY <1>1, <1>2, <1>4, Zenon DEF Bounded

LEMMA CwrBounded ==
    ASSUME NEW s, Bounded(s)
    PROVE  LET t == EnterCwr(s)
           IN /\ Bounded(t) /\ t.head = s.head /\ t.high = s.high
              /\ t.cong = "CWR" /\ t.recover = s.high
              /\ t.dup = s.dup /\ t.up = s.up /\ t.rto = s.rto
              /\ t.cWnd = s.cWnd /\ t.frac = s.frac
<1> DEFINE t == EnterCwr(s)
<1>1. /\ t.head = s.head /\ t.high = s.high
      /\ t.cong = "CWR" /\ t.recover = s.high
      /\ t.dup = s.dup /\ t.up = s.up /\ t.rto = s.rto /\ t.out = s.out
      /\ t.cWnd = s.cWnd /\ t.frac = s.frac /\ t.ssThresh = s.frac
      /\ t.lost = s.lost /\ t.sacked = s.sacked /\ t.retrans = s.retrans
      /\ More \subseteq DOMAIN t /\ Fields \subseteq DOMAIN t
  BY Zenon DEF EnterCwr, Bounded, Typed, Fields, More
<1> HIDE DEF t
<1>2. Typed(t)
  BY <1>1, Zenon DEF Bounded, Typed
<1>3. Sent(t) = Sent(s)
  BY <1>1, Zenon DEF Sent
<1>4. Marks(t)
  BY <1>1, <1>3, Zenon DEF Bounded, Marks
<1>5. Places(t)
  BY <1>1 DEF Bounded, Typed, Places
<1>6. Bounded(t)
  BY <1>1, <1>2, <1>4, <1>5, Zenon DEF Bounded
<1> QED
  BY <1>1, <1>6, Zenon DEF t

LEMMA RecoversBounded ==
    ASSUME NEW s, Bounded(s), s.head < s.high
    PROVE  LET t == EnterRecovery(s)
           IN /\ Bounded(t) /\ t.head = s.head /\ t.high = s.high
              /\ t.cong = "RECOVERY" /\ t.recover = s.high
              /\ t.dup = s.dup /\ t.up = s.up /\ t.rto = TRUE
              /\ t.cWnd = s.cWnd /\ t.frac = s.frac /\ t.ssThresh = s.frac
<1> DEFINE marked == MarkHeadAsLost(AddRenoSack(s))
           entered == [marked EXCEPT !.recover = s.high, !.active = TRUE,
                                     !.cong = "RECOVERY", !.ssThresh = s.frac]
<1>1. Bounded(AddRenoSack(s)) /\ Marked(s, AddRenoSack(s))
  BY SackBounded
<1>2. Bounded(marked) /\ Marked(AddRenoSack(s), marked)
  BY <1>1, MarkBounded
<1>3. Marked(s, marked)
  BY <1>1, <1>2, Zenon DEF Marked, Kept
<1> HIDE DEF marked
<1>4. /\ entered.head = s.head /\ entered.high = s.high
      /\ entered.cong = "RECOVERY" /\ entered.recover = s.high
      /\ entered.dup = s.dup /\ entered.up = s.up
      /\ entered.rto = marked.rto /\ entered.out = marked.out
      /\ entered.cWnd = s.cWnd /\ entered.frac = s.frac /\ entered.ssThresh = s.frac
      /\ entered.lost = marked.lost /\ entered.sacked = marked.sacked
      /\ entered.retrans = marked.retrans
      /\ More \subseteq DOMAIN entered /\ Fields \subseteq DOMAIN entered
      /\ marked.high = s.high /\ marked.head = s.head
  BY <1>2, <1>3, Zenon DEF Bounded, Typed, Fields, More, Marked, Kept
<1> HIDE DEF entered
<1>5. Typed(entered)
  BY <1>2, <1>4, Zenon DEF Bounded, Typed
<1>6. Sent(entered) = Sent(marked)
  BY <1>4, Zenon DEF Sent
<1>7. Marks(entered)
  BY <1>2, <1>4, <1>6, Zenon DEF Bounded, Marks
<1>8. Places(entered)
  BY <1>4 DEF Bounded, Typed, Places
<1>9. Bounded(entered)
  BY <1>2, <1>4, <1>5, <1>7, <1>8, Zenon DEF Bounded
<1>10. LET t == Resend(entered, entered.head)
       IN Bounded(t) /\ Kept(entered, t) /\ t.head = entered.head /\ t.rto = TRUE
  BY <1>4, <1>9, ResendBounded
<1>11. EnterRecovery(s) = Resend(entered, entered.head)
  BY <1>4, Zenon DEF EnterRecovery, entered, marked
<1> QED
  BY <1>4, <1>10, <1>11, Zenon DEF Kept

LEMMA DuplicateBounded ==
    ASSUME NEW s, Bounded(s), Rounds(s), s.head < s.high
    PROVE  LET t == DupAck(s)
           IN /\ Bounded(t) /\ Rounds(t)
              /\ t.head = s.head /\ t.high = s.high /\ t.up = s.up
              /\ t.cWnd = s.cWnd /\ t.frac = s.frac
              /\ t.rto = s.rto \/ t.rto = TRUE
              /\ t.cong = "LOSS" => s.cong = "LOSS" /\ t.recover = s.recover
              /\ t.cong = "RECOVERY" =>
                     \/ s.cong = "RECOVERY" /\ t.ssThresh = s.ssThresh
                     \/ s.dup + 1 = RetxThresh /\ t.ssThresh = s.frac
<1> DEFINE counted == [s EXCEPT !.dup = @ + 1,
                                !.cong = IF @ = "OPEN" THEN "DISORDER" ELSE @]
           enough == counted.dup = RetxThresh /\ (s.head >= s.recover \/ ~s.active)
<1>1. /\ counted.head = s.head /\ counted.high = s.high
      /\ counted.cong = (IF s.cong = "OPEN" THEN "DISORDER" ELSE s.cong)
      /\ counted.recover = s.recover /\ counted.dup = s.dup + 1 /\ counted.up = s.up
      /\ counted.rto = s.rto /\ counted.out = s.out
      /\ counted.cWnd = s.cWnd /\ counted.frac = s.frac /\ counted.ssThresh = s.ssThresh
      /\ counted.lost = s.lost /\ counted.sacked = s.sacked /\ counted.retrans = s.retrans
      /\ More \subseteq DOMAIN counted /\ Fields \subseteq DOMAIN counted
  BY Zenon DEF Bounded, Typed, Fields, More
<1>2. DupAck(s) = CASE s.cong = "LOSS" -> s
                    [] s.cong = "RECOVERY" -> AddRenoSack(s)
                    [] s.cong = "CWR" -> counted
                    [] s.cong \in {"OPEN", "DISORDER"} /\ enough -> EnterRecovery(counted)
                    [] OTHER -> AddRenoSack(counted)
  BY Zenon DEF DupAck
<1>3. /\ s.dup \in Int /\ s.dup + 1 \in Int /\ RetxThresh \in Nat \ {0}
      /\ s.cong = "OPEN" => s.dup + 1 <= RetxThresh
      /\ s.cong = "DISORDER" => s.dup + 1 <= RetxThresh
      /\ s.dup + 1 <= RetxThresh /\ s.dup + 1 # RetxThresh => s.dup + 1 < RetxThresh
  BY CountAssumption DEF Bounded, Rounds
<1> HIDE DEF counted
<1>4. Bounded(counted)
  <2>1. Typed(counted)
    BY <1>1, Zenon DEF Bounded, Typed
  <2>2. Sent(counted) = Sent(s)
    BY <1>1, Zenon DEF Sent
  <2>3. Marks(counted) /\ Places(counted)
    BY <1>1, <2>2, Zenon DEF Bounded, Marks, Places
  <2> QED
    BY <1>1, <1>3, <2>1, <2>3, Zenon DEF Bounded
<1>5. CASE s.cong = "LOSS"
  BY <1>2, <1>5, Zenon
<1>6. CASE s.cong = "RECOVERY"
  <2>1. DupAck(s) = AddRenoSack(s)
    BY <1>2, <1>6, Zenon
  <2> QED
    BY <1>6, <2>1, SackBounded, Zenon DEF Marked, Kept, Rounds
<1>7. CASE s.cong = "CWR"
  <2>1. DupAck(s) = counted
    BY <1>2, <1>7, Zenon
  <2> QED
    BY <1>1, <1>4, <1>7, <2>1, Zenon DEF Rounds
<1>8. CASE s.cong \in {"OPEN", "DISORDER"}
  <2>1. s.head >= s.recover
    BY <1>8 DEF Rounds
  <2>2. CASE s.dup + 1 = RetxThresh
    <3>1. DupAck(s) = EnterRecovery(counted)
      BY <1>1, <1>2, <1>8, <2>1, <2>2, Zenon
    <3>2. counted.head < counted.high
      BY <1>1, Zenon
    <3>3. LET t == EnterRecovery(counted)
          IN /\ Bounded(t) /\ t.head = s.head /\ t.high = s.high
             /\ t.cong = "RECOVERY" /\ t.recover = s.high
             /\ t.up = s.up /\ t.rto = TRUE
             /\ t.cWnd = s.cWnd /\ t.frac = s.frac /\ t.ssThresh = s.frac
      BY <1>1, <1>4, <3>2, RecoversBounded, Zenon
    <3> QED
      BY <2>2, <3>1, <3>3, Zenon DEF Rounds, CongState
  <2>3. CASE s.dup + 1 # RetxThresh
    <3>1. DupAck(s) = AddRenoSack(counted)
      BY <1>1, <1>2, <1>8, <2>3, Zenon
    <3>2. LET t == AddRenoSack(counted) IN Bounded(t) /\ Marked(counted, t)
      BY <1>4, SackBounded
    <3>3. counted.cong = "DISORDER" /\ counted.dup < RetxThresh
      BY <1>1, <1>3, <1>8, <2>3, Zenon
    <3> QED
      BY <1>1, <2>1, <3>1, <3>2, <3>3, Zenon DEF Rounds, CongState, Marked, Kept
  <2> QED
    BY <2>2, <2>3
<1> QED
  BY <1>5, <1>6, <1>7, <1>8, Zenon DEF Rounds, CongState

\* An ACK of new data leaves the timer running if there is more to send.
LEMMA NewAckBounded ==
    ASSUME NEW s, Bounded(s), NEW resetRTO, resetRTO = TRUE \/ s.rto = TRUE
    PROVE  LET t == NewAck(s, resetRTO)
           IN Bounded(t) /\ Kept(s, t) /\ t.head = s.head /\ (t.rto <=> s.head < Data)
<1> DEFINE t == NewAck(s, resetRTO)
<1>1. /\ Kept(s, t) /\ t.head = s.head /\ t.rto = (s.head < Data /\ (resetRTO \/ s.rto))
      /\ t.out = s.out
      /\ t.lost = s.lost /\ t.sacked = s.sacked /\ t.retrans = s.retrans
      /\ More \subseteq DOMAIN t /\ Fields \subseteq DOMAIN t
  BY Zenon DEF NewAck, Bounded, Typed, Fields, More, Kept
<1> HIDE DEF t
<1>2. t.rto \in BOOLEAN /\ (t.rto <=> s.head < Data)
  BY <1>1, Zenon
<1>3. Typed(t)
  BY <1>1, Zenon DEF Bounded, Typed, Kept
<1>4. Sent(t) = Sent(s)
  BY <1>1, Zenon DEF Sent, Kept
<1>5. Marks(t) /\ Places(t)
  BY <1>1, <1>4, Zenon DEF Bounded, Marks, Places, Kept
<1>6. Bounded(t)
  BY <1>1, <1>2, <1>3, <1>5, Zenon DEF Bounded, Kept
<1> QED
  BY <1>1, <1>2, <1>6, Zenon DEF t

LEMMA PartialBounded ==
    ASSUME NEW s, Bounded(s), s.head < s.high
    PROVE  LET t == PartialAck(s)
           IN Bounded(t) /\ Kept(s, t) /\ t.head = s.head /\ (t.rto <=> s.head < Data)
<1> DEFINE marked == MarkHeadAsLost(s)
           sent == Resend(marked, marked.head)
           acked == NewAck(sent, s.first)
           t == [acked EXCEPT !.first = FALSE]
<1>1. Bounded(marked) /\ Marked(s, marked)
  BY MarkBounded
<1>2. marked.head = s.head /\ marked.head < marked.high
  BY <1>1, Zenon DEF Marked, Kept
<1> HIDE DEF marked
<1>3. Bounded(sent) /\ Kept(marked, sent) /\ sent.head = marked.head /\ sent.rto = TRUE
  BY <1>1, <1>2, ResendBounded
<1> HIDE DEF sent
<1>4. /\ Bounded(acked) /\ Kept(sent, acked) /\ acked.head = sent.head
      /\ acked.rto <=> sent.head < Data
  BY <1>3, NewAckBounded
<1> HIDE DEF acked
<1>5. /\ Kept(acked, t) /\ t.head = acked.head /\ t.rto = acked.rto /\ t.out = acked.out
      /\ t.lost = acked.lost /\ t.sacked = acked.sacked /\ t.retrans = acked.retrans
      /\ More \subseteq DOMAIN t /\ Fields \subseteq DOMAIN t
  BY <1>4, Zenon DEF Bounded, Typed, Fields, More, Kept
<1>6. PartialAck(s) = t
  BY <1>2, Zenon DEF PartialAck, acked, sent, marked
<1> HIDE DEF t
<1>7. Typed(t)
  BY <1>4, <1>5, Zenon DEF Bounded, Typed, Kept
<1>8. Sent(t) = Sent(acked)
  BY <1>5, Zenon DEF Sent, Kept
<1>9. Marks(t) /\ Places(t)
  BY <1>4, <1>5, <1>8, Zenon DEF Bounded, Marks, Places, Kept
<1>10. Bounded(t)
  BY <1>4, <1>5, <1>7, <1>9, Zenon DEF Bounded, Kept
<1>11. Kept(s, t) /\ t.head = s.head
  BY <1>1, <1>3, <1>4, <1>5, Zenon DEF Marked, Kept
<1> QED
  BY <1>2, <1>3, <1>4, <1>5, <1>6, <1>10, <1>11, Zenon

LEMMA FullBounded ==
    ASSUME NEW s, Bounded(s)
    PROVE  LET t == FullAck(s)
           IN /\ Bounded(t) /\ t.head = s.head /\ t.high = s.high /\ t.cong = "OPEN"
              /\ t.recover = s.recover /\ t.dup = s.dup /\ t.up = s.up
              /\ t.frac = s.frac
              /\ t.cWnd = IF s.cong = "RECOVERY" THEN s.ssThresh ELSE s.cWnd
              /\ t.rto <=> s.head < Data
<1> DEFINE ended == [s EXCEPT !.first = @ \/ s.cong \in {"RECOVERY", "LOSS"},
                              !.cong = "OPEN",
                              !.active = @ /\ s.head < s.recover]
           left == IF s.cong = "RECOVERY" THEN [ended EXCEPT !.cWnd = s.ssThresh] ELSE ended
<1>1. /\ ended.head = s.head /\ ended.high = s.high /\ ended.cong = "OPEN"
      /\ ended.recover = s.recover /\ ended.dup = s.dup /\ ended.up = s.up
      /\ ended.frac = s.frac /\ ended.ssThresh = s.ssThresh /\ ended.cWnd = s.cWnd
      /\ ended.rto = s.rto /\ ended.out = s.out
      /\ ended.lost = s.lost /\ ended.sacked = s.sacked /\ ended.retrans = s.retrans
      /\ More \subseteq DOMAIN ended /\ Fields \subseteq DOMAIN ended
  BY Zenon DEF Bounded, Typed, Fields, More
<1> HIDE DEF ended
<1>2. /\ left.head = s.head /\ left.high = s.high /\ left.cong = "OPEN"
      /\ left.recover = s.recover /\ left.dup = s.dup /\ left.up = s.up
      /\ left.frac = s.frac /\ left.ssThresh = s.ssThresh
      /\ left.cWnd = (IF s.cong = "RECOVERY" THEN s.ssThresh ELSE s.cWnd)
      /\ left.rto = s.rto /\ left.out = s.out
      /\ left.lost = s.lost /\ left.sacked = s.sacked /\ left.retrans = s.retrans
      /\ More \subseteq DOMAIN left /\ Fields \subseteq DOMAIN left
  BY <1>1, Zenon DEF Fields, More
<1> HIDE DEF left
<1>3. Typed(left)
  BY <1>2, Zenon DEF Bounded, Typed
<1>4. Sent(left) = Sent(s)
  BY <1>2, Zenon DEF Sent
<1>5. Marks(left) /\ Places(left)
  BY <1>2, <1>4, Zenon DEF Bounded, Marks, Places
<1>6. Bounded(left)
  BY <1>2, <1>3, <1>5, Zenon DEF Bounded
<1>7. LET t == NewAck(left, TRUE)
      IN Bounded(t) /\ Kept(left, t) /\ t.head = left.head /\ (t.rto <=> left.head < Data)
  BY <1>6, NewAckBounded
<1>8. FullAck(s) = NewAck(left, TRUE)
  BY Zenon DEF FullAck, left, ended
<1> QED
  BY <1>2, <1>7, <1>8, Zenon DEF Kept

\* An ACK of new data goes on with the round or ends it.
LEMMA NewDataBounded ==
    ASSUME NEW s, Bounded(s), s.cong \in CongState,
           s.cong = "CWR" => s.head <= s.recover,
           s.cong \in {"OPEN", "DISORDER"} => s.head >= s.recover
    PROVE  LET t == ProcessAck(s, TRUE)
           IN /\ Bounded(t) /\ Rounds(t)
              /\ t.head = s.head /\ t.high = s.high /\ t.up = s.up /\ t.dup = 0
              /\ t.frac = s.frac
              /\ t.cWnd = s.cWnd \/ (s.cong = "RECOVERY" /\ t.cWnd = s.ssThresh)
              /\ t.cong = "RECOVERY" => s.cong = "RECOVERY" /\ t.ssThresh = s.ssThresh
              /\ t.cong = "LOSS" => t.head < t.recover
              /\ t.rto <=> s.head < Data
<1> DEFINE counted == [s EXCEPT !.dup = 0]
<1>1. /\ counted.head = s.head /\ counted.high = s.high /\ counted.cong = s.cong
      /\ counted.recover = s.recover /\ counted.dup = 0 /\ counted.up = s.up
      /\ counted.rto = s.rto /\ counted.out = s.out
      /\ counted.cWnd = s.cWnd /\ counted.frac = s.frac /\ counted.ssThresh = s.ssThresh
      /\ counted.lost = s.lost /\ counted.sacked = s.sacked /\ counted.retrans = s.retrans
      /\ More \subseteq DOMAIN counted /\ Fields \subseteq DOMAIN counted
  BY Zenon DEF Bounded, Typed, Fields, More
<1>2. ProcessAck(s, TRUE) =
          IF s.cong = "RECOVERY" /\ s.head < s.recover THEN PartialAck(counted)
          ELSE IF s.cong = "LOSS" /\ s.head < s.recover THEN NewAck(counted, TRUE)
          ELSE IF s.cong = "CWR" THEN NewAck(counted, TRUE)
          ELSE FullAck(counted)
  BY Zenon DEF ProcessAck
<1> HIDE DEF counted
<1>3. Bounded(counted)
  <2>1. Typed(counted)
    BY <1>1, Zenon DEF Bounded, Typed
  <2>2. Sent(counted) = Sent(s)
    BY <1>1, Zenon DEF Sent
  <2>3. Marks(counted) /\ Places(counted)
    BY <1>1, <2>2, Zenon DEF Bounded, Marks, Places
  <2> QED
    BY <1>1, <2>1, <2>3 DEF Bounded
<1>4. s.head \in Int /\ s.high \in Int /\ s.recover \in Int /\ s.recover <= s.high
  BY DEF Bounded, Typed, Places
<1>5. LET t == NewAck(counted, TRUE)
      IN Bounded(t) /\ Kept(counted, t) /\ t.head = s.head /\ (t.rto <=> s.head < Data)
  BY <1>1, <1>3, NewAckBounded, Zenon
<1>6. CASE s.cong = "RECOVERY" /\ s.head < s.recover
  <2>1. counted.head < counted.high
    BY <1>1, <1>4, <1>6
  <2>2. LET t == PartialAck(counted)
        IN Bounded(t) /\ Kept(counted, t) /\ t.head = s.head /\ (t.rto <=> s.head < Data)
    BY <1>1, <1>3, <2>1, PartialBounded, Zenon
  <2>3. ProcessAck(s, TRUE) = PartialAck(counted)
    BY <1>2, <1>6, Zenon
  <2> QED
    BY <1>1, <1>6, <2>2, <2>3, Zenon DEF Kept, Rounds, CongState
<1>7. CASE s.cong = "LOSS" /\ s.head < s.recover
  <2>1. ProcessAck(s, TRUE) = NewAck(counted, TRUE)
    BY <1>2, <1>7, Zenon
  <2> QED
    BY <1>1, <1>5, <1>7, <2>1, Zenon DEF Kept, Rounds, CongState
<1>8. CASE s.cong = "CWR"
  <2>1. ProcessAck(s, TRUE) = NewAck(counted, TRUE)
    BY <1>2, <1>8, Zenon
  <2> QED
    BY <1>1, <1>5, <1>8, <2>1, Zenon DEF Kept, Rounds, CongState
<1>9. CASE /\ s.cong # "CWR"
           /\ s.cong \in {"RECOVERY", "LOSS"} => ~(s.head < s.recover)
  <2>1. ProcessAck(s, TRUE) = FullAck(counted)
    BY <1>2, <1>9, Zenon
  <2>2. LET t == FullAck(counted)
        IN /\ Bounded(t) /\ t.head = s.head /\ t.high = s.high /\ t.cong = "OPEN"
           /\ t.recover = s.recover /\ t.dup = 0 /\ t.up = s.up
           /\ t.frac = s.frac
           /\ t.cWnd = IF s.cong = "RECOVERY" THEN s.ssThresh ELSE s.cWnd
           /\ t.rto <=> s.head < Data
    <3>1. LET t == FullAck(counted)
          IN /\ Bounded(t) /\ t.head = counted.head /\ t.high = counted.high
             /\ t.cong = "OPEN"
             /\ t.recover = counted.recover /\ t.dup = counted.dup /\ t.up = counted.up
             /\ t.frac = counted.frac
             /\ t.cWnd = IF counted.cong = "RECOVERY" THEN counted.ssThresh
                         ELSE counted.cWnd
             /\ t.rto <=> counted.head < Data
      BY <1>3, FullBounded
    <3> QED
      BY <1>1, <3>1, Zenon
  <2>3. s.head >= s.recover
    BY <1>4, <1>9 DEF CongState
  <2> QED
    BY <2>1, <2>2, <2>3, Zenon DEF Rounds, CongState
<1> QED
  BY <1>6, <1>7, <1>8, <1>9, Zenon

\* An ACK of new data may leave CA_CWR, and enter it, before ProcessAck.
Over(s, ack) ==
    IF s.cong = "CWR" /\ ack > s.recover
    THEN [DiscardUpTo(s, ack) EXCEPT !.cong = "OPEN"]
    ELSE DiscardUpTo(s, ack)
Echoed(s, ack, ece) ==
    IF ack > s.head /\ ece /\ Over(s, ack).cong # "CWR"
    THEN EnterCwr(Over(s, ack))
    ELSE Over(s, ack)

LEMMA OverBounded ==
    ASSUME NEW s, Bounded(s), Rounds(s), NEW ack \in Int, ack > s.head, ack <= s.high
    PROVE  LET over == Over(s, ack)
           IN /\ Bounded(over) /\ over.head = ack /\ over.high = s.high /\ over.up = s.up
              /\ over.frac = s.frac /\ over.cWnd = s.cWnd /\ over.ssThresh = s.ssThresh
              /\ over.recover = s.recover /\ over.cong \in CongState
              /\ over.cong = s.cong \/ (over.cong = "OPEN" /\ s.recover < ack)
              /\ over.lost = DiscardUpTo(s, ack).lost
              /\ over.sacked = DiscardUpTo(s, ack).sacked
              /\ over.retrans = DiscardUpTo(s, ack).retrans
              /\ over.cong = "CWR" => ack <= over.recover
              /\ over.cong \in {"OPEN", "DISORDER"} => ack >= over.recover
<1> DEFINE discarded == DiscardUpTo(s, ack)
           over == Over(s, ack)
<1>0. s.head \in Int /\ s.high \in Int /\ s.recover \in Int /\ s.head <= s.high
  BY DEF Bounded, Typed, Places
<1>1. /\ ack >= s.head
      /\ ack > s.recover => ack >= s.recover /\ s.recover < ack
      /\ ~(ack > s.recover) => ack <= s.recover
      /\ s.head >= s.recover => ack >= s.recover
  BY <1>0
<1>2. Bounded(discarded) /\ Kept(s, discarded) /\ discarded.head = ack
  BY <1>1, DiscardBounded
<1>3. over = IF s.cong = "CWR" /\ ack > s.recover
             THEN [discarded EXCEPT !.cong = "OPEN"] ELSE discarded
  BY Zenon DEF Over
<1> HIDE DEF discarded, over
<1>4. CASE s.cong = "CWR" /\ ack > s.recover
  <2> DEFINE t == [discarded EXCEPT !.cong = "OPEN"]
  <2>1. /\ t.head = ack /\ t.high = s.high /\ t.cong = "OPEN"
        /\ t.recover = s.recover /\ t.dup = discarded.dup /\ t.up = s.up
        /\ t.rto = discarded.rto /\ t.out = discarded.out
        /\ t.cWnd = s.cWnd /\ t.frac = s.frac /\ t.ssThresh = s.ssThresh
        /\ t.lost = discarded.lost /\ t.sacked = discarded.sacked
        /\ t.retrans = discarded.retrans
        /\ More \subseteq DOMAIN t /\ Fields \subseteq DOMAIN t
        /\ discarded.high = s.high /\ discarded.recover = s.recover
        /\ discarded.frac = s.frac /\ discarded.cWnd = s.cWnd
        /\ discarded.ssThresh = s.ssThresh
    BY <1>2, Zenon DEF Bounded, Typed, Fields, More, Kept
  <2>2. over = t
    BY <1>3, <1>4, Zenon
  <2> HIDE DEF t
  <2>3. Typed(t)
    BY <1>2, <2>1, Zenon DEF Bounded, Typed
  <2>4. Sent(t) = Sent(discarded)
    BY <1>2, <2>1, Zenon DEF Sent
  <2>5. Marks(t) /\ Places(t)
    BY <1>2, <2>1, <2>4, Zenon DEF Bounded, Marks, Places
  <2>6. Bounded(t)
    BY <1>2, <2>1, <2>3, <2>5, Zenon DEF Bounded
  <2> QED
    BY <1>1, <1>4, <2>1, <2>2, <2>6, Zenon DEF CongState, discarded, over
<1>5. CASE ~(s.cong = "CWR" /\ ack > s.recover)
  <2>1. over = discarded
    BY <1>3, <1>5, Zenon
  <2> QED
    BY <1>1, <1>2, <1>5, <2>1, Zenon DEF Rounds, Kept, discarded, over
<1> QED
  BY <1>4, <1>5

LEMMA EchoBounded ==
    ASSUME NEW s, Bounded(s), Rounds(s), NEW ack \in Int, ack > s.head, ack <= s.high,
           NEW ece
    PROVE  LET echoed == Echoed(s, ack, ece)
           IN /\ Bounded(echoed)
              /\ echoed.head = ack /\ echoed.high = s.high /\ echoed.up = s.up
              /\ echoed.frac = s.frac /\ echoed.cWnd = s.cWnd
              /\ echoed.cong \in CongState
              /\ echoed.cong = "RECOVERY" =>
                     s.cong = "RECOVERY" /\ echoed.ssThresh = s.ssThresh
              /\ echoed.cong = "CWR" => echoed.head <= echoed.recover
              /\ echoed.cong \in {"OPEN", "DISORDER"} => echoed.head >= echoed.recover
<1> DEFINE over == Over(s, ack)
           echoed == Echoed(s, ack, ece)
<1>1. /\ Bounded(over) /\ over.head = ack /\ over.high = s.high /\ over.up = s.up
      /\ over.frac = s.frac /\ over.cWnd = s.cWnd /\ over.ssThresh = s.ssThresh
      /\ over.cong \in CongState
      /\ over.cong = s.cong \/ over.cong = "OPEN"
      /\ over.cong = "CWR" => ack <= over.recover
      /\ over.cong \in {"OPEN", "DISORDER"} => ack >= over.recover
  BY OverBounded, Zenon
<1>2. echoed \in {over, EnterCwr(over)}
  BY Zenon DEF Echoed
<1> HIDE DEF over, echoed
<1>3. LET t == EnterCwr(over)
      IN /\ Bounded(t) /\ t.head = ack /\ t.high = s.high
         /\ t.cong = "CWR" /\ t.recover = s.high
         /\ t.up = s.up /\ t.cWnd = s.cWnd /\ t.frac = s.frac
  BY <1>1, CwrBounded, Zenon
<1>4. CASE echoed = over
  BY <1>1, <1>4, Zenon DEF echoed
<1>5. CASE echoed = EnterCwr(over)
  BY <1>3, <1>5, Zenon DEF CongState, echoed
<1> QED
  BY <1>2, <1>4, <1>5, Zenon

\* What an acknowledgment up to ack makes of s: the socket t.
AckOutcome(s, ack, t) ==
    /\ Bounded(t) /\ Rounds(t)
    /\ t.head = ack /\ t.high = s.high /\ t.up = s.up
    /\ t.frac = s.frac
    /\ t.cWnd = s.cWnd \/ (s.cong = "RECOVERY" /\ t.cWnd = s.ssThresh)
    /\ t.cong = "RECOVERY" =>
           \/ s.cong = "RECOVERY" /\ t.ssThresh = s.ssThresh
           \/ s.dup + 1 = RetxThresh /\ t.ssThresh = s.frac
    /\ t.cong = "LOSS" =>
           \/ t.head < t.recover
           \/ s.cong = "LOSS" /\ t.head = s.head /\ t.recover = s.recover
    /\ \/ t.rto <=> t.head < Data
       \/ t.head = s.head /\ (t.rto = s.rto \/ (t.rto = TRUE /\ s.head < s.high))

LEMMA AckBounded ==
    ASSUME NEW s, Bounded(s), Rounds(s), NEW ack \in Int, ack >= s.head, ack <= s.high,
           NEW ece \in BOOLEAN
    PROVE  AckOutcome(s, ack, Acknowledged(s, ack, ece))
<1> USE DEF AckOutcome
<1> DEFINE isNew == ack > s.head
           echoed == Echoed(s, ack, ece)
<1>0. s.head \in Int /\ s.high \in Int /\ s.recover \in Int /\ s.head <= s.high
  BY DEF Bounded, Typed, Places
<1>1. Acknowledged(s, ack, ece) = ProcessAck(echoed, isNew)
  BY Zenon DEF Acknowledged, Echoed, Over
<1>2. CASE ack = s.head
  <2>1. isNew = FALSE /\ ack <= s.head
    BY <1>0, <1>2
  <2>2. ~(s.cong = "CWR" /\ ack > s.recover)
    BY <1>0, <1>2 DEF Rounds
  <2>3. DiscardUpTo(s, ack) = s
    BY <2>1, Zenon DEF DiscardUpTo
  <2>4. echoed = s
    BY <2>1, <2>2, <2>3, Zenon DEF Echoed, Over
  <2>5. Acknowledged(s, ack, ece) = ProcessAck(s, FALSE)
    BY <1>1, <2>1, <2>4, Zenon
  <2>6. /\ s.head < s.high /\ ~(s.head >= s.high) => ProcessAck(s, FALSE) = DupAck(s)
        /\ s.head >= s.high /\ ~(s.head < s.high) => ProcessAck(s, FALSE) = s
    BY Zenon DEF ProcessAck
  <2>7. CASE s.head < s.high
    <3>1. Acknowledged(s, ack, ece) = DupAck(s)
      <4>1. ~(s.head >= s.high)
        BY <1>0, <2>7
      <4> QED
        BY <2>5, <2>6, <2>7, <4>1, Zenon
    <3> QED
      <4>1. LET t == DupAck(s)
            IN /\ Bounded(t) /\ Rounds(t)
               /\ t.head = s.head /\ t.high = s.high /\ t.up = s.up
               /\ t.cWnd = s.cWnd /\ t.frac = s.frac
               /\ t.rto = s.rto \/ t.rto = TRUE
               /\ t.cong = "LOSS" => s.cong = "LOSS" /\ t.recover = s.recover
               /\ t.cong = "RECOVERY" =>
                      \/ s.cong = "RECOVERY" /\ t.ssThresh = s.ssThresh
                      \/ s.dup + 1 = RetxThresh /\ t.ssThresh = s.frac
        BY <2>7, DuplicateBounded
      <4> QED
        BY <1>2, <2>7, <3>1, <4>1, Zenon
  <2>8. CASE ~(s.head < s.high)
    <3>1. s.head >= s.high
      BY <1>0, <2>8
    <3>2. Acknowledged(s, ack, ece) = s
      BY <2>5, <2>6, <2>8, <3>1, Zenon
    <3> QED
      BY <1>2, <3>2, Zenon
  <2> QED
    BY <2>7, <2>8
<1>3. CASE ack # s.head
  <2>1. isNew = TRUE /\ ack > s.head
    BY <1>0, <1>3
  <2>2. /\ Bounded(echoed) /\ echoed.head = ack /\ echoed.high = s.high /\ echoed.up = s.up
        /\ echoed.frac = s.frac /\ echoed.cWnd = s.cWnd
        /\ echoed.cong \in CongState
        /\ echoed.cong = "RECOVERY" => s.cong = "RECOVERY" /\ echoed.ssThresh = s.ssThresh
        /\ echoed.cong = "CWR" => echoed.head <= echoed.recover
        /\ echoed.cong \in {"OPEN", "DISORDER"} => echoed.head >= echoed.recover
    BY <2>1, EchoBounded
  <2>3. Acknowledged(s, ack, ece) = ProcessAck(echoed, TRUE)
    BY <1>1, <2>1, Zenon
  <2> HIDE DEF echoed
  <2>4. LET t == ProcessAck(echoed, TRUE)
        IN /\ Bounded(t) /\ Rounds(t)
           /\ t.head = echoed.head /\ t.high = echoed.high /\ t.up = echoed.up /\ t.dup = 0
           /\ t.frac = echoed.frac
           /\ t.cWnd = echoed.cWnd \/ (echoed.cong = "RECOVERY" /\ t.cWnd = echoed.ssThresh)
           /\ t.cong = "RECOVERY" =>
                  echoed.cong = "RECOVERY" /\ t.ssThresh = echoed.ssThresh
           /\ t.cong = "LOSS" => t.head < t.recover
           /\ t.rto <=> echoed.head < Data
    BY <2>2, NewDataBounded
  <2> QED
    BY <2>2, <2>3, <2>4, Zenon
<1> QED
  BY <1>2, <1>3

-----------------------------------------------------------------------------
(* The invariants.  Nothing that has not been sent is in flight, held by   *)
(* the receiver or acknowledged.                                           *)

Flight ==
    /\ rcv <= snd.high
    /\ Below(data, snd.high)
    /\ \A q \in held : q \in Int /\ q < snd.high

RoundInv == RecInv /\ Bounded(snd) /\ Rounds(snd) /\ Flight

\* The controller keeps at least one segment, and one duplicate ACK is not enough for
\* fast retransmit.
WholeSegments == RetxThresh > 1 /\ \A w \in Windows : w >= Seg

\* Under WholeSegments the window always has room for a segment, and the timer runs
\* exactly while data is outstanding.
Timed ==
    /\ snd.cWnd >= Seg
    /\ snd.frac = Indeterminate \/ snd.frac >= Seg
    /\ snd.cong = "RECOVERY" => snd.ssThresh >= Seg
    /\ snd.dup > 0 => snd.frac >= Seg
    /\ snd.cong = "LOSS" => snd.head < snd.recover
    /\ snd.up /\ snd.head < snd.high => snd.rto = TRUE
    /\ snd.rto = TRUE => snd.head < snd.high

\* The sender sends from s, and settles.
LEMMA SettlesBounded ==
    ASSUME NEW s, Bounded(s), Rounds(s), Below(data, s.high), Becomes(SendPendingData(s))
    PROVE  /\ Bounded(snd') /\ Rounds(snd') /\ Below(data', snd'.high)
           /\ snd'.head = s.head /\ snd'.cong = s.cong /\ snd'.recover = s.recover
           /\ snd'.dup = s.dup /\ snd'.up = s.up
           /\ snd'.cWnd = s.cWnd /\ snd'.frac = s.frac /\ snd'.ssThresh = s.ssThresh
           /\ snd'.high >= s.high
           /\ snd'.rto = s.rto \/ (snd'.rto = TRUE /\ snd'.head < snd'.high)
           /\ snd'.high > s.high => snd'.rto = TRUE
           /\ s.cWnd >= Seg /\ s.head = s.high /\ s.head # Data => snd'.high > s.high
           /\ (/\ s.cWnd >= Seg /\ s.head < s.high
               /\ s.lost = Sent(s) /\ s.sacked = {} /\ s.retrans = {}) => snd'.rto = TRUE
<1> DEFINE t == SendPendingData(s)
<1>1. /\ Bounded(t)
      /\ t.head = s.head /\ t.cong = s.cong /\ t.recover = s.recover
      /\ t.dup = s.dup /\ t.up = s.up
      /\ t.cWnd = s.cWnd /\ t.frac = s.frac /\ t.ssThresh = s.ssThresh
      /\ t.high >= s.high
      /\ t.rto = s.rto \/ (t.rto = TRUE /\ t.head < t.high)
      /\ t.high > s.high => t.rto = TRUE
      /\ s.cWnd >= Seg /\ s.head = s.high /\ s.head # Data => t.high > s.high
      /\ (/\ s.cWnd >= Seg /\ s.head < s.high
          /\ s.lost = Sent(s) /\ s.sacked = {} /\ s.retrans = {}) => t.rto = TRUE
  BY SendsBounded
<1>2. snd' = [t EXCEPT !.out = <<>>] /\ data' = data \o t.out
  BY Zenon DEF Becomes
<1> HIDE DEF t
<1>3. /\ snd'.head = t.head /\ snd'.high = t.high /\ snd'.cong = t.cong
      /\ snd'.recover = t.recover /\ snd'.dup = t.dup /\ snd'.up = t.up
      /\ snd'.cWnd = t.cWnd /\ snd'.frac = t.frac /\ snd'.ssThresh = t.ssThresh
      /\ snd'.rto = t.rto /\ snd'.out = <<>>
      /\ snd'.lost = t.lost /\ snd'.sacked = t.sacked /\ snd'.retrans = t.retrans
      /\ More \subseteq DOMAIN snd' /\ Fields \subseteq DOMAIN snd'
  BY <1>1, <1>2, Zenon DEF Bounded, Typed, Fields, More
<1>4. Typed(snd')
  BY <1>1, <1>3, Zenon DEF Bounded, Typed
<1>5. Sent(snd') = Sent(t)
  BY <1>3, Zenon DEF Sent
<1>6. Marks(snd') /\ Places(snd')
  BY <1>1, <1>3, <1>5, Zenon DEF Bounded, Marks, Places
<1>7. Below(snd'.out, snd'.high)
  BY <1>3 DEF Below
<1>8. Bounded(snd')
  BY <1>1, <1>3, <1>4, <1>6, <1>7, Zenon DEF Bounded
<1>9. Rounds(snd')
  BY <1>1, <1>3, Zenon DEF Rounds
<1>10. Below(data', snd'.high)
  <2>1. s.high \in Int /\ t.high \in Int
    BY <1>1 DEF Bounded, Typed
  <2>2. Below(data, t.high)
    BY <1>1, <2>1, BelowMore
  <2>3. Below(t.out, t.high)
    BY <1>1 DEF Bounded
  <2>4. Below(data \o t.out, t.high)
    BY <2>1, <2>2, <2>3, BelowConcat
  <2> QED
    BY <1>2, <1>3, <2>4, Zenon
<1> QED
  BY <1>1, <1>3, <1>8, <1>9, <1>10, Zenon

\* What has been sent stays sent.
LEMMA FlightGrows ==
    ASSUME RoundInv, Bounded(snd'), snd'.high >= snd.high, Below(data', snd'.high),
           UNCHANGED <<rcv, held>>
    PROVE  Flight'
<1>1. snd.high \in Int /\ snd'.high \in Int /\ rcv \in Int
  BY DEF RoundInv, RecInv, Received, Bounded, Typed
<1> QED
  BY <1>1 DEF RoundInv, Flight

LEMMA RoundsStart == Init => RoundInv
<1> SUFFICES ASSUME Init PROVE RoundInv
  OBVIOUS
<1>1. RecInv
  BY Starts
<1>2. /\ snd.head = 0 /\ snd.high = 0 /\ snd.recover = 0 /\ snd.dup = 0
      /\ snd.cong = "OPEN" /\ snd.rto = FALSE /\ snd.out = <<>>
      /\ snd.lost = {} /\ snd.sacked = {} /\ snd.retrans = {}
      /\ More \subseteq DOMAIN snd
      /\ rcv = 0 /\ held = {} /\ data = <<>>
  BY DEF Init, More
<1>3. Bounded(snd)
  <2>1. Places(snd) /\ Marks(snd) /\ Below(snd.out, snd.high) /\ snd.dup \in Int
    BY <1>2, CountAssumption DEF Places, Marks, Below
  <2> QED
    BY <1>1, <1>2, <2>1, Zenon DEF RecInv, Bounded
<1>4. Rounds(snd)
  BY <1>2 DEF Rounds, CongState
<1>5. Flight
  BY <1>2 DEF Flight, Below
<1> QED
  BY <1>1, <1>3, <1>4, <1>5 DEF RoundInv

\* An ACK that is not stale: what the sender makes of it, before it sends.
LEMMA AckTaken ==
    ASSUME RoundInv, ReceiveAck, ~(~snd.up \/ Head(acks) < snd.head)
    PROVE  \E s, a : /\ Becomes(SendPendingData(s)) /\ s \in CongControl(a)
                    /\ AckOutcome(snd, Head(acks), a)
<1>1. PICK ece \in Echoes :
          \E s \in CongControl(Acknowledged(snd, Head(acks), ece)) :
              Becomes(SendPendingData(s))
  BY Zenon DEF ReceiveAck
<1>2. /\ Head(acks) \in Int /\ Head(acks) <= rcv /\ rcv \in Int
  BY DEF ReceiveAck, RoundInv, RecInv, Received
<1>3. /\ Head(acks) >= snd.head /\ Head(acks) <= snd.high /\ ece \in BOOLEAN
      /\ Bounded(snd) /\ Rounds(snd)
  BY <1>2, EchoAssumption DEF RoundInv, Flight, Bounded, Typed
<1>4. AckOutcome(snd, Head(acks), Acknowledged(snd, Head(acks), ece))
  BY <1>2, <1>3, AckBounded
<1> QED
  BY <1>1, <1>4, Zenon

\* A timeout that still has a retry: the sent list is lost, and the round begins anew.
Expired(s) == [SetSentListLost(s) EXCEPT
                   !.rto = FALSE, !.retr = @ - 1, !.dup = 0,
                   !.recover = s.high, !.active = TRUE,
                   !.ssThresh = s.frac, !.cong = "LOSS"]

LEMMA TimeoutTaken ==
    ASSUME RoundInv, ReTxTimeout, snd.retr # 0
    PROVE  \E s, l :
              /\ l = Expired(snd)
              /\ Becomes(SendPendingData(s)) /\ s \in CongControl(l)
              /\ Bounded(l) /\ Rounds(l)
              /\ l.head = snd.head /\ l.high = snd.high /\ l.recover = snd.high
              /\ l.cong = "LOSS" /\ l.up = snd.up /\ l.dup = 0 /\ l.rto = FALSE
              /\ l.cWnd = snd.cWnd /\ l.frac = snd.frac
              /\ l.lost = Sent(l) /\ l.sacked = {} /\ l.retrans = {}
<1> DEFINE list == SetSentListLost(snd)
           l == [list EXCEPT
                    !.rto = FALSE, !.retr = @ - 1, !.dup = 0,
                    !.recover = snd.high, !.active = TRUE,
                    !.ssThresh = snd.frac, !.cong = "LOSS"]
<1>1. PICK s \in CongControl(l) : Becomes(SendPendingData(s))
  BY Zenon DEF ReTxTimeout
<1>0. l = Expired(snd)
  BY Zenon DEF Expired
<1>2. /\ Bounded(list) /\ Marked(snd, list)
      /\ list.lost = Sent(list) /\ list.sacked = {} /\ list.retrans = {}
  BY ListBounded DEF RoundInv
<1> HIDE DEF list
<1>3. /\ l.head = snd.head /\ l.high = snd.high /\ l.recover = snd.high
      /\ l.cong = "LOSS" /\ l.up = snd.up /\ l.dup = 0 /\ l.rto = FALSE
      /\ l.cWnd = snd.cWnd /\ l.frac = snd.frac /\ l.ssThresh = snd.frac
      /\ l.lost = list.lost /\ l.sacked = {} /\ l.retrans = {} /\ l.out = list.out
      /\ list.head = snd.head /\ list.high = snd.high
      /\ list.frac = snd.frac /\ list.cWnd = snd.cWnd
      /\ More \subseteq DOMAIN l /\ Fields \subseteq DOMAIN l
  BY <1>2, Zenon DEF Bounded, Typed, Fields, More, Marked, Kept
<1>4. s \in CongControl(l)
  BY <1>1
<1> HIDE DEF l
<1>5. Typed(l)
  BY <1>2, <1>3, Zenon DEF Bounded, Typed
<1>6. Sent(l) = Sent(list)
  BY <1>3, Zenon DEF Sent
<1>7. Marks(l)
  BY <1>2, <1>3, <1>6, Zenon DEF Bounded, Marks
<1>8. Places(l)
  BY <1>3 DEF RoundInv, Bounded, Typed, Places
<1>9. Bounded(l)
  <2>1. l.dup \in Int
    BY <1>3
  <2>2. Below(l.out, l.high)
    BY <1>2, <1>3, Zenon DEF Bounded
  <2> QED
    BY <1>3, <1>5, <1>7, <1>8, <2>1, <2>2, Zenon DEF Bounded
<1>10. Rounds(l)
  BY <1>3 DEF Rounds, CongState
<1>11. l.lost = Sent(l)
  BY <1>2, <1>3, <1>6, Zenon
<1> QED
  BY <1>0, <1>1, <1>3, <1>4, <1>9, <1>10, <1>11, Zenon

\* The last timeout closes the sender and leaves the round as it is.
LEMMA GivesUp ==
    ASSUME RoundInv, ReTxTimeout, snd.retr = 0
    PROVE  /\ Bounded(snd') /\ Rounds(snd') /\ Below(data', snd'.high)
           /\ snd'.head = snd.head /\ snd'.high = snd.high /\ snd'.cong = snd.cong
           /\ snd'.recover = snd.recover /\ snd'.dup = snd.dup
           /\ snd'.cWnd = snd.cWnd /\ snd'.frac = snd.frac /\ snd'.ssThresh = snd.ssThresh
           /\ snd'.up = FALSE /\ snd'.rto = FALSE
<1> DEFINE t == [snd EXCEPT !.up = FALSE, !.rto = FALSE]
<1>1. snd' = [t EXCEPT !.out = <<>>] /\ data' = data \o t.out
  BY Zenon DEF ReTxTimeout, Becomes
<1>2. t.out = snd.out
  BY Zenon DEF RoundInv, Bounded, More
<1>3. /\ snd'.head = snd.head /\ snd'.high = snd.high /\ snd'.cong = snd.cong
      /\ snd'.recover = snd.recover /\ snd'.dup = snd.dup
      /\ snd'.up = FALSE /\ snd'.rto = FALSE /\ snd'.out = <<>>
      /\ snd'.cWnd = snd.cWnd /\ snd'.frac = snd.frac /\ snd'.ssThresh = snd.ssThresh
      /\ snd'.lost = snd.lost /\ snd'.sacked = snd.sacked /\ snd'.retrans = snd.retrans
      /\ More \subseteq DOMAIN snd' /\ Fields \subseteq DOMAIN snd'
  BY <1>1, Zenon DEF RoundInv, Bounded, Typed, Fields, More, Kept
<1> HIDE DEF t
<1>4. Typed(snd')
  BY <1>3, Zenon DEF RoundInv, Bounded, Typed
<1>5. Sent(snd') = Sent(snd)
  BY <1>3, Zenon DEF Sent
<1>6. Marks(snd') /\ Places(snd')
  BY <1>3, <1>5, Zenon DEF RoundInv, Bounded, Marks, Places
<1>7. Below(snd'.out, snd'.high)
  BY <1>3 DEF Below
<1>8. Bounded(snd')
  BY <1>3, <1>4, <1>6, <1>7, Zenon DEF RoundInv, Bounded
<1>9. Rounds(snd')
  BY <1>3, Zenon DEF RoundInv, Rounds
<1>10. Below(data', snd'.high)
  <2>1. snd.high \in Int
    BY DEF RoundInv, Bounded, Typed
  <2>2. Below(data, snd.high) /\ Below(snd.out, snd.high)
    BY DEF RoundInv, Flight, Bounded
  <2>3. Below(data \o snd.out, snd.high)
    BY <2>1, <2>2, BelowConcat
  <2> QED
    BY <1>1, <1>2, <1>3, <2>3, Zenon
<1> QED
  BY <1>3, <1>8, <1>9, <1>10, Zenon

-----------------------------------------------------------------------------
(* Every step keeps the rounds.                                            *)

\* A step of the sender that reacts to s, once the controller is through with it.
LEMMA Reacts ==
    ASSUME RoundInv, NEW a, NEW s \in CongControl(a), Bounded(a), Rounds(a),
           a.high = snd.high, Becomes(SendPendingData(s)), UNCHANGED <<rcv, held>>
    PROVE  Bounded(snd') /\ Rounds(snd') /\ Flight'
<1>1. /\ Bounded(s) /\ s.head = a.head /\ s.high = a.high /\ s.cong = a.cong
      /\ s.recover = a.recover /\ s.dup = a.dup
  BY ControlsBounded
<1>2. Rounds(s)
  BY <1>1, Zenon DEF Rounds
<1>3. Below(data, s.high)
  BY <1>1, Zenon DEF RoundInv, Flight
<1>4. /\ Bounded(snd') /\ Rounds(snd') /\ Below(data', snd'.high)
      /\ snd'.high >= s.high
  BY <1>1, <1>2, <1>3, SettlesBounded
<1>5. snd'.high >= snd.high
  BY <1>1, <1>4, Zenon
<1> QED
  BY <1>4, <1>5, FlightGrows

\* The receiver asks for a segment that was sent, or for the next one that will be.
LEMMA AsksNext ==
    ASSUME RoundInv, ReceiveData
    PROVE  Flight' /\ snd' = snd
<1> DEFINE all == IF Head(data) < rcv THEN held ELSE held \cup {Head(data)}
           open == {Data} \cup {q \in rcv..Data : q \notin all}
           next == Least(open)
<1>1. /\ snd' = snd /\ rcv' = next /\ held' = {q \in all : q > next}
      /\ data # <<>> /\ data' = Tail(data)
  BY Zenon DEF ReceiveData
<1>2. /\ snd.high \in Int /\ snd.high <= Data /\ rcv \in 0..Data /\ rcv <= snd.high
      /\ Data \in Nat
  BY CountAssumption
     DEF RoundInv, RecInv, Received, Flight, Bounded, Typed, Places
<1>3. data \in Seq(Int) /\ \A i \in 1..Len(data) : data[i] < snd.high
  BY DEF RoundInv, Flight, Below
<1>4. Head(data) \in Int /\ Head(data) < snd.high
  BY <1>1, <1>3
<1>5. Below(data', snd'.high)
  BY <1>1, <1>3 DEF Below
<1>6. \A q \in all : q \in Int /\ q < snd.high
  BY <1>4 DEF RoundInv, Flight
<1> HIDE DEF all
<1>7. open \subseteq Nat /\ snd.high \in open
  <2>1. snd.high \notin all
    BY <1>2, <1>6
  <2> QED
    BY <1>2, <2>1
<1>8. \A p \in open : next <= p
  <2> HIDE DEF open
  <2> QED
    BY <1>7, LeastMember
<1> HIDE DEF open, next
<1> QED
  BY <1>1, <1>5, <1>6, <1>7, <1>8 DEF Flight

LEMMA RoundsStep ==
    ASSUME RoundInv, [Next]_vars
    PROVE  RoundInv'
<1>1. RecInv'
  BY Steps DEF RoundInv
<1>2. CASE SendScheduled
  <2>1. /\ Bounded(snd) /\ Rounds(snd) /\ Below(data, snd.high)
        /\ Becomes(SendPendingData(snd)) /\ UNCHANGED <<rcv, held>>
    BY <1>2 DEF SendScheduled, RoundInv, Flight
  <2>2. /\ Bounded(snd') /\ Rounds(snd') /\ Below(data', snd'.high)
        /\ snd'.high >= snd.high
    BY <2>1, SettlesBounded
  <2>3. Flight'
    BY <2>1, <2>2, FlightGrows
  <2> QED
    BY <1>1, <2>2, <2>3 DEF RoundInv
<1>3. CASE ReceiveAck
  <2>1. UNCHANGED <<rcv, held>>
    BY <1>3 DEF ReceiveAck
  <2>2. CASE ~snd.up \/ Head(acks) < snd.head
    <3>1. UNCHANGED <<snd, data>>
      BY <1>3, <2>2 DEF ReceiveAck
    <3> QED
      BY <1>1, <2>1, <3>1 DEF RoundInv, Flight
  <2>3. CASE ~(~snd.up \/ Head(acks) < snd.head)
    <3>1. \E s, a : /\ Becomes(SendPendingData(s)) /\ s \in CongControl(a)
                   /\ Bounded(a) /\ Rounds(a) /\ a.high = snd.high
      BY <1>3, <2>3, AckTaken, Zenon DEF AckOutcome
    <3>2. Bounded(snd') /\ Rounds(snd') /\ Flight'
      BY <2>1, <3>1, Reacts
    <3> QED
      BY <1>1, <3>2 DEF RoundInv
  <2> QED
    BY <2>2, <2>3
<1>4. CASE ReceiveData
  <2>1. Flight' /\ snd' = snd
    BY <1>4, AsksNext
  <2> QED
    BY <1>1, <2>1 DEF RoundInv
<1>5. CASE ReTxTimeout
  <2>1. UNCHANGED <<rcv, held>>
    BY <1>5 DEF ReTxTimeout
  <2>2. CASE snd.retr = 0
    <3>1. /\ Bounded(snd') /\ Rounds(snd') /\ Below(data', snd'.high)
          /\ snd'.high = snd.high
      BY <1>5, <2>2, GivesUp
    <3>2. snd'.high >= snd.high
      BY <3>1 DEF RoundInv, Bounded, Typed
    <3>3. Flight'
      BY <2>1, <3>1, <3>2, FlightGrows
    <3> QED
      BY <1>1, <3>1, <3>3 DEF RoundInv
  <2>3. CASE snd.retr # 0
    <3>1. \E s, l : /\ Becomes(SendPendingData(s)) /\ s \in CongControl(l)
                   /\ Bounded(l) /\ Rounds(l) /\ l.high = snd.high
      BY <1>5, <2>3, TimeoutTaken, Zenon
    <3>2. Bounded(snd') /\ Rounds(snd') /\ Flight'
      BY <2>1, <3>1, Reacts
    <3> QED
      BY <1>1, <3>2 DEF RoundInv
  <2> QED
    BY <2>2, <2>3
<1>6. CASE LosePacket
  <2>1. UNCHANGED <<snd, rcv, held>>
    BY <1>6 DEF LosePacket
  <2>2. data' = data \/ (data # <<>> /\ data' = Tail(data))
    BY <1>6 DEF LosePacket
  <2>3. Below(data, snd.high)
    BY DEF RoundInv, Flight
  <2>4. Below(data', snd.high)
    BY <2>2, <2>3 DEF Below
  <2> QED
    BY <1>1, <2>1, <2>4 DEF RoundInv, Flight
<1>7. CASE UNCHANGED vars
  BY <1>1, <1>7 DEF vars, RoundInv, Flight
<1> QED
  BY <1>2, <1>3, <1>4, <1>5, <1>6, <1>7 DEF Next

\* Duplicate ACKs are counted from zero in each round, for any windows and for any
\* threshold: none is counted in CA_OPEN, and in CA_DISORDER fewer than the threshold.
THEOREM CountedPerRound == Spec => []DupAcksCounted
<1>1. RoundInv => DupAcksCounted
  BY DEF RoundInv, Rounds, DupAcksCounted
<1>2. RoundInv /\ [Next]_vars => RoundInv'
  BY RoundsStep
<1> QED
  BY RoundsStart, <1>1, <1>2, PTL DEF Spec

-----------------------------------------------------------------------------
(* What is in flight fits the window when new data is sent.                *)

\* The room is counted in whole segments.
LEMMA RoomFits ==
    ASSUME NEW a \in Int, NEW w \in Int, w >= a, NEW n \in Nat \ {0},
           NEW k \in Nat, k <= (w - a) \div n
    PROVE  a + n * k <= w
<1> DEFINE q == (w - a) \div n
<1>1. q \in Nat /\ n * q <= w - a
  BY Z3
<1> HIDE DEF q
<1>2. n * k <= n * q /\ n * k \in Int /\ n * q \in Int
  <2>1. k <= q
    BY DEF q
  <2> QED
    BY <1>1, <2>1, Z3
<1> QED
  BY <1>1, <1>2

LEMMA FlightFits ==
    ASSUME NEW s, Bounded(s)
    PROVE  LET t == SendPendingData(s) IN t.high > s.high => InFlight(t) <= t.cWnd
<1> DEFINE again == s.lost \ (s.retrans \cup s.sacked)
           room == IF s.cWnd >= InFlight(s) THEN (s.cWnd - InFlight(s)) \div Seg ELSE 0
           resent == {q \in again : Cardinality({p \in again : p < q}) < room}
           fresh == Smaller(room - Cardinality(resent), Data - s.high)
           t == [s EXCEPT !.retrans = @ \cup resent, !.high = @ + fresh,
                          !.out = @ \o InOrder(resent) \o [i \in 1..fresh |-> s.high + i - 1],
                          !.rto = TRUE]
<1>0. /\ s.head \in Int /\ s.high \in Int /\ s.cWnd \in Int /\ s.high <= Data
      /\ Data \in Nat /\ Seg \in Nat \ {0} /\ InFlight(s) \in Int
  BY InFlightType, CountAssumption DEF Bounded, Typed, Places
<1>1. SendPendingData(s) = IF s.head = Data \/ room = 0 \/ (resent = {} /\ fresh = 0)
                           THEN s ELSE t
  BY Zenon DEF SendPendingData
<1>2. room \in Nat /\ (room # 0 => s.cWnd >= InFlight(s) /\ room = (s.cWnd - InFlight(s)) \div Seg)
  BY <1>0
<1>3. /\ IsFiniteSet(resent) /\ Cardinality(resent) \in Nat /\ resent \cap s.retrans = {}
      /\ IsFiniteSet(again)
  <2>1. IsFiniteSet(again)
    BY FS_Difference, Zenon DEF Bounded, Typed
  <2>2. resent \in SUBSET again
    BY Zenon
  <2>3. IsFiniteSet(resent) /\ Cardinality(resent) \in Nat
    BY <2>1, <2>2, FS_Subset, FS_CardinalityType
  <2>4. \A q \in again : q \notin s.retrans
    OBVIOUS
  <2> HIDE DEF again, resent
  <2> QED
    BY <2>1, <2>2, <2>3, <2>4
<1>4. /\ t.head = s.head /\ t.high = s.high + fresh /\ t.cWnd = s.cWnd
      /\ t.lost = s.lost /\ t.sacked = s.sacked /\ t.retrans = s.retrans \cup resent
  BY Zenon DEF Bounded, Typed, Fields
<1> HIDE DEF again, room, resent
<1>5. fresh \in Int /\ fresh <= room - Cardinality(resent)
  BY <1>0, <1>2, <1>3 DEF Smaller
<1> HIDE DEF fresh, t
<1> SUFFICES ASSUME SendPendingData(s).high > s.high
             PROVE  InFlight(SendPendingData(s)) <= SendPendingData(s).cWnd
  OBVIOUS
<1>6. SendPendingData(s) = t /\ room # 0
  <2>1. SendPendingData(s) # s
    BY <1>0
  <2> QED
    BY <1>1, <2>1, Zenon
<1>7. fresh > 0
  BY <1>0, <1>4, <1>5, <1>6
<1> DEFINE more == fresh + Cardinality(resent)
<1>8. more \in Nat /\ more <= (s.cWnd - InFlight(s)) \div Seg
  BY <1>2, <1>3, <1>5, <1>6, <1>7
<1>9. InFlight(t) = InFlight(s) + Seg * more
  <2> DEFINE l == Cardinality(s.lost)
             k == Cardinality(s.sacked)
             r == Cardinality(s.retrans)
             c == Cardinality(resent)
             x == s.high - s.head - l - k + r
  <2>1. l \in Nat /\ k \in Nat /\ r \in Nat
    BY FS_CardinalityType DEF Bounded, Typed
  <2>2. Cardinality(s.retrans \cup resent) = r + c
    <3>1. IsFiniteSet(s.retrans) /\ Cardinality(s.retrans \cap resent) = 0
      BY <1>3, FS_EmptySet DEF Bounded, Typed
    <3>2. Cardinality(s.retrans \cup resent) = r + c - Cardinality(s.retrans \cap resent)
      BY <1>3, <3>1, FS_Union
    <3> QED
      BY <1>3, <2>1, <3>1, <3>2
  <2>3. InFlight(t) = Seg * (s.high + fresh - s.head - l - k + (r + c))
    <3>1. /\ Cardinality(t.lost) = l /\ Cardinality(t.sacked) = k
          /\ Cardinality(t.retrans) = r + c
      BY <1>4, <2>2, Zenon
    <3> DEFINE th == t.high
               tl == Cardinality(t.lost)
               tk == Cardinality(t.sacked)
               tr == Cardinality(t.retrans)
    <3>2. InFlight(t) = Seg * (th - t.head - tl - tk + tr)
      BY Zenon DEF InFlight
    <3>3. th = s.high + fresh /\ tl = l /\ tk = k /\ tr = r + c /\ t.head = s.head /\ c \in Nat
      BY <1>3, <1>4, <3>1
    <3> HIDE DEF th, tl, tk, tr, l, k, r, c
    <3> QED
      BY <1>0, <1>5, <2>1, <3>2, <3>3
  <2>4. InFlight(s) = Seg * x
    BY Zenon DEF InFlight
  <2>5. s.high + fresh - s.head - l - k + (r + c) = x + more /\ x \in Int
    <3>1. c \in Int
      BY <1>3
    <3> HIDE DEF l, k, r, c
    <3> QED
      BY <1>0, <1>5, <2>1, <3>1 DEF c
  <2> HIDE DEF x, more
  <2>6. Seg * (x + more) = Seg * x + Seg * more
    BY <1>0, <1>8, <2>5, Z3
  <2> QED
    BY <2>3, <2>4, <2>5, <2>6
<1> HIDE DEF more
<1>10. InFlight(s) + Seg * more <= s.cWnd
  BY <1>0, <1>2, <1>6, <1>8, RoomFits
<1> QED
  BY <1>4, <1>6, <1>9, <1>10

\* The end of what was sent moves only in SendPendingData, whatever else the step does.
LEMMA SendsWithin ==
    ASSUME RoundInv, NEW s, Bounded(s), s.high = snd.high, Becomes(SendPendingData(s))
    PROVE  snd'.high > snd.high => InFlight(snd') <= snd'.cWnd
<1> DEFINE t == SendPendingData(s)
<1>1. t.high > s.high => InFlight(t) <= t.cWnd
  BY FlightFits
<1>2. snd' = [t EXCEPT !.out = <<>>] /\ Bounded(t)
  BY SendsBounded, Zenon DEF Becomes
<1> HIDE DEF t
<1>3. /\ snd'.head = t.head /\ snd'.high = t.high /\ snd'.cWnd = t.cWnd
      /\ snd'.lost = t.lost /\ snd'.sacked = t.sacked /\ snd'.retrans = t.retrans
  BY <1>2, Zenon DEF Bounded, Typed, Fields
<1>4. InFlight(snd') = InFlight(t)
  BY <1>3, Zenon DEF InFlight
<1> QED
  BY <1>1, <1>3, <1>4, Zenon

LEMMA FlightStep ==
    ASSUME RoundInv, [Next]_vars
    PROVE  snd'.high > snd.high => InFlight(snd') <= snd'.cWnd
<1>0. snd.high \in Int
  BY DEF RoundInv, Bounded, Typed
<1>1. CASE SendScheduled
  <2>1. Bounded(snd) /\ Becomes(SendPendingData(snd))
    BY <1>1 DEF SendScheduled, RoundInv
  <2> QED
    BY <2>1, SendsWithin
<1>2. CASE snd'.high = snd.high
  BY <1>0, <1>2
<1>3. CASE ReceiveAck
  <2>1. CASE ~snd.up \/ Head(acks) < snd.head
    <3>1. snd' = snd
      BY <1>3, <2>1 DEF ReceiveAck
    <3> QED
      BY <1>2, <3>1
  <2>2. CASE ~(~snd.up \/ Head(acks) < snd.head)
    <3>1. PICK s, a : /\ Becomes(SendPendingData(s)) /\ s \in CongControl(a)
                      /\ Bounded(a) /\ a.high = snd.high
      BY <1>3, <2>2, AckTaken, Zenon DEF AckOutcome
    <3>2. Bounded(s) /\ s.high = a.high
      BY <3>1, ControlsBounded
    <3> QED
      BY <3>1, <3>2, SendsWithin
  <2> QED
    BY <2>1, <2>2
<1>4. CASE ReTxTimeout
  <2>1. CASE snd.retr = 0
    <3>1. snd'.high = snd.high
      BY <1>4, <2>1, GivesUp
    <3> QED
      BY <1>2, <3>1
  <2>2. CASE snd.retr # 0
    <3>1. PICK s, l : /\ Becomes(SendPendingData(s)) /\ s \in CongControl(l)
                      /\ Bounded(l) /\ l.high = snd.high
      BY <1>4, <2>2, TimeoutTaken, Zenon
    <3>2. Bounded(s) /\ s.high = l.high
      BY <3>1, ControlsBounded
    <3> QED
      BY <3>1, <3>2, SendsWithin
  <2> QED
    BY <2>1, <2>2
<1>5. CASE ReceiveData \/ LosePacket \/ UNCHANGED vars
  <2>1. snd' = snd
    BY <1>5 DEF ReceiveData, LosePacket, vars
  <2> QED
    BY <1>2, <2>1
<1> QED
  BY <1>1, <1>3, <1>4, <1>5 DEF Next

\* New data is sent only while all that is guessed to be in flight, with what the same
\* step sends again, fits the window: no limited transmit and no early return is an
\* exception.
THEOREM FitsWindow == Spec => FlightWithinWindow
<1>1. RoundInv /\ [Next]_vars
          => RoundInv' /\ [snd'.high > snd.high => InFlight(snd') <= snd'.cWnd]_vars
  BY RoundsStep, FlightStep
<1> QED
  BY RoundsStart, <1>1, PTL DEF Spec, FlightWithinWindow

-----------------------------------------------------------------------------
(* The timer, under WholeSegments.                                         *)

LEMMA TimedStart ==
    ASSUME Init
    PROVE  Timed
<1>1. PICK w \in Windows : w >= Seg /\ snd.cWnd = w
  BY DEF Init
<1>2. /\ snd.head = 0 /\ snd.high = 0 /\ snd.cong = "OPEN" /\ snd.dup = 0
      /\ snd.rto = FALSE /\ snd.frac = Indeterminate
  BY DEF Init
<1> QED
  BY <1>1, <1>2 DEF Timed

\* The controller leaves a window with room for a segment.
LEMMA ControlsRoom ==
    ASSUME WholeSegments, NEW a, Bounded(a), a.cWnd >= Seg,
           a.frac = Indeterminate \/ a.frac >= Seg, NEW s \in CongControl(a)
    PROVE  s.cWnd >= Seg /\ s.frac >= Seg
<1>1. \/ s.cWnd = a.cWnd /\ s.frac = IF a.frac = Indeterminate THEN a.cWnd ELSE a.frac
      \/ s.cWnd = s.frac /\ s.frac \in Windows
  BY ControlsBounded
<1> QED
  BY <1>1, Zenon DEF WholeSegments

\* What is left of the sender after it has sent from s keeps the timer.
LEMMA TimerKept ==
    ASSUME RoundInv, Timed, NEW s, Bounded(s), Rounds(s), Below(data, s.high),
           Becomes(SendPendingData(s)),
           s.cWnd >= Seg, s.frac = Indeterminate \/ s.frac >= Seg,
           s.dup > 0 => s.frac >= Seg,
           s.cong = "RECOVERY" => s.ssThresh >= Seg,
           s.cong = "LOSS" => s.head < s.recover,
           \/ s.rto <=> s.head < Data
           \/ /\ s.up /\ s.head < s.high => s.rto = TRUE
              /\ s.rto = TRUE => s.head < s.high
           \/ s.head < s.high /\ s.lost = Sent(s) /\ s.sacked = {} /\ s.retrans = {}
    PROVE  Timed'
<1>1. /\ Bounded(snd')
      /\ snd'.head = s.head /\ snd'.cong = s.cong /\ snd'.recover = s.recover
      /\ snd'.dup = s.dup /\ snd'.up = s.up
      /\ snd'.cWnd = s.cWnd /\ snd'.frac = s.frac /\ snd'.ssThresh = s.ssThresh
      /\ snd'.high >= s.high
      /\ snd'.rto = s.rto \/ (snd'.rto = TRUE /\ snd'.head < snd'.high)
      /\ snd'.high > s.high => snd'.rto = TRUE
      /\ s.head = s.high /\ s.head # Data => snd'.high > s.high
      /\ s.head < s.high /\ s.lost = Sent(s) /\ s.sacked = {} /\ s.retrans = {}
             => snd'.rto = TRUE
  BY SettlesBounded
<1>2. /\ s.head \in Int /\ s.high \in Int /\ s.head <= s.high /\ s.high <= Data
      /\ snd'.high \in Int /\ snd'.high <= Data /\ s.rto \in BOOLEAN
      /\ Data \in Nat
  BY <1>1, CountAssumption DEF Bounded, Typed, Places
<1> DEFINE high == snd'.high
           rto == snd'.rto
<1>3. /\ s.up /\ s.head < high => rto = TRUE
      /\ rto = TRUE => s.head < high
  <2>1. /\ high \in Int /\ high >= s.high /\ high <= Data
        /\ rto = s.rto \/ (rto = TRUE /\ s.head < high)
        /\ high > s.high => rto = TRUE
        /\ s.head = s.high /\ s.head # Data => high > s.high
        /\ s.head < s.high /\ s.lost = Sent(s) /\ s.sacked = {} /\ s.retrans = {}
               => rto = TRUE
    BY <1>1, <1>2
  <2> HIDE DEF high, rto
  <2>2. CASE s.rto <=> s.head < Data
    BY <1>2, <2>1, <2>2
  <2>3. CASE /\ s.up /\ s.head < s.high => s.rto = TRUE
             /\ s.rto = TRUE => s.head < s.high
    BY <1>2, <2>1, <2>3
  <2>4. CASE s.head < s.high /\ s.lost = Sent(s) /\ s.sacked = {} /\ s.retrans = {}
    <3>1. rto = TRUE
      BY <2>1, <2>4, Zenon
    <3>2. s.head < high
      BY <1>2, <2>1, <2>4
    <3> QED
      BY <3>1, <3>2
  <2> QED
    BY <2>2, <2>3, <2>4
<1> QED
  BY <1>1, <1>3, Zenon DEF Timed

LEMMA TimedStep ==
    ASSUME WholeSegments, RoundInv, Timed, [Next]_vars
    PROVE  Timed'
<1>0. /\ Seg \in Nat \ {0} /\ Bounded(snd) /\ Rounds(snd) /\ Below(data, snd.high)
      /\ snd.dup \in Int /\ RetxThresh \in Int
  BY CountAssumption DEF RoundInv, Flight, Bounded
<1>1. CASE SendScheduled
  <2>1. Becomes(SendPendingData(snd))
    BY <1>1 DEF SendScheduled
  <2> QED
    BY <1>0, <2>1, TimerKept DEF Timed
<1>2. CASE ReceiveAck
  <2>1. CASE ~snd.up \/ Head(acks) < snd.head
    <3>1. snd' = snd
      BY <1>2, <2>1 DEF ReceiveAck
    <3> QED
      BY <3>1 DEF Timed
  <2>2. CASE ~(~snd.up \/ Head(acks) < snd.head)
    <3>0. PICK s, a : /\ Becomes(SendPendingData(s)) /\ s \in CongControl(a)
                      /\ AckOutcome(snd, Head(acks), a)
      BY <1>2, <2>2, AckTaken
    <3>1. /\ Becomes(SendPendingData(s)) /\ s \in CongControl(a)
          /\ Bounded(a) /\ Rounds(a)
          /\ a.high = snd.high /\ a.up = snd.up /\ a.frac = snd.frac
          /\ a.cWnd = snd.cWnd \/ (snd.cong = "RECOVERY" /\ a.cWnd = snd.ssThresh)
          /\ a.cong = "RECOVERY" =>
                 \/ snd.cong = "RECOVERY" /\ a.ssThresh = snd.ssThresh
                 \/ snd.dup + 1 = RetxThresh /\ a.ssThresh = snd.frac
          /\ a.cong = "LOSS" =>
                 \/ a.head < a.recover
                 \/ snd.cong = "LOSS" /\ a.head = snd.head /\ a.recover = snd.recover
          /\ \/ a.rto <=> a.head < Data
             \/ a.head = snd.head
                /\ (a.rto = snd.rto \/ (a.rto = TRUE /\ snd.head < snd.high))
      BY <3>0, Zenon DEF AckOutcome
    <3>2. a.cWnd >= Seg /\ (a.frac = Indeterminate \/ a.frac >= Seg)
      BY <3>1, Zenon DEF Timed
    <3>3. s.cWnd >= Seg /\ s.frac >= Seg
      BY <3>1, <3>2, ControlsRoom
    <3>4. /\ Bounded(s) /\ s.head = a.head /\ s.high = a.high /\ s.cong = a.cong
          /\ s.recover = a.recover /\ s.up = a.up
          /\ s.rto = a.rto /\ s.ssThresh = a.ssThresh /\ s.dup = a.dup
      BY <3>1, ControlsBounded
    <3>5. Rounds(s)
      BY <3>1, <3>4, Zenon DEF Rounds
    <3>6. a.cong = "RECOVERY" => a.ssThresh >= Seg
      <4>1. snd.dup + 1 = RetxThresh => snd.dup > 0
        BY <1>0 DEF WholeSegments
      <4> QED
        BY <3>1, <4>1, Zenon DEF Timed
    <3>7. a.cong = "LOSS" => a.head < a.recover
      BY <3>1, Zenon DEF Timed
    <3>8. \/ a.rto <=> a.head < Data
          \/ /\ a.up /\ a.head < a.high => a.rto = TRUE
             /\ a.rto = TRUE => a.head < a.high
      BY <3>1, Zenon DEF Timed
    <3>9. /\ Below(data, s.high)
          /\ s.cong = "RECOVERY" => s.ssThresh >= Seg
          /\ s.cong = "LOSS" => s.head < s.recover
          /\ \/ s.rto <=> s.head < Data
             \/ /\ s.up /\ s.head < s.high => s.rto = TRUE
                /\ s.rto = TRUE => s.head < s.high
      BY <1>0, <3>1, <3>4, <3>6, <3>7, <3>8, Zenon
    <3> QED
      BY <3>1, <3>3, <3>4, <3>5, <3>9, TimerKept
  <2> QED
    BY <2>1, <2>2
<1>3. CASE ReceiveData
  <2>1. snd' = snd
    BY <1>3 DEF ReceiveData
  <2> QED
    BY <2>1 DEF Timed
<1>4. CASE ReTxTimeout
  <2>1. CASE snd.retr = 0
    <3>1. /\ snd'.head = snd.head /\ snd'.high = snd.high /\ snd'.cong = snd.cong
          /\ snd'.recover = snd.recover /\ snd'.dup = snd.dup
          /\ snd'.cWnd = snd.cWnd /\ snd'.frac = snd.frac /\ snd'.ssThresh = snd.ssThresh
          /\ snd'.up = FALSE /\ snd'.rto = FALSE
      BY <1>4, <2>1, GivesUp
    <3> QED
      BY <3>1, Zenon DEF Timed
  <2>2. CASE snd.retr # 0
    <3>1. PICK s, l :
              /\ Becomes(SendPendingData(s)) /\ s \in CongControl(l)
              /\ Bounded(l) /\ Rounds(l)
              /\ l.head = snd.head /\ l.high = snd.high /\ l.recover = snd.high
              /\ l.cong = "LOSS" /\ l.up = snd.up /\ l.dup = 0 /\ l.rto = FALSE
              /\ l.cWnd = snd.cWnd /\ l.frac = snd.frac
              /\ l.lost = Sent(l) /\ l.sacked = {} /\ l.retrans = {}
      BY <1>4, <2>2, TimeoutTaken, Zenon
    <3>2. snd.head < snd.high
      <4>1. snd.rto = TRUE
        BY <1>4 DEF ReTxTimeout, RoundInv, Bounded
      <4> QED
        BY <4>1 DEF Timed
    <3>3. l.cWnd >= Seg /\ (l.frac = Indeterminate \/ l.frac >= Seg)
      BY <3>1, Zenon DEF Timed
    <3>4. s.cWnd >= Seg /\ s.frac >= Seg
      BY <3>1, <3>3, ControlsRoom
    <3>5. /\ Bounded(s) /\ s.head = l.head /\ s.high = l.high /\ s.cong = l.cong
          /\ s.recover = l.recover /\ s.dup = l.dup /\ s.up = l.up
          /\ s.lost = l.lost /\ s.sacked = l.sacked /\ s.retrans = l.retrans
      BY <3>1, ControlsBounded
    <3>6. Rounds(s) /\ Sent(s) = Sent(l)
      BY <3>1, <3>5, Zenon DEF Rounds, Sent
    <3>7. /\ Below(data, s.high) /\ s.cong = "LOSS" /\ s.head < s.recover
          /\ s.head < s.high /\ s.lost = Sent(s) /\ s.sacked = {} /\ s.retrans = {}
      BY <1>0, <3>1, <3>2, <3>5, <3>6, Zenon
    <3> QED
      BY <3>1, <3>4, <3>5, <3>6, <3>7, TimerKept
  <2> QED
    BY <2>1, <2>2
<1>5. CASE LosePacket
  <2>1. snd' = snd
    BY <1>5 DEF LosePacket
  <2> QED
    BY <2>1 DEF Timed
<1>6. CASE UNCHANGED vars
  BY <1>6 DEF vars, Timed
<1> QED
  BY <1>1, <1>2, <1>3, <1>4, <1>5, <1>6 DEF Next

LEMMA TimedAlways == WholeSegments /\ Spec => [](RoundInv /\ Timed)
<1>1. WholeSegments /\ Init => RoundInv /\ Timed
  BY RoundsStart, TimedStart
<1>2. WholeSegments /\ RoundInv /\ Timed /\ [Next]_vars => RoundInv' /\ Timed'
  BY RoundsStep, TimedStep
<1>3. WholeSegments <=> WholeSegments'
  BY DEF WholeSegments
<1> QED
  BY <1>1, <1>2, <1>3, PTL DEF Spec

\* If the controller keeps at least one segment, the retransmission timer runs
\* whenever data is outstanding, after every way through ProcessAck and ReTxTimeout.
THEOREM TimerAlwaysRuns == WholeSegments /\ Spec => []TimerRuns
<1>1. RoundInv /\ Timed => TimerRuns
  BY DEF Timed, TimerRuns
<1> QED
  BY <1>1, TimedAlways, PTL

\* ... the indeterminate value of m_cWndFractional never becomes the window: GetSsThresh
\* may read it, but what it read is overwritten before recovery can use it.
THEOREM WindowAlwaysDefined == WholeSegments /\ Spec => []WindowDefined
<1>1. RoundInv /\ Timed => WindowDefined
  <2> SUFFICES ASSUME RoundInv, Timed PROVE WindowDefined
    OBVIOUS
  <2>1. snd.cWnd >= Seg /\ Seg \in Nat \ {0} /\ snd.cWnd \in Int
    BY CountAssumption DEF Timed, RoundInv, Bounded, Typed
  <2> QED
    BY <2>1 DEF WindowDefined, Indeterminate
<1> QED
  BY <1>1, TimedAlways, PTL

\* ... and no ACK leaves a state of congestion behind its m_recover.
THEOREM RecoveryAlwaysEnds == WholeSegments /\ Spec => []RecoveryEnds
<1>1. RoundInv /\ Timed => RecoveryEnds
  <2> SUFFICES ASSUME RoundInv, Timed PROVE RecoveryEnds
    OBVIOUS
  <2>1. /\ snd.cong = "LOSS" => snd.head < snd.recover
        /\ snd.cong = "RECOVERY" => snd.head < snd.recover
        /\ snd.cong = "CWR" => snd.head <= snd.recover
        /\ snd.recover <= snd.high
    BY Zenon DEF Timed, RoundInv, Rounds, Bounded, Places
  <2> QED
    BY <2>1, Zenon DEF RecoveryEnds
<1> QED
  BY <1>1, TimedAlways, PTL

-----------------------------------------------------------------------------
(* The scoreboard.  Guess is about its marks: the segments l counted as    *)
(* lost, k as received and r as sent again, in a list that begins at h.    *)

Guess(h, l, k, r) ==
    /\ \A q \in l : q \notin k
    /\ h \notin k
    /\ r \subseteq l
    /\ \A q \in l : \A p \in Int : h <= p /\ p <= q => p \in l

LEMMA GuessHead ==
    ASSUME NEW h \in Int, NEW l \in SUBSET Int, NEW k, NEW r, Guess(h, l, k, r)
    PROVE  Guess(h, l \cup {h}, k \ {h}, r \ {h})
<1>1. \A p \in Int : h <= p /\ p <= h => p = h
  OBVIOUS
<1> QED
  BY <1>1, Zenon DEF Guess

LEMMA GuessSack ==
    ASSUME NEW h, NEW l, NEW k, NEW r, Guess(h, l, k, r), NEW q, q \notin l, q # h
    PROVE  Guess(h, l, k \cup {q}, r)
BY Zenon DEF Guess

LEMMA GuessAgain ==
    ASSUME NEW h, NEW l, NEW k, NEW r, Guess(h, l, k, r), NEW x, x \subseteq l
    PROVE  Guess(h, l, k, r \cup x)
BY Zenon DEF Guess

\* What is discarded may hold marks; the new head loses the one it had.
LEMMA GuessDrop ==
    ASSUME NEW h \in Int, NEW l \in SUBSET Int, NEW k, NEW r, Guess(h, l, k, r),
           NEW a \in Int, h <= a
    PROVE  /\ Guess(a, {q \in l : q >= a}, {q \in k : q >= a} \ {a}, {q \in r : q >= a})
           /\ a \in k => {q \in l : q >= a} = {}
<1>1. ASSUME NEW q \in l, q >= a, NEW p \in Int, a <= p, p <= q
      PROVE  p \in l /\ p >= a
  <2>1. h <= p /\ p >= a
    BY <1>1
  <2> QED
    BY <1>1, <2>1 DEF Guess
<1>2. ASSUME NEW q \in l, q >= a
      PROVE  a \in l
  <2>1. a <= q
    BY <1>2
  <2> QED
    BY <1>2, <2>1 DEF Guess
<1> QED
  BY <1>1, <1>2, Zenon DEF Guess

LEMMA GuessAll ==
    ASSUME NEW h \in Int, NEW n \in Int
    PROVE  Guess(h, h..(n - 1), {}, {})
BY DEF Guess

Guessed(s) == Guess(s.head, s.lost, s.sacked, s.retrans)

\* What a state of congestion allows: only the head is lost, but in CA_LOSS and CA_CWR
\* everything behind m_recover may be.
Behind(s) ==
    \A q \in s.lost : q = s.head \/ (s.cong \in {"LOSS", "CWR"} /\ q < s.recover)

Board(s) == Guessed(s) /\ Behind(s) /\ (s.cong = "LOSS" => s.sacked = {})

SameBoard(s, t) ==
    t.head = s.head /\ t.lost = s.lost /\ t.sacked = s.sacked /\ t.retrans = s.retrans

LEMMA SameGuess ==
    ASSUME NEW s, NEW t, SameBoard(s, t), Guessed(s)
    PROVE  Guessed(t)
BY Zenon DEF SameBoard, Guessed

\* The marks of a bounded list are numbers from its head on.
LEMMA MarksType ==
    ASSUME NEW s, Bounded(s)
    PROVE  /\ s.head \in Int /\ s.high \in Int /\ s.recover \in Int
           /\ s.lost \in SUBSET Int /\ s.sacked \in SUBSET Int
           /\ \A q \in s.lost : q >= s.head /\ q < s.high
           /\ s.head <= s.high /\ s.recover <= s.high
<1>1. /\ s.head \in Int /\ s.high \in Int /\ s.recover \in Int
      /\ s.head <= s.high /\ s.recover <= s.high
  BY DEF Bounded, Typed, Places
<1>2. \A q \in Sent(s) : q \in Int /\ q >= s.head /\ q < s.high
  BY <1>1 DEF Sent
<1>3. s.lost \subseteq Sent(s) /\ s.sacked \subseteq Sent(s)
  BY DEF Bounded, Marks
<1> QED
  BY <1>1, <1>2, <1>3

LEMMA MarkGuess ==
    ASSUME NEW s, Bounded(s), Guessed(s)
    PROVE  LET t == MarkHeadAsLost(s)
           IN /\ Guessed(t)
              /\ t.lost \subseteq s.lost \cup {s.head} /\ t.sacked \subseteq s.sacked
              /\ s.head < s.high => s.head \in t.lost
<1> DEFINE t == [s EXCEPT !.lost = @ \cup {s.head}, !.sacked = @ \ {s.head},
                          !.retrans = @ \ {s.head}]
<1>0. /\ s.head \in Int /\ s.lost \in SUBSET Int
      /\ s.head < s.high => s.head # s.high
  BY MarksType
<1>1. CASE s.head = s.high
  <2>1. MarkHeadAsLost(s) = s
    BY <1>1, Zenon DEF MarkHeadAsLost
  <2> QED
    BY <1>0, <1>1, <2>1
<1>2. CASE s.head # s.high
  <2>1. MarkHeadAsLost(s) = t
    BY <1>2, Zenon DEF MarkHeadAsLost
  <2>2. /\ t.head = s.head /\ t.lost = s.lost \cup {s.head}
        /\ t.sacked = s.sacked \ {s.head} /\ t.retrans = s.retrans \ {s.head}
    BY Zenon DEF Bounded, Typed, Fields
  <2> HIDE DEF t
  <2>3. Guess(s.head, s.lost \cup {s.head}, s.sacked \ {s.head}, s.retrans \ {s.head})
    BY <1>0, GuessHead DEF Guessed
  <2>4. Guessed(t)
    BY <2>2, <2>3, Zenon DEF Guessed
  <2> QED
    BY <2>1, <2>2, <2>4
<1> QED
  BY <1>1, <1>2

LEMMA SackGuess ==
    ASSUME NEW s, Bounded(s), Guessed(s), \A q \in s.lost : q = s.head
    PROVE  Guessed(AddRenoSack(s)) /\ AddRenoSack(s).lost = s.lost
<1> DEFINE free == {q \in Sent(s) : q > s.head} \ s.sacked
           t == [s EXCEPT !.sacked = @ \cup {Least(free)}]
<1>1. CASE free = {}
  BY <1>1, Zenon DEF AddRenoSack
<1>2. CASE free # {}
  <2>1. AddRenoSack(s) = t
    BY <1>2, Zenon DEF AddRenoSack
  <2>2. Least(free) # s.head
    <3>1. free \subseteq Nat /\ s.head \notin free
      BY DEF Bounded, Typed, Places, Sent
    <3> HIDE DEF free
    <3> QED
      BY <1>2, <3>1, LeastMember
  <2> HIDE DEF free
  <2>3. /\ t.head = s.head /\ t.lost = s.lost
        /\ t.sacked = s.sacked \cup {Least(free)} /\ t.retrans = s.retrans
    BY Zenon DEF Bounded, Typed, Fields
  <2> HIDE DEF t
  <2>4. Least(free) \notin s.lost
    BY <2>2
  <2>5. Guess(s.head, s.lost, s.sacked \cup {Least(free)}, s.retrans)
    BY <2>2, <2>4, GuessSack DEF Guessed
  <2>6. Guessed(t)
    BY <2>3, <2>5, Zenon DEF Guessed
  <2> QED
    BY <2>1, <2>3, <2>6
<1> QED
  BY <1>1, <1>2

LEMMA ResendGuess ==
    ASSUME NEW s, Bounded(s), Guessed(s), s.head \in s.lost
    PROVE  LET t == Resend(s, s.head)
           IN Guessed(t) /\ t.lost = s.lost /\ t.sacked = s.sacked
<1> DEFINE t == Resend(s, s.head)
<1>1. /\ t.head = s.head /\ t.lost = s.lost /\ t.sacked = s.sacked
      /\ t.retrans = s.retrans \cup {s.head}
  BY Zenon DEF Resend, Bounded, Typed, Fields
<1> HIDE DEF t
<1>2. Guess(s.head, s.lost, s.sacked, s.retrans \cup {s.head})
  BY GuessAgain DEF Guessed
<1>3. Guessed(t)
  BY <1>1, <1>2, Zenon DEF Guessed
<1> QED
  BY <1>1, <1>3 DEF t

LEMMA DiscardGuess ==
    ASSUME NEW s, Bounded(s), Guessed(s), NEW ack \in Int, ack >= s.head, ack <= s.high
    PROVE  LET t == DiscardUpTo(s, ack)
           IN /\ Guessed(t)
              /\ \A q \in t.lost : q = ack \/ q \in s.lost
              /\ s.sacked = {} => t.sacked = {}
<1> DEFINE left == Dropped(s, ack)
           rest == Cleared(s, ack)
<1>1. /\ left.head = ack
      /\ left.lost = {q \in s.lost : q >= ack}
      /\ left.sacked = {q \in s.sacked : q >= ack}
      /\ left.retrans = {q \in s.retrans : q >= ack}
      /\ Bounded(rest) /\ Marked(left, rest)
      /\ rest.lost = left.lost /\ rest.sacked = left.sacked \ {ack}
      /\ rest.retrans = left.retrans
  BY DropBounded
<1>2. /\ s.head \in Int /\ s.lost \in SUBSET Int /\ ack >= ack
  BY MarksType
<1>3. /\ Guess(ack, left.lost, left.sacked \ {ack}, left.retrans)
      /\ ack \in s.sacked => left.lost = {}
  <2> HIDE DEF left, rest
  <2>1. s.head <= ack
    BY <1>2
  <2>2. Guess(s.head, s.lost, s.sacked, s.retrans)
    BY DEF Guessed
  <2>3. /\ Guess(ack, {q \in s.lost : q >= ack}, {q \in s.sacked : q >= ack} \ {ack},
                  {q \in s.retrans : q >= ack})
        /\ ack \in s.sacked => {q \in s.lost : q >= ack} = {}
    BY <1>2, <2>1, <2>2, GuessDrop
  <2> QED
    BY <1>1, <2>3, Zenon
<1>4. \/ ack = s.head /\ DiscardUpTo(s, ack) = s
      \/ ack \in left.sacked /\ DiscardUpTo(s, ack) = MarkHeadAsLost(AddRenoSack(rest))
      \/ ack \notin left.sacked /\ DiscardUpTo(s, ack) = left
  BY DiscardCases, Zenon
<1> HIDE DEF left, rest
<1>5. CASE ack = s.head /\ DiscardUpTo(s, ack) = s
  BY <1>5, Zenon
<1>6. CASE ack \in left.sacked /\ DiscardUpTo(s, ack) = MarkHeadAsLost(AddRenoSack(rest))
  <2>1. ack \in s.sacked /\ rest.lost = {} /\ rest.head = ack
    BY <1>1, <1>3, <1>6, Zenon DEF Marked
  <2>2. Guessed(rest)
    BY <1>1, <1>3, <2>1, Zenon DEF Guessed
  <2>3. /\ Bounded(AddRenoSack(rest)) /\ Guessed(AddRenoSack(rest))
        /\ AddRenoSack(rest).lost = {} /\ AddRenoSack(rest).head = ack
    BY <1>1, <2>1, <2>2, SackBounded, SackGuess, Zenon DEF Marked
  <2>4. /\ Guessed(DiscardUpTo(s, ack))
        /\ DiscardUpTo(s, ack).lost \subseteq {} \cup {ack}
    BY <1>6, <2>3, MarkGuess, Zenon
  <2> QED
    BY <2>1, <2>4
<1>7. CASE ack \notin left.sacked /\ DiscardUpTo(s, ack) = left
  <2>1. left.sacked \ {ack} = left.sacked
    BY <1>7
  <2>2. Guessed(left)
    BY <1>1, <1>3, <2>1, Zenon DEF Guessed
  <2>3. \A q \in left.lost : q \in s.lost
    BY <1>1
  <2>4. s.sacked = {} => left.sacked = {}
    BY <1>1
  <2> QED
    BY <1>7, <2>2, <2>3, <2>4
<1> QED
  BY <1>4, <1>5, <1>6, <1>7, Zenon

\* What is sent again is lost already.
LEMMA SendsGuess ==
    ASSUME NEW s, Bounded(s), Guessed(s)
    PROVE  LET t == SendPendingData(s)
           IN Guessed(t) /\ t.lost = s.lost /\ t.sacked = s.sacked
<1> DEFINE again == s.lost \ (s.retrans \cup s.sacked)
           room == IF s.cWnd >= InFlight(s) THEN (s.cWnd - InFlight(s)) \div Seg ELSE 0
           resent == {q \in again : Cardinality({p \in again : p < q}) < room}
           fresh == Smaller(room - Cardinality(resent), Data - s.high)
           t == [s EXCEPT !.retrans = @ \cup resent, !.high = @ + fresh,
                          !.out = @ \o InOrder(resent) \o [i \in 1..fresh |-> s.high + i - 1],
                          !.rto = TRUE]
<1>1. SendPendingData(s) = IF s.head = Data \/ room = 0 \/ (resent = {} /\ fresh = 0)
                           THEN s ELSE t
  BY Zenon DEF SendPendingData
<1>2. resent \subseteq s.lost
  <2>1. again \subseteq s.lost
    OBVIOUS
  <2> HIDE DEF again, room
  <2> QED
    BY <2>1
<1>3. /\ t.head = s.head /\ t.lost = s.lost /\ t.sacked = s.sacked
      /\ t.retrans = s.retrans \cup resent
  BY Zenon DEF Bounded, Typed, Fields
<1> HIDE DEF again, room, resent, fresh, t
<1>4. Guess(s.head, s.lost, s.sacked, s.retrans \cup resent)
  BY <1>2, GuessAgain DEF Guessed
<1>5. Guessed(t)
  BY <1>3, <1>4, Zenon DEF Guessed
<1> QED
  BY <1>1, <1>3, <1>5, Zenon

-----------------------------------------------------------------------------
(* What an acknowledgment makes of the scoreboard.                         *)

LEMMA RecoversBoard ==
    ASSUME NEW s, Bounded(s), Guessed(s), s.head < s.high, \A q \in s.lost : q = s.head
    PROVE  Board(EnterRecovery(s))
<1> DEFINE sack == AddRenoSack(s)
           marked == MarkHeadAsLost(sack)
           entered == [marked EXCEPT !.recover = s.high, !.active = TRUE,
                                     !.cong = "RECOVERY", !.ssThresh = s.frac]
<1>1. Bounded(sack) /\ Marked(s, sack) /\ Guessed(sack) /\ sack.lost = s.lost
  BY SackBounded, SackGuess
<1> HIDE DEF sack
<1>2. /\ Bounded(marked) /\ Marked(sack, marked) /\ Guessed(marked)
      /\ marked.lost \subseteq sack.lost \cup {sack.head}
      /\ sack.head < sack.high => sack.head \in marked.lost
  BY <1>1, MarkBounded, MarkGuess
<1>3. /\ marked.head = s.head /\ marked.high = s.high /\ s.head \in marked.lost
      /\ \A q \in marked.lost : q = s.head
  BY <1>1, <1>2, Zenon DEF Marked, Kept
<1> HIDE DEF marked
<1>4. /\ SameBoard(marked, entered) /\ entered.cong = "RECOVERY"
      /\ Fields \subseteq DOMAIN entered
  BY <1>2, Zenon DEF SameBoard, Bounded, Typed, Fields
<1>5. EnterRecovery(s) = Resend(entered, entered.head)
  BY <1>3, <1>4, Zenon DEF EnterRecovery, marked, sack, SameBoard
<1> HIDE DEF entered
<1>6. Guessed(entered) /\ entered.head \in entered.lost
  BY <1>2, <1>3, <1>4, SameGuess, Zenon DEF SameBoard
<1> DEFINE t == Resend(entered, entered.head)
<1>7. /\ t.head = entered.head /\ t.lost = entered.lost /\ t.sacked = entered.sacked
      /\ t.retrans = entered.retrans \cup {entered.head} /\ t.cong = entered.cong
  BY <1>4, Zenon DEF Resend, Fields
<1> HIDE DEF t
<1>8. Guessed(t)
  <2>1. Guess(entered.head, entered.lost, entered.sacked,
              entered.retrans \cup {entered.head})
    BY <1>6, GuessAgain DEF Guessed
  <2> QED
    BY <1>7, <2>1, Zenon DEF Guessed
<1>9. Behind(t) /\ t.cong # "LOSS"
  BY <1>3, <1>4, <1>7, Zenon DEF Behind, SameBoard
<1> QED
  BY <1>5, <1>8, <1>9, Zenon DEF t, Board

LEMMA DuplicateBoard ==
    ASSUME NEW s, Bounded(s), Rounds(s), Board(s), s.head < s.high
    PROVE  Board(DupAck(s))
<1> DEFINE counted == [s EXCEPT !.dup = @ + 1,
                                !.cong = IF @ = "OPEN" THEN "DISORDER" ELSE @]
           enough == counted.dup = RetxThresh /\ (s.head >= s.recover \/ ~s.active)
<1>1. /\ SameBoard(s, counted) /\ counted.high = s.high /\ counted.recover = s.recover
      /\ counted.cong = (IF s.cong = "OPEN" THEN "DISORDER" ELSE s.cong)
      /\ counted.dup = s.dup + 1 /\ counted.rto = s.rto /\ counted.out = s.out
      /\ counted.cWnd = s.cWnd /\ counted.frac = s.frac /\ counted.ssThresh = s.ssThresh
      /\ More \subseteq DOMAIN counted /\ Fields \subseteq DOMAIN counted
  BY Zenon DEF Bounded, Typed, Fields, More, SameBoard
<1>2. DupAck(s) = CASE s.cong = "LOSS" -> s
                    [] s.cong = "RECOVERY" -> AddRenoSack(s)
                    [] s.cong = "CWR" -> counted
                    [] s.cong \in {"OPEN", "DISORDER"} /\ enough -> EnterRecovery(counted)
                    [] OTHER -> AddRenoSack(counted)
  BY Zenon DEF DupAck
<1> HIDE DEF counted, enough
<1>3. Bounded(counted)
  <2>1. s.dup + 1 \in Int
    BY DEF Bounded
  <2>2. Typed(counted)
    BY <1>1, Zenon DEF Bounded, Typed, SameBoard
  <2>3. Sent(counted) = Sent(s)
    BY <1>1, Zenon DEF Sent, SameBoard
  <2>4. Marks(counted) /\ Places(counted)
    BY <1>1, <2>3, Zenon DEF Bounded, Marks, Places, SameBoard
  <2> QED
    BY <1>1, <2>1, <2>2, <2>4, Zenon DEF Bounded
<1>4. Guessed(s) /\ Guessed(counted)
  BY <1>1, SameGuess DEF Board
<1>5. CASE s.cong = "LOSS"
  BY <1>2, <1>5, Zenon
<1>6. CASE s.cong = "RECOVERY"
  <2>1. DupAck(s) = AddRenoSack(s)
    BY <1>2, <1>6, Zenon
  <2>2. \A q \in s.lost : q = s.head
    BY <1>6, Zenon DEF Board, Behind
  <2>3. /\ Marked(s, AddRenoSack(s)) /\ Guessed(AddRenoSack(s))
        /\ AddRenoSack(s).lost = s.lost
    BY <1>4, <2>2, SackBounded, SackGuess
  <2> QED
    BY <1>6, <2>1, <2>2, <2>3, Zenon DEF Board, Behind, Marked, Kept
<1>7. CASE s.cong = "CWR"
  <2>1. DupAck(s) = counted
    BY <1>2, <1>7, Zenon
  <2> QED
    BY <1>1, <1>4, <1>7, <2>1, Zenon DEF Board, Behind, SameBoard
<1>8. CASE s.cong \in {"OPEN", "DISORDER"}
  <2>1. \A q \in counted.lost : q = counted.head
    BY <1>1, <1>8, Zenon DEF Board, Behind, SameBoard
  <2>2. CASE enough
    <3>1. DupAck(s) = EnterRecovery(counted)
      BY <1>2, <1>8, <2>2, Zenon
    <3>2. counted.head < counted.high
      BY <1>1, Zenon DEF SameBoard
    <3> QED
      BY <1>3, <1>4, <2>1, <3>1, <3>2, RecoversBoard
  <2>3. CASE ~enough
    <3>1. DupAck(s) = AddRenoSack(counted)
      BY <1>2, <1>8, <2>3, Zenon
    <3>2. /\ Marked(counted, AddRenoSack(counted)) /\ Guessed(AddRenoSack(counted))
          /\ AddRenoSack(counted).lost = counted.lost
      BY <1>3, <1>4, <2>1, SackBounded, SackGuess
    <3> QED
      BY <1>1, <1>8, <2>1, <3>1, <3>2, Zenon DEF Board, Behind, Marked, Kept
  <2> QED
    BY <2>2, <2>3
<1> QED
  BY <1>5, <1>6, <1>7, <1>8, Zenon DEF Rounds, CongState

LEMMA NewAckBoard ==
    ASSUME NEW s, Bounded(s), NEW resetRTO
    PROVE  LET t == NewAck(s, resetRTO)
           IN /\ SameBoard(s, t) /\ t.cong = s.cong /\ t.recover = s.recover
              /\ Fields \subseteq DOMAIN t
BY Zenon DEF NewAck, SameBoard, Bounded, Typed, Fields

LEMMA PartialBoard ==
    ASSUME NEW s, Bounded(s), Board(s), s.cong = "RECOVERY", s.head < s.high
    PROVE  Board(PartialAck(s))
<1> DEFINE marked == MarkHeadAsLost(s)
           sent == Resend(marked, marked.head)
           acked == NewAck(sent, s.first)
           t == [acked EXCEPT !.first = FALSE]
<1>1. /\ Bounded(marked) /\ Marked(s, marked) /\ Guessed(marked)
      /\ marked.lost \subseteq s.lost \cup {s.head} /\ s.head \in marked.lost
  BY MarkBounded, MarkGuess DEF Board
<1>2. /\ marked.head = s.head /\ marked.head < marked.high /\ marked.cong = "RECOVERY"
      /\ \A q \in marked.lost : q = marked.head
  BY <1>1, Zenon DEF Marked, Kept, Board, Behind
<1>3. PartialAck(s) = t
  BY <1>2, Zenon DEF PartialAck
<1> HIDE DEF marked
<1>4. /\ Bounded(sent) /\ Kept(marked, sent) /\ sent.head = marked.head
      /\ Guessed(sent) /\ sent.lost = marked.lost /\ sent.sacked = marked.sacked
  <2>1. marked.head \in marked.lost
    BY <1>1, <1>2, Zenon
  <2> QED
    BY <1>1, <1>2, <2>1, ResendBounded, ResendGuess
<1> HIDE DEF sent
<1>5. SameBoard(sent, acked) /\ acked.cong = sent.cong /\ Fields \subseteq DOMAIN acked
  BY <1>4, NewAckBoard
<1> HIDE DEF acked
<1>6. SameBoard(acked, t) /\ t.cong = acked.cong
  BY <1>5, Zenon DEF SameBoard, Fields
<1> HIDE DEF t
<1>7. SameBoard(sent, t) /\ t.cong = "RECOVERY"
  BY <1>2, <1>4, <1>5, <1>6, Zenon DEF SameBoard, Kept
<1>8. Guessed(t) /\ \A q \in t.lost : q = t.head
  BY <1>2, <1>4, <1>7, SameGuess, Zenon DEF SameBoard
<1> QED
  BY <1>3, <1>7, <1>8, Zenon DEF Board, Behind

LEMMA FullBoard ==
    ASSUME NEW s, Bounded(s)
    PROVE  SameBoard(s, FullAck(s)) /\ FullAck(s).cong = "OPEN"
<1> DEFINE ended == [s EXCEPT !.first = @ \/ s.cong \in {"RECOVERY", "LOSS"},
                              !.cong = "OPEN",
                              !.active = @ /\ s.head < s.recover]
           left == IF s.cong = "RECOVERY" THEN [ended EXCEPT !.cWnd = s.ssThresh] ELSE ended
           t == [left EXCEPT !.retr = DataRetries,
                             !.rto = left.head < Data /\ (TRUE \/ @)]
<1>1. SameBoard(s, ended) /\ ended.cong = "OPEN" /\ Fields \subseteq DOMAIN ended
  BY Zenon DEF Bounded, Typed, Fields, SameBoard
<1>2. FullAck(s) = t
  BY Zenon DEF FullAck, NewAck
<1> HIDE DEF ended
<1>3. SameBoard(s, left) /\ left.cong = "OPEN" /\ Fields \subseteq DOMAIN left
  BY <1>1, Zenon DEF Fields, SameBoard
<1> HIDE DEF left
<1>4. SameBoard(s, t) /\ t.cong = "OPEN"
  BY <1>3, Zenon DEF Fields, SameBoard
<1> QED
  BY <1>2, <1>4, Zenon

\* An ACK of new data ends a state only when nothing behind the head is lost any more.
LEMMA NewDataBoard ==
    ASSUME NEW s, Bounded(s), s.cong \in CongState, Board(s)
    PROVE  Board(ProcessAck(s, TRUE))
<1> DEFINE counted == [s EXCEPT !.dup = 0]
<1>1. /\ SameBoard(s, counted) /\ counted.high = s.high /\ counted.cong = s.cong
      /\ counted.recover = s.recover /\ counted.dup = 0
      /\ counted.rto = s.rto /\ counted.out = s.out
      /\ counted.cWnd = s.cWnd /\ counted.frac = s.frac /\ counted.ssThresh = s.ssThresh
      /\ More \subseteq DOMAIN counted /\ Fields \subseteq DOMAIN counted
  BY Zenon DEF Bounded, Typed, Fields, More, SameBoard
<1>2. ProcessAck(s, TRUE) =
          IF s.cong = "RECOVERY" /\ s.head < s.recover THEN PartialAck(counted)
          ELSE IF s.cong = "LOSS" /\ s.head < s.recover THEN NewAck(counted, TRUE)
          ELSE IF s.cong = "CWR" THEN NewAck(counted, TRUE)
          ELSE FullAck(counted)
  BY Zenon DEF ProcessAck
<1> HIDE DEF counted
<1>3. Bounded(counted)
  <2>1. Typed(counted)
    BY <1>1, Zenon DEF Bounded, Typed, SameBoard
  <2>2. Sent(counted) = Sent(s)
    BY <1>1, Zenon DEF Sent, SameBoard
  <2>3. Marks(counted) /\ Places(counted)
    BY <1>1, <2>2, Zenon DEF Bounded, Marks, Places, SameBoard
  <2> QED
    BY <1>1, <2>1, <2>3 DEF Bounded
<1>4. Board(counted)
  BY <1>1, Zenon DEF Board, Guessed, Behind, SameBoard
<1>5. CASE s.cong = "RECOVERY" /\ s.head < s.recover
  <2>1. ProcessAck(s, TRUE) = PartialAck(counted)
    BY <1>2, <1>5, Zenon
  <2>2. counted.head < counted.high /\ counted.cong = "RECOVERY"
    <3>1. s.head < s.high
      BY <1>5, MarksType
    <3> QED
      BY <1>1, <1>5, <3>1, Zenon DEF SameBoard
  <2> QED
    BY <1>3, <1>4, <2>1, <2>2, PartialBoard
<1>6. CASE ProcessAck(s, TRUE) = NewAck(counted, TRUE)
  <2> DEFINE t == NewAck(counted, TRUE)
  <2>1. SameBoard(counted, t) /\ t.cong = counted.cong /\ t.recover = counted.recover
    BY <1>3, NewAckBoard
  <2> HIDE DEF t
  <2>2. Board(t)
    BY <1>4, <2>1, Zenon DEF Board, Guessed, Behind, SameBoard
  <2> QED
    BY <1>6, <2>2 DEF t
<1>7. CASE /\ s.cong # "CWR"
           /\ s.cong \in {"RECOVERY", "LOSS"} => ~(s.head < s.recover)
  <2>1. ProcessAck(s, TRUE) = FullAck(counted)
    BY <1>2, <1>7, Zenon
  <2>2. SameBoard(counted, FullAck(counted)) /\ FullAck(counted).cong = "OPEN"
    BY <1>3, FullBoard
  <2>3. \A q \in s.lost : q = s.head
    <3> SUFFICES ASSUME NEW q \in s.lost PROVE q = s.head
      OBVIOUS
    <3>1. q = s.head \/ (s.cong = "LOSS" /\ q < s.recover)
      BY <1>7, Zenon DEF Board, Behind
    <3>2. CASE s.cong = "LOSS" /\ q < s.recover
      <4>1. ~(s.head < s.recover) /\ s.head \in Int /\ s.recover \in Int
            /\ q \in Int /\ q >= s.head
        BY <1>7, <3>2, MarksType
      <4> QED
        BY <3>2, <4>1
    <3> QED
      BY <3>1, <3>2
  <2>4. Board(FullAck(counted))
    <3>1. Guessed(counted) /\ \A q \in counted.lost : q = counted.head
      BY <1>1, <1>4, <2>3, Zenon DEF Board, SameBoard
    <3> QED
      BY <2>2, <3>1, SameGuess, Zenon DEF Board, Behind, SameBoard
  <2> QED
    BY <2>1, <2>4
<1> QED
  BY <1>2, <1>5, <1>6, <1>7, Zenon

LEMMA AckBoard ==
    ASSUME NEW s, Bounded(s), Rounds(s), Board(s),
           NEW ack \in Int, ack >= s.head, ack <= s.high, NEW ece \in BOOLEAN
    PROVE  Board(Acknowledged(s, ack, ece))
<1> DEFINE isNew == ack > s.head
           over == Over(s, ack)
           echoed == Echoed(s, ack, ece)
<1>0. s.head \in Int /\ s.high \in Int /\ s.recover \in Int /\ s.head <= s.high
  BY MarksType
<1>1. Acknowledged(s, ack, ece) = ProcessAck(echoed, isNew)
  BY Zenon DEF Acknowledged, Echoed, Over
<1>2. CASE ack = s.head
  <2>1. isNew = FALSE /\ ack <= s.head /\ ~(s.cong = "CWR" /\ ack > s.recover)
    BY <1>0, <1>2 DEF Rounds
  <2>2. DiscardUpTo(s, ack) = s
    BY <2>1, Zenon DEF DiscardUpTo
  <2>3. echoed = s
    BY <2>1, <2>2, Zenon DEF Echoed, Over
  <2>4. \/ s.head < s.high /\ ~(s.head >= s.high)
        \/ ~(s.head < s.high) /\ s.head >= s.high
    BY <1>0
  <2>5. \/ s.head < s.high /\ ProcessAck(s, FALSE) = DupAck(s)
        \/ ProcessAck(s, FALSE) = s
    BY <2>4, Zenon DEF ProcessAck
  <2>6. Acknowledged(s, ack, ece) = ProcessAck(s, FALSE)
    BY <1>1, <2>1, <2>3, Zenon
  <2> HIDE DEF isNew, over, echoed
  <2> QED
    BY <2>5, <2>6, DuplicateBoard, Zenon
<1>3. CASE ack # s.head
  <2>1. isNew = TRUE /\ ack > s.head
    BY <1>0, <1>3
  <2>2. /\ Guessed(DiscardUpTo(s, ack))
        /\ \A q \in DiscardUpTo(s, ack).lost : q = ack \/ q \in s.lost
        /\ s.sacked = {} => DiscardUpTo(s, ack).sacked = {}
    BY DiscardGuess DEF Board
  <2>3. /\ Bounded(over) /\ over.head = ack /\ over.recover = s.recover
        /\ over.cong = s.cong \/ (over.cong = "OPEN" /\ s.recover < ack)
        /\ over.lost = DiscardUpTo(s, ack).lost
        /\ over.sacked = DiscardUpTo(s, ack).sacked
        /\ over.retrans = DiscardUpTo(s, ack).retrans
    BY <2>1, OverBounded
  <2>4. Bounded(echoed) /\ echoed.cong \in CongState
    BY <2>1, EchoBounded
  <2>5. echoed \in {over, EnterCwr(over)}
    BY Zenon DEF Echoed
  <2>6. Acknowledged(s, ack, ece) = ProcessAck(echoed, TRUE)
    BY <1>1, <2>1, Zenon
  <2> HIDE DEF over, echoed, isNew
  <2>7. Guessed(over)
    <3>1. DiscardUpTo(s, ack).head = ack
      BY DiscardBounded
    <3> QED
      BY <2>2, <2>3, <3>1, Zenon DEF Guessed
  <2>8. Behind(over)
    <3> SUFFICES ASSUME NEW q \in over.lost, q # ack
                 PROVE  over.cong \in {"LOSS", "CWR"} /\ q < over.recover
      BY <2>3, Zenon DEF Behind
    <3>1. q \in Int /\ q >= ack /\ q \in s.lost
      BY <2>2, <2>3, MarksType
    <3>2. q # s.head
      BY <1>0, <2>1, <3>1
    <3>3. s.cong \in {"LOSS", "CWR"} /\ q < s.recover
      BY <3>1, <3>2, Zenon DEF Board, Behind
    <3>4. ~(s.recover < ack)
      BY <1>0, <3>1, <3>3
    <3> QED
      BY <2>3, <3>3, <3>4, Zenon
  <2>9. Board(over)
    BY <2>2, <2>3, <2>7, <2>8, Zenon DEF Board
  <2>10. Board(EnterCwr(over))
    <3> DEFINE t == EnterCwr(over)
    <3>1. SameBoard(over, t) /\ t.cong = "CWR" /\ t.recover = over.high
      BY <2>3, Zenon DEF EnterCwr, SameBoard, Bounded, Typed, Fields
    <3>2. \A q \in over.lost : q < over.high
      BY <2>3, MarksType
    <3> HIDE DEF t
    <3>3. Guessed(t) /\ Behind(t)
      BY <2>7, <3>1, <3>2, SameGuess, Zenon DEF Behind, SameBoard
    <3> QED
      BY <3>1, <3>3, Zenon DEF Board, t
  <2>11. Board(echoed)
    BY <2>5, <2>9, <2>10, Zenon
  <2> QED
    BY <2>4, <2>6, <2>11, NewDataBoard
<1> QED
  BY <1>2, <1>3

-----------------------------------------------------------------------------
(* Every step keeps the scoreboard.                                        *)

LEMMA SettlesBoard ==
    ASSUME NEW a, Bounded(a), Board(a), NEW s \in CongControl(a),
           Becomes(SendPendingData(s))
    PROVE  Board(snd')
<1> DEFINE t == SendPendingData(s)
<1>1. /\ Bounded(s) /\ SameBoard(a, s) /\ s.cong = a.cong /\ s.recover = a.recover
  BY ControlsBounded DEF SameBoard
<1>2. Board(s)
  BY <1>1, Zenon DEF Board, Guessed, Behind, SameBoard
<1>3. /\ Bounded(t) /\ t.head = s.head /\ t.cong = s.cong /\ t.recover = s.recover
      /\ Guessed(t) /\ t.lost = s.lost /\ t.sacked = s.sacked
  BY <1>1, <1>2, SendsBounded, SendsGuess DEF Board
<1>4. snd' = [t EXCEPT !.out = <<>>]
  BY Zenon DEF Becomes
<1> HIDE DEF t
<1>5. SameBoard(t, snd') /\ snd'.cong = t.cong /\ snd'.recover = t.recover
  BY <1>3, <1>4, Zenon DEF SameBoard, Bounded, Typed, Fields
<1> QED
  BY <1>2, <1>3, <1>5, SameGuess, Zenon DEF Board, Behind, SameBoard

LEMMA BoardStart == Init => Board(snd)
<1> SUFFICES ASSUME Init PROVE Board(snd)
  OBVIOUS
<1>1. snd.lost = {} /\ snd.sacked = {} /\ snd.retrans = {} /\ snd.cong = "OPEN"
  BY DEF Init
<1> QED
  BY <1>1, Zenon DEF Board, Guessed, Guess, Behind

LEMMA BoardStep ==
    ASSUME RoundInv, Board(snd), [Next]_vars
    PROVE  Board(snd')
<1>1. Bounded(snd) /\ Rounds(snd)
  BY DEF RoundInv
<1>2. CASE SendScheduled
  <2>1. Becomes(SendPendingData(snd))
    BY <1>2 DEF SendScheduled
  <2> DEFINE t == SendPendingData(snd)
  <2>2. /\ Bounded(t) /\ t.head = snd.head /\ t.cong = snd.cong /\ t.recover = snd.recover
        /\ Guessed(t) /\ t.lost = snd.lost /\ t.sacked = snd.sacked
    BY <1>1, SendsBounded, SendsGuess DEF Board
  <2>3. snd' = [t EXCEPT !.out = <<>>]
    BY <2>1, Zenon DEF Becomes
  <2> HIDE DEF t
  <2>4. SameBoard(t, snd') /\ snd'.cong = t.cong /\ snd'.recover = t.recover
    BY <2>2, <2>3, Zenon DEF SameBoard, Bounded, Typed, Fields
  <2> QED
    BY <2>2, <2>4, SameGuess, Zenon DEF Board, Behind, SameBoard
<1>3. CASE ReceiveAck
  <2>1. CASE ~snd.up \/ Head(acks) < snd.head
    <3>1. snd' = snd
      BY <1>3, <2>1 DEF ReceiveAck
    <3> QED
      BY <3>1
  <2>2. CASE ~(~snd.up \/ Head(acks) < snd.head)
    <3>1. PICK ece \in Echoes :
              \E s \in CongControl(Acknowledged(snd, Head(acks), ece)) :
                  Becomes(SendPendingData(s))
      BY <1>3, <2>2, Zenon DEF ReceiveAck
    <3>2. Head(acks) \in Int /\ Head(acks) <= rcv /\ rcv \in Int
      BY <1>3 DEF ReceiveAck, RoundInv, RecInv, Received
    <3>3. Head(acks) >= snd.head /\ Head(acks) <= snd.high /\ ece \in BOOLEAN
      BY <1>1, <2>2, <3>2, EchoAssumption DEF RoundInv, Flight, Bounded, Typed
    <3> DEFINE a == Acknowledged(snd, Head(acks), ece)
    <3>4. Bounded(a)
      BY <1>1, <3>2, <3>3, AckBounded, Zenon DEF AckOutcome
    <3>5. Board(a)
      BY <1>1, <3>2, <3>3, AckBoard
    <3> HIDE DEF a
    <3> QED
      BY <3>1, <3>4, <3>5, SettlesBoard, Zenon DEF a
  <2> QED
    BY <2>1, <2>2
<1>4. CASE ReceiveData
  <2>1. snd' = snd
    BY <1>4 DEF ReceiveData
  <2> QED
    BY <2>1
<1>5. CASE ReTxTimeout
  <2>1. CASE snd.retr = 0
    <3>1. snd' = [[snd EXCEPT !.up = FALSE, !.rto = FALSE] EXCEPT !.out = <<>>]
      BY <1>5, <2>1, Zenon DEF ReTxTimeout, Becomes
    <3>2. SameBoard(snd, snd') /\ snd'.cong = snd.cong /\ snd'.recover = snd.recover
      BY <1>1, <3>1, Zenon DEF SameBoard, Bounded, Typed, Fields
    <3> QED
      BY <3>2, Zenon DEF Board, Guessed, Behind, SameBoard
  <2>2. CASE snd.retr # 0
    <3>1. PICK s, l :
              /\ Becomes(SendPendingData(s)) /\ s \in CongControl(l) /\ Bounded(l)
              /\ l.high = snd.high /\ l.recover = snd.high /\ l.cong = "LOSS"
              /\ l.lost = Sent(l) /\ l.sacked = {} /\ l.retrans = {}
      BY <1>5, <2>2, TimeoutTaken, Zenon
    <3>2. /\ l.head \in Int /\ l.high \in Int
          /\ \A q \in l.lost : q < l.high
      BY <3>1, MarksType
    <3>3. Guessed(l)
      BY <3>1, <3>2, GuessAll DEF Guessed, Sent
    <3>4. Behind(l)
      BY <3>1, <3>2, Zenon DEF Behind
    <3>5. Board(l)
      BY <3>1, <3>3, <3>4, Zenon DEF Board
    <3> QED
      BY <3>1, <3>5, SettlesBoard
  <2> QED
    BY <2>1, <2>2
<1>6. CASE LosePacket
  <2>1. snd' = snd
    BY <1>6 DEF LosePacket
  <2> QED
    BY <2>1
<1>7. CASE UNCHANGED vars
  <2>1. snd' = snd
    BY <1>7 DEF vars
  <2> QED
    BY <2>1
<1> QED
  BY <1>2, <1>3, <1>4, <1>5, <1>6, <1>7 DEF Next

\* The scoreboard that duplicate ACKs guess stays consistent, for any windows, losses,
\* echoes and early timeouts: it marks only what is sent, no segment counts as received
\* and as lost, lost segments are the oldest ones, and outside of CA_LOSS and CA_CWR
\* only the head is lost.
THEOREM ScoreboardConsistent == Spec => []Scoreboard
<1>1. RoundInv /\ Board(snd) => Scoreboard
  <2> SUFFICES ASSUME RoundInv, Board(snd) PROVE Scoreboard
    OBVIOUS
  <2>1. /\ Guess(snd.head, snd.lost, snd.sacked, snd.retrans) /\ Behind(snd)
        /\ snd.cong = "LOSS" => snd.sacked = {}
    BY DEF Board, Guessed
  <2>2. snd.lost \cup snd.sacked \cup snd.retrans \subseteq Sent(snd)
    BY DEF RoundInv, Bounded, Marks
  <2>3. \A q \in snd.lost : snd.head..q \subseteq snd.lost
    <3> SUFFICES ASSUME NEW q \in snd.lost, NEW p \in snd.head..q PROVE p \in snd.lost
      OBVIOUS
    <3>1. snd.head \in Int /\ q \in Int
      BY MarksType DEF RoundInv
    <3>2. p \in Int /\ snd.head <= p /\ p <= q
      BY <3>1
    <3> QED
      BY <2>1, <3>2, Zenon DEF Guess
  <2>4. snd.cong \notin {"LOSS", "CWR"} => snd.lost \subseteq {snd.head}
    BY <2>1 DEF Behind
  <2> QED
    BY <2>1, <2>2, <2>3, <2>4 DEF Guess, Scoreboard
<1>2. RoundInv /\ Board(snd) /\ [Next]_vars => RoundInv' /\ Board(snd)'
  BY RoundsStep, BoardStep
<1> QED
  BY RoundsStart, BoardStart, <1>1, <1>2, PTL DEF Spec

-----------------------------------------------------------------------------
(* The types: what each helper returns is a socket again, whose windows,   *)
(* counters and marks keep to their ranges.                                *)

Sound(s) == s \in Sender /\ s.retr <= DataRetries

LEMMA SentType ==
    ASSUME NEW s, Sound(s)
    PROVE  Sent(s) \subseteq 0..Data
BY CountAssumption DEF Sound, Sender, Sent

LEMMA MarkSound ==
    ASSUME NEW s, Sound(s)
    PROVE  Sound(MarkHeadAsLost(s)) /\ MarkHeadAsLost(s).head = s.head
BY DEF Sound, Sender, MarkHeadAsLost

LEMMA SackSound ==
    ASSUME NEW s, Sound(s)
    PROVE  Sound(AddRenoSack(s)) /\ AddRenoSack(s).head = s.head
<1> DEFINE free == {q \in Sent(s) : q > s.head} \ s.sacked
<1>1. free = {} \/ Least(free) \in 0..Data
  <2>1. free \subseteq 0..Data /\ free \subseteq Nat
    BY SentType
  <2> HIDE DEF free
  <2> QED
    BY <2>1, LeastMember
<1>2. AddRenoSack(s) = IF free = {} THEN s ELSE [s EXCEPT !.sacked = @ \cup {Least(free)}]
  BY Zenon DEF AddRenoSack
<1> HIDE DEF free
<1> DEFINE guess == s.sacked \cup {Least(free)}
<1>3. free = {} \/ guess \in SUBSET (0..Data)
  BY <1>1 DEF Sound, Sender
<1>4. AddRenoSack(s) = IF free = {} THEN s ELSE [s EXCEPT !.sacked = guess]
  BY <1>2, Zenon
<1> HIDE DEF guess
<1> QED
  BY <1>3, <1>4 DEF Sound, Sender

LEMMA DiscardSound ==
    ASSUME NEW s, Sound(s), NEW ack \in 0..Data
    PROVE  Sound(DiscardUpTo(s, ack))
<1> DEFINE left == Dropped(s, ack)
           rest == Cleared(s, ack)
<1>1. Sound(left)
  BY DEF Sound, Sender, Dropped
<1>2. Sound(rest)
  BY <1>1 DEF Sound, Sender, Cleared
<1>3. DiscardUpTo(s, ack) \in {s, left, MarkHeadAsLost(AddRenoSack(rest))}
  BY Zenon DEF DiscardUpTo, Dropped, Cleared
<1> HIDE DEF left, rest
<1>4. Sound(MarkHeadAsLost(AddRenoSack(rest)))
  BY <1>2, SackSound, MarkSound
<1> QED
  BY <1>1, <1>3, <1>4, Zenon

LEMMA ListSound ==
    ASSUME NEW s, Sound(s)
    PROVE  Sound(SetSentListLost(s)) /\ SetSentListLost(s).retr = s.retr
BY SentType DEF Sound, Sender, SetSentListLost

LEMMA ResendSound ==
    ASSUME NEW s, Sound(s), NEW q \in 0..Data
    PROVE  Sound(Resend(s, q)) /\ Resend(s, q).head = s.head
<1> DEFINE again == s.retrans \cup {q}
           out == Append(s.out, q)
<1>1. again \in SUBSET (0..Data) /\ out \in Seq(0..Data)
  BY DEF Sound, Sender
<1>2. Resend(s, q) = [s EXCEPT !.retrans = again, !.out = out, !.rto = TRUE]
  BY Zenon DEF Resend
<1> HIDE DEF again, out
<1> QED
  BY <1>1, <1>2 DEF Sound, Sender

LEMMA NewAckSound ==
    ASSUME NEW s, Sound(s), NEW resetRTO \in BOOLEAN
    PROVE  Sound(NewAck(s, resetRTO))
<1> DEFINE rto == s.head < Data /\ (resetRTO \/ s.rto)
<1>1. rto \in BOOLEAN
  BY Zenon
<1> DEFINE full == [s EXCEPT !.retr = DataRetries]
<1>2. NewAck(s, resetRTO) = [full EXCEPT !.rto = rto]
  BY Zenon DEF NewAck
<1>3. Sound(full)
  <2>1. DataRetries \in Nat /\ DataRetries <= DataRetries
    BY CountAssumption
  <2> HIDE DEF rto
  <2>2. full \in Sender /\ full.retr = DataRetries
    BY <2>1 DEF Sound, Sender
  <2> QED
    BY <2>1, <2>2 DEF Sound
<1> HIDE DEF full, rto
<1>4. \A b \in BOOLEAN : Sound([full EXCEPT !.rto = b])
  BY <1>3 DEF Sound, Sender
<1> QED
  BY <1>1, <1>2, <1>4, Zenon

LEMMA CwrSound ==
    ASSUME NEW s, Sound(s)
    PROVE  Sound(EnterCwr(s))
BY DEF Sound, Sender, EnterCwr, CongState

LEMMA ControlsSound ==
    ASSUME NEW s, Sound(s), NEW t \in CongControl(s)
    PROVE  Sound(t)
<1>1. \A w \in Windows : w \in Nat
  BY WindowAssumption
<1>2. CASE t = [s EXCEPT !.frac = IF @ = Indeterminate THEN s.cWnd ELSE @]
  BY <1>2 DEF Sound, Sender, Indeterminate
<1>3. CASE \E w \in Windows : t = [s EXCEPT !.frac = w, !.cWnd = w]
  BY <1>1, <1>3 DEF Sound, Sender
<1> QED
  BY <1>2, <1>3, Zenon DEF CongControl

LEMMA RecoversSound ==
    ASSUME NEW s, Sound(s)
    PROVE  Sound(EnterRecovery(s))
<1> DEFINE marked == MarkHeadAsLost(AddRenoSack(s))
           entered == [marked EXCEPT !.recover = s.high, !.active = TRUE,
                                     !.cong = "RECOVERY", !.ssThresh = s.frac]
<1>1. Sound(marked)
  BY SackSound, MarkSound
<1> HIDE DEF marked
<1>2. Sound(entered)
  BY <1>1 DEF Sound, Sender, CongState
<1>3. s.head \in 0..Data
  BY DEF Sound, Sender
<1> HIDE DEF entered
<1>4. Sound(Resend(entered, s.head))
  BY <1>2, <1>3, ResendSound
<1> QED
  BY <1>4, Zenon DEF EnterRecovery, entered, marked

LEMMA DuplicateSound ==
    ASSUME NEW s, Sound(s)
    PROVE  Sound(DupAck(s))
<1> DEFINE counted == [s EXCEPT !.dup = @ + 1,
                                !.cong = IF @ = "OPEN" THEN "DISORDER" ELSE @]
<1>1. Sound(counted)
  <2> DEFINE dup == s.dup + 1
             cong == IF s.cong = "OPEN" THEN "DISORDER" ELSE s.cong
  <2>1. dup \in Nat /\ cong \in CongState
    BY DEF Sound, Sender, CongState
  <2>2. counted = [s EXCEPT !.dup = dup, !.cong = cong]
    BY Zenon
  <2> HIDE DEF dup, cong
  <2> QED
    BY <2>1, <2>2 DEF Sound, Sender
<1>2. DupAck(s) \in {s, AddRenoSack(s), counted, EnterRecovery(counted),
                     AddRenoSack(counted)}
  BY Zenon DEF DupAck
<1> HIDE DEF counted
<1>3. /\ Sound(AddRenoSack(s)) /\ Sound(EnterRecovery(counted))
      /\ Sound(AddRenoSack(counted))
  BY <1>1, SackSound, RecoversSound
<1> QED
  BY <1>1, <1>2, <1>3, Zenon

LEMMA PartialSound ==
    ASSUME NEW s, Sound(s)
    PROVE  Sound(PartialAck(s))
<1> DEFINE sent == Resend(MarkHeadAsLost(s), s.head)
           acked == NewAck(sent, s.first)
<1>1. s.head \in 0..Data /\ s.first \in BOOLEAN
  BY DEF Sound, Sender
<1>2. Sound(sent)
  BY <1>1, MarkSound, ResendSound
<1> HIDE DEF sent
<1>3. Sound(acked)
  BY <1>1, <1>2, NewAckSound
<1> HIDE DEF acked
<1>4. Sound([acked EXCEPT !.first = FALSE])
  BY <1>3 DEF Sound, Sender
<1> QED
  BY <1>4, Zenon DEF PartialAck, acked, sent

LEMMA FullSound ==
    ASSUME NEW s, Sound(s)
    PROVE  Sound(FullAck(s))
<1> DEFINE ended == [s EXCEPT !.first = @ \/ s.cong \in {"RECOVERY", "LOSS"},
                              !.cong = "OPEN",
                              !.active = @ /\ s.head < s.recover]
           left == IF s.cong = "RECOVERY" THEN [ended EXCEPT !.cWnd = s.ssThresh] ELSE ended
<1>1. Sound(ended)
  BY DEF Sound, Sender, CongState
<1>2. s.ssThresh \in Nat
  BY DEF Sound, Sender
<1> HIDE DEF ended
<1>3. Sound(left)
  BY <1>1, <1>2 DEF Sound, Sender
<1> HIDE DEF left
<1>4. Sound(NewAck(left, TRUE))
  BY <1>3, NewAckSound
<1> QED
  BY <1>4, Zenon DEF FullAck, left, ended

LEMMA ProcessSound ==
    ASSUME NEW s, Sound(s), NEW isNew
    PROVE  Sound(ProcessAck(s, isNew))
<1> DEFINE counted == [s EXCEPT !.dup = 0]
<1>1. Sound(counted)
  BY DEF Sound, Sender
<1>2. ProcessAck(s, isNew) \in {DupAck(s), s, PartialAck(counted), NewAck(counted, TRUE),
                                FullAck(counted)}
  BY Zenon DEF ProcessAck
<1> HIDE DEF counted
<1>3. /\ Sound(DupAck(s)) /\ Sound(PartialAck(counted)) /\ Sound(FullAck(counted))
      /\ Sound(NewAck(counted, TRUE))
  BY <1>1, DuplicateSound, PartialSound, FullSound, NewAckSound
<1> QED
  BY <1>2, <1>3, Zenon

LEMMA AckSound ==
    ASSUME NEW s, Sound(s), NEW ack \in 0..Data, NEW ece
    PROVE  Sound(Acknowledged(s, ack, ece))
<1> DEFINE isNew == ack > s.head
           discarded == DiscardUpTo(s, ack)
           over == IF s.cong = "CWR" /\ ack > s.recover
                   THEN [discarded EXCEPT !.cong = "OPEN"]
                   ELSE discarded
           echoed == IF isNew /\ ece /\ over.cong # "CWR" THEN EnterCwr(over) ELSE over
<1>1. Sound(discarded)
  BY DiscardSound
<1> HIDE DEF discarded
<1>2. Sound(over)
  BY <1>1 DEF Sound, Sender, CongState
<1> HIDE DEF over
<1>3. Sound(echoed)
  BY <1>2, CwrSound
<1> HIDE DEF echoed, isNew
<1>4. Sound(ProcessAck(echoed, isNew))
  BY <1>3, ProcessSound
<1> QED
  BY <1>4, Zenon DEF Acknowledged, echoed, over, discarded, isNew

LEMMA FreshType ==
    ASSUME NEW h \in 0..Data, NEW n \in Nat, h + n <= Data
    PROVE  [i \in 1..n |-> h + i - 1] \in Seq(0..Data)
<1>1. \A i \in 1..n : h + i - 1 \in 0..Data
  BY CountAssumption
<1> QED
  BY <1>1, IsASeq

LEMMA SendsSound ==
    ASSUME NEW s, Sound(s), Bounded(s)
    PROVE  Sound(SendPendingData(s))
<1> DEFINE again == s.lost \ (s.retrans \cup s.sacked)
           room == IF s.cWnd >= InFlight(s) THEN (s.cWnd - InFlight(s)) \div Seg ELSE 0
           resent == {q \in again : Cardinality({p \in again : p < q}) < room}
           fresh == Smaller(room - Cardinality(resent), Data - s.high)
           new == [i \in 1..fresh |-> s.high + i - 1]
           out == s.out \o InOrder(resent) \o new
           retrans == s.retrans \cup resent
           high == s.high + fresh
           t == [s EXCEPT !.retrans = retrans, !.high = high, !.out = out, !.rto = TRUE]
<1>0. /\ s.high \in 0..Data /\ s.lost \subseteq 0..Data /\ s.retrans \subseteq 0..Data
      /\ s.out \in Seq(0..Data) /\ Data \in Nat /\ IsFiniteSet(s.lost)
  BY CountAssumption DEF Sound, Sender, Bounded, Typed
<1>1. SendPendingData(s) = IF s.head = Data \/ room = 0 \/ (resent = {} /\ fresh = 0)
                           THEN s ELSE t
  BY Zenon DEF SendPendingData
<1>2. resent \subseteq 0..Data /\ IsFiniteSet(resent)
  <2>1. resent \in SUBSET s.lost
    <3>1. again \subseteq s.lost
      OBVIOUS
    <3> HIDE DEF again, room
    <3> QED
      BY <3>1
  <2> QED
    BY <1>0, <2>1, FS_Subset
<1>3. t.high = high
  BY Zenon DEF Bounded, Typed, Fields
<1> HIDE DEF again, room, resent
<1>4. fresh \in Int /\ high \in Int
  <2>1. room \in Int /\ Cardinality(resent) \in Nat
    <3>1. InFlight(s) \in Int /\ s.cWnd \in Int /\ Seg \in Nat \ {0}
      BY InFlightType, CountAssumption DEF Bounded, Typed
    <3> QED
      BY <1>2, <3>1, FS_CardinalityType DEF room
  <2> QED
    BY <1>0, <2>1 DEF Smaller
<1> SUFFICES ASSUME SendPendingData(s) = t PROVE Sound(t)
  BY <1>1, Zenon
<1>5. high \in 0..Data /\ fresh \in Nat
  <2>1. t.high >= s.high /\ t.high <= Data
    BY SendsBounded DEF Bounded, Places
  <2> HIDE DEF t, fresh
  <2> QED
    BY <1>0, <1>3, <1>4, <2>1
<1>6. new \in Seq(0..Data)
  <2>1. s.high + fresh <= Data
    <3> HIDE DEF fresh
    <3> QED
      BY <1>0, <1>5
  <2> HIDE DEF fresh
  <2> QED
    BY <1>0, <1>5, <2>1, FreshType
<1>7. InOrder(resent) \in Seq(0..Data)
  <2>1. resent \subseteq Nat
    BY <1>2
  <2>2. InOrder(resent) \in Seq(resent)
    BY <1>2, <2>1, Ordered
  <2> QED
    BY <1>2, <2>2, SeqMonotonic
<1>8. out \in Seq(0..Data)
  <2> HIDE DEF new
  <2>1. s.out \o InOrder(resent) \in Seq(0..Data)
    BY <1>0, <1>7, ConcatProperties
  <2> QED
    BY <1>6, <2>1, ConcatProperties
<1>9. retrans \in SUBSET (0..Data)
  BY <1>0, <1>2
<1> HIDE DEF out, retrans, high
<1> QED
  BY <1>5, <1>8, <1>9 DEF Sound, Sender

LEMMA BecomesSound ==
    ASSUME TypeOK, NEW t, Sound(t), Becomes(t)
    PROVE  /\ snd' \in Sender /\ snd'.out = <<>> /\ snd'.retr <= DataRetries
           /\ data' \in Seq(0..Data)
<1>1. snd' = [t EXCEPT !.out = <<>>] /\ data' = data \o t.out
  BY Zenon DEF Becomes
<1>2. data \in Seq(0..Data) /\ t.out \in Seq(0..Data)
  BY DEF TypeOK, Sound, Sender
<1>3. data' \in Seq(0..Data)
  BY <1>1, <1>2, ConcatProperties
<1>4. <<>> \in Seq(0..Data)
  OBVIOUS
<1>5. snd' \in Sender /\ snd'.out = <<>> /\ snd'.retr = t.retr
  BY <1>1, <1>4 DEF Sound, Sender
<1> QED
  BY <1>3, <1>5 DEF Sound

LEMMA ExpiredSound ==
    ASSUME NEW s, Sound(s), s.retr # 0
    PROVE  Sound(Expired(s))
<1> DEFINE list == SetSentListLost(s)
           retr == list.retr - 1
<1>1. Sound(list) /\ list.retr = s.retr
  BY ListSound
<1>2. retr \in Nat /\ retr <= DataRetries
  <2>1. s.retr \in Nat /\ s.retr <= DataRetries /\ DataRetries \in Nat
    BY CountAssumption DEF Sound, Sender
  <2> HIDE DEF list
  <2> QED
    BY <1>1, <2>1
<1>3. s.high \in 0..Data /\ s.frac \in Nat
  BY DEF Sound, Sender
<1> DEFINE t == [list EXCEPT !.rto = FALSE, !.retr = retr, !.dup = 0]
           l == [t EXCEPT !.recover = s.high, !.active = TRUE,
                          !.ssThresh = s.frac, !.cong = "LOSS"]
<1>4. Expired(s) = l
  BY Zenon DEF Expired
<1> HIDE DEF list, retr
<1>5. Sound(t)
  BY <1>1, <1>2 DEF Sound, Sender
<1> HIDE DEF t
<1>6. Sound(l)
  BY <1>3, <1>5 DEF Sound, Sender, CongState
<1> QED
  BY <1>4, <1>6, Zenon

LEMMA TypeStart == Init => TypeOK
<1> SUFFICES ASSUME Init PROVE TypeOK
  OBVIOUS
<1>1. PICK w \in Windows : 
          snd = [up |-> TRUE, head |-> 0, high |-> 0, lost |-> {}, sacked |-> {},
                 retrans |-> {}, cong |-> "OPEN", dup |-> 0, recover |-> 0,
                 active |-> FALSE, first |-> TRUE, ssThresh |-> w, cWnd |-> w,
                 frac |-> Indeterminate, retr |-> DataRetries, rto |-> FALSE,
                 out |-> <<>>]
  BY Zenon DEF Init
<1>2. w \in Nat /\ DataRetries \in Nat /\ 0 \in 0..Data /\ Indeterminate \in Nat
      /\ <<>> \in Seq(0..Data)
  BY WindowAssumption, CountAssumption DEF Indeterminate
<1>3. snd \in Sender /\ snd.out = <<>> /\ snd.retr <= DataRetries
  BY <1>1, <1>2 DEF Sender, CongState
<1> QED
  BY <1>3, CountAssumption DEF Init, TypeOK

LEMMA TypeStep ==
    ASSUME TypeOK, RoundInv, [Next]_vars
    PROVE  TypeOK'
<1>1. /\ Bounded(snd) /\ Rounds(snd) /\ Sound(snd)
      /\ rcv \in 0..Data /\ held \subseteq 0..Data
      /\ data \in Seq(0..Data) /\ acks \in Seq(0..Data)
      /\ lost \in 0..MaxLost /\ early \in 0..MaxEarly /\ Data \in Nat
      /\ MaxLost \in Nat /\ MaxEarly \in Nat
  BY CountAssumption DEF RoundInv, TypeOK, Sound
<1>2. CASE SendScheduled
  <2>1. Becomes(SendPendingData(snd)) /\ Sound(SendPendingData(snd))
    BY <1>1, <1>2, SendsSound DEF SendScheduled
  <2>2. /\ snd' \in Sender /\ snd'.out = <<>> /\ snd'.retr <= DataRetries
        /\ data' \in Seq(0..Data)
    BY <2>1, BecomesSound
  <2> QED
    BY <1>1, <1>2, <2>2 DEF SendScheduled, TypeOK
<1>3. CASE ReceiveAck
  <2>1. Head(acks) \in 0..Data /\ acks' \in Seq(0..Data)
    BY <1>1, <1>3 DEF ReceiveAck
  <2>2. UNCHANGED <<pending, rcv, held, lost, early>>
    BY <1>3 DEF ReceiveAck
  <2>3. CASE ~snd.up \/ Head(acks) < snd.head
    <3>1. UNCHANGED <<snd, data>>
      BY <1>3, <2>3 DEF ReceiveAck
    <3> QED
      BY <2>1, <2>2, <3>1 DEF TypeOK
  <2>4. CASE ~(~snd.up \/ Head(acks) < snd.head)
    <3>1. PICK ece \in Echoes :
              \E s \in CongControl(Acknowledged(snd, Head(acks), ece)) :
                  Becomes(SendPendingData(s))
      BY <1>3, <2>4, Zenon DEF ReceiveAck
    <3>2. /\ Head(acks) <= rcv /\ rcv <= snd.high
          /\ snd.head \in Int /\ snd.high \in Int
      BY <1>3 DEF ReceiveAck, RoundInv, RecInv, Received, Flight, Bounded, Typed
    <3>3. /\ Head(acks) \in Int /\ Head(acks) >= snd.head /\ Head(acks) <= snd.high
          /\ ece \in BOOLEAN
      <4> DEFINE n == Head(acks)
      <4>1. n \in Int /\ n <= rcv /\ ~(n < snd.head) /\ rcv \in Int
        BY <1>1, <2>1, <2>4, <3>2
      <4> HIDE DEF n
      <4>2. n >= snd.head /\ n <= snd.high
        BY <3>2, <4>1
      <4> QED
        BY <4>1, <4>2, EchoAssumption DEF n
    <3> DEFINE a == Acknowledged(snd, Head(acks), ece)
    <3>4. Bounded(a) /\ Sound(a)
      BY <1>1, <2>1, <3>3, AckBounded, AckSound DEF AckOutcome
    <3> HIDE DEF a
    <3>5. PICK s \in CongControl(a) : Becomes(SendPendingData(s))
      BY <3>1, Zenon DEF a
    <3>6. Sound(SendPendingData(s))
      BY <3>4, ControlsBounded, ControlsSound, SendsSound
    <3>7. /\ snd' \in Sender /\ snd'.out = <<>> /\ snd'.retr <= DataRetries
          /\ data' \in Seq(0..Data)
      BY <3>5, <3>6, BecomesSound
    <3> QED
      BY <2>1, <2>2, <3>7 DEF TypeOK
  <2> QED
    BY <2>3, <2>4
<1>4. CASE ReceiveData
  <2> DEFINE all == IF Head(data) < rcv THEN held ELSE held \cup {Head(data)}
             next == Least({Data} \cup {q \in rcv..Data : q \notin all})
  <2>1. /\ UNCHANGED <<snd, pending, lost, early>>
        /\ rcv' = next /\ held' = {q \in all : q > next} /\ acks' = Append(acks, next)
        /\ data # <<>> /\ data' = Tail(data)
    BY <1>4, Zenon DEF ReceiveData
  <2>2. Head(data) \in 0..Data /\ data' \in Seq(0..Data)
    BY <1>1, <2>1
  <2>3. next \in 0..Data
    <3>1. next \in rcv..Data
      BY <1>1, Advances
    <3> HIDE DEF next
    <3> QED
      BY <1>1, <3>1
  <2>4. held' \subseteq 0..Data
    <3>1. all \subseteq 0..Data
      BY <1>1, <2>2
    <3> HIDE DEF all, next
    <3> QED
      BY <2>1, <3>1
  <2> HIDE DEF next, all
  <2>5. acks' \in Seq(0..Data)
    BY <1>1, <2>1, <2>3
  <2> QED
    BY <2>1, <2>2, <2>3, <2>4, <2>5 DEF TypeOK
<1>5. CASE ReTxTimeout
  <2>1. UNCHANGED <<pending, rcv, held, acks, lost>>
    BY <1>5 DEF ReTxTimeout
  <2>2. early' \in 0..MaxEarly
    BY <1>1, <1>5 DEF ReTxTimeout
  <2>3. CASE snd.retr = 0
    <3> DEFINE t == [snd EXCEPT !.up = FALSE, !.rto = FALSE]
    <3>1. Becomes(t)
      BY <1>5, <2>3, Zenon DEF ReTxTimeout
    <3>2. Sound(t)
      BY <1>1 DEF Sound, Sender
    <3> HIDE DEF t
    <3>3. /\ snd' \in Sender /\ snd'.out = <<>> /\ snd'.retr <= DataRetries
          /\ data' \in Seq(0..Data)
      BY <3>1, <3>2, BecomesSound
    <3> QED
      BY <2>1, <2>2, <3>3 DEF TypeOK
  <2>4. CASE snd.retr # 0
    <3>1. PICK s, l : /\ l = Expired(snd) /\ Bounded(l)
                      /\ Becomes(SendPendingData(s)) /\ s \in CongControl(l)
      BY <1>5, <2>4, TimeoutTaken, Zenon
    <3>2. Sound(l)
      BY <1>1, <2>4, <3>1, ExpiredSound
    <3>3. Sound(SendPendingData(s))
      BY <3>1, <3>2, ControlsBounded, ControlsSound, SendsSound
    <3>4. /\ snd' \in Sender /\ snd'.out = <<>> /\ snd'.retr <= DataRetries
          /\ data' \in Seq(0..Data)
      BY <3>1, <3>3, BecomesSound
    <3> QED
      BY <2>1, <2>2, <3>4 DEF TypeOK
  <2> QED
    BY <2>3, <2>4
<1>6. CASE LosePacket
  <2>1. lost' \in 0..MaxLost
    BY <1>1, <1>6 DEF LosePacket
  <2>2. data' \in Seq(0..Data) /\ acks' \in Seq(0..Data)
    <3>1. \/ data # <<>> /\ data' = Tail(data) /\ acks' = acks
          \/ acks # <<>> /\ acks' = Tail(acks) /\ data' = data
      BY <1>6, Zenon DEF LosePacket
    <3>2. CASE data # <<>> /\ data' = Tail(data) /\ acks' = acks
      BY <1>1, <3>2
    <3>3. CASE acks # <<>> /\ acks' = Tail(acks) /\ data' = data
      BY <1>1, <3>3
    <3> QED
      BY <3>1, <3>2, <3>3
  <2>3. UNCHANGED <<snd, pending, rcv, held, early>>
    BY <1>6 DEF LosePacket
  <2> QED
    BY <2>1, <2>2, <2>3 DEF TypeOK
<1>7. CASE UNCHANGED vars
  BY <1>7 DEF vars, TypeOK
<1> QED
  BY <1>2, <1>3, <1>4, <1>5, <1>6, <1>7 DEF Next

\* The socket keeps to its types for any number of steps: windows, thresholds and
\* counters never go below zero, the retries never wrap, sequence numbers stay within
\* the data, and what is on its way are segments of it.
THEOREM TypeCorrect == Spec => []TypeOK
<1>1. RoundInv /\ TypeOK /\ [Next]_vars => RoundInv' /\ TypeOK'
  BY RoundsStep, TypeStep
<1> QED
  BY RoundsStart, TypeStart, <1>1, PTL DEF Spec

=============================================================================
