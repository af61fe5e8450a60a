---------------------------- MODULE Vcp_proofs ----------------------------
(***************************************************************************)
(* Proofs about module Vcp, for every estimation interval, every set of    *)
(* round-trip times, all factors and every segment size.                   *)
(***************************************************************************)
EXTENDS Vcp, TLAPS

\* A window no further than one additive increase beyond the cap of base p.
Within(x, p) == \E rtt \in Rtts : x <= Cap(p) + ScaledAlpha[rtt] * SegSize

\* The timers tell whether the controller was ever called, and a controller
\* that never was is neither frozen nor in the round trip after a freeze.
TimersAgree ==
    /\ fracInit <=> incTimer # NotRunning
    /\ ~fracInit => ~mdFreeze /\ mdTimer = NotRunning

\* Once the controller's window is beyond the cap, every window that it may find
\* in the socket is close enough to the cap for AdditiveIncrease to take it over.
WindowsWithin ==
    fracInit =>
        \/ frac <= Cap(prevCWnd)
        \/ /\ Within(cWnd * Res, prevCWnd)
           /\ ssThresh # NoThreshold => Within(ssThresh * Res, prevCWnd)
           /\ ~acked => Within(InitWindow * Res, prevCWnd)

\* Before the first ACK only a SYN can have changed the socket's window alone.
SynWindow == ~acked => cWnd = InitWindow \/ (fracInit /\ cWnd = Floor(frac))

IInv ==
    TypeOK /\ TimersAgree /\ RestoresOwnWindow /\ GrowthBounded
    /\ WindowsWithin /\ SynWindow

-----------------------------------------------------------------------------
(* Arithmetic.                                                             *)

\* Rounding a fixed-point window down and back loses less than one byte.
LEMMA FloorBounds ==
    ASSUME NEW f \in Nat
    PROVE  /\ Floor(f) \in Nat
           /\ Floor(f) * Res <= f
           /\ f < (Floor(f) + 1) * Res
BY DEF Floor, Res

\* A whole number of bytes is its own rounding.
LEMMA FloorOfBytes ==
    ASSUME NEW b \in Nat
    PROVE  b * Res \in Nat /\ Floor(b * Res) = b
BY DEF Floor, Res

\* Products of natural numbers are natural numbers.
LEMMA ProductInNat ==
    ASSUME NEW a \in Nat, NEW b \in Nat
    PROVE  a * b \in Nat
OBVIOUS

\* A decrease never enlarges the window.
LEMMA DecreaseBounds ==
    ASSUME NEW f \in Nat
    PROVE  /\ (f * Beta) \div Res \in Nat
           /\ (f * Beta) \div Res <= f
<1>1. Beta \in Nat /\ Beta <= 16
  BY FactorAssumption DEF Res
<1>2. f * Beta \in Nat
  BY <1>1, ProductInNat
<1>3. f * Beta <= f * 16
  BY <1>1
<1>. DEFINE x == f * Beta
<1>4. x \in Nat /\ x <= 16 * f
  BY <1>2, <1>3
<1>. HIDE DEF x
<1>5. x \div 16 \in Nat /\ x \div 16 <= f
  BY <1>4
<1>. QED
  BY <1>5 DEF x, Res

\* The cap on the window is a natural number whatever the base is.
LEMMA CapType ==
    ASSUME NEW p \in Nat
    PROVE  /\ p * MaxIncrease \in Nat
           /\ (p + SegSize) * Res \in Nat
           /\ Cap(p) \in Nat
           /\ p * MaxIncrease <= Cap(p)
           /\ (p + SegSize) * Res <= Cap(p)
<1>1. p * MaxIncrease \in Nat
  BY FactorAssumption, ProductInNat
<1>2. (p + SegSize) * Res \in Nat
  BY WindowAssumption DEF Res
<1>. QED
  BY <1>1, <1>2 DEF Cap, Larger

-----------------------------------------------------------------------------
(* The window before and after CongControl.                                *)

\* After the lazy initialisation the state CongControl works on satisfies
\* what the invariant says of an initialised controller.
LEMMA CurrentWindow ==
    ASSUME IInv
    PROVE  /\ CurFrac \in Nat /\ CurPrev \in Nat /\ cWnd \in Nat
           /\ Cap(CurPrev) \in Nat
           /\ \/ CurFrac <= Cap(CurPrev)
              \/ /\ Within(CurFrac, CurPrev)
                 /\ Within(cWnd * Res, CurPrev)
                 /\ ssThresh # NoThreshold => Within(ssThresh * Res, CurPrev)
                 /\ ~acked => Within(InitWindow * Res, CurPrev)
           /\ ssThresh # NoThreshold => cWnd = Floor(CurFrac) \/ ssThresh = Floor(CurFrac)
           /\ ~acked => cWnd = InitWindow \/ cWnd = Floor(CurFrac)
<1>1. CASE fracInit
  <2>1. CurFrac = frac /\ CurPrev = prevCWnd
    BY <1>1 DEF CurFrac, CurPrev
  <2>2. GrowthBounded => Within(frac, prevCWnd)
    BY <1>1 DEF GrowthBounded, Within
  <2>3. frac \in Nat /\ prevCWnd \in Nat /\ cWnd \in Nat
    BY DEF IInv, TypeOK
  <2>4. Cap(prevCWnd) \in Nat
    BY <2>3, CapType
  <2>. QED
    BY <1>1, <2>1, <2>2, <2>3, <2>4 DEF IInv, WindowsWithin, RestoresOwnWindow, SynWindow
<1>2. CASE ~fracInit
  <2>1. CurFrac = cWnd * Res /\ CurPrev = cWnd /\ cWnd \in Nat
    BY <1>2 DEF IInv, TypeOK, CurFrac, CurPrev
  <2>2. CurFrac <= (cWnd + SegSize) * Res
    BY <2>1, WindowAssumption DEF Res
  <2>3. CurFrac \in Nat /\ Floor(CurFrac) = cWnd
    BY <2>1, FloorOfBytes
  <2>4. /\ Cap(cWnd) \in Nat /\ (cWnd + SegSize) * Res \in Nat
        /\ (cWnd + SegSize) * Res <= Cap(cWnd)
    BY <2>1, CapType
  <2>. DEFINE top == (cWnd + SegSize) * Res
  <2>5. CurFrac <= top /\ top \in Nat /\ top <= Cap(cWnd)
    BY <2>2, <2>4
  <2>. HIDE DEF top
  <2>6. CurFrac <= Cap(cWnd)
    BY <2>3, <2>4, <2>5
  <2>7. ssThresh = NoThreshold /\ (~acked => cWnd = InitWindow)
    BY <1>2 DEF IInv, TypeOK, SynWindow
  <2>. QED
    BY <2>1, <2>3, <2>4, <2>6, <2>7
<1>. QED
  BY <1>1, <1>2

\* The ways in which CongControl may move the two windows when it finds w in
\* the socket: by an increase within the cap, by taking over w, by a decrease.
Capped ==
    /\ frac' \in Nat
    /\ cWnd' = Floor(frac')
    /\ frac' <= Cap(CurPrev)
    /\ frac' >= Smaller(CurFrac, CurPrev * Res)

TakenOver(rtt, w) ==
    /\ frac' = w * Res
    /\ cWnd' = w
    /\ w >= CurPrev + SegSize
    /\ w * Res <= CurFrac + ScaledAlpha[rtt] * SegSize

Decreased ==
    /\ frac' = (CurFrac * Beta) \div Res
    /\ frac' \in Nat
    /\ cWnd' = Floor(frac')
    /\ frac' <= CurFrac

Moves(rtt, w) == KeepWindow(w) \/ Capped \/ TakenOver(rtt, w) \/ Decreased

\* The multiplicative increase keeps to the cap and to the base.
LEMMA MultiplicativeStep ==
    ASSUME IInv, NEW rtt \in Rtts, NEW w \in Nat, MultiplicativeIncrease(rtt, w)
    PROVE  KeepWindow(w) \/ Capped
<1>. DEFINE tmp == CurFrac + (CurFrac * ScaledXi[rtt]) \div Res
<1>1. tmp \in Nat /\ tmp >= CurFrac
  <2>1. CurFrac * ScaledXi[rtt] \in Nat
    BY CurrentWindow, ScaledAssumption, ProductInNat
  <2>2. (CurFrac * ScaledXi[rtt]) \div Res \in Nat
    BY <2>1, FloorBounds DEF Floor
  <2>. QED
    BY <2>2, CurrentWindow
<1>2. CASE SetWindow(Smaller(tmp, CurPrev * MaxIncrease))
  <2>1. CurPrev * MaxIncrease \in Nat /\ CurPrev * MaxIncrease <= Cap(CurPrev)
        /\ Cap(CurPrev) \in Nat
    BY CurrentWindow, CapType
  <2>2. CurPrev * Res \in Nat /\ CurPrev * MaxIncrease >= CurPrev * Res
    <3>1. CurPrev \in Nat /\ MaxIncrease \in Nat /\ MaxIncrease >= 16
      BY CurrentWindow, FactorAssumption DEF Res
    <3>2. CurPrev * MaxIncrease >= CurPrev * 16
      BY <3>1
    <3>. QED
      BY <3>1, <3>2 DEF Res
  <2>. DEFINE cap == CurPrev * MaxIncrease
              bottom == CurPrev * Res
  <2>3. CurFrac \in Nat
    BY CurrentWindow
  <2>. HIDE DEF tmp, cap, bottom
  <2>4. /\ Smaller(tmp, cap) \in Nat
        /\ Smaller(tmp, cap) <= Cap(CurPrev)
    BY <1>1, <2>1 DEF Smaller, cap
  <2>5. Smaller(tmp, cap) >= Smaller(CurFrac, bottom)
    BY <1>1, <2>1, <2>2, <2>3 DEF Smaller, cap, bottom
  <2>. QED
    BY <1>2, <2>4, <2>5 DEF SetWindow, Capped, cap, bottom
<1>. QED
  BY <1>2 DEF MultiplicativeIncrease

\* The additive increase keeps to the cap and to the base, except where it takes
\* over the window it finds, and never shrinks that window.
LEMMA AdditiveStep ==
    ASSUME IInv, NEW rtt \in Rtts, NEW w \in Nat, AdditiveIncrease(rtt, w)
    PROVE  (KeepWindow(w) \/ Capped \/ TakenOver(rtt, w)) /\ cWnd' >= w
<1>. DEFINE tmp == CurFrac + ScaledAlpha[rtt] * SegSize
            top == (CurPrev + SegSize) * Res
            bottom == CurPrev * Res
            most == Larger(CurPrev + SegSize, w)
<1>1. CurFrac \in Nat /\ CurPrev \in Nat /\ Cap(CurPrev) \in Nat
  BY CurrentWindow
<1>2. tmp \in Nat /\ tmp >= CurFrac
  <2>1. ScaledAlpha[rtt] * SegSize \in Nat
    BY ScaledAssumption, WindowAssumption, ProductInNat
  <2>. QED
    BY <2>1, <1>1
<1>3. bottom \in Nat /\ top \in Nat /\ bottom <= top /\ top <= Cap(CurPrev)
  <2>1. top \in Nat /\ top <= Cap(CurPrev)
    BY <1>1, CapType
  <2>2. bottom \in Nat /\ bottom <= top
    BY <1>1, WindowAssumption DEF Res
  <2>. QED
    BY <2>1, <2>2
<1>4. CASE KeepWindow(w)
  BY <1>4 DEF KeepWindow
<1>5. CASE ~(Floor(tmp) < w) /\ ~(tmp > top) /\ SetWindow(tmp)
  <2>1. Floor(tmp) \in Nat
    BY <1>2, FloorBounds
  <2>. HIDE DEF tmp, top, bottom
  <2>2. tmp >= Smaller(CurFrac, bottom) /\ tmp <= Cap(CurPrev)
    BY <1>1, <1>2, <1>3, <1>5 DEF Smaller
  <2>. QED
    BY <1>2, <1>5, <2>1, <2>2 DEF SetWindow, Capped, bottom
<1>6. CASE ~(Floor(tmp) < w) /\ SetWindow(most * Res) /\ most = CurPrev + SegSize
  <2>1. most \in Nat /\ most >= w
    BY <1>1, WindowAssumption DEF Larger
  <2>2. most * Res = top /\ Floor(most * Res) = most
    BY <1>6, <2>1, FloorOfBytes
  <2>3. frac' = top /\ cWnd' = most /\ cWnd' = Floor(frac')
    BY <1>6, <2>2 DEF SetWindow
  <2>. HIDE DEF tmp, top, bottom, most
  <2>4. top >= Smaller(CurFrac, bottom)
    BY <1>1, <1>3 DEF Smaller
  <2>. QED
    BY <1>3, <2>1, <2>3, <2>4 DEF Capped, bottom
<1>7. CASE ~(Floor(tmp) < w) /\ SetWindow(most * Res) /\ most = w
  <2>1. Floor(w * Res) = w /\ w * Res \in Nat
    BY FloorOfBytes
  <2>2. frac' = w * Res /\ cWnd' = w
    BY <1>7, <2>1 DEF SetWindow
  <2>3. w * Res <= tmp
    <3>1. Floor(tmp) \in Nat /\ Floor(tmp) * Res <= tmp
      BY <1>2, FloorBounds
    <3>. DEFINE fl == Floor(tmp)
    <3>2. fl \in Nat /\ fl * Res <= tmp /\ fl >= w
      BY <1>7, <3>1
    <3>. HIDE DEF fl, tmp
    <3>. QED
      BY <1>2, <3>2 DEF Res
  <2>4. w >= CurPrev + SegSize
    BY <1>1, <1>7, WindowAssumption DEF Larger
  <2>. QED
    BY <2>2, <2>3, <2>4 DEF TakenOver
<1>8. most = CurPrev + SegSize \/ most = w
  BY DEF Larger
<1>. QED
  BY <1>4, <1>5, <1>6, <1>7, <1>8 DEF AdditiveIncrease

\* A decrease keeps within what the window was.
LEMMA DecreaseStep == ASSUME IInv, MultiplicativeDecrease PROVE Decreased
<1>1. CurFrac \in Nat
  BY CurrentWindow
<1>2. /\ (CurFrac * Beta) \div Res \in Nat
      /\ (CurFrac * Beta) \div Res <= CurFrac
  BY <1>1, DecreaseBounds
<1>. QED
  BY <1>2 DEF MultiplicativeDecrease, SetWindow, Decreased

\* Every call of CongControl, whatever the load and wherever the freeze
\* stands, moves the windows in one of those ways.
LEMMA CongControlStep ==
    ASSUME IInv, NEW load \in Loads, NEW rtt \in Rtts, NEW w \in Nat,
           CongControl(load, rtt, w)
    PROVE  /\ Moves(rtt, w)
           /\ KeepWindow(w) \/ Capped \/ TakenOver(rtt, w) \/ ReactOverload(load)
           /\ frac' \in Nat /\ cWnd' \in Nat
           /\ fracInit' /\ prevCWnd' = CurPrev
<1>1. KeepWindow(w) \/ Capped \/ TakenOver(rtt, w) \/ (Decreased /\ ReactOverload(load))
  <2>1. CASE MultiplicativeIncrease(rtt, w)
    BY <2>1, MultiplicativeStep
  <2>2. CASE AdditiveIncrease(rtt, w)
    BY <2>2, AdditiveStep
  <2>3. CASE ReactOverload(load)
    BY <2>3, DecreaseStep DEF ReactOverload
  <2>. QED
    BY <2>1, <2>2, <2>3
    DEF CongControl, IgnoreUnsupported, HoldFrozen, EndFreeze,
        IncreaseAfterFreeze, ReactLow, ReactHigh
<1>2. frac' \in Nat /\ cWnd' \in Nat
  BY <1>1, CurrentWindow, FloorBounds, FloorOfBytes
  DEF KeepWindow, Capped, TakenOver, Decreased
<1>. QED
  BY <1>1, <1>2 DEF Moves, CongControl, LazyInit

-----------------------------------------------------------------------------
(* What a call leaves of the distance to the cap.                          *)

\* The window found in the socket: its own, or the threshold that a recovery has
\* just put there.
Finds(w) == w = cWnd \/ (ssThresh # NoThreshold /\ w = ssThresh)

\* A window beyond none is within it, and what is less than one within is.
LEMMA WithinFacts ==
    ASSUME NEW p \in Nat, Cap(p) \in Nat
    PROVE  /\ \A x \in Nat, rtt \in Rtts : x <= Cap(p) => Within(x, p)
           /\ \A x \in Nat, y \in Nat : x <= y /\ Within(y, p) => Within(x, p)
<1>1. \A rtt \in Rtts : ScaledAlpha[rtt] * SegSize \in Nat
  BY ScaledAssumption, WindowAssumption, ProductInNat
<1>2. ASSUME NEW x \in Nat, NEW rtt \in Rtts, x <= Cap(p) PROVE Within(x, p)
  <2>. DEFINE a == ScaledAlpha[rtt] * SegSize
  <2>1. a \in Nat
    BY <1>1
  <2>2. x <= Cap(p) + a
    <3>. HIDE DEF a
    <3>. QED
      BY <1>2, <2>1
  <2>. QED
    BY <2>2 DEF Within
<1>3. ASSUME NEW x \in Nat, NEW y \in Nat, x <= y, Within(y, p) PROVE Within(x, p)
  <2>1. PICK rtt \in Rtts : y <= Cap(p) + ScaledAlpha[rtt] * SegSize
    BY <1>3 DEF Within
  <2>. DEFINE a == ScaledAlpha[rtt] * SegSize
  <2>2. a \in Nat /\ y <= Cap(p) + a
    BY <1>1, <2>1
  <2>3. x <= Cap(p) + a
    <3>. HIDE DEF a
    <3>. QED
      BY <1>3, <2>2
  <2>. QED
    BY <2>3 DEF Within
<1>. QED
  BY <1>2, <1>3

\* A window that an increase takes over from within the cap is within.
LEMMA TakenWithin ==
    ASSUME NEW rtt \in Rtts, NEW w \in Nat, TakenOver(rtt, w),
           CurFrac \in Nat, Cap(CurPrev) \in Nat, CurFrac <= Cap(CurPrev)
    PROVE  Within(w * Res, CurPrev)
<1>. DEFINE a == ScaledAlpha[rtt] * SegSize
            x == w * Res
            c == Cap(CurPrev)
<1>1. a \in Nat /\ x \in Nat /\ c \in Nat
  BY ScaledAssumption, WindowAssumption, ProductInNat, FloorOfBytes
<1>2. x <= CurFrac + a
  BY DEF TakenOver
<1>3. x <= c + a
  <2>. HIDE DEF a, x, c
  <2>1. CurFrac <= c
    BY DEF c
  <2>. QED
    BY <1>1, <1>2, <2>1
<1>. QED
  BY <1>3 DEF Within

\* The controller's new window, and the one TCP sends by, are within the cap or
\* one increase beyond it.
LEMMA StepWithin ==
    ASSUME IInv, NEW rtt \in Rtts, NEW w \in Nat, Finds(w), Moves(rtt, w),
           frac' \in Nat, cWnd' \in Nat
    PROVE  /\ Within(frac', CurPrev)
           /\ frac' <= Cap(CurPrev) \/ Within(cWnd' * Res, CurPrev)
<1>. DEFINE c == Cap(CurPrev)
<1>1. CurFrac \in Nat /\ CurPrev \in Nat /\ c \in Nat
  BY CurrentWindow
<1>2. CurFrac <= c \/ (Within(CurFrac, CurPrev) /\ Within(w * Res, CurPrev))
  BY CurrentWindow DEF Finds
<1>3. Within(CurFrac, CurPrev)
  BY <1>1, <1>2, WithinFacts
<1>4. CASE KeepWindow(w)
  BY <1>2, <1>3, <1>4 DEF KeepWindow
<1>5. CASE Capped
  BY <1>1, <1>5, WithinFacts DEF Capped
<1>6. CASE TakenOver(rtt, w)
  <2>1. CurFrac <= c => Within(w * Res, CurPrev)
    BY <1>1, <1>6, TakenWithin
  <2>2. Within(w * Res, CurPrev)
    BY <1>2, <2>1
  <2>. QED
    BY <1>6, <2>2 DEF TakenOver
<1>7. CASE Decreased
  <2>1. Within(frac', CurPrev)
    BY <1>1, <1>3, <1>7, WithinFacts DEF Decreased
  <2>2. cWnd' * Res \in Nat /\ cWnd' * Res <= frac'
    BY <1>7, FloorBounds, FloorOfBytes DEF Decreased
  <2>. QED
    BY <1>1, <2>1, <2>2, WithinFacts
<1>. QED
  BY <1>4, <1>5, <1>6, <1>7 DEF Moves

\* A window that TCP may go back to stays within the cap or one increase beyond it,
\* unless the controller's is within it.
LEMMA OtherWithin ==
    ASSUME IInv, NEW rtt \in Rtts, NEW w \in Nat, Moves(rtt, w), frac' \in Nat,
           NEW v \in Nat,
           CurFrac <= Cap(CurPrev) \/ Within(v * Res, CurPrev),
           w = Floor(CurFrac) \/ w = v \/ v * Res <= CurFrac
    PROVE  frac' <= Cap(CurPrev) \/ Within(v * Res, CurPrev)
<1>. DEFINE c == Cap(CurPrev)
<1>1. CurFrac \in Nat /\ CurPrev \in Nat /\ c \in Nat
  BY CurrentWindow
<1>. SUFFICES ASSUME CurFrac <= c PROVE frac' <= c \/ Within(v * Res, CurPrev)
  OBVIOUS
<1>2. CASE KeepWindow(w)
  BY <1>2 DEF KeepWindow
<1>3. CASE Capped
  BY <1>3 DEF Capped
<1>4. CASE TakenOver(rtt, w)
  <2>1. CASE w = Floor(CurFrac)
    <3>1. frac' <= CurFrac
      BY <1>1, <1>4, <2>1, FloorBounds DEF TakenOver
    <3>. HIDE DEF c
    <3>. QED
      BY <1>1, <3>1
  <2>2. CASE w = v
    BY <1>1, <1>4, <2>2, TakenWithin
  <2>3. CASE v * Res <= CurFrac
    <3>. DEFINE x == v * Res
    <3>1. x \in Nat /\ x <= CurFrac
      BY <2>3, FloorOfBytes
    <3>2. x <= c
      <4>. HIDE DEF x, c
      <4>. QED
        BY <1>1, <3>1
    <3>. QED
      BY <1>1, <3>1, <3>2, WithinFacts
  <2>. QED
    BY <2>1, <2>2, <2>3
<1>5. CASE Decreased
  <2>. HIDE DEF c
  <2>. QED
    BY <1>1, <1>5 DEF Decreased
<1>. QED
  BY <1>2, <1>3, <1>4, <1>5 DEF Moves

-----------------------------------------------------------------------------
(* The inductive invariant.                                                *)

\* The initial states satisfy the invariant.
LEMMA InitInvariant == Init => IInv
<1>. SUFFICES ASSUME Init PROVE IInv
  OBVIOUS
<1>1. cWnd \in Nat /\ frac \in Nat /\ prevCWnd \in Nat
  BY WindowAssumption DEF Init, Res
<1>2. TypeOK
  BY <1>1 DEF Init, TypeOK
<1>. QED
  BY <1>2 DEF Init, IInv, TimersAgree, RestoresOwnWindow, GrowthBounded,
              WindowsWithin, SynWindow

\* Time neither starts nor stops a timer, and a due timer blocks it.
LEMMA TickArithmetic ==
    ASSUME NEW t \in Nat \cup {NotRunning}, t # 0
    PROVE  /\ Elapse(t) \in Nat \cup {NotRunning}
           /\ Elapse(t) = NotRunning <=> t = NotRunning
BY DEF Elapse, NotRunning

\* The steps of CongControl, with the window each of them finds.
LEMMA Callers ==
    ASSUME IInv, NEW load \in Loads, NEW rtt \in Rtts, Ack(load, rtt) \/ Loss(rtt)
    PROVE  \E l \in Loads, w \in Nat : Finds(w) /\ CongControl(l, rtt, w)
<1>1. cWnd \in Nat /\ (ssThresh # NoThreshold => ssThresh \in Nat)
  BY DEF IInv, TypeOK
<1>2. "OVERLOAD" \in Loads
  BY DEF Loads
<1>. QED
  BY <1>1, <1>2
  DEF Ack, OrdinaryAck, EnterRecovery, LeaveForCwr, ExitRecovery, Loss, Finds

\* A call of CongControl keeps the type of what it writes, and the timers agree.
LEMMA CallTypes ==
    ASSUME IInv, NEW load \in Loads, NEW rtt \in Rtts, NEW w \in Nat,
           CongControl(load, rtt, w)
    PROVE  /\ cWnd' \in Nat /\ frac' \in Nat /\ prevCWnd' \in Nat
           /\ fracInit' = TRUE
           /\ mdFreeze' \in BOOLEAN
           /\ mdTimer' \in Nat \cup {NotRunning}
           /\ incTimer' \in Nat
           /\ TimersAgree'
<1>1. /\ fracInit' = TRUE
      /\ incTimer' \in Nat
  BY RttAssumption DEF CongControl, LazyInit, IInv, TypeOK, TimersAgree, NotRunning
<1>2. /\ mdFreeze' \in BOOLEAN
      /\ mdTimer' \in Nat \cup {NotRunning}
  BY RttAssumption, IntervalAssumption
  DEF IInv, CongControl, TypeOK, IgnoreUnsupported, HoldFrozen, EndFreeze,
      IncreaseAfterFreeze, ReactLow, ReactHigh, ReactOverload
<1>3. cWnd' \in Nat /\ frac' \in Nat /\ prevCWnd' \in Nat
  BY CongControlStep, CurrentWindow
<1>. QED
  BY <1>1, <1>2, <1>3 DEF TimersAgree, NotRunning

\* Every call keeps the invariant.
LEMMA CallInvariant ==
    ASSUME IInv, NEW load \in Loads, NEW rtt \in Rtts, Ack(load, rtt) \/ Loss(rtt)
    PROVE  IInv'
<1>1. PICK l \in Loads, w \in Nat : Finds(w) /\ CongControl(l, rtt, w)
  BY Callers
<1>. DEFINE c == Cap(CurPrev)
<1>2. /\ Moves(rtt, w)
      /\ frac' \in Nat /\ cWnd' \in Nat
      /\ fracInit' /\ prevCWnd' = CurPrev
  BY <1>1, CongControlStep
<1>3. /\ CurFrac \in Nat /\ CurPrev \in Nat
      /\ cWnd' = Floor(frac') \/ (frac' = CurFrac /\ cWnd' = w)
  <2>1. Floor(w * Res) = w
    BY FloorOfBytes
  <2>. QED
    BY <1>2, <2>1, CurrentWindow DEF Moves, KeepWindow, Capped, TakenOver, Decreased
<1>4. /\ Within(frac', CurPrev)
      /\ frac' <= c \/ Within(cWnd' * Res, CurPrev)
  BY <1>1, <1>2, StepWithin
<1>5. /\ cWnd' \in Nat /\ frac' \in Nat /\ prevCWnd' \in Nat
      /\ fracInit' = TRUE
      /\ mdFreeze' \in BOOLEAN
      /\ mdTimer' \in Nat \cup {NotRunning}
      /\ incTimer' \in Nat \cup {NotRunning}
      /\ TimersAgree'
  BY <1>1, CallTypes
<1>6. GrowthBounded'
  BY <1>2, <1>4 DEF GrowthBounded, Within
<1>7. CASE EnterRecovery(load, rtt)
  <2>1. /\ acked /\ acked' = TRUE /\ ssThresh = NoThreshold /\ ssThresh' = Floor(frac)
        /\ fracInit /\ CurFrac = frac
    BY <1>7 DEF EnterRecovery, GetSsThresh, IInv, TypeOK, CurFrac
  <2>2. w = cWnd
    BY <1>1, <2>1 DEF Finds
  <2>. DEFINE v == Floor(CurFrac)
  <2>3. v \in Nat /\ v * Res <= CurFrac /\ v * Res \in Nat /\ v # NoThreshold
    BY <1>3, FloorBounds, FloorOfBytes DEF NoThreshold
  <2>4. CurFrac <= c \/ Within(v * Res, CurPrev)
    BY <1>3, <2>3, CurrentWindow, WithinFacts
  <2>5. frac' <= c \/ Within(v * Res, CurPrev)
    BY <1>2, <2>3, <2>4, OtherWithin
  <2>6. ssThresh' = v
    BY <2>1
  <2>7. WindowsWithin' /\ SynWindow'
    BY <1>2, <1>4, <2>1, <2>5, <2>6 DEF WindowsWithin, SynWindow
  <2>8. RestoresOwnWindow'
    BY <1>3, <2>6 DEF RestoresOwnWindow
  <2>9. TypeOK'
    BY <1>5, <2>1, <2>3, <2>6 DEF TypeOK
  <2>. QED
    BY <1>5, <1>6, <2>7, <2>8, <2>9 DEF IInv
<1>8. CASE LeaveForCwr(load, rtt) \/ ExitRecovery(load, rtt)
  <2>1. acked /\ acked' = acked /\ ssThresh' = NoThreshold
    BY <1>8 DEF LeaveForCwr, ExitRecovery, IInv, TypeOK
  <2>2. WindowsWithin' /\ SynWindow' /\ RestoresOwnWindow'
    BY <1>2, <1>4, <2>1 DEF WindowsWithin, SynWindow, RestoresOwnWindow
  <2>3. TypeOK'
    BY <1>5, <2>1 DEF IInv, TypeOK
  <2>. QED
    BY <1>5, <1>6, <2>2, <2>3 DEF IInv
<1>9. CASE OrdinaryAck(load, rtt)
  <2>1. acked' = TRUE /\ ssThresh' = ssThresh
    BY <1>9 DEF OrdinaryAck
  <2>2. TypeOK'
    BY <1>5, <2>1 DEF IInv, TypeOK
  <2>3. CASE ssThresh = NoThreshold
    <3>1. WindowsWithin' /\ SynWindow' /\ RestoresOwnWindow'
      BY <1>2, <1>4, <2>1, <2>3 DEF WindowsWithin, SynWindow, RestoresOwnWindow
    <3>. QED
      BY <1>5, <1>6, <2>2, <3>1 DEF IInv
  <2>4. CASE ssThresh # NoThreshold
    <3>1. PICK x \in Nat : x = cWnd /\ CongControl(load, rtt, x)
      BY <1>9 DEF OrdinaryAck, IInv, TypeOK
    <3>2. Finds(x) /\ Moves(rtt, x)
      BY <3>1, CongControlStep DEF Finds
    <3>3. /\ ssThresh \in Nat
          /\ cWnd = Floor(CurFrac) \/ ssThresh = Floor(CurFrac)
          /\ CurFrac <= c \/ Within(ssThresh * Res, CurPrev)
      BY <2>4, CurrentWindow DEF IInv, TypeOK
    <3>4. ssThresh = Floor(CurFrac) => ssThresh * Res <= CurFrac
      BY <1>3, FloorBounds
    <3>5. PICK v \in Nat : v = ssThresh
      BY <3>3
    <3>6. frac' <= c \/ Within(v * Res, CurPrev)
      BY <1>2, <3>1, <3>2, <3>3, <3>4, <3>5, OtherWithin
    <3>7. WindowsWithin' /\ SynWindow'
      BY <1>2, <1>4, <2>1, <3>5, <3>6 DEF WindowsWithin, SynWindow
    <3>8. cWnd' = Floor(frac') \/ (frac' = CurFrac /\ cWnd' = x)
      <4>1. Floor(x * Res) = x
        BY FloorOfBytes
      <4>. QED
        BY <3>2, <4>1 DEF Moves, KeepWindow, Capped, TakenOver, Decreased
    <3>9. RestoresOwnWindow'
      BY <2>1, <3>1, <3>3, <3>8 DEF RestoresOwnWindow
    <3>. QED
      BY <1>5, <1>6, <2>2, <3>7, <3>9 DEF IInv
  <2>. QED
    BY <2>3, <2>4
<1>10. CASE Loss(rtt)
  <2>1. acked' = acked /\ ssThresh' = NoThreshold
    BY <1>10 DEF Loss
  <2>2. TypeOK'
    BY <1>5, <2>1 DEF IInv, TypeOK
  <2>3. CASE acked
    <3>1. WindowsWithin' /\ SynWindow' /\ RestoresOwnWindow'
      BY <1>2, <1>4, <2>1, <2>3 DEF WindowsWithin, SynWindow, RestoresOwnWindow
    <3>. QED
      BY <1>5, <1>6, <2>2, <3>1 DEF IInv
  <2>4. CASE ~acked
    <3>1. ssThresh = NoThreshold /\ w = cWnd
      BY <1>1, <2>4 DEF IInv, TypeOK, Finds
    <3>2. /\ w = InitWindow \/ w = Floor(CurFrac)
          /\ CurFrac <= c \/ Within(InitWindow * Res, CurPrev)
      BY <2>4, <3>1, CurrentWindow
    <3>3. InitWindow \in Nat
      BY WindowAssumption
    <3>4. frac' <= c \/ Within(InitWindow * Res, CurPrev)
      BY <1>2, <3>2, <3>3, OtherWithin
    <3>5. WindowsWithin' /\ RestoresOwnWindow'
      BY <1>2, <1>4, <2>1, <3>4 DEF WindowsWithin, RestoresOwnWindow
    <3>6. SynWindow'
      BY <1>2, <1>3, <2>1, <2>4, <3>2 DEF SynWindow
    <3>. QED
      BY <1>5, <1>6, <2>2, <3>5, <3>6 DEF IInv
  <2>. QED
    BY <2>3, <2>4
<1>. QED
  BY <1>7, <1>8, <1>9, <1>10 DEF Ack

\* Every step keeps the invariant.
LEMMA StepInvariant == IInv /\ [Next]_vars => IInv'
<1>. SUFFICES ASSUME IInv, [Next]_vars PROVE IInv'
  OBVIOUS
<1>1. ASSUME NEW load \in Loads, NEW rtt \in Rtts, Ack(load, rtt) \/ Loss(rtt)
      PROVE  IInv'
  BY <1>1, CallInvariant
<1>2. CASE StorePrevCwnd
  <2>1. fracInit /\ frac \in Nat
    BY <1>2 DEF StorePrevCwnd, IInv, TypeOK, TimersAgree, NotRunning
  <2>. DEFINE p == Floor(frac)
  <2>2. p \in Nat /\ frac < (p + 1) * Res
    BY <2>1, FloorBounds
  <2>3. TypeOK' /\ TimersAgree'
    BY <1>2, <2>1, <2>2, IntervalAssumption
    DEF StorePrevCwnd, IInv, TypeOK, TimersAgree, NotRunning
  <2>4. frac <= Cap(p)
    <3>1. (p + SegSize) * Res <= Cap(p) /\ (p + SegSize) * Res \in Nat /\ Cap(p) \in Nat
      BY <2>2, CapType
    <3>2. frac <= (p + SegSize) * Res
      <4>. HIDE DEF p
      <4>. QED
        BY <2>1, <2>2, WindowAssumption DEF Res
    <3>. DEFINE top == (p + SegSize) * Res
    <3>. HIDE DEF p, top
    <3>3. top \in Nat /\ frac <= top /\ top <= Cap(p) /\ Cap(p) \in Nat
      BY <3>1, <3>2 DEF top
    <3>. QED
      BY <2>1, <3>3
  <2>5. PICK rtt \in Rtts : TRUE
    BY <2>1 DEF IInv, GrowthBounded
  <2>6. Within(frac, p)
    BY <2>1, <2>2, <2>4, <2>5, CapType, WithinFacts
  <2>7. GrowthBounded' /\ WindowsWithin'
    BY <1>2, <2>4, <2>6 DEF StorePrevCwnd, GrowthBounded, WindowsWithin, Within
  <2>8. RestoresOwnWindow' /\ SynWindow'
    BY <1>2 DEF StorePrevCwnd, IInv, RestoresOwnWindow, SynWindow
  <2>. QED
    BY <2>3, <2>7, <2>8 DEF IInv
<1>3. CASE ReceiveSyn
  <2>1. /\ ~acked /\ cWnd' = InitWindow /\ InitWindow \in Nat
        /\ UNCHANGED <<frac, fracInit, prevCWnd, mdFreeze, mdTimer, incTimer, ssThresh, acked>>
        /\ ssThresh = NoThreshold
    BY <1>3, WindowAssumption DEF ReceiveSyn, controller, IInv, TypeOK
  <2>2. TypeOK' /\ TimersAgree' /\ GrowthBounded' /\ RestoresOwnWindow' /\ SynWindow'
    BY <2>1 DEF IInv, TypeOK, TimersAgree, GrowthBounded, RestoresOwnWindow, SynWindow
  <2>3. WindowsWithin'
    BY <2>1 DEF IInv, WindowsWithin
  <2>. QED
    BY <2>2, <2>3 DEF IInv
<1>4. ASSUME UNCHANGED <<cWnd, frac, fracInit, prevCWnd, mdFreeze, ssThresh, acked>>,
             TypeOK', TimersAgree'
      PROVE  IInv'
  BY <1>4 DEF IInv, RestoresOwnWindow, GrowthBounded, WindowsWithin, SynWindow
<1>5. CASE Noop
  <2>1. TypeOK' /\ TimersAgree'
    BY <1>5 DEF Noop, IInv, TypeOK, TimersAgree, NotRunning
  <2>. QED
    BY <1>4, <1>5, <2>1 DEF Noop
<1>6. CASE Tick
  <2>1. /\ mdTimer' \in Nat \cup {NotRunning}
        /\ incTimer' \in Nat \cup {NotRunning}
        /\ mdTimer' = NotRunning <=> mdTimer = NotRunning
        /\ incTimer' = NotRunning <=> incTimer = NotRunning
    BY <1>6, TickArithmetic DEF Tick, IInv, TypeOK
  <2>2. TypeOK' /\ TimersAgree'
    BY <1>6, <2>1 DEF Tick, IInv, TypeOK, TimersAgree
  <2>. QED
    BY <1>4, <1>6, <2>2 DEF Tick
<1>7. CASE UNCHANGED vars
  <2>1. TypeOK' /\ TimersAgree'
    BY <1>7 DEF vars, controller, IInv, TypeOK, TimersAgree
  <2>. QED
    BY <1>4, <1>7, <2>1 DEF vars, controller
<1>8. (\E load \in Loads : TRUE) /\ "OVERLOAD" \in Loads
  BY DEF Loads
<1>. QED
  BY <1>1, <1>2, <1>3, <1>5, <1>6, <1>7, <1>8 DEF Next

\* The invariant holds in every reachable state.
LEMMA Invariant == Spec => []IInv
BY InitInvariant, StepInvariant, PTL DEF Spec

-----------------------------------------------------------------------------
(* The invariants of the model, for all values of the constants.           *)

\* The state keeps its shape.
THEOREM TypeCorrect == Spec => []TypeOK
<1>1. IInv => TypeOK
  BY DEF IInv
<1>. QED
  BY <1>1, Invariant, PTL

\* A recovery never restores a window of the socket that the controller does not
\* have, however many decreases, timeouts and earlier recoveries went before.
THEOREM ThresholdIsOwnWindow == Spec => []RestoresOwnWindow
<1>1. IInv => RestoresOwnWindow
  BY DEF IInv
<1>. QED
  BY <1>1, Invariant, PTL

\* No sequence of ACKs, losses, recoveries, SYNs and timer expiries takes the
\* controller's window further than one additive increase beyond the cap over the
\* window stored for the interval.
THEOREM GrowthIsBounded == Spec => []GrowthBounded
<1>1. IInv => GrowthBounded
  BY DEF IInv
<1>. QED
  BY <1>1, Invariant, PTL

\* The freeze timer is never scheduled while it is running, which
\* Timer::Schedule would answer by aborting the simulation.
THEOREM TimerNeverRescheduled == Spec => NeverRescheduled
<1>1. IInv /\ [Next]_vars =>
        [mdTimer # NotRunning => mdTimer' \in {mdTimer, mdTimer - 1}]_vars
  <2>. SUFFICES ASSUME IInv, Next, mdTimer # NotRunning
                PROVE  mdTimer' \in {mdTimer, mdTimer - 1}
    OBVIOUS
  <2>1. ASSUME NEW load \in Loads, NEW rtt \in Rtts, Ack(load, rtt) \/ Loss(rtt)
        PROVE  mdTimer' = mdTimer
    <3>1. PICK l \in Loads, w \in Nat : CongControl(l, rtt, w)
      BY <2>1, Callers
    <3>. QED
      BY <3>1 DEF CongControl, IgnoreUnsupported, HoldFrozen, EndFreeze,
          IncreaseAfterFreeze, ReactLow, ReactHigh, ReactOverload, Steady
  <2>2. CASE StorePrevCwnd \/ ReceiveSyn \/ Noop \/ Tick
    BY <2>2 DEF StorePrevCwnd, ReceiveSyn, controller, Noop, Tick, Elapse, NotRunning
  <2>3. \E load \in Loads : TRUE
    BY DEF Loads
  <2>. QED
    BY <2>1, <2>2, <2>3 DEF Next
<1>. QED
  BY <1>1, Invariant, PTL DEF Spec, NeverRescheduled

\* A HIGH load never shrinks the window it finds, which after a recovery is the
\* threshold.
THEOREM HighLoadNeverShrinks == Spec => AdditiveNeverShrinks
<1>. DEFINE Found(rtt) ==
              /\ OrdinaryAck("HIGH", rtt) \/ EnterRecovery("HIGH", rtt) \/ LeaveForCwr("HIGH", rtt)
                    => cWnd' >= cWnd
              /\ ExitRecovery("HIGH", rtt) => cWnd' >= ssThresh
<1>1. IInv /\ [Next]_vars => [\A rtt \in Rtts : Found(rtt)]_vars
  <2>1. ASSUME IInv, NEW rtt \in Rtts, NEW w \in Nat, CongControl("HIGH", rtt, w)
        PROVE  cWnd' >= w
    <3>1. CASE KeepWindow(w)
      BY <3>1 DEF KeepWindow
    <3>2. CASE AdditiveIncrease(rtt, w)
      BY <2>1, <3>2, AdditiveStep
    <3>. QED
      BY <2>1, <3>1, <3>2
      DEF CongControl, IgnoreUnsupported, HoldFrozen, EndFreeze,
          IncreaseAfterFreeze, ReactLow, ReactHigh, ReactOverload
  <2>2. ASSUME IInv, NEW rtt \in Rtts PROVE Found(rtt)
    <3>1. cWnd \in Nat /\ (ssThresh # NoThreshold => ssThresh \in Nat)
      BY <2>2 DEF IInv, TypeOK
    <3>. QED
      BY <2>1, <2>2, <3>1 DEF OrdinaryAck, EnterRecovery, LeaveForCwr, ExitRecovery
  <2>. QED
    BY <2>2
<1>. QED
  BY <1>1, Invariant, PTL DEF Spec, AdditiveNeverShrinks
-----------------------------------------------------------------------------
(* Vcp implements VcpPacing: the controller's window is cut by Beta and    *)
(* then stands still for a whole estimation interval, and otherwise moves  *)
(* within the cap or up to the window TCP sends by; without the controller *)
(* that one only goes back to what TCP has saved or to the initial window. *)

Age == IF mdFreeze /\ mdTimer # NotRunning
       THEN EstInterval - mdTimer ELSE EstInterval

\* The bounds of an increase are the bounds of the contract.
LEMMA BoundsAgree ==
    ASSUME NEW p \in Nat, NEW f \in Nat, NEW g \in Nat,
           g <= Cap(p), g >= Smaller(f, p * Res)
    PROVE  g \in (IF f < p * Res THEN f ELSE p * Res)
                   ..(LET mul == p * MaxIncrease
                          add == (p + SegSize) * Res
                      IN  IF mul > add THEN mul ELSE add)
<1>1. p * Res \in Nat
  BY DEF Res
<1>. QED
  BY <1>1, CapType DEF Cap, Larger, Smaller

\* The initial states map to initial states.
LEMMA PacingInit == Init => Pacing!Init
BY DEF Init, Pacing!Init, Pacing!Nothing, CurFrac, CurPrev, NoThreshold

\* A call of CongControl is a move of the contract, from the window it finds.
LEMMA PacingMove ==
    ASSUME IInv, NEW load \in Loads, NEW rtt \in Rtts, NEW w \in Nat,
           CongControl(load, rtt, w)
    PROVE  Pacing!Move(w)
<1>1. /\ CurFrac' = frac' /\ CurPrev' = CurPrev
      /\ CurFrac \in Nat /\ CurPrev \in Nat
  BY CurrentWindow DEF CongControl, LazyInit, CurFrac, CurPrev
<1>2. ASSUME KeepWindow(w), Age' = Age PROVE Pacing!Stand(w)
  BY <1>1, <1>2 DEF KeepWindow, Pacing!Stand, Age
<1>3. ASSUME Capped \/ TakenOver(rtt, w), Age = EstInterval, Age' = EstInterval
      PROVE  Pacing!Adjust(w)
  <2>1. CASE Capped
    <3>1. frac' \in (IF CurFrac < CurPrev * Res THEN CurFrac ELSE CurPrev * Res)
                       ..(LET mul == CurPrev * MaxIncrease
                              add == (CurPrev + SegSize) * Res
                          IN  IF mul > add THEN mul ELSE add)
      BY <1>1, <2>1, BoundsAgree DEF Capped
    <3>. QED
      BY <1>1, <1>3, <2>1, <3>1
      DEF Capped, Floor, Pacing!Adjust, Pacing!Cap, Pacing!Bottom, Age
  <2>2. CASE TakenOver(rtt, w)
    <3>1. frac' = w * Res /\ cWnd' = frac' \div Res
      BY <2>2, FloorOfBytes DEF TakenOver, Floor
    <3>2. w >= CurPrev + SegSize
      BY <2>2 DEF TakenOver
    <3>. QED
      BY <1>1, <1>3, <3>1, <3>2 DEF Pacing!Adjust, Age
  <2>. QED
    BY <1>3, <2>1, <2>2
<1>4. CASE IgnoreUnsupported(load, w) \/ HoldFrozen(load, w)
  <2>1. KeepWindow(w) /\ Age' = Age
    BY <1>4 DEF IgnoreUnsupported, HoldFrozen, Age
  <2>. QED
    BY <1>2, <2>1 DEF Pacing!Move
<1>5. CASE /\ ~ReactOverload(load)
           /\ \/ EndFreeze(load, rtt, w)
              \/ IncreaseAfterFreeze(load, rtt, w)
              \/ ReactLow(load, rtt, w)
              \/ ReactHigh(load, rtt, w)
  <2>1. Age = EstInterval /\ Age' = EstInterval
    BY <1>5 DEF EndFreeze, IncreaseAfterFreeze, ReactLow, ReactHigh, Steady, Age
  <2>2. KeepWindow(w) \/ Capped \/ TakenOver(rtt, w)
    BY <1>5, CongControlStep
  <2>. QED
    BY <1>2, <1>3, <2>1, <2>2 DEF Pacing!Move
<1>6. CASE ReactOverload(load)
  <2>1. Age = EstInterval
    BY <1>6 DEF ReactOverload, Steady, Age
  <2>2. Age' = 0
    BY <1>6, IntervalAssumption DEF ReactOverload, Age, NotRunning
  <2>3. frac' = (CurFrac * Beta) \div Res /\ cWnd' = frac' \div Res
    BY <1>6 DEF ReactOverload, MultiplicativeDecrease, SetWindow, Floor
  <2>4. Pacing!Cut
    BY <1>1, <2>1, <2>2, <2>3 DEF Pacing!Cut, Age
  <2>. QED
    BY <2>4 DEF Pacing!Move
<1>. QED
  BY <1>4, <1>5, <1>6 DEF CongControl

\* What TCP does with the window it has saved is what the contract allows.
LEMMA PacingCall ==
    ASSUME IInv, NEW load \in Loads, NEW rtt \in Rtts, Ack(load, rtt) \/ Loss(rtt)
    PROVE  Pacing!Act
<1>1. cWnd \in Nat /\ (ssThresh # NoThreshold => ssThresh \in Nat)
  BY DEF IInv, TypeOK
<1>2. CASE OrdinaryAck(load, rtt)
  <2>1. Pacing!Move(cWnd)
    BY <1>1, <1>2, PacingMove DEF OrdinaryAck
  <2>. QED
    BY <1>2, <2>1 DEF OrdinaryAck, Pacing!Go, Pacing!Act
<1>3. CASE EnterRecovery(load, rtt)
  <2>1. Pacing!Move(cWnd)
    BY <1>1, <1>3, PacingMove DEF EnterRecovery
  <2>2. acked /\ acked' = acked /\ ssThresh = NoThreshold /\ ssThresh' = CurFrac \div Res
    BY <1>3 DEF EnterRecovery, GetSsThresh, Floor, IInv, TypeOK, CurFrac
  <2>. QED
    BY <2>1, <2>2 DEF Pacing!Save, Pacing!Act, Pacing!Nothing, NoThreshold
<1>4. CASE LeaveForCwr(load, rtt)
  <2>1. Pacing!Move(cWnd)
    BY <1>1, <1>4, PacingMove DEF LeaveForCwr
  <2>. QED
    BY <1>4, <2>1 DEF LeaveForCwr, Pacing!Forget, Pacing!Act, Pacing!Nothing, NoThreshold
<1>5. CASE ExitRecovery(load, rtt)
  <2>1. Pacing!Move(ssThresh)
    BY <1>1, <1>5, PacingMove DEF ExitRecovery
  <2>. QED
    BY <1>5, <2>1 DEF ExitRecovery, Pacing!Restore, Pacing!Act, Pacing!Nothing, NoThreshold
<1>6. CASE Loss(rtt)
  <2>1. Pacing!Move(cWnd)
    BY <1>1, <1>6, PacingMove DEF Loss, Loads
  <2>. QED
    BY <1>6, <2>1 DEF Loss, Pacing!Forget, Pacing!Act, Pacing!Nothing, NoThreshold
<1>. QED
  BY <1>2, <1>3, <1>4, <1>5, <1>6 DEF Ack

\* Every step maps to a step of the contract or to a stutter.
LEMMA PacingStep == IInv /\ [Next]_vars => [Pacing!Next]_(Pacing!pvars)
<1>. SUFFICES ASSUME IInv, [Next]_vars PROVE [Pacing!Next]_(Pacing!pvars)
  OBVIOUS
<1>s. ASSUME UNCHANGED <<CurFrac, cWnd, ssThresh, CurPrev, acked>>, Age' = Age
      PROVE  [Pacing!Next]_(Pacing!pvars)
  BY <1>s DEF Pacing!pvars, Age
<1>1. ASSUME NEW load \in Loads, NEW rtt \in Rtts, Ack(load, rtt) \/ Loss(rtt)
      PROVE  Pacing!Next
  BY <1>1, PacingCall DEF Pacing!Next
<1>2. CASE ReceiveSyn
  <2>1. ~acked /\ cWnd' = InitWindow /\ UNCHANGED <<controller, ssThresh, acked>>
    BY <1>2 DEF ReceiveSyn
  <2>2. ~fracInit => cWnd = InitWindow
    BY <2>1 DEF IInv, SynWindow
  <2>3. UNCHANGED <<CurFrac, CurPrev>> /\ Age' = Age
    BY <2>1, <2>2 DEF controller, CurFrac, CurPrev, Age
  <2>4. Pacing!Restart
    BY <2>1, <2>3 DEF Pacing!Restart, Pacing!Stand, Age
  <2>. QED
    BY <2>4 DEF Pacing!Next
<1>3. CASE StorePrevCwnd
  <2>1. fracInit /\ fracInit'
    BY <1>3 DEF StorePrevCwnd, IInv, TimersAgree, NotRunning
  <2>2. CurPrev' = CurFrac \div Res /\ CurFrac' = CurFrac /\ Age' = Age
    BY <1>3, <2>1 DEF StorePrevCwnd, CurPrev, CurFrac, Floor, Age
  <2>3. Pacing!Rebase
    BY <1>3, <2>2 DEF StorePrevCwnd, Pacing!Rebase, Age
  <2>. QED
    BY <2>3 DEF Pacing!Next
<1>4. CASE Noop
  <2>1. Age' = Age
    BY <1>4, IntervalAssumption DEF Noop, Age, NotRunning
  <2>. QED
    BY <1>4, <1>s, <2>1 DEF Noop, CurFrac, CurPrev
<1>5. CASE Tick
  <2>1. UNCHANGED <<CurFrac, cWnd, ssThresh, CurPrev, acked>>
    BY <1>5 DEF Tick, CurFrac, CurPrev
  <2>2. CASE mdFreeze /\ mdTimer # NotRunning
    <3>1. /\ mdTimer \in Nat \ {0}
          /\ mdTimer' = mdTimer - 1
          /\ mdFreeze' = mdFreeze
      BY <1>5, <2>2 DEF Tick, Elapse, IInv, TypeOK
    <3>2. Age = EstInterval - mdTimer /\ Age' = EstInterval - (mdTimer - 1)
      BY <2>2, <3>1 DEF Age, NotRunning
    <3>3. Age < EstInterval /\ Age' = Age + 1
      BY <3>1, <3>2, IntervalAssumption
    <3>4. Pacing!Elapse
      BY <2>1, <3>3 DEF Pacing!Elapse, Age
    <3>. QED
      BY <3>4 DEF Pacing!Next
  <2>3. CASE ~(mdFreeze /\ mdTimer # NotRunning)
    <3>1. Age' = Age
      BY <1>5, <2>3, TickArithmetic DEF Tick, Age, IInv, TypeOK, Elapse
    <3>. QED
      BY <1>s, <2>1, <3>1
  <2>. QED
    BY <2>2, <2>3
<1>6. CASE UNCHANGED vars
  BY <1>6, <1>s DEF vars, controller, CurFrac, CurPrev, Age
<1>7. \E load \in Loads : TRUE
  BY DEF Loads
<1>. QED
  BY <1>1, <1>2, <1>3, <1>4, <1>5, <1>6, <1>7 DEF Next

\* Every behaviour of the controller, with TCP writing its window too, is one the
\* pacing contract allows.
THEOREM VcpImplementsPacing == Spec => ImplementsPacing
BY PacingInit, PacingStep, Invariant, PTL DEF Spec, ImplementsPacing, Pacing!Spec
=============================================================================
