------------------------------- MODULE Vcp -------------------------------
(***************************************************************************)
(* The VCP congestion controller of one TCP sender, class Vcp of           *)
(* internet/model/vcp.{h,cc}, together with the congestion window of       *)
(* TcpSocketState, which the controller is not alone in writing.           *)
(*                                                                         *)
(* TcpSocketBase calls the controller in three places: CongControl after   *)
(* every ACK, with the load the ACK echoed, CwndEvent(LOSS) when the       *)
(* retransmission timer expires, and GetSsThresh for the window to go on   *)
(* with after a fast recovery.  It writes that window itself when the      *)
(* recovery ends, and the initial one on every SYN, and tells the          *)
(* controller neither.  Between the calls the two timers of the controller *)
(* run: one that serves both as the freeze period after a decrease and as  *)
(* the round trip of additive increase that follows it, and one that       *)
(* stores the window once per estimation interval.                         *)
(*                                                                         *)
(* Window arithmetic is fixed-point.  The code keeps the window as a       *)
(* double; here it is a natural number of 1/Res bytes, rounded down after  *)
(* every operation.  Time is a count of ticks.                             *)
(***************************************************************************)
EXTENDS Integers

CONSTANTS
    Rtts,           \* round-trip times a sender can measure, in ticks
    EstInterval,    \* m_estInterval, in ticks
    ScaledXi,       \* GetScaledXi: rtt -> increase factor, in 1/Res
    ScaledAlpha,    \* GetScaledAlpha: rtt -> additive factor, in 1/Res
    Beta,           \* m_beta, in 1/Res
    MaxIncrease,    \* m_maxCWndIncreasePerRtt, in 1/Res
    SegSize,        \* m_segSize, in bytes
    InitWindow,     \* GetInitialCwnd() * GetSegSize(), in bytes
    MaxWindow       \* bound of the model: largest window explored

Res == 16

ASSUME RttAssumption == Rtts \subseteq Nat
ASSUME IntervalAssumption == EstInterval \in Nat \ {0}
ASSUME ScaledAssumption ==
    /\ ScaledXi \in [Rtts -> Nat]
    /\ ScaledAlpha \in [Rtts -> Nat]
ASSUME FactorAssumption ==
    /\ Beta \in 0..Res
    /\ MaxIncrease \in Nat /\ MaxIncrease >= Res
ASSUME WindowAssumption ==
    /\ SegSize \in Nat \ {0}
    /\ InitWindow \in Nat
    /\ MaxWindow \in Nat

VARIABLES
    cWnd,       \* m_tcb->m_cWnd
    frac,       \* m_cWndFractional, in 1/Res bytes
    fracInit,   \* m_cWndFractionalInit
    prevCWnd,   \* m_prevCWnd
    mdFreeze,   \* m_mdFreeze
    mdTimer,    \* ticks left on m_mdTimer, or NotRunning
    incTimer,   \* ticks left on m_cWndIncreaseTimer, or NotRunning
    ssThresh,   \* m_tcb->m_ssThresh in CA_RECOVERY, NoThreshold in other states
    acked       \* an ACK has been processed: no SYN can arrive any more

controller == <<frac, fracInit, prevCWnd, mdFreeze, mdTimer, incTimer>>
vars == <<cWnd, controller, ssThresh, acked>>

NotRunning == -1

\* Nothing reads m_ssThresh outside of CA_RECOVERY, since the controller has
\* CongControl.
NoThreshold == -1

Loads == {"NOT_SUPPORTED", "LOW", "HIGH", "OVERLOAD"}

Floor(f) == f \div Res
Smaller(a, b) == IF a < b THEN a ELSE b
Larger(a, b) == IF a > b THEN a ELSE b

-----------------------------------------------------------------------------
(* The window as CongControl sees it, after the lazy initialisation that   *)
(* its first call performs.                                                *)

CurFrac == IF fracInit THEN frac ELSE cWnd * Res
CurPrev == IF fracInit THEN prevCWnd ELSE cWnd

LazyInit(rtt) ==
    /\ fracInit' = TRUE
    /\ prevCWnd' = CurPrev
    /\ incTimer' = IF fracInit THEN incTimer ELSE rtt

\* In what follows w is the window CongControl finds in m_tcb->m_cWnd.
KeepWindow(w) == frac' = CurFrac /\ cWnd' = w

SetWindow(f) == frac' = f /\ cWnd' = Floor(f)

\* Faulty variant: no cap per round trip.
UncappedIncrease(rtt, w) ==
    LET tmp == CurFrac + (CurFrac * ScaledXi[rtt]) \div Res
    IN  IF Floor(tmp) < w THEN KeepWindow(w) ELSE SetWindow(tmp)

MultiplicativeIncrease(rtt, w) ==
    LET tmp == CurFrac + (CurFrac * ScaledXi[rtt]) \div Res
    IN  IF Floor(tmp) < w
        THEN KeepWindow(w)
        ELSE SetWindow(Smaller(tmp, CurPrev * MaxIncrease))

\* Faulty variant: cuts back to the cap a window that is beyond it.
CutToCapIncrease(rtt, w) ==
    LET tmp == CurFrac + ScaledAlpha[rtt] * SegSize
    IN  IF Floor(tmp) < w
        THEN KeepWindow(w)
        ELSE SetWindow(Smaller(tmp, (CurPrev + SegSize) * Res))

AdditiveIncrease(rtt, w) ==
    LET tmp == CurFrac + ScaledAlpha[rtt] * SegSize
    IN  IF Floor(tmp) < w
        THEN KeepWindow(w)
        ELSE SetWindow(IF tmp > (CurPrev + SegSize) * Res
                       THEN Larger(CurPrev + SegSize, w) * Res
                       ELSE tmp)

MultiplicativeDecrease == SetWindow((CurFrac * Beta) \div Res)

-----------------------------------------------------------------------------
(* Vcp::CongControl, one action per way through it.                        *)

\* No load was echoed: return before the freeze is even looked at.
IgnoreUnsupported(load, w) ==
    /\ load = "NOT_SUPPORTED"
    /\ KeepWindow(w)
    /\ UNCHANGED <<mdFreeze, mdTimer>>

\* The freeze period after a decrease is still running.
HoldFrozen(load, w) ==
    /\ load # "NOT_SUPPORTED"
    /\ mdFreeze /\ mdTimer # NotRunning
    /\ KeepWindow(w)
    /\ UNCHANGED <<mdFreeze, mdTimer>>

\* Faulty variant: starts the round trip of increase, stays frozen.
EndFreezeNoReset(load, rtt, w) ==
    /\ load # "NOT_SUPPORTED"
    /\ mdFreeze /\ mdTimer = NotRunning
    /\ mdTimer' = rtt
    /\ AdditiveIncrease(rtt, w)
    /\ UNCHANGED mdFreeze

\* First ACK after the freeze period: start one RTT of additive increase.
EndFreeze(load, rtt, w) ==
    /\ load # "NOT_SUPPORTED"
    /\ mdFreeze /\ mdTimer = NotRunning
    /\ mdFreeze' = FALSE
    /\ mdTimer' = rtt
    /\ AdditiveIncrease(rtt, w)

\* Within that RTT every load, OVERLOAD too, means additive increase.
IncreaseAfterFreeze(load, rtt, w) ==
    /\ load # "NOT_SUPPORTED"
    /\ ~mdFreeze /\ mdTimer # NotRunning
    /\ AdditiveIncrease(rtt, w)
    /\ UNCHANGED <<mdFreeze, mdTimer>>

\* Faulty variant: does not look at the timer.
NotFrozen == ~mdFreeze

Steady == ~mdFreeze /\ mdTimer = NotRunning

ReactLow(load, rtt, w) ==
    /\ load = "LOW" /\ Steady
    /\ MultiplicativeIncrease(rtt, w)
    /\ UNCHANGED <<mdFreeze, mdTimer>>

ReactHigh(load, rtt, w) ==
    /\ load = "HIGH" /\ Steady
    /\ AdditiveIncrease(rtt, w)
    /\ UNCHANGED <<mdFreeze, mdTimer>>

\* Faulty variant: decreases without a freeze.
DecreaseOnly(load) ==
    /\ load = "OVERLOAD" /\ Steady
    /\ MultiplicativeDecrease
    /\ UNCHANGED <<mdFreeze, mdTimer>>

ReactOverload(load) ==
    /\ load = "OVERLOAD" /\ Steady
    /\ MultiplicativeDecrease
    /\ mdFreeze' = TRUE
    /\ mdTimer' = EstInterval

CongControl(load, rtt, w) ==
    /\ LazyInit(rtt)
    /\ \/ IgnoreUnsupported(load, w)
       \/ HoldFrozen(load, w)
       \/ EndFreeze(load, rtt, w)
       \/ IncreaseAfterFreeze(load, rtt, w)
       \/ ReactLow(load, rtt, w)
       \/ ReactHigh(load, rtt, w)
       \/ ReactOverload(load)
    /\ cWnd' <= MaxWindow

-----------------------------------------------------------------------------
(* TcpSocketBase::ReceivedAck: what ProcessAck makes of fast recovery, then *)
(* CongControl with the load that ProcessEstablished has decoded.          *)

\* Faulty variant: the window of the socket.
SocketThresh == cWnd

GetSsThresh == Floor(frac)

\* An ACK in any state of congestion that neither starts nor ends a recovery.
OrdinaryAck(load, rtt) ==
    /\ acked' = TRUE
    /\ UNCHANGED ssThresh
    /\ CongControl(load, rtt, cWnd)

\* The duplicate ACK at the threshold.  It takes several, so it is not the first ACK.
EnterRecovery(load, rtt) ==
    /\ acked /\ ssThresh = NoThreshold
    /\ ssThresh' = GetSsThresh
    /\ CongControl(load, rtt, cWnd)
    /\ UNCHANGED acked

\* An ECN echo in CA_RECOVERY: EnterCwr replaces the state, nothing is restored.
LeaveForCwr(load, rtt) ==
    /\ ssThresh # NoThreshold
    /\ ssThresh' = NoThreshold
    /\ CongControl(load, rtt, cWnd)
    /\ UNCHANGED acked

\* The ACK that reaches m_recover: TCP goes on with the threshold.
ExitRecovery(load, rtt) ==
    /\ ssThresh # NoThreshold
    /\ ssThresh' = NoThreshold
    /\ CongControl(load, rtt, ssThresh)
    /\ UNCHANGED acked

Ack(load, rtt) ==
    \/ OrdinaryAck(load, rtt)
    \/ EnterRecovery(load, rtt)
    \/ LeaveForCwr(load, rtt)
    \/ ExitRecovery(load, rtt)

-----------------------------------------------------------------------------
(* The other callers and the timers.                                       *)

\* ReTxTimeout -> Vcp::CwndEvent (CA_EVENT_LOSS); the state becomes CA_LOSS.
Loss(rtt) ==
    /\ CongControl("OVERLOAD", rtt, cWnd)
    /\ ssThresh' = NoThreshold
    /\ UNCHANGED acked

\* DoForwardUp sets the initial window for every SYN.  A SYN-ACK that is sent again
\* may come after timeouts of the first data, but packets keep their order: not
\* after an ACK of data.
ReceiveSyn ==
    /\ ~acked
    /\ cWnd' = InitWindow
    /\ UNCHANGED <<controller, ssThresh, acked>>

\* Expiry of m_cWndIncreaseTimer.
StorePrevCwnd ==
    /\ incTimer = 0
    /\ prevCWnd' = Floor(frac)
    /\ incTimer' = EstInterval
    /\ UNCHANGED <<cWnd, frac, fracInit, mdFreeze, mdTimer, ssThresh, acked>>

\* Expiry of m_mdTimer: Vcp::Noop.
Noop ==
    /\ mdTimer = 0
    /\ mdTimer' = NotRunning
    /\ UNCHANGED <<cWnd, frac, fracInit, prevCWnd, mdFreeze, incTimer, ssThresh, acked>>

\* Faulty variant: counts down a timer that does not run.
AlwaysElapse(timer) == timer - 1

\* Time passes; the simulator runs every due event first.
Elapse(timer) == IF timer = NotRunning THEN NotRunning ELSE timer - 1

Tick ==
    /\ mdTimer # 0 /\ incTimer # 0
    /\ mdTimer # NotRunning \/ incTimer # NotRunning
    /\ mdTimer' = Elapse(mdTimer)
    /\ incTimer' = Elapse(incTimer)
    /\ UNCHANGED <<cWnd, frac, fracInit, prevCWnd, mdFreeze, ssThresh, acked>>

\* m_cWndFractional and m_prevCWnd are indeterminate until the first call.
Init ==
    /\ cWnd = InitWindow
    /\ frac \in {0, MaxWindow * Res}
    /\ prevCWnd \in {0, MaxWindow}
    /\ fracInit = FALSE
    /\ mdFreeze = FALSE
    /\ mdTimer = NotRunning
    /\ incTimer = NotRunning
    /\ ssThresh = NoThreshold
    /\ acked = FALSE

Next ==
    \/ \E rtt \in Rtts : (\E load \in Loads : Ack(load, rtt)) \/ Loss(rtt)
    \/ ReceiveSyn
    \/ StorePrevCwnd
    \/ Noop
    \/ Tick

Spec == Init /\ [][Next]_vars

(* The simulator runs every scheduled event (timers, the passage of time); *)
(* EchoedAck is the assumption of the liveness property that the receiver  *)
(* keeps acknowledging and that its ACKs carry a load.                     *)
EchoedAck == \E rtt \in Rtts, load \in Loads \ {"NOT_SUPPORTED"} : Ack(load, rtt)

FairSpec ==
    /\ Spec
    /\ WF_vars(Tick) /\ WF_vars(StorePrevCwnd) /\ WF_vars(Noop)
    /\ WF_vars(EchoedAck)

-----------------------------------------------------------------------------
(* Properties.                                                             *)

\* Shape of the state; a controller that has never run knows no ACK and no recovery.
TypeOK ==
    /\ cWnd \in Nat
    /\ frac \in Nat
    /\ fracInit \in BOOLEAN
    /\ prevCWnd \in Nat
    /\ mdFreeze \in BOOLEAN
    /\ mdTimer \in Nat \cup {NotRunning}
    /\ incTimer \in Nat \cup {NotRunning}
    /\ ssThresh \in Nat \cup {NoThreshold}
    /\ acked \in BOOLEAN
    /\ acked => fracInit
    /\ ssThresh # NoThreshold => acked

\* The window is kept twice, in the controller and in the socket, and a recovery sets
\* the second alone, to what the first was when the loss was noticed.  One that starts
\* while the two differ never restores a window of the socket that the controller
\* does not have: its threshold is the window the controller still has, until a call
\* of CongControl that moves the window has made the two equal.
RestoresOwnWindow ==
    ssThresh # NoThreshold => cWnd = Floor(frac) \/ ssThresh = Floor(frac)

\* What the two increases may make of a window relative to the stored one.
Cap(p) == Larger(p * MaxIncrease, (p + SegSize) * Res)

\* However many ACKs arrive, however often the load changes and however many
\* recoveries restore an older window, the window of the controller exceeds the cap
\* of its interval by no more than one additive increase: AdditiveIncrease takes over
\* a larger window of the socket (vcp.cc:321) only from where one increase reaches it.
GrowthBounded ==
    fracInit => \E rtt \in Rtts : frac <= Cap(prevCWnd) + ScaledAlpha[rtt] * SegSize

\* Timer::Schedule aborts the simulation on a timer that is still running:
\* no ACK and no loss touches m_mdTimer before it has expired.
NeverRescheduled ==
    [][mdTimer # NotRunning => mdTimer' \in {mdTimer, mdTimer - 1}]_vars

\* AdditiveIncrease never shrinks the window it finds, not even where it cuts the
\* increase back to the cap: a HIGH load answered without a freeze, and any load in
\* the RTT after one, leaves the window at least as large, and after a recovery at
\* least at the threshold.
AdditiveNeverShrinks ==
    [][ \A rtt \in Rtts :
          /\ OrdinaryAck("HIGH", rtt) \/ EnterRecovery("HIGH", rtt) \/ LeaveForCwr("HIGH", rtt)
                => cWnd' >= cWnd
          /\ ExitRecovery("HIGH", rtt) => cWnd' >= ssThresh ]_vars

\* A freeze does not outlast its interval for ever: with ACKs that carry a
\* load it ends.
FreezeEnds == mdFreeze ~> ~mdFreeze

\* What the sender promises the network: VcpPacing, with the window and its base as
\* CongControl sees them, the window TCP sends by, the window a recovery will restore
\* and the age of the last decrease read off the freeze timer.
Pacing == INSTANCE VcpPacing WITH
    w <- CurFrac,
    sent <- cWnd,
    saved <- ssThresh,
    base <- CurPrev,
    begun <- acked,
    age <- IF mdFreeze /\ mdTimer # NotRunning
           THEN EstInterval - mdTimer ELSE EstInterval

ImplementsPacing == Pacing!Spec

-----------------------------------------------------------------------------
(* What the code says of itself and does not keep.                         *)

\* vcp.h:53 "Multiplicative increase factor: cwnd(t + 1) := cwnd(t) * (1 + xi)":
\* a LOW load never makes the window smaller, no recovery being involved.
MultiplicativeNeverShrinks ==
    [][ \A rtt \in Rtts :
          OrdinaryAck("LOW", rtt) /\ ssThresh = NoThreshold => cWnd' >= cWnd ]_vars
=============================================================================
