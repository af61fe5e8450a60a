# VCP in ns-3: specifications, model checks and proofs

This directory holds a TLA+ development of the Variable-structure Congestion
Control Protocol (VCP) as implemented on top of ns-3 in this repository: the
controller, the router queue, the TCP that carries the load between them, the
path from a queue disc to the wire, and the test runner of the simulator. All
paths below are relative to `src/ns3/src/` of the repository unless they say
otherwise.

VCP in one paragraph: every router queue estimates the load factor of its link
once per interval and classifies it as LOW, HIGH or OVERLOAD. It marks each
packet that leaves with the worst class met so far on the path. The receiver
copies the mark into two TCP flags of its ACKs, and the sender adapts its window
by multiplicative increase, additive increase or multiplicative decrease, the
last one followed by a freeze of one interval and one round trip of additive
increase.

## 1. Inventory

| Component | Source | State | Operations | Status |
|---|---|---|---|---|
| Congestion controller `Vcp` | `internet/model/vcp.{cc,h}` | `m_cWndFractional`, `m_prevCWnd`, `m_mdFreeze`, `m_mdTimer`, `m_cWndIncreaseTimer`; shares `m_tcb->m_cWnd` with `TcpSocketBase` | `CongControl`, `CwndEvent`, `MultiplicativeIncrease`, `AdditiveIncrease`, `MultiplicativeDecrease`, `StorePrevCwnd`, `Noop`, `GetSsThresh`, `Fork` | modelled (`Vcp`) |
| Router queue `VcpQueueDisc` | `traffic-control/model/vcp-queue-disc.{cc,h}` | internal FIFO, `m_recent_arrivals`, `recent_queue_sizes`, `m_qsizes_sum`, `m_load_factor`, two timers | `DoEnqueue`, `DoDequeue`, `SampleQueueSize`, `CalcLoadFactor`, `InitializeParams` | modelled (`VcpQueueDisc`) |
| Load feedback in `TcpSocketBase` | `internet/model/tcp-socket-base.cc` | `m_vcpLoadIn`, `m_vcpLoadOut`, `m_ecnState`, `m_ecnEchoSeq`, `m_ecnCWRSeq`, `m_ecnCESeq`, `m_congState`, `m_recover`, `m_delAckCount` | `ForwardUp`, `DoForwardUp`, `ProcessEstablished`, `ReceivedAck`, `EnterCwr`, `SendDataPacket`, `SendEmptyPacket`, `ReceivedData`, `DelAckTimeout` | partly (`VcpFeedback`) |
| Loss recovery | `internet/model/tcp-socket-base.cc` | `m_congState`, `m_dupAckCount`, `m_recover`, `m_recoverActive`, `m_isFirstPartialAck`, `m_dataRetrCount`, `m_retxEvent`, `m_ssThresh` | `ProcessAck`, `DupAck`, `EnterRecovery`, `EnterCwr`, `NewAck`, `SendPendingData`, `ReTxTimeout` | partly (`TcpRecovery`) |
| Buffers | `internet/model/tcp-tx-buffer.cc`, `tcp-rx-buffer.cc` | sent list with its marks, segments beyond a gap, position of the FIN | `DiscardUpTo`, `MarkHeadAsLost`, `AddRenoSack`, `SetSentListLost`, `NextSeg`, `BytesInFlight`, `Add`, `SetFinSequence`, `Finished` | partly (`TcpRecovery`, `TcpConnection`) |
| Connection management | `tcp-socket-base.cc`, `tcp-l4-protocol.cc`, and how `applications/model/bulk-send-application.cc`, `packet-sink.cc` use it | `m_state`, endpoints, `m_closeOnEmpty`, `m_shutdownSend`, `m_synCount`, the timers that send again | handshake, fork, close from either side, reset, every `Process...` function | partly (`TcpConnection`) |
| Queue disc framework, traffic control layer | `traffic-control/model/queue-disc.cc`, `traffic-control-layer.cc`, `network/utils/net-device-queue-interface.*` | `m_running`, quota, `m_stoppedByDevice`, wake events | `Send`, `Run`, `Restart`, `DequeuePacket`, `Transmit`, `PacketEnqueued`, `PacketDequeued`, `Wake` | partly (`QueueDiscRun`) |
| Point-to-point link | `point-to-point/model/point-to-point-net-device.cc`, `-channel.cc` | device queue, `m_txMachineState`, `m_currentPkt` | `Send`, `TransmitStart`, `TransmitComplete`, `Receive` | partly (`QueueDiscRun`) |
| Test runner | `../test.py` | job queues, worker threads, `thread_exit`, counters of results | `worker_thread.run`, `sigint_hook`, the dispatch, collect and join phases of `run_tests` | partly (`TestRunner`) |
| Packet tag | `network/model/vcp-packet-tag.{cc,h}`, copied to the IP header in `ipv4-l3-protocol.cc:664` | one load value | get, set, serialise | partly (its values) |
| `Timer` | `core/model/timer.cc` | pending event | `Schedule`, `IsRunning`, `IsExpired`, `Cancel` | partly (inside its users) |
| Simulator and scheduler | `core/model/*simulator*` | event queue ordered by time and uid | `Schedule`, `Run`, `Cancel` | rule only |
| Rate sampling, IPv4 forwarding, scripts, plots, other ns-3 modules | see `PROJECT.json` | | | not modelled |

Components meet in these places:

* Packets carry the tag through one or more queues. `Ipv4L3Protocol::Receive`
  turns it into the ECN bits of the header, `ForwardUp` stores those in
  `m_vcpLoadOut`, `SendEmptyPacket` ORs them into the flags of the packets
  without data, and `ProcessEstablished` decodes the flags into `m_vcpLoadIn`.
* `ReceivedAck` calls `Vcp::CongControl` after every ACK. `ReTxTimeout` calls
  `Vcp::CwndEvent`, which writes `m_vcpLoadIn` itself and calls `CongControl`.
  `EnterCwr`, `EnterRecovery` and `ReTxTimeout` ask the controller for a
  threshold (`GetSsThresh`).
* `m_tcb->m_cWnd` has two writers. The controller sets it together with its own
  `m_cWndFractional`. `TcpSocketBase` sets it alone: to the threshold at the end of
  every fast recovery (`tcp-socket-base.cc:2177`), and to the initial window on every
  SYN (`:1344`).
* The ECN state machine of stock ns-3 uses the same IP bits and the same TCP
  flags as VCP and is not switched off: `UseEcn` is Off, but the machine still
  advances on received bits. Other states of the socket compare the flags
  without masking the two bits.
* A queue disc is run by arrivals and by the device queue, which stops it when a
  further packet might not fit and wakes it by a scheduled event.
* The simulator is single-threaded, so handlers are atomic. What interleaves is
  the order of events: packets, ACKs, timers, calls of the applications. The
  test runner is the exception: threads, queues and a signal handler.

Hard behaviours: ACKs of different loads within one interval; a timeout during
the freeze; a window written behind the controller's back; two meanings of one timer; two timers due at one instant;
attributes that arrive after the constructor scheduled timers; two protocols
writing the same flags; delayed, lost and duplicate ACKs; a scoreboard guessed
from them; one retransmission timer for data and FIN, cancelled and scheduled in
many places; closes that cross; lost wake-ups; a signal between taking a job and
running it. `PROJECT.json` lists each with its line and the properties that cover
it.

## 2. Modules

| Module | Role |
|---|---|
| `VcpPacing` | abstract contract of a sender: move the window between a base and a cap or up to the one TCP sends by, go below the base only by a cut, stand still for an interval after a cut; of TCP: leave that window only for one that was saved |
| `Vcp`, `MCVcp`, `Vcp_proofs` | the controller, its two timers, its callers and the window of the socket; its proofs, among them the refinement of `VcpPacing` |
| `VcpQueueDisc`, `MCVcpQueueDisc`, `VcpQueueDisc_proofs` | the router queue |
| `VcpFeedback`, `MCVcpFeedback`, `VcpFeedback_proofs` | one connection in ESTABLISHED: the load from receiver to sender |
| `TcpRecovery`, `MCTcpRecovery`, `TcpRecovery_proofs` | one connection in ESTABLISHED: losses, recovery, timer, window |
| `TcpConnection`, `MCTcpConnection`, `TcpConnection_proofs` | opening and closing, both ends |
| `FifoLink` | abstract contract of an output: a line that only its tail may refuse a packet to, and that hands over everything else in order |
| `QueueDiscRun`, `MCQueueDiscRun`, `QueueDiscRun_proofs` | queue disc, device queue, transmitter and channel, implementing `FifoLink` |
| `Sums`, `Sums_proofs` | sums over sequences (the sampling window, the bytes of a device queue) and the laws the proofs need of them |
| `TestRunner`, `MCTestRunner`, `TestRunner_proofs` | the job queues of `test.py` |

Definitions introduced by "Faulty variant" are mutated forms of the definition
that follows them; no specification uses them. They document which mistake each
property would catch.

The modules cut the system so that each property can be checked where its
hazard lives, and leave open what another module decides: `TcpRecovery` lets the
controller set any window of a set, where `Vcp` says which; `VcpFeedback` lets
the sender send any burst, where `TcpRecovery` says how much; both draw the load
of a packet that `VcpQueueDisc` computes.

### Vcp

`CongControl(load, rtt, w)` is the controller's part of a step; its disjuncts are the
ways through `vcp.cc:137-207`, in the order of the early returns, and `w` is the
window it finds in `m_tcb->m_cWnd`. `cWnd`, `frac`, `prevCWnd`, `mdFreeze` are the
members of the same names; `mdTimer` and `incTimer` count the ticks left. `CurFrac`
and `CurPrev` are what the code sees after its lazy initialisation, so that the
indeterminate values before it cannot leak. The window is a natural number of 1/16
bytes, rounded down, where the code has a double. `GetScaledXi` and `GetScaledAlpha`
are tables over the set of round trips, of which the proofs assume only that their
values are naturals: the theorems hold whatever the scaling is. The early return on
"cwnd overflow" is kept as its guard; the wrap of the 32-bit cast itself is not
reached below `MaxWindow`.

An ACK is one of four actions, which are what `ReceivedAck` makes of fast recovery
before it calls `CongControl`: `OrdinaryAck`, `EnterRecovery` (the threshold becomes
`GetSsThresh`), `LeaveForCwr` (an ECN echo) and `ExitRecovery` (the window becomes the
threshold, and that is what `CongControl` finds). `ssThresh` is the threshold while
there is a recovery, since nothing reads it otherwise. When recoveries begin and end
is left open here and is the subject of `TcpRecovery`. `ReceiveSyn` sets the initial
window; a SYN-ACK that is sent again may still come after timeouts of the first data,
but not after the first ACK (`acked`).

### VcpQueueDisc

A packet is its tag. `load` is the band of `m_load_factor`, computed by
`LoadFactor` with integers from the same quotient as `CalcLoadFactor`, with the
0/0 of an empty window as a case of its own (no comparison of `DoDequeue` holds
for a NaN). The constants `CtorTimeInterval` and `CtorSampleInterval` are what
the constructor scheduled the timers with, before the attributes are set.
`elapsed` is the only variable the code does not have: the time the arrivals
counter has been counting.

### VcpFeedback

Sender and receiver with one FIFO each way. A packet's load is drawn when it is
delivered: it stands for the chain of queues of section 1, each of which only
makes the mark worse (`MarkIsWorst`). Both the VCP bits and the ECN machine are
there. Sequence numbers count segments; the window is left open, since any burst
that `SendPendingData` could send is allowed. Data is not lost and nothing is
reordered; ACKs may be lost.

### TcpRecovery

The socket of the sender is one record, and each function of `TcpSocketBase` and
`TcpTxBuffer` an operator from socket to socket, so that a handler is the
composition the code makes: `ReceiveAck` is `Acknowledged` (discard, leave
CA_CWR, enter CA_CWR, `ProcessAck`), `CongControl`, `SendPendingData`. The sent
list is the interval `head..high-1` with three sets of marks. `InFlight` is
`BytesInFlight` of a socket without SACK. Windows are counted in fractions of a
segment (`Seg` units), so that a window can be below one. `frac` is 0 until the
controller has run, for the indeterminate member. `active` and `first` are
`m_recoverActive` and `m_isFirstPartialAck`. The receiver acknowledges each
segment at once. A timer expires when nothing is in flight any more, or, at most
`MaxEarly` times, too early.

Three things in the code turned out to have no effect and are noted in the
module: the second way into recovery in `DupAck` (`IsLost` of the segment behind
the head) is never taken; the test of `m_recoverActive` is redundant next to
that of `m_recover`; the guard at `tcp-socket-base.cc:3775` is always true, since
`SetSentListLost` has cleared the marks it asks for.

### TcpConnection

Both sockets of a connection, one client with data (BulkSend) and one server
that is forked by the SYN and only reads (PacketSink). One operator per
`Process...` function and one action per state in `ForwardUp`; timers are
fields: `retx` holds which event `m_retxEvent` is, `ReTxTimeout` or a
`SendEmptyPacket` with the flags it was scheduled with, the load among them. A
load is the set of the two flags it is sent as. `held` are segments beyond a
gap, `fin` is `m_finSeq`. Not there: options, the persist timer, simultaneous
open, delayed ACKs, duplicate ACKs up to the threshold, reordering.

### QueueDiscRun and FifoLink

One output of a node. `Run` is taken packet by packet (`Queue`, `Transmit`,
`RunEnd`), and no other event is processed while it runs, since it is one
handler; what can interleave is the order of arrivals, wake-up events,
`TransmitComplete` and `Receive`. A transmission takes time, so wake-up events,
which are scheduled for now, come before its end. `RoomAssumption` is the
contract the device queue rests on: the size with which the room is measured is
that of the largest packet. `FifoLink` is the promise: `line` is everything
between the stack and the other device.

### TestRunner

The main thread dispatches the jobs and one break per worker, collects results
and joins; a worker takes a job, looks at the interrupt flag, runs the job and
reports. The interrupt may come between any two of these steps. How a child
process ends is one of `Endings`: the exit code and whether the suite has left a
results file, which decide what the main thread counts and whether reading the
results raises.

## 3. Runs

Bounds are TLC's, never the theorems'.

| Run | Config | Shows | States |
|---|---|---|---|
| `controller` | `MCVcp.cfg` | `TypeOK`, `RestoresOwnWindow`, `GrowthBounded`, `NeverRescheduled`, `AdditiveNeverShrinks`, `ImplementsPacing` (refinement of `VcpPacing`), `FreezeEnds` | 160,153 |
| `controller_low` | `MCVcpLow.cfg` | violation of `MultiplicativeNeverShrinks` | – |
| `router` | `MCVcpQueueDisc.cfg` | `TypeOK`, `SumIsWindow`, `WindowIsInterval`, `MarkIsWorst`, `IdleRecovers`, `StandingQueueMarked` | 157,326 |
| `link` | `MCQueueDiscRun.cfg` | `WakeUpPending`, `ImplementsFifo` (refinement of `FifoLink`) | 169,782 |
| `feedback` | `MCVcpFeedback.cfg` | `TypeOK`, `InOrder`, `NeverUnderReported`, `OncePerWindow`, `OverloadReachesSender` | 84,932 |
| `feedback_cwr` | `MCVcpFeedbackCwr.cfg` | violation of `CwrOnlyAfterCe` | – |
| `recovery` | `MCTcpRecovery.cfg` | `TypeOK`, `Scoreboard`, `DupAcksCounted`, `RecoveryEnds`, `NeverDiscardsUnreceived`, `TimerRuns`, `WindowDefined`, `OneRecoveryPerWindow`, `FlightWithinWindow`, `Delivered` | 56,636 |
| `recovery_stall` | `MCTcpRecoveryStall.cfg` | violation of `Delivered` with a window below a segment | – |
| `connection` | `MCTcpConnection.cfg` | `EofAfterData`, `AcksOnlySent`, `FinWait2Acked` | 361,859 |
| `connection_live` | `MCTcpConnectionLive.cfg` | `PeacefulClose`, `ConnectResolves`, `EndpointsReleased`, without loads | 11,350 |
| `connection_load` | `MCTcpConnectionLoad.cfg` | violation of `PeacefulClose` with a load | – |
| `test_runner` | `MCTestRunner.cfg` | `JobsConserved`, `SuccessIsTotal`, `InterruptStops`, `RunEnds` | 28,738 |

Why the bounds are enough.

* Controller: an interval of 2 ticks with round trips of 0, 1 and 3 covers round
  trips below the millisecond resolution, shorter and longer than the interval;
  windows up to 8 bytes of 2-byte segments lie on both sides of the 4 bytes where
  the multiplicative cap (3/2) overtakes the additive one. A decrease by 1/8 loses
  up to a byte, so that a recovery can restore a window that one increase reaches
  (rtt 3) and one that it does not (rtt 0 and 1). The number of recoveries, decreases,
  timeouts and repeated SYNs is not bounded.
* Router: a window of four samples rolls over several times, the queue of two
  fills, and the demand of one interval crosses both thresholds. A queue that stands
  long enough to be an overload by itself (`StandingQueueMarked`) exists here because
  of the small capacity. With the default attributes it would have to hold 75 packets
  and the limit is 25 (`vcp-queue-disc.cc:22-44`): there the property says nothing,
  and a link whose queue stands at its limit without arrivals is not an overload.
* Link: packets of two sizes and a header of one make the cases where a packet
  fits and the room for another does not; the quota of 2 is reached; three
  packets wait in the queue disc while the device queue stops and wakes it. The
  one-packet device queue of the simulation scripts (`Sizes = {1}`, `Header = 0`,
  `Mtu = 1`, `DevMax = 1`) passes as well.
* Feedback: five segments, three in flight, two lost ACKs and a delayed-ACK count
  of 2 allow an overload, the answer with CWR and a second echo; every load is
  drawn for every packet, in both directions.
* Recovery: six segments with a window of all of them give the three duplicate
  ACKs of the threshold with one loss, a second loss in the same round, partial
  ACKs and the loss of the retransmission; a window of one segment (2 units)
  gives the timeout. One early timeout gives duplicate ACKs in CA_LOSS. Echoes
  are drawn for every ACK.
* Connection: two segments are the fewest with a gap before the FIN and data
  after it; one loss and one early timeout may hit any packet, and the two
  closes may come at any time.
* Test runner: two jobs and two workers, an interrupt at any step, one process
  that cannot be started; with three jobs (1,089,790 states) the result is the
  same.

Deadlock is checked in the controller and router runs, which never stop. In the
others the bounded number of segments, packets or jobs ends the run of the
system.

### Fairness

The simulator runs every event that is scheduled and not cancelled, so the models
ask weak fairness of timers, deliveries and of time, and of nothing else:
losses, applications, arrivals and interrupts are never required.

* `Vcp!FairSpec` adds, as the stated assumption of `FreezeEnds`, that ACKs carrying
  a load keep arriving: nothing in the code ends a freeze without one.
* `VcpQueueDisc!FairSpec`: the timers and time only; packets and the device are
  free.
* `VcpFeedback!FairSpec`: delivery in both directions and the delayed-ACK timer;
  the losses of ACKs are bounded by `MaxLost`.
* `TcpRecovery!FairSpec`: delivery, the scheduled `SendPendingData` and the timer.
* `TcpConnection!FairSpec`: strong fairness of the timers, since a timer is
  disabled in the model while packets are in flight and its bound of early
  expiries is used up; the clock would reach it all the same.
* `QueueDiscRun!FairSpec`: the events of the link.
* `TestRunner!FairSpec`: threads are scheduled and child processes end.

## 4. What the violation runs show

1. `controller_low`: `vcp.cc:293` caps the multiplicative increase at
   `m_prevCWnd * m_maxCWndIncreasePerRtt` without looking at the current window.
   After an additive increase has moved a small window one segment up, a LOW load of the
   same interval shrinks it. `AdditiveIncrease` takes the maximum with the
   current window at `vcp.cc:321`.
2. `feedback_cwr`: the ECE flag that reports LOW is taken for an ECN echo and
   moves a sender to CA_CWR although no data segment was marked.
3. `recovery_stall`: after a timeout with a window below a segment nothing is
   sent, and the timer, which only sending schedules, never runs again. The
   controller has no floor (`vcp.cc:337`) and the assignment of one segment in
   `ReTxTimeout` is commented out (`tcp-socket-base.cc:3783`).
4. `connection_load`: the ACK of the last FIN carries the load in ECE and CWR;
   `ProcessLastAck` and `ProcessClosing` compare the unmasked flags with ACK and
   answer it with a reset and an error.

Further disagreements met while modelling, without a run of their own:

* A loss in the freeze is ignored and one in the round trip after it is answered
  by an increase (`vcp.cc:184`), where `vcp.cc:120` announces a decrease.
* The window is frozen after a decrease (`vcp.cc:172`), but not for the end of a fast
  recovery. When the ACK that starts the recovery carries OVERLOAD, the threshold is
  the window from before the decrease, and the ACK that ends the recovery within the
  freeze makes TCP send by it again: `tcp-socket-base.cc:2177` sets it, `vcp.cc:173`
  returns. `VcpPacing!Restore` is this step; the controller's own window stands still.
* The same, with the freeze over: `m_cWnd` is now larger than `m_cWndFractional`, which
  the two increases take for an overflow (`vcp.cc:288`, `:314`). They return as long as
  one increase does not bridge the decrease, and nothing is stored, so that with a
  window of more than eight segments (beta = 7/8, alpha = 1) both windows stand still
  until the next OVERLOAD.
* With an interval attribute other than the default the first load factor relates
  the arrivals of the constructor's interval (`vcp-queue-disc.cc:63`) to the
  capacity of the attribute's. `WindowIsInterval` is checked and proved for equal
  intervals only (`Defaults`).
* While the receiver still echoes ECN, a HIGH load leaves as ECE|CWR, which the
  sender reads as OVERLOAD (`tcp-socket-base.cc:2717`).
* LAST_ACK is left on any ACK with the right sequence number, that of older data
  included (`tcp-socket-base.cc:2557`).
* In the FIN_WAIT states the FIN is placed at the sequence number of its segment,
  not behind the data in it (`tcp-socket-base.cc:2468`); `EofAfterData` states
  what is left of the promise.
* A device queue limited in bytes measures the room with the MTU, and packets in
  it have two more bytes of PPP header: a full-size packet that has left the queue
  disc can be discarded (`network/utils/net-device-queue-interface.h:350`, against
  the message at `:392`). `RoomAssumption` excludes it.
* A `Run` that has used its quota is continued by nobody (`queue-disc.cc:976`, a
  todo). A quota of 1 violates `WakeUpPending` in the instance of the `link` run, and
  2, the least quota there that satisfies `QuotaCovers`, suffices. That condition is
  proved to be enough (section 5); the default of 64 meets it on a link of 1500 bytes,
  where a packet takes between 42 and 1502 bytes.
* Test runner: a worker that raises in `Popen` takes its job with it and the main
  thread waits for ever; a suite that exits with 0, 1 or 2 and has written no
  results file makes the main thread raise. `RunEnds` excludes the first and
  counts the second as an end.
* An ECN echo in CA_RECOVERY leaves `m_isFirstPartialAck` false for the next
  recovery.

## 5. Proofs

All proofs are checked by TLAPS for every value of the constants that satisfies
the assumptions named in the modules. The assumptions beyond types are
`FactorAssumption` (a decrease factor of at most 1 and a cap of at least 1),
`TimerAssumption` (the sampling period is shorter than the interval) and
`RoomAssumption` (the room of a device queue is measured with its largest packet).
Four theorems or groups of them have a hypothesis of their own: `Defaults`,
`QuotaCovers`, `WholeSegments` and `Unloaded`. Every invariant was checked by TLC before it was
proved.

* `Vcp_proofs`. The inductive invariant `IInv` is type correctness,
  `RestoresOwnWindow`, the growth bound and three parts that make it inductive.
  `TimersAgree`: the interval timer runs exactly when the controller has been
  initialised, without which `StorePrevCwnd` could store a window that was never set.
  `SynWindow`: before the first ACK only a SYN can have set the socket's window
  alone. `WindowsWithin`: once the controller's window is beyond the cap of its
  interval, so close to the cap is every window it may yet find in the socket.
  The argument for `GrowthBounded` is this. Only where it takes over the socket's
  window (`vcp.cc:321`) can `AdditiveIncrease` pass the cap, and it does so only if
  one increase reaches that window (`vcp.cc:314`): from within the cap the new window
  is within the cap and one increase. From beyond it, `WindowsWithin` bounds what can
  be taken over. That this lasts, when one window has been taken over and another is
  still to be restored, is what `RestoresOwnWindow` is needed for: of the two, one is
  the controller's own. `CongControlStep` collects what a call may do to the windows
  (keep them, `Capped`, `TakenOver`, `Decreased`), from one lemma per law;
  `StepWithin` and `OtherWithin` what this does to the distance from the cap.
  The cap alone, without the slack of one increase, is refuted by TLC.
  From `IInv`: `TypeCorrect`, `ThresholdIsOwnWindow`, `GrowthIsBounded`,
  `TimerNeverRescheduled`, `HighLoadNeverShrinks`. `VcpImplementsPacing` maps the
  freeze timer to the age of the last cut, each call of `CongControl` to `Stand`,
  `Adjust` or `Cut` from the window it finds, the four kinds of ACK and the timeout to
  `Go`, `Save`, `Forget` and `Restore`, a SYN to `Restart`, `StorePrevCwnd` to
  `Rebase` and the passing of time in a freeze to `Elapse`.
* `VcpQueueDisc_proofs`. `QueueTypeCorrect` (the sample `InitializeParams` pushes
  unconditionally fits because nothing was sampled before), `MarksWorst`, and
  `LoadOverWholeInterval`: with default timers every computation sees exactly one
  interval. Its invariant `Filling` says that, until the window is full, the time
  since the start and the time to the next sample make one sampling period per
  sample held; at the end of the interval this forces a full window. `SumOfWindow`:
  `m_qsizes_sum`, which is added to and subtracted from as samples come and go, is
  the sum of the samples held, so the subtraction never wraps.
* `Sums_proofs`. What a sum becomes when a sequence gains a last member or loses its
  first. The sum is a fold, defined by recursion over the subsets of the sequence's
  domain; the table of its partial sums is shown to exist and to be unique by taking
  the least number at which it would fail, since the induction theorems of the
  library cannot be instantiated here.
* `QueueDiscRun_proofs`. `LinkInv` is the shape of the state and what the device
  promises: it is stopped exactly while it has no room for a largest packet, a
  stopped device has packets and is transmitting, an idle one has none.
  `OutputIsFifo` maps every step of the link to a step of `FifoLink` or a stutter;
  only its fairness is left to TLC. `BacklogIsServed` needs `Served`: a `Run` either
  has a single packet to move or quota enough to fill the device queue and so to
  stop it, and a wake-up event means that the device queue has just come to have
  room, so that it lacks less than one largest packet. A `Run` started by a wake-up
  can therefore close the gap if its quota of the smallest packets is worth one of
  the largest: this is `QuotaCovers`.
* `VcpFeedback_proofs`. `PathNeverUnderReported` (every ACK in flight is honest,
  with the ECN echo or without) and `ReducesOncePerWindow`, from the invariant
  `FInv` that a sender outside CA_CWR has all data up to `m_recover` acknowledged.
  `EverythingInOrder` needs `OrderInv`: the segments in flight are consecutive from
  the one the receiver expects, the ACKs increase up to it, and an ACK that is
  held back has its timer. `FeedbackTypeCorrect` adds `Counters`, the order of the
  sequence numbers the two ECN machines remember.
* `TcpRecovery_proofs`. The socket is a record that some twenty operators pass on;
  the lemmas first say which fields each may touch (`SameRound`). `RecInv` says
  that no acknowledgment in flight is ahead of the receiver, nor the head of the
  send buffer, and that outside of congestion the head has reached `m_recover`.
  From it: `NothingLost` and `RecoveredOnce`.
* `TcpRecovery_proofs`, second part. `RoundInv` adds that marks are marks on the sent list, that
  nothing is in flight or held that was not sent (which needs what
  `SendPendingData` sends, and so `Ranks`: the operator that orders a set of
  segments is well defined), the limits of each state of congestion and the count
  of duplicate ACKs in it. From it: `CountedPerRound` and `FitsWindow`, for any
  windows and thresholds. Under `WholeSegments` (the controller keeps at least one
  segment, and the threshold is above one duplicate ACK) `Timed` is inductive as
  well: the window has room for a segment, the threshold stored for recovery too,
  and the timer runs exactly while data is outstanding. From it:
  `TimerAlwaysRuns`, `WindowAlwaysDefined` and `RecoveryAlwaysEnds`. The hypothesis
  is needed: TLC refutes `RecoveryEnds` with a window below a segment and
  `WindowDefined` with a threshold of one. `ScoreboardConsistent` adds `Board`: `Guess`
  about the marks alone, kept by each function of the buffer, and `Behind`, that a
  lost segment is the head or, in CA_LOSS and CA_CWR, lies before `m_recover`. The
  second is what makes the first inductive: leaving CA_LOSS reaches `m_recover` and
  so discards every segment marked as lost but the head. `TypeCorrect` follows the
  socket through every helper (`Sound`); it needs `RoundInv`, since ranges such as
  that of `m_recover` hold only because marks and ACKs stay on what was sent.
* `TcpConnection_proofs`. Every handler maps a socket to a socket and may pass through
  several operators on the way, so the proof is about pairs: `Moves(s, t, p)` says that
  a handler that makes `t` of the socket `s`, whose peer is `p`, keeps what the two ends
  know of each other. There is one lemma per operator, and they compose
  (`HandledTwice`) as the handlers do. The inductive invariant is `ConnInv`. `Own` is
  the state of one socket (before the handshake nothing is counted; afterwards either
  the FIN is acknowledged or the numbers are ordered; FIN_WAIT_2 implies the former).
  `Flow(s, p)` says that what `p` has received and acknowledged is what `s` has sent,
  and that a FIN noted by `p` is the end of the stream of `s` or, after `ProcessWait`
  of a FIN that came with data, one segment before it. `Pk` says it of every packet in
  flight. `Told` and `Waits` are what holds between handlers: the end of the peer's
  stream has been acted upon, and a FIN that is sent again although it is acknowledged
  meets a peer that has sent its own and ignores it. `SynFirst` is needed because
  the listening socket forks for a SYN at any time, and `SYN_RCVD` starts counting again
  at one: a SYN comes before all data in the line to the server and meets a socket that
  has never been connected. `Sides` is what only
  one end does, among it `Straight`: a server that its application has not closed
  puts the FIN where it belongs. From it: `EndAfterData`, `OnlySentIsAcked`,
  `FinIsReceived` and `TypeCorrect`. TLC has checked `ConnInv` with two segments, a
  loss and an early timeout, and with both loads and a loss.
* `TcpConnection_proofs`, second part. `ClosesInPeace` needs to know where a connection is
  and not only what the two ends know of each other. `Calm` lists the eight phases
  of a connection that nothing goes wrong in (`Fresh`, `Requested`, `Answered`, `Opening`,
  `Streaming`, `Finishing`, `LastWord`, `Over`), each with both sockets and everything
  that is on its way, and a ninth in which the client gave up before the answer came.
  `Stream` describes the segments to the server: consecutive from the one it expects, the
  last with the FIN or followed by it. `Acks` describes what goes back. `PeaceInv` says that
  the state is calm until a packet is lost, a timer expires early or the server's
  application closes, and is inductive together with `ConnInv`. Every handler has a lemma for
  the phases it can be reached in; `QuietCalm` excludes the timers. Besides `PeacefulClose`
  it gives `NothingSentTwice`. The hypothesis `Unloaded` (no load on the path) is needed:
  the run `connection_load` shows the reset that an ACK with a load brings about in LAST_ACK.
  TLC has checked `PeaceInv` with up to three segments, and with a loss and an
  early timeout.
* `TcpConnection_proofs`, third part. The safety half of `EndpointsReleased`: `EveryWaitIsTimed`
  says that in every state in which a live socket waits for its peer, FIN_WAIT_2 apart, an
  event is pending that sends again or gives up (`NobodyForgotten`). That is not inductive:
  the RTO of an empty send buffer clears the timer without starting another, except in
  FIN_WAIT_1 and CLOSING. `Duty` therefore says that LAST_ACK has the last-ACK timer, a
  timer that sends the FIN, or an RTO with data left in the buffer, and that before the
  close (`Open`) the timer runs only while data is not acknowledged. `DutyInv` is inductive
  together with `ConnInv`, for all losses, early timeouts and loads; TLC has checked it on
  small instances. That the pending event happens, and that the retries end, is liveness
  and stays with `connection_live`.
* `TestRunner_proofs`. `RunInv` has four parts: the shape of the queues and of the
  threads; every job is in at most one of the input queue, a worker and the output
  queue, and the counts add up (`Places`); how a job has ended does not change
  (`Final`); and what the main thread has counted is what the results say
  (`Judged`). From it: `NoJobLost`, `SuccessSound`, `NothingStartedLate` and
  `TypeCorrect`. `Line` adds the order of the input queue: jobs, then break jobs, as many
  in all as there are jobs waiting and break jobs not yet taken. With it
  `NobodyWaitsInVain`: the blocking calls of the main thread (`output_queue.get`,
  `thread.join`) and of the workers (`input_queue.get`) never form a deadlock; the run
  can only stall when a worker has died and its result is missing. The liveness property
  `RunEnds` itself, which needs the fairness of the scheduler, stays with TLC.

Only model-checked: every liveness property (`FreezeEnds`, `IdleRecovers`,
`StandingQueueMarked`, `OverloadReachesSender`, `Delivered`, `ConnectResolves`,
`EndpointsReleased`, `RunEnds`, and the fairness of `FifoLink` in `ImplementsFifo`),
since fairness is outside the prover's reach. Every safety invariant and every action
property of the passing runs is stated by a theorem.

## 6. What is left of the plan

1. `VcpLoop`: one `Vcp` sender, one `VcpQueueDisc` and the feedback between them
   composed; an overloaded link leads to a decrease, an idle one to an increase.
   Today each of the three modules leaves open what the others decide.
2. `Scheduler`: the event queue and `Timer` (schedule, cancel, expire), shown to
   implement the count-down timers used here and the tie rule of
   `TimerAssumption`.
3. Reordering in the network and SACK in `TcpRecovery`; simultaneous open and
   delayed ACKs in `TcpConnection`.

## 7. Not modelled

The double arithmetic of the window (fixed-point here), byte-mode queue sizes of
`VcpQueueDisc` (the simulations use packets), TCP options, RTT estimation, SACK
and `TcpClassicRecovery` (not called in the simulations: SACK is disabled and the
controller has `CongControl`), the receiver's window and the persist timer, IPv6,
routing, the rate sampler (`Vcp` ignores its samples), byte queue limits and
devices with several queues, tracing and plotting, and the many ns-3 modules that
the VCP program never runs. `Vcp::PktsAcked` returns at once and the rest of it is
dead code. Of `test.py`, the selection of tests, the build and the documents.

Nearly all lines of the repository are outside of this development by nature: the
program is ns-3 with one congestion control and one queue disc added, and most of
its Python files are the generated `src/*/bindings/modulegen__*.py`, tables of
registrations without behaviour of their own.
