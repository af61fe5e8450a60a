--------------------------- MODULE VcpQueueDisc ---------------------------
(***************************************************************************)
(* One VCP router queue, class VcpQueueDisc of                             *)
(* traffic-control/model/vcp-queue-disc.{h,cc}: a FIFO of packets, the     *)
(* estimation of the load of its link from the packets that arrived in the *)
(* last interval and from samples of the queue length, and the marking of  *)
(* every packet that leaves with that load.                                *)
(*                                                                         *)
(* A packet is the load its VcpPacketTag carries (NOT_SUPPORTED when it    *)
(* has no tag).  The load factor is kept as the band that DoDequeue reads  *)
(* off it.  Time is a count of ticks and the two timers count down.        *)
(***************************************************************************)
EXTENDS Integers, Sequences, Sums

CONSTANTS
    MaxSize,            \* MaxSize, in packets
    TimeInterval,       \* m_timeInterval, in ticks
    SampleInterval,     \* m_QueueSampleInterval, in ticks
    CtorTimeInterval,   \* what the two timers hold when the constructor
    CtorSampleInterval, \*   schedules them, before the attributes are set
    Kq, KqUnit,         \* m_kq = Kq / KqUnit
    Capacity,           \* m_target_util * bandwidth * m_timeInterval, in packets
    Incoming,           \* loads packets may carry when they arrive
    MaxArrivals         \* bound of the model: arrivals per interval

(* VcpPacketTag::LoadType *)
LOAD_NOT_SUPPORTED == 0
LOAD_LOW == 1
LOAD_HIGH == 2
LOAD_OVERLOAD == 3
LoadType == LOAD_NOT_SUPPORTED..LOAD_OVERLOAD

Window == TimeInterval \div SampleInterval

Larger(a, b) == IF a > b THEN a ELSE b

ASSUME SizeAssumption == MaxSize \in Nat \ {0}
(* The sampling timer is the faster of the two, so that when both fire at  *)
(* one instant the load timer's event is the older one and runs first.     *)
ASSUME TimerAssumption ==
    /\ SampleInterval \in Nat \ {0} /\ CtorSampleInterval \in Nat \ {0}
    /\ TimeInterval \in Nat /\ CtorTimeInterval \in Nat
    /\ {SampleInterval, CtorSampleInterval} \subseteq
           1..(TimeInterval - 1) \cap 1..(CtorTimeInterval - 1)
ASSUME LoadAssumption ==
    /\ Kq \in Nat /\ KqUnit \in Nat \ {0} /\ Capacity \in Nat \ {0}
    /\ Incoming \subseteq LoadType
    /\ MaxArrivals \in Nat

VARIABLES
    queue,              \* GetInternalQueue (0): tags of the packets held
    arrivals,           \* m_recent_arrivals
    recentQueueSizes,   \* recent_queue_sizes
    qsizesSum,          \* m_qsizes_sum
    load,               \* band m_load_factor lies in, as DoDequeue sees it
    sampleTimer,        \* ticks left on m_queue_size_sample_timer
    loadTimer,          \* ticks left on m_load_factor_timer
    initialized,        \* InitializeParams has run
    sent,               \* tag of the packet last handed to the device
    elapsed             \* ticks since m_recent_arrivals was last reset; the
                        \*   code has no such counter

vars == <<queue, arrivals, recentQueueSizes, qsizesSum, load, sampleTimer,
          loadTimer, initialized, sent, elapsed>>

-----------------------------------------------------------------------------
(* CalcLoadFactor's quotient                                               *)
(*   (arrivals + m_kq * sum / n) / Capacity                                *)
(* against the thresholds .8 and 1 of DoDequeue.  Without a sample it is   *)
(* 0/0, a NaN, for which none of DoDequeue's comparisons holds.            *)

Undefined == LOAD_NOT_SUPPORTED

\* Faulty variant: leaves the standing queue out.
LoadFactorOfArrivals(lambda, sum, n) ==
    LET demand == lambda * KqUnit * n
        supply == Capacity * KqUnit * n
    IN  IF n = 0 THEN Undefined
        ELSE IF 10 * demand < 8 * supply THEN LOAD_LOW
        ELSE IF demand < supply THEN LOAD_HIGH
        ELSE LOAD_OVERLOAD

LoadFactor(lambda, sum, n) ==
    LET demand == lambda * KqUnit * n + Kq * sum
        supply == Capacity * KqUnit * n
    IN  IF n = 0 THEN Undefined
        ELSE IF 10 * demand < 8 * supply THEN LOAD_LOW
        ELSE IF demand < supply THEN LOAD_HIGH
        ELSE LOAD_OVERLOAD

\* Faulty variant: a HIGH link does not correct a LOW tag.
MarkUntagged(prevLoad) ==
    IF load = LOAD_OVERLOAD THEN LOAD_OVERLOAD
    ELSE IF prevLoad = LOAD_NOT_SUPPORTED THEN load ELSE prevLoad

\* The tag DoDequeue leaves on a packet that came with tag prevLoad.
Mark(prevLoad) ==
    CASE load = LOAD_LOW ->
            IF prevLoad = LOAD_NOT_SUPPORTED THEN LOAD_LOW ELSE prevLoad
      [] load = LOAD_HIGH ->
            IF prevLoad <= LOAD_LOW THEN LOAD_HIGH ELSE prevLoad
      [] load = LOAD_OVERLOAD -> LOAD_OVERLOAD
      [] OTHER -> prevLoad

-----------------------------------------------------------------------------

\* Faulty variant: starts with no sample.
InitializeNoSample ==
    /\ ~initialized
    /\ initialized' = TRUE
    /\ qsizesSum' = 0
    /\ UNCHANGED <<queue, arrivals, recentQueueSizes, load, sampleTimer,
                   loadTimer, sent, elapsed>>

\* At the start of the simulation, before time moves and packets arrive.
InitializeParams ==
    /\ ~initialized
    /\ initialized' = TRUE
    /\ qsizesSum' = 0
    /\ recentQueueSizes' = Append(recentQueueSizes, 0)
    /\ UNCHANGED <<queue, arrivals, load, sampleTimer, loadTimer, sent, elapsed>>

\* Faulty variant: lets one packet too many in.
DoEnqueueBeyond(tag) ==
    /\ initialized
    /\ arrivals < MaxArrivals
    /\ arrivals' = arrivals + 1
    /\ queue' = IF Len(queue) > MaxSize THEN queue ELSE Append(queue, tag)
    /\ UNCHANGED <<recentQueueSizes, qsizesSum, load, sampleTimer, loadTimer,
                   initialized, sent, elapsed>>

\* DoEnqueue counts the packet whether or not there is room for it.
DoEnqueue(tag) ==
    /\ initialized
    /\ arrivals < MaxArrivals
    /\ arrivals' = arrivals + 1
    /\ queue' = IF Len(queue) + 1 > MaxSize THEN queue ELSE Append(queue, tag)
    /\ UNCHANGED <<recentQueueSizes, qsizesSum, load, sampleTimer, loadTimer,
                   initialized, sent, elapsed>>

DoDequeue ==
    /\ queue # <<>>
    /\ queue' = Tail(queue)
    /\ sent' = Mark(Head(queue))
    /\ UNCHANGED <<arrivals, recentQueueSizes, qsizesSum, load, sampleTimer,
                   loadTimer, initialized, elapsed>>

\* Faulty variant: drops the oldest sample, keeps it in the sum.
SampleNoSubtract ==
    /\ sampleTimer = 0 /\ loadTimer # 0
    /\ recentQueueSizes' =
         Append(IF Len(recentQueueSizes) >= Window
                THEN Tail(recentQueueSizes) ELSE recentQueueSizes, Len(queue))
    /\ qsizesSum' = qsizesSum + Len(queue)
    /\ sampleTimer' = SampleInterval
    /\ UNCHANGED <<queue, arrivals, load, loadTimer, initialized, sent, elapsed>>

\* Drop the oldest sample once a whole interval is covered, then add one.
SampleQueueSize ==
    LET full == Len(recentQueueSizes) >= Window
        kept == IF full THEN Tail(recentQueueSizes) ELSE recentQueueSizes
        rest == IF full THEN qsizesSum - Head(recentQueueSizes) ELSE qsizesSum
    IN  /\ sampleTimer = 0 /\ loadTimer # 0
        /\ recentQueueSizes' = Append(kept, Len(queue))
        /\ qsizesSum' = rest + Len(queue)
        /\ sampleTimer' = SampleInterval
        /\ UNCHANGED <<queue, arrivals, load, loadTimer, initialized, sent, elapsed>>

\* Faulty variant: skips an interval without arrivals.
CalcIfArrivals ==
    /\ loadTimer = 0
    /\ load' = IF arrivals = 0 THEN load
               ELSE LoadFactor(arrivals, qsizesSum, Len(recentQueueSizes))
    /\ arrivals' = 0
    /\ loadTimer' = TimeInterval
    /\ elapsed' = 0
    /\ UNCHANGED <<queue, recentQueueSizes, qsizesSum, sampleTimer,
                   initialized, sent>>

CalcLoadFactor ==
    /\ loadTimer = 0
    /\ load' = LoadFactor(arrivals, qsizesSum, Len(recentQueueSizes))
    /\ arrivals' = 0
    /\ loadTimer' = TimeInterval
    /\ elapsed' = 0
    /\ UNCHANGED <<queue, recentQueueSizes, qsizesSum, sampleTimer,
                   initialized, sent>>

Tick ==
    /\ initialized
    /\ sampleTimer # 0 /\ loadTimer # 0
    /\ sampleTimer' = sampleTimer - 1
    /\ loadTimer' = loadTimer - 1
    /\ elapsed' = elapsed + 1
    /\ UNCHANGED <<queue, arrivals, recentQueueSizes, qsizesSum, load,
                   initialized, sent>>

Init ==
    /\ queue = <<>>
    /\ arrivals = 0
    /\ recentQueueSizes = <<>>
    /\ qsizesSum = 0
    /\ load = LOAD_LOW
    /\ sampleTimer = CtorSampleInterval
    /\ loadTimer = CtorTimeInterval
    /\ initialized = FALSE
    /\ sent = LOAD_NOT_SUPPORTED
    /\ elapsed = 0

Next ==
    \/ InitializeParams
    \/ \E tag \in Incoming : DoEnqueue(tag)
    \/ DoDequeue
    \/ SampleQueueSize
    \/ CalcLoadFactor
    \/ Tick

Spec == Init /\ [][Next]_vars

(* The simulator runs every event it was given; packets and the device are *)
(* under no obligation.                                                    *)
FairSpec ==
    /\ Spec
    /\ WF_vars(InitializeParams) /\ WF_vars(Tick)
    /\ WF_vars(SampleQueueSize) /\ WF_vars(CalcLoadFactor)
-----------------------------------------------------------------------------
(* Properties.                                                             *)

\* Shape of the state: the queue never exceeds its limit, nor the sampling
\* window the interval it stands for.
TypeOK ==
    /\ queue \in Seq(Incoming) /\ Len(queue) <= MaxSize
    /\ arrivals \in 0..MaxArrivals
    /\ recentQueueSizes \in Seq(0..MaxSize) /\ Len(recentQueueSizes) <= Window
    /\ qsizesSum \in Int
    /\ load \in LoadType
    /\ sampleTimer \in 0..Larger(SampleInterval, CtorSampleInterval)
    /\ loadTimer \in 0..Larger(TimeInterval, CtorTimeInterval)
    /\ initialized \in BOOLEAN
    /\ sent \in LoadType
    /\ elapsed \in Nat

\* The running sum is the sum of the samples in the window, across every
\* rollover of the window: m_qsizes_sum, an unsigned, never wraps below 0.
SumIsWindow == qsizesSum = SumSeq(recentQueueSizes)

\* vcp-queue-disc.cc:32 "Interval over which to sample load factor": whenever
\* the load is computed the arrivals counted and the samples held are those of
\* exactly one TimeInterval, the one the capacity is computed for; the sample of 0 that InitializeParams adds and the order of the two timers
\* when both are due make up for the sample the first interval is short of.
WindowIsInterval ==
    loadTimer = 0 => elapsed = TimeInterval /\ Len(recentQueueSizes) = Window

\* A packet leaves with the worse of the load it arrived with and the load
\* of this link, so that along a path the tag is the load of the worst link.
MarkIsWorst ==
    [][DoDequeue => sent' = Larger(Head(queue), load)]_vars

\* A link that falls idle is eventually advertised as lightly loaded again,
\* whatever the window and the counter held when the traffic stopped.
Idle == queue = <<>> /\ arrivals = 0
IdleRecovers == <>[]Idle => <>[](load = LOAD_LOW)

\* A queue that stands at a length worth a whole interval of capacity is
\* eventually advertised as overload, even if it lets no packet in.
LongQueues == {n \in 0..MaxSize : Kq * n >= KqUnit * Capacity}
Standing == Len(queue) \in LongQueues
StandingQueueMarked == <>[]Standing => <>[](load = LOAD_OVERLOAD)
=============================================================================
