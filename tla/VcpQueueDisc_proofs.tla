------------------------ MODULE VcpQueueDisc_proofs ------------------------
(***************************************************************************)
(* Proofs about module VcpQueueDisc, for every limit, interval, sampling   *)
(* period and capacity.                                                    *)
(***************************************************************************)
EXTENDS VcpQueueDisc, Sums_proofs

\* A whole interval holds at least one sample and a division rounds down.
LEMMA WindowBounds ==
    /\ Window \in Nat \ {0}
    /\ Window * SampleInterval <= TimeInterval
    /\ TimeInterval < (Window + 1) * SampleInterval
BY TimerAssumption, Z3 DEF Window

\* The quotient always falls in one of the bands.
LEMMA LoadFactorType ==
    ASSUME NEW lambda \in Nat, NEW sum \in Int, NEW n \in Nat
    PROVE  LoadFactor(lambda, sum, n) \in LoadType
BY DEF LoadFactor, LoadType, Undefined, LOAD_NOT_SUPPORTED, LOAD_LOW,
       LOAD_HIGH, LOAD_OVERLOAD

\* Marking takes the worse of the two loads.
LEMMA MarkIsLarger ==
    ASSUME NEW prevLoad \in LoadType, load \in LoadType
    PROVE  /\ Mark(prevLoad) = Larger(prevLoad, load)
           /\ Mark(prevLoad) \in LoadType
BY DEF Mark, Larger, LoadType, LOAD_NOT_SUPPORTED, LOAD_LOW, LOAD_HIGH,
       LOAD_OVERLOAD

-----------------------------------------------------------------------------
(* Type correctness.  InitializeParams adds a sample without looking at    *)
(* the size of the window: it fits because nothing was sampled before.     *)

FreshWindow == ~initialized => recentQueueSizes = <<>>
               /\ sampleTimer = CtorSampleInterval /\ loadTimer = CtorTimeInterval
               /\ elapsed = 0

TInv == TypeOK /\ FreshWindow

\* The sampling step keeps the window within the interval.
LEMMA SampleType ==
    ASSUME TInv, SampleQueueSize
    PROVE  /\ recentQueueSizes' \in Seq(0..MaxSize)
           /\ Len(recentQueueSizes') <= Window
           /\ qsizesSum' \in Int
<1>1. Len(queue) \in 0..MaxSize
  BY SizeAssumption DEF TInv, TypeOK
<1>2. recentQueueSizes \in Seq(0..MaxSize) /\ Len(recentQueueSizes) <= Window
      /\ qsizesSum \in Int /\ Window \in Nat \ {0}
  BY WindowBounds DEF TInv, TypeOK
<1>3. CASE Len(recentQueueSizes) >= Window
  <2>1. recentQueueSizes # <<>>
    BY <1>2, <1>3
  <2>2. /\ Tail(recentQueueSizes) \in Seq(0..MaxSize)
        /\ Len(Tail(recentQueueSizes)) = Len(recentQueueSizes) - 1
        /\ Head(recentQueueSizes) \in 0..MaxSize
    BY <1>2, <2>1, HeadTailProperties
  <2>3. /\ recentQueueSizes' = Append(Tail(recentQueueSizes), Len(queue))
        /\ qsizesSum' = qsizesSum - Head(recentQueueSizes) + Len(queue)
    BY <1>3 DEF SampleQueueSize
  <2>. QED
    BY <1>1, <1>2, <2>2, <2>3, SizeAssumption
<1>4. CASE ~(Len(recentQueueSizes) >= Window)
  <2>1. /\ recentQueueSizes' = Append(recentQueueSizes, Len(queue))
        /\ qsizesSum' = qsizesSum + Len(queue)
    BY <1>4 DEF SampleQueueSize
  <2>. QED
    BY <1>1, <1>2, <1>4, <2>1
<1>. QED
  BY <1>3, <1>4

\* The initial state has the shape.
LEMMA TypeInit == Init => TInv
<1>. SUFFICES ASSUME Init PROVE TInv
  OBVIOUS
<1>1. /\ queue \in Seq(Incoming) /\ Len(queue) <= MaxSize
      /\ recentQueueSizes \in Seq(0..MaxSize) /\ Len(recentQueueSizes) <= Window
  BY SizeAssumption, WindowBounds DEF Init
<1>2. /\ sampleTimer \in 0..Larger(SampleInterval, CtorSampleInterval)
      /\ loadTimer \in 0..Larger(TimeInterval, CtorTimeInterval)
  BY TimerAssumption DEF Init, Larger
<1>3. load \in LoadType /\ sent \in LoadType
  BY DEF Init, LoadType, LOAD_NOT_SUPPORTED, LOAD_LOW, LOAD_OVERLOAD
<1>4. arrivals \in 0..MaxArrivals /\ qsizesSum \in Int /\ elapsed \in Nat
  BY LoadAssumption DEF Init
<1>5. initialized \in BOOLEAN
  BY DEF Init
<1>6. FreshWindow
  BY DEF Init, FreshWindow
<1>. QED
  BY <1>1, <1>2, <1>3, <1>4, <1>5, <1>6 DEF TInv, TypeOK

\* Every step keeps it.
LEMMA TypeStep == TInv /\ [Next]_vars => TInv'
<1>. SUFFICES ASSUME TInv, [Next]_vars PROVE TInv'
  OBVIOUS
<1>. USE DEF TInv, TypeOK, FreshWindow
<1>1. CASE InitializeParams
  <2>1. recentQueueSizes' = <<0>>
    BY <1>1 DEF InitializeParams
  <2>2. recentQueueSizes' \in Seq(0..MaxSize) /\ Len(recentQueueSizes') <= Window
    BY <2>1, SizeAssumption, WindowBounds
  <2>. QED
    BY <1>1, <2>2 DEF InitializeParams
<1>2. ASSUME NEW tag \in Incoming, DoEnqueue(tag) PROVE TInv'
  <2>1. queue' \in Seq(Incoming) /\ Len(queue') <= MaxSize
    BY <1>2, SizeAssumption DEF DoEnqueue
  <2>2. arrivals' \in 0..MaxArrivals
    BY <1>2, LoadAssumption DEF DoEnqueue
  <2>. QED
    BY <1>2, <2>1, <2>2 DEF DoEnqueue
<1>3. CASE DoDequeue
  <2>1. /\ Head(queue) \in LoadType
        /\ queue' \in Seq(Incoming) /\ Len(queue') <= MaxSize
    <3>1. /\ Head(queue) \in Incoming
          /\ Tail(queue) \in Seq(Incoming)
          /\ Len(Tail(queue)) = Len(queue) - 1
      BY <1>3, HeadTailProperties DEF DoDequeue
    <3>. QED
      BY <1>3, <3>1, LoadAssumption, SizeAssumption DEF DoDequeue
  <2>2. sent' \in LoadType
    BY <1>3, <2>1, MarkIsLarger DEF DoDequeue
  <2>. QED
    BY <1>3, <2>1, <2>2 DEF DoDequeue
<1>4. CASE SampleQueueSize
  <2>1. sampleTimer' \in 0..Larger(SampleInterval, CtorSampleInterval)
    BY <1>4, TimerAssumption DEF SampleQueueSize, Larger
  <2>2. initialized
    BY <1>4, TimerAssumption DEF SampleQueueSize
  <2>. QED
    BY <1>4, <2>1, <2>2, SampleType DEF SampleQueueSize
<1>5. CASE CalcLoadFactor
  <2>1. loadTimer' \in 0..Larger(TimeInterval, CtorTimeInterval)
    BY <1>5, TimerAssumption DEF CalcLoadFactor, Larger
  <2>2. load' \in LoadType
    <3>1. arrivals \in Nat /\ qsizesSum \in Int /\ Len(recentQueueSizes) \in Nat
      BY LoadAssumption
    <3>. QED
      BY <1>5, <3>1, LoadFactorType DEF CalcLoadFactor
  <2>3. initialized
    BY <1>5, TimerAssumption DEF CalcLoadFactor
  <2>4. arrivals' \in 0..MaxArrivals
    BY <1>5, LoadAssumption DEF CalcLoadFactor
  <2>. QED
    BY <1>5, <2>1, <2>2, <2>3, <2>4 DEF CalcLoadFactor
<1>6. CASE Tick
  <2>1. /\ sampleTimer' \in 0..Larger(SampleInterval, CtorSampleInterval)
        /\ loadTimer' \in 0..Larger(TimeInterval, CtorTimeInterval)
    BY <1>6, TimerAssumption DEF Tick, Larger
  <2>. QED
    BY <1>6, <2>1 DEF Tick
<1>7. CASE UNCHANGED vars
  BY <1>7 DEF vars
<1>. QED
  BY <1>1, <1>2, <1>3, <1>4, <1>5, <1>6, <1>7 DEF Next

\* The invariant holds in every reachable state.
LEMMA TypeInvariant == Spec => []TInv
BY TypeInit, TypeStep, PTL DEF Spec

\* The queue keeps to its limit and the samples to one interval.
THEOREM QueueTypeCorrect == Spec => []TypeOK
<1>1. TInv => TypeOK
  BY DEF TInv
<1>. QED
  BY <1>1, TypeInvariant, PTL

\* Whatever load a packet brings and whatever the link's is, it leaves with
\* the worse of the two.
THEOREM MarksWorst == Spec => MarkIsWorst
<1>1. TInv /\ [Next]_vars =>
        [DoDequeue => sent' = Larger(Head(queue), load)]_vars
  <2>. SUFFICES ASSUME TInv, DoDequeue
                PROVE  sent' = Larger(Head(queue), load)
    OBVIOUS
  <2>1. Head(queue) \in LoadType /\ load \in LoadType
    BY LoadAssumption DEF DoDequeue, TInv, TypeOK
  <2>. QED
    BY <2>1, MarkIsLarger DEF DoDequeue
<1>. QED
  BY <1>1, TypeInvariant, PTL DEF Spec, MarkIsWorst

-----------------------------------------------------------------------------
(* The window at the moment the load is computed, when the attributes have *)
(* the values the constructor scheduled the timers with.  Until the window *)
(* is full the time since the start and the time to the next sample add up *)
(* to one sampling period per sample held.                                 *)

Defaults == CtorTimeInterval = TimeInterval /\ CtorSampleInterval = SampleInterval

Filling ==
    \/ Len(recentQueueSizes) = Window
    \/ /\ ~initialized
    \/ (TimeInterval - loadTimer) + sampleTimer
          = Len(recentQueueSizes) * SampleInterval

WInv ==
    /\ TInv
    /\ Filling
    /\ elapsed + loadTimer = TimeInterval

\* When the interval is over the window is full.
LEMMA FullAtInterval == WInv => WindowIsInterval
<1>0. WInv /\ loadTimer = 0 => elapsed = TimeInterval
  BY DEF WInv, TInv, TypeOK
<1>. SUFFICES ASSUME WInv, loadTimer = 0, Len(recentQueueSizes) # Window
              PROVE  FALSE
  BY <1>0 DEF WindowIsInterval
<1>. DEFINE n == Len(recentQueueSizes)
<1>1. n \in Nat /\ sampleTimer \in Nat /\ n <= Window - 1 /\ Window \in Nat
  BY WindowBounds DEF WInv, TInv, TypeOK
<1>2. TimeInterval + sampleTimer = n * SampleInterval
  BY TimerAssumption DEF WInv, TInv, FreshWindow, Filling
<1>. HIDE DEF n
<1>3. SampleInterval \in Nat \ {0} /\ TimeInterval \in Nat
  BY TimerAssumption
<1>4. n * SampleInterval <= (Window - 1) * SampleInterval
  BY <1>1, <1>3
<1>5. (Window - 1) * SampleInterval = Window * SampleInterval - SampleInterval
  BY <1>1, <1>3
<1>6. Window * SampleInterval \in Nat /\ n * SampleInterval \in Nat
  BY <1>1, <1>3
<1>. QED
  BY <1>1, <1>2, <1>3, <1>4, <1>5, <1>6, WindowBounds

\* Every step keeps the account of the samples.
LEMMA FillingStep == Defaults /\ WInv /\ [Next]_vars => WInv'
<1>. SUFFICES ASSUME Defaults, WInv, [Next]_vars PROVE WInv'
  OBVIOUS
<1>t. TInv' /\ TInv
  BY TypeStep DEF WInv
<1>i. /\ SampleInterval \in Nat \ {0} /\ TimeInterval \in Nat \ {0}
      /\ sampleTimer \in Nat /\ loadTimer \in Nat
      /\ Len(recentQueueSizes) \in Nat
      /\ Len(recentQueueSizes) <= Window /\ Window \in Nat \ {0}
  BY <1>t, TimerAssumption, WindowBounds DEF TInv, TypeOK, Larger
<1>1. CASE InitializeParams
  <2>1. recentQueueSizes' = <<0>>
    BY <1>1, <1>t DEF InitializeParams, TInv, FreshWindow
  <2>2. sampleTimer' = SampleInterval /\ loadTimer' = TimeInterval
    BY <1>1, <1>t DEF InitializeParams, TInv, FreshWindow, Defaults
  <2>3. Filling'
    BY <2>1, <2>2, <1>i DEF Filling
  <2>. QED
    BY <1>1, <1>t, <2>3 DEF WInv, InitializeParams
<1>2. ASSUME NEW tag \in Incoming, DoEnqueue(tag) PROVE WInv'
  BY <1>2, <1>t DEF DoEnqueue, WInv, Filling
<1>3. CASE DoDequeue
  BY <1>3, <1>t DEF DoDequeue, WInv, Filling
<1>4. CASE SampleQueueSize
  <2>1. initialized
    BY <1>4, <1>t, TimerAssumption DEF SampleQueueSize, TInv, FreshWindow
  <2>0. Len(queue) \in Nat /\ recentQueueSizes \in Seq(0..MaxSize)
    BY <1>t DEF TInv, TypeOK
  <2>2. CASE Len(recentQueueSizes) >= Window
    <3>1. Len(recentQueueSizes') = Window
      <4>1. Len(recentQueueSizes) = Window /\ recentQueueSizes # <<>>
        BY <2>2, <1>i
      <4>2. recentQueueSizes' = Append(Tail(recentQueueSizes), Len(queue))
        BY <1>4, <2>2 DEF SampleQueueSize
      <4>. QED
        BY <4>1, <4>2, <2>0, <1>i
    <3>. QED
      BY <3>1, <1>t, <2>1, <1>4 DEF WInv, Filling, SampleQueueSize
  <2>3. CASE ~(Len(recentQueueSizes) >= Window)
    <3>1. Len(recentQueueSizes') = Len(recentQueueSizes) + 1
      BY <1>4, <2>3, <2>0 DEF SampleQueueSize
    <3>2. TimeInterval - loadTimer = Len(recentQueueSizes) * SampleInterval
      BY <2>1, <2>3, <1>4, <1>i DEF WInv, Filling, SampleQueueSize
    <3>3. (Len(recentQueueSizes) + 1) * SampleInterval
            = Len(recentQueueSizes) * SampleInterval + SampleInterval
      BY <1>i
    <3>4. Filling'
      BY <1>4, <3>1, <3>2, <3>3, <1>i DEF Filling, SampleQueueSize
    <3>. QED
      BY <3>4, <1>t, <1>4, <2>1 DEF WInv, SampleQueueSize
  <2>. QED
    BY <2>2, <2>3
<1>5. CASE CalcLoadFactor
  <2>1. Len(recentQueueSizes) = Window
    BY <1>5, FullAtInterval DEF CalcLoadFactor, WindowIsInterval
  <2>. QED
    BY <1>5, <2>1, <1>t, <1>i DEF CalcLoadFactor, WInv, Filling
<1>6. CASE Tick
  <2>1. (TimeInterval - loadTimer') + sampleTimer'
          = (TimeInterval - loadTimer) + sampleTimer
    BY <1>6, <1>i DEF Tick
  <2>2. elapsed' + loadTimer' = TimeInterval
    BY <1>6, <1>i, <1>t DEF Tick, WInv, TInv, TypeOK
  <2>. QED
    BY <1>6, <2>1, <2>2, <1>t DEF Tick, WInv, Filling
<1>7. CASE UNCHANGED vars
  BY <1>7, <1>t DEF vars, WInv, Filling
<1>. QED
  BY <1>1, <1>2, <1>3, <1>4, <1>5, <1>6, <1>7 DEF Next

\* Every load is computed over exactly one interval of arrivals and samples, the first
\* one included, provided the attributes keep their default values.
THEOREM LoadOverWholeInterval ==
    ASSUME Defaults
    PROVE  Spec => []WindowIsInterval
<1>1. Init => WInv
  BY TypeInit, TimerAssumption DEF Init, WInv, Filling, Defaults
<1>2. WInv /\ [Next]_vars => WInv'
  BY FillingStep
<1>. QED
  BY <1>1, <1>2, FullAtInterval, PTL DEF Spec

-----------------------------------------------------------------------------
(* The running sum.                                                        *)

SumInv == TInv /\ SumIsWindow

\* A sample moves into the window, and out of a full one its oldest sample moves:
\* what is subtracted is a part of the sum, so that the difference is not negative.
LEMMA SumStep == SumInv /\ [Next]_vars => SumInv'
<1> SUFFICES ASSUME SumInv, [Next]_vars PROVE SumInv'
  OBVIOUS
<1>1. TInv /\ TInv' /\ qsizesSum = SumSeq(recentQueueSizes)
  BY TypeStep DEF SumInv, SumIsWindow
<1>2. recentQueueSizes \in Seq(Int) /\ Len(queue) \in Int
  <2>1. 0..MaxSize \subseteq Int /\ recentQueueSizes \in Seq(0..MaxSize) /\ queue \in Seq(Incoming)
    BY <1>1, SizeAssumption DEF TInv, TypeOK
  <2>2. recentQueueSizes \in Seq(Int)
    BY <2>1, SeqMonotonic
  <2> QED
    BY <2>1, <2>2
<1>3. CASE InitializeParams
  <2>1. recentQueueSizes = <<>> /\ <<>> \in Seq(Int) /\ 0 \in Int
    BY <1>1, <1>3 DEF InitializeParams, TInv, FreshWindow
  <2>2. SumSeq(Append(<<>>, 0)) = SumSeq(<<>>) + 0
    BY <2>1, SumAppend
  <2> QED
    BY <1>1, <1>3, <2>1, <2>2, SumEmpty DEF InitializeParams, SumInv, SumIsWindow
<1>4. CASE SampleQueueSize
  <2>1. CASE Len(recentQueueSizes) >= Window
    <3> DEFINE kept == Tail(recentQueueSizes)
    <3>1. recentQueueSizes # <<>>
      BY <2>1, WindowBounds
    <3>2. /\ kept \in Seq(Int) /\ Head(recentQueueSizes) \in Int
          /\ qsizesSum = Head(recentQueueSizes) + SumSeq(kept)
      BY <1>1, <1>2, <3>1, SumTail, HeadTailProperties
    <3>3. SumSeq(kept) \in Int /\ SumSeq(Append(kept, Len(queue))) = SumSeq(kept) + Len(queue)
      BY <1>2, <3>2, SumType, SumAppend
    <3>4. /\ recentQueueSizes' = Append(kept, Len(queue))
          /\ qsizesSum' = qsizesSum - Head(recentQueueSizes) + Len(queue)
      BY <1>4, <2>1 DEF SampleQueueSize
    <3> HIDE DEF kept
    <3>5. qsizesSum' = SumSeq(kept) + Len(queue)
      BY <1>2, <3>2, <3>3, <3>4
    <3> QED
      BY <1>1, <3>3, <3>4, <3>5 DEF SumInv, SumIsWindow
  <2>2. CASE ~(Len(recentQueueSizes) >= Window)
    <3>1. /\ recentQueueSizes' = Append(recentQueueSizes, Len(queue))
          /\ qsizesSum' = qsizesSum + Len(queue)
      BY <1>4, <2>2 DEF SampleQueueSize
    <3>2. SumSeq(Append(recentQueueSizes, Len(queue))) = SumSeq(recentQueueSizes) + Len(queue)
      BY <1>2, SumAppend
    <3> QED
      BY <1>1, <3>1, <3>2 DEF SumInv, SumIsWindow
  <2> QED
    BY <2>1, <2>2
<1>5. CASE UNCHANGED <<recentQueueSizes, qsizesSum>>
  BY <1>1, <1>5 DEF SumInv, SumIsWindow
<1> QED
  BY <1>3, <1>4, <1>5 DEF Next, DoEnqueue, DoDequeue, CalcLoadFactor, Tick, vars

\* The running sum is the sum of the window for every length of the window and
\* through every rollover; samples are not negative, so it never wraps below zero.
THEOREM SumOfWindow == Spec => [](SumIsWindow /\ qsizesSum \in Nat)
<1>1. Init => SumInv
  BY TypeInit, SumEmpty DEF Init, SumInv, SumIsWindow
<1>2. SumInv => SumIsWindow /\ qsizesSum \in Nat
  <2>1. SumInv => recentQueueSizes \in Seq(Nat)
    <3>1. 0..MaxSize \subseteq Nat
      BY SizeAssumption
    <3> QED
      BY <3>1, SeqMonotonic, Zenon DEF SumInv, TInv, TypeOK
  <2> QED
    BY <2>1, SumNat DEF SumInv, SumIsWindow
<1> QED
  BY <1>1, <1>2, SumStep, PTL DEF Spec
=============================================================================
