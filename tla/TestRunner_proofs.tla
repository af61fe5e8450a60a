-------------------------- MODULE TestRunner_proofs --------------------------
(***************************************************************************)
(* Proofs about TestRunner for any number of jobs, of worker threads and   *)
(* of threads that die.  A job moves from the input queue to a worker, to  *)
(* the output queue and to the main thread; the lemmas say what each queue *)
(* operation does to the set of jobs in a place, and the invariant counts. *)
(***************************************************************************)
EXTENDS TestRunner, FiniteSetTheorems, SequenceTheorems, TLAPS

(* A worker thread has a job exactly from input_queue to output_queue.     *)
Thread == [at : {"idle", "taken", "running", "returned", "raised"},
           job : Jobs \cup {Break}]

Consistent(r) == r.job = Break <=> r.at \in {"idle", "returned"}

WorkerType == worker \in [Workers -> Thread] /\ \A w \in Workers : Consistent(worker[w])

(* The types the proofs need.                                             *)
Shape ==
    /\ jobs \in 0..NumJobs /\ collected \in Nat
    /\ inputQueue \in Seq(Jobs \cup {Break})
    /\ outputQueue \in Seq([job : Jobs, brk : BOOLEAN])
    /\ WorkerType
    /\ ended \in [Jobs -> Endings \cup {NotEnded}]
    /\ status \in [Jobs -> Statuses]

(* No job is twice in a queue or with two workers.                         *)
QueuedOnce ==
    \A i, k \in 1..Len(inputQueue) :
        inputQueue[i] = inputQueue[k] => i = k \/ inputQueue[i] = Break
ReportedOnce ==
    \A i, k \in 1..Len(outputQueue) :
        outputQueue[i].job = outputQueue[k].job => i = k
HeldOnce ==
    \A v, w \in Workers : worker[v].job = worker[w].job => v = w \/ worker[v].job = Break

(* The places do not share a job, and only dispatched jobs are in them.    *)
Apart == Reported \cap Held = {} /\ Held \cap Queued = {} /\ Reported \cap Queued = {}
Dispatched == \A j \in Queued \cup Held \cup Reported : j <= jobs

Counted ==
    /\ jobs = collected + Len(outputQueue) + Cardinality(Held) + Cardinality(Queued)
    /\ Cardinality(Reported) = Len(outputQueue)

Places == QueuedOnce /\ ReportedOnce /\ HeldOnce /\ Apart /\ Dispatched /\ Counted

(* A result that has been collected is final.                              *)
Final ==
    \A j \in Jobs :
        /\ status[j] # "none" => j <= jobs /\ j \notin Queued \cup Held \cup Reported
        /\ status[j] = "PASS" => ended[j].code = 0
        /\ status[j] = "SKIP" => j \in skip

Judged ==
    /\ main # "dispatch" => jobs = NumJobs
    /\ main = "success" => ExitCode = 0

RunInv == Shape /\ Places /\ Final /\ Judged

-----------------------------------------------------------------------------
(* The sets of jobs.                                                       *)

LEMMA JobsFinite ==
    /\ IsFiniteSet(Jobs) /\ Cardinality(Jobs) = NumJobs /\ Break \notin Jobs
    /\ IsFiniteSet(Queued) /\ IsFiniteSet(Held) /\ IsFiniteSet(Reported)
<1>1. IsFiniteSet(1..NumJobs) /\ Cardinality(1..NumJobs) = NumJobs
  <2>1. /\ IsFiniteSet(1..NumJobs)
        /\ Cardinality(1..NumJobs) = IF 1 > NumJobs THEN 0 ELSE NumJobs - 1 + 1
    BY JobAssumption, FS_Interval
  <2> QED
    BY <2>1, JobAssumption
<1>2. Queued \in SUBSET Jobs /\ Held \in SUBSET Jobs /\ Reported \in SUBSET Jobs
  BY DEF Queued, Held, Reported
<1>3. Break \notin Jobs
  BY JobAssumption DEF Jobs, Break
<1> QED
  BY <1>1, <1>2, <1>3, FS_Subset DEF Jobs

\* Cardinalities when a job comes to a place and when it leaves it.
LEMMA Come ==
    ASSUME NEW S, IsFiniteSet(S), NEW j, j \notin S
    PROVE  Cardinality(S \cup {j}) = Cardinality(S) + 1 /\ Cardinality(S) \in Nat
BY FS_AddElement, FS_CardinalityType

LEMMA Go ==
    ASSUME NEW S, IsFiniteSet(S), NEW j, j \in S
    PROVE  Cardinality(S \ {j}) = Cardinality(S) - 1 /\ Cardinality(S) \in Nat
BY FS_RemoveElement, FS_CardinalityType

-----------------------------------------------------------------------------
(* What the operations on the queues do to the sets of jobs.               *)

LEMMA InputPut ==
    ASSUME Shape, QueuedOnce, NEW x \in Jobs \cup {Break}, x \notin Queued,
           inputQueue' = Append(inputQueue, x)
    PROVE  /\ inputQueue' \in Seq(Jobs \cup {Break}) /\ QueuedOnce'
           /\ Queued' = IF x = Break THEN Queued ELSE Queued \cup {x}
<1>1. /\ inputQueue' \in Seq(Jobs \cup {Break})
      /\ Len(inputQueue') = Len(inputQueue) + 1 /\ Len(inputQueue) \in Nat
      /\ inputQueue'[Len(inputQueue) + 1] = x
      /\ \A i \in 1..Len(inputQueue) : inputQueue'[i] = inputQueue[i]
  BY AppendProperties DEF Shape
<1>2. \A j \in Jobs : j \in Queued <=> \E i \in 1..Len(inputQueue) : inputQueue[i] = j
  BY DEF Queued, ToSet, Shape
<1>3. \A j \in Jobs : j \in Queued' <=> \E i \in 1..Len(inputQueue') : inputQueue'[i] = j
  BY <1>1 DEF Queued, ToSet
<1>4. \A i \in 1..Len(inputQueue) : inputQueue[i] = x => x = Break
  BY <1>2
<1>5. QueuedOnce'
  BY <1>1, <1>4 DEF QueuedOnce
<1>6. \A j \in Jobs : j \in Queued' <=> j \in Queued \/ j = x
  BY <1>1, <1>2, <1>3
<1> QED
  BY <1>1, <1>5, <1>6, JobsFinite DEF Queued

LEMMA InputGet ==
    ASSUME Shape, QueuedOnce, inputQueue # <<>>, inputQueue' = Tail(inputQueue)
    PROVE  /\ Head(inputQueue) \in Jobs \cup {Break}
           /\ Head(inputQueue) # Break => Head(inputQueue) \in Queued
           /\ inputQueue' \in Seq(Jobs \cup {Break}) /\ QueuedOnce'
           /\ Queued' = Queued \ {Head(inputQueue)}
<1>1. /\ inputQueue' \in Seq(Jobs \cup {Break})
      /\ Len(inputQueue') = Len(inputQueue) - 1 /\ Len(inputQueue) \in Nat \ {0}
      /\ Head(inputQueue) = inputQueue[1] /\ Head(inputQueue) \in Jobs \cup {Break}
      /\ \A i \in 1..Len(inputQueue') : inputQueue'[i] = inputQueue[i + 1]
  BY HeadTailProperties DEF Shape
<1>2. \A j \in Jobs : j \in Queued <=> \E i \in 1..Len(inputQueue) : inputQueue[i] = j
  BY DEF Queued, ToSet, Shape
<1>3. \A j \in Jobs : j \in Queued' <=> \E i \in 1..Len(inputQueue') : inputQueue'[i] = j
  <2>1. DOMAIN inputQueue' = 1..Len(inputQueue')
    BY <1>1, LenProperties
  <2> QED
    BY <2>1, Zenon DEF Queued, ToSet
<1>4. QueuedOnce'
  BY <1>1 DEF QueuedOnce
<1>5. \A j \in Jobs : j \in Queued' => j \in Queued /\ j # Head(inputQueue)
  BY <1>1, <1>2, <1>3, JobsFinite DEF QueuedOnce
<1>6. \A j \in Jobs : j \in Queued /\ j # Head(inputQueue) => j \in Queued'
  <2> SUFFICES ASSUME NEW j \in Jobs, j \in Queued, j # Head(inputQueue)
               PROVE  \E i \in 1..Len(inputQueue') : inputQueue'[i] = j
    BY <1>3
  <2>1. PICK i \in 1..Len(inputQueue) : inputQueue[i] = j
    BY <1>2
  <2>2. i - 1 \in 1..Len(inputQueue') /\ inputQueue'[i - 1] = j
    BY <1>1, <2>1
  <2> QED
    BY <2>2
<1>7. Head(inputQueue) # Break => Head(inputQueue) \in Queued
  BY <1>1, <1>2
<1> QED
  BY <1>1, <1>4, <1>5, <1>6, <1>7 DEF Queued

LEMMA OutputPut ==
    ASSUME Shape, ReportedOnce, NEW j \in Jobs, j \notin Reported, NEW brk \in BOOLEAN,
           outputQueue' = Append(outputQueue, [job |-> j, brk |-> brk])
    PROVE  /\ outputQueue' \in Seq([job : Jobs, brk : BOOLEAN]) /\ ReportedOnce'
           /\ Reported' = Reported \cup {j}
           /\ Len(outputQueue') = Len(outputQueue) + 1 /\ Len(outputQueue) \in Nat
<1> DEFINE r == [job |-> j, brk |-> brk]
<1>1. r \in [job : Jobs, brk : BOOLEAN] /\ r.job = j
  OBVIOUS
<1> HIDE DEF r
<1>2. /\ outputQueue' \in Seq([job : Jobs, brk : BOOLEAN])
      /\ Len(outputQueue') = Len(outputQueue) + 1 /\ Len(outputQueue) \in Nat
      /\ outputQueue'[Len(outputQueue) + 1] = r
      /\ \A i \in 1..Len(outputQueue) : outputQueue'[i] = outputQueue[i]
  BY <1>1, AppendProperties DEF Shape, r
<1>3. \A i \in 1..Len(outputQueue) : outputQueue[i].job # j
  BY DEF Reported
<1>4. ReportedOnce'
  BY <1>1, <1>2, <1>3 DEF ReportedOnce
<1>5. \A k \in Jobs : k \in Reported' <=> k \in Reported \/ k = j
  BY <1>1, <1>2 DEF Reported
<1> QED
  BY <1>2, <1>4, <1>5 DEF Reported

LEMMA OutputGet ==
    ASSUME Shape, ReportedOnce, outputQueue # <<>>, outputQueue' = Tail(outputQueue)
    PROVE  /\ Head(outputQueue).job \in Reported
           /\ outputQueue' \in Seq([job : Jobs, brk : BOOLEAN]) /\ ReportedOnce'
           /\ Reported' = Reported \ {Head(outputQueue).job}
           /\ Len(outputQueue') = Len(outputQueue) - 1 /\ Len(outputQueue) \in Nat
<1>1. /\ outputQueue' \in Seq([job : Jobs, brk : BOOLEAN])
      /\ Len(outputQueue') = Len(outputQueue) - 1 /\ Len(outputQueue) \in Nat \ {0}
      /\ Head(outputQueue) = outputQueue[1]
      /\ Head(outputQueue) \in [job : Jobs, brk : BOOLEAN]
      /\ \A i \in 1..Len(outputQueue') : outputQueue'[i] = outputQueue[i + 1]
  <2> DEFINE Result == [job : Jobs, brk : BOOLEAN]
  <2>1. outputQueue \in Seq(Result)
    BY DEF Shape
  <2> HIDE DEF Result
  <2>2. /\ outputQueue' \in Seq(Result)
        /\ Len(outputQueue') = Len(outputQueue) - 1 /\ Len(outputQueue) \in Nat \ {0}
        /\ Head(outputQueue) = outputQueue[1] /\ Head(outputQueue) \in Result
        /\ \A i \in 1..Len(outputQueue') : outputQueue'[i] = outputQueue[i + 1]
    BY <2>1, HeadTailProperties
  <2> QED
    BY <2>2 DEF Result
<1>2. Head(outputQueue).job \in Jobs
  BY <1>1
<1>3. ReportedOnce'
  BY <1>1 DEF ReportedOnce
<1>4. \A j \in Jobs : j \in Reported' => j \in Reported /\ j # Head(outputQueue).job
  BY <1>1 DEF Reported, ReportedOnce
<1>5. \A j \in Jobs : j \in Reported /\ j # Head(outputQueue).job => j \in Reported'
  <2> SUFFICES ASSUME NEW j \in Jobs, j \in Reported, j # Head(outputQueue).job
               PROVE  \E i \in 1..Len(outputQueue') : outputQueue'[i].job = j
    BY DEF Reported
  <2>1. PICK i \in 1..Len(outputQueue) : outputQueue[i].job = j
    BY DEF Reported
  <2>2. i - 1 \in 1..Len(outputQueue') /\ outputQueue'[i - 1].job = j
    BY <1>1, <2>1
  <2> QED
    BY <2>2
<1>6. Head(outputQueue).job \in Reported
  BY <1>1, <1>2 DEF Reported
<1> QED
  BY <1>1, <1>3, <1>4, <1>5, <1>6 DEF Reported

\* A worker changes its place and its job; the other workers are left alone.
LEMMA WorkerMoves ==
    ASSUME WorkerType, NEW w \in Workers, NEW r \in Thread, Consistent(r),
           worker' = [worker EXCEPT ![w] = r]
    PROVE  /\ WorkerType' /\ worker'[w] = r
           /\ \A v \in Workers : v # w => worker'[v] = worker[v]
BY DEF WorkerType

\* A worker takes a job.
LEMMA HeldComes ==
    ASSUME HeldOnce, NEW w \in Workers, worker[w].job = Break,
           NEW j \in Jobs, j \notin Held, worker'[w].job = j,
           \A v \in Workers : v # w => worker'[v] = worker[v]
    PROVE  HeldOnce' /\ Held' = Held \cup {j}
<1>1. \A v \in Workers : worker[v].job # j
  BY DEF Held
<1>2. HeldOnce'
  BY <1>1 DEF HeldOnce
<1>3. \A k \in Jobs : k \in Held' <=> k \in Held \/ k = j
  BY JobsFinite DEF Held
<1> QED
  BY <1>2, <1>3 DEF Held

\* A worker gives its job back.
LEMMA HeldGoes ==
    ASSUME HeldOnce, NEW w \in Workers, worker[w].job \in Jobs, worker'[w].job = Break,
           \A v \in Workers : v # w => worker'[v] = worker[v]
    PROVE  HeldOnce' /\ Held' = Held \ {worker[w].job} /\ worker[w].job \in Held
<1>1. worker[w].job # Break
  BY JobsFinite
<1>2. \A v \in Workers : v # w => worker[v].job # worker[w].job
  BY <1>1 DEF HeldOnce
<1>3. HeldOnce'
  BY DEF HeldOnce
<1>4. \A k \in Jobs : k \in Held' <=> k \in Held /\ k # worker[w].job
  BY <1>2, JobsFinite DEF Held
<1> QED
  BY <1>3, <1>4 DEF Held

\* A worker keeps its job, or has none before and after.
LEMMA HeldStays ==
    ASSUME HeldOnce, NEW w \in Workers, worker'[w].job = worker[w].job,
           \A v \in Workers : v # w => worker'[v] = worker[v]
    PROVE  HeldOnce' /\ Held' = Held
<1>1. \A v \in Workers : worker'[v].job = worker[v].job
  OBVIOUS
<1> QED
  BY <1>1 DEF HeldOnce, Held

-----------------------------------------------------------------------------
(* What the steps of a worker do.                                          *)

\* A step of a worker dispatches and collects nothing.
CountsKept == UNCHANGED <<jobs, collected>>

LEMMA ReportStep ==
    ASSUME Shape, Places, NEW w \in Workers, worker[w].at \in {"taken", "running"},
           NEW brk \in BOOLEAN, Report(w, brk), UNCHANGED inputQueue, CountsKept
    PROVE  /\ outputQueue' \in Seq([job : Jobs, brk : BOOLEAN])
           /\ WorkerType' /\ Places'
           /\ Queued' \cup Held' \cup Reported' = Queued \cup Held \cup Reported
<1> DEFINE j == worker[w].job
<1>1. WorkerType
  BY DEF Shape
<1>2. j \in Jobs
  BY <1>1, JobsFinite DEF WorkerType, Thread, Consistent
<1>3. /\ outputQueue' = Append(outputQueue, [job |-> j, brk |-> brk])
      /\ worker' = [worker EXCEPT ![w] = [at |-> "idle", job |-> Break]]
  BY DEF Report
<1>4. /\ WorkerType' /\ worker'[w].job = Break
      /\ \A v \in Workers : v # w => worker'[v] = worker[v]
  <2> DEFINE r == [at |-> "idle", job |-> Break]
  <2>1. r \in Thread /\ Consistent(r) /\ r.job = Break
    BY DEF Thread, Consistent
  <2> HIDE DEF r
  <2> QED
    BY <1>1, <1>3, <2>1, WorkerMoves DEF r
<1>5. HeldOnce' /\ Held' = Held \ {j} /\ j \in Held
  BY <1>2, <1>4, HeldGoes DEF Places
<1>6. Queued' = Queued /\ QueuedOnce'
  BY DEF Queued, QueuedOnce, Places
<1> HIDE DEF j
<1>7. j \notin Reported
  BY <1>5 DEF Places, Apart
<1>8. /\ outputQueue' \in Seq([job : Jobs, brk : BOOLEAN]) /\ ReportedOnce'
      /\ Reported' = Reported \cup {j}
      /\ Len(outputQueue') = Len(outputQueue) + 1 /\ Len(outputQueue) \in Nat
  BY <1>2, <1>3, <1>7, OutputPut DEF Places
<1>9. Apart' /\ Dispatched'
  BY <1>5, <1>6, <1>8 DEF Places, Apart, Dispatched, CountsKept
<1>10. Counted'
  <2>1. /\ Cardinality(Held') = Cardinality(Held) - 1 /\ Cardinality(Held) \in Nat
        /\ Cardinality(Reported') = Cardinality(Reported) + 1
        /\ Cardinality(Reported) \in Nat /\ Cardinality(Queued) \in Nat
    BY <1>5, <1>7, <1>8, JobsFinite, Come, Go, FS_CardinalityType
  <2> QED
    BY <2>1, <1>6, <1>8 DEF Places, Counted, CountsKept, Shape
<1> QED
  BY <1>4, <1>5, <1>6, <1>8, <1>9, <1>10 DEF Places

\* The worker goes on with its job, or dies with it.
LEMMA StayStep ==
    ASSUME Shape, Places, NEW w \in Workers, worker[w].at \in {"taken", "running"},
           NEW a \in {"running", "raised"}, worker' = [worker EXCEPT ![w].at = a],
           UNCHANGED <<inputQueue, outputQueue>>, CountsKept
    PROVE  /\ WorkerType' /\ Places'
           /\ Queued' = Queued /\ Held' = Held /\ Reported' = Reported
<1>1. WorkerType /\ worker[w].job \in Jobs /\ worker[w].job # Break
  BY JobsFinite DEF Shape, WorkerType, Thread, Consistent
<1>2. /\ WorkerType' /\ worker'[w].job = worker[w].job
      /\ \A v \in Workers : v # w => worker'[v] = worker[v]
  <2> DEFINE r == [worker[w] EXCEPT !.at = a]
  <2>1. r \in Thread /\ Consistent(r) /\ r.job = worker[w].job
    BY <1>1 DEF WorkerType, Thread, Consistent
  <2>2. worker' = [worker EXCEPT ![w] = r]
    BY Zenon
  <2> HIDE DEF r
  <2> QED
    BY <1>1, <2>1, <2>2, WorkerMoves
<1>3. HeldOnce' /\ Held' = Held
  BY <1>2, HeldStays DEF Places
<1>4. /\ Queued' = Queued /\ QueuedOnce' /\ Reported' = Reported /\ ReportedOnce'
      /\ Len(outputQueue') = Len(outputQueue)
  BY DEF Queued, QueuedOnce, Reported, ReportedOnce, Places
<1>5. Apart' /\ Dispatched' /\ Counted'
  BY <1>3, <1>4 DEF Places, Apart, Dispatched, Counted, CountsKept
<1> QED
  BY <1>2, <1>3, <1>4, <1>5 DEF Places

\* A job, or the end of the thread, is taken from input_queue.
LEMMA TakeStep ==
    ASSUME RunInv, NEW w \in Workers, Take(w)
    PROVE  RunInv'
<1> DEFINE j == Head(inputQueue)
           r == IF j = Break THEN [at |-> "returned", job |-> Break]
                ELSE [at |-> "taken", job |-> j]
<1>1. /\ worker[w].at = "idle" /\ inputQueue # <<>> /\ inputQueue' = Tail(inputQueue)
      /\ worker' = [worker EXCEPT ![w] = r]
      /\ UNCHANGED <<skip, main, jobs, outputQueue, ended, collected, status>>
  BY Zenon DEF Take
<1>2. Shape /\ QueuedOnce /\ HeldOnce /\ WorkerType
  BY DEF RunInv, Places, Shape
<1>3. /\ j \in Jobs \cup {Break} /\ (j # Break => j \in Queued)
      /\ inputQueue' \in Seq(Jobs \cup {Break}) /\ QueuedOnce'
      /\ Queued' = Queued \ {j}
  BY <1>1, <1>2, InputGet
<1> HIDE DEF j
<1>4. /\ r \in Thread /\ Consistent(r) /\ r.job = j
      /\ worker[w].job = Break
  BY <1>1, <1>2, <1>3 DEF Thread, Consistent, WorkerType
<1> HIDE DEF r
<1>5. /\ WorkerType' /\ worker'[w].job = j
      /\ \A v \in Workers : v # w => worker'[v] = worker[v]
  BY <1>1, <1>2, <1>4, WorkerMoves
<1>6. Reported' = Reported /\ ReportedOnce' /\ Len(outputQueue') = Len(outputQueue)
  BY <1>1 DEF Reported, ReportedOnce, RunInv, Places
<1>7. Shape'
  BY <1>1, <1>3, <1>5 DEF RunInv, Shape
<1>8. CASE j = Break
  <2>1. HeldOnce' /\ Held' = Held
    BY <1>2, <1>4, <1>5, <1>8, HeldStays
  <2>2. Queued' = Queued
    BY <1>3, <1>8, JobsFinite DEF Queued
  <2>3. Places'
    BY <1>1, <1>3, <1>6, <2>1, <2>2
      DEF RunInv, Places, Apart, Dispatched, Counted
  <2>4. Final' /\ Judged'
    BY <1>1, <1>6, <2>1, <2>2 DEF RunInv, Final, Judged, ExitCode
  <2> QED
    BY <1>7, <2>3, <2>4 DEF RunInv
<1>9. CASE j # Break
  <2>1. j \in Jobs /\ j \in Queued /\ j \notin Held
    BY <1>3, <1>9 DEF RunInv, Places, Apart
  <2>2. HeldOnce' /\ Held' = Held \cup {j}
    BY <1>2, <1>4, <1>5, <2>1, HeldComes
  <2>3. /\ Cardinality(Held') = Cardinality(Held) + 1 /\ Cardinality(Held) \in Nat
        /\ Cardinality(Queued') = Cardinality(Queued) - 1 /\ Cardinality(Queued) \in Nat
    BY <1>3, <2>1, <2>2, JobsFinite, Come, Go
  <2>4. Counted'
    BY <1>1, <1>6, <2>3, LenProperties DEF RunInv, Places, Counted, Shape
  <2>5. Apart' /\ Dispatched'
    BY <1>1, <1>3, <1>6, <2>1, <2>2 DEF RunInv, Places, Apart, Dispatched
  <2>6. Places'
    BY <1>3, <1>6, <2>2, <2>4, <2>5 DEF Places
  <2>7. Queued' \cup Held' \cup Reported' = Queued \cup Held \cup Reported
    BY <1>3, <1>6, <2>1, <2>2
  <2>8. Final' /\ Judged'
    BY <1>1, <2>7 DEF RunInv, Final, Judged, ExitCode
  <2> QED
    BY <1>7, <2>6, <2>8 DEF RunInv
<1> QED
  BY <1>8, <1>9

\* Steps of a worker with a job in its hands.
LEMMA LookStep ==
    ASSUME RunInv, NEW w \in Workers, LookAtJob(w) \/ RaiseInJob(w)
    PROVE  RunInv'
<1>1. /\ worker[w].at \in {"taken", "running"}
      /\ UNCHANGED <<skip, main, jobs, inputQueue, ended, collected, status>>
      /\ \/ Report(w, TRUE) \/ Report(w, FALSE)
         \/ /\ \/ worker' = [worker EXCEPT ![w].at = "running"]
               \/ worker' = [worker EXCEPT ![w].at = "raised"]
            /\ UNCHANGED outputQueue
  BY Zenon DEF LookAtJob, RaiseInJob
<1>2. /\ outputQueue' \in Seq([job : Jobs, brk : BOOLEAN])
      /\ WorkerType' /\ Places'
      /\ Queued' \cup Held' \cup Reported' = Queued \cup Held \cup Reported
  <2>1. CASE Report(w, TRUE) \/ Report(w, FALSE)
    BY <1>1, <2>1, ReportStep DEF RunInv, CountsKept
  <2>2. CASE worker' = [worker EXCEPT ![w].at = "running"] /\ UNCHANGED outputQueue
    BY <1>1, <2>2, StayStep DEF RunInv, CountsKept, Shape
  <2>3. CASE worker' = [worker EXCEPT ![w].at = "raised"] /\ UNCHANGED outputQueue
    BY <1>1, <2>3, StayStep DEF RunInv, CountsKept, Shape
  <2> QED
    BY <1>1, <2>1, <2>2, <2>3
<1>3. Shape'
  BY <1>1, <1>2 DEF RunInv, Shape
<1>4. Final' /\ Judged'
  BY <1>1, <1>2 DEF RunInv, Final, Judged, ExitCode
<1> QED
  BY <1>2, <1>3, <1>4 DEF RunInv

\* The child process ends while its job is still with the worker: no result of it
\* has been collected.
LEMMA EndStep ==
    ASSUME RunInv, NEW w \in Workers, EndJob(w)
    PROVE  RunInv'
<1> DEFINE j == worker[w].job
<1>1. /\ worker[w].at = "running" /\ Report(w, FALSE)
      /\ UNCHANGED <<skip, main, jobs, inputQueue, collected, status>>
      /\ \E e \in Endings : ended' = [ended EXCEPT ![j] = e]
  BY Zenon DEF EndJob
<1>2. /\ outputQueue' \in Seq([job : Jobs, brk : BOOLEAN])
      /\ WorkerType' /\ Places'
      /\ Queued' \cup Held' \cup Reported' = Queued \cup Held \cup Reported
  BY <1>1, ReportStep DEF RunInv, CountsKept
<1>3. j \in Jobs /\ j \in Held
  BY <1>1, JobsFinite DEF RunInv, Shape, WorkerType, Thread, Consistent, Held
<1> HIDE DEF j
<1>4. ended' \in [Jobs -> Endings \cup {NotEnded}]
  BY <1>1 DEF RunInv, Shape
<1>5. \A k \in Jobs : k # j => ended'[k] = ended[k]
  BY <1>1 DEF RunInv, Shape
<1>6. status[j] = "none"
  BY <1>3 DEF RunInv, Final
<1>7. Final'
  BY <1>1, <1>2, <1>5, <1>6 DEF RunInv, Final
<1>8. Shape' /\ Judged'
  BY <1>1, <1>2, <1>4 DEF RunInv, Shape, Judged, ExitCode
<1> QED
  BY <1>2, <1>7, <1>8 DEF RunInv

-----------------------------------------------------------------------------
(* What the steps of the main thread do.                                   *)

\* The workers and the output queue of a step that leaves them alone.
LEMMA OthersKept ==
    ASSUME Places, UNCHANGED <<worker, outputQueue>>
    PROVE  /\ Held' = Held /\ HeldOnce'
           /\ Reported' = Reported /\ ReportedOnce' /\ Len(outputQueue') = Len(outputQueue)
BY DEF Places, Held, HeldOnce, Reported, ReportedOnce

LEMMA DispatchStep ==
    ASSUME RunInv, Dispatch
    PROVE  RunInv'
<1> DEFINE j == jobs + 1
<1>1. /\ main = "dispatch" /\ jobs < NumJobs /\ jobs' = j
      /\ inputQueue' = Append(inputQueue, j)
      /\ UNCHANGED <<skip, main, outputQueue, worker, ended, collected, status>>
  BY Zenon DEF Dispatch
<1>2. jobs \in Nat /\ j \in Jobs /\ j > jobs
  BY <1>1, JobAssumption DEF RunInv, Shape, Jobs
<1>3. j \notin Queued /\ j \notin Held /\ j \notin Reported
  BY <1>2 DEF RunInv, Places, Dispatched
<1>4. j = jobs + 1 /\ j # Break
  BY <1>2, JobsFinite
<1> HIDE DEF j
<1>5. /\ inputQueue' \in Seq(Jobs \cup {Break}) /\ QueuedOnce'
      /\ Queued' = Queued \cup {j}
  BY <1>1, <1>2, <1>3, <1>4, InputPut DEF RunInv, Places
<1>6. /\ Held' = Held /\ HeldOnce'
      /\ Reported' = Reported /\ ReportedOnce' /\ Len(outputQueue') = Len(outputQueue)
  BY <1>1, OthersKept DEF RunInv
<1>7. Cardinality(Queued') = Cardinality(Queued) + 1 /\ Cardinality(Queued) \in Nat
  BY <1>3, <1>5, JobsFinite, Come
<1>8. Counted'
  <2>1. Cardinality(Held) \in Nat /\ Len(outputQueue) \in Nat
    BY JobsFinite, FS_CardinalityType, LenProperties DEF RunInv, Shape
  <2> QED
    BY <1>1, <1>2, <1>4, <1>6, <1>7, <2>1 DEF RunInv, Places, Counted, Shape
<1>9. Apart' /\ Dispatched'
  <2>1. Apart'
    BY <1>3, <1>5, <1>6 DEF RunInv, Places, Apart
  <2>2. \A k \in Queued \cup Held \cup Reported : k \in Nat
    BY JobAssumption DEF Queued, Held, Reported, Jobs
  <2> QED
    BY <1>1, <1>2, <1>4, <1>5, <1>6, <2>1, <2>2 DEF RunInv, Places, Dispatched
<1>10. Final'
  <2>1. \A k \in Jobs : k <= jobs => k <= jobs' /\ k # j
    BY <1>1, <1>2, <1>4, JobAssumption DEF Jobs
  <2> QED
    BY <1>1, <1>5, <1>6, <2>1 DEF RunInv, Final
<1>11. Shape' /\ Judged'
  BY <1>1, <1>2, <1>4, <1>5, JobAssumption
    DEF RunInv, Shape, Judged, WorkerType, Thread, Consistent
<1> QED
  BY <1>5, <1>6, <1>8, <1>9, <1>10, <1>11 DEF RunInv, Places

LEMMA ReleaseStep ==
    ASSUME RunInv, Release
    PROVE  RunInv'
<1>1. /\ main = "dispatch" /\ jobs = NumJobs /\ main' \in {"dispatch", "collect"}
      /\ inputQueue' = Append(inputQueue, Break)
      /\ UNCHANGED <<skip, jobs, outputQueue, worker, ended, collected, status>>
  BY Zenon DEF Release
<1>2. Break \notin Queued
  BY JobsFinite DEF Queued
<1>3. /\ inputQueue' \in Seq(Jobs \cup {Break}) /\ QueuedOnce' /\ Queued' = Queued
  BY <1>1, <1>2, InputPut DEF RunInv, Places
<1>4. /\ Held' = Held /\ HeldOnce'
      /\ Reported' = Reported /\ ReportedOnce' /\ Len(outputQueue') = Len(outputQueue)
  BY <1>1, OthersKept DEF RunInv
<1>5. Places'
  BY <1>1, <1>3, <1>4 DEF RunInv, Places, Apart, Dispatched, Counted
<1>6. Final' /\ Judged'
  BY <1>1, <1>3, <1>4 DEF RunInv, Final, Judged
<1>7. Shape'
  BY <1>1, <1>3 DEF RunInv, Shape, WorkerType, Thread, Consistent
<1> QED
  BY <1>5, <1>6, <1>7 DEF RunInv

\* The status a job gets says how its process ended.
LEMMA StatusMeans ==
    ASSUME NEW e \in Endings \cup {NotEnded}
    PROVE  /\ StatusOf(e.code) \in Statuses \ {"none", "SKIP"}
           /\ StatusOf(e.code) = "PASS" => e.code = 0
<1>1. e.code \in {0, 1, 2, 139}
  BY DEF Endings, NotEnded
<1> DEFINE c == e.code
<1> HIDE DEF c
<1>2. CASE c = 0
  BY <1>2 DEF StatusOf, Statuses
<1>3. CASE c = 1
  BY <1>3 DEF StatusOf, Statuses
<1>4. CASE c = 2
  BY <1>4 DEF StatusOf, Statuses
<1>5. CASE c = 139
  BY <1>5 DEF StatusOf, Statuses
<1> QED
  BY <1>1, <1>2, <1>3, <1>4, <1>5 DEF c

LEMMA CollectStep ==
    ASSUME RunInv, Collect
    PROVE  RunInv'
<1> DEFINE j == Head(outputQueue).job
           brk == Head(outputQueue).brk
           new == IF brk THEN status[j] ELSE IF j \in skip THEN "SKIP"
                  ELSE StatusOf(ended[j].code)
<1>1. /\ main = "collect" /\ main' \in {"collect", "raised"}
      /\ outputQueue # <<>> /\ outputQueue' = Tail(outputQueue)
      /\ collected' = collected + 1 /\ status' = [status EXCEPT ![j] = new]
      /\ UNCHANGED <<skip, jobs, inputQueue, worker, ended>>
  BY Zenon DEF Collect
<1>2. /\ j \in Reported
      /\ outputQueue' \in Seq([job : Jobs, brk : BOOLEAN]) /\ ReportedOnce'
      /\ Reported' = Reported \ {j}
      /\ Len(outputQueue') = Len(outputQueue) - 1 /\ Len(outputQueue) \in Nat
  BY <1>1, OutputGet DEF RunInv, Places
<1>3. j \in Jobs
  BY <1>2 DEF Reported
<1> HIDE DEF j, brk
<1>4. /\ Queued' = Queued /\ QueuedOnce' /\ Held' = Held /\ HeldOnce'
  BY <1>1 DEF RunInv, Places, Queued, QueuedOnce, Held, HeldOnce
<1>5. Counted'
  <2>1. /\ Cardinality(Reported') = Cardinality(Reported) - 1
        /\ Cardinality(Reported) \in Nat
        /\ Cardinality(Held) \in Nat /\ Cardinality(Queued) \in Nat
    BY <1>2, JobsFinite, Go, FS_CardinalityType
  <2> QED
    BY <1>1, <1>2, <1>4, <2>1 DEF RunInv, Places, Counted, Shape
<1>6. Apart' /\ Dispatched'
  BY <1>1, <1>2, <1>4 DEF RunInv, Places, Apart, Dispatched
<1>7. /\ new \in Statuses /\ (new = "PASS" => ended[j].code = 0)
      /\ new = "SKIP" => j \in skip
  <2>1. /\ StatusOf(ended[j].code) \in Statuses \ {"none", "SKIP"}
        /\ StatusOf(ended[j].code) = "PASS" => ended[j].code = 0
    BY <1>3, StatusMeans DEF RunInv, Shape
  <2>2. status[j] \in Statuses
    BY <1>3 DEF RunInv, Shape
  <2> QED
    BY <1>3, <2>1, <2>2 DEF RunInv, Final, Statuses
<1> HIDE DEF new
<1>8. status' \in [Jobs -> Statuses] /\ status'[j] = new
      /\ \A k \in Jobs : k # j => status'[k] = status[k]
  BY <1>1, <1>3, <1>7 DEF RunInv, Shape
<1>9. j <= jobs /\ j \notin Queued' \cup Held' \cup Reported'
  BY <1>2, <1>4 DEF RunInv, Places, Apart, Dispatched
<1>10. Final'
  <2> SUFFICES ASSUME NEW k \in Jobs
               PROVE  /\ status'[k] # "none"
                             => k <= jobs' /\ k \notin Queued' \cup Held' \cup Reported'
                      /\ status'[k] = "PASS" => ended'[k].code = 0
                      /\ status'[k] = "SKIP" => k \in skip'
    BY DEF Final
  <2>1. CASE k = j
    BY <1>1, <1>7, <1>8, <1>9, <2>1
  <2>2. CASE k # j
    BY <1>1, <1>2, <1>4, <1>8, <2>2 DEF RunInv, Final
  <2> QED
    BY <2>1, <2>2
<1>11. Shape' /\ Judged'
  BY <1>1, <1>2, <1>8 DEF RunInv, Shape, Judged, WorkerType, Thread, Consistent
<1> QED
  BY <1>2, <1>4, <1>5, <1>6, <1>10, <1>11 DEF RunInv, Places

\* The other steps of the main thread move no job.
LEMMA JoinStep ==
    ASSUME RunInv, Join \/ Interrupt \/ UNCHANGED vars
    PROVE  RunInv'
<1>1. /\ UNCHANGED <<skip, jobs, inputQueue, outputQueue, worker, ended, collected,
                     status>>
      /\ \/ main = "collect" /\ main' = (IF ExitCode = 0 THEN "success" ELSE "failure")
         \/ main' = main
  BY DEF Join, Interrupt, vars
<1>2. /\ Queued' = Queued /\ QueuedOnce' /\ Held' = Held /\ HeldOnce'
      /\ Reported' = Reported /\ ReportedOnce'
  BY <1>1 DEF RunInv, Places, Queued, QueuedOnce, Held, HeldOnce, Reported, ReportedOnce
<1>3. Places'
  BY <1>1, <1>2 DEF RunInv, Places, Apart, Dispatched, Counted
<1>4. Final'
  BY <1>1, <1>2 DEF RunInv, Final
<1>5. Judged'
  BY <1>1 DEF RunInv, Judged, ExitCode
<1>6. Shape'
  BY <1>1 DEF RunInv, Shape, WorkerType, Thread, Consistent
<1> QED
  BY <1>3, <1>4, <1>5, <1>6 DEF RunInv

-----------------------------------------------------------------------------

LEMMA RunStarts == Init => RunInv
<1> SUFFICES ASSUME Init PROVE RunInv
  OBVIOUS
<1>1. /\ jobs = 0 /\ collected = 0 /\ inputQueue = <<>> /\ outputQueue = <<>>
      /\ main = "dispatch" /\ status = [j \in Jobs |-> "none"]
      /\ ended = [j \in Jobs |-> NotEnded]
      /\ worker = [w \in Workers |-> [at |-> "idle", job |-> Break]]
  BY DEF Init
<1>2. Queued = {} /\ Held = {} /\ Reported = {}
  BY <1>1, JobsFinite DEF Queued, Held, Reported, ToSet
<1>3. Cardinality({}) = 0 /\ Len(inputQueue) = 0 /\ Len(outputQueue) = 0
  BY <1>1, FS_EmptySet
<1>4. HeldOnce /\ WorkerType
  BY <1>1 DEF HeldOnce, WorkerType, Thread, Consistent
<1>5. Places
  BY <1>1, <1>2, <1>3, <1>4
    DEF Places, QueuedOnce, ReportedOnce, Apart, Dispatched, Counted
<1>6. Final /\ Judged
  BY <1>1 DEF Final, Judged
<1>7. Shape
  BY <1>1, <1>4, JobAssumption DEF Shape, Statuses
<1> QED
  BY <1>5, <1>6, <1>7 DEF RunInv

LEMMA RunStep == RunInv /\ [Next]_vars => RunInv'
BY TakeStep, LookStep, EndStep, DispatchStep, ReleaseStep, CollectStep, JoinStep
  DEF Next, WorkerStep, MainStep

LEMMA RunInvariant == Spec => []RunInv
BY RunStarts, RunStep, PTL DEF Spec

-----------------------------------------------------------------------------

\* The shape of the state; no more results are collected than jobs dispatched, and
\* each worker is sent one job with is_break.
THEOREM TypeCorrect == Spec => []TypeOK
<1> DEFINE Sent == /\ breaks \in 0..Cardinality(Workers)
                   /\ main = "dispatch" => breaks < Cardinality(Workers)
                   /\ main \in {"dispatch", "collect", "success", "failure", "raised"}
                   /\ example \subseteq Jobs /\ skip \subseteq Jobs
                   /\ threadExit \in BOOLEAN
<1>1. Cardinality(Workers) \in Nat \ {0}
  BY WorkerAssumption, FS_CardinalityType, FS_EmptySet
<1>2. ASSUME Init PROVE Sent
  <2>1. /\ breaks = 0 /\ main = "dispatch" /\ threadExit = FALSE
        /\ example \subseteq Jobs /\ skip \subseteq Jobs
    BY <1>2, Zenon DEF Init
  <2>2. breaks \in 0..Cardinality(Workers) /\ breaks < Cardinality(Workers)
    BY <1>1, <2>1
  <2> QED
    BY <2>1, <2>2, Zenon
<1>3. Sent /\ [Next]_vars => Sent'
  <2> SUFFICES ASSUME Sent, [Next]_vars PROVE Sent'
    OBVIOUS
  <2>1. CASE Release
    BY <1>1, <2>1 DEF Release
  <2>2. CASE UNCHANGED <<example, skip, main, breaks>> /\ threadExit' \in {threadExit, TRUE}
    BY <2>2
  <2>3. CASE Collect \/ Join
    BY <2>3 DEF Collect, Join
  <2>4. ASSUME NEW w \in Workers, WorkerStep(w) \/ RaiseInJob(w)
        PROVE  UNCHANGED <<example, skip, main, breaks, threadExit>>
    BY <2>4, Zenon DEF WorkerStep, Take, LookAtJob, EndJob, RaiseInJob
  <2>5. CASE Dispatch \/ Interrupt \/ UNCHANGED vars
    BY <2>2, <2>5 DEF Dispatch, Interrupt, vars
  <2> QED
    BY <2>1, <2>2, <2>3, <2>4, <2>5 DEF Next, MainStep
<1>4. RunInv /\ Sent => TypeOK
  <2>1. RunInv => collected \in 0..jobs
    <3> SUFFICES ASSUME RunInv PROVE collected \in 0..jobs
      OBVIOUS
    <3>1. /\ Cardinality(Held) \in Nat /\ Cardinality(Queued) \in Nat
          /\ Len(outputQueue) \in Nat
      BY JobsFinite, FS_CardinalityType, LenProperties DEF RunInv, Shape
    <3> QED
      BY <3>1 DEF RunInv, Shape, Places, Counted
  <2> QED
    BY <2>1 DEF TypeOK, RunInv, Shape, WorkerType, Thread
<1> HIDE DEF Sent
<1> QED
  BY RunInvariant, <1>2, <1>3, <1>4, PTL DEF Spec

\* For any number of jobs, workers, interrupts and threads that die with their job,
\* what was dispatched and not collected is in one queue or with one worker.
THEOREM NoJobLost == Spec => []JobsConserved
<1>1. RunInv => JobsConserved
  BY DEF RunInv, Places, HeldOnce, Apart, Counted, JobsConserved
<1> QED
  BY RunInvariant, <1>1, PTL

\* A run that reports success has run every job, and each of them has passed or was
\* to be skipped: a status is final, so the count that decides cannot be of others.
THEOREM SuccessSound == Spec => []SuccessIsTotal
<1>1. RunInv => SuccessIsTotal
  <2> SUFFICES ASSUME RunInv, main = "success", NEW j \in Jobs
               PROVE  j \in skip \/ (status[j] = "PASS" /\ ended[j].code = 0)
    BY DEF SuccessIsTotal
  <2> DEFINE good == {k \in Jobs : status[k] \in {"PASS", "SKIP"}}
  <2>1. Cardinality(good) = NumJobs
    BY DEF RunInv, Judged, ExitCode
  <2>2. good \in SUBSET Jobs
    OBVIOUS
  <2>3. good = Jobs
    <3> HIDE DEF good
    <3> QED
      BY <2>1, <2>2, JobsFinite, FS_Subset
  <2> QED
    BY <2>3 DEF RunInv, Final
<1> QED
  BY RunInvariant, <1>1, PTL

\* After an interrupt a job that is still waiting is never started: it is with no
\* worker, and a worker starts nothing while thread_exit is set.
THEOREM NothingStartedLate == Spec => InterruptStops
<1> SUFFICES ASSUME NEW j \in Jobs
             PROVE  Spec => [](threadExit /\ j \in Queued
                        => [](\A w \in Workers : worker[w] # [at |-> "running", job |-> j]))
  BY DEF InterruptStops
<1> DEFINE still == /\ threadExit
                    /\ \A w \in Workers : worker[w] # [at |-> "running", job |-> j]
<1>1. RunInv /\ threadExit /\ j \in Queued => still
  <2> SUFFICES ASSUME RunInv, threadExit, j \in Queued, NEW w \in Workers
               PROVE  worker[w] # [at |-> "running", job |-> j]
    OBVIOUS
  <2>1. worker[w].job # j
    BY DEF RunInv, Places, Apart, Held
  <2> QED
    BY <2>1
<1>2. RunInv /\ still /\ [Next]_vars => still'
  <2> SUFFICES ASSUME RunInv, still, [Next]_vars PROVE still'
    <3> HIDE DEF still
    <3> QED
      OBVIOUS
  <2> DEFINE idle(v) == worker'[v] # [at |-> "running", job |-> j]
  <2>1. threadExit'
    BY DEF Next, WorkerStep, MainStep, Take, LookAtJob, EndJob, RaiseInJob, Dispatch,
           Release, Collect, Join, Interrupt, vars
  <2>2. CASE UNCHANGED worker
    BY <2>1, <2>2
  <2>3. ASSUME NEW w \in Workers, NEW r, r.at # "running",
               worker' = [worker EXCEPT ![w] = r], NEW v \in Workers
        PROVE  idle(v)
    BY <2>3 DEF RunInv, Shape, WorkerType
  <2>4. ASSUME NEW w \in Workers, WorkerStep(w) \/ RaiseInJob(w)
        PROVE  \E r : r.at # "running" /\ worker' = [worker EXCEPT ![w] = r]
    <3>1. CASE Take(w)
      BY <3>1 DEF Take
    <3>2. CASE LookAtJob(w) \/ EndJob(w)
      BY <3>2, Zenon DEF LookAtJob, EndJob, Report
    <3>3. CASE RaiseInJob(w)
      <4>1. [worker[w] EXCEPT !.at = "raised"].at = "raised"
        BY DEF RunInv, Shape, WorkerType, Thread
      <4> QED
        BY <3>3, <4>1, Zenon DEF RaiseInJob
    <3> QED
      BY <2>4, <3>1, <3>2, <3>3 DEF WorkerStep
  <2>5. CASE MainStep \/ Interrupt \/ UNCHANGED vars
    BY <2>2, <2>5 DEF MainStep, Dispatch, Release, Collect, Join, Interrupt, vars
  <2>6. ASSUME NEW w \in Workers, WorkerStep(w) \/ RaiseInJob(w) PROVE still'
    <3>1. PICK r : r.at # "running" /\ worker' = [worker EXCEPT ![w] = r]
      BY <2>4, <2>6
    <3>2. \A v \in Workers : idle(v)
      BY <2>3, <3>1
    <3> QED
      BY <2>1, <3>2
  <2> HIDE DEF still
  <2> QED
    BY <2>5, <2>6 DEF Next
<1>3. still => \A w \in Workers : worker[w] # [at |-> "running", job |-> j]
  OBVIOUS
<1> HIDE DEF still
<1> QED
  BY RunInvariant, <1>1, <1>2, <1>3, PTL DEF Spec

-----------------------------------------------------------------------------
(* Nobody waits in vain.                                                   *)

Returned == {w \in Workers : worker[w].at = "returned"}

\* A break job waits, or has been taken.
Breaking == Returned # {} \/ \E i \in 1..Len(inputQueue) : inputQueue[i] = Break

\* Everything behind a break job is a break job.
BreaksLast ==
    \A i, k \in 1..Len(inputQueue) :
        i < k /\ inputQueue[i] = Break => inputQueue[k] = Break

\* The input queue: jobs, and behind them the break jobs that no worker has taken yet.
Line ==
    /\ BreaksLast
    /\ Breaking => jobs = NumJobs
    /\ Returned # {} => Queued = {}
    /\ breaks \in Nat
    /\ Len(inputQueue) = Cardinality(Queued) + breaks - Cardinality(Returned)
    /\ main # "dispatch" => breaks = Cardinality(Workers)

\* While a thread has not returned, fewer have returned than there are.
LEMMA ReturnedFinite ==
    /\ IsFiniteSet(Returned) /\ Cardinality(Returned) \in Nat /\ Cardinality(Workers) \in Nat
    /\ \A w \in Workers : w \notin Returned => Cardinality(Returned) < Cardinality(Workers)
<1>1. Returned \subseteq Workers /\ IsFiniteSet(Workers)
  BY WorkerAssumption DEF Returned
<1>2. /\ IsFiniteSet(Returned) /\ Cardinality(Returned) \in Nat /\ Cardinality(Workers) \in Nat
  BY <1>1, FS_Subset, FS_CardinalityType
<1>3. ASSUME NEW w \in Workers, w \notin Returned
      PROVE  Cardinality(Returned) < Cardinality(Workers)
  <2>1. Returned \subseteq Workers \ {w}
    BY <1>1, <1>3
  <2>2. /\ IsFiniteSet(Workers \ {w}) /\ Cardinality(Workers \ {w}) = Cardinality(Workers) - 1
    BY <1>1, FS_RemoveElement
  <2>3. Cardinality(Returned) <= Cardinality(Workers \ {w})
    BY <2>1, <2>2, FS_Subset
  <2> QED
    BY <1>2, <2>2, <2>3
<1> QED
  BY <1>2, <1>3

\* The jobs in the input queue can be counted.
LEMMA QueuedCount == IsFiniteSet(Queued) /\ Cardinality(Queued) \in Nat
BY JobsFinite, FS_CardinalityType

\* Both queues are empty when the workers start.
LEMMA LineStarts == Init => Line
<1> SUFFICES ASSUME Init PROVE Line
  OBVIOUS
<1>1. /\ inputQueue = <<>> /\ main = "dispatch" /\ breaks = 0
      /\ worker = [w \in Workers |-> [at |-> "idle", job |-> Break]]
  BY DEF Init
<1>2. Returned = {} /\ Queued = {} /\ Len(inputQueue) = 0
  BY <1>1, JobsFinite DEF Returned, Queued, ToSet
<1>3. Cardinality({}) = 0
  BY FS_EmptySet
<1> QED
  BY <1>1, <1>2, <1>3 DEF Line, BreaksLast, Breaking

\* Steps that leave the input queue alone.
LEMMA LineSame ==
    ASSUME Line, UNCHANGED <<inputQueue, jobs, breaks>>, Returned' = Returned,
           main' = "dispatch" => main = "dispatch", main = "dispatch" => main' = "dispatch"
    PROVE  Line'
BY DEF Line, BreaksLast, Breaking, Queued

\* A worker that looks at its job, ends it or dies with it leaves the input queue alone.
LEMMA WorkerLine ==
    ASSUME RunInv, Line, NEW w \in Workers, LookAtJob(w) \/ EndJob(w) \/ RaiseInJob(w)
    PROVE  Line'
<1>1. /\ worker[w].at \in {"taken", "running"}
      /\ UNCHANGED <<inputQueue, jobs, breaks, main>>
      /\ \/ worker' = [worker EXCEPT ![w] = [at |-> "idle", job |-> Break]]
         \/ worker' = [worker EXCEPT ![w].at = "running"]
         \/ worker' = [worker EXCEPT ![w].at = "raised"]
         \/ worker' = worker
  BY Zenon DEF LookAtJob, EndJob, RaiseInJob, Report
<1>2. worker \in [Workers -> Thread]
  BY DEF RunInv, Shape, WorkerType
<1>3. \A v \in Workers : worker'[v].at = "returned" <=> worker[v].at = "returned"
  BY <1>1, <1>2 DEF Thread
<1>4. Returned' = Returned
  BY <1>3 DEF Returned
<1> QED
  BY <1>1, <1>4, LineSame

\* input_queue.get: the first one to take a break job shows that no job is left.
LEMMA TakeLine ==
    ASSUME RunInv, Line, NEW w \in Workers, Take(w)
    PROVE  Line'
<1> DEFINE j == Head(inputQueue)
           r == IF j = Break THEN [at |-> "returned", job |-> Break]
                ELSE [at |-> "taken", job |-> j]
<1>1. /\ worker[w].at = "idle" /\ inputQueue # <<>> /\ inputQueue' = Tail(inputQueue)
      /\ worker' = [worker EXCEPT ![w] = r]
      /\ UNCHANGED <<main, jobs, breaks>>
  BY Zenon DEF Take
<1>2. Shape /\ QueuedOnce /\ worker \in [Workers -> Thread]
  BY DEF RunInv, Places, Shape, WorkerType
<1>3. /\ j \in Jobs \cup {Break} /\ (j # Break => j \in Queued)
      /\ inputQueue' \in Seq(Jobs \cup {Break}) /\ Queued' = Queued \ {j}
  BY <1>1, <1>2, InputGet
<1>4. /\ Len(inputQueue') = Len(inputQueue) - 1 /\ Len(inputQueue) \in Nat \ {0}
      /\ j = inputQueue[1]
      /\ \A i \in 1..Len(inputQueue') : inputQueue'[i] = inputQueue[i + 1]
  BY <1>1, <1>2, HeadTailProperties DEF Shape
<1> HIDE DEF j
<1>5. /\ worker'[w] = r /\ \A v \in Workers : v # w => worker'[v] = worker[v]
  BY <1>1, <1>2
<1>6. w \notin Returned
  BY <1>1 DEF Returned
<1>7. Cardinality(Returned) \in Nat /\ IsFiniteSet(Returned) /\ Cardinality(Queued) \in Nat
      /\ IsFiniteSet(Queued)
  BY ReturnedFinite, QueuedCount
<1>8. BreaksLast'
  BY <1>4 DEF Line, BreaksLast
<1>9. /\ breaks \in Nat /\ breaks' = breaks /\ jobs' = jobs
      /\ Len(inputQueue) = Cardinality(Queued) + breaks - Cardinality(Returned)
      /\ main' # "dispatch" => breaks = Cardinality(Workers)
  BY <1>1 DEF Line
<1>10. Breaking' => jobs = NumJobs
  <2>1. CASE Breaking
    BY <2>1 DEF Line
  <2>2. CASE ~Breaking
    <3>1. j # Break
      BY <1>4, <2>2 DEF Breaking
    <3>2. ~Breaking'
      BY <1>4, <1>5, <2>2, <3>1 DEF Breaking, Returned
    <3> QED
      BY <3>2
  <2> QED
    BY <2>1, <2>2
<1>11. CASE j = Break
  <2>1. Returned' = Returned \cup {w}
    BY <1>5, <1>11 DEF Returned
  <2>2. Cardinality(Returned') = Cardinality(Returned) + 1
    BY <1>6, <1>7, <2>1, Come
  <2>3. Queued = {}
    <3>1. \A k \in 1..Len(inputQueue) : inputQueue[k] = Break
      <4> SUFFICES ASSUME NEW k \in 1..Len(inputQueue) PROVE inputQueue[k] = Break
        OBVIOUS
      <4>1. 1 \in 1..Len(inputQueue) /\ inputQueue[1] = Break
        BY <1>4, <1>11
      <4>2. 1 < k => inputQueue[k] = Break
        BY <4>1 DEF Line, BreaksLast
      <4>3. k = 1 \/ 1 < k
        BY <1>4
      <4> QED
        BY <4>1, <4>2, <4>3
    <3>2. \A x \in Queued : \E k \in 1..Len(inputQueue) : inputQueue[k] = x
      BY <1>2 DEF Queued, ToSet, Shape
    <3> QED
      BY <3>1, <3>2, JobsFinite DEF Queued
  <2>4. Queued' = {}
    BY <1>3, <2>3
  <2>5. Len(inputQueue') = Cardinality(Queued') + breaks' - Cardinality(Returned')
    BY <1>4, <1>7, <1>9, <2>2, <2>3, <2>4
  <2> QED
    BY <1>8, <1>9, <1>10, <2>4, <2>5 DEF Line
<1>12. CASE j # Break
  <2>1. Returned' = Returned
    BY <1>1, <1>5, <1>12 DEF Returned
  <2>2. Cardinality(Queued') = Cardinality(Queued) - 1
    BY <1>3, <1>7, <1>12, Go
  <2>3. Returned = {}
    BY <1>3, <1>12 DEF Line
  <2>4. Len(inputQueue') = Cardinality(Queued') + breaks' - Cardinality(Returned')
    BY <1>4, <1>7, <1>9, <2>1, <2>2
  <2> QED
    BY <1>8, <1>9, <1>10, <2>1, <2>3, <2>4 DEF Line
<1> QED
  BY <1>11, <1>12

\* What both puts of the main thread do.
LEMMA PutLine ==
    ASSUME RunInv, Line, NEW x \in Jobs \cup {Break}, inputQueue' = Append(inputQueue, x),
           UNCHANGED worker, x = Break \/ ~Breaking
    PROVE  /\ Len(inputQueue') = Len(inputQueue) + 1 /\ Len(inputQueue) \in Nat
           /\ BreaksLast' /\ Returned' = Returned
           /\ Breaking' => Breaking \/ x = Break
<1>1. /\ Len(inputQueue') = Len(inputQueue) + 1 /\ Len(inputQueue) \in Nat
      /\ inputQueue'[Len(inputQueue) + 1] = x
      /\ \A i \in 1..Len(inputQueue) : inputQueue'[i] = inputQueue[i]
  BY AppendProperties DEF RunInv, Shape
<1>2. Returned' = Returned
  BY DEF Returned
<1>3. BreaksLast'
  BY <1>1 DEF Line, BreaksLast, Breaking
<1>4. Breaking' => Breaking \/ x = Break
  BY <1>1, <1>2 DEF Breaking
<1> QED
  BY <1>1, <1>2, <1>3, <1>4

\* No break job is in the queue yet when a job is dispatched.
LEMMA DispatchLine ==
    ASSUME RunInv, Line, Dispatch
    PROVE  Line'
<1> DEFINE j == jobs + 1
<1>1. /\ main = "dispatch" /\ jobs < NumJobs /\ jobs' = j
      /\ inputQueue' = Append(inputQueue, j)
      /\ UNCHANGED <<main, breaks, worker>>
  BY Zenon DEF Dispatch
<1>2. jobs \in Nat /\ j \in Jobs /\ j > jobs
  BY <1>1, JobAssumption DEF RunInv, Shape, Jobs
<1>3. j \notin Queued
  BY <1>2 DEF RunInv, Places, Dispatched
<1>4. ~Breaking /\ Returned = {}
  <2>1. jobs # NumJobs
    BY <1>1, <1>2, JobAssumption
  <2> QED
    BY <2>1 DEF Line, Breaking
<1>5. j # Break
  BY <1>2, JobsFinite
<1> HIDE DEF j
<1>6. Queued' = Queued \cup {j}
  BY <1>1, <1>2, <1>3, <1>5, InputPut DEF RunInv, Places
<1>7. /\ Len(inputQueue') = Len(inputQueue) + 1 /\ Len(inputQueue) \in Nat
      /\ BreaksLast' /\ Returned' = Returned /\ ~Breaking'
  BY <1>1, <1>2, <1>4, <1>5, PutLine
<1>8. Cardinality(Queued') = Cardinality(Queued) + 1 /\ Cardinality(Queued) \in Nat
  BY <1>3, <1>6, QueuedCount, Come
<1>9. Cardinality(Returned) \in Nat
  BY ReturnedFinite
<1>10. Len(inputQueue') = Cardinality(Queued') + breaks' - Cardinality(Returned')
  BY <1>1, <1>7, <1>8, <1>9 DEF Line
<1> QED
  BY <1>1, <1>4, <1>7, <1>10 DEF Line

\* The break jobs go behind the last job, one for each worker.
LEMMA ReleaseLine ==
    ASSUME RunInv, Line, Release
    PROVE  Line'
<1>1. /\ main = "dispatch" /\ jobs = NumJobs /\ jobs' = jobs /\ breaks' = breaks + 1
      /\ inputQueue' = Append(inputQueue, Break) /\ UNCHANGED worker
      /\ main' # "dispatch" => breaks' = Cardinality(Workers)
  BY DEF Release
<1>2. Break \notin Queued
  BY JobsFinite DEF Queued
<1>3. Queued' = Queued
  BY <1>1, <1>2, InputPut DEF RunInv, Places
<1>4. /\ Len(inputQueue') = Len(inputQueue) + 1 /\ Len(inputQueue) \in Nat
      /\ BreaksLast' /\ Returned' = Returned
  BY <1>1, PutLine
<1>5. Cardinality(Queued) \in Nat /\ Cardinality(Returned) \in Nat /\ breaks \in Nat
  BY ReturnedFinite, QueuedCount DEF Line
<1>6. Len(inputQueue') = Cardinality(Queued') + breaks' - Cardinality(Returned')
  BY <1>1, <1>3, <1>4, <1>5 DEF Line
<1>7. Returned' # {} => Queued' = {}
  BY <1>3, <1>4 DEF Line
<1> QED
  BY <1>1, <1>4, <1>5, <1>6, <1>7 DEF Line

\* Every step keeps the order and the length of the input queue.
LEMMA LineStep == RunInv /\ Line /\ [Next]_vars => Line'
<1> SUFFICES ASSUME RunInv, Line, [Next]_vars PROVE Line'
  OBVIOUS
<1>1. CASE \E w \in Workers : WorkerStep(w) \/ RaiseInJob(w)
  BY <1>1, TakeLine, WorkerLine DEF WorkerStep
<1>2. CASE Dispatch \/ Release
  BY <1>2, DispatchLine, ReleaseLine
<1>3. CASE Collect \/ Join \/ Interrupt \/ UNCHANGED vars
  <2>1. /\ UNCHANGED <<inputQueue, jobs, breaks, worker>>
        /\ main' = "dispatch" <=> main = "dispatch"
    BY <1>3 DEF Collect, Join, Interrupt, vars
  <2>2. Returned' = Returned
    BY <2>1 DEF Returned
  <2> QED
    BY <2>1, <2>2, LineSame
<1> QED
  BY <1>1, <1>2, <1>3 DEF Next, MainStep

\* When all jobs are dispatched there is a result to collect, or the workers can be joined,
\* or a worker has a job in hand or finds one in the queue, or one has died with its job.
GoesOn ==
    main = "collect" =>
        \/ collected < jobs /\ outputQueue # <<>>
        \/ collected = jobs /\ \A w \in Workers : worker[w].at \in {"returned", "raised"}
        \/ \E w \in Workers : \/ worker[w].at \in {"taken", "running"}
                              \/ worker[w].at = "idle" /\ inputQueue # <<>>
        \/ collected < jobs /\ \E w \in Workers : worker[w].at = "raised"

\* output_queue.get and thread.join, which have no timeout (test.py:1720), never block for
\* ever while every process can be started: the main thread and the workers do not wait for
\* each other.  A thread that has died blocks the first of them only, and only while its
\* result is missing.
THEOREM NobodyWaitsInVain == Spec => []GoesOn
<1>1. ASSUME RunInv, Line PROVE GoesOn
  <2> SUFFICES ASSUME main = "collect",
                      \A w \in Workers : worker[w].at \notin {"taken", "running"},
                      \A w \in Workers : worker[w].at = "idle" => inputQueue = <<>>
               PROVE  \/ collected < jobs /\ outputQueue # <<>>
                      \/ /\ collected = jobs
                         /\ \A w \in Workers : worker[w].at \in {"returned", "raised"}
                      \/ collected < jobs /\ \E w \in Workers : worker[w].at = "raised"
    BY DEF GoesOn
  <2>1. /\ worker \in [Workers -> Thread] /\ \A w \in Workers : Consistent(worker[w])
        /\ collected \in Nat /\ jobs \in Nat
        /\ Len(outputQueue) \in Nat /\ (outputQueue = <<>> <=> Len(outputQueue) = 0)
    BY <1>1, JobAssumption, LenProperties, EmptySeq DEF RunInv, Shape, WorkerType
  <2>2. /\ Len(inputQueue) = Cardinality(Queued) + breaks - Cardinality(Returned)
        /\ breaks = Cardinality(Workers)
    BY <1>1 DEF Line
  <2>3. \A w \in Workers : worker[w].at # "idle"
    <3> SUFFICES ASSUME NEW w \in Workers, worker[w].at = "idle" PROVE FALSE
      OBVIOUS
    <3>1. Len(inputQueue) = 0
      OBVIOUS
    <3>2. Cardinality(Returned) < Cardinality(Workers)
      BY ReturnedFinite DEF Returned
    <3> QED
      BY <2>2, <3>1, <3>2, ReturnedFinite, QueuedCount
  <2>4. \A w \in Workers : worker[w].at \in {"returned", "raised"}
    BY <2>1, <2>3 DEF Thread
  <2>5. jobs = collected + Len(outputQueue) + Cardinality(Held) + Cardinality(Queued)
    BY <1>1 DEF RunInv, Places, Counted
  <2>6. Cardinality(Held) \in Nat /\ Cardinality(Queued) \in Nat
    BY JobsFinite, FS_CardinalityType
  <2>7. CASE \E w \in Workers : worker[w].at = "raised"
    BY <2>1, <2>4, <2>5, <2>6, <2>7
  <2>8. CASE \A w \in Workers : worker[w].at = "returned"
    <3>1. Returned # {}
      BY <2>8, WorkerAssumption DEF Returned
    <3>2. Queued = {}
      BY <1>1, <3>1 DEF Line
    <3>3. Held = {}
      BY <2>1, <2>8, JobsFinite DEF Held, Consistent
    <3>4. jobs = collected + Len(outputQueue)
      BY <2>1, <2>5, <3>2, <3>3, FS_EmptySet
    <3> QED
      BY <2>1, <2>4, <3>4
  <2> QED
    BY <2>4, <2>7, <2>8
<1>2. Spec => []Line
  BY RunInvariant, LineStarts, LineStep, PTL DEF Spec
<1> QED
  BY <1>1, <1>2, RunInvariant, PTL
=============================================================================
