----------------------------- MODULE TestRunner -----------------------------
(***************************************************************************)
(* The job queues of the test runner (test.py at the root of ns-3): a main *)
(* thread dispatches one job per test suite or example, worker threads run *)
(* them as child processes, and the main thread collects as many results   *)
(* as it has dispatched jobs, then joins the workers.  Control-C sets a    *)
(* flag that the workers look at between taking a job and running it.      *)
(* What a test prints, the results document and the build are left out.    *)
(***************************************************************************)
EXTENDS Integers, FiniteSets, Sequences, SequencesExt

CONSTANTS
    NumJobs,    \* jobs run_tests dispatches
    Workers,    \* worker threads, "processors" of them
    MaxRaised   \* bound of the model: child processes that cannot be started

ASSUME JobAssumption == NumJobs \in Nat /\ MaxRaised \in Nat
ASSUME WorkerAssumption == IsFiniteSet(Workers) /\ Workers # {}

VARIABLES
    example,    \* jobs with is_example or is_pyexample; the others are test suites
    skip,       \* jobs with is_skip
    main,       \* where the main thread is
    jobs,       \* jobs dispatched so far
    breaks,     \* jobs with is_break put behind them
    inputQueue, \* input_queue
    outputQueue,\* output_queue: [job, brk]
    worker,     \* worker threads: [at, job]
    ended,      \* how the child process of a job ended: [code, file]
    collected,  \* results taken from output_queue
    status,     \* status of the jobs whose result was a real one
    threadExit  \* thread_exit

vars == <<example, skip, main, jobs, breaks, inputQueue, outputQueue, worker, ended,
          collected, status, threadExit>>

Jobs == 1..NumJobs

\* A job with is_break, as put by the main thread; also "no job" of a worker.
Break == 0

Statuses == {"none", "PASS", "FAIL", "VALGR", "CRASH", "SKIP"}

\* What run_job_synchronously returns and whether the suite has written its results
\* file.  A crashed process whose output cannot be decoded returns 1 like a failed one.
Endings ==
    [code : 0..2, file : BOOLEAN] \cup {[code |-> 139, file |-> FALSE]}

\* As Job() leaves it: returncode is False.
NotEnded == [code |-> 0, file |-> FALSE]

-----------------------------------------------------------------------------
(* Worker threads.                                                         *)

\* input_queue.get; a break job ends the thread.
Take(w) ==
    /\ worker[w].at = "idle"
    /\ inputQueue # <<>>
    /\ inputQueue' = Tail(inputQueue)
    /\ worker' = [worker EXCEPT ![w] =
                     IF Head(inputQueue) = Break THEN [at |-> "returned", job |-> Break]
                     ELSE [at |-> "taken", job |-> Head(inputQueue)]]
    /\ UNCHANGED <<example, skip, main, jobs, breaks, outputQueue, ended, collected,
                   status, threadExit>>

\* The worker hands its job back and goes for the next.
Report(w, brk) ==
    /\ outputQueue' = Append(outputQueue, [job |-> worker[w].job, brk |-> brk])
    /\ worker' = [worker EXCEPT ![w] = [at |-> "idle", job |-> Break]]

\* Faulty variant: an interrupted job is dropped.
LookAtJobDrops(w) ==
    /\ worker[w].at = "taken"
    /\ \/ /\ threadExit
          /\ worker' = [worker EXCEPT ![w] = [at |-> "idle", job |-> Break]]
          /\ UNCHANGED outputQueue
       \/ /\ ~threadExit /\ worker[w].job \in skip
          /\ Report(w, FALSE)
       \/ /\ ~threadExit /\ worker[w].job \notin skip
          /\ worker' = [worker EXCEPT ![w].at = "running"]
          /\ UNCHANGED outputQueue
    /\ UNCHANGED <<example, skip, main, jobs, breaks, inputQueue, ended, collected,
                   status, threadExit>>

\* Faulty variant: no "continue" after the interrupted job has been put back.
LookAtJobGoesOn(w) ==
    /\ worker[w].at = "taken"
    /\ \/ /\ threadExit
          /\ outputQueue' = Append(outputQueue, [job |-> worker[w].job, brk |-> TRUE])
          /\ worker' = [worker EXCEPT ![w].at = "running"]
       \/ /\ ~threadExit /\ worker[w].job \in skip
          /\ Report(w, FALSE)
       \/ /\ ~threadExit /\ worker[w].job \notin skip
          /\ worker' = [worker EXCEPT ![w].at = "running"]
          /\ UNCHANGED outputQueue
    /\ UNCHANGED <<example, skip, main, jobs, breaks, inputQueue, ended, collected,
                   status, threadExit>>

\* Faulty variant: thread_exit is not looked at.
LookAtJobOnly(w) ==
    /\ worker[w].at = "taken"
    /\ \/ /\ worker[w].job \in skip
          /\ Report(w, FALSE)
       \/ /\ worker[w].job \notin skip
          /\ worker' = [worker EXCEPT ![w].at = "running"]
          /\ UNCHANGED outputQueue
    /\ UNCHANGED <<example, skip, main, jobs, breaks, inputQueue, ended, collected,
                   status, threadExit>>

\* The rest of the loop up to the child process: an interrupted job goes back with
\* is_break set, one to be skipped as it is.
LookAtJob(w) ==
    /\ worker[w].at = "taken"
    /\ \/ /\ threadExit
          /\ Report(w, TRUE)
       \/ /\ ~threadExit /\ worker[w].job \in skip
          /\ Report(w, FALSE)
       \/ /\ ~threadExit /\ worker[w].job \notin skip
          /\ worker' = [worker EXCEPT ![w].at = "running"]
          /\ UNCHANGED outputQueue
    /\ UNCHANGED <<example, skip, main, jobs, breaks, inputQueue, ended, collected,
                   status, threadExit>>

\* run_job_synchronously returns.
EndJob(w) ==
    /\ worker[w].at = "running"
    /\ \E e \in Endings : ended' = [ended EXCEPT ![worker[w].job] = e]
    /\ Report(w, FALSE)
    /\ UNCHANGED <<example, skip, main, jobs, breaks, inputQueue, collected, status,
                   threadExit>>

\* subprocess.Popen raises: nothing catches it, the thread ends without a result.
RaiseInJob(w) ==
    /\ worker[w].at = "running"
    /\ Cardinality({v \in Workers : worker[v].at = "raised"}) < MaxRaised
    /\ worker' = [worker EXCEPT ![w].at = "raised"]
    /\ UNCHANGED <<example, skip, main, jobs, breaks, inputQueue, outputQueue, ended,
                   collected, status, threadExit>>

-----------------------------------------------------------------------------
(* The main thread.                                                        *)

\* A job for the next suite or example of the lists.
Dispatch ==
    /\ main = "dispatch" /\ jobs < NumJobs
    /\ jobs' = jobs + 1
    /\ inputQueue' = Append(inputQueue, jobs + 1)
    /\ UNCHANGED <<example, skip, main, breaks, outputQueue, worker, ended, collected,
                   status, threadExit>>

\* A job with is_break for each worker.
Release ==
    /\ main = "dispatch" /\ jobs = NumJobs
    /\ inputQueue' = Append(inputQueue, Break)
    /\ breaks' = breaks + 1
    /\ main' = IF breaks + 1 = Cardinality(Workers) THEN "collect" ELSE main
    /\ UNCHANGED <<example, skip, jobs, outputQueue, worker, ended, collected, status,
                   threadExit>>

StatusOf(code) ==
    CASE code = 0 -> "PASS" [] code = 1 -> "FAIL" [] code = 2 -> "VALGR"
      [] OTHER -> "CRASH"

\* output_queue.get and what the main thread does with the result.  It opens the
\* results file of a suite that has returned 0, 1 or 2, and raises if there is none.
Collect ==
    /\ main = "collect" /\ collected < jobs /\ outputQueue # <<>>
    /\ outputQueue' = Tail(outputQueue)
    /\ collected' = collected + 1
    /\ LET j == Head(outputQueue).job
           real == ~Head(outputQueue).brk /\ j \notin skip
           missing == /\ real /\ j \notin example
                      /\ ended[j].code \in 0..2 /\ ~ended[j].file
       IN /\ status' = [status EXCEPT ![j] = IF Head(outputQueue).brk THEN @
                                             ELSE IF j \in skip THEN "SKIP"
                                             ELSE StatusOf(ended[j].code)]
          /\ main' = IF missing THEN "raised" ELSE main
    /\ UNCHANGED <<example, skip, jobs, breaks, inputQueue, worker, ended, threadExit>>

\* Faulty variant: whatever did not fail is a success.
ExitCodeFailed ==
    IF \E j \in Jobs : status[j] \in {"FAIL", "VALGR", "CRASH"} THEN 1 ELSE 0

\* What run_tests returns: passed_tests + skipped_tests == total_tests.
ExitCode ==
    IF Cardinality({j \in Jobs : status[j] \in {"PASS", "SKIP"}}) = jobs THEN 0 ELSE 1

\* thread.join on every worker, and the summary.
Join ==
    /\ main = "collect" /\ collected = jobs
    /\ \A w \in Workers : worker[w].at \in {"returned", "raised"}
    /\ main' = IF ExitCode = 0 THEN "success" ELSE "failure"
    /\ UNCHANGED <<example, skip, jobs, breaks, inputQueue, outputQueue, worker, ended,
                   collected, status, threadExit>>

Running == main \in {"dispatch", "collect"}

\* sigint_hook.
Interrupt ==
    /\ Running /\ ~threadExit
    /\ threadExit' = TRUE
    /\ UNCHANGED <<example, skip, main, jobs, breaks, inputQueue, outputQueue, worker,
                   ended, collected, status>>

-----------------------------------------------------------------------------

\* The workers have been started.
Init ==
    /\ example \in SUBSET Jobs /\ skip \in SUBSET Jobs
    /\ main = "dispatch" /\ jobs = 0 /\ breaks = 0
    /\ inputQueue = <<>> /\ outputQueue = <<>>
    /\ worker = [w \in Workers |-> [at |-> "idle", job |-> Break]]
    /\ ended = [j \in Jobs |-> NotEnded]
    /\ collected = 0
    /\ status = [j \in Jobs |-> "none"]
    /\ threadExit = FALSE

WorkerStep(w) == Take(w) \/ LookAtJob(w) \/ EndJob(w)

MainStep == Dispatch \/ Release \/ Collect \/ Join

Next ==
    \/ \E w \in Workers : WorkerStep(w) \/ RaiseInJob(w)
    \/ MainStep
    \/ Interrupt

Spec == Init /\ [][Next]_vars

\* The threads are scheduled and the child processes come to an end; nothing forces
\* an interrupt or an exception.
FairSpec == Spec /\ WF_vars(MainStep) /\ \A w \in Workers : WF_vars(WorkerStep(w))

-----------------------------------------------------------------------------
(* Properties.                                                             *)

\* Shape of the state; no more results are collected than jobs dispatched.
TypeOK ==
    /\ example \subseteq Jobs /\ skip \subseteq Jobs
    /\ main \in {"dispatch", "collect", "success", "failure", "raised"}
    /\ jobs \in 0..NumJobs /\ breaks \in 0..Cardinality(Workers)
    /\ inputQueue \in Seq(Jobs \cup {Break})
    /\ outputQueue \in Seq([job : Jobs, brk : BOOLEAN])
    /\ worker \in [Workers -> [at : {"idle", "taken", "running", "returned", "raised"},
                               job : Jobs \cup {Break}]]
    /\ ended \in [Jobs -> Endings \cup {NotEnded}]
    /\ collected \in 0..jobs
    /\ status \in [Jobs -> Statuses]
    /\ threadExit \in BOOLEAN

\* Jobs of the input queue, of the workers and of the output queue.
Queued == {j \in Jobs : j \in ToSet(inputQueue)}
Held == {j \in Jobs : \E w \in Workers : worker[w].job = j}
Reported == {j \in Jobs : \E i \in 1..Len(outputQueue) : outputQueue[i].job = j}

\* No job is lost and none is run twice, whatever the threads and the interrupt do:
\* what was dispatched and not collected is in one place exactly.
JobsConserved ==
    /\ jobs = collected + Len(outputQueue) + Cardinality(Held) + Cardinality(Queued)
    /\ Cardinality(Reported) = Len(outputQueue)
    /\ Reported \cap Held = {} /\ Held \cap Queued = {} /\ Reported \cap Queued = {}
    /\ \A v, w \in Workers : worker[v].job = worker[w].job => v = w \/ worker[v].job = Break

\* Success means that every job that was dispatched has passed or was to be skipped:
\* an interrupt that leaves tests out is never taken for a success.
SuccessIsTotal ==
    main = "success" =>
        \A j \in Jobs : j \in skip \/ (status[j] = "PASS" /\ ended[j].code = 0)

\* "When the worker threads sense this they stop doing real work" (test.py:1706): a
\* job that waits when the interrupt comes is never started.
InterruptStops ==
    \A j \in Jobs :
        [](threadExit /\ j \in Queued
               => [](\A w \in Workers : worker[w] # [at |-> "running", job |-> j]))

\* The run comes to an end, unless a worker has died with its job.
RunEnds == <>(~Running) \/ <>(\E w \in Workers : worker[w].at = "raised")
=============================================================================
