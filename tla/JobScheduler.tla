---------------------------- MODULE JobScheduler ----------------------------
(***************************************************************************)
(* tools/scheduler/scheduler.py: a scheduler that generates jobs, hands    *)
(* them to worker processes over a multiprocessing queue and processes     *)
(* their results in a thread of its own, which generates a new job for     *)
(* each result until there are no more.                                    *)
(*                                                                         *)
(* A multiprocessing queue is written by a feeder thread: put() returns    *)
(* before the item is visible to the readers.  Jobs are numbered in the    *)
(* order get_next_job makes them.                                          *)
(***************************************************************************)
EXTENDS Naturals, Sequences, FiniteSets

CONSTANTS
  NumProcesses,   \* worker processes
  MaxJobs,        \* get_next_job raises NoMoreJobsException after that many
  Pinned          \* whether pinned_cpus is given

ASSUME SchedulerAssumption ==
  NumProcesses \in Nat \ {0} /\ MaxJobs \in Nat /\ Pinned \in BOOLEAN

Workers == 1 .. NumProcesses

VARIABLES
  mpc,        \* where the thread that calls start() and join() is
  tpc,        \* where the result processor thread is
  awaited,    \* how often start() has acquired the semaphore, then how many
              \* initial jobs it has tried to enqueue
  semaphore,  \* the value of pinned_cpus_semaphore
  event,      \* shutdown_event
  numJobs,    \* num_jobs: the jobs whose result has not been received yet
  made,       \* the jobs that get_next_job has made
  feeder,     \* the jobs put into job_queue that its feeder has not written yet
  jobQueue,   \* the jobs the workers can see
  wpc,        \* where each worker is
  job,        \* the job a worker has taken from the queue, 0 if none
  results,    \* the result_queue
  processed,  \* the jobs whose result was passed to process_result
  stopped,    \* history: whether shutdown() was called
  atStop      \* history: how many jobs had been made when it was

vars == <<mpc, tpc, awaited, semaphore, event, numJobs, made, feeder, jobQueue, wpc,
          job, results, processed, stopped, atStop>>
queues == <<feeder, jobQueue, results, job>>
history == <<stopped, atStop>>

(***************************************************************************)
(* start(), in the calling thread.                                         *)
(***************************************************************************)
\* The event is cleared, the CPU IDs are enqueued, the processes are started.
StartProcesses ==
  /\ mpc = "idle"
  /\ event' = FALSE
  /\ wpc' = [w \in Workers |-> IF Pinned THEN "pin" ELSE "check"]
  /\ mpc' = IF Pinned THEN "await" ELSE "enqueue"
  /\ UNCHANGED <<tpc, awaited, semaphore, numJobs, made, queues, processed, history>>

AwaitPinned ==
  /\ mpc = "await"
  /\ IF awaited < NumProcesses
       THEN /\ semaphore > 0
            /\ semaphore' = semaphore - 1
            /\ awaited' = awaited + 1
            /\ UNCHANGED mpc
       ELSE mpc' = "enqueue" /\ awaited' = 0 /\ UNCHANGED semaphore
  /\ UNCHANGED <<tpc, event, numJobs, made, queues, wpc, processed, history>>

\* _enqueue_job after it has found the event not set: NoMoreJobsException, or
\* a new job.
NoMoreJobs == made = MaxJobs

EnqueueJob ==
  /\ made' = made + 1
  /\ numJobs' = numJobs + 1
  /\ feeder' = Append(feeder, made + 1)

\* Twice as many initial jobs as processes, unless there are no more.
InitialJobs ==
  /\ mpc = "enqueue"
  /\ mpc' = IF awaited < 2 * NumProcesses /\ ~event THEN "generate" ELSE "launch"
  /\ UNCHANGED <<tpc, awaited, semaphore, event, numJobs, made, queues, wpc, processed, history>>

GenerateInitial ==
  /\ mpc = "generate"
  /\ IF NoMoreJobs
       THEN mpc' = "launch" /\ UNCHANGED <<awaited, made, numJobs, feeder>>
       ELSE mpc' = "enqueue" /\ awaited' = awaited + 1 /\ EnqueueJob
  /\ UNCHANGED <<tpc, semaphore, event, jobQueue, results, job, wpc, processed, history>>

\* The result processor thread is started; the caller goes on to join().
StartThread ==
  /\ mpc = "launch"
  /\ mpc' = "join" /\ tpc' = "loop"
  /\ UNCHANGED <<awaited, semaphore, event, numJobs, made, queues, wpc, processed, history>>

Join ==
  /\ mpc = "join"
  /\ tpc = "done" /\ \A w \in Workers : wpc[w] = "exit"
  /\ mpc' = "joined"
  /\ UNCHANGED <<tpc, awaited, semaphore, event, numJobs, made, queues, wpc, processed, history>>

\* shutdown() of a scheduler that was started, by another thread or a callback.
Shutdown ==
  /\ ~stopped /\ mpc # "idle"
  /\ event' = TRUE /\ stopped' = TRUE /\ atStop' = made
  /\ UNCHANGED <<mpc, tpc, awaited, semaphore, numJobs, made, queues, wpc, processed>>

(***************************************************************************)
(* _result_processor, in its thread.                                       *)
(***************************************************************************)
\* Defect: a result is counted only after the next job has been enqueued.
ReceiveResultUncounted ==
  /\ tpc = "loop" /\ numJobs > 0
  /\ \E j \in results :
       /\ results' = results \ {j}
       /\ processed' = processed \cup {j}
  /\ tpc' = IF event THEN "loop" ELSE "generate"
  /\ UNCHANGED <<mpc, awaited, semaphore, event, numJobs, made, feeder, jobQueue, job,
                 wpc, history>>

\* A result is received and processed; whether the event is set decides
\* whether the thread goes on to ask for a new job.
ReceiveResult ==
  /\ tpc = "loop" /\ numJobs > 0
  /\ \E j \in results :
       /\ results' = results \ {j}
       /\ processed' = processed \cup {j}
  /\ numJobs' = numJobs - 1
  /\ tpc' = IF event THEN "loop" ELSE "generate"
  /\ UNCHANGED <<mpc, awaited, semaphore, event, made, feeder, jobQueue, job, wpc, history>>

GenerateNext ==
  /\ tpc = "generate"
  /\ tpc' = "loop"
  /\ IF NoMoreJobs THEN UNCHANGED <<made, numJobs, feeder>> ELSE EnqueueJob
  /\ UNCHANGED <<mpc, awaited, semaphore, event, jobQueue, results, job, wpc, processed, history>>

\* Defect: the thread stops when it has no new job to enqueue.
EndOfResultsEarly ==
  /\ tpc = "loop" /\ (numJobs = 0 \/ NoMoreJobs)
  /\ tpc' = "done" /\ event' = TRUE
  /\ UNCHANGED <<mpc, awaited, semaphore, numJobs, made, queues, wpc, processed, history>>

EndOfResults ==
  /\ tpc = "loop" /\ numJobs = 0
  /\ tpc' = "done" /\ event' = TRUE
  /\ UNCHANGED <<mpc, awaited, semaphore, numJobs, made, queues, wpc, processed, history>>

(***************************************************************************)
(* The queue's feeder thread, and the workers.                             *)
(***************************************************************************)
Feed ==
  /\ feeder # << >>
  /\ feeder' = Tail(feeder)
  /\ jobQueue' = Append(jobQueue, Head(feeder))
  /\ UNCHANGED <<mpc, tpc, awaited, semaphore, event, numJobs, made, results, job, wpc,
                 processed, history>>

Pin(w) ==
  /\ wpc[w] = "pin"
  /\ wpc' = [wpc EXCEPT ![w] = "check"]
  /\ semaphore' = semaphore + 1
  /\ UNCHANGED <<mpc, tpc, awaited, event, numJobs, made, queues, processed, history>>

\* The loop's condition: job_queue.empty() first, shutdown_event only then.
CheckQueue(w) ==
  /\ wpc[w] = "check"
  /\ wpc' = [wpc EXCEPT ![w] = IF jobQueue = << >> THEN "event" ELSE "get"]
  /\ UNCHANGED <<mpc, tpc, awaited, semaphore, event, numJobs, made, queues, processed, history>>

CheckEvent(w) ==
  /\ wpc[w] = "event"
  /\ wpc' = [wpc EXCEPT ![w] = IF event THEN "exit" ELSE "get"]
  /\ UNCHANGED <<mpc, tpc, awaited, semaphore, event, numJobs, made, queues, processed, history>>

\* Defect: the job is read and left in the queue.
GetJobCopies(w) ==
  /\ wpc[w] = "get"
  /\ IF jobQueue = << >>
       THEN wpc' = [wpc EXCEPT ![w] = "check"] /\ UNCHANGED job
       ELSE /\ wpc' = [wpc EXCEPT ![w] = "run"]
            /\ job' = [job EXCEPT ![w] = Head(jobQueue)]
  /\ UNCHANGED <<mpc, tpc, awaited, semaphore, event, numJobs, made, feeder, jobQueue,
                 results, processed, history>>

\* job_queue.get(True, 0.1): a job, or queue.Empty.  (Empty for a contended
\* queue that holds a job only repeats the loop.)
GetJob(w) ==
  /\ wpc[w] = "get"
  /\ IF jobQueue = << >>
       THEN wpc' = [wpc EXCEPT ![w] = "check"] /\ UNCHANGED <<job, jobQueue>>
       ELSE /\ wpc' = [wpc EXCEPT ![w] = "run"]
            /\ job' = [job EXCEPT ![w] = Head(jobQueue)]
            /\ jobQueue' = Tail(jobQueue)
  /\ UNCHANGED <<mpc, tpc, awaited, semaphore, event, numJobs, made, feeder, results,
                 processed, history>>

ProcessJob(w) ==
  /\ wpc[w] = "run"
  /\ results' = results \cup {job[w]}
  /\ job' = [job EXCEPT ![w] = 0]
  /\ wpc' = [wpc EXCEPT ![w] = "check"]
  /\ UNCHANGED <<mpc, tpc, awaited, semaphore, event, numJobs, made, feeder, jobQueue,
                 processed, history>>

\* mp.Semaphore() without an argument.
InitSemaphore == semaphore = 1

Init ==
  /\ mpc = "idle" /\ tpc = "idle" /\ awaited = 0
  /\ InitSemaphore
  /\ event = FALSE /\ numJobs = 0 /\ made = 0
  /\ feeder = << >> /\ jobQueue = << >> /\ results = {} /\ processed = {}
  /\ wpc = [w \in Workers |-> "new"]
  /\ job = [w \in Workers |-> 0]
  /\ stopped = FALSE /\ atStop = 0

Starter == StartProcesses \/ AwaitPinned \/ InitialJobs \/ GenerateInitial
             \/ StartThread \/ Join
ResultProcessor == ReceiveResult \/ GenerateNext \/ EndOfResults
Worker(w) == Pin(w) \/ CheckQueue(w) \/ CheckEvent(w) \/ GetJob(w) \/ ProcessJob(w)
Terminated == mpc = "joined" /\ UNCHANGED vars

Next == Starter \/ ResultProcessor \/ Shutdown \/ Feed \/ Terminated
          \/ \E w \in Workers : Worker(w)

\* Threads and processes are scheduled fairly by the operating system, and
\* a job is processed in finite time.  Nobody has to call shutdown().
Fairness ==
  /\ WF_vars(Starter) /\ WF_vars(ResultProcessor) /\ WF_vars(Feed)
  /\ \A w \in Workers : WF_vars(Worker(w))

Spec == Init /\ [][Next]_vars /\ Fairness

(***************************************************************************)
(* Properties.                                                             *)
(***************************************************************************)
Elements(s) == {s[i] : i \in 1 .. Len(s)}
Running == {job[w] : w \in Workers} \ {0}

(***************************************************************************)
(* num_jobs is the number of jobs that are somewhere between               *)
(* _enqueue_job and process_result, and each job is in exactly one place:  *)
(* whoever waits for num_jobs to drop to zero waits for all of them.       *)
(***************************************************************************)
Outstanding == Elements(feeder) \cup Elements(jobQueue) \cup Running \cup results

Accounting ==
  /\ numJobs = Len(feeder) + Len(jobQueue)
                 + Cardinality({w \in Workers : job[w] # 0}) + Cardinality(results)
  /\ numJobs = Cardinality(Outstanding)
  /\ Outstanding \cap processed = {}
  /\ Outstanding \cup processed = 1 .. made

(***************************************************************************)
(* "Block until all jobs have been processed and the workers have been     *)
(* shut down": when join() returns every job that was made has been        *)
(* processed, and none is left to make.  After a shutdown(), which is to   *)
(* "stop enqueing new jobs", the thread that had looked at the event       *)
(* before may have made one more job, and that is all.                     *)
(***************************************************************************)
JoinMeansProcessed ==
  mpc = "joined" => /\ processed = 1 .. made
                    /\ IF stopped THEN made <= atStop + 1 ELSE made = MaxJobs

(* join() returns if nobody calls shutdown().  After a shutdown() it may    *)
(* not: the workers leave on a queue that is empty only because a job is    *)
(* still with its feeder thread, and nobody takes the job.                  *)
JoinReturnsUnlessStopped == <>(mpc = "joined" \/ stopped)

=============================================================================
