--------------------------- MODULE ParallelSearch ---------------------------
(***************************************************************************)
(* nevergrad_parallel_utils.py: a search that compiles and benchmarks      *)
(* proposals on a pool of processes.  Each pool process is pinned to a CPU *)
(* that it takes from a queue; a reader-writer lock per CPU range lets     *)
(* compilations overlap and is meant to keep a benchmark alone; a process  *)
(* whose compilation or benchmark takes too long puts its CPU back,        *)
(* reports a timeout and kills itself, and the pool starts another.        *)
(*                                                                         *)
(* A worker w is a slot of the pool; the process in it may die and be      *)
(* replaced.  Proposals are numbered in the order they are asked for.      *)
(***************************************************************************)
EXTENDS Naturals, Sequences, FiniteSets

CONSTANTS
  NumTasks,          \* num_parallel_tasks
  CpuCount,          \* cpu_count()
  CpusPerBenchmark,  \* num_cpus_per_benchmark
  Budget,            \* search_budget
  MaxFaults,         \* bound on the crashes in native code and on Ctrl+C, together
  MayRaise,          \* whether starting a thread may raise an exception
  MayInterrupt       \* whether somebody presses Ctrl+C

ASSUME SearchAssumption ==
  /\ {NumTasks, CpuCount, CpusPerBenchmark} \subseteq Nat \ {0}
  /\ CpuCount % CpusPerBenchmark = 0
  /\ Budget \in Nat /\ MaxFaults \in Nat
  /\ MayRaise \in BOOLEAN /\ MayInterrupt \in BOOLEAN

Workers == 1 .. NumTasks
Cpus == 0 .. CpuCount - 1
Locks == {c \div CpusPerBenchmark : c \in Cpus}
Proposals == 1 .. Budget

VARIABLES
  main,      \* the main loop: "check" the event, "get" a result, or over
  asked,     \* search_number once the initial jobs are enqueued
  rounds,    \* how many results the loop has processed
  told,      \* the proposals whose result was passed to tell_optimizer
  event,     \* shutdown_event
  jobs,      \* the pool's task queue
  results,   \* results_queue
  cpus,      \* available_cpus_queue
  pc,        \* where each worker's process is
  cpu,       \* its compilation_cpu
  wide,      \* whether its affinity is the CPU range of its benchmark
  job,       \* the proposal it works on, 0 if none
  thread,    \* its compilation or benchmark thread, "none" if not alive
  failed,    \* compile_error, or no throughput
  readers,   \* the workers that hold each lock in read mode
  writers,   \* the workers that hold each lock in write mode
  dropped,   \* the mode in which a dead process holds each lock
  crashes,   \* how many processes have died in native code
  lostUnnoticed, \* history: whether a job was lost in a way the search does not notice
  sigint     \* whether Ctrl+C was pressed

vars == <<main, asked, rounds, told, event, jobs, results, cpus, pc, cpu, wide, job, thread,
          failed, readers, writers, dropped, crashes, lostUnnoticed, sigint>>
search == <<main, asked, rounds, told, jobs>>
locks == <<readers, writers, dropped>>
process == <<cpu, wide, job>>
faults == <<crashes, lostUnnoticed, sigint>>

InitialJobs == IF Budget < (3 * NumTasks) \div 2 THEN Budget ELSE (3 * NumTasks) \div 2

LockIdx(w) == cpu[w] \div CpusPerBenchmark

Searching == main \in {"check", "get"}

(***************************************************************************)
(* The main loop.                                                          *)
(***************************************************************************)
EnqueueSearchJob ==
  /\ asked' = asked + 1
  /\ jobs' = Append(jobs, asked + 1)

EnqueueInitial ==
  /\ Searching /\ asked < InitialJobs
  /\ EnqueueSearchJob
  /\ UNCHANGED <<main, rounds, told, event, results, cpus, pc, process, thread, failed, locks,
                 faults>>

\* process_pool.terminate() and the end of the program.
Stop ==
  /\ main' = "stopped"
  /\ pc' = [w \in Workers |-> "dead"]
  /\ thread' = [w \in Workers |-> "none"]
  /\ UNCHANGED <<asked, rounds, told, event, jobs, results, cpus, process, failed, locks, faults>>

CheckEvent ==
  /\ main = "check" /\ asked >= InitialJobs /\ rounds < Budget
  /\ \/ event /\ Stop
     \/ /\ ~event /\ main' = "get"
        /\ UNCHANGED <<asked, rounds, told, event, jobs, results, cpus, pc, process, thread,
                       failed, locks, faults>>

\* A result within the 0.5s that get() waits, or queue.Empty.
GetResult ==
  /\ main = "get"
  /\ main' = "check"
  /\ IF results = << >>
       THEN UNCHANGED <<results, rounds, told, asked, jobs>>
       ELSE /\ results' = Tail(results)
            /\ rounds' = rounds + 1
            /\ told' = told \cup {Head(results)}
            /\ IF asked < Budget THEN EnqueueSearchJob ELSE UNCHANGED <<asked, jobs>>
  /\ UNCHANGED <<event, cpus, pc, process, thread, failed, locks, faults>>

FinishSearch ==
  /\ main = "check" /\ asked >= InitialJobs /\ rounds = Budget
  /\ main' = "done"
  /\ UNCHANGED <<asked, rounds, told, event, jobs, results, cpus, pc, process, thread, failed,
                 locks, faults>>

\* Ctrl+C, and the handler of the main process.
PressCtrlC ==
  /\ MayInterrupt /\ ~sigint /\ Searching /\ crashes < MaxFaults
  /\ sigint' = TRUE
  /\ UNCHANGED <<main, asked, rounds, told, event, jobs, results, cpus, pc, process, thread,
                 failed, locks, crashes, lostUnnoticed>>

Interrupted == sigint /\ Searching /\ Stop

(***************************************************************************)
(* A pool process: its start and the job it takes.                         *)
(***************************************************************************)
\* init_proccess pins the process to a CPU from the queue, or, if it gets
\* none within 1s, sets the event and exits.
InitProcess(w) ==
  /\ pc[w] = "new"
  /\ IF cpus # << >>
       THEN /\ cpu' = [cpu EXCEPT ![w] = Head(cpus)]
            /\ cpus' = Tail(cpus)
            /\ pc' = [pc EXCEPT ![w] = "idle"]
            /\ UNCHANGED event
       ELSE /\ event' = TRUE
            /\ pc' = [pc EXCEPT ![w] = "dead"]
            /\ UNCHANGED <<cpu, cpus>>
  /\ UNCHANGED <<search, results, wide, job, thread, failed, locks, faults>>

\* The pool replaces a process that has died.
RepopulatePool(w) ==
  /\ pc[w] = "dead" /\ Searching
  /\ pc' = [pc EXCEPT ![w] = "new"]
  /\ UNCHANGED <<search, event, results, cpus, process, thread, failed, locks, faults>>

\* The job is lost if the process is not pinned to a single CPU: the assertion
\* is outside the try statement, and nobody reads what apply_async returned.
TakeJob(w) ==
  /\ pc[w] = "idle" /\ jobs # << >>
  /\ jobs' = Tail(jobs)
  /\ IF wide[w] /\ CpusPerBenchmark > 1
       THEN UNCHANGED <<pc, job>>
       ELSE /\ pc' = [pc EXCEPT ![w] = "acquire_read"]
            /\ job' = [job EXCEPT ![w] = Head(jobs)]
  /\ UNCHANGED <<main, asked, rounds, told, event, results, cpus, cpu, wide, thread, failed, locks,
                 faults>>

\* results_queue.put; the status only decides what the optimizer is told.
Report(w) == results' = Append(results, job[w])

(***************************************************************************)
(* compile_and_run_checked_mp: the compilation.                            *)
(***************************************************************************)
CanRead(l) == writers[l] = {} /\ dropped[l] # "write"
CanWrite(l) == writers[l] = {} /\ readers[l] = {} /\ dropped[l] = "no"

StartCompilation(w) ==
  LET l == LockIdx(w) IN
  /\ pc[w] = "acquire_read" /\ CanRead(l)
  /\ readers' = [readers EXCEPT ![l] = @ \cup {w}]
  /\ thread' = [thread EXCEPT ![w] = "compile"]
  /\ failed' = [failed EXCEPT ![w] = FALSE]
  /\ pc' = [pc EXCEPT ![w] = "compile"]
  /\ UNCHANGED <<search, event, results, cpus, process, writers, dropped, faults>>

\* The thread cannot be started: the lock is released again, the exception
\* printed, and no result put.
StartCompilationRaises(w) ==
  /\ MayRaise /\ pc[w] = "acquire_read" /\ CanRead(LockIdx(w))
  /\ pc' = [pc EXCEPT ![w] = "idle"]
  /\ job' = [job EXCEPT ![w] = 0]
  /\ lostUnnoticed' = TRUE
  /\ UNCHANGED <<search, event, results, cpus, cpu, wide, thread, failed, locks, crashes, sigint>>

\* The thread ends by itself, successfully or not.
ThreadEnds(w) ==
  /\ thread[w] # "none"
  /\ thread' = [thread EXCEPT ![w] = "none"]
  /\ \E f \in BOOLEAN : failed' = [failed EXCEPT ![w] = f]
  /\ UNCHANGED <<search, event, results, cpus, pc, process, locks, faults>>

\* join() returns when the thread has ended or after the timeout, and the
\* lock is released.
JoinCompilation(w) ==
  /\ pc[w] = "compile"
  /\ readers' = [readers EXCEPT ![LockIdx(w)] = @ \ {w}]
  /\ pc' = [pc EXCEPT ![w] = "compiled"]
  /\ UNCHANGED <<search, event, results, cpus, process, thread, failed, writers, dropped,
                 faults>>

AfterCompilation(w) ==
  /\ pc[w] = "compiled"
  /\ \/ /\ thread[w] # "none"
        /\ pc' = [pc EXCEPT ![w] = "put_cpu"]
        /\ UNCHANGED <<results, job>>
     \/ /\ thread[w] = "none" /\ failed[w]
        /\ Report(w)
        /\ pc' = [pc EXCEPT ![w] = "idle"]
        /\ job' = [job EXCEPT ![w] = 0]
     \/ /\ thread[w] = "none" /\ ~failed[w]
        /\ pc' = [pc EXCEPT ![w] = "acquire_write"]
        /\ UNCHANGED <<results, job>>
  /\ UNCHANGED <<search, event, cpus, cpu, wide, thread, failed, locks, faults>>

(***************************************************************************)
(* kill_process: three steps, with the thread still running.               *)
(***************************************************************************)
\* Defect: the CPU is not put back.
PutCpuBackForgotten(w) ==
  /\ pc[w] = "put_cpu"
  /\ pc' = [pc EXCEPT ![w] = "put_result"]
  /\ UNCHANGED <<search, event, results, cpus, process, thread, failed, locks, faults>>

PutCpuBack(w) ==
  /\ pc[w] = "put_cpu"
  /\ cpus' = Append(cpus, cpu[w])
  /\ pc' = [pc EXCEPT ![w] = "put_result"]
  /\ UNCHANGED <<search, event, results, process, thread, failed, locks, faults>>

\* Defect: no result is put.
ReportTimeoutForgotten(w) ==
  /\ pc[w] = "put_result"
  /\ pc' = [pc EXCEPT ![w] = "kill"]
  /\ job' = [job EXCEPT ![w] = 0]
  /\ UNCHANGED <<search, event, results, cpus, cpu, wide, thread, failed, locks, faults>>

ReportTimeout(w) ==
  /\ pc[w] = "put_result"
  /\ Report(w)
  /\ pc' = [pc EXCEPT ![w] = "kill"]
  /\ job' = [job EXCEPT ![w] = 0]
  /\ UNCHANGED <<search, event, cpus, cpu, wide, thread, failed, locks, faults>>

\* The process is gone, with its thread; a lock it held stays locked.
Die(w) ==
  /\ pc' = [pc EXCEPT ![w] = "dead"]
  /\ thread' = [thread EXCEPT ![w] = "none"]
  /\ readers' = [l \in Locks |-> readers[l] \ {w}]
  /\ writers' = [l \in Locks |-> writers[l] \ {w}]
  /\ dropped' = [l \in Locks |-> IF w \in writers[l] THEN "write"
                                 ELSE IF w \in readers[l] THEN "read" ELSE dropped[l]]
  /\ cpu' = [cpu EXCEPT ![w] = 0]
  /\ wide' = [wide EXCEPT ![w] = FALSE]
  /\ job' = [job EXCEPT ![w] = 0]
  /\ failed' = [failed EXCEPT ![w] = FALSE]
  /\ UNCHANGED <<search, results, cpus>>

KillSelf(w) == pc[w] = "kill" /\ Die(w) /\ UNCHANGED <<event, faults>>

(***************************************************************************)
(* compile_and_run_checked_mp: the benchmark.                              *)
(***************************************************************************)
\* Defect: the lock is taken in read mode.
StartBenchmarkShared(w) ==
  LET l == LockIdx(w) IN
  /\ pc[w] = "acquire_write" /\ CanRead(l)
  /\ writers' = [writers EXCEPT ![l] = @ \cup {w}]
  /\ wide' = [wide EXCEPT ![w] = TRUE]
  /\ thread' = [thread EXCEPT ![w] = "benchmark"]
  /\ failed' = [failed EXCEPT ![w] = FALSE]
  /\ pc' = [pc EXCEPT ![w] = "benchmark"]
  /\ UNCHANGED <<search, event, results, cpus, cpu, job, readers, dropped, faults>>

StartBenchmark(w) ==
  LET l == LockIdx(w) IN
  /\ pc[w] = "acquire_write" /\ CanWrite(l)
  /\ writers' = [writers EXCEPT ![l] = @ \cup {w}]
  /\ wide' = [wide EXCEPT ![w] = TRUE]
  /\ thread' = [thread EXCEPT ![w] = "benchmark"]
  /\ failed' = [failed EXCEPT ![w] = FALSE]
  /\ pc' = [pc EXCEPT ![w] = "benchmark"]
  /\ UNCHANGED <<search, event, results, cpus, cpu, job, readers, dropped, faults>>

\* sched_setaffinity, or after it the start of the thread, raises: likewise,
\* and the affinity is not restored.
StartBenchmarkRaises(w) ==
  /\ MayRaise /\ pc[w] = "acquire_write" /\ CanWrite(LockIdx(w))
  /\ \E pinned \in BOOLEAN : wide' = [wide EXCEPT ![w] = pinned]
  /\ pc' = [pc EXCEPT ![w] = "idle"]
  /\ job' = [job EXCEPT ![w] = 0]
  /\ lostUnnoticed' = TRUE
  /\ UNCHANGED <<search, event, results, cpus, cpu, thread, failed, locks, crashes, sigint>>

JoinBenchmark(w) ==
  /\ pc[w] = "benchmark"
  /\ writers' = [writers EXCEPT ![LockIdx(w)] = @ \ {w}]
  /\ pc' = [pc EXCEPT ![w] = "measured"]
  /\ UNCHANGED <<search, event, results, cpus, process, thread, failed, readers, dropped,
                 faults>>

\* Defect: after a timeout the process goes on to report a failure as well.
AfterBenchmarkReportsTwice(w) ==
  /\ pc[w] = "measured"
  /\ \/ /\ thread[w] # "none"
        /\ pc' = [pc EXCEPT ![w] = "put_cpu"]
        /\ Report(w)
        /\ UNCHANGED <<job, wide>>
     \/ /\ thread[w] = "none"
        /\ wide' = [wide EXCEPT ![w] = FALSE]
        /\ Report(w)
        /\ pc' = [pc EXCEPT ![w] = "idle"]
        /\ job' = [job EXCEPT ![w] = 0]
  /\ UNCHANGED <<search, event, cpus, cpu, thread, failed, locks, faults>>

AfterBenchmark(w) ==
  /\ pc[w] = "measured"
  /\ \/ /\ thread[w] # "none"
        /\ pc' = [pc EXCEPT ![w] = "put_cpu"]
        /\ UNCHANGED <<results, job, wide>>
     \/ /\ thread[w] = "none"
        /\ wide' = [wide EXCEPT ![w] = FALSE]
        /\ Report(w)
        /\ pc' = [pc EXCEPT ![w] = "idle"]
        /\ job' = [job EXCEPT ![w] = 0]
  /\ UNCHANGED <<search, event, cpus, cpu, thread, failed, locks, faults>>

(***************************************************************************)
(* Deaths that the process does not choose.                                *)
(***************************************************************************)
\* Native code of the compiler or the benchmark crashes.
Crash(w) ==
  /\ thread[w] # "none" /\ crashes + (IF sigint THEN 1 ELSE 0) < MaxFaults
  /\ crashes' = crashes + 1
  /\ lostUnnoticed' = (lostUnnoticed \/ pc[w] = "put_result")
  /\ Die(w)
  /\ UNCHANGED <<event, sigint>>

\* The worker's own SIGINT handler; a thread that is alive has until the main
\* process terminates the pool, which is not told apart from dying at once.
WorkerInterrupted(w) ==
  /\ sigint /\ Searching /\ pc[w] # "dead"
  /\ event' = TRUE
  /\ Die(w)
  /\ UNCHANGED faults

Init ==
  /\ main = "check" /\ asked = 0 /\ rounds = 0 /\ told = {} /\ event = FALSE
  /\ jobs = << >> /\ results = << >>
  /\ cpus = [i \in 1 .. NumTasks |-> (i - 1) % CpuCount]
  /\ pc = [w \in Workers |-> "new"] /\ cpu = [w \in Workers |-> 0]
  /\ wide = [w \in Workers |-> FALSE] /\ job = [w \in Workers |-> 0]
  /\ thread = [w \in Workers |-> "none"] /\ failed = [w \in Workers |-> FALSE]
  /\ readers = [l \in Locks |-> {}] /\ writers = [l \in Locks |-> {}]
  /\ dropped = [l \in Locks |-> "no"]
  /\ crashes = 0 /\ lostUnnoticed = FALSE /\ sigint = FALSE

MainStep == EnqueueInitial \/ CheckEvent \/ GetResult \/ FinishSearch \/ Interrupted

\* What the process in slot w, or the pool for it, does by itself.
ProcessStep(w) ==
  \/ RepopulatePool(w) \/ InitProcess(w) \/ TakeJob(w)
  \/ StartCompilation(w) \/ StartCompilationRaises(w)
  \/ JoinCompilation(w) \/ AfterCompilation(w)
  \/ StartBenchmark(w) \/ StartBenchmarkRaises(w) \/ JoinBenchmark(w) \/ AfterBenchmark(w)
  \/ PutCpuBack(w) \/ ReportTimeout(w) \/ KillSelf(w)

WorkerStep(w) == ProcessStep(w) \/ ThreadEnds(w) \/ Crash(w) \/ WorkerInterrupted(w)

Over == ~Searching /\ UNCHANGED vars

Next == MainStep \/ PressCtrlC \/ Over \/ \E w \in Workers : Searching /\ WorkerStep(w)

\* The operating system schedules every process, and both join() calls have a
\* timeout.  A compilation or a benchmark need not end.
Fairness ==
  /\ WF_vars(MainStep)
  /\ \A w \in Workers : WF_vars(Searching /\ ProcessStep(w))

Spec == Init /\ [][Next]_vars /\ Fairness

(***************************************************************************)
(* Properties.                                                             *)
(***************************************************************************)
\* The join() of the worker's current thread has returned, by its timeout if
\* the thread is alive, and the lock is released.
Released(w) == pc[w] \in {"compiled", "measured", "put_cpu", "put_result", "kill"}

(***************************************************************************)
(* The comment on the write lock says "No other compilation or benchmark   *)
(* may run on this CPU range".  What the locks do guarantee: only a thread *)
(* that has outlived its timeout, of a process that is about to kill       *)
(* itself, can run beside a benchmark.                                     *)
(***************************************************************************)
AloneUnlessTimedOut ==
  \A v, w \in Workers :
    /\ thread[v] = "benchmark" /\ thread[w] # "none" /\ v # w
    /\ LockIdx(v) = LockIdx(w)
    => Released(v) \/ Released(w)

\* The processes that own a place in the pool's CPU assignment.
Pinned == {w \in Workers : pc[w] \notin {"new", "put_result", "kill", "dead"}}

Occurrences(s, x) == Cardinality({i \in DOMAIN s : s[i] = x})

(***************************************************************************)
(* CPUs are neither lost nor handed out twice: as long as every process    *)
(* that has died killed itself after a timeout, each CPU is in the queue   *)
(* or in use as many times as it was put there.                            *)
(***************************************************************************)
CpusConserved ==
  Searching =>
  \A c \in Cpus :
    LET initial == Cardinality({i \in 1 .. NumTasks : (i - 1) % CpuCount = c})
        present == Occurrences(cpus, c) + Cardinality({w \in Pinned : cpu[w] = c})
    IN IF crashes = 0 /\ ~sigint THEN present = initial ELSE present <= initial

InFlight == {w \in Workers : pc[w] # "dead" /\ job[w] # 0}

Copies(p) == Occurrences(jobs, p) + Occurrences(results, p) + (IF p \in told THEN 1 ELSE 0)
               + Cardinality({w \in InFlight : job[w] = p})

(***************************************************************************)
(* No proposal is evaluated or reported twice, and none disappears unless  *)
(* a process died or raised.                                               *)
(***************************************************************************)
ProposalsConserved ==
  \A p \in Proposals :
    /\ Copies(p) <= (IF p <= asked THEN 1 ELSE 0)
    /\ Searching /\ p <= asked /\ ~lostUnnoticed /\ crashes = 0 /\ ~sigint => Copies(p) = 1

(***************************************************************************)
(* Seen from its optimizer, the search is a plain ask-and-tell search.     *)
(***************************************************************************)
Optimizer == INSTANCE AskTell
  WITH status <- CASE main = "done" -> "done"
                   [] main = "stopped" -> "aborted"
                   [] OTHER -> "searching"
ImplementsAskTell == Optimizer!Spec

(***************************************************************************)
(* The search ends, whatever times out or crashes: it has its results, or  *)
(* it notices that a process has crashed and stops.  Two things it does    *)
(* not notice: a crash between the two put() calls of kill_process (the    *)
(* CPU is back, the result is lost), and an exception, whose handler       *)
(* prints it and loses the job without a crash.                            *)
(***************************************************************************)
SearchEndsUnlessLost ==
  <>(~Searching \/ lostUnnoticed)

=============================================================================
