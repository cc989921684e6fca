------------------------ MODULE ParallelSearchProofs ------------------------
(***************************************************************************)
(* What the locks and queues of the parallel search guarantee, for any     *)
(* number of tasks, CPUs and proposals, and whatever crashes, raises or is *)
(* interrupted: a benchmark is alone, no proposal and no CPU is duplicated *)
(* or lost, and the search implements ask-and-tell.                        *)
(*                                                                         *)
(* LockInv says which lock a process holds in which place of its code, and *)
(* that a writer is alone.  SearchInv says where a process has a job, that *)
(* it is pinned to a CPU range only where the code says so, and that the   *)
(* rounds count the proposals that were told.                              *)
(***************************************************************************)
EXTENDS ParallelSearch, SequenceTheorems, FiniteSetTheorems, TLAPS

\* The places in which a compilation, or a benchmark, thread may be alive.
Dying == {"put_cpu", "put_result", "kill"}
CompilePcs == {"compile", "compiled"} \cup Dying
BenchmarkPcs == {"benchmark", "measured"} \cup Dying

LockTypes ==
  /\ cpus \in Seq(Cpus) /\ cpu \in [Workers -> Cpus]
  /\ pc \in [Workers -> {"new", "idle", "acquire_read", "acquire_write", "dead"}
                          \cup CompilePcs \cup BenchmarkPcs]
  /\ thread \in [Workers -> {"none", "compile", "benchmark"}]
  /\ readers \in [Locks -> SUBSET Workers] /\ writers \in [Locks -> SUBSET Workers]

Held ==
  \A w \in Workers :
    /\ thread[w] = "compile" => pc[w] \in CompilePcs
    /\ thread[w] = "benchmark" => pc[w] \in BenchmarkPcs
    /\ pc[w] = "compile" => w \in readers[LockIdx(w)]
    /\ pc[w] = "benchmark" => w \in writers[LockIdx(w)]

WriterAlone ==
  \A l \in Locks : \A v \in writers[l] : readers[l] = {} /\ writers[l] = {v}

LockInv == LockTypes /\ Held /\ WriterAlone

(* The lock of a process is one of the locks.                              *)
LEMMA LockIdxType ==
  ASSUME LockTypes, NEW w \in Workers
  PROVE  LockIdx(w) \in Locks
BY DEF LockTypes, LockIdx, Locks

(* A step that changes neither CPUs nor locks keeps the invariant if the   *)
(* process it moves does not go where it would have to hold a lock, and    *)
(* has no thread, or a thread that it may have there.                      *)
LEMMA Move ==
  ASSUME LockInv, NEW w \in Workers,
         NEW p \in {"new", "idle", "acquire_read", "acquire_write", "dead"}
                     \cup CompilePcs \cup BenchmarkPcs,
         p \notin {"compile", "benchmark"},
         thread[w] = "compile" => p \in CompilePcs,
         thread[w] = "benchmark" => p \in BenchmarkPcs,
         pc' = [pc EXCEPT ![w] = p],
         UNCHANGED <<cpus, cpu, thread, readers, writers>>
  PROVE  LockInv'
BY DEF LockInv, LockTypes, Held, WriterAlone, LockIdx

(* A worker that starts, or is replaced, or takes a job holds no lock.     *)
LEMMA StartsKeep ==
  ASSUME LockInv, NEW w \in Workers,
         RepopulatePool(w) \/ InitProcess(w) \/ TakeJob(w)
  PROVE  LockInv'
<1>1. CASE RepopulatePool(w)
  BY <1>1, Move DEF RepopulatePool, process, locks, LockInv, LockTypes, Held, CompilePcs, BenchmarkPcs, Dying
<1>2. CASE InitProcess(w)
  <2>1. cpus' \in Seq(Cpus) /\ cpu' \in [Workers -> Cpus]
    <3>1. CASE cpus = << >>
      BY <1>2, <3>1 DEF InitProcess, LockInv, LockTypes
    <3>2. CASE cpus # << >>
      <4>1. cpus \in Seq(Cpus) /\ Head(cpus) \in Cpus /\ Tail(cpus) \in Seq(Cpus)
        BY <3>2 DEF LockInv, LockTypes
      <4> QED BY <1>2, <3>2, <4>1 DEF InitProcess, LockInv, LockTypes
    <3> QED BY <3>1, <3>2
  <2>2. PICK p \in {"idle", "dead"} : pc' = [pc EXCEPT ![w] = p]
    BY <1>2 DEF InitProcess
  <2>3. /\ pc[w] = "new" /\ thread[w] = "none"
        /\ \A v \in Workers \ {w} : cpu'[v] = cpu[v]
        /\ UNCHANGED <<thread, readers, writers>>
    BY <1>2 DEF InitProcess, locks, LockInv, LockTypes, Held, CompilePcs, BenchmarkPcs, Dying
  <2>4. LockTypes'
    BY <2>1, <2>2, <2>3 DEF LockInv, LockTypes
  <2>5. Held'
    BY <2>2, <2>3 DEF LockInv, LockTypes, Held, LockIdx
  <2>6. WriterAlone'
    BY <2>3 DEF LockInv, WriterAlone
  <2> QED BY <2>4, <2>5, <2>6 DEF LockInv
<1>3. CASE TakeJob(w)
  <2>1. \E p \in {"idle", "acquire_read"} : pc' = [pc EXCEPT ![w] = p]
    BY <1>3 DEF TakeJob, LockInv, LockTypes
  <2>2. pc[w] = "idle" /\ thread[w] = "none"
    BY <1>3 DEF TakeJob, LockInv, LockTypes, Held, CompilePcs, BenchmarkPcs, Dying
  <2> QED BY <1>3, <2>1, <2>2, Move DEF TakeJob, locks
<1> QED BY <1>1, <1>2, <1>3

(* A compilation takes the lock that no benchmark holds, and gives it back *)
(* when its join() returns, whether or not the thread is alive.            *)
LEMMA CompilationKeeps ==
  ASSUME LockInv, NEW w \in Workers,
         \/ StartCompilation(w) \/ StartCompilationRaises(w)
         \/ JoinCompilation(w) \/ AfterCompilation(w)
  PROVE  LockInv'
<1> DEFINE l == LockIdx(w)
<1>1. l \in Locks
  BY LockIdxType DEF LockInv
<1>2. CASE StartCompilation(w)
  <2>1. LockTypes'
    BY <1>2, <1>1 DEF StartCompilation, process, LockInv, LockTypes, CompilePcs
  <2>2. Held'
    BY <1>2, <1>1 DEF StartCompilation, process, LockInv, LockTypes, Held, LockIdx, CompilePcs, BenchmarkPcs, Dying
  <2>3. WriterAlone'
    BY <1>2, <1>1 DEF StartCompilation, CanRead, LockInv, LockTypes, WriterAlone
  <2> QED BY <2>1, <2>2, <2>3 DEF LockInv
<1>3. CASE JoinCompilation(w)
  <2>1. LockTypes'
    BY <1>3, <1>1 DEF JoinCompilation, process, LockInv, LockTypes, CompilePcs
  <2>2. Held'
    BY <1>3, <1>1 DEF JoinCompilation, process, LockInv, LockTypes, Held, LockIdx, CompilePcs, BenchmarkPcs, Dying
  <2>3. WriterAlone'
    BY <1>3, <1>1 DEF JoinCompilation, LockInv, LockTypes, WriterAlone
  <2> QED BY <2>1, <2>2, <2>3 DEF LockInv
<1>4. CASE AfterCompilation(w)
  <2>1. PICK p \in {"put_cpu", "idle", "acquire_write"} :
          pc' = [pc EXCEPT ![w] = p] /\ (p = "put_cpu" \/ thread[w] = "none")
    BY <1>4 DEF AfterCompilation
  <2> QED BY <1>4, <2>1, Move DEF AfterCompilation, locks, CompilePcs, BenchmarkPcs, Dying
<1>5. CASE StartCompilationRaises(w)
  <2>1. thread[w] = "none"
    BY <1>5 DEF StartCompilationRaises, LockInv, LockTypes, Held, CompilePcs, BenchmarkPcs, Dying
  <2> QED BY <1>5, <2>1, Move DEF StartCompilationRaises, locks
<1> QED BY <1>2, <1>3, <1>4, <1>5

(* A benchmark takes the lock that nobody holds, and gives it back when    *)
(* its join() returns.                                                     *)
LEMMA BenchmarkKeeps ==
  ASSUME LockInv, NEW w \in Workers,
         StartBenchmark(w) \/ StartBenchmarkRaises(w) \/ JoinBenchmark(w) \/ AfterBenchmark(w)
  PROVE  LockInv'
<1> DEFINE l == LockIdx(w)
<1>1. l \in Locks
  BY LockIdxType DEF LockInv
<1>2. CASE StartBenchmark(w)
  <2>1. LockTypes'
    BY <1>2, <1>1 DEF StartBenchmark, LockInv, LockTypes, BenchmarkPcs
  <2>2. Held'
    BY <1>2, <1>1 DEF StartBenchmark, LockInv, LockTypes, Held, LockIdx, CompilePcs, BenchmarkPcs, Dying
  <2>3. WriterAlone'
    BY <1>2, <1>1 DEF StartBenchmark, CanWrite, LockInv, LockTypes, WriterAlone
  <2> QED BY <2>1, <2>2, <2>3 DEF LockInv
<1>3. CASE StartBenchmarkRaises(w)
  <2>1. thread[w] = "none"
    BY <1>3 DEF StartBenchmarkRaises, LockInv, LockTypes, Held, CompilePcs, BenchmarkPcs, Dying
  <2> QED BY <1>3, <2>1, Move DEF StartBenchmarkRaises, locks
<1>4. CASE JoinBenchmark(w)
  <2>1. LockTypes'
    BY <1>4, <1>1 DEF JoinBenchmark, process, LockInv, LockTypes, BenchmarkPcs
  <2>2. Held'
    BY <1>4, <1>1 DEF JoinBenchmark, process, LockInv, LockTypes, Held, LockIdx, CompilePcs, BenchmarkPcs, Dying
  <2>3. WriterAlone'
    BY <1>4, <1>1 DEF JoinBenchmark, LockInv, LockTypes, WriterAlone
  <2> QED BY <2>1, <2>2, <2>3 DEF LockInv
<1>5. CASE AfterBenchmark(w)
  <2>1. PICK p \in {"put_cpu", "idle"} :
          pc' = [pc EXCEPT ![w] = p] /\ (p = "put_cpu" \/ thread[w] = "none")
    BY <1>5 DEF AfterBenchmark
  <2> QED BY <1>5, <2>1, Move DEF AfterBenchmark, locks, CompilePcs, BenchmarkPcs, Dying
<1> QED BY <1>2, <1>3, <1>4, <1>5

(* A process that puts its CPU back and reports holds no lock any more.    *)
LEMMA TimeoutKeeps ==
  ASSUME LockInv, NEW w \in Workers, PutCpuBack(w) \/ ReportTimeout(w)
  PROVE  LockInv'
<1>1. CASE PutCpuBack(w)
  <2>1. cpus' \in Seq(Cpus)
    BY <1>1 DEF PutCpuBack, LockInv, LockTypes
  <2>2. LockTypes'
    BY <1>1, <2>1 DEF PutCpuBack, process, locks, LockInv, LockTypes, CompilePcs, Dying
  <2>3. Held' /\ WriterAlone'
    BY <1>1 DEF PutCpuBack, process, locks, LockInv, LockTypes, Held, WriterAlone, LockIdx, CompilePcs, BenchmarkPcs, Dying
  <2> QED BY <2>2, <2>3 DEF LockInv
<1>2. CASE ReportTimeout(w)
  BY <1>2, Move DEF ReportTimeout, locks, CompilePcs, BenchmarkPcs, Dying
<1> QED BY <1>1, <1>2

(* The death of a process leaves the locks of the others as they are.      *)
LEMMA DieKeeps ==
  ASSUME LockInv, NEW w \in Workers, Die(w), SearchAssumption
  PROVE  LockInv'
<1>1. 0 \in Cpus
  BY DEF SearchAssumption, Cpus
<1>2. LockTypes'
  BY <1>1 DEF Die, LockInv, LockTypes
<1>3. \A v \in Workers : v # w => cpu'[v] = cpu[v] /\ pc'[v] = pc[v] /\ thread'[v] = thread[v]
  BY DEF Die, LockInv, LockTypes
<1>4. pc'[w] = "dead" /\ thread'[w] = "none"
  BY DEF Die, LockInv, LockTypes
<1>5. \A v \in Workers : LockIdx(v) \in Locks
  BY LockIdxType DEF LockInv
<1>6. Held'
  BY <1>3, <1>4, <1>5 DEF Die, LockInv, Held, LockIdx
<1>7. WriterAlone'
  BY DEF Die, LockInv, LockTypes, WriterAlone
<1> QED BY <1>2, <1>6, <1>7 DEF LockInv

(* Every step keeps the invariant.                                         *)
LEMMA LockInvStep ==
  ASSUME LockInv, [Next]_vars, SearchAssumption
  PROVE  LockInv'
<1> DEFINE Kept == UNCHANGED <<cpus, pc, cpu, thread, readers, writers>>
<1>1. CASE Kept
  BY <1>1 DEF LockInv, LockTypes, Held, WriterAlone, LockIdx
<1>2. CASE Stop
  <2>1. LockTypes'
    BY <1>2 DEF Stop, process, locks, LockInv, LockTypes
  <2>2. Held' /\ WriterAlone'
    BY <1>2 DEF Stop, process, locks, LockInv, Held, WriterAlone
  <2> QED BY <2>1, <2>2 DEF LockInv
<1>3. CASE MainStep \/ PressCtrlC
  BY <1>3, <1>1, <1>2 DEF MainStep, EnqueueInitial, CheckEvent, GetResult, FinishSearch,
    Interrupted, PressCtrlC, process, locks
<1>4. ASSUME NEW w \in Workers, WorkerStep(w)
      PROVE  LockInv'
  <2>1. CASE KillSelf(w) \/ Crash(w) \/ WorkerInterrupted(w)
    BY <2>1, DieKeeps DEF KillSelf, Crash, WorkerInterrupted
  <2>2. CASE ThreadEnds(w)
    <3>1. LockTypes'
      BY <2>2 DEF ThreadEnds, process, locks, LockInv, LockTypes
    <3>2. Held' /\ WriterAlone'
      BY <2>2 DEF ThreadEnds, process, locks, LockInv, LockTypes, Held, WriterAlone, LockIdx
    <3> QED BY <3>1, <3>2 DEF LockInv
  <2> QED BY <1>4, <2>1, <2>2, StartsKeep, CompilationKeeps, BenchmarkKeeps, TimeoutKeeps
        DEF WorkerStep, ProcessStep
<1>5. CASE Over \/ UNCHANGED vars
  BY <1>5, <1>1 DEF Over, vars
<1> QED BY <1>3, <1>4, <1>5 DEF Next

(* Nobody holds a lock when the search starts.                             *)
LEMMA LockInvInit ==
  ASSUME Init, SearchAssumption
  PROVE  LockInv
<1>1. 0 \in Cpus /\ \A i \in 1 .. NumTasks : (i - 1) % CpuCount \in Cpus
  BY DEF SearchAssumption, Cpus
<1>2. cpus \in Seq(Cpus)
  <2>1. cpus \in [1 .. NumTasks -> Cpus] /\ NumTasks \in Nat
    BY <1>1 DEF Init, SearchAssumption
  <2> QED BY <2>1, SeqDef
<1>3. LockTypes
  BY <1>1, <1>2 DEF Init, LockTypes
<1>4. Held /\ WriterAlone
  BY DEF Init, Held, WriterAlone
<1> QED BY <1>3, <1>4 DEF LockInv

(* A benchmark within its time holds the lock alone, and another thread    *)
(* within its time would hold the same lock.                               *)
LEMMA LockInvAlone ==
  ASSUME LockInv
  PROVE  AloneUnlessTimedOut
<1> SUFFICES ASSUME NEW v \in Workers, NEW w \in Workers,
                    thread[v] = "benchmark", thread[w] # "none", v # w,
                    LockIdx(v) = LockIdx(w), ~Released(v), ~Released(w)
             PROVE  FALSE
  BY DEF AloneUnlessTimedOut
<1>1. pc[v] = "benchmark" /\ v \in writers[LockIdx(v)]
  BY DEF LockInv, Held, Released, BenchmarkPcs, Dying
<1>2. w \in readers[LockIdx(w)] \/ w \in writers[LockIdx(w)]
  BY DEF LockInv, LockTypes, Held, Released, CompilePcs, BenchmarkPcs, Dying
<1>3. LockIdx(v) \in Locks
  BY LockIdxType DEF LockInv
<1> QED BY <1>1, <1>2, <1>3 DEF LockInv, WriterAlone

(***************************************************************************)
(* compile_and_run_checked_mp with its lock per CPU range: for any number  *)
(* of tasks and CPUs, with crashes, exceptions and Ctrl+C, only a thread   *)
(* that has outlived its timeout runs beside a benchmark.                  *)
(***************************************************************************)
THEOREM AloneAlways == Spec => []AloneUnlessTimedOut
<1>1. Init => LockInv
  BY LockInvInit, SearchAssumption
<1>2. LockInv /\ [Next]_vars => LockInv'
  BY LockInvStep, SearchAssumption
<1>3. LockInv => AloneUnlessTimedOut
  BY LockInvAlone
<1> QED BY <1>1, <1>2, <1>3, PTL DEF Spec

(***************************************************************************)
(* Counting: how often a value occurs in a queue, and how many processes   *)
(* have a property that a step changes for one of them.                    *)
(***************************************************************************)

(* The number of occurrences is a number.                                  *)
LEMMA OccurrencesType ==
  ASSUME NEW S, NEW s \in Seq(S), NEW x
  PROVE  /\ IsFiniteSet({i \in DOMAIN s : s[i] = x})
         /\ Occurrences(s, x) \in Nat
<1>1. DOMAIN s = 1 .. Len(s) /\ Len(s) \in Nat
  OBVIOUS
<1>2. IsFiniteSet(1 .. Len(s))
  BY <1>1, FS_Interval
<1>3. {i \in DOMAIN s : s[i] = x} \in SUBSET (1 .. Len(s))
  BY <1>1
<1>4. IsFiniteSet({i \in DOMAIN s : s[i] = x})
  BY <1>2, <1>3, FS_Subset
<1> QED BY <1>4, FS_CardinalityType DEF Occurrences

(* An element at the end counts once.                                      *)
LEMMA OccurrencesAppend ==
  ASSUME NEW S, NEW s \in Seq(S), NEW e \in S, NEW x
  PROVE  Occurrences(Append(s, e), x) = Occurrences(s, x) + (IF e = x THEN 1 ELSE 0)
<1> DEFINE A == {i \in DOMAIN s : s[i] = x}
           B == {i \in DOMAIN Append(s, e) : Append(s, e)[i] = x}
           n == Len(s) + 1
<1>1. /\ Append(s, e) \in Seq(S) /\ DOMAIN s = 1 .. Len(s) /\ Len(s) \in Nat
      /\ Len(Append(s, e)) = n /\ DOMAIN Append(s, e) = 1 .. n
      /\ Append(s, e)[n] = e /\ \A i \in 1 .. Len(s) : Append(s, e)[i] = s[i]
  OBVIOUS
<1>2. IsFiniteSet(A)
  BY OccurrencesType
<1>3. n \notin A
  BY <1>1
<1>4. Occurrences(s, x) = Cardinality(A) /\ Occurrences(Append(s, e), x) = Cardinality(B)
  BY DEF Occurrences
<1>5. CASE e = x
  <2>1. B = A \cup {n}
    BY <1>1, <1>5
  <2>2. Cardinality(B) = Cardinality(A) + 1
    BY <2>1, <1>2, <1>3, FS_AddElement
  <2> HIDE DEF A, B, n
  <2> QED BY <1>5, <2>2, <1>4
<1>6. CASE e # x
  <2>1. B = A
    BY <1>1, <1>6
  <2>2. Cardinality(A) \in Nat
    BY <1>2, FS_CardinalityType
  <2> HIDE DEF A, B
  <2> QED BY <1>6, <2>1, <2>2, <1>4
<1> QED BY <1>5, <1>6

(* Taking the first element uncounts it.                                   *)
LEMMA OccurrencesTail ==
  ASSUME NEW S, NEW s \in Seq(S), s # << >>, NEW x
  PROVE  Occurrences(s, x) = Occurrences(Tail(s), x) + (IF Head(s) = x THEN 1 ELSE 0)
<1> DEFINE A == {i \in DOMAIN s : s[i] = x}
           B == {i \in DOMAIN Tail(s) : Tail(s)[i] = x}
           f == [i \in B |-> i + 1]
<1>1. /\ Tail(s) \in Seq(S) /\ DOMAIN s = 1 .. Len(s) /\ Len(s) \in Nat \ {0}
      /\ Len(Tail(s)) = Len(s) - 1 /\ DOMAIN Tail(s) = 1 .. (Len(s) - 1)
      /\ \A i \in 1 .. (Len(s) - 1) : Tail(s)[i] = s[i + 1]
      /\ Head(s) = s[1]
  OBVIOUS
<1>2. IsFiniteSet(A) /\ IsFiniteSet(B)
  BY <1>1, OccurrencesType
<1>3. f \in Bijection(B, A \ {1})
  <2>1. f \in [B -> A \ {1}]
    BY <1>1
  <2>2. \A i, j \in B : f[i] = f[j] => i = j
    BY <1>1
  <2>3. \A k \in A \ {1} : \E i \in B : f[i] = k
    <3> TAKE k \in A \ {1}
    <3>1. k - 1 \in B /\ f[k - 1] = k
      BY <1>1
    <3> QED BY <3>1
  <2> QED BY <2>1, <2>2, <2>3 DEF Bijection, Injection, Surjection, IsInjective
<1>4. Cardinality(A \ {1}) = Cardinality(B)
  BY <1>2, <1>3, FS_Bijection DEF ExistsBijection
<1>5. 1 \in A <=> Head(s) = x
  BY <1>1
<1>6. Cardinality(A) \in Nat
  BY <1>2, FS_CardinalityType
<1>7. Cardinality(A \ {1}) = IF 1 \in A THEN Cardinality(A) - 1 ELSE Cardinality(A)
  BY <1>2, FS_RemoveElement
<1>8. Occurrences(s, x) = Cardinality(A) /\ Occurrences(Tail(s), x) = Cardinality(B)
  BY DEF Occurrences
<1> HIDE DEF A, B
<1> QED BY <1>4, <1>5, <1>6, <1>7, <1>8

(* A value that occurs nowhere in a queue is not in it.                    *)
LEMMA OccurrencesHead ==
  ASSUME NEW S, NEW s \in Seq(S), s # << >>
  PROVE  Occurrences(s, Head(s)) >= 1
<1>1. Tail(s) \in Seq(S)
  OBVIOUS
<1>2. Occurrences(Tail(s), Head(s)) \in Nat
  BY <1>1, OccurrencesType
<1> QED BY <1>2, OccurrencesTail

(* Two sets of processes that agree on all but one.                        *)
LEMMA ChangeOne ==
  ASSUME SearchAssumption, NEW A \in SUBSET Workers, NEW B \in SUBSET Workers, NEW w,
         A \ {w} = B \ {w}
  PROVE  /\ Cardinality(A) \in Nat /\ Cardinality(B) \in Nat
         /\ Cardinality(B) = Cardinality(A) - (IF w \in A THEN 1 ELSE 0)
                               + (IF w \in B THEN 1 ELSE 0)
<1>1. IsFiniteSet(Workers)
  BY FS_Interval DEF Workers, SearchAssumption
<1>2. IsFiniteSet(A) /\ IsFiniteSet(B)
  BY <1>1, FS_Subset
<1>3. Cardinality(A) \in Nat /\ Cardinality(B) \in Nat
  BY <1>2, FS_CardinalityType
<1>4. /\ Cardinality(A \ {w}) = IF w \in A THEN Cardinality(A) - 1 ELSE Cardinality(A)
      /\ Cardinality(B \ {w}) = IF w \in B THEN Cardinality(B) - 1 ELSE Cardinality(B)
  BY <1>2, FS_RemoveElement
<1>5. (IF w \in A THEN Cardinality(A) - 1 ELSE Cardinality(A))
        = (IF w \in B THEN Cardinality(B) - 1 ELSE Cardinality(B))
  BY <1>4
<1> DEFINE a == Cardinality(A)  b == Cardinality(B)
<1>6. a \in Nat /\ b \in Nat
      /\ (IF w \in A THEN a - 1 ELSE a) = (IF w \in B THEN b - 1 ELSE b)
  BY <1>3, <1>5
<1> HIDE DEF a, b
<1>7. b = a - (IF w \in A THEN 1 ELSE 0) + (IF w \in B THEN 1 ELSE 0)
  BY <1>6
<1> USE DEF a, b
<1> QED BY <1>3, <1>7

(***************************************************************************)
(* Where the proposals are.                                                *)
(***************************************************************************)
\* The places in which a process has a job that it has not reported.
Working == {"acquire_read", "compile", "compiled", "acquire_write", "benchmark", "measured",
            "put_cpu", "put_result"}

SearchTypes ==
  /\ asked \in 0 .. Budget /\ rounds \in Nat /\ told \in SUBSET Proposals
  /\ jobs \in Seq(Proposals) /\ results \in Seq(Proposals)
  /\ job \in [Workers -> 0 .. Budget] /\ wide \in [Workers -> BOOLEAN]
  /\ crashes \in Nat /\ lostUnnoticed \in BOOLEAN /\ sigint \in BOOLEAN

\* A process has a job exactly where it works on one, and is pinned to a CPU
\* range only from its benchmark to its death, unless an exception left it so.
JobHeld ==
  Searching =>
  \A w \in Workers :
    /\ job[w] # 0 <=> pc[w] \in Working
    /\ wide[w] /\ ~lostUnnoticed => pc[w] \in BenchmarkPcs

RoundsTold == rounds = Cardinality(told)

SearchInv == SearchTypes /\ JobHeld /\ RoundsTold /\ ProposalsConserved

\* Nothing has died or raised.
Unhurt == ~lostUnnoticed /\ crashes = 0 /\ ~sigint

Holders(pcs, js, p) == {w \in Workers : pcs[w] # "dead" /\ js[w] = p}

Count(js, rs, td, hs, p) ==
  Occurrences(js, p) + Occurrences(rs, p) + (IF p \in td THEN 1 ELSE 0) + Cardinality(hs)

(* The copies of a proposal, in terms of the processes that have it.       *)
LEMMA CopiesAre ==
  ASSUME NEW p \in Proposals
  PROVE  /\ Copies(p) = Count(jobs, results, told, Holders(pc, job, p), p)
         /\ Copies(p)' = Count(jobs', results', told', Holders(pc', job', p), p)
<1>1. p # 0
  BY SearchAssumption DEF Proposals, SearchAssumption
<1>2. {w \in InFlight : job[w] = p} = Holders(pc, job, p)
  BY <1>1 DEF InFlight, Holders
<1>3. {w \in InFlight : job[w] = p}' = Holders(pc', job', p)
  BY <1>1 DEF InFlight, Holders
<1> QED BY <1>2, <1>3 DEF Copies, Count

(* The parts of the count are numbers.                                     *)
LEMMA CountTypes ==
  ASSUME NEW p \in Proposals, NEW js \in Seq(Proposals), NEW pcs, NEW wjs
  PROVE  Occurrences(js, p) \in Nat /\ Cardinality(Holders(pcs, wjs, p)) \in Nat
<1>1. Occurrences(js, p) \in Nat
  BY OccurrencesType
<1>2. Holders(pcs, wjs, p) \in SUBSET Workers
  BY DEF Holders
<1> QED BY <1>1, <1>2, ChangeOne, SearchAssumption

(* The copies of a proposal are a number.                                  *)
LEMMA CopiesType ==
  ASSUME NEW p \in Proposals, SearchTypes
  PROVE  Copies(p) \in Nat
<1>1. Occurrences(jobs, p) \in Nat /\ Occurrences(results, p) \in Nat
  BY CountTypes DEF SearchTypes
<1>2. Cardinality(Holders(pc, job, p)) \in Nat
  BY CountTypes DEF SearchTypes
<1>3. Copies(p) = Occurrences(jobs, p) + Occurrences(results, p)
                    + (IF p \in told THEN 1 ELSE 0) + Cardinality(Holders(pc, job, p))
  BY CopiesAre DEF Count
<1> QED BY <1>1, <1>2, <1>3

(* A step of one process changes the holders of a proposal by that process. *)
LEMMA HoldersChange ==
  ASSUME NEW w \in Workers, NEW p \in Proposals,
         \A v \in Workers \ {w} : pc'[v] = pc[v] /\ job'[v] = job[v]
  PROVE  Cardinality(Holders(pc', job', p)) =
           Cardinality(Holders(pc, job, p))
             - (IF pc[w] # "dead" /\ job[w] = p THEN 1 ELSE 0)
             + (IF pc'[w] # "dead" /\ job'[w] = p THEN 1 ELSE 0)
<1> DEFINE A == Holders(pc, job, p)  B == Holders(pc', job', p)
<1>1. A \in SUBSET Workers /\ B \in SUBSET Workers /\ A \ {w} = B \ {w}
  BY DEF Holders
<1>2. Cardinality(B) = Cardinality(A) - (IF w \in A THEN 1 ELSE 0)
                         + (IF w \in B THEN 1 ELSE 0)
  <2> HIDE DEF A, B
  <2> QED BY <1>1, ChangeOne, SearchAssumption
<1>3. (w \in A <=> pc[w] # "dead" /\ job[w] = p) /\ (w \in B <=> pc'[w] # "dead" /\ job'[w] = p)
  BY DEF Holders
<1> QED BY <1>2, <1>3

(* A step that makes no copies, and loses one only by a death or an        *)
(* exception, conserves the proposals.                                     *)
LEMMA NoCopies ==
  ASSUME SearchInv, asked' = asked, Searching' => Searching, Unhurt' => Unhurt,
         \A p \in Proposals : /\ Copies(p)' \in Nat /\ Copies(p)' <= Copies(p)
                              /\ Searching' /\ Unhurt' => Copies(p)' = Copies(p)
  PROVE  ProposalsConserved'
<1> SUFFICES ASSUME NEW p \in Proposals
             PROVE  /\ Copies(p)' <= (IF p <= asked THEN 1 ELSE 0)
                    /\ Searching' /\ p <= asked /\ Unhurt' => Copies(p)' = 1
  BY DEF ProposalsConserved, Unhurt
<1>1. Copies(p) \in Nat
  BY CopiesType DEF SearchInv
<1>2. /\ Copies(p) <= (IF p <= asked THEN 1 ELSE 0)
      /\ Searching /\ p <= asked /\ Unhurt => Copies(p) = 1
  BY DEF SearchInv, ProposalsConserved, Unhurt
<1>3. asked \in Nat /\ p \in Nat
  BY SearchAssumption DEF SearchInv, SearchTypes, Proposals, SearchAssumption
<1> QED BY <1>1, <1>2, <1>3

(* What a step of process w changes is the queues and its own job.         *)
LEMMA CopiesChange ==
  ASSUME SearchTypes, SearchTypes', NEW w \in Workers, NEW p \in Proposals,
         \A v \in Workers \ {w} : pc'[v] = pc[v] /\ job'[v] = job[v],
         told' = told
  PROVE  /\ Copies(p) \in Nat /\ Copies(p)' \in Nat
         /\ Occurrences(jobs, p) \in Nat /\ Occurrences(jobs', p) \in Nat
         /\ Occurrences(results, p) \in Nat /\ Occurrences(results', p) \in Nat
         /\ Copies(p)' + Occurrences(jobs, p) + Occurrences(results, p)
              + (IF pc[w] # "dead" /\ job[w] = p THEN 1 ELSE 0)
            = Copies(p) + Occurrences(jobs', p) + Occurrences(results', p)
                + (IF pc'[w] # "dead" /\ job'[w] = p THEN 1 ELSE 0)
<1> DEFINE H == Cardinality(Holders(pc, job, p))
           K == Cardinality(Holders(pc', job', p))
           t == IF p \in told THEN 1 ELSE 0
           a == IF pc[w] # "dead" /\ job[w] = p THEN 1 ELSE 0
           b == IF pc'[w] # "dead" /\ job'[w] = p THEN 1 ELSE 0
<1>1. /\ Occurrences(jobs, p) \in Nat /\ Occurrences(jobs', p) \in Nat
      /\ Occurrences(results, p) \in Nat /\ Occurrences(results', p) \in Nat
  BY CountTypes DEF SearchTypes
<1>2. H \in Nat /\ K \in Nat
  BY CountTypes DEF SearchTypes
<1>3. K = H - a + b
  BY HoldersChange
<1>4. /\ Copies(p) = Occurrences(jobs, p) + Occurrences(results, p) + t + H
      /\ Copies(p)' = Occurrences(jobs', p) + Occurrences(results', p) + t + K
  BY CopiesAre DEF Count
<1>5. t \in Nat /\ a \in Nat /\ b \in Nat
  OBVIOUS
<1> HIDE DEF H, K, t, a, b
<1>6. /\ Copies(p) \in Nat /\ Copies(p)' \in Nat
      /\ Copies(p)' + Occurrences(jobs, p) + Occurrences(results, p) + a
         = Copies(p) + Occurrences(jobs', p) + Occurrences(results', p) + b
  BY <1>1, <1>2, <1>3, <1>4, <1>5
<1> QED BY <1>1, <1>6 DEF a, b

(* A step that leaves the queues and the jobs alone, of a process that     *)
(* does not die with a job.                                                *)
LEMMA QuietStep ==
  ASSUME SearchInv, SearchTypes', NEW w \in Workers,
         \A v \in Workers \ {w} : pc'[v] = pc[v] /\ job'[v] = job[v],
         UNCHANGED <<search, results, faults>>,
         job'[w] = job[w],
         job[w] # 0 => pc[w] # "dead" /\ pc'[w] # "dead"
  PROVE  ProposalsConserved' /\ RoundsTold'
<1>1. RoundsTold'
  BY DEF SearchInv, RoundsTold, search
<1>2. ASSUME NEW p \in Proposals
      PROVE  Copies(p)' \in Nat /\ Copies(p)' = Copies(p)
  <2>1. p # 0
    BY SearchAssumption DEF Proposals, SearchAssumption
  <2>2. (pc[w] # "dead" /\ job[w] = p) <=> (pc'[w] # "dead" /\ job'[w] = p)
    BY <2>1
  <2>3. jobs' = jobs /\ results' = results /\ told' = told
    BY DEF search
  <2>4. /\ Copies(p) \in Nat /\ Copies(p)' \in Nat
        /\ Occurrences(jobs, p) \in Nat /\ Occurrences(results, p) \in Nat
        /\ Copies(p)' + Occurrences(jobs, p) + Occurrences(results, p)
              + (IF pc[w] # "dead" /\ job[w] = p THEN 1 ELSE 0)
            = Copies(p) + Occurrences(jobs, p) + Occurrences(results, p)
                + (IF pc[w] # "dead" /\ job[w] = p THEN 1 ELSE 0)
    BY <2>2, <2>3, CopiesChange DEF SearchInv
  <2> QED BY <2>4
<1>3. asked' = asked /\ (Searching' => Searching) /\ (Unhurt' => Unhurt)
  BY DEF search, faults, Searching, Unhurt
<1>4. ASSUME NEW p \in Proposals
      PROVE  /\ Copies(p)' \in Nat /\ Copies(p)' <= Copies(p)
             /\ Searching' /\ Unhurt' => Copies(p)' = Copies(p)
  BY <1>2
<1>5. ProposalsConserved'
  BY <1>3, <1>4, NoCopies
<1> QED BY <1>1, <1>5

(* A report moves the job of the process to the queue of results.          *)
LEMMA ReportStep ==
  ASSUME SearchInv, SearchTypes', NEW w \in Workers,
         \A v \in Workers \ {w} : pc'[v] = pc[v] /\ job'[v] = job[v],
         UNCHANGED <<search, faults>>,
         Report(w), pc[w] # "dead", job[w] # 0, job'[w] = 0
  PROVE  ProposalsConserved' /\ RoundsTold'
<1>1. RoundsTold'
  BY DEF SearchInv, RoundsTold, search
<1>2. ASSUME NEW p \in Proposals
      PROVE  Copies(p)' \in Nat /\ Copies(p)' = Copies(p)
  <2>1. p # 0
    BY SearchAssumption DEF Proposals, SearchAssumption
  <2>2. job[w] \in Proposals
    BY SearchAssumption DEF SearchInv, SearchTypes, Proposals, SearchAssumption
  <2>3. Occurrences(results', p) = Occurrences(results, p) + (IF job[w] = p THEN 1 ELSE 0)
    BY <2>2, OccurrencesAppend DEF Report, SearchInv, SearchTypes
  <2>4. jobs' = jobs /\ told' = told
    BY DEF search
  <2>5. /\ Copies(p) \in Nat /\ Copies(p)' \in Nat
        /\ Occurrences(jobs, p) \in Nat /\ Occurrences(results, p) \in Nat
        /\ Copies(p)' + Occurrences(jobs, p) + Occurrences(results, p)
              + (IF job[w] = p THEN 1 ELSE 0)
            = Copies(p) + Occurrences(jobs, p) + Occurrences(results', p)
    BY <2>1, <2>4, CopiesChange DEF SearchInv
  <2> QED BY <2>3, <2>5
<1>3. asked' = asked /\ (Searching' => Searching) /\ (Unhurt' => Unhurt)
  BY DEF search, faults, Searching, Unhurt
<1>4. ASSUME NEW p \in Proposals
      PROVE  /\ Copies(p)' \in Nat /\ Copies(p)' <= Copies(p)
             /\ Searching' /\ Unhurt' => Copies(p)' = Copies(p)
  BY <1>2
<1>5. ProposalsConserved'
  BY <1>3, <1>4, NoCopies
<1> QED BY <1>1, <1>5

(* A process that dies, or raises an exception, loses its job at most.     *)
LEMMA LosingStep ==
  ASSUME SearchInv, SearchTypes', NEW w \in Workers,
         \A v \in Workers \ {w} : pc'[v] = pc[v] /\ job'[v] = job[v],
         UNCHANGED <<search, results>>,
         job'[w] = 0, ~Unhurt'
  PROVE  ProposalsConserved' /\ RoundsTold'
<1>1. RoundsTold'
  BY DEF SearchInv, RoundsTold, search
<1>2. ASSUME NEW p \in Proposals
      PROVE  Copies(p)' \in Nat /\ Copies(p)' <= Copies(p)
  <2>1. p # 0
    BY SearchAssumption DEF Proposals, SearchAssumption
  <2>2. jobs' = jobs /\ results' = results /\ told' = told
    BY DEF search
  <2>3. /\ Copies(p) \in Nat /\ Copies(p)' \in Nat
        /\ Occurrences(jobs, p) \in Nat /\ Occurrences(results, p) \in Nat
        /\ Copies(p)' + Occurrences(jobs, p) + Occurrences(results, p)
              + (IF pc[w] # "dead" /\ job[w] = p THEN 1 ELSE 0)
            = Copies(p) + Occurrences(jobs, p) + Occurrences(results, p)
    BY <2>1, <2>2, CopiesChange DEF SearchInv
  <2> QED BY <2>3
<1>3. asked' = asked /\ (Searching' => Searching)
  BY DEF search, Searching
<1>4. ProposalsConserved'
  BY <1>2, <1>3, NoCopies
<1> QED BY <1>1, <1>4

(* A process that takes a job has none; a job that the assertion on the    *)
(* affinity loses was lost to an earlier exception.                        *)
LEMMA TakeJobConserves ==
  ASSUME SearchInv, LockInv, Searching, NEW w \in Workers, TakeJob(w)
  PROVE  SearchInv'
<1>1. jobs \in Seq(Proposals) /\ jobs # << >> /\ Head(jobs) \in Proposals /\ jobs' = Tail(jobs)
      /\ Tail(jobs) \in Seq(Proposals)
  BY DEF TakeJob, SearchInv, SearchTypes
<1>2. Head(jobs) \in 0 .. Budget /\ Head(jobs) # 0
  BY <1>1, SearchAssumption DEF Proposals, SearchAssumption
<1>3. SearchTypes'
  BY <1>1, <1>2 DEF TakeJob, SearchInv, SearchTypes, faults
<1>4. job[w] = 0 /\ pc[w] = "idle"
  BY DEF TakeJob, SearchInv, JobHeld, Working
<1>5. JobHeld'
  BY <1>2 DEF TakeJob, SearchInv, SearchTypes, LockInv, LockTypes, JobHeld, Working, faults,
    Searching, BenchmarkPcs, Dying
<1>6. RoundsTold'
  BY DEF TakeJob, SearchInv, RoundsTold
<1>7. \A v \in Workers \ {w} : pc'[v] = pc[v] /\ job'[v] = job[v]
  BY DEF TakeJob, LockInv, LockTypes, SearchInv, SearchTypes
<1>8. /\ told' = told /\ results' = results /\ asked' = asked
      /\ (Searching' => Searching) /\ (Unhurt' => Unhurt)
  BY DEF TakeJob, faults, Unhurt
<1>9. ASSUME NEW p \in Proposals
      PROVE  /\ Copies(p)' \in Nat /\ Copies(p)' <= Copies(p)
             /\ Unhurt' => Copies(p)' = Copies(p)
  <2>1. p # 0
    BY SearchAssumption DEF Proposals, SearchAssumption
  <2>2. /\ Copies(p) \in Nat /\ Copies(p)' \in Nat
        /\ Occurrences(jobs, p) \in Nat /\ Occurrences(jobs', p) \in Nat
        /\ Occurrences(results, p) \in Nat
        /\ Copies(p)' + Occurrences(jobs, p) + Occurrences(results, p)
            = Copies(p) + Occurrences(jobs', p) + Occurrences(results, p)
                + (IF pc'[w] # "dead" /\ job'[w] = p THEN 1 ELSE 0)
    BY <1>3, <1>4, <1>7, <1>8, <2>1, CopiesChange DEF SearchInv
  <2>3. Occurrences(jobs, p) = Occurrences(jobs', p) + (IF Head(jobs) = p THEN 1 ELSE 0)
    BY <1>1, OccurrencesTail
  <2>4. CASE wide[w] /\ CpusPerBenchmark > 1
    <3>1. job'[w] = 0
      BY <2>4, <1>4 DEF TakeJob
    <3>2. ~Unhurt'
      BY <2>4, <1>4 DEF SearchInv, JobHeld, TakeJob, faults, Unhurt, BenchmarkPcs, Dying
    <3> QED BY <2>1, <2>2, <2>3, <3>1, <3>2
  <2>5. CASE ~(wide[w] /\ CpusPerBenchmark > 1)
    <3>1. job'[w] = Head(jobs) /\ pc'[w] # "dead"
      BY <2>5 DEF TakeJob, LockInv, LockTypes, SearchInv, SearchTypes
    <3> QED BY <2>2, <2>3, <3>1
  <2> QED BY <2>4, <2>5
<1>10. ProposalsConserved'
  BY <1>8, <1>9, NoCopies
<1> QED BY <1>3, <1>5, <1>6, <1>10 DEF SearchInv

\* Process w goes from one of the places P to one of the places Q.
Goes(w, P, Q) == pc[w] \in P /\ \E q \in Q : pc' = [pc EXCEPT ![w] = q]

(* A process that starts, or is replaced, has no job.                      *)
LEMMA StartsConserve ==
  ASSUME SearchInv, LockInv, Searching, NEW w \in Workers,
         RepopulatePool(w) \/ InitProcess(w)
  PROVE  SearchInv'
<1>1. /\ Goes(w, {"new", "dead"}, {"new", "idle", "dead"})
      /\ UNCHANGED <<search, results, faults, job, wide>>
  BY DEF RepopulatePool, InitProcess, process, Goes
<1>2. SearchTypes'
  BY <1>1 DEF SearchInv, SearchTypes, search, faults
<1>3. JobHeld'
  BY <1>1 DEF Goes, SearchInv, SearchTypes, LockInv, LockTypes, JobHeld, Searching, search,
    faults, Working, BenchmarkPcs, Dying
<1>4. job[w] = 0
  BY <1>1 DEF Goes, SearchInv, JobHeld, Working
<1>5. \A v \in Workers \ {w} : pc'[v] = pc[v] /\ job'[v] = job[v]
  BY <1>1 DEF Goes, LockInv, LockTypes
<1>6. ProposalsConserved' /\ RoundsTold'
  BY <1>1, <1>2, <1>4, <1>5, QuietStep
<1> QED BY <1>2, <1>3, <1>6 DEF SearchInv

(* A process at work that goes on with its job keeps it.                   *)
LEMMA WorkConserves ==
  ASSUME SearchInv, LockInv, Searching, NEW w \in Workers,
         Goes(w, Working, Working),
         UNCHANGED <<search, results, faults, job>>,
         \/ wide' = wide /\ (pc'[w] \in BenchmarkPcs \/ pc[w] \notin BenchmarkPcs)
         \/ wide' = [wide EXCEPT ![w] = TRUE] /\ pc'[w] \in BenchmarkPcs
  PROVE  SearchInv'
<1>1. SearchTypes'
  BY DEF SearchInv, SearchTypes, search, faults
<1>2. /\ pc'[w] \in Working
      /\ \A v \in Workers \ {w} : pc'[v] = pc[v] /\ job'[v] = job[v]
  BY DEF Goes, LockInv, LockTypes
<1>3. JobHeld'
  <2>1. \A v \in Workers : job'[v] # 0 <=> pc'[v] \in Working
    BY <1>2 DEF Goes, SearchInv, JobHeld
  <2>2. \A v \in Workers \ {w} : wide'[v] /\ ~lostUnnoticed => pc'[v] \in BenchmarkPcs
    BY <1>2 DEF SearchInv, SearchTypes, JobHeld
  <2>3. wide'[w] /\ ~lostUnnoticed => pc'[w] \in BenchmarkPcs
    BY DEF SearchInv, JobHeld
  <2> QED BY <2>1, <2>2, <2>3 DEF JobHeld, Searching, search, faults
<1>4. pc[w] # "dead" /\ pc'[w] # "dead"
  BY <1>2 DEF Goes, Working
<1>5. ProposalsConserved' /\ RoundsTold'
  BY <1>1, <1>2, <1>4, QuietStep
<1> QED BY <1>1, <1>3, <1>5 DEF SearchInv

(* The steps of a process with a job that do not report it.                *)
LEMMA WorkStepsConserve ==
  ASSUME SearchInv, LockInv, Searching, NEW w \in Workers,
         \/ StartCompilation(w) \/ JoinCompilation(w)
         \/ AfterCompilation(w) /\ results' = results
         \/ StartBenchmark(w) \/ JoinBenchmark(w)
         \/ AfterBenchmark(w) /\ results' = results
         \/ PutCpuBack(w)
  PROVE  SearchInv'
<1>1. results # Append(results, job[w])
  BY DEF SearchInv, SearchTypes
<1>2. CASE \/ StartCompilation(w) \/ JoinCompilation(w)
           \/ AfterCompilation(w) /\ results' = results
  <2>1. Goes(w, {"acquire_read", "compile", "compiled"},
                {"compile", "compiled", "put_cpu", "acquire_write"})
    BY <1>1, <1>2 DEF StartCompilation, JoinCompilation, AfterCompilation, Report, Goes
  <2>2. UNCHANGED <<search, results, faults, job, wide>>
    BY <1>1, <1>2 DEF StartCompilation, JoinCompilation, AfterCompilation, Report, process
  <2>3. Goes(w, Working, Working) /\ pc[w] \notin BenchmarkPcs
    BY <2>1 DEF Goes, Working, BenchmarkPcs, Dying
  <2> QED BY <2>2, <2>3, WorkConserves
<1>3. CASE \/ JoinBenchmark(w) \/ PutCpuBack(w)
           \/ AfterBenchmark(w) /\ results' = results
  <2>1. Goes(w, {"benchmark", "measured", "put_cpu"}, {"measured", "put_cpu", "put_result"})
    BY <1>1, <1>3 DEF JoinBenchmark, PutCpuBack, AfterBenchmark, Report, Goes
  <2>2. UNCHANGED <<search, results, faults, job, wide>>
    BY <1>1, <1>3 DEF JoinBenchmark, PutCpuBack, AfterBenchmark, Report, process
  <2>3. Goes(w, Working, Working)
    BY <2>1 DEF Goes, Working
  <2>4. pc'[w] \in BenchmarkPcs
    BY <2>1 DEF Goes, LockInv, LockTypes, BenchmarkPcs, Dying
  <2> QED BY <2>2, <2>3, <2>4, WorkConserves
<1>4. CASE StartBenchmark(w)
  <2>1. Goes(w, Working, Working)
    BY <1>4 DEF StartBenchmark, Goes, Working
  <2>2. UNCHANGED <<search, results, faults, job>>
    BY <1>4 DEF StartBenchmark
  <2>3. pc'[w] \in BenchmarkPcs
    BY <1>4 DEF StartBenchmark, LockInv, LockTypes, BenchmarkPcs
  <2>4. wide' = [wide EXCEPT ![w] = TRUE]
    BY <1>4 DEF StartBenchmark
  <2> QED BY <2>1, <2>3, <2>4, <2>2, WorkConserves
<1> QED BY <1>2, <1>3, <1>4

(* A thread that ends by itself changes nothing the search sees yet.       *)
LEMMA ThreadEndsConserves ==
  ASSUME SearchInv, LockInv, Searching, NEW w \in Workers, ThreadEnds(w)
  PROVE  SearchInv'
<1>1. UNCHANGED <<search, results, faults, pc, job, wide>>
  BY DEF ThreadEnds, process
<1>2. SearchTypes'
  BY <1>1 DEF SearchInv, SearchTypes, search, faults
<1>3. JobHeld'
  BY <1>1 DEF SearchInv, JobHeld, Searching, search, faults
<1>4. job[w] # 0 => pc[w] # "dead"
  BY DEF SearchInv, JobHeld, Working
<1>5. ProposalsConserved' /\ RoundsTold'
  BY <1>1, <1>2, <1>4, QuietStep
<1> QED BY <1>2, <1>3, <1>5 DEF SearchInv

(* A report, of a result or of a timeout, is the last a process does with  *)
(* its job.                                                                *)
LEMMA ReportsConserve ==
  ASSUME SearchInv, LockInv, Searching, NEW w \in Workers,
         \/ AfterCompilation(w) /\ results' # results
         \/ AfterBenchmark(w) /\ results' # results
         \/ ReportTimeout(w)
  PROVE  SearchInv'
<1>1. /\ Goes(w, {"compiled", "measured", "put_result"}, {"idle", "kill"})
      /\ Report(w) /\ job' = [job EXCEPT ![w] = 0] /\ UNCHANGED <<search, faults>>
  BY DEF AfterCompilation, AfterBenchmark, ReportTimeout, Goes
<1>2. wide' \in [Workers -> BOOLEAN] /\ \A v \in Workers \ {w} : wide'[v] = wide[v]
  BY DEF AfterCompilation, AfterBenchmark, ReportTimeout, SearchInv, SearchTypes
<1>3. wide'[w] => wide[w] /\ (pc[w] = "compiled" \/ pc'[w] = "kill")
  BY DEF AfterCompilation, AfterBenchmark, ReportTimeout, SearchInv, SearchTypes, LockInv, LockTypes
<1>4. pc[w] \in Working /\ pc[w] # "dead" /\ pc'[w] \notin Working
  BY <1>1 DEF Goes, Working, LockInv, LockTypes
<1>5. /\ job[w] # 0 /\ job'[w] = 0
      /\ \A v \in Workers \ {w} : pc'[v] = pc[v] /\ job'[v] = job[v]
  BY <1>1, <1>4 DEF Goes, LockInv, LockTypes, SearchInv, SearchTypes, JobHeld
<1>6. SearchTypes'
  <2>1. job[w] \in Proposals
    BY <1>5, SearchAssumption DEF SearchInv, SearchTypes, Proposals, SearchAssumption
  <2>2. results' \in Seq(Proposals)
    BY <1>1, <2>1 DEF Report, SearchInv, SearchTypes
  <2>3. 0 \in 0 .. Budget
    BY SearchAssumption DEF SearchAssumption
  <2> QED BY <1>1, <1>2, <2>2, <2>3 DEF SearchInv, SearchTypes, search, faults
<1>7. JobHeld'
  <2>1. wide'[w] /\ ~lostUnnoticed => pc'[w] \in BenchmarkPcs
    BY <1>3 DEF SearchInv, JobHeld, BenchmarkPcs, Dying
  <2> QED BY <1>1, <1>2, <1>4, <1>5, <2>1 DEF SearchInv, JobHeld, Searching, search, faults
<1>8. ProposalsConserved' /\ RoundsTold'
  BY <1>1, <1>4, <1>5, <1>6, ReportStep
<1> QED BY <1>6, <1>7, <1>8 DEF SearchInv

(* An exception on the way to a thread loses the job, and is on record.    *)
LEMMA RaisesConserve ==
  ASSUME SearchInv, LockInv, Searching, NEW w \in Workers,
         StartCompilationRaises(w) \/ StartBenchmarkRaises(w)
  PROVE  SearchInv'
<1>1. /\ pc' = [pc EXCEPT ![w] = "idle"] /\ job' = [job EXCEPT ![w] = 0] /\ lostUnnoticed' = TRUE
      /\ UNCHANGED <<search, results, crashes, sigint>>
  BY DEF StartCompilationRaises, StartBenchmarkRaises
<1>2. wide' \in [Workers -> BOOLEAN]
  BY DEF StartCompilationRaises, StartBenchmarkRaises, SearchInv, SearchTypes
<1>3. 0 \in 0 .. Budget
  BY SearchAssumption DEF SearchAssumption
<1>4. SearchTypes'
  BY <1>1, <1>2, <1>3 DEF SearchInv, SearchTypes, search
<1>5. /\ job'[w] = 0 /\ pc'[w] = "idle"
      /\ \A v \in Workers \ {w} : pc'[v] = pc[v] /\ job'[v] = job[v]
  BY <1>1 DEF LockInv, LockTypes, SearchInv, SearchTypes
<1>6. JobHeld'
  BY <1>1, <1>5 DEF SearchInv, JobHeld, Searching, search, Working
<1>7. ProposalsConserved' /\ RoundsTold'
  BY <1>1, <1>4, <1>5, LosingStep DEF Unhurt
<1> QED BY <1>4, <1>6, <1>7 DEF SearchInv

(* A process that dies takes at most its own job with it.                  *)
LEMMA DeathConserves ==
  ASSUME SearchInv, LockInv, Searching, NEW w \in Workers,
         KillSelf(w) \/ Crash(w) \/ WorkerInterrupted(w)
  PROVE  SearchInv'
<1>1. /\ pc' = [pc EXCEPT ![w] = "dead"] /\ job' = [job EXCEPT ![w] = 0]
      /\ wide' = [wide EXCEPT ![w] = FALSE] /\ UNCHANGED <<search, results>>
  BY DEF KillSelf, Crash, WorkerInterrupted, Die
<1>2. /\ crashes' \in Nat /\ lostUnnoticed' \in BOOLEAN /\ sigint' \in BOOLEAN
      /\ lostUnnoticed => lostUnnoticed'
  <2>1. CASE KillSelf(w) \/ WorkerInterrupted(w)
    BY <2>1 DEF KillSelf, WorkerInterrupted, faults, SearchInv, SearchTypes
  <2>2. CASE Crash(w)
    <3>1. crashes' = crashes + 1 /\ sigint' = sigint
      BY <2>2 DEF Crash
    <3>2. lostUnnoticed' = (lostUnnoticed \/ pc[w] = "put_result")
      BY <2>2 DEF Crash
    <3> QED BY <3>1, <3>2 DEF SearchInv, SearchTypes
  <2> QED BY <2>1, <2>2
<1>3. 0 \in 0 .. Budget
  BY SearchAssumption DEF SearchAssumption
<1>4. SearchTypes'
  BY <1>1, <1>2, <1>3 DEF SearchInv, SearchTypes, search
<1>5. /\ job'[w] = 0 /\ pc'[w] = "dead" /\ wide'[w] = FALSE
      /\ \A v \in Workers \ {w} : pc'[v] = pc[v] /\ job'[v] = job[v] /\ wide'[v] = wide[v]
  BY <1>1 DEF LockInv, LockTypes, SearchInv, SearchTypes
<1>6. JobHeld'
  BY <1>1, <1>2, <1>5 DEF SearchInv, JobHeld, Searching, search, Working
<1>7. CASE KillSelf(w)
  <2>1. job[w] = 0 /\ UNCHANGED faults
    BY <1>7 DEF KillSelf, SearchInv, JobHeld, Working
  <2> QED BY <2>1, <1>1, <1>4, <1>5, <1>6, QuietStep DEF SearchInv
<1>8. CASE Crash(w) \/ WorkerInterrupted(w)
  <2>1. ~Unhurt'
    BY <1>8 DEF Crash, WorkerInterrupted, Unhurt, faults, SearchInv, SearchTypes
  <2> QED BY <2>1, <1>1, <1>4, <1>5, <1>6, LosingStep DEF SearchInv
<1> QED BY <1>7, <1>8

(* The proposal that is asked for next is nowhere yet.                     *)
LEMMA AskStep ==
  ASSUME SearchInv, asked' = asked + 1, Searching' => Searching, Unhurt' => Unhurt,
         \A p \in Proposals : Copies(p)' = Copies(p) + (IF p = asked + 1 THEN 1 ELSE 0)
  PROVE  ProposalsConserved'
<1> SUFFICES ASSUME NEW p \in Proposals
             PROVE  /\ Copies(p)' <= (IF p <= asked' THEN 1 ELSE 0)
                    /\ Searching' /\ p <= asked' /\ Unhurt' => Copies(p)' = 1
  BY DEF ProposalsConserved, Unhurt
<1>1. Copies(p) \in Nat
  BY CopiesType DEF SearchInv
<1>2. /\ Copies(p) <= (IF p <= asked THEN 1 ELSE 0)
      /\ Searching /\ p <= asked /\ Unhurt => Copies(p) = 1
  BY DEF SearchInv, ProposalsConserved, Unhurt
<1>3. p \in Nat /\ asked \in Nat
  BY SearchAssumption DEF Proposals, SearchInv, SearchTypes, SearchAssumption
<1> QED BY <1>1, <1>2, <1>3

(* The jobs that are enqueued before the loop.                             *)
LEMMA EnqueueConserves ==
  ASSUME SearchInv, EnqueueInitial
  PROVE  SearchInv'
<1> DEFINE n == asked + 1
<1>1. n \in Proposals /\ asked \in Nat /\ asked' = n /\ jobs' = Append(jobs, n)
  BY SearchAssumption DEF EnqueueInitial, EnqueueSearchJob, InitialJobs, SearchInv, SearchTypes,
    Proposals, SearchAssumption
<1>2. UNCHANGED <<main, rounds, told, results, pc, job, wide, faults>>
  BY DEF EnqueueInitial, process
<1>3. SearchTypes'
  <2>1. jobs' \in Seq(Proposals)
    BY <1>1 DEF SearchInv, SearchTypes
  <2>2. asked' \in 0 .. Budget
    BY <1>1, SearchAssumption DEF Proposals, SearchAssumption
  <2> QED BY <1>2, <2>1, <2>2 DEF SearchInv, SearchTypes, faults
<1>4. JobHeld' /\ RoundsTold'
  BY <1>2 DEF SearchInv, JobHeld, RoundsTold, Searching, faults
<1>5. ASSUME NEW p \in Proposals
      PROVE  Copies(p)' = Copies(p) + (IF p = n THEN 1 ELSE 0)
  <2> DEFINE r == Occurrences(results, p)
             t == IF p \in told THEN 1 ELSE 0
             h == Cardinality(Holders(pc, job, p))
  <2>1. Occurrences(jobs, p) \in Nat /\ r \in Nat /\ h \in Nat /\ t \in Nat
    BY CountTypes DEF SearchInv, SearchTypes
  <2>2. Occurrences(jobs', p) = Occurrences(jobs, p) + (IF n = p THEN 1 ELSE 0)
    BY <1>1, OccurrencesAppend DEF SearchInv, SearchTypes
  <2>3. Copies(p) = Occurrences(jobs, p) + r + t + h /\ Copies(p)' = Occurrences(jobs', p) + r + t + h
    BY <1>2, CopiesAre DEF Count
  <2> HIDE DEF r, t, h, n
  <2> QED BY <2>1, <2>2, <2>3
<1>6. (Searching' => Searching) /\ (Unhurt' => Unhurt)
  BY <1>2 DEF Searching, Unhurt, faults
<1>7. ProposalsConserved'
  BY <1>1, <1>5, <1>6, AskStep
<1> QED BY <1>3, <1>4, <1>7 DEF SearchInv

(* A proposal whose result is in the queue has not been told.              *)
LEMMA ResultIsNew ==
  ASSUME SearchInv, results # << >>
  PROVE  Head(results) \in (1 .. asked) \ told
<1> DEFINE p == Head(results)
<1>1. results \in Seq(Proposals) /\ p \in Proposals
  BY DEF SearchInv, SearchTypes
<1>2. results \in Seq(Proposals) /\ p \in Proposals /\ p \in Nat
  BY <1>1 DEF Proposals
<1>3. Occurrences(results, p) >= 1
  BY <1>2, OccurrencesHead
<1>4. /\ Occurrences(jobs, p) \in Nat /\ Occurrences(results, p) \in Nat
      /\ Cardinality(Holders(pc, job, p)) \in Nat
  BY <1>2, CountTypes DEF SearchInv, SearchTypes
<1>5. Copies(p) = Occurrences(jobs, p) + Occurrences(results, p)
                    + (IF p \in told THEN 1 ELSE 0) + Cardinality(Holders(pc, job, p))
  BY <1>2, CopiesAre DEF Count
<1>6. Copies(p) <= (IF p <= asked THEN 1 ELSE 0)
  BY <1>2 DEF SearchInv, ProposalsConserved
<1>7. asked \in Nat /\ p >= 1
  BY <1>2, SearchAssumption DEF SearchInv, SearchTypes, Proposals, SearchAssumption
<1> HIDE DEF p
<1>8. p <= asked /\ p \notin told
  BY <1>2, <1>3, <1>4, <1>5, <1>6, <1>7
<1>9. p \in (1 .. asked) \ told
  BY <1>2, <1>7, <1>8
<1> QED BY <1>9 DEF p

(* A result that is received is told once, and one more proposal is asked  *)
(* for while the budget lasts.                                             *)
LEMMA GetResultConserves ==
  ASSUME SearchInv, GetResult
  PROVE  SearchInv'
<1>1. main = "get" /\ main' = "check" /\ UNCHANGED <<pc, job, wide, faults>>
  BY DEF GetResult, process
<1>2. CASE results = << >>
  <2>1. UNCHANGED <<results, rounds, told, asked, jobs>>
    BY <1>2 DEF GetResult
  <2>2. SearchTypes'
    BY <1>1, <2>1 DEF SearchInv, SearchTypes, faults
  <2>3. JobHeld' /\ RoundsTold'
    BY <1>1, <2>1 DEF SearchInv, JobHeld, RoundsTold, Searching, faults
  <2>4. \A p \in Proposals : Copies(p) \in Nat /\ Copies(p)' = Copies(p)
    BY <1>1, <2>1, CopiesType, CopiesAre DEF SearchInv
  <2>5. (Searching' => Searching) /\ (Unhurt' => Unhurt)
    BY <1>1 DEF Searching, Unhurt, faults
  <2>6. ASSUME NEW p \in Proposals
        PROVE  /\ Copies(p)' \in Nat /\ Copies(p)' <= Copies(p)
               /\ Searching' /\ Unhurt' => Copies(p)' = Copies(p)
    BY <2>4
  <2>7. ProposalsConserved'
    BY <2>1, <2>5, <2>6, NoCopies
  <2> QED BY <2>2, <2>3, <2>7 DEF SearchInv
<1>3. CASE results # << >>
  <2> DEFINE h == Head(results)
             n == asked + 1
  <2>1. /\ results' = Tail(results) /\ rounds' = rounds + 1 /\ told' = told \cup {h}
        /\ IF asked < Budget THEN EnqueueSearchJob ELSE UNCHANGED <<asked, jobs>>
    BY <1>3 DEF GetResult
  <2>2. h \in Proposals /\ h \notin told /\ results \in Seq(Proposals)
        /\ Tail(results) \in Seq(Proposals)
    BY <1>3, ResultIsNew DEF SearchInv, SearchTypes
  <2>3. asked \in Nat /\ asked <= Budget /\ Budget \in Nat /\ (asked < Budget => n \in Proposals)
    BY SearchAssumption DEF SearchInv, SearchTypes, Proposals, SearchAssumption
  <2>4. SearchTypes'
    <3>1. asked' \in 0 .. Budget /\ jobs' \in Seq(Proposals)
      <4>1. jobs \in Seq(Proposals)
        BY DEF SearchInv, SearchTypes
      <4>2. CASE asked < Budget
        <5>1. asked' = n /\ jobs' = Append(jobs, n) /\ n \in Proposals
          BY <2>1, <2>3, <4>2 DEF EnqueueSearchJob
        <5>2. Append(jobs, n) \in Seq(Proposals)
          BY <4>1, <5>1
        <5> QED BY <2>3, <4>2, <5>1, <5>2
      <4>3. CASE ~(asked < Budget)
        BY <2>1, <2>3, <4>1, <4>3
      <4> QED BY <4>2, <4>3
    <3>2. told' \in SUBSET Proposals /\ rounds' \in Nat /\ results' \in Seq(Proposals)
      BY <2>1, <2>2 DEF SearchInv, SearchTypes
    <3> QED BY <1>1, <3>1, <3>2 DEF SearchInv, SearchTypes, faults
  <2>5. JobHeld'
    BY <1>1 DEF SearchInv, JobHeld, Searching, faults
  <2>6. RoundsTold'
    <3>1. IsFiniteSet(Proposals)
      BY <2>3, FS_Interval DEF Proposals
    <3>2. IsFiniteSet(told)
      BY <3>1, FS_Subset DEF SearchInv, SearchTypes
    <3>3. Cardinality(told \cup {h}) = Cardinality(told) + 1
      BY <2>2, <3>2, FS_AddElement
    <3> QED BY <2>1, <3>3 DEF SearchInv, RoundsTold
  <2>7. ASSUME NEW p \in Proposals
        PROVE  /\ Copies(p) \in Nat
               /\ Copies(p)' = Copies(p) + (IF asked < Budget /\ p = n THEN 1 ELSE 0)
    <3> DEFINE t == IF p \in told THEN 1 ELSE 0
               u == IF p \in told' THEN 1 ELSE 0
               k == Cardinality(Holders(pc, job, p))
               a == IF asked < Budget /\ p = n THEN 1 ELSE 0
    <3>1. /\ Occurrences(jobs, p) \in Nat /\ Occurrences(results, p) \in Nat
          /\ Occurrences(results', p) \in Nat /\ k \in Nat /\ t \in Nat
      BY <2>4, CountTypes DEF SearchInv, SearchTypes
    <3>2. Occurrences(results, p) = Occurrences(results', p) + (IF h = p THEN 1 ELSE 0)
      BY <1>3, <2>1, <2>2, OccurrencesTail
    <3>3. u = t + (IF h = p THEN 1 ELSE 0)
      BY <2>1, <2>2
    <3>4. Occurrences(jobs', p) = Occurrences(jobs, p) + a
      <4>1. CASE asked < Budget
        <5>1. jobs \in Seq(Proposals) /\ jobs' = Append(jobs, n) /\ n \in Proposals
          BY <2>1, <2>3, <4>1 DEF EnqueueSearchJob, SearchInv, SearchTypes
        <5>2. Occurrences(jobs', p) = Occurrences(jobs, p) + (IF n = p THEN 1 ELSE 0)
          BY <5>1, OccurrencesAppend
        <5> QED BY <4>1, <5>2
      <4>2. CASE ~(asked < Budget)
        BY <2>1, <3>1, <4>2
      <4> QED BY <4>1, <4>2
    <3>5. /\ Copies(p) = Occurrences(jobs, p) + Occurrences(results, p) + t + k
          /\ Copies(p)' = Occurrences(jobs', p) + Occurrences(results', p) + u + k
      BY <1>1, CopiesAre DEF Count
    <3>6. a \in Nat
      OBVIOUS
    <3> HIDE DEF t, u, k, a, h
    <3>7. Copies(p) \in Nat /\ Copies(p)' = Copies(p) + a
      BY <3>1, <3>2, <3>3, <3>4, <3>5, <3>6
    <3> QED BY <3>7 DEF a
  <2>8. (Searching' => Searching) /\ (Unhurt' => Unhurt)
    BY <1>1 DEF Searching, Unhurt, faults
  <2>9. ProposalsConserved'
    <3>1. CASE asked < Budget
      <4>1. \A p \in Proposals : Copies(p)' = Copies(p) + (IF p = asked + 1 THEN 1 ELSE 0)
        BY <2>7, <3>1
      <4> QED BY <2>1, <2>8, <3>1, <4>1, AskStep DEF EnqueueSearchJob
    <3>2. CASE ~(asked < Budget)
      <4>1. ASSUME NEW p \in Proposals
            PROVE  /\ Copies(p)' \in Nat /\ Copies(p)' <= Copies(p)
                   /\ Searching' /\ Unhurt' => Copies(p)' = Copies(p)
        BY <2>7, <3>2
      <4> QED BY <2>1, <2>8, <3>2, <4>1, NoCopies
    <3> QED BY <3>1, <3>2
  <2> QED BY <2>4, <2>5, <2>6, <2>9 DEF SearchInv
<1> QED BY <1>2, <1>3

(* Steps of the main process that enqueue and receive nothing; when it     *)
(* stops, the jobs of the pool die with it.                                *)
LEMMA MainConserves ==
  ASSUME SearchInv, CheckEvent \/ FinishSearch \/ Interrupted \/ PressCtrlC \/ Over \/ UNCHANGED vars
  PROVE  SearchInv'
<1>1. CASE Stop
  <2>1. /\ ~Searching' /\ pc' = [w \in Workers |-> "dead"]
        /\ UNCHANGED <<asked, rounds, told, jobs, results, job, wide, faults>>
    BY <1>1 DEF Stop, Searching, process
  <2>2. SearchTypes' /\ JobHeld' /\ RoundsTold'
    BY <2>1 DEF SearchInv, SearchTypes, JobHeld, RoundsTold, faults
  <2>3. ASSUME NEW p \in Proposals
        PROVE  Copies(p)' \in Nat /\ Copies(p)' <= Copies(p)
    <3>1. Holders(pc', job', p) = {} /\ Cardinality({}) = 0
      BY <2>1, FS_EmptySet DEF Holders
    <3>2. /\ Occurrences(jobs, p) \in Nat /\ Occurrences(results, p) \in Nat
          /\ Cardinality(Holders(pc, job, p)) \in Nat
      BY CountTypes DEF SearchInv, SearchTypes
    <3>3. /\ Copies(p) = Occurrences(jobs, p) + Occurrences(results, p)
                           + (IF p \in told THEN 1 ELSE 0) + Cardinality(Holders(pc, job, p))
          /\ Copies(p)' = Occurrences(jobs, p) + Occurrences(results, p)
                            + (IF p \in told THEN 1 ELSE 0) + 0
      BY <2>1, <3>1, CopiesAre DEF Count
    <3> QED BY <3>2, <3>3
  <2>4. Unhurt' => Unhurt
    BY <2>1 DEF Unhurt, faults
  <2>5. ProposalsConserved'
    BY <2>1, <2>3, <2>4, NoCopies
  <2> QED BY <2>2, <2>5 DEF SearchInv
<1>2. ASSUME UNCHANGED <<asked, rounds, told, jobs, results, pc, job, wide, crashes, lostUnnoticed>>,
             Searching' => Searching, sigint' \in BOOLEAN, sigint => sigint'
      PROVE  SearchInv'
  <2>1. SearchTypes' /\ JobHeld' /\ RoundsTold'
    BY <1>2 DEF SearchInv, SearchTypes, JobHeld, RoundsTold
  <2>2. \A p \in Proposals : Copies(p) \in Nat /\ Copies(p)' = Copies(p)
    BY <1>2, CopiesType, CopiesAre DEF SearchInv
  <2>3. Unhurt' => Unhurt
    BY <1>2 DEF Unhurt
  <2>4. ASSUME NEW p \in Proposals
        PROVE  /\ Copies(p)' \in Nat /\ Copies(p)' <= Copies(p)
               /\ Searching' /\ Unhurt' => Copies(p)' = Copies(p)
    BY <2>2
  <2>5. ProposalsConserved'
    BY <1>2, <2>3, <2>4, NoCopies
  <2> QED BY <2>1, <2>5 DEF SearchInv
<1>3. CASE Interrupted \/ (CheckEvent /\ main' = "stopped")
  BY <1>1, <1>3 DEF Interrupted, CheckEvent
<1>4. CASE FinishSearch \/ (CheckEvent /\ main' # "stopped")
  BY <1>2, <1>4 DEF FinishSearch, CheckEvent, Stop, Searching, process, faults, SearchInv, SearchTypes
<1>5. CASE PressCtrlC
  BY <1>2, <1>5 DEF PressCtrlC, Searching, process, SearchInv, SearchTypes
<1>6. CASE UNCHANGED vars
  BY <1>6, <1>2 DEF vars, Searching, SearchInv, SearchTypes
<1>7. CASE Over
  BY <1>7, <1>6 DEF Over
<1>8. CASE CheckEvent \/ FinishSearch \/ Interrupted
  BY <1>8, <1>3, <1>4
<1> QED BY <1>5, <1>6, <1>8, <1>7

(* Every step conserves the proposals.                                     *)
LEMMA SearchInvStep ==
  ASSUME SearchInv, LockInv, [Next]_vars
  PROVE  SearchInv'
<1>1. CASE MainStep \/ PressCtrlC \/ Over \/ UNCHANGED vars
  BY <1>1, EnqueueConserves, GetResultConserves, MainConserves DEF MainStep
<1>2. ASSUME NEW w \in Workers, Searching, WorkerStep(w)
      PROVE  SearchInv'
  <2>1. CASE AfterCompilation(w) \/ AfterBenchmark(w) \/ ReportTimeout(w)
    BY <1>2, <2>1, ReportsConserve, WorkStepsConserve
  <2>2. CASE \/ StartCompilation(w) \/ JoinCompilation(w) \/ StartBenchmark(w)
             \/ JoinBenchmark(w) \/ PutCpuBack(w)
    BY <1>2, <2>2, WorkStepsConserve
  <2>3. CASE RepopulatePool(w) \/ InitProcess(w) \/ TakeJob(w) \/ ThreadEnds(w)
    BY <1>2, <2>3, StartsConserve, TakeJobConserves, ThreadEndsConserves
  <2>4. CASE StartCompilationRaises(w) \/ StartBenchmarkRaises(w)
    BY <1>2, <2>4, RaisesConserve
  <2>5. CASE KillSelf(w) \/ Crash(w) \/ WorkerInterrupted(w)
    BY <1>2, <2>5, DeathConserves
  <2> QED BY <1>2, <2>1, <2>2, <2>3, <2>4, <2>5 DEF WorkerStep, ProcessStep
<1> QED BY <1>1, <1>2 DEF Next

(* When the search starts there are no proposals.                          *)
LEMMA SearchInvInit ==
  ASSUME Init
  PROVE  SearchInv
<1>1. SearchTypes
  <2>1. << >> \in Seq(Proposals)
    OBVIOUS
  <2>2. 0 \in 0 .. Budget
    BY SearchAssumption DEF SearchAssumption
  <2> QED BY <2>1, <2>2 DEF Init, SearchTypes
<1>2. JobHeld
  BY DEF Init, JobHeld, Working
<1>3. RoundsTold
  BY FS_EmptySet DEF Init, RoundsTold
<1>4. ProposalsConserved
  <2> SUFFICES ASSUME NEW p \in Proposals
               PROVE  Copies(p) = 0 /\ p > asked
    BY SearchAssumption DEF ProposalsConserved, Proposals, SearchAssumption, Init
  <2>1. p > asked /\ p # 0
    BY SearchAssumption DEF Proposals, SearchAssumption, Init
  <2>2. Holders(pc, job, p) = {}
    BY <2>1 DEF Init, Holders
  <2>3. {i \in DOMAIN << >> : << >>[i] = p} = {}
    OBVIOUS
  <2>4. Occurrences(jobs, p) = 0 /\ Occurrences(results, p) = 0
    BY <2>3, FS_EmptySet DEF Init, Occurrences
  <2>5. Copies(p) = Occurrences(jobs, p) + Occurrences(results, p)
                      + (IF p \in told THEN 1 ELSE 0) + Cardinality(Holders(pc, job, p))
    BY CopiesAre DEF Count
  <2>6. p \notin told /\ Cardinality(Holders(pc, job, p)) = 0
    BY <2>2, FS_EmptySet DEF Init
  <2> QED BY <2>1, <2>4, <2>5, <2>6
<1> QED BY <1>1, <1>2, <1>3, <1>4 DEF SearchInv

(***************************************************************************)
(* The search loop, its pool and its queues: for any budget, any number of *)
(* processes and whatever dies, times out or raises, no proposal is        *)
(* evaluated or told twice, and none is lost unless a process died or      *)
(* raised.                                                                 *)
(***************************************************************************)
THEOREM ProposalsAlways == Spec => []ProposalsConserved
<1>1. Init => LockInv /\ SearchInv
  BY LockInvInit, SearchInvInit, SearchAssumption
<1>2. LockInv /\ SearchInv /\ [Next]_vars => (LockInv /\ SearchInv)'
  BY LockInvStep, SearchInvStep, SearchAssumption
<1>3. SearchInv => ProposalsConserved
  BY DEF SearchInv
<1> QED BY <1>1, <1>2, <1>3, PTL DEF Spec

(***************************************************************************)
(* Where the CPUs are.                                                     *)
(***************************************************************************)
Unpinned == {"new", "put_result", "kill", "dead"}

On(pcs, cs, c) == {w \in Workers : pcs[w] \notin Unpinned /\ cs[w] = c}

Initially(c) == Cardinality({i \in 1 .. NumTasks : (i - 1) % CpuCount = c})

Present(c) == Occurrences(cpus, c) + Cardinality(On(pc, cpu, c))

\* No process has died that did not kill itself.
NoneKilled == crashes = 0 /\ ~sigint

(* The property, in terms of the processes pinned to a CPU.                *)
LEMMA CpusConservedIs ==
  /\ CpusConserved <=>
       (Searching => \A c \in Cpus : IF NoneKilled THEN Present(c) = Initially(c)
                                                   ELSE Present(c) <= Initially(c))
  /\ CpusConserved' <=>
       (Searching' => \A c \in Cpus : IF NoneKilled' THEN Present(c)' = Initially(c)
                                                     ELSE Present(c)' <= Initially(c))
<1>1. \A c : {w \in Pinned : cpu[w] = c} = On(pc, cpu, c)
  BY DEF Pinned, On, Unpinned
<1>2. \A c : {w \in Pinned' : cpu'[w] = c} = On(pc', cpu', c)
  BY DEF Pinned, On, Unpinned
<1> QED BY <1>1, <1>2 DEF CpusConserved, Present, Initially, NoneKilled

(* A step of one process changes the CPUs by the place of that process.    *)
LEMMA PresentChange ==
  ASSUME NEW w \in Workers, NEW c \in Cpus,
         cpus \in Seq(Cpus), cpus' \in Seq(Cpus),
         \A v \in Workers \ {w} : pc'[v] = pc[v] /\ cpu'[v] = cpu[v]
  PROVE  /\ Present(c) \in Nat /\ Present(c)' \in Nat
         /\ Occurrences(cpus, c) \in Nat /\ Occurrences(cpus', c) \in Nat
         /\ Present(c)' + Occurrences(cpus, c) + (IF pc[w] \notin Unpinned /\ cpu[w] = c THEN 1 ELSE 0)
            = Present(c) + Occurrences(cpus', c)
                + (IF pc'[w] \notin Unpinned /\ cpu'[w] = c THEN 1 ELSE 0)
<1> DEFINE A == On(pc, cpu, c)  B == On(pc', cpu', c)
           a == IF pc[w] \notin Unpinned /\ cpu[w] = c THEN 1 ELSE 0
           b == IF pc'[w] \notin Unpinned /\ cpu'[w] = c THEN 1 ELSE 0
<1>1. A \in SUBSET Workers /\ B \in SUBSET Workers /\ A \ {w} = B \ {w}
  BY DEF On
<1>2. /\ Cardinality(A) \in Nat /\ Cardinality(B) \in Nat
      /\ Cardinality(B) = Cardinality(A) - (IF w \in A THEN 1 ELSE 0) + (IF w \in B THEN 1 ELSE 0)
  <2> HIDE DEF A, B
  <2> QED BY <1>1, ChangeOne, SearchAssumption
<1>3. /\ w \in A <=> pc[w] \notin Unpinned /\ cpu[w] = c
      /\ w \in B <=> pc'[w] \notin Unpinned /\ cpu'[w] = c
  BY DEF On
<1>4. Cardinality(B) = Cardinality(A) - a + b
  BY <1>2, <1>3
<1>5. Cardinality(A) \in Nat /\ Cardinality(B) \in Nat
  BY <1>2
<1>6. Occurrences(cpus, c) \in Nat /\ Occurrences(cpus', c) \in Nat
  <2>1. Occurrences(cpus, c) \in Nat
    BY OccurrencesType
  <2>2. Occurrences(cpus', c) \in Nat
    BY OccurrencesType
  <2> QED BY <2>1, <2>2
<1>7. /\ Present(c) = Occurrences(cpus, c) + Cardinality(A)
      /\ Present(c)' = Occurrences(cpus', c) + Cardinality(B)
  BY DEF Present
<1>8. a \in Nat /\ b \in Nat
  OBVIOUS
<1>9. /\ Present(c) \in Nat /\ Present(c)' \in Nat
      /\ Present(c)' + Occurrences(cpus, c) + a = Present(c) + Occurrences(cpus', c) + b
  <2>1. PICK x \in Nat, y \in Nat, k \in Nat, l \in Nat :
          /\ x = Occurrences(cpus, c) /\ y = Occurrences(cpus', c)
          /\ k = Cardinality(A) /\ l = Cardinality(B)
    BY <1>5, <1>6
  <2>2. Present(c) = x + k /\ Present(c)' = y + l
    BY <2>1, <1>7
  <2>3. l = k - a + b
    BY <2>1, <1>4
  <2> HIDE DEF A, B, a, b
  <2>4. /\ x + k \in Nat /\ y + l \in Nat
        /\ (y + l) + x + a = (x + k) + y + b
    BY <2>3, <1>8
  <2>5. /\ Present(c) \in Nat /\ Present(c)' \in Nat
        /\ Present(c)' + x + a = Present(c) + y + b
    BY <2>2, <2>4
  <2> QED BY <2>1, <2>5
<1> HIDE DEF A, B, a, b
<1> QED BY <1>6, <1>9 DEF a, b

(* A step that leaves as many of each CPU as there were, or that kills a   *)
(* process and leaves no more of them.                                     *)
LEMMA PresentKeeps ==
  ASSUME CpusConserved, Searching' => Searching, NoneKilled' => NoneKilled,
         \A c \in Cpus : /\ Present(c) \in Nat /\ Present(c)' \in Nat
                         /\ Searching' => Present(c)' <= Present(c)
                         /\ Searching' /\ NoneKilled' => Present(c)' = Present(c)
  PROVE  CpusConserved'
<1>1. \A c \in Cpus : Initially(c) \in Nat
  <2> TAKE c \in Cpus
  <2>1. NumTasks \in Nat
    BY SearchAssumption DEF SearchAssumption
  <2>2. IsFiniteSet(1 .. NumTasks)
    BY <2>1, FS_Interval
  <2> DEFINE I == {i \in 1 .. NumTasks : (i - 1) % CpuCount = c}
  <2>3. I \in SUBSET (1 .. NumTasks) /\ Initially(c) = Cardinality(I)
    BY DEF Initially
  <2> HIDE DEF I
  <2>4. IsFiniteSet(I)
    BY <2>2, <2>3, FS_Subset
  <2> QED BY <2>3, <2>4, FS_CardinalityType
<1>2. Searching => \A c \in Cpus : IF NoneKilled THEN Present(c) = Initially(c)
                                                 ELSE Present(c) <= Initially(c)
  BY CpusConservedIs
<1>3. Searching' => \A c \in Cpus : IF NoneKilled' THEN Present(c)' = Initially(c)
                                                   ELSE Present(c)' <= Initially(c)
  BY <1>1, <1>2
<1> QED BY <1>3, CpusConservedIs

(* A CPU leaves the queue when a process is pinned to it, and comes back   *)
(* when the process is about to kill itself.                               *)
LEMMA CpusHandedOver ==
  ASSUME CpusConserved, LockInv, NEW w \in Workers,
         InitProcess(w) \/ PutCpuBack(w)
  PROVE  CpusConserved'
<1>1. /\ cpus \in Seq(Cpus) /\ cpu \in [Workers -> Cpus]
      /\ (Searching' => Searching) /\ (NoneKilled' => NoneKilled)
      /\ \A v \in Workers \ {w} : pc'[v] = pc[v] /\ cpu'[v] = cpu[v]
  BY DEF InitProcess, PutCpuBack, LockInv, LockTypes, search, process, faults, Searching, NoneKilled
<1>2. ASSUME NEW c \in Cpus
      PROVE  Present(c) \in Nat /\ Present(c)' \in Nat /\ Present(c)' = Present(c)
  <2>1. CASE InitProcess(w) /\ cpus # << >>
    <3>1. cpus' = Tail(cpus) /\ cpu'[w] = Head(cpus) /\ pc[w] = "new" /\ pc'[w] = "idle"
      BY <1>1, <2>1 DEF InitProcess, LockInv, LockTypes
    <3>2. cpus' \in Seq(Cpus)
      BY <1>1, <2>1, <3>1
    <3>3. cpu'[w] = c <=> Head(cpus) = c
      BY <3>1
    <3>4. Occurrences(cpus, c) = Occurrences(cpus', c) + (IF Head(cpus) = c THEN 1 ELSE 0)
      BY <1>1, <2>1, <3>1, OccurrencesTail
    <3>5. pc[w] \in Unpinned /\ pc'[w] \notin Unpinned
      BY <3>1 DEF Unpinned
    <3>6. /\ Present(c) \in Nat /\ Present(c)' \in Nat
          /\ Occurrences(cpus, c) \in Nat /\ Occurrences(cpus', c) \in Nat
          /\ Present(c)' + Occurrences(cpus, c)
             = Present(c) + Occurrences(cpus', c) + (IF cpu'[w] = c THEN 1 ELSE 0)
      BY <1>1, <3>5, <3>2, PresentChange, SMTT(20)
    <3> QED BY <3>4, <3>6, <3>3
  <2>2. CASE InitProcess(w) /\ cpus = << >>
    <3>1. cpus' = cpus /\ pc[w] = "new" /\ pc'[w] = "dead"
      BY <2>2 DEF InitProcess, LockInv, LockTypes
    <3>2. pc[w] \in Unpinned /\ pc'[w] \in Unpinned
      BY <3>1 DEF Unpinned
    <3>3. /\ Present(c) \in Nat /\ Present(c)' \in Nat /\ Occurrences(cpus, c) \in Nat
          /\ Present(c)' + Occurrences(cpus, c) = Present(c) + Occurrences(cpus, c)
      BY <1>1, <3>1, <3>2, PresentChange
    <3> QED BY <3>3
  <2>3. CASE PutCpuBack(w)
    <3>1. /\ cpus' = Append(cpus, cpu[w]) /\ cpu[w] \in Cpus
          /\ pc[w] = "put_cpu" /\ pc'[w] = "put_result"
      BY <1>1, <2>3 DEF PutCpuBack, LockInv, LockTypes
    <3>2. cpus' \in Seq(Cpus)
      BY <1>1, <3>1
    <3>3. Occurrences(cpus', c) = Occurrences(cpus, c) + (IF cpu[w] = c THEN 1 ELSE 0)
      BY <1>1, <3>1, OccurrencesAppend
    <3>4. pc[w] \notin Unpinned /\ pc'[w] \in Unpinned
      BY <3>1 DEF Unpinned
    <3>5. /\ Present(c) \in Nat /\ Present(c)' \in Nat
          /\ Occurrences(cpus, c) \in Nat /\ Occurrences(cpus', c) \in Nat
          /\ Present(c)' + Occurrences(cpus, c) + (IF cpu[w] = c THEN 1 ELSE 0)
             = Present(c) + Occurrences(cpus', c)
      BY <1>1, <3>4, <3>2, PresentChange, SMTT(20)
    <3> QED BY <3>3, <3>5
  <2> QED BY <2>1, <2>2, <2>3
<1>3. ASSUME NEW c \in Cpus
      PROVE  /\ Present(c) \in Nat /\ Present(c)' \in Nat
             /\ Searching' => Present(c)' <= Present(c)
             /\ Searching' /\ NoneKilled' => Present(c)' = Present(c)
  BY <1>2
<1> QED BY <1>1, <1>3, PresentKeeps

(* A step that does not touch the queue of CPUs, of a process that stays   *)
(* pinned, or stays without a CPU.                                         *)
LEMMA CpusStay ==
  ASSUME CpusConserved, LockInv, NEW w \in Workers,
         \A v \in Workers \ {w} : pc'[v] = pc[v] /\ cpu'[v] = cpu[v],
         pc[w] \in Unpinned <=> pc'[w] \in Unpinned,
         cpu'[w] = cpu[w] \/ pc[w] \in Unpinned,
         UNCHANGED <<cpus, main, crashes, sigint>>
  PROVE  CpusConserved'
<1>1. ASSUME NEW c \in Cpus
      PROVE  /\ Present(c) \in Nat /\ Present(c)' \in Nat
             /\ Searching' => Present(c)' <= Present(c)
             /\ Searching' /\ NoneKilled' => Present(c)' = Present(c)
  <2> DEFINE a == IF pc[w] \notin Unpinned /\ cpu[w] = c THEN 1 ELSE 0
  <2>1. a = IF pc'[w] \notin Unpinned /\ cpu'[w] = c THEN 1 ELSE 0
    OBVIOUS
  <2>2. cpus \in Seq(Cpus) /\ cpus' = cpus /\ a \in Nat
    BY DEF LockInv, LockTypes
  <2>3. /\ Present(c) \in Nat /\ Present(c)' \in Nat /\ Occurrences(cpus, c) \in Nat
        /\ Present(c)' + Occurrences(cpus, c) + a = Present(c) + Occurrences(cpus, c) + a
    BY <2>1, <2>2, PresentChange
  <2> HIDE DEF a
  <2> QED BY <2>2, <2>3
<1>2. (Searching' => Searching) /\ (NoneKilled' => NoneKilled)
  BY DEF Searching, NoneKilled
<1> QED BY <1>1, <1>2, PresentKeeps

(* A process that is killed takes its CPU with it.                         *)
LEMMA CpusDie ==
  ASSUME CpusConserved, LockInv, SearchTypes, NEW w \in Workers,
         Crash(w) \/ WorkerInterrupted(w)
  PROVE  CpusConserved'
<1>1. /\ cpus \in Seq(Cpus) /\ cpus' = cpus /\ pc'[w] = "dead" /\ (Searching' => Searching)
      /\ \A v \in Workers \ {w} : pc'[v] = pc[v] /\ cpu'[v] = cpu[v]
  BY DEF Crash, WorkerInterrupted, Die, LockInv, LockTypes, search, Searching
<1>2. ~NoneKilled'
  BY DEF Crash, WorkerInterrupted, faults, SearchTypes, NoneKilled
<1>3. ASSUME NEW c \in Cpus
      PROVE  Present(c) \in Nat /\ Present(c)' \in Nat /\ Present(c)' <= Present(c)
  <2> DEFINE a == IF pc[w] \notin Unpinned /\ cpu[w] = c THEN 1 ELSE 0
  <2>1. pc'[w] \in Unpinned
    BY <1>1 DEF Unpinned
  <2>2. /\ Present(c) \in Nat /\ Present(c)' \in Nat /\ Occurrences(cpus, c) \in Nat
        /\ Present(c)' + Occurrences(cpus, c) + a = Present(c) + Occurrences(cpus, c)
    BY <1>1, <2>1, PresentChange
  <2>3. a \in Nat
    OBVIOUS
  <2> HIDE DEF a
  <2> QED BY <2>2, <2>3
<1> QED BY <1>1, <1>2, <1>3, PresentKeeps

(* The other steps of a process hand over no CPU.                          *)
LEMMA CpusKept ==
  ASSUME CpusConserved, LockInv, NEW w \in Workers,
         \/ RepopulatePool(w) \/ TakeJob(w) \/ StartCompilation(w) \/ StartCompilationRaises(w)
         \/ JoinCompilation(w) \/ AfterCompilation(w) \/ StartBenchmark(w)
         \/ StartBenchmarkRaises(w) \/ JoinBenchmark(w) \/ AfterBenchmark(w)
         \/ ReportTimeout(w) \/ KillSelf(w) \/ ThreadEnds(w)
  PROVE  CpusConserved'
<1>1. CASE RepopulatePool(w) \/ ReportTimeout(w) \/ KillSelf(w)
  <2>1. pc[w] \in Unpinned /\ pc'[w] \in Unpinned
    BY <1>1 DEF RepopulatePool, ReportTimeout, KillSelf, Die, Unpinned, LockInv, LockTypes
  <2>2. /\ \A v \in Workers \ {w} : pc'[v] = pc[v] /\ cpu'[v] = cpu[v]
        /\ UNCHANGED <<cpus, main, crashes, sigint>>
    BY <1>1 DEF RepopulatePool, ReportTimeout, KillSelf, Die, process, search, faults, LockInv, LockTypes
  <2> QED BY <2>1, <2>2, CpusStay
<1>2. CASE ThreadEnds(w)
  BY <1>2, CpusStay DEF ThreadEnds, process, search, faults
<1>3. CASE \/ TakeJob(w) \/ StartCompilation(w) \/ StartCompilationRaises(w)
           \/ JoinCompilation(w) \/ AfterCompilation(w)
  <2>1. /\ pc[w] \in {"idle", "acquire_read", "compile", "compiled"}
        /\ pc'[w] \in {"idle", "acquire_read", "compile", "compiled", "acquire_write", "put_cpu"}
        /\ \A v \in Workers \ {w} : pc'[v] = pc[v]
    BY <1>3 DEF TakeJob, StartCompilation, StartCompilationRaises, JoinCompilation,
      AfterCompilation, LockInv, LockTypes
  <2>2. UNCHANGED <<cpus, cpu, main, crashes, sigint>>
    BY <1>3 DEF TakeJob, StartCompilation, StartCompilationRaises, JoinCompilation,
      AfterCompilation, process, search, faults
  <2>3. pc[w] \notin Unpinned /\ pc'[w] \notin Unpinned
    BY <2>1 DEF Unpinned
  <2> QED BY <2>1, <2>2, <2>3, CpusStay
<1>4. CASE \/ StartBenchmark(w) \/ StartBenchmarkRaises(w) \/ JoinBenchmark(w) \/ AfterBenchmark(w)
  <2>1. /\ pc[w] \in {"acquire_write", "benchmark", "measured"}
        /\ pc'[w] \in {"idle", "benchmark", "measured", "put_cpu"}
        /\ \A v \in Workers \ {w} : pc'[v] = pc[v]
    BY <1>4 DEF StartBenchmark, StartBenchmarkRaises, JoinBenchmark, AfterBenchmark, LockInv, LockTypes
  <2>2. UNCHANGED <<cpus, cpu, main, crashes, sigint>>
    BY <1>4 DEF StartBenchmark, StartBenchmarkRaises, JoinBenchmark, AfterBenchmark, process, search, faults
  <2>3. pc[w] \notin Unpinned /\ pc'[w] \notin Unpinned
    BY <2>1 DEF Unpinned
  <2> QED BY <2>1, <2>2, <2>3, CpusStay
<1> QED BY <1>1, <1>2, <1>3, <1>4

(* The main process touches no CPU; when it stops the pool is gone.        *)
LEMMA CpusMain ==
  ASSUME CpusConserved, LockInv, MainStep \/ PressCtrlC \/ Over \/ UNCHANGED vars
  PROVE  CpusConserved'
<1>1. CASE ~Searching'
  BY <1>1, CpusConservedIs
<1>2. CASE Searching'
  <2>1. ~Stop
    BY <1>2 DEF Stop, Searching
  <2>2. UNCHANGED <<cpus, pc, cpu, crashes>> /\ (sigint' = sigint \/ sigint' = TRUE) /\ Searching
    BY <1>2, <2>1 DEF MainStep, EnqueueInitial, CheckEvent, GetResult, FinishSearch, Interrupted,
      PressCtrlC, Over, vars, process, faults, Searching
  <2>3. NoneKilled' => NoneKilled
    BY <2>2 DEF NoneKilled
  <2>4. ASSUME NEW c \in Cpus
        PROVE  Present(c) \in Nat /\ Present(c)' = Present(c)
    <3>1. Occurrences(cpus, c) \in Nat
      BY OccurrencesType DEF LockInv, LockTypes
    <3>2. On(pc, cpu, c) \in SUBSET Workers
      BY DEF On
    <3>3. Cardinality(On(pc, cpu, c)) \in Nat
      BY <3>2, ChangeOne, SearchAssumption
    <3> QED BY <2>2, <3>1, <3>3 DEF Present
  <2>5. ASSUME NEW c \in Cpus
        PROVE  /\ Present(c) \in Nat /\ Present(c)' \in Nat
               /\ Searching' => Present(c)' <= Present(c)
               /\ Searching' /\ NoneKilled' => Present(c)' = Present(c)
    BY <2>4
  <2> QED BY <2>2, <2>3, <2>5, PresentKeeps
<1> QED BY <1>1, <1>2

(* Every step conserves the CPUs.                                          *)
LEMMA CpusStep ==
  ASSUME CpusConserved, LockInv, SearchInv, [Next]_vars
  PROVE  CpusConserved'
<1>1. CASE MainStep \/ PressCtrlC \/ Over \/ UNCHANGED vars
  BY <1>1, CpusMain
<1>2. ASSUME NEW w \in Workers, WorkerStep(w)
      PROVE  CpusConserved'
  <2>1. CASE ProcessStep(w)
    BY <2>1, <1>2, CpusHandedOver, CpusKept DEF ProcessStep
  <2>2. CASE ThreadEnds(w) \/ Crash(w) \/ WorkerInterrupted(w)
    BY <2>2, <1>2, CpusKept, CpusDie DEF SearchInv
  <2> QED BY <1>2, <2>1, <2>2 DEF WorkerStep
<1> QED BY <1>1, <1>2 DEF Next

(* All CPUs are in the queue when the search starts.                       *)
LEMMA CpusInit ==
  ASSUME Init
  PROVE  CpusConserved
<1>1. ASSUME NEW c \in Cpus
      PROVE  Present(c) = Initially(c)
  <2> DEFINE I == {i \in 1 .. NumTasks : (i - 1) % CpuCount = c}
  <2>1. {i \in DOMAIN cpus : cpus[i] = c} = I
    BY DEF Init
  <2>2. Occurrences(cpus, c) = Cardinality(I) /\ Initially(c) = Cardinality(I)
    BY <2>1 DEF Occurrences, Initially
  <2>3. On(pc, cpu, c) = {} /\ Cardinality({}) = 0
    BY FS_EmptySet DEF Init, On, Unpinned
  <2>4. cpus \in Seq(Cpus)
    BY LockInvInit, SearchAssumption DEF LockInv, LockTypes
  <2>5. Occurrences(cpus, c) \in Nat
    BY <2>4, OccurrencesType
  <2> HIDE DEF I
  <2> QED BY <2>2, <2>3, <2>5 DEF Present
<1>2. NoneKilled
  BY DEF Init, NoneKilled
<1> QED BY <1>1, <1>2, CpusConservedIs

(***************************************************************************)
(* init_proccess and kill_process, which share available_cpus_queue: for   *)
(* any number of tasks and CPUs no CPU is handed out more often than it    *)
(* was put into the queue, and as long as only timeouts kill processes     *)
(* none is lost.                                                           *)
(***************************************************************************)
THEOREM CpusAlways == Spec => []CpusConserved
<1>1. Init => LockInv /\ SearchInv /\ CpusConserved
  BY LockInvInit, SearchInvInit, CpusInit, SearchAssumption
<1>2. LockInv /\ SearchInv /\ CpusConserved /\ [Next]_vars => (LockInv /\ SearchInv /\ CpusConserved)'
  BY LockInvStep, SearchInvStep, CpusStep, SearchAssumption
<1> QED BY <1>1, <1>2, PTL DEF Spec

(***************************************************************************)
(* The search as its optimizer sees it.                                    *)
(***************************************************************************)
\* What is substituted for the status of AskTell.
Status == CASE main = "done" -> "done" [] main = "stopped" -> "aborted" [] OTHER -> "searching"

(* The status says whether the loop is over, and how it ended.             *)
LEMMA StatusIs ==
  /\ Searching => Status = "searching"
  /\ main' = "stopped" => Status' = "aborted"
  /\ main' = "done" => Status' = "done"
  /\ main' \in {"check", "get"} => Status' = "searching"
  /\ main' = main => Status' = Status
BY DEF Searching, Status

(* Every step of the search is a step of ask-and-tell, or none.            *)
LEMMA AskTellStep ==
  ASSUME SearchInv, [Next]_vars
  PROVE  [Optimizer!Next]_(Optimizer!vars)
<1> USE DEF Optimizer!vars
<1>1. CASE EnqueueInitial
  <2>1. Searching /\ asked < Budget /\ asked' = asked + 1 /\ told' = told /\ main' = main
    BY <1>1, SearchAssumption DEF EnqueueInitial, EnqueueSearchJob, InitialJobs, SearchAssumption,
      SearchInv, SearchTypes
  <2>2. Optimizer!Ask
    BY <2>1, StatusIs DEF Optimizer!Ask, Status
  <2> QED BY <2>2 DEF Optimizer!Next
<1>2. CASE GetResult
  <2>1. Searching /\ main' \in {"check", "get"}
    BY <1>2 DEF GetResult, Searching
  <2>2. CASE results = << >>
    <3>1. asked' = asked /\ told' = told
      BY <1>2, <2>2 DEF GetResult
    <3> QED BY <2>1, <3>1, StatusIs DEF Status
  <2>3. CASE results # << >>
    <3>1. Head(results) \in (1 .. asked) \ told /\ told' = told \cup {Head(results)}
      BY <1>2, <2>3, ResultIsNew DEF GetResult
    <3>2. asked' \in {asked, asked + 1} /\ asked' <= Budget
      BY <1>2, <2>3, SearchAssumption DEF GetResult, EnqueueSearchJob, SearchInv, SearchTypes, SearchAssumption
    <3>3. Optimizer!Tell
      BY <2>1, <3>1, <3>2, StatusIs DEF Optimizer!Tell, Status
    <3> QED BY <3>3 DEF Optimizer!Next
  <2> QED BY <2>2, <2>3
<1>3. CASE FinishSearch
  <2>1. Searching /\ rounds = Budget /\ main' = "done" /\ UNCHANGED <<asked, told>>
    BY <1>3 DEF FinishSearch, Searching
  <2>2. told = 1 .. Budget
    <3>1. Budget \in Nat /\ told \in SUBSET (1 .. Budget) /\ Cardinality(told) = Budget
      BY <2>1, SearchAssumption DEF SearchInv, SearchTypes, RoundsTold, Proposals, SearchAssumption
    <3>2. IsFiniteSet(1 .. Budget) /\ Cardinality(1 .. Budget) = Budget
      BY <3>1, FS_Interval
    <3> QED BY <3>1, <3>2, FS_Subset
  <2>3. Optimizer!Finish
    BY <2>1, <2>2, StatusIs DEF Optimizer!Finish, Status
  <2> QED BY <2>3 DEF Optimizer!Next
<1>4. CASE Searching /\ Stop
  <2>1. main' = "stopped" /\ UNCHANGED <<asked, told>>
    BY <1>4 DEF Stop
  <2>2. Optimizer!Abort
    BY <1>4, <2>1, StatusIs DEF Optimizer!Abort, Status
  <2> QED BY <2>2 DEF Optimizer!Next
<1>5. CASE UNCHANGED <<asked, told>> /\ (main' = main \/ (Searching /\ main' = "get"))
  BY <1>5, StatusIs DEF Status
<1>6. CASE Interrupted \/ CheckEvent
  BY <1>4, <1>5, <1>6 DEF Interrupted, CheckEvent, Searching
<1>7. CASE PressCtrlC \/ Over \/ UNCHANGED vars
  BY <1>5, <1>7 DEF PressCtrlC, Over, vars
<1>8. ASSUME NEW w \in Workers, WorkerStep(w)
      PROVE  UNCHANGED <<asked, told, main>>
  <2>1. CASE ProcessStep(w)
    <3>1. CASE RepopulatePool(w) \/ InitProcess(w) \/ TakeJob(w) \/ KillSelf(w)
      BY <3>1 DEF RepopulatePool, InitProcess, TakeJob, KillSelf, Die, search
    <3>2. CASE \/ StartCompilation(w) \/ StartCompilationRaises(w) \/ JoinCompilation(w)
               \/ AfterCompilation(w)
      BY <3>2 DEF StartCompilation, StartCompilationRaises, JoinCompilation, AfterCompilation, search
    <3>3. CASE \/ StartBenchmark(w) \/ StartBenchmarkRaises(w) \/ JoinBenchmark(w)
               \/ AfterBenchmark(w) \/ PutCpuBack(w) \/ ReportTimeout(w)
      BY <3>3 DEF StartBenchmark, StartBenchmarkRaises, JoinBenchmark, AfterBenchmark,
        PutCpuBack, ReportTimeout, search
    <3> QED BY <2>1, <3>1, <3>2, <3>3 DEF ProcessStep
  <2>2. CASE ThreadEnds(w) \/ Crash(w) \/ WorkerInterrupted(w)
    BY <2>2 DEF ThreadEnds, Crash, WorkerInterrupted, Die, search
  <2> QED BY <1>8, <2>1, <2>2 DEF WorkerStep
<1> QED BY <1>1, <1>2, <1>3, <1>5, <1>6, <1>7, <1>8 DEF Next, MainStep

(***************************************************************************)
(* parallel_search against the ask-and-tell interface of its optimizer:    *)
(* for any budget and any number of processes, whatever dies, times out or *)
(* is interrupted, the search asks at most Budget proposals, tells each    *)
(* outcome at most once and of a proposal it has asked for, and ends with  *)
(* Budget outcomes or aborts.                                              *)
(***************************************************************************)
THEOREM AskTellImplemented == Spec => ImplementsAskTell
<1>1. Init => LockInv /\ SearchInv
  BY LockInvInit, SearchInvInit, SearchAssumption
<1>2. LockInv /\ SearchInv /\ [Next]_vars => (LockInv /\ SearchInv)'
  BY LockInvStep, SearchInvStep, SearchAssumption
<1>3. Init => Optimizer!Init
  BY DEF Init, Optimizer!Init
<1>4. SearchInv /\ [Next]_vars => [Optimizer!Next]_(Optimizer!vars)
  BY AskTellStep
<1> QED BY <1>1, <1>2, <1>3, <1>4, PTL DEF Spec, ImplementsAskTell, Optimizer!Spec

=============================================================================
