------------------------- MODULE JobSchedulerProofs -------------------------
(***************************************************************************)
(* What the job scheduler guarantees for any number of processes and jobs, *)
(* with shutdown() called at any time or not at all.  The inductive        *)
(* invariant adds to Accounting that every job is in one place only: no    *)
(* queue holds a job twice and no two of the feeder, the queue, the        *)
(* workers, the results and the processed jobs share one.  Control relates *)
(* the places of the two threads to the counters.                          *)
(***************************************************************************)
EXTENDS JobScheduler, SequenceTheorems, FiniteSetTheorems, TLAPS

Jobs == 1 .. MaxJobs

NoRepeat(s) == \A i, j \in 1 .. Len(s) : s[i] = s[j] => i = j

JobTypes ==
  /\ mpc \in {"idle", "await", "enqueue", "generate", "launch", "join", "joined"}
  /\ tpc \in {"idle", "loop", "generate", "done"}
  /\ awaited \in Nat /\ numJobs \in Nat /\ made \in 0 .. MaxJobs
  /\ feeder \in Seq(Jobs) /\ jobQueue \in Seq(Jobs)
  /\ wpc \in [Workers -> {"new", "pin", "check", "event", "get", "run", "exit"}]
  /\ job \in [Workers -> 0 .. MaxJobs]
  /\ results \in SUBSET Jobs /\ processed \in SUBSET Jobs
  /\ event \in BOOLEAN /\ stopped \in BOOLEAN /\ atStop \in Nat

Apart(F, Q, R, S, P) ==
  /\ F \cap Q = {} /\ F \cap R = {} /\ F \cap S = {} /\ F \cap P = {}
  /\ Q \cap R = {} /\ Q \cap S = {} /\ Q \cap P = {}
  /\ R \cap S = {} /\ R \cap P = {} /\ S \cap P = {}

Once ==
  /\ NoRepeat(feeder) /\ NoRepeat(jobQueue)
  /\ \A v, w \in Workers : job[v] # 0 /\ job[v] = job[w] => v = w
  /\ \A w \in Workers : job[w] # 0 <=> wpc[w] = "run"
  /\ Apart(Elements(feeder), Elements(jobQueue), Running, results, processed)

Busy == {w \in Workers : job[w] # 0}

Control ==
  /\ tpc = "idle" <=> mpc \notin {"join", "joined"}
  /\ tpc = "idle" => processed = {}
  /\ tpc = "done" => numJobs = 0
  /\ mpc = "joined" => tpc = "done"
  /\ mpc = "idle" => awaited = 0
  /\ mpc \in {"idle", "await"} => made = 0
  /\ mpc \in {"enqueue", "generate"} => awaited = made
  /\ ~stopped /\ tpc # "done" => ~event
  /\ ~stopped /\ mpc = "launch" => made > 0 \/ made = MaxJobs
  /\ ~stopped /\ tpc \in {"loop", "done"} /\ numJobs = 0 => made = MaxJobs
  /\ stopped => /\ event /\ mpc # "idle" /\ made <= atStop + 1
                /\ mpc = "generate" \/ tpc = "generate" => made = atStop

JobInv == JobTypes /\ Once /\ Accounting /\ Control

(***************************************************************************)
(* Queues as sets.                                                         *)
(***************************************************************************)
(* The elements of a longer queue.                                         *)
LEMMA ElementsAppend ==
  ASSUME NEW S, NEW s \in Seq(S), NEW e \in S
  PROVE  /\ Append(s, e) \in Seq(S) /\ Len(Append(s, e)) = Len(s) + 1 /\ Len(s) \in Nat
         /\ Elements(Append(s, e)) = Elements(s) \cup {e}
         /\ NoRepeat(s) /\ e \notin Elements(s) => NoRepeat(Append(s, e))
<1> DEFINE t == Append(s, e)
<1>1. /\ t \in Seq(S) /\ Len(s) \in Nat /\ Len(t) = Len(s) + 1 /\ t[Len(s) + 1] = e
      /\ \A i \in 1 .. Len(s) : t[i] = s[i]
  OBVIOUS
<1> HIDE DEF t
<1>2. Elements(t) = Elements(s) \cup {e}
  <2>1. ASSUME NEW x \in Elements(t)
        PROVE  x \in Elements(s) \cup {e}
    <3>1. PICK i \in 1 .. Len(t) : x = t[i]
      BY DEF Elements
    <3>2. CASE i = Len(s) + 1
      BY <1>1, <3>1, <3>2
    <3>3. CASE i \in 1 .. Len(s)
      BY <1>1, <3>1, <3>3 DEF Elements
    <3> QED BY <1>1, <3>2, <3>3
  <2>2. ASSUME NEW x \in Elements(s)
        PROVE  x \in Elements(t)
    <3>1. PICK i \in 1 .. Len(s) : x = s[i]
      BY DEF Elements
    <3>2. i \in 1 .. Len(t) /\ x = t[i]
      BY <1>1, <3>1
    <3> QED BY <3>2 DEF Elements
  <2>3. e \in Elements(t)
    <3>1. Len(s) + 1 \in 1 .. Len(t) /\ e = t[Len(s) + 1]
      BY <1>1
    <3> QED BY <3>1 DEF Elements
  <2> QED BY <2>1, <2>2, <2>3
<1>3. ASSUME NoRepeat(s), e \notin Elements(s)
      PROVE  NoRepeat(t)
  <2> SUFFICES ASSUME NEW i \in 1 .. Len(t), NEW j \in 1 .. Len(t), t[i] = t[j]
               PROVE  i = j
    BY DEF NoRepeat
  <2>1. \A k \in 1 .. Len(s) : t[k] \in Elements(s)
    BY <1>1 DEF Elements
  <2>2. CASE i \in 1 .. Len(s) /\ j \in 1 .. Len(s)
    BY <1>1, <1>3, <2>2 DEF NoRepeat
  <2>3. CASE i \notin 1 .. Len(s) \/ j \notin 1 .. Len(s)
    BY <1>1, <1>3, <2>1, <2>3
  <2> QED BY <2>2, <2>3
<1> QED BY <1>1, <1>2, <1>3 DEF t

(* The first element of a queue, and the rest.                             *)
LEMMA ElementsTail ==
  ASSUME NEW S, NEW s \in Seq(S), s # << >>, NoRepeat(s)
  PROVE  /\ Head(s) \in S /\ Tail(s) \in Seq(S) /\ Len(s) \in Nat /\ Len(Tail(s)) = Len(s) - 1
         /\ NoRepeat(Tail(s)) /\ Head(s) \notin Elements(Tail(s))
         /\ Elements(s) = Elements(Tail(s)) \cup {Head(s)}
<1> DEFINE t == Tail(s)  h == Head(s)
<1>1. /\ h \in S /\ t \in Seq(S) /\ Len(s) \in Nat \ {0} /\ Len(t) = Len(s) - 1 /\ h = s[1]
      /\ \A i \in 1 .. Len(t) : t[i] = s[i + 1]
  OBVIOUS
<1> HIDE DEF t, h
<1>2. NoRepeat(t)
  <2> SUFFICES ASSUME NEW i \in 1 .. Len(t), NEW j \in 1 .. Len(t), t[i] = t[j]
               PROVE  i = j
    BY DEF NoRepeat
  <2>1. i + 1 \in 1 .. Len(s) /\ j + 1 \in 1 .. Len(s) /\ s[i + 1] = s[j + 1]
    BY <1>1
  <2>2. i + 1 = j + 1
    BY <2>1 DEF NoRepeat
  <2> QED BY <2>2
<1>3. h \notin Elements(t)
  <2> SUFFICES ASSUME h \in Elements(t)
               PROVE  FALSE
    OBVIOUS
  <2>1. PICK i \in 1 .. Len(t) : h = t[i]
    BY DEF Elements
  <2>2. i + 1 \in 1 .. Len(s) /\ 1 \in 1 .. Len(s) /\ s[i + 1] = s[1]
    BY <1>1, <2>1
  <2>3. i + 1 = 1
    BY <2>2 DEF NoRepeat
  <2> QED BY <2>3
<1>4. Elements(s) = Elements(t) \cup {h}
  <2>1. ASSUME NEW x \in Elements(s)
        PROVE  x \in Elements(t) \cup {h}
    <3>1. PICK i \in 1 .. Len(s) : x = s[i]
      BY DEF Elements
    <3>2. CASE i = 1
      BY <1>1, <3>1, <3>2
    <3>3. CASE i # 1
      <4>1. i - 1 \in 1 .. Len(t) /\ x = t[i - 1]
        BY <1>1, <3>1, <3>3
      <4> QED BY <4>1 DEF Elements
    <3> QED BY <3>2, <3>3
  <2>2. ASSUME NEW x \in Elements(t)
        PROVE  x \in Elements(s)
    <3>1. PICK i \in 1 .. Len(t) : x = t[i]
      BY DEF Elements
    <3>2. i + 1 \in 1 .. Len(s) /\ x = s[i + 1]
      BY <1>1, <3>1
    <3> QED BY <3>2 DEF Elements
  <2>3. h \in Elements(s)
    BY <1>1 DEF Elements
  <2> QED BY <2>1, <2>2, <2>3
<1> QED BY <1>1, <1>2, <1>3, <1>4 DEF t, h

(***************************************************************************)
(* Steps that move a job from one place to the next.                       *)
(***************************************************************************)
Ledger == JobTypes /\ Once /\ Accounting

(* The sets that are counted are finite.                                   *)
LEMMA LedgerFinite ==
  ASSUME JobTypes
  PROVE  /\ IsFiniteSet(Busy) /\ IsFiniteSet(results) /\ IsFiniteSet(Outstanding)
         /\ Cardinality(Busy) \in Nat /\ Cardinality(results) \in Nat
         /\ Cardinality(Outstanding) \in Nat
         /\ Elements(feeder) \subseteq Jobs /\ Elements(jobQueue) \subseteq Jobs
         /\ Running \subseteq Jobs
<1>1. IsFiniteSet(Workers) /\ IsFiniteSet(Jobs)
  <2>1. NumProcesses \in Nat /\ MaxJobs \in Nat
    BY SchedulerAssumption DEF SchedulerAssumption
  <2> QED BY <2>1, FS_Interval DEF Workers, Jobs
<1>2. Elements(feeder) \subseteq Jobs /\ Elements(jobQueue) \subseteq Jobs
  BY ElementOfSeq DEF JobTypes, Elements
<1>3. Running \subseteq Jobs
  BY SchedulerAssumption DEF JobTypes, Running, Jobs, SchedulerAssumption
<1>4. Outstanding \in SUBSET Jobs /\ results \in SUBSET Jobs /\ Busy \in SUBSET Workers
  BY <1>2, <1>3 DEF Outstanding, JobTypes, Busy
<1>5. IsFiniteSet(Busy) /\ IsFiniteSet(results) /\ IsFiniteSet(Outstanding)
  BY <1>1, <1>4, FS_Subset
<1>6. Cardinality(Busy) \in Nat /\ Cardinality(results) \in Nat /\ Cardinality(Outstanding) \in Nat
  BY <1>5, FS_CardinalityType
<1> QED BY <1>2, <1>3, <1>5, <1>6

(* A step that moves no job.                                               *)
LEMMA LedgerKept ==
  ASSUME Ledger, JobTypes',
         UNCHANGED <<numJobs, made, queues, processed>>,
         \A w \in Workers : wpc'[w] = "run" <=> wpc[w] = "run"
  PROVE  Ledger'
<1>1. Elements(feeder)' = Elements(feeder) /\ Elements(jobQueue)' = Elements(jobQueue)
      /\ Running' = Running /\ Outstanding' = Outstanding
  BY DEF queues, Elements, Running, Outstanding
<1>2. Once'
  BY <1>1 DEF Ledger, Once, queues, NoRepeat
<1>3. Accounting'
  BY <1>1 DEF Ledger, Accounting, queues
<1> QED BY <1>2, <1>3 DEF Ledger

(* A new job has a number that no job has.                                 *)
LEMMA LedgerEnqueue ==
  ASSUME Ledger, JobTypes', EnqueueJob, ~NoMoreJobs,
         UNCHANGED <<jobQueue, results, job, wpc, processed>>
  PROVE  Ledger'
<1> DEFINE n == made + 1
<1>1. n \in Jobs /\ made \in Nat /\ n \notin 1 .. made /\ 1 .. n = (1 .. made) \cup {n}
  BY SchedulerAssumption DEF Ledger, JobTypes, NoMoreJobs, Jobs, SchedulerAssumption
<1>2. n \notin Outstanding /\ n \notin processed
  BY <1>1 DEF Ledger, Accounting
<1>3. feeder \in Seq(Jobs) /\ feeder' = Append(feeder, n) /\ made' = n /\ numJobs' = numJobs + 1
  BY DEF EnqueueJob, Ledger, JobTypes
<1>4. /\ Elements(feeder') = Elements(feeder) \cup {n} /\ Len(feeder') = Len(feeder) + 1
      /\ Len(feeder) \in Nat /\ NoRepeat(feeder')
  BY <1>1, <1>2, <1>3, ElementsAppend DEF Ledger, Once, Outstanding
<1>5. /\ Elements(feeder)' = Elements(feeder) \cup {n} /\ Elements(jobQueue)' = Elements(jobQueue)
      /\ Running' = Running /\ Busy' = Busy
  BY <1>4 DEF Elements, Running, Busy
<1>6. Outstanding' = Outstanding \cup {n}
  BY <1>5 DEF Outstanding
<1>7. Apart(Elements(feeder), Elements(jobQueue), Running, results, processed)'
  BY <1>2, <1>5 DEF Ledger, Once, Apart, Outstanding
<1>8. Once'
  BY <1>4, <1>7 DEF Ledger, Once, NoRepeat
<1>9. /\ numJobs \in Nat /\ Len(jobQueue) \in Nat
      /\ Cardinality(Busy) \in Nat /\ Cardinality(results) \in Nat
      /\ Cardinality(Outstanding) \in Nat
  BY LedgerFinite DEF Ledger, JobTypes
<1>10. Cardinality(Outstanding') = Cardinality(Outstanding) + 1
  BY <1>2, <1>6, LedgerFinite, FS_AddElement DEF Ledger
<1>11. numJobs = Len(feeder) + Len(jobQueue) + Cardinality(Busy) + Cardinality(results)
       /\ numJobs = Cardinality(Outstanding)
  BY DEF Ledger, Accounting, Busy
<1>12. numJobs' = Len(feeder') + Len(jobQueue) + Cardinality(Busy) + Cardinality(results)
       /\ numJobs' = Cardinality(Outstanding')
  BY <1>3, <1>4, <1>9, <1>10, <1>11, SMTT(20)
<1>13. Outstanding' \cap processed' = {} /\ Outstanding' \cup processed' = 1 .. made'
  BY <1>1, <1>2, <1>3, <1>6 DEF Ledger, Accounting
<1>14. Accounting'
  BY <1>5, <1>12, <1>13 DEF Accounting, Busy
<1> QED BY <1>8, <1>14 DEF Ledger
(* The accounts after a step that moves a job but makes and processes      *)
(* none.                                                                   *)
LEMMA LedgerMoved ==
  ASSUME Ledger, JobTypes', Once', Outstanding' = Outstanding,
         UNCHANGED <<numJobs, made, processed>>,
         Len(feeder') + Len(jobQueue') + Cardinality(Busy') + Cardinality(results')
           = Len(feeder) + Len(jobQueue) + Cardinality(Busy) + Cardinality(results)
  PROVE  Ledger'
<1>1. Accounting'
  BY DEF Ledger, Accounting, Busy
<1> QED BY <1>1 DEF Ledger

(* The feeder thread writes the next job to the queue.                     *)
LEMMA FeedMoves ==
  ASSUME Ledger, JobTypes', Feed
  PROVE  Ledger'
<1> DEFINE h == Head(feeder)
<1>1. /\ feeder \in Seq(Jobs) /\ jobQueue \in Seq(Jobs) /\ feeder # << >>
      /\ feeder' = Tail(feeder) /\ jobQueue' = Append(jobQueue, h)
      /\ UNCHANGED <<numJobs, made, results, job, wpc, processed>>
  BY DEF Feed, Ledger, JobTypes
<1>2. NoRepeat(feeder) /\ NoRepeat(jobQueue)
      /\ Apart(Elements(feeder), Elements(jobQueue), Running, results, processed)
  BY DEF Ledger, Once
<1>3. /\ h \in Jobs /\ Len(feeder) \in Nat /\ Len(feeder') = Len(feeder) - 1
      /\ NoRepeat(feeder') /\ h \notin Elements(feeder')
      /\ Elements(feeder) = Elements(feeder') \cup {h}
  BY <1>1, <1>2, ElementsTail
<1>4. h \notin Elements(jobQueue)
  BY <1>2, <1>3 DEF Apart
<1>5. /\ Len(jobQueue') = Len(jobQueue) + 1 /\ Len(jobQueue) \in Nat
      /\ Elements(jobQueue') = Elements(jobQueue) \cup {h} /\ NoRepeat(jobQueue')
  BY <1>1, <1>2, <1>3, <1>4, ElementsAppend
<1>6. Running' = Running /\ Busy' = Busy /\ Elements(feeder)' = Elements(feeder')
      /\ Elements(jobQueue)' = Elements(jobQueue')
  BY <1>1 DEF Running, Busy, Elements
<1>7. Outstanding' = Outstanding
  BY <1>1, <1>3, <1>5, <1>6 DEF Outstanding
<1>8. Apart(Elements(feeder'), Elements(jobQueue'), Running, results, processed)
  BY <1>2, <1>3, <1>5 DEF Apart
<1>9. Once'
  BY <1>1, <1>3, <1>5, <1>6, <1>8 DEF Ledger, Once, NoRepeat
<1>10. Cardinality(Busy) \in Nat /\ Cardinality(results) \in Nat
  BY LedgerFinite DEF Ledger
<1>11. Len(feeder') + Len(jobQueue') + Cardinality(Busy') + Cardinality(results')
         = Len(feeder) + Len(jobQueue) + Cardinality(Busy) + Cardinality(results)
  BY <1>1, <1>3, <1>5, <1>6, <1>10
<1> QED BY <1>1, <1>7, <1>9, <1>11, LedgerMoved

(* A worker takes the next job of the queue.                               *)
LEMMA GetJobMoves ==
  ASSUME Ledger, JobTypes', NEW w \in Workers, GetJob(w), jobQueue # << >>
  PROVE  Ledger'
<1> DEFINE h == Head(jobQueue)
<1>1. /\ jobQueue \in Seq(Jobs) /\ jobQueue' = Tail(jobQueue) /\ job' = [job EXCEPT ![w] = h]
      /\ wpc' = [wpc EXCEPT ![w] = "run"] /\ wpc[w] = "get"
      /\ UNCHANGED <<numJobs, made, feeder, results, processed>>
  BY DEF GetJob, Ledger, JobTypes
<1>2. NoRepeat(jobQueue)
      /\ Apart(Elements(feeder), Elements(jobQueue), Running, results, processed)
  BY DEF Ledger, Once
<1>3. /\ h \in Jobs /\ Len(jobQueue) \in Nat /\ Len(jobQueue') = Len(jobQueue) - 1
      /\ NoRepeat(jobQueue') /\ h \notin Elements(jobQueue')
      /\ Elements(jobQueue) = Elements(jobQueue') \cup {h}
  BY <1>1, <1>2, ElementsTail
<1>4. h # 0 /\ job[w] = 0
  BY <1>1, <1>3, SchedulerAssumption DEF Jobs, Ledger, Once, SchedulerAssumption
<1>5. /\ job'[w] = h /\ wpc'[w] = "run"
      /\ \A v \in Workers \ {w} : job'[v] = job[v] /\ wpc'[v] = wpc[v]
  BY <1>1 DEF Ledger, JobTypes
<1>6. h \notin Running
  BY <1>2, <1>3 DEF Apart
<1>7. Running' = Running \cup {h}
  BY <1>4, <1>5 DEF Running
<1>8. Busy' = Busy \cup {w} /\ w \notin Busy
  BY <1>4, <1>5 DEF Busy
<1>9. /\ IsFiniteSet(Busy) /\ Cardinality(Busy) \in Nat /\ Cardinality(results) \in Nat
       /\ Len(feeder) \in Nat
  BY LedgerFinite DEF Ledger, JobTypes
<1>10. Cardinality(Busy') = Cardinality(Busy) + 1
  BY <1>8, <1>9, FS_AddElement
<1>11. Elements(feeder)' = Elements(feeder) /\ Elements(jobQueue)' = Elements(jobQueue')
  BY <1>1 DEF Elements
<1>12. Outstanding' = Outstanding
  BY <1>1, <1>3, <1>7, <1>11 DEF Outstanding
<1>13. Apart(Elements(feeder), Elements(jobQueue'), Running', results, processed)
  BY <1>2, <1>3, <1>7 DEF Apart
<1>14. \A u, v \in Workers : job'[u] # 0 /\ job'[u] = job'[v] => u = v
  <2>1. \A v \in Workers \ {w} : job'[v] # h
    BY <1>4, <1>5, <1>6 DEF Running
  <2> QED BY <1>5, <2>1 DEF Ledger, Once
<1>15. \A v \in Workers : job'[v] # 0 <=> wpc'[v] = "run"
  BY <1>4, <1>5 DEF Ledger, Once
<1>16. NoRepeat(feeder') /\ NoRepeat(jobQueue')
  BY <1>1, <1>3 DEF Ledger, Once
<1>17. Once'
  BY <1>1, <1>11, <1>13, <1>14, <1>15, <1>16 DEF Once, NoRepeat
<1>18. Len(feeder') + Len(jobQueue') + Cardinality(Busy') + Cardinality(results')
         = Len(feeder) + Len(jobQueue) + Cardinality(Busy) + Cardinality(results)
  BY <1>1, <1>3, <1>10, <1>9
<1> QED BY <1>1, <1>12, <1>17, <1>18, LedgerMoved

(* A worker puts the result of its job.                                    *)
LEMMA ProcessJobMoves ==
  ASSUME Ledger, JobTypes', NEW w \in Workers, ProcessJob(w)
  PROVE  Ledger'
<1> DEFINE j == job[w]
<1>1. /\ results' = results \cup {j} /\ job' = [job EXCEPT ![w] = 0]
      /\ wpc' = [wpc EXCEPT ![w] = "check"] /\ wpc[w] = "run"
      /\ UNCHANGED <<numJobs, made, feeder, jobQueue, processed>>
  BY DEF ProcessJob, Ledger, JobTypes
<1>2. Apart(Elements(feeder), Elements(jobQueue), Running, results, processed)
  BY DEF Ledger, Once
<1>3. j # 0 /\ j \in Running
  BY <1>1 DEF Ledger, Once, Running
<1>4. j \notin results
  BY <1>2, <1>3 DEF Apart
<1>5. /\ job'[w] = 0 /\ wpc'[w] = "check"
      /\ \A v \in Workers \ {w} : job'[v] = job[v] /\ wpc'[v] = wpc[v]
  BY <1>1 DEF Ledger, JobTypes
<1>6. \A v \in Workers \ {w} : job[v] # j
  BY <1>3 DEF Ledger, Once
<1>7. Running' = Running \ {j}
  BY <1>3, <1>5, <1>6 DEF Running
<1>8. Busy' = Busy \ {w} /\ w \in Busy
  BY <1>3, <1>5 DEF Busy
<1>9. /\ IsFiniteSet(Busy) /\ Cardinality(Busy) \in Nat
       /\ Len(feeder) \in Nat /\ Len(jobQueue) \in Nat
  BY LedgerFinite DEF Ledger, JobTypes
<1>10. Cardinality(Busy') = Cardinality(Busy) - 1
  BY <1>8, <1>9, FS_RemoveElement
<1>11. Cardinality(results') = Cardinality(results) + 1 /\ Cardinality(results) \in Nat
  BY <1>1, <1>4, LedgerFinite, FS_AddElement DEF Ledger
<1>12. Elements(feeder)' = Elements(feeder) /\ Elements(jobQueue)' = Elements(jobQueue)
  BY <1>1 DEF Elements
<1>13. Outstanding' = Outstanding
  BY <1>1, <1>3, <1>7, <1>12 DEF Outstanding
<1>14. Apart(Elements(feeder), Elements(jobQueue), Running', results', processed)
  BY <1>1, <1>2, <1>3, <1>7 DEF Apart
<1>15. /\ \A u, v \in Workers : job'[u] # 0 /\ job'[u] = job'[v] => u = v
       /\ \A v \in Workers : job'[v] # 0 <=> wpc'[v] = "run"
  BY <1>5 DEF Ledger, Once
<1>16. Once'
  BY <1>1, <1>12, <1>14, <1>15 DEF Ledger, Once, NoRepeat
<1>17. Len(feeder') + Len(jobQueue') + Cardinality(Busy') + Cardinality(results')
         = Len(feeder) + Len(jobQueue) + Cardinality(Busy) + Cardinality(results)
  BY <1>1, <1>10, <1>11, <1>9
<1> QED BY <1>1, <1>13, <1>16, <1>17, LedgerMoved

(* The result processor takes a result and counts it.                      *)
LEMMA ReceiveMoves ==
  ASSUME Ledger, JobTypes', ReceiveResult
  PROVE  Ledger'
<1>1. PICK j \in results : results' = results \ {j} /\ processed' = processed \cup {j}
  BY DEF ReceiveResult
<1>2. numJobs' = numJobs - 1 /\ UNCHANGED <<made, feeder, jobQueue, job, wpc>>
  BY DEF ReceiveResult
<1>3. Apart(Elements(feeder), Elements(jobQueue), Running, results, processed)
  BY DEF Ledger, Once
<1>4. /\ Elements(feeder)' = Elements(feeder) /\ Elements(jobQueue)' = Elements(jobQueue)
      /\ Running' = Running /\ Busy' = Busy
  BY <1>2 DEF Elements, Running, Busy
<1>5. Outstanding' = Outstanding \ {j} /\ j \in Outstanding
  BY <1>1, <1>3, <1>4 DEF Outstanding, Apart
<1>6. Apart(Elements(feeder), Elements(jobQueue), Running, results', processed')
  BY <1>1, <1>3 DEF Apart
<1>7. Once'
  BY <1>2, <1>4, <1>6 DEF Ledger, Once, NoRepeat
<1>8. /\ numJobs \in Nat /\ Len(jobQueue) \in Nat /\ Len(feeder) \in Nat
      /\ Cardinality(Busy) \in Nat /\ Cardinality(results) \in Nat
      /\ Cardinality(Outstanding) \in Nat
  BY LedgerFinite DEF Ledger, JobTypes
<1>9. Cardinality(Outstanding') = Cardinality(Outstanding) - 1
  BY <1>5, LedgerFinite, FS_RemoveElement DEF Ledger
<1>10. Cardinality(results') = Cardinality(results) - 1
  BY <1>1, LedgerFinite, FS_RemoveElement DEF Ledger
<1>11. numJobs = Len(feeder) + Len(jobQueue) + Cardinality(Busy) + Cardinality(results)
       /\ numJobs = Cardinality(Outstanding)
  BY DEF Ledger, Accounting, Busy
<1>12. numJobs' = Len(feeder) + Len(jobQueue) + Cardinality(Busy) + Cardinality(results')
       /\ numJobs' = Cardinality(Outstanding')
  BY <1>2, <1>8, <1>9, <1>10, <1>11
<1>13. Outstanding' \cap processed' = {} /\ Outstanding' \cup processed' = 1 .. made'
  BY <1>1, <1>2, <1>5 DEF Ledger, Accounting
<1>14. Accounting'
  BY <1>2, <1>4, <1>12, <1>13 DEF Accounting, Busy
<1> QED BY <1>7, <1>14 DEF Ledger
(***************************************************************************)
(* Steps of the threads.                                                   *)
(***************************************************************************)
(* Every variable keeps its type.                                          *)
LEMMA TypesStep ==
  ASSUME JobInv, [Next]_vars
  PROVE  JobTypes'
<1> USE DEF JobInv, JobTypes
<1>1. ASSUME EnqueueJob, ~NoMoreJobs
      PROVE  made' \in 0 .. MaxJobs /\ numJobs' \in Nat /\ feeder' \in Seq(Jobs)
  <2>1. made + 1 \in Jobs /\ made + 1 \in 0 .. MaxJobs
    BY <1>1, SchedulerAssumption DEF NoMoreJobs, Jobs, SchedulerAssumption
  <2> QED BY <1>1, <2>1 DEF EnqueueJob
<1>2. CASE Starter
  <2>1. CASE StartProcesses
    BY <2>1 DEF StartProcesses, queues, history
  <2>2. CASE AwaitPinned
    BY <2>2 DEF AwaitPinned, queues, history
  <2>3. CASE InitialJobs
    BY <2>3 DEF InitialJobs, queues, history
  <2>4. CASE GenerateInitial
    <3>1. CASE NoMoreJobs
      BY <2>4, <3>1 DEF GenerateInitial, history
    <3>2. CASE ~NoMoreJobs
      BY <2>4, <3>2, <1>1 DEF GenerateInitial, history
    <3> QED BY <3>1, <3>2 DEF NoMoreJobs
  <2>5. CASE StartThread
    BY <2>5 DEF StartThread, queues, history
  <2>6. CASE Join
    BY <2>6 DEF Join, queues, history
  <2> QED BY <1>2, <2>1, <2>2, <2>3, <2>4, <2>5, <2>6 DEF Starter
<1>3. CASE ResultProcessor
  <2>1. CASE ReceiveResult
    <3>1. PICK j \in results : results' = results \ {j} /\ processed' = processed \cup {j}
      BY <2>1 DEF ReceiveResult
    <3>2. numJobs' \in Nat
      BY <2>1 DEF ReceiveResult
    <3> QED BY <2>1, <3>1, <3>2 DEF ReceiveResult, history
  <2>2. CASE GenerateNext
    <3>1. CASE NoMoreJobs
      BY <2>2, <3>1 DEF GenerateNext, history
    <3>2. CASE ~NoMoreJobs
      BY <2>2, <3>2, <1>1 DEF GenerateNext, history
    <3> QED BY <3>1, <3>2 DEF NoMoreJobs
  <2>3. CASE EndOfResults
    BY <2>3 DEF EndOfResults, queues, history
  <2> QED BY <1>3, <2>1, <2>2, <2>3 DEF ResultProcessor
<1>4. CASE Shutdown
  BY <1>4, SchedulerAssumption DEF Shutdown, queues, SchedulerAssumption
<1>5. CASE Feed
  <2>1. Tail(feeder) \in Seq(Jobs) /\ Head(feeder) \in Jobs
    BY <1>5 DEF Feed
  <2>2. Append(jobQueue, Head(feeder)) \in Seq(Jobs)
    BY <2>1
  <2> QED BY <1>5, <2>1, <2>2 DEF Feed, history
<1>6. ASSUME NEW w \in Workers, Worker(w)
      PROVE  JobTypes'
  <2>1. CASE Pin(w) \/ CheckQueue(w) \/ CheckEvent(w)
    BY <2>1 DEF Pin, CheckQueue, CheckEvent, queues, history
  <2>2. CASE GetJob(w)
    <3>1. CASE jobQueue = << >>
      BY <2>2, <3>1 DEF GetJob, history
    <3>2. CASE jobQueue # << >>
      <4>1. Tail(jobQueue) \in Seq(Jobs) /\ Head(jobQueue) \in Jobs
        BY <3>2
      <4>2. Head(jobQueue) \in 0 .. MaxJobs
        BY <4>1 DEF Jobs
      <4> QED BY <2>2, <3>2, <4>1, <4>2 DEF GetJob, history
    <3> QED BY <3>1, <3>2
  <2>3. CASE ProcessJob(w)
    <3>1. job[w] \in Jobs
      BY <2>3, SchedulerAssumption DEF ProcessJob, Once, Jobs, SchedulerAssumption
    <3>2. 0 \in 0 .. MaxJobs
      BY SchedulerAssumption DEF SchedulerAssumption
    <3> QED BY <2>3, <3>1, <3>2 DEF ProcessJob, history
  <2> QED BY <1>6, <2>1, <2>2, <2>3 DEF Worker
<1>7. CASE Terminated \/ UNCHANGED vars
  BY <1>7 DEF Terminated, vars
<1> QED BY <1>2, <1>3, <1>4, <1>5, <1>6, <1>7 DEF Next

(* Every step keeps the accounts.                                          *)
LEMMA LedgerStep ==
  ASSUME JobInv, JobTypes', [Next]_vars
  PROVE  Ledger'
<1>1. Ledger
  BY DEF JobInv, Ledger
<1>2. CASE Starter
  <2>1. CASE StartProcesses
    <3>1. \A w \in Workers : wpc[w] = "run" <=> wpc'[w] = "run"
      <4>1. made = 0
        BY <2>1 DEF StartProcesses, JobInv, Control
      <4>2. Outstanding = {}
        BY <4>1 DEF JobInv, Accounting
      <4>3. \A w \in Workers : job[w] = 0
        BY <4>2 DEF Outstanding, Running
      <4> QED BY <2>1, <4>3 DEF StartProcesses, JobInv, Once
    <3> QED BY <1>1, <2>1, <3>1, LedgerKept DEF StartProcesses
  <2>2. CASE AwaitPinned \/ InitialJobs \/ StartThread \/ Join
    BY <1>1, <2>2, LedgerKept DEF AwaitPinned, InitialJobs, StartThread, Join
  <2>3. CASE GenerateInitial
    <3>1. CASE NoMoreJobs
      BY <1>1, <2>3, <3>1, LedgerKept DEF GenerateInitial, queues
    <3>2. CASE ~NoMoreJobs
      BY <1>1, <2>3, <3>2, LedgerEnqueue DEF GenerateInitial
    <3> QED BY <3>1, <3>2 DEF NoMoreJobs
  <2> QED BY <1>2, <2>1, <2>2, <2>3 DEF Starter
<1>3. CASE ResultProcessor
  <2>1. CASE GenerateNext
    <3>1. CASE NoMoreJobs
      BY <1>1, <2>1, <3>1, LedgerKept DEF GenerateNext, queues
    <3>2. CASE ~NoMoreJobs
      BY <1>1, <2>1, <3>2, LedgerEnqueue DEF GenerateNext
    <3> QED BY <3>1, <3>2 DEF NoMoreJobs
  <2>2. CASE EndOfResults
    BY <1>1, <2>2, LedgerKept DEF EndOfResults
  <2> QED BY <1>1, <1>3, <2>1, <2>2, ReceiveMoves DEF ResultProcessor
<1>4. CASE Shutdown
  BY <1>1, <1>4, LedgerKept DEF Shutdown
<1>5. CASE Feed
  BY <1>1, <1>5, FeedMoves
<1>6. ASSUME NEW w \in Workers, Worker(w)
      PROVE  Ledger'
  <2>1. CASE Pin(w) \/ CheckQueue(w) \/ CheckEvent(w)
    <3>1. \A v \in Workers : wpc'[v] = "run" <=> wpc[v] = "run"
      BY <2>1 DEF Pin, CheckQueue, CheckEvent, JobInv, JobTypes
    <3> QED BY <1>1, <2>1, <3>1, LedgerKept DEF Pin, CheckQueue, CheckEvent
  <2>2. CASE GetJob(w)
    <3>1. CASE jobQueue = << >>
      <4>1. \A v \in Workers : wpc'[v] = "run" <=> wpc[v] = "run"
        BY <2>2, <3>1 DEF GetJob, JobInv, JobTypes
      <4> QED BY <1>1, <2>2, <3>1, <4>1, LedgerKept DEF GetJob, queues
    <3>2. CASE jobQueue # << >>
      BY <1>1, <2>2, <3>2, GetJobMoves
    <3> QED BY <3>1, <3>2
  <2>3. CASE ProcessJob(w)
    BY <1>1, <2>3, ProcessJobMoves
  <2> QED BY <1>6, <2>1, <2>2, <2>3 DEF Worker
<1>7. CASE Terminated \/ UNCHANGED vars
  BY <1>1, <1>7, LedgerKept DEF Terminated, vars, queues
<1> QED BY <1>2, <1>3, <1>4, <1>5, <1>6, <1>7 DEF Next
(* Before the result processor runs, every job that was made is            *)
(* outstanding.                                                            *)
LEMMA NoneProcessed ==
  ASSUME JobInv, processed = {}
  PROVE  numJobs = made
<1>1. Outstanding = 1 .. made /\ numJobs = Cardinality(Outstanding) /\ made \in Nat
  BY DEF JobInv, JobTypes, Accounting
<1>2. Cardinality(1 .. made) = made
  BY <1>1, FS_Interval
<1> QED BY <1>1, <1>2

(* Every step keeps the places of the threads and the counters in line.    *)
LEMMA ControlStep ==
  ASSUME JobInv, [Next]_vars
  PROVE  Control'
<1> USE DEF JobInv, JobTypes, Control
<1>1. MaxJobs \in Nat /\ NumProcesses \in Nat \ {0}
  BY SchedulerAssumption DEF SchedulerAssumption
<1>2. CASE Starter
  <2>1. CASE StartProcesses
    BY <2>1 DEF StartProcesses, history
  <2>2. CASE AwaitPinned
    BY <2>2 DEF AwaitPinned, history
  <2>3. CASE InitialJobs
    <3>1. ~stopped /\ mpc' = "launch" => made > 0
      BY <1>1, <2>3 DEF InitialJobs
    <3>2. stopped => mpc' # "generate"
      BY <2>3 DEF InitialJobs
    <3> QED BY <2>3, <3>1, <3>2 DEF InitialJobs, history
  <2>4. CASE GenerateInitial
    <3>1. CASE NoMoreJobs
      BY <2>4, <3>1 DEF GenerateInitial, history, NoMoreJobs
    <3>2. CASE ~NoMoreJobs
      BY <2>4, <3>2 DEF GenerateInitial, history, EnqueueJob
    <3> QED BY <3>1, <3>2 DEF NoMoreJobs
  <2>5. CASE StartThread
    <3>1. tpc = "idle" /\ numJobs = made
      BY <2>5, NoneProcessed DEF StartThread
    <3> QED BY <2>5, <3>1, <1>1 DEF StartThread, history
  <2>6. CASE Join
    BY <2>6 DEF Join, history
  <2> QED BY <1>2, <2>1, <2>2, <2>3, <2>4, <2>5, <2>6 DEF Starter
<1>3. CASE ResultProcessor
  <2>1. CASE ReceiveResult
    BY <2>1 DEF ReceiveResult, history
  <2>2. CASE GenerateNext
    <3>1. CASE NoMoreJobs
      BY <2>2, <3>1 DEF GenerateNext, history, NoMoreJobs
    <3>2. CASE ~NoMoreJobs
      BY <2>2, <3>2 DEF GenerateNext, history, EnqueueJob
    <3> QED BY <3>1, <3>2 DEF NoMoreJobs
  <2>3. CASE EndOfResults
    BY <2>3 DEF EndOfResults, history
  <2> QED BY <1>3, <2>1, <2>2, <2>3 DEF ResultProcessor
<1>4. CASE Shutdown
  BY <1>4 DEF Shutdown
<1>5. CASE Feed
  BY <1>5 DEF Feed, history
<1>6. ASSUME NEW w \in Workers, Worker(w)
      PROVE  Control'
  BY <1>6 DEF Worker, Pin, CheckQueue, CheckEvent, GetJob, ProcessJob, history
<1>7. CASE Terminated \/ UNCHANGED vars
  BY <1>7 DEF Terminated, vars
<1> QED BY <1>2, <1>3, <1>4, <1>5, <1>6, <1>7 DEF Next

(* The invariant holds of a scheduler that has not been started.           *)
LEMMA JobInvInit ==
  ASSUME Init
  PROVE  JobInv
<1>1. JobTypes
  <2>1. << >> \in Seq(Jobs) /\ MaxJobs \in Nat
    BY SchedulerAssumption DEF SchedulerAssumption
  <2>2. /\ wpc \in [Workers -> {"new", "pin", "check", "event", "get", "run", "exit"}]
        /\ job \in [Workers -> 0 .. MaxJobs]
    BY <2>1 DEF Init
  <2>3. feeder \in Seq(Jobs) /\ jobQueue \in Seq(Jobs)
    BY <2>1 DEF Init
  <2>4. made \in 0 .. MaxJobs /\ results \in SUBSET Jobs /\ processed \in SUBSET Jobs
    BY <2>1 DEF Init
  <2> QED BY <2>2, <2>3, <2>4 DEF Init, JobTypes
<1>2. Elements(feeder) = {} /\ Elements(jobQueue) = {} /\ Running = {} /\ Outstanding = {}
  BY DEF Init, Elements, Running, Outstanding
<1>3. Once
  BY <1>2 DEF Init, Once, Apart, NoRepeat
<1>4. Accounting
  <2>1. Busy = {}
    BY DEF Init, Busy
  <2>2. Len(feeder) = 0 /\ Len(jobQueue) = 0 /\ numJobs = 0 /\ results = {} /\ 1 .. made = {}
    BY DEF Init
  <2>3. processed = {} /\ Cardinality({}) = 0
    BY FS_EmptySet DEF Init
  <2>4. Outstanding \cap processed = {} /\ Outstanding \cup processed = 1 .. made
    BY <1>2, <2>2, <2>3
  <2>5. /\ numJobs = Len(feeder) + Len(jobQueue) + Cardinality(Busy) + Cardinality(results)
        /\ numJobs = Cardinality(Outstanding)
    BY <1>2, <2>1, <2>2, <2>3
  <2> QED BY <2>4, <2>5 DEF Accounting, Busy
<1>5. Control
  BY DEF Init, Control
<1> QED BY <1>1, <1>3, <1>4, <1>5 DEF JobInv

(* The invariant is inductive.                                             *)
LEMMA JobInvStep ==
  ASSUME JobInv, [Next]_vars
  PROVE  JobInv'
<1>1. JobTypes'
  BY TypesStep
<1>2. Ledger'
  BY <1>1, LedgerStep
<1>3. Control'
  BY ControlStep
<1> QED BY <1>1, <1>2, <1>3 DEF JobInv, Ledger

(* When join() has returned, nothing is outstanding.                       *)
LEMMA JoinedMeansProcessed ==
  ASSUME JobInv
  PROVE  JoinMeansProcessed
<1> SUFFICES ASSUME mpc = "joined"
             PROVE  processed = 1 .. made /\ (IF stopped THEN made <= atStop + 1 ELSE made = MaxJobs)
  BY DEF JoinMeansProcessed
<1>1. tpc = "done" /\ numJobs = 0
  BY DEF JobInv, Control
<1>2. Outstanding = {}
  BY <1>1, LedgerFinite, FS_EmptySet DEF JobInv, Accounting
<1>3. processed = 1 .. made
  BY <1>2 DEF JobInv, Accounting
<1>4. IF stopped THEN made <= atStop + 1 ELSE made = MaxJobs
  BY <1>1 DEF JobInv, JobTypes, Control
<1> QED BY <1>3, <1>4

(***************************************************************************)
(* num_jobs of _enqueue_job and _result_processor: for any number of       *)
(* processes and jobs, and a shutdown() at any time, it is the number of   *)
(* jobs between the two, each of which is in one place, and no job is lost *)
(* or processed twice.                                                     *)
(***************************************************************************)
THEOREM AccountingAlways == Spec => []Accounting
<1>1. Init => JobInv
  BY JobInvInit
<1>2. JobInv /\ [Next]_vars => JobInv'
  BY JobInvStep
<1>3. JobInv => Accounting
  BY DEF JobInv
<1> QED BY <1>1, <1>2, <1>3, PTL DEF Spec

(***************************************************************************)
(* join(): for any number of processes and jobs, when it returns every job *)
(* that was made has been processed, and unless shutdown() was called all  *)
(* jobs were made; after a shutdown() at most one more is made.            *)
(***************************************************************************)
THEOREM JoinAlways == Spec => []JoinMeansProcessed
<1>1. Init => JobInv
  BY JobInvInit
<1>2. JobInv /\ [Next]_vars => JobInv'
  BY JobInvStep
<1>3. JobInv => JoinMeansProcessed
  BY JoinedMeansProcessed
<1> QED BY <1>1, <1>2, <1>3, PTL DEF Spec

=============================================================================
