------------------------ MODULE BenchPipeline_proofs ------------------------
(***************************************************************************)
(* Proofs about BenchPipeline for every set of submissions, workers and    *)
(* partitions, every fault budget and every fetch size.                    *)
(***************************************************************************)
EXTENDS BenchPipeline, TLAPS

-----------------------------------------------------------------------------
(* Type correctness *)

\* NoRecord names a partition and the offset of no record.
LEMMA NoRecordType == NoRecord \in [part : Partitions, off : Nat] /\ NoRecord.off = 0
  BY PipelineAssumption DEF NoRecord

\* The zero record is a submission record.
LEMMA BlankType == Blank \in Submission
  BY DEF Blank, Submission, Statuses, Profiles

\* The first job Ingest publishes is a job of the submission.
LEMMA FirstJobType == ASSUME NEW s \in Subs PROVE FirstJob(s) \in Job
  <1>1. <<"medium", "high">> \in Seq(Profiles) /\ <<>> \in Seq(Profiles)
    BY DEF Profiles
  <1>2. QED
    BY <1>1 DEF FirstJob, NewJob, NewProfileJob, Job, Labels, Profiles

\* A busy worker's job is a record of the log.
LEMMA JobOfType ==
    ASSUME TypeOK, NEW w \in Workers, Busy(w)
    PROVE  /\ JobOf(w) \in Job
           /\ at[w].part \in Partitions
           /\ at[w].off \in 1..Len(log[at[w].part])
  BY DEF TypeOK, QueueType, WorkerType, JobOf

\* Publishing a job keeps every record and lengthens one partition.
LEMMA ProduceType ==
    ASSUME TypeOK, NEW j \in Job, Produce(j)
    PROVE  /\ log' \in [Partitions -> Seq(Job)]
           /\ \A p \in Partitions : Len(log'[p]) \in Nat /\ Len(log'[p]) >= Len(log[p])
           /\ \A p \in Partitions : \A i \in 1..Len(log[p]) : log'[p][i] = log[p][i]
  <1> DEFINE q == PartitionOf[j.sub]
  <1>1. q \in Partitions
    BY PipelineAssumption DEF Job
  <1>2. \A p \in Partitions : log[p] \in Seq(Job)
    BY DEF TypeOK, QueueType
  <1>3. log' = [log EXCEPT ![q] = Append(@, j)] /\ log \in [Partitions -> Seq(Job)]
    BY DEF Produce, TypeOK, QueueType
  <1> HIDE DEF q
  <1>4. Append(log[q], j) \in Seq(Job) /\ Len(Append(log[q], j)) = Len(log[q]) + 1
    BY <1>1, <1>2
  <1>5. \A i \in 1..Len(log[q]) : Append(log[q], j)[i] = log[q][i]
    BY <1>1, <1>2
  <1>6. \A p \in Partitions : log'[p] = IF p = q THEN Append(log[q], j) ELSE log[p]
    BY <1>1, <1>3
  <1>7. \A p \in Partitions : log'[p] \in Seq(Job)
    BY <1>2, <1>4, <1>6
  <1>8. log' \in [Partitions -> Seq(Job)]
    BY <1>1, <1>3, <1>4
  <1>9. ASSUME NEW p \in Partitions
        PROVE  Len(log'[p]) \in Nat /\ Len(log'[p]) >= Len(log[p])
    <2>1. log[p] \in Seq(Job)
      BY <1>2
    <2>2. CASE p = q
      <3>1. log'[p] = Append(log[p], j)
        BY <2>2, <1>6
      <3>2. Len(log'[p]) = Len(log[p]) + 1 /\ Len(log[p]) \in Nat
        BY <2>1, <3>1
      <3> QED
        BY <3>2
    <2>3. CASE p # q
      BY <2>1, <2>3, <1>6
    <2> QED
      BY <2>2, <2>3
  <1>10. ASSUME NEW p \in Partitions, NEW i \in 1..Len(log[p])
         PROVE  log'[p][i] = log[p][i]
    <2>1. CASE p = q
      BY <2>1, <1>5, <1>6
    <2>2. CASE p # q
      BY <2>2, <1>6
    <2> QED
      BY <2>1, <2>2
  <1> QED
    BY <1>8, <1>9, <1>10

\* The log either keeps its value or gains one job.
LEMMA LogStable ==
    ASSUME TypeOK, NEW j \in Job, Produce(j) \/ UNCHANGED log
    PROVE  /\ log' \in [Partitions -> Seq(Job)]
           /\ \A p \in Partitions : Len(log'[p]) \in Nat /\ Len(log'[p]) >= Len(log[p])
           /\ \A p \in Partitions : \A i \in 1..Len(log[p]) : log'[p][i] = log[p][i]
  <1>1. CASE Produce(j)
    BY <1>1, ProduceType
  <1>2. CASE UNCHANGED log
    BY <1>2 DEF TypeOK, QueueType
  <1> QED
    BY <1>1, <1>2

\* A worker that keeps its record and moves between two busy points leaves
\* the types of the queue and of the workers alone.
LEMMA Moves ==
    ASSUME TypeOK, NEW w \in Workers, Busy(w), NEW l \in Executing \cup {"commit"},
           Goto(w, l), Fits(l, JobOf(w)), UNCHANGED <<at, queueVars>>
    PROVE  QueueType' /\ WorkerType'
  <1>1. QueueType'
    BY DEF TypeOK, QueueType, queueVars
  <1>2. pc' \in [Workers -> Executing \cup {"poll", "guard", "commit", "down"}]
    BY DEF TypeOK, WorkerType, Goto
  <1>3. ASSUME NEW v \in Workers, Busy(v)'
        PROVE  at'[v].off \in 1..Len(log'[at'[v].part]) /\ Fits(pc'[v], JobOf(v)')
    <2>1. Busy(v)
      BY <1>3 DEF Busy, Goto, TypeOK, WorkerType
    <2>2. JobOf(v)' = JobOf(v)
      BY DEF JobOf, queueVars
    <2>3. pc'[v] = pc[v] \/ (v = w /\ pc'[v] = l)
      BY DEF Goto, TypeOK, WorkerType
    <2>4. Fits(pc'[v], JobOf(v))
      BY <2>1, <2>3 DEF TypeOK, WorkerType
    <2> QED
      BY <2>1, <2>2, <2>4 DEF TypeOK, WorkerType, queueVars
  <1> QED
    BY <1>1, <1>2, <1>3 DEF TypeOK, WorkerType

\* A worker that becomes idle (or dies) leaves the types of the workers alone.
LEMMA Idles ==
    ASSUME TypeOK, NEW w \in Workers, NEW l \in {"poll", "down"},
           Goto(w, l), at' = at \/ at' = [at EXCEPT ![w] = NoRecord],
           UNCHANGED log
    PROVE  WorkerType'
  <1>1. pc' \in [Workers -> Executing \cup {"poll", "guard", "commit", "down"}]
    BY DEF TypeOK, WorkerType, Goto
  <1>2. at' \in [Workers -> [part : Partitions, off : Nat]]
    BY NoRecordType DEF TypeOK, WorkerType
  <1>3. ASSUME NEW v \in Workers, Busy(v)'
        PROVE  at'[v].off \in 1..Len(log'[at'[v].part]) /\ Fits(pc'[v], JobOf(v)')
    <2>1. v # w /\ Busy(v) /\ pc'[v] = pc[v]
      BY <1>3 DEF Busy, Goto, TypeOK, WorkerType, Executing
    <2>2. at'[v] = at[v] /\ JobOf(v)' = JobOf(v)
      BY <2>1 DEF TypeOK, WorkerType, JobOf
    <2> QED
      BY <2>1, <2>2 DEF TypeOK, WorkerType
  <1> QED
    BY <1>1, <1>2, <1>3 DEF WorkerType

\* Publishing a job, or failing to, disturbs no offset and no pendingRecord.
LEMMA Lengthens ==
    ASSUME TypeOK, NEW j \in Job, Produce(j) \/ UNCHANGED log,
           UNCHANGED <<committed, owner, pos, dropped, pc, at>>
    PROVE  QueueType' /\ WorkerType'
  <1>1. /\ log' \in [Partitions -> Seq(Job)]
        /\ \A p \in Partitions : Len(log'[p]) \in Nat /\ Len(log'[p]) >= Len(log[p])
        /\ \A p \in Partitions : \A i \in 1..Len(log[p]) : log'[p][i] = log[p][i]
    BY LogStable
  <1>2. \A p \in Partitions : Len(log[p]) \in Nat
    BY DEF TypeOK, QueueType
  <1>3. QueueType'
    BY <1>1, <1>2 DEF TypeOK, QueueType
  <1>4. ASSUME NEW v \in Workers, Busy(v)'
        PROVE  at'[v].off \in 1..Len(log'[at'[v].part]) /\ Fits(pc'[v], JobOf(v)')
    <2>1. /\ Busy(v) /\ at[v].part \in Partitions
          /\ at[v].off \in 1..Len(log[at[v].part]) /\ Fits(pc[v], JobOf(v))
      BY <1>4 DEF Busy, TypeOK, WorkerType
    <2>2. JobOf(v)' = JobOf(v)
      BY <1>1, <2>1 DEF JobOf
    <2>3. at[v].off \in 1..Len(log'[at[v].part])
      BY <1>1, <1>2, <2>1
    <2> QED
      BY <2>1, <2>2, <2>3
  <1> QED
    BY <1>3, <1>4 DEF TypeOK, WorkerType

\* A step of somebody else leaves the queue and the workers alone.
LEMMA Untouched ==
    ASSUME TypeOK, UNCHANGED <<queueVars, pc, at>>
    PROVE  QueueType' /\ WorkerType'
  <1>1. QueueType'
    BY DEF TypeOK, QueueType, queueVars
  <1>2. \A v \in Workers : JobOf(v)' = JobOf(v) /\ Busy(v)' = Busy(v)
    BY DEF JobOf, Busy, queueVars
  <1> QED
    BY <1>1, <1>2 DEF TypeOK, WorkerType, queueVars

\* An Update (or its logged failure) keeps the store's type.
LEMMA UpdateType ==
    ASSUME TypeOK, NEW s \in Subs, NEW r \in Submission, UpdateOrLog(s, r)
    PROVE  store' \in [Subs -> Submission] /\ faults' \in 0..MaxFaults
  BY PipelineAssumption DEF TypeOK, StoreType, UpdateOrLog, Fault

\* A fault stays within the budget.
LEMMA FaultType ==
    ASSUME TypeOK, NEW k, Fault(k) \/ UNCHANGED faults
    PROVE  faults' \in 0..MaxFaults
  BY PipelineAssumption DEF TypeOK, StoreType, Fault

\* The field updates the worker makes stay within the record type.
LEMMA RecordType ==
    ASSUME NEW r \in Submission
    PROVE  /\ \A x \in Statuses : [r EXCEPT !.status = x] \in Submission
           /\ \A x \in {"none", "pass", "fail"} : [r EXCEPT !.dryRun = x] \in Submission
           /\ \A x \in Profiles : [r EXCEPT !.results = Append(@, x)] \in Submission
           /\ [r EXCEPT !.final = Range(r.results)] \in Submission
           /\ \A j \in Job, e \in BOOLEAN : Outcome(r, j, e) \in Submission
  <1>1. \A x \in Profiles : Append(r.results, x) \in Seq(Profiles)
    BY DEF Submission
  <1>2. Range(r.results) \subseteq Profiles
    BY DEF Submission, Range
  <1>3. \A j \in Job, e \in BOOLEAN : Outcome(r, j, e) \in Submission
    BY DEF Outcome, Submission, Statuses
  <1> QED
    BY <1>1, <1>2, <1>3 DEF Submission


\* Ingest keeps the types.
LEMMA IngestType ==
    ASSUME TypeOK, NEW s \in Subs, IngestStep(s) \/ IngestAborts(s)
    PROVE  TypeOK'
  <1>1. CASE SaveSubmission(s)
    <2>1. [Blank EXCEPT !.status = "pending"] \in Submission
      BY BlankType, RecordType DEF Statuses
    <2>2. StoreType'
      BY <1>1, <2>1 DEF SaveSubmission, TypeOK, StoreType, workerVars
    <2> QED
      BY <1>1, <2>2, Untouched DEF SaveSubmission, TypeOK, workerVars
  <1>2. CASE EnqueueFirst(s)
    <2>1. FirstJob(s) \in Job /\ (Produce(FirstJob(s)) \/ UNCHANGED log)
      BY <1>2, FirstJobType DEF EnqueueFirst, ProduceFails
    <2>2. faults' \in 0..MaxFaults
      BY <1>2, FaultType DEF EnqueueFirst, ProduceFails
    <2>3. StoreType'
      BY <1>2, <2>2 DEF EnqueueFirst, TypeOK, StoreType, workerVars
    <2>4. UNCHANGED <<committed, owner, pos, dropped, pc, at>>
      BY <1>2 DEF EnqueueFirst, workerVars
    <2> QED
      BY <2>1, <2>3, <2>4, Lengthens DEF TypeOK
  <1>3. CASE IngestFailed(s)
    <2>1. [Blank EXCEPT !.status = "failed"] \in Submission
      BY BlankType, RecordType DEF Statuses
    <2>2. store' \in [Subs -> Submission] /\ faults' \in 0..MaxFaults
      BY <1>3, <2>1, UpdateType DEF IngestFailed
    <2>3. StoreType'
      BY <1>3, <2>2 DEF IngestFailed, TypeOK, StoreType, workerVars
    <2> QED
      BY <1>3, <2>3, Untouched DEF IngestFailed, TypeOK, workerVars
  <1>4. CASE IngestAborts(s)
    <2>1. faults' \in 0..MaxFaults
      BY <1>4, FaultType DEF IngestAborts
    <2>2. StoreType'
      BY <1>4, <2>1 DEF IngestAborts, TypeOK, StoreType, workerVars
    <2> QED
      BY <1>4, <2>2, Untouched DEF IngestAborts, TypeOK, workerVars
  <1> QED
    BY <1>1, <1>2, <1>3, <1>4 DEF IngestStep

\* The steps inside processJob and Execute that leave the queue alone.
LEMMA WorkType ==
    ASSUME TypeOK, NEW w \in Workers,
           \/ Claim(w) \/ Load(w) \/ Deploy(w) \/ PersistContainer(w)
           \/ WaitHealthy(w) \/ Preflight(w) \/ WriteDryRun(w) \/ MarkFailed(w)
           \/ SetBenchmarking(w) \/ RunFleet(w) \/ AppendResult(w)
           \/ LoadForScore(w) \/ WriteFinalScore(w) \/ StopContainer(w)
           \/ Reread(w) \/ WriteOutcome(w)
    PROVE  TypeOK'
  <1>1. Busy(w)
    BY DEF Busy, Executing, Claim, Load, Deploy, PersistContainer, WaitHealthy,
           Preflight, WriteDryRun, MarkFailed, SetBenchmarking, RunFleet,
           AppendResult, LoadForScore, WriteFinalScore, StopContainer, Reread,
           WriteOutcome
  <1>0. Fits(pc[w], JobOf(w))
    BY <1>1 DEF TypeOK, WorkerType
  <1>2. JobOf(w) \in Job /\ JobOf(w).sub \in Subs
    BY <1>1, JobOfType DEF Job
  <1>3. /\ \E l \in Executing \cup {"commit"} : Goto(w, l) /\ Fits(l, JobOf(w))
        /\ UNCHANGED <<at, queueVars>>
    BY <1>0 DEF Executing, Fits, Claim, Load, Deploy, PersistContainer, WaitHealthy,
           Preflight, WriteDryRun, MarkFailed, SetBenchmarking, RunFleet,
           AppendResult, LoadForScore, WriteFinalScore, StopContainer, Reread,
           WriteOutcome, ExecuteFails, ExecuteReturns
  <1>4. QueueType' /\ WorkerType'
    BY <1>1, <1>3, Moves
  <1>5. psub[w] \in Submission /\ xsub[w] \in Submission /\ store[JobOf(w).sub] \in Submission
    BY <1>2 DEF TypeOK, StoreType
  <1>6. execErr[w] \in BOOLEAN
    BY DEF TypeOK, StoreType
  <1> HIDE DEF TypeOK
  <1> DEFINE s == JobOf(w).sub
  <1>7. CASE Claim(w)
    <2>1. [psub[w] EXCEPT !.status = "deploying"] \in Submission
      BY <1>2, <1>5, <1>6, RecordType DEF Statuses
    <2>2. store' \in [Subs -> Submission] /\ faults' \in 0..MaxFaults
      BY <1>7, <1>2, <2>1, UpdateType DEF Claim
    <2>3. StoreType'
      BY <1>7, <2>1, <2>2 DEF Claim, TypeOK, StoreType
    <2> QED
      BY <1>4, <2>3 DEF TypeOK
  <1>8. CASE Load(w)
    <2>1. faults' \in 0..MaxFaults
      BY <1>8, FaultType DEF Load
    <2>2. StoreType'
      BY <1>8, <1>5, <2>1 DEF Load, TypeOK, StoreType, ExecuteFails
    <2> QED
      BY <1>4, <2>2 DEF TypeOK
  <1>9. CASE Deploy(w)
    <2>1. StoreType'
      BY <1>9, <1>2 DEF Deploy, TypeOK, StoreType, ExecuteFails
    <2> QED
      BY <1>4, <2>1 DEF TypeOK
  <1>10. CASE PersistContainer(w)
    <2>1. store' \in [Subs -> Submission] /\ faults' \in 0..MaxFaults
      BY <1>10, <1>2, <1>5, UpdateType DEF PersistContainer
    <2>2. StoreType'
      BY <1>10, <2>1 DEF PersistContainer, TypeOK, StoreType
    <2> QED
      BY <1>4, <2>2 DEF TypeOK
  <1>11. CASE WaitHealthy(w)
    <2>1. StoreType'
      BY <1>11 DEF WaitHealthy, TypeOK, StoreType, ExecuteReturns
    <2> QED
      BY <1>4, <2>1 DEF TypeOK
  <1>12. CASE Preflight(w)
    <2>1. faults' \in 0..MaxFaults
      BY <1>12, FaultType DEF Preflight, GetOrCached
    <2>2. xsub' \in [Workers -> Submission]
      BY <1>12, <1>5 DEF Preflight, GetOrCached, TypeOK, StoreType
    <2>3. execErr' \in [Workers -> BOOLEAN]
      BY <1>12 DEF Preflight, TypeOK, StoreType
    <2>4. StoreType'
      BY <1>12, <2>1, <2>2, <2>3 DEF Preflight, TypeOK, StoreType
    <2> QED
      BY <1>4, <2>4 DEF TypeOK
  <1>13. CASE WriteDryRun(w)
    <2>1. [xsub[w] EXCEPT !.dryRun = IF execErr[w] THEN "fail" ELSE "pass"] \in Submission
      BY <1>2, <1>5, <1>6, RecordType DEF Statuses
    <2>2. store' \in [Subs -> Submission] /\ faults' \in 0..MaxFaults
      BY <1>13, <1>2, <2>1, UpdateType DEF WriteDryRun
    <2>3. StoreType'
      BY <1>13, <2>1, <2>2 DEF WriteDryRun, TypeOK, StoreType
    <2> QED
      BY <1>4, <2>3 DEF TypeOK
  <1>14. CASE MarkFailed(w)
    <2>1. [xsub[w] EXCEPT !.status = "failed"] \in Submission
      BY <1>2, <1>5, <1>6, RecordType DEF Statuses
    <2>2. store' \in [Subs -> Submission] /\ faults' \in 0..MaxFaults
      BY <1>14, <1>2, <2>1, UpdateType DEF MarkFailed
    <2>3. StoreType'
      BY <1>14, <2>1, <2>2 DEF MarkFailed, TypeOK, StoreType, ExecuteReturns
    <2> QED
      BY <1>4, <2>3 DEF TypeOK
  <1>15. CASE SetBenchmarking(w)
    <2>1. [xsub[w] EXCEPT !.status = "benchmarking"] \in Submission
      BY <1>2, <1>5, <1>6, RecordType DEF Statuses
    <2>2. store' \in [Subs -> Submission] /\ faults' \in 0..MaxFaults
      BY <1>15, <1>2, <2>1, UpdateType DEF SetBenchmarking
    <2>3. StoreType'
      BY <1>15, <2>1, <2>2 DEF SetBenchmarking, TypeOK, StoreType
    <2> QED
      BY <1>4, <2>3 DEF TypeOK
  <1>16. CASE RunFleet(w)
    <2>1. faults' \in 0..MaxFaults
      BY <1>16, FaultType DEF RunFleet, GetOrCached
    <2>2. xsub' \in [Workers -> Submission] /\ execErr' \in [Workers -> BOOLEAN]
      BY <1>16, <1>5 DEF RunFleet, GetOrCached, ExecuteReturns, TypeOK, StoreType
    <2>3. StoreType'
      BY <1>16, <2>1, <2>2 DEF RunFleet, TypeOK, StoreType
    <2> QED
      BY <1>4, <2>3 DEF TypeOK
  <1>17. CASE AppendResult(w)
    <2>1. CASE JobOf(w).label \in Profiles
      <3>1. [xsub[w] EXCEPT !.results = Append(@, JobOf(w).label)] \in Submission
        BY <2>1, <1>5, RecordType
      <3>2. faults' \in 0..MaxFaults
        BY <1>17, FaultType DEF AppendResult
      <3>3. StoreType'
        BY <1>17, <1>2, <3>1, <3>2 DEF AppendResult, TypeOK, StoreType, ExecuteReturns
      <3> QED
        BY <1>4, <3>3 DEF TypeOK
    <2> QED
      BY <2>1, <1>2, <1>0, <1>17 DEF AppendResult, Fits, Job, Labels
  <1>18. CASE LoadForScore(w)
    <2>1. faults' \in 0..MaxFaults
      BY <1>18, FaultType DEF LoadForScore
    <2>2. StoreType'
      BY <1>18, <1>5, <2>1 DEF LoadForScore, TypeOK, StoreType, ExecuteReturns
    <2> QED
      BY <1>4, <2>2 DEF TypeOK
  <1>19. CASE WriteFinalScore(w)
    <2>1. [xsub[w] EXCEPT !.final = Range(xsub[w].results)] \in Submission
      BY <1>2, <1>5, <1>6, RecordType DEF Statuses
    <2>2. store' \in [Subs -> Submission] /\ faults' \in 0..MaxFaults
      BY <1>19, <1>2, <2>1, UpdateType DEF WriteFinalScore
    <2>3. StoreType'
      BY <1>19, <2>1, <2>2 DEF WriteFinalScore, TypeOK, StoreType, ExecuteReturns
    <2> QED
      BY <1>4, <2>3 DEF TypeOK
  <1>20. CASE StopContainer(w)
    <2>1. faults' \in 0..MaxFaults
      BY <1>20, FaultType DEF StopContainer
    <2>2. StoreType'
      BY <1>20, <2>1 DEF StopContainer, TypeOK, StoreType
    <2> QED
      BY <1>4, <2>2 DEF TypeOK
  <1>21. CASE Reread(w)
    <2>1. faults' \in 0..MaxFaults
      BY <1>21, FaultType DEF Reread
    <2>2. StoreType'
      BY <1>21, <1>5, <2>1 DEF Reread, TypeOK, StoreType
    <2> QED
      BY <1>4, <2>2 DEF TypeOK
  <1>22. CASE WriteOutcome(w)
    <2>1. Outcome(psub[w], JobOf(w), execErr[w]) \in Submission
      BY <1>2, <1>5, <1>6, RecordType DEF Statuses
    <2>2. store' \in [Subs -> Submission] /\ faults' \in 0..MaxFaults
      BY <1>22, <1>2, <2>1, UpdateType DEF WriteOutcome
    <2>3. StoreType'
      BY <1>22, <2>1, <2>2 DEF WriteOutcome, TypeOK, StoreType
    <2> QED
      BY <1>4, <2>3 DEF TypeOK
  <1> QED
    BY <1>7, <1>8, <1>9, <1>10, <1>11, <1>12, <1>13, <1>14, <1>15, <1>16, <1>17, <1>18, <1>19, <1>20, <1>21, <1>22

\* The steps that take a job from the queue, publish the next one or commit.
LEMMA QueueStepType ==
    ASSUME TypeOK, NEW w \in Workers,
           Dequeue(w) \/ Guard(w) \/ EnqueueNext(w) \/ Commit(w)
    PROVE  TypeOK'
  <1>1. CASE Dequeue(w)
    <2>1. PICK b \in Batches(w) : \E p \in Partitions :
             /\ b[p] > 0
             /\ at' = [at EXCEPT ![w] = [part |-> p, off |-> pos[p] + 1]]
             /\ pos' = [q \in Partitions |-> pos[q] + b[q]]
             /\ dropped' = dropped \cup (Fetched(b) \ {[part |-> p, off |-> pos[p] + 1]})
      BY <1>1 DEF Dequeue
    <2>2. PICK p \in Partitions :
             /\ b[p] > 0
             /\ at' = [at EXCEPT ![w] = [part |-> p, off |-> pos[p] + 1]]
             /\ pos' = [q \in Partitions |-> pos[q] + b[q]]
             /\ dropped' = dropped \cup (Fetched(b) \ {[part |-> p, off |-> pos[p] + 1]})
      BY <2>1
    <2>3. \A q \in Partitions : b[q] \in Nat /\ b[q] <= Len(log[q]) - pos[q]
      <3>1. b \in [Partitions -> 0..MaxFetch] /\ 0..MaxFetch \subseteq Nat
        BY PipelineAssumption DEF Batches
      <3>2. \A q \in Partitions : b[q] <= Len(log[q]) - pos[q]
        BY DEF Batches
      <3> QED
        BY <3>1, <3>2
    <2>4. \A q \in Partitions : Len(log[q]) \in Nat /\ pos[q] \in Nat
      BY DEF TypeOK, QueueType
    <2>5. UNCHANGED <<log, committed, owner>> /\ Goto(w, "guard")
      BY <1>1 DEF Dequeue
    <2>6. pos' \in [Partitions -> Nat] /\ \A q \in Partitions : pos'[q] <= Len(log[q])
      BY <2>2, <2>3, <2>4
    <2>7. QueueType'
      <3>1. \A q \in Partitions : pos[q] <= pos'[q] /\ pos'[q] = pos[q] + b[q]
        BY <2>2, <2>3, <2>4
      <3>2. ASSUME NEW r \in Fetched(b)
            PROVE  r \in [part : Partitions, off : Nat \ {0}] /\ r.off <= pos'[r.part]
        <4>1. /\ r \in [part : Partitions, off : UNION {1..Len(log[q]) : q \in Partitions}]
              /\ r.off <= pos[r.part] + b[r.part]
          BY DEF Fetched
        <4>2. PICK q \in Partitions : r.off \in 1..Len(log[q])
          BY <4>1
        <4>3. r.off \in Nat \ {0}
          BY <2>4, <4>2
        <4> QED
          BY <3>1, <4>1, <4>3
      <3>3. ASSUME NEW r \in dropped
            PROVE  r \in [part : Partitions, off : Nat \ {0}] /\ r.off <= pos'[r.part]
        <4>1. r \in [part : Partitions, off : Nat \ {0}] /\ r.off <= pos[r.part]
          BY DEF TypeOK, QueueType
        <4>2. pos[r.part] \in Nat /\ pos'[r.part] \in Nat /\ pos[r.part] <= pos'[r.part]
          BY <2>4, <2>6, <3>1, <4>1
        <4> QED
          BY <4>1, <4>2
      <3>4. \A r \in dropped' : r \in [part : Partitions, off : Nat \ {0}] /\ r.off <= pos'[r.part]
        BY <2>2, <3>2, <3>3
      <3> QED
        BY <2>5, <2>6, <3>4 DEF TypeOK, QueueType
    <2>8. pos[p] + 1 \in 1..Len(log[p])
      BY <2>2, <2>3, <2>4
    <2>9. at' \in [Workers -> [part : Partitions, off : Nat]]
      BY <2>2, <2>4 DEF TypeOK, WorkerType
    <2>10. pc' \in [Workers -> Executing \cup {"poll", "guard", "commit", "down"}]
      BY <2>5 DEF TypeOK, WorkerType, Goto
    <2>11. ASSUME NEW v \in Workers, Busy(v)'
           PROVE  at'[v].off \in 1..Len(log'[at'[v].part]) /\ Fits(pc'[v], JobOf(v)')
      <3>1. CASE v = w
        <4>1. at'[v] = [part |-> p, off |-> pos[p] + 1] /\ pc'[v] = "guard"
          BY <2>2, <2>5, <3>1 DEF TypeOK, WorkerType, Goto
        <4> QED
          BY <2>5, <2>8, <4>1 DEF Fits
      <3>2. CASE v # w
        <4>1. at'[v] = at[v] /\ pc'[v] = pc[v]
          BY <2>2, <2>5, <3>2 DEF TypeOK, WorkerType, Goto
        <4>2. Busy(v) /\ JobOf(v)' = JobOf(v)
          BY <2>5, <2>11, <4>1 DEF Busy, JobOf
        <4> QED
          BY <2>5, <4>1, <4>2 DEF TypeOK, WorkerType
      <3> QED
        BY <3>1, <3>2
    <2>12. StoreType'
      BY <1>1 DEF Dequeue, TypeOK, StoreType
    <2> QED
      BY <2>7, <2>9, <2>10, <2>11, <2>12 DEF TypeOK, WorkerType
  <1>2. CASE Guard(w)
    <2>1. Busy(w)
      BY <1>2 DEF Guard, Busy
    <2>2. JobOf(w).sub \in Subs
      BY <2>1, JobOfType DEF Job
    <2>3. faults' \in 0..MaxFaults
      BY <1>2, FaultType DEF Guard
    <2>4. psub' \in [Workers -> Submission]
      BY <1>2, <2>2 DEF Guard, TypeOK, StoreType
    <2>5. StoreType'
      BY <1>2, <2>3, <2>4 DEF Guard, TypeOK, StoreType
    <2>6. \/ \E l \in Executing \cup {"commit"} :
                Goto(w, l) /\ Fits(l, JobOf(w)) /\ UNCHANGED <<at, queueVars>>
          \/ /\ Goto(w, "poll") /\ at' = [at EXCEPT ![w] = NoRecord]
             /\ UNCHANGED queueVars
      BY <1>2 DEF Guard, Executing, Fits
    <2>7. QueueType'
      BY <2>6 DEF TypeOK, QueueType, queueVars
    <2>8. WorkerType'
      BY <2>1, <2>6, Moves, Idles DEF queueVars
    <2> QED
      BY <2>5, <2>7, <2>8 DEF TypeOK
  <1>3. CASE EnqueueNext(w)
    <2> DEFINE j == JobOf(w)
               next == NewProfileJob(j.sub, Head(j.remaining), Tail(j.remaining))
    <2>1. Busy(w) /\ pc[w] = "enqueue"
      BY <1>3 DEF EnqueueNext, Busy, Executing
    <2>2. j \in Job /\ j.remaining # <<>>
      BY <2>1, JobOfType DEF TypeOK, WorkerType, Fits, IsLastProfile
    <2>3. Head(j.remaining) \in Profiles /\ Tail(j.remaining) \in Seq(Profiles)
      BY <2>2 DEF Job
    <2>4. next \in Job
      BY <2>2, <2>3 DEF NewProfileJob, Job, Labels
    <2>5. Produce(next) \/ UNCHANGED log
      BY <1>3 DEF EnqueueNext, ProduceFails
    <2>6. UNCHANGED <<committed, owner, pos, dropped, at>>
      BY <1>3 DEF EnqueueNext
    <2>7. \E l \in {"stop", "reject"} : Goto(w, l)
      BY <1>3 DEF EnqueueNext, ExecuteReturns
    <2>8. /\ log' \in [Partitions -> Seq(Job)]
          /\ \A p \in Partitions : Len(log'[p]) \in Nat /\ Len(log'[p]) >= Len(log[p])
          /\ \A p \in Partitions : \A i \in 1..Len(log[p]) : log'[p][i] = log[p][i]
      BY <2>4, <2>5, LogStable
    <2> HIDE DEF next, j
    <2>9. \A p \in Partitions : Len(log[p]) \in Nat
      BY DEF TypeOK, QueueType
    <2>10. QueueType'
      BY <2>6, <2>8, <2>9 DEF TypeOK, QueueType
    <2>11. pc' \in [Workers -> Executing \cup {"poll", "guard", "commit", "down"}]
      BY <2>7 DEF TypeOK, WorkerType, Goto, Executing
    <2>12. ASSUME NEW v \in Workers, Busy(v)'
           PROVE  at'[v].off \in 1..Len(log'[at'[v].part]) /\ Fits(pc'[v], JobOf(v)')
      <3>1. Busy(v) /\ (pc'[v] = pc[v] \/ pc'[v] \in {"stop", "reject"})
        BY <2>1, <2>7, <2>12 DEF Busy, Goto, TypeOK, WorkerType
      <3>2. /\ at[v].part \in Partitions
            /\ at[v].off \in 1..Len(log[at[v].part]) /\ Fits(pc[v], JobOf(v))
        BY <3>1 DEF TypeOK, WorkerType
      <3>3. JobOf(v)' = JobOf(v)
        BY <2>6, <2>8, <3>2 DEF JobOf
      <3>4. at'[v].off \in 1..Len(log'[at'[v].part])
        BY <2>6, <2>8, <2>9, <3>2
      <3> QED
        BY <3>1, <3>2, <3>3, <3>4 DEF Fits
    <2>13. faults' \in 0..MaxFaults
      BY <1>3, FaultType DEF EnqueueNext, ProduceFails
    <2>14. StoreType'
      BY <1>3, <2>13 DEF EnqueueNext, ExecuteReturns, TypeOK, StoreType
    <2> QED
      BY <2>6, <2>10, <2>11, <2>12, <2>14 DEF TypeOK, WorkerType
  <1>4. CASE Commit(w)
    <2>1. WorkerType'
      BY <1>4, Idles DEF Commit, queueVars
    <2>2. QueueType'
      BY <1>4 DEF Commit, queueVars, TypeOK, QueueType
    <2>3. StoreType'
      BY <1>4, BlankType DEF Commit, TypeOK, StoreType
    <2> QED
      BY <2>1, <2>2, <2>3 DEF TypeOK
  <1> QED
    BY <1>1, <1>2, <1>3, <1>4

\* Crashes, restarts and rebalances.
LEMMA GroupType ==
    ASSUME TypeOK, NEW w \in Workers,
           Crash(w) \/ Restart(w) \/ (\E p \in Partitions : Rebalance(p, w))
    PROVE  TypeOK'
  <1>1. CASE Crash(w)
    <2>1. WorkerType' /\ faults' \in 0..MaxFaults
      BY <1>1, Idles, FaultType DEF Crash, queueVars
    <2>2. QueueType'
      BY <1>1 DEF Crash, TypeOK, QueueType, queueVars
    <2>3. StoreType'
      BY <1>1, <2>1, BlankType DEF Crash, TypeOK, StoreType
    <2> QED
      BY <2>1, <2>2, <2>3 DEF TypeOK
  <1>2. CASE Restart(w)
    <2>1. WorkerType'
      BY <1>2, Idles DEF Restart
    <2>2. QueueType'
      <3>1. pos' = [p \in Partitions |-> IF owner[p] = w THEN committed[p] ELSE pos[p]]
        BY <1>2 DEF Restart
      <3>2. pos' \in [Partitions -> Nat] /\ \A p \in Partitions : pos'[p] <= Len(log[p])
        BY <3>1 DEF TypeOK, QueueType
      <3> QED
        BY <1>2, <3>2 DEF Restart, TypeOK, QueueType
    <2>3. StoreType'
      BY <1>2 DEF Restart, TypeOK, StoreType
    <2> QED
      BY <2>1, <2>2, <2>3 DEF TypeOK
  <1>3. CASE \E p \in Partitions : Rebalance(p, w)
    <2>1. PICK p \in Partitions : Rebalance(p, w)
      BY <1>3
    <2>2. QueueType'
      BY <2>1 DEF Rebalance, TypeOK, QueueType
    <2>3. \A v \in Workers : JobOf(v)' = JobOf(v) /\ Busy(v)' = Busy(v)
      BY <2>1 DEF Rebalance, JobOf, Busy, workerVars
    <2>4. WorkerType'
      BY <2>1, <2>3 DEF Rebalance, TypeOK, WorkerType, workerVars
    <2>5. faults' \in 0..MaxFaults
      BY <2>1, FaultType DEF Rebalance
    <2>6. StoreType'
      BY <2>1, <2>5 DEF Rebalance, TypeOK, StoreType, workerVars
    <2> QED
      BY <2>2, <2>4, <2>6 DEF TypeOK
  <1> QED
    BY <1>1, <1>2, <1>3

\* The initial state is well typed.
LEMMA TypeInit == Init => TypeOK
  <1> SUFFICES ASSUME Init PROVE TypeOK
    OBVIOUS
  <1>1. StoreType
    BY PipelineAssumption, BlankType DEF Init, StoreType
  <1>2. QueueType
    BY DEF Init, QueueType
  <1>3. WorkerType
    BY NoRecordType DEF Init, WorkerType, Busy, Executing
  <1> QED
    BY <1>1, <1>2, <1>3 DEF TypeOK

\* Every step of ingest, worker, group and fault preserves the types.
LEMMA TypeStep == TypeOK /\ [Next]_vars => TypeOK'
  <1> SUFFICES ASSUME TypeOK, [Next]_vars PROVE TypeOK'
    OBVIOUS
  <1>1. CASE UNCHANGED vars
    <2>1. StoreType'
      BY <1>1 DEF TypeOK, StoreType, vars, workerVars
    <2> QED
      BY <1>1, <2>1, Untouched DEF TypeOK, vars, workerVars
  <1>2. CASE Next
    BY <1>2, IngestType, WorkType, QueueStepType, GroupType DEF Next, WorkerStep
  <1> QED
    BY <1>1, <1>2

\* The type invariant holds in every behaviour of the pipeline: offsets never
\* run past the log, and what a busy worker processes is a record of the log,
\* whatever crashes, rebalances and failing calls occur.
THEOREM TypeCorrect == Spec => []TypeOK
  BY TypeInit, TypeStep, PTL DEF Spec

-----------------------------------------------------------------------------
(* The chain of profile jobs *)

\* The remaining profiles of a job are those after its own label.
ChainShape(j) ==
    /\ j.label = "low"    => j.remaining = <<"medium", "high">>
    /\ j.label = "medium" => j.remaining = <<"high">>
    /\ j.label \in {"high", "single"} => j.remaining = <<>>

\* The inductive strengthening of ChainOrdered: without the shape of the
\* remaining profiles the next label would be arbitrary.
ChainInv ==
    /\ ChainOrdered
    /\ \A p \in Partitions : \A i \in 1..Len(log[p]) : ChainShape(log[p][i])

NextJob(w) == NewProfileJob(JobOf(w).sub, Head(JobOf(w).remaining), Tail(JobOf(w).remaining))

\* The log changes only by a first job or by the next job of a busy worker.
LEMMA LogSteps ==
    ASSUME TypeOK, [Next]_vars
    PROVE  \/ UNCHANGED log
           \/ \E s \in Subs : Produce(FirstJob(s))
           \/ \E w \in Workers : pc[w] = "enqueue" /\ Produce(NextJob(w))
  <1>1. CASE UNCHANGED vars
    BY <1>1 DEF vars, queueVars
  <1>2. ASSUME NEW s \in Subs, IngestStep(s) \/ IngestAborts(s)
        PROVE  UNCHANGED log \/ Produce(FirstJob(s))
    BY <1>2 DEF IngestStep, SaveSubmission, EnqueueFirst, IngestFailed, IngestAborts,
                ProduceFails, queueVars
  <1>3. ASSUME NEW w \in Workers, WorkerStep(w)
        PROVE  UNCHANGED log \/ (pc[w] = "enqueue" /\ Produce(NextJob(w)))
    BY <1>3 DEF WorkerStep, Dequeue, Guard, Claim, Load, Deploy, PersistContainer,
                WaitHealthy, Preflight, WriteDryRun, MarkFailed, SetBenchmarking,
                RunFleet, AppendResult, EnqueueNext, LoadForScore, WriteFinalScore,
                StopContainer, Reread, WriteOutcome, Commit, ProduceFails, NextJob,
                queueVars
  <1>4. ASSUME NEW w \in Workers,
               Crash(w) \/ Restart(w) \/ (\E p \in Partitions : Rebalance(p, w))
        PROVE  UNCHANGED log
    BY <1>4 DEF Crash, Restart, Rebalance, queueVars
  <1> QED
    BY <1>1, <1>2, <1>3, <1>4 DEF Next

\* A published job that has the job before it in its partition, and the right
\* remaining profiles, keeps the chain.
LEMMA ChainGrows ==
    ASSUME TypeOK, ChainInv, NEW j \in Job, Produce(j), ChainShape(j),
           j.label \in {"medium", "high"} =>
               \E k \in 1..Len(log[PartitionOf[j.sub]]) :
                   /\ log[PartitionOf[j.sub]][k].sub = j.sub
                   /\ j.label = "medium" => log[PartitionOf[j.sub]][k].label = "low"
                   /\ j.label = "high" => log[PartitionOf[j.sub]][k].label = "medium"
    PROVE  ChainInv'
  <1> DEFINE q == PartitionOf[j.sub]
  <1>0. q \in Partitions
    BY PipelineAssumption DEF Job
  <1>1. q \in Partitions /\ log[q] \in Seq(Job) /\ Len(log[q]) \in Nat
    BY <1>0 DEF TypeOK, QueueType
  <1>2. /\ \A p \in Partitions : p # q => log'[p] = log[p]
        /\ log'[q] = Append(log[q], j)
    BY <1>1 DEF Produce, TypeOK, QueueType
  <1>3. /\ Len(log'[q]) = Len(log[q]) + 1
        /\ log'[q][Len(log[q]) + 1] = j
        /\ \A i \in 1..Len(log[q]) : log'[q][i] = log[q][i]
    BY <1>1, <1>2
  <1> DEFINE Good(l, p, i) ==
               /\ PartitionOf[l[p][i].sub] = p
               /\ l[p][i].label = "medium" =>
                    \E k \in 1..(i - 1) : l[p][k].sub = l[p][i].sub /\ l[p][k].label = "low"
               /\ l[p][i].label = "high" =>
                    \E k \in 1..(i - 1) : l[p][k].sub = l[p][i].sub /\ l[p][k].label = "medium"
               /\ ChainShape(l[p][i])
  <1>4. \A p \in Partitions : \A i \in 1..Len(log[p]) : Good(log, p, i)
    BY DEF ChainInv, ChainOrdered
  <1>5. ASSUME NEW p \in Partitions, NEW i \in 1..Len(log'[p])
        PROVE  Good(log', p, i)
    <2>1. CASE p # q
      BY <1>2, <1>4, <2>1
    <2>2. CASE p = q /\ i \in 1..Len(log[q])
      <3>1. log'[q][i] = log[q][i] /\ \A k \in 1..(i - 1) : log'[q][k] = log[q][k]
        BY <1>1, <1>3, <2>2
      <3>2. Good(log, q, i)
        BY <1>1, <1>4, <2>2
      <3> QED
        BY <2>2, <3>1, <3>2
    <2>3. CASE p = q /\ i = Len(log[q]) + 1
      <3>1. log'[p][i] = j /\ 1..(i - 1) = 1..Len(log[q])
        BY <1>1, <1>3, <2>3
      <3>2. \A k \in 1..Len(log[q]) : log'[p][k] = log[q][k]
        BY <1>3, <2>3
      <3> QED
        BY <3>1, <3>2, <2>3
    <2> QED
      BY <1>1, <1>3, <2>1, <2>2, <2>3
  <1> QED
    BY <1>5 DEF ChainInv, ChainOrdered

\* Every step preserves the chain invariant: only EnqueueFirst and EnqueueNext
\* add records, and EnqueueNext adds the successor of a record already there.
LEMMA ChainStep == TypeOK /\ ChainInv /\ [Next]_vars => ChainInv'
  <1> SUFFICES ASSUME TypeOK, ChainInv, [Next]_vars PROVE ChainInv'
    OBVIOUS
  <1>1. CASE UNCHANGED log
    BY <1>1 DEF ChainInv, ChainOrdered
  <1>2. ASSUME NEW s \in Subs, Produce(FirstJob(s)) PROVE ChainInv'
    <2>1. FirstJob(s) \in Job /\ FirstJob(s).label \in {"low", "single"}
      BY FirstJobType DEF FirstJob, NewJob, NewProfileJob
    <2>2. ChainShape(FirstJob(s))
      BY DEF FirstJob, NewJob, NewProfileJob, ChainShape
    <2> QED
      BY <1>2, <2>1, <2>2, ChainGrows
  <1>3. ASSUME NEW w \in Workers, pc[w] = "enqueue", Produce(NextJob(w)) PROVE ChainInv'
    <2> DEFINE j == JobOf(w)
               n == NextJob(w)
    <2>1. Busy(w)
      BY <1>3 DEF Busy, Executing
    <2>2. /\ at[w].part \in Partitions
          /\ at[w].off \in 1..Len(log[at[w].part])
          /\ j = log[at[w].part][at[w].off] /\ j \in Job
      BY <2>1, JobOfType DEF JobOf
    <2>3. PartitionOf[j.sub] = at[w].part /\ ChainShape(j)
      BY <2>2 DEF ChainInv, ChainOrdered
    <2>4. j.remaining # <<>> /\ j.label # "single"
      BY <1>3, <2>1 DEF TypeOK, WorkerType, Fits, IsLastProfile
    <2>5. \/ j.label = "low" /\ j.remaining = <<"medium", "high">>
          \/ j.label = "medium" /\ j.remaining = <<"high">>
      BY <2>2, <2>3, <2>4 DEF ChainShape, Job, Labels, Profiles
    <2>6. /\ n = [sub |-> j.sub, label |-> Head(j.remaining), remaining |-> Tail(j.remaining)]
          /\ n.sub = j.sub
      BY DEF NextJob, NewProfileJob
    <2>7. \/ j.label = "low" /\ n.label = "medium" /\ n.remaining = <<"high">>
          \/ j.label = "medium" /\ n.label = "high" /\ n.remaining = <<>>
      <3>1. /\ Head(<<"medium", "high">>) = "medium" /\ Tail(<<"medium", "high">>) = <<"high">>
            /\ Head(<<"high">>) = "high" /\ Tail(<<"high">>) = <<>>
        OBVIOUS
      <3>2. n.label = Head(j.remaining) /\ n.remaining = Tail(j.remaining)
        BY <2>6
      <3> HIDE DEF n, j
      <3> QED
        BY <2>5, <3>1, <3>2
    <2>8. n \in Job
      <3>1. Head(j.remaining) \in Profiles /\ Tail(j.remaining) \in Seq(Profiles)
        BY <2>2, <2>4 DEF Job
      <3> QED
        BY <2>2, <2>6, <3>1, SMTT(30) DEF Job, Labels
    <2>9. ChainShape(n)
      BY <2>7 DEF ChainShape
    <2> HIDE DEF n, j
    <2>10. PartitionOf[n.sub] = at[w].part
      BY <2>3, <2>6
    <2> QED
      BY <1>3, <2>2, <2>6, <2>7, <2>8, <2>9, <2>10, ChainGrows DEF n
  <1> QED
    BY <1>1, <1>2, <1>3, LogSteps

\* The chain invariant holds in every reachable state.
LEMMA ChainHolds == Spec => []ChainInv
  <1>1. Init => ChainInv
    BY DEF Init, ChainInv, ChainOrdered
  <1> QED
    BY <1>1, ChainStep, TypeCorrect, PTL DEF Spec

\* Under every fault the code can meet, all jobs of a submission share a
\* partition and a medium (high) job is preceded there by a low (medium) job.
THEOREM ChainCorrect == Spec => []ChainOrdered
  <1>1. ChainInv => ChainOrdered
    BY DEF ChainInv
  <1> QED
    BY <1>1, ChainHolds, PTL

-----------------------------------------------------------------------------
(* Mutual exclusion per submission *)

\* A busy worker owns the partition of its record.
OwnerInv == \A w \in Workers : Busy(w) => owner[at[w].part] = w

\* What one worker's step leaves alone of the others.
LEMMA Footprint ==
    ASSUME TypeOK, NEW w \in Workers, WorkerStep(w) \/ Crash(w) \/ Restart(w)
    PROVE  /\ owner' = owner /\ ingest' = ingest
           /\ \A v \in Workers \ {w} :
                 /\ pc'[v] = pc[v] /\ at'[v] = at[v] /\ xsub'[v] = xsub[v]
                 /\ psub'[v] = psub[v] /\ execErr'[v] = execErr[v]
           /\ Busy(w)' => (Busy(w) /\ at'[w] = at[w]) \/ Dequeue(w)
           /\ \A s \in Subs : ~Busy(w) \/ s # JobOf(w).sub => store'[s] = store[s]
  <1> USE DEF TypeOK, StoreType, WorkerType, QueueType
  <1>1. CASE Dequeue(w) \/ Guard(w) \/ Commit(w) \/ Crash(w) \/ Restart(w)
    <2>1. CASE Dequeue(w)
      BY <2>1 DEF Dequeue, Goto, Busy, Executing
    <2>2. CASE Guard(w) \/ Commit(w)
      BY <2>2 DEF Guard, Commit, Goto, Busy, Executing, queueVars
    <2>3. CASE Crash(w)
      <3>1. pc'[w] = "down" /\ UNCHANGED <<owner, ingest, store>>
        BY <2>3 DEF Crash, Goto, queueVars
      <3>2. \A v \in Workers \ {w} :
               /\ pc'[v] = pc[v] /\ at'[v] = at[v] /\ xsub'[v] = xsub[v]
               /\ psub'[v] = psub[v] /\ execErr'[v] = execErr[v]
        BY <2>3 DEF Crash, Goto
      <3>3. ~Busy(w)'
        BY <3>1 DEF Busy, Executing
      <3>4. QED
        BY <3>1, <3>2, <3>3
    <2>4. CASE Restart(w)
      BY <2>4 DEF Restart, Goto, Busy, Executing
    <2>5. QED
      BY <1>1, <2>1, <2>2, <2>3, <2>4
  <1>2. CASE \/ Claim(w) \/ Load(w) \/ Deploy(w) \/ PersistContainer(w)
             \/ WaitHealthy(w) \/ Preflight(w)
    BY <1>2 DEF Claim, Load, Deploy, PersistContainer, WaitHealthy, Preflight, Goto,
                Busy, Executing, queueVars, ExecuteFails, ExecuteReturns, UpdateOrLog,
                GetOrCached
  <1>3. CASE WriteDryRun(w) \/ MarkFailed(w) \/ SetBenchmarking(w) \/ RunFleet(w)
    BY <1>3 DEF WriteDryRun, MarkFailed, SetBenchmarking, RunFleet, Goto, Busy,
                Executing, queueVars, ExecuteReturns, UpdateOrLog, GetOrCached
  <1>4. CASE AppendResult(w) \/ EnqueueNext(w) \/ LoadForScore(w) \/ WriteFinalScore(w)
    BY <1>4 DEF AppendResult, EnqueueNext, LoadForScore, WriteFinalScore, Goto, Busy,
                Executing, queueVars, ExecuteReturns, UpdateOrLog
  <1>5. CASE StopContainer(w) \/ Reread(w) \/ WriteOutcome(w)
    BY <1>5 DEF StopContainer, Reread, WriteOutcome, Goto, Busy, Executing, queueVars,
                UpdateOrLog
  <1> QED
    BY <1>1, <1>2, <1>3, <1>4, <1>5 DEF WorkerStep

\* OwnerInv is inductive as long as only dead workers lose partitions.
LEMMA OwnerStep ==
    ASSUME "rebalance" \notin FaultKinds
    PROVE  TypeOK /\ OwnerInv /\ [Next]_vars => OwnerInv'
  <1> SUFFICES ASSUME TypeOK, OwnerInv, [Next]_vars PROVE OwnerInv'
    OBVIOUS
  <1>1. CASE UNCHANGED vars
    BY <1>1 DEF OwnerInv, Busy, vars, queueVars, workerVars
  <1>2. ASSUME NEW s \in Subs, IngestStep(s) \/ IngestAborts(s) PROVE OwnerInv'
    BY <1>2 DEF OwnerInv, Busy, IngestStep, SaveSubmission, EnqueueFirst, IngestFailed,
                IngestAborts, queueVars, workerVars
  <1>3. ASSUME NEW w \in Workers, WorkerStep(w) \/ Crash(w) \/ Restart(w)
        PROVE  OwnerInv'
    <2>1. ASSUME NEW v \in Workers, v # w, Busy(v)' PROVE owner'[at'[v].part] = v
      BY <1>3, <2>1, Footprint DEF OwnerInv, Busy
    <2>2. ASSUME Busy(w)' PROVE owner'[at'[w].part] = w
      <3>1. CASE Busy(w) /\ at'[w] = at[w]
        BY <1>3, <3>1, Footprint DEF OwnerInv
      <3>2. CASE Dequeue(w)
        <4>1. PICK b \in Batches(w), p \in Partitions :
                 b[p] > 0 /\ at' = [at EXCEPT ![w] = [part |-> p, off |-> pos[p] + 1]]
          BY <3>2 DEF Dequeue
        <4>2. owner[p] = w /\ at'[w].part = p
          BY <4>1 DEF Batches, TypeOK, WorkerType
        <4> QED
          BY <3>2, <4>2 DEF Dequeue
      <3> QED
        BY <1>3, <2>2, <3>1, <3>2, Footprint
    <2> QED
      BY <2>1, <2>2 DEF OwnerInv
  <1>4. ASSUME NEW w \in Workers, NEW p \in Partitions, Rebalance(p, w) PROVE OwnerInv'
    <2>1. pc[owner[p]] = "down" /\ owner' = [owner EXCEPT ![p] = w] /\ UNCHANGED <<pc, at>>
      BY <1>4 DEF Rebalance, Fault, workerVars
    <2>2. ASSUME NEW v \in Workers, Busy(v)' PROVE owner'[at'[v].part] = v
      <3>1. Busy(v) /\ owner[at[v].part] = v /\ at[v].part \in Partitions
        BY <2>1, <2>2 DEF OwnerInv, Busy, TypeOK, WorkerType
      <3>2. at[v].part # p
        BY <2>1, <3>1 DEF Busy, Executing
      <3> QED
        BY <2>1, <3>1, <3>2 DEF TypeOK, QueueType
    <2> QED
      BY <2>2 DEF OwnerInv
  <1> QED
    BY <1>1, <1>2, <1>3, <1>4 DEF Next

\* Without rebalances of live workers, a busy worker always owns the partition
\* of its record.
LEMMA OwnerHolds == ASSUME "rebalance" \notin FaultKinds PROVE Spec => []OwnerInv
  <1>1. Init => OwnerInv
    BY DEF Init, OwnerInv, Busy, Executing
  <1>2. TypeOK /\ OwnerInv /\ [Next]_vars => OwnerInv'
    BY OwnerStep
  <1> QED
    BY <1>1, <1>2, TypeCorrect, PTL DEF Spec

\* Two busy workers hold jobs of different submissions.
LEMMA BusyDisjoint ==
    ASSUME TypeOK, ChainInv, OwnerInv, NEW v \in Workers, NEW w \in Workers,
           v # w, Busy(v), Busy(w)
    PROVE  JobOf(v).sub # JobOf(w).sub
  <1>1. PartitionOf[JobOf(v).sub] = at[v].part /\ PartitionOf[JobOf(w).sub] = at[w].part
    BY JobOfType DEF ChainInv, ChainOrdered, JobOf
  <1> QED
    BY <1>1 DEF OwnerInv

\* If partitions move only when their owner died, no two workers ever execute
\* jobs of one submission at the same time: crashes, restarts, failed commits
\* and dropped fetches do not break the partition-key argument.
THEOREM ExclusiveCorrect ==
    ASSUME "rebalance" \notin FaultKinds PROVE Spec => []ExclusiveExecution
  <1>1. TypeOK /\ ChainInv /\ OwnerInv => ExclusiveExecution
    BY BusyDisjoint DEF ExclusiveExecution, Busy
  <1> QED
    BY <1>1, TypeCorrect, ChainHolds, OwnerHolds, PTL

-----------------------------------------------------------------------------
(* Terminal records are final *)

\* The points of processJob and Execute before the first terminal write.
Active == Executing \ {"stop", "reread", "outcome"}

\* Execute's copy has been loaded.
Loaded == Active \ {"claim", "load"}

\* Ingest of s has not published its job, and no record of s exists.
IngestInv ==
    \A s \in Subs :
        /\ ingest[s] # "failing"
        /\ ingest[s] \in {"new", "saved"} =>
              \A p \in Partitions : \A i \in 1..Len(log[p]) : log[p][i].sub # s
        /\ ingest[s] = "new" => ~IsTerminal(store[s].status)

\* What worker w knows of the record of its submission.
Settled(w) ==
    LET r == store[JobOf(w).sub] IN
    /\ pc[w] \in Active => ~IsTerminal(r.status)
    /\ pc[w] \in Loaded => ~IsTerminal(xsub[w].status)
    /\ pc[w] \in {"stop", "reread", "outcome"} /\ IsTerminal(r.status) =>
          r.status = "failed" /\ execErr[w]
    /\ pc[w] = "outcome" /\ IsTerminal(r.status) => psub[w] = r

FinalInv == IngestInv /\ \A w \in Workers : Settled(w)

\* The faults under which a terminal record may be overwritten.
ClobberingFaults == {"rebalance", "enqueue", "get"}

\* The next job a worker publishes is a job.
LEMMA NextJobType ==
    ASSUME TypeOK, NEW w \in Workers, pc[w] = "enqueue"
    PROVE  NextJob(w) \in Job
  <1>1. Busy(w)
    BY DEF Busy, Executing
  <1>2. JobOf(w) \in Job /\ JobOf(w).remaining # <<>>
    BY <1>1, JobOfType DEF TypeOK, WorkerType, Fits, IsLastProfile
  <1>3. Head(JobOf(w).remaining) \in Profiles /\ Tail(JobOf(w).remaining) \in Seq(Profiles)
    BY <1>2 DEF Job
  <1> QED
    BY <1>2, <1>3 DEF NextJob, NewProfileJob, Job, Labels

\* The worker's own step.
LEMMA SettledStep ==
    ASSUME FaultKinds \cap ClobberingFaults = {}, TypeOK, FinalInv,
           NEW w \in Workers, WorkerStep(w)
    PROVE  /\ Settled(w)'
           /\ \A s \in Subs : IsTerminal(store[s].status) => store'[s] = store[s]
  <1>0. ~Fault("get") /\ ~Fault("enqueue")
    BY DEF Fault, ClobberingFaults
  <1>1. Settled(w)
    BY DEF FinalInv
  <1>2. pc \in [Workers -> Executing \cup {"poll", "guard", "commit", "down"}]
    BY DEF TypeOK, WorkerType
  <1>3. CASE Dequeue(w) \/ Commit(w)
    <2>1. pc'[w] \in {"guard", "poll"} /\ store' = store
      BY <1>2, <1>3 DEF Dequeue, Commit, Goto
    <2> QED
      BY <2>1 DEF Settled, Active, Loaded, Executing
  <1>4. CASE EnqueueNext(w)
    <2>1. pc'[w] = "stop" /\ store' = store /\ pc[w] = "enqueue" /\ at' = at
      BY <1>0, <1>2, <1>4 DEF EnqueueNext, ProduceFails, ExecuteReturns, Goto
    <2>2. Busy(w)
      BY <2>1 DEF Busy, Executing
    <2>3. NextJob(w) \in Job
      BY <1>4, <2>2, NextJobType DEF EnqueueNext
    <2>4. Produce(NextJob(w))
      BY <1>0, <1>4 DEF EnqueueNext, ProduceFails, NextJob
    <2>5. JobOf(w)' = JobOf(w)
      BY <2>1, <2>2, <2>3, <2>4, ProduceType, JobOfType DEF JobOf
    <2> QED
      BY <1>1, <2>1, <2>5 DEF Settled, Active, Loaded, Executing
  <1>5. CASE Guard(w)
    <2>1. pc[w] = "guard" /\ Busy(w) /\ store' = store
      BY <1>5 DEF Guard, Busy
    <2>2. \/ pc'[w] = "claim" /\ store[JobOf(w).sub].status \in Admitted(JobOf(w).label)
             /\ JobOf(w)' = JobOf(w)
          \/ pc'[w] = "commit"
      BY <1>0, <1>2, <1>5 DEF Guard, Goto, JobOf, queueVars
    <2> QED
      BY <2>1, <2>2 DEF Settled, Active, Loaded, Executing, Admitted, IsTerminal
  <1>6. SUFFICES ASSUME \/ Claim(w) \/ Load(w) \/ Deploy(w) \/ PersistContainer(w)
                        \/ WaitHealthy(w) \/ Preflight(w) \/ WriteDryRun(w)
                        \/ MarkFailed(w) \/ SetBenchmarking(w) \/ RunFleet(w)
                        \/ AppendResult(w) \/ LoadForScore(w) \/ WriteFinalScore(w)
                        \/ StopContainer(w) \/ Reread(w) \/ WriteOutcome(w)
                 PROVE  /\ Settled(w)'
                        /\ \A s \in Subs : IsTerminal(store[s].status) => store'[s] = store[s]
    BY <1>3, <1>4, <1>5 DEF WorkerStep
  <1>7. Busy(w) /\ JobOf(w)' = JobOf(w)
    BY <1>6 DEF Busy, Executing, JobOf, queueVars, Claim, Load, Deploy, PersistContainer,
           WaitHealthy, Preflight, WriteDryRun, MarkFailed, SetBenchmarking, RunFleet,
           AppendResult, LoadForScore, WriteFinalScore, StopContainer, Reread,
           WriteOutcome
  <1> DEFINE s == JobOf(w).sub
  <1>8. s \in Subs /\ s' = s
    BY <1>7, JobOfType DEF Job
  <1>9. /\ xsub[w] \in Submission /\ psub[w] \in Submission /\ store[s] \in Submission
        /\ store \in [Subs -> Submission] /\ xsub \in [Workers -> Submission]
        /\ psub \in [Workers -> Submission] /\ execErr \in [Workers -> BOOLEAN]
    BY <1>8 DEF TypeOK, StoreType
  <1>10. \A x \in Subs : x # s => store'[x] = store[x]
    BY <1>6, <1>7, Footprint DEF WorkerStep
  <1>11. Settled(w)' = (/\ pc'[w] \in Active => ~IsTerminal(store'[s].status)
                        /\ pc'[w] \in Loaded => ~IsTerminal(xsub'[w].status)
                        /\ pc'[w] \in {"stop", "reread", "outcome"} /\ IsTerminal(store'[s].status) =>
                              store'[s].status = "failed" /\ execErr'[w]
                        /\ pc'[w] = "outcome" /\ IsTerminal(store'[s].status) => psub'[w] = store'[s])
    BY <1>7, <1>8 DEF Settled
  <1>12. /\ pc[w] \in Active => ~IsTerminal(store[s].status)
         /\ pc[w] \in Loaded => ~IsTerminal(xsub[w].status)
         /\ pc[w] \in {"stop", "reread", "outcome"} /\ IsTerminal(store[s].status) =>
               store[s].status = "failed" /\ execErr[w]
         /\ pc[w] = "outcome" /\ IsTerminal(store[s].status) => psub[w] = store[s]
    BY <1>1 DEF Settled
  <1> SUFFICES /\ Settled(w)'
               /\ IsTerminal(store[s].status) => store'[s] = store[s]
    BY <1>10
  <1> HIDE DEF s
  <1> USE <1>2, <1>8, <1>9, <1>11, <1>12 DEF Active, Loaded, Executing, IsTerminal
  <1>13. CASE Claim(w)
    BY <1>0, <1>13 DEF s, Claim, Goto, UpdateOrLog, Submission
  <1>14. CASE Load(w)
    BY <1>0, <1>14 DEF s, Load, Goto
  <1>15. CASE Deploy(w)
    BY <1>0, <1>15 DEF s, Deploy, Goto, ExecuteFails
  <1>16. CASE PersistContainer(w)
    BY <1>0, <1>16 DEF s, PersistContainer, Goto, UpdateOrLog
  <1>17. CASE WaitHealthy(w)
    BY <1>0, <1>17 DEF s, WaitHealthy, Goto, ExecuteReturns
  <1>18. CASE Preflight(w)
    BY <1>0, <1>18 DEF s, Preflight, Goto, GetOrCached
  <1>19. CASE WriteDryRun(w)
    BY <1>0, <1>19 DEF s, WriteDryRun, Goto, UpdateOrLog, Submission
  <1>20. CASE MarkFailed(w)
    BY <1>0, <1>20 DEF s, MarkFailed, Goto, ExecuteReturns, UpdateOrLog, Submission
  <1>21. CASE SetBenchmarking(w)
    BY <1>0, <1>21 DEF s, SetBenchmarking, Goto, UpdateOrLog, Submission
  <1>22. CASE RunFleet(w)
    BY <1>0, <1>22 DEF s, RunFleet, Goto, GetOrCached, ExecuteReturns
  <1>23. CASE AppendResult(w)
    BY <1>0, <1>23 DEF s, AppendResult, Goto, ExecuteReturns, Submission
  <1>24. CASE LoadForScore(w)
    BY <1>0, <1>24 DEF s, LoadForScore, Goto, ExecuteReturns
  <1>25. CASE WriteFinalScore(w)
    BY <1>0, <1>25 DEF s, WriteFinalScore, Goto, ExecuteReturns, UpdateOrLog, Submission
  <1>26. CASE StopContainer(w)
    BY <1>0, <1>26 DEF s, StopContainer, Goto
  <1>27. CASE Reread(w)
    BY <1>0, <1>27 DEF s, Reread, Goto
  <1>28. CASE WriteOutcome(w)
    BY <1>0, <1>28 DEF s, WriteOutcome, Goto, UpdateOrLog, Outcome, Submission
  <1> QED
    BY <1>6, <1>13, <1>14, <1>15, <1>16, <1>17, <1>18, <1>19, <1>20, <1>21, <1>22, <1>23, <1>24, <1>25, <1>26, <1>27, <1>28

\* A step keeps the records of the log, and a new record is a job of a
\* submission that was just accepted or already had one.
LEMMA LogKeeps ==
    ASSUME TypeOK, [Next]_vars
    PROVE  /\ \A p \in Partitions : \A i \in 1..Len(log[p]) : log'[p][i] = log[p][i]
           /\ \A p \in Partitions : \A i \in 1..Len(log'[p]) :
                 \/ i \in 1..Len(log[p])
                 \/ \E s \in Subs : log'[p][i].sub = s /\ Produce(FirstJob(s))
                 \/ \E w \in Workers : log'[p][i].sub = JobOf(w).sub /\ Busy(w)
  <1>1. CASE UNCHANGED log
    BY <1>1
  <1>2. ASSUME NEW j \in Job, Produce(j)
        PROVE  /\ \A p \in Partitions : \A i \in 1..Len(log[p]) : log'[p][i] = log[p][i]
               /\ \A p \in Partitions : \A i \in 1..Len(log'[p]) :
                     i \in 1..Len(log[p]) \/ log'[p][i] = j
    <2>1. PartitionOf[j.sub] \in Partitions
      BY PipelineAssumption DEF Job
    <2>2. ASSUME NEW p \in Partitions, NEW i \in 1..Len(log'[p])
          PROVE  i \in 1..Len(log[p]) \/ log'[p][i] = j
      <3>1. log[p] \in Seq(Job) /\ Len(log[p]) \in Nat
        BY DEF TypeOK, QueueType
      <3>2. CASE log'[p] = log[p]
        BY <3>2
      <3>3. CASE log'[p] = Append(log[p], j)
        BY <3>1, <3>3
      <3>4. log'[p] = log[p] \/ log'[p] = Append(log[p], j)
        BY <1>2, <2>1 DEF Produce, TypeOK, QueueType
      <3> QED
        BY <3>2, <3>3, <3>4
    <2> QED
      BY <1>2, <2>2, ProduceType
  <1>3. ASSUME NEW s \in Subs, Produce(FirstJob(s))
        PROVE  FirstJob(s) \in Job /\ FirstJob(s).sub = s
    BY FirstJobType DEF FirstJob, NewJob, NewProfileJob
  <1>4. ASSUME NEW w \in Workers, pc[w] = "enqueue"
        PROVE  NextJob(w) \in Job /\ NextJob(w).sub = JobOf(w).sub /\ Busy(w)
    BY <1>4, NextJobType DEF NextJob, NewProfileJob, Busy, Executing
  <1>5. CASE \E s \in Subs : Produce(FirstJob(s))
    <2>1. PICK s \in Subs : Produce(FirstJob(s))
      BY <1>5
    <2> QED
      BY <1>2, <1>3, <2>1
  <1>6. CASE \E w \in Workers : pc[w] = "enqueue" /\ Produce(NextJob(w))
    <2>1. PICK w \in Workers : pc[w] = "enqueue" /\ Produce(NextJob(w))
      BY <1>6
    <2> QED
      BY <1>2, <1>4, <2>1
  <1> QED
    BY <1>1, <1>5, <1>6, LogSteps

\* Publishing a job changes the log, and two jobs published by one step are equal.
LEMMA ProduceChanges ==
    ASSUME TypeOK, NEW j \in Job, Produce(j) PROVE log' # log
  <1>1. PartitionOf[j.sub] \in Partitions
    BY PipelineAssumption DEF Job
  <1>2. log'[PartitionOf[j.sub]] = Append(log[PartitionOf[j.sub]], j)
    BY <1>1 DEF Produce, TypeOK, QueueType
  <1>3. log[PartitionOf[j.sub]] \in Seq(Job)
    BY <1>1 DEF TypeOK, QueueType
  <1>4. Len(log'[PartitionOf[j.sub]]) # Len(log[PartitionOf[j.sub]])
    BY <1>2, <1>3
  <1> QED
    BY <1>4

\* A step that publishes a job publishes one job only.
LEMMA ProduceSame ==
    ASSUME TypeOK, NEW i \in Job, NEW j \in Job, Produce(i), Produce(j) PROVE i = j
  <1> DEFINE p == PartitionOf[i.sub]
             q == PartitionOf[j.sub]
  <1>1. p \in Partitions /\ q \in Partitions
    BY PipelineAssumption DEF Job
  <1>2. log'[p] = Append(log[p], i) /\ log'[q] = Append(log[q], j)
    BY <1>1 DEF Produce, TypeOK, QueueType
  <1>3. log[p] \in Seq(Job) /\ log[q] \in Seq(Job)
    BY <1>1 DEF TypeOK, QueueType
  <1>4. p = q
    <2>1. ASSUME p # q PROVE FALSE
      <3>1. log'[p] = log[p]
        BY <1>1, <2>1 DEF Produce, TypeOK, QueueType
      <3>2. Len(log'[p]) = Len(log[p]) + 1 /\ Len(log[p]) \in Nat
        BY <1>2, <1>3
      <3> QED
        BY <3>1, <3>2
    <2> QED
      BY <2>1
  <1>5. log'[p][Len(log[p]) + 1] = i /\ log'[q][Len(log[q]) + 1] = j
    BY <1>2, <1>3
  <1> QED
    BY <1>4, <1>5

\* A worker whose own state, job and record are unchanged stays settled.
LEMMA OthersSettled ==
    ASSUME TypeOK, [Next]_vars, NEW v \in Workers, Settled(v),
           pc'[v] = pc[v], at'[v] = at[v], xsub'[v] = xsub[v], psub'[v] = psub[v],
           execErr'[v] = execErr[v],
           Busy(v) => store'[JobOf(v).sub] = store[JobOf(v).sub]
    PROVE  Settled(v)'
  <1>1. CASE pc[v] \notin Executing
    BY <1>1 DEF Settled, Active, Loaded, Executing
  <1>2. CASE pc[v] \in Executing
    <2>1. Busy(v)
      BY <1>2 DEF Busy
    <2>2. JobOf(v)' = JobOf(v)
      BY <2>1, LogKeeps, JobOfType DEF JobOf
    <2> QED
      BY <2>1, <2>2 DEF Settled
  <1> QED
    BY <1>1, <1>2

\* No worker holds a job of a submission that Ingest has not published.
LEMMA NotYetHeld ==
    ASSUME TypeOK, IngestInv, NEW s \in Subs, ingest[s] \in {"new", "saved"},
           NEW w \in Workers, Busy(w)
    PROVE  JobOf(w).sub # s
  BY JobOfType DEF IngestInv, JobOf

\* A worker's step keeps the invariant of Ingest.
LEMMA IngestInvWork ==
    ASSUME TypeOK, IngestInv, [Next]_vars, NEW w \in Workers,
           WorkerStep(w) \/ Crash(w) \/ Restart(w),
           \A s \in Subs : ~Produce(FirstJob(s)) \/ ingest[s] = "done"
    PROVE  IngestInv'
  <1> SUFFICES ASSUME NEW s \in Subs
               PROVE  /\ ingest'[s] # "failing"
                      /\ ingest'[s] \in {"new", "saved"} =>
                           \A p \in Partitions : \A i \in 1..Len(log'[p]) : log'[p][i].sub # s
                      /\ ingest'[s] = "new" => ~IsTerminal(store'[s].status)
    BY DEF IngestInv
  <1>1. ingest' = ingest
    BY Footprint
  <1>2. ASSUME ingest[s] = "new" PROVE ~IsTerminal(store'[s].status)
    <2>1. ~Busy(w) \/ s # JobOf(w).sub
      BY <1>2, NotYetHeld
    <2> QED
      BY <1>2, <2>1, Footprint DEF IngestInv
  <1>3. ASSUME ingest[s] \in {"new", "saved"},
               NEW p \in Partitions, NEW i \in 1..Len(log'[p])
        PROVE  log'[p][i].sub # s
    <2>1. CASE i \in 1..Len(log[p])
      BY <1>3, <2>1, LogKeeps DEF IngestInv
    <2>2. CASE \E x \in Subs : log'[p][i].sub = x /\ Produce(FirstJob(x))
      BY <1>3, <2>2
    <2>3. CASE \E v \in Workers : log'[p][i].sub = JobOf(v).sub /\ Busy(v)
      BY <1>3, <2>3, NotYetHeld
    <2> QED
      BY <2>1, <2>2, <2>3, LogKeeps
  <1> QED
    BY <1>1, <1>2, <1>3 DEF IngestInv

\* FinalInv is inductive, and with it no step changes a terminal record.
LEMMA FinalStep ==
    ASSUME FaultKinds \cap ClobberingFaults = {}, TypeOK, ChainInv, OwnerInv,
           FinalInv, [Next]_vars
    PROVE  /\ FinalInv'
           /\ \A s \in Subs : IsTerminal(store[s].status) => store'[s] = store[s]
  <1>0. \A k \in ClobberingFaults : ~Fault(k)
    BY DEF Fault
  <1>1. CASE UNCHANGED vars
    <2>1. \A w \in Workers : Settled(w)'
      BY <1>1, OthersSettled DEF FinalInv, vars, workerVars
    <2>2. IngestInv'
      BY <1>1 DEF FinalInv, IngestInv, vars, queueVars
    <2> QED
      BY <1>1, <2>1, <2>2 DEF FinalInv, vars
  <1>2. ASSUME NEW s \in Subs, SaveSubmission(s)
        PROVE  /\ FinalInv'
               /\ \A x \in Subs : IsTerminal(store[x].status) => store'[x] = store[x]
    <2>1. /\ ingest[s] = "new" /\ ingest' = [ingest EXCEPT ![s] = "saved"]
          /\ \A x \in Subs : x # s => store'[x] = store[x]
          /\ store'[s].status = "pending" /\ UNCHANGED <<log, workerVars>>
      BY <1>2 DEF SaveSubmission, TypeOK, StoreType, queueVars, Blank
    <2>2. ~IsTerminal(store[s].status)
      BY <2>1 DEF FinalInv, IngestInv
    <2>3. ASSUME NEW w \in Workers PROVE Settled(w)'
      <3>1. Busy(w) => store'[JobOf(w).sub] = store[JobOf(w).sub]
        BY <2>1, NotYetHeld, JobOfType DEF FinalInv, Job
      <3> QED
        BY <2>1, <3>1, OthersSettled DEF FinalInv, workerVars
    <2>4. IngestInv'
      BY <2>1 DEF FinalInv, IngestInv, TypeOK, StoreType
    <2> QED
      BY <2>1, <2>2, <2>3, <2>4 DEF FinalInv
  <1>3. ASSUME NEW s \in Subs, EnqueueFirst(s)
        PROVE  FinalInv' /\ store' = store
    <2>1. /\ Produce(FirstJob(s)) /\ ingest' = [ingest EXCEPT ![s] = "done"]
          /\ store' = store /\ UNCHANGED workerVars
      BY <1>0, <1>3 DEF EnqueueFirst, ProduceFails, ClobberingFaults
    <2>2. \A w \in Workers : Settled(w)'
      BY <2>1, OthersSettled DEF FinalInv, workerVars
    <2>3. ASSUME NEW x \in Subs, ingest'[x] \in {"new", "saved"},
                 NEW p \in Partitions, NEW i \in 1..Len(log'[p])
          PROVE  log'[p][i].sub # x
      <3>1. x # s /\ ingest[x] = ingest'[x]
        BY <2>1, <2>3 DEF TypeOK, StoreType
      <3>2. CASE i \in 1..Len(log[p])
        BY <2>3, <3>1, <3>2, LogKeeps DEF FinalInv, IngestInv
      <3>3. CASE i \notin 1..Len(log[p])
        <4>1. FirstJob(s) \in Job /\ FirstJob(s).sub = s
          BY FirstJobType DEF FirstJob, NewJob, NewProfileJob
        <4>2. log[p] \in Seq(Job) /\ Len(log[p]) \in Nat
          BY DEF TypeOK, QueueType
        <4>3. log'[p] = log[p] \/ log'[p] = Append(log[p], FirstJob(s))
          BY <2>1, <4>1, PipelineAssumption DEF Produce, TypeOK, QueueType
        <4>4. log'[p][i] = FirstJob(s)
          BY <3>3, <4>1, <4>2, <4>3
        <4> QED
          BY <3>1, <4>1, <4>4
      <3> QED
        BY <3>2, <3>3
    <2>4. IngestInv'
      BY <2>1, <2>3 DEF FinalInv, IngestInv, TypeOK, StoreType
    <2> QED
      BY <2>1, <2>2, <2>4 DEF FinalInv
  <1>4. ASSUME NEW s \in Subs, IngestFailed(s) PROVE FALSE
    BY <1>4 DEF IngestFailed, FinalInv, IngestInv
  <1>5. ASSUME NEW s \in Subs, IngestAborts(s)
        PROVE  FinalInv' /\ store' = store
    <2>1. /\ ingest' = [ingest EXCEPT ![s] = "done"]
          /\ store' = store /\ UNCHANGED <<log, workerVars>>
      BY <1>5 DEF IngestAborts, queueVars
    <2>2. \A w \in Workers : Settled(w)'
      BY <2>1, OthersSettled DEF FinalInv, workerVars
    <2>3. IngestInv'
      BY <2>1 DEF FinalInv, IngestInv, TypeOK, StoreType
    <2> QED
      BY <2>1, <2>2, <2>3 DEF FinalInv
  <1>6. ASSUME NEW w \in Workers, WorkerStep(w) \/ Crash(w) \/ Restart(w)
        PROVE  /\ FinalInv'
               /\ \A x \in Subs : IsTerminal(store[x].status) => store'[x] = store[x]
    <2>1. /\ Settled(w)'
          /\ \A x \in Subs : IsTerminal(store[x].status) => store'[x] = store[x]
      <3>1. CASE WorkerStep(w)
        BY <3>1, SettledStep
      <3>2. CASE Crash(w) \/ Restart(w)
        BY <3>2 DEF Crash, Restart, Goto, Settled, Active, Loaded, Executing, TypeOK, WorkerType
      <3> QED
        BY <1>6, <3>1, <3>2
    <2>2. ASSUME NEW v \in Workers, v # w PROVE Settled(v)'
      <3>1. Busy(v) => store'[JobOf(v).sub] = store[JobOf(v).sub]
        BY <1>6, <2>2, Footprint, BusyDisjoint, JobOfType DEF Job
      <3> QED
        BY <1>6, <2>2, <3>1, Footprint, OthersSettled DEF FinalInv
    <2>3. \A x \in Subs : ~Produce(FirstJob(x)) \/ ingest[x] = "done"
      <3> SUFFICES ASSUME NEW x \in Subs, Produce(FirstJob(x)) PROVE ingest[x] = "done"
        OBVIOUS
      <3>1. log' # log
        BY ProduceChanges, FirstJobType
      <3>2. EnqueueNext(w) /\ Produce(NextJob(w))
        BY <1>0, <1>6, <3>1 DEF WorkerStep, Dequeue, Guard, Claim, Load, Deploy,
                PersistContainer, WaitHealthy, Preflight, WriteDryRun, MarkFailed,
                SetBenchmarking, RunFleet, AppendResult, EnqueueNext, LoadForScore,
                WriteFinalScore, StopContainer, Reread, WriteOutcome, Commit, Crash,
                Restart, ProduceFails, NextJob, queueVars, ClobberingFaults
      <3>3. pc[w] = "enqueue" /\ Busy(w) /\ NextJob(w) \in Job
        BY <3>2, NextJobType DEF EnqueueNext, Busy, Executing
      <3>4. NextJob(w).sub = x
        BY <3>2, <3>3, ProduceSame, FirstJobType DEF FirstJob, NewJob, NewProfileJob
      <3>5. ingest[x] \notin {"new", "saved"}
        BY <3>3, <3>4, NotYetHeld DEF FinalInv, NextJob, NewProfileJob
      <3> QED
        BY <3>5 DEF FinalInv, IngestInv, TypeOK, StoreType
    <2>4. IngestInv'
      BY <1>6, <2>3, IngestInvWork DEF FinalInv
    <2> QED
      BY <2>1, <2>2, <2>4 DEF FinalInv
  <1>7. ASSUME NEW p \in Partitions, NEW w \in Workers, Rebalance(p, w)
        PROVE  FinalInv' /\ store' = store
    <2>1. UNCHANGED <<store, ingest, log, workerVars>>
      BY <1>7 DEF Rebalance
    <2>2. \A v \in Workers : Settled(v)'
      BY <2>1, OthersSettled DEF FinalInv, workerVars
    <2>3. IngestInv'
      BY <2>1 DEF FinalInv, IngestInv
    <2> QED
      BY <2>1, <2>2, <2>3 DEF FinalInv
  <1> QED
    BY <1>1, <1>2, <1>3, <1>4, <1>5, <1>6, <1>7 DEF Next, IngestStep

\* The finality invariant holds in every reachable state.
LEMMA FinalHolds ==
    ASSUME FaultKinds \cap ClobberingFaults = {} PROVE Spec => []FinalInv
  <1>1. Init => FinalInv
    BY DEF Init, FinalInv, IngestInv, Settled, Active, Loaded, Executing, Blank, IsTerminal
  <1>2. "rebalance" \notin FaultKinds
    BY DEF ClobberingFaults
  <1>3. TypeOK /\ ChainInv /\ OwnerInv /\ FinalInv /\ [Next]_vars => FinalInv'
    BY FinalStep
  <1>4. Spec => []OwnerInv
    BY <1>2, OwnerHolds
  <1> QED
    BY <1>1, <1>3, <1>4, TypeCorrect, ChainHolds, PTL DEF Spec

\* Without live rebalances, ambiguous enqueues and failing reads, a completed
\* or failed submission record is never written over, whatever workers crash
\* and whatever commits, stops and writes fail.
THEOREM TerminalCorrect ==
    ASSUME FaultKinds \cap ClobberingFaults = {} PROVE Spec => TerminalIsFinal
  <1>1. TypeOK /\ ChainInv /\ OwnerInv /\ FinalInv /\ [Next]_vars =>
           [\A s \in Subs : IsTerminal(store[s].status) => store'[s] = store[s]]_vars
    BY FinalStep
  <1>2. "rebalance" \notin FaultKinds
    BY DEF ClobberingFaults
  <1>3. Spec => []OwnerInv
    BY <1>2, OwnerHolds
  <1> QED
    BY <1>1, <1>3, TypeCorrect, ChainHolds, FinalHolds, PTL DEF Spec, TerminalIsFinal

=============================================================================
