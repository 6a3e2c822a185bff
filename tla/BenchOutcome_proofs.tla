------------------------ MODULE BenchOutcome_proofs ------------------------
(***************************************************************************)
(* Proofs about BenchPipeline: what a completed run has recorded, and that *)
(* no container is lost and no job but by the fetch, for any submissions,  *)
(* workers and partitions.  They rest on the invariants of                 *)
(* BenchPipeline_proofs.                                                   *)
(***************************************************************************)
EXTENDS BenchPipeline_proofs

-----------------------------------------------------------------------------
(* Results, verdicts and scores: the inductive invariant *)

\* The faults that lose or duplicate a write, a read or a job.
LossyFaults == {"rebalance", "enqueue", "get", "update"}

\* A list of results in profile order.
Ordered(r) ==
    \A i \in 1..Len(r) :
        /\ r[i] = "medium" => \E k \in 1..(i - 1) : r[k] = "low"
        /\ r[i] = "high"   => \E k \in 1..(i - 1) : r[k] = "medium"

\* Submission s has a result of profile l.
Has(s, l) == l \in Range(store[s].results)

\* Where the bot fleet runs and what follows it.
Benched == {"bench", "fleet", "append", "enqueue", "score", "writescore"}

Leaving == {"stop", "reread", "outcome"}

\* A run of a job with label l at point c, whose flag is err: its copies p and
\* x of the record r are fresh where they are going to be written, a profile's
\* fleet runs on a passed verdict, and only a scored run of the last profile
\* leaves without an error.
RunOK(l, c, err, r, p, x) ==
    /\ c \in {"claim", "outcome"} => p = r
    /\ c \in Loaded => x = r
    /\ c \in Loaded \cup {"load"} => r.status \in {"deploying", "benchmarking"}
    /\ c \in {"preflight", "dryrun", "reject"} => l = "low"
    /\ \/ l \in {"medium", "high"} /\ c \in Active
       \/ l = "low" /\ c \in Benched
       \/ l # "single" /\ c \in Leaving /\ ~err
       => r.dryRun = "pass"
    /\ c \in {"enqueue", "score", "writescore"} => l \in Range(r.results)
    /\ l = "high" /\ c \in Leaving /\ ~err => r.final = Profiles

Run(w) ==
    pc[w] \in Executing =>
        RunOK(JobOf(w).label, pc[w], execErr[w], store[JobOf(w).sub], psub[w], xsub[w])

\* The record r of submission s.
RecordOK(s, r) ==
    /\ Ordered(r.results)
    /\ r.status = "running" => r.dryRun = "pass"
    /\ r.status = "completed" =>
          IF s \in ContestSubs THEN r.final = Profiles /\ r.dryRun = "pass" ELSE r.legacy

\* A job that is in the log: the profile before its own has a result.
Follows(j) ==
    /\ j.label = "single" <=> j.sub \notin ContestSubs
    /\ j.label = "medium" => Has(j.sub, "low")
    /\ j.label = "high" => Has(j.sub, "medium")
    /\ j.label \in {"medium", "high"} => store[j.sub].status \notin {"absent", "pending"}

ScoreInv ==
    /\ \A w \in Workers : Run(w)
    /\ \A s \in Subs : RecordOK(s, store[s])
    /\ \A p \in Partitions : \A i \in 1..Len(log[p]) : Follows(log[p][i])

\* What every write of a record r keeps in its successor q.
Grown(r, q) ==
    /\ Range(r.results) \subseteq Range(q.results)
    /\ r.status \notin {"absent", "pending"} => q.status \notin {"absent", "pending"}

-----------------------------------------------------------------------------
(* Lists of results *)

\* Appending a profile whose predecessor has a result keeps the order.
LEMMA OrderedAppend ==
    ASSUME NEW r \in Seq(Profiles), Ordered(r), NEW l \in Profiles,
           l = "medium" => "low" \in Range(r), l = "high" => "medium" \in Range(r)
    PROVE  Ordered(Append(r, l)) /\ Range(Append(r, l)) = Range(r) \cup {l}
  <1> DEFINE q == Append(r, l)
             n == Len(r)
  <1>1. /\ n \in Nat /\ Len(q) = n + 1 /\ q[n + 1] = l
        /\ \A i \in 1..n : q[i] = r[i]
        /\ DOMAIN q = 1..(n + 1) /\ DOMAIN r = 1..n
    OBVIOUS
  <1>2. ASSUME NEW y \in Range(r) PROVE \E k \in 1..n : q[k] = y
    BY <1>1 DEF Range
  <1> HIDE DEF q, n
  <1>3. ASSUME NEW i \in 1..(n + 1)
        PROVE  /\ q[i] = "medium" => \E k \in 1..(i - 1) : q[k] = "low"
               /\ q[i] = "high"   => \E k \in 1..(i - 1) : q[k] = "medium"
    <2>1. CASE i = n + 1
      <3>1. 1..(i - 1) = 1..n
        BY <1>1, <2>1
      <3>2. QED
        BY <1>1, <1>2, <2>1, <3>1
    <2>2. CASE i # n + 1
      <3>1. i \in 1..n /\ 1..(i - 1) \subseteq 1..n
        BY <1>1, <2>2
      <3>2. QED
        BY <1>1, <3>1 DEF Ordered, n
    <2>3. QED
      BY <2>1, <2>2
  <1>4. Ordered(q)
    BY <1>1, <1>3 DEF Ordered
  <1>5. Range(q) = Range(r) \cup {l}
    <2>1. 1..(n + 1) = (1..n) \cup {n + 1}
      BY <1>1
    <2>2. QED
      BY <1>1, <2>1 DEF Range
  <1>6. QED
    BY <1>4, <1>5 DEF q

\* A list in order that has the last profile has them all.
LEMMA OrderedFull ==
    ASSUME NEW r \in Seq(Profiles), Ordered(r), "high" \in Range(r)
    PROVE  Range(r) = Profiles
  <1>1. DOMAIN r = 1..Len(r) /\ Len(r) \in Nat /\ \A i \in 1..Len(r) : r[i] \in Profiles
    OBVIOUS
  <1>2. PICK i \in 1..Len(r) : r[i] = "high"
    BY <1>1 DEF Range
  <1>3. PICK k \in 1..(i - 1) : r[k] = "medium"
    BY <1>2 DEF Ordered
  <1>4. k \in 1..Len(r)
    BY <1>1
  <1>5. PICK m \in 1..(k - 1) : r[m] = "low"
    BY <1>3, <1>4 DEF Ordered
  <1>6. m \in 1..Len(r)
    BY <1>1, <1>4
  <1>7. QED
    BY <1>1, <1>2, <1>3, <1>4, <1>5, <1>6 DEF Range, Profiles

-----------------------------------------------------------------------------
(* A worker's own step *)

\* The guard admits a later profile only on a passed verdict.
LEMMA GuardRun ==
    ASSUME FaultKinds \cap LossyFaults = {}, TypeOK, ScoreInv, NEW w \in Workers, Guard(w)
    PROVE  Run(w)'
  <1>1. ~Fault("get")
    BY DEF Fault, LossyFaults
  <1>2. Busy(w)
    BY DEF Guard, Busy
  <1>3. JobOf(w) \in Job /\ Follows(JobOf(w))
    BY <1>2, JobOfType DEF ScoreInv, JobOf
  <1>4. CASE pc'[w] \notin Executing
    BY <1>4 DEF Run
  <1>5. CASE pc'[w] \in Executing
    <2>1. /\ store[JobOf(w).sub].status \in Admitted(JobOf(w).label)
          /\ psub'[w] = store[JobOf(w).sub] /\ pc'[w] = "claim"
          /\ UNCHANGED <<at, log, store>>
      BY <1>1, <1>5 DEF Guard, Goto, Executing, queueVars, TypeOK, WorkerType, StoreType
    <2>2. JobOf(w)' = JobOf(w)
      BY <2>1 DEF JobOf
    <2>3. JobOf(w).label \in {"medium", "high"} => store[JobOf(w).sub].dryRun = "pass"
      <3>1. ASSUME JobOf(w).label \in {"medium", "high"}
            PROVE  store[JobOf(w).sub].status = "running"
        BY <1>3, <2>1, <3>1 DEF Follows, Admitted
      <3>2. JobOf(w).sub \in Subs
        BY <1>3 DEF Job
      <3>3. QED
        BY <3>1, <3>2 DEF ScoreInv, RecordOK
    <2>4. QED
      BY <2>1, <2>2, <2>3 DEF Run, RunOK, Loaded, Active, Benched, Leaving, Executing
  <1>6. QED
    BY <1>4, <1>5

\* A worker that executes a job keeps to it, whatever it appends to the log.
LEMMA KeepsJob ==
    ASSUME TypeOK, [Next]_vars, NEW w \in Workers, pc[w] \in Executing, WorkerStep(w)
    PROVE  /\ Busy(w) /\ JobOf(w) \in Job /\ JobOf(w)' = JobOf(w)
           /\ at'[w] = at[w]
  <1>1. Busy(w)
    BY DEF Busy
  <1>2. at' = at
    BY DEF Executing, WorkerStep, Dequeue, Guard, Claim, Load, Deploy, PersistContainer,
           WaitHealthy, Preflight, WriteDryRun, MarkFailed, SetBenchmarking, RunFleet,
           AppendResult, EnqueueNext, LoadForScore, WriteFinalScore, StopContainer,
           Reread, WriteOutcome, Commit
  <1>3. QED
    BY <1>1, <1>2, JobOfType, LogKeeps DEF JobOf

\* Outside a run, the worker fetches, guards or commits.
LEMMA WorkerKinds ==
    ASSUME NEW w \in Workers, WorkerStep(w)
    PROVE  pc[w] \in Executing \/ Dequeue(w) \/ Guard(w) \/ Commit(w)
  BY DEF WorkerStep, Claim, Load, Deploy, PersistContainer, WaitHealthy, Preflight,
         WriteDryRun, MarkFailed, SetBenchmarking, RunFleet, AppendResult, EnqueueNext,
         LoadForScore, WriteFinalScore, StopContainer, Reread, WriteOutcome, Executing

\* The step of a run, for the run itself and for the record of its submission.
LEMMA RunStep ==
    ASSUME FaultKinds \cap LossyFaults = {}, TypeOK, ChainInv, ScoreInv, [Next]_vars,
           NEW w \in Workers, pc[w] \in Executing, WorkerStep(w)
    PROVE  /\ Run(w)'
           /\ RecordOK(JobOf(w).sub, store'[JobOf(w).sub])
           /\ Grown(store[JobOf(w).sub], store'[JobOf(w).sub])
  <1> DEFINE j == JobOf(w)
             s == j.sub
             l == j.label
             r == store[s]
             q == store'[s]
  <1>1. ~Fault("get") /\ ~Fault("enqueue") /\ ~Fault("update")
    BY DEF Fault, LossyFaults
  <1>2. JobOf(w)' = JobOf(w) /\ Busy(w) /\ j \in Job /\ s \in Subs /\ l \in Labels
    BY KeepsJob DEF Job
  <1>3. Follows(j) /\ ChainShape(j) /\ Fits(pc[w], j)
    BY <1>2, JobOfType DEF ScoreInv, ChainInv, JobOf, TypeOK, WorkerType
  <1>4. RunOK(l, pc[w], execErr[w], r, psub[w], xsub[w]) /\ RecordOK(s, r)
    BY <1>2 DEF ScoreInv, Run
  <1>5. RunOK(l, pc'[w], execErr'[w], q, psub'[w], xsub'[w]) => Run(w)'
    BY <1>2 DEF Run
  <1>6. /\ xsub[w] \in Submission /\ psub[w] \in Submission /\ r \in Submission
        /\ store \in [Subs -> Submission] /\ xsub \in [Workers -> Submission]
        /\ psub \in [Workers -> Submission] /\ execErr \in [Workers -> BOOLEAN]
        /\ pc \in [Workers -> Executing \cup {"poll", "guard", "commit", "down"}]
    BY <1>2 DEF TypeOK, StoreType, WorkerType
  <1>7. Grown(r, r)
    BY DEF Grown
  <1>8. s = JobOf(w).sub /\ r = store[s] /\ q = store'[s] /\ l = JobOf(w).label /\ j = JobOf(w)
        /\ (l = "single" <=> s \notin ContestSubs)
    BY <1>3 DEF Follows
  <1> SUFFICES /\ RunOK(l, pc'[w], execErr'[w], q, psub'[w], xsub'[w])
               /\ RecordOK(s, q) /\ Grown(r, q)
    BY <1>5
  <1> HIDE DEF j, s, l, r, q
  <1> USE <1>1, <1>2, <1>4, <1>6, <1>7, <1>8 DEF RunOK, Loaded, Active, Benched, Leaving, Executing
  <1>9. CASE Claim(w)
    <2>1. pc[w] = "claim" /\ q = [r EXCEPT !.status = "deploying"] /\ pc'[w] = "load"
      BY <1>9 DEF Claim, Goto, UpdateOrLog
    <2>2. q.status = "deploying" /\ q.results = r.results /\ q.dryRun = r.dryRun
      BY <2>1 DEF Submission
    <2>3. QED
      BY <2>1, <2>2 DEF RecordOK, Grown
  <1>10. CASE Load(w)
    BY <1>10 DEF Load, Goto
  <1>11. CASE Deploy(w)
    BY <1>11 DEF Deploy, Goto, ExecuteFails
  <1>12. CASE PersistContainer(w)
    BY <1>12 DEF PersistContainer, Goto, UpdateOrLog
  <1>13. CASE WaitHealthy(w)
    BY <1>13 DEF WaitHealthy, Goto, ExecuteReturns
  <1>14. CASE Preflight(w)
    BY <1>14 DEF Preflight, Goto, GetOrCached
  <1>15. CASE WriteDryRun(w)
    <2>1. /\ pc[w] = "dryrun" /\ q = [r EXCEPT !.dryRun = IF execErr[w] THEN "fail" ELSE "pass"]
          /\ xsub'[w] = q /\ pc'[w] = (IF execErr[w] THEN "reject" ELSE "bench")
      BY <1>15 DEF WriteDryRun, Goto, UpdateOrLog
    <2>2. /\ q.results = r.results /\ q.status = r.status
          /\ q.dryRun = (IF execErr[w] THEN "fail" ELSE "pass")
      BY <2>1 DEF Submission
    <2>3. QED
      BY <2>1, <2>2 DEF RecordOK, Grown
  <1>16. CASE MarkFailed(w)
    <2>1. /\ pc[w] = "reject" /\ q = [r EXCEPT !.status = "failed"] /\ pc'[w] = "stop"
          /\ execErr'[w] = TRUE
      BY <1>16 DEF MarkFailed, Goto, UpdateOrLog, ExecuteReturns
    <2>2. q.results = r.results /\ q.status = "failed"
      BY <2>1 DEF Submission
    <2>3. QED
      BY <2>1, <2>2 DEF RecordOK, Grown
  <1>17. CASE SetBenchmarking(w)
    <2>1. /\ pc[w] = "bench" /\ q = [r EXCEPT !.status = "benchmarking"] /\ xsub'[w] = q
          /\ pc'[w] = "fleet"
      BY <1>17 DEF SetBenchmarking, Goto, UpdateOrLog
    <2>2. q.results = r.results /\ q.status = "benchmarking" /\ q.dryRun = r.dryRun
      BY <2>1 DEF Submission
    <2>3. QED
      BY <2>1, <2>2 DEF RecordOK, Grown
  <1>18. CASE RunFleet(w)
    BY <1>18 DEF RunFleet, Goto, GetOrCached, ExecuteReturns
  <1>19. CASE AppendResult(w)
    <2>1. /\ pc[w] = "append" /\ q = [xsub[w] EXCEPT !.results = Append(@, l)] /\ xsub'[w] = q
          /\ pc'[w] \in {"score", "enqueue"} /\ UNCHANGED execErr
      BY <1>19 DEF AppendResult, Goto, ExecuteReturns
    <2>2. xsub[w] = r /\ l \in Profiles
      BY <1>3, <2>1 DEF Labels, Fits
    <2>3. Ordered(Append(r.results, l)) /\ Range(Append(r.results, l)) = Range(r.results) \cup {l}
      BY <1>3, <2>2, OrderedAppend DEF RecordOK, Submission, Follows, Has
    <2>4. /\ q.results = Append(r.results, l) /\ q.status = r.status /\ q.dryRun = r.dryRun
          /\ q.final = r.final /\ q.legacy = r.legacy
      BY <2>1, <2>2 DEF Submission
    <2>5. QED
      BY <2>1, <2>2, <2>3, <2>4 DEF RecordOK, Grown
  <1>20. CASE LoadForScore(w)
    BY <1>20 DEF LoadForScore, Goto, ExecuteReturns
  <1>21. CASE WriteFinalScore(w)
    <2>1. /\ pc[w] = "writescore" /\ q = [xsub[w] EXCEPT !.final = Range(xsub[w].results)]
          /\ pc'[w] = "stop" /\ execErr'[w] = FALSE
      BY <1>21 DEF WriteFinalScore, Goto, ExecuteReturns, UpdateOrLog
    <2>2. xsub[w] = r /\ l \in Range(r.results) /\ l # "single"
      BY <1>3, <2>1 DEF Fits
    <2>3. l = "high" => Range(r.results) = Profiles
      BY <2>2, OrderedFull DEF RecordOK, Submission
    <2>4. /\ q.results = r.results /\ q.status = r.status /\ q.dryRun = r.dryRun
          /\ q.final = Range(r.results) /\ q.legacy = r.legacy
      BY <2>1, <2>2 DEF Submission
    <2>5. r.dryRun = "pass"
      BY <2>1, <2>2 DEF Labels, Profiles
    <2>6. QED
      BY <2>1, <2>2, <2>3, <2>4, <2>5 DEF RecordOK, Grown
  <1>22. CASE StopContainer(w)
    BY <1>22 DEF StopContainer, Goto
  <1>23. CASE Reread(w)
    BY <1>23 DEF Reread, Goto
  <1>24. CASE WriteOutcome(w)
    <2>1. pc[w] = "outcome" /\ q = Outcome(r, j, execErr[w]) /\ pc'[w] = "commit"
      BY <1>24 DEF WriteOutcome, Goto, UpdateOrLog
    <2>2. /\ q.results = r.results /\ q.dryRun = r.dryRun /\ q.final = r.final
          /\ execErr[w] => q.status = "failed"
          /\ ~execErr[w] /\ ~IsLastProfile(j) => q.status = "running"
          /\ ~execErr[w] /\ IsLastProfile(j) => q.status = "completed" /\ (l = "single" => q.legacy)
      <3>1. CASE execErr[w]
        <4>1. q = [r EXCEPT !.status = "failed"]
          BY <2>1, <3>1 DEF Outcome
        <4>2. QED
          BY <3>1, <4>1 DEF Submission
      <3>2. CASE ~execErr[w] /\ ~IsLastProfile(j)
        <4>1. q = [r EXCEPT !.status = "running"]
          BY <2>1, <3>2 DEF Outcome
        <4>2. QED
          BY <3>2, <4>1 DEF Submission
      <3>3. CASE ~execErr[w] /\ IsLastProfile(j)
        <4>1. q = [r EXCEPT !.status = "completed", !.legacy = r.legacy \/ l = "single"]
          BY <2>1, <3>3 DEF Outcome
        <4>2. PICK b : b = (r.legacy \/ l = "single")
          OBVIOUS
        <4>3. q = [r EXCEPT !.status = "completed", !.legacy = b]
          BY <4>1, <4>2
        <4>4. /\ q.results = r.results /\ q.dryRun = r.dryRun /\ q.final = r.final
              /\ q.status = "completed" /\ q.legacy = b
          BY <4>3 DEF Submission
        <4>5. l = "single" => q.legacy
          BY <4>2, <4>4
        <4>6. QED
          BY <3>3, <4>4, <4>5
      <3>4. QED
        BY <3>1, <3>2, <3>3
    <2>3. ~IsLastProfile(j) => l # "single"
      BY <1>3 DEF IsLastProfile, ChainShape
    <2>4. IsLastProfile(j) => l \in {"high", "single"}
      BY <1>3 DEF IsLastProfile, ChainShape, Labels, Profiles
    <2>5. QED
      BY <2>1, <2>2, <2>3, <2>4 DEF RecordOK, Grown
  <1>25. CASE EnqueueNext(w)
    <2>1. /\ pc[w] = "enqueue" /\ q = r /\ pc'[w] = "stop" /\ execErr'[w] = FALSE
      BY <1>25 DEF EnqueueNext, ProduceFails, ExecuteReturns, Goto
    <2>2. l \notin {"high", "single"}
      BY <1>3, <2>1 DEF Fits, IsLastProfile, ChainShape
    <2>3. QED
      BY <2>1, <2>2 DEF Labels, Profiles
  <1>26. QED
    BY <1>9, <1>10, <1>11, <1>12, <1>13, <1>14, <1>15, <1>16, <1>17, <1>18, <1>19, <1>20, <1>21, <1>22, <1>23, <1>24, <1>25 DEF WorkerStep, Dequeue, Guard, Commit

-----------------------------------------------------------------------------
(* Every step *)

\* A worker whose own state and record are unchanged keeps its run.
LEMMA OthersRun ==
    ASSUME TypeOK, [Next]_vars, NEW v \in Workers, Run(v),
           pc'[v] = pc[v], at'[v] = at[v], xsub'[v] = xsub[v], psub'[v] = psub[v],
           execErr'[v] = execErr[v],
           Busy(v) => store'[JobOf(v).sub] = store[JobOf(v).sub]
    PROVE  Run(v)'
  <1>1. CASE pc[v] \notin Executing
    BY <1>1 DEF Run
  <1>2. CASE pc[v] \in Executing
    <2>1. Busy(v)
      BY <1>2 DEF Busy
    <2>2. JobOf(v)' = JobOf(v)
      BY <2>1, LogKeeps, JobOfType DEF JobOf
    <2>3. QED
      BY <2>1, <2>2 DEF Run
  <1>3. QED
    BY <1>1, <1>2

\* Only a worker that executes a job of s, or Ingest, writes the record of s.
LEMMA WorkerWrites ==
    ASSUME TypeOK, [Next]_vars, NEW w \in Workers, WorkerStep(w) \/ Crash(w) \/ Restart(w),
           NEW s \in Subs, store'[s] # store[s]
    PROVE  pc[w] \in Executing /\ WorkerStep(w) /\ s = JobOf(w).sub
  <1>1. Busy(w) /\ s = JobOf(w).sub
    BY Footprint
  <1>2. ~(Dequeue(w) \/ Guard(w) \/ Commit(w) \/ Crash(w) \/ Restart(w))
    BY DEF Dequeue, Guard, Commit, Crash, Restart
  <1>3. pc[w] # "guard" /\ pc[w] # "commit"
    BY <1>2 DEF WorkerStep, Dequeue, Guard, Claim, Load, Deploy, PersistContainer,
           WaitHealthy, Preflight, WriteDryRun, MarkFailed, SetBenchmarking, RunFleet,
           AppendResult, EnqueueNext, LoadForScore, WriteFinalScore, StopContainer,
           Reread, WriteOutcome, Commit
  <1>4. QED
    BY <1>1, <1>2, <1>3 DEF Busy

\* Every step leaves every record sound, and a record that has a job in the log
\* only grows.
LEMMA RecordStep ==
    ASSUME FaultKinds \cap LossyFaults = {}, TypeOK, ChainInv, FinalInv, ScoreInv, [Next]_vars,
           NEW s \in Subs
    PROVE  /\ RecordOK(s, store'[s])
           /\ \/ Grown(store[s], store'[s])
              \/ log' = log /\ ingest[s] = "new"
  <1>1. CASE store'[s] = store[s]
    BY <1>1 DEF ScoreInv, Grown
  <1>2. ASSUME NEW w \in Workers, WorkerStep(w) \/ Crash(w) \/ Restart(w), store'[s] # store[s]
        PROVE  RecordOK(s, store'[s]) /\ Grown(store[s], store'[s])
    BY <1>2, WorkerWrites, RunStep
  <1>3. ASSUME NEW x \in Subs, IngestStep(x) \/ IngestAborts(x), store'[s] # store[s]
        PROVE  RecordOK(s, store'[s]) /\ log' = log /\ ingest[s] = "new"
    <2>1. SaveSubmission(x)
      <3>1. ~IngestFailed(x)
        BY DEF IngestFailed, FinalInv, IngestInv
      <3>2. QED
        BY <1>3, <3>1 DEF IngestStep, EnqueueFirst, IngestAborts
    <2>2. s = x /\ store'[s] = [Blank EXCEPT !.status = "pending"]
      BY <1>3, <2>1 DEF SaveSubmission, TypeOK, StoreType
    <2>3. store'[s].results = <<>> /\ store'[s].status = "pending"
      BY <2>2 DEF Blank
    <2>4. QED
      BY <2>1, <2>2, <2>3 DEF RecordOK, Ordered, SaveSubmission, queueVars
  <1>4. store'[s] # store[s] =>
           \/ \E x \in Subs : IngestStep(x) \/ IngestAborts(x)
           \/ \E w \in Workers : WorkerStep(w) \/ Crash(w) \/ Restart(w)
    BY DEF Next, Rebalance, vars
  <1>5. QED
    BY <1>1, <1>2, <1>3, <1>4

\* A job that follows its predecessor goes on doing so.
LEMMA FollowsGrown ==
    ASSUME NEW j \in Job, Grown(store[j.sub], store'[j.sub]), Follows(j)
    PROVE  Follows(j)'
  BY DEF Follows, Grown, Has

\* Every job in the log follows its predecessor.
LEMMA FollowsStep ==
    ASSUME FaultKinds \cap LossyFaults = {}, TypeOK, ChainInv, FinalInv, ScoreInv, [Next]_vars,
           NEW p \in Partitions, NEW i \in 1..Len(log'[p])
    PROVE  Follows(log[p][i])'
  <1>1. CASE i \in 1..Len(log[p])
    <2>1. log'[p][i] = log[p][i] /\ log[p][i] \in Job /\ Follows(log[p][i])
      BY <1>1, LogKeeps DEF TypeOK, QueueType, ScoreInv
    <2>2. log[p][i].sub \in Subs /\ ingest[log[p][i].sub] # "new"
      BY <1>1, <2>1 DEF Job, FinalInv, IngestInv
    <2>3. Grown(store[log[p][i].sub], store'[log[p][i].sub])
      BY <2>2, RecordStep
    <2>4. PICK j \in Job : j = log[p][i]
      BY <2>1
    <2>5. Follows(j)'
      BY <2>1, <2>3, <2>4, FollowsGrown
    <2>6. QED
      BY <2>1, <2>4, <2>5 DEF Follows, Has
  <1>2. CASE i \notin 1..Len(log[p])
    <2>1. ASSUME NEW j \in Job, Produce(j) PROVE log'[p][i] = j
      <3>1. log[p] \in Seq(Job) /\ Len(log[p]) \in Nat
        BY DEF TypeOK, QueueType
      <3>2. log'[p] = log[p] \/ log'[p] = Append(log[p], j)
        BY <2>1, PipelineAssumption DEF Produce, TypeOK, QueueType, Job
      <3>3. QED
        BY <1>2, <3>1, <3>2
    <2>2. CASE \E s \in Subs : Produce(FirstJob(s))
      <3>1. PICK s \in Subs : Produce(FirstJob(s))
        BY <2>2
      <3>2. log'[p][i] = FirstJob(s)
        BY <2>1, <3>1, FirstJobType
      <3>3. QED
        BY <3>2 DEF Follows, FirstJob, NewJob, NewProfileJob
    <2>3. CASE \E w \in Workers : pc[w] = "enqueue" /\ Produce(NextJob(w))
      <3>1. PICK w \in Workers : pc[w] = "enqueue" /\ Produce(NextJob(w))
        BY <2>3
      <3>2. NextJob(w) \in Job /\ log'[p][i] = NextJob(w) /\ Busy(w)
        BY <2>1, <3>1, NextJobType DEF Busy, Executing
      <3>3. PICK j \in Job : j = JobOf(w)
        BY <3>2, JobOfType
      <3>4. ChainShape(j) /\ Follows(j) /\ j.label # "single" /\ j.remaining # <<>>
        BY <3>1, <3>2, <3>3, JobOfType
           DEF ChainInv, ScoreInv, JobOf, TypeOK, WorkerType, Fits, IsLastProfile
      <3>5. /\ j.label \in {"low", "medium"}
            /\ Head(j.remaining) = (IF j.label = "low" THEN "medium" ELSE "high")
        BY <3>3, <3>4 DEF ChainShape, Job, Labels, Profiles
      <3>6. /\ j.label \in Range(store[j.sub].results)
            /\ store[j.sub].status \in {"deploying", "benchmarking"}
        BY <3>1, <3>3 DEF ScoreInv, Run, RunOK, Loaded, Active, Executing
      <3>7. j.sub \in Subs /\ ingest[j.sub] # "new"
        BY <3>2, <3>3, NotYetHeld DEF Job, FinalInv
      <3>8. Grown(store[j.sub], store'[j.sub])
        BY <3>7, RecordStep
      <3>9. /\ log'[p][i].sub = j.sub
            /\ log'[p][i].label = (IF j.label = "low" THEN "medium" ELSE "high")
        BY <3>2, <3>3, <3>5 DEF NextJob, NewProfileJob
      <3>10. j.sub \in ContestSubs
        BY <3>4 DEF Follows
      <3>11. QED
        BY <3>5, <3>6, <3>8, <3>9, <3>10 DEF Follows, Grown, Has
    <2>4. CASE UNCHANGED log
      BY <1>2, <2>4
    <2>5. QED
      BY <2>2, <2>3, <2>4, LogSteps
  <1>3. QED
    BY <1>1, <1>2

\* ScoreInv is inductive, given the ownership of partitions and the finality
\* of records.
LEMMA ScoreStep ==
    ASSUME FaultKinds \cap LossyFaults = {}, TypeOK, ChainInv, OwnerInv, FinalInv, ScoreInv,
           [Next]_vars
    PROVE  ScoreInv'
  <1>1. ASSUME NEW v \in Workers, UNCHANGED workerVars,
               Busy(v) => store'[JobOf(v).sub] = store[JobOf(v).sub]
        PROVE  Run(v)'
    BY <1>1, OthersRun DEF ScoreInv, workerVars
  <1>2. ASSUME NEW x \in Subs, IngestStep(x) \/ IngestAborts(x), NEW v \in Workers
        PROVE  Run(v)'
    <2>1. UNCHANGED workerVars
      BY <1>2 DEF IngestStep, SaveSubmission, EnqueueFirst, IngestFailed, IngestAborts
    <2>2. ~IngestFailed(x)
      BY DEF IngestFailed, FinalInv, IngestInv
    <2>3. SaveSubmission(x) => ingest[x] = "new" /\ \A s \in Subs : s # x => store'[s] = store[s]
      BY DEF SaveSubmission, TypeOK, StoreType
    <2>4. ~SaveSubmission(x) => store' = store
      BY <1>2, <2>2 DEF IngestStep, EnqueueFirst, IngestAborts
    <2>5. Busy(v) => store'[JobOf(v).sub] = store[JobOf(v).sub]
      BY <2>3, <2>4, NotYetHeld, JobOfType DEF FinalInv, Job
    <2>6. QED
      BY <1>1, <2>1, <2>5
  <1>3. ASSUME NEW w \in Workers, WorkerStep(w) \/ Crash(w) \/ Restart(w), NEW v \in Workers
        PROVE  Run(v)'
    <2>1. CASE v # w
      <3>1. Busy(v) => store'[JobOf(v).sub] = store[JobOf(v).sub]
        BY <1>3, <2>1, Footprint, BusyDisjoint, JobOfType DEF Job
      <3>2. QED
        BY <1>3, <2>1, <3>1, Footprint, OthersRun DEF ScoreInv
    <2>2. CASE v = w /\ pc'[w] \notin Executing
      BY <2>2 DEF Run
    <2>3. CASE v = w /\ pc'[w] \in Executing
      <3>1. CASE Crash(w) \/ Restart(w) \/ Dequeue(w) \/ Commit(w)
        BY <2>3, <3>1 DEF Crash, Restart, Dequeue, Commit, Goto, Executing, TypeOK, WorkerType
      <3>2. CASE Guard(w)
        BY <2>3, <3>2, GuardRun
      <3>3. CASE pc[w] \in Executing /\ WorkerStep(w)
        BY <2>3, <3>3, RunStep
      <3>4. QED
        BY <1>3, <3>1, <3>2, <3>3
           DEF WorkerStep, Claim, Load, Deploy, PersistContainer, WaitHealthy, Preflight,
               WriteDryRun, MarkFailed, SetBenchmarking, RunFleet, AppendResult,
               EnqueueNext, LoadForScore, WriteFinalScore, StopContainer, Reread,
               WriteOutcome, Executing
    <2>4. QED
      BY <2>1, <2>2, <2>3
  <1>4. ASSUME NEW p \in Partitions, NEW w \in Workers, Rebalance(p, w), NEW v \in Workers
        PROVE  Run(v)'
    BY <1>1, <1>4 DEF Rebalance
  <1>5. ASSUME UNCHANGED vars, NEW v \in Workers PROVE Run(v)'
    BY <1>1, <1>5 DEF vars
  <1>6. \A v \in Workers : Run(v)'
    BY <1>2, <1>3, <1>4, <1>5 DEF Next
  <1>7. QED
    BY <1>6, RecordStep, FollowsStep DEF ScoreInv

\* The invariant holds in every reachable state.
LEMMA ScoreHolds ==
    ASSUME FaultKinds \cap LossyFaults = {} PROVE Spec => []ScoreInv
  <1>1. Init => ScoreInv
    BY DEF Init, ScoreInv, Run, Executing, RecordOK, Ordered, Blank
  <1>2. "rebalance" \notin FaultKinds /\ FaultKinds \cap ClobberingFaults = {}
    BY DEF LossyFaults, ClobberingFaults
  <1>3. TypeOK /\ ChainInv /\ OwnerInv /\ FinalInv /\ ScoreInv /\ [Next]_vars => ScoreInv'
    BY ScoreStep
  <1>4. Spec => []OwnerInv
    BY <1>2, OwnerHolds
  <1>5. Spec => []FinalInv
    BY <1>2, FinalHolds
  <1>6. QED
    BY <1>1, <1>3, <1>4, <1>5, TypeCorrect, ChainHolds, PTL DEF Spec

-----------------------------------------------------------------------------
(* The theorems about verdicts and scores *)

\* As long as no read, write or enqueue fails and no live worker loses a
\* partition, a completed contest submission has the score of all three
\* profiles and a passed verdict, and a completed single run its Results
\* (computeAndWriteFinalScore, processJob).
THEOREM CompletedCorrect ==
    ASSUME FaultKinds \cap LossyFaults = {} PROVE Spec => []CompletedIsScored
  <1>1. ScoreInv => CompletedIsScored
    BY DEF ScoreInv, RecordOK, CompletedIsScored
  <1>2. QED
    BY <1>1, ScoreHolds, PTL

\* Under the same faults the bot fleet of a profile job runs, a redelivered run
\* included, only for a submission that passed the pre-flight, is not terminal
\* and has the result of the profile before (Execute).
THEOREM PreflightCorrect ==
    ASSUME FaultKinds \cap LossyFaults = {} PROVE Spec => []FleetNeedsPreflight
  <1>1. TypeOK /\ ScoreInv => FleetNeedsPreflight
    <2> SUFFICES ASSUME TypeOK, ScoreInv, NEW w \in Workers, pc[w] = "fleet",
                        JobOf(w).label # "single"
                 PROVE  /\ store[JobOf(w).sub].dryRun = "pass" /\ xsub[w].dryRun = "pass"
                        /\ ~IsTerminal(store[JobOf(w).sub].status)
                        /\ JobOf(w).label = "medium" => "low" \in Range(store[JobOf(w).sub].results)
                        /\ JobOf(w).label = "high" => "medium" \in Range(store[JobOf(w).sub].results)
      BY DEF FleetNeedsPreflight
    <2>1. Busy(w)
      BY DEF Busy, Executing
    <2>2. JobOf(w).label \in {"low", "medium", "high"}
      BY <2>1, JobOfType DEF Job, Labels, Profiles
    <2>3. Follows(JobOf(w))
      BY <2>1, JobOfType DEF ScoreInv, JobOf
    <2>4. /\ store[JobOf(w).sub].dryRun = "pass" /\ xsub[w] = store[JobOf(w).sub]
          /\ store[JobOf(w).sub].status \in {"deploying", "benchmarking"}
      BY <2>2 DEF ScoreInv, Run, RunOK, Loaded, Active, Benched, Executing
    <2>5. QED
      BY <2>3, <2>4 DEF Follows, Has, IsTerminal
  <1>2. QED
    BY <1>1, TypeCorrect, ScoreHolds, PTL

-----------------------------------------------------------------------------
(* Results in order, writes that fail included: the inductive invariant *)

\* The profile before that of job j has a result.
Preceded(j) ==
    /\ j.label = "medium" => Has(j.sub, "low")
    /\ j.label = "high" => Has(j.sub, "medium")

\* The results in a copy that worker w is going to write are those of the
\* record: a failed write loses a status or a verdict, never a result.
SameResults(w) ==
    LET r == store[JobOf(w).sub].results IN
    /\ pc[w] \in {"claim", "outcome"} => psub[w].results = r
    /\ pc[w] \in Loaded => xsub[w].results = r
    /\ pc[w] = "enqueue" => JobOf(w).label \in Range(r)

ResultInv ==
    /\ \A w \in Workers : SameResults(w)
    /\ \A s \in Subs : Ordered(store[s].results)
    /\ \A p \in Partitions : \A i \in 1..Len(log[p]) : Preceded(log[p][i])

-----------------------------------------------------------------------------
(* Results in order: the steps *)

\* A write of record r, done or lost, leaves r or the record as it was.
LEMMA WriteResults ==
    ASSUME TypeOK, NEW s \in Subs, NEW r \in Submission, UpdateOrLog(s, r),
           r.results = store[s].results
    PROVE  store'[s].results = store[s].results
  BY DEF UpdateOrLog, TypeOK, StoreType

\* Changing another field keeps the results.
LEMMA OtherFields ==
    ASSUME NEW r \in Submission, NEW x
    PROVE  /\ [r EXCEPT !.status = x].results = r.results
           /\ [r EXCEPT !.dryRun = x].results = r.results
           /\ [r EXCEPT !.final = x].results = r.results
           /\ \A y : [r EXCEPT !.status = x, !.legacy = y].results = r.results
  BY DEF Submission

\* The step of a run: it appends its own profile or leaves the results alone,
\* and its copies follow.
LEMMA ResultRun ==
    ASSUME FaultKinds \cap ClobberingFaults = {}, TypeOK, ChainInv, ResultInv, [Next]_vars,
           NEW w \in Workers, pc[w] \in Executing, WorkerStep(w)
    PROVE  /\ SameResults(w)'
           /\ \/ store'[JobOf(w).sub].results = store[JobOf(w).sub].results
              \/ /\ JobOf(w).label \in Profiles
                 /\ store'[JobOf(w).sub].results
                        = Append(store[JobOf(w).sub].results, JobOf(w).label)
  <1> DEFINE j == JobOf(w)
             s == j.sub
             r == store[s]
             q == store'[s]
  <1>1. ~Fault("get") /\ ~Fault("enqueue")
    BY DEF Fault, ClobberingFaults
  <1>2. JobOf(w)' = JobOf(w) /\ Busy(w) /\ j \in Job /\ s \in Subs /\ j.label \in Labels
    BY KeepsJob DEF Job
  <1>3. Fits(pc[w], j) /\ SameResults(w)
    BY <1>2 DEF ResultInv, TypeOK, WorkerType
  <1>4. /\ xsub[w] \in Submission /\ psub[w] \in Submission /\ r \in Submission
        /\ store \in [Subs -> Submission] /\ xsub \in [Workers -> Submission]
        /\ psub \in [Workers -> Submission]
        /\ pc \in [Workers -> Executing \cup {"poll", "guard", "commit", "down"}]
    BY <1>2 DEF TypeOK, StoreType, WorkerType
  <1>5. /\ pc[w] \in {"claim", "outcome"} => psub[w].results = r.results
        /\ pc[w] \in Loaded => xsub[w].results = r.results
        /\ pc[w] = "enqueue" => j.label \in Range(r.results)
    BY <1>3 DEF SameResults
  <1> DEFINE Good == /\ pc'[w] \in {"claim", "outcome"} => psub'[w].results = q.results
                     /\ pc'[w] \in Loaded => xsub'[w].results = q.results
                     /\ pc'[w] = "enqueue" => j.label \in Range(q.results)
  <1>6. Good => SameResults(w)'
    BY <1>2 DEF SameResults
  <1> SUFFICES Good /\ (q.results = r.results
                        \/ (j.label \in Profiles /\ q.results = Append(r.results, j.label)))
    BY <1>6
  <1>7. s = JobOf(w).sub /\ r = store[s] /\ q = store'[s] /\ j = JobOf(w)
    OBVIOUS
  <1> HIDE DEF j, s, r, q
  <1> USE DEF Loaded, Active, Executing
  <1>8. CASE Claim(w)
    <2>1. PICK x : x = [psub[w] EXCEPT !.status = "deploying"]
      OBVIOUS
    <2>2. pc[w] = "claim" /\ pc'[w] = "load" /\ UpdateOrLog(s, x)
      BY <1>4, <1>7, <1>8, <2>1 DEF Claim, Goto
    <2>3. x \in Submission /\ x.results = r.results
      BY <1>4, <1>5, <2>1, <2>2 DEF Submission, Statuses
    <2>4. q.results = r.results
      BY <1>2, <1>7, <2>2, <2>3, WriteResults
    <2>5. QED
      BY <2>2, <2>4
  <1>9. CASE Load(w) \/ Deploy(w) \/ WaitHealthy(w) \/ Preflight(w)
    <2>1. q = r /\ pc'[w] \notin {"claim", "outcome", "enqueue"}
      BY <1>1, <1>4, <1>7, <1>9
         DEF Load, Deploy, WaitHealthy, Preflight, Goto, ExecuteFails, ExecuteReturns, GetOrCached
    <2>2. pc'[w] \in Loaded => xsub'[w].results = r.results
      BY <1>1, <1>4, <1>5, <1>7, <1>9
         DEF Load, Deploy, WaitHealthy, Preflight, Goto, ExecuteFails, ExecuteReturns, GetOrCached
    <2>3. QED
      BY <2>1, <2>2
  <1>10. CASE PersistContainer(w)
    <2>1. pc[w] = "persist" /\ pc'[w] = "health" /\ UpdateOrLog(s, xsub[w]) /\ xsub' = xsub
      BY <1>4, <1>7, <1>10 DEF PersistContainer, Goto
    <2>2. q.results = r.results
      BY <1>2, <1>4, <1>5, <1>7, <2>1, WriteResults
    <2>3. QED
      BY <1>5, <2>1, <2>2
  <1>11. CASE WriteDryRun(w)
    <2>1. PICK d : d = (IF execErr[w] THEN "fail" ELSE "pass")
      OBVIOUS
    <2>2. PICK x : x = [xsub[w] EXCEPT !.dryRun = d]
      OBVIOUS
    <2>3. /\ pc[w] = "dryrun" /\ pc'[w] \in {"reject", "bench"} /\ UpdateOrLog(s, x)
          /\ xsub'[w] = x
      BY <1>4, <1>7, <1>11, <2>1, <2>2 DEF WriteDryRun, Goto
    <2>4. x \in Submission /\ x.results = r.results
      BY <1>4, <1>5, <2>1, <2>2, <2>3 DEF Submission
    <2>5. q.results = r.results
      BY <1>2, <1>7, <2>3, <2>4, WriteResults
    <2>6. QED
      BY <2>3, <2>4, <2>5
  <1>12. CASE MarkFailed(w)
    <2>1. PICK x : x = [xsub[w] EXCEPT !.status = "failed"]
      OBVIOUS
    <2>2. pc[w] = "reject" /\ pc'[w] = "stop" /\ UpdateOrLog(s, x)
      BY <1>4, <1>7, <1>12, <2>1 DEF MarkFailed, Goto, ExecuteReturns
    <2>3. x \in Submission /\ x.results = r.results
      BY <1>4, <1>5, <2>1, <2>2 DEF Submission, Statuses
    <2>4. q.results = r.results
      BY <1>2, <1>7, <2>2, <2>3, WriteResults
    <2>5. QED
      BY <2>2, <2>4
  <1>13. CASE SetBenchmarking(w)
    <2>1. PICK x : x = [xsub[w] EXCEPT !.status = "benchmarking"]
      OBVIOUS
    <2>2. pc[w] = "bench" /\ pc'[w] = "fleet" /\ UpdateOrLog(s, x) /\ xsub'[w] = x
      BY <1>4, <1>7, <1>13, <2>1 DEF SetBenchmarking, Goto
    <2>3. x \in Submission /\ x.results = r.results
      BY <1>4, <1>5, <2>1, <2>2 DEF Submission, Statuses
    <2>4. q.results = r.results
      BY <1>2, <1>7, <2>2, <2>3, WriteResults
    <2>5. QED
      BY <2>2, <2>3, <2>4
  <1>14. CASE RunFleet(w) \/ LoadForScore(w)
    <2>1. q = r /\ pc'[w] \notin {"claim", "outcome", "enqueue"}
      BY <1>1, <1>4, <1>7, <1>14 DEF RunFleet, LoadForScore, Goto, ExecuteReturns, GetOrCached
    <2>2. pc'[w] \in Loaded => xsub'[w].results = r.results
      BY <1>1, <1>4, <1>5, <1>7, <1>14
         DEF RunFleet, LoadForScore, Goto, ExecuteReturns, GetOrCached
    <2>3. QED
      BY <2>1, <2>2
  <1>15. CASE AppendResult(w)
    <2>1. pc[w] = "append" /\ j.label \in Profiles /\ xsub[w].results = r.results
      BY <1>2, <1>3, <1>5, <1>15 DEF AppendResult, Fits, Labels
    <2>2. PICK x : x = [xsub[w] EXCEPT !.results = Append(xsub[w].results, j.label)]
      OBVIOUS
    <2>3. x.results = Append(r.results, j.label)
      BY <1>4, <2>1, <2>2 DEF Submission
    <2>4. \/ q = x /\ xsub'[w] = x /\ pc'[w] \in {"score", "enqueue"}
          \/ q = r /\ pc'[w] = "stop"
      BY <1>2, <1>4, <1>7, <1>15, <2>2 DEF AppendResult, Goto, ExecuteReturns
    <2>5. j.label \in Range(Append(r.results, j.label))
      <3>1. r.results \in Seq(Profiles)
        BY <1>4 DEF Submission
      <3>2. /\ DOMAIN Append(r.results, j.label) = 1..(Len(r.results) + 1)
            /\ Append(r.results, j.label)[Len(r.results) + 1] = j.label
            /\ Len(r.results) \in Nat
        BY <3>1
      <3>3. QED
        BY <3>2 DEF Range
    <2>6. QED
      BY <2>1, <2>3, <2>4, <2>5
  <1>16. CASE WriteFinalScore(w)
    <2>1. PICK x : x = [xsub[w] EXCEPT !.final = Range(xsub[w].results)]
      OBVIOUS
    <2>2. pc[w] = "writescore" /\ pc'[w] = "stop" /\ UpdateOrLog(s, x)
      BY <1>4, <1>7, <1>16, <2>1 DEF WriteFinalScore, Goto, ExecuteReturns
    <2>3. x.results = r.results
      BY <1>4, <1>5, <2>1, <2>2, OtherFields
    <2>4. x \in Submission
      <3>1. Range(xsub[w].results) \subseteq Profiles
        BY <1>4 DEF Submission, Range
      <3>2. QED
        BY <1>4, <2>1, <3>1 DEF Submission
    <2>5. q.results = r.results
      BY <1>2, <1>7, <2>2, <2>3, <2>4, WriteResults
    <2>6. QED
      BY <2>2, <2>5
  <1>17. CASE StopContainer(w) \/ Reread(w) \/ EnqueueNext(w)
    <2>1. q = r /\ pc'[w] \notin Loaded \cup {"claim"}
      BY <1>1, <1>4, <1>7, <1>17
         DEF StopContainer, Reread, EnqueueNext, ProduceFails, Goto, ExecuteReturns
    <2>2. pc'[w] = "outcome" => psub'[w].results = r.results
      BY <1>1, <1>4, <1>7, <1>17
         DEF StopContainer, Reread, EnqueueNext, ProduceFails, Goto, ExecuteReturns
    <2>3. QED
      BY <2>1, <2>2
  <1>18. CASE WriteOutcome(w)
    <2>1. PICK x : x = Outcome(psub[w], j, execErr[w])
      OBVIOUS
    <2>2. pc[w] = "outcome" /\ pc'[w] = "commit" /\ UpdateOrLog(s, x)
      BY <1>4, <1>7, <1>18, <2>1 DEF WriteOutcome, Goto
    <2>3. x.results = psub[w].results
      BY <1>4, <2>1, OtherFields DEF Outcome
    <2>4. q.results = r.results
      BY <1>2, <1>4, <1>5, <1>7, <2>2, <2>3 DEF UpdateOrLog
    <2>5. QED
      BY <2>2, <2>4
  <1>19. QED
    BY <1>8, <1>9, <1>10, <1>11, <1>12, <1>13, <1>14, <1>15, <1>16, <1>17, <1>18
       DEF WorkerStep, Dequeue, Guard, Commit

\* Every step leaves the results of s as they were, adds the profile of a job
\* of s whose predecessor has a result, or saves a submission that has no job.
LEMMA ResultsKept ==
    ASSUME FaultKinds \cap ClobberingFaults = {}, TypeOK, ChainInv, FinalInv, ResultInv,
           [Next]_vars, NEW s \in Subs
    PROVE  /\ Ordered(store'[s].results)
           /\ \/ Range(store[s].results) \subseteq Range(store'[s].results)
              \/ log' = log /\ ingest[s] = "new"
  <1>1. CASE store'[s] = store[s]
    BY <1>1 DEF ResultInv
  <1>2. ASSUME NEW w \in Workers, WorkerStep(w) \/ Crash(w) \/ Restart(w), store'[s] # store[s]
        PROVE  /\ Ordered(store'[s].results)
               /\ Range(store[s].results) \subseteq Range(store'[s].results)
    <2>1. pc[w] \in Executing /\ WorkerStep(w) /\ s = JobOf(w).sub
      BY <1>2, WorkerWrites
    <2>2. \/ store'[s].results = store[s].results
          \/ /\ JobOf(w).label \in Profiles
             /\ store'[s].results = Append(store[s].results, JobOf(w).label)
      BY <2>1, ResultRun
    <2>3. Ordered(store[s].results) /\ store[s].results \in Seq(Profiles)
      BY DEF ResultInv, TypeOK, StoreType, Submission
    <2>4. Preceded(JobOf(w))
      BY <2>1, JobOfType DEF Busy, ResultInv, JobOf
    <2>5. CASE store'[s].results = store[s].results
      BY <2>3, <2>5
    <2>6. ASSUME NEW l \in Profiles, l = JobOf(w).label,
                 store'[s].results = Append(store[s].results, l)
          PROVE  /\ Ordered(store'[s].results)
                 /\ Range(store[s].results) \subseteq Range(store'[s].results)
      <3>1. /\ l = "medium" => "low" \in Range(store[s].results)
            /\ l = "high" => "medium" \in Range(store[s].results)
        BY <2>1, <2>4, <2>6 DEF Preceded, Has
      <3>2. /\ Ordered(Append(store[s].results, l))
            /\ Range(Append(store[s].results, l)) = Range(store[s].results) \cup {l}
        BY ONLY <2>3, <3>1, l \in Profiles, OrderedAppend
      <3>3. QED
        BY <2>6, <3>2
    <2>7. QED
      BY <2>2, <2>5, <2>6
  <1>3. ASSUME NEW x \in Subs, IngestStep(x) \/ IngestAborts(x), store'[s] # store[s]
        PROVE  Ordered(store'[s].results) /\ log' = log /\ ingest[s] = "new"
    <2>1. SaveSubmission(x)
      <3>1. ~IngestFailed(x)
        BY DEF IngestFailed, FinalInv, IngestInv
      <3>2. QED
        BY <1>3, <3>1 DEF IngestStep, EnqueueFirst, IngestAborts
    <2>2. s = x /\ store'[s] = [Blank EXCEPT !.status = "pending"]
      BY <1>3, <2>1 DEF SaveSubmission, TypeOK, StoreType
    <2>3. store'[s].results = <<>>
      BY <2>2 DEF Blank
    <2>4. QED
      BY <2>1, <2>2, <2>3 DEF Ordered, SaveSubmission, queueVars
  <1>4. store'[s] # store[s] =>
           \/ \E x \in Subs : IngestStep(x) \/ IngestAborts(x)
           \/ \E w \in Workers : WorkerStep(w) \/ Crash(w) \/ Restart(w)
    BY DEF Next, Rebalance, vars
  <1>5. QED
    BY <1>1, <1>2, <1>3, <1>4

\* Every job in the log has its predecessor's result.
LEMMA PrecededStep ==
    ASSUME FaultKinds \cap ClobberingFaults = {}, TypeOK, ChainInv, FinalInv, ResultInv,
           [Next]_vars, NEW p \in Partitions, NEW i \in 1..Len(log'[p])
    PROVE  Preceded(log[p][i])'
  <1>1. CASE i \in 1..Len(log[p])
    <2>1. log'[p][i] = log[p][i] /\ log[p][i] \in Job /\ Preceded(log[p][i])
      BY <1>1, LogKeeps DEF TypeOK, QueueType, ResultInv
    <2>2. log[p][i].sub \in Subs /\ ingest[log[p][i].sub] # "new"
      BY <1>1, <2>1 DEF Job, FinalInv, IngestInv
    <2>3. Range(store[log[p][i].sub].results) \subseteq Range(store'[log[p][i].sub].results)
      BY <2>2, ResultsKept
    <2>4. QED
      BY <2>1, <2>3 DEF Preceded, Has
  <1>2. CASE i \notin 1..Len(log[p])
    <2>1. ASSUME NEW j \in Job, Produce(j) PROVE log'[p][i] = j
      <3>1. log[p] \in Seq(Job) /\ Len(log[p]) \in Nat
        BY DEF TypeOK, QueueType
      <3>2. log'[p] = log[p] \/ log'[p] = Append(log[p], j)
        BY <2>1, PipelineAssumption DEF Produce, TypeOK, QueueType, Job
      <3>3. QED
        BY <1>2, <3>1, <3>2
    <2>2. CASE \E s \in Subs : Produce(FirstJob(s))
      <3>1. PICK s \in Subs : Produce(FirstJob(s))
        BY <2>2
      <3>2. log'[p][i] = FirstJob(s)
        BY <2>1, <3>1, FirstJobType
      <3>3. QED
        BY <3>2 DEF Preceded, FirstJob, NewJob, NewProfileJob
    <2>3. CASE \E w \in Workers : pc[w] = "enqueue" /\ Produce(NextJob(w))
      <3>1. PICK w \in Workers : pc[w] = "enqueue" /\ Produce(NextJob(w))
        BY <2>3
      <3>2. NextJob(w) \in Job /\ log'[p][i] = NextJob(w) /\ Busy(w)
        BY <2>1, <3>1, NextJobType DEF Busy, Executing
      <3>3. PICK j \in Job : j = JobOf(w)
        BY <3>2, JobOfType
      <3>4. ChainShape(j) /\ j.label # "single" /\ j.remaining # <<>>
        BY <3>1, <3>2, <3>3, JobOfType
           DEF ChainInv, JobOf, TypeOK, WorkerType, Fits, IsLastProfile
      <3>5. /\ j.label \in {"low", "medium"}
            /\ Head(j.remaining) = (IF j.label = "low" THEN "medium" ELSE "high")
        BY <3>3, <3>4 DEF ChainShape, Job, Labels, Profiles
      <3>6. j.label \in Range(store[j.sub].results)
        BY <3>1, <3>3 DEF ResultInv, SameResults
      <3>7. j.sub \in Subs /\ ingest[j.sub] # "new"
        BY <3>2, <3>3, NotYetHeld DEF Job, FinalInv
      <3>8. Range(store[j.sub].results) \subseteq Range(store'[j.sub].results)
        BY <3>7, ResultsKept
      <3>9. /\ log'[p][i].sub = j.sub
            /\ log'[p][i].label = (IF j.label = "low" THEN "medium" ELSE "high")
        BY <3>2, <3>3, <3>5 DEF NextJob, NewProfileJob
      <3>10. QED
        BY <3>5, <3>6, <3>8, <3>9 DEF Preceded, Has
    <2>4. CASE UNCHANGED log
      BY <1>2, <2>4
    <2>5. QED
      BY <2>2, <2>3, <2>4, LogSteps
  <1>3. QED
    BY <1>1, <1>2

\* A worker that stays where it is, with its record unchanged, keeps its copies.
LEMMA OthersResults ==
    ASSUME TypeOK, [Next]_vars, NEW v \in Workers, SameResults(v),
           pc'[v] = pc[v], at'[v] = at[v], xsub'[v] = xsub[v], psub'[v] = psub[v],
           Busy(v) => store'[JobOf(v).sub] = store[JobOf(v).sub]
    PROVE  SameResults(v)'
  <1>1. CASE pc[v] \notin Executing
    BY <1>1 DEF SameResults, Loaded, Active, Executing
  <1>2. CASE pc[v] \in Executing
    <2>1. Busy(v)
      BY <1>2 DEF Busy
    <2>2. JobOf(v)' = JobOf(v)
      BY <2>1, LogKeeps, JobOfType DEF JobOf
    <2>3. QED
      BY <2>1, <2>2 DEF SameResults
  <1>3. QED
    BY <1>1, <1>2

\* ResultInv is inductive, given the ownership of partitions and what FinalInv
\* says of Ingest.
LEMMA ResultStep ==
    ASSUME FaultKinds \cap ClobberingFaults = {}, TypeOK, ChainInv, OwnerInv, FinalInv,
           ResultInv, [Next]_vars
    PROVE  ResultInv'
  <1>1. ASSUME NEW v \in Workers, UNCHANGED workerVars,
               Busy(v) => store'[JobOf(v).sub] = store[JobOf(v).sub]
        PROVE  SameResults(v)'
    BY <1>1, OthersResults DEF ResultInv, workerVars
  <1>2. ASSUME NEW x \in Subs, IngestStep(x) \/ IngestAborts(x), NEW v \in Workers
        PROVE  SameResults(v)'
    <2>1. UNCHANGED workerVars
      BY <1>2 DEF IngestStep, SaveSubmission, EnqueueFirst, IngestFailed, IngestAborts
    <2>2. ~IngestFailed(x)
      BY DEF IngestFailed, FinalInv, IngestInv
    <2>3. SaveSubmission(x) => ingest[x] = "new" /\ \A s \in Subs : s # x => store'[s] = store[s]
      BY DEF SaveSubmission, TypeOK, StoreType
    <2>4. ~SaveSubmission(x) => store' = store
      BY <1>2, <2>2 DEF IngestStep, EnqueueFirst, IngestAborts
    <2>5. Busy(v) => store'[JobOf(v).sub] = store[JobOf(v).sub]
      BY <2>3, <2>4, NotYetHeld, JobOfType DEF FinalInv, Job
    <2>6. QED
      BY <1>1, <2>1, <2>5
  <1>3. ASSUME NEW w \in Workers, WorkerStep(w) \/ Crash(w) \/ Restart(w), NEW v \in Workers
        PROVE  SameResults(v)'
    <2>1. CASE v # w
      <3>1. Busy(v) => store'[JobOf(v).sub] = store[JobOf(v).sub]
        BY <1>3, <2>1, Footprint, BusyDisjoint, JobOfType DEF Job
      <3>2. QED
        BY <1>3, <2>1, <3>1, Footprint, OthersResults DEF ResultInv
    <2>2. CASE v = w /\ pc'[w] \notin Executing
      BY <2>2 DEF SameResults, Loaded, Active, Executing
    <2>3. CASE v = w /\ pc'[w] \in Executing
      <3>1. CASE Crash(w) \/ Restart(w) \/ Dequeue(w) \/ Commit(w)
        BY <2>3, <3>1 DEF Crash, Restart, Dequeue, Commit, Goto, Executing, TypeOK, WorkerType
      <3>2. CASE Guard(w)
        <4>1. /\ pc'[w] = "claim" /\ psub'[w] = store[JobOf(w).sub]
              /\ UNCHANGED <<at, log, store>>
          BY <2>3, <3>2 DEF Guard, Goto, Executing, queueVars, TypeOK, WorkerType, StoreType
        <4>2. QED
          BY <2>3, <4>1 DEF SameResults, JobOf, Loaded, Active
      <3>3. CASE pc[w] \in Executing /\ WorkerStep(w)
        BY <2>3, <3>3, ResultRun
      <3>4. QED
        BY <1>3, <3>1, <3>2, <3>3, WorkerKinds
    <2>4. QED
      BY <2>1, <2>2, <2>3
  <1>4. ASSUME NEW p \in Partitions, NEW w \in Workers, Rebalance(p, w), NEW v \in Workers
        PROVE  SameResults(v)'
    BY <1>1, <1>4 DEF Rebalance
  <1>5. ASSUME UNCHANGED vars, NEW v \in Workers PROVE SameResults(v)'
    BY <1>1, <1>5 DEF vars
  <1>6. \A v \in Workers : SameResults(v)'
    BY <1>2, <1>3, <1>4, <1>5 DEF Next
  <1>7. QED
    BY <1>6, ResultsKept, PrecededStep DEF ResultInv

\* Results whose profile's predecessor has none never appear, as long as
\* reads and enqueues work and no live worker loses a partition: a crash, a
\* failed write and a redelivered job do not disturb the order,
\* because appendProfileResult is the one write whose error ends the run.
THEOREM ResultsCorrect ==
    ASSUME FaultKinds \cap ClobberingFaults = {} PROVE Spec => []ResultsInOrder
  <1>1. Init => ResultInv
    BY DEF Init, ResultInv, SameResults, Loaded, Active, Executing, Ordered, Blank
  <1>2. "rebalance" \notin FaultKinds
    BY DEF ClobberingFaults
  <1>3. TypeOK /\ ChainInv /\ OwnerInv /\ FinalInv /\ ResultInv /\ [Next]_vars => ResultInv'
    BY ResultStep
  <1>4. Spec => []OwnerInv
    BY <1>2, OwnerHolds
  <1>5. Spec => []FinalInv
    BY FinalHolds
  <1>6. ResultInv => ResultsInOrder
    BY DEF ResultInv, Ordered, ResultsInOrder
  <1>7. QED
    BY <1>1, <1>3, <1>4, <1>5, <1>6, TypeCorrect, ChainHolds, PTL DEF Spec

-----------------------------------------------------------------------------
(* Containers: the inductive invariant *)

\* A run whose container is up has it to itself; this holds under live
\* rebalances too, when two workers execute one submission.
ContainerInv ==
    /\ NoOrphanContainer
    /\ \A w \in Workers : pc[w] \in ContainerUp => JobOf(w).sub \in containers
    /\ \A v, w \in Workers :
          v # w /\ pc[v] \in ContainerUp /\ pc[w] \in ContainerUp => JobOf(v).sub # JobOf(w).sub

\* Where the container comes and goes in a worker's step.
LEMMA ContainerSteps ==
    ASSUME "stop" \notin FaultKinds, TypeOK, NEW w \in Workers, WorkerStep(w)
    PROVE  \/ /\ pc[w] = "deploy" /\ pc'[w] \in ContainerUp /\ JobOf(w).sub \notin containers
              /\ containers' = containers \cup {JobOf(w).sub} /\ UNCHANGED <<at, log>>
           \/ /\ pc[w] = "stop" /\ pc'[w] \notin ContainerUp
              /\ containers' = containers \ {JobOf(w).sub} /\ UNCHANGED <<at, log>>
           \/ /\ containers' = containers
              /\ pc'[w] \in ContainerUp <=> pc[w] \in ContainerUp
  <1> USE DEF TypeOK, WorkerType
  <1>1. CASE Dequeue(w) \/ Guard(w) \/ Claim(w) \/ Load(w) \/ Reread(w) \/ WriteOutcome(w) \/ Commit(w)
    BY <1>1 DEF Dequeue, Guard, Claim, Load, Reread, WriteOutcome, Commit, Goto, ExecuteFails,
                ContainerUp
  <1>2. CASE Deploy(w)
    BY <1>2 DEF Deploy, Goto, ExecuteFails, ContainerUp, queueVars
  <1>3. CASE StopContainer(w)
    BY <1>3 DEF StopContainer, Goto, ContainerUp, queueVars, Fault
  <1>4. CASE \/ PersistContainer(w) \/ WaitHealthy(w) \/ Preflight(w) \/ WriteDryRun(w)
             \/ MarkFailed(w) \/ SetBenchmarking(w)
    BY <1>4 DEF PersistContainer, WaitHealthy, Preflight, WriteDryRun, MarkFailed,
                SetBenchmarking, Goto, ExecuteReturns, ContainerUp
  <1>5. CASE \/ RunFleet(w) \/ AppendResult(w) \/ EnqueueNext(w) \/ LoadForScore(w)
             \/ WriteFinalScore(w)
    BY <1>5 DEF RunFleet, AppendResult, EnqueueNext, LoadForScore, WriteFinalScore, Goto,
                ExecuteReturns, ContainerUp
  <1>6. QED
    BY <1>1, <1>2, <1>3, <1>4, <1>5 DEF WorkerStep

\* A worker with its container up is busy.
LEMMA UpIsBusy ==
    ASSUME NEW w \in Workers, pc[w] \in ContainerUp PROVE Busy(w) /\ pc[w] \in Executing
  BY DEF Busy, ContainerUp, Executing

\* ContainerInv is inductive.
LEMMA ContainerStep ==
    ASSUME FaultKinds \cap {"crash", "stop"} = {}, TypeOK, ContainerInv, [Next]_vars
    PROVE  ContainerInv'
  <1>0. ~Fault("crash")
    BY DEF Fault
  <1>1. ASSUME NEW v \in Workers, pc[v] \in ContainerUp, at'[v] = at[v] PROVE JobOf(v)' = JobOf(v)
    BY <1>1, UpIsBusy, JobOfType, LogKeeps DEF JobOf
  <1>2. ASSUME UNCHANGED <<pc, at, containers>> PROVE ContainerInv'
    BY <1>1, <1>2 DEF ContainerInv, NoOrphanContainer
  <1>3. ASSUME NEW w \in Workers, WorkerStep(w) PROVE ContainerInv'
    <2>1. \A v \in Workers \ {w} : pc'[v] = pc[v] /\ at'[v] = at[v]
      BY <1>3, Footprint
    <2>2. \A v \in Workers \ {w} : pc[v] \in ContainerUp => JobOf(v)' = JobOf(v)
      BY <1>1, <2>1
    <2>3. CASE /\ pc[w] = "deploy" /\ pc'[w] \in ContainerUp /\ JobOf(w).sub \notin containers
               /\ containers' = containers \cup {JobOf(w).sub} /\ UNCHANGED <<at, log>>
      <3>1. JobOf(w)' = JobOf(w) /\ pc[w] \notin ContainerUp
        BY <2>3 DEF JobOf, ContainerUp
      <3>2. QED
        BY <2>1, <2>2, <2>3, <3>1 DEF ContainerInv, NoOrphanContainer
    <2>4. CASE /\ pc[w] = "stop" /\ pc'[w] \notin ContainerUp
               /\ containers' = containers \ {JobOf(w).sub} /\ UNCHANGED <<at, log>>
      <3>1. pc[w] \in ContainerUp
        BY <2>4 DEF ContainerUp
      <3>2. QED
        BY <2>1, <2>2, <2>4, <3>1 DEF ContainerInv, NoOrphanContainer
    <2>5. CASE containers' = containers /\ (pc'[w] \in ContainerUp <=> pc[w] \in ContainerUp)
      <3>1. pc[w] \in ContainerUp => JobOf(w)' = JobOf(w)
        BY <1>3, KeepsJob, UpIsBusy
      <3>2. QED
        BY <2>1, <2>2, <2>5, <3>1 DEF ContainerInv, NoOrphanContainer
    <2>6. QED
      BY <1>3, <2>3, <2>4, <2>5, ContainerSteps
  <1>4. ASSUME NEW w \in Workers, Restart(w) PROVE ContainerInv'
    <2>1. /\ UNCHANGED <<at, containers>> /\ \A v \in Workers \ {w} : pc'[v] = pc[v]
          /\ pc[w] \notin ContainerUp /\ pc'[w] \notin ContainerUp
      BY <1>4 DEF Restart, Goto, ContainerUp, TypeOK, WorkerType
    <2>2. \A v \in Workers : pc[v] \in ContainerUp => JobOf(v)' = JobOf(v)
      BY <1>1, <2>1
    <2>3. QED
      BY <2>1, <2>2 DEF ContainerInv, NoOrphanContainer
  <1>5. ASSUME NEW s \in Subs, IngestStep(s) \/ IngestAborts(s) PROVE UNCHANGED <<pc, at, containers>>
    BY <1>5 DEF IngestStep, SaveSubmission, EnqueueFirst, IngestFailed, IngestAborts, workerVars
  <1>6. ASSUME NEW p \in Partitions, NEW w \in Workers, Rebalance(p, w)
        PROVE UNCHANGED <<pc, at, containers>>
    BY <1>6 DEF Rebalance, workerVars
  <1>7. ASSUME NEW w \in Workers, Crash(w) PROVE FALSE
    BY <1>0, <1>7 DEF Crash
  <1>8. CASE UNCHANGED vars
    BY <1>2, <1>8 DEF vars, workerVars
  <1>9. QED
    BY <1>2, <1>3, <1>4, <1>5, <1>6, <1>7, <1>8 DEF Next

\* While no worker dies and no Stop fails, a container exists only while some
\* worker is inside Execute for its submission: the deferred Stop runs on every
\* path, also when a live worker has lost its partition (Execute, Deploy).
THEOREM ContainersCorrect ==
    ASSUME FaultKinds \cap {"crash", "stop"} = {} PROVE Spec => []NoOrphanContainer
  <1>1. Init => ContainerInv
    BY DEF Init, ContainerInv, NoOrphanContainer, ContainerUp
  <1>2. TypeOK /\ ContainerInv /\ [Next]_vars => ContainerInv'
    BY ContainerStep
  <1>3. ContainerInv => NoOrphanContainer
    BY DEF ContainerInv
  <1>4. QED
    BY <1>1, <1>2, <1>3, TypeCorrect, PTL DEF Spec

-----------------------------------------------------------------------------
(* Jobs are lost in a fetch only: the inductive invariant *)

\* The faults that leave every job to somebody: a stop or an enqueue that fails.
HarmlessFaults == {"stop", "enqueue"}

\* A record of s is still to be fetched, or was the rest of a fetch.
Beyond(s) ==
    \/ \E p \in Partitions : \E i \in 1..Len(log[p]) : i > pos[p] /\ log[p][i].sub = s
    \/ Dropped(s)

\* The statuses of a submission while a run of it is under way: Ingest may
\* mark it failed at any time when its Enqueue was refused.
UnderWay == {"deploying", "benchmarking", "failed"}

\* What a busy worker leaves behind.
LeavesWork(w) ==
    LET j == JobOf(w) IN
    /\ pc[w] \in Loaded \cup {"load"} => store[j.sub].status \in UnderWay
    /\ pc[w] \in Loaded => xsub[w].status \in UnderWay
    /\ pc[w] \in {"score", "writescore"} => IsLastProfile(j)
    /\ pc[w] \in Leaving /\ ~execErr[w] /\ ~IsLastProfile(j) => Beyond(j.sub)
    /\ pc[w] = "commit" => IsTerminal(store[j.sub].status) \/ Beyond(j.sub)

\* A worker holds a job of s.
Held(s) == \E w \in Workers : Busy(w) /\ JobOf(w).sub = s

\* No job of s has been published.
Unpublished(s) == \A p \in Partitions : \A i \in 1..Len(log[p]) : log[p][i].sub # s

\* The record of a submission says who works on it.
StatusOK(s) ==
    /\ ingest[s] \in {"new", "saved"} => Unpublished(s)
    /\ store[s].status = "absent" => ingest[s] = "new"
    /\ store[s].status = "running" => s \in ContestSubs
    /\ store[s].status \in {"deploying", "benchmarking"} =>
          \E w \in Workers : pc[w] \in Executing \ {"claim"} /\ JobOf(w).sub = s
    /\ ingest[s] = "done" /\ ~IsTerminal(store[s].status) => Held(s) \/ Beyond(s)

WorkInv ==
    /\ \A w \in Workers : pc[w] # "down" /\ (Busy(w) => LeavesWork(w))
    /\ \A s \in Subs : StatusOK(s)
    /\ \A p \in Partitions : \A i \in 1..Len(log[p]) :
          log[p][i].label = "single" <=> log[p][i].sub \notin ContestSubs

-----------------------------------------------------------------------------
(* Jobs are lost in a fetch only: the steps *)

\* The faults that the harmless ones leave out.
LEMMA OnlyHarmless ==
    ASSUME FaultKinds \subseteq HarmlessFaults
    PROVE  ~Fault("get") /\ ~Fault("update") /\ ~Fault("abort") /\ ~Fault("crash")
           /\ ~Fault("rebalance")
  BY DEF Fault, HarmlessFaults

\* What is left of Next when no worker dies.
LEMMA LiveSteps ==
    ASSUME FaultKinds \subseteq HarmlessFaults, TypeOK, WorkInv, [Next]_vars
    PROVE  /\ owner' = owner /\ dropped \subseteq dropped'
           /\ \/ UNCHANGED vars
              \/ \E s \in Subs : IngestStep(s)
              \/ \E w \in Workers : WorkerStep(w)
  <1>1. ASSUME NEW w \in Workers PROVE ~Crash(w) /\ ~Restart(w)
    BY OnlyHarmless DEF Crash, Restart, WorkInv
  <1>2. ASSUME NEW p \in Partitions, NEW w \in Workers PROVE ~Rebalance(p, w)
    BY OnlyHarmless DEF Rebalance, WorkInv, TypeOK, QueueType
  <1>3. ASSUME NEW s \in Subs PROVE ~IngestAborts(s)
    BY OnlyHarmless DEF IngestAborts
  <1>4. ASSUME NEW s \in Subs, IngestStep(s) PROVE UNCHANGED <<owner, dropped>>
    BY <1>4 DEF IngestStep, SaveSubmission, EnqueueFirst, IngestFailed, queueVars
  <1>5. ASSUME NEW w \in Workers, WorkerStep(w) PROVE owner' = owner /\ dropped \subseteq dropped'
    <2>1. owner' = owner
      BY <1>5, Footprint
    <2>2. CASE Dequeue(w)
      BY <2>1, <2>2 DEF Dequeue
    <2>3. CASE ~Dequeue(w)
      BY <1>5, <2>1, <2>3 DEF WorkerStep, Guard, Claim, Load, Deploy, PersistContainer,
           WaitHealthy, Preflight, WriteDryRun, MarkFailed, SetBenchmarking, RunFleet,
           AppendResult, EnqueueNext, LoadForScore, WriteFinalScore, StopContainer, Reread,
           WriteOutcome, Commit, queueVars
    <2>4. QED
      BY <2>2, <2>3
  <1>6. UNCHANGED vars => UNCHANGED <<owner, dropped>>
    BY DEF vars, queueVars
  <1>7. QED
    BY <1>1, <1>2, <1>3, <1>4, <1>5, <1>6 DEF Next

\* Dequeue takes the next record of one partition of the worker, moves only
\* fetch positions of its own partitions, and drops what it passes over.
LEMMA Fetches ==
    ASSUME TypeOK, NEW w \in Workers, Dequeue(w)
    PROVE  \E p \in Partitions :
             /\ owner[p] = w /\ pos[p] + 1 \in 1..Len(log[p])
             /\ at' = [at EXCEPT ![w] = [part |-> p, off |-> pos[p] + 1]]
             /\ \A q \in Partitions : owner[q] # w => pos'[q] = pos[q]
             /\ \A q \in Partitions : \A i \in 1..Len(log[q]) :
                   /\ i > pos[q] /\ ~(i > pos'[q])
                   /\ [part |-> q, off |-> i] # [part |-> p, off |-> pos[p] + 1]
                   => [part |-> q, off |-> i] \in dropped'
  <1>1. PICK b \in Batches(w), p \in Partitions :
           /\ b[p] > 0 /\ at' = [at EXCEPT ![w] = [part |-> p, off |-> pos[p] + 1]]
           /\ pos' = [q \in Partitions |-> pos[q] + b[q]]
           /\ dropped' = dropped \cup (Fetched(b) \ {[part |-> p, off |-> pos[p] + 1]})
    BY DEF Dequeue
  <1>2. \A q \in Partitions : /\ b[q] \in Nat /\ b[q] <= Len(log[q]) - pos[q]
                              /\ b[q] > 0 => owner[q] = w
                              /\ pos[q] \in Nat /\ Len(log[q]) \in Nat
    <2>1. b \in [Partitions -> 0..MaxFetch] /\ 0..MaxFetch \subseteq Nat
      BY PipelineAssumption DEF Batches
    <2>2. QED
      BY <2>1 DEF Batches, TypeOK, QueueType
  <1>3. owner[p] = w /\ pos[p] + 1 \in 1..Len(log[p])
    BY <1>1, <1>2
  <1>4. \A q \in Partitions : pos'[q] = pos[q] + b[q] /\ (owner[q] # w => pos'[q] = pos[q])
    BY <1>1, <1>2
  <1>5. ASSUME NEW q \in Partitions, NEW i \in 1..Len(log[q]), i > pos[q], ~(i > pos'[q])
        PROVE  [part |-> q, off |-> i] \in Fetched(b)
    <2>1. i \in UNION {1..Len(log[u]) : u \in Partitions}
      OBVIOUS
    <2>2. pos[q] < i /\ i <= pos[q] + b[q]
      BY <1>2, <1>4, <1>5
    <2>3. QED
      BY <2>1, <2>2 DEF Fetched
  <1>6. QED
    BY <1>1, <1>3, <1>4, <1>5

\* The log only gets longer.
LEMMA LogLonger ==
    ASSUME TypeOK, [Next]_vars
    PROVE  \A p \in Partitions : Len(log[p]) \in Nat /\ Len(log'[p]) \in Nat
                                 /\ Len(log'[p]) >= Len(log[p])
  <1>0. \A p \in Partitions : Len(log[p]) \in Nat
    BY DEF TypeOK, QueueType
  <1>1. CASE UNCHANGED log
    BY <1>0, <1>1
  <1>2. ASSUME NEW j \in Job, Produce(j)
        PROVE  \A p \in Partitions : Len(log'[p]) \in Nat /\ Len(log'[p]) >= Len(log[p])
    BY <1>2, LogStable
  <1>3. QED
    BY <1>0, <1>1, <1>2, LogSteps, FirstJobType, NextJobType

\* What was dropped stays so.
LEMMA DroppedStays ==
    ASSUME FaultKinds \subseteq HarmlessFaults, TypeOK, WorkInv, [Next]_vars, NEW s \in Subs,
           Dropped(s)
    PROVE  Dropped(s)'
  <1>1. PICK r \in dropped : log[r.part][r.off].sub = s
    BY DEF Dropped
  <1>2. r.part \in Partitions /\ r.off \in 1..Len(log[r.part])
    <2>1. r \in [part : Partitions, off : Nat \ {0}] /\ r.off <= pos[r.part]
      BY DEF TypeOK, QueueType
    <2>2. pos[r.part] \in Nat /\ pos[r.part] <= Len(log[r.part]) /\ Len(log[r.part]) \in Nat
      BY <2>1 DEF TypeOK, QueueType
    <2>3. QED
      BY <2>1, <2>2
  <1>3. log'[r.part][r.off] = log[r.part][r.off]
    BY <1>2, LogKeeps
  <1>4. QED
    BY <1>1, <1>3, LiveSteps DEF Dropped

\* A record that is still to be fetched stays so while its partition's position
\* does not move.
LEMMA BeyondStays ==
    ASSUME FaultKinds \subseteq HarmlessFaults, TypeOK, ChainInv, WorkInv, [Next]_vars,
           NEW s \in Subs, Beyond(s), pos'[PartitionOf[s]] = pos[PartitionOf[s]]
    PROVE  Beyond(s)'
  <1> SUFFICES ASSUME ~Dropped(s) PROVE Beyond(s)'
    BY DroppedStays DEF Beyond
  <1>0. PICK p \in Partitions : \E i \in 1..Len(log[p]) : i > pos[p] /\ log[p][i].sub = s
    BY DEF Beyond
  <1>1. PICK i \in 1..Len(log[p]) : i > pos[p] /\ log[p][i].sub = s
    BY <1>0
  <1>2. p = PartitionOf[s]
    BY <1>1 DEF ChainInv, ChainOrdered
  <1>3. i \in 1..Len(log'[p]) /\ log'[p][i] = log[p][i]
    BY LogKeeps, LogLonger
  <1>4. i > pos'[p] /\ log'[p][i].sub = s
    BY <1>1, <1>2, <1>3
  <1>5. QED
    BY <1>3, <1>4 DEF Beyond

\* A job that is produced is still to be fetched.
LEMMA ProducedIsBeyond ==
    ASSUME TypeOK, NEW j \in Job, Produce(j), pos' = pos
    PROVE  Beyond(j.sub)'
  <1> DEFINE p == PartitionOf[j.sub]
  <1>1. p \in Partitions
    BY PipelineAssumption DEF Job
  <1>2. log[p] \in Seq(Job) /\ pos[p] \in Nat /\ pos[p] <= Len(log[p]) /\ Len(log[p]) \in Nat
    BY <1>1 DEF TypeOK, QueueType
  <1>3. log'[p] = Append(log[p], j)
    BY <1>1 DEF Produce, TypeOK, QueueType
  <1>4. /\ Len(log'[p]) = Len(log[p]) + 1 /\ log'[p][Len(log[p]) + 1] = j
    BY <1>2, <1>3
  <1> HIDE DEF p
  <1>5. Len(log[p]) + 1 \in 1..Len(log'[p]) /\ Len(log[p]) + 1 > pos'[p]
    BY <1>2, <1>4
  <1>6. QED
    BY <1>1, <1>4, <1>5 DEF Beyond

\* The labels of the jobs: only a single run is outside a contest.
LEMMA LabelStep ==
    ASSUME TypeOK, ChainInv, WorkInv, [Next]_vars,
           NEW p \in Partitions, NEW i \in 1..Len(log'[p])
    PROVE  log'[p][i].label = "single" <=> log'[p][i].sub \notin ContestSubs
  <1>1. CASE i \in 1..Len(log[p])
    BY <1>1, LogKeeps DEF WorkInv
  <1>2. CASE i \notin 1..Len(log[p])
    <2>1. ASSUME NEW j \in Job, Produce(j) PROVE log'[p][i] = j
      <3>1. log[p] \in Seq(Job) /\ Len(log[p]) \in Nat
        BY DEF TypeOK, QueueType
      <3>2. log'[p] = log[p] \/ log'[p] = Append(log[p], j)
        BY <2>1, PipelineAssumption DEF Produce, TypeOK, QueueType, Job
      <3>3. QED
        BY <1>2, <3>1, <3>2
    <2>2. ASSUME NEW s \in Subs, Produce(FirstJob(s))
          PROVE  log'[p][i].label = "single" <=> log'[p][i].sub \notin ContestSubs
      <3>1. log'[p][i] = FirstJob(s)
        BY <2>1, <2>2, FirstJobType
      <3>2. QED
        BY <3>1 DEF FirstJob, NewJob, NewProfileJob
    <2>3. ASSUME NEW w \in Workers, pc[w] = "enqueue", Produce(NextJob(w))
          PROVE  log'[p][i].label = "single" <=> log'[p][i].sub \notin ContestSubs
      <3>1. NextJob(w) \in Job /\ log'[p][i] = NextJob(w) /\ Busy(w)
        BY <2>1, <2>3, NextJobType DEF Busy, Executing
      <3>2. JobOf(w) \in Job /\ JobOf(w).label # "single" /\ JobOf(w).sub \in ContestSubs
        BY <2>3, <3>1, JobOfType DEF WorkInv, JobOf, TypeOK, WorkerType, Fits
      <3>3. JobOf(w).remaining \in Seq(Profiles) /\ JobOf(w).remaining # <<>>
        BY <2>3, <3>1, <3>2 DEF Job, TypeOK, WorkerType, Fits, IsLastProfile
      <3>4. Head(JobOf(w).remaining) \in Profiles
        BY <3>3
      <3>5. log'[p][i].label \in Profiles /\ log'[p][i].sub \in ContestSubs
        BY <3>1, <3>2, <3>4 DEF NextJob, NewProfileJob
      <3>6. QED
        BY <3>5 DEF Profiles
    <2>4. CASE UNCHANGED log
      BY <1>2, <2>4
    <2>5. QED
      BY <2>2, <2>3, <2>4, LogSteps
  <1>3. QED
    BY <1>1, <1>2

\* The job of a busy worker is in the log, so Ingest has published it.
LEMMA HeldIsPublished ==
    ASSUME TypeOK, WorkInv, NEW w \in Workers, Busy(w)
    PROVE  /\ JobOf(w) \in Job /\ JobOf(w).sub \in Subs
           /\ ingest[JobOf(w).sub] \notin {"new", "saved"}
           /\ store[JobOf(w).sub].status # "absent"
           /\ JobOf(w).label = "single" <=> JobOf(w).sub \notin ContestSubs
  <1>1. JobOf(w) \in Job /\ JobOf(w).sub \in Subs
    BY JobOfType DEF Job
  <1>2. StatusOK(JobOf(w).sub)
    BY <1>1 DEF WorkInv
  <1>3. ingest[JobOf(w).sub] \notin {"new", "saved"}
    BY <1>2, JobOfType DEF StatusOK, Unpublished, JobOf
  <1>4. JobOf(w).label = "single" <=> JobOf(w).sub \notin ContestSubs
    BY JobOfType DEF WorkInv, JobOf
  <1>5. QED
    BY <1>1, <1>2, <1>3, <1>4 DEF StatusOK

\* The guard skips a job only of a submission that is settled: nobody else is
\* executing it.
LEMMA SkipsSettled ==
    ASSUME TypeOK, ChainInv, OwnerInv, WorkInv, NEW w \in Workers, pc[w] = "guard",
           store[JobOf(w).sub].status \notin Admitted(JobOf(w).label)
    PROVE  IsTerminal(store[JobOf(w).sub].status)
  <1>1. Busy(w)
    BY DEF Busy
  <1>2. PICK s \in Subs : s = JobOf(w).sub
    BY <1>1, HeldIsPublished
  <1>3. store[s].status \in Statuses /\ StatusOK(s)
    BY DEF TypeOK, StoreType, Submission, WorkInv
  <1>4. store[s].status \notin {"deploying", "benchmarking"}
    <2>1. ASSUME NEW v \in Workers, pc[v] \in Executing \ {"claim"}, JobOf(v).sub = s PROVE FALSE
      <3>1. v # w /\ Busy(v)
        BY <2>1 DEF Busy, Executing
      <3>2. QED
        BY <1>1, <1>2, <2>1, <3>1, BusyDisjoint
    <2>2. QED
      BY <1>3, <2>1 DEF StatusOK
  <1>5. store[s].status # "absent"
    BY <1>1, <1>2, HeldIsPublished
  <1>6. store[s].status = "running" => JobOf(w).label # "single"
    BY <1>1, <1>2, <1>3, HeldIsPublished DEF StatusOK
  <1>7. QED
    BY <1>2, <1>3, <1>4, <1>5, <1>6 DEF Statuses, Admitted, IsTerminal

\* The step of a run, for the work it leaves behind and for the status of its
\* submission.
LEMMA RunWork ==
    ASSUME FaultKinds \subseteq HarmlessFaults, TypeOK, ChainInv, WorkInv, [Next]_vars,
           NEW w \in Workers, pc[w] \in Executing, WorkerStep(w)
    PROVE  /\ Busy(w)' /\ LeavesWork(w)'
           /\ store'[JobOf(w).sub].status # "absent"
           /\ store'[JobOf(w).sub].status = "running" => JobOf(w).sub \in ContestSubs
           /\ store'[JobOf(w).sub].status \in {"deploying", "benchmarking"} =>
                 pc[w] = "claim" \/ pc'[w] \in Executing \ {"claim"}
  <1> DEFINE j == JobOf(w)
             s == j.sub
             r == store[s]
             q == store'[s]
             B == Beyond(s)
             B1 == Beyond(s)'
  <1>1. ~Fault("get") /\ ~Fault("update")
    BY OnlyHarmless
  <1>2. JobOf(w)' = JobOf(w) /\ Busy(w) /\ j \in Job /\ at'[w] = at[w]
    BY KeepsJob
  <1>3. s \in Subs /\ r.status # "absent" /\ (j.label = "single" <=> s \notin ContestSubs)
        /\ (r.status = "running" => s \in ContestSubs)
    BY <1>2, HeldIsPublished DEF WorkInv, StatusOK
  <1>4. ChainShape(j) /\ Fits(pc[w], j)
    BY <1>2, JobOfType DEF ChainInv, JobOf, TypeOK, WorkerType
  <1>5. pos' = pos
    BY DEF Executing, WorkerStep, Dequeue, Guard, Claim, Load, Deploy, PersistContainer,
           WaitHealthy, Preflight, WriteDryRun, MarkFailed, SetBenchmarking, RunFleet,
           AppendResult, EnqueueNext, LoadForScore, WriteFinalScore, StopContainer,
           Reread, WriteOutcome, Commit, queueVars
  <1>6. PICK c \in Subs : c = s
    BY <1>3
  <1>7. (B <=> Beyond(c)) /\ (B1 <=> Beyond(c)')
    BY <1>6, <1>2 DEF Beyond, Dropped
  <1>8. B => B1
    BY <1>7, <1>5, BeyondStays
  <1>9. LeavesWork(w)
    BY <1>2 DEF WorkInv
  <1>10. /\ pc[w] \in Loaded \cup {"load"} => r.status \in UnderWay
         /\ pc[w] \in Loaded => xsub[w].status \in UnderWay
         /\ pc[w] \in {"score", "writescore"} => IsLastProfile(j)
         /\ pc[w] \in Leaving /\ ~execErr[w] /\ ~IsLastProfile(j) => B
    BY <1>9 DEF LeavesWork
  <1>11. ASSUME /\ pc'[w] \in Loaded \cup {"load"} => q.status \in UnderWay
                /\ pc'[w] \in Loaded => xsub'[w].status \in UnderWay
                /\ pc'[w] \in {"score", "writescore"} => IsLastProfile(j)
                /\ pc'[w] \in Leaving /\ ~execErr'[w] /\ ~IsLastProfile(j) => B1
                /\ pc'[w] = "commit" => IsTerminal(q.status) \/ B1
         PROVE  LeavesWork(w)'
    BY <1>2, <1>5, <1>10, <1>11 DEF LeavesWork
  <1>12. /\ xsub[w] \in Submission /\ psub[w] \in Submission /\ r \in Submission
         /\ store \in [Subs -> Submission] /\ xsub \in [Workers -> Submission]
         /\ psub \in [Workers -> Submission] /\ execErr \in [Workers -> BOOLEAN]
         /\ pc \in [Workers -> Executing \cup {"poll", "guard", "commit", "down"}]
    BY <1>3 DEF TypeOK, StoreType, WorkerType
  <1>13. s = JobOf(w).sub /\ r = store[s] /\ q = store'[s] /\ j = JobOf(w)
    OBVIOUS
  <1>14. Busy(w)' <=> pc'[w] \in Executing \cup {"guard", "commit"}
    BY DEF Busy
  <1> SUFFICES /\ pc'[w] \in Executing \cup {"guard", "commit"}
               /\ pc'[w] \in Loaded \cup {"load"} => q.status \in UnderWay
               /\ pc'[w] \in Loaded => xsub'[w].status \in UnderWay
               /\ pc'[w] \in {"score", "writescore"} => IsLastProfile(j)
               /\ pc'[w] \in Leaving /\ ~execErr'[w] /\ ~IsLastProfile(j) => B1
               /\ pc'[w] = "commit" => IsTerminal(q.status) \/ B1
               /\ q.status # "absent"
               /\ q.status = "running" => s \in ContestSubs
               /\ q.status \in {"deploying", "benchmarking"} =>
                     pc[w] = "claim" \/ pc'[w] \in Executing \ {"claim"}
    BY <1>11, <1>14
  <1> HIDE DEF j, s, r, q, B, B1
  <1> USE <1>1, <1>3, <1>8, <1>10, <1>12, <1>13
      DEF Loaded, Active, Leaving, Executing, UnderWay, Goto
  <1>15. CASE Claim(w)
    BY <1>15 DEF Claim, UpdateOrLog, Submission
  <1>16. CASE Load(w)
    BY <1>16 DEF Load, ExecuteFails
  <1>17. CASE Deploy(w)
    BY <1>17 DEF Deploy, ExecuteFails
  <1>18. CASE PersistContainer(w)
    BY <1>18 DEF PersistContainer, UpdateOrLog
  <1>19. CASE WaitHealthy(w)
    BY <1>19 DEF WaitHealthy, ExecuteReturns
  <1>20. CASE Preflight(w)
    BY <1>20 DEF Preflight, GetOrCached
  <1>21. CASE WriteDryRun(w)
    BY <1>21 DEF WriteDryRun, UpdateOrLog, Submission
  <1>22. CASE MarkFailed(w)
    BY <1>22 DEF MarkFailed, ExecuteReturns, UpdateOrLog, Submission
  <1>23. CASE SetBenchmarking(w)
    BY <1>23 DEF SetBenchmarking, UpdateOrLog, Submission
  <1>24. CASE RunFleet(w)
    BY <1>24, <1>4 DEF RunFleet, GetOrCached, ExecuteReturns, IsLastProfile, ChainShape
  <1>25. CASE AppendResult(w)
    BY <1>25 DEF AppendResult, ExecuteReturns, Submission
  <1>26. CASE LoadForScore(w)
    BY <1>26 DEF LoadForScore, ExecuteReturns
  <1>27. CASE WriteFinalScore(w)
    BY <1>27 DEF WriteFinalScore, ExecuteReturns, UpdateOrLog, Submission
  <1>28. CASE StopContainer(w)
    BY <1>28 DEF StopContainer
  <1>29. CASE Reread(w)
    BY <1>29 DEF Reread
  <1>30. CASE WriteOutcome(w)
    <2>1. pc[w] = "outcome" /\ q = Outcome(psub[w], j, execErr[w]) /\ pc'[w] = "commit"
      BY <1>30 DEF WriteOutcome, UpdateOrLog
    <2>2. /\ execErr[w] => q.status = "failed"
          /\ ~execErr[w] /\ ~IsLastProfile(j) => q.status = "running"
          /\ ~execErr[w] /\ IsLastProfile(j) => q.status = "completed"
      BY <2>1 DEF Outcome, Submission
    <2>3. ~IsLastProfile(j) => s \in ContestSubs
      BY <1>4 DEF IsLastProfile, ChainShape
    <2>4. QED
      BY <2>1, <2>2, <2>3 DEF IsTerminal
  <1>31. CASE EnqueueNext(w)
    <2>1. pc[w] = "enqueue" /\ q = r /\ UNCHANGED xsub
      BY <1>31 DEF EnqueueNext
    <2>2. CASE pc'[w] = "stop" /\ Produce(NextJob(w))
      <3>1. PICK k \in Job : k = NextJob(w)
        BY <2>1, NextJobType
      <3>2. k.sub = c
        BY <1>6, <3>1 DEF NextJob, NewProfileJob
      <3>3. Beyond(k.sub)'
        BY <1>5, <2>2, <3>1, ProducedIsBeyond
      <3>4. B1
        BY <1>7, <3>2, <3>3
      <3>5. QED
        BY <2>1, <2>2, <3>4
    <2>3. CASE pc'[w] = "reject"
      BY <2>1, <2>3
    <2>4. QED
      BY <1>31, <2>2, <2>3 DEF EnqueueNext, ExecuteReturns, NextJob
  <1>32. QED
    BY <1>15, <1>16, <1>17, <1>18, <1>19, <1>20, <1>21, <1>22, <1>23, <1>24, <1>25, <1>26, <1>27, <1>28, <1>29, <1>30, <1>31 DEF WorkerStep, Dequeue, Guard, Commit

\* A worker that stays where it is keeps its job and what it leaves behind.
LEMMA OthersWork ==
    ASSUME FaultKinds \subseteq HarmlessFaults, TypeOK, ChainInv, WorkInv, [Next]_vars, NEW v \in Workers, Busy(v),
           pc'[v] = pc[v], at'[v] = at[v], xsub'[v] = xsub[v], execErr'[v] = execErr[v],
           pos'[at[v].part] = pos[at[v].part],
           \/ store'[JobOf(v).sub] = store[JobOf(v).sub]
           \/ store'[JobOf(v).sub].status = "failed"
    PROVE  LeavesWork(v)'
  <1>1. JobOf(v)' = JobOf(v) /\ JobOf(v) \in Job
    BY LogKeeps, JobOfType DEF JobOf
  <1>2. PICK s \in Subs : s = JobOf(v).sub
    BY <1>1 DEF Job
  <1>3. PartitionOf[s] = at[v].part
    BY <1>2, JobOfType DEF ChainInv, ChainOrdered, JobOf
  <1>4. Beyond(s) => Beyond(s)'
    BY <1>3, BeyondStays
  <1>5. (Beyond(JobOf(v).sub) <=> Beyond(s)) /\ (Beyond(JobOf(v).sub)' <=> Beyond(s)')
    BY <1>1, <1>2 DEF Beyond, Dropped
  <1>6. LeavesWork(v)
    BY DEF WorkInv
  <1>7. QED
    BY <1>1, <1>2, <1>4, <1>5, <1>6 DEF LeavesWork, UnderWay, IsTerminal

\* The record of a submission stays explained when its executors go on and its
\* job is neither dropped nor passed over.
LEMMA StatusKept ==
    ASSUME TypeOK, [Next]_vars, NEW s \in Subs, StatusOK(s),
           store'[s] = store[s], ingest'[s] = ingest[s],
           ingest[s] \in {"new", "saved"} => Unpublished(s)',
           \A v \in Workers : pc[v] \in Executing \ {"claim"} /\ JobOf(v).sub = s =>
               pc'[v] \in Executing \ {"claim"} /\ at'[v] = at[v],
           ~IsTerminal(store[s].status) /\ (Held(s) \/ Beyond(s)) => Held(s)' \/ Beyond(s)'
    PROVE  StatusOK(s)'
  <1>1. ASSUME NEW v \in Workers, pc[v] \in Executing \ {"claim"}, JobOf(v).sub = s
        PROVE  pc'[v] \in Executing \ {"claim"} /\ JobOf(v)'.sub = s
    <2>1. Busy(v)
      BY <1>1 DEF Busy
    <2>2. at'[v] = at[v] /\ pc'[v] \in Executing \ {"claim"}
      BY <1>1
    <2>3. JobOf(v)' = JobOf(v)
      BY <2>1, <2>2, LogKeeps, JobOfType DEF JobOf
    <2>4. QED
      BY <1>1, <2>2, <2>3
  <1>2. QED
    BY <1>1 DEF StatusOK

\* A record of another submission does not publish s.
LEMMA ProduceOther ==
    ASSUME TypeOK, NEW s \in Subs, Unpublished(s), NEW j \in Job, Produce(j), j.sub # s
    PROVE  Unpublished(s)'
  <1> SUFFICES ASSUME NEW p \in Partitions, NEW i \in 1..Len(log'[p]) PROVE log'[p][i].sub # s
    BY DEF Unpublished
  <1>1. log[p] \in Seq(Job) /\ Len(log[p]) \in Nat
    BY DEF TypeOK, QueueType
  <1>2. log'[p] = log[p] \/ log'[p] = Append(log[p], j)
    BY PipelineAssumption DEF Produce, TypeOK, QueueType, Job
  <1>3. log'[p][i] = j \/ (i \in 1..Len(log[p]) /\ log'[p][i] = log[p][i])
    BY <1>1, <1>2
  <1>4. QED
    BY <1>3 DEF Unpublished

\* A worker that stays busy with its record goes on holding its submission.
LEMMA HeldStays ==
    ASSUME TypeOK, [Next]_vars, NEW v \in Workers, NEW s \in Subs, Busy(v),
           JobOf(v).sub = s, Busy(v)', at'[v] = at[v]
    PROVE  Held(s)'
  <1>1. JobOf(v)' = JobOf(v)
    BY LogKeeps, JobOfType DEF JobOf
  <1>2. QED
    BY <1>1 DEF Held

\* The steps of Ingest.
LEMMA IngestWork ==
    ASSUME FaultKinds \subseteq HarmlessFaults, TypeOK, ChainInv, WorkInv, [Next]_vars,
           NEW x \in Subs, IngestStep(x)
    PROVE  /\ \A v \in Workers : pc'[v] # "down" /\ (Busy(v)' => LeavesWork(v)')
           /\ \A s \in Subs : StatusOK(s)'
  <1>1. UNCHANGED <<pc, at, psub, xsub, execErr, pos, owner>>
    BY DEF IngestStep, SaveSubmission, EnqueueFirst, IngestFailed, workerVars, queueVars
  <1>2. \A v \in Workers : Busy(v)' <=> Busy(v)
    BY <1>1 DEF Busy
  <1>3. ASSUME NEW s \in Subs, Beyond(s) PROVE Beyond(s)'
    BY <1>1, <1>3, BeyondStays
  <1>4. ASSUME NEW s \in Subs, Held(s) PROVE Held(s)'
    BY <1>1, <1>2, <1>4, HeldStays DEF Held
  <1>5. ASSUME NEW s \in Subs, store'[s] = store[s], ingest'[s] = ingest[s],
               ingest[s] \in {"new", "saved"} => Unpublished(s)'
        PROVE  StatusOK(s)'
    BY <1>1, <1>3, <1>4, <1>5, StatusKept DEF WorkInv
  <1>6. ASSUME \A v \in Workers : Busy(v) => \/ store'[JobOf(v).sub] = store[JobOf(v).sub]
                                             \/ store'[JobOf(v).sub].status = "failed"
        PROVE  \A v \in Workers : pc'[v] # "down" /\ (Busy(v)' => LeavesWork(v)')
    BY <1>1, <1>2, <1>6, OthersWork DEF WorkInv
  <1>7. StatusOK(x)
    BY DEF WorkInv
  <1>8. store \in [Subs -> Submission] /\ ingest \in [Subs -> {"new", "saved", "failing", "done"}]
    BY DEF TypeOK, StoreType
  <1>9. CASE SaveSubmission(x)
    <2>1. /\ ingest[x] = "new" /\ ingest'[x] = "saved" /\ store'[x].status = "pending"
          /\ log' = log /\ \A s \in Subs \ {x} : store'[s] = store[s] /\ ingest'[s] = ingest[s]
      BY <1>8, <1>9 DEF SaveSubmission, queueVars, Blank
    <2>2. \A s \in Subs : Unpublished(s) => Unpublished(s)'
      BY <2>1 DEF Unpublished
    <2>3. StatusOK(x)'
      BY <1>7, <2>1, <2>2 DEF StatusOK
    <2>4. ASSUME NEW s \in Subs \ {x} PROVE StatusOK(s)'
      BY <1>5, <2>1, <2>2 DEF WorkInv, StatusOK
    <2>5. \A v \in Workers : Busy(v) => JobOf(v).sub \in Subs \ {x}
      BY <2>1, HeldIsPublished
    <2>6. QED
      BY <1>6, <2>1, <2>3, <2>4, <2>5
  <1>10. CASE EnqueueFirst(x)
    <2>1. /\ ingest[x] = "saved" /\ store' = store
          /\ \A s \in Subs \ {x} : ingest'[s] = ingest[s]
          /\ \/ Produce(FirstJob(x)) /\ ingest'[x] = "done"
             \/ ingest'[x] = "failing" /\ (Produce(FirstJob(x)) \/ log' = log)
      BY <1>8, <1>10 DEF EnqueueFirst, ProduceFails
    <2>2. PICK j \in Job : j = FirstJob(x)
      BY FirstJobType
    <2>3. j.sub = x
      BY <2>2 DEF FirstJob, NewJob, NewProfileJob
    <2>4. ASSUME NEW s \in Subs \ {x}, Unpublished(s) PROVE Unpublished(s)'
      <3>1. CASE log' = log
        BY <2>4, <3>1 DEF Unpublished
      <3>2. CASE Produce(j)
        BY <2>3, <2>4, <3>2, ProduceOther
      <3>3. QED
        BY <2>1, <2>2, <3>1, <3>2
    <2>5. ASSUME NEW s \in Subs \ {x} PROVE StatusOK(s)'
      BY <1>5, <2>1, <2>4 DEF WorkInv, StatusOK
    <2>6. Produce(j) => Beyond(x)'
      BY <1>1, <2>3, ProducedIsBeyond
    <2>7. store[x].status \notin {"absent", "deploying", "benchmarking"}
      <3>1. ASSUME NEW v \in Workers, pc[v] \in Executing \ {"claim"}, JobOf(v).sub = x PROVE FALSE
        BY <2>1, <3>1, HeldIsPublished DEF Busy
      <3>2. QED
        BY <1>7, <2>1, <3>1 DEF StatusOK
    <2>8. StatusOK(x)'
      BY <1>7, <2>1, <2>2, <2>6, <2>7 DEF StatusOK
    <2>9. QED
      BY <1>6, <2>1, <2>5, <2>8
  <1>11. CASE IngestFailed(x)
    <2>1. /\ ingest'[x] = "done" /\ store'[x].status = "failed" /\ log' = log
          /\ \A s \in Subs \ {x} : store'[s] = store[s] /\ ingest'[s] = ingest[s]
      BY <1>8, <1>11, OnlyHarmless DEF IngestFailed, UpdateOrLog, queueVars, Blank
    <2>2. StatusOK(x)'
      BY <2>1 DEF StatusOK, IsTerminal
    <2>3. \A s \in Subs : Unpublished(s) => Unpublished(s)'
      BY <2>1 DEF Unpublished
    <2>4. ASSUME NEW s \in Subs \ {x} PROVE StatusOK(s)'
      BY <1>5, <2>1, <2>3 DEF WorkInv, StatusOK
    <2>5. \A v \in Workers : Busy(v) => JobOf(v).sub \in Subs
      BY HeldIsPublished
    <2>6. QED
      BY <1>6, <2>1, <2>2, <2>4, <2>5
  <1>12. QED
    BY <1>9, <1>10, <1>11 DEF IngestStep

\* The other workers, when w takes a step.
LEMMA OthersLeave ==
    ASSUME FaultKinds \subseteq HarmlessFaults, TypeOK, ChainInv, OwnerInv, WorkInv, [Next]_vars,
           NEW w \in Workers, WorkerStep(w), NEW v \in Workers \ {w}
    PROVE  pc'[v] # "down" /\ (Busy(v)' => LeavesWork(v)')
  <1>1. /\ pc'[v] = pc[v] /\ at'[v] = at[v] /\ xsub'[v] = xsub[v] /\ execErr'[v] = execErr[v]
        /\ Busy(v)' <=> Busy(v)
    BY Footprint DEF Busy
  <1>2. ASSUME Busy(v) PROVE store'[JobOf(v).sub] = store[JobOf(v).sub]
    BY <1>2, Footprint, BusyDisjoint, JobOfType DEF Job
  <1>3. ASSUME Busy(v) PROVE pos'[at[v].part] = pos[at[v].part]
    <2>1. at[v].part \in Partitions /\ owner[at[v].part] = v
      BY <1>3, JobOfType DEF OwnerInv
    <2>2. CASE Dequeue(w)
      <3>1. \A q \in Partitions : owner[q] # w => pos'[q] = pos[q]
        BY <2>2, Fetches
      <3>2. QED
        BY <2>1, <3>1
    <2>3. CASE ~Dequeue(w)
      BY <2>3 DEF WorkerStep, Guard, Claim, Load, Deploy, PersistContainer, WaitHealthy,
           Preflight, WriteDryRun, MarkFailed, SetBenchmarking, RunFleet, AppendResult,
           EnqueueNext, LoadForScore, WriteFinalScore, StopContainer, Reread,
           WriteOutcome, Commit, queueVars
    <2>4. QED
      BY <2>2, <2>3
  <1>4. QED
    BY <1>1, <1>2, <1>3, OthersWork DEF WorkInv

\* A step of a run keeps the records explained.
LEMMA RunStatus ==
    ASSUME FaultKinds \subseteq HarmlessFaults, TypeOK, ChainInv, OwnerInv, WorkInv, [Next]_vars,
           NEW w \in Workers, pc[w] \in Executing, WorkerStep(w), NEW s \in Subs
    PROVE  StatusOK(s)'
  <1>1. /\ ingest' = ingest
        /\ \A v \in Workers \ {w} : pc'[v] = pc[v] /\ at'[v] = at[v]
        /\ s # JobOf(w).sub => store'[s] = store[s]
    BY Footprint
  <1>2. Busy(w) /\ JobOf(w)' = JobOf(w) /\ at'[w] = at[w] /\ Busy(w)'
    BY KeepsJob, RunWork
  <1>3. StatusOK(s)
    BY DEF WorkInv
  <1>4. CASE s = JobOf(w).sub
    <2>1. /\ store'[s].status # "absent"
          /\ store'[s].status = "running" => s \in ContestSubs
          /\ store'[s].status \in {"deploying", "benchmarking"} =>
                pc[w] = "claim" \/ pc'[w] \in Executing \ {"claim"}
      BY <1>4, RunWork
    <2>2. pc[w] = "claim" => pc'[w] = "load"
      BY DEF WorkerStep, Dequeue, Guard, Claim, Load, Deploy, PersistContainer, WaitHealthy,
             Preflight, WriteDryRun, MarkFailed, SetBenchmarking, RunFleet, AppendResult,
             EnqueueNext, LoadForScore, WriteFinalScore, StopContainer, Reread,
             WriteOutcome, Commit, Goto, TypeOK, WorkerType
    <2>3. ingest'[s] \notin {"new", "saved"}
      BY <1>1, <1>2, <1>4, HeldIsPublished
    <2>4. Held(s)' /\ JobOf(w)'.sub = s
      BY <1>2, <1>4 DEF Held
    <2>5. QED
      BY <2>1, <2>2, <2>3, <2>4 DEF StatusOK, Executing
  <1>5. CASE s # JobOf(w).sub
    <2>1. pos' = pos
      BY DEF Executing, WorkerStep, Dequeue, Guard, Claim, Load, Deploy, PersistContainer,
           WaitHealthy, Preflight, WriteDryRun, MarkFailed, SetBenchmarking, RunFleet,
           AppendResult, EnqueueNext, LoadForScore, WriteFinalScore, StopContainer,
           Reread, WriteOutcome, Commit, queueVars
    <2>2. Unpublished(s) => Unpublished(s)'
      <3>1. log' = log \/ (pc[w] = "enqueue" /\ Produce(NextJob(w)))
        BY DEF WorkerStep, Dequeue, Guard, Claim, Load, Deploy, PersistContainer,
               WaitHealthy, Preflight, WriteDryRun, MarkFailed, SetBenchmarking, RunFleet,
               AppendResult, EnqueueNext, LoadForScore, WriteFinalScore, StopContainer,
               Reread, WriteOutcome, Commit, queueVars, ProduceFails, NextJob
      <3>2. CASE log' = log
        BY <3>2 DEF Unpublished
      <3>3. CASE pc[w] = "enqueue" /\ Produce(NextJob(w))
        <4>1. PICK j \in Job : j = NextJob(w)
          BY <3>3, NextJobType
        <4>2. j.sub # s
          BY <1>5, <4>1 DEF NextJob, NewProfileJob
        <4>3. QED
          BY <3>3, <4>1, <4>2, ProduceOther
      <3>4. QED
        BY <3>1, <3>2, <3>3
    <2>3. Beyond(s) => Beyond(s)'
      BY <2>1, BeyondStays
    <2>4. Held(s) => Held(s)'
      BY <1>1, <1>5, HeldStays DEF Held, Busy
    <2>5. QED
      BY <1>1, <1>3, <1>5, <2>2, <2>3, <2>4, StatusKept DEF StatusOK
  <1>6. QED
    BY <1>4, <1>5

\* Fetching, guarding and committing: the worker's own duty and the records.
LEMMA TurnWork ==
    ASSUME FaultKinds \subseteq HarmlessFaults, TypeOK, ChainInv, OwnerInv,
           WorkInv, [Next]_vars, NEW w \in Workers, Dequeue(w) \/ Guard(w) \/ Commit(w)
    PROVE  /\ pc'[w] # "down" /\ (Busy(w)' => LeavesWork(w)')
           /\ \A s \in Subs : StatusOK(s)'
  <1>1. /\ UNCHANGED <<store, ingest, log>>
        /\ \A v \in Workers \ {w} : pc'[v] = pc[v] /\ at'[v] = at[v]
    BY Footprint DEF Dequeue, Guard, Commit, queueVars, WorkerStep
  <1>2. pc[w] \notin Executing
    BY DEF Dequeue, Guard, Commit, Executing
  <1>3. \A s \in Subs : Unpublished(s) => Unpublished(s)'
    BY <1>1 DEF Unpublished
  <1>4. ASSUME NEW s \in Subs,
               ~IsTerminal(store[s].status) /\ (Held(s) \/ Beyond(s)) => Held(s)' \/ Beyond(s)'
        PROVE  StatusOK(s)'
    BY <1>1, <1>2, <1>3, <1>4, StatusKept DEF WorkInv, StatusOK
  <1>5. ASSUME NEW s \in Subs, NEW v \in Workers \ {w}, Busy(v), JobOf(v).sub = s PROVE Held(s)'
    BY <1>1, <1>5, HeldStays DEF Busy
  <1>6. pc \in [Workers -> Executing \cup {"poll", "guard", "commit", "down"}]
        /\ at \in [Workers -> [part : Partitions, off : Nat]] /\ pos \in [Partitions -> Nat]
    BY DEF TypeOK, WorkerType, QueueType
  <1>7. CASE Dequeue(w)
    <2>1. PICK p \in Partitions :
             /\ owner[p] = w /\ pos[p] + 1 \in 1..Len(log[p])
             /\ at' = [at EXCEPT ![w] = [part |-> p, off |-> pos[p] + 1]]
             /\ \A q \in Partitions : \A i \in 1..Len(log[q]) :
                   /\ i > pos[q] /\ ~(i > pos'[q])
                   /\ [part |-> q, off |-> i] # [part |-> p, off |-> pos[p] + 1]
                   => [part |-> q, off |-> i] \in dropped'
      BY <1>7, Fetches
    <2>2. pc[w] = "poll" /\ pc'[w] = "guard"
      BY <1>6, <1>7 DEF Dequeue, Goto
    <2>3. at'[w].part = p /\ at'[w].off = pos[p] + 1
      BY <1>6, <2>1
    <2>4. LeavesWork(w)'
      BY <2>2 DEF LeavesWork, Loaded, Active, Leaving, Executing
    <2>5. ~Busy(w) /\ Busy(w)'
      BY <2>2 DEF Busy, Executing
    <2>6. JobOf(w)' = log[p][pos[p] + 1]
      BY <1>1, <2>3 DEF JobOf
    <2>7. ASSUME NEW s \in Subs, Held(s) PROVE Held(s)'
      BY <1>5, <2>5, <2>7 DEF Held
    <2>8. ASSUME NEW s \in Subs, Beyond(s) PROVE Held(s)' \/ Beyond(s)'
      <3> SUFFICES ASSUME ~Dropped(s) PROVE Held(s)' \/ Beyond(s)'
        BY DroppedStays DEF Beyond
      <3>1. PICK u \in Partitions : \E i \in 1..Len(log[u]) : i > pos[u] /\ log[u][i].sub = s
        BY <2>8 DEF Beyond
      <3>2. PICK i \in 1..Len(log[u]) : i > pos[u] /\ log[u][i].sub = s
        BY <3>1
      <3>3. CASE u = p /\ i = pos[p] + 1
        BY <2>5, <2>6, <3>2, <3>3 DEF Held
      <3>4. CASE ~(u = p /\ i = pos[p] + 1)
        <4>1. CASE i > pos'[u]
          BY <1>1, <3>2, <4>1 DEF Beyond
        <4>2. CASE ~(i > pos'[u])
          <5>1. [part |-> u, off |-> i] # [part |-> p, off |-> pos[p] + 1]
            BY <3>4
          <5>2. PICK r : r = [part |-> u, off |-> i]
            OBVIOUS
          <5>3. r \in dropped' /\ r.part = u /\ r.off = i
            BY <2>1, <3>2, <4>2, <5>1, <5>2
          <5>4. QED
            BY <1>1, <3>2, <5>3 DEF Beyond, Dropped
        <4>3. QED
          BY <4>1, <4>2
      <3>5. QED
        BY <3>3, <3>4
    <2>9. QED
      BY <1>4, <2>2, <2>4, <2>7, <2>8
  <1>8. CASE Guard(w)
    <2>1. pc[w] = "guard" /\ at' = at /\ pos' = pos
      BY <1>8, OnlyHarmless DEF Guard, queueVars
    <2>2. \/ pc'[w] = "claim"
          \/ pc'[w] = "commit" /\ store[JobOf(w).sub].status \notin Admitted(JobOf(w).label)
      BY <1>6, <1>8, OnlyHarmless DEF Guard, Goto
    <2>3. Busy(w) /\ Busy(w)' /\ JobOf(w)' = JobOf(w)
      BY <1>1, <2>1, <2>2 DEF Busy, Executing, JobOf
    <2>4. pc'[w] = "commit" => IsTerminal(store[JobOf(w).sub].status)
      BY <2>1, <2>2, SkipsSettled
    <2>6. LeavesWork(w)'
      BY <1>1, <2>1, <2>2, <2>3, <2>4 DEF LeavesWork, Loaded, Active, Leaving, Executing
    <2>7. ASSUME NEW s \in Subs, Held(s) PROVE Held(s)'
      BY <1>5, <2>1, <2>3, <2>7 DEF Held
    <2>8. ASSUME NEW s \in Subs, Beyond(s) PROVE Beyond(s)'
      BY <2>1, <2>8, BeyondStays
    <2>9. QED
      BY <1>4, <2>2, <2>6, <2>7, <2>8
  <1>9. CASE Commit(w)
    <2>1. pc[w] = "commit" /\ pc'[w] = "poll" /\ pos' = pos
      BY <1>6, <1>9 DEF Commit, Goto, queueVars
    <2>2. Busy(w) /\ ~Busy(w)' /\ LeavesWork(w)
      BY <2>1 DEF Busy, Executing, WorkInv
    <2>3. ASSUME NEW s \in Subs, Beyond(s) PROVE Beyond(s)'
      BY <2>1, <2>3, BeyondStays
    <2>4. IsTerminal(store[JobOf(w).sub].status) \/ Beyond(JobOf(w).sub)
      BY <2>1, <2>2 DEF LeavesWork
    <2>5. ASSUME NEW s \in Subs, ~IsTerminal(store[s].status), Held(s) PROVE Held(s)' \/ Beyond(s)'
      <3>1. PICK v \in Workers : Busy(v) /\ JobOf(v).sub = s
        BY <2>5 DEF Held
      <3>2. CASE v = w
        BY <2>3, <2>4, <2>5, <3>1, <3>2
      <3>3. CASE v # w
        BY <1>5, <3>1, <3>3
      <3>4. QED
        BY <3>2, <3>3
    <2>6. QED
      BY <1>4, <2>1, <2>2, <2>3, <2>5
  <1>10. QED
    BY <1>7, <1>8, <1>9

\* WorkInv is inductive, given the chains and the ownership of partitions.
LEMMA WorkStep ==
    ASSUME FaultKinds \subseteq HarmlessFaults, TypeOK, ChainInv, OwnerInv,
           WorkInv, [Next]_vars
    PROVE  WorkInv'
  <1>1. ASSUME NEW w \in Workers, WorkerStep(w)
        PROVE  /\ \A v \in Workers : pc'[v] # "down" /\ (Busy(v)' => LeavesWork(v)')
               /\ \A s \in Subs : StatusOK(s)'
    <2>1. ASSUME NEW v \in Workers \ {w} PROVE pc'[v] # "down" /\ (Busy(v)' => LeavesWork(v)')
      BY <1>1, OthersLeave
    <2>2. CASE pc[w] \in Executing
      <3>1. Busy(w)' /\ LeavesWork(w)'
        BY <1>1, <2>2, RunWork
      <3>2. pc'[w] # "down"
        BY <3>1 DEF Busy, Executing
      <3>3. QED
        BY <1>1, <2>1, <2>2, <3>1, <3>2, RunStatus
    <2>3. CASE Dequeue(w) \/ Guard(w) \/ Commit(w)
      BY <2>1, <2>3, TurnWork
    <2>4. QED
      BY <1>1, <2>2, <2>3, WorkerKinds
  <1>2. CASE UNCHANGED vars
    <2>1. UNCHANGED <<store, ingest, log, pos, dropped, pc, at, xsub, execErr>>
      BY <1>2 DEF vars, queueVars, workerVars
    <2>2. /\ \A w \in Workers : Busy(w)' = Busy(w) /\ JobOf(w)' = JobOf(w)
          /\ \A s : Beyond(s)' = Beyond(s) /\ Unpublished(s)' = Unpublished(s)
      BY <2>1 DEF Busy, JobOf, Beyond, Dropped, Unpublished
    <2>3. \A w \in Workers : LeavesWork(w)' = LeavesWork(w)
      BY <2>1, <2>2 DEF LeavesWork
    <2>4. \A s \in Subs : Held(s)' = Held(s)
      BY <2>2 DEF Held
    <2>5. \A s \in Subs : StatusOK(s)' = StatusOK(s)
      BY <2>1, <2>2, <2>4 DEF StatusOK
    <2>6. QED
      BY <2>1, <2>2, <2>3, <2>5 DEF WorkInv
  <1>3. \A p \in Partitions : \A i \in 1..Len(log'[p]) :
           log'[p][i].label = "single" <=> log'[p][i].sub \notin ContestSubs
    BY LabelStep
  <1>4. QED
    BY <1>1, <1>2, <1>3, IngestWork, LiveSteps DEF WorkInv

\* The invariant holds in every reachable state.
LEMMA WorkHolds ==
    ASSUME FaultKinds \subseteq HarmlessFaults
    PROVE  Spec => [](TypeOK /\ ChainInv /\ OwnerInv /\ WorkInv)
  <1>1. Init => WorkInv
    BY DEF Init, WorkInv, Busy, Executing, StatusOK, Unpublished, Blank, IsTerminal
  <1>2. "rebalance" \notin FaultKinds
    BY DEF HarmlessFaults
  <1>3. TypeOK /\ ChainInv /\ OwnerInv /\ WorkInv /\ [Next]_vars => WorkInv'
    BY WorkStep
  <1>4. Spec => []OwnerInv
    BY <1>2, OwnerHolds
  <1>5. QED
    BY <1>1, <1>3, <1>4, TypeCorrect, ChainHolds, PTL DEF Spec

-----------------------------------------------------------------------------
(* The theorems about the queue *)

\* However many records a fetch holds, and with stops and enqueues that fail, a
\* submission Ingest accepted is terminal, or a worker holds a job of it, or a
\* record of it is still to be fetched, or came second in a fetch: no job is
\* lost between Ingest, the queue, the guard, the run and the commit but by
\* Dequeue itself.
THEOREM JobsCorrect ==
    ASSUME FaultKinds \subseteq HarmlessFaults PROVE Spec => []LostInFetchOnly
  <1>1. TypeOK /\ WorkInv => LostInFetchOnly
    <2> SUFFICES ASSUME TypeOK, WorkInv, NEW s \in Subs, ingest[s] = "done",
                        ~IsTerminal(store[s].status)
                 PROVE  HasWork(s) \/ Dropped(s)
      BY DEF LostInFetchOnly
    <2>1. Held(s) \/ Beyond(s)
      BY DEF WorkInv, StatusOK
    <2>2. \A p \in Partitions : Cursor(p) = pos[p]
      BY DEF Cursor, WorkInv, TypeOK, QueueType
    <2>3. QED
      BY <2>1, <2>2 DEF Held, Beyond, HasWork
  <1>2. QED
    BY <1>1, WorkHolds, PTL

-----------------------------------------------------------------------------
(* The next profile is let through: the inductive invariant *)

\* The faults that leave a submission marked as being worked on with nobody
\* working on it, or with two workers.
StrandingFaults == {"rebalance", "crash", "update"}

\* A worker past its claim runs a job of s.
Worked(s) == \E w \in Workers : pc[w] \in Executing \ {"claim"} /\ JobOf(w).sub = s

\* The record of s is there once a job of s is, and says deploying or
\* benchmarking only while a worker runs a job of s.
Tended(s) ==
    /\ ingest[s] = "new" => Unpublished(s)
    /\ store[s].status = "absent" => ingest[s] = "new"
    /\ store[s].status \in {"deploying", "benchmarking"} => Worked(s)

TendedInv ==
    /\ \A w \in Workers : pc[w] \in Loaded => xsub[w].status # "absent"
    /\ \A s \in Subs : Tended(s)

-----------------------------------------------------------------------------
(* The next profile is let through: the steps *)

\* A busy worker's submission is published, so Ingest has saved it.
LEMMA HeldIsSaved ==
    ASSUME TypeOK, TendedInv, NEW w \in Workers, Busy(w)
    PROVE  /\ JobOf(w).sub \in Subs /\ ingest[JobOf(w).sub] # "new"
           /\ store[JobOf(w).sub].status # "absent"
  <1>1. JobOf(w).sub \in Subs
    BY JobOfType DEF Job
  <1>2. ~Unpublished(JobOf(w).sub)
    BY JobOfType DEF Unpublished, JobOf
  <1>3. QED
    BY <1>1, <1>2 DEF TendedInv, Tended

\* A submission that Ingest has not begun stays without jobs.
LEMMA StaysUnpublished ==
    ASSUME TypeOK, TendedInv, [Next]_vars, NEW s \in Subs, ingest[s] = "new",
           ~Produce(FirstJob(s))
    PROVE  Unpublished(s)'
  <1>1. SUFFICES ASSUME NEW p \in Partitions, NEW i \in 1..Len(log'[p])
                 PROVE  log'[p][i].sub # s
    BY DEF Unpublished
  <1>2. CASE i \in 1..Len(log[p])
    BY <1>2, LogKeeps DEF TendedInv, Tended, Unpublished
  <1>3. CASE \E x \in Subs : log'[p][i].sub = x /\ Produce(FirstJob(x))
    BY <1>3
  <1>4. CASE \E w \in Workers : log'[p][i].sub = JobOf(w).sub /\ Busy(w)
    BY <1>4, HeldIsSaved
  <1>5. QED
    BY <1>2, <1>3, <1>4, LogKeeps

\* The step of a run writes a status that is there, and one that leaves the run
\* writes the outcome.
LEMMA TendedRun ==
    ASSUME FaultKinds \cap StrandingFaults = {}, TypeOK, TendedInv, [Next]_vars,
           NEW w \in Workers, pc[w] \in Executing, WorkerStep(w)
    PROVE  /\ pc'[w] \in Loaded => xsub'[w].status # "absent"
           /\ store'[JobOf(w).sub].status # "absent"
           /\ \/ pc'[w] \in Executing \ {"claim"}
              \/ store'[JobOf(w).sub].status \in {"running", "completed", "failed"}
  <1> DEFINE j == JobOf(w)
             s == j.sub
             r == store[s]
             q == store'[s]
  <1>1. ~Fault("update")
    BY DEF Fault, StrandingFaults
  <1>2. Busy(w) /\ j \in Job /\ s \in Subs /\ r.status # "absent"
    BY KeepsJob, HeldIsSaved
  <1>3. /\ xsub[w] \in Submission /\ psub[w] \in Submission /\ r \in Submission
        /\ store \in [Subs -> Submission] /\ xsub \in [Workers -> Submission]
        /\ pc \in [Workers -> Executing \cup {"poll", "guard", "commit", "down"}]
    BY <1>2 DEF TypeOK, StoreType, WorkerType
  <1>4. pc[w] \in Loaded => xsub[w].status # "absent"
    BY DEF TendedInv
  <1>5. s = JobOf(w).sub /\ r = store[s] /\ q = store'[s] /\ j = JobOf(w)
    OBVIOUS
  <1> HIDE DEF j, s, r, q
  <1> USE DEF Loaded, Active, Executing
  <1>6. CASE Claim(w)
    <2>1. q = [psub[w] EXCEPT !.status = "deploying"] /\ pc'[w] = "load"
      BY <1>1, <1>2, <1>3, <1>5, <1>6 DEF Claim, Goto, UpdateOrLog
    <2>2. q.status = "deploying"
      BY <1>3, <2>1 DEF Submission
    <2>3. QED
      BY <1>5, <2>1, <2>2
  <1>7. CASE Load(w) \/ Deploy(w) \/ WaitHealthy(w) \/ Preflight(w)
    <2>1. q = r /\ pc'[w] \in Executing \ {"claim"}
      BY <1>3, <1>5, <1>7
         DEF Load, Deploy, WaitHealthy, Preflight, Goto, ExecuteFails, ExecuteReturns
    <2>2. pc'[w] \in Loaded => xsub'[w].status # "absent"
      BY <1>2, <1>3, <1>4, <1>5, <1>7
         DEF Load, Deploy, WaitHealthy, Preflight, Goto, ExecuteFails, ExecuteReturns, GetOrCached
    <2>3. QED
      BY <1>2, <1>5, <2>1, <2>2
  <1>8. CASE PersistContainer(w)
    <2>1. q = xsub[w] /\ xsub' = xsub /\ pc[w] = "persist" /\ pc'[w] = "health"
      BY <1>1, <1>2, <1>3, <1>5, <1>8 DEF PersistContainer, Goto, UpdateOrLog
    <2>2. QED
      BY <1>4, <1>5, <2>1
  <1>9. CASE WriteDryRun(w)
    <2>1. PICK d : d = (IF execErr[w] THEN "fail" ELSE "pass")
      OBVIOUS
    <2>2. /\ pc[w] = "dryrun" /\ pc'[w] \in {"reject", "bench"}
          /\ q = [xsub[w] EXCEPT !.dryRun = d] /\ xsub'[w] = q
      BY <1>1, <1>2, <1>3, <1>5, <1>9, <2>1 DEF WriteDryRun, Goto, UpdateOrLog
    <2>3. q.status = xsub[w].status
      BY <1>3, <2>2 DEF Submission
    <2>4. QED
      BY <1>4, <1>5, <2>2, <2>3
  <1>10. CASE MarkFailed(w)
    <2>1. q = [xsub[w] EXCEPT !.status = "failed"] /\ pc'[w] = "stop"
      BY <1>1, <1>2, <1>3, <1>5, <1>10 DEF MarkFailed, Goto, UpdateOrLog, ExecuteReturns
    <2>2. q.status = "failed"
      BY <1>3, <2>1 DEF Submission
    <2>3. QED
      BY <1>5, <2>1, <2>2
  <1>11. CASE SetBenchmarking(w)
    <2>1. q = [xsub[w] EXCEPT !.status = "benchmarking"] /\ xsub'[w] = q /\ pc'[w] = "fleet"
      BY <1>1, <1>2, <1>3, <1>5, <1>11 DEF SetBenchmarking, Goto, UpdateOrLog
    <2>2. q.status = "benchmarking"
      BY <1>3, <2>1 DEF Submission
    <2>3. QED
      BY <1>5, <2>1, <2>2
  <1>12. CASE RunFleet(w) \/ LoadForScore(w)
    <2>1. q = r /\ pc'[w] \in Executing \ {"claim"}
      BY <1>3, <1>5, <1>12 DEF RunFleet, LoadForScore, Goto, ExecuteReturns
    <2>2. pc'[w] \in Loaded => xsub'[w].status # "absent"
      BY <1>2, <1>3, <1>4, <1>5, <1>12
         DEF RunFleet, LoadForScore, Goto, ExecuteReturns, GetOrCached
    <2>3. QED
      BY <1>2, <1>5, <2>1, <2>2
  <1>13. CASE AppendResult(w)
    <2>1. PICK x : x = [xsub[w] EXCEPT !.results = Append(xsub[w].results, j.label)]
      OBVIOUS
    <2>2. /\ pc[w] = "append" /\ q = x /\ xsub'[w] = x /\ pc'[w] \in {"score", "enqueue"}
      BY <1>1, <1>2, <1>3, <1>5, <1>13, <2>1 DEF AppendResult, Goto
    <2>3. x.status = xsub[w].status
      BY <1>3, <2>1 DEF Submission
    <2>4. QED
      BY <1>4, <1>5, <2>2, <2>3
  <1>14. CASE EnqueueNext(w)
    <2>1. q = r /\ xsub' = xsub /\ pc[w] = "enqueue" /\ pc'[w] \in {"stop", "reject"}
      BY <1>3, <1>5, <1>14 DEF EnqueueNext, Goto, ExecuteReturns
    <2>2. QED
      BY <1>2, <1>4, <1>5, <2>1
  <1>15. CASE WriteFinalScore(w)
    <2>1. PICK x : x = [xsub[w] EXCEPT !.final = Range(xsub[w].results)]
      OBVIOUS
    <2>2. pc[w] = "writescore" /\ q = x /\ pc'[w] = "stop"
      BY <1>1, <1>2, <1>3, <1>5, <1>15, <2>1 DEF WriteFinalScore, Goto, UpdateOrLog, ExecuteReturns
    <2>3. x.status = xsub[w].status
      BY <1>3, <2>1 DEF Submission
    <2>4. QED
      BY <1>4, <1>5, <2>2, <2>3
  <1>16. CASE StopContainer(w) \/ Reread(w)
    <2>1. q = r /\ pc'[w] \in {"reread", "outcome"}
      BY <1>3, <1>5, <1>16 DEF StopContainer, Reread, Goto
    <2>2. QED
      BY <1>2, <1>5, <2>1
  <1>17. CASE WriteOutcome(w)
    <2>1. q = Outcome(psub[w], j, execErr[w]) /\ pc'[w] = "commit"
      BY <1>1, <1>2, <1>3, <1>5, <1>17 DEF WriteOutcome, Goto, UpdateOrLog
    <2>2. q.status \in {"running", "completed", "failed"}
      <3>1. PICK x : x = (psub[w].legacy \/ j.label = "single")
        OBVIOUS
      <3>2. \/ q = [psub[w] EXCEPT !.status = "failed"]
            \/ q = [psub[w] EXCEPT !.status = "completed", !.legacy = x]
            \/ q = [psub[w] EXCEPT !.status = "running"]
        BY <2>1, <3>1 DEF Outcome
      <3>3. QED
        BY <1>3, <3>2 DEF Submission
    <2>3. QED
      BY <1>5, <2>1, <2>2
  <1>18. QED
    BY <1>6, <1>7, <1>8, <1>9, <1>10, <1>11, <1>12, <1>13, <1>14, <1>15, <1>16, <1>17
       DEF WorkerStep, Dequeue, Guard, Commit

\* A run that goes on is still a run of its submission.
LEMMA WorkedStays ==
    ASSUME TypeOK, [Next]_vars, NEW v \in Workers, pc[v] \in Executing,
           NEW s, JobOf(v).sub = s, pc'[v] \in Executing \ {"claim"}, at'[v] = at[v]
    PROVE  Worked(s)'
  <1>1. Busy(v)
    BY DEF Busy
  <1>2. JobOf(v)' = JobOf(v)
    BY <1>1, LogKeeps, JobOfType DEF JobOf
  <1>3. QED
    BY <1>2 DEF Worked

\* A worker's step, for the records.
LEMMA TendedWork ==
    ASSUME FaultKinds \cap StrandingFaults = {}, TypeOK, ChainInv, OwnerInv, TendedInv,
           [Next]_vars, NEW w \in Workers, WorkerStep(w) \/ Restart(w), NEW s \in Subs
    PROVE  Tended(s)'
  <1>1. /\ ingest' = ingest /\ \A v \in Workers \ {w} : pc'[v] = pc[v] /\ at'[v] = at[v]
        /\ (~Busy(w) \/ s # JobOf(w).sub => store'[s] = store[s])
    BY Footprint
  <1>2. Tended(s)
    BY DEF TendedInv
  <1>3. ingest'[s] = "new" => Unpublished(s)'
    <2>1. ASSUME ingest[s] = "new" PROVE Unpublished(s)'
      <3>1. CASE ~Produce(FirstJob(s))
        BY <2>1, <3>1, StaysUnpublished
      <3>2. CASE log' = log
        BY <1>2, <2>1, <3>2 DEF Tended, Unpublished
      <3>3. CASE pc[w] = "enqueue" /\ Produce(NextJob(w)) /\ Produce(FirstJob(s))
        <4>1. Busy(w)
          BY <3>3 DEF Busy, Executing
        <4>2. NextJob(w) = FirstJob(s)
          BY <3>3, NextJobType, FirstJobType, ProduceSame
        <4>3. NextJob(w).sub = JobOf(w).sub /\ FirstJob(s).sub = s
          BY DEF NextJob, NewProfileJob, FirstJob, NewJob
        <4>4. QED
          BY <2>1, <4>1, <4>2, <4>3, HeldIsSaved
      <3>4. log' = log \/ (pc[w] = "enqueue" /\ Produce(NextJob(w)))
        BY DEF WorkerStep, Dequeue, Guard, Claim, Load, Deploy, PersistContainer,
               WaitHealthy, Preflight, WriteDryRun, MarkFailed, SetBenchmarking,
               RunFleet, AppendResult, EnqueueNext, LoadForScore, WriteFinalScore,
               StopContainer, Reread, WriteOutcome, Commit, ProduceFails, NextJob,
               queueVars, Restart
      <3>5. QED
        BY <3>1, <3>2, <3>3, <3>4
    <2>2. QED
      BY <1>1, <2>1
  <1>4. CASE pc[w] \in Executing /\ JobOf(w).sub = s /\ WorkerStep(w)
    <2>1. /\ store'[s].status # "absent"
          /\ \/ pc'[w] \in Executing \ {"claim"}
             \/ store'[s].status \in {"running", "completed", "failed"}
      BY <1>4, TendedRun
    <2>2. pc'[w] \in Executing \ {"claim"} => Worked(s)'
      <3>1. at'[w] = at[w]
        BY <1>4, KeepsJob
      <3>2. QED
        BY <1>4, <3>1, WorkedStays
    <2>3. QED
      BY <1>3, <2>1, <2>2 DEF Tended
  <1>5. CASE ~(pc[w] \in Executing /\ JobOf(w).sub = s /\ WorkerStep(w))
    <2>1. store'[s] = store[s]
      <3>1. CASE ~Busy(w) \/ s # JobOf(w).sub
        BY <1>1, <3>1
      <3>2. CASE Busy(w) /\ s = JobOf(w).sub
        <4>1. Dequeue(w) \/ Guard(w) \/ Commit(w) \/ Restart(w)
          BY <1>5, <3>2, WorkerKinds
        <4>2. QED
          BY <4>1 DEF Dequeue, Guard, Commit, Restart
      <3>3. QED
        BY <3>1, <3>2
    <2>2. Worked(s) => Worked(s)'
      <3>1. ASSUME NEW v \in Workers, pc[v] \in Executing \ {"claim"}, JobOf(v).sub = s
            PROVE  Worked(s)'
        <4>1. v # w
          <5>1. v = w => Restart(w)
            BY <1>5, <3>1
          <5>2. ~Restart(v)
            BY <3>1 DEF Restart, Executing
          <5>3. QED
            BY <5>1, <5>2
        <4>2. pc'[v] = pc[v] /\ at'[v] = at[v]
          BY <1>1, <4>1
        <4>3. QED
          BY <3>1, <4>2, WorkedStays
      <3>2. QED
        BY <3>1 DEF Worked
    <2>3. QED
      BY <1>1, <1>2, <1>3, <2>1, <2>2 DEF Tended
  <1>6. QED
    BY <1>4, <1>5

\* A step that leaves the workers alone leaves their runs alone.
LEMMA WorkedUntouched ==
    ASSUME TypeOK, [Next]_vars, UNCHANGED workerVars, NEW s, Worked(s) PROVE Worked(s)'
  <1>1. PICK v \in Workers : pc[v] \in Executing \ {"claim"} /\ JobOf(v).sub = s
    BY DEF Worked
  <1>2. pc'[v] = pc[v] /\ at'[v] = at[v]
    BY DEF workerVars
  <1>3. QED
    BY <1>1, <1>2, WorkedStays

\* The steps of Ingest, for the records.
LEMMA TendedIngest ==
    ASSUME TypeOK, TendedInv, [Next]_vars, NEW x \in Subs, IngestStep(x) \/ IngestAborts(x),
           NEW s \in Subs
    PROVE  Tended(s)'
  <1>1. UNCHANGED workerVars /\ ingest \in [Subs -> {"new", "saved", "failing", "done"}]
        /\ store \in [Subs -> Submission]
    BY DEF IngestStep, SaveSubmission, EnqueueFirst, IngestFailed, IngestAborts,
           TypeOK, StoreType
  <1>2. Tended(s) /\ (Worked(s) => Worked(s)')
    BY <1>1, WorkedUntouched DEF TendedInv
  <1>3. /\ s # x => ingest'[s] = ingest[s] /\ store'[s] = store[s]
        /\ ingest'[x] # "new"
    BY <1>1 DEF IngestStep, SaveSubmission, EnqueueFirst, IngestFailed, IngestAborts, UpdateOrLog
  <1>4. CASE s # x
    <2>1. ASSUME ingest[s] = "new" PROVE Unpublished(s)'
      <3>1. log' = log \/ Produce(FirstJob(x))
        BY DEF IngestStep, SaveSubmission, EnqueueFirst, IngestFailed, IngestAborts,
               ProduceFails, queueVars
      <3>2. CASE log' = log
        BY <1>2, <2>1, <3>2 DEF Tended, Unpublished
      <3>3. CASE Produce(FirstJob(x))
        <4>1. ~Produce(FirstJob(s))
          <5>1. FirstJob(s).sub = s /\ FirstJob(x).sub = x
            BY DEF FirstJob, NewJob, NewProfileJob
          <5>2. QED
            BY <1>4, <3>3, <5>1, FirstJobType, ProduceSame
        <4>2. QED
          BY <2>1, <4>1, StaysUnpublished
      <3>4. QED
        BY <3>1, <3>2, <3>3
    <2>2. QED
      BY <1>2, <1>3, <1>4, <2>1 DEF Tended
  <1>5. CASE s = x
    <2>1. \/ store'[s] = store[s] /\ ingest[s] # "new"
          \/ store'[s].status \in {"pending", "failed"}
      BY <1>1, <1>5 DEF IngestStep, SaveSubmission, EnqueueFirst, IngestFailed, IngestAborts,
                        UpdateOrLog, Blank
    <2>2. QED
      BY <1>2, <1>3, <1>5, <2>1 DEF Tended
  <1>6. QED
    BY <1>4, <1>5

\* TendedInv is inductive.
LEMMA TendedStep ==
    ASSUME FaultKinds \cap StrandingFaults = {}, TypeOK, ChainInv, OwnerInv, TendedInv,
           [Next]_vars
    PROVE  TendedInv'
  <1>1. ASSUME NEW v \in Workers, pc'[v] = pc[v], xsub'[v] = xsub[v]
        PROVE  pc'[v] \in Loaded => xsub'[v].status # "absent"
    BY <1>1 DEF TendedInv
  <1>2. ASSUME NEW w \in Workers, WorkerStep(w) \/ Restart(w) PROVE TendedInv'
    <2>1. ASSUME NEW v \in Workers \ {w} PROVE pc'[v] \in Loaded => xsub'[v].status # "absent"
      BY <1>1, <1>2, Footprint
    <2>2. pc'[w] \in Loaded => xsub'[w].status # "absent"
      <3>1. CASE pc[w] \in Executing /\ WorkerStep(w)
        BY <3>1, TendedRun
      <3>2. CASE Dequeue(w) \/ Guard(w) \/ Commit(w) \/ Restart(w)
        BY <3>2 DEF Dequeue, Guard, Commit, Restart, Goto, Loaded, Active, Executing,
                    TypeOK, WorkerType
      <3>3. QED
        BY <1>2, <3>1, <3>2, WorkerKinds
    <2>3. QED
      BY <1>2, <2>1, <2>2, TendedWork DEF TendedInv
  <1>3. ASSUME NEW x \in Subs, IngestStep(x) \/ IngestAborts(x) PROVE TendedInv'
    <2>1. UNCHANGED workerVars
      BY <1>3 DEF IngestStep, SaveSubmission, EnqueueFirst, IngestFailed, IngestAborts
    <2>2. QED
      BY <1>1, <1>3, <2>1, TendedIngest DEF TendedInv, workerVars
  <1>4. ASSUME UNCHANGED <<store, ingest, log, workerVars>> PROVE TendedInv'
    <2>1. \A s \in Subs : Worked(s) => Worked(s)'
      BY <1>4, WorkedUntouched
    <2>2. \A s \in Subs : Tended(s)'
      BY <1>4, <2>1 DEF TendedInv, Tended, Unpublished
    <2>3. QED
      BY <1>1, <1>4, <2>2 DEF TendedInv, workerVars
  <1>5. \A w \in Workers : ~Crash(w)
    BY DEF Crash, Fault, StrandingFaults
  <1>6. ASSUME NEW p \in Partitions, NEW w \in Workers, Rebalance(p, w) PROVE TendedInv'
    BY <1>4, <1>6 DEF Rebalance
  <1>7. UNCHANGED vars => TendedInv'
    BY <1>4 DEF vars, queueVars
  <1>8. QED
    BY <1>2, <1>3, <1>5, <1>6, <1>7 DEF Next

\* A worker at its guard is the only one with a job of its submission, so a
\* status other than pending and running is a terminal one.
LEMMA SkipsTerminal ==
    ASSUME TypeOK, ChainInv, OwnerInv, TendedInv, NEW w \in Workers, pc[w] = "guard",
           store[JobOf(w).sub].status \notin {"pending", "running"}
    PROVE  IsTerminal(store[JobOf(w).sub].status)
  <1>1. Busy(w)
    BY DEF Busy
  <1>2. PICK s \in Subs : s = JobOf(w).sub
    BY <1>1, HeldIsSaved
  <1>3. store[s].status \in Statuses /\ store[s].status # "absent"
    BY <1>1, <1>2, HeldIsSaved DEF TypeOK, StoreType, Submission
  <1>4. ~Worked(s)
    <2>1. ASSUME NEW v \in Workers, pc[v] \in Executing, JobOf(v).sub = s PROVE FALSE
      <3>1. v # w /\ Busy(v)
        BY <2>1 DEF Busy, Executing
      <3>2. QED
        BY <1>1, <1>2, <2>1, <3>1, BusyDisjoint
    <2>2. QED
      BY <2>1 DEF Worked
  <1>5. QED
    BY <1>2, <1>3, <1>4 DEF TendedInv, Tended, Statuses, IsTerminal

\* As long as no worker dies, no live worker loses a partition and no write
\* fails, the guard skips a medium or high job only of a submission that is
\* already terminal: the status running that processJob writes between two
\* profiles does let the next profile through, whatever is fetched at a time
\* and whichever reads, enqueues and stops fail.
THEOREM NextProfileCorrect ==
    ASSUME FaultKinds \cap StrandingFaults = {} PROVE Spec => NextProfileLetThrough
  <1> DEFINE Skipped == \A w \in Workers :
                          /\ pc[w] = "guard" /\ pc'[w] = "commit"
                          /\ JobOf(w).label \in {"medium", "high"}
                          => IsTerminal(store[JobOf(w).sub].status)
  <1>1. TypeOK /\ ChainInv /\ OwnerInv /\ TendedInv /\ [Next]_vars => [Skipped]_vars
    <2> SUFFICES ASSUME TypeOK, ChainInv, OwnerInv, TendedInv, [Next]_vars,
                        NEW w \in Workers, pc[w] = "guard", pc'[w] = "commit",
                        JobOf(w).label \in {"medium", "high"}
                 PROVE  IsTerminal(store[JobOf(w).sub].status)
      OBVIOUS
    <2>1. WorkerStep(w) \/ Crash(w) \/ Restart(w)
      <3>1. ASSUME NEW v \in Workers, WorkerStep(v) \/ Crash(v) \/ Restart(v) PROVE v = w
        BY <3>1, Footprint
      <3>2. ASSUME NEW x \in Subs, IngestStep(x) \/ IngestAborts(x) PROVE FALSE
        BY <3>2 DEF IngestStep, SaveSubmission, EnqueueFirst, IngestFailed, IngestAborts,
                    workerVars
      <3>3. ASSUME NEW p \in Partitions, NEW v \in Workers, Rebalance(p, v) PROVE FALSE
        BY <3>3 DEF Rebalance, workerVars
      <3>4. ~UNCHANGED vars
        BY DEF vars, workerVars
      <3>5. QED
        BY <3>1, <3>2, <3>3, <3>4 DEF Next
    <2>2. Guard(w)
      <3>1. ~Crash(w) /\ ~Restart(w)
        BY DEF Crash, Restart, Goto, TypeOK, WorkerType
      <3>2. QED
        BY <2>1, <3>1, WorkerKinds DEF Dequeue, Commit, Executing
    <2>3. store[JobOf(w).sub].status \notin Admitted(JobOf(w).label)
      BY <2>2 DEF Guard, Goto, TypeOK, WorkerType
    <2>4. QED
      BY <2>3, SkipsTerminal DEF Admitted
  <1>2. Init => TendedInv
    BY DEF Init, TendedInv, Tended, Unpublished, Blank, Loaded, Active, Executing
  <1>3. TypeOK /\ ChainInv /\ OwnerInv /\ TendedInv /\ [Next]_vars => TendedInv'
    BY TendedStep
  <1>4. Spec => []OwnerInv
    <2>1. "rebalance" \notin FaultKinds
      BY DEF StrandingFaults
    <2>2. QED
      BY <2>1, OwnerHolds
  <1>5. QED
    BY <1>1, <1>2, <1>3, <1>4, TypeCorrect, ChainHolds, PTL DEF Spec, NextProfileLetThrough
=============================================================================
