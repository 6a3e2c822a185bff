--------------------------- MODULE BenchPipeline ---------------------------
(***************************************************************************)
(* The benchmark pipeline: the control plane persists a submission and     *)
(* publishes a job, Redpanda hands the job to one worker of the consumer   *)
(* group, the worker runs it in a sandbox and records the outcome in the   *)
(* submission store, and a contest submission chains three jobs            *)
(* (low -> medium -> high) through the same queue.                         *)
(*                                                                         *)
(* Sources: internal/submission/service.go (Ingest), internal/queue/job.go *)
(* and redpanda.go, internal/worker/worker.go (Run, processJob),           *)
(* internal/worker/executor.go (Execute), internal/submission (DiskStore). *)
(*                                                                         *)
(* Granularity.  One step is one access to shared state: a store Get, a    *)
(* store Update (the whole record is overwritten), a queue operation, or   *)
(* a sandbox operation.  A value read by Get is kept in a local copy and   *)
(* written back by a later step, exactly where the code does so.           *)
(***************************************************************************)
EXTENDS Naturals, Sequences, FiniteSets, Functions

CONSTANTS
    Subs,          \* submission ids
    Workers,       \* worker processes, members of group nexusbench-workers
    Partitions,    \* partitions of topic jobs.benchmark
    PartitionOf,   \* the partition a record keyed by a submission id goes to
    ContestSubs,   \* submissions ingested into a contest: their jobs are profile jobs
    MaxFetch,      \* bound on the number of records one PollFetches returns
    FaultKinds,    \* which infrastructure faults the environment may inject
    MaxFaults      \* bound on the number of faults in a behaviour

AllFaultKinds ==
    {"get", "update", "enqueue", "stop", "abort", "crash", "rebalance"}

ASSUME PipelineAssumption ==
    /\ Workers # {} /\ Partitions # {} /\ IsFiniteSet(Partitions)
    /\ PartitionOf \in [Subs -> Partitions]
    /\ ContestSubs \subseteq Subs
    /\ MaxFetch \in Nat \ {0}
    /\ FaultKinds \subseteq AllFaultKinds
    /\ MaxFaults \in Nat

VARIABLES
    store,      \* the disk store: one record per submission
    ingest,     \* progress of Ingest for each submission
    log,        \* the records of each partition of the topic
    committed,  \* the group's committed offset in each partition
    owner,      \* the worker each partition is assigned to
    pos,        \* the owner's fetch position in each partition
    dropped,    \* history: records fetched by the owner and not returned by Dequeue
    pc,         \* where each worker is in Run / processJob / Execute
    at,         \* the pendingRecord of each worker: partition and offset
    psub,       \* processJob's copy of the submission
    xsub,       \* Execute's copy of the submission
    execErr,    \* Execute returned (or will return) an error
    containers, \* submissions whose sandbox container exists
    faults      \* faults injected so far

queueVars  == <<log, committed, owner, pos, dropped>>
workerVars == <<pc, at, psub, xsub, execErr>>
vars == <<store, ingest, queueVars, workerVars, containers, faults>>

-----------------------------------------------------------------------------
(* Data *)

Profiles == {"low", "medium", "high"}
Labels   == Profiles \cup {"single"}      \* "single" is VolatilityLabel == ""

Statuses == {"absent", "pending", "deploying", "running", "benchmarking",
             "completed", "failed"}

\* SubmissionStatus.IsTerminal.
IsTerminal(status) == status \in {"completed", "failed"}

\* What the pipeline reads and writes of models.Submission.  final is the set
\* of labels whose RunScore entered FinalScore ({} is the zero value).
Submission == [status  : Statuses,
               results : Seq(Profiles),
               final   : SUBSET Profiles,
               dryRun  : {"none", "pass", "fail"},
               legacy  : BOOLEAN]

Blank == [status |-> "absent", results |-> <<>>, final |-> {},
          dryRun |-> "none", legacy |-> FALSE]

Job == [sub : Subs, label : Labels, remaining : Seq(Profiles)]

\* queue.NewJob and queue.NewProfileJob.
NewJob(s) == [sub |-> s, label |-> "single", remaining |-> <<>>]
NewProfileJob(s, label, remaining) ==
    [sub |-> s, label |-> label, remaining |-> remaining]

\* Job.IsLastProfile.
IsLastProfile(j) == j.remaining = <<>>

\* The job a worker is processing is the record it last dequeued.
JobOf(w) == log[at[w].part][at[w].off]

NoRecord == [part |-> CHOOSE p \in Partitions : TRUE, off |-> 0]

-----------------------------------------------------------------------------
(* Environment and helpers *)

\* An infrastructure fault of kind k, within the fault budget.
Fault(k) == k \in FaultKinds /\ faults < MaxFaults /\ faults' = faults + 1

Goto(w, l) == pc' = [pc EXCEPT ![w] = l]

\* store.Update of record r; an error is logged and the caller goes on.
UpdateOrLog(s, r) ==
    \/ store' = [store EXCEPT ![s] = r] /\ UNCHANGED faults
    \/ Fault("update") /\ UNCHANGED store

\* store.Get into the executor's copy; on error the cached copy is used.
GetOrCached(w) ==
    \/ xsub' = [xsub EXCEPT ![w] = store[JobOf(w).sub]] /\ UNCHANGED faults
    \/ Fault("get") /\ UNCHANGED xsub

\* RedpandaQueue.Enqueue: the record's key selects the partition.
Produce(j) == log' = [log EXCEPT ![PartitionOf[j.sub]] = Append(@, j)]

\* Enqueue returns an error; a produce that timed out may still be in the log.
ProduceFails(j) == Fault("enqueue") /\ (Produce(j) \/ UNCHANGED log)

-----------------------------------------------------------------------------
(* Control plane: Service.Ingest *)

FirstJob(s) == IF s \in ContestSubs
               THEN NewProfileJob(s, "low", <<"medium", "high">>)
               ELSE NewJob(s)

\* store.Save of the new submission in StatusPending.
SaveSubmission(s) ==
    /\ ingest[s] = "new"
    /\ store' = [store EXCEPT ![s] = [Blank EXCEPT !.status = "pending"]]
    /\ ingest' = [ingest EXCEPT ![s] = "saved"]
    /\ UNCHANGED <<queueVars, workerVars, containers, faults>>

\* Enqueue of the first job; an error leads to setStatus(StatusFailed).
EnqueueFirst(s) ==
    /\ ingest[s] = "saved"
    /\ \/ /\ Produce(FirstJob(s)) /\ UNCHANGED faults
          /\ ingest' = [ingest EXCEPT ![s] = "done"]
       \/ /\ ProduceFails(FirstJob(s))
          /\ ingest' = [ingest EXCEPT ![s] = "failing"]
    /\ UNCHANGED <<store, committed, owner, pos, dropped, workerVars, containers>>

\* setStatus(sub, StatusFailed) with Ingest's own copy of the submission.
IngestFailed(s) ==
    /\ ingest[s] = "failing"
    /\ UpdateOrLog(s, [Blank EXCEPT !.status = "failed"])
    /\ ingest' = [ingest EXCEPT ![s] = "done"]
    /\ UNCHANGED <<queueVars, workerVars, containers>>

\* The control plane dies between Save and the end of Ingest.
IngestAborts(s) ==
    /\ ingest[s] \in {"saved", "failing"}
    /\ Fault("abort")
    /\ ingest' = [ingest EXCEPT ![s] = "done"]
    /\ UNCHANGED <<store, queueVars, workerVars, containers>>

-----------------------------------------------------------------------------
(* The consumer group: Redpanda and the franz-go client *)

\* The number of records in a fetch.
FetchSize(b) == Cardinality(UNION {{p} \X (1..b[p]) : p \in Partitions})

\* Mutant of Batches: the client joins no consumer group, so every worker
\* polls every partition.
BatchesUngrouped(w) ==
    {b \in [Partitions -> 0..MaxFetch] :
        /\ \A p \in Partitions : b[p] <= Len(log[p]) - pos[p]
        /\ FetchSize(b) <= MaxFetch}

\* What one PollFetches may hand to worker w: how many records of each
\* partition it owns, from the fetch position on.
Batches(w) ==
    {b \in [Partitions -> 0..MaxFetch] :
        /\ \A p \in Partitions :
              /\ b[p] <= Len(log[p]) - pos[p]
              /\ b[p] > 0 => owner[p] = w
        /\ FetchSize(b) <= MaxFetch}

\* The records of fetch b.
Fetched(b) ==
    {r \in [part : Partitions, off : UNION {1..Len(log[p]) : p \in Partitions}] :
        pos[r.part] < r.off /\ r.off <= pos[r.part] + b[r.part]}

\* RedpandaQueue.Dequeue: the first record of the fetch becomes pendingRecord
\* and is returned; the fetch position moves past the whole batch, and the
\* other records of the fetch go out of reach with the local variable.
Dequeue(w) ==
    /\ pc[w] = "poll"
    /\ \E b \in Batches(w) : \E p \in Partitions :
          LET first == [part |-> p, off |-> pos[p] + 1] IN
          /\ b[p] > 0
          /\ at' = [at EXCEPT ![w] = first]
          /\ pos' = [q \in Partitions |-> pos[q] + b[q]]
          /\ dropped' = dropped \cup (Fetched(b) \ {first})
    /\ Goto(w, "guard")
    /\ UNCHANGED <<store, ingest, log, committed, owner, psub, xsub, execErr,
                   containers, faults>>

\* RedpandaQueue.CommitJob, called by commitOrLog.  The consumer is configured
\* with DisableAutoCommit and without AutoCommitMarks, and in such a client
\* MarkCommitRecords marks nothing and CommitMarkedOffsets finds nothing to
\* commit: the call succeeds and the broker's offset stays where it was.
Commit(w) ==
    /\ pc[w] = "commit"
    /\ at' = [at EXCEPT ![w] = NoRecord]
    /\ psub' = [psub EXCEPT ![w] = Blank]
    /\ xsub' = [xsub EXCEPT ![w] = Blank]
    /\ execErr' = [execErr EXCEPT ![w] = FALSE]
    /\ Goto(w, "poll")
    /\ UNCHANGED <<store, ingest, queueVars, containers, faults>>

\* The group moves partition p to another live worker, which resumes at the
\* committed offset (ConsumeResetOffset: the start of the log when there is
\* none): after the owner died, or when a worker joins the group.
Rebalance(p, w) ==
    /\ w # owner[p] /\ pc[w] # "down"
    /\ \/ pc[owner[p]] = "down" /\ UNCHANGED faults
       \/ pc[owner[p]] # "down" /\ Fault("rebalance")
    /\ owner' = [owner EXCEPT ![p] = w]
    /\ pos' = [pos EXCEPT ![p] = committed[p]]
    /\ dropped' = {r \in dropped : r.part # p}
    /\ UNCHANGED <<store, ingest, log, committed, workerVars, containers>>

\* A worker process dies; its container, if any, keeps running.
Crash(w) ==
    /\ pc[w] # "down"
    /\ Fault("crash")
    /\ Goto(w, "down")
    /\ at' = [at EXCEPT ![w] = NoRecord]
    /\ psub' = [psub EXCEPT ![w] = Blank]
    /\ xsub' = [xsub EXCEPT ![w] = Blank]
    /\ execErr' = [execErr EXCEPT ![w] = FALSE]
    /\ UNCHANGED <<store, ingest, queueVars, containers>>

\* The worker is restarted and resumes its partitions at the committed offset.
Restart(w) ==
    /\ pc[w] = "down"
    /\ Goto(w, "poll")
    /\ pos' = [p \in Partitions |-> IF owner[p] = w THEN committed[p] ELSE pos[p]]
    /\ dropped' = {r \in dropped : owner[r.part] # w}
    /\ UNCHANGED <<store, ingest, log, committed, owner, at, psub, xsub,
                   execErr, containers, faults>>

-----------------------------------------------------------------------------
(* Worker.processJob: the idempotent guard *)

\* Mutant of Admitted: the guard's status checks are dropped.
AdmittedAlways(label) == Statuses

\* The statuses the guard lets a job through with; any other is skipped.
Admitted(label) == IF label = "single" THEN {"pending"}
                                       ELSE {"pending", "running"}

\* Get and the guard: admitted, skipped and committed, or (Get failed)
\* abandoned without a commit.
Guard(w) ==
    LET j == JobOf(w) IN
    /\ pc[w] = "guard"
    /\ \/ /\ store[j.sub].status \in Admitted(j.label)
          /\ psub' = [psub EXCEPT ![w] = store[j.sub]]
          /\ Goto(w, "claim")
          /\ UNCHANGED <<at, faults>>
       \/ /\ store[j.sub].status \notin Admitted(j.label)
          /\ Goto(w, "commit")
          /\ UNCHANGED <<at, psub, faults>>
       \/ /\ Fault("get")
          /\ at' = [at EXCEPT ![w] = NoRecord]
          /\ Goto(w, "poll")
          /\ UNCHANGED psub
    /\ UNCHANGED <<store, ingest, queueVars, xsub, execErr, containers>>

\* setStatus(StatusDeploying) with the copy the guard read.
Claim(w) ==
    LET s == JobOf(w).sub
        r == [psub[w] EXCEPT !.status = "deploying"] IN
    /\ pc[w] = "claim"
    /\ psub' = [psub EXCEPT ![w] = r]
    /\ UpdateOrLog(s, r)
    /\ Goto(w, "load")
    /\ UNCHANGED <<ingest, queueVars, at, xsub, execErr, containers>>

-----------------------------------------------------------------------------
(* SandboxExecutor.Execute *)

\* Execute returns an error before the container exists.
ExecuteFails(w) ==
    /\ execErr' = [execErr EXCEPT ![w] = TRUE]
    /\ Goto(w, "reread")

\* Mutant of ExecuteReturns: Stop is not deferred and the return skips it.
ExecuteReturnsNoStop(w, err) ==
    /\ execErr' = [execErr EXCEPT ![w] = err]
    /\ Goto(w, "reread")

\* Execute returns with the container running: the deferred Stop comes first.
ExecuteReturns(w, err) ==
    /\ execErr' = [execErr EXCEPT ![w] = err]
    /\ Goto(w, "stop")

\* 1. Load submission.
Load(w) ==
    /\ pc[w] = "load"
    /\ \/ /\ xsub' = [xsub EXCEPT ![w] = store[JobOf(w).sub]]
          /\ Goto(w, "deploy")
          /\ UNCHANGED <<execErr, faults>>
       \/ Fault("get") /\ ExecuteFails(w) /\ UNCHANGED xsub
    /\ UNCHANGED <<store, ingest, queueVars, at, psub, containers>>

\* 2. Deploy sandbox: the container is named after the submission, so a
\* container left over from an earlier run makes the creation fail.
Deploy(w) ==
    LET s == JobOf(w).sub IN
    /\ pc[w] = "deploy"
    /\ \/ /\ s \notin containers
          /\ containers' = containers \cup {s}
          /\ Goto(w, "persist")
          /\ UNCHANGED execErr
       \/ ExecuteFails(w) /\ UNCHANGED containers
    /\ UNCHANGED <<store, ingest, queueVars, at, psub, xsub, faults>>

\* 3. Persist container metadata: the copy loaded before the deploy.
PersistContainer(w) ==
    /\ pc[w] = "persist"
    /\ UpdateOrLog(JobOf(w).sub, xsub[w])
    /\ Goto(w, "health")
    /\ UNCHANGED <<ingest, queueVars, at, psub, xsub, execErr, containers>>

\* 4. waitHealthy; 4a. the validator runs for the low profile only.
WaitHealthy(w) ==
    /\ pc[w] = "health"
    /\ \/ /\ Goto(w, IF JobOf(w).label = "low" THEN "preflight" ELSE "bench")
          /\ UNCHANGED execErr
       \/ ExecuteReturns(w, TRUE)
    /\ UNCHANGED <<store, ingest, queueVars, at, psub, xsub, containers, faults>>

\* runPreflightValidator runs the scenarios (passed, or failed / not
\* completed), and writeDryRunResult re-reads the submission.
Preflight(w) ==
    /\ pc[w] = "preflight"
    /\ GetOrCached(w)
    /\ \E passed \in BOOLEAN : execErr' = [execErr EXCEPT ![w] = ~passed]
    /\ Goto(w, "dryrun")
    /\ UNCHANGED <<store, ingest, queueVars, at, psub, containers>>

\* Mutant of WriteDryRun: the verdict is written but not acted upon.
WriteDryRunIgnoresVerdict(w) ==
    LET r == [xsub[w] EXCEPT !.dryRun = IF execErr[w] THEN "fail" ELSE "pass"] IN
    /\ pc[w] = "dryrun"
    /\ xsub' = [xsub EXCEPT ![w] = r]
    /\ UpdateOrLog(JobOf(w).sub, r)
    /\ execErr' = [execErr EXCEPT ![w] = FALSE]
    /\ Goto(w, "bench")
    /\ UNCHANGED <<ingest, queueVars, at, psub, containers>>

\* writeDryRunResult writes the verdict; a failed one goes on to markFailed.
WriteDryRun(w) ==
    LET r == [xsub[w] EXCEPT !.dryRun = IF execErr[w] THEN "fail" ELSE "pass"] IN
    /\ pc[w] = "dryrun"
    /\ xsub' = [xsub EXCEPT ![w] = r]
    /\ UpdateOrLog(JobOf(w).sub, r)
    /\ Goto(w, IF execErr[w] THEN "reject" ELSE "bench")
    /\ UNCHANGED <<ingest, queueVars, at, psub, execErr, containers>>

\* markFailed with the executor's copy, then Execute returns the error.
MarkFailed(w) ==
    LET r == [xsub[w] EXCEPT !.status = "failed"] IN
    /\ pc[w] = "reject"
    /\ xsub' = [xsub EXCEPT ![w] = r]
    /\ UpdateOrLog(JobOf(w).sub, r)
    /\ ExecuteReturns(w, TRUE)
    /\ UNCHANGED <<ingest, queueVars, at, psub, containers>>

\* 5. StatusBenchmarking, written with the executor's copy.
SetBenchmarking(w) ==
    LET r == [xsub[w] EXCEPT !.status = "benchmarking"] IN
    /\ pc[w] = "bench"
    /\ xsub' = [xsub EXCEPT ![w] = r]
    /\ UpdateOrLog(JobOf(w).sub, r)
    /\ Goto(w, "fleet")
    /\ UNCHANGED <<ingest, queueVars, at, psub, execErr, containers>>

\* runFleet and buildResults; a profile job re-reads the submission for the
\* append, a single-run job has nothing more to persist here.
RunFleet(w) ==
    /\ pc[w] = "fleet"
    /\ \/ ExecuteReturns(w, TRUE) /\ UNCHANGED <<xsub, faults>>
       \/ /\ JobOf(w).label = "single"
          /\ ExecuteReturns(w, FALSE) /\ UNCHANGED <<xsub, faults>>
       \/ /\ JobOf(w).label # "single"
          /\ GetOrCached(w)
          /\ Goto(w, "append") /\ UNCHANGED execErr
    /\ UNCHANGED <<store, ingest, queueVars, at, psub, containers>>

\* Mutant of AppendResult: AllResults is assigned instead of appended to.
AppendResultReplaces(w) ==
    LET j == JobOf(w)
        r == [xsub[w] EXCEPT !.results = <<j.label>>] IN
    /\ pc[w] = "append"
    /\ store' = [store EXCEPT ![j.sub] = r]
    /\ xsub' = [xsub EXCEPT ![w] = r]
    /\ Goto(w, IF IsLastProfile(j) THEN "score" ELSE "enqueue")
    /\ UNCHANGED <<ingest, queueVars, at, psub, execErr, containers, faults>>

\* Mutant of AppendResult: the IsLastProfile test is dropped, so the next
\* profile is always enqueued.
AppendResultAlwaysChains(w) ==
    LET j == JobOf(w)
        r == [xsub[w] EXCEPT !.results = Append(@, j.label)] IN
    /\ pc[w] = "append"
    /\ store' = [store EXCEPT ![j.sub] = r]
    /\ xsub' = [xsub EXCEPT ![w] = r]
    /\ Goto(w, "enqueue")
    /\ UNCHANGED <<ingest, queueVars, at, psub, execErr, containers, faults>>

\* 8. appendProfileResult: the only Update whose error Execute returns.
AppendResult(w) ==
    LET j == JobOf(w)
        r == [xsub[w] EXCEPT !.results = Append(@, j.label)] IN
    /\ pc[w] = "append"
    /\ \/ /\ store' = [store EXCEPT ![j.sub] = r]
          /\ xsub' = [xsub EXCEPT ![w] = r]
          /\ Goto(w, IF IsLastProfile(j) THEN "score" ELSE "enqueue")
          /\ UNCHANGED <<execErr, faults>>
       \/ Fault("update") /\ ExecuteReturns(w, TRUE) /\ UNCHANGED <<store, xsub>>
    /\ UNCHANGED <<ingest, queueVars, at, psub, containers>>

\* Mutant of EnqueueNext: the last remaining profile is taken, not the first.
EnqueueNextSkips(w) ==
    LET j    == JobOf(w)
        next == NewProfileJob(j.sub, j.remaining[Len(j.remaining)], <<>>) IN
    /\ pc[w] = "enqueue"
    /\ Produce(next) /\ ExecuteReturns(w, FALSE)
    /\ UNCHANGED <<store, ingest, committed, owner, pos, dropped, at, psub, xsub,
                   containers, faults>>

\* Mutant of EnqueueNext: the error of Enqueue is logged and swallowed.
EnqueueNextSwallows(w) ==
    LET j    == JobOf(w)
        next == NewProfileJob(j.sub, Head(j.remaining), Tail(j.remaining)) IN
    /\ pc[w] = "enqueue"
    /\ (Produce(next) /\ UNCHANGED faults) \/ ProduceFails(next)
    /\ ExecuteReturns(w, FALSE)
    /\ UNCHANGED <<store, ingest, committed, owner, pos, dropped, at, psub, xsub,
                   containers>>

\* 9. enqueueNextProfile.
EnqueueNext(w) ==
    LET j    == JobOf(w)
        next == NewProfileJob(j.sub, Head(j.remaining), Tail(j.remaining)) IN
    /\ pc[w] = "enqueue"
    /\ \/ Produce(next) /\ ExecuteReturns(w, FALSE) /\ UNCHANGED faults
       \/ ProduceFails(next) /\ Goto(w, "reject") /\ UNCHANGED execErr
    /\ UNCHANGED <<store, ingest, committed, owner, pos, dropped, at, psub, xsub,
                   containers>>

\* 9. computeAndWriteFinalScore re-reads the submission; on error it returns
\* without a score and Execute still succeeds.
LoadForScore(w) ==
    /\ pc[w] = "score"
    /\ \/ /\ xsub' = [xsub EXCEPT ![w] = store[JobOf(w).sub]]
          /\ Goto(w, "writescore")
          /\ UNCHANGED <<execErr, faults>>
       \/ Fault("get") /\ ExecuteReturns(w, FALSE) /\ UNCHANGED xsub
    /\ UNCHANGED <<store, ingest, queueVars, at, psub, containers>>

\* FinalScore sums the labels that have a result; a missing one counts zero.
WriteFinalScore(w) ==
    LET r == [xsub[w] EXCEPT !.final = Range(xsub[w].results)] IN
    /\ pc[w] = "writescore"
    /\ UpdateOrLog(JobOf(w).sub, r)
    /\ ExecuteReturns(w, FALSE)
    /\ UNCHANGED <<ingest, queueVars, at, psub, xsub, containers>>

\* 10. The deferred docker.Stop; its error is only logged.
StopContainer(w) ==
    /\ pc[w] = "stop"
    /\ \/ containers' = containers \ {JobOf(w).sub} /\ UNCHANGED faults
       \/ Fault("stop") /\ UNCHANGED containers
    /\ Goto(w, "reread")
    /\ UNCHANGED <<store, ingest, queueVars, at, psub, xsub, execErr>>

-----------------------------------------------------------------------------
(* Worker.processJob: the outcome *)

\* processJob re-reads the submission; on error it keeps its own old copy.
Reread(w) ==
    /\ pc[w] = "reread"
    /\ \/ psub' = [psub EXCEPT ![w] = store[JobOf(w).sub]] /\ UNCHANGED faults
       \/ Fault("get") /\ UNCHANGED psub
    /\ Goto(w, "outcome")
    /\ UNCHANGED <<store, ingest, queueVars, at, xsub, execErr, containers>>

\* Mutant of Outcome: the IsLastProfile test is dropped.
OutcomeIgnoresRemaining(r, j, err) ==
    IF err THEN [r EXCEPT !.status = "failed"]
    ELSE [r EXCEPT !.status = "completed", !.legacy = @ \/ j.label = "single"]

\* Mutant of Outcome: StatusRunning is not restored between two profiles.
OutcomeForgetsRunning(r, j, err) ==
    IF err THEN [r EXCEPT !.status = "failed"]
    ELSE IF IsLastProfile(j)
         THEN [r EXCEPT !.status = "completed", !.legacy = @ \/ j.label = "single"]
         ELSE r


\* The record processJob writes: failed, completed (with the legacy Results
\* of a single run), or running with more profiles to come.
Outcome(r, j, err) ==
    IF err THEN [r EXCEPT !.status = "failed"]
    ELSE IF IsLastProfile(j)
         THEN [r EXCEPT !.status = "completed",
                        !.legacy = @ \/ j.label = "single"]
         ELSE [r EXCEPT !.status = "running"]

\* setStatus of the outcome, then commitOrLog.
WriteOutcome(w) ==
    LET j == JobOf(w) IN
    /\ pc[w] = "outcome"
    /\ UpdateOrLog(j.sub, Outcome(psub[w], j, execErr[w]))
    /\ Goto(w, "commit")
    /\ UNCHANGED <<ingest, queueVars, at, psub, xsub, execErr, containers>>

-----------------------------------------------------------------------------
(* Specification *)

Init ==
    /\ store      = [s \in Subs |-> Blank]
    /\ ingest     = [s \in Subs |-> "new"]
    /\ log        = [p \in Partitions |-> <<>>]
    /\ committed  = [p \in Partitions |-> 0]
    /\ owner      \in [Partitions -> Workers]
    /\ pos        = [p \in Partitions |-> 0]
    /\ dropped    = {}
    /\ pc         = [w \in Workers |-> "poll"]
    /\ at         = [w \in Workers |-> NoRecord]
    /\ psub       = [w \in Workers |-> Blank]
    /\ xsub       = [w \in Workers |-> Blank]
    /\ execErr    = [w \in Workers |-> FALSE]
    /\ containers = {}
    /\ faults     = 0

IngestStep(s) == SaveSubmission(s) \/ EnqueueFirst(s) \/ IngestFailed(s)

WorkerStep(w) ==
    \/ Dequeue(w) \/ Guard(w) \/ Claim(w)
    \/ Load(w) \/ Deploy(w) \/ PersistContainer(w) \/ WaitHealthy(w)
    \/ Preflight(w) \/ WriteDryRun(w) \/ MarkFailed(w) \/ SetBenchmarking(w)
    \/ RunFleet(w) \/ AppendResult(w) \/ EnqueueNext(w)
    \/ LoadForScore(w) \/ WriteFinalScore(w) \/ StopContainer(w)
    \/ Reread(w) \/ WriteOutcome(w) \/ Commit(w)

Next ==
    \/ \E s \in Subs : IngestStep(s) \/ IngestAborts(s)
    \/ \E w \in Workers : WorkerStep(w) \/ Crash(w) \/ Restart(w)
    \/ \E p \in Partitions, w \in Workers : Rebalance(p, w)

Spec == Init /\ [][Next]_vars

\* A live process keeps taking steps, a dead one is restarted; nobody is
\* obliged to submit, and faults are never obliged to happen.
Fairness ==
    /\ \A s \in Subs : WF_vars(EnqueueFirst(s) \/ IngestFailed(s))
    /\ \A w \in Workers : WF_vars(WorkerStep(w)) /\ WF_vars(Restart(w))

FairSpec == Spec /\ Fairness

-----------------------------------------------------------------------------
(* Properties *)

\* Where a worker is when it is running a job it admitted.
Executing == {"claim", "load", "deploy", "persist", "health", "preflight",
              "dryrun", "reject", "bench", "fleet", "append", "enqueue",
              "score", "writescore", "stop", "reread", "outcome"}

\* Where a worker is when its job's container is up (until the deferred Stop).
ContainerUp == {"persist", "health", "preflight", "dryrun", "reject", "bench",
                "fleet", "append", "enqueue", "score", "writescore", "stop"}

Busy(w) == pc[w] \in Executing \cup {"guard", "commit"}

\* Types of the store and of the records and flags in flight.
StoreType ==
    /\ store \in [Subs -> Submission]
    /\ ingest \in [Subs -> {"new", "saved", "failing", "done"}]
    /\ psub \in [Workers -> Submission]
    /\ xsub \in [Workers -> Submission]
    /\ execErr \in [Workers -> BOOLEAN]
    /\ containers \subseteq Subs
    /\ faults \in 0..MaxFaults

\* Types of the queue; offsets stay within the log.
QueueType ==
    /\ log \in [Partitions -> Seq(Job)]
    /\ committed \in [Partitions -> Nat]
    /\ owner \in [Partitions -> Workers]
    /\ pos \in [Partitions -> Nat]
    /\ dropped \subseteq [part : Partitions, off : Nat \ {0}]
    /\ \A p \in Partitions : committed[p] <= Len(log[p]) /\ pos[p] <= Len(log[p])
    /\ \A r \in dropped : r.off <= pos[r.part]

\* Only a profile job appends a result, and only one with profiles left
\* enqueues the next.
Fits(l, j) ==
    /\ l \in {"append", "enqueue", "score", "writescore"} => j.label # "single"
    /\ l = "enqueue" => ~IsLastProfile(j)

\* Types of the workers; a busy worker's pendingRecord is a record of the log.
WorkerType ==
    /\ pc \in [Workers -> Executing \cup {"poll", "guard", "commit", "down"}]
    /\ at \in [Workers -> [part : Partitions, off : Nat]]
    /\ \A w \in Workers : Busy(w) =>
          at[w].off \in 1..Len(log[at[w].part]) /\ Fits(pc[w], JobOf(w))

\* Type invariant of the store, the queue and the workers: offsets never run
\* past the log and a busy worker's pendingRecord is a record of it.
TypeOK == StoreType /\ QueueType /\ WorkerType

\* The partition key keeps every job of a submission in one partition, and a
\* profile's job is never in the log before the job of the profile it follows
\* (low, medium, high): redelivery, rebalances and faults included.
ChainOrdered ==
    \A p \in Partitions : \A i \in 1..Len(log[p]) :
        LET j == log[p][i] IN
        /\ PartitionOf[j.sub] = p
        /\ j.label = "medium" =>
              \E k \in 1..(i - 1) : log[p][k].sub = j.sub /\ log[p][k].label = "low"
        /\ j.label = "high" =>
              \E k \in 1..(i - 1) : log[p][k].sub = j.sub /\ log[p][k].label = "medium"

\* As long as the group moves partitions of dead workers only, two workers
\* never execute jobs of one submission at the same time (the partition-key
\* argument of redpanda.go).
ExclusiveExecution ==
    \A v, w \in Workers :
        v # w /\ pc[v] \in Executing /\ pc[w] \in Executing
            => JobOf(v).sub # JobOf(w).sub

\* A terminal submission record is final: no later write changes its status,
\* its results or its score.
TerminalIsFinal ==
    [][\A s \in Subs : IsTerminal(store[s].status) => store'[s] = store[s]]_vars

\* A completed contest submission has a FinalScore built from all three
\* profiles and passed the pre-flight validator; a completed single run has
\* its legacy Results.
CompletedIsScored ==
    \A s \in Subs : store[s].status = "completed" =>
        IF s \in ContestSubs
        THEN store[s].final = Profiles /\ store[s].dryRun = "pass"
        ELSE store[s].legacy

\* AllResults grows in profile order: no medium result without a low one
\* before it, no high result without a medium one before it.
ResultsInOrder ==
    \A s \in Subs : \A i \in 1..Len(store[s].results) :
        LET r == store[s].results IN
        /\ r[i] = "medium" => \E k \in 1..(i - 1) : r[k] = "low"
        /\ r[i] = "high"   => \E k \in 1..(i - 1) : r[k] = "medium"

\* The bot fleet of a profile job runs only for a submission whose pre-flight
\* verdict is "pass", which has not been marked failed, and in which the
\* profile before this one has left its result.
FleetNeedsPreflight ==
    \A w \in Workers : pc[w] = "fleet" /\ JobOf(w).label # "single" =>
        LET j == JobOf(w)
            r == store[j.sub] IN
        /\ r.dryRun = "pass" /\ xsub[w].dryRun = "pass"
        /\ ~IsTerminal(r.status)
        /\ j.label = "medium" => "low" \in Range(r.results)
        /\ j.label = "high" => "medium" \in Range(r.results)

\* Where the group will read next in partition p.
Cursor(p) == IF pc[owner[p]] = "down" THEN committed[p] ELSE pos[p]

\* Somebody still has work to do for s: a worker holds a job of s, or a record
\* of s is still to be delivered.
HasWork(s) ==
    \/ \E w \in Workers : Busy(w) /\ JobOf(w).sub = s
    \/ \E p \in Partitions : \E i \in 1..Len(log[p]) :
          i > Cursor(p) /\ log[p][i].sub = s

\* A record of s was in a fetch of which Dequeue returned another record.
Dropped(s) == \E r \in dropped : log[r.part][r.off].sub = s

\* The rest of a fetch is all a worker loses: an accepted submission that is
\* not terminal still has a job being processed or to be delivered, unless a
\* job of it came second in a fetch.
LostInFetchOnly ==
    \A s \in Subs : ingest[s] = "done" /\ ~IsTerminal(store[s].status) =>
        HasWork(s) \/ Dropped(s)

\* After a non-final profile the worker marks the submission running "so the
\* idempotent guard lets the next profile job through": the guard skips a
\* medium or high job only when the submission is already terminal.
NextProfileLetThrough ==
    [][\A w \in Workers :
         /\ pc[w] = "guard" /\ pc'[w] = "commit"
         /\ JobOf(w).label \in {"medium", "high"}
         => IsTerminal(store[JobOf(w).sub].status)]_vars

\* The container of a submission exists only while a worker is inside Execute
\* for it: the deferred Stop runs on every path.
NoOrphanContainer ==
    \A s \in containers :
        \E w \in Workers : pc[w] \in ContainerUp /\ JobOf(w).sub = s


-----------------------------------------------------------------------------
(* What comments say and the code does not keep, see README.md *)

\* AllResults holds at most one result per profile: a redelivered job is
\* something "the idempotent guard in processJob handles correctly".
NoDuplicateResults ==
    \A s \in Subs : \A i, k \in 1..Len(store[s].results) :
        store[s].results[i] = store[s].results[k] => i = k

\* The guard skips a job of a submission in an intermediate status because
\* "another worker is already executing" it.
SkippedIsExecuting ==
    [][\A w \in Workers :
         /\ pc[w] = "guard" /\ pc'[w] = "commit"
         /\ ~IsTerminal(store[JobOf(w).sub].status)
         => \E v \in Workers : pc[v] \in Executing /\ JobOf(v).sub = JobOf(w).sub]_vars

\* No job is lost, as if the rest of a fetch stayed "in the client's internal
\* buffer": an accepted submission that is not terminal still has a job being
\* processed or to be delivered.
NoJobLost ==
    \A s \in Subs : ingest[s] = "done" /\ ~IsTerminal(store[s].status) => HasWork(s)

\* CommitJob advances the consumer group's committed offset: once a worker has
\* committed its job and polls again, the group will not resume before it.
CommitAdvances ==
    [][\A w \in Workers : pc[w] = "commit" /\ pc'[w] = "poll" =>
          committed'[at[w].part] >= at[w].off]_vars

=============================================================================
