--------------------------- MODULE MetricsWindows ---------------------------
(***************************************************************************)
(* From a finished bot fleet to the latency rows of TimescaleDB: the       *)
(* fleet's statistics (internal/botfleet/stats.go), the worker's emission  *)
(* of one event per answered order (executor.emitFleetTelemetry and        *)
(* internal/telemetry), the metrics.latency topic (external), and the      *)
(* consumer that cuts each submission's events into windows of a fixed     *)
(* width (internal/consumer, cmd/consumer).                                *)
(*                                                                         *)
(* Every submission is run by a worker process of its own.  All events of  *)
(* a submission have its id as key, hence one partition; the one partition *)
(* modelled here is shared by the submissions.  The consumer keeps its     *)
(* group session as long as it runs: it goes back to the committed offset  *)
(* only when it restarts, with its windows gone.                           *)
(***************************************************************************)
EXTENDS Integers, SequencesExt

CONSTANTS
    Subs,            \* submissions
    RunResults,      \* the possible functions Subs -> OrderResults of the run
    TpsWindow,       \* windowNs of computeMaxTPS (100 ms)
    WindowDuration,  \* width of a latency window (5 s)
    BatchSize,       \* telemetryBatchSize (100)
    MaxFaults        \* bound on lost events, consumer stops and failed writes

\* One OrderResult: its submission, its number in the run, when it was sent,
\* its latency and whether the send failed.
OrderResult == [sub : Subs, id : Nat, sentAt : Nat, lat : Nat, err : BOOLEAN]

ASSUME MetricsAssumption ==
    /\ \A run \in RunResults : /\ run \in [Subs -> Seq(OrderResult)]
                                /\ \A s \in Subs : \A i, j \in 1..Len(run[s]) :
                                      /\ run[s][i].sub = s
                                      /\ run[s][i].id = run[s][j].id => i = j
    /\ TpsWindow \in Nat /\ WindowDuration \in Nat \ {0}
    /\ BatchSize \in Nat \ {0} /\ MaxFaults \in Nat

VARIABLES
    results,    \* FleetResult.Results: bot after bot
    topics,     \* topics the broker has
    known,      \* topics each worker's Bootstrap has still to create
    next,       \* emitFleetTelemetry: loop index, beyond the end once it returned
    batch,      \* emitFleetTelemetry: the batch being filled
    buffered,   \* records the producer has not delivered
    closed,     \* workers that are gone
    log,        \* the partition of metrics.latency
    up,         \* the consumer process runs
    pos,        \* records handled and marked for commit
    committed,  \* committed offset of the group
    windows,    \* Consumer.windows
    rows,       \* latency_windows, keyed by submission and bucket
    faults      \* auxiliary: disturbances so far, by kind

workerVars == <<results, topics, known, next, batch, buffered, closed>>
consumerVars == <<up, pos, committed, windows, rows>>
vars == <<workerVars, log, consumerVars, faults>>

Fault(kind) ==
    /\ faults.emit + faults.stop + faults.write < MaxFaults
    /\ faults' = [faults EXCEPT ![kind] = @ + 1]

-----------------------------------------------------------------------------
(* ComputeStats *)

Sorted(s) == SortSeq(s, <)
Least(S) == CHOOSE x \in S : \A y \in S : x <= y
Greatest(S) == CHOOSE x \in S : \A y \in S : y <= x
Clamp(x, lo, hi) == IF x < lo THEN lo ELSE IF x > hi THEN hi ELSE x

\* Mutant of percentileValue: the rank is rounded down.
percentileValueFloor(sorted, pct) ==
    sorted[Clamp((pct * Len(sorted)) \div 100, 1, Len(sorted))]

\* Nearest rank: the element of 1-based rank ceil(pct/100 * n).
percentileValue(sorted, pct) ==
    sorted[Clamp((pct * Len(sorted) + 99) \div 100, 1, Len(sorted))]

\* The sliding window of computeMaxTPS: for each right end, left moves up
\* until the window fits.  The count is per window; times 10 is per second.
computeMaxTPS(sentAts) ==
    LET at == Sorted(sentAts)
        w[right \in 0..Len(at)] ==
            IF right = 0 THEN [left |-> 1, max |-> 0]
            ELSE LET p == w[right - 1]
                     left == Least({l \in p.left..right : at[right] - at[l] <= TpsWindow})
                 IN  [left |-> left, max |-> Greatest({p.max, right - left + 1})]
    IN  w[Len(at)].max

\* SustainedTPS is kept as the fraction orders / elapsed.
ComputeStats(rs) ==
    LET ok == SelectSeq(rs, LAMBDA r : ~r.err)
        counts == [total |-> Len(rs), successful |-> Len(ok),
                   errors |-> Len(rs) - Len(ok)]
        lats == Sorted([i \in 1..Len(ok) |-> ok[i].lat])
        sent == {ok[i].sentAt : i \in 1..Len(ok)}
        acked == {ok[i].sentAt + ok[i].lat : i \in 1..Len(ok)}
    IN  IF ok = <<>>
        THEN counts @@ [p50 |-> 0, p90 |-> 0, p99 |-> 0, elapsed |-> 0, max |-> 0]
        ELSE counts @@
             [p50 |-> percentileValue(lats, 50), p90 |-> percentileValue(lats, 90),
              p99 |-> percentileValue(lats, 99),
              elapsed |-> Greatest(acked) - Least(sent),
              max |-> computeMaxTPS([i \in 1..Len(ok) |-> ok[i].sentAt])]

-----------------------------------------------------------------------------
(* The emitter *)

AllTopics == {"metrics.latency", "metrics.heartbeat", "metrics.dlq"}

\* Bootstrap of a starting worker: list the topics, then create the missing
\* ones.  One that another worker created in between is not an error.
ListTopics(s) ==
    /\ known[s] = {"not listed"}
    /\ known' = [known EXCEPT ![s] = AllTopics \ topics]
    /\ UNCHANGED <<results, topics, next, batch, buffered, closed, log,
                   consumerVars, faults>>

CreateTopics(s) ==
    /\ known[s] \notin {{}, {"not listed"}}
    /\ topics' = topics \cup known[s]
    /\ known' = [known EXCEPT ![s] = {}]
    /\ UNCHANGED <<results, next, batch, buffered, closed, log,
                   consumerVars, faults>>

\* BatchEmit: the events are handed to the producer, unless it is closed.
BatchEmit(s, events) == IF s \in closed THEN buffered[s] ELSE buffered[s] \o events

\* emitFleetTelemetry: one turn of its loop.  A failed order has no event; a
\* full batch is flushed.
EmitResult(s) ==
    LET r == results[s][next[s]]
        b == IF r.err THEN batch[s] ELSE Append(batch[s], r)
        full == Len(b) >= BatchSize
    IN
    /\ known[s] = {} /\ next[s] <= Len(results[s])
    /\ next' = [next EXCEPT ![s] = @ + 1]
    /\ batch' = [batch EXCEPT ![s] = IF full THEN <<>> ELSE b]
    /\ buffered' = [buffered EXCEPT ![s] = IF full THEN BatchEmit(s, b) ELSE @]
    /\ UNCHANGED <<results, topics, known, closed, log, consumerVars, faults>>

\* Mutant of Rest: nothing is flushed after the loop.
RestNone(s) == <<>>

\* The batch that the loop left incomplete.
Rest(s) == batch[s]

\* The flush after the loop.
EmitRest(s) ==
    /\ known[s] = {} /\ next[s] = Len(results[s]) + 1
    /\ next' = [next EXCEPT ![s] = @ + 1]
    /\ batch' = [batch EXCEPT ![s] = <<>>]
    /\ buffered' = [buffered EXCEPT ![s] = BatchEmit(s, Rest(s))]
    /\ UNCHANGED <<results, topics, known, closed, log, consumerVars, faults>>

\* The producer delivers in order, exactly once (idempotent, all replicas).
Deliver(s) ==
    /\ buffered[s] # <<>>
    /\ log' = Append(log, Head(buffered[s]))
    /\ buffered' = [buffered EXCEPT ![s] = Tail(@)]
    /\ UNCHANGED <<results, topics, known, next, batch, closed,
                   consumerVars, faults>>

\* A record failed for good, or its context was cancelled: deliveryHook only
\* logs it.
RecordFails(s) ==
    /\ buffered[s] # <<>> /\ Fault("emit")
    /\ buffered' = [buffered EXCEPT ![s] = Tail(@)]
    /\ UNCHANGED <<results, topics, known, next, batch, closed, log,
                   consumerVars>>

\* Close, when the worker stops after its job: flush what is buffered.
CloseEmitter(s) ==
    /\ next[s] = Len(results[s]) + 2 /\ s \notin closed
    /\ log' = log \o buffered[s]
    /\ buffered' = [buffered EXCEPT ![s] = <<>>]
    /\ closed' = closed \cup {s}
    /\ UNCHANGED <<results, topics, known, next, batch, consumerVars, faults>>

\* The worker process dies during the emission.
WorkerDies(s) ==
    /\ s \notin closed /\ known[s] = {} /\ next[s] <= Len(results[s]) + 1
    /\ Fault("emit")
    /\ closed' = closed \cup {s}
    /\ next' = [next EXCEPT ![s] = Len(results[s]) + 2]
    /\ batch' = [batch EXCEPT ![s] = <<>>]
    /\ buffered' = [buffered EXCEPT ![s] = <<>>]
    /\ UNCHANGED <<results, topics, known, log, consumerVars>>

-----------------------------------------------------------------------------
(* The consumer *)

Bucket(e) == e.sentAt \div WindowDuration

\* A new accumulator with its first event.
Fresh(e) == [bucket |-> Bucket(e), samples |-> <<e>>]

Mean(lats) == FoldLeft(+, 0, lats) \div Len(lats)

\* Accumulator.Compute.  percentile is percentileValue again, computed in
\* floating point; TPS is sampleN over the fixed width.
Compute(samples) ==
    LET lats == Sorted([i \in 1..Len(samples) |-> samples[i].lat])
    IN  [samples |-> samples, sampleN |-> Len(samples),
         p50 |-> percentileValue(lats, 50), p90 |-> percentileValue(lats, 90),
         p99 |-> percentileValue(lats, 99), min |-> lats[1], max |-> lats[Len(lats)],
         mean |-> Mean(lats)]

\* The open windows of S that are not empty, by the key of their row.
ToWrite(S) == {<<s, windows[s].bucket>> : s \in {t \in S : windows[t].samples # <<>>}}

\* Mutant of WriteWindows: a conflicting row takes up the new samples.
WriteWindowsMerge(S) ==
    [k \in DOMAIN rows \cup ToWrite(S) |->
        IF k \notin ToWrite(S) THEN rows[k]
        ELSE Compute((IF k \in DOMAIN rows THEN rows[k].samples ELSE <<>>)
                     \o windows[k[1]].samples)]

\* The rows after WriteWindow of the windows of S: INSERT ... ON CONFLICT DO
\* NOTHING; an empty window is skipped.
WriteWindows(S) ==
    [k \in DOMAIN rows \cup ToWrite(S) |->
        IF k \in DOMAIN rows THEN rows[k] ELSE Compute(windows[k[1]].samples)]

\* handleRecord: add the event to its submission's window; an event of
\* another bucket first flushes the open window.
HandleRecord ==
    LET e == log[pos + 1]
        s == e.sub
        same == s \in DOMAIN windows /\ windows[s].bucket = Bucket(e)
    IN
    /\ up /\ pos < Len(log)
    /\ pos' = pos + 1
    /\ \/ /\ same
          /\ windows' = [windows EXCEPT ![s].samples = Append(@, e)]
          /\ UNCHANGED <<rows, faults>>
       \/ /\ ~same
          /\ windows' = [t \in DOMAIN windows \cup {s} |->
                            IF t = s THEN Fresh(e) ELSE windows[t]]
          /\ rows' = WriteWindows({s} \cap DOMAIN windows)
          /\ UNCHANGED faults
    /\ UNCHANGED <<workerVars, log, up, committed>>

\* The write of that flush fails, or its answer is lost: the error is logged,
\* the window stays open, and the event that caused the flush is marked
\* without having been added anywhere.
FlushFails ==
    LET e == log[pos + 1] IN
    /\ up /\ pos < Len(log) /\ e.sub \in DOMAIN windows
    /\ windows[e.sub].bucket # Bucket(e)
    /\ Fault("write")
    /\ pos' = pos + 1
    /\ rows' \in {rows, WriteWindows({e.sub})}
    /\ UNCHANGED <<workerVars, log, up, committed, windows>>

\* Mutant of Commit: without AutoCommitMarks what was fetched is committed,
\* handled or not.
CommitFetched ==
    /\ up /\ committed' = Len(log)
    /\ UNCHANGED <<workerVars, log, up, pos, windows, rows, faults>>

\* The auto-commit of the marked offsets.
Commit ==
    /\ up /\ committed' = pos
    /\ UNCHANGED <<workerVars, log, up, pos, windows, rows, faults>>

\* The rows flushAll may leave: it goes through the open windows and only logs
\* a write that fails; the process may be killed on the way.
flushAll == {WriteWindows(S) : S \in SUBSET DOMAIN windows}

\* SIGTERM: Run flushes the open windows and returns ctx.Err(), on which main
\* exits before the deferred Close could commit; or the process is killed.
StopConsumer ==
    /\ up /\ Fault("stop")
    /\ up' = FALSE
    /\ rows' \in flushAll
    /\ windows' = <<>>
    /\ UNCHANGED <<workerVars, log, pos, committed>>

\* A restarted consumer resumes at the committed offset.
StartConsumer ==
    /\ ~up
    /\ up' = TRUE /\ pos' = committed
    /\ UNCHANGED <<workerVars, log, committed, windows, rows, faults>>

-----------------------------------------------------------------------------
(* Specification *)

Init ==
    /\ results \in RunResults
    /\ topics = {}
    /\ known = [s \in Subs |-> {"not listed"}]
    /\ next = [s \in Subs |-> 1]
    /\ batch = [s \in Subs |-> <<>>] /\ buffered = [s \in Subs |-> <<>>]
    /\ closed = {} /\ log = <<>>
    /\ up = TRUE /\ pos = 0 /\ committed = 0
    /\ windows = <<>> /\ rows = <<>>
    /\ faults = [emit |-> 0, stop |-> 0, write |-> 0]

Worker(s) == ListTopics(s) \/ CreateTopics(s) \/ EmitResult(s) \/ EmitRest(s)

Next ==
    \/ \E s \in Subs : \/ Worker(s) \/ Deliver(s) \/ RecordFails(s)
                       \/ CloseEmitter(s) \/ WorkerDies(s)
    \/ HandleRecord \/ FlushFails \/ Commit \/ StopConsumer \/ StartConsumer

\* Processes run, the broker accepts what is produced, and the consumer is
\* restarted when it ends (restart: unless-stopped).
Fairness ==
    /\ \A s \in Subs : WF_vars(Worker(s)) /\ WF_vars(Deliver(s))
    /\ WF_vars(HandleRecord) /\ WF_vars(StartConsumer)

Spec == Init /\ [][Next]_vars /\ Fairness

-----------------------------------------------------------------------------
(* Properties *)

\* v is the pct-th percentile of the latencies of es: a sample that at least
\* pct percent of the samples do not exceed, and the least such.
IsPercentile(v, es, pct) ==
    LET enough(x) == 100 * Cardinality({i \in DOMAIN es : es[i].lat <= x}) >= pct * Len(es)
    IN  /\ enough(v) /\ \E i \in DOMAIN es : es[i].lat = v
        /\ \A i \in DOMAIN es : es[i].lat < v => ~enough(es[i].lat)

\* The percentiles p50, p90 and p99 of st are those of es.
Percentiles(st, es) == /\ IsPercentile(st.p50, es, 50) /\ IsPercentile(st.p90, es, 90)
                       /\ IsPercentile(st.p99, es, 99)

\* The figures match their reference.  In the statistics that are scored each
\* percentile is the least latency that enough answered orders keep, and MaxTPS
\* counts the densest stretch of TpsWindow, wherever in the run it starts; a
\* row's percentiles are those of its samples, and its mean lies within them
\* (ComputeStats, percentileValue, computeMaxTPS, Compute, percentile, mean).
StatsMatchReference ==
    /\ \A s \in Subs :
          LET st == ComputeStats(results[s])
              ok == SelectSeq(results[s], LAMBDA r : ~r.err)
              from(t) == Cardinality({i \in DOMAIN ok : ok[i].sentAt \in t..(t + TpsWindow)})
          IN  ok # <<>> =>
                /\ Percentiles(st, ok)
                /\ \A i \in DOMAIN ok : from(ok[i].sentAt) <= st.max
                /\ \E i \in DOMAIN ok : from(ok[i].sentAt) = st.max
    /\ \A k \in DOMAIN rows :
          /\ Percentiles(rows[k], rows[k].samples)
          /\ rows[k].min <= rows[k].mean /\ rows[k].mean <= rows[k].max

\* Whatever was lost, failed, replayed or stopped, a row is computed from
\* published events of its own submission and bucket, none counted twice
\* (handleRecord, WriteWindow, StartConsumer's replay).
RowsSound ==
    \A k \in DOMAIN rows :
        LET row == rows[k] IN
            /\ row.sampleN = Len(row.samples) /\ row.sampleN > 0
            /\ \A i \in 1..row.sampleN :
                  /\ row.samples[i] \in Range(log)
                  /\ row.samples[i].sub = k[1] /\ Bucket(row.samples[i]) = k[2]
                  /\ \A j \in 1..(i - 1) : row.samples[j].id # row.samples[i].id

\* The events of submission s in bucket b, and the buckets of s that handled
\* events have closed.
EventsOf(s, b) == {e \in Range(log) : e.sub = s /\ Bucket(e) = b}
ClosedBuckets(s) ==
    {Bucket(log[i]) : i \in {j \in 1..pos : log[j].sub = s /\
        \E k \in j..pos : log[k].sub = s /\ Bucket(log[k]) # Bucket(log[j])}}
    \ (IF s \in DOMAIN windows THEN {windows[s].bucket} ELSE {})

InOrder(s) == \A i, j \in 1..Len(log) :
    log[i].sub = s /\ log[j].sub = s /\ i <= j => Bucket(log[i]) <= Bucket(log[j])

\* As long as a submission's events come in time order, a window is complete:
\* each stop of the consumer and each failed write spoils at most one of its
\* windows, however commits, replays and flushes interleave (handleRecord,
\* flushWindow, flushAll, MarkCommitRecords, ON CONFLICT DO NOTHING).
DamagePerFault ==
    \A s \in Subs : InOrder(s) =>
        Cardinality({b \in ClosedBuckets(s) :
            <<s, b>> \notin DOMAIN rows
            \/ Range(rows[<<s, b>>].samples) # EventsOf(s, b)}) <= faults.stop + faults.write

\* Every answered order is published, unless the worker or the producer
\* failed, and the consumer gets through all that is published.
TelemetryDrains ==
    <>[](/\ up /\ pos = Len(log)
         /\ faults.emit = 0 =>
              \A s \in Subs : \A i \in 1..Len(results[s]) :
                 ~results[s][i].err => results[s][i] \in Range(log))

-----------------------------------------------------------------------------
(* Statements the code does not keep *)

\* Without any fault, a closed window was computed over all events of its
\* bucket.
WindowsComplete ==
    faults.stop + faults.write = 0 =>
        \A s \in Subs : \A k \in DOMAIN rows :
            k[1] = s /\ k[2] \in ClosedBuckets(s) =>
                EventsOf(s, k[2]) \cap Range(SubSeq(log, 1, pos))
                    = Range(rows[k].samples)
=============================================================================
