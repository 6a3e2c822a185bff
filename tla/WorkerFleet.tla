---------------------------- MODULE WorkerFleet ----------------------------
(***************************************************************************)
(* One worker process beside its poll loop: the sandbox manager with its   *)
(* port pool and the Docker host it drives (internal/sandbox), the busy    *)
(* flag and job id of cmd/worker that Execute's callbacks set, the         *)
(* heartbeater that reports them (internal/worker/heartbeat.go), and the   *)
(* worker's record in the control plane (internal/orchestrator).           *)
(*                                                                         *)
(* The poll loop itself and what happens inside a run are in BenchPipeline *)
(* and BotFleetRun.  Other workers may share the Docker host and the port  *)
(* range; what they have on the host is in the way of this one.  Worker    *)
(* ids are unique, so the records of different workers do not interact.    *)
(* Time is counted in heartbeat intervals.                                 *)
(***************************************************************************)
EXTENDS Integers, Sequences, FiniteSets, Functions

CONSTANTS
    Jobs,       \* the submissions of the jobs the worker gets, in order
    NoJob,      \* the empty job id
    PortMin, PortMax,  \* the port range of the manager
    MaxPeers,   \* bound on the containers of other workers on the host
    TTL,        \* HeartbeatTTL in intervals (15 s of 5 s)
    MaxFaults   \* bound on the faults of a behaviour

Subs == Range(Jobs)
Ports == PortMin..PortMax

ASSUME WorkerFleetAssumption ==
    /\ NoJob \notin Subs /\ PortMin \in Nat \ {0} /\ PortMax \in Nat /\ TTL \in Nat \ {0}
    /\ Jobs \in Seq(Subs) /\ MaxFaults \in Nat /\ MaxPeers \in Nat

VARIABLES
    up,          \* the worker process runs
    pc,          \* where Execute is; "idle" between jobs
    sub, port,   \* Execute: the submission, and the port Deploy allocated
    busy,        \* workerBusy
    jobID,       \* currentJobID
    completed,   \* jobsCompleted
    used,        \* DockerManager.usedPorts: port -> submission
    containers,  \* this worker's containers on the Docker host
    peers,       \* the containers other workers have there: [sub, port]
    started,     \* auxiliary: jobs started so far
    hb,          \* Heartbeater.Run: pc, tick due, status read so far
    record,      \* the WorkerRecords of the registry: {} or {record}
    late,        \* reports the heartbeater gave up that are still under way
    faults       \* auxiliary: faults so far, by kind

jobVars == <<pc, sub, port, busy, jobID, completed, used, containers, started>>
vars == <<up, peers, jobVars, hb, record, late, faults>>

Fault(kind) ==
    /\ faults.beat + faults.docker + faults.crash + faults.plane < MaxFaults
    /\ faults' = [faults EXCEPT ![kind] = @ + 1]
NoFault == UNCHANGED faults

-----------------------------------------------------------------------------
(* Execute's callbacks *)

\* jobStarted, first half: workerBusy.Store(1).
JobStarts ==
    /\ up /\ pc = "idle" /\ started < Len(Jobs)
    /\ pc' = "name" /\ sub' = Jobs[started + 1] /\ busy' = TRUE /\ started' = started + 1
    /\ UNCHANGED <<up, peers, port, jobID, completed, used, containers, hb, record, late, faults>>

\* jobStarted, second half: currentJobID is set under its lock.
JobNamed ==
    /\ up /\ pc = "name"
    /\ pc' = "allocate" /\ jobID' = sub
    /\ UNCHANGED <<up, peers, sub, port, busy, completed, used, containers, started,
                   hb, record, late, faults>>

\* jobFinished, the last deferred call of Execute: three stores.
JobFinishes ==
    /\ up
    /\ \/ /\ pc = "finish" /\ pc' = "unname" /\ busy' = FALSE
          /\ UNCHANGED <<jobID, completed>>
       \/ /\ pc = "unname" /\ pc' = "count" /\ jobID' = NoJob
          /\ UNCHANGED <<busy, completed>>
       \/ /\ pc = "count" /\ pc' = "idle" /\ completed' = completed + 1
          /\ UNCHANGED <<busy, jobID>>
    /\ sub' = NoJob /\ port' = 0
    /\ UNCHANGED <<up, peers, used, containers, started, hb, record, late, faults>>

-----------------------------------------------------------------------------
(* DockerManager.Deploy and Stop *)

\* The container of the job; its name is that of the submission.
Mine(state) == [sub |-> sub, port |-> port, state |-> state]

\* Mutant of Free: the range is one port too long.
FreeBeyond == (PortMin..(PortMax + 1)) \ DOMAIN used

\* Mutant of Free: the last port of the range is left out.
FreeShort == (PortMin..(PortMax - 1)) \ DOMAIN used

\* The ports of the range without an entry.
Free == Ports \ DOMAIN used

\* Deploy up to the container: the image is there, and allocatePort takes the
\* lowest free port.
AllocatePort ==
    /\ up /\ pc = "allocate"
    /\ \/ Fault("docker") /\ pc' = "failed" /\ UNCHANGED <<port, used>>
       \/ /\ Free = {} /\ NoFault /\ pc' = "failed" /\ UNCHANGED <<port, used>>
       \/ /\ Free # {} /\ NoFault /\ pc' = "create"
          /\ port' = CHOOSE p \in Free : \A q \in Free : p <= q
          /\ used' = [p \in DOMAIN used \cup {port'} |->
                        IF p = port' THEN sub ELSE used[p]]
    /\ UNCHANGED <<up, peers, sub, busy, jobID, completed, containers, started, hb,
                   record, late>>

\* ContainerCreate refuses a name that is taken on the host.
CreateContainer ==
    LET taken == \E c \in containers \cup peers : c.sub = sub IN
    /\ up /\ pc = "create"
    /\ \/ /\ ~taken /\ NoFault /\ pc' = "start"
          /\ containers' = containers \cup {Mine("created")}
       \/ /\ taken /\ NoFault /\ pc' = "failed" /\ UNCHANGED containers
       \/ /\ ~taken /\ Fault("docker") /\ pc' = "failed" /\ UNCHANGED containers
    /\ UNCHANGED <<up, peers, sub, port, busy, jobID, completed, used, started, hb,
                   record, late>>

\* Mutant of AfterFailedStart: the container that did not start is kept.
AfterFailedStartKept == containers

\* injectArchive or ContainerStart failed: the container is removed by force.
AfterFailedStart == containers \ {Mine("created")}

\* injectArchive and ContainerStart; a host port that a running container of
\* any worker has published cannot be bound.  If the failure is that of the context, the
\* removal, which has the same context, fails too.
StartContainer ==
    LET bound == \/ \E c \in containers : c.state = "running" /\ c.port = port
                 \/ \E c \in peers : c.port = port
    IN
    /\ up /\ pc = "start"
    /\ \/ /\ ~bound /\ NoFault /\ pc' = "run"
          /\ containers' = (containers \ {Mine("created")}) \cup {Mine("running")}
       \/ /\ bound /\ NoFault /\ pc' = "failed"
          /\ containers' = AfterFailedStart
       \/ /\ Fault("docker") /\ pc' = "failed"
          /\ containers' \in {AfterFailedStart, containers}
    /\ UNCHANGED <<up, peers, sub, port, busy, jobID, completed, used, started, hb,
                   record, late>>

\* Deploy returns its error.  The deferred releasePort reads the result
\* hostPort, which the return has set to 0: the pool keeps its entry.
DeployFails ==
    /\ up /\ pc = "failed"
    /\ pc' = "finish"
    /\ used' = Restrict(used, DOMAIN used \ {0})
    /\ UNCHANGED <<up, peers, sub, port, busy, jobID, completed, containers, started,
                   hb, record, late, faults>>

\* The run is over, one way or the other.
RunEnds ==
    /\ up /\ pc = "run"
    /\ pc' = "stop"
    /\ UNCHANGED <<up, peers, sub, port, busy, jobID, completed, used, containers,
                   started, hb, record, late, faults>>

\* The contestant's process ends by itself (external).
ContainerExits ==
    /\ \E c \in containers :
          /\ c.state = "running"
          /\ containers' = (containers \ {c}) \cup {[c EXCEPT !.state = "exited"]}
    /\ UNCHANGED <<up, peers, pc, sub, port, busy, jobID, completed, used, started, hb,
                   record, late, faults>>

\* The host after a ContainerStop whose ContainerRemove failed.
StoppedKept == {IF c.sub = sub THEN [c EXCEPT !.state = "exited"] ELSE c : c \in containers}

\* The host after ContainerStop and ContainerRemove.
Stopped == {c \in containers : c.sub # sub}

\* The deferred Stop.  releasePortByContainerID looks for the container's id
\* among the values of usedPorts, which are submission ids.
StopContainer ==
    /\ up /\ pc = "stop" /\ pc' = "finish"
    /\ \/ containers' = Stopped /\ NoFault
       \/ /\ Fault("docker")
          /\ containers' \in {containers, StoppedKept}
    /\ UNCHANGED <<up, peers, sub, port, busy, jobID, completed, used, started, hb,
                   record, late>>

\* Another worker has its container started or removed (external): its pool
\* knows nothing of this worker's.
PeerDeploys(c) ==
    /\ Cardinality(peers) < MaxPeers
    /\ \A d \in containers \cup peers : d.sub # c.sub
    /\ \A d \in peers : d.port # c.port
    /\ \A d \in containers : d.state = "running" => d.port # c.port
    /\ peers' = peers \cup {c}
    /\ UNCHANGED <<up, jobVars, hb, record, late, faults>>

PeerRemoves(c) ==
    /\ peers' = peers \ {c}
    /\ UNCHANGED <<up, jobVars, hb, record, late, faults>>

PeerStep == \/ \E c \in [sub : Subs, port : Ports] : PeerDeploys(c)
            \/ \E c \in peers : PeerRemoves(c)

-----------------------------------------------------------------------------
(* WorkerRegistry *)

Registered == {[status |-> "idle", job |-> NoJob, completed |-> 0, age |-> 0]}

\* Register: a new record, or the old one reset.
Register == record' = Registered

\* Heartbeat: overwrites the record, a dead one too.
Heartbeat(r) ==
    record' = {[status |-> r.status, job |-> r.job, completed |-> r.completed, age |-> 0]}

\* Mutant of Alive: one interval less.
AliveShort(age) == IF age < TTL - 1 THEN {TRUE}
                   ELSE IF age = TTL - 1 THEN {TRUE, FALSE} ELSE {FALSE}

\* IsAlive at some moment of the interval: exactly TTL intervals after the
\* one of the last heartbeat it depends on the moment.
Alive(age) == IF age < TTL THEN {TRUE} ELSE IF age = TTL THEN {TRUE, FALSE} ELSE {FALSE}

\* List marks the worker dead and clears its job.
List ==
    /\ \E r \in record : /\ FALSE \in Alive(r.age) /\ r.status # "dead"
                         /\ record' = {[r EXCEPT !.status = "dead", !.job = NoJob]}
    /\ UNCHANGED <<up, peers, jobVars, hb, late, faults>>

\* Stats marks the worker dead.
Stats ==
    /\ \E r \in record : /\ FALSE \in Alive(r.age) /\ r.status # "dead"
                         /\ record' = {[r EXCEPT !.status = "dead"]}
    /\ UNCHANGED <<up, peers, jobVars, hb, late, faults>>

\* The control plane restarts with an empty registry (with workers, that is
\* in distributed mode, it has no sandbox manager and prunes nothing).
PlaneRestarts ==
    /\ Fault("plane")
    /\ record' = {}
    /\ UNCHANGED <<up, peers, jobVars, hb, late>>

-----------------------------------------------------------------------------
(* Heartbeater.Run *)

Off == [pc |-> "off", due |-> FALSE, job |-> NoJob,
        status |-> "idle", completed |-> 0]

\* An interval passes: the ticker of a running heartbeater fires, the record
\* ages.  A beat takes less than an interval (heartbeatTimeout).
Tick ==
    /\ up => hb.pc = "wait" /\ ~hb.due
    /\ hb' = [hb EXCEPT !.due = up]
    /\ record' = {[r EXCEPT !.age = IF @ > TTL THEN @ ELSE @ + 1] : r \in record}
    /\ UNCHANGED <<up, peers, jobVars, late, faults>>

\* register, at the start or after a 404.
SendRegister ==
    /\ up /\ hb.pc = "register"
    /\ hb' = [hb EXCEPT !.pc = "wait"]
    /\ \/ Register /\ NoFault
       \/ UNCHANGED record /\ Fault("beat")
    /\ UNCHANGED <<up, peers, jobVars, late>>

\* statusFn reads currentJobID under its lock ...
ReadJob ==
    /\ up /\ hb.pc = "wait" /\ hb.due
    /\ hb' = [hb EXCEPT !.pc = "busy?", !.due = FALSE, !.job = jobID]
    /\ UNCHANGED <<up, peers, jobVars, record, late, faults>>

\* Mutant of Report: the id that was read is reported whatever the flag says.
ReportRead(job) == [status |-> IF busy THEN "busy" ELSE "idle", job |-> job,
                    completed |-> completed]

\* The payload: only a busy worker names its job.
Report(job) == [status |-> IF busy THEN "busy" ELSE "idle",
                job |-> IF busy THEN job ELSE NoJob, completed |-> completed]

\* ... then workerBusy and jobsCompleted.
ReadBusy ==
    LET r == Report(hb.job) IN
    /\ up /\ hb.pc = "busy?"
    /\ hb' = [hb EXCEPT !.pc = "send", !.status = r.status, !.job = r.job,
                        !.completed = r.completed]
    /\ UNCHANGED <<up, peers, jobVars, record, late, faults>>

\* Mutant of Unknown: a 404 is an error like any other.
UnknownWaits == "wait"

\* Where the heartbeater goes on a 404: it registers at once.
Unknown == "register"

\* beat: answered, refused with 404, or given up; a request that was given
\* up may still arrive.
SendBeat ==
    LET payload == [status |-> hb.status, job |-> hb.job, completed |-> hb.completed]
        next(p) == hb' = [Off EXCEPT !.pc = p, !.due = hb.due]
    IN
    /\ up /\ hb.pc = "send"
    /\ \/ record # {} /\ Heartbeat(payload) /\ next("wait") /\ NoFault /\ UNCHANGED late
       \/ record = {} /\ UNCHANGED <<record, late>> /\ next(Unknown) /\ NoFault
       \/ /\ Fault("beat") /\ next("wait") /\ UNCHANGED record
          /\ late' \in {late, late \cup {payload}}
    /\ UNCHANGED <<up, peers, jobVars>>

\* A late request is handled after the heartbeater gave it up.
LateBeat ==
    /\ \E r \in late : /\ late' = late \ {r}
                       /\ IF record = {} THEN UNCHANGED record ELSE Heartbeat(r)
    /\ UNCHANGED <<up, peers, jobVars, hb, faults>>

-----------------------------------------------------------------------------
(* The process *)

\* The process dies: its memory is gone, its container runs on.
WorkerDies ==
    /\ up /\ Fault("crash")
    /\ up' = FALSE /\ pc' = "idle" /\ busy' = FALSE /\ jobID' = NoJob
    /\ completed' = 0 /\ used' = <<>> /\ hb' = Off /\ sub' = NoJob /\ port' = 0
    /\ UNCHANGED <<peers, containers, started, record, late>>

WorkerRestarts ==
    /\ ~up
    /\ up' = TRUE /\ hb' = [Off EXCEPT !.pc = "register"]
    /\ UNCHANGED <<peers, jobVars, record, late, faults>>

-----------------------------------------------------------------------------
(* Specification *)

Init ==
    /\ up = TRUE /\ pc = "idle" /\ sub = NoJob /\ port = 0
    /\ busy = FALSE /\ jobID = NoJob /\ completed = 0
    /\ used = <<>> /\ containers = {} /\ peers = {} /\ started = 0
    /\ hb = [Off EXCEPT !.pc = "register"] /\ record = {} /\ late = {}
    /\ faults = [beat |-> 0, docker |-> 0, crash |-> 0, plane |-> 0]

Execute == \/ JobNamed \/ AllocatePort \/ CreateContainer \/ StartContainer
           \/ DeployFails \/ RunEnds \/ StopContainer \/ JobFinishes

Beats == SendRegister \/ ReadJob \/ ReadBusy \/ SendBeat

Next ==
    \/ JobStarts \/ Execute \/ ContainerExits \/ PeerStep
    \/ List \/ Stats \/ PlaneRestarts
    \/ Tick \/ Beats \/ LateBeat
    \/ WorkerDies \/ WorkerRestarts

\* The goroutines of a running worker proceed, time passes, requests under
\* way arrive, and a dead worker is restarted (restart: unless-stopped).
Fairness == /\ WF_vars(Execute) /\ WF_vars(Beats) /\ WF_vars(Tick)
            /\ WF_vars(LateBeat) /\ WF_vars(WorkerRestarts)

Spec == Init /\ [][Next]_vars /\ Fairness

-----------------------------------------------------------------------------
(* Properties *)

\* The values each variable takes; the pool keeps to the configured range.
TypeOK ==
    /\ up \in BOOLEAN /\ busy \in BOOLEAN /\ jobID \in Subs \cup {NoJob}
    /\ pc \in {"idle", "name", "allocate", "create", "start", "failed", "run",
               "stop", "finish", "unname", "count"}
    /\ sub \in Subs \cup {NoJob} /\ port \in Ports \cup {0} /\ completed \in 0..Len(Jobs)
    /\ started \in 0..Len(Jobs)
    /\ DOMAIN used \subseteq Ports /\ \A p \in DOMAIN used : used[p] \in Subs
    /\ containers \subseteq [sub : Subs, port : Ports, state : {"created", "running", "exited"}]
    /\ peers \subseteq [sub : Subs, port : Ports]
    /\ hb.pc \in {"off", "register", "wait", "busy?", "send"} /\ hb.due \in BOOLEAN
    /\ Cardinality(record) <= 1
    /\ \A r \in record : /\ r.status \in {"idle", "busy", "dead"}
                         /\ r.job \in Subs \cup {NoJob} /\ r.age \in 0..(TTL + 1)

\* A worker that stayed up is shown dead only after it missed two beats: one
\* lost beat, however it interleaves with List and Stats, is tolerated
\* (HeartbeatTTL, IsAlive, Heartbeater.Run).
OneMissTolerated ==
    \A r \in record : r.status = "dead" /\ faults.crash = 0 => faults.beat >= 2

\* Whatever statusFn's two reads see and however late a report arrives, an
\* idle worker is not shown with a job (statusFn, Heartbeat, Register).
IdleHasNoJob == \A r \in record : r.status = "idle" => r.job = NoJob

\* A deploy that no fault of Docker or crash preceded fails for one of two
\* reasons only.  A job of another worker has the name or the port on the host,
\* or more jobs were started than the range has ports: every job costs the pool
\* at most one, and the previous run's cleanup left neither its name nor its
\* port in the way (Deploy, Stop).
DeployFailsForCause ==
    [][pc # "failed" /\ pc' = "failed" =>
          \/ faults'.docker + faults'.crash > 0
          \/ \E c \in peers : c.sub = sub \/ c.port = port
          \/ started > Cardinality(Ports)]_vars

\* Each failed Docker call and each crash leaves at most one container behind
\* (the removals in Deploy, the deferred Stop).
StraysPerFault ==
    Cardinality({c \in containers : pc \in {"start", "run", "stop"} => c.sub # sub})
        <= faults.docker + faults.crash

\* The record settles on what the worker does, after lost and late beats,
\* crashes and a forgotten registration: it stays, idle, with the jobs this
\* process has completed (Heartbeater.Run, Register, Heartbeat).
RegistryConverges ==
    <>[](pc = "idle" => \E r \in record : r.status = "idle" /\ r.completed = completed)

-----------------------------------------------------------------------------
(* Statements the code does not keep *)

\* The pool holds the ports of active sandboxes only.
PoolIsActive ==
    pc = "idle" => \A p \in DOMAIN used : \E c \in containers : c.port = p

\* A dead worker is shown without a job.
DeadHasNoJob == \A r \in record : r.status = "dead" => r.job = NoJob

\* A busy worker is shown with its job.
BusyHasJob == \A r \in record : r.status = "busy" => r.job # NoJob
=============================================================================
