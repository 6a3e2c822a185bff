------------------------- MODULE WorkerFleet_proofs -------------------------
(***************************************************************************)
(* Proofs about WorkerFleet for any sequence of jobs, any port range, any  *)
(* HeartbeatTTL and any number of faults.                                  *)
(***************************************************************************)
EXTENDS WorkerFleet, FiniteSetTheorems, WellFoundedInduction, TLAPS

-----------------------------------------------------------------------------
(* The inductive invariant *)

JobIDs == Subs \cup {NoJob}

FaultType == faults \in [beat : Nat, docker : Nat, crash : Nat, plane : Nat]

\* Execute and the pool: a job that is under way has a submission, one that
\* has got past allocatePort has a port, and each started job counts once.
JobInv ==
    /\ up \in BOOLEAN /\ busy \in BOOLEAN /\ jobID \in JobIDs
    /\ pc \in {"idle", "name", "allocate", "create", "start", "failed", "run",
               "stop", "finish", "unname", "count"}
    /\ pc # "idle" => up
    /\ sub \in JobIDs
    /\ pc \notin {"idle", "unname", "count"} => sub \in Subs
    /\ port \in Ports \cup {0}
    /\ pc \in {"create", "start", "run", "stop"} => port \in Ports
    /\ completed \in Nat /\ started \in 0..Len(Jobs)
    /\ completed + (IF pc = "idle" THEN 0 ELSE 1) <= started
    /\ DOMAIN used \subseteq Ports /\ \A p \in DOMAIN used : used[p] \in Subs

Container == [sub : Subs, port : Ports, state : {"created", "running", "exited"}]

\* The job has a container of its own on the host.
Deployed == pc \in {"start", "run", "stop"}

Strays == {c \in containers : Deployed => c.sub # sub}

\* The host: no two containers have the same name, and until something fails
\* the only container is that of the job.
HostInv ==
    /\ containers \subseteq Container /\ IsFiniteSet(containers)
    /\ \A c, d \in containers : c.sub = d.sub => c = d
    /\ pc = "start" => Mine("created") \in containers
    /\ faults.docker + faults.crash = 0 =>
          \A c \in containers : Deployed /\ c.sub = sub
    /\ Cardinality(Strays) <= faults.docker + faults.crash

\* An idle worker names no job.
Honest(r) == r.status = "idle" => r.job = NoJob

\* The heartbeater: a tick is due only while it waits, and what it is about to
\* send, has sent or has given up names a job only when busy.
BeatInv ==
    /\ hb \in [pc : {"off", "register", "wait", "busy?", "send"}, due : BOOLEAN,
               job : JobIDs, status : {"idle", "busy"}, completed : Nat]
    /\ hb.due => hb.pc = "wait"
    /\ hb.pc = "send" => Honest(hb)
    /\ late \subseteq [status : {"idle", "busy"}, job : JobIDs, completed : Nat]
    /\ \A r \in late : Honest(r)

\* The age a record may have before the beat that is due is answered.
Grace == IF hb.pc = "wait" /\ ~hb.due THEN 0 ELSE 1

\* The registry: while the process has not died, the age of its record counts
\* the beats it missed.
RecordInv ==
    /\ record \subseteq [status : {"idle", "busy", "dead"}, job : JobIDs,
                         completed : Nat, age : 0..(TTL + 1)]
    /\ \A r, s \in record : r = s
    /\ \A r \in record : Honest(r)
    /\ faults.crash = 0 =>
          /\ up
          /\ \A r \in record : /\ r.age <= faults.beat + Grace
                               /\ r.status = "dead" => faults.beat >= TTL - 1

\* The pool: every job that got past allocatePort has cost it at most one port.
PoolInv ==
    /\ IsFiniteSet(DOMAIN used)
    /\ Cardinality(DOMAIN used) + (IF pc \in {"name", "allocate"} THEN 1 ELSE 0) <= started

PeerInv == peers \subseteq [sub : Subs, port : Ports]

WorkerInv ==
    FaultType /\ JobInv /\ PoolInv /\ PeerInv /\ HostInv /\ BeatInv /\ RecordInv

-----------------------------------------------------------------------------
(* Faults and ports *)

\* A fault counts once, under its own kind.
LEMMA FaultCounts ==
    ASSUME FaultType, NEW kind \in {"beat", "docker", "crash", "plane"}, Fault(kind)
    PROVE  /\ FaultType'
           /\ faults'[kind] = faults[kind] + 1
           /\ \A k \in {"beat", "docker", "crash", "plane"} \ {kind} : faults'[k] = faults[k]
  BY DEF FaultType, Fault

\* No step forgets a fault.
LEMMA FaultsGrow ==
    ASSUME FaultType, [Next]_vars
    PROVE  /\ FaultType'
           /\ faults'.beat >= faults.beat /\ faults'.docker >= faults.docker
           /\ faults'.crash >= faults.crash
  <1>1. CASE UNCHANGED faults
    BY <1>1 DEF FaultType
  <1>2. ASSUME NEW kind \in {"beat", "docker", "crash", "plane"}, Fault(kind)
        PROVE  /\ FaultType'
               /\ faults'.beat >= faults.beat /\ faults'.docker >= faults.docker
               /\ faults'.crash >= faults.crash
    BY <1>2, FaultCounts DEF FaultType
  <1>3. UNCHANGED faults \/ \E kind \in {"beat", "docker", "crash", "plane"} : Fault(kind)
    BY DEF Next, Execute, Beats, vars, JobStarts, JobNamed, AllocatePort, CreateContainer,
           StartContainer, DeployFails, RunEnds, StopContainer, JobFinishes, ContainerExits,
           List, Stats, PlaneRestarts, Tick, SendRegister, ReadJob, ReadBusy, SendBeat,
           LateBeat, WorkerDies, WorkerRestarts, PeerStep, PeerDeploys, PeerRemoves, NoFault
  <1>4. QED
    BY <1>1, <1>2, <1>3

\* allocatePort's scan of the range finds its lowest free port.
LEMMA LowestFree ==
    ASSUME Free # {}
    PROVE  (CHOOSE p \in Free : \A q \in Free : p <= q) \in Free
  <1>1. Free \subseteq Nat
    BY WorkerFleetAssumption DEF Free, Ports
  <1>2. PICK p \in Free : \A q \in Free : ~(<<q, p>> \in OpToRel(<, Nat))
    BY <1>1, NatLessThanWellFounded, WFMin, Zenon
  <1>3. ASSUME NEW q \in Free PROVE p <= q
    <2>1. q \in Nat /\ p \in Nat
      BY <1>1
    <2>2. ~(q < p)
      BY <1>2, <2>1 DEF OpToRel
    <2>3. QED
      BY <2>1, <2>2
  <1>4. QED
    BY <1>3, Zenon

-----------------------------------------------------------------------------
(* Execute and the pool *)

\* A step of the registry, of the heartbeater or of another worker leaves the
\* job alone.
LEMMA OutsideJob ==
    ASSUME \/ List \/ Stats \/ PlaneRestarts \/ Tick \/ Beats \/ LateBeat \/ PeerStep
           \/ UNCHANGED vars
    PROVE  UNCHANGED <<up, jobVars>>
  BY DEF List, Stats, PlaneRestarts, Tick, Beats, SendRegister, ReadJob, ReadBusy,
         SendBeat, LateBeat, PeerStep, PeerDeploys, PeerRemoves, vars

\* Deploy's steps.
LEMMA DeployKeepsJob ==
    ASSUME JobInv, AllocatePort \/ CreateContainer \/ StartContainer \/ DeployFails
    PROVE  JobInv'
  <1> USE DEF JobInv
  <1>1. CASE AllocatePort
    <2> USE <1>1 DEF AllocatePort
    <2>1. CASE pc' = "failed" /\ UNCHANGED <<port, used>>
      BY <2>1
    <2>2. CASE Free # {} /\ pc' = "create" /\ port' = (CHOOSE p \in Free : \A q \in Free : p <= q)
               /\ used' = [p \in DOMAIN used \cup {port'} |-> IF p = port' THEN sub ELSE used[p]]
      <3>1. port' \in Ports
        BY <2>2, LowestFree DEF Free
      <3>2. DOMAIN used' \subseteq Ports /\ \A p \in DOMAIN used' : used'[p] \in Subs
        BY <2>2, <3>1
      <3>3. QED
        BY <2>2, <3>1, <3>2
    <2>3. QED
      BY <2>1, <2>2
  <1>2. CASE CreateContainer
    BY <1>2 DEF CreateContainer
  <1>3. CASE StartContainer
    BY <1>3 DEF StartContainer
  <1>4. CASE DeployFails
    <2>1. DOMAIN used' \subseteq Ports /\ \A p \in DOMAIN used' : used'[p] \in Subs
      BY <1>4 DEF DeployFails, Restrict
    <2>2. QED
      BY <1>4, <2>1 DEF DeployFails
  <1>5. QED
    BY <1>1, <1>2, <1>3, <1>4

\* Every step keeps JobInv.
LEMMA JobStep ==
    ASSUME JobInv, [Next]_vars
    PROVE  JobInv'
  <1> USE DEF JobInv
  <1> Len(Jobs) \in Nat
    BY WorkerFleetAssumption
  <1>1. CASE UNCHANGED <<up, jobVars>>
    BY <1>1 DEF jobVars
  <1>2. CASE JobStarts
    <2>1. Jobs[started + 1] \in Subs
      BY <1>2, WorkerFleetAssumption DEF JobStarts
    <2>2. QED
      BY <1>2, <2>1, WorkerFleetAssumption DEF JobStarts, JobIDs
  <1>3. CASE JobNamed
    BY <1>3 DEF JobNamed
  <1>4. CASE RunEnds
    BY <1>4 DEF RunEnds
  <1>5. CASE StopContainer
    BY <1>5 DEF StopContainer
  <1>6. CASE JobFinishes
    <2>1. port' \in Ports \cup {0} /\ busy' \in BOOLEAN /\ jobID' \in JobIDs /\ sub' \in JobIDs
      BY <1>6 DEF JobFinishes, JobIDs, Ports
    <2>2. QED
      BY <1>6, <2>1 DEF JobFinishes
  <1>7. CASE ContainerExits
    BY <1>7 DEF ContainerExits
  <1>8. CASE WorkerDies
    <2>1. DOMAIN used' = {}
      BY <1>8 DEF WorkerDies
    <2>2. port' \in Ports \cup {0} /\ busy' \in BOOLEAN /\ jobID' \in JobIDs /\ sub' \in JobIDs
      BY <1>8 DEF WorkerDies, JobIDs, Ports
    <2>3. up' = FALSE /\ pc' = "idle" /\ completed' = 0 /\ started' = started
      BY <1>8 DEF WorkerDies
    <2>4. started' \in 0..Len(Jobs) 
      BY <2>3
    <2>5. completed' + 0 <= started'
      BY <2>3, <2>4
    <2>6. pc' # "idle" => up'
      BY <2>3
    <2>7. up' \in BOOLEAN
      BY <2>3
    <2>8. completed' + (IF pc' = "idle" THEN 0 ELSE 1) <= started'
      BY <2>3, <2>5
    <2>9. QED
      BY <2>1, <2>2, <2>3, <2>4, <2>5, <2>6, <2>7, <2>8
  <1>9. CASE WorkerRestarts
    BY <1>9 DEF WorkerRestarts, jobVars
  <1>10. QED
    BY <1>1, <1>2, <1>3, <1>4, <1>5, <1>6, <1>7, <1>8, <1>9, DeployKeepsJob, OutsideJob
       DEF Next, Execute

-----------------------------------------------------------------------------
(* The Docker host and the pool *)

\* A subset of a finite set with at most one element more than another.
LEMMA OneMore ==
    ASSUME NEW S, IsFiniteSet(S), NEW x, NEW T, T \subseteq S \cup {x}
    PROVE  IsFiniteSet(T) /\ Cardinality(T) <= Cardinality(S) + 1
  <1>1. IsFiniteSet(S \cup {x}) /\ Cardinality(S \cup {x}) <= Cardinality(S) + 1
    <2>1. Cardinality(S) \in Nat
      BY FS_CardinalityType
    <2>2. /\ IsFiniteSet(S \cup {x})
          /\ Cardinality(S \cup {x}) = IF x \in S THEN Cardinality(S) ELSE Cardinality(S) + 1
      BY FS_AddElement, Zenon
    <2>3. QED
      BY <2>1, <2>2
  <1>2. IsFiniteSet(T) /\ Cardinality(T) <= Cardinality(S \cup {x})
    BY <1>1, FS_Subset
  <1>3. Cardinality(S) \in Nat /\ Cardinality(S \cup {x}) \in Nat /\ Cardinality(T) \in Nat
    BY <1>1, <1>2, FS_CardinalityType
  <1>4. QED
    BY <1>1, <1>2, <1>3

\* Every step keeps PoolInv: allocatePort adds one port for a job that was
\* counted when it started.
LEMMA PoolStep ==
    ASSUME JobInv, PoolInv, [Next]_vars
    PROVE  PoolInv'
  <1>0. /\ Cardinality(DOMAIN used) \in Nat /\ started \in Nat
    BY FS_CardinalityType, WorkerFleetAssumption DEF PoolInv, JobInv
  <1>1. CASE UNCHANGED <<pc, used, started>>
    BY <1>1 DEF PoolInv
  <1>2. CASE UNCHANGED <<used, started>> /\ pc' \notin {"name", "allocate"}
    BY <1>0, <1>2 DEF PoolInv
  <1>3. CASE JobStarts
    <2>1. pc = "idle" /\ pc' = "name" /\ started' = started + 1 /\ UNCHANGED used
      BY <1>3 DEF JobStarts
    <2>2. QED
      BY <1>0, <2>1 DEF PoolInv
  <1>4. CASE JobNamed
    <2>1. pc = "name" /\ pc' = "allocate" /\ UNCHANGED <<used, started>>
      BY <1>4 DEF JobNamed
    <2>2. QED
      BY <1>0, <2>1 DEF PoolInv
  <1>5. CASE AllocatePort
    <2>1. CASE pc' = "failed" /\ UNCHANGED used
      BY <1>2, <1>5, <2>1 DEF AllocatePort
    <2>2. CASE pc' = "create" /\ DOMAIN used' = DOMAIN used \cup {port'}
      <3>1. /\ IsFiniteSet(DOMAIN used')
            /\ Cardinality(DOMAIN used') <= Cardinality(DOMAIN used) + 1
        BY <2>2, OneMore DEF PoolInv
      <3>2. Cardinality(DOMAIN used') \in Nat
        BY <3>1, FS_CardinalityType
      <3>3. pc = "allocate" /\ started' = started
        BY <1>5 DEF AllocatePort
      <3>4. Cardinality(DOMAIN used) + 1 <= started
        BY <3>3 DEF PoolInv
      <3>5. Cardinality(DOMAIN used') + 0 <= started'
        BY <1>0, <3>1, <3>2, <3>3, <3>4
      <3>6. QED
        BY <2>2, <3>1, <3>5 DEF PoolInv
    <2>3. QED
      BY <1>5, <2>1, <2>2 DEF AllocatePort
  <1>6. CASE DeployFails
    <2>1. DOMAIN used' \subseteq DOMAIN used /\ pc = "failed" /\ pc' = "finish"
          /\ started' = started
      BY <1>6 DEF DeployFails, Restrict
    <2>2. IsFiniteSet(DOMAIN used') /\ Cardinality(DOMAIN used') <= Cardinality(DOMAIN used)
      BY <2>1, FS_Subset DEF PoolInv
    <2>3. Cardinality(DOMAIN used') \in Nat
      BY <2>2, FS_CardinalityType
    <2>4. Cardinality(DOMAIN used) <= started
      BY <1>0, <2>1 DEF PoolInv
    <2>5. Cardinality(DOMAIN used') + 0 <= started'
      BY <1>0, <2>1, <2>2, <2>3, <2>4
    <2>6. QED
      BY <2>1, <2>2, <2>5 DEF PoolInv
  <1>7. CASE WorkerDies
    <2>1. DOMAIN used' = {} /\ pc' = "idle" /\ started' = started
      BY <1>7 DEF WorkerDies
    <2>2. IsFiniteSet(DOMAIN used') /\ Cardinality(DOMAIN used') = 0
      BY <2>1, FS_EmptySet
    <2>3. Cardinality(DOMAIN used') + 0 <= started'
      BY <1>0, <2>1, <2>2
    <2>4. QED
      BY <2>1, <2>2, <2>3 DEF PoolInv
  <1>8. CASE CreateContainer \/ StartContainer \/ RunEnds \/ StopContainer \/ JobFinishes
    BY <1>2, <1>8 DEF CreateContainer, StartContainer, RunEnds, StopContainer, JobFinishes
  <1>9. CASE ContainerExits \/ WorkerRestarts
    BY <1>1, <1>9 DEF ContainerExits, WorkerRestarts, jobVars
  <1>10. CASE UNCHANGED <<up, jobVars>>
    BY <1>1, <1>10 DEF jobVars
  <1>11. QED
    BY <1>3, <1>4, <1>5, <1>6, <1>7, <1>8, <1>9, <1>10, OutsideJob DEF Next, Execute

\* Every step keeps PeerInv: only the other workers change what they have on
\* the host.
LEMMA PeerStepTyped ==
    ASSUME PeerInv, [Next]_vars
    PROVE  PeerInv'
  <1>1. CASE PeerStep
    BY <1>1 DEF PeerStep, PeerDeploys, PeerRemoves, PeerInv
  <1>2. CASE UNCHANGED peers
    BY <1>2 DEF PeerInv
  <1>3. UNCHANGED peers \/ PeerStep
    BY DEF Next, Execute, Beats, vars, JobStarts, JobNamed, AllocatePort, CreateContainer,
           StartContainer, DeployFails, RunEnds, StopContainer, JobFinishes, ContainerExits,
           List, Stats, PlaneRestarts, Tick, SendRegister, ReadJob, ReadBusy, SendBeat,
           LateBeat, WorkerDies, WorkerRestarts
  <1>4. QED
    BY <1>1, <1>2, <1>3

\* The strays of a host state.
LEMMA StraysFinite ==
    ASSUME HostInv
    PROVE  IsFiniteSet(Strays) /\ Cardinality(Strays) \in Nat
  BY FS_Subset, FS_CardinalityType DEF HostInv, Strays

\* The invariant holds again when the strays have not grown.
LEMMA NoNewStray ==
    ASSUME HostInv, FaultType, FaultType', Strays' \subseteq Strays,
           faults'.docker >= faults.docker, faults'.crash >= faults.crash
    PROVE  Cardinality(Strays') <= faults'.docker + faults'.crash
  <1>1. IsFiniteSet(Strays') /\ Cardinality(Strays') <= Cardinality(Strays)
    BY StraysFinite, FS_Subset
  <1>2. Cardinality(Strays') \in Nat
    BY <1>1, FS_CardinalityType
  <1>3. QED
    BY <1>1, <1>2, StraysFinite DEF FaultType, HostInv

\* It also holds when a fault has left one container behind.
LEMMA OneNewStray ==
    ASSUME HostInv, FaultType, FaultType', NEW x, Strays' \subseteq Strays \cup {x},
           faults'.docker + faults'.crash = faults.docker + faults.crash + 1
    PROVE  Cardinality(Strays') <= faults'.docker + faults'.crash
  <1>1. IsFiniteSet(Strays') /\ Cardinality(Strays') <= Cardinality(Strays) + 1
    BY StraysFinite, OneMore
  <1>2. Cardinality(Strays') \in Nat
    BY <1>1, FS_CardinalityType
  <1>3. QED
    BY <1>1, <1>2, StraysFinite DEF FaultType, HostInv

\* The job's container, by name.
LEMMA OwnContainer ==
    ASSUME HostInv
    PROVE  \E x : \A c \in containers : c.sub = sub => c = x
  <1>1. CASE \E x \in containers : x.sub = sub
    BY <1>1 DEF HostInv
  <1>2. QED
    BY <1>1

\* A fault leaves at most the job's own container behind.
LEMMA FaultLeavesOwn ==
    ASSUME HostInv, FaultType, FaultType', containers' \subseteq containers,
           ~Deployed' \/ UNCHANGED sub,
           faults'.docker + faults'.crash = faults.docker + faults.crash + 1
    PROVE  Cardinality(Strays') <= faults'.docker + faults'.crash
  <1>1. PICK x : \A c \in containers : c.sub = sub => c = x
    BY OwnContainer
  <1>2. Strays' \subseteq Strays \cup {x}
    BY <1>1 DEF Strays
  <1>3. QED
    BY <1>2, OneNewStray

\* Deploy's steps: ContainerCreate never gives a name twice, and what a failed
\* start leaves behind is the job's own container.
LEMMA DeployKeepsHost ==
    ASSUME FaultType, FaultType', JobInv, HostInv, CreateContainer \/ StartContainer
    PROVE  HostInv'
  <1>1. CASE CreateContainer
    <2> USE <1>1 DEF CreateContainer
    <2>1. CASE /\ \A c \in containers : c.sub # sub
               /\ NoFault /\ pc' = "start" /\ containers' = containers \cup {Mine("created")}
      <3>1. Mine("created") \in Container /\ Mine("created").sub = sub
        BY DEF JobInv, Container, Mine
      <3>2. containers' \subseteq Container /\ IsFiniteSet(containers')
        BY <2>1, <3>1, FS_AddElement DEF HostInv
      <3>3. \A c, d \in containers' : c.sub = d.sub => c = d
        BY <2>1, <3>1 DEF HostInv
      <3>4. Mine("created")' \in containers'
        BY <2>1 DEF Mine
      <3>5. \A c \in containers' : faults.docker + faults.crash = 0 => c.sub = sub
        BY <2>1, <3>1 DEF HostInv, Deployed
      <3>6. Strays' \subseteq Strays
        BY <2>1, <3>1 DEF Strays, Deployed
      <3>7. Cardinality(Strays') <= faults'.docker + faults'.crash
        BY <2>1, <3>6, NoNewStray DEF NoFault, FaultType
      <3>8. QED
        BY <2>1, <3>2, <3>3, <3>4, <3>5, <3>7 DEF HostInv, Deployed, NoFault
    <2>2. CASE pc' = "failed" /\ UNCHANGED containers /\ (NoFault \/ Fault("docker"))
      <3>1. Strays' \subseteq Strays
        BY <2>2 DEF Strays, Deployed
      <3>2. faults'.docker >= faults.docker /\ faults'.crash >= faults.crash
        BY <2>2, FaultCounts DEF NoFault, FaultType
      <3>3. Cardinality(Strays') <= faults'.docker + faults'.crash
        BY <3>1, <3>2, NoNewStray
      <3>4. faults'.docker + faults'.crash = 0 => containers' = {}
        BY <2>2, <3>2 DEF HostInv, Deployed, FaultType
      <3>5. QED
        BY <2>2, <3>3, <3>4 DEF HostInv
    <2>3. QED
      BY <2>1, <2>2
  <1>2. CASE StartContainer
    <2> USE <1>2 DEF StartContainer
    <2>0. pc = "start" /\ Mine("created") \in containers /\ Mine("created").sub = sub
      BY DEF HostInv, Mine
    <2>1. CASE /\ NoFault /\ pc' = "run"
               /\ containers' = (containers \ {Mine("created")}) \cup {Mine("running")}
      <3>1. Mine("running") \in Container /\ Mine("running").sub = sub
        BY DEF JobInv, Container, Mine
      <3>2. IsFiniteSet(containers')
        BY <2>1, FS_AddElement, FS_RemoveElement DEF HostInv
      <3>3. \A c \in containers \ {Mine("created")} : c.sub # sub
        BY <2>0 DEF HostInv
      <3>4. \A c, d \in containers' : c.sub = d.sub => c = d
        BY <2>1, <3>1, <3>3 DEF HostInv
      <3>5. \A c \in containers' : faults.docker + faults.crash = 0 => c.sub = sub
        BY <2>1, <3>1 DEF HostInv
      <3>6. Strays' \subseteq Strays
        BY <2>1, <3>1 DEF Strays, Deployed
      <3>7. Cardinality(Strays') <= faults'.docker + faults'.crash
        BY <2>1, <3>6, NoNewStray DEF NoFault, FaultType
      <3>8. containers' \subseteq Container
        BY <2>1, <3>1 DEF HostInv
      <3>9. QED
        BY <2>1, <3>2, <3>4, <3>5, <3>7, <3>8 DEF HostInv, Deployed, NoFault
    <2>2. CASE NoFault /\ pc' = "failed" /\ containers' = AfterFailedStart
      <3>1. \A c \in containers' : c \in containers /\ c.sub # sub
        BY <2>0, <2>2 DEF HostInv, AfterFailedStart
      <3>2. Strays' \subseteq Strays
        BY <3>1 DEF Strays
      <3>3. Cardinality(Strays') <= faults'.docker + faults'.crash
        BY <2>2, <3>2, NoNewStray DEF NoFault, FaultType
      <3>4. IsFiniteSet(containers')
        BY <3>1, FS_Subset DEF HostInv
      <3>5. faults'.docker + faults'.crash = 0 => containers' = {}
        BY <2>2, <3>1 DEF HostInv, NoFault
      <3>6. QED
        BY <2>2, <3>1, <3>3, <3>4, <3>5 DEF HostInv
    <2>3. CASE Fault("docker") /\ pc' = "failed" /\ containers' \in {AfterFailedStart, containers}
      <3>1. containers' \subseteq containers
        BY <2>3 DEF AfterFailedStart
      <3>2. /\ faults'.docker = faults.docker + 1 /\ faults'.crash = faults.crash
            /\ faults'.docker + faults'.crash = faults.docker + faults.crash + 1
            /\ faults'.docker + faults'.crash # 0
        BY <2>3, FaultCounts DEF FaultType
      <3>3. Cardinality(Strays') <= faults'.docker + faults'.crash
        BY <2>3, <3>1, <3>2, FaultLeavesOwn DEF Deployed
      <3>4. IsFiniteSet(containers')
        BY <3>1, FS_Subset DEF HostInv
      <3>5. QED
        BY <2>3, <3>1, <3>2, <3>3, <3>4 DEF HostInv
    <2>4. QED
      BY <2>1, <2>2, <2>3
  <1>3. QED
    BY <1>1, <1>2

\* The contestant's process ends: one container changes its state.
LEMMA ExitKeepsHost ==
    ASSUME FaultType, FaultType', HostInv, ContainerExits
    PROVE  HostInv'
  <1> USE DEF ContainerExits
  <1>1. PICK c \in containers :
           /\ c.state = "running"
           /\ containers' = (containers \ {c}) \cup {[c EXCEPT !.state = "exited"]}
    OBVIOUS
  <1> DEFINE e == [c EXCEPT !.state = "exited"]
  <1>2. e \in Container /\ e.sub = c.sub
    BY DEF HostInv, Container
  <1>3. c # Mine("created")
    BY <1>1 DEF Mine
  <1> HIDE DEF e
  <1>4. containers' = (containers \ {c}) \cup {e}
    BY <1>1 DEF e
  <1>5. IsFiniteSet(containers') /\ containers' \subseteq Container
    BY <1>2, <1>4, FS_AddElement, FS_RemoveElement DEF HostInv
  <1>6. \A x, y \in containers' : x.sub = y.sub => x = y
    BY <1>2, <1>4 DEF HostInv
  <1>7. pc' = "start" => Mine("created")' \in containers'
    BY <1>3, <1>4 DEF HostInv, Mine
  <1>8. faults'.docker + faults'.crash = 0 => \A x \in containers' : Deployed' /\ x.sub = sub'
    BY <1>2, <1>4 DEF HostInv, Deployed
  <1>9. Cardinality(Strays') <= faults'.docker + faults'.crash
    <2>1. CASE c \in Strays
      <3>1. Strays' = (Strays \ {c}) \cup {e}
        BY <1>2, <1>4, <2>1 DEF Strays, Deployed
      <3>2. /\ IsFiniteSet(Strays \ {c})
            /\ Cardinality(Strays \ {c}) = Cardinality(Strays) - 1
        BY <2>1, StraysFinite, FS_RemoveElement
      <3>3. IsFiniteSet(Strays') /\ Cardinality(Strays') <= Cardinality(Strays \ {c}) + 1
        BY <3>1, <3>2, OneMore
      <3>4. Cardinality(Strays') \in Nat /\ Cardinality(Strays \ {c}) \in Nat
        BY <3>2, <3>3, FS_CardinalityType
      <3>5. Cardinality(Strays') <= Cardinality(Strays)
        BY <3>2, <3>3, <3>4, StraysFinite
      <3>6. QED
        BY <3>4, <3>5, StraysFinite DEF FaultType, HostInv
    <2>2. CASE c \notin Strays
      <3>1. Strays' \subseteq Strays
        BY <1>2, <1>4, <2>2 DEF Strays, Deployed
      <3>2. QED
        BY <3>1, NoNewStray DEF FaultType
    <2>3. QED
      BY <2>1, <2>2
  <1>10. QED
    BY <1>5, <1>6, <1>7, <1>8, <1>9 DEF HostInv

\* Stop, and what a failing Docker call leaves of it.
LEMMA StopKeepsHost ==
    ASSUME FaultType, FaultType', HostInv, StopContainer
    PROVE  HostInv'
  <1> USE DEF StopContainer
  <1>0. pc = "stop" /\ pc' = "finish" /\ UNCHANGED <<sub, port>>
    OBVIOUS
  <1>1. CASE containers' = Stopped /\ NoFault
    <2>1. \A c \in containers' : c \in containers /\ c.sub # sub
      BY <1>1 DEF Stopped
    <2>2. Strays' \subseteq Strays
      BY <2>1 DEF Strays
    <2>3. Cardinality(Strays') <= faults'.docker + faults'.crash
      BY <1>1, <2>2, NoNewStray DEF NoFault, FaultType
    <2>4. IsFiniteSet(containers')
      BY <2>1, FS_Subset DEF HostInv
    <2>5. faults'.docker + faults'.crash = 0 => containers' = {}
      BY <1>1, <2>1 DEF HostInv, NoFault
    <2>6. QED
      BY <1>0, <2>1, <2>3, <2>4, <2>5 DEF HostInv
  <1>2. CASE Fault("docker") /\ containers' \in {containers, StoppedKept}
    <2>1. /\ faults'.docker + faults'.crash = faults.docker + faults.crash + 1
          /\ faults'.docker + faults'.crash # 0
      BY <1>2, FaultCounts DEF FaultType
    <2>2. CASE containers' = containers
      <3>1. Cardinality(Strays') <= faults'.docker + faults'.crash
        BY <1>0, <2>1, <2>2, FaultLeavesOwn DEF Deployed
      <3>2. QED
        BY <1>0, <2>1, <2>2, <3>1 DEF HostInv
    <2>3. CASE containers' = StoppedKept
      <3>1. PICK x : \A c \in containers : c.sub = sub => c = x
        BY OwnContainer
      <3> DEFINE e == [x EXCEPT !.state = "exited"]
      <3>2. \A d \in containers' : d \in Strays \/ (x \in containers /\ x.sub = sub /\ d = e)
        BY <1>0, <2>3, <3>1 DEF StoppedKept, Strays
      <3>3. x \in containers => e \in Container /\ e.sub = x.sub
        BY DEF HostInv, Container
      <3> HIDE DEF e
      <3>4. Strays' \subseteq Strays \cup {e}
        BY <3>2 DEF Strays
      <3>5. Cardinality(Strays') <= faults'.docker + faults'.crash
        BY <2>1, <3>4, OneNewStray
      <3>6. IsFiniteSet(containers')
        <4>1. containers' \subseteq Strays \cup {e}
          BY <3>2
        <4>2. QED
          BY <4>1, StraysFinite, OneMore
      <3>7. containers' \subseteq Container
        BY <3>2, <3>3 DEF HostInv, Strays
      <3>8. \A c, d \in containers' : c.sub = d.sub => c = d
        BY <1>0, <3>2, <3>3 DEF HostInv, Strays, Deployed
      <3>9. QED
        BY <1>0, <2>1, <3>5, <3>6, <3>7, <3>8 DEF HostInv
    <2>4. QED
      BY <1>2, <2>2, <2>3
  <1>3. QED
    BY <1>1, <1>2

\* Every step keeps HostInv.
LEMMA HostStep ==
    ASSUME FaultType, JobInv, HostInv, [Next]_vars
    PROVE  HostInv'
  <1>0. /\ FaultType' /\ faults'.docker >= faults.docker /\ faults'.crash >= faults.crash
    BY FaultsGrow
  <1>1. CASE UNCHANGED <<containers, pc, sub, port>>
    <2>1. Strays' \subseteq Strays
      BY <1>1 DEF Strays, Deployed
    <2>2. Cardinality(Strays') <= faults'.docker + faults'.crash
      BY <1>0, <2>1, NoNewStray
    <2>3. faults'.docker + faults'.crash = 0 => faults.docker + faults.crash = 0
      BY <1>0 DEF FaultType
    <2>4. QED
      BY <1>1, <2>2, <2>3 DEF HostInv, Deployed, Mine
  <1>2. CASE /\ UNCHANGED containers /\ ~Deployed /\ ~Deployed'
    <2>1. Strays' \subseteq Strays
      BY <1>2 DEF Strays
    <2>2. Cardinality(Strays') <= faults'.docker + faults'.crash
      BY <1>0, <2>1, NoNewStray
    <2>3. faults'.docker + faults'.crash = 0 => containers' = {}
      BY <1>0, <1>2 DEF HostInv, FaultType
    <2>4. QED
      BY <1>2, <2>2, <2>3 DEF HostInv, Deployed
  <1>3. CASE RunEnds
    <2>1. Strays' \subseteq Strays
      BY <1>3 DEF RunEnds, Strays, Deployed
    <2>2. Cardinality(Strays') <= faults'.docker + faults'.crash
      BY <1>0, <2>1, NoNewStray
    <2>3. QED
      BY <1>3, <2>2 DEF RunEnds, HostInv, Deployed
  <1>4. CASE WorkerDies
    <2>1. faults'.docker + faults'.crash = faults.docker + faults.crash + 1
          /\ faults'.docker + faults'.crash # 0
      BY <1>4, FaultCounts DEF WorkerDies, FaultType
    <2>2. UNCHANGED containers /\ pc' = "idle"
      BY <1>4 DEF WorkerDies
    <2>3. Cardinality(Strays') <= faults'.docker + faults'.crash
      BY <1>0, <2>1, <2>2, FaultLeavesOwn DEF Deployed
    <2>4. QED
      BY <2>1, <2>2, <2>3 DEF HostInv
  <1>5. CASE CreateContainer \/ StartContainer
    BY <1>0, <1>5, DeployKeepsHost
  <1>6. CASE StopContainer
    BY <1>0, <1>6, StopKeepsHost
  <1>7. CASE ContainerExits
    BY <1>0, <1>7, ExitKeepsHost
  <1>8. CASE JobStarts \/ JobNamed \/ AllocatePort \/ DeployFails \/ JobFinishes
    BY <1>2, <1>8 DEF JobStarts, JobNamed, AllocatePort, DeployFails, JobFinishes, Deployed
  <1>9. CASE WorkerRestarts
    BY <1>1, <1>9 DEF WorkerRestarts, jobVars
  <1>10. CASE UNCHANGED <<up, jobVars>>
    BY <1>1, <1>10 DEF jobVars
  <1>11. QED
    BY <1>3, <1>4, <1>5, <1>6, <1>7, <1>8, <1>9, <1>10, OutsideJob DEF Next, Execute

-----------------------------------------------------------------------------
(* The heartbeater *)

\* What ReadBusy is about to send: only a busy worker names its job.
LEMMA ReportIsHonest ==
    ASSUME NEW job \in JobIDs, JobInv
    PROVE  /\ Report(job).status \in {"idle", "busy"} /\ Report(job).job \in JobIDs
           /\ Report(job).completed \in Nat /\ Honest(Report(job))
  BY DEF Report, Honest, JobInv, JobIDs

\* A step of anyone else leaves the heartbeater alone.
LEMMA OutsideBeats ==
    ASSUME \/ JobStarts \/ Execute \/ ContainerExits \/ List \/ Stats \/ PlaneRestarts
           \/ PeerStep \/ UNCHANGED vars
    PROVE  UNCHANGED <<hb, late>>
  BY DEF JobStarts, Execute, JobNamed, AllocatePort, CreateContainer, StartContainer,
         DeployFails, RunEnds, StopContainer, JobFinishes, ContainerExits, List, Stats,
         PlaneRestarts, PeerStep, PeerDeploys, PeerRemoves, vars

\* Every step keeps BeatInv.
LEMMA BeatStep ==
    ASSUME JobInv, BeatInv, [Next]_vars
    PROVE  BeatInv'
  <1>1. CASE UNCHANGED <<hb, late>>
    BY <1>1 DEF BeatInv, Honest
  <1>2. CASE Tick
    BY <1>2 DEF Tick, BeatInv, Honest, JobInv
  <1>3. CASE SendRegister
    BY <1>3 DEF SendRegister, BeatInv, Honest
  <1>4. CASE ReadJob
    BY <1>4 DEF ReadJob, BeatInv, JobInv, Honest
  <1>5. CASE ReadBusy
    <2>1. hb.job \in JobIDs
      BY DEF BeatInv
    <2>2. PICK r : r = Report(hb.job)
      OBVIOUS
    <2>3. /\ r.status \in {"idle", "busy"} /\ r.job \in JobIDs
          /\ r.completed \in Nat /\ (r.status = "idle" => r.job = NoJob)
      BY <2>1, <2>2, ReportIsHonest DEF Honest
    <2>4. /\ hb' = [hb EXCEPT !.pc = "send", !.status = r.status, !.job = r.job,
                              !.completed = r.completed]
          /\ hb.pc = "busy?" /\ UNCHANGED late
      BY <1>5, <2>2 DEF ReadBusy
    <2>5. QED
      BY <2>3, <2>4 DEF BeatInv, Honest
  <1>6. CASE SendBeat
    <2> DEFINE payload == [status |-> hb.status, job |-> hb.job, completed |-> hb.completed]
    <2>1. PICK p \in {"wait", "register"} : hb' = [Off EXCEPT !.pc = p, !.due = hb.due]
      BY <1>6 DEF SendBeat, Unknown
    <2>2. hb.pc = "send" /\ ~hb.due
      BY <1>6 DEF SendBeat, BeatInv
    <2>3. /\ hb' \in [pc : {"off", "register", "wait", "busy?", "send"}, due : BOOLEAN,
                       job : JobIDs, status : {"idle", "busy"}, completed : Nat]
          /\ hb'.pc # "send" /\ ~hb'.due
      BY <2>1, <2>2 DEF Off, JobIDs, BeatInv
    <2>4. payload \in [status : {"idle", "busy"}, job : JobIDs, completed : Nat]
      BY DEF BeatInv
    <2>5. Honest(payload)
      BY <2>2 DEF BeatInv, Honest
    <2>6. late' \subseteq late \cup {payload}
      BY <1>6 DEF SendBeat
    <2> HIDE DEF payload
    <2>7. QED
      BY <2>3, <2>4, <2>5, <2>6 DEF BeatInv
  <1>7. CASE LateBeat
    BY <1>7 DEF LateBeat, BeatInv
  <1>8. CASE WorkerDies
    BY <1>8 DEF WorkerDies, BeatInv, Off, JobIDs, Honest
  <1>9. CASE WorkerRestarts
    BY <1>9 DEF WorkerRestarts, BeatInv, Off, JobIDs, Honest
  <1>10. QED
    BY <1>1, <1>2, <1>3, <1>4, <1>5, <1>6, <1>7, <1>8, <1>9, OutsideBeats DEF Next, Beats

-----------------------------------------------------------------------------
(* The registry *)

\* A heartbeat leaves one record, as old as the heartbeat.
LEMMA HeartbeatRecords ==
    ASSUME NEW r, r \in [status : {"idle", "busy"}, job : JobIDs, completed : Nat], Honest(r),
           Heartbeat(r), FaultType', faults'.crash = 0 => up'
    PROVE  RecordInv'
  <1>1. PICK n : /\ record' = {n}
                 /\ n = [status |-> r.status, job |-> r.job, completed |-> r.completed, age |-> 0]
    BY DEF Heartbeat
  <1>2. /\ n \in [status : {"idle", "busy", "dead"}, job : JobIDs, completed : Nat, age : 0..(TTL + 1)]
        /\ n.status # "dead" /\ n.age = 0 /\ Honest(n)
    BY <1>1, WorkerFleetAssumption DEF Honest
  <1>3. faults'.beat + Grace' >= 0
    BY DEF FaultType, Grace
  <1>4. QED
    BY <1>1, <1>2, <1>3 DEF RecordInv

\* A record with the same entries stays sound while the beats missed keep up
\* with its age.
LEMMA RecordStays ==
    ASSUME FaultType, FaultType', RecordInv, record' \subseteq record,
           faults'.crash = 0 => faults.crash = 0 /\ up',
           faults'.beat >= faults.beat, faults'.beat + Grace' >= faults.beat + Grace
    PROVE  RecordInv'
  <1>1. /\ record' \subseteq [status : {"idle", "busy", "dead"}, job : JobIDs,
                               completed : Nat, age : 0..(TTL + 1)]
        /\ \A r, s \in record' : r = s
        /\ \A r \in record' : Honest(r)
    BY DEF RecordInv
  <1>2. ASSUME faults'.crash = 0, NEW r \in record'
        PROVE  /\ r.age <= faults'.beat + Grace'
               /\ r.status = "dead" => faults'.beat >= TTL - 1
    <2>1. r.age \in Nat /\ r.age <= faults.beat + Grace /\ (r.status = "dead" => faults.beat >= TTL - 1)
      BY <1>2, WorkerFleetAssumption DEF RecordInv
    <2>2. Grace \in Nat /\ Grace' \in Nat
      BY DEF Grace
    <2>3. QED
      BY <2>1, <2>2, WorkerFleetAssumption DEF FaultType
  <1>3. QED
    BY <1>1, <1>2 DEF RecordInv

\* IsAlive fails only at the age of the TTL, which takes TTL - 1 missed beats.
LEMMA DeadMissedBeats ==
    ASSUME FaultType, RecordInv, faults.crash = 0, NEW r \in record, FALSE \in Alive(r.age)
    PROVE  faults.beat >= TTL - 1
  <1>1. r.age \in Nat /\ r.age <= faults.beat + Grace
    BY WorkerFleetAssumption DEF RecordInv
  <1>2. r.age >= TTL
    <2>1. r.age < TTL => Alive(r.age) = {TRUE}
      BY DEF Alive
    <2>2. FALSE \notin {TRUE}
      OBVIOUS
    <2>3. ~(r.age < TTL)
      BY <2>1, <2>2, Zenon
    <2>4. QED
      BY <1>1, <2>3, WorkerFleetAssumption
  <1>3. Grace \in 0..1
    BY DEF Grace
  <1>4. QED
    BY <1>1, <1>2, <1>3, WorkerFleetAssumption DEF FaultType

\* List and Stats change the status of the record, and List its job.
LEMMA MarkedDead ==
    ASSUME FaultType, RecordInv, List \/ Stats
    PROVE  RecordInv'
  <1>1. PICK r \in record :
           /\ FALSE \in Alive(r.age)
           /\ \/ record' = {[r EXCEPT !.status = "dead", !.job = NoJob]}
              \/ record' = {[r EXCEPT !.status = "dead"]}
    BY DEF List, Stats
  <1>2. UNCHANGED <<up, hb, faults>>
    BY DEF List, Stats
  <1>3. PICK n : record' = {n} /\ n \in {[r EXCEPT !.status = "dead", !.job = NoJob],
                                         [r EXCEPT !.status = "dead"]}
    BY <1>1
  <1>4. /\ n \in [status : {"idle", "busy", "dead"}, job : JobIDs, completed : Nat, age : 0..(TTL + 1)]
        /\ n.status = "dead" /\ n.age = r.age
    BY <1>3 DEF RecordInv, JobIDs
  <1>5. faults.crash = 0 => faults.beat >= TTL - 1
    BY <1>1, DeadMissedBeats
  <1>6. Grace' = Grace
    BY <1>2 DEF Grace
  <1>7. QED
    BY <1>2, <1>3, <1>4, <1>5, <1>6 DEF RecordInv, Honest

\* An interval passes: the record ages by one, and a beat is due.
LEMMA TickAges ==
    ASSUME FaultType, BeatInv, RecordInv, Tick
    PROVE  RecordInv'
  <1>1. UNCHANGED <<up, faults>>
    BY DEF Tick
  <1>2. ASSUME NEW n \in record'
        PROVE  \E r \in record :
                  /\ n = [r EXCEPT !.age = IF r.age > TTL THEN r.age ELSE r.age + 1]
                  /\ n \in [status : {"idle", "busy", "dead"}, job : JobIDs,
                            completed : Nat, age : 0..(TTL + 1)]
                  /\ n.status = r.status /\ n.job = r.job /\ n.age <= r.age + 1
    <2>1. PICK r \in record : n = [r EXCEPT !.age = IF r.age > TTL THEN r.age ELSE r.age + 1]
      BY <1>2 DEF Tick
    <2>2. r \in [status : {"idle", "busy", "dead"}, job : JobIDs,
                 completed : Nat, age : 0..(TTL + 1)]
      BY DEF RecordInv
    <2>3. PICK a : a = IF r.age > TTL THEN r.age ELSE r.age + 1
      OBVIOUS
    <2>4. a \in 0..(TTL + 1) /\ a <= r.age + 1
      BY <2>2, <2>3, WorkerFleetAssumption
    <2>5. n = [r EXCEPT !.age = a]
      BY <2>1, <2>3
    <2>6. /\ n \in [status : {"idle", "busy", "dead"}, job : JobIDs,
                    completed : Nat, age : 0..(TTL + 1)]
          /\ n.status = r.status /\ n.job = r.job /\ n.age = a
      BY <2>2, <2>4, <2>5
    <2>7. QED
      BY <2>1, <2>4, <2>6
  <1>3. ASSUME up, NEW n \in record', faults.crash = 0
        PROVE  n.age <= faults'.beat + Grace' /\ (n.status = "dead" => faults'.beat >= TTL - 1)
    <2>1. PICK r \in record : n.status = r.status /\ n.age <= r.age + 1
      BY <1>2
    <2>2. r.age \in Nat /\ n.age \in Nat
      BY <1>2, WorkerFleetAssumption DEF RecordInv
    <2>3. r.age <= faults.beat + 0 /\ (r.status = "dead" => faults.beat >= TTL - 1)
      BY <1>3 DEF RecordInv, Tick, Grace
    <2>4. hb'.due
      BY <1>3 DEF Tick, BeatInv
    <2>5. Grace' = 1
      BY <2>4 DEF Grace
    <2>6. QED
      BY <1>1, <2>1, <2>2, <2>3, <2>5 DEF FaultType
  <1>4. \A n, m \in record' : n = m
    BY DEF Tick, RecordInv
  <1>5. \A n \in record' : Honest(n)
    BY <1>2 DEF RecordInv, Honest
  <1>6. QED
    BY <1>1, <1>2, <1>3, <1>4, <1>5 DEF RecordInv

\* Every step keeps RecordInv.
LEMMA RecordStep ==
    ASSUME FaultType, JobInv, BeatInv, RecordInv, [Next]_vars
    PROVE  RecordInv'
  <1>0. FaultType' /\ faults'.beat >= faults.beat /\ faults'.crash >= faults.crash
    BY FaultsGrow
  <1>1. faults'.crash = 0 => faults.crash = 0
    BY <1>0 DEF FaultType
  <1>2. CASE record' \subseteq record /\ UNCHANGED <<up, hb>>
    <2>1. Grace' = Grace /\ Grace \in Nat
      BY <1>2 DEF Grace
    <2>2. QED
      BY <1>0, <1>1, <1>2, <2>1, RecordStays DEF RecordInv, FaultType
  <1>3. CASE List \/ Stats
    BY <1>3, MarkedDead
  <1>4. CASE Tick
    BY <1>4, TickAges
  <1>5. CASE SendRegister
    <2>1. CASE Register
      <3>1. PICK r : r = [status |-> "idle", job |-> NoJob, completed |-> 0]
        OBVIOUS
      <3>2. Heartbeat(r) /\ Honest(r)
            /\ r \in [status : {"idle", "busy"}, job : JobIDs, completed : Nat]
        BY <2>1, <3>1 DEF Register, Registered, Heartbeat, Honest, JobIDs
      <3>3. up'
        BY <1>5 DEF SendRegister
      <3>4. QED
        BY <1>0, <3>2, <3>3, HeartbeatRecords
    <2>2. CASE UNCHANGED record /\ Fault("beat")
      <3>1. faults'.beat = faults.beat + 1 /\ Grace \in 0..1 /\ Grace' \in 0..1 /\ up'
        BY <1>5, <2>2, FaultCounts DEF Grace, SendRegister
      <3>2. faults'.beat + Grace' >= faults.beat + Grace
        BY <3>1 DEF FaultType
      <3>3. QED
        BY <1>0, <1>1, <2>2, <3>1, <3>2, RecordStays
    <2>3. QED
      BY <1>5, <2>1, <2>2 DEF SendRegister
  <1>6. CASE ReadJob \/ ReadBusy
    <2>1. Grace' = 1 /\ Grace \in 0..1 /\ UNCHANGED <<record, faults>> /\ up'
      <3>1. hb'.pc = "busy?" \/ hb'.pc = "send"
        BY <1>6 DEF ReadJob, ReadBusy, BeatInv
      <3>2. UNCHANGED <<record, faults>> /\ up'
        BY <1>6 DEF ReadJob, ReadBusy
      <3>3. QED
        BY <3>1, <3>2 DEF Grace
    <2>2. faults'.beat + Grace' >= faults.beat + Grace
      BY <2>1 DEF FaultType
    <2>3. QED
      BY <1>0, <1>1, <2>1, <2>2, RecordStays
  <1>7. CASE SendBeat
    <2>0. up' /\ Grace \in 0..1 /\ Grace' \in 0..1
      BY <1>7 DEF SendBeat, Grace
    <2>1. CASE Heartbeat([status |-> hb.status, job |-> hb.job, completed |-> hb.completed])
      <3>1. PICK r : r = [status |-> hb.status, job |-> hb.job, completed |-> hb.completed]
        OBVIOUS
      <3>2. Heartbeat(r) /\ r \in [status : {"idle", "busy"}, job : JobIDs, completed : Nat]
        BY <2>1, <3>1 DEF BeatInv
      <3>3. Honest(r)
        BY <1>7, <3>1 DEF SendBeat, BeatInv, Honest
      <3>4. QED
        BY <1>0, <2>0, <3>2, <3>3, HeartbeatRecords
    <2>2. CASE record = {} /\ UNCHANGED record
      BY <1>1, <2>0, <2>2 DEF RecordInv
    <2>3. CASE UNCHANGED record /\ Fault("beat")
      <3>1. faults'.beat = faults.beat + 1
        BY <2>3, FaultCounts
      <3>2. faults'.beat + Grace' >= faults.beat + Grace
        BY <2>0, <3>1 DEF FaultType
      <3>3. QED
        BY <1>0, <1>1, <2>0, <2>3, <3>2, RecordStays
    <2>4. QED
      BY <1>7, <2>1, <2>2, <2>3 DEF SendBeat
  <1>8. CASE LateBeat
    <2>1. PICK r \in late : IF record = {} THEN UNCHANGED record ELSE Heartbeat(r)
      BY <1>8 DEF LateBeat
    <2>2. UNCHANGED <<up, hb, faults>>
      BY <1>8 DEF LateBeat
    <2>3. CASE UNCHANGED record
      BY <1>2, <2>2, <2>3
    <2>4. CASE Heartbeat(r)
      <3>1. faults'.crash = 0 => up'
        BY <2>2 DEF RecordInv
      <3>2. QED
        BY <1>0, <2>4, <3>1, HeartbeatRecords DEF BeatInv
    <2>5. QED
      BY <2>1, <2>3, <2>4
  <1>9. CASE WorkerDies
    <2>1. faults'.crash = faults.crash + 1 /\ UNCHANGED record
      BY <1>9, FaultCounts DEF WorkerDies
    <2>2. faults'.crash # 0
      BY <2>1 DEF FaultType
    <2>3. QED
      BY <2>1, <2>2 DEF RecordInv
  <1>10. CASE WorkerRestarts
    <2>1. UNCHANGED <<record, faults>> /\ ~up
      BY <1>10 DEF WorkerRestarts
    <2>2. QED
      BY <2>1 DEF RecordInv
  <1>11. CASE JobStarts \/ Execute \/ ContainerExits
    BY <1>2, <1>11 DEF JobStarts, Execute, JobNamed, AllocatePort, CreateContainer,
       StartContainer, DeployFails, RunEnds, StopContainer, JobFinishes, ContainerExits
  <1>12. CASE PlaneRestarts
    <2>1. record' \subseteq record /\ UNCHANGED <<up, hb>>
      BY <1>12 DEF PlaneRestarts
    <2>2. QED
      BY <1>2, <2>1
  <1>13. CASE PeerStep \/ UNCHANGED vars
    BY <1>2, <1>13 DEF PeerStep, PeerDeploys, PeerRemoves, vars
  <1>14. QED
    BY <1>3, <1>4, <1>5, <1>6, <1>7, <1>8, <1>9, <1>10, <1>11, <1>12, <1>13 DEF Next, Beats

-----------------------------------------------------------------------------
(* The theorems *)

\* The invariant holds in every reachable state.
LEMMA WorkerInvariant == Spec => []WorkerInv
  <1>1. Init => WorkerInv
    <2> SUFFICES ASSUME Init PROVE WorkerInv
      OBVIOUS
    <2> USE DEF Init
    <2>1. FaultType
      BY DEF FaultType
    <2>2. JobInv
      <3>1. DOMAIN used = {}
        OBVIOUS
      <3>2. port \in Ports \cup {0}
        BY DEF Ports
      <3>3. started \in 0..Len(Jobs)
        BY WorkerFleetAssumption
      <3>4. /\ up \in BOOLEAN /\ busy \in BOOLEAN /\ jobID \in JobIDs /\ sub \in JobIDs
            /\ completed \in Nat
        BY DEF JobIDs
      <3>5. pc = "idle"
        OBVIOUS
      <3>6. completed + (IF pc = "idle" THEN 0 ELSE 1) <= started
        OBVIOUS
      <3> HIDE DEF Init
      <3>7. QED
        BY <3>1, <3>2, <3>3, <3>4, <3>5, <3>6 DEF JobInv
    <2>3. HostInv
      <3>1. Strays = {} /\ containers = {}
        BY DEF Strays
      <3>2. QED
        BY <3>1, FS_EmptySet DEF HostInv
    <2>4. BeatInv
      BY DEF BeatInv, Off, JobIDs, Honest
    <2>5. RecordInv
      BY DEF RecordInv
    <2>6. PoolInv /\ PeerInv
      <3>1. DOMAIN used = {} /\ started = 0 /\ pc = "idle" /\ peers = {}
        OBVIOUS
      <3>2. IsFiniteSet(DOMAIN used) /\ Cardinality(DOMAIN used) = 0
        BY <3>1, FS_EmptySet
      <3> HIDE DEF Init
      <3>3. Cardinality(DOMAIN used) + 0 <= started
        BY <3>1, <3>2
      <3>4. QED
        BY <3>1, <3>2, <3>3 DEF PoolInv, PeerInv
    <2>7. QED
      BY <2>1, <2>2, <2>3, <2>4, <2>5, <2>6 DEF WorkerInv
  <1>2. WorkerInv /\ [Next]_vars => WorkerInv'
    BY FaultsGrow, JobStep, PoolStep, PeerStepTyped, HostStep, BeatStep, RecordStep
       DEF WorkerInv
  <1>3. QED
    BY <1>1, <1>2, PTL DEF Spec

\* Whatever fails, every variable of the worker, of its host and of its record
\* keeps its type: the pool never leaves the configured range and no job is
\* counted twice (Deploy, jobStarted, jobFinished, WorkerRegistry).
THEOREM WorkerTypeCorrect == Spec => []TypeOK
  <1>1. WorkerInv => TypeOK
    <2> SUFFICES ASSUME WorkerInv PROVE TypeOK
      OBVIOUS
    <2>1. Cardinality(record) <= 1
      <3>1. CASE record = {}
        BY <3>1, FS_EmptySet
      <3>2. CASE record # {}
        <4>1. PICK r \in record : record = {r}
          <5>1. PICK r \in record : TRUE
            BY <3>2
          <5>2. \A s \in record : s = r
            BY DEF WorkerInv, RecordInv
          <5>3. QED
            BY <5>2
        <4>2. Cardinality({r}) = 1
          BY FS_Singleton, Zenon
        <4>3. QED
          BY <4>1, <4>2
      <3>3. QED
        BY <3>1, <3>2
    <2>2. completed \in 0..Len(Jobs)
      <3>1. Len(Jobs) \in Nat
        BY WorkerFleetAssumption
      <3>2. QED
        BY <3>1 DEF WorkerInv, JobInv
    <2>3. QED
      BY <2>1, <2>2 DEF TypeOK, WorkerInv, JobInv, PeerInv, HostInv, BeatInv, RecordInv,
                             Container, JobIDs
  <1>2. QED
    BY <1>1, WorkerInvariant, PTL

\* Whatever statusFn's two reads see and however late a report arrives, an idle
\* worker is not shown with a job (statusFn, Heartbeat, Register).
THEOREM IdleCorrect == Spec => []IdleHasNoJob
  <1>1. WorkerInv => IdleHasNoJob
    BY DEF WorkerInv, RecordInv, Honest, IdleHasNoJob
  <1>2. QED
    BY <1>1, WorkerInvariant, PTL

\* With the TTL of the code, three intervals or more, a worker that stayed up is
\* shown dead only after two missed beats (HeartbeatTTL, IsAlive).
THEOREM OneMissCorrect == ASSUME TTL >= 3 PROVE Spec => []OneMissTolerated
  <1>1. WorkerInv => OneMissTolerated
    BY WorkerFleetAssumption DEF WorkerInv, FaultType, RecordInv, OneMissTolerated
  <1>2. QED
    BY <1>1, WorkerInvariant, PTL

\* Each failed Docker call and each crash leaves at most one container behind,
\* for any jobs, ports and number of faults (Deploy, Stop).
THEOREM StraysCorrect == Spec => []StraysPerFault
  <1>1. WorkerInv => StraysPerFault
    BY DEF WorkerInv, HostInv, Strays, Deployed, StraysPerFault
  <1>2. QED
    BY <1>1, WorkerInvariant, PTL

\* A step to "failed" has a cause: without a fault only another worker's
\* container can have the job's name or its port, and the pool is empty only
\* after more jobs than ports.
LEMMA FailureHasCause ==
    ASSUME WorkerInv, [Next]_vars, pc # "failed", pc' = "failed"
    PROVE  \/ faults'.docker + faults'.crash > 0
           \/ \E c \in peers : c.sub = sub \/ c.port = port
           \/ started > Cardinality(Ports)
  <1>0. /\ FaultType /\ FaultType'
        /\ faults'.docker >= faults.docker /\ faults'.crash >= faults.crash
    BY FaultsGrow DEF WorkerInv
  <1>1. CASE Fault("docker")
    <2>1. faults'.docker = faults.docker + 1
      BY <1>0, <1>1, FaultCounts
    <2>2. QED
      BY <1>0, <2>1 DEF FaultType
  <1>2. CASE faults.docker + faults.crash # 0
    BY <1>0, <1>2 DEF FaultType
  <1>3. CASE AllocatePort
    <2>1. CASE pc = "allocate" /\ Free = {}
      <3>1. DOMAIN used = Ports
        BY <2>1 DEF Free, WorkerInv, JobInv
      <3>2. Cardinality(Ports) + 1 <= started
        BY <2>1, <3>1 DEF WorkerInv, PoolInv
      <3>3. Cardinality(Ports) \in Nat /\ started \in Nat
        BY <3>1, FS_CardinalityType, WorkerFleetAssumption DEF WorkerInv, PoolInv, JobInv
      <3>4. QED
        BY <3>2, <3>3
    <2>2. QED
      BY <1>1, <1>3, <2>1 DEF AllocatePort
  <1>4. CASE CreateContainer
    <2>1. CASE \E c \in containers : c.sub = sub
      <3>1. ~Deployed
        BY <1>4 DEF CreateContainer, Deployed
      <3>2. QED
        BY <1>2, <2>1, <3>1 DEF WorkerInv, HostInv
    <2>2. CASE \E c \in peers : c.sub = sub
      BY <2>2
    <2>3. QED
      BY <1>1, <1>4, <2>1, <2>2 DEF CreateContainer
  <1>5. CASE StartContainer
    <2>1. CASE \E c \in containers : c.state = "running" /\ c.port = port
      <3>1. PICK c \in containers : c.state = "running"
        BY <2>1
      <3>2. Mine("created") \in containers /\ Mine("created").sub = sub /\ c # Mine("created")
        BY <1>5, <3>1 DEF StartContainer, WorkerInv, HostInv, Mine
      <3>3. faults.docker + faults.crash # 0
        BY <3>2 DEF WorkerInv, HostInv
      <3>4. QED
        BY <1>2, <3>3
    <2>2. CASE \E c \in peers : c.port = port
      BY <2>2
    <2>3. QED
      BY <1>1, <1>5, <2>1, <2>2 DEF StartContainer
  <1>6. ~(JobStarts \/ JobNamed \/ DeployFails \/ RunEnds \/ StopContainer \/ JobFinishes
          \/ ContainerExits \/ WorkerDies \/ WorkerRestarts \/ UNCHANGED <<up, jobVars>>)
    BY DEF JobStarts, JobNamed, DeployFails, RunEnds, StopContainer, JobFinishes,
           ContainerExits, WorkerDies, WorkerRestarts, jobVars
  <1>7. QED
    BY <1>3, <1>4, <1>5, <1>6, OutsideJob DEF Next, Execute

\* For any jobs and ports and whatever other workers have on the host, a deploy
\* that no fault preceded fails only because another worker is in the way or
\* because more jobs were started than the range has ports: the previous run's
\* cleanup left neither its name nor its port behind, and no job takes two ports
\* of the pool (Deploy, Stop).
THEOREM DeploysCorrect == Spec => DeployFailsForCause
  <1>1. WorkerInv /\ [Next]_vars =>
          [pc # "failed" /\ pc' = "failed" =>
              \/ faults'.docker + faults'.crash > 0
              \/ \E c \in peers : c.sub = sub \/ c.port = port
              \/ started > Cardinality(Ports)]_vars
    BY FailureHasCause
  <1>2. QED
    BY <1>1, WorkerInvariant, PTL DEF Spec, DeployFailsForCause
=============================================================================
