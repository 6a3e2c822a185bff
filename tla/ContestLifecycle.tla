-------------------------- MODULE ContestLifecycle --------------------------
(***************************************************************************)
(* Contests and their leaderboards in the control plane: the admin API     *)
(* creates, activates and closes contests, a goroutine closes the active   *)
(* contest once EndsAt has passed, Ingest admits submissions into the      *)
(* active contest, and the leaderboard watcher broadcasts the board.       *)
(*                                                                         *)
(* Sources: internal/contest (service.go, postgres.go), cmd/server/main.go *)
(* (main, tickAutoClose, tickLeaderboardWatcher, buildLeaderboardEntries), *)
(* internal/api/router.go (closeContest, BuildDedupedLeaderboard),         *)
(* internal/submission/service.go (Ingest, checkNoActiveSubmission).       *)
(*                                                                         *)
(* Granularity.  One step is one call on a store or on the bus: the        *)
(* stores lock each call, the service adds no lock of its own, so every    *)
(* two calls of one request may be separated by steps of the others.       *)
(***************************************************************************)
EXTENDS Naturals, FiniteSets

CONSTANTS
    Contests,     \* contest ids
    Admins,       \* admin API requests that may be in flight at the same time
    Subs,         \* submission ids, in the order the submission store lists them
    TeamOf,       \* the team that makes each submission
    Grades,       \* what a benchmark may yield: <<score, correctness>>
    FaultKinds,   \* which faults may happen
    MaxFaults     \* bound on the number of faults in a behaviour

\* A failed Get or GetActive, Update, SnapshotLeaderboard or List, and the
\* death of the process.
AllFaultKinds == {"get", "update", "snapshot", "list", "crash"}

ASSUME ContestAssumption ==
    /\ Subs \subseteq Nat /\ IsFiniteSet(Subs)
    /\ IsFiniteSet(Admins) /\ "auto-close" \notin Admins
    /\ "none" \notin Contests
    /\ Grades \subseteq Nat \X Nat
    /\ FaultKinds \subseteq AllFaultKinds
    /\ MaxFaults \in Nat

\* The goroutines that change contests: admin requests and runContestAutoClose.
AutoClose == "auto-close"
Procs     == Admins \cup {AutoClose}

VARIABLES
    adminKey,  \* ADMIN_API_KEY is set: admin routes and contest checks exist
    contest,   \* the status of each contest in the contest store
    endsAt,    \* its EndsAt: not set, in the future, or passed
    snapshot,  \* the leaderboard snapshots in the contest store
    archived,  \* the contests that have a snapshot
    sub,       \* the submissions: progress, contest and grade
    op,        \* what each goroutine is doing, to which contest, with which entries
    watcher,   \* the leaderboard watcher: lastHash and the tick in progress
    shown,     \* the entries last broadcast for each contest
    frozen,    \* the contests whose "frozen" event was broadcast
    faults     \* faults so far

vars == <<adminKey, contest, endsAt, snapshot, archived, sub, op, watcher, shown,
          frozen, faults>>

-----------------------------------------------------------------------------
(* Leaderboards *)

IsCompleted(s) == sub[s].state = "completed"

\* The score and the correctness tie-break of two submissions.
Better(s, t) ==
    \/ sub[s].grade[1] > sub[t].grade[1]
    \/ sub[s].grade[1] = sub[t].grade[1] /\ sub[s].grade[2] > sub[t].grade[2]

\* Mutant of BuildDedupedLeaderboard: of two equal submissions of a team both stay.
BuildDedupedLeaderboardTies(subs) ==
    LET completed == {s \in subs : IsCompleted(s)} IN
    {s \in completed :
        \A t \in completed \ {s} : TeamOf[t] = TeamOf[s] => ~Better(t, s)}

\* BuildDedupedLeaderboard: each team's best completed submission, the first
\* listed one among equals.
BuildDedupedLeaderboard(subs) ==
    LET completed == {s \in subs : IsCompleted(s)} IN
    {s \in completed :
        \A t \in completed \ {s} : TeamOf[t] = TeamOf[s] =>
            Better(s, t) \/ (~Better(t, s) /\ s < t)}

\* Mutant of BuildLeaderboardEntries: the filter on the contest id is dropped.
EntriesOfAll(c) == BuildDedupedLeaderboard(Subs)

\* buildLeaderboardEntries: the submissions of contest c and those of no contest,
\* accepted while no ADMIN_API_KEY was set.
BuildLeaderboardEntries(c) ==
    BuildDedupedLeaderboard({s \in Subs : sub[s].contest \in {c, "none"}})

\* The entries closeContest builds: the submissions of contest c only.
CloseContestEntries(c) == BuildDedupedLeaderboard({s \in Subs : sub[s].contest = c})

\* Mutant of LeaderboardHash: the constant per submission is dropped.
LeaderboardHashNoCount ==
    Cardinality(UNION {{s} \X (1..sub[s].grade[1]) : s \in {t \in Subs : IsCompleted(t)}})

\* leaderboardHash: 1 + score, summed over the completed submissions.  The sum
\* is the size of a disjoint union: 0..score has 1 + score elements.
LeaderboardHash ==
    Cardinality(UNION {{s} \X (0..sub[s].grade[1]) : s \in {t \in Subs : IsCompleted(t)}})

-----------------------------------------------------------------------------
(* The contest store: one statement per call *)

\* The contests GetActive may return; nothing in the schema makes it one.
Active == {c \in Contests : contest[c] = "active"}

Get(c) == contest[c]

Save(c, status) == contest' = [contest EXCEPT ![c] = status]

\* Update of a row by its id: the status the caller decided on, whatever the
\* row has become since the caller read it.
Update(c, status) == contest' = [contest EXCEPT ![c] = status]

\* INSERT ... ON CONFLICT DO UPDATE: the last snapshot stays.
SnapshotLeaderboard(c, entries) ==
    /\ snapshot' = [snapshot EXCEPT ![c] = entries]
    /\ archived' = archived \cup {c}

-----------------------------------------------------------------------------
(* Contest transitions *)

Fault(k) == k \in FaultKinds /\ faults < MaxFaults /\ faults' = faults + 1

Idle == [pc |-> "idle", contest |-> "none", entries |-> {}]

Goto(p, l)  == op' = [op EXCEPT ![p].pc = l]
Return(p)   == op' = [op EXCEPT ![p] = Idle]

\* Create: a draft, with or without an EndsAt.
Create(c) ==
    /\ adminKey
    /\ Get(c) = "absent"
    /\ Save(c, "draft")
    /\ \E e \in {"none", "future"} : endsAt' = [endsAt EXCEPT ![c] = e]
    /\ UNCHANGED <<adminKey, snapshot, archived, sub, op, watcher, shown, frozen, faults>>

EndsAtPasses(c) ==
    /\ endsAt[c] = "future"
    /\ endsAt' = [endsAt EXCEPT ![c] = "passed"]
    /\ UNCHANGED <<adminKey, contest, snapshot, archived, sub, op, watcher, shown, frozen, faults>>

\* Mutant of ActivateCheck: the GetActive guard is dropped.
ActivateCheckNone(a, c) ==
    /\ adminKey /\ op[a].pc = "idle"
    /\ op' = [op EXCEPT ![a] = [pc |-> "activate", contest |-> c, entries |-> {}]]
    /\ UNCHANGED <<adminKey, contest, endsAt, snapshot, archived, sub, watcher, shown, frozen, faults>>

\* Activate, GetActive: refused when a contest is active.
ActivateCheck(a, c) ==
    /\ adminKey /\ op[a].pc = "idle"
    /\ Active = {}
    /\ op' = [op EXCEPT ![a] = [pc |-> "activate", contest |-> c, entries |-> {}]]
    /\ UNCHANGED <<adminKey, contest, endsAt, snapshot, archived, sub, watcher, shown, frozen, faults>>

\* Mutant of ActivateGet: a closed contest may be activated again.
ActivateGetAny(a) ==
    /\ op[a].pc = "activate"
    /\ IF contest[op[a].contest] \in {"draft", "closed"} THEN Goto(a, "activating")
                                                          ELSE Return(a)
    /\ UNCHANGED <<adminKey, contest, endsAt, snapshot, archived, sub, watcher, shown, frozen, faults>>

\* Activate, Get: only a draft may be activated.
ActivateGet(a) ==
    /\ op[a].pc = "activate"
    /\ \/ /\ IF Get(op[a].contest) = "draft" THEN Goto(a, "activating") ELSE Return(a)
          /\ UNCHANGED faults
       \/ Fault("get") /\ Return(a)
    /\ UNCHANGED <<adminKey, contest, endsAt, snapshot, archived, sub, watcher, shown, frozen>>

\* Activate, Update; an error is returned to the admin.
ActivateUpdate(a) ==
    /\ op[a].pc = "activating"
    /\ \/ Update(op[a].contest, "active") /\ UNCHANGED faults
       \/ Fault("update") /\ UNCHANGED contest
    /\ Return(a)
    /\ UNCHANGED <<adminKey, endsAt, snapshot, archived, sub, watcher, shown, frozen>>

\* closeContest: the handler of the admin's manual override.
CloseRequest(a, c) ==
    /\ adminKey /\ op[a].pc = "idle"
    /\ op' = [op EXCEPT ![a] = [pc |-> "list", contest |-> c, entries |-> {}]]
    /\ UNCHANGED <<adminKey, contest, endsAt, snapshot, archived, sub, watcher, shown, frozen, faults>>

\* Mutant of AutoCloseTick: the comparison of now and EndsAt is inverted.
AutoCloseTickEarly ==
    /\ op[AutoClose].pc = "idle"
    /\ \E c \in Active :
          /\ endsAt[c] = "future"
          /\ op' = [op EXCEPT ![AutoClose] = [pc |-> "list", contest |-> c, entries |-> {}]]
    /\ UNCHANGED <<adminKey, contest, endsAt, snapshot, archived, sub, watcher, shown, frozen, faults>>

\* tickAutoClose: GetActive returns an active contest whose EndsAt has passed.
AutoCloseTick ==
    /\ op[AutoClose].pc = "idle"
    /\ \E c \in Active :
          /\ endsAt[c] = "passed"
          /\ op' = [op EXCEPT ![AutoClose] = [pc |-> "list", contest |-> c, entries |-> {}]]
    /\ UNCHANGED <<adminKey, contest, endsAt, snapshot, archived, sub, watcher, shown, frozen, faults>>

\* The entries each caller of Close builds.
EntriesOf(p) ==
    IF p = AutoClose THEN BuildLeaderboardEntries(op[p].contest)
                     ELSE CloseContestEntries(op[p].contest)

\* The caller of Close lists the submissions and builds the entries; when List
\* fails it closes the contest without entries.
CloseList(p) ==
    /\ op[p].pc = "list"
    /\ \/ /\ op' = [op EXCEPT ![p].pc = "close", ![p].entries = EntriesOf(p)]
          /\ UNCHANGED faults
       \/ Fault("list") /\ Goto(p, "close")
    /\ UNCHANGED <<adminKey, contest, endsAt, snapshot, archived, sub, watcher, shown, frozen>>

\* Close, Get: a closed contest is a no-op, a draft or unknown one an error.
CloseGet(p) ==
    /\ op[p].pc = "close"
    /\ \/ /\ IF Get(op[p].contest) = "active" THEN Goto(p, "closing") ELSE Return(p)
          /\ UNCHANGED faults
       \/ Fault("get") /\ Return(p)
    /\ UNCHANGED <<adminKey, contest, endsAt, snapshot, archived, sub, watcher, shown, frozen>>

\* Close, Update; on an error Close returns and the contest stays active.
CloseUpdate(p) ==
    /\ op[p].pc = "closing"
    /\ \/ /\ Update(op[p].contest, "closed")
          /\ Goto(p, "snapshot")
          /\ UNCHANGED faults
       \/ Fault("update") /\ Return(p) /\ UNCHANGED contest
    /\ UNCHANGED <<adminKey, endsAt, snapshot, archived, sub, watcher, shown, frozen>>

\* Mutant of CloseSnapshot: the snapshot is never written.
CloseSnapshotSkipped(p) ==
    /\ op[p].pc = "snapshot"
    /\ Goto(p, "frozen")
    /\ UNCHANGED <<adminKey, contest, endsAt, snapshot, archived, sub, watcher, shown, frozen, faults>>

\* Close, SnapshotLeaderboard; an error is only logged.
CloseSnapshot(p) ==
    LET c == op[p].contest IN
    /\ op[p].pc = "snapshot"
    /\ \/ SnapshotLeaderboard(c, op[p].entries) /\ UNCHANGED faults
       \/ Fault("snapshot") /\ UNCHANGED <<snapshot, archived>>
    /\ Goto(p, "frozen")
    /\ UNCHANGED <<adminKey, contest, endsAt, sub, watcher, shown, frozen>>

\* Close, Broadcast of the "frozen" event.
CloseBroadcast(p) ==
    LET c == op[p].contest IN
    /\ op[p].pc = "frozen"
    /\ frozen' = frozen \cup {c}
    /\ shown' = [shown EXCEPT ![c] = op[p].entries]
    /\ Return(p)
    /\ UNCHANGED <<adminKey, contest, endsAt, snapshot, archived, sub, watcher, faults>>

-----------------------------------------------------------------------------
(* Admission of submissions *)

\* Ingest without a ContestGetter: no contest, no checks.
IngestOpen(s) ==
    /\ ~adminKey /\ sub[s].state = "new"
    /\ sub' = [sub EXCEPT ![s].state = "saving"]
    /\ UNCHANGED <<adminKey, contest, endsAt, snapshot, archived, op, watcher, shown, frozen, faults>>

\* Ingest, GetActive; refused, which changes nothing, without an active contest.
IngestGetActive(s) ==
    /\ adminKey /\ sub[s].state = "new"
    /\ \E c \in Active :
          sub' = [sub EXCEPT ![s].state = "checking", ![s].contest = c]
    /\ UNCHANGED <<adminKey, contest, endsAt, snapshot, archived, op, watcher, shown, frozen, faults>>

InProgress(s) == sub[s].state = "evaluating"

\* Ingest, checkNoActiveSubmission: refused while the team has a submission of
\* this contest that is not terminal, and when List fails.
CheckNoActiveSubmission(s) ==
    /\ sub[s].state = "checking"
    /\ \/ /\ sub' = [sub EXCEPT ![s].state =
                        IF \E t \in Subs : /\ TeamOf[t] = TeamOf[s] /\ InProgress(t)
                                           /\ sub[t].contest = sub[s].contest
                        THEN "refused" ELSE "saving"]
          /\ UNCHANGED faults
       \/ Fault("list") /\ sub' = [sub EXCEPT ![s].state = "refused"]
    /\ UNCHANGED <<adminKey, contest, endsAt, snapshot, archived, op, watcher, shown, frozen>>

\* Ingest, Save.
IngestSave(s) ==
    /\ sub[s].state = "saving"
    /\ sub' = [sub EXCEPT ![s].state = "evaluating"]
    /\ UNCHANGED <<adminKey, contest, endsAt, snapshot, archived, op, watcher, shown, frozen, faults>>

\* The pipeline (module BenchPipeline) ends the submission.
Finish(s) ==
    /\ sub[s].state = "evaluating"
    /\ \/ \E g \in Grades :
             sub' = [sub EXCEPT ![s].state = "completed", ![s].grade = g]
       \/ sub' = [sub EXCEPT ![s].state = "failed"]
    /\ UNCHANGED <<adminKey, contest, endsAt, snapshot, archived, op, watcher, shown, frozen, faults>>

-----------------------------------------------------------------------------
(* The leaderboard watcher, with at least one subscriber on the bus *)

\* tickLeaderboardWatcher, List: nothing to do when the hash has not changed; the
\* new hash is what every later exit of the tick returns.  A failed List leaves
\* the watcher as it is.
WatchList ==
    /\ watcher.pc = "idle"
    /\ LeaderboardHash # watcher.lastHash
    /\ watcher' = [watcher EXCEPT !.lastHash = LeaderboardHash, !.pc = "active"]
    /\ UNCHANGED <<adminKey, contest, endsAt, snapshot, archived, sub, op, shown, frozen, faults>>

\* tickLeaderboardWatcher, GetActive: without an active contest, and on an
\* error, nothing is broadcast.
WatchGetActive ==
    /\ watcher.pc = "active"
    /\ \/ /\ Active = {} /\ UNCHANGED faults
          /\ watcher' = [watcher EXCEPT !.pc = "idle"]
       \/ Fault("get") /\ watcher' = [watcher EXCEPT !.pc = "idle"]
       \/ /\ \E c \in Active : watcher' = [watcher EXCEPT !.pc = "build", !.contest = c]
          /\ UNCHANGED faults
    /\ UNCHANGED <<adminKey, contest, endsAt, snapshot, archived, sub, op, shown, frozen>>

\* buildLeaderboardEntries lists the submissions again; no entries on an error.
WatchBuild ==
    /\ watcher.pc = "build"
    /\ \/ /\ watcher' = [watcher EXCEPT !.pc = "send",
                          !.entries = BuildLeaderboardEntries(watcher.contest)]
          /\ UNCHANGED faults
       \/ Fault("list") /\ watcher' = [watcher EXCEPT !.pc = "send"]
    /\ UNCHANGED <<adminKey, contest, endsAt, snapshot, archived, sub, op, shown, frozen>>

\* Broadcast of the "update" event.
WatchBroadcast ==
    /\ watcher.pc = "send"
    /\ shown' = [shown EXCEPT ![watcher.contest] = watcher.entries]
    /\ watcher' = [watcher EXCEPT !.pc = "idle", !.contest = "none", !.entries = {}]
    /\ UNCHANGED <<adminKey, contest, endsAt, snapshot, archived, sub, op, frozen, faults>>

\* The control plane dies and is restarted: requests and goroutines start
\* over, the contest store (PostgreSQL) and the submission store keep their
\* records.  A submission that was not saved is gone.  The restarted process
\* reads ADMIN_API_KEY anew.
Restart ==
    /\ Fault("crash")
    /\ adminKey' \in BOOLEAN
    /\ op' = [p \in Procs |-> Idle]
    /\ watcher' = [pc |-> "idle", contest |-> "none", entries |-> {}, lastHash |-> 0]
    /\ sub' = [s \in Subs |-> IF sub[s].state \in {"checking", "saving"}
                              THEN [sub[s] EXCEPT !.state = "refused"] ELSE sub[s]]
    /\ UNCHANGED <<contest, endsAt, snapshot, archived, shown, frozen>>

-----------------------------------------------------------------------------
(* Specification *)

\* Submissions may have been accepted before, without a contest.
Init ==
    /\ adminKey \in BOOLEAN
    /\ contest  = [c \in Contests |-> "absent"]
    /\ endsAt   = [c \in Contests |-> "none"]
    /\ snapshot = [c \in Contests |-> {}]
    /\ archived = {}
    /\ \E old \in SUBSET Subs :
          sub = [s \in Subs |-> [state |-> IF s \in old THEN "evaluating" ELSE "new",
                                 contest |-> "none", grade |-> <<0, 0>>]]
    /\ op       = [p \in Procs |-> Idle]
    /\ watcher  = [pc |-> "idle", contest |-> "none", entries |-> {}, lastHash |-> 0]
    /\ shown    = [c \in Contests |-> {}]
    /\ frozen   = {}
    /\ faults   = 0

ActivateStep(a) == ActivateGet(a) \/ ActivateUpdate(a)

CloseStep(p) ==
    CloseList(p) \/ CloseGet(p) \/ CloseUpdate(p) \/ CloseSnapshot(p) \/ CloseBroadcast(p)

IngestStep(s) ==
    \/ IngestOpen(s) \/ IngestGetActive(s) \/ CheckNoActiveSubmission(s)
    \/ IngestSave(s) \/ Finish(s)

WatcherStep == WatchList \/ WatchGetActive \/ WatchBuild \/ WatchBroadcast

Next ==
    \/ \E c \in Contests : Create(c) \/ EndsAtPasses(c)
    \/ \E a \in Admins, c \in Contests : ActivateCheck(a, c) \/ CloseRequest(a, c)
    \/ \E a \in Admins : ActivateStep(a)
    \/ AutoCloseTick
    \/ \E p \in Procs : CloseStep(p)
    \/ \E s \in Subs : IngestStep(s)
    \/ WatcherStep
    \/ Restart

Spec == Init /\ [][Next]_vars

\* The two tickers keep firing and a request that was begun is carried on;
\* nobody is obliged to send a request or to finish a benchmark.
Fairness ==
    /\ WF_vars(AutoCloseTick) /\ WF_vars(WatcherStep)
    /\ \A a \in Admins : WF_vars(ActivateStep(a))
    /\ \A p \in Procs : WF_vars(CloseStep(p))

FairSpec == Spec /\ Fairness

-----------------------------------------------------------------------------
(* Properties *)

OpType == [pc : {"idle", "activate", "activating", "list", "close", "closing",
                 "snapshot", "frozen"},
           contest : Contests \cup {"none"}, entries : SUBSET Subs]

\* Type invariant; a goroutine that is not idle has a contest, and only an
\* admin request activates.
TypeOK ==
    /\ adminKey \in BOOLEAN
    /\ contest \in [Contests -> {"absent", "draft", "active", "closed"}]
    /\ endsAt \in [Contests -> {"none", "future", "passed"}]
    /\ snapshot \in [Contests -> SUBSET Subs]
    /\ archived \subseteq Contests
    /\ sub \in [Subs -> [state : {"new", "checking", "refused", "saving",
                                  "evaluating", "completed", "failed"},
                         contest : Contests \cup {"none"},
                         grade : Nat \X Nat]]
    /\ op \in [Procs -> OpType]
    /\ \A p \in Procs : op[p].pc # "idle" => op[p].contest \in Contests
    /\ op[AutoClose].pc \notin {"activate", "activating"}
    /\ watcher \in [pc : {"idle", "active", "build", "send"}, contest : Contests \cup {"none"},
                    entries : SUBSET Subs, lastHash : Nat]
    /\ shown \in [Contests -> SUBSET Subs]
    /\ frozen \subseteq Contests
    /\ faults \in 0..MaxFaults

\* The admins whose Activate has passed the GetActive check and has not ended.
Activating == {a \in Admins : op[a].pc \in {"activate", "activating"}}

\* GetActive's check and the Update are separate calls, so Activate calls that
\* overlap may all succeed.  No more contests than that are ever active: those
\* active and those about to be are at most as many as requests can overlap.
\* For one admin at a time this is ErrAlreadyActive's promise.
ActiveBounded == Cardinality(Active) + Cardinality(Activating) <= Cardinality(Admins)

\* A contest is settled when it is closed and no Activate has read it as a draft.
Settled(c) ==
    /\ contest[c] = "closed"
    /\ \A a \in Admins : ~(op[a].pc = "activating" /\ op[a].contest = c)

\* Only an Activate that read the draft before the contest was closed can bring
\* a closed contest back: a settled contest stays settled, whatever overlapping
\* requests, late Updates and failed calls do.
SettledForGood == [][\A c \in Contests : Settled(c) => Settled(c)']_vars

\* An archived leaderboard belongs to a contest that was activated, lists only
\* completed submissions of that contest or of none, and lists no team twice,
\* however late it is written and whichever of several closers writes it.
SnapshotSound ==
    \A c \in archived :
        /\ contest[c] \in {"active", "closed"}
        /\ \A s \in snapshot[c] : IsCompleted(s) /\ sub[s].contest \in {c, "none"}
        /\ \A s, t \in snapshot[c] : TeamOf[s] = TeamOf[t] => s = t

\* Every closed contest eventually has an archived leaderboard.
ClosedIsArchived ==
    \A c \in Contests : contest[c] = "closed" ~> c \in archived

\* A contest that is active when its EndsAt has passed is eventually closed.
DueContestCloses ==
    \A c \in Contests :
        contest[c] = "active" /\ endsAt[c] = "passed" ~> contest[c] = "closed"

\* Once a submission of an active contest has completed, the broadcast board of
\* that contest catches up with the submission store: no completion during the
\* contest escapes leaderboardHash.
WatcherCatchesUp ==
    \A c \in Contests, s \in Subs :
        contest[c] = "active" /\ IsCompleted(s) /\ sub[s].contest = c
            ~> contest[c] # "active" \/ shown[c] = BuildLeaderboardEntries(c)

-----------------------------------------------------------------------------
(* What comments and documents say and the code does not keep: each of these
   is violated, see README.md *)

\* "At most one contest may be active at any time" (ErrAlreadyActive): two
\* simultaneous Activate calls cannot both succeed.
AtMostOneActive == Cardinality(Active) <= 1

\* The lifecycle goes draft -> active -> closed: "all transitions are guarded so
\* no two goroutines can produce inconsistent state".
LifecycleForward ==
    [][\A c \in Contests :
         /\ contest[c] = "closed" => contest'[c] = "closed"
         /\ contest[c] = "active" => contest'[c] \in {"active", "closed"}]_vars

\* SnapshotLeaderboard is called exactly once per contest: an archived
\* leaderboard is not written again with other entries.
SnapshotWrittenOnce ==
    [][\A c \in archived : snapshot'[c] = snapshot[c]]_vars

\* The entries given to Close are the leaderboard at the moment of closing:
\* when Close marks the contest closed, they are the board of that moment.
SnapshotIsClosingBoard ==
    [][\A p \in Procs :
         op[p].pc = "closing" /\ op'[p].pc = "snapshot"
            => op[p].entries = EntriesOf(p)]_vars

\* The watcher does not broadcast when no contest is active: the contest it
\* sends an update for is still active when the update goes out.
WatcherQuietWhenClosed ==
    [][watcher.pc = "send" /\ watcher'.pc = "idle"
          => contest[watcher.contest] = "active"]_<<watcher, shown>>

\* A team has at most one submission of a contest in evaluation.
OneInProgressPerTeam ==
    \A s, t \in Subs :
        /\ InProgress(s) /\ InProgress(t)
        /\ TeamOf[s] = TeamOf[t] /\ sub[s].contest = sub[t].contest
        /\ sub[s].contest # "none"
        => s = t

=============================================================================
