----------------------- MODULE ContestLifecycle_proofs -----------------------
(***************************************************************************)
(* Proofs about ContestLifecycle for every set of contests, submissions,   *)
(* teams and grades, every number of admin requests in flight and every    *)
(* fault budget.                                                           *)
(***************************************************************************)
EXTENDS ContestLifecycle, FiniteSetTheorems, TLAPS

-----------------------------------------------------------------------------
(* The inductive invariants *)

\* E may be published as the board of contest c: completed submissions of c or
\* of no contest, one per team.
BoardSound(c, E) ==
    /\ \A s \in E : IsCompleted(s) /\ sub[s].contest \in {c, "none"}
    /\ \A s, t \in E : TeamOf[s] = TeamOf[t] => s = t

\* The entries a goroutine carries to Close, and those in the store, are
\* boards of their contest, however old they are.
BoardsInv ==
    /\ \A p \in Procs : BoardSound(op[p].contest, op[p].entries)
    /\ \A c \in archived : BoardSound(c, snapshot[c])

\* A contest that was activated is active or closed ever after.
Begun(c) == contest[c] \in {"active", "closed"}

\* Close writes only to contests that were activated.
BegunInv ==
    /\ \A p \in Procs : op[p].pc \in {"closing", "snapshot", "frozen"} => Begun(op[p].contest)
    /\ \A c \in archived : Begun(c)

\* The set of active contests is finite, and bounded with the activations
\* under way.
BoundInv == IsFiniteSet(Active) /\ ActiveBounded

-----------------------------------------------------------------------------
(* Type correctness *)

\* The idle goroutine.
LEMMA IdleType == Idle \in OpType /\ Idle.pc = "idle" /\ Idle.entries = {}
  BY DEF Idle, OpType

\* The image of a finite set under a function is finite.
LEMMA FiniteImage ==
    ASSUME NEW S, IsFiniteSet(S), NEW f, f \in [S -> {f[x] : x \in S}]
    PROVE  IsFiniteSet({f[x] : x \in S})
  <1> DEFINE T == {f[x] : x \in S}
  <1>1. f \in Surjection(S, T)
    BY DEF Surjection
  <1>2. QED
    BY <1>1, FS_Surjection, Zenon

\* The hash is a natural number: finitely many submissions, finite scores.
LEMMA HashType == TypeOK => LeaderboardHash \in Nat
  <1> SUFFICES ASSUME TypeOK PROVE LeaderboardHash \in Nat
    OBVIOUS
  <1> DEFINE done == {t \in Subs : IsCompleted(t)}
             f == [s \in done |-> {s} \X (0..sub[s].grade[1])]
             U == {f[s] : s \in done}
  <1>1. IsFiniteSet(done)
    BY ContestAssumption, FS_Subset
  <1>2. IsFiniteSet(U)
    <2>1. f \in [done -> U]
      OBVIOUS
    <2> HIDE DEF done, f
    <2>2. QED
      BY <1>1, <2>1, FiniteImage
  <1>3. ASSUME NEW u \in U PROVE IsFiniteSet(u)
    <2>1. PICK s \in done : u = {s} \X (0..sub[s].grade[1])
      OBVIOUS
    <2>2. sub[s].grade[1] \in Nat
      BY DEF TypeOK
    <2>3. IsFiniteSet(0..sub[s].grade[1])
      <3>1. 0 \in Int /\ sub[s].grade[1] \in Int
        BY <2>2
      <3> HIDE DEF done
      <3>2. QED
        BY <3>1, FS_Interval, Zenon
    <2>4. IsFiniteSet({s})
      BY FS_Singleton, Zenon
    <2>5. QED
      BY <2>1, <2>3, <2>4, FS_Product
  <1>4. IsFiniteSet(UNION U)
    BY <1>2, <1>3, FS_UNION
  <1>5. UNION U = UNION {{s} \X (0..sub[s].grade[1]) : s \in done}
    OBVIOUS
  <1>6. QED
    BY <1>4, <1>5, FS_CardinalityType DEF LeaderboardHash

\* A goroutine that moves on keeps its contest and its entries.
LEMMA GotoType ==
    ASSUME TypeOK, NEW p \in Procs, op[p].pc # "idle",
           NEW l \in {"activate", "activating", "list", "close", "closing",
                      "snapshot", "frozen"},
           p = AutoClose => l \notin {"activate", "activating"},
           Goto(p, l)
    PROVE  /\ op' \in [Procs -> OpType]
           /\ \A q \in Procs : op'[q].pc # "idle" => op'[q].contest \in Contests
           /\ op'[AutoClose].pc \notin {"activate", "activating"}
           /\ op'[p].pc = l
           /\ op'[p].contest = op[p].contest /\ op'[p].entries = op[p].entries
           /\ \A q \in Procs \ {p} : op'[q] = op[q]
  BY DEF TypeOK, OpType, Goto, Procs

\* A goroutine that returns is idle.
LEMMA ReturnType ==
    ASSUME TypeOK, NEW p \in Procs, Return(p)
    PROVE  /\ op' \in [Procs -> OpType]
           /\ \A q \in Procs : op'[q].pc # "idle" => op'[q].contest \in Contests
           /\ op'[AutoClose].pc \notin {"activate", "activating"}
           /\ op'[p] = Idle
           /\ \A q \in Procs \ {p} : op'[q] = op[q]
  BY IdleType DEF TypeOK, Return, Procs

\* A request begins without entries.
LEMMA BeginType ==
    ASSUME TypeOK, NEW p \in Procs, NEW l \in {"activate", "list"}, NEW c \in Contests,
           p = AutoClose => l # "activate",
           op' = [op EXCEPT ![p] = [pc |-> l, contest |-> c, entries |-> {}]]
    PROVE  /\ op' \in [Procs -> OpType]
           /\ \A q \in Procs : op'[q].pc # "idle" => op'[q].contest \in Contests
           /\ op'[AutoClose].pc \notin {"activate", "activating"}
           /\ op'[p] = [pc |-> l, contest |-> c, entries |-> {}]
           /\ \A q \in Procs \ {p} : op'[q] = op[q]
  <1>1. [pc |-> l, contest |-> c, entries |-> {}] \in OpType
    BY DEF OpType
  <1>2. QED
    BY <1>1 DEF TypeOK, Procs

\* A fault stays within the budget.
LEMMA FaultType ==
    ASSUME TypeOK, NEW k, Fault(k) \/ UNCHANGED faults
    PROVE  faults' \in 0..MaxFaults
  BY ContestAssumption DEF TypeOK, Fault

\* An admin is not the auto-close goroutine.
LEMMA AdminIsProc == \A a \in Admins : a \in Procs /\ a # AutoClose
  BY ContestAssumption DEF Procs, AutoClose

\* A board lists submissions.
LEMMA EntriesType ==
    /\ \A c : BuildLeaderboardEntries(c) \subseteq Subs
    /\ \A p : EntriesOf(p) \subseteq Subs
  BY DEF EntriesOf, BuildLeaderboardEntries, CloseContestEntries, BuildDedupedLeaderboard

\* The admin API and the auto-close ticker keep the types.
LEMMA AdminType ==
    ASSUME TypeOK,
           \/ \E c \in Contests : Create(c) \/ EndsAtPasses(c)
           \/ \E a \in Admins, c \in Contests : ActivateCheck(a, c) \/ CloseRequest(a, c)
           \/ \E a \in Admins : ActivateStep(a)
           \/ AutoCloseTick
    PROVE  TypeOK'
  <1>1. ASSUME NEW c \in Contests, Create(c) PROVE TypeOK'
    BY <1>1 DEF TypeOK, Create, Save
  <1>2. ASSUME NEW c \in Contests, EndsAtPasses(c) PROVE TypeOK'
    BY <1>2 DEF TypeOK, EndsAtPasses
  <1>3. ASSUME NEW a \in Admins, NEW c \in Contests, ActivateCheck(a, c) PROVE TypeOK'
    <2>1. a \in Procs /\ a # AutoClose
      BY AdminIsProc
    <2>2. op' = [op EXCEPT ![a] = [pc |-> "activate", contest |-> c, entries |-> {}]]
      BY <1>3 DEF ActivateCheck
    <2>3. /\ op' \in [Procs -> OpType]
          /\ \A q \in Procs : op'[q].pc # "idle" => op'[q].contest \in Contests
          /\ op'[AutoClose].pc \notin {"activate", "activating"}
      BY <2>1, <2>2, BeginType
    <2>4. QED
      BY <1>3, <2>3 DEF ActivateCheck, TypeOK
  <1>4. ASSUME NEW a \in Admins, NEW c \in Contests, CloseRequest(a, c) PROVE TypeOK'
    <2>1. a \in Procs
      BY AdminIsProc
    <2>2. op' = [op EXCEPT ![a] = [pc |-> "list", contest |-> c, entries |-> {}]]
      BY <1>4 DEF CloseRequest
    <2>3. /\ op' \in [Procs -> OpType]
          /\ \A q \in Procs : op'[q].pc # "idle" => op'[q].contest \in Contests
          /\ op'[AutoClose].pc \notin {"activate", "activating"}
      BY <2>1, <2>2, BeginType
    <2>4. QED
      BY <1>4, <2>3 DEF CloseRequest, TypeOK
  <1>5. ASSUME NEW a \in Admins, ActivateGet(a) PROVE TypeOK'
    <2>1. a \in Procs /\ a # AutoClose /\ op[a].pc # "idle"
      BY <1>5, AdminIsProc DEF ActivateGet
    <2>2. Goto(a, "activating") \/ Return(a)
      BY <1>5 DEF ActivateGet
    <2>3. /\ op' \in [Procs -> OpType]
          /\ \A q \in Procs : op'[q].pc # "idle" => op'[q].contest \in Contests
          /\ op'[AutoClose].pc \notin {"activate", "activating"}
      BY <2>1, <2>2, GotoType, ReturnType
    <2>4. faults' \in 0..MaxFaults
      BY <1>5, FaultType DEF ActivateGet
    <2>5. QED
      BY <1>5, <2>3, <2>4 DEF ActivateGet, TypeOK
  <1>6. ASSUME NEW a \in Admins, ActivateUpdate(a) PROVE TypeOK'
    <2>1. a \in Procs /\ Return(a) /\ (op[a].pc # "idle")
      BY <1>6, AdminIsProc DEF ActivateUpdate
    <2>2. /\ op' \in [Procs -> OpType]
          /\ \A q \in Procs : op'[q].pc # "idle" => op'[q].contest \in Contests
          /\ op'[AutoClose].pc \notin {"activate", "activating"}
      BY <2>1, ReturnType
    <2>3. faults' \in 0..MaxFaults
      BY <1>6, FaultType DEF ActivateUpdate
    <2>4. contest' \in [Contests -> {"absent", "draft", "active", "closed"}]
      BY <1>6 DEF ActivateUpdate, Update, TypeOK
    <2>5. QED
      BY <1>6, <2>2, <2>3, <2>4 DEF ActivateUpdate, TypeOK
  <1>7. CASE AutoCloseTick
    <2>1. PICK c \in Active : op' = [op EXCEPT ![AutoClose] =
                                  [pc |-> "list", contest |-> c, entries |-> {}]]
      BY <1>7 DEF AutoCloseTick
    <2>2. c \in Contests /\ AutoClose \in Procs
      BY DEF Active, Procs
    <2>3. /\ op' \in [Procs -> OpType]
          /\ \A q \in Procs : op'[q].pc # "idle" => op'[q].contest \in Contests
          /\ op'[AutoClose].pc \notin {"activate", "activating"}
      BY <2>1, <2>2, BeginType
    <2>4. QED
      BY <1>7, <2>3 DEF AutoCloseTick, TypeOK
  <1>8. QED
    BY <1>1, <1>2, <1>3, <1>4, <1>5, <1>6, <1>7 DEF ActivateStep

\* Close keeps the types.
LEMMA CloseType ==
    ASSUME TypeOK, NEW p \in Procs, CloseStep(p)
    PROVE  TypeOK'
  <1> DEFINE c == op[p].contest
             OpOK == /\ op' \in [Procs -> OpType]
                     /\ \A q \in Procs : op'[q].pc # "idle" => op'[q].contest \in Contests
                     /\ op'[AutoClose].pc \notin {"activate", "activating"}
  <1>1. op[p].pc # "idle" /\ c \in Contests /\ op[p].entries \subseteq Subs
    <2>1. op[p].pc # "idle"
      BY DEF CloseStep, CloseList, CloseGet, CloseUpdate, CloseSnapshot, CloseBroadcast
    <2>2. QED
      BY <2>1 DEF TypeOK, OpType
  <1>2. \A l \in {"close", "closing", "snapshot", "frozen"} : Goto(p, l) => OpOK
    BY <1>1, GotoType
  <1>3. Return(p) => OpOK
    BY ReturnType
  <1>4. CASE CloseList(p)
    <2>1. OpOK
      <3>1. CASE op' = [op EXCEPT ![p].pc = "close", ![p].entries = EntriesOf(p)]
        <4>1. EntriesOf(p) \in SUBSET Subs
          BY EntriesType
        <4>2. QED
          BY <1>1, <3>1, <4>1 DEF TypeOK, OpType, Procs
      <3>2. CASE Goto(p, "close")
        BY <1>2, <3>2
      <3>3. QED
        BY <1>4, <3>1, <3>2 DEF CloseList
    <2>2. faults' \in 0..MaxFaults
      BY <1>4, FaultType DEF CloseList
    <2>3. QED
      BY <1>4, <2>1, <2>2 DEF CloseList, TypeOK
  <1>5. CASE CloseGet(p)
    <2>1. OpOK
      BY <1>2, <1>3, <1>5 DEF CloseGet
    <2>2. faults' \in 0..MaxFaults
      BY <1>5, FaultType DEF CloseGet
    <2>3. QED
      BY <1>5, <2>1, <2>2 DEF CloseGet, TypeOK
  <1>6. CASE CloseUpdate(p)
    <2>1. OpOK
      BY <1>2, <1>3, <1>6 DEF CloseUpdate
    <2>2. faults' \in 0..MaxFaults
      BY <1>6, FaultType DEF CloseUpdate
    <2>3. contest' \in [Contests -> {"absent", "draft", "active", "closed"}]
      BY <1>6 DEF CloseUpdate, Update, TypeOK
    <2>4. QED
      BY <1>6, <2>1, <2>2, <2>3 DEF CloseUpdate, TypeOK
  <1>7. CASE CloseSnapshot(p)
    <2>1. OpOK
      BY <1>2, <1>7 DEF CloseSnapshot
    <2>2. faults' \in 0..MaxFaults
      BY <1>7, FaultType DEF CloseSnapshot
    <2>3. snapshot' \in [Contests -> SUBSET Subs] /\ archived' \subseteq Contests
      BY <1>1, <1>7 DEF CloseSnapshot, SnapshotLeaderboard, TypeOK
    <2>4. QED
      BY <1>7, <2>1, <2>2, <2>3 DEF CloseSnapshot, TypeOK
  <1>8. CASE CloseBroadcast(p)
    <2>1. OpOK
      BY <1>3, <1>8 DEF CloseBroadcast
    <2>2. shown' \in [Contests -> SUBSET Subs] /\ frozen' \subseteq Contests
      BY <1>1, <1>8 DEF CloseBroadcast, TypeOK
    <2>3. QED
      BY <1>8, <2>1, <2>2 DEF CloseBroadcast, TypeOK
  <1>9. QED
    BY <1>4, <1>5, <1>6, <1>7, <1>8 DEF CloseStep

\* The states of a submission's progress.
SubState == {"new", "checking", "refused", "saving", "evaluating", "completed", "failed"}
SubType == [state : SubState, contest : Contests \cup {"none"}, grade : Nat \X Nat]

\* Admission, the end of a benchmark and a restart change one kind of record.
LEMMA IngestType ==
    ASSUME TypeOK, NEW s \in Subs, IngestStep(s)
    PROVE  /\ TypeOK'
           /\ \A t \in Subs : IsCompleted(t) => sub'[t] = sub[t]
           /\ UNCHANGED <<adminKey, contest, endsAt, snapshot, archived, op, watcher,
                          shown, frozen>>
  <1>1. sub \in [Subs -> SubType]
    BY DEF TypeOK, SubType, SubState
  <1>2. /\ UNCHANGED <<adminKey, contest, endsAt, snapshot, archived, op, watcher,
                       shown, frozen>>
        /\ faults' = faults \/ Fault("list")
    BY DEF IngestStep, IngestOpen, IngestGetActive, CheckNoActiveSubmission, IngestSave, Finish
  <1>3. ~IsCompleted(s)
    BY DEF IngestStep, IngestOpen, IngestGetActive, CheckNoActiveSubmission, IngestSave, Finish,
           IsCompleted
  <1>4. sub' \in [Subs -> SubType] /\ \A t \in Subs \ {s} : sub'[t] = sub[t]
    <2>1. CASE IngestGetActive(s)
      <3>1. PICK c \in Contests :
              sub' = [sub EXCEPT ![s].state = "checking", ![s].contest = c]
        BY <2>1 DEF IngestGetActive, Active
      <3>2. [sub[s] EXCEPT !.state = "checking", !.contest = c] \in SubType
        <4>1. sub[s] \in SubType
          BY <1>1
        <4>2. [sub[s] EXCEPT !.state = "checking"] \in SubType
          BY <4>1 DEF SubType, SubState
        <4>3. QED
          BY <4>2 DEF SubType
      <3>3. sub' = [sub EXCEPT ![s] = [sub[s] EXCEPT !.state = "checking", !.contest = c]]
        BY <3>1
      <3>4. QED
        BY <1>1, <3>2, <3>3
    <2>2. CASE CheckNoActiveSubmission(s)
      <3>1. \E x \in SubState : sub' = [sub EXCEPT ![s].state = x]
        BY <2>2 DEF CheckNoActiveSubmission, SubState
      <3>2. QED
        BY <1>1, <3>1 DEF SubType
    <2>3. CASE IngestSave(s)
      BY <1>1, <2>3 DEF IngestSave, SubType, SubState
    <2>4. CASE Finish(s)
      <3>1. \/ \E g \in Nat \X Nat :
                  sub' = [sub EXCEPT ![s].state = "completed", ![s].grade = g]
            \/ sub' = [sub EXCEPT ![s].state = "failed"]
        BY <2>4, ContestAssumption DEF Finish
      <3>2. QED
        BY <1>1, <3>1 DEF SubType, SubState
    <2>5. CASE IngestOpen(s)
      BY <1>1, <2>5 DEF IngestOpen, SubType, SubState
    <2>6. QED
      BY <2>1, <2>2, <2>3, <2>4, <2>5 DEF IngestStep
  <1>5. TypeOK'
    <2>1. faults' \in 0..MaxFaults
      BY <1>2, FaultType
    <2>2. QED
      BY <1>2, <1>4, <2>1 DEF TypeOK, SubType, SubState
  <1>6. QED
    BY <1>2, <1>3, <1>4, <1>5

\* The watcher keeps the types.
LEMMA WatcherType ==
    ASSUME TypeOK, WatcherStep
    PROVE  /\ TypeOK'
           /\ UNCHANGED <<adminKey, contest, endsAt, snapshot, archived, sub, op, frozen>>
  <1> DEFINE W == [pc : {"idle", "active", "build", "send"}, contest : Contests \cup {"none"},
                   entries : SUBSET Subs, lastHash : Nat]
  <1>1. watcher \in W
    BY DEF TypeOK
  <1>2. LeaderboardHash \in Nat
    BY HashType
  <1>3. BuildLeaderboardEntries(watcher.contest) \in SUBSET Subs
    BY EntriesType
  <1>4. UNCHANGED <<adminKey, contest, endsAt, snapshot, archived, sub, op, frozen>>
    BY DEF WatcherStep, WatchList, WatchGetActive, WatchBuild, WatchBroadcast
  <1>5. CASE WatchList \/ WatchGetActive
    <2>1. watcher' \in W
      BY <1>1, <1>2, <1>5 DEF WatchList, WatchGetActive, Active
    <2>2. faults' \in 0..MaxFaults
      BY <1>5, FaultType DEF WatchList, WatchGetActive
    <2>3. QED
      BY <1>4, <1>5, <2>1, <2>2 DEF WatchList, WatchGetActive, TypeOK
  <1>6. CASE WatchBuild
    <2>1. watcher' \in W
      BY <1>1, <1>3, <1>6 DEF WatchBuild
    <2>2. faults' \in 0..MaxFaults
      BY <1>6, FaultType DEF WatchBuild
    <2>3. QED
      BY <1>4, <1>6, <2>1, <2>2 DEF WatchBuild, TypeOK
  <1>7. CASE WatchBroadcast
    <2>1. watcher' \in W
      BY <1>1, <1>7 DEF WatchBroadcast
    <2>2. shown' \in [Contests -> SUBSET Subs]
      BY <1>1, <1>7 DEF WatchBroadcast, TypeOK
    <2>3. QED
      BY <1>4, <1>7, <2>1, <2>2 DEF WatchBroadcast, TypeOK
  <1>8. QED
    BY <1>4, <1>5, <1>6, <1>7 DEF WatcherStep

\* A restart of the control plane keeps the types and every completed record.
LEMMA RestartType ==
    ASSUME TypeOK, Restart
    PROVE  /\ TypeOK'
           /\ \A t \in Subs : IsCompleted(t) => sub'[t] = sub[t]
           /\ \A p \in Procs : op'[p] = Idle
  <1>1. sub \in [Subs -> SubType]
    BY DEF TypeOK, SubType, SubState
  <1>2. \A s \in Subs : [sub[s] EXCEPT !.state = "refused"] \in SubType
    BY <1>1 DEF SubType, SubState
  <1>3. sub' \in [Subs -> SubType]
    BY <1>1, <1>2 DEF Restart
  <1>4. op' \in [Procs -> OpType] /\ \A p \in Procs : op'[p] = Idle
    BY IdleType DEF Restart
  <1>5. faults' \in 0..MaxFaults
    BY FaultType DEF Restart
  <1>6. TypeOK'
    BY <1>3, <1>4, <1>5, IdleType DEF Restart, TypeOK, SubType, SubState, Procs
  <1>7. QED
    BY <1>4, <1>6 DEF Restart, IsCompleted

\* Types hold whatever the number of admins and faults.
THEOREM ContestTypeCorrect == Spec => []TypeOK
  <1>1. Init => TypeOK
    BY ContestAssumption, IdleType DEF Init, TypeOK, Procs
  <1>2. TypeOK /\ [Next]_vars => TypeOK'
    <2> SUFFICES ASSUME TypeOK, [Next]_vars PROVE TypeOK'
      OBVIOUS
    <2>1. CASE UNCHANGED vars
      BY <2>1 DEF vars, TypeOK
    <2>2. QED
      BY <2>1, AdminType, CloseType, IngestType, WatcherType, RestartType DEF Next
  <1>3. QED
    BY <1>1, <1>2, PTL DEF Spec

-----------------------------------------------------------------------------
(* Boards *)

\* BuildDedupedLeaderboard yields a board: Better is asymmetric, so of two
\* submissions of one team at most one survives.
LEMMA DedupedSound ==
    ASSUME TypeOK, NEW c, NEW S, S \subseteq Subs,
           \A s \in S : sub[s].contest \in {c, "none"}
    PROVE  BoardSound(c, BuildDedupedLeaderboard(S))
  <1> DEFINE B == BuildDedupedLeaderboard(S)
  <1>1. \A s \in B : s \in Subs /\ IsCompleted(s) /\ sub[s].contest \in {c, "none"}
    BY DEF BuildDedupedLeaderboard
  <1>2. ASSUME NEW s \in B, NEW t \in B, TeamOf[s] = TeamOf[t], s # t
        PROVE  FALSE
    <2>1. s \in Nat /\ t \in Nat
      BY <1>1, ContestAssumption
    <2>2. /\ sub[s].grade[1] \in Nat /\ sub[s].grade[2] \in Nat
          /\ sub[t].grade[1] \in Nat /\ sub[t].grade[2] \in Nat
      BY <1>1 DEF TypeOK
    <2>3. ~(Better(s, t) /\ Better(t, s))
      BY <2>2 DEF Better
    <2>4. /\ Better(s, t) \/ (~Better(t, s) /\ s < t)
          /\ Better(t, s) \/ (~Better(s, t) /\ t < s)
      BY <1>2 DEF BuildDedupedLeaderboard
    <2>5. QED
      BY <2>1, <2>3, <2>4
  <1>3. QED
    BY <1>1, <1>2 DEF BoardSound

\* Both callers of Close build a board of their contest.
LEMMA EntriesSound ==
    ASSUME TypeOK, NEW p
    PROVE  BoardSound(op[p].contest, EntriesOf(p))
  <1> DEFINE c == op[p].contest
  <1>1. BoardSound(c, BuildLeaderboardEntries(c))
    BY DedupedSound DEF BuildLeaderboardEntries
  <1>2. BoardSound(c, CloseContestEntries(c))
    BY DedupedSound DEF CloseContestEntries
  <1>3. QED
    BY <1>1, <1>2 DEF EntriesOf

\* A board stays one: a completed submission never changes again.
LEMMA BoardStable ==
    ASSUME NEW c, NEW E, E \subseteq Subs, BoardSound(c, E),
           \A t \in Subs : IsCompleted(t) => sub'[t] = sub[t]
    PROVE  /\ \A s \in E : IsCompleted(s)' /\ sub'[s].contest \in {c, "none"}
           /\ \A s, t \in E : TeamOf[s] = TeamOf[t] => s = t
  BY DEF BoardSound, IsCompleted

\* The empty board.
LEMMA EmptyBoard == \A c : BoardSound(c, {}) /\ BoardSound(c, {})'
  BY DEF BoardSound

\* A step that moves no snapshot and gives a goroutine either what it had, or
\* no entries, keeps the boards.
LEMMA BoardsKept ==
    ASSUME TypeOK, BoardsInv,
           \A t \in Subs : IsCompleted(t) => sub'[t] = sub[t],
           \A p \in Procs :
              \/ op'[p].contest = op[p].contest /\ op'[p].entries = op[p].entries
              \/ op'[p].entries = {},
           UNCHANGED <<snapshot, archived>>
    PROVE  BoardsInv'
  <1>1. ASSUME NEW p \in Procs PROVE BoardSound(op[p].contest, op[p].entries)'
    <2>1. CASE op'[p].entries = {}
      BY <2>1 DEF BoardSound
    <2>2. CASE op'[p].contest = op[p].contest /\ op'[p].entries = op[p].entries
      <3>1. op[p].entries \subseteq Subs
        BY DEF TypeOK, OpType
      <3>2. BoardSound(op[p].contest, op[p].entries)
        BY DEF BoardsInv
      <3>3. /\ \A s \in op[p].entries : IsCompleted(s)' /\ sub'[s].contest \in {op[p].contest, "none"}
            /\ \A s, t \in op[p].entries : TeamOf[s] = TeamOf[t] => s = t
        BY <3>1, <3>2, BoardStable
      <3>4. QED
        BY <2>2, <3>3 DEF BoardSound
    <2>3. QED
      BY <2>1, <2>2
  <1>2. ASSUME NEW c \in archived PROVE BoardSound(c, snapshot[c])'
    <2>1. snapshot[c] \subseteq Subs
      BY DEF TypeOK
    <2>2. BoardSound(c, snapshot[c])
      BY DEF BoardsInv
    <2>3. /\ \A s \in snapshot[c] : IsCompleted(s)' /\ sub'[s].contest \in {c, "none"}
          /\ \A s, t \in snapshot[c] : TeamOf[s] = TeamOf[t] => s = t
      BY <2>1, <2>2, BoardStable
    <2>4. QED
      BY <2>3 DEF BoardSound
  <1>3. QED
    BY <1>1, <1>2 DEF BoardsInv

\* What a step of a goroutine does to the goroutines.
OpMoves(p) ==
    /\ \A q \in Procs \ {p} : op'[q] = op[q]
    /\ \/ op'[p].contest = op[p].contest /\ op'[p].entries = op[p].entries
       \/ op'[p].entries = {}

\* Every step keeps the boards.
LEMMA BoardsStep ==
    ASSUME TypeOK, BoardsInv, [Next]_vars
    PROVE  BoardsInv'
  <1>1. ASSUME NEW p \in Procs, OpMoves(p), UNCHANGED <<sub, snapshot, archived>>
        PROVE  BoardsInv'
    BY <1>1, BoardsKept DEF OpMoves
  <1>2. ASSUME NEW c \in Contests, Create(c) \/ EndsAtPasses(c) PROVE BoardsInv'
    BY <1>2, BoardsKept DEF Create, EndsAtPasses
  <1>3. ASSUME NEW a \in Admins, NEW c \in Contests, ActivateCheck(a, c) \/ CloseRequest(a, c)
        PROVE  BoardsInv'
    <2>1. a \in Procs
      BY AdminIsProc
    <2>2. OpMoves(a)
      BY <1>3, <2>1 DEF ActivateCheck, CloseRequest, OpMoves, TypeOK
    <2>3. QED
      BY <1>1, <1>3, <2>1, <2>2 DEF ActivateCheck, CloseRequest
  <1>4. ASSUME NEW a \in Admins, ActivateStep(a) PROVE BoardsInv'
    <2>1. a \in Procs /\ a # AutoClose /\ op[a].pc # "idle"
      BY <1>4, AdminIsProc DEF ActivateStep, ActivateGet, ActivateUpdate
    <2>2. Goto(a, "activating") \/ Return(a)
      BY <1>4 DEF ActivateStep, ActivateGet, ActivateUpdate
    <2>3. OpMoves(a)
      BY <2>1, <2>2, GotoType, ReturnType, IdleType DEF OpMoves
    <2>4. QED
      BY <1>1, <1>4, <2>1, <2>3 DEF ActivateStep, ActivateGet, ActivateUpdate
  <1>5. CASE AutoCloseTick
    <2>1. AutoClose \in Procs
      BY DEF Procs
    <2>2. OpMoves(AutoClose)
      BY <1>5, <2>1 DEF AutoCloseTick, OpMoves, TypeOK
    <2>3. QED
      BY <1>1, <1>5, <2>1, <2>2 DEF AutoCloseTick
  <1>6. ASSUME NEW p \in Procs, CloseStep(p) PROVE BoardsInv'
    <2>1. op[p].pc # "idle"
      BY <1>6 DEF CloseStep, CloseList, CloseGet, CloseUpdate, CloseSnapshot, CloseBroadcast
    <2>2. ASSUME NEW l \in {"close", "closing", "snapshot", "frozen"}, Goto(p, l) \/ Return(p)
          PROVE  OpMoves(p)
      BY <2>1, <2>2, GotoType, ReturnType, IdleType DEF OpMoves
    <2>3. CASE CloseList(p)
      <3>1. CASE Goto(p, "close")
        BY <1>1, <2>2, <2>3, <3>1 DEF CloseList
      <3>2. CASE op' = [op EXCEPT ![p].pc = "close", ![p].entries = EntriesOf(p)]
        <4>1. /\ op'[p].contest = op[p].contest
              /\ op'[p].entries = EntriesOf(p)
              /\ \A q \in Procs \ {p} : op'[q] = op[q]
          BY <3>2 DEF TypeOK, OpType
        <4>2. BoardSound(op[p].contest, EntriesOf(p))
          BY EntriesSound
        <4>3. UNCHANGED <<sub, snapshot, archived>>
          BY <2>3 DEF CloseList
        <4>4. ASSUME NEW q \in Procs PROVE BoardSound(op[q].contest, op[q].entries)'
          <5>1. BoardSound(op[q].contest, op[q].entries)
            BY DEF BoardsInv
          <5>2. CASE q = p
            BY <4>1, <4>2, <4>3, <5>2 DEF BoardSound, IsCompleted
          <5>3. CASE q # p
            BY <4>1, <4>3, <5>1, <5>3 DEF BoardSound, IsCompleted
          <5>4. QED
            BY <5>2, <5>3
        <4>5. \A c \in archived : BoardSound(c, snapshot[c])'
          BY <4>3 DEF BoardsInv, BoardSound, IsCompleted
        <4>6. QED
          BY <4>3, <4>4, <4>5 DEF BoardsInv
      <3>3. QED
        BY <2>3, <3>1, <3>2 DEF CloseList
    <2>4. CASE CloseGet(p) \/ CloseUpdate(p) \/ CloseBroadcast(p)
      <3>1. OpMoves(p)
        BY <2>2, <2>4 DEF CloseGet, CloseUpdate, CloseBroadcast
      <3>2. QED
        BY <1>1, <2>4, <3>1 DEF CloseGet, CloseUpdate, CloseBroadcast
    <2>5. CASE CloseSnapshot(p)
      <3>1. OpMoves(p)
        BY <2>2, <2>5 DEF CloseSnapshot
      <3>2. CASE UNCHANGED <<snapshot, archived>>
        BY <1>1, <2>5, <3>1, <3>2 DEF CloseSnapshot
      <3>3. CASE SnapshotLeaderboard(op[p].contest, op[p].entries)
        <4>1. /\ sub' = sub /\ archived' = archived \cup {op[p].contest}
              /\ op[p].contest \in Contests
              /\ \A c \in Contests : snapshot'[c] =
                    IF c = op[p].contest THEN op[p].entries ELSE snapshot[c]
          BY <2>1, <2>5, <3>3 DEF CloseSnapshot, SnapshotLeaderboard, TypeOK
        <4>2. ASSUME NEW q \in Procs PROVE BoardSound(op[q].contest, op[q].entries)'
          <5>1. BoardSound(op[q].contest, op[q].entries)
            BY DEF BoardsInv
          <5>2. \/ op'[q].contest = op[q].contest /\ op'[q].entries = op[q].entries
                \/ op'[q].entries = {}
            BY <3>1 DEF OpMoves
          <5>3. QED
            BY <4>1, <5>1, <5>2 DEF BoardSound, IsCompleted
        <4>3. ASSUME NEW c \in archived' PROVE BoardSound(c, snapshot[c])'
          <5>1. c \in Contests
            BY <4>1 DEF TypeOK
          <5>2. BoardSound(c, snapshot'[c])
            BY <4>1, <5>1 DEF BoardsInv
          <5>3. QED
            BY <4>1, <5>2 DEF BoardSound, IsCompleted
        <4>4. QED
          BY <4>2, <4>3 DEF BoardsInv
      <3>4. QED
        BY <2>5, <3>2, <3>3 DEF CloseSnapshot
    <2>6. QED
      BY <1>6, <2>3, <2>4, <2>5 DEF CloseStep
  <1>7. ASSUME NEW s \in Subs, IngestStep(s) PROVE BoardsInv'
    BY <1>7, IngestType, BoardsKept
  <1>8. CASE WatcherStep
    BY <1>8, WatcherType, BoardsKept
  <1>9. CASE Restart
    BY <1>9, RestartType, IdleType, BoardsKept DEF Restart
  <1>10. CASE UNCHANGED vars
    BY <1>10, BoardsKept DEF vars
  <1>11. QED
    BY <1>2, <1>3, <1>4, <1>5, <1>6, <1>7, <1>8, <1>9, <1>10 DEF Next

-----------------------------------------------------------------------------
(* What a step does to the contests and to the requests *)

\* What each step of Close and of Activate does to the statuses: it changes at
\* most the contest of its request, to "active" only when the request is
\* activating it, else to "closed" of a contest it has read as active.
LEMMA StatusStep ==
    ASSUME TypeOK, [Next]_vars
    PROVE  \/ UNCHANGED contest
           \/ \E c \in Contests :
                 /\ contest[c] = "absent" /\ contest' = [contest EXCEPT ![c] = "draft"]
                 /\ UNCHANGED <<op, archived>>
           \/ \E a \in Admins :
                 /\ op[a].pc = "activating" /\ Return(a)
                 /\ contest' = [contest EXCEPT ![op[a].contest] = "active"]
                 /\ UNCHANGED archived
           \/ \E p \in Procs :
                 /\ op[p].pc = "closing" /\ Goto(p, "snapshot")
                 /\ contest' = [contest EXCEPT ![op[p].contest] = "closed"]
                 /\ UNCHANGED archived
  <1>1. ASSUME NEW c \in Contests, Create(c)
        PROVE  /\ contest[c] = "absent" /\ contest' = [contest EXCEPT ![c] = "draft"]
               /\ UNCHANGED <<op, archived>>
    BY <1>1 DEF Create, Get, Save
  <1>2. ASSUME NEW c \in Contests, EndsAtPasses(c) PROVE UNCHANGED contest
    BY <1>2 DEF EndsAtPasses
  <1>3. ASSUME NEW a \in Admins, NEW c \in Contests, ActivateCheck(a, c) \/ CloseRequest(a, c)
        PROVE  UNCHANGED contest
    BY <1>3 DEF ActivateCheck, CloseRequest
  <1>4. ASSUME NEW a \in Admins, ActivateStep(a)
        PROVE  \/ UNCHANGED contest
               \/ /\ op[a].pc = "activating" /\ Return(a)
                  /\ contest' = [contest EXCEPT ![op[a].contest] = "active"]
                  /\ UNCHANGED archived
    BY <1>4 DEF ActivateStep, ActivateGet, ActivateUpdate, Update
  <1>5. CASE AutoCloseTick
    BY <1>5 DEF AutoCloseTick
  <1>6. ASSUME NEW p \in Procs, CloseStep(p)
        PROVE  \/ UNCHANGED contest
               \/ /\ op[p].pc = "closing" /\ Goto(p, "snapshot")
                  /\ contest' = [contest EXCEPT ![op[p].contest] = "closed"]
                  /\ UNCHANGED archived
    BY <1>6 DEF CloseStep, CloseList, CloseGet, CloseUpdate, CloseSnapshot, CloseBroadcast,
                Update
  <1>7. ASSUME NEW s \in Subs, IngestStep(s) PROVE UNCHANGED contest
    BY <1>7, IngestType
  <1>8. CASE WatcherStep
    BY <1>8, WatcherType
  <1>9. CASE Restart
    BY <1>9 DEF Restart
  <1>10. CASE UNCHANGED vars
    BY <1>10 DEF vars
  <1>11. QED
    BY <1>1, <1>2, <1>3, <1>4, <1>5, <1>6, <1>7, <1>8, <1>9, <1>10 DEF Next

\* How a request may move: only GetActive's check begins an Activate, only a
\* draft is being activated, only an active contest is being closed.
Moves(p) ==
    \/ op'[p] = op[p]
    \/ op'[p].pc \in {"idle", "list"}
    \/ op[p].pc = "idle" /\ op'[p].pc = "activate" /\ Active = {}
    \/ /\ op'[p].contest = op[p].contest /\ op'[p].pc # op[p].pc
       /\ \/ /\ op[p].pc = "activate" /\ op'[p].pc = "activating"
             /\ contest[op[p].contest] = "draft"
          \/ op[p].pc = "list" /\ op'[p].pc = "close"
          \/ /\ op[p].pc = "close" /\ op'[p].pc = "closing"
             /\ contest[op[p].contest] = "active"
          \/ op[p].pc = "closing" /\ op'[p].pc = "snapshot"
          \/ op[p].pc = "snapshot" /\ op'[p].pc = "frozen"

\* At most one request moves in a step, unless all are cut off by a restart.
LEMMA OpStep ==
    ASSUME TypeOK, [Next]_vars
    PROVE  \/ \A p \in Procs : op'[p] = Idle
           \/ \E p \in Procs : Moves(p) /\ \A q \in Procs \ {p} : op'[q] = op[q]
  <1> DEFINE Only(p) == Moves(p) /\ \A q \in Procs \ {p} : op'[q] = op[q]
  <1>1. AutoClose \in Procs /\ \A a \in Admins : a \in Procs /\ a # AutoClose
    BY AdminIsProc DEF Procs
  <1>2. UNCHANGED op => Only(AutoClose)
    BY DEF Moves
  <1>3. ASSUME NEW p \in Procs, Return(p) PROVE Only(p)
    BY <1>3, ReturnType, IdleType DEF Moves
  <1>4. ASSUME NEW a \in Admins, NEW c \in Contests, ActivateCheck(a, c) \/ CloseRequest(a, c)
        PROVE  Only(a)
    BY <1>1, <1>4 DEF ActivateCheck, CloseRequest, Moves, TypeOK
  <1>5. ASSUME NEW a \in Admins, ActivateStep(a) PROVE Only(a)
    <2>1. CASE Return(a)
      BY <1>1, <1>3, <2>1
    <2>2. CASE Goto(a, "activating") /\ op[a].pc = "activate"
               /\ contest[op[a].contest] = "draft"
      BY <1>1, <2>2, GotoType DEF Moves
    <2>3. QED
      BY <1>5, <2>1, <2>2 DEF ActivateStep, ActivateGet, ActivateUpdate, Get
  <1>6. ASSUME AutoCloseTick PROVE Only(AutoClose)
    BY <1>1, <1>6 DEF AutoCloseTick, Moves, TypeOK
  <1>7. ASSUME NEW p \in Procs, CloseStep(p) PROVE Only(p)
    <2>1. CASE Return(p)
      BY <1>3, <2>1
    <2>2. CASE Goto(p, "close") /\ op[p].pc = "list"
      BY <2>2, GotoType DEF Moves
    <2>3. CASE op' = [op EXCEPT ![p].pc = "close", ![p].entries = EntriesOf(p)]
               /\ op[p].pc = "list"
      <3>1. /\ op'[p].pc = "close" /\ op'[p].contest = op[p].contest
            /\ \A q \in Procs \ {p} : op'[q] = op[q]
        BY <2>3 DEF TypeOK, OpType
      <3>2. QED
        BY <2>3, <3>1 DEF Moves
    <2>4. CASE Goto(p, "closing") /\ op[p].pc = "close" /\ contest[op[p].contest] = "active"
      BY <2>4, GotoType DEF Moves
    <2>5. CASE Goto(p, "snapshot") /\ op[p].pc = "closing"
      BY <2>5, GotoType DEF Moves
    <2>6. CASE Goto(p, "frozen") /\ op[p].pc = "snapshot"
      BY <2>6, GotoType DEF Moves
    <2>7. QED
      BY <1>7, <2>1, <2>2, <2>3, <2>4, <2>5, <2>6
         DEF CloseStep, CloseList, CloseGet, CloseUpdate, CloseSnapshot, CloseBroadcast, Get
  <1>8. ASSUME NEW s \in Subs, IngestStep(s) PROVE UNCHANGED op
    BY <1>8, IngestType
  <1>9. ASSUME WatcherStep PROVE UNCHANGED op
    BY <1>9, WatcherType
  <1>10. ASSUME Restart PROVE \A p \in Procs : op'[p] = Idle
    BY <1>10, RestartType
  <1>11. ASSUME NEW c \in Contests, Create(c) \/ EndsAtPasses(c) PROVE UNCHANGED op
    BY <1>11 DEF Create, EndsAtPasses
  <1>12. ASSUME UNCHANGED vars PROVE UNCHANGED op
    BY <1>12 DEF vars
  <1> HIDE DEF Only
  <1>13. \/ \A p \in Procs : op'[p] = Idle
         \/ \E p \in Procs : Only(p)
    BY <1>1, <1>2, <1>4, <1>5, <1>6, <1>7, <1>8, <1>9, <1>10, <1>11, <1>12
       DEF Next
  <1>14. QED
    BY <1>13 DEF Only

-----------------------------------------------------------------------------
(* Closed contests *)

\* No step unsettles a settled contest.
LEMMA SettledStep ==
    ASSUME TypeOK, [Next]_vars, NEW c \in Contests, Settled(c)
    PROVE  Settled(c)'
  <1>1. contest[c] = "closed" /\ \A a \in Admins : ~(op[a].pc = "activating" /\ op[a].contest = c)
    BY DEF Settled
  <1>2. contest'[c] = "closed"
    <2>1. contest \in [Contests -> {"absent", "draft", "active", "closed"}]
      BY DEF TypeOK
    <2>2. QED
      BY <1>1, <2>1, StatusStep
  <1>3. ASSUME NEW a \in Admins, op'[a].pc = "activating", op'[a].contest = c
        PROVE  FALSE
    <2>1. a \in Procs
      BY AdminIsProc
    <2>2. op'[a] # Idle
      BY <1>3, IdleType
    <2>3. op'[a] # op[a]
      BY <1>1, <1>3
    <2>4. Moves(a)
      BY <2>1, <2>2, <2>3, OpStep
    <2>5. QED
      BY <1>1, <1>3, <2>3, <2>4 DEF Moves
  <1>4. QED
    BY <1>2, <1>3 DEF Settled

\* For any number of overlapping admin requests, only an Activate that read the
\* draft before the contest was closed brings a closed contest back.
THEOREM SettledCorrect == Spec => SettledForGood
  <1>1. TypeOK /\ [Next]_vars => [\A c \in Contests : Settled(c) => Settled(c)']_vars
    BY SettledStep
  <1>2. QED
    BY <1>1, ContestTypeCorrect, PTL DEF Spec, SettledForGood

-----------------------------------------------------------------------------
(* Archived boards *)

\* A contest that was activated stays activated, and Close writes to no other.
LEMMA BegunStep ==
    ASSUME TypeOK, BegunInv, [Next]_vars
    PROVE  BegunInv'
  <1>1. contest \in [Contests -> {"absent", "draft", "active", "closed"}]
    BY DEF TypeOK
  <1>2. \A p \in Procs : op[p].pc # "idle" => op[p].contest \in Contests
    BY DEF TypeOK
  <1>3. \A c \in Contests : Begun(c) => Begun(c)'
    BY <1>1, StatusStep DEF Begun
  <1>4. ASSUME NEW p \in Procs, op'[p].pc \in {"closing", "snapshot", "frozen"}
        PROVE  Begun(op[p].contest)'
    <2>1. op'[p] # Idle
      BY <1>4, IdleType
    <2>2. op'[p] = op[p] \/ Moves(p)
      BY <2>1, OpStep
    <2>3. /\ op'[p].contest = op[p].contest
          /\ op[p].pc # "idle"
          /\ Begun(op[p].contest)
      <3>1. CASE op'[p] = op[p]
        BY <1>4, <3>1 DEF BegunInv
      <3>2. CASE Moves(p) /\ op'[p] # op[p]
        <4>1. /\ op'[p].contest = op[p].contest
              /\ \/ op[p].pc = "close" /\ contest[op[p].contest] = "active"
                 \/ op[p].pc \in {"closing", "snapshot"}
          BY <1>4, <3>2 DEF Moves
        <4>2. QED
          BY <4>1 DEF BegunInv, Begun
      <3>3. QED
        BY <2>2, <3>1, <3>2
    <2>4. op[p].contest \in Contests
      BY <1>2, <2>3
    <2>5. QED
      BY <1>3, <2>3, <2>4 DEF Begun
  <1>5. ASSUME NEW c \in archived' PROVE Begun(c)'
    <2>1. c \in archived \/ \E p \in Procs : op[p].pc = "snapshot" /\ c = op[p].contest
      <3>1. ASSUME archived' # archived
            PROVE  \E p \in Procs : op[p].pc = "snapshot" /\ archived' = archived \cup {op[p].contest}
        <4>1. \E p \in Procs : CloseSnapshot(p)
          <5>1. ASSUME NEW s \in Subs, IngestStep(s) PROVE UNCHANGED archived
            BY <5>1, IngestType
          <5>2. WatcherStep => UNCHANGED archived
            BY WatcherType
          <5>3. ASSUME NEW a \in Admins, ActivateStep(a) PROVE UNCHANGED archived
            BY <5>3 DEF ActivateStep, ActivateGet, ActivateUpdate
          <5>4. ASSUME NEW a \in Admins, NEW d \in Contests,
                       ActivateCheck(a, d) \/ CloseRequest(a, d)
                PROVE  UNCHANGED archived
            BY <5>4 DEF ActivateCheck, CloseRequest
          <5>5. ASSUME NEW d \in Contests, Create(d) \/ EndsAtPasses(d)
                PROVE  UNCHANGED archived
            BY <5>5 DEF Create, EndsAtPasses
          <5>6. (AutoCloseTick \/ Restart \/ UNCHANGED vars) => UNCHANGED archived
            BY DEF AutoCloseTick, Restart, vars
          <5>7. ASSUME NEW p \in Procs, CloseStep(p), ~CloseSnapshot(p)
                PROVE  UNCHANGED archived
            BY <5>7 DEF CloseStep, CloseList, CloseGet, CloseUpdate, CloseBroadcast
          <5>8. QED
            BY <3>1, <5>1, <5>2, <5>3, <5>4, <5>5, <5>6, <5>7 DEF Next
        <4>2. QED
          BY <3>1, <4>1 DEF CloseSnapshot, SnapshotLeaderboard
      <3>2. QED
        BY <3>1
    <2>2. c \in Contests /\ Begun(c)
      BY <1>2, <2>1 DEF BegunInv, TypeOK
    <2>3. QED
      BY <1>3, <2>2
  <1>6. QED
    BY <1>4, <1>5 DEF BegunInv

\* The invariants about boards hold in every state.
LEMMA BoardsInductive == Spec => [](TypeOK /\ BoardsInv /\ BegunInv)
  <1>1. Init => BoardsInv /\ BegunInv
    <2>1. SUFFICES ASSUME Init PROVE BoardsInv /\ BegunInv
      OBVIOUS
    <2>2. \A p \in Procs : op[p] = Idle
      BY <2>1 DEF Init
    <2>3. BoardsInv
      BY <2>1, <2>2, IdleType DEF Init, BoardsInv, BoardSound
    <2>4. BegunInv
      BY <2>1, <2>2, IdleType DEF Init, BegunInv
    <2>5. QED
      BY <2>3, <2>4
  <1>2. TypeOK /\ BoardsInv /\ BegunInv /\ [Next]_vars => BoardsInv' /\ BegunInv'
    BY BoardsStep, BegunStep
  <1>3. QED
    BY <1>1, <1>2, ContestTypeCorrect, PTL DEF Spec

\* For any number of overlapping requests, an archived leaderboard is that of a
\* contest that was activated and lists completed submissions of it or of no
\* contest, one per team, however late Close writes it and whoever wins.
THEOREM SnapshotCorrect == Spec => []SnapshotSound
  <1>1. BoardsInv /\ BegunInv => SnapshotSound
    BY DEF BoardsInv, BoardSound, BegunInv, Begun, SnapshotSound
  <1>2. QED
    BY <1>1, BoardsInductive, PTL

-----------------------------------------------------------------------------
(* Active contests *)

\* The admins are finitely many, so are those that are activating.
LEMMA ActivatingFinite ==
    /\ IsFiniteSet(Activating) /\ Cardinality(Activating) \in Nat
    /\ Cardinality(Admins) \in Nat /\ Cardinality(Activating) <= Cardinality(Admins)
  <1>1. Activating \subseteq Admins /\ IsFiniteSet(Admins)
    BY ContestAssumption DEF Activating
  <1>2. IsFiniteSet(Activating) /\ Cardinality(Activating) <= Cardinality(Admins)
    BY <1>1, FS_Subset
  <1>3. QED
    BY <1>1, <1>2, FS_CardinalityType

\* A step keeps the bound: it moves one request, and makes a contest active
\* only when a request leaves Activating.
LEMMA BoundStep ==
    ASSUME TypeOK, BoundInv, [Next]_vars
    PROVE  BoundInv'
  <1>1. /\ IsFiniteSet(Activating) /\ Cardinality(Activating) \in Nat
        /\ Cardinality(Admins) \in Nat /\ Cardinality(Activating) <= Cardinality(Admins)
    BY ActivatingFinite
  <1>2. /\ IsFiniteSet(Active) /\ Cardinality(Active) \in Nat
        /\ Cardinality(Active) + Cardinality(Activating) <= Cardinality(Admins)
    BY FS_CardinalityType DEF BoundInv, ActiveBounded
  <1>3. /\ IsFiniteSet(Activating') /\ Cardinality(Activating') \in Nat
        /\ Cardinality(Activating') <= Cardinality(Admins)
    <2>1. Activating' \subseteq Admins /\ IsFiniteSet(Admins)
      BY ContestAssumption DEF Activating
    <2>2. IsFiniteSet(Activating') /\ Cardinality(Activating') <= Cardinality(Admins)
      BY <2>1, FS_Subset
    <2>3. QED
      BY <2>2, FS_CardinalityType
  <1>4. CASE Active' \subseteq Active /\ Activating' \subseteq Activating
    <2>1. /\ IsFiniteSet(Active') /\ Cardinality(Active') <= Cardinality(Active)
          /\ Cardinality(Active') \in Nat
      BY <1>2, <1>4, FS_Subset, FS_CardinalityType
    <2>2. Cardinality(Activating') <= Cardinality(Activating)
      BY <1>1, <1>4, FS_Subset
    <2>3. QED
      BY <1>1, <1>2, <1>3, <2>1, <2>2 DEF BoundInv, ActiveBounded
  <1>5. CASE Active = {} /\ Active' = {}
    <2>1. Cardinality(Active') = 0 /\ IsFiniteSet(Active')
      BY <1>5, FS_EmptySet
    <2>2. QED
      BY <1>1, <1>3, <2>1 DEF BoundInv, ActiveBounded
  <1>6. ASSUME NEW a \in Activating, NEW c,
               Activating' \subseteq Activating \ {a}, Active' \subseteq Active \cup {c}
        PROVE  BoundInv'
    <2>1. /\ IsFiniteSet(Active \cup {c})
          /\ Cardinality(Active \cup {c}) <= Cardinality(Active) + 1
          /\ Cardinality(Active \cup {c}) \in Nat
      <3>1. CASE c \in Active
        <4>1. Active \cup {c} = Active
          BY <3>1
        <4>2. QED
          BY <1>2, <4>1
      <3>2. CASE c \notin Active
        <4>1. /\ IsFiniteSet(Active \cup {c})
              /\ Cardinality(Active \cup {c}) = Cardinality(Active) + 1
          BY <1>2, <3>2, FS_AddElement
        <4>2. QED
          BY <1>2, <4>1
      <3>3. QED
        BY <3>1, <3>2
    <2>2. /\ IsFiniteSet(Active') /\ Cardinality(Active') <= Cardinality(Active \cup {c})
          /\ Cardinality(Active') \in Nat
      BY <1>6, <2>1, FS_Subset, FS_CardinalityType
    <2>3. /\ IsFiniteSet(Activating \ {a})
          /\ Cardinality(Activating \ {a}) = Cardinality(Activating) - 1
      BY <1>1, <1>6, FS_RemoveElement
    <2>4. Cardinality(Activating') <= Cardinality(Activating \ {a})
      BY <1>6, <2>3, FS_Subset
    <2>5. QED
      BY <1>1, <1>2, <1>3, <2>1, <2>2, <2>3, <2>4 DEF BoundInv, ActiveBounded
  <1>7. contest \in [Contests -> {"absent", "draft", "active", "closed"}]
    BY DEF TypeOK
  <1>8. ASSUME UNCHANGED contest PROVE BoundInv'
    <2>1. Active' = Active
      BY <1>8 DEF Active
    <2>2. CASE Active = {}
      BY <1>5, <2>1, <2>2
    <2>3. CASE Active # {}
      <3>1. ASSUME NEW a \in Admins, op'[a].pc \in {"activate", "activating"}
            PROVE  op[a].pc \in {"activate", "activating"}
        <4>1. a \in Procs /\ op'[a] # Idle
          BY <3>1, AdminIsProc, IdleType
        <4>2. op'[a] = op[a] \/ Moves(a)
          BY <4>1, OpStep
        <4>3. QED
          BY <2>3, <3>1, <4>2 DEF Moves
      <3>2. Activating' \subseteq Activating
        BY <3>1 DEF Activating
      <3>3. QED
        BY <1>4, <2>1, <3>2
    <2>4. QED
      BY <2>2, <2>3
  <1>9. ASSUME NEW c \in Contests, contest[c] = "absent",
               contest' = [contest EXCEPT ![c] = "draft"], UNCHANGED op
        PROVE  BoundInv'
    <2>1. Active' = Active /\ Activating' = Activating
      BY <1>7, <1>9 DEF Active, Activating
    <2>2. QED
      BY <1>4, <2>1
  <1>10. ASSUME NEW a \in Admins, op[a].pc = "activating", Return(a),
                contest' = [contest EXCEPT ![op[a].contest] = "active"]
         PROVE  BoundInv'
    <2>1. op'[a].pc = "idle" /\ \A b \in Admins \ {a} : op'[b] = op[b]
      BY <1>10, AdminIsProc, ReturnType, IdleType
    <2>2. a \in Activating /\ Activating' \subseteq Activating \ {a}
      BY <1>10, <2>1 DEF Activating
    <2>3. Active' \subseteq Active \cup {op[a].contest}
      BY <1>7, <1>10 DEF Active
    <2>4. QED
      BY <1>6, <2>2, <2>3
  <1>11. ASSUME NEW p \in Procs, op[p].pc = "closing", Goto(p, "snapshot"),
                contest' = [contest EXCEPT ![op[p].contest] = "closed"]
         PROVE  BoundInv'
    <2>1. op'[p].pc = "snapshot" /\ \A q \in Procs \ {p} : op'[q] = op[q]
      BY <1>11, GotoType
    <2>2. Activating' \subseteq Activating
      BY <2>1, AdminIsProc DEF Activating
    <2>3. Active' \subseteq Active
      BY <1>7, <1>11 DEF Active
    <2>4. QED
      BY <1>4, <2>2, <2>3
  <1>12. QED
    BY <1>8, <1>9, <1>10, <1>11, StatusStep

\* However many Activate calls overlap, no more contests are active than
\* requests can be in flight; with one admin request at a time, one.
THEOREM ActiveCorrect == Spec => []ActiveBounded
  <1>1. Init => BoundInv
    <2>1. SUFFICES ASSUME Init PROVE BoundInv
      OBVIOUS
    <2>2. Active = {} /\ Activating = {}
      BY <2>1, IdleType, AdminIsProc DEF Init, Active, Activating
    <2>3. Cardinality({}) = 0 /\ IsFiniteSet({})
      BY FS_EmptySet
    <2>4. QED
      BY <2>2, <2>3, ActivatingFinite DEF BoundInv, ActiveBounded
  <1>2. TypeOK /\ BoundInv /\ [Next]_vars => BoundInv'
    BY BoundStep
  <1>3. BoundInv => ActiveBounded
    BY DEF BoundInv
  <1>4. QED
    BY <1>1, <1>2, <1>3, ContestTypeCorrect, PTL DEF Spec
=============================================================================
