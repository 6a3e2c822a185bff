------------------------- MODULE LeaderboardStream -------------------------
(***************************************************************************)
(* The live leaderboard: the fan-out bus (internal/api/bus.go), the SSE    *)
(* handler of GET /leaderboard/stream (internal/api/router.go), and its    *)
(* two producers, the leaderboard watcher and Close of a contest           *)
(* (cmd/server/main.go, internal/contest/service.go).                      *)
(*                                                                         *)
(* A board is the number of score changes it shows.  How contests are      *)
(* created, closed twice or closed by two actors is in ContestLifecycle;   *)
(* here one closer closes the active contest.  The reads of a tick of the  *)
(* watcher are one step and do not fail; ContestLifecycle has them one by  *)
(* one, with their errors.                                                 *)
(***************************************************************************)
EXTENDS Integers, Sequences, FiniteSets, SequencesExt

CONSTANTS
    Contests,   \* 1..n, activated in this order
    Clients,    \* browsers that connect
    ChanSize,   \* subscriberChanSize (4)
    MaxScore,   \* contest -> bound on its score changes
    MaxFaults   \* bound on failing store reads

ASSUME StreamAssumption ==
    /\ IsFiniteSet(Contests) /\ Contests = 1..Cardinality(Contests)
    /\ ChanSize \in Nat \ {0} /\ MaxScore \in [Contests -> Nat] /\ MaxFaults \in Nat

VARIABLES
    status,   \* contest -> "draft", "active" or "closed"
    score,    \* contest -> score changes in the submission store
    closing,  \* Close under way: {} or {[step, contest, board]}
    hash,     \* lastHash of the watcher
    update,   \* event the watcher has built and not sent: {} or {event}
    chan,     \* bus.subs: client -> its channel, for subscribed clients
    pc,       \* client -> where its handler is
    shown,    \* client -> the contest whose board it connects to
    seen,     \* client -> the events written to it
    dropped,  \* auxiliary: clients that missed an event
    faults    \* failed reads so far

contestVars == <<status, score, closing>>
clientVars == <<chan, pc, shown, seen, dropped>>
vars == <<contestVars, hash, update, clientVars, faults>>

Event(type, c, board) == [type |-> type, contest |-> c, board |-> board]
Active == {c \in Contests : status[c] = "active"}
Subscribed == DOMAIN chan

Fault == faults < MaxFaults /\ faults' = faults + 1

-----------------------------------------------------------------------------
(* LeaderboardBus *)

\* A send that never blocks: a full channel misses the event.
Offer(ch, e) == IF Len(ch) < ChanSize THEN Append(ch, e) ELSE ch

Broadcast(e) ==
    /\ chan' = [k \in Subscribed |-> Offer(chan[k], e)]
    /\ dropped' = dropped \cup {k \in Subscribed : Len(chan[k]) = ChanSize}

subscribe(k) == chan' = [j \in Subscribed \cup {k} |-> IF j = k THEN <<>> ELSE chan[j]]

\* Mutant of Remaining: the subscriber stays on the bus.
RemainingAll(k) == Subscribed

\* The subscribers after unsubscribe.
Remaining(k) == Subscribed \ {k}

unsubscribe(k) == chan' = [j \in Remaining(k) |-> chan[j]]

-----------------------------------------------------------------------------
(* Contests and scores *)

\* Activate: the next draft, when none is active.
Activate(c) ==
    /\ Active = {} /\ status[c] = "draft" /\ \A d \in 1..(c - 1) : status[d] = "closed"
    /\ status' = [status EXCEPT ![c] = "active"]
    /\ UNCHANGED <<score, closing, hash, update, clientVars, faults>>

\* A worker completes a submission of the contest, or of one just closed.
ScoreChanges(c) ==
    /\ status[c] # "draft" /\ score[c] < MaxScore[c]
    /\ score' = [score EXCEPT ![c] = @ + 1]
    /\ UNCHANGED <<status, closing, hash, update, clientVars, faults>>

\* The caller of Close lists the entries of the active contest.
CloseList(c) ==
    /\ closing = {} /\ c \in Active
    /\ closing' = {[contest |-> c, board |-> score[c]]}
    /\ UNCHANGED <<status, score, hash, update, clientVars, faults>>

\* store.Update with StatusClosed; the snapshot follows.
CloseUpdate ==
    /\ \E x \in closing : /\ x.contest \in Active
                          /\ status' = [status EXCEPT ![x.contest] = "closed"]
    /\ UNCHANGED <<score, closing, hash, update, clientVars, faults>>

\* The last call of Close.
CloseBroadcast ==
    /\ \E x \in closing : /\ x.contest \notin Active
                          /\ Broadcast(Event("frozen", x.contest, x.board))
    /\ closing' = {}
    /\ UNCHANGED <<status, score, hash, update, pc, shown, seen, faults>>

-----------------------------------------------------------------------------
(* The watcher *)

\* leaderboardHash adds up the scores of all submissions.
leaderboardHash == FoldFunction(+, 0, score)

\* tickLeaderboardWatcher up to the event: nothing without subscribers, nothing
\* if the hash is the same; the hash is taken over even without a contest.
WatchTick ==
    /\ update = {} /\ Subscribed # {} /\ leaderboardHash # hash
    /\ hash' = leaderboardHash
    /\ update' = {Event("update", c, score[c]) : c \in Active}
    /\ UNCHANGED <<contestVars, clientVars, faults>>

\* Its last call, bus.Broadcast.
WatchBroadcast ==
    /\ \E e \in update : Broadcast(e)
    /\ update' = {}
    /\ UNCHANGED <<contestVars, hash, pc, shown, seen, faults>>

-----------------------------------------------------------------------------
(* The stream handler *)

\* Mutant of SubscribesAt: the snapshot is read before subscribing.
SubscribesAtSnapshot(step) == step = "snapshot"

\* The handler subscribes before it reads the snapshot.
SubscribesAt(step) == step = "connect"

Connect(k) ==
    /\ pc[k] = "off"
    /\ pc' = [pc EXCEPT ![k] = "active?"]
    /\ IF SubscribesAt("connect") THEN subscribe(k) ELSE UNCHANGED chan
    /\ UNCHANGED <<contestVars, hash, update, shown, seen, dropped, faults>>

\* The handler returns: the deferred unsubscribe.
Leave(k) == pc' = [pc EXCEPT ![k] = "left"] /\ unsubscribe(k)

\* GetActive.  Without an active contest, or on any error, the client is sent
\* the frozen board of the latest closed contest (0: none) and the stream ends.
ReadActive(k) ==
    LET closed == {c \in Contests : status[c] = "closed"}
        recent == CHOOSE c \in closed \cup {0} : \A d \in closed : d <= c
    IN
    /\ pc[k] = "active?"
    /\ \/ /\ Active # {} /\ UNCHANGED <<faults, chan, seen>>
          /\ shown' = [shown EXCEPT ![k] = CHOOSE c \in Active : TRUE]
          /\ pc' = [pc EXCEPT ![k] = "snapshot"]
       \/ /\ \/ Active = {} /\ UNCHANGED faults
             \/ Active # {} /\ Fault
          /\ seen' = [seen EXCEPT ![k] = Append(@, Event("frozen", recent, 0))]
          /\ Leave(k) /\ UNCHANGED shown
    /\ UNCHANGED <<contestVars, hash, update, dropped>>

\* List, and the current board as a first "update"; a failing List only
\* leaves the board out.
WriteSnapshot(k) ==
    /\ pc[k] = "snapshot"
    /\ pc' = [pc EXCEPT ![k] = "live"]
    /\ \/ /\ seen' = [seen EXCEPT ![k] =
                        Append(@, Event("update", shown[k], score[shown[k]]))]
          /\ UNCHANGED faults
       \/ Fault /\ UNCHANGED seen
    /\ IF SubscribesAt("snapshot") THEN subscribe(k) ELSE UNCHANGED chan
    /\ UNCHANGED <<contestVars, hash, update, shown, dropped>>

\* Mutant of Final: the stream goes on after a frozen board.
FinalNever(e) == FALSE

\* The event after which the handler returns.
Final(e) == e.type = "frozen"

\* One turn of the select loop with an event.
Forward(k) ==
    /\ pc[k] = "live" /\ k \in Subscribed /\ chan[k] # <<>>
    /\ seen' = [seen EXCEPT ![k] = Append(@, Head(chan[k]))]
    /\ \/ Final(Head(chan[k])) /\ Leave(k)
       \/ /\ ~Final(Head(chan[k])) /\ UNCHANGED pc
          /\ chan' = [chan EXCEPT ![k] = Tail(@)]
    /\ UNCHANGED <<contestVars, hash, update, shown, dropped, faults>>

\* The client goes away.
Disconnect(k) ==
    /\ pc[k] = "live"
    /\ Leave(k)
    /\ UNCHANGED <<contestVars, hash, update, shown, seen, dropped, faults>>

-----------------------------------------------------------------------------
(* Specification *)

Init ==
    /\ status = [c \in Contests |-> "draft"] /\ score = [c \in Contests |-> 0]
    /\ closing = {} /\ hash = 0 /\ update = {}
    /\ chan = <<>> /\ pc = [k \in Clients |-> "off"]
    /\ shown = [k \in Clients |-> 0] /\ seen = [k \in Clients |-> <<>>]
    /\ dropped = {} /\ faults = 0

Handler(k) == ReadActive(k) \/ WriteSnapshot(k) \/ Forward(k)

Next ==
    \/ \E c \in Contests : Activate(c) \/ ScoreChanges(c) \/ CloseList(c)
    \/ CloseUpdate \/ CloseBroadcast \/ WatchTick \/ WatchBroadcast
    \/ \E k \in Clients : Connect(k) \/ Handler(k) \/ Disconnect(k)

\* The watcher ticks, a Close that has begun goes on, handlers run.  Nobody
\* has to connect, to close a contest or to complete a submission.
Fairness ==
    /\ WF_vars(CloseUpdate \/ CloseBroadcast) /\ WF_vars(WatchTick \/ WatchBroadcast)
    /\ \A k \in Clients : WF_vars(Handler(k))

Spec == Init /\ [][Next]_vars /\ Fairness

-----------------------------------------------------------------------------
(* Properties *)

\* A frozen board is the last thing a stream carries, even when a stale update
\* of the watcher is broadcast after it (stream, Broadcast).
NothingAfterFrozen ==
    \A k \in Clients : \A i \in 1..Len(seen[k]) :
        seen[k][i].type = "frozen" => i = Len(seen[k]) /\ pc[k] = "left"

\* A client in its event loop is on the bus, and nobody is on it whose handler
\* has returned: no path out leaks a subscriber, which would keep the watcher
\* busy for ever (subscribe, deferred unsubscribe).
BusTracksHandlers ==
    /\ \A k \in Clients : pc[k] = "live" => k \in Subscribed
    /\ \A k \in Subscribed : pc[k] \in {"active?", "snapshot", "live"}

\* The boards of its own contest that client k was shown.
OwnBoards(k) == SelectSeq(seen[k], LAMBDA e : e.contest = shown[k])

\* As long as no store read failed, a client that stays connected and drops no
\* event ends up with the current board of its contest, wherever its snapshot
\* fell between a score change, the watcher's reading and the broadcast; if the
\* contest was closed, its stream has ended (subscribe before snapshot,
\* tickLeaderboardWatcher).
ClientCatchesUp ==
    \A k \in Clients : <>[](
        pc[k] = "live" /\ k \notin dropped /\ faults = 0 =>
            /\ status[shown[k]] = "active"
            /\ Last(OwnBoards(k)) = Event("update", shown[k], score[shown[k]]))

-----------------------------------------------------------------------------
(* Statements the code does not keep *)

\* A client is never left on the stream of a closed contest.
FrozenEndsStream ==
    \A k \in Clients : <>[](pc[k] = "live" => status[shown[k]] = "active")

\* A stream carries only boards of the contest it started with.
OneContestPerStream ==
    \A k \in Clients : shown[k] # 0 =>
        \A i \in 1..Len(seen[k]) : seen[k][i].contest = shown[k]

\* The board of a stream never goes back.
BoardNeverGoesBack ==
    \A k \in Clients : \A i, j \in 1..Len(seen[k]) :
        i <= j /\ seen[k][i].contest = seen[k][j].contest
            => seen[k][i].board <= seen[k][j].board
=============================================================================
