---------------------------- MODULE BotFleetRun ----------------------------
(***************************************************************************)
(* One benchmark of one sandbox, between a healthy container and a score:  *)
(* the pre-flight gate (internal/validator), a manual probe of the same    *)
(* sandbox (POST /submissions/{id}/validate), the bot fleet                *)
(* (internal/botfleet) over REST or WebSocket, and the correctness score   *)
(* (executor.checkCorrectness, internal/correctness).                      *)
(*                                                                         *)
(* The contestant's engine is external: it is an honest price-time         *)
(* priority engine, the closed form of module OrderBook, which serves one  *)
(* order at a time.  Whatever goes wrong here is therefore the harness's   *)
(* doing, not the contestant's.                                            *)
(***************************************************************************)
EXTENDS Integers, SequencesExt

CONSTANTS
    BotsOf,      \* profile -> its bots (VolatilityProfile.BotCount)
    OrdersOf,    \* profile -> bound on the orders of its fleet (TestDuration)
    Probed,      \* profiles during which a manual probe is made
    Protocols,   \* the submission's protocol: "rest" or "websocket"
    Menu,        \* the [kind, side, price, qty] a generator may draw
    PendingCap,  \* cap of RandomGenerator.pendingIDs (1000 in the code)
    BurstSize,   \* orders of the concurrent burst (10 in the code)
    ProbeSteps,  \* bound on the scenarios a manual probe gets through
    MaxFaults    \* bound on lost sends and manual probes together

Profiles == DOMAIN BotsOf
Bots == UNION {BotsOf[p] : p \in Profiles}

ASSUME FleetAssumption ==
    /\ DOMAIN OrdersOf = Profiles /\ Probed \subseteq Profiles
    /\ \A p \in Profiles : BotsOf[p] # {} /\ OrdersOf[p] \in Nat
    /\ Protocols \subseteq {"rest", "websocket"}
    /\ PendingCap \in Nat /\ BurstSize \in Nat \ {0} /\ ProbeSteps \in Nat
    /\ MaxFaults \in Nat
    /\ \A m \in Menu : m.side \in {"buy", "sell"} /\ m.price \in Int /\ m.qty \in Int

VARIABLES
    profile,   \* VolatilityLabel of the job
    protocol,  \* Submission.Protocol
    stage,     \* "preflight" (status running), "fleet", "checking",
               \* "scored", "refused"
    engine,    \* the contestant's book
    foreign,   \* auxiliary: an order of a validator reached the engine
    served,    \* auxiliary: the fleet's orders in the engine's order
    val,       \* the two validators: the worker's gate and the manual probe
    bot,       \* the bots: generator, connection and results
    ch,        \* resultsCh
    all,       \* allResults
    ended,     \* testCtx is done
    lost,      \* timeouts and transport errors so far
    golden,    \* the golden book and its fills
    score      \* CorrectFills and IncorrectFills

fleetVars == <<served, bot, ch, all, ended>>
scoreVars == <<golden, score>>
vars == <<profile, protocol, stage, engine, foreign, fleetVars, val, lost,
          scoreVars>>

Book == INSTANCE OrderBook WITH
    Orders <- {}, MaxOrders <- 0, book <- engine, arrivals <- 0, acks <- <<>>

-----------------------------------------------------------------------------
(* The engine (external) *)

\* A new order queues behind every resting one.
Serve(o) ==
    LET last == CHOOSE t \in {e.seq : e \in engine} \cup {0} :
                    \A e \in engine : e.seq <= t
    IN  engine' = Book!BookAfter(engine, last + 1, o)

Answer(o) == Book!FillOf(engine, o)

Probing == val["manual"].pc # "idle"

\* The disturbances of a behaviour are bounded.
MoreFaults == lost + (IF Probing THEN 1 ELSE 0) < MaxFaults

\* A Send that times out or cannot connect.
Lose == MoreFaults /\ lost' = lost + 1

-----------------------------------------------------------------------------
(* The pre-flight scenarios *)

Limit(n, side, p, q) == [id |-> <<"val", n>>, kind |-> "limit", side |-> side,
                         price |-> p, qty |-> q]
Market(n, side, q)   == [id |-> <<"val", n>>, kind |-> "market", side |-> side,
                         price |-> 0, qty |-> q]
Cancel(n)            == [id |-> <<"val", n>>, kind |-> "cancel", side |-> "buy",
                         price |-> 0, qty |-> 0]
Want(o, p, q, ok)    == [order |-> o, fill |-> Book!Fill(o, p, q, ok)]

\* Mutant of Scenarios: the resting buy val-9 is not cancelled, so the market
\* sell that follows finds a bid.
ScenariosNoCleanup ==
    << << Want(Limit(9, "buy", 10000, 10), 0, 0, TRUE) >>,
       << Want(Market(14, "sell", 5), 0, 0, FALSE) >> >>

\* fixedScenarios without the burst: each scenario is a sequence of orders
\* with the fill it expects.
Scenarios ==
    << << Want(Limit(0, "buy", 10000, 10), 0, 0, TRUE) >>,
       << Want(Limit(1, "sell", 10100, 10), 0, 0, TRUE) >>,
       << Want(Limit(2, "sell", 10000, 5), 10000, 5, TRUE) >>,
       << Want(Market(3, "buy", 20), 10100, 10, TRUE) >>,
       << Want(Cancel(0), 0, 0, TRUE) >>,
       << Want(Cancel(100), 0, 0, FALSE) >>,
       << Want(Cancel(0), 0, 0, FALSE) >>,
       << Want(Limit(6, "buy", 10000, 0), 0, 0, FALSE) >>,
       << Want(Limit(7, "buy", 10050, 5), 0, 0, TRUE) >>,
       << Want(Limit(8, "buy", 10050, 3), 0, 0, TRUE) >>,
       << Want(Limit(9, "buy", 10000, 10), 0, 0, TRUE) >>,
       << Want(Limit(10, "sell", 10000, 5), 10050, 5, TRUE) >>,
       << Want(Limit(11, "sell", 10000, 5), 10000, 5, TRUE) >>,
       << Want(Cancel(9), 0, 0, TRUE) >>,
       << Want(Limit(13, "sell", 10100, 10), 0, 0, TRUE) >>,
       << Want(Market(14, "sell", 5), 0, 0, FALSE) >>,
       << Want(Limit(15, "buy", 10100, 3), 10100, 3, TRUE) >>,
       << Want(Cancel(13), 0, 0, TRUE) >>,
       << Want(Cancel(101), 0, 0, FALSE),
          Want(Cancel(102), 0, 0, FALSE),
          Want(Cancel(103), 0, 0, FALSE) >> >>

\* concurrent_burst_10: resting buys at distinct prices.
Burst == [i \in 1..BurstSize |->
            Want(Limit(200 + i, "buy", 8900 + 100 * i, 1), 0, 0, TRUE)]

\* compareFills: accepted, executed price, executed quantity.
compareFills(actual, want) ==
    actual.ok = want.ok /\ actual.price = want.price /\ actual.qty = want.qty

-----------------------------------------------------------------------------
(* Validator.Run, for the gate and for a manual probe *)

Idle    == [pc |-> "idle", k |-> 1, i |-> 1, open |-> {}, ok |-> TRUE]
Started == [Idle EXCEPT !.pc = "run"]

\* The factories of both validators build a RESTTransport; the gate gives it
\* the target URL of the submission's protocol, a ws:// URL for WebSocket,
\* which an HTTP client refuses to dial.
Reachable(v) == v = "manual" \/ protocol = "rest"

\* What a validator does after the fleet returned changes nothing here.
Live == stage \in {"preflight", "fleet"}

\* The validator after scenario order i of scenario k, ok or not: a failed
\* order ends its scenario, never the run.
Advance(r, ok) ==
    LET last == ~ok \/ r.i = Len(Scenarios[r.k])
        next == [r EXCEPT !.ok = r.ok /\ ok,
                          !.k = IF last THEN @ + 1 ELSE @,
                          !.i = IF last THEN 1 ELSE @ + 1]
    IN  IF next.k <= Len(Scenarios) THEN next
        ELSE [next EXCEPT !.pc = "burst", !.k = 1, !.open = 1..BurstSize]

\* runScenario: send one order, compare the fill.
RunScenario(v) ==
    LET want == Scenarios[val[v].k][val[v].i] IN
    /\ Live /\ val[v].pc = "run"
    /\ v = "manual" => val[v].k <= ProbeSteps
    /\ \/ /\ Reachable(v)
          /\ Serve(want.order) /\ foreign' = TRUE
          /\ val' = [val EXCEPT ![v] =
                        Advance(@, compareFills(Answer(want.order), want.fill))]
          /\ UNCHANGED lost
       \/ /\ ~Reachable(v)
          /\ val' = [val EXCEPT ![v] = Advance(@, FALSE)]
          /\ UNCHANGED <<engine, foreign, lost>>
       \/ /\ Reachable(v) /\ Lose
          /\ \/ Serve(want.order) /\ foreign' = TRUE
             \/ UNCHANGED <<engine, foreign>>
          /\ val' = [val EXCEPT ![v] = Advance(@, FALSE)]
    /\ UNCHANGED <<profile, protocol, stage, fleetVars, scoreVars>>

\* One goroutine of runConcurrentScenario: its order is answered, or it
\* misses the deadline of the burst.
RunBurst(v, i) ==
    LET want == Burst[i]
        answered(ok) == [val EXCEPT ![v].open = @ \ {i}, ![v].ok = @ /\ ok]
    IN
    /\ Live /\ val[v].pc = "burst" /\ i \in val[v].open
    /\ \/ /\ Reachable(v)
          /\ Serve(want.order) /\ foreign' = TRUE
          /\ val' = answered(compareFills(Answer(want.order), want.fill))
          /\ UNCHANGED lost
       \/ /\ ~Reachable(v)
          /\ val' = answered(FALSE)
          /\ UNCHANGED <<engine, foreign, lost>>
       \/ /\ Reachable(v) /\ Lose
          /\ \/ Serve(want.order) /\ foreign' = TRUE
             \/ UNCHANGED <<engine, foreign>>
          /\ val' = answered(FALSE)
    /\ UNCHANGED <<profile, protocol, stage, fleetVars, scoreVars>>

\* Every goroutine of the burst has returned; Run returns AllPassed.
ReturnResult(v) ==
    /\ Live /\ val[v].pc = "burst" /\ val[v].open = {}
    /\ val' = [val EXCEPT ![v].pc = "done"]
    /\ UNCHANGED <<profile, protocol, stage, engine, foreign, fleetVars, lost, scoreVars>>

\* The context of the run ends: two minutes are over for the gate, or the
\* client of the probe goes away.  Run returns an error.
AbortRun(v) ==
    /\ Live /\ val[v].pc \in {"run", "burst"}
    /\ \/ v = "gate" /\ Lose
       \/ v = "manual" /\ UNCHANGED lost
    /\ val' = [val EXCEPT ![v].pc = "done", ![v].ok = FALSE, ![v].open = {}]
    /\ UNCHANGED <<profile, protocol, stage, engine, foreign, fleetVars, scoreVars>>

-----------------------------------------------------------------------------
(* Who runs a validator *)

\* runPreflightValidator: only the low profile's job has a gate.
StartGate ==
    /\ stage = "preflight" /\ profile = "low" /\ val["gate"].pc = "idle"
    /\ val' = [val EXCEPT !["gate"] = Started]
    /\ UNCHANGED <<profile, protocol, stage, engine, foreign, fleetVars, lost, scoreVars>>

\* The verdict of the gate, or no gate: the fleet runs (StatusBenchmarking),
\* or the submission is marked failed.
GateDecides ==
    /\ stage = "preflight"
    /\ \/ profile # "low" /\ stage' = "fleet"
       \/ val["gate"].pc = "done" /\ val["gate"].ok /\ stage' = "fleet"
       \/ val["gate"].pc = "done" /\ ~val["gate"].ok /\ stage' = "refused"
    /\ UNCHANGED <<profile, protocol, engine, foreign, fleetVars, val, lost, scoreVars>>

\* The handler of /validate checks the status once, before its run: running
\* is the status of the whole stage "preflight".  The rate limiter admits one
\* probe per window, which is longer than the run modelled here.
ManualProbe ==
    /\ profile \in Probed /\ ~Probing /\ MoreFaults
    /\ stage = "preflight"
    /\ val' = [val EXCEPT !["manual"] = Started]
    /\ UNCHANGED <<profile, protocol, stage, engine, foreign, fleetVars, lost, scoreVars>>

-----------------------------------------------------------------------------
(* RandomGenerator *)

OrderFor(m, id) == [id |-> id, kind |-> m.kind, side |-> m.side,
                    price |-> m.price, qty |-> m.qty]

\* The orders Next may return to bot b, and the pendingIDs it leaves.  Order
\* ids are <<bot, sequence number>>; a cancel takes the id of a pending limit
\* order, or one that no order has.
Drawn(b) ==
    LET n == bot[b].n + 1
        pend == bot[b].pending
        track(m) == IF m.kind = "limit" /\ Cardinality(pend) < PendingCap
                    THEN pend \cup {<<b, n>>} ELSE pend
        targets == IF pend = {} THEN {<<b, -n>>} ELSE pend
    IN  {[order |-> OrderFor(m, <<b, n>>), pending |-> track(m)] :
            m \in {x \in Menu : x.kind # "cancel"}}
        \cup {[order |-> OrderFor(x[1], x[2]), pending |-> pend \ {x[2]}] :
            x \in {y \in Menu : y.kind = "cancel"} \X targets}

-----------------------------------------------------------------------------
(* Bot.Run and its transport *)

\* wire holds the requests the engine has not served, replies the answers the
\* bot has not read; n is the generator's sequence number.
NewBot == [pc |-> "ramp", n |-> 0, order |-> <<>>, pending |-> {},
           wire |-> <<>>, replies |-> <<>>, results |-> <<>>]

InFleet(b) == stage = "fleet" /\ b \in BotsOf[profile]

\* The ramp-up delay is over and newBot built the transport.
StartBot(b) ==
    /\ InFleet(b) /\ bot[b].pc = "ramp"
    /\ bot' = [bot EXCEPT ![b].pc = "ready"]
    /\ UNCHANGED <<profile, protocol, stage, engine, foreign, served, val, ch,
                   all, ended, lost, scoreVars>>

\* The WebSocket dial or its upgrade handshake failed; REST does not dial here.
DialFails == protocol = "websocket" /\ Lose

\* The test ended during the ramp-up, or the transport could not be built: the
\* bot contributes no results.
BotNeverRuns(b) ==
    /\ InFleet(b) /\ bot[b].pc = "ramp"
    /\ \/ ended /\ UNCHANGED lost
       \/ DialFails
    /\ bot' = [bot EXCEPT ![b].pc = "done"]
    /\ ch' = Append(ch, <<>>)
    /\ UNCHANGED <<profile, protocol, stage, engine, foreign, served, val, all,
                   ended, scoreVars>>

\* The head of the loop finds the context alive; Next draws an order and Send
\* writes it.
SendOrder(b) ==
    /\ InFleet(b) /\ bot[b].pc = "ready" /\ ~ended
    /\ MapThenSumSet(LAMBDA c : bot[c].n, Bots) < OrdersOf[profile]
    /\ \E d \in Drawn(b) :
          bot' = [bot EXCEPT ![b].pc = "wait", ![b].n = @ + 1,
                             ![b].pending = d.pending, ![b].order = d.order,
                             ![b].wire = Append(@, [n |-> bot[b].n + 1,
                                                    order |-> d.order])]
    /\ UNCHANGED <<profile, protocol, stage, engine, foreign, served, val, ch,
                   all, ended, lost, scoreVars>>

\* The engine serves a request (external).  One WebSocket connection is read
\* in order; an HTTP request that its client gave up may be served any time
\* later, and its answer goes nowhere.
EngineServes(b) ==
    /\ stage = "fleet"
    /\ \E i \in 1..Len(bot[b].wire) :
          LET w == bot[b].wire[i]
              heard == protocol = "websocket"
                       \/ (bot[b].pc = "wait" /\ w.n = bot[b].n)
          IN
          /\ protocol = "websocket" => i = 1
          /\ Serve(w.order)
          /\ served' = Append(served, w.order)
          /\ bot' = [bot EXCEPT
                ![b].wire = RemoveAt(@, i),
                ![b].replies = IF heard THEN Append(@, Answer(w.order)) ELSE @]
    /\ UNCHANGED <<profile, protocol, stage, foreign, val, ch, all, ended, lost,
                   scoreVars>>

\* Send returns: the next data frame of the connection, or the response of
\* the request, is decoded and taken as the fill of the order.
Receive(b) ==
    /\ bot[b].pc = "wait" /\ bot[b].replies # <<>>
    /\ bot' = [bot EXCEPT ![b].pc = "ready", ![b].replies = Tail(@),
                 ![b].results = Append(@, [order |-> bot[b].order, err |-> FALSE,
                                           fill |-> Head(bot[b].replies)])]
    /\ UNCHANGED <<profile, protocol, stage, engine, foreign, served, val, ch,
                   all, ended, lost, scoreVars>>

\* Mutant of Unread: a request that timed out leaves its answer behind.
UnreadKept(b) == bot[b].replies

\* What stays readable after a failed Send: the frames of a WebSocket
\* connection, nothing of an HTTP request.
Unread(b) == IF protocol = "websocket" THEN bot[b].replies ELSE <<>>

\* Mutant of GivesUp: the wait ignores the context of the test.
GivesUpNever == ~ended /\ Lose

\* A waiting Send is given up: the test ended, or its own deadline passed or
\* the connection broke.
GivesUp == \/ ended /\ UNCHANGED lost
           \/ ~ended /\ Lose

\* The requests after a failed Send: its own, if it was not served, may have
\* got onto its way or not.
StillOut(b) ==
    LET wire == bot[b].wire
    IN  {wire} \cup {RemoveAt(wire, i) : i \in {k \in 1..Len(wire) : wire[k].n = bot[b].n}}

\* Send fails, before the engine got the request or after.
SendFails(b) ==
    /\ bot[b].pc = "wait"
    /\ GivesUp
    /\ \E w \in StillOut(b) :
          bot' = [bot EXCEPT ![b].pc = "ready", ![b].wire = w,
                   ![b].replies = Unread(b),
                   ![b].results = Append(@, [order |-> bot[b].order, err |-> TRUE,
                                             fill |-> Book!Fill(bot[b].order, 0, 0, FALSE)])]
    /\ UNCHANGED <<profile, protocol, stage, engine, foreign, served, val, ch,
                   all, ended, scoreVars>>

\* The head of the loop finds the context done: Run returns the results and
\* the transport is closed.
StopBot(b) ==
    /\ InFleet(b) /\ bot[b].pc = "ready" /\ ended
    /\ bot' = [bot EXCEPT ![b].pc = "done", ![b].replies = <<>>]
    /\ ch' = Append(ch, bot[b].results)
    /\ UNCHANGED <<profile, protocol, stage, engine, foreign, served, val, all,
                   ended, lost, scoreVars>>

-----------------------------------------------------------------------------
(* Fleet.Run *)

\* RampUpDuration + TestDuration have passed, or the caller cancelled.
TestEnds ==
    /\ stage = "fleet" /\ ~ended /\ ended' = TRUE
    /\ UNCHANGED <<profile, protocol, stage, engine, foreign, served, val, bot,
                   ch, all, lost, scoreVars>>

\* Mutant of Collected: the collector keeps the last slice only.
CollectedLast(slice) == slice

\* allResults = append(allResults, botResults...).
Collected(slice) == all \o slice

Collect ==
    /\ stage = "fleet" /\ ch # <<>>
    /\ all' = Collected(Head(ch))
    /\ ch' = Tail(ch)
    /\ UNCHANGED <<profile, protocol, stage, engine, foreign, served, val, bot,
                   ended, lost, scoreVars>>

-----------------------------------------------------------------------------
(* checkCorrectness *)

\* All bots are done and the channel is closed and drained: Run returns.
FleetReturns ==
    /\ stage = "fleet" /\ ch = <<>>
    /\ \A b \in BotsOf[profile] : bot[b].pc = "done"
    /\ stage' = "checking"
    /\ UNCHANGED <<profile, protocol, engine, foreign, fleetVars, val, lost,
                   golden, score>>

\* Mutant of GoldenBookAfter: the replayed orders never rest.
GoldenBookAfterNone(o) == {}

\* The golden book after o; it implements OrderBook (GoldenOrderbook_proofs).
GoldenBookAfter(o) == Book!BookAfter(golden.book, Len(golden.fills) + 1, o)

\* One turn of the loop over the results: every order, failed sends included,
\* is replayed in the order of the slice on a new golden book.
ReplayOrder ==
    LET o == all[Len(golden.fills) + 1].order IN
    /\ stage = "checking" /\ Len(golden.fills) < Len(all)
    /\ golden' = [book  |-> GoldenBookAfter(o),
                  fills |-> Append(golden.fills, Book!FillOf(golden.book, o))]
    /\ UNCHANGED <<profile, protocol, stage, engine, foreign, fleetVars, val,
                   lost, score>>

\* The contestant fills, by their place in the slice: those of the sends that
\* returned one.
Received(rs) == [i \in {k \in 1..Len(rs) : ~rs[k].err} |-> rs[i].fill]

\* fillsMatch.
fillsMatch(cf, gf) == cf.ok = gf.ok /\ cf.price = gf.price /\ cf.qty = gf.qty

\* Checker.Check: fills are matched by order id, the first of each id counts,
\* later ones and golden ids without an answer are incorrect.
Check(cfs, gfs) ==
    LET First(s, i) == \A j \in DOMAIN s : j < i => s[j].id # s[i].id
        Golden(id) == gfs[CHOOSE i \in DOMAIN gfs : gfs[i].id = id /\ First(gfs, i)]
        ids == {gfs[i].id : i \in DOMAIN gfs}
        good == {i \in DOMAIN cfs : /\ cfs[i].id \in ids /\ First(cfs, i)
                                    /\ fillsMatch(cfs[i], Golden(cfs[i].id))}
        silent == ids \ {cfs[i].id : i \in DOMAIN cfs}
    IN  [correct   |-> Cardinality(good),
         incorrect |-> Cardinality(DOMAIN cfs) - Cardinality(good) + Cardinality(silent)]

ScoreRun ==
    /\ stage = "checking" /\ Len(golden.fills) = Len(all)
    /\ stage' = "scored"
    /\ score' = Check(Received(all), golden.fills)
    /\ UNCHANGED <<profile, protocol, engine, foreign, fleetVars, val, lost, golden>>

-----------------------------------------------------------------------------
(* Specification *)

Init ==
    /\ profile \in Profiles /\ protocol \in Protocols
    /\ stage = "preflight"
    /\ engine = {} /\ foreign = FALSE /\ served = <<>>
    /\ val = [v \in {"gate", "manual"} |-> Idle]
    /\ bot = [b \in Bots |-> NewBot]
    /\ ch = <<>> /\ all = <<>> /\ ended = FALSE /\ lost = 0
    /\ golden = [book |-> {}, fills |-> <<>>]
    /\ score = [correct |-> 0, incorrect |-> 0]

Validates(v) == \/ RunScenario(v)
                \/ \E i \in 1..BurstSize : RunBurst(v, i)
                \/ ReturnResult(v)
                \/ AbortRun(v)

\* The test is over when the submission is refused or scored.
Over == stage \in {"scored", "refused"} /\ UNCHANGED vars

Next ==
    \/ StartGate \/ GateDecides \/ ManualProbe
    \/ \E v \in {"gate", "manual"} : Validates(v)
    \/ \E b \in Bots : \/ StartBot(b) \/ BotNeverRuns(b) \/ SendOrder(b)
                        \/ EngineServes(b) \/ Receive(b) \/ SendFails(b)
                        \/ StopBot(b)
    \/ TestEnds \/ Collect \/ FleetReturns \/ ReplayOrder \/ ScoreRun
    \/ Over

\* Goroutines run, timers fire: every Send of a validator returns (answered or
\* at its deadline), the test's deadline passes and a bot's Send returns at
\* the latest then.  The engine owes nothing: in particular it need not answer
\* a WebSocket upgrade, which newBot awaits without a deadline or a context.
Fairness ==
    /\ WF_vars(StartGate) /\ WF_vars(GateDecides)
    /\ \A v \in {"gate", "manual"} : WF_vars(Validates(v))
    /\ \A b \in Bots : WF_vars(protocol = "rest" /\ (BotNeverRuns(b) \/ StartBot(b)))
                      /\ WF_vars(Receive(b) \/ SendFails(b)) /\ WF_vars(StopBot(b))
    /\ WF_vars(TestEnds) /\ WF_vars(Collect)
    /\ WF_vars(FleetReturns \/ ReplayOrder \/ ScoreRun)

Spec == Init /\ [][Next]_vars /\ Fairness

-----------------------------------------------------------------------------
(* Properties *)

\* An honest REST engine is refused by the pre-flight gate only when a send
\* was lost or a manual probe shared its sandbox: the nineteen scenarios
\* expect exactly what price-time priority gives, and the burst's arrival
\* order does not matter.
HonestPassesGate ==
    stage = "refused" =>
        lost > 0 \/ protocol = "websocket" \/ Probing

\* Fleet.Run loses, repeats and invents no result: each bot answers for every
\* order it sent, its slice stands whole and in sending order in what is
\* scored, and there is nothing else and nothing twice (Fleet.Run, Bot.Run).
ResultsComplete ==
    stage = "scored" =>
        /\ \A b \in BotsOf[profile] :
              /\ Len(bot[b].results) = bot[b].n
              /\ \E k \in 0..(Len(all) - bot[b].n) : \A j \in 1..bot[b].n :
                    all[k + j] = bot[b].results[j]
        /\ \A i \in 1..Len(all) : \E b \in BotsOf[profile] : \E j \in 1..bot[b].n :
              all[i] = bot[b].results[j]
        /\ \A i, j \in 1..Len(all) : all[i] = all[j] => i = j

\* Over REST a fill is the answer to the order it is recorded with, whatever
\* timed out before (RESTTransport.Send).
RestFillIsOwn ==
    protocol = "rest" =>
        \A b \in Bots : \A i \in 1..Len(bot[b].results) :
            LET r == bot[b].results[i] IN ~r.err => r.fill.id = r.order.id

\* The replay is right whenever it replays what happened: if the engine, from
\* an empty book, served exactly the collected orders in the collected order
\* and no id occurs twice, every fill a bot read is scored correct, over both
\* protocols and whatever sends timed out (checkCorrectness, Checker.Check).
ReplayOfHistoryIsExact ==
    LET orders == [i \in 1..Len(all) |-> all[i].order]
        distinct == \A i, j \in 1..Len(all) : all[i].order.id = all[j].order.id => i = j
    IN  stage = "scored" /\ ~foreign /\ served = orders /\ distinct =>
            /\ score.correct = Cardinality(DOMAIN Received(all))
            /\ score.incorrect = Len(all) - Cardinality(DOMAIN Received(all))

\* Every bot of the fleet gets through newBot or does without: over REST it
\* always does, over WebSocket when its upgrade handshake returns.
BotsGetGoing == \A b \in Bots : InFleet(b) ~> bot[b].pc # "ramp"

\* If the bots get going, the benchmark ends, refused by the gate or scored,
\* even if the engine stops answering (the deadlines of Send and of the test).
BenchmarkEnds == BotsGetGoing => <>(stage \in {"scored", "refused"})

-----------------------------------------------------------------------------
(* Statements the code does not keep *)

\* The orders that are replayed, and whether each has an id of its own.
ReplayedOrders == [i \in 1..Len(all) |-> all[i].order]
DistinctIds == \A i, j \in 1..Len(all) : all[i].order.id = all[j].order.id => i = j
AllAnswered == lost = 0 /\ protocol = "rest" /\ \A i \in 1..Len(all) : ~all[i].err

\* An engine that matches correctly, serves the fleet's orders only and answers
\* every send has no incorrect fill: the orders are replayed in the exact order
\* in which the fleet sent them.
HonestScoresFull ==
    stage = "scored" /\ ~foreign /\ DistinctIds /\ AllAnswered => score.incorrect = 0

\* Such an engine has no incorrect fill when the replay is in the order in
\* which it served the orders.
ReplayScoresFull ==
    stage = "scored" /\ ~foreign /\ served = ReplayedOrders /\ AllAnswered => score.incorrect = 0

\* Once the root context is canceled every bot's Run returns, and with them
\* Fleet.Run.
RunReturns == ended ~> stage # "fleet"

\* A manual probe does not make the gate refuse an honest engine.
ProbeSparesGate == stage = "refused" => lost > 0 \/ protocol = "websocket"
=============================================================================
