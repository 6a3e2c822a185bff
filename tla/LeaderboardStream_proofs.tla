---------------------- MODULE LeaderboardStream_proofs ----------------------
(***************************************************************************)
(* Proofs about LeaderboardStream for any number of contests and clients,  *)
(* any channel size and any number of score changes and failing reads.     *)
(***************************************************************************)
EXTENDS LeaderboardStream, FiniteSetTheorems, WellFoundedInduction, TLAPS

-----------------------------------------------------------------------------
(* The inductive invariant *)

EventType == [type : {"update", "frozen"}, contest : Contests \cup {0}, board : Nat]

\* Types of the contests and of what their two producers have read.
ProducerType ==
    /\ status \in [Contests -> {"draft", "active", "closed"}]
    /\ score \in [Contests -> Nat]
    /\ closing \subseteq [contest : Contests, board : Nat]
    /\ update \subseteq EventType

\* Types of the bus and of the handlers; a handler past GetActive has a contest.
ClientType ==
    /\ pc \in [Clients -> {"off", "active?", "snapshot", "live", "left"}]
    /\ shown \in [Clients -> Contests \cup {0}]
    /\ \A k \in Clients : pc[k] = "snapshot" => shown[k] \in Contests
    /\ seen \in [Clients -> Seq(EventType)]
    /\ Subscribed \subseteq Clients
    /\ chan \in [Subscribed -> Seq(EventType)]

\* A client is on the bus exactly while its handler runs.
BusInv ==
    \A k \in Clients : k \in Subscribed <=> pc[k] \in {"active?", "snapshot", "live"}

StreamInv == ProducerType /\ ClientType /\ BusInv /\ NothingAfterFrozen

-----------------------------------------------------------------------------
(* The latest closed contest *)

\* GetActive's fallback is defined: 0 and the closed contests have a latest one.
LEMMA LatestExists ==
    ASSUME NEW S, S \subseteq Contests
    PROVE  \E c \in S \cup {0} : \A d \in S : d <= c
  <1> DEFINE n == Cardinality(Contests)
             gaps == {n - c : c \in S}
  <1>1. CASE S = {}
    BY <1>1
  <1>2. CASE S # {}
    <2>1. Contests = 1..n
      BY StreamAssumption
    <2>2. n \in Int
      BY StreamAssumption, FS_CardinalityType
    <2> HIDE DEF n
    <2>3. gaps \subseteq Nat /\ gaps # {}
      <3>1. ASSUME NEW c \in S PROVE n - c \in Nat
        <4>1. c \in 1..n
          BY <2>1
        <4>2. QED
          BY <2>2, <4>1
      <3>2. QED
        BY <1>2, <3>1, Zenon
    <2>4. PICK x \in gaps : \A y \in gaps : ~(<<y, x>> \in OpToRel(<, Nat))
      BY <2>3, NatLessThanWellFounded, WFMin, Zenon
    <2>5. PICK c \in S : x = n - c
      OBVIOUS
    <2>6. ASSUME NEW d \in S PROVE d <= c
      <3>1. n - d \in gaps /\ n - d \in Nat /\ x \in Nat
        BY <2>3
      <3>2. ~(n - d < x)
        BY <2>4, <3>1 DEF OpToRel
      <3>3. d \in Int /\ c \in Int
        BY <2>1
      <3>4. QED
        BY <2>2, <2>5, <3>1, <3>2, <3>3
    <2>7. QED
      BY <2>6
  <1>3. QED
    BY <1>1, <1>2

-----------------------------------------------------------------------------
(* The producers *)

\* A step that leaves the clients alone.
LEMMA ClientsAlone ==
    ASSUME StreamInv, UNCHANGED clientVars
    PROVE  ClientType' /\ BusInv' /\ NothingAfterFrozen'
  BY DEF StreamInv, clientVars, ClientType, BusInv, NothingAfterFrozen, Subscribed

\* A broadcast changes the channels' contents and nobody's subscription.
LEMMA BroadcastKeeps ==
    ASSUME StreamInv, NEW e \in EventType, Broadcast(e), UNCHANGED <<pc, shown, seen>>
    PROVE  ClientType' /\ BusInv' /\ NothingAfterFrozen'
  <1>1. ASSUME NEW k \in Subscribed PROVE Offer(chan[k], e) \in Seq(EventType)
    <2>1. chan[k] \in Seq(EventType)
      BY DEF StreamInv, ClientType
    <2>2. QED
      BY <2>1 DEF Offer
  <1>2. Subscribed' = Subscribed /\ chan' \in [Subscribed -> Seq(EventType)]
    BY <1>1 DEF Broadcast, Subscribed
  <1>3. ClientType'
    BY <1>2 DEF StreamInv, ClientType
  <1>4. BusInv' /\ NothingAfterFrozen'
    BY <1>2 DEF StreamInv, BusInv, NothingAfterFrozen
  <1>5. QED
    BY <1>3, <1>4

\* Contests, scores, Close and the watcher.
LEMMA ProducerStep ==
    ASSUME StreamInv,
           \/ \E c \in Contests : Activate(c) \/ ScoreChanges(c) \/ CloseList(c)
           \/ CloseUpdate \/ CloseBroadcast \/ WatchTick \/ WatchBroadcast
    PROVE  StreamInv'
  <1> USE DEF StreamInv
  <1>1. ASSUME NEW c \in Contests, Activate(c) \/ ScoreChanges(c) \/ CloseList(c)
        PROVE  ProducerType' /\ UNCHANGED clientVars
    BY <1>1 DEF ProducerType, Activate, ScoreChanges, CloseList, Active
  <1>2. ASSUME CloseUpdate PROVE ProducerType' /\ UNCHANGED clientVars
    BY <1>2 DEF ProducerType, CloseUpdate
  <1>3. ASSUME WatchTick PROVE ProducerType' /\ UNCHANGED clientVars
    <2>1. \A c \in Active : Event("update", c, score[c]) \in EventType
      BY DEF Event, EventType, ProducerType, Active
    <2>2. QED
      BY <1>3, <2>1 DEF ProducerType, WatchTick, contestVars
  <1>4. CASE CloseBroadcast
    <2>1. PICK x \in closing : Broadcast(Event("frozen", x.contest, x.board))
      BY <1>4 DEF CloseBroadcast
    <2>2. Event("frozen", x.contest, x.board) \in EventType
      BY DEF Event, EventType, ProducerType
    <2>3. ClientType' /\ BusInv' /\ NothingAfterFrozen'
      BY <1>4, <2>1, <2>2, BroadcastKeeps DEF CloseBroadcast
    <2>4. ProducerType'
      BY <1>4 DEF ProducerType, CloseBroadcast
    <2>5. QED
      BY <2>3, <2>4
  <1>5. CASE WatchBroadcast
    <2>1. PICK e \in update : Broadcast(e)
      BY <1>5 DEF WatchBroadcast
    <2>2. e \in EventType
      BY DEF ProducerType
    <2>3. ClientType' /\ BusInv' /\ NothingAfterFrozen'
      BY <1>5, <2>1, <2>2, BroadcastKeeps DEF WatchBroadcast
    <2>4. ProducerType'
      BY <1>5 DEF ProducerType, WatchBroadcast, contestVars
    <2>5. QED
      BY <2>3, <2>4
  <1>6. QED
    BY <1>1, <1>2, <1>3, <1>4, <1>5, ClientsAlone

-----------------------------------------------------------------------------
(* The stream handler *)

\* The deferred unsubscribe takes the client off the bus and nobody else.
LEMMA LeaveKeeps ==
    ASSUME ClientType, BusInv, NEW k \in Clients, Leave(k)
    PROVE  /\ Subscribed' = Subscribed \ {k}
           /\ chan' \in [Subscribed' -> Seq(EventType)]
           /\ pc' \in [Clients -> {"off", "active?", "snapshot", "live", "left"}]
           /\ pc'[k] = "left" /\ \A j \in Clients \ {k} : pc'[j] = pc[j]
           /\ BusInv'
  <1>1. chan' = [j \in Subscribed \ {k} |-> chan[j]]
    BY DEF Leave, unsubscribe, Remaining
  <1>2. Subscribed' = Subscribed \ {k} /\ chan' \in [Subscribed' -> Seq(EventType)]
    BY <1>1 DEF Subscribed, ClientType
  <1>3. /\ pc' \in [Clients -> {"off", "active?", "snapshot", "live", "left"}]
        /\ pc'[k] = "left" /\ \A j \in Clients \ {k} : pc'[j] = pc[j]
    BY DEF Leave, ClientType
  <1>4. BusInv'
    BY <1>2, <1>3 DEF BusInv
  <1>5. QED
    BY <1>2, <1>3, <1>4

\* An event written to a client that has not left: it is the last one, and if
\* it is a frozen board the client leaves with it.
LEMMA WriteKeeps ==
    ASSUME ClientType, NothingAfterFrozen, NEW k \in Clients, pc[k] # "left",
           NEW e \in EventType, seen' = [seen EXCEPT ![k] = Append(@, e)],
           e.type = "frozen" => pc'[k] = "left",
           \A j \in Clients \ {k} : pc'[j] = pc[j]
    PROVE  seen' \in [Clients -> Seq(EventType)] /\ NothingAfterFrozen'
  <1>1. seen[k] \in Seq(EventType) /\ seen'[k] = Append(seen[k], e)
    BY DEF ClientType
  <1>2. \A j \in Clients \ {k} : seen'[j] = seen[j]
    BY DEF ClientType
  <1>3. seen' \in [Clients -> Seq(EventType)]
    BY <1>1 DEF ClientType
  <1>4. ASSUME NEW j \in Clients, NEW i \in 1..Len(seen'[j]), seen'[j][i].type = "frozen"
        PROVE  i = Len(seen'[j]) /\ pc'[j] = "left"
    <2>1. CASE j = k
      <3>1. Len(seen'[k]) = Len(seen[k]) + 1 /\ Len(seen[k]) \in Nat
        BY <1>1
      <3>2. CASE i \in 1..Len(seen[k])
        <4>1. seen'[k][i] = seen[k][i]
          BY <1>1, <3>2
        <4>2. QED
          BY <1>4, <2>1, <3>2, <4>1 DEF NothingAfterFrozen
      <3>3. CASE i = Len(seen[k]) + 1
        <4>1. seen'[k][i] = e
          BY <1>1, <3>3
        <4>2. QED
          BY <1>4, <2>1, <3>1, <3>3, <4>1
      <3>4. QED
        BY <1>4, <2>1, <3>1, <3>2, <3>3
    <2>2. CASE j # k
      BY <1>2, <1>4, <2>2 DEF NothingAfterFrozen
    <2>3. QED
      BY <2>1, <2>2
  <1>5. QED
    BY <1>3, <1>4 DEF NothingAfterFrozen

\* Every step of a handler.
LEMMA ClientStep ==
    ASSUME StreamInv, NEW k \in Clients, Connect(k) \/ Handler(k) \/ Disconnect(k)
    PROVE  StreamInv'
  <1> USE DEF StreamInv
  <1>1. ProducerType'
    BY DEF Connect, Handler, ReadActive, WriteSnapshot, Forward, Disconnect,
           ProducerType, contestVars
  <1>2. CASE Connect(k)
    <2>1. /\ pc[k] = "off" /\ pc' = [pc EXCEPT ![k] = "active?"]
          /\ chan' = [j \in Subscribed \cup {k} |-> IF j = k THEN <<>> ELSE chan[j]]
          /\ shown' = shown /\ seen' = seen
      BY <1>2 DEF Connect, SubscribesAt, subscribe
    <2>2. <<>> \in Seq(EventType)
      OBVIOUS
    <2>3. /\ Subscribed' = Subscribed \cup {k}
          /\ chan' \in [Subscribed' -> Seq(EventType)]
      BY <2>1, <2>2 DEF Subscribed, ClientType
    <2>4. pc'[k] = "active?" /\ \A j \in Clients \ {k} : pc'[j] = pc[j]
      BY <2>1 DEF ClientType
    <2>5. ClientType'
      BY <2>1, <2>3, <2>4 DEF ClientType
    <2>6. BusInv'
      BY <2>3, <2>4 DEF BusInv
    <2>7. NothingAfterFrozen'
      BY <2>1, <2>4 DEF NothingAfterFrozen
    <2>8. QED
      BY <1>1, <2>5, <2>6, <2>7
  <1>3. CASE ReadActive(k)
    <2> DEFINE closed == {c \in Contests : status[c] = "closed"}
               recent == CHOOSE c \in closed \cup {0} : \A d \in closed : d <= c
    <2>1. pc[k] = "active?"
      BY <1>3 DEF ReadActive
    <2>2. CASE /\ Active # {} /\ UNCHANGED <<faults, chan, seen>>
               /\ shown' = [shown EXCEPT ![k] = CHOOSE c \in Active : TRUE]
               /\ pc' = [pc EXCEPT ![k] = "snapshot"]
      <3>1. shown'[k] \in Contests /\ \A j \in Clients \ {k} : shown'[j] = shown[j]
        BY <2>2 DEF ClientType, Active
      <3>2. pc'[k] = "snapshot" /\ \A j \in Clients \ {k} : pc'[j] = pc[j]
        BY <2>2 DEF ClientType
      <3>3. Subscribed' = Subscribed
        BY <2>2 DEF Subscribed
      <3>4. shown' \in [Clients -> Contests \cup {0}]
        BY <2>2, <3>1 DEF ClientType
      <3>5. ClientType'
        BY <2>2, <3>1, <3>2, <3>3, <3>4 DEF ClientType
      <3>6. BusInv' /\ NothingAfterFrozen'
        BY <2>1, <2>2, <3>2, <3>3 DEF BusInv, NothingAfterFrozen
      <3>7. QED
        BY <1>1, <3>5, <3>6
    <2>3. CASE /\ seen' = [seen EXCEPT ![k] = Append(@, Event("frozen", recent, 0))]
               /\ Leave(k) /\ UNCHANGED shown
      <3>1. recent \in Contests \cup {0}
        <4>1. \E c \in closed \cup {0} : \A d \in closed : d <= c
          BY LatestExists
        <4>2. recent \in closed \cup {0}
          BY <4>1
        <4>3. QED
          BY <4>2
      <3> HIDE DEF recent
      <3>2. /\ Event("frozen", recent, 0) \in EventType
        BY <3>1 DEF Event, EventType
      <3>3. /\ Subscribed' = Subscribed \ {k}
            /\ chan' \in [Subscribed' -> Seq(EventType)]
            /\ pc' \in [Clients -> {"off", "active?", "snapshot", "live", "left"}]
            /\ pc'[k] = "left" /\ \A j \in Clients \ {k} : pc'[j] = pc[j]
            /\ BusInv'
        BY <2>3, LeaveKeeps
      <3>4. seen' \in [Clients -> Seq(EventType)] /\ NothingAfterFrozen'
        BY <2>1, <2>3, <3>2, <3>3, WriteKeeps
      <3>5. ClientType'
        BY <2>3, <3>3, <3>4 DEF ClientType
      <3>6. QED
        BY <1>1, <3>3, <3>4, <3>5
    <2>4. QED
      BY <1>3, <2>2, <2>3 DEF ReadActive
  <1>4. CASE WriteSnapshot(k)
    <2>1. /\ pc[k] = "snapshot" /\ pc' = [pc EXCEPT ![k] = "live"]
          /\ chan' = chan /\ shown' = shown
      BY <1>4 DEF WriteSnapshot, SubscribesAt
    <2>2. pc'[k] = "live" /\ \A j \in Clients \ {k} : pc'[j] = pc[j]
      BY <2>1 DEF ClientType
    <2>3. seen' \in [Clients -> Seq(EventType)] /\ NothingAfterFrozen'
      <3> DEFINE e == Event("update", shown[k], score[shown[k]])
      <3>1. e \in EventType /\ e.type # "frozen"
        BY <2>1 DEF ClientType, ProducerType, Event, EventType
      <3> HIDE DEF e
      <3>2. CASE seen' = [seen EXCEPT ![k] = Append(@, e)]
        BY <2>1, <2>2, <3>1, <3>2, WriteKeeps
      <3>3. CASE UNCHANGED seen
        BY <2>1, <2>2, <3>3 DEF ClientType, NothingAfterFrozen
      <3>4. QED
        BY <1>4, <3>2, <3>3 DEF WriteSnapshot, e
    <2>4. Subscribed' = Subscribed
      BY <2>1 DEF Subscribed
    <2>5. ClientType'
      BY <2>1, <2>2, <2>3, <2>4 DEF ClientType
    <2>6. BusInv'
      BY <2>1, <2>2, <2>4 DEF BusInv
    <2>7. QED
      BY <1>1, <2>3, <2>5, <2>6
  <1>5. CASE Forward(k)
    <2> DEFINE e == Head(chan[k])
    <2>1. /\ pc[k] = "live" /\ k \in Subscribed /\ chan[k] # <<>> /\ shown' = shown
          /\ seen' = [seen EXCEPT ![k] = Append(@, e)]
      BY <1>5 DEF Forward
    <2>2. chan[k] \in Seq(EventType) /\ e \in EventType /\ Tail(chan[k]) \in Seq(EventType)
      BY <2>1 DEF ClientType
    <2> HIDE DEF e
    <2>3. CASE Final(e) /\ Leave(k)
      <3>1. /\ Subscribed' = Subscribed \ {k}
            /\ chan' \in [Subscribed' -> Seq(EventType)]
            /\ pc' \in [Clients -> {"off", "active?", "snapshot", "live", "left"}]
            /\ pc'[k] = "left" /\ \A j \in Clients \ {k} : pc'[j] = pc[j]
            /\ BusInv'
        BY <2>3, LeaveKeeps
      <3>2. seen' \in [Clients -> Seq(EventType)] /\ NothingAfterFrozen'
        BY <2>1, <2>2, <3>1, WriteKeeps
      <3>3. ClientType'
        BY <2>1, <3>1, <3>2 DEF ClientType
      <3>4. QED
        BY <1>1, <3>1, <3>2, <3>3
    <2>4. CASE ~Final(e) /\ UNCHANGED pc /\ chan' = [chan EXCEPT ![k] = Tail(@)]
      <3>1. Subscribed' = Subscribed /\ chan' \in [Subscribed' -> Seq(EventType)]
        BY <2>2, <2>4 DEF Subscribed, ClientType
      <3>2. seen' \in [Clients -> Seq(EventType)] /\ NothingAfterFrozen'
        BY <2>1, <2>2, <2>4, WriteKeeps DEF Final
      <3>3. ClientType' /\ BusInv'
        BY <2>1, <2>4, <3>1, <3>2 DEF ClientType, BusInv
      <3>4. QED
        BY <1>1, <3>2, <3>3
    <2>5. QED
      BY <1>5, <2>3, <2>4 DEF Forward, e
  <1>6. CASE Disconnect(k)
    <2>1. pc[k] = "live" /\ Leave(k) /\ shown' = shown /\ seen' = seen
      BY <1>6 DEF Disconnect
    <2>2. /\ Subscribed' = Subscribed \ {k}
          /\ chan' \in [Subscribed' -> Seq(EventType)]
          /\ pc' \in [Clients -> {"off", "active?", "snapshot", "live", "left"}]
          /\ pc'[k] = "left" /\ \A j \in Clients \ {k} : pc'[j] = pc[j]
          /\ BusInv'
      BY <2>1, LeaveKeeps
    <2>3. ClientType' /\ NothingAfterFrozen'
      BY <2>1, <2>2 DEF ClientType, NothingAfterFrozen
    <2>4. QED
      BY <1>1, <2>2, <2>3
  <1>7. QED
    BY <1>2, <1>3, <1>4, <1>5, <1>6 DEF Handler

-----------------------------------------------------------------------------
(* The theorems *)

\* StreamInv holds in every state.
LEMMA StreamInductive == Spec => []StreamInv
  <1>1. Init => StreamInv
    <2>1. SUFFICES ASSUME Init PROVE StreamInv
      OBVIOUS
    <2>2. ProducerType
      BY <2>1 DEF Init, ProducerType
    <2>3. Subscribed = {} /\ chan \in [Subscribed -> Seq(EventType)]
      BY <2>1 DEF Init, Subscribed
    <2>4. <<>> \in Seq(EventType)
      OBVIOUS
    <2>5. ClientType
      BY <2>1, <2>3, <2>4 DEF Init, ClientType
    <2>6. BusInv /\ NothingAfterFrozen
      BY <2>1, <2>3 DEF Init, BusInv, NothingAfterFrozen
    <2>7. QED
      BY <2>2, <2>5, <2>6 DEF StreamInv
  <1>2. StreamInv /\ [Next]_vars => StreamInv'
    <2> SUFFICES ASSUME StreamInv, [Next]_vars PROVE StreamInv'
      OBVIOUS
    <2>1. CASE UNCHANGED vars
      <3>1. UNCHANGED clientVars /\ ProducerType'
        BY <2>1 DEF vars, contestVars, StreamInv, ProducerType
      <3>2. QED
        BY <3>1, ClientsAlone DEF StreamInv
    <2>2. QED
      BY <2>1, ProducerStep, ClientStep DEF Next
  <1>3. QED
    BY <1>1, <1>2, PTL DEF Spec

\* Whatever is still in its channel, and however late the watcher broadcasts,
\* a client is sent nothing after a frozen board.
THEOREM FrozenCorrect == Spec => []NothingAfterFrozen
  BY StreamInductive, PTL DEF StreamInv

\* The bus holds exactly the clients whose handler runs: every way out of the
\* handler unsubscribes, and nobody else's channel is touched.
THEOREM BusCorrect == Spec => []BusTracksHandlers
  <1>1. StreamInv => BusTracksHandlers
    BY DEF StreamInv, ClientType, BusInv, BusTracksHandlers
  <1>2. QED
    BY <1>1, StreamInductive, PTL
=============================================================================
