----------------------------- MODULE OrderBook -----------------------------
(***************************************************************************)
(* What a price-time priority matching engine promises, in closed form:    *)
(* how much of each resting entry an incoming order takes, the fill it     *)
(* gets and the book it leaves.  There is no matching loop here.           *)
(*                                                                         *)
(* The module has two uses.  It is the abstract specification that the     *)
(* golden order book's loop implements (GoldenOrderbook), and its          *)
(* operators are the honest contestant engine of BotFleetRun, whose code   *)
(* is not part of this repository.                                         *)
(***************************************************************************)
EXTENDS Integers, Sequences, FiniteSets

CONSTANTS
    Orders,     \* the orders a client may send
    MaxOrders   \* bound on the number of orders in a behaviour

VARIABLES
    book,       \* the set of resting entries
    arrivals,   \* accepted-for-matching orders so far: time priority
    acks        \* the fills returned, in order

bookVars == <<book, arrivals, acks>>

-----------------------------------------------------------------------------
(* Data *)

Sides == {"buy", "sell"}
Entry(o, t, q) == [id |-> o.id, side |-> o.side, price |-> o.price,
                   seq |-> t, rem |-> q]
Fill(o, p, q, ok) == [id |-> o.id, price |-> p, qty |-> q, ok |-> ok]

\* An order that never reaches the book.
Refused(o) == \/ o.kind # "cancel" /\ o.qty <= 0
              \/ o.kind = "limit" /\ o.price <= 0

-----------------------------------------------------------------------------
(* Matching in closed form *)

\* Price, then time: e is served before f, both on the same side.
ServedBefore(e, f) ==
    \/ e.side = "buy"  /\ e.price > f.price
    \/ e.side = "sell" /\ e.price < f.price
    \/ e.price = f.price /\ e.seq < f.seq

\* The entries order o may trade with.
Reach(B, o) ==
    {e \in B : /\ e.side # o.side
               /\ \/ o.kind = "market"
                  \/ o.side = "buy"  /\ e.price <= o.price
                  \/ o.side = "sell" /\ e.price >= o.price}

\* The units the entries of S offer.
Volume(S) == Cardinality(UNION {{e.seq} \X (1..e.rem) : e \in S})

\* What o takes of entry e: what the entries served before e leave it.
Taken(B, o, e) ==
    LET R == Reach(B, o)
        left == o.qty - Volume({f \in R : ServedBefore(f, e)})
    IN  IF e \notin R \/ left <= 0 THEN 0
        ELSE IF left < e.rem THEN left ELSE e.rem

Traded(B, o) == LET v == Volume(Reach(B, o)) IN IF v < o.qty THEN v ELSE o.qty

\* The reported price is the price of the last entry traded with.
TradePrice(B, o) ==
    LET T == {e \in B : Taken(B, o, e) > 0}
    IN  IF T = {} THEN 0
        ELSE (CHOOSE e \in T : \A f \in T \ {e} : ServedBefore(f, e)).price

\* The fill of o and the book after it, when o is the t-th arrival.
FillOf(B, o) ==
    IF Refused(o) THEN Fill(o, 0, 0, FALSE)
    ELSE IF o.kind = "cancel" THEN Fill(o, 0, 0, \E e \in B : e.id = o.id)
    ELSE Fill(o, TradePrice(B, o), Traded(B, o),
              o.kind = "limit" \/ Traded(B, o) > 0)

BookAfter(B, t, o) ==
    IF Refused(o) THEN B
    ELSE IF o.kind = "cancel" THEN {e \in B : e.id # o.id}
    ELSE LET hit  == {[e EXCEPT !.rem = @ - Taken(B, o, e)] : e \in B}
             rest == o.qty - Traded(B, o)
         IN  {e \in hit : e.rem > 0}
             \cup IF o.kind = "limit" /\ rest > 0 THEN {Entry(o, t, rest)} ELSE {}

Arrives(o) == ~Refused(o) /\ o.kind # "cancel"

-----------------------------------------------------------------------------
(* The specification: every order is served atomically *)

Init == book = {} /\ arrivals = 0 /\ acks = <<>>

Place(o) ==
    /\ Len(acks) < MaxOrders
    /\ arrivals' = IF Arrives(o) THEN arrivals + 1 ELSE arrivals
    /\ book' = BookAfter(book, arrivals', o)
    /\ acks' = Append(acks, FillOf(book, o))

Next == \E o \in Orders : Place(o)

Spec == Init /\ [][Next]_bookVars
=============================================================================
