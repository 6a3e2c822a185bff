-------------------------- MODULE GoldenOrderbook --------------------------
(***************************************************************************)
(* The golden order book of the correctness oracle                         *)
(* (internal/correctness/orderbook.go), the reference every contestant     *)
(* fill is compared with.                                                  *)
(*                                                                         *)
(* One call of Apply is several steps here: the order is admitted, each    *)
(* turn of the matching loop takes from the best opposite entry, and the   *)
(* remainder rests.  The slices are sets: every sort orders them by price  *)
(* and the unique seq, so the head of the sorted slice is the Best entry.  *)
(***************************************************************************)
EXTENDS Integers, Sequences

CONSTANTS
    Ids,        \* order ids
    Prices,     \* prices in cents, zero and negative ones included
    Qtys,       \* quantities, zero and negative ones included
    MaxOrders   \* bound on the number of calls of Apply

ASSUME GoldenAssumption ==
    /\ Prices \subseteq Int /\ Qtys \subseteq Int /\ MaxOrders \in Nat

VARIABLES
    buys,    \* resting buy entries
    sells,   \* resting sell entries
    index,   \* the keys of the id -> entry map
    seq,     \* arrival counter
    taker,   \* the order being matched, and applyLimit/applyMarket's locals
    fills,   \* the GoldenFills returned so far
    before   \* auxiliary: the entries when the taker arrived

vars == <<buys, sells, index, seq, taker, fills, before>>

-----------------------------------------------------------------------------
(* Data *)

Order == [id : Ids, kind : {"limit", "market", "cancel"},
          side : {"buy", "sell"}, price : Prices, qty : Qtys]
BookEntry == [id : Ids, side : {"buy", "sell"}, price : Prices,
              seq : Nat, rem : Int]
GoldenFill == [id : Ids, price : Prices \cup {0}, qty : Int, ok : BOOLEAN]
Taker == [order : Order, remaining : Int, price : Prices \cup {0}, qty : Int]

Idle == [idle |-> TRUE]
Busy == taker # Idle

Ack(o, ok) == [id |-> o.id, price |-> 0, qty |-> 0, ok |-> ok]

-----------------------------------------------------------------------------
(* Apply *)

\* A client never reuses the id of an earlier order for a new one; a cancel
\* carries the id of the order it cancels, or an unknown one.
Callable(o) ==
    /\ ~Busy
    /\ Len(fills) < MaxOrders
    /\ o.kind # "cancel" => \A i \in 1..Len(fills) : fills[i].id # o.id

\* Mutant of Rejected: a limit order without a price is taken.
RejectedNoPrice(o) == o.kind # "cancel" /\ o.qty <= 0

\* The early returns of applyLimit and applyMarket.
Rejected(o) ==
    \/ o.kind # "cancel" /\ o.qty <= 0
    \/ o.kind = "limit" /\ o.price <= 0

Reject(o) ==
    /\ Callable(o) /\ Rejected(o)
    /\ fills' = Append(fills, Ack(o, FALSE))
    /\ UNCHANGED <<buys, sells, index, seq, taker, before>>

\* removeEntry.
Without(S, id) == {e \in S : e.id # id}

\* applyCancel: accepted exactly when the index knows the id.
ApplyCancel(o) ==
    /\ Callable(o) /\ o.kind = "cancel"
    /\ fills' = Append(fills, Ack(o, o.id \in index))
    /\ index' = index \ {o.id}
    /\ buys' = IF o.id \in index THEN Without(buys, o.id) ELSE buys
    /\ sells' = IF o.id \in index THEN Without(sells, o.id) ELSE sells
    /\ UNCHANGED <<seq, taker, before>>

\* applyLimit and applyMarket up to the matching loop.
Admit(o) ==
    /\ Callable(o) /\ o.kind # "cancel" /\ ~Rejected(o)
    /\ seq' = seq + 1
    /\ taker' = [order |-> o, remaining |-> o.qty, price |-> 0, qty |-> 0]
    /\ before' = buys \cup sells
    /\ UNCHANGED <<buys, sells, index, fills>>

-----------------------------------------------------------------------------
(* The matching loop *)

\* The side the taker matches against.
Opposite == IF taker.order.side = "buy" THEN sells ELSE buys

\* Mutant of Precedes: equal prices are served last in, first out.
PrecedesLifo(e, f) ==
    \/ e.side = "buy"  /\ e.price > f.price
    \/ e.side = "sell" /\ e.price < f.price
    \/ e.price = f.price /\ e.seq > f.seq

\* The order of sortBuys and sortSells.
Precedes(e, f) ==
    \/ e.side = "buy"  /\ e.price > f.price
    \/ e.side = "sell" /\ e.price < f.price
    \/ e.price = f.price /\ e.seq < f.seq

\* Head of the sorted slice.
Best(S, e) == e \in S /\ \A f \in S \ {e} : Precedes(e, f)

\* Mutant of Crosses: the break of the loop compares with the wrong bound,
\* so equal prices do not trade.
CrossesStrictly(o, e) ==
    \/ o.kind = "market"
    \/ o.side = "buy"  /\ e.price < o.price
    \/ o.side = "sell" /\ e.price > o.price

\* The loop goes on with entry e.
Crosses(o, e) ==
    \/ o.kind = "market"
    \/ o.side = "buy"  /\ e.price <= o.price
    \/ o.side = "sell" /\ e.price >= o.price

min64(a, b) == IF a < b THEN a ELSE b

\* Takes m units of e; an entry that is used up leaves its side.
TakeFrom(S, e, m) ==
    (S \ {e}) \cup IF e.rem = m THEN {} ELSE {[e EXCEPT !.rem = @ - m]}

\* Mutant of Unindex: a filled entry stays in the index.
UnindexNever(e, m) == index

\* delete(g.index, best.id) when the entry is used up.
Unindex(e, m) == IF e.rem = m THEN index \ {e.id} ELSE index

\* One turn of the loop.
MatchBest ==
    /\ Busy
    /\ taker.remaining > 0
    /\ \E e \in Opposite :
          LET m == min64(taker.remaining, e.rem) IN
          /\ Best(Opposite, e)
          /\ Crosses(taker.order, e)
          /\ taker' = [taker EXCEPT !.remaining = @ - m,
                                    !.price = e.price, !.qty = @ + m]
          /\ IF taker.order.side = "buy"
             THEN sells' = TakeFrom(sells, e, m) /\ UNCHANGED buys
             ELSE buys' = TakeFrom(buys, e, m) /\ UNCHANGED sells
          /\ index' = Unindex(e, m)
    /\ UNCHANGED <<seq, fills, before>>

LoopEnds ==
    \/ taker.remaining <= 0
    \/ \A e \in Opposite : Best(Opposite, e) => ~Crosses(taker.order, e)

\* The rest of applyLimit and applyMarket: a limit order's remainder rests, a
\* market order is accepted when it traded.
Finish ==
    LET o == taker.order
        rests == o.kind = "limit" /\ taker.remaining > 0
        entry == [id |-> o.id, side |-> o.side, price |-> o.price,
                  seq |-> seq, rem |-> taker.remaining]
    IN
    /\ Busy /\ LoopEnds
    /\ buys' = IF rests /\ o.side = "buy" THEN buys \cup {entry} ELSE buys
    /\ sells' = IF rests /\ o.side # "buy" THEN sells \cup {entry} ELSE sells
    /\ index' = IF rests THEN index \cup {o.id} ELSE index
    /\ fills' = Append(fills, [id |-> o.id, price |-> taker.price,
                               qty |-> taker.qty,
                               ok |-> o.kind = "limit" \/ taker.qty > 0])
    /\ taker' = Idle
    /\ before' = {}
    /\ UNCHANGED seq

-----------------------------------------------------------------------------
(* Specification *)

\* NewGoldenOrderbook.
Init ==
    /\ buys = {} /\ sells = {} /\ index = {}
    /\ seq = 0 /\ taker = Idle /\ fills = <<>> /\ before = {}

Next ==
    \/ \E o \in Order : Reject(o) \/ ApplyCancel(o) \/ Admit(o)
    \/ MatchBest
    \/ Finish

Spec == Init /\ [][Next]_vars

-----------------------------------------------------------------------------
(* Properties *)

\* Values stay in their types; in particular a resting entry has a positive
\* price and a positive remaining quantity.
TypeOK ==
    /\ buys \subseteq BookEntry /\ sells \subseteq BookEntry
    /\ \A e \in buys \cup sells : e.rem > 0 /\ e.price > 0
    /\ index \subseteq Ids
    /\ seq \in Nat
    /\ taker \in Taker \cup {Idle}
    /\ fills \in Seq(GoldenFill)
    /\ before \subseteq BookEntry

\* The index has exactly the resting entries, one per id, even between the
\* turns of the matching loop: a cancel is accepted exactly when the order
\* still rests (applyCancel trusts the index alone).
IndexIsBook ==
    /\ index = {e.id : e \in buys \cup sells}
    /\ \A e, f \in buys \cup sells : e.id = f.id => e = f

\* The book is never crossed: after every order, and at every turn of the
\* loop, each bid is below each ask.
NeverCrossed == \A b \in buys, s \in sells : b.price < s.price

-----------------------------------------------------------------------------
(* The closed form *)

\* Until the taker is done the abstract book is the one the taker found.
Abstract == INSTANCE OrderBook WITH
    Orders   <- Order,
    book     <- IF Busy THEN before ELSE buys \cup sells,
    arrivals <- IF Busy THEN seq - 1 ELSE seq,
    acks     <- fills

\* Every call of Apply returns the fill, and leaves the book, that price-time
\* priority prescribes: the sorted slices, the loop, its break, the partial
\* fills and the resting remainder together implement the closed form.
ImplementsPriceTime == Abstract!Spec
=============================================================================
