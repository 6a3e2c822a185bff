----------------------- MODULE GoldenOrderbook_proofs -----------------------
(***************************************************************************)
(* Proofs about GoldenOrderbook for every set of ids, prices and           *)
(* quantities and any number of orders: first the safety of the book, then *)
(* that the matching loop implements the closed form of price-time         *)
(* priority (OrderBook).                                                   *)
(***************************************************************************)
EXTENDS GoldenOrderbook, FiniteSetTheorems, WellFoundedInduction, TLAPS

-----------------------------------------------------------------------------
(* The inductive invariant *)

\* An entry rests on the side it names.
SidesInv == /\ \A e \in buys : e.side = "buy"
            /\ \A e \in sells : e.side = "sell"

\* A resting order was answered before, with its own id.
AnsweredInv ==
    \A e \in buys \cup sells : \E i \in 1..Len(fills) : fills[i].id = e.id

\* The order being matched passed the early returns and its id is new.
TakerInv ==
    Busy => /\ taker.order.kind # "cancel" /\ ~Rejected(taker.order)
            /\ \A i \in 1..Len(fills) : fills[i].id # taker.order.id

\* No two entries have the same arrival number, and none that of the taker.
SeqInv ==
    /\ \A e, f \in buys \cup sells : e.seq = f.seq => e = f
    /\ \A e \in buys \cup sells : e.seq <= seq /\ (Busy => e.seq < seq)

\* The bids have an upper bound: there is a highest one.
BidsBounded == \E m \in Prices \cup {0} : \A e \in buys : e.price <= m

BookInv == /\ TypeOK /\ SidesInv /\ IndexIsBook /\ AnsweredInv /\ TakerInv
           /\ SeqInv /\ BidsBounded /\ NeverCrossed

-----------------------------------------------------------------------------
(* The best entry exists *)

\* A non-empty set of natural numbers has a least element.
LEMMA LeastNat ==
    ASSUME NEW T, T \subseteq Nat, T # {}
    PROVE  \E x \in T : \A y \in T : x <= y
  <1>1. PICK x \in T : \A y \in T : ~(<<y, x>> \in OpToRel(<, Nat))
    BY NatLessThanWellFounded, WFMin, Zenon
  <1>2. ASSUME NEW y \in T PROVE x <= y
    <2>1. ~(<<y, x>> \in OpToRel(<, Nat))
      BY <1>1
    <2>2. x \in Nat /\ y \in Nat
      OBVIOUS
    <2>3. ~(y < x)
      BY <2>1, <2>2 DEF OpToRel
    <2>4. QED
      BY <2>2, <2>3
  <1>3. QED
    BY <1>2

\* Each side of the book that is not empty has a best entry.
LEMMA BestExists ==
    ASSUME BookInv, NEW S, S = buys \/ S = sells, S # {}
    PROVE  \E e \in S : Best(S, e)
  <1>1. \A e \in S : e.price \in Nat /\ e.seq \in Nat
    <2>1. S \subseteq BookEntry /\ S \subseteq buys \cup sells
      BY DEF BookInv, TypeOK
    <2>2. \A e \in S : e.price \in Int /\ e.seq \in Nat
      BY <2>1, GoldenAssumption DEF BookEntry
    <2>3. \A e \in S : e.price > 0
      BY <2>1 DEF BookInv, TypeOK
    <2>4. QED
      BY <2>2, <2>3
  <1>2. \A e, f \in S : e.seq = f.seq => e = f
    BY DEF BookInv, SeqInv
  <1>3. PICK p \in {e.price : e \in S} :
           \A e \in S : IF S = buys /\ S # sells THEN e.price <= p ELSE p <= e.price
    <2>1. CASE S = sells
      <3>1. {e.price : e \in S} \subseteq Nat /\ {e.price : e \in S} # {}
        BY <1>1
      <3>2. PICK x \in {e.price : e \in S} : \A y \in {e.price : e \in S} : x <= y
        BY <3>1, LeastNat
      <3>3. QED
        BY <2>1, <3>2
    <2>2. CASE S = buys /\ S # sells
      <3>1. PICK m \in Prices \cup {0} : \A e \in buys : e.price <= m
        BY DEF BookInv, BidsBounded
      <3> DEFINE gaps == {m - e.price : e \in S}
      <3>2. m \in Int
        BY GoldenAssumption
      <3>3. gaps \subseteq Nat /\ gaps # {}
        BY <1>1, <2>2, <3>1, <3>2
      <3>4. PICK x \in gaps : \A y \in gaps : x <= y
        BY <3>3, LeastNat
      <3>5. PICK e \in S : x = m - e.price
        BY <3>4
      <3>6. ASSUME NEW f \in S PROVE f.price <= e.price
        <4>1. x <= m - f.price
          BY <3>4
        <4>2. QED
          BY <1>1, <3>2, <3>5, <4>1
      <3>7. QED
        BY <2>2, <3>6
    <2>3. QED
      BY <2>1, <2>2
  <1> DEFINE top == {e \in S : e.price = p}
  <1>4. {e.seq : e \in top} \subseteq Nat /\ {e.seq : e \in top} # {}
    BY <1>1, <1>3
  <1>5. PICK t \in {e.seq : e \in top} : \A y \in {e.seq : e \in top} : t <= y
    BY <1>4, LeastNat
  <1>6. PICK e \in top : e.seq = t
    BY <1>5
  <1>7. ASSUME NEW f \in S \ {e} PROVE Precedes(e, f)
    <2>1. e.price = p /\ e \in S
      BY <1>6
    <2>2. f.price = p => e.seq < f.seq
      <3>1. SUFFICES ASSUME f.price = p PROVE e.seq < f.seq
        OBVIOUS
      <3>2. t <= f.seq
        BY <1>5, <3>1
      <3>3. e.seq # f.seq
        BY <1>2, <2>1
      <3>4. QED
        BY <1>1, <1>6, <2>1, <3>2, <3>3
    <2>3. CASE S = sells
      <3>1. e.side = "sell" /\ p <= f.price
        BY <1>3, <2>1, <2>3 DEF BookInv, SidesInv
      <3>2. QED
        BY <1>1, <2>1, <2>2, <3>1 DEF Precedes
    <2>4. CASE S = buys /\ S # sells
      <3>1. e.side = "buy" /\ f.price <= p
        BY <1>3, <2>1, <2>4 DEF BookInv, SidesInv
      <3>2. QED
        BY <1>1, <2>1, <2>2, <3>1 DEF Precedes
    <2>5. QED
      BY <2>3, <2>4
  <1>8. QED
    BY <1>6, <1>7 DEF Best

-----------------------------------------------------------------------------
(* The actions preserve the invariant *)

\* The empty book of NewGoldenOrderbook satisfies the invariant.
LEMMA InitBook == Init => BookInv
  <1> SUFFICES ASSUME Init PROVE BookInv
    OBVIOUS
  <1> USE DEF Init
  <1>1. TypeOK
    BY DEF TypeOK
  <1>2. SidesInv /\ IndexIsBook /\ NeverCrossed
    BY DEF SidesInv, IndexIsBook, NeverCrossed
  <1>3. AnsweredInv /\ TakerInv /\ SeqInv
    BY DEF AnsweredInv, TakerInv, SeqInv, Busy
  <1>4. BidsBounded
    BY DEF BidsBounded
  <1>5. QED
    BY <1>1, <1>2, <1>3, <1>4 DEF BookInv

\* An answer is appended and no earlier one changes.
LEMMA AppendAnswer ==
    ASSUME TypeOK, NEW g \in GoldenFill, fills' = Append(fills, g)
    PROVE  /\ fills' \in Seq(GoldenFill)
           /\ Len(fills') = Len(fills) + 1 /\ Len(fills) \in Nat
           /\ \A i \in 1..Len(fills) : fills'[i] = fills[i]
           /\ fills'[Len(fills) + 1] = g
  <1>1. fills \in Seq(GoldenFill)
    BY DEF TypeOK
  <1>2. QED
    BY <1>1

\* Orders that were answered stay answered.
LEMMA StillAnswered ==
    ASSUME TypeOK, AnsweredInv, NEW g \in GoldenFill,
           fills' = Append(fills, g), NEW e \in buys \cup sells
    PROVE  \E i \in 1..Len(fills') : fills'[i].id = e.id
  <1>1. PICK i \in 1..Len(fills) : fills[i].id = e.id
    BY DEF AnsweredInv
  <1>2. i \in 1..Len(fills') /\ fills'[i] = fills[i]
    BY AppendAnswer
  <1>3. QED
    BY <1>1, <1>2

\* The answer to a rejected order or a cancel is a fill.
LEMMA AckType == \A o \in Order, ok \in BOOLEAN : Ack(o, ok) \in GoldenFill
  BY DEF Ack, Order, GoldenFill

\* An early return of applyLimit or applyMarket changes no entry.
LEMMA RejectBook ==
    ASSUME BookInv, NEW o \in Order, Reject(o)
    PROVE  BookInv'
  <1> USE DEF Reject, BookInv
  <1>1. Ack(o, FALSE) \in GoldenFill
    BY AckType
  <1>2. TypeOK'
    BY <1>1, AppendAnswer DEF TypeOK
  <1>3. SidesInv' /\ IndexIsBook' /\ NeverCrossed' /\ BidsBounded'
    BY DEF SidesInv, IndexIsBook, NeverCrossed, BidsBounded
  <1>4. AnsweredInv'
    BY <1>1, StillAnswered DEF AnsweredInv
  <1>5. TakerInv' /\ SeqInv'
    BY DEF TakerInv, SeqInv, Callable, Busy
  <1>6. QED
    BY <1>2, <1>3, <1>4, <1>5

\* applyCancel removes the entry from its side and from the index together.
LEMMA CancelBook ==
    ASSUME BookInv, NEW o \in Order, ApplyCancel(o)
    PROVE  BookInv'
  <1> USE DEF ApplyCancel, BookInv
  <1>1. Ack(o, o.id \in index) \in GoldenFill
    <2>1. CASE o.id \in index
      <3>1. (o.id \in index) = TRUE
        BY <2>1
      <3>2. QED
        BY <3>1, AckType
    <2>2. CASE o.id \notin index
      <3>1. (o.id \in index) = FALSE
        BY <2>2
      <3>2. QED
        BY <3>1, AckType
    <2>3. QED
      BY <2>1, <2>2
  <1>2. buys' \subseteq buys /\ sells' \subseteq sells
    BY DEF Without
  <1>3. TypeOK'
    <2>1. fills' \in Seq(GoldenFill)
      BY <1>1, AppendAnswer
    <2>2. QED
      BY <1>2, <2>1 DEF TypeOK
  <1>4. SidesInv' /\ NeverCrossed' /\ BidsBounded'
    BY <1>2 DEF SidesInv, NeverCrossed, BidsBounded
  <1>5. IndexIsBook'
    <2>1. buys' \cup sells' = {e \in buys \cup sells : e.id # o.id}
      BY DEF Without, IndexIsBook
    <2>2. QED
      BY <2>1 DEF IndexIsBook
  <1>6. AnsweredInv'
    BY <1>1, <1>2, StillAnswered DEF AnsweredInv
  <1>7. TakerInv' /\ SeqInv'
    BY <1>2 DEF TakerInv, SeqInv, Callable, Busy
  <1>8. QED
    BY <1>3, <1>4, <1>5, <1>6, <1>7

\* An admitted order passed the early returns, and its arrival number is new.
LEMMA AdmitBook ==
    ASSUME BookInv, NEW o \in Order, Admit(o)
    PROVE  BookInv'
  <1> USE DEF Admit, BookInv
  <1>1. taker' \in Taker /\ taker'.order = o
    <2>1. o.qty \in Int
      BY GoldenAssumption DEF Order
    <2>2. QED
      BY <2>1 DEF Taker
  <1>2. TypeOK'
    BY <1>1 DEF TypeOK
  <1>3. SidesInv' /\ IndexIsBook' /\ NeverCrossed' /\ BidsBounded'
    BY DEF SidesInv, IndexIsBook, NeverCrossed, BidsBounded
  <1>4. AnsweredInv'
    BY DEF AnsweredInv
  <1>5. TakerInv'
    BY <1>1 DEF TakerInv, Callable, Rejected
  <1>6. SeqInv'
    <2>1. seq \in Nat /\ seq' = seq + 1
      BY DEF TypeOK
    <2>2. \A e \in buys \cup sells : e.seq \in Nat
      BY DEF TypeOK, BookEntry
    <2>3. \A e \in buys \cup sells : e.seq <= seq
      BY DEF SeqInv
    <2>4. \A e \in buys \cup sells : e.seq < seq'
      BY <2>1, <2>2, <2>3
    <2>5. QED
      BY <2>1, <2>2, <2>4 DEF SeqInv
  <1>7. QED
    BY <1>2, <1>3, <1>4, <1>5, <1>6

-----------------------------------------------------------------------------
(* A turn of the matching loop *)

\* x is an entry of S, except for the units that were taken of e.
SameBut(x, y, e, m) ==
    /\ x.id = y.id /\ x.side = y.side /\ x.price = y.price /\ x.seq = y.seq
    /\ y # e => x = y
    /\ y = e => e.rem # m /\ x = [e EXCEPT !.rem = @ - m]

\* Every entry that is left after a trade was there before it, and still has
\* units to sell or buy.
LEMMA TakeFromOrigin ==
    ASSUME NEW S, S \subseteq BookEntry, NEW e \in S, NEW m \in Int,
           m <= e.rem, \A y \in S : y.rem > 0, NEW x \in TakeFrom(S, e, m)
    PROVE  /\ x \in BookEntry /\ x.rem > 0
           /\ \E y \in S : SameBut(x, y, e, m)
  <1>1. CASE x \in S \ {e}
    BY <1>1 DEF SameBut
  <1>2. CASE x \notin S \ {e}
    <2>1. e.rem # m /\ x = [e EXCEPT !.rem = @ - m]
      BY <1>2 DEF TakeFrom
    <2>2. e \in BookEntry /\ e.rem \in Int
      BY DEF BookEntry
    <2>3. x \in BookEntry /\ x.rem = e.rem - m
      BY <2>1, <2>2 DEF BookEntry
    <2>4. x.id = e.id /\ x.side = e.side /\ x.price = e.price /\ x.seq = e.seq
      BY <2>1, <2>2 DEF BookEntry
    <2>5. x.rem > 0
      BY <2>1, <2>2, <2>3
    <2>6. SameBut(x, e, e, m)
      BY <2>1, <2>4 DEF SameBut
    <2>7. QED
      BY <2>3, <2>5, <2>6
  <1>3. QED
    BY <1>1, <1>2

\* Only an entry that is used up disappears.
LEMMA TakeFromKeeps ==
    ASSUME NEW S, S \subseteq BookEntry, NEW e \in S, NEW m \in Int,
           NEW y \in S, y = e => e.rem # m
    PROVE  \E x \in TakeFrom(S, e, m) : x.id = y.id
  <1>1. CASE y # e
    BY <1>1 DEF TakeFrom
  <1>2. CASE y = e
    <2> DEFINE x == [e EXCEPT !.rem = @ - m]
    <2>1. x \in TakeFrom(S, e, m)
      BY <1>2 DEF TakeFrom
    <2>2. x.id = e.id
      BY DEF BookEntry
    <2>3. QED
      BY <1>2, <2>1, <2>2
  <1>3. QED
    BY <1>1, <1>2

\* One turn of the loop keeps the invariant: an entry loses units or leaves
\* both its side and the index.
LEMMA MatchBook ==
    ASSUME BookInv, MatchBest
    PROVE  BookInv'
  <1> DEFINE B == buys \cup sells
             units(e) == min64(taker.remaining, e.rem)
  <1> USE DEF BookInv
  <1>1. PICK e \in Opposite :
          /\ taker' = [taker EXCEPT !.remaining = @ - units(e),
                                    !.price = e.price, !.qty = @ + units(e)]
          /\ IF taker.order.side = "buy"
             THEN sells' = TakeFrom(sells, e, units(e)) /\ UNCHANGED buys
             ELSE buys' = TakeFrom(buys, e, units(e)) /\ UNCHANGED sells
          /\ index' = Unindex(e, units(e))
    BY DEF MatchBest
  <1> DEFINE m == units(e)
  <1>2. /\ Busy /\ taker.remaining > 0 /\ taker # Idle
        /\ seq' = seq /\ fills' = fills /\ before' = before
    BY DEF MatchBest, Busy
  <1>3. taker \in Taker /\ taker.remaining \in Int /\ taker.qty \in Int
    BY <1>2 DEF TypeOK, Taker
  <1>4. B \subseteq BookEntry /\ e \in B /\ \A y \in B : y.rem > 0
    BY DEF Opposite, TypeOK
  <1>5. m \in Int /\ m > 0 /\ m <= e.rem
    <2>1. e.rem \in Int /\ e.rem > 0
      BY <1>4 DEF BookEntry
    <2>2. QED
      BY <1>2, <1>3, <2>1 DEF min64
  <1>6. B' = TakeFrom(B, e, m)
    <2>1. CASE taker.order.side = "buy"
      <3>1. e \in sells /\ e \notin buys
        BY <2>1 DEF Opposite, SidesInv
      <3>2. QED
        BY <1>1, <2>1, <3>1 DEF TakeFrom
    <2>2. CASE taker.order.side # "buy"
      <3>1. e \in buys /\ e \notin sells
        BY <2>2 DEF Opposite, SidesInv
      <3>2. QED
        BY <1>1, <2>2, <3>1 DEF TakeFrom
    <2>3. QED
      BY <2>1, <2>2
  <1> HIDE DEF m, units
  <1>7. \A x \in B' : /\ x \in BookEntry /\ x.rem > 0
                      /\ \E y \in B : SameBut(x, y, e, m)
    BY <1>4, <1>5, <1>6, TakeFromOrigin
  <1>8. /\ \A x \in buys' : \E y \in buys : SameBut(x, y, e, m)
        /\ \A x \in sells' : \E y \in sells : SameBut(x, y, e, m)
    <2>1. buys \subseteq BookEntry /\ sells \subseteq BookEntry
      BY DEF TypeOK
    <2>2. CASE taker.order.side = "buy"
      <3>1. e \in sells /\ e \notin buys
        BY <2>2 DEF Opposite, SidesInv
      <3>2. sells' = TakeFrom(sells, e, m) /\ buys' = buys
        BY <1>1, <2>2 DEF m
      <3>3. \A x \in buys : SameBut(x, x, e, m)
        BY <3>1 DEF SameBut
      <3>4. \A x \in sells' : \E y \in sells : SameBut(x, y, e, m)
        BY <1>4, <1>5, <2>1, <3>1, <3>2, TakeFromOrigin
      <3>5. QED
        BY <3>2, <3>3, <3>4
    <2>3. CASE taker.order.side # "buy"
      <3>1. e \in buys /\ e \notin sells
        BY <2>3 DEF Opposite, SidesInv
      <3>2. buys' = TakeFrom(buys, e, m) /\ sells' = sells
        BY <1>1, <2>3 DEF m
      <3>3. \A x \in sells : SameBut(x, x, e, m)
        BY <3>1 DEF SameBut
      <3>4. \A x \in buys' : \E y \in buys : SameBut(x, y, e, m)
        BY <1>4, <1>5, <2>1, <3>1, <3>2, TakeFromOrigin
      <3>5. QED
        BY <3>2, <3>3, <3>4
    <2>4. QED
      BY <2>2, <2>3
  <1>9. index' \subseteq index /\ (e.rem = m => index' = index \ {e.id})
                               /\ (e.rem # m => index' = index)
    BY <1>1 DEF Unindex, m
  <1>10. /\ taker' \in Taker /\ taker' # Idle
         /\ taker'.order = taker.order
    <2>1. taker' = [taker EXCEPT !.remaining = @ - m,
                                 !.price = e.price, !.qty = @ + m]
      BY <1>1 DEF m
    <2>2. e.price \in Prices
      BY <1>4 DEF BookEntry
    <2>3. taker' \in Taker /\ taker'.order = taker.order
      <3>1. taker.remaining - m \in Int /\ taker.qty + m \in Int
        BY <1>3, <1>5
      <3>2. taker' = [order |-> taker.order, remaining |-> taker.remaining - m,
                      price |-> e.price, qty |-> taker.qty + m]
        BY <1>3, <2>1 DEF Taker
      <3>3. taker.order \in Order
        BY <1>3 DEF Taker
      <3>4. QED
        BY <2>2, <3>1, <3>2, <3>3 DEF Taker
    <2>4. \A k \in Taker : k # Idle
      <3>1. \A k \in Taker : DOMAIN k = {"order", "remaining", "price", "qty"}
        BY DEF Taker
      <3>2. DOMAIN Idle = {"idle"} /\ "order" # "idle"
        BY DEF Idle
      <3>3. QED
        BY <3>1, <3>2
    <2>5. QED
      BY <2>3, <2>4
  <1>11. TypeOK'
    <2>1. \A x \in B' : x.price > 0
      <3>1. \A y \in B : y.price > 0
        BY DEF TypeOK
      <3>2. QED
        BY <1>7, <3>1 DEF SameBut
    <2>2. QED
      BY <1>2, <1>7, <1>9, <1>10, <2>1 DEF TypeOK
  <1>12. SidesInv'
    BY <1>8 DEF SidesInv, SameBut
  <1>13. IndexIsBook'
    <2>1. \A x, z \in B' : x.id = z.id => x = z
      <3>1. SUFFICES ASSUME NEW x \in B', NEW z \in B', x.id = z.id
                     PROVE  x = z
        OBVIOUS
      <3>2. PICK y \in B : SameBut(x, y, e, m)
        BY <1>7
      <3>3. PICK w \in B : SameBut(z, w, e, m)
        BY <1>7
      <3>4. y = w
        BY <3>1, <3>2, <3>3 DEF SameBut, IndexIsBook
      <3>5. QED
        BY <3>2, <3>3, <3>4 DEF SameBut
    <2>2. ASSUME NEW x \in B' PROVE x.id \in index'
      <3>1. PICK y \in B : SameBut(x, y, e, m)
        BY <1>7
      <3>2. x.id = y.id /\ y.id \in index
        BY <3>1 DEF SameBut, IndexIsBook
      <3>3. CASE e.rem = m
        <4>1. y # e
          BY <3>1, <3>3 DEF SameBut
        <4>2. y.id # e.id
          BY <1>4, <4>1 DEF IndexIsBook
        <4>3. QED
          BY <1>9, <3>2, <3>3, <4>2
      <3>4. CASE e.rem # m
        BY <1>9, <3>2, <3>4
      <3>5. QED
        BY <3>3, <3>4
    <2>3. ASSUME NEW i \in index' PROVE \E x \in B' : x.id = i
      <3>1. PICK y \in B : y.id = i
        BY <1>9 DEF IndexIsBook
      <3>2. y = e => e.rem # m
        BY <1>9, <3>1
      <3>3. QED
        BY <1>4, <1>5, <1>6, <3>1, <3>2, TakeFromKeeps
    <2>4. index' = {x.id : x \in B'}
      BY <2>2, <2>3
    <2>5. QED
      BY <2>1, <2>4 DEF IndexIsBook
  <1>14. AnsweredInv'
    <2>1. SUFFICES ASSUME NEW x \in B'
                   PROVE  \E i \in 1..Len(fills) : fills[i].id = x.id
      BY <1>2 DEF AnsweredInv
    <2>2. PICK y \in B : SameBut(x, y, e, m)
      BY <1>7
    <2>3. QED
      BY <2>2 DEF AnsweredInv, SameBut
  <1>15. TakerInv'
    BY <1>2, <1>10 DEF TakerInv, Busy, Rejected
  <1>16. SeqInv'
    <2>1. ASSUME NEW x \in B', NEW z \in B', x.seq = z.seq PROVE x = z
      <3>1. PICK y \in B : SameBut(x, y, e, m)
        BY <1>7
      <3>2. PICK w \in B : SameBut(z, w, e, m)
        BY <1>7
      <3>3. y = w
        BY <2>1, <3>1, <3>2 DEF SameBut, SeqInv
      <3>4. QED
        BY <3>1, <3>2, <3>3 DEF SameBut
    <2>2. ASSUME NEW x \in B' PROVE x.seq <= seq /\ x.seq < seq
      <3>1. PICK y \in B : SameBut(x, y, e, m)
        BY <1>7
      <3>2. QED
        BY <1>2, <3>1 DEF SameBut, SeqInv
    <2>3. QED
      BY <1>2, <2>1, <2>2 DEF SeqInv
  <1>17. BidsBounded'
    <2>1. PICK b \in Prices \cup {0} : \A y \in buys : y.price <= b
      BY DEF BidsBounded
    <2>2. \A x \in buys' : x.price <= b
      BY <1>8, <2>1 DEF SameBut
    <2>3. QED
      BY <2>2 DEF BidsBounded
  <1>18. NeverCrossed'
    BY <1>8 DEF NeverCrossed, SameBut
  <1>19. QED
    BY <1>11, <1>12, <1>13, <1>14, <1>15, <1>16, <1>17, <1>18

-----------------------------------------------------------------------------
(* The end of Apply *)

\* Where the loop stops with units left, no opposite entry is in reach of
\* the taker: its price lies strictly between its own side and the other.
LEMMA RestUncrossed ==
    ASSUME BookInv, Busy, LoopEnds, taker.remaining > 0,
           taker.order.kind = "limit", taker \in Taker
    PROVE  /\ taker.order.side = "buy" =>
                 \A f \in sells : taker.order.price < f.price
           /\ taker.order.side # "buy" =>
                 \A f \in buys : f.price < taker.order.price
  <1> DEFINE o == taker.order
  <1>1. /\ o.price \in Int /\ o.side \in {"buy", "sell"}
        /\ taker.remaining \in Int
    BY GoldenAssumption DEF Taker, Order
  <1>2. \A e \in buys \cup sells : e.price \in Int
    BY GoldenAssumption DEF BookInv, TypeOK, BookEntry
  <1>3. \A e \in Opposite : Best(Opposite, e) => ~Crosses(o, e)
    BY <1>1 DEF LoopEnds
  <1>4. ASSUME o.side = "buy", NEW f \in sells PROVE o.price < f.price
    <2>1. Opposite = sells /\ sells # {}
      BY <1>4 DEF Opposite
    <2>2. PICK b \in sells : Best(sells, b)
      BY <2>1, BestExists
    <2>3. o.price < b.price
      BY <1>1, <1>2, <1>3, <1>4, <2>1, <2>2 DEF Crosses
    <2>4. b.side = "sell"
      BY DEF BookInv, SidesInv
    <2>5. b.price <= f.price
      BY <1>2, <2>2, <2>4 DEF Best, Precedes
    <2>6. QED
      BY <1>1, <1>2, <2>3, <2>5
  <1>5. ASSUME o.side # "buy", NEW f \in buys PROVE f.price < o.price
    <2>1. Opposite = buys /\ buys # {} /\ o.side = "sell"
      BY <1>1, <1>5 DEF Opposite
    <2>2. PICK b \in buys : Best(buys, b)
      BY <2>1, BestExists
    <2>3. b.price < o.price
      BY <1>1, <1>2, <1>3, <2>1, <2>2 DEF Crosses
    <2>4. b.side = "buy"
      BY DEF BookInv, SidesInv
    <2>5. f.price <= b.price
      BY <1>2, <2>2, <2>4 DEF Best, Precedes
    <2>6. QED
      BY <1>1, <1>2, <2>3, <2>5
  <1>6. QED
    BY <1>4, <1>5

\* The remainder that rests keeps the invariant: its id is new, and so is its
\* arrival number.
LEMMA FinishBook ==
    ASSUME BookInv, Finish
    PROVE  BookInv'
  <1> DEFINE o == taker.order
             rests == o.kind = "limit" /\ taker.remaining > 0
             entry == [id |-> o.id, side |-> o.side, price |-> o.price,
                       seq |-> seq, rem |-> taker.remaining]
             g == [id |-> o.id, price |-> taker.price, qty |-> taker.qty,
                   ok |-> o.kind = "limit" \/ taker.qty > 0]
             B == buys \cup sells
  <1> USE DEF BookInv
  <1>1. /\ Busy /\ LoopEnds
        /\ buys' = IF rests /\ o.side = "buy" THEN buys \cup {entry} ELSE buys
        /\ sells' = IF rests /\ o.side # "buy" THEN sells \cup {entry} ELSE sells
        /\ index' = IF rests THEN index \cup {o.id} ELSE index
        /\ fills' = Append(fills, g)
        /\ taker' = Idle /\ before' = {} /\ seq' = seq
    BY DEF Finish
  <1>2. taker \in Taker /\ ~Busy'
    BY <1>1 DEF TypeOK, Busy
  <1>3. /\ o \in Order /\ taker.remaining \in Int /\ taker.qty \in Int
        /\ taker.price \in Prices \cup {0}
    BY <1>2 DEF Taker
  <1>4. /\ o.id \in Ids /\ o.side \in {"buy", "sell"} /\ o.price \in Prices
        /\ o.price \in Int
    BY <1>3, GoldenAssumption DEF Order
  <1>5. g \in GoldenFill /\ g.id = o.id
    <2>1. (o.kind = "limit" \/ taker.qty > 0) \in BOOLEAN
      BY Zenon
    <2>2. QED
      BY <1>3, <1>4, <2>1 DEF GoldenFill
  <1>6. /\ entry.id = o.id /\ entry.side = o.side /\ entry.price = o.price
        /\ entry.seq = seq /\ entry.rem = taker.remaining
    OBVIOUS
  <1>7. /\ fills' \in Seq(GoldenFill)
        /\ \E i \in 1..Len(fills') : fills'[i].id = o.id
    BY <1>1, <1>5, AppendAnswer
  <1>8. ASSUME NEW e \in B PROVE e.id # o.id
    BY <1>1 DEF TakerInv, AnsweredInv
  <1>9. ~Rejected(o)
    BY <1>1 DEF TakerInv
  <1>10. B' = IF rests THEN B \cup {entry} ELSE B
    BY <1>1, Zenon
  <1>11. seq \in Nat /\ entry \in BookEntry
    BY <1>3, <1>4 DEF TypeOK, BookEntry
  <1>12. rests => entry.rem > 0 /\ entry.price > 0
    BY <1>4, <1>9 DEF Rejected
  <1> HIDE DEF g, entry
  <1>13. TypeOK'
    <2>1. buys' \subseteq BookEntry /\ sells' \subseteq BookEntry
      BY <1>1, <1>11 DEF TypeOK
    <2>2. \A e \in B' : e.rem > 0 /\ e.price > 0
      BY <1>10, <1>12 DEF TypeOK
    <2>3. index' \subseteq Ids
      BY <1>1, <1>4 DEF TypeOK
    <2>4. QED
      BY <1>1, <1>7, <1>11, <2>1, <2>2, <2>3 DEF TypeOK
  <1>14. SidesInv'
    BY <1>1, <1>4, <1>6 DEF SidesInv
  <1>15. IndexIsBook'
    BY <1>1, <1>6, <1>8, <1>10 DEF IndexIsBook
  <1>16. AnsweredInv'
    <2>1. \A e \in B : \E i \in 1..Len(fills') : fills'[i].id = e.id
      BY <1>1, <1>5, StillAnswered
    <2>2. QED
      BY <1>6, <1>7, <1>10, <2>1 DEF AnsweredInv
  <1>17. TakerInv'
    BY <1>2 DEF TakerInv
  <1>18. SeqInv'
    <2>1. \A e \in B : e.seq \in Nat /\ e.seq < seq
      BY <1>1 DEF SeqInv, TypeOK, BookEntry
    <2>2. \A e \in B' : e.seq <= seq
      BY <1>6, <1>10, <1>11, <2>1
    <2>3. \A e, f \in B' : e.seq = f.seq => e = f
      BY <1>6, <1>10, <1>11, <2>1 DEF SeqInv
    <2>4. QED
      BY <1>1, <1>2, <2>2, <2>3 DEF SeqInv
  <1>19. BidsBounded'
    <2>1. PICK m \in Prices \cup {0} : \A e \in buys : e.price <= m
      BY DEF BidsBounded
    <2>2. m \in Int
      BY GoldenAssumption
    <2>3. \A e \in buys : e.price \in Int
      BY GoldenAssumption DEF TypeOK, BookEntry
    <2>4. CASE rests /\ o.side = "buy"
      <3>1. buys' = buys \cup {entry}
        BY <1>1, <2>4
      <3>2. CASE o.price <= m
        BY <1>6, <2>1, <3>1, <3>2 DEF BidsBounded
      <3>3. CASE m <= o.price
        <4>1. \A e \in buys' : e.price <= o.price
          BY <1>4, <1>6, <2>1, <2>2, <2>3, <3>1, <3>3
        <4>2. QED
          BY <1>4, <4>1 DEF BidsBounded
      <3>4. QED
        BY <1>4, <2>2, <3>2, <3>3
    <2>5. CASE ~(rests /\ o.side = "buy")
      BY <1>1, <2>5 DEF BidsBounded
    <2>6. QED
      BY <2>4, <2>5
  <1>20. NeverCrossed'
    <2>1. CASE rests
      <3>1. /\ o.side = "buy" => \A f \in sells : o.price < f.price
            /\ o.side # "buy" => \A f \in buys : f.price < o.price
        BY <1>1, <1>2, <2>1, RestUncrossed
      <3>2. QED
        BY <1>1, <1>6, <2>1, <3>1 DEF NeverCrossed
    <2>2. CASE ~rests
      BY <1>1, <2>2 DEF NeverCrossed
    <2>3. QED
      BY <2>1, <2>2
  <1>21. QED
    BY <1>13, <1>14, <1>15, <1>16, <1>17, <1>18, <1>19, <1>20

-----------------------------------------------------------------------------
(* The theorems *)

\* BookInv holds in every state the golden book reaches.
LEMMA BookInductive == Spec => []BookInv
  <1>1. Init => BookInv
    BY InitBook
  <1>2. BookInv /\ [Next]_vars => BookInv'
    <2> SUFFICES ASSUME BookInv, [Next]_vars PROVE BookInv'
      OBVIOUS
    <2>1. ASSUME NEW o \in Order, Reject(o) PROVE BookInv'
      BY <2>1, RejectBook
    <2>2. ASSUME NEW o \in Order, ApplyCancel(o) PROVE BookInv'
      BY <2>2, CancelBook
    <2>3. ASSUME NEW o \in Order, Admit(o) PROVE BookInv'
      BY <2>3, AdmitBook
    <2>4. CASE MatchBest
      BY <2>4, MatchBook
    <2>5. CASE Finish
      BY <2>5, FinishBook
    <2>6. CASE UNCHANGED vars
      BY <2>6 DEF vars, BookInv, TypeOK, SidesInv, IndexIsBook, AnsweredInv,
                  TakerInv, SeqInv, BidsBounded, NeverCrossed, Busy
    <2>7. QED
      BY <2>1, <2>2, <2>3, <2>4, <2>5, <2>6 DEF Next
  <1>3. QED
    BY <1>1, <1>2, PTL DEF Spec

\* Whatever prices and quantities arrive, zero and negative ones included,
\* every value keeps its type, and a resting entry has a positive price and
\* positive units left (applyLimit's early returns and the exact subtraction
\* of the loop).
THEOREM GoldenTypeCorrect == Spec => []TypeOK
  BY BookInductive, PTL DEF BookInv

\* The index map and the two sides never disagree, also in the middle of the
\* loop: applyCancel may trust the index alone.
THEOREM IndexCorrect == Spec => []IndexIsBook
  BY BookInductive, PTL DEF BookInv

\* The golden book is never crossed: the loop's break on the best entry is
\* enough, because the best entry exists and every other one is no better.
THEOREM UncrossedCorrect == Spec => []NeverCrossed
  BY BookInductive, PTL DEF BookInv

-----------------------------------------------------------------------------
(* The loop invariant *)

\* The book a taker finds.
Sound(B) == /\ IsFiniteSet(B) /\ B \subseteq BookEntry
            /\ \A e \in B : e.rem > 0 /\ e.price > 0
            /\ \A e, f \in B : e.seq = f.seq => e = f

\* e is what is left of f.
Kin(e, f) == /\ e.id = f.id /\ e.side = f.side /\ e.price = f.price
             /\ e.seq = f.seq /\ e.rem <= f.rem

\* The entries of B opposite to o that are used up when O is left of them.
Used(B, O, o) == {f \in B : f.side # o.side /\ \A e \in O : e.seq # f.seq}

\* The price of the last entry of U, zero if there is none.
LastPrice(U, p) ==
    \/ U = {} /\ p = 0
    \/ \E f \in U : p = f.price /\ \A g \in U \ {f} : Precedes(g, f)

\* O is what order o has left of the opposite side of B after it took q units,
\* the last of them at price p: used-up entries come first, at most the best
\* remaining entry is partly used, and both add up to q.
Loop(B, O, o, q, p) ==
    LET U == Used(B, O, o) IN
    /\ \A e \in O : /\ e \in BookEntry /\ e.side # o.side /\ e.rem > 0
                    /\ \E f \in B : Kin(e, f)
                    /\ e \in B \/ (Best(O, e) /\ Crosses(o, e) /\ p = e.price)
    /\ \A e, f \in O : e.seq = f.seq => e = f
    /\ \A f \in U : Crosses(o, f) /\ \A e \in O : Precedes(f, e)
    /\ O = {} => q = Abstract!Volume(U)
    /\ \A e \in O : \A f \in B :
          Best(O, e) /\ Kin(e, f) => q = Abstract!Volume(U) + f.rem - e.rem
    /\ O \subseteq B => LastPrice(U, p)

\* The state of the matching loop.
LoopInv ==
    /\ IsFiniteSet(buys \cup sells)
    /\ Busy =>
        /\ Sound(before) /\ Len(fills) < MaxOrders
        /\ {e \in buys \cup sells : e.side = taker.order.side}
              = {e \in before : e.side = taker.order.side}
        /\ Loop(before, Opposite, taker.order, taker.qty, taker.price)
        /\ taker.remaining = taker.order.qty - taker.qty
        /\ taker.remaining >= 0

-----------------------------------------------------------------------------
(* Price-time priority *)

\* Entries of one side are totally ordered by Precedes, and a better entry
\* crosses whenever a worse one does.
LEMMA Priority ==
    ASSUME NEW e \in BookEntry, NEW f \in BookEntry, e.side = f.side
    PROVE  /\ ~(Precedes(e, f) /\ Precedes(f, e))
           /\ e.seq # f.seq => Precedes(e, f) \/ Precedes(f, e)
           /\ \A g \in BookEntry : g.side = f.side /\ Precedes(e, f) /\ Precedes(f, g)
                                   => Precedes(e, g)
           /\ \A o \in Order : e.side # o.side /\ Precedes(e, f) /\ Crosses(o, f)
                               => Crosses(o, e)
  <1>1. e.price \in Int /\ f.price \in Int /\ e.seq \in Nat /\ f.seq \in Nat
        /\ e.side \in {"buy", "sell"}
    BY GoldenAssumption DEF BookEntry
  <1>2. \A g \in BookEntry : g.price \in Int /\ g.seq \in Nat
    BY GoldenAssumption DEF BookEntry
  <1>3. \A o \in Order : o.price \in Int /\ o.side \in {"buy", "sell"}
    BY GoldenAssumption DEF Order
  <1>4. ~(Precedes(e, f) /\ Precedes(f, e))
    BY <1>1 DEF Precedes
  <1>5. e.seq # f.seq => Precedes(e, f) \/ Precedes(f, e)
    BY <1>1 DEF Precedes
  <1>6. ASSUME NEW g \in BookEntry, g.side = f.side, Precedes(e, f), Precedes(f, g)
        PROVE  Precedes(e, g)
    BY <1>1, <1>2, <1>6 DEF Precedes
  <1>7. ASSUME NEW o \in Order, e.side # o.side, Precedes(e, f), Crosses(o, f)
        PROVE  Crosses(o, e)
    BY <1>1, <1>3, <1>7 DEF Precedes, Crosses
  <1>8. QED
    BY <1>4, <1>5, <1>6, <1>7

\* What is left of an entry has the entry's priority.
LEMMA KinPriority ==
    ASSUME NEW e, NEW f, NEW e2, NEW f2, Kin(e, e2), Kin(f, f2)
    PROVE  /\ Precedes(e, f) <=> Precedes(e2, f2)
           /\ Precedes(e, f) <=> Precedes(e2, f)
           /\ \A o : Crosses(o, e) <=> Crosses(o, e2)
  BY DEF Kin, Precedes, Crosses

-----------------------------------------------------------------------------
(* Volume *)

\* The units of a set of entries.
Units(S) == UNION {{e.seq} \X (1..e.rem) : e \in S}

LEMMA UnitsOfEntry ==
    ASSUME NEW f \in BookEntry, f.rem > 0
    PROVE  /\ IsFiniteSet({f.seq} \X (1..f.rem))
           /\ Cardinality({f.seq} \X (1..f.rem)) = f.rem
  <1>1. f.rem \in Int /\ 1 \in Int
    BY DEF BookEntry
  <1>2. IsFiniteSet(1..f.rem) /\ Cardinality(1..f.rem) = IF 1 > f.rem THEN 0 ELSE f.rem - 1 + 1
    BY <1>1, FS_Interval, Zenon
  <1>3. IsFiniteSet({f.seq}) /\ Cardinality({f.seq}) = 1
    BY FS_Singleton, Zenon
  <1>4. IsFiniteSet({f.seq} \X (1..f.rem))
        /\ Cardinality({f.seq} \X (1..f.rem)) = Cardinality({f.seq}) * Cardinality(1..f.rem)
    BY <1>2, <1>3, FS_Product, Zenon
  <1>5. Cardinality(1..f.rem) = f.rem
    BY <1>1, <1>2
  <1>6. QED
    BY <1>1, <1>3, <1>4, <1>5

\* The cardinality of the abstract module is the one of FiniteSets.
LEMMA SameCardinality == \A S : Abstract!Cardinality(S) = Cardinality(S)
  BY DEF Abstract!Cardinality, Cardinality

LEMMA UnitsFinite ==
    ASSUME NEW B, Sound(B), NEW S, S \subseteq B
    PROVE  IsFiniteSet(Units(S)) /\ Abstract!Volume(S) = Cardinality(Units(S))
  <1> DEFINE T == {{e.seq} \X (1..e.rem) : e \in S}
             g == [e \in S |-> {e.seq} \X (1..e.rem)]
  <1>1. IsFiniteSet(S)
    BY FS_Subset DEF Sound
  <1>2. g \in Surjection(S, T)
    BY DEF Surjection
  <1>3. IsFiniteSet(T)
    <2> HIDE DEF g, T
    <2>1. QED
      BY <1>1, <1>2, FS_Surjection
  <1>4. ASSUME NEW t \in T PROVE IsFiniteSet(t)
    <2>1. PICK e \in S : t = {e.seq} \X (1..e.rem)
      OBVIOUS
    <2>2. QED
      BY <2>1, UnitsOfEntry DEF Sound
  <1>5. IsFiniteSet(UNION T)
    <2> HIDE DEF T
    <2>1. QED
      BY <1>3, <1>4, FS_UNION
  <1>6. QED
    BY <1>5, SameCardinality DEF Units, Abstract!Volume

LEMMA VolumeType ==
    ASSUME NEW B, Sound(B), NEW S, S \subseteq B
    PROVE  Abstract!Volume(S) \in Nat
  BY UnitsFinite, FS_CardinalityType

LEMMA VolumeGrows ==
    ASSUME NEW B, Sound(B), NEW S, NEW T, S \subseteq T, T \subseteq B
    PROVE  Abstract!Volume(S) <= Abstract!Volume(T)
  <1>1. S \subseteq B /\ Units(S) \subseteq Units(T)
    BY DEF Units
  <1>2. /\ IsFiniteSet(Units(T)) /\ Abstract!Volume(T) = Cardinality(Units(T))
        /\ Abstract!Volume(S) = Cardinality(Units(S))
    BY <1>1, UnitsFinite
  <1>3. QED
    BY <1>1, <1>2, FS_Subset

\* One more entry adds its remaining units.
LEMMA VolumeAdds ==
    ASSUME NEW B, Sound(B), NEW S, S \subseteq B, NEW f \in B \ S
    PROVE  Abstract!Volume(S \cup {f}) = Abstract!Volume(S) + f.rem
  <1> DEFINE F == {f.seq} \X (1..f.rem)
  <1>1. f \in BookEntry /\ f.rem > 0 /\ S \cup {f} \subseteq B /\ f.rem \in Int
    BY DEF Sound, BookEntry
  <1>2. IsFiniteSet(F) /\ Cardinality(F) = f.rem
    BY <1>1, UnitsOfEntry
  <1>3. IsFiniteSet(Units(S)) /\ Abstract!Volume(S) = Cardinality(Units(S))
        /\ Abstract!Volume(S \cup {f}) = Cardinality(Units(S \cup {f}))
    BY <1>1, UnitsFinite
  <1>4. Units(S \cup {f}) = Units(S) \cup F
    BY DEF Units
  <1>5. Units(S) \cap F = {}
    <2>1. \A e \in S : e.seq # f.seq
      BY DEF Sound
    <2>2. ASSUME NEW x \in Units(S), x \in F PROVE FALSE
      <3>1. PICK e \in S : x \in {e.seq} \X (1..e.rem)
        BY <2>2 DEF Units
      <3>2. x[1] = e.seq /\ x[1] = f.seq
        BY <2>2, <3>1
      <3>3. QED
        BY <2>1, <3>2
    <2>3. QED
      BY <2>2
  <1> HIDE DEF F
  <1>6. Cardinality(Units(S) \cup F)
          = Cardinality(Units(S)) + Cardinality(F) - Cardinality(Units(S) \cap F)
    BY <1>2, <1>3, FS_Union
  <1>7. Cardinality(Units(S) \cap F) = 0 /\ Cardinality(Units(S)) \in Nat
    BY <1>3, <1>5, FS_EmptySet, FS_CardinalityType
  <1>8. Abstract!Volume(S \cup {f}) = Cardinality(Units(S) \cup F)
    BY <1>3, <1>4
  <1> HIDE DEF Units
  <1>9. PICK c \in Nat : c = Cardinality(Units(S))
    BY <1>7
  <1>10. Cardinality(Units(S) \cup F) = c + f.rem - 0
    BY <1>2, <1>6, <1>7, <1>9
  <1>11. QED
    BY <1>1, <1>3, <1>8, <1>9, <1>10

-----------------------------------------------------------------------------
(* One turn of the loop *)

\* No two entries are the best.
LEMMA BestIsOne ==
    ASSUME NEW O, NEW e, NEW f, Best(O, e), Best(O, f), e \in BookEntry, f \in BookEntry,
           e.side = f.side
    PROVE  e = f
  BY Priority DEF Best

\* The parts of Loop, by name.
LEMMA LoopParts ==
    ASSUME NEW B, Sound(B), NEW O, NEW o \in Order, NEW q, NEW p, Loop(B, O, o, q, p)
    PROVE  /\ \A e \in O : /\ e \in BookEntry /\ e.side # o.side /\ e.rem > 0
                           /\ e.rem \in Int /\ e.side = (IF o.side = "buy" THEN "sell" ELSE "buy")
                           /\ \E f \in B : Kin(e, f)
                           /\ e \in B \/ (Best(O, e) /\ Crosses(o, e) /\ p = e.price)
           /\ \A f \in B : /\ f \in BookEntry /\ f.rem \in Int /\ f.rem > 0
                           /\ f.side # o.side =>
                                 f.side = (IF o.side = "buy" THEN "sell" ELSE "buy")
           /\ Used(B, O, o) \subseteq B
           /\ Abstract!Volume(Used(B, O, o)) \in Nat
  <1>1. \A e \in BookEntry : e.rem \in Int /\ e.side \in {"buy", "sell"}
    BY DEF BookEntry
  <1>2. o.side \in {"buy", "sell"}
    BY DEF Order
  <1>3. Used(B, O, o) \subseteq B
    BY DEF Used
  <1>4. \A f \in B : f \in BookEntry /\ f.rem > 0
    BY DEF Sound
  <1>5. \A e \in O : /\ e \in BookEntry /\ e.side # o.side /\ e.rem > 0
                     /\ \E f \in B : Kin(e, f)
                     /\ e \in B \/ (Best(O, e) /\ Crosses(o, e) /\ p = e.price)
    BY DEF Loop
  <1>6. \A e \in BookEntry : e.side # o.side =>
           e.side = (IF o.side = "buy" THEN "sell" ELSE "buy")
    BY <1>1, <1>2
  <1>7. QED
    BY <1>1, <1>3, <1>4, <1>5, <1>6, VolumeType

\* The turn of the loop that takes m units of the best entry.
LEMMA LoopTurn ==
    ASSUME NEW B, Sound(B), NEW O, NEW o \in Order, NEW q \in Int, NEW p, Loop(B, O, o, q, p),
           NEW e \in O, Best(O, e), Crosses(o, e), NEW m \in Int, m > 0, m <= e.rem
    PROVE  Loop(B, TakeFrom(O, e, m), o, q + m, e.price)
  <1> DEFINE U  == Used(B, O, o)
             O2 == TakeFrom(O, e, m)
             U2 == Used(B, O2, o)
             v  == Abstract!Volume(U)
  <1>0. /\ \A g \in O : /\ g \in BookEntry /\ g.side # o.side /\ g.rem > 0
                        /\ g.rem \in Int /\ g.side = (IF o.side = "buy" THEN "sell" ELSE "buy")
                        /\ \E h \in B : Kin(g, h)
                        /\ g \in B \/ (Best(O, g) /\ Crosses(o, g) /\ p = g.price)
        /\ \A h \in B : /\ h \in BookEntry /\ h.rem \in Int /\ h.rem > 0
                        /\ h.side # o.side =>
                              h.side = (IF o.side = "buy" THEN "sell" ELSE "buy")
        /\ Used(B, O, o) \subseteq B
        /\ Abstract!Volume(Used(B, O, o)) \in Nat
    BY LoopParts, Zenon
  <1>1. PICK f \in B : Kin(e, f)
    BY <1>0
  <1>2. /\ e.rem \in Int /\ f.rem \in Int /\ e.rem > 0 /\ e.rem <= f.rem /\ v \in Nat
        /\ f.side = e.side /\ f.seq = e.seq /\ f.price = e.price /\ f.side # o.side
        /\ e \in BookEntry /\ f \in BookEntry
    BY <1>1, <1>0 DEF Kin
  <1>3. f \notin U /\ U \subseteq B
    BY <1>2, <1>0 DEF Used
  <1>4. q = v + f.rem - e.rem
    BY <1>1 DEF Loop
  <1>5. ASSUME NEW g \in O \ {e} PROVE g \in B
    <2>1. g.side = e.side /\ g \in BookEntry
      BY <1>0
    <2>2. QED
      BY <1>2, <2>1, <1>0, BestIsOne
  <1>6. \A g, h \in O : g.seq = h.seq => g = h
    BY DEF Loop
  <1>7. \A h \in U : Crosses(o, h) /\ \A g \in O : Precedes(h, g)
    BY DEF Loop
  <1>8. \A g \in O \ {e} : Precedes(e, g) /\ Precedes(f, g)
    BY <1>1 DEF Best, Precedes, Kin
  <1>9. Crosses(o, f) /\ \A h \in U : Precedes(h, f)
    BY <1>1, <1>7 DEF Kin, Crosses, Precedes
  <1>10. CASE e.rem = m
    <2>1. O2 = O \ {e}
      BY <1>10 DEF TakeFrom
    <2>2. U2 = U \cup {f}
      <3>1. ASSUME NEW h \in U2 PROVE h \in U \cup {f}
        <4>1. h \in B /\ h.side # o.side /\ \A x \in O \ {e} : x.seq # h.seq
          BY <2>1 DEF Used
        <4>2. CASE h.seq = e.seq
          BY <1>2, <4>1, <4>2 DEF Sound
        <4>3. CASE h.seq # e.seq
          BY <4>1, <4>3 DEF Used
        <4>4. QED
          BY <4>2, <4>3
      <3>2. f \in U2
        BY <1>2, <1>6, <2>1 DEF Used
      <3>3. U \subseteq U2
        BY <2>1 DEF Used
      <3>4. QED
        BY <3>1, <3>2, <3>3
    <2>3. Abstract!Volume(U2) = v + f.rem
      BY <1>3, <2>2, VolumeAdds
    <2> HIDE DEF U, U2, O2, v
    <2>4. q + m = v + f.rem
      BY <1>2, <1>4, <1>10
    <2>5. \A g \in O2 : /\ g \in BookEntry /\ g.side # o.side /\ g.rem > 0
                        /\ \E h \in B : Kin(g, h)
                        /\ g \in B
      BY <1>5, <2>1, <1>0
    <2>6. \A h \in U2 : Crosses(o, h) /\ \A g \in O2 : Precedes(h, g)
      BY <1>7, <1>8, <1>9, <2>1, <2>2
    <2>7. ASSUME NEW g \in O2, NEW h \in B, Kin(g, h)
          PROVE  q + m = Abstract!Volume(U2) + h.rem - g.rem
      <3>1. g = h
        BY <2>5, <2>7 DEF Kin, Sound
      <3>2. h.rem \in Int
        BY <1>0
      <3>3. QED
        BY <1>2, <2>3, <2>4, <3>1, <3>2
    <2>8. LastPrice(U2, e.price)
      BY <1>2, <1>9, <2>2 DEF LastPrice
    <2>9. \A g, h \in O2 : g.seq = h.seq => g = h
      BY <1>6, <2>1
    <2>10. QED
      BY <2>3, <2>4, <2>5, <2>6, <2>7, <2>8, <2>9 DEF Loop, U2, O2
  <1>11. CASE e.rem # m
    <2> DEFINE e2 == [e EXCEPT !.rem = @ - m]
    <2>1. O2 = (O \ {e}) \cup {e2}
      BY <1>11 DEF TakeFrom
    <2>2. /\ e2.id = e.id /\ e2.side = e.side /\ e2.price = e.price /\ e2.seq = e.seq
          /\ e2.rem = e.rem - m /\ e2 \in BookEntry
      BY <1>2 DEF BookEntry
    <2>3. e2.rem \in Int /\ e2.rem > 0 /\ e2.rem < f.rem
      BY <1>2, <1>11, <2>2
    <2> HIDE DEF e2
    <2>4. U2 = U
      BY <2>1, <2>2 DEF Used
    <2>5. Best(O2, e2)
      BY <1>8, <2>1, <2>2 DEF Best, Precedes
    <2>6. Kin(e2, f) /\ Crosses(o, e2)
      BY <1>1, <1>2, <1>9, <2>2, <2>3 DEF Kin, Crosses
    <2> HIDE DEF U, U2, O2, v
    <2>7. \A g \in O2 : /\ g \in BookEntry /\ g.side # o.side /\ g.rem > 0
                        /\ \E h \in B : Kin(g, h)
                        /\ g \in B \/ (Best(O2, g) /\ Crosses(o, g) /\ e.price = g.price)
      <3>1. ASSUME NEW g \in O \ {e}
            PROVE  /\ g \in BookEntry /\ g.side # o.side /\ g.rem > 0
                   /\ \E h \in B : Kin(g, h)
                   /\ g \in B
        BY <1>5, <1>0
      <3>2. QED
        BY <1>2, <2>1, <2>2, <2>3, <2>5, <2>6, <3>1
    <2>8. \A g, h \in O2 : g.seq = h.seq => g = h
      BY <1>6, <2>1, <2>2
    <2>9. \A h \in U2 : Crosses(o, h) /\ \A g \in O2 : Precedes(h, g)
      BY <1>7, <2>1, <2>2, <2>4 DEF Precedes
    <2>10. ASSUME NEW g \in O2, NEW h \in B, Best(O2, g), Kin(g, h)
           PROVE  q + m = Abstract!Volume(U2) + h.rem - g.rem
      <3>1. g.side = e2.side /\ g \in BookEntry
        BY <2>1, <2>2, <1>0
      <3>2. g = e2
        BY <2>2, <2>5, <2>10, <3>1, BestIsOne
      <3>3. h = f
        BY <1>2, <2>2, <2>10, <3>2 DEF Kin, Sound
      <3>4. QED
        BY <1>2, <1>4, <2>2, <2>4, <3>2, <3>3 DEF v
    <2>11. ~(O2 \subseteq B) /\ O2 # {}
      BY <1>2, <2>1, <2>2, <2>3 DEF Sound
    <2>12. QED
      BY <2>7, <2>8, <2>9, <2>10, <2>11 DEF Loop, U2, O2
  <1>12. QED
    BY <1>10, <1>11

-----------------------------------------------------------------------------
(* The loop has ended *)

\* The loop has taken q units of the book B and goes no further.
Done(B, O, o, q, p) ==
    /\ Sound(B) /\ Loop(B, O, o, q, p)
    /\ q \in Int /\ o.qty \in Int /\ q <= o.qty
    /\ q = o.qty \/ \A e \in O : Best(O, e) => ~Crosses(o, e)
    /\ O # {} => \E e \in O : Best(O, e)

\* The entries the order reaches, and those served before f.
Reached(B, o) == {e \in B : e.side # o.side /\ Crosses(o, e)}
Ahead(B, o, f) == {g \in Reached(B, o) : Precedes(g, f)}

\* Taken in the terms of the golden book.
LEMMA TakenIs ==
    ASSUME NEW B, NEW o, NEW f
    PROVE  LET left == o.qty - Abstract!Volume(Ahead(B, o, f))
           IN  /\ Abstract!Reach(B, o) = Reached(B, o)
               /\ Abstract!Taken(B, o, f) =
                    IF f \notin Reached(B, o) \/ left <= 0 THEN 0
                    ELSE IF left < f.rem THEN left ELSE f.rem
  <1>1. Abstract!Reach(B, o) = Reached(B, o)
    BY DEF Abstract!Reach, Reached, Crosses
  <1>2. {g \in Reached(B, o) : Abstract!ServedBefore(g, f)} = Ahead(B, o, f)
    BY DEF Abstract!ServedBefore, Precedes, Ahead
  <1> HIDE DEF Reached, Ahead
  <1>3. QED
    BY <1>1, <1>2 DEF Abstract!Taken

\* What the end of the loop says of the best entry: q is what the used-up
\* entries and it have given, and nobody reaches further if units are wanted.
LEMMA DoneParts ==
    ASSUME NEW B, NEW O, NEW o \in Order, NEW q, NEW p, Done(B, O, o, q, p)
    PROVE  LET U == Used(B, O, o) IN
           /\ U \subseteq Reached(B, o)
           /\ Abstract!Volume(U) \in Nat /\ Abstract!Volume(U) <= q
           /\ q < o.qty => Reached(B, o) = U /\ O \subseteq B /\ q = Abstract!Volume(U)
           /\ \A e \in O : \A f \in B : Kin(e, f) => (e \in B => e = f) /\ f.side # o.side
           /\ \A f \in B : f.side # o.side /\ f \notin U => \E e \in O : Kin(e, f)
  <1> DEFINE U == Used(B, O, o)
             v == Abstract!Volume(U)
  <1>1. Sound(B) /\ Loop(B, O, o, q, p) /\ q \in Int /\ o.qty \in Int /\ q <= o.qty
    BY DEF Done
  <1>2. /\ \A g \in O : /\ g \in BookEntry /\ g.side # o.side /\ g.rem > 0
                        /\ g.rem \in Int /\ g.side = (IF o.side = "buy" THEN "sell" ELSE "buy")
                        /\ \E h \in B : Kin(g, h)
                        /\ g \in B \/ (Best(O, g) /\ Crosses(o, g) /\ p = g.price)
        /\ \A h \in B : /\ h \in BookEntry /\ h.rem \in Int /\ h.rem > 0
                        /\ h.side # o.side =>
                              h.side = (IF o.side = "buy" THEN "sell" ELSE "buy")
        /\ U \subseteq B /\ v \in Nat
    BY <1>1, LoopParts, Zenon
  <1>3. U \subseteq Reached(B, o)
    BY <1>1 DEF Loop, Used, Reached
  <1>4. \A e \in O : \A f \in B : Kin(e, f) => (e \in B => e = f) /\ f.side # o.side
    BY <1>1, <1>2 DEF Kin, Sound
  <1>5. ASSUME NEW f \in B, f.side # o.side, f \notin U PROVE \E e \in O : Kin(e, f)
    <2>1. PICK e \in O : e.seq = f.seq
      BY <1>5 DEF Used
    <2>2. PICK h \in B : Kin(e, h)
      BY <1>2
    <2>3. h = f
      BY <1>1, <2>1, <2>2 DEF Kin, Sound
    <2>4. QED
      BY <2>2, <2>3
  <1>6. ASSUME NEW e \in O, Best(O, e) PROVE \E f \in B : Kin(e, f) /\ q = v + f.rem - e.rem
    BY <1>1, <1>2, <1>6 DEF Loop
  <1>7. O = {} => q = v
    BY <1>1 DEF Loop
  <1>8. v <= q
    <2>1. CASE O = {}
      BY <1>1, <1>2, <1>7, <2>1
    <2>2. CASE O # {}
      <3>1. PICK e \in O : Best(O, e)
        BY <2>2 DEF Done
      <3>2. PICK f \in B : Kin(e, f) /\ q = v + f.rem - e.rem
        BY <1>6, <3>1
      <3>3. e.rem <= f.rem /\ e.rem \in Int /\ f.rem \in Int
        BY <1>2, <3>2 DEF Kin
      <3> HIDE DEF v
      <3>4. QED
        BY <1>1, <1>2, <3>2, <3>3
    <2>3. QED
      BY <2>1, <2>2
  <1>9. ASSUME q < o.qty PROVE Reached(B, o) = U /\ O \subseteq B /\ q = v
    <2>1. \A e \in O : Best(O, e) => ~Crosses(o, e)
      BY <1>1, <1>9 DEF Done
    <2>2. O \subseteq B
      BY <1>2, <2>1
    <2>3. ASSUME NEW e \in O PROVE ~Crosses(o, e)
      <3>1. PICK b \in O : Best(O, b)
        BY DEF Done
      <3>2. CASE e = b
        BY <2>1, <3>1, <3>2
      <3>3. CASE e # b
        <4>1. Precedes(b, e) /\ ~Crosses(o, b)
          BY <2>1, <3>1, <3>3 DEF Best
        <4>2. b \in BookEntry /\ e \in BookEntry /\ b.side = e.side /\ b.side # o.side
          BY <1>2
        <4>3. QED
          BY <4>1, <4>2, Priority
      <3>4. QED
        BY <3>2, <3>3
    <2>4. ASSUME NEW f \in Reached(B, o), f \notin U PROVE FALSE
      <3>1. f \in B /\ f.side # o.side /\ Crosses(o, f)
        BY <2>4 DEF Reached
      <3>2. PICK e \in O : Kin(e, f)
        BY <1>5, <2>4, <3>1
      <3>3. e = f
        BY <1>4, <2>2, <3>1, <3>2
      <3>4. QED
        BY <2>3, <3>1, <3>3
    <2>5. Reached(B, o) = U
      BY <1>3, <2>4
    <2>6. q = v
      <3>1. CASE O = {}
        BY <1>7, <3>1
      <3>2. CASE O # {}
        <4>1. PICK e \in O : Best(O, e)
          BY <3>2 DEF Done
        <4>2. PICK f \in B : Kin(e, f) /\ q = v + f.rem - e.rem
          BY <1>6, <4>1
        <4>3. e = f /\ f.rem \in Int
          BY <1>2, <1>4, <2>2, <4>2
        <4> HIDE DEF v
        <4>4. QED
          BY <1>1, <1>2, <4>2, <4>3
      <3>3. QED
        BY <3>1, <3>2
    <2>7. QED
      BY <2>2, <2>5, <2>6
  <1>10. QED
    BY <1>2, <1>3, <1>4, <1>5, <1>8, <1>9

LEMMA DoneFacts ==
    ASSUME NEW B, NEW O, NEW o \in Order, NEW q, NEW p, Done(B, O, o, q, p)
    PROVE  /\ Sound(B) /\ Loop(B, O, o, q, p) /\ q \in Int /\ o.qty \in Int /\ q <= o.qty
           /\ \A g \in B : /\ g \in BookEntry /\ g.rem \in Int /\ g.rem > 0
                           /\ g.side # o.side =>
                                 g.side = (IF o.side = "buy" THEN "sell" ELSE "buy")
           /\ \A e, g \in B : e.seq = g.seq => e = g
           /\ \A e \in O : /\ e \in BookEntry /\ e.rem \in Int /\ e.rem > 0 /\ e.side # o.side
                           /\ e.side = (IF o.side = "buy" THEN "sell" ELSE "buy")
                           /\ e \in B \/ (Best(O, e) /\ Crosses(o, e) /\ p = e.price)
  <1>1. Sound(B) /\ Loop(B, O, o, q, p) /\ q \in Int /\ o.qty \in Int /\ q <= o.qty
    BY DEF Done
  <1>2. \A e, g \in B : e.seq = g.seq => e = g
    BY <1>1 DEF Sound
  <1>3. /\ \A g \in O : /\ g \in BookEntry /\ g.side # o.side /\ g.rem > 0
                        /\ g.rem \in Int /\ g.side = (IF o.side = "buy" THEN "sell" ELSE "buy")
                        /\ \E h \in B : Kin(g, h)
                        /\ g \in B \/ (Best(O, g) /\ Crosses(o, g) /\ p = g.price)
        /\ \A h \in B : /\ h \in BookEntry /\ h.rem \in Int /\ h.rem > 0
                        /\ h.side # o.side =>
                              h.side = (IF o.side = "buy" THEN "sell" ELSE "buy")
        /\ Used(B, O, o) \subseteq B /\ Abstract!Volume(Used(B, O, o)) \in Nat
    BY <1>1, LoopParts, Zenon
  <1>4. QED
    BY <1>1, <1>2, <1>3

\* A used-up entry gave all it had: those served before it are used up too.
LEMMA TakenUsed ==
    ASSUME NEW B, NEW O, NEW o \in Order, NEW q, NEW p, Done(B, O, o, q, p),
           NEW f \in Used(B, O, o)
    PROVE  Abstract!Taken(B, o, f) = f.rem
  <1> DEFINE U == Used(B, O, o)
             v == Abstract!Volume(U)
             A == Ahead(B, o, f)
  <1>1. /\ Sound(B) /\ Loop(B, O, o, q, p) /\ q \in Int /\ o.qty \in Int /\ q <= o.qty
        /\ \A g \in B : /\ g \in BookEntry /\ g.rem \in Int /\ g.rem > 0
                        /\ g.side # o.side =>
                              g.side = (IF o.side = "buy" THEN "sell" ELSE "buy")
        /\ \A e, g \in B : e.seq = g.seq => e = g
        /\ \A e \in O : /\ e \in BookEntry /\ e.rem \in Int /\ e.rem > 0 /\ e.side # o.side
                        /\ e.side = (IF o.side = "buy" THEN "sell" ELSE "buy")
                        /\ e \in B \/ (Best(O, e) /\ Crosses(o, e) /\ p = e.price)
    BY DoneFacts
  <1>2. /\ U \subseteq Reached(B, o) /\ U \subseteq B /\ Reached(B, o) \subseteq B
        /\ v \in Nat /\ v <= q
        /\ q < o.qty => Reached(B, o) = U /\ O \subseteq B /\ q = v
        /\ \A e \in O : \A g \in B : Kin(e, g) => (e \in B => e = g) /\ g.side # o.side
        /\ \A g \in B : g.side # o.side /\ g \notin U => \E e \in O : Kin(e, g)
    <2>1. Reached(B, o) \subseteq B
      BY DEF Reached
    <2>2. U \subseteq B
      BY DEF Used
    <2>3. QED
      BY <2>1, <2>2, DoneParts
  <1>3. A \subseteq U \ {f}
    <2>1. ASSUME NEW g \in A PROVE g \in U /\ g # f
      <3>1. g \in B /\ g.side # o.side /\ Precedes(g, f)
        BY DEF Ahead, Reached
      <3>2. f \in B /\ f.side # o.side
        BY <1>2 DEF Used
      <3>3. g \in BookEntry /\ f \in BookEntry /\ g.side = f.side
        BY <1>1, <3>1, <3>2
      <3>4. ~Precedes(f, g) /\ g # f
        BY <3>1, <3>3, Priority
      <3>5. ASSUME g \notin U PROVE FALSE
        <4>1. PICK e \in O : Kin(e, g)
          BY <1>2, <3>1, <3>5
        <4>2. Precedes(f, e)
          BY <1>1 DEF Loop
        <4>3. QED
          BY <3>4, <4>1, <4>2 DEF Kin, Precedes
      <3>6. QED
        BY <3>4, <3>5
    <2>2. QED
      BY <2>1
  <1>4. f \in B /\ U \ {f} \subseteq B /\ (U \ {f}) \cup {f} = U /\ f \in B \ (U \ {f})
    BY <1>2
  <1>5. v = Abstract!Volume(U \ {f}) + f.rem
    <2> HIDE DEF U
    <2>1. Abstract!Volume((U \ {f}) \cup {f}) = Abstract!Volume(U \ {f}) + f.rem
      BY <1>1, <1>4, VolumeAdds
    <2>2. QED
      BY <1>4, <2>1
  <1>6. Abstract!Volume(A) <= Abstract!Volume(U \ {f})
    <2> HIDE DEF U, A
    <2>1. QED
      BY <1>1, <1>3, <1>4, VolumeGrows
  <1>7. Abstract!Volume(A) \in Nat /\ Abstract!Volume(U \ {f}) \in Nat
    <2>1. A \subseteq B
      BY <1>3, <1>4
    <2> HIDE DEF U, A
    <2>2. QED
      BY <1>1, <1>4, <2>1, VolumeType
  <1>8. f \in Reached(B, o) /\ f.rem \in Int /\ f.rem > 0
    BY <1>1, <1>2
  <1>9. Abstract!Taken(B, o, f) =
           IF f \notin Reached(B, o) \/ o.qty - Abstract!Volume(A) <= 0 THEN 0
           ELSE IF o.qty - Abstract!Volume(A) < f.rem THEN o.qty - Abstract!Volume(A) ELSE f.rem
    BY TakenIs
  <1> HIDE DEF A, U, v
  <1>10. QED
    BY <1>1, <1>2, <1>5, <1>6, <1>7, <1>8, <1>9

\* An entry that is left gave what is missing of it.
LEMMA TakenLeft ==
    ASSUME NEW B, NEW O, NEW o \in Order, NEW q, NEW p, Done(B, O, o, q, p),
           NEW e \in O, NEW f \in B, Kin(e, f)
    PROVE  Abstract!Taken(B, o, f) = f.rem - e.rem
  <1> DEFINE U == Used(B, O, o)
             v == Abstract!Volume(U)
             A == Ahead(B, o, f)
             a == Abstract!Volume(A)
  <1>1. /\ Sound(B) /\ Loop(B, O, o, q, p) /\ q \in Int /\ o.qty \in Int /\ q <= o.qty
        /\ \A g \in B : /\ g \in BookEntry /\ g.rem \in Int /\ g.rem > 0
                        /\ g.side # o.side =>
                              g.side = (IF o.side = "buy" THEN "sell" ELSE "buy")
        /\ \A d, g \in B : d.seq = g.seq => d = g
        /\ \A d \in O : /\ d \in BookEntry /\ d.rem \in Int /\ d.rem > 0 /\ d.side # o.side
                        /\ d.side = (IF o.side = "buy" THEN "sell" ELSE "buy")
                        /\ d \in B \/ (Best(O, d) /\ Crosses(o, d) /\ p = d.price)
    BY DoneFacts
  <1>2. /\ U \subseteq Reached(B, o) /\ U \subseteq B /\ Reached(B, o) \subseteq B
        /\ v \in Nat /\ v <= q
        /\ q < o.qty => Reached(B, o) = U /\ O \subseteq B /\ q = v
        /\ \A d \in O : \A g \in B : Kin(d, g) => (d \in B => d = g) /\ g.side # o.side
        /\ \A g \in B : g.side # o.side /\ g \notin U => \E d \in O : Kin(d, g)
    <2>1. Reached(B, o) \subseteq B
      BY DEF Reached
    <2>2. U \subseteq B
      BY DEF Used
    <2>3. QED
      BY <2>1, <2>2, DoneParts
  <1>3. /\ f.side # o.side /\ e.seq = f.seq /\ e.rem <= f.rem /\ f \in BookEntry
        /\ f.rem \in Int /\ e.rem \in Int /\ e.rem > 0 /\ f \notin U
    BY <1>1, <1>2 DEF Kin, Used
  <1>4. Abstract!Taken(B, o, f) =
           IF f \notin Reached(B, o) \/ o.qty - a <= 0 THEN 0
           ELSE IF o.qty - a < f.rem THEN o.qty - a ELSE f.rem
    BY TakenIs
  <1>5. A \subseteq B /\ a \in Nat
    <2>1. A \subseteq B
      BY <1>2 DEF Ahead
    <2> HIDE DEF A
    <2>2. QED
      BY <1>1, <2>1, VolumeType
  <1>6. U \subseteq A
    <2>1. ASSUME NEW g \in U PROVE Precedes(g, f)
      <3>1. Precedes(g, e)
        BY <1>1 DEF Loop
      <3>2. QED
        BY <3>1 DEF Kin, Precedes
    <2>2. QED
      BY <1>2, <2>1 DEF Ahead
  <1>7. Crosses(o, e) <=> Crosses(o, f)
    BY DEF Kin, Crosses
  <1>8. CASE f \notin Reached(B, o)
    <2>1. ~Crosses(o, e)
      BY <1>3, <1>7, <1>8 DEF Reached
    <2>2. e = f
      BY <1>1, <1>2, <2>1
    <2>3. QED
      BY <1>3, <1>4, <1>8, <2>2
  <1>9. CASE f \in Reached(B, o) /\ Best(O, e)
    <2>1. q = o.qty
      <3>1. q < o.qty => f \in U
        BY <1>2, <1>9
      <3>2. QED
        BY <1>1, <1>3, <3>1
    <2>2. A \subseteq U
      <3>1. ASSUME NEW g \in A, g \notin U PROVE FALSE
        <4>1. g \in B /\ g.side # o.side /\ Precedes(g, f)
          BY DEF Ahead, Reached
        <4>2. PICK d \in O : Kin(d, g)
          BY <1>2, <3>1, <4>1
        <4>3. g \in BookEntry /\ g.side = f.side
          BY <1>1, <1>3, <4>1
        <4>4. ~Precedes(f, g)
          BY <1>3, <4>1, <4>3, Priority
        <4>5. d # e
          <5>1. d = e => g = f
            BY <1>1, <1>3, <4>1, <4>2 DEF Kin
          <5>2. QED
            BY <4>1, <4>4, <5>1
        <4>6. Precedes(e, d)
          BY <1>9, <4>5 DEF Best
        <4>7. QED
          BY <4>2, <4>4, <4>6 DEF Kin, Precedes
      <3>2. QED
        BY <3>1
    <2>3. A = U
      BY <1>6, <2>2
    <2>4. a = v
      BY <2>3
    <2>5. q = v + f.rem - e.rem
      BY <1>1, <1>9 DEF Loop
    <2> HIDE DEF a, v
    <2>6. QED
      BY <1>1, <1>2, <1>3, <1>4, <1>9, <2>1, <2>4, <2>5
  <1>10. CASE f \in Reached(B, o) /\ ~Best(O, e)
    <2>1. e = f
      BY <1>1, <1>2, <1>10
    <2>2. PICK b \in O : Best(O, b)
      BY DEF Done
    <2>3. PICK h \in B : Kin(b, h)
      BY <1>1 DEF Loop
    <2>4. q = v + h.rem - b.rem
      BY <1>1, <2>2, <2>3 DEF Loop
    <2>5. Precedes(b, e) /\ b # e
      BY <1>10, <2>2 DEF Best
    <2>6. Precedes(h, f) /\ h \in BookEntry /\ h.side # o.side /\ h.side = f.side
      <3>1. h.side # o.side /\ h \in BookEntry
        BY <1>1, <1>2, <2>3
      <3>2. QED
        BY <1>1, <1>3, <2>3, <2>5, <3>1 DEF Kin, Precedes
    <2>7. h \in Reached(B, o)
      <3>1. Crosses(o, f)
        BY <1>10 DEF Reached
      <3>2. Crosses(o, h)
        BY <1>3, <2>6, <3>1, Priority
      <3>3. QED
        BY <2>6, <3>2 DEF Reached
    <2>8. h \in A /\ h \notin U
      BY <2>3, <2>6, <2>7 DEF Ahead, Used, Kin
    <2>9. U \cup {h} \subseteq A
      BY <1>6, <2>8
    <2>10. Abstract!Volume(U \cup {h}) = v + h.rem
      <3> HIDE DEF U
      <3>1. QED
        BY <1>1, <1>2, <2>8, VolumeAdds
    <2>11. v + h.rem <= a
      <3>1. Abstract!Volume(U \cup {h}) <= a
        <4> HIDE DEF U, A
        <4>1. QED
          BY <1>1, <1>5, <2>9, VolumeGrows DEF a
      <3>2. QED
        BY <2>10, <3>1
    <2>12. q = o.qty
      <3>1. q < o.qty => f \in U
        BY <1>2, <1>10
      <3>2. QED
        BY <1>1, <1>3, <3>1
    <2>13. b.rem \in Int /\ b.rem > 0 /\ h.rem \in Int
      BY <1>1
    <2> HIDE DEF a, v
    <2>14. o.qty - a <= 0
      BY <1>1, <1>2, <1>5, <2>4, <2>11, <2>12, <2>13
    <2>15. QED
      BY <1>3, <1>4, <2>1, <2>14
  <1>11. QED
    BY <1>8, <1>9, <1>10

\* The order leaves its own side alone.
LEMMA TakenOwn ==
    ASSUME NEW B, NEW o, NEW f, f.side = o.side
    PROVE  Abstract!Taken(B, o, f) = 0
  <1>1. f \notin Reached(B, o)
    BY DEF Reached
  <1>2. QED
    BY <1>1, TakenIs

\* An entry that is left of another with the same remaining units is it.
LEMMA KinSame ==
    ASSUME NEW e \in BookEntry, NEW f \in BookEntry, Kin(e, f), e.rem = f.rem
    PROVE  e = f
  BY DEF BookEntry, Kin

\* The loop traded what the closed form prescribes.
LEMMA TradedIs ==
    ASSUME NEW B, NEW O, NEW o \in Order, NEW q, NEW p, Done(B, O, o, q, p)
    PROVE  Abstract!Traded(B, o) = q
  <1> DEFINE U == Used(B, O, o)
             v == Abstract!Volume(U)
             r == Abstract!Volume(Reached(B, o))
  <1>1. /\ Sound(B) /\ Loop(B, O, o, q, p) /\ q \in Int /\ o.qty \in Int /\ q <= o.qty
        /\ \A g \in B : /\ g \in BookEntry /\ g.rem \in Int /\ g.rem > 0
                        /\ g.side # o.side =>
                              g.side = (IF o.side = "buy" THEN "sell" ELSE "buy")
        /\ \A e, g \in B : e.seq = g.seq => e = g
        /\ \A e \in O : /\ e \in BookEntry /\ e.rem \in Int /\ e.rem > 0 /\ e.side # o.side
                        /\ e.side = (IF o.side = "buy" THEN "sell" ELSE "buy")
                        /\ e \in B \/ (Best(O, e) /\ Crosses(o, e) /\ p = e.price)
    BY DoneFacts
  <1>2. /\ U \subseteq Reached(B, o) /\ U \subseteq B /\ Reached(B, o) \subseteq B
        /\ v \in Nat /\ v <= q
        /\ q < o.qty => Reached(B, o) = U /\ O \subseteq B /\ q = v
        /\ \A e \in O : \A g \in B : Kin(e, g) => (e \in B => e = g) /\ g.side # o.side
        /\ \A g \in B : g.side # o.side /\ g \notin U => \E e \in O : Kin(e, g)
    <2>1. Reached(B, o) \subseteq B
      BY DEF Reached
    <2>2. U \subseteq B
      BY DEF Used
    <2>3. QED
      BY <2>1, <2>2, DoneParts
  <1>3. Abstract!Traded(B, o) = IF r < o.qty THEN r ELSE o.qty
    BY TakenIs DEF Abstract!Traded
  <1>4. r \in Nat
    BY <1>1, <1>2, VolumeType
  <1>5. v <= r
    <2> HIDE DEF U
    <2>1. QED
      BY <1>1, <1>2, VolumeGrows
  <1>6. CASE q < o.qty
    <2>1. r = q
      BY <1>2, <1>6
    <2> HIDE DEF r
    <2>2. QED
      BY <1>1, <1>3, <1>6, <2>1
  <1>7. CASE q = o.qty
    <2>1. CASE O = {}
      <3>1. q = v
        BY <1>1, <2>1 DEF Loop
      <3> HIDE DEF r, v
      <3>2. QED
        BY <1>1, <1>2, <1>3, <1>4, <1>5, <1>7, <3>1
    <2>2. CASE O # {}
      <3>1. PICK b \in O : Best(O, b)
        BY <2>2 DEF Done
      <3>2. PICK h \in B : Kin(b, h)
        BY <1>1 DEF Loop
      <3>3. q = v + h.rem - b.rem /\ h.rem \in Int /\ b.rem \in Int /\ b.rem > 0
        BY <1>1, <3>1, <3>2 DEF Loop
      <3>4. CASE b \in B
        <4>1. b = h
          BY <1>2, <3>2, <3>4
        <4> HIDE DEF r, v
        <4>2. q = v
          BY <1>1, <1>2, <3>3, <4>1
        <4>3. QED
          BY <1>1, <1>2, <1>3, <1>4, <1>5, <1>7, <4>2
      <3>5. CASE b \notin B
        <4>1. h \in Reached(B, o) /\ h \notin U
          <5>1. Crosses(o, b) /\ h.side # o.side /\ b.seq = h.seq
            BY <1>1, <1>2, <3>2, <3>5 DEF Kin
          <5>2. QED
            BY <3>2, <5>1 DEF Reached, Used, Kin, Crosses
        <4>2. Abstract!Volume(U \cup {h}) = v + h.rem
          <5> HIDE DEF U
          <5>1. QED
            BY <1>1, <1>2, <4>1, VolumeAdds
        <4>3. Abstract!Volume(U \cup {h}) <= r
          <5>1. U \cup {h} \subseteq Reached(B, o)
            BY <1>2, <4>1
          <5> HIDE DEF U
          <5>2. QED
            BY <1>1, <1>2, <5>1, VolumeGrows
        <4> HIDE DEF r, v
        <4>4. o.qty < r
          BY <1>1, <1>2, <1>4, <1>7, <3>3, <4>2, <4>3
        <4>5. QED
          BY <1>1, <1>3, <1>4, <1>7, <4>4
      <3>6. QED
        BY <3>4, <3>5
    <2>3. QED
      BY <2>1, <2>2
  <1>8. QED
    BY <1>1, <1>6, <1>7

\* The last entry of a set is unique.
LEMMA ChooseLast ==
    ASSUME NEW T, NEW f \in T, \A g \in T : g \in BookEntry /\ g.side = f.side,
           \A g \in T \ {f} : Precedes(g, f)
    PROVE  (CHOOSE e \in T : \A g \in T \ {e} : Abstract!ServedBefore(g, e)) = f
  <1>1. \A g, e : Abstract!ServedBefore(g, e) <=> Precedes(g, e)
    BY DEF Abstract!ServedBefore, Precedes
  <1>2. \A g \in T \ {f} : Abstract!ServedBefore(g, f)
    BY <1>1
  <1>3. ASSUME NEW e \in T, \A g \in T \ {e} : Abstract!ServedBefore(g, e) PROVE e = f
    <2>1. e # f => Precedes(f, e) /\ Precedes(e, f)
      BY <1>1, <1>3
    <2>2. QED
      BY <2>1, Priority
  <1>4. QED
    BY <1>2, <1>3

\* The reported price is the closed form's.
LEMMA PriceIs ==
    ASSUME NEW B, NEW O, NEW o \in Order, NEW q, NEW p, Done(B, O, o, q, p)
    PROVE  Abstract!TradePrice(B, o) = p
  <1> DEFINE U == Used(B, O, o)
             v == Abstract!Volume(U)
             T == {e \in B : Abstract!Taken(B, o, e) > 0}
  <1>1. /\ Sound(B) /\ Loop(B, O, o, q, p) /\ q \in Int /\ o.qty \in Int /\ q <= o.qty
        /\ \A g \in B : /\ g \in BookEntry /\ g.rem \in Int /\ g.rem > 0
                        /\ g.side # o.side =>
                              g.side = (IF o.side = "buy" THEN "sell" ELSE "buy")
        /\ \A e, g \in B : e.seq = g.seq => e = g
        /\ \A e \in O : /\ e \in BookEntry /\ e.rem \in Int /\ e.rem > 0 /\ e.side # o.side
                        /\ e.side = (IF o.side = "buy" THEN "sell" ELSE "buy")
                        /\ e \in B \/ (Best(O, e) /\ Crosses(o, e) /\ p = e.price)
    BY DoneFacts
  <1>2. /\ U \subseteq Reached(B, o) /\ U \subseteq B /\ Reached(B, o) \subseteq B
        /\ v \in Nat /\ v <= q
        /\ q < o.qty => Reached(B, o) = U /\ O \subseteq B /\ q = v
        /\ \A e \in O : \A g \in B : Kin(e, g) => (e \in B => e = g) /\ g.side # o.side
        /\ \A g \in B : g.side # o.side /\ g \notin U => \E e \in O : Kin(e, g)
    <2>1. Reached(B, o) \subseteq B
      BY DEF Reached
    <2>2. U \subseteq B
      BY DEF Used
    <2>3. QED
      BY <2>1, <2>2, DoneParts
  <1>3. U \subseteq T
    <2>1. ASSUME NEW g \in U PROVE Abstract!Taken(B, o, g) > 0
      BY <1>1, <1>2, TakenUsed
    <2>2. QED
      BY <1>2, <2>1
  <1>4. ASSUME NEW g \in T \ U PROVE g.side # o.side /\ \E e \in O : Kin(e, g) /\ e \notin B
    <2>1. g \in B /\ Abstract!Taken(B, o, g) > 0
      OBVIOUS
    <2>2. g.side # o.side
      BY <2>1, TakenOwn
    <2>3. PICK e \in O : Kin(e, g)
      BY <1>2, <2>1, <2>2
    <2>4. Abstract!Taken(B, o, g) = g.rem - e.rem
      BY <2>1, <2>3, TakenLeft
    <2>5. g.rem \in Int
      BY <1>1, <2>1
    <2>6. e # g
      BY <2>1, <2>4, <2>5
    <2>7. QED
      BY <1>2, <2>1, <2>2, <2>3, <2>6
  <1>5. \A g \in T : g \in BookEntry /\ g.side = (IF o.side = "buy" THEN "sell" ELSE "buy")
    BY <1>1, <1>4 DEF Used
  <1>6. Abstract!TradePrice(B, o) =
           IF T = {} THEN 0
           ELSE (CHOOSE e \in T : \A f \in T \ {e} : Abstract!ServedBefore(f, e)).price
    BY DEF Abstract!TradePrice
  <1> HIDE DEF T
  <1>7. CASE O \subseteq B
    <2>1. T = U
      BY <1>3, <1>4, <1>7
    <2>2. LastPrice(U, p)
      BY <1>1, <1>7 DEF Loop
    <2>3. CASE U = {} /\ p = 0
      BY <1>6, <2>1, <2>3
    <2>4. CASE \E f \in U : p = f.price /\ \A g \in U \ {f} : Precedes(g, f)
      <3>1. PICK f \in T : p = f.price /\ \A g \in T \ {f} : Precedes(g, f)
        BY <2>1, <2>4
      <3>2. (CHOOSE e \in T : \A g \in T \ {e} : Abstract!ServedBefore(g, e)) = f
        <4>1. \A g \in T : g \in BookEntry /\ g.side = f.side
          BY <1>5
        <4>2. QED
          BY <3>1, <4>1, ChooseLast
      <3>3. QED
        BY <1>6, <3>1, <3>2
    <2>5. QED
      BY <2>2, <2>3, <2>4 DEF LastPrice
  <1>8. CASE ~(O \subseteq B)
    <2>1. PICK e \in O : e \notin B
      BY <1>8
    <2>2. Best(O, e) /\ p = e.price /\ e \in BookEntry
      BY <1>1, <2>1
    <2>3. PICK f \in B : Kin(e, f)
      BY <1>1 DEF Loop
    <2>4. f \in T
      <3>1. Abstract!Taken(B, o, f) = f.rem - e.rem
        BY <2>3, TakenLeft
      <3>2. e.rem # f.rem
        BY <1>1, <2>1, <2>2, <2>3, KinSame
      <3>3. e.rem \in Int /\ f.rem \in Int /\ e.rem <= f.rem
        BY <1>1, <2>3 DEF Kin
      <3>4. f.rem - e.rem > 0
        BY <3>2, <3>3
      <3>5. QED
        BY <3>1, <3>4 DEF T
    <2>5. ASSUME NEW g \in T \ {f} PROVE Precedes(g, f)
      <3>1. CASE g \in U
        <4>1. Precedes(g, e)
          BY <1>1, <3>1 DEF Loop
        <4>2. QED
          BY <2>3, <4>1 DEF Kin, Precedes
      <3>2. CASE g \notin U
        <4>1. PICK d \in O : Kin(d, g) /\ d \notin B
          BY <1>4, <3>2
        <4>2. Best(O, d) /\ d \in BookEntry /\ d.side = e.side
          BY <1>1, <4>1
        <4>3. d = e
          BY <2>2, <4>2, BestIsOne
        <4>4. g \in B /\ g.seq = f.seq
          BY <2>3, <4>1, <4>3 DEF Kin, T
        <4>5. QED
          BY <1>1, <4>4
      <3>3. QED
        BY <3>1, <3>2
    <2>6. (CHOOSE x \in T : \A g \in T \ {x} : Abstract!ServedBefore(g, x)) = f
      <3>1. \A g \in T : g \in BookEntry /\ g.side = f.side
        BY <1>5, <2>4
      <3>2. QED
        BY <2>4, <2>5, <3>1, ChooseLast
    <2>7. f.price = p
      BY <2>2, <2>3 DEF Kin
    <2>8. QED
      BY <1>6, <2>4, <2>6, <2>7
  <1>9. QED
    BY <1>7, <1>8

\* What taker o leaves of book B: every entry less what o takes of it, the
\* used-up ones gone (the hit entries of the abstract BookAfter).
Survivors(B, o) ==
    {x \in {[e EXCEPT !.rem = @ - Abstract!Taken(B, o, e)] : e \in B} : x.rem > 0}

\* The entries that remain are the closed form's.
LEMMA HitIs ==
    ASSUME NEW B, NEW O, NEW o \in Order, NEW q, NEW p, Done(B, O, o, q, p)
    PROVE  Survivors(B, o) = {e \in B : e.side = o.side} \cup O
  <1> DEFINE U == Used(B, O, o)
             v == Abstract!Volume(U)
             Hit(e) == [e EXCEPT !.rem = @ - Abstract!Taken(B, o, e)]
  <1>1. /\ Sound(B) /\ Loop(B, O, o, q, p) /\ q \in Int /\ o.qty \in Int /\ q <= o.qty
        /\ \A g \in B : /\ g \in BookEntry /\ g.rem \in Int /\ g.rem > 0
                        /\ g.side # o.side =>
                              g.side = (IF o.side = "buy" THEN "sell" ELSE "buy")
        /\ \A e, g \in B : e.seq = g.seq => e = g
        /\ \A e \in O : /\ e \in BookEntry /\ e.rem \in Int /\ e.rem > 0 /\ e.side # o.side
                        /\ e.side = (IF o.side = "buy" THEN "sell" ELSE "buy")
                        /\ e \in B \/ (Best(O, e) /\ Crosses(o, e) /\ p = e.price)
    BY DoneFacts
  <1>2. /\ U \subseteq Reached(B, o) /\ U \subseteq B /\ Reached(B, o) \subseteq B
        /\ v \in Nat /\ v <= q
        /\ q < o.qty => Reached(B, o) = U /\ O \subseteq B /\ q = v
        /\ \A e \in O : \A g \in B : Kin(e, g) => (e \in B => e = g) /\ g.side # o.side
        /\ \A g \in B : g.side # o.side /\ g \notin U => \E e \in O : Kin(e, g)
    <2>1. Reached(B, o) \subseteq B
      BY DEF Reached
    <2>2. U \subseteq B
      BY DEF Used
    <2>3. QED
      BY <2>1, <2>2, DoneParts
  <1>3. ASSUME NEW f \in B
        PROVE  Hit(f).rem = f.rem - Abstract!Taken(B, o, f)
    BY <1>1 DEF BookEntry
  <1>4. ASSUME NEW f \in B, f.side = o.side PROVE Hit(f) = f /\ Hit(f).rem > 0
    <2>1. Abstract!Taken(B, o, f) = 0
      BY <1>4, TakenOwn
    <2>2. f.rem - 0 = f.rem /\ f.rem > 0 /\ f \in BookEntry
      BY <1>1
    <2>3. QED
      BY <2>1, <2>2 DEF BookEntry
  <1>5. ASSUME NEW f \in U PROVE ~(Hit(f).rem > 0)
    <2>1. Abstract!Taken(B, o, f) = f.rem /\ f \in B /\ f.rem \in Int
      BY <1>1, <1>2, TakenUsed
    <2>2. Hit(f).rem = f.rem - f.rem
      BY <1>3, <2>1
    <2> HIDE DEF Hit
    <2>3. QED
      BY <2>1, <2>2
  <1>6. ASSUME NEW e \in O, NEW f \in B, Kin(e, f) PROVE Hit(f) = e /\ e.rem > 0
    <2>1. Abstract!Taken(B, o, f) = f.rem - e.rem
      BY <1>6, TakenLeft
    <2>2. f \in BookEntry /\ e \in BookEntry /\ f.rem \in Int /\ e.rem \in Int /\ e.rem > 0
      BY <1>1
    <2>3. f.rem - (f.rem - e.rem) = e.rem
      BY <2>2
    <2>4. Hit(f) = [f EXCEPT !.rem = e.rem]
      BY <2>1, <2>2, <2>3 DEF BookEntry
    <2>5. [f EXCEPT !.rem = e.rem] = e
      BY <1>6, <2>2 DEF BookEntry, Kin
    <2>6. QED
      BY <2>2, <2>4, <2>5
  <1>7. \A e \in O : \E f \in B : Kin(e, f)
    BY <1>1 DEF Loop
  <1> HIDE DEF Hit, U
  <1>8. {x \in {Hit(e) : e \in B} : x.rem > 0} = {e \in B : e.side = o.side} \cup O
    <2>1. ASSUME NEW f \in B, Hit(f).rem > 0 PROVE Hit(f) \in {e \in B : e.side = o.side} \cup O
      BY <1>2, <1>4, <1>5, <1>6, <2>1
    <2>2. ASSUME NEW e \in O PROVE e \in {x \in {Hit(g) : g \in B} : x.rem > 0}
      BY <1>6, <1>7
    <2>3. ASSUME NEW f \in B, f.side = o.side PROVE f \in {x \in {Hit(g) : g \in B} : x.rem > 0}
      BY <1>4, <2>3
    <2>4. QED
      BY <2>1, <2>2, <2>3
  <1>9. QED
    BY <1>8 DEF Hit, Survivors

-----------------------------------------------------------------------------
(* The loop invariant is inductive *)

\* Nothing is taken when the loop starts.
LEMMA LoopStarts ==
    ASSUME NEW B, Sound(B), NEW O, NEW o \in Order, O = {e \in B : e.side # o.side}
    PROVE  Loop(B, O, o, 0, 0)
  <1>1. Used(B, O, o) = {}
    BY DEF Used
  <1>2. Abstract!Volume({}) = 0
    <2>1. Units({}) = {}
      BY DEF Units
    <2>2. Abstract!Volume({}) = Cardinality(Units({}))
      BY UnitsFinite
    <2>3. QED
      BY <2>1, <2>2, FS_EmptySet
  <1>3. \A e \in O : e \in BookEntry /\ e.rem > 0 /\ e \in B /\ e.side # o.side /\ e.rem \in Int
    BY DEF Sound, BookEntry
  <1>4. \A e \in O : Kin(e, e)
    BY <1>3 DEF Kin
  <1>5. \A e \in O : \A f \in B : Kin(e, f) => e = f
    BY <1>3 DEF Kin, Sound
  <1>6. \A e \in O : 0 = 0 + e.rem - e.rem
    BY <1>3
  <1>7. LastPrice({}, 0)
    BY DEF LastPrice
  <1>8. \A e, f \in O : e.seq = f.seq => e = f
    BY <1>3 DEF Sound
  <1>9. QED
    BY <1>1, <1>2, <1>3, <1>4, <1>5, <1>6, <1>7, <1>8 DEF Loop

\* The book that Admit finds is sound.
LEMMA BookIsSound ==
    ASSUME BookInv, IsFiniteSet(buys \cup sells) PROVE Sound(buys \cup sells)
  BY DEF BookInv, TypeOK, SeqInv, Sound

\* The two sides of the book, seen from an order.
LEMMA SidesOf ==
    ASSUME BookInv, Busy
    PROVE  /\ taker \in Taker /\ taker.order \in Order /\ taker.order.side \in {"buy", "sell"}
           /\ Opposite = {e \in buys \cup sells : e.side # taker.order.side}
           /\ taker.order.side = "buy" =>
                 {e \in buys \cup sells : e.side = taker.order.side} = buys
           /\ taker.order.side # "buy" =>
                 {e \in buys \cup sells : e.side = taker.order.side} = sells
           /\ taker.order.qty \in Int /\ taker.qty \in Int /\ taker.remaining \in Int
  <1>1. taker \in Taker
    BY DEF BookInv, TypeOK, Busy
  <1>2. /\ taker.order \in Order /\ taker.order.side \in {"buy", "sell"}
        /\ taker.order.qty \in Int /\ taker.qty \in Int /\ taker.remaining \in Int
    BY <1>1, GoldenAssumption DEF Taker, Order
  <1>3. (\A e \in buys : e.side = "buy") /\ (\A e \in sells : e.side = "sell")
    BY DEF BookInv, SidesInv
  <1>4. QED
    BY <1>1, <1>2, <1>3 DEF Opposite

LEMMA AdmitLoop ==
    ASSUME BookInv, LoopInv, NEW o \in Order, Admit(o) PROVE LoopInv'
  <1>1. BookInv'
    BY AdmitBook
  <1>2. /\ ~Busy /\ Len(fills) < MaxOrders /\ before' = buys \cup sells
        /\ UNCHANGED <<buys, sells, fills>> /\ ~Rejected(o) /\ o.kind # "cancel"
        /\ taker' = [order |-> o, remaining |-> o.qty, price |-> 0, qty |-> 0]
    BY DEF Admit, Callable
  <1>3. taker'.order = o /\ taker'.remaining = o.qty /\ taker'.price = 0 /\ taker'.qty = 0
    BY <1>2
  <1>4. Sound(buys \cup sells) /\ IsFiniteSet(buys \cup sells)
    BY BookIsSound DEF LoopInv
  <1>5. o.qty \in Int /\ o.qty > 0 /\ o.qty = o.qty - 0
    <2>1. o.qty \in Int
      BY GoldenAssumption DEF Order
    <2>2. o.qty > 0
      BY <1>2, <2>1 DEF Rejected
    <2>3. QED
      BY <2>1, <2>2
  <1>6. Opposite' = {e \in buys \cup sells : e.side # o.side}
    <2>1. o.side \in {"buy", "sell"}
      BY DEF Order
    <2>2. QED
      BY <1>2, <1>3, <2>1 DEF Opposite, BookInv, SidesInv
  <1>7. PICK O : O = Opposite'
    OBVIOUS
  <1>8. PICK B : B = buys \cup sells
    OBVIOUS
  <1>9. Loop(B, O, o, 0, 0)
    BY <1>4, <1>6, <1>7, <1>8, LoopStarts
  <1>10. Loop(before', Opposite', taker'.order, taker'.qty, taker'.price)
    BY <1>2, <1>3, <1>7, <1>8, <1>9
  <1>11. Loop(before, Opposite, taker.order, taker.qty, taker.price)'
    BY <1>10 DEF Loop, Used, LastPrice, Kin, Best, Precedes, Crosses, Abstract!Volume,
                 Abstract!Cardinality
  <1>12. Sound(before)'
    BY <1>2, <1>4 DEF Sound
  <1>13. QED
    BY <1>2, <1>3, <1>4, <1>5, <1>11, <1>12 DEF LoopInv

LEMMA MatchLoop ==
    ASSUME BookInv, LoopInv, MatchBest PROVE LoopInv'
  <1> DEFINE units(e) == min64(taker.remaining, e.rem)
  <1>1. Busy /\ taker.remaining > 0 /\ UNCHANGED <<seq, fills, before>>
    BY DEF MatchBest
  <1>2. PICK e \in Opposite :
          /\ Best(Opposite, e) /\ Crosses(taker.order, e)
          /\ taker' = [taker EXCEPT !.remaining = @ - units(e),
                                    !.price = e.price, !.qty = @ + units(e)]
          /\ IF taker.order.side = "buy"
             THEN sells' = TakeFrom(sells, e, units(e)) /\ UNCHANGED buys
             ELSE buys' = TakeFrom(buys, e, units(e)) /\ UNCHANGED sells
    BY DEF MatchBest
  <1>3. PICK m : m = units(e)
    OBVIOUS
  <1>4. BookInv'
    BY MatchBook
  <1>5. /\ taker \in Taker /\ taker.order \in Order /\ taker.order.side \in {"buy", "sell"}
        /\ taker.order.qty \in Int /\ taker.qty \in Int /\ taker.remaining \in Int
    BY <1>1, SidesOf
  <1>6. e.rem \in Int /\ e.rem > 0
    BY DEF Opposite, BookInv, TypeOK, BookEntry
  <1>7. m \in Int /\ m > 0 /\ m <= e.rem /\ m <= taker.remaining
    BY <1>1, <1>3, <1>5, <1>6 DEF min64
  <1>8. /\ taker'.order = taker.order /\ taker'.qty = taker.qty + m
        /\ taker'.remaining = taker.remaining - m /\ taker'.price = e.price
    BY <1>2, <1>3, <1>5 DEF Taker
  <1>9. Busy'
    BY <1>5, <1>8, <1>2 DEF Busy, Idle, Taker
  <1>10. Opposite' = TakeFrom(Opposite, e, m)
    BY <1>2, <1>3, <1>8 DEF Opposite
  <1>11. {x \in buys \cup sells : x.side = taker.order.side}'
           = {x \in buys \cup sells : x.side = taker.order.side}
    <2>1. CASE taker.order.side = "buy"
      <3>1. buys' = buys
        BY <1>2, <2>1
      <3>2. {x \in buys \cup sells : x.side = taker.order.side} = buys
        BY <1>1, <2>1, SidesOf
      <3>3. {x \in buys' \cup sells' : x.side = "buy"} = buys'
        BY <1>4 DEF BookInv, SidesInv
      <3>4. QED
        BY <1>8, <2>1, <3>1, <3>2, <3>3
    <2>2. CASE taker.order.side # "buy"
      <3>1. sells' = sells
        BY <1>2, <2>2
      <3>2. {x \in buys \cup sells : x.side = taker.order.side} = sells
        BY <1>1, <2>2, SidesOf
      <3>3. {x \in buys' \cup sells' : x.side = "sell"} = sells'
        BY <1>4 DEF BookInv, SidesInv
      <3>4. QED
        BY <1>5, <1>8, <2>2, <3>1, <3>2, <3>3
    <2>3. QED
      BY <2>1, <2>2
  <1>12. IsFiniteSet(buys \cup sells)'
    <2> DEFINE e2 == [e EXCEPT !.rem = @ - m]
    <2>1. buys' \cup sells' \subseteq (buys \cup sells) \cup {e2}
      BY <1>2, <1>3 DEF TakeFrom
    <2>2. IsFiniteSet((buys \cup sells) \cup {e2})
      BY FS_AddElement DEF LoopInv
    <2> HIDE DEF e2
    <2>3. QED
      BY <2>1, <2>2, FS_Subset
  <1>13. Loop(before, TakeFrom(Opposite, e, m), taker.order, taker.qty + m, e.price)
    <2>1. Sound(before) /\ Loop(before, Opposite, taker.order, taker.qty, taker.price)
      BY <1>1 DEF LoopInv
    <2>2. PICK O, B, p : O = Opposite /\ B = before /\ p = taker.price
      OBVIOUS
    <2>3. PICK o \in Order, q \in Int : o = taker.order /\ q = taker.qty
      BY <1>5
    <2>4. Loop(B, TakeFrom(O, e, m), o, q + m, e.price)
      BY <1>2, <1>7, <2>1, <2>2, <2>3, LoopTurn
    <2>5. QED
      BY <2>2, <2>3, <2>4
  <1>14. Loop(before', Opposite', taker'.order, taker'.qty, taker'.price)
    BY <1>1, <1>8, <1>10, <1>13
  <1>15. Loop(before, Opposite, taker.order, taker.qty, taker.price)'
    BY <1>14 DEF Loop, Used, LastPrice, Kin, Best, Precedes, Crosses, Abstract!Volume,
                 Abstract!Cardinality
  <1>16. Sound(before)' /\ Len(fills') < MaxOrders
    BY <1>1 DEF LoopInv, Sound
  <1>17. taker'.remaining = taker'.order.qty - taker'.qty /\ taker'.remaining >= 0
    <2>1. taker.remaining = taker.order.qty - taker.qty
      BY <1>1 DEF LoopInv
    <2>2. QED
      BY <1>5, <1>7, <1>8, <2>1
  <1>18. {x \in buys \cup sells : x.side = taker.order.side}'
           = {x \in before : x.side = taker.order.side}'
    BY <1>1, <1>8, <1>11 DEF LoopInv
  <1>19. QED
    BY <1>9, <1>12, <1>15, <1>16, <1>17, <1>18 DEF LoopInv

LEMMA LoopStep ==
    ASSUME BookInv, LoopInv, [Next]_vars PROVE LoopInv'
  <1>1. CASE UNCHANGED vars
    <2>1. UNCHANGED <<buys, sells, taker, fills, before>> /\ Opposite' = Opposite
      BY <1>1 DEF vars, Opposite
    <2>2. CASE Busy
      <3>1. Loop(before', Opposite', taker'.order, taker'.qty, taker'.price)
        BY <2>1, <2>2 DEF LoopInv
      <3>2. Loop(before, Opposite, taker.order, taker.qty, taker.price)'
        BY <3>1 DEF Loop, Used, LastPrice, Kin, Best, Precedes, Crosses, Abstract!Volume,
                    Abstract!Cardinality
      <3>3. QED
        BY <2>1, <2>2, <3>2 DEF LoopInv, Sound
    <2>3. CASE ~Busy
      BY <2>1, <2>3 DEF LoopInv, Busy
    <2>4. QED
      BY <2>2, <2>3
  <1>2. ASSUME NEW o \in Order, Reject(o) \/ ApplyCancel(o) PROVE LoopInv'
    <2>1. ~Busy /\ ~Busy'
      BY <1>2 DEF Reject, ApplyCancel, Callable, Busy
    <2>2. buys' \cup sells' \subseteq buys \cup sells
      BY <1>2 DEF Reject, ApplyCancel, Without
    <2>3. IsFiniteSet(buys' \cup sells')
      BY <2>2, FS_Subset DEF LoopInv
    <2>4. QED
      BY <2>1, <2>3 DEF LoopInv
  <1>3. CASE Finish
    <2> DEFINE entry == [id |-> taker.order.id, side |-> taker.order.side,
                         price |-> taker.order.price, seq |-> seq, rem |-> taker.remaining]
    <2>1. ~Busy'
      BY <1>3 DEF Finish, Busy
    <2>2. buys' \cup sells' \subseteq (buys \cup sells) \cup {entry}
      BY <1>3 DEF Finish
    <2>3. IsFiniteSet((buys \cup sells) \cup {entry})
      BY FS_AddElement DEF LoopInv
    <2> HIDE DEF entry
    <2>4. IsFiniteSet(buys' \cup sells')
      BY <2>2, <2>3, FS_Subset
    <2>5. QED
      BY <2>1, <2>4 DEF LoopInv
  <1>4. QED
    BY <1>1, <1>2, <1>3, AdmitLoop, MatchLoop DEF Next

-----------------------------------------------------------------------------
(* Every step implements a step of the closed form *)

\* An order that is refused or cancels is served in one step.
LEMMA ShortCalls ==
    ASSUME BookInv, NEW o \in Order, Reject(o) \/ ApplyCancel(o)
    PROVE  Abstract!Place(o)
  <1>1. ~Busy /\ ~Busy' /\ Len(fills) < MaxOrders /\ seq' = seq
    BY DEF Reject, ApplyCancel, Callable, Busy
  <1>2. Abstract!Refused(o) <=> Rejected(o)
    BY DEF Abstract!Refused, Rejected
  <1>3. CASE Reject(o)
    <2>1. /\ fills' = Append(fills, Ack(o, FALSE)) /\ Rejected(o)
          /\ buys' = buys /\ sells' = sells
      BY <1>3 DEF Reject
    <2>2. \A B : Abstract!FillOf(B, o) = Ack(o, FALSE)
      BY <1>2, <2>1 DEF Abstract!FillOf, Abstract!Fill, Ack
    <2>3. \A B, i : Abstract!BookAfter(B, i, o) = B
      BY <1>2, <2>1 DEF Abstract!BookAfter
    <2>4. ~Abstract!Arrives(o)
      BY <1>2, <2>1 DEF Abstract!Arrives
    <2>5. QED
      BY <1>1, <2>1, <2>2, <2>3, <2>4 DEF Abstract!Place
  <1>4. CASE ApplyCancel(o)
    <2>1. /\ fills' = Append(fills, Ack(o, o.id \in index)) /\ o.kind = "cancel"
          /\ buys' = IF o.id \in index THEN Without(buys, o.id) ELSE buys
          /\ sells' = IF o.id \in index THEN Without(sells, o.id) ELSE sells
      BY <1>4 DEF ApplyCancel
    <2>2. ~Abstract!Refused(o) /\ ~Abstract!Arrives(o)
      BY <2>1 DEF Abstract!Refused, Abstract!Arrives
    <2>3. o.id \in index <=> \E e \in buys \cup sells : e.id = o.id
      BY DEF BookInv, IndexIsBook
    <2>4. buys' \cup sells' = {e \in buys \cup sells : e.id # o.id}
      BY <2>1, <2>3 DEF Without
    <2>5. Abstract!BookAfter(buys \cup sells, seq, o) = {e \in buys \cup sells : e.id # o.id}
      BY <2>1, <2>2 DEF Abstract!BookAfter
    <2>6. Abstract!FillOf(buys \cup sells, o) =
             [id |-> o.id, price |-> 0, qty |-> 0, ok |-> \E e \in buys \cup sells : e.id = o.id]
      BY <2>1, <2>2 DEF Abstract!FillOf, Abstract!Fill
    <2>7. (o.id \in index) = (\E e \in buys \cup sells : e.id = o.id)
      <3>1. CASE o.id \in index
        <4>1. (o.id \in index) = TRUE
          BY <3>1
        <4>2. (\E e \in buys \cup sells : e.id = o.id) = TRUE
          BY <2>3, <3>1
        <4>3. QED
          BY <4>1, <4>2, Zenon
      <3>2. CASE o.id \notin index
        <4>1. (o.id \in index) = FALSE
          BY <3>2
        <4>2. (\E e \in buys \cup sells : e.id = o.id) = FALSE
          BY <2>3, <3>2
        <4>3. QED
          BY <4>1, <4>2, Zenon
      <3>3. QED
        BY <3>1, <3>2
    <2>8. Abstract!FillOf(buys \cup sells, o) = Ack(o, o.id \in index)
      BY <2>6, <2>7 DEF Ack
    <2>9. QED
      BY <1>1, <2>1, <2>2, <2>4, <2>5, <2>8 DEF Abstract!Place
  <1>5. QED
    BY <1>3, <1>4

\* The end of the loop serves the taker.
LEMMA FinishServes ==
    ASSUME BookInv, LoopInv, Finish
    PROVE  \E o \in Order : Abstract!Place(o)
  <1>1. Busy /\ ~Busy' /\ seq' = seq /\ LoopEnds /\ taker' = Idle
    BY DEF Finish, Busy
  <1>2. /\ taker \in Taker /\ taker.order \in Order /\ taker.order.side \in {"buy", "sell"}
        /\ Opposite = {e \in buys \cup sells : e.side # taker.order.side}
        /\ taker.order.qty \in Int /\ taker.qty \in Int /\ taker.remaining \in Int
    BY <1>1, SidesOf
  <1>3. /\ Sound(before) /\ Len(fills) < MaxOrders
        /\ {e \in buys \cup sells : e.side = taker.order.side}
              = {e \in before : e.side = taker.order.side}
        /\ Loop(before, Opposite, taker.order, taker.qty, taker.price)
        /\ taker.remaining = taker.order.qty - taker.qty /\ taker.remaining >= 0
    BY <1>1 DEF LoopInv
  <1>4. PICK B, O, p : B = before /\ O = Opposite /\ p = taker.price
    OBVIOUS
  <1>5. PICK o \in Order, q \in Int : o = taker.order /\ q = taker.qty
    BY <1>2
  <1>6. Done(B, O, o, q, p)
    <2>1. O # {} => \E e \in O : Best(O, e)
      BY <1>4, BestExists DEF Opposite
    <2>2. q = o.qty \/ \A e \in O : Best(O, e) => ~Crosses(o, e)
      BY <1>1, <1>2, <1>3, <1>4, <1>5 DEF LoopEnds
    <2>3. q <= o.qty
      BY <1>2, <1>3, <1>5
    <2>4. QED
      BY <1>2, <1>3, <1>4, <1>5, <2>1, <2>2, <2>3 DEF Done
  <1>7. Abstract!Traded(B, o) = q /\ Abstract!TradePrice(B, o) = p
    BY <1>6, TradedIs, PriceIs
  <1>8. Survivors(B, o) = buys \cup sells
    <2>1. Survivors(B, o) = {e \in B : e.side = o.side} \cup O
      BY <1>6, HitIs
    <2>2. {e \in B : e.side = o.side} \cup O = buys \cup sells
      BY <1>2, <1>3, <1>4, <1>5
    <2>3. QED
      BY <2>1, <2>2
  <1>9. o.kind # "cancel" /\ ~Abstract!Refused(o) /\ Abstract!Arrives(o)
    BY <1>1, <1>5 DEF BookInv, TakerInv, Abstract!Refused, Abstract!Arrives, Rejected
  <1>10. o.qty - q = taker.remaining
    BY <1>3, <1>5
  <1> DEFINE entry == [id |-> o.id, side |-> o.side, price |-> o.price,
                       seq |-> seq, rem |-> taker.remaining]
  <1>11. Abstract!BookAfter(B, seq, o) =
            (buys \cup sells) \cup (IF o.kind = "limit" /\ taker.remaining > 0
                                    THEN {entry} ELSE {})
    BY <1>7, <1>8, <1>9, <1>10 DEF Survivors, Abstract!BookAfter, Abstract!Entry
  <1>12. buys' \cup sells' =
            (buys \cup sells) \cup (IF o.kind = "limit" /\ taker.remaining > 0
                                    THEN {entry} ELSE {})
    BY <1>5 DEF Finish
  <1>13. Abstract!FillOf(B, o) = [id |-> o.id, price |-> p, qty |-> q,
                                  ok |-> o.kind = "limit" \/ q > 0]
    BY <1>7, <1>9 DEF Abstract!FillOf, Abstract!Fill
  <1>14. fills' = Append(fills, Abstract!FillOf(B, o))
    BY <1>4, <1>5, <1>13 DEF Finish
  <1>15. seq = (seq - 1) + 1
    BY DEF BookInv, TypeOK
  <1> HIDE DEF entry
  <1>16. Abstract!Place(o)
    BY <1>1, <1>3, <1>4, <1>9, <1>11, <1>12, <1>14, <1>15 DEF Abstract!Place
  <1>17. QED
    BY <1>16

\* The first step of a call and the turns of the loop are stutters.
LEMMA LoopStutters ==
    ASSUME BookInv, MatchBest \/ \E o \in Order : Admit(o)
    PROVE  UNCHANGED Abstract!bookVars
  <1>1. CASE MatchBest
    <2>1. Busy /\ UNCHANGED <<seq, fills, before>> /\ taker \in Taker
      BY <1>1, SidesOf DEF MatchBest
    <2>2. PICK m, e : taker' = [taker EXCEPT !.remaining = @ - m, !.price = e.price, !.qty = @ + m]
      BY <1>1 DEF MatchBest
    <2>3. Busy'
      BY <2>1, <2>2 DEF Busy, Idle, Taker
    <2>4. QED
      BY <2>1, <2>3 DEF Abstract!bookVars
  <1>2. ASSUME NEW o \in Order, Admit(o) PROVE UNCHANGED Abstract!bookVars
    <2>1. /\ ~Busy /\ before' = buys \cup sells /\ seq' = seq + 1 /\ fills' = fills
          /\ taker' = [order |-> o, remaining |-> o.qty, price |-> 0, qty |-> 0]
      BY <1>2 DEF Admit, Callable
    <2>2. Busy' /\ seq' - 1 = seq
      BY <2>1 DEF Busy, Idle, BookInv, TypeOK
    <2>3. QED
      BY <2>1, <2>2 DEF Abstract!bookVars
  <1>3. QED
    BY <1>1, <1>2

\* The matching loop, its sorted slices, its break, the partial fills and the
\* resting remainder implement the closed form of price-time priority: every
\* call of Apply returns the fill and leaves the book it prescribes.
THEOREM RefinementCorrect == Spec => ImplementsPriceTime
  <1>1. Init => LoopInv
    BY FS_EmptySet DEF Init, LoopInv, Busy
  <1>2. BookInv /\ LoopInv /\ [Next]_vars => LoopInv'
    BY LoopStep
  <1>3. Init => Abstract!Init
    BY DEF Init, Abstract!Init, Busy
  <1>4. BookInv /\ LoopInv /\ [Next]_vars => [Abstract!Next]_(Abstract!bookVars)
    <2> SUFFICES ASSUME BookInv, LoopInv, [Next]_vars
                 PROVE  [Abstract!Next]_(Abstract!bookVars)
      OBVIOUS
    <2>1. CASE UNCHANGED vars
      BY <2>1 DEF vars, Abstract!bookVars, Busy
    <2>2. QED
      BY <2>1, ShortCalls, FinishServes, LoopStutters DEF Next, Abstract!Next
  <1>5. QED
    BY <1>1, <1>2, <1>3, <1>4, BookInductive, PTL DEF Spec, ImplementsPriceTime, Abstract!Spec
=============================================================================
