----------------------- MODULE MetricsWindows_proofs -----------------------
(***************************************************************************)
(* Proofs about telemetry: the rows of TimescaleDB are computed from       *)
(* published events of their own submission and bucket, none of them       *)
(* twice, for any runs, windows, batches and faults.                       *)
(***************************************************************************)
EXTENDS MetricsWindows, SequenceTheorems, FiniteSetTheorems, TLAPS

-----------------------------------------------------------------------------
(* The emitter: the inductive invariant *)

\* d and e are the same event.
Same(d, e) == d.sub = e.sub /\ d.id = e.id

\* No event is twice in A; A and B share no event.
NoDup(A) == \A i, j \in 1..Len(A) : Same(A[i], A[j]) => i = j
Apart(A, B) == \A i \in 1..Len(A) : \A j \in 1..Len(B) : ~Same(A[i], B[j])

\* A has no result of run R from the n-th on.
Before(A, R, n) == \A i \in 1..Len(A) : \A k \in n..Len(R) : ~Same(A[i], R[k])

\* A holds events of s alone.
Mine(A, s) == A \in Seq(OrderResult) /\ \A i \in 1..Len(A) : A[i].sub = s

\* The events of submission s, whose run is R, in the producer's buffer P, in
\* the batch Q and in the log L are different ones, and different from those
\* from n on, which the emitter has not reached.
Flow(L, P, Q, R, n, s) ==
    /\ Mine(P, s) /\ Mine(Q, s)
    /\ NoDup(P) /\ NoDup(Q) /\ Apart(P, Q)
    /\ Apart(L, P) /\ Apart(L, Q)
    /\ Before(L, R, n) /\ Before(P, R, n) /\ Before(Q, R, n)

EmitInv ==
    /\ results \in RunResults
    /\ next \in [Subs -> Nat \ {0}]
    /\ buffered \in [Subs -> Seq(OrderResult)] /\ batch \in [Subs -> Seq(OrderResult)]
    /\ log \in Seq(OrderResult) /\ NoDup(log)
    /\ \A s \in Subs : Flow(log, buffered[s], batch[s], results[s], next[s], s)

-----------------------------------------------------------------------------
(* Sequences without a repeated event *)

LEMMA ConcatApart ==
    ASSUME NEW S, NEW A \in Seq(S), NEW B \in Seq(S), NEW X
    PROVE  /\ Apart(A, X) /\ Apart(B, X) => Apart(A \o B, X)
           /\ Apart(X, A) /\ Apart(X, B) => Apart(X, A \o B)
  <1>1. ASSUME NEW i \in 1..Len(A \o B)
        PROVE  (i \in 1..Len(A) /\ (A \o B)[i] = A[i])
               \/ (i - Len(A) \in 1..Len(B) /\ (A \o B)[i] = B[i - Len(A)])
    BY ConcatProperties, LenProperties
  <1>2. QED
    BY <1>1 DEF Apart

LEMMA ConcatNoDup ==
    ASSUME NEW S, NEW A \in Seq(S), NEW B \in Seq(S), NoDup(A), NoDup(B), Apart(A, B)
    PROVE  NoDup(A \o B)
  <1>1. ASSUME NEW i \in 1..Len(A \o B)
        PROVE  (i \in 1..Len(A) /\ (A \o B)[i] = A[i])
               \/ (i - Len(A) \in 1..Len(B) /\ (A \o B)[i] = B[i - Len(A)])
    BY ConcatProperties, LenProperties
  <1>2. Len(A) \in Nat /\ Len(B) \in Nat /\ Len(A \o B) = Len(A) + Len(B)
    BY ConcatProperties, LenProperties
  <1>3. ASSUME NEW i \in 1..Len(A \o B), NEW j \in 1..Len(A \o B),
               Same((A \o B)[i], (A \o B)[j])
        PROVE  i = j
    <2> DEFINE C == A \o B
    <2>1. i \in Int /\ j \in Int
      BY <1>2
    <2>2. \A d, e : Same(d, e) => Same(e, d)
      BY DEF Same
    <2> HIDE DEF C
    <2>3. CASE i \in 1..Len(A) /\ (A \o B)[i] = A[i]
      <3>1. CASE j \in 1..Len(A) /\ (A \o B)[j] = A[j]
        BY <1>3, <2>3, <3>1 DEF NoDup
      <3>2. CASE j - Len(A) \in 1..Len(B) /\ (A \o B)[j] = B[j - Len(A)]
        BY <1>3, <2>3, <3>2 DEF Apart
      <3>3. QED
        BY <1>1, <3>1, <3>2
    <2>4. CASE i - Len(A) \in 1..Len(B) /\ (A \o B)[i] = B[i - Len(A)]
      <3>1. CASE j \in 1..Len(A) /\ (A \o B)[j] = A[j]
        BY <1>3, <2>2, <2>4, <3>1 DEF Apart
      <3>2. CASE j - Len(A) \in 1..Len(B) /\ (A \o B)[j] = B[j - Len(A)]
        <4>1. i - Len(A) = j - Len(A)
          BY <1>3, <2>4, <3>2 DEF NoDup
        <4>2. QED
          BY <1>2, <2>1, <4>1
      <3>3. QED
        BY <1>1, <3>1, <3>2
    <2>5. QED
      BY <1>1, <2>3, <2>4
  <1>4. QED
    BY <1>3 DEF NoDup

LEMMA ConcatBefore ==
    ASSUME NEW S, NEW A \in Seq(S), NEW B \in Seq(S), NEW R, NEW n,
           Before(A, R, n), Before(B, R, n)
    PROVE  Before(A \o B, R, n)
  <1>1. ASSUME NEW i \in 1..Len(A \o B)
        PROVE  (i \in 1..Len(A) /\ (A \o B)[i] = A[i])
               \/ (i - Len(A) \in 1..Len(B) /\ (A \o B)[i] = B[i - Len(A)])
    BY ConcatProperties, LenProperties
  <1>2. QED
    BY <1>1 DEF Before

LEMMA ConcatMine ==
    ASSUME NEW A, NEW B, NEW s, Mine(A, s), Mine(B, s)
    PROVE  Mine(A \o B, s)
  <1>1. ASSUME NEW i \in 1..Len(A \o B)
        PROVE  (i \in 1..Len(A) /\ (A \o B)[i] = A[i])
               \/ (i - Len(A) \in 1..Len(B) /\ (A \o B)[i] = B[i - Len(A)])
    BY ConcatProperties, LenProperties DEF Mine
  <1>2. QED
    BY <1>1, ConcatProperties DEF Mine

\* A sequence and its first element.
LEMMA HeadApart ==
    ASSUME NEW S, NEW A \in Seq(S), A # <<>>, NoDup(A)
    PROVE  /\ Tail(A) \in Seq(S) /\ <<Head(A)>> \in Seq(S) /\ Head(A) = A[1]
           /\ NoDup(Tail(A)) /\ NoDup(<<Head(A)>>) /\ Apart(<<Head(A)>>, Tail(A))
           /\ \A i \in 1..Len(Tail(A)) : i + 1 \in 1..Len(A) /\ Tail(A)[i] = A[i + 1]
           /\ 1 \in 1..Len(A)
  <1>1. /\ Tail(A) \in Seq(S) /\ Head(A) \in S /\ Head(A) = A[1] /\ Len(A) \in Nat
        /\ Len(Tail(A)) = Len(A) - 1 /\ Len(A) > 0
        /\ \A i \in 1..(Len(A) - 1) : Tail(A)[i] = A[i + 1]
    BY HeadTailProperties, LenProperties, EmptySeq
  <1>2. \A i \in 1..Len(Tail(A)) : i + 1 \in 1..Len(A) /\ Tail(A)[i] = A[i + 1] /\ i + 1 # 1
    BY <1>1
  <1>3. <<Head(A)>> \in Seq(S) /\ Len(<<Head(A)>>) = 1 /\ <<Head(A)>>[1] = A[1]
    BY <1>1
  <1>4. NoDup(Tail(A))
    <2>1. ASSUME NEW i \in 1..Len(Tail(A)), NEW j \in 1..Len(Tail(A)),
                 Same(Tail(A)[i], Tail(A)[j])
          PROVE  i = j
      <3>1. i + 1 = j + 1
        BY <1>2, <2>1 DEF NoDup
      <3>2. i \in Int /\ j \in Int
        BY <1>1
      <3>3. QED
        BY <3>1, <3>2
    <2>2. QED
      BY <2>1 DEF NoDup
  <1>5. NoDup(<<Head(A)>>)
    BY <1>3 DEF NoDup
  <1>6. 1 \in 1..Len(A)
    BY <1>1
  <1>7. Apart(<<Head(A)>>, Tail(A))
    <2>1. ASSUME NEW j \in 1..Len(Tail(A)) PROVE ~Same(A[1], Tail(A)[j])
      BY <1>2, <1>6 DEF NoDup
    <2>2. \A i \in 1..Len(<<Head(A)>>) : <<Head(A)>>[i] = A[1]
      BY <1>3
    <2>3. QED
      BY <2>1, <2>2 DEF Apart
  <1>8. QED
    BY <1>1, <1>2, <1>3, <1>4, <1>5, <1>6, <1>7

-----------------------------------------------------------------------------
(* The way of an event *)

\* The run R of submission s: every result is its own.
WellRun(R, s) ==
    /\ Mine(R, s)
    /\ \A i, j \in 1..Len(R) : R[i].id = R[j].id => i = j

LEMMA RunsAreWell == ASSUME EmitInv PROVE \A s \in Subs : WellRun(results[s], s)
  BY MetricsAssumption DEF EmitInv, WellRun, Mine

LEMMA NoneOf ==
    ASSUME NEW s, NEW X, NEW R, NEW n
    PROVE  /\ Mine(<<>>, s) /\ NoDup(<<>>) /\ Before(<<>>, R, n)
           /\ Apart(X, <<>>) /\ Apart(<<>>, X)
  BY DEF Mine, NoDup, Before, Apart

\* The emitter leaves out a failed result.
LEMMA FlowSkips ==
    ASSUME NEW L, NEW P, NEW Q, NEW R, NEW n \in Nat, NEW s, Flow(L, P, Q, R, n, s), WellRun(R, s)
    PROVE  Flow(L, P, Q, R, n + 1, s)
  <1>1. \A k \in (n + 1)..Len(R) : k \in n..Len(R)
    BY LenProperties DEF WellRun, Mine
  <1>2. QED
    BY <1>1 DEF Flow, Before

\* The emitter adds the n-th result to the batch.
LEMMA FlowTakes ==
    ASSUME NEW L, NEW P, NEW Q, NEW R, NEW s, NEW n \in 1..Len(R),
           Flow(L, P, Q, R, n, s), WellRun(R, s)
    PROVE  Flow(L, P, Append(Q, R[n]), R, n + 1, s)
  <1> DEFINE X == <<R[n]>>
  <1>1. R \in Seq(OrderResult) /\ Len(R) \in Nat /\ n \in Nat /\ n \in n..Len(R)
        /\ R[n] \in OrderResult /\ R[n].sub = s
    BY LenProperties, ElementOfSeq DEF WellRun, Mine
  <1>2. X \in Seq(OrderResult) /\ Len(X) = 1 /\ X[1] = R[n]
    BY <1>1
  <1>3. Append(Q, R[n]) = Q \o X
    BY <1>1, AppendIsConcat DEF Flow, Mine
  <1> HIDE DEF X
  <1>4. \A i \in 1..Len(X) : X[i] = R[n]
    BY <1>2
  <1>5. Mine(X, s) /\ NoDup(X)
    <2>1. \A i \in 1..Len(X) : i = 1
      BY <1>2
    <2>2. QED
      BY <1>1, <1>2, <1>4, <2>1 DEF Mine, NoDup
  <1>6. Apart(P, X) /\ Apart(Q, X) /\ Apart(L, X)
    BY <1>1, <1>4 DEF Flow, Before, Apart
  <1>7. Before(X, R, n + 1)
    <2>1. ASSUME NEW k \in (n + 1)..Len(R) PROVE ~Same(R[n], R[k])
      <3>1. k \in 1..Len(R) /\ k # n
        BY <1>1
      <3>2. QED
        BY <3>1 DEF WellRun, Same
    <2>2. QED
      BY <1>4, <2>1 DEF Before
  <1>8. Flow(L, P, Q, R, n + 1, s)
    BY <1>1, FlowSkips
  <1>9. Mine(Q \o X, s)
    BY <1>5, ConcatMine DEF Flow
  <1>10. NoDup(Q \o X)
    BY <1>2, <1>5, <1>6, ConcatNoDup DEF Flow, Mine
  <1>11. Apart(P, Q \o X) /\ Apart(L, Q \o X)
    BY <1>2, <1>6, ConcatApart DEF Flow, Mine
  <1>12. Before(Q \o X, R, n + 1)
    BY <1>2, <1>7, <1>8, ConcatBefore DEF Flow, Mine
  <1>13. QED
    BY <1>3, <1>8, <1>9, <1>10, <1>11, <1>12 DEF Flow

\* The batch is handed to the producer.
LEMMA FlowFlushes ==
    ASSUME NEW L, NEW P, NEW Q, NEW R, NEW n, NEW s, Flow(L, P, Q, R, n, s)
    PROVE  Flow(L, P \o Q, <<>>, R, n, s)
  <1>1. P \in Seq(OrderResult) /\ Q \in Seq(OrderResult)
    BY DEF Flow, Mine
  <1>2. Mine(P \o Q, s)
    BY ConcatMine DEF Flow
  <1>3. NoDup(P \o Q)
    BY <1>1, ConcatNoDup DEF Flow
  <1>4. Apart(L, P \o Q)
    BY <1>1, ConcatApart DEF Flow
  <1>5. Before(P \o Q, R, n)
    BY <1>1, ConcatBefore DEF Flow
  <1>6. QED
    BY <1>2, <1>3, <1>4, <1>5, NoneOf DEF Flow

\* Events are lost.
LEMMA FlowLoses ==
    ASSUME NEW L, NEW P, NEW Q, NEW R, NEW n, NEW s, Flow(L, P, Q, R, n, s)
    PROVE  Flow(L, P, <<>>, R, n, s) /\ Flow(L, <<>>, Q, R, n, s)
  BY NoneOf DEF Flow

\* The first buffered event is delivered.
LEMMA FlowDelivers ==
    ASSUME NEW L \in Seq(OrderResult), NEW P, NEW Q, NEW R, NEW n, NEW s,
           Flow(L, P, Q, R, n, s), NoDup(L), P # <<>>
    PROVE  /\ Mine(<<Head(P)>>, s) /\ Append(L, Head(P)) = L \o <<Head(P)>>
           /\ NoDup(L \o <<Head(P)>>)
           /\ Flow(L \o <<Head(P)>>, Tail(P), Q, R, n, s)
           /\ Flow(L, Tail(P), Q, R, n, s)
  <1> DEFINE X == <<Head(P)>>
             T == Tail(P)
  <1>1. P \in Seq(OrderResult)
    BY DEF Flow, Mine
  <1>2. /\ T \in Seq(OrderResult) /\ X \in Seq(OrderResult) /\ Head(P) = P[1]
        /\ NoDup(T) /\ NoDup(X) /\ Apart(X, T)
        /\ \A i \in 1..Len(T) : i + 1 \in 1..Len(P) /\ T[i] = P[i + 1]
        /\ 1 \in 1..Len(P)
    BY <1>1, HeadApart DEF Flow
  <1>3. Append(L, Head(P)) = L \o X
    BY <1>1, <1>2, AppendIsConcat, ElementOfSeq
  <1>4. \A i \in 1..Len(X) : X[i] = P[1]
    BY <1>2
  <1> HIDE DEF X, T
  <1>5. Mine(X, s) /\ Mine(T, s)
    BY <1>2, <1>4 DEF Flow, Mine
  <1>6. /\ Apart(L, X) /\ Apart(X, Q) /\ Before(X, R, n)
        /\ Apart(L, T) /\ Apart(T, Q) /\ Before(T, R, n)
    BY <1>2, <1>4 DEF Flow, Apart, Before
  <1>7. NoDup(L \o X)
    BY <1>2, <1>6, ConcatNoDup
  <1>8. Apart(L \o X, T) /\ Apart(L \o X, Q)
    BY <1>2, <1>6, ConcatApart DEF Flow
  <1>9. Before(L \o X, R, n)
    BY <1>2, <1>6, ConcatBefore DEF Flow
  <1>10. Flow(L \o X, T, Q, R, n, s) /\ Flow(L, T, Q, R, n, s)
    BY <1>2, <1>5, <1>6, <1>8, <1>9 DEF Flow
  <1>11. QED
    BY <1>3, <1>5, <1>7, <1>10 DEF X, T

\* All buffered events are delivered.
LEMMA FlowCloses ==
    ASSUME NEW L \in Seq(OrderResult), NEW P, NEW Q, NEW R, NEW n, NEW s,
           Flow(L, P, Q, R, n, s), NoDup(L)
    PROVE  Mine(P, s) /\ NoDup(L \o P) /\ Flow(L \o P, <<>>, Q, R, n, s)
  <1>1. P \in Seq(OrderResult)
    BY DEF Flow, Mine
  <1>2. NoDup(L \o P)
    BY <1>1, ConcatNoDup DEF Flow
  <1>3. Apart(L \o P, Q)
    BY <1>1, ConcatApart DEF Flow
  <1>4. Before(L \o P, R, n)
    BY <1>1, ConcatBefore DEF Flow
  <1>5. QED
    BY <1>2, <1>3, <1>4, NoneOf DEF Flow

\* Events of another submission t reach the log.
LEMMA FlowOther ==
    ASSUME NEW L \in Seq(OrderResult), NEW P, NEW Q, NEW R, NEW n \in Nat \ {0}, NEW s,
           Flow(L, P, Q, R, n, s), WellRun(R, s), NEW t, t # s, NEW X, Mine(X, t)
    PROVE  Flow(L \o X, P, Q, R, n, s)
  <1>1. X \in Seq(OrderResult) /\ Len(R) \in Nat
    BY LenProperties DEF Mine, WellRun
  <1>2. \A k \in n..Len(R) : R[k].sub = s
    BY <1>1 DEF WellRun, Mine
  <1>3. Apart(X, P) /\ Apart(X, Q) /\ Before(X, R, n)
    BY <1>2 DEF Flow, Mine, Apart, Before, Same
  <1>4. Apart(L \o X, P) /\ Apart(L \o X, Q)
    BY <1>1, <1>3, ConcatApart DEF Flow
  <1>5. Before(L \o X, R, n)
    BY <1>1, <1>3, ConcatBefore DEF Flow
  <1>6. QED
    BY <1>4, <1>5 DEF Flow

-----------------------------------------------------------------------------
(* The emitter: the steps *)

LEMMA EmitNext ==
    ASSUME results' \in RunResults, next' \in [Subs -> Nat \ {0}],
           buffered' \in [Subs -> Seq(OrderResult)], batch' \in [Subs -> Seq(OrderResult)],
           log' \in Seq(OrderResult), NoDup(log'),
           \A s \in Subs : Flow(log', buffered'[s], batch'[s], results'[s], next'[s], s)
    PROVE  EmitInv'
  BY DEF EmitInv, Flow, NoDup, Apart, Before, Mine, Same, OrderResult

\* A step of the emitter or producer of s that publishes nothing.
LEMMA EmitMoves ==
    ASSUME EmitInv, NEW s \in Subs, UNCHANGED <<results, log>>,
           NEW n \in Nat \ {0}, next' = [next EXCEPT ![s] = n],
           NEW P, buffered' = [buffered EXCEPT ![s] = P],
           NEW Q, batch' = [batch EXCEPT ![s] = Q],
           Flow(log, P, Q, results[s], n, s)
    PROVE  EmitInv'
  <1>1. /\ results' \in RunResults /\ next' \in [Subs -> Nat \ {0}]
        /\ buffered' \in [Subs -> Seq(OrderResult)] /\ batch' \in [Subs -> Seq(OrderResult)]
        /\ log' \in Seq(OrderResult) /\ NoDup(log')
    BY DEF EmitInv, Flow, Mine
  <1>2. ASSUME NEW t \in Subs
        PROVE  Flow(log', buffered'[t], batch'[t], results'[t], next'[t], t)
    <2>1. CASE t = s
      <3>1. buffered'[t] = P /\ batch'[t] = Q /\ next'[t] = n
        BY <2>1 DEF EmitInv
      <3>2. QED
        BY <2>1, <3>1
    <2>2. CASE t # s
      <3>1. buffered'[t] = buffered[t] /\ batch'[t] = batch[t] /\ next'[t] = next[t]
        BY <2>2 DEF EmitInv
      <3>2. QED
        BY <3>1 DEF EmitInv
    <2>3. QED
      BY <2>1, <2>2
  <1>3. QED
    BY <1>1, <1>2, EmitNext

\* A step that publishes events X of s.
LEMMA EmitPublishes ==
    ASSUME EmitInv, NEW s \in Subs, UNCHANGED <<results, next, batch>>,
           NEW X, Mine(X, s), log' = log \o X, NoDup(log \o X),
           NEW P, buffered' = [buffered EXCEPT ![s] = P],
           Flow(log \o X, P, batch[s], results[s], next[s], s)
    PROVE  EmitInv'
  <1>1. /\ results' \in RunResults /\ next' \in [Subs -> Nat \ {0}]
        /\ buffered' \in [Subs -> Seq(OrderResult)] /\ batch' \in [Subs -> Seq(OrderResult)]
        /\ log' \in Seq(OrderResult) /\ NoDup(log')
    BY ConcatProperties DEF EmitInv, Flow, Mine
  <1>2. ASSUME NEW t \in Subs
        PROVE  Flow(log', buffered'[t], batch'[t], results'[t], next'[t], t)
    <2>1. CASE t = s
      <3>1. buffered'[t] = P
        BY <2>1 DEF EmitInv
      <3>2. QED
        BY <2>1, <3>1
    <2>2. CASE t # s
      <3>1. buffered'[t] = buffered[t]
        BY <2>2 DEF EmitInv
      <3>2. /\ Flow(log, buffered[t], batch[t], results[t], next[t], t)
            /\ WellRun(results[t], t) /\ next[t] \in Nat \ {0} /\ log \in Seq(OrderResult)
        BY RunsAreWell DEF EmitInv
      <3>3. Flow(log \o X, buffered[t], batch[t], results[t], next[t], t)
        BY <2>2, <3>2, FlowOther
      <3>4. QED
        BY <3>1, <3>3
    <2>3. QED
      BY <2>1, <2>2
  <1>3. QED
    BY <1>1, <1>2, EmitNext

LEMMA EmitResultStep ==
    ASSUME EmitInv, NEW s \in Subs, EmitResult(s)
    PROVE  EmitInv'
  <1> DEFINE n == next[s]
             r == results[s][n]
             b == IF r.err THEN batch[s] ELSE Append(batch[s], r)
             full == Len(b) >= BatchSize
             P == IF full THEN BatchEmit(s, b) ELSE buffered[s]
             Q == IF full THEN <<>> ELSE b
  <1>1. /\ WellRun(results[s], s) /\ Flow(log, buffered[s], batch[s], results[s], n, s)
        /\ n \in Nat \ {0} /\ n <= Len(results[s]) /\ UNCHANGED <<results, log>>
        /\ next' = [next EXCEPT ![s] = n + 1]
        /\ buffered' = [buffered EXCEPT ![s] = P] /\ batch' = [batch EXCEPT ![s] = Q]
    BY RunsAreWell DEF EmitInv, EmitResult
  <1>2. n \in 1..Len(results[s])
    BY <1>1, LenProperties DEF WellRun, Mine
  <1>3. Flow(log, buffered[s], b, results[s], n + 1, s)
    <2>1. CASE r.err
      BY <1>1, <2>1, FlowSkips
    <2>2. CASE ~r.err
      <3>1. Flow(log, buffered[s], Append(batch[s], r), results[s], n + 1, s)
        BY <1>1, <1>2, FlowTakes
      <3>2. QED
        BY <2>2, <3>1
    <2>3. QED
      BY <2>1, <2>2
  <1> HIDE DEF b
  <1>4. Flow(log, P, Q, results[s], n + 1, s)
    <2>1. Flow(log, buffered[s] \o b, <<>>, results[s], n + 1, s)
      BY <1>3, FlowFlushes
    <2>2. Flow(log, buffered[s], <<>>, results[s], n + 1, s)
      BY <1>3, FlowLoses
    <2>3. QED
      BY <1>3, <2>1, <2>2 DEF BatchEmit
  <1> HIDE DEF P, Q
  <1>5. n + 1 \in Nat \ {0}
    BY <1>1
  <1>6. QED
    BY <1>1, <1>4, <1>5, EmitMoves

LEMMA EmitRestStep ==
    ASSUME EmitInv, NEW s \in Subs, EmitRest(s)
    PROVE  EmitInv'
  <1> DEFINE n == next[s]
             P == BatchEmit(s, batch[s])
  <1>1. /\ WellRun(results[s], s) /\ Flow(log, buffered[s], batch[s], results[s], n, s)
        /\ n \in Nat \ {0} /\ UNCHANGED <<results, log>>
        /\ next' = [next EXCEPT ![s] = n + 1]
        /\ buffered' = [buffered EXCEPT ![s] = P] /\ batch' = [batch EXCEPT ![s] = <<>>]
    BY RunsAreWell DEF EmitInv, EmitRest, Rest
  <1>2. Flow(log, buffered[s], batch[s], results[s], n + 1, s)
    BY <1>1, FlowSkips
  <1>3. Flow(log, P, <<>>, results[s], n + 1, s)
    <2>1. Flow(log, buffered[s] \o batch[s], <<>>, results[s], n + 1, s)
      BY <1>2, FlowFlushes
    <2>2. Flow(log, buffered[s], <<>>, results[s], n + 1, s)
      BY <1>2, FlowLoses
    <2>3. QED
      BY <2>1, <2>2 DEF BatchEmit
  <1> HIDE DEF P
  <1>4. n + 1 \in Nat \ {0}
    BY <1>1
  <1>5. QED
    BY <1>1, <1>3, <1>4, EmitMoves

LEMMA DeliverStep ==
    ASSUME EmitInv, NEW s \in Subs, Deliver(s)
    PROVE  EmitInv'
  <1> DEFINE P == buffered[s]
             X == <<Head(P)>>
  <1>1. /\ Flow(log, P, batch[s], results[s], next[s], s) /\ log \in Seq(OrderResult)
        /\ NoDup(log) /\ P # <<>> /\ UNCHANGED <<results, next, batch>>
        /\ log' = Append(log, Head(P)) /\ buffered' = [buffered EXCEPT ![s] = Tail(P)]
    BY DEF EmitInv, Deliver
  <1>2. /\ Mine(X, s) /\ Append(log, Head(P)) = log \o X /\ NoDup(log \o X)
        /\ Flow(log \o X, Tail(P), batch[s], results[s], next[s], s)
    BY <1>1, FlowDelivers
  <1> HIDE DEF X
  <1>3. QED
    BY <1>1, <1>2, EmitPublishes

LEMMA FailStep ==
    ASSUME EmitInv, NEW s \in Subs, RecordFails(s)
    PROVE  EmitInv'
  <1>1. /\ Flow(log, buffered[s], batch[s], results[s], next[s], s) /\ log \in Seq(OrderResult)
        /\ NoDup(log) /\ buffered[s] # <<>> /\ UNCHANGED <<results, next, batch, log>>
        /\ buffered' = [buffered EXCEPT ![s] = Tail(buffered[s])]
        /\ next[s] \in Nat \ {0}
    BY DEF EmitInv, RecordFails
  <1>2. Flow(log, Tail(buffered[s]), batch[s], results[s], next[s], s)
    BY <1>1, FlowDelivers
  <1>3. next' = [next EXCEPT ![s] = next[s]] /\ batch' = [batch EXCEPT ![s] = batch[s]]
    BY <1>1 DEF EmitInv
  <1>4. QED
    BY <1>1, <1>2, <1>3, EmitMoves

LEMMA CloseStep ==
    ASSUME EmitInv, NEW s \in Subs, CloseEmitter(s)
    PROVE  EmitInv'
  <1>1. /\ Flow(log, buffered[s], batch[s], results[s], next[s], s) /\ log \in Seq(OrderResult)
        /\ NoDup(log) /\ UNCHANGED <<results, next, batch>>
        /\ log' = log \o buffered[s] /\ buffered' = [buffered EXCEPT ![s] = <<>>]
    BY DEF EmitInv, CloseEmitter
  <1>2. /\ Mine(buffered[s], s) /\ NoDup(log \o buffered[s])
        /\ Flow(log \o buffered[s], <<>>, batch[s], results[s], next[s], s)
    BY <1>1, FlowCloses
  <1>3. QED
    BY <1>1, <1>2, EmitPublishes

LEMMA DieStep ==
    ASSUME EmitInv, NEW s \in Subs, WorkerDies(s)
    PROVE  EmitInv'
  <1> DEFINE n == Len(results[s]) + 2
  <1>1. /\ WellRun(results[s], s) /\ Flow(log, buffered[s], batch[s], results[s], next[s], s)
        /\ UNCHANGED <<results, log>> /\ next' = [next EXCEPT ![s] = n]
        /\ buffered' = [buffered EXCEPT ![s] = <<>>] /\ batch' = [batch EXCEPT ![s] = <<>>]
    BY RunsAreWell DEF EmitInv, WorkerDies
  <1>2. Len(results[s]) \in Nat
    BY <1>1, LenProperties DEF WellRun, Mine
  <1>3. n..Len(results[s]) = {} /\ n \in Nat \ {0}
    BY <1>2
  <1> HIDE DEF n
  <1>4. Before(log, results[s], n) /\ Before(<<>>, results[s], n)
    BY <1>3 DEF Before
  <1>5. Flow(log, <<>>, <<>>, results[s], n, s)
    BY <1>4, NoneOf DEF Flow
  <1>6. QED
    BY <1>1, <1>3, <1>5, EmitMoves

LEMMA EmitStart == ASSUME Init PROVE EmitInv
  <1>1. \A s \in Subs : /\ buffered[s] = <<>> /\ batch[s] = <<>> /\ next[s] = 1
    BY DEF Init
  <1>2. log = <<>> /\ NoDup(<<>>) /\ \A s \in Subs : Flow(<<>>, <<>>, <<>>, results[s], 1, s)
    BY NoneOf DEF Flow, Init
  <1>3. <<>> \in Seq(OrderResult)
    BY EmptySeq
  <1>4. /\ results \in RunResults /\ next \in [Subs -> Nat \ {0}]
        /\ buffered \in [Subs -> Seq(OrderResult)] /\ batch \in [Subs -> Seq(OrderResult)]
        /\ log \in Seq(OrderResult)
    <2> DEFINE none == <<>>
    <2>1. none \in Seq(OrderResult)
      BY <1>3
    <2>2. buffered = [s \in Subs |-> none] /\ batch = [s \in Subs |-> none] /\ log = none
          /\ results \in RunResults /\ next = [s \in Subs |-> 1]
      BY DEF Init
    <2> HIDE DEF none
    <2>3. QED
      BY <2>1, <2>2
  <1>5. \A s \in Subs : Flow(log, buffered[s], batch[s], results[s], next[s], s)
    BY <1>1, <1>2
  <1>6. QED
    BY <1>2, <1>4, <1>5 DEF EmitInv

LEMMA EmitStep == ASSUME EmitInv, [Next]_vars PROVE EmitInv'
  <1>1. ASSUME UNCHANGED <<results, next, batch, buffered, log>> PROVE EmitInv'
    BY <1>1, EmitNext DEF EmitInv
  <1>2. CASE UNCHANGED vars \/ HandleRecord \/ FlushFails \/ Commit \/ StopConsumer \/ StartConsumer
    BY <1>1, <1>2 DEF vars, workerVars, HandleRecord, FlushFails, Commit, StopConsumer, StartConsumer
  <1>3. ASSUME NEW s \in Subs, ListTopics(s) \/ CreateTopics(s) PROVE EmitInv'
    BY <1>1, <1>3 DEF ListTopics, CreateTopics
  <1>4. QED
    BY <1>2, <1>3, EmitResultStep, EmitRestStep, DeliverStep, FailStep, CloseStep, DieStep
       DEF Next, Worker

-----------------------------------------------------------------------------
(* The consumer: the inductive invariant *)

\* The samples A are different events of s in bucket b, all of them among the
\* first n of the log L.
Samples(A, s, b, L, n) ==
    /\ A \in Seq(OrderResult) /\ A # <<>> /\ NoDup(A)
    /\ \A i \in 1..Len(A) : /\ A[i].sub = s /\ Bucket(A[i]) = b
                            /\ \E j \in 1..n : A[i] = L[j]

\* An open window holds events the consumer has handled since it started.
WindowsOf(w, L, n) ==
    \A s \in DOMAIN w : /\ DOMAIN w[s] = {"bucket", "samples"}
                        /\ Samples(w[s].samples, s, w[s].bucket, L, n)

RowsOf(r, L) ==
    \A k \in DOMAIN r : /\ r[k].sampleN = Len(r[k].samples)
                        /\ Samples(r[k].samples, k[1], k[2], L, Len(L))

WindowInv ==
    /\ up \in BOOLEAN /\ pos \in 0..Len(log) /\ committed \in 0..Len(log)
    /\ ~up => DOMAIN windows = {}
    /\ WindowsOf(windows, log, pos) /\ RowsOf(rows, log)

-----------------------------------------------------------------------------
(* Samples *)

\* The log grows, or more of it has been handled.
LEMMA SamplesGrow ==
    ASSUME NEW L \in Seq(OrderResult), NEW X \in Seq(OrderResult), NEW A, NEW s, NEW b,
           NEW n \in 0..Len(L), NEW m \in 0..Len(L \o X), n <= m, Samples(A, s, b, L, n)
    PROVE  Samples(A, s, b, L \o X, m)
  <1>1. Len(L) \in Nat /\ Len(L \o X) \in Nat /\ \A j \in 1..Len(L) : (L \o X)[j] = L[j]
    BY ConcatProperties, LenProperties
  <1>2. \A j \in 1..n : j \in 1..m /\ (L \o X)[j] = L[j]
    BY <1>1
  <1>3. QED
    BY <1>2 DEF Samples

LEMMA SamplesMore ==
    ASSUME NEW L \in Seq(OrderResult), NEW A, NEW s, NEW b,
           NEW n \in 0..Len(L), NEW m \in 0..Len(L), n <= m, Samples(A, s, b, L, n)
    PROVE  Samples(A, s, b, L, m)
  <1>1. \A j \in 1..n : j \in 1..m
    BY LenProperties
  <1>2. QED
    BY <1>1 DEF Samples

\* The event that opens a window.
LEMMA SamplesFirst ==
    ASSUME NEW L \in Seq(OrderResult), NEW n \in 0..Len(L), n < Len(L)
    PROVE  LET e == L[n + 1] IN Samples(<<e>>, e.sub, Bucket(e), L, n + 1)
  <1> DEFINE e == L[n + 1]
             X == <<e>>
  <1>1. Len(L) \in Nat /\ n + 1 \in 1..Len(L) /\ n + 1 \in 1..(n + 1)
    BY LenProperties
  <1>2. e \in OrderResult
    BY <1>1, ElementOfSeq
  <1>3. X \in Seq(OrderResult) /\ X # <<>> /\ \A i \in 1..Len(X) : i = 1 /\ X[i] = e
    BY <1>2
  <1> HIDE DEF X
  <1>4. NoDup(X)
    BY <1>3 DEF NoDup
  <1>5. Samples(X, e.sub, Bucket(e), L, n + 1)
    BY <1>1, <1>3, <1>4 DEF Samples
  <1>6. QED
    BY <1>5 DEF X

\* The next event of the log is added to the window of its bucket: it is a new
\* one, for the samples are among those handled before it.
LEMMA SamplesAppend ==
    ASSUME NEW L \in Seq(OrderResult), NoDup(L), NEW A, NEW n \in 0..Len(L), n < Len(L),
           Samples(A, L[n + 1].sub, Bucket(L[n + 1]), L, n)
    PROVE  LET e == L[n + 1] IN Samples(Append(A, e), e.sub, Bucket(e), L, n + 1)
  <1> DEFINE e == L[n + 1]
             X == <<e>>
  <1>1. Len(L) \in Nat /\ n + 1 \in 1..Len(L) /\ n \in 0..Len(L) /\ n + 1 \in 0..Len(L) /\ n <= n + 1
    BY LenProperties
  <1>2. e \in OrderResult /\ A \in Seq(OrderResult)
    BY <1>1, ElementOfSeq DEF Samples
  <1>3. Append(A, e) = A \o X
    BY <1>2, AppendIsConcat
  <1>4. Samples(X, e.sub, Bucket(e), L, n + 1)
    BY SamplesFirst
  <1>5. \A i \in 1..Len(X) : X[i] = e
    BY <1>2
  <1> HIDE DEF X
  <1>6. Samples(A, e.sub, Bucket(e), L, n + 1)
    BY <1>1, SamplesMore
  <1>7. Apart(A, X)
    <2>1. ASSUME NEW i \in 1..Len(A) PROVE ~Same(A[i], e)
      <3>1. PICK j \in 1..n : A[i] = L[j]
        BY DEF Samples
      <3>2. j \in 1..Len(L) /\ j # n + 1
        BY <1>1
      <3>3. QED
        BY <1>1, <3>1, <3>2 DEF NoDup
    <2>2. QED
      BY <1>5, <2>1 DEF Apart
  <1>8. A \o X \in Seq(OrderResult) /\ NoDup(A \o X)
    BY <1>2, <1>4, <1>7, ConcatNoDup, ConcatProperties DEF Samples
  <1>9. A \o X # <<>>
    <2>1. Len(A \o X) = Len(A) + Len(X) /\ Len(A) \in Nat /\ Len(X) \in Nat /\ Len(A) # 0
      BY <1>2, <1>4, ConcatProperties, LenProperties, EmptySeq DEF Samples
    <2>2. Len(A \o X) # 0
      BY <2>1
    <2>3. QED
      BY <2>2
  <1>10. ASSUME NEW i \in 1..Len(A \o X)
         PROVE  (i \in 1..Len(A) /\ (A \o X)[i] = A[i])
                \/ (i - Len(A) \in 1..Len(X) /\ (A \o X)[i] = X[i - Len(A)])
    BY <1>2, <1>4, ConcatProperties, LenProperties DEF Samples
  <1>11. Samples(A \o X, e.sub, Bucket(e), L, n + 1)
    BY <1>4, <1>6, <1>8, <1>9, <1>10 DEF Samples
  <1>12. QED
    BY <1>3, <1>11

LEMMA RowsMore ==
    ASSUME NEW L \in Seq(OrderResult), NEW X \in Seq(OrderResult), NEW r, RowsOf(r, L)
    PROVE  RowsOf(r, L \o X)
  <1>1. Len(L) \in 0..Len(L) /\ Len(L \o X) \in 0..Len(L \o X) /\ Len(L) <= Len(L \o X)
    BY ConcatProperties, LenProperties
  <1>2. QED
    BY <1>1, SamplesGrow DEF RowsOf

\* Whatever windows a flush writes, the rows stay sound: a row that is there
\* is left alone.
LEMMA WriteKeepsRows ==
    ASSUME log \in Seq(OrderResult), WindowInv, NEW S, S \subseteq DOMAIN windows
    PROVE  RowsOf(WriteWindows(S), log)
  <1> DEFINE W == WriteWindows(S)
  <1>1. DOMAIN W = DOMAIN rows \cup ToWrite(S)
    BY DEF WriteWindows
  <1>2. ASSUME NEW k \in DOMAIN W
        PROVE  /\ W[k].sampleN = Len(W[k].samples)
               /\ Samples(W[k].samples, k[1], k[2], log, Len(log))
    <2>1. CASE k \in DOMAIN rows
      <3>1. W[k] = rows[k]
        BY <2>1 DEF WriteWindows
      <3>2. QED
        BY <2>1, <3>1 DEF WindowInv, RowsOf
    <2>2. CASE k \notin DOMAIN rows
      <3>1. k \in ToWrite(S)
        BY <1>1, <2>2
      <3>2. PICK s \in S : k = <<s, windows[s].bucket>>
        BY <3>1 DEF ToWrite
      <3>3. W[k] = Compute(windows[s].samples) /\ k[1] = s /\ k[2] = windows[s].bucket
        BY <2>2, <3>1, <3>2 DEF WriteWindows
      <3>4. /\ Compute(windows[s].samples).samples = windows[s].samples
            /\ Compute(windows[s].samples).sampleN = Len(windows[s].samples)
        BY DEF Compute
      <3>5. Samples(windows[s].samples, s, windows[s].bucket, log, pos)
        BY <3>2 DEF WindowInv, WindowsOf
      <3>6. pos \in 0..Len(log) /\ Len(log) \in 0..Len(log) /\ pos <= Len(log)
        BY LenProperties DEF WindowInv
      <3>7. Samples(windows[s].samples, s, windows[s].bucket, log, Len(log))
        BY <3>5, <3>6, SamplesMore
      <3>8. QED
        BY <3>3, <3>4, <3>7
    <2>3. QED
      BY <2>1, <2>2
  <1>3. QED
    BY <1>2 DEF RowsOf

-----------------------------------------------------------------------------
(* The consumer: the steps *)

LEMMA WindowNext ==
    ASSUME up' \in BOOLEAN, pos' \in 0..Len(log'), committed' \in 0..Len(log'),
           up' \/ DOMAIN windows' = {}, WindowsOf(windows', log', pos'), RowsOf(rows', log')
    PROVE  WindowInv'
  BY DEF WindowInv, WindowsOf, RowsOf, Samples, NoDup, Same, OrderResult, Bucket

\* A step that appends X to the log and leaves the consumer alone.
LEMMA PublishKeepsWindows ==
    ASSUME log \in Seq(OrderResult), WindowInv, NEW X \in Seq(OrderResult),
           log' = log \o X, UNCHANGED consumerVars
    PROVE  WindowInv'
  <1>1. 0..Len(log) \subseteq 0..Len(log \o X)
    BY ConcatProperties, LenProperties
  <1>2. pos \in 0..Len(log) /\ pos \in 0..Len(log \o X) /\ committed \in 0..Len(log \o X) /\ pos <= pos
    BY <1>1, LenProperties DEF WindowInv
  <1>3. WindowsOf(windows, log \o X, pos)
    BY <1>2, SamplesGrow DEF WindowInv, WindowsOf
  <1>4. RowsOf(rows, log \o X)
    BY RowsMore DEF WindowInv
  <1>5. QED
    BY <1>2, <1>3, <1>4, WindowNext DEF WindowInv, consumerVars

LEMMA HandleStep ==
    ASSUME log \in Seq(OrderResult), NoDup(log), WindowInv, HandleRecord
    PROVE  WindowInv'
  <1> DEFINE e == log[pos + 1]
             s == e.sub
  <1>1. /\ pos \in 0..Len(log) /\ pos < Len(log) /\ pos' = pos + 1 /\ log' = log
        /\ up' = up /\ up /\ committed' = committed
    BY DEF HandleRecord, WindowInv
  <1>2. pos' \in 0..Len(log) /\ pos <= pos'
    BY <1>1, LenProperties
  <1>3. WindowsOf(windows, log, pos')
    BY <1>1, <1>2, SamplesMore DEF WindowInv, WindowsOf
  <1>4. WindowsOf(windows', log, pos') /\ RowsOf(rows', log)
    <2>1. CASE s \in DOMAIN windows /\ windows[s].bucket = Bucket(e)
      <3>1. windows' = [windows EXCEPT ![s].samples = Append(@, e)] /\ rows' = rows
        BY <2>1 DEF HandleRecord
      <3>2. Samples(Append(windows[s].samples, e), s, Bucket(e), log, pos')
        <4>1. Samples(windows[s].samples, s, Bucket(e), log, pos)
          BY <2>1 DEF WindowInv, WindowsOf
        <4>2. QED
          BY <1>1, <4>1, SamplesAppend
      <3>3. DOMAIN windows[s] = {"bucket", "samples"}
        BY <2>1 DEF WindowInv, WindowsOf
      <3> HIDE DEF e
      <3>4. /\ windows'[s].samples = Append(windows[s].samples, e) /\ windows'[s].bucket = Bucket(e)
            /\ DOMAIN windows' = DOMAIN windows /\ DOMAIN windows'[s] = {"bucket", "samples"}
            /\ \A t \in DOMAIN windows : t # s => windows'[t] = windows[t]
        BY <2>1, <3>1, <3>3
      <3>5. WindowsOf(windows', log, pos')
        BY <1>3, <3>2, <3>4 DEF WindowsOf
      <3>6. QED
        BY <3>1, <3>5 DEF WindowInv
    <2>2. CASE ~(s \in DOMAIN windows /\ windows[s].bucket = Bucket(e))
      <3>1. /\ windows' = [t \in DOMAIN windows \cup {s} |-> IF t = s THEN Fresh(e) ELSE windows[t]]
            /\ rows' = WriteWindows({s} \cap DOMAIN windows)
        BY <2>2 DEF HandleRecord
      <3>2. Samples(<<e>>, s, Bucket(e), log, pos')
        BY <1>1, SamplesFirst
      <3>3. RowsOf(rows', log)
        BY <3>1, WriteKeepsRows
      <3> HIDE DEF e
      <3>4. DOMAIN Fresh(e) = {"bucket", "samples"} /\ Fresh(e).samples = <<e>> /\ Fresh(e).bucket = Bucket(e)
        BY DEF Fresh
      <3>5. /\ DOMAIN windows' = DOMAIN windows \cup {s} /\ windows'[s] = Fresh(e)
            /\ \A t \in DOMAIN windows : t # s => windows'[t] = windows[t]
        BY <3>1
      <3>6. WindowsOf(windows', log, pos')
        BY <1>3, <3>2, <3>4, <3>5 DEF WindowsOf
      <3>7. QED
        BY <3>3, <3>6
    <2>3. QED
      BY <2>1, <2>2
  <1>5. committed \in 0..Len(log) /\ up \in BOOLEAN
    BY DEF WindowInv
  <1>6. QED
    BY <1>1, <1>2, <1>4, <1>5, WindowNext

LEMMA FlushFailsStep ==
    ASSUME log \in Seq(OrderResult), WindowInv, FlushFails
    PROVE  WindowInv'
  <1>1. /\ pos \in 0..Len(log) /\ pos < Len(log) /\ pos' = pos + 1 /\ log' = log
        /\ up' = up /\ up /\ committed' = committed /\ windows' = windows
        /\ log[pos + 1].sub \in DOMAIN windows
        /\ rows' \in {rows, WriteWindows({log[pos + 1].sub})}
        /\ committed \in 0..Len(log) /\ up \in BOOLEAN
    BY DEF FlushFails, WindowInv
  <1>2. pos' \in 0..Len(log) /\ pos <= pos'
    BY <1>1, LenProperties
  <1>3. WindowsOf(windows, log, pos')
    BY <1>1, <1>2, SamplesMore DEF WindowInv, WindowsOf
  <1>4. RowsOf(rows', log)
    BY <1>1, WriteKeepsRows DEF WindowInv
  <1>5. QED
    BY <1>1, <1>2, <1>3, <1>4, WindowNext

LEMMA StopStep ==
    ASSUME log \in Seq(OrderResult), WindowInv, StopConsumer
    PROVE  WindowInv'
  <1>1. /\ log' = log /\ pos' = pos /\ committed' = committed /\ up' = FALSE
        /\ windows' = <<>> /\ \E S \in SUBSET DOMAIN windows : rows' = WriteWindows(S)
    BY DEF StopConsumer, flushAll
  <1>2. DOMAIN windows' = {}
    BY <1>1
  <1>3. RowsOf(rows', log)
    BY <1>1, WriteKeepsRows
  <1>4. WindowsOf(windows', log, pos)
    BY <1>2 DEF WindowsOf
  <1>5. QED
    BY <1>1, <1>2, <1>3, <1>4, WindowNext DEF WindowInv

LEMMA StartStep ==
    ASSUME WindowInv, StartConsumer
    PROVE  WindowInv'
  <1>1. /\ log' = log /\ committed' = committed /\ pos' = committed /\ up' = TRUE
        /\ windows' = windows /\ rows' = rows /\ DOMAIN windows = {}
    BY DEF StartConsumer, WindowInv
  <1>2. WindowsOf(windows', log, pos')
    BY <1>1 DEF WindowsOf
  <1>3. QED
    BY <1>1, <1>2, WindowNext DEF WindowInv

LEMMA WindowStart == ASSUME Init PROVE WindowInv
  <1>1. /\ up = TRUE /\ pos = 0 /\ committed = 0 /\ log = <<>>
        /\ windows = <<>> /\ rows = <<>>
    BY DEF Init
  <1>2. Len(log) = 0 /\ DOMAIN windows = {} /\ DOMAIN rows = {}
    BY <1>1
  <1>3. pos \in 0..Len(log) /\ committed \in 0..Len(log)
    BY <1>1, <1>2
  <1>4. QED
    BY <1>1, <1>2, <1>3 DEF WindowInv, WindowsOf, RowsOf

LEMMA WindowStep == ASSUME EmitInv, WindowInv, [Next]_vars PROVE WindowInv'
  <1>1. log \in Seq(OrderResult) /\ NoDup(log)
    BY DEF EmitInv
  <1>2. ASSUME UNCHANGED <<log, up, pos, windows, rows>>, committed' \in 0..Len(log) PROVE WindowInv'
    BY <1>2, WindowNext DEF WindowInv
  <1>3. CASE UNCHANGED vars \/ Commit
    BY <1>2, <1>3 DEF vars, consumerVars, Commit, WindowInv
  <1>4. ASSUME NEW s \in Subs, Worker(s) \/ RecordFails(s) \/ WorkerDies(s) PROVE WindowInv'
    BY <1>2, <1>4 DEF Worker, ListTopics, CreateTopics, EmitResult, EmitRest, RecordFails, WorkerDies,
                      consumerVars, WindowInv
  <1>5. ASSUME NEW s \in Subs, Deliver(s) PROVE WindowInv'
    <2>1. Flow(log, buffered[s], batch[s], results[s], next[s], s)
      BY DEF EmitInv
    <2>2. <<Head(buffered[s])>> \in Seq(OrderResult) /\ log' = log \o <<Head(buffered[s])>>
      BY <1>1, <1>5, <2>1, FlowDelivers DEF Deliver, Mine
    <2>3. QED
      BY <1>1, <1>5, <2>2, PublishKeepsWindows DEF Deliver
  <1>6. ASSUME NEW s \in Subs, CloseEmitter(s) PROVE WindowInv'
    BY <1>1, <1>6, PublishKeepsWindows DEF CloseEmitter, EmitInv
  <1>7. QED
    BY <1>1, <1>3, <1>4, <1>5, <1>6, HandleStep, FlushFailsStep, StopStep, StartStep DEF Next

-----------------------------------------------------------------------------
(* The theorem *)

LEMMA WindowsSound == ASSUME EmitInv, WindowInv PROVE RowsSound
  <1>1. ASSUME NEW k \in DOMAIN rows
        PROVE  LET row == rows[k] IN
                 /\ row.sampleN = Len(row.samples) /\ row.sampleN > 0
                 /\ \A i \in 1..row.sampleN :
                       /\ row.samples[i] \in Range(log)
                       /\ row.samples[i].sub = k[1] /\ Bucket(row.samples[i]) = k[2]
                       /\ \A j \in 1..(i - 1) : row.samples[j].id # row.samples[i].id
    <2> DEFINE A == rows[k].samples
               N == Len(A)
    <2>1. rows[k].sampleN = N /\ Samples(A, k[1], k[2], log, Len(log))
      BY DEF WindowInv, RowsOf
    <2>2. N \in Nat /\ N > 0
      BY <2>1, LenProperties, EmptySeq DEF Samples
    <2>3. log \in Seq(OrderResult) /\ DOMAIN log = 1..Len(log)
      BY LenProperties DEF EmitInv
    <2> HIDE DEF A
    <2>4. ASSUME NEW i \in 1..N
          PROVE  A[i] \in Range(log) /\ A[i].sub = k[1] /\ Bucket(A[i]) = k[2]
      BY <2>1, <2>3 DEF Samples, Range
    <2>5. ASSUME NEW i \in 1..N, NEW j \in 1..(i - 1) PROVE A[j].id # A[i].id
      <3>1. j \in 1..N /\ j # i
        BY <2>2
      <3>2. A[j].sub = A[i].sub
        BY <2>4, <3>1
      <3>3. QED
        BY <2>1, <3>1, <3>2 DEF Samples, NoDup, Same
    <2>6. QED
      BY <2>1, <2>2, <2>4, <2>5 DEF A
  <1>2. QED
    BY <1>1 DEF RowsSound

\* Every latency row is computed from published events of its own submission
\* and bucket, none of them counted twice, whatever the runs, the window width
\* and the batch size, and however losses, failed writes, stops, replays and
\* commits interleave (emitFleetTelemetry, handleRecord, WriteWindow, the
\* restart at the committed offset).
THEOREM RowsCorrect == Spec => []RowsSound
  <1>1. Init => EmitInv /\ WindowInv
    BY EmitStart, WindowStart
  <1>2. EmitInv /\ WindowInv /\ [Next]_vars => EmitInv' /\ WindowInv'
    BY EmitStep, WindowStep
  <1>3. EmitInv /\ WindowInv => RowsSound
    BY WindowsSound
  <1>4. QED
    BY <1>1, <1>2, <1>3, PTL DEF Spec

-----------------------------------------------------------------------------
(* Damage: the inductive invariant *)

\* Event e is one of submission s in bucket b.
Of(e, s, b) == e.sub = s /\ Bucket(e) = b

\* A holds every event of s in bucket b among the first n of the log L.
Covers(A, L, n, s, b) ==
    \A j \in 1..n : Of(L[j], s, b) => \E i \in 1..Len(A) : A[i] = L[j]

\* The log L has gone past bucket b of s.
Past(L, s, b) == \E j \in 1..Len(L) : L[j].sub = s /\ b < Bucket(L[j])

\* The open windows w hold what was handled of bucket b of s, if anything was.
Whole(L, n, w, s, b) ==
    \/ \A j \in 1..n : ~Of(L[j], s, b)
    \/ s \in DOMAIN w /\ w[s].bucket = b /\ Covers(w[s].samples, L, n, s, b)

\* Bucket b of s is in order: it has a row, which is complete for good, or what
\* was handled of it is in the open window.
Fine(L, n, w, r, s, b) ==
    IF <<s, b>> \in DOMAIN r
    THEN Past(L, s, b) /\ Covers(r[<<s, b>>].samples, L, Len(L), s, b)
    ELSE Whole(L, n, w, s, b)

Spoiled(L, n, w, r, s) == {b \in Nat : ~Fine(L, n, w, r, s, b)}

Ordered(L, s) == \A i, j \in 1..Len(L) :
    L[i].sub = s /\ L[j].sub = s /\ i <= j => Bucket(L[i]) <= Bucket(L[j])

\* At most N buckets are spoiled.
Few(D, N) == IsFiniteSet(D) /\ Cardinality(D) <= N

DamageInv ==
    /\ committed <= pos /\ faults \in [{"emit", "stop", "write"} -> Nat]
    /\ \A s \in Subs : Ordered(log, s) =>
          Few(Spoiled(log, pos, windows, rows, s), faults.stop + faults.write)

-----------------------------------------------------------------------------
(* Counting *)

LEMMA FewLess ==
    ASSUME NEW D, NEW N \in Nat, Few(D, N), NEW E, E \subseteq D
    PROVE  Few(E, N)
  <1>1. IsFiniteSet(E) /\ Cardinality(E) <= Cardinality(D)
    BY FS_Subset DEF Few
  <1>2. Cardinality(D) \in Nat /\ Cardinality(E) \in Nat
    BY <1>1, FS_CardinalityType DEF Few
  <1>3. QED
    BY <1>1, <1>2 DEF Few

LEMMA FewMore ==
    ASSUME NEW D, NEW N \in Nat, Few(D, N), NEW E, NEW x, E \subseteq D \cup {x}
    PROVE  Few(E, N + 1)
  <1> DEFINE F == D \cup {x}
  <1>1. /\ IsFiniteSet(F)
        /\ Cardinality(F) = IF x \in D THEN Cardinality(D) ELSE Cardinality(D) + 1
    BY FS_AddElement DEF Few
  <1>2. Cardinality(D) \in Nat
    BY FS_CardinalityType DEF Few
  <1>3. Few(F, N + 1)
    BY <1>1, <1>2 DEF Few
  <1>4. QED
    BY <1>3, FewLess

LEMMA BucketType == \A e \in OrderResult : Bucket(e) \in Nat
  BY MetricsAssumption DEF OrderResult, Bucket

-----------------------------------------------------------------------------
(* What a step spoils *)

\* The log grows: a complete row stays complete, for the log is past its bucket.
LEMMA PublishSpoilsNone ==
    ASSUME NEW L \in Seq(OrderResult), NEW X \in Seq(OrderResult), NEW n \in 0..Len(L),
           NEW w, NEW r, NEW s, Ordered(L \o X, s)
    PROVE  /\ Ordered(L, s)
           /\ \A b \in Nat : Fine(L, n, w, r, s, b) => Fine(L \o X, n, w, r, s, b)
  <1> DEFINE M == L \o X
  <1>1. M \in Seq(OrderResult) /\ Len(L) \in Nat /\ Len(M) \in Nat /\ Len(L) <= Len(M)
        /\ \A j \in 1..Len(L) : M[j] = L[j]
    BY ConcatProperties, LenProperties
  <1>2. \A j \in 1..Len(L) : j \in 1..Len(M) /\ M[j] = L[j]
    BY <1>1
  <1>3. \A j \in 1..n : j \in 1..Len(L)
    BY <1>1
  <1>4. \A j \in 1..Len(M) : Bucket(M[j]) \in Nat
    BY <1>1, ElementOfSeq, BucketType
  <1>5. Ordered(M, s)
    OBVIOUS
  <1> HIDE DEF M
  <1>6. Ordered(L, s)
    BY <1>2, <1>5 DEF Ordered
  <1>7. ASSUME NEW b \in Nat, Fine(L, n, w, r, s, b)
        PROVE  Fine(M, n, w, r, s, b)
    <2>1. CASE <<s, b>> \in DOMAIN r
      <3>1. PICK k \in 1..Len(L) : L[k].sub = s /\ b < Bucket(L[k])
        BY <1>7, <2>1 DEF Fine, Past
      <3>2. Past(M, s, b)
        BY <1>2, <3>1 DEF Past
      <3>3. ASSUME NEW j \in 1..Len(M), Of(M[j], s, b) PROVE j \in 1..Len(L)
        <4>1. k \in 1..Len(M) /\ M[k].sub = s /\ b < Bucket(M[k])
          BY <1>2, <3>1
        <4>2. ~(k <= j)
          <5>1. k <= j => Bucket(M[k]) <= Bucket(M[j])
            BY <1>5, <3>3, <4>1 DEF Ordered, Of
          <5>2. Bucket(M[j]) = b /\ Bucket(M[k]) \in Nat
            BY <1>4, <3>3, <4>1 DEF Of
          <5>3. QED
            BY <4>1, <5>1, <5>2
        <4>3. QED
          BY <1>1, <4>2
      <3>4. Covers(r[<<s, b>>].samples, L, Len(L), s, b)
        BY <1>7, <2>1 DEF Fine
      <3>5. Covers(r[<<s, b>>].samples, M, Len(M), s, b)
        BY <1>2, <3>3, <3>4 DEF Covers
      <3>6. QED
        BY <2>1, <3>2, <3>5 DEF Fine
    <2>2. CASE <<s, b>> \notin DOMAIN r
      <3>1. Whole(L, n, w, s, b)
        BY <1>7, <2>2 DEF Fine
      <3>2. \A j \in 1..n : M[j] = L[j]
        BY <1>2, <1>3
      <3>3. Whole(M, n, w, s, b)
        BY <3>1, <3>2 DEF Whole, Covers
      <3>4. QED
        BY <2>2, <3>3 DEF Fine
    <2>3. QED
      BY <2>1, <2>2
  <1>8. QED
    BY <1>6, <1>7 DEF M

\* The consumer starts again, before what it had handled.
LEMMA RestartSpoilsNone ==
    ASSUME NEW L, NEW n \in Nat, NEW m \in Nat, m <= n, NEW w, DOMAIN w = {}, NEW r, NEW s, NEW b,
           Fine(L, n, w, r, s, b)
    PROVE  Fine(L, m, w, r, s, b)
  <1>1. \A j \in 1..m : j \in 1..n
    OBVIOUS
  <1>2. QED
    BY <1>1 DEF Fine, Whole

\* An event of another submission is handled.
LEMMA OtherSpoilsNone ==
    ASSUME NEW L, NEW n \in Nat, NEW w, NEW r, NEW s, NEW b, L[n + 1].sub # s,
           Fine(L, n, w, r, s, b)
    PROVE  Fine(L, n + 1, w, r, s, b)
  <1>1. \A j \in 1..(n + 1) : j \in 1..n \/ j = n + 1
    OBVIOUS
  <1>2. ~Of(L[n + 1], s, b)
    BY DEF Of
  <1>3. QED
    BY <1>1, <1>2 DEF Fine, Whole, Covers

\* The rows of WriteWindows.
LEMMA WritesOwn ==
    ASSUME NEW S, NEW s, NEW b
    PROVE  LET W == WriteWindows(S)
               k == <<s, b>> IN
           /\ k \in DOMAIN rows => k \in DOMAIN W /\ W[k] = rows[k]
           /\ k \in DOMAIN W /\ k \notin DOMAIN rows =>
                /\ s \in S /\ windows[s].bucket = b
                /\ W[k].samples = windows[s].samples
           /\ s \in S /\ windows[s].bucket = b /\ windows[s].samples # <<>> => k \in DOMAIN W
  <1> DEFINE W == WriteWindows(S)
             k == <<s, b>>
  <1>1. DOMAIN W = DOMAIN rows \cup ToWrite(S)
    BY DEF WriteWindows
  <1>2. k \in DOMAIN rows => k \in DOMAIN W /\ W[k] = rows[k]
    BY <1>1 DEF WriteWindows
  <1>3. ASSUME k \in DOMAIN W, k \notin DOMAIN rows
        PROVE  /\ s \in S /\ windows[s].bucket = b
               /\ W[k].samples = windows[s].samples
    <2>1. k \in ToWrite(S)
      BY <1>1, <1>3
    <2>2. PICK t \in S : k = <<t, windows[t].bucket>>
      BY <2>1 DEF ToWrite
    <2>3. t = s /\ windows[s].bucket = b /\ k[1] = s
      BY <2>2
    <2>4. W[k] = Compute(windows[s].samples)
      BY <1>3, <2>1, <2>3 DEF WriteWindows
    <2>5. Compute(windows[s].samples).samples = windows[s].samples
      BY DEF Compute
    <2>6. QED
      BY <2>2, <2>3, <2>4, <2>5
  <1>4. s \in S /\ windows[s].bucket = b /\ windows[s].samples # <<>> => k \in DOMAIN W
    BY <1>1 DEF ToWrite
  <1>5. QED
    BY <1>2, <1>3, <1>4

\* The window of s that an event of another bucket finds is complete for good,
\* if its bucket was in order.
LEMMA ClosedIsWhole ==
    ASSUME NEW L \in Seq(OrderResult), NEW n \in 0..Len(L), n < Len(L), NEW w, WindowsOf(w, L, n),
           NEW s, Ordered(L, s), L[n + 1].sub = s, s \in DOMAIN w,
           NEW b, w[s].bucket = b, Bucket(L[n + 1]) # b, Whole(L, n, w, s, b)
    PROVE  Past(L, s, b) /\ Covers(w[s].samples, L, Len(L), s, b)
  <1> DEFINE A == w[s].samples
             e == L[n + 1]
  <1>1. Len(L) \in Nat /\ n + 1 \in 1..Len(L) /\ \A j \in 1..n : j \in 1..Len(L) /\ j <= n + 1
    BY LenProperties
  <1>2. \A j \in 1..Len(L) : Bucket(L[j]) \in Nat
    BY ElementOfSeq, BucketType
  <1>3. Samples(A, s, b, L, n)
    BY DEF WindowsOf
  <1>4. 1 \in 1..Len(A)
    BY <1>3, LenProperties, EmptySeq DEF Samples
  <1>5. PICK j \in 1..n : A[1] = L[j]
    BY <1>3, <1>4 DEF Samples
  <1>6. L[j].sub = s /\ Bucket(L[j]) = b
    BY <1>3, <1>4, <1>5 DEF Samples
  <1>7. b < Bucket(e)
    <2>1. Bucket(L[j]) <= Bucket(e)
      BY <1>1, <1>5, <1>6 DEF Ordered
    <2>2. Bucket(L[j]) \in Nat /\ Bucket(e) \in Nat
      BY <1>1, <1>2
    <2>3. QED
      BY <1>6, <2>1, <2>2
  <1>8. Past(L, s, b)
    BY <1>1, <1>7 DEF Past
  <1>9. ASSUME NEW i \in 1..Len(L), Of(L[i], s, b) PROVE i \in 1..n
    <2>1. n + 1 <= i => Bucket(e) <= Bucket(L[i])
      BY <1>1, <1>9 DEF Ordered, Of
    <2>2. Bucket(L[i]) = b /\ Bucket(e) \in Nat
      BY <1>1, <1>2, <1>9 DEF Of
    <2>3. ~(n + 1 <= i)
      BY <1>2, <1>7, <2>1, <2>2
    <2>4. QED
      BY <1>1, <2>3
  <1>10. Covers(A, L, n, s, b)
    BY <1>6 DEF Whole, Of
  <1>11. Covers(A, L, Len(L), s, b)
    BY <1>9, <1>10 DEF Covers
  <1>12. QED
    BY <1>8, <1>11

\* A bucket's row and window are as before.
LEMMA FineSame ==
    ASSUME NEW L, NEW n, NEW w, NEW v, NEW r, NEW q, NEW s, NEW b,
           <<s, b>> \in DOMAIN r <=> <<s, b>> \in DOMAIN q,
           <<s, b>> \in DOMAIN r => q[<<s, b>>] = r[<<s, b>>],
           s \in DOMAIN w <=> s \in DOMAIN v, s \in DOMAIN w => v[s] = w[s],
           Fine(L, n, w, r, s, b)
    PROVE  Fine(L, n, v, q, s, b)
  BY DEF Fine, Whole

\* An event of another bucket is handled: nothing of bucket b was, and nothing is.
LEMMA NoneMore ==
    ASSUME NEW L, NEW n \in Nat, NEW s, NEW b, Bucket(L[n + 1]) # b,
           \A j \in 1..n : ~Of(L[j], s, b)
    PROVE  \A j \in 1..(n + 1) : ~Of(L[j], s, b)
  <1>1. \A j \in 1..(n + 1) : j \in 1..n \/ j = n + 1
    OBVIOUS
  <1>2. QED
    BY <1>1 DEF Of

\* The samples A with the event that is handled.
LEMMA CoversMore ==
    ASSUME NEW L, NEW n \in Nat, NEW s, NEW b, NEW A, NEW B,
           (\A j \in 1..n : ~Of(L[j], s, b)) \/ Covers(A, L, n, s, b),
           \A i \in 1..Len(A) : \E k \in 1..Len(B) : B[k] = A[i],
           \E k \in 1..Len(B) : B[k] = L[n + 1]
    PROVE  Covers(B, L, n + 1, s, b)
  <1>1. ASSUME NEW j \in 1..(n + 1), Of(L[j], s, b)
        PROVE  \E k \in 1..Len(B) : B[k] = L[j]
    <2>1. CASE j = n + 1
      BY <2>1
    <2>2. CASE j \in 1..n
      <3>1. PICK i \in 1..Len(A) : A[i] = L[j]
        BY <1>1, <2>2 DEF Covers
      <3>2. QED
        BY <3>1
    <2>3. QED
      BY <2>1, <2>2
  <1>2. QED
    BY <1>1 DEF Covers

\* handleRecord spoils no bucket.
LEMMA HandleSpoilsNone ==
    ASSUME log \in Seq(OrderResult), WindowInv, HandleRecord,
           NEW s, Ordered(log, s), NEW b \in Nat, Fine(log, pos, windows, rows, s, b)
    PROVE  Fine(log, pos', windows', rows', s, b)
  <1> DEFINE n == pos
             e == log[n + 1]
             t == e.sub
             k == <<s, b>>
             same == t \in DOMAIN windows /\ windows[t].bucket = Bucket(e)
  <1>1. n \in 0..Len(log) /\ n \in Nat /\ n < Len(log) /\ pos' = n + 1 /\ WindowsOf(windows, log, n)
    BY LenProperties DEF HandleRecord, WindowInv
  <1>2. same => /\ windows' = [windows EXCEPT ![t].samples = Append(@, e)]
                /\ rows' = rows
    BY DEF HandleRecord
  <1>3. ~same => /\ windows' = [u \in DOMAIN windows \cup {t} |-> IF u = t THEN Fresh(e) ELSE windows[u]]
                 /\ rows' = WriteWindows({t} \cap DOMAIN windows)
    BY DEF HandleRecord
  <1>4. e \in OrderResult
    <2>1. n + 1 \in 1..Len(log)
      BY <1>1, LenProperties
    <2>2. QED
      BY <2>1, ElementOfSeq
  <1> HIDE DEF e, n
  <1>5. CASE t # s
    <2>1. Fine(log, n + 1, windows, rows, s, b)
      BY <1>1, <1>5, OtherSpoilsNone DEF e, n
    <2>2. (s \in DOMAIN windows <=> s \in DOMAIN windows') /\ (s \in DOMAIN windows => windows'[s] = windows[s])
      BY <1>2, <1>3, <1>5
    <2>3. (k \in DOMAIN rows <=> k \in DOMAIN rows') /\ (k \in DOMAIN rows => rows'[k] = rows[k])
      <3>1. CASE same
        BY <1>2, <3>1
      <3>2. CASE ~same
        BY <1>3, <1>5, <3>2, WritesOwn
      <3>3. QED
        BY <3>1, <3>2
    <2>4. QED
      BY <1>1, <2>1, <2>2, <2>3, FineSame
  <1>6. CASE t = s /\ same
    <2> DEFINE A == windows[s].samples
               B == Append(A, e)
    <2>1. rows' = rows
      BY <1>2, <1>6
    <2>2. CASE k \in DOMAIN rows
      BY <2>1, <2>2 DEF Fine
    <2>3. CASE k \notin DOMAIN rows
      <3>1. Whole(log, n, windows, s, b)
        BY <2>3 DEF Fine, n
      <3>2. CASE b = Bucket(e)
        <4>1. A \in Seq(OrderResult) /\ DOMAIN windows[s] = {"bucket", "samples"}
          BY <1>1, <1>6 DEF WindowsOf, Samples
        <4>2. /\ s \in DOMAIN windows' /\ windows'[s].samples = B /\ windows'[s].bucket = b
          BY <1>2, <1>6, <3>2, <4>1
        <4>3. /\ \A i \in 1..Len(A) : i \in 1..Len(B) /\ B[i] = A[i]
              /\ Len(A) + 1 \in 1..Len(B) /\ B[Len(A) + 1] = e
          BY <1>4, <4>1, AppendProperties, LenProperties
        <4> HIDE DEF A, B
        <4>4. (\A j \in 1..n : ~Of(log[j], s, b)) \/ Covers(A, log, n, s, b)
          BY <3>1 DEF Whole, A
        <4>5. Covers(B, log, n + 1, s, b)
          BY <1>1, <4>3, <4>4, CoversMore DEF e
        <4>6. Whole(log, n + 1, windows', s, b)
          BY <4>2, <4>5 DEF Whole
        <4>7. QED
          BY <1>1, <2>1, <2>3, <4>6 DEF Fine
      <3>3. CASE b # Bucket(e)
        <4>1. \A j \in 1..n : ~Of(log[j], s, b)
          BY <1>6, <3>1, <3>3 DEF Whole
        <4>2. \A j \in 1..(n + 1) : ~Of(log[j], s, b)
          BY <1>1, <3>3, <4>1, NoneMore DEF e
        <4>3. QED
          BY <1>1, <2>1, <2>3, <4>2 DEF Fine, Whole
      <3>4. QED
        BY <3>2, <3>3
    <2>4. QED
      BY <2>2, <2>3
  <1>7. CASE t = s /\ ~same
    <2> DEFINE S == {t} \cap DOMAIN windows
    <2>1. rows' = WriteWindows(S)
      BY <1>3, <1>7
    <2>2. CASE k \in DOMAIN rows
      <3>1. k \in DOMAIN rows' /\ rows'[k] = rows[k]
        BY <2>1, <2>2, WritesOwn
      <3>2. QED
        BY <2>2, <3>1 DEF Fine
    <2>3. CASE k \notin DOMAIN rows /\ k \in DOMAIN rows'
      <3>1. s \in S /\ windows[s].bucket = b /\ rows'[k].samples = windows[s].samples
        BY <2>1, <2>3, WritesOwn
      <3>2. Whole(log, n, windows, s, b)
        BY <2>3 DEF Fine, n
      <3>3. Past(log, s, b) /\ Covers(windows[s].samples, log, Len(log), s, b)
        BY <1>1, <1>7, <3>1, <3>2, ClosedIsWhole DEF e
      <3>4. QED
        BY <2>3, <3>1, <3>3 DEF Fine
    <2>4. CASE k \notin DOMAIN rows /\ k \notin DOMAIN rows'
      <3>1. Whole(log, n, windows, s, b)
        BY <2>4 DEF Fine, n
      <3>2. ~(s \in DOMAIN windows /\ windows[s].bucket = b)
        <4>1. ASSUME s \in DOMAIN windows, windows[s].bucket = b PROVE FALSE
          <5>1. windows[s].samples # <<>> /\ s \in S
            BY <1>1, <1>7, <4>1 DEF WindowsOf, Samples
          <5>2. QED
            BY <2>1, <2>4, <4>1, <5>1, WritesOwn
        <4>2. QED
          BY <4>1
      <3>3. \A j \in 1..n : ~Of(log[j], s, b)
        BY <3>1, <3>2 DEF Whole
      <3>4. CASE b = Bucket(e)
        <4>1. s \in DOMAIN windows' /\ windows'[s].samples = <<e>> /\ windows'[s].bucket = b
          BY <1>3, <1>7, <3>4 DEF Fresh
        <4>2. Covers(<<e>>, log, n + 1, s, b)
          <5> DEFINE none == <<>>
                     B == <<e>>
          <5>1. /\ \A i \in 1..Len(none) : \E m \in 1..Len(B) : B[m] = none[i]
                /\ \E m \in 1..Len(B) : B[m] = e
            OBVIOUS
          <5> HIDE DEF none, B
          <5>2. Covers(B, log, n + 1, s, b)
            BY <1>1, <3>3, <5>1, CoversMore DEF e
          <5>3. QED
            BY <5>2 DEF B
        <4>3. Whole(log, n + 1, windows', s, b)
          BY <4>1, <4>2 DEF Whole
        <4>4. QED
          BY <1>1, <2>4, <4>3 DEF Fine
      <3>5. CASE b # Bucket(e)
        <4>1. \A j \in 1..(n + 1) : ~Of(log[j], s, b)
          BY <1>1, <3>3, <3>5, NoneMore DEF e
        <4>2. QED
          BY <1>1, <2>4, <4>1 DEF Fine, Whole
      <3>6. QED
        BY <3>4, <3>5
    <2>5. QED
      BY <2>2, <2>3, <2>4
  <1>8. QED
    BY <1>5, <1>6, <1>7

\* A failed flush spoils at most the bucket of the event that caused it.
LEMMA FlushFailsSpoils ==
    ASSUME log \in Seq(OrderResult), WindowInv, FlushFails,
           NEW s, Ordered(log, s), NEW b \in Nat, b # Bucket(log[pos + 1]),
           Fine(log, pos, windows, rows, s, b)
    PROVE  Fine(log, pos', windows', rows', s, b)
  <1> DEFINE n == pos
             e == log[n + 1]
             t == e.sub
             k == <<s, b>>
  <1>1. /\ n \in 0..Len(log) /\ n \in Nat /\ n < Len(log) /\ pos' = n + 1 /\ WindowsOf(windows, log, n)
        /\ windows' = windows /\ t \in DOMAIN windows
        /\ rows' = rows \/ rows' = WriteWindows({t})
    BY LenProperties DEF FlushFails, WindowInv
  <1>2. Bucket(e) # b
    OBVIOUS
  <1> HIDE DEF e, n
  <1>3. k \in DOMAIN rows => k \in DOMAIN rows' /\ rows'[k] = rows[k]
    BY <1>1, WritesOwn
  <1>4. k \in DOMAIN rows' /\ k \notin DOMAIN rows =>
            s = t /\ windows[s].bucket = b /\ rows'[k].samples = windows[s].samples
    BY <1>1, WritesOwn
  <1>5. CASE k \in DOMAIN rows
    BY <1>3, <1>5 DEF Fine
  <1>6. CASE k \notin DOMAIN rows /\ k \in DOMAIN rows'
    <2>1. Whole(log, n, windows, s, b)
      BY <1>6 DEF Fine, n
    <2>2. Past(log, s, b) /\ Covers(windows[s].samples, log, Len(log), s, b)
      BY <1>1, <1>2, <1>4, <1>6, <2>1, ClosedIsWhole DEF e
    <2>3. QED
      BY <1>4, <1>6, <2>2 DEF Fine
  <1>7. CASE k \notin DOMAIN rows /\ k \notin DOMAIN rows'
    <2>1. Whole(log, n, windows, s, b)
      BY <1>7 DEF Fine, n
    <2>2. \A j \in 1..(n + 1) : j \in 1..n \/ j = n + 1
      BY <1>1
    <2>3. ~Of(log[n + 1], s, b)
      BY <1>2 DEF Of, e
    <2>4. Whole(log, n + 1, windows, s, b)
      BY <2>1, <2>2, <2>3 DEF Whole, Covers
    <2>5. QED
      BY <1>1, <1>7, <2>4 DEF Fine
  <1>8. QED
    BY <1>5, <1>6, <1>7

\* A stop spoils at most the bucket of the open window.
LEMMA StopSpoils ==
    ASSUME StopConsumer, NEW s, NEW b, b # windows[s].bucket,
           Fine(log, pos, windows, rows, s, b)
    PROVE  Fine(log, pos, windows', rows', s, b)
  <1> DEFINE k == <<s, b>>
  <1>1. PICK S \in SUBSET DOMAIN windows : rows' = WriteWindows(S)
    BY DEF StopConsumer, flushAll
  <1>2. (k \in DOMAIN rows <=> k \in DOMAIN rows') /\ (k \in DOMAIN rows => rows'[k] = rows[k])
    BY <1>1, WritesOwn
  <1>3. QED
    BY <1>2 DEF Fine, Whole

-----------------------------------------------------------------------------
(* Damage: the steps *)

LEMMA DamageNext ==
    ASSUME committed' <= pos', faults' \in [{"emit", "stop", "write"} -> Nat],
           \A s \in Subs : Ordered(log', s) =>
              Few(Spoiled(log', pos', windows', rows', s), faults'.stop + faults'.write)
    PROVE  DamageInv'
  BY DEF DamageInv, Ordered, Few, Spoiled, Fine, Whole, Covers, Past, Of, Bucket

\* A step that spoils no bucket.
LEMMA NoDamage ==
    ASSUME DamageInv, committed' <= pos', faults' \in [{"emit", "stop", "write"} -> Nat],
           faults'.stop = faults.stop, faults'.write = faults.write,
           \A s \in Subs : Ordered(log', s) =>
              /\ Ordered(log, s)
              /\ \A b \in Nat : Fine(log, pos, windows, rows, s, b)
                                  => Fine(log', pos', windows', rows', s, b)
    PROVE  DamageInv'
  <1> DEFINE N == faults.stop + faults.write
  <1>1. N \in Nat /\ faults'.stop + faults'.write = N
    BY DEF DamageInv
  <1>2. ASSUME NEW s \in Subs, Ordered(log', s)
        PROVE  Few(Spoiled(log', pos', windows', rows', s), N)
    <2> DEFINE D == Spoiled(log, pos, windows, rows, s)
               E == Spoiled(log', pos', windows', rows', s)
    <2>1. Few(D, N)
      BY <1>2 DEF DamageInv
    <2>2. E \subseteq D
      BY <1>2 DEF Spoiled
    <2> HIDE DEF D, E, N
    <2>3. Few(E, N)
      BY <1>1, <2>1, <2>2, FewLess
    <2>4. QED
      BY <2>3 DEF E
  <1>3. QED
    BY <1>1, <1>2, DamageNext

\* A fault that spoils at most one bucket of each submission.
LEMMA OneDamage ==
    ASSUME DamageInv, committed' <= pos', UNCHANGED log,
           faults' \in [{"emit", "stop", "write"} -> Nat],
           faults'.stop + faults'.write = faults.stop + faults.write + 1,
           NEW x, \A s \in Subs : Ordered(log, s) =>
              \A b \in Nat : b # x[s] /\ Fine(log, pos, windows, rows, s, b)
                               => Fine(log', pos', windows', rows', s, b)
    PROVE  DamageInv'
  <1> DEFINE N == faults.stop + faults.write
  <1>1. N \in Nat /\ faults'.stop + faults'.write = N + 1
    BY DEF DamageInv
  <1>2. ASSUME NEW s \in Subs, Ordered(log', s)
        PROVE  Few(Spoiled(log', pos', windows', rows', s), N + 1)
    <2> DEFINE D == Spoiled(log, pos, windows, rows, s)
               E == Spoiled(log', pos', windows', rows', s)
    <2>1. Ordered(log, s)
      BY <1>2
    <2>2. Few(D, N)
      BY <2>1 DEF DamageInv
    <2>3. E \subseteq D \cup {x[s]}
      BY <2>1 DEF Spoiled
    <2> HIDE DEF D, E, N
    <2>4. Few(E, N + 1)
      BY <1>1, <2>2, <2>3, FewMore
    <2>5. QED
      BY <2>4 DEF E
  <1>3. QED
    BY <1>1, <1>2, DamageNext

LEMMA FaultTypes ==
    ASSUME DamageInv, NEW kind \in {"emit", "stop", "write"}, Fault(kind)
    PROVE  /\ faults' \in [{"emit", "stop", "write"} -> Nat]
           /\ kind = "emit" => faults'.stop = faults.stop /\ faults'.write = faults.write
           /\ kind # "emit" => faults'.stop + faults'.write = faults.stop + faults.write + 1
  <1>1. faults' = [faults EXCEPT ![kind] = faults[kind] + 1] /\ faults \in [{"emit", "stop", "write"} -> Nat]
    BY DEF Fault, DamageInv
  <1>2. faults.stop \in Nat /\ faults.write \in Nat /\ faults[kind] \in Nat
    BY <1>1
  <1>3. faults' \in [{"emit", "stop", "write"} -> Nat]
    BY <1>1, <1>2
  <1>4. CASE kind = "emit"
    BY <1>1, <1>3, <1>4
  <1>5. CASE kind = "stop"
    <2>1. faults'.stop = faults.stop + 1 /\ faults'.write = faults.write
      BY <1>1, <1>5
    <2>2. QED
      BY <1>2, <1>3, <1>5, <2>1
  <1>6. CASE kind = "write"
    <2>1. faults'.stop = faults.stop /\ faults'.write = faults.write + 1
      BY <1>1, <1>6
    <2>2. QED
      BY <1>2, <1>3, <1>6, <2>1
  <1>7. QED
    BY <1>4, <1>5, <1>6

LEMMA DamageStart == ASSUME Init PROVE DamageInv
  <1>1. /\ log = <<>> /\ pos = 0 /\ committed = 0 /\ rows = <<>>
        /\ faults = [emit |-> 0, stop |-> 0, write |-> 0]
    BY DEF Init
  <1>2. faults \in [{"emit", "stop", "write"} -> Nat] /\ faults.stop + faults.write = 0
    BY <1>1
  <1>3. DOMAIN rows = {} /\ 1..pos = {} /\ committed <= pos
    BY <1>1
  <1>4. \A s \in Subs : Spoiled(log, pos, windows, rows, s) = {}
    BY <1>3 DEF Spoiled, Fine, Whole
  <1>5. Few({}, 0)
    BY FS_EmptySet DEF Few
  <1>6. QED
    BY <1>2, <1>3, <1>4, <1>5 DEF DamageInv

LEMMA DamageStep == ASSUME EmitInv, WindowInv, DamageInv, [Next]_vars PROVE DamageInv'
  <1>1. /\ log \in Seq(OrderResult) /\ pos \in 0..Len(log) /\ pos \in Nat /\ committed \in Nat
        /\ committed <= pos /\ faults \in [{"emit", "stop", "write"} -> Nat]
    BY LenProperties DEF EmitInv, WindowInv, DamageInv
  <1>2. ASSUME UNCHANGED <<log, pos, windows, rows>>, committed' <= pos,
               faults' \in [{"emit", "stop", "write"} -> Nat],
               faults'.stop = faults.stop, faults'.write = faults.write
        PROVE  DamageInv'
    BY <1>2, NoDamage
  <1>3. CASE UNCHANGED vars \/ Commit
    BY <1>1, <1>2, <1>3 DEF vars, consumerVars, Commit
  <1>4. ASSUME NEW s \in Subs, Worker(s) PROVE DamageInv'
    BY <1>1, <1>2, <1>4 DEF Worker, ListTopics, CreateTopics, EmitResult, EmitRest, consumerVars
  <1>5. ASSUME NEW s \in Subs, RecordFails(s) \/ WorkerDies(s) PROVE DamageInv'
    <2>1. Fault("emit") /\ UNCHANGED <<log, pos, committed, windows, rows>>
      BY <1>5 DEF RecordFails, WorkerDies, consumerVars
    <2>2. /\ faults' \in [{"emit", "stop", "write"} -> Nat]
          /\ faults'.stop = faults.stop /\ faults'.write = faults.write
      BY <2>1, FaultTypes
    <2>3. QED
      BY <1>1, <1>2, <2>1, <2>2
  <1>6. ASSUME NEW X \in Seq(OrderResult), log' = log \o X, UNCHANGED <<consumerVars, faults>>
        PROVE  DamageInv'
    <2>1. UNCHANGED <<pos, committed, windows, rows, faults>>
      BY <1>6 DEF consumerVars
    <2>2. ASSUME NEW s \in Subs, Ordered(log \o X, s)
          PROVE  /\ Ordered(log, s)
                 /\ \A b \in Nat : Fine(log, pos, windows, rows, s, b)
                                     => Fine(log \o X, pos, windows, rows, s, b)
      BY <1>1, <2>2, PublishSpoilsNone
    <2>3. QED
      BY <1>1, <1>6, <2>1, <2>2, NoDamage
  <1>7. ASSUME NEW s \in Subs, Deliver(s) PROVE DamageInv'
    <2>1. Flow(log, buffered[s], batch[s], results[s], next[s], s) /\ NoDup(log)
      BY DEF EmitInv
    <2>2. <<Head(buffered[s])>> \in Seq(OrderResult) /\ log' = log \o <<Head(buffered[s])>>
      BY <1>1, <1>7, <2>1, FlowDelivers DEF Deliver, Mine
    <2>3. QED
      BY <1>6, <1>7, <2>2 DEF Deliver
  <1>8. ASSUME NEW s \in Subs, CloseEmitter(s) PROVE DamageInv'
    BY <1>6, <1>8 DEF CloseEmitter, EmitInv
  <1>9. CASE HandleRecord
    <2>1. /\ log' = log /\ committed' = committed /\ pos' = pos + 1
          /\ UNCHANGED faults
      BY <1>9 DEF HandleRecord
    <2>2. ASSUME NEW s \in Subs, Ordered(log, s), NEW b \in Nat, Fine(log, pos, windows, rows, s, b)
          PROVE  Fine(log, pos', windows', rows', s, b)
      BY <1>1, <1>9, <2>2, HandleSpoilsNone
    <2>3. committed' <= pos'
      BY <1>1, <2>1
    <2>4. QED
      BY <1>1, <2>1, <2>2, <2>3, NoDamage
  <1>10. CASE FlushFails
    <2> DEFINE x == [s \in Subs |-> Bucket(log[pos + 1])]
    <2>1. log' = log /\ committed' = committed /\ pos' = pos + 1 /\ Fault("write")
      BY <1>10 DEF FlushFails
    <2>2. ASSUME NEW s \in Subs, Ordered(log, s), NEW b \in Nat, b # x[s],
                 Fine(log, pos, windows, rows, s, b)
          PROVE  Fine(log, pos', windows', rows', s, b)
      BY <1>1, <1>10, <2>2, FlushFailsSpoils
    <2>3. committed' <= pos'
      BY <1>1, <2>1
    <2> HIDE DEF x
    <2>4. /\ faults' \in [{"emit", "stop", "write"} -> Nat]
          /\ faults'.stop + faults'.write = faults.stop + faults.write + 1
      BY <2>1, FaultTypes
    <2>5. QED
      BY <2>1, <2>2, <2>3, <2>4, OneDamage
  <1>11. CASE StopConsumer
    <2> DEFINE x == [s \in Subs |-> windows[s].bucket]
    <2>1. log' = log /\ committed' = committed /\ pos' = pos /\ Fault("stop")
      BY <1>11 DEF StopConsumer
    <2>2. ASSUME NEW s \in Subs, Ordered(log, s), NEW b \in Nat, b # x[s],
                 Fine(log, pos, windows, rows, s, b)
          PROVE  Fine(log, pos, windows', rows', s, b)
      BY <1>11, <2>2, StopSpoils
    <2> HIDE DEF x
    <2>3. /\ faults' \in [{"emit", "stop", "write"} -> Nat]
          /\ faults'.stop + faults'.write = faults.stop + faults.write + 1
      BY <2>1, FaultTypes
    <2>4. QED
      BY <1>1, <2>1, <2>2, <2>3, OneDamage
  <1>12. CASE StartConsumer
    <2>1. /\ log' = log /\ committed' = committed /\ pos' = committed
          /\ UNCHANGED <<windows, rows, faults>> /\ DOMAIN windows = {}
      BY <1>12 DEF StartConsumer, WindowInv
    <2>2. ASSUME NEW s \in Subs, NEW b \in Nat, Fine(log, pos, windows, rows, s, b)
          PROVE  Fine(log, committed, windows, rows, s, b)
      BY <1>1, <2>1, <2>2, RestartSpoilsNone
    <2>3. QED
      BY <1>1, <2>1, <2>2, NoDamage
  <1>13. QED
    BY <1>3, <1>4, <1>5, <1>7, <1>8, <1>9, <1>10, <1>11, <1>12 DEF Next

-----------------------------------------------------------------------------
(* The theorem *)

\* A damaged bucket is a spoiled one.
LEMMA DamageBounded == ASSUME EmitInv, WindowInv, DamageInv PROVE DamagePerFault
  <1> DEFINE N == faults.stop + faults.write
  <1>1. N \in Nat /\ log \in Seq(OrderResult) /\ Len(log) \in Nat /\ pos \in 0..Len(log)
        /\ DOMAIN log = 1..Len(log)
    BY LenProperties DEF EmitInv, WindowInv, DamageInv
  <1>2. ASSUME NEW s \in Subs, InOrder(s)
        PROVE  Cardinality({b \in ClosedBuckets(s) :
                  <<s, b>> \notin DOMAIN rows
                  \/ Range(rows[<<s, b>>].samples) # EventsOf(s, b)}) <= N
    <2> DEFINE D == Spoiled(log, pos, windows, rows, s)
               E == {b \in ClosedBuckets(s) :
                       <<s, b>> \notin DOMAIN rows
                       \/ Range(rows[<<s, b>>].samples) # EventsOf(s, b)}
    <2>1. Few(D, N)
      BY <1>2 DEF DamageInv, InOrder, Ordered
    <2>2. ASSUME NEW b \in E PROVE b \in D
      <3> DEFINE k == <<s, b>>
      <3>1. PICK j \in 1..pos : log[j].sub = s /\ Bucket(log[j]) = b
        BY DEF ClosedBuckets
      <3>2. b \in Nat
        <4>1. j \in 1..Len(log)
          BY <1>1
        <4>2. QED
          BY <1>1, <3>1, <4>1, ElementOfSeq, BucketType
      <3>3. CASE k \notin DOMAIN rows
        <4>1. ~(s \in DOMAIN windows /\ windows[s].bucket = b)
          BY DEF ClosedBuckets
        <4>2. ~Whole(log, pos, windows, s, b)
          BY <3>1, <4>1 DEF Whole, Of
        <4>3. QED
          BY <3>2, <3>3, <4>2 DEF Spoiled, Fine
      <3>4. CASE k \in DOMAIN rows
        <4> DEFINE A == rows[k].samples
        <4>1. Range(A) # EventsOf(s, b)
          BY <3>4
        <4>2. Samples(A, s, b, log, Len(log))
          <5>1. Samples(A, k[1], k[2], log, Len(log))
            BY <3>4 DEF WindowInv, RowsOf
          <5>2. QED
            BY <5>1
        <4>3. DOMAIN A = 1..Len(A)
          BY <4>2, LenProperties DEF Samples
        <4> HIDE DEF A
        <4>4. Range(A) \subseteq EventsOf(s, b)
          BY <1>1, <4>2, <4>3 DEF Samples, EventsOf, Range
        <4>5. PICK e \in EventsOf(s, b) : e \notin Range(A)
          BY <4>1, <4>4
        <4>6. PICK i \in 1..Len(log) : e = log[i] /\ Of(log[i], s, b)
          BY <1>1 DEF EventsOf, Range, Of
        <4>7. ~Covers(A, log, Len(log), s, b)
          BY <4>3, <4>5, <4>6 DEF Covers, Range
        <4>8. QED
          BY <3>2, <3>4, <4>7 DEF Spoiled, Fine, A
      <3>5. QED
        BY <3>3, <3>4
    <2> HIDE DEF D, E, N
    <2>3. Few(E, N)
      BY <1>1, <2>1, <2>2, FewLess
    <2>4. QED
      BY <2>3 DEF Few, E, N
  <1>3. QED
    BY <1>2 DEF DamagePerFault

\* As long as a submission's events come in time order, every bucket that was
\* closed has a row of all its events, but for one bucket for each stop of the
\* consumer and each failed write: for any number of submissions, events and
\* faults, wherever the commits lie (handleRecord, flushWindow, flushAll,
\* MarkCommitRecords, ON CONFLICT DO NOTHING).
THEOREM DamageCorrect == Spec => []DamagePerFault
  <1>1. Init => EmitInv /\ WindowInv /\ DamageInv
    BY EmitStart, WindowStart, DamageStart
  <1>2. EmitInv /\ WindowInv /\ DamageInv /\ [Next]_vars => EmitInv' /\ WindowInv' /\ DamageInv'
    BY EmitStep, WindowStep, DamageStep
  <1>3. EmitInv /\ WindowInv /\ DamageInv => DamagePerFault
    BY DamageBounded
  <1>4. QED
    BY <1>1, <1>2, <1>3, PTL DEF Spec
=============================================================================
