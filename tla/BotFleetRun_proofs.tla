------------------------- MODULE BotFleetRun_proofs -------------------------
(***************************************************************************)
(* Proofs about the bot fleet, for any profiles, bots, menus, sizes and    *)
(* faults: what Fleet.Run returns is whole, a fill read over REST answers  *)
(* the order it is recorded with, a replay of what the engine served, in   *)
(* that order, counts wrong only the fills that no bot read, and the       *)
(* pre-flight gate refuses an honest engine only after a disturbance.      *)
(***************************************************************************)
EXTENDS BotFleetRun, SequenceTheorems, FiniteSetTheorems, FunctionTheorems,
        WellFoundedInduction, TLAPS

-----------------------------------------------------------------------------
(* Sequences of unspecified elements *)

IsSeq(s) == s \in Seq(Range(s))

LEMMA AnySeq ==
    ASSUME NEW S, NEW s \in Seq(S)
    PROVE  IsSeq(s) /\ Len(s) \in Nat /\ DOMAIN s = 1..Len(s)
  BY SeqOfRange, LenProperties DEF IsSeq, Range

LEMMA SeqFacts ==
    ASSUME NEW s, IsSeq(s)
    PROVE  Len(s) \in Nat /\ DOMAIN s = 1..Len(s) /\ (s # <<>> => Len(s) > 0)
  BY LenProperties, EmptySeq DEF IsSeq

LEMMA AppendSeq ==
    ASSUME NEW s, IsSeq(s), NEW x
    PROVE  /\ IsSeq(Append(s, x)) /\ Len(s) \in Nat /\ Len(Append(s, x)) = Len(s) + 1
           /\ \A i \in 1..Len(s) : Append(s, x)[i] = s[i]
           /\ Append(s, x)[Len(s) + 1] = x
  <1> DEFINE S == Range(s) \cup {x}
  <1>1. s \in Seq(S)
    BY SeqMonotonic DEF IsSeq
  <1>2. Append(s, x) \in Seq(S) /\ Len(s) \in Nat
    BY <1>1, AppendProperties, LenProperties
  <1>3. IsSeq(Append(s, x))
    BY <1>2, AnySeq
  <1>4. QED
    BY <1>1, <1>2, <1>3, AppendProperties

LEMMA ConcatSeq ==
    ASSUME NEW s, IsSeq(s), NEW t, IsSeq(t)
    PROVE  /\ IsSeq(s \o t) /\ Len(s) \in Nat /\ Len(t) \in Nat
           /\ Len(s \o t) = Len(s) + Len(t)
           /\ \A i \in 1..Len(s) : (s \o t)[i] = s[i]
           /\ \A i \in 1..Len(t) : (s \o t)[Len(s) + i] = t[i]
  <1> DEFINE S == Range(s) \cup Range(t)
  <1>1. s \in Seq(S) /\ t \in Seq(S)
    BY SeqMonotonic DEF IsSeq
  <1>2. s \o t \in Seq(S) /\ Len(s) \in Nat /\ Len(t) \in Nat
    BY <1>1, ConcatProperties, LenProperties
  <1>3. IsSeq(s \o t)
    BY <1>2, AnySeq
  <1> HIDE DEF S
  <1>4. QED
    BY <1>1, <1>2, <1>3, ConcatProperties

LEMMA TailSeq ==
    ASSUME NEW s, IsSeq(s), s # <<>>
    PROVE  /\ IsSeq(Tail(s)) /\ Len(s) \in Nat \ {0} /\ Len(Tail(s)) = Len(s) - 1
           /\ \A i \in 1..(Len(s) - 1) : Tail(s)[i] = s[i + 1]
           /\ Head(s) = s[1]
  <1>1. Tail(s) \in Seq(Range(s)) /\ Len(s) \in Nat
    BY HeadTailProperties, LenProperties DEF IsSeq
  <1>2. IsSeq(Tail(s))
    BY <1>1, AnySeq
  <1>3. QED
    BY <1>2, HeadTailProperties, SeqFacts DEF IsSeq

\* What is left without the element at i.
LEMMA RemoveSeq ==
    ASSUME NEW s, IsSeq(s), NEW i \in 1..Len(s)
    PROVE  /\ IsSeq(RemoveAt(s, i)) /\ Len(s) \in Nat /\ Len(RemoveAt(s, i)) = Len(s) - 1
           /\ \A k \in 1..(Len(s) - 1) :
                 RemoveAt(s, i)[k] = s[IF k < i THEN k ELSE k + 1]
  <1> DEFINE S == Range(s)
             a == SubSeq(s, 1, i - 1)
             c == SubSeq(s, i + 1, Len(s))
  <1>1. s \in Seq(S) /\ Len(s) \in Nat /\ i \in Int /\ 1 <= i /\ i <= Len(s)
    BY SeqFacts DEF IsSeq
  <1>2. a \in Seq(S) /\ Len(a) = i - 1 /\ \A k \in 1..(i - 1) : a[k] = s[k]
    <2>1. 1 \in 1..(Len(s) + 1) /\ i - 1 \in 0..Len(s)
      BY <1>1
    <2>2. QED
      BY <1>1, <2>1, SubSeqProperties
  <1>3. c \in Seq(S) /\ Len(c) = Len(s) - i /\ \A k \in 1..(Len(s) - i) : c[k] = s[i + k]
    <2>1. i + 1 \in 1..(Len(s) + 1) /\ Len(s) \in i..Len(s)
      BY <1>1
    <2>2. QED
      BY <1>1, <2>1, SubSeqProperties
  <1>4. RemoveAt(s, i) = a \o c
    BY DEF RemoveAt
  <1> HIDE DEF a, c, S
  <1>5. /\ a \o c \in Seq(S) /\ Len(a \o c) = Len(a) + Len(c)
        /\ \A k \in 1..(Len(a) + Len(c)) :
              (a \o c)[k] = IF k <= Len(a) THEN a[k] ELSE c[k - Len(a)]
    BY <1>2, <1>3, ConcatProperties
  <1>6. IsSeq(a \o c)
    BY <1>5, AnySeq
  <1>7. ASSUME NEW k \in 1..(Len(s) - 1)
        PROVE  (a \o c)[k] = s[IF k < i THEN k ELSE k + 1]
    <2>1. k \in 1..(Len(a) + Len(c)) /\ k \in Int /\ 1 <= k /\ k <= Len(s) - 1
      BY <1>1, <1>2, <1>3
    <2>2. CASE k < i
      BY <1>1, <1>2, <1>5, <2>1, <2>2
    <2>3. CASE ~(k < i)
      <3>1. k - Len(a) \in 1..(Len(s) - i) /\ i + (k - Len(a)) = k + 1 /\ ~(k <= Len(a))
        BY <1>1, <1>2, <2>1, <2>3
      <3>2. c[k - Len(a)] = s[k + 1]
        BY <1>3, <3>1
      <3>3. QED
        BY <1>5, <2>1, <2>3, <3>1, <3>2
    <2>4. QED
      BY <2>2, <2>3
  <1>8. Len(a) + Len(c) = Len(s) - 1
    BY <1>1, <1>2, <1>3
  <1>9. QED
    BY <1>1, <1>4, <1>5, <1>6, <1>7, <1>8

-----------------------------------------------------------------------------
(* The slices of the bots, in the channel and in allResults *)

\* Slice s is in channel C; some of it, or all of it as one stretch, is in A.
Queued(s, C) == \E i \in 1..Len(C) : C[i] = s
Among(s, A) == \E m \in 1..Len(A) : \E j \in 1..Len(s) : A[m] = s[j]
Placed(s, A) == \E k \in 0..(Len(A) - Len(s)) : \A j \in 1..Len(s) : A[k + j] = s[j]

\* The bots D have returned their results R: each slice that is not empty is
\* either in the channel C, once, and A has nothing of it, or it stands in A;
\* nothing is in A twice, and nothing else is in C or A.
Slices(C, A, R, D) ==
    /\ IsSeq(C) /\ IsSeq(A)
    /\ \A i \in 1..Len(C) : C[i] = <<>> \/ \E b \in D : C[i] = R[b]
    /\ \A i, j \in 1..Len(C) : C[i] = C[j] /\ C[i] # <<>> => i = j
    /\ \A b \in D : R[b] # <<>> =>
          (Queued(R[b], C) /\ ~Among(R[b], A)) \/ (~Queued(R[b], C) /\ Placed(R[b], A))
    /\ \A m \in 1..Len(A) : \E b \in D : \E j \in 1..Len(R[b]) : A[m] = R[b][j]
    /\ \A i, j \in 1..Len(A) : A[i] = A[j] => i = j

\* Results r of bot b: no two are equal, and each shows whose it is.
Own(b, r) ==
    /\ IsSeq(r)
    /\ \A i \in 1..Len(r) : r[i].order.id[1] = b
    /\ \A i, j \in 1..Len(r) : r[i] = r[j] => i = j

\* The results of different bots differ.
LEMMA OwnDiffer ==
    ASSUME NEW b, NEW c, b # c, NEW r, NEW q, Own(b, r), Own(c, q)
    PROVE  /\ \A i \in 1..Len(r) : \A j \in 1..Len(q) : r[i] # q[j]
           /\ r # <<>> => r # q
  <1>1. \A i \in 1..Len(r) : \A j \in 1..Len(q) : r[i] # q[j]
    BY DEF Own
  <1>2. ASSUME r # <<>>, r = q PROVE FALSE
    <2>1. 1 \in 1..Len(r)
      BY <1>2, SeqFacts DEF Own
    <2>2. QED
      BY <1>1, <1>2, <2>1
  <1>3. QED
    BY <1>1, <1>2

\* A bot returns: its slice is sent to the channel.
LEMMA SliceSent ==
    ASSUME NEW C, NEW A, NEW R, NEW D, Slices(C, A, R, D), NEW b, b \notin D,
           \A c \in D \cup {b} : Own(c, R[c])
    PROVE  Slices(Append(C, R[b]), A, R, D \cup {b})
  <1> DEFINE C1 == Append(C, R[b])
  <1>1. /\ IsSeq(C1) /\ Len(C) \in Nat /\ Len(C1) = Len(C) + 1
        /\ \A i \in 1..Len(C) : C1[i] = C[i]
        /\ C1[Len(C) + 1] = R[b]
    BY AppendSeq DEF Slices
  <1> HIDE DEF C1
  <1>2. \A c \in D : \A i \in 1..Len(R[b]) : \A j \in 1..Len(R[c]) : R[b][i] # R[c][j]
    BY OwnDiffer
  <1>3. \A c \in D : R[b] # <<>> \/ R[c] # <<>> => R[b] # R[c]
    BY OwnDiffer
  <1>4. ~Among(R[b], A)
    BY <1>2 DEF Among, Slices
  <1>5. R[b] # <<>> => ~Queued(R[b], C)
    BY <1>3 DEF Queued, Slices
  <1>6. \A i \in 1..Len(C1) : C1[i] = <<>> \/ \E c \in D \cup {b} : C1[i] = R[c]
    BY <1>1 DEF Slices
  <1>7. \A i, j \in 1..Len(C1) : C1[i] = C1[j] /\ C1[i] # <<>> => i = j
    BY <1>1, <1>5 DEF Slices, Queued
  <1>8. \A c \in D : R[c] # <<>> => (Queued(R[c], C1) <=> Queued(R[c], C))
    BY <1>1, <1>3 DEF Queued
  <1>9. Queued(R[b], C1)
    BY <1>1 DEF Queued
  <1>10. \A c \in D \cup {b} : R[c] # <<>> =>
           (Queued(R[c], C1) /\ ~Among(R[c], A)) \/ (~Queued(R[c], C1) /\ Placed(R[c], A))
    BY <1>4, <1>8, <1>9 DEF Slices
  <1>11. IsSeq(A) /\ \A i, j \in 1..Len(A) : A[i] = A[j] => i = j
    BY DEF Slices
  <1>12. \A m \in 1..Len(A) : \E c \in D \cup {b} : \E j \in 1..Len(R[c]) : A[m] = R[c][j]
    BY DEF Slices
  <1>13. QED
    BY <1>1, <1>6, <1>7, <1>10, <1>11, <1>12 DEF Slices, C1

\* The collector appends the slice that comes out of the channel.
LEMMA SliceCollected ==
    ASSUME NEW C, NEW A, NEW R, NEW D, Slices(C, A, R, D), C # <<>>,
           \A c \in D : Own(c, R[c])
    PROVE  Slices(Tail(C), A \o Head(C), R, D)
  <1> DEFINE C1 == Tail(C)
             h == Head(C)
             A1 == A \o h
  <1>1. /\ IsSeq(C1) /\ Len(C) \in Nat \ {0} /\ Len(C1) = Len(C) - 1
        /\ \A i \in 1..(Len(C) - 1) : C1[i] = C[i + 1]
        /\ h = C[1]
    BY TailSeq DEF Slices
  <1>2. IsSeq(h)
    <2>1. h = <<>> \/ \E b \in D : h = R[b]
      BY <1>1 DEF Slices
    <2>2. IsSeq(<<>>)
      BY DEF IsSeq
    <2>3. QED
      BY <2>1, <2>2 DEF Own
  <1>3. /\ IsSeq(A1) /\ Len(A) \in Nat /\ Len(h) \in Nat /\ Len(A1) = Len(A) + Len(h)
        /\ \A i \in 1..Len(A) : A1[i] = A[i]
        /\ \A i \in 1..Len(h) : A1[Len(A) + i] = h[i]
    <2>1. IsSeq(A)
      BY DEF Slices
    <2> HIDE DEF h
    <2>2. /\ IsSeq(A \o h) /\ Len(A) \in Nat /\ Len(h) \in Nat
          /\ Len(A \o h) = Len(A) + Len(h)
          /\ \A i \in 1..Len(A) : (A \o h)[i] = A[i]
          /\ \A i \in 1..Len(h) : (A \o h)[Len(A) + i] = h[i]
      BY ONLY <1>2, <2>1, ConcatSeq
    <2>3. QED
      BY <2>2
  <1> HIDE DEF C1, h, A1
  <1>4. \A i \in 1..Len(C1) : C1[i] = <<>> \/ \E b \in D : C1[i] = R[b]
    BY <1>1 DEF Slices
  <1>5. \A i, j \in 1..Len(C1) : C1[i] = C1[j] /\ C1[i] # <<>> => i = j
    BY <1>1 DEF Slices
  <1>6. \A c \in D : R[c] # h => (Queued(R[c], C1) <=> Queued(R[c], C))
    <2> SUFFICES ASSUME NEW c \in D, R[c] # h
                 PROVE  Queued(R[c], C1) <=> Queued(R[c], C)
      OBVIOUS
    <2>1. ASSUME NEW i \in 1..Len(C), C[i] = R[c]
          PROVE  i - 1 \in 1..Len(C1) /\ C1[i - 1] = R[c]
      BY <1>1, <2>1
    <2>2. ASSUME NEW i \in 1..Len(C1), C1[i] = R[c]
          PROVE  i + 1 \in 1..Len(C) /\ C[i + 1] = R[c]
      BY <1>1, <2>2
    <2>3. QED
      BY <2>1, <2>2 DEF Queued
  <1>7. ASSUME NEW c \in D, Placed(R[c], A) PROVE Placed(R[c], A1)
    <2>1. PICK k \in 0..(Len(A) - Len(R[c])) : \A j \in 1..Len(R[c]) : A[k + j] = R[c][j]
      BY <1>7 DEF Placed
    <2>2. Len(R[c]) \in Nat
      BY SeqFacts DEF Own
    <2>3. \A j \in 1..Len(R[c]) : k + j \in 1..Len(A)
      BY <1>3, <2>2
    <2>4. k \in 0..(Len(A1) - Len(R[c]))
      BY <1>3, <2>2
    <2>5. QED
      BY <1>3, <2>1, <2>3, <2>4 DEF Placed
  <1>8. CASE h = <<>>
    <2>1. Len(h) = 0
      BY <1>8
    <2>2. Len(A1) = Len(A)
      BY <1>3, <2>1
    <2>3. \A c \in D : R[c] # <<>> =>
           (Queued(R[c], C1) /\ ~Among(R[c], A1)) \/ (~Queued(R[c], C1) /\ Placed(R[c], A1))
      <3> SUFFICES ASSUME NEW c \in D, R[c] # <<>>
                   PROVE  (Queued(R[c], C1) /\ ~Among(R[c], A1))
                          \/ (~Queued(R[c], C1) /\ Placed(R[c], A1))
        OBVIOUS
      <3>1. Queued(R[c], C1) <=> Queued(R[c], C)
        BY <1>6, <1>8
      <3>2. Among(R[c], A1) <=> Among(R[c], A)
        BY <1>3, <2>2 DEF Among
      <3>3. QED
        BY <1>7, <3>1, <3>2 DEF Slices
    <2>4. \A m \in 1..Len(A1) : \E c \in D : \E j \in 1..Len(R[c]) : A1[m] = R[c][j]
      BY <1>3, <2>2 DEF Slices
    <2>5. \A i, j \in 1..Len(A1) : A1[i] = A1[j] => i = j
      BY <1>3, <2>2 DEF Slices
    <2>6. QED
      BY <1>1, <1>3, <1>4, <1>5, <2>3, <2>4, <2>5 DEF Slices, C1, A1, h
  <1>9. CASE h # <<>>
    <2>1. PICK b \in D : h = R[b]
      BY <1>1, <1>9 DEF Slices
    <2>2. Queued(R[b], C) /\ ~Among(R[b], A)
      <3>1. 1 \in 1..Len(C) /\ C[1] = R[b] /\ R[b] # <<>>
        BY <1>1, <1>9, <2>1
      <3>2. Queued(R[b], C)
        BY <3>1 DEF Queued
      <3>3. QED
        BY <3>1, <3>2 DEF Slices
    <2>3. ~Queued(R[b], C1)
      <3>1. ASSUME NEW i \in 1..Len(C1), C1[i] = h PROVE FALSE
        <4>1. i + 1 \in 1..Len(C) /\ 1 \in 1..Len(C) /\ C[i + 1] = C[1] /\ C[1] # <<>> /\ i + 1 # 1
          BY <1>1, <1>9, <3>1
        <4>2. QED
          BY <4>1 DEF Slices
      <3>2. QED
        BY <2>1, <3>1 DEF Queued
    <2>4. Placed(R[b], A1)
      <3>1. Len(A) \in 0..(Len(A1) - Len(h))
        BY <1>3
      <3>2. QED
        BY <1>3, <2>1, <3>1 DEF Placed
    <2>5. \A m \in 1..Len(A1) : m \in 1..Len(A) \/ \E i \in 1..Len(h) : m = Len(A) + i
      <3>1. \A m \in 1..Len(A1) : m \in 1..Len(A)
                                     \/ (m - Len(A) \in 1..Len(h) /\ m = Len(A) + (m - Len(A)))
        BY <1>3
      <3>2. QED
        BY <3>1
    <2>6. ASSUME NEW c \in D, R[c] # <<>>, c # b
          PROVE  (Queued(R[c], C1) /\ ~Among(R[c], A1))
                 \/ (~Queued(R[c], C1) /\ Placed(R[c], A1))
      <3>1. \A i \in 1..Len(h) : \A j \in 1..Len(R[c]) : h[i] # R[c][j]
        BY <2>1, <2>6, OwnDiffer
      <3>2. R[c] # h
        BY <1>9, <2>1, <2>6, OwnDiffer
      <3>3. Among(R[c], A1) => Among(R[c], A)
        <4> SUFFICES ASSUME NEW m \in 1..Len(A1), NEW j \in 1..Len(R[c]), A1[m] = R[c][j]
                     PROVE  Among(R[c], A)
          BY DEF Among
        <4>1. m \in 1..Len(A)
          BY <1>3, <2>5, <3>1, SMTT(30)
        <4>2. QED
          BY <1>3, <4>1 DEF Among
      <3>4. Queued(R[c], C1) <=> Queued(R[c], C)
        BY <1>6, <3>2
      <3>5. QED
        BY <1>7, <2>6, <3>3, <3>4 DEF Slices
    <2>7. \A m \in 1..Len(A1) : \E c \in D : \E j \in 1..Len(R[c]) : A1[m] = R[c][j]
      <3> SUFFICES ASSUME NEW m \in 1..Len(A1)
                   PROVE  \E c \in D : \E j \in 1..Len(R[c]) : A1[m] = R[c][j]
        OBVIOUS
      <3>1. CASE m \in 1..Len(A)
        BY <1>3, <3>1 DEF Slices
      <3>2. CASE \E i \in 1..Len(h) : m = Len(A) + i
        BY <1>3, <2>1, <3>2
      <3>3. QED
        BY <2>5, <3>1, <3>2
    <2>8. ASSUME NEW m \in 1..Len(A1), NEW k \in 1..Len(A1), A1[m] = A1[k] PROVE m = k
      <3>1. \A i \in 1..Len(A) : \A j \in 1..Len(h) : A[i] # h[j]
        BY <2>1, <2>2 DEF Among
      <3>2. \A i, j \in 1..Len(h) : h[i] = h[j] => i = j
        BY <2>1 DEF Own
      <3>3. CASE m \in 1..Len(A) /\ k \in 1..Len(A)
        BY <1>3, <2>8, <3>3 DEF Slices
      <3>4. CASE (\E i \in 1..Len(h) : m = Len(A) + i) /\ \E i \in 1..Len(h) : k = Len(A) + i
        BY <1>3, <2>8, <3>2, <3>4
      <3>5. CASE m \in 1..Len(A) /\ \E i \in 1..Len(h) : k = Len(A) + i
        BY <1>3, <2>8, <3>1, <3>5
      <3>6. CASE k \in 1..Len(A) /\ \E i \in 1..Len(h) : m = Len(A) + i
        BY <1>3, <2>8, <3>1, <3>6
      <3>7. QED
        BY <2>5, <3>3, <3>4, <3>5, <3>6
    <2>9. \A c \in D : R[c] # <<>> =>
            (Queued(R[c], C1) /\ ~Among(R[c], A1)) \/ (~Queued(R[c], C1) /\ Placed(R[c], A1))
      BY <2>3, <2>4, <2>6
    <2>10. QED
      BY <1>1, <1>3, <1>4, <1>5, <2>7, <2>8, <2>9 DEF Slices, C1, A1, h
  <1>10. QED
    BY <1>8, <1>9

\* Only what the returned bots have returned matters.
LEMMA SlicesKept ==
    ASSUME NEW C, NEW A, NEW R, NEW Q, NEW D, Slices(C, A, R, D), \A b \in D : Q[b] = R[b]
    PROVE  Slices(C, A, Q, D)
  <1>1. \A b \in D : R[b] # <<>> =>
          (Queued(R[b], C) /\ ~Among(R[b], A)) \/ (~Queued(R[b], C) /\ Placed(R[b], A))
    BY DEF Slices
  <1>2. \A b \in D : Q[b] # <<>> =>
          (Queued(Q[b], C) /\ ~Among(Q[b], A)) \/ (~Queued(Q[b], C) /\ Placed(Q[b], A))
    BY <1>1
  <1>3. QED
    BY <1>2 DEF Slices

-----------------------------------------------------------------------------
(* What Fleet.Run returns: the inductive invariant *)

\* o is an order that bot b may send as its j-th.
Sent(b, j, o) ==
    IF o.kind = "cancel"
    THEN o.id = <<b, -j>> \/ \E m \in 1..(j - 1) : o.id = <<b, m>>
    ELSE o.id = <<b, j>>

\* The counters of a bot r.
Counted(r) ==
    /\ DOMAIN r = {"pc", "n", "order", "pending", "wire", "replies", "results"}
    /\ r.pc \in {"ramp", "ready", "wait", "done"}
    /\ r.n \in Nat /\ IsSeq(r.results)
    /\ r.pc = "wait" => r.n = Len(r.results) + 1
    /\ r.pc # "wait" => r.n = Len(r.results)
    /\ r.pc = "ramp" => r.results = <<>>

\* The orders of bot b, whose state is r: no order is sent twice, because the
\* id that a cancel takes leaves the pending ones.
Ordered(b, r) ==
    /\ \A j \in 1..Len(r.results) : Sent(b, j, r.results[j].order)
    /\ r.pc = "wait" => Sent(b, r.n, r.order)
    /\ \A x \in r.pending : \E m \in 1..r.n : x = <<b, m>>
    /\ \A j \in 1..Len(r.results) :
          r.results[j].order.kind = "cancel" => r.results[j].order.id \notin r.pending
    /\ r.pc = "wait" /\ r.order.kind = "cancel" => r.order.id \notin r.pending
    /\ \A i, j \in 1..Len(r.results) : r.results[i].order = r.results[j].order => i = j
    /\ r.pc = "wait" => \A j \in 1..Len(r.results) : r.results[j].order # r.order

Returned == {b \in Bots : bot[b].pc = "done"}
Results  == [b \in Bots |-> bot[b].results]

BotsInv ==
    /\ profile \in Profiles /\ DOMAIN bot = Bots
    /\ \A b \in Bots : /\ Counted(bot[b]) /\ Ordered(b, bot[b])
                       /\ bot[b].pc # "ramp" => b \in BotsOf[profile]

FleetInv ==
    /\ BotsInv
    /\ Slices(ch, all, Results, Returned)
    /\ stage \in {"checking", "scored"} =>
          ch = <<>> /\ \A b \in BotsOf[profile] : bot[b].pc = "done"

-----------------------------------------------------------------------------
(* What Fleet.Run returns: the steps *)

LEMMA OrderedOwn ==
    ASSUME NEW b, NEW r, Counted(r), Ordered(b, r)
    PROVE  Own(b, r.results)
  <1>1. ASSUME NEW j \in 1..Len(r.results) PROVE r.results[j].order.id[1] = b
    BY DEF Ordered, Sent
  <1>2. QED
    BY <1>1 DEF Own, Ordered, Counted

\* Next draws an order that was not sent before.
LEMMA NextOrder ==
    ASSUME NEW b \in Bots, Counted(bot[b]), Ordered(b, bot[b]), bot[b].pc = "ready",
           NEW d \in Drawn(b), NEW r, Counted(r), r.pc = "wait", r.n = bot[b].n + 1,
           r.pending = d.pending, r.order = d.order, r.results = bot[b].results
    PROVE  Ordered(b, r)
  <1> DEFINE n == bot[b].n
             rs == bot[b].results
  <1>1. n \in Nat /\ n = Len(rs) /\ Len(r.results) = n
    BY DEF Counted
  <1>2. /\ \A j \in 1..n : Sent(b, j, rs[j].order)
        /\ \A x \in bot[b].pending : \E m \in 1..n : x = <<b, m>>
        /\ \A j \in 1..n : rs[j].order.kind = "cancel" => rs[j].order.id \notin bot[b].pending
        /\ \A i, j \in 1..n : rs[i].order = rs[j].order => i = j
    BY <1>1 DEF Ordered
  <1>3. CASE d.order.kind # "cancel"
    <2>1. d.order.id = <<b, n + 1>> /\ d.pending \subseteq bot[b].pending \cup {<<b, n + 1>>}
      BY <1>3 DEF Drawn, OrderFor
    <2>2. Sent(b, r.n, r.order)
      BY <1>3, <2>1 DEF Sent
    <2>3. ASSUME NEW x \in r.pending PROVE \E m \in 1..r.n : x = <<b, m>>
      BY <1>1, <1>2, <2>1
    <2>4. ASSUME NEW j \in 1..n, rs[j].order.kind = "cancel" PROVE rs[j].order.id # <<b, n + 1>>
      BY <1>1, <1>2, <2>4 DEF Sent
    <2>5. ASSUME NEW j \in 1..n PROVE rs[j].order # r.order
      BY <1>1, <1>2, <1>3, <2>1 DEF Sent
    <2>6. QED
      BY <1>1, <1>2, <1>3, <2>1, <2>2, <2>3, <2>4, <2>5 DEF Ordered
  <1>4. CASE d.order.kind = "cancel"
    <2>1. /\ d.pending = bot[b].pending \ {d.order.id}
          /\ d.order.id \in bot[b].pending \/ d.order.id = <<b, -(n + 1)>>
      BY <1>4 DEF Drawn, OrderFor
    <2>2. Sent(b, r.n, r.order)
      BY <1>1, <1>2, <1>4, <2>1 DEF Sent
    <2>3. ASSUME NEW x \in r.pending PROVE \E m \in 1..r.n : x = <<b, m>>
      BY <1>1, <1>2, <2>1
    <2>4. ASSUME NEW j \in 1..n PROVE rs[j].order # r.order
      <3>1. CASE d.order.id \in bot[b].pending
        BY <1>2, <1>4, <3>1
      <3>2. CASE d.order.id = <<b, -(n + 1)>>
        <4>1. rs[j].order.id # <<b, -(n + 1)>>
          BY <1>1, <1>2 DEF Sent
        <4>2. QED
          BY <3>2, <4>1
      <3>3. QED
        BY <2>1, <3>1, <3>2
    <2>5. QED
      BY <1>1, <1>2, <1>4, <2>1, <2>2, <2>3, <2>4 DEF Ordered
  <1>5. QED
    BY <1>3, <1>4

\* Send returns: its order is recorded.
LEMMA RecordOrder ==
    ASSUME NEW b, NEW q, Counted(q), Ordered(b, q), q.pc = "wait", NEW x, x.order = q.order,
           NEW r, DOMAIN r = DOMAIN q, r.pc = "ready", r.n = q.n, r.pending = q.pending,
           r.results = Append(q.results, x)
    PROVE  Counted(r) /\ Ordered(b, r)
  <1> DEFINE m == Len(q.results)
             rs == r.results
  <1>1. /\ IsSeq(rs) /\ m \in Nat /\ Len(rs) = m + 1 /\ r.n = m + 1
        /\ \A i \in 1..m : rs[i] = q.results[i]
        /\ rs[m + 1] = x
    BY AppendSeq DEF Counted
  <1>2. Counted(r)
    BY <1>1 DEF Counted
  <1>3. \A j \in 1..Len(rs) : j \in 1..m \/ j = m + 1
    BY <1>1
  <1>4. \A j \in 1..Len(rs) : Sent(b, j, rs[j].order)
    BY <1>1, <1>3 DEF Ordered
  <1>5. \A j \in 1..Len(rs) : rs[j].order.kind = "cancel" => rs[j].order.id \notin r.pending
    BY <1>1, <1>3 DEF Ordered
  <1>6. ASSUME NEW i \in 1..Len(rs), NEW j \in 1..Len(rs), rs[i].order = rs[j].order
        PROVE  i = j
    BY <1>1, <1>3, <1>6 DEF Ordered
  <1>7. QED
    BY <1>1, <1>2, <1>4, <1>5, <1>6 DEF Ordered

LEMMA BotsNext ==
    ASSUME profile' \in Profiles, DOMAIN bot' = Bots,
           \A b \in Bots : /\ Counted(bot'[b]) /\ Ordered(b, bot'[b])
                           /\ bot'[b].pc # "ramp" => b \in BotsOf[profile']
    PROVE  BotsInv'
  BY DEF BotsInv, Bots, Profiles, Counted, Ordered, Sent, IsSeq, Range

LEMMA SlicesNext ==
    ASSUME Slices(ch', all', Results', Returned')
    PROVE  Slices(ch, all, Results, Returned)'
  BY DEF Slices, IsSeq, Range, Queued, Among, Placed

\* A step of bot b that returns no results.
LEMMA BotMoves ==
    ASSUME FleetInv, NEW b \in Bots, bot[b].pc # "done", bot'[b].pc # "done",
           DOMAIN bot' = DOMAIN bot, \A c \in Bots \ {b} : bot'[c] = bot[c],
           UNCHANGED <<profile, stage, ch, all>>,
           Counted(bot'[b]), Ordered(b, bot'[b]),
           bot'[b].pc # "ramp" => b \in BotsOf[profile]
    PROVE  FleetInv'
  <1>1. BotsInv'
    <2>1. \A c \in Bots : /\ Counted(bot'[c]) /\ Ordered(c, bot'[c])
                          /\ bot'[c].pc # "ramp" => c \in BotsOf[profile]
      BY DEF FleetInv, BotsInv
    <2>2. QED
      BY <2>1, BotsNext DEF FleetInv, BotsInv
  <1>2. Returned' = Returned
    BY DEF Returned, Bots, Profiles
  <1>3. Results' = [c \in Bots |-> bot'[c].results]
    BY DEF Results, Bots, Profiles
  <1>4. \A c \in Returned : Results'[c] = Results[c]
    BY <1>3 DEF Returned, Results
  <1>5. Slices(ch, all, Results', Returned)
    BY <1>4, SlicesKept DEF FleetInv
  <1>6. \A c \in BotsOf[profile] : bot[c].pc = "done" => bot'[c].pc = "done"
    BY DEF FleetInv, BotsInv, Bots
  <1>7. QED
    <2>1. Slices(ch', all', Results', Returned')
      BY <1>2, <1>5
    <2>2. QED
      BY <1>1, <1>6, <2>1, SlicesNext DEF FleetInv

LEMMA StartFleet ==
    ASSUME FleetInv, NEW b \in Bots, StartBot(b)
    PROVE  FleetInv'
  <1>1. /\ DOMAIN bot = Bots /\ Counted(bot[b]) /\ Ordered(b, bot[b])
        /\ bot[b].pc = "ramp" /\ b \in BotsOf[profile]
    BY DEF FleetInv, BotsInv, StartBot, InFleet
  <1>2. /\ DOMAIN bot' = DOMAIN bot /\ \A c \in Bots \ {b} : bot'[c] = bot[c]
        /\ bot'[b] = [bot[b] EXCEPT !.pc = "ready"]
        /\ UNCHANGED <<profile, stage, ch, all>>
    BY <1>1 DEF StartBot
  <1>3. Counted(bot'[b]) /\ Ordered(b, bot'[b]) /\ bot'[b].pc = "ready"
    BY <1>1, <1>2 DEF Counted, Ordered
  <1>4. QED
    BY <1>1, <1>2, <1>3, BotMoves

LEMMA SendFleet ==
    ASSUME FleetInv, NEW b \in Bots, SendOrder(b)
    PROVE  FleetInv'
  <1>1. /\ DOMAIN bot = Bots /\ Counted(bot[b]) /\ Ordered(b, bot[b])
        /\ bot[b].pc = "ready" /\ b \in BotsOf[profile]
    BY DEF FleetInv, BotsInv, SendOrder, InFleet
  <1>2. PICK d \in Drawn(b) :
          bot' = [bot EXCEPT ![b].pc = "wait", ![b].n = @ + 1,
                             ![b].pending = d.pending, ![b].order = d.order,
                             ![b].wire = Append(@, [n |-> bot[b].n + 1, order |-> d.order])]
    BY DEF SendOrder
  <1>3. /\ DOMAIN bot' = DOMAIN bot /\ \A c \in Bots \ {b} : bot'[c] = bot[c]
        /\ UNCHANGED <<profile, stage, ch, all>>
    BY <1>1, <1>2 DEF SendOrder
  <1>4. /\ DOMAIN bot'[b] = DOMAIN bot[b] /\ bot'[b].pc = "wait" /\ bot'[b].n = bot[b].n + 1
        /\ bot'[b].pending = d.pending /\ bot'[b].order = d.order
        /\ bot'[b].results = bot[b].results
    BY <1>1, <1>2 DEF Counted
  <1>5. Counted(bot'[b])
    BY <1>1, <1>4 DEF Counted
  <1>6. Ordered(b, bot'[b])
    BY <1>1, <1>4, <1>5, NextOrder
  <1>7. QED
    BY <1>1, <1>3, <1>4, <1>5, <1>6, BotMoves

LEMMA ServeFleet ==
    ASSUME FleetInv, NEW b \in Bots, EngineServes(b)
    PROVE  FleetInv'
  <1>1. DOMAIN bot = Bots /\ Counted(bot[b]) /\ Ordered(b, bot[b])
    BY DEF FleetInv, BotsInv
  <1>2. PICK w, q : bot' = [bot EXCEPT ![b].wire = w, ![b].replies = q]
    BY DEF EngineServes
  <1>3. /\ DOMAIN bot' = DOMAIN bot /\ \A c \in Bots \ {b} : bot'[c] = bot[c]
        /\ UNCHANGED <<profile, stage, ch, all>>
    BY <1>1, <1>2 DEF EngineServes
  <1>4. /\ DOMAIN bot'[b] = DOMAIN bot[b] /\ bot'[b].pc = bot[b].pc /\ bot'[b].n = bot[b].n
        /\ bot'[b].pending = bot[b].pending /\ bot'[b].order = bot[b].order
        /\ bot'[b].results = bot[b].results
    BY <1>1, <1>2 DEF Counted
  <1>5. \A c \in Bots : /\ Counted(bot'[c]) /\ Ordered(c, bot'[c])
                        /\ bot'[c].pc = bot[c].pc /\ bot'[c].results = bot[c].results
    BY <1>1, <1>3, <1>4 DEF FleetInv, BotsInv, Counted, Ordered
  <1>6. BotsInv'
    BY <1>3, <1>5, BotsNext DEF FleetInv, BotsInv
  <1>7. Returned' = Returned /\ Results' = Results
    BY <1>3, <1>5 DEF Returned, Results, Bots, Profiles
  <1>8. \A c \in BotsOf[profile] : bot[c].pc = "done" => bot'[c].pc = "done"
    BY <1>5 DEF FleetInv, BotsInv, Bots
  <1>9. QED
    <2>1. Slices(ch', all', Results', Returned')
      BY <1>3, <1>7 DEF FleetInv
    <2>2. QED
      BY <1>3, <1>6, <1>8, <2>1, SlicesNext DEF FleetInv

LEMMA ReturnFleet ==
    ASSUME FleetInv, NEW b \in Bots, Receive(b) \/ SendFails(b)
    PROVE  FleetInv'
  <1>1. /\ DOMAIN bot = Bots /\ Counted(bot[b]) /\ Ordered(b, bot[b])
        /\ bot[b].pc = "wait" /\ b \in BotsOf[profile]
    BY DEF FleetInv, BotsInv, Receive, SendFails
  <1>2. PICK w, q, e, f :
          bot' = [bot EXCEPT ![b].pc = "ready", ![b].wire = w, ![b].replies = q,
                    ![b].results = Append(@, [order |-> bot[b].order, err |-> e, fill |-> f])]
    <2>1. CASE Receive(b)
      <3>1. [bot EXCEPT ![b].pc = "ready", ![b].replies = Tail(@),
                 ![b].results = Append(@, [order |-> bot[b].order, err |-> FALSE,
                                           fill |-> Head(bot[b].replies)])]
            = [bot EXCEPT ![b].pc = "ready", ![b].wire = bot[b].wire,
                 ![b].replies = Tail(bot[b].replies),
                 ![b].results = Append(@, [order |-> bot[b].order, err |-> FALSE,
                                           fill |-> Head(bot[b].replies)])]
        BY <1>1 DEF Counted
      <3>2. QED
        BY <2>1, <3>1 DEF Receive
    <2>2. CASE SendFails(b)
      <3>1. PICK w \in StillOut(b) :
              bot' = [bot EXCEPT ![b].pc = "ready", ![b].wire = w, ![b].replies = Unread(b),
                       ![b].results = Append(@, [order |-> bot[b].order, err |-> TRUE,
                                                 fill |-> Book!Fill(bot[b].order, 0, 0, FALSE)])]
        BY <2>2 DEF SendFails
      <3>2. QED
        BY <3>1, Zenon
    <2>3. QED
      BY <2>1, <2>2
  <1>3. /\ DOMAIN bot' = DOMAIN bot /\ \A c \in Bots \ {b} : bot'[c] = bot[c]
        /\ UNCHANGED <<profile, stage, ch, all>>
    BY <1>1, <1>2 DEF Receive, SendFails
  <1> DEFINE x == [order |-> bot[b].order, err |-> e, fill |-> f]
  <1>4. /\ DOMAIN bot'[b] = DOMAIN bot[b] /\ bot'[b].pc = "ready" /\ bot'[b].n = bot[b].n
        /\ bot'[b].pending = bot[b].pending /\ bot'[b].results = Append(bot[b].results, x)
    BY <1>1, <1>2 DEF Counted
  <1>5. x.order = bot[b].order
    OBVIOUS
  <1> HIDE DEF x
  <1>6. Counted(bot'[b]) /\ Ordered(b, bot'[b])
    BY <1>1, <1>4, <1>5, RecordOrder
  <1>7. QED
    BY <1>1, <1>3, <1>4, <1>6, BotMoves

\* A bot returns: its results go to the channel.
LEMMA BotReturns ==
    ASSUME FleetInv, NEW b \in Bots, BotNeverRuns(b) \/ StopBot(b)
    PROVE  FleetInv'
  <1>1. /\ DOMAIN bot = Bots /\ Counted(bot[b]) /\ Ordered(b, bot[b])
        /\ bot[b].pc \in {"ramp", "ready"} /\ b \in BotsOf[profile] /\ stage = "fleet"
    BY DEF FleetInv, BotsInv, BotNeverRuns, StopBot, InFleet
  <1>2. /\ DOMAIN bot' = DOMAIN bot /\ \A c \in Bots \ {b} : bot'[c] = bot[c]
        /\ UNCHANGED <<profile, stage, all>>
    BY <1>1 DEF BotNeverRuns, StopBot
  <1>3. /\ DOMAIN bot'[b] = DOMAIN bot[b] /\ bot'[b].pc = "done" /\ bot'[b].n = bot[b].n
        /\ bot'[b].pending = bot[b].pending /\ bot'[b].results = bot[b].results
    BY <1>1 DEF BotNeverRuns, StopBot, Counted
  <1>4. ch' = Append(ch, bot[b].results)
    BY <1>1 DEF BotNeverRuns, StopBot, Counted
  <1>5. \A c \in Bots : /\ Counted(bot'[c]) /\ Ordered(c, bot'[c])
                        /\ bot'[c].results = bot[c].results
                        /\ bot'[c].pc # "ramp" => c \in BotsOf[profile]
    BY <1>1, <1>2, <1>3 DEF FleetInv, BotsInv, Counted, Ordered
  <1>6. BotsInv'
    BY <1>2, <1>5, BotsNext DEF FleetInv, BotsInv
  <1>7. Returned' = Returned \cup {b} /\ Results' = Results /\ b \notin Returned
    BY <1>1, <1>2, <1>3, <1>5 DEF Returned, Results, Bots, Profiles
  <1>8. \A c \in Returned \cup {b} : Own(c, Results[c])
    BY OrderedOwn DEF Returned, Results, FleetInv, BotsInv
  <1>9. Results[b] = bot[b].results
    BY DEF Results
  <1>10. Slices(Append(ch, Results[b]), all, Results, Returned \cup {b})
    BY <1>7, <1>8, SliceSent DEF FleetInv
  <1>11. Slices(ch', all, Results, Returned \cup {b})
    BY <1>4, <1>9, <1>10
  <1>12. Slices(ch, all, Results, Returned)'
    <2>1. Slices(ch', all', Results', Returned')
      BY <1>2, <1>7, <1>11
    <2>2. QED
      BY <2>1, SlicesNext
  <1>13. QED
    BY <1>1, <1>2, <1>6, <1>12 DEF FleetInv

LEMMA CollectFleet ==
    ASSUME FleetInv, Collect
    PROVE  FleetInv'
  <1>1. /\ UNCHANGED <<profile, stage, bot>> /\ stage = "fleet" /\ ch # <<>>
        /\ ch' = Tail(ch) /\ all' = all \o Head(ch)
    BY DEF Collect, Collected
  <1>2. BotsInv' /\ Results' = Results /\ Returned' = Returned
    <2>1. BotsInv'
      BY <1>1, BotsNext DEF FleetInv, BotsInv
    <2>2. QED
      BY <1>1, <2>1 DEF Results, Returned, Bots, Profiles
  <1>3. \A c \in Returned : Own(c, Results[c])
    BY OrderedOwn DEF Returned, Results, FleetInv, BotsInv
  <1>4. Slices(Tail(ch), all \o Head(ch), Results, Returned)
    BY <1>1, <1>3, SliceCollected DEF FleetInv
  <1>5. Slices(ch', all', Results, Returned)
    BY <1>1, <1>4
  <1>6. Slices(ch, all, Results, Returned)'
    <2>1. Slices(ch', all', Results', Returned')
      BY <1>2, <1>5
    <2>2. QED
      BY <2>1, SlicesNext
  <1>7. QED
    BY <1>1, <1>2, <1>6 DEF FleetInv

\* The other steps leave the bots and their results alone.
LEMMA OtherSteps ==
    ASSUME FleetInv, UNCHANGED <<profile, bot, ch, all>>,
           stage' \in {"checking", "scored"} =>
              stage \in {"checking", "scored"}
              \/ (ch = <<>> /\ \A b \in BotsOf[profile] : bot[b].pc = "done")
    PROVE  FleetInv'
  <1>1. BotsInv' /\ Results' = Results /\ Returned' = Returned
    <2>1. BotsInv'
      BY BotsNext DEF FleetInv, BotsInv
    <2>2. QED
      BY <2>1 DEF Results, Returned, Bots, Profiles
  <1>2. Slices(ch, all, Results, Returned)'
    <2>1. Slices(ch', all', Results', Returned')
      BY <1>1 DEF FleetInv
    <2>2. QED
      BY <2>1, SlicesNext
  <1>3. QED
    BY <1>1, <1>2 DEF FleetInv

LEMMA FleetStart == ASSUME Init PROVE FleetInv
  <1>1. IsSeq(<<>>) /\ Len(<<>>) = 0
    BY DEF IsSeq
  <1>2. \A b \in Bots : bot[b] = NewBot
    BY DEF Init
  <1>3. Counted(NewBot)
    BY <1>1 DEF Counted, NewBot
  <1>4. \A b \in Bots : Ordered(b, NewBot)
    BY <1>1 DEF Ordered, NewBot
  <1>5. BotsInv
    BY <1>2, <1>3, <1>4 DEF BotsInv, Init, NewBot
  <1>6. Returned = {}
    BY <1>2 DEF Returned, NewBot
  <1>7. Slices(ch, all, Results, Returned)
    BY <1>1, <1>6 DEF Slices, Init
  <1>8. QED
    BY <1>5, <1>7 DEF FleetInv, Init

LEMMA FleetStep == ASSUME FleetInv, [Next]_vars PROVE FleetInv'
  <1>1. CASE UNCHANGED vars \/ StartGate \/ GateDecides \/ ManualProbe \/ TestEnds
             \/ FleetReturns \/ ReplayOrder \/ ScoreRun \/ Over
    <2>1. UNCHANGED <<profile, bot, ch, all>>
      BY <1>1 DEF vars, fleetVars, StartGate, GateDecides, ManualProbe, TestEnds,
                  FleetReturns, ReplayOrder, ScoreRun, Over
    <2>2. stage' \in {"checking", "scored"} =>
              stage \in {"checking", "scored"}
              \/ (ch = <<>> /\ \A b \in BotsOf[profile] : bot[b].pc = "done")
      <3>1. CASE FleetReturns
        BY <3>1 DEF FleetReturns
      <3>2. CASE GateDecides
        BY <3>2 DEF GateDecides
      <3>3. CASE ScoreRun
        BY <3>3 DEF ScoreRun
      <3>4. CASE UNCHANGED vars \/ StartGate \/ ManualProbe \/ TestEnds \/ ReplayOrder \/ Over
        <4>1. stage' = stage
          BY <3>4 DEF vars, StartGate, ManualProbe, TestEnds, ReplayOrder, Over
        <4>2. QED
          BY <4>1
      <3>5. QED
        BY <1>1, <3>1, <3>2, <3>3, <3>4
    <2>3. QED
      BY <2>1, <2>2, OtherSteps
  <1>2. ASSUME NEW v, Validates(v) PROVE FleetInv'
    <2>1. UNCHANGED <<profile, stage, bot, ch, all>>
      BY <1>2 DEF Validates, RunScenario, RunBurst, ReturnResult, AbortRun, fleetVars
    <2>2. stage' \in {"checking", "scored"} => stage \in {"checking", "scored"}
      BY <2>1
    <2>3. QED
      BY <2>1, <2>2, OtherSteps
  <1>3. CASE Collect
    BY <1>3, CollectFleet
  <1>4. QED
    BY <1>1, <1>2, <1>3, StartFleet, SendFleet, ServeFleet, ReturnFleet, BotReturns DEF Next

\* Whatever the bots draw, lose and give up, and however their goroutines and
\* the collector interleave, Fleet.Run returns every bot's results whole and
\* in order, and nothing else or twice.
THEOREM CompleteCorrect == Spec => []ResultsComplete
  <1>1. Init => FleetInv
    BY FleetStart
  <1>2. FleetInv /\ [Next]_vars => FleetInv'
    BY FleetStep
  <1>3. FleetInv => ResultsComplete
    <2> SUFFICES ASSUME FleetInv, stage = "scored" PROVE ResultsComplete
      BY DEF ResultsComplete
    <2>1. /\ profile \in Profiles /\ ch = <<>> /\ Slices(ch, all, Results, Returned)
          /\ \A b \in BotsOf[profile] : bot[b].pc = "done"
      BY DEF FleetInv, BotsInv
    <2>2. \A b \in BotsOf[profile] : b \in Bots
      BY <2>1 DEF Bots
    <2>3. \A b \in BotsOf[profile] : /\ bot[b].n = Len(bot[b].results) /\ IsSeq(bot[b].results)
                                     /\ b \in Returned /\ Results[b] = bot[b].results
      BY <2>1, <2>2 DEF FleetInv, BotsInv, Counted, Returned, Results
    <2>4. ASSUME NEW b \in BotsOf[profile] PROVE Placed(bot[b].results, all)
      <3>1. CASE bot[b].results = <<>>
        <4>1. Len(bot[b].results) = 0 /\ Len(all) \in Nat
          BY <2>1, <3>1, SeqFacts DEF Slices
        <4>2. 0 \in 0..(Len(all) - Len(bot[b].results))
          BY <4>1
        <4>3. \A j \in 1..Len(bot[b].results) : FALSE
          BY <4>1
        <4>4. QED
          BY <4>2, <4>3 DEF Placed
      <3>2. CASE bot[b].results # <<>>
        <4>1. ~Queued(bot[b].results, ch)
          BY <2>1 DEF Queued
        <4>2. QED
          BY <2>1, <2>3, <3>2, <4>1 DEF Slices
      <3>3. QED
        BY <3>1, <3>2
    <2>5. ASSUME NEW i \in 1..Len(all)
          PROVE  \E b \in BotsOf[profile] : \E j \in 1..bot[b].n : all[i] = bot[b].results[j]
      <3>1. PICK b \in Returned : \E j \in 1..Len(Results[b]) : all[i] = Results[b][j]
        BY <2>1 DEF Slices
      <3>2. b \in BotsOf[profile]
        BY DEF Returned, FleetInv, BotsInv
      <3>3. QED
        BY <2>3, <3>1, <3>2
    <2>6. QED
      <3>1. \A i, j \in 1..Len(all) : all[i] = all[j] => i = j
        BY <2>1 DEF Slices
      <3>2. ASSUME NEW b \in BotsOf[profile]
            PROVE  /\ Len(bot[b].results) = bot[b].n
                   /\ \E k \in 0..(Len(all) - bot[b].n) : \A j \in 1..bot[b].n :
                         all[k + j] = bot[b].results[j]
        <4>1. \E k \in 0..(Len(all) - Len(bot[b].results)) : \A j \in 1..Len(bot[b].results) :
                 all[k + j] = bot[b].results[j]
          BY <2>4 DEF Placed
        <4>2. Len(bot[b].results) = bot[b].n
          BY <2>3
        <4>3. QED
          BY <4>1, <4>2
      <3>3. QED
        BY <2>5, <3>1, <3>2 DEF ResultsComplete
  <1>4. QED
    BY <1>1, <1>2, <1>3, PTL DEF Spec

-----------------------------------------------------------------------------
(* Fills over REST: the inductive invariant *)

\* A bot r over REST: at most one request on the wire has the number of the
\* order the bot waits for, and it carries that order; an answer that can be
\* read is that order's, and its request is then off the wire.
Wired(r) ==
    /\ IsSeq(r.wire)
    /\ \A i \in 1..Len(r.wire) : r.wire[i].n \in Int /\ r.wire[i].n <= r.n
    /\ \A i, j \in 1..Len(r.wire) : r.wire[i].n = r.wire[j].n => i = j
    /\ r.pc = "wait" => \A i \in 1..Len(r.wire) : r.wire[i].n = r.n => r.wire[i].order = r.order
    /\ \/ r.replies = <<>>
       \/ /\ r.pc = "wait" /\ r.replies = <<r.replies[1]>> /\ r.replies[1].id = r.order.id
          /\ \A i \in 1..Len(r.wire) : r.wire[i].n # r.n

\* The fills among results rs are their orders'.
OwnFills(rs) == \A i \in 1..Len(rs) : ~rs[i].err => rs[i].fill.id = rs[i].order.id

RestInv == protocol = "rest" => \A b \in Bots : Wired(bot[b]) /\ OwnFills(bot[b].results)

-----------------------------------------------------------------------------
(* Fills over REST: the steps *)

LEMMA AnswerId == \A o : Answer(o).id = o.id
  BY DEF Answer, Book!FillOf, Book!Fill

\* A request leaves the wire.
LEMMA WireShrinks ==
    ASSUME NEW r, Wired(r), NEW i \in 1..Len(r.wire), NEW w, w = RemoveAt(r.wire, i)
    PROVE  /\ IsSeq(w)
           /\ \A k \in 1..Len(w) : \E m \in 1..Len(r.wire) : m # i /\ w[k] = r.wire[m]
           /\ \A j, k \in 1..Len(w) : w[j].n = w[k].n => j = k
  <1> DEFINE f(k) == IF k < i THEN k ELSE k + 1
  <1>1. /\ IsSeq(w) /\ Len(r.wire) \in Nat /\ Len(w) = Len(r.wire) - 1
        /\ \A k \in 1..(Len(r.wire) - 1) : w[k] = r.wire[f(k)]
    BY RemoveSeq DEF Wired
  <1>2. \A k \in 1..Len(w) : f(k) \in 1..Len(r.wire) /\ f(k) # i /\ w[k] = r.wire[f(k)]
    BY <1>1
  <1>3. \A j, k \in 1..Len(w) : f(j) = f(k) => j = k
    BY <1>1
  <1> HIDE DEF f
  <1>4. QED
    <2>1. ASSUME NEW j \in 1..Len(w), NEW k \in 1..Len(w), w[j].n = w[k].n PROVE j = k
      <3>1. f(j) = f(k)
        BY <1>2, <2>1, SMTT(30) DEF Wired
      <3>2. QED
        BY <1>3, <3>1
    <2>2. QED
      BY <1>1, <1>2, <2>1

LEMMA RestNext ==
    ASSUME protocol' = "rest" => \A c \in Bots : Wired(bot'[c]) /\ OwnFills(bot'[c].results)
    PROVE  RestInv'
  BY DEF RestInv, Bots, Profiles, Wired, OwnFills, IsSeq, Range

\* A step of bot b.
LEMMA RestMoves ==
    ASSUME RestInv, NEW b \in Bots, protocol' = protocol,
           \A c \in Bots \ {b} : bot'[c] = bot[c],
           protocol = "rest" => Wired(bot'[b]) /\ OwnFills(bot'[b].results)
    PROVE  RestInv'
  <1>1. protocol = "rest" => \A c \in Bots : Wired(bot'[c]) /\ OwnFills(bot'[c].results)
    BY DEF RestInv
  <1>2. QED
    BY <1>1, RestNext

LEMMA SendRest ==
    ASSUME FleetInv, RestInv, NEW b \in Bots, SendOrder(b)
    PROVE  RestInv'
  <1>1. DOMAIN bot = Bots /\ Counted(bot[b]) /\ bot[b].pc = "ready"
    BY DEF FleetInv, BotsInv, SendOrder
  <1>2. PICK d \in Drawn(b) :
          bot' = [bot EXCEPT ![b].pc = "wait", ![b].n = @ + 1,
                             ![b].pending = d.pending, ![b].order = d.order,
                             ![b].wire = Append(@, [n |-> bot[b].n + 1, order |-> d.order])]
    BY DEF SendOrder
  <1> DEFINE x == [n |-> bot[b].n + 1, order |-> d.order]
             w == bot[b].wire
             w1 == Append(w, x)
  <1>3. /\ bot'[b].pc = "wait" /\ bot'[b].n = bot[b].n + 1 /\ bot'[b].order = d.order
        /\ bot'[b].wire = w1 /\ bot'[b].replies = bot[b].replies
        /\ bot'[b].results = bot[b].results
        /\ \A c \in Bots \ {b} : bot'[c] = bot[c]
    BY <1>1, <1>2 DEF Counted
  <1>4. x.n = bot[b].n + 1 /\ x.order = d.order /\ bot[b].n \in Nat
    BY <1>1 DEF Counted
  <1> HIDE DEF x
  <1>5. ASSUME protocol = "rest" PROVE Wired(bot'[b]) /\ OwnFills(bot'[b].results)
    <2>1. Wired(bot[b]) /\ OwnFills(bot[b].results)
      BY <1>5 DEF RestInv
    <2>2. /\ IsSeq(w1) /\ Len(w) \in Nat /\ Len(w1) = Len(w) + 1 /\ w1[Len(w) + 1] = x
          /\ \A i \in 1..Len(w) : w1[i] = w[i]
      BY <2>1, AppendSeq DEF Wired
    <2> HIDE DEF w1
    <2>3. \A i \in 1..Len(w1) : i \in 1..Len(w) \/ i = Len(w) + 1
      BY <2>2
    <2>4. \A i \in 1..Len(w) : w1[i].n \in Int /\ w1[i].n <= bot[b].n
      BY <2>1, <2>2 DEF Wired
    <2>5. \A i \in 1..Len(w1) : w1[i].n \in Int /\ w1[i].n <= bot[b].n + 1
      BY <1>4, <2>2, <2>3, <2>4
    <2>6. \A i \in 1..Len(w1) : w1[i].n = bot[b].n + 1 => i = Len(w) + 1
      BY <1>4, <2>3, <2>4
    <2>7. \A i, j \in 1..Len(w1) : w1[i].n = w1[j].n => i = j
      <3>1. \A i, j \in 1..Len(w) : w1[i].n = w1[j].n => i = j
        BY <2>1, <2>2 DEF Wired
      <3>2. w1[Len(w) + 1].n = bot[b].n + 1
        BY <1>4, <2>2
      <3>3. QED
        BY <2>3, <2>6, <3>1, <3>2
    <2>8. bot[b].replies = <<>>
      BY <1>1, <2>1 DEF Wired
    <2>9. Wired(bot'[b])
      BY <1>3, <1>4, <2>2, <2>5, <2>6, <2>7, <2>8 DEF Wired
    <2>10. QED
      BY <1>3, <2>1, <2>9
  <1>6. protocol' = protocol
    BY DEF SendOrder
  <1>7. QED
    BY <1>3, <1>5, <1>6, RestMoves

LEMMA ServeRest ==
    ASSUME FleetInv, RestInv, NEW b \in Bots, EngineServes(b)
    PROVE  RestInv'
  <1>1. DOMAIN bot = Bots /\ Counted(bot[b]) /\ protocol' = protocol
    BY DEF FleetInv, BotsInv, EngineServes
  <1>2. PICK i \in 1..Len(bot[b].wire) :
          bot' = [bot EXCEPT ![b].wire = RemoveAt(@, i),
                    ![b].replies = IF protocol = "websocket"
                                      \/ (bot[b].pc = "wait" /\ bot[b].wire[i].n = bot[b].n)
                                   THEN Append(@, Answer(bot[b].wire[i].order)) ELSE @]
    BY DEF EngineServes
  <1> DEFINE w1 == RemoveAt(bot[b].wire, i)
             a == Answer(bot[b].wire[i].order)
             q == IF protocol = "websocket"
                     \/ (bot[b].pc = "wait" /\ bot[b].wire[i].n = bot[b].n)
                  THEN Append(bot[b].replies, a) ELSE bot[b].replies
  <1>3. /\ bot'[b].pc = bot[b].pc /\ bot'[b].n = bot[b].n /\ bot'[b].order = bot[b].order
        /\ bot'[b].wire = w1 /\ bot'[b].replies = q /\ bot'[b].results = bot[b].results
        /\ \A c \in Bots \ {b} : bot'[c] = bot[c]
    BY <1>1, <1>2 DEF Counted
  <1>4. ASSUME protocol = "rest" PROVE Wired(bot'[b]) /\ OwnFills(bot'[b].results)
    <2>1. Wired(bot[b]) /\ OwnFills(bot[b].results)
      BY <1>4 DEF RestInv
    <2>2. /\ IsSeq(w1)
          /\ \A k \in 1..Len(w1) : \E m \in 1..Len(bot[b].wire) :
                m # i /\ w1[k] = bot[b].wire[m]
          /\ \A j, k \in 1..Len(w1) : w1[j].n = w1[k].n => j = k
      BY <2>1, WireShrinks
    <2>3. a.id = bot[b].wire[i].order.id
      BY AnswerId
    <2> HIDE DEF w1, a
    <2>4. \A k \in 1..Len(w1) : /\ w1[k].n \in Int /\ w1[k].n <= bot[b].n
                                /\ w1[k].n # bot[b].wire[i].n
      <3> DEFINE w == bot[b].wire
      <3>1. /\ \A m \in 1..Len(w) : w[m].n \in Int /\ w[m].n <= bot[b].n
            /\ \A m \in 1..Len(w) : m # i => w[m].n # w[i].n
        BY <2>1 DEF Wired
      <3>2. \A k \in 1..Len(w1) : \E m \in 1..Len(w) : m # i /\ w1[k] = w[m]
        BY <2>2
      <3> HIDE DEF w
      <3>3. \A k \in 1..Len(w1) : /\ w1[k].n \in Int /\ w1[k].n <= bot[b].n
                                  /\ w1[k].n # w[i].n
        BY ONLY <3>1, <3>2
      <3>4. QED
        BY <3>3 DEF w
    <2>5. bot[b].pc = "wait" =>
            \A k \in 1..Len(w1) : w1[k].n = bot[b].n => w1[k].order = bot[b].order
      BY <2>1, <2>2 DEF Wired
    <2>6. CASE bot[b].pc = "wait" /\ bot[b].wire[i].n = bot[b].n
      <3>1. bot[b].replies = <<>>
        BY <2>1, <2>6 DEF Wired
      <3>2. q = <<a>>
        BY <2>6, <3>1
      <3>3. a.id = bot[b].order.id
        BY <2>1, <2>3, <2>6 DEF Wired
      <3>4. q = <<q[1]>> /\ q[1].id = bot[b].order.id
        BY <3>2, <3>3
      <3> HIDE DEF q
      <3>5. QED
        BY <1>3, <2>1, <2>2, <2>4, <2>5, <2>6, <3>4 DEF Wired
    <2>7. CASE ~(bot[b].pc = "wait" /\ bot[b].wire[i].n = bot[b].n)
      <3>1. q = bot[b].replies
        BY <1>4, <2>7
      <3>2. \/ bot[b].replies = <<>>
            \/ /\ bot[b].pc = "wait" /\ bot[b].replies = <<bot[b].replies[1]>>
               /\ bot[b].replies[1].id = bot[b].order.id
               /\ \A k \in 1..Len(w1) : w1[k].n # bot[b].n
        BY <2>1, <2>2 DEF Wired
      <3> HIDE DEF q
      <3>3. QED
        BY <1>3, <2>1, <2>2, <2>4, <2>5, <3>1, <3>2 DEF Wired
    <2>8. QED
      BY <2>6, <2>7
  <1>5. QED
    BY <1>1, <1>3, <1>4, RestMoves

\* One more result.
LEMMA MoreFills ==
    ASSUME NEW s, IsSeq(s), OwnFills(s), NEW x, ~x.err => x.fill.id = x.order.id
    PROVE  OwnFills(Append(s, x))
  <1>1. \A i \in 1..Len(Append(s, x)) :
          (i \in 1..Len(s) /\ Append(s, x)[i] = s[i]) \/ Append(s, x)[i] = x
    BY AppendSeq
  <1>2. QED
    BY <1>1 DEF OwnFills

LEMMA ReceiveRest ==
    ASSUME FleetInv, RestInv, NEW b \in Bots, Receive(b)
    PROVE  RestInv'
  <1>1. /\ DOMAIN bot = Bots /\ Counted(bot[b]) /\ protocol' = protocol
        /\ bot[b].pc = "wait" /\ bot[b].replies # <<>>
    BY DEF FleetInv, BotsInv, Receive
  <1> DEFINE x == [order |-> bot[b].order, err |-> FALSE, fill |-> Head(bot[b].replies)]
  <1>2. /\ bot'[b].pc = "ready" /\ bot'[b].n = bot[b].n /\ bot'[b].wire = bot[b].wire
        /\ bot'[b].replies = Tail(bot[b].replies)
        /\ bot'[b].results = Append(bot[b].results, x)
        /\ \A c \in Bots \ {b} : bot'[c] = bot[c]
    BY <1>1 DEF Counted, Receive
  <1>3. ASSUME protocol = "rest" PROVE Wired(bot'[b]) /\ OwnFills(bot'[b].results)
    <2>1. Wired(bot[b]) /\ OwnFills(bot[b].results)
      BY <1>3 DEF RestInv
    <2>2. PICK f : bot[b].replies = <<f>> /\ f.id = bot[b].order.id
      BY <1>1, <2>1 DEF Wired
    <2>3. Tail(bot[b].replies) = <<>> /\ Head(bot[b].replies) = f
      BY <2>2
    <2>4. ~x.err => x.fill.id = x.order.id
      BY <2>2, <2>3
    <2> HIDE DEF x
    <2>5. OwnFills(Append(bot[b].results, x))
      BY <1>1, <2>1, <2>4, MoreFills DEF Counted
    <2>6. QED
      BY <1>2, <2>1, <2>3, <2>5 DEF Wired
  <1>4. QED
    BY <1>1, <1>2, <1>3, RestMoves

LEMMA FailRest ==
    ASSUME FleetInv, RestInv, NEW b \in Bots, SendFails(b)
    PROVE  RestInv'
  <1>1. /\ DOMAIN bot = Bots /\ Counted(bot[b]) /\ protocol' = protocol
        /\ bot[b].pc = "wait"
    BY DEF FleetInv, BotsInv, SendFails
  <1> DEFINE x == [order |-> bot[b].order, err |-> TRUE,
                   fill |-> Book!Fill(bot[b].order, 0, 0, FALSE)]
  <1>2. PICK w \in StillOut(b) :
          bot' = [bot EXCEPT ![b].pc = "ready", ![b].wire = w, ![b].replies = Unread(b),
                             ![b].results = Append(@, x)]
    BY DEF SendFails
  <1>3. /\ bot'[b].pc = "ready" /\ bot'[b].n = bot[b].n /\ bot'[b].wire = w
        /\ bot'[b].replies = Unread(b)
        /\ bot'[b].results = Append(bot[b].results, x)
        /\ \A c \in Bots \ {b} : bot'[c] = bot[c]
    BY <1>1, <1>2 DEF Counted
  <1>4. ASSUME protocol = "rest" PROVE Wired(bot'[b]) /\ OwnFills(bot'[b].results)
    <2>1. Wired(bot[b]) /\ OwnFills(bot[b].results)
      BY <1>4 DEF RestInv
    <2>2. /\ IsSeq(w)
          /\ \A k \in 1..Len(w) : w[k].n \in Int /\ w[k].n <= bot[b].n
          /\ \A j, k \in 1..Len(w) : w[j].n = w[k].n => j = k
      <3>1. CASE w = bot[b].wire
        BY <2>1, <3>1 DEF Wired
      <3>2. ASSUME NEW i \in 1..Len(bot[b].wire), w = RemoveAt(bot[b].wire, i)
            PROVE  /\ IsSeq(w)
                   /\ \A k \in 1..Len(w) : w[k].n \in Int /\ w[k].n <= bot[b].n
                   /\ \A j, k \in 1..Len(w) : w[j].n = w[k].n => j = k
        <4> DEFINE w1 == RemoveAt(bot[b].wire, i)
        <4>1. /\ IsSeq(w1)
              /\ \A k \in 1..Len(w1) : \E m \in 1..Len(bot[b].wire) :
                    m # i /\ w1[k] = bot[b].wire[m]
              /\ \A j, k \in 1..Len(w1) : w1[j].n = w1[k].n => j = k
          BY <2>1, WireShrinks
        <4>2. w = w1
          BY <3>2
        <4> HIDE DEF w1
        <4>3. QED
          BY <2>1, <4>1, <4>2 DEF Wired
      <3>3. QED
        BY <3>1, <3>2 DEF StillOut
    <2>3. Unread(b) = <<>>
      BY <1>4 DEF Unread
    <2>4. x.err
      OBVIOUS
    <2> HIDE DEF x
    <2>5. OwnFills(Append(bot[b].results, x))
      BY <1>1, <2>1, <2>4, MoreFills DEF Counted
    <2>6. QED
      BY <1>3, <2>2, <2>3, <2>5 DEF Wired
  <1>5. QED
    BY <1>1, <1>3, <1>4, RestMoves

\* The steps that leave the wire and the results alone.
LEMMA QuietRest ==
    ASSUME FleetInv, RestInv, NEW b \in Bots, StartBot(b) \/ BotNeverRuns(b) \/ StopBot(b)
    PROVE  RestInv'
  <1>1. /\ DOMAIN bot = Bots /\ Counted(bot[b]) /\ protocol' = protocol
        /\ bot[b].pc # "wait"
    BY DEF FleetInv, BotsInv, StartBot, BotNeverRuns, StopBot
  <1>2. /\ bot'[b].pc # "wait" /\ bot'[b].n = bot[b].n /\ bot'[b].wire = bot[b].wire
        /\ bot'[b].replies \in {bot[b].replies, <<>>}
        /\ bot'[b].results = bot[b].results
        /\ \A c \in Bots \ {b} : bot'[c] = bot[c]
    BY <1>1 DEF Counted, StartBot, BotNeverRuns, StopBot
  <1>3. ASSUME protocol = "rest" PROVE Wired(bot'[b]) /\ OwnFills(bot'[b].results)
    <2>1. Wired(bot[b]) /\ OwnFills(bot[b].results)
      BY <1>3 DEF RestInv
    <2>2. bot[b].replies = <<>>
      BY <1>1, <2>1 DEF Wired
    <2>3. QED
      BY <1>2, <2>1, <2>2 DEF Wired
  <1>4. QED
    BY <1>1, <1>2, <1>3, RestMoves

LEMMA RestStep == ASSUME FleetInv, RestInv, [Next]_vars PROVE RestInv'
  <1>1. ASSUME UNCHANGED <<protocol, bot>> PROVE RestInv'
    BY <1>1, RestNext DEF RestInv
  <1>2. CASE UNCHANGED vars \/ StartGate \/ GateDecides \/ ManualProbe \/ TestEnds
             \/ FleetReturns \/ ReplayOrder \/ ScoreRun \/ Over \/ Collect
    BY <1>1, <1>2 DEF vars, fleetVars, StartGate, GateDecides, ManualProbe, TestEnds,
                      FleetReturns, ReplayOrder, ScoreRun, Over, Collect
  <1>3. ASSUME NEW v, Validates(v) PROVE RestInv'
    BY <1>1, <1>3 DEF Validates, RunScenario, RunBurst, ReturnResult, AbortRun, fleetVars
  <1>4. QED
    BY <1>2, <1>3, SendRest, ServeRest, ReceiveRest, FailRest, QuietRest DEF Next

\* Over REST a recorded fill answers its own order, whatever timed out, was
\* served late or was given up before.
THEOREM FillCorrect == Spec => []RestFillIsOwn
  <1>1. Init => FleetInv /\ RestInv
    <2> SUFFICES ASSUME Init PROVE FleetInv /\ RestInv
      OBVIOUS
    <2>1. \A b \in Bots : bot[b] = NewBot
      BY DEF Init
    <2>2. IsSeq(<<>>) /\ Len(<<>>) = 0
      BY DEF IsSeq
    <2>3. Wired(NewBot) /\ OwnFills(NewBot.results)
      BY <2>2 DEF Wired, OwnFills, NewBot
    <2>4. QED
      BY <2>1, <2>3, FleetStart DEF RestInv
  <1>2. FleetInv /\ RestInv /\ [Next]_vars => FleetInv' /\ RestInv'
    BY FleetStep, RestStep
  <1>3. RestInv => RestFillIsOwn
    BY DEF RestInv, RestFillIsOwn, OwnFills
  <1>4. QED
    BY <1>1, <1>2, <1>3, PTL DEF Spec

-----------------------------------------------------------------------------
(* Books *)

\* An entry of a book.
IsEntry(e) == /\ e = Book!Entry(e, e.seq, e.rem)
              /\ e.side \in {"buy", "sell"} /\ e.price \in Int
              /\ e.seq \in Nat /\ e.rem \in Nat \ {0}

\* A book: finitely many entries, and each has an arrival number of its own.
Sound(B) == /\ IsFiniteSet(B) /\ \A e \in B : IsEntry(e)
            /\ \A e, f \in B : e.seq = f.seq => e = f

\* The book with other arrival numbers.
Renumbered(e, r) == Book!Entry(e, r[e.seq], e.rem)
Moved(B, r) == {Renumbered(e, r) : e \in B}

\* r gives the entries of B new arrival numbers and keeps their order.
Keeps(r, B) == /\ \A e \in B : r[e.seq] \in Nat
               /\ \A e, f \in B : e.seq < f.seq => r[e.seq] < r[f.seq]

\* An order with numbers that can be computed with.
Proper(o) == o.side \in {"buy", "sell"} /\ o.price \in Int /\ o.qty \in Int

Units(S) == UNION {{e.seq} \X (1..e.rem) : e \in S}

LEMMA SameCardinality == \A S : Book!Cardinality(S) = Cardinality(S)
  BY DEF Book!Cardinality, Cardinality

LEMMA EntryFields ==
    ASSUME NEW o, NEW t, NEW q
    PROVE  LET e == Book!Entry(o, t, q)
           IN  /\ e.id = o.id /\ e.side = o.side /\ e.price = o.price
               /\ e.seq = t /\ e.rem = q
               /\ e = Book!Entry(e, e.seq, e.rem)
  BY DEF Book!Entry

LEMMA RenumberedFields ==
    ASSUME NEW e, NEW r
    PROVE  LET f == Renumbered(e, r)
           IN  /\ f.id = e.id /\ f.side = e.side /\ f.price = e.price
               /\ f.seq = r[e.seq] /\ f.rem = e.rem
               /\ f = Book!Entry(f, f.seq, f.rem)
  BY EntryFields DEF Renumbered

\* Different entries stay different.
LEMMA KeepsApart ==
    ASSUME NEW B, Sound(B), NEW r, Keeps(r, B), NEW e \in B, NEW f \in B
    PROVE  /\ r[e.seq] = r[f.seq] => e = f
           /\ Renumbered(e, r) = Renumbered(f, r) => e = f
           /\ e.seq < f.seq <=> r[e.seq] < r[f.seq]
  <1>1. e.seq \in Nat /\ f.seq \in Nat /\ r[e.seq] \in Nat /\ r[f.seq] \in Nat
    BY DEF Sound, IsEntry, Keeps
  <1>2. e.seq < f.seq => r[e.seq] < r[f.seq]
    BY DEF Keeps
  <1>3. f.seq < e.seq => r[f.seq] < r[e.seq]
    BY DEF Keeps
  <1>4. e.seq = f.seq => e = f
    BY DEF Sound
  <1>5. r[e.seq] = r[f.seq] => e = f
    BY <1>1, <1>2, <1>3, <1>4
  <1>6. Renumbered(e, r) = Renumbered(f, r) => r[e.seq] = r[f.seq]
    BY RenumberedFields
  <1>7. e.seq < f.seq <=> r[e.seq] < r[f.seq]
    BY <1>1, <1>2, <1>3, <1>4
  <1>8. QED
    BY <1>5, <1>6, <1>7

LEMMA MovedFinite ==
    ASSUME NEW B, IsFiniteSet(B), NEW r
    PROVE  IsFiniteSet(Moved(B, r))
  <1> DEFINE g == [e \in B |-> Renumbered(e, r)]
             T == Moved(B, r)
  <1>1. g \in Surjection(B, T)
    BY DEF Surjection, Moved
  <1> HIDE DEF g, T
  <1>2. IsFiniteSet(T)
    BY <1>1, FS_Surjection
  <1>3. QED
    BY <1>2 DEF T

LEMMA MovedSound ==
    ASSUME NEW B, Sound(B), NEW r, Keeps(r, B)
    PROVE  Sound(Moved(B, r))
  <1>1. IsFiniteSet(Moved(B, r))
    BY MovedFinite DEF Sound
  <1>2. ASSUME NEW f \in Moved(B, r) PROVE IsEntry(f)
    <2>1. PICK e \in B : f = Renumbered(e, r)
      BY DEF Moved
    <2>2. QED
      BY <2>1, RenumberedFields DEF Sound, IsEntry, Keeps
  <1>3. ASSUME NEW f \in Moved(B, r), NEW g \in Moved(B, r), f.seq = g.seq PROVE f = g
    <2>1. PICK e \in B, h \in B : f = Renumbered(e, r) /\ g = Renumbered(h, r)
      BY DEF Moved
    <2>2. r[e.seq] = r[h.seq]
      BY <1>3, <2>1, RenumberedFields
    <2>3. QED
      BY <2>1, <2>2, KeepsApart
  <1>4. QED
    BY <1>1, <1>2, <1>3 DEF Sound

-----------------------------------------------------------------------------
(* Volume *)

LEMMA UnitsFinite ==
    ASSUME NEW B, Sound(B), NEW S, S \subseteq B
    PROVE  IsFiniteSet(Units(S)) /\ Book!Volume(S) = Cardinality(Units(S))
           /\ Book!Volume(S) \in Nat
  <1> DEFINE T == {{e.seq} \X (1..e.rem) : e \in S}
             g == [e \in S |-> {e.seq} \X (1..e.rem)]
  <1>1. IsFiniteSet(S)
    BY FS_Subset DEF Sound
  <1>2. g \in Surjection(S, T)
    BY DEF Surjection
  <1>3. IsFiniteSet(T)
    <2> HIDE DEF g, T
    <2>1. QED
      BY <1>1, <1>2, FS_Surjection
  <1>4. ASSUME NEW t \in T PROVE IsFiniteSet(t)
    <2>1. PICK e \in S : t = {e.seq} \X (1..e.rem)
      OBVIOUS
    <2>2. e.rem \in Int /\ 1 \in Int
      BY DEF Sound, IsEntry
    <2>3. IsFiniteSet(1..e.rem) /\ IsFiniteSet({e.seq})
      BY <2>2, FS_Interval, FS_Singleton, Zenon
    <2>4. QED
      BY <2>1, <2>3, FS_Product, Zenon
  <1>5. IsFiniteSet(UNION T)
    <2> HIDE DEF T
    <2>1. QED
      BY <1>3, <1>4, FS_UNION
  <1>6. Book!Volume(S) = Cardinality(Units(S))
    BY SameCardinality DEF Units, Book!Volume
  <1>7. QED
    BY <1>5, <1>6, FS_CardinalityType DEF Units

\* The arrival numbers do not matter to the volume.
LEMMA VolumeMoved ==
    ASSUME NEW B, Sound(B), NEW r, Keeps(r, B), NEW S, S \subseteq B
    PROVE  Book!Volume(Moved(S, r)) = Book!Volume(S)
  <1> DEFINE M == Moved(S, r)
             U == Units(S)
             V == Units(M)
             g == [u \in U |-> <<r[u[1]], u[2]>>]
  <1>1. IsFiniteSet(U) /\ Book!Volume(S) = Cardinality(U)
    BY UnitsFinite
  <1>2. Book!Volume(M) = Cardinality(V)
    <2>1. M \subseteq Moved(B, r)
      BY DEF Moved
    <2>2. QED
      BY <2>1, MovedSound, UnitsFinite
  <1>3. \A u \in U : \E e \in S : \E k \in 1..e.rem : u = <<e.seq, k>>
    BY DEF Units
  <1>4. \A e \in S : \A k \in 1..e.rem : <<e.seq, k>> \in U
    BY DEF Units
  <1>5. \A v \in V : \E e \in S : \E k \in 1..e.rem : v = <<r[e.seq], k>>
    <2> SUFFICES ASSUME NEW v \in V PROVE \E e \in S : \E k \in 1..e.rem : v = <<r[e.seq], k>>
      OBVIOUS
    <2>1. PICK f \in M : v \in {f.seq} \X (1..f.rem)
      BY DEF Units
    <2>2. PICK e \in S : f = Renumbered(e, r)
      BY <2>1 DEF Moved
    <2>3. f.seq = r[e.seq] /\ f.rem = e.rem
      BY <2>2, RenumberedFields
    <2>4. QED
      BY <2>1, <2>3
  <1>6. \A e \in S : \A k \in 1..e.rem : <<r[e.seq], k>> \in V
    <2> SUFFICES ASSUME NEW e \in S, NEW k \in 1..e.rem PROVE <<r[e.seq], k>> \in V
      OBVIOUS
    <2>1. Renumbered(e, r) \in M
      BY DEF Moved
    <2>2. Renumbered(e, r).seq = r[e.seq] /\ Renumbered(e, r).rem = e.rem
      BY RenumberedFields
    <2>3. <<r[e.seq], k>> \in {Renumbered(e, r).seq} \X (1..Renumbered(e, r).rem)
      BY <2>2
    <2>4. QED
      BY <2>1, <2>3 DEF Units
  <1>7. ASSUME NEW u \in U, NEW v \in U, r[u[1]] = r[v[1]], u[2] = v[2] PROVE u = v
    <2>1. PICK e \in S : \E k \in 1..e.rem : u = <<e.seq, k>>
      BY <1>3
    <2>2. PICK f \in S : \E m \in 1..f.rem : v = <<f.seq, m>>
      BY <1>3
    <2>3. u = <<e.seq, u[2]>> /\ v = <<f.seq, v[2]>> /\ r[e.seq] = r[f.seq]
      BY <1>7, <2>1, <2>2
    <2>4. e = f
      BY <2>3, KeepsApart
    <2>5. QED
      BY <1>7, <2>3, <2>4
  <1> HIDE DEF U, V, M
  <1>8. g \in [U -> V]
    <2>1. ASSUME NEW u \in U PROVE <<r[u[1]], u[2]>> \in V
      <3>1. PICK e \in S : \E k \in 1..e.rem : u = <<e.seq, k>>
        BY <1>3
      <3>2. QED
        BY <1>6, <3>1
    <2>2. QED
      BY <2>1
  <1>9. g \in Injection(U, V)
    <2>1. ASSUME NEW u \in U, NEW v \in U, g[u] = g[v] PROVE u = v
      <3>1. <<r[u[1]], u[2]>> = <<r[v[1]], v[2]>>
        BY <2>1
      <3>2. r[u[1]] = r[v[1]] /\ u[2] = v[2]
        BY <3>1
      <3>3. QED
        BY <1>7, <3>2
    <2> HIDE DEF g
    <2>2. QED
      BY <1>8, <2>1 DEF Injection, IsInjective
  <1>10. g \in Surjection(U, V)
    <2>1. ASSUME NEW v \in V PROVE \E u \in U : g[u] = v
      <3>1. PICK e \in S : \E k \in 1..e.rem : v = <<r[e.seq], k>>
        BY <1>5
      <3>2. PICK k \in 1..e.rem : v = <<r[e.seq], k>>
        BY <3>1
      <3>3. <<e.seq, k>> \in U /\ g[<<e.seq, k>>] = v
        BY <1>4, <3>2
      <3>4. QED
        BY <3>3
    <2>2. QED
      BY <1>8, <2>1 DEF Surjection
  <1>11. ExistsBijection(U, V)
    BY <1>9, <1>10 DEF ExistsBijection, Bijection
  <1>12. Cardinality(V) = Cardinality(U)
    BY <1>1, <1>11, FS_Bijection
  <1>13. QED
    BY <1>1, <1>2, <1>12 DEF M

-----------------------------------------------------------------------------
(* Matching does not depend on the arrival numbers, only on their order *)

LEMMA ServedMoved ==
    ASSUME NEW B, Sound(B), NEW r, Keeps(r, B), NEW e \in B, NEW f \in B
    PROVE  Book!ServedBefore(Renumbered(e, r), Renumbered(f, r)) <=> Book!ServedBefore(e, f)
  BY KeepsApart, RenumberedFields DEF Book!ServedBefore

LEMMA ReachMoved ==
    ASSUME NEW B, NEW r, NEW o
    PROVE  /\ Book!Reach(Moved(B, r), o) = Moved(Book!Reach(B, o), r)
           /\ Book!Reach(B, o) \subseteq B
           /\ \A e \in B : Renumbered(e, r) \in Book!Reach(Moved(B, r), o)
                           <=> e \in Book!Reach(B, o)
  <1>1. ASSUME NEW e \in B
        PROVE  Renumbered(e, r) \in Book!Reach(Moved(B, r), o) <=> e \in Book!Reach(B, o)
    <2>1. Renumbered(e, r) \in Moved(B, r)
      BY DEF Moved
    <2>2. Renumbered(e, r).side = e.side /\ Renumbered(e, r).price = e.price
      BY RenumberedFields
    <2>3. QED
      BY <2>1, <2>2 DEF Book!Reach
  <1>2. Book!Reach(B, o) \subseteq B
    BY DEF Book!Reach
  <1>3. Book!Reach(Moved(B, r), o) \subseteq Moved(B, r)
    BY DEF Book!Reach
  <1> HIDE DEF Book!Reach
  <1>4. QED
    BY <1>1, <1>2, <1>3 DEF Moved

LEMMA TakenMoved ==
    ASSUME NEW B, Sound(B), NEW r, Keeps(r, B), NEW o, NEW e \in B
    PROVE  Book!Taken(Moved(B, r), o, Renumbered(e, r)) = Book!Taken(B, o, e)
  <1> DEFINE R == Book!Reach(B, o)
             N == Book!Reach(Moved(B, r), o)
             d == Renumbered(e, r)
             before == {f \in R : Book!ServedBefore(f, e)}
             behind == {f \in N : Book!ServedBefore(f, d)}
  <1>1. N = Moved(R, r) /\ R \subseteq B /\ (d \in N <=> e \in R)
    BY ReachMoved
  <1>2. behind = Moved(before, r)
    <2> HIDE DEF R, N
    <2>1. ASSUME NEW f \in R
          PROVE  Book!ServedBefore(Renumbered(f, r), d) <=> Book!ServedBefore(f, e)
      BY <1>1, ServedMoved
    <2>2. QED
      BY <1>1, <2>1 DEF Moved
  <1>3. Book!Volume(behind) = Book!Volume(before)
    <2>1. before \subseteq B
      BY <1>1
    <2> HIDE DEF behind, before
    <2>2. QED
      BY <1>2, <2>1, VolumeMoved
  <1>4. d.rem = e.rem
    BY RenumberedFields
  <1>5. /\ Book!Taken(B, o, e) = IF e \notin R \/ o.qty - Book!Volume(before) <= 0 THEN 0
                                 ELSE IF o.qty - Book!Volume(before) < e.rem
                                      THEN o.qty - Book!Volume(before) ELSE e.rem
        /\ Book!Taken(Moved(B, r), o, d) =
                                 IF d \notin N \/ o.qty - Book!Volume(behind) <= 0 THEN 0
                                 ELSE IF o.qty - Book!Volume(behind) < d.rem
                                      THEN o.qty - Book!Volume(behind) ELSE d.rem
    BY DEF Book!Taken
  <1> HIDE DEF R, N, before, behind, d
  <1>6. Book!Taken(Moved(B, r), o, d) = Book!Taken(B, o, e)
    BY <1>1, <1>3, <1>4, <1>5
  <1>7. QED
    BY <1>6 DEF d

LEMMA TradedMoved ==
    ASSUME NEW B, Sound(B), NEW r, Keeps(r, B), NEW o
    PROVE  Book!Traded(Moved(B, r), o) = Book!Traded(B, o)
  <1>1. Book!Volume(Book!Reach(Moved(B, r), o)) = Book!Volume(Book!Reach(B, o))
    BY ReachMoved, VolumeMoved
  <1>2. QED
    BY <1>1 DEF Book!Traded

\* The last of the entries o trades with is unique, if there is one.
LEMMA OneLast ==
    ASSUME NEW B, Sound(B), NEW T, T \subseteq B, \A e, f \in T : e.side = f.side,
           NEW e \in T, NEW f \in T,
           \A g \in T \ {e} : Book!ServedBefore(g, e),
           \A g \in T \ {f} : Book!ServedBefore(g, f)
    PROVE  e = f
  <1> SUFFICES ASSUME e # f PROVE FALSE
    OBVIOUS
  <1>1. Book!ServedBefore(e, f) /\ Book!ServedBefore(f, e) /\ e.side = f.side
    OBVIOUS
  <1>2. e.price \in Int /\ f.price \in Int /\ e.seq \in Nat /\ f.seq \in Nat
    BY DEF Sound, IsEntry
  <1>3. QED
    BY <1>1, <1>2 DEF Book!ServedBefore

Traders(B, o) == {e \in B : Book!Taken(B, o, e) > 0}
LastOf(T) == CHOOSE e \in T : \A f \in T \ {e} : Book!ServedBefore(f, e)

LEMMA TradersSide ==
    ASSUME NEW B, Sound(B), NEW o, Proper(o)
    PROVE  \A e, f \in Traders(B, o) : e.side = f.side
  <1>1. ASSUME NEW e \in Traders(B, o) PROVE e.side # o.side /\ e.side \in {"buy", "sell"}
    <2>1. e \in B /\ e \in Book!Reach(B, o)
      BY DEF Traders, Book!Taken
    <2>2. QED
      BY <2>1 DEF Book!Reach, Sound, IsEntry
  <1>2. QED
    BY <1>1 DEF Proper

LEMMA PriceMoved ==
    ASSUME NEW B, Sound(B), NEW r, Keeps(r, B), NEW o, Proper(o)
    PROVE  Book!TradePrice(Moved(B, r), o) = Book!TradePrice(B, o)
  <1> DEFINE T == Traders(B, o)
             U == Traders(Moved(B, r), o)
             Ends(X, e) == \A f \in X \ {e} : Book!ServedBefore(f, e)
  <1>1. U = Moved(T, r) /\ T \subseteq B
    BY TakenMoved DEF Traders, Moved
  <1>2. Book!TradePrice(B, o) = IF T = {} THEN 0 ELSE LastOf(T).price
    BY DEF Book!TradePrice, Traders, LastOf
  <1>3. Book!TradePrice(Moved(B, r), o) = IF U = {} THEN 0 ELSE LastOf(U).price
    BY DEF Book!TradePrice, Traders, LastOf
  <1>4. U = {} <=> T = {}
    BY <1>1 DEF Moved
  <1>5. \A e, f \in T : e.side = f.side
    BY TradersSide
  <1> HIDE DEF T, U
  <1>6. \A e \in T : Renumbered(e, r) \in U
    BY <1>1 DEF Moved
  <1>7. \A g \in U : \E e \in T : g = Renumbered(e, r)
    BY <1>1 DEF Moved
  <1>8. ASSUME NEW e \in T PROVE Ends(U, Renumbered(e, r)) <=> Ends(T, e)
    <2>1. ASSUME NEW f \in T \ {e} PROVE Renumbered(f, r) \in U \ {Renumbered(e, r)}
      BY <1>1, <1>6, KeepsApart
    <2>2. ASSUME NEW g \in U \ {Renumbered(e, r)} PROVE \E f \in T \ {e} : g = Renumbered(f, r)
      BY <1>7
    <2>3. \A f \in T : Book!ServedBefore(Renumbered(f, r), Renumbered(e, r))
                       <=> Book!ServedBefore(f, e)
      BY <1>1, ServedMoved
    <2>4. QED
      BY <2>1, <2>2, <2>3
  <1>9. CASE \E e \in T : Ends(T, e)
    <2>1. PICK e \in T : Ends(T, e)
      BY <1>9
    <2>2. LastOf(T) = e
      <3>1. \A f \in T : Ends(T, f) => f = e
        BY <1>1, <1>5, <2>1, OneLast
      <3>2. QED
        BY <2>1, <3>1 DEF LastOf
    <2>3. LastOf(U) = Renumbered(e, r)
      <3>1. Renumbered(e, r) \in U /\ Ends(U, Renumbered(e, r))
        BY <1>6, <1>8, <2>1
      <3>2. ASSUME NEW g \in U, Ends(U, g) PROVE g = Renumbered(e, r)
        <4>1. PICK f \in T : g = Renumbered(f, r)
          BY <1>7
        <4>2. Ends(T, f)
          BY <1>8, <3>2, <4>1
        <4>3. f = e
          BY <1>1, <1>5, <2>1, <4>2, OneLast
        <4>4. QED
          BY <4>1, <4>3
      <3>3. QED
        BY <3>1, <3>2 DEF LastOf
    <2>4. QED
      BY <1>2, <1>3, <1>4, <2>2, <2>3, RenumberedFields
  <1>10. CASE ~\E e \in T : Ends(T, e)
    <2>1. \A g \in U : ~Ends(U, g)
      BY <1>7, <1>8, <1>10
    <2>2. LastOf(U) = LastOf(T)
      BY <1>10, <2>1 DEF LastOf
    <2>3. QED
      BY <1>2, <1>3, <1>4, <2>2
  <1>11. QED
    BY <1>9, <1>10

\* The fill of an order is the same on a renumbered book.
LEMMA FillMoved ==
    ASSUME NEW B, Sound(B), NEW r, Keeps(r, B), NEW o, Proper(o)
    PROVE  Book!FillOf(Moved(B, r), o) = Book!FillOf(B, o)
  <1>1. (\E e \in Moved(B, r) : e.id = o.id) <=> \E e \in B : e.id = o.id
    BY RenumberedFields DEF Moved
  <1>2. /\ Book!TradePrice(Moved(B, r), o) = Book!TradePrice(B, o)
        /\ Book!Traded(Moved(B, r), o) = Book!Traded(B, o)
    BY PriceMoved, TradedMoved
  <1>3. QED
    BY <1>1, <1>2 DEF Book!FillOf

-----------------------------------------------------------------------------
(* The book after an order *)

LEMMA TakenType ==
    ASSUME NEW B, Sound(B), NEW o, Proper(o), NEW e \in B
    PROVE  Book!Taken(B, o, e) \in 0..e.rem
  <1> DEFINE v == Book!Volume({f \in Book!Reach(B, o) : Book!ServedBefore(f, e)})
  <1>1. v \in Nat
    <2>1. {f \in Book!Reach(B, o) : Book!ServedBefore(f, e)} \subseteq B
      BY DEF Book!Reach
    <2>2. QED
      BY <2>1, UnitsFinite
  <1>2. Book!Taken(B, o, e) = IF e \notin Book!Reach(B, o) \/ o.qty - v <= 0 THEN 0
                              ELSE IF o.qty - v < e.rem THEN o.qty - v ELSE e.rem
    BY DEF Book!Taken
  <1>3. o.qty \in Int /\ e.rem \in Nat \ {0}
    BY DEF Proper, Sound, IsEntry
  <1> HIDE DEF v
  <1>4. QED
    BY <1>1, <1>2, <1>3

LEMMA TradedType ==
    ASSUME NEW B, Sound(B), NEW o, Proper(o)
    PROVE  Book!Traded(B, o) \in Int
  <1>1. Book!Volume(Book!Reach(B, o)) \in Nat
    BY UnitsFinite DEF Book!Reach
  <1>2. QED
    BY <1>1 DEF Book!Traded, Proper

\* What o leaves of entry e.
Left(B, o, e) == Book!Entry(e, e.seq, e.rem - Book!Taken(B, o, e))
Kept(B, o) == {Left(B, o, e) : e \in {f \in B : Book!Taken(B, o, f) < f.rem}}
Rests(B, o) == o.kind = "limit" /\ o.qty - Book!Traded(B, o) > 0

LEMMA BookAfterIs ==
    ASSUME NEW B, Sound(B), NEW t, NEW o, Proper(o)
    PROVE  Book!BookAfter(B, t, o) =
             IF Book!Refused(o) THEN B
             ELSE IF o.kind = "cancel" THEN {e \in B : e.id # o.id}
             ELSE Kept(B, o) \cup (IF Rests(B, o)
                                   THEN {Book!Entry(o, t, o.qty - Book!Traded(B, o))} ELSE {})
  <1> DEFINE hit == {[e EXCEPT !.rem = @ - Book!Taken(B, o, e)] : e \in B}
  <1>1. ASSUME NEW e \in B PROVE [e EXCEPT !.rem = @ - Book!Taken(B, o, e)] = Left(B, o, e)
    <2>1. e = Book!Entry(e, e.seq, e.rem)
      BY DEF Sound, IsEntry
    <2>2. QED
      BY <2>1 DEF Left, Book!Entry
  <1>2. ASSUME NEW e \in B PROVE Left(B, o, e).rem > 0 <=> Book!Taken(B, o, e) < e.rem
    <2>1. Left(B, o, e).rem = e.rem - Book!Taken(B, o, e)
      BY EntryFields DEF Left
    <2>2. e.rem \in Int /\ Book!Taken(B, o, e) \in Int
      BY TakenType DEF Sound, IsEntry
    <2>3. QED
      BY <2>1, <2>2
  <1>3. hit = {Left(B, o, e) : e \in B}
    BY <1>1
  <1> HIDE DEF hit
  <1>4. {e \in hit : e.rem > 0} = Kept(B, o)
    BY <1>2, <1>3 DEF Kept
  <1>5. QED
    BY <1>4 DEF Book!BookAfter, Rests, hit

LEMMA LeftFields ==
    ASSUME NEW B, Sound(B), NEW o, Proper(o), NEW e \in B
    PROVE  LET f == Left(B, o, e)
           IN  /\ f = Book!Entry(f, f.seq, f.rem)
               /\ f.id = e.id /\ f.side = e.side /\ f.price = e.price /\ f.seq = e.seq
               /\ f.rem = e.rem - Book!Taken(B, o, e) /\ f.rem \in Nat
               /\ Book!Taken(B, o, e) < e.rem <=> f.rem > 0
  <1> DEFINE f == Left(B, o, e)
  <1>1. /\ f = Book!Entry(f, f.seq, f.rem)
        /\ f.id = e.id /\ f.side = e.side /\ f.price = e.price /\ f.seq = e.seq
        /\ f.rem = e.rem - Book!Taken(B, o, e)
    BY EntryFields DEF Left
  <1>2. e.rem \in Int /\ Book!Taken(B, o, e) \in 0..e.rem
    BY TakenType DEF Sound, IsEntry
  <1> HIDE DEF f
  <1>3. QED
    BY <1>1, <1>2 DEF f

\* A book stays sound when an order joins it behind every entry.
LEMMA SoundAfter ==
    ASSUME NEW B, Sound(B), NEW t \in Nat, \A e \in B : e.seq < t, NEW o, Proper(o)
    PROVE  /\ Sound(Book!BookAfter(B, t, o))
           /\ \A f \in Book!BookAfter(B, t, o) : f.seq = t \/ \E e \in B : e.seq = f.seq
  <1> DEFINE A == Book!BookAfter(B, t, o)
             n == Book!Entry(o, t, o.qty - Book!Traded(B, o))
  <1>1. CASE Book!Refused(o)
    BY <1>1, BookAfterIs
  <1>2. CASE ~Book!Refused(o) /\ o.kind = "cancel"
    <2>1. A = {e \in B : e.id # o.id}
      BY <1>2, BookAfterIs
    <2>2. IsFiniteSet(A)
      BY <2>1, FS_Subset DEF Sound
    <2> HIDE DEF A
    <2>3. Sound(A)
      BY <2>1, <2>2 DEF Sound
    <2>4. QED
      BY <2>1, <2>3 DEF A
  <1>3. CASE ~Book!Refused(o) /\ o.kind # "cancel"
    <2> DEFINE K == Kept(B, o)
               S == {f \in B : Book!Taken(B, o, f) < f.rem}
               g == [e \in S |-> Left(B, o, e)]
    <2>1. A = K \cup (IF Rests(B, o) THEN {n} ELSE {})
      BY <1>3, BookAfterIs
    <2>2. IsFiniteSet(K)
      <3>1. g \in Surjection(S, K)
        BY DEF Surjection, Kept
      <3>2. IsFiniteSet(S)
        BY FS_Subset DEF Sound
      <3> HIDE DEF g, S, K
      <3>3. QED
        BY <3>1, <3>2, FS_Surjection
    <2>3. IsFiniteSet(A)
      <3> HIDE DEF K, A, n
      <3>1. IsFiniteSet(K \cup {n})
        BY <2>2, FS_AddElement
      <3>2. QED
        BY <2>1, <2>2, <3>1
    <2>4. ASSUME NEW f \in K PROVE IsEntry(f) /\ \E e \in B : f = Left(B, o, e) /\ f.seq = e.seq
      <3>1. PICK e \in B : f = Left(B, o, e) /\ Book!Taken(B, o, e) < e.rem
        BY DEF Kept
      <3>2. /\ f = Book!Entry(f, f.seq, f.rem)
            /\ f.side = e.side /\ f.price = e.price /\ f.seq = e.seq
            /\ f.rem \in Nat /\ f.rem > 0
        BY <3>1, LeftFields
      <3>3. QED
        BY <3>1, <3>2 DEF Sound, IsEntry
    <2>5. Rests(B, o) => IsEntry(n) /\ n.seq = t
      <3>1. o.qty - Book!Traded(B, o) \in Int
        BY TradedType DEF Proper
      <3>2. /\ n = Book!Entry(n, n.seq, n.rem) /\ n.side = o.side /\ n.price = o.price
            /\ n.seq = t /\ n.rem = o.qty - Book!Traded(B, o)
        BY EntryFields
      <3> HIDE DEF n
      <3>3. QED
        BY <3>1, <3>2 DEF IsEntry, Proper, Rests
    <2> HIDE DEF K, A, n
    <2>6. \A f \in A : IsEntry(f)
      BY <2>1, <2>4, <2>5
    <2>7. \A f \in A : f.seq = t \/ \E e \in B : e.seq = f.seq
      BY <2>1, <2>4, <2>5
    <2>8. \A e \in B : e.seq \in Nat
      BY DEF Sound, IsEntry
    <2>9. ASSUME NEW f \in A, NEW h \in A, f.seq = h.seq PROVE f = h
      <3>1. CASE f \in K /\ h \in K
        <4>1. PICK e \in B : f = Left(B, o, e) /\ f.seq = e.seq
          BY <2>4, <3>1
        <4>2. PICK d \in B : h = Left(B, o, d) /\ h.seq = d.seq
          BY <2>4, <3>1
        <4>3. d = e
          BY <2>9, <4>1, <4>2 DEF Sound
        <4>4. QED
          BY <4>1, <4>2, <4>3
      <3>2. CASE f \notin K /\ h \in K
        BY <2>1, <2>4, <2>5, <2>8, <2>9, <3>2
      <3>3. CASE f \in K /\ h \notin K
        BY <2>1, <2>4, <2>5, <2>8, <2>9, <3>3
      <3>4. CASE f \notin K /\ h \notin K
        BY <2>1, <3>4
      <3>5. QED
        BY <3>1, <3>2, <3>3, <3>4
    <2>10. Sound(A)
      BY <2>3, <2>6, <2>9 DEF Sound
    <2>11. QED
      BY <2>7, <2>10 DEF A
  <1>4. QED
    BY <1>1, <1>2, <1>3

\* G is B with other arrival numbers, in the same order.
Twin(B, G) == Sound(B) /\ \E r : Keeps(r, B) /\ G = Moved(B, r)

\* The same order on twins gets the same fill and leaves twins.
LEMMA TwinStep ==
    ASSUME NEW B, NEW G, Twin(B, G), NEW o, Proper(o),
           NEW t \in Nat, \A e \in B : e.seq < t,
           NEW u \in Nat, \A e \in G : e.seq < u
    PROVE  /\ Book!FillOf(G, o) = Book!FillOf(B, o)
           /\ Twin(Book!BookAfter(B, t, o), Book!BookAfter(G, u, o))
           /\ \A e \in Book!BookAfter(G, u, o) : e.seq < u + 1
  <1>1. PICK r : Keeps(r, B) /\ G = Moved(B, r)
    BY DEF Twin
  <1>2. Sound(B) /\ Sound(G)
    BY <1>1, MovedSound DEF Twin
  <1> DEFINE Q == {e.seq : e \in B} \cup {t}
             p == [s \in Q |-> IF s = t THEN u ELSE r[s]]
             A == Book!BookAfter(B, t, o)
             C == Book!BookAfter(G, u, o)
  <1>3. p[t] = u
    OBVIOUS
  <1>4. \A e \in B : e.seq \in Nat /\ p[e.seq] = r[e.seq] /\ r[e.seq] \in Nat /\ r[e.seq] < u
    <2>1. \A e \in B : e.seq \in Nat /\ e.seq < t
      BY <1>2 DEF Sound, IsEntry
    <2>2. \A e \in B : r[e.seq] \in Nat
      BY <1>1 DEF Keeps
    <2>3. ASSUME NEW e \in B PROVE r[e.seq] < u
      <3>1. Renumbered(e, r) \in G /\ Renumbered(e, r).seq = r[e.seq]
        BY <1>1, RenumberedFields DEF Moved
      <3>2. QED
        BY <3>1
    <2>4. QED
      BY <2>1, <2>2, <2>3
  <1>5. /\ Sound(A) /\ Sound(C)
        /\ \A f \in A : f.seq = t \/ \E e \in B : e.seq = f.seq
        /\ \A f \in C : f.seq = u \/ \E e \in G : e.seq = f.seq
    BY <1>2, SoundAfter
  <1>6. Keeps(p, A)
    <2> HIDE DEF A, p
    <2>1. ASSUME NEW f \in A PROVE p[f.seq] \in Nat
      BY <1>3, <1>4, <1>5
    <2>2. ASSUME NEW f \in A, NEW h \in A, f.seq < h.seq PROVE p[f.seq] < p[h.seq]
      <3>1. CASE f.seq = t
        <4>1. h.seq \in Nat /\ h.seq <= t
          BY <1>4, <1>5
        <4>2. QED
          BY <2>2, <3>1, <4>1
      <3>2. CASE f.seq # t /\ h.seq = t
        BY <1>3, <1>4, <1>5, <3>2
      <3>3. CASE f.seq # t /\ h.seq # t
        <4>1. PICK e \in B : e.seq = f.seq
          BY <1>5, <3>3
        <4>2. PICK d \in B : d.seq = h.seq
          BY <1>5, <3>3
        <4>3. r[e.seq] < r[d.seq]
          BY <1>1, <2>2, <4>1, <4>2 DEF Keeps
        <4>4. QED
          BY <1>4, <4>1, <4>2, <4>3
      <3>4. QED
        BY <3>1, <3>2, <3>3
    <2>3. QED
      BY <2>1, <2>2 DEF Keeps
  <1>7. ASSUME NEW e \in B PROVE Renumbered(e, p) = Renumbered(e, r)
    BY <1>4 DEF Renumbered
  <1> HIDE DEF p, Q
  <1>8. C = Moved(A, p)
    <2>1. CASE Book!Refused(o)
      <3>1. A = B /\ C = G
        BY <2>1, <1>2, BookAfterIs
      <3>2. QED
        BY <1>1, <1>7, <3>1 DEF Moved
    <2>2. CASE ~Book!Refused(o) /\ o.kind = "cancel"
      <3>1. A = {e \in B : e.id # o.id} /\ C = {e \in G : e.id # o.id}
        BY <2>2, <1>2, BookAfterIs
      <3>2. \A e \in B : Renumbered(e, r).id = e.id
        BY RenumberedFields
      <3> HIDE DEF A, C
      <3>3. QED
        BY <1>1, <1>7, <3>1, <3>2 DEF Moved
    <2>3. CASE ~Book!Refused(o) /\ o.kind # "cancel"
      <3> DEFINE n == Book!Entry(o, t, o.qty - Book!Traded(B, o))
                 m == Book!Entry(o, u, o.qty - Book!Traded(G, o))
      <3>1. /\ A = Kept(B, o) \cup (IF Rests(B, o) THEN {n} ELSE {})
            /\ C = Kept(G, o) \cup (IF Rests(G, o) THEN {m} ELSE {})
        BY <2>3, <1>2, BookAfterIs
      <3>2. Book!Traded(G, o) = Book!Traded(B, o)
        BY <1>1, <1>2, TradedMoved
      <3>3. Rests(G, o) <=> Rests(B, o)
        BY <3>2 DEF Rests
      <3>4. Renumbered(n, p) = m
        BY <1>3, <3>2, EntryFields DEF Renumbered, Book!Entry
      <3>5. ASSUME NEW e \in B
            PROVE  /\ Left(G, o, Renumbered(e, r)) = Renumbered(Left(B, o, e), p)
                   /\ Book!Taken(G, o, Renumbered(e, r)) < Renumbered(e, r).rem
                      <=> Book!Taken(B, o, e) < e.rem
        <4>1. Book!Taken(G, o, Renumbered(e, r)) = Book!Taken(B, o, e)
          BY <1>1, <1>2, TakenMoved
        <4>2. Renumbered(e, r).rem = e.rem
          BY RenumberedFields
        <4>3. Left(G, o, Renumbered(e, r))
                = Book!Entry(Renumbered(e, r), r[e.seq], e.rem - Book!Taken(B, o, e))
          BY <4>1, RenumberedFields DEF Left
        <4>4. Renumbered(Left(B, o, e), p)
                = Book!Entry(Left(B, o, e), r[e.seq], e.rem - Book!Taken(B, o, e))
          BY <1>2, <1>4, LeftFields DEF Renumbered
        <4>5. QED
          BY <1>2, <4>1, <4>2, <4>3, <4>4, RenumberedFields, LeftFields DEF Book!Entry
      <3>6. Kept(G, o) = Moved(Kept(B, o), p)
        <4>1. ASSUME NEW x \in Kept(G, o) PROVE x \in Moved(Kept(B, o), p)
          <5>1. PICK g \in G : x = Left(G, o, g) /\ Book!Taken(G, o, g) < g.rem
            BY DEF Kept
          <5>2. PICK e \in B : g = Renumbered(e, r)
            BY <1>1, <5>1 DEF Moved
          <5>3. x = Renumbered(Left(B, o, e), p) /\ Left(B, o, e) \in Kept(B, o)
            BY <3>5, <5>1, <5>2 DEF Kept
          <5>4. QED
            BY <5>3 DEF Moved
        <4>2. ASSUME NEW x \in Moved(Kept(B, o), p) PROVE x \in Kept(G, o)
          <5>1. PICK e \in B : x = Renumbered(Left(B, o, e), p) /\ Book!Taken(B, o, e) < e.rem
            BY DEF Kept, Moved
          <5>2. Renumbered(e, r) \in G
            BY <1>1 DEF Moved
          <5>3. QED
            BY <3>5, <5>1, <5>2 DEF Kept
        <4>3. QED
          BY <4>1, <4>2
      <3> HIDE DEF A, C, n, m
      <3>7. QED
        BY <3>1, <3>3, <3>4, <3>6 DEF Moved
    <2>4. QED
      BY <2>1, <2>2, <2>3
  <1>9. \A f \in C : f.seq < u + 1
    <2>1. \A g \in G : g.seq \in Nat
      BY <1>2 DEF Sound, IsEntry
    <2> HIDE DEF C
    <2>2. QED
      BY <1>5, <2>1
  <1>10. Book!FillOf(G, o) = Book!FillOf(B, o)
    BY <1>1, <1>2, FillMoved
  <1>11. QED
    BY <1>5, <1>6, <1>8, <1>9, <1>10 DEF Twin

-----------------------------------------------------------------------------
(* The replay of what happened: the inductive invariant *)

\* H[i] is the engine's book after the first i orders of S.
Chain(H, S) ==
    /\ H[0] = {}
    /\ \A i \in 1..Len(S) : \E t \in Nat : /\ \A e \in H[i - 1] : e.seq < t
                                           /\ H[i] = Book!BookAfter(H[i - 1], t, S[i])

\* The fills of the orders S.
Fills(H, S) == {Book!FillOf(H[i - 1], S[i]) : i \in 1..Len(S)}

\* No id occurs twice among the orders S.
Distinct(S) == \A i, j \in 1..Len(S) : S[i].id = S[j].id => i = j

\* The numbers of the entries of B have a bound.
Bounded(B) == \E m \in Nat : \A e \in B : e.seq <= m

\* The requests of bot b.
Wires(b, r) ==
    /\ IsSeq(r.wire)
    /\ \A i \in 1..Len(r.wire) : Proper(r.wire[i].order) /\ r.wire[i].order.id[1] = b

\* The answers that bot b read, and those it can still read, are fills of F,
\* each for another order.
Heard(F, b, r) ==
    /\ IsSeq(r.replies)
    /\ \A i \in 1..Len(r.replies) : r.replies[i] \in F /\ r.replies[i].id[1] = b
    /\ \A i \in 1..Len(r.results) : ~r.results[i].err =>
          r.results[i].fill \in F /\ r.results[i].fill.id[1] = b
    /\ \A i, j \in 1..Len(r.replies) : r.replies[i].id = r.replies[j].id => i = j
    /\ \A i \in 1..Len(r.results) : \A j \in 1..Len(r.replies) :
          ~r.results[i].err => r.results[i].fill.id # r.replies[j].id
    /\ \A i, j \in 1..Len(r.results) :
          ~r.results[i].err /\ ~r.results[j].err
          /\ r.results[i].fill.id = r.results[j].fill.id => i = j

\* The golden book g has replayed the first orders of S: its fills are theirs
\* and its book is the engine's, renumbered.
Replayed(H, S, g) ==
    LET k == Len(g.fills)
    IN  /\ \A i \in 1..k : g.fills[i] = Book!FillOf(H[i - 1], S[i])
        /\ Twin(H[k], g.book)
        /\ \A e \in g.book : e.seq < k + 1

OrdersOfAll == [i \in 1..Len(all) |-> all[i].order]

Past(H) ==
    /\ Chain(H, served) /\ H[Len(served)] = engine /\ Sound(engine) /\ Bounded(engine)
    /\ \A b \in Bots : Heard(Fills(H, served), b, bot[b])
    /\ served = OrdersOfAll => Replayed(H, served, golden)

HistoryInv ==
    /\ IsSeq(served) /\ \A i \in 1..Len(served) : Proper(served[i])
    /\ \A b \in Bots : Wires(b, bot[b])
    /\ ~foreign /\ Distinct(served) => \E H : Past(H)

GoldenInv ==
    /\ DOMAIN golden = {"book", "fills"} /\ IsSeq(golden.fills)
    /\ Len(golden.fills) <= Len(all)
    /\ stage \notin {"checking", "scored"} => golden = [book |-> {}, fills |-> <<>>]
    /\ stage = "scored" => /\ Len(golden.fills) = Len(all)
                           /\ score = Check(Received(all), golden.fills)

-----------------------------------------------------------------------------
(* The replay of what happened: the steps *)

\* A bounded set of natural numbers that is not empty has a greatest element.
LEMMA GreatestNat ==
    ASSUME NEW T, T \subseteq Nat, T # {}, NEW m \in Nat, \A x \in T : x <= m
    PROVE  \E x \in T : \A y \in T : y <= x
  <1> DEFINE U == {m - x : x \in T}
  <1>1. \A x \in T : m - x \in Nat
    OBVIOUS
  <1>2. U \subseteq Nat /\ U # {}
    BY <1>1
  <1> HIDE DEF U
  <1>3. PICK d \in U : \A y \in U : ~(<<y, d>> \in OpToRel(<, Nat))
    BY <1>2, NatLessThanWellFounded, WFMin, Zenon
  <1>4. PICK x \in T : d = m - x
    BY DEF U
  <1>5. ASSUME NEW y \in T PROVE y <= x
    <2>1. m - y \in U
      BY DEF U
    <2>2. ~(<<m - y, d>> \in OpToRel(<, Nat))
      BY <1>3, <2>1
    <2>3. m - y \in Nat /\ d \in Nat
      BY <1>2, <2>1
    <2>4. ~(m - y < d)
      BY <2>2, <2>3 DEF OpToRel
    <2>5. x \in Nat /\ y \in Nat
      OBVIOUS
    <2>6. QED
      BY <1>4, <2>4, <2>5
  <1>6. QED
    BY <1>5

\* The engine gives a new order a number behind every resting one.
LEMMA ServeIs ==
    ASSUME Sound(engine), Bounded(engine), NEW o, Serve(o)
    PROVE  \E t \in Nat : /\ \A e \in engine : e.seq < t
                          /\ engine' = Book!BookAfter(engine, t, o)
  <1> DEFINE T == {e.seq : e \in engine} \cup {0}
             last == CHOOSE t \in T : \A e \in engine : e.seq <= t
  <1>1. \A e \in engine : e.seq \in Nat
    BY DEF Sound, IsEntry
  <1>2. PICK m \in Nat : \A e \in engine : e.seq <= m
    BY DEF Bounded
  <1>3. T \subseteq Nat /\ T # {} /\ \A x \in T : x <= m
    BY <1>1, <1>2
  <1>4. \E x \in T : \A y \in T : y <= x
    <2> HIDE DEF T
    <2>1. QED
      BY <1>3, GreatestNat
  <1>5. last \in T /\ \A e \in engine : e.seq <= last
    BY <1>4
  <1>6. last \in Nat
    BY <1>3, <1>5
  <1>7. engine' = Book!BookAfter(engine, last + 1, o)
    BY DEF Serve
  <1> HIDE DEF last, T
  <1>8. last + 1 \in Nat /\ \A e \in engine : e.seq < last + 1
    BY <1>1, <1>5, <1>6
  <1>9. QED
    BY <1>7, <1>8

LEMMA FillId == ASSUME NEW B, NEW o PROVE Book!FillOf(B, o).id = o.id
  BY DEF Book!FillOf, Book!Fill

\* What bot b heard, with the fills of more orders.
LEMMA HeardMore ==
    ASSUME NEW F, NEW G, F \subseteq G, NEW b, NEW r, Heard(F, b, r)
    PROVE  Heard(G, b, r)
  BY DEF Heard

\* The engine answers a new order of bot b.
LEMMA HeardServed ==
    ASSUME NEW F, NEW b, NEW r, Heard(F, b, r), NEW f, f.id[1] = b,
           \A x \in F : x.id # f.id,
           NEW q, q.results = r.results, q.replies \in {r.replies, Append(r.replies, f)}
    PROVE  Heard(F \cup {f}, b, q)
  <1> DEFINE a == r.replies
             c == Append(r.replies, f)
  <1>1. CASE q.replies = r.replies
    BY <1>1 DEF Heard
  <1>2. CASE q.replies = c
    <2>1. /\ IsSeq(c) /\ Len(a) \in Nat /\ Len(c) = Len(a) + 1
          /\ \A i \in 1..Len(a) : c[i] = a[i]
          /\ c[Len(a) + 1] = f
      BY AppendSeq DEF Heard
    <2> HIDE DEF c
    <2>2. \A i \in 1..Len(c) : (i \in 1..Len(a) /\ c[i] = a[i]) \/ (i = Len(a) + 1 /\ c[i] = f)
      BY <2>1
    <2>3. \A i \in 1..Len(c) : c[i] \in F \cup {f} /\ c[i].id[1] = b
      BY <2>2 DEF Heard
    <2>4. \A i \in 1..Len(a) : a[i] \in F /\ a[i].id # f.id
      BY DEF Heard
    <2>5. \A i, j \in 1..Len(c) : c[i].id = c[j].id => i = j
      BY <2>2, <2>4 DEF Heard
    <2>6. \A i \in 1..Len(r.results) : \A j \in 1..Len(c) :
             ~r.results[i].err => r.results[i].fill.id # c[j].id
      BY <2>2 DEF Heard
    <2>7. \A i \in 1..Len(r.results) : ~r.results[i].err =>
             r.results[i].fill \in F \cup {f} /\ r.results[i].fill.id[1] = b
      BY DEF Heard
    <2>8. \A i, j \in 1..Len(r.results) :
             ~r.results[i].err /\ ~r.results[j].err
             /\ r.results[i].fill.id = r.results[j].fill.id => i = j
      BY DEF Heard
    <2>9. QED
      BY <1>2, <2>1, <2>3, <2>5, <2>6, <2>7, <2>8 DEF Heard
  <1>3. QED
    BY <1>1, <1>2

\* Send returns: bot b reads the first answer.
LEMMA HeardRead ==
    ASSUME NEW F, NEW b, NEW r, Heard(F, b, r), IsSeq(r.results), r.replies # <<>>,
           NEW x, ~x.err, x.fill = Head(r.replies),
           NEW q, q.results = Append(r.results, x), q.replies = Tail(r.replies)
    PROVE  Heard(F, b, q)
  <1> DEFINE a == r.replies
             c == Tail(a)
             s == r.results
             u == Append(s, x)
  <1>1. /\ IsSeq(c) /\ Len(a) \in Nat \ {0} /\ Len(c) = Len(a) - 1
        /\ \A i \in 1..(Len(a) - 1) : c[i] = a[i + 1]
        /\ Head(a) = a[1]
    BY TailSeq DEF Heard
  <1>2. /\ IsSeq(u) /\ Len(s) \in Nat /\ Len(u) = Len(s) + 1
        /\ \A i \in 1..Len(s) : u[i] = s[i]
        /\ u[Len(s) + 1] = x
    BY AppendSeq
  <1>3. /\ \A i \in 1..Len(a) : a[i] \in F /\ a[i].id[1] = b
        /\ \A i \in 1..Len(s) : ~s[i].err => s[i].fill \in F /\ s[i].fill.id[1] = b
        /\ \A i, j \in 1..Len(a) : a[i].id = a[j].id => i = j
        /\ \A i \in 1..Len(s) : \A j \in 1..Len(a) : ~s[i].err => s[i].fill.id # a[j].id
        /\ \A i, j \in 1..Len(s) :
              ~s[i].err /\ ~s[j].err /\ s[i].fill.id = s[j].fill.id => i = j
    BY DEF Heard
  <1>4. q.results = u /\ q.replies = c /\ x.fill = a[1]
    BY <1>1
  <1> HIDE DEF a, c, s, u
  <1>5. \A i \in 1..Len(c) : i + 1 \in 1..Len(a) /\ c[i] = a[i + 1] /\ i + 1 # 1
    BY <1>1
  <1>6. 1 \in 1..Len(a)
    BY <1>1
  <1>7. \A i \in 1..Len(u) : (i \in 1..Len(s) /\ u[i] = s[i]) \/ (i = Len(s) + 1 /\ u[i] = x)
    BY <1>2
  <1>8. ASSUME NEW i \in 1..Len(c) PROVE c[i] \in F /\ c[i].id[1] = b
    <2>1. i + 1 \in 1..Len(a) /\ c[i] = a[i + 1]
      BY <1>5
    <2>2. a[i + 1] \in F /\ a[i + 1].id[1] = b
      BY <1>3, <2>1
    <2>3. QED
      BY <2>1, <2>2
  <1>9. \A i \in 1..Len(u) : ~u[i].err => u[i].fill \in F /\ u[i].fill.id[1] = b
    BY <1>3, <1>4, <1>6, <1>7
  <1>10. ASSUME NEW i \in 1..Len(c), NEW j \in 1..Len(c), c[i].id = c[j].id PROVE i = j
    <2>1. i + 1 = j + 1
      BY <1>3, <1>5, <1>10
    <2>2. QED
      BY <2>1
  <1>11. ASSUME NEW i \in 1..Len(u), NEW j \in 1..Len(c), ~u[i].err
         PROVE  u[i].fill.id # c[j].id
    <2>1. j + 1 \in 1..Len(a) /\ c[j] = a[j + 1] /\ j + 1 # 1
      BY <1>5
    <2>2. CASE i \in 1..Len(s) /\ u[i] = s[i]
      BY <1>3, <1>11, <2>1, <2>2
    <2>3. CASE u[i] = x
      BY <1>3, <1>4, <1>6, <2>1, <2>3
    <2>4. QED
      BY <1>7, <2>2, <2>3
  <1>12. ASSUME NEW i \in 1..Len(u), NEW j \in 1..Len(u),
                ~u[i].err, ~u[j].err, u[i].fill.id = u[j].fill.id
         PROVE  i = j
    <2>1. CASE i \in 1..Len(s) /\ u[i] = s[i] /\ j \in 1..Len(s) /\ u[j] = s[j]
      BY <1>3, <1>12, <2>1
    <2>2. CASE i \in 1..Len(s) /\ u[i] = s[i] /\ u[j] = x
      BY <1>3, <1>4, <1>6, <1>12, <2>2
    <2>3. CASE j \in 1..Len(s) /\ u[j] = s[j] /\ u[i] = x
      BY <1>3, <1>4, <1>6, <1>12, <2>3
    <2>4. QED
      BY <1>7, <2>1, <2>2, <2>3
  <1>13. QED
    BY <1>1, <1>4, <1>8, <1>9, <1>10, <1>11, <1>12 DEF Heard

\* A failed Send adds no answer.
LEMMA HeardFailed ==
    ASSUME NEW F, NEW b, NEW r, Heard(F, b, r), IsSeq(r.results),
           NEW x, x.err, NEW q, q.results = Append(r.results, x),
           q.replies \in {r.replies, <<>>}
    PROVE  Heard(F, b, q)
  <1> DEFINE s == r.results
             u == Append(s, x)
  <1>1. /\ IsSeq(u) /\ Len(s) \in Nat /\ Len(u) = Len(s) + 1
        /\ \A i \in 1..Len(s) : u[i] = s[i]
        /\ u[Len(s) + 1] = x
    BY AppendSeq
  <1>2. q.results = u
    OBVIOUS
  <1> HIDE DEF u
  <1>3. \A i \in 1..Len(u) : ~u[i].err => i \in 1..Len(s) /\ u[i] = s[i]
    BY <1>1
  <1>4. IsSeq(<<>>) /\ Len(<<>>) = 0
    BY DEF IsSeq
  <1>5. CASE q.replies = r.replies
    <2> DEFINE a == r.replies
    <2>1. /\ IsSeq(a) /\ \A i \in 1..Len(a) : a[i] \in F /\ a[i].id[1] = b
          /\ \A i \in 1..Len(s) : ~s[i].err => s[i].fill \in F /\ s[i].fill.id[1] = b
          /\ \A i, j \in 1..Len(a) : a[i].id = a[j].id => i = j
          /\ \A i \in 1..Len(s) : \A j \in 1..Len(a) : ~s[i].err => s[i].fill.id # a[j].id
          /\ \A i, j \in 1..Len(s) :
                ~s[i].err /\ ~s[j].err /\ s[i].fill.id = s[j].fill.id => i = j
      BY DEF Heard
    <2>2. q.replies = a
      BY <1>5
    <2> HIDE DEF a, s
    <2>3. /\ \A i \in 1..Len(u) : ~u[i].err => u[i].fill \in F /\ u[i].fill.id[1] = b
          /\ \A i \in 1..Len(u) : \A j \in 1..Len(a) : ~u[i].err => u[i].fill.id # a[j].id
      BY <1>3, <2>1
    <2>4. \A i, j \in 1..Len(u) :
             ~u[i].err /\ ~u[j].err /\ u[i].fill.id = u[j].fill.id => i = j
      BY <1>3, <2>1
    <2>5. QED
      BY <1>2, <2>1, <2>2, <2>3, <2>4 DEF Heard
  <1>6. CASE q.replies = <<>>
    BY <1>2, <1>3, <1>4, <1>6 DEF Heard
  <1>7. QED
    BY <1>5, <1>6

LEMMA HeardQuiet ==
    ASSUME NEW F, NEW b, NEW r, Heard(F, b, r),
           NEW q, q.results = r.results, q.replies \in {r.replies, <<>>}
    PROVE  Heard(F, b, q)
  <1>1. IsSeq(<<>>) /\ Len(<<>>) = 0
    BY DEF IsSeq
  <1>2. CASE q.replies = r.replies
    BY <1>2 DEF Heard
  <1>3. CASE q.replies = <<>>
    BY <1>1, <1>3 DEF Heard
  <1>4. QED
    BY <1>2, <1>3

\* Nothing is replayed yet.
LEMMA ReplayedNone ==
    ASSUME NEW H, NEW S, Chain(H, S), NEW g, g = [book |-> {}, fills |-> <<>>]
    PROVE  Replayed(H, S, g)
  <1>1. Len(g.fills) = 0 /\ g.book = {} /\ H[0] = {}
    BY DEF Chain
  <1>2. Sound({})
    BY FS_EmptySet DEF Sound
  <1>3. Moved({}, <<>>) = {} /\ Keeps(<<>>, {})
    BY DEF Moved, Keeps
  <1>4. Twin({}, {})
    BY <1>2, <1>3 DEF Twin
  <1>5. Twin(H[Len(g.fills)], g.book)
    BY <1>1, <1>4, Zenon
  <1>6. 1..Len(g.fills) = {}
    BY <1>1
  <1>7. QED
    BY <1>1, <1>5, <1>6 DEF Replayed

\* One more order is replayed.
LEMMA ReplayedMore ==
    ASSUME NEW H, NEW S, Chain(H, S), NEW g, IsSeq(g.fills), Replayed(H, S, g),
           Len(g.fills) + 1 \in 1..Len(S), NEW o, o = S[Len(g.fills) + 1], Proper(o),
           NEW h, h = [book  |-> Book!BookAfter(g.book, Len(g.fills) + 1, o),
                       fills |-> Append(g.fills, Book!FillOf(g.book, o))]
    PROVE  Replayed(H, S, h)
  <1> DEFINE k == Len(g.fills)
             f == Book!FillOf(g.book, o)
             c == Append(g.fills, f)
  <1>1. /\ IsSeq(c) /\ k \in Nat /\ Len(c) = k + 1
        /\ \A i \in 1..k : c[i] = g.fills[i]
        /\ c[k + 1] = f
    BY AppendSeq
  <1>2. PICK t \in Nat : /\ \A e \in H[k] : e.seq < t
                         /\ H[k + 1] = Book!BookAfter(H[k], t, o)
    <2>1. PICK t \in Nat : /\ \A e \in H[(k + 1) - 1] : e.seq < t
                           /\ H[k + 1] = Book!BookAfter(H[(k + 1) - 1], t, S[k + 1])
      BY DEF Chain
    <2>2. (k + 1) - 1 = k
      BY <1>1
    <2>3. QED
      BY <2>1, <2>2
  <1>3. Twin(H[k], g.book) /\ \A e \in g.book : e.seq < k + 1
    BY DEF Replayed
  <1>4. k + 1 \in Nat
    BY <1>1
  <1>5. /\ f = Book!FillOf(H[k], o)
        /\ Twin(H[k + 1], Book!BookAfter(g.book, k + 1, o))
        /\ \A e \in Book!BookAfter(g.book, k + 1, o) : e.seq < k + 1 + 1
    BY <1>2, <1>3, <1>4, TwinStep
  <1>6. h.fills = c /\ h.book = Book!BookAfter(g.book, k + 1, o)
    OBVIOUS
  <1>7. ASSUME NEW i \in 1..Len(c) PROVE c[i] = Book!FillOf(H[i - 1], S[i])
    <2>1. CASE i \in 1..k
      BY <1>1, <2>1 DEF Replayed
    <2>2. CASE i = k + 1
      <3>1. (k + 1) - 1 = k
        BY <1>1
      <3>2. QED
        BY <1>1, <1>5, <2>2, <3>1
    <2>3. QED
      BY <1>1, <2>1, <2>2
  <1> HIDE DEF c, f, k
  <1>8. QED
    BY <1>1, <1>5, <1>6, <1>7 DEF Replayed

\* The engine serves one more order: the history grows.
LEMMA ChainMore ==
    ASSUME NEW H, NEW S, IsSeq(S), Chain(H, S), NEW o, NEW t \in Nat,
           \A e \in H[Len(S)] : e.seq < t, NEW B, B = Book!BookAfter(H[Len(S)], t, o)
    PROVE  \E G : /\ Chain(G, Append(S, o)) /\ G[Len(S) + 1] = B
                  /\ \A i \in 0..Len(S) : G[i] = H[i]
                  /\ Fills(G, Append(S, o)) = Fills(H, S) \cup {Book!FillOf(H[Len(S)], o)}
  <1> DEFINE n == Len(S)
             c == Append(S, o)
             G == [i \in 0..(n + 1) |-> IF i = n + 1 THEN B ELSE H[i]]
  <1>1. /\ IsSeq(c) /\ n \in Nat /\ Len(c) = n + 1
        /\ \A i \in 1..n : c[i] = S[i]
        /\ c[n + 1] = o
    BY AppendSeq
  <1>2. G[n + 1] = B /\ \A i \in 0..n : G[i] = H[i]
    BY <1>1
  <1> HIDE DEF c, G, n
  <1>3. \A i \in 1..Len(c) : i \in 1..n \/ i = n + 1
    BY <1>1
  <1>4. \A i \in 1..n : i - 1 \in 0..n /\ i \in 0..n
    BY <1>1
  <1>5. (n + 1) - 1 = n /\ n \in 0..n /\ 0 \in 0..n /\ n + 1 \in 1..Len(c)
    BY <1>1
  <1>6. Chain(G, c)
    <2>1. G[0] = {}
      BY <1>2, <1>5 DEF Chain
    <2>2. ASSUME NEW i \in 1..Len(c)
          PROVE  \E u \in Nat : /\ \A e \in G[i - 1] : e.seq < u
                                /\ G[i] = Book!BookAfter(G[i - 1], u, c[i])
      <3>1. CASE i \in 1..n
        <4>1. G[i - 1] = H[i - 1] /\ G[i] = H[i] /\ c[i] = S[i]
          BY <1>1, <1>2, <1>4, <3>1
        <4>2. QED
          BY <3>1, <4>1 DEF Chain, n
      <3>2. CASE i = n + 1
        <4>1. G[i - 1] = H[n] /\ G[i] = B /\ c[i] = o
          BY <1>1, <1>2, <1>5, <3>2
        <4>2. QED
          BY <4>1 DEF n
      <3>3. QED
        BY <1>3, <3>1, <3>2
    <2>3. QED
      BY <2>1, <2>2 DEF Chain
  <1>7. Fills(G, c) = Fills(H, S) \cup {Book!FillOf(H[n], o)}
    <2>1. \A i \in 1..n : Book!FillOf(G[i - 1], c[i]) = Book!FillOf(H[i - 1], S[i])
      BY <1>1, <1>2, <1>4
    <2>2. Book!FillOf(G[(n + 1) - 1], c[n + 1]) = Book!FillOf(H[n], o)
      BY <1>1, <1>2, <1>5
    <2>3. Fills(H, S) = {Book!FillOf(H[i - 1], S[i]) : i \in 1..n}
      BY DEF Fills, n
    <2>4. Fills(G, c) = {Book!FillOf(G[i - 1], c[i]) : i \in 1..Len(c)}
      BY DEF Fills
    <2>5. 1..Len(c) = 1..n \cup {n + 1}
      BY <1>1
    <2> HIDE DEF Book!FillOf
    <2>6. QED
      BY <2>1, <2>2, <2>3, <2>4, <2>5
  <1>8. QED
    BY <1>2, <1>6, <1>7 DEF n, c

\* A step that leaves the engine and its orders alone, and what the bots heard.
LEMMA HistoryKept ==
    ASSUME HistoryInv, UNCHANGED <<served, engine, foreign>>,
           UNCHANGED <<golden, all>> \/ golden' = [book |-> {}, fills |-> <<>>],
           \A b \in Bots : /\ Wires(b, bot'[b])
                           /\ \A F : Heard(F, b, bot[b]) => Heard(F, b, bot'[b])
    PROVE  HistoryInv'
  <1>1. ASSUME NEW H, Past(H) PROVE Past(H)'
    <2>1. Chain(H, served) /\ H[Len(served)] = engine /\ Sound(engine) /\ Bounded(engine)
      BY <1>1 DEF Past
    <2>2. \A b \in Bots : Heard(Fills(H, served), b, bot'[b])
      BY <1>1 DEF Past
    <2>3. CASE UNCHANGED <<golden, all>>
      <3>1. served' = OrdersOfAll' => Replayed(H, served', golden')
        BY <1>1, <2>3 DEF Past, OrdersOfAll
      <3>2. QED
        BY <2>1, <2>2, <3>1 DEF Past, Bots, Profiles
    <2>4. CASE golden' = [book |-> {}, fills |-> <<>>]
      <3>1. Replayed(H, served', golden')
        BY <2>1, <2>4, ReplayedNone
      <3>2. QED
        BY <2>1, <2>2, <3>1 DEF Past, Bots, Profiles
    <2>5. QED
      BY <2>3, <2>4
  <1>2. \A b \in Bots : Wires(b, bot'[b])
    OBVIOUS
  <1>3. ~foreign' /\ Distinct(served)' => \E H : Past(H)'
    BY <1>1 DEF HistoryInv, Distinct
  <1>4. QED
    BY <1>2, <1>3 DEF HistoryInv, Bots, Profiles

LEMMA WiresSame == ASSUME NEW b, NEW r, Wires(b, r), NEW q, q.wire = r.wire PROVE Wires(b, q)
  BY DEF Wires

\* A request leaves the wire.
LEMMA WiresLess ==
    ASSUME NEW b, NEW r, Wires(b, r), NEW i \in 1..Len(r.wire), NEW q,
           q.wire = RemoveAt(r.wire, i)
    PROVE  Wires(b, q)
  <1>1. /\ IsSeq(q.wire) /\ Len(r.wire) \in Nat /\ Len(q.wire) = Len(r.wire) - 1
        /\ \A k \in 1..(Len(r.wire) - 1) : q.wire[k] = r.wire[IF k < i THEN k ELSE k + 1]
    BY RemoveSeq DEF Wires
  <1>2. ASSUME NEW k \in 1..Len(q.wire)
        PROVE  \E m \in 1..Len(r.wire) : q.wire[k] = r.wire[m]
    <2>1. (IF k < i THEN k ELSE k + 1) \in 1..Len(r.wire)
      BY <1>1
    <2>2. QED
      BY <1>1, <2>1
  <1>3. QED
    BY <1>1, <1>2 DEF Wires

LEMMA HistoryBot ==
    ASSUME HistoryInv, NEW b \in Bots, UNCHANGED <<served, engine, foreign, golden, all>>,
           \A c \in Bots \ {b} : bot'[c] = bot[c], Wires(b, bot'[b]),
           \A F : Heard(F, b, bot[b]) => Heard(F, b, bot'[b])
    PROVE  HistoryInv'
  <1>1. \A c \in Bots : /\ Wires(c, bot'[c])
                        /\ \A F : Heard(F, c, bot[c]) => Heard(F, c, bot'[c])
    BY DEF HistoryInv
  <1>2. QED
    BY <1>1, HistoryKept

LEMMA SendHistory ==
    ASSUME FleetInv, HistoryInv, NEW b \in Bots, SendOrder(b)
    PROVE  HistoryInv'
  <1>1. DOMAIN bot = Bots /\ Counted(bot[b]) /\ Ordered(b, bot[b]) /\ Wires(b, bot[b])
    BY DEF FleetInv, BotsInv, HistoryInv
  <1>2. PICK d \in Drawn(b) :
          bot' = [bot EXCEPT ![b].pc = "wait", ![b].n = @ + 1,
                             ![b].pending = d.pending, ![b].order = d.order,
                             ![b].wire = Append(@, [n |-> bot[b].n + 1, order |-> d.order])]
    BY DEF SendOrder
  <1> DEFINE x == [n |-> bot[b].n + 1, order |-> d.order]
             w == bot[b].wire
             w1 == Append(w, x)
  <1>3. /\ bot'[b].wire = w1 /\ bot'[b].replies = bot[b].replies
        /\ bot'[b].results = bot[b].results
        /\ \A c \in Bots \ {b} : bot'[c] = bot[c]
    BY <1>1, <1>2 DEF Counted
  <1>4. Proper(d.order) /\ d.order.id[1] = b
    <2>1. \A y \in bot[b].pending : y[1] = b
      BY <1>1 DEF Ordered
    <2>2. PICK m \in Menu : \E id : d.order = OrderFor(m, id) /\ id[1] = b
      BY <2>1 DEF Drawn
    <2>3. QED
      BY <2>2, FleetAssumption DEF Proper, OrderFor
  <1>5. Wires(b, bot'[b])
    <2>1. /\ IsSeq(w1) /\ Len(w) \in Nat /\ Len(w1) = Len(w) + 1
          /\ \A i \in 1..Len(w) : w1[i] = w[i]
          /\ w1[Len(w) + 1] = x
      BY <1>1, AppendSeq DEF Wires
    <2>2. x.order = d.order
      OBVIOUS
    <2> HIDE DEF x, w1
    <2>3. \A i \in 1..Len(w1) : (i \in 1..Len(w) /\ w1[i] = w[i]) \/ w1[i] = x
      BY <2>1
    <2>4. QED
      BY <1>1, <1>3, <1>4, <2>1, <2>2, <2>3 DEF Wires
  <1>6. \A F : Heard(F, b, bot[b]) => Heard(F, b, bot'[b])
    BY <1>3, HeardQuiet
  <1>7. QED
    BY <1>3, <1>5, <1>6, HistoryBot DEF SendOrder, scoreVars

LEMMA ReceiveHistory ==
    ASSUME FleetInv, HistoryInv, NEW b \in Bots, Receive(b)
    PROVE  HistoryInv'
  <1>1. /\ DOMAIN bot = Bots /\ Counted(bot[b]) /\ Wires(b, bot[b])
        /\ bot[b].replies # <<>>
    BY DEF FleetInv, BotsInv, HistoryInv, Receive
  <1> DEFINE x == [order |-> bot[b].order, err |-> FALSE, fill |-> Head(bot[b].replies)]
  <1>2. /\ bot'[b].wire = bot[b].wire /\ bot'[b].replies = Tail(bot[b].replies)
        /\ bot'[b].results = Append(bot[b].results, x)
        /\ \A c \in Bots \ {b} : bot'[c] = bot[c]
    BY <1>1 DEF Counted, Receive
  <1>3. ~x.err /\ x.fill = Head(bot[b].replies) /\ IsSeq(bot[b].results)
    BY <1>1 DEF Counted
  <1> HIDE DEF x
  <1>4. \A F : Heard(F, b, bot[b]) => Heard(F, b, bot'[b])
    BY <1>1, <1>2, <1>3, HeardRead
  <1>5. Wires(b, bot'[b])
    BY <1>1, <1>2, WiresSame
  <1>6. QED
    BY <1>2, <1>4, <1>5, HistoryBot DEF Receive, scoreVars

LEMMA FailHistory ==
    ASSUME FleetInv, HistoryInv, NEW b \in Bots, SendFails(b)
    PROVE  HistoryInv'
  <1>1. DOMAIN bot = Bots /\ Counted(bot[b]) /\ Wires(b, bot[b])
    BY DEF FleetInv, BotsInv, HistoryInv
  <1> DEFINE x == [order |-> bot[b].order, err |-> TRUE,
                   fill |-> Book!Fill(bot[b].order, 0, 0, FALSE)]
  <1>2. PICK w \in StillOut(b) :
          bot' = [bot EXCEPT ![b].pc = "ready", ![b].wire = w, ![b].replies = Unread(b),
                             ![b].results = Append(@, x)]
    BY DEF SendFails
  <1>3. /\ bot'[b].wire = w /\ bot'[b].replies = Unread(b)
        /\ bot'[b].results = Append(bot[b].results, x)
        /\ \A c \in Bots \ {b} : bot'[c] = bot[c]
    BY <1>1, <1>2 DEF Counted
  <1>4. x.err /\ Unread(b) \in {bot[b].replies, <<>>} /\ IsSeq(bot[b].results)
    BY <1>1 DEF Counted, Unread
  <1> HIDE DEF x
  <1>5. \A F : Heard(F, b, bot[b]) => Heard(F, b, bot'[b])
    BY <1>3, <1>4, HeardFailed
  <1>6. Wires(b, bot'[b])
    BY <1>1, <1>3, WiresSame, WiresLess DEF StillOut
  <1>7. QED
    BY <1>3, <1>5, <1>6, HistoryBot DEF SendFails, scoreVars

LEMMA QuietHistory ==
    ASSUME FleetInv, HistoryInv, NEW b \in Bots, StartBot(b) \/ BotNeverRuns(b) \/ StopBot(b)
    PROVE  HistoryInv'
  <1>1. DOMAIN bot = Bots /\ Counted(bot[b]) /\ Wires(b, bot[b])
    BY DEF FleetInv, BotsInv, HistoryInv
  <1>2. /\ bot'[b].wire = bot[b].wire /\ bot'[b].replies \in {bot[b].replies, <<>>}
        /\ bot'[b].results = bot[b].results
        /\ \A c \in Bots \ {b} : bot'[c] = bot[c]
    BY <1>1 DEF Counted, StartBot, BotNeverRuns, StopBot
  <1>3. \A F : Heard(F, b, bot[b]) => Heard(F, b, bot'[b])
    BY <1>2, HeardQuiet
  <1>4. Wires(b, bot'[b])
    BY <1>1, <1>2, WiresSame
  <1>5. QED
    BY <1>2, <1>3, <1>4, HistoryBot DEF StartBot, BotNeverRuns, StopBot, scoreVars

LEMMA DistinctBefore ==
    ASSUME NEW S, IsSeq(S), NEW o, Distinct(Append(S, o))
    PROVE  Distinct(S) /\ \A i \in 1..Len(S) : S[i].id # o.id
  <1> DEFINE c == Append(S, o)
  <1>1. /\ Len(S) \in Nat /\ Len(c) = Len(S) + 1 /\ c[Len(S) + 1] = o
        /\ \A i \in 1..Len(S) : c[i] = S[i]
    BY AppendSeq
  <1> HIDE DEF c
  <1>2. Distinct(c)
    BY DEF c
  <1>3. \A i \in 1..Len(S) : i \in 1..Len(c) /\ i # Len(S) + 1
    BY <1>1
  <1>4. Len(S) + 1 \in 1..Len(c)
    BY <1>1
  <1>5. QED
    BY <1>1, <1>2, <1>3, <1>4 DEF Distinct

LEMMA ServeHistory ==
    ASSUME FleetInv, HistoryInv, GoldenInv, NEW b \in Bots, EngineServes(b)
    PROVE  HistoryInv'
  <1>1. /\ DOMAIN bot = Bots /\ Counted(bot[b]) /\ Wires(b, bot[b])
        /\ IsSeq(served) /\ \A i \in 1..Len(served) : Proper(served[i])
        /\ golden' = [book |-> {}, fills |-> <<>>] /\ foreign' = foreign
    BY DEF FleetInv, BotsInv, HistoryInv, GoldenInv, EngineServes, scoreVars
  <1>2. PICK i \in 1..Len(bot[b].wire) :
          /\ Serve(bot[b].wire[i].order)
          /\ served' = Append(served, bot[b].wire[i].order)
          /\ bot' = [bot EXCEPT ![b].wire = RemoveAt(@, i),
                    ![b].replies = IF protocol = "websocket"
                                      \/ (bot[b].pc = "wait" /\ bot[b].wire[i].n = bot[b].n)
                                   THEN Append(@, Answer(bot[b].wire[i].order)) ELSE @]
    BY DEF EngineServes
  <1> DEFINE o == bot[b].wire[i].order
             f == Book!FillOf(engine, o)
             c == Append(served, o)
  <1>3. /\ bot'[b].wire = RemoveAt(bot[b].wire, i) /\ bot'[b].results = bot[b].results
        /\ bot'[b].replies \in {bot[b].replies, Append(bot[b].replies, f)}
        /\ \A d \in Bots \ {b} : bot'[d] = bot[d]
    BY <1>1, <1>2 DEF Counted, Answer
  <1>4. Proper(o) /\ o.id[1] = b
    BY <1>1 DEF Wires
  <1>5. Serve(o) /\ served' = c
    BY <1>2
  <1>6. \A d \in Bots : Wires(d, bot'[d])
    <2>1. Wires(b, bot'[b])
      BY <1>1, <1>3, WiresLess
    <2>2. QED
      BY <1>3, <2>1 DEF HistoryInv
  <1>7. /\ IsSeq(c) /\ Len(served) \in Nat /\ Len(c) = Len(served) + 1
        /\ \A k \in 1..Len(served) : c[k] = served[k]
        /\ c[Len(served) + 1] = o
    BY <1>1, AppendSeq
  <1>8. f.id = o.id
    BY FillId
  <1> HIDE DEF o, f
  <1>9. \A k \in 1..Len(c) : Proper(c[k])
    <2>1. \A k \in 1..Len(c) : (k \in 1..Len(served) /\ c[k] = served[k]) \/ c[k] = o
      BY <1>7
    <2>2. QED
      BY <1>1, <1>4, <2>1
  <1>10. ASSUME ~foreign, Distinct(c) PROVE \E G : Past(G)'
    <2>1. Distinct(served) /\ \A k \in 1..Len(served) : served[k].id # o.id
      BY <1>1, <1>10, DistinctBefore
    <2>2. PICK H : Past(H)
      BY <1>10, <2>1 DEF HistoryInv
    <2>3. /\ Chain(H, served) /\ H[Len(served)] = engine /\ Sound(engine) /\ Bounded(engine)
          /\ \A d \in Bots : Heard(Fills(H, served), d, bot[d])
      BY <2>2 DEF Past
    <2>4. PICK t \in Nat : /\ \A e \in engine : e.seq < t
                           /\ engine' = Book!BookAfter(engine, t, o)
      BY <1>5, <2>3, ServeIs
    <2>5. PICK G : /\ Chain(G, c) /\ G[Len(served) + 1] = engine'
                   /\ Fills(G, c) = Fills(H, served) \cup {f}
      <3>1. /\ \A e \in H[Len(served)] : e.seq < t
            /\ engine' = Book!BookAfter(H[Len(served)], t, o)
        BY <2>3, <2>4
      <3>2. \E G : /\ Chain(G, Append(served, o)) /\ G[Len(served) + 1] = engine'
                   /\ \A j \in 0..Len(served) : G[j] = H[j]
                   /\ Fills(G, Append(served, o))
                        = Fills(H, served) \cup {Book!FillOf(H[Len(served)], o)}
        BY <1>1, <2>3, <3>1, ChainMore
      <3>3. Book!FillOf(H[Len(served)], o) = f
        BY <2>3 DEF f
      <3>4. QED
        BY <3>2, <3>3
    <2>6. Sound(engine') /\ Bounded(engine')
      <3>1. /\ Sound(Book!BookAfter(engine, t, o))
            /\ \A e \in Book!BookAfter(engine, t, o) : e.seq = t \/ \E d \in engine : d.seq = e.seq
        BY <1>4, <2>3, <2>4, SoundAfter
      <3>2. \A d \in engine : d.seq \in Nat
        BY <2>3 DEF Sound, IsEntry
      <3>3. \A e \in engine' : e.seq <= t
        BY <2>4, <3>1, <3>2
      <3>4. QED
        BY <2>4, <3>1, <3>3 DEF Bounded
    <2>7. \A x \in Fills(H, served) : x.id # f.id
      <3>1. ASSUME NEW k \in 1..Len(served)
            PROVE  Book!FillOf(H[k - 1], served[k]).id # f.id
        BY <1>8, <2>1, FillId
      <3>2. QED
        BY <3>1 DEF Fills
    <2>8. ASSUME NEW d \in Bots PROVE Heard(Fills(G, c), d, bot'[d])
      <3>1. CASE d = b
        <4>1. f.id[1] = b
          BY <1>4, <1>8
        <4>2. Heard(Fills(H, served), b, bot[b])
          BY <2>3
        <4>3. Heard(Fills(H, served) \cup {f}, b, bot'[b])
          BY <1>3, <2>7, <4>1, <4>2, HeardServed
        <4>4. QED
          BY <2>5, <3>1, <4>3
      <3>2. CASE d # b
        BY <1>3, <2>3, <2>5, <3>2, HeardMore
      <3>3. QED
        BY <3>1, <3>2
    <2>9. Replayed(G, c, golden')
      BY <1>1, <2>5, ReplayedNone
    <2>10. G[Len(c)] = engine'
      BY <1>7, <2>5
    <2>11. Past(G)'
      BY <1>5, <2>5, <2>6, <2>8, <2>9, <2>10 DEF Past, Bots, Profiles
    <2>12. QED
      BY <2>11
  <1>11. QED
    BY <1>1, <1>5, <1>6, <1>7, <1>9, <1>10 DEF HistoryInv, Bots, Profiles

LEMMA ReplayHistory ==
    ASSUME FleetInv, HistoryInv, GoldenInv, ReplayOrder
    PROVE  HistoryInv'
  <1> DEFINE k == Len(golden.fills)
             o == all[k + 1].order
             g == [book  |-> Book!BookAfter(golden.book, k + 1, o),
                   fills |-> Append(golden.fills, Book!FillOf(golden.book, o))]
  <1>1. /\ k < Len(all) /\ IsSeq(golden.fills) /\ golden' = g
        /\ UNCHANGED <<served, engine, foreign, all, bot>>
    BY DEF ReplayOrder, GoldenInv, GoldenBookAfter, fleetVars
  <1>2. ASSUME NEW H, Past(H) PROVE Past(H)'
    <2>1. /\ Chain(H, served) /\ H[Len(served)] = engine /\ Sound(engine) /\ Bounded(engine)
          /\ \A d \in Bots : Heard(Fills(H, served), d, bot[d])
      BY <1>2 DEF Past
    <2>2. ASSUME served = OrdersOfAll PROVE Replayed(H, served, g)
      <3>1. Replayed(H, served, golden)
        BY <1>2, <2>2 DEF Past
      <3>2. k \in Nat /\ Len(served) \in Nat
        BY <1>1, SeqFacts DEF HistoryInv
      <3>3. Len(served) = Len(all) /\ \A i \in 1..Len(all) : served[i] = all[i].order
        <4>1. DOMAIN served = 1..Len(all) /\ DOMAIN served = 1..Len(served)
          BY <2>2, SeqFacts DEF OrdersOfAll, HistoryInv
        <4>2. Len(all) \in Nat
          BY SeqFacts DEF FleetInv, Slices
        <4>3. QED
          BY <2>2, <3>2, <4>1, <4>2 DEF OrdersOfAll
      <3>4. k + 1 \in 1..Len(served)
        BY <1>1, <3>2, <3>3
      <3>5. o = served[k + 1] /\ Proper(o)
        BY <3>3, <3>4 DEF HistoryInv
      <3> HIDE DEF o
      <3>6. QED
        BY <1>1, <2>1, <3>1, <3>4, <3>5, ReplayedMore
    <2> HIDE DEF g
    <2>3. served' = OrdersOfAll' => Replayed(H, served', golden')
      BY <1>1, <2>2 DEF OrdersOfAll
    <2>4. QED
      BY <1>1, <2>1, <2>3 DEF Past, Bots, Profiles
  <1> HIDE DEF g
  <1>3. ~foreign' /\ Distinct(served)' => \E H : Past(H)'
    BY <1>1, <1>2 DEF HistoryInv, Distinct
  <1>4. QED
    BY <1>1, <1>3 DEF HistoryInv, Bots, Profiles

LEMMA HistoryStep ==
    ASSUME FleetInv, HistoryInv, GoldenInv, [Next]_vars
    PROVE  HistoryInv'
  <1>1. ASSUME UNCHANGED <<served, engine, foreign, bot>>,
               UNCHANGED <<golden, all>> \/ golden' = [book |-> {}, fills |-> <<>>]
        PROVE  HistoryInv'
    BY <1>1, HistoryKept DEF HistoryInv
  <1>2. CASE UNCHANGED vars \/ StartGate \/ GateDecides \/ ManualProbe \/ TestEnds
             \/ FleetReturns \/ ScoreRun \/ Over
    BY <1>1, <1>2 DEF vars, fleetVars, scoreVars, StartGate, GateDecides, ManualProbe,
                      TestEnds, FleetReturns, ScoreRun, Over
  <1>3. CASE Collect
    BY <1>1, <1>3 DEF Collect, GoldenInv, scoreVars
  <1>4. ASSUME UNCHANGED <<served, bot>>, foreign' = TRUE PROVE HistoryInv'
    BY <1>4 DEF HistoryInv, Bots, Profiles
  <1>5. ASSUME NEW v, Validates(v) PROVE HistoryInv'
    BY <1>1, <1>4, <1>5 DEF Validates, RunScenario, RunBurst, ReturnResult, AbortRun,
                            fleetVars, scoreVars
  <1>6. QED
    BY <1>2, <1>3, <1>5, SendHistory, ServeHistory, ReceiveHistory, FailHistory,
       QuietHistory, ReplayHistory DEF Next

LEMMA GoldenStep ==
    ASSUME FleetInv, GoldenInv, [Next]_vars
    PROVE  GoldenInv'
  <1>1. ASSUME UNCHANGED <<golden, all, score>>,
               UNCHANGED stage
               \/ (stage' \notin {"checking", "scored"}
                   /\ stage \notin {"checking", "scored"})
               \/ stage' = "checking"
        PROVE  GoldenInv'
    BY <1>1 DEF GoldenInv
  <1>2. CASE UNCHANGED vars \/ StartGate \/ GateDecides \/ ManualProbe \/ TestEnds
             \/ FleetReturns \/ Over
    BY <1>1, <1>2 DEF vars, fleetVars, scoreVars, StartGate, GateDecides, ManualProbe,
                      TestEnds, FleetReturns, Over
  <1>3. ASSUME NEW v, Validates(v) PROVE GoldenInv'
    BY <1>1, <1>3 DEF Validates, RunScenario, RunBurst, ReturnResult, AbortRun,
                      fleetVars, scoreVars
  <1>4. ASSUME NEW b \in Bots,
               \/ StartBot(b) \/ BotNeverRuns(b) \/ SendOrder(b) \/ EngineServes(b)
               \/ Receive(b) \/ SendFails(b) \/ StopBot(b)
        PROVE  GoldenInv'
    BY <1>1, <1>4 DEF StartBot, BotNeverRuns, SendOrder, EngineServes, Receive, SendFails,
                      StopBot, scoreVars
  <1>5. CASE Collect
    <2>1. IsSeq(all)'
      BY FleetStep DEF FleetInv, Slices
    <2>2. Len(all') \in Nat
      BY <2>1, SeqFacts DEF IsSeq, Range
    <2>3. stage = "fleet" /\ UNCHANGED <<stage, golden, score>>
      BY <1>5 DEF Collect, scoreVars
    <2>4. QED
      BY <2>2, <2>3 DEF GoldenInv
  <1>6. CASE ReplayOrder
    <2> DEFINE k == Len(golden.fills)
               f == Book!FillOf(golden.book, all[k + 1].order)
               B == GoldenBookAfter(all[k + 1].order)
    <2>1. /\ stage = "checking" /\ k < Len(all) /\ UNCHANGED <<stage, all, score>>
          /\ golden' = [book |-> B, fills |-> Append(golden.fills, f)]
      BY <1>6 DEF ReplayOrder, fleetVars
    <2>2. IsSeq(golden.fills) /\ Len(all) \in Nat
      BY SeqFacts DEF GoldenInv, FleetInv, Slices
    <2> HIDE DEF f, B
    <2>3. IsSeq(Append(golden.fills, f)) /\ k \in Nat /\ Len(Append(golden.fills, f)) = k + 1
      BY <2>2, AppendSeq
    <2>4. IsSeq(golden'.fills) /\ Len(golden'.fills) <= Len(all)
      BY <2>1, <2>2, <2>3
    <2>5. DOMAIN golden' = {"book", "fills"}
      BY <2>1
    <2>6. QED
      BY <2>1, <2>4, <2>5 DEF GoldenInv
  <1>7. CASE ScoreRun
    BY <1>7 DEF ScoreRun, GoldenInv, fleetVars
  <1>8. QED
    BY <1>2, <1>3, <1>4, <1>5, <1>6, <1>7 DEF Next

LEMMA HistoryStart == Init => HistoryInv /\ GoldenInv
  <1> SUFFICES ASSUME Init PROVE HistoryInv /\ GoldenInv
    OBVIOUS
  <1>1. /\ served = <<>> /\ engine = {} /\ golden = [book |-> {}, fills |-> <<>>]
        /\ stage = "preflight" /\ all = <<>> /\ \A b \in Bots : bot[b] = NewBot
    BY DEF Init
  <1>2. IsSeq(<<>>) /\ Len(<<>>) = 0
    BY DEF IsSeq
  <1>3. GoldenInv
    BY <1>1, <1>2 DEF GoldenInv
  <1>4. \A b \in Bots : Wires(b, NewBot) /\ \A F : Heard(F, b, NewBot)
    BY <1>2 DEF Wires, Heard, NewBot
  <1> DEFINE H == [i \in {0} |-> {}]
  <1>5. Chain(H, served) /\ H[Len(served)] = engine
    BY <1>1, <1>2 DEF Chain
  <1>6. Sound({}) /\ Bounded({})
    BY FS_EmptySet DEF Sound, Bounded
  <1>7. Replayed(H, served, golden)
    BY <1>1, <1>5, ReplayedNone
  <1> HIDE DEF H
  <1>8. Past(H)
    BY <1>1, <1>4, <1>5, <1>6, <1>7 DEF Past
  <1>9. QED
    BY <1>1, <1>2, <1>3, <1>4, <1>8 DEF HistoryInv

-----------------------------------------------------------------------------
(* The replay of what happened: the count *)

\* Checker.Check when each fill that came back is a golden one and each order
\* has an id of its own.
LEMMA CheckExact ==
    ASSUME NEW n \in Nat, NEW gfs, DOMAIN gfs = 1..n,
           \A i, j \in 1..n : gfs[i].id = gfs[j].id => i = j,
           NEW cfs, DOMAIN cfs \subseteq 1..n,
           \A i, j \in DOMAIN cfs : cfs[i].id = cfs[j].id => i = j,
           \A i \in DOMAIN cfs : \E k \in 1..n : cfs[i] = gfs[k]
    PROVE  /\ Check(cfs, gfs).correct = Cardinality(DOMAIN cfs)
           /\ Check(cfs, gfs).incorrect = n - Cardinality(DOMAIN cfs)
  <1> DEFINE First(s, i) == \A j \in DOMAIN s : j < i => s[j].id # s[i].id
             at(id) == CHOOSE i \in DOMAIN gfs : gfs[i].id = id /\ First(gfs, i)
             ids == {gfs[i].id : i \in DOMAIN gfs}
             good == {i \in DOMAIN cfs : /\ cfs[i].id \in ids /\ First(cfs, i)
                                         /\ fillsMatch(cfs[i], gfs[at(cfs[i].id)])}
             heard == {cfs[i].id : i \in DOMAIN cfs}
             silent == ids \ heard
             D == DOMAIN cfs
  <1>1. Check(cfs, gfs) = [correct   |-> Cardinality(good),
                           incorrect |-> Cardinality(D) - Cardinality(good) + Cardinality(silent)]
    BY DEF Check
  <1>2. ASSUME NEW i \in D PROVE i \in good
    <2>1. PICK k \in 1..n : cfs[i] = gfs[k]
      OBVIOUS
    <2>2. cfs[i].id \in ids
      BY <2>1
    <2>3. First(cfs, i)
      <3>1. ASSUME NEW j \in D, j < i, cfs[j].id = cfs[i].id PROVE FALSE
        <4>1. j = i /\ i \in Int
          BY <3>1
        <4>2. QED
          BY <3>1, <4>1
      <3>2. QED
        BY <3>1
    <2>4. First(gfs, k)
      <3>1. ASSUME NEW j \in DOMAIN gfs, j < k, gfs[j].id = gfs[k].id PROVE FALSE
        <4>1. j = k /\ k \in Int
          BY <3>1
        <4>2. QED
          BY <3>1, <4>1
      <3>2. QED
        BY <3>1
    <2>5. at(cfs[i].id) = k
      <3> HIDE DEF First
      <3>1. k \in DOMAIN gfs /\ gfs[k].id = cfs[i].id /\ First(gfs, k)
        BY <2>1, <2>4
      <3>2. \A j \in DOMAIN gfs : gfs[j].id = cfs[i].id /\ First(gfs, j) => j = k
        BY <2>1
      <3>3. QED
        BY <3>1, <3>2
    <2>6. fillsMatch(cfs[i], gfs[k])
      BY <2>1 DEF fillsMatch
    <2> HIDE DEF First, at, ids
    <2>7. QED
      BY <2>2, <2>3, <2>5, <2>6
  <1>3. good = D
    BY <1>2
  <1> DEFINE gid == [i \in 1..n |-> gfs[i].id]
             cid == [i \in D |-> cfs[i].id]
  <1>4. ids = {gid[i] : i \in 1..n} /\ heard = {cid[i] : i \in D}
    OBVIOUS
  <1>5. /\ \A i, j \in 1..n : gid[i] = gid[j] => i = j
        /\ \A i, j \in D : cid[i] = cid[j] => i = j
    OBVIOUS
  <1>6. heard \subseteq ids
    OBVIOUS
  <1> HIDE DEF gid, cid, good, ids, heard
  <1>7. IsFiniteSet(ids) /\ Cardinality(ids) = Cardinality(1..n)
    <2>1. gid \in [1..n -> ids] /\ \A t \in ids : \E i \in 1..n : gid[i] = t
      BY <1>4 DEF gid
    <2>2. gid \in Surjection(1..n, ids) /\ gid \in Injection(1..n, ids)
      BY <1>5, <2>1 DEF Surjection, Injection, IsInjective
    <2>3. IsFiniteSet(1..n)
      BY FS_Interval
    <2>4. QED
      BY <2>2, <2>3, FS_Surjection
  <1>8. IsFiniteSet(heard) /\ Cardinality(heard) = Cardinality(D) /\ Cardinality(D) \in Nat
    <2>1. cid \in [D -> heard] /\ \A t \in heard : \E i \in D : cid[i] = t
      BY <1>4 DEF cid
    <2>2. cid \in Surjection(D, heard) /\ cid \in Injection(D, heard)
      BY <1>5, <2>1 DEF Surjection, Injection, IsInjective
    <2>3. IsFiniteSet(1..n) /\ D \subseteq 1..n
      BY FS_Interval
    <2> HIDE DEF D
    <2>4. IsFiniteSet(D)
      BY <2>3, FS_Subset
    <2>5. QED
      BY <2>2, <2>4, FS_Surjection, FS_CardinalityType
  <1>9. Cardinality(1..n) = n
    BY FS_Interval
  <1>10. Cardinality(silent) = n - Cardinality(D)
    <2>1. IsFiniteSet(silent) /\ silent \cap heard = {} /\ silent \cup heard = ids
      BY <1>6, <1>7, FS_Subset
    <2> HIDE DEF silent, D
    <2>2. Cardinality(ids) = Cardinality(silent) + Cardinality(heard) - Cardinality({})
      BY <1>8, <2>1, FS_Union
    <2>3. Cardinality({}) = 0 /\ Cardinality(silent) \in Nat
      BY <2>1, FS_EmptySet, FS_CardinalityType
    <2>4. QED
      BY <1>7, <1>8, <1>9, <2>2, <2>3
  <1> HIDE DEF silent, D
  <1>11. /\ Check(cfs, gfs).correct = Cardinality(D)
         /\ Check(cfs, gfs).incorrect = Cardinality(D) - Cardinality(D) + Cardinality(silent)
    BY <1>1, <1>3
  <1>12. Check(cfs, gfs).incorrect = n - Cardinality(D)
    BY <1>8, <1>10, <1>11
  <1>13. QED
    BY <1>11, <1>12 DEF D

\* Once the run is scored.
LEMMA ReplayExact ==
    ASSUME FleetInv, HistoryInv, GoldenInv
    PROVE  ReplayOfHistoryIsExact
  <1> SUFFICES ASSUME stage = "scored", ~foreign, served = OrdersOfAll,
                      \A i, j \in 1..Len(all) : all[i].order.id = all[j].order.id => i = j
               PROVE  /\ score.correct = Cardinality(DOMAIN Received(all))
                      /\ score.incorrect = Len(all) - Cardinality(DOMAIN Received(all))
    BY DEF ReplayOfHistoryIsExact, OrdersOfAll
  <1> DEFINE n == Len(all)
             gfs == golden.fills
             cfs == Received(all)
  <1>1. /\ n \in Nat /\ Len(served) \in Nat /\ IsSeq(gfs)
        /\ \A i, j \in 1..n : all[i] = all[j] => i = j
        /\ \A m \in 1..n : \E b \in Bots : \E j \in 1..Len(bot[b].results) :
              all[m] = bot[b].results[j]
    <2>1. /\ IsSeq(all) /\ \A i, j \in 1..n : all[i] = all[j] => i = j
          /\ \A m \in 1..n : \E b \in Returned : \E j \in 1..Len(Results[b]) :
                all[m] = Results[b][j]
      BY DEF FleetInv, Slices
    <2>2. n \in Nat /\ Len(served) \in Nat /\ IsSeq(gfs)
      BY <2>1, SeqFacts DEF HistoryInv, GoldenInv
    <2>3. QED
      BY <2>1, <2>2 DEF Returned, Results
  <1>2. Len(served) = n /\ \A i \in 1..n : served[i] = all[i].order
    <2>1. DOMAIN served = 1..n /\ DOMAIN served = 1..Len(served)
      BY SeqFacts DEF OrdersOfAll, HistoryInv
    <2>2. QED
      BY <1>1, <2>1 DEF OrdersOfAll
  <1>3. Distinct(served)
    BY <1>2 DEF Distinct
  <1>4. PICK H : Past(H)
    BY <1>3 DEF HistoryInv
  <1>5. Len(gfs) = n /\ DOMAIN gfs = 1..n /\ score = Check(cfs, gfs)
    BY <1>1, SeqFacts DEF GoldenInv
  <1>6. \A i \in 1..n : gfs[i] = Book!FillOf(H[i - 1], served[i])
    BY <1>4, <1>5 DEF Past, Replayed
  <1>7. \A i \in 1..n : gfs[i].id = all[i].order.id
    BY <1>2, <1>6, FillId
  <1>8. \A b \in Bots : Heard(Fills(H, served), b, bot[b])
    BY <1>4 DEF Past
  <1>9. DOMAIN cfs \subseteq 1..n /\ \A i \in DOMAIN cfs : ~all[i].err /\ cfs[i] = all[i].fill
    BY DEF Received
  <1> HIDE DEF cfs, gfs, n
  <1>10. ASSUME NEW i \in DOMAIN cfs PROVE \E k \in 1..n : cfs[i] = gfs[k]
    <2>1. PICK b \in Bots : \E j \in 1..Len(bot[b].results) : all[i] = bot[b].results[j]
      BY <1>1, <1>9
    <2>2. cfs[i] \in Fills(H, served)
      BY <1>8, <1>9, <2>1 DEF Heard
    <2>3. PICK k \in 1..Len(served) : cfs[i] = Book!FillOf(H[k - 1], served[k])
      BY <2>2 DEF Fills
    <2>4. QED
      BY <1>2, <1>6, <2>3
  <1>11. ASSUME NEW i \in DOMAIN cfs, NEW j \in DOMAIN cfs, cfs[i].id = cfs[j].id
         PROVE  i = j
    <2>1. PICK b \in Bots : \E k \in 1..Len(bot[b].results) : all[i] = bot[b].results[k]
      BY <1>1, <1>9
    <2>2. PICK k \in 1..Len(bot[b].results) : all[i] = bot[b].results[k]
      BY <2>1
    <2>3. PICK c \in Bots : \E m \in 1..Len(bot[c].results) : all[j] = bot[c].results[m]
      BY <1>1, <1>9
    <2>4. PICK m \in 1..Len(bot[c].results) : all[j] = bot[c].results[m]
      BY <2>3
    <2>5. /\ ~bot[b].results[k].err /\ ~bot[c].results[m].err
          /\ cfs[i] = bot[b].results[k].fill /\ cfs[j] = bot[c].results[m].fill
      BY <1>9, <2>2, <2>4
    <2>6. cfs[i].id[1] = b /\ cfs[j].id[1] = c
      BY <1>8, <2>5 DEF Heard
    <2>7. b = c
      BY <1>11, <2>6
    <2>8. k = m
      BY <1>8, <1>11, <2>5, <2>7 DEF Heard
    <2>9. all[i] = all[j]
      BY <2>2, <2>4, <2>7, <2>8
    <2>10. QED
      BY <1>1, <1>9, <2>9
  <1>12. \A i, j \in 1..n : gfs[i].id = gfs[j].id => i = j
    BY <1>7 DEF n
  <1>13. /\ Check(cfs, gfs).correct = Cardinality(DOMAIN cfs)
         /\ Check(cfs, gfs).incorrect = n - Cardinality(DOMAIN cfs)
    BY <1>1, <1>5, <1>9, <1>10, <1>11, <1>12, CheckExact
  <1>14. QED
    BY <1>5, <1>13 DEF cfs, n

\* The replay is exact whenever it replays what happened: if the engine served
\* exactly the collected orders, in that order and from an empty book, each
\* fill a bot read is scored correct and only the others are not, for any bots
\* and orders, over both protocols and whatever sends were lost.
THEOREM ReplayCorrect == Spec => []ReplayOfHistoryIsExact
  <1>1. Init => FleetInv /\ HistoryInv /\ GoldenInv
    BY FleetStart, HistoryStart
  <1>2. FleetInv /\ HistoryInv /\ GoldenInv /\ [Next]_vars
          => FleetInv' /\ HistoryInv' /\ GoldenInv'
    BY FleetStep, HistoryStep, GoldenStep
  <1>3. FleetInv /\ HistoryInv /\ GoldenInv => ReplayOfHistoryIsExact
    BY ReplayExact
  <1>4. QED
    BY <1>1, <1>2, <1>3, PTL DEF Spec


-----------------------------------------------------------------------------
(* What an order takes *)

LEMMA VolumeNone == Book!Volume({}) = 0
  <1>1. UNION {{e.seq} \X (1..e.rem) : e \in {}} = {}
    OBVIOUS
  <1>2. QED
    BY <1>1, SameCardinality, FS_EmptySet DEF Book!Volume

LEMMA VolumeGrows ==
    ASSUME NEW B, Sound(B), NEW T, T \subseteq B, NEW S, S \subseteq T
    PROVE  Book!Volume(S) <= Book!Volume(T)
  <1>1. S \subseteq B /\ Units(S) \subseteq Units(T)
    BY DEF Units
  <1>2. /\ IsFiniteSet(Units(T)) /\ Book!Volume(T) = Cardinality(Units(T))
        /\ Book!Volume(S) = Cardinality(Units(S))
    BY <1>1, UnitsFinite
  <1>3. QED
    BY <1>1, <1>2, FS_Subset

\* One more entry adds its remaining units.
LEMMA VolumeAdds ==
    ASSUME NEW B, Sound(B), NEW S, S \subseteq B, NEW f \in B \ S
    PROVE  Book!Volume(S \cup {f}) = Book!Volume(S) + f.rem
  <1> DEFINE F == {f.seq} \X (1..f.rem)
             V == Units(S)
  <1>1. f.rem \in Nat \ {0} /\ f.rem \in Int /\ 1 \in Int /\ S \cup {f} \subseteq B
    BY DEF Sound, IsEntry
  <1>2. IsFiniteSet(1..f.rem) /\ Cardinality(1..f.rem) = IF 1 > f.rem THEN 0 ELSE f.rem - 1 + 1
    BY <1>1, FS_Interval, Zenon
  <1>3. IsFiniteSet({f.seq}) /\ Cardinality({f.seq}) = 1
    BY FS_Singleton, Zenon
  <1>4. IsFiniteSet(F) /\ Cardinality(F) = Cardinality({f.seq}) * Cardinality(1..f.rem)
    BY <1>2, <1>3, FS_Product, Zenon
  <1>5. Cardinality(F) = f.rem
    <2>1. Cardinality(1..f.rem) = f.rem
      BY <1>1, <1>2
    <2>2. QED
      BY <1>1, <1>3, <1>4, <2>1
  <1>6. /\ IsFiniteSet(V) /\ Book!Volume(S) = Cardinality(V)
        /\ Book!Volume(S \cup {f}) = Cardinality(Units(S \cup {f}))
    BY <1>1, UnitsFinite
  <1>7. Units(S \cup {f}) = V \cup F
    BY DEF Units
  <1>8. V \cap F = {}
    <2>1. \A e \in S : e.seq # f.seq
      BY DEF Sound
    <2>2. ASSUME NEW x \in V, x \in F PROVE FALSE
      <3>1. PICK e \in S : x \in {e.seq} \X (1..e.rem)
        BY <2>2 DEF Units
      <3>2. x[1] = e.seq /\ x[1] = f.seq
        BY <2>2, <3>1
      <3>3. QED
        BY <2>1, <3>2
    <2>3. QED
      BY <2>2
  <1> HIDE DEF F, V
  <1>9. Cardinality(V \cup F) = Cardinality(V) + Cardinality(F) - Cardinality(V \cap F)
    BY <1>4, <1>6, FS_Union
  <1>10. Cardinality(V \cap F) = 0 /\ Cardinality(V) \in Nat
    BY <1>6, <1>8, FS_EmptySet, FS_CardinalityType
  <1>11. Book!Volume(S \cup {f}) = Cardinality(V) + f.rem - 0
    BY <1>5, <1>6, <1>7, <1>9, <1>10
  <1>12. QED
    BY <1>1, <1>6, <1>10, <1>11

LEMMA VolumeOne ==
    ASSUME NEW B, Sound(B), NEW e \in B
    PROVE  Book!Volume({e}) = e.rem
  <1>1. {} \subseteq B /\ e \in B \ {} /\ {} \cup {e} = {e}
    OBVIOUS
  <1>2. Book!Volume({} \cup {e}) = Book!Volume({}) + e.rem
    BY <1>1, VolumeAdds
  <1>3. e.rem \in Int
    BY DEF Sound, IsEntry
  <1>4. QED
    BY <1>1, <1>2, <1>3, VolumeNone

\* The orders that are matched.
Matched(o) == Proper(o) /\ ~Book!Refused(o) /\ o.kind # "cancel"

\* What entries served before e offer to o.
Ahead(B, o, e) == {f \in Book!Reach(B, o) : Book!ServedBefore(f, e)}

LEMMA TakenIs ==
    ASSUME NEW B, Sound(B), NEW o, Proper(o), NEW e \in B
    PROVE  /\ e \notin Book!Reach(B, o) => Book!Taken(B, o, e) = 0
           /\ Book!Volume(Ahead(B, o, e)) \in Nat
           /\ e \in Book!Reach(B, o) =>
                LET left == o.qty - Book!Volume(Ahead(B, o, e))
                IN  Book!Taken(B, o, e) = IF left <= 0 THEN 0
                                          ELSE IF left < e.rem THEN left ELSE e.rem
  <1>1. Ahead(B, o, e) \subseteq B
    BY DEF Ahead, Book!Reach
  <1>2. Book!Volume(Ahead(B, o, e)) \in Nat
    BY <1>1, UnitsFinite
  <1>3. QED
    BY <1>2 DEF Book!Taken, Ahead

\* The price of a trade is that of the last entry.
LEMMA PriceIs ==
    ASSUME NEW B, Sound(B), NEW o, Proper(o), NEW e \in Traders(B, o),
           \A f \in Traders(B, o) \ {e} : Book!ServedBefore(f, e)
    PROVE  Book!TradePrice(B, o) = e.price
  <1> DEFINE T == Traders(B, o)
  <1>1. T \subseteq B /\ \A f, g \in T : f.side = g.side
    BY TradersSide DEF Traders
  <1>2. Book!TradePrice(B, o) = IF T = {} THEN 0 ELSE LastOf(T).price
    BY DEF Book!TradePrice, Traders, LastOf
  <1> HIDE DEF T
  <1>3. e \in T /\ \A f \in T \ {e} : Book!ServedBefore(f, e)
    BY DEF T
  <1>4. LastOf(T) \in T /\ \A f \in T \ {LastOf(T)} : Book!ServedBefore(f, LastOf(T))
    BY <1>3 DEF LastOf
  <1>5. LastOf(T) = e
    BY <1>1, <1>3, <1>4, OneLast
  <1>6. QED
    BY <1>2, <1>3, <1>5

\* An order that reaches no entry.
LEMMA TakesNone ==
    ASSUME NEW B, Sound(B), NEW o, Matched(o), Book!Reach(B, o) = {}, NEW t
    PROVE  /\ Book!FillOf(B, o) = Book!Fill(o, 0, 0, o.kind = "limit")
           /\ Book!BookAfter(B, t, o) =
                B \cup (IF o.kind = "limit" THEN {Book!Entry(o, t, o.qty)} ELSE {})
  <1>0. Proper(o) /\ o.qty \in Int
    BY DEF Matched, Proper
  <1>1. \A e \in B : Book!Taken(B, o, e) = 0
    BY <1>0, TakenIs
  <1>2. ~Book!Refused(o) /\ o.kind # "cancel" /\ o.qty > 0
    BY <1>0 DEF Matched, Book!Refused
  <1>3. Book!Traded(B, o) = 0
    BY <1>0, <1>2, VolumeNone DEF Book!Traded
  <1>4. Book!TradePrice(B, o) = 0
    <2>1. Traders(B, o) = {}
      BY <1>1 DEF Traders
    <2>2. QED
      BY <2>1 DEF Book!TradePrice, Traders
  <1>5. Kept(B, o) = B
    <2>1. ASSUME NEW e \in B PROVE Left(B, o, e) = e /\ Book!Taken(B, o, e) < e.rem
      <3>1. e = Book!Entry(e, e.seq, e.rem) /\ e.rem \in Nat \ {0}
        BY DEF Sound, IsEntry
      <3>2. e.rem - Book!Taken(B, o, e) = e.rem /\ Book!Taken(B, o, e) < e.rem
        BY <1>1, <3>1
      <3>3. QED
        BY <3>1, <3>2 DEF Left
    <2>2. QED
      BY <2>1 DEF Kept
  <1>6. o.qty - Book!Traded(B, o) = o.qty /\ (Rests(B, o) <=> o.kind = "limit")
    BY <1>0, <1>2, <1>3 DEF Rests
  <1>7. Book!FillOf(B, o) = Book!Fill(o, 0, 0, o.kind = "limit")
    <2>1. ~(Book!Traded(B, o) > 0)
      BY <1>3
    <2>2. Book!FillOf(B, o) = Book!Fill(o, 0, 0, o.kind = "limit" \/ Book!Traded(B, o) > 0)
      BY <1>2, <1>3, <1>4 DEF Book!FillOf
    <2>3. QED
      BY <2>1, <2>2 DEF Book!Fill
  <1>8. QED
    BY <1>0, <1>2, <1>5, <1>6, <1>7, BookAfterIs

\* An order that trades and does not rest.
LEMMA Trades ==
    ASSUME NEW B, Sound(B), NEW o, Matched(o), NEW e \in Traders(B, o),
           \A f \in Traders(B, o) \ {e} : Book!ServedBefore(f, e),
           NEW q \in Nat \ {0}, Book!Traded(B, o) = q, o.kind = "market" \/ q = o.qty, NEW t
    PROVE  /\ Book!FillOf(B, o) = Book!Fill(o, e.price, q, TRUE)
           /\ Book!BookAfter(B, t, o) = Kept(B, o)
  <1>1. Proper(o) /\ o.qty \in Int /\ ~Book!Refused(o) /\ o.kind # "cancel"
    BY DEF Matched, Proper
  <1>2. Book!TradePrice(B, o) = e.price
    BY <1>1, PriceIs
  <1>3. Book!FillOf(B, o) = Book!Fill(o, e.price, q, TRUE)
    <2>1. Book!Traded(B, o) > 0
      OBVIOUS
    <2>2. Book!FillOf(B, o) = Book!Fill(o, e.price, q, o.kind = "limit" \/ Book!Traded(B, o) > 0)
      BY <1>1, <1>2 DEF Book!FillOf
    <2>3. QED
      BY <2>1, <2>2 DEF Book!Fill
  <1>4. ~Rests(B, o)
    BY <1>1 DEF Rests
  <1>5. QED
    BY <1>1, <1>3, <1>4, BookAfterIs

\* No entry is served before itself, and of two only one before the other.
LEMMA ServedOnce ==
    ASSUME NEW B, Sound(B), NEW e \in B, NEW f \in B, e.side = f.side,
           Book!ServedBefore(e, f)
    PROVE  ~Book!ServedBefore(f, e) /\ e # f
  <1>1. e.price \in Int /\ f.price \in Int /\ e.seq \in Nat /\ f.seq \in Nat
    BY DEF Sound, IsEntry
  <1>2. QED
    BY <1>1 DEF Book!ServedBefore

LEMMA ReachSide ==
    ASSUME NEW B, Sound(B), NEW o, Proper(o)
    PROVE  /\ Book!Reach(B, o) \subseteq B
           /\ \A e, f \in Book!Reach(B, o) : e.side = f.side
           /\ \A e \in Book!Reach(B, o) : ~Book!ServedBefore(e, e)
  <1>1. Book!Reach(B, o) \subseteq B /\ \A e \in Book!Reach(B, o) : e.side # o.side
    BY DEF Book!Reach
  <1>2. \A e \in B : e.side \in {"buy", "sell"} /\ e.price \in Int /\ e.seq \in Nat
    BY DEF Sound, IsEntry
  <1>3. \A e \in B : ~Book!ServedBefore(e, e)
    BY <1>2 DEF Book!ServedBefore
  <1>4. QED
    BY <1>1, <1>2, <1>3 DEF Proper

\* An order that the first entry it reaches can fill.
LEMMA TakesFirst ==
    ASSUME NEW B, Sound(B), NEW o, Matched(o), NEW e \in Book!Reach(B, o), o.qty <= e.rem,
           \A f \in Book!Reach(B, o) \ {e} : Book!ServedBefore(e, f), NEW t
    PROVE  /\ Book!FillOf(B, o) = Book!Fill(o, e.price, o.qty, TRUE)
           /\ Book!BookAfter(B, t, o) =
                (B \ {e}) \cup (IF o.qty < e.rem
                                THEN {Book!Entry(e, e.seq, e.rem - o.qty)} ELSE {})
  <1> DEFINE R == Book!Reach(B, o)
             T(f) == Book!Taken(B, o, f)
  <1>1. Proper(o) /\ o.qty \in Int /\ o.qty > 0
    BY DEF Matched, Proper, Book!Refused
  <1>2. /\ e \in B /\ R \subseteq B /\ ~Book!ServedBefore(e, e)
        /\ \A f \in R : f.side = e.side
    BY <1>1, ReachSide
  <1>3. e.rem \in Nat \ {0} /\ Book!Volume({e}) = e.rem
    BY <1>2, VolumeOne DEF Sound, IsEntry
  <1>4. T(e) = o.qty
    <2>1. Ahead(B, o, e) = {}
      <3>1. \A f \in R \ {e} : ~Book!ServedBefore(f, e)
        BY <1>2, ServedOnce
      <3>2. QED
        BY <1>2, <3>1 DEF Ahead
    <2>2. o.qty - Book!Volume(Ahead(B, o, e)) = o.qty
      BY <1>1, <2>1, VolumeNone
    <2>3. T(e) = IF o.qty <= 0 THEN 0 ELSE IF o.qty < e.rem THEN o.qty ELSE e.rem
      BY <1>1, <1>2, <2>2, TakenIs
    <2> HIDE DEF T
    <2>4. QED
      BY <1>1, <1>3, <2>3
  <1>5. ASSUME NEW f \in B \ {e} PROVE T(f) = 0
    <2>1. CASE f \notin R
      BY <1>1, <2>1, TakenIs
    <2>2. CASE f \in R
      <3> DEFINE A == Ahead(B, o, f)
      <3>1. {e} \subseteq A /\ A \subseteq B
        BY <1>2, <2>2 DEF Ahead
      <3>2. Book!Volume({e}) <= Book!Volume(A) /\ Book!Volume(A) \in Nat
        BY <3>1, VolumeGrows, UnitsFinite
      <3>3. o.qty - Book!Volume(A) <= 0
        BY <1>1, <1>3, <3>2
      <3> HIDE DEF A, T
      <3>4. QED
        BY <1>1, <2>2, <3>3, TakenIs DEF A, T
    <2>3. QED
      BY <2>1, <2>2
  <1>6. Book!Traded(B, o) = o.qty
    <2>1. Book!Volume({e}) <= Book!Volume(R) /\ Book!Volume(R) \in Nat
      BY <1>2, VolumeGrows, UnitsFinite
    <2>2. QED
      BY <1>1, <1>3, <2>1 DEF Book!Traded
  <1>7. Traders(B, o) = {e}
    BY <1>1, <1>2, <1>4, <1>5 DEF Traders
  <1>8. /\ Book!FillOf(B, o) = Book!Fill(o, e.price, o.qty, TRUE)
        /\ Book!BookAfter(B, t, o) = Kept(B, o)
    <2>1. e \in Traders(B, o) /\ \A f \in Traders(B, o) \ {e} : Book!ServedBefore(f, e)
      BY <1>7
    <2>2. o.qty \in Nat \ {0} /\ (o.kind = "market" \/ o.qty = o.qty)
      BY <1>1
    <2>3. QED
      BY <1>6, <2>1, <2>2, Trades
  <1>9. ASSUME NEW f \in B \ {e} PROVE Left(B, o, f) = f /\ T(f) < f.rem
    <2>1. f = Book!Entry(f, f.seq, f.rem) /\ f.rem \in Nat \ {0}
      BY DEF Sound, IsEntry
    <2>2. f.rem - T(f) = f.rem /\ T(f) < f.rem
      BY <1>5, <2>1
    <2>3. QED
      BY <2>1, <2>2 DEF Left
  <1>10. Left(B, o, e) = Book!Entry(e, e.seq, e.rem - o.qty)
    BY <1>4 DEF Left
  <1>11. Kept(B, o) = (B \ {e}) \cup (IF o.qty < e.rem THEN {Left(B, o, e)} ELSE {})
    <2> DEFINE K == {f \in B : T(f) < f.rem}
    <2>1. K = (B \ {e}) \cup (IF o.qty < e.rem THEN {e} ELSE {})
      BY <1>2, <1>4, <1>9
    <2>2. Kept(B, o) = {Left(B, o, f) : f \in K}
      BY DEF Kept
    <2> HIDE DEF K, T
    <2>3. QED
      BY <1>9, <2>1, <2>2
  <1>12. QED
    BY <1>8, <1>10, <1>11

\* A market order that reaches one entry and takes all of it.
LEMMA TakesOnly ==
    ASSUME NEW B, Sound(B), NEW o, Matched(o), o.kind = "market",
           NEW e, Book!Reach(B, o) = {e}, o.qty > e.rem, NEW t
    PROVE  /\ Book!FillOf(B, o) = Book!Fill(o, e.price, e.rem, TRUE)
           /\ Book!BookAfter(B, t, o) = B \ {e}
  <1> DEFINE T(f) == Book!Taken(B, o, f)
  <1>1. Proper(o) /\ o.qty \in Int
    BY DEF Matched, Proper
  <1>2. e \in B /\ ~Book!ServedBefore(e, e)
    BY <1>1, ReachSide
  <1>3. e.rem \in Nat \ {0} /\ Book!Volume({e}) = e.rem
    BY <1>2, VolumeOne DEF Sound, IsEntry
  <1>4. T(e) = e.rem
    <2>1. Ahead(B, o, e) = {}
      BY <1>2 DEF Ahead
    <2>2. o.qty - Book!Volume(Ahead(B, o, e)) = o.qty
      BY <1>1, <2>1, VolumeNone
    <2>3. T(e) = IF o.qty <= 0 THEN 0 ELSE IF o.qty < e.rem THEN o.qty ELSE e.rem
      BY <1>1, <1>2, <2>2, TakenIs
    <2> HIDE DEF T
    <2>4. QED
      BY <1>1, <1>3, <2>3
  <1>5. \A f \in B \ {e} : T(f) = 0
    BY <1>1, TakenIs
  <1>6. Book!Traded(B, o) = e.rem
    BY <1>1, <1>3 DEF Book!Traded
  <1>7. Traders(B, o) = {e}
    BY <1>2, <1>3, <1>4, <1>5 DEF Traders
  <1>8. /\ Book!FillOf(B, o) = Book!Fill(o, e.price, e.rem, TRUE)
        /\ Book!BookAfter(B, t, o) = Kept(B, o)
    BY <1>3, <1>6, <1>7, Trades
  <1>9. ASSUME NEW f \in B \ {e} PROVE Left(B, o, f) = f /\ T(f) < f.rem
    <2>1. f = Book!Entry(f, f.seq, f.rem) /\ f.rem \in Nat \ {0}
      BY DEF Sound, IsEntry
    <2>2. f.rem - T(f) = f.rem /\ T(f) < f.rem
      BY <1>5, <2>1
    <2>3. QED
      BY <2>1, <2>2 DEF Left
  <1>10. Kept(B, o) = B \ {e}
    <2> DEFINE K == {f \in B : T(f) < f.rem}
    <2>1. K = B \ {e}
      BY <1>2, <1>3, <1>4, <1>9
    <2>2. Kept(B, o) = {Left(B, o, f) : f \in K}
      BY DEF Kept
    <2> HIDE DEF K, T
    <2>3. QED
      BY <1>9, <2>1, <2>2
  <1>11. QED
    BY <1>8, <1>10

\* An order that rests, one that finds nothing and the two ends of a cancel.
LEMMA LimitRests ==
    ASSUME NEW B, Sound(B), NEW o, Matched(o), o.kind = "limit", Book!Reach(B, o) = {}, NEW t
    PROVE  /\ Book!FillOf(B, o) = Book!Fill(o, 0, 0, TRUE)
           /\ Book!BookAfter(B, t, o) = B \cup {Book!Entry(o, t, o.qty)}
  BY TakesNone DEF Book!Fill

LEMMA MarketMisses ==
    ASSUME NEW B, Sound(B), NEW o, Matched(o), o.kind = "market", Book!Reach(B, o) = {}, NEW t
    PROVE  Book!FillOf(B, o) = Book!Fill(o, 0, 0, FALSE) /\ Book!BookAfter(B, t, o) = B
  <1>1. /\ Book!FillOf(B, o) = Book!Fill(o, 0, 0, o.kind = "limit")
        /\ Book!BookAfter(B, t, o) =
             B \cup (IF o.kind = "limit" THEN {Book!Entry(o, t, o.qty)} ELSE {})
    BY TakesNone
  <1>2. o.kind # "limit"
    OBVIOUS
  <1>3. Book!Fill(o, 0, 0, o.kind = "limit") = Book!Fill(o, 0, 0, FALSE)
    BY <1>2 DEF Book!Fill
  <1>4. QED
    BY <1>1, <1>2, <1>3

LEMMA CancelHits ==
    ASSUME NEW o, o.kind = "cancel", NEW e, e.id = o.id, NEW t
    PROVE  Book!FillOf({e}, o) = Book!Fill(o, 0, 0, TRUE) /\ Book!BookAfter({e}, t, o) = {}
  <1>1. ~Book!Refused(o)
    BY DEF Book!Refused
  <1>2. (\E f \in {e} : f.id = o.id) = TRUE /\ {f \in {e} : f.id # o.id} = {}
    OBVIOUS
  <1>3. QED
    BY <1>1, <1>2 DEF Book!FillOf, Book!BookAfter

LEMMA CancelMisses ==
    ASSUME NEW o, o.kind = "cancel", NEW t
    PROVE  Book!FillOf({}, o) = Book!Fill(o, 0, 0, FALSE) /\ Book!BookAfter({}, t, o) = {}
  <1>1. ~Book!Refused(o)
    BY DEF Book!Refused
  <1>2. (\E f \in {} : f.id = o.id) = FALSE /\ {f \in {} : f.id # o.id} = {}
    OBVIOUS
  <1>3. QED
    BY <1>1, <1>2 DEF Book!FillOf, Book!BookAfter

-----------------------------------------------------------------------------
(* The scenarios of the gate *)

\* What is left of a limit order of a scenario.
Resting(n, side, p, t, q) == Book!Entry(Limit(n, side, p, q), t, q)

\* The book of an honest engine before each scenario, and after the last.
Before ==
    << {},
       {Resting(0, "buy", 10000, 1, 10)},
       {Resting(0, "buy", 10000, 1, 10), Resting(1, "sell", 10100, 2, 10)},
       {Resting(0, "buy", 10000, 1, 5), Resting(1, "sell", 10100, 2, 10)},
       {Resting(0, "buy", 10000, 1, 5)},
       {}, {}, {}, {},
       {Resting(7, "buy", 10050, 1, 5)},
       {Resting(7, "buy", 10050, 1, 5), Resting(8, "buy", 10050, 2, 3)},
       {Resting(7, "buy", 10050, 1, 5), Resting(8, "buy", 10050, 2, 3),
        Resting(9, "buy", 10000, 3, 10)},
       {Resting(8, "buy", 10050, 2, 3), Resting(9, "buy", 10000, 3, 10)},
       {Resting(9, "buy", 10000, 3, 8)},
       {},
       {Resting(13, "sell", 10100, 1, 10)},
       {Resting(13, "sell", 10100, 1, 10)},
       {Resting(13, "sell", 10100, 1, 7)},
       {}, {} >>

\* The number the engine gives to the next order.
NextSeq(B) == (CHOOSE t \in {e.seq : e \in B} \cup {0} : \A e \in B : e.seq <= t) + 1

LEMMA NextSeqIs ==
    ASSUME NEW B, NEW m \in Nat, \A e \in B : e.seq \in Nat /\ e.seq <= m,
           m = 0 \/ \E e \in B : e.seq = m
    PROVE  NextSeq(B) = m + 1
  <1> DEFINE T == {e.seq : e \in B} \cup {0}
             P(t) == \A e \in B : e.seq <= t
  <1>1. m \in T /\ P(m)
    OBVIOUS
  <1>2. ASSUME NEW t \in T, P(t) PROVE t = m
    <2>1. t \in Nat /\ t <= m /\ m <= t
      BY <1>2
    <2>2. QED
      BY <2>1
  <1> HIDE DEF T, P
  <1>3. (CHOOSE t \in T : P(t)) = m
    BY <1>1, <1>2
  <1>4. QED
    BY <1>3 DEF NextSeq, T, P

LEMMA RestingLess ==
    ASSUME NEW n, NEW side, NEW p, NEW t, NEW q, NEW r
    PROVE  /\ Book!Entry(Resting(n, side, p, t, q), t, r) = Resting(n, side, p, t, r)
           /\ Book!Entry(Limit(n, side, p, q), t, r) = Resting(n, side, p, t, r)
  BY DEF Resting, Limit, Book!Entry

LEMMA CancelFields == \A n : Cancel(n).id = <<"val", n>> /\ Cancel(n).kind = "cancel"
  BY DEF Cancel

LEMMA SoundNone == Sound({})
  BY FS_EmptySet DEF Sound

LEMMA SoundOne == ASSUME NEW a, IsEntry(a) PROVE Sound({a})
  BY FS_Singleton DEF Sound

LEMMA SoundTwo ==
    ASSUME NEW a, NEW b, IsEntry(a), IsEntry(b), a.seq # b.seq
    PROVE  Sound({a, b})
  <1>1. IsFiniteSet({a} \cup {b}) /\ {a} \cup {b} = {a, b}
    BY FS_Singleton, FS_AddElement
  <1>2. QED
    BY <1>1 DEF Sound

LEMMA SoundThree ==
    ASSUME NEW a, NEW b, NEW c, IsEntry(a), IsEntry(b), IsEntry(c),
           a.seq # b.seq, a.seq # c.seq, b.seq # c.seq
    PROVE  Sound({a, b, c})
  <1>1. IsFiniteSet({a, b})
    BY SoundTwo DEF Sound
  <1>2. IsFiniteSet({a, b} \cup {c}) /\ {a, b} \cup {c} = {a, b, c}
    BY <1>1, FS_AddElement
  <1>3. QED
    BY <1>2 DEF Sound

\* The order of w is answered as w expects, and the book goes from B to A.
Plays(B, w, A) ==
    Book!FillOf(B, w.order) = w.fill /\ Book!BookAfter(B, NextSeq(B), w.order) = A

\* The book goes from the one before scenario k to the one before scenario n.
PlaysAt(k, i, n) == Plays(Before[k], Scenarios[k][i], Before[n])

\* The order of w rests behind the book.
JoinsBook(B, w, A) ==
    /\ Matched(w.order) /\ w.order.kind = "limit" /\ Book!Reach(B, w.order) = {}
    /\ w.fill = Book!Fill(w.order, 0, 0, TRUE)
    /\ A = B \cup {Book!Entry(w.order, NextSeq(B), w.order.qty)}

LEMMA PlayRests ==
    ASSUME NEW B, Sound(B), NEW w, NEW A, JoinsBook(B, w, A)
    PROVE  Plays(B, w, A)
  <1> DEFINE o == w.order
             t == NextSeq(B)
  <1> HIDE DEF o, t
  <1>1. Sound(B) /\ Matched(o) /\ o.kind = "limit" /\ Book!Reach(B, o) = {}
    BY DEF o, JoinsBook
  <1>2. /\ Book!FillOf(B, o) = Book!Fill(o, 0, 0, TRUE)
        /\ Book!BookAfter(B, t, o) = B \cup {Book!Entry(o, t, o.qty)}
    BY ONLY <1>1, LimitRests
  <1>3. QED
    BY <1>2, Zenon DEF Plays, JoinsBook, o, t

LEMMA PlayMisses ==
    ASSUME NEW B, Sound(B), NEW w, Matched(w.order), w.order.kind = "market",
           Book!Reach(B, w.order) = {}, w.fill = Book!Fill(w.order, 0, 0, FALSE)
    PROVE  Plays(B, w, B)
  BY MarketMisses, Zenon DEF Plays

\* The first entry the order of w reaches, e, can fill it.
FilledByFirst(B, w, e, A) ==
    /\ Matched(w.order) /\ e \in Book!Reach(B, w.order) /\ w.order.qty <= e.rem
    /\ \A f \in Book!Reach(B, w.order) \ {e} : Book!ServedBefore(e, f)
    /\ w.fill = Book!Fill(w.order, e.price, w.order.qty, TRUE)
    /\ A = (B \ {e}) \cup (IF w.order.qty < e.rem
                           THEN {Book!Entry(e, e.seq, e.rem - w.order.qty)} ELSE {})

LEMMA PlayFirst ==
    ASSUME NEW B, Sound(B), NEW w, NEW e, NEW A, FilledByFirst(B, w, e, A)
    PROVE  Plays(B, w, A)
  BY TakesFirst, Zenon DEF Plays, FilledByFirst

LEMMA PlayOnly ==
    ASSUME NEW B, Sound(B), NEW w, Matched(w.order), w.order.kind = "market",
           NEW e, Book!Reach(B, w.order) = {e}, w.order.qty > e.rem,
           w.fill = Book!Fill(w.order, e.price, e.rem, TRUE)
    PROVE  Plays(B, w, B \ {e})
  <1> DEFINE o == w.order
             t == NextSeq(B)
  <1> HIDE DEF o, t
  <1>1. /\ Book!FillOf(B, o) = Book!Fill(o, e.price, e.rem, TRUE)
        /\ Book!BookAfter(B, t, o) = B \ {e}
    BY TakesOnly DEF o
  <1>2. QED
    BY <1>1, Zenon DEF Plays, o, t

\* The order of w takes all of entry d and a part of the next, e.
SpansTwo(B, w, d, e, A) ==
    /\ Matched(w.order) /\ Book!Reach(B, w.order) = {d, e}
    /\ Book!ServedBefore(d, e) /\ \A f \in B : f = d \/ f = e
    /\ d.rem < w.order.qty /\ w.order.qty < d.rem + e.rem
    /\ w.fill = Book!Fill(w.order, e.price, w.order.qty, TRUE)
    /\ A = {Book!Entry(e, e.seq, d.rem + e.rem - w.order.qty)}

LEMMA PlayTwo ==
    ASSUME NEW B, Sound(B), NEW w, NEW d, NEW e, NEW A, SpansTwo(B, w, d, e, A)
    PROVE  Plays(B, w, A)
  <1> DEFINE o == w.order
             t == NextSeq(B)
             r == d.rem + e.rem - o.qty
             T(f) == Book!Taken(B, o, f)
  <1>0. /\ Book!Reach(B, o) = {d, e} /\ Book!ServedBefore(d, e) /\ \A f \in B : f = d \/ f = e
        /\ d.rem < o.qty /\ o.qty < d.rem + e.rem
        /\ w.fill = Book!Fill(o, e.price, o.qty, TRUE) /\ A = {Book!Entry(e, e.seq, r)}
        /\ Matched(o)
    BY DEF SpansTwo
  <1> HIDE DEF o, t
  <1>1. Proper(o) /\ o.qty \in Int
    BY <1>0 DEF Matched, Proper
  <1>2. /\ ~Book!ServedBefore(e, e) /\ ~Book!ServedBefore(d, d) /\ e.side = d.side
        /\ d \in B /\ e \in B
    BY <1>0, <1>1, ReachSide
  <1>3. ~Book!ServedBefore(e, d) /\ d # e
    BY <1>0, <1>2, ServedOnce
  <1>4. d.rem \in Nat \ {0} /\ e.rem \in Nat \ {0}
    BY <1>2 DEF Sound, IsEntry
  <1>5. T(d) = d.rem
    <2>1. Ahead(B, o, d) = {}
      BY <1>0, <1>2, <1>3 DEF Ahead
    <2>2. o.qty - Book!Volume(Ahead(B, o, d)) = o.qty
      <3>1. Book!Volume(Ahead(B, o, d)) = 0
        BY <2>1, VolumeNone, Zenon
      <3>2. QED
        BY <1>1, <3>1
    <2>3. T(d) = IF o.qty <= 0 THEN 0 ELSE IF o.qty < d.rem THEN o.qty ELSE d.rem
      BY <1>0, <1>1, <1>2, <2>2, TakenIs
    <2> HIDE DEF T
    <2>4. QED
      BY <1>0, <1>1, <1>4, <2>3
  <1>6. T(e) = o.qty - d.rem
    <2>1. Ahead(B, o, e) = {d}
      BY <1>0, <1>2, <1>3 DEF Ahead
    <2>2. Book!Volume(Ahead(B, o, e)) = d.rem
      BY <1>2, <2>1, VolumeOne
    <2>3. T(e) = IF o.qty - d.rem <= 0 THEN 0
                 ELSE IF o.qty - d.rem < e.rem THEN o.qty - d.rem ELSE e.rem
      BY <1>0, <1>1, <1>2, <2>2, TakenIs
    <2> HIDE DEF T
    <2>4. QED
      BY <1>0, <1>1, <1>4, <2>3
  <1>7. Book!Traded(B, o) = o.qty
    <2>1. {d} \cup {e} = {d, e} /\ {d} \subseteq B /\ e \in B \ {d}
      BY <1>2, <1>3
    <2>2. Book!Volume({d} \cup {e}) = Book!Volume({d}) + e.rem
      BY <2>1, VolumeAdds
    <2>3. Book!Volume({d, e}) = d.rem + e.rem
      BY <1>2, <2>1, <2>2, VolumeOne
    <2>4. QED
      BY <1>0, <1>1, <1>4, <2>3 DEF Book!Traded
  <1>8. T(d) > 0 /\ T(e) > 0
    <2> HIDE DEF T
    <2>1. QED
      BY <1>0, <1>1, <1>4, <1>5, <1>6
  <1>9. Traders(B, o) = {d, e}
    BY <1>0, <1>2, <1>8 DEF Traders
  <1>10. o.qty \in Nat \ {0}
    BY <1>0, <1>1, <1>4
  <1>11. /\ Book!FillOf(B, o) = Book!Fill(o, e.price, o.qty, TRUE)
         /\ Book!BookAfter(B, t, o) = Kept(B, o)
    <2>1. e \in Traders(B, o) /\ \A f \in Traders(B, o) \ {e} : Book!ServedBefore(f, e)
      BY <1>0, <1>9
    <2>2. Matched(o) /\ (o.kind = "market" \/ o.qty = o.qty)
      BY <1>0
    <2>3. QED
      BY <1>7, <1>10, <2>1, <2>2, Trades
  <1>12. ~(T(d) < d.rem) /\ T(e) < e.rem /\ e.rem - T(e) = r
    <2> HIDE DEF T
    <2>1. QED
      BY <1>0, <1>1, <1>4, <1>5, <1>6
  <1>13. Kept(B, o) = {Book!Entry(e, e.seq, e.rem - T(e))}
    BY <1>0, <1>2, <1>12 DEF Kept, Left
  <1>14. Book!BookAfter(B, t, o) = A
    BY <1>0, <1>11, <1>12, <1>13
  <1>15. QED
    BY <1>0, <1>11, <1>14, Zenon DEF Plays, o, t

LEMMA PlayCancels ==
    ASSUME NEW e, NEW w, w.order.kind = "cancel", e.id = w.order.id,
           w.fill = Book!Fill(w.order, 0, 0, TRUE)
    PROVE  Plays({e}, w, {})
  BY CancelHits, Zenon DEF Plays

LEMMA PlayUnknown ==
    ASSUME NEW w, w.order.kind = "cancel", w.fill = Book!Fill(w.order, 0, 0, FALSE)
    PROVE  Plays({}, w, {})
  BY CancelMisses, Zenon DEF Plays

LEMMA PlayRefused ==
    ASSUME NEW B, NEW w, Book!Refused(w.order), w.fill = Book!Fill(w.order, 0, 0, FALSE)
    PROVE  Plays(B, w, B)
  BY Zenon DEF Plays, Book!FillOf, Book!BookAfter

\* Two resting orders, a trade with each, and a cancel.
LEMMA PlaysBasic == PlaysAt(2, 1, 3) /\ PlaysAt(3, 1, 4) /\ PlaysAt(4, 1, 5) /\ PlaysAt(5, 1, 6)
  <1>1. PICK a, b, c : /\ a = Resting(0, "buy", 10000, 1, 10)
                       /\ b = Resting(0, "buy", 10000, 1, 5)
                       /\ c = Resting(1, "sell", 10100, 2, 10)
    OBVIOUS
  <1>2. /\ a.id = <<"val", 0>> /\ a.side = "buy" /\ a.price = 10000 /\ a.seq = 1 /\ a.rem = 10
        /\ IsEntry(a)
    BY <1>1 DEF Resting, Limit, Book!Entry, IsEntry
  <1>3. /\ b.id = <<"val", 0>> /\ b.side = "buy" /\ b.price = 10000 /\ b.seq = 1 /\ b.rem = 5
        /\ IsEntry(b)
    BY <1>1 DEF Resting, Limit, Book!Entry, IsEntry
  <1>4. /\ c.id = <<"val", 1>> /\ c.side = "sell" /\ c.price = 10100 /\ c.seq = 2 /\ c.rem = 10
        /\ IsEntry(c)
    BY <1>1 DEF Resting, Limit, Book!Entry, IsEntry
  <1>5. /\ Before[2] = {a} /\ Before[3] = {a, c} /\ Before[4] = {b, c} /\ Before[5] = {b}
        /\ Before[6] = {}
    BY <1>1 DEF Before
  <1>6. PICK B2, B3, B4 : B2 = {a} /\ B3 = {a, c} /\ B4 = {b, c}
    OBVIOUS
  <1>7. Sound(B2) /\ Sound(B3) /\ Sound(B4)
    BY ONLY <1>2, <1>3, <1>4, <1>6, SoundOne, SoundTwo
  <1>8. PlaysAt(2, 1, 3)
    <2>1. PICK o : o = Limit(1, "sell", 10100, 10)
      OBVIOUS
    <2>2. PICK w : w = Scenarios[2][1]
      OBVIOUS
    <2>3. w = Want(o, 0, 0, TRUE)
      BY <2>1, <2>2 DEF Scenarios
    <2>4. w.order = o /\ w.fill = Book!Fill(o, 0, 0, TRUE)
      BY ONLY <2>3 DEF Want
    <2>5. Matched(o) /\ o.kind = "limit" /\ o.side = "sell" /\ o.price = 10100 /\ o.qty = 10
      BY <2>1 DEF Limit, Matched, Proper, Book!Refused
    <2>6. Book!Reach(B2, o) = {}
      BY ONLY <1>2, <1>6, <2>5 DEF Book!Reach
    <2>7. NextSeq(B2) = 1 + 1
      BY ONLY <1>2, <1>6, NextSeqIs
    <2>8. Book!Entry(o, 2, 10) = c
      BY ONLY <1>1, <2>1, RestingLess
    <2>9. B3 = B2 \cup {Book!Entry(o, NextSeq(B2), o.qty)}
      BY ONLY <1>6, <2>5, <2>7, <2>8
    <2>10. Plays(B2, w, B3)
      <3>1. JoinsBook(B2, w, B3)
        BY ONLY <2>4, <2>5, <2>6, <2>9 DEF JoinsBook
      <3>2. QED
        BY ONLY <1>7, <3>1, PlayRests
    <2>11. QED
      BY ONLY <1>5, <1>6, <2>2, <2>10 DEF PlaysAt
  <1>9. PlaysAt(3, 1, 4)
    <2>1. PICK o : o = Limit(2, "sell", 10000, 5)
      OBVIOUS
    <2>2. PICK w : w = Scenarios[3][1]
      OBVIOUS
    <2>3. w = Want(o, 10000, 5, TRUE)
      BY <2>1, <2>2 DEF Scenarios
    <2>4. Matched(o) /\ o.kind = "limit" /\ o.side = "sell" /\ o.price = 10000 /\ o.qty = 5
      BY <2>1 DEF Limit, Matched, Proper, Book!Refused
    <2>5. w.order = o /\ w.fill = Book!Fill(o, a.price, o.qty, TRUE)
      BY ONLY <1>2, <2>3, <2>4 DEF Want, Book!Fill
    <2>6. Book!Reach(B3, o) = {a}
      BY ONLY <1>2, <1>4, <1>6, <2>4 DEF Book!Reach
    <2>7. Book!Entry(a, a.seq, 5) = b
      BY ONLY <1>1, <1>2, RestingLess
    <2>8. a # c /\ o.qty < a.rem /\ a.rem - o.qty = 5 /\ o.qty <= a.rem
      BY ONLY <1>2, <1>4, <2>4
    <2>9. B4 = (B3 \ {a}) \cup (IF o.qty < a.rem
                        THEN {Book!Entry(a, a.seq, a.rem - o.qty)} ELSE {})
      BY ONLY <1>6, <2>7, <2>8
    <2>10. a \in Book!Reach(B3, o) /\ \A f \in Book!Reach(B3, o) \ {a} : Book!ServedBefore(a, f)
      BY ONLY <2>6
    <2>11. Plays(B3, w, B4)
      <3>1. Matched(o) /\ o.qty <= a.rem
        BY ONLY <2>4, <2>8
      <3>2. FilledByFirst(B3, w, a, B4)
        BY ONLY <2>5, <2>9, <2>10, <3>1, Zenon DEF FilledByFirst
      <3>3. QED
        BY ONLY <1>7, <3>2, PlayFirst
    <2>12. QED
      BY ONLY <1>5, <1>6, <2>2, <2>11 DEF PlaysAt
  <1>10. PlaysAt(4, 1, 5)
    <2>1. PICK o : o = Market(3, "buy", 20)
      OBVIOUS
    <2>2. PICK w : w = Scenarios[4][1]
      OBVIOUS
    <2>3. w = Want(o, 10100, 10, TRUE)
      BY <2>1, <2>2 DEF Scenarios
    <2>4. Matched(o) /\ o.kind = "market" /\ o.side = "buy" /\ o.qty = 20
      BY <2>1 DEF Market, Matched, Proper, Book!Refused
    <2>5. w.order = o /\ w.fill = Book!Fill(o, c.price, c.rem, TRUE)
      BY ONLY <1>4, <2>3 DEF Want, Book!Fill
    <2>6. Book!Reach(B4, o) = {c} /\ o.qty > c.rem
      BY ONLY <1>3, <1>4, <1>6, <2>4 DEF Book!Reach
    <2>7. Plays(B4, w, B4 \ {c})
      BY ONLY <1>7, <2>4, <2>5, <2>6, PlayOnly
    <2>8. B4 \ {c} = {b}
      BY ONLY <1>3, <1>4, <1>6
    <2>9. QED
      BY ONLY <1>5, <1>6, <2>2, <2>7, <2>8 DEF PlaysAt
  <1>11. PlaysAt(5, 1, 6)
    <2>1. PICK w : w = Scenarios[5][1]
      OBVIOUS
    <2>2. w = Want(Cancel(0), 0, 0, TRUE)
      BY <2>1 DEF Scenarios
    <2>3. w.order = Cancel(0) /\ w.fill = Book!Fill(w.order, 0, 0, TRUE)
      BY ONLY <2>2 DEF Want
    <2>4. w.order.kind = "cancel" /\ b.id = w.order.id
      BY ONLY <1>3, <2>3, CancelFields
    <2>5. Plays({b}, w, {})
      BY ONLY <2>3, <2>4, PlayCancels
    <2>6. QED
      BY ONLY <1>5, <2>1, <2>5 DEF PlaysAt
  <1>12. QED
    BY ONLY <1>8, <1>9, <1>10, <1>11

\* The first order of an empty book.
LEMMA PlayEmpty ==
    ASSUME NEW n, NEW side \in {"buy", "sell"}, NEW p \in Nat \ {0}, NEW q \in Nat \ {0},
           NEW w, w = Want(Limit(n, side, p, q), 0, 0, TRUE)
    PROVE  Plays({}, w, {Resting(n, side, p, 1, q)})
  <1>1. PICK o : o = Limit(n, side, p, q)
    OBVIOUS
  <1>2. w.order = o /\ w.fill = Book!Fill(o, 0, 0, TRUE)
    BY <1>1 DEF Want
  <1>3. Matched(o) /\ o.kind = "limit" /\ o.qty = q
    BY <1>1 DEF Limit, Matched, Proper, Book!Refused
  <1>4. NextSeq({}) = 1
    <2>1. {e.seq : e \in {}} \cup {0} = {0}
      OBVIOUS
    <2>2. (CHOOSE t \in {0} : \A e \in {} : e.seq <= t) = 0
      OBVIOUS
    <2>3. QED
      BY <2>1, <2>2 DEF NextSeq
  <1>5. PICK B, A : B = {} /\ A = {Resting(n, side, p, 1, q)}
    OBVIOUS
  <1>6. Book!Reach(B, o) = {} /\ Sound(B)
    BY <1>5, SoundNone DEF Book!Reach
  <1>7. A = B \cup {Book!Entry(o, NextSeq(B), o.qty)}
    BY <1>1, <1>3, <1>4, <1>5, RestingLess
  <1>8. JoinsBook(B, w, A)
    BY ONLY <1>2, <1>3, <1>6, <1>7 DEF JoinsBook
  <1>9. QED
    BY <1>5, <1>6, <1>8, PlayRests

\* Cancels and an order without a quantity on an empty book.
LEMMA PlaysNothing ==
    /\ PlaysAt(1, 1, 2) /\ PlaysAt(6, 1, 7) /\ PlaysAt(7, 1, 8) /\ PlaysAt(8, 1, 9)
    /\ PlaysAt(19, 1, 19) /\ PlaysAt(19, 2, 19) /\ PlaysAt(19, 3, 20)
  <1>1. /\ Before[1] = {} /\ Before[6] = {} /\ Before[7] = {} /\ Before[8] = {}
        /\ Before[9] = {} /\ Before[19] = {} /\ Before[20] = {}
        /\ Before[2] = {Resting(0, "buy", 10000, 1, 10)}
    BY DEF Before
  <1>2. ASSUME NEW n, NEW w, w = Want(Cancel(n), 0, 0, FALSE) PROVE Plays({}, w, {})
    <2>1. w.order = Cancel(n) /\ w.fill = Book!Fill(w.order, 0, 0, FALSE)
      BY ONLY <1>2 DEF Want
    <2>2. w.order.kind = "cancel"
      BY ONLY <2>1, CancelFields
    <2>3. QED
      BY ONLY <2>1, <2>2, PlayUnknown
  <1>3. PlaysAt(1, 1, 2)
    <2>1. PICK w : w = Scenarios[1][1]
      OBVIOUS
    <2>2. w = Want(Limit(0, "buy", 10000, 10), 0, 0, TRUE)
      BY <2>1 DEF Scenarios
    <2>3. PICK n, side, p, q : n = 0 /\ side = "buy" /\ p = 10000 /\ q = 10
      OBVIOUS
    <2>4. /\ side \in {"buy", "sell"} /\ p \in Nat \ {0} /\ q \in Nat \ {0}
          /\ w = Want(Limit(n, side, p, q), 0, 0, TRUE)
          /\ Before[1] = {} /\ Before[2] = {Resting(n, side, p, 1, q)}
      BY ONLY <1>1, <2>2, <2>3
    <2>5. Plays({}, w, {Resting(n, side, p, 1, q)})
      BY ONLY <2>4, PlayEmpty
    <2>6. QED
      BY ONLY <2>1, <2>4, <2>5 DEF PlaysAt
  <1>4. PlaysAt(6, 1, 7)
    <2>1. PICK w : w = Scenarios[6][1]
      OBVIOUS
    <2>2. w = Want(Cancel(100), 0, 0, FALSE)
      BY <2>1 DEF Scenarios
    <2>3. Plays({}, w, {})
      BY ONLY <1>2, <2>2
    <2>4. QED
      BY ONLY <1>1, <2>1, <2>3 DEF PlaysAt
  <1>5. PlaysAt(7, 1, 8)
    <2>1. PICK w : w = Scenarios[7][1]
      OBVIOUS
    <2>2. w = Want(Cancel(0), 0, 0, FALSE)
      BY <2>1 DEF Scenarios
    <2>3. Plays({}, w, {})
      BY ONLY <1>2, <2>2
    <2>4. QED
      BY ONLY <1>1, <2>1, <2>3 DEF PlaysAt
  <1>6. PlaysAt(19, 1, 19)
    <2>1. PICK w : w = Scenarios[19][1]
      OBVIOUS
    <2>2. w = Want(Cancel(101), 0, 0, FALSE)
      BY <2>1 DEF Scenarios
    <2>3. Plays({}, w, {})
      BY ONLY <1>2, <2>2
    <2>4. QED
      BY ONLY <1>1, <2>1, <2>3 DEF PlaysAt
  <1>7. PlaysAt(19, 2, 19)
    <2>1. PICK w : w = Scenarios[19][2]
      OBVIOUS
    <2>2. w = Want(Cancel(102), 0, 0, FALSE)
      BY <2>1 DEF Scenarios
    <2>3. Plays({}, w, {})
      BY ONLY <1>2, <2>2
    <2>4. QED
      BY ONLY <1>1, <2>1, <2>3 DEF PlaysAt
  <1>8. PlaysAt(19, 3, 20)
    <2>1. PICK w : w = Scenarios[19][3]
      OBVIOUS
    <2>2. w = Want(Cancel(103), 0, 0, FALSE)
      BY <2>1 DEF Scenarios
    <2>3. Plays({}, w, {})
      BY ONLY <1>2, <2>2
    <2>4. QED
      BY ONLY <1>1, <2>1, <2>3 DEF PlaysAt
  <1>9. PlaysAt(8, 1, 9)
    <2>1. PICK w : w = Scenarios[8][1]
      OBVIOUS
    <2>2. w = Want(Limit(6, "buy", 10000, 0), 0, 0, FALSE)
      BY <2>1 DEF Scenarios
    <2>3. w.order = Limit(6, "buy", 10000, 0) /\ w.fill = Book!Fill(w.order, 0, 0, FALSE)
      BY ONLY <2>2 DEF Want
    <2>4. Book!Refused(w.order)
      BY ONLY <2>3 DEF Book!Refused, Limit
    <2>5. Plays({}, w, {})
      <3>1. w.fill = Book!Fill(w.order, 0, 0, FALSE)
        BY <2>3
      <3>2. QED
        BY ONLY <2>4, <3>1, PlayRefused
    <2>6. QED
      BY ONLY <1>1, <2>1, <2>5 DEF PlaysAt
  <1>10. QED
    BY ONLY <1>3, <1>4, <1>5, <1>6, <1>7, <1>8, <1>9

\* Priority by time and by price, and a trade over two levels.
LEMMA PlaysPriority ==
    /\ PlaysAt(9, 1, 10) /\ PlaysAt(10, 1, 11) /\ PlaysAt(11, 1, 12)
    /\ PlaysAt(12, 1, 13) /\ PlaysAt(13, 1, 14) /\ PlaysAt(14, 1, 15)
  <1>1. PICK a, b, c, d : /\ a = Resting(7, "buy", 10050, 1, 5)
                          /\ b = Resting(8, "buy", 10050, 2, 3)
                          /\ c = Resting(9, "buy", 10000, 3, 10)
                          /\ d = Resting(9, "buy", 10000, 3, 8)
    OBVIOUS
  <1>2. /\ a.id = <<"val", 7>> /\ a.side = "buy" /\ a.price = 10050 /\ a.seq = 1 /\ a.rem = 5
        /\ IsEntry(a)
    BY <1>1 DEF Resting, Limit, Book!Entry, IsEntry
  <1>3. /\ b.id = <<"val", 8>> /\ b.side = "buy" /\ b.price = 10050 /\ b.seq = 2 /\ b.rem = 3
        /\ IsEntry(b)
    BY <1>1 DEF Resting, Limit, Book!Entry, IsEntry
  <1>4. /\ c.id = <<"val", 9>> /\ c.side = "buy" /\ c.price = 10000 /\ c.seq = 3 /\ c.rem = 10
        /\ IsEntry(c)
    BY <1>1 DEF Resting, Limit, Book!Entry, IsEntry
  <1>5. /\ d.id = <<"val", 9>> /\ d.side = "buy" /\ d.price = 10000 /\ d.seq = 3 /\ d.rem = 8
        /\ IsEntry(d)
    BY <1>1 DEF Resting, Limit, Book!Entry, IsEntry
  <1>6. /\ Before[9] = {} /\ Before[10] = {a} /\ Before[11] = {a, b} /\ Before[12] = {a, b, c}
        /\ Before[13] = {b, c} /\ Before[14] = {d} /\ Before[15] = {}
    BY <1>1 DEF Before
  <1>7. PICK B10, B11, B12, B13, B14 :
            B10 = {a} /\ B11 = {a, b} /\ B12 = {a, b, c} /\ B13 = {b, c} /\ B14 = {d}
    OBVIOUS
  <1>8. Sound(B10) /\ Sound(B11) /\ Sound(B12) /\ Sound(B13)
    <2>1. a.seq # b.seq /\ a.seq # c.seq /\ b.seq # c.seq /\ IsEntry(a) /\ IsEntry(b) /\ IsEntry(c)
      BY <1>2, <1>3, <1>4
    <2>2. QED
      BY ONLY <1>7, <2>1, SoundOne, SoundTwo, SoundThree
  <1>9. PlaysAt(9, 1, 10)
    <2>1. PICK w : w = Scenarios[9][1]
      OBVIOUS
    <2>2. w = Want(Limit(7, "buy", 10050, 5), 0, 0, TRUE)
      BY <2>1 DEF Scenarios
    <2>3. PICK n, side, p, q : n = 7 /\ side = "buy" /\ p = 10050 /\ q = 5
      OBVIOUS
    <2>4. /\ side \in {"buy", "sell"} /\ p \in Nat \ {0} /\ q \in Nat \ {0}
          /\ w = Want(Limit(n, side, p, q), 0, 0, TRUE)
          /\ Before[9] = {} /\ Before[10] = {Resting(n, side, p, 1, q)}
      BY ONLY <1>1, <1>6, <2>2, <2>3
    <2>5. Plays({}, w, {Resting(n, side, p, 1, q)})
      BY ONLY <2>4, PlayEmpty
    <2>6. QED
      BY ONLY <2>1, <2>4, <2>5 DEF PlaysAt
  <1>10. PlaysAt(10, 1, 11)
    <2>1. PICK o : o = Limit(8, "buy", 10050, 3)
      OBVIOUS
    <2>2. PICK w : w = Scenarios[10][1]
      OBVIOUS
    <2>3. w = Want(o, 0, 0, TRUE)
      BY <2>1, <2>2 DEF Scenarios
    <2>4. w.order = o /\ w.fill = Book!Fill(o, 0, 0, TRUE)
      BY ONLY <2>3 DEF Want
    <2>5. Matched(o) /\ o.kind = "limit" /\ o.side = "buy" /\ o.price = 10050 /\ o.qty = 3
      BY <2>1 DEF Limit, Matched, Proper, Book!Refused
    <2>6. Book!Reach(B10, o) = {}
      BY ONLY <1>2, <1>7, <2>5 DEF Book!Reach
    <2>7. NextSeq(B10) = 1 + 1
      BY ONLY <1>2, <1>7, NextSeqIs
    <2>8. Book!Entry(o, 2, 3) = b
      BY ONLY <1>1, <2>1, RestingLess
    <2>9. B11 = B10 \cup {Book!Entry(o, NextSeq(B10), o.qty)}
      BY ONLY <1>7, <2>5, <2>7, <2>8
    <2>10. Plays(B10, w, B11)
      <3>1. JoinsBook(B10, w, B11)
        BY ONLY <2>4, <2>5, <2>6, <2>9 DEF JoinsBook
      <3>2. QED
        BY ONLY <1>8, <3>1, PlayRests
    <2>11. QED
      BY ONLY <1>6, <1>7, <2>2, <2>10 DEF PlaysAt
  <1>11. PlaysAt(11, 1, 12)
    <2>1. PICK o : o = Limit(9, "buy", 10000, 10)
      OBVIOUS
    <2>2. PICK w : w = Scenarios[11][1]
      OBVIOUS
    <2>3. w = Want(o, 0, 0, TRUE)
      BY <2>1, <2>2 DEF Scenarios
    <2>4. w.order = o /\ w.fill = Book!Fill(o, 0, 0, TRUE)
      BY ONLY <2>3 DEF Want
    <2>5. Matched(o) /\ o.kind = "limit" /\ o.side = "buy" /\ o.price = 10000 /\ o.qty = 10
      BY <2>1 DEF Limit, Matched, Proper, Book!Refused
    <2>6. Book!Reach(B11, o) = {}
      BY ONLY <1>2, <1>3, <1>7, <2>5 DEF Book!Reach
    <2>7. NextSeq(B11) = 2 + 1
      BY ONLY <1>2, <1>3, <1>7, NextSeqIs
    <2>8. Book!Entry(o, 3, 10) = c
      BY ONLY <1>1, <2>1, RestingLess
    <2>9. B12 = B11 \cup {Book!Entry(o, NextSeq(B11), o.qty)}
      BY ONLY <1>7, <2>5, <2>7, <2>8
    <2>10. Plays(B11, w, B12)
      <3>1. JoinsBook(B11, w, B12)
        BY ONLY <2>4, <2>5, <2>6, <2>9 DEF JoinsBook
      <3>2. QED
        BY ONLY <1>8, <3>1, PlayRests
    <2>11. QED
      BY ONLY <1>6, <1>7, <2>2, <2>10 DEF PlaysAt
  <1>12. PlaysAt(12, 1, 13)
    <2>1. PICK o : o = Limit(10, "sell", 10000, 5)
      OBVIOUS
    <2>2. PICK w : w = Scenarios[12][1]
      OBVIOUS
    <2>3. w = Want(o, 10050, 5, TRUE)
      BY <2>1, <2>2 DEF Scenarios
    <2>4. Matched(o) /\ o.kind = "limit" /\ o.side = "sell" /\ o.price = 10000 /\ o.qty = 5
      BY <2>1 DEF Limit, Matched, Proper, Book!Refused
    <2>5. w.order = o /\ w.fill = Book!Fill(o, a.price, o.qty, TRUE)
      BY ONLY <1>2, <2>3, <2>4 DEF Want, Book!Fill
    <2>6. a \in Book!Reach(B12, o) /\ Book!Reach(B12, o) \subseteq {a, b, c}
      BY ONLY <1>2, <1>7, <2>4 DEF Book!Reach
    <2>7. Book!ServedBefore(a, b) /\ Book!ServedBefore(a, c)
      BY ONLY <1>2, <1>3, <1>4 DEF Book!ServedBefore
    <2>8. a # b /\ a # c /\ o.qty <= a.rem /\ ~(o.qty < a.rem)
      BY ONLY <1>2, <1>3, <1>4, <2>4
    <2>9. B13 = (B12 \ {a}) \cup (IF o.qty < a.rem
                        THEN {Book!Entry(a, a.seq, a.rem - o.qty)} ELSE {})
      BY ONLY <1>7, <2>8
    <2>10. \A f \in Book!Reach(B12, o) \ {a} : Book!ServedBefore(a, f)
      BY ONLY <2>6, <2>7
    <2>11. Matched(o) /\ o.qty <= a.rem /\ a \in Book!Reach(B12, o)
      BY ONLY <2>4, <2>6, <2>8
    <2>12. FilledByFirst(B12, w, a, B13)
      BY ONLY <2>5, <2>9, <2>10, <2>11, Zenon DEF FilledByFirst
    <2>13. Plays(B12, w, B13)
      BY ONLY <1>8, <2>12, PlayFirst
    <2>14. QED
      BY ONLY <1>6, <1>7, <2>2, <2>13 DEF PlaysAt
  <1>13. PlaysAt(13, 1, 14)
    <2>1. PICK o : o = Limit(11, "sell", 10000, 5)
      OBVIOUS
    <2>2. PICK w : w = Scenarios[13][1]
      OBVIOUS
    <2>3. w = Want(o, 10000, 5, TRUE)
      BY <2>1, <2>2 DEF Scenarios
    <2>4. Matched(o) /\ o.kind = "limit" /\ o.side = "sell" /\ o.price = 10000 /\ o.qty = 5
      BY <2>1 DEF Limit, Matched, Proper, Book!Refused
    <2>5. w.order = o /\ w.fill = Book!Fill(o, c.price, o.qty, TRUE)
      BY ONLY <1>4, <2>3, <2>4 DEF Want, Book!Fill
    <2>6. Book!Reach(B13, o) = {b, c}
      BY ONLY <1>3, <1>4, <1>7, <2>4 DEF Book!Reach
    <2>7. Book!ServedBefore(b, c)
      BY ONLY <1>3, <1>4 DEF Book!ServedBefore
    <2>8. b.rem < o.qty /\ o.qty < b.rem + c.rem /\ b.rem + c.rem - o.qty = 8
      BY ONLY <1>3, <1>4, <2>4
    <2>9. Book!Entry(c, c.seq, 8) = d
      BY ONLY <1>1, <1>4, RestingLess
    <2>10. B14 = {Book!Entry(c, c.seq, b.rem + c.rem - o.qty)}
      BY ONLY <1>7, <2>8, <2>9
    <2>11. Matched(o) /\ (\A f \in B13 : f = b \/ f = c) /\ b.rem < o.qty /\ o.qty < b.rem + c.rem
      BY ONLY <1>7, <2>4, <2>8
    <2>12. SpansTwo(B13, w, b, c, B14)
      BY ONLY <2>5, <2>6, <2>7, <2>10, <2>11, Zenon DEF SpansTwo
    <2>13. Plays(B13, w, B14)
      BY ONLY <1>8, <2>12, PlayTwo
    <2>14. QED
      BY ONLY <1>6, <1>7, <2>2, <2>13 DEF PlaysAt
  <1>14. PlaysAt(14, 1, 15)
    <2>1. PICK w : w = Scenarios[14][1]
      OBVIOUS
    <2>2. w = Want(Cancel(9), 0, 0, TRUE)
      BY <2>1 DEF Scenarios
    <2>3. w.order = Cancel(9) /\ w.fill = Book!Fill(w.order, 0, 0, TRUE)
      BY ONLY <2>2 DEF Want
    <2>4. w.order.kind = "cancel" /\ d.id = w.order.id
      BY ONLY <1>5, <2>3, CancelFields
    <2>5. Plays({d}, w, {})
      BY ONLY <2>3, <2>4, PlayCancels
    <2>6. QED
      BY ONLY <1>6, <2>1, <2>5 DEF PlaysAt
  <1>15. QED
    BY ONLY <1>9, <1>10, <1>11, <1>12, <1>13, <1>14

\* A market order without a counterpart, a partial fill and a cancel.
LEMMA PlaysPartial ==
    PlaysAt(15, 1, 16) /\ PlaysAt(16, 1, 17) /\ PlaysAt(17, 1, 18) /\ PlaysAt(18, 1, 19)
  <1>1. PICK a, b : /\ a = Resting(13, "sell", 10100, 1, 10)
                    /\ b = Resting(13, "sell", 10100, 1, 7)
    OBVIOUS
  <1>2. /\ a.id = <<"val", 13>> /\ a.side = "sell" /\ a.price = 10100 /\ a.seq = 1 /\ a.rem = 10
        /\ IsEntry(a)
    BY <1>1 DEF Resting, Limit, Book!Entry, IsEntry
  <1>3. /\ b.id = <<"val", 13>> /\ b.side = "sell" /\ b.price = 10100 /\ b.seq = 1 /\ b.rem = 7
        /\ IsEntry(b)
    BY <1>1 DEF Resting, Limit, Book!Entry, IsEntry
  <1>4. /\ Before[15] = {} /\ Before[16] = {a} /\ Before[17] = {a} /\ Before[18] = {b}
        /\ Before[19] = {}
    BY <1>1 DEF Before
  <1>5. PICK B, A : B = {a} /\ A = {b}
    OBVIOUS
  <1>6. Sound(B)
    BY ONLY <1>2, <1>5, SoundOne
  <1>7. PlaysAt(15, 1, 16)
    <2>1. PICK w : w = Scenarios[15][1]
      OBVIOUS
    <2>2. w = Want(Limit(13, "sell", 10100, 10), 0, 0, TRUE)
      BY <2>1 DEF Scenarios
    <2>3. PICK n, side, p, q : n = 13 /\ side = "sell" /\ p = 10100 /\ q = 10
      OBVIOUS
    <2>4. /\ side \in {"buy", "sell"} /\ p \in Nat \ {0} /\ q \in Nat \ {0}
          /\ w = Want(Limit(n, side, p, q), 0, 0, TRUE)
          /\ Before[15] = {} /\ Before[16] = {Resting(n, side, p, 1, q)}
      BY ONLY <1>1, <1>4, <2>2, <2>3
    <2>5. Plays({}, w, {Resting(n, side, p, 1, q)})
      BY ONLY <2>4, PlayEmpty
    <2>6. QED
      BY ONLY <2>1, <2>4, <2>5 DEF PlaysAt
  <1>8. PlaysAt(16, 1, 17)
    <2>1. PICK o : o = Market(14, "sell", 5)
      OBVIOUS
    <2>2. PICK w : w = Scenarios[16][1]
      OBVIOUS
    <2>3. w = Want(o, 0, 0, FALSE)
      BY <2>1, <2>2 DEF Scenarios
    <2>4. w.order = o /\ w.fill = Book!Fill(o, 0, 0, FALSE)
      BY ONLY <2>3 DEF Want
    <2>5. Matched(o) /\ o.kind = "market" /\ o.side = "sell"
      BY <2>1 DEF Market, Matched, Proper, Book!Refused
    <2>6. Book!Reach(B, o) = {}
      BY ONLY <1>2, <1>5, <2>5 DEF Book!Reach
    <2>7. Plays(B, w, B)
      BY ONLY <1>6, <2>4, <2>5, <2>6, PlayMisses
    <2>8. QED
      BY ONLY <1>4, <1>5, <2>2, <2>7 DEF PlaysAt
  <1>9. PlaysAt(17, 1, 18)
    <2>1. PICK o : o = Limit(15, "buy", 10100, 3)
      OBVIOUS
    <2>2. PICK w : w = Scenarios[17][1]
      OBVIOUS
    <2>3. w = Want(o, 10100, 3, TRUE)
      BY <2>1, <2>2 DEF Scenarios
    <2>4. Matched(o) /\ o.kind = "limit" /\ o.side = "buy" /\ o.price = 10100 /\ o.qty = 3
      BY <2>1 DEF Limit, Matched, Proper, Book!Refused
    <2>5. w.order = o /\ w.fill = Book!Fill(o, a.price, o.qty, TRUE)
      BY ONLY <1>2, <2>3, <2>4 DEF Want, Book!Fill
    <2>6. Book!Reach(B, o) = {a}
      BY ONLY <1>2, <1>5, <2>4 DEF Book!Reach
    <2>7. Book!Entry(a, a.seq, 7) = b
      BY ONLY <1>1, <1>2, RestingLess
    <2>8. o.qty < a.rem /\ a.rem - o.qty = 7 /\ o.qty <= a.rem
      BY ONLY <1>2, <2>4
    <2>9. A = (B \ {a}) \cup (IF o.qty < a.rem
                        THEN {Book!Entry(a, a.seq, a.rem - o.qty)} ELSE {})
      BY ONLY <1>5, <2>7, <2>8
    <2>10. a \in Book!Reach(B, o) /\ \A f \in Book!Reach(B, o) \ {a} : Book!ServedBefore(a, f)
      BY ONLY <2>6
    <2>11. Matched(o) /\ o.qty <= a.rem
      BY ONLY <2>4, <2>8
    <2>12. FilledByFirst(B, w, a, A)
      BY ONLY <2>5, <2>9, <2>10, <2>11, Zenon DEF FilledByFirst
    <2>13. Plays(B, w, A)
      BY ONLY <1>6, <2>12, PlayFirst
    <2>14. QED
      BY ONLY <1>4, <1>5, <2>2, <2>13 DEF PlaysAt
  <1>10. PlaysAt(18, 1, 19)
    <2>1. PICK w : w = Scenarios[18][1]
      OBVIOUS
    <2>2. w = Want(Cancel(13), 0, 0, TRUE)
      BY <2>1 DEF Scenarios
    <2>3. w.order = Cancel(13) /\ w.fill = Book!Fill(w.order, 0, 0, TRUE)
      BY ONLY <2>2 DEF Want
    <2>4. w.order.kind = "cancel" /\ b.id = w.order.id
      BY ONLY <1>3, <2>3, CancelFields
    <2>5. Plays({b}, w, {})
      BY ONLY <2>3, <2>4, PlayCancels
    <2>6. QED
      BY ONLY <1>4, <2>1, <2>5 DEF PlaysAt
  <1>11. QED
    BY ONLY <1>7, <1>8, <1>9, <1>10

LEMMA ScenarioLengths ==
    /\ Len(Scenarios) = 19 /\ Len(Scenarios[19]) = 3
    /\ \A k \in 1..18 : Len(Scenarios[k]) = 1
  <1>1. Len(Scenarios) = 19 /\ Len(Scenarios[19]) = 3
    BY DEF Scenarios
  <1>2. /\ Len(Scenarios[1]) = 1 /\ Len(Scenarios[2]) = 1 /\ Len(Scenarios[3]) = 1
        /\ Len(Scenarios[4]) = 1 /\ Len(Scenarios[5]) = 1 /\ Len(Scenarios[6]) = 1
        /\ Len(Scenarios[7]) = 1 /\ Len(Scenarios[8]) = 1 /\ Len(Scenarios[9]) = 1
    BY DEF Scenarios
  <1>3. /\ Len(Scenarios[10]) = 1 /\ Len(Scenarios[11]) = 1 /\ Len(Scenarios[12]) = 1
        /\ Len(Scenarios[13]) = 1 /\ Len(Scenarios[14]) = 1 /\ Len(Scenarios[15]) = 1
        /\ Len(Scenarios[16]) = 1 /\ Len(Scenarios[17]) = 1 /\ Len(Scenarios[18]) = 1
    BY DEF Scenarios
  <1>4. QED
    BY <1>1, <1>2, <1>3

\* From the book before it, every order of a scenario is answered as expected.
LEMMA EveryScenario ==
    ASSUME NEW k \in 1..19, NEW i \in 1..Len(Scenarios[k])
    PROVE  PlaysAt(k, i, IF i = Len(Scenarios[k]) THEN k + 1 ELSE k)
  <1>1. CASE k \in 1..18
    <2>1. PlaysAt(k, 1, k + 1)
      <3>1. ASSUME k \in {1, 6, 7, 8} PROVE PlaysAt(k, 1, k + 1)
        <4>1. CASE k = 1
          BY ONLY <4>1, PlaysNothing
        <4>2. CASE k = 6
          BY ONLY <4>2, PlaysNothing
        <4>3. CASE k = 7
          BY ONLY <4>3, PlaysNothing
        <4>4. CASE k = 8
          BY ONLY <4>4, PlaysNothing
        <4>5. QED
          BY <3>1, <4>1, <4>2, <4>3, <4>4
      <3>2. ASSUME k \in {2, 3, 4, 5} PROVE PlaysAt(k, 1, k + 1)
        <4>1. CASE k = 2
          BY ONLY <4>1, PlaysBasic
        <4>2. CASE k = 3
          BY ONLY <4>2, PlaysBasic
        <4>3. CASE k = 4
          BY ONLY <4>3, PlaysBasic
        <4>4. CASE k = 5
          BY ONLY <4>4, PlaysBasic
        <4>5. QED
          BY <3>2, <4>1, <4>2, <4>3, <4>4
      <3>3. ASSUME k \in {9, 10, 11, 12, 13, 14} PROVE PlaysAt(k, 1, k + 1)
        <4>1. CASE k = 9
          BY ONLY <4>1, PlaysPriority
        <4>2. CASE k = 10
          BY ONLY <4>2, PlaysPriority
        <4>3. CASE k = 11
          BY ONLY <4>3, PlaysPriority
        <4>4. CASE k = 12
          BY ONLY <4>4, PlaysPriority
        <4>5. CASE k = 13
          BY ONLY <4>5, PlaysPriority
        <4>6. CASE k = 14
          BY ONLY <4>6, PlaysPriority
        <4>7. QED
          BY <3>3, <4>1, <4>2, <4>3, <4>4, <4>5, <4>6
      <3>4. ASSUME k \in {15, 16, 17, 18} PROVE PlaysAt(k, 1, k + 1)
        <4>1. CASE k = 15
          BY ONLY <4>1, PlaysPartial
        <4>2. CASE k = 16
          BY ONLY <4>2, PlaysPartial
        <4>3. CASE k = 17
          BY ONLY <4>3, PlaysPartial
        <4>4. CASE k = 18
          BY ONLY <4>4, PlaysPartial
        <4>5. QED
          BY <3>4, <4>1, <4>2, <4>3, <4>4
      <3>5. k \in {1, 6, 7, 8} \cup {2, 3, 4, 5} \cup {9, 10, 11, 12, 13, 14} \cup {15, 16, 17, 18}
        BY <1>1
      <3>6. QED
        BY <3>1, <3>2, <3>3, <3>4, <3>5
    <2>2. i = 1 /\ i = Len(Scenarios[k])
      <3>1. Len(Scenarios[k]) = 1
        BY <1>1, ScenarioLengths
      <3>2. QED
        BY <3>1
    <2>3. QED
      BY <2>1, <2>2
  <1>2. CASE k = 19
    <2>1. Len(Scenarios[k]) = 3
      BY <1>2, ScenarioLengths
    <2>2. CASE i = 1
      BY <1>2, <2>1, <2>2, PlaysNothing
    <2>3. CASE i = 2
      BY <1>2, <2>1, <2>3, PlaysNothing
    <2>4. CASE i = 3
      BY <1>2, <2>1, <2>4, PlaysNothing
    <2>5. QED
      BY <2>1, <2>2, <2>3, <2>4
  <1>3. QED
    BY <1>1, <1>2

-----------------------------------------------------------------------------
(* The gate: the inductive invariant *)

\* A gate g that has not refused anything yet, and the book B it meets.
Passing(g, B) ==
    /\ g.ok
    /\ g.pc = "idle" => B = {}
    /\ g.pc = "run" => g.k \in 1..19 /\ g.i \in 1..Len(Scenarios[g.k]) /\ B = Before[g.k]
    /\ g.pc = "burst" => Sound(B) /\ Bounded(B) /\ \A e \in B : e.side = "buy"

\* Nothing has disturbed the gate.
Undisturbed == lost = 0 /\ protocol = "rest" /\ ~Probing

ValidatorFields == {"pc", "k", "i", "open", "ok"}

GateInv ==
    /\ lost \in Nat /\ protocol \in {"rest", "websocket"}
    /\ DOMAIN val = {"gate", "manual"}
    /\ \A v \in {"gate", "manual"} : DOMAIN val[v] = ValidatorFields
    /\ Undisturbed => stage # "refused"
    /\ Undisturbed /\ stage = "preflight" => Passing(val["gate"], engine)

-----------------------------------------------------------------------------
(* The gate: the steps *)

LEMMA GateStart == Init => GateInv
  BY FleetAssumption DEF Init, GateInv, Passing, Idle, ValidatorFields, Undisturbed

\* The fleet, after the gate, or a step that does not concern the gate.
LEMMA GateQuiet ==
    ASSUME GateInv, protocol' = protocol, val' = val, lost' \in {lost, lost + 1},
           stage' = "refused" => stage = "refused",
           stage' = "preflight" => stage = "preflight" /\ engine' = engine
    PROVE  GateInv'
  <1>1. lost' \in Nat /\ (lost' = 0 => lost = 0)
    BY DEF GateInv
  <1>2. Undisturbed' => Undisturbed
    BY <1>1 DEF Undisturbed, Probing
  <1>3. (Undisturbed /\ stage = "preflight" => Passing(val["gate"], engine))'
    <2>1. SUFFICES ASSUME Undisturbed', stage' = "preflight"
                   PROVE  Passing(val'["gate"], engine')
      BY DEF Passing, Sound, Bounded, IsEntry, Before, Resting
    <2>2. Passing(val["gate"], engine) /\ engine' = engine
      BY <1>2, <2>1 DEF GateInv
    <2>3. QED
      BY <2>2
  <1>4. QED
    BY <1>1, <1>2, <1>3 DEF GateInv, ValidatorFields

\* What an undisturbed gate's order does.
LEMMA GateServes ==
    ASSUME NEW r, r.pc = "run", DOMAIN r = ValidatorFields, Passing(r, engine),
           NEW w, w = Scenarios[r.k][r.i], Serve(w.order),
           NEW g, g = Advance(r, compareFills(Answer(w.order), w.fill))
    PROVE  Passing(g, engine') /\ DOMAIN g = ValidatorFields
  <1> DEFINE last == r.i = Len(Scenarios[r.k])
             n == IF last THEN r.k + 1 ELSE r.k
  <1>1. /\ r.ok /\ r.k \in 1..19 /\ r.i \in 1..Len(Scenarios[r.k]) /\ engine = Before[r.k]
    BY DEF Passing
  <1>2. PlaysAt(r.k, r.i, n)
    BY <1>1, EveryScenario
  <1>3. Plays(engine, w, Before[n])
    BY <1>1, <1>2, Zenon DEF PlaysAt
  <1>4. engine' = Before[n]
    <2>1. engine' = Book!BookAfter(engine, NextSeq(engine), w.order)
      BY DEF Serve, NextSeq
    <2>2. QED
      BY <1>3, <2>1, Zenon DEF Plays
  <1>5. compareFills(Answer(w.order), w.fill)
    <2>1. Answer(w.order) = w.fill
      BY <1>3, Zenon DEF Plays, Answer
    <2>2. QED
      BY <2>1 DEF compareFills
  <1>6. compareFills(Answer(w.order), w.fill) = TRUE
    BY <1>5 DEF compareFills
  <1>7. g = Advance(r, TRUE)
    BY <1>6, Zenon
  <1> DEFINE next == [r EXCEPT !.ok = r.ok /\ TRUE,
                               !.k = IF last THEN @ + 1 ELSE @,
                               !.i = IF last THEN 1 ELSE @ + 1]
  <1>8. g = IF next.k <= Len(Scenarios) THEN next
            ELSE [next EXCEPT !.pc = "burst", !.k = 1, !.open = 1..BurstSize]
    BY <1>7 DEF Advance
  <1>9. /\ next.ok /\ next.pc = "run" /\ next.k = n /\ DOMAIN next = ValidatorFields
        /\ next.i = IF last THEN 1 ELSE r.i + 1
    BY <1>1 DEF ValidatorFields
  <1>10. next.k \in {r.k, r.k + 1} /\ Len(Scenarios) = 19
    BY <1>9, ScenarioLengths
  <1>11. \A k \in 1..19 : Len(Scenarios[k]) \in Nat \ {0}
    <2>1. ASSUME NEW k \in 1..19 PROVE Len(Scenarios[k]) \in Nat \ {0}
      <3>1. CASE k = 19
        BY <3>1, ScenarioLengths
      <3>2. CASE k \in 1..18
        <4>1. Len(Scenarios[k]) = 1
          BY <3>2, ScenarioLengths
        <4>2. QED
          BY <4>1
      <3>3. QED
        BY <3>1, <3>2
    <2>2. QED
      BY <2>1
  <1> HIDE DEF next
  <1>12. CASE next.k <= Len(Scenarios)
    <2>1. g = next
      BY <1>8, <1>12
    <2>2. next.k \in 1..19 /\ next.i \in 1..Len(Scenarios[next.k])
      <3>1. next.k \in 1..19
        <4> HIDE DEF last, n
        <4>1. QED
          BY <1>1, <1>12, <1>10
      <3>2. CASE last
        <4>1. next.i = 1 /\ Len(Scenarios[next.k]) \in Nat \ {0}
          BY <1>9, <1>11, <3>1, <3>2
        <4>2. QED
          BY <3>1, <4>1
      <3>3. CASE ~last
        <4>1. next.k = r.k /\ next.i = r.i + 1 /\ Len(Scenarios[r.k]) \in Nat \ {0}
          BY <1>1, <1>9, <1>11, <3>3
        <4>2. next.i \in 1..Len(Scenarios[r.k])
          BY <1>1, <3>3, <4>1
        <4>3. QED
          BY <3>1, <4>1, <4>2
      <3>4. QED
        BY <3>2, <3>3
    <2>3. QED
      BY <1>4, <1>9, <2>1, <2>2 DEF Passing
  <1>13. CASE ~(next.k <= Len(Scenarios))
    <2>1. /\ g.ok /\ g.pc = "burst" /\ DOMAIN g = ValidatorFields
      BY <1>8, <1>9, <1>13 DEF ValidatorFields
    <2>2. n = 20
      <3>1. next.k = n /\ n \in {r.k, r.k + 1}
        BY <1>9
      <3> HIDE DEF n, last
      <3>2. QED
        BY <1>1, <1>13, <1>10, <3>1
    <2>3. engine' = {}
      BY <1>4, <2>2 DEF Before
    <2>4. Sound({}) /\ Bounded({})
      BY SoundNone DEF Bounded
    <2>5. QED
      BY <2>1, <2>3, <2>4 DEF Passing
  <1>14. QED
    BY <1>12, <1>13

\* An order of the burst rests, whatever the others did.
LEMMA BurstServes ==
    ASSUME Sound(engine), Bounded(engine), \A e \in engine : e.side = "buy",
           NEW i \in 1..BurstSize, Serve(Burst[i].order)
    PROVE  /\ compareFills(Answer(Burst[i].order), Burst[i].fill)
           /\ Sound(engine') /\ Bounded(engine') /\ \A e \in engine' : e.side = "buy"
  <1>1. PICK o : o = Limit(200 + i, "buy", 8900 + 100 * i, 1)
    OBVIOUS
  <1>2. i \in Nat \ {0}
    BY FleetAssumption
  <1>3. Matched(o) /\ Proper(o) /\ o.kind = "limit" /\ o.side = "buy" /\ o.qty = 1
    BY <1>1, <1>2 DEF Limit, Matched, Proper, Book!Refused
  <1>4. Burst[i].order = o /\ Burst[i].fill = Book!Fill(o, 0, 0, TRUE)
    <2>1. Burst[i] = Want(o, 0, 0, TRUE)
      BY <1>1 DEF Burst
    <2>2. QED
      BY ONLY <2>1 DEF Want
  <1>5. PICK t \in Nat : /\ \A e \in engine : e.seq < t
                         /\ engine' = Book!BookAfter(engine, t, o)
    BY <1>4, ServeIs
  <1>6. Book!Reach(engine, o) = {}
    BY <1>3 DEF Book!Reach
  <1>7. /\ Book!FillOf(engine, o) = Book!Fill(o, 0, 0, TRUE)
        /\ Book!BookAfter(engine, t, o) = engine \cup {Book!Entry(o, t, o.qty)}
    <2>1. Sound(engine) /\ Matched(o) /\ o.kind = "limit"
      BY <1>3
    <2>2. QED
      BY ONLY <1>6, <2>1, LimitRests
  <1>8. compareFills(Answer(Burst[i].order), Burst[i].fill)
    <2>1. Answer(Burst[i].order) = Burst[i].fill
      BY <1>4, <1>7, Zenon DEF Answer
    <2>2. QED
      BY <2>1 DEF compareFills
  <1>9. Sound(engine')
    BY <1>3, <1>5, SoundAfter
  <1>10. \A e \in engine' : e.side = "buy" /\ e.seq <= t
    <2>1. Book!Entry(o, t, o.qty).side = "buy" /\ Book!Entry(o, t, o.qty).seq = t
      BY <1>3 DEF Book!Entry
    <2>2. \A e \in engine : e.seq \in Nat
      BY DEF Sound, IsEntry
    <2>3. QED
      BY <1>5, <1>7, <2>1, <2>2
  <1>11. QED
    BY <1>5, <1>8, <1>9, <1>10 DEF Bounded

\* A step of the manual probe: it was started before.
LEMMA GateProbed ==
    ASSUME GateInv, protocol' = protocol, Probing, Probing', stage' = stage,
           lost' \in {lost, lost + 1},
           DOMAIN val' = DOMAIN val, val'["gate"] = val["gate"],
           DOMAIN val'["manual"] = ValidatorFields
    PROVE  GateInv'
  <1>1. lost' \in Nat /\ ~Undisturbed'
    BY DEF GateInv, Undisturbed
  <1>2. QED
    BY <1>1 DEF GateInv, ValidatorFields

\* The record of a validator after a step of it.
LEMMA AdvanceFields ==
    ASSUME NEW r, DOMAIN r = ValidatorFields, NEW ok
    PROVE  /\ DOMAIN Advance(r, ok) = ValidatorFields
           /\ Advance(r, ok).pc \in {r.pc, "burst"}
  <1> DEFINE last == ~ok \/ r.i = Len(Scenarios[r.k])
             next == [r EXCEPT !.ok = r.ok /\ ok,
                               !.k = IF last THEN @ + 1 ELSE @,
                               !.i = IF last THEN 1 ELSE @ + 1]
  <1>1. DOMAIN next = ValidatorFields /\ next.pc = r.pc
    BY DEF ValidatorFields
  <1>2. Advance(r, ok) = IF next.k <= Len(Scenarios) THEN next
                         ELSE [next EXCEPT !.pc = "burst", !.k = 1, !.open = 1..BurstSize]
    BY DEF Advance
  <1> HIDE DEF next
  <1>3. QED
    BY <1>1, <1>2 DEF ValidatorFields

LEMMA ValidatesFrame ==
    ASSUME NEW v, Validates(v)
    PROVE  /\ protocol' = protocol /\ stage' = stage /\ Live
           /\ lost' \in {lost, lost + 1} /\ val[v].pc \in {"run", "burst"}
  BY DEF Validates, RunScenario, RunBurst, ReturnResult, AbortRun, Lose

\* A step of a validator touches its own record, and keeps its fields.
LEMMA ValidatesFields ==
    ASSUME GateInv, NEW v \in {"gate", "manual"}, Validates(v)
    PROVE  /\ DOMAIN val' = {"gate", "manual"} /\ DOMAIN val'[v] = ValidatorFields
           /\ val'[v].pc \in {val[v].pc, "burst", "done"}
           /\ \A w \in {"gate", "manual"} : w # v => val'[w] = val[w]
  <1>1. DOMAIN val = {"gate", "manual"} /\ DOMAIN val[v] = ValidatorFields
    BY DEF GateInv
  <1>2. CASE RunScenario(v)
    <2>1. PICK ok : val' = [val EXCEPT ![v] = Advance(val[v], ok)]
      BY <1>2 DEF RunScenario
    <2>2. PICK r : r = Advance(val[v], ok)
      OBVIOUS
    <2>3. DOMAIN r = ValidatorFields /\ r.pc \in {val[v].pc, "burst"}
      BY <1>1, <2>2, AdvanceFields
    <2>4. val' = [val EXCEPT ![v] = r]
      BY <2>1, <2>2
    <2>5. QED
      BY <1>1, <2>3, <2>4
  <1>3. ASSUME NEW i, RunBurst(v, i)
        PROVE  /\ DOMAIN val' = {"gate", "manual"} /\ DOMAIN val'[v] = ValidatorFields
               /\ val'[v].pc \in {val[v].pc, "burst", "done"}
               /\ \A w \in {"gate", "manual"} : w # v => val'[w] = val[w]
    <2>1. PICK ok : val' = [val EXCEPT ![v].open = @ \ {i}, ![v].ok = @ /\ ok]
      BY <1>3 DEF RunBurst
    <2>2. QED
      BY <1>1, <2>1 DEF ValidatorFields
  <1>4. CASE ReturnResult(v)
    <2>1. val' = [val EXCEPT ![v].pc = "done"]
      BY <1>4 DEF ReturnResult
    <2>2. QED
      BY <1>1, <2>1 DEF ValidatorFields
  <1>5. CASE AbortRun(v)
    <2>1. val' = [val EXCEPT ![v].pc = "done", ![v].ok = FALSE, ![v].open = {}]
      BY <1>5 DEF AbortRun
    <2>2. QED
      BY <1>1, <2>1 DEF ValidatorFields
  <1>6. QED
    BY <1>2, <1>3, <1>4, <1>5 DEF Validates

LEMMA ManualGate == ASSUME GateInv, Validates("manual") PROVE GateInv'
  <1>1. /\ protocol' = protocol /\ stage' = stage /\ lost' \in {lost, lost + 1}
        /\ val["manual"].pc \in {"run", "burst"}
    BY ValidatesFrame
  <1>2. /\ DOMAIN val' = {"gate", "manual"} /\ DOMAIN val'["manual"] = ValidatorFields
        /\ val'["manual"].pc \in {val["manual"].pc, "burst", "done"}
        /\ val'["gate"] = val["gate"]
    BY ValidatesFields
  <1>3. Probing /\ Probing'
    BY <1>1, <1>2 DEF Probing
  <1>4. DOMAIN val' = DOMAIN val
    BY <1>2 DEF GateInv
  <1>5. QED
    BY <1>1, <1>2, <1>3, <1>4, GateProbed

\* An undisturbed gate's scenario order and burst order are answered as
\* expected.
LEMMA GateRuns ==
    ASSUME GateInv, Undisturbed, stage = "preflight", lost' = lost,
           Validates("gate")
    PROVE  Passing(val'["gate"], engine')
  <1>1. /\ DOMAIN val = {"gate", "manual"} /\ DOMAIN val["gate"] = ValidatorFields
        /\ Passing(val["gate"], engine) /\ lost \in Nat
    BY DEF GateInv
  <1>2. Reachable("gate") /\ ~Lose
    BY <1>1 DEF Undisturbed, Reachable, Lose
  <1>3. CASE RunScenario("gate")
    <2>1. PICK r : r = val["gate"]
      OBVIOUS
    <2>2. PICK w : w = Scenarios[r.k][r.i]
      OBVIOUS
    <2>3. PICK g : g = Advance(r, compareFills(Answer(w.order), w.fill))
      OBVIOUS
    <2>4. /\ r.pc = "run" /\ Serve(w.order)
          /\ val' = [val EXCEPT !["gate"] = g]
      BY ONLY <1>2, <1>3, <2>1, <2>2, <2>3 DEF RunScenario
    <2>5. DOMAIN r = ValidatorFields /\ Passing(r, engine)
      BY <1>1, <2>1
    <2>6. Passing(g, engine')
      BY ONLY <2>2, <2>3, <2>4, <2>5, GateServes
    <2>7. val'["gate"] = g
      BY <1>1, <2>4
    <2>8. QED
      BY <2>6, <2>7
  <1>4. ASSUME NEW i \in 1..BurstSize, RunBurst("gate", i)
        PROVE  Passing(val'["gate"], engine')
    <2>1. PICK ok : ok = compareFills(Answer(Burst[i].order), Burst[i].fill)
      OBVIOUS
    <2>2. /\ val["gate"].pc = "burst" /\ Serve(Burst[i].order)
          /\ val' = [val EXCEPT !["gate"].open = @ \ {i}, !["gate"].ok = @ /\ ok]
      BY ONLY <1>2, <1>4, <2>1 DEF RunBurst
    <2>3. /\ Sound(engine) /\ Bounded(engine) /\ \A e \in engine : e.side = "buy"
          /\ val["gate"].ok
      BY <1>1, <2>2 DEF Passing
    <2>4. /\ compareFills(Answer(Burst[i].order), Burst[i].fill)
          /\ Sound(engine') /\ Bounded(engine') /\ \A e \in engine' : e.side = "buy"
      BY <2>2, <2>3, BurstServes
    <2>5. val'["gate"].ok /\ val'["gate"].pc = "burst"
      BY <1>1, <2>1, <2>2, <2>3, <2>4 DEF ValidatorFields
    <2>6. QED
      BY <2>4, <2>5 DEF Passing
  <1>5. CASE ReturnResult("gate")
    <2>1. val' = [val EXCEPT !["gate"].pc = "done"]
      BY <1>5 DEF ReturnResult
    <2>2. val'["gate"].pc = "done" /\ val'["gate"].ok = val["gate"].ok
      BY <1>1, <2>1 DEF ValidatorFields
    <2>3. QED
      BY <1>1, <2>2 DEF Passing
  <1>6. CASE AbortRun("gate")
    BY <1>2, <1>6 DEF AbortRun
  <1>7. QED
    BY <1>3, <1>4, <1>5, <1>6 DEF Validates

LEMMA GateGate == ASSUME GateInv, Validates("gate") PROVE GateInv'
  <1>1. /\ protocol' = protocol /\ stage' = stage /\ lost' \in {lost, lost + 1} /\ Live
    BY ValidatesFrame
  <1>2. /\ DOMAIN val' = {"gate", "manual"} /\ DOMAIN val'["gate"] = ValidatorFields
        /\ val'["manual"] = val["manual"]
    BY ValidatesFields
  <1>3. DOMAIN val'["manual"] = ValidatorFields /\ lost \in Nat /\ lost' \in Nat
    BY <1>1, <1>2 DEF GateInv
  <1>4. Undisturbed' => Undisturbed /\ lost' = lost
    BY <1>1, <1>2, <1>3 DEF Undisturbed, Probing
  <1>5. ASSUME Undisturbed', stage' = "preflight" PROVE Passing(val'["gate"], engine')
    BY <1>1, <1>4, <1>5, GateRuns
  <1>6. Undisturbed' => stage' # "refused"
    BY <1>1, <1>4 DEF Live
  <1>7. QED
    BY <1>1, <1>2, <1>3, <1>5, <1>6 DEF GateInv

LEMMA GateStarts == ASSUME GateInv, StartGate PROVE GateInv'
  <1>1. /\ stage = "preflight" /\ val["gate"].pc = "idle"
        /\ val' = [val EXCEPT !["gate"] = Started]
        /\ protocol' = protocol /\ stage' = stage /\ engine' = engine /\ lost' = lost
    BY DEF StartGate
  <1>2. DOMAIN val = {"gate", "manual"} /\ DOMAIN val["manual"] = ValidatorFields
    BY DEF GateInv
  <1>3. /\ DOMAIN val' = {"gate", "manual"}
        /\ val'["gate"] = Started /\ val'["manual"] = val["manual"]
    BY <1>1, <1>2
  <1>4. /\ DOMAIN Started = ValidatorFields /\ Started.pc = "run" /\ Started.ok
        /\ Started.k = 1 /\ Started.i = 1
    BY DEF Started, Idle, ValidatorFields
  <1>5. Undisturbed' => Undisturbed
    BY <1>1, <1>3 DEF Undisturbed, Probing
  <1>6. ASSUME Undisturbed' PROVE Passing(val'["gate"], engine')
    <2>1. engine = {}
      BY <1>1, <1>5, <1>6 DEF GateInv, Passing
    <2>2. Before[1] = {}
      BY DEF Before
    <2>3. Len(Scenarios[1]) = 1
      BY ScenarioLengths
    <2>4. Passing(Started, {})
      BY <1>4, <2>2, <2>3 DEF Passing
    <2>5. QED
      BY <1>1, <1>3, <2>1, <2>4
  <1>7. QED
    BY <1>1, <1>2, <1>3, <1>4, <1>6 DEF GateInv

LEMMA GateVerdict == ASSUME GateInv, GateDecides PROVE GateInv'
  <1>1. /\ stage = "preflight" /\ stage' \in {"fleet", "refused"} /\ val' = val
        /\ protocol' = protocol /\ lost' = lost
        /\ stage' = "refused" => ~val["gate"].ok
    BY DEF GateDecides
  <1>2. Undisturbed' => Undisturbed
    BY <1>1 DEF Undisturbed, Probing
  <1>3. Undisturbed' => stage' # "refused"
    BY <1>1, <1>2 DEF GateInv, Passing
  <1>4. QED
    BY <1>1, <1>3 DEF GateInv

LEMMA GateSeesProbe == ASSUME GateInv, ManualProbe PROVE GateInv'
  <1>1. /\ val' = [val EXCEPT !["manual"] = Started]
        /\ protocol' = protocol /\ stage' = stage /\ lost' = lost
    BY DEF ManualProbe
  <1>2. /\ DOMAIN val = {"gate", "manual"} /\ DOMAIN val["gate"] = ValidatorFields
    BY DEF GateInv
  <1>3. /\ DOMAIN val' = {"gate", "manual"}
        /\ val'["manual"] = Started /\ val'["gate"] = val["gate"]
    BY <1>1, <1>2
  <1>4. DOMAIN Started = ValidatorFields /\ Started.pc = "run"
    BY DEF Started, Idle, ValidatorFields
  <1>5. ~Undisturbed'
    BY <1>3, <1>4 DEF Undisturbed, Probing
  <1>6. QED
    BY <1>1, <1>2, <1>3, <1>4, <1>5 DEF GateInv

LEMMA GateFleetStep ==
    ASSUME GateInv, NEW b \in Bots,
           \/ StartBot(b) \/ BotNeverRuns(b) \/ SendOrder(b) \/ EngineServes(b)
           \/ Receive(b) \/ SendFails(b) \/ StopBot(b)
    PROVE  GateInv'
  <1>1. protocol' = protocol /\ val' = val /\ stage' = stage
    BY DEF StartBot, BotNeverRuns, SendOrder, EngineServes, Receive, SendFails, StopBot
  <1>2. lost' \in {lost, lost + 1}
    BY DEF StartBot, BotNeverRuns, SendOrder, EngineServes, Receive, SendFails, StopBot,
           DialFails, GivesUp, Lose
  <1>3. stage = "preflight" => engine' = engine
    BY DEF StartBot, BotNeverRuns, SendOrder, EngineServes, Receive, SendFails, StopBot
  <1>4. QED
    BY <1>1, <1>2, <1>3, GateQuiet

LEMMA GateScoreStep ==
    ASSUME GateInv,
           TestEnds \/ Collect \/ FleetReturns \/ ReplayOrder \/ ScoreRun \/ UNCHANGED vars
    PROVE  GateInv'
  <1>1. /\ protocol' = protocol /\ val' = val /\ lost' = lost /\ engine' = engine
        /\ stage' \in {stage, "checking", "scored"}
    BY DEF TestEnds, Collect, FleetReturns, ReplayOrder, ScoreRun, vars
  <1>2. QED
    BY <1>1, GateQuiet

LEMMA GateStep == GateInv /\ [Next]_vars => GateInv'
  <1>1. SUFFICES ASSUME GateInv, [Next]_vars PROVE GateInv'
    OBVIOUS
  <1>2. CASE StartGate
    BY <1>1, <1>2, GateStarts
  <1>3. CASE GateDecides
    BY <1>1, <1>3, GateVerdict
  <1>4. CASE ManualProbe
    BY <1>1, <1>4, GateSeesProbe
  <1>5. CASE Validates("gate")
    BY <1>1, <1>5, GateGate
  <1>6. CASE Validates("manual")
    BY <1>1, <1>6, ManualGate
  <1>7. CASE \E b \in Bots : \/ StartBot(b) \/ BotNeverRuns(b) \/ SendOrder(b)
                             \/ EngineServes(b) \/ Receive(b) \/ SendFails(b)
                             \/ StopBot(b)
    BY <1>1, <1>7, GateFleetStep
  <1>8. CASE \/ TestEnds \/ Collect \/ FleetReturns \/ ReplayOrder \/ ScoreRun
             \/ UNCHANGED vars
    BY <1>1, <1>8, GateScoreStep
  <1>9. QED
    BY <1>1, <1>2, <1>3, <1>4, <1>5, <1>6, <1>7, <1>8 DEF Next, Over

\* The gate refuses an honest REST engine only when a send was lost or a
\* manual probe shared the sandbox (Validator.Run, fixedScenarios,
\* runConcurrentScenario, runPreflightValidator): for every burst size, every
\* interleaving of the burst and every profile.
THEOREM GateCorrect == Spec => []HonestPassesGate
  <1>1. GateInv => HonestPassesGate
    BY DEF GateInv, HonestPassesGate, Undisturbed
  <1>2. QED
    BY <1>1, GateStart, GateStep, PTL DEF Spec
=============================================================================
