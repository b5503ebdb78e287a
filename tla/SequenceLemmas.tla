--------------------------- MODULE SequenceLemmas ---------------------------
(***************************************************************************)
(* What the proofs about texts and streams rest on: induction on sets of   *)
(* natural numbers, FlattenSeq, which joins the pieces that an encoding    *)
(* makes of the characters of a text, SumFunction, which adds weights,     *)
(* FoldLeft, which goes through a text with a state, and functions defined *)
(* from the end of a text back or from its beginning on.                   *)
(***************************************************************************)
EXTENDS Integers, Sequences, SequencesExt, SequenceTheorems, FiniteSetTheorems,
        WellFoundedInduction, TLAPS

(* Every non-empty set of natural numbers has a least element.             *)
LEMMA LeastElement ==
    ASSUME NEW S \in SUBSET Nat, S # {}
    PROVE  \E p \in S : \A q \in S : p <= q
<1>1. \E p \in S : \A q \in S : ~(<<q, p>> \in OpToRel(<, Nat))
  BY NatLessThanWellFounded, WFMin
<1>2. PICK p \in S : \A q \in S : ~(<<q, p>> \in OpToRel(<, Nat))
  BY <1>1
<1>3. \A q \in S : ~(q < p)
  BY <1>2 DEF OpToRel
<1>4. \A q \in S : p <= q
  BY <1>3
<1> QED
  BY <1>4

(* Induction up to n, on the set of numbers that have the property.        *)
LEMMA InductionUpTo ==
    ASSUME NEW n \in Nat, NEW S, 0 \in S, \A m \in 0..n - 1 : m \in S => m + 1 \in S
    PROVE  \A m \in 0..n : m \in S
<1> DEFINE Bad == {m \in 0..n : m \notin S}
<1>1. SUFFICES ASSUME Bad # {} PROVE FALSE
  OBVIOUS
<1>2. Bad \in SUBSET Nat
  OBVIOUS
<1>3. PICK p \in Bad : \A q \in Bad : p <= q
  BY <1>1, <1>2, LeastElement
<1>4. p \in 0..n /\ p \notin S /\ p # 0
  BY <1>3
<1>5. p - 1 \in 0..n - 1 /\ p - 1 \in 0..n /\ ~(p <= p - 1) /\ (p - 1) + 1 = p
  BY <1>4
<1>6. p - 1 \in S
  BY <1>3, <1>5
<1> QED
  BY <1>4, <1>5, <1>6

-----------------------------------------------------------------------------
(* The function by which FlattenSeq is defined exists.                     *)
LEMMA FlattenExists ==
    ASSUME NEW seqs, NEW n \in Nat, n > 0
    PROVE  \E f : f = [i \in 1..n |-> IF i = 1 THEN seqs[i] ELSE f[i-1] \o seqs[i]]
<1> DEFINE Good(m) == \E f : f = [i \in 1..m |-> IF i = 1 THEN seqs[i] ELSE f[i-1] \o seqs[i]]
           S == {m \in Nat : m = 0 \/ Good(m)}
<1>1. 0 \in S
  OBVIOUS
<1>2. ASSUME NEW m \in 0..n - 1, m \in S PROVE m + 1 \in S
  <2>0. m \in Nat /\ m + 1 \in Nat
    OBVIOUS
  <2>1. CASE m = 0
    <3>1. [i \in 1..1 |-> seqs[i]]
            = [i \in 1..1 |-> IF i = 1 THEN seqs[i]
                              ELSE [j \in 1..1 |-> seqs[j]][i-1] \o seqs[i]]
      OBVIOUS
    <3>2. Good(1)
      BY <3>1
    <3>3. m + 1 = 1
      BY <2>1
    <3> HIDE DEF Good
    <3> QED
      BY <2>0, <3>2, <3>3
  <2>2. CASE m # 0
    <3>1. PICK g : g = [i \in 1..m |-> IF i = 1 THEN seqs[i] ELSE g[i-1] \o seqs[i]]
      BY <1>2, <2>2
    <3> DEFINE h == [i \in 1..m + 1 |-> IF i = m + 1 THEN g[m] \o seqs[m + 1] ELSE g[i]]
    <3>2. ASSUME NEW i \in 1..m + 1
          PROVE  h[i] = IF i = 1 THEN seqs[i] ELSE h[i-1] \o seqs[i]
      <4>1. CASE i = m + 1
        <5>1. i # 1 /\ i - 1 = m /\ i - 1 \in 1..m + 1 /\ i - 1 # m + 1
          BY <2>0, <2>2, <4>1
        <5>2. h[i] = g[m] \o seqs[m + 1] /\ h[i - 1] = g[i - 1]
          BY <4>1, <5>1
        <5> HIDE DEF h
        <5> QED
          BY <4>1, <5>1, <5>2
      <4>2. CASE i # m + 1 /\ i = 1
        BY <2>0, <2>2, <3>1, <4>2
      <4>3. CASE i # m + 1 /\ i # 1
        <5>1. i \in 1..m /\ i - 1 \in 1..m /\ i - 1 # m + 1 /\ i - 1 \in 1..m + 1
          BY <2>0, <4>3
        <5>2. g[i] = g[i - 1] \o seqs[i]
          BY <3>1, <4>3, <5>1
        <5> QED
          BY <4>3, <5>1, <5>2
      <4> QED
        BY <4>1, <4>2, <4>3
    <3>3. h = [i \in 1..m + 1 |-> IF i = 1 THEN seqs[i] ELSE h[i-1] \o seqs[i]]
      BY <3>2
    <3>4. Good(m + 1)
      BY <3>3
    <3> HIDE DEF Good
    <3> QED
      BY <2>0, <3>4
  <2> QED
    BY <2>1, <2>2
<1>3. n \in S
  <2> HIDE DEF S
  <2>1. \A m \in 0..n : m \in S
    BY <1>1, <1>2, InductionUpTo
  <2> QED
    BY <2>1
<1>4. Good(n)
  <2> HIDE DEF Good
  <2> QED
    BY <1>3
<1> QED
  BY <1>4

(* Sequences of sequences over S.                                          *)
Pieces(S) == Seq(Seq(S))

(* The lengths and types of such sequences.                                *)
LEMMA PiecesType ==
    ASSUME NEW S, NEW seqs \in Pieces(S)
    PROVE  /\ Len(seqs) \in Nat
           /\ DOMAIN seqs = 1..Len(seqs)
           /\ \A k \in 1..Len(seqs) : seqs[k] \in Seq(S) /\ Len(seqs[k]) \in Nat
<1>1. seqs \in Seq(Seq(S))
  BY DEF Pieces
<1>2. Len(seqs) \in Nat /\ DOMAIN seqs = 1..Len(seqs) /\ \A k \in 1..Len(seqs) : seqs[k] \in Seq(S)
  BY <1>1
<1> QED
  BY <1>2

(* P[k] is the first k sequences of seqs in one.                           *)
Joins(P, seqs, S) ==
    /\ P \in [0..Len(seqs) -> Seq(S)]
    /\ P[0] = <<>>
    /\ \A k \in 1..Len(seqs) : P[k] = P[k - 1] \o seqs[k]

(* FlattenSeq joins all of them.                                           *)
LEMMA FlattenJoins ==
    ASSUME NEW S, NEW seqs \in Pieces(S), NEW P, Joins(P, seqs, S)
    PROVE  FlattenSeq(seqs) = P[Len(seqs)]
<1> DEFINE n == Len(seqs)
           F == CHOOSE f : f = [i \in 1..n |-> IF i = 1 THEN seqs[i] ELSE f[i-1] \o seqs[i]]
<1>0. n \in Nat /\ \A k \in 1..n : seqs[k] \in Seq(S)
  BY PiecesType
<1>1. CASE n = 0
  <2>1. seqs = <<>> /\ P[n] = <<>>
    BY <1>1 DEF Joins, Pieces
  <2>2. FlattenSeq(seqs) = seqs
    BY <1>1 DEF FlattenSeq
  <2> QED
    BY <2>1, <2>2
<1>2. CASE n # 0
  <2>0. n > 0
    BY <1>0, <1>2
  <2>1. F = [i \in 1..n |-> IF i = 1 THEN seqs[i] ELSE F[i-1] \o seqs[i]]
    <3>1. \E f : f = [i \in 1..n |-> IF i = 1 THEN seqs[i] ELSE f[i-1] \o seqs[i]]
      BY <1>0, <2>0, FlattenExists
    <3> QED
      BY <3>1, Zenon
  <2>2. FlattenSeq(seqs) = F[n]
    BY <1>2, Zenon DEF FlattenSeq
  <2> DEFINE Same == {m \in 0..n : m = 0 \/ F[m] = P[m]}
  <2>3. 0 \in Same
    BY <1>0
  <2>4. ASSUME NEW m \in 0..n - 1, m \in Same PROVE m + 1 \in Same
    <3>1. m + 1 \in 1..n /\ m + 1 \in 0..n /\ (m + 1) - 1 = m
      BY <1>0
    <3>2. P[m + 1] = P[m] \o seqs[m + 1]
      BY <3>1 DEF Joins
    <3>3. CASE m = 0
      <4>0. m + 1 = 1 /\ 1 \in 1..n
        BY <1>0, <2>0, <3>3
      <4>1. F[1] = seqs[1]
        <5> HIDE DEF F
        <5> QED
          BY <2>1, <4>0
      <4>2. P[1] = <<>> \o seqs[1]
        BY <3>2, <3>3, <4>0 DEF Joins
      <4>3. seqs[1] \in Seq(S)
        BY <1>0, <2>0
      <4>4. P[1] = seqs[1]
        BY <4>2, <4>3
      <4> QED
        BY <3>1, <3>3, <4>1, <4>4
    <3>4. CASE m # 0
      <4>1. F[m + 1] = F[m] \o seqs[m + 1]
        <5>1. m + 1 # 1
          BY <3>4
        <5> HIDE DEF F
        <5> QED
          BY <2>1, <3>1, <5>1
      <4> HIDE DEF F
      <4> QED
        BY <2>4, <3>1, <3>2, <3>4, <4>1
    <3> QED
      BY <3>3, <3>4
  <2>5. n \in Same
    <3> HIDE DEF Same
    <3>1. \A m \in 0..n : m \in Same
      BY <1>0, <2>3, <2>4, InductionUpTo
    <3> QED
      BY <1>0, <3>1
  <2> QED
    BY <1>2, <2>2, <2>5
<1> QED
  BY <1>1, <1>2

(* There is such a P: the sequences have one joint sequence.               *)
LEMMA JoinsExists ==
    ASSUME NEW S, NEW seqs \in Pieces(S)
    PROVE  \E P : Joins(P, seqs, S)
<1> DEFINE n == Len(seqs)
<1>0. n \in Nat /\ \A k \in 1..n : seqs[k] \in Seq(S)
  BY PiecesType
<1>1. CASE n = 0
  <2> DEFINE P == [k \in 0..n |-> <<>>]
  <2>1. P \in [0..n -> Seq(S)] /\ P[0] = <<>>
    BY <1>0, EmptySeq
  <2>2. 1..n = {}
    BY <1>1
  <2> HIDE DEF P
  <2>3. Joins(P, seqs, S)
    BY <2>1, <2>2 DEF Joins
  <2> QED
    BY <2>3
<1>2. CASE n # 0
  <2>0. n > 0
    BY <1>0, <1>2
  <2>1. PICK g : g = [i \in 1..n |-> IF i = 1 THEN seqs[i] ELSE g[i-1] \o seqs[i]]
    BY <1>0, <2>0, FlattenExists
  <2> DEFINE P == [k \in 0..n |-> IF k = 0 THEN <<>> ELSE g[k]]
             T == {m \in 0..n : P[m] \in Seq(S)}
  <2>2. P[0] = <<>> /\ 0 \in 0..n
    BY <1>0
  <2>3. ASSUME NEW k \in 1..n PROVE P[k] = IF k = 1 THEN seqs[k] ELSE P[k - 1] \o seqs[k]
    <3>1. k \in 0..n /\ k # 0 /\ k - 1 \in 0..n
      BY <1>0
    <3>2. P[k] = g[k]
      BY <3>1
    <3>3. g[k] = IF k = 1 THEN seqs[k] ELSE g[k - 1] \o seqs[k]
      BY <2>1
    <3>4. k # 1 => P[k - 1] = g[k - 1]
      BY <3>1
    <3> HIDE DEF P
    <3> QED
      BY <3>2, <3>3, <3>4
  <2>4. DOMAIN P = 0..n /\ P = [k \in 0..n |-> P[k]]
    OBVIOUS
  <2> HIDE DEF P
  <2>5. 0 \in T
    BY <2>2, EmptySeq
  <2>6. ASSUME NEW m \in 0..n - 1, m \in T PROVE m + 1 \in T
    <3>1. m + 1 \in 1..n /\ m + 1 \in 0..n /\ (m + 1) - 1 = m
      BY <1>0
    <3>2. seqs[m + 1] \in Seq(S) /\ P[m] \in Seq(S)
      BY <1>0, <2>6, <3>1
    <3>3. P[m] \o seqs[m + 1] \in Seq(S)
      BY <3>2, ConcatProperties
    <3>4. P[m + 1] = seqs[m + 1] \/ P[m + 1] = P[m] \o seqs[m + 1]
      BY <2>3, <3>1
    <3> QED
      BY <3>1, <3>2, <3>3, <3>4
  <2>7. \A m \in 0..n : m \in T
    <3> HIDE DEF T
    <3> QED
      BY <1>0, <2>5, <2>6, InductionUpTo
  <2>8. P \in [0..n -> Seq(S)]
    BY <2>4, <2>7
  <2>9. ASSUME NEW k \in 1..n PROVE P[k] = P[k - 1] \o seqs[k]
    <3>1. CASE k = 1
      <4>1. P[1] = seqs[1] /\ P[1 - 1] = <<>> /\ seqs[1] \in Seq(S)
        BY <1>0, <2>2, <2>3, <3>1
      <4> QED
        BY <3>1, <4>1
    <3>2. CASE k # 1
      BY <2>3, <3>2
    <3> QED
      BY <3>1, <3>2
  <2>10. Joins(P, seqs, S)
    BY <2>2, <2>8, <2>9 DEF Joins
  <2> QED
    BY <2>10
<1> QED
  BY <1>1, <1>2

(* Joining sequences over S gives a sequence over S.                       *)
LEMMA FlattenType ==
    ASSUME NEW S, NEW seqs \in Pieces(S)
    PROVE  FlattenSeq(seqs) \in Seq(S)
<1>1. PICK P : Joins(P, seqs, S)
  BY JoinsExists
<1>2. FlattenSeq(seqs) = P[Len(seqs)]
  BY <1>1, FlattenJoins
<1> QED
  BY <1>1, <1>2 DEF Joins

(* Where the k-th of the joined sequences ends.                            *)
End(P, k) == Len(P[k])

(* The first k sequences joined are the first h = k - 1 and the k-th, q.   *)
LEMMA JoinsLen ==
    ASSUME NEW S, NEW seqs \in Pieces(S), NEW P, Joins(P, seqs, S),
           NEW k \in 1..Len(seqs), NEW h \in 0..Len(seqs), h = k - 1, NEW q, q = seqs[k]
    PROVE  /\ End(P, h) \in Nat
           /\ q \in Seq(S)
           /\ End(P, k) = End(P, h) + Len(q)
           /\ \A j \in 1..End(P, h) : P[k][j] = P[h][j]
           /\ \A j \in 1..Len(q) : P[k][End(P, h) + j] = q[j]
<1> DEFINE a == P[h]
<1>1. q \in Seq(S) /\ a \in Seq(S)
  BY PiecesType DEF Joins
<1>2. P[k] = a \o q
  BY DEF Joins
<1> HIDE DEF a
<1>3. /\ Len(a) \in Nat
      /\ Len(a \o q) = Len(a) + Len(q)
      /\ \A j \in 1..Len(a) : (a \o q)[j] = a[j]
      /\ \A j \in 1..Len(q) : (a \o q)[Len(a) + j] = q[j]
  BY <1>1
<1> QED
  BY <1>1, <1>2, <1>3 DEF a, End

(* The first k sequences joined begin what any more of them make.          *)
LEMMA JoinsPrefix ==
    ASSUME NEW S, NEW seqs \in Pieces(S), NEW P, Joins(P, seqs, S), NEW k \in 0..Len(seqs)
    PROVE  \A m \in 0..Len(seqs) : k <= m =>
                 /\ End(P, k) \in Nat
                 /\ End(P, m) \in Nat
                 /\ End(P, k) <= End(P, m)
                 /\ \A j \in 1..End(P, k) : P[m][j] = P[k][j]
<1> DEFINE n == Len(seqs)
           Fits(m) == /\ End(P, k) <= End(P, m)
                      /\ \A j \in 1..End(P, k) : P[m][j] = P[k][j]
           Good == {m \in 0..n : k <= m => Fits(m)}
<1>0. n \in Nat /\ \A m \in 0..n : P[m] \in Seq(S) /\ End(P, m) \in Nat
  <2>1. \A m \in 0..n : P[m] \in Seq(S)
    BY DEF Joins
  <2> QED
    BY <2>1, PiecesType DEF End
<1>1. 0 \in Good
  <2>1. k <= 0 => k = 0
    BY <1>0
  <2>2. Fits(k)
    BY <1>0
  <2> HIDE DEF Fits
  <2> QED
    BY <1>0, <2>1, <2>2
<1>2. ASSUME NEW m \in 0..n - 1, m \in Good PROVE m + 1 \in Good
  <2>1. PICK l \in 1..n : l = m + 1
    BY <1>0
  <2>2. m \in 0..n /\ l \in 0..n /\ m = l - 1
    BY <1>0, <2>1
  <2>3. CASE k <= m
    <3>0. PICK q : q = seqs[l]
      OBVIOUS
    <3>1. Fits(m)
      BY <1>2, <2>3
    <3>2. /\ q \in Seq(S)
          /\ End(P, l) = End(P, m) + Len(q)
          /\ \A j \in 1..End(P, m) : P[l][j] = P[m][j]
      BY <2>2, <3>0, JoinsLen
    <3>3. Len(q) \in Nat /\ End(P, k) \in Nat /\ End(P, m) \in Nat
      BY <1>0, <2>2, <3>2
    <3>4. End(P, k) <= End(P, l)
      BY <3>1, <3>2, <3>3
    <3>5. ASSUME NEW j \in 1..End(P, k) PROVE P[l][j] = P[k][j]
      <4>1. j \in 1..End(P, m)
        BY <3>1, <3>3
      <4> QED
        BY <3>1, <3>2, <4>1
    <3> QED
      BY <2>1, <2>2, <3>4, <3>5
  <2>4. CASE ~(k <= m)
    <3>1. Fits(k)
      BY <1>0
    <3>2. k <= l => k = l
      BY <1>0, <2>2, <2>4
    <3> HIDE DEF Fits
    <3> QED
      BY <2>1, <2>2, <3>1, <3>2
  <2> QED
    BY <2>3, <2>4
<1>3. \A m \in 0..n : m \in Good
  <2> HIDE DEF Good
  <2> QED
    BY <1>0, <1>1, <1>2, InductionUpTo
<1> QED
  BY <1>0, <1>3

(* Element j of the k-th sequence q stands that far into the joint one.    *)
LEMMA FlattenAt ==
    ASSUME NEW S, NEW seqs \in Pieces(S), NEW P, Joins(P, seqs, S),
           NEW k \in 1..Len(seqs), NEW h \in 0..Len(seqs), h = k - 1, NEW q, q = seqs[k]
    PROVE  \A j \in 1..Len(q) :
              /\ End(P, h) + j \in 1..Len(FlattenSeq(seqs))
              /\ FlattenSeq(seqs)[End(P, h) + j] = q[j]
<1> SUFFICES ASSUME NEW j \in 1..Len(q)
             PROVE  /\ End(P, h) + j \in 1..Len(FlattenSeq(seqs))
                    /\ FlattenSeq(seqs)[End(P, h) + j] = q[j]
  OBVIOUS
<1> DEFINE n == Len(seqs)
<1>0. n \in Nat /\ n \in 0..n /\ k \in 0..n /\ k <= n
  BY PiecesType
<1>1. FlattenSeq(seqs) = P[n]
  BY FlattenJoins
<1>2. q \in Seq(S) /\ End(P, h) \in Nat /\ End(P, k) = End(P, h) + Len(q)
  BY JoinsLen
<1>3. P[k][End(P, h) + j] = q[j]
  BY JoinsLen
<1>4. End(P, n) \in Nat /\ End(P, k) <= End(P, n) /\ \A i \in 1..End(P, k) : P[n][i] = P[k][i]
  BY <1>0, JoinsPrefix
<1>5. Len(q) \in Nat /\ j \in Nat /\ j >= 1 /\ j <= Len(q)
  BY <1>2
<1>6. End(P, h) + j \in 1..End(P, k) /\ End(P, h) + j \in 1..End(P, n)
  BY <1>2, <1>4, <1>5
<1>7. Len(FlattenSeq(seqs)) = End(P, n)
  BY <1>1 DEF End
<1>8. P[n][End(P, h) + j] = q[j]
  BY <1>3, <1>4, <1>6
<1> QED
  BY <1>1, <1>2, <1>6, <1>7, <1>8

(* Every place in the joint sequence is in one of the joined ones.         *)
LEMMA FlattenFrom ==
    ASSUME NEW S, NEW seqs \in Pieces(S), NEW P, Joins(P, seqs, S),
           NEW p \in 1..Len(FlattenSeq(seqs))
    PROVE  \E k \in 1..Len(seqs), h \in 0..Len(seqs) :
              h = k - 1 /\ End(P, h) < p /\ p <= End(P, k)
<1> DEFINE n == Len(seqs)
           Past == {m \in 0..n : p <= End(P, m)}
<1>0. n \in Nat /\ n \in 0..n /\ 0 \in 0..n
  BY PiecesType
<1>1. Len(FlattenSeq(seqs)) = End(P, n)
  BY FlattenJoins DEF End
<1>2. \A m \in 0..n : End(P, m) \in Nat
  BY DEF Joins, End
<1>3. End(P, 0) = 0
  BY DEF Joins, End
<1> HIDE DEF n
<1>4. p \in Nat /\ p >= 1 /\ p <= End(P, n)
  BY <1>0, <1>1, <1>2
<1>5. Past \in SUBSET Nat /\ n \in Past
  BY <1>0, <1>4
<1>6. PICK k \in Past : \A q \in Past : k <= q
  BY <1>5, LeastElement
<1>7. k \in 0..n /\ k # 0 /\ p <= End(P, k)
  BY <1>3, <1>4, <1>6
<1>8. k \in 1..n /\ k - 1 \in 0..n /\ ~(k <= k - 1)
  BY <1>0, <1>7
<1>9. k - 1 \notin Past
  BY <1>6, <1>8
<1>10. PICK h \in 0..n : h = k - 1
  BY <1>8
<1>11. End(P, h) < p
  BY <1>2, <1>4, <1>9, <1>10
<1> QED
  BY <1>7, <1>8, <1>10, <1>11 DEF n

(* Joining one-element sequences gives back their elements.                *)
LEMMA FlattenSingles ==
    ASSUME NEW S, NEW s \in Seq(S)
    PROVE  FlattenSeq([i \in DOMAIN s |-> <<s[i]>>]) = s
<1> DEFINE n == Len(s)
           seqs == [i \in DOMAIN s |-> <<s[i]>>]
           P == [k \in 0..n |-> SubSeq(s, 1, k)]
<1>0. n \in Nat /\ DOMAIN s = 1..n
  OBVIOUS
<1>1. seqs \in Pieces(S) /\ Len(seqs) = n
  <2>1. \A i \in 1..n : <<s[i]>> \in Seq(S)
    OBVIOUS
  <2> QED
    BY <1>0, <2>1 DEF Pieces
<1>2. ASSUME NEW k \in 0..n PROVE SubSeq(s, 1, k) \in Seq(S)
  BY <1>0
<1>3. ASSUME NEW k \in 1..n PROVE SubSeq(s, 1, k) = SubSeq(s, 1, k - 1) \o <<s[k]>>
  <2>1. 1 \in 1..n /\ k \in 1..n
    BY <1>0
  <2> QED
    BY <2>1, SubSeqRecursiveSecond
<1>4. SubSeq(s, 1, 0) = <<>>
  BY SubSeqEmpty
<1>5. Joins(P, seqs, S)
  <2>1. P \in [0..n -> Seq(S)] /\ P[0] = <<>>
    BY <1>0, <1>2, <1>4
  <2>2. ASSUME NEW k \in 1..n PROVE P[k] = P[k - 1] \o seqs[k]
    <3>1. k \in 0..n /\ k - 1 \in 0..n
      BY <1>0
    <3> QED
      BY <1>0, <1>3, <3>1
  <2> HIDE DEF P, seqs
  <2> QED
    BY <1>1, <2>1, <2>2 DEF Joins
<1>6. P[n] = s
  BY <1>0, SubSeqFull
<1> HIDE DEF P
<1>7. FlattenSeq(seqs) = P[Len(seqs)]
  BY <1>1, <1>5, FlattenJoins
<1> QED
  BY <1>1, <1>6, <1>7

-----------------------------------------------------------------------------
(* A scan of a text of n characters: at i it puts piece[i] before what it  *)
(* makes of the text from next[i] on.                                      *)
IsScan(f, n, piece, next) ==
    /\ f = [i \in 1..n + 1 |-> f[i]]
    /\ f[n + 1] = <<>>
    /\ \A i \in 1..n : f[i] = piece[i] \o f[next[i]]

(* There is such a scan when every step goes on to a later place.          *)
LEMMA ScanExists ==
    ASSUME NEW n \in Nat, NEW piece, NEW next, \A i \in 1..n : next[i] \in i + 1..n + 1
    PROVE  \E f : IsScan(f, n, piece, next)
<1> DEFINE Good(a) == \E f : f = [i \in a..n + 1 |->
                                    IF i > n THEN <<>> ELSE piece[i] \o f[next[i]]]
           S == {m \in 0..n : Good(n + 1 - m)}
<1>1. 0 \in S
  <2> DEFINE g == [i \in n + 1..n + 1 |-> <<>>]
  <2>1. \A i \in n + 1..n + 1 : i > n /\ g[i] = <<>>
    OBVIOUS
  <2>2. g = [i \in n + 1..n + 1 |-> g[i]]
    OBVIOUS
  <2> HIDE DEF g
  <2>3. g = [i \in n + 1..n + 1 |-> IF i > n THEN <<>> ELSE piece[i] \o g[next[i]]]
    BY <2>1, <2>2
  <2>4. Good(n + 1)
    BY <2>3
  <2>5. n + 1 - 0 = n + 1 /\ 0 \in 0..n
    OBVIOUS
  <2> HIDE DEF Good
  <2> QED
    BY <2>4, <2>5
<1>2. ASSUME NEW m \in 0..n - 1, m \in S PROVE m + 1 \in S
  <2>1. PICK a \in 1..n : a = n - m
    OBVIOUS
  <2>2. a + 1 = n + 1 - m /\ a = n + 1 - (m + 1) /\ m + 1 \in 0..n /\ a \in Nat
    BY <2>1
  <2>3. Good(a + 1)
    <3> HIDE DEF Good
    <3> QED
      BY <1>2, <2>2
  <2>4. PICK g : g = [i \in a + 1..n + 1 |-> IF i > n THEN <<>> ELSE piece[i] \o g[next[i]]]
    BY <2>3
  <2> DEFINE h == [i \in a..n + 1 |-> IF i = a THEN piece[a] \o g[next[a]] ELSE g[i]]
  <2>5. ASSUME NEW i \in a..n + 1
        PROVE  h[i] = IF i > n THEN <<>> ELSE piece[i] \o h[next[i]]
    <3>1. CASE i = a
      <4>1. i \in 1..n /\ ~(i > n) /\ next[i] \in a + 1..n + 1
        BY <3>1
      <4>2. next[i] \in a..n + 1 /\ next[i] # a
        BY <4>1
      <4>3. h[next[i]] = g[next[i]]
        BY <4>2
      <4> QED
        BY <3>1, <4>1, <4>3
    <3>2. CASE i # a /\ i > n
      <4>1. i \in a + 1..n + 1
        BY <3>2
      <4> QED
        BY <2>4, <3>2, <4>1
    <3>3. CASE i # a /\ ~(i > n)
      <4>1. i \in a + 1..n + 1 /\ i \in 1..n
        BY <3>3
      <4>2. next[i] \in a..n + 1 /\ next[i] # a
        BY <4>1
      <4>3. h[next[i]] = g[next[i]] /\ h[i] = g[i]
        BY <3>3, <4>2
      <4>4. g[i] = piece[i] \o g[next[i]]
        BY <2>4, <3>3, <4>1
      <4> QED
        BY <3>3, <4>3, <4>4
    <3> QED
      BY <3>1, <3>2, <3>3
  <2>6. h = [i \in a..n + 1 |-> IF i > n THEN <<>> ELSE piece[i] \o h[next[i]]]
    BY <2>5
  <2>7. Good(a)
    BY <2>6
  <2> HIDE DEF Good
  <2> QED
    BY <2>2, <2>7
<1>3. n \in S
  <2> HIDE DEF S
  <2>1. \A m \in 0..n : m \in S
    BY <1>1, <1>2, InductionUpTo
  <2> QED
    BY <2>1
<1>4. Good(n + 1 - n) /\ n + 1 - n = 1
  <2> HIDE DEF Good
  <2> QED
    BY <1>3
<1>5. Good(1)
  <2> HIDE DEF Good
  <2> QED
    BY <1>4
<1>6. PICK f : f = [i \in 1..n + 1 |-> IF i > n THEN <<>> ELSE piece[i] \o f[next[i]]]
  BY <1>5
<1>7. n + 1 \in 1..n + 1 /\ n + 1 > n /\ \A i \in 1..n : i \in 1..n + 1 /\ ~(i > n)
  OBVIOUS
<1>8. \A i \in 1..n + 1 : f[i] = IF i > n THEN <<>> ELSE piece[i] \o f[next[i]]
  BY <1>6, Zenon
<1>9. f = [i \in 1..n + 1 |-> f[i]]
  BY <1>6, Zenon
<1>10. IsScan(f, n, piece, next)
  BY <1>7, <1>8, <1>9, Zenon DEF IsScan
<1> QED
  BY <1>10, Zenon

(* A scan whose pieces are sequences over S makes sequences over S.        *)
LEMMA ScanType ==
    ASSUME NEW S, NEW n \in Nat, NEW piece, NEW next, NEW f,
           \A i \in 1..n : next[i] \in i + 1..n + 1,
           \A i \in 1..n : piece[i] \in Seq(S),
           IsScan(f, n, piece, next)
    PROVE  \A i \in 1..n + 1 : f[i] \in Seq(S)
<1> DEFINE T == {m \in 0..n : \A i \in n + 1 - m..n + 1 : f[i] \in Seq(S)}
<1>0. f[n + 1] = <<>> /\ \A i \in 1..n : f[i] = piece[i] \o f[next[i]]
  BY DEF IsScan
<1>1. 0 \in T
  <2>1. \A i \in n + 1 - 0..n + 1 : i = n + 1
    OBVIOUS
  <2>2. f[n + 1] \in Seq(S)
    BY <1>0, EmptySeq
  <2>3. \A i \in n + 1 - 0..n + 1 : f[i] \in Seq(S)
    BY <2>1, <2>2, Zenon
  <2>4. 0 \in 0..n
    OBVIOUS
  <2> QED
    BY <2>3, <2>4, Zenon
<1>2. ASSUME NEW m \in 0..n - 1, m \in T PROVE m + 1 \in T
  <2>1. PICK a \in 1..n : a = n - m
    OBVIOUS
  <2>2. a + 1 = n + 1 - m /\ a = n + 1 - (m + 1) /\ m + 1 \in 0..n /\ a \in Nat
    BY <2>1
  <2>3. \A i \in a + 1..n + 1 : f[i] \in Seq(S)
    BY <1>2, <2>2
  <2>4. piece[a] \in Seq(S) /\ f[next[a]] \in Seq(S)
    BY <2>3
  <2>5. f[a] \in Seq(S)
    BY <1>0, <2>4, ConcatProperties
  <2>6. \A i \in a..n + 1 : i = a \/ i \in a + 1..n + 1
    BY <2>2
  <2> QED
    BY <2>2, <2>3, <2>5, <2>6
<1>3. \A m \in 0..n : m \in T
  <2> HIDE DEF T
  <2> QED
    BY <1>1, <1>2, InductionUpTo
<1>4. n \in 0..n /\ n + 1 - n = 1
  OBVIOUS
<1>5. n \in T
  <2> HIDE DEF T
  <2> QED
    BY <1>3, <1>4
<1>6. \A i \in n + 1 - n..n + 1 : f[i] \in Seq(S)
  BY <1>5, Zenon
<1> QED
  BY <1>4, <1>6, Zenon

(* A scan that makes out[k] of the k-th of the joined sequences, when it   *)
(* comes to its start, makes the joint sequence of out.                    *)
MakesEach(f, enc, out, P, S) ==
    /\ \A i \in 1..End(P, Len(enc)) + 1 : f[i] \in Seq(S)
    /\ f[End(P, Len(enc)) + 1] = <<>>
    /\ \A k \in 1..Len(enc) : \A h \in 0..Len(enc) :
          h = k - 1 => f[End(P, h) + 1] = out[k] \o f[End(P, k) + 1]

(* That is what such a scan makes of the whole.                            *)
LEMMA ScanJoins ==
    ASSUME NEW S, NEW enc \in Pieces(S), NEW out \in Pieces(S), Len(out) = Len(enc),
           NEW P, Joins(P, enc, S), NEW f, MakesEach(f, enc, out, P, S)
    PROVE  f[1] = FlattenSeq(out)
<1> DEFINE n == Len(enc)
<1>0. /\ n \in Nat
      /\ \A k \in 1..n : out[k] \in Seq(S)
  BY PiecesType
<1>f. /\ \A i \in 1..End(P, n) + 1 : f[i] \in Seq(S)
      /\ f[End(P, n) + 1] = <<>>
      /\ \A k \in 1..n : \A h \in 0..n :
            h = k - 1 => f[End(P, h) + 1] = out[k] \o f[End(P, k) + 1]
  BY DEF MakesEach
<1>1. PICK Q : Joins(Q, out, S)
  BY JoinsExists
<1>2. /\ \A m \in 0..n : Q[m] \in Seq(S)
      /\ Q[0] = <<>>
      /\ \A k \in 1..n : Q[k] = Q[k - 1] \o out[k]
  BY <1>1 DEF Joins
<1>3. FlattenSeq(out) = Q[n]
  BY <1>1, FlattenJoins
<1>4. End(P, 0) = 0
  <2>1. P[0] = <<>>
    BY DEF Joins
  <2> QED
    BY <2>1 DEF End
<1>5. ASSUME NEW k \in 0..n PROVE End(P, k) + 1 \in 1..End(P, n) + 1
  <2>1. n \in 0..n /\ k <= n
    BY <1>0
  <2>2. End(P, k) \in Nat /\ End(P, n) \in Nat /\ End(P, k) <= End(P, n)
    BY <2>1, JoinsPrefix
  <2> QED
    BY <2>2
<1> DEFINE T == {m \in 0..n : f[1] = Q[m] \o f[End(P, m) + 1]}
<1>6. 0 \in T
  <2>1. f[1] \in Seq(S) /\ 0 + 1 = 1 /\ 0 \in 0..n
    BY <1>0, <1>f, <1>4, <1>5
  <2>2. f[1] = <<>> \o f[1]
    BY <2>1
  <2> QED
    BY <1>2, <1>4, <2>1, <2>2
<1>7. ASSUME NEW m \in 0..n - 1, m \in T PROVE m + 1 \in T
  <2>1. PICK k \in 1..n : k = m + 1
    BY <1>0
  <2>2. m \in 0..n /\ k \in 0..n /\ m = k - 1
    BY <1>0, <2>1
  <2>3. f[1] = Q[m] \o f[End(P, m) + 1] /\ f[End(P, m) + 1] = out[k] \o f[End(P, k) + 1]
    BY <1>7, <1>f, <2>2
  <2>4. Q[m] \in Seq(S) /\ out[k] \in Seq(S) /\ f[End(P, k) + 1] \in Seq(S)
    BY <1>0, <1>f, <1>2, <1>5, <2>2
  <2>5. Q[k] = Q[m] \o out[k]
    BY <1>2, <2>2
  <2>6. PICK a, b, c : a = Q[m] /\ b = out[k] /\ c = f[End(P, k) + 1]
    OBVIOUS
  <2>7. a \o (b \o c) = (a \o b) \o c
    <3>1. a \in Seq(S) /\ b \in Seq(S) /\ c \in Seq(S)
      BY <2>4, <2>6
    <3> QED
      BY <3>1, ConcatAssociative, SMTT(30)
  <2>8. f[1] = Q[k] \o f[End(P, k) + 1]
    BY <2>3, <2>5, <2>6, <2>7
  <2> QED
    BY <2>1, <2>2, <2>8
<1>8. n \in T
  <2> HIDE DEF T
  <2>1. \A m \in 0..n : m \in T
    BY <1>0, <1>6, <1>7, InductionUpTo
  <2> QED
    BY <1>0, <2>1
<1>9. f[1] = Q[n] \o <<>> /\ Q[n] \in Seq(S)
  BY <1>0, <1>f, <1>2, <1>8
<1>10. PICK q : q = Q[n]
  OBVIOUS
<1>11. q \o <<>> = q
  BY <1>9, <1>10
<1> QED
  BY <1>3, <1>9, <1>10, <1>11
-----------------------------------------------------------------------------
(* SumFunction adds the values of a function in an order that CHOOSE picks. *)
Adds(it, f) ==
    it = [s \in SUBSET DOMAIN f |->
            IF s = {} THEN 0
            ELSE f[CHOOSE x \in s : TRUE] + it[s \ {CHOOSE x \in s : TRUE}]]

Naturals(f, n) == DOMAIN f = 1..n /\ \A i \in 1..n : f[i] \in Nat

(* Sets of positions.                                                      *)
LEMMA PlacesCard ==
    ASSUME NEW n \in Nat, NEW s \in SUBSET (1..n)
    PROVE  /\ IsFiniteSet(s)
           /\ Cardinality(s) \in 0..n
           /\ Cardinality(s) = 0 <=> s = {}
           /\ \A x \in s : Cardinality(s \ {x}) = Cardinality(s) - 1
<1>1. IsFiniteSet(1..n) /\ Cardinality(1..n) = n
  BY FS_Interval
<1>2. IsFiniteSet(s) /\ Cardinality(s) <= Cardinality(1..n)
  BY <1>1, FS_Subset
<1>3. Cardinality(s) \in Nat
  BY <1>2, FS_CardinalityType
<1>4. Cardinality(s) = 0 <=> s = {}
  BY <1>2, FS_EmptySet
<1>5. \A x \in s : Cardinality(s \ {x}) = Cardinality(s) - 1
  BY <1>2, FS_RemoveElement
<1> QED
  BY <1>1, <1>2, <1>3, <1>4, <1>5

(* The recursive function by which SumFunction is defined exists.          *)
LEMMA AddsExists ==
    ASSUME NEW n \in Nat, NEW f, Naturals(f, n)
    PROVE  /\ \E it : Adds(it, f)
           /\ SumFunction(f) = (CHOOSE it : Adds(it, f))[1..n]
<1> DEFINE D == 1..n
           U(m) == {s \in SUBSET D : Cardinality(s) <= m}
           c(s) == CHOOSE x \in s : TRUE
           Good(m) == \E g : g = [s \in U(m) |-> IF s = {} THEN 0 ELSE f[c(s)] + g[s \ {c(s)}]]
           S == {m \in 0..n : Good(m)}
<1>0. DOMAIN f = D
  BY DEF Naturals
<1>2. \A s \in SUBSET D : /\ IsFiniteSet(s) /\ Cardinality(s) \in 0..n
                          /\ Cardinality(s) = 0 <=> s = {}
                          /\ \A x \in s : Cardinality(s \ {x}) = Cardinality(s) - 1
  BY PlacesCard
<1>3. \A s \in SUBSET D : s # {} => c(s) \in s
  OBVIOUS
<1>4. 0 \in S
  <2> DEFINE g == [s \in U(0) |-> 0]
  <2>1. \A s \in U(0) : s = {}
    BY <1>2
  <2>2. g = [s \in U(0) |-> IF s = {} THEN 0 ELSE f[c(s)] + g[s \ {c(s)}]]
    BY <2>1
  <2> HIDE DEF U, c, g
  <2>3. Good(0)
    BY <2>2
  <2> QED
    BY <2>3
<1>5. ASSUME NEW m \in 0..n - 1, m \in S PROVE m + 1 \in S
  <2>1. PICK g : g = [s \in U(m) |-> IF s = {} THEN 0 ELSE f[c(s)] + g[s \ {c(s)}]]
    BY <1>5
  <2> DEFINE h == [s \in U(m + 1) |-> IF s = {} THEN 0 ELSE f[c(s)] + g[s \ {c(s)}]]
  <2>2. U(m) \subseteq U(m + 1)
    BY <1>2
  <2>3. \A s \in U(m + 1) : s # {} => s \ {c(s)} \in U(m)
    BY <1>2, <1>3
  <2>4. \A s \in U(m) : h[s] = g[s]
    <3> SUFFICES ASSUME NEW s \in U(m) PROVE h[s] = g[s]
      OBVIOUS
    <3>1. s \in U(m + 1)
      BY <2>2
    <3> HIDE DEF U, c
    <3> QED
      BY <2>1, <3>1
  <2>5. h = [s \in U(m + 1) |-> IF s = {} THEN 0 ELSE f[c(s)] + h[s \ {c(s)}]]
    <3>1. \A s \in U(m + 1) : s # {} => h[s \ {c(s)}] = g[s \ {c(s)}]
      BY <2>3, <2>4
    <3> HIDE DEF U, c
    <3> QED
      BY <3>1
  <2>6. Good(m + 1)
    <3> HIDE DEF U, c, h
    <3> QED
      BY <2>5
  <2> HIDE DEF Good
  <2> QED
    BY <2>6
<1>6. Good(n)
  <2> HIDE DEF Good
  <2>1. \A m \in 0..n : m \in S
    <3> HIDE DEF S
    <3> QED
      BY <1>4, <1>5, InductionUpTo
  <2> QED
    BY <2>1
<1>7. U(n) = SUBSET DOMAIN f
  BY <1>0, <1>2
<1>8. \E it : Adds(it, f)
  <2> HIDE DEF U
  <2> QED
    BY <1>6, <1>7 DEF Adds
<1>9. SumFunction(f) = (CHOOSE it : Adds(it, f))[DOMAIN f]
  BY Zenon DEF SumFunction, SumFunctionOnSet, FoldFunctionOnSet, MapThenFoldSet, Adds
<1> QED
  BY <1>0, <1>8, <1>9

(* Whichever element is taken first, the sum is the same.                  *)
LEMMA AddsAny ==
    ASSUME NEW n \in Nat, NEW f, Naturals(f, n), NEW it, Adds(it, f)
    PROVE  /\ it[{}] = 0
           /\ \A s \in SUBSET (1..n) : it[s] \in Nat
           /\ \A s \in SUBSET (1..n) : \A x \in s : it[s] = f[x] + it[s \ {x}]
<1> DEFINE D == 1..n
           c(s) == CHOOSE x \in s : TRUE
           Good(s) == it[s] \in Nat /\ \A x \in s : it[s] = f[x] + it[s \ {x}]
           S == {m \in 0..n : \A s \in SUBSET D : Cardinality(s) <= m => Good(s)}
<1>0. DOMAIN f = D /\ \A i \in D : f[i] \in Nat
  BY DEF Naturals
<1>2. \A s \in SUBSET D : /\ IsFiniteSet(s) /\ Cardinality(s) \in 0..n
                          /\ Cardinality(s) = 0 <=> s = {}
                          /\ \A x \in s : Cardinality(s \ {x}) = Cardinality(s) - 1
  BY PlacesCard
<1>3. /\ it[{}] = 0
      /\ \A s \in SUBSET D : s # {} => c(s) \in s /\ it[s] = f[c(s)] + it[s \ {c(s)}]
  BY <1>0 DEF Adds
<1> HIDE DEF c
<1>4. 0 \in S
  <2>1. \A s \in SUBSET D : Cardinality(s) <= 0 => s = {}
    BY <1>2
  <2>2. Good({})
    BY <1>3
  <2> HIDE DEF Good
  <2>3. \A s \in SUBSET D : Cardinality(s) <= 0 => Good(s)
    BY <2>1, <2>2
  <2> QED
    BY <2>3
<1>5. ASSUME NEW m \in 0..n - 1, m \in S PROVE m + 1 \in S
  <2> SUFFICES ASSUME NEW s \in SUBSET D, Cardinality(s) <= m + 1 PROVE Good(s)
    <3> HIDE DEF Good
    <3> QED
      OBVIOUS
  <2>1. \A y \in s : Good(s \ {y})
    <3> SUFFICES ASSUME NEW y \in s PROVE Good(s \ {y})
      OBVIOUS
    <3>1. Cardinality(s \ {y}) <= m /\ s \ {y} \in SUBSET D
      BY <1>2
    <3> HIDE DEF Good
    <3> QED
      BY <1>5, <3>1
  <2>2. CASE s = {}
    BY <1>3, <2>2
  <2>3. CASE s # {}
    <3>1. c(s) \in s /\ it[s] = f[c(s)] + it[s \ {c(s)}]
      BY <1>3, <2>3
    <3>2. f[c(s)] \in Nat /\ it[s \ {c(s)}] \in Nat
      BY <1>0, <2>1, <3>1
    <3>3. it[s] \in Nat
      BY <3>1, <3>2
    <3>4. ASSUME NEW x \in s, x # c(s) PROVE it[s] = f[x] + it[s \ {x}]
      <4> DEFINE u == s \ {c(s), x}
      <4>1. (s \ {c(s)}) \ {x} = u /\ (s \ {x}) \ {c(s)} = u
        OBVIOUS
      <4>2. x \in s \ {c(s)} /\ c(s) \in s \ {x}
        BY <3>1, <3>4
      <4>3. it[s \ {c(s)}] = f[x] + it[u]
        BY <2>1, <3>1, <4>1, <4>2
      <4>4. it[s \ {x}] = f[c(s)] + it[u]
        BY <2>1, <4>1, <4>2
      <4>5. f[x] \in Nat /\ it[s \ {x}] \in Nat /\ it[u] \in Nat
        <5>1. Good(s \ {c(s), x})
          <6>1. Cardinality(s \ {x}) <= m
            BY <1>2
          <6>0. s \ {x} \in SUBSET D
            OBVIOUS
          <6>2. Cardinality((s \ {x}) \ {c(s)}) = Cardinality(s \ {x}) - 1
                  /\ Cardinality(s \ {x}) \in Nat
            <7>1. PICK y, v : y = c(s) /\ v = s \ {x}
              OBVIOUS
            <7>2. v \in SUBSET D /\ y \in v
              BY <4>2, <6>0, <7>1
            <7>3. Cardinality(v \ {y}) = Cardinality(v) - 1 /\ Cardinality(v) \in 0..n
              BY <1>2, <7>2
            <7> QED
              BY <7>1, <7>3
          <6>3. Cardinality(u) <= m
            BY <4>1, <6>1, <6>2
          <6>4. u \in SUBSET D
            OBVIOUS
          <6> HIDE DEF Good
          <6> QED
            BY <1>5, <6>3, <6>4
        <5> QED
          BY <1>0, <2>1, <5>1
      <4> HIDE DEF u
      <4> QED
        BY <3>1, <3>2, <4>3, <4>4, <4>5
    <3> QED
      BY <3>1, <3>3, <3>4
  <2> QED
    BY <2>2, <2>3
<1>6. \A s \in SUBSET D : Good(s)
  <2>1. \A m \in 0..n : m \in S
    <3> HIDE DEF S
    <3> QED
      BY <1>4, <1>5, InductionUpTo
  <2>2. n \in S
    BY <2>1
  <2> HIDE DEF Good
  <2> QED
    BY <1>2, <2>2
<1> QED
  BY <1>3, <1>6

(* The sum of one value more.                                              *)
LEMMA SumGrows ==
    ASSUME NEW n \in Nat, NEW f, Naturals(f, n), NEW g, Naturals(g, n + 1),
           \A i \in 1..n : g[i] = f[i]
    PROVE  /\ SumFunction(f) \in Nat
           /\ SumFunction(g) = SumFunction(f) + g[n + 1]
<1>1. PICK a : Adds(a, f) /\ SumFunction(f) = a[1..n]
  BY AddsExists
<1>2. n + 1 \in Nat
  OBVIOUS
<1>3. PICK b : Adds(b, g) /\ SumFunction(g) = b[1..n + 1]
  BY <1>2, AddsExists
<1>4. /\ a[{}] = 0
      /\ \A s \in SUBSET (1..n) : a[s] \in Nat
      /\ \A s \in SUBSET (1..n) : \A x \in s : a[s] = f[x] + a[s \ {x}]
  BY <1>1, AddsAny
<1>5. /\ b[{}] = 0
      /\ \A s \in SUBSET (1..n + 1) : b[s] \in Nat
      /\ \A s \in SUBSET (1..n + 1) : \A x \in s : b[s] = g[x] + b[s \ {x}]
  BY <1>2, <1>3, AddsAny
<1>6. \A k \in 1..n + 1 : k \in 1..k /\ 1..k \ {k} = 1..k - 1 /\ 1..k \in SUBSET (1..n + 1)
  OBVIOUS
<1>7. \A k \in 0..n : a[1..k] = b[1..k]
  <2> DEFINE S == {k \in 0..n : a[1..k] = b[1..k]}
  <2>1. 0 \in S
    <3>1. 1..0 = {}
      OBVIOUS
    <3> QED
      BY <1>4, <1>5, <3>1
  <2>2. ASSUME NEW k \in 0..n - 1, k \in S PROVE k + 1 \in S
    <3>1. PICK l, u, v : l = k + 1 /\ u = 1..l /\ v = 1..k
      OBVIOUS
    <3>2. /\ l \in 1..n /\ l \in 1..n + 1 /\ l \in 0..n
          /\ u \in SUBSET (1..n) /\ u \in SUBSET (1..n + 1)
          /\ l \in u /\ u \ {l} = v
      BY <3>1
    <3>3. a[u] = f[l] + a[v]
      BY <1>4, <3>2
    <3>4. b[u] = g[l] + b[v]
      BY <1>5, <3>2
    <3>5. a[v] = b[v] /\ f[l] = g[l]
      BY <2>2, <3>1, <3>2
    <3> QED
      BY <3>1, <3>2, <3>3, <3>4, <3>5
  <2>3. \A k \in 0..n : k \in S
    <3> HIDE DEF S
    <3> QED
      BY <2>1, <2>2, InductionUpTo
  <2> QED
    BY <2>3
<1>8. b[1..n + 1] = g[n + 1] + b[1..n]
  <2>1. n + 1 \in 1..n + 1 /\ (n + 1) - 1 = n
    OBVIOUS
  <2> QED
    BY <1>5, <1>6, <2>1
<1>9. g[n + 1] \in Nat
  BY DEF Naturals
<1>10. 1..n \in SUBSET (1..n) /\ n \in 0..n
  OBVIOUS
<1> QED
  BY <1>1, <1>3, <1>4, <1>7, <1>8, <1>9, <1>10

(* A sum of natural numbers is a natural number.                           *)
LEMMA SumType ==
    ASSUME NEW n \in Nat, NEW f, Naturals(f, n)
    PROVE  SumFunction(f) \in Nat
<1>1. PICK a : Adds(a, f) /\ SumFunction(f) = a[1..n]
  BY AddsExists
<1>2. \A s \in SUBSET (1..n) : a[s] \in Nat
  BY <1>1, AddsAny
<1>3. 1..n \in SUBSET (1..n)
  OBVIOUS
<1> QED
  BY <1>1, <1>2, <1>3

(* A sum of zeros.                                                         *)
LEMMA SumZeros ==
    ASSUME NEW n \in Nat, NEW f, Naturals(f, n), \A i \in 1..n : f[i] = 0
    PROVE  SumFunction(f) = 0
<1>1. PICK a : Adds(a, f) /\ SumFunction(f) = a[1..n]
  BY AddsExists
<1>2. /\ a[{}] = 0
      /\ \A s \in SUBSET (1..n) : a[s] \in Nat
      /\ \A s \in SUBSET (1..n) : \A x \in s : a[s] = f[x] + a[s \ {x}]
  BY <1>1, AddsAny
<1> DEFINE S == {k \in 0..n : a[1..k] = 0}
<1>3. 0 \in S
  <2>1. 1..0 = {}
    OBVIOUS
  <2> QED
    BY <1>2, <2>1
<1>4. ASSUME NEW k \in 0..n - 1, k \in S PROVE k + 1 \in S
  <2>1. PICK l, u, v : l = k + 1 /\ u = 1..l /\ v = 1..k
    OBVIOUS
  <2>2. l \in 1..n /\ l \in 0..n /\ u \in SUBSET (1..n) /\ l \in u /\ u \ {l} = v
    BY <2>1
  <2>3. a[u] = f[l] + a[v]
    BY <1>2, <2>2
  <2>4. a[v] = 0 /\ f[l] = 0
    BY <1>4, <2>1, <2>2
  <2> QED
    BY <2>1, <2>2, <2>3, <2>4
<1>5. \A k \in 0..n : k \in S
  <2> HIDE DEF S
  <2> QED
    BY <1>3, <1>4, InductionUpTo
<1> QED
  BY <1>1, <1>5
-----------------------------------------------------------------------------
(* FoldLeft is a recursive function on the sets of places of a sequence,   *)
(* which takes the last place of a set first.                              *)
IsMax(t, x) == x \in t /\ \A y \in t : x >= y

(* The largest element is the one that is as large as the others.          *)
LEMMA MaxIs ==
    ASSUME NEW t \in SUBSET Int, NEW x, IsMax(t, x)
    PROVE  Max(t) = x
<1>1. \A z \in t : (\A y \in t : z >= y) => z = x
  BY DEF IsMax
<1> QED
  BY <1>1 DEF Max, IsMax

(* A set of the first m + 1 numbers has a last one, and what is left are   *)
(* some of the first m.                                                    *)
LEMMA LastPlace ==
    ASSUME NEW m \in Nat, NEW t \in SUBSET (1..m + 1), t # {}
    PROVE  Max(t) \in t /\ t \ {Max(t)} \in SUBSET (1..m)
<1>1. t \in SUBSET Nat /\ \A y \in t : y <= m + 1
  OBVIOUS
<1> DEFINE R == {m + 1 - y : y \in t}
<1>2. R \in SUBSET Nat /\ R # {}
  <2>1. \A y \in t : m + 1 - y \in Nat
    BY <1>1
  <2> QED
    BY <2>1
<1>3. PICK p \in R : \A q \in R : p <= q
  BY <1>2, LeastElement
<1>4. PICK x \in t : p = m + 1 - x
  BY <1>3
<1>5. \A y \in t : x >= y
  <2> SUFFICES ASSUME NEW y \in t PROVE x >= y
    OBVIOUS
  <2>1. m + 1 - x <= m + 1 - y
    BY <1>3, <1>4
  <2> QED
    BY <1>1, <1>4, <2>1
<1>6. Max(t) = x
  BY <1>1, <1>5, MaxIs DEF IsMax
<1>7. t \ {x} \in SUBSET (1..m)
  <2> SUFFICES ASSUME NEW y \in t, y # x PROVE y \in 1..m
    OBVIOUS
  <2>1. y \in Nat /\ x \in Nat /\ y <= x /\ x <= m + 1 /\ y >= 1
    BY <1>1, <1>5
  <2> QED
    BY <2>1
<1> QED
  BY <1>6, <1>7

(* The last of the first k numbers.                                        *)
LEMMA FirstPlaces ==
    ASSUME NEW n \in Nat, NEW k \in 1..n, NEW m, m = k - 1, NEW t, t = 1..k
    PROVE  /\ t \in SUBSET (1..n) /\ t # {} /\ Max(t) = k
           /\ t \ {k} = 1..m
<1>1. IsMax(t, k) /\ t \in SUBSET Int
  BY DEF IsMax
<1>2. Max(t) = k
  BY <1>1, MaxIs
<1>3. t \in SUBSET (1..n) /\ t # {} /\ t \ {k} = 1..m
  OBVIOUS
<1> QED
  BY <1>2, <1>3

(* The function by which a fold with such steps is defined.                *)
Folds(it, step, b, s) ==
    it = [t \in SUBSET DOMAIN s |->
            IF t = {} THEN b ELSE step[<<it[t \ {Max(t)}], s[Max(t)]>>]]

(* It exists when the steps stay among the states St.                      *)
LEMMA FoldsExist ==
    ASSUME NEW St, NEW Ch, NEW step \in [St \X Ch -> St], NEW b \in St, NEW s \in Seq(Ch)
    PROVE  \E it : Folds(it, step, b, s) /\ \A t \in SUBSET DOMAIN s : it[t] \in St
<1> DEFINE D == DOMAIN s
           n == Len(s)
           U(m) == SUBSET (1..m)
           Good(m) == \E g : /\ g = [t \in U(m) |->
                                       IF t = {} THEN b ELSE step[<<g[t \ {Max(t)}], s[Max(t)]>>]]
                             /\ \A t \in U(m) : g[t] \in St
           S == {m \in 0..n : Good(m)}
<1>0. n \in Nat /\ D = 1..n /\ \A i \in 1..n : s[i] \in Ch
  OBVIOUS
<1>1. \A m \in 0..n - 1 : \A t \in U(m + 1) :
         t # {} => Max(t) \in t /\ t \ {Max(t)} \in U(m)
  BY LastPlace
<1>2. 0 \in S
  <2> DEFINE g == [t \in U(0) |-> b]
  <2>1. \A t \in U(0) : t = {}
    OBVIOUS
  <2>2. /\ g = [t \in U(0) |-> IF t = {} THEN b ELSE step[<<g[t \ {Max(t)}], s[Max(t)]>>]]
        /\ \A t \in U(0) : g[t] \in St
    BY <2>1
  <2> HIDE DEF g, U
  <2>3. Good(0)
    BY <2>2
  <2>4. 0 \in 0..n
    BY <1>0
  <2> HIDE DEF Good
  <2> QED
    BY <2>3, <2>4
<1>3. ASSUME NEW m \in 0..n - 1, m \in S PROVE m + 1 \in S
  <2>1. PICK g : /\ g = [t \in U(m) |->
                            IF t = {} THEN b ELSE step[<<g[t \ {Max(t)}], s[Max(t)]>>]]
                 /\ \A t \in U(m) : g[t] \in St
    BY <1>3
  <2> DEFINE h == [t \in U(m + 1) |->
                     IF t = {} THEN b ELSE step[<<g[t \ {Max(t)}], s[Max(t)]>>]]
  <2>2. U(m) \subseteq U(m + 1)
    BY <1>0
  <2>3. \A t \in U(m) : h[t] = g[t]
    <3> SUFFICES ASSUME NEW t \in U(m) PROVE h[t] = g[t]
      OBVIOUS
    <3>1. t \in U(m + 1)
      BY <2>2
    <3> HIDE DEF U
    <3> QED
      BY <2>1, <3>1
  <2>4. \A t \in U(m + 1) : h[t] \in St
    <3> SUFFICES ASSUME NEW t \in U(m + 1), t # {} PROVE h[t] \in St
      OBVIOUS
    <3>1. Max(t) \in t /\ t \ {Max(t)} \in U(m)
      BY <1>1
    <3>2. Max(t) \in 1..n
      <4>1. t \subseteq 1..n
        BY <1>0
      <4> QED
        BY <3>1, <4>1
    <3> HIDE DEF U
    <3> QED
      BY <1>0, <2>1, <3>1, <3>2
  <2>5. h = [t \in U(m + 1) |-> IF t = {} THEN b ELSE step[<<h[t \ {Max(t)}], s[Max(t)]>>]]
    <3>1. \A t \in U(m + 1) : t # {} => h[t \ {Max(t)}] = g[t \ {Max(t)}]
      BY <1>1, <2>3
    <3> HIDE DEF U
    <3> QED
      BY <3>1
  <2>6. Good(m + 1)
    <3> HIDE DEF U, h
    <3> QED
      BY <2>4, <2>5
  <2> HIDE DEF Good
  <2> QED
    BY <1>0, <2>6
<1>4. Good(n)
  <2> HIDE DEF Good
  <2>1. \A m \in 0..n : m \in S
    <3> HIDE DEF S
    <3> QED
      BY <1>0, <1>2, <1>3, InductionUpTo
  <2> QED
    BY <1>0, <2>1
<1>5. U(n) = SUBSET DOMAIN s
  BY <1>0
<1> HIDE DEF U
<1> QED
  BY <1>4, <1>5 DEF Folds

(* The first m elements are the first m - 1 and the m-th.                  *)
LEMMA AppendFirst ==
    ASSUME NEW S, NEW s \in Seq(S), NEW m \in 1..Len(s), NEW k, k = m - 1
    PROVE  Append(SubSeq(s, 1, k), s[m]) = SubSeq(s, 1, m)
<1>1. 1 \in 1..Len(s)
  OBVIOUS
<1>2. SubSeq(s, 1, m) = SubSeq(s, 1, m - 1) \o <<s[m]>>
  BY <1>1, SubSeqRecursiveSecond
<1>3. SubSeq(s, 1, k) \in Seq(S)
  OBVIOUS
<1>4. PICK x, y : x = SubSeq(s, 1, k) /\ y = s[m]
  OBVIOUS
<1>5. x \o <<y>> = Append(x, y)
  BY <1>3, <1>4
<1> QED
  BY <1>2, <1>4, <1>5

(* A tuple grows by one.                                                   *)
LEMMA AppendTuple ==
    ASSUME NEW x, NEW y, NEW z
    PROVE  Append(<<x>>, y) = <<x, y>> /\ Append(<<x, y>>, z) = <<x, y, z>>
<1>1. PICK S : S = {x, y, z}
  OBVIOUS
<1>2. PICK s, t, u : s = <<x>> /\ t = <<x, y>> /\ u = <<x, y, z>>
  OBVIOUS
<1>3. /\ s \in Seq(S) /\ Len(s) = 1 /\ s[1] = x
      /\ t \in Seq(S) /\ Len(t) = 2 /\ t[1] = x /\ t[2] = y
      /\ u \in Seq(S) /\ Len(u) = 3 /\ u[1] = x /\ u[2] = y /\ u[3] = z
  BY <1>1, <1>2
<1>4. y \in S /\ z \in S
  BY <1>1
<1>5. PICK a, b : a = Append(s, y) /\ b = Append(t, z)
  OBVIOUS
<1>9. \A q \in Seq(S) : \A v \in S : \A k \in 1..Len(q) : Append(q, v)[k] = q[k]
  BY AppendProperties
<1>6. a \in Seq(S) /\ Len(a) = 2 /\ a[1] = x /\ a[2] = y
  <2>1. a \in Seq(S) /\ Len(a) = Len(s) + 1 /\ a[Len(s) + 1] = y
    BY <1>3, <1>4, <1>5, AppendProperties
  <2>2. a[1] = s[1]
    BY <1>3, <1>4, <1>5, <1>9
  <2> QED
    BY <1>3, <2>1, <2>2
<1>8. b \in Seq(S) /\ Len(b) = 3 /\ b[1] = x /\ b[2] = y /\ b[3] = z
  <2>1. b \in Seq(S) /\ Len(b) = Len(t) + 1 /\ b[Len(t) + 1] = z
    BY <1>3, <1>4, <1>5, AppendProperties
  <2>2. b[1] = t[1] /\ b[2] = t[2]
    BY <1>3, <1>4, <1>5, <1>9
  <2> QED
    BY <1>3, <2>1, <2>2
<1>7. a = t /\ b = u
  BY <1>3, <1>6, <1>8, SeqEqual
<1> QED
  BY <1>2, <1>5, <1>7

-----------------------------------------------------------------------------
(* A loop: g takes q to the first element of stop on the way that next     *)
(* takes it.  Each step that goes on has less to go, by w.                 *)
IsLoop(g, D, stop, next) == g = [q \in D |-> IF q \in stop THEN q ELSE g[next[q]]]

Descends(D, stop, next, w) ==
    /\ \A q \in D : w[q] \in Nat
    /\ \A q \in D : q \notin stop => next[q] \in D /\ w[next[q]] < w[q]

LEMMA LoopUnique ==
    ASSUME NEW D, NEW stop, NEW next, NEW w, Descends(D, stop, next, w),
           NEW C, NEW h, NEW k, NEW F,
           C \subseteq D, F \subseteq D,
           \A q \in C : q \notin stop => next[q] \in C,
           \A q \in F : q \notin stop => next[q] \in F,
           IsLoop(h, C, stop, next), IsLoop(k, F, stop, next)
    PROVE  \A q \in C \cap F : h[q] = k[q]
<1> DEFINE A(m) == \A q \in C \cap F : w[q] < m => h[q] = k[q]
           S == {m \in Nat : A(m)}
<1>1. 0 \in S
  <2>1. \A q \in C \cap F : ~(w[q] < 0)
    BY DEF Descends
  <2> QED
    BY <2>1
<1>2. ASSUME NEW m \in Nat, m \in S PROVE m + 1 \in S
  <2>1. ASSUME NEW q \in C \cap F, w[q] < m + 1 PROVE h[q] = k[q]
    <3>1. h[q] = IF q \in stop THEN q ELSE h[next[q]]
      BY DEF IsLoop
    <3>2. k[q] = IF q \in stop THEN q ELSE k[next[q]]
      BY DEF IsLoop
    <3>3. ASSUME q \notin stop PROVE h[next[q]] = k[next[q]]
      <4>1. next[q] \in C \cap F /\ q \in D /\ next[q] \in D
        BY <3>3
      <4>2. w[next[q]] \in Nat /\ w[q] \in Nat /\ w[next[q]] < w[q]
        BY <3>3, <4>1 DEF Descends
      <4>3. w[next[q]] < m
        BY <2>1, <4>2
      <4>4. A(m)
        BY <1>2
      <4> QED
        BY <4>1, <4>3, <4>4
    <3> QED
      BY <3>1, <3>2, <3>3
  <2>2. A(m + 1)
    BY <2>1
  <2> QED
    BY <2>2
<1> HIDE DEF S
<1>3. ASSUME NEW q \in C \cap F PROVE h[q] = k[q]
  <2>1. PICK n \in Nat : n = w[q] + 1 /\ w[q] < n
    BY DEF Descends
  <2>2. \A m \in 0..n - 1 : m \in S => m + 1 \in S
    BY <1>2
  <2>3. n \in 0..n
    OBVIOUS
  <2>4. n \in S
    BY <1>1, <2>2, <2>3, InductionUpTo, Zenon
  <2> QED
    BY <2>1, <2>4 DEF S
<1> QED
  BY <1>3

LEMMA LoopExists ==
    ASSUME NEW D, NEW stop, NEW next, NEW w, Descends(D, stop, next, w)
    PROVE  \E g : IsLoop(g, D, stop, next)
<1> DEFINE U(m) == {q \in D : w[q] < m}
           Good(m) == \E h : IsLoop(h, U(m), stop, next)
           S == {m \in Nat : Good(m)}
<1>1. 0 \in S
  <2>1. U(0) = {}
    BY DEF Descends
  <2>2. PICK u : u = U(0)
    OBVIOUS
  <2>3. \E h : IsLoop(h, u, stop, next)
    <3>1. PICK h : h = [q \in u |-> q]
      OBVIOUS
    <3>2. [q \in u |-> IF q \in stop THEN q ELSE h[next[q]]] = h
      BY <2>1, <2>2, <3>1
    <3> QED
      BY <3>2 DEF IsLoop
  <2> QED
    BY <2>2, <2>3
<1>2. ASSUME NEW m \in Nat, m \in S PROVE m + 1 \in S
  <2>1. PICK u, v : u = U(m) /\ v = U(m + 1)
    OBVIOUS
  <2>2. PICK h : IsLoop(h, u, stop, next)
    BY <1>2, <2>1
  <2>3. PICK k : k = [q \in v |-> IF q \in stop THEN q ELSE h[next[q]]]
    OBVIOUS
  <2>4. \A q \in v : q \notin stop => next[q] \in u
    BY <2>1 DEF Descends
  <2>5. \A q \in u : q \in v
    BY <2>1 DEF Descends
  <2>6. \A q \in u : k[q] = h[q]
    <3>1. \A q \in u : h[q] = IF q \in stop THEN q ELSE h[next[q]]
      BY <2>2 DEF IsLoop
    <3>2. \A q \in u : k[q] = IF q \in stop THEN q ELSE h[next[q]]
      BY <2>3, <2>5
    <3> QED
      BY <3>1, <3>2
  <2>7. k = [q \in v |-> IF q \in stop THEN q ELSE k[next[q]]]
    <3>1. \A q \in v : (IF q \in stop THEN q ELSE k[next[q]])
                        = (IF q \in stop THEN q ELSE h[next[q]])
      BY <2>4, <2>6
    <3> QED
      BY <2>3, <3>1
  <2>8. IsLoop(k, U(m + 1), stop, next)
    BY <2>1, <2>7 DEF IsLoop
  <2> QED
    BY <2>8
<1> HIDE DEF S
<1>3. \A m \in Nat : m \in S
  <2> SUFFICES ASSUME NEW m \in Nat PROVE m \in S
    OBVIOUS
  <2>1. \A i \in 0..m - 1 : i \in S => i + 1 \in S
    BY <1>2
  <2>2. m \in 0..m
    OBVIOUS
  <2> QED
    BY <1>1, <2>1, <2>2, InductionUpTo, Zenon
<1> DEFINE H(m) == CHOOSE h : IsLoop(h, U(m), stop, next)
<1>4. \A m \in Nat : IsLoop(H(m), U(m), stop, next)
  <2>1. \A m \in Nat : Good(m)
    BY <1>3 DEF S
  <2> QED
    BY <2>1
<1>5. \A m : U(m) \subseteq D
  OBVIOUS
<1>6. \A m \in Nat : \A q \in U(m) : q \notin stop => next[q] \in U(m)
  <2> SUFFICES ASSUME NEW m \in Nat, NEW q \in U(m), q \notin stop PROVE next[q] \in U(m)
    OBVIOUS
  <2>1. q \in D /\ w[q] \in Nat /\ next[q] \in D /\ w[next[q]] \in Nat /\ w[next[q]] < w[q] /\ w[q] < m
    BY DEF Descends
  <2>2. w[next[q]] < m
    BY <2>1
  <2> QED
    BY <2>1, <2>2
<1>7. \A q \in D : \A m \in Nat : q \in U(m) <=> w[q] < m
  OBVIOUS
<1> HIDE DEF H, U
<1>8. PICK g : g = [q \in D |-> H(w[q] + 1)[q]]
  OBVIOUS
<1>9. ASSUME NEW q \in D PROVE g[q] = IF q \in stop THEN q ELSE g[next[q]]
  <2>1. PICK m \in Nat : m = w[q] + 1
    BY DEF Descends
  <2>2. q \in U(m)
    BY <1>7, <2>1 DEF Descends
  <2>3. g[q] = H(m)[q]
    BY <1>8, <2>1
  <2>4. H(m)[q] = IF q \in stop THEN q ELSE H(m)[next[q]]
    BY <1>4, <2>2 DEF IsLoop
  <2>5. ASSUME q \notin stop PROVE H(m)[next[q]] = g[next[q]]
    <3>1. next[q] \in D /\ next[q] \in U(m)
      BY <1>6, <2>2, <2>5 DEF Descends
    <3>2. PICK k \in Nat : k = w[next[q]] + 1
      BY <3>1 DEF Descends
    <3>3. next[q] \in U(k)
      BY <1>7, <3>1, <3>2 DEF Descends
    <3>4. PICK a, b, c, d : a = H(m) /\ b = H(k) /\ c = U(m) /\ d = U(k)
      OBVIOUS
    <3>5. c \subseteq D /\ d \subseteq D
      BY <1>5, <3>4
    <3>6. /\ \A x \in c : x \notin stop => next[x] \in c
          /\ \A x \in d : x \notin stop => next[x] \in d
      BY <1>6, <3>4
    <3>7. IsLoop(a, c, stop, next) /\ IsLoop(b, d, stop, next)
      BY <1>4, <3>4
    <3>8. \A x \in c \cap d : a[x] = b[x]
      BY <3>5, <3>6, <3>7, LoopUnique
    <3>9. g[next[q]] = b[next[q]]
      BY <1>8, <3>1, <3>2, <3>4
    <3> QED
      BY <3>1, <3>3, <3>4, <3>8, <3>9
  <2> QED
    BY <2>3, <2>4, <2>5
<1>10. g = [q \in D |-> IF q \in stop THEN q ELSE g[next[q]]]
  BY <1>8, <1>9
<1> QED
  BY <1>10 DEF IsLoop

(* What holds of p and is kept by next holds where the loop stops.         *)
LEMMA LoopEnds ==
    ASSUME NEW D, NEW stop, NEW next, NEW w, Descends(D, stop, next, w),
           NEW g, IsLoop(g, D, stop, next),
           NEW I, I \subseteq D, \A q \in I : q \notin stop => next[q] \in I,
           NEW p \in I
    PROVE  g[p] \in I /\ g[p] \in stop
<1> DEFINE A(m) == \A q \in I : w[q] < m => g[q] \in I /\ g[q] \in stop
           S == {m \in Nat : A(m)}
<1>1. 0 \in S
  <2>1. \A q \in I : ~(w[q] < 0)
    BY DEF Descends
  <2> QED
    BY <2>1
<1>2. ASSUME NEW m \in Nat, m \in S PROVE m + 1 \in S
  <2>1. ASSUME NEW q \in I, w[q] < m + 1 PROVE g[q] \in I /\ g[q] \in stop
    <3>1. g[q] = IF q \in stop THEN q ELSE g[next[q]]
      BY DEF IsLoop
    <3>2. ASSUME q \notin stop PROVE g[next[q]] \in I /\ g[next[q]] \in stop
      <4>1. next[q] \in I /\ q \in D /\ next[q] \in D
        BY <3>2
      <4>2. w[next[q]] \in Nat /\ w[q] \in Nat /\ w[next[q]] < w[q]
        BY <3>2, <4>1 DEF Descends
      <4>3. w[next[q]] < m
        BY <2>1, <4>2
      <4>4. A(m)
        BY <1>2
      <4> QED
        BY <4>1, <4>3, <4>4
    <3> QED
      BY <3>1, <3>2
  <2>2. A(m + 1)
    BY <2>1
  <2> QED
    BY <2>2
<1> HIDE DEF S
<1>3. PICK n \in Nat : n = w[p] + 1 /\ w[p] < n
  BY DEF Descends
<1>4. \A m \in 0..n - 1 : m \in S => m + 1 \in S
  BY <1>2
<1>5. n \in 0..n
  OBVIOUS
<1>6. n \in S
  BY <1>1, <1>4, <1>5, InductionUpTo, Zenon
<1> QED
  BY <1>3, <1>6 DEF S

-----------------------------------------------------------------------------
(* Recursive functions on an interval, which ask for one value further on  *)
(* or for the value before.  G says what is made of it, and V holds all    *)
(* values.                                                                 *)
IsBack(f, l, r, next, G, base) ==
    f = [i \in l..r + 1 |-> IF i > r THEN base ELSE G[<<i, f[next[i]]>>]]

LEMMA BackExists ==
    ASSUME NEW l \in Int, NEW r \in Int, l <= r + 1, NEW V, NEW base \in V,
           NEW next, \A i \in l..r : next[i] \in i + 1..r + 1,
           NEW G, \A i \in l..r : \A v \in V : G[<<i, v>>] \in V
    PROVE  \E f : f \in [l..r + 1 -> V] /\ IsBack(f, l, r, next, G, base)
<1> DEFINE Good(a) == \E f : f \in [a..r + 1 -> V] /\ IsBack(f, a, r, next, G, base)
<1>0. PICK n \in Nat : n = r + 1 - l
  OBVIOUS
<1> DEFINE T == {m \in 0..n : Good(r + 1 - m)}
<1>1. 0 \in T
  <2>1. PICK g : g = [i \in r + 1..r + 1 |-> base]
    OBVIOUS
  <2>2. g \in [r + 1..r + 1 -> V]
    BY <2>1
  <2>3. \A i \in r + 1..r + 1 : i > r
    OBVIOUS
  <2>4. g = [i \in r + 1..r + 1 |-> IF i > r THEN base ELSE G[<<i, g[next[i]]>>]]
    BY <2>1, <2>3
  <2>5. Good(r + 1)
    BY <2>2, <2>4 DEF IsBack
  <2>6. r + 1 - 0 = r + 1 /\ 0 \in 0..n
    OBVIOUS
  <2> HIDE DEF Good
  <2> QED
    BY <2>5, <2>6
<1>2. ASSUME NEW m \in 0..n - 1, m \in T PROVE m + 1 \in T
  <2>1. PICK a \in l..r : a = r - m
    BY <1>0
  <2>2. /\ a + 1 = r + 1 - m /\ a = r + 1 - (m + 1) /\ m + 1 \in 0..n /\ a \in Int /\ a <= r
        /\ a \in a..r + 1 /\ ~(a > r)
    BY <2>1
  <2>3. Good(a + 1)
    <3> HIDE DEF Good
    <3> QED
      BY <1>2, <2>2
  <2>4. PICK g \in [a + 1..r + 1 -> V] :
          g = [i \in a + 1..r + 1 |-> IF i > r THEN base ELSE G[<<i, g[next[i]]>>]]
    BY <2>3 DEF IsBack
  <2>5. PICK h : h = [i \in a..r + 1 |-> IF i = a THEN G[<<a, g[next[a]]>>] ELSE g[i]]
    OBVIOUS
  <2>6. next[a] \in a + 1..r + 1 /\ g[next[a]] \in V
    BY <2>1, <2>4
  <2>7. \A i \in a..r + 1 : i = a \/ i \in a + 1..r + 1
    BY <2>2
  <2>8. h \in [a..r + 1 -> V]
    <3>1. \A i \in a..r + 1 : (IF i = a THEN G[<<a, g[next[a]]>>] ELSE g[i]) \in V
      BY <2>1, <2>4, <2>6, <2>7
    <3> QED
      BY <2>5, <3>1
  <2>9. \A i \in a + 1..r + 1 : i \in a..r + 1 /\ i # a /\ h[i] = g[i]
    BY <2>2, <2>5
  <2>10. ASSUME NEW i \in a..r + 1
         PROVE  h[i] = IF i > r THEN base ELSE G[<<i, h[next[i]]>>]
    <3>1. CASE i = a
      BY <2>2, <2>5, <2>6, <2>9, <3>1
    <3>2. CASE i \in a + 1..r + 1
      <4>1. g[i] = IF i > r THEN base ELSE G[<<i, g[next[i]]>>]
        BY <2>4, <3>2
      <4>2. ASSUME ~(i > r) PROVE next[i] \in a + 1..r + 1
        <5>1. i \in l..r /\ i > a
          BY <2>1, <3>2, <4>2
        <5>2. next[i] \in i + 1..r + 1
          BY <5>1
        <5> QED
          BY <2>2, <5>1, <5>2
      <4> QED
        BY <2>9, <3>2, <4>1, <4>2
    <3> QED
      BY <2>7, <3>1, <3>2
  <2>11. h = [i \in a..r + 1 |-> IF i > r THEN base ELSE G[<<i, h[next[i]]>>]]
    BY <2>5, <2>10
  <2>12. Good(a)
    BY <2>8, <2>11 DEF IsBack
  <2> HIDE DEF Good
  <2> QED
    BY <2>2, <2>12
<1>3. n \in T
  <2>1. \A m \in 0..n : m \in T
    <3> HIDE DEF T
    <3> QED
      BY <1>1, <1>2, InductionUpTo
  <2> HIDE DEF T
  <2> QED
    BY <2>1
<1>4. Good(r + 1 - n) /\ r + 1 - n = l
  <2> HIDE DEF Good
  <2> QED
    BY <1>0, <1>3
<1>5. Good(l)
  <2> HIDE DEF Good
  <2> QED
    BY <1>4
<1> QED
  BY <1>5

(* Induction from the end of an interval, and from its beginning.          *)
LEMMA Backward ==
    ASSUME NEW l \in Int, NEW r \in Int, l <= r + 1, NEW V, r + 1 \in V,
           \A i \in l..r : (\A j \in i + 1..r + 1 : j \in V) => i \in V
    PROVE  \A i \in l..r + 1 : i \in V
<1>0. PICK n \in Nat : n = r + 1 - l
  OBVIOUS
<1> DEFINE T == {m \in 0..n : \A i \in r + 1 - m..r + 1 : i \in V}
<1>1. 0 \in T
  <2>1. \A i \in r + 1 - 0..r + 1 : i = r + 1
    OBVIOUS
  <2> QED
    BY <2>1
<1>2. ASSUME NEW m \in 0..n - 1, m \in T PROVE m + 1 \in T
  <2>1. PICK a \in l..r : a = r - m
    BY <1>0
  <2>2. a + 1 = r + 1 - m /\ a = r + 1 - (m + 1) /\ m + 1 \in 0..n /\ a \in Int /\ a <= r
    BY <2>1
  <2>3. \A i \in a + 1..r + 1 : i \in V
    BY <1>2, <2>2
  <2>4. a \in V
    BY <2>1, <2>3
  <2>5. \A i \in a..r + 1 : i = a \/ i \in a + 1..r + 1
    BY <2>2
  <2> QED
    BY <2>2, <2>3, <2>4, <2>5
<1>3. n \in T
  <2>1. \A m \in 0..n : m \in T
    <3> HIDE DEF T
    <3> QED
      BY <1>1, <1>2, InductionUpTo
  <2> HIDE DEF T
  <2> QED
    BY <2>1
<1>4. r + 1 - n = l /\ \A i \in r + 1 - n..r + 1 : i \in V
  BY <1>0, <1>3
<1> QED
  BY <1>4

LEMMA Forward ==
    ASSUME NEW l \in Int, NEW r \in Int, l <= r, NEW V, l \in V,
           \A i \in l..r - 1 : i \in V => i + 1 \in V
    PROVE  \A i \in l..r : i \in V
<1>0. PICK n \in Nat : n = r - l
  OBVIOUS
<1> DEFINE T == {m \in 0..n : l + m \in V}
<1>1. 0 \in T
  OBVIOUS
<1>2. ASSUME NEW m \in 0..n - 1, m \in T PROVE m + 1 \in T
  <2>1. PICK i \in l..r - 1 : i = l + m
    BY <1>0
  <2>2. i + 1 \in V /\ i + 1 = l + (m + 1) /\ m + 1 \in 0..n
    BY <1>2, <2>1
  <2> QED
    BY <2>2
<1>3. \A m \in 0..n : m \in T
  <2> HIDE DEF T
  <2> QED
    BY <1>1, <1>2, InductionUpTo
<1>4. ASSUME NEW i \in l..r PROVE i \in V
  <2>1. PICK m \in 0..n : m = i - l /\ l + m = i
    BY <1>0
  <2> QED
    BY <1>3, <2>1
<1> QED
  BY <1>4

IsForth(f, l, r, G, base) ==
    f = [i \in l..r |-> IF i = l THEN base ELSE G[<<i, f[i - 1]>>]]

LEMMA ForthExists ==
    ASSUME NEW l \in Int, NEW r \in Int, l <= r, NEW V, NEW base \in V,
           NEW G, \A i \in l + 1..r : \A v \in V : G[<<i, v>>] \in V
    PROVE  \E f : f \in [l..r -> V] /\ IsForth(f, l, r, G, base)
<1> DEFINE Good(a) == \E f : f \in [l..a -> V] /\ IsForth(f, l, a, G, base)
           T == {a \in l..r : Good(a)}
<1>1. l \in T
  <2>1. PICK g : g = [i \in l..l |-> base]
    OBVIOUS
  <2>2. g \in [l..l -> V]
    BY <2>1
  <2>3. \A i \in l..l : i = l
    OBVIOUS
  <2>4. g = [i \in l..l |-> IF i = l THEN base ELSE G[<<i, g[i - 1]>>]]
    BY <2>1, <2>3
  <2>5. Good(l)
    BY <2>2, <2>4 DEF IsForth
  <2> HIDE DEF Good
  <2> QED
    BY <2>5
<1>2. ASSUME NEW m \in l..r - 1, m \in T PROVE m + 1 \in T
  <2>1. PICK a \in l + 1..r : a = m + 1 /\ a - 1 = m
    OBVIOUS
  <2>3. Good(m)
    <3> HIDE DEF Good
    <3> QED
      BY <1>2
  <2>4. PICK g \in [l..m -> V] : g = [i \in l..m |-> IF i = l THEN base ELSE G[<<i, g[i - 1]>>]]
    BY <2>3 DEF IsForth
  <2>5. PICK h : h = [i \in l..a |-> IF i = a THEN G[<<a, g[m]>>] ELSE g[i]]
    OBVIOUS
  <2>6. m \in l..m /\ g[m] \in V
    BY <2>4
  <2>7. \A i \in l..a : i = a \/ i \in l..m
    BY <2>1
  <2>8. h \in [l..a -> V]
    <3>1. \A i \in l..a : (IF i = a THEN G[<<a, g[m]>>] ELSE g[i]) \in V
      BY <2>1, <2>4, <2>6, <2>7
    <3> QED
      BY <2>5, <3>1
  <2>9. \A i \in l..m : i \in l..a /\ i # a /\ h[i] = g[i]
    BY <2>1, <2>5
  <2>10. ASSUME NEW i \in l..a
         PROVE  h[i] = IF i = l THEN base ELSE G[<<i, h[i - 1]>>]
    <3>1. CASE i = a
      <4>1. i # l /\ i - 1 = m /\ h[i] = G[<<i, g[m]>>]
        BY <2>1, <2>5, <3>1
      <4> QED
        BY <2>6, <2>9, <4>1
    <3>2. CASE i \in l..m
      <4>1. g[i] = IF i = l THEN base ELSE G[<<i, g[i - 1]>>]
        BY <2>4, <3>2
      <4>2. ASSUME i # l PROVE i - 1 \in l..m
        BY <3>2, <4>2
      <4> QED
        BY <2>9, <3>2, <4>1, <4>2
    <3> QED
      BY <2>7, <3>1, <3>2
  <2>11. h = [i \in l..a |-> IF i = l THEN base ELSE G[<<i, h[i - 1]>>]]
    BY <2>5, <2>10
  <2>12. Good(a)
    BY <2>8, <2>11 DEF IsForth
  <2> HIDE DEF Good
  <2> QED
    BY <2>1, <2>12
<1>3. r \in T
  <2>1. \A m \in l..r : m \in T
    <3> HIDE DEF T
    <3> QED
      BY <1>1, <1>2, Forward
  <2> HIDE DEF T
  <2> QED
    BY <2>1
<1> QED
  BY <1>3

(* The longest stretch from i on whose later places are all in V.          *)
LEMMA StretchExists ==
    ASSUME NEW i \in Int, NEW r \in Int, i <= r, NEW V
    PROVE  \E e \in i..r : (\A k \in i + 1..e : k \in V) /\ (e < r => e + 1 \notin V)
<1> DEFINE Bad == {k \in i + 1..r : k \notin V}
<1>1. CASE Bad = {}
  <2>1. r \in i..r /\ ~(r < r) /\ \A k \in i + 1..r : k \in V
    BY <1>1
  <2> QED
    BY <2>1
<1>2. CASE Bad # {}
  <2> DEFINE Far == {k - i : k \in Bad}
  <2>1. Far \in SUBSET Nat /\ Far # {}
    BY <1>2
  <2>2. PICK p \in Far : \A q \in Far : p <= q
    <3> HIDE DEF Far
    <3> QED
      BY <2>1, LeastElement
  <2>3. PICK k \in Bad : p = k - i
    BY <2>2
  <2>4. \A q \in Bad : k <= q
    BY <2>2, <2>3
  <2>5. PICK e \in i..r : e = k - 1 /\ e + 1 = k
    BY <2>3
  <2>6. \A j \in i + 1..e : j \in V
    BY <2>4, <2>5
  <2>7. e + 1 \notin V
    BY <2>3, <2>5
  <2> QED
    BY <2>6, <2>7
<1> QED
  BY <1>1, <1>2

-----------------------------------------------------------------------------
(* FlattenSeq joins what it makes of two parts.                            *)
LEMMA FlattenCat ==
    ASSUME NEW S, NEW a \in Pieces(S), NEW b \in Pieces(S)
    PROVE  /\ a \o b \in Pieces(S)
           /\ FlattenSeq(a \o b) = FlattenSeq(a) \o FlattenSeq(b)
<1> DEFINE n == Len(a)
           m == Len(b)
           ab == a \o b
<1>0. n \in Nat /\ m \in Nat
  BY PiecesType
<1>1. /\ ab \in Pieces(S)
      /\ Len(ab) = n + m
      /\ \A k \in 1..n : ab[k] = a[k]
      /\ \A k \in 1..m : ab[n + k] = b[k]
  BY DEF Pieces
<1> HIDE DEF ab
<1>2. PICK P : Joins(P, ab, S)
  BY <1>1, JoinsExists
<1>3. PICK Q : Joins(Q, b, S)
  BY JoinsExists
<1>4. /\ \A k \in 0..n + m : P[k] \in Seq(S)
      /\ P[0] = <<>>
      /\ \A k \in 1..n + m : P[k] = P[k - 1] \o ab[k]
  BY <1>1, <1>2 DEF Joins
<1>5. /\ \A k \in 0..m : Q[k] \in Seq(S)
      /\ Q[0] = <<>>
      /\ \A k \in 1..m : Q[k] = Q[k - 1] \o b[k]
  BY <1>3 DEF Joins
<1>6. FlattenSeq(a) = P[n]
  <2>1. PICK R : R = [k \in 0..n |-> P[k]]
    OBVIOUS
  <2>2. \A k \in 0..n : k \in 0..n + m
    BY <1>0
  <2>3. \A k \in 1..n : k \in 1..n + m /\ k \in 0..n /\ k - 1 \in 0..n
    BY <1>0
  <2>4. R \in [0..n -> Seq(S)]
    BY <1>4, <2>1, <2>2
  <2>5. 0 \in 0..n /\ n \in 0..n
    BY <1>0
  <2>6. \A k \in 1..n : R[k] = R[k - 1] \o a[k]
    BY <1>1, <1>4, <2>1, <2>3
  <2>7. Joins(R, a, S)
    BY <1>4, <2>1, <2>4, <2>5, <2>6 DEF Joins
  <2>8. FlattenSeq(a) = R[n]
    BY <2>7, FlattenJoins
  <2> QED
    BY <2>1, <2>5, <2>8
<1>7. FlattenSeq(b) = Q[m] /\ FlattenSeq(ab) = P[n + m]
  BY <1>1, <1>2, <1>3, FlattenJoins
<1> DEFINE T == {k \in 0..m : P[n + k] = P[n] \o Q[k]}
<1>8. 0 \in T
  <2>1. P[n] \in Seq(S) /\ n + 0 = n /\ 0 \in 0..m
    BY <1>0, <1>4
  <2>2. P[n] \o <<>> = P[n]
    BY <2>1
  <2> QED
    BY <1>5, <2>1, <2>2
<1>9. ASSUME NEW k \in 0..m - 1, k \in T PROVE k + 1 \in T
  <2>1. PICK j \in 1..m : j = k + 1 /\ j - 1 = k
    OBVIOUS
  <2>2. PICK nj \in 1..n + m : nj = n + j /\ nj - 1 = n + k
    BY <1>0, <2>1
  <2>3. k \in 0..m /\ j \in 0..m /\ n \in 0..n + m
    BY <1>0
  <2>4. P[nj] = P[n + k] \o b[j]
    BY <1>1, <1>4, <2>1, <2>2
  <2>5. Q[j] = Q[k] \o b[j]
    BY <1>5, <2>1
  <2>6. P[n] \in Seq(S) /\ Q[k] \in Seq(S) /\ b[j] \in Seq(S)
    BY <1>4, <1>5, <2>3, PiecesType
  <2>7. (P[n] \o Q[k]) \o b[j] = P[n] \o (Q[k] \o b[j])
    <3>1. \A u, v, w \in Seq(S) : (u \o v) \o w = u \o (v \o w)
      BY ConcatAssociative
    <3> QED
      BY <2>6, <3>1
  <2>8. P[n + k] = P[n] \o Q[k]
    BY <1>9
  <2> QED
    BY <2>1, <2>2, <2>3, <2>4, <2>5, <2>7, <2>8
<1>10. m \in T
  <2>1. \A k \in 0..m : k \in T
    <3> HIDE DEF T
    <3> QED
      BY <1>0, <1>8, <1>9, InductionUpTo
  <2> HIDE DEF T
  <2> QED
    BY <1>0, <2>1
<1> QED
  BY <1>1, <1>6, <1>7, <1>10 DEF ab

(* One piece alone, and pieces that are all empty.                         *)
LEMMA FlattenOne ==
    ASSUME NEW S, NEW s \in Seq(S)
    PROVE  <<s>> \in Pieces(S) /\ FlattenSeq(<<s>>) = s
<1>1. PICK q : q = <<s>>
  OBVIOUS
<1>2. q \in Pieces(S) /\ Len(q) = 1 /\ q[1] = s
  BY <1>1 DEF Pieces
<1>3. PICK P : Joins(P, q, S)
  BY <1>2, JoinsExists
<1>4. 1 \in 1..Len(q) /\ 1 - 1 = 0
  BY <1>2
<1>5. P[0] = <<>> /\ P[1] = P[0] \o q[1]
  BY <1>3, <1>4 DEF Joins
<1>6. P[1] = s
  BY <1>2, <1>5
<1>7. FlattenSeq(q) = P[1]
  BY <1>2, <1>3, FlattenJoins
<1> QED
  BY <1>1, <1>2, <1>6, <1>7

LEMMA FlattenNone ==
    ASSUME NEW S, NEW seqs \in Pieces(S), \A k \in 1..Len(seqs) : seqs[k] = <<>>
    PROVE  FlattenSeq(seqs) = <<>>
<1> DEFINE n == Len(seqs)
<1>0. n \in Nat
  BY PiecesType
<1>1. PICK P : Joins(P, seqs, S)
  BY JoinsExists
<1>2. P[0] = <<>> /\ \A k \in 1..n : P[k] = P[k - 1] \o <<>>
  BY <1>1 DEF Joins
<1> DEFINE T == {k \in 0..n : P[k] = <<>>}
<1>3. 0 \in T
  BY <1>0, <1>2
<1>4. ASSUME NEW k \in 0..n - 1, k \in T PROVE k + 1 \in T
  <2>1. k + 1 \in 1..n /\ k + 1 - 1 = k /\ k + 1 \in 0..n
    OBVIOUS
  <2>2. P[k + 1] = <<>> \o <<>>
    BY <1>2, <1>4, <2>1
  <2> QED
    BY <2>1, <2>2
<1>5. n \in T
  <2>1. \A k \in 0..n : k \in T
    <3> HIDE DEF T
    <3> QED
      BY <1>0, <1>3, <1>4, InductionUpTo
  <2> HIDE DEF T
  <2> QED
    BY <1>0, <2>1
<1> QED
  BY <1>1, <1>5, FlattenJoins

(* Among the places in A one is the greatest and one the least in w.       *)
LEMMA GreatestPlace ==
    ASSUME NEW l \in Int, NEW r \in Int, NEW A \in SUBSET (l..r), A # {},
           NEW w, \A j \in A : w[j] \in Int
    PROVE  \E j \in A : \A k \in A : w[k] <= w[j]
<1> DEFINE Good(m) == \/ \A k \in A : k > m
                      \/ \E j \in A : \A k \in A : k <= m => w[k] <= w[j]
           T == {m \in l..r : Good(m)}
<1>a. PICK a \in A : a \in l..r
  OBVIOUS
<1>0. l <= r /\ r \in l..r
  BY <1>a
<1>1. l \in T
  <2>1. CASE l \in A
    <3>1. \A k \in A : k <= l => k = l
      OBVIOUS
    <3> QED
      BY <1>0, <2>1, <3>1
  <2>2. CASE l \notin A
    <3>1. \A k \in A : k > l
      BY <2>2
    <3> QED
      BY <1>0, <3>1
  <2> QED
    BY <2>1, <2>2
<1>2. ASSUME NEW m \in l..r - 1, m \in T PROVE m + 1 \in T
  <2>0. m + 1 \in l..r /\ Good(m)
    BY <1>2
  <2>1. CASE m + 1 \notin A
    <3>1. \A k \in A : k <= m + 1 => k <= m
      BY <2>1
    <3>2. \A k \in A : k > m => k > m + 1
      BY <2>1
    <3> QED
      BY <2>0, <3>1, <3>2
  <2>2. CASE m + 1 \in A
    <3>1. \A k \in A : k <= m + 1 => k <= m \/ k = m + 1
      OBVIOUS
    <3>2. CASE \A k \in A : k > m
      <4>1. \A k \in A : k <= m + 1 => k = m + 1
        BY <3>2
      <4>2. \A k \in A : k <= m + 1 => w[k] <= w[m + 1]
        BY <2>2, <4>1
      <4> QED
        BY <2>0, <2>2, <4>2
    <3>3. CASE \E j \in A : \A k \in A : k <= m => w[k] <= w[j]
      <4>1. PICK j \in A : \A k \in A : k <= m => w[k] <= w[j]
        BY <3>3
      <4>2. CASE w[m + 1] <= w[j]
        <5>1. \A k \in A : k <= m + 1 => w[k] <= w[j]
          BY <3>1, <4>1, <4>2
        <5> QED
          BY <2>0, <5>1
      <4>3. CASE ~(w[m + 1] <= w[j])
        <5>1. \A k \in A : k <= m + 1 => w[k] <= w[m + 1]
          BY <2>2, <3>1, <4>1, <4>3
        <5> QED
          BY <2>0, <2>2, <5>1
      <4> QED
        BY <4>2, <4>3
    <3> QED
      BY <2>0, <3>2, <3>3
  <2> QED
    BY <2>1, <2>2
<1>3. r \in T
  <2>1. \A m \in l..r : m \in T
    <3> HIDE DEF T
    <3> QED
      BY <1>0, <1>1, <1>2, Forward
  <2> HIDE DEF T
  <2> QED
    BY <1>0, <2>1
<1>4. \A k \in A : k <= r /\ ~(k > r)
  OBVIOUS
<1> QED
  BY <1>3, <1>4

LEMMA LeastPlace ==
    ASSUME NEW l \in Int, NEW r \in Int, NEW A \in SUBSET (l..r), A # {},
           NEW w, \A j \in A : w[j] \in Int
    PROVE  \E j \in A : \A k \in A : w[j] <= w[k]
<1>1. PICK v : v = [j \in A |-> -w[j]]
  OBVIOUS
<1>2. \A j \in A : v[j] \in Int /\ v[j] = -w[j]
  BY <1>1
<1>3. PICK j \in A : \A k \in A : v[k] <= v[j]
  BY <1>2, GreatestPlace
<1>4. \A k \in A : w[j] <= w[k]
  BY <1>2, <1>3
<1> QED
  BY <1>4
=============================================================================
