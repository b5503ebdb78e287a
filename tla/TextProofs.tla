----------------------------- MODULE TextProofs -----------------------------
(***************************************************************************)
(* Proofs about the way of a text from its bytes to its tokens and to the  *)
(* summary of a search, for every text, every dictionary, every hidden     *)
(* Markov model and every keyword: the tokens cover the text, the paths    *)
(* through the dictionary and the model are best ones, a keyword of a text *)
(* is found in it, one of a title in every text that has the title in it,  *)
(* and a summary lies inside its content.                                  *)
(*                                                                         *)
(* The recursive functions of Segmenter are taken apart in three steps:    *)
(* a function of the code's form exists (BackExists, ForthExists), so that *)
(* CHOOSE gives one; it satisfies the code's equation; and what is wanted  *)
(* of it follows along the text (Backward, Forward).                       *)
(***************************************************************************)
EXTENDS Text, SequenceLemmas

-----------------------------------------------------------------------------
(* Ranges of places that follow one another from l to r.                   *)
Spans == Int \X Int

Covers(s, l, r) ==
    /\ s \in Seq(Spans)
    /\ \A k \in 1..Len(s) : l <= s[k][1] /\ s[k][1] <= s[k][2] /\ s[k][2] <= r
    /\ IF s = <<>> THEN l = r + 1 ELSE s[1][1] = l /\ s[Len(s)][2] = r
    /\ \A k \in 1..Len(s) - 1 : s[k + 1][1] = s[k][2] + 1

(* Nothing covers an empty stretch.                                        *)
LEMMA CoverNone ==
    ASSUME NEW l \in Int
    PROVE  Covers(<<>>, l, l - 1)
<1>1. <<>> \in Seq(Spans) /\ Len(<<>>) = 0 /\ l = l - 1 + 1
  OBVIOUS
<1>2. 1..0 = {} /\ 1..0 - 1 = {}
  OBVIOUS
<1> QED
  BY <1>1, <1>2 DEF Covers

(* One range covers itself.                                                *)
LEMMA CoverOne ==
    ASSUME NEW l \in Int, NEW r \in Int, l <= r
    PROVE  Covers(<< <<l, r>> >>, l, r)
<1>1. PICK s : s = << <<l, r>> >>
  OBVIOUS
<1>2. s \in Seq(Spans) /\ Len(s) = 1 /\ s[1][1] = l /\ s[1][2] = r /\ s # <<>>
  BY <1>1 DEF Spans
<1>3. Covers(s, l, r)
  BY <1>2 DEF Covers
<1> QED
  BY <1>1, <1>3

(* The ranges of a sequence of them are pairs of integers.                 *)
LEMMA SpanType ==
    ASSUME NEW s \in Seq(Spans)
    PROVE  /\ Len(s) \in Nat
           /\ \A k \in 1..Len(s) : s[k] \in Spans /\ s[k][1] \in Int /\ s[k][2] \in Int
<1>1. Len(s) \in Nat /\ \A k \in 1..Len(s) : s[k] \in Spans
  OBVIOUS
<1> QED
  BY <1>1 DEF Spans

(* Covers of neighbouring stretches, one after the other.                  *)
LEMMA CoverCat ==
    ASSUME NEW l \in Int, NEW m \in Int, NEW r \in Int, NEW a, NEW b,
           Covers(a, l, m), Covers(b, m + 1, r)
    PROVE  Covers(a \o b, l, r)
<1> DEFINE n == Len(a)
           p == Len(b)
           s == a \o b
<1>0. a \in Seq(Spans) /\ b \in Seq(Spans)
  BY DEF Covers
<1>1. n \in Nat /\ p \in Nat
  BY <1>0
<1>2. /\ s \in Seq(Spans)
      /\ Len(s) = n + p
      /\ \A k \in 1..n : s[k] = a[k]
      /\ \A k \in 1..p : s[n + k] = b[k]
  BY <1>0
<1> HIDE DEF s
<1>a. /\ \A k \in 1..n : l <= a[k][1] /\ a[k][1] <= a[k][2] /\ a[k][2] <= m
      /\ n = 0 => l = m + 1
      /\ n # 0 => a[1][1] = l /\ a[n][2] = m
      /\ \A k \in 1..n - 1 : a[k + 1][1] = a[k][2] + 1
      /\ \A k \in 1..n : a[k][1] \in Int /\ a[k][2] \in Int
  BY <1>0, SpanType, EmptySeq DEF Covers
<1>b. /\ \A k \in 1..p : m + 1 <= b[k][1] /\ b[k][1] <= b[k][2] /\ b[k][2] <= r
      /\ p = 0 => m = r
      /\ p # 0 => b[1][1] = m + 1 /\ b[p][2] = r
      /\ \A k \in 1..p - 1 : b[k + 1][1] = b[k][2] + 1
      /\ \A k \in 1..p : b[k][1] \in Int /\ b[k][2] \in Int
  <2>1. p = 0 => b = <<>>
    BY <1>0
  <2>2. p = 0 => m + 1 = r + 1
    BY <2>1 DEF Covers
  <2>3. b # <<>> => b[1][1] = m + 1 /\ b[p][2] = r
    BY DEF Covers
  <2>4. p # 0 => b # <<>>
    OBVIOUS
  <2> QED
    BY <1>0, <2>2, <2>3, <2>4, SpanType DEF Covers
<1>3. \A k \in 1..n + p : k \in 1..n \/ \E j \in 1..p : k = n + j
  <2> SUFFICES ASSUME NEW k \in 1..n + p, k > n PROVE \E j \in 1..p : k = n + j
    BY <1>1
  <2>1. k - n \in 1..p /\ k = n + (k - n)
    BY <1>1
  <2> QED
    BY <2>1
<1>4. l <= m + 1 /\ m <= r
  <2>1. n # 0 => l <= a[1][1] /\ a[1][1] <= a[1][2] /\ a[1][2] <= m /\ a[1][1] \in Int /\ a[1][2] \in Int
    BY <1>1, <1>a
  <2>2. p # 0 => m + 1 <= b[1][1] /\ b[1][1] <= b[1][2] /\ b[1][2] <= r /\ b[1][1] \in Int /\ b[1][2] \in Int
    BY <1>1, <1>b
  <2> QED
    BY <1>a, <1>b, <2>1, <2>2
<1>5. \A k \in 1..Len(s) : l <= s[k][1] /\ s[k][1] <= s[k][2] /\ s[k][2] <= r
  <2>1. \A k \in 1..n : l <= a[k][1] /\ a[k][1] <= a[k][2] /\ a[k][2] <= r
    BY <1>a, <1>4
  <2>2. \A k \in 1..p : l <= b[k][1] /\ b[k][1] <= b[k][2] /\ b[k][2] <= r
    BY <1>b, <1>4
  <2> SUFFICES ASSUME NEW k \in 1..n + p
               PROVE  l <= s[k][1] /\ s[k][1] <= s[k][2] /\ s[k][2] <= r
    BY <1>2
  <2>3. (\E j \in 1..n : s[k] = a[j]) \/ \E j \in 1..p : s[k] = b[j]
    BY <1>2, <1>3
  <2> QED
    BY <2>1, <2>2, <2>3
<1>6. ASSUME NEW k \in 1..Len(s) - 1 PROVE s[k + 1][1] = s[k][2] + 1
  <2>0. k \in 1..n + p - 1 /\ k + 1 \in 1..n + p
    BY <1>1, <1>2
  <2>1. CASE k < n
    <3>1. k \in 1..n - 1 /\ k \in 1..n /\ k + 1 \in 1..n
      BY <1>1, <2>0, <2>1
    <3> QED
      BY <1>2, <1>a, <3>1
  <2>2. CASE k = n
    <3>1. k \in 1..n /\ 1 \in 1..p /\ n # 0 /\ p # 0 /\ k + 1 = n + 1
      BY <1>1, <2>0, <2>2
    <3>2. s[k] = a[n] /\ s[k + 1] = b[1]
      BY <1>2, <2>2, <3>1
    <3> QED
      BY <1>a, <1>b, <3>1, <3>2
  <2>3. CASE k > n
    <3>1. PICK j \in 1..p - 1 : k = n + j
      <4>1. k - n \in 1..p - 1 /\ k = n + (k - n)
        BY <1>1, <2>0, <2>3
      <4> QED
        BY <4>1
    <3>2. j \in 1..p /\ j + 1 \in 1..p /\ k + 1 = n + (j + 1)
      BY <1>1, <3>1
    <3>3. s[k] = b[j] /\ s[k + 1] = b[j + 1]
      BY <1>2, <3>1, <3>2
    <3> QED
      BY <1>b, <3>3
  <2> QED
    BY <1>1, <2>0, <2>1, <2>2, <2>3
<1>7. s = <<>> => l = r + 1
  <2>1. s = <<>> => n = 0 /\ p = 0
    BY <1>1, <1>2
  <2> QED
    BY <1>a, <1>b, <2>1
<1>8. s # <<>> => s[1][1] = l /\ s[Len(s)][2] = r
  <2>0. s # <<>> => n + p # 0
    BY <1>2
  <2>1. n # 0 => s[1] = a[1]
    BY <1>1, <1>2
  <2>2. n = 0 /\ p # 0 => s[1] = b[1] /\ l = m + 1
    BY <1>1, <1>2, <1>a
  <2>3. p # 0 => s[n + p] = b[p]
    BY <1>1, <1>2
  <2>4. p = 0 /\ n # 0 => s[n + p] = a[n] /\ m = r
    BY <1>1, <1>2, <1>b
  <2> QED
    BY <1>1, <1>2, <1>a, <1>b, <2>0, <2>1, <2>2, <2>3, <2>4
<1> QED
  BY <1>2, <1>5, <1>6, <1>7, <1>8 DEF Covers, s

-----------------------------------------------------------------------------
(* A cut from the end of a stretch: at i it puts piece[i] before what it   *)
(* makes from next[i] on.                                                  *)
IsCut(f, l, r, next, piece) ==
    f = [i \in l..r + 1 |-> IF i > r THEN <<>> ELSE piece[i] \o f[next[i]]]

(* There is such a cut: the value at i is made of a later one.             *)
LEMMA CutExists ==
    ASSUME NEW l \in Int, NEW r \in Int, l <= r + 1, NEW T,
           NEW next, \A i \in l..r : next[i] \in i + 1..r + 1,
           NEW piece, \A i \in l..r : piece[i] \in Seq(T)
    PROVE  \E f : f \in [l..r + 1 -> Seq(T)] /\ IsCut(f, l, r, next, piece)
<1> DEFINE V == Seq(T)
<1>1. PICK G : G = [x \in (l..r) \X V |-> piece[x[1]] \o x[2]]
  OBVIOUS
<1>2. \A i \in l..r : \A v \in V : G[<<i, v>>] = piece[i] \o v
  BY <1>1
<1>3. \A i \in l..r : \A v \in V : G[<<i, v>>] \in V
  <2>1. \A i \in l..r : \A v \in V : piece[i] \o v \in V
    BY ConcatProperties
  <2> HIDE DEF V
  <2> QED
    BY <1>2, <2>1
<1>4. <<>> \in V
  OBVIOUS
<1> HIDE DEF V
<1>5. PICK f : f \in [l..r + 1 -> V] /\ IsBack(f, l, r, next, G, <<>>)
  BY <1>3, <1>4, BackExists
<1>6. f = [i \in l..r + 1 |-> IF i > r THEN <<>> ELSE G[<<i, f[next[i]]>>]]
  BY <1>5 DEF IsBack
<1>7. ASSUME NEW i \in l..r + 1, ~(i > r) PROVE G[<<i, f[next[i]]>>] = piece[i] \o f[next[i]]
  <2>1. i \in l..r
    BY <1>7
  <2>2. next[i] \in l..r + 1
    BY <2>1
  <2> QED
    BY <1>2, <1>5, <2>1, <2>2
<1>8. f = [i \in l..r + 1 |-> IF i > r THEN <<>> ELSE piece[i] \o f[next[i]]]
  BY <1>6, <1>7
<1> QED
  BY <1>5, <1>8 DEF IsCut, V

(* It covers the stretch when every piece covers its part, from pos[i] to  *)
(* before pos[next[i]].                                                    *)
LEMMA CutCovers ==
    ASSUME NEW l \in Int, NEW r \in Int, l <= r + 1,
           NEW next, \A i \in l..r : next[i] \in i + 1..r + 1,
           NEW pos, \A i \in l..r + 1 : pos[i] \in Int,
           NEW piece, \A i \in l..r : Covers(piece[i], pos[i], pos[next[i]] - 1),
           NEW f, IsCut(f, l, r, next, piece)
    PROVE  Covers(f[l], pos[l], pos[r + 1] - 1)
<1> DEFINE V == {i \in l..r + 1 : Covers(f[i], pos[i], pos[r + 1] - 1)}
<1>0. r + 1 \in l..r + 1 /\ l \in l..r + 1 /\ r + 1 > r
  OBVIOUS
<1>1. r + 1 \in V
  <2>1. f[r + 1] = <<>>
    BY <1>0 DEF IsCut
  <2> QED
    BY <1>0, <2>1, CoverNone
<1>2. ASSUME NEW i \in l..r, \A j \in i + 1..r + 1 : j \in V PROVE i \in V
  <2>1. i \in l..r + 1 /\ ~(i > r)
    OBVIOUS
  <2>2. next[i] \in V /\ next[i] \in l..r + 1
    BY <1>2
  <2>3. f[i] = piece[i] \o f[next[i]]
    BY <2>1 DEF IsCut
  <2>4. PICK m \in Int : m = pos[next[i]] - 1 /\ m + 1 = pos[next[i]]
    BY <2>2
  <2>5. Covers(piece[i], pos[i], m) /\ Covers(f[next[i]], m + 1, pos[r + 1] - 1)
    BY <2>2, <2>4
  <2>6. pos[i] \in Int /\ pos[r + 1] - 1 \in Int
    BY <1>0, <2>1
  <2> QED
    BY <2>1, <2>3, <2>5, <2>6, CoverCat
<1>3. \A i \in l..r + 1 : i \in V
  <2> HIDE DEF V
  <2> QED
    BY <1>1, <1>2, Backward
<1> QED
  BY <1>0, <1>3

-----------------------------------------------------------------------------
(* The separators and the stretches between them cover a text.             *)
LEMMA PreFilterCovers ==
    ASSUME NEW t, Len(t) \in Nat
    PROVE  Covers(PreFilter(t), 1, Len(t))
<1> DEFINE n == Len(t)
           far(i) == CHOOSE e \in i..n : /\ \A k \in i + 1..e : t[k] \notin symbols_
                                         /\ e < n => ~(t[e + 1] \notin symbols_)
           last(i) == IF t[i] \in symbols_ THEN i ELSE far(i)
<1>0. n \in Int /\ 1 \in Int /\ 1 <= n + 1
  OBVIOUS
<1>1. \A i \in 1..n : last(i) \in i..n
  <2> SUFFICES ASSUME NEW i \in 1..n PROVE last(i) \in i..n
    OBVIOUS
  <2> DEFINE V == {k \in Int : t[k] \notin symbols_}
  <2>0. i \in Int /\ n \in Int /\ i <= n
    OBVIOUS
  <2>1. PICK e \in i..n : (\A k \in i + 1..e : k \in V) /\ (e < n => e + 1 \notin V)
    <3> HIDE DEF V
    <3> QED
      BY <2>0, StretchExists
  <2>2. \A k \in i + 1..e : t[k] \notin symbols_
    BY <2>1
  <2>3. e < n => ~(t[e + 1] \notin symbols_)
    BY <2>1
  <2>4. far(i) \in i..n
    BY <2>2, <2>3
  <2>5. i \in i..n
    OBVIOUS
  <2> QED
    BY <2>4, <2>5
<1> HIDE DEF last
<1>2. PICK next, piece :
        /\ next = [i \in 1..n |-> last(i) + 1]
        /\ piece = [i \in 1..n |-> << <<i, last(i)>> >>]
  OBVIOUS
<1>3. \A i \in 1..n : /\ next[i] = last(i) + 1
                      /\ piece[i] = << <<i, last(i)>> >>
                      /\ next[i] \in i + 1..n + 1
                      /\ piece[i] \in Seq(Spans)
  BY <1>1, <1>2 DEF Spans
<1> DEFINE Form(f) ==
             f = [i \in 1..n + 1 |->
                   IF i > n THEN <<>>
                   ELSE LET e == IF t[i] \in symbols_ THEN i ELSE far(i)
                        IN  << <<i, e>> >> \o f[e + 1]]
<1>4. \A f : Form(f) <=> IsCut(f, 1, n, next, piece)
  <2> SUFFICES ASSUME NEW f
               PROVE  Form(f) <=> IsCut(f, 1, n, next, piece)
    OBVIOUS
  <2>1. \A i \in 1..n + 1 :
           (IF i > n THEN <<>> ELSE << <<i, last(i)>> >> \o f[last(i) + 1])
             = (IF i > n THEN <<>> ELSE piece[i] \o f[next[i]])
    <3> SUFFICES ASSUME NEW i \in 1..n + 1, ~(i > n)
                 PROVE  << <<i, last(i)>> >> \o f[last(i) + 1] = piece[i] \o f[next[i]]
      BY Zenon
    <3>1. i \in 1..n
      OBVIOUS
    <3> QED
      BY <1>3, <3>1
  <2>2. [i \in 1..n + 1 |-> IF i > n THEN <<>> ELSE << <<i, last(i)>> >> \o f[last(i) + 1]]
          = [i \in 1..n + 1 |-> IF i > n THEN <<>> ELSE piece[i] \o f[next[i]]]
    BY <2>1
  <2> HIDE DEF far
  <2> QED
    BY <2>2 DEF IsCut, last
<1>5. \E f : IsCut(f, 1, n, next, piece)
  <2>1. \E f : f \in [1..n + 1 -> Seq(Spans)] /\ IsCut(f, 1, n, next, piece)
    <3> HIDE DEF n
    <3> QED
      BY <1>0, <1>3, CutExists
  <2> QED
    BY <2>1
<1> DEFINE F == CHOOSE f : Form(f)
<1>6. Form(F)
  <2> HIDE DEF Form
  <2> QED
    BY <1>4, <1>5
<1>7. PreFilter(t) = F[1]
  BY DEF PreFilter, Stretch
<1>8. IsCut(F, 1, n, next, piece)
  <2> HIDE DEF Form, F
  <2> QED
    BY <1>4, <1>6
<1>9. PICK pos : pos = [i \in 1..n + 1 |-> i]
  OBVIOUS
<1>10. ASSUME NEW i \in 1..n PROVE Covers(piece[i], pos[i], pos[next[i]] - 1)
  <2>1. PICK e \in i..n : e = last(i)
    BY <1>1
  <2>2. next[i] = e + 1 /\ next[i] \in 1..n + 1 /\ pos[next[i]] - 1 = e /\ pos[i] = i
    BY <1>3, <1>9, <2>1
  <2>3. Covers(<< <<i, e>> >>, i, e)
    BY CoverOne
  <2> QED
    BY <1>3, <2>1, <2>2, <2>3
<1>11. pos[1] = 1 /\ pos[n + 1] - 1 = n /\ \A i \in 1..n + 1 : pos[i] \in Int
  BY <1>9
<1>12. Covers(F[1], pos[1], pos[n + 1] - 1)
  <2> HIDE DEF F, n
  <2> QED
    BY <1>0, <1>3, <1>8, <1>10, <1>11, CutCovers
<1> QED
  BY <1>7, <1>11, <1>12

-----------------------------------------------------------------------------
(* Decoding: the runes of a text follow one another from its first byte to *)
(* its last.                                                               *)
LEMMA DecodeOne ==
    ASSUME NEW x, NEW i \in 1..Len(x), Len(x) \in Nat, NEW d, d = DecodeRuneInString(x, i)
    PROVE  /\ d.len \in Nat
           /\ d.len = 0 => d = NoRune
           /\ d.len # 0 => d.offset = i /\ i + d.len <= Len(x) + 1
<1>1. LeadLength(x[i]) \in 0..4
  BY DEF LeadLength
<1>2. PICK n \in 0..4 : n = LeadLength(x[i])
  BY <1>1
<1>3. d = IF n = 0 \/ i + n - 1 > Len(x) THEN NoRune
          ELSE [rune |-> RuneAt(x, i, n), offset |-> i, len |-> n]
  BY <1>2 DEF DecodeRuneInString
<1>4. CASE n = 0 \/ i + n - 1 > Len(x)
  BY <1>3, <1>4 DEF NoRune
<1>5. CASE ~(n = 0 \/ i + n - 1 > Len(x))
  <2>1. d.len = n /\ d.offset = i /\ n # 0
    BY <1>3, <1>5
  <2> QED
    BY <1>5, <2>1
<1> QED
  BY <1>4, <1>5

(* The runes d of bytes i..n.                                              *)
Chain(d, i, n) ==
    /\ \A k \in 1..Len(d) :
          /\ d[k].offset \in i..n
          /\ d[k].len \in Nat \ {0}
          /\ d[k].offset + d[k].len <= n + 1
    /\ IF Len(d) = 0 THEN i = n + 1
       ELSE d[1].offset = i /\ d[Len(d)].offset + d[Len(d)].len = n + 1
    /\ \A k \in 1..Len(d) - 1 : d[k + 1].offset = d[k].offset + d[k].len

(* One more character in front of a chain of them.                         *)
LEMMA ChainStep ==
    ASSUME NEW R, NEW r \in R, NEW d \in Seq(R), NEW n \in Nat, NEW i \in 1..n,
           r.offset = i, r.len \in Nat \ {0}, i + r.len <= n + 1,
           Chain(d, i + r.len, n)
    PROVE  Chain(<<r>> \o d, i, n)
<1> DEFINE e == <<r>> \o d
           m == Len(d)
<1>1. m \in Nat
  OBVIOUS
<1>2. /\ Len(e) = m + 1
      /\ e[1] = r
      /\ \A k \in 1..m : e[k + 1] = d[k]
  OBVIOUS
<1> HIDE DEF e
<1>3. PICK j \in i + 1..n + 1 : j = i + r.len
  OBVIOUS
<1>4. /\ \A k \in 1..m : /\ d[k].offset \in j..n
                         /\ d[k].len \in Nat \ {0}
                         /\ d[k].offset + d[k].len <= n + 1
      /\ m = 0 => j = n + 1
      /\ m # 0 => d[1].offset = j /\ d[m].offset + d[m].len = n + 1
      /\ \A k \in 1..m - 1 : d[k + 1].offset = d[k].offset + d[k].len
  BY <1>3 DEF Chain
<1>5. \A k \in 1..m + 1 : k = 1 \/ \E h \in 1..m : k = h + 1
  <2> SUFFICES ASSUME NEW k \in 1..m + 1, k # 1 PROVE \E h \in 1..m : k = h + 1
    OBVIOUS
  <2>1. k - 1 \in 1..m /\ k = (k - 1) + 1
    BY <1>1
  <2> QED
    BY <2>1
<1>6. \A k \in 1..Len(e) : /\ e[k].offset \in i..n
                           /\ e[k].len \in Nat \ {0}
                           /\ e[k].offset + e[k].len <= n + 1
  <2> SUFFICES ASSUME NEW k \in 1..m + 1
               PROVE  /\ e[k].offset \in i..n
                      /\ e[k].len \in Nat \ {0}
                      /\ e[k].offset + e[k].len <= n + 1
    BY <1>2
  <2>1. \A h \in 1..m : d[h].offset \in i..n
    BY <1>3, <1>4
  <2>2. e[k] = r \/ \E h \in 1..m : e[k] = d[h]
    BY <1>2, <1>5
  <2>3. r.offset \in i..n
    OBVIOUS
  <2> QED
    BY <1>4, <2>1, <2>2, <2>3
<1>7. e[1].offset = i /\ e[m + 1].offset + e[m + 1].len = n + 1
  <2>1. CASE m = 0
    BY <1>2, <1>3, <1>4, <2>1
  <2>2. CASE m # 0
    <3>1. e[m + 1] = d[m]
      BY <1>1, <1>2, <2>2
    <3> QED
      BY <1>2, <1>4, <2>2, <3>1
  <2> QED
    BY <2>1, <2>2
<1>8. ASSUME NEW k \in 1..m PROVE e[k + 1].offset = e[k].offset + e[k].len
  <2>1. CASE k = 1
    <3>1. e[k + 1] = d[1] /\ m # 0 /\ e[k] = r
      BY <1>1, <1>2, <2>1
    <3> QED
      BY <1>3, <1>4, <3>1
  <2>2. CASE k # 1
    <3>1. PICK h \in 1..m - 1 : k = h + 1
      <4>1. k - 1 \in 1..m - 1 /\ k = (k - 1) + 1
        BY <1>1, <2>2
      <4> QED
        BY <4>1
    <3>2. h \in 1..m /\ h + 1 \in 1..m
      BY <1>1, <3>1
    <3>3. e[k] = d[h] /\ e[k + 1] = d[h + 1]
      BY <1>2, <3>1, <3>2
    <3> QED
      BY <1>4, <3>1, <3>3
  <2> QED
    BY <2>1, <2>2
<1>9. Len(e) # 0 /\ Len(e) - 1 = m
  BY <1>1, <1>2
<1> QED
  BY <1>2, <1>6, <1>7, <1>8, <1>9 DEF Chain, e

(* All or nothing: a text that cannot be decoded has no runes.             *)
LEMMA DecodeChain ==
    ASSUME NEW x, Len(x) \in Nat, NEW d, d = DecodeRunesInString(x)
    PROVE  \E R : d \in Seq(R) /\ (d # <<>> => Chain(d, 1, Len(x)))
<1> DEFINE n == Len(x)
           R == {DecodeRuneInString(x, i) : i \in 1..n} \cup {NoRune}
           rune(i) == DecodeRuneInString(x, i)
<1>0. n \in Int /\ 1 \in Int /\ 1 <= n + 1 /\ 1 \in 1..n + 1
  OBVIOUS
<1>1. \A i \in 1..n : /\ rune(i) \in R
                      /\ rune(i).len \in Nat
                      /\ rune(i).len = 0 => rune(i) = NoRune
                      /\ rune(i).len # 0 => rune(i).offset = i /\ i + rune(i).len <= n + 1
  <2>1. \A i \in 1..n : rune(i) \in R
    OBVIOUS
  <2> HIDE DEF R
  <2> QED
    BY <2>1, DecodeOne
<1> HIDE DEF rune
<1>2. PICK next, piece :
        /\ next = [i \in 1..n |-> IF rune(i).len = 0 THEN n + 1 ELSE i + rune(i).len]
        /\ piece = [i \in 1..n |-> <<rune(i)>>]
  OBVIOUS
<1>3. \A i \in 1..n : /\ next[i] \in i + 1..n + 1
                      /\ piece[i] = <<rune(i)>>
                      /\ piece[i] \in Seq(R)
  <2> SUFFICES ASSUME NEW i \in 1..n
               PROVE  /\ next[i] \in i + 1..n + 1
                      /\ piece[i] = <<rune(i)>>
                      /\ piece[i] \in Seq(R)
    OBVIOUS
  <2>1. <<rune(i)>> \in Seq(R)
    <3> HIDE DEF R
    <3> QED
      BY <1>1
  <2>2. next[i] = IF rune(i).len = 0 THEN n + 1 ELSE i + rune(i).len
    BY <1>2
  <2>3. next[i] \in i + 1..n + 1
    BY <1>1, <2>2
  <2> QED
    BY <1>2, <2>1, <2>3
<1> DEFINE Form(f) ==
             f = [i \in 1..n + 1 |->
                   IF i > n THEN <<>>
                   ELSE LET r == rune(i)
                        IN  IF r.len = 0 THEN <<r>> ELSE <<r>> \o f[i + r.len]]
<1> HIDE DEF R
<1>4. PICK f : f \in [1..n + 1 -> Seq(R)] /\ IsCut(f, 1, n, next, piece)
  <2> HIDE DEF n
  <2> QED
    BY <1>0, <1>3, CutExists
<1>5. Form(f)
  <2>1. f = [i \in 1..n + 1 |-> IF i > n THEN <<>> ELSE piece[i] \o f[next[i]]]
    BY <1>4 DEF IsCut
  <2>2. f[n + 1] = <<>>
    <3>1. n + 1 \in 1..n + 1 /\ n + 1 > n
      OBVIOUS
    <3> QED
      BY <2>1, <3>1
  <2>3. ASSUME NEW i \in 1..n + 1, ~(i > n)
        PROVE  piece[i] \o f[next[i]]
                 = LET r == rune(i) IN  IF r.len = 0 THEN <<r>> ELSE <<r>> \o f[i + r.len]
    <3>1. i \in 1..n
      BY <2>3
    <3>2. CASE rune(i).len = 0
      <4>1. piece[i] \o f[next[i]] = piece[i] \o <<>>
        BY <1>2, <2>2, <3>1, <3>2
      <4>2. piece[i] \o <<>> = piece[i]
        BY <1>3, <3>1, ConcatProperties
      <4> QED
        BY <1>3, <3>1, <3>2, <4>1, <4>2
    <3>3. CASE rune(i).len # 0
      <4>1. next[i] = i + rune(i).len
        BY <1>2, <3>1, <3>3
      <4> QED
        BY <1>3, <3>1, <3>3, <4>1
    <3> QED
      BY <3>2, <3>3
  <2> QED
    BY <2>1, <2>3
<1> DEFINE F == CHOOSE g : Form(g)
<1>6. Form(F)
  <2> HIDE DEF Form
  <2> QED
    BY <1>5
<1>7. d = IF Contains(F[1], NoRune) THEN <<>> ELSE F[1]
  BY DEF DecodeRunesInString, rune
<1>8. \A i \in 1..n + 1 :
         F[i] = IF i > n THEN <<>>
                ELSE IF rune(i).len = 0 THEN <<rune(i)>> ELSE <<rune(i)>> \o F[i + rune(i).len]
  BY <1>6
<1> HIDE DEF F
<1>9. F[n + 1] = <<>>
  <2>1. n + 1 \in 1..n + 1 /\ n + 1 > n
    OBVIOUS
  <2> QED
    BY <1>8, <2>1
<1> DEFINE V == {i \in 1..n + 1 : /\ F[i] \in Seq(R)
                                  /\ Contains(F[i], NoRune) \/ Chain(F[i], i, n)}
<1>10. n + 1 \in V
  <2>1. Len(<<>>) = 0 /\ n + 1 = n + 1 /\ 1..0 = {} /\ 1..0 - 1 = {}
    OBVIOUS
  <2>2. Chain(<<>>, n + 1, n)
    BY <2>1 DEF Chain
  <2>3. <<>> \in Seq(R)
    OBVIOUS
  <2>4. n + 1 \in 1..n + 1
    OBVIOUS
  <2> QED
    BY <1>9, <2>2, <2>3, <2>4
<1>11. ASSUME NEW i \in 1..n, \A j \in i + 1..n + 1 : j \in V PROVE i \in V
  <2>1. i \in 1..n + 1 /\ ~(i > n)
    OBVIOUS
  <2>2. PICK r \in R : r = rune(i)
    BY <1>1
  <2>3. CASE r.len = 0
    <3>1. F[i] = <<r>> /\ r = NoRune
      BY <1>1, <1>8, <2>1, <2>2, <2>3
    <3>2. <<r>> \in Seq(R) /\ Len(<<r>>) = 1 /\ <<r>>[1] = r
      OBVIOUS
    <3>3. Contains(F[i], NoRune)
      BY <3>1, <3>2 DEF Contains
    <3> QED
      BY <2>1, <3>1, <3>2, <3>3
  <2>4. CASE r.len # 0
    <3>1. r.offset = i /\ i + r.len <= n + 1 /\ r.len \in Nat \ {0}
      BY <1>1, <2>2, <2>4
    <3>2. PICK j \in i + 1..n + 1 : j = i + r.len
      BY <3>1
    <3>3. F[i] = <<r>> \o F[j]
      BY <1>8, <2>1, <2>2, <2>4, <3>2
    <3>4. j \in V
      BY <1>11
    <3>5. PICK g \in Seq(R) : g = F[j]
      BY <3>4
    <3>6. <<r>> \o g \in Seq(R)
      OBVIOUS
    <3>7. CASE Contains(g, NoRune)
      <4>1. PICK k \in 1..Len(g) : g[k] = NoRune
        BY <3>7 DEF Contains
      <4>2. k + 1 \in 1..Len(<<r>> \o g) /\ (<<r>> \o g)[k + 1] = g[k]
        OBVIOUS
      <4>3. Contains(<<r>> \o g, NoRune)
        BY <4>1, <4>2 DEF Contains
      <4> QED
        BY <2>1, <3>3, <3>5, <3>6, <4>3
    <3>8. CASE Chain(g, j, n)
      <4>1. Chain(<<r>> \o g, i, n)
        BY <3>1, <3>2, <3>8, ChainStep
      <4> QED
        BY <2>1, <3>3, <3>5, <3>6, <4>1
    <3> QED
      BY <3>4, <3>5, <3>7, <3>8
  <2> QED
    BY <2>3, <2>4
<1>12. 1 \in V
  <2>1. \A i \in 1..n + 1 : i \in V
    <3> HIDE DEF V, n
    <3> QED
      BY <1>0, <1>10, <1>11, Backward
  <2> HIDE DEF V
  <2> QED
    BY <1>0, <2>1
<1>13. d \in Seq(R) /\ (d # <<>> => Chain(d, 1, n))
  <2>1. <<>> \in Seq(R)
    OBVIOUS
  <2> QED
    BY <1>7, <1>12, <2>1
<1> QED
  BY <1>13

-----------------------------------------------------------------------------
(* Where rune k of a text starts; after the last one, the end of the text. *)
Edge(x, k) ==
    LET d == DecodeRunesInString(x)
    IN  IF k <= Len(d) THEN d[k].offset ELSE Len(x) + 1

(* A text with runes: x is it, and n is how many it has.                   *)
Decoded(x, n) ==
    /\ x \in Seq(Byte)
    /\ DecodeRunesInString(x) # <<>>
    /\ n = Len(DecodeRunesInString(x))

(* The edges of the runes lie one after the other in the text, the first   *)
(* at its start and the last at its end.                                   *)
LEMMA EdgeType ==
    ASSUME NEW x, NEW n, Decoded(x, n), NEW d, d = DecodeRunesInString(x)
    PROVE  /\ n \in Nat /\ n > 0 /\ Len(x) \in Nat
           /\ Edge(x, 1) = 1
           /\ Edge(x, n + 1) = Len(x) + 1
           /\ \A k \in 1..n + 1 : Edge(x, k) \in 1..Len(x) + 1
           /\ \A k \in 1..n : /\ d[k].offset = Edge(x, k)
                              /\ d[k].len \in Nat
                              /\ d[k].offset + d[k].len = Edge(x, k + 1)
                              /\ Edge(x, k) < Edge(x, k + 1)
<1>0. x \in Seq(Byte) /\ d # <<>> /\ n = Len(d) /\ Len(x) \in Nat
  BY DEF Decoded
<1>1. PICK R : d \in Seq(R) /\ Chain(d, 1, Len(x))
  BY <1>0, DecodeChain
<1>2. n \in Nat /\ n > 0
  BY <1>0, <1>1
<1>3. /\ \A k \in 1..n : /\ d[k].offset \in 1..Len(x)
                         /\ d[k].len \in Nat \ {0}
                         /\ d[k].offset + d[k].len <= Len(x) + 1
      /\ d[1].offset = 1 /\ d[n].offset + d[n].len = Len(x) + 1
      /\ \A k \in 1..n - 1 : d[k + 1].offset = d[k].offset + d[k].len
  BY <1>0, <1>1, <1>2 DEF Chain
<1>4. \A k : Edge(x, k) = IF k <= n THEN d[k].offset ELSE Len(x) + 1
  BY <1>0 DEF Edge
<1>5. Edge(x, 1) = 1
  BY <1>2, <1>3, <1>4
<1>6. Edge(x, n + 1) = Len(x) + 1
  <2>1. ~(n + 1 <= n)
    BY <1>2
  <2> QED
    BY <1>4, <2>1
<1>7. \A k \in 1..n + 1 : Edge(x, k) \in 1..Len(x) + 1
  <2> SUFFICES ASSUME NEW k \in 1..n + 1 PROVE Edge(x, k) \in 1..Len(x) + 1
    OBVIOUS
  <2>1. CASE k <= n
    <3>1. k \in 1..n /\ Edge(x, k) = d[k].offset
      BY <1>2, <1>4, <2>1
    <3> QED
      BY <1>0, <1>3, <3>1
  <2>2. CASE ~(k <= n)
    BY <1>0, <1>4, <2>2
  <2> QED
    BY <2>1, <2>2
<1>8. ASSUME NEW k \in 1..n
      PROVE  /\ d[k].offset = Edge(x, k)
             /\ d[k].len \in Nat
             /\ d[k].offset + d[k].len = Edge(x, k + 1)
             /\ Edge(x, k) < Edge(x, k + 1)
  <2>1. d[k].offset = Edge(x, k) /\ d[k].offset \in Nat /\ d[k].len \in Nat \ {0}
    BY <1>0, <1>2, <1>3, <1>4
  <2>2. CASE k = n
    BY <1>3, <1>6, <2>1, <2>2
  <2>3. CASE k # n
    <3>1. k \in 1..n - 1 /\ k + 1 <= n
      BY <1>2, <2>3
    <3>2. Edge(x, k + 1) = d[k + 1].offset
      BY <1>4, <3>1
    <3> QED
      BY <1>3, <2>1, <3>1, <3>2
  <2> QED
    BY <2>2, <2>3
<1> QED
  BY <1>0, <1>2, <1>5, <1>6, <1>7, <1>8

(* Later edges do not lie before earlier ones.                             *)
LEMMA EdgeGrows ==
    ASSUME NEW x, NEW n, Decoded(x, n), NEW i \in 1..n + 1, NEW j \in i..n + 1
    PROVE  Edge(x, i) <= Edge(x, j)
<1> DEFINE V == {k \in i..n + 1 : Edge(x, i) <= Edge(x, k)}
<1>1. /\ n \in Nat
      /\ \A k \in 1..n + 1 : Edge(x, k) \in Int
      /\ \A k \in 1..n : Edge(x, k) < Edge(x, k + 1)
  <2>1. PICK d : d = DecodeRunesInString(x)
    OBVIOUS
  <2>2. /\ n \in Nat /\ Len(x) \in Nat
        /\ \A k \in 1..n + 1 : Edge(x, k) \in 1..Len(x) + 1
        /\ \A k \in 1..n : Edge(x, k) < Edge(x, k + 1)
    BY <2>1, EdgeType
  <2> QED
    BY <2>2
<1>2. i \in V
  BY <1>1
<1>m. PICK m \in Int : m = n + 1 /\ i \in Int /\ i <= m
  BY <1>1
<1>3. ASSUME NEW k \in i..m - 1, k \in V PROVE k + 1 \in V
  <2>1. k \in 1..n /\ k \in 1..n + 1 /\ k + 1 \in i..n + 1 /\ k + 1 \in 1..n + 1
    BY <1>1, <1>m
  <2>2. Edge(x, i) <= Edge(x, k) /\ Edge(x, k) < Edge(x, k + 1)
    BY <1>1, <1>3, <2>1
  <2>3. Edge(x, i) \in Int /\ Edge(x, k) \in Int /\ Edge(x, k + 1) \in Int
    BY <1>1, <2>1
  <2> QED
    BY <2>1, <2>2, <2>3
<1>4. \A k \in i..n + 1 : k \in V
  <2> HIDE DEF V
  <2>1. \A k \in i..m : k \in V
    BY <1>2, <1>3, <1>m, Forward
  <2> QED
    BY <1>m, <2>1
<1> QED
  BY <1>4

(* The bytes of runes l..r.                                                *)
Bytes(x, l, r) == SubSeq(x, Edge(x, l), Edge(x, r + 1) - 1)

(* A part of a sequence is its two halves together.                        *)
LEMMA SubSeqCat ==
    ASSUME NEW T, NEW x \in Seq(T), NEW a \in Nat, NEW b \in Nat, NEW c \in Nat,
           1 <= a, a <= b, b <= c, c <= Len(x) + 1
    PROVE  /\ SubSeq(x, a, b - 1) \o SubSeq(x, b, c - 1) = SubSeq(x, a, c - 1)
           /\ SubSeq(x, a, b - 1) \in Seq(T)
           /\ Len(SubSeq(x, a, b - 1)) = b - a
           /\ \A i \in 1..b - a : SubSeq(x, a, b - 1)[i] = x[a + i - 1]
<1> DEFINE y == SubSeq(x, a, b - 1)
           z == SubSeq(x, b, c - 1)
           w == SubSeq(x, a, c - 1)
<1>1. /\ y \in Seq(T) /\ Len(y) = b - a
      /\ \A i \in 1..b - a : y[i] = x[a + i - 1]
  BY SubSeqProperties
<1>2. /\ z \in Seq(T) /\ Len(z) = c - b
      /\ \A i \in 1..c - b : z[i] = x[b + i - 1]
  BY SubSeqProperties
<1>3. /\ w \in Seq(T) /\ Len(w) = c - a
      /\ \A i \in 1..c - a : w[i] = x[a + i - 1]
  BY SubSeqProperties
<1> HIDE DEF y, z, w
<1>4. /\ y \o z \in Seq(T) /\ Len(y \o z) = c - a
      /\ \A i \in 1..b - a : (y \o z)[i] = y[i]
      /\ \A i \in 1..c - b : (y \o z)[b - a + i] = z[i]
  <2>1. /\ y \o z \in Seq(T) /\ Len(y \o z) = Len(y) + Len(z)
        /\ \A i \in 1..Len(y) : (y \o z)[i] = y[i]
        /\ \A i \in 1..Len(z) : (y \o z)[Len(y) + i] = z[i]
    <3>1. y \in Seq(T) /\ z \in Seq(T)
      BY <1>1, <1>2
    <3> QED
      BY <3>1
  <2> QED
    BY <1>1, <1>2, <2>1
<1>5. \A i \in 1..c - a : (y \o z)[i] = w[i]
  <2> SUFFICES ASSUME NEW i \in 1..c - a PROVE (y \o z)[i] = w[i]
    OBVIOUS
  <2>1. CASE i <= b - a
    <3>1. i \in 1..b - a
      BY <2>1
    <3> QED
      BY <1>1, <1>3, <1>4, <3>1
  <2>2. CASE ~(i <= b - a)
    <3>1. PICK j \in 1..c - b : i = b - a + j /\ b + j - 1 = a + i - 1
      <4>1. i - (b - a) \in 1..c - b /\ i = b - a + (i - (b - a))
            /\ b + (i - (b - a)) - 1 = a + i - 1
        BY <2>2
      <4> QED
        BY <4>1
    <3> QED
      BY <1>2, <1>3, <1>4, <3>1
  <2> QED
    BY <2>1, <2>2
<1>6. y \o z = w
  BY <1>3, <1>4, <1>5, SeqEqual
<1> QED
  BY <1>1, <1>6 DEF y, z, w

(* The bytes of two neighbouring stretches of runes.                       *)
LEMMA BytesCat ==
    ASSUME NEW x, NEW n, Decoded(x, n),
           NEW l \in 1..n + 1, NEW m \in Int, NEW r \in Int, l <= m + 1, m <= r, r <= n
    PROVE  /\ Bytes(x, l, m) \o Bytes(x, m + 1, r) = Bytes(x, l, r)
           /\ Bytes(x, l, r) \in Seq(Byte)
           /\ l = r + 1 => Bytes(x, l, r) = <<>>
<1>1. n \in Nat /\ x \in Seq(Byte) /\ \A k \in 1..n + 1 : Edge(x, k) \in 1..Len(x) + 1
  BY EdgeType DEF Decoded
<1>2. PICK a \in 1..Len(x) + 1, b \in 1..Len(x) + 1, c \in 1..Len(x) + 1 :
         a = Edge(x, l) /\ b = Edge(x, m + 1) /\ c = Edge(x, r + 1)
  <2>1. l \in 1..n + 1 /\ m + 1 \in 1..n + 1 /\ r + 1 \in 1..n + 1
    BY <1>1
  <2> QED
    BY <1>1, <2>1
<1>3. a <= b /\ b <= c
  <2>1. m + 1 \in l..n + 1 /\ r + 1 \in m + 1..n + 1 /\ m + 1 \in 1..n + 1
    BY <1>1
  <2> QED
    BY <1>2, <2>1, EdgeGrows
<1>4. a \in Nat /\ b \in Nat /\ c \in Nat /\ 1 <= a /\ c <= Len(x) + 1 /\ a <= c /\ c <= c
  BY <1>1, <1>2, <1>3
<1>5. SubSeq(x, a, b - 1) \o SubSeq(x, b, c - 1) = SubSeq(x, a, c - 1)
  BY <1>1, <1>3, <1>4, SubSeqCat
<1>6. SubSeq(x, a, c - 1) \in Seq(Byte) /\ Len(SubSeq(x, a, c - 1)) = c - a
  BY <1>1, <1>4, SubSeqCat
<1>7. l = r + 1 => SubSeq(x, a, c - 1) = <<>>
  BY <1>2, <1>4, <1>6, EmptySeq, SMTT(30)
<1> QED
  BY <1>2, <1>5, <1>6, <1>7 DEF Bytes

(* GetWordFromRunes takes the bytes of the runes of a word.                *)
LEMMA WordBytes ==
    ASSUME NEW x, NEW n, Decoded(x, n), NEW w, w[1] \in 1..n, w[2] \in 1..n
    PROVE  GetWordFromRunes(x, w) = Bytes(x, w[1], w[2])
<1>1. PICK d : d = DecodeRunesInString(x)
  OBVIOUS
<1>2. PICK u, v, b, m : u = d[w[1]].offset /\ v = d[w[2]].offset /\ b = d[w[2]].len /\ m = Edge(x, w[2] + 1)
  OBVIOUS
<1>3. u = Edge(x, w[1]) /\ v \in Int /\ b \in Int /\ v + b = m
  <2>1. /\ n \in Nat
        /\ \A k \in 1..n + 1 : Edge(x, k) \in Int
        /\ \A k \in 1..n : /\ d[k].offset = Edge(x, k)
                           /\ d[k].len \in Nat
                           /\ d[k].offset + d[k].len = Edge(x, k + 1)
    BY <1>1, EdgeType
  <2>2. u = Edge(x, w[1])
    BY <1>2, <2>1
  <2>3. v = Edge(x, w[2]) /\ b \in Nat /\ v + b = Edge(x, w[2] + 1)
    BY <1>2, <2>1, Zenon
  <2>4. w[2] \in 1..n + 1
    BY <2>1
  <2> QED
    BY <1>2, <2>1, <2>2, <2>3, <2>4
<1>4. v + (b - 1) = m - 1
  BY <1>3
<1>5. GetWordFromRunes(x, w) = SubSeq(x, u, v + (b - 1))
  BY <1>1, <1>2, Zenon DEF GetWordFromRunes
<1> QED
  BY <1>2, <1>3, <1>4, <1>5, Zenon DEF Bytes

-----------------------------------------------------------------------------
(* Tokens s that lie in l..r, and the bytes of those of them that lie in   *)
(* no other.                                                               *)
Within(s, l, r) ==
    /\ s \in Seq(Spans)
    /\ \A k \in 1..Len(s) : l <= s[k][1] /\ s[k][1] <= s[k][2] /\ s[k][2] <= r

Outer(s, w) == \A i \in DOMAIN s : s[i] = w \/ s[i][1] > w[1] \/ s[i][2] < w[2]

OuterWords(x, s) ==
    [i \in DOMAIN s |-> IF Outer(s, s[i]) THEN GetWordFromRunes(x, s[i]) ELSE <<>>]

(* The outer tokens of s are a partition of the bytes of runes l..r.       *)
Tiles(x, s, l, r) ==
    /\ Within(s, l, r)
    /\ FlattenSeq(OuterWords(x, s)) = Bytes(x, l, r)

(* The bytes of the outer tokens, for tokens inside the text.              *)
LEMMA OuterWordsType ==
    ASSUME NEW x, NEW n, Decoded(x, n), NEW l \in 1..n + 1, NEW r \in Int, r <= n,
           NEW s, Within(s, l, r)
    PROVE  /\ OuterWords(x, s) \in Pieces(Byte)
           /\ Len(OuterWords(x, s)) = Len(s)
           /\ \A i \in 1..Len(s) : OuterWords(x, s)[i]
                = IF Outer(s, s[i]) THEN GetWordFromRunes(x, s[i]) ELSE <<>>
<1>1. s \in Seq(Spans) /\ Len(s) \in Nat /\ DOMAIN s = 1..Len(s) /\ n \in Nat
  BY EdgeType DEF Within
<1>2. ASSUME NEW i \in 1..Len(s) PROVE GetWordFromRunes(x, s[i]) \in Seq(Byte)
  <2>1. s[i][1] \in 1..n /\ s[i][2] \in 1..n /\ s[i][1] <= s[i][2]
    <3>1. s[i][1] \in Int /\ s[i][2] \in Int
      BY <1>1, SpanType
    <3>2. l <= s[i][1] /\ s[i][1] <= s[i][2] /\ s[i][2] <= r
      BY DEF Within
    <3> QED
      BY <1>1, <3>1, <3>2
  <2>2. PICK a \in 1..n + 1, b \in Int : a = s[i][1] /\ b = s[i][2] /\ a <= b + 1 /\ b <= n
    BY <1>1, <2>1
  <2>3. Bytes(x, a, b) \in Seq(Byte)
    BY <2>2, BytesCat
  <2> QED
    BY <2>1, <2>2, <2>3, WordBytes
<1>3. <<>> \in Seq(Byte)
  OBVIOUS
<1>4. \A i \in 1..Len(s) : (IF Outer(s, s[i]) THEN GetWordFromRunes(x, s[i]) ELSE <<>>) \in Seq(Byte)
  BY <1>2, <1>3
<1>5. OuterWords(x, s) = [i \in 1..Len(s) |->
                            IF Outer(s, s[i]) THEN GetWordFromRunes(x, s[i]) ELSE <<>>]
  BY <1>1 DEF OuterWords
<1> QED
  BY <1>1, <1>4, <1>5 DEF Pieces

(* No token tiles an empty stretch.                                        *)
LEMMA TilesNone ==
    ASSUME NEW x, NEW n, Decoded(x, n), NEW l \in 1..n + 1
    PROVE  Tiles(x, <<>>, l, l - 1)
<1>1. <<>> \in Seq(Spans) /\ Len(<<>>) = 0 /\ n \in Nat
  BY EdgeType
<1>2. Within(<<>>, l, l - 1)
  BY <1>1 DEF Within
<1>3. PICK q : q = OuterWords(x, <<>>)
  OBVIOUS
<1>4. q \in Pieces(Byte) /\ Len(q) = 0
  BY <1>1, <1>2, <1>3, OuterWordsType
<1>5. FlattenSeq(q) = <<>>
  BY <1>4, FlattenNone
<1>6. Bytes(x, l, l - 1) = <<>>
  <2>1. l = l - 1 + 1 /\ l - 1 <= n /\ l - 1 \in Int
    BY <1>1
  <2> QED
    BY <2>1, BytesCat
<1> QED
  BY <1>2, <1>3, <1>5, <1>6 DEF Tiles

(* Tilings of neighbouring stretches: what is outer in one of them is      *)
(* outer in both together.                                                 *)
LEMMA TilesCat ==
    ASSUME NEW x, NEW n, Decoded(x, n),
           NEW l \in 1..n + 1, NEW m \in Int, NEW r \in Int, l <= m + 1, m <= r, r <= n,
           NEW a, NEW b, Tiles(x, a, l, m), Tiles(x, b, m + 1, r)
    PROVE  Tiles(x, a \o b, l, r)
<1> DEFINE p == Len(a)
           q == Len(b)
<1>0. n \in Nat /\ m <= n /\ m + 1 \in 1..n + 1
  BY EdgeType
<1>1. /\ a \in Seq(Spans) /\ b \in Seq(Spans) /\ p \in Nat /\ q \in Nat
      /\ Within(a, l, m) /\ Within(b, m + 1, r)
  BY DEF Tiles, Within
<1>2. PICK s : s = a \o b
  OBVIOUS
<1>3. /\ s \in Seq(Spans)
      /\ Len(s) = p + q
      /\ \A k \in 1..p : s[k] = a[k]
      /\ \A k \in 1..q : s[p + k] = b[k]
  <2>1. /\ a \o b \in Seq(Spans)
        /\ Len(a \o b) = Len(a) + Len(b)
        /\ \A k \in 1..Len(a) : (a \o b)[k] = a[k]
        /\ \A k \in 1..Len(b) : (a \o b)[Len(a) + k] = b[k]
    BY <1>1
  <2> QED
    BY <1>2, <2>1
<1>4. \A k \in 1..p + q : k \in 1..p \/ \E j \in 1..q : k = p + j
  <2> SUFFICES ASSUME NEW k \in 1..p + q, k > p PROVE \E j \in 1..q : k = p + j
    BY <1>1
  <2>1. k - p \in 1..q /\ k = p + (k - p)
    BY <1>1
  <2> QED
    BY <2>1
<1>5. \A k \in 1..p : /\ a[k][1] \in Int /\ a[k][2] \in Int
                      /\ l <= a[k][1] /\ a[k][1] <= a[k][2] /\ a[k][2] <= m
  BY <1>1, SpanType DEF Within
<1>6. \A k \in 1..q : /\ b[k][1] \in Int /\ b[k][2] \in Int
                      /\ m + 1 <= b[k][1] /\ b[k][1] <= b[k][2] /\ b[k][2] <= r
  BY <1>1, SpanType DEF Within
<1>7. Within(s, l, r)
  <2>1. \A k \in 1..p : l <= a[k][1] /\ a[k][1] <= a[k][2] /\ a[k][2] <= r
    BY <1>5
  <2>2. \A k \in 1..q : l <= b[k][1] /\ b[k][1] <= b[k][2] /\ b[k][2] <= r
    BY <1>6
  <2> SUFFICES ASSUME NEW k \in 1..p + q
               PROVE  l <= s[k][1] /\ s[k][1] <= s[k][2] /\ s[k][2] <= r
    BY <1>3 DEF Within
  <2>3. (\E j \in 1..p : s[k] = a[j]) \/ \E j \in 1..q : s[k] = b[j]
    BY <1>3, <1>4
  <2> QED
    BY <2>1, <2>2, <2>3
<1>8. DOMAIN a = 1..p /\ DOMAIN b = 1..q /\ DOMAIN s = 1..p + q
  BY <1>1, <1>3
(* A token of one part lies in none of the other.                          *)
<1>9. ASSUME NEW k \in 1..p PROVE Outer(s, a[k]) <=> Outer(a, a[k])
  <2>1. ASSUME NEW j \in 1..q PROVE b[j][1] > a[k][1]
    <3>1. PICK u \in Int, v \in Int, w \in Int :
             u = a[k][1] /\ v = a[k][2] /\ w = b[j][1] /\ u <= v /\ v <= m /\ m + 1 <= w
      BY <1>5, <1>6
    <3> QED
      BY <3>1
  <2>2. Outer(s, a[k]) <=> \A i \in 1..p + q :
                             s[i] = a[k] \/ s[i][1] > a[k][1] \/ s[i][2] < a[k][2]
    BY <1>8 DEF Outer
  <2>3. Outer(a, a[k]) <=> \A i \in 1..p :
                             a[i] = a[k] \/ a[i][1] > a[k][1] \/ a[i][2] < a[k][2]
    BY <1>8 DEF Outer
  <2>4. ASSUME Outer(s, a[k]) PROVE Outer(a, a[k])
    <3> SUFFICES ASSUME NEW i \in 1..p
                 PROVE  a[i] = a[k] \/ a[i][1] > a[k][1] \/ a[i][2] < a[k][2]
      BY <2>3
    <3>1. i \in 1..p + q
      BY <1>1
    <3>2. s[i] = a[i]
      BY <1>3
    <3>3. s[i] = a[k] \/ s[i][1] > a[k][1] \/ s[i][2] < a[k][2]
      BY <2>2, <2>4, <3>1
    <3> QED
      BY <3>2, <3>3
  <2>5. ASSUME Outer(a, a[k]) PROVE Outer(s, a[k])
    <3> SUFFICES ASSUME NEW i \in 1..p + q
                 PROVE  s[i] = a[k] \/ s[i][1] > a[k][1] \/ s[i][2] < a[k][2]
      BY <2>2
    <3>1. (i \in 1..p /\ s[i] = a[i]) \/ \E j \in 1..q : s[i] = b[j]
      BY <1>3, <1>4
    <3> QED
      BY <2>1, <2>3, <2>5, <3>1
  <2> QED
    BY <2>4, <2>5
<1>10. ASSUME NEW k \in 1..q PROVE Outer(s, b[k]) <=> Outer(b, b[k])
  <2>0. b[k][2] \in Int /\ b[k][2] >= m + 1
    BY <1>6
  <2>1. \A j \in 1..p : a[j][2] < b[k][2]
    BY <1>5, <2>0
  <2>2. Outer(s, b[k]) <=> \A i \in 1..p + q :
                             s[i] = b[k] \/ s[i][1] > b[k][1] \/ s[i][2] < b[k][2]
    BY <1>8 DEF Outer
  <2>3. Outer(b, b[k]) <=> \A i \in 1..q :
                             b[i] = b[k] \/ b[i][1] > b[k][1] \/ b[i][2] < b[k][2]
    BY <1>8 DEF Outer
  <2>4. ASSUME Outer(s, b[k]) PROVE Outer(b, b[k])
    <3> SUFFICES ASSUME NEW i \in 1..q
                 PROVE  b[i] = b[k] \/ b[i][1] > b[k][1] \/ b[i][2] < b[k][2]
      BY <2>3
    <3>1. p + i \in 1..p + q /\ s[p + i] = b[i]
      BY <1>1, <1>3
    <3> QED
      BY <2>2, <2>4, <3>1
  <2>5. ASSUME Outer(b, b[k]) PROVE Outer(s, b[k])
    <3> SUFFICES ASSUME NEW i \in 1..p + q
                 PROVE  s[i] = b[k] \/ s[i][1] > b[k][1] \/ s[i][2] < b[k][2]
      BY <2>2
    <3>1. (\E j \in 1..p : s[i] = a[j]) \/ \E j \in 1..q : s[i] = b[j]
      BY <1>3, <1>4
    <3> QED
      BY <2>1, <2>3, <2>5, <3>1
  <2> QED
    BY <2>4, <2>5
<1>11. PICK u, v, w : u = OuterWords(x, a) /\ v = OuterWords(x, b) /\ w = OuterWords(x, s)
  OBVIOUS
<1>u. /\ u \in Pieces(Byte) /\ Len(u) = p
      /\ \A i \in 1..p : u[i] = IF Outer(a, a[i]) THEN GetWordFromRunes(x, a[i]) ELSE <<>>
  BY <1>0, <1>1, <1>11, OuterWordsType
<1>v. /\ v \in Pieces(Byte) /\ Len(v) = q
      /\ \A i \in 1..q : v[i] = IF Outer(b, b[i]) THEN GetWordFromRunes(x, b[i]) ELSE <<>>
  BY <1>0, <1>1, <1>11, OuterWordsType
<1>w. /\ w \in Pieces(Byte) /\ Len(w) = p + q
      /\ \A i \in 1..p + q : w[i] = IF Outer(s, s[i]) THEN GetWordFromRunes(x, s[i]) ELSE <<>>
  BY <1>3, <1>7, <1>11, OuterWordsType
<1>12. w = u \o v
  <2>1. /\ u \in Seq(Seq(Byte)) /\ v \in Seq(Seq(Byte)) /\ w \in Seq(Seq(Byte))
    BY <1>u, <1>v, <1>w DEF Pieces
  <2>2. /\ u \o v \in Seq(Seq(Byte))
        /\ Len(u \o v) = Len(u) + Len(v)
        /\ \A k \in 1..Len(u) : (u \o v)[k] = u[k]
        /\ \A k \in 1..Len(v) : (u \o v)[Len(u) + k] = v[k]
    BY <2>1
  <2>3. \A k \in 1..p : w[k] = u[k]
    <3> SUFFICES ASSUME NEW k \in 1..p PROVE w[k] = u[k]
      OBVIOUS
    <3>1. k \in 1..p + q
      BY <1>1
    <3>2. s[k] = a[k]
      BY <1>3
    <3> QED
      BY <1>u, <1>w, <1>9, <3>1, <3>2
  <2>4. \A k \in 1..q : w[p + k] = v[k]
    <3> SUFFICES ASSUME NEW k \in 1..q PROVE w[p + k] = v[k]
      OBVIOUS
    <3>1. p + k \in 1..p + q /\ s[p + k] = b[k]
      BY <1>1, <1>3
    <3> QED
      BY <1>v, <1>w, <1>10, <3>1
  <2>5. PICK z \in Seq(Seq(Byte)) : z = u \o v
    BY <2>2
  <2>6. \A k \in 1..p + q : w[k] = z[k]
    <3> SUFFICES ASSUME NEW k \in 1..p + q PROVE w[k] = z[k]
      OBVIOUS
    <3>1. CASE k \in 1..p
      BY <1>u, <2>2, <2>3, <2>5, <3>1
    <3>2. CASE \E j \in 1..q : k = p + j
      <4>1. PICK j \in 1..q : k = p + j
        BY <3>2
      <4>2. z[p + j] = v[j]
        BY <1>u, <1>v, <2>2, <2>5
      <4> QED
        BY <2>4, <4>1, <4>2
    <3> QED
      BY <1>4, <3>1, <3>2
  <2>7. Len(w) = Len(z)
    BY <1>u, <1>v, <1>w, <2>2, <2>5
  <2>8. w = z
    BY <1>w, <2>1, <2>5, <2>6, <2>7, SeqEqual
  <2> QED
    BY <2>5, <2>8
<1>13. FlattenSeq(w) = FlattenSeq(u) \o FlattenSeq(v)
  BY <1>u, <1>v, <1>12, FlattenCat
<1>14. FlattenSeq(u) = Bytes(x, l, m) /\ FlattenSeq(v) = Bytes(x, m + 1, r)
  BY <1>11 DEF Tiles
<1>15. FlattenSeq(w) = Bytes(x, l, r)
  BY <1>13, <1>14, BytesCat
<1> QED
  BY <1>2, <1>7, <1>11, <1>15 DEF Tiles

-----------------------------------------------------------------------------
(* The tokens of a word: others inside it, and itself.                     *)
InsideOf(w) == {u \in Spans : /\ w[1] <= u[1] /\ u[1] <= u[2] /\ u[2] <= w[2]
                              /\ u[1] > w[1] \/ u[2] < w[2]}

(* The words of n runes inside w are ranges inside it, and shorter.        *)
LEMMA InnerInside ==
    ASSUME NEW t, NEW w \in Spans, NEW n \in Nat, n > 0
    PROVE  Inner(t, w, n) \in Seq(InsideOf(w))
<1> DEFINE T == InsideOf(w)
<1>1. PICK l \in Int, r \in Int : l = w[1] /\ r = w[2]
  BY DEF Spans
<1>2. CASE r - l + 1 <= n
  <2>1. Inner(t, w, n) = <<>>
    BY <1>1, <1>2 DEF Inner
  <2>2. <<>> \in Seq(T)
    OBVIOUS
  <2> QED
    BY <2>1, <2>2
<1>3. CASE ~(r - l + 1 <= n)
  <2> DEFINE at(k) == l + k - 1
             inside(k) == IF InTrie(SubSeq(t, at(k), at(k) + n - 1))
                         THEN << <<at(k), at(k) + n - 1>> >> ELSE <<>>
             seqs == [k \in 1..r - l + 2 - n |-> inside(k)]
  <2>1. Inner(t, w, n) = FlattenSeq(seqs)
    BY <1>1, <1>3 DEF Inner
  <2>2. ASSUME NEW k \in 1..r - l + 2 - n PROVE inside(k) \in Seq(T)
    <3>1. PICK i \in Int, j \in Int : i = at(k) /\ j = at(k) + n - 1
      BY <1>1
    <3>2. l <= i /\ i <= j /\ j <= r /\ (i > l \/ j < r)
      BY <1>3, <3>1
    <3>3. <<i, j>> \in T
      BY <1>1, <3>2 DEF InsideOf, Spans
    <3>4. << <<i, j>> >> \in Seq(T) /\ <<>> \in Seq(T)
      <4> HIDE DEF T
      <4> QED
        BY <3>3
    <3> QED
      BY <3>1, <3>4
  <2> HIDE DEF inside, T
  <2>3. seqs \in Pieces(T)
    <3>1. r - l + 2 - n \in Nat
      BY <1>3
    <3> QED
      BY <2>2, <3>1 DEF Pieces
  <2> HIDE DEF seqs
  <2>4. FlattenSeq(seqs) \in Seq(T)
    BY <2>3, FlattenType
  <2> QED
    BY <2>1, <2>4 DEF T
<1> QED
  BY <1>1, <1>2, <1>3

(* A word and the words inside of it tile the word.                        *)
LEMMA TilesWord ==
    ASSUME NEW x, NEW n, Decoded(x, n), NEW t, NEW w \in Spans,
           1 <= w[1], w[1] <= w[2], w[2] <= n
    PROVE  Tiles(x, QueryWords(t, w), w[1], w[2])
<1>1. PICK l \in 1..n, r \in 1..n : l = w[1] /\ r = w[2] /\ l <= r /\ n \in Nat
  <2>1. w[1] \in Int /\ w[2] \in Int /\ n \in Nat
    BY EdgeType DEF Spans
  <2>2. w[1] \in 1..n /\ w[2] \in 1..n
    BY <2>1
  <2> QED
    BY <2>1, <2>2
<1>2. PICK a : a = Inner(t, w, 2) \o Inner(t, w, 3)
  OBVIOUS
<1>3. a \in Seq(InsideOf(w)) /\ Len(a) \in Nat
  <2>1. Inner(t, w, 2) \in Seq(InsideOf(w)) /\ Inner(t, w, 3) \in Seq(InsideOf(w))
    BY InnerInside
  <2>2. a \in Seq(InsideOf(w))
    BY <1>2, <2>1, ConcatProperties
  <2> QED
    BY <2>2
<1>4. \A k \in 1..Len(a) : a[k] \in InsideOf(w)
  BY <1>3
<1>5. \A u \in InsideOf(w) : /\ u \in Spans /\ u[1] \in Int /\ u[2] \in Int
                             /\ l <= u[1] /\ u[1] <= u[2] /\ u[2] <= r
                             /\ u[1] > l \/ u[2] < r
                             /\ u # w
  BY <1>1 DEF InsideOf, Spans
<1>6. PICK p \in Nat : p = Len(a)
  BY <1>3
<1>7. PICK s : s = QueryWords(t, w)
  OBVIOUS
<1>8. s \in Seq(Spans) /\ Len(s) = p + 1 /\ s[p + 1] = w /\ \A k \in 1..p : s[k] = a[k]
  <2>1. s = a \o <<w>>
    BY <1>2, <1>7 DEF QueryWords
  <2>2. a \in Seq(Spans)
    BY <1>3, <1>4, <1>5
  <2>3. <<w>> \in Seq(Spans) /\ Len(<<w>>) = 1 /\ <<w>>[1] = w
    OBVIOUS
  <2> QED
    BY <1>6, <2>1, <2>2, <2>3
<1>9. DOMAIN s = 1..p + 1 /\ \A k \in 1..p + 1 : k = p + 1 \/ k \in 1..p
  BY <1>8
<1>10. \A k \in 1..p : s[k] \in InsideOf(w)
  BY <1>4, <1>6, <1>8
<1>11. Within(s, l, r)
  <2> SUFFICES ASSUME NEW k \in 1..p + 1
               PROVE  l <= s[k][1] /\ s[k][1] <= s[k][2] /\ s[k][2] <= r
    BY <1>8 DEF Within
  <2>1. CASE k = p + 1
    BY <1>1, <1>8, <2>1
  <2>2. CASE k \in 1..p
    BY <1>5, <1>10, <2>2
  <2> QED
    BY <1>9, <2>1, <2>2
<1>12. Outer(s, w)
  <2> SUFFICES ASSUME NEW k \in 1..p + 1
               PROVE  s[k] = w \/ s[k][1] > w[1] \/ s[k][2] < w[2]
    BY <1>9 DEF Outer
  <2>1. CASE k = p + 1
    BY <1>8, <2>1
  <2>2. CASE k \in 1..p
    BY <1>1, <1>5, <1>10, <2>2
  <2> QED
    BY <1>9, <2>1, <2>2
<1>13. ASSUME NEW k \in 1..p PROVE ~Outer(s, s[k])
  <2>1. PICK u \in InsideOf(w) : u = s[k]
    BY <1>10
  <2>2. p + 1 \in DOMAIN s /\ s[p + 1] = w
    BY <1>8, <1>9
  <2>3. ~(w = u \/ w[1] > u[1] \/ w[2] < u[2])
    BY <1>1, <1>5, <2>1
  <2> QED
    BY <2>1, <2>2, <2>3 DEF Outer
<1>14. PICK q, g : q = OuterWords(x, s) /\ g = Bytes(x, l, r)
  OBVIOUS
<1>15. g \in Seq(Byte) /\ g = GetWordFromRunes(x, w)
  <2>1. l \in 1..n + 1 /\ r \in Int /\ l <= r + 1 /\ r <= r /\ r <= n
    BY <1>1
  <2> QED
    BY <1>1, <1>14, <2>1, BytesCat, WordBytes
<1>16. /\ q \in Pieces(Byte) /\ Len(q) = p + 1
       /\ \A k \in 1..p + 1 : q[k] = IF Outer(s, s[k]) THEN GetWordFromRunes(x, s[k]) ELSE <<>>
  <2>1. l \in 1..n + 1 /\ r \in Int /\ r <= n
    BY <1>1
  <2> QED
    BY <1>8, <1>11, <1>14, <2>1, OuterWordsType
<1>17. q[p + 1] = g /\ \A k \in 1..p : q[k] = <<>>
  <2>1. p + 1 \in 1..p + 1 /\ \A k \in 1..p : k \in 1..p + 1
    OBVIOUS
  <2> QED
    BY <1>8, <1>12, <1>13, <1>15, <1>16, <2>1
<1>18. PICK e : e = [k \in 1..p |-> <<>>]
  OBVIOUS
<1>19. e \in Pieces(Byte) /\ Len(e) = p /\ \A k \in 1..p : e[k] = <<>>
  BY <1>18 DEF Pieces
<1>20. FlattenSeq(e) = <<>>
  BY <1>19, FlattenNone
<1>21. <<g>> \in Pieces(Byte) /\ FlattenSeq(<<g>>) = g
  BY <1>15, FlattenOne
<1>22. q = e \o <<g>>
  <2>1. e \in Seq(Seq(Byte)) /\ <<g>> \in Seq(Seq(Byte)) /\ q \in Seq(Seq(Byte))
    BY <1>16, <1>19, <1>21 DEF Pieces
  <2>2. PICK z \in Seq(Seq(Byte)) : z = e \o <<g>>
    BY <2>1, ConcatProperties
  <2>3. Len(z) = p + 1 /\ z[p + 1] = g /\ \A k \in 1..p : z[k] = e[k]
    <3>1. Len(<<g>>) = 1 /\ <<g>>[1] = g
      OBVIOUS
    <3>2. PICK h \in Seq(Seq(Byte)) : h = <<g>> /\ Len(h) = 1 /\ h[1] = g
      BY <2>1, <3>1
    <3>3. /\ Len(e \o h) = Len(e) + Len(h)
          /\ \A k \in 1..Len(e) : (e \o h)[k] = e[k]
          /\ \A k \in 1..Len(h) : (e \o h)[Len(e) + k] = h[k]
      BY <2>1
    <3> QED
      BY <1>19, <2>2, <3>2, <3>3
  <2>4. \A k \in 1..p + 1 : z[k] = q[k]
    BY <1>9, <1>17, <1>19, <2>3
  <2>5. z = q
    BY <1>16, <2>1, <2>3, <2>4, SeqEqual
  <2> QED
    BY <2>2, <2>5
<1>23. FlattenSeq(q) = <<>> \o g
  <2>1. PICK h \in Pieces(Byte) : h = <<g>>
    BY <1>21
  <2>2. FlattenSeq(e \o h) = FlattenSeq(e) \o FlattenSeq(h)
    BY <1>19, FlattenCat
  <2> QED
    BY <1>20, <1>21, <1>22, <2>1, <2>2
<1>24. FlattenSeq(q) = g
  BY <1>15, <1>23
<1> QED
  BY <1>1, <1>7, <1>11, <1>14, <1>24 DEF Tiles

(* Tokens of the parts of a stretch make the tokens of the stretch.        *)
LEMMA TilesJoin ==
    ASSUME NEW x, NEW n, Decoded(x, n), NEW l \in 1..n + 1, NEW r \in Int, r <= n,
           NEW c, Covers(c, l, r), NEW m, DOMAIN m = DOMAIN c,
           m = [k \in DOMAIN m |-> m[k]],
           \A k \in 1..Len(c) : Tiles(x, m[k], c[k][1], c[k][2])
    PROVE  Tiles(x, FlattenSeq(m), l, r)
<1>1. PICK p \in Nat : p = Len(c)
  BY DEF Covers
<1>2. c \in Seq(Spans) /\ DOMAIN c = 1..p /\ n \in Nat
  BY <1>1, EdgeType DEF Covers
<1>3. m \in Pieces(Spans) /\ Len(m) = p
  <2>1. \A k \in 1..p : m[k] \in Seq(Spans)
    BY <1>1 DEF Tiles, Within
  <2>2. m \in [1..p -> Seq(Spans)]
    BY <1>2, <2>1
  <2> QED
    BY <2>2 DEF Pieces
<1>4. PICK P : Joins(P, m, Spans)
  BY <1>3, JoinsExists
<1>5. P[0] = <<>> /\ \A k \in 1..p : P[k] = P[k - 1] \o m[k]
  BY <1>3, <1>4 DEF Joins
<1>6. /\ \A k \in 1..p : /\ c[k][1] \in Int /\ c[k][2] \in Int
                         /\ l <= c[k][1] /\ c[k][1] <= c[k][2] /\ c[k][2] <= r
      /\ p = 0 => l = r + 1
      /\ p # 0 => c[1][1] = l /\ c[p][2] = r
      /\ \A k \in 1..p - 1 : c[k + 1][1] = c[k][2] + 1
  <2>1. p = 0 => c = <<>>
    BY <1>1, <1>2, EmptySeq
  <2>2. p # 0 => c # <<>>
    BY <1>1
  <2> QED
    BY <1>1, <1>2, <2>1, <2>2, SpanType DEF Covers
(* The end of the first k parts.                                           *)
<1>7. PICK till : till = [k \in 0..p |-> IF k = 0 THEN l - 1 ELSE c[k][2]]
  OBVIOUS
<1>8. /\ till[0] = l - 1 /\ till[p] = r
      /\ \A k \in 1..p : till[k] = c[k][2]
      /\ \A k \in 0..p : till[k] \in Int /\ l <= till[k] + 1 /\ till[k] <= r
      /\ \A k \in 0..p - 1 : c[k + 1][1] = till[k] + 1
  <2>1. \A k \in 1..p : k \in 0..p /\ till[k] = c[k][2]
    BY <1>7
  <2>2. till[0] = l - 1 /\ 0 \in 0..p
    BY <1>7
  <2>3. till[p] = r
    <3>1. p = 0 => till[p] = r
      BY <1>6, <2>2
    <3>2. p # 0 => p \in 1..p
      OBVIOUS
    <3> QED
      BY <1>6, <2>1, <3>1, <3>2
  <2>4. l - 1 <= r
    <3>1. p # 0 => p \in 1..p
      OBVIOUS
    <3> QED
      BY <1>6, <3>1
  <2>5. ASSUME NEW k \in 0..p PROVE till[k] \in Int /\ l <= till[k] + 1 /\ till[k] <= r
    <3>1. CASE k = 0
      BY <2>2, <2>4, <3>1
    <3>2. CASE k # 0
      <4>1. k \in 1..p
        BY <3>2
      <4>2. c[k][1] \in Int /\ c[k][2] \in Int /\ l <= c[k][1] /\ c[k][1] <= c[k][2] /\ c[k][2] <= r
        BY <1>6, <4>1
      <4> QED
        BY <2>1, <4>1, <4>2
    <3> QED
      BY <3>1, <3>2
  <2>6. ASSUME NEW k \in 0..p - 1 PROVE c[k + 1][1] = till[k] + 1
    <3>1. CASE k = 0
      <4>1. p # 0 /\ k + 1 = 1
        BY <3>1
      <4> QED
        BY <1>6, <2>2, <3>1, <4>1
    <3>2. CASE k # 0
      <4>1. k \in 1..p - 1 /\ k \in 1..p
        BY <3>2
      <4> QED
        BY <1>6, <2>1, <4>1
    <3> QED
      BY <3>1, <3>2
  <2> QED
    BY <2>1, <2>2, <2>3, <2>5, <2>6
<1> DEFINE T == {k \in 0..p : Tiles(x, P[k], l, till[k])}
<1>9. 0 \in T
  BY <1>5, <1>8, TilesNone
<1>10. ASSUME NEW k \in 0..p - 1, k \in T PROVE k + 1 \in T
  <2>1. PICK j \in 1..p : j = k + 1 /\ j - 1 = k
    OBVIOUS
  <2>2. P[j] = P[k] \o m[j]
    BY <1>5, <2>1
  <2>3. Tiles(x, P[k], l, till[k])
    BY <1>10
  <2>4. Tiles(x, m[j], till[k] + 1, till[j])
    BY <1>1, <1>8, <2>1
  <2>5. till[k] \in Int /\ l <= till[k] + 1 /\ till[j] \in Int /\ till[j] <= n /\ till[k] <= till[j]
    <3>1. k \in 0..p /\ j \in 0..p
      BY <2>1
    <3>2. c[j][1] = till[k] + 1 /\ c[j][1] <= c[j][2] /\ till[j] = c[j][2]
      BY <1>6, <1>8, <2>1
    <3>3. till[k] \in Int /\ till[j] \in Int /\ l <= till[k] + 1 /\ till[j] <= r
      BY <1>8, <3>1
    <3> QED
      BY <1>2, <3>2, <3>3
  <2>6. Tiles(x, P[k] \o m[j], l, till[j])
    BY <2>3, <2>4, <2>5, TilesCat
  <2>7. j \in T
    <3>1. Tiles(x, P[j], l, till[j]) /\ j \in 0..p
      BY <2>2, <2>6
    <3> QED
      BY <3>1
  <2> HIDE DEF T
  <2> QED
    BY <2>1, <2>7
<1>11. p \in T
  <2>1. \A k \in 0..p : k \in T
    <3> HIDE DEF T
    <3> QED
      BY <1>9, <1>10, InductionUpTo
  <2> HIDE DEF T
  <2> QED
    BY <2>1
<1>12. FlattenSeq(m) = P[p]
  BY <1>3, <1>4, FlattenJoins
<1> QED
  BY <1>8, <1>11, <1>12

-----------------------------------------------------------------------------
(* The weights of the dictionary are integers.                             *)
LEMMA DictType ==
    /\ Len(dict) \in Nat /\ Len(dict) > 0 /\ DOMAIN dict = 1..Len(dict)
    /\ \A i \in 1..Len(dict) : dict[i].weight \in Int
<1> DEFINE Node == [word : Seq(Nat), weight : Int]
<1>1. dict \in Seq(Node) /\ dict # <<>>
  BY SegmenterAssumption
<1>2. Len(dict) \in Nat /\ Len(dict) > 0 /\ DOMAIN dict = 1..Len(dict)
  BY <1>1
<1>3. \A i \in 1..Len(dict) : dict[i] \in Node
  <2> HIDE DEF Node
  <2> QED
    BY <1>1
<1> QED
  BY <1>2, <1>3

(* The least weight exists, as the dictionary is not empty.                *)
LEMMA MinWeightType == min_weight_ \in Int
<1> DEFINE n == Len(dict)
           w == [i \in 1..n |-> dict[i].weight]
<1>2. n \in Nat /\ n > 0 /\ DOMAIN dict = 1..n /\ \A i \in 1..n : dict[i].weight \in Int
  BY DictType
<1>3. \A i \in 1..n : w[i] = dict[i].weight /\ w[i] \in Int
  BY <1>2
<1> HIDE DEF w
<1>4. PICK j \in 1..n : \A k \in 1..n : w[j] <= w[k]
  <2>1. 1..n \in SUBSET (1..n) /\ 1..n # {} /\ 1 \in Int /\ n \in Int
    BY <1>2
  <2> HIDE DEF n
  <2> QED
    BY <1>3, <2>1, LeastPlace
<1>5. \E v \in {dict[i].weight : i \in DOMAIN dict} : \A i \in DOMAIN dict : v <= dict[i].weight
  BY <1>2, <1>3, <1>4
<1>6. min_weight_ \in {dict[i].weight : i \in DOMAIN dict}
  BY <1>5 DEF min_weight_
<1> QED
  BY <1>2, <1>6

(* So does the median: the least weight that more than half of the lines   *)
(* do not exceed.                                                          *)
LEMMA MedianType == median_weight_ \in Int
<1> DEFINE n == Len(dict)
           w == [i \in 1..n |-> dict[i].weight]
           D == DOMAIN dict
           le(v) == {i \in D : dict[i].weight <= v}
           lt(v) == {i \in D : dict[i].weight < v}
           A == {i \in 1..n : Cardinality(le(w[i])) > n \div 2}
<1>2. n \in Nat /\ n > 0 /\ D = 1..n /\ \A i \in 1..n : dict[i].weight \in Int
  BY DictType
<1>3. \A i \in 1..n : w[i] = dict[i].weight /\ w[i] \in Int
  BY <1>2
<1>4. \A v : Cardinality(le(v)) \in Nat /\ Cardinality(lt(v)) \in Nat
  <2>1. IsFiniteSet(D)
    BY <1>2, FS_Interval
  <2>2. ASSUME NEW v PROVE Cardinality(le(v)) \in Nat /\ Cardinality(lt(v)) \in Nat
    BY <2>1, FS_Subset, FS_CardinalityType
  <2> QED
    BY <2>2
<1> HIDE DEF w
<1>5. 1..n \in SUBSET (1..n) /\ 1..n # {} /\ 1 \in Int /\ n \in Int /\ 1 <= n
  BY <1>2
<1>6. PICK t \in 1..n : \A k \in 1..n : w[k] <= w[t]
  <2> HIDE DEF n
  <2> QED
    BY <1>3, <1>5, GreatestPlace
<1>7. t \in A
  <2>1. le(w[t]) = 1..n
    BY <1>2, <1>3, <1>6
  <2>2. Cardinality(1..n) = n
    BY <1>2, FS_Interval
  <2>3. n > n \div 2
    BY <1>2
  <2> QED
    BY <2>1, <2>2, <2>3
<1>8. PICK j \in A : \A k \in A : w[j] <= w[k]
  <2>1. A \in SUBSET (1..n) /\ A # {}
    BY <1>7
  <2> HIDE DEF A, n
  <2> QED
    BY <1>3, <1>5, <2>1, LeastPlace
<1>9. j \in 1..n /\ Cardinality(le(w[j])) > n \div 2
  OBVIOUS
<1>10. Cardinality(lt(w[j])) <= n \div 2
  <2> DEFINE L == {i \in 1..n : w[i] < w[j]}
  <2>1. CASE L = {}
    <3>1. lt(w[j]) = {}
      BY <1>2, <1>3, <2>1
    <3>2. Cardinality({}) = 0 /\ 0 <= n \div 2
      BY <1>2, FS_EmptySet
    <3> QED
      BY <3>1, <3>2
  <2>2. CASE L # {}
    <3>1. PICK h \in L : \A k \in L : w[k] <= w[h]
      <4>1. L \in SUBSET (1..n)
        OBVIOUS
      <4> HIDE DEF L, n
      <4> QED
        BY <1>3, <1>5, <2>2, <4>1, GreatestPlace
    <3>2. h \in 1..n /\ w[h] < w[j] /\ w[h] \in Int /\ w[j] \in Int
      BY <1>3, <1>9
    <3>3. h \notin A
      BY <1>8, <3>2
    <3>4. lt(w[j]) = le(w[h])
      BY <1>2, <1>3, <3>1, <3>2
    <3>5. ~(Cardinality(le(w[h])) > n \div 2)
      BY <3>2, <3>3
    <3>6. Cardinality(le(w[h])) \in Nat /\ n \div 2 \in Int
      <4>1. n \div 2 \in Int
        BY <1>2
      <4> HIDE DEF le, lt, n
      <4> QED
        BY <1>4, <4>1
    <3> HIDE DEF le, lt, n
    <3> QED
      BY <3>4, <3>5, <3>6
  <2> QED
    BY <2>1, <2>2
<1>11. w[j] \in {dict[i].weight : i \in D}
  BY <1>2, <1>3, <1>9
<1>12. \E v \in {dict[i].weight : i \in D} :
          Cardinality(lt(v)) <= n \div 2 /\ Cardinality(le(v)) > n \div 2
  BY <1>9, <1>10, <1>11
<1>13. median_weight_ \in {dict[i].weight : i \in D}
  BY <1>12 DEF median_weight_
<1> QED
  BY <1>2, <1>13

(* Every word, in the dictionary or not, has a weight.                     *)
LEMMA EdgeWeightType == \A t, i, j : EdgeWeight(t, i, j) \in Int
<1> DEFINE Node == [word : Seq(Nat), weight : Int]
           Line == [word : Seq(Nat), columns : Nat, weight : Int]
<1>1. dict \in Seq(Node) /\ userDict \in Seq(Line)
  BY SegmenterAssumption
<1>2. \A i \in DOMAIN userDict : InserUserDictNode(userDict[i]) \in Node
  <2> SUFFICES ASSUME NEW i \in DOMAIN userDict PROVE InserUserDictNode(userDict[i]) \in Node
    OBVIOUS
  <2>1. PICK line : line = userDict[i]
    OBVIOUS
  <2>2. line.word \in Seq(Nat) /\ line.columns \in Nat /\ line.weight \in Int
    <3>1. line \in Line
      <4> HIDE DEF Line, Node
      <4> QED
        BY <1>1, <2>1
    <3> QED
      BY <3>1
  <2>3. <<>> \in Seq(Nat) /\ 0 \in Int
    OBVIOUS
  <2>4. \/ InserUserDictNode(line) = [word |-> line.word, weight |-> median_weight_]
        \/ InserUserDictNode(line) = [word |-> line.word, weight |-> line.weight]
        \/ InserUserDictNode(line) = [word |-> <<>>, weight |-> 0]
    BY DEF InserUserDictNode
  <2>5. \A u \in Seq(Nat) : \A v \in Int : [word |-> u, weight |-> v] \in Node
    OBVIOUS
  <2>6. InserUserDictNode(line) \in Node
    <3> HIDE DEF Node
    <3> QED
      BY <2>2, <2>3, <2>4, <2>5, MedianType
  <2> QED
    BY <2>1, <2>6
<1>3. static_node_infos_ \in Seq(Node)
  <2>1. DOMAIN userDict = 1..Len(userDict) /\ Len(userDict) \in Nat
    BY <1>1
  <2>2. [i \in DOMAIN userDict |-> InserUserDictNode(userDict[i])] \in Seq(Node)
    BY <1>2, <2>1
  <2> HIDE DEF Node
  <2> QED
    BY <1>1, <2>2 DEF static_node_infos_
<1>4. PICK n \in Nat : n = Len(static_node_infos_)
  BY <1>3
<1>5. DOMAIN static_node_infos_ = 1..n /\ \A i \in 1..n : static_node_infos_[i].weight \in Int
  <2>1. \A i \in 1..n : static_node_infos_[i] \in Node
    <3> HIDE DEF Node
    <3> QED
      BY <1>3, <1>4
  <2> QED
    BY <1>3, <1>4, <2>1
<1>6. ASSUME NEW word, InTrie(word) PROVE WordWeight(word) \in Int
  <2>1. Nodes(word) # {} /\ Nodes(word) \in SUBSET (1..n)
    BY <1>5, <1>6 DEF InTrie, Nodes
  <2>2. PICK w : w = [i \in 1..n |-> i]
    OBVIOUS
  <2>3. \A i \in 1..n : w[i] = i /\ w[i] \in Int
    BY <2>2
  <2>4. PICK j \in Nodes(word) : \A k \in Nodes(word) : w[k] <= w[j]
    <3>1. 1 \in Int /\ n \in Int /\ \A i \in Nodes(word) : w[i] \in Int
      BY <2>1, <2>3
    <3> QED
      BY <2>1, <3>1, GreatestPlace
  <2>5. \A k \in Nodes(word) : k <= j
    BY <2>1, <2>3, <2>4
  <2>6. (CHOOSE i \in Nodes(word) : \A k \in Nodes(word) : k <= i) \in Nodes(word)
    BY <2>5
  <2> QED
    BY <1>5, <2>1, <2>6 DEF WordWeight
<1> QED
  BY <1>6, MinWeightType DEF EdgeWeight

-----------------------------------------------------------------------------
(* CalcDP: the words of a path are chosen from the end of the text.        *)
Cells == [end : Int, weight : Int]

(* So has every path.                                                      *)
LEMMA PathWeightType ==
    ASSUME NEW t, NEW i \in Int, NEW j \in Int, i <= j, NEW rest \in Seq(Cells)
    PROVE  PathWeight(t, i, j, rest) \in Int
<1>1. PICK k \in Int : k = j - i + 1 /\ 1 <= k
  OBVIOUS
<1>2. ASSUME j - i < Len(rest) PROVE rest[k].weight \in Int
  <2>1. k \in 1..Len(rest)
    BY <1>1, <1>2
  <2>2. rest[k] \in Cells
    BY <2>1
  <2> QED
    BY <2>2 DEF Cells
<1>3. PICK e \in Int : e = EdgeWeight(t, i, j)
  BY EdgeWeightType
<1>4. PathWeight(t, i, j, rest) = e + (IF j - i < Len(rest) THEN rest[k].weight ELSE 0)
  BY <1>1, <1>3 DEF PathWeight
<1> QED
  BY <1>2, <1>3, <1>4

(* A first word with which a path is heaviest exists, and a shortest one.  *)
Bests(t, i, r, rest) ==
    {j \in Nexts(t, i, r) : \A k \in Nexts(t, i, r) :
       PathWeight(t, i, k, rest) <= PathWeight(t, i, j, rest)}

(* There is a best first word, and a shortest of the best.                 *)
LEMMA BestWord ==
    ASSUME NEW t, NEW r \in Int, NEW i \in Int, i <= r, NEW rest \in Seq(Cells)
    PROVE  \E j \in Bests(t, i, r, rest) : \A k \in Bests(t, i, r, rest) : j <= k
<1> DEFINE N == Nexts(t, i, r)
           Best == Bests(t, i, r, rest)
<1>1. N \in SUBSET (i..r) /\ N # {}
  <2>1. i \in i..r
    OBVIOUS
  <2> QED
    BY <2>1 DEF Nexts
<1> HIDE DEF N
<1>2. PICK w : w = [j \in i..r |-> PathWeight(t, i, j, rest)]
  OBVIOUS
<1>3. \A j \in i..r : w[j] = PathWeight(t, i, j, rest) /\ w[j] \in Int
  BY <1>2, PathWeightType
<1>4. PICK j \in N : \A k \in N : w[k] <= w[j]
  <2>1. \A k \in N : w[k] \in Int
    BY <1>1, <1>3
  <2> QED
    BY <1>1, <2>1, GreatestPlace
<1>5. \A k \in N : w[k] = PathWeight(t, i, k, rest)
  BY <1>1, <1>3
<1>6. j \in Best
  BY <1>4, <1>5 DEF N, Bests
<1>7. Best \in SUBSET (i..r) /\ Best # {}
  BY <1>1, <1>6 DEF N, Bests
<1> HIDE DEF Best
<1>8. PICK v : v = [k \in i..r |-> k]
  OBVIOUS
<1>9. \A k \in i..r : v[k] = k /\ v[k] \in Int
  BY <1>8
<1>10. PICK e \in Best : \A k \in Best : v[e] <= v[k]
  <2>1. \A k \in Best : v[k] \in Int
    BY <1>7, <1>9
  <2> QED
    BY <1>7, <2>1, LeastPlace
<1>11. \A k \in Best : e <= k
  BY <1>7, <1>9, <1>10
<1> QED
  BY <1>11 DEF Best

(* The weight of the best path from i.                                     *)
Rest(dags, l, r, i) == IF i > r THEN 0 ELSE dags[i - l + 1].weight

(* CalcDP: at every place a first word, the weight of the path that starts *)
(* with it, and no other first word makes a heavier one.                   *)
LEMMA DpOf ==
    ASSUME NEW t, NEW l \in Int, NEW r \in Int, l <= r + 1, NEW dags, dags = CalcDP(t, l, r)
    PROVE  /\ dags \in Seq(Cells)
           /\ Len(dags) = r + 1 - l
           /\ \A i \in l..r :
                 /\ dags[i - l + 1].end \in Nexts(t, i, r)
                 /\ dags[i - l + 1].weight
                      = EdgeWeight(t, i, dags[i - l + 1].end)
                          + Rest(dags, l, r, dags[i - l + 1].end + 1)
                 /\ \A j \in Nexts(t, i, r) :
                       EdgeWeight(t, i, j) + Rest(dags, l, r, j + 1) <= dags[i - l + 1].weight
<1> DEFINE Best(i, rest) ==
              {j \in Nexts(t, i, r) : \A k \in Nexts(t, i, r) :
                 PathWeight(t, i, k, rest) <= PathWeight(t, i, j, rest)}
           first(i, rest) == CHOOSE j \in Best(i, rest) : \A k \in Best(i, rest) : j <= k
           cell(i, rest) == [end |-> first(i, rest),
                             weight |-> PathWeight(t, i, first(i, rest), rest)]
           V == Seq(Cells)
<1>1. ASSUME NEW i \in l..r, NEW rest \in V
      PROVE  /\ first(i, rest) \in Nexts(t, i, r)
             /\ first(i, rest) \in i..r
             /\ \A k \in Nexts(t, i, r) :
                   PathWeight(t, i, k, rest) <= PathWeight(t, i, first(i, rest), rest)
             /\ cell(i, rest) \in Cells
  <2>1. PICK e \in Best(i, rest) : \A k \in Best(i, rest) : e <= k
    <3>1. i \in Int /\ i <= r
      OBVIOUS
    <3>2. Best(i, rest) = Bests(t, i, r, rest)
      BY DEF Bests
    <3>3. \E e \in Bests(t, i, r, rest) : \A k \in Bests(t, i, r, rest) : e <= k
      BY <3>1, BestWord
    <3> HIDE DEF Best
    <3> QED
      BY <3>2, <3>3, Zenon
  <2>2. first(i, rest) \in Best(i, rest)
    <3> HIDE DEF Best
    <3> QED
      BY <2>1
  <2> HIDE DEF first
  <2>3. first(i, rest) \in Nexts(t, i, r)
    BY <2>2
  <2>4. first(i, rest) \in i..r
    BY <2>3 DEF Nexts
  <2>5. PathWeight(t, i, first(i, rest), rest) \in Int
    BY <2>4, PathWeightType
  <2>6. cell(i, rest) \in Cells
    BY <2>4, <2>5 DEF Cells
  <2>7. \A k \in Nexts(t, i, r) :
           PathWeight(t, i, k, rest) <= PathWeight(t, i, first(i, rest), rest)
    BY <2>2
  <2> QED
    BY <2>3, <2>4, <2>6, <2>7
<1> DEFINE Form(f) ==
              f = [i \in l..r + 1 |->
                    IF i > r THEN <<>>
                    ELSE LET rest == f[i + 1]
                         IN  <<cell(i, rest)>> \o rest]
<1>2. \E f : Form(f)
  <2> HIDE DEF cell
  <2>1. PICK next, G : /\ next = [i \in l..r |-> i + 1]
                       /\ G = [a \in (l..r) \X V |-> <<cell(a[1], a[2])>> \o a[2]]
    OBVIOUS
  <2>2. \A i \in l..r : next[i] = i + 1 /\ next[i] \in i + 1..r + 1
    BY <2>1
  <2>3. \A i \in l..r : \A v \in V : G[<<i, v>>] = <<cell(i, v)>> \o v
    BY <2>1
  <2>4. \A i \in l..r : \A v \in V : G[<<i, v>>] \in V
    <3> SUFFICES ASSUME NEW i \in l..r, NEW v \in V PROVE <<cell(i, v)>> \o v \in V
      BY <2>3
    <3>0. cell(i, v) \in Cells
      BY <1>1
    <3>1. <<cell(i, v)>> \in Seq(Cells)
      BY <3>0
    <3> QED
      BY <3>1, ConcatProperties
  <2>5. <<>> \in V
    OBVIOUS
  <2> HIDE DEF V
  <2>6. PICK f : f \in [l..r + 1 -> V] /\ IsBack(f, l, r, next, G, <<>>)
    BY <2>2, <2>4, <2>5, BackExists
  <2>7. f = [i \in l..r + 1 |-> IF i > r THEN <<>> ELSE G[<<i, f[next[i]]>>]]
    BY <2>6 DEF IsBack
  <2>8. ASSUME NEW i \in l..r + 1, ~(i > r)
        PROVE  G[<<i, f[next[i]]>>] = <<cell(i, f[i + 1])>> \o f[i + 1]
    <3>1. i \in l..r /\ i + 1 \in l..r + 1
      BY <2>8
    <3> QED
      BY <2>2, <2>3, <2>6, <3>1
  <2> QED
    BY <2>7, <2>8
<1> DEFINE F == CHOOSE f : Form(f)
<1>3. Form(F)
  <2> HIDE DEF Form
  <2> QED
    BY <1>2
<1>4. CalcDP(t, l, r) = F[l]
  BY DEF CalcDP
<1>5. \A i \in l..r + 1 : F[i] = IF i > r THEN <<>> ELSE <<cell(i, F[i + 1])>> \o F[i + 1]
  <2> HIDE DEF cell
  <2> QED
    BY <1>3
<1> HIDE DEF F, Form
<1> DEFINE U == {i \in l..r + 1 : /\ F[i] \in V
                                  /\ Len(F[i]) = r + 1 - i
                                  /\ \A k \in 1..r + 1 - i : F[i][k] = F[i + k - 1][1]}
<1>6. r + 1 \in U
  <2>1. F[r + 1] = <<>>
    <3>1. r + 1 \in l..r + 1 /\ r + 1 > r
      OBVIOUS
    <3> HIDE DEF cell
    <3> QED
      BY <1>5, <3>1
  <2>2. <<>> \in V /\ Len(<<>>) = 0 /\ r + 1 - (r + 1) = 0 /\ r + 1 \in l..r + 1
    OBVIOUS
  <2> HIDE DEF V
  <2> QED
    BY <2>1, <2>2
<1>7. ASSUME NEW i \in l..r, \A j \in i + 1..r + 1 : j \in U PROVE i \in U
  <2>1. i + 1 \in U /\ i \in l..r + 1 /\ i + 1 \in l..r + 1 /\ ~(i > r) /\ i \in Int
    <3>1. i + 1 \in i + 1..r + 1
      OBVIOUS
    <3> HIDE DEF U
    <3> QED
      BY <1>7, <3>1
  <2>2. PICK c \in Cells, g \in V : c = cell(i, F[i + 1]) /\ g = F[i + 1]
    <3>1. F[i + 1] \in V
      BY <2>1
    <3>2. cell(i, F[i + 1]) \in Cells
      BY <1>1, <3>1
    <3> QED
      BY <3>1, <3>2
  <2> HIDE DEF cell
  <2>3. F[i] = <<c>> \o g
    BY <1>5, <2>1, <2>2
  <2>4. Len(g) = r - i /\ \A k \in 1..r - i : g[k] = F[i + 1 + k - 1][1]
    <3>1. r + 1 - (i + 1) = r - i
      OBVIOUS
    <3> QED
      BY <2>1, <2>2, <3>1
  <2>5. /\ <<c>> \o g \in V
        /\ Len(<<c>> \o g) = r + 1 - i
        /\ (<<c>> \o g)[1] = c
        /\ \A k \in 1..r - i : (<<c>> \o g)[k + 1] = g[k]
    BY <2>4
  <2>6. ASSUME NEW k \in 1..r + 1 - i PROVE F[i][k] = F[i + k - 1][1]
    <3>1. CASE k = 1
      <4>1. i + k - 1 = i
        BY <3>1
      <4> QED
        BY <3>1, <4>1
    <3>2. CASE k # 1
      <4>1. PICK h \in 1..r - i : k = h + 1 /\ i + 1 + h - 1 = i + k - 1
        <5>1. k - 1 \in 1..r - i /\ k = (k - 1) + 1 /\ i + 1 + (k - 1) - 1 = i + k - 1
          BY <3>2
        <5> QED
          BY <5>1
      <4>2. F[i][k] = g[h]
        BY <2>3, <2>5, <4>1
      <4> QED
        BY <2>4, <4>1, <4>2
    <3> QED
      BY <3>1, <3>2
  <2> QED
    BY <2>1, <2>3, <2>5, <2>6
<1>8. \A i \in l..r + 1 : i \in U
  <2> HIDE DEF U
  <2> QED
    BY <1>6, <1>7, Backward
<1>9. /\ dags \in V
      /\ Len(dags) = r + 1 - l
      /\ \A i \in l..r : dags[i - l + 1] = F[i][1]
  <2>1. l \in U
    BY <1>8
  <2>2. dags = F[l]
    BY <1>4
  <2>3. ASSUME NEW i \in l..r PROVE dags[i - l + 1] = F[i][1]
    <3>1. i - l + 1 \in 1..r + 1 - l /\ l + (i - l + 1) - 1 = i
      OBVIOUS
    <3> QED
      BY <2>1, <2>2, <3>1
  <2> QED
    BY <2>1, <2>2, <2>3
<1>10. ASSUME NEW i \in l..r
       PROVE  /\ dags[i - l + 1].end \in Nexts(t, i, r)
              /\ dags[i - l + 1].weight
                   = EdgeWeight(t, i, dags[i - l + 1].end)
                       + Rest(dags, l, r, dags[i - l + 1].end + 1)
              /\ \A j \in Nexts(t, i, r) :
                    EdgeWeight(t, i, j) + Rest(dags, l, r, j + 1) <= dags[i - l + 1].weight
  <2>1. i + 1 \in U /\ i \in l..r + 1 /\ ~(i > r) /\ i + 1 \in l..r + 1
    <3> HIDE DEF U
    <3> QED
      BY <1>8
  <2>2. PICK rest \in V : rest = F[i + 1]
    BY <2>1
  <2>3. Len(rest) = r - i /\ \A k \in 1..r - i : rest[k] = F[i + 1 + k - 1][1]
    <3>1. r + 1 - (i + 1) = r - i
      OBVIOUS
    <3> QED
      BY <2>1, <2>2, <3>1
  <2>4. PICK c \in Cells : c = cell(i, rest)
    BY <1>1
  <2>5. c.end \in Nexts(t, i, r) /\ c.end \in i..r
    BY <1>1, <2>4
  <2>6. c.weight = PathWeight(t, i, c.end, rest)
    BY <2>4
  <2>7. \A k \in Nexts(t, i, r) : PathWeight(t, i, k, rest) <= c.weight
    BY <1>1, <2>4
  <2>8. dags[i - l + 1] = c
    <3>1. F[i] = <<c>> \o rest
      <4> HIDE DEF cell
      <4> QED
        BY <1>5, <2>1, <2>2, <2>4
    <3>2. (<<c>> \o rest)[1] = c
      OBVIOUS
    <3> QED
      BY <1>9, <3>1, <3>2
  <2>9. ASSUME NEW j \in i..r
        PROVE  PathWeight(t, i, j, rest) = EdgeWeight(t, i, j) + Rest(dags, l, r, j + 1)
    <3>1. CASE j = r
      <4>1. ~(j - i < Len(rest)) /\ j + 1 > r
        BY <2>3, <3>1
      <4> QED
        BY <4>1 DEF PathWeight, Rest
    <3>2. CASE j # r
      <4>1. /\ j - i < Len(rest) /\ ~(j + 1 > r) /\ j + 1 \in l..r /\ j - i + 1 \in 1..r - i
            /\ i + 1 + (j - i + 1) - 1 = j + 1
        BY <2>3, <3>2
      <4>2. rest[j - i + 1] = F[j + 1][1]
        BY <2>3, <4>1
      <4>3. dags[j + 1 - l + 1] = F[j + 1][1]
        BY <1>9, <4>1
      <4>4. PathWeight(t, i, j, rest) = EdgeWeight(t, i, j) + rest[j - i + 1].weight
        BY <4>1 DEF PathWeight
      <4>5. Rest(dags, l, r, j + 1) = dags[j + 1 - l + 1].weight
        <5>1. PICK h : h = j + 1
          OBVIOUS
        <5>2. ~(h > r)
          BY <4>1, <5>1
        <5>3. Rest(dags, l, r, h) = dags[h - l + 1].weight
          BY <5>2 DEF Rest
        <5> QED
          BY <5>1, <5>3
      <4> QED
        BY <4>2, <4>3, <4>4, <4>5
    <3> QED
      BY <3>1, <3>2
  <2>10. Nexts(t, i, r) \in SUBSET (i..r)
    BY DEF Nexts
  <2> QED
    BY <2>5, <2>6, <2>7, <2>8, <2>9, <2>10
<1> QED
  BY <1>9, <1>10

-----------------------------------------------------------------------------
(* MPCut goes from word to word of CalcDP.                                 *)
GoesAlong(t, l, r, dags, next, piece, f) ==
    /\ \A i \in l..r : /\ next[i] = dags[i - l + 1].end + 1
                       /\ next[i] \in i + 1..r + 1
                       /\ piece[i] = << <<i, dags[i - l + 1].end>> >>
                       /\ piece[i] \in Seq(Spans)
    /\ IsCut(f, l, r, next, piece)
    /\ MPCut(t, l, r) = f[l]

(* The function MPCut takes its value from.                                *)
LEMMA MPCutIs ==
    ASSUME NEW t, NEW l \in Int, NEW r \in Int, l <= r + 1, NEW dags, dags = CalcDP(t, l, r)
    PROVE  \E next, piece, f : GoesAlong(t, l, r, dags, next, piece, f)
<1> DEFINE last(i) == dags[i - l + 1].end
<1>1. \A i \in l..r : last(i) \in i..r
  BY DpOf DEF Nexts
<1> HIDE DEF last
<1>2. PICK next, piece :
        /\ next = [i \in l..r |-> last(i) + 1]
        /\ piece = [i \in l..r |-> << <<i, last(i)>> >>]
  OBVIOUS
<1>3. \A i \in l..r : /\ next[i] = last(i) + 1
                      /\ piece[i] = << <<i, last(i)>> >>
                      /\ next[i] \in i + 1..r + 1
                      /\ piece[i] \in Seq(Spans)
  BY <1>1, <1>2 DEF Spans
<1>4. \E f : f \in [l..r + 1 -> Seq(Spans)] /\ IsCut(f, l, r, next, piece)
  BY <1>3, CutExists
<1> DEFINE Form(f) ==
             f = [i \in l..r + 1 |->
                   IF i > r THEN <<>>
                   ELSE LET e == last(i) IN << <<i, e>> >> \o f[e + 1]]
<1>5. \A f : Form(f) <=> IsCut(f, l, r, next, piece)
  <2> SUFFICES ASSUME NEW f
               PROVE  Form(f) <=> IsCut(f, l, r, next, piece)
    OBVIOUS
  <2>1. \A i \in l..r + 1 :
           (IF i > r THEN <<>> ELSE << <<i, last(i)>> >> \o f[last(i) + 1])
             = (IF i > r THEN <<>> ELSE piece[i] \o f[next[i]])
    <3> SUFFICES ASSUME NEW i \in l..r + 1, ~(i > r)
                 PROVE  << <<i, last(i)>> >> \o f[last(i) + 1] = piece[i] \o f[next[i]]
      BY Zenon
    <3>1. i \in l..r
      OBVIOUS
    <3> QED
      BY <1>3, <3>1
  <2>2. [i \in l..r + 1 |-> IF i > r THEN <<>> ELSE << <<i, last(i)>> >> \o f[last(i) + 1]]
          = [i \in l..r + 1 |-> IF i > r THEN <<>> ELSE piece[i] \o f[next[i]]]
    BY <2>1
  <2> QED
    BY <2>2 DEF IsCut
<1> DEFINE F == CHOOSE f : Form(f)
<1>6. Form(F)
  <2> HIDE DEF Form
  <2> QED
    BY <1>4, <1>5
<1>7. MPCut(t, l, r) = F[l]
  BY DEF MPCut, last
<1>8. IsCut(F, l, r, next, piece)
  <2> HIDE DEF Form, F
  <2> QED
    BY <1>5, <1>6
<1> HIDE DEF F, Form
<1>9. GoesAlong(t, l, r, dags, next, piece, F)
  BY <1>3, <1>7, <1>8 DEF last, GoesAlong
<1> QED
  BY <1>9

(* Its words cover the piece.                                              *)
LEMMA MPCutCovers ==
    ASSUME NEW t, NEW l \in Int, NEW r \in Int, l <= r + 1
    PROVE  Covers(MPCut(t, l, r), l, r)
<1>1. PICK dags : dags = CalcDP(t, l, r)
  OBVIOUS
<1>a. PICK next, piece, f : GoesAlong(t, l, r, dags, next, piece, f)
  BY <1>1, MPCutIs
<1>2. /\ \A i \in l..r : /\ next[i] = dags[i - l + 1].end + 1
                         /\ next[i] \in i + 1..r + 1
                         /\ piece[i] = << <<i, dags[i - l + 1].end>> >>
      /\ IsCut(f, l, r, next, piece)
      /\ MPCut(t, l, r) = f[l]
  BY <1>a DEF GoesAlong
<1>3. PICK pos : pos = [i \in l..r + 1 |-> i]
  OBVIOUS
<1>4. ASSUME NEW i \in l..r PROVE Covers(piece[i], pos[i], pos[next[i]] - 1)
  <2>1. PICK e \in i..r : e = dags[i - l + 1].end
    <3>1. dags[i - l + 1].end \in Nexts(t, i, r)
      BY <1>1, DpOf
    <3> QED
      BY <3>1 DEF Nexts
  <2>2. next[i] = e + 1 /\ next[i] \in l..r + 1 /\ pos[next[i]] - 1 = e /\ pos[i] = i
    <3>1. next[i] = e + 1 /\ next[i] \in i + 1..r + 1
      BY <1>2, <2>1
    <3>2. next[i] \in l..r + 1 /\ i \in l..r + 1
      BY <3>1
    <3> QED
      BY <1>3, <3>1, <3>2
  <2>3. Covers(<< <<i, e>> >>, i, e)
    BY CoverOne
  <2> QED
    BY <1>2, <2>1, <2>2, <2>3
<1>5. pos[l] = l /\ pos[r + 1] - 1 = r /\ \A i \in l..r + 1 : pos[i] \in Int
  BY <1>3
<1>6. Covers(f[l], pos[l], pos[r + 1] - 1)
  BY <1>2, <1>4, <1>5, CutCovers
<1> QED
  BY <1>2, <1>5, <1>6

-----------------------------------------------------------------------------
(* Viterbi: integers for every status of every rune.                       *)
TagCells == [weight : Int, path : Status]
TagRows == [Status -> TagCells]

(* MIN_DOUBLE is a negative integer.                                       *)
LEMMA MinDoubleType == MIN_DOUBLE \in Int /\ MIN_DOUBLE < 0
  BY SegmenterAssumption

(* A sum above MIN_DOUBLE stays as it is, no other comes above it.         *)
LEMMA RoundedType ==
    ASSUME NEW w \in Int
    PROVE  /\ Rounded(w) \in Int
           /\ w > MIN_DOUBLE => Rounded(w) = w
           /\ w <= MIN_DOUBLE => Rounded(w) <= MIN_DOUBLE
<1>1. PICK m \in Int : m = -MIN_DOUBLE /\ m > 0 /\ MIN_DOUBLE = -m
  BY MinDoubleType
<1>2. CASE w > MIN_DOUBLE
  BY <1>1, <1>2 DEF Rounded
<1>3. CASE ~(w > MIN_DOUBLE)
  <2>1. PICK v \in Int : v = -w /\ v >= m
    BY <1>1, <1>3
  <2>2. PICK q \in Int : q = v \div m /\ q >= 1
    BY <1>1, <2>1
  <2>3. Rounded(w) = q * MIN_DOUBLE
    BY <1>1, <1>3, <2>1, <2>2 DEF Rounded
  <2>4. q * MIN_DOUBLE \in Int /\ q * MIN_DOUBLE <= MIN_DOUBLE
    BY <1>1, <2>2
  <2> QED
    BY <1>1, <1>3, <2>3, <2>4
<1> QED
  BY <1>2, <1>3

(* Rounding keeps the order of sums.                                       *)
LEMMA RoundedGrows ==
    ASSUME NEW v \in Int, NEW w \in Int, v <= w
    PROVE  Rounded(v) <= Rounded(w)
<1>1. PICK m \in Int : m = -MIN_DOUBLE /\ m > 0 /\ MIN_DOUBLE = -m
  BY MinDoubleType
<1>2. CASE w > MIN_DOUBLE
  <2>1. CASE v > MIN_DOUBLE
    BY <1>2, <2>1, RoundedType
  <2>2. CASE v <= MIN_DOUBLE
    <3>1. Rounded(v) \in Int /\ Rounded(v) <= MIN_DOUBLE /\ Rounded(w) = w
      BY <1>2, <2>2, RoundedType
    <3> QED
      BY <1>1, <1>2, <3>1
  <2> QED
    BY <1>1, <2>1, <2>2
<1>3. CASE ~(w > MIN_DOUBLE)
  <2>1. PICK a \in Int, b \in Int : a = -w /\ b = -v /\ a <= b
    OBVIOUS
  <2>2. PICK p \in Int, q \in Int : p = a \div m /\ q = b \div m /\ p <= q
    BY <1>1, <2>1
  <2>3. Rounded(w) = p * MIN_DOUBLE
    BY <1>1, <1>3, <2>1, <2>2 DEF Rounded
  <2>4. Rounded(v) = q * MIN_DOUBLE
    <3>1. ~(v > MIN_DOUBLE)
      BY <1>1, <1>3
    <3> QED
      BY <1>1, <2>1, <2>2, <3>1 DEF Rounded
  <2>5. q * MIN_DOUBLE <= p * MIN_DOUBLE
    BY <1>1, <2>2
  <2> QED
    BY <2>3, <2>4, <2>5
<1> QED
  BY <1>2, <1>3

(* The statuses by their numbers.                                          *)
LEMMA StatusIs == Status = {0, 1, 2, 3} /\ B = 0 /\ E = 1 /\ M = 2 /\ S = 3
  BY DEF Status, B, E, M, S

(* The probabilities are integers, none above 0.                           *)
LEMMA ProbTypes ==
    ASSUME NEW y \in Status, NEW rune
    PROVE  /\ startProb[y] \in Int /\ startProb[y] <= 0
           /\ GetEmitProb(y, rune) \in Int /\ GetEmitProb(y, rune) <= 0
           /\ \A p \in Status : StepProb(p, y, rune) \in Int /\ StepProb(p, y, rune) <= 0
<1>1. startProb[y] \in Int /\ startProb[y] <= 0
  BY SegmenterAssumption
<1>2. \A p \in Status : transProb[p][y] \in Int /\ transProb[p][y] <= 0
  BY SegmenterAssumption
<1>3. \A u \in DOMAIN emitProb[y] : emitProb[y][u] \in Int /\ emitProb[y][u] <= 0
  BY SegmenterAssumption
<1>4. GetEmitProb(y, rune) \in Int /\ GetEmitProb(y, rune) <= 0
  BY <1>3, MinDoubleType DEF GetEmitProb
<1>5. ASSUME NEW p \in Status PROVE StepProb(p, y, rune) \in Int /\ StepProb(p, y, rune) <= 0
  <2>1. PICK a \in Int, b \in Int :
           a = transProb[p][y] /\ b = GetEmitProb(y, rune) /\ a <= 0 /\ b <= 0
    BY <1>2, <1>4
  <2>2. StepProb(p, y, rune) = a + b
    BY <2>1 DEF StepProb
  <2> QED
    BY <2>1, <2>2
<1> QED
  BY <1>1, <1>4, <1>5

(* The first row of the table.                                             *)
LEMMA StartType ==
    ASSUME NEW y \in Status, NEW rune
    PROVE  Start(y, rune) \in TagCells
<1>1. PICK w \in Int : w = startProb[y] + GetEmitProb(y, rune)
  BY ProbTypes
<1>2. Start(y, rune) = [weight |-> Rounded(w), path |-> E]
  BY <1>1 DEF Start
<1>3. Rounded(w) \in Int /\ E \in Status
  BY RoundedType, StatusIs
<1> QED
  BY <1>2, <1>3 DEF TagCells

(* The weight of status y after status p.                                  *)
After(old, p, y, rune) == Rounded(old[p].weight + StepProb(p, y, rune))

(* It is above MIN_DOUBLE only where the status before is.                 *)
LEMMA AfterType ==
    ASSUME NEW old \in TagRows, NEW p \in Status, NEW y \in Status, NEW rune
    PROVE  /\ After(old, p, y, rune) \in Int
           /\ old[p].weight \in Int
           /\ After(old, p, y, rune) > MIN_DOUBLE => old[p].weight > MIN_DOUBLE
<1>1. old[p].weight \in Int
  <2>1. old[p] \in TagCells
    BY DEF TagRows
  <2> QED
    BY <2>1 DEF TagCells
<1>2. PICK a \in Int, b \in Int : a = old[p].weight /\ b = StepProb(p, y, rune) /\ b <= 0
  BY <1>1, ProbTypes
<1>3. After(old, p, y, rune) = Rounded(a + b)
  BY <1>2 DEF After
<1>4. a + b \in Int /\ (a <= MIN_DOUBLE => a + b <= MIN_DOUBLE)
  BY <1>2, MinDoubleType
<1>5. Rounded(a + b) \in Int /\ (a + b <= MIN_DOUBLE => Rounded(a + b) <= MIN_DOUBLE)
  BY <1>4, RoundedType
<1> QED
  BY <1>2, <1>3, <1>4, <1>5, MinDoubleType

(* A cell is the best way to it, where there is one above MIN_DOUBLE.      *)
LEMMA CellIs ==
    ASSUME NEW old \in TagRows, NEW y \in Status, NEW rune, NEW c, c = Cell(old, y, rune)
    PROVE  /\ c \in TagCells
           /\ \A p \in Status : After(old, p, y, rune) > MIN_DOUBLE =>
                                  After(old, p, y, rune) <= c.weight
           /\ c.weight > MIN_DOUBLE => c.weight = After(old, c.path, y, rune)
<1> DEFINE tmp == ForEachStatus(LAMBDA preY : Rounded(old[preY].weight + StepProb(preY, y, rune)))
           Best == {p \in Status : tmp[p] > MIN_DOUBLE /\ \A q \in Status : tmp[q] <= tmp[p]}
           path == CHOOSE p \in Best : \A q \in Best : p <= q
<1>1. c = IF Best = {} THEN [weight |-> MIN_DOUBLE, path |-> E]
          ELSE [weight |-> tmp[path], path |-> path]
  BY DEF Cell
<1>2. \A p \in Status : tmp[p] = After(old, p, y, rune)
  BY StatusIs DEF ForEachStatus, After
<1> HIDE DEF tmp
<1>3. \A p \in Status : tmp[p] \in Int
  BY <1>2, AfterType
<1>4. Status = 0..3 /\ Status # {} /\ 0 \in Int /\ 3 \in Int
  BY StatusIs DEF Status
<1>5. PICK b \in Status : \A q \in Status : tmp[q] <= tmp[b]
  BY <1>3, <1>4, GreatestPlace
<1>6. CASE Best = {}
  <2>1. ~(tmp[b] > MIN_DOUBLE)
    BY <1>5, <1>6
  <2>2. \A p \in Status : ~(tmp[p] > MIN_DOUBLE)
    BY <1>3, <1>5, <2>1, MinDoubleType
  <2>3. c = [weight |-> MIN_DOUBLE, path |-> E]
    BY <1>1, <1>6
  <2>4. c \in TagCells
    BY <2>3, StatusIs, MinDoubleType DEF TagCells
  <2> QED
    BY <1>2, <2>2, <2>3, <2>4, MinDoubleType
<1>7. CASE Best # {}
  <2>1. PICK v : v = [k \in 0..3 |-> k]
    OBVIOUS
  <2>2. \A k \in 0..3 : v[k] = k /\ v[k] \in Int
    BY <2>1
  <2>3. Best \in SUBSET (0..3)
    BY <1>4
  <2>4. PICK e \in Best : \A k \in Best : v[e] <= v[k]
    <3> HIDE DEF Best
    <3>1. \A k \in Best : v[k] \in Int
      BY <2>2, <2>3
    <3> QED
      BY <1>4, <1>7, <2>3, <3>1, LeastPlace
  <2>5. \A k \in Best : e <= k
    BY <2>2, <2>3, <2>4
  <2>6. path \in Best
    <3> HIDE DEF Best
    <3> QED
      BY <2>5
  <2> HIDE DEF path
  <2>7. path \in Status /\ \A q \in Status : tmp[q] <= tmp[path]
    BY <2>6
  <2>8. c = [weight |-> tmp[path], path |-> path]
    BY <1>1, <1>7
  <2>9. c.weight = tmp[path] /\ c.path = path
    BY <2>8
  <2>10. c \in TagCells
    BY <1>3, <2>7, <2>8 DEF TagCells
  <2> QED
    BY <1>2, <2>7, <2>9, <2>10
<1> QED
  BY <1>6, <1>7

(* The rows of Viterbi's table, and the statuses from the last one back.   *)
TableOf(t, l, r, rows, tags) ==
    /\ rows \in [l..r -> TagRows]
    /\ \A y \in Status : rows[l][y] = Start(y, t[l])
    /\ \A x \in l + 1..r : \A y \in Status : rows[x][y] = Cell(rows[x - 1], y, t[x])
    /\ tags \in Seq(Status)
    /\ Len(tags) = r - l + 1
    /\ tags[r - l + 1] = EndStatus([y \in Status |-> rows[r][y].weight])
    /\ \A x \in l..r - 1 : tags[x - l + 1] = rows[x + 1][tags[x - l + 2]].path

(* Viterbi fills such a table and goes back along its paths.               *)
LEMMA ViterbiIs ==
    ASSUME NEW t, NEW l \in Int, NEW r \in Int, l <= r
    PROVE  \E rows : TableOf(t, l, r, rows, Viterbi(t, l, r))
<1> DEFINE row(old, x) == ForEachStatus(LAMBDA y : Cell(old, y, t[x]))
           row0 == ForEachStatus(LAMBDA y : Start(y, t[l]))
           Form(f) == f = [x \in l..r |-> IF x = l THEN row0
                                          ELSE LET old == f[x - 1] IN row(old, x)]
           R == CHOOSE f : Form(f)
           Back(f) == f = [x \in l..r |->
                             IF x = r THEN <<EndStatus([y \in Status |-> R[r][y].weight])>>
                             ELSE LET after == f[x + 1] IN <<R[x + 1][after[1]].path>> \o after]
           F == CHOOSE f : Back(f)
<1>1. Viterbi(t, l, r) = F[l]
  BY DEF Viterbi
<1>2. row0 \in TagRows /\ \A y \in Status : row0[y] = Start(y, t[l])
  <2>1. \A y \in Status : row0[y] = Start(y, t[l])
    BY StatusIs DEF ForEachStatus
  <2>2. row0 = [y \in Status |-> row0[y]]
    BY DEF ForEachStatus
  <2> HIDE DEF row0
  <2> QED
    BY <2>1, <2>2, StartType DEF TagRows
<1>3. ASSUME NEW old \in TagRows, NEW x
      PROVE  row(old, x) \in TagRows /\ \A y \in Status : row(old, x)[y] = Cell(old, y, t[x])
  <2>1. \A y \in Status : row(old, x)[y] = Cell(old, y, t[x])
    BY StatusIs DEF ForEachStatus
  <2>2. row(old, x) = [y \in Status |-> row(old, x)[y]]
    BY DEF ForEachStatus
  <2> HIDE DEF row
  <2> QED
    BY <2>1, <2>2, CellIs DEF TagRows
<1> HIDE DEF row, row0
<1>4. PICK rows : rows \in [l..r -> TagRows] /\ Form(rows)
  <2>1. PICK G : G = [a \in (l..r) \X TagRows |-> row(a[2], a[1])]
    OBVIOUS
  <2>2. \A x \in l..r : \A v \in TagRows : G[<<x, v>>] = row(v, x)
    BY <2>1
  <2>3. \A x \in l + 1..r : \A v \in TagRows : G[<<x, v>>] \in TagRows
    <3> SUFFICES ASSUME NEW x \in l + 1..r, NEW v \in TagRows PROVE G[<<x, v>>] \in TagRows
      OBVIOUS
    <3>1. x \in l..r
      OBVIOUS
    <3> QED
      BY <1>3, <2>2, <3>1
  <2>4. PICK f : f \in [l..r -> TagRows] /\ IsForth(f, l, r, G, row0)
    BY <1>2, <2>3, ForthExists
  <2>5. f = [x \in l..r |-> IF x = l THEN row0 ELSE G[<<x, f[x - 1]>>]]
    BY <2>4 DEF IsForth
  <2>6. ASSUME NEW x \in l..r, x # l PROVE G[<<x, f[x - 1]>>] = row(f[x - 1], x)
    <3>1. x - 1 \in l..r
      BY <2>6
    <3> QED
      BY <2>2, <2>4, <3>1
  <2>7. Form(f)
    BY <2>5, <2>6
  <2> QED
    BY <2>4, <2>7
<1>5. Form(R)
  <2> HIDE DEF Form
  <2> QED
    BY <1>4
<1> HIDE DEF R
<1>6. \A x \in l..r : R[x] = IF x = l THEN row0 ELSE row(R[x - 1], x)
  BY <1>5
<1>7. R \in [l..r -> TagRows]
  <2> DEFINE V == {x \in l..r : R[x] \in TagRows}
  <2>1. l \in V
    BY <1>2, <1>6
  <2>2. ASSUME NEW x \in l..r - 1, x \in V PROVE x + 1 \in V
    <3>1. x + 1 \in l..r /\ x + 1 # l /\ x + 1 - 1 = x
      OBVIOUS
    <3>2. R[x + 1] = row(R[x], x + 1)
      BY <1>6, <3>1
    <3> QED
      BY <1>3, <2>2, <3>1, <3>2
  <2>3. \A x \in l..r : x \in V
    <3> HIDE DEF V
    <3> QED
      BY <2>1, <2>2, Forward
  <2>4. R = [x \in l..r |-> R[x]]
    BY <1>5
  <2> HIDE DEF Form
  <2> QED
    BY <2>3, <2>4
<1>8. /\ \A y \in Status : R[l][y] = Start(y, t[l])
      /\ \A x \in l + 1..r : \A y \in Status : R[x][y] = Cell(R[x - 1], y, t[x])
  <2>1. R[l] = row0
    BY <1>6
  <2>2. ASSUME NEW x \in l + 1..r
        PROVE  \A y \in Status : R[x][y] = Cell(R[x - 1], y, t[x])
    <3>1. x \in l..r /\ x # l /\ x - 1 \in l..r
      OBVIOUS
    <3>2. R[x] = row(R[x - 1], x) /\ R[x - 1] \in TagRows
      BY <1>6, <1>7, <3>1
    <3> QED
      BY <1>3, <3>2
  <2> QED
    BY <1>2, <2>1, <2>2
<1> DEFINE last == EndStatus([y \in Status |-> R[r][y].weight])
<1>9. last \in Status
  BY StatusIs DEF EndStatus
<1> HIDE DEF last
<1> DEFINE V == {s \in Seq(Status) : Len(s) > 0}
<1>10. \A x \in l..r - 1 : \A s \in V :
          /\ <<R[x + 1][s[1]].path>> \o s \in V
          /\ Len(<<R[x + 1][s[1]].path>> \o s) = Len(s) + 1
          /\ (<<R[x + 1][s[1]].path>> \o s)[1] = R[x + 1][s[1]].path
          /\ \A k \in 1..Len(s) : (<<R[x + 1][s[1]].path>> \o s)[k + 1] = s[k]
  <2> SUFFICES ASSUME NEW x \in l..r - 1, NEW s \in V
               PROVE  /\ <<R[x + 1][s[1]].path>> \o s \in V
                      /\ Len(<<R[x + 1][s[1]].path>> \o s) = Len(s) + 1
                      /\ (<<R[x + 1][s[1]].path>> \o s)[1] = R[x + 1][s[1]].path
                      /\ \A k \in 1..Len(s) : (<<R[x + 1][s[1]].path>> \o s)[k + 1] = s[k]
    OBVIOUS
  <2>1. s[1] \in Status /\ x + 1 \in l..r
    OBVIOUS
  <2>2. R[x + 1][s[1]] \in TagCells
    BY <1>7, <2>1 DEF TagRows
  <2>3. PICK p \in Status : p = R[x + 1][s[1]].path
    BY <2>2 DEF TagCells
  <2>4. /\ <<p>> \o s \in Seq(Status)
        /\ Len(<<p>> \o s) = Len(s) + 1
        /\ (<<p>> \o s)[1] = p
        /\ \A k \in 1..Len(s) : (<<p>> \o s)[k + 1] = s[k]
    OBVIOUS
  <2> QED
    BY <2>3, <2>4
<1>11. \E f : Back(f)
  <2>0. <<last>> \in V
    BY <1>9
  <2>1. PICK next, G :
           /\ next = [x \in l..r - 1 |-> x + 1]
           /\ G = [a \in (l..r - 1) \X V |-> <<R[a[1] + 1][a[2][1]].path>> \o a[2]]
    OBVIOUS
  <2> HIDE DEF V
  <2>2. \A x \in l..r - 1 : \A s \in V : G[<<x, s>>] = <<R[x + 1][s[1]].path>> \o s
    BY <2>1
  <2>3. \A x \in l..r - 1 : next[x] = x + 1 /\ next[x] \in x + 1..r - 1 + 1
    BY <2>1
  <2>4. \A x \in l..r - 1 : \A s \in V : G[<<x, s>>] \in V
    BY <1>10, <2>2
  <2>5. PICK f : f \in [l..r - 1 + 1 -> V] /\ IsBack(f, l, r - 1, next, G, <<last>>)
    <3>1. r - 1 \in Int /\ l <= r - 1 + 1
      OBVIOUS
    <3> QED
      BY <2>0, <2>3, <2>4, <3>1, BackExists
  <2>6. r - 1 + 1 = r
    OBVIOUS
  <2>7. f \in [l..r -> V] /\ f = [x \in l..r |-> IF x > r - 1 THEN <<last>> ELSE G[<<x, f[next[x]]>>]]
    BY <2>5, <2>6 DEF IsBack
  <2>8. ASSUME NEW x \in l..r
        PROVE  (IF x > r - 1 THEN <<last>> ELSE G[<<x, f[next[x]]>>])
                 = IF x = r THEN <<last>> ELSE <<R[x + 1][f[x + 1][1]].path>> \o f[x + 1]
    <3>1. CASE x = r
      BY <3>1
    <3>2. CASE x # r
      <4>1. x \in l..r - 1 /\ ~(x > r - 1) /\ x + 1 \in l..r
        BY <3>2
      <4>2. f[x + 1] \in V
        BY <2>7, <4>1
      <4> QED
        BY <2>2, <2>3, <3>2, <4>1, <4>2
    <3> QED
      BY <3>1, <3>2
  <2>9. f = [x \in l..r |-> IF x = r THEN <<last>> ELSE <<R[x + 1][f[x + 1][1]].path>> \o f[x + 1]]
    BY <2>7, <2>8
  <2> QED
    BY <2>9 DEF last
<1>12. Back(F)
  <2> HIDE DEF Back
  <2> QED
    BY <1>11
<1>13. \A x \in l..r : F[x] = IF x = r THEN <<last>> ELSE <<R[x + 1][F[x + 1][1]].path>> \o F[x + 1]
  BY <1>12 DEF last
<1> HIDE DEF F, Back
<1> DEFINE T == {x \in l..r : /\ F[x] \in V
                             /\ Len(F[x]) = r - x + 1
                             /\ F[x][r - x + 1] = last
                             /\ \A k \in 1..r - x :
                                   F[x][k] = R[x + k][F[x][k + 1]].path}
<1>14. r \in T
  <2>1. r \in l..r /\ r - r + 1 = 1 /\ 1..r - r = {}
    OBVIOUS
  <2>2. F[r] = <<last>>
    BY <1>13, <2>1
  <2>3. <<last>> \in V /\ Len(<<last>>) = 1 /\ <<last>>[1] = last
    BY <1>9
  <2>5. /\ F[r] \in V
        /\ Len(F[r]) = r - r + 1
        /\ F[r][r - r + 1] = last
    BY <2>1, <2>2, <2>3
  <2>6. \A k \in 1..r - r : F[r][k] = R[r + k][F[r][k + 1]].path
    BY <2>1
  <2> HIDE DEF V
  <2> QED
    BY <2>1, <2>5, <2>6
<1>15. ASSUME NEW x \in l..r - 1, x + 1 \in T PROVE x \in T
  <2>1. x \in l..r /\ x # r /\ x + 1 \in l..r
    OBVIOUS
  <2>2. PICK s \in V : s = F[x + 1]
    BY <1>15
  <2>3. /\ Len(s) = r - x /\ s[r - x] = last
        /\ \A k \in 1..r - x - 1 : s[k] = R[x + 1 + k][s[k + 1]].path
    <3>1. r - (x + 1) + 1 = r - x /\ r - (x + 1) = r - x - 1
      OBVIOUS
    <3> QED
      BY <1>15, <2>2, <3>1
  <2>4. PICK q : q = <<R[x + 1][s[1]].path>> \o s
    OBVIOUS
  <2>5. F[x] = q
    BY <1>13, <2>1, <2>2, <2>4
  <2>6. /\ q \in V /\ Len(q) = r - x + 1 /\ q[1] = R[x + 1][s[1]].path
        /\ \A k \in 1..r - x : q[k + 1] = s[k]
    <3> HIDE DEF V
    <3> QED
      BY <1>10, <2>3, <2>4
  <2>7. q[r - x + 1] = last
    BY <2>3, <2>6
  <2>8. ASSUME NEW k \in 1..r - x PROVE q[k] = R[x + k][q[k + 1]].path
    <3>1. CASE k = 1
      BY <2>6, <3>1
    <3>2. CASE k # 1
      <4>1. PICK h \in 1..r - x - 1 : k = h + 1 /\ x + k = x + 1 + h /\ h \in 1..r - x
        <5>1. k - 1 \in 1..r - x - 1 /\ k = (k - 1) + 1 /\ x + k = x + 1 + (k - 1)
              /\ k - 1 \in 1..r - x
          BY <3>2
        <5> QED
          BY <5>1
      <4>2. q[k] = s[h] /\ q[k + 1] = s[h + 1]
        BY <2>6, <4>1
      <4> QED
        BY <2>3, <4>1, <4>2
    <3> QED
      BY <3>1, <3>2
  <2> QED
    BY <2>1, <2>5, <2>6, <2>7, <2>8
<1>16. l \in T
  <2>1. ASSUME NEW x \in l..r - 1, \A y \in x + 1..r - 1 + 1 : y \in T PROVE x \in T
    <3>1. x + 1 \in x + 1..r - 1 + 1
      OBVIOUS
    <3> HIDE DEF T
    <3> QED
      BY <1>15, <2>1, <3>1
  <2>2. r - 1 \in Int /\ l <= r - 1 + 1 /\ r - 1 + 1 = r
    OBVIOUS
  <2> HIDE DEF T
  <2>3. r - 1 + 1 \in T
    BY <1>14, <2>2
  <2>4. \A x \in l..r - 1 + 1 : x \in T
    BY <2>1, <2>2, <2>3, Backward
  <2> QED
    BY <2>4
<1>17. PICK tags : tags = F[l]
  OBVIOUS
<1>18. /\ tags \in Seq(Status)
       /\ Len(tags) = r - l + 1
       /\ tags[r - l + 1] = last
       /\ \A k \in 1..r - l : tags[k] = R[l + k][tags[k + 1]].path
  BY <1>16, <1>17
<1>19. ASSUME NEW x \in l..r - 1 PROVE tags[x - l + 1] = R[x + 1][tags[x - l + 2]].path
  <2>1. PICK k \in 1..r - l : k = x - l + 1 /\ k + 1 = x - l + 2 /\ l + k = x + 1
    OBVIOUS
  <2> QED
    BY <1>18, <2>1
<1>20. TableOf(t, l, r, R, tags)
  BY <1>7, <1>8, <1>18, <1>19 DEF TableOf, last
<1> QED
  BY <1>1, <1>17, <1>20

-----------------------------------------------------------------------------
(* A word of the hidden Markov model ends at every odd status, and the     *)
(* last status is odd.                                                     *)
LEMMA InternalCutCovers ==
    ASSUME NEW t, NEW l \in Int, NEW r \in Int, l <= r
    PROVE  Covers(InternalCut(t, l, r), l, r)
<1>1. PICK tags : tags = Viterbi(t, l, r)
  OBVIOUS
<1>2. tags[r - l + 1] % 2 = 1
  <2>1. PICK rows : TableOf(t, l, r, rows, tags)
    BY <1>1, ViterbiIs
  <2>2. tags[r - l + 1] = E \/ tags[r - l + 1] = S
    BY <2>1 DEF TableOf, EndStatus
  <2>3. 1 % 2 = 1 /\ 3 % 2 = 1
    OBVIOUS
  <2> QED
    BY <2>2, <2>3, StatusIs
<1> DEFINE V == [left : Int, res : Seq(Spans)]
           base == [left |-> l, res |-> <<>>]
           word(i, v) == [left |-> i + 1, res |-> Append(v.res, <<v.left, i>>)]
           Form(f) == f = [i \in l - 1..r |->
                             IF i < l THEN base
                             ELSE LET before == f[i - 1]
                                  IN  IF tags[i - l + 1] % 2 = 1 THEN word(i, before) ELSE before]
           F == CHOOSE f : Form(f)
<1>3. InternalCut(t, l, r) = F[r].res
  BY <1>1 DEF InternalCut
<1>4. base \in V /\ base.left = l /\ base.res = <<>>
  OBVIOUS
<1>5. ASSUME NEW i \in Int, NEW v \in V
      PROVE  /\ word(i, v) \in V
             /\ word(i, v).left = i + 1
             /\ word(i, v).res = v.res \o << <<v.left, i>> >>
  <2>1. v.left \in Int /\ v.res \in Seq(Spans)
    OBVIOUS
  <2>2. <<v.left, i>> \in Spans
    BY <2>1 DEF Spans
  <2>3. PICK s \in Seq(Spans), w \in Spans : s = v.res /\ w = <<v.left, i>>
    BY <2>1, <2>2
  <2>4. Append(s, w) \in Seq(Spans) /\ Append(s, w) = s \o <<w>>
    OBVIOUS
  <2>5. PICK q \in Seq(Spans) : q = Append(s, w) /\ q = s \o <<w>>
    BY <2>4
  <2>6. word(i, v) = [left |-> i + 1, res |-> q]
    BY <2>3, <2>5
  <2>7. word(i, v).left = i + 1 /\ word(i, v).res = q
    BY <2>6
  <2>8. word(i, v) \in V
    <3>1. i + 1 \in Int /\ q \in Seq(Spans)
      OBVIOUS
    <3> HIDE DEF word
    <3> QED
      BY <2>6, <3>1
  <2> QED
    BY <2>3, <2>5, <2>7, <2>8
<1> HIDE DEF V, word, base
<1>6. PICK f : f \in [l - 1..r -> V] /\ Form(f)
  <2>1. PICK G : G = [a \in (l - 1..r) \X V |->
                        IF tags[a[1] - l + 1] % 2 = 1 THEN word(a[1], a[2]) ELSE a[2]]
    OBVIOUS
  <2>2. \A i \in l - 1..r : \A v \in V :
           G[<<i, v>>] = IF tags[i - l + 1] % 2 = 1 THEN word(i, v) ELSE v
    BY <2>1
  <2>3. \A i \in l - 1 + 1..r : \A v \in V : G[<<i, v>>] \in V
    <3> SUFFICES ASSUME NEW i \in l - 1 + 1..r, NEW v \in V PROVE G[<<i, v>>] \in V
      OBVIOUS
    <3>1. i \in l - 1..r /\ i \in Int
      OBVIOUS
    <3> QED
      BY <1>5, <2>2, <3>1
  <2>4. PICK f : f \in [l - 1..r -> V] /\ IsForth(f, l - 1, r, G, base)
    <3>1. l - 1 \in Int /\ l - 1 <= r
      OBVIOUS
    <3> QED
      BY <1>4, <2>3, <3>1, ForthExists
  <2>5. f = [i \in l - 1..r |-> IF i = l - 1 THEN base ELSE G[<<i, f[i - 1]>>]]
    BY <2>4 DEF IsForth
  <2>6. ASSUME NEW i \in l - 1..r
        PROVE  (IF i = l - 1 THEN base ELSE G[<<i, f[i - 1]>>])
                 = IF i < l THEN base
                   ELSE IF tags[i - l + 1] % 2 = 1 THEN word(i, f[i - 1]) ELSE f[i - 1]
    <3>1. CASE i = l - 1
      BY <3>1
    <3>2. CASE i # l - 1
      <4>1. ~(i < l) /\ i - 1 \in l - 1..r
        BY <3>2
      <4> QED
        BY <2>2, <2>4, <3>2, <4>1
    <3> QED
      BY <3>1, <3>2
  <2>7. Form(f)
    BY <2>5, <2>6
  <2> QED
    BY <2>4, <2>7
<1>7. Form(F)
  <2> HIDE DEF Form
  <2> QED
    BY <1>6
<1>8. \A i \in l - 1..r :
         F[i] = IF i < l THEN base
                ELSE IF tags[i - l + 1] % 2 = 1 THEN word(i, F[i - 1]) ELSE F[i - 1]
  BY <1>7
<1> HIDE DEF Form, F
<1> DEFINE T == {i \in l - 1..r : /\ F[i] \in V
                                 /\ F[i].left \in l..i + 1
                                 /\ Covers(F[i].res, l, F[i].left - 1)}
<1>9. ASSUME NEW i \in l..r, F[i - 1] \in V, F[i - 1].left \in l..i - 1 + 1,
             Covers(F[i - 1].res, l, F[i - 1].left - 1), tags[i - l + 1] % 2 = 1
      PROVE  F[i] \in V /\ F[i].left = i + 1 /\ Covers(F[i].res, l, i)
  <2>1. PICK v \in V : v = F[i - 1]
    BY <1>9
  <2>2. PICK a \in l..i : a = v.left
    BY <1>9, <2>1
  <2>3. i \in l - 1..r /\ ~(i < l) /\ i \in Int /\ a \in Int /\ a <= i
    OBVIOUS
  <2>4. F[i] = word(i, v)
    BY <1>8, <1>9, <2>1, <2>3
  <2>5. F[i] \in V /\ F[i].left = i + 1 /\ F[i].res = v.res \o << <<a, i>> >>
    BY <1>5, <2>2, <2>3, <2>4
  <2>6. Covers(<< <<a, i>> >>, a, i)
    BY <2>3, CoverOne
  <2>7. PICK m \in Int : m = a - 1 /\ m + 1 = a
    BY <2>3
  <2>8. Covers(v.res, l, m) /\ Covers(<< <<a, i>> >>, m + 1, i)
    BY <1>9, <2>1, <2>2, <2>6, <2>7
  <2>9. Covers(v.res \o << <<a, i>> >>, l, i)
    BY <2>3, <2>8, CoverCat
  <2> QED
    BY <2>5, <2>9
<1>10. l - 1 \in T
  <2>1. l - 1 \in l - 1..r /\ l - 1 < l /\ l \in l..l - 1 + 1
    OBVIOUS
  <2>2. F[l - 1] = base
    BY <1>8, <2>1
  <2>3. Covers(<<>>, l, l - 1)
    BY CoverNone
  <2> QED
    BY <1>4, <2>1, <2>2, <2>3
<1>11. ASSUME NEW i \in l - 1..r - 1, i \in T PROVE i + 1 \in T
  <2>1. PICK j \in l..r : j = i + 1 /\ j - 1 = i
    <3>1. i + 1 \in l..r /\ i + 1 - 1 = i
      OBVIOUS
    <3> QED
      BY <3>1
  <2>2. /\ F[j - 1] \in V
        /\ F[j - 1].left \in l..j - 1 + 1
        /\ Covers(F[j - 1].res, l, F[j - 1].left - 1)
    BY <1>11, <2>1
  <2>3. j \in l - 1..r /\ ~(j < l) /\ j \in Int
    OBVIOUS
  <2>4. CASE tags[j - l + 1] % 2 = 1
    <3>1. F[j] \in V /\ F[j].left = j + 1 /\ Covers(F[j].res, l, j)
      BY <1>9, <2>2, <2>4
    <3>2. j + 1 \in l..j + 1 /\ j + 1 - 1 = j
      BY <2>3
    <3> QED
      BY <2>1, <2>3, <3>1, <3>2
  <2>5. CASE tags[j - l + 1] % 2 # 1
    <3>1. F[j] = F[j - 1]
      BY <1>8, <2>3, <2>5
    <3>2. \A a \in l..j - 1 + 1 : a \in l..j + 1
      OBVIOUS
    <3> QED
      BY <2>1, <2>2, <2>3, <3>1, <3>2
  <2> QED
    BY <2>4, <2>5
<1>12. \A i \in l - 1..r : i \in T
  <2>1. l - 1 \in Int /\ l - 1 <= r
    OBVIOUS
  <2> HIDE DEF T
  <2> QED
    BY <1>10, <1>11, <2>1, Forward
<1>13. r - 1 \in T
  BY <1>12
<1>14. F[r] \in V /\ F[r].left = r + 1 /\ Covers(F[r].res, l, r)
  <2>1. r \in l..r
    OBVIOUS
  <2> QED
    BY <1>2, <1>9, <1>13, <2>1
<1> QED
  BY <1>3, <1>14

-----------------------------------------------------------------------------
(* Where a stretch of letters or of numbers ends.                          *)
LEMMA AsciiEnds ==
    ASSUME NEW t, NEW i \in Int, NEW r \in Int, i <= r
    PROVE  AsciiEnd(t, i, r) \in i..r
<1> DEFINE far1 == CHOOSE e \in i..r : /\ \A k \in i + 1..e : IsLetter(t[k]) \/ IsDigit(t[k])
                                       /\ e < r => ~(IsLetter(t[e + 1]) \/ IsDigit(t[e + 1]))
           far2 == CHOOSE e \in i..r : /\ \A k \in i + 1..e : IsDigit(t[k]) \/ IsDot(t[k])
                                       /\ e < r => ~(IsDigit(t[e + 1]) \/ IsDot(t[e + 1]))
<1>1. far1 \in i..r
  <2> DEFINE V == {k \in Int : IsLetter(t[k]) \/ IsDigit(t[k])}
  <2>1. PICK e \in i..r : (\A k \in i + 1..e : k \in V) /\ (e < r => e + 1 \notin V)
    <3> HIDE DEF V
    <3> QED
      BY StretchExists
  <2>2. \A k \in i + 1..e : IsLetter(t[k]) \/ IsDigit(t[k])
    BY <2>1
  <2>3. e < r => ~(IsLetter(t[e + 1]) \/ IsDigit(t[e + 1]))
    BY <2>1
  <2> QED
    BY <2>2, <2>3
<1>2. far2 \in i..r
  <2> DEFINE V == {k \in Int : IsDigit(t[k]) \/ IsDot(t[k])}
  <2>1. PICK e \in i..r : (\A k \in i + 1..e : k \in V) /\ (e < r => e + 1 \notin V)
    <3> HIDE DEF V
    <3> QED
      BY StretchExists
  <2>2. \A k \in i + 1..e : IsDigit(t[k]) \/ IsDot(t[k])
    BY <2>1
  <2>3. e < r => ~(IsDigit(t[e + 1]) \/ IsDot(t[e + 1]))
    BY <2>1
  <2> QED
    BY <2>2, <2>3
<1>3. AsciiEnd(t, i, r) = CASE IsLetter(t[i]) -> far1
                            [] IsDigit(t[i])  -> far2
                            [] OTHER          -> i
  BY DEF AsciiEnd, Stretch
<1>4. ~(IsLetter(t[i]) /\ IsDigit(t[i])) /\ i \in i..r
  BY DEF IsLetter, IsDigit
<1> HIDE DEF far1, far2
<1>5. CASE IsLetter(t[i])
  BY <1>1, <1>3, <1>4, <1>5
<1>6. CASE ~IsLetter(t[i]) /\ IsDigit(t[i])
  BY <1>2, <1>3, <1>6
<1>7. CASE ~IsLetter(t[i]) /\ ~IsDigit(t[i])
  BY <1>3, <1>4, <1>7
<1> QED
  BY <1>5, <1>6, <1>7

(* The words of a stretch that goes to the hidden Markov model cover it.   *)
LEMMA HMMCutCovers ==
    ASSUME NEW t, NEW l \in Int, NEW r \in Int, l <= r + 1
    PROVE  Covers(HMMCut(t, l, r), l, r)
<1> DEFINE far(i) == CHOOSE e \in i..r : /\ \A k \in i + 1..e : ~IsAscii(t[k])
                                         /\ e < r => ~~IsAscii(t[e + 1])
           last(i) == IF IsAscii(t[i]) THEN AsciiEnd(t, i, r) ELSE far(i)
           cut(i) == IF IsAscii(t[i]) THEN << <<i, last(i)>> >> ELSE InternalCut(t, i, last(i))
<1>1. ASSUME NEW i \in l..r PROVE far(i) \in i..r
  <2> DEFINE V == {k \in Int : ~IsAscii(t[k])}
  <2>0. i \in Int /\ i <= r
    OBVIOUS
  <2>1. PICK e \in i..r : (\A k \in i + 1..e : k \in V) /\ (e < r => e + 1 \notin V)
    <3> HIDE DEF V
    <3> QED
      BY <2>0, StretchExists
  <2>2. \A k \in i + 1..e : ~IsAscii(t[k])
    BY <2>1
  <2>3. e < r => ~~IsAscii(t[e + 1])
    BY <2>1
  <2> QED
    BY <2>2, <2>3
<1> HIDE DEF far
<1>2. ASSUME NEW i \in l..r PROVE last(i) \in i..r
  <2>1. i \in Int /\ i <= r
    OBVIOUS
  <2> QED
    BY <1>1, <2>1, AsciiEnds
<1> DEFINE Form(f) ==
             f = [i \in l..r + 1 |->
                   IF i > r THEN <<>>
                   ELSE IF IsAscii(t[i])
                        THEN LET e == AsciiEnd(t, i, r)
                             IN  << <<i, e>> >> \o f[e + 1]
                        ELSE LET e == far(i)
                             IN  InternalCut(t, i, e) \o f[e + 1]]
           F == CHOOSE f : Form(f)
<1>3. HMMCut(t, l, r) = F[l]
  BY DEF HMMCut, Stretch, far
<1>4. ASSUME NEW f
      PROVE  Form(f) <=> f = [i \in l..r + 1 |-> IF i > r THEN <<>> ELSE cut(i) \o f[last(i) + 1]]
  <2>1. \A i : (IF IsAscii(t[i])
                THEN LET e == AsciiEnd(t, i, r) IN << <<i, e>> >> \o f[e + 1]
                ELSE LET e == far(i) IN InternalCut(t, i, e) \o f[e + 1])
               = cut(i) \o f[last(i) + 1]
    BY Zenon
  <2> QED
    BY <2>1, Zenon
<1> HIDE DEF last, Form
<1>5. ASSUME NEW i \in l..r PROVE Covers(cut(i), i, last(i))
  <2>1. i \in Int /\ last(i) \in Int /\ i <= last(i)
    BY <1>2
  <2>2. Covers(<< <<i, last(i)>> >>, i, last(i))
    BY <2>1, CoverOne
  <2>3. Covers(InternalCut(t, i, last(i)), i, last(i))
    BY <2>1, InternalCutCovers
  <2> QED
    BY <2>2, <2>3
<1> HIDE DEF cut
<1>6. PICK next, piece, pos :
        /\ next = [i \in l..r |-> last(i) + 1]
        /\ piece = [i \in l..r |-> cut(i)]
        /\ pos = [i \in l..r + 1 |-> i]
  OBVIOUS
<1>7. ASSUME NEW i \in l..r
      PROVE  /\ next[i] = last(i) + 1
             /\ piece[i] = cut(i)
             /\ next[i] \in i + 1..r + 1
             /\ piece[i] \in Seq(Spans)
             /\ Covers(piece[i], pos[i], pos[next[i]] - 1)
  <2>1. PICK e \in i..r : e = last(i)
    BY <1>2
  <2>2. /\ next[i] = e + 1 /\ next[i] \in l..r + 1 /\ next[i] \in i + 1..r + 1
        /\ pos[next[i]] - 1 = e /\ pos[i] = i /\ piece[i] = cut(i)
    BY <1>6, <2>1
  <2>3. Covers(cut(i), i, e)
    BY <1>5, <2>1
  <2> QED
    BY <2>1, <2>2, <2>3 DEF Covers
<1>8. ASSUME NEW f PROVE Form(f) <=> IsCut(f, l, r, next, piece)
  <2>1. \A i \in l..r + 1 :
           (IF i > r THEN <<>> ELSE cut(i) \o f[last(i) + 1])
             = (IF i > r THEN <<>> ELSE piece[i] \o f[next[i]])
    <3> SUFFICES ASSUME NEW i \in l..r + 1, ~(i > r)
                 PROVE  cut(i) \o f[last(i) + 1] = piece[i] \o f[next[i]]
      BY Zenon
    <3>1. i \in l..r
      OBVIOUS
    <3> QED
      BY <1>7, <3>1
  <2>2. [i \in l..r + 1 |-> IF i > r THEN <<>> ELSE cut(i) \o f[last(i) + 1]]
          = [i \in l..r + 1 |-> IF i > r THEN <<>> ELSE piece[i] \o f[next[i]]]
    BY <2>1
  <2> QED
    BY <1>4, <2>2 DEF IsCut
<1>9. \E f : f \in [l..r + 1 -> Seq(Spans)] /\ IsCut(f, l, r, next, piece)
  BY <1>7, CutExists
<1>10. IsCut(F, l, r, next, piece)
  <2>1. Form(F)
    BY <1>8, <1>9
  <2> HIDE DEF F
  <2> QED
    BY <1>8, <2>1
<1> HIDE DEF F
<1>11. pos[l] = l /\ pos[r + 1] - 1 = r /\ \A i \in l..r + 1 : pos[i] \in Int
  BY <1>6
<1>12. Covers(F[l], pos[l], pos[r + 1] - 1)
  BY <1>7, <1>10, <1>11, CutCovers
<1> QED
  BY <1>3, <1>11, <1>12

-----------------------------------------------------------------------------
(* Later ranges of a cover start later.                                    *)
LEMMA CoverGrows ==
    ASSUME NEW s, NEW l \in Int, NEW r \in Int, Covers(s, l, r),
           NEW i \in 1..Len(s), NEW j \in i..Len(s)
    PROVE  s[i][1] <= s[j][1]
<1>1. /\ Len(s) \in Nat
      /\ \A k \in 1..Len(s) : s[k][1] \in Int /\ s[k][2] \in Int /\ s[k][1] <= s[k][2]
      /\ \A k \in 1..Len(s) - 1 : s[k + 1][1] = s[k][2] + 1
  BY SpanType DEF Covers
<1> DEFINE V == {k \in i..Len(s) : s[i][1] <= s[k][1]}
<1>2. i \in V /\ i \in Int /\ Len(s) \in Int /\ i <= Len(s)
  BY <1>1
<1>3. ASSUME NEW k \in i..Len(s) - 1, k \in V PROVE k + 1 \in V
  <2>1. k \in 1..Len(s) - 1 /\ k \in 1..Len(s) /\ k + 1 \in 1..Len(s) /\ k + 1 \in i..Len(s)
    BY <1>1
  <2>2. s[k + 1][1] = s[k][2] + 1 /\ s[k][1] <= s[k][2] /\ s[i][1] <= s[k][1]
    BY <1>1, <1>3, <2>1
  <2> QED
    BY <1>1, <2>1, <2>2
<1>4. \A k \in i..Len(s) : k \in V
  <2> HIDE DEF V
  <2> QED
    BY <1>2, <1>3, Forward
<1> QED
  BY <1>4

(* Words that stay and stretches that are cut again cover the piece.       *)
LEMMA RetaggedCovers ==
    ASSUME NEW t, NEW l \in Int, NEW r \in Int, NEW mp, Covers(mp, l, r)
    PROVE  Covers(Retagged(t, mp), l, r)
<1> DEFINE n == Len(mp)
           far(i) == CHOOSE j \in i..n : /\ \A k \in i..j : ~Stays(t, mp[k])
                                         /\ j < n => Stays(t, mp[j + 1])
           last(i) == IF Stays(t, mp[i]) THEN i ELSE far(i)
           cut(i) == IF Stays(t, mp[i]) THEN <<mp[i]>> ELSE HMMCut(t, mp[i][1], mp[far(i)][1])
<1>1. /\ n \in Nat
      /\ \A k \in 1..n : /\ mp[k] \in Spans /\ mp[k][1] \in Int /\ mp[k][2] \in Int
                         /\ mp[k][1] <= mp[k][2]
      /\ \A k \in 1..n - 1 : mp[k + 1][1] = mp[k][2] + 1
      /\ n = 0 => l = r + 1
      /\ n # 0 => mp[1][1] = l /\ mp[n][2] = r
  BY SpanType DEF Covers
<1>2. ASSUME NEW i \in 1..n, ~Stays(t, mp[i])
      PROVE  far(i) \in i..n /\ ~Stays(t, mp[far(i)])
  <2> DEFINE V == {k \in Int : ~Stays(t, mp[k])}
  <2>1. i \in Int /\ n \in Int /\ i <= n
    BY <1>1
  <2>2. PICK e \in i..n : (\A k \in i + 1..e : k \in V) /\ (e < n => e + 1 \notin V)
    <3> HIDE DEF V, n
    <3> QED
      BY <2>1, StretchExists
  <2>3. \A k \in i..e : ~Stays(t, mp[k])
    <3>1. \A k \in i..e : k = i \/ k \in i + 1..e
      BY <2>1
    <3> QED
      BY <1>2, <2>2, <3>1
  <2>4. e < n => Stays(t, mp[e + 1])
    BY <2>1, <2>2
  <2>5. far(i) \in i..n /\ \A k \in i..far(i) : ~Stays(t, mp[k])
    BY <2>3, <2>4
  <2> HIDE DEF far
  <2>6. far(i) \in i..far(i)
    BY <2>1, <2>5
  <2> QED
    BY <2>5, <2>6
<1> DEFINE Form(f) ==
             f = [i \in 1..n + 1 |->
                   IF i > n THEN <<>>
                   ELSE IF Stays(t, mp[i]) THEN <<mp[i]>> \o f[i + 1]
                   ELSE LET j == far(i)
                        IN  HMMCut(t, mp[i][1], mp[j][1]) \o f[j + 1]]
           F == CHOOSE f : Form(f)
<1>3. Retagged(t, mp) = F[1]
  BY DEF Retagged
<1> HIDE DEF far
<1>4. ASSUME NEW f
      PROVE  Form(f) <=> f = [i \in 1..n + 1 |-> IF i > n THEN <<>> ELSE cut(i) \o f[last(i) + 1]]
  <2>1. \A i : (IF Stays(t, mp[i]) THEN <<mp[i]>> \o f[i + 1]
                ELSE LET j == far(i) IN HMMCut(t, mp[i][1], mp[j][1]) \o f[j + 1])
               = cut(i) \o f[last(i) + 1]
    BY Zenon
  <2> QED
    BY <2>1, Zenon
<1> HIDE DEF Form
<1>5. PICK next, piece, pos :
        /\ next = [i \in 1..n |-> last(i) + 1]
        /\ piece = [i \in 1..n |-> cut(i)]
        /\ pos = [i \in 1..n + 1 |-> IF i > n THEN r + 1 ELSE mp[i][1]]
  OBVIOUS
<1>6. /\ \A i \in 1..n + 1 : pos[i] \in Int
      /\ \A i \in 1..n : pos[i] = mp[i][1] /\ pos[i + 1] - 1 = mp[i][2]
      /\ pos[1] = l
      /\ pos[n + 1] - 1 = r
  <2>1. \A i \in 1..n : i \in 1..n + 1 /\ ~(i > n)
    BY <1>1
  <2>2. \A i \in 1..n + 1 : i > n \/ i \in 1..n
    BY <1>1
  <2>3. \A i \in 1..n : pos[i] = mp[i][1]
    BY <1>5, <2>1
  <2>4. n + 1 \in 1..n + 1 /\ n + 1 > n
    BY <1>1
  <2>5. pos[n + 1] = r + 1
    BY <1>5, <2>4
  <2>6. \A i \in 1..n + 1 : pos[i] \in Int
    BY <1>1, <1>5, <2>2
  <2>7. ASSUME NEW i \in 1..n PROVE pos[i + 1] - 1 = mp[i][2]
    <3>1. CASE i = n
      <4>1. mp[i][2] = r /\ pos[i + 1] = r + 1
        BY <1>1, <2>5, <3>1
      <4> QED
        BY <4>1
    <3>2. CASE i # n
      <4>1. i \in 1..n - 1 /\ i + 1 \in 1..n
        BY <1>1, <3>2
      <4> QED
        BY <1>1, <2>3, <4>1
    <3> QED
      BY <3>1, <3>2
  <2>8. pos[1] = l
    <3>1. CASE n = 0
      BY <1>1, <2>5, <3>1
    <3>2. CASE n # 0
      <4>1. 1 \in 1..n
        BY <1>1, <3>2
      <4> QED
        BY <1>1, <2>3, <3>2, <4>1
    <3> QED
      BY <3>1, <3>2
  <2> QED
    BY <2>3, <2>5, <2>6, <2>7, <2>8
<1>7. ASSUME NEW i \in 1..n
      PROVE  /\ next[i] = last(i) + 1
             /\ piece[i] = cut(i)
             /\ next[i] \in i + 1..n + 1
             /\ Covers(piece[i], pos[i], pos[next[i]] - 1)
  <2>1. next[i] = last(i) + 1 /\ piece[i] = cut(i)
    BY <1>5
  <2>2. CASE Stays(t, mp[i])
    <3>1. last(i) = i /\ cut(i) = <<mp[i]>>
      BY <2>2
    <3>2. PICK a \in Int, b \in Int : mp[i] = <<a, b>> /\ a = mp[i][1] /\ b = mp[i][2] /\ a <= b
      <4>1. mp[i] \in Spans /\ mp[i][1] <= mp[i][2]
        BY <1>1
      <4> QED
        BY <4>1 DEF Spans
    <3>3. Covers(<<mp[i]>>, a, b)
      BY <3>2, CoverOne
    <3>4. pos[i] = a /\ pos[i + 1] - 1 = b
      BY <1>6, <3>2
    <3>5. i + 1 \in i + 1..n + 1 /\ next[i] = i + 1
      BY <1>1, <2>1, <3>1
    <3>6. Covers(piece[i], pos[i], pos[next[i]] - 1)
      BY <2>1, <3>1, <3>3, <3>4, <3>5
    <3> QED
      BY <2>1, <3>5, <3>6
  <2>3. CASE ~Stays(t, mp[i])
    <3>1. PICK j \in i..n : j = far(i) /\ ~Stays(t, mp[j])
      BY <1>2, <2>3
    <3>2. last(i) = j /\ cut(i) = HMMCut(t, mp[i][1], mp[j][1])
      BY <2>3, <3>1
    <3>3. j \in 1..n /\ i \in 1..Len(mp) /\ j \in i..Len(mp)
      BY <1>1
    <3>4. mp[j][1] = mp[j][2]
      BY <3>1 DEF Stays
    <3>5. PICK a \in Int, b \in Int : a = mp[i][1] /\ b = mp[j][1]
      BY <1>1, <3>3
    <3>6. a <= b
      <4> HIDE DEF n
      <4> QED
        BY <3>3, <3>5, CoverGrows
    <3>7. Covers(HMMCut(t, a, b), a, b)
      <4>1. a <= b + 1
        BY <3>6
      <4> QED
        BY <4>1, HMMCutCovers
    <3>8. pos[i] = a /\ pos[j + 1] - 1 = b
      BY <1>6, <3>3, <3>4, <3>5
    <3> QED
      BY <1>1, <2>1, <3>2, <3>5, <3>7, <3>8
  <2> QED
    BY <2>2, <2>3
<1> HIDE DEF last, cut
<1>8. ASSUME NEW f PROVE Form(f) <=> IsCut(f, 1, n, next, piece)
  <2>1. \A i \in 1..n + 1 :
           (IF i > n THEN <<>> ELSE cut(i) \o f[last(i) + 1])
             = (IF i > n THEN <<>> ELSE piece[i] \o f[next[i]])
    <3> SUFFICES ASSUME NEW i \in 1..n + 1, ~(i > n)
                 PROVE  cut(i) \o f[last(i) + 1] = piece[i] \o f[next[i]]
      BY Zenon
    <3>1. i \in 1..n
      BY <1>1
    <3> QED
      BY <1>7, <3>1
  <2>2. [i \in 1..n + 1 |-> IF i > n THEN <<>> ELSE cut(i) \o f[last(i) + 1]]
          = [i \in 1..n + 1 |-> IF i > n THEN <<>> ELSE piece[i] \o f[next[i]]]
    BY <2>1
  <2> QED
    BY <1>4, <2>2 DEF IsCut
<1>9. 1 \in Int /\ n \in Int /\ 1 <= n + 1
  BY <1>1
<1>10. \E f : IsCut(f, 1, n, next, piece)
  <2>1. \A i \in 1..n : piece[i] \in Seq(Spans) /\ next[i] \in i + 1..n + 1
    BY <1>7 DEF Covers
  <2>2. \E f : f \in [1..n + 1 -> Seq(Spans)] /\ IsCut(f, 1, n, next, piece)
    <3> HIDE DEF n
    <3> QED
      BY <1>9, <2>1, CutExists
  <2> QED
    BY <2>2
<1>11. IsCut(F, 1, n, next, piece)
  <2>1. Form(F)
    BY <1>8, <1>10
  <2> HIDE DEF F
  <2> QED
    BY <1>8, <2>1
<1> HIDE DEF F
<1>12. Covers(F[1], pos[1], pos[n + 1] - 1)
  <2> HIDE DEF n
  <2> QED
    BY <1>6, <1>7, <1>9, <1>11, CutCovers
<1> QED
  BY <1>3, <1>6, <1>12

(* So do the words of MixSegment.                                          *)
LEMMA MixCutCovers ==
    ASSUME NEW t, NEW l \in Int, NEW r \in Int, l <= r + 1
    PROVE  Covers(MixCut(t, l, r), l, r)
<1>1. Covers(MPCut(t, l, r), l, r)
  BY MPCutCovers
<1> QED
  BY <1>1, RetaggedCovers DEF MixCut

-----------------------------------------------------------------------------
(* The outer tokens of CutForSearch are a partition of a decoded text.     *)
LEMMA CutTiles ==
    ASSUME NEW x, NEW n, Decoded(x, n)
    PROVE  Tiles(x, CutForSearch(x), 1, n)
<1>1. PICK t : t = RunesOf(x)
  OBVIOUS
<1>2. n \in Nat /\ n > 0 /\ Len(t) = n
  <2>1. n \in Nat /\ n > 0
    BY EdgeType
  <2>2. PICK d : d = DecodeRunesInString(x)
    OBVIOUS
  <2>3. Len(d) = n
    BY <2>2 DEF Decoded
  <2>4. PICK R : d \in Seq(R)
    <3>1. Len(x) \in Nat
      BY EdgeType
    <3> QED
      BY <2>2, <3>1, DecodeChain
  <2>5. t = [i \in 1..n |-> d[i].rune]
    BY <1>1, <2>2, <2>3, <2>4 DEF RunesOf
  <2> QED
    BY <2>1, <2>5
<1>3. PICK c : c = PreFilter(t)
  OBVIOUS
<1>4. Covers(c, 1, n)
  BY <1>2, <1>3, PreFilterCovers
<1>5. /\ Len(c) \in Nat
      /\ DOMAIN c = 1..Len(c)
      /\ \A k \in 1..Len(c) : /\ c[k][1] \in Int /\ c[k][2] \in Int
                              /\ 1 <= c[k][1] /\ c[k][1] <= c[k][2] /\ c[k][2] <= n
  BY <1>4, SpanType DEF Covers
<1>6. ASSUME NEW l \in Int, NEW r \in Int, 1 <= l, l <= r, r <= n
      PROVE  Tiles(x, Refined(t, MixCut(t, l, r)), l, r)
  <2>1. PICK mix : mix = MixCut(t, l, r)
    OBVIOUS
  <2>2. Covers(mix, l, r)
    <3>1. l <= r + 1
      BY <1>6
    <3> QED
      BY <2>1, <3>1, MixCutCovers
  <2>3. /\ DOMAIN mix = 1..Len(mix)
        /\ \A k \in 1..Len(mix) : /\ mix[k] \in Spans /\ mix[k][1] \in Int /\ mix[k][2] \in Int
                                  /\ l <= mix[k][1] /\ mix[k][1] <= mix[k][2] /\ mix[k][2] <= r
    BY <2>2, SpanType DEF Covers
  <2>4. PICK m : m = [i \in DOMAIN mix |-> QueryWords(t, mix[i])]
    OBVIOUS
  <2>5. ASSUME NEW k \in 1..Len(mix) PROVE Tiles(x, m[k], mix[k][1], mix[k][2])
    <3>1. m[k] = QueryWords(t, mix[k])
      BY <2>3, <2>4
    <3>2. mix[k] \in Spans /\ 1 <= mix[k][1] /\ mix[k][1] <= mix[k][2] /\ mix[k][2] <= n
      BY <1>2, <1>6, <2>3
    <3> QED
      BY <3>1, <3>2, TilesWord
  <2>6. DOMAIN m = DOMAIN mix /\ m = [k \in DOMAIN m |-> m[k]]
    BY <2>4
  <2>7. l \in 1..n + 1
    BY <1>2, <1>6
  <2>8. Tiles(x, FlattenSeq(m), l, r)
    BY <1>6, <2>2, <2>5, <2>6, <2>7, TilesJoin
  <2> QED
    BY <2>1, <2>4, <2>8 DEF Refined
<1>7. PICK m : m = [i \in DOMAIN c |-> Refined(t, MixCut(t, c[i][1], c[i][2]))]
  OBVIOUS
<1>8. \A k \in 1..Len(c) : Tiles(x, m[k], c[k][1], c[k][2])
  BY <1>5, <1>6, <1>7
<1>9. DOMAIN m = DOMAIN c /\ m = [k \in DOMAIN m |-> m[k]]
  BY <1>7
<1>10. 1 \in 1..n + 1 /\ n \in Int /\ n <= n
  BY <1>2
<1>11. Tiles(x, FlattenSeq(m), 1, n)
  BY <1>4, <1>8, <1>9, <1>10, TilesJoin
<1> QED
  BY <1>1, <1>3, <1>7, <1>11 DEF CutForSearch, QueryCut

(* A text without runes has no tokens.                                     *)
LEMMA CutNothing ==
    ASSUME NEW x, DecodeRunesInString(x) = <<>>
    PROVE  CutForSearch(x) = <<>>
<1>1. PICK t : t = RunesOf(x)
  OBVIOUS
<1>2. t = <<>> /\ Len(t) = 0
  BY <1>1 DEF RunesOf
<1>3. PICK c : c = PreFilter(t)
  OBVIOUS
<1>4. Covers(c, 1, 0)
  BY <1>2, <1>3, PreFilterCovers
<1>5. c = <<>>
  <2>1. ASSUME c # <<>> PROVE FALSE
    <3>1. c \in Seq(Spans) /\ Len(c) \in Nat /\ Len(c) # 0
      BY <1>4, <2>1, EmptySeq DEF Covers
    <3>2. 1 \in 1..Len(c)
      BY <3>1
    <3>3. 1 <= c[1][1] /\ c[1][1] <= c[1][2] /\ c[1][2] <= 0 /\ c[1][1] \in Int /\ c[1][2] \in Int
      BY <1>4, <3>1, <3>2, SpanType DEF Covers
    <3> QED
      BY <3>3
  <2> QED
    BY <2>1
<1>6. PICK m : m = [i \in DOMAIN c |-> Refined(t, MixCut(t, c[i][1], c[i][2]))]
  OBVIOUS
<1>7. m = <<>>
  BY <1>5, <1>6
<1>8. FlattenSeq(<<>>) = <<>>
  <2>1. <<>> \in Pieces(Nat) /\ \A k \in 1..Len(<<>>) : <<>>[k] = <<>>
    BY DEF Pieces
  <2> QED
    BY <2>1, FlattenNone
<1> QED
  BY <1>1, <1>3, <1>6, <1>7, <1>8 DEF CutForSearch, QueryCut

-----------------------------------------------------------------------------
(* Summaries: getDesc for every content, every keyword and every value of  *)
(* the two steps.                                                          *)

(* Every non-empty set of natural numbers has a least element, so First is *)
(* one of its argument's elements.                                         *)
LEMMA FirstIsLeast ==
    ASSUME NEW A \in SUBSET Nat, A # {}
    PROVE  First(A) \in A /\ \A q \in A : First(A) <= q
<1>1. \E p \in A : \A q \in A : ~(<<q, p>> \in OpToRel(<, Nat))
  BY NatLessThanWellFounded, WFMin
<1>2. PICK p \in A : \A q \in A : ~(<<q, p>> \in OpToRel(<, Nat))
  BY <1>1
<1>3. \A q \in A : ~(q < p)
  BY <1>2 DEF OpToRel
<1>4. \A q \in A : p <= q
  BY <1>3
<1> QED
  BY <1>4 DEF First

(* getDesc as the two facts the theorems rest on: what it found, and what  *)
(* it made of that.                                                        *)
LEMMA FoundInside ==
    ASSUME NEW c \in Seq(Byte), NEW k \in Seq(Byte)
    PROVE  /\ Found(c, k) \in SUBSET Nat
           /\ \A p \in Found(c, k) : p + Len(k) <= Len(c)
<1>1. Len(c) \in Nat /\ Len(k) \in Nat
  OBVIOUS
<1> QED
  BY <1>1 DEF Found

(* When std::search finds the keyword there is a first place, and it lies  *)
(* before the end of a content that is not empty.                          *)
LEMMA PlaceFound ==
    ASSUME NEW c \in Seq(Byte), NEW k \in Seq(Byte), ~Missing(c, k)
    PROVE  LET pos == First(Found(c, k))
           IN  /\ pos \in Found(c, k) /\ pos \in Nat /\ pos < Len(c) /\ c # <<>>
               /\ LastByte(c) = Len(c) - 1
               /\ \A q \in Found(c, k) : pos <= q
<1> DEFINE pos == First(Found(c, k))
<1>1. Len(c) \in Nat /\ Len(k) \in Nat
  OBVIOUS
<1>2. pos \in Found(c, k) /\ \A q \in Found(c, k) : pos <= q
  BY FoundInside, FirstIsLeast DEF Missing
<1>3. pos \in Nat /\ pos <= Len(c) /\ pos # Len(c)
  BY <1>1, <1>2, FoundInside DEF Missing
<1>4. c # <<>>
  BY <1>1, <1>3
<1> QED
  BY <1>1, <1>2, <1>3, <1>4 DEF LastByte

-----------------------------------------------------------------------------
DescIInv ==
    /\ content \in Seq(Byte)
    /\ keyword \in Seq(Byte)
    /\ SummaryInBounds
    /\ KeywordShown

(* Before getDesc has run nothing is shown.                                *)
LEMMA DescInitIInv == DescInit => DescIInv
  BY DescAssumption DEF DescInit, DescIInv, NoDesc, Message, SummaryInBounds, KeywordShown

(* One call of getDesc, for any content and keyword, establishes the       *)
(* invariant.                                                              *)
LEMMA DescStep ==
    ASSUME DescIInv, getDesc
    PROVE  DescIInv'
<1> DEFINE c == content
           k == keyword
           pos == First(Found(c, k))
<1>1. /\ c \in Seq(Byte) /\ k \in Seq(Byte) /\ Len(c) \in Nat /\ Len(k) \in Nat
      /\ content' = c /\ keyword' = k
  <2>1. c \in Seq(Byte) /\ k \in Seq(Byte)
    BY DEF DescIInv
  <2>2. content' = c /\ keyword' = k
    BY DEF getDesc
  <2> QED
    BY <2>1, <2>2
<1>2. prevStep \in Nat /\ nextStep \in Nat
  BY DescAssumption
<1>3. CASE Missing(c, k)
  <2>1. desc' = Message("keyword does not exist!")
    BY <1>3 DEF getDesc
  <2>2. SummaryInBounds'
    BY <2>1 DEF SummaryInBounds, Message
  <2>3. \A p \in Found(c, k) : (\A q \in Found(c, k) : p <= q) /\ 0 < Len(k) => FALSE
    <3>1. \A p \in Found(c, k) : p \in Nat /\ p + Len(k) <= Len(c)
      BY <1>1, FoundInside
    <3>2. Found(c, k) # {} => pos \in Found(c, k) /\ pos = Len(c)
      BY <1>1, <1>3, FoundInside, FirstIsLeast DEF Missing
    <3> QED
      BY <1>1, <3>1, <3>2
  <2>4. KeywordShown'
    BY <1>1, <2>3 DEF KeywordShown
  <2> QED
    BY <1>1, <2>2, <2>4 DEF DescIInv
<1>4. CASE ~Missing(c, k)
  <2>1. desc' = Summary(c, pos)
    BY <1>4 DEF getDesc
  <2>2. /\ pos \in Found(c, k) /\ pos \in Nat /\ pos < Len(c)
        /\ LastByte(c) = Len(c) - 1
        /\ \A q \in Found(c, k) : pos <= q
    BY <1>1, <1>4, PlaceFound
  <2> HIDE DEF pos
  <2>3. /\ begin(pos) \in Nat /\ begin(pos) <= pos /\ pos - begin(pos) <= prevStep
        /\ end(c, pos) \in Int /\ end(c, pos) <= Len(c) - 1 /\ end(c, pos) <= pos + nextStep
        /\ (end(c, pos) = pos + nextStep \/ end(c, pos) = Len(c) - 1)
    BY <1>1, <1>2, <2>2 DEF begin, end
  <2>4. SummaryInBounds'
    <3>1. CASE begin(pos) >= end(c, pos)
      BY <2>1, <3>1 DEF Summary, Message, SummaryInBounds
    <3>2. CASE begin(pos) < end(c, pos)
      <4>1. desc'.begin = begin(pos) /\ desc'.end = end(c, pos)
        BY <2>1, <2>3, <3>2 DEF Summary
      <4>2. First(Found(content', keyword')) = pos
        BY <1>1 DEF pos
      <4>3. pos <= end(c, pos)
        BY <1>1, <1>2, <2>2, <2>3
      <4> QED
        BY <1>1, <1>2, <2>2, <2>3, <3>2, <4>1, <4>2, <4>3 DEF SummaryInBounds
    <3> QED
      BY <2>3, <3>1, <3>2
  <2>5. KeywordShown'
    <3> SUFFICES ASSUME NEW p \in Found(c, k), \A q \in Found(c, k) : p <= q,
                        0 < Len(k), Len(k) <= nextStep, p + Len(k) < Len(c)
                 PROVE  /\ desc'.kind = "text" /\ desc'.begin <= p
                        /\ p + Len(k) <= desc'.end
      BY <1>1 DEF KeywordShown, Shown
    <3>1. p = pos
      BY <1>1, <2>2, FoundInside
    <3>2. p + Len(k) <= end(c, pos) /\ begin(pos) < end(c, pos)
      BY <1>1, <1>2, <2>2, <2>3, <3>1
    <3>3. desc'.kind = "text" /\ desc'.begin = begin(pos) /\ desc'.end = end(c, pos)
      BY <2>1, <2>3, <3>2 DEF Summary
    <3> QED
      BY <2>3, <3>1, <3>2, <3>3
  <2> QED
    BY <1>1, <2>4, <2>5 DEF DescIInv
<1> QED
  BY <1>3, <1>4

(* The invariant is inductive.                                             *)
LEMMA DescNextIInv == DescIInv /\ [getDesc]_descVars => DescIInv'
<1>1. ASSUME DescIInv, UNCHANGED descVars PROVE DescIInv'
  BY <1>1 DEF DescIInv, descVars, SummaryInBounds, KeywordShown, Shown, NoDesc
<1> QED
  BY <1>1, DescStep

-----------------------------------------------------------------------------
(* A keyword is a token of a text in lower case, so it is found in that    *)
(* text where the token is, before the end.                                *)
LEMMA TokenIsFound ==
    ASSUME NEW text \in Seq(Byte), NEW ws, ws = CutForSearch(text), NEW k \in KeywordsIn(text, ws)
    PROVE  k \in Seq(Byte) /\ \E p \in Found(text, k) : p < Len(text)
<1>1. PICK i \in DOMAIN ws : k = KeywordOf(text, ws[i])
  BY DEF KeywordsIn
<1>2. DecodeRunesInString(text) # <<>>
  <2>1. ws # <<>>
    BY <1>1
  <2> QED
    BY <2>1, CutNothing
<1>3. PICK n : Decoded(text, n)
  BY <1>2 DEF Decoded
<1>4. Within(ws, 1, n)
  BY <1>3, CutTiles DEF Tiles
<1>5. n \in Nat /\ ws[i][1] \in 1..n /\ ws[i][2] \in ws[i][1]..n
  <2>1. n \in Nat
    BY <1>3, EdgeType
  <2>2. i \in 1..Len(ws) /\ ws[i][1] \in Int /\ ws[i][2] \in Int
    BY <1>1, <1>4, SpanType DEF Within
  <2>3. 1 <= ws[i][1] /\ ws[i][1] <= ws[i][2] /\ ws[i][2] <= n
    BY <1>4, <2>2 DEF Within
  <2> QED
    BY <2>1, <2>2, <2>3
<1>6. PICK l \in 1..n, r \in 1..n : l = ws[i][1] /\ r = ws[i][2] /\ l <= r
  BY <1>5
<1>7. PICK a \in Nat, b \in Nat :
        /\ a = Edge(text, l) /\ b = Edge(text, r + 1)
        /\ 1 <= a /\ a < b /\ b <= Len(text) + 1
  <2>1. l \in 1..n + 1 /\ l + 1 \in 1..n + 1 /\ r + 1 \in l + 1..n + 1 /\ r + 1 \in 1..n + 1
    BY <1>5, <1>6
  <2>2. Edge(text, l) < Edge(text, l + 1)
    BY <1>3, EdgeType
  <2>3. Edge(text, l + 1) <= Edge(text, r + 1)
    BY <1>3, <2>1, EdgeGrows
  <2>4. /\ Edge(text, l) \in 1..Len(text) + 1
        /\ Edge(text, l + 1) \in 1..Len(text) + 1
        /\ Edge(text, r + 1) \in 1..Len(text) + 1
        /\ Len(text) \in Nat
    BY <1>3, <2>1, EdgeType
  <2> QED
    BY <2>2, <2>3, <2>4
<1>8. PICK w : w = GetWordFromRunes(text, ws[i])
  OBVIOUS
<1>9. w = SubSeq(text, a, b - 1)
  <2>1. ws[i][1] \in 1..n /\ ws[i][2] \in 1..n
    BY <1>5
  <2>2. w = Bytes(text, l, r)
    BY <1>3, <1>6, <1>8, <2>1, WordBytes
  <2> QED
    BY <1>7, <2>2 DEF Bytes
<1>10. /\ w \in Seq(Byte)
       /\ Len(w) = b - a
       /\ \A q \in 1..b - a : w[q] = text[a + q - 1]
  <2>1. a <= b /\ b <= b
    BY <1>7
  <2> QED
    BY <1>7, <1>9, <2>1, SubSeqCat
<1>11. k = [q \in DOMAIN w |-> tolower[w[q]]]
  BY <1>1, <1>8 DEF KeywordOf
<1>12. /\ k \in Seq(Byte)
       /\ Len(k) = b - a
       /\ \A q \in 1..b - a : k[q] = tolower[w[q]] /\ w[q] \in Byte
  <2>1. DOMAIN w = 1..b - a /\ b - a \in Nat /\ \A q \in 1..b - a : w[q] \in Byte
    BY <1>7, <1>10
  <2>2. \A q \in 1..b - a : tolower[w[q]] \in Byte
    BY <2>1, DescAssumption
  <2>3. k = [q \in 1..b - a |-> tolower[w[q]]]
    BY <1>11, <2>1
  <2> QED
    BY <2>1, <2>2, <2>3
<1>13. PICK p \in Nat : p = a - 1 /\ a = p + 1 /\ p < Len(text)
  <2>1. Len(text) \in Nat
    OBVIOUS
  <2>2. a - 1 \in Nat /\ a = (a - 1) + 1 /\ a - 1 < Len(text)
    BY <1>7, <2>1
  <2> QED
    BY <2>2
<1>14. p \in Found(text, k)
  <2>1. p \in 0..(Len(text) - Len(k))
    <3>1. Len(text) \in Nat
      OBVIOUS
    <3> QED
      BY <1>7, <1>12, <1>13, <3>1
  <2>2. ASSUME NEW q \in 1..Len(k) PROVE tolower[text[p + q]] = tolower[k[q]]
    <3>1. q \in 1..b - a
      BY <1>12
    <3>2. a + q - 1 = p + q
      BY <1>13
    <3>3. w[q] = text[p + q]
      BY <1>10, <3>1, <3>2
    <3>4. tolower[tolower[w[q]]] = tolower[w[q]]
      BY <1>12, <3>1, DescAssumption
    <3> QED
      BY <1>12, <3>1, <3>3, <3>4
  <2> QED
    BY <2>1, <2>2 DEF Found
<1> QED
  BY <1>12, <1>13, <1>14

(* What is found in a part of a content is found in the content.           *)
LEMMA FoundInWhole ==
    ASSUME NEW t \in Seq(Byte), NEW c \in Seq(Byte), Occurs(t, c), NEW k \in Seq(Byte),
           NEW p \in Found(t, k), p < Len(t)
    PROVE  ~Missing(c, k)
<1>1. PICK b \in 0..(Len(c) - Len(t)) : SubSeq(c, b + 1, b + Len(t)) = t
  BY DEF Occurs
<1>2. Len(c) \in Nat /\ Len(t) \in Nat /\ Len(k) \in Nat
  OBVIOUS
<1>3. p \in 0..(Len(t) - Len(k)) /\ \A q \in 1..Len(k) : tolower[t[p + q]] = tolower[k[q]]
  BY DEF Found
<1>4. p \in Nat /\ b \in Nat /\ p + Len(k) <= Len(t) /\ b + Len(t) <= Len(c)
  BY <1>1, <1>2, <1>3
<1>5. ASSUME NEW q \in 1..Len(k) PROVE c[b + p + q] = t[p + q]
  <2>1. p + q \in 1..Len(t)
    BY <1>2, <1>4
  <2>2. b + 1 \in 1..Len(c) + 1 /\ b + Len(t) \in 0..Len(c)
    BY <1>2, <1>4
  <2>3. SubSeq(c, b + 1, b + Len(t))[p + q] = c[b + 1 + (p + q) - 1]
    BY <1>2, <1>4, <2>1, <2>2
  <2> QED
    BY <1>1, <1>4, <2>1, <2>3
<1>6. b + p \in Found(c, k)
  <2>1. b + p \in 0..(Len(c) - Len(k))
    BY <1>2, <1>4
  <2>2. \A q \in 1..Len(k) : tolower[c[b + p + q]] = tolower[k[q]]
    BY <1>3, <1>5
  <2> QED
    BY <2>1, <2>2 DEF Found
<1>7. First(Found(c, k)) <= b + p /\ First(Found(c, k)) \in Nat
  <2>1. Found(c, k) \in SUBSET Nat
    BY FoundInside
  <2> QED
    BY <1>6, <2>1, FirstIsLeast
<1>8. b + p < Len(c)
  BY <1>2, <1>4
<1> QED
  BY <1>2, <1>4, <1>6, <1>7, <1>8 DEF Missing

(* A text is a part of itself.                                             *)
LEMMA OccursInItself ==
    ASSUME NEW t \in Seq(Byte)
    PROVE  Occurs(t, t)
<1>1. 0 \in 0..(Len(t) - Len(t)) /\ SubSeq(t, 0 + 1, 0 + Len(t)) = t
  OBVIOUS
<1> QED
  BY <1>1 DEF Occurs

-----------------------------------------------------------------------------
(* The tokens are those of title and content, and a summary is getDesc's.  *)
TextIInv ==
    /\ DescIInv
    /\ title \in Seq(Byte)
    /\ \/ words = NoWords
       \/ words = CutForSearch(content) /\ titleWords = CutForSearch(title)
    /\ \/ desc = NoDesc
       \/ desc = IF Missing(content, keyword) THEN Message("keyword does not exist!")
                 ELSE Summary(content, First(Found(content, keyword)))

(* It holds before anything is cut.                                        *)
LEMMA TextInitIInv == TextInit => TextIInv
<1>1. <<>> \in Seq(Byte)
  OBVIOUS
<1>2. TextInit => DescIInv
  BY <1>1, DescAssumption
     DEF TextInit, DescIInv, NoDesc, Message, SummaryInBounds, KeywordShown
<1>3. TextInit => title \in Seq(Byte)
  BY TitlesAssumption DEF TextInit
<1> QED
  BY <1>2, <1>3 DEF TextInit, TextIInv

(* The invariant is inductive.                                             *)
LEMMA TextNextIInv ==
    ASSUME TextIInv, [TextNext]_textVars
    PROVE  TextIInv'
<1>1. CASE buildInvertedIndex
  <2>1. /\ UNCHANGED <<descVars, title>>
        /\ words' = CutForSearch(content) /\ titleWords' = CutForSearch(title)
    BY <1>1 DEF buildInvertedIndex
  <2>2. DescIInv'
    BY <2>1, DescNextIInv DEF TextIInv
  <2> QED
    BY <2>1, <2>2 DEF TextIInv, descVars
<1>2. CASE ask
  <2>1. /\ words # NoWords /\ keyword' \in Keywords \cup OwnKeywords
        /\ UNCHANGED <<content, desc, title, titleWords, words>> /\ desc = NoDesc
    BY <1>2 DEF ask
  <2>2. /\ content \in Seq(Byte) /\ words = CutForSearch(content)
        /\ title \in Seq(Byte) /\ titleWords = CutForSearch(title)
    BY <2>1 DEF TextIInv, DescIInv
  <2>3. keyword' \in Seq(Byte)
    BY <2>1, <2>2, TokenIsFound, DescAssumption DEF OwnKeywords
  <2>4. DescIInv'
    BY <2>1, <2>2, <2>3 DEF DescIInv, NoDesc, Message, SummaryInBounds, KeywordShown
  <2> QED
    BY <2>1, <2>2, <2>4 DEF TextIInv
<1>3. CASE summarise
  <2>1. getDesc /\ UNCHANGED <<title, titleWords, words>>
    BY <1>3 DEF summarise
  <2>2. DescIInv'
    BY <2>1, DescNextIInv DEF TextIInv
  <2> QED
    BY <2>1, <2>2 DEF TextIInv, getDesc
<1>4. CASE UNCHANGED textVars
  <2>1. UNCHANGED descVars /\ UNCHANGED <<title, titleWords, words>>
    BY <1>4 DEF textVars
  <2>2. DescIInv'
    BY <2>1, DescNextIInv DEF TextIInv
  <2> QED
    BY <2>1, <2>2 DEF TextIInv, descVars
<1> QED
  BY <1>1, <1>2, <1>3, <1>4 DEF TextNext

(* So it holds in every reachable state.                                   *)
LEMMA TextInvariance == TextSpec => []TextIInv
  BY TextInitIInv, TextNextIInv, PTL DEF TextSpec

(* Whatever the content, the keyword and the steps, the summary lies       *)
(* inside the content and no unsigned subtraction wraps around.            *)
THEOREM SummaryIsInBounds == TextSpec => []SummaryInBounds
<1>1. TextIInv => SummaryInBounds
  BY DEF TextIInv, DescIInv
<1> QED
  BY <1>1, TextInvariance, PTL

(* A keyword that fits and does not end the content is shown whole.        *)
THEOREM KeywordIsShown == TextSpec => []KeywordShown
<1>1. TextIInv => KeywordShown
  BY DEF TextIInv, DescIInv
<1> QED
  BY <1>1, TextInvariance, PTL

(* Whatever the dictionaries, the model and the texts: no token of a       *)
(* content, and no token of a title the content has in it, makes getDesc   *)
(* say "keyword does not exist!".                                          *)
THEOREM OwnKeywordsAreFound == TextSpec => []OwnKeywordFound
<1>1. TextIInv => OwnKeywordFound
  <2> SUFFICES ASSUME TextIInv, words # NoWords, desc.kind = "keyword does not exist!",
                      NEW text, NEW ws, keyword \in KeywordsIn(text, ws),
                      \/ text = content /\ ws = words
                      \/ text = title /\ ws = titleWords /\ Occurs(title, content)
               PROVE  FALSE
    BY DEF OwnKeywordFound
  <2>1. /\ content \in Seq(Byte) /\ words = CutForSearch(content)
        /\ title \in Seq(Byte) /\ titleWords = CutForSearch(title)
    BY DEF TextIInv, DescIInv
  <2>2. text \in Seq(Byte) /\ ws = CutForSearch(text) /\ Occurs(text, content)
    BY <2>1, OccursInItself
  <2>3. keyword \in Seq(Byte) /\ \E p \in Found(text, keyword) : p < Len(text)
    BY <2>2, TokenIsFound
  <2>4. ~Missing(content, keyword)
    BY <2>1, <2>2, <2>3, FoundInWhole
  <2>5. desc = NoDesc \/ desc = Summary(content, First(Found(content, keyword)))
    BY <2>4 DEF TextIInv
  <2>6. NoDesc.kind = "none"
    BY DEF NoDesc, Message
  <2>7. ASSUME NEW p PROVE Summary(content, p).kind \in {"nothing!", "text"}
    <3>1. CASE begin(p) >= end(content, p)
      <4>1. Summary(content, p) = Message("nothing!")
        BY <3>1 DEF Summary
      <4>2. Message("nothing!").kind = "nothing!"
        BY Zenon DEF Message
      <4>3. Summary(content, p).kind = "nothing!"
        BY <4>1, <4>2, Zenon
      <4> QED
        BY <4>3, Zenon
    <3>2. CASE ~(begin(p) >= end(content, p))
      BY <3>2 DEF Summary
    <3> QED
      BY <3>1, <3>2
  <2> QED
    BY <2>5, <2>6, <2>7
<1> QED
  BY <1>1, TextInvariance, PTL

(* Nothing of a decoded text is lost to the index: the outer tokens are a  *)
(* partition of its bytes.                                                 *)
THEOREM TokensCoverTheText == TextSpec => []TokensCoverText
<1>1. TextIInv => TokensCoverText
  <2> SUFFICES ASSUME TextIInv, JustCut
               PROVE  FlattenSeq(OuterWords(content, words))
                        = IF DecodeRunesInString(content) = <<>> THEN <<>> ELSE content
    BY DEF TokensCoverText, OuterWords, Outer
  <2>1. content \in Seq(Byte) /\ words = CutForSearch(content)
    BY DEF TextIInv, DescIInv, JustCut
  <2>2. CASE DecodeRunesInString(content) = <<>>
    <3>1. words = <<>>
      BY <2>1, <2>2, CutNothing
    <3>2. OuterWords(content, words) = <<>>
      BY <3>1 DEF OuterWords
    <3>3. FlattenSeq(<<>>) = <<>>
      <4>1. <<>> \in Pieces(Nat) /\ \A k \in 1..Len(<<>>) : <<>>[k] = <<>>
        BY DEF Pieces
      <4> QED
        BY <4>1, FlattenNone
    <3> QED
      BY <2>2, <3>2, <3>3
  <2>3. CASE DecodeRunesInString(content) # <<>>
    <3>1. PICK n : Decoded(content, n)
      BY <2>1, <2>3 DEF Decoded
    <3>2. FlattenSeq(OuterWords(content, words)) = Bytes(content, 1, n)
      BY <2>1, <3>1, CutTiles DEF Tiles
    <3>3. /\ Edge(content, 1) = 1 /\ Edge(content, n + 1) = Len(content) + 1
          /\ Len(content) \in Nat
      BY <3>1, EdgeType
    <3>4. Bytes(content, 1, n) = SubSeq(content, 1, Len(content))
      BY <3>3 DEF Bytes
    <3>5. SubSeq(content, 1, Len(content)) = content
      BY <2>1
    <3> QED
      BY <2>3, <3>2, <3>4, <3>5
  <2> QED
    BY <2>2, <2>3
<1> QED
  BY <1>1, TextInvariance, PTL

-----------------------------------------------------------------------------
(* The word of a segmentation that starts at i ends before the next cut.   *)
NextCut(cuts, i, r, e) ==
    /\ e \in i..r
    /\ e + 1 \in cuts \cup {r + 1}
    /\ \A k \in cuts : k > i => e < k

(* There is a next cut, or the end of the text.                            *)
LEMMA NextCutExists ==
    ASSUME NEW l \in Int, NEW r \in Int, NEW cuts \in SUBSET (l..r), NEW i \in l..r
    PROVE  \E e : NextCut(cuts, i, r, e)
<1> DEFINE A == {k \in i + 1..r + 1 : k \in cuts \cup {r + 1}}
<1>1. PICK w : w = [k \in A |-> k]
  OBVIOUS
<1>2. r + 1 \in A /\ i + 1 \in Int /\ r + 1 \in Int
  OBVIOUS
<1>3. A \in SUBSET (i + 1..r + 1) /\ A # {} /\ \A k \in A : w[k] = k /\ w[k] \in Int
  BY <1>1, <1>2
<1>4. PICK j \in A : \A k \in A : w[j] <= w[k]
  <2> HIDE DEF A
  <2> QED
    BY <1>2, <1>3, LeastPlace, ZenonT(40)
<1>5. j \in i + 1..r + 1 /\ j \in cuts \cup {r + 1} /\ \A k \in A : j <= k
  BY <1>3, <1>4
<1>6. PICK e \in i..r : e + 1 = j
  <2>1. j - 1 \in i..r /\ (j - 1) + 1 = j
    BY <1>5
  <2> QED
    BY <2>1
<1>7. ASSUME NEW k \in cuts, k > i PROVE e < k
  <2>1. k \in A
    BY <1>7
  <2>2. j <= k /\ k \in Int
    BY <1>5, <2>1
  <2> QED
    BY <1>6, <2>2
<1> QED
  BY <1>5, <1>6, <1>7 DEF NextCut

(* And one only.                                                           *)
LEMMA NextCutUnique ==
    ASSUME NEW l \in Int, NEW r \in Int, NEW cuts \in SUBSET (l..r), NEW i \in l..r,
           NEW e, NextCut(cuts, i, r, e), NEW f, NextCut(cuts, i, r, f)
    PROVE  e = f
<1>1. e \in i..r /\ f \in i..r /\ e \in Int /\ f \in Int
  BY DEF NextCut
<1>2. e <= f
  <2>1. f + 1 \in cuts => e < f + 1
    BY <1>1 DEF NextCut
  <2>2. f + 1 = r + 1 => e <= f
    BY <1>1
  <2> QED
    BY <1>1, <2>1, <2>2 DEF NextCut
<1>3. f <= e
  <2>1. e + 1 \in cuts => f < e + 1
    BY <1>1 DEF NextCut
  <2>2. e + 1 = r + 1 => f <= e
    BY <1>1
  <2> QED
    BY <1>1, <2>1, <2>2 DEF NextCut
<1> QED
  BY <1>1, <1>2, <1>3

(* Segmentations and SegWeight in these terms.                             *)
LEMMA SegmentationIs ==
    ASSUME NEW t, NEW l \in Int, NEW r \in Int, NEW cuts \in SUBSET (l..r)
    PROVE  cuts \in Segmentations(t, l, r) <=>
             /\ l \in cuts
             /\ \A i \in cuts : \E e : NextCut(cuts, i, r, e) /\ e \in Nexts(t, i, r)
<1> DEFINE later(i) == {k \in cuts : k > i}
           least(i) == CHOOSE k \in later(i) : \A m \in later(i) : k <= m
           next(i) == IF later(i) = {} THEN r + 1 ELSE least(i)
<1>1. cuts \in Segmentations(t, l, r) <=>
        l \in cuts /\ \A i \in cuts : next(i) - 1 \in Nexts(t, i, r)
  BY DEF Segmentations
<1>2. ASSUME NEW i \in cuts PROVE NextCut(cuts, i, r, next(i) - 1)
  <2>1. PICK e : NextCut(cuts, i, r, e)
    BY NextCutExists
  <2>2. e \in i..r /\ e \in Int /\ e + 1 \in cuts \cup {r + 1} /\ \A k \in cuts : k > i => e < k
    BY <2>1 DEF NextCut
  <2>3. CASE later(i) = {}
    <3>1. e + 1 \notin cuts
      BY <2>2, <2>3
    <3>2. e + 1 = r + 1 /\ next(i) = r + 1
      BY <2>2, <2>3, <3>1
    <3>3. next(i) - 1 = e
      BY <2>2, <3>2
    <3> QED
      BY <2>1, <3>3
  <2>4. CASE later(i) # {}
    <3>1. e + 1 \in later(i)
      <4>1. PICK k \in cuts : k > i
        BY <2>4
      <4>2. k \in l..r /\ e < k
        BY <2>2, <4>1
      <4>3. e + 1 # r + 1
        BY <2>2, <4>2
      <4>4. e + 1 \in cuts /\ e + 1 > i
        BY <2>2, <4>3
      <4> QED
        BY <4>4
    <3>2. \A m \in later(i) : m \in Int /\ e + 1 <= m
      BY <2>2
    <3>3. least(i) \in later(i) /\ \A m \in later(i) : least(i) <= m
      BY <3>1, <3>2
    <3> HIDE DEF least
    <3>4. least(i) = e + 1
      <4>1. least(i) \in Int /\ e + 1 <= least(i) /\ least(i) <= e + 1
        BY <3>1, <3>2, <3>3
      <4> QED
        BY <2>2, <4>1
    <3>5. next(i) - 1 = e
      BY <2>2, <2>4, <3>4
    <3> QED
      BY <2>1, <3>5
  <2> QED
    BY <2>3, <2>4
<1> HIDE DEF next
<1>3. ASSUME NEW i \in cuts
      PROVE  next(i) - 1 \in Nexts(t, i, r)
               <=> \E e : NextCut(cuts, i, r, e) /\ e \in Nexts(t, i, r)
  <2>1. \A e : NextCut(cuts, i, r, e) => e = next(i) - 1
    <3>1. i \in l..r /\ NextCut(cuts, i, r, next(i) - 1)
      BY <1>2
    <3>2. PICK j : j = next(i) - 1
      OBVIOUS
    <3>3. ASSUME NEW e, NextCut(cuts, i, r, e) PROVE e = j
      <4>1. cuts \in SUBSET (l..r) /\ NextCut(cuts, i, r, j)
        BY <3>1, <3>2
      <4> QED
        BY <3>1, <3>3, <4>1, NextCutUnique
    <3> QED
      BY <3>2, <3>3
  <2> QED
    BY <1>2, <2>1
<1> QED
  BY <1>1, <1>3

(* The weights of the words up to i, added up.                             *)
SumOf(t, l, r, cuts, sum) ==
    /\ sum \in [0..r -> Int]
    /\ sum[l - 1] = 0
    /\ \A i \in cuts : \A e : NextCut(cuts, i, r, e) =>
          sum[e] = sum[i - 1] + EdgeWeight(t, i, e)

(* SegWeight adds up the weights of the words, and of nothing else.        *)
LEMMA SegWeightIs ==
    ASSUME NEW t, NEW l \in Int, NEW r \in Int, 1 <= l, l <= r, NEW cuts \in SUBSET (l..r)
    PROVE  \E sum : SumOf(t, l, r, cuts, sum) /\ SegWeight(t, cuts, r) = sum[r]
<1> DEFINE Ends(i) == {k - 1 : k \in {k \in cuts \cup {r + 1} : k > i}}
           End1(i) == CHOOSE e \in Ends(i) : \A f \in Ends(i) : e <= f
           add(i) == IF i \in cuts THEN EdgeWeight(t, i, End1(i)) ELSE 0
           Form(f) == f = [i \in 0..r |-> IF i = 0 THEN 0 ELSE f[i - 1] + add(i)]
           F == CHOOSE f : Form(f)
<1>1. SegWeight(t, cuts, r) = F[r]
  BY DEF SegWeight
<1>2. ASSUME NEW i \in cuts, NEW e, NextCut(cuts, i, r, e) PROVE End1(i) = e
  <2>1. e \in i..r /\ e \in Int /\ e + 1 \in cuts \cup {r + 1} /\ \A k \in cuts : k > i => e < k
    BY <1>2 DEF NextCut
  <2>2. e \in Ends(i)
    <3>1. e + 1 \in {k \in cuts \cup {r + 1} : k > i} /\ e = (e + 1) - 1
      BY <2>1
    <3> QED
      BY <3>1
  <2>3. \A f \in Ends(i) : f \in Int /\ e <= f
    <3> SUFFICES ASSUME NEW k \in cuts \cup {r + 1}, k > i PROVE k - 1 \in Int /\ e <= k - 1
      OBVIOUS
    <3>1. k \in Int
      OBVIOUS
    <3>2. e < k
      BY <2>1
    <3> QED
      BY <2>1, <3>1, <3>2
  <2>4. End1(i) \in Ends(i) /\ \A f \in Ends(i) : End1(i) <= f
    <3> HIDE DEF Ends
    <3> QED
      BY <2>2, <2>3
  <2> HIDE DEF End1, Ends
  <2>5. End1(i) \in Int /\ e <= End1(i) /\ End1(i) <= e
    BY <2>2, <2>3, <2>4
  <2> QED
    BY <2>1, <2>5
<1>3. \A i : add(i) \in Int
  BY EdgeWeightType
<1>4. \A i \in cuts : \A e : NextCut(cuts, i, r, e) => add(i) = EdgeWeight(t, i, e)
  BY <1>2
<1>5. \A i : i \notin cuts => add(i) = 0
  OBVIOUS
<1> HIDE DEF add
<1>6. \E f : f \in [0..r -> Int] /\ Form(f)
  <2>1. PICK G : G = [a \in (0..r) \X Int |-> a[2] + add(a[1])]
    OBVIOUS
  <2>2. \A i \in 0..r : \A v \in Int : G[<<i, v>>] = v + add(i)
    BY <2>1
  <2>3. \A i \in 0 + 1..r : \A v \in Int : G[<<i, v>>] \in Int
    <3> SUFFICES ASSUME NEW i \in 0 + 1..r, NEW v \in Int PROVE G[<<i, v>>] \in Int
      OBVIOUS
    <3>1. i \in 0..r
      OBVIOUS
    <3>2. PICK a \in Int : a = add(i)
      BY <1>3
    <3>3. G[<<i, v>>] = v + a
      BY <2>2, <3>1, <3>2
    <3> QED
      BY <3>3
  <2>4. PICK f : f \in [0..r -> Int] /\ IsForth(f, 0, r, G, 0)
    <3>1. 0 \in Int /\ 0 <= r
      OBVIOUS
    <3> QED
      BY <2>3, <3>1, ForthExists
  <2>5. f = [i \in 0..r |-> IF i = 0 THEN 0 ELSE G[<<i, f[i - 1]>>]]
    BY <2>4 DEF IsForth
  <2>6. ASSUME NEW i \in 0..r, i # 0 PROVE G[<<i, f[i - 1]>>] = f[i - 1] + add(i)
    <3>1. i - 1 \in 0..r
      BY <2>6
    <3> QED
      BY <2>2, <2>4, <3>1
  <2>7. Form(f)
    BY <2>5, <2>6
  <2> QED
    BY <2>4, <2>7
<1>7. Form(F)
  <2> HIDE DEF Form
  <2> QED
    BY <1>6
<1> HIDE DEF F
<1>8. F[0] = 0 /\ \A i \in 1..r : F[i] = F[i - 1] + add(i)
  <2>1. 0 \in 0..r /\ \A i \in 1..r : i \in 0..r /\ i # 0
    OBVIOUS
  <2> QED
    BY <1>7, <2>1
<1>9. F \in [0..r -> Int]
  <2> DEFINE T == {i \in 0..r : F[i] \in Int}
  <2>1. 0 \in T
    BY <1>8
  <2>2. ASSUME NEW i \in 0..r - 1, i \in T PROVE i + 1 \in T
    <3>1. i + 1 \in 1..r /\ i + 1 \in 0..r /\ i + 1 - 1 = i
      OBVIOUS
    <3>2. F[i + 1] = F[i] + add(i + 1)
      BY <1>8, <3>1
    <3> QED
      BY <1>3, <2>2, <3>1, <3>2
  <2>3. \A i \in 0..r : i \in T
    <3>1. 0 \in Int /\ 0 <= r
      OBVIOUS
    <3> HIDE DEF T
    <3> QED
      BY <2>1, <2>2, <3>1, Forward
  <2>4. F = [i \in 0..r |-> F[i]]
    BY <1>7
  <2> HIDE DEF Form
  <2> QED
    BY <2>3, <2>4
<1> HIDE DEF Form
<1>10. ASSUME NEW a \in 0..r, NEW b \in a..r, \A k \in a + 1..b : k \notin cuts
       PROVE  F[b] = F[a]
  <2> DEFINE T == {i \in a..b : F[i] = F[a]}
  <2>1. a \in T /\ a \in Int /\ b \in Int /\ a <= b
    OBVIOUS
  <2>2. ASSUME NEW i \in a..b - 1, i \in T PROVE i + 1 \in T
    <3>1. i + 1 \in 1..r /\ i + 1 \in a + 1..b /\ i + 1 \in a..b /\ i + 1 - 1 = i /\ i \in 0..r
      OBVIOUS
    <3>2. F[i + 1] = F[i] + add(i + 1)
      BY <1>8, <3>1
    <3>3. add(i + 1) = 0
      BY <1>5, <1>10, <3>1
    <3>4. F[i] \in Int
      BY <1>9, <3>1
    <3> QED
      BY <2>2, <3>1, <3>2, <3>3, <3>4
  <2>3. \A i \in a..b : i \in T
    <3> HIDE DEF T
    <3> QED
      BY <2>1, <2>2, Forward
  <2> QED
    BY <2>3
<1>11. F[l - 1] = 0
  <2>1. 0 \in 0..r /\ l - 1 \in 0..r
    OBVIOUS
  <2>2. \A k \in 0 + 1..l - 1 : k \notin cuts
    OBVIOUS
  <2> QED
    BY <1>8, <1>10, <2>1, <2>2
<1>12. ASSUME NEW i \in cuts, NEW e, NextCut(cuts, i, r, e)
       PROVE  F[e] = F[i - 1] + EdgeWeight(t, i, e)
  <2>1. e \in i..r /\ i \in 1..r /\ i \in 0..r /\ \A k \in cuts : k > i => e < k
    BY <1>12 DEF NextCut
  <2>2. \A k \in i + 1..e : k \notin cuts
    <3> SUFFICES ASSUME NEW k \in i + 1..e, k \in cuts PROVE FALSE
      OBVIOUS
    <3>1. k > i /\ k <= e /\ k \in Int /\ e \in Int
      BY <2>1
    <3> QED
      BY <2>1, <3>1
  <2>3. F[e] = F[i]
    BY <1>10, <2>1, <2>2
  <2>4. F[i] = F[i - 1] + add(i)
    BY <1>8, <2>1
  <2> QED
    BY <1>4, <1>12, <2>3, <2>4
<1> QED
  BY <1>1, <1>9, <1>11, <1>12 DEF SumOf

(* What is weighed by W from every cut on weighs the whole.                *)
LEMMA SumBelow ==
    ASSUME NEW t, NEW l \in Int, NEW r \in Int, 1 <= l, l <= r, NEW cuts \in SUBSET (l..r),
           l \in cuts, NEW sum, SumOf(t, l, r, cuts, sum),
           NEW W \in [l..r + 1 -> Int], W[r + 1] = 0,
           \A i \in cuts : \E e : /\ NextCut(cuts, i, r, e)
                                  /\ EdgeWeight(t, i, e) + W[e + 1] <= W[i]
    PROVE  sum[r] <= W[l]
<1> DEFINE V == {i \in l..r + 1 : i \in cuts \cup {r + 1} => sum[r] - sum[i - 1] <= W[i]}
<1>1. /\ sum[l - 1] = 0
      /\ \A i \in 0..r : sum[i] \in Int
      /\ \A i \in cuts : \A e : NextCut(cuts, i, r, e) =>
            sum[e] = sum[i - 1] + EdgeWeight(t, i, e)
  BY DEF SumOf
<1>2. r + 1 \in V
  <2>1. r + 1 \in l..r + 1 /\ r + 1 - 1 = r /\ sum[r] \in Int
    BY <1>1
  <2>2. sum[r] - sum[r] <= W[r + 1]
    BY <2>1
  <2> QED
    BY <2>1, <2>2
<1>3. ASSUME NEW i \in l..r, \A j \in i + 1..r + 1 : j \in V PROVE i \in V
  <2> SUFFICES ASSUME i \in cuts PROVE sum[r] - sum[i - 1] <= W[i]
    OBVIOUS
  <2>1. PICK e : NextCut(cuts, i, r, e) /\ EdgeWeight(t, i, e) + W[e + 1] <= W[i]
    OBVIOUS
  <2>2. e \in i..r /\ e + 1 \in cuts \cup {r + 1} /\ e + 1 \in i + 1..r + 1
    BY <2>1 DEF NextCut
  <2>3. e + 1 \in V /\ e + 1 - 1 = e
    BY <1>3, <2>2
  <2>4. PICK a \in Int, b \in Int, c \in Int, d \in Int, w \in Int, v \in Int :
           /\ a = sum[r] /\ b = sum[e] /\ c = sum[i - 1] /\ d = EdgeWeight(t, i, e)
           /\ w = W[e + 1] /\ v = W[i]
    <3>1. r \in 0..r /\ e \in 0..r /\ i - 1 \in 0..r /\ e + 1 \in l..r + 1 /\ i \in l..r + 1
      BY <2>2
    <3>2. sum[r] \in Int /\ sum[e] \in Int /\ sum[i - 1] \in Int
      BY <1>1, <3>1
    <3>3. W[e + 1] \in Int /\ W[i] \in Int
      BY <3>1
    <3> QED
      BY <3>2, <3>3, EdgeWeightType
  <2>5. a - b <= w
    BY <2>2, <2>3, <2>4
  <2>6. b = c + d
    BY <1>1, <2>1, <2>4
  <2>7. d + w <= v
    BY <2>1, <2>4
  <2>8. a - c <= v
    BY <2>5, <2>6, <2>7
  <2> QED
    BY <2>4, <2>8
<1>4. l \in V
  <2>1. \A i \in l..r + 1 : i \in V
    <3>1. l <= r + 1
      OBVIOUS
    <3> HIDE DEF V
    <3> QED
      BY <1>2, <1>3, <3>1, Backward
  <2>2. l \in l..r + 1
    OBVIOUS
  <2> QED
    BY <2>1, <2>2
<1>5. sum[r] \in Int /\ sum[r] - 0 <= W[l]
  <2>1. r \in 0..r
    OBVIOUS
  <2> QED
    BY <1>1, <1>4, <2>1
<1> QED
  BY <1>5

(* The same the other way round, for the path itself.                      *)
LEMMA SumAbove ==
    ASSUME NEW t, NEW l \in Int, NEW r \in Int, 1 <= l, l <= r, NEW cuts \in SUBSET (l..r),
           l \in cuts, NEW sum, SumOf(t, l, r, cuts, sum),
           NEW W \in [l..r + 1 -> Int], W[r + 1] = 0,
           \A i \in cuts : \E e : /\ NextCut(cuts, i, r, e)
                                  /\ EdgeWeight(t, i, e) + W[e + 1] = W[i]
    PROVE  W[l] <= sum[r]
<1> DEFINE V == {i \in l..r + 1 : i \in cuts \cup {r + 1} => sum[r] - sum[i - 1] >= W[i]}
<1>1. /\ sum[l - 1] = 0
      /\ \A i \in 0..r : sum[i] \in Int
      /\ \A i \in cuts : \A e : NextCut(cuts, i, r, e) =>
            sum[e] = sum[i - 1] + EdgeWeight(t, i, e)
  BY DEF SumOf
<1>2. r + 1 \in V
  <2>1. r + 1 \in l..r + 1 /\ r + 1 - 1 = r /\ sum[r] \in Int
    BY <1>1
  <2>2. sum[r] - sum[r] >= W[r + 1]
    BY <2>1
  <2> QED
    BY <2>1, <2>2
<1>3. ASSUME NEW i \in l..r, \A j \in i + 1..r + 1 : j \in V PROVE i \in V
  <2> SUFFICES ASSUME i \in cuts PROVE sum[r] - sum[i - 1] >= W[i]
    OBVIOUS
  <2>1. PICK e : NextCut(cuts, i, r, e) /\ EdgeWeight(t, i, e) + W[e + 1] = W[i]
    OBVIOUS
  <2>2. e \in i..r /\ e + 1 \in cuts \cup {r + 1} /\ e + 1 \in i + 1..r + 1
    BY <2>1 DEF NextCut
  <2>3. e + 1 \in V /\ e + 1 - 1 = e
    BY <1>3, <2>2
  <2>4. PICK a \in Int, b \in Int, c \in Int, d \in Int, w \in Int, v \in Int :
           /\ a = sum[r] /\ b = sum[e] /\ c = sum[i - 1] /\ d = EdgeWeight(t, i, e)
           /\ w = W[e + 1] /\ v = W[i]
    <3>1. r \in 0..r /\ e \in 0..r /\ i - 1 \in 0..r /\ e + 1 \in l..r + 1 /\ i \in l..r + 1
      BY <2>2
    <3>2. sum[r] \in Int /\ sum[e] \in Int /\ sum[i - 1] \in Int
      BY <1>1, <3>1
    <3>3. W[e + 1] \in Int /\ W[i] \in Int
      BY <3>1
    <3> QED
      BY <3>2, <3>3, EdgeWeightType
  <2>5. a - b >= w
    BY <2>2, <2>3, <2>4
  <2>6. b = c + d
    BY <1>1, <2>1, <2>4
  <2>7. d + w = v
    BY <2>1, <2>4
  <2>8. a - c >= v
    BY <2>5, <2>6, <2>7
  <2> QED
    BY <2>4, <2>8
<1>4. l \in V
  <2>1. \A i \in l..r + 1 : i \in V
    <3>1. l <= r + 1
      OBVIOUS
    <3> HIDE DEF V
    <3> QED
      BY <1>2, <1>3, <3>1, Backward
  <2>2. l \in l..r + 1
    OBVIOUS
  <2> QED
    BY <2>1, <2>2
<1>5. sum[r] \in Int /\ sum[r] - 0 >= W[l]
  <2>1. r \in 0..r
    OBVIOUS
  <2> QED
    BY <1>1, <1>4, <2>1
<1> QED
  BY <1>5

-----------------------------------------------------------------------------
(* Every word MPCut cuts is one CalcDP has chosen.                         *)
LEMMA MPCutWords ==
    ASSUME NEW t, NEW l \in Int, NEW r \in Int, l <= r + 1,
           NEW dags, dags = CalcDP(t, l, r), NEW mp, mp = MPCut(t, l, r)
    PROVE  \A k \in 1..Len(mp) : mp[k][2] = dags[mp[k][1] - l + 1].end
<1> DEFINE W == {w \in Spans : w[2] = dags[w[1] - l + 1].end}
<1>1. PICK next, piece, f : GoesAlong(t, l, r, dags, next, piece, f)
  BY MPCutIs
<1>2. /\ \A i \in l..r : /\ next[i] \in i + 1..r + 1
                         /\ piece[i] = << <<i, dags[i - l + 1].end>> >>
      /\ f = [i \in l..r + 1 |-> IF i > r THEN <<>> ELSE piece[i] \o f[next[i]]]
      /\ mp = f[l]
  BY <1>1 DEF GoesAlong, IsCut
<1>3. ASSUME NEW i \in l..r PROVE piece[i] \in Seq(W)
  <2>1. PICK e \in Int : e = dags[i - l + 1].end
    <3>1. dags[i - l + 1].end \in Nexts(t, i, r)
      BY DpOf
    <3> QED
      BY <3>1 DEF Nexts
  <2>2. PICK w : w = <<i, e>>
    OBVIOUS
  <2>3. w \in Spans /\ w[1] = i /\ w[2] = e
    BY <2>2 DEF Spans
  <2>4. w \in W
    BY <2>1, <2>3
  <2>5. <<w>> \in Seq(W)
    <3> HIDE DEF W
    <3> QED
      BY <2>4
  <2> QED
    BY <1>2, <2>1, <2>2, <2>5
<1> HIDE DEF W
<1> DEFINE V == {i \in l..r + 1 : f[i] \in Seq(W)}
<1>4. r + 1 \in V
  <2>1. r + 1 \in l..r + 1 /\ r + 1 > r
    OBVIOUS
  <2>2. f[r + 1] = <<>>
    BY <1>2, <2>1
  <2>3. <<>> \in Seq(W)
    OBVIOUS
  <2> QED
    BY <2>1, <2>2, <2>3
<1>5. ASSUME NEW i \in l..r, \A j \in i + 1..r + 1 : j \in V PROVE i \in V
  <2>1. i \in l..r + 1 /\ ~(i > r)
    OBVIOUS
  <2>2. f[i] = piece[i] \o f[next[i]]
    BY <1>2, <2>1
  <2>3. f[next[i]] \in Seq(W)
    BY <1>2, <1>5
  <2>4. piece[i] \in Seq(W)
    BY <1>3
  <2>5. piece[i] \o f[next[i]] \in Seq(W)
    BY <2>3, <2>4, ConcatProperties
  <2> QED
    BY <2>1, <2>2, <2>5
<1>6. \A i \in l..r + 1 : i \in V
  <2> HIDE DEF V
  <2> QED
    BY <1>4, <1>5, Backward
<1>7. mp \in Seq(W)
  <2>1. l \in l..r + 1
    OBVIOUS
  <2> QED
    BY <1>2, <1>6, <2>1
<1>8. \A k \in 1..Len(mp) : mp[k] \in W
  BY <1>7
<1> QED
  BY <1>8 DEF W

(* The places where its words start, and how each of them goes on.         *)
Starts(mp) == {w[1] : w \in Range(mp)}

(* Its words start at cuts, and each goes on to the next cut.              *)
LEMMA ChosenIs ==
    ASSUME NEW t, NEW l \in Int, NEW r \in Int, l <= r,
           NEW dags, dags = CalcDP(t, l, r),
           NEW chosen, chosen = Starts(MPCut(t, l, r))
    PROVE  /\ chosen \in SUBSET (l..r)
           /\ l \in chosen
           /\ \A i \in chosen : NextCut(chosen, i, r, dags[i - l + 1].end)
<1>1. PICK mp : mp = MPCut(t, l, r)
  OBVIOUS
<1>2. PICK n : n = Len(mp)
  OBVIOUS
<1>3. Covers(mp, l, r)
  <2>1. l <= r + 1
    OBVIOUS
  <2> QED
    BY <1>1, <2>1, MPCutCovers
<1>4. /\ n \in Nat /\ DOMAIN mp = 1..n
      /\ \A k \in 1..n : /\ mp[k][1] \in Int /\ mp[k][2] \in Int
                         /\ l <= mp[k][1] /\ mp[k][1] <= mp[k][2] /\ mp[k][2] <= r
      /\ \A k \in 1..n - 1 : mp[k + 1][1] = mp[k][2] + 1
  BY <1>2, <1>3, SpanType DEF Covers
<1>5. n > 0 /\ mp[1][1] = l /\ mp[n][2] = r
  <2>1. mp # <<>>
    BY <1>3 DEF Covers
  <2>2. mp[1][1] = l /\ mp[n][2] = r
    BY <1>2, <1>3, <2>1 DEF Covers
  <2>3. mp \in Seq(Spans)
    BY <1>3 DEF Covers
  <2> QED
    BY <1>2, <1>4, <2>1, <2>2, <2>3, EmptySeq
<1>6. chosen = {mp[k][1] : k \in 1..n}
  <2>1. Range(mp) = {mp[k] : k \in 1..n}
    BY <1>4 DEF Range
  <2>2. chosen = {w[1] : w \in Range(mp)}
    BY <1>1 DEF Starts
  <2>3. \A a : a \in chosen <=> \E k \in 1..n : a = mp[k][1]
    BY <2>1, <2>2
  <2> QED
    BY <2>3
<1>7. chosen \in SUBSET (l..r)
  <2>1. \A k \in 1..n : mp[k][1] \in l..r
    BY <1>4
  <2> QED
    BY <1>6, <2>1
<1>8. l \in chosen
  <2>1. 1 \in 1..n
    BY <1>4, <1>5
  <2> QED
    BY <1>5, <1>6, <2>1
<1>9. ASSUME NEW i \in chosen PROVE NextCut(chosen, i, r, dags[i - l + 1].end)
  <2>1. PICK k \in 1..n : i = mp[k][1]
    BY <1>6
  <2>2. PICK e \in i..r : e = mp[k][2]
    BY <1>4, <2>1
  <2>3. dags[i - l + 1].end = e
    <3>1. l <= r + 1
      OBVIOUS
    <3> QED
      BY <1>1, <1>2, <2>1, <2>2, <3>1, MPCutWords
  <2>4. e + 1 \in chosen \cup {r + 1}
    <3>1. CASE k = n
      BY <1>5, <2>2, <3>1
    <3>2. CASE k # n
      <4>1. k \in 1..n - 1 /\ k + 1 \in 1..n
        BY <1>4, <3>2
      <4>2. mp[k + 1][1] = e + 1
        BY <1>4, <2>2, <4>1
      <4> QED
        BY <1>6, <4>1, <4>2
    <3> QED
      BY <3>1, <3>2
  <2>5. ASSUME NEW j \in 1..n, mp[j][1] > i PROVE e < mp[j][1]
    <3>1. CASE j <= k
      <4>1. j \in 1..Len(mp) /\ k \in j..Len(mp)
        BY <1>2, <1>4, <3>1
      <4>2. mp[j][1] <= mp[k][1]
        BY <1>3, <4>1, CoverGrows
      <4>3. mp[j][1] \in Int /\ i \in Int
        BY <1>4, <2>1
      <4> QED
        BY <2>1, <2>5, <4>2, <4>3
    <3>2. CASE j > k
      <4>1. k \in 1..n - 1 /\ k + 1 \in 1..n /\ k + 1 \in 1..Len(mp) /\ j \in k + 1..Len(mp)
        BY <1>2, <1>4, <3>2
      <4>2. mp[k + 1][1] <= mp[j][1]
        BY <1>3, <4>1, CoverGrows
      <4>3. mp[k + 1][1] = e + 1 /\ e \in Int /\ mp[j][1] \in Int
        BY <1>4, <2>1, <2>2, <4>1
      <4> QED
        BY <4>2, <4>3
    <3> QED
      BY <1>4, <3>1, <3>2
  <2>6. \A k2 \in chosen : k2 > i => e < k2
    BY <1>6, <2>5
  <2> QED
    BY <2>2, <2>3, <2>4, <2>6 DEF NextCut
<1> QED
  BY <1>7, <1>8, <1>9

(* The path of MPCut is a heaviest one.                                    *)
LEMMA MPCutHeaviest ==
    ASSUME NEW t, NEW l \in Int, NEW r \in Int, 1 <= l, l <= r,
           NEW chosen, chosen = Starts(MPCut(t, l, r))
    PROVE  Heaviest(t, l, r, chosen)
<1>1. PICK dags : dags = CalcDP(t, l, r)
  OBVIOUS
<1>2. /\ chosen \in SUBSET (l..r)
      /\ l \in chosen
      /\ \A i \in chosen : NextCut(chosen, i, r, dags[i - l + 1].end)
  BY <1>1, ChosenIs
<1>3. /\ dags \in Seq(Cells)
      /\ Len(dags) = r + 1 - l
      /\ \A i \in l..r :
            /\ dags[i - l + 1].end \in Nexts(t, i, r)
            /\ dags[i - l + 1].weight
                 = EdgeWeight(t, i, dags[i - l + 1].end)
                     + Rest(dags, l, r, dags[i - l + 1].end + 1)
            /\ \A j \in Nexts(t, i, r) :
                  EdgeWeight(t, i, j) + Rest(dags, l, r, j + 1) <= dags[i - l + 1].weight
  <2>1. l <= r + 1
    OBVIOUS
  <2> QED
    BY <1>1, <2>1, DpOf
<1>4. PICK W : W = [i \in l..r + 1 |-> Rest(dags, l, r, i)]
  OBVIOUS
<1>5. /\ W \in [l..r + 1 -> Int]
      /\ W[r + 1] = 0
      /\ \A i \in l..r : W[i] = dags[i - l + 1].weight
      /\ \A i \in l..r : \A e \in i..r : W[e + 1] = Rest(dags, l, r, e + 1)
  <2>1. ASSUME NEW i \in l..r + 1 PROVE W[i] = Rest(dags, l, r, i) /\ W[i] \in Int
    <3>1. CASE i > r
      BY <1>4, <3>1 DEF Rest
    <3>2. CASE ~(i > r)
      <4>1. PICK k \in 1..Len(dags) : k = i - l + 1
        <5>1. i - l + 1 \in 1..r + 1 - l
          BY <3>2
        <5> QED
          BY <1>3, <5>1
      <4>2. dags[k] \in Cells
        BY <1>3
      <4>3. dags[k].weight \in Int
        BY <4>2 DEF Cells
      <4> QED
        BY <1>4, <3>2, <4>1, <4>3 DEF Rest
    <3> QED
      BY <3>1, <3>2
  <2>2. r + 1 \in l..r + 1 /\ r + 1 > r
    OBVIOUS
  <2>3. \A i \in l..r : i \in l..r + 1 /\ ~(i > r)
    OBVIOUS
  <2>4. \A i \in l..r : \A e \in i..r : e + 1 \in l..r + 1
    OBVIOUS
  <2>5. W[r + 1] = 0
    BY <2>1, <2>2 DEF Rest
  <2>6. \A i \in l..r : W[i] = dags[i - l + 1].weight
    BY <2>1, <2>3 DEF Rest
  <2>7. W = [i \in l..r + 1 |-> W[i]]
    BY <1>4
  <2> QED
    BY <2>1, <2>4, <2>5, <2>6, <2>7
<1>6. ASSUME NEW i \in l..r, NEW e \in Nexts(t, i, r)
      PROVE  EdgeWeight(t, i, e) + W[e + 1] <= W[i]
  <2>1. e \in i..r
    BY DEF Nexts
  <2>2. W[e + 1] = Rest(dags, l, r, e + 1) /\ W[i] = dags[i - l + 1].weight
    BY <1>5, <2>1
  <2> QED
    BY <1>3, <2>2
<1>7. ASSUME NEW i \in l..r, NEW e, e = dags[i - l + 1].end
      PROVE  e \in Nexts(t, i, r) /\ EdgeWeight(t, i, e) + W[e + 1] = W[i]
  <2>1. e \in Nexts(t, i, r)
    BY <1>3, <1>7
  <2>2. e \in i..r
    BY <2>1 DEF Nexts
  <2>3. W[e + 1] = Rest(dags, l, r, e + 1) /\ W[i] = dags[i - l + 1].weight
    BY <1>5, <2>2
  <2> QED
    BY <1>3, <1>7, <2>1, <2>3
<1>8. chosen \in Segmentations(t, l, r)
  <2>1. \A i \in chosen : /\ NextCut(chosen, i, r, dags[i - l + 1].end)
                          /\ dags[i - l + 1].end \in Nexts(t, i, r)
    BY <1>2, <1>3
  <2>2. \A i \in chosen : \E e : NextCut(chosen, i, r, e) /\ e \in Nexts(t, i, r)
    BY <2>1
  <2> QED
    BY <1>2, <2>2, SegmentationIs
<1>9. W[l] <= SegWeight(t, chosen, r)
  <2>1. PICK sum : SumOf(t, l, r, chosen, sum) /\ SegWeight(t, chosen, r) = sum[r]
    BY <1>2, SegWeightIs
  <2>2. ASSUME NEW i \in chosen
        PROVE  \E e : NextCut(chosen, i, r, e) /\ EdgeWeight(t, i, e) + W[e + 1] = W[i]
    <3>1. PICK e : e = dags[i - l + 1].end
      OBVIOUS
    <3>2. NextCut(chosen, i, r, e) /\ i \in l..r
      BY <1>2, <3>1
    <3>3. EdgeWeight(t, i, e) + W[e + 1] = W[i]
      BY <1>7, <3>1, <3>2
    <3> QED
      BY <3>2, <3>3
  <2>3. W[l] <= sum[r]
    <3>1. chosen \in SUBSET (l..r) /\ l \in chosen
      BY <1>2
    <3>2. W \in [l..r + 1 -> Int] /\ W[r + 1] = 0
      BY <1>5
    <3>3. SumOf(t, l, r, chosen, sum)
      BY <2>1
    <3> QED
      BY ONLY <2>2, <3>1, <3>2, <3>3, SumAbove, l \in Int, r \in Int, 1 <= l, l <= r, ZenonT(100)
  <2> QED
    BY <2>1, <2>3
<1>10. ASSUME NEW cuts \in Segmentations(t, l, r) PROVE SegWeight(t, cuts, r) <= W[l]
  <2>1. cuts \in SUBSET (l..r)
    BY DEF Segmentations
  <2>2. /\ l \in cuts
        /\ \A i \in cuts : \E e : NextCut(cuts, i, r, e) /\ e \in Nexts(t, i, r)
    BY <2>1, SegmentationIs
  <2>3. PICK sum : SumOf(t, l, r, cuts, sum) /\ SegWeight(t, cuts, r) = sum[r]
    BY <2>1, SegWeightIs
  <2>4. ASSUME NEW i \in cuts
        PROVE  \E e : NextCut(cuts, i, r, e) /\ EdgeWeight(t, i, e) + W[e + 1] <= W[i]
    <3>1. PICK e : NextCut(cuts, i, r, e) /\ e \in Nexts(t, i, r)
      BY <2>2
    <3>2. i \in l..r
      BY <2>1
    <3> QED
      BY <1>6, <3>1, <3>2
  <2> QED
    BY <1>5, <2>1, <2>2, <2>3, <2>4, SumBelow
<1>11. W[l] \in Int /\ \A cuts \in SUBSET (l..r) : SegWeight(t, cuts, r) \in Int
  <2>1. l \in l..r + 1
    OBVIOUS
  <2>2. ASSUME NEW cuts \in SUBSET (l..r) PROVE SegWeight(t, cuts, r) \in Int
    <3>1. PICK sum : SumOf(t, l, r, cuts, sum) /\ SegWeight(t, cuts, r) = sum[r]
      BY SegWeightIs
    <3>2. r \in 0..r
      OBVIOUS
    <3> QED
      BY <3>1, <3>2 DEF SumOf
  <2> QED
    BY <1>5, <2>1, <2>2
<1>12. ASSUME NEW cuts \in Segmentations(t, l, r)
       PROVE  SegWeight(t, cuts, r) <= SegWeight(t, chosen, r)
  <2>1. cuts \in SUBSET (l..r)
    BY DEF Segmentations
  <2>2. PICK a \in Int, b \in Int, w \in Int :
          a = SegWeight(t, cuts, r) /\ b = SegWeight(t, chosen, r) /\ w = W[l]
    BY <1>2, <1>11, <2>1
  <2>3. a <= w /\ w <= b
    BY <1>9, <1>10, <2>2
  <2>4. a <= b
    BY <2>3
  <2> QED
    BY <2>2, <2>4
<1> QED
  BY <1>8, <1>12 DEF Heaviest

-----------------------------------------------------------------------------
(* The weight of a sequence of statuses, place by place.                   *)
TagSum(t, g, n, sum) ==
    /\ sum \in [1..n -> Int]
    /\ sum[1] = Start(g[1], t[1]).weight
    /\ \A x \in 1..n - 1 : sum[x + 1] = Rounded(sum[x] + StepProb(g[x], g[x + 1], t[x + 1]))

(* TagWeight is such a sum, rounded after every place.                     *)
LEMMA TagWeightIs ==
    ASSUME NEW t, NEW n \in Nat, n > 0, NEW g \in Seq(Status), Len(g) = n
    PROVE  \E sum : TagSum(t, g, n, sum) /\ TagWeight(t, g) = sum[n]
<1> DEFINE base == Rounded(startProb[g[1]] + GetEmitProb(g[1], t[1]))
           step(x, v) == Rounded(v + transProb[g[x - 1]][g[x]] + GetEmitProb(g[x], t[x]))
           Form(f) == f = [x \in 1..n |-> IF x = 1 THEN base ELSE step(x, f[x - 1])]
           F == CHOOSE f : Form(f)
<1>1. TagWeight(t, g) = F[n]
  BY DEF TagWeight
<1>2. \A x \in 1..n : g[x] \in Status
  OBVIOUS
<1>3. base = Start(g[1], t[1]).weight /\ base \in Int
  <2>1. 1 \in 1..n
    OBVIOUS
  <2>2. Start(g[1], t[1]) \in TagCells
    BY <1>2, <2>1, StartType
  <2>3. Start(g[1], t[1]).weight = base
    BY DEF Start
  <2> QED
    BY <2>2, <2>3 DEF TagCells
<1>4. ASSUME NEW x \in 2..n, NEW v \in Int
      PROVE  step(x, v) = Rounded(v + StepProb(g[x - 1], g[x], t[x])) /\ step(x, v) \in Int
  <2>1. g[x - 1] \in Status /\ g[x] \in Status
    <3>1. x - 1 \in 1..n /\ x \in 1..n
      OBVIOUS
    <3> QED
      BY <1>2, <3>1
  <2>2. PICK a \in Int, b \in Int :
          a = transProb[g[x - 1]][g[x]] /\ b = GetEmitProb(g[x], t[x])
    BY <2>1, ProbTypes, SegmenterAssumption
  <2>3. StepProb(g[x - 1], g[x], t[x]) = a + b
    BY <2>2 DEF StepProb
  <2>4. v + a + b = v + (a + b) /\ v + (a + b) \in Int
    BY <2>2
  <2>5. step(x, v) = Rounded(v + (a + b))
    BY <2>2, <2>4
  <2> QED
    BY <2>3, <2>4, <2>5, RoundedType
<1> HIDE DEF base, step
<1>5. \E f : f \in [1..n -> Int] /\ Form(f)
  <2>1. PICK G : G = [a \in (1..n) \X Int |-> step(a[1], a[2])]
    OBVIOUS
  <2>2. \A x \in 1..n : \A v \in Int : G[<<x, v>>] = step(x, v)
    BY <2>1
  <2>3. ASSUME NEW x \in 1 + 1..n, NEW v \in Int PROVE G[<<x, v>>] \in Int
    <3>1. x \in 1..n /\ x \in 2..n
      OBVIOUS
    <3> QED
      BY <1>4, <2>2, <3>1
  <2>4. PICK f : f \in [1..n -> Int] /\ IsForth(f, 1, n, G, base)
    <3>1. 1 \in Int /\ 1 <= n /\ n \in Int
      OBVIOUS
    <3> QED
      BY <1>3, <2>3, <3>1, ForthExists
  <2>5. f = [x \in 1..n |-> IF x = 1 THEN base ELSE G[<<x, f[x - 1]>>]]
    BY <2>4 DEF IsForth
  <2>6. ASSUME NEW x \in 1..n, x # 1 PROVE G[<<x, f[x - 1]>>] = step(x, f[x - 1])
    <3>1. x - 1 \in 1..n
      BY <2>6
    <3> QED
      BY <2>2, <2>4, <3>1
  <2>7. Form(f)
    BY <2>5, <2>6
  <2> QED
    BY <2>4, <2>7
<1>6. Form(F)
  <2> HIDE DEF Form
  <2> QED
    BY <1>5
<1> HIDE DEF F
<1>7. F[1] = base /\ \A x \in 2..n : F[x] = step(x, F[x - 1])
  <2>1. 1 \in 1..n /\ \A x \in 2..n : x \in 1..n /\ x # 1
    OBVIOUS
  <2> QED
    BY <1>6, <2>1
<1>8. F \in [1..n -> Int]
  <2> DEFINE V == {x \in 1..n : F[x] \in Int}
  <2>1. 1 \in V /\ 1 \in Int /\ n \in Int /\ 1 <= n
    BY <1>3, <1>7
  <2>2. ASSUME NEW x \in 1..n - 1, x \in V PROVE x + 1 \in V
    <3>1. x + 1 \in 2..n /\ x + 1 \in 1..n /\ x + 1 - 1 = x
      OBVIOUS
    <3>2. F[x + 1] = step(x + 1, F[x]) /\ F[x] \in Int
      BY <1>7, <2>2, <3>1
    <3> QED
      BY <1>4, <3>1, <3>2
  <2>3. \A x \in 1..n : x \in V
    <3> HIDE DEF V
    <3> QED
      BY <2>1, <2>2, Forward
  <2>4. F = [x \in 1..n |-> F[x]]
    BY <1>6
  <2> HIDE DEF Form
  <2> QED
    BY <2>3, <2>4
<1> HIDE DEF Form
<1>9. ASSUME NEW x \in 1..n - 1
      PROVE  F[x + 1] = Rounded(F[x] + StepProb(g[x], g[x + 1], t[x + 1]))
  <2>1. PICK y \in 2..n : y = x + 1 /\ y - 1 = x
    <3>1. x + 1 \in 2..n /\ x + 1 - 1 = x
      OBVIOUS
    <3> QED
      BY <3>1
  <2>2. F[y - 1] \in Int
    <3>1. y - 1 \in 1..n
      OBVIOUS
    <3> QED
      BY <1>8, <3>1
  <2>3. F[y] = Rounded(F[y - 1] + StepProb(g[y - 1], g[y], t[y]))
    BY <1>4, <1>7, <2>2
  <2> QED
    BY <2>1, <2>3
<1> QED
  BY <1>1, <1>3, <1>7, <1>8, <1>9 DEF TagSum

(* No sequence of statuses is above the table where it is possible.        *)
LEMMA TagsBelow ==
    ASSUME NEW t, NEW n \in Nat, n > 0, NEW rows, NEW tags, TableOf(t, 1, n, rows, tags),
           NEW g \in Seq(Status), Len(g) = n, NEW sum, TagSum(t, g, n, sum),
           sum[n] > MIN_DOUBLE
    PROVE  sum[n] <= rows[n][g[n]].weight
<1>1. /\ \A x \in 1..n : rows[x] \in TagRows /\ g[x] \in Status /\ sum[x] \in Int
      /\ \A y \in Status : rows[1][y] = Start(y, t[1])
      /\ \A x \in 1 + 1..n : \A y \in Status : rows[x][y] = Cell(rows[x - 1], y, t[x])
      /\ sum[1] = Start(g[1], t[1]).weight
      /\ \A x \in 1..n - 1 : sum[x + 1] = Rounded(sum[x] + StepProb(g[x], g[x + 1], t[x + 1]))
  <2>1. /\ rows \in [1..n -> TagRows]
        /\ \A y \in Status : rows[1][y] = Start(y, t[1])
        /\ \A x \in 1 + 1..n : \A y \in Status : rows[x][y] = Cell(rows[x - 1], y, t[x])
    BY DEF TableOf
  <2>2. /\ sum \in [1..n -> Int]
        /\ sum[1] = Start(g[1], t[1]).weight
        /\ \A x \in 1..n - 1 : sum[x + 1] = Rounded(sum[x] + StepProb(g[x], g[x + 1], t[x + 1]))
    BY DEF TagSum
  <2>3. \A x \in 1..n : rows[x] \in TagRows /\ sum[x] \in Int
    BY <2>1, <2>2
  <2>4. \A x \in 1..n : g[x] \in Status
    OBVIOUS
  <2> QED
    BY <2>1, <2>2, <2>3, <2>4
<1> DEFINE V == {x \in 1..n : sum[x] > MIN_DOUBLE => sum[x] <= rows[x][g[x]].weight}
<1>2. 1 \in V
  <2>1. 1 \in 1..n
    OBVIOUS
  <2>2. rows[1][g[1]].weight = sum[1] /\ sum[1] \in Int
    BY <1>1, <2>1
  <2> QED
    BY <2>1, <2>2
<1>3. ASSUME NEW x \in 1..n - 1, x \in V PROVE x + 1 \in V
  <2>1. PICK y \in 1 + 1..n : y = x + 1 /\ y - 1 = x /\ y \in 1..n /\ x \in 1..n
    <3>1. x + 1 \in 1 + 1..n /\ x + 1 - 1 = x /\ x + 1 \in 1..n /\ x \in 1..n
      OBVIOUS
    <3> QED
      BY <3>1
  <2> SUFFICES ASSUME sum[y] > MIN_DOUBLE PROVE sum[y] <= rows[y][g[y]].weight
    BY <2>1
  <2>2. PICK p \in Status, q \in Status : p = g[x] /\ q = g[y]
    BY <1>1, <2>1
  <2>3. PICK old \in TagRows : old = rows[x]
    BY <1>1, <2>1
  <2>4. PICK a \in Int, b \in Int, w \in Int :
          a = sum[x] /\ b = StepProb(p, q, t[y]) /\ b <= 0 /\ w = old[p].weight
    BY <1>1, <2>1, <2>2, <2>3, AfterType, ProbTypes
  <2>5. sum[y] = Rounded(a + b)
    BY <1>1, <2>1, <2>2, <2>4
  <2>6. a > MIN_DOUBLE
    <3>1. ASSUME ~(a > MIN_DOUBLE) PROVE FALSE
      <4>1. a + b \in Int /\ a + b <= MIN_DOUBLE
        BY <2>4, <3>1, MinDoubleType
      <4>2. Rounded(a + b) \in Int /\ Rounded(a + b) <= MIN_DOUBLE
        BY <4>1, RoundedType
      <4> QED
        BY <2>5, <4>2, MinDoubleType
    <3> QED
      BY <3>1
  <2>7. a <= w
    BY <1>3, <2>2, <2>3, <2>4, <2>6
  <2>8. Rounded(a + b) <= Rounded(w + b)
    <3>1. a + b \in Int /\ w + b \in Int /\ a + b <= w + b
      BY <2>4, <2>7
    <3> QED
      BY <3>1, RoundedGrows
  <2>9. PICK h \in Int : h = After(old, p, q, t[y]) /\ h = Rounded(w + b)
    <3>1. After(old, p, q, t[y]) = Rounded(w + b)
      BY <2>4 DEF After
    <3> QED
      BY <3>1, AfterType
  <2>10. sum[y] \in Int /\ sum[y] <= h /\ h > MIN_DOUBLE
    <3>1. sum[y] \in Int /\ sum[y] <= h
      BY <1>1, <2>1, <2>5, <2>8, <2>9
    <3> QED
      BY <3>1, MinDoubleType
  <2>11. PICK c : c = Cell(old, q, t[y])
    OBVIOUS
  <2>12. c \in TagCells /\ h <= c.weight
    <3>1. After(old, p, q, t[y]) > MIN_DOUBLE
      BY <2>9, <2>10
    <3>2. c \in TagCells /\ After(old, p, q, t[y]) <= c.weight
      BY <2>11, <3>1, CellIs
    <3> QED
      BY <2>9, <3>2
  <2>13. c.weight \in Int /\ sum[y] <= c.weight
    <3>1. c.weight \in Int
      BY <2>12 DEF TagCells
    <3> QED
      BY <2>10, <2>12, <3>1
  <2>14. rows[y][g[y]] = c
    BY <1>1, <2>1, <2>2, <2>3, <2>11
  <2> QED
    BY <2>13, <2>14
<1>4. \A x \in 1..n : x \in V
  <2>1. 1 \in Int /\ n \in Int /\ 1 <= n
    OBVIOUS
  <2> HIDE DEF V
  <2> QED
    BY <1>2, <1>3, <2>1, Forward
<1>5. n \in V
  BY <1>4
<1> QED
  BY <1>5

(* The statuses Viterbi goes back along have the table's weights, when the *)
(* last of them is possible.                                               *)
LEMMA TagsOnTable ==
    ASSUME NEW t, NEW n \in Nat, n > 0, NEW rows, NEW tags, TableOf(t, 1, n, rows, tags),
           NEW sum, TagSum(t, tags, n, sum), rows[n][tags[n]].weight > MIN_DOUBLE
    PROVE  sum[n] = rows[n][tags[n]].weight
<1>1. /\ \A x \in 1..n : rows[x] \in TagRows /\ tags[x] \in Status /\ sum[x] \in Int
      /\ \A y \in Status : rows[1][y] = Start(y, t[1])
      /\ \A x \in 1 + 1..n : \A y \in Status : rows[x][y] = Cell(rows[x - 1], y, t[x])
      /\ \A x \in 1..n - 1 : tags[x] = rows[x + 1][tags[x + 1]].path
      /\ sum[1] = Start(tags[1], t[1]).weight
      /\ \A x \in 1..n - 1 :
            sum[x + 1] = Rounded(sum[x] + StepProb(tags[x], tags[x + 1], t[x + 1]))
  <2>1. /\ rows \in [1..n -> TagRows]
        /\ \A y \in Status : rows[1][y] = Start(y, t[1])
        /\ \A x \in 1 + 1..n : \A y \in Status : rows[x][y] = Cell(rows[x - 1], y, t[x])
        /\ tags \in Seq(Status) /\ Len(tags) = n - 1 + 1
        /\ \A x \in 1..n - 1 : tags[x - 1 + 1] = rows[x + 1][tags[x - 1 + 2]].path
    BY DEF TableOf
  <2>2. /\ sum \in [1..n -> Int]
        /\ sum[1] = Start(tags[1], t[1]).weight
        /\ \A x \in 1..n - 1 :
              sum[x + 1] = Rounded(sum[x] + StepProb(tags[x], tags[x + 1], t[x + 1]))
    BY DEF TagSum
  <2>3. \A x \in 1..n : rows[x] \in TagRows /\ sum[x] \in Int
    BY <2>1, <2>2
  <2>4. Len(tags) = n
    BY <2>1
  <2>5. \A x \in 1..n : tags[x] \in Status
    BY <2>1, <2>4
  <2>6. \A x \in 1..n - 1 : x - 1 + 1 = x /\ x - 1 + 2 = x + 1
    OBVIOUS
  <2>7. \A x \in 1..n - 1 : tags[x] = rows[x + 1][tags[x + 1]].path
    BY <2>1, <2>6
  <2> QED
    BY <2>1, <2>2, <2>3, <2>5, <2>7
(* One place back and forth.                                               *)
<1>2. ASSUME NEW x \in 1..n - 1
      PROVE  rows[x + 1][tags[x + 1]].weight > MIN_DOUBLE =>
               /\ rows[x][tags[x]].weight > MIN_DOUBLE
               /\ rows[x + 1][tags[x + 1]].weight
                    = Rounded(rows[x][tags[x]].weight + StepProb(tags[x], tags[x + 1], t[x + 1]))
  <2>1. PICK y \in 1 + 1..n : y = x + 1 /\ y - 1 = x /\ y \in 1..n /\ x \in 1..n
    <3>1. x + 1 \in 1 + 1..n /\ x + 1 - 1 = x /\ x + 1 \in 1..n /\ x \in 1..n
      OBVIOUS
    <3> QED
      BY <3>1
  <2>2. PICK p \in Status, q \in Status : p = tags[x] /\ q = tags[y]
    BY <1>1, <2>1
  <2>3. PICK old \in TagRows : old = rows[x]
    BY <1>1, <2>1
  <2>4. PICK c : c = Cell(old, q, t[y])
    OBVIOUS
  <2>5. rows[y][q] = c
    BY <1>1, <2>1, <2>3, <2>4
  <2>6. p = c.path
    BY <1>1, <2>1, <2>2, <2>5
  <2>7. c.weight > MIN_DOUBLE => c.weight = After(old, p, q, t[y])
    BY <2>4, <2>6, CellIs
  <2>8. After(old, p, q, t[y]) > MIN_DOUBLE => old[p].weight > MIN_DOUBLE
    BY AfterType
  <2>9. After(old, p, q, t[y]) = Rounded(old[p].weight + StepProb(p, q, t[y]))
    BY DEF After
  <2>10. c.weight > MIN_DOUBLE =>
           /\ old[p].weight > MIN_DOUBLE
           /\ c.weight = Rounded(old[p].weight + StepProb(p, q, t[y]))
    BY <2>7, <2>8, <2>9
  <2> QED
    BY <2>1, <2>2, <2>3, <2>5, <2>10
<1> DEFINE V == {x \in 1..n : rows[x][tags[x]].weight > MIN_DOUBLE}
<1>3. \A x \in 1..n : x \in V
  <2>1. PICK m \in Int : m = n - 1 /\ m + 1 = n /\ 1 <= m + 1 /\ 1 \in Int
    OBVIOUS
  <2>2. m + 1 \in V
    BY <2>1
  <2>3. ASSUME NEW x \in 1..m, \A y \in x + 1..m + 1 : y \in V PROVE x \in V
    <3>1. x \in 1..n - 1 /\ x + 1 \in x + 1..m + 1 /\ x \in 1..n
      BY <2>1
    <3>2. x + 1 \in V
      BY <2>3, <3>1
    <3> QED
      BY <1>2, <3>1, <3>2
  <2>4. \A x \in 1..m + 1 : x \in V
    <3> HIDE DEF V
    <3> QED
      BY <2>1, <2>2, <2>3, Backward
  <2> QED
    BY <2>1, <2>4
<1> DEFINE T == {x \in 1..n : sum[x] = rows[x][tags[x]].weight}
<1>4. 1 \in T
  <2>1. 1 \in 1..n
    OBVIOUS
  <2> QED
    BY <1>1, <2>1
<1>5. ASSUME NEW x \in 1..n - 1, x \in T PROVE x + 1 \in T
  <2>1. x + 1 \in 1..n
    OBVIOUS
  <2>2. rows[x + 1][tags[x + 1]].weight > MIN_DOUBLE
    BY <1>3, <2>1
  <2>3. sum[x + 1] = Rounded(sum[x] + StepProb(tags[x], tags[x + 1], t[x + 1]))
    BY <1>1
  <2>4. sum[x] = rows[x][tags[x]].weight
    BY <1>5
  <2>5. sum[x + 1] = rows[x + 1][tags[x + 1]].weight
    BY <1>2, <2>2, <2>3, <2>4
  <2> QED
    BY <2>1, <2>5
<1>6. \A x \in 1..n : x \in T
  <2>1. 1 \in Int /\ n \in Int /\ 1 <= n
    OBVIOUS
  <2> HIDE DEF T
  <2> QED
    BY <1>4, <1>5, <2>1, Forward
<1>7. n \in T
  BY <1>6
<1> QED
  BY <1>7

(* Viterbi's statuses weigh no less than any possible ones.                *)
LEMMA ViterbiMostLikely ==
    ASSUME NEW t, NEW n \in Nat, n > 0, NEW g \in Seq(Status), Len(g) = n,
           g[n] \in {E, S}, TagWeight(t, g) > MIN_DOUBLE
    PROVE  TagWeight(t, g) <= TagWeight(t, Viterbi(t, 1, n))
<1>1. PICK tags : tags = Viterbi(t, 1, n)
  OBVIOUS
<1>2. PICK rows : TableOf(t, 1, n, rows, tags)
  <2>1. 1 \in Int /\ n \in Int /\ 1 <= n
    OBVIOUS
  <2> QED
    BY <1>1, <2>1, ViterbiIs
<1>3. /\ rows \in [1..n -> TagRows]
      /\ tags \in Seq(Status) /\ Len(tags) = n
      /\ tags[n] = EndStatus([y \in Status |-> rows[n][y].weight])
  <2>1. n - 1 + 1 = n
    OBVIOUS
  <2> QED
    BY <1>2, <2>1 DEF TableOf
<1>4. PICK sum : TagSum(t, g, n, sum) /\ TagWeight(t, g) = sum[n]
  BY TagWeightIs
<1>5. PICK sum2 : TagSum(t, tags, n, sum2) /\ TagWeight(t, tags) = sum2[n]
  BY <1>3, TagWeightIs
<1>6. sum[n] \in Int /\ sum[n] > MIN_DOUBLE /\ sum[n] <= rows[n][g[n]].weight
  <2>1. sum[n] \in Int
    BY <1>4 DEF TagSum
  <2>2. sum[n] > MIN_DOUBLE
    BY <1>4
  <2> QED
    BY <1>2, <1>4, <2>1, <2>2, TagsBelow
<1>7. \A y \in Status : rows[n][y].weight \in Int
  <2>1. n \in 1..n
    OBVIOUS
  <2>2. rows[n] \in TagRows
    BY <1>3, <2>1
  <2> QED
    BY <2>2, AfterType
<1>8. rows[n][g[n]].weight <= rows[n][tags[n]].weight /\ tags[n] \in Status /\ g[n] \in Status
  <2>1. E \in Status /\ S \in Status
    BY StatusIs
  <2>2. PICK a \in Int, b \in Int : a = rows[n][E].weight /\ b = rows[n][S].weight
    BY <1>7, <2>1
  <2>3. tags[n] = IF a >= b THEN E ELSE S
    BY <1>3, <2>1, <2>2 DEF EndStatus
  <2>4. CASE a >= b
    BY <2>1, <2>2, <2>3, <2>4
  <2>5. CASE ~(a >= b)
    BY <2>1, <2>2, <2>3, <2>5
  <2> QED
    BY <2>4, <2>5
<1>9. rows[n][tags[n]].weight > MIN_DOUBLE
  BY <1>6, <1>7, <1>8, MinDoubleType
<1>10. sum2[n] = rows[n][tags[n]].weight
  BY <1>2, <1>5, <1>9, TagsOnTable
<1> QED
  BY <1>1, <1>4, <1>5, <1>6, <1>7, <1>8, <1>10

-----------------------------------------------------------------------------
(* The number of runes of a text.                                          *)
LEMMA RunesType ==
    ASSUME NEW x \in Seq(Byte)
    PROVE  Len(RunesOf(x)) \in Nat
<1>1. PICK d : d = DecodeRunesInString(x)
  OBVIOUS
<1>2. PICK R : d \in Seq(R)
  <2>1. Len(x) \in Nat
    OBVIOUS
  <2> QED
    BY <1>1, <2>1, DecodeChain
<1>3. RunesOf(x) = [i \in 1..Len(d) |-> d[i].rune] /\ Len(d) \in Nat
  BY <1>1, <1>2 DEF RunesOf
<1> QED
  BY <1>3

(* The dynamic program finds a heaviest path through the dictionary among  *)
(* all of them, whatever the dictionaries and the text.                    *)
THEOREM SegmentationIsBest == TextSpec => []BestSegmentation
<1>1. TextIInv => BestSegmentation
  <2> SUFFICES ASSUME TextIInv, NEW t, t = RunesOf(content), NEW piece \in Range(PreFilter(t))
               PROVE  Heaviest(t, piece[1], piece[2],
                               {w[1] : w \in Range(MPCut(t, piece[1], piece[2]))})
    BY DEF BestSegmentation
  <2>1. PICK n \in Nat : n = Len(t)
    BY RunesType DEF TextIInv, DescIInv
  <2>2. PICK c : c = PreFilter(t)
    OBVIOUS
  <2>3. Covers(c, 1, n)
    BY <2>1, <2>2, PreFilterCovers
  <2>4. PICK k \in 1..Len(c) : piece = c[k]
    <3>1. DOMAIN c = 1..Len(c)
      BY <2>3 DEF Covers
    <3> QED
      BY <2>2, <3>1 DEF Range
  <2>5. PICK l \in Int, r \in Int : l = piece[1] /\ r = piece[2] /\ 1 <= l /\ l <= r
    BY <2>3, <2>4, SpanType DEF Covers
  <2>6. Heaviest(t, l, r, Starts(MPCut(t, l, r)))
    BY <2>5, MPCutHeaviest
  <2> QED
    BY <2>5, <2>6 DEF Starts
<1> QED
  BY <1>1, TextInvariance, PTL

(* The statuses of a text beyond ASCII are a most likely sequence that     *)
(* ends a word, whatever the model and the text.                           *)
THEOREM TagsAreMostLikely == TextSpec => []MostLikelyTags
<1>1. TextIInv => MostLikelyTags
  <2> SUFFICES ASSUME TextIInv, NEW t, t = RunesOf(content), NEW n, n = Len(t), n > 0,
                      NEW g \in [1..n -> Status], g[n] \in {E, S}, TagWeight(t, g) > MIN_DOUBLE
               PROVE  TagWeight(t, g) <= TagWeight(t, Viterbi(t, 1, n))
    BY DEF MostLikelyTags
  <2>1. n \in Nat
    BY RunesType DEF TextIInv, DescIInv
  <2>2. g \in Seq(Status) /\ Len(g) = n
    BY <2>1
  <2> QED
    BY <2>1, <2>2, ViterbiMostLikely
<1> QED
  BY <1>1, TextInvariance, PTL
=============================================================================
