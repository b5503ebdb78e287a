------------------------- MODULE MultipartProofs ----------------------------
(***************************************************************************)
(* Proofs about the parser of multipart forms, for every boundary, every   *)
(* form and every division of what the client writes into the pieces that  *)
(* the server reads.  The loop of parse always ends.  On a form whose      *)
(* contents do not hold the boundary it never fails.  And when all of the  *)
(* form has been read and its contents are Separable, the parser is done   *)
(* and has exactly the parts that were sent.                               *)
(*                                                                         *)
(* Names used throughout: w is the text of a form, n the number of its     *)
(* parts, o[i] where part i begins in w, d the length of two dashes and    *)
(* the boundary, m how many characters of w the parser has been fed and c  *)
(* how many of them it has taken.                                          *)
(***************************************************************************)
EXTENDS Multipart, FiniteSetTheorems, SequenceLemmas

(* A sequence over a set is one over every larger set.                     *)
LEMMA SeqLarger ==
    ASSUME NEW S, NEW T, S \subseteq T, NEW s \in Seq(S)
    PROVE  s \in Seq(T)
<1>1. Len(s) \in Nat /\ s \in [1..Len(s) -> S]
  OBVIOUS
<1>2. s \in [1..Len(s) -> T]
  BY <1>1
<1> QED
  BY <1>1, <1>2

(* Erase drops the first n elements and moves the others down.             *)
LEMMA EraseType ==
    ASSUME NEW S, NEW s \in Seq(S), NEW n \in 0..Len(s)
    PROVE  /\ Erase(s, n) \in Seq(S)
           /\ Len(Erase(s, n)) = Len(s) - n
           /\ \A k \in 1..Len(s) - n : Erase(s, n)[k] = s[n + k]
<1>1. n + 1 \in Int /\ Len(s) \in Int /\ \A i \in n + 1..Len(s) : s[i] \in S
  OBVIOUS
<1>2. /\ SubSeq(s, n + 1, Len(s)) \in Seq(S)
      /\ Len(SubSeq(s, n + 1, Len(s))) = IF n + 1 <= Len(s) THEN Len(s) - (n + 1) + 1 ELSE 0
      /\ \A i \in 1..Len(s) - (n + 1) + 1 : SubSeq(s, n + 1, Len(s))[i] = s[n + 1 + i - 1]
  BY <1>1, SubSeqProperties
<1>3. PICK m \in Nat : m = Len(s)
  OBVIOUS
<1>4. /\ (IF n + 1 <= m THEN m - (n + 1) + 1 ELSE 0) = m - n
      /\ m - (n + 1) + 1 = m - n
      /\ \A i \in 1..m - n : n + 1 + i - 1 = n + i
  BY <1>3
<1> QED
  BY <1>2, <1>3, <1>4 DEF Erase

-----------------------------------------------------------------------------
(* The parser of forms.  Every turn keeps the types, and one that goes on  *)
(* takes characters from the buffer or leaves state 1.                     *)
PartSet == [name : Chars, content : Seq(Chars)]
Weight(q) == Len(q.buf) + Len(q.buf) + (IF q.state = 1 THEN 1 ELSE 0)

(* The state of a parser but for its loop.                                 *)
LEMMA ParserFields ==
    ASSUME NEW q \in Parsers
    PROVE  /\ q.state \in 0..5 /\ q.buf \in Seq(Chars) /\ Len(q.buf) \in Nat /\ q.valid \in BOOLEAN
           /\ q.loop \in {"go", "wait", "fail"} /\ q.name \in Chars /\ q.parts \in Seq(PartSet)
  BY DEF Parsers, PartSet

(* Take sets the state and takes n characters from the buffer, and nothing *)
(* else.                                                                   *)
LEMMA TakeType ==
    ASSUME NEW q \in Parsers, NEW n \in 0..Len(q.buf), NEW s \in 0..5
    PROVE  /\ Take(q, n, s) \in Parsers
           /\ Take(q, n, s).loop = q.loop
           /\ Take(q, n, s).state = s
           /\ Take(q, n, s).valid = q.valid
           /\ Take(q, n, s).name = q.name
           /\ Take(q, n, s).parts = q.parts
           /\ Take(q, n, s).buf = Erase(q.buf, n)
           /\ Len(Take(q, n, s).buf) = Len(q.buf) - n
<1>1. Erase(q.buf, n) \in Seq(Chars) /\ Len(Erase(q.buf, n)) = Len(q.buf) - n
  BY ParserFields, EraseType
<1>2. Take(q, n, s) = [state |-> s, buf |-> Erase(q.buf, n), valid |-> q.valid, loop |-> q.loop,
                       name |-> q.name, parts |-> q.parts]
  <2>1. PICK e : e = Erase(q.buf, n)
    OBVIOUS
  <2>2. Take(q, n, s) = [q EXCEPT !.buf = e, !.state = s]
    BY <2>1 DEF Take
  <2> QED
    BY <2>1, <2>2 DEF Parsers
<1> QED
  BY <1>1, <1>2, ParserFields DEF Parsers, PartSet

(* The last part with more content.                                        *)
Longer(parts, text) == [parts EXCEPT ![Len(parts)].content = @ \o text]

(* Only the last part gets content, and it keeps what it had.              *)
LEMMA LongerType ==
    ASSUME NEW parts \in Seq(PartSet), NEW text \in Seq(Chars)
    PROVE  /\ Longer(parts, text) \in Seq(PartSet)
           /\ Len(Longer(parts, text)) = Len(parts)
           /\ \A k \in 1..Len(parts) :
                 Longer(parts, text)[k] =
                    IF k = Len(parts)
                    THEN [name |-> parts[k].name, content |-> parts[k].content \o text]
                    ELSE parts[k]
<1>1. PICK l \in Nat : l = Len(parts) /\ DOMAIN parts = 1..l
  OBVIOUS
<1>2. ASSUME NEW k \in 1..l
      PROVE  /\ parts[k] \in PartSet
             /\ parts[k].content \o text \in Seq(Chars)
             /\ parts[k].name \in Chars
  <2>1. parts[k] \in PartSet
    BY <1>1
  <2>2. parts[k].content \in Seq(Chars) /\ parts[k].name \in Chars
    BY <2>1 DEF PartSet
  <2> QED
    BY <2>1, <2>2
<1>3. ASSUME NEW k \in 1..l
      PROVE  Longer(parts, text)[k] =
                IF k = l THEN [name |-> parts[k].name, content |-> parts[k].content \o text]
                ELSE parts[k]
  <2>1. parts[k] \in PartSet
    BY <1>2
  <2>2. PICK c : c = parts[k].content \o text
    OBVIOUS
  <2>3. [parts[k] EXCEPT !.content = c] = [name |-> parts[k].name, content |-> c]
    BY <2>1 DEF PartSet
  <2>4. k = l => Longer(parts, text)[k] = [parts[k] EXCEPT !.content = c]
    BY <1>1, <2>2 DEF Longer
  <2>5. k # l => Longer(parts, text)[k] = parts[k]
    BY <1>1 DEF Longer
  <2> QED
    BY <2>2, <2>3, <2>4, <2>5
<1>4. DOMAIN Longer(parts, text) = 1..l /\ Longer(parts, text) = [k \in 1..l |-> Longer(parts, text)[k]]
  BY <1>1 DEF Longer
<1>5. \A k \in 1..l : Longer(parts, text)[k] \in PartSet
  <2> SUFFICES ASSUME NEW k \in 1..l PROVE Longer(parts, text)[k] \in PartSet
    OBVIOUS
  <2>1. [name |-> parts[k].name, content |-> parts[k].content \o text] \in PartSet
    BY <1>2 DEF PartSet
  <2> QED
    BY <1>2, <1>3, <2>1
<1>6. Longer(parts, text) \in [1..l -> PartSet]
  BY <1>4, <1>5
<1> QED
  BY <1>1, <1>3, <1>4, <1>6

(* Content moves n characters from the buffer to the last part.            *)
LEMMA ContentType ==
    ASSUME NEW q \in Parsers, NEW n \in 0..Len(q.buf)
    PROVE  /\ Content(q, n) \in Parsers
           /\ Content(q, n).loop = q.loop
           /\ Content(q, n).state = q.state
           /\ Content(q, n).valid = q.valid
           /\ Content(q, n).name = q.name
           /\ Content(q, n).parts = Longer(q.parts, Begin(q.buf, n))
           /\ Content(q, n).buf = Erase(q.buf, n)
           /\ Len(Content(q, n).buf) = Len(q.buf) - n
<1>1. Erase(q.buf, n) \in Seq(Chars) /\ Len(Erase(q.buf, n)) = Len(q.buf) - n
  BY ParserFields, EraseType
<1>2. Begin(q.buf, n) \in Seq(Chars)
  <2>1. \A i \in 1..n : q.buf[i] \in Chars
    BY ParserFields
  <2>2. n \in Int
    BY ParserFields
  <2> QED
    BY <2>1, <2>2, SubSeqProperties DEF Begin
<1>3. Longer(q.parts, Begin(q.buf, n)) \in Seq(PartSet)
  BY <1>2, ParserFields, LongerType
<1>4. Content(q, n) = [state |-> q.state, buf |-> Erase(q.buf, n), valid |-> q.valid,
                       loop |-> q.loop, name |-> q.name,
                       parts |-> Longer(q.parts, Begin(q.buf, n))]
  <2>1. PICK e, l : e = Erase(q.buf, n) /\ l = Longer(q.parts, Begin(q.buf, n))
    OBVIOUS
  <2>2. Content(q, n) = [q EXCEPT !.parts = l, !.buf = e]
    BY <2>1 DEF Content, Longer
  <2> QED
    BY <2>1, <2>2 DEF Parsers
<1> QED
  BY <1>1, <1>3, <1>4, ParserFields DEF Parsers, PartSet

(* Wait and Fail end the loop and change nothing else.                     *)
LEMMA StopType ==
    ASSUME NEW q \in Parsers
    PROVE  /\ Wait(q) \in Parsers /\ Wait(q).loop = "wait"
           /\ Wait(q).state = q.state /\ Wait(q).buf = q.buf /\ Wait(q).valid = q.valid
           /\ Wait(q).name = q.name /\ Wait(q).parts = q.parts
           /\ Fail(q) \in Parsers /\ Fail(q).loop = "fail"
  BY DEF Wait, Fail, Parsers

(* Where the elements of s and t are in their concatenation.               *)
LEMMA ConcatIs ==
    ASSUME NEW S, NEW s \in Seq(S), NEW t \in Seq(S), NEW w, w = s \o t,
           NEW m, m = Len(s), NEW n, n = Len(t)
    PROVE  /\ w \in Seq(S) /\ m \in Nat /\ n \in Nat /\ Len(w) = m + n
           /\ \A k \in 1..m : w[k] = s[k]
           /\ \A k \in 1..n : w[m + k] = t[k]
<1>1. w \in Seq(S) /\ m \in Nat /\ n \in Nat /\ Len(w) = m + n
  OBVIOUS
<1>2. ASSUME NEW k \in 1..m PROVE w[k] = s[k]
  BY <1>1
<1>3. ASSUME NEW k \in 1..n PROVE w[m + k] = t[k]
  BY <1>1
<1> QED
  BY <1>1, <1>2, <1>3

-----------------------------------------------------------------------------
(* The pattern stands in s after p characters.                             *)
Occurs(s, pattern, p) ==
    p \in 0..Len(s) - Len(pattern) /\ \A j \in 1..Len(pattern) : s[p + j] = pattern[j]

(* find returns the first such p, or npos.                                 *)
LEMMA FindIs ==
    ASSUME NEW S, NEW s \in Seq(S), NEW pattern \in Seq(S), NEW f, f = Find(s, pattern)
    PROVE  \/ f = npos /\ f \notin Nat /\ \A p : ~Occurs(s, pattern, p)
           \/ /\ f # npos /\ f \in 0..Len(s) - Len(pattern) /\ Occurs(s, pattern, f)
              /\ \A p : Occurs(s, pattern, p) => f <= p
<1>1. PICK l \in Nat, n \in Nat : l = Len(s) /\ n = Len(pattern)
  OBVIOUS
<1>2. PICK at : at = {p \in 0..l - n : SubSeq(s, p + 1, p + n) = pattern}
  OBVIOUS
<1>3. ASSUME NEW p \in 0..l - n
      PROVE  SubSeq(s, p + 1, p + n) = pattern <=> \A j \in 1..n : s[p + j] = pattern[j]
  <2>1. \A i \in p + 1..p + n : s[i] \in S
    BY <1>1
  <2>2. /\ SubSeq(s, p + 1, p + n) \in Seq(S)
        /\ Len(SubSeq(s, p + 1, p + n)) = IF p + 1 <= p + n THEN p + n - (p + 1) + 1 ELSE 0
        /\ \A i \in 1..p + n - (p + 1) + 1 : SubSeq(s, p + 1, p + n)[i] = s[p + 1 + i - 1]
    BY <1>1, <2>1, SubSeqProperties
  <2>3. PICK c : c = SubSeq(s, p + 1, p + n)
    OBVIOUS
  <2>4. c \in Seq(S) /\ Len(c) = n /\ \A i \in 1..n : c[i] = s[p + i]
    <3>1. p + n - (p + 1) + 1 = n /\ \A i \in 1..n : p + 1 + i - 1 = p + i
      BY <1>1
    <3>2. (IF p + 1 <= p + n THEN n ELSE 0) = n
      BY <1>1
    <3> QED
      BY <2>2, <2>3, <3>1, <3>2
  <2>5. (\A j \in 1..n : c[j] = pattern[j]) => c = pattern
    BY <1>1, <2>4, SeqEqual
  <2> QED
    BY <2>3, <2>4, <2>5
<1>4. \A p : Occurs(s, pattern, p) <=> p \in at
  BY <1>1, <1>2, <1>3 DEF Occurs
<1>5. f = IF at = {} THEN npos ELSE CHOOSE p \in at : \A q \in at : p <= q
  BY <1>1, <1>2 DEF Find
<1>6. CASE at = {}
  BY <1>4, <1>5, <1>6 DEF npos
<1>7. CASE at # {}
  <2>1. at \in SUBSET Nat
    BY <1>2
  <2>2. \E p \in at : \A q \in at : p <= q
    BY <1>7, <2>1, LeastElement
  <2>3. f \in at /\ \A q \in at : f <= q
    BY <1>5, <1>7, <2>2, Zenon
  <2>4. f \in 0..l - n /\ f # npos
    BY <1>2, <2>3 DEF npos
  <2> QED
    BY <1>1, <1>4, <2>3, <2>4
<1> QED
  BY <1>6, <1>7

(* The patterns of the parser.                                             *)
Delim == crlf_ \o dash_ \o boundary_
Opening == dash_ \o boundary_ \o crlf_

(* The strings the parser looks for, character by character.               *)
LEMMA Patterns ==
    ASSUME NEW b, b = Len(boundary_)
    PROVE  /\ b \in Nat
           /\ boundary_ \in Seq(Chars)
           /\ crlf_ \in Seq(Chars) /\ Len(crlf_) = 2 /\ crlf_[1] = "CR" /\ crlf_[2] = "LF"
           /\ dash_ \in Seq(Chars) /\ Len(dash_) = 2 /\ dash_[1] = "-" /\ dash_[2] = "-"
           /\ crlf_ \o dash_ \in Seq(Chars) /\ Len(crlf_ \o dash_) = 4
           /\ (crlf_ \o dash_)[1] = "CR" /\ (crlf_ \o dash_)[2] = "LF"
           /\ (crlf_ \o dash_)[3] = "-" /\ (crlf_ \o dash_)[4] = "-"
           /\ dash_ \o crlf_ \in Seq(Chars) /\ Len(dash_ \o crlf_) = 4
           /\ (dash_ \o crlf_)[1] = "-" /\ (dash_ \o crlf_)[2] = "-"
           /\ (dash_ \o crlf_)[3] = "CR" /\ (dash_ \o crlf_)[4] = "LF"
<1>1. boundary_ \in Seq(Chars)
  BY MultipartAssumption
<1>2. "CR" \in Chars /\ "LF" \in Chars /\ "-" \in Chars
  BY DEF Chars
<1>3. b \in Nat
  BY <1>1
<1>4. crlf_ \in Seq(Chars) /\ Len(crlf_) = 2 /\ crlf_[1] = "CR" /\ crlf_[2] = "LF"
  BY <1>2 DEF crlf_
<1>5. dash_ \in Seq(Chars) /\ Len(dash_) = 2 /\ dash_[1] = "-" /\ dash_[2] = "-"
  BY <1>2 DEF dash_
<1>6. PICK c, d : c = crlf_ /\ d = dash_
  OBVIOUS
<1>7. ASSUME NEW u \in Seq(Chars), NEW v \in Seq(Chars), Len(u) = 2, Len(v) = 2
      PROVE  /\ u \o v \in Seq(Chars) /\ Len(u \o v) = 4
             /\ (u \o v)[1] = u[1] /\ (u \o v)[2] = u[2]
             /\ (u \o v)[3] = v[1] /\ (u \o v)[4] = v[2]
  <2>1. PICK w : w = u \o v
    OBVIOUS
  <2>2. /\ w \in Seq(Chars) /\ Len(w) = 2 + 2
        /\ \A k \in 1..2 : w[k] = u[k]
        /\ \A k \in 1..2 : w[2 + k] = v[k]
    <3>1. PICK m, n : m = Len(u) /\ n = Len(v)
      OBVIOUS
    <3>2. /\ w \in Seq(Chars) /\ Len(w) = m + n
          /\ \A k \in 1..m : w[k] = u[k]
          /\ \A k \in 1..n : w[m + k] = v[k]
      BY <2>1, <3>1, ConcatIs
    <3>3. m = 2 /\ n = 2
      BY <1>7, <3>1
    <3> QED
      BY <3>2, <3>3
  <2>3. 1 \in 1..2 /\ 2 \in 1..2 /\ 2 + 1 = 3 /\ 2 + 2 = 4
    OBVIOUS
  <2> QED
    BY <2>1, <2>2, <2>3
<1>8. c \in Seq(Chars) /\ Len(c) = 2 /\ d \in Seq(Chars) /\ Len(d) = 2
  BY <1>4, <1>5, <1>6
<1>9. /\ c \o d \in Seq(Chars) /\ Len(c \o d) = 4
      /\ (c \o d)[1] = c[1] /\ (c \o d)[2] = c[2]
      /\ (c \o d)[3] = d[1] /\ (c \o d)[4] = d[2]
  BY <1>7, <1>8
<1>10. /\ d \o c \in Seq(Chars) /\ Len(d \o c) = 4
       /\ (d \o c)[1] = d[1] /\ (d \o c)[2] = d[2]
       /\ (d \o c)[3] = c[1] /\ (d \o c)[4] = c[2]
  BY <1>7, <1>8
<1> QED
  BY <1>1, <1>3, <1>4, <1>5, <1>6, <1>9, <1>10, Zenon

(* The delimiter is CR LF, two dashes and the boundary.                    *)
LEMMA DelimIs ==
    ASSUME NEW b, b = Len(boundary_)
    PROVE  /\ Delim \in Seq(Chars) /\ Len(Delim) = 4 + b
           /\ Delim[1] = "CR" /\ Delim[2] = "LF" /\ Delim[3] = "-" /\ Delim[4] = "-"
           /\ \A j \in 1..b : Delim[4 + j] = boundary_[j]
<1>1. PICK s : s = crlf_ \o dash_
  OBVIOUS
<1>2. Delim = s \o boundary_
  BY <1>1 DEF Delim
<1> QED
  BY <1>1, <1>2, Patterns

(* A form opens with two dashes, the boundary and CR LF.                   *)
LEMMA OpeningIs ==
    ASSUME NEW b, b = Len(boundary_)
    PROVE  /\ Opening \in Seq(Chars) /\ Len(Opening) = 4 + b
           /\ Opening[1] = "-" /\ Opening[2] = "-"
           /\ \A j \in 1..b : Opening[2 + j] = boundary_[j]
           /\ Opening[2 + b + 1] = "CR" /\ Opening[2 + b + 2] = "LF"
<1>1. PICK s : s = dash_ \o boundary_
  OBVIOUS
<1>2. /\ s \in Seq(Chars) /\ Len(s) = 2 + b /\ s[1] = "-" /\ s[2] = "-"
      /\ \A j \in 1..b : s[2 + j] = boundary_[j]
  BY <1>1, Patterns
<1>3. Opening = s \o crlf_
  BY <1>1 DEF Opening
<1> QED
  BY <1>2, <1>3, Patterns

(* What SurePart takes for content: all before CR LF "--", or before the   *)
(* characters at the end that may begin it.                                *)
Sure(s, n) ==
    LET f == Find(s, crlf_ \o dash_)
    IN  /\ n \in 0..Len(s)
        /\ f # npos => n = f
        /\ f = npos => (n > 0 => s[n] \notin Mutable) /\ \A k \in n + 1..Len(s) : s[k] \in Mutable

(* SurePart computes such a place for every buffer.                        *)
LEMMA SureIs ==
    ASSUME NEW s \in Seq(Chars)
    PROVE  Sure(s, SurePart(s))
<1>1. PICK f : f = Find(s, crlf_ \o dash_)
  OBVIOUS
<1>2. PICK l \in Nat : l = Len(s)
  OBVIOUS
<1>3. CASE f # npos
  <2>1. f \in 0..l
    <3>1. PICK c : c = crlf_ \o dash_ /\ c \in Seq(Chars) /\ Len(c) = 4
      BY Patterns
    <3>2. f \in 0..Len(s) - Len(c)
      BY <1>1, <1>3, <3>1, FindIs
    <3> QED
      BY <1>2, <3>1, <3>2
  <2> QED
    BY <1>1, <1>2, <1>3, <2>1 DEF Sure, SurePart
<1>4. CASE f = npos
  <2> DEFINE N == {n \in 0..l : \A k \in n + 1..l : s[k] \in Mutable}
  <2>1. l \in N /\ N \in SUBSET Nat
    OBVIOUS
  <2>2. PICK n \in N : \A m \in N : n <= m
    BY <2>1, LeastElement
  <2>3. n \in 0..l /\ \A k \in n + 1..l : s[k] \in Mutable
    OBVIOUS
  <2>4. ASSUME n > 0, s[n] \in Mutable PROVE FALSE
    <3>1. PICK m \in 0..l : m = n - 1
      BY <2>3, <2>4
    <3>2. \A k \in m + 1..l : k = n \/ k \in n + 1..l
      BY <2>3, <3>1
    <3>3. m \in N
      BY <2>3, <2>4, <3>1, <3>2
    <3> QED
      BY <2>2, <2>3, <3>1, <3>3
  <2>5. \E x \in 0..l : (x > 0 => s[x] \notin Mutable) /\ \A k \in x + 1..l : s[k] \in Mutable
    BY <2>3, <2>4
  <2>6. SurePart(s) = CHOOSE x \in 0..l :
                          (x > 0 => s[x] \notin Mutable) /\ \A k \in x + 1..l : s[k] \in Mutable
    BY <1>1, <1>2, <1>4 DEF SurePart
  <2> HIDE DEF N
  <2>7. /\ SurePart(s) \in 0..l
        /\ SurePart(s) > 0 => s[SurePart(s)] \notin Mutable
        /\ \A k \in SurePart(s) + 1..l : s[k] \in Mutable
    BY <2>5, <2>6, Zenon
  <2> QED
    BY <1>1, <1>2, <1>4, <2>7 DEF Sure
<1> QED
  BY <1>3, <1>4

-----------------------------------------------------------------------------
(* What a turn does in state 3: r is the parser after the sure part of the *)
(* buffer, and pos is where the boundary stands in the rest.               *)
BodyMoves(q, t, n, r, pos) ==
    /\ n = SurePart(q.buf) /\ Sure(q.buf, n)
    /\ r = Content(q, n) /\ r \in Parsers
    /\ pos = Find(r.buf, Delim)
    /\ \/ Len(q.buf) < 4 /\ t = Wait(q)
       \/ Len(q.buf) >= 4 /\ Len(r.buf) < Len(Delim) /\ t = Wait(r)
       \/ /\ Len(q.buf) >= 4 /\ Len(r.buf) >= Len(Delim) /\ pos # npos
          /\ t = Take(Content(r, pos), Len(Delim), 4)
       \/ /\ Len(q.buf) >= 4 /\ Len(r.buf) >= Len(Delim) /\ pos = npos
          /\ t = Content(r, Len(Delim))

(* In state 3 the sure part becomes content, then the boundary is taken if *)
(* it is there.                                                            *)
LEMMA BodyTurn ==
    ASSUME NEW q \in Parsers
    PROVE  \E n, r, pos : BodyMoves(q, Body(q), n, r, pos)
<1>1. PICK n, r, pos, t, c :
         /\ n = SurePart(q.buf) /\ r = Content(q, n) /\ pos = Find(r.buf, Delim) /\ t = Body(q)
         /\ c = crlf_ \o dash_
  OBVIOUS
<1>2. q.buf \in Seq(Chars) /\ Len(q.buf) \in Nat
  BY ParserFields
<1>3. Sure(q.buf, n)
  BY <1>1, <1>2, SureIs
<1>4. n \in 0..Len(q.buf)
  BY <1>3, Zenon DEF Sure
<1>5. r \in Parsers /\ Len(r.buf) = Len(q.buf) - n
  BY <1>1, <1>4, ContentType
<1>6. Len(c) = 4 /\ Len(Delim) \in Nat /\ Len(Delim) >= 4
  <2>1. PICK b : b = Len(boundary_)
    OBVIOUS
  <2>2. b \in Nat /\ Len(Delim) = 4 + b /\ Len(c) = 4
    BY <1>1, <2>1, Patterns, DelimIs
  <2> QED
    BY <2>2
<1>7. Len(r.buf) \in Nat /\ Len(r.buf) <= Len(q.buf)
  BY <1>2, <1>4, <1>5, ParserFields
<1>8. t = CASE Len(c) > Len(q.buf) -> Wait(q)
            [] Len(c) <= Len(q.buf) /\ Len(Delim) > Len(r.buf) -> Wait(r)
            [] Len(Delim) <= Len(r.buf) /\ pos # npos -> Take(Content(r, pos), Len(Delim), 4)
            [] OTHER -> Content(r, Len(Delim))
  BY <1>1 DEF Body, Delim
<1>9. \/ Len(q.buf) < 4 /\ t = Wait(q)
      \/ Len(q.buf) >= 4 /\ Len(r.buf) < Len(Delim) /\ t = Wait(r)
      \/ /\ Len(q.buf) >= 4 /\ Len(r.buf) >= Len(Delim) /\ pos # npos
         /\ t = Take(Content(r, pos), Len(Delim), 4)
      \/ /\ Len(q.buf) >= 4 /\ Len(r.buf) >= Len(Delim) /\ pos = npos
         /\ t = Content(r, Len(Delim))
  <2>1. PICK a \in Nat, b \in Nat, d \in Nat :
           a = Len(q.buf) /\ b = Len(r.buf) /\ d = Len(Delim) /\ b <= a /\ d >= 4
    BY <1>2, <1>6, <1>7
  <2>2. t = CASE 4 > a -> Wait(q)
              [] 4 <= a /\ d > b -> Wait(r)
              [] d <= b /\ pos # npos -> Take(Content(r, pos), d, 4)
              [] OTHER -> Content(r, d)
    BY <1>6, <1>8, <2>1
  <2>3. \/ a < 4 /\ t = Wait(q)
        \/ a >= 4 /\ b < d /\ t = Wait(r)
        \/ a >= 4 /\ b >= d /\ pos # npos /\ t = Take(Content(r, pos), d, 4)
        \/ a >= 4 /\ b >= d /\ pos = npos /\ t = Content(r, d)
    BY <2>1, <2>2
  <2> QED
    BY <2>1, <2>3
<1> QED
  BY <1>1, <1>3, <1>5, <1>9 DEF BodyMoves

(* And in the other states.                                                *)
HeadersMoves(q, t, pos) ==
    \/ pos = npos /\ t = Wait(q)
    \/ /\ pos = 0 /\ 2 <= Len(q.buf)
       /\ t = Take([q EXCEPT !.parts = Append(@, [name |-> q.name, content |-> <<>>])], 2, 3)
    \/ /\ pos \in Nat \ {0} /\ pos + 2 <= Len(q.buf)
       /\ t = Take([q EXCEPT !.name = IF pos = 1 /\ q.buf[1] \in Names THEN q.buf[1] ELSE @],
                   pos + 2, 2)

(* In state 2 one header line is taken, or the blank line that ends the    *)
(* headers.                                                                *)
LEMMA HeadersTurn ==
    ASSUME NEW q \in Parsers, NEW t, t = Headers(q), NEW pos, pos = Find(q.buf, crlf_)
    PROVE  HeadersMoves(q, t, pos)
<1>1. q.buf \in Seq(Chars) /\ crlf_ \in Seq(Chars) /\ Len(crlf_) = 2 /\ Len(q.buf) \in Nat
  BY ParserFields, Patterns
<1>2. \/ pos = npos /\ pos \notin Nat
      \/ pos # npos /\ pos \in 0..Len(q.buf) - 2
  <2>1. PICK c : c = crlf_ /\ c \in Seq(Chars) /\ Len(c) = 2
    BY <1>1
  <2>2. \/ pos = npos /\ pos \notin Nat
        \/ pos # npos /\ pos \in 0..Len(q.buf) - Len(c)
    BY <1>1, <2>1, FindIs
  <2> QED
    BY <2>1, <2>2
<1>3. t = CASE pos = npos -> Wait(q)
            [] pos = 0 -> Take([q EXCEPT !.parts =
                                  Append(@, [name |-> q.name, content |-> <<>>])], 2, 3)
            [] OTHER -> Take([q EXCEPT !.name =
                                IF pos = 1 /\ q.buf[1] \in Names THEN q.buf[1] ELSE @], pos + 2, 2)
  BY <1>1 DEF Headers
<1>4. npos # 0 /\ 0 \in Nat
  BY DEF npos
<1>5. CASE pos = npos
  BY <1>3, <1>4, <1>5 DEF HeadersMoves
<1>6. CASE pos = 0
  <2>1. 2 <= Len(q.buf)
    BY <1>1, <1>2, <1>4, <1>6
  <2> QED
    BY <1>3, <1>4, <1>6, <2>1 DEF HeadersMoves
<1>7. CASE pos # npos /\ pos # 0
  <2>1. pos \in Nat \ {0} /\ pos + 2 <= Len(q.buf)
    BY <1>1, <1>2, <1>7
  <2> QED
    BY <1>3, <1>7, <2>1 DEF HeadersMoves
<1> QED
  BY <1>5, <1>6, <1>7

OpeningMoves(q, t, d) ==
    \/ Len(q.buf) < d /\ t = Wait(q)
    \/ Len(q.buf) >= d /\ Find(q.buf, Opening) # 0 /\ t = Fail(q)
    \/ Len(q.buf) >= d /\ Find(q.buf, Opening) = 0 /\ t = Take(q, d, 1)

(* In state 0 the parser waits for the opening, takes it, or fails if      *)
(* something else stands there.                                            *)
LEMMA OpeningTurn ==
    ASSUME NEW q \in Parsers, NEW t, t = InitialBoundary(q), NEW d, d = Len(Opening)
    PROVE  OpeningMoves(q, t, d)
<1>1. PICK l, f : l = Len(q.buf) /\ f = Find(q.buf, Opening) /\ l \in Nat
  BY ParserFields
<1>2. d \in Nat
  <2>1. PICK b : b = Len(boundary_)
    OBVIOUS
  <2>2. b \in Nat /\ Len(Opening) = 4 + b
    BY <2>1, Patterns, OpeningIs
  <2> QED
    BY <2>2
<1>3. t = CASE d > l -> Wait(q)
            [] d <= l /\ f # 0 -> Fail(q)
            [] OTHER -> Take(q, d, 1)
  BY <1>1 DEF InitialBoundary, Opening
<1> QED
  BY <1>1, <1>2, <1>3 DEF OpeningMoves

(* In state 4 CR LF begins another part, two dashes and CR LF end the      *)
(* form, and anything else waits.                                          *)
LEMMA BoundaryTurn ==
    ASSUME NEW q \in Parsers, NEW t, t = Boundary(q)
    PROVE  \/ t = Wait(q) /\ (Len(q.buf) < 2 \/ (Begin(q.buf, 2) # crlf_ /\
                                 ~(Len(q.buf) >= 4 /\ Begin(q.buf, 4) = dash_ \o crlf_)))
           \/ Len(q.buf) >= 2 /\ Begin(q.buf, 2) = crlf_ /\ t = Take(q, 2, 1)
           \/ /\ Len(q.buf) >= 4 /\ Begin(q.buf, 4) = dash_ \o crlf_
              /\ t = [Take(q, 4, 5) EXCEPT !.valid = TRUE]
<1>1. PICK l, x, y, c, d :
         l \in Nat /\ l = Len(q.buf) /\ x = Begin(q.buf, 2) /\ y = Begin(q.buf, 4)
         /\ c = crlf_ /\ d = dash_ \o crlf_ /\ Len(c) = 2
  BY ParserFields, Patterns
<1>2. t = CASE Len(c) > l -> Wait(q)
            [] Len(c) <= l /\ x = c -> Take(q, Len(c), 1)
            [] l >= 4 /\ y = d -> [Take(q, 4, 5) EXCEPT !.valid = TRUE]
            [] OTHER -> Wait(q)
  BY <1>1 DEF Boundary
<1> QED
  BY <1>1, <1>2, SMTT(30)


(* Which of them a turn is.                                                *)
LEMMA TurnIs ==
    ASSUME NEW q \in Parsers
    PROVE  /\ q.buf = <<>> => Turn(q) = Wait(q)
           /\ q.buf # <<>> /\ q.state = 0 => Turn(q) = InitialBoundary(q)
           /\ q.buf # <<>> /\ q.state = 1 => Turn(q) = NewEntry(q)
           /\ q.buf # <<>> /\ q.state = 2 => Turn(q) = Headers(q)
           /\ q.buf # <<>> /\ q.state = 3 => Turn(q) = Body(q)
           /\ q.buf # <<>> /\ q.state = 4 => Turn(q) = Boundary(q)
           /\ q.buf # <<>> /\ q.state = 5 => Turn(q) = Done(q)
<1>1. PICK s, e, a, b, c, d, f, g, h :
         /\ s \in 0..5 /\ e \in BOOLEAN
         /\ s = q.state /\ e = (q.buf = <<>>)
         /\ a = Wait(q) /\ b = InitialBoundary(q) /\ c = NewEntry(q) /\ d = Headers(q)
         /\ f = Body(q) /\ g = Boundary(q) /\ h = Done(q)
  BY ParserFields
<1>2. Turn(q) = CASE e -> a
                  [] ~e /\ s = 0 -> b
                  [] ~e /\ s = 1 -> c
                  [] ~e /\ s = 2 -> d
                  [] ~e /\ s = 3 -> f
                  [] ~e /\ s = 4 -> g
                  [] ~e /\ s = 5 -> h
  BY <1>1 DEF Turn
<1>3. /\ e => Turn(q) = a
      /\ ~e /\ s = 0 => Turn(q) = b
      /\ ~e /\ s = 1 => Turn(q) = c
      /\ ~e /\ s = 2 => Turn(q) = d
      /\ ~e /\ s = 3 => Turn(q) = f
      /\ ~e /\ s = 4 => Turn(q) = g
      /\ ~e /\ s = 5 => Turn(q) = h
  BY <1>2
<1> QED
  BY <1>1, <1>3

(* The parsers that the turns make of one.                                 *)
LEMMA EntryFields ==
    ASSUME NEW q \in Parsers, NEW t, t = NewEntry(q)
    PROVE  /\ t \in Parsers /\ t.state = 2 /\ t.buf = q.buf /\ t.name = ""
           /\ t.parts = q.parts /\ t.valid = q.valid /\ t.loop = q.loop
<1>1. PICK e \in Chars : e = ""
  BY DEF Chars
<1>2. t = [q EXCEPT !.name = e, !.state = 2]
  BY <1>1 DEF NewEntry
<1>3. t = [state |-> 2, buf |-> q.buf, valid |-> q.valid, loop |-> q.loop, name |-> e,
           parts |-> q.parts]
  BY <1>2 DEF Parsers
<1>4. PICK s \in 0..5 : s = 2
  OBVIOUS
<1>5. q.buf \in Seq(Chars) /\ q.valid \in BOOLEAN /\ q.loop \in {"go", "wait", "fail"}
      /\ q.parts \in Seq(PartSet)
  BY ParserFields
<1>6. \A v \in 0..5, n \in Chars :
         [state |-> v, buf |-> q.buf, valid |-> q.valid, loop |-> q.loop, name |-> n,
          parts |-> q.parts] \in Parsers
  BY <1>5 DEF Parsers, PartSet
<1>7. t \in Parsers
  BY <1>3, <1>4, <1>6, Zenon
<1>8. /\ t.state = 2 /\ t.buf = q.buf /\ t.name = e
      /\ t.parts = q.parts /\ t.valid = q.valid /\ t.loop = q.loop
  BY <1>3
<1> QED
  BY <1>1, <1>7, <1>8, Zenon

(* After its end a form takes no more characters.                          *)
LEMMA DoneFields ==
    ASSUME NEW q \in Parsers
    PROVE  Done(q) \in Parsers /\ Done(q).loop = "fail"
  BY DEF Done, Fail, Parsers

(* Setting valid leaves the rest of the parser.                            *)
LEMMA ValidFields ==
    ASSUME NEW q \in Parsers, NEW v \in BOOLEAN, NEW t, t = [q EXCEPT !.valid = v]
    PROVE  /\ t \in Parsers /\ t.state = q.state /\ t.buf = q.buf /\ t.name = q.name
           /\ t.parts = q.parts /\ t.valid = v /\ t.loop = q.loop
  BY DEF Parsers

(* Setting the name leaves the rest of the parser.                         *)
LEMMA NameFields ==
    ASSUME NEW q \in Parsers, NEW v \in Chars, NEW t, t = [q EXCEPT !.name = v]
    PROVE  /\ t \in Parsers /\ t.state = q.state /\ t.buf = q.buf /\ t.name = v
           /\ t.parts = q.parts /\ t.valid = q.valid /\ t.loop = q.loop
  BY DEF Parsers

(* Setting the parts leaves the rest of the parser.                        *)
LEMMA PartsFields ==
    ASSUME NEW q \in Parsers, NEW v \in Seq(PartSet), NEW t, t = [q EXCEPT !.parts = v]
    PROVE  /\ t \in Parsers /\ t.state = q.state /\ t.buf = q.buf /\ t.name = q.name
           /\ t.parts = v /\ t.valid = q.valid /\ t.loop = q.loop
  BY DEF Parsers, PartSet

(* One character less outweighs the step into state 1.                     *)
LEMMA Twice ==
    ASSUME NEW l \in Nat, NEW m \in Nat, m < l, NEW a \in 0..1, NEW b \in 0..1
    PROVE  m + m + a < l + l + b
  OBVIOUS

(* A turn keeps the types; one that goes on takes characters from the      *)
(* buffer, or is NewEntry.                                                 *)
LEMMA TurnType ==
    ASSUME NEW q \in Parsers, NEW t, t = Turn(q)
    PROVE  t \in Parsers /\ (t.loop = "go" => Weight(t) < Weight(q))
<1>1. PICK l : l \in Nat /\ l = Len(q.buf)
  BY ParserFields
<1>2. q.state \in 0..5
  BY ParserFields
<1>3. \A u \in Parsers : Wait(u) \in Parsers /\ Wait(u).loop = "wait"
                         /\ Fail(u) \in Parsers /\ Fail(u).loop = "fail"
  BY StopType
<1>4. ASSUME NEW u, u \in Parsers, NEW m \in Nat, m = Len(u.buf),
             \/ m < l
             \/ m = l /\ q.state = 1 /\ u.state # 1
      PROVE  Weight(u) < Weight(q)
  <2>1. PICK a \in 0..1, b \in 0..1 :
           a = (IF u.state = 1 THEN 1 ELSE 0) /\ b = (IF q.state = 1 THEN 1 ELSE 0)
    OBVIOUS
  <2>2. Weight(u) = m + m + a /\ Weight(q) = l + l + b
    BY <1>1, <1>4, <2>1 DEF Weight
  <2>3. m < l \/ (m = l /\ a = 0 /\ b = 1)
    BY <1>4, <2>1
  <2>4. m + m + a < l + l + b
    <3>1. CASE m < l
      BY <1>1, <3>1, Twice
    <3>2. CASE m = l /\ a = 0 /\ b = 1
      BY <1>1, <3>2
    <3> QED
      BY <2>3, <3>1, <3>2
  <2> QED
    BY <2>2, <2>4
<1>5. CASE q.buf = <<>>
  BY <1>3, <1>5, TurnIs
<1>6. CASE q.buf # <<>> /\ q.state = 0
  <2>1. PICK d : d = Len(Opening) /\ d \in Nat /\ d >= 4
    <3>1. PICK b : b = Len(boundary_)
      OBVIOUS
    <3>2. b \in Nat /\ Len(Opening) = 4 + b
      BY <3>1, Patterns, OpeningIs
    <3> QED
      BY <3>2
  <2>2. t = InitialBoundary(q)
    BY <1>6, TurnIs
  <2>3. \/ t = Wait(q)
        \/ t = Fail(q)
        \/ l >= d /\ t = Take(q, d, 1)
    BY <1>1, <2>1, <2>2, OpeningTurn DEF OpeningMoves
  <2>4. CASE l >= d /\ t = Take(q, d, 1)
    <3>1. d \in 0..Len(q.buf) /\ 1 \in 0..5
      BY <1>1, <2>1, <2>4
    <3>2. t \in Parsers /\ Len(t.buf) = l - d
      BY <1>1, <2>4, <3>1, TakeType
    <3>3. l - d \in Nat /\ l - d < l
      BY <1>1, <2>1, <2>4
    <3> QED
      BY <1>4, <3>2, <3>3
  <2> QED
    BY <1>3, <2>3, <2>4
<1>7. CASE q.buf # <<>> /\ q.state = 1
  <2>1. t = NewEntry(q)
    BY <1>7, TurnIs
  <2>2. t \in Parsers /\ t.state = 2 /\ Len(t.buf) = l
    BY <1>1, <2>1, EntryFields
  <2> QED
    BY <1>1, <1>4, <1>7, <2>2
<1>8. CASE q.buf # <<>> /\ q.state = 2
  <2>1. PICK pos : pos = Find(q.buf, crlf_)
    OBVIOUS
  <2>2. t = Headers(q)
    BY <1>8, TurnIs
  <2>3. PICK p1, p2 :
           /\ p1 = [q EXCEPT !.parts = Append(@, [name |-> q.name, content |-> <<>>])]
           /\ p2 = [q EXCEPT !.name = IF pos = 1 /\ q.buf[1] \in Names THEN q.buf[1] ELSE @]
    OBVIOUS
  <2>4. \/ t = Wait(q)
        \/ pos = 0 /\ 2 <= l /\ t = Take(p1, 2, 3)
        \/ pos \in Nat \ {0} /\ pos + 2 <= l /\ t = Take(p2, pos + 2, 2)
    BY <1>1, <2>1, <2>2, <2>3, HeadersTurn DEF HeadersMoves
  <2>5. p1 \in Parsers /\ p1.buf = q.buf
    <3>1. q.name \in Chars /\ q.parts \in Seq(PartSet)
      BY ParserFields
    <3>2. PICK ps : ps = Append(q.parts, [name |-> q.name, content |-> <<>>])
      OBVIOUS
    <3>3. [name |-> q.name, content |-> <<>>] \in PartSet
      BY <3>1 DEF PartSet
    <3>4. ps \in Seq(PartSet)
      BY <3>1, <3>2, <3>3
    <3>5. p1 = [q EXCEPT !.parts = ps]
      BY <2>3, <3>2
    <3> QED
      BY <3>4, <3>5, PartsFields
  <2>6. p2 \in Parsers /\ p2.buf = q.buf
    <3>1. PICK n : n = IF pos = 1 /\ q.buf[1] \in Names THEN q.buf[1] ELSE q.name
      OBVIOUS
    <3>2. n \in Chars
      BY <3>1, ParserFields, MultipartAssumption DEF Chars
    <3>3. p2 = [q EXCEPT !.name = n]
      BY <2>3, <3>1
    <3> QED
      BY <3>2, <3>3, NameFields
  <2>7. ASSUME NEW p \in Parsers, p.buf = q.buf, NEW n \in Nat \ {0}, n <= l, NEW s \in 0..5,
               t = Take(p, n, s)
        PROVE  t \in Parsers /\ Weight(t) < Weight(q)
    <3>1. n \in 0..Len(p.buf)
      BY <1>1, <2>7
    <3>2. Take(p, n, s) \in Parsers /\ Len(Take(p, n, s).buf) = Len(p.buf) - n
      BY <3>1, TakeType
    <3>3. l - n \in Nat /\ l - n < l
      BY <1>1, <2>7
    <3>4. t \in Parsers /\ Len(t.buf) = l - n
      BY <1>1, <2>7, <3>2
    <3> QED
      BY <1>4, <3>3, <3>4
  <2>8. CASE pos = 0 /\ 2 <= l /\ t = Take(p1, 2, 3)
    BY <2>5, <2>7, <2>8
  <2>9. CASE pos \in Nat \ {0} /\ pos + 2 <= l /\ t = Take(p2, pos + 2, 2)
    <3>1. pos + 2 \in Nat \ {0} /\ 2 \in 0..5
      BY <2>9
    <3> QED
      BY <2>6, <2>7, <2>9, <3>1
  <2> QED
    BY <1>3, <2>4, <2>8, <2>9
<1>9. CASE q.buf # <<>> /\ q.state = 3
  <2>1. PICK n, r, pos : BodyMoves(q, Body(q), n, r, pos)
    BY BodyTurn
  <2>2. t = Body(q)
    BY <1>9, TurnIs
  <2>3. PICK d : d = Len(Delim) /\ d \in Nat /\ d >= 4
    <3>1. PICK b : b = Len(boundary_)
      OBVIOUS
    <3>2. b \in Nat /\ Len(Delim) = 4 + b
      BY <3>1, Patterns, DelimIs
    <3> QED
      BY <3>2
  <2>4. n \in 0..l /\ r = Content(q, n) /\ r \in Parsers
    BY <1>1, <2>1, Zenon DEF BodyMoves, Sure
  <2>5. PICK k : k \in Nat /\ k = Len(r.buf) /\ k = l - n
    BY <1>1, <2>4, ContentType, ParserFields
  <2>6. \/ t = Wait(q)
        \/ t = Wait(r)
        \/ k >= d /\ pos # npos /\ t = Take(Content(r, pos), d, 4)
        \/ k >= d /\ t = Content(r, d)
    BY <2>1, <2>2, <2>3, <2>5 DEF BodyMoves
  <2>7. CASE k >= d /\ t = Content(r, d)
    <3>1. d \in 0..Len(r.buf)
      BY <2>3, <2>5, <2>7
    <3>2. t \in Parsers /\ Len(t.buf) = k - d
      BY <2>4, <2>5, <2>7, <3>1, ContentType
    <3>3. k - d \in Nat /\ k - d < l
      BY <1>1, <2>3, <2>4, <2>5, <2>7
    <3> QED
      BY <1>4, <3>2, <3>3
  <2>8. CASE k >= d /\ pos # npos /\ t = Take(Content(r, pos), d, 4)
    <3>1. pos \in 0..k - d
      <4>1. r.buf \in Seq(Chars) /\ Delim \in Seq(Chars) /\ pos = Find(r.buf, Delim)
        <5>1. PICK b : b = Len(boundary_)
          OBVIOUS
        <5> QED
          BY <2>1, <2>4, <5>1, ParserFields, DelimIs DEF BodyMoves
      <4>2. pos = npos \/ pos \in 0..Len(r.buf) - Len(Delim)
        BY <4>1, FindIs
      <4> QED
        BY <2>3, <2>5, <2>8, <4>2
    <3>2. PICK u : u = Content(r, pos)
      OBVIOUS
    <3>3. pos \in 0..Len(r.buf)
      BY <2>3, <2>5, <3>1
    <3>4. u \in Parsers /\ Len(u.buf) = k - pos
      BY <2>4, <2>5, <3>2, <3>3, ContentType
    <3>5. d \in 0..Len(u.buf) /\ 4 \in 0..5
      BY <2>3, <2>5, <3>1, <3>4
    <3>6. t = Take(u, d, 4)
      BY <2>8, <3>2
    <3>7. t \in Parsers /\ Len(t.buf) = Len(u.buf) - d
      BY <3>4, <3>5, <3>6, TakeType
    <3>8. Len(u.buf) - d \in Nat /\ Len(u.buf) - d < l
      BY <1>1, <2>3, <2>4, <2>5, <3>1, <3>4
    <3> QED
      BY <1>4, <3>7, <3>8
  <2> QED
    BY <1>3, <2>4, <2>6, <2>7, <2>8
<1>10. CASE q.buf # <<>> /\ q.state = 4
  <2>1. t = Boundary(q)
    BY <1>10, TurnIs
  <2>2. \/ t = Wait(q)
        \/ l >= 2 /\ t = Take(q, 2, 1)
        \/ l >= 4 /\ t = [Take(q, 4, 5) EXCEPT !.valid = TRUE]
    BY <1>1, <2>1, BoundaryTurn
  <2>3. CASE l >= 2 /\ t = Take(q, 2, 1)
    <3>1. 2 \in 0..Len(q.buf) /\ 1 \in 0..5
      BY <1>1, <2>3
    <3>2. t \in Parsers /\ Len(t.buf) = l - 2
      BY <1>1, <2>3, <3>1, TakeType
    <3>3. l - 2 \in Nat /\ l - 2 < l
      BY <1>1, <2>3
    <3> QED
      BY <1>4, <3>2, <3>3
  <2>4. CASE l >= 4 /\ t = [Take(q, 4, 5) EXCEPT !.valid = TRUE]
    <3>1. 4 \in 0..Len(q.buf) /\ 5 \in 0..5
      BY <1>1, <2>4
    <3>2. PICK u : u = Take(q, 4, 5)
      OBVIOUS
    <3>3. u \in Parsers /\ Len(u.buf) = l - 4
      BY <1>1, <3>1, <3>2, TakeType
    <3>4. t \in Parsers /\ t.buf = u.buf
      BY <2>4, <3>2, <3>3, ValidFields
    <3>5. l - 4 \in Nat /\ l - 4 < l
      BY <1>1, <2>4
    <3> QED
      BY <1>4, <3>3, <3>4, <3>5
  <2> QED
    BY <1>3, <2>2, <2>3, <2>4
<1>11. CASE q.buf # <<>> /\ q.state = 5
  BY <1>11, TurnIs, DoneFields
<1>12. \A s \in 0..5 : s = 0 \/ s = 1 \/ s = 2 \/ s = 3 \/ s = 4 \/ s = 5
  OBVIOUS
<1> QED
  BY <1>2, <1>5, <1>6, <1>7, <1>8, <1>9, <1>10, <1>11, <1>12

-----------------------------------------------------------------------------
(* The loop of parse: what holds of the parser with the piece appended,    *)
(* and is kept by every turn that goes on, holds of what parse leaves.     *)
Closed(I) == I \subseteq Parsers /\ \A q \in I : q.loop = "go" => Turn(q) \in I

Stopped(I, q) == q \in I /\ q.loop # "go"

(* parse reaches a parser that stops: each turn that goes on has less      *)
(* weight, so the loop is defined for every buffer.                        *)
LEMMA ParseEnds ==
    ASSUME NEW I, Closed(I),
           NEW p, NEW piece, NEW s, s \in I, s = [p EXCEPT !.buf = @ \o piece, !.loop = "go"]
    PROVE  Stopped(I, parse(p, piece))
<1>0. I \subseteq Parsers /\ \A q \in I : q.loop = "go" => Turn(q) \in I
  BY DEF Closed
<1> DEFINE stop == {q \in Parsers : q.loop # "go"}
           next == [q \in Parsers |-> Turn(q)]
           w == [q \in Parsers |-> IF q.loop = "go" THEN Weight(q) + 1 ELSE 0]
<1>1. ASSUME NEW q \in Parsers PROVE Weight(q) \in Nat
  <2>1. PICK l : l \in Nat /\ l = Len(q.buf)
    BY ParserFields
  <2>2. PICK a \in Nat : a = IF q.state = 1 THEN 1 ELSE 0
    OBVIOUS
  <2>3. Weight(q) = l + l + a
    BY <2>1, <2>2 DEF Weight
  <2> QED
    BY <2>1, <2>3
<1>2. \A q \in Parsers : w[q] \in Nat
  BY <1>1
<1>3. ASSUME NEW q \in Parsers, q \notin stop PROVE next[q] \in Parsers /\ w[next[q]] < w[q]
  <2>1. q.loop = "go"
    BY <1>3
  <2>2. PICK t : t = Turn(q)
    OBVIOUS
  <2>3. t \in Parsers /\ (t.loop = "go" => Weight(t) < Weight(q))
    BY <2>2, TurnType
  <2>4. PICK a \in Nat, b \in Nat : a = Weight(t) /\ b = Weight(q)
    BY <1>1, <2>3
  <2>5. w[t] = (IF t.loop = "go" THEN a + 1 ELSE 0) /\ w[q] = b + 1
    BY <2>1, <2>3, <2>4
  <2>6. w[t] < w[q]
    BY <2>3, <2>4, <2>5
  <2> QED
    BY <2>2, <2>3, <2>6
<1>4. PICK D, st, nx, v : D = Parsers /\ st = stop /\ nx = next /\ v = w
  OBVIOUS
<1>5. Descends(D, st, nx, v)
  BY <1>2, <1>3, <1>4 DEF Descends
<1>6. \E g : IsLoop(g, D, st, nx)
  BY <1>5, LoopExists
<1>7. \A g : (g = [q \in Parsers |-> IF q.loop = "go" THEN g[Turn(q)] ELSE q])
             <=> IsLoop(g, D, st, nx)
  <2> SUFFICES ASSUME NEW g
               PROVE  (g = [q \in Parsers |-> IF q.loop = "go" THEN g[Turn(q)] ELSE q])
                      <=> IsLoop(g, D, st, nx)
    OBVIOUS
  <2>1. ASSUME NEW q \in Parsers
        PROVE  (IF q.loop = "go" THEN g[Turn(q)] ELSE q) = (IF q \in st THEN q ELSE g[nx[q]])
    BY <1>4
  <2>2. [q \in Parsers |-> IF q.loop = "go" THEN g[Turn(q)] ELSE q]
           = [q \in Parsers |-> IF q \in st THEN q ELSE g[nx[q]]]
    BY <2>1
  <2> QED
    BY <1>4, <2>2 DEF IsLoop
<1>8. PICK g : /\ g = CHOOSE f : f = [q \in Parsers |-> IF q.loop = "go" THEN f[Turn(q)] ELSE q]
               /\ parse(p, piece) = g[s]
  BY DEF parse
<1>9. IsLoop(g, D, st, nx)
  <2>1. \E f : f = [q \in Parsers |-> IF q.loop = "go" THEN f[Turn(q)] ELSE q]
    BY <1>6, <1>7, Zenon
  <2>2. g = [q \in Parsers |-> IF q.loop = "go" THEN g[Turn(q)] ELSE q]
    BY <1>8, <2>1, Zenon
  <2> QED
    BY <1>7, <2>2, Zenon
<1>10. I \subseteq D /\ \A q \in I : q \notin st => nx[q] \in I
  <2>1. \A q \in I : q \notin st => q.loop = "go"
    BY <1>0, <1>4
  <2>2. \A q \in I : nx[q] = Turn(q)
    BY <1>0, <1>4
  <2> QED
    BY <1>0, <1>4, <2>1, <2>2
<1>11. g[s] \in I /\ g[s] \in st
  BY <1>5, <1>9, <1>10, LoopEnds
<1>12. \A q \in st : q.loop # "go"
  BY <1>4
<1> QED
  BY <1>8, <1>11, <1>12 DEF Stopped

-----------------------------------------------------------------------------
(* Where things are in what a client sends for a form: dash and boundary   *)
(* after e characters of w, the rest of a part after them, or the end.     *)
DashAt(w, e) ==
    /\ w[e + 1] = "-" /\ w[e + 2] = "-"
    /\ \A j \in 1..Len(boundary_) : w[e + 2 + j] = boundary_[j]

RestAt(w, k, part) ==
    /\ w[k + 1] = "CR" /\ w[k + 2] = "LF" /\ w[k + 3] = part.name
    /\ w[k + 4] = "CR" /\ w[k + 5] = "LF" /\ w[k + 6] = "CR" /\ w[k + 7] = "LF"
    /\ \A j \in 1..Len(part.content) : w[k + 7 + j] = part.content[j]
    /\ w[k + 8 + Len(part.content)] = "CR" /\ w[k + 9 + Len(part.content)] = "LF"

CloseAt(w, k) == w[k + 1] = "-" /\ w[k + 2] = "-" /\ w[k + 3] = "CR" /\ w[k + 4] = "LF"

FormPart == [name : Names, content : Seq(Chars)]

(* w is s, of m characters, and t, of n.                                   *)
Concat(w, s, t, m, n) ==
    /\ w \in Seq(Chars) /\ Len(w) = m + n
    /\ \A k \in 1..m : w[k] = s[k]
    /\ \A k \in 1..n : w[m + k] = t[k]

(* A text appended to a text.                                              *)
LEMMA ConcatText ==
    ASSUME NEW s \in Seq(Chars), NEW t \in Seq(Chars), NEW w, w = s \o t,
           NEW m, m = Len(s), NEW n, n = Len(t)
    PROVE  Concat(w, s, t, m, n)
  BY ConcatIs DEF Concat

(* w is s, of m characters, and a line break.                              *)
Broken(w, s, m) ==
    /\ w \in Seq(Chars) /\ Len(w) = m + 2
    /\ \A k \in 1..m : w[k] = s[k]
    /\ w[m + 1] = "CR" /\ w[m + 2] = "LF"

(* A line break appended to a text.                                        *)
LEMMA BrokenText ==
    ASSUME NEW s \in Seq(Chars), NEW m, m = Len(s), NEW w, w = s \o crlf_
    PROVE  Broken(w, s, m)
<1>1. PICK n, v : n = 2 /\ v = crlf_
  OBVIOUS
<1>2. v \in Seq(Chars) /\ Len(v) = n /\ v[1] = "CR" /\ v[2] = "LF"
  BY <1>1, Patterns
<1>3. Concat(w, s, v, m, n)
  BY <1>1, <1>2, ConcatText, Zenon
<1>4. 1 \in 1..n /\ 2 \in 1..n
  BY <1>1
<1> QED
  BY <1>1, <1>2, <1>3, <1>4 DEF Concat, Broken

(* Where the characters of one part are in what PartText writes for it.    *)
LEMMA PartTextIs ==
    ASSUME NEW part \in FormPart, NEW w, w = PartText(part), NEW d, d = 2 + Len(boundary_)
    PROVE  /\ w \in Seq(Chars) /\ Len(w) = d + 9 + Len(part.content)
           /\ DashAt(w, 0) /\ RestAt(w, d, part)
<1>1. PICK b, x, c : b = Len(boundary_) /\ x = part.name /\ c = part.content /\ d = 2 + b
  OBVIOUS
<1>2. /\ b \in Nat /\ boundary_ \in Seq(Chars)
      /\ dash_ \in Seq(Chars) /\ Len(dash_) = 2 /\ dash_[1] = "-" /\ dash_[2] = "-"
      /\ crlf_ \in Seq(Chars) /\ Len(crlf_) = 2 /\ crlf_[1] = "CR" /\ crlf_[2] = "LF"
  BY <1>1, Patterns
<1>3. x \in Chars /\ c \in Seq(Chars) /\ Len(c) \in Nat
  <2>1. x \in Names /\ c \in Seq(Chars)
    BY <1>1 DEF FormPart
  <2>2. Names \subseteq Chars
    BY MultipartAssumption DEF Chars
  <2> QED
    BY <2>1, <2>2
<1>4. <<x>> \in Seq(Chars) /\ Len(<<x>>) = 1 /\ <<x>>[1] = x
  BY <1>3
<1>5. PICK l : l \in Nat /\ l = Len(c)
  BY <1>3
<1>6. PICK y, s1, s2, s3, s4, s5, s6 :
         /\ y = <<x>> /\ s1 = dash_ \o boundary_ /\ s2 = s1 \o crlf_ /\ s3 = s2 \o y
         /\ s4 = s3 \o crlf_ /\ s5 = s4 \o crlf_ /\ s6 = s5 \o c
  OBVIOUS
<1>7. w = s6 \o crlf_
  BY <1>1, <1>6 DEF PartText
<1>8. y \in Seq(Chars) /\ Len(y) = 1 /\ y[1] = x
  BY <1>4, <1>6
<1>9. PICK i, ii : i = 1 /\ ii = 2
  OBVIOUS
<1>10. /\ s1 \in Seq(Chars) /\ Len(s1) = d
       /\ s1[1] = "-" /\ s1[2] = "-" /\ \A j \in 1..b : s1[2 + j] = boundary_[j]
  <2>1. ii = Len(dash_)
    BY <1>2, <1>9
  <2>2. Concat(s1, dash_, boundary_, ii, b)
    BY <1>1, <1>2, <1>6, <2>1, ConcatText, Zenon
  <2>3. /\ s1 \in Seq(Chars) /\ Len(s1) = 2 + b
        /\ \A k \in 1..2 : s1[k] = dash_[k]
        /\ \A k \in 1..b : s1[2 + k] = boundary_[k]
    BY <1>9, <2>2 DEF Concat
  <2>4. 1 \in 1..2 /\ 2 \in 1..2
    OBVIOUS
  <2> QED
    BY <1>1, <1>2, <2>3, <2>4
<1>11. d \in Nat
  BY <1>1, <1>2
<1>12. /\ s2 \in Seq(Chars) /\ Len(s2) = d + 2
       /\ \A k \in 1..d : s2[k] = s1[k]
       /\ s2[d + 1] = "CR" /\ s2[d + 2] = "LF"
  <2>1. Broken(s2, s1, d)
    BY <1>6, <1>10, BrokenText, Zenon
  <2> QED
    BY <2>1 DEF Broken
<1>13. /\ s3 \in Seq(Chars) /\ Len(s3) = d + 3
       /\ \A k \in 1..d + 2 : s3[k] = s2[k]
       /\ s3[d + 3] = x
  <2>1. PICK m \in Nat : m = d + 2
    BY <1>11
  <2>2. m = Len(s2) /\ i = Len(y)
    BY <1>8, <1>9, <1>12, <2>1
  <2>3. Concat(s3, s2, y, m, i)
    BY <1>6, <1>8, <1>12, <2>2, ConcatText, Zenon
  <2>4. m + i = d + 3 /\ m + 1 = d + 3 /\ 1 \in 1..i
    BY <1>9, <1>11, <2>1
  <2> QED
    BY <1>8, <2>1, <2>3, <2>4 DEF Concat
<1>14. /\ s4 \in Seq(Chars) /\ Len(s4) = d + 5
       /\ \A k \in 1..d + 3 : s4[k] = s3[k]
       /\ s4[d + 4] = "CR" /\ s4[d + 5] = "LF"
  <2>1. PICK m \in Nat : m = d + 3 /\ m + 1 = d + 4 /\ m + 2 = d + 5
    BY <1>11
  <2>2. /\ s4 \in Seq(Chars) /\ Len(s4) = m + 2
        /\ \A k \in 1..m : s4[k] = s3[k]
        /\ s4[m + 1] = "CR" /\ s4[m + 2] = "LF"
    <3>1. m = Len(s3)
      BY <1>13, <2>1
    <3>2. Broken(s4, s3, m)
      BY <1>6, <1>13, <3>1, BrokenText, Zenon
    <3> QED
      BY <3>2 DEF Broken
  <2> QED
    BY <2>1, <2>2
<1>15. /\ s5 \in Seq(Chars) /\ Len(s5) = d + 7
       /\ \A k \in 1..d + 5 : s5[k] = s4[k]
       /\ s5[d + 6] = "CR" /\ s5[d + 7] = "LF"
  <2>1. PICK m \in Nat : m = d + 5 /\ m + 1 = d + 6 /\ m + 2 = d + 7
    BY <1>11
  <2>2. /\ s5 \in Seq(Chars) /\ Len(s5) = m + 2
        /\ \A k \in 1..m : s5[k] = s4[k]
        /\ s5[m + 1] = "CR" /\ s5[m + 2] = "LF"
    <3>1. m = Len(s4)
      BY <1>14, <2>1
    <3>2. Broken(s5, s4, m)
      BY <1>6, <1>14, <3>1, BrokenText, Zenon
    <3> QED
      BY <3>2 DEF Broken
  <2> QED
    BY <2>1, <2>2
<1>16. /\ s6 \in Seq(Chars) /\ Len(s6) = d + 7 + l
       /\ \A k \in 1..d + 7 : s6[k] = s5[k]
       /\ \A k \in 1..l : s6[d + 7 + k] = c[k]
  <2>1. PICK m \in Nat : m = d + 7
    BY <1>11
  <2>2. /\ s6 \in Seq(Chars) /\ Len(s6) = m + l
        /\ \A k \in 1..m : s6[k] = s5[k]
        /\ \A k \in 1..l : s6[m + k] = c[k]
    <3>1. m = Len(s5)
      BY <1>15, <2>1
    <3>2. Concat(s6, s5, c, m, l)
      BY <1>3, <1>5, <1>6, <1>15, <3>1, ConcatText, Zenon
    <3> QED
      BY <3>2 DEF Concat
  <2> QED
    BY <2>1, <2>2
<1>17. /\ w \in Seq(Chars) /\ Len(w) = d + 9 + l
       /\ \A k \in 1..d + 7 + l : w[k] = s6[k]
       /\ w[d + 8 + l] = "CR" /\ w[d + 9 + l] = "LF"
  <2>1. PICK m \in Nat : m = d + 7 + l /\ m + 1 = d + 8 + l /\ m + 2 = d + 9 + l
    BY <1>5, <1>11
  <2>2. /\ w \in Seq(Chars) /\ Len(w) = m + 2
        /\ \A k \in 1..m : w[k] = s6[k]
        /\ w[m + 1] = "CR" /\ w[m + 2] = "LF"
    <3>1. m = Len(s6)
      BY <1>16, <2>1
    <3>2. Broken(w, s6, m)
      BY <1>7, <1>16, <3>1, BrokenText, Zenon
    <3> QED
      BY <3>2 DEF Broken
  <2> QED
    BY <2>1, <2>2
<1>18. /\ \A k \in 1..d + 7 : w[k] = s5[k]
       /\ \A k \in 1..l : w[d + 7 + k] = c[k]
  <2>1. /\ \A k \in 1..d + 7 : k \in 1..d + 7 + l
        /\ \A k \in 1..l : d + 7 + k \in 1..d + 7 + l
    BY <1>5, <1>11
  <2> QED
    BY <1>16, <1>17, <2>1
<1>19. /\ w[d + 6] = "CR" /\ w[d + 7] = "LF"
       /\ \A k \in 1..d + 5 : w[k] = s4[k]
  <2>1. /\ d + 6 \in 1..d + 7 /\ d + 7 \in 1..d + 7
        /\ \A k \in 1..d + 5 : k \in 1..d + 7
    BY <1>11
  <2> QED
    BY <1>15, <1>18, <2>1
<1>20. /\ w[d + 4] = "CR" /\ w[d + 5] = "LF" /\ w[d + 3] = x
       /\ \A k \in 1..d + 2 : w[k] = s2[k]
  <2>1. /\ d + 4 \in 1..d + 5 /\ d + 5 \in 1..d + 5 /\ d + 3 \in 1..d + 5 /\ d + 3 \in 1..d + 3
        /\ \A k \in 1..d + 2 : k \in 1..d + 5 /\ k \in 1..d + 3
    BY <1>11
  <2> QED
    BY <1>13, <1>14, <1>19, <2>1
<1>21. /\ w[d + 1] = "CR" /\ w[d + 2] = "LF"
       /\ w[1] = "-" /\ w[2] = "-" /\ \A j \in 1..b : w[2 + j] = boundary_[j]
  <2>1. /\ d + 1 \in 1..d + 2 /\ d + 2 \in 1..d + 2
        /\ 1 \in 1..d /\ 2 \in 1..d
        /\ \A j \in 1..b : 2 + j \in 1..d
        /\ \A k \in 1..d : k \in 1..d + 2
    BY <1>1, <1>2
  <2> QED
    BY <1>10, <1>12, <1>20, <2>1
<1>22. DashAt(w, 0)
  <2>1. 0 + 1 = 1 /\ 0 + 2 = 2
    OBVIOUS
  <2> QED
    BY <1>1, <1>21, <2>1 DEF DashAt
<1>23. RestAt(w, d, part)
  BY <1>1, <1>5, <1>17, <1>18, <1>19, <1>20, <1>21 DEF RestAt
<1> QED
  BY <1>1, <1>5, <1>17, <1>22, <1>23

(* Where the characters of the closing are.                                *)
LEMMA ClosingIs ==
    ASSUME NEW w, w = Closing, NEW d, d = 2 + Len(boundary_)
    PROVE  w \in Seq(Chars) /\ Len(w) = d + 4 /\ DashAt(w, 0) /\ CloseAt(w, d)
<1>1. PICK b : b = Len(boundary_) /\ d = 2 + b
  OBVIOUS
<1>2. /\ b \in Nat /\ boundary_ \in Seq(Chars)
      /\ dash_ \in Seq(Chars) /\ Len(dash_) = 2 /\ dash_[1] = "-" /\ dash_[2] = "-"
      /\ crlf_ \in Seq(Chars) /\ Len(crlf_) = 2 /\ crlf_[1] = "CR" /\ crlf_[2] = "LF"
  BY <1>1, Patterns
<1>3. PICK s1, s2 : s1 = dash_ \o boundary_ /\ s2 = s1 \o dash_
  OBVIOUS
<1>4. w = s2 \o crlf_
  BY <1>3 DEF Closing
<1>5. PICK m : m = 2 /\ m = Len(dash_) /\ m \in Nat
  BY <1>2
<1>6. d \in Nat /\ d = m + b
  BY <1>1, <1>2, <1>5
<1>7. Concat(s1, dash_, boundary_, m, b)
  BY <1>1, <1>2, <1>3, <1>5, ConcatText, Zenon
<1>8. s1 \in Seq(Chars) /\ d = Len(s1)
  BY <1>6, <1>7 DEF Concat
<1>9. Concat(s2, s1, dash_, d, m)
  BY <1>2, <1>3, <1>5, <1>8, ConcatText, Zenon
<1>10. PICK e \in Nat : e = d + m
  BY <1>5, <1>6
<1>11. s2 \in Seq(Chars) /\ e = Len(s2)
  BY <1>9, <1>10 DEF Concat
<1>16. Broken(w, s2, e)
  BY <1>4, <1>11, BrokenText, Zenon
<1>12. /\ e + 2 = d + 4 /\ e + 1 = d + 3 /\ 1 \in 1..m /\ 2 \in 1..m
       /\ d + 1 \in 1..e /\ d + 2 \in 1..e
       /\ 1 \in 1..d /\ 2 \in 1..d /\ \A k \in 1..d : k \in 1..e
       /\ \A j \in 1..b : 2 + j \in 1..d /\ 2 + j = m + j
  BY <1>2, <1>5, <1>6, <1>10
<1>13. w[d + 3] = "CR" /\ w[d + 4] = "LF" /\ w[d + 1] = "-" /\ w[d + 2] = "-"
  BY <1>2, <1>9, <1>12, <1>16 DEF Concat, Broken
<1>14. w[1] = "-" /\ w[2] = "-" /\ \A j \in 1..b : w[2 + j] = boundary_[j]
  <2>1. \A k \in 1..d : w[k] = s1[k]
    BY <1>9, <1>12, <1>16 DEF Concat, Broken
  <2>2. /\ \A k \in 1..2 : s1[k] = dash_[k]
        /\ \A j \in 1..b : s1[2 + j] = boundary_[j]
    BY <1>5, <1>7 DEF Concat
  <2>3. s1[1] = "-" /\ s1[2] = "-"
    BY <1>2, <2>2
  <2> QED
    BY <1>12, <2>1, <2>2, <2>3
<1>15. DashAt(w, 0)
  <2>1. 0 + 1 = 1 /\ 0 + 2 = 2
    OBVIOUS
  <2> QED
    BY <1>1, <1>14, <2>1 DEF DashAt
<1> QED
  BY <1>12, <1>16, <1>13, <1>15 DEF CloseAt, Broken

(* Sums that place the characters of a part.                               *)
ShiftSums(e, b, d, l) ==
    /\ 1 \in 1..d + 9 + l /\ 2 \in 1..d + 9 + l
    /\ \A j \in 1..b : 2 + j \in 1..d + 9 + l /\ e + (2 + j) = e + 2 + j
    /\ \A i \in 1..7 : d + i \in 1..d + 9 + l /\ e + (d + i) = e + d + i
    /\ d + 8 + l \in 1..d + 9 + l /\ e + (d + 8 + l) = e + d + 8 + l
    /\ d + 9 + l \in 1..d + 9 + l /\ e + (d + 9 + l) = e + d + 9 + l
    /\ \A j \in 1..l : d + 7 + j \in 1..d + 9 + l /\ e + (d + 7 + j) = e + d + 7 + j

(* Adding is associative in the sums below.                                *)
LEMMA ShiftAdds ==
    ASSUME NEW e \in Nat, NEW b \in Nat, NEW d \in Nat, d = 2 + b, NEW l \in Nat
    PROVE  ShiftSums(e, b, d, l)
  BY DEF ShiftSums

(* A text that holds another, of m characters, after e characters; and one *)
(* that holds a part there, or the end.                                    *)
Holds(w, e, s, m) == \A k \in 1..m : w[e + k] = s[k]

PartAt(w, e, d, part) == DashAt(w, e) /\ RestAt(w, e + d, part)
EndAt(w, e, d) == DashAt(w, e) /\ CloseAt(w, e + d)

(* A text that holds the text of a part after e characters has that part   *)
(* there.                                                                  *)
LEMMA ShiftPart ==
    ASSUME NEW part \in FormPart, NEW s, NEW w, NEW e \in Nat, NEW d, d = 2 + Len(boundary_),
           NEW l, l = Len(part.content), NEW m, m = d + 9 + l, Holds(w, e, s, m),
           DashAt(s, 0), RestAt(s, d, part)
    PROVE  PartAt(w, e, d, part)
<1>1. PICK b \in Nat : b = Len(boundary_) /\ d = 2 + b
  BY Patterns
<1>2. l \in Nat /\ d \in Nat
  BY <1>1 DEF FormPart
<1>20. \A k \in 1..d + 9 + l : w[e + k] = s[k]
  BY DEF Holds
<1>21. ShiftSums(e, b, d, l)
  BY <1>1, <1>2, ShiftAdds, Zenon
<1>3. /\ s[1] = "-" /\ s[2] = "-" /\ \A j \in 1..b : s[2 + j] = boundary_[j]
  <2>1. 0 + 1 = 1 /\ 0 + 2 = 2
    OBVIOUS
  <2> QED
    BY <1>1, <2>1 DEF DashAt
<1>4. DashAt(w, e)
  <2>1. /\ 1 \in 1..d + 9 + l /\ 2 \in 1..d + 9 + l
        /\ \A j \in 1..b : 2 + j \in 1..d + 9 + l /\ e + (2 + j) = e + 2 + j
    BY <1>21 DEF ShiftSums
  <2>2. w[e + 1] = "-" /\ w[e + 2] = "-"
    BY <1>3, <1>20, <2>1
  <2>3. ASSUME NEW j \in 1..b PROVE w[e + 2 + j] = boundary_[j]
    BY <1>3, <1>20, <2>1
  <2> QED
    BY <1>1, <2>2, <2>3 DEF DashAt
<1>5. RestAt(w, e + d, part)
  <2>1. /\ \A i \in 1..7 : d + i \in 1..d + 9 + l /\ e + (d + i) = e + d + i
        /\ d + 8 + l \in 1..d + 9 + l /\ e + (d + 8 + l) = e + d + 8 + l
        /\ d + 9 + l \in 1..d + 9 + l /\ e + (d + 9 + l) = e + d + 9 + l
        /\ \A j \in 1..l : d + 7 + j \in 1..d + 9 + l /\ e + (d + 7 + j) = e + d + 7 + j
    BY <1>21 DEF ShiftSums
  <2>2. \A i \in 1..7 : w[e + d + i] = s[d + i]
    BY <1>20, <2>1
  <2>3. /\ w[e + d + 1] = s[d + 1] /\ w[e + d + 2] = s[d + 2] /\ w[e + d + 3] = s[d + 3]
        /\ w[e + d + 4] = s[d + 4] /\ w[e + d + 5] = s[d + 5] /\ w[e + d + 6] = s[d + 6]
        /\ w[e + d + 7] = s[d + 7]
    BY <2>2
  <2>4. w[e + d + 8 + l] = s[d + 8 + l] /\ w[e + d + 9 + l] = s[d + 9 + l]
    BY <1>20, <2>1
  <2>5. \A j \in 1..l : w[e + d + 7 + j] = s[d + 7 + j]
    BY <1>20, <2>1
  <2>6. /\ s[d + 1] = "CR" /\ s[d + 2] = "LF" /\ s[d + 3] = part.name
        /\ s[d + 4] = "CR" /\ s[d + 5] = "LF" /\ s[d + 6] = "CR" /\ s[d + 7] = "LF"
        /\ \A j \in 1..l : s[d + 7 + j] = part.content[j]
        /\ s[d + 8 + l] = "CR" /\ s[d + 9 + l] = "LF"
    BY DEF RestAt
  <2> QED
    BY <2>3, <2>4, <2>5, <2>6 DEF RestAt
<1> QED
  BY <1>4, <1>5 DEF PartAt

(* The same for the closing.                                               *)
LEMMA ShiftClosing ==
    ASSUME NEW s, NEW w, NEW e \in Nat, NEW d, d = 2 + Len(boundary_),
           NEW m, m = d + 4, Holds(w, e, s, m), DashAt(s, 0), CloseAt(s, d)
    PROVE  EndAt(w, e, d)
<1>1. PICK b \in Nat : b = Len(boundary_) /\ d = 2 + b
  BY Patterns
<1>2. d \in Nat
  BY <1>1
<1>20. \A k \in 1..d + 4 : w[e + k] = s[k]
  BY DEF Holds
<1>3. /\ s[1] = "-" /\ s[2] = "-" /\ \A j \in 1..b : s[2 + j] = boundary_[j]
  <2>1. 0 + 1 = 1 /\ 0 + 2 = 2
    OBVIOUS
  <2> QED
    BY <1>1, <2>1 DEF DashAt
<1>4. DashAt(w, e)
  <2>1. /\ 1 \in 1..d + 4 /\ 2 \in 1..d + 4
        /\ \A j \in 1..b : 2 + j \in 1..d + 4 /\ e + (2 + j) = e + 2 + j
    BY <1>1, <1>2
  <2>2. w[e + 1] = "-" /\ w[e + 2] = "-"
    BY <1>3, <1>20, <2>1
  <2>3. ASSUME NEW j \in 1..b PROVE w[e + 2 + j] = boundary_[j]
    BY <1>3, <1>20, <2>1
  <2> QED
    BY <1>1, <2>2, <2>3 DEF DashAt
<1>5. \A i \in 1..4 : w[e + d + i] = s[d + i]
  <2>1. \A i \in 1..4 : d + i \in 1..d + 4 /\ e + (d + i) = e + d + i
    BY <1>2
  <2> QED
    BY <1>20, <2>1
<1>6. CloseAt(w, e + d)
  BY <1>5 DEF CloseAt
<1> QED
  BY <1>4, <1>6 DEF EndAt

(* o[i] is where part i begins in w, and the closing after the last one.   *)
Layout(o, parts, w, n, d) ==
    /\ n = Len(parts) /\ n \in Nat /\ d = 2 + Len(boundary_) /\ d \in Nat /\ d >= 2
    /\ o[1] = 0
    /\ \A i \in 1..n + 1 : o[i] \in Nat /\ o[i] <= Len(w) /\ DashAt(w, o[i])
    /\ \A i \in 1..n : /\ parts[i] \in FormPart
                       /\ RestAt(w, o[i] + d, parts[i])
                       /\ o[i + 1] = o[i] + d + 9 + Len(parts[i].content)
    /\ CloseAt(w, o[n + 1] + d)
    /\ w \in Seq(Chars) /\ Len(w) \in Nat /\ Len(w) = o[n + 1] + d + 4

(* What a client writes for any parts is laid out part by part.            *)
LEMMA LayoutExists ==
    ASSUME NEW parts \in Seq(FormPart), NEW w, w = Encode(parts)
    PROVE  \E o, n, d : Layout(o, parts, w, n, d)
<1> DEFINE enc == [i \in DOMAIN parts |-> PartText(parts[i])]
<1>1. PICK n \in Nat : n = Len(parts) /\ DOMAIN parts = 1..n
  OBVIOUS
<1>2. PICK d : d = 2 + Len(boundary_)
  OBVIOUS
<1>3. d \in Nat /\ d >= 2
  <2>1. PICK b \in Nat : b = Len(boundary_)
    BY Patterns
  <2> QED
    BY <1>2, <2>1
<1>4. \A i \in 1..n : parts[i] \in FormPart
  BY <1>1
<1>5. ASSUME NEW i \in 1..n
      PROVE  /\ PartText(parts[i]) \in Seq(Chars)
             /\ Len(PartText(parts[i])) = d + 9 + Len(parts[i].content)
             /\ Len(parts[i].content) \in Nat
  <2>1. parts[i] \in FormPart
    BY <1>4
  <2>2. Len(parts[i].content) \in Nat
    BY <2>1 DEF FormPart
  <2> QED
    BY <1>2, <2>1, <2>2, PartTextIs
<1>6. enc \in Pieces(Chars) /\ Len(enc) = n /\ \A i \in 1..n : enc[i] = PartText(parts[i])
  <2>1. enc \in [1..n -> Seq(Chars)]
    BY <1>1, <1>5
  <2>2. PICK f : f = enc
    OBVIOUS
  <2>3. f \in Seq(Seq(Chars)) /\ Len(f) = n
    BY <2>1, <2>2
  <2> QED
    BY <1>1, <2>2, <2>3 DEF Pieces
<1>7. Encode(parts) = FlattenSeq(enc) \o Closing
  BY DEF Encode
<1> HIDE DEF enc
<1>8. PICK P : Joins(P, enc, Chars)
  BY <1>6, JoinsExists
<1>9. PICK f, c : f = FlattenSeq(enc) /\ c = Closing
  OBVIOUS
<1>10. f \in Seq(Chars) /\ f = P[n]
  BY <1>6, <1>8, <1>9, FlattenType, FlattenJoins
<1>11. PICK l \in Nat : l = Len(f) /\ l = End(P, n)
  BY <1>10 DEF End
<1>12. c \in Seq(Chars) /\ Len(c) = d + 4 /\ DashAt(c, 0) /\ CloseAt(c, d)
  BY <1>2, <1>9, ClosingIs
<1>13. PICK m : m = Len(c) /\ m = d + 4
  BY <1>12
<1>14. Concat(w, f, c, l, m)
  <2>1. w = f \o c
    BY <1>7, <1>9
  <2> QED
    BY <1>10, <1>11, <1>12, <1>13, <2>1, ConcatText, Zenon
<1>15. PICK o : o = [i \in 1..n + 1 |-> End(P, i - 1)]
  OBVIOUS
<1>16. o[1] = 0
  <2>1. 1 \in 1..n + 1 /\ 1 - 1 = 0
    BY <1>1
  <2>2. P[0] = <<>>
    BY <1>8 DEF Joins
  <2>3. End(P, 0) = 0
    BY <2>2 DEF End
  <2> QED
    BY <1>15, <2>1, <2>3
<1>17. o[n + 1] = l
  <2>1. n + 1 \in 1..n + 1 /\ n + 1 - 1 = n
    BY <1>1
  <2> QED
    BY <1>11, <1>15, <2>1
<1>18. \A i \in 1..n + 1 : o[i] \in Nat /\ o[i] <= l
  <2> SUFFICES ASSUME NEW i \in 1..n + 1 PROVE o[i] \in Nat /\ o[i] <= l
    OBVIOUS
  <2>1. PICK k \in 0..n : k = i - 1
    BY <1>1
  <2>2. n \in 0..n /\ k <= n
    BY <1>1, <2>1
  <2>3. End(P, k) \in Nat /\ End(P, k) <= End(P, n)
    BY <1>6, <1>8, <2>1, <2>2, JoinsPrefix
  <2> QED
    BY <1>11, <1>15, <2>1, <2>3
<1>19. ASSUME NEW i \in 1..n
       PROVE  /\ o[i + 1] = o[i] + d + 9 + Len(parts[i].content)
              /\ DashAt(w, o[i]) /\ RestAt(w, o[i] + d, parts[i])
  <2>1. PICK h \in 0..n : h = i - 1
    BY <1>1
  <2>2. o[i] = End(P, h) /\ o[i + 1] = End(P, i)
    <3>1. i \in 1..n + 1 /\ i + 1 \in 1..n + 1 /\ i + 1 - 1 = i
      BY <1>1
    <3> QED
      BY <1>15, <2>1, <3>1
  <2>3. PICK q, k : q = PartText(parts[i]) /\ k = Len(parts[i].content)
    OBVIOUS
  <2>4. q = enc[i] /\ q \in Seq(Chars) /\ Len(q) = d + 9 + k /\ k \in Nat
    BY <1>5, <1>6, <2>3
  <2>5. DashAt(q, 0) /\ RestAt(q, d, parts[i]) /\ parts[i] \in FormPart
    BY <1>2, <1>4, <2>3, PartTextIs
  <2>6. End(P, i) = End(P, h) + Len(q)
    <3>1. PICK z : z = enc
      OBVIOUS
    <3>2. z \in Pieces(Chars) /\ Joins(P, z, Chars) /\ i \in 1..Len(z) /\ h \in 0..Len(z) /\ q = z[i]
      BY <1>6, <1>8, <2>1, <2>4, <3>1
    <3> QED
      BY <2>1, <3>2, JoinsLen
  <2>7. \A j \in 1..Len(q) : End(P, h) + j \in 1..Len(f) /\ f[End(P, h) + j] = q[j]
    BY <1>6, <1>8, <1>9, <2>1, <2>4, FlattenAt, SMTT(30)
  <2>8. PICK e \in Nat : e = o[i] /\ e = End(P, h)
    <3>1. i \in 1..n + 1
      BY <1>1
    <3> QED
      BY <1>18, <2>2, <3>1
  <2>9. PICK a : a = d + 9 + k
    OBVIOUS
  <2>13. Holds(w, e, q, a)
    <3>1. \A j \in 1..l : w[j] = f[j]
      BY <1>14 DEF Concat
    <3>2. \A j \in 1..d + 9 + k : e + j \in 1..l /\ f[e + j] = q[j]
      BY <1>11, <2>4, <2>7, <2>8
    <3> QED
      BY <2>9, <3>1, <3>2 DEF Holds
  <2>14. PartAt(w, e, d, parts[i])
    BY <1>2, <2>3, <2>5, <2>8, <2>9, <2>13, ShiftPart, Zenon
  <2>10. DashAt(w, e) /\ RestAt(w, e + d, parts[i])
    BY <2>14 DEF PartAt
  <2>11. o[i + 1] = e + (d + 9 + k)
    BY <2>2, <2>4, <2>6, <2>8
  <2>12. e + (d + 9 + k) = e + d + 9 + k
    BY <1>3, <2>4
  <2> QED
    BY <2>3, <2>8, <2>10, <2>11, <2>12
<1>20. DashAt(w, l) /\ CloseAt(w, l + d)
  <2>1. Holds(w, l, c, m)
    BY <1>13, <1>14 DEF Concat, Holds
  <2>2. EndAt(w, l, d)
    BY <1>2, <1>11, <1>12, <1>13, <2>1, ShiftClosing, Zenon
  <2> QED
    BY <2>2 DEF EndAt
<1>21. w \in Seq(Chars) /\ Len(w) = l + (d + 4)
  BY <1>13, <1>14 DEF Concat
<1>22. PICK t \in Nat : t = Len(w) /\ t = l + d + 4 /\ l <= t
  BY <1>3, <1>21
<1>23. \A i \in 1..n + 1 : o[i] \in Nat /\ o[i] <= t /\ DashAt(w, o[i])
  <2> SUFFICES ASSUME NEW i \in 1..n + 1 PROVE o[i] \in Nat /\ o[i] <= t /\ DashAt(w, o[i])
    OBVIOUS
  <2>1. o[i] \in Nat /\ o[i] <= t
    BY <1>18, <1>22
  <2>2. i \in 1..n \/ i = n + 1
    BY <1>1
  <2>3. DashAt(w, o[i])
    BY <1>17, <1>19, <1>20, <2>2
  <2> QED
    BY <2>1, <2>3
<1>24. Layout(o, parts, w, n, d)
  BY <1>1, <1>2, <1>3, <1>4, <1>16, <1>17, <1>19, <1>20, <1>21, <1>22, <1>23, Zenon DEF Layout
<1> QED
  BY <1>24

-----------------------------------------------------------------------------
(* The boundary after a line break is where a part begins or the form      *)
(* ends, and nowhere else, unless a content holds dash and boundary.       *)
DashBoundary == dash_ \o boundary_

(* Two dashes and the boundary, character by character.                    *)
LEMMA DashBoundaryIs ==
    ASSUME NEW b, b = Len(boundary_)
    PROVE  /\ DashBoundary \in Seq(Chars) /\ Len(DashBoundary) = 2 + b
           /\ DashBoundary[1] = "-" /\ DashBoundary[2] = "-"
           /\ \A j \in 1..b : DashBoundary[2 + j] = boundary_[j]
<1>1. PICK s : s = DashBoundary /\ s = dash_ \o boundary_
  BY DEF DashBoundary
<1>2. PICK m : m = 2 /\ m = Len(dash_)
  BY Patterns
<1>3. /\ b \in Nat /\ boundary_ \in Seq(Chars)
      /\ dash_ \in Seq(Chars) /\ dash_[1] = "-" /\ dash_[2] = "-"
  BY Patterns
<1>4. Concat(s, dash_, boundary_, m, b)
  BY <1>1, <1>2, <1>3, ConcatText, Zenon
<1>5. 1 \in 1..m /\ 2 \in 1..m
  BY <1>2
<1> QED
  BY <1>1, <1>2, <1>3, <1>4, <1>5 DEF Concat

(* After a line break the boundary stands in w at s.                       *)
BreakAt(w, s) == w[s - 1] = "CR" /\ w[s] = "LF" /\ DashAt(w, s)

(* A boundary after a line break inside of a part would be in the part's   *)
(* content.                                                                *)
LEMMA BreakInPart ==
    ASSUME NEW w, NEW e \in Nat, NEW d, d = 2 + Len(boundary_), NEW part \in FormPart,
           DashAt(w, e), RestAt(w, e + d, part), e = 0 \/ w[e] = "LF",
           Find(part.content, DashBoundary) = npos,
           NEW s \in Nat, s >= 2, e < s, s < e + d + 9 + Len(part.content), BreakAt(w, s)
    PROVE  FALSE
<1>1. PICK b \in Nat, l \in Nat : b = Len(boundary_) /\ d = 2 + b /\ l = Len(part.content)
  <2>1. part.content \in Seq(Chars)
    BY DEF FormPart
  <2>2. Len(part.content) \in Nat
    BY <2>1
  <2> QED
    BY <2>2, Patterns
<1>2. \A j \in 1..b : boundary_[j] # "CR"
  <2>1. DOMAIN boundary_ = 1..b
    BY <1>1, Patterns
  <2> QED
    BY <2>1, MultipartAssumption
<1>3. part.name \notin {"CR", "LF", "-"}
  BY MultipartAssumption DEF FormPart
<1>4. PICK k \in Nat : k = e + d
  BY <1>1
<1>5. /\ w[k + 1] = "CR" /\ w[k + 2] = "LF" /\ w[k + 3] = part.name
      /\ w[k + 4] = "CR" /\ w[k + 5] = "LF" /\ w[k + 6] = "CR" /\ w[k + 7] = "LF"
      /\ \A j \in 1..l : w[k + 7 + j] = part.content[j]
      /\ w[k + 8 + l] = "CR" /\ w[k + 9 + l] = "LF"
  BY <1>1, <1>4 DEF RestAt
<1>6. w[e + 1] = "-" /\ w[e + 2] = "-" /\ \A j \in 1..b : w[e + 2 + j] = boundary_[j]
  BY <1>1 DEF DashAt
<1>7. /\ w[s - 1] = "CR" /\ w[s] = "LF" /\ w[s + 1] = "-" /\ w[s + 2] = "-"
      /\ \A j \in 1..b : w[s + 2 + j] = boundary_[j]
  BY <1>1 DEF BreakAt, DashAt
<1>8. s # e + 1
  <2> SUFFICES ASSUME s = e + 1 PROVE FALSE
    OBVIOUS
  <2>1. s - 1 = e /\ e # 0
    OBVIOUS
  <2> QED
    BY <1>7, <2>1
<1>9. s # e + 2 /\ s # e + 3
  <2>1. (s = e + 2 => s - 1 = e + 1) /\ (s = e + 3 => s - 1 = e + 2)
    OBVIOUS
  <2> QED
    BY <1>6, <1>7, <2>1
<1>10. ~(e + 3 < s /\ s <= e + 3 + b)
  <2> SUFFICES ASSUME e + 3 < s, s <= e + 3 + b PROVE FALSE
    OBVIOUS
  <2>1. PICK j \in 1..b : s - 1 = e + 2 + j
    <3>1. s - e - 3 \in 1..b /\ s - 1 = e + 2 + (s - e - 3)
      BY <1>1
    <3> QED
      BY <3>1
  <2> QED
    BY <1>2, <1>6, <1>7, <2>1
<1>11. s # k + 2 /\ s # k + 3 /\ s # k + 4 /\ s # k + 5 /\ s # k + 6
  <2>1. /\ s = k + 2 => s + 1 = k + 3
        /\ s = k + 3 => s - 1 = k + 2
        /\ s = k + 4 => s - 1 = k + 3
        /\ s = k + 5 => s + 1 = k + 6
        /\ s = k + 6 => s - 1 = k + 5
    OBVIOUS
  <2> QED
    BY <1>3, <1>5, <1>7, <2>1
<1>12. s >= k + 7 /\ s < k + 9 + l
  <2>1. s = e + 1 \/ s = e + 2 \/ s = e + 3 \/ (e + 3 < s /\ s <= e + 3 + b) \/ s > e + 3 + b
    OBVIOUS
  <2>2. s > e + 3 + b
    BY <1>8, <1>9, <1>10, <2>1
  <2>3. k + 1 = e + 3 + b
    BY <1>1, <1>4
  <2>4. s > k + 1
    BY <2>2, <2>3
  <2>5. s = k + 2 \/ s = k + 3 \/ s = k + 4 \/ s = k + 5 \/ s = k + 6 \/ s >= k + 7
    BY <2>4
  <2>6. s >= k + 7
    BY <1>11, <2>5
  <2>7. s < k + 9 + l
    BY <1>1, <1>4
  <2> QED
    BY <2>6, <2>7
<1>13. PICK y \in Nat : s = k + 7 + y /\ y <= l + 1
  <2>1. s - (k + 7) \in Nat /\ s = k + 7 + (s - (k + 7)) /\ s - (k + 7) <= l + 1
    BY <1>12
  <2> QED
    BY <2>1
<1>14. y # l /\ y # l + 1
  <2>1. (y = l => s + 1 = k + 8 + l) /\ (y = l + 1 => s + 1 = k + 9 + l)
    BY <1>13
  <2> QED
    BY <1>5, <1>7, <2>1
<1>15. y < l
  BY <1>13, <1>14
<1>16. CASE y + d <= l
  <2>1. PICK c, p : c = part.content /\ p = DashBoundary
    OBVIOUS
  <2>2. /\ p \in Seq(Chars) /\ Len(p) = d /\ p[1] = "-" /\ p[2] = "-"
        /\ \A j \in 1..b : p[2 + j] = boundary_[j]
    BY <1>1, <2>1, DashBoundaryIs
  <2>3. c \in Seq(Chars) /\ Len(c) = l
    BY <1>1, <2>1 DEF FormPart
  <2>4. \A j \in 1..d : c[y + j] = w[s + j]
    <3>1. \A j \in 1..d : y + j \in 1..l /\ s + j = k + 7 + (y + j)
      BY <1>1, <1>13, <1>16
    <3> QED
      BY <1>5, <2>1, <3>1
  <2>5. \A j \in 1..d : w[s + j] = p[j]
    <3> SUFFICES ASSUME NEW j \in 1..d PROVE w[s + j] = p[j]
      OBVIOUS
    <3>1. j = 1 \/ j = 2 \/ j \in 3..d
      BY <1>1
    <3>2. CASE j \in 3..d
      <4>1. PICK i \in 1..b : j = 2 + i
        <5>1. j - 2 \in 1..b /\ j = 2 + (j - 2)
          BY <1>1, <3>2
        <5> QED
          BY <5>1
      <4>2. s + j = s + 2 + i
        BY <4>1
      <4> QED
        BY <1>7, <2>2, <4>1, <4>2
    <3> QED
      BY <1>7, <2>2, <3>1, <3>2
  <2>6. Occurs(c, p, y)
    <3>1. y \in 0..l - d
      BY <1>1, <1>16
    <3> QED
      BY <2>2, <2>3, <2>4, <2>5, <3>1 DEF Occurs
  <2>7. Find(c, p) = npos
    BY <2>1
  <2> QED
    BY <2>2, <2>3, <2>6, <2>7, FindIs
<1>17. CASE y + d > l
  <2>1. PICK z \in Nat : z = l - y + 1 /\ 1 <= z /\ z <= d
    <3>1. l - y + 1 \in Nat /\ 1 <= l - y + 1 /\ l - y + 1 <= d
      BY <1>1, <1>15, <1>17
    <3> QED
      BY <3>1
  <2>2. s + z = k + 8 + l
    BY <1>13, <2>1
  <2>3. w[s + z] = "CR"
    BY <1>5, <2>2
  <2>4. z = 1 \/ z = 2 \/ z \in 3..d
    BY <1>1, <2>1, SMTT(30)
  <2>5. CASE z \in 3..d
    <3>1. PICK i \in 1..b : s + z = s + 2 + i
      <4>1. z - 2 \in 1..b /\ s + z = s + 2 + (z - 2)
        BY <1>1, <2>5
      <4> QED
        BY <4>1
    <3> QED
      BY <1>2, <1>7, <2>3, <3>1
  <2> QED
    BY <1>7, <2>3, <2>4, <2>5
<1> QED
  BY <1>1, <1>16, <1>17

(* There is no boundary inside of the closing.                             *)
LEMMA BreakInClosing ==
    ASSUME NEW w, NEW e \in Nat, NEW d, d = 2 + Len(boundary_),
           DashAt(w, e), CloseAt(w, e + d), e = 0 \/ w[e] = "LF",
           NEW s \in Nat, s >= 2, e < s, s + d <= e + d + 4, BreakAt(w, s)
    PROVE  FALSE
<1>1. PICK b \in Nat : b = Len(boundary_) /\ d = 2 + b
  BY Patterns
<1>2. \A j \in 1..b : boundary_[j] # "CR"
  <2>1. DOMAIN boundary_ = 1..b
    BY <1>1, Patterns
  <2> QED
    BY <2>1, MultipartAssumption
<1>3. w[s - 1] = "CR" /\ w[s] = "LF" /\ w[s + 1] = "-"
  BY DEF BreakAt, DashAt
<1>4. /\ w[e + 1] = "-" /\ w[e + 2] = "-" /\ \A j \in 1..b : w[e + 2 + j] = boundary_[j]
      /\ w[e + d + 1] = "-" /\ w[e + d + 2] = "-" /\ w[e + d + 3] = "CR" /\ w[e + d + 4] = "LF"
  BY <1>1 DEF DashAt, CloseAt
<1>5. s = e + 1 \/ s = e + 2 \/ s = e + 3 \/ s = e + 4
  BY <1>1
<1>6. s # e + 1
  <2> SUFFICES ASSUME s = e + 1 PROVE FALSE
    OBVIOUS
  <2>1. s - 1 = e /\ e # 0
    OBVIOUS
  <2> QED
    BY <1>3, <2>1
<1>7. s # e + 2 /\ s # e + 3
  <2>1. (s = e + 2 => s - 1 = e + 1) /\ (s = e + 3 => s - 1 = e + 2)
    OBVIOUS
  <2> QED
    BY <1>3, <1>4, <2>1
<1>8. s # e + 4
  <2> SUFFICES ASSUME s = e + 4 PROVE FALSE
    OBVIOUS
  <2>1. s - 1 = e + 3
    OBVIOUS
  <2>2. CASE b = 0
    <3>1. e + 3 = e + d + 1
      BY <1>1, <2>2
    <3> QED
      BY <1>3, <1>4, <2>1, <3>1
  <2>3. CASE b # 0
    <3>1. 1 \in 1..b /\ e + 3 = e + 2 + 1
      BY <2>3
    <3>2. w[e + 2 + 1] = boundary_[1] /\ boundary_[1] # "CR"
      BY <1>2, <1>4, <3>1
    <3> QED
      BY <1>3, <2>1, <3>1, <3>2
  <2> QED
    BY <2>2, <2>3
<1> QED
  BY <1>5, <1>6, <1>7, <1>8

(* The part or the closing that a place of the text belongs to.            *)
LEMMA LayoutFrom ==
    ASSUME NEW o, NEW parts, NEW w, NEW n, NEW d, Layout(o, parts, w, n, d), NEW x \in Nat
    PROVE  \E i \in 1..n + 1 : o[i] <= x /\ (i # n + 1 => x < o[i + 1])
<1>1. n \in Nat /\ o[1] = 0 /\ \A i \in 1..n + 1 : o[i] \in Nat
  BY DEF Layout
<1> DEFINE Past == {i \in 2..n + 1 : x < o[i]}
<1>2. CASE Past = {}
  <2>1. n + 1 \in 1..n + 1 /\ (n + 1 = 1 \/ n + 1 \in 2..n + 1)
    BY <1>1
  <2>2. o[n + 1] <= x
    BY <1>1, <1>2, <2>1
  <2> QED
    BY <2>1, <2>2
<1>3. CASE Past # {}
  <2>1. Past \in SUBSET Nat
    OBVIOUS
  <2>2. PICK k \in Past : \A i \in Past : k <= i
    BY <1>3, <2>1, LeastElement
  <2>3. k \in 2..n + 1 /\ x < o[k]
    OBVIOUS
  <2>4. PICK i \in 1..n + 1 : i + 1 = k /\ i # n + 1
    <3>1. k - 1 \in 1..n + 1 /\ k - 1 + 1 = k /\ k - 1 # n + 1
      BY <1>1, <2>3
    <3> QED
      BY <3>1
  <2>5. o[i] <= x
    <3>1. i \notin Past
      BY <2>2, <2>4
    <3>2. i = 1 \/ i \in 2..n + 1
      BY <2>4
    <3> QED
      BY <1>1, <3>1, <3>2
  <2> QED
    BY <2>3, <2>4, <2>5
<1> QED
  BY <1>2, <1>3

(* Before every part but the first, and before the closing, is the line    *)
(* break of the part before.                                               *)
LEMMA LayoutBreak ==
    ASSUME NEW o, NEW parts, NEW w, NEW n, NEW d, Layout(o, parts, w, n, d),
           NEW i \in 1..n + 1, i # 1
    PROVE  o[i] >= 2 /\ w[o[i] - 1] = "CR" /\ w[o[i]] = "LF"
<1>1. n \in Nat /\ d \in Nat /\ \A k \in 1..n + 1 : o[k] \in Nat
  BY DEF Layout
<1>2. PICK h \in 1..n : h + 1 = i /\ h \in 1..n + 1
  <2>1. i - 1 \in 1..n /\ i - 1 + 1 = i /\ i - 1 \in 1..n + 1
    BY <1>1
  <2> QED
    BY <2>1
<1>3. /\ parts[h] \in FormPart /\ RestAt(w, o[h] + d, parts[h])
      /\ o[h + 1] = o[h] + d + 9 + Len(parts[h].content)
  BY DEF Layout
<1>4. PICK k \in Nat, l \in Nat : k = o[h] + d /\ l = Len(parts[h].content)
  <2>1. parts[h].content \in Seq(Chars)
    BY <1>3 DEF FormPart
  <2>2. Len(parts[h].content) \in Nat
    BY <2>1
  <2>3. o[h] + d \in Nat
    BY <1>1, <1>2
  <2> QED
    BY <2>2, <2>3
<1>5. o[i] = k + 9 + l /\ k + 8 + l = o[i] - 1 /\ o[i] >= 2
  <2>1. PICK a \in Nat, c \in Nat : a = o[h] /\ c = o[i]
    BY <1>1, <1>2
  <2>2. c = a + d + 9 + l /\ k = a + d
    BY <1>2, <1>3, <1>4, <2>1
  <2>3. c = k + 9 + l /\ k + 8 + l = c - 1 /\ c >= 2
    <3>1. c = k + 9 + l
      BY <1>1, <2>1, <2>2
    <3> QED
      BY <3>1
  <2> QED
    BY <2>1, <2>3
<1>6. w[k + 8 + l] = "CR" /\ w[k + 9 + l] = "LF"
  BY <1>3, <1>4 DEF RestAt
<1> QED
  BY <1>5, <1>6

(* So every boundary after a line break is one that the client wrote.      *)
LEMMA DelimPlaces ==
    ASSUME NEW o, NEW parts, NEW w, NEW n, NEW d, Layout(o, parts, w, n, d),
           \A i \in 1..n : Find(parts[i].content, DashBoundary) = npos,
           NEW s \in Nat, s >= 2, s + d <= Len(w), BreakAt(w, s)
    PROVE  \E i \in 1..n + 1 : i # 1 /\ o[i] = s
<1>1. /\ n \in Nat /\ d = 2 + Len(boundary_) /\ d \in Nat /\ o[1] = 0
      /\ \A i \in 1..n + 1 : o[i] \in Nat /\ DashAt(w, o[i])
  BY DEF Layout
<1>2. PICK i \in 1..n + 1 : o[i] <= s /\ (i # n + 1 => s < o[i + 1])
  BY LayoutFrom
<1>3. PICK e \in Nat : e = o[i] /\ DashAt(w, e)
  BY <1>1
<1>4. e = 0 \/ w[e] = "LF"
  BY <1>1, <1>3, LayoutBreak
<1>5. CASE e = s
  <2>1. i # 1
    <3>1. o[1] # s
      BY <1>1
    <3>2. o[i] = s
      BY <1>3, <1>5
    <3> QED
      BY <3>1, <3>2
  <2> QED
    BY <1>3, <1>5, <2>1
<1>6. CASE e # s /\ i = n + 1
  <2>1. CloseAt(w, e + d) /\ Len(w) = e + d + 4
    BY <1>3, <1>6 DEF Layout
  <2>2. e < s /\ s + d <= e + d + 4
    BY <1>2, <1>3, <1>6, <2>1
  <2> QED
    BY <1>1, <1>3, <1>4, <2>1, <2>2, BreakInClosing, Zenon
<1>7. CASE e # s /\ i # n + 1
  <2>1. i \in 1..n
    BY <1>1, <1>7
  <2>2. /\ parts[i] \in FormPart /\ RestAt(w, e + d, parts[i])
        /\ o[i + 1] = e + d + 9 + Len(parts[i].content)
    BY <1>3, <2>1 DEF Layout
  <2>3. e < s /\ s < e + d + 9 + Len(parts[i].content)
    BY <1>2, <1>3, <1>7, <2>2
  <2>4. Find(parts[i].content, DashBoundary) = npos
    BY <2>1
  <2> QED
    BY <1>1, <1>3, <1>4, <2>2, <2>3, <2>4, BreakInPart, Zenon
<1> QED
  BY <1>5, <1>6, <1>7

-----------------------------------------------------------------------------
(* The buffer of a parser that has been fed the first m characters of w    *)
(* and has taken c of them.                                                *)
Fed(buf, w, c, m) ==
    /\ c \in 0..m /\ m \in 0..Len(w) /\ Len(w) \in Nat
    /\ buf \in Seq(Chars) /\ Len(buf) = m - c
    /\ \A k \in 1..m - c : buf[k] = w[c + k]

(* A buffer that loses x characters has taken x more.                      *)
LEMMA FedErase ==
    ASSUME NEW buf, NEW w, NEW c, NEW m, Fed(buf, w, c, m), NEW x \in 0..m - c, NEW e, e = c + x
    PROVE  Fed(Erase(buf, x), w, e, m)
<1>1. /\ c \in 0..m /\ m \in 0..Len(w) /\ Len(w) \in Nat
      /\ buf \in Seq(Chars) /\ Len(buf) = m - c
      /\ \A k \in 1..m - c : buf[k] = w[c + k]
  BY DEF Fed
<1>2. PICK s : s = Erase(buf, x)
  OBVIOUS
<1>3. x \in 0..Len(buf)
  BY <1>1
<1>4. s \in Seq(Chars) /\ Len(s) = Len(buf) - x /\ \A k \in 1..Len(buf) - x : s[k] = buf[x + k]
  BY <1>1, <1>2, <1>3, EraseType, Zenon
<1>5. /\ e \in 0..m /\ m - c - x = m - e
      /\ \A k \in 1..m - e : x + k \in 1..m - c /\ c + (x + k) = e + k
  BY <1>1
<1>6. s \in Seq(Chars) /\ Len(s) = m - e
  BY <1>1, <1>4, <1>5
<1>7. ASSUME NEW k \in 1..m - e PROVE s[k] = w[e + k]
  <2>1. s[k] = buf[x + k]
    BY <1>1, <1>4, <1>5
  <2> QED
    BY <1>1, <1>5, <2>1
<1> QED
  BY <1>1, <1>2, <1>5, <1>6, <1>7 DEF Fed

(* A buffer that gets the next piece has been fed that much more.          *)
LEMMA FedAppend ==
    ASSUME NEW buf, NEW w, NEW c, NEW m, Fed(buf, w, c, m), NEW piece \in Seq(Chars),
           NEW x, x = Len(piece), m + x <= Len(w), \A k \in 1..x : piece[k] = w[m + k],
           NEW g, g = m + x
    PROVE  Fed(buf \o piece, w, c, g)
<1>1. /\ c \in 0..m /\ m \in 0..Len(w) /\ Len(w) \in Nat
      /\ buf \in Seq(Chars) /\ Len(buf) = m - c
      /\ \A k \in 1..m - c : buf[k] = w[c + k]
  BY DEF Fed
<1>2. x \in Nat
  OBVIOUS
<1>7. PICK s : s = buf \o piece
  OBVIOUS
<1>8. PICK l \in Nat : l = m - c
  BY <1>1
<1>3. s = buf \o piece /\ l = m - c /\ l = Len(buf) /\ l \in Nat
  BY <1>1, <1>7, <1>8
<1>4. Concat(s, buf, piece, l, x)
  BY <1>1, <1>3, ConcatText, Zenon
<1>5. g \in 0..Len(w) /\ c \in 0..g /\ l + x = g - c
  BY <1>1, <1>2, <1>3
<1>6. ASSUME NEW k \in 1..g - c PROVE s[k] = w[c + k]
  <2>1. CASE k <= l
    <3>1. k \in 1..l /\ k \in 1..m - c
      BY <1>3, <2>1
    <3> QED
      BY <1>1, <1>4, <3>1 DEF Concat
  <2>2. CASE k > l
    <3>1. PICK j \in 1..x : k = l + j
      <4>1. k - l \in 1..x /\ k = l + (k - l)
        BY <1>2, <1>3, <1>5, <2>2
      <4> QED
        BY <4>1
    <3>2. c + k = m + j
      BY <1>1, <1>3, <3>1
    <3> QED
      BY <1>4, <3>1, <3>2 DEF Concat
  <2> QED
    BY <1>3, <1>5, <2>1, <2>2
<1> QED
  BY <1>1, <1>3, <1>4, <1>5, <1>6 DEF Fed, Concat

(* A pattern stands in the buffer where it stands in w.                    *)
Stands(w, s, m, pattern) ==
    s + Len(pattern) <= m /\ \A j \in 1..Len(pattern) : w[s + j] = pattern[j]

(* A pattern is in the buffer exactly where it stands in the text.         *)
LEMMA FedOccurs ==
    ASSUME NEW buf, NEW w, NEW c, NEW m, Fed(buf, w, c, m), NEW pattern \in Seq(Chars), NEW p \in Nat,
           NEW s, s = c + p
    PROVE  Occurs(buf, pattern, p) <=> Stands(w, s, m, pattern)
<1>1. /\ c \in 0..m /\ m \in Nat /\ Len(buf) = m - c
      /\ \A k \in 1..m - c : buf[k] = w[c + k]
  BY DEF Fed
<1>2. PICK l \in Nat : l = Len(pattern)
  OBVIOUS
<1>3. p \in 0..Len(buf) - l <=> c + p + l <= m
  BY <1>1, <1>2
<1>4. ASSUME c + p + l <= m, NEW j \in 1..l PROVE buf[p + j] = w[c + p + j]
  <2>1. p + j \in 1..m - c /\ c + (p + j) = c + p + j
    BY <1>1, <1>2, <1>4
  <2> QED
    BY <1>1, <2>1
<1> QED
  BY <1>2, <1>3, <1>4 DEF Occurs, Stands

-----------------------------------------------------------------------------
(* The parser never fails on a form whose contents do not hold the         *)
(* boundary, and it has taken all of the text when it is done: it has      *)
(* found nothing but boundaries that the client wrote.                     *)
Taken(q, m) == m - Len(q.buf)

Sound(q, o, w, n, d, m) ==
    LET c == Taken(q, m)
    IN  /\ q \in Parsers /\ q.loop # "fail"
        /\ Fed(q.buf, w, c, m)
        /\ q.state = 0 => c = 0
        /\ q.state = 4 => \E i \in 1..n + 1 : i # 1 /\ c = o[i] + d
        /\ q.state = 5 => c = Len(w)

(* Sound parsers, from what they have taken.                               *)
LEMMA SoundIs ==
    ASSUME NEW o, NEW w, NEW n, NEW d, NEW m, NEW c, NEW q \in Parsers, q.loop # "fail",
           Fed(q.buf, w, c, m),
           q.state = 0 => c = 0,
           q.state = 4 => \E i \in 1..n + 1 : i # 1 /\ c = o[i] + d,
           q.state = 5 => c = Len(w)
    PROVE  Sound(q, o, w, n, d, m)
<1>1. c = Taken(q, m)
  BY DEF Taken, Fed
<1> QED
  BY <1>1 DEF Sound

(* What Sound says, with the number of taken characters at hand.           *)
LEMMA SoundTakes ==
    ASSUME NEW o, NEW w, NEW n, NEW d, NEW m, NEW q, Sound(q, o, w, n, d, m), NEW c, c = Taken(q, m)
    PROVE  /\ q \in Parsers /\ q.loop # "fail" /\ Fed(q.buf, w, c, m)
           /\ c \in 0..m /\ m \in Nat /\ m <= Len(w) /\ Len(w) \in Nat /\ Len(q.buf) = m - c
           /\ q.state = 0 => c = 0
           /\ q.state = 4 => \E i \in 1..n + 1 : i # 1 /\ c = o[i] + d
           /\ q.state = 5 => c = Len(w)
<1>1. /\ q \in Parsers /\ q.loop # "fail" /\ Fed(q.buf, w, c, m)
      /\ q.state = 0 => c = 0
      /\ q.state = 4 => \E i \in 1..n + 1 : i # 1 /\ c = o[i] + d
      /\ q.state = 5 => c = Len(w)
  BY DEF Sound
<1>2. c \in 0..m /\ m \in Nat /\ m <= Len(w) /\ Len(w) \in Nat /\ Len(q.buf) = m - c
  BY <1>1 DEF Fed
<1> QED
  BY <1>1, <1>2

(* A parser that waits, and one that takes characters off its buffer.      *)
LEMMA SoundWait ==
    ASSUME NEW o, NEW w, NEW n, NEW d, NEW m, NEW q, Sound(q, o, w, n, d, m)
    PROVE  Sound(Wait(q), o, w, n, d, m)
<1>1. PICK c : c = Taken(q, m)
  OBVIOUS
<1>2. /\ q \in Parsers /\ Fed(q.buf, w, c, m)
      /\ q.state = 0 => c = 0
      /\ q.state = 4 => \E i \in 1..n + 1 : i # 1 /\ c = o[i] + d
      /\ q.state = 5 => c = Len(w)
  BY <1>1, SoundTakes
<1>3. PICK t : t = Wait(q)
  OBVIOUS
<1>4. t \in Parsers /\ t.loop # "fail" /\ t.state = q.state /\ t.buf = q.buf
  BY <1>2, <1>3, StopType
<1>5. /\ t.state = 0 => c = 0
      /\ t.state = 4 => \E i \in 1..n + 1 : i # 1 /\ c = o[i] + d
      /\ t.state = 5 => c = Len(w)
      /\ Fed(t.buf, w, c, m)
  BY <1>2, <1>4
<1>6. Sound(t, o, w, n, d, m)
  BY <1>4, <1>5, SoundIs, Zenon
<1> QED
  BY <1>3, <1>6

(* Taking characters keeps a parser sound, if a state 4 or 5 is entered    *)
(* where a boundary or the form ends.                                      *)
LEMMA SoundTake ==
    ASSUME NEW o, NEW w, NEW n, NEW d, NEW m, NEW c, NEW p \in Parsers, p.loop # "fail",
           Fed(p.buf, w, c, m), NEW x \in 0..m - c, NEW s \in 1..5, NEW e, e = c + x,
           s = 4 => \E i \in 1..n + 1 : i # 1 /\ e = o[i] + d,
           s = 5 => e = Len(w)
    PROVE  Sound(Take(p, x, s), o, w, n, d, m)
<1>1. PICK t : t = Take(p, x, s)
  OBVIOUS
<1>2. Len(p.buf) = m - c
  BY DEF Fed
<1>3. x \in 0..Len(p.buf) /\ s \in 0..5
  BY <1>2
<1>4. t \in Parsers /\ t.loop = p.loop /\ t.state = s /\ t.buf = Erase(p.buf, x)
  BY <1>1, <1>3, TakeType
<1>5. Fed(t.buf, w, e, m)
  BY <1>4, FedErase
<1>6. t.state # 0 /\ t.loop # "fail"
  BY <1>4
<1>7. Sound(t, o, w, n, d, m)
  BY <1>4, <1>5, <1>6, SoundIs, Zenon
<1> QED
  BY <1>1, <1>7

(* Taking content.                                                         *)
Filled(t, p, x) ==
    /\ t \in Parsers /\ t.loop = p.loop /\ t.state = p.state /\ t.valid = p.valid
    /\ t.name = p.name /\ t.parts = Longer(p.parts, Begin(p.buf, x))

(* Content fills the last part with what comes next in the text.           *)
LEMMA FedContent ==
    ASSUME NEW w, NEW c, NEW m, NEW p \in Parsers, Fed(p.buf, w, c, m), NEW x \in 0..m - c,
           NEW e, e = c + x, NEW t, t = Content(p, x)
    PROVE  Filled(t, p, x) /\ Fed(t.buf, w, e, m)
<1>1. Len(p.buf) = m - c
  BY DEF Fed
<1>2. x \in 0..Len(p.buf)
  BY <1>1
<1>3. /\ t \in Parsers /\ t.loop = p.loop /\ t.state = p.state /\ t.valid = p.valid
      /\ t.name = p.name /\ t.parts = Longer(p.parts, Begin(p.buf, x))
      /\ t.buf = Erase(p.buf, x)
  BY <1>2, ContentType
<1>4. Fed(t.buf, w, e, m)
  BY <1>3, FedErase
<1> QED
  BY <1>3, <1>4 DEF Filled

(* The opening stands at the beginning of a form with parts.               *)
LEMMA OpeningFound ==
    ASSUME NEW o, NEW parts, NEW w, NEW n, NEW d, Layout(o, parts, w, n, d), n >= 1,
           NEW buf, NEW m, Fed(buf, w, 0, m), Len(buf) >= Len(Opening)
    PROVE  Find(buf, Opening) = 0
<1>1. PICK b \in Nat : b = Len(boundary_) /\ d = 2 + b
  BY Patterns DEF Layout
<1>2. PICK p : p = Opening
  OBVIOUS
<1>3. /\ p \in Seq(Chars) /\ Len(p) = 4 + b /\ p[1] = "-" /\ p[2] = "-"
      /\ \A j \in 1..b : p[2 + j] = boundary_[j]
      /\ p[2 + b + 1] = "CR" /\ p[2 + b + 2] = "LF"
  BY <1>1, <1>2, OpeningIs
<1>4. DashAt(w, 0) /\ RestAt(w, d, parts[1])
  <2>1. 1 \in 1..n + 1 /\ 1 \in 1..n /\ o[1] = 0 /\ 0 + d = d
    BY <1>1 DEF Layout
  <2>2. DashAt(w, o[1]) /\ RestAt(w, o[1] + d, parts[1])
    BY <2>1 DEF Layout
  <2> QED
    BY <2>1, <2>2
<1>5. /\ w[1] = "-" /\ w[2] = "-" /\ \A j \in 1..b : w[2 + j] = boundary_[j]
      /\ w[2 + b + 1] = "CR" /\ w[2 + b + 2] = "LF"
  <2>1. 0 + 1 = 1 /\ 0 + 2 = 2
    OBVIOUS
  <2>2. w[1] = "-" /\ w[2] = "-" /\ \A j \in 1..b : w[2 + j] = boundary_[j]
    BY <1>1, <1>4, <2>1 DEF DashAt
  <2>3. w[2 + b + 1] = "CR" /\ w[2 + b + 2] = "LF"
    BY <1>1, <1>4 DEF RestAt
  <2> QED
    BY <2>2, <2>3
<1>6. /\ 0 \in 0..m /\ m \in 0..Len(w) /\ Len(w) \in Nat
      /\ buf \in Seq(Chars) /\ Len(buf) = m - 0
  BY DEF Fed
<1>7. \A j \in 1..Len(p) : w[0 + j] = p[j]
  <2> SUFFICES ASSUME NEW j \in 1..4 + b PROVE w[j] = p[j]
    BY <1>3
  <2>1. j = 1 \/ j = 2 \/ (j \in 3..2 + b) \/ j = 2 + b + 1 \/ j = 2 + b + 2
    BY <1>1
  <2>2. CASE j \in 3..2 + b
    <3>1. PICK i \in 1..b : j = 2 + i
      <4>1. j - 2 \in 1..b /\ j = 2 + (j - 2)
        BY <1>1, <2>2
      <4> QED
        BY <4>1
    <3> QED
      BY <1>3, <1>5, <3>1
  <2> QED
    BY <1>3, <1>5, <2>1, <2>2
<1>8. 0 + Len(p) <= m
  BY <1>1, <1>2, <1>3, <1>6
<1>9. Occurs(buf, p, 0)
  <2>1. 0 \in Nat /\ 0 = 0 + 0
    OBVIOUS
  <2>2. Stands(w, 0, m, p)
    BY <1>7, <1>8 DEF Stands
  <2> QED
    BY <1>3, <2>1, <2>2, FedOccurs, Zenon
<1>10. PICK f : f = Find(buf, p)
  OBVIOUS
<1>11. f # npos /\ f \in 0..Len(buf) - Len(p) /\ f <= 0
  BY <1>3, <1>6, <1>9, <1>10, FindIs
<1>12. f = 0
  BY <1>1, <1>3, <1>6, <1>11
<1> QED
  BY <1>2, <1>10, <1>12

(* After a boundary, CR LF or "--" CR LF stands, as a part follows or the  *)
(* form ends.                                                              *)
LEMMA AfterBoundary ==
    ASSUME NEW o, NEW parts, NEW w, NEW n, NEW d, Layout(o, parts, w, n, d),
           NEW i \in 1..n + 1, NEW c, c = o[i] + d, NEW buf, NEW m, Fed(buf, w, c, m)
    PROVE  /\ Len(buf) >= 4 /\ Begin(buf, 4) = dash_ \o crlf_ => i = n + 1
           /\ Len(buf) >= 2 /\ Begin(buf, 2) = crlf_ => i # n + 1
<1>1. /\ c \in 0..m /\ m \in 0..Len(w) /\ Len(w) \in Nat
      /\ buf \in Seq(Chars) /\ Len(buf) = m - c
      /\ \A k \in 1..m - c : buf[k] = w[c + k]
  BY DEF Fed
<1>2. PICK l \in Nat : l = Len(buf) /\ l = m - c
  BY <1>1
<1>3. ASSUME NEW x \in 1..l PROVE Begin(buf, x)[1] = w[c + 1]
  <2>1. \A k \in 1..x : buf[k] \in Chars
    BY <1>1, <1>2
  <2>2. 1 \in 1..x - 1 + 1 /\ 1 + 1 - 1 = 1 /\ 1 \in 1..m - c
    BY <1>2
  <2>3. SubSeq(buf, 1, x)[1] = buf[1]
    BY <2>1, <2>2, SubSeqProperties
  <2> QED
    BY <1>1, <2>2, <2>3 DEF Begin
<1>4. (dash_ \o crlf_)[1] = "-" /\ crlf_[1] = "CR"
  BY Patterns
<1>5. CASE i = n + 1
  <2>1. w[c + 1] = "-"
    BY <1>5 DEF Layout, CloseAt
  <2>2. Len(buf) >= 2 => 2 \in 1..l
    BY <1>2
  <2> QED
    BY <1>3, <1>4, <1>5, <2>1, <2>2
<1>6. CASE i # n + 1
  <2>1. i \in 1..n
    BY <1>6 DEF Layout
  <2>2. w[c + 1] = "CR"
    BY <2>1 DEF Layout, RestAt
  <2>3. Len(buf) >= 4 => 4 \in 1..l
    BY <1>2
  <2> QED
    BY <1>3, <1>4, <1>6, <2>2, <2>3
<1> QED
  BY <1>5, <1>6

(* A boundary that is found in the buffer stands where a part begins or    *)
(* the form ends.                                                          *)
LEMMA DelimFound ==
    ASSUME NEW o, NEW parts, NEW w, NEW n, NEW d, Layout(o, parts, w, n, d),
           \A i \in 1..n : Find(parts[i].content, DashBoundary) = npos,
           NEW buf, NEW c \in Nat, NEW m, Fed(buf, w, c, m), NEW pos, pos = Find(buf, Delim), pos # npos
    PROVE  /\ pos \in Nat /\ c + pos + 2 + d <= m /\ Len(Delim) = d + 2
           /\ \E i \in 1..n + 1 : i # 1 /\ o[i] = c + pos + 2
<1>1. PICK b \in Nat : b = Len(boundary_) /\ d = 2 + b
  BY Patterns DEF Layout
<1>2. PICK p : p = Delim
  OBVIOUS
<1>3. /\ p \in Seq(Chars) /\ Len(p) = 4 + b
      /\ p[1] = "CR" /\ p[2] = "LF" /\ p[3] = "-" /\ p[4] = "-"
      /\ \A j \in 1..b : p[4 + j] = boundary_[j]
  BY <1>1, <1>2, DelimIs
<1>4. /\ c \in 0..m /\ m \in 0..Len(w) /\ Len(w) \in Nat
      /\ buf \in Seq(Chars) /\ Len(buf) = m - c
  BY DEF Fed
<1>5. pos \in 0..Len(buf) - Len(p) /\ Occurs(buf, p, pos)
  BY <1>2, <1>3, <1>4, FindIs
<1>6. pos \in Nat
  BY <1>5
<1>7. c + pos + (4 + b) <= m /\ \A j \in 1..4 + b : w[c + pos + j] = p[j]
  <2>1. c + pos + Len(p) <= m /\ \A j \in 1..Len(p) : w[c + pos + j] = p[j]
    <3>1. PICK g : g = c + pos
      OBVIOUS
    <3>2. Stands(w, g, m, p)
      BY <1>3, <1>5, <1>6, <3>1, FedOccurs, Zenon
    <3> QED
      BY <3>1, <3>2 DEF Stands
  <2> QED
    BY <1>3, <2>1
<1>8. PICK s \in Nat : s = c + pos + 2 /\ s >= 2
  BY <1>6
<1>9. /\ s - 1 = c + pos + 1 /\ s = c + pos + 2 /\ s + 1 = c + pos + 3 /\ s + 2 = c + pos + 4
      /\ \A j \in 1..b : s + 2 + j = c + pos + (4 + j) /\ 4 + j \in 1..4 + b
      /\ 1 \in 1..4 + b /\ 2 \in 1..4 + b /\ 3 \in 1..4 + b /\ 4 \in 1..4 + b
  <2>1. s - 1 = c + pos + 1 /\ s = c + pos + 2 /\ s + 1 = c + pos + 3 /\ s + 2 = c + pos + 4
    BY <1>6, <1>8
  <2>2. ASSUME NEW j \in 1..b PROVE s + 2 + j = c + pos + (4 + j) /\ 4 + j \in 1..4 + b
    BY <1>1, <1>6, <1>8
  <2>3. 1 \in 1..4 + b /\ 2 \in 1..4 + b /\ 3 \in 1..4 + b /\ 4 \in 1..4 + b
    OBVIOUS
  <2> QED
    BY <2>1, <2>2, <2>3
<1>10. BreakAt(w, s)
  <2>1. w[s - 1] = "CR" /\ w[s] = "LF" /\ w[s + 1] = "-" /\ w[s + 2] = "-"
    BY <1>3, <1>7, <1>9
  <2>2. \A j \in 1..b : w[s + 2 + j] = boundary_[j]
    BY <1>3, <1>7, <1>9
  <2> QED
    BY <1>1, <2>1, <2>2 DEF BreakAt, DashAt
<1>11. s + d <= m /\ s + d <= Len(w) /\ 4 + b = d + 2
  BY <1>1, <1>4, <1>6, <1>7, <1>8, SMTT(30)
<1>12. \E i \in 1..n + 1 : i # 1 /\ o[i] = s
  BY <1>8, <1>10, <1>11, DelimPlaces
<1> QED
  BY <1>2, <1>3, <1>6, <1>8, <1>11, <1>12

(* Every turn keeps a parser sound: it never fails, and never takes a      *)
(* boundary the client did not write.                                      *)
LEMMA SoundTurn ==
    ASSUME NEW o, NEW parts, NEW w, NEW n, NEW d, Layout(o, parts, w, n, d), n >= 1,
           \A i \in 1..n : Find(parts[i].content, DashBoundary) = npos,
           NEW m, NEW q, Sound(q, o, w, n, d, m), q.loop = "go", NEW t, t = Turn(q)
    PROVE  Sound(t, o, w, n, d, m)
<1>1. PICK c \in Nat : /\ c = Taken(q, m) /\ Fed(q.buf, w, c, m)
                       /\ c \in 0..m /\ m \in Nat /\ m <= Len(w) /\ Len(q.buf) = m - c
  BY SoundTakes
<1>2. /\ q \in Parsers /\ q.loop # "fail" /\ Len(w) \in Nat
      /\ q.state = 0 => c = 0
      /\ q.state = 4 => \E i \in 1..n + 1 : i # 1 /\ c = o[i] + d
      /\ q.state = 5 => c = Len(w)
  BY <1>1, SoundTakes
<1>3. n \in Nat /\ d \in Nat /\ \A i \in 1..n + 1 : o[i] \in Nat
  BY DEF Layout
<1>4. PICK l \in Nat : l = Len(q.buf) /\ l = m - c
  BY <1>1, <1>2
<1>5. CASE q.buf = <<>>
  BY <1>2, <1>5, SoundWait, TurnIs
<1>6. CASE q.buf # <<>> /\ q.state = 0
  <2>1. PICK x \in Nat : x = Len(Opening)
    <3>1. PICK b : b = Len(boundary_)
      OBVIOUS
    <3>2. b \in Nat /\ Len(Opening) = 4 + b
      BY <3>1, Patterns, OpeningIs
    <3> QED
      BY <3>2
  <2>2. t = InitialBoundary(q)
    BY <1>2, <1>6, TurnIs
  <2>3. c = 0
    BY <1>2, <1>6
  <2>4. Len(q.buf) >= Len(Opening) => Find(q.buf, Opening) = 0
    BY <1>1, <2>3, OpeningFound
  <2>5. t = Wait(q) \/ (l >= x /\ t = Take(q, x, 1))
    BY <1>2, <1>4, <2>1, <2>2, <2>4, OpeningTurn DEF OpeningMoves
  <2>6. CASE l >= x /\ t = Take(q, x, 1)
    <3>1. x \in 0..m - c /\ 1 \in 1..5 /\ 1 # 4 /\ 1 # 5
      BY <1>4, <2>1, <2>6
    <3> QED
      BY <1>1, <1>2, <2>6, <3>1, SoundTake
  <2> QED
    BY <2>5, <2>6, SoundWait
<1>7. CASE q.buf # <<>> /\ q.state = 1
  <2>1. t = NewEntry(q)
    BY <1>2, <1>7, TurnIs
  <2>2. t \in Parsers /\ t.state = 2 /\ t.buf = q.buf /\ t.loop = q.loop
    BY <1>2, <2>1, EntryFields
  <2>3. Fed(t.buf, w, c, m) /\ t.loop # "fail" /\ t.state # 0 /\ t.state # 4 /\ t.state # 5
    BY <1>1, <1>2, <2>2
  <2> QED
    BY <2>2, <2>3, SoundIs, Zenon
<1>8. CASE q.buf # <<>> /\ q.state = 2
  <2>1. PICK pos : pos = Find(q.buf, crlf_)
    OBVIOUS
  <2>2. t = Headers(q)
    BY <1>2, <1>8, TurnIs
  <2>3. PICK p1, p2 :
           /\ p1 = [q EXCEPT !.parts = Append(@, [name |-> q.name, content |-> <<>>])]
           /\ p2 = [q EXCEPT !.name = IF pos = 1 /\ q.buf[1] \in Names THEN q.buf[1] ELSE @]
    OBVIOUS
  <2>4. \/ t = Wait(q)
        \/ pos = 0 /\ 2 <= l /\ t = Take(p1, 2, 3)
        \/ pos \in Nat \ {0} /\ pos + 2 <= l /\ t = Take(p2, pos + 2, 2)
    BY <1>2, <1>4, <2>1, <2>2, <2>3, HeadersTurn DEF HeadersMoves
  <2>5. p1 \in Parsers /\ p1.buf = q.buf /\ p1.loop = q.loop
    <3>1. q.name \in Chars /\ q.parts \in Seq(PartSet)
      BY <1>2, ParserFields
    <3>2. PICK ps : ps = Append(q.parts, [name |-> q.name, content |-> <<>>])
      OBVIOUS
    <3>3. [name |-> q.name, content |-> <<>>] \in PartSet
      BY <3>1 DEF PartSet
    <3>4. ps \in Seq(PartSet)
      BY <3>1, <3>2, <3>3
    <3>5. p1 = [q EXCEPT !.parts = ps]
      BY <2>3, <3>2
    <3> QED
      BY <1>2, <3>4, <3>5, PartsFields
  <2>6. p2 \in Parsers /\ p2.buf = q.buf /\ p2.loop = q.loop
    <3>1. PICK nm : nm = IF pos = 1 /\ q.buf[1] \in Names THEN q.buf[1] ELSE q.name
      OBVIOUS
    <3>2. nm \in Chars
      BY <1>2, <3>1, ParserFields, MultipartAssumption DEF Chars
    <3>3. p2 = [q EXCEPT !.name = nm]
      BY <2>3, <3>1
    <3> QED
      BY <1>2, <3>2, <3>3, NameFields
  <2>7. CASE pos = 0 /\ 2 <= l /\ t = Take(p1, 2, 3)
    <3>1. 2 \in 0..m - c /\ 3 \in 1..5 /\ 3 # 4 /\ 3 # 5
      BY <1>4, <2>7
    <3>2. Fed(p1.buf, w, c, m) /\ p1.loop # "fail"
      BY <1>1, <1>2, <2>5
    <3> QED
      BY <2>5, <2>7, <3>1, <3>2, SoundTake
  <2>8. CASE pos \in Nat \ {0} /\ pos + 2 <= l /\ t = Take(p2, pos + 2, 2)
    <3>1. PICK x \in 0..m - c : x = pos + 2
      BY <1>4, <2>8
    <3>2. Fed(p2.buf, w, c, m) /\ p2.loop # "fail"
      BY <1>1, <1>2, <2>6
    <3>3. 2 \in 1..5 /\ 2 # 4 /\ 2 # 5
      OBVIOUS
    <3> QED
      BY <2>6, <2>8, <3>1, <3>2, <3>3, SoundTake
  <2> QED
    BY <2>4, <2>7, <2>8, SoundWait
<1>9. CASE q.buf # <<>> /\ q.state = 3
  <2>1. PICK x, r, pos : BodyMoves(q, Body(q), x, r, pos)
    BY <1>2, BodyTurn
  <2>2. t = Body(q)
    BY <1>2, <1>9, TurnIs
  <2>3. x \in 0..m - c /\ r = Content(q, x) /\ pos = Find(r.buf, Delim)
    BY <1>1, <2>1, Zenon DEF BodyMoves, Sure
  <2>4. PICK e \in Nat : e = c + x
    BY <1>4, <2>3
  <2>10. Filled(r, q, x) /\ Fed(r.buf, w, e, m)
    BY <1>1, <1>2, <2>3, <2>4, FedContent, Zenon
  <2>5. r \in Parsers /\ r.loop = q.loop /\ r.state = q.state /\ Fed(r.buf, w, e, m)
    BY <2>10 DEF Filled
  <2>6. \/ t = Wait(q)
        \/ t = Wait(r)
        \/ pos # npos /\ t = Take(Content(r, pos), Len(Delim), 4)
        \/ Len(r.buf) >= Len(Delim) /\ t = Content(r, Len(Delim))
    BY <2>1, <2>2 DEF BodyMoves
  <2>7. Sound(r, o, w, n, d, m)
    <3>1. r.loop # "fail" /\ r.state # 0 /\ r.state # 4 /\ r.state # 5
      BY <1>2, <1>9, <2>5
    <3> QED
      BY <2>5, <3>1, SoundIs, Zenon
  <2>8. CASE pos # npos /\ t = Take(Content(r, pos), Len(Delim), 4)
    <3>1. /\ pos \in Nat /\ e + pos + 2 + d <= m /\ Len(Delim) = d + 2
          /\ \E i \in 1..n + 1 : i # 1 /\ o[i] = e + pos + 2
      BY <2>3, <2>5, <2>8, DelimFound
    <3>2. PICK g \in Nat : g = e + pos /\ pos \in 0..m - e
      BY <1>1, <1>3, <3>1
    <3>3. PICK u : u = Content(r, pos)
      OBVIOUS
    <3>10. Filled(u, r, pos) /\ Fed(u.buf, w, g, m)
      BY <2>5, <3>2, <3>3, FedContent, Zenon
    <3>4. u \in Parsers /\ u.loop = r.loop /\ Fed(u.buf, w, g, m)
      BY <3>10 DEF Filled
    <3>5. PICK z \in Nat, v \in Nat : z = d + 2 /\ v = g + z
      BY <1>3, <3>2
    <3>6. z \in 0..m - g /\ 4 \in 1..5 /\ z = Len(Delim)
      BY <1>1, <1>3, <3>1, <3>2, <3>5
    <3>7. \E i \in 1..n + 1 : i # 1 /\ v = o[i] + d
      <4>1. PICK i \in 1..n + 1 : i # 1 /\ o[i] = e + pos + 2
        BY <3>1
      <4>2. v = e + pos + 2 + d
        BY <1>3, <3>1, <3>2, <3>5
      <4> QED
        BY <4>1, <4>2
    <3>8. u.loop # "fail" /\ 4 # 5
      BY <1>2, <2>5, <3>4
    <3>9. t = Take(u, z, 4)
      BY <2>8, <3>3, <3>6
    <3> QED
      BY <3>4, <3>5, <3>6, <3>7, <3>8, <3>9, SoundTake
  <2>9. CASE Len(r.buf) >= Len(Delim) /\ t = Content(r, Len(Delim))
    <3>1. PICK b \in Nat : b = Len(boundary_) /\ Len(Delim) = 4 + b
      BY Patterns, DelimIs
    <3>2. PICK z \in Nat : z = Len(Delim) /\ z \in 0..m - e
      <4>1. Len(r.buf) = m - e
        BY <2>5 DEF Fed
      <4> QED
        BY <2>9, <3>1, <4>1
    <3>3. PICK g \in Nat : g = e + z
      OBVIOUS
    <3>6. t = Content(r, z)
      BY <2>9, <3>2
    <3>7. Filled(t, r, z) /\ Fed(t.buf, w, g, m)
      BY <2>5, <3>2, <3>3, <3>6, FedContent, Zenon
    <3>4. t \in Parsers /\ t.loop = r.loop /\ t.state = r.state /\ Fed(t.buf, w, g, m)
      BY <3>7 DEF Filled
    <3>5. t.loop # "fail" /\ t.state # 0 /\ t.state # 4 /\ t.state # 5
      BY <1>2, <1>9, <2>5, <3>4
    <3> QED
      BY <3>4, <3>5, SoundIs, Zenon
  <2> QED
    BY <2>6, <2>7, <2>8, <2>9, SoundWait
<1>10. CASE q.buf # <<>> /\ q.state = 4
  <2>1. t = Boundary(q)
    BY <1>2, <1>10, TurnIs
  <2>2. PICK i \in 1..n + 1 : i # 1 /\ c = o[i] + d
    BY <1>2, <1>10
  <2>3. \/ t = Wait(q)
        \/ l >= 2 /\ t = Take(q, 2, 1)
        \/ l >= 4 /\ Begin(q.buf, 4) = dash_ \o crlf_ /\ t = [Take(q, 4, 5) EXCEPT !.valid = TRUE]
    BY <1>2, <1>4, <2>1, BoundaryTurn
  <2>4. CASE l >= 2 /\ t = Take(q, 2, 1)
    <3>1. 2 \in 0..m - c /\ 1 \in 1..5 /\ 1 # 4 /\ 1 # 5
      BY <1>4, <2>4
    <3> QED
      BY <1>1, <1>2, <2>4, <3>1, SoundTake
  <2>5. CASE l >= 4 /\ Begin(q.buf, 4) = dash_ \o crlf_ /\ t = [Take(q, 4, 5) EXCEPT !.valid = TRUE]
    <3>1. i = n + 1
      <4>1. Len(q.buf) >= 4 /\ Begin(q.buf, 4) = dash_ \o crlf_
        BY <1>4, <2>5
      <4>2. /\ Len(q.buf) >= 4 /\ Begin(q.buf, 4) = dash_ \o crlf_ => i = n + 1
            /\ Len(q.buf) >= 2 /\ Begin(q.buf, 2) = crlf_ => i # n + 1
        BY <1>1, <2>2, AfterBoundary, Zenon
      <4> QED
        BY <4>1, <4>2, Zenon
    <3>2. Len(w) = c + 4
      BY <2>2, <3>1 DEF Layout
    <3>3. 4 \in 0..m - c /\ 5 \in 1..5 /\ 5 # 4 /\ c + 4 = Len(w)
      BY <1>4, <2>5, <3>2
    <3>4. PICK u : u = Take(q, 4, 5)
      OBVIOUS
    <3>5. Sound(u, o, w, n, d, m)
      BY <1>1, <1>2, <3>3, <3>4, SoundTake
    <3>6. PICK v : v = Taken(u, m)
      OBVIOUS
    <3>7. /\ u \in Parsers /\ u.loop # "fail" /\ Fed(u.buf, w, v, m)
          /\ u.state = 0 => v = 0
          /\ u.state = 4 => \E k \in 1..n + 1 : k # 1 /\ v = o[k] + d
          /\ u.state = 5 => v = Len(w)
      BY <3>5, <3>6, SoundTakes
    <3>8. t \in Parsers /\ t.state = u.state /\ t.buf = u.buf /\ t.loop = u.loop
      BY <2>5, <3>4, <3>7, ValidFields
    <3>9. Sound(t, o, w, n, d, m)
      BY <3>7, <3>8, SoundIs
    <3> QED
      BY <3>9
  <2> QED
    BY <2>3, <2>4, <2>5, SoundWait
<1>11. CASE q.buf # <<>> /\ q.state = 5
  <2>1. c = Len(w)
    BY <1>2, <1>11
  <2>2. l = 0
    BY <1>1, <1>2, <1>4, <2>1
  <2>3. q.buf = <<>>
    <3>1. q.buf \in Seq(Chars) /\ Len(q.buf) = 0
      BY <1>2, <1>4, <2>2, ParserFields
    <3> QED
      BY <3>1
  <2> QED
    BY <1>11, <2>3
<1>12. q.state \in 0..5 /\ \A s \in 0..5 : s = 0 \/ s = 1 \/ s = 2 \/ s = 3 \/ s = 4 \/ s = 5
  BY <1>2, ParserFields
<1> QED
  BY <1>5, <1>6, <1>7, <1>8, <1>9, <1>10, <1>11, <1>12

-----------------------------------------------------------------------------
(* A part in the text: it begins d characters before k, its content is     *)
(* part.content, of l characters, and the next boundary follows.           *)
Spot(w, k, l, d, part) ==
    /\ k \in Nat /\ l \in Nat /\ l = Len(part.content) /\ part.content \in Seq(Chars)
    /\ part.name \in Names
    /\ w[k + 1] = "CR" /\ w[k + 2] = "LF" /\ w[k + 3] = part.name
    /\ w[k + 4] = "CR" /\ w[k + 5] = "LF" /\ w[k + 6] = "CR" /\ w[k + 7] = "LF"
    /\ \A j \in 1..l : w[k + 7 + j] = part.content[j]
    /\ w[k + 8 + l] = "CR" /\ w[k + 9 + l] = "LF"
    /\ w[k + 10 + l] = "-" /\ w[k + 11 + l] = "-"
    /\ \A j \in 1..Len(boundary_) : w[k + 11 + l + j] = boundary_[j]
    /\ k + 13 + l + d <= Len(w)

(* The closing, or more, follows every boundary.                           *)
LEMMA LayoutRoom ==
    ASSUME NEW o, NEW parts, NEW w, NEW n, NEW d, Layout(o, parts, w, n, d), NEW j \in 1..n + 1
    PROVE  o[j] \in Nat /\ o[j] + d + 4 <= Len(w)
<1>1. n \in Nat /\ d \in Nat /\ Len(w) \in Nat /\ o[j] \in Nat
  BY DEF Layout
<1>2. CASE j = n + 1
  BY <1>1, <1>2 DEF Layout
<1>3. CASE j # n + 1
  <2>1. j \in 1..n /\ j + 1 \in 1..n + 1
    BY <1>1, <1>3
  <2>2. parts[j] \in FormPart /\ o[j + 1] = o[j] + d + 9 + Len(parts[j].content) /\ o[j + 1] <= Len(w)
    BY <2>1 DEF Layout
  <2>3. PICK l \in Nat : l = Len(parts[j].content)
    <3>1. parts[j].content \in Seq(Chars)
      BY <2>2 DEF FormPart
    <3> QED
      BY <3>1
  <2>4. PICK e \in Nat, z \in Nat : e = o[j] /\ z = Len(w)
    BY <1>1
  <2>5. e + d + 9 + l <= z
    BY <2>2, <2>3, <2>4
  <2>6. e + d + 4 <= z
    BY <1>1, <2>5
  <2> QED
    BY <2>4, <2>6
<1> QED
  BY <1>2, <1>3

PlaceSums(g, k, l, d, b) ==
    /\ g + 1 = k + 10 + l /\ g + 2 = k + 11 + l /\ \A j \in 1..b : g + 2 + j = k + 11 + l + j
    /\ g + d + 4 = k + 13 + l + d

(* Adding is associative in the sums above.                                *)
LEMMA PlaceAdds ==
    ASSUME NEW k \in Nat, NEW l \in Nat, NEW d \in Nat, NEW b \in Nat, NEW g, g = k + 9 + l
    PROVE  PlaceSums(g, k, l, d, b)
  BY DEF PlaceSums

PlaceIn(o, parts, w, n, d, i, k, l) ==
    Spot(w, k, l, d, parts[i]) /\ i + 1 \in 1..n + 1 /\ o[i + 1] = k + 9 + l

(* Where part i, its content and the boundary after it are.                *)
LEMMA LayoutPlace ==
    ASSUME NEW o, NEW parts, NEW w, NEW n, NEW d, Layout(o, parts, w, n, d), NEW i \in 1..n,
           NEW k, k = o[i] + d, NEW l, l = Len(parts[i].content)
    PROVE  PlaceIn(o, parts, w, n, d, i, k, l)
<1>1. n \in Nat /\ d \in Nat /\ Len(w) \in Nat /\ i \in 1..n + 1 /\ i + 1 \in 1..n + 1
  BY DEF Layout
<1>2. /\ o[i] \in Nat /\ o[i + 1] \in Nat /\ DashAt(w, o[i + 1])
      /\ parts[i] \in FormPart /\ RestAt(w, k, parts[i])
      /\ o[i + 1] = k + 9 + l
  BY <1>1 DEF Layout
<1>3. parts[i].content \in Seq(Chars) /\ parts[i].name \in Names /\ l \in Nat
  <2>1. parts[i].content \in Seq(Chars) /\ parts[i].name \in Names
    BY <1>2 DEF FormPart
  <2> QED
    BY <2>1
<1>4. k \in Nat
  BY <1>1, <1>2, SMTT(30)
<1>5. o[i + 1] + d + 4 <= Len(w)
  BY <1>1, LayoutRoom
<1>6. PICK b \in Nat : b = Len(boundary_)
  BY Patterns
<1>7. PICK g \in Nat : g = k + 9 + l
  BY <1>3, <1>4
<1>8. /\ g + 1 = k + 10 + l /\ g + 2 = k + 11 + l /\ \A j \in 1..b : g + 2 + j = k + 11 + l + j
      /\ g + d + 4 = k + 13 + l + d
  <2>1. k \in Nat /\ l \in Nat /\ d \in Nat
    BY <1>1, <1>3, <1>4
  <2>2. PlaceSums(g, k, l, d, b)
    BY <1>6, <1>7, <2>1, PlaceAdds, Zenon
  <2> QED
    BY <2>2 DEF PlaceSums
<1>9. w[g + 1] = "-" /\ w[g + 2] = "-" /\ \A j \in 1..b : w[g + 2 + j] = boundary_[j]
  BY <1>2, <1>6, <1>7 DEF DashAt
<1>10. /\ w[k + 10 + l] = "-" /\ w[k + 11 + l] = "-"
       /\ \A j \in 1..b : w[k + 11 + l + j] = boundary_[j]
       /\ k + 13 + l + d <= Len(w)
  BY <1>2, <1>5, <1>7, <1>8, <1>9
<1>11. /\ w[k + 1] = "CR" /\ w[k + 2] = "LF" /\ w[k + 3] = parts[i].name
       /\ w[k + 4] = "CR" /\ w[k + 5] = "LF" /\ w[k + 6] = "CR" /\ w[k + 7] = "LF"
       /\ \A j \in 1..l : w[k + 7 + j] = parts[i].content[j]
       /\ w[k + 8 + l] = "CR" /\ w[k + 9 + l] = "LF"
  BY <1>2 DEF RestAt
<1> QED
  BY <1>1, <1>2, <1>3, <1>4, <1>6, <1>10, <1>11 DEF Spot, PlaceIn

(* A line break and two dashes after s characters of w.                    *)
BreakDash(w, s) == w[s + 1] = "CR" /\ w[s + 2] = "LF" /\ w[s + 3] = "-" /\ w[s + 4] = "-"

(* The pattern CR LF "--" stands where its four characters are.            *)
LEMMA BreakDashStands ==
    ASSUME NEW w, NEW s \in Nat, NEW m \in Nat
    PROVE  Stands(w, s, m, crlf_ \o dash_) <=> s + 4 <= m /\ BreakDash(w, s)
<1>1. PICK p : p = crlf_ \o dash_
  OBVIOUS
<1>2. Len(p) = 4 /\ p[1] = "CR" /\ p[2] = "LF" /\ p[3] = "-" /\ p[4] = "-"
  BY <1>1, Patterns
<1>3. \A j \in 1..4 : j = 1 \/ j = 2 \/ j = 3 \/ j = 4
  OBVIOUS
<1>4. 1 \in 1..4 /\ 2 \in 1..4 /\ 3 \in 1..4 /\ 4 \in 1..4
  OBVIOUS
<1>5. (\A j \in 1..4 : w[s + j] = p[j]) <=> BreakDash(w, s)
  BY <1>2, <1>3, <1>4 DEF BreakDash
<1>6. Stands(w, s, m, p) <=> s + 4 <= m /\ BreakDash(w, s)
  BY <1>2, <1>5 DEF Stands
<1> QED
  BY <1>1, <1>6, Zenon

(* The first line break before two dashes, counted from a content that     *)
(* does not hold them, is the one that ends it.                            *)
LEMMA BreakAfter ==
    ASSUME NEW w, NEW k, NEW l, NEW d, NEW part, Spot(w, k, l, d, part),
           Find(part.content, crlf_ \o dash_) = npos,
           NEW p \in Nat, p < l, NEW s \in Nat, s = k + 7 + p, BreakDash(w, s)
    PROVE  FALSE
<1>1. /\ k \in Nat /\ l \in Nat /\ l = Len(part.content) /\ part.content \in Seq(Chars)
      /\ \A j \in 1..l : w[k + 7 + j] = part.content[j]
      /\ w[k + 8 + l] = "CR"
  BY DEF Spot
<1>2. w[s + 1] = "CR" /\ w[s + 2] = "LF" /\ w[s + 3] = "-" /\ w[s + 4] = "-"
  BY DEF BreakDash
<1>3. p + 1 # l /\ p + 2 # l /\ p + 3 # l
  <2>1. /\ p + 1 = l => s + 2 = k + 8 + l
        /\ p + 2 = l => s + 3 = k + 8 + l
        /\ p + 3 = l => s + 4 = k + 8 + l
    <3>1. k \in Nat /\ l \in Nat
      BY <1>1
    <3> QED
      BY <3>1
  <2> QED
    BY <1>1, <1>2, <2>1
<1>4. p + 4 <= l
  BY <1>1, <1>3, SMTT(30)
<1>5. PICK c, x : c = part.content /\ x = crlf_ \o dash_
  OBVIOUS
<1>6. x \in Seq(Chars) /\ Len(x) = 4 /\ x[1] = "CR" /\ x[2] = "LF" /\ x[3] = "-" /\ x[4] = "-"
  BY <1>5, Patterns
<1>7. \A j \in 1..4 : c[p + j] = w[s + j]
  <2>1. \A j \in 1..4 : p + j \in 1..l /\ s + j = k + 7 + (p + j)
    BY <1>1, <1>4
  <2> QED
    BY <1>1, <1>5, <2>1
<1>8. \A j \in 1..4 : j = 1 \/ j = 2 \/ j = 3 \/ j = 4
  OBVIOUS
<1>9. Occurs(c, x, p)
  <2>1. p \in 0..Len(c) - Len(x)
    BY <1>1, <1>4, <1>5, <1>6
  <2> QED
    BY <1>2, <1>6, <1>7, <1>8, <2>1 DEF Occurs
<1>10. c \in Seq(Chars) /\ Find(c, x) = npos
  BY <1>1, <1>5, Zenon
<1> QED
  BY <1>6, <1>9, <1>10, FindIs

(* What is content for sure is content.                                    *)
LEMMA SureInContent ==
    ASSUME NEW w, NEW k, NEW l, NEW d, NEW part, Spot(w, k, l, d, part),
           NEW y \in 0..l, NEW c, c = k + 7 + y, NEW buf, NEW m, Fed(buf, w, c, m),
           NEW x, Sure(buf, x)
    PROVE  x \in 0..m - c /\ y + x <= l
<1>1. /\ k \in Nat /\ l \in Nat
      /\ w[k + 8 + l] = "CR" /\ w[k + 9 + l] = "LF"
      /\ w[k + 10 + l] = "-" /\ w[k + 11 + l] = "-"
  BY DEF Spot
<1>2. /\ c \in 0..m /\ m \in Nat /\ buf \in Seq(Chars) /\ Len(buf) = m - c
      /\ \A j \in 1..m - c : buf[j] = w[c + j]
  BY DEF Fed
<1>3. PICK p, f : p = crlf_ \o dash_ /\ f = Find(buf, p)
  OBVIOUS
<1>4. p \in Seq(Chars) /\ Len(p) = 4
  BY <1>3, Patterns
<1>5. /\ x \in 0..Len(buf)
      /\ f # npos => x = f
      /\ f = npos => (x > 0 => buf[x] \notin Mutable)
  BY <1>3, Zenon DEF Sure
<1>6. x \in 0..m - c /\ x \in Nat
  BY <1>2, <1>5
<1>7. PICK g \in Nat : g = l - y
  BY <1>1
<1>8. PICK s \in Nat : s = c + g /\ s = k + 7 + l
  BY <1>1, <1>2, <1>7
<1>9. BreakDash(w, s)
  <2>1. s + 1 = k + 8 + l /\ s + 2 = k + 9 + l /\ s + 3 = k + 10 + l /\ s + 4 = k + 11 + l
    BY <1>1, <1>8
  <2> QED
    BY <1>1, <2>1 DEF BreakDash
<1>10. ASSUME s + 4 <= m PROVE Occurs(buf, p, g)
  <2>1. Stands(w, s, m, p)
    BY <1>2, <1>3, <1>9, <1>10, BreakDashStands, Zenon
  <2> QED
    BY <1>4, <1>8, <2>1, FedOccurs, Zenon
<1>11. ASSUME y + x > l PROVE FALSE
  <2>1. x > g /\ x > 0
    BY <1>1, <1>6, <1>7, <1>11
  <2>2. CASE f # npos
    <3>1. f \in 0..Len(buf) - Len(p) /\ \A z : Occurs(buf, p, z) => f <= z
      BY <1>2, <1>3, <1>4, <2>2, FindIs
    <3>2. x = f
      BY <1>5, <2>2
    <3>3. s + 4 <= m
      <4>1. f \in Nat /\ f + 4 <= m - c
        BY <1>2, <1>4, <3>1
      <4>2. c \in Nat /\ m \in Nat
        BY <1>2
      <4>3. f > g
        BY <2>1, <3>2
      <4> QED
        BY <1>7, <1>8, <4>1, <4>2, <4>3
    <3>4. f <= g
      BY <1>10, <3>1, <3>3
    <3> QED
      BY <1>6, <2>1, <3>2, <3>4
  <2>3. CASE f = npos
    <3>1. w[c + x] \notin Mutable
      <4>1. x \in 1..m - c
        BY <1>6, <2>1
      <4> QED
        BY <1>2, <1>5, <2>1, <2>3, <4>1
    <3>2. c + x # k + 8 + l /\ c + x # k + 9 + l /\ c + x # k + 10 + l /\ c + x # k + 11 + l
      BY <1>1, <3>1 DEF Mutable
    <3>3. s + 4 <= m
      <4>1. c + x >= s + 1 /\ c + x <= m
        BY <1>2, <1>6, <1>7, <1>8, <2>1
      <4>2. c + x >= s + 5
        BY <1>1, <1>2, <1>6, <1>8, <3>2, <4>1
      <4> QED
        BY <1>2, <1>6, <4>1, <4>2
    <3>4. Occurs(buf, p, g)
      BY <1>10, <3>3
    <3> QED
      BY <1>2, <1>3, <1>4, <2>3, <3>4, FindIs
  <2> QED
    BY <2>2, <2>3
<1> QED
  BY <1>1, <1>6, <1>11

(* A boundary found from inside a content is the one that ends it.         *)
LEMMA DelimAtEnd ==
    ASSUME NEW w, NEW k, NEW l, NEW d, NEW part, Spot(w, k, l, d, part), d = 2 + Len(boundary_),
           Find(part.content, crlf_ \o dash_) = npos,
           NEW y \in 0..l, NEW e \in Nat, e = k + 7 + y, NEW buf, NEW m, Fed(buf, w, e, m),
           NEW pos, pos = Find(buf, Delim)
    PROVE  /\ Len(Delim) = d + 2 /\ d \in Nat
           /\ pos # npos => pos = l - y /\ pos + (d + 2) <= m - e
           /\ y = l /\ d + 2 <= m - e => pos # npos
<1>1. /\ k \in Nat /\ l \in Nat
      /\ w[k + 8 + l] = "CR" /\ w[k + 9 + l] = "LF"
      /\ w[k + 10 + l] = "-" /\ w[k + 11 + l] = "-"
      /\ \A j \in 1..Len(boundary_) : w[k + 11 + l + j] = boundary_[j]
  BY DEF Spot
<1>2. /\ e \in 0..m /\ m \in Nat /\ buf \in Seq(Chars) /\ Len(buf) = m - e
  BY DEF Fed
<1>3. PICK b \in Nat : b = Len(boundary_) /\ d = 2 + b
  BY Patterns
<1>4. PICK p : p = Delim
  OBVIOUS
<1>5. /\ p \in Seq(Chars) /\ Len(p) = 4 + b
      /\ p[1] = "CR" /\ p[2] = "LF" /\ p[3] = "-" /\ p[4] = "-"
      /\ \A j \in 1..b : p[4 + j] = boundary_[j]
  BY <1>3, <1>4, DelimIs
<1>6. Len(p) = d + 2 /\ d \in Nat
  BY <1>3, <1>5
<1>7. PICK g \in Nat : g = l - y
  BY <1>1
<1>8. PICK s \in Nat : s = e + g /\ s = k + 7 + l
  BY <1>1, <1>7
<1>9. \A j \in 1..4 + b : w[s + j] = p[j]
  <2> SUFFICES ASSUME NEW j \in 1..4 + b PROVE w[s + j] = p[j]
    OBVIOUS
  <2>1. s + 1 = k + 8 + l /\ s + 2 = k + 9 + l /\ s + 3 = k + 10 + l /\ s + 4 = k + 11 + l
    BY <1>1, <1>8
  <2>2. j = 1 \/ j = 2 \/ j = 3 \/ j = 4 \/ j \in 5..4 + b
    BY <1>3
  <2>3. CASE j \in 5..4 + b
    <3>1. PICK i \in 1..b : j = 4 + i
      <4>1. j - 4 \in 1..b /\ j = 4 + (j - 4)
        BY <1>3, <2>3
      <4> QED
        BY <4>1
    <3>2. s + j = k + 11 + l + i
      <4>1. k \in Nat /\ l \in Nat
        BY <1>1
      <4> QED
        BY <1>8, <3>1, <4>1
    <3> QED
      BY <1>1, <1>3, <1>5, <3>1, <3>2
  <2> QED
    BY <1>1, <1>5, <2>1, <2>2, <2>3
<1>10. ASSUME s + (4 + b) <= m PROVE Occurs(buf, p, g)
  <2>1. Stands(w, s, m, p)
    BY <1>5, <1>9, <1>10 DEF Stands
  <2> QED
    BY <1>5, <1>8, <2>1, FedOccurs, Zenon
<1>11. ASSUME pos # npos PROVE pos = l - y /\ pos + (d + 2) <= m - e
  <2>1. /\ pos \in 0..Len(buf) - Len(p) /\ Occurs(buf, p, pos)
        /\ \A z : Occurs(buf, p, z) => pos <= z
    BY <1>2, <1>4, <1>5, <1>11, FindIs
  <2>2. PICK x \in Nat : x = pos /\ x + (4 + b) <= m - e
    <3>1. pos \in 0..(m - e) - (4 + b)
      BY <1>2, <1>5, <2>1
    <3>2. m - e \in Nat
      BY <1>2
    <3> QED
      BY <3>1, <3>2
  <2>3. PICK u \in Nat : u = e + x
    OBVIOUS
  <2>4. Stands(w, u, m, p)
    BY <1>5, <2>1, <2>2, <2>3, FedOccurs, Zenon
  <2>5. BreakDash(w, u)
    <3>1. 1 \in 1..4 + b /\ 2 \in 1..4 + b /\ 3 \in 1..4 + b /\ 4 \in 1..4 + b
      BY <1>3
    <3> QED
      BY <1>5, <2>4, <3>1 DEF Stands, BreakDash
  <2>6. ~(x < g)
    <3> SUFFICES ASSUME x < g PROVE FALSE
      OBVIOUS
    <3>1. PICK v \in Nat : v = y + x /\ v < l /\ u = k + 7 + v
      BY <1>1, <1>7, <2>3
    <3> QED
      BY <2>5, <3>1, BreakAfter
  <2>7. s + (4 + b) <= m
    <3>1. m \in Nat /\ x >= g /\ e + x + (4 + b) <= m
      BY <1>2, <2>2, <2>6
    <3> QED
      BY <1>8, <3>1, SMTT(30)
  <2>8. x <= g
    BY <1>10, <2>1, <2>2, <2>7
  <2>9. x = g
    BY <2>6, <2>8
  <2> QED
    BY <1>3, <1>7, <2>2, <2>9
<1>12. ASSUME y = l, d + 2 <= m - e PROVE pos # npos
  <2>1. s + (4 + b) <= m
    BY <1>2, <1>3, <1>7, <1>8, <1>12
  <2>2. Occurs(buf, p, g)
    BY <1>10, <2>1
  <2> QED
    BY <1>2, <1>4, <1>5, <2>2, FindIs
<1> QED
  BY <1>4, <1>6, <1>11, <1>12

(* Without a boundary in a buffer that could hold one, as many characters  *)
(* as a boundary has are content.                                          *)
LEMMA ContentStays ==
    ASSUME NEW w, NEW k, NEW l, NEW d, NEW part, Spot(w, k, l, d, part), d = 2 + Len(boundary_),
           Separable(part.content),
           NEW y \in 0..l, NEW c \in Nat, c = k + 7 + y, NEW buf, NEW m, Fed(buf, w, c, m),
           NEW x \in Nat, Sure(buf, x), NEW v \in 0..l, v = y + x,
           NEW e \in Nat, e = k + 7 + v, NEW rest, Fed(rest, w, e, m),
           Find(rest, Delim) = npos, d + 2 <= m - e
    PROVE  v + (d + 2) <= l
<1>1. /\ k \in Nat /\ l \in Nat /\ l = Len(part.content)
      /\ \A j \in 1..l : w[k + 7 + j] = part.content[j]
      /\ w[k + 8 + l] = "CR" /\ w[k + 9 + l] = "LF"
      /\ w[k + 10 + l] = "-" /\ w[k + 11 + l] = "-"
  BY DEF Spot
<1>2. /\ c \in 0..m /\ e \in 0..m /\ m \in Nat /\ buf \in Seq(Chars) /\ Len(buf) = m - c
      /\ \A j \in 1..m - c : buf[j] = w[c + j]
  BY DEF Fed
<1>3. PICK b \in Nat : b = Len(boundary_) /\ d = 2 + b
  BY Patterns
<1>4. Find(part.content, crlf_ \o dash_) = npos
  BY Zenon DEF Separable
<1>5. l >= b => \E j \in l - b + 1..l : part.content[j] \notin Mutable
  BY <1>1, <1>3 DEF Separable
<1>6. PICK p, f : p = crlf_ \o dash_ /\ f = Find(buf, p)
  OBVIOUS
<1>7. p \in Seq(Chars) /\ Len(p) = 4
  BY <1>6, Patterns
<1>8. /\ x \in 0..Len(buf)
      /\ f # npos => x = f
      /\ f = npos => \A j \in x + 1..Len(buf) : buf[j] \in Mutable
  BY <1>6, Zenon DEF Sure
<1>9. v # l
  <2>1. v = l /\ d + 2 <= m - e => Find(rest, Delim) # npos
    BY <1>3, <1>4, DelimAtEnd, SMTT(30)
  <2> QED
    BY <2>1
<1>10. v < l
  BY <1>1, <1>9, SMTT(30)
<1>11. CASE f # npos
  <2>1. Occurs(buf, p, x)
    BY <1>2, <1>6, <1>7, <1>8, <1>11, FindIs
  <2>2. e = c + x
    BY <1>1, <1>2
  <2>3. Stands(w, e, m, p)
    BY <1>7, <2>1, <2>2, FedOccurs, Zenon
  <2>4. BreakDash(w, e)
    BY <1>2, <1>6, <2>3, BreakDashStands, Zenon
  <2>5. v \in Nat
    BY <1>1
  <2> QED
    BY <1>4, <1>10, <2>4, <2>5, BreakAfter, Zenon
<1>12. CASE f = npos
  <2>1. ASSUME NEW j \in Nat, e < j, j <= m PROVE w[j] \in Mutable
    <3>1. PICK i \in Nat : i = j - c /\ i \in x + 1..m - c /\ i \in 1..m - c /\ c + i = j
      <4>1. k \in Nat
        BY <1>1
      <4>2. m \in Nat
        BY <1>2
      <4>3. j > c + x
        BY <2>1, <4>1
      <4> QED
        BY <2>1, <4>1, <4>2, <4>3
    <3> QED
      BY <1>2, <1>8, <1>12, <3>1
  <2>6. k \in Nat /\ l \in Nat /\ m \in Nat
    BY <1>1, <1>2
  <2>2. PICK s \in Nat : s = k + 7 + l
    <3>1. k + 7 + l \in Nat
      BY <2>6
    <3> QED
      BY <3>1, Zenon
  <2>3. BreakDash(w, s)
    <3>1. s + 1 = k + 8 + l /\ s + 2 = k + 9 + l /\ s + 3 = k + 10 + l /\ s + 4 = k + 11 + l
      BY <2>2, <2>6
    <3> QED
      BY <1>1, <3>1 DEF BreakDash
  <2>4. ~(s + 4 <= m)
    <3> SUFFICES ASSUME s + 4 <= m PROVE FALSE
      OBVIOUS
    <3>1. Stands(w, s, m, p)
      BY <1>2, <1>6, <2>3, BreakDashStands, Zenon
    <3>4. PICK g \in Nat : g = l - y
      BY <2>6
    <3>2. g = l - y /\ s = c + g
      BY <2>2, <2>6, <3>4
    <3>3. Occurs(buf, p, g)
      BY <1>7, <3>1, <3>2, FedOccurs, Zenon
    <3> QED
      BY <1>2, <1>6, <1>7, <1>12, <3>3, FindIs
  <2>5. ASSUME ~(v + (d + 2) <= l) PROVE FALSE
    <3>0. k \in Nat /\ l \in Nat /\ m \in Nat /\ v \in Nat
      BY <1>1, <1>2
    <3>1. v + b < l
      BY <1>3, <2>2, <2>4, <3>0
    <3>2. k + 7 + l < m
      BY <1>3, <2>5, <3>0
    <3>3. PICK j \in l - b + 1..l : part.content[j] \notin Mutable
      BY <1>5, <3>0, <3>1
    <3>4. j \in 1..l
      BY <1>3, <3>0, <3>1
    <3>5. PICK i \in Nat : i = k + 7 + j /\ e < i /\ i <= m
      BY <1>3, <3>0, <3>1, <3>2, <3>3
    <3> QED
      BY <1>1, <2>1, <3>3, <3>4, <3>5
  <2> QED
    BY <2>5
<1> QED
  BY <1>11, <1>12

-----------------------------------------------------------------------------
(* The parts a parser has put together: the first i of the form, and the   *)
(* first y characters of the content of part i.                            *)
Whole(ps, parts, i) ==
    ps \in Seq(PartSet) /\ Len(ps) = i /\ \A j \in 1..i : ps[j] = parts[j]

Begun(ps, parts, i, y) ==
    /\ ps \in Seq(PartSet) /\ Len(ps) = i /\ i >= 1
    /\ \A j \in 1..i - 1 : ps[j] = parts[j]
    /\ ps[i].name = parts[i].name /\ Len(ps[i].content) = y
    /\ \A j \in 1..y : ps[i].content[j] = parts[i].content[j]

(* A new entry begins a part with its name and no content.                 *)
LEMMA BegunStarts ==
    ASSUME NEW parts, NEW i \in Nat \ {0}, NEW h, h = i - 1, NEW ps, Whole(ps, parts, h),
           NEW x \in Chars, x = parts[i].name
    PROVE  Begun(Append(ps, [name |-> x, content |-> <<>>]), parts, i, 0)
<1>1. ps \in Seq(PartSet) /\ Len(ps) = h /\ \A j \in 1..h : ps[j] = parts[j]
  BY DEF Whole
<1>2. PICK p : p = [name |-> x, content |-> <<>>]
  OBVIOUS
<1>3. p \in PartSet /\ p.name = x /\ p.content = <<>>
  <2>1. <<>> \in Seq(Chars)
    OBVIOUS
  <2> QED
    BY <1>2, <2>1 DEF PartSet
<1>4. PICK a : a = Append(ps, p)
  OBVIOUS
<1>5. /\ a \in Seq(PartSet) /\ Len(a) = i
      /\ \A j \in 1..h : a[j] = ps[j]
      /\ a[i] = p
  <2>1. h \in Nat /\ h + 1 = i
    OBVIOUS
  <2> QED
    BY <1>1, <1>3, <1>4, <2>1
<1>6. Len(a[i].content) = 0
  BY <1>3, <1>5
<1>7. Begun(a, parts, i, 0)
  BY <1>1, <1>3, <1>5, <1>6 DEF Begun
<1> QED
  BY <1>2, <1>4, <1>7

(* Content taken from the text is the next of the part's content.          *)
LEMMA BegunGrows ==
    ASSUME NEW parts, NEW i \in Nat, NEW y \in Nat, NEW ps, Begun(ps, parts, i, y),
           NEW w, NEW c, NEW m, NEW buf, Fed(buf, w, c, m), NEW x \in 0..m - c,
           NEW k \in Nat, c = k + y,
           \A j \in 1..y + x : w[k + j] = parts[i].content[j],
           NEW v, v = y + x
    PROVE  Begun(Longer(ps, Begin(buf, x)), parts, i, v)
<1>1. /\ ps \in Seq(PartSet) /\ Len(ps) = i /\ i >= 1
      /\ \A j \in 1..i - 1 : ps[j] = parts[j]
      /\ ps[i].name = parts[i].name /\ Len(ps[i].content) = y
      /\ \A j \in 1..y : ps[i].content[j] = parts[i].content[j]
  BY DEF Begun
<1>2. /\ c \in 0..m /\ m \in Nat /\ buf \in Seq(Chars) /\ Len(buf) = m - c
      /\ \A j \in 1..m - c : buf[j] = w[c + j]
  BY DEF Fed
<1>3. x \in Nat
  BY <1>2
<1>4. PICK text : text = Begin(buf, x)
  OBVIOUS
<1>5. text \in Seq(Chars) /\ Len(text) = x /\ \A j \in 1..x : text[j] = w[c + j]
  <2>1. \A j \in 1..x : buf[j] \in Chars /\ buf[j] = w[c + j]
    BY <1>2
  <2>2. /\ SubSeq(buf, 1, x) \in Seq(Chars)
        /\ Len(SubSeq(buf, 1, x)) = IF 1 <= x THEN x - 1 + 1 ELSE 0
        /\ \A j \in 1..x - 1 + 1 : SubSeq(buf, 1, x)[j] = buf[1 + j - 1]
    BY <1>3, <2>1, SubSeqProperties
  <2>3. (IF 1 <= x THEN x - 1 + 1 ELSE 0) = x /\ x - 1 + 1 = x /\ \A j \in 1..x : 1 + j - 1 = j
    BY <1>3
  <2>4. text = SubSeq(buf, 1, x)
    BY <1>4 DEF Begin
  <2> QED
    BY <2>1, <2>2, <2>3, <2>4
<1>6. PICK a : a = Longer(ps, text)
  OBVIOUS
<1>7. /\ a \in Seq(PartSet) /\ Len(a) = i
      /\ \A j \in 1..i : a[j] = IF j = i
                                THEN [name |-> ps[j].name, content |-> ps[j].content \o text]
                                ELSE ps[j]
  BY <1>1, <1>5, <1>6, LongerType, Zenon
<1>8. PICK old, new : old = ps[i].content /\ new = old \o text
  OBVIOUS
<1>9. old \in Seq(Chars) /\ Len(old) = y
  <2>1. ps[i] \in PartSet
    BY <1>1
  <2> QED
    BY <1>1, <1>8, <2>1 DEF PartSet
<1>10. Concat(new, old, text, y, x)
  BY <1>5, <1>8, <1>9, ConcatText, Zenon
<1>11. Len(new) = v /\ (\A j \in 1..y : new[j] = old[j]) /\ \A j \in 1..x : new[y + j] = text[j]
  BY <1>10 DEF Concat
<1>12. a[i].name = parts[i].name /\ a[i].content = new
  <2>1. i \in 1..i
    BY <1>1
  <2>2. a[i] = [name |-> ps[i].name, content |-> ps[i].content \o text]
    BY <1>7, <2>1, Zenon
  <2>3. a[i] = [name |-> ps[i].name, content |-> new]
    BY <1>8, <2>2, Zenon
  <2> QED
    BY <1>1, <2>3
<1>13. ASSUME NEW j \in 1..v PROVE new[j] = parts[i].content[j]
  <2>1. CASE j <= y
    <3>1. j \in 1..y
      BY <1>3, <2>1
    <3> QED
      BY <1>1, <1>8, <1>11, <3>1
  <2>2. CASE j > y
    <3>1. PICK h \in 1..x : j = y + h
      <4>1. j - y \in 1..x /\ j = y + (j - y)
        BY <1>3, <2>2
      <4> QED
        BY <4>1
    <3>2. c + h = k + j
      BY <1>3, <3>1
    <3> QED
      BY <1>5, <1>11, <3>1, <3>2
  <2> QED
    BY <1>3, <2>1, <2>2
<1>14. \A j \in 1..i - 1 : a[j] = parts[j]
  <2> SUFFICES ASSUME NEW j \in 1..i - 1 PROVE a[j] = parts[j]
    OBVIOUS
  <2>1. j \in 1..i /\ j # i
    BY <1>1
  <2>2. a[j] = ps[j]
    BY <1>7, <2>1, Zenon
  <2> QED
    BY <1>1, <2>2
<1>15. Begun(a, parts, i, v)
  BY <1>1, <1>7, <1>11, <1>12, <1>13, <1>14 DEF Begun
<1> QED
  BY <1>4, <1>6, <1>15

(* A part with all of its content is whole.                                *)
LEMMA BegunWhole ==
    ASSUME NEW parts, NEW i \in Nat, parts[i] \in PartSet, NEW ps,
           Begun(ps, parts, i, Len(parts[i].content))
    PROVE  Whole(ps, parts, i)
<1>1. PICK y : y = Len(parts[i].content)
  OBVIOUS
<1>2. /\ ps \in Seq(PartSet) /\ Len(ps) = i /\ i >= 1
      /\ \A j \in 1..i - 1 : ps[j] = parts[j]
      /\ ps[i].name = parts[i].name /\ Len(ps[i].content) = y
      /\ \A j \in 1..y : ps[i].content[j] = parts[i].content[j]
  BY <1>1 DEF Begun
<1>3. ps[i] \in PartSet
  BY <1>2
<1>4. PICK a, b : a = ps[i].content /\ b = parts[i].content
  OBVIOUS
<1>5. a \in Seq(Chars) /\ b \in Seq(Chars)
  BY <1>3, <1>4 DEF PartSet
<1>6. a = b
  BY <1>1, <1>2, <1>4, <1>5, SeqEqual
<1>7. ps[i] = parts[i]
  <2>1. \A r \in PartSet, s \in PartSet : r.name = s.name /\ r.content = s.content => r = s
    BY DEF PartSet
  <2>2. ps[i].name = parts[i].name /\ ps[i].content = parts[i].content
    BY <1>2, <1>4, <1>6, Zenon
  <2> QED
    BY <1>3, <2>1, <2>2, Zenon
<1>8. \A j \in 1..i : j = i \/ j \in 1..i - 1
  OBVIOUS
<1> QED
  BY <1>2, <1>7, <1>8 DEF Whole

-----------------------------------------------------------------------------
(* What a parser is exactly, from the c characters of the form that it has *)
(* taken; and that it is done when it waits with all of the form.          *)
At0(ps, parts, c) == c = 0 /\ Whole(ps, parts, 0)

At1(ps, o, parts, n, d, c) == \E i \in 1..n : c = o[i] + d + 2 /\ Whole(ps, parts, i - 1)

At2(ps, name, o, parts, n, d, c) ==
    \E i \in 1..n :
        /\ Whole(ps, parts, i - 1)
        /\ c = o[i] + d + 2 \/ (c = o[i] + d + 5 /\ name = parts[i].name)

At3(ps, o, parts, n, d, c) ==
    \E i \in 1..n :
        \E y \in 0..Len(parts[i].content) : c = o[i] + d + 7 + y /\ Begun(ps, parts, i, y)

At4(ps, o, parts, n, d, c) == \E i \in 1..n : c = o[i + 1] + d /\ Whole(ps, parts, i)

At5(ps, valid, parts, w, n, c) == c = Len(w) /\ valid /\ Whole(ps, parts, n)

ExactAt(q, o, parts, w, n, d, c) ==
    /\ q.state = 0 => At0(q.parts, parts, c)
    /\ q.state = 1 => At1(q.parts, o, parts, n, d, c)
    /\ q.state = 2 => At2(q.parts, q.name, o, parts, n, d, c)
    /\ q.state = 3 => At3(q.parts, o, parts, n, d, c)
    /\ q.state = 4 => At4(q.parts, o, parts, n, d, c)
    /\ q.state = 5 => At5(q.parts, q.valid, parts, w, n, c)

Exact(q, o, parts, w, n, d, m) ==
    /\ ExactAt(q, o, parts, w, n, d, Taken(q, m))
    /\ q.loop = "wait" /\ m = Len(w) => q.state = 5

(* Exact from its two halves.                                              *)
LEMMA ExactIs ==
    ASSUME NEW o, NEW parts, NEW w, NEW n, NEW d, NEW m, NEW c, NEW q, Fed(q.buf, w, c, m),
           ExactAt(q, o, parts, w, n, d, c), q.loop # "wait" \/ m # Len(w) \/ q.state = 5
    PROVE  Exact(q, o, parts, w, n, d, m)
<1>1. c = Taken(q, m)
  BY DEF Taken, Fed
<1> QED
  BY <1>1 DEF Exact

(* A parser that waits before the whole form has arrived stays exact.      *)
LEMMA ExactWait ==
    ASSUME NEW o, NEW parts, NEW w, NEW n, NEW d, NEW m, NEW c, NEW q \in Parsers,
           Fed(q.buf, w, c, m), ExactAt(q, o, parts, w, n, d, c), m # Len(w) \/ q.state = 5
    PROVE  Exact(Wait(q), o, parts, w, n, d, m)
<1>1. PICK t : t = Wait(q)
  OBVIOUS
<1>2. t.state = q.state /\ t.buf = q.buf /\ t.valid = q.valid /\ t.name = q.name /\ t.parts = q.parts
  BY <1>1, StopType
<1>3. ExactAt(t, o, parts, w, n, d, c) /\ Fed(t.buf, w, c, m) /\ (m # Len(w) \/ t.state = 5)
  BY <1>2 DEF ExactAt
<1>4. Exact(t, o, parts, w, n, d, m)
  BY <1>3, ExactIs, Zenon
<1> QED
  BY <1>1, <1>4

(* A parser of a known state.                                              *)
LEMMA ExactKnown ==
    ASSUME NEW o, NEW parts, NEW w, NEW n, NEW d, NEW c, NEW q,
           \/ q.state = 0 /\ At0(q.parts, parts, c)
           \/ q.state = 1 /\ At1(q.parts, o, parts, n, d, c)
           \/ q.state = 2 /\ At2(q.parts, q.name, o, parts, n, d, c)
           \/ q.state = 3 /\ At3(q.parts, o, parts, n, d, c)
           \/ q.state = 4 /\ At4(q.parts, o, parts, n, d, c)
           \/ q.state = 5 /\ At5(q.parts, q.valid, parts, w, n, c)
    PROVE  ExactAt(q, o, parts, w, n, d, c)
  BY DEF ExactAt

(* A parser that is not done has not taken all of the form, nor come       *)
(* nearer to its end than the closing characters.                          *)
LEMMA ExactShort ==
    ASSUME NEW o, NEW parts, NEW w, NEW n, NEW d, Layout(o, parts, w, n, d), NEW c,
           NEW q \in Parsers, ExactAt(q, o, parts, w, n, d, c), q.state # 5
    PROVE  c \in Nat /\ c < Len(w)
<1>1. n \in Nat /\ d \in Nat /\ d >= 2 /\ Len(w) \in Nat
  BY DEF Layout
<1>2. PICK z \in Nat : z = Len(w)
  BY <1>1
<1>3. ASSUME NEW i \in 1..n
      PROVE  /\ o[i] \in Nat /\ o[i + 1] \in Nat /\ Len(parts[i].content) \in Nat
             /\ o[i] + d + 9 + Len(parts[i].content) < z
             /\ o[i + 1] + d < z
  <2>1. PICK k, l : k = o[i] + d /\ l = Len(parts[i].content)
    OBVIOUS
  <2>9. PlaceIn(o, parts, w, n, d, i, k, l)
    BY <2>1, LayoutPlace, Zenon
  <2>2. Spot(w, k, l, d, parts[i]) /\ i + 1 \in 1..n + 1 /\ o[i + 1] = k + 9 + l
    BY <2>9 DEF PlaceIn
  <2>3. k \in Nat /\ l \in Nat
    BY <2>2 DEF Spot
  <2>4. i \in 1..n + 1
    BY <1>1
  <2>5. o[i] \in Nat /\ o[i + 1] \in Nat /\ o[i + 1] + d + 4 <= z
    BY <1>2, <2>2, <2>4, LayoutRoom
  <2>6. o[i + 1] + d < z
    BY <1>1, <1>2, <2>5
  <2>7. k + 9 + l < z
    BY <1>1, <1>2, <2>2, <2>3, <2>5
  <2>8. o[i] + d + 9 + l < z
    BY <2>1, <2>7
  <2> QED
    BY <2>1, <2>3, <2>5, <2>6, <2>8
<1>4. q.state \in 0..4
  BY ParserFields
<1>5. CASE q.state = 0
  <2>1. c = 0
    BY <1>5 DEF ExactAt, At0
  <2>2. 1 \in 1..n + 1 /\ o[1] + d + 4 <= Len(w) /\ o[1] \in Nat
    BY <1>1, LayoutRoom
  <2>3. 0 < z
    BY <1>1, <1>2, <2>2
  <2> QED
    BY <1>2, <2>1, <2>3
<1>6. CASE q.state \in {1, 2}
  <2>1. PICK i \in 1..n : c = o[i] + d + 2 \/ c = o[i] + d + 5
    BY <1>6 DEF ExactAt, At1, At2
  <2>2. PICK e \in Nat, l \in Nat : e = o[i] /\ l = Len(parts[i].content) /\ e + d + 9 + l < z
    BY <1>3
  <2>3. c = e + d + 2 \/ c = e + d + 5
    BY <2>1, <2>2
  <2>7. d \in Nat /\ e + d + 9 + l < z
    BY <1>1, <2>2
  <2>5. \A x \in 0..9 + l : e + d + x \in Nat /\ e + d + x < z
    BY <2>7
  <2>6. 2 \in 0..9 + l /\ 5 \in 0..9 + l
    OBVIOUS
  <2>4. c \in Nat /\ c < z
    BY <2>3, <2>5, <2>6, Zenon
  <2> QED
    BY <1>2, <2>4
<1>7. CASE q.state = 3
  <2>1. PICK i \in 1..n : \E y \in 0..Len(parts[i].content) : c = o[i] + d + 7 + y
    BY <1>7 DEF ExactAt, At3
  <2>2. PICK e \in Nat, l \in Nat : e = o[i] /\ l = Len(parts[i].content) /\ e + d + 9 + l < z
    BY <1>3
  <2>3. PICK y \in 0..l : c = e + d + 7 + y
    BY <2>1, <2>2
  <2>7. d \in Nat /\ e + d + 9 + l < z
    BY <1>1, <2>2
  <2>4. e + d + 7 + y \in Nat /\ e + d + 7 + y < z
    BY <2>7
  <2> QED
    BY <1>2, <2>3, <2>4, Zenon
<1>8. CASE q.state = 4
  <2>1. PICK i \in 1..n : c = o[i + 1] + d
    BY <1>8 DEF ExactAt, At4
  <2>2. PICK e \in Nat : e = o[i + 1] /\ e + d < z
    BY <1>3
  <2> QED
    BY <1>1, <1>2, <2>1, <2>2
<1> QED
  BY <1>4, <1>5, <1>6, <1>7, <1>8

(* A line break in the buffer.                                             *)
LEMMA BreakStands ==
    ASSUME NEW w, NEW s \in Nat, NEW m \in Nat
    PROVE  Stands(w, s, m, crlf_) <=> s + 2 <= m /\ w[s + 1] = "CR" /\ w[s + 2] = "LF"
<1>1. PICK p : p = crlf_
  OBVIOUS
<1>2. Len(p) = 2 /\ p[1] = "CR" /\ p[2] = "LF"
  BY <1>1, Patterns
<1>3. \A j \in 1..2 : j = 1 \/ j = 2
  OBVIOUS
<1>4. 1 \in 1..2 /\ 2 \in 1..2
  OBVIOUS
<1>5. (\A j \in 1..2 : w[s + j] = p[j]) <=> w[s + 1] = "CR" /\ w[s + 2] = "LF"
  BY <1>2, <1>3, <1>4
<1>6. Stands(w, s, m, p) <=> s + 2 <= m /\ w[s + 1] = "CR" /\ w[s + 2] = "LF"
  BY <1>2, <1>5 DEF Stands
<1> QED
  BY <1>1, <1>6, Zenon

(* The turns of an exact parser, by its state.                             *)
LEMMA ExactOpening ==
    ASSUME NEW o, NEW parts, NEW w, NEW n, NEW d, Layout(o, parts, w, n, d), n >= 1,
           NEW m, NEW c, NEW q \in Parsers, q.loop = "go", q.state = 0, Fed(q.buf, w, c, m),
           ExactAt(q, o, parts, w, n, d, c)
    PROVE  Exact(InitialBoundary(q), o, parts, w, n, d, m)
<1>1. At0(q.parts, parts, c) /\ c = 0 /\ Whole(q.parts, parts, 0)
  BY DEF ExactAt, At0
<1>2. PICK x \in Nat : x = Len(Opening) /\ x = d + 2
  <2>1. PICK b \in Nat : b = Len(boundary_) /\ d = 2 + b
    BY Patterns DEF Layout
  <2>2. Len(Opening) = 4 + b
    BY <2>1, OpeningIs
  <2>3. 4 + b \in Nat /\ 4 + b = d + 2
    BY <2>1
  <2> QED
    BY <2>2, <2>3
<1>3. PICK l \in Nat : l = Len(q.buf) /\ l = m - c
  BY ParserFields DEF Fed
<1>4. l >= x => Find(q.buf, Opening) = 0
  BY <1>1, <1>2, <1>3, OpeningFound
<1>5. PICK t : t = InitialBoundary(q)
  OBVIOUS
<1>6. (l < x /\ t = Wait(q)) \/ (l >= x /\ t = Take(q, x, 1))
  <2>1. OpeningMoves(q, t, x)
    BY <1>2, <1>5, OpeningTurn, Zenon
  <2> QED
    BY <1>3, <1>4, <2>1 DEF OpeningMoves
<1>7. CASE l < x /\ t = Wait(q)
  <2>1. 1 \in 1..n + 1 /\ o[1] = 0 /\ n \in Nat /\ d \in Nat /\ Len(w) \in Nat
    BY DEF Layout
  <2>2. o[1] + d + 4 <= Len(w)
    BY <2>1, LayoutRoom
  <2>3. 0 + d + 4 <= Len(w)
    BY <2>1, <2>2
  <2>4. m # Len(w)
    BY <1>1, <1>2, <1>3, <1>7, <2>1, <2>3
  <2> QED
    BY <1>5, <1>7, <2>4, ExactWait
<1>8. CASE l >= x /\ t = Take(q, x, 1)
  <2>1. x \in 0..m - c /\ x \in 0..Len(q.buf) /\ 1 \in 0..5
    BY <1>2, <1>3, <1>8
  <2>2. t.loop = "go" /\ t.state = 1 /\ t.parts = q.parts /\ t.buf = Erase(q.buf, x)
    BY <1>8, <2>1, TakeType
  <2>3. Fed(t.buf, w, x, m)
    <3>1. x = c + x
      BY <1>1, <1>2
    <3> QED
      BY <2>1, <2>2, <3>1, FedErase
  <2>4. At1(t.parts, o, parts, n, d, x)
    <3>1. 1 \in 1..n /\ 1 - 1 = 0 /\ o[1] = 0 /\ d \in Nat
      BY DEF Layout
    <3>2. x = o[1] + d + 2
      BY <1>2, <3>1
    <3> QED
      BY <1>1, <2>2, <3>1, <3>2 DEF At1
  <2>5. ExactAt(t, o, parts, w, n, d, x) /\ t.loop # "wait"
    BY <2>2, <2>4, ExactKnown
  <2> QED
    BY <1>5, <2>3, <2>5, ExactIs
<1> QED
  BY <1>6, <1>7, <1>8

(* State 1 begins the next part.                                           *)
LEMMA ExactEntry ==
    ASSUME NEW o, NEW parts, NEW w, NEW n, NEW d,
           NEW m, NEW c, NEW q \in Parsers, q.loop = "go", q.state = 1, Fed(q.buf, w, c, m),
           ExactAt(q, o, parts, w, n, d, c)
    PROVE  Exact(NewEntry(q), o, parts, w, n, d, m)
<1>1. PICK i \in 1..n : c = o[i] + d + 2 /\ Whole(q.parts, parts, i - 1)
  BY DEF ExactAt, At1
<1>2. PICK t : t = NewEntry(q)
  OBVIOUS
<1>3. t.state = 2 /\ t.buf = q.buf /\ t.parts = q.parts /\ t.loop = q.loop
  BY <1>2, EntryFields
<1>4. At2(t.parts, t.name, o, parts, n, d, c)
  BY <1>1, <1>3 DEF At2
<1>5. ExactAt(t, o, parts, w, n, d, c) /\ t.loop # "wait" /\ Fed(t.buf, w, c, m)
  BY <1>3, <1>4, ExactKnown
<1> QED
  BY <1>2, <1>5, ExactIs

(* State 2 finds the name of the part, then the beginning of its content.  *)
LEMMA ExactHeaders ==
    ASSUME NEW o, NEW parts, NEW w, NEW n, NEW d, Layout(o, parts, w, n, d),
           NEW m, NEW c, NEW q \in Parsers, q.loop = "go", q.state = 2, Fed(q.buf, w, c, m),
           ExactAt(q, o, parts, w, n, d, c)
    PROVE  Exact(Headers(q), o, parts, w, n, d, m)
<1>1. PICK i \in 1..n : /\ Whole(q.parts, parts, i - 1)
                        /\ c = o[i] + d + 2 \/ (c = o[i] + d + 5 /\ q.name = parts[i].name)
  BY DEF ExactAt, At2
<1>2. PICK k, l, x : k = o[i] + d /\ l = Len(parts[i].content) /\ x = parts[i].name
  OBVIOUS
<1>3. PlaceIn(o, parts, w, n, d, i, k, l)
  BY <1>2, LayoutPlace, Zenon
<1>4. /\ k \in Nat /\ l \in Nat /\ x \in Names
      /\ w[k + 3] = x /\ w[k + 4] = "CR" /\ w[k + 5] = "LF" /\ w[k + 6] = "CR" /\ w[k + 7] = "LF"
      /\ k + 13 + l + d <= Len(w)
  BY <1>2, <1>3 DEF PlaceIn, Spot
<1>5. x \in Chars /\ x \notin {"CR", "LF", "-"}
  BY <1>4, MultipartAssumption DEF Chars
<1>6. /\ c \in 0..m /\ m \in Nat /\ Len(w) \in Nat /\ q.buf \in Seq(Chars) /\ Len(q.buf) = m - c
      /\ \A j \in 1..m - c : q.buf[j] = w[c + j]
  BY DEF Fed
<1>7. d \in Nat
  BY DEF Layout
<1>8. (c = k + 2 \/ (c = k + 5 /\ q.name = x)) /\ c \in Nat
  BY <1>1, <1>2, <1>6
<1>9. PICK pos : pos = Find(q.buf, crlf_)
  OBVIOUS
<1>10. PICK t : t = Headers(q)
  OBVIOUS
<1>11. PICK p1, p2 :
          /\ p1 = [q EXCEPT !.parts = Append(@, [name |-> q.name, content |-> <<>>])]
          /\ p2 = [q EXCEPT !.name = IF pos = 1 /\ q.buf[1] \in Names THEN q.buf[1] ELSE @]
  OBVIOUS
<1>12. \/ pos = npos /\ t = Wait(q)
       \/ pos = 0 /\ 2 <= Len(q.buf) /\ t = Take(p1, 2, 3)
       \/ pos \in Nat \ {0} /\ pos + 2 <= Len(q.buf) /\ t = Take(p2, pos + 2, 2)
  <2>1. HeadersMoves(q, t, pos)
    BY <1>9, <1>10, HeadersTurn, Zenon
  <2> QED
    BY <1>11, <2>1 DEF HeadersMoves
<1>13. PICK f : f = crlf_ /\ f \in Seq(Chars) /\ Len(f) = 2
  BY Patterns
<1>14. ASSUME NEW p \in Nat, NEW s \in Nat, s = c + p
       PROVE  Occurs(q.buf, f, p) <=> s + 2 <= m /\ w[s + 1] = "CR" /\ w[s + 2] = "LF"
  <2>1. Occurs(q.buf, f, p) <=> Stands(w, s, m, f)
    BY <1>13, <1>14, FedOccurs, Zenon
  <2>2. Stands(w, s, m, f) <=> s + 2 <= m /\ w[s + 1] = "CR" /\ w[s + 2] = "LF"
    BY <1>6, <1>13, <1>14, BreakStands, Zenon
  <2> QED
    BY <2>1, <2>2
<1>15. \/ pos = npos /\ pos \notin Nat /\ \A p : ~Occurs(q.buf, f, p)
       \/ pos \in Nat /\ Occurs(q.buf, f, pos) /\ \A p : Occurs(q.buf, f, p) => pos <= p
  <2>1. PICK z \in Nat : z = Len(q.buf)
    BY <1>6
  <2>2. z - 2 \in Int /\ \A u \in 0..z - 2 : u \in Nat
    OBVIOUS
  <2> QED
    BY <1>6, <1>9, <1>13, <2>1, <2>2, FindIs
<1>16. CASE c = k + 2
  <2>1. PICK s0 \in Nat, s1 \in Nat : s0 = c /\ s1 = c + 1 /\ s0 = c + 0 /\ s1 = k + 3
    BY <1>4, <1>8, <1>16
  <2>2. ~Occurs(q.buf, f, 0)
    <3>1. s0 + 1 = k + 3 /\ 0 \in Nat
      BY <1>4, <1>16, <2>1
    <3>2. w[s0 + 1] # "CR"
      BY <1>4, <1>5, <3>1
    <3> QED
      BY <1>14, <2>1, <3>1, <3>2, Zenon
  <2>3. k + 5 <= m <=> Occurs(q.buf, f, 1)
    <3>1. s1 + 1 = k + 4 /\ s1 + 2 = k + 5 /\ 1 \in Nat
      BY <1>4, <2>1
    <3>2. Occurs(q.buf, f, 1) <=> s1 + 2 <= m /\ w[s1 + 1] = "CR" /\ w[s1 + 2] = "LF"
      BY <1>14, <2>1, <3>1, Zenon
    <3> QED
      BY <1>4, <3>1, <3>2
  <2>4. pos # 0
    BY <1>15, <2>2
  <2>5. CASE pos = npos /\ t = Wait(q)
    <3>1. ~(k + 5 <= m)
      BY <1>15, <2>3, <2>5 DEF npos
    <3>2. m # Len(w)
      BY <1>4, <1>6, <1>7, <3>1
    <3> QED
      BY <1>10, <2>5, <3>2, ExactWait
  <2>6. CASE pos \in Nat \ {0} /\ pos + 2 <= Len(q.buf) /\ t = Take(p2, pos + 2, 2)
    <3>1. k + 5 <= m
      BY <1>4, <1>6, <1>16, <2>6
    <3>2. pos <= 1
      <4>1. pos # npos
        BY <2>6 DEF npos
      <4> QED
        BY <1>15, <2>3, <3>1, <4>1
    <3>3. pos = 1
      BY <2>6, <3>2
    <3>4. q.buf[1] = x
      <4>1. 1 \in 1..m - c /\ c + 1 = k + 3
        BY <1>4, <1>6, <1>16, <3>1
      <4> QED
        BY <1>4, <1>6, <4>1
    <3>5. p2 = [q EXCEPT !.name = x]
      BY <1>4, <1>11, <3>3, <3>4
    <3>6. /\ p2 \in Parsers /\ p2.buf = q.buf /\ p2.name = x /\ p2.parts = q.parts
          /\ p2.loop = q.loop
      BY <1>5, <3>5, NameFields
    <3>7. t = Take(p2, 3, 2) /\ 3 \in 0..m - c /\ 3 \in 0..Len(p2.buf) /\ 2 \in 0..5
      <4>1. 1 + 2 = 3
        OBVIOUS
      <4>2. 3 \in 0..m - c
        BY <1>4, <1>6, <1>16, <3>1
      <4> QED
        BY <1>6, <2>6, <3>3, <3>6, <4>1, <4>2
    <3>8. /\ t.loop = "go" /\ t.state = 2 /\ t.name = x /\ t.parts = q.parts
          /\ t.buf = Erase(q.buf, 3)
      BY <3>6, <3>7, TakeType
    <3>9. PICK e \in Nat : e = c + 3 /\ e = k + 5
      BY <1>4, <1>16
    <3>10. Fed(t.buf, w, e, m)
      BY <3>7, <3>8, <3>9, FedErase
    <3>11. At2(t.parts, t.name, o, parts, n, d, e)
      <4>1. e = o[i] + d + 5 /\ t.name = parts[i].name /\ Whole(t.parts, parts, i - 1)
        BY <1>1, <1>2, <3>8, <3>9
      <4> QED
        BY <4>1 DEF At2
    <3>12. ExactAt(t, o, parts, w, n, d, e) /\ t.loop # "wait"
      BY <3>8, <3>11, ExactKnown
    <3> QED
      BY <1>10, <3>10, <3>12, ExactIs
  <2> QED
    BY <1>12, <2>4, <2>5, <2>6
<1>17. CASE c = k + 5 /\ q.name = x
  <2>1. PICK s0 \in Nat : s0 = c /\ s0 = c + 0
    BY <1>8
  <2>2. k + 7 <= m <=> Occurs(q.buf, f, 0)
    <3>1. s0 + 1 = k + 6 /\ s0 + 2 = k + 7 /\ 0 \in Nat
      BY <1>4, <1>17, <2>1
    <3>2. Occurs(q.buf, f, 0) <=> s0 + 2 <= m /\ w[s0 + 1] = "CR" /\ w[s0 + 2] = "LF"
      BY <1>14, <2>1, <3>1, Zenon
    <3> QED
      BY <1>4, <3>1, <3>2
  <2>3. CASE pos = npos /\ t = Wait(q)
    <3>1. ~(k + 7 <= m)
      BY <1>15, <2>2, <2>3 DEF npos
    <3>2. m # Len(w)
      BY <1>4, <1>6, <1>7, <3>1
    <3> QED
      BY <1>10, <2>3, <3>2, ExactWait
  <2>4. CASE pos \in Nat \ {0} /\ pos + 2 <= Len(q.buf)
    <3>1. k + 7 <= m
      BY <1>4, <1>6, <1>17, <2>4
    <3>2. pos # npos
      BY <2>4 DEF npos
    <3>3. pos <= 0
      BY <1>15, <2>2, <3>1, <3>2
    <3> QED
      BY <2>4, <3>3
  <2>5. CASE pos = 0 /\ 2 <= Len(q.buf) /\ t = Take(p1, 2, 3)
    <3>1. PICK ps : ps = Append(q.parts, [name |-> x, content |-> <<>>])
      OBVIOUS
    <3>2. PICK h \in Nat : h = i - 1 /\ i \in Nat \ {0}
      OBVIOUS
    <3>3. Begun(ps, parts, i, 0)
      BY <1>1, <1>2, <1>5, <3>1, <3>2, BegunStarts, Zenon
    <3>4. ps \in Seq(PartSet)
      BY <3>3 DEF Begun
    <3>5. p1 = [q EXCEPT !.parts = ps]
      BY <1>11, <1>17, <3>1
    <3>6. p1 \in Parsers /\ p1.buf = q.buf /\ p1.parts = ps /\ p1.loop = q.loop
      BY <3>4, <3>5, PartsFields
    <3>7. 2 \in 0..m - c /\ 2 \in 0..Len(p1.buf) /\ 3 \in 0..5
      BY <1>6, <2>5, <3>6
    <3>8. t.loop = "go" /\ t.state = 3 /\ t.parts = ps /\ t.buf = Erase(q.buf, 2)
      BY <2>5, <3>6, <3>7, TakeType
    <3>9. PICK e \in Nat : e = c + 2 /\ e = k + 7
      BY <1>4, <1>17
    <3>10. Fed(t.buf, w, e, m)
      BY <3>7, <3>8, <3>9, FedErase
    <3>11. At3(t.parts, o, parts, n, d, e)
      <4>1. 0 \in 0..Len(parts[i].content) /\ e = o[i] + d + 7 + 0
        <5>1. k + 7 = k + 7 + 0 /\ 0 \in 0..l
          BY <1>4
        <5> QED
          BY <1>2, <3>9, <5>1
      <4> QED
        BY <3>3, <3>8, <4>1 DEF At3
    <3>12. ExactAt(t, o, parts, w, n, d, e) /\ t.loop # "wait"
      BY <3>8, <3>11, ExactKnown
    <3> QED
      BY <1>10, <3>10, <3>12, ExactIs
  <2> QED
    BY <1>12, <2>3, <2>4, <2>5
<1> QED
  BY <1>8, <1>16, <1>17

(* State 3 moves the content, and nothing but it, to the part.             *)
LEMMA ExactBody ==
    ASSUME NEW o, NEW parts, NEW w, NEW n, NEW d, Layout(o, parts, w, n, d),
           \A i \in 1..n : Separable(parts[i].content),
           NEW m, NEW c, NEW q \in Parsers, q.loop = "go", q.state = 3, Fed(q.buf, w, c, m),
           ExactAt(q, o, parts, w, n, d, c)
    PROVE  Exact(Body(q), o, parts, w, n, d, m)
<1>1. PICK i \in 1..n : \E y \in 0..Len(parts[i].content) :
                            c = o[i] + d + 7 + y /\ Begun(q.parts, parts, i, y)
  BY DEF ExactAt, At3
<1>2. PICK k, l : k = o[i] + d /\ l = Len(parts[i].content)
  OBVIOUS
<1>3. PICK y \in 0..l : c = k + 7 + y /\ Begun(q.parts, parts, i, y)
  BY <1>1, <1>2
<1>4. PlaceIn(o, parts, w, n, d, i, k, l)
  BY <1>2, LayoutPlace, Zenon
<1>5. /\ Spot(w, k, l, d, parts[i]) /\ i + 1 \in 1..n + 1 /\ o[i + 1] = k + 9 + l
      /\ k \in Nat /\ l \in Nat /\ \A j \in 1..l : w[k + 7 + j] = parts[i].content[j]
      /\ k + 13 + l + d <= Len(w)
  BY <1>4 DEF PlaceIn, Spot
<1>6. PICK part : part = parts[i]
  OBVIOUS
<1>7. /\ Spot(w, k, l, d, part) /\ Separable(part.content)
      /\ Find(part.content, crlf_ \o dash_) = npos
  BY <1>5, <1>6, Zenon DEF Separable
<1>8. d = 2 + Len(boundary_) /\ d \in Nat
  BY DEF Layout
<1>9. /\ c \in 0..m /\ m \in Nat /\ Len(w) \in Nat /\ q.buf \in Seq(Chars) /\ Len(q.buf) = m - c
      /\ \A j \in 1..m - c : q.buf[j] = w[c + j]
  BY DEF Fed
<1>10. c \in Nat /\ y \in Nat
  BY <1>3, <1>5, <1>9
<1>34. PICK all \in Nat : all = Len(w) /\ k + 13 + l + d <= all
  BY <1>5, <1>9
<1>35. k \in Nat /\ l \in Nat /\ d \in Nat /\ m \in Nat /\ c \in Nat /\ y \in Nat /\ c <= m
  BY <1>5, <1>8, <1>9, <1>10
<1>11. PICK x, r, pos : BodyMoves(q, Body(q), x, r, pos)
  BY BodyTurn
<1>12. PICK t : t = Body(q)
  OBVIOUS
<1>13. Sure(q.buf, x) /\ r = Content(q, x) /\ pos = Find(r.buf, Delim)
  BY <1>11, Zenon DEF BodyMoves
<1>14. x \in 0..m - c /\ y + x <= l
  <2>1. y \in 0..l /\ c = k + 7 + y
    BY <1>3
  <2> QED
    BY <1>7, <1>13, <2>1, SureInContent
<1>15. x \in Nat
  BY <1>9, <1>14
<1>16. PICK v \in Nat, e \in Nat : v = y + x /\ e = c + x
  BY <1>10, <1>15
<1>17. v \in 0..l /\ e = k + 7 + v
  BY <1>3, <1>5, <1>10, <1>14, <1>15, <1>16
<1>18. Filled(r, q, x) /\ Fed(r.buf, w, e, m)
  BY <1>13, <1>14, <1>16, FedContent, Zenon
<1>19. PICK g \in Nat : g = k + 7
  BY <1>5
<1>20. \A z \in 1..l : w[g + z] = parts[i].content[z]
  BY <1>5, <1>19
<1>21. ASSUME NEW p \in Parsers, p.state = 3, NEW u \in 0..l, NEW a \in Nat, a = g + u,
              Begun(p.parts, parts, i, u), Fed(p.buf, w, a, m), NEW z \in 0..m - a, NEW s,
              s = Content(p, z), u + z <= l, NEW b \in Nat, b = u + z, NEW f \in Nat, f = a + z
       PROVE  Filled(s, p, z) /\ Fed(s.buf, w, f, m) /\ Begun(s.parts, parts, i, b)
  <2>1. Filled(s, p, z) /\ Fed(s.buf, w, f, m)
    BY <1>21, FedContent, Zenon
  <2>2. \A j \in 1..u + z : w[g + j] = parts[i].content[j]
    <3>1. u + z \in Nat /\ \A j \in 1..u + z : j \in 1..l
      BY <1>5, <1>21
    <3> QED
      BY <1>20, <3>1
  <2>3. i \in Nat /\ u \in Nat
    BY <1>5
  <2>6. PICK ps, buf : ps = p.parts /\ buf = p.buf
    OBVIOUS
  <2>7. /\ Begun(ps, parts, i, u) /\ Fed(buf, w, a, m) /\ a = g + u /\ b = u + z
        /\ g \in Nat /\ z \in 0..m - a
    BY <1>19, <1>21, <2>6
  <2>8. Begun(Longer(ps, Begin(buf, z)), parts, i, b)
    BY <2>2, <2>3, <2>7, BegunGrows, Zenon
  <2>4. Begun(Longer(p.parts, Begin(p.buf, z)), parts, i, b)
    BY <2>6, <2>8
  <2>5. s.parts = Longer(p.parts, Begin(p.buf, z))
    BY <2>1 DEF Filled
  <2> QED
    BY <2>1, <2>4, <2>5, Zenon
<1>22. c = g + y /\ e = g + v
  BY <1>3, <1>17, <1>19
<1>23. Begun(r.parts, parts, i, v)
  <2>1. Filled(r, q, x) /\ Fed(r.buf, w, e, m) /\ Begun(r.parts, parts, i, v)
    BY <1>3, <1>10, <1>13, <1>14, <1>16, <1>21, <1>22, Zenon
  <2> QED
    BY <2>1
<1>24. r \in Parsers /\ r.loop = "go" /\ r.state = 3
  BY <1>18 DEF Filled
<1>25. ASSUME NEW p \in Parsers, p.state = 3, NEW u \in 0..l, NEW a \in Nat, a = g + u,
              Begun(p.parts, parts, i, u)
       PROVE  ExactAt(p, o, parts, w, n, d, a)
  <2>1. u \in 0..Len(parts[i].content) /\ a = o[i] + d + 7 + u
    BY <1>2, <1>5, <1>19, <1>25
  <2>2. At3(p.parts, o, parts, n, d, a)
    BY <1>25, <2>1 DEF At3
  <2> QED
    BY <1>25, <2>2, ExactKnown
<1>26. ExactAt(r, o, parts, w, n, d, e)
  BY <1>17, <1>22, <1>23, <1>24, <1>25
<1>27. PICK D \in Nat : D = Len(Delim) /\ D = d + 2
  <2>1. Len(Delim) = d + 2
    BY <1>7, <1>8, <1>17, <1>18, DelimAtEnd
  <2>2. d + 2 \in Nat
    BY <1>8
  <2> QED
    BY <2>1, <2>2
<1>28. Len(r.buf) = m - e /\ e \in 0..m
  BY <1>18 DEF Fed
<1>29. \/ Len(q.buf) < 4 /\ t = Wait(q)
       \/ Len(r.buf) < D /\ t = Wait(r)
       \/ Len(r.buf) >= D /\ pos # npos /\ t = Take(Content(r, pos), D, 4)
       \/ Len(r.buf) >= D /\ pos = npos /\ t = Content(r, D)
  BY <1>11, <1>12, <1>27 DEF BodyMoves
<1>30. CASE Len(q.buf) < 4 /\ t = Wait(q)
  <2>1. m # Len(w)
    <3>1. k + 7 + y + 6 <= all
      BY <1>34, <1>35
    <3>2. m - c < 4
      BY <1>9, <1>30
    <3>3. c = k + 7 + y
      BY <1>3
    <3>4. m # all
      BY <1>35, <3>1, <3>2, <3>3
    <3> QED
      BY <1>34, <3>4
  <2> QED
    BY <1>12, <1>30, <2>1, ExactWait
<1>31. CASE Len(r.buf) < D /\ t = Wait(r)
  <2>1. m # Len(w)
    <3>1. k + 7 + v + 6 + d <= all
      BY <1>17, <1>34, <1>35
    <3>2. m - e < d + 2
      BY <1>27, <1>28, <1>31
    <3>4. m # all
      BY <1>17, <1>35, <3>1, <3>2
    <3> QED
      BY <1>34, <3>4
  <2> QED
    BY <1>12, <1>18, <1>24, <1>26, <1>31, <2>1, ExactWait
<1>32. CASE Len(r.buf) >= D /\ pos # npos /\ t = Take(Content(r, pos), D, 4)
  <2>1. pos = l - v /\ pos + (d + 2) <= m - e
    BY <1>7, <1>8, <1>13, <1>17, <1>18, <1>32, DelimAtEnd
  <2>2. PICK p \in Nat : p = pos /\ p = l - v /\ v + p = l /\ v + p <= l
    BY <1>5, <1>17, <2>1, SMTT(30)
  <2>3. PICK f \in Nat : f = e + p /\ f = k + 7 + l
    BY <1>5, <1>16, <1>17, <2>2
  <2>4. PICK s : s = Content(r, p)
    OBVIOUS
  <2>5. p \in 0..m - e /\ l = v + p
    BY <1>8, <1>9, <1>28, <2>1, <2>2
  <2>6. Filled(s, r, p) /\ Fed(s.buf, w, f, m) /\ Begun(s.parts, parts, i, l)
    <3>1. v \in 0..l /\ e \in Nat /\ e = g + v /\ f \in Nat /\ f = e + p /\ l \in Nat
      BY <1>17, <1>22, <1>35, <2>3
    <3> QED
      BY <1>18, <1>21, <1>23, <1>24, <2>2, <2>4, <2>5, <3>1
  <2>7. s \in Parsers /\ s.loop = "go"
    BY <1>24, <2>6 DEF Filled
  <2>8. parts[i] \in PartSet
    <3>1. parts[i] \in FormPart
      BY DEF Layout
    <3>2. Names \subseteq Chars
      BY MultipartAssumption DEF Chars
    <3> QED
      BY <3>1, <3>2 DEF FormPart, PartSet
  <2>9. Whole(s.parts, parts, i)
    <3>1. i \in Nat
      OBVIOUS
    <3> QED
      BY <1>2, <2>6, <2>8, <3>1, BegunWhole, Zenon
  <2>10. t = Take(s, D, 4)
    BY <1>32, <2>2, <2>4
  <2>11. D \in 0..m - f /\ 4 \in 0..5
    <3>1. p + D <= m - e
      BY <1>27, <2>1, <2>2
    <3> QED
      BY <1>35, <2>3, <3>1
  <2>12. Len(s.buf) = m - f
    BY <2>6 DEF Fed
  <2>13. t.loop = "go" /\ t.state = 4 /\ t.parts = s.parts /\ t.buf = Erase(s.buf, D)
    BY <2>7, <2>10, <2>11, <2>12, TakeType
  <2>14. PICK h \in Nat : h = f + D
    OBVIOUS
  <2>15. Fed(t.buf, w, h, m)
    BY <2>6, <2>11, <2>13, <2>14, FedErase
  <2>16. h = o[i + 1] + d
    <3>1. h = k + 9 + l + d
      BY <1>5, <1>8, <1>27, <2>3, <2>14
    <3> QED
      BY <1>5, <3>1
  <2>17. At4(t.parts, o, parts, n, d, h)
    BY <2>9, <2>13, <2>16 DEF At4
  <2>18. ExactAt(t, o, parts, w, n, d, h) /\ t.loop # "wait"
    BY <2>13, <2>17, ExactKnown
  <2> QED
    BY <1>12, <2>15, <2>18, ExactIs
<1>33. CASE Len(r.buf) >= D /\ pos = npos /\ t = Content(r, D)
  <2>1. d + 2 <= m - e
    BY <1>27, <1>28, <1>33
  <2>2. Find(r.buf, Delim) = npos
    BY <1>13, <1>33, Zenon
  <2>3. v + (d + 2) <= l
    BY <1>3, <1>7, <1>8, <1>10, <1>13, <1>15, <1>16, <1>17, <1>18, <2>1, <2>2, ContentStays, Zenon
  <2>4. PICK u \in Nat, f \in Nat : u = v + D /\ f = e + D
    BY <1>16
  <2>5. u \in 0..l /\ v + D <= l /\ f = g + u /\ D \in 0..m - e
    <3>1. v + D <= l /\ D <= m - e
      BY <1>27, <2>1, <2>3
    <3> QED
      BY <1>17, <1>22, <1>35, <2>4, <3>1
  <2>6. Filled(t, r, D) /\ Fed(t.buf, w, f, m) /\ Begun(t.parts, parts, i, u)
    BY <1>16, <1>17, <1>18, <1>21, <1>22, <1>23, <1>24, <1>33, <2>4, <2>5, SMTT(30)
  <2>7. t \in Parsers /\ t.loop = "go" /\ t.state = 3
    BY <1>24, <2>6 DEF Filled
  <2>8. ExactAt(t, o, parts, w, n, d, f)
    BY <1>25, <2>5, <2>6, <2>7
  <2> QED
    BY <1>12, <2>6, <2>7, <2>8, ExactIs
<1> QED
  BY <1>29, <1>30, <1>31, <1>32, <1>33

(* State 4 finds out whether another part follows.                         *)
LEMMA ExactBoundary ==
    ASSUME NEW o, NEW parts, NEW w, NEW n, NEW d, Layout(o, parts, w, n, d),
           NEW m, NEW c, NEW q \in Parsers, q.loop = "go", q.state = 4, Fed(q.buf, w, c, m),
           ExactAt(q, o, parts, w, n, d, c)
    PROVE  Exact(Boundary(q), o, parts, w, n, d, m)
<1>1. PICK i \in 1..n : c = o[i + 1] + d /\ Whole(q.parts, parts, i)
  BY DEF ExactAt, At4
<1>2. n \in Nat /\ d \in Nat /\ Len(w) \in Nat
  BY DEF Layout
<1>3. PICK h \in 1..n + 1 : h = i + 1 /\ h - 1 = i
  BY <1>2
<1>4. c = o[h] + d
  BY <1>1, <1>3
<1>5. PICK t, l : t = Boundary(q) /\ l = Len(q.buf)
  OBVIOUS
<1>6. /\ c \in 0..m /\ m \in Nat /\ q.buf \in Seq(Chars) /\ Len(q.buf) = m - c
      /\ \A j \in 1..m - c : q.buf[j] = w[c + j]
  BY DEF Fed
<1>7. l \in Nat /\ l = m - c
  BY <1>5, <1>6
<1>8. c + 4 <= Len(w)
  BY <1>4, LayoutRoom
<1>9. /\ l >= 4 /\ Begin(q.buf, 4) = dash_ \o crlf_ => h = n + 1
      /\ l >= 2 /\ Begin(q.buf, 2) = crlf_ => h # n + 1
  <2>1. /\ Len(q.buf) >= 4 /\ Begin(q.buf, 4) = dash_ \o crlf_ => h = n + 1
        /\ Len(q.buf) >= 2 /\ Begin(q.buf, 2) = crlf_ => h # n + 1
    BY <1>4, AfterBoundary, Zenon
  <2> QED
    BY <1>5, <2>1, Zenon
<1>10. ASSUME NEW z \in 1..l PROVE Begin(q.buf, z) \in Seq(Chars) /\ Len(Begin(q.buf, z)) = z
                                   /\ \A j \in 1..z : Begin(q.buf, z)[j] = w[c + j]
  <2>1. \A j \in 1..z : q.buf[j] \in Chars /\ q.buf[j] = w[c + j]
    BY <1>6, <1>7, SMTT(30)
  <2>2. /\ SubSeq(q.buf, 1, z) \in Seq(Chars)
        /\ Len(SubSeq(q.buf, 1, z)) = IF 1 <= z THEN z - 1 + 1 ELSE 0
        /\ \A j \in 1..z - 1 + 1 : SubSeq(q.buf, 1, z)[j] = q.buf[1 + j - 1]
    BY <2>1, SubSeqProperties
  <2>3. (IF 1 <= z THEN z - 1 + 1 ELSE 0) = z /\ z - 1 + 1 = z /\ \A j \in 1..z : 1 + j - 1 = j
    BY <1>7
  <2> QED
    BY <2>1, <2>2, <2>3 DEF Begin
<1>11. \/ t = Wait(q) /\ (l < 2 \/ (Begin(q.buf, 2) # crlf_ /\
                             ~(l >= 4 /\ Begin(q.buf, 4) = dash_ \o crlf_)))
       \/ l >= 2 /\ Begin(q.buf, 2) = crlf_ /\ t = Take(q, 2, 1)
       \/ l >= 4 /\ Begin(q.buf, 4) = dash_ \o crlf_ /\ t = [Take(q, 4, 5) EXCEPT !.valid = TRUE]
  BY <1>5, BoundaryTurn
<1>12. CASE t = Wait(q) /\ (l < 2 \/ (Begin(q.buf, 2) # crlf_ /\
                              ~(l >= 4 /\ Begin(q.buf, 4) = dash_ \o crlf_)))
  <2>1. ASSUME m = Len(w) PROVE FALSE
    <3>1. l >= 4
      BY <1>2, <1>6, <1>7, <1>8, <2>1
    <3>2. PICK a, b : a = Begin(q.buf, 2) /\ b = Begin(q.buf, 4)
      OBVIOUS
    <3>3. 2 \in 1..l /\ 4 \in 1..l
      BY <1>7, <3>1
    <3>4. /\ a \in Seq(Chars) /\ Len(a) = 2 /\ \A j \in 1..2 : a[j] = w[c + j]
          /\ b \in Seq(Chars) /\ Len(b) = 4 /\ \A j \in 1..4 : b[j] = w[c + j]
      BY <1>10, <3>2, <3>3
    <3>5. CASE h = n + 1
      <4>1. w[c + 1] = "-" /\ w[c + 2] = "-" /\ w[c + 3] = "CR" /\ w[c + 4] = "LF"
        BY <1>4, <3>5 DEF Layout, CloseAt
      <4>2. PICK x : x = dash_ \o crlf_
        OBVIOUS
      <4>3. /\ x \in Seq(Chars) /\ Len(x) = 4
            /\ x[1] = "-" /\ x[2] = "-" /\ x[3] = "CR" /\ x[4] = "LF"
        BY <4>2, Patterns
      <4>4. \A j \in 1..4 : j = 1 \/ j = 2 \/ j = 3 \/ j = 4
        OBVIOUS
      <4>5. \A j \in 1..4 : b[j] = x[j]
        BY <3>4, <4>1, <4>3, <4>4
      <4>6. b = x
        BY <3>4, <4>3, <4>5, SeqEqual
      <4> QED
        BY <1>7, <1>12, <3>1, <3>2, <4>2, <4>6
    <3>6. CASE h # n + 1
      <4>1. h \in 1..n
        BY <1>2, <3>6
      <4>2. w[c + 1] = "CR" /\ w[c + 2] = "LF"
        BY <1>4, <4>1 DEF Layout, RestAt
      <4>3. PICK x : x = crlf_
        OBVIOUS
      <4>4. x \in Seq(Chars) /\ Len(x) = 2 /\ x[1] = "CR" /\ x[2] = "LF"
        BY <4>3, Patterns
      <4>5. \A j \in 1..2 : j = 1 \/ j = 2
        OBVIOUS
      <4>6. \A j \in 1..2 : a[j] = x[j]
        BY <3>4, <4>2, <4>4, <4>5
      <4>7. a = x
        BY <3>4, <4>4, <4>6, SeqEqual
      <4> QED
        BY <1>7, <1>12, <3>1, <3>2, <4>3, <4>7
    <3> QED
      BY <3>5, <3>6
  <2> QED
    BY <1>5, <1>12, <2>1, ExactWait
<1>13. CASE l >= 2 /\ Begin(q.buf, 2) = crlf_ /\ t = Take(q, 2, 1)
  <2>1. h # n + 1 /\ h \in 1..n
    BY <1>2, <1>9, <1>13
  <2>2. 2 \in 0..m - c /\ 2 \in 0..Len(q.buf) /\ 1 \in 0..5
    BY <1>5, <1>7, <1>13
  <2>3. t.loop = "go" /\ t.state = 1 /\ t.parts = q.parts /\ t.buf = Erase(q.buf, 2)
    BY <1>13, <2>2, TakeType
  <2>4. PICK e : e = c + 2
    OBVIOUS
  <2>5. Fed(t.buf, w, e, m)
    BY <2>2, <2>3, <2>4, FedErase
  <2>6. At1(t.parts, o, parts, n, d, e)
    BY <1>1, <1>3, <1>4, <2>1, <2>3, <2>4 DEF At1
  <2>7. ExactAt(t, o, parts, w, n, d, e) /\ t.loop # "wait"
    BY <2>3, <2>6, ExactKnown
  <2> QED
    BY <1>5, <2>5, <2>7, ExactIs
<1>14. CASE /\ l >= 4 /\ Begin(q.buf, 4) = dash_ \o crlf_
            /\ t = [Take(q, 4, 5) EXCEPT !.valid = TRUE]
  <2>1. h = n + 1 /\ i = n
    BY <1>2, <1>3, <1>9, <1>14
  <2>2. 4 \in 0..m - c /\ 4 \in 0..Len(q.buf) /\ 5 \in 0..5
    BY <1>5, <1>7, <1>14
  <2>3. PICK u : u = Take(q, 4, 5)
    OBVIOUS
  <2>4. /\ u \in Parsers /\ u.loop = "go" /\ u.state = 5 /\ u.parts = q.parts
        /\ u.buf = Erase(q.buf, 4)
    BY <2>2, <2>3, TakeType
  <2>5. /\ t.loop = "go" /\ t.state = 5 /\ t.parts = q.parts /\ t.buf = Erase(q.buf, 4)
        /\ t.valid = TRUE
    BY <1>14, <2>3, <2>4, ValidFields
  <2>6. PICK e : e = c + 4
    OBVIOUS
  <2>7. Fed(t.buf, w, e, m)
    BY <2>2, <2>5, <2>6, FedErase
  <2>8. e = Len(w)
    BY <1>4, <2>1, <2>6 DEF Layout
  <2>9. At5(t.parts, t.valid, parts, w, n, e)
    BY <1>1, <2>1, <2>5, <2>8 DEF At5
  <2>10. ExactAt(t, o, parts, w, n, d, e) /\ t.loop # "wait"
    BY <2>5, <2>9, ExactKnown
  <2> QED
    BY <1>5, <2>7, <2>10, ExactIs
<1> QED
  BY <1>11, <1>12, <1>13, <1>14

(* So every turn keeps a parser exact.                                     *)
LEMMA ExactTurn ==
    ASSUME NEW o, NEW parts, NEW w, NEW n, NEW d, Layout(o, parts, w, n, d), n >= 1,
           \A i \in 1..n : Separable(parts[i].content),
           NEW m, NEW q, Sound(q, o, w, n, d, m), Exact(q, o, parts, w, n, d, m), q.loop = "go"
    PROVE  Exact(Turn(q), o, parts, w, n, d, m)
<1>1. PICK c : c = Taken(q, m)
  OBVIOUS
<1>2. q \in Parsers /\ Fed(q.buf, w, c, m) /\ ExactAt(q, o, parts, w, n, d, c)
  BY <1>1, SoundTakes DEF Exact
<1>3. q.state \in 0..5
  BY <1>2, ParserFields
<1>4. CASE q.buf = <<>>
  <2>1. Turn(q) = Wait(q)
    BY <1>2, <1>4, TurnIs
  <2>2. m # Len(w) \/ q.state = 5
    <3> SUFFICES ASSUME q.state # 5 PROVE m # Len(w)
      OBVIOUS
    <3>1. c \in Nat /\ c < Len(w)
      BY <1>2, ExactShort
    <3>2. c \in 0..m /\ m \in Nat /\ Len(q.buf) = m - c
      BY <1>2 DEF Fed
    <3>3. m = c
      BY <1>4, <3>1, <3>2
    <3> QED
      BY <3>1, <3>3
  <2> QED
    BY <1>2, <2>1, <2>2, ExactWait
<1>5. CASE q.buf # <<>>
  <2>1. CASE q.state = 0
    BY <1>2, <1>5, <2>1, TurnIs, ExactOpening
  <2>2. CASE q.state = 1
    BY <1>2, <1>5, <2>2, TurnIs, ExactEntry
  <2>3. CASE q.state = 2
    BY <1>2, <1>5, <2>3, TurnIs, ExactHeaders
  <2>4. CASE q.state = 3
    BY <1>2, <1>5, <2>4, TurnIs, ExactBody
  <2>5. CASE q.state = 4
    BY <1>2, <1>5, <2>5, TurnIs, ExactBoundary
  <2>6. CASE q.state = 5
    <3>1. c = Len(w)
      BY <1>2, <2>6 DEF ExactAt, At5
    <3>2. c \in 0..m /\ m \in 0..Len(w) /\ Len(w) \in Nat /\ q.buf \in Seq(Chars) /\ Len(q.buf) = m - c
      BY <1>2 DEF Fed
    <3>3. Len(q.buf) = 0
      BY <3>1, <3>2
    <3>4. q.buf = <<>>
      BY <3>2, <3>3
    <3> QED
      BY <1>5, <3>4
  <2>7. \A s \in 0..5 : s = 0 \/ s = 1 \/ s = 2 \/ s = 3 \/ s = 4 \/ s = 5
    OBVIOUS
  <2> QED
    BY <1>3, <2>1, <2>2, <2>3, <2>4, <2>5, <2>6, <2>7
<1> QED
  BY <1>4, <1>5

-----------------------------------------------------------------------------
(* The parser of a well-formed form, fed its first m characters.           *)
FormAt(q, o, parts, w, n, d, m) ==
    /\ Layout(o, parts, w, n, d) /\ n >= 1
    /\ \A i \in 1..n : Find(parts[i].content, DashBoundary) = npos
    /\ Sound(q, o, w, n, d, m)
    /\ (\A i \in 1..n : Separable(parts[i].content)) => Exact(q, o, parts, w, n, d, m)

(* parse begins with the piece at the end of the buffer.                   *)
LEMMA AppendFields ==
    ASSUME NEW p \in Parsers, NEW piece \in Seq(Chars), NEW s,
           s = [p EXCEPT !.buf = @ \o piece, !.loop = "go"]
    PROVE  /\ s \in Parsers /\ s.state = p.state /\ s.buf = p.buf \o piece /\ s.valid = p.valid
           /\ s.loop = "go" /\ s.name = p.name /\ s.parts = p.parts
<1>1. PICK b : b = p.buf \o piece
  OBVIOUS
<1>2. p.buf \in Seq(Chars)
  BY ParserFields
<1>3. b \in Seq(Chars)
  BY <1>1, <1>2
<1>4. s = [p EXCEPT !.buf = b, !.loop = "go"]
  BY <1>1
<1>5. /\ s \in Parsers /\ s.state = p.state /\ s.buf = b /\ s.valid = p.valid
      /\ s.loop = "go" /\ s.name = p.name /\ s.parts = p.parts
  BY <1>3, <1>4 DEF Parsers
<1> QED
  BY <1>1, <1>5

(* Another piece of the form.                                              *)
LEMMA FormParse ==
    ASSUME NEW p, NEW o, NEW parts, NEW w, NEW n, NEW d, NEW m, FormAt(p, o, parts, w, n, d, m),
           NEW piece \in Seq(Chars), NEW x, x = Len(piece), m + x <= Len(w),
           \A k \in 1..x : piece[k] = w[m + k], NEW g, g = m + x
    PROVE  FormAt(parse(p, piece), o, parts, w, n, d, g) /\ parse(p, piece).loop # "go"
<1>1. /\ Layout(o, parts, w, n, d) /\ n >= 1
      /\ \A i \in 1..n : Find(parts[i].content, DashBoundary) = npos
      /\ Sound(p, o, w, n, d, m)
      /\ (\A i \in 1..n : Separable(parts[i].content)) => Exact(p, o, parts, w, n, d, m)
  BY DEF FormAt
<1>2. PICK sep \in BOOLEAN : sep = (\A i \in 1..n : Separable(parts[i].content))
  OBVIOUS
<1> DEFINE I == {q \in Parsers : Sound(q, o, w, n, d, g) /\ (sep => Exact(q, o, parts, w, n, d, g))}
<1>3. PICK c : c = Taken(p, m)
  OBVIOUS
<1>4. /\ p \in Parsers /\ Fed(p.buf, w, c, m)
      /\ p.state = 0 => c = 0
      /\ p.state = 4 => \E i \in 1..n + 1 : i # 1 /\ c = o[i] + d
      /\ p.state = 5 => c = Len(w)
  BY <1>1, <1>3, SoundTakes
<1>5. PICK s : s = [p EXCEPT !.buf = @ \o piece, !.loop = "go"]
  OBVIOUS
<1>6. /\ s \in Parsers /\ s.state = p.state /\ s.buf = p.buf \o piece /\ s.valid = p.valid
      /\ s.loop = "go" /\ s.name = p.name /\ s.parts = p.parts
  <2>1. p \in Parsers
    BY <1>4
  <2> QED
    BY <1>5, <2>1, AppendFields, ZenonT(60)
<1>7. Fed(s.buf, w, c, g)
  <2>1. Fed(p.buf \o piece, w, c, g)
    BY <1>4, FedAppend, Zenon
  <2> QED
    BY <1>6, <2>1, Zenon
<1>8. Sound(s, o, w, n, d, g)
  BY <1>4, <1>6, <1>7, SoundIs
<1>9. ASSUME sep PROVE Exact(s, o, parts, w, n, d, g)
  <2>1. ExactAt(p, o, parts, w, n, d, c)
    BY <1>1, <1>2, <1>3, <1>9, Zenon DEF Exact
  <2>2. ExactAt(s, o, parts, w, n, d, c)
    BY <1>6, <2>1 DEF ExactAt
  <2>3. s.loop # "wait"
    BY <1>6
  <2> QED
    BY <1>7, <2>2, <2>3, ExactIs, Zenon
<1>10. s \in I
  BY <1>6, <1>8, <1>9
<1>11. ASSUME NEW q \in I, q.loop = "go" PROVE Turn(q) \in I
  <2>1. PICK t : t = Turn(q)
    OBVIOUS
  <2>2. q \in Parsers /\ Sound(q, o, w, n, d, g) /\ (sep => Exact(q, o, parts, w, n, d, g))
    OBVIOUS
  <2>3. t \in Parsers
    BY <2>1, <2>2, TurnType
  <2>4. Sound(t, o, w, n, d, g)
    BY <1>1, <1>11, <2>1, <2>2, SoundTurn, Zenon
  <2>5. ASSUME sep PROVE Exact(t, o, parts, w, n, d, g)
    <3>1. \A i \in 1..n : Separable(parts[i].content)
      BY <1>2, <2>5
    <3> QED
      BY <1>1, <1>11, <2>1, <2>2, <2>5, <3>1, ExactTurn, Zenon
  <2> QED
    BY <2>1, <2>3, <2>4, <2>5
<1>12. PICK J : J = I
  OBVIOUS
<1>13. Closed(J) /\ s \in J
  BY <1>10, <1>11, <1>12 DEF Closed
<1>14. parse(p, piece) \in J /\ parse(p, piece).loop # "go"
  <2>1. Stopped(J, parse(p, piece))
    BY <1>5, <1>13, ParseEnds, Zenon
  <2> QED
    BY <2>1, Zenon DEF Stopped
<1>15. PICK r : r = parse(p, piece)
  OBVIOUS
<1>16. Sound(r, o, w, n, d, g) /\ (sep => Exact(r, o, parts, w, n, d, g))
  BY <1>12, <1>14, <1>15
<1>17. FormAt(r, o, parts, w, n, d, g)
  BY <1>1, <1>2, <1>16 DEF FormAt
<1> QED
  BY <1>14, <1>15, <1>17

(* A new parser has been fed nothing of the form.                          *)
LEMMA FormStarts ==
    ASSUME NEW o, NEW parts, NEW w, NEW n, NEW d, Layout(o, parts, w, n, d), n >= 1,
           \A i \in 1..n : Find(parts[i].content, DashBoundary) = npos
    PROVE  FormAt(NoParser, o, parts, w, n, d, 0)
<1>1. PICK e \in Chars : e = ""
  BY DEF Chars
<1>2. NoParser = [state |-> 0, buf |-> <<>>, valid |-> FALSE, loop |-> "go", name |-> e, parts |-> <<>>]
  BY <1>1, Zenon DEF NoParser
<1>3. <<>> \in Seq(Chars) /\ <<>> \in Seq(PartSet)
  OBVIOUS
<1>4. PICK p : p = NoParser
  OBVIOUS
<1>5. /\ p \in Parsers /\ p.state = 0 /\ p.buf = <<>> /\ p.valid = FALSE /\ p.loop = "go"
      /\ p.parts = <<>>
  BY <1>2, <1>3, <1>4 DEF Parsers, PartSet
<1>6. Len(w) \in Nat
  BY DEF Layout
<1>7. Fed(p.buf, w, 0, 0)
  BY <1>3, <1>5, <1>6 DEF Fed
<1>8. Sound(p, o, w, n, d, 0)
  <2>1. p.loop # "fail" /\ p.state # 4 /\ p.state # 5
    BY <1>5
  <2>2. 0 = 0
    OBVIOUS
  <2> QED
    BY <1>5, <1>7, <2>1, <2>2, SoundIs, Zenon
<1>9. Exact(p, o, parts, w, n, d, 0)
  <2>1. Whole(p.parts, parts, 0)
    BY <1>3, <1>5 DEF Whole
  <2>2. ExactAt(p, o, parts, w, n, d, 0)
    BY <1>5, <2>1, ExactKnown DEF At0
  <2>3. p.loop # "wait"
    BY <1>5
  <2> QED
    BY <1>7, <2>2, <2>3, ExactIs, Zenon
<1>10. FormAt(p, o, parts, w, n, d, 0)
  BY <1>8, <1>9 DEF FormAt
<1> QED
  BY <1>4, <1>10

(* At the end of the form the parser is done, and has its parts.           *)
LEMMA FormDone ==
    ASSUME NEW q, NEW o, NEW parts \in Seq(FormPart), NEW w, NEW n, NEW d, NEW m,
           FormAt(q, o, parts, w, n, d, m), m = Len(w), q.loop # "go",
           \A i \in 1..n : Separable(parts[i].content)
    PROVE  q.valid /\ q.parts = parts
<1>1. q \in Parsers /\ q.loop # "fail"
  BY SoundTakes DEF FormAt
<1>2. q.loop = "wait"
  BY <1>1, ParserFields
<1>3. PICK c : c = Taken(q, m)
  OBVIOUS
<1>4. ExactAt(q, o, parts, w, n, d, c) /\ q.state = 5
  BY <1>2, <1>3 DEF FormAt, Exact
<1>5. q.valid /\ Whole(q.parts, parts, n)
  BY <1>4 DEF ExactAt, At5
<1>6. n = Len(parts)
  BY DEF FormAt, Layout
<1>7. PICK a : a = q.parts
  OBVIOUS
<1>8. parts \in Seq(PartSet)
  <2>1. Names \subseteq Chars
    BY MultipartAssumption DEF Chars
  <2>2. FormPart \subseteq PartSet
    BY <2>1 DEF FormPart, PartSet
  <2> QED
    BY <2>2, SeqLarger
<1>9. a \in Seq(PartSet) /\ Len(a) = Len(parts) /\ \A j \in 1..Len(parts) : a[j] = parts[j]
  BY <1>5, <1>6, <1>7 DEF Whole
<1>10. a = parts
  BY <1>8, <1>9, SeqEqual
<1> QED
  BY <1>5, <1>7, <1>10
=============================================================================
