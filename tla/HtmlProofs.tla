----------------------------- MODULE HtmlProofs -----------------------------
(***************************************************************************)
(* Proofs about the two ends of the system that handle html.               *)
(*                                                                         *)
(* Parser, for files, trees and characters of every kind and number: a     *)
(* document's text is what is outside the tags, its title is in its text,  *)
(* and raw, whole or cut off anywhere, gives back the documents.           *)
(*                                                                         *)
(* Page: what is typed reaches the search as it is typed, a title is shown *)
(* as it is in its document, and the list under the search box is one      *)
(* answer, the last search's where no search was sent before the answer to *)
(* another.                                                                *)
(***************************************************************************)
EXTENDS Parser, Page, SequenceLemmas

(* The three loops over characters: getline, boost::split and that of      *)
(* parseContent.  h[k] is a loop's state after k characters of s.          *)
Sym == Chars \cup {SEP, LF}

LineState == [lines : Seq(Seq(Sym)), rest : Seq(Sym)]
NoLine == [lines |-> <<>>, rest |-> <<>>]
LineRun(h, s) ==
    /\ h[0] = NoLine
    /\ \A k \in 1..Len(s) : h[k] = GetLine(h[k - 1], s[k])

FieldState == [fields : Seq(Seq(Sym)), field : Seq(Sym), inSep : BOOLEAN]
NoField == [fields |-> <<>>, field |-> <<>>, inSep |-> FALSE]
FieldRun(h, s) ==
    /\ h[0] = NoField
    /\ \A k \in 1..Len(s) : h[k] = SplitStep(h[k - 1], s[k])

TextState == [s : {"LABLE", "CONTENT"}, content : Seq(Sym \cup {" "})]
NoText == [s |-> "LABLE", content |-> <<>>]
TextRun(h, s) ==
    /\ h[0] = NoText
    /\ \A k \in 1..Len(s) : h[k] = ContentStep(h[k - 1], s[k])

(* Each step stays among the states.                                       *)
LEMMA GetLineType == \A st \in LineState, c \in Sym : GetLine(st, c) \in LineState
<1> SUFFICES ASSUME NEW st \in LineState, NEW c \in Sym PROVE GetLine(st, c) \in LineState
  OBVIOUS
<1>1. st.lines \in Seq(Seq(Sym)) /\ st.rest \in Seq(Sym)
  BY DEF LineState
<1>2. Append(st.lines, st.rest) \in Seq(Seq(Sym)) /\ Append(st.rest, c) \in Seq(Sym)
  BY <1>1
<1>3. CASE c = LF
  <2>1. <<>> \in Seq(Sym)
    OBVIOUS
  <2> QED
    BY <1>2, <1>3, <2>1 DEF GetLine, LineState
<1>4. CASE c # LF
  <2>1. GetLine(st, c) = [lines |-> st.lines, rest |-> Append(st.rest, c)]
    BY <1>4 DEF GetLine, LineState
  <2> QED
    BY <1>1, <1>2, <2>1 DEF LineState
<1> QED
  BY <1>3, <1>4

(* The same for split.                                                     *)
LEMMA SplitStepType == \A st \in FieldState, c \in Sym : SplitStep(st, c) \in FieldState
<1> SUFFICES ASSUME NEW st \in FieldState, NEW c \in Sym PROVE SplitStep(st, c) \in FieldState
  OBVIOUS
<1>1. st.fields \in Seq(Seq(Sym)) /\ st.field \in Seq(Sym) /\ st.inSep \in BOOLEAN
  BY DEF FieldState
<1>2. Append(st.fields, st.field) \in Seq(Seq(Sym)) /\ Append(st.field, c) \in Seq(Sym)
  BY <1>1
<1>3. CASE c # SEP
  <2>1. SplitStep(st, c) = [fields |-> st.fields, field |-> Append(st.field, c), inSep |-> FALSE]
    BY <1>3 DEF SplitStep, FieldState
  <2> QED
    BY <1>1, <1>2, <2>1 DEF FieldState
<1>4. CASE c = SEP /\ st.inSep
  BY <1>4 DEF SplitStep
<1>5. CASE c = SEP /\ ~st.inSep
  <2>1. <<>> \in Seq(Sym)
    OBVIOUS
  <2> QED
    BY <1>2, <1>5, <2>1 DEF SplitStep, FieldState
<1> QED
  BY <1>1, <1>3, <1>4, <1>5

(* And for parseContent.                                                   *)
LEMMA ContentStepType == \A st \in TextState, c \in Sym : ContentStep(st, c) \in TextState
<1> SUFFICES ASSUME NEW st \in TextState, NEW c \in Sym PROVE ContentStep(st, c) \in TextState
  OBVIOUS
<1>1. st = [s |-> st.s, content |-> st.content] /\ st.s \in {"LABLE", "CONTENT"}
      /\ st.content \in Seq(Sym \cup {" "})
  BY DEF TextState
<1>2. \A d \in Sym \cup {" "} : Append(st.content, d) \in Seq(Sym \cup {" "})
  <2>1. PICK S, z : S = Sym \cup {" "} /\ z = st.content
    OBVIOUS
  <2>2. z \in Seq(S)
    BY <1>1, <2>1
  <2>3. \A d \in S : Append(z, d) \in Seq(S)
    BY <2>2
  <2> QED
    BY <2>1, <2>3
<1>3. (IF c = LF THEN " " ELSE c) \in Sym \cup {" "}
  OBVIOUS
<1>4. ContentStep(st, c) = st \/ (\E v \in {"LABLE", "CONTENT"} : ContentStep(st, c) = [st EXCEPT !.s = v])
      \/ ContentStep(st, c) = [st EXCEPT !.content = Append(@, IF c = LF THEN " " ELSE c)]
  BY <1>1 DEF ContentStep, Tags
<1> QED
  BY <1>1, <1>2, <1>3, <1>4 DEF TextState

(* The last of some places is one of the places.                           *)
LEMMA PlaceInside ==
    ASSUME NEW n \in Nat, NEW t \in SUBSET (1..n), t # {}
    PROVE  Max(t) \in 1..n /\ t \ {Max(t)} \in SUBSET (1..n)
<1>1. t \in SUBSET (1..n + 1)
  OBVIOUS
<1>2. Max(t) \in t
  BY <1>1, LastPlace
<1> QED
  BY <1>2

(* What Lines folds is the run of getline to the end of the text.          *)
LEMMA LinesRun ==
    ASSUME NEW s \in Seq(Sym)
    PROVE  \E h : LineRun(h, s) /\ FoldLeft(GetLine, NoLine, s) = h[Len(s)]
<1> DEFINE n == Len(s)
           step == [p \in LineState \X Sym |-> GetLine(p[1], p[2])]
           Its(it) == it = [t \in SUBSET DOMAIN s |->
                              IF t = {} THEN NoLine
                              ELSE GetLine(it[t \ {Max(t)}], s[Max(t)])]
<1>0. n \in Nat /\ DOMAIN s = 1..n /\ \A i \in 1..n : s[i] \in Sym
  OBVIOUS
<1>1. step \in [LineState \X Sym -> LineState]
  BY GetLineType
<1>2. NoLine \in LineState
  BY DEF NoLine, LineState
<1>3. PICK it : /\ Folds(it, step, NoLine, s)
                /\ \A t \in SUBSET DOMAIN s : it[t] \in LineState
  <2> HIDE DEF step
  <2> QED
    BY <1>1, <1>2, FoldsExist
<1>4. \A t \in SUBSET DOMAIN s : t # {} => Max(t) \in 1..n /\ t \ {Max(t)} \in SUBSET DOMAIN s
  BY <1>0, PlaceInside
<1>5. \A t \in SUBSET DOMAIN s : t # {} =>
         step[<<it[t \ {Max(t)}], s[Max(t)]>>] = GetLine(it[t \ {Max(t)}], s[Max(t)])
  BY <1>0, <1>3, <1>4
<1>6. Its(it)
  <2> HIDE DEF step
  <2> QED
    BY <1>3, <1>5 DEF Folds
<1>7. FoldLeft(GetLine, NoLine, s) = (CHOOSE c : Its(c))[DOMAIN s]
  BY Zenon DEF FoldLeft, MapThenFoldSet
<1>8. PICK c : Its(c) /\ FoldLeft(GetLine, NoLine, s) = c[1..n]
  <2> HIDE DEF Its
  <2> QED
    BY <1>0, <1>6, <1>7
<1> DEFINE h == [k \in 0..n |-> c[1..k]]
<1>9. h[0] = NoLine
  <2>1. 1..0 = {} /\ 0 \in 0..n
    BY <1>0
  <2>2. c[{}] = NoLine
    BY <1>8
  <2> QED
    BY <2>1, <2>2
<1>10. ASSUME NEW k \in 1..n PROVE h[k] = GetLine(h[k - 1], s[k])
  <2>1. PICK t, m : t = 1..k /\ m = k - 1
    OBVIOUS
  <2>2. t \in SUBSET DOMAIN s /\ t # {} /\ Max(t) = k /\ t \ {k} = 1..m
    BY <1>0, <2>1, FirstPlaces
  <2>3. c[t] = GetLine(c[t \ {k}], s[k])
    BY <1>8, <2>2
  <2>4. m \in 0..n /\ k \in 0..n
    BY <1>0, <2>1
  <2> QED
    BY <2>1, <2>2, <2>3, <2>4
<1>11. h[n] = c[1..n]
  BY <1>0
<1> HIDE DEF h
<1> QED
  BY <1>8, <1>9, <1>10, <1>11 DEF LineRun

(* What split folds is its run to the end of the line.                     *)
LEMMA SplitRun ==
    ASSUME NEW s \in Seq(Sym)
    PROVE  \E h : FieldRun(h, s) /\ FoldLeft(SplitStep, NoField, s) = h[Len(s)]
<1> DEFINE n == Len(s)
           step == [p \in FieldState \X Sym |-> SplitStep(p[1], p[2])]
           Its(it) == it = [t \in SUBSET DOMAIN s |->
                              IF t = {} THEN NoField
                              ELSE SplitStep(it[t \ {Max(t)}], s[Max(t)])]
<1>0. n \in Nat /\ DOMAIN s = 1..n /\ \A i \in 1..n : s[i] \in Sym
  OBVIOUS
<1>1. step \in [FieldState \X Sym -> FieldState]
  BY SplitStepType
<1>2. NoField \in FieldState
  BY DEF NoField, FieldState
<1>3. PICK it : /\ Folds(it, step, NoField, s)
                /\ \A t \in SUBSET DOMAIN s : it[t] \in FieldState
  <2> HIDE DEF step
  <2> QED
    BY <1>1, <1>2, FoldsExist
<1>4. \A t \in SUBSET DOMAIN s : t # {} => Max(t) \in 1..n /\ t \ {Max(t)} \in SUBSET DOMAIN s
  BY <1>0, PlaceInside
<1>5. \A t \in SUBSET DOMAIN s : t # {} =>
         step[<<it[t \ {Max(t)}], s[Max(t)]>>] = SplitStep(it[t \ {Max(t)}], s[Max(t)])
  BY <1>0, <1>3, <1>4
<1>6. Its(it)
  <2> HIDE DEF step
  <2> QED
    BY <1>3, <1>5 DEF Folds
<1>7. FoldLeft(SplitStep, NoField, s) = (CHOOSE c : Its(c))[DOMAIN s]
  BY Zenon DEF FoldLeft, MapThenFoldSet
<1>8. PICK c : Its(c) /\ FoldLeft(SplitStep, NoField, s) = c[1..n]
  <2> HIDE DEF Its
  <2> QED
    BY <1>0, <1>6, <1>7
<1> DEFINE h == [k \in 0..n |-> c[1..k]]
<1>9. h[0] = NoField
  <2>1. 1..0 = {} /\ 0 \in 0..n
    BY <1>0
  <2>2. c[{}] = NoField
    BY <1>8
  <2> QED
    BY <2>1, <2>2
<1>10. ASSUME NEW k \in 1..n PROVE h[k] = SplitStep(h[k - 1], s[k])
  <2>1. PICK t, m : t = 1..k /\ m = k - 1
    OBVIOUS
  <2>2. t \in SUBSET DOMAIN s /\ t # {} /\ Max(t) = k /\ t \ {k} = 1..m
    BY <1>0, <2>1, FirstPlaces
  <2>3. c[t] = SplitStep(c[t \ {k}], s[k])
    BY <1>8, <2>2
  <2>4. m \in 0..n /\ k \in 0..n
    BY <1>0, <2>1
  <2> QED
    BY <2>1, <2>2, <2>3, <2>4
<1>11. h[n] = c[1..n]
  BY <1>0
<1> HIDE DEF h
<1> QED
  BY <1>8, <1>9, <1>10, <1>11 DEF FieldRun

(* What parseContent folds is its run to the end of the text.              *)
LEMMA ContentRun ==
    ASSUME NEW s \in Seq(Sym)
    PROVE  \E h : TextRun(h, s) /\ FoldLeft(ContentStep, NoText, s) = h[Len(s)]
<1> DEFINE n == Len(s)
           step == [p \in TextState \X Sym |-> ContentStep(p[1], p[2])]
           Its(it) == it = [t \in SUBSET DOMAIN s |->
                              IF t = {} THEN NoText
                              ELSE ContentStep(it[t \ {Max(t)}], s[Max(t)])]
<1>0. n \in Nat /\ DOMAIN s = 1..n /\ \A i \in 1..n : s[i] \in Sym
  OBVIOUS
<1>1. step \in [TextState \X Sym -> TextState]
  BY ContentStepType
<1>2. NoText \in TextState
  BY DEF NoText, TextState
<1>3. PICK it : /\ Folds(it, step, NoText, s)
                /\ \A t \in SUBSET DOMAIN s : it[t] \in TextState
  <2> HIDE DEF step
  <2> QED
    BY <1>1, <1>2, FoldsExist
<1>4. \A t \in SUBSET DOMAIN s : t # {} => Max(t) \in 1..n /\ t \ {Max(t)} \in SUBSET DOMAIN s
  BY <1>0, PlaceInside
<1>5. \A t \in SUBSET DOMAIN s : t # {} =>
         step[<<it[t \ {Max(t)}], s[Max(t)]>>] = ContentStep(it[t \ {Max(t)}], s[Max(t)])
  BY <1>0, <1>3, <1>4
<1>6. Its(it)
  <2> HIDE DEF step
  <2> QED
    BY <1>3, <1>5 DEF Folds
<1>7. FoldLeft(ContentStep, NoText, s) = (CHOOSE c : Its(c))[DOMAIN s]
  BY Zenon DEF FoldLeft, MapThenFoldSet
<1>8. PICK c : Its(c) /\ FoldLeft(ContentStep, NoText, s) = c[1..n]
  <2> HIDE DEF Its
  <2> QED
    BY <1>0, <1>6, <1>7
<1> DEFINE h == [k \in 0..n |-> c[1..k]]
<1>9. h[0] = NoText
  <2>1. 1..0 = {} /\ 0 \in 0..n
    BY <1>0
  <2>2. c[{}] = NoText
    BY <1>8
  <2> QED
    BY <2>1, <2>2
<1>10. ASSUME NEW k \in 1..n PROVE h[k] = ContentStep(h[k - 1], s[k])
  <2>1. PICK t, m : t = 1..k /\ m = k - 1
    OBVIOUS
  <2>2. t \in SUBSET DOMAIN s /\ t # {} /\ Max(t) = k /\ t \ {k} = 1..m
    BY <1>0, <2>1, FirstPlaces
  <2>3. c[t] = ContentStep(c[t \ {k}], s[k])
    BY <1>8, <2>2
  <2>4. m \in 0..n /\ k \in 0..n
    BY <1>0, <2>1
  <2> QED
    BY <2>1, <2>2, <2>3, <2>4
<1>11. h[n] = c[1..n]
  BY <1>0
<1> HIDE DEF h
<1> QED
  BY <1>8, <1>9, <1>10, <1>11 DEF TextRun

-----------------------------------------------------------------------------
(* A document as parser makes it: no line break in it, a plain url.        *)
Letters == Chars \ {LF}
Docs == [title : Seq(Letters), content : Seq(Letters), url : {<<u>> : u \in Chars \ {SEP, LF}}]

(* A record without its line break.                                        *)
Body(doc) == doc.title \o <<SEP>> \o doc.content \o <<SEP>> \o doc.url

(* s is t, c and u with separators between them, without a line break.     *)
ThreeParts(s, t, c, u) ==
    /\ t \in Seq(Sym) /\ c \in Seq(Sym) /\ s \in Seq(Sym)
    /\ \A i \in 1..Len(t) : t[i] # LF
    /\ \A i \in 1..Len(c) : c[i] # LF
    /\ Len(s) = Len(t) + Len(c) + 3
    /\ \A i \in 1..Len(t) : s[i] = t[i]
    /\ s[Len(t) + 1] = SEP
    /\ \A i \in 1..Len(c) : s[Len(t) + 1 + i] = c[i]
    /\ s[Len(t) + Len(c) + 2] = SEP
    /\ s[Len(t) + Len(c) + 3] = u

(* What a document's record consists of.                                   *)
LEMMA BodyParts ==
    ASSUME NEW doc \in Docs
    PROVE  \E u \in Chars \ {SEP, LF} :
              doc.url = <<u>> /\ ThreeParts(Body(doc), doc.title, doc.content, u)
<1>0. PICK t, c : t = doc.title /\ c = doc.content
  OBVIOUS
<1>1. PICK u \in Chars \ {SEP, LF} : doc.url = <<u>>
  BY DEF Docs
<1>2. t \in Seq(Letters) /\ c \in Seq(Letters)
  BY <1>0 DEF Docs
<1>3. Letters \subseteq Sym /\ u \in Sym /\ SEP \in Sym /\ LF \in Sym
  BY DEF Letters, Sym
<1>4. t \in Seq(Sym) /\ c \in Seq(Sym) /\ Len(t) \in Nat /\ Len(c) \in Nat
  BY <1>2, <1>3
<1>5. (\A i \in 1..Len(t) : t[i] # LF) /\ (\A i \in 1..Len(c) : c[i] # LF)
  <2>1. (\A i \in 1..Len(t) : t[i] \in Letters) /\ (\A i \in 1..Len(c) : c[i] \in Letters)
    BY <1>2
  <2> QED
    BY <2>1 DEF Letters
<1>6. \A z \in Sym : <<z>> \in Seq(Sym) /\ Len(<<z>>) = 1 /\ <<z>>[1] = z
  OBVIOUS
<1> DEFINE a == t \o <<SEP>>
           b == a \o c
           d == b \o <<SEP>>
           e == d \o <<u>>
<1>7. Body(doc) = e
  BY <1>0, <1>1 DEF Body
<1>8. \A x, y \in Seq(Sym) : /\ x \o y \in Seq(Sym)
                             /\ Len(x \o y) = Len(x) + Len(y)
                             /\ \A i \in 1..Len(x) : (x \o y)[i] = x[i]
                             /\ \A i \in 1..Len(y) : (x \o y)[Len(x) + i] = y[i]
  OBVIOUS
<1>9. /\ a \in Seq(Sym) /\ Len(a) = Len(t) + 1
      /\ \A i \in 1..Len(t) : a[i] = t[i]
      /\ a[Len(t) + 1] = SEP
  <2>1. <<SEP>> \in Seq(Sym) /\ Len(<<SEP>>) = 1 /\ <<SEP>>[1] = SEP /\ 1 \in 1..1
    BY <1>3, <1>6
  <2> QED
    BY <1>4, <1>8, <2>1
<1>10. /\ b \in Seq(Sym) /\ Len(b) = Len(a) + Len(c)
       /\ \A i \in 1..Len(a) : b[i] = a[i]
       /\ \A i \in 1..Len(c) : b[Len(a) + i] = c[i]
  <2> HIDE DEF a
  <2> QED
    BY <1>4, <1>8, <1>9
<1>11. /\ d \in Seq(Sym) /\ Len(d) = Len(b) + 1
       /\ \A i \in 1..Len(b) : d[i] = b[i]
       /\ d[Len(b) + 1] = SEP
  <2> HIDE DEF b
  <2>1. <<SEP>> \in Seq(Sym) /\ Len(<<SEP>>) = 1 /\ <<SEP>>[1] = SEP /\ 1 \in 1..1
    BY <1>3, <1>6
  <2> QED
    BY <1>8, <1>10, <2>1
<1>12. /\ e \in Seq(Sym) /\ Len(e) = Len(d) + 1
       /\ \A i \in 1..Len(d) : e[i] = d[i]
       /\ e[Len(d) + 1] = u
  <2> HIDE DEF d
  <2>1. <<u>> \in Seq(Sym) /\ Len(<<u>>) = 1 /\ <<u>>[1] = u /\ 1 \in 1..1
    BY <1>3, <1>6
  <2> QED
    BY <1>8, <1>11, <2>1
<1> HIDE DEF a, b, d, e
<1>16. PICK lt \in Nat, lc \in Nat, la \in Nat, lb \in Nat, ld \in Nat :
         lt = Len(t) /\ lc = Len(c) /\ la = Len(a) /\ lb = Len(b) /\ ld = Len(d)
  <2>1. Len(a) \in Nat /\ Len(b) \in Nat /\ Len(d) \in Nat
    <3>1. \A x \in Seq(Sym) : Len(x) \in Nat
      OBVIOUS
    <3> QED
      BY <1>9, <1>10, <1>11, <3>1, Zenon
  <2> QED
    BY <1>4, <2>1
<1>17. la = lt + 1 /\ lb = la + lc /\ ld = lb + 1 /\ Len(e) = ld + 1
  BY <1>9, <1>10, <1>11, <1>12, <1>16
<1>18. /\ \A i \in 1..lt : a[i] = t[i]
       /\ \A i \in 1..la : b[i] = a[i]
       /\ \A i \in 1..lb : d[i] = b[i]
       /\ \A i \in 1..ld : e[i] = d[i]
       /\ \A i \in 1..lc : b[la + i] = c[i]
  BY <1>9, <1>10, <1>11, <1>12, <1>16
<1>13. /\ Len(e) = lt + lc + 3
       /\ \A i \in 1..lt : e[i] = t[i]
       /\ e[lt + 1] = SEP
       /\ \A i \in 1..lc : e[lt + 1 + i] = c[i]
       /\ e[lt + lc + 2] = SEP
       /\ e[lt + lc + 3] = u
  <2>1. Len(e) = lt + lc + 3 /\ ld = lt + lc + 2 /\ lb = lt + 1 + lc
    BY <1>17
  <2>2. ASSUME NEW i \in 1..lt PROVE e[i] = t[i]
    <3>1. i \in 1..la /\ i \in 1..lb /\ i \in 1..ld
      BY <1>17, <2>1
    <3> QED
      BY <1>18, <3>1
  <2>3. e[lt + 1] = SEP
    <3>1. PICK i : i = lt + 1
      OBVIOUS
    <3>2. i \in 1..la /\ i \in 1..lb /\ i \in 1..ld
      BY <1>17, <2>1, <3>1
    <3> QED
      BY <1>16, <1>9, <1>10, <1>11, <1>12, <3>1, <3>2
  <2>4. ASSUME NEW i \in 1..lc PROVE e[lt + 1 + i] = c[i]
    <3>1. PICK j : j = lt + 1 + i
      OBVIOUS
    <3>2. j = la + i /\ j \in 1..lb /\ j \in 1..ld
      BY <1>17, <2>1, <3>1
    <3> QED
      BY <1>18, <3>1, <3>2
  <2>5. e[lt + lc + 2] = SEP
    <3>1. PICK j : j = lt + lc + 2
      OBVIOUS
    <3>2. j = lb + 1 /\ j \in 1..ld
      BY <1>17, <2>1, <3>1
    <3> QED
      BY <1>16, <1>11, <1>12, <3>1, <3>2
  <2>6. e[lt + lc + 3] = u
    <3>1. lt + lc + 3 = ld + 1
      BY <1>17, <2>1
    <3> QED
      BY <1>16, <1>12, <3>1
  <2> QED
    BY <2>1, <2>2, <2>3, <2>4, <2>5, <2>6
<1>14. ThreeParts(e, t, c, u)
  BY <1>4, <1>5, <1>12, <1>13, <1>16 DEF ThreeParts
<1> QED
  BY <1>0, <1>1, <1>7, <1>14

(* The piece p is in s from place a + 1 on.                                *)
Lies(p, s, a) ==
    /\ p \in Seq(Sym)
    /\ a + Len(p) <= Len(s)
    /\ \A i \in 1..Len(p) : s[a + i] = p[i]

(* The state of split after k characters.                                  *)
FieldAt(h, k, F, f, B) == h[k] = [fields |-> F, field |-> f, inSep |-> B]

FieldGrown(h, k, F, p, B) ==
    \E b : FieldAt(h, k, F, p, b) /\ (b = FALSE \/ (p = <<>> /\ b = B))

(* A piece without a separator is added to the field split is making.      *)
LEMMA PieceSplit ==
    ASSUME NEW s \in Seq(Sym), NEW h, FieldRun(h, s), NEW p, NEW a \in Nat, Lies(p, s, a),
           SEP \notin ToSet(p), NEW F, NEW B, FieldAt(h, a, F, <<>>, B)
    PROVE  FieldGrown(h, a + Len(p), F, p, B)
<1> DEFINE n == Len(p)
           State(k) == [fields |-> F, field |-> SubSeq(p, 1, k),
                        inSep |-> IF k = 0 THEN B ELSE FALSE]
           S == {k \in 0..n : h[a + k] = State(k)}
<1>0. p \in Seq(Sym) /\ n \in Nat /\ Len(s) \in Nat
  BY DEF Lies
<1>5. \A i \in 1..n : p[i] # SEP
  BY <1>0 DEF ToSet
<1>1. 0 \in S
  <2>1. a + 0 = a /\ 0 \in 0..n
    BY <1>0
  <2>2. SubSeq(p, 1, 0) = <<>>
    BY SubSeqEmpty
  <2> QED
    BY <2>1, <2>2 DEF FieldAt
<1>2. ASSUME NEW k \in 0..n - 1, k \in S PROVE k + 1 \in S
  <2>1. PICK m, j : m = k + 1 /\ j = a + m
    OBVIOUS
  <2>2. m \in 1..n /\ m \in 0..n /\ m # 0 /\ j \in 1..Len(s) /\ j - 1 = a + k /\ k = m - 1
    BY <1>0, <2>1 DEF Lies
  <2>3. h[j] = SplitStep(h[a + k], p[m])
    BY <2>1, <2>2 DEF FieldRun, Lies
  <2>4. p[m] # SEP
    BY <1>5, <2>2
  <2>5. h[a + k] = State(k)
    BY <1>2
  <2>6. h[j] = [fields |-> F, field |-> Append(SubSeq(p, 1, k), p[m]), inSep |-> FALSE]
    <3>1. PICK z, v, y : z = SubSeq(p, 1, k) /\ v = p[m] /\ y = IF k = 0 THEN B ELSE FALSE
      OBVIOUS
    <3>2. h[a + k] = [fields |-> F, field |-> z, inSep |-> y]
      BY <2>5, <3>1
    <3>3. SplitStep([fields |-> F, field |-> z, inSep |-> y], v)
            = [fields |-> F, field |-> Append(z, v), inSep |-> FALSE]
      BY <2>4, <3>1 DEF SplitStep
    <3> QED
      BY <2>3, <3>1, <3>2, <3>3
  <2>7. Append(SubSeq(p, 1, k), p[m]) = SubSeq(p, 1, m)
    BY <1>0, <2>2, AppendFirst
  <2> QED
    BY <2>1, <2>2, <2>6, <2>7
<1>3. \A k \in 0..n : k \in S
  <2> HIDE DEF S
  <2> QED
    BY <1>0, <1>1, <1>2, InductionUpTo
<1>4. n \in S /\ SubSeq(p, 1, n) = p
  <2>1. n \in 0..n
    BY <1>0
  <2>2. SubSeq(p, 1, n) = p
    BY <1>0, SubSeqFull
  <2> QED
    BY <1>3, <2>1, <2>2
<1>6. n = 0 => p = <<>>
  BY <1>0
<1>7. PICK b : b = IF n = 0 THEN B ELSE FALSE
  OBVIOUS
<1>8. h[a + n] = [fields |-> F, field |-> p, inSep |-> b]
  BY <1>4, <1>7
<1>9. b = FALSE \/ (p = <<>> /\ b = B)
  BY <1>6, <1>7, Zenon
<1> QED
  BY <1>8, <1>9, Zenon DEF FieldAt, FieldGrown

(* So a plain document's record is split into its three fields.            *)
LEMMA SplitPlain ==
    ASSUME NEW doc \in Docs, Plain(doc)
    PROVE  split(Body(doc)) = Fields(doc)
<1>0. PICK v \in Chars \ {SEP, LF} :
         doc.url = <<v>> /\ ThreeParts(Body(doc), doc.title, doc.content, v)
  BY BodyParts
<1>1. PICK t, c, s, u : t = doc.title /\ c = doc.content /\ s = Body(doc) /\ u = v
  OBVIOUS
<1>2. /\ t \in Seq(Sym) /\ c \in Seq(Sym) /\ s \in Seq(Sym)
      /\ Len(s) = Len(t) + Len(c) + 3
      /\ \A i \in 1..Len(t) : s[i] = t[i]
      /\ s[Len(t) + 1] = SEP
      /\ \A i \in 1..Len(c) : s[Len(t) + 1 + i] = c[i]
      /\ s[Len(t) + Len(c) + 2] = SEP
      /\ s[Len(t) + Len(c) + 3] = u
  BY <1>0, <1>1 DEF ThreeParts
<1>3. u # SEP /\ doc.url = <<u>>
  BY <1>0, <1>1
<1>4. PICK lt \in Nat, lc \in Nat : lt = Len(t) /\ lc = Len(c)
  BY <1>2
<1>5. c # <<>> /\ SEP \notin ToSet(t) /\ SEP \notin ToSet(c)
  <2>1. c # <<>> /\ SEP \notin ToSet(t \o c)
    BY <1>1 DEF Plain
  <2>2. /\ \A i \in 1..Len(t) : i \in DOMAIN (t \o c) /\ (t \o c)[i] = t[i]
        /\ \A i \in 1..Len(c) : Len(t) + i \in DOMAIN (t \o c) /\ (t \o c)[Len(t) + i] = c[i]
    BY <1>2
  <2>3. \A i \in DOMAIN (t \o c) : (t \o c)[i] # SEP
    BY <2>1 DEF ToSet
  <2>4. DOMAIN t = 1..Len(t) /\ DOMAIN c = 1..Len(c)
    BY <1>2
  <2> QED
    BY <2>1, <2>2, <2>3, <2>4, Zenon DEF ToSet
<1>6. PICK h : FieldRun(h, s) /\ FoldLeft(SplitStep, NoField, s) = h[Len(s)]
  BY <1>2, SplitRun
<1>7. FieldAt(h, lt, <<>>, t, FALSE)
  <2>1. Lies(t, s, 0)
    BY <1>2, <1>4 DEF Lies
  <2>2. FieldAt(h, 0, <<>>, <<>>, FALSE)
    BY <1>6 DEF FieldRun, NoField, FieldAt
  <2>3. \E b : FieldAt(h, 0 + Len(t), <<>>, t, b) /\ (b = FALSE \/ (t = <<>> /\ b = FALSE))
    <3>1. PICK F, B, a : F = <<>> /\ B = FALSE /\ a = 0
      BY Zenon
    <3>2. a \in Nat
      BY <3>1
    <3>5. Lies(t, s, a) /\ FieldAt(h, a, F, <<>>, B)
      BY <2>1, <2>2, <3>1, Zenon
    <3>3. FieldGrown(h, a + Len(t), F, t, B)
      BY <1>2, <1>5, <1>6, <3>2, <3>5, PieceSplit, Zenon
    <3> QED
      BY <3>1, <3>3, Zenon DEF FieldGrown
  <2>4. 0 + Len(t) = lt
    BY <1>4
  <2> QED
    BY <2>3, <2>4, Zenon
<1>8. \A k \in 1..lt + lc + 3 : h[k] = SplitStep(h[k - 1], s[k])
  BY <1>2, <1>4, <1>6 DEF FieldRun
<1>9. FieldAt(h, lt + 1, <<t>>, <<>>, TRUE)
  <2>1. lt + 1 \in 1..lt + lc + 3 /\ (lt + 1) - 1 = lt
    OBVIOUS
  <2>2. h[lt + 1] = SplitStep(h[lt], SEP)
    BY <1>2, <1>4, <1>8, <2>1
  <2>3. Append(<<>>, t) = <<t>>
    OBVIOUS
  <2>4. PICK f : f = <<>>
    OBVIOUS
  <2>5. SplitStep([fields |-> f, field |-> t, inSep |-> FALSE], SEP)
          = [fields |-> Append(f, t), field |-> <<>>, inSep |-> TRUE]
    BY DEF SplitStep
  <2> QED
    BY <1>7, <2>2, <2>3, <2>4, <2>5, Zenon DEF FieldAt
<1>10. FieldAt(h, lt + 1 + lc, <<t>>, c, FALSE)
  <2>1. lt + 1 \in Nat /\ Lies(c, s, lt + 1)
    BY <1>2, <1>4 DEF Lies
  <2>2. \E b : FieldAt(h, lt + 1 + Len(c), <<t>>, c, b) /\ (b = FALSE \/ (c = <<>> /\ b = TRUE))
    <3>1. PICK F, B, a : F = <<t>> /\ B = TRUE /\ a = lt + 1
      BY Zenon
    <3>2. a \in Nat /\ Lies(c, s, a) /\ FieldAt(h, a, F, <<>>, B)
      BY <1>9, <2>1, <3>1, Zenon
    <3>3. FieldGrown(h, a + Len(c), F, c, B)
      BY <1>2, <1>5, <1>6, <3>2, PieceSplit, Zenon
    <3> QED
      BY <3>1, <3>3, Zenon DEF FieldGrown
  <2> QED
    BY <1>4, <1>5, <2>2, Zenon
<1>11. FieldAt(h, lt + lc + 2, <<t, c>>, <<>>, TRUE)
  <2>1. lt + lc + 2 \in 1..lt + lc + 3 /\ (lt + lc + 2) - 1 = lt + 1 + lc
    OBVIOUS
  <2>2. h[lt + lc + 2] = SplitStep(h[lt + 1 + lc], SEP)
    BY <1>2, <1>4, <1>8, <2>1
  <2>3. SplitStep([fields |-> <<t>>, field |-> c, inSep |-> FALSE], SEP)
          = [fields |-> Append(<<t>>, c), field |-> <<>>, inSep |-> TRUE]
    BY DEF SplitStep
  <2> QED
    BY <1>10, <2>2, <2>3, AppendTuple, Zenon DEF FieldAt
<1>12. FieldAt(h, lt + lc + 3, <<t, c>>, <<u>>, FALSE)
  <2>1. lt + lc + 3 \in 1..lt + lc + 3 /\ (lt + lc + 3) - 1 = lt + lc + 2
    OBVIOUS
  <2>2. h[lt + lc + 3] = SplitStep(h[lt + lc + 2], u)
    BY <1>2, <1>3, <1>4, <1>8, <2>1
  <2>3. Append(<<>>, u) = <<u>>
    OBVIOUS
  <2>4. PICK f : f = <<t, c>>
    OBVIOUS
  <2>5. SplitStep([fields |-> f, field |-> <<>>, inSep |-> TRUE], u)
          = [fields |-> f, field |-> Append(<<>>, u), inSep |-> FALSE]
    BY <1>3 DEF SplitStep
  <2> QED
    BY <1>11, <2>2, <2>3, <2>4, <2>5, Zenon DEF FieldAt
<1>13. split(s) = Append(<<t, c>>, <<u>>)
  <2>1. FoldLeft(SplitStep, NoField, s) = [fields |-> <<t, c>>, field |-> <<u>>, inSep |-> FALSE]
    BY <1>2, <1>4, <1>6, <1>12 DEF FieldAt
  <2>2. PICK f, g : f = <<t, c>> /\ g = <<u>>
    OBVIOUS
  <2>3. FoldLeft(SplitStep, NoField, s) = [fields |-> f, field |-> g, inSep |-> FALSE]
    BY <2>1, <2>2, Zenon
  <2>4. split(s) = Append(f, g)
    BY <2>3 DEF split, NoField
  <2> QED
    BY <2>2, <2>4, Zenon
<1>14. Append(<<t, c>>, <<u>>) = <<t, c, <<u>>>>
  BY AppendTuple
<1>15. <<t, c, <<u>>>> = Fields(doc)
  BY <1>1, <1>3, Zenon DEF Fields
<1> QED
  BY <1>1, <1>13, <1>14, <1>15, Zenon

(* The state of getline after k characters.                                *)
LineAt(h, k, L, r) == h[k] = [lines |-> L, rest |-> r]

(* What has no line break is added to the line getline is making.          *)
LEMMA PieceLine ==
    ASSUME NEW s \in Seq(Sym), NEW h, LineRun(h, s), NEW p \in Seq(Sym),
           \A i \in 1..Len(p) : p[i] # LF,
           NEW n \in 0..Len(p), NEW a \in Nat, a + n <= Len(s),
           \A i \in 1..n : s[a + i] = p[i],
           NEW L, LineAt(h, a, L, <<>>)
    PROVE  LineAt(h, a + n, L, SubSeq(p, 1, n))
<1> DEFINE State(k) == [lines |-> L, rest |-> SubSeq(p, 1, k)]
           S == {k \in 0..n : h[a + k] = State(k)}
<1>0. n \in Nat /\ Len(s) \in Nat /\ Len(p) \in Nat
  OBVIOUS
<1>1. 0 \in S
  <2>1. a + 0 = a /\ 0 \in 0..n
    BY <1>0
  <2>2. SubSeq(p, 1, 0) = <<>>
    BY SubSeqEmpty
  <2> QED
    BY <2>1, <2>2 DEF LineAt
<1>2. ASSUME NEW k \in 0..n - 1, k \in S PROVE k + 1 \in S
  <2>1. PICK m, j : m = k + 1 /\ j = a + m
    OBVIOUS
  <2>2. m \in 1..n /\ m \in 0..n /\ m \in 1..Len(p) /\ j \in 1..Len(s) /\ j - 1 = a + k /\ k = m - 1
    <3>1. PICK lp \in Nat, ls \in Nat : lp = Len(p) /\ ls = Len(s)
      BY <1>0
    <3>2. n <= lp /\ a + n <= ls
      BY <3>1
    <3>3. m \in 1..n /\ m \in 0..n /\ k = m - 1 /\ k \in Nat
      BY <1>0, <2>1
    <3>4. m \in 1..lp
      BY <1>0, <3>2, <3>3
    <3>5. j \in 1..ls /\ j - 1 = a + k
      BY <1>0, <2>1, <3>2, <3>3
    <3> QED
      BY <3>1, <3>3, <3>4, <3>5
  <2>3. h[j] = GetLine(h[a + k], p[m])
    BY <2>1, <2>2 DEF LineRun
  <2>4. p[m] # LF
    BY <2>2
  <2>5. h[a + k] = State(k)
    BY <1>2
  <2>6. h[j] = [lines |-> L, rest |-> Append(SubSeq(p, 1, k), p[m])]
    <3>1. PICK z, v : z = SubSeq(p, 1, k) /\ v = p[m]
      OBVIOUS
    <3>2. GetLine([lines |-> L, rest |-> z], v) = [lines |-> L, rest |-> Append(z, v)]
      BY <2>4, <3>1 DEF GetLine
    <3> QED
      BY <2>3, <2>5, <3>1, <3>2
  <2>7. Append(SubSeq(p, 1, k), p[m]) = SubSeq(p, 1, m)
    BY <2>2, AppendFirst
  <2> QED
    BY <2>1, <2>2, <2>6, <2>7
<1>3. \A k \in 0..n : k \in S
  <2> HIDE DEF S
  <2> QED
    BY <1>0, <1>1, <1>2, InductionUpTo
<1> QED
  BY <1>0, <1>3 DEF LineAt

-----------------------------------------------------------------------------
RecordPieces(docs) == [i \in DOMAIN docs |-> Record(docs[i])]
Bodies(docs, k) == [i \in 1..k |-> Body(docs[i])]

(* No record has a line break but at its end.                              *)
LEMMA BodyUnbroken ==
    ASSUME NEW doc \in Docs
    PROVE  /\ Body(doc) \in Seq(Sym)
           /\ \A j \in 1..Len(Body(doc)) : Body(doc)[j] # LF
           /\ Record(doc) = Body(doc) \o <<LF>>
<1>1. PICK v \in Chars \ {SEP, LF} : ThreeParts(Body(doc), doc.title, doc.content, v)
  BY BodyParts
<1>2. PICK t, c, s : t = doc.title /\ c = doc.content /\ s = Body(doc)
  OBVIOUS
<1>3. ThreeParts(s, t, c, v)
  BY <1>1, <1>2
<1>4. PICK lt \in Nat, lc \in Nat : lt = Len(t) /\ lc = Len(c)
  BY <1>3 DEF ThreeParts
<1>5. ASSUME NEW j \in 1..Len(s) PROVE s[j] # LF
  <2>1. j \in 1..lt + lc + 3
    BY <1>3, <1>4 DEF ThreeParts
  <2>2. CASE j \in 1..lt
    BY <1>3, <1>4, <2>2 DEF ThreeParts
  <2>3. CASE j = lt + 1 \/ j = lt + lc + 2
    BY <1>3, <1>4, <2>3 DEF ThreeParts, SEP, LF
  <2>4. CASE j \in lt + 2..lt + lc + 1
    <3>1. PICK i \in 1..lc : j = lt + 1 + i
      <4>1. j - (lt + 1) \in 1..lc /\ j = lt + 1 + (j - (lt + 1))
        BY <2>1, <2>4
      <4> QED
        BY <4>1
    <3> QED
      BY <1>3, <1>4, <3>1 DEF ThreeParts
  <2>5. CASE j = lt + lc + 3
    BY <1>3, <1>4, <2>5 DEF ThreeParts
  <2> QED
    BY <2>1, <2>2, <2>3, <2>4, <2>5
<1>6. s \in Seq(Sym)
  BY <1>3 DEF ThreeParts
<1>7. Record(doc) = Body(doc) \o <<LF>>
  <2>1. doc.title \in Seq(Sym) /\ doc.content \in Seq(Sym) /\ doc.url \in Seq(Sym)
    <3>1. PICK u \in Sym : doc.url = <<u>>
      BY DEF Docs, Sym
    <3>2. <<u>> \in Seq(Sym)
      OBVIOUS
    <3>3. doc.title \in Seq(Sym) /\ doc.content \in Seq(Sym)
      BY <1>1, Zenon DEF ThreeParts
    <3> QED
      BY <3>1, <3>2, <3>3
  <2> QED
    BY <2>1 DEF Record, Body
<1> QED
  BY <1>2, <1>5, <1>6, <1>7

(* Records are written piece by piece.                                     *)
LEMMA RecordPiecesType ==
    ASSUME NEW docs \in Seq(Docs)
    PROVE  /\ RecordPieces(docs) \in Pieces(Sym)
           /\ Len(docs) \in Nat /\ DOMAIN docs = 1..Len(docs)
           /\ Len(RecordPieces(docs)) = Len(docs)
           /\ Records(docs) = FlattenSeq(RecordPieces(docs))
           /\ Records(docs) \in Seq(Sym)
<1>1. Len(docs) \in Nat /\ DOMAIN docs = 1..Len(docs) /\ \A i \in 1..Len(docs) : docs[i] \in Docs
  OBVIOUS
<1>2. ASSUME NEW i \in 1..Len(docs) PROVE Record(docs[i]) \in Seq(Sym)
  <2>1. <<LF>> \in Seq(Sym)
    BY DEF Sym
  <2>2. PICK b : b = Body(docs[i])
    OBVIOUS
  <2>3. b \in Seq(Sym) /\ Record(docs[i]) = b \o <<LF>>
    BY <1>1, <2>2, BodyUnbroken
  <2> QED
    BY <2>1, <2>3
<1>3. RecordPieces(docs) \in [1..Len(docs) -> Seq(Sym)]
  BY <1>1, <1>2 DEF RecordPieces
<1>4. PICK n, f : n \in Nat /\ n = Len(docs) /\ f = RecordPieces(docs)
  BY <1>1
<1>5. f \in Seq(Seq(Sym)) /\ Len(f) = n
  BY <1>3, <1>4
<1>6. RecordPieces(docs) \in Pieces(Sym)
  BY <1>4, <1>5 DEF Pieces
<1>7. Records(docs) = FlattenSeq(RecordPieces(docs))
  BY DEF Records, RecordPieces
<1> QED
  BY <1>1, <1>4, <1>5, <1>6, <1>7, FlattenType

(* d is what raw holds when it was cut off somewhere.                      *)
CutOf(d, R) == d \in Seq(Sym) /\ Len(d) <= Len(R) /\ \A j \in 1..Len(d) : d[j] = R[j]

(* The record b of a document is in d from place e + 1 to place g, or as   *)
(* much of it as d holds.                                                  *)
RecordLies(b, d, e, g) ==
    /\ b \in Seq(Sym) /\ \A j \in 1..Len(b) : b[j] # LF
    /\ e \in Nat
    /\ g = e + Len(b) + 1
    /\ \A j \in 1..Len(b) : e + j <= Len(d) => d[e + j] = b[j]
    /\ g <= Len(d) => d[g] = LF

(* Where the record of a document lies in it.                              *)
LEMMA RecordAt ==
    ASSUME NEW docs \in Seq(Docs), NEW P, Joins(P, RecordPieces(docs), Sym),
           NEW d, CutOf(d, Records(docs)),
           NEW k \in 1..Len(docs), NEW m \in 0..Len(docs), m = k - 1, NEW b, b = Body(docs[k])
    PROVE  RecordLies(b, d, End(P, m), End(P, k))
<1>1. PICK seqs, R : seqs = RecordPieces(docs) /\ R = Records(docs)
  OBVIOUS
<1>2. /\ seqs \in Pieces(Sym) /\ Len(seqs) = Len(docs) /\ R = FlattenSeq(seqs)
      /\ Joins(P, seqs, Sym)
  BY <1>1, RecordPiecesType
<1>3. docs[k] \in Docs /\ k \in DOMAIN docs
  OBVIOUS
<1>4. /\ b \in Seq(Sym) /\ (\A j \in 1..Len(b) : b[j] # LF)
      /\ Record(docs[k]) = b \o <<LF>>
  BY <1>3, BodyUnbroken
<1>5. PICK q : q = seqs[k]
  OBVIOUS
<1>6. q = b \o <<LF>>
  BY <1>1, <1>3, <1>4, <1>5 DEF RecordPieces
<1>7. PICK l \in Nat : l = Len(b)
  BY <1>4
<1>8. Len(q) = l + 1 /\ (\A j \in 1..l : q[j] = b[j]) /\ q[l + 1] = LF
  <2>1. LF \in Sym
    BY DEF Sym
  <2>2. <<LF>> \in Seq(Sym) /\ Len(<<LF>>) = 1 /\ <<LF>>[1] = LF
    BY <2>1
  <2> QED
    BY <1>4, <1>6, <1>7, <2>2
<1>9. End(P, m) \in Nat /\ End(P, k) = End(P, m) + Len(q)
  BY <1>2, <1>5, JoinsLen
<1>10. \A j \in 1..Len(q) : R[End(P, m) + j] = q[j]
  BY <1>2, <1>5, FlattenAt
<1>11. PICK e \in Nat : e = End(P, m)
  BY <1>9
<1>12. Len(d) \in Nat /\ \A j \in 1..Len(d) : d[j] = R[j]
  BY <1>1 DEF CutOf
<1>13. \A j \in 1..l : e + j <= Len(d) => d[e + j] = b[j]
  <2> SUFFICES ASSUME NEW j \in 1..l, e + j <= Len(d) PROVE d[e + j] = b[j]
    OBVIOUS
  <2>1. e + j \in 1..Len(d) /\ j \in 1..Len(q)
    BY <1>8, <1>12
  <2> QED
    BY <1>8, <1>10, <1>11, <1>12, <2>1
<1>14. e + l + 1 <= Len(d) => d[e + l + 1] = LF
  <2> SUFFICES ASSUME e + l + 1 <= Len(d) PROVE d[e + l + 1] = LF
    OBVIOUS
  <2>1. PICK j : j = l + 1
    OBVIOUS
  <2>2. e + j \in 1..Len(d) /\ j \in 1..Len(q) /\ e + j = e + l + 1
    BY <1>8, <1>12, <2>1
  <2>3. d[e + j] = q[j]
    BY <1>10, <1>11, <1>12, <2>2
  <2> QED
    BY <1>8, <2>1, <2>2, <2>3
<1>15. End(P, k) = e + l + 1
  BY <1>8, <1>9, <1>11
<1> QED
  BY <1>4, <1>7, <1>11, <1>13, <1>14, <1>15 DEF RecordLies

(* After the record of a document getline has made its line.               *)
LEMMA LinesAt ==
    ASSUME NEW docs \in Seq(Docs), NEW P, Joins(P, RecordPieces(docs), Sym),
           NEW d, CutOf(d, Records(docs)), NEW h, LineRun(h, d)
    PROVE  \A k \in 0..Len(docs) :
              End(P, k) <= Len(d) => LineAt(h, End(P, k), Bodies(docs, k), <<>>)
<1> DEFINE n == Len(docs)
           S == {k \in 0..n : End(P, k) <= Len(d) => LineAt(h, End(P, k), Bodies(docs, k), <<>>)}
<1>0. n \in Nat /\ d \in Seq(Sym) /\ Len(d) \in Nat /\ Len(RecordPieces(docs)) = n
      /\ \A i \in 1..n : docs[i] \in Docs
  BY RecordPiecesType DEF CutOf
<1>1. 0 \in S
  <2>1. End(P, 0) = 0
    BY DEF Joins, End
  <2>2. Bodies(docs, 0) = <<>>
    BY DEF Bodies
  <2>3. LineAt(h, 0, <<>>, <<>>)
    BY DEF LineRun, NoLine, LineAt
  <2> QED
    BY <1>0, <2>1, <2>2, <2>3
<1>2. ASSUME NEW m \in 0..n - 1, m \in S PROVE m + 1 \in S
  <2>1. PICK k, b : k = m + 1 /\ b = Body(docs[k])
    OBVIOUS
  <2>2. k \in 1..n /\ m \in 0..n /\ k \in 0..n /\ m = k - 1
    BY <1>0, <2>1
  <2>3. /\ b \in Seq(Sym) /\ (\A j \in 1..Len(b) : b[j] # LF)
        /\ End(P, m) \in Nat
        /\ End(P, k) = End(P, m) + Len(b) + 1
        /\ \A j \in 1..Len(b) : End(P, m) + j <= Len(d) => d[End(P, m) + j] = b[j]
        /\ End(P, k) <= Len(d) => d[End(P, k)] = LF
    <3>1. RecordLies(b, d, End(P, m), End(P, k))
      BY <2>1, <2>2, RecordAt
    <3> QED
      BY <3>1 DEF RecordLies
  <2>4. PICK l \in Nat, e \in Nat, g \in {End(P, k)} : l = Len(b) /\ e = End(P, m) /\ g = End(P, k)
    BY <2>3
  <2>5. g = e + l + 1
    BY <2>3, <2>4
  <2>6. ASSUME g <= Len(d) PROVE LineAt(h, g, Bodies(docs, k), <<>>)
    <3>1. e <= Len(d) /\ e + l <= Len(d) /\ l \in 0..Len(b) /\ g \in 1..Len(d) /\ g - 1 = e + l
      BY <1>0, <2>4, <2>5, <2>6
    <3>2. LineAt(h, e, Bodies(docs, m), <<>>)
      BY <1>2, <2>4, <3>1
    <3>3. \A j \in 1..l : d[e + j] = b[j]
      BY <1>0, <2>3, <2>4, <3>1
    <3>4. LineAt(h, e + l, Bodies(docs, m), SubSeq(b, 1, l))
      BY <1>0, <2>3, <3>1, <3>2, <3>3, PieceLine
    <3>5. SubSeq(b, 1, l) = b
      BY <2>3, <2>4, SubSeqFull
    <3>6. h[g] = GetLine(h[e + l], LF)
      BY <2>3, <2>4, <2>6, <3>1 DEF LineRun
    <3>7. PICK L : L = Bodies(docs, m)
      OBVIOUS
    <3>8. GetLine([lines |-> L, rest |-> b], LF) = [lines |-> Append(L, b), rest |-> <<>>]
      BY DEF GetLine
    <3>9. Append(L, b) = Bodies(docs, k)
      <4>1. \A i \in 1..n : Body(docs[i]) \in Seq(Sym)
        BY <1>0, BodyUnbroken
      <4>2. PICK f : f = [i \in 1..n |-> Body(docs[i])]
        OBVIOUS
      <4>3. f \in [1..n -> Seq(Sym)]
        BY <4>1, <4>2
      <4>4. f \in Seq(Seq(Sym)) /\ Len(f) = n
        BY <1>0, <4>3
      <4>5. Append(SubSeq(f, 1, m), f[k]) = SubSeq(f, 1, k)
        BY <2>2, <4>4, AppendFirst
      <4>6. \A i \in 0..n : SubSeq(f, 1, i) = [j \in 1..i |-> f[j]]
        BY <1>0, <4>4
      <4>7. \A i \in 0..n : Bodies(docs, i) = [j \in 1..i |-> f[j]]
        BY <1>0, <4>2 DEF Bodies
      <4>8. f[k] = b
        BY <2>1, <2>2, <4>2
      <4> QED
        BY <2>2, <3>7, <4>5, <4>6, <4>7, <4>8
    <3>10. h[e + l] = [lines |-> L, rest |-> b]
      BY <3>4, <3>5, <3>7, Zenon DEF LineAt
    <3> QED
      BY <3>6, <3>8, <3>9, <3>10, Zenon DEF LineAt
  <2> QED
    BY <2>1, <2>2, <2>4, <2>6
<1>3. \A k \in 0..n : k \in S
  <2> HIDE DEF S
  <2> QED
    BY <1>0, <1>1, <1>2, InductionUpTo
<1> QED
  BY <1>3

(* A cut file ends within a record, or is whole.                           *)
LEMMA LastRecord ==
    ASSUME NEW n \in Nat, NEW P, P[0] = <<>>, NEW l \in Nat
    PROVE  \E k \in 0..n : End(P, k) <= l /\ (k = n \/ ~(End(P, k + 1) <= l))
<1> DEFINE S == {k \in 0..n : End(P, k) <= l}
<1>1. 0 \in S
  BY DEF End
<1>2. SUFFICES ASSUME \A k \in 0..n - 1 : k \in S => k + 1 \in S PROVE n \in S
  <2>1. CASE n \in S
    BY <2>1
  <2>2. CASE n \notin S
    <3>1. PICK k \in 0..n - 1 : k \in S /\ k + 1 \notin S
      BY <1>2, <2>2
    <3>2. k \in 0..n /\ k + 1 \in 0..n
      OBVIOUS
    <3> QED
      BY <3>1, <3>2
  <2> QED
    BY <2>1, <2>2
<1>3. \A k \in 0..n : k \in S
  <2> HIDE DEF S
  <2> QED
    BY <1>1, <1>2, InductionUpTo
<1> QED
  BY <1>3

(* Of a cut file getline makes the first records, and perhaps a line of    *)
(* what there is of the next one.                                          *)
LEMMA PrefixLines ==
    ASSUME NEW docs \in Seq(Docs), NEW d, CutOf(d, Records(docs))
    PROVE  \E k, r :
              /\ k \in 0..Len(docs)
              /\ FoldLeft(GetLine, NoLine, d) = [lines |-> Bodies(docs, k), rest |-> r]
              /\ r # <<>> => k < Len(docs)
              /\ Len(d) = Len(Records(docs)) => k = Len(docs)
<1>1. /\ RecordPieces(docs) \in Pieces(Sym)
      /\ Len(docs) \in Nat
      /\ Len(RecordPieces(docs)) = Len(docs)
      /\ Records(docs) = FlattenSeq(RecordPieces(docs))
  BY RecordPiecesType
<1>2. PICK P : Joins(P, RecordPieces(docs), Sym)
  BY <1>1, JoinsExists
<1>3. PICK n \in Nat, l \in Nat, R \in {Records(docs)} :
              n = Len(docs) /\ l = Len(d) /\ R = Records(docs)
  BY <1>1 DEF CutOf
<1>4. R = P[n]
  BY <1>1, <1>2, <1>3, FlattenJoins
<1>5. Len(R) = End(P, n)
  BY <1>4 DEF End
<1>6. PICK k \in 0..n : End(P, k) <= l /\ (k = n \/ ~(End(P, k + 1) <= l))
  BY <1>2, LastRecord DEF Joins
<1>7. PICK h : LineRun(h, d) /\ FoldLeft(GetLine, NoLine, d) = h[Len(d)]
  BY LinesRun DEF CutOf
<1>8. LineAt(h, End(P, k), Bodies(docs, k), <<>>)
  BY <1>2, <1>3, <1>6, <1>7, LinesAt
<1>9. CASE k = n
  <2>1. End(P, n) = l
    <3>1. l <= End(P, n)
      BY <1>3, <1>5 DEF CutOf
    <3>2. End(P, n) \in Nat
      BY <1>1, <1>3, <1>4, FlattenType DEF End
    <3> QED
      BY <1>6, <1>9, <3>1, <3>2
  <2>2. FoldLeft(GetLine, NoLine, d) = [lines |-> Bodies(docs, k), rest |-> <<>>]
    BY <1>3, <1>7, <1>8, <1>9, <2>1 DEF LineAt
  <2> QED
    BY <1>3, <1>9, <2>2
<1>10. CASE k # n
  <2>1. PICK m, b : m = k + 1 /\ b = Body(docs[m])
    OBVIOUS
  <2>2. m \in 1..n /\ k \in 0..n /\ k = m - 1 /\ k < n
    BY <1>10, <2>1
  <2>3. RecordLies(b, d, End(P, k), End(P, m))
    BY <1>2, <1>3, <2>1, <2>2, RecordAt
  <2>4. PICK e \in Nat, lb \in Nat : e = End(P, k) /\ lb = Len(b)
    BY <2>3 DEF RecordLies
  <2>5. End(P, m) = e + lb + 1 /\ b \in Seq(Sym)
    BY <2>3, <2>4 DEF RecordLies
  <2>6. PICK x : x = l - e
    OBVIOUS
  <2>7. x \in 0..lb /\ e + x = l
    BY <1>6, <1>10, <2>1, <2>4, <2>5, <2>6, SMTT(30)
  <2>8. \A j \in 1..x : d[e + j] = b[j]
    <3>1. \A j \in 1..lb : e + j <= Len(d) => d[e + j] = b[j]
      BY <2>3, <2>4 DEF RecordLies
    <3>2. \A j \in 1..x : j \in 1..lb /\ e + j <= l
      BY <2>7
    <3>3. Len(d) = l
      BY <1>3
    <3> QED
      BY <3>1, <3>2, <3>3
  <2>9. LineAt(h, e + x, Bodies(docs, k), SubSeq(b, 1, x))
    <3>1. e + x <= Len(d) /\ d \in Seq(Sym)
      BY <1>3, <2>7 DEF CutOf
    <3>2. \A j \in 1..Len(b) : b[j] # LF
      BY <2>3 DEF RecordLies
    <3>3. LineAt(h, e, Bodies(docs, k), <<>>) /\ x \in 0..Len(b)
      BY <1>8, <2>4, <2>7
    <3> QED
      BY <1>7, <2>5, <2>8, <3>1, <3>2, <3>3, PieceLine
  <2>10. ~(l = Len(R))
    <3>1. End(P, m) <= End(P, n)
      BY <1>1, <1>2, <1>3, <2>2, JoinsPrefix
    <3>2. End(P, n) \in Nat
      BY <1>1, <1>3, <1>4, FlattenType DEF End
    <3> QED
      BY <1>5, <2>4, <2>5, <2>7, <3>1, <3>2
  <2>11. FoldLeft(GetLine, NoLine, d) = [lines |-> Bodies(docs, k), rest |-> SubSeq(b, 1, x)]
    BY <1>3, <1>7, <2>7, <2>9, Zenon DEF LineAt
  <2> QED
    BY <1>3, <2>2, <2>10, <2>11
<1> QED
  BY <1>9, <1>10

(* So what reads a cut file finds the first documents, the last of them    *)
(* perhaps cut, and what reads a whole one finds all.                      *)
LEMMA CutLines ==
    ASSUME NEW docs \in Seq(Docs), NEW d, CutOf(d, Records(docs))
    PROVE  /\ Len(Lines(d)) \in 0..Len(docs)
           /\ DOMAIN Lines(d) = 1..Len(Lines(d))
           /\ \A i \in 1..Len(Lines(d)) - 1 : Lines(d)[i] = Body(docs[i])
           /\ Len(d) = Len(Records(docs)) =>
                 /\ Len(Lines(d)) = Len(docs)
                 /\ \A i \in 1..Len(docs) : Lines(d)[i] = Body(docs[i])
<1>1. PICK k, r :
              /\ k \in 0..Len(docs)
              /\ FoldLeft(GetLine, NoLine, d) = [lines |-> Bodies(docs, k), rest |-> r]
              /\ r # <<>> => k < Len(docs)
              /\ Len(d) = Len(Records(docs)) => k = Len(docs)
  BY PrefixLines
<1>2. PICK n \in Nat, L \in {Lines(d)} : n = Len(docs) /\ L = Lines(d)
  OBVIOUS
<1>3. PICK B : B = Bodies(docs, k)
  OBVIOUS
<1>4. L = IF r = <<>> THEN B ELSE Append(B, r)
  BY <1>1, <1>2, <1>3 DEF Lines, NoLine
<1>5. B = [i \in 1..k |-> Body(docs[i])]
  BY <1>3 DEF Bodies
<1>6. k \in Nat /\ k <= n
  BY <1>1, <1>2
<1>7. PICK T : T = {Body(docs[i]) : i \in 1..k} \cup {r}
  OBVIOUS
<1>8. B \in [1..k -> T]
  BY <1>5, <1>7
<1>9. B \in Seq(T) /\ Len(B) = k /\ r \in T /\ DOMAIN B = 1..k
  BY <1>6, <1>7, <1>8
<1>10. CASE r = <<>>
  <2>1. L = B
    BY <1>4, <1>10
  <2>2. \A i \in 1..k : L[i] = Body(docs[i])
    BY <1>5, <2>1
  <2>3. Len(L) = k /\ DOMAIN L = 1..k
    BY <1>9, <2>1
  <2> QED
    BY <1>1, <1>2, <1>6, <2>2, <2>3
<1>11. CASE r # <<>>
  <2>1. L = Append(B, r)
    BY <1>4, <1>11
  <2>2. L \in Seq(T) /\ Len(L) = k + 1 /\ \A i \in 1..k : L[i] = B[i]
    BY <1>9, <2>1, AppendProperties
  <2>3. Len(L) = k + 1 /\ DOMAIN L = 1..k + 1
    BY <2>2
  <2>4. \A i \in 1..k : L[i] = Body(docs[i])
    BY <1>5, <2>2
  <2>5. k < n
    BY <1>1, <1>2, <1>11
  <2> QED
    BY <1>1, <1>2, <1>6, <2>3, <2>4, <2>5
<1> QED
  BY <1>10, <1>11

-----------------------------------------------------------------------------
(* What Keep joins: one piece for each place.                              *)
Kept(s, places) == [i \in DOMAIN s |-> IF i \in places THEN <<s[i]>> ELSE <<>>]

(* What is kept, place by place.                                           *)
LEMMA KeepJoins ==
    ASSUME NEW S, NEW s \in Seq(S), NEW T, NEW places,
           \A i \in 1..Len(s) : i \in places => s[i] \in T
    PROVE  /\ Kept(s, places) \in Pieces(T) /\ Len(Kept(s, places)) = Len(s)
           /\ Keep(s, places) \in Seq(T)
           /\ \E P : Joins(P, Kept(s, places), T) /\ Keep(s, places) = P[Len(s)]
<1>1. Len(s) \in Nat /\ DOMAIN s = 1..Len(s)
  OBVIOUS
<1>2. ASSUME NEW i \in 1..Len(s)
      PROVE  (IF i \in places THEN <<s[i]>> ELSE <<>>) \in Seq(T)
  <2>1. \A x \in T : <<x>> \in Seq(T)
    OBVIOUS
  <2>2. <<>> \in Seq(T)
    OBVIOUS
  <2> QED
    BY <2>1, <2>2
<1>3. Kept(s, places) \in [1..Len(s) -> Seq(T)]
  BY <1>1, <1>2 DEF Kept
<1>4. PICK n, f : n \in Nat /\ n = Len(s) /\ f = Kept(s, places)
  BY <1>1
<1>5. f \in Seq(Seq(T)) /\ Len(f) = n
  BY <1>3, <1>4
<1>6. f \in Pieces(T)
  BY <1>5 DEF Pieces
<1>7. Keep(s, places) = FlattenSeq(f)
  BY <1>4 DEF Keep, Kept
<1>8. FlattenSeq(f) \in Seq(T)
  BY <1>6, FlattenType
<1>9. PICK P : Joins(P, f, T)
  BY <1>6, JoinsExists
<1>10. FlattenSeq(f) = P[n]
  BY <1>5, <1>6, <1>9, FlattenJoins
<1> QED
  BY <1>4, <1>5, <1>6, <1>7, <1>8, <1>9, <1>10, Zenon

(* What is kept grows by the element of each place that is kept.           *)
LEMMA KeepStep ==
    ASSUME NEW S, NEW s \in Seq(S), NEW T, NEW places, NEW P, Joins(P, Kept(s, places), T),
           Len(Kept(s, places)) = Len(s),
           NEW k \in 1..Len(s), NEW m, m = k - 1
    PROVE  /\ P[m] \in Seq(T)
           /\ k \in places => P[k] = Append(P[m], s[k]) /\ End(P, k) = End(P, m) + 1
           /\ k \notin places => P[k] = P[m]
<1>1. m \in 0..Len(s) /\ k \in DOMAIN s
  OBVIOUS
<1>2. P[m] \in Seq(T) /\ P[k] \in Seq(T) /\ P[k] = P[m] \o Kept(s, places)[k]
  BY <1>1, SMTT(30) DEF Joins
<1>3. Kept(s, places)[k] = IF k \in places THEN <<s[k]>> ELSE <<>>
  BY <1>1 DEF Kept
<1>4. PICK x, y : x = P[m] /\ y = s[k]
  OBVIOUS
<1>5. x \o <<y>> = Append(x, y) /\ x \o <<>> = x /\ Len(x \o <<y>>) = Len(x) + 1
  BY <1>2, <1>4
<1> QED
  BY <1>2, <1>3, <1>4, <1>5 DEF End

(* readFile leaves no line break.                                          *)
LEMMA ReadFileType ==
    ASSUME NEW bytes \in Seq(Chars)
    PROVE  readFile(bytes) \in Seq(Letters)
<1>1. \A i \in 1..Len(bytes) : i \in {j \in DOMAIN bytes : bytes[j] # LF} => bytes[i] \in Letters
  BY DEF Letters
<1> QED
  BY <1>1, KeepJoins DEF readFile

-----------------------------------------------------------------------------
(* After k characters a tag has ended and none has begun since.            *)
Out(text, k) ==
    \E j \in 1..k : /\ text[j] \in Tags \cup {">"}
                    /\ \A i \in j + 1..k : text[i] # "<"

(* What the next character makes of that.                                  *)
LEMMA OutStep ==
    ASSUME NEW text \in Seq(Letters), NEW k \in 1..Len(text), NEW m, m = k - 1
    PROVE  Out(text, k) <=>
              text[k] \in Tags \cup {">"} \/ (text[k] # "<" /\ Out(text, m))
<1>0. k \in Nat /\ m \in Nat /\ k = m + 1
  OBVIOUS
<1>1. ASSUME text[k] \in Tags \cup {">"} PROVE Out(text, k)
  <2>1. k \in 1..k /\ \A i \in k + 1..k : text[i] # "<"
    BY <1>0
  <2> QED
    BY <1>1, <2>1 DEF Out
<1>2. ASSUME text[k] # "<", Out(text, m) PROVE Out(text, k)
  <2>1. PICK j \in 1..m : text[j] \in Tags \cup {">"} /\ \A i \in j + 1..m : text[i] # "<"
    BY <1>2 DEF Out
  <2>2. j \in 1..k /\ \A i \in j + 1..k : i = k \/ i \in j + 1..m
    BY <1>0
  <2> QED
    BY <1>2, <2>1, <2>2 DEF Out
<1>3. ASSUME Out(text, k), text[k] \notin Tags \cup {">"} PROVE text[k] # "<" /\ Out(text, m)
  <2>1. PICK j \in 1..k : text[j] \in Tags \cup {">"} /\ \A i \in j + 1..k : text[i] # "<"
    BY <1>3 DEF Out
  <2>2. j # k
    BY <1>3, <2>1
  <2>3. j \in 1..m /\ k \in j + 1..k /\ \A i \in j + 1..m : i \in j + 1..k
    BY <1>0, <2>2
  <2> QED
    BY <2>1, <2>3 DEF Out
<1> QED
  BY <1>1, <1>2, <1>3

(* parseContent keeps what is outside the tags: its state says whether one *)
(* has ended.                                                              *)
LEMMA ContentKept ==
    ASSUME NEW text \in Seq(Letters)
    PROVE  parseContent(text) = TextOutsideTags(text)
<1> DEFINE n == Len(text)
           places == {i \in DOMAIN text : Outside(text, i)}
<1>0. n \in Nat /\ DOMAIN text = 1..n /\ (\A i \in 1..n : text[i] \in Letters /\ text[i] # LF)
      /\ text \in Seq(Sym)
  <2>1. Letters \subseteq Sym
    BY DEF Letters, Sym
  <2>2. n \in Nat /\ DOMAIN text = 1..n /\ \A i \in 1..n : text[i] \in Letters
    OBVIOUS
  <2>3. text \in Seq(Sym)
    BY <2>1
  <2> QED
    BY <2>2, <2>3 DEF Letters
<1>1. PICK P : /\ Joins(P, Kept(text, places), Letters)
               /\ Len(Kept(text, places)) = n
               /\ Keep(text, places) = P[n]
  <2>1. PICK p : p = places
    OBVIOUS
  <2>2. \A i \in 1..Len(text) : i \in p => text[i] \in Letters
    BY <1>0
  <2>3. Len(Kept(text, p)) = n /\ \E P : Joins(P, Kept(text, p), Letters) /\ Keep(text, p) = P[n]
    BY <2>2, KeepJoins
  <2> QED
    BY <2>1, <2>3
<1>2. PICK h : TextRun(h, text) /\ FoldLeft(ContentStep, NoText, text) = h[n]
  BY <1>0, ContentRun
<1> DEFINE State(k) == [s |-> IF Out(text, k) THEN "CONTENT" ELSE "LABLE", content |-> P[k]]
           S == {k \in 0..n : h[k] = State(k)}
<1>3. 0 \in S
  <2>1. ~Out(text, 0)
    BY DEF Out
  <2>2. P[0] = <<>>
    BY <1>1 DEF Joins
  <2> QED
    BY <1>0, <1>2, <2>1, <2>2 DEF TextRun, NoText
<1>4. ASSUME NEW m \in 0..n - 1, m \in S PROVE m + 1 \in S
  <2>1. PICK k, c : k = m + 1 /\ c = text[k]
    OBVIOUS
  <2>2. k \in 1..n /\ k \in 0..n /\ m = k - 1
    BY <1>0, <2>1
  <2>3. h[k] = ContentStep(h[m], c) /\ c # LF
    BY <1>0, <1>2, <2>1, <2>2 DEF TextRun
  <2>4. k \in places <=> c \notin Tags \cup {"<"} /\ Out(text, m)
    BY <1>0, <2>1, <2>2 DEF Outside, Out
  <2>5. Out(text, k) <=> c \in Tags \cup {">"} \/ (c # "<" /\ Out(text, m))
    BY <2>1, <2>2, OutStep
  <2>6. /\ k \in places => P[k] = Append(P[m], c)
        /\ k \notin places => P[k] = P[m]
    BY <1>1, <2>1, <2>2, KeepStep
  <2>7. PICK z, x, y : z = P[m] /\ x = P[k] /\ y = Append(P[m], c)
    OBVIOUS
  <2>8. CASE Out(text, m)
    <3>1. h[m] = [s |-> "CONTENT", content |-> z]
      BY <1>4, <2>7, <2>8
    <3>2. c \in Tags \/ c = "<" \/ c \notin Tags \cup {"<"}
      OBVIOUS
    <3>3. ContentStep([s |-> "CONTENT", content |-> z], c)
             = IF c = "<" THEN [s |-> "LABLE", content |-> z]
               ELSE IF c \in Tags THEN [s |-> "CONTENT", content |-> z]
               ELSE [s |-> "CONTENT", content |-> Append(z, c)]
      <4>1. PICK st : st = [s |-> "CONTENT", content |-> z]
        OBVIOUS
      <4>2. c = "<" => ContentStep(st, c) = [s |-> "LABLE", content |-> z]
        BY <4>1 DEF ContentStep, Tags
      <4>3. c \in Tags => c # "<" /\ ContentStep(st, c) = [s |-> "CONTENT", content |-> z]
        BY <4>1 DEF ContentStep, Tags
      <4>4. c \notin Tags \cup {"<"} =>
               ContentStep(st, c) = [s |-> "CONTENT", content |-> Append(z, c)]
        BY <2>3, <4>1 DEF ContentStep, Tags
      <4> QED
        BY <4>1, <4>2, <4>3, <4>4
    <3>4. Out(text, k) <=> c # "<"
      BY <2>5, <2>8 DEF Tags
    <3>5. x = IF c \notin Tags \cup {"<"} THEN Append(z, c) ELSE z
      BY <2>4, <2>6, <2>7, <2>8
    <3>6. State(k) = [s |-> IF c = "<" THEN "LABLE" ELSE "CONTENT", content |-> x]
      BY <2>7, <3>4
    <3>7. h[k] = State(k)
      BY <2>3, <3>1, <3>3, <3>5, <3>6
    <3> QED
      BY <2>1, <2>2, <3>7
  <2>9. CASE ~Out(text, m)
    <3>1. h[m] = [s |-> "LABLE", content |-> z]
      BY <1>4, <2>7, <2>9
    <3>3. ContentStep([s |-> "LABLE", content |-> z], c)
             = [s |-> IF c \in Tags \cup {">"} THEN "CONTENT" ELSE "LABLE", content |-> z]
      BY <2>3 DEF ContentStep, Tags
    <3>5. x = z
      BY <2>4, <2>6, <2>7, <2>9
    <3>6. State(k) = [s |-> IF c \in Tags \cup {">"} THEN "CONTENT" ELSE "LABLE", content |-> x]
      BY <2>5, <2>7, <2>9
    <3>7. h[k] = State(k)
      BY <2>3, <3>1, <3>3, <3>5, <3>6
    <3> QED
      BY <2>1, <2>2, <3>7
  <2> QED
    BY <2>8, <2>9
<1>5. \A k \in 0..n : k \in S
  <2> HIDE DEF S
  <2> QED
    BY <1>0, <1>3, <1>4, InductionUpTo
<1>6. h[n] = State(n)
  BY <1>0, <1>5
<1>7. parseContent(text) = P[n]
  BY <1>2, <1>6 DEF parseContent, NoText
<1> QED
  BY <1>1, <1>7 DEF TextOutsideTags

(* The first place of a character, and 0 for one that does not occur.      *)
LEMMA FirstPlace ==
    ASSUME NEW text, Len(text) \in Nat, NEW c, Contains(text, c)
    PROVE  /\ find(text, c) \in 1..Len(text)
           /\ text[find(text, c)] = c
<1> DEFINE I == {i \in 1..Len(text) : text[i] = c}
<1>1. I # {} /\ I \in SUBSET Nat
  BY DEF Contains
<1>2. PICK p \in I : \A q \in I : p <= q
  <2> HIDE DEF I
  <2> QED
    BY <1>1, LeastElement
<1>3. Min(I) \in I
  BY <1>2 DEF Min
<1>4. find(text, c) = Min(I)
  BY <1>1 DEF find, SelectInSeq
<1> QED
  BY <1>3, <1>4

(* A title lies between two tags.                                          *)
LEMMA TitlePlace ==
    ASSUME NEW text \in Seq(Letters), HasTitle(text)
    PROVE  \E a, b \in 1..Len(text) :
              /\ a < b
              /\ text[a] = "<title>" /\ text[b] = "</title>"
              /\ parseTitle(text) = SubSeq(text, a + 1, b - 1)
              /\ parseTitle(text) \in Seq(Letters)
<1>1. Len(text) \in Nat
  OBVIOUS
<1>2. PICK a, b : /\ a = find(text, "<title>")
                  /\ b = find(text, "</title>")
  OBVIOUS
<1>3. a \in 1..Len(text) /\ text[a] = "<title>"
  BY <1>1, <1>2, FirstPlace DEF HasTitle
<1>4. b \in 1..Len(text) /\ text[b] = "</title>"
  BY <1>1, <1>2, FirstPlace DEF HasTitle
<1>5. a < b
  BY <1>2 DEF HasTitle
<1>6. parseTitle(text) = SubSeq(text, a + 1, b - 1)
  BY <1>2 DEF parseTitle
<1>7. SubSeq(text, a + 1, b - 1) \in Seq(Letters)
  BY <1>3, <1>4
<1> QED
  BY <1>3, <1>4, <1>5, <1>6, <1>7

(* The document of a file is one.                                          *)
LEMMA DocType ==
    ASSUME NEW f \in Files, HasTitle(readFile(f.bytes))
    PROVE  /\ docInfo(f) \in Docs
           /\ docInfo(f).title = parseTitle(readFile(f.bytes))
           /\ docInfo(f).content = TextOutsideTags(readFile(f.bytes))
           /\ docInfo(f).url = <<f.url>>
<1>1. f.bytes \in Seq(Chars) /\ f.url \in Chars \ {SEP, LF}
  BY DEF Files
<1>2. PICK text : text = readFile(f.bytes)
  OBVIOUS
<1>3. text \in Seq(Letters) /\ HasTitle(text)
  BY <1>1, <1>2, ReadFileType
<1>4. parseTitle(text) \in Seq(Letters)
  BY <1>3, TitlePlace
<1>5. parseContent(text) = TextOutsideTags(text)
  BY <1>3, ContentKept
<1>6. TextOutsideTags(text) \in Seq(Letters)
  <2>1. PICK p : p = {i \in DOMAIN text : Outside(text, i)}
    OBVIOUS
  <2>2. \A i \in 1..Len(text) : i \in p => text[i] \in Letters
    BY <1>3
  <2>3. Keep(text, p) \in Seq(Letters)
    BY <1>3, <2>2, KeepJoins
  <2> QED
    BY <2>1, <2>3 DEF TextOutsideTags
<1>7. PICK t, c, u : t = parseTitle(text) /\ c = TextOutsideTags(text) /\ u = <<f.url>>
  OBVIOUS
<1>8. docInfo(f) = [title |-> t, content |-> c, url |-> u]
  BY <1>2, <1>5, <1>7 DEF docInfo
<1>9. u \in {<<v>> : v \in Chars \ {SEP, LF}}
  BY <1>1, <1>7
<1>10. docInfo(f) \in Docs
  BY <1>4, <1>6, <1>7, <1>8, <1>9 DEF Docs
<1> QED
  BY <1>2, <1>7, <1>8, <1>10

(* The first documents' records are the beginning of all of them.          *)
LEMMA FirstRecords ==
    ASSUME NEW docs \in Seq(Docs), NEW k \in 0..Len(docs),
           NEW p \in Prefixes(Records(SubSeq(docs, 1, k)))
    PROVE  CutOf(p, Records(docs))
<1> DEFINE first == SubSeq(docs, 1, k)
<1>1. /\ RecordPieces(docs) \in Pieces(Sym)
      /\ Len(docs) \in Nat /\ DOMAIN docs = 1..Len(docs)
      /\ Len(RecordPieces(docs)) = Len(docs)
      /\ Records(docs) = FlattenSeq(RecordPieces(docs))
      /\ Records(docs) \in Seq(Sym)
  BY RecordPiecesType
<1>2. first \in Seq(Docs) /\ Len(first) = k /\ \A i \in 1..k : first[i] = docs[i]
  OBVIOUS
<1>3. /\ RecordPieces(first) \in Pieces(Sym)
      /\ Len(RecordPieces(first)) = k /\ DOMAIN first = 1..k
      /\ Records(first) = FlattenSeq(RecordPieces(first))
  <2> HIDE DEF first
  <2> QED
    BY <1>2, RecordPiecesType
<1>4. PICK P : Joins(P, RecordPieces(docs), Sym)
  BY <1>1, JoinsExists
<1>5. PICK n \in Nat : n = Len(docs) /\ k <= n
  <2>1. k <= Len(docs)
    BY <1>1
  <2> QED
    BY <1>1, <2>1
<1>6. Records(docs) = P[n]
  BY <1>1, <1>4, <1>5, FlattenJoins
<1> DEFINE Q == [i \in 0..k |-> P[i]]
<1>7. Joins(Q, RecordPieces(first), Sym)
  <2>1. Q \in [0..k -> Seq(Sym)] /\ Q[0] = <<>>
    BY <1>1, <1>4, <1>5 DEF Joins
  <2>2. ASSUME NEW i \in 1..k PROVE Q[i] = Q[i - 1] \o RecordPieces(first)[i]
    <3>1. i \in 0..k /\ i - 1 \in 0..k /\ i \in 1..n /\ i \in DOMAIN docs /\ i \in DOMAIN first
      BY <1>1, <1>3, <1>5
    <3>2. RecordPieces(first)[i] = RecordPieces(docs)[i]
      BY <1>2, <3>1 DEF RecordPieces
    <3>3. P[i] = P[i - 1] \o RecordPieces(docs)[i]
      BY <1>1, <1>4, <1>5, <3>1 DEF Joins
    <3> QED
      BY <3>1, <3>2, <3>3
  <2> HIDE DEF Q, first
  <2> QED
    BY <1>3, <2>1, <2>2 DEF Joins
<1>8. Records(first) = P[k]
  <2>1. FlattenSeq(RecordPieces(first)) = Q[k]
    <3> HIDE DEF Q, first
    <3> QED
      BY <1>3, <1>7, FlattenJoins
  <2>2. k \in 0..k
    BY <1>5
  <2> QED
    BY <1>3, <2>1, <2>2
<1>9. /\ End(P, k) \in Nat /\ End(P, n) \in Nat /\ End(P, k) <= End(P, n)
      /\ \A j \in 1..End(P, k) : P[n][j] = P[k][j]
  BY <1>1, <1>4, <1>5, JoinsPrefix
<1>10. P[k] \in Seq(Sym)
  BY <1>1, <1>4 DEF Joins
<1>11. PICK l \in 0..Len(P[k]) : p = SubSeq(P[k], 1, l)
  BY <1>8 DEF Prefixes
<1>12. PICK x, y : x = P[k] /\ y = P[n]
  OBVIOUS
<1>13. p \in Seq(Sym) /\ Len(p) = l /\ \A j \in 1..l : p[j] = x[j]
  BY <1>10, <1>11, <1>12
<1>14. l \in Nat /\ l <= Len(y) /\ \A j \in 1..l : y[j] = x[j]
  BY <1>9, <1>10, <1>11, <1>12 DEF End
<1> QED
  BY <1>6, <1>12, <1>13, <1>14 DEF CutOf

(* All the records are a cut of themselves.                                *)
LEMMA WholeRecords ==
    ASSUME NEW docs \in Seq(Docs)
    PROVE  CutOf(Records(docs), Records(docs)) /\ CutOf(<<>>, Records(docs))
           /\ SubSeq(docs, 1, Len(docs)) = docs /\ Len(docs) \in 0..Len(docs)
<1>1. Records(docs) \in Seq(Sym)
  BY RecordPiecesType
<1>2. Len(Records(docs)) \in Nat
  BY <1>1
<1> QED
  BY <1>1, <1>2, SubSeqFull DEF CutOf

-----------------------------------------------------------------------------
(* A document comes from a file of the tree that has a title ...           *)
Comes(doc) ==
    \E f \in ToSet(tree) : HasTitle(readFile(f.bytes)) /\ doc = docInfo(f)

(* ... and raw holds the records of all documents, or of the first and     *)
(* part of one more.                                                       *)
ParserInv ==
    /\ tree \in Seq(Files)
    /\ filesList \in Seq(ToSet(tree))
    /\ parsed \in Nat
    /\ docResults \in Seq(Docs)
    /\ \A i \in DOMAIN docResults : Comes(docResults[i])
    /\ written \in 0..Len(docResults)
    /\ ppc \in {"save", "done"} => CutOf(disk, Records(docResults))
    /\ ppc = "done" /\ ~full => Len(disk) = Len(Records(docResults))
    /\ ppc = "enum" => filesList = <<>> /\ docResults = <<>>

(* A run begins with no document and whatever is on the disk.              *)
LEMMA ParserStarts == ParserInit => ParserInv
<1> SUFFICES ASSUME ParserInit PROVE ParserInv
  OBVIOUS
<1>1. tree \in Seq(Files)
  BY ParserAssumption DEF ParserInit
<1>2. filesList \in Seq(ToSet(tree)) /\ docResults \in Seq(Docs) /\ 0 \in 0..Len(docResults)
      /\ DOMAIN docResults = {}
  BY DEF ParserInit
<1> QED
  BY <1>1, <1>2 DEF ParserInit, ParserInv

(* Every step of parser, and its end at any time, keeps the invariant.     *)
LEMMA ParserStep == ParserInv /\ [ParserNext]_parserVars => ParserInv'
<1> SUFFICES ASSUME ParserInv, [ParserNext]_parserVars PROVE ParserInv'
  OBVIOUS
<1> USE DEF ParserInv
<1>0. ASSUME tree' = tree PROVE \A doc : Comes(doc)' <=> Comes(doc)
  BY <1>0 DEF Comes
<1>1. CASE enumFile
  <2>1. tree' = tree /\ docResults' = docResults /\ ppc' = "parse" /\ ppc = "enum"
        /\ UNCHANGED <<parsed, written, disk, full>>
    BY <1>1 DEF enumFile
  <2>2. filesList' \in Seq(ToSet(tree))
    <3>1. PICK p : p = {i \in DOMAIN tree : tree[i].html}
      OBVIOUS
    <3>2. \A i \in 1..Len(tree) : i \in p => tree[i] \in ToSet(tree)
      BY DEF ToSet
    <3>3. Keep(tree, p) \in Seq(ToSet(tree))
      BY <3>2, KeepJoins
    <3> QED
      BY <1>1, <3>1, <3>3 DEF enumFile
  <2> QED
    BY <1>0, <2>1, <2>2
<1>2. CASE EnumFails \/ Kill \/ OpenOutputFails
  <2>1. UNCHANGED <<tree, filesList, parsed, docResults, written, disk, full>>
        /\ ppc' \notin {"save", "done", "enum"}
    BY <1>2 DEF EnumFails, Kill, OpenOutputFails
  <2> QED
    BY <1>0, <2>1
<1>3. CASE parseDocInfo
  <2>1. UNCHANGED <<tree, ppc, filesList, written, disk, full>> /\ ppc = "parse"
        /\ parsed' = parsed + 1 /\ parsed < Len(filesList)
    BY <1>3 DEF parseDocInfo
  <2>2. PICK f : f = filesList[parsed + 1]
    OBVIOUS
  <2>3. docResults' = IF f.opens /\ HasTitle(readFile(f.bytes))
                      THEN Append(docResults, docInfo(f)) ELSE docResults
    BY <1>3, <2>2 DEF parseDocInfo
  <2>4. f \in ToSet(tree) /\ f \in Files
    <3>1. parsed + 1 \in 1..Len(filesList)
      BY <2>1
    <3>2. f \in ToSet(tree)
      BY <2>2, <3>1
    <3> QED
      BY <3>2 DEF ToSet
  <2>5. CASE docResults' = docResults
    BY <1>0, <2>1, <2>5
  <2>6. CASE HasTitle(readFile(f.bytes)) /\ docResults' = Append(docResults, docInfo(f))
    <3>1. PICK d : d = docInfo(f)
      OBVIOUS
    <3>2. d \in Docs /\ Comes(d)
      BY <2>4, <2>6, <3>1, DocType DEF Comes
    <3>3. /\ docResults' \in Seq(Docs) /\ Len(docResults') = Len(docResults) + 1
          /\ \A i \in DOMAIN docResults' : docResults'[i] = d \/
                (i \in DOMAIN docResults /\ docResults'[i] = docResults[i])
      BY <2>6, <3>1, <3>2
    <3>4. \A i \in DOMAIN docResults' : Comes(docResults'[i])
      BY <3>2, <3>3
    <3>5. written \in 0..Len(docResults')
      BY <3>3
    <3> QED
      BY <1>0, <2>1, <3>3, <3>4, <3>5
  <2> QED
    BY <2>3, <2>5, <2>6
<1>4. CASE OpenOutput
  <2>1. UNCHANGED <<tree, filesList, parsed, docResults, written, full>>
        /\ disk' = <<>> /\ ppc' = "save"
    BY <1>4 DEF OpenOutput
  <2>2. CutOf(disk', Records(docResults))
    BY <2>1, WholeRecords
  <2> QED
    BY <1>0, <2>1, <2>2
<1>5. CASE write
  <2>1. UNCHANGED <<tree, ppc, filesList, parsed, docResults>> /\ ppc = "save"
        /\ written < Len(docResults) /\ written' = written + 1
    BY <1>5 DEF write
  <2>2. written + 1 \in 0..Len(docResults)
    BY <2>1
  <2>3. CutOf(disk', Records(docResults))
    <3>1. CASE disk' = disk
      BY <2>1, <3>1
    <3>2. CASE disk' \in Prefixes(Records(SubSeq(docResults, 1, written + 1)))
      BY <2>2, <3>2, FirstRecords
    <3> QED
      BY <1>5, <3>1, <3>2 DEF write
  <2> QED
    BY <1>0, <2>1, <2>2, <2>3
<1>6. CASE close
  <2>1. UNCHANGED <<tree, filesList, parsed, docResults, written>> /\ ppc = "save" /\ ppc' = "done"
    BY <1>6 DEF close
  <2>2. CutOf(disk', Records(docResults)) /\ (~full' => Len(disk') = Len(Records(docResults)))
    <3>1. CASE full /\ UNCHANGED <<disk, full>>
      BY <2>1, <3>1
    <3>2. CASE disk' = Records(docResults)
      BY <3>2, WholeRecords
    <3>3. CASE full' = TRUE /\ disk' \in Prefixes(Records(docResults))
      BY <3>3, FirstRecords, WholeRecords
    <3> QED
      BY <1>6, <3>1, <3>2, <3>3 DEF close
  <2> QED
    BY <1>0, <2>1, <2>2
<1>7. CASE UNCHANGED parserVars
  BY <1>0, <1>7 DEF parserVars
<1> QED
  BY <1>1, <1>2, <1>3, <1>4, <1>5, <1>6, <1>7 DEF ParserNext

-----------------------------------------------------------------------------
(* Every document's text is what its file has outside the tags, whatever   *)
(* the file holds (parser.cc:147-174).                                     *)
THEOREM ParserContents == ParserSpec => []ContentIsTextOutsideTags
<1>1. ParserInv => ContentIsTextOutsideTags
  <2> SUFFICES ASSUME ParserInv, NEW i \in DOMAIN docResults
               PROVE  \E f \in ToSet(tree) :
                         /\ docResults[i].url = <<f.url>>
                         /\ docResults[i].content = TextOutsideTags(readFile(f.bytes))
    BY DEF ContentIsTextOutsideTags
  <2>1. PICK f \in ToSet(tree) : HasTitle(readFile(f.bytes)) /\ docResults[i] = docInfo(f)
    BY DEF ParserInv, Comes
  <2>2. f \in Files
    BY DEF ParserInv, ToSet
  <2> QED
    BY <2>1, <2>2, DocType
<1> QED
  BY <1>1, ParserStarts, ParserStep, PTL DEF ParserSpec

(* A title without a tag in it is a part of what is outside the tags.      *)
LEMMA TitleKept ==
    ASSUME NEW text \in Seq(Letters), HasTitle(text),
           NEW t, t = parseTitle(text), ToSet(t) \cap (Tags \cup {"<"}) = {},
           NEW c, c = TextOutsideTags(text)
    PROVE  \E b \in 0..(Len(c) - Len(t)) : SubSeq(c, b + 1, b + Len(t)) = t
<1>1. PICK x, y \in 1..Len(text) :
              /\ x < y
              /\ text[x] = "<title>" /\ text[y] = "</title>"
              /\ t = SubSeq(text, x + 1, y - 1)
              /\ t \in Seq(Letters)
  BY TitlePlace
<1>2. PICK n \in Nat, l \in Nat : n = Len(text) /\ l = Len(t)
  <2>1. \A s \in Seq(Letters) : Len(s) \in Nat
    OBVIOUS
  <2> QED
    BY <1>1, <2>1, Zenon
<1>3. l = y - x - 1 /\ x + l < n + 1 /\ x + l <= n /\ \A i \in 1..l : t[i] = text[x + i]
  BY <1>1, <1>2
<1>4. PICK p : p = {i \in DOMAIN text : Outside(text, i)}
  OBVIOUS
<1>5. c = Keep(text, p)
  BY <1>4 DEF TextOutsideTags
<1>6. \A i \in 1..l : x + i \in p
  <2> SUFFICES ASSUME NEW i \in 1..l PROVE Outside(text, x + i)
    BY <1>2, <1>3, <1>4
  <2>1. \A k \in 1..l : text[x + k] \notin Tags \cup {"<"}
    <3>1. \A k \in 1..l : t[k] \in ToSet(t)
      <4>1. DOMAIN t = 1..l
        <5>1. \A s \in Seq(Letters) : DOMAIN s = 1..Len(s)
          OBVIOUS
        <5> QED
          BY <1>1, <1>2, <5>1, Zenon
      <4> QED
        BY <4>1, Zenon DEF ToSet
    <3> QED
      BY <1>3, <3>1
  <2>2. ASSUME NEW k \in (x + 1)..(x + i - 1) PROVE text[k] # "<"
    <3>1. PICK j : j = k - x
      OBVIOUS
    <3>2. j \in 1..l /\ x + j = k
      BY <3>1
    <3> QED
      BY <2>1, <3>2
  <2>3. x \in 1..(x + i - 1) /\ text[x] \in Tags \cup {">"}
    BY <1>1 DEF Tags
  <2> QED
    BY <2>1, <2>2, <2>3 DEF Outside
<1>7. \A i \in 1..Len(text) : i \in p => text[i] \in Letters
  OBVIOUS
<1>8. PICK P : /\ Joins(P, Kept(text, p), Letters) /\ Keep(text, p) = P[n]
               /\ Len(Kept(text, p)) = n /\ Kept(text, p) \in Pieces(Letters)
  BY <1>2, <1>7, KeepJoins
<1>9. PICK e : e = End(P, x)
  OBVIOUS
<1> DEFINE Good(i) == /\ End(P, x + i) = e + i
                      /\ \A j \in 1..i : P[x + i][e + j] = t[j]
           S == {i \in 0..l : Good(i)}
<1>10. e \in Nat
  BY <1>1, <1>2, <1>8, <1>9, JoinsPrefix
<1>11. 0 \in S
  BY <1>9, <1>10
<1>12. ASSUME NEW m \in 0..l - 1, m \in S PROVE m + 1 \in S
  <2>1. PICK i, k, h : i = m + 1 /\ k = x + i /\ h = x + m
    OBVIOUS
  <2>2. i \in 1..l /\ k \in 1..Len(text) /\ h = k - 1 /\ i \in 0..l
    BY <1>2, <1>3, <2>1, SMTT(30)
  <2>3. k \in p
    BY <1>6, <2>1, <2>2
  <2>4. P[h] \in Seq(Letters) /\ P[k] = Append(P[h], text[k]) /\ End(P, k) = End(P, h) + 1
    BY <1>2, <1>7, <1>8, <2>2, <2>3, KeepStep
  <2>5. text[k] = t[i]
    BY <1>3, <2>1, <2>2
  <2>6. End(P, h) = e + m /\ \A j \in 1..m : P[h][e + j] = t[j]
    BY <1>12, <2>1
  <2>7. PICK z, w : z = P[h] /\ w = P[k]
    OBVIOUS
  <2>8. z \in Seq(Letters) /\ w = Append(z, t[i]) /\ Len(z) = e + m
    BY <2>4, <2>5, <2>6, <2>7 DEF End
  <2>9. t[i] \in Letters
    BY <1>1, <1>2, <2>2
  <2>10. /\ \A j \in 1..e + m : w[j] = z[j]
         /\ w[e + m + 1] = t[i]
    BY <2>8, <2>9, AppendProperties
  <2>11. \A j \in 1..i : w[e + j] = t[j]
    <3> SUFFICES ASSUME NEW j \in 1..i PROVE w[e + j] = t[j]
      OBVIOUS
    <3>1. CASE j = i
      <4>1. e + j = e + m + 1
        BY <1>10, <2>1, <3>1
      <4> QED
        BY <2>10, <3>1, <4>1
    <3>2. CASE j # i
      <4>1. j \in 1..m /\ e + j \in 1..e + m
        BY <1>10, <2>1, <3>2
      <4> QED
        BY <2>6, <2>7, <2>10, <4>1
    <3> QED
      BY <3>1, <3>2
  <2>12. End(P, k) = e + i
    BY <1>10, <2>1, <2>4, <2>6
  <2> QED
    BY <2>1, <2>2, <2>7, <2>11, <2>12
<1>13. Good(l)
  <2>1. \A i \in 0..l : i \in S
    <3> HIDE DEF S
    <3> QED
      BY <1>11, <1>12, InductionUpTo
  <2>2. l \in 0..l
    OBVIOUS
  <2> QED
    BY <2>1, <2>2
<1>14. PICK g : g = x + l
  OBVIOUS
<1>15. /\ End(P, g) = e + l /\ g \in 0..n
       /\ \A j \in 1..l : P[g][e + j] = t[j]
  BY <1>2, <1>3, <1>13, <1>14
<1>16. /\ End(P, n) \in Nat /\ End(P, g) <= End(P, n)
       /\ \A j \in 1..End(P, g) : P[n][j] = P[g][j]
  <2>1. n \in 0..n /\ g <= n
    BY <1>15
  <2> QED
    BY <1>8, <1>15, <2>1, JoinsPrefix
<1>17. c = P[n] /\ c \in Seq(Letters)
  <2>1. P[n] \in Seq(Letters)
    BY <1>2, <1>8 DEF Joins
  <2> QED
    BY <1>5, <1>8, <2>1
<1>18. PICK lc \in Nat : lc = Len(c) /\ e + l <= lc
  BY <1>15, <1>16, <1>17 DEF End
<1>19. \A j \in 1..l : c[e + j] = t[j]
  <2> SUFFICES ASSUME NEW j \in 1..l PROVE c[e + j] = t[j]
    OBVIOUS
  <2>1. e + j \in 1..End(P, g)
    BY <1>10, <1>15
  <2> QED
    BY <1>15, <1>16, <1>17, <2>1
<1>20. e \in 0..lc - l
  BY <1>10, <1>18
<1>21. SubSeq(c, e + 1, e + l) = t
  <2>1. PICK q : q = SubSeq(c, e + 1, e + l)
    OBVIOUS
  <2>2. q \in Seq(Letters) /\ Len(q) = l /\ \A j \in 1..l : q[j] = c[e + j]
    BY <1>10, <1>17, <1>18, <2>1
  <2>3. q = t
    BY <1>1, <1>2, <1>19, <2>2, SeqEqual
  <2> QED
    BY <2>1, <2>3
<1> QED
  BY <1>2, <1>18, <1>20, <1>21

(* A title without a tag in it is a part of its document's text, so that   *)
(* a search that found its words finds them in the text as well            *)
(* (searcher.hpp:152).                                                     *)
THEOREM ParserTitles == ParserSpec => []TitleIsInContent
<1>1. ParserInv => TitleIsInContent
  <2> SUFFICES ASSUME ParserInv, NEW i \in DOMAIN docResults, NEW d, d = docResults[i],
                      ToSet(d.title) \cap (Tags \cup {"<"}) = {}
               PROVE  \E b \in 0..(Len(d.content) - Len(d.title)) :
                         SubSeq(d.content, b + 1, b + Len(d.title)) = d.title
    BY DEF TitleIsInContent
  <2>1. PICK f \in ToSet(tree) : HasTitle(readFile(f.bytes)) /\ d = docInfo(f)
    BY DEF ParserInv, Comes
  <2>2. f \in Files /\ f.bytes \in Seq(Chars)
    <3>1. f \in Files
      BY DEF ParserInv, ToSet
    <3> QED
      BY <3>1 DEF Files
  <2>3. PICK text, t, c : text = readFile(f.bytes) /\ t = d.title /\ c = d.content
    OBVIOUS
  <2>4. /\ text \in Seq(Letters) /\ HasTitle(text)
        /\ t = parseTitle(text) /\ c = TextOutsideTags(text)
    BY <2>1, <2>2, <2>3, DocType, ReadFileType
  <2>5. \E b \in 0..(Len(c) - Len(t)) : SubSeq(c, b + 1, b + Len(t)) = t
    <3>1. ToSet(t) \cap (Tags \cup {"<"}) = {}
      BY <2>3
    <3> QED
      BY <2>4, <3>1, TitleKept, Zenon
  <2> QED
    BY <2>3, <2>5
<1> QED
  BY <1>1, ParserStarts, ParserStep, PTL DEF ParserSpec

(* What getline and split make of the line of a plain document.            *)
LEMMA LineFields ==
    ASSUME ParserInv, CutOf(disk, Records(docResults)),
           NEW i \in DOMAIN docResults, i \in 1..Len(Lines(disk)),
           Lines(disk)[i] = Body(docResults[i]), Plain(docResults[i])
    PROVE  fileResults(disk)[i] = Fields(docResults[i])
<1>1. DOMAIN Lines(disk) = 1..Len(Lines(disk))
  BY CutLines DEF ParserInv
<1>2. fileResults(disk)[i] = split(Lines(disk)[i])
  BY <1>1 DEF fileResults
<1>3. docResults[i] \in Docs
  BY DEF ParserInv
<1> QED
  BY <1>2, <1>3, SplitPlain

(* A raw file that was written to its end gives back the documents, all of *)
(* them and in order; the fields of those whose text is plain come out as  *)
(* they went in (parser.cc:258-270, index.hpp:139-176).                    *)
THEOREM ParserRoundTrip == ParserSpec => []RawRoundTrip
<1>1. ParserInv => RawRoundTrip
  <2> SUFFICES ASSUME ParserInv, ppc = "done", ~full
               PROVE  /\ Len(fileResults(disk)) = Len(docResults)
                      /\ \A i \in DOMAIN docResults :
                           Plain(docResults[i]) => fileResults(disk)[i] = Fields(docResults[i])
    BY DEF RawRoundTrip
  <2>1. CutOf(disk, Records(docResults)) /\ Len(disk) = Len(Records(docResults))
        /\ docResults \in Seq(Docs)
    BY DEF ParserInv
  <2>2. /\ DOMAIN Lines(disk) = 1..Len(Lines(disk))
        /\ Len(Lines(disk)) = Len(docResults)
        /\ \A i \in 1..Len(docResults) : Lines(disk)[i] = Body(docResults[i])
    BY <2>1, CutLines
  <2>3. DOMAIN docResults = 1..Len(docResults) /\ Len(docResults) \in Nat
    BY <2>1
  <2>4. Len(fileResults(disk)) = Len(docResults)
    BY <2>2, <2>3 DEF fileResults
  <2>5. ASSUME NEW i \in DOMAIN docResults, Plain(docResults[i])
        PROVE  fileResults(disk)[i] = Fields(docResults[i])
    BY <2>1, <2>2, <2>3, <2>5, LineFields
  <2> QED
    BY <2>4, <2>5
<1> QED
  BY <1>1, ParserStarts, ParserStep, PTL DEF ParserSpec

(* Wherever the writing stops, at a kill, at a full disk or at any byte    *)
(* that the stream has passed on, a reader finds the first documents and   *)
(* nothing else, but for the last line (parser.cc:258-275).                *)
THEOREM ParserCutRaw == ParserSpec => []CutRawIsPrefix
<1>1. ParserInv => CutRawIsPrefix
  <2> SUFFICES ASSUME ParserInv, ppc \in {"save", "done"}
               PROVE  /\ Len(Lines(disk)) <= Len(docResults)
                      /\ \A i \in 1..(Len(Lines(disk)) - 1) :
                           Plain(docResults[i]) => fileResults(disk)[i] = Fields(docResults[i])
    BY DEF CutRawIsPrefix
  <2>1. CutOf(disk, Records(docResults)) /\ docResults \in Seq(Docs)
    BY DEF ParserInv
  <2>2. /\ Len(Lines(disk)) \in 0..Len(docResults)
        /\ \A i \in 1..Len(Lines(disk)) - 1 : Lines(disk)[i] = Body(docResults[i])
    BY <2>1, CutLines
  <2>3. DOMAIN docResults = 1..Len(docResults) /\ Len(docResults) \in Nat
    BY <2>1
  <2>4. ASSUME NEW i \in 1..(Len(Lines(disk)) - 1), Plain(docResults[i])
        PROVE  fileResults(disk)[i] = Fields(docResults[i])
    <3>1. i \in 1..Len(Lines(disk)) /\ i \in DOMAIN docResults
      BY <2>2, <2>3
    <3> QED
      BY <2>1, <2>2, <2>4, <3>1, LineFields
  <2> QED
    BY <2>2, <2>3, <2>4
<1> QED
  BY <1>1, ParserStarts, ParserStep, PTL DEF ParserSpec

-----------------------------------------------------------------------------
(* One replacement of BuildHtml in a text of pieces: "&" and the name is   *)
(* replaced, "&" and another name and any character but "&" are kept.      *)
Replaced(enc, out, name, c, S) ==
    \A k \in 1..Len(enc) :
        \/ \E x \in S : x # "&" /\ enc[k] = <<x>> /\ out[k] = <<x>>
        \/ \E y \in S : y # "&" /\ y # name /\ enc[k] = <<"&", y>> /\ out[k] = <<"&", y>>
        \/ enc[k] = <<"&", name>> /\ out[k] = <<c>>

(* The replacement takes the text apart at the boundaries of its pieces.   *)
LEMMA ReplacePass ==
    ASSUME NEW S, NEW enc \in Pieces(S), NEW out \in Pieces(S), Len(out) = Len(enc),
           NEW name \in S, NEW c \in S, Replaced(enc, out, name, c, S)
    PROVE  ReplaceEscape(FlattenSeq(enc), name, c) = FlattenSeq(out)
<1> DEFINE t == FlattenSeq(enc)
           n == Len(t)
           At(i) == i < n /\ t[i] = "&" /\ t[i + 1] = name
           piece == [i \in 1..n |-> IF At(i) THEN <<c>> ELSE <<t[i]>>]
           next == [i \in 1..n |-> IF At(i) THEN i + 2 ELSE i + 1]
           F == CHOOSE f : f = [i \in 1..n + 1 |->
                    CASE i > n -> <<>>
                      [] i < n /\ t[i] = "&" /\ t[i + 1] = name -> <<c>> \o f[i + 2]
                      [] OTHER -> <<t[i]>> \o f[i + 1]]
<1>1. t \in Seq(S)
  BY FlattenType
<1> HIDE DEF t
<1>2. n \in Nat /\ \A i \in 1..n : t[i] \in S
  BY <1>1
<1> HIDE DEF n
<1>3. /\ \A i \in 1..n : next[i] \in i + 1..n + 1
      /\ \A i \in 1..n : piece[i] \in Seq(S)
  <2>1. ASSUME NEW i \in 1..n PROVE next[i] \in i + 1..n + 1
    BY <1>2
  <2>2. ASSUME NEW i \in 1..n PROVE piece[i] \in Seq(S)
    <3>1. <<c>> \in Seq(S) /\ <<t[i]>> \in Seq(S)
      BY <1>2
    <3>2. piece[i] = <<c>> \/ piece[i] = <<t[i]>>
      OBVIOUS
    <3> HIDE DEF piece
    <3> QED
      BY <3>1, <3>2
  <2> QED
    BY <2>1, <2>2
<1>4. PICK f : IsScan(f, n, piece, next)
  <2> HIDE DEF piece, next
  <2> QED
    BY <1>2, <1>3, ScanExists
<1>5. ASSUME NEW i \in 1..n + 1
      PROVE  f[i] = CASE i > n -> <<>>
                      [] i < n /\ t[i] = "&" /\ t[i + 1] = name -> <<c>> \o f[i + 2]
                      [] OTHER -> <<t[i]>> \o f[i + 1]
  <2>1. CASE i > n
    <3> HIDE DEF piece, next
    <3> QED
      BY <1>2, <1>4, <2>1 DEF IsScan
  <2>2. CASE ~(i > n) /\ At(i)
    <3>1. f[i] = piece[i] \o f[next[i]] /\ i \in 1..n
      <4>1. i \in 1..n
        BY <1>2, <2>2
      <4> HIDE DEF piece, next
      <4> QED
        BY <1>4, <4>1, Zenon DEF IsScan
    <3>2. piece[i] = <<c>> /\ next[i] = i + 2
      BY <2>2, <3>1
    <3> HIDE DEF piece, next
    <3> QED
      BY <2>2, <3>1, <3>2
  <2>3. CASE ~(i > n) /\ ~At(i)
    <3>1. f[i] = piece[i] \o f[next[i]] /\ i \in 1..n
      <4>1. i \in 1..n
        BY <1>2, <2>3
      <4> HIDE DEF piece, next
      <4> QED
        BY <1>4, <4>1, Zenon DEF IsScan
    <3>2. piece[i] = <<t[i]>> /\ next[i] = i + 1
      BY <2>3, <3>1
    <3> HIDE DEF piece, next
    <3> QED
      BY <2>3, <3>1, <3>2
  <2> QED
    BY <2>1, <2>2, <2>3
<1>6. f = [i \in 1..n + 1 |->
             CASE i > n -> <<>>
               [] i < n /\ t[i] = "&" /\ t[i + 1] = name -> <<c>> \o f[i + 2]
               [] OTHER -> <<t[i]>> \o f[i + 1]]
  <2>1. f = [i \in 1..n + 1 |-> f[i]]
    BY <1>4, Zenon DEF IsScan
  <2> QED
    BY <1>5, <2>1
<1>7. F = [i \in 1..n + 1 |->
             CASE i > n -> <<>>
               [] i < n /\ t[i] = "&" /\ t[i + 1] = name -> <<c>> \o F[i + 2]
               [] OTHER -> <<t[i]>> \o F[i + 1]]
  BY <1>6, Zenon
<1>8. ReplaceEscape(t, name, c) = F[1]
  BY Zenon DEF ReplaceEscape, n
<1> HIDE DEF F
<1>9. /\ F[n + 1] = <<>>
      /\ \A i \in 1..n : At(i) => F[i] = <<c>> \o F[i + 2]
      /\ \A i \in 1..n : ~At(i) => F[i] = <<t[i]>> \o F[i + 1]
  <2>1. n + 1 \in 1..n + 1 /\ n + 1 > n /\ \A i \in 1..n : i \in 1..n + 1 /\ ~(i > n)
    BY <1>2
  <2>2. F[n + 1] = <<>>
    <3>1. F[n + 1] =
             CASE n + 1 > n -> <<>>
               [] n + 1 < n /\ t[n + 1] = "&" /\ t[(n + 1) + 1] = name -> <<c>> \o F[(n + 1) + 2]
               [] OTHER -> <<t[n + 1]>> \o F[(n + 1) + 1]
      BY <1>7, <2>1, Zenon
    <3>2. ~(n + 1 < n)
      BY <1>2
    <3> QED
      BY <2>1, <3>1, <3>2, Zenon
  <2>3. ASSUME NEW i \in 1..n, At(i) PROVE F[i] = <<c>> \o F[i + 2]
    BY <1>7, <2>1, <2>3
  <2>4. ASSUME NEW i \in 1..n, ~At(i) PROVE F[i] = <<t[i]>> \o F[i + 1]
    BY <1>7, <2>1, <2>4
  <2> QED
    BY <2>2, <2>3, <2>4
<1>10. IsScan(F, n, piece, next)
  <2>1. F = [i \in 1..n + 1 |-> F[i]]
    BY <1>7, Zenon
  <2>2. ASSUME NEW i \in 1..n PROVE F[i] = piece[i] \o F[next[i]]
    BY <1>9
  <2> HIDE DEF piece, next
  <2> QED
    BY <1>9, <2>1, <2>2 DEF IsScan
<1>11. \A i \in 1..n + 1 : F[i] \in Seq(S)
  <2> HIDE DEF piece, next
  <2> QED
    BY <1>2, <1>3, <1>10, ScanType
<1>12. PICK P : Joins(P, enc, S)
  BY JoinsExists
<1>13. End(P, Len(enc)) = n
  BY <1>12, FlattenJoins DEF End, t, n
<1>14. ASSUME NEW k \in 1..Len(enc), NEW h \in 0..Len(enc), h = k - 1
       PROVE  F[End(P, h) + 1] = out[k] \o F[End(P, k) + 1]
  <2>1. PICK q, e : q = enc[k] /\ e = End(P, h)
    OBVIOUS
  <2>2. e \in Nat /\ End(P, k) = e + Len(q)
    BY <1>12, <1>14, <2>1, JoinsLen
  <2>3. \A j \in 1..Len(q) : e + j \in 1..n /\ t[e + j] = q[j]
    <3>1. \A j \in 1..Len(q) :
             /\ End(P, h) + j \in 1..Len(FlattenSeq(enc))
             /\ FlattenSeq(enc)[End(P, h) + j] = q[j]
      BY <1>12, <1>14, <2>1, FlattenAt
    <3> QED
      BY <2>1, <3>1 DEF t, n
  <2>4. CASE \E x \in S : x # "&" /\ enc[k] = <<x>> /\ out[k] = <<x>>
    <3>1. PICK x \in S : x # "&" /\ q = <<x>> /\ out[k] = <<x>>
      BY <2>1, <2>4
    <3>2. Len(q) = 1 /\ q[1] = x /\ 1 \in 1..Len(q)
      BY <3>1
    <3>3. e + 1 \in 1..n /\ t[e + 1] = x
      BY <2>3, <3>2
    <3>4. F[e + 1] = <<x>> \o F[(e + 1) + 1]
      BY <1>9, <3>1, <3>3
    <3> QED
      BY <2>1, <2>2, <3>1, <3>2, <3>4
  <2>5. CASE \E y \in S : y # "&" /\ y # name /\ enc[k] = <<"&", y>> /\ out[k] = <<"&", y>>
    <3>1. PICK y \in S : y # "&" /\ y # name /\ q = <<"&", y>> /\ out[k] = <<"&", y>>
      BY <2>1, <2>5
    <3>2. Len(q) = 2 /\ q[1] = "&" /\ q[2] = y /\ 1 \in 1..Len(q) /\ 2 \in 1..Len(q)
      BY <3>1
    <3>3. e + 1 \in 1..n /\ t[e + 1] = "&" /\ e + 2 \in 1..n /\ t[e + 2] = y
      BY <2>3, <3>2
    <3>4. (e + 1) + 1 = e + 2 /\ (e + 2) + 1 = e + 3 /\ e + 3 \in 1..n + 1
      BY <1>2, <2>2, <3>3
    <3>5. F[e + 1] = <<"&">> \o F[e + 2]
      BY <1>9, <3>1, <3>3, <3>4
    <3>6. F[e + 2] = <<y>> \o F[e + 3]
      BY <1>9, <3>1, <3>3, <3>4
    <3>7. F[e + 3] \in Seq(S)
      BY <1>11, <3>4
    <3>8. PICK g : g = F[e + 3]
      OBVIOUS
    <3>9. <<"&">> \o (<<y>> \o g) = <<"&", y>> \o g
      BY <3>7, <3>8
    <3> QED
      BY <2>1, <2>2, <3>1, <3>2, <3>4, <3>5, <3>6, <3>8, <3>9
  <2>6. CASE enc[k] = <<"&", name>> /\ out[k] = <<c>>
    <3>1. q = <<"&", name>> /\ out[k] = <<c>>
      BY <2>1, <2>6
    <3>2. Len(q) = 2 /\ q[1] = "&" /\ q[2] = name /\ 1 \in 1..Len(q) /\ 2 \in 1..Len(q)
      BY <3>1
    <3>3. e + 1 \in 1..n /\ t[e + 1] = "&" /\ e + 2 \in 1..n /\ t[e + 2] = name
      BY <2>3, <3>2
    <3>4. (e + 1) + 1 = e + 2 /\ (e + 1) + 2 = e + 3 /\ (e + 2) + 1 = e + 3 /\ e + 1 < n
      BY <1>2, <2>2, <3>3
    <3>5. F[e + 1] = <<c>> \o F[e + 3]
      BY <1>9, <3>3, <3>4
    <3> QED
      BY <2>1, <2>2, <3>1, <3>2, <3>4, <3>5
  <2> QED
    BY <2>4, <2>5, <2>6 DEF Replaced
<1>15. F[1] = FlattenSeq(out)
  <2>1. MakesEach(F, enc, out, P, S)
    BY <1>9, <1>11, <1>13, <1>14 DEF MakesEach
  <2> QED
    BY <1>12, <2>1, ScanJoins
<1> QED
  BY <1>8, <1>15 DEF t

(* A title that has been escaped in a document reads as it did before.     *)
LEMMA TitleReads ==
    ASSUME NEW X, NEW t \in Seq(X)
    PROVE  Unescape(Escape(t)) = t
<1> DEFINE n == Len(t)
           enc == [i \in DOMAIN t |-> CASE t[i] = "&" -> <<"&", "amp;">>
                                        [] t[i] = "<" -> <<"&", "lt;">>
                                        [] OTHER -> <<t[i]>>]
           mid == [i \in DOMAIN t |-> IF t[i] = "&" THEN <<"&", "amp;">> ELSE <<t[i]>>]
           one == [i \in DOMAIN t |-> <<t[i]>>]
<1>1. n \in Nat /\ DOMAIN t = 1..n /\ \A i \in 1..n : t[i] \in X
  OBVIOUS
<1>2. PICK S : S = X \cup {"&", "amp;", "lt;", "gt;", "<", ">"}
  OBVIOUS
<1>3. /\ "&" \in S /\ "amp;" \in S /\ "lt;" \in S /\ "gt;" \in S /\ "<" \in S /\ ">" \in S
      /\ \A i \in 1..n : t[i] \in S
  BY <1>1, <1>2
<1>4. \A x, y \in S : <<x>> \in Seq(S) /\ <<x, y>> \in Seq(S)
  OBVIOUS
<1>5. enc \in Pieces(S) /\ Len(enc) = n
  <2>1. ASSUME NEW i \in 1..n PROVE enc[i] \in Seq(S)
    <3>1. enc[i] = <<"&", "amp;">> \/ enc[i] = <<"&", "lt;">> \/ enc[i] = <<t[i]>>
      BY <1>1
    <3> HIDE DEF enc
    <3> QED
      BY <1>3, <1>4, <3>1, Zenon
  <2>2. enc = [i \in 1..n |-> enc[i]]
    BY <1>1
  <2> HIDE DEF enc
  <2>3. enc \in [1..n -> Seq(S)]
    BY <2>1, <2>2
  <2> QED
    BY <1>1, <2>3 DEF Pieces
<1>6. mid \in Pieces(S) /\ Len(mid) = n
  <2>1. ASSUME NEW i \in 1..n PROVE mid[i] \in Seq(S)
    <3>1. mid[i] = <<"&", "amp;">> \/ mid[i] = <<t[i]>>
      BY <1>1
    <3> HIDE DEF mid
    <3> QED
      BY <1>3, <1>4, <3>1, Zenon
  <2>2. mid = [i \in 1..n |-> mid[i]]
    BY <1>1
  <2> HIDE DEF mid
  <2>3. mid \in [1..n -> Seq(S)]
    BY <2>1, <2>2
  <2> QED
    BY <1>1, <2>3 DEF Pieces
<1>7. one \in Pieces(S) /\ Len(one) = n
  <2>1. ASSUME NEW i \in 1..n PROVE one[i] \in Seq(S)
    <3>1. one[i] = <<t[i]>>
      BY <1>1
    <3> HIDE DEF one
    <3> QED
      BY <1>3, <1>4, <3>1, Zenon
  <2>2. one = [i \in 1..n |-> one[i]]
    BY <1>1
  <2> HIDE DEF one
  <2>3. one \in [1..n -> Seq(S)]
    BY <2>1, <2>2
  <2> QED
    BY <1>1, <2>3 DEF Pieces
<1>8. \A i \in 1..n :
        /\ enc[i] = IF t[i] = "&" THEN <<"&", "amp;">>
                    ELSE IF t[i] = "<" THEN <<"&", "lt;">> ELSE <<t[i]>>
        /\ mid[i] = IF t[i] = "&" THEN <<"&", "amp;">> ELSE <<t[i]>>
        /\ one[i] = <<t[i]>>
  BY <1>1
<1>9. Escape(t) = FlattenSeq(enc)
  BY DEF Escape
<1>10. FlattenSeq(one) = t
  BY FlattenSingles
<1> HIDE DEF enc, mid, one
<1>11. Replaced(enc, mid, "lt;", "<", S)
  BY <1>3, <1>5, <1>8 DEF Replaced
<1>12. Replaced(mid, mid, "gt;", ">", S)
  BY <1>3, <1>6, <1>8 DEF Replaced
<1>13. Replaced(mid, one, "amp;", "&", S)
  BY <1>3, <1>6, <1>8 DEF Replaced
<1>14. ReplaceEscape(FlattenSeq(enc), "lt;", "<") = FlattenSeq(mid)
  <2>1. Len(mid) = Len(enc)
    BY <1>5, <1>6
  <2> QED
    BY <1>3, <1>5, <1>6, <1>11, <2>1, ReplacePass, ZenonT(40)
<1>15. ReplaceEscape(FlattenSeq(mid), "gt;", ">") = FlattenSeq(mid)
  BY <1>3, <1>6, <1>12, ReplacePass
<1>16. ReplaceEscape(FlattenSeq(mid), "amp;", "&") = FlattenSeq(one)
  <2>1. Len(one) = Len(mid)
    BY <1>6, <1>7
  <2> QED
    BY <1>3, <1>6, <1>7, <1>13, <2>1, ReplacePass, ZenonT(40)
<1> QED
  BY <1>9, <1>10, <1>14, <1>15, <1>16, Zenon DEF Unescape

-----------------------------------------------------------------------------
(* A byte written in hexadecimal is read back.                             *)
LEMMA HexIsRead ==
    ASSUME NEW n \in 0..15
    PROVE  Hex(n) \in HexDigits /\ HexValue(Hex(n)) = n
<1>1. CASE n < 10
  <2>1. Hex(n) = 48 + n /\ 48 + n \in 48..57
    BY <1>1 DEF Hex
  <2>2. HexValue(48 + n) = (48 + n) - 48
    BY <2>1 DEF HexValue
  <2> QED
    BY <2>1, <2>2 DEF HexDigits
<1>2. CASE ~(n < 10)
  <2>1. Hex(n) = 55 + n /\ 55 + n \in 65..70 /\ 55 + n \notin 48..57
    BY <1>2 DEF Hex
  <2>2. HexValue(55 + n) = (55 + n) - 55
    BY <2>1 DEF HexValue
  <2> QED
    BY <2>1, <2>2 DEF HexDigits
<1> QED
  BY <1>1, <1>2

(* What the browser writes for a byte it does not drop: the byte, or "%"   *)
(* and two digits which decode_url makes the byte of.                      *)
LEMMA EncodedIs ==
    ASSUME NEW b \in 0..255, b \notin Breaks
    PROVE  \/ Encoded(b) = <<b>> /\ b > Space
           \/ \E c, d \in HexDigits : Encoded(b) = <<Percent, c, d>> /\ FromHex(c, d) = b
<1>1. CASE b \in Escaped
  <2>1. b \div 16 \in 0..15 /\ b % 16 \in 0..15 /\ 16 * (b \div 16) + (b % 16) = b
    OBVIOUS
  <2>2. PICK m \in 0..15, n \in 0..15 : m = b \div 16 /\ n = b % 16 /\ 16 * m + n = b
    BY <2>1
  <2>3. Encoded(b) = <<Percent, Hex(m), Hex(n)>>
    BY <1>1, <2>2 DEF Encoded
  <2>4. /\ Hex(m) \in HexDigits /\ HexValue(Hex(m)) = m
        /\ Hex(n) \in HexDigits /\ HexValue(Hex(n)) = n
    BY HexIsRead
  <2>5. FromHex(Hex(m), Hex(n)) = b
    BY <2>2, <2>4 DEF FromHex
  <2> QED
    BY <2>3, <2>4, <2>5
<1>2. CASE b \notin Escaped
  <2>1. Encoded(b) = <<b>>
    BY <1>2 DEF Encoded
  <2>2. b \notin 0..Space
    BY <1>2 DEF Escaped
  <2>3. b > Space
    BY <2>2 DEF Space
  <2> QED
    BY <2>1, <2>3
<1> QED
  BY <1>1, <1>2

(* enc is what the browser writes for the bytes of a query, and line all   *)
(* of it; P tells where each byte's part of the line ends.                 *)
Written(query, enc, line, P, S) ==
    /\ enc \in Pieces(S)
    /\ Joins(P, enc, S)
    /\ line = FlattenSeq(enc)
    /\ Len(enc) = Len(query)
    /\ \A i \in 1..Len(enc) : enc[i] = Encoded(query[i])
    /\ \A i \in 1..Len(enc) : query[i] \in 0..255 /\ query[i] \notin Breaks

(* Where the escapes of a written query lie in the line.                   *)
LEMMA WrittenType ==
    ASSUME NEW S, NEW query, NEW enc, NEW line, NEW P, Written(query, enc, line, P, S)
    PROVE  /\ Len(query) \in Nat
           /\ line \in Seq(S)
           /\ Len(line) \in Nat
           /\ End(P, 0) = 0
           /\ End(P, Len(query)) = Len(line)
           /\ \A k \in 0..Len(query) : End(P, k) \in Nat /\ End(P, k) <= Len(line)
<1>1. enc \in Pieces(S) /\ Joins(P, enc, S) /\ line = FlattenSeq(enc) /\ Len(enc) = Len(query)
  BY DEF Written
<1>2. Len(query) \in Nat /\ Len(query) \in 0..Len(query)
  BY <1>1, PiecesType
<1>3. line \in Seq(S) /\ Len(line) \in Nat
  BY <1>1, FlattenType
<1>4. End(P, Len(query)) = Len(line)
  BY <1>1, FlattenJoins DEF End
<1>5. ASSUME NEW k \in 0..Len(query) PROVE End(P, k) \in Nat /\ End(P, k) <= Len(line)
  <2>1. k <= Len(query) /\ k \in 0..Len(enc) /\ Len(enc) \in 0..Len(enc)
    BY <1>1, <1>2
  <2> QED
    BY <1>1, <1>4, <2>1, JoinsPrefix
<1>6. End(P, 0) = 0
  <2>1. P[0] = <<>>
    BY <1>1 DEF Joins
  <2> QED
    BY <2>1 DEF End
<1> QED
  BY <1>2, <1>3, <1>4, <1>5, <1>6

(* The part of the line that is written for character l.                   *)
LEMMA WrittenAt ==
    ASSUME NEW S, NEW query, NEW enc, NEW line, NEW P, Written(query, enc, line, P, S),
           NEW k \in 0..Len(query), NEW l \in 1..Len(query), l = k + 1, NEW q, q = Encoded(query[l])
    PROVE  /\ End(P, l) = End(P, k) + Len(q)
           /\ \A j \in 1..Len(q) : End(P, k) + j \in 1..Len(line) /\ line[End(P, k) + j] = q[j]
<1>1. enc \in Pieces(S) /\ Joins(P, enc, S) /\ line = FlattenSeq(enc) /\ Len(enc) = Len(query)
  BY DEF Written
<1>2. q = enc[l] /\ l \in 1..Len(enc) /\ k \in 0..Len(enc)
  BY <1>1 DEF Written
<1>3. k = l - 1
  OBVIOUS
<1>4. End(P, l) = End(P, k) + Len(q)
  BY <1>1, <1>2, <1>3, JoinsLen
<1>5. \A j \in 1..Len(q) :
         /\ End(P, k) + j \in 1..Len(FlattenSeq(enc))
         /\ FlattenSeq(enc)[End(P, k) + j] = q[j]
  BY <1>1, <1>2, <1>3, FlattenAt
<1> QED
  BY <1>1, <1>4, <1>5

(* A character of the line other than "%", right behind the part that is   *)
(* written for k characters, is the next character of the query.           *)
LEMMA NextChar ==
    ASSUME NEW S, NEW query, NEW enc, NEW line, NEW P, Written(query, enc, line, P, S),
           NEW k \in 0..Len(query), NEW e, e = End(P, k), e < Len(line), line[e + 1] # Percent
    PROVE  /\ k + 1 \in 1..Len(query)
           /\ query[k + 1] = line[e + 1]
           /\ End(P, k + 1) = e + 1
<1>1. /\ Len(query) \in Nat
      /\ e \in Nat
      /\ Len(line) \in Nat
      /\ End(P, Len(query)) = Len(line)
  BY WrittenType
<1>2. k # Len(query)
  BY <1>1
<1>3. k + 1 \in 1..Len(query)
  BY <1>1, <1>2
<1>4. PICK l \in 1..Len(query) : l = k + 1
  BY <1>3
<1>5. PICK c, q : c = query[l] /\ q = Encoded(c)
  OBVIOUS
<1>6. /\ End(P, l) = e + Len(q)
      /\ \A j \in 1..Len(q) : e + j \in 1..Len(line) /\ line[e + j] = q[j]
  BY <1>4, <1>5, WrittenAt
<1>7. q = <<c>> \/ \E x, y : q = <<Percent, x, y>>
  <2>1. c \in 0..255 /\ c \notin Breaks
    BY <1>4, <1>5 DEF Written
  <2> QED
    BY <1>5, <2>1, EncodedIs
<1>8. q = <<c>>
  <2>1. ASSUME q[1] = Percent, 1 \in 1..Len(q) PROVE FALSE
    BY <1>6, <2>1
  <2> QED
    BY <1>7, <2>1
<1>9. Len(q) = 1 /\ q[1] = c /\ 1 \in 1..Len(q)
  BY <1>8
<1>10. line[e + 1] = c
  BY <1>6, <1>9
<1> QED
  BY <1>3, <1>4, <1>5, <1>6, <1>9, <1>10

(* What reads as a character in hexadecimal in the line does in the query, *)
(* if the browser has written its first character as it was typed.         *)
LEMMA ShortenedInQuery ==
    ASSUME NEW S, NEW query, NEW enc, NEW line, NEW P, Written(query, enc, line, P, S),
           NEW k \in 0..Len(query), NEW l \in 1..Len(query), l = k + 1,
           NEW e, e = End(P, k), End(P, l) = e + 1, query[l] = Percent,
           Shortened(line, e + 1)
    PROVE  Shortened(query, l)
<1> DEFINE IsDigit(c) == c \in HexDigits
<1>1. Len(query) \in Nat /\ e \in Nat /\ Len(line) \in Nat
  BY WrittenType
<1>2. /\ e + 1 < Len(line)
      /\ \/ line[(e + 1) + 1] = LowerU /\ IsHex(line, (e + 1) + 2, 4)
         \/ line[(e + 1) + 1] # LowerU /\ IsHex(line, (e + 1) + 1, 2)
  BY DEF Shortened
<1>3. \A c : IsDigit(c) => c # Percent /\ c # LowerU
  BY DEF HexDigits, Percent, LowerU
<1>4. CASE line[(e + 1) + 1] = LowerU /\ IsHex(line, (e + 1) + 2, 4)
  <2>1. /\ e + 6 <= Len(line)
        /\ line[e + 2] = LowerU
        /\ IsDigit(line[e + 3]) /\ IsDigit(line[e + 4]) /\ IsDigit(line[e + 5]) /\ IsDigit(line[e + 6])
    <3>1. /\ (e + 1) + 1 = e + 2
          /\ (e + 1) + 2 + 4 - 1 = e + 6
          /\ e + 3 \in (e + 1) + 2..(e + 1) + 2 + 4 - 1
          /\ e + 4 \in (e + 1) + 2..(e + 1) + 2 + 4 - 1
          /\ e + 5 \in (e + 1) + 2..(e + 1) + 2 + 4 - 1
          /\ e + 6 \in (e + 1) + 2..(e + 1) + 2 + 4 - 1
      BY <1>1, SMTT(30)
    <3> QED
      BY <1>4, <3>1, Zenon DEF IsHex
  <2>2. l \in 0..Len(query) /\ e + 1 < Len(line) /\ line[(e + 1) + 1] # Percent
    BY <1>1, <1>2, <1>4 DEF LowerU, Percent
  <2>3. l + 1 \in 1..Len(query) /\ query[l + 1] = LowerU /\ End(P, l + 1) = e + 2
    <3>1. l + 1 \in 1..Len(query) /\ query[l + 1] = line[(e + 1) + 1] /\ End(P, l + 1) = (e + 1) + 1
      BY <2>2, NextChar
    <3> QED
      BY <1>1, <2>1, <3>1
  <2>4. l + 2 \in 1..Len(query) /\ query[l + 2] = line[e + 3] /\ End(P, l + 2) = e + 3
    <3>1. PICK m \in 0..Len(query) : m = l + 1
      BY <1>1, <2>3
    <3>2. e + 2 < Len(line) /\ (e + 2) + 1 = e + 3 /\ line[(e + 2) + 1] # Percent
      BY <1>1, <1>3, <2>1, SMTT(30)
    <3>3. m + 1 \in 1..Len(query) /\ query[m + 1] = line[(e + 2) + 1] /\ End(P, m + 1) = (e + 2) + 1
      BY <2>3, <3>1, <3>2, NextChar
    <3>4. m + 1 = l + 2
      BY <3>1
    <3> QED
      BY <3>2, <3>3, <3>4
  <2>5. l + 3 \in 1..Len(query) /\ query[l + 3] = line[e + 4] /\ End(P, l + 3) = e + 4
    <3>1. PICK m \in 0..Len(query) : m = l + 2
      BY <1>1, <2>4
    <3>2. e + 3 < Len(line) /\ (e + 3) + 1 = e + 4 /\ line[(e + 3) + 1] # Percent
      BY <1>1, <1>3, <2>1, SMTT(30)
    <3>3. m + 1 \in 1..Len(query) /\ query[m + 1] = line[(e + 3) + 1] /\ End(P, m + 1) = (e + 3) + 1
      BY <2>4, <3>1, <3>2, NextChar
    <3>4. m + 1 = l + 3
      BY <3>1
    <3> QED
      BY <3>2, <3>3, <3>4
  <2>6. l + 4 \in 1..Len(query) /\ query[l + 4] = line[e + 5] /\ End(P, l + 4) = e + 5
    <3>1. PICK m \in 0..Len(query) : m = l + 3
      BY <1>1, <2>5
    <3>2. e + 4 < Len(line) /\ (e + 4) + 1 = e + 5 /\ line[(e + 4) + 1] # Percent
      BY <1>1, <1>3, <2>1, SMTT(30)
    <3>3. m + 1 \in 1..Len(query) /\ query[m + 1] = line[(e + 4) + 1] /\ End(P, m + 1) = (e + 4) + 1
      BY <2>5, <3>1, <3>2, NextChar
    <3>4. m + 1 = l + 4
      BY <3>1
    <3> QED
      BY <3>2, <3>3, <3>4
  <2>7. l + 5 \in 1..Len(query) /\ query[l + 5] = line[e + 6]
    <3>1. PICK m \in 0..Len(query) : m = l + 4
      BY <1>1, <2>6
    <3>2. e + 5 < Len(line) /\ (e + 5) + 1 = e + 6 /\ line[(e + 5) + 1] # Percent
      BY <1>1, <1>3, <2>1, SMTT(30)
    <3>3. m + 1 \in 1..Len(query) /\ query[m + 1] = line[(e + 5) + 1]
      BY <2>6, <3>1, <3>2, NextChar
    <3>4. m + 1 = l + 5
      BY <3>1
    <3> QED
      BY <3>2, <3>3, <3>4
  <2>8. /\ l + 2 + 4 - 1 <= Len(query)
        /\ \A i \in l + 2..l + 2 + 4 - 1 : i = l + 2 \/ i = l + 3 \/ i = l + 4 \/ i = l + 5
    BY <1>1, <2>7
  <2>9. IsHex(query, l + 2, 4)
    BY <2>1, <2>4, <2>5, <2>6, <2>7, <2>8 DEF IsHex
  <2>10. l < Len(query)
    BY <1>1, <2>7
  <2> QED
    BY <2>3, <2>9, <2>10 DEF Shortened
<1>5. CASE line[(e + 1) + 1] # LowerU /\ IsHex(line, (e + 1) + 1, 2)
  <2>1. /\ e + 3 <= Len(line)
        /\ line[e + 2] # LowerU
        /\ IsDigit(line[e + 2]) /\ IsDigit(line[e + 3])
    BY <1>1, <1>5 DEF IsHex
  <2>2. l \in 0..Len(query) /\ (e + 1) + 1 = e + 2 /\ line[(e + 1) + 1] # Percent
    BY <1>1, <1>3, <2>1
  <2>3. l + 1 \in 1..Len(query) /\ query[l + 1] = line[e + 2] /\ End(P, l + 1) = e + 2
    <3>1. l + 1 \in 1..Len(query) /\ query[l + 1] = line[(e + 1) + 1] /\ End(P, l + 1) = (e + 1) + 1
      BY <1>2, <2>2, NextChar
    <3> QED
      BY <2>2, <3>1
  <2>4. l + 2 \in 1..Len(query) /\ query[l + 2] = line[e + 3]
    <3>1. PICK m \in 0..Len(query) : m = l + 1
      BY <1>1, <2>3
    <3>2. e + 2 < Len(line) /\ (e + 2) + 1 = e + 3 /\ line[(e + 2) + 1] # Percent
      BY <1>1, <1>3, <2>1
    <3>3. m + 1 \in 1..Len(query) /\ query[m + 1] = line[(e + 2) + 1]
      BY <2>3, <3>1, <3>2, NextChar
    <3>4. m + 1 = l + 2
      BY <3>1
    <3> QED
      BY <3>2, <3>3, <3>4
  <2>5. /\ l + 1 + 2 - 1 <= Len(query)
        /\ \A i \in l + 1..l + 1 + 2 - 1 : i = l + 1 \/ i = l + 2
    BY <1>1, <2>4
  <2>6. IsHex(query, l + 1, 2)
    BY <2>1, <2>3, <2>4, <2>5 DEF IsHex
  <2>7. l < Len(query)
    BY <1>1, <2>4
  <2> QED
    BY <2>1, <2>3, <2>6, <2>7 DEF Shortened
<1> QED
  BY <1>2, <1>4, <1>5

(* Digits make numbers, and to_utf8 bytes.                                 *)
LEMMA FromHexType ==
    ASSUME NEW c \in HexDigits, NEW d \in HexDigits
    PROVE  FromHex(c, d) \in Nat
<1>1. ASSUME NEW x \in HexDigits PROVE HexValue(x) \in Nat
  <2>1. x \in 48..57 \/ x \in 65..70 \/ x \in 97..102
    BY DEF HexDigits
  <2>2. CASE x \in 48..57
    BY <2>2 DEF HexValue
  <2>3. CASE x \in 65..70
    <3>1. x \notin 48..57
      BY <2>3
    <3> QED
      BY <2>3, <3>1 DEF HexValue
  <2>4. CASE x \in 97..102
    <3>1. x \notin 48..57 /\ x \notin 65..70
      BY <2>4
    <3> QED
      BY <2>4, <3>1 DEF HexValue
  <2> QED
    BY <2>1, <2>2, <2>3, <2>4
<1> QED
  BY <1>1 DEF FromHex

(* It writes one, two or three integers, or none.                          *)
LEMMA Utf8Type ==
    ASSUME NEW c \in Nat
    PROVE  to_utf8(c) \in Seq(Int)
BY DEF to_utf8

(* Decoding the line gives back a query that reaches the search verbatim.  *)
LEMMA DecodeLine ==
    ASSUME NEW query \in Seq(Int), Verbatim(query),
           NEW enc, NEW line, NEW P, Written(query, enc, line, P, Int)
    PROVE  decode_url(line) = query
<1> DEFINE n == Len(line)
           u(i) == line[i + 1] = LowerU
           utf8(i) == to_utf8(256 * FromHex(line[i + 2], line[i + 3])
                                + FromHex(line[i + 4], line[i + 5]))
           byte(i) == FromHex(line[i + 1], line[i + 2])
           plain(i) == IF line[i] = Plus THEN Space ELSE line[i]
           piece == [i \in 1..n |->
                       IF Shortened(line, i) THEN IF u(i) THEN utf8(i) ELSE <<byte(i)>>
                       ELSE <<plain(i)>>]
           next == [i \in 1..n |->
                      IF Shortened(line, i) THEN IF u(i) THEN i + 6 ELSE i + 3 ELSE i + 1]
           F == CHOOSE f : f = [i \in 1..n + 1 |->
                    CASE i > n -> <<>>
                      [] Shortened(line, i) /\ u(i) -> utf8(i) \o f[i + 6]
                      [] Shortened(line, i) /\ ~u(i) -> <<byte(i)>> \o f[i + 3]
                      [] OTHER -> <<plain(i)>> \o f[i + 1]]
<1>1. line \in Seq(Int) /\ n \in Nat /\ \A i \in 1..n : line[i] \in Int
  BY WrittenType
<1>2. ASSUME NEW i \in 1..n, Shortened(line, i)
      PROVE  IF u(i) THEN i + 6 <= n + 1 ELSE i + 3 <= n + 1
  BY <1>1, <1>2 DEF Shortened, IsHex
<1>3. decode_url(line) = F[1]
  BY Zenon DEF decode_url
<1> HIDE DEF n
<1>4. ASSUME NEW i \in 1..n PROVE next[i] \in i + 1..n + 1
  BY <1>1, <1>2
<1>5. ASSUME NEW i \in 1..n PROVE piece[i] \in Seq(Int)
  <2>1. \A x \in Int : <<x>> \in Seq(Int)
    OBVIOUS
  <2>2. CASE Shortened(line, i) /\ u(i)
    <3>1. line[i + 2] \in HexDigits /\ line[i + 3] \in HexDigits
          /\ line[i + 4] \in HexDigits /\ line[i + 5] \in HexDigits
      BY <1>1, <2>2 DEF Shortened, IsHex
    <3>2. PICK x \in Nat, y \in Nat :
            /\ x = FromHex(line[i + 2], line[i + 3]) /\ y = FromHex(line[i + 4], line[i + 5])
      BY <3>1, FromHexType
    <3>3. 256 * x + y \in Nat
      OBVIOUS
    <3>4. utf8(i) \in Seq(Int)
      BY <3>2, <3>3, Utf8Type
    <3>5. piece[i] = utf8(i)
      BY <2>2
    <3> QED
      BY <3>4, <3>5
  <2>3. CASE Shortened(line, i) /\ ~u(i)
    <3>1. line[i + 1] \in HexDigits /\ line[i + 2] \in HexDigits
      BY <1>1, <2>3 DEF Shortened, IsHex
    <3>2. byte(i) \in Int
      BY <3>1, FromHexType
    <3>3. piece[i] = <<byte(i)>>
      BY <2>3
    <3> QED
      BY <2>1, <3>2, <3>3
  <2>4. CASE ~Shortened(line, i)
    <3>1. plain(i) \in Int
      BY <1>1 DEF Space
    <3>2. piece[i] = <<plain(i)>>
      BY <2>4
    <3> QED
      BY <2>1, <3>1, <3>2
  <2> QED
    BY <2>2, <2>3, <2>4
<1>6. PICK f : IsScan(f, n, piece, next)
  <2> HIDE DEF piece, next
  <2> QED
    BY <1>1, <1>4, ScanExists
<1>7. ASSUME NEW i \in 1..n + 1
      PROVE  f[i] = CASE i > n -> <<>>
                      [] Shortened(line, i) /\ u(i) -> utf8(i) \o f[i + 6]
                      [] Shortened(line, i) /\ ~u(i) -> <<byte(i)>> \o f[i + 3]
                      [] OTHER -> <<plain(i)>> \o f[i + 1]
  <2>1. CASE i > n
    <3>1. i = n + 1 /\ ~Shortened(line, i)
      BY <1>1, <2>1 DEF Shortened, n
    <3>2. f[i] = <<>>
      BY <1>6, <3>1, Zenon DEF IsScan
    <3> QED
      BY <2>1, <3>1, <3>2, Zenon
  <2>2. CASE i <= n
    <3>1. i \in 1..n /\ ~(i > n)
      BY <1>1, <2>2
    <3>2. f[i] = piece[i] \o f[next[i]]
      <4> HIDE DEF piece, next
      <4> QED
        BY <1>6, <3>1, Zenon DEF IsScan
    <3>3. CASE Shortened(line, i) /\ u(i)
      <4>1. piece[i] = utf8(i) /\ next[i] = i + 6
        BY <3>1, <3>3
      <4> HIDE DEF piece, next, utf8, byte, plain, u
      <4> QED
        BY <2>2, <3>1, <3>2, <3>3, <4>1, Zenon
    <3>4. CASE Shortened(line, i) /\ ~u(i)
      <4>1. piece[i] = <<byte(i)>> /\ next[i] = i + 3
        BY <3>1, <3>4
      <4> HIDE DEF piece, next, utf8, byte, plain, u
      <4> QED
        BY <2>2, <3>1, <3>2, <3>4, <4>1, Zenon
    <3>5. CASE ~Shortened(line, i)
      <4>1. piece[i] = <<plain(i)>> /\ next[i] = i + 1
        BY <3>1, <3>5
      <4> HIDE DEF piece, next, utf8, byte, plain, u
      <4> QED
        BY <2>2, <3>1, <3>2, <3>5, <4>1, Zenon
    <3> QED
      BY <3>3, <3>4, <3>5, Zenon
  <2>3. i > n \/ i <= n
    BY <1>1
  <2> QED
    BY <2>1, <2>2, <2>3, Zenon
<1>8. f = [i \in 1..n + 1 |->
             CASE i > n -> <<>>
               [] Shortened(line, i) /\ u(i) -> utf8(i) \o f[i + 6]
               [] Shortened(line, i) /\ ~u(i) -> <<byte(i)>> \o f[i + 3]
               [] OTHER -> <<plain(i)>> \o f[i + 1]]
  <2>1. f = [i \in 1..n + 1 |-> f[i]]
    BY <1>6, Zenon DEF IsScan
  <2> QED
    BY <1>7, <2>1, Zenon
<1>9. F = [i \in 1..n + 1 |->
             CASE i > n -> <<>>
               [] Shortened(line, i) /\ u(i) -> utf8(i) \o F[i + 6]
               [] Shortened(line, i) /\ ~u(i) -> <<byte(i)>> \o F[i + 3]
               [] OTHER -> <<plain(i)>> \o F[i + 1]]
  BY <1>8, Zenon
<1> HIDE DEF F
<1>10. F[n + 1] = <<>>
  <2>1. n + 1 \in 1..n + 1 /\ n + 1 > n /\ ~Shortened(line, n + 1)
    BY <1>1 DEF Shortened, n
  <2> QED
    BY <1>9, <2>1, Zenon
<1>11. ASSUME NEW i \in 1..n
       PROVE  /\ Shortened(line, i) /\ u(i) => F[i] = utf8(i) \o F[i + 6]
              /\ Shortened(line, i) /\ ~u(i) => F[i] = <<byte(i)>> \o F[i + 3]
              /\ ~Shortened(line, i) => F[i] = <<plain(i)>> \o F[i + 1]
  <2>1. i \in 1..n + 1 /\ i <= n /\ ~(i > n)
    BY <1>1
  <2> HIDE DEF utf8, byte, plain, u
  <2> QED
    BY <1>9, <2>1, Zenon
<1>12. IsScan(F, n, piece, next)
  <2>1. F = [i \in 1..n + 1 |-> F[i]]
    BY <1>9, Zenon
  <2>2. ASSUME NEW i \in 1..n PROVE F[i] = piece[i] \o F[next[i]]
    <3> HIDE DEF utf8, byte, plain, u
    <3> QED
      BY <1>11
  <2> HIDE DEF piece, next
  <2> QED
    BY <1>10, <2>1, <2>2 DEF IsScan
<1>13. \A i \in 1..n + 1 : F[i] \in Seq(Int)
  <2> HIDE DEF piece, next
  <2> QED
    BY <1>1, <1>4, <1>5, <1>12, ScanType
<1> HIDE DEF piece, next
<1> DEFINE one == [i \in DOMAIN query |-> <<query[i]>>]
<1>14. /\ Len(query) \in Nat /\ DOMAIN query = 1..Len(query)
       /\ \A i \in 1..Len(query) : query[i] \in Int
  OBVIOUS
<1>15. /\ one \in Pieces(Int)
       /\ Len(one) = Len(query)
       /\ \A i \in 1..Len(query) : one[i] = <<query[i]>>
  <2>1. \A i \in 1..Len(query) : <<query[i]>> \in Seq(Int)
    BY <1>14
  <2> QED
    BY <1>14, <2>1 DEF Pieces
<1>16. FlattenSeq(one) = query
  BY FlattenSingles
<1> HIDE DEF one
<1>17. /\ enc \in Pieces(Int)
       /\ Joins(P, enc, Int)
       /\ Len(enc) = Len(query)
  BY DEF Written
<1>18. ASSUME NEW l \in 1..Len(query), NEW k \in 0..Len(query), k = l - 1
       PROVE  F[End(P, k) + 1] = <<query[l]>> \o F[End(P, l) + 1]
  <2>1. PICK e, b, q : e = End(P, k) /\ b = query[l] /\ q = Encoded(b)
    OBVIOUS
  <2>2. l = k + 1 /\ e \in Nat
    BY <1>18, <2>1, WrittenType
  <2>3. /\ End(P, l) = e + Len(q)
        /\ \A j \in 1..Len(q) : e + j \in 1..n /\ line[e + j] = q[j]
    BY <2>1, <2>2, WrittenAt DEF n
  <2>4. b # Plus /\ ~Shortened(query, l)
    BY <1>14, <2>1 DEF Verbatim
  <2>5. \/ q = <<b>>
        \/ \E c, d \in HexDigits : q = <<Percent, c, d>> /\ FromHex(c, d) = b
    <3>1. b \in 0..255 /\ b \notin Breaks
      BY <1>17, <2>1 DEF Written
    <3> QED
      BY <2>1, <3>1, EncodedIs
  <2>6. CASE \E c, d \in HexDigits : q = <<Percent, c, d>> /\ FromHex(c, d) = b
    <3>1. PICK c \in HexDigits, d \in HexDigits : q = <<Percent, c, d>> /\ FromHex(c, d) = b
      BY <2>6
    <3>2. Len(q) = 3 /\ q[1] = Percent /\ q[2] = c /\ q[3] = d
      BY <3>1
    <3>3. /\ e + 1 \in 1..n /\ line[e + 1] = Percent
          /\ e + 2 \in 1..n /\ line[e + 2] = c
          /\ e + 3 \in 1..n /\ line[e + 3] = d
      BY <2>3, <3>2
    <3>4. (e + 1) + 1 = e + 2 /\ (e + 1) + 2 = e + 3 /\ (e + 1) + 3 = (e + Len(q)) + 1
      BY <2>2, <3>2
    <3>5. Shortened(line, e + 1) /\ ~u(e + 1)
      <4>1. /\ e + 1 < n /\ (e + 2) + 2 - 1 <= n
            /\ \A i \in e + 2..(e + 2) + 2 - 1 : i = e + 2 \/ i = e + 3
        BY <1>1, <2>2, <3>3
      <4>2. IsHex(line, e + 2, 2)
        BY <3>3, <4>1 DEF IsHex, n
      <4>3. c # LowerU
        BY DEF HexDigits, LowerU
      <4> QED
        BY <3>3, <3>4, <4>1, <4>2, <4>3 DEF Shortened, n
    <3>6. byte(e + 1) = b
      BY <3>1, <3>3, <3>4
    <3>7. F[e + 1] = <<b>> \o F[(e + 1) + 3]
      <4> HIDE DEF byte, u
      <4> QED
        BY <1>11, <3>3, <3>5, <3>6
    <3> QED
      BY <2>1, <2>3, <3>4, <3>7
  <2>7. CASE q = <<b>>
    <3>1. Len(q) = 1 /\ q[1] = b
      BY <2>7
    <3>2. e + 1 \in 1..n /\ line[e + 1] = b /\ End(P, l) = e + 1
      BY <2>3, <3>1
    <3>3. ~Shortened(line, e + 1)
      <4>1. SUFFICES ASSUME Shortened(line, e + 1) PROVE FALSE
        OBVIOUS
      <4>2. query[l] = Percent
        BY <2>1, <3>2, <4>1 DEF Shortened
      <4> QED
        BY <2>1, <2>2, <2>4, <3>2, <4>1, <4>2, ShortenedInQuery
    <3>4. plain(e + 1) = b
      BY <2>4, <3>2
    <3>5. F[e + 1] = <<b>> \o F[(e + 1) + 1]
      <4> HIDE DEF plain
      <4> QED
        BY <1>11, <3>2, <3>3, <3>4
    <3> QED
      BY <2>1, <3>2, <3>5
  <2> QED
    BY <2>5, <2>6, <2>7
<1>19. MakesEach(F, enc, one, P, Int)
  <2>1. End(P, Len(enc)) = n
    BY <1>17, WrittenType DEF n
  <2> QED
    BY <1>10, <1>13, <1>15, <1>17, <1>18, <2>1 DEF MakesEach
<1>20. F[1] = FlattenSeq(one)
  BY <1>15, <1>17, <1>19, ScanJoins
<1> QED
  BY <1>3, <1>16, <1>20

(* A text without the separators is one piece.                             *)
LEMMA BeforeNone ==
    ASSUME NEW s, NEW c, \A i \in DOMAIN s : s[i] # c
    PROVE  Before(s, c) = s
  BY DEF Before

(* A text without the sign is its own last piece.                          *)
LEMMA LastPieceWhole ==
    ASSUME NEW S, NEW s \in Seq(S), \A i \in 1..Len(s) : s[i] # EqualsSign
    PROVE  LastPiece(s) = s
<1> DEFINE ends == {i \in DOMAIN s : s[i] # EqualsSign /\ (i = Len(s) \/ s[i + 1] = EqualsSign)}
           last == CHOOSE i \in ends : \A k \in ends : k <= i
           first == CHOOSE i \in 1..last :
                       (i = 1 \/ s[i - 1] = EqualsSign) /\ \A k \in i..last : s[k] # EqualsSign
<1>1. Len(s) \in Nat /\ DOMAIN s = 1..Len(s)
  OBVIOUS
<1>2. LastPiece(s) = IF ends = {} THEN <<>> ELSE SubSeq(s, first, last)
  BY Zenon DEF LastPiece
<1>3. CASE Len(s) = 0
  <2>1. ends = {} /\ s = <<>>
    BY <1>1, <1>3
  <2> QED
    BY <1>2, <2>1, Zenon
<1>4. CASE Len(s) # 0
  <2>1. Len(s) \in 1..Len(s)
    BY <1>1, <1>4
  <2>2. \A i \in 1..Len(s) : i + 1 \in 1..Len(s) \/ i = Len(s)
    <3>1. \A m \in Nat : \A i \in 1..m : i + 1 \in 1..m \/ i = m
      OBVIOUS
    <3> QED
      BY <1>1, <3>1, Zenon
  <2>3. \A i \in 1..Len(s) : i \in ends <=> i = Len(s)
    BY <1>1, <2>1, <2>2
  <2>4. ends = {Len(s)}
    BY <1>1, <2>1, <2>3
  <2>5. last = Len(s)
    <3> HIDE DEF ends
    <3>1. \A i \in ends : i = Len(s)
      BY <2>4
    <3>2. Len(s) \in ends /\ \A k \in ends : k <= Len(s)
      BY <1>1, <2>4
    <3>3. last \in ends
      BY <3>2, Zenon
    <3> QED
      BY <3>1, <3>3, Zenon
  <2> HIDE DEF last
  <2>6. first = 1
    <3>1. 1 \in 1..last /\ (1 = 1 \/ s[1 - 1] = EqualsSign) /\ \A k \in 1..last : s[k] # EqualsSign
      BY <1>1, <2>1, <2>5
    <3>2. first \in 1..last /\ (first = 1 \/ s[first - 1] = EqualsSign)
      BY <3>1, Zenon
    <3> HIDE DEF first
    <3>3. first # 1 => first - 1 \in 1..Len(s)
      BY <1>1, <2>5, <3>2
    <3> QED
      BY <3>2, <3>3
  <2> HIDE DEF first, ends
  <2>7. LastPiece(s) = SubSeq(s, 1, Len(s))
    BY <1>2, <2>4, <2>5, <2>6
  <2> QED
    BY <2>7, SubSeqFull
<1> QED
  BY <1>3, <1>4

(* What does not end in a space is not trimmed.                            *)
LEMMA TrimNothing ==
    ASSUME NEW s \in Seq(Int), s # <<>> => s[Len(s)] > Space
    PROVE  Trimmed(s) = s
<1> DEFINE kept == {i \in DOMAIN s : s[i] > Space} \cup {0}
<1>1. Len(s) \in Nat /\ DOMAIN s = 1..Len(s)
  OBVIOUS
<1>2. Len(s) \in kept
  BY <1>1
<1>3. \A i \in kept : i \in Int /\ i <= Len(s)
  BY <1>1
<1>4. Max(kept) = Len(s)
  <2> HIDE DEF kept
  <2>1. \E x \in kept : \A y \in kept : x >= y
    BY <1>1, <1>2, <1>3
  <2>2. Max(kept) \in kept /\ \A y \in kept : Max(kept) >= y
    BY <2>1, Zenon DEF Max
  <2> QED
    BY <1>1, <1>2, <1>3, <2>2
<1> HIDE DEF kept
<1>5. Trimmed(s) = SubSeq(s, 1, Len(s))
  BY <1>4 DEF Trimmed, kept
<1> QED
  BY <1>5, SubSeqFull

(* The word the search is given is the query, if it reaches it verbatim.   *)
LEMMA WordIsQuery ==
    ASSUME NEW query \in Seq(0..255), Verbatim(query)
    PROVE  Word(query) = query
<1> DEFINE n == Len(query)
           enc == [i \in DOMAIN query |-> Encoded(query[i])]
           line == FlattenSeq(enc)
           S == Int \ {Ampersand, EqualsSign}
<1>0. \A T : \A s \in Seq(T) :
        Len(s) \in Nat /\ DOMAIN s = 1..Len(s) /\ \A i \in 1..Len(s) : s[i] \in T
  OBVIOUS
<1>1. n \in Nat /\ DOMAIN query = 1..n /\ \A i \in 1..n : query[i] \in 0..255
  BY <1>0, Zenon
<1>2. query \in Seq(Int)
  <2>1. 0..255 \subseteq Int
    OBVIOUS
  <2>2. \A T, U : T \subseteq U => Seq(T) \subseteq Seq(U)
    OBVIOUS
  <2> QED
    BY <2>1, <2>2, Zenon
<1>3. \A i \in 1..n : query[i] \notin Breaks /\ query[i] \in S
  <2>1. \A i \in 1..n : query[i] \notin {Hash, Ampersand, EqualsSign, Plus} \cup Breaks
    BY <1>1, Zenon DEF Verbatim
  <2>2. \A b \in 0..255 : b \in Int
    OBVIOUS
  <2> QED
    BY <1>1, <2>1, <2>2, Zenon
<1>4. Before(query, Hash) = query
  <2>1. \A i \in DOMAIN query : query[i] # Hash
    BY DEF Verbatim
  <2> QED
    BY <2>1, BeforeNone
<1>5. Trimmed(query) = query
  BY <1>2, TrimNothing DEF Verbatim
<1>6. Browser(query) = line
  BY <1>4, <1>5 DEF Browser
<1>7. ASSUME NEW i \in 1..n PROVE enc[i] = Encoded(query[i]) /\ enc[i] \in Seq(S)
  <2>1. enc[i] = Encoded(query[i])
    BY <1>1
  <2>2. \A x, y, z \in S : <<x>> \in Seq(S) /\ <<x, y, z>> \in Seq(S)
    OBVIOUS
  <2>3. Percent \in S /\ \A c \in HexDigits : c \in S
    BY DEF Percent, HexDigits, Ampersand, EqualsSign
  <2>4. query[i] \in 0..255 /\ query[i] \notin Breaks /\ query[i] \in S
    BY <1>1, <1>3
  <2> HIDE DEF enc, S
  <2>5. \/ enc[i] = <<query[i]>>
        \/ \E c, d \in HexDigits : enc[i] = <<Percent, c, d>>
    <3>1. \/ Encoded(query[i]) = <<query[i]>> /\ query[i] > Space
          \/ \E c, d \in HexDigits : /\ Encoded(query[i]) = <<Percent, c, d>>
                                     /\ FromHex(c, d) = query[i]
      BY <2>4, EncodedIs, Zenon
    <3> QED
      BY <2>1, <3>1, Zenon
  <2> QED
    BY <2>1, <2>2, <2>3, <2>4, <2>5, Zenon
<1>8. enc \in Pieces(S) /\ enc \in Pieces(Int) /\ Len(enc) = n
  <2>1. enc = [i \in 1..n |-> enc[i]]
    BY <1>1
  <2>2. Seq(S) \subseteq Seq(Int)
    OBVIOUS
  <2> HIDE DEF enc, S
  <2>3. enc \in [1..n -> Seq(S)] /\ enc \in [1..n -> Seq(Int)]
    BY <1>7, <2>1, <2>2
  <2>4. \A T : \A f \in [1..n -> T] : f \in Seq(T) /\ Len(f) = n
    <3> HIDE DEF n
    <3> QED
      BY <1>1
  <2> QED
    BY <2>3, <2>4, Zenon DEF Pieces
<1> HIDE DEF enc
<1>9. PICK P : Joins(P, enc, Int)
  BY <1>8, JoinsExists
<1>10. Written(query, enc, line, P, Int)
  BY <1>1, <1>3, <1>7, <1>8, <1>9 DEF Written
<1>11. line \in Seq(S)
  <2> HIDE DEF S
  <2> QED
    BY <1>8, FlattenType
<1> HIDE DEF line
<1>12. \A i \in 1..Len(line) : line[i] # Ampersand /\ line[i] # EqualsSign
  BY <1>11
<1>13. Before(line, Ampersand) = line
  <2>1. \A i \in DOMAIN line : line[i] # Ampersand
    BY <1>11, <1>12
  <2> QED
    BY <2>1, BeforeNone
<1>14. LastPiece(line) = line
  BY <1>11, <1>12, LastPieceWhole
<1>15. decode_url(line) = query
  BY <1>2, <1>10, DecodeLine
<1> QED
  BY <1>6, <1>13, <1>14, <1>15 DEF Word

-----------------
(* The list under the search box: nothing before the first answer, then    *)
(* one item, of an answer that has arrived.                                *)
Item(n, t) == [word |-> Word(sent[n]), text |-> t, shown |-> Unescape(Escape(t))]

ListInv ==
    /\ arrived = {} => result = <<>>
    /\ arrived # {} => \E n \in arrived, t \in Titles : result = <<Item(n, t)>>

(* With no search sent before the answer to another, an earlier answer     *)
(* cannot come any more, and the list is the last one's once it is there.  *)
LastInv ==
    alone /\ sent # <<>> =>
        /\ pending \subseteq {Len(sent)}
        /\ Len(sent) \in arrived => \E t \in Titles : result = <<Item(Len(sent), t)>>

PageInv ==
    /\ sent \in Seq(Queries)
    /\ pending \subseteq 1..Len(sent)
    /\ arrived \subseteq 1..Len(sent)
    /\ pending \cap arrived = {}
    /\ ListInv
    /\ LastInv

(* The page starts with nothing sent and nothing shown.                    *)
LEMMA PageStarts == PageInit => PageInv
<1>1. ASSUME PageInit PROVE PageInv
  <2>1. /\ sent = <<>> /\ pending = {} /\ arrived = {} /\ result = <<>>
    BY <1>1 DEF PageInit
  <2>2. <<>> \in Seq(Queries)
    BY EmptySeq
  <2> QED
    BY <2>1, <2>2 DEF PageInv, ListInv, LastInv
<1> QED
  BY <1>1

(* A search sends one more query and leaves the list as it is.             *)
LEMMA SearchKeeps ==
    ASSUME PageInv, NEW query \in Queries, Search(query)
    PROVE  PageInv'
<1> DEFINE n == Len(sent)
<1>1. /\ sent \in Seq(Queries) /\ n \in Nat
      /\ sent' = Append(sent, query)
      /\ pending' = pending \cup {n + 1}
      /\ alone' = (pending = {})
      /\ arrived' = arrived /\ result' = result
      /\ pending \subseteq 1..n /\ arrived \subseteq 1..n
      /\ pending \cap arrived = {}
  BY DEF PageInv, Search
<1>2. /\ sent' \in Seq(Queries)
      /\ Len(sent') = n + 1
      /\ \A k \in 1..n : sent'[k] = sent[k]
  BY <1>1
<1>3. /\ pending' \subseteq 1..Len(sent')
      /\ arrived' \subseteq 1..Len(sent')
      /\ pending' \cap arrived' = {}
      /\ Len(sent') \notin arrived'
  <2>1. 1..n \subseteq 1..n + 1 /\ n + 1 \in 1..n + 1 /\ n + 1 \notin 1..n
    BY <1>1
  <2> HIDE DEF n
  <2> QED
    BY <1>1, <1>2, <2>1
<1>4. ListInv'
  <2>1. \A k \in arrived, t \in Titles : Item(k, t)' = Item(k, t)
    BY <1>1, <1>2 DEF Item
  <2>2. arrived = {} => result = <<>>
    BY DEF PageInv, ListInv
  <2>3. ASSUME arrived # {} PROVE \E k \in arrived', t \in Titles : result' = <<Item(k, t)'>>
    <3>1. PICK k \in arrived, t \in Titles : result = <<Item(k, t)>>
      BY <2>3 DEF PageInv, ListInv
    <3> QED
      BY <1>1, <2>1, <3>1
  <2> QED
    BY <1>1, <2>2, <2>3 DEF ListInv
<1>5. LastInv'
  <2>1. ASSUME alone' PROVE pending' \subseteq {Len(sent')}
    BY <1>1, <1>2, <2>1
  <2> QED
    BY <1>3, <2>1 DEF LastInv
<1> QED
  BY <1>2, <1>3, <1>4, <1>5 DEF PageInv

(* An answer that arrives fills the list with its own titles.              *)
LEMMA SuccessKeeps ==
    ASSUME PageInv, NEW n, NEW t \in Titles, Success(n, t)
    PROVE  PageInv'
<1>1. /\ sent \in Seq(Queries)
      /\ n \in pending
      /\ pending' = pending \ {n}
      /\ arrived' = arrived \cup {n}
      /\ result' = <<Item(n, t)>>
      /\ sent' = sent /\ alone' = alone
      /\ pending \subseteq 1..Len(sent) /\ arrived \subseteq 1..Len(sent)
      /\ pending \cap arrived = {}
  BY DEF PageInv, Success, BuildHtml, Item
<1>2. \A k, u : Item(k, u)' = Item(k, u)
  BY <1>1 DEF Item
<1>3. ListInv'
  <2>1. n \in arrived' /\ result' = <<Item(n, t)'>>
    BY <1>1, <1>2
  <2> QED
    BY <2>1 DEF ListInv
<1>4. LastInv'
  <2>1. SUFFICES ASSUME alone', sent' # <<>>
                 PROVE  /\ pending' \subseteq {Len(sent)'}
                        /\ \E u \in Titles : result' = <<Item(Len(sent), u)'>>
    BY DEF LastInv
  <2>2. pending \subseteq {Len(sent)}
    BY <1>1, <2>1 DEF PageInv, LastInv
  <2>3. n = Len(sent) /\ Len(sent)' = Len(sent)
    BY <1>1, <2>2
  <2>4. result' = <<Item(Len(sent), t)'>>
    BY <1>1, <2>3 DEF Item
  <2> QED
    BY <1>1, <2>2, <2>3, <2>4
<1> QED
  BY <1>1, <1>3, <1>4 DEF PageInv

(* A failed search leaves the list as it is.                               *)
LEMMA ErrorKeeps ==
    ASSUME PageInv, NEW n, Error(n)
    PROVE  PageInv'
<1>1. /\ pending' = pending \ {n}
      /\ sent' = sent /\ alone' = alone /\ arrived' = arrived /\ result' = result
  BY DEF Error
<1>2. \A k, u : Item(k, u)' = Item(k, u)
  BY <1>1 DEF Item
<1>3. ListInv'
  BY <1>1, <1>2 DEF PageInv, ListInv
<1>4. LastInv'
  <2>1. Len(sent)' = Len(sent)
    BY <1>1
  <2>2. \A u : Item(Len(sent), u)' = Item(Len(sent), u)
    BY <1>1 DEF Item
  <2> QED
    BY <1>1, <2>1, <2>2 DEF PageInv, LastInv
<1> QED
  BY <1>1, <1>3, <1>4 DEF PageInv

(* Every step of the page keeps the invariant.                             *)
LEMMA PageStep == PageInv /\ [PageNext]_pageVars => PageInv'
<1> SUFFICES ASSUME PageInv, [PageNext]_pageVars PROVE PageInv'
  OBVIOUS
<1>1. ASSUME NEW query \in Queries, Search(query) PROVE PageInv'
  BY <1>1, SearchKeeps
<1>2. ASSUME NEW n \in 1..MaxSearches, NEW t \in Titles, Success(n, t) PROVE PageInv'
  BY <1>2, SuccessKeeps
<1>3. ASSUME NEW n \in 1..MaxSearches, Error(n) PROVE PageInv'
  BY <1>3, ErrorKeeps
<1>4. CASE UNCHANGED pageVars
  <2>1. \A k, u : Item(k, u)' = Item(k, u)
    BY <1>4 DEF pageVars, Item
  <2>2. \A u : Item(Len(sent), u)' = Item(Len(sent), u)
    BY <1>4 DEF pageVars, Item
  <2> QED
    BY <1>4, <2>1, <2>2 DEF PageInv, ListInv, LastInv, pageVars
<1> QED
  BY <1>1, <1>2, <1>3, <1>4 DEF PageNext

(* With no search sent before the answer to another, the list is in the    *)
(* end the answer to the last search, for the word as it was typed         *)
(* (index.html:188-242, httplib.h's decode_url and parse_query_text).      *)
THEOREM PageShowsLast == PageSpec => []ShowsLastSearch
<1>1. PageInv => ShowsLastSearch
  <2> SUFFICES ASSUME PageInv, alone, sent # <<>>, Len(sent) \in arrived, Verbatim(sent[Len(sent)])
               PROVE  Len(result) = 1 /\ result[1].word = sent[Len(sent)]
    BY DEF ShowsLastSearch
  <2>1. PICK t \in Titles : result = <<Item(Len(sent), t)>>
    BY DEF PageInv, LastInv
  <2>2. sent[Len(sent)] \in Queries
    BY DEF PageInv
  <2>3. sent[Len(sent)] \in Seq(0..255)
    BY <2>2, PageAssumption
  <2>4. Word(sent[Len(sent)]) = sent[Len(sent)]
    BY <2>3, WordIsQuery
  <2>5. Item(Len(sent), t).word = Word(sent[Len(sent)])
    BY DEF Item
  <2>6. Len(result) = 1 /\ result[1] = Item(Len(sent), t)
    BY <2>1
  <2> QED
    BY <2>4, <2>5, <2>6
<1> QED
  BY <1>1, PageStarts, PageStep, PTL DEF PageSpec

(* In whatever order answers come, the list is one of them, and its title  *)
(* reads as it does in the document (index.html:217-219).                  *)
THEOREM PageShowsOne == PageSpec => []ShowsOneAnswer
<1>1. PageInv => ShowsOneAnswer
  <2> SUFFICES ASSUME PageInv PROVE ShowsOneAnswer
    OBVIOUS
  <2>1. CASE arrived = {}
    <3>1. DOMAIN result = {}
      BY <2>1 DEF PageInv, ListInv
    <3> QED
      BY <2>1, <3>1 DEF ShowsOneAnswer
  <2>2. CASE arrived # {}
    <3>1. PICK n \in arrived, t \in Titles : result = <<Item(n, t)>>
      BY <2>2 DEF PageInv, ListInv
    <3>2. t \in Seq(STRING)
      BY PageAssumption
    <3>3. Unescape(Escape(t)) = t
      BY <3>2, TitleReads
    <3>4. Item(n, t).word = Word(sent[n]) /\ Item(n, t).text = t /\ Item(n, t).shown = t
      BY <3>3 DEF Item
    <3>5. Len(result) = 1 /\ DOMAIN result = {1} /\ result[1] = Item(n, t)
      BY <3>1
    <3> QED
      BY <3>4, <3>5 DEF ShowsOneAnswer
  <2> QED
    BY <2>1, <2>2
<1> QED
  BY <1>1, PageStarts, PageStep, PTL DEF PageSpec
=============================================================================
