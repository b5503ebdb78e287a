--------------------------- MODULE SearcherProofs ---------------------------
(***************************************************************************)
(* Proofs about Index and Searcher for every segmenter, every set of stop  *)
(* words, every raw file (malformed ones included), any number of threads  *)
(* and any queries: that the index is right and safe to share, and that    *)
(* the searches over it implement SearchService.                           *)
(***************************************************************************)
EXTENDS Searcher, SequenceLemmas, SequenceTheorems, FiniteSetTheorems,
        WellFoundedInduction, TLAPS

-----------------------------------------------------------------------------
(* What the counting loops of buildInvertedIndex compute.                  *)

(* A keyword's count in a text is a natural number, and for a keyword that *)
(* is no stop word it is the number of its occurrences (noStopHelper       *)
(* erases other tokens only).                                              *)
LEMMA CountIsOccurrences ==
    ASSUME IndexTypeOK, NEW x \in Text, NEW k \in Word
    PROVE  /\ KeywordCnt(x, k) \in Nat
           /\ Occurrences(x, k) \in Nat
           /\ k \notin stopKeywordMap => KeywordCnt(x, k) = Occurrences(x, k)
<1>1. Cut[x] \in Seq(Word)
  BY IndexAssumption
<1>2. IsFiniteSet(DOMAIN Cut[x])
  <2>1. DOMAIN Cut[x] = 1..Len(Cut[x]) /\ Len(Cut[x]) \in Nat
    BY <1>1
  <2> QED
    BY <2>1, FS_Interval
<1>3. IsFiniteSet({i \in cutStringNoStop(x) : Lower[Cut[x][i]] = k})
  BY <1>2, FS_Subset DEF cutStringNoStop
<1>4. IsFiniteSet({i \in DOMAIN Cut[x] : Lower[Cut[x][i]] = k})
  BY <1>2, FS_Subset
<1>5. ASSUME k \notin stopKeywordMap
      PROVE  {i \in cutStringNoStop(x) : Lower[Cut[x][i]] = k}
                = {i \in DOMAIN Cut[x] : Lower[Cut[x][i]] = k}
  BY <1>5 DEF cutStringNoStop
<1> QED
  BY <1>3, <1>4, <1>5, FS_CardinalityType DEF KeywordCnt, Occurrences

(* A keyword occurs in a text exactly when its count there is positive.    *)
LEMMA CountPositive ==
    ASSUME IndexTypeOK, NEW x \in Text, NEW k \in Word
    PROVE  k \in KeywordsOf(x) <=> (k \notin stopKeywordMap /\ Occurrences(x, k) > 0)
<1>1. Cut[x] \in Seq(Word)
  BY IndexAssumption
<1>2. IsFiniteSet(DOMAIN Cut[x])
  <2>1. DOMAIN Cut[x] = 1..Len(Cut[x]) /\ Len(Cut[x]) \in Nat
    BY <1>1
  <2> QED
    BY <2>1, FS_Interval
<1> DEFINE occ == {i \in DOMAIN Cut[x] : Lower[Cut[x][i]] = k}
<1>3. IsFiniteSet(occ)
  BY <1>2, FS_Subset
<1>4. Cardinality(occ) \in Nat /\ (Cardinality(occ) = 0 <=> occ = {})
  BY <1>3, FS_CardinalityType, FS_EmptySet
<1>5. k \in KeywordsOf(x) <=> (k \notin stopKeywordMap /\ occ # {})
  BY DEF KeywordsOf, cutStringNoStop
<1> QED
  BY <1>4, <1>5 DEF Occurrences

(* The keys of keywordsMap are lower-cased tokens.                         *)
LEMMA KeywordsAreWords ==
    ASSUME NEW x \in Text
    PROVE  KeywordsOf(x) \subseteq Word
<1>1. Cut[x] \in Seq(Word)
  BY IndexAssumption
<1> QED
  BY <1>1, IndexAssumption DEF KeywordsOf, cutStringNoStop

(* For a key of keywordsMap the computed weight is the relevance and is    *)
(* positive.                                                               *)
LEMMA WeightIsRelevance ==
    ASSUME IndexTypeOK, NEW doc \in DocInfo, NEW k \in Word
    PROVE  /\ Weight(doc, k) \in Nat
           /\ Relevance(doc, k) \in Nat
           /\ k \in KeywordsOf(doc.title) \cup KeywordsOf(doc.content)
                <=> Relevance(doc, k) > 0
           /\ k \in KeywordsOf(doc.title) \cup KeywordsOf(doc.content)
                => Weight(doc, k) = Relevance(doc, k)
<1>1. doc.title \in Text /\ doc.content \in Text
  BY DEF DocInfo
<1>2. /\ KeywordCnt(doc.title, k) \in Nat /\ KeywordCnt(doc.content, k) \in Nat
      /\ Occurrences(doc.title, k) \in Nat /\ Occurrences(doc.content, k) \in Nat
      /\ k \notin stopKeywordMap =>
            /\ KeywordCnt(doc.title, k) = Occurrences(doc.title, k)
            /\ KeywordCnt(doc.content, k) = Occurrences(doc.content, k)
  BY <1>1, CountIsOccurrences
<1>3. /\ k \in KeywordsOf(doc.title) <=>
            (k \notin stopKeywordMap /\ Occurrences(doc.title, k) > 0)
      /\ k \in KeywordsOf(doc.content) <=>
            (k \notin stopKeywordMap /\ Occurrences(doc.content, k) > 0)
  BY <1>1, CountPositive
<1> QED
  BY <1>2, <1>3 DEF Weight, Relevance, titleWeight, contentWeight

-----------------------------------------------------------------------------
(* The inductive invariant.  PostingsSound bounds the ids on the lists by  *)
(* count, BuildInStep ties count to the forward index, and                 *)
(* SearchAfterBuild lets a thread rely on both; IdsArePositions is what    *)
(* makes the id pushed by buildInvertedIndex the position of the document  *)
(* it describes.                                                           *)
(* The stop words are loaded before anything is indexed (StopWordsFirst),  *)
(* so weights are all computed with one stop map.                          *)
StopWordsFirst ==
    bpc = "getInstance" => DOMAIN invertedIndex = {} /\ count = 0

IInv ==
    /\ TypeOK
    /\ StopWordsFirst
    /\ BuildInStep
    /\ IdsArePositions
    /\ PostingsSound
    /\ PostingsComplete
    /\ SearchAfterBuild
    /\ NoNullDoc

(* The empty index satisfies the invariant.                                *)
LEMMA InitIInv == Init => IInv
<1> SUFFICES ASSUME Init PROVE IInv
  OBVIOUS
<1> USE DEF Init, IndexInit, SearchInit
<1>1. raw \in Seq(Seq(Text)) /\ Len(raw) \in Nat
  BY IndexAssumption
<1>2. DOMAIN invertedIndex = {} /\ Len(forwardIndex) = 0 /\ DOMAIN forwardIndex = {}
  OBVIOUS
<1>3. IndexTypeOK
  BY <1>1, <1>2 DEF IndexTypeOK
<1>4. \A t \in Threads : DOMAIN outMap[t] = {} /\ DOMAIN sorted[t] = {}
  OBVIOUS
<1>5. TypeOK
  <2>1. sorted \in [Threads -> Seq(Nat)]
    OBVIOUS
  <2>2. \A t \in Threads : outMap[t] \in [DOMAIN outMap[t] -> [weight : Nat, keywords : Seq(Word)]]
    OBVIOUS
  <2>3. \A t \in Threads : (query[t] = NoQuery) <=> (spc[t] = "idle")
    OBVIOUS
  <2> QED
    BY <1>3, <1>4, <2>1, <2>2, <2>3 DEF TypeOK
<1>6. BuildInStep /\ IdsArePositions /\ PostingsSound /\ PostingsComplete
  BY <1>2 DEF BuildInStep, IdsArePositions, PostingsSound, PostingsComplete
<1>7. SearchAfterBuild /\ NoNullDoc
  BY <1>4 DEF SearchAfterBuild, NoNullDoc
<1>8. StopWordsFirst
  BY <1>2 DEF StopWordsFirst
<1> QED
  BY <1>5, <1>6, <1>7, <1>8 DEF IInv

-----------------------------------------------------------------------------
(* The parts of the invariant that speak of the index alone.               *)
IndexIInv ==
    /\ IndexTypeOK
    /\ StopWordsFirst
    /\ BuildInStep
    /\ IdsArePositions
    /\ PostingsSound
    /\ PostingsComplete

(* The postings stay right in a step that leaves them, the indexed         *)
(* documents and the stop words alone.                                     *)
LEMMA PostingsFrame ==
    ASSUME PostingsSound, PostingsComplete, BuildInStep, IndexTypeOK,
           UNCHANGED <<stopKeywordMap, invertedIndex, count>>,
           \A d \in 1..count : forwardIndex'[d] = forwardIndex[d]
    PROVE  PostingsSound' /\ PostingsComplete'
<1>1. \A d, k : Relevance(d, k)' = Relevance(d, k)
  BY DEF Relevance, Occurrences
<1>2. \A k : getInvertedList(k)' = getInvertedList(k)
  BY DEF getInvertedList
<1>3. \A k \in DOMAIN invertedIndex : \A i \in DOMAIN invertedIndex[k] :
        /\ invertedIndex[k][i].docId + 1 \in 1..count
        /\ forwardIndex'[invertedIndex[k][i].docId + 1]
              = forwardIndex[invertedIndex[k][i].docId + 1]
  <2> SUFFICES ASSUME NEW k \in DOMAIN invertedIndex, NEW i \in DOMAIN invertedIndex[k]
               PROVE  invertedIndex[k][i].docId + 1 \in 1..count
    OBVIOUS
  <2>1. invertedIndex[k][i] \in InvertedElem /\ count \in Nat
    BY DEF IndexTypeOK
  <2>2. invertedIndex[k][i].docId < count
    BY DEF PostingsSound
  <2> QED
    BY <2>1, <2>2 DEF InvertedElem
<1>4. PostingsSound'
  BY <1>1, <1>3 DEF PostingsSound
<1>5. PostingsComplete'
  BY <1>1, <1>2 DEF PostingsComplete
<1> QED
  BY <1>4, <1>5

(* A step that leaves the index alone.                                     *)
LEMMA IndexFrame ==
    ASSUME IndexIInv, UNCHANGED indexVars
    PROVE  IndexIInv'
<1>1. IndexTypeOK' /\ BuildInStep' /\ IdsArePositions' /\ StopWordsFirst'
  BY DEF IndexIInv, indexVars, IndexTypeOK, BuildInStep, IdsArePositions, StopWordsFirst
<1>2. PostingsSound' /\ PostingsComplete'
  BY PostingsFrame DEF IndexIInv, indexVars
<1> QED
  BY <1>1, <1>2 DEF IndexIInv

(* The stop words are loaded before any document is indexed.               *)
LEMMA GetInstancesStep ==
    ASSUME IndexIInv, GetInstances
    PROVE  IndexIInv'
<1> USE DEF IndexIInv, GetInstances
<1>1. IndexTypeOK'
  BY IndexAssumption DEF IndexTypeOK
<1>2. BuildInStep' /\ IdsArePositions' /\ StopWordsFirst'
  BY DEF BuildInStep, IdsArePositions, StopWordsFirst
<1>3. PostingsSound' /\ PostingsComplete'
  BY DEF StopWordsFirst, PostingsSound, PostingsComplete
<1> QED
  BY <1>1, <1>2, <1>3

(* OpenRaw, OpenRawFails and EndOfRaw only move the main thread on.        *)
LEMMA MoveOnStep ==
    ASSUME IndexIInv, OpenRaw \/ OpenRawFails \/ EndOfRaw
    PROVE  IndexIInv'
<1> USE DEF IndexIInv, OpenRaw, OpenRawFails, EndOfRaw
<1>1. IndexTypeOK' /\ StopWordsFirst'
  BY DEF IndexTypeOK, StopWordsFirst
<1>2. BuildInStep' /\ IdsArePositions'
  BY DEF BuildInStep, IdsArePositions
<1>3. PostingsSound' /\ PostingsComplete'
  BY PostingsFrame
<1> QED
  BY <1>1, <1>2, <1>3

(* DictionaryAbort and ShortRecordCrash only end the process.              *)
LEMMA CrashStep ==
    ASSUME IndexIInv, DictionaryAbort \/ ShortRecordCrash
    PROVE  IndexIInv'
<1> USE DEF IndexIInv, DictionaryAbort, ShortRecordCrash
<1>1. IndexTypeOK' /\ StopWordsFirst'
  BY DEF IndexTypeOK, StopWordsFirst
<1>2. BuildInStep' /\ IdsArePositions'
  BY DEF BuildInStep, IdsArePositions
<1>3. PostingsSound' /\ PostingsComplete'
  BY PostingsFrame
<1> QED
  BY <1>1, <1>2, <1>3

(* The fields a document is made of are texts, out-of-range ones included. *)
LEMMA FieldType ==
    ASSUME IndexTypeOK, line < Len(raw), NEW i \in 1..3,
           NEW x \in FieldAt(raw[line + 1], i)
    PROVE  x \in Text
<1>1. raw \in Seq(Seq(Text)) /\ line + 1 \in 1..Len(raw)
  BY IndexAssumption DEF IndexTypeOK
<1>2. raw[line + 1] \in Seq(Text)
  BY <1>1
<1> QED
  BY <1>2, IndexAssumption DEF FieldAt

(* push_back gives the new document the id of its position.                *)
LEMMA BuildForwardIndexStep ==
    ASSUME IndexIInv, buildForwardIndex
    PROVE  IndexIInv'
<1> USE DEF IndexIInv
<1>1. PICK t \in FieldAt(raw[line + 1], 1), c \in FieldAt(raw[line + 1], 2),
           u \in FieldAt(raw[line + 1], 3) :
        forwardIndex' = Append(forwardIndex, NewDoc(t, c, u))
  BY DEF buildForwardIndex
<1> DEFINE doc == NewDoc(t, c, u)
<1>2. forwardIndex \in Seq(DocInfo) /\ Len(forwardIndex) \in Nat
  BY DEF IndexTypeOK
<1>3. doc \in DocInfo
  BY <1>2, FieldType DEF NewDoc, DocInfo, buildForwardIndex
<1>4. /\ forwardIndex' \in Seq(DocInfo)
      /\ Len(forwardIndex') = Len(forwardIndex) + 1
      /\ \A i \in 1..Len(forwardIndex) : forwardIndex'[i] = forwardIndex[i]
      /\ forwardIndex'[Len(forwardIndex) + 1] = doc
  BY <1>1, <1>2, <1>3
<1> HIDE DEF doc
<1>5. IndexTypeOK' /\ StopWordsFirst'
  BY <1>4, IndexAssumption DEF IndexTypeOK, StopWordsFirst, buildForwardIndex
<1>6. Len(forwardIndex) = count /\ count \in Nat
  BY DEF BuildInStep, buildForwardIndex, IndexTypeOK
<1>7. BuildInStep'
  BY <1>4, <1>6 DEF BuildInStep, buildForwardIndex
<1>8. IdsArePositions'
  <2> SUFFICES ASSUME NEW i \in 1..(Len(forwardIndex) + 1)
               PROVE  forwardIndex'[i].docId = i - 1
    BY <1>4 DEF IdsArePositions
  <2>1. CASE i \in 1..Len(forwardIndex)
    BY <1>2, <1>4, <2>1 DEF IdsArePositions
  <2>2. CASE i = Len(forwardIndex) + 1
    BY <1>2, <1>4, <2>2 DEF doc, NewDoc
  <2> QED
    BY <1>2, <2>1, <2>2
<1>9. \A d \in 1..count : forwardIndex'[d] = forwardIndex[d]
  BY <1>4, <1>6
<1>10. PostingsSound' /\ PostingsComplete'
  BY <1>9, PostingsFrame DEF buildForwardIndex
<1> QED
  BY <1>5, <1>7, <1>8, <1>10

(* One document inverted: the lists it touches get one element each.       *)
LEMMA BuildInvertedIndexStep ==
    ASSUME IndexIInv, buildInvertedIndex
    PROVE  IndexIInv'
<1> DEFINE n    == Len(forwardIndex)
           doc  == forwardIndex[n]
           keys == KeywordsOf(doc.title) \cup KeywordsOf(doc.content)
           new(k) == [docId |-> doc.docId, keyword |-> k, weight |-> Weight(doc, k)]
<1>1. /\ IndexTypeOK /\ StopWordsFirst /\ BuildInStep /\ IdsArePositions
      /\ PostingsSound /\ PostingsComplete
  BY DEF IndexIInv
<1>2. /\ n = count + 1 /\ count \in Nat /\ count' = count + 1
      /\ bpc = "inverted" /\ bpc' = "getline"
      /\ UNCHANGED <<raw, line, stopKeywordMap, forwardIndex, crashed>>
  BY <1>1 DEF buildInvertedIndex, BuildInStep, IndexTypeOK
<1>3. doc \in DocInfo /\ doc.docId = count
  <2>1. n \in 1..Len(forwardIndex) /\ forwardIndex \in Seq(DocInfo)
    BY <1>1, <1>2 DEF IndexTypeOK
  <2> QED
    BY <1>1, <1>2, <2>1 DEF IdsArePositions
<1>4. /\ DOMAIN invertedIndex' = DOMAIN invertedIndex \cup keys
      /\ \A k \in keys : invertedIndex'[k] = Append(getInvertedList(k), new(k))
      /\ \A k \in DOMAIN invertedIndex \ keys : invertedIndex'[k] = invertedIndex[k]
  BY DEF buildInvertedIndex
<1>5. keys \subseteq Word
  <2>1. doc.title \in Text /\ doc.content \in Text
    BY <1>3 DEF DocInfo
  <2>2. \A x \in Text : KeywordsOf(x) \subseteq Word
    BY KeywordsAreWords
  <2> QED
    BY <2>1, <2>2
<1>6. \A k \in Word :
        /\ Weight(doc, k) \in Nat
        /\ k \in keys <=> Relevance(doc, k) > 0
        /\ k \in keys => Weight(doc, k) = Relevance(doc, k)
  BY <1>1, <1>3, WeightIsRelevance
<1>7. \A d, k : Relevance(d, k)' = Relevance(d, k)
  BY <1>2 DEF Relevance, Occurrences
<1> HIDE DEF n, doc, keys
<1>8. \A k : getInvertedList(k) \in Seq(InvertedElem)
  BY <1>1 DEF IndexTypeOK, getInvertedList
<1>9. \A k \in keys :
        /\ new(k) \in InvertedElem
        /\ new(k).docId = count /\ new(k).keyword = k
        /\ new(k).weight = Relevance(doc, k) /\ new(k).weight > 0
  BY <1>2, <1>3, <1>5, <1>6 DEF InvertedElem
<1> HIDE DEF new
<1>10. \A k \in keys :
        /\ invertedIndex'[k] \in Seq(InvertedElem)
        /\ Len(invertedIndex'[k]) = Len(getInvertedList(k)) + 1
        /\ \A i \in 1..Len(getInvertedList(k)) : invertedIndex'[k][i] = getInvertedList(k)[i]
        /\ invertedIndex'[k][Len(getInvertedList(k)) + 1] = new(k)
  BY <1>4, <1>8, <1>9
<1>11. IndexTypeOK'
  <2>1. DOMAIN invertedIndex' \subseteq Word
    BY <1>1, <1>4, <1>5 DEF IndexTypeOK
  <2>2. \A k \in DOMAIN invertedIndex' : invertedIndex'[k] \in Seq(InvertedElem)
    BY <1>1, <1>4, <1>10 DEF IndexTypeOK
  <2>3. invertedIndex' = [k \in DOMAIN invertedIndex' |-> invertedIndex'[k]]
    BY DEF buildInvertedIndex
  <2>4. invertedIndex' \in [DOMAIN invertedIndex' -> Seq(InvertedElem)]
    BY <2>2, <2>3
  <2> QED
    BY <1>1, <1>2, <2>1, <2>4 DEF IndexTypeOK
<1>12. BuildInStep' /\ IdsArePositions' /\ StopWordsFirst'
  BY <1>1, <1>2 DEF BuildInStep, IdsArePositions, StopWordsFirst, n
<1>13. PostingsSound'
  <2> SUFFICES ASSUME NEW k \in DOMAIN invertedIndex', NEW i \in DOMAIN invertedIndex'[k]
               PROVE  LET p == invertedIndex'[k][i]
                      IN  /\ p.docId < count + 1
                          /\ p.keyword = k
                          /\ p.weight = Relevance(forwardIndex[p.docId + 1], k)
                          /\ p.weight > 0
                          /\ \A j \in 1..(i - 1) : invertedIndex'[k][j].docId < p.docId
    BY <1>2, <1>7 DEF PostingsSound
  <2>1. \A j \in DOMAIN getInvertedList(k) :
          /\ getInvertedList(k)[j] \in InvertedElem
          /\ getInvertedList(k)[j].docId \in 0..(count - 1)
          /\ getInvertedList(k)[j].keyword = k
          /\ getInvertedList(k)[j].weight
                = Relevance(forwardIndex[getInvertedList(k)[j].docId + 1], k)
          /\ getInvertedList(k)[j].weight > 0
          /\ \A m \in 1..(j - 1) : getInvertedList(k)[m].docId < getInvertedList(k)[j].docId
    <3>1. CASE k \in DOMAIN invertedIndex
      <4>1. getInvertedList(k) = invertedIndex[k]
        BY <3>1 DEF getInvertedList
      <4>2. \A j \in DOMAIN invertedIndex[k] :
              invertedIndex[k][j] \in InvertedElem /\ invertedIndex[k][j].docId < count
        BY <1>1, <3>1 DEF IndexTypeOK, PostingsSound
      <4> QED
        BY <1>1, <1>2, <3>1, <4>1, <4>2 DEF PostingsSound, InvertedElem
    <3>2. CASE k \notin DOMAIN invertedIndex
      BY <3>2 DEF getInvertedList
    <3> QED
      BY <3>1, <3>2
  <2>2. CASE k \notin keys
    BY <1>2, <1>4, <2>1, <2>2 DEF getInvertedList
  <2>3. CASE k \in keys /\ i \in 1..Len(getInvertedList(k))
    <3>1. i \in DOMAIN getInvertedList(k) /\ \A j \in 1..(i-1) : j \in 1..Len(getInvertedList(k))
      BY <1>8, <2>3
    <3>2. /\ invertedIndex'[k][i] = getInvertedList(k)[i]
          /\ \A j \in 1..(i-1) : invertedIndex'[k][j] = getInvertedList(k)[j]
      BY <1>10, <2>3, <3>1
    <3>3. getInvertedList(k)[i].docId < count + 1
      BY <1>2, <2>1, <3>1
    <3> QED
      BY <2>1, <3>1, <3>2, <3>3
  <2>4. CASE k \in keys /\ i = Len(getInvertedList(k)) + 1
    <3>1. \A j \in 1..(i-1) : j \in DOMAIN getInvertedList(k)
                            /\ invertedIndex'[k][j] = getInvertedList(k)[j]
      BY <1>8, <1>10, <2>4
    <3>2. forwardIndex[count + 1] = doc
      BY <1>2 DEF doc, n
    <3>3. \A j \in 1..(i-1) : invertedIndex'[k][j].docId < count
      BY <1>2, <2>1, <3>1
    <3> QED
      BY <1>2, <1>9, <1>10, <2>4, <3>2, <3>3
  <2> QED
    BY <1>4, <1>8, <1>10, <2>2, <2>3, <2>4
<1>14. PostingsComplete'
  <2> SUFFICES ASSUME NEW d \in 1..(count + 1), NEW k \in Word,
                      Relevance(forwardIndex[d], k) > 0
               PROVE  \E i \in DOMAIN getInvertedList(k)' :
                         getInvertedList(k)'[i].docId = d - 1
    BY <1>2, <1>7 DEF PostingsComplete
  <2>1. CASE d \in 1..count
    <3>1. PICK i \in DOMAIN getInvertedList(k) : getInvertedList(k)[i].docId = d - 1
      BY <1>1, <2>1 DEF PostingsComplete
    <3>2. k \in DOMAIN invertedIndex'
      BY <1>4, <3>1 DEF getInvertedList
    <3>3. i \in DOMAIN invertedIndex'[k] /\ invertedIndex'[k][i] = getInvertedList(k)[i]
      <4>1. CASE k \in keys
        BY <1>8, <1>10, <3>1, <4>1
      <4>2. CASE k \notin keys
        BY <1>4, <3>1, <3>2, <4>2 DEF getInvertedList
      <4> QED
        BY <4>1, <4>2
    <3> QED
      BY <3>1, <3>2, <3>3 DEF getInvertedList
  <2>2. CASE d = count + 1
    <3>1. k \in keys
      BY <1>2, <1>6, <2>2 DEF doc, n
    <3>2. getInvertedList(k)' = invertedIndex'[k]
      BY <1>4, <3>1 DEF getInvertedList
    <3>3. Len(getInvertedList(k)) + 1 \in DOMAIN invertedIndex'[k]
      BY <1>8, <1>10, <3>1
    <3> QED
      BY <1>2, <1>9, <1>10, <2>2, <3>1, <3>2, <3>3
  <2> QED
    BY <1>2, <2>1, <2>2
<1> QED
  BY <1>11, <1>12, <1>13, <1>14 DEF IndexIInv

-----------------------------------------------------------------------------
(* Every step of initSearcher preserves the invariant.                     *)
LEMMA IndexNextStep ==
    ASSUME IndexIInv, IndexNext
    PROVE  IndexIInv'
  BY GetInstancesStep, MoveOnStep, BuildForwardIndexStep, CrashStep,
     BuildInvertedIndexStep DEF IndexNext

(* A step of the build disturbs no thread: the forward index only grows.   *)
LEMMA BuildStep ==
    ASSUME IInv, IndexNext, UNCHANGED searchVars
    PROVE  IInv'
<1>1. IndexIInv'
  BY IndexNextStep DEF IInv, TypeOK, IndexIInv
<1>2. TypeOK'
  BY <1>1 DEF IInv, TypeOK, searchVars, IndexIInv
<1>3. SearchAfterBuild'
  BY DEF IInv, SearchAfterBuild, searchVars, IndexNext, GetInstances, OpenRaw,
         OpenRawFails, buildForwardIndex, DictionaryAbort, ShortRecordCrash, buildInvertedIndex, EndOfRaw
<1>4. Len(forwardIndex) \in Nat /\ Len(forwardIndex') \in Nat
      /\ Len(forwardIndex) <= Len(forwardIndex')
  <2>1. forwardIndex \in Seq(DocInfo) /\ forwardIndex' \in Seq(DocInfo)
    BY <1>1 DEF IInv, TypeOK, IndexTypeOK, IndexIInv
  <2>2. CASE buildForwardIndex
    BY <2>1, <2>2 DEF buildForwardIndex
  <2>3. CASE UNCHANGED forwardIndex
    BY <2>1, <2>3
  <2> QED
    BY <2>2, <2>3 DEF IndexNext, GetInstances, OpenRaw, OpenRawFails,
                      DictionaryAbort, ShortRecordCrash, buildInvertedIndex, EndOfRaw
<1>5. NoNullDoc'
  BY <1>4 DEF IInv, NoNullDoc, searchVars
<1> QED
  BY <1>1, <1>2, <1>3, <1>5 DEF IInv, IndexIInv

(* A search starts with an empty map.                                      *)
LEMMA StartSearchStep ==
    ASSUME IInv, NEW t \in Threads, NEW q \in Queries, StartSearch(t, q)
    PROVE  IInv'
<1>1. IndexIInv'
  BY IndexFrame DEF IInv, TypeOK, IndexIInv, StartSearch
<1>2. TypeOK'
  BY <1>1, SearcherAssumption DEF IInv, TypeOK, IndexIInv, StartSearch
<1>3. SearchAfterBuild'
  BY DEF IInv, TypeOK, SearchAfterBuild, StartSearch, indexVars
<1>4. NoNullDoc'
  BY DEF IInv, NoNullDoc, StartSearch, indexVars
<1> QED
  BY <1>1, <1>2, <1>3, <1>4 DEF IInv, IndexIInv

(* The element a thread takes from a list is a posting of an indexed       *)
(* document, and adding it keeps the map well formed.                      *)
LEMMA CollectElemStep ==
    ASSUME IInv, NEW t \in Threads, CollectElem(t)
    PROVE  IInv'
<1> DEFINE list == CurrentList(t)
           e    == list[elems[t] + 1]
           k    == QueryWord(query[t], words[t] + 1)
<1>1. IndexIInv'
  BY IndexFrame DEF IInv, TypeOK, IndexIInv, CollectElem
<1>2. bpc = "built" /\ Len(forwardIndex) = count /\ count \in Nat
  BY DEF IInv, TypeOK, IndexTypeOK, CollectElem, SearchAfterBuild, BuildInStep
<1>3. k \in DOMAIN invertedIndex /\ elems[t] + 1 \in DOMAIN invertedIndex[k]
      /\ list = invertedIndex[k]
  <2>1. elems[t] \in Nat /\ elems[t] < Len(list)
    BY DEF IInv, TypeOK, CollectElem
  <2>2. CASE k \in DOMAIN invertedIndex
    <3>1. list = invertedIndex[k] /\ invertedIndex[k] \in Seq(InvertedElem)
      BY <2>2 DEF IInv, TypeOK, IndexTypeOK, CurrentList, getInvertedList
    <3> QED
      BY <2>1, <2>2, <3>1
  <2>3. CASE k \notin DOMAIN invertedIndex
    BY <2>1, <2>3 DEF CurrentList, getInvertedList
  <2> QED
    BY <2>2, <2>3
<1>4. e \in InvertedElem /\ e.docId < count
  BY <1>3 DEF IInv, TypeOK, IndexTypeOK, PostingsSound
<1>5. /\ e.docId \in 0..(Len(forwardIndex) - 1)
      /\ e.docId \in Nat /\ e.weight \in Nat /\ e.keyword \in Word
  BY <1>2, <1>4 DEF InvertedElem
<1> HIDE DEF e, list, k
<1> DEFINE new == AddElem(outMap[t], e)
           Entry == [weight : Nat, keywords : Seq(Word)]
<1>6. /\ outMap' = [outMap EXCEPT ![t] = new]
      /\ elems' = [elems EXCEPT ![t] = elems[t] + 1]
      /\ UNCHANGED <<indexVars, query, words, sorted, spc, response>>
  BY DEF CollectElem, e, list
<1>7. /\ DOMAIN outMap[t] \subseteq Nat
      /\ outMap[t] \in [DOMAIN outMap[t] -> Entry]
      /\ DOMAIN outMap = Threads
  BY DEF IInv, TypeOK
<1>8. /\ DOMAIN new = DOMAIN outMap[t] \cup {e.docId}
      /\ new \in [DOMAIN new -> Entry]
      /\ \A d \in DOMAIN outMap[t] : d # e.docId => new[d] = outMap[t][d]
      /\ new[e.docId].keywords # <<>>
  <2>1. DOMAIN new = DOMAIN outMap[t] \cup {e.docId}
    BY DEF AddElem
  <2>2. \A d \in DOMAIN outMap[t] : d # e.docId => new[d] = outMap[t][d]
    BY DEF AddElem
  <2>3. new[e.docId] \in Entry /\ new[e.docId].keywords # <<>>
    <3>1. CASE e.docId \in DOMAIN outMap[t]
      <4>1. new[e.docId] = [weight   |-> outMap[t][e.docId].weight + e.weight,
                            keywords |-> Append(outMap[t][e.docId].keywords, e.keyword)]
        BY <3>1 DEF AddElem
      <4>2. outMap[t][e.docId].weight \in Nat /\ outMap[t][e.docId].keywords \in Seq(Word)
        BY <1>7, <3>1
      <4>3. /\ Append(outMap[t][e.docId].keywords, e.keyword) \in Seq(Word)
            /\ Append(outMap[t][e.docId].keywords, e.keyword) # <<>>
        BY <1>5, <4>2
      <4> QED
        BY <1>5, <4>1, <4>2, <4>3
    <3>2. CASE e.docId \notin DOMAIN outMap[t]
      <4>1. new[e.docId] = [weight |-> e.weight, keywords |-> <<e.keyword>>]
        BY <3>2 DEF AddElem
      <4> QED
        BY <1>5, <4>1
    <3> QED
      BY <3>1, <3>2
  <2>4. new = [d \in DOMAIN new |-> new[d]]
    BY DEF AddElem
  <2>5. \A d \in DOMAIN new : new[d] \in Entry
    BY <1>7, <2>1, <2>2, <2>3
  <2> QED
    BY <2>1, <2>2, <2>3, <2>4, <2>5
<1> HIDE DEF new
<1>9. \A u \in Threads : outMap'[u] = IF u = t THEN new ELSE outMap[u]
  BY <1>6, <1>7
<1>10. TypeOK'
  <2>1. \A u \in Threads : /\ DOMAIN outMap'[u] \subseteq Nat
                           /\ outMap'[u] \in [DOMAIN outMap'[u] -> Entry]
    <3> SUFFICES ASSUME NEW u \in Threads
                 PROVE  /\ DOMAIN outMap'[u] \subseteq Nat
                        /\ outMap'[u] \in [DOMAIN outMap'[u] -> Entry]
      OBVIOUS
    <3>1. CASE u = t
      BY <1>5, <1>7, <1>8, <1>9, <3>1
    <3>2. CASE u # t
      <4>1. outMap'[u] = outMap[u]
        BY <1>9, <3>2
      <4> QED
        BY <4>1 DEF IInv, TypeOK
    <3> QED
      BY <3>1, <3>2
  <2>2. DOMAIN outMap' = Threads
    BY <1>6, <1>7
  <2>3. elems' \in [Threads -> Nat]
    BY <1>6 DEF IInv, TypeOK
  <2> QED
    BY <1>1, <1>6, <2>1, <2>2, <2>3 DEF IInv, TypeOK, IndexIInv
<1>11. SearchAfterBuild'
  BY <1>6 DEF IInv, SearchAfterBuild, indexVars
<1>12. NoNullDoc'
  <2> SUFFICES ASSUME NEW u \in Threads
               PROVE  /\ \A d \in DOMAIN outMap'[u] :
                            d \in 0..(Len(forwardIndex) - 1) /\ outMap'[u][d].keywords # <<>>
                      /\ \A i \in DOMAIN sorted[u] : sorted[u][i] \in DOMAIN outMap'[u]
    BY <1>6 DEF NoNullDoc, indexVars
  <2>1. CASE u = t
    BY <1>5, <1>8, <1>9, <2>1 DEF IInv, NoNullDoc
  <2>2. CASE u # t
    BY <1>9, <2>2 DEF IInv, NoNullDoc
  <2> QED
    BY <2>1, <2>2
<1> QED
  BY <1>1, <1>10, <1>11, <1>12 DEF IInv, IndexIInv

(* Going to the next token keeps what was collected.                       *)
LEMMA NextWordStep ==
    ASSUME IInv, NEW t \in Threads, NextWord(t)
    PROVE  IInv'
<1>1. IndexIInv'
  BY IndexFrame DEF IInv, TypeOK, IndexIInv, NextWord
<1>2. TypeOK'
  BY <1>1 DEF IInv, TypeOK, IndexIInv, NextWord
<1>3. SearchAfterBuild' /\ NoNullDoc'
  BY DEF IInv, SearchAfterBuild, NoNullDoc, NextWord, indexVars
<1> QED
  BY <1>1, <1>2, <1>3 DEF IInv, IndexIInv

(* The sort yields a sequence of collected ids: the map is finite because  *)
(* its keys are positions of the forward index.                            *)
LEMMA SortHitsStep ==
    ASSUME IInv, NEW t \in Threads, SortHits(t)
    PROVE  IInv'
<1>1. IndexIInv'
  BY IndexFrame DEF IInv, TypeOK, IndexIInv, SortHits
<1>2. PICK s \in SortedIds(outMap[t]) : sorted' = [sorted EXCEPT ![t] = s]
  BY DEF SortHits
<1>3. IsFiniteSet(DOMAIN outMap[t])
  <2>1. Len(forwardIndex) \in Nat
    BY DEF IInv, TypeOK, IndexTypeOK
  <2>2. IsFiniteSet(0..(Len(forwardIndex) - 1))
    BY <2>1, FS_Interval
  <2>3. DOMAIN outMap[t] \subseteq 0..(Len(forwardIndex) - 1)
    BY DEF IInv, NoNullDoc
  <2> QED
    BY <2>2, <2>3, FS_Subset
<1>4. Cardinality(DOMAIN outMap[t]) \in Nat
  BY <1>3, FS_CardinalityType
<1>5. s \in [1..Cardinality(DOMAIN outMap[t]) -> DOMAIN outMap[t]]
  BY <1>2 DEF SortedIds, Bijection, Injection
<1>6. s \in Seq(DOMAIN outMap[t])
  BY <1>4, <1>5
<1>7. s \in Seq(Nat)
  <2>1. DOMAIN outMap[t] \subseteq Nat
    BY DEF IInv, TypeOK
  <2>2. s \in [1..Cardinality(DOMAIN outMap[t]) -> Nat]
    BY <1>5, <2>1
  <2> QED
    BY <1>4, <2>2
<1>8. TypeOK'
  BY <1>1, <1>2, <1>7 DEF IInv, TypeOK, IndexIInv, SortHits
<1>9. SearchAfterBuild'
  BY DEF IInv, TypeOK, SearchAfterBuild, SortHits, indexVars
<1>10. NoNullDoc'
  <2>1. \A u \in Threads : sorted'[u] = IF u = t THEN s ELSE sorted[u]
    BY <1>2 DEF IInv, TypeOK
  <2>2. \A i \in DOMAIN s : s[i] \in DOMAIN outMap[t]
    BY <1>5
  <2> QED
    BY <2>1, <2>2 DEF IInv, NoNullDoc, SortHits, indexVars
<1> QED
  BY <1>1, <1>8, <1>9, <1>10 DEF IInv, IndexIInv

(* Writing the answer empties the maps of the search.                      *)
LEMMA WriteJsonStep ==
    ASSUME IInv, NEW t \in Threads, WriteJson(t)
    PROVE  IInv'
<1>1. IndexIInv'
  BY IndexFrame DEF IInv, TypeOK, IndexIInv, WriteJson
<1>2. \A u \in Threads : outMap'[u] = (IF u = t THEN <<>> ELSE outMap[u])
                         /\ sorted'[u] = (IF u = t THEN <<>> ELSE sorted[u])
  BY DEF IInv, TypeOK, WriteJson
<1>3. TypeOK'
  <2>1. /\ query' \in [Threads -> Queries \cup {NoQuery}]
        /\ words' \in [Threads -> Nat] /\ elems' \in [Threads -> Nat]
        /\ spc' \in [Threads -> {"idle", "collect", "write"}]
        /\ \A u \in Threads : (query'[u] = NoQuery) <=> (spc'[u] = "idle")
    BY DEF IInv, TypeOK, WriteJson
  <2>2. \A u \in Threads :
          /\ DOMAIN outMap'[u] \subseteq Nat
          /\ outMap'[u] \in [DOMAIN outMap'[u] -> [weight : Nat, keywords : Seq(Word)]]
    <3> SUFFICES ASSUME NEW u \in Threads
                 PROVE  /\ DOMAIN outMap'[u] \subseteq Nat
                        /\ outMap'[u] \in [DOMAIN outMap'[u]
                                               -> [weight : Nat, keywords : Seq(Word)]]
      OBVIOUS
    <3>1. CASE u = t
      <4>1. outMap'[u] = <<>>
        BY <1>2, <3>1
      <4> QED
        BY <4>1
    <3>2. CASE u # t
      <4>1. outMap'[u] = outMap[u]
        BY <1>2, <3>2
      <4> QED
        BY <4>1 DEF IInv, TypeOK
    <3> QED
      BY <3>1, <3>2
  <2>3. DOMAIN outMap' = Threads /\ DOMAIN response' = Threads
        /\ sorted' \in [Threads -> Seq(Nat)]
    BY DEF IInv, TypeOK, WriteJson
  <2> QED
    BY <1>1, <2>1, <2>2, <2>3 DEF TypeOK, IndexIInv
<1>4. SearchAfterBuild'
  BY DEF IInv, TypeOK, SearchAfterBuild, WriteJson, indexVars
<1>5. NoNullDoc'
  BY <1>2 DEF IInv, NoNullDoc, WriteJson, indexVars
<1> QED
  BY <1>1, <1>3, <1>4, <1>5 DEF IInv, IndexIInv

-----------------------------------------------------------------------------
(* Every step of the server keeps the invariant.                           *)
LEMMA NextIInv == IInv /\ [Next]_vars => IInv'
<1> SUFFICES ASSUME IInv, [Next]_vars PROVE IInv'
  OBVIOUS
<1>1. CASE IndexNext /\ UNCHANGED searchVars
  BY <1>1, BuildStep
<1>2. ASSUME NEW t \in Threads, NEW q \in Queries, StartSearch(t, q)
      PROVE  IInv'
  BY <1>2, StartSearchStep
<1>3. ASSUME NEW t \in Threads, search(t)
      PROVE  IInv'
  BY <1>3, CollectElemStep, NextWordStep, SortHitsStep, WriteJsonStep DEF search
<1>4. CASE UNCHANGED vars
  <2>1. IndexIInv'
    BY <1>4, IndexFrame DEF IInv, TypeOK, IndexIInv, vars
  <2>2. TypeOK' /\ SearchAfterBuild' /\ NoNullDoc'
    <3>1. UNCHANGED indexVars /\ UNCHANGED searchVars
      BY <1>4 DEF vars
    <3>2. TypeOK'
      BY <2>1, <3>1 DEF IInv, TypeOK, searchVars, IndexIInv
    <3>3. SearchAfterBuild' /\ NoNullDoc'
      BY <3>1 DEF IInv, SearchAfterBuild, NoNullDoc, indexVars, searchVars
    <3> QED
      BY <3>2, <3>3
  <2> QED
    BY <2>1, <2>2 DEF IInv, IndexIInv
<1> QED
  BY <1>1, <1>2, <1>3, <1>4 DEF Next

(* The inductive invariant of initSearcher and search holds in every       *)
(* reachable state.                                                        *)
THEOREM Invariance == Spec => []IInv
  BY InitIInv, NextIInv, PTL DEF Spec

(* Type correctness of every reachable state of the server.                *)
THEOREM TypeCorrect == Spec => []TypeOK
<1>1. IInv => TypeOK
  BY DEF IInv
<1> QED
  BY <1>1, Invariance, PTL

(* No posting buildInvertedIndex has made is wrong: it names an indexed    *)
(* document that contains the keyword, once, with the weight the text      *)
(* earns, whatever the segmenter, the stop words and the raw file are.     *)
THEOREM PostingsAreSound == Spec => []PostingsSound
<1>1. IInv => PostingsSound
  BY DEF IInv
<1> QED
  BY <1>1, Invariance, PTL

(* No posting is missing: every indexed document is on the list of every   *)
(* keyword it earns a weight for.                                          *)
THEOREM PostingsAreComplete == Spec => []PostingsComplete
<1>1. IInv => PostingsComplete
  BY DEF IInv
<1> QED
  BY <1>1, Invariance, PTL

(* search never dereferences the null pointer of getForwardIndex and never *)
(* takes the first of no keywords, with any number of threads.             *)
THEOREM NoNullDereference == Spec => []NoNullDoc
<1>1. IInv => NoNullDoc
  BY DEF IInv
<1> QED
  BY <1>1, Invariance, PTL

(* The unlocked sharing of the index is safe: nobody writes it after the   *)
(* build.                                                                  *)
THEOREM IndexIsFrozen == Spec => IndexFrozen
<1>1. [Next]_vars => [bpc = "built" => UNCHANGED <<forwardIndex, invertedIndex, bpc>>]_vars
  BY DEF Next, vars, indexVars, IndexNext, GetInstances, OpenRaw, OpenRawFails,
         buildForwardIndex, DictionaryAbort, ShortRecordCrash, buildInvertedIndex, EndOfRaw,
         StartSearch, search, CollectElem, NextWord, SortHits, WriteJson
<1> QED
  BY <1>1, PTL DEF Spec, IndexFrozen
-----------------------------------------------------------------------------
(* What a search has computed when it is half done.  Documents are named   *)
(* by their id d, queries by q, a place in the cut query by i.             *)
Ids == 0..Len(forwardIndex) - 1

(* What document d earns for the i-th token of query q, and for the first  *)
(* k tokens together; the places among them where it earns something.      *)
Earns(q, d, i) == Relevance(forwardIndex[d + 1], QueryWord(q, i))
Total(q, d, k) == SumFunction([i \in 1..k |-> Earns(q, d, i)])
Earners(q, d, k) == {i \in 1..k : Earns(q, d, i) > 0}

(* What the map holds for document d when the first k tokens are counted   *)
(* for it: an entry if one of them is found in it, the total as its weight *)
(* and the first of them as its first keyword.                             *)
Collected(q, k, map, d) ==
    /\ d \in DOMAIN map <=> Earners(q, d, k) # {}
    /\ d \in DOMAIN map =>
          /\ map[d].weight = Total(q, d, k)
          /\ \E i \in Earners(q, d, k) :
                /\ \A j \in Earners(q, d, k) : i <= j
                /\ map[d].keywords[1] = QueryWord(q, i)

(* A thread that is through with w tokens and with e elements of the list  *)
(* of the next one is through with w + 1 tokens for the documents of these *)
(* elements and with w for the others.                                     *)
Walked(q, w, e) == {getInvertedList(QueryWord(q, w + 1))[j].docId : j \in 1..e}
Through(q, w, e, d) == IF d \in Walked(q, w, e) THEN w + 1 ELSE w
MapRight(q, w, e, map) == \A d \in Ids : Collected(q, Through(q, w, e, d), map, d)

(* Where a thread is in its search.                                        *)
SearchPart(t) ==
    LET n == Len(Cut[query[t]])
    IN  IF spc[t] = "idle"
        THEN words[t] = 0 /\ elems[t] = 0 /\ outMap[t] = <<>>
        ELSE /\ words[t] \in 0..n
             /\ elems[t] \in 0..(IF words[t] < n THEN Len(CurrentList(t)) ELSE 0)
             /\ MapRight(query[t], words[t], elems[t], outMap[t])
             /\ spc[t] = "write" => words[t] = n /\ sorted[t] \in SortedIds(outMap[t])

(* The inductive invariant of search: every search is somewhere on its way *)
(* to the service's answer, and nothing is left over from the last one.    *)
SearchInv == \A t \in Threads : SearchPart(t)

(* The words of a query are words and what they earn is a natural number.  *)
LEMMA EarnsType ==
    ASSUME IndexTypeOK, NEW q \in Queries, NEW d \in Ids, NEW i \in 1..Len(Cut[q])
    PROVE  QueryWord(q, i) \in Word /\ Earns(q, d, i) \in Nat
<1>1. Cut[q] \in Seq(Word)
  BY IndexAssumption, SearcherAssumption
<1>2. Cut[q][i] \in Word
  BY <1>1
<1>3. QueryWord(q, i) \in Word
  BY <1>2, IndexAssumption DEF QueryWord
<1>4. forwardIndex \in Seq(DocInfo) /\ d + 1 \in 1..Len(forwardIndex)
  BY DEF IndexTypeOK, Ids
<1>5. forwardIndex[d + 1] \in DocInfo
  BY <1>4
<1> QED
  BY <1>3, <1>5, WeightIsRelevance DEF Earns

(* The total of no more tokens than the query has is a natural number, and *)
(* it is 0 when none of them is found.                                     *)
LEMMA TotalType ==
    ASSUME IndexTypeOK, NEW q \in Queries, NEW d \in Ids, NEW k \in 0..Len(Cut[q])
    PROVE  /\ Total(q, d, k) \in Nat
           /\ Earners(q, d, k) = {} => Total(q, d, k) = 0
<1> DEFINE f == [i \in 1..k |-> Earns(q, d, i)]
<1>0. Cut[q] \in Seq(Word) /\ k \in Nat
  BY IndexAssumption, SearcherAssumption
<1>1. \A i \in 1..k : Earns(q, d, i) \in Nat
  BY <1>0, EarnsType
<1>2. Naturals(f, k)
  BY <1>1 DEF Naturals
<1>3. Earners(q, d, k) = {} => \A i \in 1..k : f[i] = 0
  BY <1>1 DEF Earners
<1> HIDE DEF f
<1>4. SumFunction(f) \in Nat /\ (Earners(q, d, k) = {} => SumFunction(f) = 0)
  BY <1>0, <1>2, <1>3, SumType, SumZeros
<1> QED
  BY <1>4 DEF Total, f

(* One token more adds what it earns, and is found when it earns anything. *)
LEMMA TotalGrows ==
    ASSUME IndexTypeOK, NEW q \in Queries, NEW d \in Ids,
           NEW k \in 0..Len(Cut[q]), NEW m \in 1..Len(Cut[q]), m = k + 1
    PROVE  /\ Total(q, d, m) = Total(q, d, k) + Earns(q, d, m)
           /\ Earners(q, d, m) = Earners(q, d, k) \cup {i \in {m} : Earns(q, d, i) > 0}
<1> DEFINE f == [i \in 1..k |-> Earns(q, d, i)]
           g == [i \in 1..m |-> Earns(q, d, i)]
<1>0. Cut[q] \in Seq(Word) /\ k \in Nat /\ m \in 1..m
  BY IndexAssumption, SearcherAssumption
<1>1. \A i \in 1..m : Earns(q, d, i) \in Nat
  BY <1>0, EarnsType
<1>2. Naturals(f, k) /\ Naturals(g, k + 1)
  BY <1>0, <1>1 DEF Naturals
<1>3. (\A i \in 1..k : g[i] = f[i]) /\ g[k + 1] = Earns(q, d, m)
  BY <1>0
<1> HIDE DEF f, g
<1>4. SumFunction(g) = SumFunction(f) + g[k + 1]
  BY <1>0, <1>2, <1>3, SumGrows
<1>5. Total(q, d, m) = SumFunction(g) /\ Total(q, d, k) = SumFunction(f)
  BY DEF Total, f, g
<1>6. Earners(q, d, m) = Earners(q, d, k) \cup {i \in {m} : Earns(q, d, i) > 0}
  BY <1>0 DEF Earners
<1> QED
  BY <1>3, <1>4, <1>5, <1>6

(* The list of the query's m-th token, when the build is over: its ids     *)
(* increase, each names a document that earns its weight for the token,    *)
(* and a document that earns anything is on it.                            *)
LEMMA ListOfToken ==
    ASSUME IndexIInv, bpc = "built", NEW q \in Queries, NEW m \in 1..Len(Cut[q]),
           NEW list, list = getInvertedList(QueryWord(q, m))
    PROVE  /\ list \in Seq(InvertedElem)
           /\ \A x \in 1..Len(list) :
                 /\ list[x].docId \in Ids
                 /\ list[x].keyword = QueryWord(q, m)
                 /\ list[x].weight = Earns(q, list[x].docId, m)
                 /\ list[x].weight > 0
                 /\ \A j \in 1..x - 1 : list[j].docId < list[x].docId
           /\ \A d \in Ids : Earns(q, d, m) > 0 => \E x \in 1..Len(list) : list[x].docId = d
<1> DEFINE k == QueryWord(q, m)
<1>0. /\ IndexTypeOK /\ PostingsSound /\ PostingsComplete
      /\ count \in Nat /\ Len(forwardIndex) = count
  BY DEF IndexIInv, IndexTypeOK, BuildInStep
<1>1. list \in Seq(InvertedElem)
  BY <1>0 DEF IndexTypeOK, getInvertedList
<1>2. ASSUME NEW x \in 1..Len(list)
      PROVE  /\ list[x].docId \in Ids
             /\ list[x].keyword = k
             /\ list[x].weight = Earns(q, list[x].docId, m)
             /\ list[x].weight > 0
             /\ \A j \in 1..x - 1 : list[j].docId < list[x].docId
  <2>1. k \in DOMAIN invertedIndex /\ list = invertedIndex[k] /\ x \in DOMAIN invertedIndex[k]
    BY <1>1 DEF getInvertedList
  <2>2. /\ list[x].docId < count
        /\ list[x].keyword = k
        /\ list[x].weight = Relevance(forwardIndex[list[x].docId + 1], k)
        /\ list[x].weight > 0
        /\ \A j \in 1..x - 1 : list[j].docId < list[x].docId
    BY <1>0, <2>1 DEF PostingsSound
  <2>3. list[x].docId \in Nat
    <3>1. list[x] \in InvertedElem
      BY <1>1
    <3> QED
      BY <3>1 DEF InvertedElem
  <2> QED
    BY <1>0, <2>2, <2>3 DEF Ids, Earns
<1>3. ASSUME NEW d \in Ids, Earns(q, d, m) > 0
      PROVE  \E x \in 1..Len(list) : list[x].docId = d
  <2>1. PICK c \in 1..count : c = d + 1
    BY <1>0 DEF Ids
  <2>2. k \in Word
    BY <1>0, EarnsType
  <2>3. \E x \in DOMAIN getInvertedList(k) : getInvertedList(k)[x].docId = c - 1
    BY <1>0, <1>3, <2>1, <2>2 DEF PostingsComplete, Earns
  <2>4. c - 1 = d
    BY <2>1 DEF Ids
  <2> QED
    BY <1>1, <2>3, <2>4
<1> QED
  BY <1>1, <1>2, <1>3

(* Leaving a token's list: the documents that are not on it earn nothing.  *)
LEMMA PassRight ==
    ASSUME IndexIInv, bpc = "built", NEW q \in Queries, NEW w \in 0..Len(Cut[q]),
           NEW m \in 1..Len(Cut[q]), m = w + 1, NEW map,
           MapRight(q, w, Len(getInvertedList(QueryWord(q, m))), map)
    PROVE  MapRight(q, m, 0, map)
<1> DEFINE list == getInvertedList(QueryWord(q, m))
<1> SUFFICES ASSUME NEW d \in Ids PROVE Collected(q, Through(q, m, 0, d), map, d)
  BY DEF MapRight
<1>0. IndexTypeOK /\ Collected(q, Through(q, w, Len(list), d), map, d)
  BY DEF MapRight, IndexIInv
<1>1. Through(q, m, 0, d) = m
  BY DEF Through, Walked
<1>2. Walked(q, w, Len(list)) = {list[j].docId : j \in 1..Len(list)}
  BY DEF Walked
<1>3. CASE d \in Walked(q, w, Len(list))
  BY <1>0, <1>1, <1>3 DEF Through
<1>4. CASE d \notin Walked(q, w, Len(list))
  <2>1. Collected(q, w, map, d)
    BY <1>0, <1>4 DEF Through
  <2>2. ~(Earns(q, d, m) > 0)
    BY <1>2, <1>4, ListOfToken
  <2>3. Earns(q, d, m) \in Nat
    BY <1>0, EarnsType
  <2>4. Earns(q, d, m) = 0
    BY <2>2, <2>3
  <2>5. Earners(q, d, m) = Earners(q, d, w) /\ Total(q, d, m) = Total(q, d, w)
    <3>1. Total(q, d, w) \in Nat
      BY <1>0, TotalType
    <3>2. /\ Total(q, d, m) = Total(q, d, w) + Earns(q, d, m)
          /\ Earners(q, d, m) = Earners(q, d, w) \cup {i \in {m} : Earns(q, d, i) > 0}
      BY <1>0, TotalGrows
    <3>3. {i \in {m} : Earns(q, d, i) > 0} = {}
      BY <2>2
    <3>4. Total(q, d, m) = Total(q, d, w)
      BY <2>4, <3>1, <3>2
    <3>5. Earners(q, d, m) = Earners(q, d, w)
      BY <3>2, <3>3, Zenon
    <3> QED
      BY <3>4, <3>5
  <2>6. Collected(q, m, map, d)
    BY <2>1, <2>5, Zenon DEF Collected
  <2> QED
    BY <1>1, <2>6
<1> QED
  BY <1>3, <1>4

(* Adding an element: its document was not on the list so far, and the     *)
(* element's weight is what it earns for the token.                        *)
LEMMA AddRight ==
    ASSUME IndexIInv, bpc = "built", NEW q \in Queries, NEW w \in 0..Len(Cut[q]),
           NEW m \in 1..Len(Cut[q]), m = w + 1,
           NEW list, list = getInvertedList(QueryWord(q, m)),
           NEW e \in Nat, NEW x \in 1..Len(list), x = e + 1, NEW map,
           map \in [DOMAIN map -> [weight : Nat, keywords : Seq(Word)]],
           \A d \in DOMAIN map : map[d].keywords # <<>>,
           MapRight(q, w, e, map)
    PROVE  MapRight(q, w, x, AddElem(map, list[x]))
<1> DEFINE p == list[x]
           new == AddElem(map, p)
<1>0. IndexTypeOK
  BY DEF IndexIInv
<1>1. /\ p.docId \in Ids
      /\ p.keyword = QueryWord(q, m)
      /\ p.weight = Earns(q, p.docId, m)
      /\ p.weight > 0
      /\ \A j \in 1..x - 1 : list[j].docId < p.docId
  BY ListOfToken
<1>2. p.docId \in Int
  BY <1>1 DEF Ids
<1>3. Walked(q, w, e) = {list[j].docId : j \in 1..e}
      /\ Walked(q, w, x) = {list[j].docId : j \in 1..x}
  BY DEF Walked
<1>4. p.docId \notin Walked(q, w, e)
  BY <1>1, <1>2, <1>3
<1>5. Walked(q, w, x) = Walked(q, w, e) \cup {p.docId}
  <2>1. 1..x = 1..e \cup {x}
    OBVIOUS
  <2> QED
    BY <1>3, <2>1
<1>6. /\ DOMAIN new = DOMAIN map \cup {p.docId}
      /\ \A d \in DOMAIN map : d # p.docId => new[d] = map[d]
  BY DEF AddElem
<1>7. ASSUME NEW d \in Ids, d # p.docId
      PROVE  Collected(q, Through(q, w, x, d), new, d)
  <2>1. Through(q, w, x, d) = Through(q, w, e, d)
    BY <1>5, <1>7 DEF Through
  <2>2. Collected(q, Through(q, w, e, d), map, d)
    BY DEF MapRight
  <2>3. d \in DOMAIN new <=> d \in DOMAIN map
    BY <1>6, <1>7
  <2>4. d \in DOMAIN map => new[d] = map[d]
    BY <1>6, <1>7
  <2> HIDE DEF new
  <2> QED
    BY <2>1, <2>2, <2>3, <2>4 DEF Collected
<1>8. Collected(q, m, new, p.docId)
  <2>1. PICK c \in Ids : c = p.docId
    BY <1>1
  <2>2. Collected(q, w, map, c)
    <3>1. Collected(q, Through(q, w, e, c), map, c)
      BY DEF MapRight
    <3>2. Through(q, w, e, c) = w
      BY <1>4, <2>1 DEF Through
    <3> QED
      BY <3>1, <3>2
  <2>3. /\ Total(q, c, w) \in Nat
        /\ Earners(q, c, w) = {} => Total(q, c, w) = 0
        /\ Total(q, c, m) = Total(q, c, w) + p.weight
    BY <1>0, <1>1, <2>1, TotalType, TotalGrows, SMTT(30)
  <2>4. Earners(q, c, m) = Earners(q, c, w) \cup {m}
    <3>1. Earners(q, c, m) = Earners(q, c, w) \cup {i \in {m} : Earns(q, c, i) > 0}
      BY <1>0, TotalGrows
    <3>2. {i \in {m} : Earns(q, c, i) > 0} = {m}
      BY <1>1, <2>1
    <3> QED
      BY <3>1, <3>2
  <2>5. c \in DOMAIN new
    BY <1>6, <2>1
  <2>6. new[c].weight = Total(q, c, m)
    <3>1. CASE c \in DOMAIN map
      <4>1. new[c].weight = map[c].weight + p.weight
        BY <2>1, <3>1 DEF AddElem
      <4>2. map[c].weight = Total(q, c, w)
        BY <2>2, <3>1 DEF Collected
      <4> QED
        BY <2>3, <4>1, <4>2
    <3>2. CASE c \notin DOMAIN map
      <4>1. new[c].weight = p.weight
        BY <2>1, <3>2 DEF AddElem
      <4>2. Total(q, c, w) = 0
        BY <2>2, <2>3, <3>2 DEF Collected
      <4>3. p.weight \in Nat
        BY <1>0, <1>1, <2>1, EarnsType
      <4> QED
        BY <2>3, <4>1, <4>2, <4>3
    <3> QED
      BY <3>1, <3>2
  <2>7. \E i \in Earners(q, c, m) : /\ \A j \in Earners(q, c, m) : i <= j
                                 /\ new[c].keywords[1] = QueryWord(q, i)
    <3>0. w \in Nat /\ \A i \in Earners(q, c, w) : i \in Nat /\ i <= w
      <4>1. w \in Nat
        BY IndexAssumption, SearcherAssumption
      <4> QED
        BY <4>1 DEF Earners
    <3>1. CASE c \in DOMAIN map
      <4>1. PICK i \in Earners(q, c, w) : /\ \A j \in Earners(q, c, w) : i <= j
                                        /\ map[c].keywords[1] = QueryWord(q, i)
        BY <2>2, <3>1 DEF Collected
      <4>2. new[c].keywords = Append(map[c].keywords, p.keyword)
        BY <2>1, <3>1 DEF AddElem
      <4>3. map[c].keywords \in Seq(Word) /\ map[c].keywords # <<>>
        BY <3>1
      <4>4. new[c].keywords[1] = map[c].keywords[1]
        <5>1. PICK s : s = map[c].keywords
          OBVIOUS
        <5>2. s \in Seq(Word) /\ s # <<>>
          BY <4>3, <5>1
        <5>3. Append(s, p.keyword)[1] = s[1]
          <6>1. \A y : Append(s, y)[1] = s[1]
            BY <5>2
          <6> QED
            BY <6>1
        <5> QED
          BY <4>2, <5>1, <5>3
      <4>5. i \in Earners(q, c, m) /\ \A j \in Earners(q, c, m) : i <= j
        BY <2>4, <3>0, <4>1
      <4> QED
        BY <4>1, <4>4, <4>5
    <3>2. CASE c \notin DOMAIN map
      <4>1. new[c].keywords = <<p.keyword>>
        BY <2>1, <3>2 DEF AddElem
      <4>2. Earners(q, c, m) = {m}
        BY <2>2, <2>4, <3>2 DEF Collected
      <4>3. new[c].keywords[1] = QueryWord(q, m)
        <5>1. PICK k : k = p.keyword
          OBVIOUS
        <5>2. <<k>>[1] = k
          OBVIOUS
        <5> HIDE DEF new, p
        <5> QED
          BY <1>1, <4>1, <5>1, <5>2, Zenon
      <4>4. m <= m
        BY <3>0
      <4> QED
        BY <4>2, <4>3, <4>4
    <3> QED
      BY <3>1, <3>2
  <2> HIDE DEF new, p
  <2>8. Earners(q, c, m) # {}
    BY <2>4
  <2> QED
    BY <2>1, <2>5, <2>6, <2>7, <2>8 DEF Collected
<1>9. Through(q, w, x, p.docId) = m
  BY <1>5 DEF Through
<1>10. \A d \in Ids : Collected(q, Through(q, w, x, d), new, d)
  <2> HIDE DEF new, p
  <2> QED
    BY <1>7, <1>8, <1>9
<1> HIDE DEF new
<1>11. MapRight(q, w, x, new)
  BY <1>10, Zenon DEF MapRight
<1> QED
  BY <1>11 DEF new

(* A step that leaves the index alone changes no total.                    *)
LEMMA MapFrame ==
    ASSUME UNCHANGED <<forwardIndex, invertedIndex, stopKeywordMap>>,
           NEW q, NEW w, NEW e, NEW map, MapRight(q, w, e, map)
    PROVE  MapRight(q, w, e, map)'
<1>1. \A d, i : Earns(q, d, i)' = Earns(q, d, i)
  BY DEF Earns, Relevance, Occurrences, QueryWord
<1>2. \A d, k : Total(q, d, k)' = Total(q, d, k)
  BY <1>1 DEF Total
<1>3. \A d, k : Earners(q, d, k)' = Earners(q, d, k)
  BY <1>1 DEF Earners
<1>4. \A d, k : Collected(q, k, map, d)' <=> Collected(q, k, map, d)
  BY <1>2, <1>3 DEF Collected, QueryWord
<1>5. \A d : Through(q, w, e, d)' = Through(q, w, e, d)
  BY DEF Through, Walked, getInvertedList, QueryWord
<1>6. Ids' = Ids
  BY DEF Ids
<1> QED
  BY <1>4, <1>5, <1>6 DEF MapRight

(* A thread is where it was after a step of the other threads.             *)
LEMMA PartFrame ==
    ASSUME NEW u \in Threads, UNCHANGED indexVars, SearchPart(u),
           query'[u] = query[u], words'[u] = words[u], elems'[u] = elems[u],
           outMap'[u] = outMap[u], sorted'[u] = sorted[u], spc'[u] = spc[u]
    PROVE  SearchPart(u)'
<1>1. CurrentList(u)' = CurrentList(u)
  BY DEF CurrentList, getInvertedList, indexVars
<1>2. MapRight(query[u], words[u], elems[u], outMap[u])
        => MapRight(query[u], words[u], elems[u], outMap[u])'
  BY MapFrame DEF indexVars
<1> QED
  BY <1>1, <1>2 DEF SearchPart

(* Nothing is searched before the index is built.                          *)
LEMMA BuildKeepsSearch ==
    ASSUME IInv, SearchInv, IndexNext, UNCHANGED searchVars
    PROVE  SearchInv'
<1> SUFFICES ASSUME NEW t \in Threads PROVE SearchPart(t)'
  BY DEF SearchInv
<1>1. bpc # "built"
  BY DEF IndexNext, GetInstances, DictionaryAbort, OpenRaw, OpenRawFails,
         buildForwardIndex, ShortRecordCrash, buildInvertedIndex, EndOfRaw
<1>2. spc[t] = "idle"
  BY <1>1 DEF IInv, SearchAfterBuild
<1>3. spc'[t] = "idle" /\ words'[t] = 0 /\ elems'[t] = 0 /\ outMap'[t] = <<>>
  BY <1>2 DEF SearchInv, SearchPart, searchVars
<1> QED
  BY <1>3 DEF SearchPart

(* Every list has a length, that of a keyword without postings included.   *)
LEMMA ListLength ==
    ASSUME IInv, UNCHANGED indexVars, NEW k
    PROVE  Len(getInvertedList(k)') \in Nat
<1>1. getInvertedList(k) \in Seq(InvertedElem)
  BY DEF IInv, TypeOK, IndexTypeOK, getInvertedList
<1>2. getInvertedList(k)' = getInvertedList(k)
  BY DEF getInvertedList, indexVars
<1> QED
  BY <1>1, <1>2

(* A search that begins has found nothing.                                 *)
LEMMA StartKeepsSearch ==
    ASSUME IInv, SearchInv, NEW t \in Threads, NEW q \in Queries, StartSearch(t, q)
    PROVE  SearchInv'
<1>1. ASSUME NEW u \in Threads, u # t PROVE SearchPart(u)'
  BY <1>1, PartFrame DEF SearchInv, StartSearch, IInv, TypeOK
<1>2. SearchPart(t)'
  <2>1. words'[t] = 0 /\ elems'[t] = 0 /\ outMap'[t] = <<>> /\ query'[t] = q /\ spc'[t] = "collect"
    BY DEF SearchInv, SearchPart, StartSearch, IInv, TypeOK
  <2>2. ASSUME NEW d PROVE Collected(q, Through(q, 0, 0, d), <<>>, d)
    <3>1. Through(q, 0, 0, d) = 0
      BY DEF Through, Walked
    <3>2. Earners(q, d, 0) = {}
      BY DEF Earners
    <3> QED
      BY <3>1, <3>2 DEF Collected
  <2>3. MapRight(q, 0, 0, <<>>)
    BY <2>2 DEF MapRight
  <2>4. MapRight(q, 0, 0, <<>>)'
    BY <2>3, MapFrame DEF StartSearch, indexVars
  <2>5. Len(Cut[q]) \in Nat
    BY IndexAssumption, SearcherAssumption
  <2>6. MapRight(query[t], words[t], elems[t], outMap[t])'
    BY <2>1, <2>4
  <2>7. Cut[query[t]]' = Cut[q]
    BY <2>1
  <2>8. 0 \in 0..(IF words[t] < Len(Cut[query[t]]) THEN Len(CurrentList(t)) ELSE 0)'
    <3>1. Len(CurrentList(t)') \in Nat
      BY ListLength DEF CurrentList, StartSearch
    <3> QED
      BY <3>1
  <2> QED
    BY <2>1, <2>5, <2>6, <2>7, <2>8 DEF SearchPart
<1> QED
  BY <1>1, <1>2 DEF SearchInv

(* What a collecting thread looks at: the list of its next token.          *)
LEMMA CollectingThread ==
    ASSUME IInv, SearchInv, NEW t \in Threads, spc[t] # "idle", words[t] < Len(Cut[query[t]])
    PROVE  /\ IndexIInv /\ bpc = "built"
           /\ query[t] \in Queries
           /\ words[t] \in 0..Len(Cut[query[t]])
           /\ words[t] + 1 \in 1..Len(Cut[query[t]])
           /\ CurrentList(t) = getInvertedList(QueryWord(query[t], words[t] + 1))
           /\ CurrentList(t) \in Seq(InvertedElem)
           /\ elems[t] \in 0..Len(CurrentList(t))
           /\ MapRight(query[t], words[t], elems[t], outMap[t])
<1>1. IndexIInv /\ bpc = "built" /\ query[t] \in Queries
  BY DEF IInv, TypeOK, IndexIInv, SearchAfterBuild
<1>2. /\ words[t] \in 0..Len(Cut[query[t]])
      /\ elems[t] \in 0..Len(CurrentList(t))
      /\ MapRight(query[t], words[t], elems[t], outMap[t])
  BY DEF SearchInv, SearchPart
<1>3. Len(Cut[query[t]]) \in Nat
  BY <1>1, IndexAssumption, SearcherAssumption
<1>4. CurrentList(t) = getInvertedList(QueryWord(query[t], words[t] + 1))
  BY DEF CurrentList
<1>5. words[t] + 1 \in 1..Len(Cut[query[t]])
  BY <1>2, <1>3
<1>6. CurrentList(t) \in Seq(InvertedElem)
  BY <1>1, <1>4, <1>5, ListOfToken
<1> QED
  BY <1>1, <1>2, <1>4, <1>5, <1>6

(* Another element of the list is added.                                   *)
LEMMA CollectKeepsSearch ==
    ASSUME IInv, SearchInv, NEW t \in Threads, CollectElem(t)
    PROVE  SearchInv'
<1>1. ASSUME NEW u \in Threads, u # t PROVE SearchPart(u)'
  BY <1>1, PartFrame DEF SearchInv, CollectElem, IInv, TypeOK
<1>2. SearchPart(t)'
  <2>0. spc[t] = "collect" /\ words[t] < Len(Cut[query[t]]) /\ elems[t] < Len(CurrentList(t))
    BY DEF CollectElem
  <2>1. PICK q, w, e, list, map : q = query[t] /\ w = words[t] /\ e = elems[t]
                                  /\ list = CurrentList(t) /\ map = outMap[t]
    OBVIOUS
  <2>2. PICK m, x : m = w + 1 /\ x = e + 1
    OBVIOUS
  <2>3. /\ IndexIInv /\ bpc = "built"
        /\ q \in Queries /\ w \in 0..Len(Cut[q]) /\ m \in 1..Len(Cut[q])
        /\ list = getInvertedList(QueryWord(q, m)) /\ list \in Seq(InvertedElem)
        /\ e \in 0..Len(list)
        /\ MapRight(q, w, e, map)
    BY <2>0, <2>1, <2>2, CollectingThread
  <2>4. e \in Nat /\ x \in 1..Len(list)
    BY <2>0, <2>1, <2>2, <2>3
  <2>5. /\ map \in [DOMAIN map -> [weight : Nat, keywords : Seq(Word)]]
        /\ \A d \in DOMAIN map : map[d].keywords # <<>>
    BY <2>1 DEF IInv, TypeOK, NoNullDoc
  <2>6. MapRight(q, w, x, AddElem(map, list[x]))
    BY <2>2, <2>3, <2>4, <2>5, AddRight
  <2>7. /\ query'[t] = q /\ words'[t] = w /\ elems'[t] = x /\ spc'[t] = "collect"
        /\ outMap'[t] = AddElem(map, list[x])
        /\ UNCHANGED indexVars
    BY <2>1, <2>2 DEF CollectElem, IInv, TypeOK
  <2>8. PICK new : new = AddElem(map, list[x])
    OBVIOUS
  <2>9. MapRight(q, w, x, new)'
    BY <2>6, <2>7, <2>8, MapFrame DEF indexVars
  <2>10. MapRight(query[t], words[t], elems[t], outMap[t])'
    BY <2>7, <2>8, <2>9
  <2>11. CurrentList(t)' = list
    BY <2>1, <2>7 DEF CurrentList, getInvertedList, indexVars
  <2>12. w < Len(Cut[q])
    BY <2>0, <2>1
  <2>13. x \in 0..Len(list)
    BY <2>4
  <2> QED
    BY <2>3, <2>7, <2>10, <2>11, <2>12, <2>13 DEF SearchPart
<1> QED
  BY <1>1, <1>2 DEF SearchInv

(* The list of a token is left at its end.                                 *)
LEMMA NextWordKeepsSearch ==
    ASSUME IInv, SearchInv, NEW t \in Threads, NextWord(t)
    PROVE  SearchInv'
<1>1. ASSUME NEW u \in Threads, u # t PROVE SearchPart(u)'
  BY <1>1, PartFrame DEF SearchInv, NextWord, IInv, TypeOK
<1>2. SearchPart(t)'
  <2>0. spc[t] = "collect" /\ words[t] < Len(Cut[query[t]]) /\ elems[t] = Len(CurrentList(t))
    BY DEF NextWord
  <2>1. PICK q, w, map : q = query[t] /\ w = words[t] /\ map = outMap[t]
    OBVIOUS
  <2>2. PICK m : m = w + 1
    OBVIOUS
  <2>3. /\ IndexIInv /\ bpc = "built"
        /\ q \in Queries /\ w \in 0..Len(Cut[q]) /\ m \in 1..Len(Cut[q])
        /\ CurrentList(t) = getInvertedList(QueryWord(q, m))
        /\ MapRight(q, w, elems[t], map)
    BY <2>0, <2>1, <2>2, CollectingThread
  <2>4. MapRight(q, m, 0, map)
    BY <2>0, <2>2, <2>3, PassRight
  <2>5. /\ query'[t] = q /\ words'[t] = m /\ elems'[t] = 0 /\ spc'[t] = "collect"
        /\ outMap'[t] = map
        /\ UNCHANGED indexVars
    BY <2>1, <2>2 DEF NextWord, IInv, TypeOK
  <2>6. MapRight(q, m, 0, map)'
    BY <2>4, <2>5, MapFrame DEF indexVars
  <2>7. MapRight(query[t], words[t], elems[t], outMap[t])'
    BY <2>5, <2>6
  <2>8. 0 \in 0..(IF m < Len(Cut[q]) THEN Len(CurrentList(t)) ELSE 0)'
    <3>1. Len(CurrentList(t)') \in Nat
      BY ListLength DEF CurrentList, NextWord
    <3> QED
      BY <3>1
  <2>9. m \in 0..Len(Cut[q])
    BY <2>3
  <2> QED
    BY <2>5, <2>7, <2>8, <2>9 DEF SearchPart
<1> QED
  BY <1>1, <1>2 DEF SearchInv

(* What was collected is sorted.                                           *)
LEMMA SortKeepsSearch ==
    ASSUME IInv, SearchInv, NEW t \in Threads, SortHits(t)
    PROVE  SearchInv'
<1>1. ASSUME NEW u \in Threads, u # t PROVE SearchPart(u)'
  BY <1>1, PartFrame DEF SearchInv, SortHits, IInv, TypeOK
<1>2. SearchPart(t)'
  <2>1. spc[t] = "collect" /\ words[t] = Len(Cut[query[t]])
    BY DEF SortHits
  <2>2. /\ words[t] \in 0..Len(Cut[query[t]])
        /\ elems[t] \in 0..(IF words[t] < Len(Cut[query[t]]) THEN Len(CurrentList(t)) ELSE 0)
        /\ MapRight(query[t], words[t], elems[t], outMap[t])
    BY <2>1 DEF SearchInv, SearchPart
  <2>3. /\ query'[t] = query[t] /\ words'[t] = words[t] /\ elems'[t] = elems[t]
        /\ outMap'[t] = outMap[t] /\ spc'[t] = "write"
        /\ sorted'[t] \in SortedIds(outMap[t])
        /\ UNCHANGED indexVars
    BY DEF SortHits, IInv, TypeOK
  <2>4. CurrentList(t)' = CurrentList(t)
    BY <2>3 DEF CurrentList, getInvertedList, indexVars
  <2>5. MapRight(query[t], words[t], elems[t], outMap[t])'
    BY <2>2, <2>3, MapFrame DEF indexVars
  <2>6. SortedIds(outMap[t])' = SortedIds(outMap[t])
    BY <2>3
  <2> QED
    BY <2>1, <2>2, <2>3, <2>4, <2>5, <2>6 DEF SearchPart
<1> QED
  BY <1>1, <1>2 DEF SearchInv

(* Nothing is left over when the answer is written.                        *)
LEMMA WriteKeepsSearch ==
    ASSUME IInv, SearchInv, NEW t \in Threads, WriteJson(t)
    PROVE  SearchInv'
<1>1. ASSUME NEW u \in Threads, u # t PROVE SearchPart(u)'
  BY <1>1, PartFrame DEF SearchInv, WriteJson, IInv, TypeOK
<1>2. SearchPart(t)'
  <2>1. spc[t] = "write" /\ words[t] = Len(Cut[query[t]])
    BY DEF WriteJson, SearchInv, SearchPart
  <2>2. ~(words[t] < Len(Cut[query[t]]))
    BY <2>1 DEF IInv, TypeOK
  <2>3. elems[t] = 0
    BY <2>1, <2>2 DEF SearchInv, SearchPart
  <2>4. spc'[t] = "idle" /\ words'[t] = 0 /\ elems'[t] = 0 /\ outMap'[t] = <<>>
    BY <2>3 DEF WriteJson, IInv, TypeOK
  <2> QED
    BY <2>4 DEF SearchPart
<1> QED
  BY <1>1, <1>2 DEF SearchInv

(* Every step of the server keeps every search on its way.                 *)
LEMMA NextKeepsSearch == IInv /\ SearchInv /\ [Next]_vars => SearchInv'
<1> SUFFICES ASSUME IInv, SearchInv, [Next]_vars PROVE SearchInv'
  OBVIOUS
<1>1. CASE IndexNext /\ UNCHANGED searchVars
  BY <1>1, BuildKeepsSearch
<1>2. ASSUME NEW t \in Threads, NEW q \in Queries, StartSearch(t, q) PROVE SearchInv'
  BY <1>2, StartKeepsSearch
<1>3. ASSUME NEW t \in Threads, search(t) PROVE SearchInv'
  BY <1>3, CollectKeepsSearch, NextWordKeepsSearch, SortKeepsSearch, WriteKeepsSearch DEF search
<1>4. CASE UNCHANGED vars
  BY <1>4, PartFrame DEF SearchInv, vars, searchVars
<1> QED
  BY <1>1, <1>2, <1>3, <1>4 DEF Next

(* Every search is on its way to the service's answer in every reachable   *)
(* state.                                                                  *)
THEOREM SearchInvariance == Spec => []SearchInv
<1>1. Init => SearchInv
  BY DEF Init, SearchInit, SearchInv, SearchPart
<1> QED
  BY <1>1, NextKeepsSearch, Invariance, PTL DEF Spec

-----------------------------------------------------------------------------
(* The service computes its answer from the documents alone.               *)

(* What the service sees of a document that is indexed.                    *)
LEMMA ServiceDoc ==
    ASSUME IInv, bpc = "built", NEW q \in Queries, NEW d \in Ids, NEW c, c = d + 1
    PROVE  /\ c \in DOMAIN forwardIndex
           /\ Service!Matches(q, c) = Earners(q, d, Len(Cut[q]))
           /\ Service!Score(q, c) = Total(q, d, Len(Cut[q]))
<1> DEFINE n == Len(Cut[q])
           Tokens == [p \in Queries |-> [i \in DOMAIN Cut[p] |-> QueryWord(p, i)]]
           docs == IF bpc = "built"
                   THEN [e \in DOMAIN forwardIndex |->
                           [doc   |-> forwardIndex[e],
                            score |-> [k \in Word |-> Relevance(forwardIndex[e], k)]]]
                   ELSE <<>>
<1>1. /\ IndexTypeOK /\ forwardIndex \in Seq(DocInfo) /\ Cut[q] \in Seq(Word)
  BY IndexAssumption, SearcherAssumption DEF IInv, TypeOK, IndexTypeOK
<1>2. c \in DOMAIN forwardIndex
  BY <1>1 DEF Ids
<1>3. DOMAIN Cut[q] = 1..n
  BY <1>1
<1>4. Tokens[q] = [i \in 1..n |-> QueryWord(q, i)]
  BY <1>3
<1>5. docs[c].score = [k \in Word |-> Relevance(forwardIndex[c], k)]
  BY <1>2
<1>6. \A i \in 1..n : QueryWord(q, i) \in Word
  BY <1>1, EarnsType
<1>7. \A i \in 1..n : docs[c].score[Tokens[q][i]] = Earns(q, d, i)
  BY <1>4, <1>5, <1>6 DEF Earns
<1> HIDE DEF Tokens, docs
<1>8. DOMAIN Tokens[q] = 1..n
  BY <1>4
<1>9. Service!Matches(q, c) = {i \in DOMAIN Tokens[q] : docs[c].score[Tokens[q][i]] > 0}
  BY DEF Service!Matches, Tokens, docs
<1>10. Service!Score(q, c)
          = SumFunction([i \in DOMAIN Tokens[q] |-> docs[c].score[Tokens[q][i]]])
  <2>1. \A f : Service!SumFunction(f) = SumFunction(f)
    BY Zenon DEF Service!SumFunction, Service!SumFunctionOnSet, Service!FoldFunctionOnSet,
          Service!MapThenFoldSet, SumFunction, SumFunctionOnSet, FoldFunctionOnSet, MapThenFoldSet
  <2> QED
    BY <2>1, Zenon DEF Service!Score, Tokens, docs
<1>11. Service!Matches(q, c) = Earners(q, d, n)
  BY <1>7, <1>8, <1>9 DEF Earners
<1>12. [i \in DOMAIN Tokens[q] |-> docs[c].score[Tokens[q][i]]]
          = [i \in 1..n |-> Earns(q, d, i)]
  BY <1>7, <1>8
<1>13. Service!Score(q, c) = Total(q, d, n)
  BY <1>10, <1>12 DEF Total
<1> QED
  BY <1>2, <1>11, <1>13

(* The service's first matching token.                                     *)
LEMMA ServiceFirst ==
    ASSUME NEW q \in Queries, NEW c, NEW i \in Service!Matches(q, c),
           \A j \in Service!Matches(q, c) : i <= j,
           Cut[q] \in Seq(Word)
    PROVE  Service!FirstMatch(q, c) = QueryWord(q, i)
<1>1. Service!Matches(q, c) \subseteq DOMAIN Cut[q]
  BY DEF Service!Matches
<1>2. \A j \in Service!Matches(q, c) : j \in Int
  BY <1>1
<1>3. \A k \in Service!Matches(q, c) :
        (\A j \in Service!Matches(q, c) : k <= j) => k = i
  BY <1>2
<1>4. (CHOOSE k \in Service!Matches(q, c) : \A j \in Service!Matches(q, c) : k <= j) = i
  BY <1>3
<1>5. i \in DOMAIN Cut[q]
  BY <1>1
<1> QED
  BY <1>4, <1>5 DEF Service!FirstMatch

(* A map that holds every document's total for the whole query, sorted, is *)
(* a ranking of the service's hits.                                        *)
LEMMA SortedIsRanking ==
    ASSUME IInv, bpc = "built", NEW q \in Queries, NEW map, DOMAIN map \subseteq Ids,
           \A d \in Ids : Collected(q, Len(Cut[q]), map, d),
           NEW s \in SortedIds(map), NEW r, r = [i \in DOMAIN s |-> s[i] + 1]
    PROVE  /\ r \in Service!Rankings(q)
           /\ Service!Hits(q) = {} <=> DOMAIN s = {}
           /\ DOMAIN s = 1..Cardinality(DOMAIN map)
           /\ \A i \in DOMAIN s : s[i] \in DOMAIN map
<1> DEFINE n == Cardinality(DOMAIN map)
           hits == {d + 1 : d \in DOMAIN map}
<1>1. forwardIndex \in Seq(DocInfo) /\ Len(forwardIndex) \in Nat
  BY DEF IInv, TypeOK, IndexTypeOK
<1>2. IsFiniteSet(DOMAIN map) /\ n \in Nat
  <2>1. IsFiniteSet(Ids)
    BY <1>1, FS_Interval DEF Ids
  <2> QED
    BY <2>1, FS_Subset, FS_CardinalityType
<1>3. Service!Hits(q) = hits
  <2>1. Service!Hits(q) = {c \in DOMAIN forwardIndex : Service!Matches(q, c) # {}}
    BY DEF Service!Hits
  <2>2. \A d \in Ids : /\ d + 1 \in DOMAIN forwardIndex
                       /\ Service!Matches(q, d + 1) # {} <=> d \in DOMAIN map
    BY ServiceDoc DEF Collected
  <2>3. \A c \in DOMAIN forwardIndex : c - 1 \in Ids /\ c = (c - 1) + 1
    BY <1>1 DEF Ids
  <2> QED
    BY <2>1, <2>2, <2>3
<1>4. /\ s \in [1..n -> DOMAIN map]
      /\ \A i, j \in 1..n : s[i] = s[j] => i = j
      /\ \A d \in DOMAIN map : \E i \in 1..n : s[i] = d
      /\ \A i, j \in 1..n : i < j => map[s[i]].weight >= map[s[j]].weight
  BY DEF SortedIds, Bijection, Injection, Surjection, IsInjective
<1>5. /\ r \in [1..n -> hits]
      /\ \A i \in 1..n : r[i] = s[i] + 1 /\ s[i] \in Ids
  BY <1>4
<1>6. /\ \A i, j \in 1..n : r[i] = r[j] => i = j
      /\ \A c \in hits : \E i \in 1..n : r[i] = c
  BY <1>4, <1>5 DEF Ids
<1>7. Cardinality(hits) = n
  <2>1. r \in Bijection(1..n, hits)
    BY <1>5, <1>6, SMTT(30) DEF Bijection, Injection, Surjection, IsInjective
  <2>2. ExistsBijection(1..n, hits)
    BY <2>1 DEF ExistsBijection
  <2> QED
    BY <1>2, <2>2, FS_CountingElements
<1>8. \A i \in 1..n : Service!Score(q, r[i]) = map[s[i]].weight
  <2> SUFFICES ASSUME NEW i \in 1..n PROVE Service!Score(q, r[i]) = map[s[i]].weight
    OBVIOUS
  <2>1. PICK d \in Ids : d = s[i] /\ d \in DOMAIN map
    BY <1>4, <1>5
  <2>2. map[d].weight = Total(q, d, Len(Cut[q]))
    BY <2>1 DEF Collected
  <2>3. Service!Score(q, r[i]) = Total(q, d, Len(Cut[q]))
    BY <1>5, <2>1, ServiceDoc
  <2> QED
    BY <2>1, <2>2, <2>3
<1>9. \A i, j \in 1..n : i < j => Service!Score(q, r[i]) >= Service!Score(q, r[j])
  BY <1>4, <1>8
<1>10. r \in Service!Bijection(1..n, hits)
  BY <1>5, <1>6, SMTT(30) DEF Service!Bijection, Service!Injection, Service!Surjection, Service!IsInjective
<1>11. DOMAIN r = 1..n
  BY <1>5
<1> HIDE DEF hits, n
<1>12. r \in Service!Rankings(q)
  <2>1. \A S : Service!Cardinality(S) = Cardinality(S)
    BY Zenon DEF Service!Cardinality, Cardinality
  <2> QED
    BY <1>3, <1>7, <1>9, <1>10, <1>11, <2>1 DEF Service!Rankings
<1>13. Service!Hits(q) = {} <=> DOMAIN s = {}
  BY <1>3, <1>4, <1>6, <1>5
<1> QED
  BY <1>4, <1>12, <1>13 DEF n

(* Writing the answer is the service's reply.                              *)
LEMMA WriteIsReply ==
    ASSUME IInv, SearchInv, NEW t \in Threads, WriteJson(t)
    PROVE  Service!Reply(t)
<1>1. PICK q, map, s : q = query[t] /\ map = outMap[t] /\ s = sorted[t]
  OBVIOUS
<1>2. /\ spc[t] = "write" /\ bpc = "built" /\ q # NoQuery /\ q \in Queries
      /\ map \in [DOMAIN map -> [weight : Nat, keywords : Seq(Word)]]
      /\ \A d \in DOMAIN map : d \in Ids
      /\ s \in Seq(Nat)
  BY <1>1 DEF WriteJson, IInv, TypeOK, SearchAfterBuild, NoNullDoc, Ids
<1>3. Cut[q] \in Seq(Word) /\ Len(Cut[q]) \in Nat
  BY <1>2, IndexAssumption, SearcherAssumption
<1>4. words[t] = Len(Cut[q]) /\ s \in SortedIds(map)
  BY <1>1, <1>2 DEF SearchInv, SearchPart
<1>5. elems[t] = 0 /\ MapRight(q, words[t], elems[t], map)
  BY <1>1, <1>2, <1>3, <1>4 DEF SearchInv, SearchPart
<1>6. \A d \in Ids : Collected(q, Len(Cut[q]), map, d)
  BY <1>4, <1>5 DEF MapRight, Through, Walked
<1>7. PICK r : r = [i \in DOMAIN s |-> s[i] + 1]
  OBVIOUS
<1>8. /\ r \in Service!Rankings(q)
      /\ Service!Hits(q) = {} <=> DOMAIN s = {}
      /\ \A i \in DOMAIN s : s[i] \in DOMAIN map
  BY <1>2, <1>4, <1>6, <1>7, SortedIsRanking
<1> DEFINE a == IF s = <<>> THEN <<NothingElem>>
                ELSE [i \in DOMAIN s |->
                        JsonElem(forwardIndex[s[i] + 1], map[s[i]].keywords[1])]
<1>9. s = <<>> <=> DOMAIN s = {}
  BY <1>2
<1>10. a \in Service!Answers(q)
  <2>1. CASE s = <<>>
    BY <1>8, <1>9, <2>1 DEF Service!Answers
  <2>2. CASE s # <<>>
    <3>1. \A i \in DOMAIN s : /\ r[i] = s[i] + 1
                              /\ r[i] \in DOMAIN forwardIndex
                              /\ Service!FirstMatch(q, r[i]) = map[s[i]].keywords[1]
      <4> SUFFICES ASSUME NEW i \in DOMAIN s
                   PROVE  /\ r[i] = s[i] + 1
                          /\ r[i] \in DOMAIN forwardIndex
                          /\ Service!FirstMatch(q, r[i]) = map[s[i]].keywords[1]
        OBVIOUS
      <4>1. PICK d \in Ids : d = s[i] /\ d \in DOMAIN map
        BY <1>2, <1>8
      <4>2. PICK j \in Earners(q, d, Len(Cut[q])) :
              /\ \A k \in Earners(q, d, Len(Cut[q])) : j <= k
              /\ map[d].keywords[1] = QueryWord(q, j)
        BY <1>6, <4>1 DEF Collected
      <4>3. r[i] = d + 1
        BY <1>7, <4>1
      <4>4. r[i] \in DOMAIN forwardIndex /\ Service!Matches(q, r[i]) = Earners(q, d, Len(Cut[q]))
        BY <1>2, <4>3, ServiceDoc
      <4>5. Service!FirstMatch(q, r[i]) = QueryWord(q, j)
        BY <1>2, <1>3, <4>2, <4>4, ServiceFirst
      <4> QED
        BY <4>1, <4>2, <4>3, <4>4, <4>5
    <3>2. a = [i \in DOMAIN r |->
                 JsonElem(forwardIndex[r[i]], Service!FirstMatch(q, r[i]))]
      BY <1>7, <2>2, <3>1
    <3>3. \A i \in DOMAIN r : r[i] \in DOMAIN forwardIndex
      BY <1>7, <3>1
    <3>4. Service!Hits(q) # {}
      BY <1>8, <1>9, <2>2
    <3> DEFINE docs == IF bpc = "built"
                       THEN [e \in DOMAIN forwardIndex |->
                               [doc   |-> forwardIndex[e],
                                score |-> [k \in Word |-> Relevance(forwardIndex[e], k)]]]
                       ELSE <<>>
               b == [i \in DOMAIN r |-> JsonElem(docs[r[i]].doc, Service!FirstMatch(q, r[i]))]
    <3>5. \A c \in DOMAIN forwardIndex : docs[c].doc = forwardIndex[c]
      BY <1>2
    <3>6. b \in Service!Answers(q)
      <4>1. b \in {[i \in DOMAIN v |-> JsonElem(docs[v[i]].doc, Service!FirstMatch(q, v[i]))] :
                      v \in Service!Rankings(q)}
        <5> HIDE DEF docs
        <5> QED
          BY <1>8, Zenon
      <4> QED
        BY <3>4, <4>1, Zenon DEF Service!Answers
    <3> HIDE DEF docs, a
    <3>7. b = a
      BY <3>2, <3>3, <3>5
    <3> HIDE DEF b
    <3> QED
      BY <3>6, <3>7
  <2> QED
    BY <2>1, <2>2
<1>11. /\ response' = [response EXCEPT ![t] = a]
       /\ query' = [query EXCEPT ![t] = NoQuery]
       /\ UNCHANGED indexVars
  BY <1>1 DEF WriteJson
<1> HIDE DEF a
<1> QED
  BY <1>1, <1>2, <1>10, <1>11, ZenonT(40) DEF Service!Reply, indexVars, Relevance, Occurrences

(* Every step of the server is a step of the service or leaves it alone.   *)
LEMMA SearcherStepIsServiceStep ==
    ASSUME IInv, SearchInv, [Next]_vars
    PROVE  [Service!ServiceNext]_Service!serviceVars
<1>1. CASE IndexNext /\ UNCHANGED searchVars
  <2>1. bpc # "built"
    BY <1>1 DEF IndexNext, GetInstances, DictionaryAbort, OpenRaw, OpenRawFails,
           buildForwardIndex, ShortRecordCrash, buildInvertedIndex, EndOfRaw
  <2>2. CASE bpc' = "built"
    <3>1. Service!Open
      BY <1>1, <2>1, <2>2 DEF Service!Open, searchVars
    <3> QED
      BY <3>1 DEF Service!ServiceNext
  <2>3. CASE bpc' # "built"
    BY <1>1, <2>1, <2>3 DEF Service!serviceVars, searchVars
  <2> QED
    BY <2>2, <2>3
<1>2. ASSUME NEW t \in Threads, NEW q \in Queries, StartSearch(t, q)
      PROVE  Service!ServiceNext
  <2>1. query[t] = NoQuery
    BY <1>2 DEF StartSearch, IInv, TypeOK
  <2>2. Service!Ask(t, q)
    BY <1>2, <2>1 DEF StartSearch, Service!Ask, indexVars, Relevance, Occurrences
  <2> QED
    BY <2>2 DEF Service!ServiceNext
<1>3. ASSUME NEW t \in Threads, CollectElem(t) \/ NextWord(t) \/ SortHits(t)
      PROVE  UNCHANGED Service!serviceVars
  <2>1. UNCHANGED <<indexVars, query, response>>
    BY <1>3 DEF CollectElem, NextWord, SortHits
  <2> QED
    BY <2>1 DEF Service!serviceVars, indexVars, Relevance, Occurrences
<1>4. ASSUME NEW t \in Threads, WriteJson(t)
      PROVE  Service!ServiceNext
  BY <1>4, WriteIsReply DEF Service!ServiceNext
<1>5. CASE UNCHANGED vars
  BY <1>5 DEF vars, searchVars, Service!serviceVars, indexVars, Relevance, Occurrences
<1> QED
  BY <1>1, <1>2, <1>3, <1>4, <1>5 DEF Next, search

(* The server implements the search service: every answer is what a scan   *)
(* of the documents would give, whatever the threads' interleaving.        *)
THEOREM SearcherImplementsService == Spec => ImplementsService
<1>1. Init => Service!ServiceInit
  BY DEF Init, IndexInit, SearchInit, Service!ServiceInit
<1> QED
  BY <1>1, SearcherStepIsServiceStep, Invariance, SearchInvariance, PTL
     DEF Spec, ImplementsService, Service!ServiceSpec
=============================================================================
