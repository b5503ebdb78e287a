------------------------------- MODULE Index -------------------------------
(***************************************************************************)
(* ns_index::index and the part of ns_util::jiebaUtil it uses: the start   *)
(* of searcherServerd, in which the main thread loads the stop words and   *)
(* builds the forward and the inverted index from data/output/raw.         *)
(*                                                                         *)
(* Texts (titles, contents, urls, queries) and tokens are abstract.  Cut   *)
(* is what Jieba::CutForSearch returns for a text and Lower is             *)
(* boost::to_lower.  A line of the raw file is represented by the list of  *)
(* fields stringUtil::split returns for it; a well-formed line has three.  *)
(* Document ids are the code's: they start at 0, so document d is          *)
(* forwardIndex[d + 1].                                                    *)
(***************************************************************************)
EXTENDS Integers, Sequences, FiniteSets

CONSTANTS
    Text,        \* the texts that can be a field or a query
    Word,        \* the tokens of the segmenter
    Cut,         \* [Text -> Seq(Word)], Jieba::CutForSearch
    Lower,       \* [Word -> Word], boost::to_lower
    StopWords,   \* the lines of stop_words.utf8
    RawFiles,    \* the possible raw files, each a sequence of split lines
    StrayText    \* what an out-of-range read of fileResult may yield

ASSUME IndexAssumption ==
    /\ Cut \in [Text -> Seq(Word)]
    /\ Lower \in [Word -> Word]
    /\ StopWords \subseteq Word
    /\ RawFiles \subseteq Seq(Seq(Text))
    /\ StrayText \subseteq Text

VARIABLES
    raw,              \* the content of data/output/raw
    bpc,              \* where the main thread is in initSearcher
    line,             \* the lines std::getline has consumed
    stopKeywordMap,   \* keys of jiebaUtil::_stopKeywordMap
    forwardIndex,     \* index::forwardIndex
    invertedIndex,    \* index::invertedIndex
    count,            \* buildIndex's count of indexed documents
    crashed           \* "no", or what killed the process

indexVars == <<raw, bpc, line, stopKeywordMap, forwardIndex, invertedIndex,
               count, crashed>>

DocInfo == [title : Text, content : Text, url : Text, docId : Nat]
InvertedElem == [docId : Nat, keyword : Word, weight : Nat]

-----------------------------------------------------------------------------
(* What cutStringNoStop keeps of a text: the positions whose lower-cased   *)
(* token is no key of the stop map.                                        *)
cutStringNoStop(text) ==
    {i \in DOMAIN Cut[text] : Lower[Cut[text][i]] \notin stopKeywordMap}

(* Mutant: the counting loop stops one token early.                        *)
KeywordsOfAllButLast(text) ==
    {Lower[Cut[text][i]] : i \in cutStringNoStop(text) \ {Len(Cut[text])}}

(* The keys the two counting loops put into keywordsMap for one text, and  *)
(* the count they reach for a key.                                         *)
KeywordsOf(text) == {Lower[Cut[text][i]] : i \in cutStringNoStop(text)}

KeywordCnt(text, k) ==
    Cardinality({i \in cutStringNoStop(text) : Lower[Cut[text][i]] = k})

titleWeight == 40
contentWeight == 1

(* Mutant: the two weights are swapped.                                    *)
WeightSwapped(doc, k) ==
    KeywordCnt(doc.title, k) * contentWeight
        + KeywordCnt(doc.content, k) * titleWeight

Weight(doc, k) ==
    KeywordCnt(doc.title, k) * titleWeight
        + KeywordCnt(doc.content, k) * contentWeight

(* index::getInvertedList: find, never operator[]; a missing keyword gives *)
(* a null pointer, here the empty list, and leaves the map alone.          *)
getInvertedList(k) ==
    IF k \in DOMAIN invertedIndex THEN invertedIndex[k] ELSE <<>>

-----------------------------------------------------------------------------
IndexInit ==
    /\ raw \in RawFiles
    /\ bpc = "getInstance"
    /\ line = 0
    /\ stopKeywordMap = {}
    /\ forwardIndex = <<>>
    /\ invertedIndex = <<>>
    /\ count = 0
    /\ crashed = "no"

(* initSearcher obtains both singletons; the constructor call is followed  *)
(* by initJiebaUtil, whose result is ignored: if the stop word file cannot *)
(* be opened (any more) the map stays empty and the start goes on.         *)
GetInstances ==
    /\ bpc = "getInstance"
    /\ stopKeywordMap' \in {StopWords, {}}
    /\ bpc' = "open"
    /\ UNCHANGED <<raw, line, forwardIndex, invertedIndex, count, crashed>>

(* The constructor of Jieba aborts when a dictionary cannot be opened.     *)
DictionaryAbort ==
    /\ bpc = "getInstance"
    /\ crashed' = "dictionary"
    /\ UNCHANGED <<raw, bpc, line, stopKeywordMap, forwardIndex,
                   invertedIndex, count>>

OpenRaw ==
    /\ bpc = "open"
    /\ bpc' = "getline"
    /\ UNCHANGED <<raw, line, stopKeywordMap, forwardIndex, invertedIndex,
                   count, crashed>>

(* buildIndex returns false, initSearcher does not look at it.             *)
OpenRawFails ==
    /\ bpc = "open"
    /\ bpc' = "built"
    /\ UNCHANGED <<raw, line, stopKeywordMap, forwardIndex, invertedIndex,
                   count, crashed>>

(* fileResult[i]: the field where the line has one; past the end of the    *)
(* vector the read is undefined and yields some stray text if the process  *)
(* survives it.                                                            *)
FieldAt(fileResult, i) ==
    IF i \in DOMAIN fileResult THEN {fileResult[i]} ELSE StrayText

(* Mutants: the id is taken after push_back, or as the last used one.      *)
NewDocAfterPush(t, c, u) ==
    [title |-> t, content |-> c, url |-> u, docId |-> Len(forwardIndex) + 1]

NewDocLastUsed(t, c, u) ==
    [title |-> t, content |-> c, url |-> u, docId |-> Len(forwardIndex) - 1]

(* The document made of the fields: its id is forwardIndex.size() before   *)
(* the push_back.                                                          *)
NewDoc(t, c, u) ==
    [title |-> t, content |-> c, url |-> u, docId |-> Len(forwardIndex)]

buildForwardIndex ==
    /\ bpc = "getline"
    /\ line < Len(raw)
    /\ \E t \in FieldAt(raw[line + 1], 1), c \in FieldAt(raw[line + 1], 2),
          u \in FieldAt(raw[line + 1], 3) :
         forwardIndex' = Append(forwardIndex, NewDoc(t, c, u))
    /\ line' = line + 1
    /\ bpc' = "inverted"
    /\ UNCHANGED <<raw, stopKeywordMap, invertedIndex, count, crashed>>

(* The other outcome of reading past the end of fileResult.                *)
ShortRecordCrash ==
    /\ bpc = "getline"
    /\ line < Len(raw)
    /\ Len(raw[line + 1]) < 3
    /\ crashed' = "shortRecord"
    /\ UNCHANGED <<raw, bpc, line, stopKeywordMap, forwardIndex,
                   invertedIndex, count>>

(* buildInvertedIndex on the document just appended: one element per key   *)
(* of keywordsMap, pushed on the key's list, which operator[] creates when *)
(* it is missing.                                                          *)
buildInvertedIndex ==
    /\ bpc = "inverted"
    /\ LET doc  == forwardIndex[Len(forwardIndex)]
           keys == KeywordsOf(doc.title) \cup KeywordsOf(doc.content)
       IN  invertedIndex' =
             [k \in DOMAIN invertedIndex \cup keys |->
                IF k \in keys
                THEN Append(getInvertedList(k),
                        [docId |-> doc.docId, keyword |-> k,
                         weight |-> Weight(doc, k)])
                ELSE invertedIndex[k]]
    /\ count' = count + 1
    /\ bpc' = "getline"
    /\ UNCHANGED <<raw, line, stopKeywordMap, forwardIndex, crashed>>

EndOfRaw ==
    /\ bpc = "getline"
    /\ line = Len(raw)
    /\ bpc' = "built"
    /\ UNCHANGED <<raw, line, stopKeywordMap, forwardIndex, invertedIndex,
                   count, crashed>>

IndexNext ==
    /\ crashed = "no"
    /\ \/ GetInstances
       \/ DictionaryAbort
       \/ OpenRaw
       \/ OpenRawFails
       \/ buildForwardIndex
       \/ ShortRecordCrash
       \/ buildInvertedIndex
       \/ EndOfRaw

-----------------------------------------------------------------------------
IndexTypeOK ==
    /\ raw \in RawFiles
    /\ bpc \in {"getInstance", "open", "getline", "inverted", "built"}
    /\ line \in 0..Len(raw)
    /\ stopKeywordMap \in SUBSET Word
    /\ forwardIndex \in Seq(DocInfo)
    /\ DOMAIN invertedIndex \subseteq Word
    /\ invertedIndex \in [DOMAIN invertedIndex -> Seq(InvertedElem)]
    /\ count \in Nat
    /\ crashed \in {"no", "dictionary", "shortRecord"}

(* Every document appended to the forward index is inverted before the     *)
(* next line is read, so only the document in work is missing from the     *)
(* inverted index (buildIndex, index.hpp:142-162).                         *)
BuildInStep ==
    Len(forwardIndex) = IF bpc = "inverted" THEN count + 1 ELSE count

(* A document's id is its position in the forward index, which is how      *)
(* getForwardIndex looks it up.                                            *)
IdsArePositions ==
    \A i \in DOMAIN forwardIndex : forwardIndex[i].docId = i - 1

(* How often keyword k, in lower case, is a token of a text: written from  *)
(* the documents, without the stop map or the counting loops.              *)
Occurrences(text, k) ==
    Cardinality({i \in DOMAIN Cut[text] : Lower[Cut[text][i]] = k})

(* The weight document doc earns for keyword k.                            *)
Relevance(doc, k) ==
    IF k \in stopKeywordMap THEN 0
    ELSE 40 * Occurrences(doc.title, k) + Occurrences(doc.content, k)

(* Nothing wrong is in the inverted index: every posting of a keyword      *)
(* names an indexed document that contains it, with the weight its text    *)
(* earns, and no document is posted twice for a keyword because the ids of *)
(* a list increase strictly (index.hpp:239-248; search adds the weights of *)
(* a list up, so a double posting would count a document twice).           *)
PostingsSound ==
    \A k \in DOMAIN invertedIndex : \A i \in DOMAIN invertedIndex[k] :
        LET p == invertedIndex[k][i]
        IN  /\ p.docId < count
            /\ p.keyword = k
            /\ p.weight = Relevance(forwardIndex[p.docId + 1], k)
            /\ p.weight > 0
            /\ \A j \in 1..(i - 1) : invertedIndex[k][j].docId < p.docId

(* Nothing is missing from it: an indexed document that earns a weight for *)
(* a keyword is on the keyword's list.                                     *)
PostingsComplete ==
    \A d \in 1..count : \A k \in Word :
        Relevance(forwardIndex[d], k) > 0 =>
            \E i \in DOMAIN getInvertedList(k) :
                getInvertedList(k)[i].docId = d - 1
=============================================================================
