------------------------------ MODULE Searcher ------------------------------
(***************************************************************************)
(* ns_searcher::searcher: initSearcher builds the index (module Index);    *)
(* afterwards the threads of the HTTP server's pool call search            *)
(* concurrently on the one shared searcher.  No lock protects the index:   *)
(* the threads rely on nobody writing it once it is built.                 *)
(*                                                                         *)
(* A search is the steps in which a thread reads the shared index: one per *)
(* element of an inverted list and one per token of the query, the sort,   *)
(* and the walk over the sorted documents (getForwardIndex).               *)
(***************************************************************************)
EXTENDS Index, Functions

CONSTANTS
    Threads,     \* the pool threads that run the "/s" handler
    Queries,     \* the queries they are given
    EmptyText,   \* the empty string
    NoQuery,     \* a thread that runs no search
    NoResponse   \* a thread that has completed none

ASSUME SearcherAssumption ==
    /\ Queries \subseteq Text
    /\ EmptyText \in Text
    /\ NoQuery \notin Queries

VARIABLES
    query,      \* per thread: the argument of search, or NoQuery
    words,      \* per thread: tokens of the query it is through with
    elems,      \* per thread: elements of the current list it is through with
    outMap,     \* per thread: invertedElemOutMap, keyed by document id
    sorted,     \* per thread: allInvertedElemOut after std::sort, as ids
    spc,        \* per thread: where it is in search
    response    \* per thread: the root of the last JSON value written

searchVars == <<query, words, elems, outMap, sorted, spc, response>>
vars == <<indexVars, searchVars>>

-----------------------------------------------------------------------------
(* boost::to_lower(word) of the i-th token of cutString(query).            *)
QueryWord(q, i) == Lower[Cut[q][i]]

(* The list a thread walks: that of its next token.                        *)
CurrentList(t) == getInvertedList(QueryWord(query[t], words[t] + 1))

(* Mutant: a document found before is overwritten.                         *)
AddElemOverwrites(map, elem) ==
    [d \in DOMAIN map \cup {elem.docId} |->
        IF d # elem.docId THEN map[d]
        ELSE [weight |-> elem.weight, keywords |-> <<elem.keyword>>]]

(* One element of an inverted list in the map: operator[] creates a new    *)
(* document's entry value-initialised, weight 0 and no keywords; the       *)
(* element's weight is added and its keyword appended.                     *)
AddElem(map, elem) ==
    [d \in DOMAIN map \cup {elem.docId} |->
        IF d # elem.docId THEN map[d]
        ELSE IF d \in DOMAIN map
        THEN [weight   |-> map[d].weight + elem.weight,
              keywords |-> Append(map[d].keywords, elem.keyword)]
        ELSE [weight |-> elem.weight, keywords |-> <<elem.keyword>>]]

(* What std::sort may make of the map's elements: the hash map yields them *)
(* in any order and the sort is not stable, so documents of equal weight   *)
(* come in any order.                                                      *)
SortedIds(map) ==
    {s \in Bijection(1..Cardinality(DOMAIN map), DOMAIN map) :
        \A i, j \in DOMAIN s : i < j => map[s[i]].weight >= map[s[j]].weight}

(* One element of the JSON array; desc is what the summary is made from:   *)
(* the arguments of getDesc, which module Desc models, or a literal.       *)
JsonElem(doc, word) ==
    [url   |-> doc.url,
     title |-> IF doc.title = EmptyText THEN "TITLE" ELSE doc.title,
     desc  |-> <<doc.content, word>>]

NothingElem == [url |-> "home", title |-> "Search nothing!",
                desc |-> <<"Search nothing!">>]

-----------------------------------------------------------------------------
SearchInit ==
    /\ query = [t \in Threads |-> NoQuery]
    /\ words = [t \in Threads |-> 0]
    /\ elems = [t \in Threads |-> 0]
    /\ outMap = [t \in Threads |-> <<>>]
    /\ sorted = [t \in Threads |-> <<>>]
    /\ spc = [t \in Threads |-> "idle"]
    /\ response = [t \in Threads |-> NoResponse]

Init == IndexInit /\ SearchInit

(* The handler calls search; svr.listen runs only after initSearcher.      *)
StartSearch(t, q) ==
    /\ bpc = "built"
    /\ spc[t] = "idle"
    /\ query' = [query EXCEPT ![t] = q]
    /\ spc' = [spc EXCEPT ![t] = "collect"]
    /\ UNCHANGED <<indexVars, words, elems, outMap, sorted, response>>

CollectElem(t) ==
    /\ spc[t] = "collect"
    /\ words[t] < Len(Cut[query[t]])
    /\ elems[t] < Len(CurrentList(t))
    /\ outMap' = [outMap EXCEPT ![t] = AddElem(@, CurrentList(t)[elems[t] + 1])]
    /\ elems' = [elems EXCEPT ![t] = @ + 1]
    /\ UNCHANGED <<indexVars, query, words, sorted, spc, response>>

(* Mutants: a token without a list is looked up with operator[], and a     *)
(* token without a list is never left.                                     *)
NextWordInserts(t) ==
    /\ spc[t] = "collect"
    /\ words[t] < Len(Cut[query[t]])
    /\ elems[t] = Len(CurrentList(t))
    /\ words' = [words EXCEPT ![t] = @ + 1]
    /\ elems' = [elems EXCEPT ![t] = 0]
    /\ invertedIndex' =
         [k \in DOMAIN invertedIndex \cup {QueryWord(query[t], words[t] + 1)} |->
            getInvertedList(k)]
    /\ UNCHANGED <<raw, bpc, line, stopKeywordMap, forwardIndex, count, crashed,
                   query, outMap, sorted, spc, response>>

NextWordStays(t) ==
    /\ spc[t] = "collect"
    /\ words[t] < Len(Cut[query[t]])
    /\ elems[t] = Len(CurrentList(t))
    /\ words' = [words EXCEPT ![t] = IF CurrentList(t) = <<>> THEN @ ELSE @ + 1]
    /\ elems' = [elems EXCEPT ![t] = 0]
    /\ UNCHANGED <<indexVars, query, outMap, sorted, spc, response>>

(* The list is walked, or there is none and the loop continues at once.    *)
NextWord(t) ==
    /\ spc[t] = "collect"
    /\ words[t] < Len(Cut[query[t]])
    /\ elems[t] = Len(CurrentList(t))
    /\ words' = [words EXCEPT ![t] = @ + 1]
    /\ elems' = [elems EXCEPT ![t] = 0]
    /\ UNCHANGED <<indexVars, query, outMap, sorted, spc, response>>

SortHits(t) ==
    /\ spc[t] = "collect"
    /\ words[t] = Len(Cut[query[t]])
    /\ \E s \in SortedIds(outMap[t]) : sorted' = [sorted EXCEPT ![t] = s]
    /\ spc' = [spc EXCEPT ![t] = "write"]
    /\ UNCHANGED <<indexVars, query, words, elems, outMap, response>>

(* The pointer getForwardIndex returns, null when the id is out of range,  *)
(* is dereferenced without a look: NoNullDoc says why that is safe.  The   *)
(* locals of search end with it.                                           *)
WriteJson(t) ==
    /\ spc[t] = "write"
    /\ response' = [response EXCEPT ![t] =
          IF sorted[t] = <<>> THEN <<NothingElem>>
          ELSE [i \in DOMAIN sorted[t] |->
                  JsonElem(forwardIndex[sorted[t][i] + 1],
                           outMap[t][sorted[t][i]].keywords[1])]]
    /\ spc' = [spc EXCEPT ![t] = "idle"]
    /\ query' = [query EXCEPT ![t] = NoQuery]
    /\ words' = [words EXCEPT ![t] = 0]
    /\ outMap' = [outMap EXCEPT ![t] = <<>>]
    /\ sorted' = [sorted EXCEPT ![t] = <<>>]
    /\ UNCHANGED <<indexVars, elems>>

search(t) == CollectElem(t) \/ NextWord(t) \/ SortHits(t) \/ WriteJson(t)

Next ==
    \/ IndexNext /\ UNCHANGED searchVars
    \/ /\ crashed = "no"
       /\ \E t \in Threads :
            \/ \E q \in Queries : StartSearch(t, q)
            \/ search(t)

Spec == Init /\ [][Next]_vars

(* A thread that runs search is never blocked by another and is scheduled. *)
FairSpec == Spec /\ \A t \in Threads : WF_vars(search(t))

-----------------------------------------------------------------------------
TypeOK ==
    /\ IndexTypeOK
    /\ query \in [Threads -> Queries \cup {NoQuery}]
    /\ words \in [Threads -> Nat]
    /\ elems \in [Threads -> Nat]
    /\ spc \in [Threads -> {"idle", "collect", "write"}]
    /\ \A t \in Threads : (query[t] = NoQuery) <=> (spc[t] = "idle")
    /\ DOMAIN outMap = Threads
    /\ \A t \in Threads :
         /\ DOMAIN outMap[t] \subseteq Nat
         /\ outMap[t] \in [DOMAIN outMap[t] ->
                            [weight : Nat, keywords : Seq(Word)]]
    /\ sorted \in [Threads -> Seq(Nat)]
    /\ DOMAIN response = Threads

(* The pointer search dereferences at searcher.hpp:145 is never null and   *)
(* the keyword it takes at searcher.hpp:152 exists: every document id a    *)
(* thread has collected was put on a list by buildInvertedIndex and is     *)
(* inside the forward index of the finished build, and the sort only       *)
(* permutes what was collected.                                            *)
NoNullDoc ==
    \A t \in Threads :
        /\ \A d \in DOMAIN outMap[t] :
              d \in 0..(Len(forwardIndex) - 1) /\ outMap[t][d].keywords # <<>>
        /\ \A i \in DOMAIN sorted[t] : sorted[t][i] \in DOMAIN outMap[t]

(* No thread searches an index that is still being built.                  *)
SearchAfterBuild == \A t \in Threads : spc[t] # "idle" => bpc = "built"

(* The index is shared without a lock: once the build is over no step of   *)
(* any thread changes it, a look-up of an unknown word included.           *)
IndexFrozen ==
    [][bpc = "built" => UNCHANGED <<forwardIndex, invertedIndex, bpc>>]_vars

(* The answers are those of the service: the index and the threads'        *)
(* interleaved walks over it compute what a scan of the documents would.   *)
Service == INSTANCE SearchService WITH
    Tokens  <- [q \in Queries |-> [i \in DOMAIN Cut[q] |-> QueryWord(q, i)]],
    ItemOf  <- JsonElem,
    Nothing <- NothingElem,
    up      <- bpc = "built",
    docs    <- IF bpc = "built"
               THEN [d \in DOMAIN forwardIndex |->
                       [doc   |-> forwardIndex[d],
                        score |-> [k \in Word |-> Relevance(forwardIndex[d], k)]]]
               ELSE <<>>,
    asked   <- query,
    answer  <- response

ImplementsService == Service!ServiceSpec

(* Every search a thread starts is answered.                               *)
SearchAnswered ==
    \A t \in Threads : query[t] # NoQuery ~> query[t] = NoQuery
=============================================================================
