--------------------------- MODULE SearchService ---------------------------
(***************************************************************************)
(* What the search of searcherServerd promises its clients, with no index  *)
(* and no intermediate state: once the server is up it holds a list of     *)
(* documents that never changes; each worker takes a query and answers it  *)
(* with the documents that contain a token of the query, every one once,   *)
(* most relevant first, computed from the documents themselves; when there *)
(* is none it answers the "Search nothing!" element.                       *)
(***************************************************************************)
EXTENDS Integers, Sequences, FiniteSets, Functions

CONSTANTS
    Threads,          \* the worker threads
    Queries,          \* the queries clients send
    NoQuery,          \* an idle worker's query
    NoResponse,       \* what a worker has before its first answer
    Tokens,           \* [Queries -> sequences]: a query's lower-cased tokens
    ItemOf(_, _),     \* the answer's element for a document and a keyword
    Nothing           \* the element that says nothing was found

VARIABLES
    up,        \* the server takes requests
    docs,      \* its documents: each a text and a score for every keyword
    asked,     \* per worker: the query it is answering, or NoQuery
    answer     \* per worker: the last answer it completed

serviceVars == <<up, docs, asked, answer>>

(* The positions of query q's tokens for which document d earns a weight.  *)
Matches(q, d) == {i \in DOMAIN Tokens[q] : docs[d].score[Tokens[q][i]] > 0}

Hits(q) == {d \in DOMAIN docs : Matches(q, d) # {}}

(* A token that occurs twice in the query counts twice.                    *)
Score(q, d) ==
    SumFunction([i \in DOMAIN Tokens[q] |-> docs[d].score[Tokens[q][i]]])

FirstMatch(q, d) ==
    Tokens[q][CHOOSE i \in Matches(q, d) : \A j \in Matches(q, d) : i <= j]

(* Every hit once, in an order in which the scores do not increase.        *)
Rankings(q) ==
    {s \in Bijection(1..Cardinality(Hits(q)), Hits(q)) :
        \A i, j \in DOMAIN s : i < j => Score(q, s[i]) >= Score(q, s[j])}

(* The answers a query may get.                                            *)
Answers(q) ==
    IF Hits(q) = {} THEN {<<Nothing>>}
    ELSE {[i \in DOMAIN s |-> ItemOf(docs[s[i]].doc, FirstMatch(q, s[i]))] :
            s \in Rankings(q)}

-----------------------------------------------------------------------------
ServiceInit ==
    /\ up = FALSE
    /\ docs = <<>>
    /\ asked = [t \in Threads |-> NoQuery]
    /\ answer = [t \in Threads |-> NoResponse]

(* The server comes up with whatever documents it could load.              *)
Open ==
    /\ ~up
    /\ up' = TRUE
    /\ UNCHANGED <<asked, answer>>

Ask(t, q) ==
    /\ up
    /\ asked[t] = NoQuery
    /\ asked' = [asked EXCEPT ![t] = q]
    /\ UNCHANGED <<up, docs, answer>>

Reply(t) ==
    /\ asked[t] # NoQuery
    /\ \E a \in Answers(asked[t]) : answer' = [answer EXCEPT ![t] = a]
    /\ asked' = [asked EXCEPT ![t] = NoQuery]
    /\ UNCHANGED <<up, docs>>

ServiceNext ==
    \/ Open
    \/ \E t \in Threads : Reply(t) \/ \E q \in Queries : Ask(t, q)

ServiceSpec == ServiceInit /\ [][ServiceNext]_serviceVars
=============================================================================
