-------------------------------- MODULE Desc --------------------------------
(***************************************************************************)
(* searcher::getDesc: the summary of a document around the first place     *)
(* where its content has the keyword.  A content is a sequence of bytes; a *)
(* summary is the half-open range of content positions it shows, counted   *)
(* from 0 as in the code, with "..." before and after it.                  *)
(*                                                                         *)
(* search calls getDesc with every content and keyword a posting joins;    *)
(* here the two are any bytes of the given sets, so the keyword need not   *)
(* occur, may end the content, and may be longer than nextStep.            *)
(***************************************************************************)
EXTENDS Integers, Sequences

CONSTANTS
    Byte,        \* the bytes of a content
    tolower,     \* [Byte -> Byte], std::tolower
    Contents,    \* the contents getDesc is given
    Keywords,    \* the keywords it is given
    prevStep,    \* 50 in the code
    nextStep,    \* 100 in the code
    SizeMax      \* the largest size_t

ASSUME DescAssumption ==
    /\ tolower \in [Byte -> Byte]
    /\ \A b \in Byte : tolower[tolower[b]] = tolower[b]
    /\ Contents \subseteq Seq(Byte)
    /\ Keywords \subseteq Seq(Byte)
    /\ prevStep \in Nat
    /\ nextStep \in Nat
    /\ SizeMax \in Nat

VARIABLES content, keyword, desc

descVars == <<content, keyword, desc>>

-----------------------------------------------------------------------------
(* Mutant: the last place is not tried.                                    *)
FoundButLast(c, k) ==
    {p \in 0..(Len(c) - Len(k) - 1) :
        \A i \in 1..Len(k) : tolower[c[p + i]] = tolower[k[i]]}

(* Where std::search finds keyword k in content c, ignoring case; an empty *)
(* keyword is found everywhere, the end included.                          *)
Found(c, k) ==
    {p \in 0..(Len(c) - Len(k)) :
        \A i \in 1..Len(k) : tolower[c[p + i]] = tolower[k[i]]}

First(S) == CHOOSE p \in S : \A q \in S : p <= q

(* iter == content.end().                                                  *)
Missing(c, k) == Found(c, k) = {} \/ First(Found(c, k)) = Len(c)

begin(pos) == IF pos > prevStep THEN pos - prevStep ELSE 0

(* content.size() - 1, in unsigned arithmetic.                             *)
LastByte(c) == IF c = <<>> THEN SizeMax ELSE Len(c) - 1

(* Mutants: one is added to the size instead of subtracted, and the second *)
(* step is counted from begin.                                             *)
EndPastSize(c, pos) == IF pos + nextStep < Len(c) + 1 THEN pos + nextStep ELSE Len(c) + 1

EndFromBegin(c, pos) ==
    IF begin(pos) + nextStep < LastByte(c) THEN begin(pos) + nextStep ELSE LastByte(c)

end(c, pos) == IF pos + nextStep < LastByte(c) THEN pos + nextStep ELSE LastByte(c)

Message(m) == [kind |-> m, begin |-> 0, end |-> 0, head |-> FALSE, tail |-> FALSE]

Summary(c, pos) ==
    IF begin(pos) >= end(c, pos) THEN Message("nothing!")
    ELSE [kind |-> "text", begin |-> begin(pos), end |-> end(c, pos),
          head |-> begin(pos) > 0, tail |-> end(c, pos) < Len(c)]

NoDesc == Message("none")

DescInit ==
    /\ content \in Contents
    /\ keyword \in Keywords
    /\ desc = NoDesc

getDesc ==
    /\ desc = NoDesc
    /\ desc' = IF Missing(content, keyword)
               THEN Message("keyword does not exist!")
               ELSE Summary(content, First(Found(content, keyword)))
    /\ UNCHANGED <<content, keyword>>

DescSpec == DescInit /\ [][getDesc]_descVars

-----------------------------------------------------------------------------
(* The summary lies inside the content: substr does not throw, and the     *)
(* unsigned content.size() - 1 never wraps around, because a content in    *)
(* which something is found is not empty.  It is no longer than the two    *)
(* steps together, and it starts no later than the keyword.                *)
SummaryInBounds ==
    desc.kind = "text" =>
        /\ 0 <= desc.begin
        /\ desc.begin < desc.end
        /\ desc.end < Len(content)
        /\ desc.end - desc.begin <= prevStep + nextStep
        /\ desc.begin <= First(Found(content, keyword))
        /\ First(Found(content, keyword)) <= desc.end

(* The summary shows the whole first occurrence of the keyword whenever    *)
(* the keyword is no longer than nextStep and does not end the content.    *)
Shown(p) == desc.kind = "text" /\ desc.begin <= p /\ p + Len(keyword) <= desc.end

KeywordShown ==
    desc # NoDesc =>
        \A p \in Found(content, keyword) :
            /\ \A q \in Found(content, keyword) : p <= q
            /\ 0 < Len(keyword)
            /\ Len(keyword) <= nextStep
            /\ p + Len(keyword) < Len(content)
            => Shown(p)
=============================================================================
