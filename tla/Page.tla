-------------------------------- MODULE Page --------------------------------
(***************************************************************************)
(* The search page.  Search() sends what is typed, as it is, behind        *)
(* "/s?word="; the browser makes a request line of it, httplib takes the   *)
(* word out of the line, and BuildHtml shows the answer.  Requests run     *)
(* side by side, on connections and workers of their own: answers come in  *)
(* any order, and one that fails has no handler.                           *)
(*                                                                         *)
(* A query is a sequence of bytes, its characters in UTF-8.  A title is a  *)
(* sequence of characters; "amp;", "lt;" and "gt;" each are one, so that   *)
(* an escape in HTML is "&" and one of them.                               *)
(***************************************************************************)
EXTENDS Integers, Sequences, SequencesExt

CONSTANTS
    Queries,      \* what users type
    Titles,       \* the titles of documents
    MaxSearches   \* bound on the searches of a page

ASSUME PageAssumption ==
    /\ Queries \subseteq Seq(0..255)
    /\ Titles \subseteq Seq(STRING)
    /\ MaxSearches \in Nat

VARIABLES
    sent,      \* the queries sent, in their order
    pending,   \* the searches not answered yet, by their numbers
    alone,     \* history: the last search was sent with none pending
    arrived,   \* the searches whose answer has been shown
    result     \* the items of the list under the search box

pageVars == <<sent, pending, alone, arrived, result>>

-----------------------------------------------------------------------------
(* ASCII codes.                                                            *)
Space == 32
Hash == 35
Percent == 37
Ampersand == 38
Plus == 43
EqualsSign == 61
LowerU == 117

Before(s, c) ==
    LET at == {i \in DOMAIN s : s[i] = c}
    IN  IF at = {} THEN s ELSE SubSeq(s, 1, (CHOOSE i \in at : \A k \in at : i <= k) - 1)

(* A browser strips spaces and control characters from the end of a URL.   *)
Trimmed(s) == SubSeq(s, 1, Max({i \in DOMAIN s : s[i] > Space} \cup {0}))

(* It drops tabs and line breaks, writes control characters, a space, any  *)
(* of "'<> and what is beyond ASCII in hexadecimal, and leaves "%", "+",   *)
(* "&" and "=" alone.                                                      *)
Breaks == {9, 10, 13}
Escaped == (0..Space \cup {34, 39, 60, 62} \cup 127..255) \ Breaks

Hex(n) == IF n < 10 THEN 48 + n ELSE 55 + n

Encoded(b) ==
    CASE b \in Breaks -> <<>>
      [] b \in Escaped -> <<Percent, Hex(b \div 16), Hex(b % 16)>>
      [] OTHER -> <<b>>

(* What is behind "/s?word=" in the request line: jQuery drops a fragment. *)
Browser(query) ==
    LET s == Trimmed(Before(query, Hash)) IN FlattenSeq([i \in DOMAIN s |-> Encoded(s[i])])

(* The codes of 0-9, A-F and a-f.                                          *)
HexDigits == 48..57 \cup 65..70 \cup 97..102

HexValue(c) == CASE c \in 48..57 -> c - 48 [] c \in 65..70 -> c - 55 [] c \in 97..102 -> c - 87

IsHex(s, i, n) == i + n - 1 <= Len(s) /\ \A k \in i..i + n - 1 : s[k] \in HexDigits

(* The number of two hexadecimal digits.                                   *)
FromHex(c, d) == 16 * HexValue(c) + HexValue(d)

to_utf8(code) ==
    CASE code < 128 -> <<code>>
      [] code \in 128..2047 -> <<192 + code \div 64, 128 + (code % 64)>>
      [] code \in 55296..57343 -> <<>>
      [] OTHER -> <<224 + code \div 4096, 128 + ((code \div 64) % 64), 128 + (code % 64)>>

Shortened(s, i) ==
    /\ i < Len(s)
    /\ s[i] = Percent
    /\ \/ s[i + 1] = LowerU /\ IsHex(s, i + 2, 4)
       \/ s[i + 1] # LowerU /\ IsHex(s, i + 1, 2)

decode_url(s) ==
    LET decoded[i \in 1..Len(s) + 1] ==
            CASE i > Len(s) -> <<>>
              [] Shortened(s, i) /\ s[i + 1] = LowerU ->
                    to_utf8(256 * FromHex(s[i + 2], s[i + 3]) + FromHex(s[i + 4], s[i + 5]))
                        \o decoded[i + 6]
              [] Shortened(s, i) /\ s[i + 1] # LowerU ->
                    <<FromHex(s[i + 1], s[i + 2])>> \o decoded[i + 3]
              [] OTHER ->
                    <<IF s[i] = Plus THEN Space ELSE s[i]>> \o decoded[i + 1]
    IN  decoded[1]

(* parse_query_text splits the query at "&" and its first part, "word="    *)
(* and what was typed, at "=": the value is the last nonempty piece.       *)
LastPiece(s) ==
    LET ends == {i \in DOMAIN s : s[i] # EqualsSign /\ (i = Len(s) \/ s[i + 1] = EqualsSign)}
        last == CHOOSE i \in ends : \A k \in ends : k <= i
        first == CHOOSE i \in 1..last :
                    (i = 1 \/ s[i - 1] = EqualsSign) /\ \A k \in i..last : s[k] # EqualsSign
    IN  IF ends = {} THEN <<>> ELSE SubSeq(s, first, last)

(* Mutant: the word is taken as it is written in the line.                 *)
RawWord(query) == LastPiece(Before(Browser(query), Ampersand))

(* The first word is what the handler takes.                               *)
Word(query) == decode_url(LastPiece(Before(Browser(query), Ampersand)))

-----------------------------------------------------------------------------
(* The text of a page and of a title in the documents.                     *)
Escape(t) ==
    FlattenSeq([i \in DOMAIN t |->
        CASE t[i] = "&" -> <<"&", "amp;">>
          [] t[i] = "<" -> <<"&", "lt;">>
          [] OTHER -> <<t[i]>>])

ReplaceEscape(t, name, c) ==
    LET from[i \in 1..Len(t) + 1] ==
            CASE i > Len(t) -> <<>>
              [] i < Len(t) /\ t[i] = "&" /\ t[i + 1] = name -> <<c>> \o from[i + 2]
              [] OTHER -> <<t[i]>> \o from[i + 1]
    IN  from[1]

(* Mutant: "&amp;" is replaced first.                                      *)
UnescapeAmpFirst(t) ==
    ReplaceEscape(ReplaceEscape(ReplaceEscape(t, "amp;", "&"), "lt;", "<"), "gt;", ">")

(* The replacements of BuildHtml, in its order.                            *)
Unescape(t) ==
    ReplaceEscape(ReplaceEscape(ReplaceEscape(t, "lt;", "<"), "gt;", ">"), "amp;", "&")

-----------------------------------------------------------------------------
PageInit ==
    /\ sent = <<>>
    /\ pending = {}
    /\ alone = TRUE
    /\ arrived = {}
    /\ result = <<>>

Search(query) ==
    /\ Len(sent) < MaxSearches
    /\ sent' = Append(sent, query)
    /\ pending' = pending \cup {Len(sent) + 1}
    /\ alone' = (pending = {})
    /\ UNCHANGED <<arrived, result>>

(* Mutant: the items of the answer before it are not removed.              *)
KeepOld(list, items) == list \o items

(* BuildHtml empties the list and appends an item for each element.        *)
BuildHtml(list, items) == items

(* The answer to search n: one document, whose url tells the word searched *)
(* for, titled t.                                                          *)
Success(n, t) ==
    /\ n \in pending
    /\ pending' = pending \ {n}
    /\ arrived' = arrived \cup {n}
    /\ result' = BuildHtml(result,
          << [word |-> Word(sent[n]), text |-> t, shown |-> Unescape(Escape(t))] >>)
    /\ UNCHANGED <<sent, alone>>

(* $.ajax is given no error handler.                                       *)
Error(n) ==
    /\ n \in pending
    /\ pending' = pending \ {n}
    /\ UNCHANGED <<sent, alone, arrived, result>>

PageNext ==
    \/ \E query \in Queries : Search(query)
    \/ \E n \in 1..MaxSearches :
          \/ \E t \in Titles : Success(n, t)
          \/ Error(n)

PageSpec == PageInit /\ [][PageNext]_pageVars

-----------------------------------------------------------------------------
(* What reaches the search as it was typed: no fragment, no separator, no  *)
(* plus sign, no tab, nothing that reads as a character in hexadecimal,    *)
(* and no space at the end.                                                *)
Verbatim(query) ==
    /\ \A i \in DOMAIN query :
          /\ query[i] \notin {Hash, Ampersand, EqualsSign, Plus} \cup Breaks
          /\ ~Shortened(query, i)
    /\ query # <<>> => query[Len(query)] > Space

(* Once nothing is pending, and the last search was not sent while another *)
(* was under way, the list is the answer to that search, for the word that *)
(* was typed, and nothing of an earlier answer (index.html:188-242).       *)
ShowsLastSearch ==
    pending = {} /\ alone /\ sent # <<>> /\ Len(sent) \in arrived
    /\ Verbatim(sent[Len(sent)]) =>
        /\ Len(result) = 1
        /\ result[1].word = sent[Len(sent)]

(* Whatever the order of answers, the list is one of them, for a word that *)
(* came from one query, and each title reads as it does in the document    *)
(* (index.html:217-219).                                                   *)
ShowsOneAnswer ==
    /\ arrived # {} =>
        \E n \in arrived : Len(result) = 1 /\ result[1].word = Word(sent[n])
    /\ \A i \in DOMAIN result : result[i].shown = result[i].text
=============================================================================
