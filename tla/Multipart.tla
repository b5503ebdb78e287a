----------------------------- MODULE Multipart ------------------------------
(***************************************************************************)
(* httplib's MultipartFormDataParser.  A body arrives in pieces; parse     *)
(* appends a piece to the buffer and takes from it what it can.  A piece   *)
(* is a sequence of characters, of which the parser tells apart CR, LF,    *)
(* "-" and those of the boundary; a header line that gives a name to its   *)
(* part is one character of Names.                                         *)
(***************************************************************************)
EXTENDS Integers, Sequences, SequencesExt

CONSTANTS
    boundary_,   \* the boundary of the body
    Names        \* the Content-Disposition lines, by the name they give

(* Characters: strings, among them the ones that this module writes.       *)
Chars == STRING \cup {"", "CR", "LF", "-"}

(* A boundary is part of a header line, which ends at the line break.      *)
ASSUME MultipartAssumption ==
    /\ boundary_ \in Seq(Chars)
    /\ \A k \in DOMAIN boundary_ : boundary_[k] # "CR"
    /\ Names \subseteq STRING
    /\ \A name \in Names : name \notin {"CR", "LF", "-"}

crlf_ == <<"CR", "LF">>
dash_ == <<"-", "-">>
npos == -1

Find(s, pattern) ==
    LET at == {p \in 0..Len(s) - Len(pattern) :
                  SubSeq(s, p + 1, p + Len(pattern)) = pattern}
    IN  IF at = {} THEN npos ELSE CHOOSE p \in at : \A q \in at : p <= q

Begin(s, n) == SubSeq(s, 1, n)
Erase(s, n) == SubSeq(s, n + 1, Len(s))

(* loop is "go" while parse goes on, "wait" when it has returned true and  *)
(* "fail" when it has returned false.                                      *)
NoParser ==
    [state |-> 0, buf |-> <<>>, valid |-> FALSE, loop |-> "go", name |-> "", parts |-> <<>>]

Wait(p) == [p EXCEPT !.loop = "wait"]
Fail(p) == [p EXCEPT !.loop = "fail"]
Take(p, n, s) == [p EXCEPT !.buf = Erase(@, n), !.state = s]

(* content_callback appends to the part that header_callback added last.   *)
Content(p, n) ==
    [p EXCEPT !.parts[Len(p.parts)].content = @ \o Begin(p.buf, n), !.buf = Erase(@, n)]

InitialBoundary(p) ==
    LET pattern == dash_ \o boundary_ \o crlf_
    IN  CASE Len(pattern) > Len(p.buf) -> Wait(p)
          [] Len(pattern) <= Len(p.buf) /\ Find(p.buf, pattern) # 0 -> Fail(p)
          [] OTHER -> Take(p, Len(pattern), 1)

NewEntry(p) == [p EXCEPT !.name = "", !.state = 2]

Headers(p) ==
    LET pos == Find(p.buf, crlf_)
        named == [p EXCEPT !.name = IF pos = 1 /\ p.buf[1] \in Names THEN p.buf[1] ELSE @]
    IN  CASE pos = npos -> Wait(p)
          [] pos = 0 -> Take([p EXCEPT !.parts = Append(@, [name |-> p.name, content |-> <<>>])],
                             Len(crlf_), 3)
          [] OTHER -> Take(named, pos + Len(crlf_), 2)

(* How much of the buffer is content for sure: all before CR LF "--", or   *)
(* before the CRs, LFs and dashes that end it.                             *)
Mutable == {"CR", "LF", "-"}

(* Mutant: a boundary that begins at the end of the buffer is not kept.    *)
SurePartAll(s) == IF Find(s, crlf_ \o dash_) # npos THEN Find(s, crlf_ \o dash_) ELSE Len(s)

SurePart(s) ==
    IF Find(s, crlf_ \o dash_) # npos THEN Find(s, crlf_ \o dash_)
    ELSE CHOOSE n \in 0..Len(s) :
            /\ n > 0 => s[n] \notin Mutable
            /\ \A k \in n + 1..Len(s) : s[k] \in Mutable

Body(p) ==
    LET pattern == crlf_ \o dash_ \o boundary_
        q == Content(p, SurePart(p.buf))
        pos == Find(q.buf, pattern)
    IN  CASE Len(crlf_ \o dash_) > Len(p.buf) -> Wait(p)
          [] Len(crlf_ \o dash_) <= Len(p.buf) /\ Len(pattern) > Len(q.buf) -> Wait(q)
          [] Len(pattern) <= Len(q.buf) /\ pos # npos -> Take(Content(q, pos), Len(pattern), 4)
          [] OTHER -> Content(q, Len(pattern))

Boundary(p) ==
    CASE Len(crlf_) > Len(p.buf) -> Wait(p)
      [] Len(crlf_) <= Len(p.buf) /\ Begin(p.buf, 2) = crlf_ -> Take(p, Len(crlf_), 1)
      [] Len(p.buf) >= 4 /\ Begin(p.buf, 4) = dash_ \o crlf_ ->
            [Take(p, 4, 5) EXCEPT !.valid = TRUE]
      [] OTHER -> Wait(p)

Done(p) == Fail([p EXCEPT !.valid = FALSE])

(* One turn of the loop of parse.                                          *)
Turn(p) ==
    CASE p.buf = <<>> -> Wait(p)
      [] p.buf # <<>> /\ p.state = 0 -> InitialBoundary(p)
      [] p.buf # <<>> /\ p.state = 1 -> NewEntry(p)
      [] p.buf # <<>> /\ p.state = 2 -> Headers(p)
      [] p.buf # <<>> /\ p.state = 3 -> Body(p)
      [] p.buf # <<>> /\ p.state = 4 -> Boundary(p)
      [] p.buf # <<>> /\ p.state = 5 -> Done(p)

Parsers ==
    [state : 0..5, buf : Seq(Chars), valid : BOOLEAN, loop : {"go", "wait", "fail"},
     name : Chars, parts : Seq([name : Chars, content : Seq(Chars)])]

(* A turn that goes on takes characters from the buffer, or is NewEntry.   *)
parse(p, piece) ==
    LET turns[q \in Parsers] == IF q.loop = "go" THEN turns[Turn(q)] ELSE q
    IN  turns[[p EXCEPT !.buf = @ \o piece, !.loop = "go"]]

(* What a client sends for the given parts.                                *)
PartText(part) ==
    dash_ \o boundary_ \o crlf_ \o <<part.name>> \o crlf_ \o crlf_ \o part.content \o crlf_

Closing == dash_ \o boundary_ \o dash_ \o crlf_

Encode(parts) == FlattenSeq([i \in DOMAIN parts |-> PartText(parts[i])]) \o Closing

(* The parser loses a boundary when a read ends in the middle of it and    *)
(* the content before it ends in as many line breaks and dashes as the     *)
(* boundary has characters, or holds the beginning of a boundary.          *)
Separable(content) ==
    /\ Find(content, crlf_ \o dash_) = npos
    /\ Len(content) >= Len(boundary_) =>
          \E k \in Len(content) - Len(boundary_) + 1..Len(content) : content[k] \notin Mutable
=============================================================================
