------------------------------- MODULE MCText -------------------------------
(***************************************************************************)
(* Texts of up to four characters from an alphabet of letters, a digit, a  *)
(* dot, two separators, three characters of two and three bytes and a      *)
(* byte that starts a character and stands alone; and longer ones from     *)
(* fewer characters, so that words of four runes and summaries longer than *)
(* the two steps occur.  The dictionary has words inside words, two paths  *)
(* of the same weight, and a user's word that replaces an entry.  A short  *)
(* text is also the content of files in which it, or its beginning, is the *)
(* title, bare or with a tag after it.                                     *)
(***************************************************************************)
EXTENDS Text, SequencesExt, TLC

x == 233
y == 20013
z == 12354
X == <<195, 169>>
Y == <<228, 184, 173>>
Z == <<227, 129, 130>>
Comma == <<239, 188, 140>>
Half == <<195>>
Chr(c) == <<c>>

Alphabet == {X, Y, Z, Comma, Half, Chr(97), Chr(65), Chr(49), Chr(46), Chr(32)}

MCByte == 0..255
MCLower == [c \in MCByte |-> IF c \in 65..90 THEN c + 32 ELSE c]

MCContents ==
    {FlattenSeq(s) : s \in BoundedSeq(Alphabet, 4) \cup BoundedSeq({X, Y}, 6)
                             \cup BoundedSeq({X, Y, Z}, 5)
                             \cup BoundedSeq({Chr(97), Chr(65), Y}, 6)}
MCKeywords == BoundedSeq({97, 184}, 3) \cup {<<65>>}

(* Where a character of c ends.                                            *)
Ends(c) == {n \in 0..Len(c) : n = Len(c) \/ c[n + 1] \notin 128..191}

Tag == <<60>> \o Y \o <<62>>

MCTitles ==
    [c \in MCContents |->
        {<<>>} \cup IF Len(c) > 5 THEN {}
                    ELSE {SubSeq(c, 1, n) : n \in Ends(c)} \cup {c \o Tag}]

MCDict ==
    << [word |-> <<x, y>>, weight |-> -3], [word |-> <<y, x>>, weight |-> -4],
       [word |-> <<x>>, weight |-> -2], [word |-> <<x, y, x>>, weight |-> -6],
       [word |-> <<y, x, y>>, weight |-> -8], [word |-> <<x, y, y, x>>, weight |-> -5] >>

MCUserDict ==
    << [word |-> <<z>>, columns |-> 1, weight |-> 0],
       [word |-> <<x, y, x>>, columns |-> 3, weight |-> -7],
       [word |-> <<x, x>>, columns |-> 4, weight |-> 0] >>

No == -1000

MCStart == [q \in 0..3 |-> <<-1, No, No, -2>>[q + 1]]
MCTrans ==
    [p \in 0..3 |-> [q \in 0..3 |->
        << <<No, -1, -2, No>>, <<-1, No, No, -2>>, <<No, -1, -3, No>>, <<-2, No, No, -1>> >>
            [p + 1][q + 1]]]
MCEmit ==
    [q \in 0..3 |->
        CASE q = 0 -> x :> -2 @@ y :> -3
          [] q = 1 -> x :> -1 @@ y :> -2
          [] q = 2 -> y :> -1
          [] q = 3 -> x :> -4]
MCSymbols == {32, 9, 10, 65292, 12290}
=============================================================================
