------------------------------ MODULE MCParser ------------------------------
(***************************************************************************)
(* Instances of Parser: one file with every short text, and trees of three *)
(* files that differ in whether they are listed, open and parse.           *)
(***************************************************************************)
EXTENDS Parser

Alphabet == {"<title>", "</title>", "<", ">", LF, SEP, "a"}

File(html, opens, bytes, url) ==
    [html |-> html, opens |-> opens, bytes |-> bytes, url |-> url]

OneFile == {<<File(TRUE, TRUE, s, "u1")>> : s \in BoundedSeq(Alphabet, 5)}

Titled(w) == <<"<title>", w, "</title>">>

SomeTrees ==
    {<<File(TRUE, TRUE, Titled("a"), "u1"), f, File(TRUE, TRUE, Titled("b"), "u3")>> :
        f \in {File(FALSE, TRUE, Titled("c"), "u2"), File(TRUE, FALSE, Titled("c"), "u2"),
               File(TRUE, TRUE, <<"c">>, "u2"), File(TRUE, TRUE, Titled("c"), "u2")}}

MCTrees == OneFile \cup SomeTrees
MCChars == Alphabet \cup {"b", "c", "u0", "u1", "u2", "u3"}
MCOldRaws == {<<>>, <<"a", SEP, "b", SEP, "u0", LF>>}
NoOldRaw == {<<>>}
=============================================================================
