----------------------------- MODULE MCSearcher -----------------------------
(***************************************************************************)
(* An instance of Searcher.  "B" and "b" differ only in case and "the" is  *)
(* a stop word; urls are never cut.  The raw files hold documents that     *)
(* match in title, in content, in both or nowhere, one with an empty       *)
(* title, one with only stop words, and lines of two fields.               *)
(***************************************************************************)
EXTENDS Searcher, TLC

MCWord == {"a", "b", "B", "the"}
MCCut == "" :> <<>> @@ "a" :> <<"a">> @@ "b" :> <<"b">> @@ "aB" :> <<"a", "B">>
         @@ "baB" :> <<"b", "a", "B">> @@ "the" :> <<"the">>
         @@ "b the b" :> <<"b", "the", "b">>
         @@ "u1" :> <<>> @@ "u2" :> <<>> @@ "u3" :> <<>>
MCText == DOMAIN MCCut
MCLower == [w \in MCWord |-> IF w = "B" THEN "b" ELSE w]

DocAB == <<"a", "baB", "u1">>
DocB  == <<"b", "aB", "u2">>
DocE  == <<"", "b the b", "u3">>
DocS  == <<"the", "the", "u3">>
Short == <<"", "u3">>

MCRawFiles == {<<>>, <<DocAB, DocB>>, <<DocE, DocAB>>, <<DocS, DocB, DocE>>,
               <<DocB, Short>>, <<Short, DocAB>>}

MCQueries == {"", "b", "aB", "b the b"}
=============================================================================
