------------------------------- MODULE MCPage -------------------------------
(***************************************************************************)
(* Queries whose characters each have a part of their own on the way to    *)
(* the server, and titles with characters that HTML escapes.               *)
(***************************************************************************)
EXTENDS Page, TLC

Code ==
    "tab" :> 9 @@ "space" :> 32 @@ "#" :> 35 @@ "%" :> 37 @@ "&" :> 38 @@ "+" :> 43 @@ "0" :> 48
    @@ "2" :> 50 @@ "3" :> 51 @@ "4" :> 52 @@ "1" :> 49 @@ "8" :> 56 @@ "<" :> 60 @@ "=" :> 61
    @@ "A" :> 65 @@ "E" :> 69 @@ "a" :> 97 @@ "c" :> 99 @@ "d" :> 100 @@ "u" :> 117 @@ "x" :> 120

Typed(chars) == [i \in DOMAIN chars |-> Code[chars[i]]]

MCQueries ==
    { Typed(chars) : chars \in
        { <<>>, <<"x">>, <<"x", "space">>, <<"space">>, <<"x", "tab", "x">>, <<"<">>,
          <<"x", "+", "+">>, <<"&", "x">>, <<"x", "&", "2">>, <<"x", "=", "2">>, <<"=", "x", "=">>,
          <<"x", "space", "#", "2">>, <<"%", "2", "0">>, <<"%", "4", "1">>, <<"%", "a", "A">>,
          <<"%", "c", "x">>, <<"%", "space", "0">>, <<"%", "%", "2">>, <<"2", "%">>,
          <<"%", "u", "0", "0", "3", "c">>, <<"%", "u", "4", "E", "2", "d">>,
          <<"%", "u", "d", "8", "0", "0">>, <<"%", "u", "0", "0">> } }
    \cup { <<228, 184, 173, 32, 120>> }

MCTitles == {<<"x">>, <<"&", "lt;">>, <<"<", "&", "amp;">>}
=============================================================================
