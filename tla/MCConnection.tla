---------------------------- MODULE MCConnection ----------------------------
(***************************************************************************)
(* Clients that send two or three requests: of every kind the server       *)
(* treats in its own way, followed by a plain search; and multipart bodies *)
(* whose contents end in parts of a line break or a boundary.              *)
(***************************************************************************)
EXTENDS Connection, SequencesExt

Plain ==
    [line |-> "ok", method |-> "GET", target |-> "/s", version |-> "1.1", connection |-> "",
     framing |-> "none", chunks |-> <<>>, encoding |-> "", ranges |-> <<>>, expect |-> FALSE,
     boundary |-> "", parts |-> <<>>]

Two == << <<"x", "y">>, <<"x">> >>

Post == [Plain EXCEPT !.method = "POST", !.framing = "length", !.chunks = Two]
Delete == [Plain EXCEPT !.method = "DELETE"]

Ranged(target, ranges) == [Plain EXCEPT !.target = target, !.ranges = ranges]

SomeRanges == {<<0, 0>>, <<1, 9>>, <<-1, 2>>, <<-1, 9>>, <<-1, 0>>, <<2, -1>>, <<3, -1>>, <<-1, -1>>}

Kinds ==
    { Plain, Post, Delete,
      [Plain EXCEPT !.method = "HEAD", !.target = "page", !.version = "1.0"],
      [Plain EXCEPT !.connection = "close"],
      [Plain EXCEPT !.framing = "length", !.chunks = Two],
      [Plain EXCEPT !.method = "OPTIONS", !.expect = TRUE],
      [Plain EXCEPT !.method = "TRACE"],
      [Plain EXCEPT !.line = "bad"],
      [Plain EXCEPT !.line = "long"],
      [Post EXCEPT !.framing = "none"],
      [Post EXCEPT !.framing = "chunked", !.expect = TRUE],
      [Post EXCEPT !.framing = "overlong"],
      [Post EXCEPT !.framing = "garbled"],
      [Post EXCEPT !.framing = "trailer"],
      [Post EXCEPT !.chunks = <<>>],
      [Post EXCEPT !.encoding = "gzip"],
      [Post EXCEPT !.boundary = "missing"],
      [Post EXCEPT !.ranges = << <<2, 1>> >>],
      [Delete EXCEPT !.framing = "chunked", !.chunks = Two],
      [Delete EXCEPT !.framing = "length", !.chunks = Two] }

Forms ==
    {[Post EXCEPT !.chunks = <<>>, !.boundary = "given", !.parts = parts] :
        parts \in {<< [name |-> "n1", content |-> c] >> :
                      c \in BoundedSeq({"x", "CR", "LF", "-", "b"}, 3)}
             \cup {<< [name |-> "n1", content |-> <<"CR">>],
                      [name |-> "n2", content |-> <<"-", "x">>] >>}}

(* Contents at whose end a read may lose the boundary.                     *)
Lost ==
    {[Post EXCEPT !.chunks = <<>>, !.boundary = "given",
                  !.parts = << [name |-> "n1", content |-> c],
                               [name |-> "n2", content |-> <<"x">>] >>] :
        c \in {<<"CR", "LF">>, <<"CR", "LF", "-", "-", "b">>}}

MCScripts ==
    {<<k, Plain>> : k \in Kinds}
    \cup {<<Plain, k, l>> : k \in {Plain, Post}, l \in {Plain, Post}}
    \cup {<<Ranged("/s", <<r>>)>> : r \in SomeRanges}
    \cup {<<Ranged("page", <<r, q>>)>> : r \in SomeRanges, q \in SomeRanges}
    \cup {<<f>> : f \in Forms}
    \cup {<<f, Plain>> : f \in {f \in Forms : Len(f.parts[1].content) \in 0..1}}
    \cup {<<f, Plain>> : f \in Lost}

MCBoundary == <<"b", "c">>
MCNames == {"n1", "n2"}
=============================================================================
