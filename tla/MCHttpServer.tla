---------------------------- MODULE MCHttpServer ----------------------------
(***************************************************************************)
(* Instances of HttpServer.  The requests are a search on a kept           *)
(* connection, one that asks to close, one of HTTP/1.0, one without the    *)
(* word, a malformed line and a line cut short.                            *)
(***************************************************************************)
EXTENDS HttpServer

Req(line, method, target, word, version, connection) ==
    [line |-> line, method |-> method, target |-> target, word |-> word,
     version |-> version, connection |-> connection]

Keep    == Req("ok", "GET", "/s", "q", "1.1", "")
Last    == Req("ok", "GET", "page", NoWord, "1.1", "close")
Old     == Req("ok", "HEAD", "page", NoWord, "1.0", "")
Bare    == Req("ok", "GET", "/s", NoWord, "1.1", "")
Post    == Req("ok", "POST", "/s", NoWord, "1.1", "")
Trace   == Req("ok", "TRACE", "/s", NoWord, "1.1", "")
Bad     == Req("bad", "", "", NoWord, "", "")
TooLong == Req("long", "", "", NoWord, "", "")
Cut     == Req("partial", "", "", NoWord, "", "")

(* Two workers, two clients that ask and may not read, and one that stops  *)
(* in the middle of a line; and one after the other what ends a connection *)
(* or does not: the limit, a close, HTTP/1.0, a line that is refused.      *)
MCScripts ==
    { << <<Keep>>, <<Keep>>, <<Cut>> >>,
      << <<Keep, Post, Keep>>, <<>>, <<>> >>,
      << <<Trace, Last, Keep>>, <<>>, <<>> >>,
      << <<Old, Keep>>, <<>>, <<>> >>,
      << <<Bad, TooLong, Keep>>, <<>>, <<>> >> }

OneByOne == {<< <<r>> >> : r \in {Keep, Last, Old, Bare, Post, Trace, Bad, TooLong, Cut}}
=============================================================================
