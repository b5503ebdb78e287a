----------------------------- MODULE Connection -----------------------------
(***************************************************************************)
(* One connection of httplib::Server from its first byte to its end: what  *)
(* HttpServer does in one step per request is here every read that may     *)
(* stop, time out or meet the end of the stream.                           *)
(*                                                                         *)
(* The client's bytes are tokens.  A line is one token: a request line, a  *)
(* block of header lines, the blank line, the size line of a chunk, or a   *)
(* line that is none of these.  A byte of a body is one token and holds no *)
(* line break, so getline takes body bytes that nobody has read, and the   *)
(* next line with them, for one line.  Token t belongs to request t.id.    *)
(*                                                                         *)
(* A read waits for the client, and gives up after a time-out; after that  *)
(* the server answers 400 and goes on reading wherever the stream is.      *)
(*                                                                         *)
(* A response is written before the next request is read, in one write for *)
(* the headers and one for the body.  A write waits for room in the        *)
(* socket, and is given up after a time-out; once some of it is in the     *)
(* socket there is no time-out for the rest.  Nobody notices a write that  *)
(* failed (write_response_core).  On a socket beyond FD_SETSIZE no wait    *)
(* has a time-out (select_read, select_write).                             *)
(***************************************************************************)
EXTENDS Multipart, FiniteSets

CONSTANTS
    Scripts,         \* what clients send: sequences of requests
    KeepAliveMax,    \* keep_alive_max_count_
    ContentLength,   \* the size of the file or search result asked for
    SendBuffer       \* what a socket holds that its client has not read

ASSUME ConnectionAssumption ==
    /\ KeepAliveMax \in Nat \ {0}
    /\ ContentLength \in Nat \ {0}
    /\ SendBuffer \in Nat \ {0}

Chunked == {"chunked", "overlong", "garbled", "trailer"}

(* A request.  A range is <<first, last>>, -1 for a missing number.        *)
Ranges == (Nat \cup {-1}) \X (Nat \cup {-1})

Request ==
    [line : {"ok", "bad", "long"},
     method : {"GET", "HEAD", "POST", "DELETE", "OPTIONS", "TRACE"},
     target : {"page", "/s"}, version : {"1.0", "1.1"}, connection : {"", "close", "Keep-Alive"},
     framing : {"none", "length"} \cup Chunked, chunks : Seq(Seq(STRING)), encoding : STRING,
     ranges : Seq(Ranges), expect : BOOLEAN, boundary : {"", "given", "missing"},
     parts : Seq([name : Names, content : Seq(Chars)])]

ASSUME ScriptsAssumption == Scripts \subseteq Seq(Request)

VARIABLES
    requests,   \* the requests of this client
    high,       \* the socket's number is FD_SETSIZE or more
    unsent,     \* tokens the client has not sent yet
    avail,      \* tokens sent and not yet read
    fin,        \* the client has ended the stream
    late,       \* history: a read has timed out
    pc,         \* where the worker is
    count,      \* process_server_socket_core's count
    id,         \* the request the line read last belongs to, 0 for none
    need,       \* body bytes still to be read
    body,       \* req.body
    form,       \* the multipart parser
    out,        \* the responses, in the order they are written in
    writes,     \* what each write of the last one has still to send
    sending,    \* the first of them is in send
    queued,     \* what was sent and the client has not read
    gone        \* the client has hung up and reads no more

clientVars == <<requests, high, unsent, fin>>
readVars == <<clientVars, avail, late, pc, count, id, need, body, form, out>>
writeVars == <<writes, sending, queued, gone>>
connectionVars == <<readVars, writeVars>>

-----------------------------------------------------------------------------
(* The client's tokens.                                                    *)
Token(kind, i, v, k) == [kind |-> kind, id |-> i, val |-> v, size |-> k]
Line(kind, i) == Token(kind, i, "", 0)
IsLine(t) == t.kind # "data"

Bytes(s, i) == [k \in DOMAIN s |-> Token("data", i, s[k], 0)]

ChunkTokens(chunk, i, size) ==
    <<Token("size", i, "", size)>> \o Bytes(chunk, i) \o <<Line("blank", i)>>

BodyOf(r) == IF r.parts # <<>> THEN Encode(r.parts) ELSE FlattenSeq(r.chunks)

(* A chunk may be longer than its size line says, the size line garbled,   *)
(* or the last chunk followed by a trailer.                                *)
BodyTokens(r, i) ==
    IF r.framing \notin Chunked THEN Bytes(BodyOf(r), i)
    ELSE (IF r.framing = "garbled" THEN <<Line("junk", i)>> ELSE <<>>)
         \o FlattenSeq([k \in DOMAIN r.chunks |->
                ChunkTokens(r.chunks[k], i,
                            Len(r.chunks[k]) - (IF r.framing = "overlong" THEN 1 ELSE 0))])
         \o <<Line("zero", i)>>
         \o (IF r.framing = "trailer" THEN <<Line("head", i)>> ELSE <<>>)
         \o <<Line("blank", i)>>

RequestTokens(r, i) ==
    <<Line(IF r.line = "ok" THEN "request" ELSE r.line, i), Line("head", i), Line("blank", i)>>
        \o BodyTokens(r, i)

Stream(s) == FlattenSeq([i \in DOMAIN s |-> RequestTokens(s[i], i)])

-----------------------------------------------------------------------------
(* Range requests.  parse_range_header refuses a header with a range that  *)
(* ends before it starts.                                                  *)
parse_range_header(ranges) ==
    \A i \in DOMAIN ranges :
        LET first == ranges[i][1]
            last == ranges[i][2]
        IN  ~(first # -1 /\ last # -1 /\ first > last)

(* Mutant: a suffix is taken for a prefix.                                 *)
PrefixOffsetAndLength(r) ==
    CASE r = <<-1, -1>> -> <<0, ContentLength>>
      [] r[1] = -1 /\ r[2] # -1 -> <<0, r[2]>>
      [] r[1] # -1 -> <<r[1], (IF r[2] = -1 THEN ContentLength - 1 ELSE r[2]) - r[1] + 1>>

get_range_offset_and_length(r) ==
    CASE r = <<-1, -1>> -> <<0, ContentLength>>
      [] r[1] = -1 /\ r[2] # -1 ->
            LET first == IF ContentLength > r[2] THEN ContentLength - r[2] ELSE 0
            IN  <<first, ContentLength - first>>
      [] r[1] # -1 -> <<r[1], (IF r[2] = -1 THEN ContentLength - 1 ELSE r[2]) - r[1] + 1>>

(* substr(offset, length): positions offset + 1 to the end of the slice.   *)
Slice(r) ==
    LET o == get_range_offset_and_length(r)
    IN  o[1] + 1 .. (IF o[1] + o[2] < ContentLength THEN o[1] + o[2] ELSE ContentLength)

OutOfRange(r) == get_range_offset_and_length(r)[1] >= ContentLength

(* apply_ranges: the slices of the content that the response carries, or   *)
(* 416 and nothing.                                                        *)
Slices(r) ==
    IF r.ranges = <<>> THEN <<1..ContentLength>>
    ELSE [i \in DOMAIN r.ranges |-> Slice(r.ranges[i])]

(* handle_file_request sets the status, the "/s" handler leaves it open.   *)
routing(r) ==
    CASE r.method \in {"GET", "HEAD"} /\ \E i \in DOMAIN r.ranges : OutOfRange(r.ranges[i]) ->
            [status |-> 416, slices |-> <<>>]
      [] r.method \in {"GET", "HEAD"} /\ \A i \in DOMAIN r.ranges : ~OutOfRange(r.ranges[i]) ->
            [status |-> IF r.target = "page" \/ r.ranges = <<>> THEN 200 ELSE 206,
             slices |-> IF r.method = "HEAD" THEN <<>> ELSE Slices(r)]
      [] r.method \in {"POST", "DELETE", "OPTIONS"} -> [status |-> 404, slices |-> <<>>]
      [] r.method = "TRACE" -> [status |-> 400, slices |-> <<>>]

expect_content(r) == r.method \in {"POST", "DELETE"}

-----------------------------------------------------------------------------
ConnectionInit ==
    /\ requests \in Scripts
    /\ high \in BOOLEAN
    /\ unsent = Stream(requests)
    /\ avail = <<>>
    /\ fin = FALSE
    /\ late = FALSE
    /\ pc = "keepalive"
    /\ count = KeepAliveMax
    /\ id = 0
    /\ need = 0
    /\ body = <<>>
    /\ form = NoParser
    /\ out = <<>>
    /\ writes = <<>>
    /\ sending = FALSE
    /\ queued = 0
    /\ gone = FALSE

(* The client sends the next token, or a whole multipart body: how reads   *)
(* divide that is up to the server's side.  It may stop for good anywhere, *)
(* with or without ending the stream.                                      *)
Burst ==
    IF Head(unsent).kind = "data" /\ requests[Head(unsent).id].parts # <<>>
    THEN Len(BodyOf(requests[Head(unsent).id])) ELSE 1

Send(n) ==
    /\ ~fin
    /\ pc # "closed"
    /\ n = Burst
    /\ avail' = avail \o SubSeq(unsent, 1, n)
    /\ unsent' = Erase(unsent, n)
    /\ UNCHANGED <<requests, high, fin, late, pc, count, id, need, body, form, out>>

Finish ==
    /\ ~fin
    /\ pc # "closed"
    /\ fin' = TRUE
    /\ UNCHANGED <<requests, high, unsent, avail, late, pc, count, id, need, body, form, out>>

(* The worker has closed the socket.                                       *)
SocketClosed == pc = "closed" /\ writes = <<>>

(* The client reads some of a response, or hangs up with or without having *)
(* read it.                                                                *)
Collect ==
    /\ ~gone
    /\ ~SocketClosed
    /\ queued > 0
    /\ queued' = queued - 1
    /\ UNCHANGED <<readVars, writes, sending, gone>>

Leave ==
    /\ ~gone
    /\ ~SocketClosed
    /\ fin \/ pc = "closed"
    /\ gone' = TRUE
    /\ queued' = 0
    /\ UNCHANGED <<readVars, writes, sending>>

-----------------------------------------------------------------------------
(* Reads.  getline takes everything up to the first line break; at the end *)
(* of the stream it takes what is left.                                    *)
LineEnds == {i \in DOMAIN avail : IsLine(avail[i])}
LineEnd == CHOOSE i \in LineEnds : \A k \in LineEnds : i <= k
HasLine == LineEnds # {} \/ (fin /\ avail # <<>>)
LineLength == IF LineEnds # {} THEN LineEnd ELSE Len(avail)
TheLine == SubSeq(avail, 1, LineLength)
IsThe(kind) == LineLength = 1 /\ avail[1].kind = kind
AfterLine == Erase(avail, LineLength)

(* Nothing more comes, or nothing came in time.                            *)
Ended == fin

(* Mutant: select waits without a time-out.                                *)
NeverTimesOut == FALSE

TimedOut == ~fin /\ ~high

(* The response to a request, and where the worker goes once it is         *)
(* written.  headers says whether req has the Connection header, closed is *)
(* connection_closed.                                                      *)
Reply(st, slices, headers, closed) ==
    /\ out' = Append(out,
          [id |-> id', status |-> st, slices |-> slices, body |-> body', parts |-> form'.parts,
           close |-> \/ count = 1
                     \/ headers /\ requests[id'].connection = "close"])
    /\ count' = count - 1
    /\ pc' = IF closed \/ count = 1 THEN "closed" ELSE "keepalive"
    /\ need' = 0

NothingRead == body' = <<>> /\ form' = NoParser

(* keep_alive, at the top of process_server_socket_core's loop.            *)
keep_alive ==
    /\ pc = "keepalive"
    /\ \/ /\ avail # <<>> \/ fin \/ high
          /\ pc' = "line"
       \/ /\ avail = <<>>
          /\ TimedOut
          /\ pc' = "closed"
    /\ UNCHANGED <<clientVars, avail, late, count, id, need, body, form, out>>

(* process_request reads the request line ...                              *)
ReadLine ==
    /\ pc = "line"
    /\ HasLine
    /\ id' = IF LineLength = 1 THEN TheLine[1].id ELSE 0
    /\ avail' = AfterLine
    /\ NothingRead
    /\ \/ /\ high \/ IsThe("long")
          /\ pc' = "dummy"
          /\ UNCHANGED <<count, need, out>>
       \/ /\ ~high
          /\ IsThe("request")
          /\ pc' = "head"
          /\ UNCHANGED <<count, need, out>>
       \/ /\ ~high
          /\ ~IsThe("long")
          /\ ~IsThe("request")
          /\ Reply(400, <<>>, FALSE, FALSE)
    /\ UNCHANGED <<clientVars, late>>

ReadLineFails ==
    /\ pc = "line"
    /\ ~HasLine
    /\ Ended \/ TimedOut
    /\ late' = (late \/ ~fin)
    /\ pc' = "closed"
    /\ avail' = <<>>
    /\ UNCHANGED <<clientVars, count, id, need, body, form, out>>

(* ... and the headers, up to the blank line.                              *)
Blanks == {i \in DOMAIN avail : avail[i].kind = "blank" /\ (i = 1 \/ IsLine(avail[i - 1]))}
HeadEnd == CHOOSE i \in Blanks : \A k \in Blanks : i <= k

(* read_headers in the answer to a long line or on a high socket: what it  *)
(* reads and whether it fails does not matter.                             *)
SkipHeaders ==
    /\ pc = "dummy"
    /\ \/ Blanks # {} /\ avail' = Erase(avail, HeadEnd) /\ UNCHANGED late
       \/ Blanks = {} /\ (Ended \/ TimedOut) /\ avail' = <<>> /\ late' = (late \/ ~fin)
    /\ UNCHANGED <<id, body, form>>
    /\ Reply(IF high THEN 500 ELSE 414, <<>>, FALSE, FALSE)
    /\ UNCHANGED clientVars

ReadHeadersFails ==
    /\ pc = "head"
    /\ Blanks = {}
    /\ Ended \/ TimedOut
    /\ late' = (late \/ ~fin)
    /\ avail' = <<>>
    /\ UNCHANGED <<id, body, form>>
    /\ Reply(400, <<>>, \E i \in DOMAIN avail : avail[i].kind = "head", FALSE)
    /\ UNCHANGED clientVars

(* Mutant: Connection: close is answered and not acted on.                 *)
OldVersionOnly(r) == r.version = "1.0" /\ r.connection # "Keep-Alive"

ConnectionClosed(r) ==
    r.connection = "close" \/ (r.version = "1.0" /\ r.connection # "Keep-Alive")

Continue(r) == IF r.expect THEN Append(out, [id |-> id, status |-> 100, slices |-> <<>>,
                                             body |-> <<>>, parts |-> <<>>, close |-> FALSE])
               ELSE out

(* What read_content_core and read_content decide before they read.        *)
ContentPlan(r) ==
    CASE ~expect_content(r) -> "none"
      [] expect_content(r) /\ r.boundary = "missing" -> "refused"
      [] expect_content(r) /\ r.boundary # "missing"
            /\ r.method = "DELETE" /\ r.framing # "length" -> "none"
      [] expect_content(r) /\ r.boundary # "missing"
            /\ ~(r.method = "DELETE" /\ r.framing # "length") ->
            CASE r.encoding # "" -> "unsupported"
              [] r.encoding = "" /\ r.framing \in Chunked -> "size"
              [] r.encoding = "" /\ r.framing = "none" -> "rest"
              [] r.encoding = "" /\ r.framing = "length" -> "data"

(* The headers are read: range and expectation ...                         *)
ReadHeaders ==
    /\ pc = "head"
    /\ Blanks # {}
    /\ avail' = Erase(avail, HeadEnd)
    /\ UNCHANGED <<id, body, form, late>>
    /\ LET r == requests[id]
       IN  \/ /\ ~parse_range_header(r.ranges)
              /\ Reply(416, <<>>, TRUE, ConnectionClosed(r))
           \/ /\ parse_range_header(r.ranges)
              /\ out' = Continue(r)
              /\ pc' = "route"
              /\ UNCHANGED <<count, need>>
    /\ UNCHANGED clientVars

(* ... and routing, which reads a body first.                              *)
Route ==
    /\ pc = "route"
    /\ UNCHANGED <<avail, id, body, form, late>>
    /\ LET r == requests[id]
           plan == ContentPlan(r)
       IN  \/ /\ plan \in {"size", "rest", "data"}
              /\ plan = "data" => BodyOf(r) # <<>>
              /\ pc' = plan
              /\ need' = IF plan = "data" THEN Len(BodyOf(r)) ELSE 0
              /\ UNCHANGED <<count, out>>
           \/ /\ plan = "none" \/ (plan = "data" /\ BodyOf(r) = <<>>)
              /\ Reply(routing(r).status, routing(r).slices, TRUE, ConnectionClosed(r))
           \/ /\ plan \in {"refused", "unsupported"}
              /\ Reply(IF plan = "refused" THEN 400 ELSE 415, <<>>, TRUE, ConnectionClosed(r))
    /\ UNCHANGED clientVars

-----------------------------------------------------------------------------
(* read_content has returned: the request is routed, or refused.  A        *)
(* multipart body must have been valid to its end.                         *)
ContentRead(ok) ==
    LET r == requests[id]
    IN  Reply(IF ok /\ (r.parts # <<>> => form'.valid) THEN routing(r).status ELSE 400,
              <<>>, TRUE, ConnectionClosed(r))

(* Any read of a body that gets nothing: status 400.                       *)
ContentFails ==
    /\ \/ pc \in {"size", "crlf", "last"} /\ ~HasLine
       \/ pc = "data" /\ avail = <<>>
       \/ pc = "rest" /\ ~fin
    /\ Ended \/ TimedOut
    /\ late' = (late \/ ~fin)
    /\ avail' = <<>>
    /\ UNCHANGED <<id, body, form>>
    /\ ContentRead(FALSE)
    /\ UNCHANGED clientVars

(* read_content_without_length: everything up to the end of the stream.    *)
ReadRest ==
    /\ pc = "rest"
    /\ fin
    /\ body' = [k \in DOMAIN avail |-> avail[k].val]
    /\ avail' = <<>>
    /\ UNCHANGED <<id, form, late>>
    /\ ContentRead(TRUE)
    /\ UNCHANGED clientVars

(* Mutant: each read starts the body anew.                                 *)
TakeLast(b, piece) == piece

(* The content receiver of Server::read_content.                           *)
Receive(b, piece) == b \o piece

(* read_content_with_length, for a body or a chunk: a read returns any     *)
(* number of the bytes that have arrived, and the receiver takes them: the *)
(* multipart parser, or req.body.                                          *)
ReadData(n) ==
    /\ pc = "data"
    /\ n <= need
    /\ n <= Len(avail)
    /\ LET r == requests[id]
           piece == [k \in 1..n |-> avail[k].val]
           parser == IF r.parts # <<>> THEN parse(form, piece) ELSE form
       IN  /\ form' = parser
           /\ body' = IF r.parts # <<>> THEN body ELSE Receive(body, piece)
           /\ avail' = Erase(avail, n)
           /\ UNCHANGED <<id, late>>
           /\ \/ /\ parser.loop = "fail"
                 /\ ContentRead(FALSE)
              \/ /\ parser.loop # "fail"
                 /\ n < need \/ r.framing \in Chunked
                 /\ need' = need - n
                 /\ pc' = IF n < need THEN "data" ELSE "crlf"
                 /\ UNCHANGED <<count, out>>
              \/ /\ parser.loop # "fail"
                 /\ n = need
                 /\ r.framing = "length"
                 /\ ContentRead(TRUE)
    /\ UNCHANGED clientVars

(* read_content_chunked: the size line, ...                                *)
ReadSize ==
    /\ pc = "size"
    /\ HasLine
    /\ avail' = AfterLine
    /\ UNCHANGED <<id, late, body, form>>
    /\ \/ /\ IsThe("size")
          /\ need' = avail[1].size
          /\ pc' = "data"
          /\ UNCHANGED <<count, out>>
       \/ /\ IsThe("zero")
          /\ pc' = "last"
          /\ UNCHANGED <<need, count, out>>
       \/ /\ ~IsThe("size")
          /\ ~IsThe("zero")
          /\ ContentRead(FALSE)
    /\ UNCHANGED clientVars

(* ... the line break after the chunk, without which the body is taken to  *)
(* end, ...                                                                *)
ReadCrlf ==
    /\ pc = "crlf"
    /\ HasLine
    /\ avail' = AfterLine
    /\ UNCHANGED <<id, late, body, form>>
    /\ \/ /\ IsThe("blank")
          /\ pc' = "size"
          /\ UNCHANGED <<need, count, out>>
       \/ /\ ~IsThe("blank")
          /\ ContentRead(TRUE)
    /\ UNCHANGED clientVars

(* Mutant: the body ends at the zero.                                      *)
ReadLastLeft ==
    /\ pc = "last"
    /\ HasLine
    /\ UNCHANGED <<avail, id, late, body, form>>
    /\ ContentRead(TRUE)
    /\ UNCHANGED clientVars

(* ... and the line break after the last one.                              *)
ReadLast ==
    /\ pc = "last"
    /\ HasLine
    /\ avail' = AfterLine
    /\ UNCHANGED <<id, late, body, form>>
    /\ ContentRead(IsThe("blank"))
    /\ UNCHANGED clientVars

-----------------------------------------------------------------------------
Server ==
    \/ keep_alive
    \/ ReadLine
    \/ ReadLineFails
    \/ SkipHeaders
    \/ ReadHeaders
    \/ Route
    \/ ReadHeadersFails
    \/ ContentFails
    \/ ReadRest
    \/ \E n \in 1..Len(avail) : ReadData(n)
    \/ ReadSize
    \/ ReadCrlf
    \/ ReadLast

(* What is written of a response: its headers, and its body if it has one. *)
Size(slices) == Cardinality(UNION {{i} \X slices[i] : i \in DOMAIN slices})

Writes(response) ==
    IF response.slices = <<>> THEN <<1>> ELSE <<1, Size(response.slices)>>

(* The worker reads only when it has nothing to write.                     *)
Read ==
    /\ writes = <<>>
    /\ Server
    /\ writes' = IF out' = out THEN <<>> ELSE Writes(out'[Len(out')])
    /\ UNCHANGED <<sending, queued, gone>>

HasRoom == queued < SendBuffer

WriteEnds ==
    /\ writes' = Tail(writes)
    /\ sending' = FALSE

Fill ==
    LET room == SendBuffer - queued
        left == Head(writes)
    IN  \/ /\ left <= room
           /\ queued' = queued + left
           /\ WriteEnds
        \/ /\ left > room
           /\ queued' = SendBuffer
           /\ writes' = <<left - room>> \o Tail(writes)
           /\ sending' = TRUE

WriteTimesOut == ~gone /\ ~HasRoom /\ ~sending /\ ~high

Write ==
    /\ writes # <<>>
    /\ \/ ~gone /\ HasRoom /\ Fill
       \/ gone /\ WriteEnds /\ UNCHANGED queued
       \/ WriteTimesOut /\ WriteEnds /\ UNCHANGED queued
    /\ UNCHANGED <<readVars, gone>>

Client ==
    \/ (\E n \in 1..Len(unsent) : Send(n)) /\ UNCHANGED writeVars
    \/ Finish /\ UNCHANGED writeVars
    \/ Collect
    \/ Leave

ConnectionNext == Client \/ Read \/ Write

(* The worker is scheduled, and select reports data, room or a time-out;   *)
(* nothing is assumed of the client.                                       *)
ConnectionSpec ==
    ConnectionInit /\ [][ConnectionNext]_connectionVars /\ WF_connectionVars(Read \/ Write)

-----------------------------------------------------------------------------
(* The responses that end a request, by their places, and how many of them *)
(* there are up to one.                                                    *)
Final == {k \in DOMAIN out : out[k].status # 100}
Number(k) == Cardinality({i \in Final : i <= k})

FullySent(i) == \A k \in DOMAIN unsent : unsent[k].id > i

(* The body of a request is read.                                          *)
BodyIsRead(r) ==
    /\ expect_content(r)
    /\ r.framing = "length" \/ (r.framing = "chunked" /\ r.method # "DELETE")
    /\ r.boundary # "missing"
    /\ r.encoding = ""
    /\ parse_range_header(r.ranges)

(* A form whose parts the boundary can part.                               *)
WellFormed(r) ==
    /\ r.framing = "length"
    /\ \A i \in DOMAIN r.parts : Find(r.parts[i].content, dash_ \o boundary_) = npos

(* The server reads exactly the tokens of such a request.                  *)
Delimited(r) ==
    \/ r.line # "bad" /\ r.framing \notin Chunked /\ BodyOf(r) = <<>>
          /\ (r.line = "ok" /\ r.method = "POST" => r.framing = "length")
    \/ r.line = "ok" /\ BodyIsRead(r) /\ (r.parts # <<>> => WellFormed(r))

(* The requests before the one that response k ends are of that kind.      *)
InStep(k) == \A i \in 1..Number(k) - 1 : i \in DOMAIN requests /\ Delimited(requests[i])

(* Responses keep in step with requests: while every request so far is one *)
(* whose bytes the server delimits, and no read has timed out, response i  *)
(* answers request i, and nothing of a body is taken for a request         *)
(* (httplib.h:4696-4787, 2603-2777).                                       *)
AnswersPairUp ==
    ~late /\ ~high => \A k \in Final : InStep(k) => out[k].id = Number(k)

(* A body arrives whole: what a request was routed with is what the client *)
(* sent, whatever the sizes of the reads and chunks.                       *)
BodyArrivesWhole ==
    \A k \in Final :
        out[k].status = 404 /\ out[k].id # 0
        /\ requests[out[k].id].framing \in {"length", "chunked"}
        /\ expect_content(requests[out[k].id]) /\ requests[out[k].id].parts = <<>>
        /\ ContentPlan(requests[out[k].id]) # "none"
            => out[k].body = BodyOf(requests[out[k].id])

(* A multipart body of other contents is taken apart into the parts that   *)
(* were sent, however reads divide it (httplib.h:3075-3240).               *)
PartsArriveWhole ==
    \A k \in Final :
        out[k].id # 0 /\ requests[out[k].id].parts # <<>> /\ ~late /\ ~high
        /\ InStep(k) /\ FullySent(out[k].id)
        /\ Delimited(requests[out[k].id])
        /\ (\A i \in DOMAIN requests[out[k].id].parts :
                Separable(requests[out[k].id].parts[i].content))
            => out[k].status = 404 /\ out[k].parts = requests[out[k].id].parts

(* A range of the content comes as asked for, clipped to the content; 416  *)
(* is answered only when nothing of one of the ranges is there             *)
(* (httplib.h:3273-3291).                                                  *)
Wanted(r) ==
    {p \in 1..ContentLength :
        CASE r = <<-1, -1>> -> TRUE
          [] r[1] = -1 /\ r[2] # -1 -> p > ContentLength - r[2]
          [] r[1] # -1 -> p > r[1] /\ (r[2] = -1 \/ p <= r[2] + 1)}

RangesExact ==
    \A k \in Final :
        out[k].id # 0 /\ requests[out[k].id].method = "GET"
        /\ out[k].status \in {200, 206, 416} =>
            LET ranges == requests[out[k].id].ranges
            IN  IF out[k].status = 416
                THEN \E i \in DOMAIN ranges : Wanted(ranges[i]) = {}
                ELSE out[k].slices = IF ranges = <<>> THEN <<1..ContentLength>>
                                     ELSE [i \in DOMAIN ranges |-> Wanted(ranges[i])]

(* A response that says the connection ends is the last, unless the        *)
(* headers it answers were cut short; and the limit is kept.               *)
CloseIsLast ==
    /\ Cardinality(Final) <= KeepAliveMax
    /\ \A k \in Final : Number(k) = KeepAliveMax => out[k].close
    /\ ~late => \A i \in DOMAIN out : out[i].close => i = Len(out)

(* The worker is in send, and waits for the client to read.                *)
Stalled == writes # <<>> /\ ~gone /\ ~HasRoom /\ (sending \/ high)

(* The one way for a client to hold the worker for good is to leave a      *)
(* response unread that does not fit into the socket.  One that stops in   *)
(* the middle of a line, a header block, a body or a chunk does not; on a  *)
(* socket beyond FD_SETSIZE, where nothing times out, one that ends the    *)
(* stream does not (httplib.h:1675-1735, 3862-3889).                       *)
ConnectionEnds == <>[]Stalled \/ ((~high \/ fin) ~> SocketClosed)
=============================================================================
