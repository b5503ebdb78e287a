----------------------------- MODULE HttpServer -----------------------------
(***************************************************************************)
(* httplib::Server as httpServer.cc runs it: the main thread accepts       *)
(* connections and enqueues them as jobs of the ThreadPool; a worker       *)
(* serves one connection at a time, request after request, until the       *)
(* keep-alive limit, a timeout, a "Connection: close" or the client ends   *)
(* it.  Connection c is the c-th that clients open and the c-th job.       *)
(*                                                                         *)
(* A request is what the branches of process_request, routing and the "/s" *)
(* handler tell apart; headers other than Connection are left out, and a   *)
(* request that has a body brings it along.  A malformed line is an entry  *)
(* of its own: the server answers it and takes what follows for the next   *)
(* request line.  A "partial" line is one whose end the client never       *)
(* sends.  Time is left out: a timeout may come whenever its socket has    *)
(* nothing to read, or no room for what is written.  What is written to a  *)
(* socket is counted in units of which its buffer holds SendBuffer.        *)
(***************************************************************************)
EXTENDS ThreadPool

CONSTANTS
    KeepAliveMax,   \* keep_alive_max_count_
    FdLimit,        \* sockets the process may have open
    Scripts,        \* what clients send: a sequence of requests for each connection
    SendBuffer,     \* units a socket holds that its client has not read
    BodySize,       \* units of a body; the headers are one
    NoWord,         \* a request without the word parameter
    EmptyWord       \* the empty string

ASSUME HttpAssumption ==
    /\ KeepAliveMax \in Nat \ {0}
    /\ FdLimit \in Nat \ {0}
    /\ SendBuffer \in Nat \ {0}
    /\ BodySize \in Nat \ {0}

VARIABLES
    connected,   \* how many connections clients have opened
    peer,        \* per connection: the client has not hung up
    unsent,      \* per connection: requests the client has not sent
    inbox,       \* per connection: requests not read yet
    out,         \* per connection: the server's responses
    sock,        \* per connection: the server's socket
    queued,      \* per connection: units written that the client has not read
    hpc,         \* per worker: where it is in process_and_close_socket
    count,       \* per worker: count in process_server_socket_core
    last,        \* per worker: the response under way ends the connection
    writes,      \* per worker: the units each write of it still has to send
    ret          \* what listen_internal is going to return

clientVars == <<connected, peer, unsent>>
workVars == <<out, sock, hpc, count, last>>
connVars == <<inbox, queued, writes, workVars>>
httpVars == <<poolVars, clientVars, connVars, ret>>

Conns == 1..MaxJobs
OpenSockets == {c \in Conns : sock[c] = "open"}

-----------------------------------------------------------------------------
(* The "/s" handler calls set_content once or twice; each call replaces    *)
(* the body.  get_param_value of a missing parameter is the empty string.  *)
Prompt == <<"prompt">>
Page == <<"page">>
NoBody == <<>>

Contents(r) ==
    IF r.word = NoWord THEN <<Prompt, <<"search", EmptyWord>> >>
    ELSE << <<"search", r.word>> >>

handler(r) == Contents(r)[Len(Contents(r))]

(* Server::routing: for GET and HEAD first the files of wwwRoot, then the  *)
(* handlers; no handler is registered for the other methods, and httplib   *)
(* answers the methods it has no handlers for with 400.                    *)
routing(r) ==
    CASE r.method \in {"GET", "HEAD"} /\ r.target = "page" -> [status |-> 200, body |-> Page]
      [] r.method \in {"GET", "HEAD"} /\ r.target = "/s" -> [status |-> 200, body |-> handler(r)]
      [] r.method \in {"TRACE", "CONNECT"} -> [status |-> 400, body |-> NoBody]
      [] OTHER -> [status |-> 404, body |-> NoBody]

respond(r) ==
    CASE r.line = "long" -> [status |-> 414, body |-> NoBody]
      [] r.line \in {"bad", "partial"} -> [status |-> 400, body |-> NoBody]
      [] r.line = "ok"   -> routing(r)

(* connection_closed in process_request: set only once the header is read. *)
ConnectionClosed(r) ==
    /\ r.line = "ok"
    /\ \/ r.connection = "close"
       \/ (r.version = "1.0" /\ r.connection # "Keep-Alive")

(* Mutant: the last response allowed is taken for the one before it.       *)
AnnouncesCloseLate(r, n) == n = 0 \/ (r.line = "ok" /\ r.connection = "close")

(* write_response_core announces the end of the connection.                *)
AnnouncesClose(r, n) == n = 1 \/ (r.line = "ok" /\ r.connection = "close")

Response(r, n) ==
    [status |-> respond(r).status,
     word   |-> r.word,
     body   |-> IF r.method = "HEAD" THEN NoBody ELSE respond(r).body,
     close  |-> AnnouncesClose(r, n)]

(* write_response_core writes the headers, and then the body if there is   *)
(* one.                                                                    *)
Writes(response) == IF response.body = NoBody THEN <<1>> ELSE <<1, BodySize>>

-----------------------------------------------------------------------------
HttpInit ==
    /\ PoolInit
    /\ connected = 0
    /\ peer = [c \in Conns |-> FALSE]
    /\ unsent \in Scripts
    /\ inbox = [c \in Conns |-> <<>>]
    /\ out = [c \in Conns |-> <<>>]
    /\ sock = [c \in Conns |-> "none"]
    /\ queued = [c \in Conns |-> 0]
    /\ hpc = [w \in Workers |-> "idle"]
    /\ count = [w \in Workers |-> 0]
    /\ last = [w \in Workers |-> FALSE]
    /\ writes = [w \in Workers |-> <<>>]
    /\ ret = TRUE

(* The clients.                                                            *)
Connect ==
    /\ opc = "running"
    /\ connected < MaxJobs
    /\ connected' = connected + 1
    /\ peer' = [peer EXCEPT ![connected + 1] = TRUE]
    /\ UNCHANGED <<poolVars, connVars, unsent, ret>>

Send(c) ==
    /\ peer[c]
    /\ unsent[c] # <<>>
    /\ sock[c] # "closed"
    /\ \A i \in DOMAIN inbox[c] : inbox[c][i].line # "partial"
    /\ unsent' = [unsent EXCEPT ![c] = Tail(@)]
    /\ inbox' = [inbox EXCEPT ![c] = Append(@, Head(unsent[c]))]
    /\ UNCHANGED <<poolVars, connected, peer, queued, writes, workVars, ret>>

(* Once the server has closed the socket, what its client does makes no    *)
(* difference.                                                             *)
Receive(c) ==
    /\ peer[c]
    /\ sock[c] # "closed"
    /\ queued[c] > 0
    /\ queued' = [queued EXCEPT ![c] = @ - 1]
    /\ UNCHANGED <<poolVars, clientVars, inbox, writes, workVars, ret>>

Hangup(c) ==
    /\ peer[c]
    /\ sock[c] # "closed"
    /\ peer' = [peer EXCEPT ![c] = FALSE]
    /\ queued' = [queued EXCEPT ![c] = 0]
    /\ UNCHANGED <<poolVars, connected, unsent, inbox, writes, workVars, ret>>

-----------------------------------------------------------------------------
(* listen_internal.  At the limit of descriptors accept fails with EMFILE  *)
(* and is tried again after a sleep: no step is taken until there is room. *)
Accept ==
    /\ enqueued < connected
    /\ Cardinality(OpenSockets) < FdLimit
    /\ enqueue
    /\ sock' = [sock EXCEPT ![enqueued + 1] = "open"]
    /\ UNCHANGED <<clientVars, inbox, out, queued, hpc, count, last, writes, ret>>

(* Any other failure of accept ends the loop and shuts the pool down.      *)
AcceptFails ==
    /\ shutdown
    /\ ret' = FALSE
    /\ UNCHANGED <<clientVars, connVars>>

ShutdownPool ==
    /\ notify_all \/ join
    /\ UNCHANGED <<clientVars, connVars, ret>>

(* A worker between two connections.                                       *)
TakeConnection(w) ==
    /\ Take(w)
    /\ hpc' = [hpc EXCEPT ![w] = "keepalive"]
    /\ count' = [count EXCEPT ![w] = KeepAliveMax]
    /\ UNCHANGED <<clientVars, inbox, out, sock, queued, last, writes, ret>>

Rest(w) ==
    /\ Wait(w) \/ Exit(w)
    /\ UNCHANGED <<clientVars, connVars, ret>>

Stir(w) ==
    /\ SpuriousWakeup(w)
    /\ UNCHANGED <<clientVars, connVars, ret>>

(* keep_alive: select reports data, or the end of a stream hung up.        *)
Readable(c) == inbox[c] # <<>> \/ ~peer[c]

keep_alive(w) ==
    /\ hpc[w] = "keepalive"
    /\ hpc' = [hpc EXCEPT ![w] = IF Readable(fn[w]) THEN "request" ELSE "close"]
    /\ UNCHANGED <<poolVars, clientVars, inbox, out, sock, queued, count, last, writes, ret>>

(* The request line cannot be read: the client has hung up, or it stopped  *)
(* in the middle of the line and the read times out.  (If it stopped there *)
(* and hung up, getline returns what there is.)                            *)
RequestLineFails(w) ==
    /\ hpc[w] = "request"
    /\ inbox[fn[w]] # <<>> => Head(inbox[fn[w]]).line = "partial" /\ peer[fn[w]]
    /\ hpc' = [hpc EXCEPT ![w] = "close"]
    /\ UNCHANGED <<poolVars, clientVars, inbox, out, sock, queued, count, last, writes, ret>>

(* One turn of process_server_socket_core reads, routes ...                *)
process_request(w) ==
    /\ hpc[w] = "request"
    /\ inbox[fn[w]] # <<>>
    /\ Head(inbox[fn[w]]).line # "partial" \/ ~peer[fn[w]]
    /\ LET c == fn[w]
           r == Head(inbox[c])
       IN  /\ inbox' = [inbox EXCEPT ![c] = Tail(@)]
           /\ out' = [out EXCEPT ![c] = Append(@, Response(r, count[w]))]
           /\ count' = [count EXCEPT ![w] = @ - 1]
           /\ last' = [last EXCEPT ![w] = ConnectionClosed(r) \/ count[w] = 1]
           /\ writes' = [writes EXCEPT ![w] = Writes(Response(r, count[w]))]
    /\ hpc' = [hpc EXCEPT ![w] = "write"]
    /\ UNCHANGED <<poolVars, clientVars, sock, queued, ret>>

(* ... and writes.  SocketStream::write waits in select until the socket   *)
(* has room, and gives up after a timeout; then send puts in what there is *)
(* room for, and waits for the rest without a timeout.  It fails when the  *)
(* client has hung up.  No failure is noticed (write returns -1, which is  *)
(* not false): the write is lost, and what comes after it is done.         *)
WriteEnds(w) ==
    /\ writes' = [writes EXCEPT ![w] = Tail(@)]
    /\ hpc' = [hpc EXCEPT ![w] = CASE Tail(writes[w]) # <<>> -> "write"
                                   [] Tail(writes[w]) = <<>> /\ last[w] -> "close"
                                   [] Tail(writes[w]) = <<>> /\ ~last[w] -> "keepalive"]

HasRoom(c) == queued[c] < SendBuffer

Fill(w) ==
    LET c == fn[w]
        room == SendBuffer - queued[c]
        left == Head(writes[w])
    IN  \/ /\ left <= room
           /\ queued' = [queued EXCEPT ![c] = @ + left]
           /\ WriteEnds(w)
        \/ /\ left > room
           /\ queued' = [queued EXCEPT ![c] = SendBuffer]
           /\ writes' = [writes EXCEPT ![w] = <<left - room>> \o Tail(@)]
           /\ hpc' = [hpc EXCEPT ![w] = "send"]

(* Mutant: the wait for room has no timeout.                               *)
NoTimeout(w) == FALSE

TimesOut(w) == hpc[w] = "write" /\ peer[fn[w]] /\ ~HasRoom(fn[w])

write(w) ==
    /\ hpc[w] \in {"write", "send"}
    /\ \/ peer[fn[w]] /\ HasRoom(fn[w]) /\ Fill(w)
       \/ ~peer[fn[w]] /\ WriteEnds(w) /\ UNCHANGED queued
       \/ TimesOut(w) /\ WriteEnds(w) /\ UNCHANGED queued
    /\ UNCHANGED <<poolVars, clientVars, inbox, out, sock, count, last, ret>>

(* Mutant: the job ends and the socket stays open.                         *)
forget_socket(w) ==
    /\ hpc[w] = "close"
    /\ Finish(w)
    /\ hpc' = [hpc EXCEPT ![w] = "idle"]
    /\ UNCHANGED <<clientVars, inbox, out, sock, queued, count, last, writes, ret>>

(* The end of process_and_close_socket, and so of the job and its locals.  *)
(* What the client sent and nobody read goes with the socket.              *)
close_socket(w) ==
    /\ hpc[w] = "close"
    /\ Finish(w)
    /\ sock' = [sock EXCEPT ![fn[w]] = "closed"]
    /\ inbox' = [inbox EXCEPT ![fn[w]] = <<>>]
    /\ queued' = [queued EXCEPT ![fn[w]] = 0]
    /\ hpc' = [hpc EXCEPT ![w] = "idle"]
    /\ count' = [count EXCEPT ![w] = 0]
    /\ last' = [last EXCEPT ![w] = FALSE]
    /\ UNCHANGED <<clientVars, out, writes, ret>>

process_and_close_socket(w) ==
    \/ keep_alive(w)
    \/ RequestLineFails(w)
    \/ process_request(w)
    \/ write(w)
    \/ close_socket(w)

-----------------------------------------------------------------------------
HttpNext ==
    \/ Connect
    \/ \E c \in Conns : Send(c) \/ Receive(c) \/ Hangup(c)
    \/ Accept
    \/ AcceptFails
    \/ ShutdownPool
    \/ \E w \in Workers :
         TakeConnection(w) \/ Rest(w) \/ Stir(w) \/ process_and_close_socket(w)

HttpSpec == HttpInit /\ [][HttpNext]_httpVars

(* Threads that can go on are scheduled, and the timeouts of keep_alive,   *)
(* read and select end their waits for a client; nothing ends a wait in    *)
(* send, and nothing is assumed of clients.                                *)
HttpFairness ==
    /\ WF_httpVars(Accept)
    /\ WF_httpVars(ShutdownPool)
    /\ \A w \in Workers :
         WF_httpVars(TakeConnection(w) \/ Rest(w) \/ process_and_close_socket(w))

FairHttpSpec == HttpSpec /\ HttpFairness

-----------------------------------------------------------------------------
(* Every accepted socket is open exactly until its one worker has closed   *)
(* it: a worker never reads or writes a socket that is closed, none is     *)
(* closed while it waits in the list, and none is left open by a job that  *)
(* has ended (httplib.h:4464, 4791-4803).                                  *)
SocketsOwned ==
    /\ OpenSockets = Held \cup {jobs_[i] : i \in DOMAIN jobs_}
    /\ {c \in Conns : sock[c] = "closed"} = ran
    /\ \A w \in Workers : hpc[w] # "idle" <=> wpc[w] = "run"

(* What responses tell of keep-alive is true: a connection carries at      *)
(* most the limit of responses, the last one the limit allows says that    *)
(* the connection ends, and after such a response there is no other        *)
(* (httplib.h:1870-1877, 4153).                                            *)
KeepAliveContract ==
    \A c \in Conns :
        /\ Len(out[c]) <= KeepAliveMax
        /\ Len(out[c]) = KeepAliveMax => out[c][KeepAliveMax].close
        /\ \A i \in DOMAIN out[c] : out[c][i].close => i = Len(out[c])

(* A worker whose send waits for the client to read.                       *)
Stalled(w) == hpc[w] = "send" /\ peer[fn[w]] /\ ~HasRoom(fn[w])

WorkersFree == \E w \in Workers : []<>~Stalled(w)

(* A client that does not read what it asked for can hold a worker for     *)
(* good, in send; nothing else can.  While clients do not hold all of the  *)
(* workers for good, every accepted connection, of a client that is silent *)
(* or stops in the middle of a line included, is closed, unless it is the  *)
(* one that holds its worker (httplib.h:1845-1879, 3877-3889).             *)
EveryConnectionCloses ==
    WorkersFree =>
        \A c \in Conns :
            sock[c] = "open" ~> \/ sock[c] = "closed"
                                \/ \E w \in Workers : fn[w] = c /\ Stalled(w)

(* At the limit of descriptors accept is resumed: with a descriptor for    *)
(* each worker, and while clients do not hold all of the workers for good, *)
(* every connection is accepted unless the accept loop ends.               *)
EveryConnectionAccepted ==
    WorkersFree /\ Cardinality(Workers) <= FdLimit =>
        \A c \in Conns : c <= connected ~> (c <= enqueued \/ opc # "running")

(* The server uses its pool as ThreadPool specifies.                       *)
UsesPool == PoolSpec

(* A search without the word parameter is answered with the prompt         *)
(* httpServer.cc:34 sets.                                                  *)
PromptWhenNoWord ==
    \A c \in Conns : \A i \in DOMAIN out[c] :
        out[c][i].word = NoWord /\ out[c][i].body \notin {NoBody, Page}
            => out[c][i].body = Prompt
=============================================================================
