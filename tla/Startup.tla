------------------------------ MODULE Startup -------------------------------
(***************************************************************************)
(* The server process from exec to its end: daemonize, class log,          *)
(* initSearcher and listen, and what they do to the table of descriptors.  *)
(* A new descriptor is the lowest free number, so what 0, 1 and 2 refer to *)
(* depends on what the launcher left open and on every open that failed.   *)
(* Records go to whatever descriptor 1 refers to when they are written.    *)
(*                                                                         *)
(* Calls into the system (fork, open, socket, bind, accept) fail or not.   *)
(* Files that are opened, read and closed within a step leave the table    *)
(* as it was.                                                              *)
(***************************************************************************)
EXTENDS Integers, Sequences, FiniteSets

CONSTANTS
    Inherited,   \* descriptors the launcher may have left open
    MaxFd,       \* the largest descriptor
    MaxRecords   \* bound on the searches that are logged

ASSUME StartupAssumption ==
    /\ MaxFd \in Nat /\ MaxFd >= 2
    /\ Inherited \subseteq 0..MaxFd
    /\ MaxRecords \in Nat

VARIABLES
    pc,        \* where main is
    fds,       \* what each descriptor refers to
    leader,    \* the process leads its group
    forked,    \* fork has succeeded
    session,   \* the launcher's session or the process's own
    null,      \* /dev/null could be opened
    logFd,     \* _logFd
    indexed,   \* buildIndex could read the raw file
    written    \* the records written, and to what

startupVars == <<pc, fds, leader, forked, session, null, logFd, indexed, written>>

-----------------------------------------------------------------------------
Free == {n \in 0..MaxFd : fds[n] = "free"}
Lowest == CHOOSE n \in Free : \A k \in Free : n <= k
Standard == 0..2

Record(r) == [record |-> r, to |-> fds[1]]
LOG(r) == written' = Append(written, Record(r))

StartupInit ==
    /\ pc = "daemonize"
    /\ \E open \in SUBSET Inherited :
          fds = [n \in 0..MaxFd |-> IF n \in open THEN "terminal" ELSE "free"]
    /\ leader \in BOOLEAN
    /\ forked = FALSE
    /\ session = "launcher"
    /\ null = FALSE
    /\ logFd = -1
    /\ indexed = FALSE
    /\ written = <<>>

(* daemonize: the parent exits; a fork that fails is taken for the child.  *)
fork ==
    /\ pc = "daemonize"
    /\ \/ forked' = TRUE /\ leader' = FALSE
       \/ UNCHANGED <<forked, leader>>
    /\ pc' = "setsid"
    /\ UNCHANGED <<fds, session, null, logFd, indexed, written>>

(* Its result is not looked at: it fails for the leader of a group.        *)
setsid ==
    /\ pc = "setsid"
    /\ session' = IF leader THEN session ELSE "own"
    /\ pc' = "redirect"
    /\ UNCHANGED <<fds, leader, forked, null, logFd, indexed, written>>

(* Mutant: standard input is left as it is.                                *)
OutputRedirected == [k \in 0..MaxFd |-> IF k \in {1, 2} THEN "null" ELSE fds[k]]

(* The descriptor of /dev/null is copied to the standard ones, and closed  *)
(* if it is not one of them.                                               *)
Redirected == [k \in 0..MaxFd |-> IF k \in Standard THEN "null" ELSE fds[k]]

Redirect ==
    /\ pc = "redirect"
    /\ \/ Free # {} /\ null' = TRUE /\ fds' = Redirected
       \/ UNCHANGED <<null, fds>>
    /\ pc' = "enable"
    /\ UNCHANGED <<leader, forked, session, logFd, indexed, written>>

(* Mutant: _logFd is closed once it is copied.                             *)
LoggedAndClosed(n) ==
    [k \in 0..MaxFd |->
        CASE k = n -> "free"
          [] k \in {1, 2} \ {n} -> "log"
          [] OTHER -> fds[k]]

Logged(n) == [k \in 0..MaxFd |-> IF k \in {n, 1, 2} THEN "log" ELSE fds[k]]

(* log::enable; an open that fails stops the process at the assert.        *)
enable ==
    /\ pc = "enable"
    /\ \/ /\ Free # {}
          /\ logFd' = Lowest
          /\ fds' = Logged(Lowest)
          /\ pc' = "instances"
       \/ /\ pc' = "aborted"
          /\ UNCHANGED <<logFd, fds>>
    /\ UNCHANGED <<leader, forked, session, null, indexed, written>>

(* initSearcher: a dictionary that cannot be read stops the process.       *)
getInstance ==
    /\ pc = "instances"
    /\ \/ /\ Free # {}
          /\ LOG("instances")
          /\ pc' = "build"
       \/ /\ pc' = "aborted"
          /\ UNCHANGED written
    /\ UNCHANGED <<fds, leader, forked, session, null, logFd, indexed>>

(* Mutant: a raw file that cannot be opened is not reported.               *)
BuildQuietly ==
    /\ pc = "build"
    /\ \/ Free # {} /\ indexed' = TRUE
       \/ UNCHANGED indexed
    /\ LOG("built")
    /\ pc' = "start"
    /\ UNCHANGED <<fds, leader, forked, session, null, logFd>>

(* buildIndex reports a raw file that it cannot open; initSearcher goes on *)
(* as if it had not failed.                                                *)
buildIndex ==
    /\ pc = "build"
    /\ \/ /\ Free # {}
          /\ indexed' = TRUE
          /\ LOG("built")
       \/ /\ UNCHANGED indexed
          /\ written' = Append(Append(written, Record("failed")), Record("built"))
    /\ pc' = "start"
    /\ UNCHANGED <<fds, leader, forked, session, null, logFd>>

(* main reports success, then listens; if it cannot, it returns, and ~log  *)
(* closes _logFd.                                                          *)
Started ==
    /\ pc = "start"
    /\ LOG("started")
    /\ pc' = "listen"
    /\ UNCHANGED <<fds, leader, forked, session, null, logFd, indexed>>

create_server_socket ==
    /\ pc = "listen"
    /\ \/ /\ Free # {}
          /\ fds' = [fds EXCEPT ![Lowest] = "server"]
          /\ pc' = "serving"
          /\ UNCHANGED logFd
       \/ /\ fds' = [fds EXCEPT ![logFd] = "free"]
          /\ logFd' = -1
          /\ pc' = "exited"
    /\ UNCHANGED <<leader, forked, session, null, indexed, written>>

-----------------------------------------------------------------------------
Accept ==
    /\ pc = "serving"
    /\ Free # {}
    /\ fds' = [fds EXCEPT ![Lowest] = "client"]
    /\ UNCHANGED <<pc, leader, forked, session, null, logFd, indexed, written>>

(* The "/s" handler logs the search; the socket is closed at the end of    *)
(* its connection.                                                         *)
Search(n) ==
    /\ pc \in {"serving", "shutdown"}
    /\ fds[n] = "client"
    /\ Cardinality({i \in DOMAIN written : written[i].record = "search"}) < MaxRecords
    /\ LOG("search")
    /\ UNCHANGED <<pc, fds, leader, forked, session, null, logFd, indexed>>

close_socket(n) ==
    /\ pc \in {"serving", "shutdown"}
    /\ fds[n] = "client"
    /\ fds' = [fds EXCEPT ![n] = "free"]
    /\ UNCHANGED <<pc, leader, forked, session, null, logFd, indexed, written>>

(* accept fails, other than for want of descriptors: listen closes its     *)
(* socket ...                                                              *)
AcceptFails ==
    /\ pc = "serving"
    /\ fds' = [n \in 0..MaxFd |-> IF fds[n] = "server" THEN "free" ELSE fds[n]]
    /\ pc' = "shutdown"
    /\ UNCHANGED <<leader, forked, session, null, logFd, indexed, written>>

(* ... and waits for the workers, which serve whoever was accepted.  Then  *)
(* it returns, and so does main.                                           *)
shutdown ==
    /\ pc = "shutdown"
    /\ \A n \in 0..MaxFd : fds[n] # "client"
    /\ fds' = [fds EXCEPT ![logFd] = "free"]
    /\ logFd' = -1
    /\ pc' = "exited"
    /\ UNCHANGED <<leader, forked, session, null, indexed, written>>

StartupNext ==
    \/ fork
    \/ setsid
    \/ Redirect
    \/ enable
    \/ getInstance
    \/ buildIndex
    \/ Started
    \/ create_server_socket
    \/ Accept
    \/ \E n \in 0..MaxFd : Search(n) \/ close_socket(n)
    \/ AcceptFails
    \/ shutdown

StartupSpec == StartupInit /\ [][StartupNext]_startupVars

-----------------------------------------------------------------------------
(* Whatever was open at the start and whatever failed to open, no record   *)
(* goes to the terminal, to a client's socket or nowhere                   *)
(* (logMessage.hpp:30-37, daemonize.hpp:26-35).                            *)
RecordsReachLogFile == \A i \in DOMAIN written : written[i].to = "log"

(* No socket takes a standard descriptor, by which the process would read  *)
(* from or write to a client; and the log file stays open behind both      *)
(* streams while the server serves.                                        *)
StandardStreamsKept ==
    pc = "serving" =>
        /\ \A n \in Standard : fds[n] \notin {"free", "server", "client"}
        /\ fds[1] = "log" /\ fds[2] = "log"

(* How far a server that serves has left the terminal, whatever failed: it *)
(* is in the launcher's session only if fork failed in the leader of a     *)
(* group, and of the standard streams only the input can be the            *)
(* terminal's, if /dev/null could not be opened.  Other descriptors that   *)
(* the launcher left open stay as they are.                                *)
OffTerminal ==
    pc = "serving" =>
        /\ session = "launcher" => leader /\ ~forked
        /\ \A n \in Standard : fds[n] = "terminal" => n = 0 /\ ~null

(* A server that serves without an index has said so in its log, and only  *)
(* such a server has (searcher.hpp:49, index.hpp:133-137).                 *)
LogTellsIndex ==
    pc = "serving" =>
        indexed = ~(\E i \in DOMAIN written :
                       written[i].record = "failed" /\ written[i].to = "log")
=============================================================================
