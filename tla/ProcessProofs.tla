---------------------------- MODULE ProcessProofs ---------------------------
(***************************************************************************)
(* The server process and its log.  Whatever the launcher left open and    *)
(* whatever fails, log records go to the log file, no socket takes a       *)
(* standard descriptor and the terminal is left, for every limit of        *)
(* descriptors and every set of inherited ones.  The records of every      *)
(* thread in the log file are its messages, each once and in order, for    *)
(* every number of threads and of messages, every way the buffer of stdout *)
(* spills and a kill at any time.                                          *)
(***************************************************************************)
EXTENDS Startup, Log, SequenceTheorems, WellFoundedInduction, TLAPS

-----------------------------------------------------------------------------
(* Startup.                                                                *)
Objects == {"free", "terminal", "null", "log", "server", "client"}

(* The places of main before and after log::enable has succeeded.          *)
Early == {"daemonize", "setsid", "redirect", "enable"}
Late == {"instances", "build", "start", "listen", "serving", "shutdown"}

Names == {"instances", "failed", "built", "started", "search"}
Records == Seq([record : Names, to : Objects])
AllToLog(w) == \A i \in DOMAIN w : w[i].to = "log"

TypeOK ==
    /\ pc \in Early \cup Late \cup {"aborted", "exited"}
    /\ fds \in [0..MaxFd -> Objects]
    /\ logFd \in -1..MaxFd
    /\ written \in Records

(* Before enable nothing is written and there is no socket; after it the   *)
(* standard descriptors are taken, by the log file but for 0.              *)
StartupInv ==
    /\ TypeOK
    /\ pc \in Early => written = <<>> /\ \A n \in 0..MaxFd : fds[n] \notin {"server", "client"}
    /\ pc \in Late =>
          /\ logFd \in 0..MaxFd
          /\ fds[1] = "log"
          /\ fds[2] = "log"
          /\ fds[0] \notin {"free", "server", "client"}
    /\ AllToLog(written)

(* A lowest free descriptor exists when one is free, so Lowest is free; it *)
(* is 0 if 0 is free, and no standard one if they are taken.               *)
LEMMA LowestIsFree ==
    ASSUME Free # {}
    PROVE  /\ Lowest \in 0..MaxFd
           /\ fds[Lowest] = "free"
           /\ fds[0] = "free" => Lowest = 0
<1>1. Free \subseteq Nat /\ Free \subseteq 0..MaxFd
  BY StartupAssumption DEF Free
<1>2. \E n \in Free : \A k \in Free : ~(<<k, n>> \in OpToRel(<, Nat))
  BY <1>1, NatLessThanWellFounded, WFMin
<1>3. PICK n \in Free : \A k \in Free : ~(<<k, n>> \in OpToRel(<, Nat))
  BY <1>2
<1>4. \A k \in Free : n <= k
  <2>1. \A k \in Free : ~(k < n)
    BY <1>1, <1>3 DEF OpToRel
  <2> QED
    BY <1>1, <2>1
<1>5. Lowest \in Free /\ \A k \in Free : Lowest <= k
  BY <1>4 DEF Lowest
<1>6. fds[0] = "free" => 0 \in Free
  BY StartupAssumption DEF Free
<1> QED
  BY <1>1, <1>5, <1>6 DEF Free

(* What is appended goes where descriptor 1 refers.                        *)
LEMMA AppendToLog ==
    ASSUME NEW w \in Records, AllToLog(w), NEW r \in [record : Names, to : {"log"}]
    PROVE  Append(w, r) \in Records /\ AllToLog(Append(w, r))
<1>1. r \in [record : Names, to : Objects] /\ r.to = "log"
  BY DEF Objects
<1> QED
  BY <1>1 DEF Records, AllToLog

(* A record that is written late goes to the log file.                     *)
LEMMA LogWrites ==
    ASSUME StartupInv, pc \in Late, NEW r \in Names
    PROVE  /\ Record(r) \in [record : Names, to : {"log"}]
           /\ Append(written, Record(r)) \in Records
           /\ AllToLog(Append(written, Record(r)))
<1>1. Record(r) \in [record : Names, to : {"log"}]
  BY DEF Record, StartupInv
<1>2. written \in Records /\ AllToLog(written)
  BY DEF StartupInv, TypeOK
<1> QED
  BY <1>1, <1>2, AppendToLog

(* The invariant of the start holds at first ...                           *)
LEMMA InitInv == StartupInit => StartupInv
<1>1. SUFFICES ASSUME StartupInit PROVE StartupInv
  OBVIOUS
<1>2. fds \in [0..MaxFd -> {"terminal", "free"}]
  BY <1>1 DEF StartupInit
<1>3. TypeOK
  BY <1>1, <1>2, StartupAssumption DEF StartupInit, TypeOK, Early, Objects
<1>4. \A n \in 0..MaxFd : fds[n] \notin {"server", "client"}
  BY <1>2
<1> QED
  BY <1>1, <1>3, <1>4 DEF StartupInit, StartupInv, AllToLog, Early, Late

(* ... every step keeps it ...                                             *)
LEMMA NextInv == StartupInv /\ [StartupNext]_startupVars => StartupInv'
<1>1. SUFFICES ASSUME StartupInv, [StartupNext]_startupVars PROVE StartupInv'
  OBVIOUS
<1> USE <1>1
<1>a. MaxFd \in Nat /\ {0, 1, 2} \subseteq 0..MaxFd
  BY StartupAssumption
<1>2. CASE fork \/ setsid
  BY <1>2 DEF fork, setsid, StartupInv, TypeOK, AllToLog, Early, Late
<1>3. CASE Redirect
  <2>1. fds' \in [0..MaxFd -> Objects] /\ \A n \in 0..MaxFd : fds'[n] \notin {"server", "client"}
    BY <1>3 DEF Redirect, Redirected, StartupInv, TypeOK, Objects, Early
  <2> QED
    BY <1>3, <2>1 DEF Redirect, StartupInv, TypeOK, AllToLog, Early, Late
<1>4. CASE enable
  <2>1. CASE pc' = "aborted"
    BY <1>4, <2>1 DEF enable, StartupInv, TypeOK, AllToLog, Early, Late
  <2>2. CASE pc' # "aborted"
    <3>1. /\ Free # {} /\ pc' = "instances" /\ logFd' = Lowest
          /\ fds' = Logged(Lowest) /\ written' = written /\ pc = "enable"
      BY <1>4, <2>2 DEF enable
    <3>2. Lowest \in 0..MaxFd /\ (fds[0] = "free" => Lowest = 0)
      BY <3>1, LowestIsFree
    <3>3. /\ fds' \in [0..MaxFd -> Objects]
          /\ fds'[1] = "log" /\ fds'[2] = "log"
          /\ fds'[0] \notin {"free", "server", "client"}
      BY <1>a, <3>1, <3>2 DEF Logged, StartupInv, TypeOK, Objects, Early
    <3> QED
      BY <1>a, <3>1, <3>2, <3>3 DEF StartupInv, TypeOK, AllToLog, Early, Late
  <2> QED
    BY <2>1, <2>2
<1>5. CASE getInstance
  <2>1. CASE pc' = "aborted"
    BY <1>5, <2>1 DEF getInstance, LOG, StartupInv, TypeOK, AllToLog, Early, Late
  <2>2. CASE pc' # "aborted"
    <3>1. LOG("instances") /\ pc' = "build" /\ pc = "instances" /\ UNCHANGED <<fds, logFd>>
      BY <1>5, <2>2 DEF getInstance
    <3>2. written' \in Records /\ AllToLog(written')
      BY <3>1, LogWrites DEF LOG, Late, Names
    <3> QED
      BY <3>1, <3>2 DEF StartupInv, TypeOK, Early, Late
  <2> QED
    BY <2>1, <2>2
<1>6. CASE buildIndex
  <2>0. pc = "build" /\ pc' = "start" /\ UNCHANGED <<fds, logFd>> /\ fds[1] = "log"
    BY <1>6 DEF buildIndex, StartupInv, Late
  <2>1. written' \in Records /\ AllToLog(written')
    <3>1. CASE LOG("built")
      BY <2>0, <3>1, LogWrites DEF LOG, Late, Names
    <3>2. CASE written' = Append(Append(written, Record("failed")), Record("built"))
      <4> DEFINE one == Append(written, Record("failed"))
      <4>1. one \in Records /\ AllToLog(one)
        BY <2>0, LogWrites DEF Late, Names
      <4>2. Record("built") \in [record : Names, to : {"log"}]
        BY <2>0, LogWrites DEF Late, Names
      <4> HIDE DEF one
      <4>3. Append(one, Record("built")) \in Records /\ AllToLog(Append(one, Record("built")))
        BY <4>1, <4>2, AppendToLog
      <4> QED
        BY <3>2, <4>3 DEF one
    <3> QED
      BY <1>6, <3>1, <3>2 DEF buildIndex
  <2> QED
    BY <2>0, <2>1 DEF StartupInv, TypeOK, Early, Late
<1>7. CASE Started
  <2>1. written' \in Records /\ AllToLog(written')
    BY <1>7, LogWrites DEF Started, LOG, Late, Names
  <2> QED
    BY <1>7, <2>1 DEF Started, StartupInv, TypeOK, Early, Late
<1>8. CASE create_server_socket
  <2>1. CASE pc' = "exited"
    BY <1>8, <2>1, <1>a
    DEF create_server_socket, StartupInv, TypeOK, AllToLog, Early, Late, Objects
  <2>2. CASE pc' # "exited"
    <3>1. /\ Free # {} /\ pc = "listen" /\ pc' = "serving"
          /\ fds' = [fds EXCEPT ![Lowest] = "server"] /\ UNCHANGED <<logFd, written>>
      BY <1>8, <2>2 DEF create_server_socket
    <3>2. Lowest \in 0..MaxFd /\ fds[Lowest] = "free"
      BY <3>1, LowestIsFree
    <3> QED
      BY <1>a, <3>1, <3>2 DEF StartupInv, TypeOK, AllToLog, Early, Late, Objects
  <2> QED
    BY <2>1, <2>2
<1>9. CASE Accept
  <2>1. Lowest \in 0..MaxFd /\ fds[Lowest] = "free"
    BY <1>9, LowestIsFree DEF Accept
  <2> QED
    BY <1>a, <1>9, <2>1
    DEF Accept, StartupInv, TypeOK, AllToLog, Early, Late, Objects
<1>10. CASE \E n \in 0..MaxFd : Search(n) \/ close_socket(n)
  <2>1. PICK n \in 0..MaxFd : Search(n) \/ close_socket(n)
    BY <1>10
  <2>2. CASE Search(n)
    <3>1. written' \in Records /\ AllToLog(written')
      BY <2>2, LogWrites DEF Search, LOG, Late, Names
    <3> QED
      BY <2>2, <3>1 DEF Search, StartupInv, TypeOK, Early, Late
  <2>3. CASE close_socket(n)
    BY <1>a, <2>1, <2>3
    DEF close_socket, StartupInv, TypeOK, AllToLog, Early, Late, Objects
  <2> QED
    BY <2>1, <2>2, <2>3
<1>11. CASE AcceptFails \/ shutdown
  BY <1>a, <1>11 DEF AcceptFails, shutdown, StartupInv, TypeOK, AllToLog, Early, Late, Objects
<1>12. CASE UNCHANGED startupVars
  BY <1>12 DEF startupVars, StartupInv, TypeOK, AllToLog, Early, Late
<1> QED
  BY <1>1, <1>2, <1>3, <1>4, <1>5, <1>6, <1>7, <1>8, <1>9, <1>10, <1>11, <1>12 DEF StartupNext

(* ... and so it always holds.                                             *)
LEMMA StartupInvariant == StartupSpec => []StartupInv
<1> QED
  BY InitInv, NextInv, PTL DEF StartupSpec

(* Every record of main and of the workers is written to the log file, for *)
(* every set of descriptors the launcher left open and every open, fork or *)
(* bind that failed (logMessage.hpp:30-37).                                *)
THEOREM RecordsReachLog == StartupSpec => []RecordsReachLogFile
<1>1. StartupInv => RecordsReachLogFile
  BY DEF StartupInv, AllToLog, RecordsReachLogFile
<1> QED
  BY <1>1, StartupInvariant, PTL

(* While the server serves, no socket is a standard descriptor and both    *)
(* output streams are the log file, for every limit of descriptors.        *)
THEOREM StreamsKept == StartupSpec => []StandardStreamsKept
<1>1. StartupInv => StandardStreamsKept
  <2>1. \A n \in Standard : n = 0 \/ n = 1 \/ n = 2
    BY DEF Standard
  <2> QED
    BY <2>1 DEF StartupInv, StandardStreamsKept, Late
<1> QED
  BY <1>1, StartupInvariant, PTL

-----------------------------------------------------------------------------
(* The child is not the leader of its group, and setsid gives a session to *)
(* whoever is not, whether fork failed or not; once the standard           *)
(* descriptors refer to /dev/null, no open brings the terminal back.       *)
TerminalInv ==
    /\ forked => ~leader
    /\ pc \notin {"daemonize", "setsid"} /\ session = "launcher" => leader
    /\ null => \A n \in Standard : fds[n] # "terminal"

(* It holds at first ...                                                   *)
LEMMA TerminalInit == StartupInit => TerminalInv
<1> QED
  BY DEF StartupInit, TerminalInv

(* ... and every step keeps it.                                            *)
LEMMA TerminalNext == StartupInv /\ TerminalInv /\ [StartupNext]_startupVars => TerminalInv'
<1>1. SUFFICES ASSUME StartupInv, TerminalInv, [StartupNext]_startupVars PROVE TerminalInv'
  OBVIOUS
<1> USE <1>1
<1>a. MaxFd \in Nat /\ Standard \subseteq 0..MaxFd /\ fds \in [0..MaxFd -> Objects]
  BY StartupAssumption DEF StartupInv, TypeOK, Standard
<1>2. CASE fork
  BY <1>2 DEF fork, TerminalInv
<1>3. CASE setsid
  BY <1>3 DEF setsid, TerminalInv
<1>4. CASE Redirect
  BY <1>4, <1>a DEF Redirect, Redirected, TerminalInv
<1>5. CASE enable
  BY <1>5, <1>a DEF enable, Logged, TerminalInv
<1>6. CASE getInstance \/ buildIndex \/ Started
  BY <1>6 DEF getInstance, buildIndex, Started, TerminalInv
<1>7. CASE create_server_socket
  BY <1>7, <1>a DEF create_server_socket, TerminalInv
<1>8. CASE Accept
  BY <1>8, <1>a DEF Accept, TerminalInv
<1>9. CASE \E n \in 0..MaxFd : Search(n) \/ close_socket(n)
  BY <1>9, <1>a DEF Search, close_socket, TerminalInv
<1>10. CASE AcceptFails \/ shutdown
  BY <1>10, <1>a DEF AcceptFails, shutdown, TerminalInv
<1>11. CASE UNCHANGED startupVars
  BY <1>11 DEF startupVars, TerminalInv
<1> QED
  BY <1>1, <1>2, <1>3, <1>4, <1>5, <1>6, <1>7, <1>8, <1>9, <1>10, <1>11 DEF StartupNext

(* For every set of inherited descriptors and every call that fails: only  *)
(* a failed fork leaves the server in the launcher's session, only a       *)
(* failed open of /dev/null leaves it the terminal as standard input, and  *)
(* nothing leaves the terminal behind its output (daemonize.hpp:20-35).    *)
THEOREM LeavesTerminal == StartupSpec => []OffTerminal
<1>1. StartupInv /\ TerminalInv => OffTerminal
  <2>1. \A n \in Standard : n = 0 \/ n = 1 \/ n = 2
    BY DEF Standard
  <2> QED
    BY <2>1 DEF StartupInv, TerminalInv, OffTerminal, Late
<1> QED
  BY <1>1, TerminalInit, TerminalNext, StartupInvariant, PTL DEF StartupSpec

-----------------------------------------------------------------------------
(* Only buildIndex reports a failure, and only when it builds nothing.     *)
Reported(w) == \E i \in DOMAIN w : w[i].record = "failed"
Unbuilt == Early \cup {"instances", "build"}

IndexInv ==
    /\ indexed \in BOOLEAN
    /\ pc \in Unbuilt => ~indexed /\ ~Reported(written)
    /\ pc \in {"start", "listen", "serving", "shutdown"} => indexed = ~Reported(written)

(* A record more changes whether a failure is reported only if it is one.  *)
LEMMA AppendReports ==
    ASSUME NEW w \in Records, NEW r \in [record : Names, to : Objects]
    PROVE  Reported(Append(w, r)) <=> Reported(w) \/ r.record = "failed"
<1>1. w \in Seq([record : Names, to : Objects])
  BY DEF Records
<1>2. Len(Append(w, r)) = Len(w) + 1 /\ Len(w) \in Nat /\ Append(w, r)[Len(w) + 1] = r
  BY <1>1
<1>3. DOMAIN w = 1..Len(w) /\ DOMAIN Append(w, r) = 1..Len(w) + 1
  BY <1>1, <1>2
<1>4. \A i \in 1..Len(w) : Append(w, r)[i] = w[i]
  BY <1>1
<1>5. ASSUME Reported(Append(w, r)) PROVE Reported(w) \/ r.record = "failed"
  <2>1. PICK i \in 1..Len(w) + 1 : Append(w, r)[i].record = "failed"
    BY <1>3, <1>5 DEF Reported
  <2>2. CASE i = Len(w) + 1
    BY <1>2, <2>1, <2>2
  <2>3. CASE i # Len(w) + 1
    <3>1. i \in 1..Len(w)
      BY <1>2, <2>3
    <3> QED
      BY <1>3, <1>4, <2>1, <3>1 DEF Reported
  <2> QED
    BY <2>2, <2>3
<1>6. ASSUME Reported(w) PROVE Reported(Append(w, r))
  <2>1. PICK i \in 1..Len(w) : w[i].record = "failed"
    BY <1>3, <1>6 DEF Reported
  <2>2. i \in 1..Len(w) + 1
    BY <1>2
  <2> QED
    BY <1>3, <1>4, <2>1, <2>2 DEF Reported
<1>7. ASSUME r.record = "failed" PROVE Reported(Append(w, r))
  <2>1. Len(w) + 1 \in 1..Len(w) + 1
    BY <1>2
  <2> QED
    BY <1>2, <1>3, <1>7, <2>1 DEF Reported
<1> QED
  BY <1>5, <1>6, <1>7

(* What LOG does to that.                                                  *)
LEMMA LogReports ==
    ASSUME StartupInv, NEW r \in Names, pc \in Late, LOG(r)
    PROVE  Reported(written') <=> Reported(written) \/ r = "failed"
<1>1. Record(r) \in [record : Names, to : Objects] /\ Record(r).record = r
  <2>1. fds[1] \in Objects
    BY DEF StartupInv, Objects
  <2> QED
    BY <2>1 DEF Record
<1>2. written \in Records
  BY DEF StartupInv, TypeOK
<1>3. written' = Append(written, Record(r))
  BY DEF LOG
<1> QED
  BY <1>1, <1>2, <1>3, AppendReports

(* The part about the index holds at first ...                             *)
LEMMA IndexInit == StartupInit => IndexInv
<1>1. ~Reported(<<>>)
  BY DEF Reported
<1> QED
  BY <1>1 DEF StartupInit, IndexInv, Unbuilt, Early

(* ... and every step keeps it.                                            *)
LEMMA IndexNext == StartupInv /\ IndexInv /\ [StartupNext]_startupVars => IndexInv'
<1>1. SUFFICES ASSUME StartupInv, IndexInv, [StartupNext]_startupVars PROVE IndexInv'
  OBVIOUS
<1> USE <1>1
<1>2. CASE fork \/ setsid \/ Redirect \/ enable
  BY <1>2 DEF fork, setsid, Redirect, enable, IndexInv, Unbuilt, Early
<1>3. CASE getInstance
  <2>1. CASE pc' = "aborted"
    BY <1>3, <2>1 DEF getInstance, IndexInv, Unbuilt, Early
  <2>2. CASE pc' # "aborted"
    <3>1. pc = "instances" /\ pc' = "build" /\ LOG("instances") /\ indexed' = indexed
      BY <1>3, <2>2 DEF getInstance
    <3>2. Reported(written') <=> Reported(written)
      BY <3>1, LogReports DEF Names, Late
    <3> QED
      BY <3>1, <3>2 DEF IndexInv, Unbuilt, Early
  <2> QED
    BY <2>1, <2>2
<1>4. CASE buildIndex
  <2>1. pc = "build" /\ pc' = "start" /\ pc \in Late /\ ~indexed /\ ~Reported(written)
    BY <1>4 DEF buildIndex, IndexInv, Unbuilt, Late
  <2>2. CASE indexed' = TRUE /\ LOG("built")
    <3>1. ~Reported(written')
      BY <2>1, <2>2, LogReports DEF Names
    <3> QED
      BY <2>1, <2>2, <3>1 DEF IndexInv, Unbuilt, Early
  <2>3. CASE /\ UNCHANGED indexed
             /\ written' = Append(Append(written, Record("failed")), Record("built"))
    <3> DEFINE one == Append(written, Record("failed"))
    <3>1. /\ Record("failed") \in [record : Names, to : Objects]
          /\ Record("built") \in [record : Names, to : Objects]
          /\ Record("failed").record = "failed" /\ one \in Records /\ written \in Records
      BY <2>1, LogWrites DEF Names, Objects, Record, StartupInv, TypeOK
    <3>2. Reported(one)
      BY <3>1, AppendReports
    <3> HIDE DEF one
    <3>3. Reported(Append(one, Record("built")))
      BY <3>1, <3>2, AppendReports
    <3>4. Reported(written')
      BY <2>3, <3>3 DEF one
    <3> QED
      BY <2>1, <2>3, <3>4 DEF IndexInv, Unbuilt, Early
  <2> QED
    BY <1>4, <2>2, <2>3 DEF buildIndex
<1>5. CASE Started
  <2>1. Reported(written') <=> Reported(written)
    BY <1>5, LogReports DEF Started, Names, Late
  <2> QED
    BY <1>5, <2>1 DEF Started, IndexInv, Unbuilt, Early
<1>6. CASE create_server_socket \/ Accept \/ AcceptFails \/ shutdown
  BY <1>6 DEF create_server_socket, Accept, AcceptFails, shutdown, IndexInv, Unbuilt, Early
<1>7. CASE \E n \in 0..MaxFd : Search(n) \/ close_socket(n)
  <2>1. PICK n \in 0..MaxFd : Search(n) \/ close_socket(n)
    BY <1>7
  <2>2. CASE Search(n)
    <3>1. Reported(written') <=> Reported(written)
      BY <2>2, LogReports DEF Search, Names, Late
    <3> QED
      BY <2>2, <3>1 DEF Search, IndexInv, Unbuilt, Early
  <2>3. CASE close_socket(n)
    BY <2>3 DEF close_socket, IndexInv, Unbuilt, Early
  <2> QED
    BY <2>1, <2>2, <2>3
<1>8. CASE UNCHANGED startupVars
  BY <1>8 DEF startupVars, IndexInv, Unbuilt, Early
<1> QED
  BY <1>1, <1>2, <1>3, <1>4, <1>5, <1>6, <1>7, <1>8 DEF StartupNext

(* A server that serves has an index unless its log file says that it      *)
(* could not be built, and then it has none, for every outcome of the      *)
(* opens before and every number of searches after (index.hpp:133-137).    *)
THEOREM LogTells == StartupSpec => []LogTellsIndex
<1>1. StartupInv /\ IndexInv => LogTellsIndex
  <2>1. SUFFICES ASSUME StartupInv, IndexInv, pc = "serving"
                 PROVE  indexed = ~(\E i \in DOMAIN written :
                                       written[i].record = "failed" /\ written[i].to = "log")
    BY DEF LogTellsIndex
  <2>2. indexed = ~Reported(written) /\ AllToLog(written)
    BY <2>1 DEF StartupInv, IndexInv
  <2> QED
    BY <2>2 DEF Reported, AllToLog
<1> QED
  BY <1>1, IndexInit, IndexNext, StartupInvariant, PTL DEF StartupSpec

-----------------------------------------------------------------------------
(* Log: the places of a thread in a call, before its record is taken.      *)
InCall == {"localtime", "localtime2", "asctime", "asctime2", "strstr", "fprintf"}

Entries == [thread : Threads, call : Nat, called : Int, time : Int, split : BOOLEAN]

LogTypeOK ==
    /\ now \in Int
    /\ lpc \in [Threads -> InCall \cup {"fflush", "idle"}]
    /\ calls \in [Threads -> Nat]
    /\ tm \in [Threads -> Int]
    /\ tmBuf \in Int
    /\ ascBuf \in [time : Int, nl : BOOLEAN]
    /\ buffer \in Seq(Entries)
    /\ file \in Seq(Entries)
    /\ up \in BOOLEAN

(* The records of each thread are in the order of its messages.            *)
InOrder(s) ==
    \A i, j \in DOMAIN s : i < j /\ s[i].thread = s[j].thread => s[i].call < s[j].call

(* The messages whose record fprintf has taken.                            *)
Taken(t) == IF lpc[t] \in InCall THEN calls[t] - 1 ELSE calls[t]

(* While the process lives, file and buffer together hold all that fprintf *)
(* has taken; the buffer holds only records whose thread is before its     *)
(* fflush, each the last of its thread.                                    *)
Held ==
    /\ \A t \in Threads : lpc[t] # "idle" => calls[t] > 0
    /\ InOrder(file \o buffer)
    /\ \A t \in Threads : Messages(file \o buffer, t) = 1..Taken(t)
    /\ \A i \in DOMAIN buffer : /\ lpc[buffer[i].thread] = "fflush"
                                /\ buffer[i].call = calls[buffer[i].thread]

LogInv ==
    /\ LogTypeOK
    /\ up => Held
    /\ ~up => RecordsOnceInOrder

-----------------------------------------------------------------------------
(* The records of two sequences are those of the one and of the other.     *)
LEMMA ConcatRecords ==
    ASSUME NEW a \in Seq(Entries), NEW b \in Seq(Entries)
    PROVE  /\ a \o b \in Seq(Entries)
           /\ Len(a \o b) = Len(a) + Len(b)
           /\ DOMAIN (a \o b) = 1..Len(a) + Len(b)
           /\ DOMAIN a = 1..Len(a)
           /\ DOMAIN b = 1..Len(b)
           /\ \A i \in DOMAIN a : i \in DOMAIN (a \o b) /\ (a \o b)[i] = a[i]
           /\ \A i \in DOMAIN b : Len(a) + i \in DOMAIN (a \o b) /\ (a \o b)[Len(a) + i] = b[i]
           /\ \A i \in DOMAIN (a \o b) : i \notin DOMAIN a => i - Len(a) \in DOMAIN b
<1>1. Len(a) \in Nat /\ Len(b) \in Nat
  OBVIOUS
<1>2. a \o b \in Seq(Entries) /\ Len(a \o b) = Len(a) + Len(b)
  OBVIOUS
<1>3. DOMAIN (a \o b) = 1..Len(a) + Len(b) /\ DOMAIN a = 1..Len(a) /\ DOMAIN b = 1..Len(b)
  BY <1>2
<1>4. \A i \in 1..Len(a) : (a \o b)[i] = a[i]
  OBVIOUS
<1>5. \A i \in 1..Len(b) : (a \o b)[Len(a) + i] = b[i]
  OBVIOUS
<1> QED
  BY <1>1, <1>2, <1>3, <1>4, <1>5

(* The messages of a thread in two sequences put together.                 *)
LEMMA ConcatMessages ==
    ASSUME NEW a \in Seq(Entries), NEW b \in Seq(Entries), NEW t
    PROVE  Messages(a \o b, t) = Messages(a, t) \cup Messages(b, t)
<1> DEFINE c == a \o b
<1>1. Messages(c, t) \subseteq Messages(a, t) \cup Messages(b, t)
  <2>1. SUFFICES ASSUME NEW i \in DOMAIN c, c[i].thread = t
                 PROVE  c[i].call \in Messages(a, t) \cup Messages(b, t)
    BY DEF Messages, Places
  <2>2. CASE i \in DOMAIN a
    BY <2>1, <2>2, ConcatRecords DEF Messages, Places
  <2>3. CASE i \notin DOMAIN a
    <3>1. i - Len(a) \in DOMAIN b /\ c[Len(a) + (i - Len(a))] = b[i - Len(a)]
      BY <2>3, ConcatRecords
    <3>2. Len(a) + (i - Len(a)) = i
      BY ConcatRecords
    <3> QED
      BY <2>1, <3>1, <3>2 DEF Messages, Places
  <2> QED
    BY <2>2, <2>3
<1>2. Messages(a, t) \subseteq Messages(c, t)
  <2>1. SUFFICES ASSUME NEW i \in DOMAIN a, a[i].thread = t PROVE a[i].call \in Messages(c, t)
    BY DEF Messages, Places
  <2>2. i \in DOMAIN c /\ c[i] = a[i]
    BY ConcatRecords
  <2> QED
    BY <2>1, <2>2 DEF Messages, Places
<1>3. Messages(b, t) \subseteq Messages(c, t)
  <2>1. SUFFICES ASSUME NEW i \in DOMAIN b, b[i].thread = t PROVE b[i].call \in Messages(c, t)
    BY DEF Messages, Places
  <2>2. Len(a) + i \in DOMAIN c /\ c[Len(a) + i] = b[i]
    BY ConcatRecords
  <2> QED
    BY <2>1, <2>2 DEF Messages, Places
<1> QED
  BY <1>1, <1>2, <1>3

(* Spilling the first n records of the buffer leaves the two together what *)
(* they were.                                                              *)
LEMMA SpillKeepsAll ==
    ASSUME NEW a \in Seq(Entries), NEW b \in Seq(Entries), NEW n \in 0..Len(b)
    PROVE  /\ SubSeq(b, 1, n) \in Seq(Entries)
           /\ SubSeq(b, n + 1, Len(b)) \in Seq(Entries)
           /\ (a \o SubSeq(b, 1, n)) \o SubSeq(b, n + 1, Len(b)) = a \o b
           /\ \A i \in DOMAIN SubSeq(b, n + 1, Len(b)) :
                 n + i \in DOMAIN b /\ SubSeq(b, n + 1, Len(b))[i] = b[n + i]
<1>1. Len(a) \in Nat /\ Len(b) \in Nat /\ n \in Nat /\ n <= Len(b) /\ DOMAIN b = 1..Len(b)
  OBVIOUS
<1> DEFINE p == SubSeq(b, 1, n)
           q == SubSeq(b, n + 1, Len(b))
<1>2. p \in Seq(Entries) /\ Len(p) = n /\ \A i \in 1..n : p[i] = b[i]
  BY <1>1
<1>3. q \in Seq(Entries) /\ Len(q) = Len(b) - n /\ \A i \in 1..Len(b) - n : q[i] = b[n + i]
  <2>1. n + 1 \in Int /\ Len(b) \in Int /\ \A i \in n + 1..Len(b) : b[i] \in Entries
    BY <1>1
  <2>2. /\ q \in Seq(Entries)
        /\ Len(q) = IF n + 1 <= Len(b) THEN Len(b) - (n + 1) + 1 ELSE 0
        /\ \A i \in 1..Len(b) - (n + 1) + 1 : q[i] = b[n + 1 + i - 1]
    BY <2>1, SubSeqProperties
  <2>3. Len(q) = Len(b) - n
    <3>1. CASE n + 1 <= Len(b)
      <4>1. Len(b) - (n + 1) + 1 = Len(b) - n
        BY <1>1
      <4> QED
        BY <2>2, <3>1, <4>1
    <3>2. CASE ~(n + 1 <= Len(b))
      <4>1. Len(b) - n = 0
        <5>1. ASSUME NEW x \in Nat, NEW y \in Nat, x <= y, ~(x + 1 <= y) PROVE y - x = 0
          BY <5>1
        <5> QED
          BY <1>1, <3>2, <5>1
      <4> QED
        BY <2>2, <3>2, <4>1
    <3> QED
      BY <3>1, <3>2
  <2> HIDE DEF q
  <2>4. ASSUME NEW i \in 1..Len(b) - n PROVE q[i] = b[n + i]
    <3>1. i \in 1..Len(b) - (n + 1) + 1 /\ n + 1 + i - 1 = n + i
      BY <1>1
    <3> QED
      BY <2>2, <3>1
  <2> QED
    BY <2>2, <2>3, <2>4
<1> HIDE DEF p, q
<1>4. DOMAIN q = 1..Len(b) - n
  BY <1>3
<1>5. p \o q = b
  <2>1. 1 \in 1..Len(b) + 1 /\ n \in 1 - 1..Len(b) /\ Len(b) \in n..Len(b)
    BY <1>1
  <2>2. SubSeq(b, 1, n) \o SubSeq(b, n + 1, Len(b)) = SubSeq(b, 1, Len(b))
    BY <2>1, ConcatAdjacentSubSeq
  <2> QED
    BY <2>2, SubSeqFull DEF p, q
<1>6. (a \o p) \o q = a \o b
  <2>1. (a \o p) \o q = a \o (p \o q)
    BY <1>2, <1>3, ConcatAssociative
  <2> QED
    BY <1>5, <2>1
<1>7. \A i \in DOMAIN q : n + i \in DOMAIN b /\ q[i] = b[n + i]
  BY <1>1, <1>3, <1>4
<1> QED
  BY <1>2, <1>3, <1>6, <1>7 DEF p, q

-----------------------------------------------------------------------------
(* What is held is what the property asks of the file: the records still   *)
(* in the buffer are the last of threads whose call has not returned.      *)
LEMMA HeldInOrder == LogTypeOK /\ Held => RecordsOnceInOrder
<1>1. SUFFICES ASSUME LogTypeOK, Held, NEW t \in Threads
               PROVE  LET returned == IF lpc[t] = "idle" THEN calls[t] ELSE calls[t] - 1
                      IN  /\ \A i, j \in Places(file, t) : i < j => file[i].call < file[j].call
                          /\ \E n \in returned..calls[t] : Messages(file, t) = 1..n
  BY DEF RecordsOnceInOrder
<1>2. file \in Seq(Entries) /\ buffer \in Seq(Entries) /\ calls[t] \in Nat
  BY <1>1 DEF LogTypeOK
<1>3. ASSUME NEW i \in Places(file, t), NEW j \in Places(file, t), i < j
      PROVE  file[i].call < file[j].call
  <2>1. /\ i \in DOMAIN (file \o buffer) /\ (file \o buffer)[i] = file[i]
        /\ j \in DOMAIN (file \o buffer) /\ (file \o buffer)[j] = file[j]
    BY <1>2, ConcatRecords DEF Places
  <2>2. file[i].thread = file[j].thread
    BY DEF Places
  <2>3. InOrder(file \o buffer)
    BY <1>1 DEF Held
  <2> QED
    BY <1>3, <2>1, <2>2, <2>3 DEF InOrder
<1>4. Messages(file, t) \cup Messages(buffer, t) = 1..Taken(t)
  BY <1>1, <1>2, ConcatMessages DEF Held
<1>5. Messages(buffer, t) \subseteq {calls[t]}
  BY <1>1 DEF Held, Messages, Places
<1>6. CASE lpc[t] # "fflush"
  <2>1. Messages(buffer, t) = {}
    BY <1>1, <1>6 DEF Held, Messages, Places
  <2>2. Messages(file, t) = 1..Taken(t)
    BY <1>4, <2>1
  <2>3. lpc[t] \in InCall \/ lpc[t] = "idle"
    BY <1>1, <1>6 DEF LogTypeOK
  <2>4. Taken(t) \in (IF lpc[t] = "idle" THEN calls[t] ELSE calls[t] - 1)..calls[t]
    BY <1>2, <2>3 DEF Taken, InCall
  <2> QED
    BY <1>3, <2>2, <2>4
<1>7. CASE lpc[t] = "fflush"
  <2>1. Taken(t) = calls[t] /\ calls[t] > 0
    BY <1>1, <1>7 DEF Taken, InCall, Held
  <2>2. Messages(file, t) = 1..calls[t] \/ Messages(file, t) = 1..calls[t] - 1
    <3>1. 1..calls[t] = (1..calls[t] - 1) \cup {calls[t]} /\ calls[t] \notin 1..calls[t] - 1
      BY <1>2, <2>1
    <3>2. CASE calls[t] \in Messages(file, t)
      BY <1>4, <1>5, <2>1, <3>2
    <3>3. CASE calls[t] \notin Messages(file, t)
      BY <1>4, <1>5, <2>1, <3>1, <3>3
    <3> QED
      BY <3>2, <3>3
  <2>3. calls[t] \in calls[t] - 1..calls[t] /\ calls[t] - 1 \in calls[t] - 1..calls[t]
    BY <1>2
  <2> QED
    BY <1>3, <1>7, <2>2, <2>3
<1> QED
  BY <1>6, <1>7

-----------------------------------------------------------------------------
(* The invariant of the log holds before anything is written.              *)
LEMMA LogInitInv == LogInit => LogInv
<1>1. SUFFICES ASSUME LogInit PROVE LogInv
  OBVIOUS
<1>2. LogTypeOK
  BY <1>1 DEF LogInit, LogTypeOK, Unset
<1>3. file \o buffer = <<>>
  BY <1>1 DEF LogInit
<1>4. InOrder(<<>>) /\ \A t \in Threads : Messages(<<>>, t) = {}
  BY DEF InOrder, Messages, Places
<1>5. \A t \in Threads : 1..Taken(t) = {} /\ lpc[t] = "idle"
  <2>1. \A t \in Threads : lpc[t] = "idle" /\ Taken(t) = 0
    BY <1>1 DEF LogInit, Taken, InCall
  <2>2. 1..0 = {}
    OBVIOUS
  <2> QED
    BY <2>1, <2>2
<1>6. DOMAIN buffer = {}
  BY <1>1 DEF LogInit
<1> QED
  BY <1>1, <1>2, <1>3, <1>4, <1>5, <1>6 DEF LogInv, Held, LogInit

(* Steps within a call leave file and buffer alone.                        *)
LEMMA LogNextInv == LogInv /\ [LogNext]_logVars => LogInv'
<1>1. SUFFICES ASSUME LogInv, [LogNext]_logVars PROVE LogInv'
  OBVIOUS
<1> USE <1>1
<1>2. CASE UNCHANGED logVars
  <2>1. LogTypeOK'
    BY <1>2 DEF logVars, LogInv, LogTypeOK
  <2>2. Held => Held'
    BY <1>2 DEF logVars, Held, Taken
  <2>3. RecordsOnceInOrder => RecordsOnceInOrder'
    BY <1>2 DEF logVars, RecordsOnceInOrder, Messages, Places
  <2>4. up' = up
    BY <1>2 DEF logVars
  <2> QED
    BY <2>1, <2>2, <2>3, <2>4 DEF LogInv
<1>3. CASE LogNext
  <2>1. LogTypeOK /\ Held /\ up = TRUE
    BY <1>3 DEF LogNext, LogInv, LogTypeOK
  <2> USE <2>1
  <2>a. file \in Seq(Entries) /\ buffer \in Seq(Entries)
    BY DEF LogTypeOK
  <2>b. \A i \in DOMAIN buffer : buffer[i].thread \in Threads /\ lpc[buffer[i].thread] = "fflush"
    <3>1. \A i \in DOMAIN buffer : buffer[i] \in Entries
      BY <2>a
    <3> QED
      BY <3>1 DEF Held, Entries
  <2>2. CASE Tick
    BY <2>2 DEF Tick, LogInv, LogTypeOK, Held, Taken
  <2>3. CASE Killed
    <3>1. RecordsOnceInOrder
      BY HeldInOrder
    <3>2. RecordsOnceInOrder'
      BY <2>3, <3>1 DEF Killed, RecordsOnceInOrder, Messages, Places
    <3>3. LogTypeOK'
      <4>1. buffer' \in Seq(Entries)
        BY <2>3, EmptySeq DEF Killed
      <4> QED
        BY <2>3, <4>1 DEF Killed, LogTypeOK
    <3> QED
      BY <2>3, <3>2, <3>3 DEF Killed, LogInv
  <2>4. ASSUME NEW t \in Threads, logMessage(t) PROVE LogInv'
    <3> USE <2>4
    <3>1. CASE CallTime(t)
      <4>1. /\ file' = file /\ buffer' = buffer /\ up' = up
            /\ lpc[t] = "idle" /\ lpc' = [lpc EXCEPT ![t] = "localtime"]
            /\ calls' = [calls EXCEPT ![t] = calls[t] + 1]
        BY <3>1 DEF CallTime, GoTo
      <4>2. LogTypeOK'
        BY <3>1, <4>1 DEF CallTime, LogTypeOK, InCall
      <4>3. \A u \in Threads : Taken(u)' = Taken(u)
        BY <4>1 DEF Taken, InCall, LogTypeOK
      <4>4. \A u \in Threads : lpc'[u] # "idle" => calls'[u] > 0
        BY <4>1 DEF Held, LogTypeOK
      <4>5. \A i \in DOMAIN buffer : /\ lpc'[buffer[i].thread] = "fflush"
                                     /\ buffer[i].call = calls'[buffer[i].thread]
        <5>1. \A i \in DOMAIN buffer : buffer[i].thread \in Threads \ {t}
          BY <2>b, <4>1
        <5> QED
          BY <4>1, <5>1 DEF Held, LogTypeOK
      <4>6. Held'
        BY <4>1, <4>3, <4>4, <4>5 DEF Held
      <4> QED
        BY <4>1, <4>2, <4>6 DEF LogInv
    <3>2. CASE \/ LocaltimeBegins(t) \/ LocaltimeEnds(t) \/ AsctimeBegins(t)
               \/ AsctimeEnds(t) \/ CutLineBreak(t)
      <4>1. /\ file' = file /\ buffer' = buffer /\ up' = up /\ calls' = calls
            /\ lpc[t] \in InCall
            /\ \E place \in InCall : lpc' = [lpc EXCEPT ![t] = place]
        BY <3>2 DEF LocaltimeBegins, LocaltimeEnds, AsctimeBegins, AsctimeEnds, CutLineBreak,
                    GoTo, InCall
      <4>2. LogTypeOK'
        <5>1. tmBuf' \in Int /\ tm' = tm /\ now' = now /\ ascBuf' \in [time : Int, nl : BOOLEAN]
          <6>1. CASE LocaltimeBegins(t) \/ LocaltimeEnds(t)
            <7>1. ascBuf' = ascBuf /\ (tmBuf' = tmBuf \/ tmBuf' = Torn \/ tmBuf' = tm[t])
              BY <6>1 DEF LocaltimeBegins, LocaltimeEnds
            <7>2. tm' = tm /\ now' = now
              BY <6>1 DEF LocaltimeBegins, LocaltimeEnds
            <7>3. tmBuf' \in Int
              BY <7>1 DEF LogTypeOK, Torn
            <7> QED
              BY <7>1, <7>2, <7>3 DEF LogTypeOK
          <6>2. CASE AsctimeBegins(t)
            BY <6>2 DEF AsctimeBegins, LogTypeOK, Torn
          <6>3. CASE AsctimeEnds(t)
            BY <6>3 DEF AsctimeEnds, LogTypeOK
          <6>4. CASE CutLineBreak(t)
            BY <6>4 DEF CutLineBreak, LogTypeOK
          <6> QED
            BY <3>2, <6>1, <6>2, <6>3, <6>4
        <5> QED
          BY <4>1, <5>1 DEF LogTypeOK
      <4>3. \A u \in Threads : Taken(u)' = Taken(u)
        BY <4>1 DEF Taken, LogTypeOK
      <4>4. \A u \in Threads : lpc'[u] # "idle" => calls'[u] > 0
        BY <4>1 DEF Held, LogTypeOK, InCall
      <4>5. \A i \in DOMAIN buffer : lpc'[buffer[i].thread] = "fflush"
        <5>1. \A i \in DOMAIN buffer : buffer[i].thread \in Threads \ {t}
          BY <2>b, <4>1 DEF InCall
        <5> QED
          BY <4>1, <5>1 DEF Held, LogTypeOK
      <4>6. Held'
        BY <4>1, <4>3, <4>4, <4>5 DEF Held
      <4> QED
        BY <4>1, <4>2, <4>6 DEF LogInv
    <3>3. CASE fprintf(t)
      <4> DEFINE e == Entry(t)
                 held == Append(buffer, e)
                 all == file \o buffer
      <4>1. /\ lpc[t] = "fprintf" /\ lpc' = [lpc EXCEPT ![t] = "fflush"]
            /\ calls' = calls /\ up' = up
            /\ UNCHANGED <<now, tm, tmBuf, ascBuf>>
        BY <3>3 DEF fprintf, GoTo
      <4>2. e \in Entries /\ e.thread = t /\ e.call = calls[t]
        BY DEF Entry, Entries, LogTypeOK
      <4>3. PICK n \in 0..Len(held) : /\ file' = file \o SubSeq(held, 1, n)
                                      /\ buffer' = SubSeq(held, n + 1, Len(held))
        BY <3>3 DEF fprintf
      <4> HIDE DEF e
      <4>4. held \in Seq(Entries) /\ held = buffer \o <<e>> /\ <<e>> \in Seq(Entries)
        BY <2>a, <4>2, AppendIsConcat
      <4>5. /\ file' \in Seq(Entries) /\ buffer' \in Seq(Entries)
            /\ file' \o buffer' = file \o held
            /\ \A i \in DOMAIN buffer' : n + i \in DOMAIN held /\ buffer'[i] = held[n + i]
        <5>1. n \in 0..Len(held)
          OBVIOUS
        <5> HIDE DEF held
        <5>2. SubSeq(held, 1, n) \in Seq(Entries)
          BY <2>a, <4>4, SpillKeepsAll
        <5>3. SubSeq(held, n + 1, Len(held)) \in Seq(Entries)
          BY <2>a, <4>4, <5>1, SpillKeepsAll
        <5>4. (file \o SubSeq(held, 1, n)) \o SubSeq(held, n + 1, Len(held)) = file \o held
          BY <2>a, <4>4, <5>1, SpillKeepsAll
        <5>5. \A i \in DOMAIN SubSeq(held, n + 1, Len(held)) :
                 n + i \in DOMAIN held /\ SubSeq(held, n + 1, Len(held))[i] = held[n + i]
          BY <2>a, <4>4, <5>1, SpillKeepsAll
        <5>6. file \o SubSeq(held, 1, n) \in Seq(Entries)
          BY <2>a, <5>2, ConcatProperties
        <5> QED
          BY <4>3, <5>3, <5>6, <5>4, <5>5
      <4>6. all \in Seq(Entries) /\ file' \o buffer' = all \o <<e>>
        <5>1. file \o (buffer \o <<e>>) = (file \o buffer) \o <<e>>
          BY <2>a, <4>4, ConcatAssociative
        <5> QED
          BY <2>a, <4>4, <4>5, <5>1
      <4>7. LogTypeOK'
        BY <4>1, <4>5 DEF LogTypeOK
      <4>8. calls[t] \in Nat /\ calls[t] > 0 /\ Messages(all, t) = 1..calls[t] - 1
        BY <4>1 DEF LogTypeOK, Held, Taken, InCall
      <4>9. InOrder(file' \o buffer')
        <5> HIDE DEF all
        <5> DEFINE new == all \o <<e>>
        <5>1. ASSUME NEW i \in DOMAIN new, NEW j \in DOMAIN new,
                     i < j, new[i].thread = new[j].thread
              PROVE  new[i].call < new[j].call
          <6>1. /\ DOMAIN all = 1..Len(all) /\ Len(all) \in Nat
                /\ DOMAIN new = 1..Len(all) + 1
                /\ \A k \in 1..Len(all) : new[k] = all[k]
                /\ new[Len(all) + 1] = e
            BY <4>4, <4>6
          <6> HIDE DEF new
          <6>2. i \in 1..Len(all) /\ new[i] = all[i]
            BY <5>1, <6>1
          <6>3. CASE j \in 1..Len(all)
            <7>1. new[j] = all[j] /\ InOrder(all)
              BY <6>1, <6>3 DEF Held, all
            <7> QED
              BY <5>1, <6>1, <6>2, <6>3, <7>1 DEF InOrder
          <6>4. CASE j \notin 1..Len(all)
            <7>1. new[j] = e
              BY <6>1, <6>4
            <7>2. all[i].call \in Messages(all, t)
              BY <4>2, <5>1, <6>1, <6>2, <7>1 DEF Messages, Places
            <7> QED
              BY <4>2, <4>8, <6>2, <7>1, <7>2
          <6> QED
            BY <6>3, <6>4
        <5> QED
          BY <4>6, <5>1 DEF InOrder
      <4>10. ASSUME NEW u \in Threads PROVE Messages(file' \o buffer', u) = 1..Taken(u)'
        <5>1. Messages(file' \o buffer', u) = Messages(all, u) \cup Messages(<<e>>, u)
          <6> HIDE DEF all
          <6>1. Messages(all \o <<e>>, u) = Messages(all, u) \cup Messages(<<e>>, u)
            BY <4>4, <4>6, ConcatMessages, ZenonT(40)
          <6> QED
            BY <4>6, <6>1
        <5>2. Messages(<<e>>, u) = IF u = t THEN {calls[t]} ELSE {}
          <6>1. DOMAIN <<e>> = {1} /\ <<e>>[1] = e
            OBVIOUS
          <6> QED
            BY <4>2, <6>1 DEF Messages, Places
        <5>3. CASE u = t
          <6>1. Taken(u)' = calls[t]
            BY <4>1, <5>3 DEF Taken, InCall, LogTypeOK
          <6>2. (1..calls[t] - 1) \cup {calls[t]} = 1..calls[t]
            BY <4>8
          <6> QED
            BY <4>8, <5>1, <5>2, <5>3, <6>1, <6>2
        <5>4. CASE u # t
          <6>1. Taken(u)' = Taken(u)
            BY <4>1, <5>4 DEF Taken, LogTypeOK
          <6>2. Messages(all, u) = 1..Taken(u)
            BY DEF Held
          <6> QED
            BY <5>1, <5>2, <5>4, <6>1, <6>2
        <5> QED
          BY <5>3, <5>4
      <4>11. ASSUME NEW i \in DOMAIN buffer'
             PROVE  lpc'[buffer'[i].thread] = "fflush" /\ buffer'[i].call = calls[buffer'[i].thread]
        <5>1. n + i \in DOMAIN held /\ buffer'[i] = held[n + i]
          BY <4>5
        <5>2. \A k \in DOMAIN held : held[k] = e \/ \E m \in DOMAIN buffer : held[k] = buffer[m]
          BY <2>a, <4>2
        <5>3. \A m \in DOMAIN buffer : buffer[m].thread \in Threads \ {t}
          BY <2>b, <4>1
        <5>4. buffer'[i] = e \/ \E m \in DOMAIN buffer : buffer'[i] = buffer[m]
          BY <5>1, <5>2
        <5>5. CASE buffer'[i] = e
          BY <4>1, <4>2, <5>5 DEF LogTypeOK
        <5>6. CASE \E m \in DOMAIN buffer : buffer'[i] = buffer[m]
          BY <4>1, <5>3, <5>6 DEF Held, LogTypeOK
        <5> QED
          BY <5>4, <5>5, <5>6
      <4>12. \A u \in Threads : lpc'[u] # "idle" => calls'[u] > 0
        BY <4>1, <4>8 DEF Held, LogTypeOK
      <4>13. Held'
        BY <4>1, <4>9, <4>10, <4>11, <4>12 DEF Held
      <4> QED
        BY <4>1, <4>7, <4>13 DEF LogInv
    <3>4. CASE fflush(t)
      <4>1. /\ lpc[t] = "fflush" /\ lpc' = [lpc EXCEPT ![t] = "idle"]
            /\ calls' = calls /\ up' = up /\ file' = file \o buffer /\ buffer' = <<>>
            /\ UNCHANGED <<now, tm, tmBuf, ascBuf>>
        BY <3>4 DEF fflush, GoTo
      <4>2. file \o buffer \in Seq(Entries)
        BY <2>a
      <4>3. file' \o buffer' = file \o buffer
        BY <4>1, <4>2
      <4>4. \A u \in Threads : Taken(u)' = Taken(u)
        BY <4>1 DEF Taken, InCall, LogTypeOK
      <4>5. LogTypeOK'
        BY <4>1, <4>2 DEF LogTypeOK
      <4>6. DOMAIN buffer' = {}
        BY <4>1
      <4>7. \A u \in Threads : lpc'[u] # "idle" => calls'[u] > 0
        BY <4>1 DEF Held, LogTypeOK
      <4>8. Held'
        BY <4>1, <4>3, <4>4, <4>6, <4>7 DEF Held
      <4> QED
        BY <4>1, <4>5, <4>8 DEF LogInv
    <3> QED
      BY <3>1, <3>2, <3>3, <3>4 DEF logMessage
  <2> QED
    BY <1>3, <2>2, <2>3, <2>4 DEF LogNext
<1> QED
  BY <1>1, <1>2, <1>3

(* The log file has every message of a call that returned, once and in the *)
(* order of its thread, however many threads log at once and whenever the  *)
(* process is killed (logMessage.hpp:75-95).                               *)
THEOREM LogKeepsRecords == LogSpec => []RecordsOnceInOrder
<1>1. LogInv => RecordsOnceInOrder
  BY HeldInOrder DEF LogInv
<1> QED
  BY <1>1, LogInitInv, LogNextInv, PTL DEF LogSpec
=============================================================================
