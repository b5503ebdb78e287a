-------------------------------- MODULE Log --------------------------------
(***************************************************************************)
(* logMessage, called by the threads of the HTTP server at once.  The time *)
(* string is made by localtime and asctime, each of which returns a static *)
(* buffer that all threads share, without a lock.  A buffer that is being  *)
(* changed is Torn, whatever a reader makes of it; writing the time it     *)
(* holds already changes nothing but the line break.  fprintf and          *)
(* fflush hold the lock of their FILE, so each is one step.  The levels in *)
(* use are below FATAL: every record goes to stdout, which class log has   *)
(* redirected to the log file.  Message n of a thread is its n-th.         *)
(***************************************************************************)
EXTENDS Integers, Sequences

CONSTANTS
    Threads,    \* the threads that log
    MaxTime,    \* bound on the clock
    MaxCalls    \* bound on the messages of a thread

VARIABLES
    now,       \* the clock, in seconds
    lpc,       \* per thread: where it is in logMessage
    calls,     \* per thread: how many messages it has begun
    tm,        \* per thread: its local tm
    tmBuf,     \* the static struct tm of localtime
    ascBuf,    \* the static string of asctime: its time, and its line break
    buffer,    \* the records in the buffer of stdout
    file,      \* the records in the log file
    up         \* the process lives

(* What a static buffer holds besides a time.                              *)
Unset == -1
Torn == -2

logVars == <<now, lpc, calls, tm, tmBuf, ascBuf, buffer, file, up>>

-----------------------------------------------------------------------------
LogInit ==
    /\ now = 0
    /\ lpc = [t \in Threads |-> "idle"]
    /\ calls = [t \in Threads |-> 0]
    /\ tm = [t \in Threads |-> 0]
    /\ tmBuf = Unset
    /\ ascBuf = [time |-> Unset, nl |-> FALSE]
    /\ buffer = <<>>
    /\ file = <<>>
    /\ up = TRUE

Tick ==
    /\ now < MaxTime
    /\ now' = now + 1
    /\ UNCHANGED <<lpc, calls, tm, tmBuf, ascBuf, buffer, file, up>>

GoTo(t, place) == lpc' = [lpc EXCEPT ![t] = place]

(* logMessage formats its arguments into a local buffer and asks the time. *)
CallTime(t) ==
    /\ lpc[t] = "idle"
    /\ calls[t] < MaxCalls
    /\ calls' = [calls EXCEPT ![t] = @ + 1]
    /\ tm' = [tm EXCEPT ![t] = now]
    /\ GoTo(t, "localtime")
    /\ UNCHANGED <<now, tmBuf, ascBuf, buffer, file, up>>

(* localtime(&tm) fills the static struct.                                 *)
LocaltimeBegins(t) ==
    /\ lpc[t] = "localtime"
    /\ tmBuf' = IF tmBuf = tm[t] THEN tmBuf ELSE Torn
    /\ GoTo(t, "localtime2")
    /\ UNCHANGED <<now, calls, tm, ascBuf, buffer, file, up>>

LocaltimeEnds(t) ==
    /\ lpc[t] = "localtime2"
    /\ tmBuf' = tm[t]
    /\ GoTo(t, "asctime")
    /\ UNCHANGED <<now, calls, tm, ascBuf, buffer, file, up>>

(* asctime(localTm) fills the static string from it, line break included.  *)
AsctimeBegins(t) ==
    /\ lpc[t] = "asctime"
    /\ ascBuf' = IF ascBuf.time = tmBuf THEN ascBuf ELSE [time |-> Torn, nl |-> FALSE]
    /\ GoTo(t, "asctime2")
    /\ UNCHANGED <<now, calls, tm, tmBuf, buffer, file, up>>

AsctimeEnds(t) ==
    /\ lpc[t] = "asctime2"
    /\ ascBuf' = [time |-> tmBuf, nl |-> TRUE]
    /\ GoTo(t, "strstr")
    /\ UNCHANGED <<now, calls, tm, tmBuf, buffer, file, up>>

(* The line break, if strstr finds one, is overwritten.                    *)
CutLineBreak(t) ==
    /\ lpc[t] = "strstr"
    /\ ascBuf' = [ascBuf EXCEPT !.nl = FALSE]
    /\ GoTo(t, "fprintf")
    /\ UNCHANGED <<now, calls, tm, tmBuf, buffer, file, up>>

Entry(t) ==
    [thread |-> t, call |-> calls[t], called |-> tm[t],
     time |-> ascBuf.time, split |-> ascBuf.nl]

(* fprintf adds the record to the buffer; a full buffer spills into the    *)
(* file.                                                                   *)
fprintf(t) ==
    /\ lpc[t] = "fprintf"
    /\ LET held == Append(buffer, Entry(t))
       IN  \E n \in 0..Len(held) :
             /\ file' = file \o SubSeq(held, 1, n)
             /\ buffer' = SubSeq(held, n + 1, Len(held))
    /\ GoTo(t, "fflush")
    /\ UNCHANGED <<now, calls, tm, tmBuf, ascBuf, up>>

(* Mutant: the buffer is left to the next spill.                           *)
ReturnUnflushed(t) ==
    /\ lpc[t] = "fflush"
    /\ GoTo(t, "idle")
    /\ UNCHANGED <<now, calls, tm, tmBuf, ascBuf, buffer, file, up>>

(* fflush writes whatever the buffer holds, the records of other threads   *)
(* included; with fsync, logMessage returns.                               *)
fflush(t) ==
    /\ lpc[t] = "fflush"
    /\ file' = file \o buffer
    /\ buffer' = <<>>
    /\ GoTo(t, "idle")
    /\ UNCHANGED <<now, calls, tm, tmBuf, ascBuf, up>>

logMessage(t) ==
    \/ CallTime(t)
    \/ LocaltimeBegins(t)
    \/ LocaltimeEnds(t)
    \/ AsctimeBegins(t)
    \/ AsctimeEnds(t)
    \/ CutLineBreak(t)
    \/ fprintf(t)
    \/ fflush(t)

(* The process is killed: the buffer is lost, the file stays.              *)
Killed ==
    /\ up' = FALSE
    /\ buffer' = <<>>
    /\ UNCHANGED <<now, lpc, calls, tm, tmBuf, ascBuf, file>>

LogNext ==
    /\ up
    /\ \/ Tick
       \/ Killed
       \/ \E t \in Threads : logMessage(t)

LogSpec == LogInit /\ [][LogNext]_logVars

-----------------------------------------------------------------------------
(* The places of thread t's records in a sequence of records, and their    *)
(* messages.                                                               *)
Places(records, t) == {i \in DOMAIN records : records[i].thread = t}
Messages(records, t) == {records[i].call : i \in Places(records, t)}

(* Nothing logged is lost, repeated or reordered for its thread: what a    *)
(* thread finds of its records in the file, in their order, are all        *)
(* messages whose call has returned, and at most the one in progress; a    *)
(* kill takes nothing from the file (logMessage.hpp:89-95).                *)
RecordsOnceInOrder ==
    \A t \in Threads :
        LET returned == IF lpc[t] = "idle" THEN calls[t] ELSE calls[t] - 1
        IN  /\ \A i, j \in Places(file, t) : i < j => file[i].call < file[j].call
            /\ \E n \in returned..calls[t] : Messages(file, t) = 1..n

(* A record shows the local time of its call (logMessage.hpp:81, 52).      *)
RecordShowsItsTime ==
    \A i \in DOMAIN file : file[i].time = file[i].called /\ ~file[i].split
=============================================================================
