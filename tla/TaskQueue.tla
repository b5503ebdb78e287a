----------------------------- MODULE TaskQueue -----------------------------
(***************************************************************************)
(* What the server's accept loop relies on when it hands a connection to   *)
(* httplib's TaskQueue: tasks are started in the order in which they were  *)
(* enqueued, each exactly once, and shutdown returns only when every task  *)
(* has been completed.  Task i is the i-th enqueued one.                   *)
(***************************************************************************)
EXTENDS Integers, Sequences

CONSTANT MaxTasks    \* bound on the tasks enqueued

VARIABLES
    enqueued,   \* the number of tasks enqueued
    started,    \* the number of tasks started
    running,    \* the tasks started and not completed
    closed      \* shutdown has returned

taskVars == <<enqueued, started, running, closed>>

TaskInit ==
    /\ enqueued = 0
    /\ started = 0
    /\ running = {}
    /\ closed = FALSE

Submit ==
    /\ ~closed
    /\ enqueued < MaxTasks
    /\ enqueued' = enqueued + 1
    /\ UNCHANGED <<started, running, closed>>

Start ==
    /\ started < enqueued
    /\ started' = started + 1
    /\ running' = running \cup {started + 1}
    /\ UNCHANGED <<enqueued, closed>>

Complete(i) ==
    /\ i \in running
    /\ running' = running \ {i}
    /\ UNCHANGED <<enqueued, started, closed>>

Close ==
    /\ ~closed
    /\ started = enqueued
    /\ running = {}
    /\ closed' = TRUE
    /\ UNCHANGED <<enqueued, started, running>>

TaskNext == Submit \/ Start \/ (\E i \in 1..MaxTasks : Complete(i)) \/ Close

TaskSpec == TaskInit /\ [][TaskNext]_taskVars
=============================================================================
