----------------------------- MODULE ThreadPool -----------------------------
(***************************************************************************)
(* httplib::ThreadPool, the TaskQueue of httplib::Server: the thread that  *)
(* runs Server::listen enqueues jobs and at last shuts the pool down;      *)
(* every worker takes jobs from the list until the pool is shut down and   *)
(* the list is empty.                                                      *)
(*                                                                         *)
(* Every access to jobs_ and shutdown_ is made holding mutex_, and         *)
(* cond_.wait releases it and sleeps in one step, so what a thread does    *)
(* between lock and unlock (or wait) is one action.  enqueue notifies      *)
(* inside its critical section, shutdown after it: notify_all is an action *)
(* of its own.  Job i is the i-th enqueued one.                            *)
(***************************************************************************)
EXTENDS Integers, Sequences, FiniteSets

CONSTANTS
    Workers,    \* the worker threads
    MaxJobs     \* bound on the jobs enqueued

ASSUME PoolAssumption ==
    /\ IsFiniteSet(Workers)
    /\ Workers # {}
    /\ MaxJobs \in Nat

VARIABLES
    jobs_,       \* ThreadPool::jobs_
    shutdown_,   \* ThreadPool::shutdown_
    wpc,         \* per worker: "lock", "wait", "run" or "exit"
    fn,          \* per worker: the job it holds, 0 for none
    opc,         \* the owner: "running", "notify", "join" or "joined"
    enqueued,    \* history: how many jobs were enqueued
    ran          \* history: the jobs that were completed

poolVars == <<jobs_, shutdown_, wpc, fn, opc, enqueued, ran>>

-----------------------------------------------------------------------------
PoolInit ==
    /\ jobs_ = <<>>
    /\ shutdown_ = FALSE
    /\ wpc = [w \in Workers |-> "lock"]
    /\ fn = [w \in Workers |-> 0]
    /\ opc = "running"
    /\ enqueued = 0
    /\ ran = {}

Sleeping == {w \in Workers : wpc[w] = "wait"}

(* notify_one wakes one of the sleeping workers, any of them, and is lost  *)
(* when there is none.                                                     *)
notify_one ==
    \/ /\ Sleeping = {}
       /\ UNCHANGED wpc
    \/ \E w \in Sleeping : wpc' = [wpc EXCEPT ![w] = "lock"]

(* Mutant: the job is queued and nobody is told.                           *)
enqueueSilently ==
    /\ opc = "running"
    /\ enqueued < MaxJobs
    /\ jobs_' = Append(jobs_, enqueued + 1)
    /\ enqueued' = enqueued + 1
    /\ UNCHANGED <<shutdown_, wpc, fn, opc, ran>>

enqueue ==
    /\ opc = "running"
    /\ enqueued < MaxJobs
    /\ jobs_' = Append(jobs_, enqueued + 1)
    /\ enqueued' = enqueued + 1
    /\ notify_one
    /\ UNCHANGED <<shutdown_, fn, opc, ran>>

(* shutdown: the flag is set under the mutex, ...                          *)
shutdown ==
    /\ opc = "running"
    /\ shutdown_' = TRUE
    /\ opc' = "notify"
    /\ UNCHANGED <<jobs_, wpc, fn, enqueued, ran>>

(* Mutant: only one worker is told.                                        *)
notifySingle ==
    /\ opc = "notify"
    /\ notify_one
    /\ opc' = "join"
    /\ UNCHANGED <<jobs_, shutdown_, fn, enqueued, ran>>

(* ... then every sleeping worker is woken, ...                            *)
notify_all ==
    /\ opc = "notify"
    /\ wpc' = [w \in Workers |-> IF w \in Sleeping THEN "lock" ELSE wpc[w]]
    /\ opc' = "join"
    /\ UNCHANGED <<jobs_, shutdown_, fn, enqueued, ran>>

(* ... and the owner goes on when all of them have ended.                  *)
join ==
    /\ opc = "join"
    /\ \A w \in Workers : wpc[w] = "exit"
    /\ opc' = "joined"
    /\ UNCHANGED <<jobs_, shutdown_, wpc, fn, enqueued, ran>>

-----------------------------------------------------------------------------
(* Mutants: the job is not popped, and the last one is taken.              *)
TakeWithoutPop(w) ==
    /\ wpc[w] = "lock"
    /\ jobs_ # <<>>
    /\ fn' = [fn EXCEPT ![w] = Head(jobs_)]
    /\ wpc' = [wpc EXCEPT ![w] = "run"]
    /\ UNCHANGED <<jobs_, shutdown_, opc, enqueued, ran>>

TakeLast(w) ==
    /\ wpc[w] = "lock"
    /\ jobs_ # <<>>
    /\ fn' = [fn EXCEPT ![w] = jobs_[Len(jobs_)]]
    /\ jobs_' = SubSeq(jobs_, 1, Len(jobs_) - 1)
    /\ wpc' = [wpc EXCEPT ![w] = "run"]
    /\ UNCHANGED <<shutdown_, opc, enqueued, ran>>

(* A worker that holds the mutex and finds a job takes the first.          *)
Take(w) ==
    /\ wpc[w] = "lock"
    /\ jobs_ # <<>>
    /\ fn' = [fn EXCEPT ![w] = Head(jobs_)]
    /\ jobs_' = Tail(jobs_)
    /\ wpc' = [wpc EXCEPT ![w] = "run"]
    /\ UNCHANGED <<shutdown_, opc, enqueued, ran>>

Wait(w) ==
    /\ wpc[w] = "lock"
    /\ jobs_ = <<>>
    /\ ~shutdown_
    /\ wpc' = [wpc EXCEPT ![w] = "wait"]
    /\ UNCHANGED <<jobs_, shutdown_, fn, opc, enqueued, ran>>

(* cond_.wait may return without a notification; its loop looks again.     *)
SpuriousWakeup(w) ==
    /\ wpc[w] = "wait"
    /\ wpc' = [wpc EXCEPT ![w] = "lock"]
    /\ UNCHANGED <<jobs_, shutdown_, fn, opc, enqueued, ran>>

(* Mutant: the worker leaves the loop although jobs are queued.            *)
ExitAtOnce(w) ==
    /\ wpc[w] = "lock"
    /\ shutdown_
    /\ wpc' = [wpc EXCEPT ![w] = "exit"]
    /\ UNCHANGED <<jobs_, shutdown_, fn, opc, enqueued, ran>>

Exit(w) ==
    /\ wpc[w] = "lock"
    /\ shutdown_
    /\ jobs_ = <<>>
    /\ wpc' = [wpc EXCEPT ![w] = "exit"]
    /\ UNCHANGED <<jobs_, shutdown_, fn, opc, enqueued, ran>>

(* fn() returns and the local fn of the loop's body is destroyed.          *)
Finish(w) ==
    /\ wpc[w] = "run"
    /\ ran' = ran \cup {fn[w]}
    /\ fn' = [fn EXCEPT ![w] = 0]
    /\ wpc' = [wpc EXCEPT ![w] = "lock"]
    /\ UNCHANGED <<jobs_, shutdown_, opc, enqueued>>

(* The worker's loop around the job it runs.                               *)
worker(w) == Take(w) \/ Wait(w) \/ Exit(w)

PoolNext ==
    \/ enqueue
    \/ shutdown
    \/ notify_all
    \/ join
    \/ \E w \in Workers : worker(w) \/ SpuriousWakeup(w) \/ Finish(w)

PoolSpec == PoolInit /\ [][PoolNext]_poolVars

(* The scheduler runs every thread that can go on; jobs end.               *)
PoolFairness ==
    /\ WF_poolVars(notify_all)
    /\ WF_poolVars(join)
    /\ \A w \in Workers : WF_poolVars(worker(w)) /\ WF_poolVars(Finish(w))

FairPoolSpec == PoolSpec /\ PoolFairness

-----------------------------------------------------------------------------
(* The jobs workers hold, and the workers about to look at the list.       *)
Held == {fn[w] : w \in Workers} \ {0}
Awake == {w \in Workers : wpc[w] = "lock"}

PoolTypeOK ==
    /\ jobs_ \in Seq(1..MaxJobs)
    /\ shutdown_ \in BOOLEAN
    /\ wpc \in [Workers -> {"lock", "wait", "run", "exit"}]
    /\ fn \in [Workers -> 0..MaxJobs]
    /\ opc \in {"running", "notify", "join", "joined"}
    /\ enqueued \in 0..MaxJobs
    /\ ran \in SUBSET (1..MaxJobs)

(* No job is lost, run twice or run out of turn, whichever workers compete *)
(* for the list: the list holds the last jobs enqueued in their order, no  *)
(* two workers hold the same one, and a job that has left the list is held *)
(* by a worker or completed, not both (httplib.h:542-566).                 *)
ExactlyOnceInOrder ==
    LET taken == enqueued - Len(jobs_)
    IN  /\ taken >= 0
        /\ \A i \in DOMAIN jobs_ : jobs_[i] = taken + i
        /\ Held \cup ran = 1..taken
        /\ Held \cap ran = {}
        /\ \A v, w \in Workers : fn[v] = fn[w] /\ v # w => fn[v] = 0
        /\ \A w \in Workers : fn[w] # 0 <=> wpc[w] = "run"

(* A wake-up is never lost: while a worker sleeps there are at least as    *)
(* many workers about to look at the list as jobs on it, so no job queues  *)
(* behind a running one while a thread is free (one notify_one per         *)
(* enqueue, httplib.h:517-521, suffices).                                  *)
NoIdleBacklog ==
    Sleeping # {} => Len(jobs_) <= Cardinality(Awake)

(* shutdown returns only after every enqueued job has been completed: the  *)
(* workers drain the list before they end (httplib.h:551).                 *)
DrainedWhenJoined == opc = "joined" => ran = 1..enqueued

Tasks == INSTANCE TaskQueue WITH
    MaxTasks <- MaxJobs,
    started  <- enqueued - Len(jobs_),
    running  <- Held,
    closed   <- opc = "joined"

(* The pool is a task queue.                                               *)
ImplementsTaskQueue == Tasks!TaskSpec

(* Every job is run in the end, however wake-ups, running jobs and a       *)
(* shutdown interleave.                                                    *)
EveryJobRuns == \A i \in 1..MaxJobs : i <= enqueued ~> i \in ran

(* shutdown returns: no worker sleeps through notify_all.                  *)
ShutdownReturns == shutdown_ ~> opc = "joined"
=============================================================================
