-------------------------- MODULE HttpServerProofs --------------------------
(***************************************************************************)
(* Proofs about ThreadPool and, on top of them, about HttpServer.          *)
(*                                                                         *)
(* For any finite number of workers and any number of jobs: no job is      *)
(* lost, duplicated or reordered, no wake-up is lost, shutdown drains the  *)
(* list, and the pool implements TaskQueue.                                *)
(*                                                                         *)
(* For any number of workers, connections and requests, any keep-alive     *)
(* limit and any descriptor limit: the server's steps are steps of its     *)
(* pool, so the pool's invariant holds here too; sockets have one owner,   *)
(* and what responses announce of keep-alive is true.                      *)
(***************************************************************************)
EXTENDS HttpServer, SequenceTheorems, FiniteSetTheorems, TLAPS

-----------------------------------------------------------------------------
(* The pool.                                                               *)

(* The owner's progress against the workers': a worker ends only after the *)
(* flag is set and with the list empty, and the owner enqueues nothing     *)
(* after it has set the flag.                                              *)
OwnerInStep ==
    /\ shutdown_ <=> opc # "running"
    /\ \A w \in Workers : wpc[w] = "exit" => shutdown_ /\ jobs_ = <<>>
    /\ opc = "joined" => \A w \in Workers : wpc[w] = "exit"

PoolIInv == PoolTypeOK /\ ExactlyOnceInOrder /\ NoIdleBacklog /\ OwnerInStep

(* A new pool has no jobs, and all its workers are about to look.          *)
LEMMA PoolInitIInv == PoolInit => PoolIInv
<1> SUFFICES ASSUME PoolInit PROVE PoolIInv
  OBVIOUS
<1>1. PoolTypeOK
  <2>1. jobs_ \in Seq(1..MaxJobs) /\ 0 \in 0..MaxJobs
    BY PoolAssumption DEF PoolInit
  <2>2. wpc \in [Workers -> {"lock", "wait", "run", "exit"}]
    BY DEF PoolInit
  <2>3. fn \in [Workers -> 0..MaxJobs]
    BY <2>1 DEF PoolInit
  <2> QED
    BY <2>1, <2>2, <2>3 DEF PoolInit, PoolTypeOK
<1>2. ExactlyOnceInOrder
  BY DEF PoolInit, ExactlyOnceInOrder, Held
<1>3. NoIdleBacklog
  BY DEF PoolInit, NoIdleBacklog, Sleeping
<1>4. OwnerInStep
  BY DEF PoolInit, OwnerInStep
<1> QED
  BY <1>1, <1>2, <1>3, <1>4 DEF PoolIInv

-----------------------------------------------------------------------------
(* The workers that are about to look at the list can be counted.          *)
LEMMA AwakeFinite ==
    /\ IsFiniteSet(Awake)
    /\ Cardinality(Awake) \in Nat
<1>1. IsFiniteSet(Awake)
  BY PoolAssumption, FS_Subset DEF Awake
<1> QED
  BY <1>1, FS_CardinalityType

(* Waking a sleeping worker adds one to the awake ones.                    *)
LEMMA WakeOne ==
    ASSUME PoolTypeOK, NEW w \in Sleeping, wpc' = [wpc EXCEPT ![w] = "lock"]
    PROVE  /\ Awake' = Awake \cup {w}
           /\ Cardinality(Awake') = Cardinality(Awake) + 1
<1>1. Awake' = Awake \cup {w} /\ w \notin Awake
  BY DEF Awake, Sleeping, PoolTypeOK
<1> QED
  BY <1>1, AwakeFinite, FS_AddElement

(* A step that changes neither what workers hold nor what is completed nor *)
(* the list keeps the jobs in their places.                                *)
LEMMA PlacesFrame ==
    ASSUME ExactlyOnceInOrder, UNCHANGED <<jobs_, fn, enqueued, ran>>,
           \A w \in Workers : wpc'[w] = "run" <=> wpc[w] = "run"
    PROVE  ExactlyOnceInOrder'
  BY DEF ExactlyOnceInOrder, Held

(* enqueue adds one job and wakes one worker if one sleeps.                *)
LEMMA EnqueueStep ==
    ASSUME PoolIInv, enqueue
    PROVE  PoolIInv'
<1>1. /\ jobs_ \in Seq(1..MaxJobs) /\ enqueued \in Nat /\ enqueued + 1 \in 1..MaxJobs
      /\ MaxJobs \in Nat
  BY PoolAssumption DEF PoolIInv, PoolTypeOK, enqueue
<1>2. /\ jobs_' = Append(jobs_, enqueued + 1)
      /\ jobs_' \in Seq(1..MaxJobs)
      /\ Len(jobs_') = Len(jobs_) + 1 /\ Len(jobs_) \in Nat
      /\ \A i \in 1..Len(jobs_) : jobs_'[i] = jobs_[i]
      /\ jobs_'[Len(jobs_) + 1] = enqueued + 1
  BY <1>1 DEF enqueue
<1>3. wpc' \in [Workers -> {"lock", "wait", "run", "exit"}]
      /\ \A v \in Workers : wpc'[v] # wpc[v] => wpc[v] = "wait" /\ wpc'[v] = "lock"
  BY DEF PoolIInv, PoolTypeOK, enqueue, notify_one, Sleeping
<1>4. PoolTypeOK'
  BY <1>1, <1>2, <1>3 DEF PoolIInv, PoolTypeOK, enqueue
<1>5. ExactlyOnceInOrder'
  <2>1. enqueued' - Len(jobs_') = enqueued - Len(jobs_)
    BY <1>1, <1>2 DEF enqueue
  <2>2. \A i \in DOMAIN jobs_' : jobs_'[i] = (enqueued - Len(jobs_)) + i
    <3> SUFFICES ASSUME NEW i \in 1..(Len(jobs_) + 1)
                 PROVE  jobs_'[i] = (enqueued - Len(jobs_)) + i
      BY <1>2
    <3>1. CASE i \in 1..Len(jobs_)
      BY <1>1, <1>2, <3>1 DEF PoolIInv, ExactlyOnceInOrder
    <3>2. CASE i = Len(jobs_) + 1
      BY <1>1, <1>2, <3>2
    <3> QED
      BY <1>2, <3>1, <3>2
  <2>3. Held' = Held /\ ran' = ran /\ fn' = fn
    BY DEF enqueue, Held
  <2> QED
    BY <1>3, <2>1, <2>2, <2>3 DEF PoolIInv, ExactlyOnceInOrder
<1>6. NoIdleBacklog'
  <2>1. CASE Sleeping = {} /\ UNCHANGED wpc
    BY <2>1 DEF NoIdleBacklog, Sleeping
  <2>2. ASSUME NEW w \in Sleeping, wpc' = [wpc EXCEPT ![w] = "lock"]
        PROVE  NoIdleBacklog'
    <3>1. Cardinality(Awake') = Cardinality(Awake) + 1
      BY <2>2, WakeOne DEF PoolIInv
    <3>2. Len(jobs_) <= Cardinality(Awake)
      BY <2>2 DEF PoolIInv, NoIdleBacklog
    <3> QED
      BY <1>2, <3>1, <3>2, AwakeFinite DEF NoIdleBacklog
  <2> QED
    BY <2>1, <2>2 DEF enqueue, notify_one
<1>7. OwnerInStep'
  BY <1>3 DEF PoolIInv, OwnerInStep, enqueue
<1> QED
  BY <1>4, <1>5, <1>6, <1>7 DEF PoolIInv

(* Setting shutdown_ disturbs no job.                                      *)
LEMMA ShutdownStep ==
    ASSUME PoolIInv, shutdown
    PROVE  PoolIInv'
<1>1. PoolTypeOK' /\ OwnerInStep'
  BY DEF PoolIInv, PoolTypeOK, OwnerInStep, shutdown
<1>2. ExactlyOnceInOrder' /\ NoIdleBacklog'
  BY PlacesFrame DEF PoolIInv, NoIdleBacklog, Sleeping, Awake, shutdown
<1> QED
  BY <1>1, <1>2 DEF PoolIInv

(* notify_all leaves no worker asleep.                                     *)
LEMMA NotifyAllStep ==
    ASSUME PoolIInv, notify_all
    PROVE  PoolIInv'
<1>1. \A w \in Workers : wpc'[w] = IF wpc[w] = "wait" THEN "lock" ELSE wpc[w]
  BY DEF notify_all, Sleeping
<1>2. PoolTypeOK'
  BY DEF PoolIInv, PoolTypeOK, notify_all, Sleeping
<1>3. OwnerInStep'
  BY <1>1 DEF PoolIInv, OwnerInStep, notify_all
<1>4. ExactlyOnceInOrder'
  BY <1>1, PlacesFrame DEF PoolIInv, notify_all
<1>5. NoIdleBacklog'
  BY <1>1 DEF NoIdleBacklog, Sleeping
<1> QED
  BY <1>2, <1>3, <1>4, <1>5 DEF PoolIInv

(* join returns only when every worker has ended.                          *)
LEMMA JoinStep ==
    ASSUME PoolIInv, join
    PROVE  PoolIInv'
<1>1. PoolTypeOK' /\ OwnerInStep'
  BY DEF PoolIInv, PoolTypeOK, OwnerInStep, join
<1>2. ExactlyOnceInOrder' /\ NoIdleBacklog'
  BY PlacesFrame DEF PoolIInv, NoIdleBacklog, Sleeping, Awake, join
<1> QED
  BY <1>1, <1>2 DEF PoolIInv

(* The first job of the list moves into the worker's hand.                 *)
LEMMA TakeStep ==
    ASSUME PoolIInv, NEW w \in Workers, Take(w)
    PROVE  /\ PoolIInv'
           /\ Len(jobs_) > 0 /\ Len(jobs_') = Len(jobs_) - 1
           /\ Held' = Held \cup {enqueued - Len(jobs_) + 1}
<1> DEFINE taken == enqueued - Len(jobs_)
<1>1. /\ jobs_ \in Seq(1..MaxJobs) /\ jobs_ # <<>> /\ enqueued \in Nat
      /\ Len(jobs_) \in Nat /\ Len(jobs_) > 0
      /\ fn \in [Workers -> 0..MaxJobs] /\ wpc[w] = "lock"
      /\ wpc \in [Workers -> {"lock", "wait", "run", "exit"}]
  BY PoolAssumption DEF PoolIInv, PoolTypeOK, Take
<1>2. /\ taken \in Nat /\ Held \cup ran = 1..taken /\ Held \cap ran = {}
      /\ \A i \in DOMAIN jobs_ : jobs_[i] = taken + i
      /\ \A u, v \in Workers : fn[u] = fn[v] /\ u # v => fn[u] = 0
      /\ \A v \in Workers : fn[v] # 0 <=> wpc[v] = "run"
  BY <1>1 DEF PoolIInv, ExactlyOnceInOrder
<1>3. /\ Head(jobs_) = taken + 1
      /\ Tail(jobs_) \in Seq(1..MaxJobs)
      /\ Len(Tail(jobs_)) = Len(jobs_) - 1
      /\ \A i \in 1..(Len(jobs_) - 1) : Tail(jobs_)[i] = taken + 1 + i
  <2>1. 1 \in DOMAIN jobs_ /\ Head(jobs_) = jobs_[1]
    BY <1>1
  <2>2. /\ Tail(jobs_) \in Seq(1..MaxJobs)
        /\ Len(Tail(jobs_)) = Len(jobs_) - 1
        /\ \A i \in 1..(Len(jobs_) - 1) : Tail(jobs_)[i] = jobs_[i + 1]
    BY <1>1
  <2>3. \A i \in 1..(Len(jobs_) - 1) : i + 1 \in DOMAIN jobs_
    BY <1>1
  <2> QED
    BY <1>2, <2>1, <2>2, <2>3
<1>4. taken + 1 \in 1..MaxJobs
  <2>1. 1 \in DOMAIN jobs_ /\ 1 \in 1..Len(jobs_)
    BY <1>1
  <2>2. jobs_[1] \in 1..MaxJobs
    BY <1>1, <2>1, ElementOfSeq
  <2> QED
    BY <1>2, <2>1, <2>2
<1>5. /\ jobs_' = Tail(jobs_) /\ fn' = [fn EXCEPT ![w] = taken + 1]
      /\ wpc' = [wpc EXCEPT ![w] = "run"]
      /\ UNCHANGED <<shutdown_, opc, enqueued, ran>>
  BY <1>3 DEF Take
<1>6. PoolTypeOK'
  BY <1>1, <1>3, <1>4, <1>5 DEF PoolIInv, PoolTypeOK
<1>7. fn[w] = 0 /\ taken + 1 \notin Held /\ taken + 1 \notin ran
  BY <1>1, <1>2
<1>8. Held' = Held \cup {taken + 1}
  <2>1. \A v \in Workers : fn'[v] = IF v = w THEN taken + 1 ELSE fn[v]
    BY <1>1, <1>5
  <2>2. taken + 1 # 0
    BY <1>2
  <2> HIDE DEF taken
  <2>3. Held' \subseteq Held \cup {taken + 1}
    BY <2>1 DEF Held
  <2>4. taken + 1 \in Held'
    BY <2>1, <2>2 DEF Held
  <2>5. Held \subseteq Held'
    <3> SUFFICES ASSUME NEW v \in Workers, fn[v] # 0 PROVE fn[v] \in Held'
      BY DEF Held
    <3>1. fn'[v] = fn[v]
      BY <1>7, <2>1
    <3> QED
      BY <3>1 DEF Held
  <2> QED
    BY <2>3, <2>4, <2>5
<1>9. ExactlyOnceInOrder'
  <2>1. enqueued' - Len(jobs_') = taken + 1
    BY <1>1, <1>3, <1>5
  <2>2. \A i \in DOMAIN jobs_' : jobs_'[i] = taken + 1 + i
    BY <1>1, <1>3, <1>5
  <2>3. Held' \cup ran' = 1..(taken + 1)
    BY <1>2, <1>5, <1>8
  <2>4. Held' \cap ran' = {}
    BY <1>2, <1>5, <1>7, <1>8
  <2>5. \A v \in Workers : v # w => fn[v] # taken + 1
    BY <1>2, <1>7 DEF Held
  <2>6. \A u, v \in Workers : fn'[u] = fn'[v] /\ u # v => fn'[u] = 0
    BY <1>1, <1>2, <1>5, <2>5
  <2>7. \A v \in Workers : fn'[v] # 0 <=> wpc'[v] = "run"
    BY <1>1, <1>2, <1>5
  <2> QED
    BY <1>2, <2>1, <2>2, <2>3, <2>4, <2>6, <2>7 DEF ExactlyOnceInOrder
<1>10. NoIdleBacklog'
  <2>1. Awake' = Awake \ {w} /\ w \in Awake /\ Sleeping' = Sleeping
    BY <1>1, <1>5 DEF Awake, Sleeping
  <2>2. Cardinality(Awake') = Cardinality(Awake) - 1
    BY <2>1, AwakeFinite, FS_RemoveElement
  <2> QED
    BY <1>1, <1>3, <1>5, <2>1, <2>2, AwakeFinite DEF PoolIInv, NoIdleBacklog
<1>11. OwnerInStep'
  BY <1>1, <1>5 DEF PoolIInv, OwnerInStep
<1> QED
  BY <1>1, <1>3, <1>5, <1>6, <1>8, <1>9, <1>10, <1>11 DEF PoolIInv

(* A worker sleeps, or ends, only when the list is empty.                  *)
LEMMA WaitExitStep ==
    ASSUME PoolIInv, NEW w \in Workers, Wait(w) \/ Exit(w)
    PROVE  PoolIInv'
<1>1. PoolTypeOK'
  BY DEF PoolIInv, PoolTypeOK, Wait, Exit
<1>2. ExactlyOnceInOrder'
  BY PlacesFrame DEF PoolIInv, PoolTypeOK, Wait, Exit
<1>3. Len(jobs_') = 0
  BY DEF Wait, Exit
<1>4. IsFiniteSet(Awake') /\ Cardinality(Awake') \in Nat
  <2>1. Awake' \subseteq Workers
    BY DEF Awake
  <2>2. IsFiniteSet(Awake')
    BY <2>1, PoolAssumption, FS_Subset
  <2> QED
    BY <2>2, FS_CardinalityType
<1>5. NoIdleBacklog'
  BY <1>3, <1>4 DEF NoIdleBacklog
<1>6. OwnerInStep'
  BY DEF PoolIInv, PoolTypeOK, OwnerInStep, Wait, Exit
<1> QED
  BY <1>1, <1>2, <1>5, <1>6 DEF PoolIInv

(* A worker that wakes for no reason is one more that will look.           *)
LEMMA SpuriousWakeupStep ==
    ASSUME PoolIInv, NEW w \in Workers, SpuriousWakeup(w)
    PROVE  PoolIInv'
<1>1. PoolTypeOK'
  BY DEF PoolIInv, PoolTypeOK, SpuriousWakeup
<1>2. ExactlyOnceInOrder'
  BY PlacesFrame DEF PoolIInv, PoolTypeOK, SpuriousWakeup
<1>3. NoIdleBacklog'
  <2>1. w \in Sleeping
    BY DEF SpuriousWakeup, Sleeping
  <2>2. Cardinality(Awake') = Cardinality(Awake) + 1
    BY <2>1, WakeOne DEF PoolIInv, SpuriousWakeup
  <2>3. Len(jobs_) \in Nat /\ Len(jobs_) <= Cardinality(Awake) /\ jobs_' = jobs_
    BY <2>1 DEF PoolIInv, PoolTypeOK, NoIdleBacklog, SpuriousWakeup
  <2> QED
    BY <2>2, <2>3, AwakeFinite DEF NoIdleBacklog
<1>4. OwnerInStep'
  BY DEF PoolIInv, PoolTypeOK, OwnerInStep, SpuriousWakeup
<1> QED
  BY <1>1, <1>2, <1>3, <1>4 DEF PoolIInv

(* The job moves from the worker's hand to the completed ones.             *)
LEMMA FinishStep ==
    ASSUME PoolIInv, NEW w \in Workers, Finish(w)
    PROVE  /\ PoolIInv'
           /\ fn[w] \in Held
           /\ Held' = Held \ {fn[w]}
<1>1. /\ fn \in [Workers -> 0..MaxJobs] /\ wpc[w] = "run"
      /\ wpc \in [Workers -> {"lock", "wait", "run", "exit"}]
      /\ fn' = [fn EXCEPT ![w] = 0] /\ wpc' = [wpc EXCEPT ![w] = "lock"]
      /\ ran' = ran \cup {fn[w]}
      /\ UNCHANGED <<jobs_, shutdown_, opc, enqueued>>
  BY DEF PoolIInv, PoolTypeOK, Finish
<1>2. /\ \A u, v \in Workers : fn[u] = fn[v] /\ u # v => fn[u] = 0
      /\ \A v \in Workers : fn[v] # 0 <=> wpc[v] = "run"
  BY DEF PoolIInv, ExactlyOnceInOrder
<1>3. fn[w] # 0 /\ fn[w] \in Held
  BY <1>1, <1>2 DEF Held
<1>4. \A v \in Workers : fn'[v] = IF v = w THEN 0 ELSE fn[v]
  BY <1>1
<1>5. Held' = Held \ {fn[w]}
  <2>1. Held' \subseteq Held \ {fn[w]}
    BY <1>2, <1>3, <1>4 DEF Held
  <2>2. Held \ {fn[w]} \subseteq Held'
    <3> SUFFICES ASSUME NEW v \in Workers, fn[v] # 0, fn[v] # fn[w] PROVE fn[v] \in Held'
      BY DEF Held
    <3>1. fn'[v] = fn[v]
      BY <1>4
    <3> QED
      BY <3>1 DEF Held
  <2> QED
    BY <2>1, <2>2
<1>6. PoolTypeOK'
  <2>1. fn[w] \in 1..MaxJobs
    BY <1>1, <1>3
  <2>2. fn' \in [Workers -> 0..MaxJobs]
    BY <1>1, PoolAssumption
  <2>3. wpc' \in [Workers -> {"lock", "wait", "run", "exit"}]
    BY <1>1
  <2>4. ran' \in SUBSET (1..MaxJobs)
    BY <1>1, <2>1 DEF PoolIInv, PoolTypeOK
  <2> QED
    BY <1>1, <2>2, <2>3, <2>4 DEF PoolIInv, PoolTypeOK
<1>7. ExactlyOnceInOrder'
  <2>1. Held' \cup ran' = Held \cup ran
    BY <1>1, <1>3, <1>5
  <2>2. Held' \cap ran' = {}
    BY <1>1, <1>5 DEF PoolIInv, ExactlyOnceInOrder
  <2>3. \A u, v \in Workers : fn'[u] = fn'[v] /\ u # v => fn'[u] = 0
    BY <1>2, <1>4
  <2>4. \A v \in Workers : fn'[v] # 0 <=> wpc'[v] = "run"
    BY <1>1, <1>2
  <2> QED
    BY <1>1, <2>1, <2>2, <2>3, <2>4 DEF PoolIInv, ExactlyOnceInOrder
<1>8. NoIdleBacklog'
  <2>1. Awake' = Awake \cup {w} /\ w \notin Awake /\ Sleeping' = Sleeping
    BY <1>1 DEF Awake, Sleeping
  <2>2. Cardinality(Awake') = Cardinality(Awake) + 1
    BY <2>1, AwakeFinite, FS_AddElement
  <2>3. Len(jobs_) \in Nat
    BY DEF PoolIInv, PoolTypeOK
  <2> QED
    BY <1>1, <2>1, <2>2, <2>3, AwakeFinite DEF PoolIInv, NoIdleBacklog
<1>9. OwnerInStep'
  BY <1>1 DEF PoolIInv, OwnerInStep
<1> QED
  BY <1>3, <1>5, <1>6, <1>7, <1>8, <1>9 DEF PoolIInv

(* The invariant is inductive.                                             *)
LEMMA PoolNextIInv == PoolIInv /\ [PoolNext]_poolVars => PoolIInv'
<1> SUFFICES ASSUME PoolIInv, [PoolNext]_poolVars PROVE PoolIInv'
  OBVIOUS
<1>1. CASE enqueue \/ shutdown \/ notify_all \/ join
  BY <1>1, EnqueueStep, ShutdownStep, NotifyAllStep, JoinStep
<1>2. ASSUME NEW w \in Workers, worker(w) \/ SpuriousWakeup(w) \/ Finish(w)
      PROVE  PoolIInv'
  BY <1>2, TakeStep, WaitExitStep, SpuriousWakeupStep, FinishStep DEF worker
<1>3. CASE UNCHANGED poolVars
  BY <1>3 DEF poolVars, PoolIInv, PoolTypeOK, ExactlyOnceInOrder, NoIdleBacklog,
              OwnerInStep, Held, Awake, Sleeping
<1> QED
  BY <1>1, <1>2, <1>3 DEF PoolNext

(* The inductive invariant of enqueue, shutdown and worker holds in every  *)
(* reachable state.                                                        *)
THEOREM PoolInvariance == PoolSpec => []PoolIInv
  BY PoolInitIInv, PoolNextIInv, PTL DEF PoolSpec

(* No job is lost, duplicated or reordered.                                *)
THEOREM JobsExactlyOnce == PoolSpec => []ExactlyOnceInOrder
<1>1. PoolIInv => ExactlyOnceInOrder
  BY DEF PoolIInv
<1> QED
  BY <1>1, PoolInvariance, PTL

(* One notify_one per enqueue is enough: no job waits beside a sleeping    *)
(* worker that nobody has been woken for.                                  *)
THEOREM NoLostWakeup == PoolSpec => []NoIdleBacklog
<1>1. PoolIInv => NoIdleBacklog
  BY DEF PoolIInv
<1> QED
  BY <1>1, PoolInvariance, PTL

(* Once every worker has ended nothing is queued or held.                  *)
LEMMA AllEnded ==
    ASSUME PoolIInv, \A w \in Workers : wpc[w] = "exit"
    PROVE  jobs_ = <<>> /\ Held = {} /\ ran = 1..enqueued
<1>1. jobs_ = <<>>
  BY PoolAssumption DEF PoolIInv, OwnerInStep
<1>2. Held = {}
  BY DEF PoolIInv, ExactlyOnceInOrder, Held
<1>3. enqueued - Len(jobs_) = enqueued
  BY <1>1, PoolAssumption DEF PoolIInv, PoolTypeOK
<1> QED
  BY <1>1, <1>2, <1>3 DEF PoolIInv, ExactlyOnceInOrder

(* shutdown returns only when every enqueued job has been completed.       *)
THEOREM ShutdownDrains == PoolSpec => []DrainedWhenJoined
<1>1. PoolIInv => DrainedWhenJoined
  BY AllEnded DEF PoolIInv, OwnerInStep, DrainedWhenJoined
<1> QED
  BY <1>1, PoolInvariance, PTL

-----------------------------------------------------------------------------
(* Every step of the pool is a step of the task queue or leaves it alone.  *)
LEMMA PoolStepIsTaskStep ==
    ASSUME PoolIInv, PoolIInv', [PoolNext]_poolVars
    PROVE  [Tasks!TaskNext]_(Tasks!taskVars)
<1> USE DEF Tasks!taskVars
<1>1. /\ jobs_ \in Seq(1..MaxJobs) /\ Len(jobs_) \in Nat /\ enqueued \in Nat
      /\ MaxJobs \in Nat
  BY PoolAssumption DEF PoolIInv, PoolTypeOK
<1>2. CASE enqueue
  <2>1. Len(jobs_') = Len(jobs_) + 1
    BY <1>1, <1>2 DEF enqueue
  <2>2. Held' = Held
    BY <1>2 DEF enqueue, Held
  <2>3. Tasks!Submit
    BY <1>1, <1>2, <2>1, <2>2 DEF enqueue, Tasks!Submit
  <2> QED
    BY <2>3 DEF Tasks!TaskNext
<1>3. CASE shutdown
  BY <1>3 DEF shutdown, Held
<1>4. CASE notify_all
  BY <1>4 DEF notify_all, Held
<1>5. CASE join
  <2>1. jobs_ = <<>> /\ Held = {}
    BY <1>5, AllEnded DEF join
  <2>2. Held' = Held
    BY <1>5 DEF join, Held
  <2>3. Tasks!Close
    BY <1>1, <1>5, <2>1, <2>2 DEF join, Tasks!Close
  <2> QED
    BY <2>3 DEF Tasks!TaskNext
<1>6. ASSUME NEW w \in Workers, Take(w)
      PROVE  Tasks!Start
  <2>1. /\ Len(jobs_) > 0 /\ Len(jobs_') = Len(jobs_) - 1
        /\ Held' = Held \cup {enqueued - Len(jobs_) + 1}
    BY <1>6, TakeStep
  <2> QED
    BY <1>1, <1>6, <2>1 DEF Take, Tasks!Start
<1>7. ASSUME NEW w \in Workers, Wait(w) \/ Exit(w) \/ SpuriousWakeup(w)
      PROVE  UNCHANGED Tasks!taskVars
  BY <1>7 DEF Wait, Exit, SpuriousWakeup, Held
<1>8. ASSUME NEW w \in Workers, Finish(w)
      PROVE  \E i \in 1..MaxJobs : Tasks!Complete(i)
  <2>1. fn[w] \in Held /\ Held' = Held \ {fn[w]}
    BY <1>8, FinishStep
  <2>2. fn[w] \in 1..MaxJobs
    BY <2>1 DEF PoolIInv, PoolTypeOK, Held
  <2>3. Tasks!Complete(fn[w])
    BY <1>8, <2>1 DEF Finish, Tasks!Complete
  <2> QED
    BY <2>2, <2>3
<1>9. CASE UNCHANGED poolVars
  BY <1>9 DEF poolVars, Held
<1> QED
  BY <1>2, <1>3, <1>4, <1>5, <1>6, <1>7, <1>8, <1>9 DEF PoolNext, worker, Tasks!TaskNext

(* The pool implements the task queue the accept loop is written against.  *)
THEOREM PoolImplementsTaskQueue == PoolSpec => ImplementsTaskQueue
<1>1. PoolInit => Tasks!TaskInit
  <2> SUFFICES ASSUME PoolInit PROVE Tasks!TaskInit
    OBVIOUS
  <2>1. enqueued = 0 /\ enqueued - Len(jobs_) = 0
    <3>1. enqueued = 0
      BY DEF PoolInit
    <3>2. Len(jobs_) = 0
      BY DEF PoolInit
    <3> QED
      BY <3>1, <3>2
  <2>2. Held = {}
    BY DEF PoolInit, Held
  <2>3. (opc = "joined") = FALSE
    BY DEF PoolInit
  <2> QED
    BY <2>1, <2>2, <2>3 DEF Tasks!TaskInit
<1> QED
  BY <1>1, PoolStepIsTaskStep, PoolInvariance, PTL
     DEF PoolSpec, ImplementsTaskQueue, Tasks!TaskSpec

-----------------------------------------------------------------------------
(* The server.                                                             *)

(* Every step of accept loop, workers and clients is a step of the pool or *)
(* leaves it alone.                                                        *)
LEMMA HttpStepIsPoolStep == [HttpNext]_httpVars => [PoolNext]_poolVars
  BY DEF HttpNext, httpVars, Connect, Hangup, Receive, Send, Accept, AcceptFails, ShutdownPool,
         TakeConnection, Rest, Stir, process_and_close_socket, keep_alive,
         RequestLineFails, process_request, write, close_socket, PoolNext, worker

(* The server uses its pool as ThreadPool specifies, so each of the pool's *)
(* theorems holds of the server.                                           *)
THEOREM ServerUsesPool == HttpSpec => UsesPool
<1>1. HttpInit => PoolInit
  BY DEF HttpInit
<1> QED
  BY <1>1, HttpStepIsPoolStep, PTL DEF HttpSpec, UsesPool, PoolSpec

(* The pool's inductive invariant, moved to the server: the accept loop    *)
(* and the connection jobs use the pool only through enqueue and shutdown. *)
THEOREM ServerPoolInvariance == HttpSpec => []PoolIInv
  BY ServerUsesPool, PoolInvariance DEF UsesPool

-----------------------------------------------------------------------------
(* The state of every socket follows from the pool's; a worker is inside   *)
(* process_and_close_socket exactly while it runs a job.                   *)
SockInv ==
    /\ sock \in [Conns -> {"none", "open", "closed"}]
    /\ hpc \in [Workers -> {"idle", "keepalive", "request", "write", "send", "close"}]
    /\ \A c \in Conns : sock[c] = "closed" <=> c \in ran
    /\ \A c \in Conns : sock[c] = "none" <=> c > enqueued
    /\ \A w \in Workers : hpc[w] # "idle" <=> wpc[w] = "run"

(* A worker will go on serving unless it is about to close the socket, or  *)
(* is writing the last response.                                           *)
GoesOn(w) ==
    hpc[w] \in {"keepalive", "request"} \/ (hpc[w] \in {"write", "send"} /\ ~last[w])

(* A worker that will go on serving has turns left for the responses the   *)
(* limit allows, and has announced no end; there is no response on a       *)
(* connection that was not taken yet.                                      *)
TurnsInv ==
    /\ count \in [Workers -> 0..KeepAliveMax]
    /\ last \in [Workers -> BOOLEAN]
    /\ DOMAIN out = Conns
    /\ \A c \in Conns : /\ Len(out[c]) \in Nat
                        /\ DOMAIN out[c] = 1..Len(out[c])
    /\ \A c \in Conns : c > enqueued - Len(jobs_) => out[c] = <<>>
    /\ \A w \in Workers : GoesOn(w) =>
         /\ count[w] >= 1
         /\ Len(out[fn[w]]) + count[w] <= KeepAliveMax
         /\ \A i \in DOMAIN out[fn[w]] : ~out[fn[w]][i].close

HttpIInv == PoolIInv /\ SockInv /\ TurnsInv /\ KeepAliveContract

(* The server starts with no socket open and no worker in a connection.    *)
LEMMA HttpInitIInv == HttpInit => HttpIInv
<1> SUFFICES ASSUME HttpInit PROVE HttpIInv
  OBVIOUS
<1>1. PoolIInv
  BY PoolInitIInv DEF HttpInit
<1>2. ran = {} /\ enqueued = 0 /\ Len(jobs_) = 0
  BY DEF HttpInit, PoolInit
<1>3. SockInv
  BY <1>2, PoolAssumption DEF HttpInit, PoolInit, SockInv, Conns
<1>4. /\ \A c \in Conns : out[c] = <<>> /\ Len(out[c]) = 0 /\ DOMAIN out[c] = 1..Len(out[c])
      /\ DOMAIN out = Conns
  BY DEF HttpInit
<1>5. TurnsInv
  BY <1>4, HttpAssumption DEF HttpInit, TurnsInv, GoesOn
<1>6. KeepAliveContract
  BY <1>4, HttpAssumption DEF KeepAliveContract
<1> QED
  BY <1>1, <1>3, <1>5, <1>6 DEF HttpIInv

(* The clients change nothing the invariant speaks of.                     *)
LEMMA ClientStep ==
    ASSUME HttpIInv, PoolIInv', UNCHANGED <<poolVars, workVars>>
    PROVE  HttpIInv'
<1>1. SockInv'
  BY DEF HttpIInv, SockInv, poolVars, workVars
<1>2. TurnsInv'
  BY DEF HttpIInv, TurnsInv, GoesOn, poolVars, workVars
<1>3. KeepAliveContract'
  BY DEF HttpIInv, KeepAliveContract, workVars
<1> QED
  BY <1>1, <1>2, <1>3 DEF HttpIInv

(* Accept opens the socket of the connection it enqueues.                  *)
LEMMA AcceptStep ==
    ASSUME HttpIInv, PoolIInv', Accept
    PROVE  HttpIInv'
<1>1. /\ enqueued \in 0..MaxJobs /\ enqueued < MaxJobs /\ enqueued' = enqueued + 1
      /\ MaxJobs \in Nat /\ ran' = ran /\ fn' = fn
      /\ sock' = [sock EXCEPT ![enqueued + 1] = "open"]
      /\ UNCHANGED <<out, hpc, count, last>>
  BY PoolAssumption DEF HttpIInv, PoolIInv, PoolTypeOK, Accept, enqueue
<1>2. enqueued + 1 \in Conns /\ enqueued + 1 \notin ran
  <2>1. Len(jobs_) \in Nat
    BY DEF HttpIInv, PoolIInv, PoolTypeOK
  <2>2. \A c \in ran : c <= enqueued - Len(jobs_)
    BY <1>1, <2>1 DEF HttpIInv, PoolIInv, ExactlyOnceInOrder
  <2> QED
    BY <1>1, <2>1, <2>2 DEF Conns
<1>3. \A w \in Workers : wpc'[w] = "run" <=> wpc[w] = "run"
  BY DEF HttpIInv, PoolIInv, PoolTypeOK, Accept, enqueue, notify_one, Sleeping
<1>4. SockInv'
  <2>1. sock' \in [Conns -> {"none", "open", "closed"}]
    BY <1>1 DEF HttpIInv, SockInv
  <2>2. \A c \in Conns : sock'[c] = IF c = enqueued + 1 THEN "open" ELSE sock[c]
    BY <1>1 DEF HttpIInv, SockInv
  <2>3. \A c \in Conns : sock'[c] = "closed" <=> c \in ran
    BY <1>2, <2>2 DEF HttpIInv, SockInv
  <2>4. \A c \in Conns : sock'[c] = "none" <=> c > enqueued + 1
    BY <1>1, <2>2 DEF HttpIInv, SockInv, Conns
  <2> QED
    BY <1>1, <1>3, <2>1, <2>3, <2>4 DEF HttpIInv, SockInv
<1>5. TurnsInv'
  <2>1. Len(jobs_') = Len(jobs_) + 1 /\ Len(jobs_) \in Nat
    BY <1>1 DEF HttpIInv, PoolIInv, PoolTypeOK, Accept, enqueue
  <2>2. enqueued' - Len(jobs_') = enqueued - Len(jobs_)
    BY <1>1, <2>1
  <2> QED
    BY <1>1, <2>2 DEF HttpIInv, TurnsInv, GoesOn
<1>6. KeepAliveContract'
  BY <1>1 DEF HttpIInv, KeepAliveContract
<1> QED
  BY <1>4, <1>5, <1>6 DEF HttpIInv

(* Steps of the pool that leave the list and the jobs in hand alone.       *)
LEMMA PoolOnlyStep ==
    ASSUME HttpIInv, PoolIInv', UNCHANGED connVars,
           UNCHANGED <<jobs_, fn, enqueued, ran>>,
           \A w \in Workers : wpc'[w] = "run" <=> wpc[w] = "run"
    PROVE  HttpIInv'
<1>1. SockInv'
  BY DEF HttpIInv, SockInv, connVars, workVars
<1>2. TurnsInv'
  BY DEF HttpIInv, TurnsInv, GoesOn, connVars, workVars
<1>3. KeepAliveContract'
  BY DEF HttpIInv, KeepAliveContract, connVars, workVars
<1> QED
  BY <1>1, <1>2, <1>3 DEF HttpIInv

(* The shutdown and workers that wait or leave touch no connection.        *)
LEMMA RestStep ==
    ASSUME HttpIInv, PoolIInv',
           \/ AcceptFails
           \/ ShutdownPool
           \/ \E w \in Workers : Rest(w) \/ Stir(w)
    PROVE  HttpIInv'
<1>1. UNCHANGED connVars /\ UNCHANGED <<jobs_, fn, enqueued, ran>>
  BY DEF AcceptFails, ShutdownPool, Rest, Stir, shutdown, notify_all, join, Wait, Exit,
         SpuriousWakeup
<1>2. wpc \in [Workers -> {"lock", "wait", "run", "exit"}]
  BY DEF HttpIInv, PoolIInv, PoolTypeOK
<1>3. \A w \in Workers : wpc'[w] = "run" <=> wpc[w] = "run"
  BY <1>2 DEF AcceptFails, ShutdownPool, Rest, Stir, shutdown, notify_all, join, Wait,
              Exit, SpuriousWakeup, Sleeping
<1> QED
  BY <1>1, <1>3, PoolOnlyStep

(* A worker starts on a connection nothing was written to.                 *)
LEMMA TakeConnectionStep ==
    ASSUME HttpIInv, PoolIInv', NEW w \in Workers, TakeConnection(w)
    PROVE  HttpIInv'
<1> DEFINE c == enqueued - Len(jobs_) + 1
<1>1. /\ jobs_ \in Seq(1..MaxJobs) /\ jobs_ # <<>> /\ Len(jobs_) \in Nat /\ Len(jobs_) > 0
      /\ enqueued \in Nat /\ KeepAliveMax \in Nat /\ KeepAliveMax > 0
  BY PoolAssumption, HttpAssumption DEF HttpIInv, PoolIInv, PoolTypeOK, TakeConnection, Take
<1>2. Head(jobs_) = c /\ c \in Conns
  <2>1. 1 \in DOMAIN jobs_ /\ 1 \in 1..Len(jobs_) /\ Head(jobs_) = jobs_[1]
    BY <1>1
  <2>2. jobs_[1] \in 1..MaxJobs
    BY <1>1, <2>1, ElementOfSeq
  <2> QED
    BY <2>1, <2>2 DEF HttpIInv, PoolIInv, ExactlyOnceInOrder, Conns
<1>3. /\ fn' = [fn EXCEPT ![w] = c] /\ wpc' = [wpc EXCEPT ![w] = "run"]
      /\ hpc' = [hpc EXCEPT ![w] = "keepalive"]
      /\ count' = [count EXCEPT ![w] = KeepAliveMax]
      /\ UNCHANGED <<enqueued, ran, out, sock, last>>
  BY <1>2 DEF TakeConnection, Take
<1>4. fn \in [Workers -> 0..MaxJobs] /\ wpc \in [Workers -> {"lock", "wait", "run", "exit"}]
  BY DEF HttpIInv, PoolIInv, PoolTypeOK
<1>5. SockInv'
  BY <1>3, <1>4 DEF HttpIInv, SockInv
<1>6. out[c] = <<>> /\ Len(out[c]) = 0 /\ DOMAIN out[c] = {}
  BY <1>1, <1>2 DEF HttpIInv, TurnsInv
<1>7. Len(jobs_') = Len(jobs_) - 1
  BY <1>1 DEF TakeConnection, Take
<1>8. TurnsInv'
  <2>1. count' \in [Workers -> 0..KeepAliveMax] /\ DOMAIN out' = Conns
        /\ \A d \in Conns : Len(out'[d]) \in Nat /\ DOMAIN out'[d] = 1..Len(out'[d])
    BY <1>1, <1>3 DEF HttpIInv, TurnsInv
  <2>2. \A d \in Conns : d > enqueued' - Len(jobs_') => out'[d] = <<>>
    BY <1>1, <1>3, <1>7 DEF HttpIInv, TurnsInv, Conns
  <2>3. ASSUME NEW v \in Workers, GoesOn(v)'
        PROVE  /\ count'[v] >= 1
               /\ Len(out'[fn'[v]]) + count'[v] <= KeepAliveMax
               /\ \A i \in DOMAIN out'[fn'[v]] : ~out'[fn'[v]][i].close
    <3>1. CASE v = w
      <4>1. fn'[v] = c /\ count'[v] = KeepAliveMax /\ out' = out
        BY <1>3, <1>4, <3>1 DEF HttpIInv, TurnsInv
      <4> QED
        BY <1>1, <1>6, <4>1
    <3>2. CASE v # w
      <4>1. fn'[v] = fn[v] /\ count'[v] = count[v] /\ hpc'[v] = hpc[v] /\ out' = out
        BY <1>3, <1>4, <3>2 DEF HttpIInv, TurnsInv, SockInv
      <4>2. GoesOn(v)
        BY <1>3, <2>3, <4>1 DEF GoesOn
      <4> QED
        BY <4>1, <4>2 DEF HttpIInv, TurnsInv
    <3> QED
      BY <3>1, <3>2
  <2>4. last' \in [Workers -> BOOLEAN]
    BY <1>3 DEF HttpIInv, TurnsInv
  <2> QED
    BY <2>1, <2>2, <2>3, <2>4 DEF TurnsInv
<1>9. KeepAliveContract'
  BY <1>3 DEF HttpIInv, KeepAliveContract
<1> QED
  BY <1>5, <1>8, <1>9 DEF HttpIInv

(* keep_alive and a request line that cannot be read only move the worker  *)
(* on.                                                                     *)
LEMMA WaitForRequestStep ==
    ASSUME HttpIInv, PoolIInv', NEW w \in Workers, keep_alive(w) \/ RequestLineFails(w)
    PROVE  HttpIInv'
<1>1. /\ UNCHANGED <<poolVars, out, sock, count, last>>
      /\ hpc[w] \in {"keepalive", "request"}
      /\ \E x \in {"request", "close"} : hpc' = [hpc EXCEPT ![w] = x]
  BY DEF keep_alive, RequestLineFails
<1>2. SockInv'
  BY <1>1 DEF HttpIInv, SockInv, poolVars
<1>3. TurnsInv'
  BY <1>1 DEF HttpIInv, SockInv, TurnsInv, GoesOn, poolVars
<1>4. KeepAliveContract'
  BY <1>1 DEF HttpIInv, KeepAliveContract
<1> QED
  BY <1>2, <1>3, <1>4 DEF HttpIInv

(* A write, done, given up or failed, is followed by the next one, by      *)
(* the next request if the response was not the last, or by the end.       *)
LEMMA WriteStep ==
    ASSUME HttpIInv, PoolIInv', NEW w \in Workers, write(w)
    PROVE  HttpIInv'
<1>1. /\ UNCHANGED <<poolVars, out, sock, count, last>>
      /\ hpc[w] \in {"write", "send"}
  BY DEF write
<1>2. \/ hpc' = [hpc EXCEPT ![w] = "send"]
      \/ hpc' = [hpc EXCEPT ![w] = "write"]
      \/ hpc' = [hpc EXCEPT ![w] = "close"]
      \/ ~last[w] /\ hpc' = [hpc EXCEPT ![w] = "keepalive"]
  <2>1. CASE WriteEnds(w)
    <3>1. last[w] \in BOOLEAN
      BY DEF HttpIInv, TurnsInv
    <3> QED
      BY <2>1, <3>1 DEF WriteEnds
  <2>2. CASE Fill(w) /\ ~WriteEnds(w)
    BY <2>2 DEF Fill
  <2> QED
    BY <2>1, <2>2 DEF write
<1>3. SockInv'
  BY <1>1, <1>2 DEF HttpIInv, SockInv, poolVars
<1>4. TurnsInv'
  <2>1. \A v \in Workers : GoesOn(v)' => GoesOn(v)
    BY <1>1, <1>2 DEF HttpIInv, SockInv, GoesOn
  <2> QED
    BY <1>1, <2>1 DEF HttpIInv, TurnsInv, poolVars
<1>5. KeepAliveContract'
  BY <1>1 DEF HttpIInv, KeepAliveContract
<1> QED
  BY <1>3, <1>4, <1>5 DEF HttpIInv

(* One response: it is within the limit, and one that announces the end is *)
(* followed by the end.                                                    *)
LEMMA ProcessRequestStep ==
    ASSUME HttpIInv, PoolIInv', NEW w \in Workers, process_request(w)
    PROVE  HttpIInv'
<1> DEFINE c == fn[w]
           r == Head(inbox[c])
           e == Response(r, count[w])
<1>1. /\ UNCHANGED <<poolVars, sock>> /\ hpc[w] = "request"
      /\ out' = [out EXCEPT ![c] = Append(@, e)]
      /\ count' = [count EXCEPT ![w] = @ - 1]
      /\ last' = [last EXCEPT ![w] = ConnectionClosed(r) \/ count[w] = 1]
      /\ hpc' = [hpc EXCEPT ![w] = "write"]
  BY DEF process_request
<1>2. /\ count \in [Workers -> 0..KeepAliveMax] /\ KeepAliveMax \in Nat /\ KeepAliveMax > 0
      /\ hpc \in [Workers -> {"idle", "keepalive", "request", "write", "send", "close"}]
      /\ last \in [Workers -> BOOLEAN]
  BY HttpAssumption DEF HttpIInv, TurnsInv, SockInv
<1>3. /\ count[w] >= 1 /\ Len(out[c]) + count[w] <= KeepAliveMax
      /\ \A i \in DOMAIN out[c] : ~out[c][i].close
  BY <1>1 DEF HttpIInv, TurnsInv, GoesOn
<1>4. /\ c \in Conns /\ c # 0 /\ c <= enqueued - Len(jobs_)
      /\ \A v \in Workers : v # w => fn[v] # c
  <2>1. wpc[w] = "run" /\ fn \in [Workers -> 0..MaxJobs]
    BY <1>1 DEF HttpIInv, SockInv, PoolIInv, PoolTypeOK
  <2>2. c # 0
    BY <2>1 DEF HttpIInv, PoolIInv, ExactlyOnceInOrder
  <2>3. c \in Conns
    BY <2>1, <2>2, PoolAssumption DEF Conns
  <2>4. c \in Held
    BY <2>2 DEF Held
  <2>5. c \in 1..(enqueued - Len(jobs_))
    BY <2>4 DEF HttpIInv, PoolIInv, ExactlyOnceInOrder
  <2>6. \A v \in Workers : v # w => fn[v] # c
    BY <2>2 DEF HttpIInv, PoolIInv, ExactlyOnceInOrder
  <2>7. enqueued \in Nat /\ Len(jobs_) \in Nat
    BY PoolAssumption DEF HttpIInv, PoolIInv, PoolTypeOK
  <2> QED
    BY <2>2, <2>3, <2>5, <2>6, <2>7
<1>5. e.close <=> AnnouncesClose(r, count[w])
  BY DEF Response
<1>6. ~last'[w] => ~e.close /\ count[w] > 1
  <2>1. last'[w] = (ConnectionClosed(r) \/ count[w] = 1)
    BY <1>1, <1>2
  <2>2. count[w] # 1 => count[w] > 1
    BY <1>2, <1>3
  <2> QED
    BY <1>5, <2>1, <2>2 DEF AnnouncesClose, ConnectionClosed
<1>7. /\ DOMAIN out' = Conns
      /\ \A d \in Conns : d # c => out'[d] = out[d]
      /\ \A d \in Conns : Len(out[d]) \in Nat /\ DOMAIN out[d] = 1..Len(out[d])
  BY <1>1, <1>4 DEF HttpIInv, TurnsInv
<1>8. /\ Len(out'[c]) = Len(out[c]) + 1
      /\ DOMAIN out'[c] = 1..(Len(out[c]) + 1)
      /\ \A i \in 1..Len(out[c]) : out'[c][i] = out[c][i]
      /\ out'[c][Len(out[c]) + 1] = e
  <2>1. out'[c] = Append(out[c], e)
    BY <1>1, <1>4, <1>7 DEF HttpIInv, TurnsInv
  <2> QED
    BY <1>4, <1>7, <2>1
<1>9. SockInv'
  BY <1>1 DEF HttpIInv, SockInv, poolVars
<1>10. TurnsInv'
  <2>1. count' \in [Workers -> 0..KeepAliveMax]
    BY <1>1, <1>2, <1>3
  <2>2. \A d \in Conns : Len(out'[d]) \in Nat /\ DOMAIN out'[d] = 1..Len(out'[d])
    BY <1>4, <1>7, <1>8
  <2>3. \A d \in Conns : d > enqueued' - Len(jobs_') => out'[d] = <<>>
    <3>1. enqueued \in Nat /\ Len(jobs_) \in Nat /\ enqueued' = enqueued /\ jobs_' = jobs_
      BY <1>1, PoolAssumption DEF HttpIInv, PoolIInv, PoolTypeOK, poolVars
    <3> QED
      BY <1>4, <1>7, <3>1 DEF HttpIInv, TurnsInv, Conns
  <2>4. ASSUME NEW v \in Workers, GoesOn(v)'
        PROVE  /\ count'[v] >= 1
               /\ Len(out'[fn'[v]]) + count'[v] <= KeepAliveMax
               /\ \A i \in DOMAIN out'[fn'[v]] : ~out'[fn'[v]][i].close
    <3>1. fn' = fn
      BY <1>1 DEF poolVars
    <3>2. CASE v = w
      <4>1. hpc'[w] = "write"
        BY <1>1, <1>2
      <4>2. ~last'[w]
        BY <2>4, <3>2, <4>1 DEF GoesOn
      <4>3. ~e.close /\ count[w] > 1 /\ count'[w] = count[w] - 1 /\ count[w] \in Int
        BY <1>1, <1>2, <1>6, <4>2
      <4>4. fn'[v] = c
        BY <3>1, <3>2
      <4> HIDE DEF c, r, e
      <4>5. /\ Len(out'[c]) = Len(out[c]) + 1 /\ Len(out[c]) \in Nat
            /\ \A i \in DOMAIN out'[c] : ~out'[c][i].close
        BY <1>3, <1>4, <1>7, <1>8, <4>3
      <4> QED
        BY <1>2, <1>3, <3>2, <4>3, <4>4, <4>5
    <3>3. CASE v # w
      <4>1. hpc'[v] = hpc[v] /\ count'[v] = count[v] /\ last'[v] = last[v]
        BY <1>1, <1>2, <3>3
      <4>2. GoesOn(v)
        BY <2>4, <4>1 DEF GoesOn
      <4>3. fn[v] \in Conns
        BY <1>2, <4>2, PoolAssumption
           DEF HttpIInv, SockInv, PoolIInv, PoolTypeOK, ExactlyOnceInOrder, Conns, GoesOn
      <4>4. out'[fn[v]] = out[fn[v]]
        BY <1>4, <1>7, <3>3, <4>3
      <4> QED
        BY <3>1, <4>1, <4>2, <4>4 DEF HttpIInv, TurnsInv
    <3> QED
      BY <3>2, <3>3
  <2>5. last' \in [Workers -> BOOLEAN]
    BY <1>1, <1>2 DEF ConnectionClosed
  <2> QED
    BY <1>7, <2>1, <2>2, <2>3, <2>4, <2>5 DEF TurnsInv
<1>11. KeepAliveContract'
  <2> SUFFICES ASSUME NEW d \in Conns
               PROVE  /\ Len(out'[d]) <= KeepAliveMax
                      /\ Len(out'[d]) = KeepAliveMax => out'[d][KeepAliveMax].close
                      /\ \A i \in DOMAIN out'[d] : out'[d][i].close => i = Len(out'[d])
    BY DEF KeepAliveContract
  <2>1. CASE out'[d] = out[d]
    BY <2>1 DEF HttpIInv, KeepAliveContract
  <2>2. CASE out'[d] # out[d]
    <3>1. d = c
      BY <1>7, <2>2
    <3>2. Len(out[c]) + 1 = KeepAliveMax => count[w] = 1
      BY <1>2, <1>3, <1>4, <1>7
    <3>3. Len(out[c]) + 1 = KeepAliveMax => e.close
      BY <1>5, <3>2 DEF AnnouncesClose
    <3> HIDE DEF c, r, e
    <3>4. /\ Len(out'[c]) = Len(out[c]) + 1 /\ Len(out[c]) \in Nat
          /\ DOMAIN out'[c] = 1..(Len(out[c]) + 1)
          /\ out'[c][Len(out[c]) + 1] = e
      BY <1>4, <1>7, <1>8, <2>2, <3>1
    <3>5. \A i \in 1..Len(out[c]) : ~out'[c][i].close
      BY <1>3, <1>4, <1>7, <1>8, <2>2, <3>1
    <3>6. Len(out[c]) + 1 <= KeepAliveMax
      BY <1>2, <1>3, <3>4
    <3>7. \A i \in DOMAIN out'[c] : out'[c][i].close => i = Len(out'[c])
      BY <3>4, <3>5
    <3> QED
      BY <3>1, <3>3, <3>4, <3>6, <3>7
  <2> QED
    BY <2>1, <2>2
<1> QED
  BY <1>9, <1>10, <1>11 DEF HttpIInv

(* A socket is closed by the worker whose job it is, as the job ends.      *)
LEMMA CloseSocketStep ==
    ASSUME HttpIInv, PoolIInv', NEW w \in Workers, close_socket(w)
    PROVE  HttpIInv'
<1> DEFINE c == fn[w]
<1>1. /\ wpc[w] = "run" /\ ran' = ran \cup {c} /\ fn' = [fn EXCEPT ![w] = 0]
      /\ wpc' = [wpc EXCEPT ![w] = "lock"]
      /\ sock' = [sock EXCEPT ![c] = "closed"]
      /\ hpc' = [hpc EXCEPT ![w] = "idle"]
      /\ count' = [count EXCEPT ![w] = 0] /\ last' = [last EXCEPT ![w] = FALSE]
      /\ UNCHANGED <<jobs_, enqueued, out>>
  BY DEF close_socket, Finish
<1>2. /\ fn \in [Workers -> 0..MaxJobs]
      /\ wpc \in [Workers -> {"lock", "wait", "run", "exit"}]
  BY DEF HttpIInv, PoolIInv, PoolTypeOK
<1>3. c \in Conns /\ c <= enqueued /\ enqueued \in Nat
  <2>1. c # 0
    BY <1>1 DEF HttpIInv, PoolIInv, ExactlyOnceInOrder
  <2>2. c \in Held
    BY <2>1 DEF Held
  <2>3. c \in 1..(enqueued - Len(jobs_))
    BY <2>2 DEF HttpIInv, PoolIInv, ExactlyOnceInOrder
  <2>4. enqueued \in Nat /\ Len(jobs_) \in Nat
    BY PoolAssumption DEF HttpIInv, PoolIInv, PoolTypeOK
  <2> QED
    BY <1>2, <2>1, <2>3, <2>4, PoolAssumption DEF Conns
<1>4. SockInv'
  <2>1. \A d \in Conns : sock'[d] = IF d = c THEN "closed" ELSE sock[d]
    BY <1>1, <1>3 DEF HttpIInv, SockInv
  <2>2. sock' \in [Conns -> {"none", "open", "closed"}]
    BY <1>1, <1>3 DEF HttpIInv, SockInv
  <2>3. \A d \in Conns : sock'[d] = "closed" <=> d \in ran'
    BY <1>1, <2>1 DEF HttpIInv, SockInv
  <2>4. \A d \in Conns : sock'[d] = "none" <=> d > enqueued'
    BY <1>1, <1>3, <2>1 DEF HttpIInv, SockInv, Conns
  <2>5. /\ hpc' \in [Workers -> {"idle", "keepalive", "request", "write", "send", "close"}]
        /\ \A v \in Workers : hpc'[v] # "idle" <=> wpc'[v] = "run"
    BY <1>1, <1>2 DEF HttpIInv, SockInv
  <2> QED
    BY <2>2, <2>3, <2>4, <2>5 DEF SockInv
<1>5. TurnsInv'
  <2>1. \A v \in Workers : GoesOn(v)' =>
            v # w /\ GoesOn(v) /\ fn'[v] = fn[v] /\ count'[v] = count[v]
    BY <1>1, <1>2 DEF HttpIInv, SockInv, TurnsInv, GoesOn
  <2>2. count' \in [Workers -> 0..KeepAliveMax] /\ last' \in [Workers -> BOOLEAN]
    BY <1>1, HttpAssumption DEF HttpIInv, TurnsInv
  <2> QED
    BY <1>1, <2>1, <2>2 DEF HttpIInv, TurnsInv
<1>6. KeepAliveContract'
  BY <1>1 DEF HttpIInv, KeepAliveContract
<1> QED
  BY <1>4, <1>5, <1>6 DEF HttpIInv

-----------------------------------------------------------------------------
(* The invariant is inductive.                                             *)
LEMMA HttpNextIInv == HttpIInv /\ [HttpNext]_httpVars => HttpIInv'
<1> SUFFICES ASSUME HttpIInv, [HttpNext]_httpVars PROVE HttpIInv'
  OBVIOUS
<1>1. PoolIInv'
  BY HttpStepIsPoolStep, PoolNextIInv DEF HttpIInv
<1>2. CASE Connect
  BY <1>1, <1>2, ClientStep DEF Connect, connVars
<1>3. CASE \E c \in Conns : Send(c) \/ Receive(c) \/ Hangup(c)
  BY <1>1, <1>3, ClientStep DEF Hangup, Receive, Send
<1>4. CASE Accept
  BY <1>1, <1>4, AcceptStep
<1>5. CASE AcceptFails \/ ShutdownPool
  BY <1>1, <1>5, RestStep
<1>6. CASE \E w \in Workers :
              TakeConnection(w) \/ Rest(w) \/ Stir(w) \/ process_and_close_socket(w)
  <2> PICK w \in Workers :
              TakeConnection(w) \/ Rest(w) \/ Stir(w) \/ process_and_close_socket(w)
    BY <1>6
  <2>1. CASE TakeConnection(w)
    BY <1>1, <2>1, TakeConnectionStep
  <2>2. CASE Rest(w) \/ Stir(w)
    BY <1>1, <2>2, RestStep
  <2>3. CASE process_and_close_socket(w)
    BY <1>1, <2>3, WaitForRequestStep, ProcessRequestStep, WriteStep, CloseSocketStep
       DEF process_and_close_socket
  <2> QED
    BY <2>1, <2>2, <2>3
<1>7. CASE UNCHANGED httpVars
  BY <1>1, <1>7, ClientStep DEF httpVars, connVars
<1> QED
  BY <1>2, <1>3, <1>4, <1>5, <1>6, <1>7 DEF HttpNext

(* HttpIInv is an inductive invariant of the server.                       *)
THEOREM HttpInvariance == HttpSpec => []HttpIInv
  BY HttpInitIInv, HttpNextIInv, PTL DEF HttpSpec

(* The ownership of sockets follows from the inductive invariant.          *)
LEMMA SocketsFollow == HttpIInv => SocketsOwned
<1> SUFFICES ASSUME HttpIInv PROVE SocketsOwned
  OBVIOUS
<1> DEFINE taken == enqueued - Len(jobs_)
           Queued == {jobs_[i] : i \in DOMAIN jobs_}
<1>1. /\ enqueued \in Nat /\ Len(jobs_) \in Nat /\ DOMAIN jobs_ = 1..Len(jobs_)
      /\ ran \subseteq Conns /\ enqueued <= MaxJobs /\ MaxJobs \in Nat
  BY PoolAssumption DEF HttpIInv, PoolIInv, PoolTypeOK, Conns
<1>2. /\ taken >= 0
      /\ \A i \in 1..Len(jobs_) : jobs_[i] = taken + i
      /\ Held \cup ran = 1..taken
      /\ Held \cap ran = {}
  BY <1>1 DEF HttpIInv, PoolIInv, ExactlyOnceInOrder
<1>3. \A c \in Conns : c \in Queued <=> c > taken /\ c <= enqueued
  <2> SUFFICES ASSUME NEW c \in Conns PROVE c \in Queued <=> c > taken /\ c <= enqueued
    OBVIOUS
  <2>1. c \in Queued => c > taken /\ c <= enqueued
    BY <1>1, <1>2
  <2>2. ASSUME c > taken, c <= enqueued PROVE c \in Queued
    <3>1. c - taken \in 1..Len(jobs_) /\ c = taken + (c - taken)
      BY <1>1, <1>2, <2>2 DEF Conns
    <3> QED
      BY <1>1, <1>2, <3>1
  <2> QED
    BY <2>1, <2>2
<1>4. Held \subseteq Conns /\ Queued \subseteq Conns
  <2>1. \A i \in 1..Len(jobs_) : taken + i \in Conns
    BY <1>1, <1>2 DEF Conns
  <2> QED
    BY <1>1, <1>2, <2>1 DEF Conns
<1>5. \A c \in Conns : sock[c] = "open" <=> c \notin ran /\ c <= enqueued
  BY <1>1 DEF HttpIInv, SockInv, Conns
<1>6. \A c \in Conns : sock[c] = "open" <=> c \in Held \cup Queued
  <2> SUFFICES ASSUME NEW c \in Conns PROVE sock[c] = "open" <=> c \in Held \cup Queued
    OBVIOUS
  <2>1. c \in Held \cup ran <=> c <= taken
    BY <1>1, <1>2 DEF Conns
  <2>2. c \in Int /\ taken \in Int /\ taken <= enqueued
    BY <1>1 DEF Conns
  <2> QED
    BY <1>1, <1>2, <1>3, <1>5, <2>1, <2>2
<1>7. OpenSockets = Held \cup Queued
  BY <1>4, <1>6 DEF OpenSockets
<1>8. {c \in Conns : sock[c] = "closed"} = ran
  BY <1>1 DEF HttpIInv, SockInv
<1> QED
  BY <1>7, <1>8 DEF SocketsOwned, HttpIInv, SockInv

(* Every accepted socket is open exactly until its one worker has closed   *)
(* it, whatever the number of workers and connections.                     *)
THEOREM SocketsAreOwned == HttpSpec => []SocketsOwned
  BY HttpInvariance, SocketsFollow, PTL

(* What responses say of keep-alive is true for every limit.               *)
THEOREM KeepAliveIsHonest == HttpSpec => []KeepAliveContract
<1>1. HttpIInv => KeepAliveContract
  BY DEF HttpIInv
<1> QED
  BY <1>1, HttpInvariance, PTL
=============================================================================
