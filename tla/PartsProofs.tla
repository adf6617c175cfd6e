-------------------------- MODULE PartsProofs --------------------------
(***************************************************************************)
(* Proofs about ThreadPool and the parts of Parts, one after the other:    *)
(* an object pool, the handlers of messages, the load test, a log file,    *)
(* one curl handle, and the old Unity client.  The names are those of      *)
(* Parts; each section begins with the inductive invariant of its part.    *)
(***************************************************************************)
EXTENDS ThreadPool, Parts, FiniteSetTheorems, TLAPS

-----------------------------------------------------------------------------
(* The thread pool: for any number of workers and tasks, the mutex is held  *)
(* by one, tasks are taken in order and once, and no wakeup of PostTask is  *)
(* lost.                                                                    *)

\* Each part is inductive once the types are known; NoLostWakeup, which needs
\* them all, is added below.
PoolIInv == PoolTypeOK /\ TestHolds /\ TakenOnceInOrder

-----------------------------------------------------------------------------
(* Steps that touch neither the queue nor what was taken. *)

LEMMA QueueStays ==
    ASSUME PoolIInv, UNCHANGED <<task, tasks_, posted>>
    PROVE  TakenOnceInOrder'
BY DEF PoolIInv, TakenOnceInOrder

\* A worker that takes no part in mutual exclusion goes on elsewhere.
LEMMA MovesOutside ==
    ASSUME PoolIInv, NEW w \in Workers, pc[w] \notin {"locked", "sleepy"},
           NEW p \in Points \ {"locked", "sleepy"}, pc' = [pc EXCEPT ![w] = p],
           UNCHANGED <<task, mutex_, tasks_, stop_, owner, posted, deaf>>
    PROVE  PoolIInv'
<1>1. \A v \in Workers : pc'[v] = IF v = w THEN p ELSE pc[v]
  BY DEF PoolIInv, PoolTypeOK
<1>2. PoolTypeOK'
  BY DEF PoolIInv, PoolTypeOK
<1>3. TestHolds'
  BY <1>1 DEF PoolIInv, TestHolds
<1>4. QED
  BY <1>2, <1>3, QueueStays DEF PoolIInv

LEMMA AcquireKeeps ==
    ASSUME PoolIInv, NEW w \in Workers, Acquire(w)
    PROVE  PoolIInv'
<1>1. /\ mutex_ = {} /\ mutex_' = {w} /\ pc' = [pc EXCEPT ![w] = "locked"]
      /\ UNCHANGED <<task, tasks_, stop_, owner, posted, deaf>>
  BY DEF Acquire
<1>2. \A v \in Workers : pc'[v] = IF v = w THEN "locked" ELSE pc[v]
  BY <1>1 DEF PoolIInv, PoolTypeOK
<1>3. PoolTypeOK'
  BY <1>1 DEF PoolIInv, PoolTypeOK, Points
<1>4. \A v \in Workers : pc[v] \notin {"locked", "sleepy"}
  BY <1>1 DEF PoolIInv, TestHolds
<1>5. TestHolds'
  BY <1>1, <1>2, <1>4 DEF TestHolds
<1>6. QED
  BY <1>1, <1>3, <1>5, QueueStays DEF PoolIInv

LEMMA TestKeeps ==
    ASSUME PoolIInv, NEW w \in Workers, Test(w)
    PROVE  PoolIInv'
<1>1. /\ pc[w] = "locked" /\ tasks_ = <<>> /\ pc' = [pc EXCEPT ![w] = "sleepy"]
      /\ UNCHANGED <<task, mutex_, tasks_, stop_, owner, posted, deaf>>
  BY DEF Test
<1>2. \A v \in Workers : pc'[v] = IF v = w THEN "sleepy" ELSE pc[v]
  BY <1>1 DEF PoolIInv, PoolTypeOK
<1>3. PoolTypeOK'
  BY <1>1 DEF PoolIInv, PoolTypeOK, Points
<1>4. TestHolds'
  BY <1>1, <1>2 DEF PoolIInv, TestHolds
<1>5. QED
  BY <1>1, <1>3, <1>4, QueueStays DEF PoolIInv

\* The holder of the mutex gives it back.
LEMMA GivesBack ==
    ASSUME PoolIInv, NEW w \in Workers, pc[w] \in {"locked", "sleepy"},
           NEW p \in Points \ {"locked", "sleepy"}, pc' = [pc EXCEPT ![w] = p],
           mutex_' = {}
    PROVE  TestHolds'
<1>1. \A v \in Workers : pc'[v] = IF v = w THEN p ELSE pc[v]
  BY DEF PoolIInv, PoolTypeOK
<1>2. \A v \in Workers : pc[v] \in {"locked", "sleepy"} => v = w
  BY DEF PoolIInv, TestHolds
<1>3. QED
  BY <1>1, <1>2 DEF TestHolds

LEMMA SleepKeeps ==
    ASSUME PoolIInv, NEW w \in Workers, Sleep(w)
    PROVE  PoolIInv'
<1>1. /\ pc[w] \in {"locked", "sleepy"} /\ mutex_' = {} /\ pc' = [pc EXCEPT ![w] = "waiting"]
      /\ UNCHANGED <<task, tasks_, stop_, owner, posted, deaf>>
  BY DEF Sleep
<1>2. PoolTypeOK'
  BY <1>1 DEF PoolIInv, PoolTypeOK, Points
<1>3. "waiting" \in Points \ {"locked", "sleepy"}
  BY DEF Points
<1>4. TestHolds'
  BY <1>1, <1>3, GivesBack
<1>5. QED
  BY <1>1, <1>2, <1>4, QueueStays DEF PoolIInv

LEMMA LeaveKeeps ==
    ASSUME PoolIInv, NEW w \in Workers, Leave(w)
    PROVE  PoolIInv'
<1>1. /\ pc[w] \in {"locked", "sleepy"} /\ mutex_' = {} /\ pc' = [pc EXCEPT ![w] = "ended"]
      /\ UNCHANGED <<task, tasks_, stop_, owner, posted, deaf>>
  BY DEF Leave
<1>2. PoolTypeOK'
  BY <1>1 DEF PoolIInv, PoolTypeOK, Points
<1>3. "ended" \in Points \ {"locked", "sleepy"}
  BY DEF Points
<1>4. TestHolds'
  BY <1>1, <1>3, GivesBack
<1>5. QED
  BY <1>1, <1>2, <1>4, QueueStays DEF PoolIInv

-----------------------------------------------------------------------------
(* Steps of the queue. *)

LEMMA TailFacts ==
    ASSUME NEW q \in Seq(Nat), q # <<>>
    PROVE  /\ Tail(q) \in Seq(Nat) /\ Len(Tail(q)) = Len(q) - 1 /\ Head(q) = q[1]
           /\ Len(q) \in Nat \ {0} /\ q[1] \in Nat
           /\ DOMAIN q = 1..Len(q) /\ DOMAIN Tail(q) = 1..(Len(q) - 1)
           /\ \A i \in 1..(Len(q) - 1) : Tail(q)[i] = q[i + 1]
OBVIOUS

LEMMA TakeKeeps ==
    ASSUME PoolIInv, NEW w \in Workers, Take(w)
    PROVE  PoolIInv'
<1> DEFINE n == Len(tasks_)
<1>1. /\ pc[w] = "locked" /\ tasks_ # <<>> /\ task' = [task EXCEPT ![w] = Head(tasks_)]
      /\ tasks_' = Tail(tasks_) /\ mutex_' = {} /\ pc' = [pc EXCEPT ![w] = "running"]
      /\ UNCHANGED <<stop_, owner, posted, deaf>>
  BY DEF Take
<1>2. /\ tasks_ \in Seq(Nat) /\ posted \in Nat /\ task \in [Workers -> Nat]
  BY DEF PoolIInv, PoolTypeOK
<1>3. /\ tasks_' \in Seq(Nat) /\ Len(tasks_') = n - 1 /\ Head(tasks_) = tasks_[1]
      /\ n \in Nat \ {0} /\ tasks_[1] \in Nat
      /\ DOMAIN tasks_ = 1..n /\ DOMAIN tasks_' = 1..(n - 1)
      /\ \A i \in 1..(n - 1) : tasks_'[i] = tasks_[i + 1]
  BY <1>1, <1>2, TailFacts
<1>4. PoolTypeOK'
  BY <1>1, <1>3 DEF PoolIInv, PoolTypeOK, Points
<1>5. "running" \in Points \ {"locked", "sleepy"}
  BY DEF Points
<1>6. TestHolds'
  BY <1>1, <1>5, GivesBack
<1>7. \A i \in 1..n : tasks_[i] = posted - n + i
  BY <1>3 DEF PoolIInv, TakenOnceInOrder
<1>8. \A v \in Workers : task[v] <= posted - n /\ task[v] \in Nat
  BY <1>2 DEF PoolIInv, TakenOnceInOrder
<1>9. \A v \in Workers : task'[v] = IF v = w THEN posted - n + 1 ELSE task[v]
  BY <1>1, <1>2, <1>3, <1>7
<1>10. TakenOnceInOrder'
  <2>1. \A i \in DOMAIN tasks_' : tasks_'[i] = posted' - Len(tasks_') + i
    BY <1>1, <1>2, <1>3, <1>7
  <2>2. \A v \in Workers : task'[v] <= posted' - Len(tasks_')
    BY <1>1, <1>2, <1>3, <1>8, <1>9
  <2>3. ASSUME NEW u \in Workers, NEW v \in Workers, u # v, task'[u] = task'[v]
        PROVE  task'[v] = 0
    <3>1. u # w /\ v # w
      BY <2>3, <1>2, <1>3, <1>8, <1>9
    <3>2. QED
      BY <2>3, <3>1, <1>9 DEF PoolIInv, TakenOnceInOrder
  <2>4. QED
    BY <2>1, <2>2, <2>3 DEF TakenOnceInOrder
<1>11. QED
  BY <1>4, <1>6, <1>10 DEF PoolIInv

\* Whoever waits and is woken is outside the mutex before and after.
LEMMA WakingHolds ==
    ASSUME PoolIInv, pc' \in [Workers -> Points],
           \A v \in Workers : pc'[v] = pc[v] \/ (pc[v] = "waiting" /\ pc'[v] = "outside"),
           mutex_' = mutex_, mutex_ = {} \/ tasks_' = tasks_
    PROVE  TestHolds'
<1>1. \A v \in Workers : \A x \in {"locked", "sleepy"} : pc'[v] = x <=> pc[v] = x
  OBVIOUS
<1>2. QED
  BY <1>1 DEF PoolIInv, TestHolds

LEMMA PostWakes ==
    ASSUME PoolIInv, PostTask
    PROVE  /\ pc' \in [Workers -> Points]
           /\ \A v \in Workers : pc'[v] = pc[v] \/ (pc[v] = "waiting" /\ pc'[v] = "outside")
<1>1. pc \in [Workers -> Points]
  BY DEF PoolIInv, PoolTypeOK
<1>2. CASE pc' = pc
  BY <1>1, <1>2
<1>3. CASE \E w \in Waiting : pc' = [pc EXCEPT ![w] = "outside"]
  BY <1>1, <1>3 DEF Waiting, Points
<1>4. QED
  BY <1>2, <1>3 DEF PostTask

LEMMA PostKeeps ==
    ASSUME PoolIInv, PostTask
    PROVE  PoolIInv'
<1> DEFINE n == Len(tasks_)
<1>1. /\ mutex_ = {} /\ posted' = posted + 1 /\ tasks_' = Append(tasks_, posted + 1)
      /\ UNCHANGED <<task, mutex_, stop_, owner, deaf>>
  BY DEF PostTask
<1>2. /\ tasks_ \in Seq(Nat) /\ posted \in Nat /\ task \in [Workers -> Nat] /\ n \in Nat
      /\ DOMAIN tasks_ = 1..n
  BY DEF PoolIInv, PoolTypeOK
<1>3. /\ tasks_' \in Seq(Nat) /\ Len(tasks_') = n + 1 /\ DOMAIN tasks_' = 1..(n + 1)
      /\ \A i \in 1..n : tasks_'[i] = tasks_[i]
      /\ tasks_'[n + 1] = posted + 1
  BY <1>1, <1>2
<1>4. PoolTypeOK'
  BY <1>1, <1>2, <1>3, PostWakes DEF PoolIInv, PoolTypeOK
<1>5. TestHolds'
  BY <1>1, PostWakes, WakingHolds
<1>6. TakenOnceInOrder'
  <2>1. \A i \in DOMAIN tasks_' : tasks_'[i] = posted' - Len(tasks_') + i
    <3>1. \A i \in 1..n : tasks_[i] = posted - n + i
      BY <1>2 DEF PoolIInv, TakenOnceInOrder
    <3>2. QED
      BY <1>1, <1>2, <1>3, <3>1
  <2>2. posted' - Len(tasks_') = posted - n
    BY <1>1, <1>2, <1>3
  <2>3. QED
    BY <1>1, <2>1, <2>2 DEF PoolIInv, TakenOnceInOrder
<1>7. QED
  BY <1>4, <1>5, <1>6 DEF PoolIInv

LEMMA NotifyAllKeeps ==
    ASSUME PoolIInv, NotifyAll
    PROVE  PoolIInv'
<1>1. /\ pc' = [w \in Workers |-> IF w \in Waiting THEN "outside" ELSE pc[w]]
      /\ owner' = "joining" /\ deaf' \subseteq Workers
      /\ UNCHANGED <<task, mutex_, tasks_, stop_, posted>>
  BY DEF NotifyAll
<1>2. /\ pc' \in [Workers -> Points]
      /\ \A v \in Workers : pc'[v] = pc[v] \/ (pc[v] = "waiting" /\ pc'[v] = "outside")
  BY <1>1 DEF PoolIInv, PoolTypeOK, Points, Waiting
<1>3. PoolTypeOK'
  BY <1>1, <1>2 DEF PoolIInv, PoolTypeOK
<1>4. TestHolds'
  BY <1>1, <1>2, WakingHolds
<1>5. QED
  BY <1>1, <1>3, <1>4, QueueStays DEF PoolIInv

LEMMA OwnerKeeps ==
    ASSUME PoolIInv, Stop \/ Join
    PROVE  PoolIInv'
<1>1. UNCHANGED <<pc, task, mutex_, tasks_, posted, deaf>>
  BY DEF Stop, Join
<1>2. PoolTypeOK'
  BY DEF PoolIInv, PoolTypeOK, Stop, Join
<1>3. TestHolds'
  BY <1>1 DEF PoolIInv, TestHolds
<1>4. QED
  BY <1>1, <1>2, <1>3, QueueStays DEF PoolIInv

-----------------------------------------------------------------------------
LEMMA NextKeeps == PoolIInv /\ [PoolNext]_poolVars => PoolIInv'
<1> SUFFICES ASSUME PoolIInv, [PoolNext]_poolVars
             PROVE  PoolIInv'
  OBVIOUS
<1>1. ASSUME NEW w \in Workers, Finish(w) \/ WakeSpuriously(w)
      PROVE  PoolIInv'
  <2>1. "outside" \in Points \ {"locked", "sleepy"}
    BY DEF Points
  <2>2. QED
    BY <1>1, <2>1, MovesOutside DEF Finish, WakeSpuriously
<1>2. ASSUME NEW w \in Workers, Step(w)
      PROVE  PoolIInv'
  BY <1>1, <1>2, AcquireKeeps, TestKeeps, SleepKeeps, TakeKeeps, LeaveKeeps DEF Step
<1>3. CASE UNCHANGED poolVars
  <2>1. PoolTypeOK' /\ TestHolds'
    BY <1>3 DEF PoolIInv, PoolTypeOK, TestHolds, poolVars
  <2>2. QED
    BY <1>3, <2>1, QueueStays DEF PoolIInv, poolVars
<1>4. QED
  BY <1>1, <1>2, <1>3, PostKeeps, NotifyAllKeeps, OwnerKeeps DEF PoolNext

LEMMA InitHolds == PoolInit => PoolIInv
<1> SUFFICES ASSUME PoolInit
             PROVE  PoolIInv
  OBVIOUS
<1>1. PoolTypeOK
  <2>1. /\ pc \in [Workers -> Points] /\ task \in [Workers -> Nat]
        /\ tasks_ \in Seq(Nat) /\ posted \in Nat
    BY DEF PoolInit, Points
  <2>2. mutex_ \in SUBSET Workers /\ deaf \in SUBSET Workers
    BY DEF PoolInit
  <2>3. stop_ \in BOOLEAN /\ owner \in {"posting", "stopping", "joining", "destroyed"}
    BY DEF PoolInit
  <2>4. QED
    BY <2>1, <2>2, <2>3 DEF PoolTypeOK
<1>2. TestHolds
  BY DEF PoolInit, TestHolds
<1>3. TakenOnceInOrder
  BY DEF PoolInit, TakenOnceInOrder
<1>4. QED
  BY <1>1, <1>2, <1>3 DEF PoolIInv

LEMMA Inductive == PoolSpec => []PoolIInv
BY InitHolds, NextKeeps, PTL DEF PoolSpec

\* ThreadPool.h, Worker::operator(): at most one worker is between taking the
\* lock and giving it back, whatever stop_ does meanwhile, and the queue is
\* empty as long as one has decided to wait.
THEOREM OneHolds == PoolSpec => []TestHolds
<1>1. PoolIInv => TestHolds
  BY DEF PoolIInv
<1>2. QED
  BY <1>1, Inductive, PTL

\* ThreadPool.h, PostTask and Worker::operator(): the tasks are taken in the
\* order in which they were posted, and each by one worker.
THEOREM TakenInOrder == PoolSpec => []TakenOnceInOrder
<1>1. PoolIInv => TakenOnceInOrder
  BY DEF PoolIInv
<1>2. QED
  BY <1>1, Inductive, PTL

-----------------------------------------------------------------------------
(* Wakeups. *)

LEMMA Sets ==
    ASSUME IsFiniteSet(Workers)
    PROVE  /\ IsFiniteSet(Attentive) /\ Cardinality(Attentive) \in Nat
           /\ Attentive \subseteq Workers
<1>1. Attentive \subseteq Workers
  BY DEF Attentive
<1>2. QED
  BY <1>1, FS_Subset, FS_CardinalityType

\* A worker more on its way, or one less.
LEMMA OneMore ==
    ASSUME IsFiniteSet(Workers), NEW w \in Workers, w \notin Attentive,
           Attentive' = Attentive \cup {w}
    PROVE  Cardinality(Attentive') = Cardinality(Attentive) + 1
BY Sets, FS_AddElement

LEMMA OneLess ==
    ASSUME IsFiniteSet(Workers), NEW w \in Attentive, Attentive' = Attentive \ {w}
    PROVE  Cardinality(Attentive') = Cardinality(Attentive) - 1
BY Sets, FS_RemoveElement

\* Nothing is lost by a step that leaves the queue and takes nobody off its way.
LEMMA NobodyTurnsBack ==
    ASSUME PoolIInv, NoLostWakeup, IsFiniteSet(Workers), IsFiniteSet(Attentive'),
           Attentive \subseteq Attentive', tasks_' = tasks_,
           Waiting' # {} /\ ~stop_' => Waiting # {} /\ ~stop_
    PROVE  NoLostWakeup'
<1>1. Cardinality(Attentive) <= Cardinality(Attentive')
  BY FS_Subset
<1>2. Cardinality(Attentive) \in Nat /\ Cardinality(Attentive') \in Nat /\ Len(tasks_) \in Nat
  BY Sets, FS_CardinalityType DEF PoolIInv, PoolTypeOK
<1>3. QED
  BY <1>1, <1>2 DEF NoLostWakeup

LEMMA WorkerWakes ==
    ASSUME PoolIInv, NoLostWakeup, IsFiniteSet(Workers), NEW w \in Workers,
           Step(w) \/ WakeSpuriously(w)
    PROVE  NoLostWakeup'
<1>1. /\ pc \in [Workers -> Points] /\ tasks_ \in Seq(Nat)
      /\ Cardinality(Attentive) \in Nat /\ IsFiniteSet(Attentive)
  BY Sets DEF PoolIInv, PoolTypeOK
<1>2. IsFiniteSet(Attentive') /\ Cardinality(Attentive') \in Nat
  <2>1. Attentive' \subseteq Workers
    BY DEF Attentive
  <2>2. QED
    BY <2>1, FS_Subset, FS_CardinalityType
<1>3. CASE Acquire(w) \/ Finish(w) \/ WakeSpuriously(w)
  <2>1. /\ tasks_' = tasks_ /\ stop_' = stop_
        /\ Attentive \subseteq Attentive' /\ Waiting' \subseteq Waiting
    BY <1>1, <1>3 DEF Acquire, Finish, WakeSpuriously, Attentive, Waiting
  <2>2. QED
    BY <1>2, <2>1, NobodyTurnsBack
<1>4. CASE Test(w) \/ Sleep(w)
  <2>1. tasks_' = <<>>
    BY <1>4 DEF Test, Sleep, PoolIInv, TestHolds
  <2>2. Len(tasks_') = 0
    BY <2>1
  <2>3. QED
    BY <1>2, <2>2 DEF NoLostWakeup
<1>5. CASE Take(w)
  <2>1. w \in Attentive /\ Attentive' = Attentive \ {w} /\ Waiting' = Waiting /\ stop_' = stop_
    BY <1>1, <1>5 DEF Take, Attentive, Waiting
  <2>2. Cardinality(Attentive') = Cardinality(Attentive) - 1
    BY <2>1, OneLess
  <2>3. Len(tasks_') = Len(tasks_) - 1 /\ Len(tasks_) \in Nat
    BY <1>1, <1>5, TailFacts DEF Take
  <2>4. QED
    BY <1>1, <2>1, <2>2, <2>3 DEF NoLostWakeup
<1>6. CASE Leave(w)
  BY <1>6 DEF Leave, NoLostWakeup
<1>7. QED
  BY <1>3, <1>4, <1>5, <1>6 DEF Step

LEMMA PostingWakes ==
    ASSUME PoolIInv, NoLostWakeup, IsFiniteSet(Workers), PostTask
    PROVE  NoLostWakeup'
<1>1. /\ pc \in [Workers -> Points] /\ tasks_ \in Seq(Nat)
      /\ Cardinality(Attentive) \in Nat /\ stop_' = stop_
  BY Sets DEF PoolIInv, PoolTypeOK, PostTask
<1>2. Len(tasks_') = Len(tasks_) + 1 /\ Len(tasks_) \in Nat
  BY <1>1 DEF PostTask
<1>3. CASE Waiting = {}
  <2>1. Waiting' = {}
    BY <1>3 DEF PostTask, Waiting
  <2>2. QED
    BY <2>1 DEF NoLostWakeup
<1>4. CASE Waiting # {}
  <2>1. PICK w \in Waiting : pc' = [pc EXCEPT ![w] = "outside"]
    BY <1>4 DEF PostTask
  <2>2. w \in Workers /\ w \notin Attentive /\ Attentive' = Attentive \cup {w}
    BY <1>1, <2>1 DEF Waiting, Attentive
  <2>3. Cardinality(Attentive') = Cardinality(Attentive) + 1
    BY <2>2, OneMore
  <2>4. QED
    BY <1>1, <1>2, <1>4, <2>3 DEF NoLostWakeup
<1>5. QED
  BY <1>3, <1>4

\* ThreadPool.h, PostTask: one notify_one for each task is enough.  While a
\* worker waits and the pool is not being destroyed, as many workers are on
\* their way to the queue as there are tasks in it, for any number of workers.
THEOREM NoWakeupIsLost ==
    ASSUME IsFiniteSet(Workers)
    PROVE  PoolSpec => []NoLostWakeup
<1>1. PoolInit => NoLostWakeup
  <2> SUFFICES ASSUME PoolInit
               PROVE  NoLostWakeup
    OBVIOUS
  <2>1. Waiting = {}
    BY DEF PoolInit, Waiting
  <2>2. QED
    BY <2>1 DEF NoLostWakeup
<1>2. PoolIInv /\ NoLostWakeup /\ [PoolNext]_poolVars => NoLostWakeup'
  <2> SUFFICES ASSUME PoolIInv, NoLostWakeup, [PoolNext]_poolVars
               PROVE  NoLostWakeup'
    OBVIOUS
  <2>1. CASE Stop
    BY <2>1 DEF Stop, NoLostWakeup
  <2>2. CASE NotifyAll
    <3>1. Waiting' = {}
      BY <2>2 DEF NotifyAll, Waiting
    <3>2. QED
      BY <3>1 DEF NoLostWakeup
  <2>3. CASE Join \/ UNCHANGED poolVars
    BY <2>3 DEF Join, poolVars, NoLostWakeup, Waiting, Attentive
  <2>4. QED
    BY <2>1, <2>2, <2>3, WorkerWakes, PostingWakes DEF PoolNext
<1>3. QED
  BY <1>1, <1>2, Inductive, PTL DEF PoolSpec

\* ThreadPool.h:70, all of it together: types, mutual exclusion, the order of
\* the tasks and no lost wakeup, for any finite set of workers.
THEOREM TasksAreTaken ==
    ASSUME IsFiniteSet(Workers)
    PROVE  PoolSpec => []TasksGoOn
<1>1. PoolIInv /\ NoLostWakeup => TasksGoOn
  BY DEF PoolIInv, TasksGoOn
<1>2. QED
  BY <1>1, Inductive, NoWakeupIsLost, PTL

-----------------------------------------------------------------------------
(* An object pool. *)

PoolTypes ==
  /\ pool_list \in Seq(1..MaxObjects) /\ pool_cur \in Nat /\ max_size_ \in 0..(2 ^ SizeBits - 1)
  /\ out \subseteq 1..MaxObjects /\ failures \in Nat

LEMMA ElementOf ==
    ASSUME NEW S, NEW s \in Seq(S), NEW i \in 1..Len(s)
    PROVE  s[i] \in S
OBVIOUS

InPool == {pool_list[i] : i \in 1..Len(pool_list)}

\* An object is in one place, and each that was made is somewhere.
EachInOnePlace ==
  /\ \A i, j \in 1..Len(pool_list) : pool_list[i] = pool_list[j] => i = j
  /\ out \intersect InPool = {}
  /\ Cardinality(InPool) = Len(pool_list)
  /\ Cardinality(out) + Cardinality(InPool) + failures = pool_cur

ObjectsInv == PoolTypes /\ EachInOnePlace

LEMMA PoolCardinality == \A S : Pooling!Cardinality(S) = Cardinality(S)
BY DEF Pooling!Cardinality, Cardinality

LEMMA PoolRange == PoolTypes => Pooling!Range(pool_list) = InPool
BY DEF PoolTypes, InPool, Pooling!Range

LEMMA ObjectsAreFinite ==
    ASSUME PoolTypes
    PROVE  IsFiniteSet(out) /\ IsFiniteSet(InPool) /\ Cardinality(out) \in Nat /\ Cardinality(InPool) \in Nat
<1>1. IsFiniteSet(1..MaxObjects)
  BY PoolAssumption, FS_Interval
<1>2. out \subseteq 1..MaxObjects /\ InPool \subseteq 1..MaxObjects
  <2>1. \A i \in 1..Len(pool_list) : pool_list[i] \in 1..MaxObjects
    BY ElementOf DEF PoolTypes
  <2>2. QED
    BY <2>1 DEF PoolTypes, InPool
<1>3. QED
  BY <1>1, <1>2, FS_Subset, FS_CardinalityType

LEMMA ObjectsBegin == Pooling!PoolInit => ObjectsInv
<1> SUFFICES ASSUME Pooling!PoolInit PROVE ObjectsInv
  OBVIOUS
<1>1. pool_list = <<>> /\ pool_cur = 0 /\ max_size_ \in Capacities /\ out = {} /\ failures = 0
  BY DEF Pooling!PoolInit
<1>2. PoolTypes
  BY <1>1, PoolAssumption DEF PoolTypes
<1>3. InPool = {}
  BY <1>1 DEF InPool
<1>4. EachInOnePlace
  BY <1>1, <1>3, FS_EmptySet DEF EachInOnePlace
<1>5. QED
  BY <1>2, <1>4 DEF ObjectsInv

LEMMA MakingKeeps ==
    ASSUME ObjectsInv, Pooling!CreateNew
    PROVE  ObjectsInv'
<1>1. pool_cur' = pool_cur + 1 /\ UNCHANGED <<pool_list, max_size_>> /\ InPool' = InPool
  BY DEF Pooling!CreateNew, InPool
<1>2. CASE failures' = failures + 1 /\ UNCHANGED out
  <2>1. PoolTypes'
    BY <1>1, <1>2 DEF ObjectsInv, PoolTypes
  <2>2. EachInOnePlace'
    BY <1>1, <1>2, ObjectsAreFinite DEF ObjectsInv, PoolTypes, EachInOnePlace
  <2>3. QED
    BY <2>1, <2>2 DEF ObjectsInv
<1>3. ASSUME NEW o \in (1..MaxObjects) \ Pooling!Made, out' = out \union {o}, UNCHANGED failures
      PROVE  ObjectsInv'
  <2>1. o \notin out /\ o \notin InPool
    BY <1>3, PoolRange DEF Pooling!Made, ObjectsInv
  <2>2. PoolTypes'
    BY <1>1, <1>3 DEF ObjectsInv, PoolTypes
  <2>3. Cardinality(out') = Cardinality(out) + 1
    BY <1>3, <2>1, ObjectsAreFinite, FS_AddElement DEF ObjectsInv
  <2>4. EachInOnePlace'
    BY <1>1, <1>3, <2>1, <2>3, ObjectsAreFinite DEF ObjectsInv, PoolTypes, EachInOnePlace
  <2>5. QED
    BY <2>2, <2>4 DEF ObjectsInv
<1>4. QED
  BY <1>2, <1>3 DEF Pooling!CreateNew

LEMMA TakingKeeps ==
    ASSUME ObjectsInv, Pooling!CreatePooled
    PROVE  ObjectsInv'
<1> DEFINE o == Head(pool_list)
           n == Len(pool_list)
<1>1. /\ pool_list # <<>> /\ out' = out \union {o} /\ pool_list' = Tail(pool_list)
      /\ UNCHANGED <<pool_cur, max_size_, failures>>
  BY DEF Pooling!CreatePooled
<1>2. /\ pool_list \in Seq(1..MaxObjects) /\ n \in Nat /\ n > 0 /\ o = pool_list[1] /\ o \in 1..MaxObjects
      /\ pool_list' \in Seq(1..MaxObjects) /\ Len(pool_list') = n - 1
      /\ \A i \in 1..(n - 1) : pool_list'[i] = pool_list[i + 1]
  <2>1. pool_list \in Seq(1..MaxObjects) /\ n \in Nat /\ n > 0
    BY <1>1 DEF ObjectsInv, PoolTypes
  <2>2. o = pool_list[1] /\ 1 \in 1..n
    BY <1>1, <2>1
  <2>3. o \in 1..MaxObjects
    BY <2>1, <2>2, ElementOf
  <2>4. pool_list' \in Seq(1..MaxObjects) /\ Len(pool_list') = n - 1
    BY <1>1, <2>1
  <2>5. \A i \in 1..(n - 1) : pool_list'[i] = pool_list[i + 1]
    BY <1>1, <2>1
  <2>6. QED
    BY <2>1, <2>2, <2>3, <2>4, <2>5
<1>3. PoolTypes'
  BY <1>1, <1>2 DEF ObjectsInv, PoolTypes
<1>4. \A i, j \in 1..n : pool_list[i] = pool_list[j] => i = j
  BY DEF ObjectsInv, EachInOnePlace
<1>5. InPool' = InPool \ {o} /\ o \in InPool
  <2>1. \A i \in 1..(n - 1) : i + 1 \in 1..n /\ pool_list[i + 1] # o
    BY <1>2, <1>4
  <2>2. \A i \in 1..n : pool_list[i] # o => i - 1 \in 1..(n - 1) /\ pool_list'[i - 1] = pool_list[i]
    BY <1>2
  <2>3. InPool' = {pool_list'[i] : i \in 1..(n - 1)} /\ InPool = {pool_list[i] : i \in 1..n}
    BY <1>2 DEF InPool
  <2> HIDE DEF o, n
  <2>4. \A x : x \in InPool' => x \in InPool \ {o}
    BY <1>2, <2>1, <2>3
  <2>5. \A x : x \in InPool \ {o} => x \in InPool'
    BY <2>2, <2>3
  <2>6. o \in InPool
    BY <1>2, <2>3
  <2>7. QED
    BY <2>4, <2>5, <2>6
<1>6. \A i, j \in 1..(n - 1) : pool_list'[i] = pool_list'[j] => i = j
  <2> SUFFICES ASSUME NEW i \in 1..(n - 1), NEW j \in 1..(n - 1), pool_list'[i] = pool_list'[j] PROVE i = j
    OBVIOUS
  <2>1. i + 1 \in 1..n /\ j + 1 \in 1..n /\ pool_list[i + 1] = pool_list[j + 1]
    BY <1>2
  <2>2. i + 1 = j + 1
    BY <1>4, <2>1
  <2>3. QED
    BY <2>2
<1>7. Cardinality(InPool') = Cardinality(InPool) - 1 /\ Cardinality(out') = Cardinality(out) + 1
  <2>1. o \notin out
    BY <1>5 DEF ObjectsInv, EachInOnePlace
  <2>2. QED
    BY <1>1, <1>5, <2>1, ObjectsAreFinite, FS_AddElement, FS_RemoveElement DEF ObjectsInv
<1>8. out' \intersect InPool' = {}
  BY <1>1, <1>5 DEF ObjectsInv, EachInOnePlace
<1>9. EachInOnePlace'
  BY <1>1, <1>2, <1>6, <1>7, <1>8, ObjectsAreFinite DEF ObjectsInv, PoolTypes, EachInOnePlace
<1>10. QED
  BY <1>3, <1>9 DEF ObjectsInv

LEMMA RestituteKeeps ==
    ASSUME ObjectsInv, NEW o \in out, Pooling!Restitute(o)
    PROVE  ObjectsInv'
<1> DEFINE n == Len(pool_list)
<1>1. out' = out \ {o} /\ pool_list' = <<o>> \o pool_list /\ UNCHANGED <<pool_cur, max_size_, failures>>
  BY DEF Pooling!Restitute
<1>2. /\ pool_list \in Seq(1..MaxObjects) /\ n \in Nat /\ o \in 1..MaxObjects
      /\ pool_list' \in Seq(1..MaxObjects) /\ Len(pool_list') = n + 1 /\ pool_list'[1] = o
      /\ \A i \in 2..(n + 1) : pool_list'[i] = pool_list[i - 1]
  BY <1>1 DEF ObjectsInv, PoolTypes
<1>3. PoolTypes'
  BY <1>1, <1>2 DEF ObjectsInv, PoolTypes
<1>4. \A i, j \in 1..n : pool_list[i] = pool_list[j] => i = j
  BY DEF ObjectsInv, EachInOnePlace
<1>5. o \notin InPool
  BY DEF ObjectsInv, EachInOnePlace
<1>6. \A i \in 1..n : pool_list[i] # o
  BY <1>5 DEF InPool
<1>7. InPool' = InPool \union {o}
  <2>1. InPool' = {pool_list'[i] : i \in 1..(n + 1)} /\ InPool = {pool_list[i] : i \in 1..n}
    BY <1>2 DEF InPool
  <2>2. \A i \in 1..(n + 1) : i = 1 \/ (i - 1 \in 1..n /\ i \in 2..(n + 1))
    BY <1>2
  <2>3. \A i \in 1..n : i + 1 \in 1..(n + 1) /\ pool_list'[i + 1] = pool_list[i]
    BY <1>2
  <2> HIDE DEF n
  <2>4. \A x : x \in InPool' => x \in InPool \union {o}
    <3>1. \A i \in 1..(n + 1) : pool_list'[i] = o \/ (i - 1 \in 1..n /\ pool_list'[i] = pool_list[i - 1])
      BY <1>2, <2>2
    <3>2. QED
      BY <2>1, <3>1
  <2>5. \A x : x \in InPool \union {o} => x \in InPool'
    BY <1>2, <2>1, <2>3
  <2>6. QED
    BY <2>4, <2>5
<1>8. \A i, j \in 1..(n + 1) : pool_list'[i] = pool_list'[j] => i = j
  <2> SUFFICES ASSUME NEW i \in 1..(n + 1), NEW j \in 1..(n + 1), pool_list'[i] = pool_list'[j] PROVE i = j
    OBVIOUS
  <2>1. \A k \in 1..(n + 1) : k # 1 => k - 1 \in 1..n /\ pool_list'[k] = pool_list[k - 1]
    BY <1>2
  <2>2. CASE i = 1 \/ j = 1
    BY <1>2, <1>6, <2>1, <2>2
  <2>3. CASE i # 1 /\ j # 1
    <3>1. i - 1 = j - 1
      BY <1>4, <2>1, <2>3
    <3>2. QED
      BY <3>1
  <2>4. QED
    BY <2>2, <2>3
<1>9. Cardinality(InPool') = Cardinality(InPool) + 1 /\ Cardinality(out') = Cardinality(out) - 1
  BY <1>1, <1>5, <1>7, ObjectsAreFinite, FS_AddElement, FS_RemoveElement DEF ObjectsInv
<1>10. out' \intersect InPool' = {}
  BY <1>1, <1>7 DEF ObjectsInv, EachInOnePlace
<1>11. EachInOnePlace'
  BY <1>1, <1>2, <1>8, <1>9, <1>10, ObjectsAreFinite DEF ObjectsInv, PoolTypes, EachInOnePlace
<1>12. QED
  BY <1>3, <1>11 DEF ObjectsInv

LEMMA ObjectsKeep == ObjectsInv /\ [Pooling!PoolNext]_(Pooling!poolVars) => ObjectsInv'
<1> SUFFICES ASSUME ObjectsInv, [Pooling!PoolNext]_(Pooling!poolVars) PROVE ObjectsInv'
  OBVIOUS
<1>1. ASSUME UNCHANGED <<pool_list, pool_cur, out, failures>>, max_size_' \in 0..(2 ^ SizeBits - 1)
      PROVE  ObjectsInv'
  BY <1>1 DEF ObjectsInv, PoolTypes, EachInOnePlace, InPool
<1>2. CASE Pooling!CreateNull \/ UNCHANGED Pooling!poolVars
  BY <1>1, <1>2 DEF Pooling!CreateNull, Pooling!poolVars, ObjectsInv, PoolTypes
<1>3. ASSUME NEW capacity \in Capacities, Pooling!Capacity(capacity)
      PROVE  ObjectsInv'
  BY <1>1, <1>3, PoolAssumption DEF Pooling!Capacity
<1>4. QED
  BY <1>2, <1>3, MakingKeeps, TakingKeeps, RestituteKeeps DEF Pooling!PoolNext

LEMMA PoolAccountsHolds == ObjectsInv => Pooling!PoolAccounts
<1> SUFFICES ASSUME ObjectsInv PROVE Pooling!PoolAccounts
  OBVIOUS
<1> DEFINE K == 2 ^ SizeBits
           free == Len(pool_list) + (max_size_ - pool_cur)
<1>1. /\ K \in Nat /\ max_size_ \in 0..(K - 1) /\ pool_cur \in Nat /\ failures \in Nat
      /\ Cardinality(out) \in Nat /\ Cardinality(InPool) \in Nat
      /\ Cardinality(InPool) = Len(pool_list)
      /\ Cardinality(out) + Cardinality(InPool) + failures = pool_cur
  BY PoolAssumption, ObjectsAreFinite DEF ObjectsInv, PoolTypes, EachInOnePlace
<1>2. Cardinality(out \union InPool) = Cardinality(out) + Cardinality(InPool)
  <2>1. IsFiniteSet(out) /\ IsFiniteSet(InPool)
    BY ObjectsAreFinite DEF ObjectsInv
  <2>2. Cardinality(out \intersect InPool) = 0
    BY FS_EmptySet DEF ObjectsInv, EachInOnePlace
  <2>3. Cardinality(out \union InPool) = Cardinality(out) + Cardinality(InPool) - Cardinality(out \intersect InPool)
    BY <2>1, FS_Union
  <2>4. QED
    BY <1>1, <2>2, <2>3
<1>3. Pooling!Range(pool_list) = InPool /\ Pooling!Made = out \union InPool
  BY PoolRange DEF ObjectsInv, Pooling!Made
<1>4. free = max_size_ - failures - Cardinality(out)
  BY <1>1
<1> HIDE DEF K
<1>5. ASSUME pool_cur <= max_size_ PROVE free % K = free
  <2>1. free \in Nat /\ free < K
    BY <1>1, <1>5
  <2>2. QED
    BY <1>1, <2>1
<1>6. pool_cur <= max_size_ => Pooling!Available = max_size_ - failures - Cardinality(out)
  BY <1>4, <1>5 DEF Pooling!Available, K
<1>7. QED
  BY <1>1, <1>2, <1>3, <1>6, PoolCardinality DEF ObjectsInv, EachInOnePlace, Pooling!PoolAccounts

-----------------------------------------------------------------------------
(* Dispatch. *)

Entry == [handler : Nat, binding : Nat]

DispatchTypes ==
  /\ mapHandler_ \in [Sessions -> [Messages -> Entry]]
  /\ handling \in [Sessions -> Entry]
  /\ client \in [Sessions -> Nat]
  /\ bindings \in Seq([session : Sessions, client : Nat, message : Messages])
  /\ answered \in Seq([session : Sessions, client : Nat, message : Messages, binding : Nat])
  /\ left \subseteq Sessions

\* What waits in a container was bound there, later than all that was found.
WaitsWhereBound ==
  \A s \in Sessions, m \in Messages :
    LET b == mapHandler_[s][m].binding IN
    mapHandler_[s][m] # Disp!Nobody =>
      /\ b \in 1..Len(bindings)
      /\ bindings[b].session = s /\ bindings[b].message = m
      /\ s \in left \/ bindings[b].client = client[s]
      /\ \A i \in 1..Len(answered) :
           answered[i].session = s /\ answered[i].message = m => answered[i].binding < b

FoundIsBound == \A i \in 1..Len(answered) : answered[i].binding \in 1..Len(bindings)

DispatchInv ==
  /\ DispatchTypes /\ WaitsWhereBound /\ FoundIsBound
  /\ Disp!HandlerOfOneSession /\ Disp!BoundOnceFoundOnce

LEMMA HoldsStay ==
    ASSUME DispatchTypes, NEW s \in Sessions,
           handling' = handling \/ \E e \in Entry : handling' = [handling EXCEPT ![s] = e],
           mapHandler_' = mapHandler_ \/ \E m \in Messages, e \in Entry : mapHandler_' = [mapHandler_ EXCEPT ![s][m] = e]
    PROVE  \A t \in Sessions \ {s} : Disp!Holds(t)' = Disp!Holds(t)
<1> SUFFICES ASSUME NEW t \in Sessions \ {s} PROVE Disp!Holds(t)' = Disp!Holds(t)
  OBVIOUS
<1>1. handling'[t] = handling[t]
  BY DEF DispatchTypes
<1>2. \A m \in Messages : mapHandler_'[t][m] = mapHandler_[t][m]
  BY DEF DispatchTypes
<1>3. QED
  BY <1>1, <1>2 DEF Disp!Holds

LEMMA ReturnKeeps ==
    ASSUME DispatchInv, NEW s \in Sessions, Disp!Return(s)
    PROVE  DispatchInv'
<1>1. Disp!Nobody \in Entry
  BY DEF Disp!Nobody, Entry
<1>2. DispatchTypes'
  BY <1>1 DEF DispatchInv, DispatchTypes, Disp!Return
<1>3. WaitsWhereBound' /\ FoundIsBound' /\ Disp!BoundOnceFoundOnce'
  BY DEF DispatchInv, WaitsWhereBound, FoundIsBound, Disp!BoundOnceFoundOnce, Disp!Return
<1>4. \A t \in Sessions \ {s} : Disp!Holds(t)' = Disp!Holds(t)
  BY <1>1, HoldsStay DEF DispatchInv, Disp!Return
<1>5. Disp!Holds(s)' \subseteq Disp!Holds(s)
  BY DispatchAssumption DEF Disp!Holds, Disp!Return, DispatchInv, DispatchTypes, Disp!Nobody
<1>6. Disp!HandlerOfOneSession'
  BY <1>4, <1>5 DEF DispatchInv, Disp!HandlerOfOneSession
<1>7. QED
  BY <1>2, <1>3, <1>6 DEF DispatchInv

LEMMA BindKeeps ==
    ASSUME DispatchInv, NEW s \in Sessions, NEW m \in Messages, Disp!BindMessage(s, m)
    PROVE  DispatchInv'
<1> DEFINE n == Len(bindings) + 1
           e == [handling[s] EXCEPT !.binding = n]
<1>1. /\ n \in Nat /\ n > 0 /\ Len(bindings') = n /\ 1..Len(bindings') = 1..Len(bindings) \union {n}
      /\ e \in Entry /\ e.handler = handling[s].handler /\ e.binding = n
  <2>1. handling[s] \in Entry /\ Len(bindings) \in Nat
    BY DEF DispatchInv, DispatchTypes
  <2>2. e = [handler |-> handling[s].handler, binding |-> n]
    BY <2>1 DEF Entry
  <2>3. Len(bindings') = n
    BY DEF DispatchInv, DispatchTypes, Disp!BindMessage
  <2>4. QED
    BY <2>1, <2>2, <2>3 DEF Entry
<1>2. /\ mapHandler_' = [mapHandler_ EXCEPT ![s][m] = e]
      /\ UNCHANGED <<handling, client, answered, left>>
      /\ bindings' = Append(bindings, [session |-> s, client |-> client[s], message |-> m])
  BY <1>1 DEF Disp!BindMessage, DispatchInv, DispatchTypes
<1>3. DispatchTypes'
  BY <1>1, <1>2 DEF DispatchInv, DispatchTypes
<1>4. /\ \A b \in 1..Len(bindings) : bindings'[b] = bindings[b]
      /\ bindings'[n] = [session |-> s, client |-> client[s], message |-> m]
  BY <1>1, <1>2 DEF DispatchInv, DispatchTypes
<1>5. FoundIsBound'
  BY <1>1, <1>2 DEF DispatchInv, FoundIsBound
<1>6. Disp!BoundOnceFoundOnce'
  <2>1. DOMAIN answered = 1..Len(answered)
    BY DEF DispatchInv, DispatchTypes
  <2>3. \A i \in DOMAIN answered : answered[i].binding \in 1..Len(bindings)
    BY <2>1 DEF DispatchInv, FoundIsBound
  <2>4. \A i \in DOMAIN answered : bindings'[answered[i].binding] = bindings[answered[i].binding]
    BY <1>4, <2>3
  <2>2. QED
    BY <1>2, <2>4 DEF DispatchInv, Disp!BoundOnceFoundOnce
<1>7. WaitsWhereBound'
  <2> SUFFICES ASSUME NEW t \in Sessions, NEW k \in Messages,
                      mapHandler_'[t][k] # Disp!Nobody
               PROVE  LET b == mapHandler_'[t][k].binding IN
                        /\ b \in 1..Len(bindings')
                        /\ bindings'[b].session = t /\ bindings'[b].message = k
                        /\ t \in left' \/ bindings'[b].client = client'[t]
                        /\ \A i \in 1..Len(answered') :
                             answered'[i].session = t /\ answered'[i].message = k => answered'[i].binding < b
    BY DEF WaitsWhereBound
  <2>1. CASE t = s /\ k = m
    <3>1. mapHandler_'[t][k] = e
      BY <1>2, <2>1 DEF DispatchInv, DispatchTypes
    <3>2. \A i \in 1..Len(answered) : answered[i].binding < n
      BY <1>1 DEF DispatchInv, FoundIsBound, DispatchTypes
    <3>3. bindings'[n].session = t /\ bindings'[n].message = k /\ bindings'[n].client = client[t]
      BY <1>4, <2>1
    <3>4. n \in 1..Len(bindings') /\ mapHandler_'[t][k].binding = n
      BY <1>1, <3>1
    <3>5. client' = client /\ answered' = answered
      BY <1>2
    <3>6. QED
      BY <3>2, <3>3, <3>4, <3>5
  <2>2. CASE t # s \/ k # m
    <3>1. mapHandler_'[t][k] = mapHandler_[t][k]
      BY <1>2, <2>2 DEF DispatchInv, DispatchTypes
    <3>2. QED
      <4> DEFINE b == mapHandler_[t][k].binding
      <4>1. /\ b \in 1..Len(bindings) /\ bindings[b].session = t /\ bindings[b].message = k
            /\ t \in left \/ bindings[b].client = client[t]
            /\ \A i \in 1..Len(answered) :
                 answered[i].session = t /\ answered[i].message = k => answered[i].binding < b
        BY <3>1 DEF DispatchInv, WaitsWhereBound
      <4>2. bindings'[b] = bindings[b] /\ b \in 1..Len(bindings')
        BY <1>1, <1>4, <4>1
      <4>3. QED
        BY <1>2, <3>1, <4>1, <4>2
  <2>3. QED
    BY <2>1, <2>2
<1>8. \A t \in Sessions \ {s} : Disp!Holds(t)' = Disp!Holds(t)
  BY <1>1, <1>2, HoldsStay DEF DispatchInv
<1>9. Disp!Holds(s)' \subseteq Disp!Holds(s)
  BY <1>1, <1>2 DEF Disp!Holds, DispatchInv, DispatchTypes
<1>10. Disp!HandlerOfOneSession'
  BY <1>8, <1>9 DEF DispatchInv, Disp!HandlerOfOneSession
<1>11. QED
  BY <1>3, <1>5, <1>6, <1>7, <1>10 DEF DispatchInv

LEMMA FindKeepsInv ==
    ASSUME DispatchInv, NEW s \in Sessions, NEW m \in Messages, Disp!Find(s, m),
           UNCHANGED <<client, bindings, left>>
    PROVE  DispatchInv'
<1> DEFINE e == mapHandler_[s][m]
           a == [session |-> s, client |-> client[s], message |-> m, binding |-> e.binding]
           n == Len(answered) + 1
<1>1. Disp!Nobody \in Entry /\ e \in Entry /\ e # Disp!Nobody
  BY DEF DispatchInv, DispatchTypes, Disp!Find, Disp!Nobody, Entry
<1>2. /\ handling' = [handling EXCEPT ![s] = e]
      /\ mapHandler_' = [mapHandler_ EXCEPT ![s][m] = Disp!Nobody]
      /\ answered' = Append(answered, a)
  BY DEF Disp!Find
<1>3. DispatchTypes'
  BY <1>1, <1>2 DEF DispatchInv, DispatchTypes, Entry
<1>4. /\ Len(answered') = n /\ n \in Nat
      /\ \A i \in 1..Len(answered) : answered'[i] = answered[i]
      /\ answered'[n] = a
  BY <1>1, <1>2 DEF DispatchInv, DispatchTypes
<1>5. /\ e.binding \in 1..Len(bindings)
      /\ bindings[e.binding].session = s /\ bindings[e.binding].message = m
      /\ s \in left \/ bindings[e.binding].client = client[s]
      /\ \A i \in 1..Len(answered) :
           answered[i].session = s /\ answered[i].message = m => answered[i].binding < e.binding
  BY <1>1 DEF DispatchInv, WaitsWhereBound
<1>6. FoundIsBound'
  BY <1>4, <1>5 DEF DispatchInv, FoundIsBound
<1>7. Disp!BoundOnceFoundOnce'
  <2> SUFFICES ASSUME NEW i \in 1..n
               PROVE  LET x == answered'[i] IN
                        /\ x.session = bindings[x.binding].session
                        /\ x.message = bindings[x.binding].message
                        /\ x.session \in left \/ x.client = bindings[x.binding].client
                        /\ \A j \in 1..(i - 1) :
                             answered'[j].session = x.session /\ answered'[j].message = x.message
                               => answered'[j].binding < x.binding
    BY <1>3, <1>4 DEF Disp!BoundOnceFoundOnce, DispatchTypes
  <2>1. CASE i = n
    <3>1. \A j \in 1..(i - 1) : j \in 1..Len(answered) /\ answered'[j] = answered[j]
      BY <1>4, <2>1 DEF DispatchInv, DispatchTypes
    <3>2. /\ answered'[i].session = s /\ answered'[i].message = m /\ answered'[i].client = client[s]
          /\ answered'[i].binding = e.binding
      BY <1>4, <2>1
    <3>3. QED
      BY <1>5, <3>1, <3>2
  <2>2. CASE i \in 1..Len(answered)
    <3>1. \A j \in 1..(i - 1) : j \in 1..Len(answered)
      BY <2>2 DEF DispatchInv, DispatchTypes
    <3>2. QED
      <4>1. i \in DOMAIN answered /\ answered'[i] = answered[i]
        BY <1>4, <2>2 DEF DispatchInv, DispatchTypes
      <4>2. \A j \in 1..(i - 1) : answered'[j] = answered[j]
        BY <1>4, <3>1
      <4>3. QED
        BY <4>1, <4>2 DEF DispatchInv, Disp!BoundOnceFoundOnce
  <2>3. QED
    BY <1>4, <2>1, <2>2 DEF DispatchInv, DispatchTypes
<1>8. WaitsWhereBound'
  <2> SUFFICES ASSUME NEW t \in Sessions, NEW k \in Messages,
                      mapHandler_'[t][k] # Disp!Nobody
               PROVE  LET b == mapHandler_'[t][k].binding IN
                        /\ b \in 1..Len(bindings')
                        /\ bindings'[b].session = t /\ bindings'[b].message = k
                        /\ t \in left' \/ bindings'[b].client = client'[t]
                        /\ \A i \in 1..Len(answered') :
                             answered'[i].session = t /\ answered'[i].message = k => answered'[i].binding < b
    BY DEF WaitsWhereBound
  <2>1. t # s \/ k # m
    BY <1>2 DEF DispatchInv, DispatchTypes
  <2>2. mapHandler_'[t][k] = mapHandler_[t][k]
    BY <1>2, <2>1 DEF DispatchInv, DispatchTypes
  <2>3. \A i \in 1..Len(answered') :
          answered'[i].session = t /\ answered'[i].message = k => i \in 1..Len(answered) /\ answered'[i] = answered[i]
    BY <1>4, <2>1
  <2>4. QED
    BY <2>2, <2>3 DEF DispatchInv, WaitsWhereBound
<1>9. \A t \in Sessions \ {s} : Disp!Holds(t)' = Disp!Holds(t)
  BY <1>1, <1>2, HoldsStay DEF DispatchInv
<1>10. Disp!Holds(s)' \subseteq Disp!Holds(s)
  BY <1>1, <1>2, DispatchAssumption DEF Disp!Holds, DispatchInv, DispatchTypes, Disp!Nobody
<1>11. Disp!HandlerOfOneSession'
  BY <1>9, <1>10 DEF DispatchInv, Disp!HandlerOfOneSession
<1>12. QED
  BY <1>3, <1>6, <1>7, <1>8, <1>11 DEF DispatchInv

LEMMA RecvKeeps ==
    ASSUME DispatchInv, NEW s \in Sessions, NEW m \in Messages, Disp!OnRecvMsg(s, m)
    PROVE  DispatchInv'
<1>1. CASE Disp!Find(s, m)
  BY <1>1, FindKeepsInv DEF Disp!OnRecvMsg
<1>2. CASE (Disp!Create(s) \/ Disp!Static(s, m)) /\ UNCHANGED <<mapHandler_, answered>>
  <2>1. PICK e \in Entry : /\ handling' = [handling EXCEPT ![s] = e]
                           /\ e.handler \in 1..HandlerCapacity => e.handler \notin Disp!InUse
    <3>1. CASE Disp!Create(s)
      <4>1. PICK h \in (1..HandlerCapacity) \ Disp!InUse :
                    handling' = [handling EXCEPT ![s] = [handler |-> h, binding |-> 0]]
        BY <3>1 DEF Disp!Create
      <4>2. [handler |-> h, binding |-> 0] \in Entry
        BY DispatchAssumption DEF Entry
      <4>3. QED
        <5>1. [handler |-> h, binding |-> 0].handler = h /\ h \notin Disp!InUse
          BY <4>1
        <5>2. QED
          BY <4>1, <4>2, <5>1
    <3>2. CASE Disp!Static(s, m)
      <4>1. HandlerCapacity + m \in Nat /\ HandlerCapacity + m > HandlerCapacity
        BY DispatchAssumption
      <4>2. [handler |-> HandlerCapacity + m, binding |-> 0] \in Entry
        BY <4>1 DEF Entry
      <4>3. [handler |-> HandlerCapacity + m, binding |-> 0].handler \notin 1..HandlerCapacity
        BY <4>1, DispatchAssumption
      <4>4. QED
        BY <3>2, <4>2, <4>3 DEF Disp!Static
    <3>3. QED
      BY <1>2, <3>1, <3>2
  <2>2. UNCHANGED <<mapHandler_, answered, client, bindings, left>>
    BY <1>2 DEF Disp!OnRecvMsg
  <2>3. DispatchTypes'
    BY <2>1, <2>2 DEF DispatchInv, DispatchTypes
  <2>4. WaitsWhereBound' /\ FoundIsBound' /\ Disp!BoundOnceFoundOnce'
    BY <2>2 DEF DispatchInv, WaitsWhereBound, FoundIsBound, Disp!BoundOnceFoundOnce
  <2>5. \A t \in Sessions \ {s} : Disp!Holds(t)' = Disp!Holds(t)
    BY <2>1, <2>2, HoldsStay DEF DispatchInv
  <2>6. Disp!Holds(s)' \subseteq Disp!Holds(s) \union ({e.handler} \intersect 1..HandlerCapacity)
    BY <2>1, <2>2 DEF Disp!Holds, DispatchInv, DispatchTypes
  <2>7. Disp!HandlerOfOneSession'
    BY <2>1, <2>5, <2>6 DEF DispatchInv, Disp!HandlerOfOneSession, Disp!InUse
  <2>8. QED
    BY <2>3, <2>4, <2>7 DEF DispatchInv
<1>3. QED
  BY <1>1, <1>2 DEF Disp!OnRecvMsg

LEMMA AcceptKeeps ==
    ASSUME DispatchInv, NEW s \in Sessions, Disp!Accept(s)
    PROVE  DispatchInv'
<1>1. DispatchTypes'
  BY DEF DispatchInv, DispatchTypes, Disp!Accept
<1>2. FoundIsBound' /\ Disp!HandlerOfOneSession'
  BY DEF DispatchInv, FoundIsBound, Disp!HandlerOfOneSession, Disp!Holds, Disp!Accept
<1>3. Disp!BoundOnceFoundOnce'
  BY DEF DispatchInv, Disp!BoundOnceFoundOnce, Disp!Accept
<1>4. WaitsWhereBound'
  <2>1. \A t \in Sessions, m \in Messages :
          mapHandler_[t][m] # Disp!Nobody => t \in left' \/ client'[t] = client[t]
    BY DEF DispatchInv, DispatchTypes, Disp!Accept
  <2>2. UNCHANGED <<mapHandler_, bindings, answered>> /\ left \subseteq left'
    BY DEF Disp!Accept
  <2>3. QED
    BY <2>1, <2>2 DEF DispatchInv, WaitsWhereBound
<1>5. QED
  BY <1>1, <1>2, <1>3, <1>4 DEF DispatchInv

LEMMA DispatchKeeps == DispatchInv /\ [Disp!DispatchNext]_(Disp!dispatchVars) => DispatchInv'
<1> SUFFICES ASSUME DispatchInv, [Disp!DispatchNext]_(Disp!dispatchVars) PROVE DispatchInv'
  OBVIOUS
<1>1. ASSUME UNCHANGED <<mapHandler_, handling, client, bindings, answered, left>>
      PROVE  DispatchInv'
  <2>1. DispatchTypes' /\ FoundIsBound' /\ WaitsWhereBound'
    BY <1>1 DEF DispatchInv, DispatchTypes, WaitsWhereBound, FoundIsBound, Disp!Nobody
  <2>2. Disp!BoundOnceFoundOnce'
    BY <1>1 DEF DispatchInv, Disp!BoundOnceFoundOnce
  <2>3. \A s \in Sessions : Disp!Holds(s)' = Disp!Holds(s)
    BY <1>1 DEF Disp!Holds
  <2>4. Disp!HandlerOfOneSession'
    BY <2>3 DEF DispatchInv, Disp!HandlerOfOneSession
  <2>5. QED
    BY <2>1, <2>2, <2>4 DEF DispatchInv
<1>2. ASSUME NEW m \in Messages, NEW f \in {"create", "static", "find"}, Disp!RegisterHandler(m, f)
      PROVE  DispatchInv'
  BY <1>1, <1>2 DEF Disp!RegisterHandler
<1>3. QED
  BY <1>1, <1>2, AcceptKeeps, ReturnKeeps, RecvKeeps, BindKeeps DEF Disp!DispatchNext, Disp!dispatchVars

LEMMA DispatchBegins == Disp!DispatchInit => DispatchInv
<1> SUFFICES ASSUME Disp!DispatchInit PROVE DispatchInv
  OBVIOUS
<1>1. Disp!Nobody \in Entry
  BY DEF Disp!Nobody, Entry
<1>2. DispatchTypes
  BY <1>1 DEF Disp!DispatchInit, DispatchTypes
<1>3. WaitsWhereBound /\ FoundIsBound /\ Disp!BoundOnceFoundOnce
  BY DEF Disp!DispatchInit, WaitsWhereBound, FoundIsBound, Disp!BoundOnceFoundOnce
<1>4. Disp!HandlerOfOneSession
  BY DispatchAssumption DEF Disp!DispatchInit, Disp!HandlerOfOneSession, Disp!Holds, Disp!Nobody
<1>5. QED
  BY <1>2, <1>3, <1>4 DEF DispatchInv

\* Pool.h:114, HandlerFactory.h:66: objects are where their pool says, and a
\* message is handled by the object that is for it, with any capacities,
\* messages and sessions.
THEOREM ObjectsStayInPlace == Pooling!PoolSpec /\ Disp!DispatchSpec => []ObjectsInPlace
<1>1. ObjectsInv /\ DispatchInv => ObjectsInPlace
  BY PoolAccountsHolds DEF DispatchInv, ObjectsInPlace
<1>2. QED
  BY <1>1, ObjectsBegin, ObjectsKeep, DispatchBegins, DispatchKeeps, PTL DEF Pooling!PoolSpec, Disp!DispatchSpec

-----------------------------------------------------------------------------
(* The load test. *)

LoadTypes ==
  /\ timer \in {"armed", "looping", "off"}
  /\ load_i \in Nat /\ execute_count \in Nat /\ tasks \in Nat
  /\ load_state \in [LoadSessions -> {"idle", "connecting", "connected", "finished", "failed", "closed"}]
  /\ test_seq \in [LoadSessions -> Nat] /\ load_sent \in [LoadSessions -> Nat]
  /\ load_answered \in [LoadSessions -> Nat] /\ noticed \in [LoadSessions -> Nat]
  /\ counted \in [1..Tests -> Nat]

\* A session that is not connected yet has done nothing; one that is has a test left.
TestsInTurn ==
  \A s \in LoadSessions :
    /\ load_state[s] \in {"idle", "connecting"} =>
         test_seq[s] = 0 /\ load_sent[s] = 0 /\ load_answered[s] = 0 /\ noticed[s] = 0
    /\ load_state[s] = "connected" => test_seq[s] < Tests

\* While a timer or its loop may start a session, not enough were started.
RoomToStart ==
  timer = "armed" \/ (timer = "looping" /\ load_i < session_count) => execute_count < loop_count

LoadInv ==
  /\ LoadTypes /\ TestsInTurn /\ RoomToStart
  /\ Load!OneAhead /\ Load!StartsBounded /\ Load!CountsAgree

LEMMA LoadCardinality == \A S : Load!Cardinality(S) = Cardinality(S)
BY DEF Load!Cardinality, Cardinality

LEMMA InUseIsNat == Load!InUse \in Nat
BY LoadAssumption, LoadCardinality, FS_Subset, FS_CardinalityType DEF Load!InUse

\* Sending the next test of a session keeps the counts.
LEMMA SendCounts ==
    ASSUME LoadTypes, Load!CountsAgree, NEW s \in LoadSessions, NEW seq \in 0..(Tests - 1),
           load_sent[s] = seq, Load!SendTest(s, seq)
    PROVE  Load!CountsAgree' /\ load_sent' \in [LoadSessions -> Nat] /\ counted' \in [1..Tests -> Nat]
<1>1. Tests \in Nat /\ seq \in Nat /\ seq + 1 \in 1..Tests
  BY LoadAssumption
<1>2. /\ load_sent' = [load_sent EXCEPT ![s] = seq + 1]
      /\ counted' = [counted EXCEPT ![seq + 1] = counted[seq + 1] + 1]
  BY DEF Load!SendTest
<1>3. /\ load_sent' \in [LoadSessions -> Nat] /\ counted' \in [1..Tests -> Nat]
      /\ load_sent'[s] = seq + 1 /\ \A t \in LoadSessions \ {s} : load_sent'[t] = load_sent[t]
      /\ \A t \in LoadSessions : load_sent[t] \in Nat
  <2>1. load_sent \in [LoadSessions -> Nat] /\ counted \in [1..Tests -> Nat]
    BY DEF LoadTypes
  <2>2. load_sent' \in [LoadSessions -> Nat]
    BY <1>1, <1>2, <2>1
  <2>3. counted' \in [1..Tests -> Nat]
    BY <1>1, <1>2, <2>1
  <2>4. QED
    BY <1>2, <2>1, <2>2, <2>3
<1>4. ASSUME NEW n \in 1..Tests
      PROVE  counted'[n] = Cardinality({t \in LoadSessions : load_sent'[t] >= n})
  <2> DEFINE before == {t \in LoadSessions : load_sent[t] >= n}
             after == {t \in LoadSessions : load_sent'[t] >= n}
  <2>1. counted[n] = Cardinality(before) /\ IsFiniteSet(before)
    BY LoadAssumption, LoadCardinality, FS_Subset DEF Load!CountsAgree
  <2>2. CASE n = seq + 1
    <3>1. after = before \union {s} /\ s \notin before
      BY <1>1, <1>3, <2>2
    <3>2. Cardinality(after) = Cardinality(before) + 1
      BY <2>1, <3>1, FS_AddElement
    <3>3. counted'[n] = counted[n] + 1
      BY <1>1, <1>2, <2>2 DEF LoadTypes
    <3>4. QED
      BY <2>1, <3>2, <3>3
  <2>3. CASE n # seq + 1
    <3>1. after = before
      BY <1>1, <1>3, <2>3
    <3>2. counted'[n] = counted[n]
      BY <1>1, <1>2, <2>3 DEF LoadTypes
    <3>3. QED
      BY <2>1, <3>1, <3>2
  <2>4. QED
    BY <2>2, <2>3
<1>5. QED
  BY <1>3, <1>4, LoadCardinality DEF Load!CountsAgree

LEMMA LoadBegins == Load!Init => LoadInv
<1> SUFFICES ASSUME Load!Init PROVE LoadInv
  OBVIOUS
<1>1. {s \in LoadSessions : load_state[s] # "idle"} = {}
  BY DEF Load!Init
<1>2. \A n \in 1..Tests : {s \in LoadSessions : load_sent[s] >= n} = {}
  BY LoadAssumption DEF Load!Init
<1>3. Load!StartsBounded
  BY <1>1, FS_EmptySet, LoadAssumption, LoadCardinality DEF Load!StartsBounded, Load!InUse, Load!Init
<1>4. Load!CountsAgree
  BY <1>2, FS_EmptySet, LoadCardinality DEF Load!CountsAgree, Load!Init
<1>5. QED
  BY <1>3, <1>4, LoadAssumption
     DEF LoadInv, LoadTypes, TestsInTurn, RoomToStart, Load!OneAhead, Load!Init

\* The steps of the timers leave the sessions alone.
LEMMA TimersKeep ==
    ASSUME LoadInv, Load!Expire \/ Load!Post \/ Load!Report
    PROVE  LoadInv'
<1>1. UNCHANGED <<load_state, test_seq, load_sent, load_answered, noticed, counted>>
  BY DEF Load!Expire, Load!Post, Load!Report
<1>2. TestsInTurn' /\ Load!OneAhead' /\ Load!CountsAgree' /\ Load!InUse' = Load!InUse
  BY <1>1 DEF LoadInv, TestsInTurn, Load!OneAhead, Load!CountsAgree, Load!InUse
<1>3. LoadTypes' /\ RoomToStart' /\ Load!StartsBounded'
  <2>1. CASE Load!Expire
    BY <2>1, <1>1, <1>2 DEF LoadInv, LoadTypes, RoomToStart, Load!StartsBounded, Load!Expire
  <2>2. CASE Load!Report
    BY <2>2, <1>1, <1>2 DEF LoadInv, LoadTypes, RoomToStart, Load!StartsBounded, Load!Report
  <2>3. CASE Load!Post
    <3>1. /\ load_i \in Nat /\ execute_count \in Nat /\ tasks \in Nat /\ Load!InUse \in Nat
          /\ session_count \in Nat /\ loop_count \in Nat /\ timer = "looping"
          /\ execute_count <= loop_count /\ Load!InUse + tasks <= execute_count
          /\ load_i < session_count => execute_count < loop_count
      BY <2>3, InUseIsNat, LoadAssumption DEF LoadInv, LoadTypes, RoomToStart, Load!StartsBounded, Load!Post
    <3>2. CASE load_i < session_count /\ Load!InUse < session_count
      <4>1. /\ tasks' = tasks + 1 /\ execute_count' = execute_count + 1 /\ timer' = timer
            /\ load_i' = IF execute_count' >= loop_count THEN session_count ELSE load_i + 1
        BY <2>3, <3>2 DEF Load!Post
      <4>2. /\ timer' = "looping" /\ load_i' \in Nat /\ execute_count' \in Nat /\ tasks' \in Nat
            /\ execute_count' <= loop_count
            /\ load_i' < session_count => execute_count' < loop_count
        <5>1. execute_count < loop_count /\ execute_count' \in Nat /\ tasks' \in Nat /\ timer' = "looping"
          BY <3>1, <3>2, <4>1
        <5>2. execute_count' <= loop_count
          BY <3>1, <4>1, <5>1
        <5>3. CASE execute_count' >= loop_count
          BY <3>1, <4>1, <5>1, <5>2, <5>3
        <5>4. CASE execute_count' < loop_count
          BY <3>1, <4>1, <5>1, <5>2, <5>4
        <5>5. QED
          BY <3>1, <5>1, <5>3, <5>4
      <4>3. LoadTypes'
        BY <1>1, <4>2 DEF LoadInv, LoadTypes
      <4>4. Load!InUse' + tasks' <= execute_count'
        <5> DEFINE used == Load!InUse
        <5>1. Load!InUse' = used /\ used \in Nat /\ used + tasks <= execute_count
          BY <1>2, <3>1
        <5> HIDE DEF used
        <5>2. used + (tasks + 1) <= execute_count + 1
          BY <3>1, <5>1
        <5>3. QED
          BY <4>1, <5>1, <5>2
      <4>5. RoomToStart' /\ Load!StartsBounded'
        BY <4>2, <4>4 DEF RoomToStart, Load!StartsBounded
      <4>6. QED
        BY <4>3, <4>5
    <3>3. CASE ~(load_i < session_count /\ Load!InUse < session_count)
      <4>1. /\ timer' = (IF execute_count < loop_count THEN "armed" ELSE "off")
            /\ UNCHANGED <<tasks, execute_count, load_i>>
        BY <2>3, <3>3 DEF Load!Post
      <4>2. LoadTypes'
        BY <1>1, <4>1 DEF LoadInv, LoadTypes
      <4>3. RoomToStart' /\ Load!StartsBounded'
        BY <1>2, <3>1, <4>1 DEF RoomToStart, Load!StartsBounded
      <4>4. QED
        BY <4>2, <4>3
    <3>4. QED
      BY <3>2, <3>3
  <2>4. QED
    BY <2>1, <2>2, <2>3
<1>4. QED
  BY <1>2, <1>3 DEF LoadInv

LEMMA TaskKeeps ==
    ASSUME LoadInv, Load!RunTask
    PROVE  LoadInv'
<1>1. /\ UNCHANGED <<timer, load_i, execute_count, load_sent, load_answered, noticed, counted>>
      /\ tasks \in Nat \ {0} /\ tasks' = tasks - 1
  <2>1. tasks \in Nat
    BY DEF LoadInv, LoadTypes
  <2>2. UNCHANGED <<timer, load_i, execute_count, load_sent, load_answered, noticed, counted>>
    BY DEF Load!RunTask, Load!loopVars
  <2>3. tasks > 0 /\ tasks' = tasks - 1
    BY DEF Load!RunTask
  <2>4. QED
    BY <2>1, <2>2, <2>3
<1>2. RoomToStart' /\ Load!CountsAgree'
  BY <1>1 DEF LoadInv, RoomToStart, Load!CountsAgree
<1>3. CASE UNCHANGED <<load_state, test_seq>>
  <2>1. Load!InUse' = Load!InUse
    BY <1>3 DEF Load!InUse
  <2>2. LoadTypes'
    <3>1. tasks' \in Nat
      BY <1>1
    <3>2. QED
      BY <1>1, <1>3, <3>1 DEF LoadInv, LoadTypes
  <2>3. TestsInTurn' /\ Load!OneAhead'
    BY <1>1, <1>3 DEF LoadInv, TestsInTurn, Load!OneAhead
  <2>4. execute_count \in Nat /\ loop_count \in Nat
    BY LoadAssumption DEF LoadInv, LoadTypes
  <2>5. Load!StartsBounded'
    BY <1>1, <2>1, <2>4, InUseIsNat DEF LoadInv, Load!StartsBounded
  <2>6. QED
    BY <1>2, <2>2, <2>3, <2>5 DEF LoadInv
<1>4. ASSUME NEW s \in LoadSessions, load_state[s] = "idle",
             load_state' = [load_state EXCEPT ![s] = "connecting"],
             test_seq' = [test_seq EXCEPT ![s] = 0]
      PROVE  LoadInv'
  <2> DEFINE before == {t \in LoadSessions : load_state[t] # "idle"}
             after == {t \in LoadSessions : load_state'[t] # "idle"}
  <2>1. after = before \union {s} /\ s \notin before
    BY <1>4 DEF LoadInv, LoadTypes
  <2>2. IsFiniteSet(before)
    BY LoadAssumption, FS_Subset
  <2>3. Cardinality(after) = Cardinality(before) + 1
    BY <2>1, <2>2, FS_AddElement
  <2>4. Load!InUse' = Load!InUse + 1
    BY <2>3, LoadCardinality DEF Load!InUse
  <2>5. execute_count \in Nat
    BY DEF LoadInv, LoadTypes
  <2>6. Load!StartsBounded'
    BY <1>1, <2>4, <2>5, InUseIsNat DEF LoadInv, Load!StartsBounded
  <2>7. LoadTypes'
    <3>1. tasks' \in Nat
      BY <1>1
    <3>2. QED
      BY <1>1, <1>4, <3>1 DEF LoadInv, LoadTypes
  <2>8. /\ \A t \in LoadSessions \ {s} : load_state'[t] = load_state[t] /\ test_seq'[t] = test_seq[t]
        /\ load_state'[s] = "connecting" /\ test_seq'[s] = 0
    BY <1>4 DEF LoadInv, LoadTypes
  <2>9. TestsInTurn'
    BY <1>1, <1>4, <2>8 DEF LoadInv, TestsInTurn
  <2>10. Load!OneAhead'
    BY <1>1, <1>4, <2>8 DEF LoadInv, Load!OneAhead
  <2>11. QED
    BY <1>2, <2>6, <2>7, <2>9, <2>10 DEF LoadInv
<1>5. QED
  BY <1>3, <1>4 DEF Load!RunTask

\* What the steps of a session have in common.
LEMMA SessionKeeps ==
    ASSUME LoadInv, NEW s \in LoadSessions,
           load_state[s] # "idle",
           load_state' = load_state
             \/ \E c \in {"connected", "finished", "failed", "closed"} : load_state' = [load_state EXCEPT ![s] = c],
           UNCHANGED <<timer, load_i, execute_count, tasks>>
    PROVE  RoomToStart' /\ Load!StartsBounded'
<1>1. {t \in LoadSessions : load_state'[t] # "idle"} = {t \in LoadSessions : load_state[t] # "idle"}
  BY DEF LoadInv, LoadTypes
<1>2. Load!InUse' = Load!InUse
  BY <1>1 DEF Load!InUse
<1>3. QED
  BY <1>2 DEF LoadInv, RoomToStart, Load!StartsBounded

LEMMA ConnectKeeps ==
    ASSUME LoadInv, NEW s \in LoadSessions, Load!OnConnect(s)
    PROVE  LoadInv'
<1>1. /\ load_state[s] = "connecting" /\ load_state' = [load_state EXCEPT ![s] = "connected"]
      /\ UNCHANGED <<timer, load_i, execute_count, tasks, test_seq, load_answered, noticed>>
      /\ test_seq[s] = 0 /\ load_sent[s] = 0 /\ load_answered[s] = 0 /\ noticed[s] = 0
      /\ load_sent' = [load_sent EXCEPT ![s] = load_sent[s] + 1]
  BY DEF Load!OnConnect, Load!loopVars, Load!SendTest, LoadInv, TestsInTurn
<1>2. Load!CountsAgree' /\ load_sent' \in [LoadSessions -> Nat] /\ counted' \in [1..Tests -> Nat]
  BY <1>1, SendCounts, LoadAssumption DEF LoadInv, Load!OnConnect
<1>3. RoomToStart' /\ Load!StartsBounded'
  BY <1>1, SessionKeeps
<1>4. LoadTypes'
  BY <1>1, <1>2 DEF LoadInv, LoadTypes
<1>5. /\ \A t \in LoadSessions \ {s} : load_state'[t] = load_state[t] /\ load_sent'[t] = load_sent[t]
      /\ load_state'[s] = "connected" /\ load_sent'[s] = 1
  <2>1. DOMAIN load_state = LoadSessions /\ DOMAIN load_sent = LoadSessions
    BY DEF LoadInv, LoadTypes
  <2>2. QED
    BY <1>1, <2>1
<1>6. TestsInTurn'
  BY <1>1, <1>5, LoadAssumption DEF LoadInv, TestsInTurn
<1>7. Load!OneAhead'
  BY <1>1, <1>5 DEF LoadInv, Load!OneAhead
<1>8. QED
  BY <1>2, <1>3, <1>4, <1>6, <1>7 DEF LoadInv

LEMMA RecvMsgKeeps ==
    ASSUME LoadInv, NEW s \in LoadSessions, Load!OnRecvMsg(s)
    PROVE  LoadInv'
<1> DEFINE next == test_seq[s] + 1
<1>1. /\ load_state[s] = "connected"
      /\ UNCHANGED <<timer, load_i, execute_count, tasks>>
      /\ test_seq[s] \in Nat /\ test_seq[s] < Tests /\ load_sent[s] = next
      /\ load_sent[s] = load_answered[s] + noticed[s] + 1
      /\ test_seq' = [test_seq EXCEPT ![s] = next] /\ test_seq'[s] = next
  BY DEF Load!OnRecvMsg, Load!loopVars, LoadInv, LoadTypes, TestsInTurn, Load!OneAhead
<1>2. /\ load_answered' \in [LoadSessions -> Nat] /\ noticed' \in [LoadSessions -> Nat]
      /\ load_answered'[s] + noticed'[s] = load_answered[s] + noticed[s] + 1
      /\ \A t \in LoadSessions \ {s} : load_answered'[t] = load_answered[t] /\ noticed'[t] = noticed[t]
  <2>1. load_answered \in [LoadSessions -> Nat] /\ noticed \in [LoadSessions -> Nat]
    BY DEF LoadInv, LoadTypes
  <2>2. CASE load_answered' = [load_answered EXCEPT ![s] = @ + 1] /\ UNCHANGED noticed
    BY <2>1, <2>2
  <2>3. CASE noticed' = [noticed EXCEPT ![s] = @ + 1] /\ UNCHANGED load_answered
    BY <2>1, <2>3
  <2>4. QED
    BY <2>2, <2>3 DEF Load!OnRecvMsg
<1>3. CASE next >= Tests
  <2>1. load_state' = [load_state EXCEPT ![s] = "finished"] /\ UNCHANGED <<load_sent, counted>>
    BY <1>1, <1>3 DEF Load!OnRecvMsg
  <2>2. RoomToStart' /\ Load!StartsBounded'
    BY <1>1, <2>1, SessionKeeps
  <2>3. Load!CountsAgree' /\ LoadTypes'
    BY <1>1, <1>2, <2>1 DEF LoadInv, LoadTypes, Load!CountsAgree
  <2>4. /\ \A t \in LoadSessions \ {s} : load_state'[t] = load_state[t] /\ test_seq'[t] = test_seq[t]
        /\ load_state'[s] = "finished" /\ Tests \in Nat /\ next = Tests
        /\ load_answered[s] \in Nat /\ noticed[s] \in Nat
    <3>1. /\ DOMAIN load_state = LoadSessions /\ DOMAIN test_seq = LoadSessions
          /\ load_answered[s] \in Nat /\ noticed[s] \in Nat
      BY DEF LoadInv, LoadTypes
    <3>2. Tests \in Nat /\ next = Tests
      BY <1>1, <1>3, LoadAssumption
    <3>3. QED
      BY <1>1, <2>1, <3>1, <3>2
  <2>5. TestsInTurn'
    BY <1>2, <2>1, <2>4 DEF LoadInv, TestsInTurn
  <2>6. Load!OneAhead'
    BY <1>1, <1>2, <2>1, <2>4 DEF LoadInv, Load!OneAhead
  <2>7. QED
    BY <2>2, <2>3, <2>5, <2>6 DEF LoadInv
<1>4. CASE ~(next >= Tests)
  <2>1. /\ load_state' = load_state /\ Load!SendTest(s, next) /\ next \in 0..(Tests - 1)
        /\ load_sent' = [load_sent EXCEPT ![s] = load_sent[s] + 1]
    BY <1>1, <1>4, LoadAssumption DEF Load!OnRecvMsg, Load!SendTest
  <2>2. Load!CountsAgree' /\ load_sent' \in [LoadSessions -> Nat] /\ counted' \in [1..Tests -> Nat]
    BY <1>1, <2>1, SendCounts DEF LoadInv
  <2>3. RoomToStart' /\ Load!StartsBounded'
    BY <1>1, <2>1, SessionKeeps
  <2>4. LoadTypes'
    BY <1>1, <1>2, <2>1, <2>2 DEF LoadInv, LoadTypes
  <2>5. /\ \A t \in LoadSessions \ {s} : test_seq'[t] = test_seq[t] /\ load_sent'[t] = load_sent[t]
        /\ load_sent'[s] = next + 1 /\ load_answered[s] \in Nat /\ noticed[s] \in Nat
    BY <1>1, <2>1 DEF LoadInv, LoadTypes
  <2>6. TestsInTurn'
    BY <1>1, <1>2, <1>4, <2>1, <2>5, LoadAssumption DEF LoadInv, TestsInTurn
  <2>7. Load!OneAhead'
    BY <1>1, <1>2, <2>1, <2>5 DEF LoadInv, Load!OneAhead
  <2>8. QED
    BY <2>2, <2>3, <2>4, <2>6, <2>7 DEF LoadInv
<1>5. QED
  BY <1>3, <1>4

LEMMA OtherStepsKeep ==
    ASSUME LoadInv, NEW s \in LoadSessions,
           Load!OnClose(s) \/ Load!Fail(s) \/ Load!Answer(s) \/ Load!Notify(s)
    PROVE  LoadInv'
<1>1. /\ UNCHANGED <<timer, load_i, execute_count, tasks, test_seq, load_sent, load_answered, noticed, counted>>
      /\ load_state[s] # "idle"
      /\ load_state' = load_state \/ \E c \in {"failed", "closed"} : load_state' = [load_state EXCEPT ![s] = c]
  BY DEF Load!OnClose, Load!Fail, Load!Answer, Load!Notify, Load!loopVars
<1>2. RoomToStart' /\ Load!StartsBounded'
  BY <1>1, SessionKeeps
<1>3. LoadTypes' /\ TestsInTurn' /\ Load!OneAhead' /\ Load!CountsAgree'
  BY <1>1 DEF LoadInv, LoadTypes, TestsInTurn, Load!OneAhead, Load!CountsAgree
<1>4. QED
  BY <1>2, <1>3 DEF LoadInv

LEMMA LoadKeeps == LoadInv /\ [Load!Next]_(Load!testVars) => LoadInv'
<1> SUFFICES ASSUME LoadInv, [Load!Next]_(Load!testVars) PROVE LoadInv'
  OBVIOUS
<1>1. CASE UNCHANGED Load!testVars
  BY <1>1 DEF Load!testVars, LoadInv, LoadTypes, TestsInTurn, RoomToStart, Load!OneAhead,
              Load!StartsBounded, Load!InUse, Load!CountsAgree
<1>2. QED
  BY <1>1, TimersKeep, TaskKeeps, ConnectKeeps, RecvMsgKeeps, OtherStepsKeep DEF Load!Next, Load!Progress

\* Test/LinkManager.h:178: a session of the load test sends each test once, no
\* more are started than loop_count, and the report counts what was sent, for
\* any finite set of sessions, and any numbers of tests and loops.
THEOREM LoadCounts == Load!Init /\ [][Load!Next]_(Load!testVars) => []LoadIsCounted
<1>1. LoadInv => LoadIsCounted
  BY DEF LoadInv, LoadIsCounted
<1>2. QED
  BY <1>1, LoadBegins, LoadKeeps, PTL

-----------------------------------------------------------------------------
(* A log file. *)

LogTypes ==
  /\ slash \in BOOLEAN /\ now \in Nat \ {0}
  /\ when \in [LogThreads -> Nat]
  /\ today_ \in Int /\ filename_ \in [day : Int, second : Nat]
  /\ \A n \in DOMAIN files : files[n] \in Seq(Nat)
  /\ writes \in Nat /\ refused \in Nat /\ dropped \in Nat

\* The open file is of the day of the last line, and nothing opens in "dir/".
NamedByDay ==
  /\ today_ = -1 \/ filename_.day = today_
  /\ slash => DOMAIN files = {}

LogInv ==
  /\ LogTypes /\ NamedByDay /\ IsFiniteSet(Logs!Lines)
  /\ Logs!FileOfItsDay /\ Logs!Bounded /\ Logs!NothingLost

LEMMA LogCardinality == \A S : Logs!Cardinality(S) = Cardinality(S)
BY DEF Logs!Cardinality, Cardinality

LEMMA LogBegins == Logs!Init => LogInv
<1> SUFFICES ASSUME Logs!Init PROVE LogInv
  OBVIOUS
<1>1. DOMAIN files = {} /\ Logs!Lines = {} /\ Logs!Pending = {}
  BY DEF Logs!Init, Logs!Lines, Logs!Pending
<1>2. LogTypes
  BY <1>1, LogAssumption DEF LogTypes, Logs!Init, Logs!NoFile
<1>3. NamedByDay /\ Logs!FileOfItsDay /\ Logs!Bounded
  BY <1>1 DEF NamedByDay, Logs!FileOfItsDay, Logs!Bounded, Logs!Init
<1>4. Logs!NothingLost
  BY <1>1, LogCardinality, FS_EmptySet DEF Logs!NothingLost, Logs!Init
<1>5. QED
  BY <1>1, <1>2, <1>3, <1>4, FS_EmptySet DEF LogInv

\* The steps that write no line to a file.
LEMMA OthersKeepFiles ==
    ASSUME LogInv, UNCHANGED <<slash, today_, filename_, files>>
    PROVE  NamedByDay' /\ IsFiniteSet(Logs!Lines)' /\ Logs!Lines' = Logs!Lines /\ Logs!FileOfItsDay' /\ Logs!Bounded'
<1>1. Logs!Lines' = Logs!Lines
  BY DEF Logs!Lines
<1>2. NamedByDay' /\ Logs!FileOfItsDay' /\ Logs!Bounded'
  BY DEF LogInv, NamedByDay, Logs!FileOfItsDay, Logs!Bounded
<1>3. QED
  BY <1>1, <1>2 DEF LogInv

LEMMA WriteKeeps ==
    ASSUME LogInv, NEW t \in LogThreads, Logs!Write(t)
    PROVE  LogInv'
<1>1. /\ UNCHANGED <<slash, now, today_, filename_, files, dropped>>
      /\ when[t] = 0 /\ writes' = writes + 1
  BY DEF Logs!Write, Logs!fileVars
<1>2. CASE when' = [when EXCEPT ![t] = now] /\ UNCHANGED refused
  <2>1. LogTypes'
    BY <1>1, <1>2 DEF LogInv, LogTypes
  <2>2. Logs!Pending' = Logs!Pending \union {t} /\ t \notin Logs!Pending
    BY <1>1, <1>2 DEF LogInv, LogTypes, Logs!Pending
  <2>3. IsFiniteSet(Logs!Pending) /\ Cardinality(Logs!Pending) \in Nat /\ Cardinality(Logs!Lines) \in Nat
    BY LogAssumption, FS_Subset, FS_CardinalityType DEF LogInv, Logs!Pending
  <2>4. Cardinality(Logs!Pending') = Cardinality(Logs!Pending) + 1
    BY <2>2, <2>3, FS_AddElement
  <2>5. Logs!NothingLost'
    BY <1>1, <1>2, <2>3, <2>4, OthersKeepFiles, LogCardinality DEF LogInv, LogTypes, Logs!NothingLost
  <2>6. QED
    BY <1>1, <2>1, <2>5, OthersKeepFiles DEF LogInv
<1>3. CASE refused' = refused + 1 /\ UNCHANGED when
  <2>1. LogTypes'
    BY <1>1, <1>3 DEF LogInv, LogTypes
  <2>2. Logs!Pending' = Logs!Pending
    BY <1>1, <1>3 DEF Logs!Pending
  <2>3. IsFiniteSet(Logs!Pending) /\ Cardinality(Logs!Pending) \in Nat /\ Cardinality(Logs!Lines) \in Nat
    BY LogAssumption, FS_Subset, FS_CardinalityType DEF LogInv, Logs!Pending
  <2>4. Logs!NothingLost'
    BY <1>1, <1>3, <2>2, <2>3, OthersKeepFiles, LogCardinality DEF LogInv, LogTypes, Logs!NothingLost
  <2>5. QED
    BY <1>1, <2>1, <2>4, OthersKeepFiles DEF LogInv
<1>4. QED
  BY <1>2, <1>3 DEF Logs!Write

\* A line that goes to a file: of its day, and below the limit or of its second.
LEMMA LineIsWritten ==
    ASSUME LogInv, NEW t \in LogThreads, Logs!Line(t), Property_
    PROVE  LogInv'
<1> DEFINE time == when[t]
           day == Logs!Day(time)
           daily == IF today_ # day THEN [day |-> day, second |-> 0] ELSE filename_
           name == Logs!Open(time)
           made == Logs!Created(name)
<1>1. /\ time \in Nat /\ time > 0 /\ day \in Nat
      /\ filename_' = name /\ today_' = day
      /\ files' = IF ~slash THEN [made EXCEPT ![name] = Append(@, time)] ELSE made
      /\ when' = [when EXCEPT ![t] = 0]
      /\ UNCHANGED <<slash, now, writes, refused, dropped>>
  <2>1. time \in Nat /\ time > 0
    BY DEF LogInv, LogTypes, Logs!Line
  <2>2. day \in Nat
    BY <2>1, LogAssumption DEF Logs!Day
  <2>3. QED
    BY <2>1, <2>2 DEF Logs!Line, Logs!Opens
<1>2. name.day = day /\ name \in [day : Int, second : Nat]
  BY <1>1 DEF LogInv, LogTypes, NamedByDay, Logs!Open
<1>3. LogTypes' /\ NamedByDay' /\ (slash => files' = files)
  <2>1. CASE slash
    BY <1>1, <1>2, <2>1 DEF LogInv, LogTypes, NamedByDay, Logs!Created, Logs!Opens
  <2>2. CASE ~slash
    BY <1>1, <1>2, <2>2 DEF LogInv, LogTypes, NamedByDay, Logs!Created, Logs!Opens
  <2>3. QED
    BY <2>1, <2>2
<1>4. CASE slash
  <2>1. Logs!Lines' = Logs!Lines
    BY <1>3, <1>4 DEF Logs!Lines
  <2>2. Logs!FileOfItsDay' /\ Logs!Bounded' /\ Logs!NothingLost'
    BY <1>1, <1>3, <1>4 DEF LogInv, Logs!FileOfItsDay, Logs!Bounded, Logs!NothingLost
  <2>3. QED
    BY <1>3, <2>1, <2>2 DEF LogInv
<1>5. CASE ~slash
  <2> DEFINE old == IF name \in DOMAIN files THEN files[name] ELSE <<>>
             k == Len(old) + 1
  <2>1. /\ old \in Seq(Nat) /\ Len(old) \in Nat /\ k \in Nat
        /\ DOMAIN files' = DOMAIN files \union {name}
        /\ files'[name] = Append(old, time)
        /\ \A n \in DOMAIN files \ {name} : files'[n] = files[n]
    BY <1>1, <1>5 DEF LogInv, LogTypes, Logs!Created, Logs!Opens
  <2>2. /\ DOMAIN files'[name] = 1..k /\ files'[name][k] = time /\ k \notin DOMAIN old
        /\ \A i \in 1..k : i # k => i \in DOMAIN old /\ files'[name][i] = old[i]
        /\ DOMAIN old = 1..Len(old)
    <3> HIDE DEF old
    <3>1. \A q \in Seq(Nat) : /\ DOMAIN q = 1..Len(q) /\ Len(q) + 1 \notin DOMAIN q
                             /\ DOMAIN Append(q, time) = 1..(Len(q) + 1)
                             /\ Append(q, time)[Len(q) + 1] = time
                             /\ \A i \in 1..(Len(q) + 1) : i # Len(q) + 1 =>
                                   i \in DOMAIN q /\ Append(q, time)[i] = q[i]
      BY <1>1
    <3>2. QED
      BY <2>1, <3>1
  <2>3. \A i \in DOMAIN old : name \in DOMAIN files /\ files[name][i] = old[i]
    <3>1. CASE name \in DOMAIN files
      BY <3>1
    <3>2. CASE name \notin DOMAIN files
      <4>1. DOMAIN old = {}
        BY <3>2
      <4>2. QED
        BY <4>1
    <3>3. QED
      BY <3>1, <3>2
  <2> HIDE DEF old, k, name, made, day
  <2>4. Logs!FileOfItsDay'
    <3> SUFFICES ASSUME NEW n \in DOMAIN files', NEW i \in DOMAIN files'[n]
                 PROVE  Logs!Day(files'[n][i]) = n.day
      BY DEF Logs!FileOfItsDay, Logs!Day
    <3>1. CASE n = name /\ i = k
      BY <1>2, <2>2, <3>1 DEF day
    <3>2. CASE n = name /\ i # k
      BY <2>1, <2>2, <2>3, <3>2 DEF LogInv, Logs!FileOfItsDay, old
    <3>3. CASE n # name
      BY <2>1, <3>3 DEF LogInv, Logs!FileOfItsDay
    <3>4. QED
      BY <3>1, <3>2, <3>3
  <2>5. k > filesize_ + 1 => name.second = time
    <3>1. CASE Logs!TooLong(daily)
      BY <3>1 DEF Logs!Open, name, day
    <3>2. CASE ~Logs!TooLong(daily)
      <4>1. name = daily
        BY <3>2 DEF Logs!Open, name, day
      <4>2. ~(k > filesize_ + 1)
        BY <1>5, <3>2, <4>1, <2>1, LogAssumption DEF Logs!TooLong, Logs!Opens, k, old
      <4>3. QED
        BY <4>2
    <3>3. QED
      BY <3>1, <3>2
  <2>6. Logs!Bounded'
    <3> SUFFICES ASSUME NEW n \in DOMAIN files', NEW i \in DOMAIN files'[n], i > filesize_ + 1
                 PROVE  files'[n][i] = n.second
      BY DEF Logs!Bounded
    <3>1. CASE n = name /\ i = k
      BY <2>2, <2>5, <3>1
    <3>2. CASE n = name /\ i # k
      BY <2>1, <2>2, <2>3, <3>2 DEF LogInv, Logs!Bounded, old
    <3>3. CASE n # name
      BY <2>1, <3>3 DEF LogInv, Logs!Bounded
    <3>4. QED
      BY <3>1, <3>2, <3>3
  <2>7. Logs!Lines' = Logs!Lines \union {<<name, k>>} /\ <<name, k>> \notin Logs!Lines
    <3>1. \A p : p \in Logs!Lines <=> \E n \in DOMAIN files : \E i \in DOMAIN files[n] : p = <<n, i>>
      BY DEF Logs!Lines
    <3>2. \A p : p \in Logs!Lines' <=> \E n \in DOMAIN files' : \E i \in DOMAIN files'[n] : p = <<n, i>>
      BY DEF Logs!Lines
    <3>3. ASSUME NEW p \in Logs!Lines' PROVE p \in Logs!Lines \union {<<name, k>>}
      <4>1. PICK n \in DOMAIN files' : \E i \in DOMAIN files'[n] : p = <<n, i>>
        BY <3>2, <3>3
      <4>2. PICK i \in DOMAIN files'[n] : p = <<n, i>>
        BY <4>1
      <4>3. n # name \/ i # k => n \in DOMAIN files /\ i \in DOMAIN files[n]
        BY <2>1, <2>2, <2>3 DEF old
      <4>4. QED
        BY <3>1, <4>2, <4>3
    <3>4. ASSUME NEW p \in Logs!Lines PROVE p \in Logs!Lines' /\ p # <<name, k>>
      <4>1. PICK n \in DOMAIN files : \E i \in DOMAIN files[n] : p = <<n, i>>
        BY <3>1, <3>4
      <4>2. PICK i \in DOMAIN files[n] : p = <<n, i>>
        BY <4>1
      <4>3. n \in DOMAIN files' /\ i \in DOMAIN files'[n] /\ (n = name => i # k)
        BY <2>1, <2>2 DEF old, k
      <4>4. QED
        BY <3>2, <4>2, <4>3
    <3>5. <<name, k>> \in Logs!Lines'
      BY <2>1, <2>2, <3>2 DEF k
    <3>6. QED
      BY <3>3, <3>4, <3>5
  <2>8. Logs!Pending' = Logs!Pending \ {t} /\ t \in Logs!Pending
    BY <1>1 DEF LogInv, LogTypes, Logs!Pending
  <2>9. /\ IsFiniteSet(Logs!Pending) /\ Cardinality(Logs!Pending) \in Nat
        /\ IsFiniteSet(Logs!Lines) /\ Cardinality(Logs!Lines) \in Nat
    BY LogAssumption, FS_Subset, FS_CardinalityType DEF LogInv, Logs!Pending
  <2>10. Cardinality(Logs!Pending') = Cardinality(Logs!Pending) - 1
    BY <2>8, <2>9, FS_RemoveElement
  <2>11. Cardinality(Logs!Lines') = Cardinality(Logs!Lines) + 1 /\ IsFiniteSet(Logs!Lines')
    BY <2>7, <2>9, FS_AddElement
  <2>12. Logs!NothingLost'
    BY <1>1, <1>5, <2>9, <2>10, <2>11, LogCardinality DEF LogInv, LogTypes, Logs!NothingLost
  <2>13. QED
    BY <1>3, <2>4, <2>6, <2>11, <2>12 DEF LogInv
<1>6. QED
  BY <1>4, <1>5, <1>3 DEF LogTypes, LogInv

\* A line whose level was turned off is counted, and leaves the files alone.
LEMMA LineIsDropped ==
    ASSUME LogInv, NEW t \in LogThreads, Logs!Line(t), ~Property_
    PROVE  LogInv'
<1>1. /\ when[t] # 0 /\ when' = [when EXCEPT ![t] = 0] /\ dropped' = dropped + 1
      /\ UNCHANGED <<slash, now, today_, filename_, files, writes, refused>>
  BY DEF Logs!Line, Logs!fileVars
<1>2. LogTypes'
  BY <1>1 DEF LogInv, LogTypes
<1>3. Logs!Pending' = Logs!Pending \ {t} /\ t \in Logs!Pending
  BY <1>1 DEF LogInv, LogTypes, Logs!Pending
<1>4. IsFiniteSet(Logs!Pending) /\ Cardinality(Logs!Pending) \in Nat /\ Cardinality(Logs!Lines) \in Nat
  BY LogAssumption, FS_Subset, FS_CardinalityType DEF LogInv, Logs!Pending
<1>5. Cardinality(Logs!Pending') = Cardinality(Logs!Pending) - 1
  BY <1>3, <1>4, FS_RemoveElement
<1>6. Logs!NothingLost'
  BY <1>1, <1>4, <1>5, OthersKeepFiles, LogCardinality DEF LogInv, LogTypes, Logs!NothingLost
<1>7. QED
  BY <1>1, <1>2, <1>6, OthersKeepFiles DEF LogInv

LEMMA LogKeeps == LogInv /\ [Logs!Next]_(Logs!logVars) => LogInv'
<1> SUFFICES ASSUME LogInv, [Logs!Next]_(Logs!logVars) PROVE LogInv'
  OBVIOUS
<1>1. ASSUME UNCHANGED <<slash, when, today_, filename_, files, writes, refused, dropped>>, now' \in Nat \ {0}
      PROVE  LogInv'
  <2>1. Logs!Pending' = Logs!Pending
    BY <1>1 DEF Logs!Pending
  <2>2. Logs!NothingLost'
    BY <1>1, <2>1, OthersKeepFiles DEF LogInv, Logs!NothingLost
  <2>3. LogTypes'
    BY <1>1 DEF LogInv, LogTypes
  <2>4. QED
    BY <1>1, <2>2, <2>3, OthersKeepFiles DEF LogInv
<1>2. CASE Logs!InitLevels \/ Logs!InitDirectory \/ Logs!SetLevelProperty \/ Logs!ReadXml
  BY <1>1, <1>2 DEF Logs!InitLevels, Logs!InitDirectory, Logs!SetLevelProperty, Logs!ReadXml, Logs!fileVars,
                    LogInv, LogTypes
<1>3. CASE Logs!Tick
  BY <1>1, <1>3 DEF Logs!Tick, Logs!fileVars, LogInv, LogTypes
<1>4. CASE UNCHANGED Logs!logVars
  BY <1>1, <1>4 DEF Logs!logVars, LogInv, LogTypes
<1>5. QED
  BY <1>2, <1>3, <1>4, WriteKeeps, LineIsWritten, LineIsDropped DEF Logs!Next

\* File.cpp:17, Logger.h:59: every line that Write took is in one file, of its
\* own day, unless its level was turned off before the thread had the mutex
\* (Logger.h:85), and files are bounded, for any threads, days and limits.
THEOREM LinesStayLogged == Logs!Spec => []LinesAreLogged
<1>1. LogInv => LinesAreLogged
  BY DEF LogInv, LinesAreLogged
<1>2. QED
  BY <1>1, LogBegins, LogKeeps, PTL DEF Logs!Spec

-----------------------------------------------------------------------------
(* One curl handle. *)

CurlVerbs == {"GET", "POST", "PUT", "DELETE"}
OneCall == [verb : CurlVerbs, param : Seq(CurlBytes)]
Chunk == {"garbage", "body", "moved"} \X Nat

CurlTypes ==
  /\ calls \in Seq(OneCall)
  /\ running \in BOOLEAN
  /\ options \in [custom : {"none", "PUT", "DELETE"}, post : BOOLEAN, fields : Seq(CurlBytes), owner : Nat,
                  size : Nat \union {-1}, follow : BOOLEAN]
  /\ resData_ \in Seq(Chunk)
  /\ callback \in [code : Nat, data : Seq(Chunk)]

\* What a request was: that of the options, once it has returned.
SentByOptions ==
  IF calls = <<>> THEN ~running /\ request = Curl!NoRequest
  ELSE ~running => request = Curl!Request

\* What the options of one verb never set.
OnlyVerb(v) == \A i \in 1..Len(calls) : calls[i].verb = v /\ calls[i].param # <<>>
OneVerbOptions ==
  /\ OnlyVerb("GET") => options.custom = "none" /\ ~options.post
  /\ OnlyVerb("POST") => options.custom = "none"
  /\ OnlyVerb("PUT") \/ OnlyVerb("DELETE") => options.size = -1

\* What the last call has set.
LastCallOptions ==
  calls # <<>> =>
    LET c == calls[Len(calls)] IN
    /\ c.verb \in {"PUT", "DELETE"} => options.custom = c.verb
    /\ c.verb # "GET" /\ c.param # <<>> =>
         options.post /\ options.fields = c.param /\ options.owner = Len(calls)
    /\ c.verb = "POST" => options.size = Len(c.param)

\* Chunks arrive in the order of the calls.
ChunksInOrder ==
  /\ \A i \in 1..Len(resData_) : resData_[i][2] <= Len(calls)
  /\ \A i, j \in 1..Len(resData_) :
       i < j /\ resData_[i][1] # "garbage" /\ resData_[j][1] # "garbage" => resData_[i][2] <= resData_[j][2]

\* A body is the last chunk, but for what follows a string in memory.
EndsWith(d, what) ==
  \E i \in 1..Len(d) : d[i] = what /\ \A j \in 1..Len(d) : d[j][1] # "garbage" => j <= i

ToldInOrder ==
  ~running /\ callback.code \in {200, 404} =>
    callback.data = resData_ /\ EndsWith(resData_, <<"body", Len(calls)>>)

CurlInv ==
  CurlTypes /\ SentByOptions /\ OneVerbOptions /\ LastCallOptions /\ ChunksInOrder /\ ToldInOrder

LEMMA CurlCardinality == \A S : Curl!Cardinality(S) = Cardinality(S)
BY DEF Curl!Cardinality, Cardinality

LEMMA CurlBegins == Curl!Init => CurlInv
<1> SUFFICES ASSUME Curl!Init PROVE CurlInv
  OBVIOUS
<1>1. CurlTypes
  <2>1. options \in [custom : {"none", "PUT", "DELETE"}, post : BOOLEAN, fields : Seq(CurlBytes), owner : Nat,
                     size : Nat \union {-1}, follow : BOOLEAN]
    BY DEF Curl!Init, Curl!Fresh, Curl!Unset
  <2>2. callback \in [code : Nat, data : Seq(Chunk)] /\ resData_ \in Seq(Chunk)
    BY DEF Curl!Init
  <2>3. calls = <<>> /\ running = FALSE
    BY DEF Curl!Init
  <2>4. QED
    <3>1. calls \in Seq(OneCall)
      BY <2>3
    <3>2. running \in BOOLEAN
      BY <2>3
    <3>3. QED
      BY <2>1, <2>2, <3>1, <3>2 DEF CurlTypes
<1>2. SentByOptions /\ OneVerbOptions /\ LastCallOptions
  BY DEF SentByOptions, OneVerbOptions, LastCallOptions, Curl!Init, Curl!Fresh, Curl!Unset
<1>3. ChunksInOrder /\ ToldInOrder
  BY DEF ChunksInOrder, ToldInOrder, Curl!Init
<1>4. QED
  BY <1>1, <1>2, <1>3 DEF CurlInv

\* What PostFields makes of the options.
LEMMA PostFieldsSets ==
    ASSUME CurlTypes, NEW param \in Seq(CurlBytes)
    PROVE  LET o == Curl!PostFields(options, param) IN
           /\ o \in [custom : {"none", "PUT", "DELETE"}, post : BOOLEAN, fields : Seq(CurlBytes), owner : Nat,
                     size : Nat \union {-1}, follow : BOOLEAN]
           /\ o.custom = options.custom /\ o.size = options.size /\ o.follow = options.follow
           /\ param # <<>> => o.post /\ o.fields = param /\ o.owner = Len(calls) + 1
<1> DEFINE o == Curl!PostFields(options, param)
           p == [custom |-> options.custom, post |-> TRUE, fields |-> param, owner |-> Len(calls) + 1,
                 size |-> options.size, follow |-> options.follow]
<1>1. Len(calls) + 1 \in Nat
  BY DEF CurlTypes
<1>2. CASE param = <<>>
  BY <1>2 DEF CurlTypes, Curl!PostFields
<1>3. CASE param # <<>>
  <2>1. o = p
    BY <1>3 DEF CurlTypes, Curl!PostFields
  <2>2. QED
    BY <1>1, <2>1 DEF CurlTypes
<1>4. QED
  BY <1>2, <1>3

LEMMA CallKeeps ==
    ASSUME CurlInv, Curl!Call
    PROVE  CurlInv'
<1> DEFINE n == Len(calls) + 1
<1>1. PICK param \in CurlParams, verb \in CurlVerbs :
          /\ CASE verb = "GET" -> Curl!Get(param) [] verb = "POST" -> Curl!Post(param)
               [] verb = "PUT" -> Curl!Put(param) [] verb = "DELETE" -> Curl!Delete(param)
          /\ calls' = Append(calls, [verb |-> verb, param |-> param])
  BY DEF Curl!Call, CurlVerbs
<1>2. running' = TRUE /\ UNCHANGED <<resData_, callback>> /\ param \in Seq(CurlBytes)
  BY CurlAssumption DEF Curl!Call
<1>3. /\ calls' \in Seq(OneCall) /\ Len(calls') = n /\ n \in Nat /\ n > 0
      /\ \A i \in 1..Len(calls) : calls'[i] = calls[i]
      /\ calls'[n] = [verb |-> verb, param |-> param] /\ Len(calls) \in Nat
  <2>1. [verb |-> verb, param |-> param] \in OneCall
    BY <1>2 DEF OneCall
  <2>2. QED
    BY <1>1, <2>1 DEF CurlInv, CurlTypes
<1> HIDE DEF n
<1>4. n = Len(calls) + 1 /\ calls' # <<>>
  BY <1>3 DEF n
<1>5. /\ options' \in [custom : {"none", "PUT", "DELETE"}, post : BOOLEAN, fields : Seq(CurlBytes), owner : Nat,
                       size : Nat \union {-1}, follow : BOOLEAN]
      /\ verb = "GET" => options' = options
      /\ verb = "POST" => options'.custom = options.custom /\ options'.size = Len(param)
      /\ verb \in {"PUT", "DELETE"} => options'.custom = verb /\ options'.size = options.size
      /\ verb # "GET" /\ param # <<>> => options'.post /\ options'.fields = param /\ options'.owner = n
  <2> DEFINE o == Curl!PostFields(options, param)
  <2>1. /\ o \in [custom : {"none", "PUT", "DELETE"}, post : BOOLEAN, fields : Seq(CurlBytes), owner : Nat,
                  size : Nat \union {-1}, follow : BOOLEAN]
        /\ o.custom = options.custom /\ o.size = options.size
        /\ param # <<>> => o.post /\ o.fields = param /\ o.owner = n
    BY <1>2, <1>4, PostFieldsSets DEF CurlInv
  <2>2. Len(param) \in Nat
    BY <1>2
  <2> HIDE DEF o
  <2>3. CASE verb = "GET"
    BY <1>1, <2>3 DEF Curl!Get, CurlInv, CurlTypes
  <2>4. CASE verb = "POST"
    <3>1. options' = [o EXCEPT !.size = Len(param)]
      BY <1>1, <2>4 DEF Curl!Post, o
    <3>2. QED
      BY <2>1, <2>2, <2>4, <3>1
  <2>5. CASE verb = "PUT"
    <3>1. options' = [o EXCEPT !.custom = "PUT"]
      BY <1>1, <2>5 DEF Curl!Put, o
    <3>2. QED
      BY <2>1, <2>5, <3>1
  <2>6. CASE verb = "DELETE"
    <3>1. options' = [o EXCEPT !.custom = "DELETE"]
      BY <1>1, <2>6 DEF Curl!Delete, o
    <3>2. QED
      BY <2>1, <2>6, <3>1
  <2>7. QED
    BY <2>3, <2>4, <2>5, <2>6 DEF CurlVerbs
<1>6. CurlTypes'
  BY <1>2, <1>3, <1>5 DEF CurlInv, CurlTypes
<1>7. SentByOptions' /\ ToldInOrder'
  BY <1>2, <1>4 DEF SentByOptions, ToldInOrder
<1>8. LastCallOptions'
  BY <1>3, <1>5 DEF LastCallOptions
<1>9. ASSUME NEW v, OnlyVerb(v)' PROVE OnlyVerb(v) /\ v = verb
  <2>1. \A i \in 1..n : calls'[i].verb = v
    BY <1>3, <1>9 DEF OnlyVerb
  <2>2. v = verb
    BY <1>3, <2>1
  <2>3. OnlyVerb(v)
    BY <1>3, <1>4, <1>9 DEF OnlyVerb
  <2>4. QED
    BY <2>2, <2>3
<1>10. OneVerbOptions'
  <2>1. OnlyVerb("GET")' => options.custom = "none" /\ ~options.post /\ options' = options
    BY <1>5, <1>9 DEF CurlInv, OneVerbOptions
  <2>2. OnlyVerb("POST")' => options'.custom = "none"
    BY <1>5, <1>9 DEF CurlInv, OneVerbOptions
  <2>3. OnlyVerb("PUT")' \/ OnlyVerb("DELETE")' => options'.size = -1
    BY <1>5, <1>9 DEF CurlInv, OneVerbOptions
  <2>4. QED
    BY <2>1, <2>2, <2>3 DEF OneVerbOptions
<1>11. ChunksInOrder'
  BY <1>2, <1>3, <1>4 DEF CurlInv, CurlTypes, Chunk, ChunksInOrder
<1>12. QED
  BY <1>6, <1>7, <1>8, <1>10, <1>11 DEF CurlInv

\* A chunk of this call is appended, and perhaps what follows it in memory.
LEMMA CallbackAppends ==
    ASSUME CurlInv, NEW what \in {"body", "moved"}, Curl!Callback(<<what, Len(calls)>>), UNCHANGED calls
    PROVE  resData_' \in Seq(Chunk) /\ ChunksInOrder' /\ EndsWith(resData_', <<what, Len(calls)>>)
<1> DEFINE n == Len(resData_)
           chunk == <<what, Len(calls)>>
<1>1. /\ resData_ \in Seq(Chunk) /\ n \in Nat /\ Len(calls) \in Nat /\ chunk \in Chunk
      /\ <<"garbage", 0>> \in Chunk
  BY DEF CurlInv, CurlTypes, Chunk
<1>2. PICK junk \in {<<>>, << <<"garbage", 0>> >>} : resData_' = resData_ \o <<chunk>> \o junk
  BY DEF Curl!Callback
<1>3. /\ resData_' \in Seq(Chunk)
      /\ \A i \in 1..n : resData_'[i] = resData_[i]
      /\ resData_'[n + 1] = chunk
      /\ Len(resData_') = n + 1 \/ (Len(resData_') = n + 2 /\ resData_'[n + 2] = <<"garbage", 0>>)
  <2>1. resData_ \o <<chunk>> \in Seq(Chunk) /\ Len(resData_ \o <<chunk>>) = n + 1
    BY <1>1
  <2>2. (resData_ \o <<chunk>>)[n + 1] = chunk /\ \A i \in 1..n : (resData_ \o <<chunk>>)[i] = resData_[i]
    BY <1>1
  <2> DEFINE d == resData_ \o <<chunk>>
  <2> HIDE DEF d
  <2>3. CASE junk = <<>>
    <3>1. resData_' = d
      BY <1>2, <2>1, <2>3 DEF d
    <3>2. QED
      BY <2>1, <2>2, <3>1 DEF d
  <2>4. CASE junk = << <<"garbage", 0>> >>
    <3>1. resData_' = d \o << <<"garbage", 0>> >>
      BY <1>2, <2>4 DEF d
    <3>2. d \in Seq(Chunk) /\ Len(d) = n + 1 /\ d[n + 1] = chunk /\ \A i \in 1..n : d[i] = resData_[i]
      BY <2>1, <2>2 DEF d
    <3>3. /\ resData_' \in Seq(Chunk) /\ Len(resData_') = n + 2
          /\ \A i \in 1..(n + 1) : resData_'[i] = d[i]
          /\ resData_'[n + 2] = <<"garbage", 0>>
      BY <1>1, <3>1, <3>2
    <3>4. QED
      BY <1>1, <3>2, <3>3
  <2>5. QED
    BY <1>2, <2>3, <2>4
<1>4. \A i \in 1..Len(resData_') : i \in 1..n \/ i = n + 1 \/ (i = n + 2 /\ resData_'[i] = <<"garbage", 0>>)
  BY <1>1, <1>3
<1>5. EndsWith(resData_', <<what, Len(calls)>>)
  <2>1. n + 1 \in 1..Len(resData_') /\ \A j \in 1..Len(resData_') : resData_'[j][1] # "garbage" => j <= n + 1
    BY <1>1, <1>3, <1>4
  <2>2. QED
    BY <1>3, <2>1 DEF EndsWith
<1>6. \A i \in 1..Len(resData_') : resData_'[i][2] <= Len(calls')
  <2> SUFFICES ASSUME NEW i \in 1..Len(resData_') PROVE resData_'[i][2] <= Len(calls)
    OBVIOUS
  <2>1. CASE i \in 1..n
    BY <1>3, <2>1 DEF CurlInv, ChunksInOrder
  <2>2. CASE i = n + 1
    BY <1>1, <1>3, <2>2
  <2>3. CASE i = n + 2 /\ resData_'[i] = <<"garbage", 0>>
    BY <1>1, <2>3
  <2>4. QED
    BY <1>4, <2>1, <2>2, <2>3
<1>7. ASSUME NEW i \in 1..Len(resData_'), NEW j \in 1..Len(resData_'), i < j,
             resData_'[i][1] # "garbage", resData_'[j][1] # "garbage"
      PROVE  resData_'[i][2] <= resData_'[j][2]
  <2>1. (i \in 1..n \/ i = n + 1) /\ (j \in 1..n \/ j = n + 1)
    BY <1>4, <1>7
  <2>2. i \in 1..n
    BY <1>1, <1>7, <2>1
  <2>3. CASE j \in 1..n
    BY <1>3, <1>7, <2>2, <2>3 DEF CurlInv, ChunksInOrder
  <2>4. CASE j = n + 1
    <3>1. resData_'[j][2] = Len(calls)
      BY <1>3, <2>4
    <3>2. resData_'[i][2] <= Len(calls)
      BY <1>6, <2>2
    <3>3. QED
      BY <3>1, <3>2
  <2>5. QED
    BY <2>1, <2>3, <2>4
<1>8. QED
  BY <1>3, <1>5, <1>6, <1>7 DEF ChunksInOrder

\* What the answers of the server leave of the invariant: only follow changes.
LEMMA AnswersKeep ==
    ASSUME CurlInv, running, request' = Curl!Request, UNCHANGED calls,
           options' = options \/ options' = [options EXCEPT !.follow = TRUE]
    PROVE  /\ SentByOptions' /\ OneVerbOptions' /\ LastCallOptions'
           /\ options' \in [custom : {"none", "PUT", "DELETE"}, post : BOOLEAN, fields : Seq(CurlBytes), owner : Nat,
                            size : Nat \union {-1}, follow : BOOLEAN]
<1>1. /\ options'.custom = options.custom /\ options'.post = options.post /\ options'.fields = options.fields
      /\ options'.owner = options.owner /\ options'.size = options.size
      /\ options' \in [custom : {"none", "PUT", "DELETE"}, post : BOOLEAN, fields : Seq(CurlBytes), owner : Nat,
                       size : Nat \union {-1}, follow : BOOLEAN]
  BY DEF CurlInv, CurlTypes
<1>2. Curl!Request' = Curl!Request
  BY <1>1 DEF Curl!Request, Curl!Body
<1>3. calls # <<>>
  BY DEF CurlInv, SentByOptions
<1>4. SentByOptions'
  BY <1>2, <1>3 DEF SentByOptions
<1>5. OneVerbOptions' /\ LastCallOptions'
  BY <1>1 DEF CurlInv, OneVerbOptions, OnlyVerb, LastCallOptions
<1>6. QED
  BY <1>1, <1>4, <1>5

LEMMA ReturnsKeep ==
    ASSUME CurlInv, Curl!Answered \/ Curl!Failed
    PROVE  CurlInv'
<1>1. /\ running /\ running' = FALSE /\ request' = Curl!Request /\ UNCHANGED <<calls, options>>
      /\ callback'.data = resData_'
  BY DEF Curl!Answered, Curl!Failed, Curl!Return
<1>2. SentByOptions' /\ OneVerbOptions' /\ LastCallOptions'
  BY <1>1, AnswersKeep
<1>3. CASE Curl!Answered
  <2>1. /\ Curl!Callback(<<"body", Len(calls)>>)
        /\ \E code \in {200, 404} : callback' = [code |-> code, data |-> resData_']
    BY <1>3 DEF Curl!Answered, Curl!Return
  <2>2. resData_' \in Seq(Chunk) /\ ChunksInOrder' /\ EndsWith(resData_', <<"body", Len(calls)>>)
    BY <1>1, <2>1, CallbackAppends
  <2>3. CurlTypes'
    <3>1. callback' \in [code : Nat, data : Seq(Chunk)]
      BY <2>1, <2>2
    <3>2. QED
      BY <1>1, <2>2, <3>1 DEF CurlInv, CurlTypes
  <2>4. ToldInOrder'
    BY <1>1, <2>2 DEF ToldInOrder
  <2>5. QED
    BY <1>2, <2>2, <2>3, <2>4 DEF CurlInv
<1>4. CASE Curl!Failed
  <2>1. callback' = [code |-> 500, data |-> resData_']
    BY <1>4 DEF Curl!Failed, Curl!Return
  <2>2. resData_' \in Seq(Chunk) /\ ChunksInOrder'
    <3>1. CASE UNCHANGED resData_
      BY <1>1, <3>1 DEF CurlInv, CurlTypes, ChunksInOrder
    <3>2. CASE Curl!Callback(<<"body", Len(calls)>>)
      BY <1>1, <3>2, CallbackAppends
    <3>3. QED
      BY <1>4, <3>1, <3>2 DEF Curl!Failed
  <2>3. callback' \in [code : Nat, data : Seq(Chunk)] /\ callback'.code = 500
    BY <2>1, <2>2
  <2>4. CurlTypes'
    BY <1>1, <2>2, <2>3 DEF CurlInv, CurlTypes
  <2>5. ToldInOrder'
    BY <2>3 DEF ToldInOrder
  <2>6. QED
    BY <1>2, <2>2, <2>4, <2>5 DEF CurlInv
<1>5. QED
  BY <1>3, <1>4

LEMMA LoopsKeep ==
    ASSUME CurlInv, Curl!Redirected \/ Curl!NotModified
    PROVE  CurlInv'
<1>1. /\ running /\ UNCHANGED <<calls, running, callback>> /\ request' = Curl!Request
      /\ options' = [options EXCEPT !.follow = TRUE]
  BY DEF Curl!Redirected, Curl!NotModified
<1>2. /\ SentByOptions' /\ OneVerbOptions' /\ LastCallOptions'
      /\ options' \in [custom : {"none", "PUT", "DELETE"}, post : BOOLEAN, fields : Seq(CurlBytes), owner : Nat,
                       size : Nat \union {-1}, follow : BOOLEAN]
  BY <1>1, AnswersKeep
<1>3. resData_' \in Seq(Chunk) /\ ChunksInOrder'
  <2>1. CASE Curl!Redirected
    BY <1>1, <2>1, CallbackAppends DEF Curl!Redirected
  <2>2. CASE Curl!NotModified
    BY <1>1, <2>2 DEF Curl!NotModified, CurlInv, CurlTypes, ChunksInOrder
  <2>3. QED
    BY <2>1, <2>2
<1>4. CurlTypes' /\ ToldInOrder'
  BY <1>1, <1>2, <1>3 DEF CurlInv, CurlTypes, ToldInOrder
<1>5. QED
  BY <1>2, <1>3, <1>4 DEF CurlInv

LEMMA CurlKeeps == CurlInv /\ [Curl!Next]_(Curl!vars) => CurlInv'
<1> SUFFICES ASSUME CurlInv, [Curl!Next]_(Curl!vars) PROVE CurlInv'
  OBVIOUS
<1>1. CASE UNCHANGED Curl!vars
  <2>1. Curl!Request' = Curl!Request
    BY <1>1 DEF Curl!vars, Curl!Request, Curl!Body
  <2>2. QED
    BY <1>1, <2>1 DEF Curl!vars, CurlInv, CurlTypes, SentByOptions, OneVerbOptions, OnlyVerb, LastCallOptions,
                      ChunksInOrder, ToldInOrder, EndsWith
<1>2. QED
  BY <1>1, CallKeeps, ReturnsKeep, LoopsKeep DEF Curl!Next

\* What a handle that was used for one verb sends.
LEMMA SameVerbHolds == CurlInv => Curl!SameVerb
<1> SUFFICES ASSUME CurlInv, request # Curl!NoRequest, Curl!Cardinality(Curl!Verbs) = 1, ~running,
                    \A i \in DOMAIN calls : calls[i].param # <<>>
             PROVE  LET c == calls[Len(calls)] IN
                    request = [method |-> c.verb, body |-> IF c.verb = "GET" THEN <<>> ELSE c.param]
  BY DEF Curl!SameVerb, Curl!Last
<1> DEFINE n == Len(calls)
           c == calls[n]
<1>1. /\ calls # <<>> /\ n \in Nat /\ n > 0 /\ DOMAIN calls = 1..n /\ request = Curl!Request
      /\ c.verb \in CurlVerbs /\ c.param \in Seq(CurlBytes) /\ c.param # <<>>
  <2>1. calls \in Seq(OneCall)
    BY DEF CurlInv, CurlTypes
  <2>2. calls # <<>> /\ request = Curl!Request
    BY DEF CurlInv, SentByOptions
  <2>3. n \in Nat /\ n > 0 /\ DOMAIN calls = 1..n
    BY <2>1, <2>2
  <2>4. n \in 1..n
    BY <2>3
  <2>5. c \in OneCall
    BY <2>1, <2>4
  <2>6. QED
    BY <2>2, <2>3, <2>4, <2>5 DEF OneCall
<1>2. Curl!Verbs \subseteq CurlVerbs
  <2>1. \A i \in 1..n : calls[i] \in OneCall
    BY DEF CurlInv, CurlTypes
  <2>2. QED
    BY <1>1, <2>1 DEF Curl!Verbs, OneCall
<1>3. IsFiniteSet(CurlVerbs)
  <2>1. IsFiniteSet({"GET"})
    BY FS_Singleton
  <2>2. IsFiniteSet({"GET"} \union {"POST"})
    BY <2>1, FS_AddElement
  <2>3. IsFiniteSet(({"GET"} \union {"POST"}) \union {"PUT"})
    BY <2>2, FS_AddElement
  <2>4. IsFiniteSet((({"GET"} \union {"POST"}) \union {"PUT"}) \union {"DELETE"})
    BY <2>3, FS_AddElement
  <2>5. CurlVerbs = (({"GET"} \union {"POST"}) \union {"PUT"}) \union {"DELETE"}
    BY DEF CurlVerbs
  <2>6. QED
    BY <2>4, <2>5
<1>4. PICK v : Curl!Verbs = {v}
  <2>1. IsFiniteSet(Curl!Verbs)
    BY <1>2, <1>3, FS_Subset
  <2>2. QED
    BY <2>1, FS_Singleton, CurlCardinality
<1>5. \A i \in 1..n : calls[i].verb = v
  BY <1>1, <1>4 DEF Curl!Verbs
<1>6. OnlyVerb(c.verb)
  BY <1>1, <1>5 DEF OnlyVerb
<1>7. /\ c.verb \in {"PUT", "DELETE"} => options.custom = c.verb
      /\ c.verb # "GET" => options.post /\ options.fields = c.param /\ options.owner = n
      /\ c.verb = "POST" => options.size = Len(c.param)
  BY <1>1 DEF CurlInv, LastCallOptions
<1>8. /\ c.verb = "GET" => options.custom = "none" /\ ~options.post
      /\ c.verb = "POST" => options.custom = "none"
      /\ c.verb \in {"PUT", "DELETE"} => options.size = -1
  BY <1>6 DEF CurlInv, OneVerbOptions
<1>9. CASE c.verb = "GET"
  BY <1>1, <1>8, <1>9 DEF Curl!Request, Curl!Body
<1>10. CASE c.verb # "GET"
  <2>1. Curl!Body = [i \in 1..Len(c.param) |-> c.param[i]]
    <3>1. c.verb = "POST" \/ c.verb \in {"PUT", "DELETE"}
      BY <1>1, <1>10 DEF CurlVerbs
    <3>2. (IF options.size = Curl!Unset THEN Len(options.fields) ELSE options.size) = Len(c.param)
      BY <1>1, <1>7, <1>8, <3>1 DEF Curl!Unset
    <3>3. options.post /\ options.fields = c.param /\ options.owner = n
      BY <1>7, <1>10
    <3>4. QED
      BY <3>2, <3>3 DEF Curl!Body
  <2>2. Curl!Body = c.param
    BY <1>1, <2>1
  <2>3. Curl!Request = [method |-> c.verb, body |-> c.param]
    BY <1>1, <1>7, <1>8, <1>10, <2>2 DEF Curl!Request, CurlVerbs
  <2>4. QED
    BY <1>1, <1>10, <2>3
<1>11. QED
  BY <1>9, <1>10

LEMMA CustomVerbHolds == CurlInv => Curl!CustomVerb
<1> SUFFICES ASSUME CurlInv, request # Curl!NoRequest, ~running, calls[Len(calls)].verb \in {"PUT", "DELETE"}
             PROVE  LET c == calls[Len(calls)] IN
                    /\ request.method = c.verb
                    /\ c.param # <<>> =>
                         \A i \in DOMAIN request.body : i <= Len(c.param) => request.body[i] = c.param[i]
  BY DEF Curl!CustomVerb, Curl!Last
<1> DEFINE c == calls[Len(calls)]
<1>1. calls # <<>> /\ request = Curl!Request
  BY DEF CurlInv, SentByOptions
<1>2. /\ options.custom = c.verb /\ c.verb # "none"
      /\ c.param # <<>> => options.post /\ options.fields = c.param /\ options.owner = Len(calls)
  BY <1>1 DEF CurlInv, LastCallOptions
<1>3. request.method = c.verb /\ request.body = Curl!Body
  BY <1>1, <1>2 DEF Curl!Request
<1>4. ASSUME c.param # <<>>, NEW i \in DOMAIN Curl!Body, i <= Len(c.param)
      PROVE  Curl!Body[i] = c.param[i]
  BY <1>2, <1>4 DEF Curl!Body
<1>5. QED
  BY <1>3, <1>4

LEMMA OwnDataLastHolds == CurlInv => Curl!OwnDataLast
<1> SUFFICES ASSUME CurlInv, ~running, callback.code \in {200, 404}
             PROVE  LET d == callback.data
                        told == {i \in DOMAIN d : d[i][1] # "garbage"} IN
                    /\ \E i \in told : d[i] = <<"body", Len(calls)>> /\ \A j \in told : j <= i
                    /\ \A i, j \in told : i < j => d[i][2] <= d[j][2]
  BY DEF Curl!OwnDataLast
<1>1. callback.data = resData_ /\ DOMAIN resData_ = 1..Len(resData_)
  BY DEF CurlInv, CurlTypes, ToldInOrder
<1>2. PICK i \in 1..Len(resData_) :
         resData_[i] = <<"body", Len(calls)>> /\ \A j \in 1..Len(resData_) : resData_[j][1] # "garbage" => j <= i
  BY DEF CurlInv, ToldInOrder, EndsWith
<1>3. resData_[i][1] # "garbage"
  BY <1>2
<1>4. QED
  BY <1>1, <1>2, <1>3 DEF CurlInv, ChunksInOrder

\* HttpClient.cpp:138: what the options of earlier calls leave of a call, for
\* any parameters and any number of calls.
THEOREM CallsSendTheirOwn == Curl!Spec => []OwnRequest
<1>1. CurlInv => OwnRequest
  BY SameVerbHolds, CustomVerbHolds, OwnDataLastHolds DEF OwnRequest
<1>2. QED
  BY <1>1, CurlBegins, CurlKeeps, PTL DEF Curl!Spec

-----------------------------------------------------------------------------
(* The old Unity client: its connections. *)

Statuses == {"none", "connecting", "up", "eof", "shut", "dead", "closed", "failed"}
RestKinds == {"part", "redial", "repost", "resend", "requeue"}
OpKinds == {"connect", "reconnect", "send", "receive", "disconnect", "ended", "closed"} \union RestKinds
Unit == (1..MaxSockets) \X Nat
Packet == Unit \X Unit
ClientEvent == [kind : {"connect", "reconnect", "close", "receive"}, buffer : Seq(Unit)]

UnityTypes ==
  /\ unity_state \in {"Disconnected", "OnConnecting", "Connected"}
  /\ unity_socket \in 0..MaxSockets
  /\ unity_status \in [1..MaxSockets -> Statuses]
  /\ \A o \in unity_ops : /\ o.kind \in OpKinds /\ o.socket \in 1..MaxSockets
                          /\ o = [kind |-> o.kind, socket |-> o.socket, n |-> o.n]
  /\ unity_eventQueue \in Seq(ClientEvent)
  /\ unity_sendQueue \in Seq(Int)
  /\ unity_recvBuffer \in Seq(Unit)
  /\ unity_incoming \in [1..MaxSockets -> Seq(Unit)]
  /\ unity_units \in [1..MaxSockets -> Nat]
  /\ unity_sent \in Nat
  /\ unity_posted \in Seq(Int)
  /\ unity_handled \in Seq(Packet)
  /\ unity_interrupted \in BOOLEAN /\ unity_closed_twice \in BOOLEAN /\ unity_cut \in BOOLEAN
  /\ redialed \in BOOLEAN

\* The rest of a message is a number below 0.
RestsBelow ==
  partials \in Nat /\ \A o \in unity_ops : o.kind \in RestKinds => o.n \in Int /\ o.n < 0

\* Close was called once at a time, and the pool has not reconnected.
Calm == ~unity_closed_twice /\ ~redialed

\* Sockets are created in the order of their numbers, and before they are used.
SocketsInOrder ==
  /\ Unity!Created = 1..Cardinality(Unity!Created)
  /\ \A o \in unity_ops : o.socket \in Unity!Created
  /\ unity_socket \in Unity!Created \union {0}

\* What an operation or an event is about, and the sockets that are connected.
Connecting(o) == o.kind \in {"connect", "reconnect"}
Closing(o) == o.kind \in {"disconnect", "ended", "closed"}
Live == {s \in 1..MaxSockets : unity_status[s] \in {"up", "eof", "shut"}}
Events == 1..Len(unity_eventQueue)

\* One connect, or one connection, or one Close is under way at a time, and the
\* events that Update has not seen yet say which.
OneAtATime ==
  /\ unity_state # "OnConnecting" =>
       /\ \A o \in unity_ops : ~Connecting(o)
       /\ \A i \in Events : ~Connecting(unity_eventQueue[i])
  /\ unity_state = "Disconnected" =>
       /\ Live = {} /\ \A o \in unity_ops : ~Closing(o)
       /\ \A i \in Events : unity_eventQueue[i].kind # "close"
  /\ \A c \in unity_ops : Connecting(c) =>
       /\ Live = {} /\ \A o \in unity_ops : ~Closing(o) /\ (Connecting(o) => o = c)
       /\ \A i \in Events : unity_eventQueue[i].kind = "receive"
  /\ \A i, j \in Events :
       Connecting(unity_eventQueue[i]) /\ unity_eventQueue[j].kind # "receive" /\ i # j =>
         i < j /\ unity_eventQueue[j].kind = "close"
  /\ \A i \in Events : unity_eventQueue[i].kind = "close" =>
       /\ Live = {} /\ \A o \in unity_ops : ~Closing(o)
       /\ \A j \in Events : unity_eventQueue[j].kind = "close" => i = j
  /\ Live \subseteq {unity_socket}
  /\ \A o, p \in unity_ops : Closing(o) /\ Closing(p) => o = p
  /\ \A o \in unity_ops : Closing(o) =>
       o.socket = unity_socket /\ (o.kind = "closed" => Live = {})

\* Messages stay in the order of the game, those that wait behind the others,
\* whatever rests are between them.
MessagesInTurn ==
  ~unity_interrupted =>
    /\ unity_state = "Connected" => \A i \in 1..Len(unity_sendQueue) : ~(unity_sendQueue[i] > 0)
    /\ \A i, j \in 1..Len(unity_posted) :
         i < j /\ unity_posted[i] > 0 /\ unity_posted[j] > 0 => unity_posted[i] < unity_posted[j]
    /\ \A i, j \in 1..Len(unity_sendQueue) :
         i < j /\ unity_sendQueue[i] > 0 /\ unity_sendQueue[j] > 0 => unity_sendQueue[i] < unity_sendQueue[j]
    /\ \A i \in 1..Len(unity_posted), j \in 1..Len(unity_sendQueue) :
         unity_posted[i] > 0 /\ unity_sendQueue[j] > 0 => unity_posted[i] < unity_sendQueue[j]
    /\ \A i \in 1..Len(unity_posted) : unity_posted[i] <= unity_sent
    /\ \A i \in 1..Len(unity_sendQueue) : unity_sendQueue[i] <= unity_sent

ClientInv ==
  UnityTypes /\ SocketsInOrder /\ (Calm => OneAtATime) /\ MessagesInTurn

LEMMA UnityCardinality == \A S : Unity!Cardinality(S) = Cardinality(S)
BY DEF Unity!Cardinality, Cardinality

LEMMA Appended ==
    ASSUME NEW S, NEW q \in Seq(S), NEW e \in S
    PROVE  /\ Append(q, e) \in Seq(S) /\ Len(Append(q, e)) = Len(q) + 1 /\ Len(q) \in Nat
           /\ \A i \in 1..Len(q) : Append(q, e)[i] = q[i]
           /\ Append(q, e)[Len(q) + 1] = e
           /\ \A i \in 1..(Len(q) + 1) : Append(q, e)[i] = IF i = Len(q) + 1 THEN e ELSE q[i]
OBVIOUS

LEMMA Tailed ==
    ASSUME NEW S, NEW q \in Seq(S), q # <<>>
    PROVE  /\ Tail(q) \in Seq(S) /\ Len(q) \in Nat \ {0} /\ Len(Tail(q)) = Len(q) - 1
           /\ Head(q) = q[1] /\ q[1] \in S
           /\ \A i \in 1..(Len(q) - 1) : Tail(q)[i] = q[i + 1]
OBVIOUS

LEMMA EventOf ==
    ASSUME NEW S, NEW q \in Seq(S), NEW i \in 1..Len(q)
    PROVE  q[i] \in S
OBVIOUS

LEMMA EventKinds ==
    ASSUME UnityTypes, NEW i \in Events
    PROVE  /\ unity_eventQueue[i] \in ClientEvent
           /\ unity_eventQueue[i].kind \in {"connect", "reconnect", "close", "receive"}
           /\ unity_eventQueue[i].buffer \in Seq(Unit)
<1>1. unity_eventQueue \in Seq(ClientEvent) /\ i \in 1..Len(unity_eventQueue)
  BY DEF UnityTypes, Events
<1>2. unity_eventQueue[i] \in ClientEvent
  BY <1>1, EventOf
<1>3. QED
  BY <1>2 DEF ClientEvent

LEMMA FreshFollows ==
    ASSUME UnityTypes, SocketsInOrder
    PROVE  /\ Cardinality(Unity!Created) \in Nat /\ Unity!Fresh = Cardinality(Unity!Created) + 1
           /\ Unity!Fresh \notin Unity!Created
           /\ Unity!Created = {} => Unity!Fresh = 1
           /\ \A s \in 1..MaxSockets : s \in Unity!Created <=> s < Unity!Fresh
<1>1. Unity!Created \subseteq 1..MaxSockets
  BY DEF Unity!Created
<1>2. MaxSockets \in Nat
  BY UnityAssumption
<1>3. IsFiniteSet(1..MaxSockets)
  BY <1>2, FS_Interval
<1>4. Cardinality(Unity!Created) \in Nat
  BY <1>1, <1>3, FS_Subset, FS_CardinalityType
<1>5. Unity!Fresh = Cardinality(Unity!Created) + 1
  BY UnityCardinality DEF Unity!Fresh
<1>6. Unity!Created = {} => Cardinality(Unity!Created) = 0
  BY FS_EmptySet
<1>7. QED
  BY <1>2, <1>4, <1>5, <1>6 DEF SocketsInOrder

\* A socket that is created takes the next number.
LEMMA Creates ==
    ASSUME UnityTypes, SocketsInOrder, Unity!Fresh \in 1..MaxSockets,
           unity_status' = [unity_status EXCEPT ![Unity!Fresh] = "connecting"], unity_socket' = unity_socket,
           \A o \in unity_ops' : o \in unity_ops \/ o.socket \in Unity!Created \/ o.socket = Unity!Fresh
    PROVE  SocketsInOrder' /\ Unity!Created' = Unity!Created \union {Unity!Fresh}
<1>1. Unity!Created' = Unity!Created \union {Unity!Fresh}
  BY DEF UnityTypes, Unity!Created
<1>2. IsFiniteSet(Unity!Created)
  <2>1. Unity!Created \subseteq 1..MaxSockets
    BY DEF Unity!Created
  <2>2. IsFiniteSet(1..MaxSockets)
    BY UnityAssumption, FS_Interval
  <2>3. QED
    BY <2>1, <2>2, FS_Subset
<1>3. Cardinality(Unity!Created') = Cardinality(Unity!Created) + 1
  BY <1>1, <1>2, FreshFollows, FS_AddElement
<1>4. QED
  BY <1>1, <1>3, FreshFollows DEF SocketsInOrder

\* Other changes are of sockets that are created.
LEMMA CreatesNone ==
    ASSUME UnityTypes, SocketsInOrder,
           \A s \in 1..MaxSockets : unity_status'[s] = "none" <=> unity_status[s] = "none",
           \A o \in unity_ops' : o.socket \in Unity!Created,
           unity_socket' \in Unity!Created \union {0}
    PROVE  SocketsInOrder'
<1>1. Unity!Created' = Unity!Created
  BY DEF Unity!Created
<1>2. QED
  BY <1>1 DEF SocketsInOrder

LEMMA SocketsStay ==
    ASSUME SocketsInOrder, UNCHANGED <<unity_socket, unity_status>>, unity_ops' \subseteq unity_ops
    PROVE  SocketsInOrder'
<1>1. Unity!Created' = Unity!Created
  BY DEF Unity!Created
<1>2. QED
  BY <1>1 DEF SocketsInOrder

LEMMA ClientBegins == Unity!Init => ClientInv
<1> SUFFICES ASSUME Unity!Init PROVE ClientInv
  OBVIOUS
<1>0. 1 \in 1..MaxSockets /\ MaxSockets \in Nat
  BY UnityAssumption
<1>1. UnityTypes
  <2>1. /\ unity_state = "Disconnected" /\ unity_socket = 0 /\ unity_ops = {}
        /\ unity_status = [s \in 1..MaxSockets |-> "none"]
        /\ unity_units = [s \in 1..MaxSockets |-> 0] /\ unity_sent = 0
        /\ unity_incoming = [s \in 1..MaxSockets |-> <<>>]
    BY DEF Unity!Init
  <2>2. /\ unity_eventQueue = <<>> /\ unity_sendQueue = <<>> /\ unity_recvBuffer = <<>>
        /\ unity_posted = <<>> /\ unity_handled = <<>>
    BY DEF Unity!Init
  <2>3. /\ unity_eventQueue \in Seq(ClientEvent) /\ unity_sendQueue \in Seq(Int)
        /\ unity_recvBuffer \in Seq(Unit) /\ unity_posted \in Seq(Int)
        /\ unity_handled \in Seq(Packet)
    BY <2>2
  <2>4. unity_incoming \in [1..MaxSockets -> Seq(Unit)]
    BY <2>1
  <2>5. unity_status \in [1..MaxSockets -> Statuses]
    BY <2>1 DEF Statuses
  <2>6. /\ unity_interrupted \in BOOLEAN /\ unity_closed_twice \in BOOLEAN /\ unity_cut \in BOOLEAN
        /\ redialed \in BOOLEAN
    BY DEF Unity!Init
  <2>7. QED
    BY <1>0, <2>1, <2>3, <2>4, <2>5, <2>6 DEF UnityTypes
<1>2. SocketsInOrder
  <2>1. Unity!Created = {}
    BY DEF Unity!Init, Unity!Created
  <2>2. QED
    BY <2>1, FS_EmptySet DEF SocketsInOrder, Unity!Init
<1>3. OneAtATime
  BY <1>0 DEF Unity!Init, OneAtATime, Live, Events
<1>4. MessagesInTurn
  BY DEF Unity!Init, MessagesInTurn
<1>5. QED
  BY <1>1, <1>2, <1>3, <1>4 DEF ClientInv

-----------------------------------------------------------------------------
(* Steps that leave the connections as they are. *)

\* No connect, no Close and no event comes or goes.
LEMMA SameConnection ==
    ASSUME OneAtATime, UNCHANGED <<unity_state, unity_socket, unity_status, unity_eventQueue>>,
           \A o : Connecting(o) \/ Closing(o) => (o \in unity_ops' <=> o \in unity_ops)
    PROVE  OneAtATime'
<1>1. Live' = Live /\ Events' = Events
  BY DEF Live, Events
<1>2. QED
  BY <1>1 DEF OneAtATime

LEMMA SameMessages ==
    ASSUME MessagesInTurn, UNCHANGED <<unity_sendQueue, unity_sent, unity_posted, unity_interrupted>>,
           unity_state' = "Connected" => unity_state = "Connected"
    PROVE  MessagesInTurn'
BY DEF MessagesInTurn

\* What Close does, of the operations os under way.
LEMMA CloseEffect ==
    ASSUME UnityTypes, NEW os \in SUBSET unity_ops, Unity!Close(os)
    PROVE  \/ /\ unity_socket \in Live
              /\ unity_status' = [unity_status EXCEPT ![unity_socket] = "shut"]
              /\ \E d : /\ d.kind = "disconnect" /\ d.socket = unity_socket
                       /\ d = [kind |-> d.kind, socket |-> d.socket, n |-> d.n]
                       /\ unity_ops' = os \union {d}
              /\ unity_closed_twice' = (unity_closed_twice \/ \E o \in os : Closing(o))
           \/ unity_ops' = os /\ UNCHANGED <<unity_status, unity_closed_twice>>
<1>1. CASE Unity!Usable(unity_socket)
  <2>1. unity_socket \in Live
    BY <1>1 DEF Unity!Usable, Live, UnityTypes
  <2>2. /\ unity_status' = [unity_status EXCEPT ![unity_socket] = "shut"]
        /\ unity_ops' = os \union {Unity!Op("disconnect", unity_socket, Unity!Cardinality(Unity!Disconnects(os)))}
        /\ unity_closed_twice' = (unity_closed_twice \/ Unity!Disconnects(os) # {})
    BY <1>1 DEF Unity!Close
  <2>3. Unity!Disconnects(os) # {} <=> \E o \in os : Closing(o)
    BY DEF Unity!Disconnects, Closing
  <2> DEFINE d == Unity!Op("disconnect", unity_socket, Unity!Cardinality(Unity!Disconnects(os)))
  <2>4. /\ d.kind = "disconnect" /\ d.socket = unity_socket
        /\ d = [kind |-> d.kind, socket |-> d.socket, n |-> d.n]
    BY DEF Unity!Op
  <2>5. unity_closed_twice' = (unity_closed_twice \/ \E o \in os : Closing(o))
    BY <2>2, <2>3
  <2> HIDE DEF d
  <2>6. unity_ops' = os \union {d}
    BY <2>2 DEF d
  <2>7. QED
    BY <2>1, <2>2, <2>4, <2>5, <2>6
<1>2. CASE ~Unity!Usable(unity_socket)
  BY <1>2 DEF Unity!Close
<1>3. QED
  BY <1>1, <1>2

\* Close, after an operation has ended or none.
LEMMA ClosesKeep ==
    ASSUME UnityTypes, SocketsInOrder, Calm => OneAtATime,
           NEW os \in SUBSET unity_ops, Unity!Close(os),
           \A o \in unity_ops \ os : ~Connecting(o) /\ ~Closing(o),
           UNCHANGED <<unity_state, unity_socket, unity_eventQueue, redialed>>
    PROVE  /\ unity_status' \in [1..MaxSockets -> Statuses]
           /\ \A o \in unity_ops' : /\ o.kind \in OpKinds /\ o.socket \in 1..MaxSockets
                                    /\ o = [kind |-> o.kind, socket |-> o.socket, n |-> o.n]
           /\ unity_closed_twice' \in BOOLEAN
           /\ SocketsInOrder'
           /\ Calm' => OneAtATime'
<1>1. CASE /\ unity_socket \in Live
           /\ unity_status' = [unity_status EXCEPT ![unity_socket] = "shut"]
           /\ unity_closed_twice' = (unity_closed_twice \/ \E o \in os : Closing(o))
           /\ \E d : /\ d.kind = "disconnect" /\ d.socket = unity_socket
                    /\ d = [kind |-> d.kind, socket |-> d.socket, n |-> d.n]
                    /\ unity_ops' = os \union {d}
  <2>1. PICK d : /\ d.kind = "disconnect" /\ d.socket = unity_socket
                 /\ d = [kind |-> d.kind, socket |-> d.socket, n |-> d.n]
                 /\ unity_ops' = os \union {d}
    BY <1>1
  <2>2. unity_status' \in [1..MaxSockets -> Statuses]
    BY <1>1 DEF UnityTypes, Statuses
  <2>3. \A o \in unity_ops' : /\ o.kind \in OpKinds /\ o.socket \in 1..MaxSockets
                              /\ o = [kind |-> o.kind, socket |-> o.socket, n |-> o.n]
    BY <1>1, <2>1 DEF UnityTypes, OpKinds, Live
  <2>4. unity_closed_twice' \in BOOLEAN
    BY <1>1 DEF UnityTypes
  <2>5. SocketsInOrder'
    <3>1. \A s \in 1..MaxSockets : unity_status'[s] = "none" <=> unity_status[s] = "none"
      BY <1>1 DEF UnityTypes, Live
    <3>2. unity_socket \in Unity!Created
      BY <1>1 DEF UnityTypes, Live, Unity!Created
    <3>3. \A o \in unity_ops' : o.socket \in Unity!Created
      BY <2>1, <3>2 DEF SocketsInOrder
    <3>4. QED
      BY <3>1, <3>2, <3>3, CreatesNone
  <2>6. ASSUME Calm' PROVE OneAtATime'
    <3>1. Calm /\ \A o \in unity_ops : ~Closing(o)
      BY <1>1, <2>6 DEF Calm
    <3>2. Live' = Live /\ Events' = Events
      BY <1>1 DEF Live, Events, UnityTypes
    <3>3. /\ Closing(d) /\ ~Connecting(d) /\ d.socket = unity_socket /\ d.kind # "closed"
      BY <2>1 DEF Closing, Connecting
    <3>4. \A o : o \in unity_ops' <=> o \in os \/ o = d
      BY <2>1
    <3>5. OneAtATime
      BY <3>1
    <3>6. QED
      BY <1>1, <3>1, <3>2, <3>3, <3>4, <3>5 DEF OneAtATime
  <2>7. QED
    BY <2>2, <2>3, <2>4, <2>5, <2>6
<1>2. CASE unity_ops' = os /\ UNCHANGED <<unity_status, unity_closed_twice>>
  <2>1. SocketsInOrder'
    BY <1>2, SocketsStay
  <2>2. Calm' => OneAtATime'
    BY <1>2, SameConnection DEF Calm
  <2>3. QED
    BY <1>2, <2>1, <2>2 DEF UnityTypes
<1>3. QED
  BY <1>1, <1>2, CloseEffect

LEMMA ConnectKeepsClient ==
    ASSUME ClientInv, Unity!Connect
    PROVE  ClientInv'
<1> USE DEF ClientInv, Calm
<1>1. /\ unity_state = "Disconnected" /\ Unity!Created = {} /\ unity_state' = "OnConnecting"
      /\ UNCHANGED <<unity_socket, unity_eventQueue, unity_sendQueue, unity_recvBuffer, unity_incoming, unity_units>>
      /\ UNCHANGED <<unity_sent, unity_posted, unity_handled, unity_interrupted, redialed, unity_closed_twice, unity_cut>>
  BY DEF Unity!Connect, Unity!history
<1>2. \/ /\ unity_ops' = unity_ops \union {[kind |-> "connect", socket |-> 1, n |-> 0]}
         /\ unity_status' = [unity_status EXCEPT ![1] = "connecting"]
      \/ UNCHANGED <<unity_ops, unity_status>>
  BY <1>1, FreshFollows DEF Unity!Connect, Unity!Op
<1>3. 1 \in 1..MaxSockets /\ Unity!Fresh = 1
  BY <1>1, UnityAssumption, FreshFollows
<1>4. MessagesInTurn'
  BY <1>1, SameMessages
<1>5. CASE UNCHANGED <<unity_ops, unity_status>>
  <2>1. UnityTypes'
    BY <1>1, <1>5 DEF UnityTypes
  <2>2. SocketsInOrder'
    BY <1>1, <1>5, SocketsStay
  <2>3. Calm' => OneAtATime'
    <3>1. Live' = Live /\ Events' = Events
      BY <1>1, <1>5 DEF Live, Events
    <3>2. QED
      BY <1>1, <1>5, <3>1 DEF OneAtATime
  <2>4. QED
    BY <1>4, <2>1, <2>2, <2>3
<1>6. CASE /\ unity_ops' = unity_ops \union {[kind |-> "connect", socket |-> 1, n |-> 0]}
           /\ unity_status' = [unity_status EXCEPT ![1] = "connecting"]
  <2> DEFINE d == [kind |-> "connect", socket |-> 1, n |-> 0]
  <2>0. d.kind = "connect" /\ d.socket = 1 /\ d = [kind |-> d.kind, socket |-> d.socket, n |-> d.n]
    OBVIOUS
  <2> HIDE DEF d
  <2>1. unity_ops' = unity_ops \union {d}
    BY <1>6 DEF d
  <2>2. UnityTypes'
    <3>1. \A o \in unity_ops' : /\ o.kind \in OpKinds /\ o.socket \in 1..MaxSockets
                                /\ o = [kind |-> o.kind, socket |-> o.socket, n |-> o.n]
      BY <1>3, <2>0, <2>1 DEF UnityTypes, OpKinds
    <3>2. unity_status' \in [1..MaxSockets -> Statuses]
      BY <1>6 DEF UnityTypes, Statuses
    <3>3. QED
      BY <1>1, <3>1, <3>2 DEF UnityTypes
  <2>3. SocketsInOrder'
    BY <1>1, <1>3, <1>6, Creates
  <2>4. Calm' => OneAtATime'
    <3>1. Live' \subseteq Live /\ Events' = Events
      BY <1>1, <1>6 DEF Live, Events, UnityTypes
    <3>2. Connecting(d) /\ ~Closing(d)
      BY <2>0 DEF Connecting, Closing
    <3>3. \A i \in Events : unity_eventQueue[i].kind \in {"connect", "reconnect", "close", "receive"}
      BY EventKinds
    <3>4. QED
      BY <1>1, <2>1, <3>1, <3>2, <3>3 DEF OneAtATime, Connecting
  <2>5. QED
    BY <1>4, <2>2, <2>3, <2>4
<1>7. QED
  BY <1>2, <1>5, <1>6

-----------------------------------------------------------------------------
(* Messages of the game. *)

LEMMA SendKeepsClient ==
    ASSUME ClientInv, Unity!AsyncSend
    PROVE  ClientInv'
<1> USE DEF ClientInv, Calm
<1>1. /\ unity_sent' = unity_sent + 1
      /\ Unity!Reconnect(unity_sent') \/ Unity!PostSend(unity_sent')
      /\ UNCHANGED <<unity_socket, unity_eventQueue, unity_recvBuffer, unity_incoming, unity_units,
                     unity_handled, unity_interrupted, redialed, unity_cut>>
  BY DEF Unity!AsyncSend
<1>2. unity_sent \in Nat /\ unity_sent' \in Nat
  BY <1>1 DEF UnityTypes
<1> DEFINE m == unity_sent'
<1>3. ASSUME unity_sendQueue' = Append(unity_sendQueue, m), unity_posted' = unity_posted,
             unity_state' # "Connected", unity_state # "Connected"
      PROVE  MessagesInTurn'
  <2>1. /\ Len(unity_sendQueue') = Len(unity_sendQueue) + 1 /\ Len(unity_sendQueue) \in Nat
        /\ \A i \in 1..(Len(unity_sendQueue) + 1) :
             unity_sendQueue'[i] = IF i = Len(unity_sendQueue) + 1 THEN m ELSE unity_sendQueue[i]
    BY <1>2, <1>3, Appended DEF UnityTypes
  <2>2. /\ \A i \in 1..Len(unity_sendQueue) : unity_sendQueue[i] \in Int
        /\ \A i \in 1..Len(unity_posted) : unity_posted[i] \in Int
    BY DEF UnityTypes
  <2> HIDE DEF m
  <2>3. m = unity_sent + 1
    BY <1>1 DEF m
  <2>4. QED
    BY <1>1, <1>2, <1>3, <2>1, <2>2, <2>3 DEF MessagesInTurn
<1>4. CASE Unity!Reconnect(m)
  <2>1. /\ unity_state = "Disconnected" /\ Unity!Fresh \in 1..MaxSockets
        /\ unity_state' = "OnConnecting" /\ unity_sendQueue' = Append(unity_sendQueue, m)
        /\ unity_ops' = unity_ops \union {[kind |-> "reconnect", socket |-> Unity!Fresh, n |-> 0]}
        /\ unity_status' = [unity_status EXCEPT ![Unity!Fresh] = "connecting"]
        /\ UNCHANGED <<unity_posted, unity_closed_twice>>
    BY <1>4 DEF Unity!Reconnect, Unity!Op
  <2> DEFINE d == [kind |-> "reconnect", socket |-> Unity!Fresh, n |-> 0]
  <2>2. d.kind = "reconnect" /\ d.socket = Unity!Fresh /\ d = [kind |-> d.kind, socket |-> d.socket, n |-> d.n]
    OBVIOUS
  <2>3. unity_ops' = unity_ops \union {d}
    BY <2>1
  <2> HIDE DEF d
  <2>4. UnityTypes'
    <3>1. \A o \in unity_ops' : /\ o.kind \in OpKinds /\ o.socket \in 1..MaxSockets
                                /\ o = [kind |-> o.kind, socket |-> o.socket, n |-> o.n]
      BY <2>1, <2>2, <2>3 DEF UnityTypes, OpKinds
    <3>2. unity_status' \in [1..MaxSockets -> Statuses]
      BY <2>1 DEF UnityTypes, Statuses
    <3>3. unity_sendQueue' \in Seq(Int)
      BY <1>2, <2>1, Appended DEF UnityTypes
    <3>4. QED
      BY <1>1, <1>2, <2>1, <3>1, <3>2, <3>3 DEF UnityTypes
  <2>5. SocketsInOrder'
    BY <1>1, <2>1, Creates
  <2>6. Calm' => OneAtATime'
    <3>1. Live' \subseteq Live /\ Events' = Events
      BY <1>1, <2>1 DEF Live, Events, UnityTypes
    <3>2. Connecting(d) /\ ~Closing(d)
      BY <2>2 DEF Connecting, Closing
    <3>3. \A i \in Events : unity_eventQueue[i].kind \in {"connect", "reconnect", "close", "receive"}
      BY EventKinds
    <3>4. QED
      BY <1>1, <2>1, <2>3, <3>1, <3>2, <3>3 DEF OneAtATime, Connecting
  <2>7. MessagesInTurn'
    BY <1>3, <2>1
  <2>8. QED
    BY <2>4, <2>5, <2>6, <2>7
<1>5. CASE /\ unity_state = "OnConnecting" /\ unity_sendQueue' = Append(unity_sendQueue, m)
           /\ UNCHANGED <<unity_state, unity_ops, unity_status, unity_posted, unity_closed_twice>>
  <2>1. UnityTypes'
    <3>1. unity_sendQueue' \in Seq(Int)
      BY <1>2, <1>5, Appended DEF UnityTypes
    <3>2. QED
      BY <1>1, <1>2, <1>5, <3>1 DEF UnityTypes
  <2>2. SocketsInOrder'
    BY <1>1, <1>5, SocketsStay
  <2>3. Calm' => OneAtATime'
    BY <1>1, <1>5, SameConnection
  <2>4. MessagesInTurn'
    BY <1>3, <1>5
  <2>5. QED
    BY <2>1, <2>2, <2>3, <2>4
<1>6. CASE /\ unity_state = "Connected" /\ Unity!Writable(unity_socket)
           /\ unity_ops' = unity_ops \union {Unity!Op("send", unity_socket, m)}
           /\ unity_posted' = Append(unity_posted, m)
           /\ UNCHANGED <<unity_state, unity_sendQueue, unity_status, unity_closed_twice>>
  <2> DEFINE d == Unity!Op("send", unity_socket, m)
  <2>1. d.kind = "send" /\ d.socket = unity_socket /\ d = [kind |-> d.kind, socket |-> d.socket, n |-> d.n]
    BY DEF Unity!Op
  <2>2. unity_ops' = unity_ops \union {d} /\ unity_socket \in 1..MaxSockets
    BY <1>6 DEF Unity!Writable, UnityTypes
  <2> HIDE DEF d
  <2>3. UnityTypes'
    <3>1. \A o \in unity_ops' : /\ o.kind \in OpKinds /\ o.socket \in 1..MaxSockets
                                /\ o = [kind |-> o.kind, socket |-> o.socket, n |-> o.n]
      BY <2>1, <2>2 DEF UnityTypes, OpKinds
    <3>2. unity_posted' \in Seq(Int)
      BY <1>2, <1>6, Appended DEF UnityTypes
    <3>3. QED
      BY <1>1, <1>2, <1>6, <3>1, <3>2 DEF UnityTypes
  <2>4. SocketsInOrder'
    <3>1. unity_socket \in Unity!Created /\ unity_socket' = unity_socket
      BY <1>1, <2>2, UnityAssumption DEF SocketsInOrder
    <3>2. \A o \in unity_ops' : o.socket \in Unity!Created
      BY <2>1, <2>2, <3>1 DEF SocketsInOrder
    <3>3. QED
      BY <1>6, <3>1, <3>2, CreatesNone
  <2>5. Calm' => OneAtATime'
    <3>1. \A o : Connecting(o) \/ Closing(o) => (o \in unity_ops' <=> o \in unity_ops)
      BY <2>1, <2>2 DEF Connecting, Closing
    <3>2. QED
      BY <1>1, <1>6, <3>1, SameConnection
  <2>6. MessagesInTurn'
    <3>1. /\ Len(unity_posted') = Len(unity_posted) + 1 /\ Len(unity_posted) \in Nat
          /\ \A i \in 1..(Len(unity_posted) + 1) :
               unity_posted'[i] = IF i = Len(unity_posted) + 1 THEN m ELSE unity_posted[i]
      BY <1>2, <1>6, Appended DEF UnityTypes
    <3>2. \A i \in 1..Len(unity_posted) : unity_posted[i] \in Int
      BY DEF UnityTypes
    <3> HIDE DEF m
    <3>3. m = unity_sent + 1
      BY <1>1 DEF m
    <3>4. ~unity_interrupted => \A i \in 1..Len(unity_sendQueue') : ~(unity_sendQueue'[i] > 0)
      BY <1>6 DEF MessagesInTurn
    <3>5. SUFFICES ASSUME ~unity_interrupted' PROVE MessagesInTurn'
      BY DEF MessagesInTurn
    <3>6. /\ \A i, j \in 1..Len(unity_posted) :
               i < j /\ unity_posted[i] > 0 /\ unity_posted[j] > 0 => unity_posted[i] < unity_posted[j]
          /\ \A i \in 1..Len(unity_posted) : unity_posted[i] <= unity_sent
          /\ \A i \in 1..Len(unity_sendQueue) : unity_sendQueue[i] <= unity_sent
          /\ unity_sendQueue' = unity_sendQueue /\ unity_sent \in Nat /\ unity_sent' = m
      BY <1>1, <1>6, <3>3, <3>5 DEF MessagesInTurn, UnityTypes
    <3>7. \A i \in 1..Len(unity_sendQueue') : ~(unity_sendQueue'[i] > 0)
      BY <1>1, <3>4, <3>5
    <3>8. \A i, j \in 1..Len(unity_posted') :
            i < j /\ unity_posted'[i] > 0 /\ unity_posted'[j] > 0 => unity_posted'[i] < unity_posted'[j]
      <4>1. SUFFICES ASSUME NEW i \in 1..Len(unity_posted'), NEW j \in 1..Len(unity_posted'), i < j,
                            unity_posted'[i] > 0, unity_posted'[j] > 0
                     PROVE  unity_posted'[i] < unity_posted'[j]
        OBVIOUS
      <4>2. i \in 1..Len(unity_posted) /\ unity_posted'[i] = unity_posted[i]
        BY <3>1, <4>1
      <4>3. CASE j = Len(unity_posted) + 1
        BY <3>1, <3>2, <3>3, <3>6, <4>2, <4>3
      <4>4. CASE j \in 1..Len(unity_posted) /\ unity_posted'[j] = unity_posted[j]
        BY <3>6, <4>1, <4>2, <4>4
      <4>5. QED
        BY <3>1, <4>3, <4>4
    <3>9. \A i \in 1..Len(unity_posted') : unity_posted'[i] <= unity_sent'
      <4>1. \A i \in 1..Len(unity_posted') :
              \/ unity_posted'[i] = m
              \/ i \in 1..Len(unity_posted) /\ unity_posted'[i] = unity_posted[i]
        BY <3>1
      <4>2. QED
        BY <3>2, <3>3, <3>6, <4>1
    <3>10. \A i \in 1..Len(unity_sendQueue') : unity_sendQueue'[i] <= unity_sent'
      <4>1. \A i \in 1..Len(unity_sendQueue) : unity_sendQueue[i] \in Int
        BY DEF UnityTypes
      <4>2. QED
        BY <3>3, <3>6, <4>1
    <3>11. QED
      BY <3>6, <3>7, <3>8, <3>9, <3>10 DEF MessagesInTurn
  <2>7. QED
    BY <2>3, <2>4, <2>5, <2>6
<1>7. CASE Unity!Close(unity_ops) /\ UNCHANGED <<unity_state, unity_sendQueue, unity_posted>>
  <2>1. /\ unity_status' \in [1..MaxSockets -> Statuses]
        /\ \A o \in unity_ops' : /\ o.kind \in OpKinds /\ o.socket \in 1..MaxSockets
                                 /\ o = [kind |-> o.kind, socket |-> o.socket, n |-> o.n]
        /\ unity_closed_twice' \in BOOLEAN /\ SocketsInOrder'
        /\ Calm' => OneAtATime'
    BY <1>1, <1>7, ClosesKeep
  <2>2. UnityTypes'
    BY <1>1, <1>2, <1>7, <2>1 DEF UnityTypes
  <2>3. MessagesInTurn'
    <3>1. /\ \A i \in 1..Len(unity_sendQueue) : unity_sendQueue[i] \in Int
          /\ \A i \in 1..Len(unity_posted) : unity_posted[i] \in Int
      BY DEF UnityTypes
    <3>2. QED
      BY <1>1, <1>2, <1>7, <3>1 DEF MessagesInTurn
  <2>4. QED
    BY <2>1, <2>2, <2>3
<1>8. CASE Unity!PostSend(m)
  BY <1>5, <1>6, <1>7, <1>8 DEF Unity!PostSend
<1>9. QED
  BY <1>1, <1>4, <1>8

LEMMA CloseByGameKeepsClient ==
    ASSUME ClientInv, Unity!CloseByGame
    PROVE  ClientInv'
<1> USE DEF ClientInv, Calm
<1>1. /\ Unity!Close(unity_ops)
      /\ UNCHANGED <<unity_state, unity_socket, unity_eventQueue, unity_sendQueue, unity_recvBuffer, unity_incoming,
                     unity_units, unity_sent, unity_posted, unity_handled, unity_interrupted, redialed, unity_cut>>
  BY DEF Unity!CloseByGame, Unity!client
<1>2. /\ unity_status' \in [1..MaxSockets -> Statuses]
      /\ \A o \in unity_ops' : /\ o.kind \in OpKinds /\ o.socket \in 1..MaxSockets
                               /\ o = [kind |-> o.kind, socket |-> o.socket, n |-> o.n]
      /\ unity_closed_twice' \in BOOLEAN /\ SocketsInOrder'
      /\ Calm' => OneAtATime'
  BY <1>1, ClosesKeep
<1>3. UnityTypes'
  BY <1>1, <1>2 DEF UnityTypes
<1>4. MessagesInTurn'
  BY <1>1, SameMessages
<1>5. QED
  BY <1>2, <1>3, <1>4

-----------------------------------------------------------------------------
(* Update. *)

LEMMA TakesHead ==
    ASSUME UnityTypes, unity_eventQueue # <<>>, unity_eventQueue' = Tail(unity_eventQueue)
    PROVE  /\ unity_eventQueue' \in Seq(ClientEvent)
           /\ Len(unity_eventQueue) \in Nat \ {0} /\ 1 \in Events
           /\ Events' = 1..(Len(unity_eventQueue) - 1)
           /\ Head(unity_eventQueue) = unity_eventQueue[1]
           /\ \A i \in Events' : i + 1 \in Events /\ unity_eventQueue'[i] = unity_eventQueue[i + 1]
BY Tailed DEF UnityTypes, Events

\* A head that is not the end of what Update waits for.
LEMMA TakenKeeps ==
    ASSUME UnityTypes, OneAtATime, unity_eventQueue # <<>>, unity_eventQueue' = Tail(unity_eventQueue),
           UNCHANGED <<unity_socket, unity_status>>,
           \A o : Connecting(o) \/ Closing(o) => (o \in unity_ops' <=> o \in unity_ops),
           \/ /\ Head(unity_eventQueue).kind \in {"connect", "reconnect"} /\ unity_state' = "Connected"
           \/ /\ Head(unity_eventQueue).kind = "close" /\ unity_state' = "Disconnected"
           \/ /\ Head(unity_eventQueue).kind = "receive" /\ unity_state' = unity_state
    PROVE  OneAtATime'
<1>1. Live' = Live
  BY DEF Live
<1>2. /\ Len(unity_eventQueue) \in Nat \ {0} /\ 1 \in Events
      /\ Events' = 1..(Len(unity_eventQueue) - 1) /\ Events = 1..Len(unity_eventQueue)
      /\ Head(unity_eventQueue) = unity_eventQueue[1]
      /\ \A i \in Events' : i + 1 \in Events /\ unity_eventQueue'[i] = unity_eventQueue[i + 1]
  BY TakesHead DEF Events
<1>3. \A i \in Events : unity_eventQueue[i].kind \in {"connect", "reconnect", "close", "receive"}
  BY EventKinds
<1>4. \A i, j \in Events' : (i < j <=> i + 1 < j + 1) /\ (i = j <=> i + 1 = j + 1)
  BY <1>2
<1>5. CASE Head(unity_eventQueue).kind \in {"connect", "reconnect"} /\ unity_state' = "Connected"
  <2>1. \A o \in unity_ops : ~Connecting(o)
    BY <1>2, <1>5 DEF OneAtATime
  <2>2. Connecting(unity_eventQueue[1])
    BY <1>2, <1>5 DEF Connecting
  <2>3. \A i \in Events : i # 1 => unity_eventQueue[i].kind \in {"close", "receive"}
    BY <1>2, <1>3, <2>2 DEF OneAtATime
  <2>4. \A i \in Events' : unity_eventQueue'[i].kind \in {"close", "receive"}
    BY <1>2, <2>3
  <2>5. /\ \A o \in unity_ops' : ~Connecting(o)
        /\ \A i \in Events' : ~Connecting(unity_eventQueue'[i])
    BY <2>1, <2>4 DEF Connecting
  <2>6. \A o \in unity_ops' : Closing(o) => o \in unity_ops
    OBVIOUS
  <2>7. \A i \in Events' : unity_eventQueue'[i].kind = "close" =>
          /\ Live = {} /\ \A o \in unity_ops : ~Closing(o)
          /\ \A j \in Events' : unity_eventQueue'[j].kind = "close" => i = j
    BY <1>2, <1>4 DEF OneAtATime
  <2>8. QED
    BY <1>1, <1>5, <2>5, <2>6, <2>7 DEF OneAtATime
<1>6. CASE Head(unity_eventQueue).kind = "close" /\ unity_state' = "Disconnected"
  <2>1. /\ Live = {} /\ \A o \in unity_ops : ~Closing(o)
        /\ \A j \in Events : unity_eventQueue[j].kind = "close" => j = 1
    BY <1>2, <1>6 DEF OneAtATime
  <2>2. \A o \in unity_ops : ~Connecting(o)
    BY <1>2, <1>6 DEF OneAtATime
  <2>3. \A i \in Events : ~Connecting(unity_eventQueue[i])
    <3>1. SUFFICES ASSUME NEW i \in Events, Connecting(unity_eventQueue[i]) PROVE FALSE
      OBVIOUS
    <3>2. i # 1
      BY <1>2, <1>6, <3>1 DEF Connecting
    <3>3. i < 1
      BY <1>2, <1>6, <3>1, <3>2 DEF OneAtATime
    <3>4. QED
      BY <1>2, <3>3
  <2>4. /\ \A o \in unity_ops' : ~Connecting(o) /\ ~Closing(o)
        /\ \A i \in Events' : ~Connecting(unity_eventQueue'[i]) /\ unity_eventQueue'[i].kind # "close"
    BY <1>2, <2>1, <2>2, <2>3
  <2>5. QED
    BY <1>1, <1>6, <2>1, <2>4 DEF OneAtATime
<1>7. CASE Head(unity_eventQueue).kind = "receive" /\ unity_state' = unity_state
  <2>1. /\ \A i \in Events' : \E j \in Events : j = i + 1 /\ unity_eventQueue'[i] = unity_eventQueue[j]
        /\ \A o \in unity_ops' : Connecting(o) \/ Closing(o) => o \in unity_ops
    BY <1>2
  <2>2. /\ unity_state' # "OnConnecting" =>
             /\ \A o \in unity_ops' : ~Connecting(o)
             /\ \A i \in Events' : ~Connecting(unity_eventQueue'[i])
        /\ unity_state' = "Disconnected" =>
             /\ Live' = {} /\ \A o \in unity_ops' : ~Closing(o)
             /\ \A i \in Events' : unity_eventQueue'[i].kind # "close"
        /\ \A c \in unity_ops' : Connecting(c) =>
             /\ Live' = {} /\ \A o \in unity_ops' : ~Closing(o) /\ (Connecting(o) => o = c)
             /\ \A i \in Events' : unity_eventQueue'[i].kind = "receive"
    BY <1>1, <1>7, <2>1 DEF OneAtATime
  <2>3. \A i, j \in Events' :
          Connecting(unity_eventQueue'[i]) /\ unity_eventQueue'[j].kind # "receive" /\ i # j =>
            i < j /\ unity_eventQueue'[j].kind = "close"
    BY <1>2, <1>4 DEF OneAtATime
  <2>4. \A i \in Events' : unity_eventQueue'[i].kind = "close" =>
          /\ Live' = {} /\ \A o \in unity_ops' : ~Closing(o)
          /\ \A j \in Events' : unity_eventQueue'[j].kind = "close" => i = j
    <3>1. SUFFICES ASSUME NEW i \in Events', unity_eventQueue'[i].kind = "close"
                   PROVE  /\ Live' = {} /\ \A o \in unity_ops' : ~Closing(o)
                          /\ \A j \in Events' : unity_eventQueue'[j].kind = "close" => i = j
      OBVIOUS
    <3>2. i + 1 \in Events /\ unity_eventQueue[i + 1].kind = "close"
      BY <1>2, <3>1
    <3>3. /\ Live = {} /\ \A o \in unity_ops : ~Closing(o)
          /\ \A j \in Events : unity_eventQueue[j].kind = "close" => i + 1 = j
      BY <3>2 DEF OneAtATime
    <3>4. QED
      BY <1>1, <1>2, <1>4, <2>1, <3>3
  <2>5. QED
    BY <1>1, <2>1, <2>2, <2>3, <2>4 DEF OneAtATime
<1>8. QED
  BY <1>5, <1>6, <1>7

LEMMA ConnectEventKeepsClient ==
    ASSUME ClientInv, Unity!ConnectEvent
    PROVE  ClientInv'
<1> USE DEF ClientInv, Calm
<1>1. /\ unity_eventQueue # <<>> /\ Head(unity_eventQueue).kind = "connect"
      /\ unity_eventQueue' = Tail(unity_eventQueue) /\ unity_state' = "Connected" /\ unity_sendQueue' = <<>>
      /\ UNCHANGED <<unity_socket, unity_recvBuffer, unity_status, unity_ops, unity_incoming, unity_units>>
      /\ UNCHANGED <<unity_sent, unity_posted, unity_handled, unity_interrupted, redialed, unity_closed_twice, unity_cut>>
  BY DEF Unity!ConnectEvent, Unity!Takes, Unity!network, Unity!history
<1>2. unity_eventQueue' \in Seq(ClientEvent) /\ unity_sendQueue' \in Seq(Int) /\ Len(unity_sendQueue') = 0
  BY <1>1, TakesHead
<1>3. UnityTypes'
  BY <1>1, <1>2 DEF UnityTypes
<1>4. SocketsInOrder'
  BY <1>1, SocketsStay
<1>5. Calm' => OneAtATime'
  BY <1>1, TakenKeeps
<1>6. MessagesInTurn'
  BY <1>1, <1>2 DEF MessagesInTurn
<1>7. QED
  BY <1>3, <1>4, <1>5, <1>6

LEMMA CloseEventKeepsClient ==
    ASSUME ClientInv, Unity!CloseEvent
    PROVE  ClientInv'
<1> USE DEF ClientInv, Calm
<1>1. /\ unity_eventQueue # <<>> /\ Head(unity_eventQueue).kind = "close"
      /\ unity_eventQueue' = Tail(unity_eventQueue) /\ unity_state' = "Disconnected"
      /\ UNCHANGED <<unity_socket, unity_sendQueue, unity_recvBuffer, unity_status, unity_ops>>
      /\ UNCHANGED <<unity_incoming, unity_units>>
      /\ UNCHANGED <<unity_sent, unity_posted, unity_handled, unity_interrupted, redialed, unity_closed_twice, unity_cut>>
  BY DEF Unity!CloseEvent, Unity!Takes, Unity!network, Unity!history
<1>2. unity_eventQueue' \in Seq(ClientEvent)
  BY <1>1, TakesHead
<1>3. UnityTypes'
  BY <1>1, <1>2 DEF UnityTypes
<1>4. SocketsInOrder'
  BY <1>1, SocketsStay
<1>5. Calm' => OneAtATime'
  BY <1>1, TakenKeeps
<1>6. MessagesInTurn'
  BY <1>1, SameMessages
<1>7. QED
  BY <1>3, <1>4, <1>5, <1>6

LEMMA Front ==
    ASSUME NEW q \in Seq(Int), NEW n \in 0..Len(q)
    PROVE  /\ SubSeq(q, 1, n) \in Seq(Int) /\ Len(SubSeq(q, 1, n)) = n
           /\ \A i \in 1..n : SubSeq(q, 1, n)[i] = q[i]
OBVIOUS

LEMMA Joined ==
    ASSUME NEW q \in Seq(Int), NEW r \in Seq(Int)
    PROVE  /\ q \o r \in Seq(Int) /\ Len(q \o r) = Len(q) + Len(r) /\ Len(q) \in Nat /\ Len(r) \in Nat
           /\ \A i \in 1..(Len(q) + Len(r)) : (q \o r)[i] = IF i <= Len(q) THEN q[i] ELSE r[i - Len(q)]
OBVIOUS

LEMMA ReconnectEventKeepsClient ==
    ASSUME ClientInv, Unity!ReconnectEvent
    PROVE  ClientInv'
<1> USE DEF ClientInv, Calm
<1>1. /\ unity_eventQueue # <<>> /\ Head(unity_eventQueue).kind = "reconnect"
      /\ unity_eventQueue' = Tail(unity_eventQueue) /\ unity_state' = "Connected"
      /\ UNCHANGED <<unity_socket, unity_recvBuffer, unity_status, unity_incoming, unity_units, unity_sent,
                     unity_handled, redialed, unity_closed_twice, unity_cut>>
  BY DEF Unity!ReconnectEvent, Unity!Takes
<1>2. PICK n \in 0..Len(unity_sendQueue) :
        /\ n > 0 => unity_socket # 0
        /\ unity_ops' = unity_ops \union {Unity!Op("send", unity_socket, unity_sendQueue[i]) : i \in 1..n}
        /\ unity_posted' = unity_posted \o SubSeq(unity_sendQueue, 1, n)
        /\ IF n = Len(unity_sendQueue) THEN unity_sendQueue' = <<>> /\ unity_interrupted' = unity_interrupted
           ELSE unity_sendQueue' = SubSeq(unity_sendQueue, n + 2, Len(unity_sendQueue)) /\ unity_interrupted'
  BY DEF Unity!ReconnectEvent, Unity!Sends
<1>3. /\ unity_sendQueue \in Seq(Int) /\ unity_posted \in Seq(Int) /\ n \in Nat
      /\ Len(unity_sendQueue) \in Nat
  BY DEF UnityTypes
<1>4. unity_sendQueue' \in Seq(Int) /\ unity_interrupted' \in BOOLEAN
  <2>1. CASE n = Len(unity_sendQueue)
    BY <1>2, <2>1 DEF UnityTypes
  <2>2. CASE n # Len(unity_sendQueue)
    <3>1. unity_interrupted' \in BOOLEAN
      BY <1>2, <2>2
    <3>2. SubSeq(unity_sendQueue, n + 2, Len(unity_sendQueue)) \in Seq(Int)
      BY <1>3, <2>2
    <3>3. QED
      BY <1>2, <2>2, <3>1, <3>2
  <2>3. QED
    BY <2>1, <2>2
<1> DEFINE front == SubSeq(unity_sendQueue, 1, n)
<1>5. /\ front \in Seq(Int) /\ Len(front) = n
      /\ \A i \in 1..n : front[i] = unity_sendQueue[i]
  BY <1>2, <1>3, Front
<1> HIDE DEF front
<1>6. /\ unity_posted' \in Seq(Int) /\ Len(unity_posted') = Len(unity_posted) + n /\ Len(unity_posted) \in Nat
      /\ \A i \in 1..(Len(unity_posted) + n) :
           unity_posted'[i] = IF i <= Len(unity_posted) THEN unity_posted[i] ELSE front[i - Len(unity_posted)]
  BY <1>2, <1>3, <1>5, Joined DEF front
<1>7. \A o \in unity_ops' : o \in unity_ops \/
         /\ o.kind = "send" /\ o.socket \in 1..MaxSockets
         /\ o = [kind |-> o.kind, socket |-> o.socket, n |-> o.n]
  <2>1. n > 0 => unity_socket \in 1..MaxSockets
    BY <1>2 DEF UnityTypes
  <2>2. \A i \in 1..n : LET o == Unity!Op("send", unity_socket, unity_sendQueue[i]) IN
           /\ o.kind = "send" /\ o.socket \in 1..MaxSockets
           /\ o = [kind |-> o.kind, socket |-> o.socket, n |-> o.n]
    BY <1>3, <2>1 DEF Unity!Op
  <2>3. \A o \in unity_ops' : o \in unity_ops \/ \E i \in 1..n : o = Unity!Op("send", unity_socket, unity_sendQueue[i])
    BY <1>2
  <2>4. QED
    BY <2>2, <2>3
<1>8. UnityTypes'
  <2>1. \A o \in unity_ops' : /\ o.kind \in OpKinds /\ o.socket \in 1..MaxSockets
                              /\ o = [kind |-> o.kind, socket |-> o.socket, n |-> o.n]
    BY <1>7 DEF UnityTypes, OpKinds
  <2>2. unity_eventQueue' \in Seq(ClientEvent)
    BY <1>1, TakesHead
  <2>3. QED
    BY <1>1, <1>4, <1>6, <2>1, <2>2 DEF UnityTypes
<1>9. SocketsInOrder'
  <2>1. n > 0 => unity_socket # 0
    BY <1>2
  <2>2. \A o \in unity_ops' : o \in unity_ops \/ (o.socket = unity_socket /\ o.socket # 0)
    BY <1>2, <1>3, <2>1 DEF Unity!Op
  <2>3. \A o \in unity_ops' : o.socket \in Unity!Created
    BY <2>2 DEF SocketsInOrder
  <2>4. unity_socket' \in Unity!Created \union {0}
    BY <1>1 DEF SocketsInOrder
  <2>5. QED
    BY <1>1, <2>3, <2>4, CreatesNone
<1>10. Calm' => OneAtATime'
  <2>1. unity_ops \subseteq unity_ops'
    BY <1>2
  <2>2. \A o : Connecting(o) \/ Closing(o) => (o \in unity_ops' <=> o \in unity_ops)
    BY <1>7, <2>1 DEF Connecting, Closing
  <2>3. QED
    BY <1>1, <2>2, TakenKeeps
<1>11. MessagesInTurn'
  <2>1. SUFFICES ASSUME ~unity_interrupted' PROVE MessagesInTurn'
    BY DEF MessagesInTurn
  <2>2. n = Len(unity_sendQueue) /\ ~unity_interrupted /\ unity_sendQueue' = <<>> /\ Len(unity_sendQueue') = 0
    BY <1>2, <2>1
  <2>3. /\ \A i \in 1..Len(unity_posted) : unity_posted[i] \in Int
        /\ \A i \in 1..n : unity_sendQueue[i] \in Int
    BY <1>3, <2>2
  <2> DEFINE p == Len(unity_posted)
             all == unity_posted'
  <2>9. p \in Nat /\ n \in Nat /\ Len(all) = p + n
    BY <1>3, <1>6
  <2>10. \A i \in 1..(p + n) : all[i] = IF i <= p THEN unity_posted[i] ELSE front[i - p]
    BY <1>6
  <2>11. \A i \in 1..n : front[i] = unity_sendQueue[i]
    BY <1>5
  <2>8. /\ \A i, j \in 1..p :
             i < j /\ unity_posted[i] > 0 /\ unity_posted[j] > 0 => unity_posted[i] < unity_posted[j]
        /\ \A i, j \in 1..n :
             i < j /\ unity_sendQueue[i] > 0 /\ unity_sendQueue[j] > 0 => unity_sendQueue[i] < unity_sendQueue[j]
        /\ \A i \in 1..p, j \in 1..n :
             unity_posted[i] > 0 /\ unity_sendQueue[j] > 0 => unity_posted[i] < unity_sendQueue[j]
        /\ \A i \in 1..p : unity_posted[i] <= unity_sent
        /\ \A i \in 1..n : unity_sendQueue[i] <= unity_sent
    BY <2>2 DEF MessagesInTurn
  <2> HIDE DEF p, all
  <2>7. \A i \in 1..Len(all) :
          \/ i \in 1..p /\ all[i] = unity_posted[i]
          \/ i > p /\ i - p \in 1..n /\ all[i] = unity_sendQueue[i - p]
    BY <2>9, <2>10, <2>11
  <2>12. \A i, j \in 1..Len(all) : i < j /\ all[i] > 0 /\ all[j] > 0 => all[i] < all[j]
    <3>1. SUFFICES ASSUME NEW i \in 1..Len(all), NEW j \in 1..Len(all), i < j, all[i] > 0, all[j] > 0
                   PROVE  all[i] < all[j]
      OBVIOUS
    <3>2. CASE i \in 1..p /\ j \in 1..p
      BY <2>7, <2>8, <2>9, <3>1, <3>2
    <3>3. CASE i \in 1..p /\ j > p
      BY <2>7, <2>8, <2>9, <3>1, <3>3
    <3>4. CASE i > p /\ j > p
      BY <2>7, <2>8, <2>9, <3>1, <3>4
    <3>5. QED
      BY <2>9, <3>1, <3>2, <3>3, <3>4
  <2>13. \A i \in 1..Len(all) : all[i] <= unity_sent
    BY <2>7, <2>8
  <2>4. \A i, j \in 1..Len(unity_posted') :
          i < j /\ unity_posted'[i] > 0 /\ unity_posted'[j] > 0 => unity_posted'[i] < unity_posted'[j]
    BY <2>12 DEF all
  <2>5. \A i \in 1..Len(unity_posted') : unity_posted'[i] <= unity_sent
    BY <2>13 DEF all
  <2>6. QED
    BY <1>1, <2>2, <2>4, <2>5 DEF MessagesInTurn
<1>12. QED
  BY <1>8, <1>9, <1>10, <1>11

\* The operation o with another kind.
LEMMA OtherKind ==
    ASSUME UnityTypes, SocketsInOrder, NEW o \in unity_ops, NEW k
    PROVE  \E d : /\ d.kind = k /\ d.socket = o.socket /\ d.n = o.n
                  /\ d = [kind |-> d.kind, socket |-> d.socket, n |-> d.n]
                  /\ d.socket \in 1..MaxSockets /\ d.socket \in Unity!Created
                  /\ Unity!Becomes(o, k) = (unity_ops \ {o}) \union {d}
<1> DEFINE d == [o EXCEPT !.kind = k]
<1>1. o = [kind |-> o.kind, socket |-> o.socket, n |-> o.n]
  BY DEF UnityTypes
<1>2. /\ d.kind = k /\ d.socket = o.socket /\ d.n = o.n
      /\ d = [kind |-> d.kind, socket |-> d.socket, n |-> d.n]
  BY <1>1
<1>3. Unity!Becomes(o, k) = (unity_ops \ {o}) \union {d}
  BY DEF Unity!Becomes
<1>4. o.socket \in 1..MaxSockets /\ o.socket \in Unity!Created
  BY DEF UnityTypes, SocketsInOrder
<1> HIDE DEF d
<1>5. QED
  BY <1>2, <1>3, <1>4

\* Reconnect in a thread of the pool, with the other operations os.
LEMMA RedialEffect ==
    ASSUME UnityTypes, SocketsInOrder, NEW os, Unity!Redial(os), unity_socket' = unity_socket,
           \A p \in os : /\ p.kind \in OpKinds /\ p.socket \in 1..MaxSockets /\ p.socket \in Unity!Created
                         /\ p = [kind |-> p.kind, socket |-> p.socket, n |-> p.n]
    PROVE  /\ unity_state' = "OnConnecting" /\ redialed' = TRUE /\ ~Calm'
           /\ unity_status' \in [1..MaxSockets -> Statuses]
           /\ \A p \in unity_ops' : /\ p.kind \in OpKinds /\ p.socket \in 1..MaxSockets
                                    /\ p = [kind |-> p.kind, socket |-> p.socket, n |-> p.n]
           /\ \A p \in unity_ops' : p \in os \/ p.kind = "reconnect"
           /\ SocketsInOrder'
<1>1. unity_state' = "OnConnecting" /\ redialed' = TRUE /\ ~Calm'
  BY DEF Unity!Redial, Calm
<1>2. CASE /\ Unity!Fresh \in 1..MaxSockets
           /\ unity_ops' = os \union {Unity!Op("reconnect", Unity!Fresh, 0)}
           /\ unity_status' = [unity_status EXCEPT ![Unity!Fresh] = "connecting"]
  <2> DEFINE d == Unity!Op("reconnect", Unity!Fresh, 0)
  <2>1. /\ d.kind = "reconnect" /\ d.socket = Unity!Fresh
        /\ d = [kind |-> d.kind, socket |-> d.socket, n |-> d.n]
    BY DEF Unity!Op
  <2>2. unity_ops' = os \union {d}
    BY <1>2
  <2> HIDE DEF d
  <2>3. \A p \in unity_ops' : p \in os \/ (p = d /\ p.kind = "reconnect")
    BY <2>1, <2>2
  <2>4. \A p \in unity_ops' : /\ p.kind \in OpKinds /\ p.socket \in 1..MaxSockets
                              /\ p = [kind |-> p.kind, socket |-> p.socket, n |-> p.n]
    BY <1>2, <2>1, <2>3 DEF OpKinds
  <2>5. unity_status' \in [1..MaxSockets -> Statuses]
    BY <1>2 DEF UnityTypes, Statuses
  <2>6. SocketsInOrder'
    <3>1. \A p \in unity_ops' : p \in unity_ops \/ p.socket \in Unity!Created \/ p.socket = Unity!Fresh
      BY <2>1, <2>3
    <3>2. QED
      BY <1>2, <3>1, Creates
  <2>7. QED
    BY <1>1, <2>3, <2>4, <2>5, <2>6
<1>3. CASE unity_ops' = os /\ unity_status' = unity_status
  <2>1. SocketsInOrder'
    <3>1. \A p \in unity_ops' : p.socket \in Unity!Created
      BY <1>3
    <3>2. unity_socket' \in Unity!Created \union {0}
      BY DEF SocketsInOrder
    <3>3. QED
      BY <1>3, <3>1, <3>2, CreatesNone
  <2>2. QED
    BY <1>1, <1>3, <2>1 DEF UnityTypes
<1>4. QED
  BY <1>2, <1>3 DEF Unity!Redial

LEMMA Rest ==
    ASSUME NEW S, NEW b \in Seq(S), NEW m \in 0..Len(b)
    PROVE  /\ SubSeq(b, m + 1, Len(b)) \in Seq(S)
           /\ Len(SubSeq(b, m + 1, Len(b))) = Len(b) - m
           /\ \A i \in 1..(Len(b) - m) : SubSeq(b, m + 1, Len(b))[i] = b[m + i]
OBVIOUS

\* A thread of the pool reconnects in the middle: n messages are sent, and the
\* others stay.
LEMMA ReconnectEventLoopsKeepsClient ==
    ASSUME ClientInv, Unity!ReconnectEventLoops
    PROVE  ClientInv'
<1> USE DEF ClientInv
<1>1. /\ unity_eventQueue # <<>> /\ unity_eventQueue' = Tail(unity_eventQueue)
      /\ UNCHANGED <<unity_socket, unity_recvBuffer, unity_incoming, unity_units, unity_sent,
                     unity_handled, unity_interrupted, unity_closed_twice, unity_cut>>
  BY DEF Unity!ReconnectEventLoops, Unity!Takes
<1>2. PICK o \in unity_ops, n \in 0..(Len(unity_sendQueue) - 1) :
        /\ n > 0 => unity_socket # 0
        /\ Unity!Redial(Unity!Becomes(o, "repost")
             \union {Unity!Op("send", unity_socket, unity_sendQueue[i]) : i \in 1..n})
        /\ unity_posted' = unity_posted \o SubSeq(unity_sendQueue, 1, n)
        /\ unity_sendQueue' = SubSeq(unity_sendQueue, n + 1, Len(unity_sendQueue))
  BY DEF Unity!ReconnectEventLoops, Unity!Sends
<1>3. /\ unity_sendQueue \in Seq(Int) /\ unity_posted \in Seq(Int) /\ Len(unity_sendQueue) \in Nat
      /\ Len(unity_posted) \in Nat
  BY DEF UnityTypes
<1>4. n \in 0..Len(unity_sendQueue) /\ n \in Nat
  BY <1>3
<1> DEFINE sends == {Unity!Op("send", unity_socket, unity_sendQueue[i]) : i \in 1..n}
           os == Unity!Becomes(o, "repost") \union sends
<1>5. \A p \in sends : /\ p.kind = "send" /\ p.socket \in 1..MaxSockets /\ p.socket \in Unity!Created
                       /\ p = [kind |-> p.kind, socket |-> p.socket, n |-> p.n]
  <2>1. n > 0 => unity_socket \in 1..MaxSockets /\ unity_socket \in Unity!Created
    BY <1>2 DEF UnityTypes, SocketsInOrder
  <2>2. \A p \in sends : \E i \in 1..n : p = Unity!Op("send", unity_socket, unity_sendQueue[i])
    OBVIOUS
  <2>3. \A p \in sends : p = [kind |-> "send", socket |-> unity_socket, n |-> p.n]
    BY <2>2 DEF Unity!Op
  <2>4. \A p \in sends : n > 0
    BY <1>4
  <2> HIDE DEF sends
  <2>5. QED
    BY <2>1, <2>3, <2>4
<1>6. PICK d : /\ d.kind = "repost" /\ d.socket = o.socket /\ d.n = o.n
               /\ d = [kind |-> d.kind, socket |-> d.socket, n |-> d.n]
               /\ d.socket \in 1..MaxSockets /\ d.socket \in Unity!Created
               /\ Unity!Becomes(o, "repost") = (unity_ops \ {o}) \union {d}
  BY OtherKind
<1> HIDE DEF sends
<1>7. \A p \in os : /\ p.kind \in OpKinds /\ p.socket \in 1..MaxSockets /\ p.socket \in Unity!Created
                    /\ p = [kind |-> p.kind, socket |-> p.socket, n |-> p.n]
  BY <1>5, <1>6 DEF UnityTypes, SocketsInOrder, OpKinds, RestKinds
<1>8. Unity!Redial(os)
  BY <1>2 DEF sends
<1> HIDE DEF os
<1>9. /\ unity_state' = "OnConnecting" /\ redialed' = TRUE /\ ~Calm'
      /\ unity_status' \in [1..MaxSockets -> Statuses]
      /\ \A p \in unity_ops' : /\ p.kind \in OpKinds /\ p.socket \in 1..MaxSockets
                               /\ p = [kind |-> p.kind, socket |-> p.socket, n |-> p.n]
      /\ SocketsInOrder'
  BY <1>1, <1>7, <1>8, RedialEffect
<1> DEFINE front == SubSeq(unity_sendQueue, 1, n)
<1>10. /\ front \in Seq(Int) /\ Len(front) = n
       /\ \A i \in 1..n : front[i] = unity_sendQueue[i]
  BY <1>3, <1>4, Front
<1> HIDE DEF front
<1>11. /\ unity_posted' \in Seq(Int) /\ Len(unity_posted') = Len(unity_posted) + n
       /\ \A i \in 1..(Len(unity_posted) + n) :
            unity_posted'[i] = IF i <= Len(unity_posted) THEN unity_posted[i] ELSE front[i - Len(unity_posted)]
  BY <1>2, <1>3, <1>10, Joined DEF front
<1>12. /\ unity_sendQueue' \in Seq(Int) /\ Len(unity_sendQueue') = Len(unity_sendQueue) - n
       /\ \A i \in 1..(Len(unity_sendQueue) - n) : unity_sendQueue'[i] = unity_sendQueue[n + i]
  BY <1>2, <1>3, <1>4, Rest
<1>13. UnityTypes'
  <2>1. unity_eventQueue' \in Seq(ClientEvent)
    BY <1>1, TakesHead
  <2>2. QED
    BY <1>1, <1>9, <1>11, <1>12, <2>1 DEF UnityTypes
<1>14. MessagesInTurn'
  <2>1. SUFFICES ASSUME ~unity_interrupted' PROVE MessagesInTurn'
    BY DEF MessagesInTurn
  <2> DEFINE p == Len(unity_posted)
             q == Len(unity_sendQueue)
             all == unity_posted'
             rest == unity_sendQueue'
  <2>2. p \in Nat /\ q \in Nat /\ n \in 0..q /\ Len(all) = p + n /\ Len(rest) = q - n
    BY <1>3, <1>4, <1>11, <1>12
  <2>3. \A i \in 1..(p + n) : all[i] = IF i <= p THEN unity_posted[i] ELSE unity_sendQueue[i - p]
    <3>1. \A i \in 1..(p + n) : ~(i <= p) => i - p \in 1..n
      BY <2>2
    <3>2. QED
      BY <1>10, <1>11, <3>1
  <2>4. \A i \in 1..(q - n) : rest[i] = unity_sendQueue[n + i]
    BY <1>12
  <2>5. /\ \A i, j \in 1..p :
             i < j /\ unity_posted[i] > 0 /\ unity_posted[j] > 0 => unity_posted[i] < unity_posted[j]
        /\ \A i, j \in 1..q :
             i < j /\ unity_sendQueue[i] > 0 /\ unity_sendQueue[j] > 0 => unity_sendQueue[i] < unity_sendQueue[j]
        /\ \A i \in 1..p, j \in 1..q :
             unity_posted[i] > 0 /\ unity_sendQueue[j] > 0 => unity_posted[i] < unity_sendQueue[j]
        /\ \A i \in 1..p : unity_posted[i] <= unity_sent
        /\ \A i \in 1..q : unity_sendQueue[i] <= unity_sent
    BY <1>1, <2>1 DEF MessagesInTurn
  <2> HIDE DEF p, q, all, rest
  <2>6. \A i \in 1..Len(all) :
          \/ i \in 1..p /\ all[i] = unity_posted[i]
          \/ i > p /\ i - p \in 1..n /\ i - p \in 1..q /\ all[i] = unity_sendQueue[i - p]
    BY <2>2, <2>3
  <2>7. \A i \in 1..Len(rest) : n + i \in 1..q /\ n + i > n /\ rest[i] = unity_sendQueue[n + i]
    BY <2>2, <2>4
  <2>8. \A i, j \in 1..Len(all) : i < j /\ all[i] > 0 /\ all[j] > 0 => all[i] < all[j]
    <3>1. SUFFICES ASSUME NEW i \in 1..Len(all), NEW j \in 1..Len(all), i < j, all[i] > 0, all[j] > 0
                   PROVE  all[i] < all[j]
      OBVIOUS
    <3>2. CASE i \in 1..p /\ j \in 1..p
      BY <2>2, <2>5, <2>6, <3>1, <3>2
    <3>3. CASE i \in 1..p /\ j > p
      BY <2>2, <2>5, <2>6, <3>1, <3>3
    <3>4. CASE i > p /\ j > p
      <4>1. /\ i - p \in 1..q /\ all[i] = unity_sendQueue[i - p]
            /\ j - p \in 1..q /\ all[j] = unity_sendQueue[j - p]
        BY <2>2, <2>6, <3>4
      <4>2. i - p < j - p
        BY <2>2, <3>1
      <4>3. QED
        BY <2>5, <3>1, <4>1, <4>2
    <3>5. QED
      BY <2>2, <3>1, <3>2, <3>3, <3>4
  <2>9. \A i, j \in 1..Len(rest) : i < j /\ rest[i] > 0 /\ rest[j] > 0 => rest[i] < rest[j]
    <3>1. \A i, j \in 1..Len(rest) : i < j => n + i < n + j
      BY <2>2
    <3>2. QED
      BY <2>5, <2>7, <3>1
  <2>10. \A i \in 1..Len(all), j \in 1..Len(rest) : all[i] > 0 /\ rest[j] > 0 => all[i] < rest[j]
    <3>1. SUFFICES ASSUME NEW i \in 1..Len(all), NEW j \in 1..Len(rest), all[i] > 0, rest[j] > 0
                   PROVE  all[i] < rest[j]
      OBVIOUS
    <3>2. CASE i \in 1..p /\ all[i] = unity_posted[i]
      BY <2>5, <2>7, <3>1, <3>2
    <3>3. CASE i > p /\ i - p \in 1..n /\ i - p \in 1..q /\ all[i] = unity_sendQueue[i - p]
      <4>1. i - p < n + j
        BY <2>2, <2>7, <3>3
      <4>2. QED
        BY <2>5, <2>7, <3>1, <3>3, <4>1
    <3>4. QED
      BY <2>6, <3>2, <3>3
  <2>11. (\A i \in 1..Len(all) : all[i] <= unity_sent) /\ (\A i \in 1..Len(rest) : rest[i] <= unity_sent)
    BY <2>5, <2>6, <2>7
  <2>12. unity_state' # "Connected" /\ unity_sent' = unity_sent
    BY <1>1, <1>9
  <2>13. QED
    BY <2>8, <2>9, <2>10, <2>11, <2>12 DEF MessagesInTurn, all, rest
<1>15. QED
  BY <1>9, <1>13, <1>14

LEMMA Cuts ==
    ASSUME NEW S, NEW b \in Seq(S), NEW known \in Nat, 2 * known <= Len(b)
    PROVE  /\ SubSeq(b, 2 * known + 1, Len(b)) \in Seq(S)
           /\ Len(SubSeq(b, 2 * known + 1, Len(b))) = Len(b) - 2 * known
           /\ \A i \in 1..(Len(b) - 2 * known) : SubSeq(b, 2 * known + 1, Len(b))[i] = b[2 * known + i]
           /\ [i \in 1..known |-> <<b[2 * i - 1], b[2 * i]>>] \in Seq(S \X S)
           /\ Len([i \in 1..known |-> <<b[2 * i - 1], b[2 * i]>>]) = known
<1>1. Len(b) \in Nat /\ known \in Nat /\ 2 * known <= Len(b)
  OBVIOUS
<1> DEFINE f == [i \in 1..known |-> <<b[2 * i - 1], b[2 * i]>>]
<1>2. \A i \in 1..known : 2 * i - 1 \in 1..Len(b) /\ 2 * i \in 1..Len(b)
  BY <1>1
<1>3. \A i \in 1..Len(b) : b[i] \in S
  OBVIOUS
<1>4. f \in [1..known -> S \X S]
  BY <1>2, <1>3
<1>5. f \in Seq(S \X S)
  BY <1>1, <1>4
<1>6. Len(f) = known
  BY <1>1, <1>4
<1> HIDE DEF f
<1>7. /\ SubSeq(b, 2 * known + 1, Len(b)) \in Seq(S)
      /\ Len(SubSeq(b, 2 * known + 1, Len(b))) = Len(b) - 2 * known
      /\ \A i \in 1..(Len(b) - 2 * known) : SubSeq(b, 2 * known + 1, Len(b))[i] = b[2 * known + i]
  <2> DEFINE m == 2 * known
  <2>1. m \in 0..Len(b)
    BY <1>1
  <2> HIDE DEF m
  <2>2. /\ SubSeq(b, m + 1, Len(b)) \in Seq(S)
        /\ Len(SubSeq(b, m + 1, Len(b))) = Len(b) - m
        /\ \A i \in 1..(Len(b) - m) : SubSeq(b, m + 1, Len(b))[i] = b[m + i]
    BY <2>1, Rest
  <2>3. QED
    BY <2>2 DEF m
<1>8. QED
  BY <1>1, <1>5, <1>6, <1>7 DEF f

LEMMA JoinedOf ==
    ASSUME NEW S, NEW q \in Seq(S), NEW r \in Seq(S)
    PROVE  /\ q \o r \in Seq(S) /\ Len(q \o r) = Len(q) + Len(r) /\ Len(q) \in Nat /\ Len(r) \in Nat
           /\ \A i \in 1..Len(q) : (q \o r)[i] = q[i]
           /\ \A i \in 1..Len(r) : (q \o r)[Len(q) + i] = r[i]
OBVIOUS

\* Where the rounds of OnReceive find their headers.
LEMMA RoundsBegin ==
    ASSUME NEW n \in Nat, NEW takes \in [1..n -> BOOLEAN], NEW i \in 1..(n + 1)
    PROVE  /\ Unity!At(takes, i) \in Nat /\ Unity!At(takes, i) >= 1
           /\ (\A j \in 1..n : takes[j]) => Unity!At(takes, i) = 2 * i - 1
<1> DEFINE T == {j \in 1..(i - 1) : takes[j]}
<1>1. /\ i - 1 \in Nat /\ IsFiniteSet(1..(i - 1)) /\ Cardinality(1..(i - 1)) = i - 1
  <2>1. i - 1 \in Nat
    OBVIOUS
  <2> DEFINE m == i - 1
  <2> HIDE DEF m
  <2>2. m \in Nat => IsFiniteSet(1..m) /\ Cardinality(1..m) = m
    BY FS_Interval
  <2>3. QED
    BY <2>1, <2>2 DEF m
<1>2. IsFiniteSet(T) /\ Cardinality(T) \in Nat
  <2>1. T \subseteq 1..(i - 1)
    OBVIOUS
  <2> HIDE DEF T
  <2>2. IsFiniteSet(T)
    BY <1>1, <2>1, FS_Subset
  <2>3. QED
    BY <2>2, FS_CardinalityType
<1>3. Unity!At(takes, i) = i + Cardinality(T)
  BY UnityCardinality DEF Unity!At
<1>4. (\A j \in 1..n : takes[j]) => T = 1..(i - 1)
  OBVIOUS
<1> HIDE DEF T
<1>5. (\A j \in 1..n : takes[j]) => Cardinality(T) = i - 1
  BY <1>1, <1>4
<1>6. QED
  BY <1>2, <1>3, <1>5

\* What the rounds give to the handlers and leave; without an exception of a
\* handler it is so many packets, from the front.
LEMMA RoundsEffect ==
    ASSUME NEW b \in Seq(Unit), unity_handled \in Seq(Packet), Unity!Rounds(b)
    PROVE  /\ unity_recvBuffer' \in Seq(Unit) /\ unity_handled' \in Seq(Packet)
           /\ ~torn' => ~torn /\ \E known \in Nat :
                /\ 2 * known <= Len(b)
                /\ unity_handled' = unity_handled \o [i \in 1..known |-> <<b[2 * i - 1], b[2 * i]>>]
                /\ unity_recvBuffer' = SubSeq(b, 2 * known + 1, Len(b))
<1> PICK n \in 0..Len(b) : \E takes \in [1..n -> BOOLEAN] :
        /\ \A i \in 1..n : Unity!At(takes, i) < Len(b)
        /\ unity_handled' = unity_handled \o [i \in 1..n |-> <<b[Unity!At(takes, i)], b[Unity!At(takes, i) + 1]>>]
        /\ unity_recvBuffer' = SubSeq(b, Unity!At(takes, n + 1), Len(b))
        /\ torn' = (torn \/ \E i \in 1..n : ~takes[i])
  BY DEF Unity!Rounds
<1>1. PICK takes \in [1..n -> BOOLEAN] :
        /\ \A i \in 1..n : Unity!At(takes, i) < Len(b)
        /\ unity_handled' = unity_handled \o [i \in 1..n |-> <<b[Unity!At(takes, i)], b[Unity!At(takes, i) + 1]>>]
        /\ unity_recvBuffer' = SubSeq(b, Unity!At(takes, n + 1), Len(b))
        /\ torn' = (torn \/ \E i \in 1..n : ~takes[i])
  OBVIOUS
<1>2. n \in Nat /\ Len(b) \in Nat /\ n + 1 \in 1..(n + 1)
  OBVIOUS
<1>3. \A i \in 1..(n + 1) : Unity!At(takes, i) \in Nat /\ Unity!At(takes, i) >= 1
  BY <1>2, RoundsBegin
<1>4. unity_recvBuffer' \in Seq(Unit)
  <2> DEFINE m == Unity!At(takes, n + 1)
  <2>1. m \in Nat /\ m >= 1
    BY <1>2, <1>3
  <2>2. unity_recvBuffer' = SubSeq(b, m, Len(b))
    BY <1>1
  <2> HIDE DEF m
  <2>3. SubSeq(b, m, Len(b)) \in Seq(Unit)
    BY <2>1, <1>2
  <2>4. QED
    BY <2>2, <2>3
<1>5. unity_handled' \in Seq(Packet)
  <2> DEFINE f == [i \in 1..n |-> <<b[Unity!At(takes, i)], b[Unity!At(takes, i) + 1]>>]
  <2>1. \A i \in 1..n : Unity!At(takes, i) \in 1..Len(b) /\ Unity!At(takes, i) + 1 \in 1..Len(b)
    <3>1. \A a, l \in Nat : a >= 1 /\ a < l => a \in 1..l /\ a + 1 \in 1..l
      OBVIOUS
    <3>2. \A i \in 1..n : i \in 1..(n + 1)
      BY <1>2
    <3>3. \A i \in 1..n : /\ Unity!At(takes, i) \in Nat /\ Unity!At(takes, i) >= 1
                          /\ Unity!At(takes, i) < Len(b)
      BY <1>1, <1>3, <3>2
    <3>4. QED
      BY <1>2, <3>1, <3>3
  <2>2. \A k \in 1..Len(b) : b[k] \in Unit
    OBVIOUS
  <2>3. \A i \in 1..n : f[i] \in Packet
    BY <2>1, <2>2 DEF Packet
  <2>4. f \in [1..n -> Packet]
    BY <2>3
  <2>5. unity_handled' = unity_handled \o f
    BY <1>1
  <2> HIDE DEF f
  <2>6. f \in Seq(Packet)
    BY <1>2, <2>4
  <2>7. QED
    BY <2>5, <2>6, JoinedOf
<1>6. ASSUME ~torn'
      PROVE  ~torn /\ \E known \in Nat :
                /\ 2 * known <= Len(b)
                /\ unity_handled' = unity_handled \o [i \in 1..known |-> <<b[2 * i - 1], b[2 * i]>>]
                /\ unity_recvBuffer' = SubSeq(b, 2 * known + 1, Len(b))
  <2>1. ~torn /\ \A j \in 1..n : takes[j]
    BY <1>1, <1>6
  <2>2. \A i \in 1..(n + 1) : Unity!At(takes, i) = 2 * i - 1
    BY <1>2, <2>1, RoundsBegin
  <2>3. 2 * n <= Len(b)
    <3>1. n > 0 => 2 * n - 1 < Len(b)
      BY <1>1, <1>2, <2>2
    <3>2. QED
      BY <1>2, <3>1
  <2>4. [i \in 1..n |-> <<b[Unity!At(takes, i)], b[Unity!At(takes, i) + 1]>>]
          = [i \in 1..n |-> <<b[2 * i - 1], b[2 * i]>>]
    <3>1. \A i \in 1..n : Unity!At(takes, i) = 2 * i - 1 /\ Unity!At(takes, i) + 1 = 2 * i
      BY <1>2, <2>2
    <3>2. QED
      BY <3>1
  <2>5. Unity!At(takes, n + 1) = 2 * n + 1
    BY <1>2, <2>2
  <2>6. QED
    BY <1>1, <1>2, <2>1, <2>3, <2>4, <2>5
<1>7. QED
  BY <1>4, <1>5, <1>6

\* What OnReceive makes of the head of the queue.
LEMMA ReceiveEventEffect ==
    ASSUME UnityTypes, Unity!ReceiveEvent
    PROVE  /\ unity_eventQueue # <<>> /\ Head(unity_eventQueue).kind = "receive"
           /\ unity_eventQueue' = Tail(unity_eventQueue)
           /\ UNCHANGED <<unity_state, unity_socket, unity_sendQueue, unity_status, unity_ops, unity_incoming,
                          unity_units, unity_sent, unity_posted, unity_interrupted, redialed, unity_closed_twice,
                          unity_cut>>
           /\ unity_recvBuffer' \in Seq(Unit) /\ unity_handled' \in Seq(Packet)
           /\ LET b == unity_recvBuffer \o unity_eventQueue[1].buffer IN
              /\ b \in Seq(Unit)
              /\ ~torn' => ~torn /\ \E known \in Nat :
                   /\ 2 * known <= Len(b)
                   /\ unity_handled' = unity_handled \o [i \in 1..known |-> <<b[2 * i - 1], b[2 * i]>>]
                   /\ unity_recvBuffer' = SubSeq(b, 2 * known + 1, Len(b))
<1>1. /\ unity_eventQueue # <<>> /\ Head(unity_eventQueue).kind = "receive"
      /\ unity_eventQueue' = Tail(unity_eventQueue)
      /\ UNCHANGED <<unity_state, unity_socket, unity_sendQueue, unity_status, unity_ops, unity_incoming,
                     unity_units, unity_sent, unity_posted, unity_interrupted, redialed, unity_closed_twice,
                     unity_cut>>
  BY DEF Unity!ReceiveEvent, Unity!Takes, Unity!network
<1>2. Head(unity_eventQueue) = unity_eventQueue[1] /\ 1 \in Events
  BY <1>1, TakesHead
<1> DEFINE b == unity_recvBuffer \o unity_eventQueue[1].buffer
<1>3. b \in Seq(Unit)
  <2>1. unity_eventQueue[1].buffer \in Seq(Unit)
    BY <1>2, EventKinds
  <2>2. unity_recvBuffer \in Seq(Unit)
    BY DEF UnityTypes
  <2>3. QED
    BY <2>1, <2>2, JoinedOf
<1>4. Unity!Rounds(b) \/ (torn' = TRUE /\ UNCHANGED <<unity_recvBuffer, unity_handled>>)
  BY <1>2 DEF Unity!ReceiveEvent
<1>5. unity_handled \in Seq(Packet) /\ unity_recvBuffer \in Seq(Unit)
  BY DEF UnityTypes
<1> HIDE DEF b
<1>6. /\ unity_recvBuffer' \in Seq(Unit) /\ unity_handled' \in Seq(Packet)
      /\ ~torn' => ~torn /\ \E known \in Nat :
           /\ 2 * known <= Len(b)
           /\ unity_handled' = unity_handled \o [i \in 1..known |-> <<b[2 * i - 1], b[2 * i]>>]
           /\ unity_recvBuffer' = SubSeq(b, 2 * known + 1, Len(b))
  <2>1. CASE Unity!Rounds(b)
    BY <1>3, <1>5, <2>1, RoundsEffect
  <2>2. CASE torn' = TRUE /\ UNCHANGED <<unity_recvBuffer, unity_handled>>
    BY <1>5, <2>2
  <2>3. QED
    BY <1>4, <2>1, <2>2
<1>7. QED
  BY <1>1, <1>3, <1>6 DEF b

LEMMA ReceiveEventKeepsClient ==
    ASSUME ClientInv, Unity!ReceiveEvent
    PROVE  ClientInv'
<1> USE DEF ClientInv, Calm
<1>1. /\ unity_eventQueue # <<>> /\ Head(unity_eventQueue).kind = "receive"
      /\ unity_eventQueue' = Tail(unity_eventQueue)
      /\ UNCHANGED <<unity_state, unity_socket, unity_sendQueue, unity_status, unity_ops, unity_incoming,
                     unity_units, unity_sent, unity_posted, unity_interrupted, redialed, unity_closed_twice,
                     unity_cut>>
      /\ unity_recvBuffer' \in Seq(Unit) /\ unity_handled' \in Seq(Packet)
  BY ReceiveEventEffect
<1>2. unity_eventQueue' \in Seq(ClientEvent)
  BY <1>1, TakesHead
<1>3. UnityTypes'
  BY <1>1, <1>2 DEF UnityTypes
<1>4. SocketsInOrder'
  BY <1>1, SocketsStay
<1>5. Calm' => OneAtATime'
  BY <1>1, TakenKeeps
<1>6. MessagesInTurn'
  BY <1>1, SameMessages
<1>7. QED
  BY <1>3, <1>4, <1>5, <1>6

-----------------------------------------------------------------------------
(* The callbacks. *)

LEMMA QueuesEvent ==
    ASSUME UnityTypes, NEW k \in {"connect", "reconnect", "close", "receive"}, NEW b \in Seq(Unit),
           unity_eventQueue' = Append(unity_eventQueue, Unity!Event(k, b))
    PROVE  /\ unity_eventQueue' \in Seq(ClientEvent)
           /\ Len(unity_eventQueue) \in Nat /\ Len(unity_eventQueue') = Len(unity_eventQueue) + 1
           /\ Events = 1..Len(unity_eventQueue) /\ Events' = 1..(Len(unity_eventQueue) + 1)
           /\ \A i \in Events : unity_eventQueue'[i] = unity_eventQueue[i]
           /\ unity_eventQueue'[Len(unity_eventQueue) + 1].kind = k
           /\ unity_eventQueue'[Len(unity_eventQueue) + 1].buffer = b
<1> DEFINE e == Unity!Event(k, b)
<1>1. e \in ClientEvent /\ e.kind = k /\ e.buffer = b
  BY DEF Unity!Event, ClientEvent
<1> HIDE DEF e
<1>2. unity_eventQueue \in Seq(ClientEvent) /\ unity_eventQueue' = Append(unity_eventQueue, e)
  BY DEF UnityTypes, e
<1>3. QED
  BY <1>1, <1>2, Appended DEF Events

LEMMA ConnectedKeepsClient ==
    ASSUME ClientInv, NEW o \in unity_ops, o.kind \in {"connect", "reconnect"}, Unity!Connected(o)
    PROVE  ClientInv'
<1> USE DEF ClientInv, Calm
<1>1. /\ unity_socket' = o.socket
      /\ UNCHANGED <<unity_state, unity_sendQueue, unity_recvBuffer, unity_incoming, unity_units>>
      /\ UNCHANGED <<unity_sent, unity_posted, unity_handled, unity_interrupted, redialed, unity_closed_twice, unity_cut>>
  BY DEF Unity!Connected, Unity!history
<1>2. o.socket \in 1..MaxSockets /\ Connecting(o) /\ ~Closing(o)
  BY DEF UnityTypes, Connecting, Closing
<1>3. MessagesInTurn'
  BY <1>1, SameMessages
<1>4. CASE /\ unity_status' = [unity_status EXCEPT ![o.socket] = "up"]
           /\ unity_eventQueue' = Append(unity_eventQueue, Unity!Event(o.kind, <<>>))
           /\ unity_ops' = (unity_ops \ {o}) \union {Unity!Op("receive", o.socket, 0)}
  <2>1. <<>> \in Seq(Unit)
    OBVIOUS
  <2>2. /\ unity_eventQueue' \in Seq(ClientEvent)
        /\ Len(unity_eventQueue) \in Nat
        /\ Events = 1..Len(unity_eventQueue) /\ Events' = 1..(Len(unity_eventQueue) + 1)
        /\ \A i \in Events : unity_eventQueue'[i] = unity_eventQueue[i]
        /\ unity_eventQueue'[Len(unity_eventQueue) + 1].kind = o.kind
    BY <1>4, <2>1, QueuesEvent
  <2> DEFINE d == Unity!Op("receive", o.socket, 0)
  <2>3. d.kind = "receive" /\ d.socket = o.socket /\ d = [kind |-> d.kind, socket |-> d.socket, n |-> d.n]
    BY DEF Unity!Op
  <2>4. unity_ops' = (unity_ops \ {o}) \union {d}
    BY <1>4
  <2> HIDE DEF d
  <2>5. UnityTypes'
    <3>1. \A p \in unity_ops' : /\ p.kind \in OpKinds /\ p.socket \in 1..MaxSockets
                                /\ p = [kind |-> p.kind, socket |-> p.socket, n |-> p.n]
      BY <1>2, <2>3, <2>4 DEF UnityTypes, OpKinds
    <3>2. unity_status' \in [1..MaxSockets -> Statuses] /\ unity_socket' \in 0..MaxSockets
      BY <1>1, <1>2, <1>4 DEF UnityTypes, Statuses
    <3>3. QED
      BY <1>1, <2>2, <3>1, <3>2 DEF UnityTypes
  <2>6. ASSUME Calm' PROVE OneAtATime'
    <3>1. OneAtATime
      BY <1>1, <2>6
    <3>2. /\ unity_state = "OnConnecting" /\ Live = {}
          /\ \A p \in unity_ops : ~Closing(p) /\ (Connecting(p) => p = o)
          /\ \A i \in Events : unity_eventQueue[i].kind = "receive"
      BY <1>2, <3>1 DEF OneAtATime
    <3>3. Live' = {o.socket}
      BY <1>2, <1>4, <3>2 DEF Live, UnityTypes
    <3>4. \A p \in unity_ops' : ~Connecting(p) /\ ~Closing(p)
      BY <2>3, <2>4, <3>2 DEF Connecting, Closing
    <3>5. \A i \in Events' : /\ unity_eventQueue'[i].kind \in {"receive", "connect", "reconnect"}
                             /\ unity_eventQueue'[i].kind # "receive" => i = Len(unity_eventQueue) + 1
      BY <2>2, <3>2
    <3>6. QED
      BY <1>1, <3>2, <3>3, <3>4, <3>5 DEF OneAtATime, Connecting
  <2>7. SocketsInOrder'
    <3>1. o.socket \in Unity!Created
      BY DEF SocketsInOrder
    <3>2. \A s \in 1..MaxSockets : unity_status'[s] = "none" <=> unity_status[s] = "none"
      BY <1>4, <3>1 DEF UnityTypes, Unity!Created
    <3>3. QED
      <4>1. \A p \in unity_ops' : p.socket \in Unity!Created
        BY <2>3, <2>4, <3>1 DEF SocketsInOrder
      <4>2. QED
        BY <1>1, <3>1, <3>2, <4>1, CreatesNone
  <2>8. QED
    BY <1>3, <2>5, <2>6, <2>7
<1>5. CASE /\ unity_status' = [unity_status EXCEPT ![o.socket] = "failed"] /\ unity_ops' = unity_ops \ {o}
           /\ unity_eventQueue' = unity_eventQueue
  <2>1. UnityTypes'
    BY <1>1, <1>2, <1>5 DEF UnityTypes, Statuses
  <2>2. ASSUME Calm' PROVE OneAtATime'
    <3>1. OneAtATime
      BY <1>1, <2>2
    <3>2. /\ unity_state = "OnConnecting" /\ Live = {}
          /\ \A p \in unity_ops : ~Closing(p) /\ (Connecting(p) => p = o)
          /\ \A i \in Events : unity_eventQueue[i].kind = "receive"
      BY <1>2, <3>1 DEF OneAtATime
    <3>3. Live' = {} /\ Events' = Events
      BY <1>2, <1>5, <3>2 DEF Live, UnityTypes, Events
    <3>4. QED
      BY <1>1, <1>5, <3>2, <3>3 DEF OneAtATime, Connecting
  <2>3. SocketsInOrder'
    <3>1. o.socket \in Unity!Created
      BY DEF SocketsInOrder
    <3>2. \A s \in 1..MaxSockets : unity_status'[s] = "none" <=> unity_status[s] = "none"
      BY <1>5, <3>1 DEF UnityTypes, Unity!Created
    <3>3. QED
      <4>1. \A p \in unity_ops' : p.socket \in Unity!Created
        BY <1>5, <3>1 DEF SocketsInOrder
      <4>2. QED
        BY <1>1, <3>1, <3>2, <4>1, CreatesNone
  <2>4. QED
    BY <1>3, <2>1, <2>2, <2>3
<1>6. QED
  BY <1>4, <1>5 DEF Unity!Connected

\* An operation o that ends in Close.
LEMMA EndsInClose ==
    ASSUME ClientInv, NEW o \in unity_ops, o.kind \in {"send", "resend", "receive"}, Unity!Close(unity_ops \ {o}),
           UNCHANGED <<unity_state, unity_socket, unity_eventQueue, unity_sendQueue, unity_recvBuffer, unity_incoming,
                       unity_units, unity_sent, unity_posted, unity_handled, unity_interrupted, redialed, unity_cut>>
    PROVE  ClientInv'
<1> USE DEF ClientInv, Calm
<1>1. \A p \in unity_ops \ (unity_ops \ {o}) : ~Connecting(p) /\ ~Closing(p)
  BY DEF Connecting, Closing
<1>2. /\ unity_status' \in [1..MaxSockets -> Statuses]
      /\ \A p \in unity_ops' : /\ p.kind \in OpKinds /\ p.socket \in 1..MaxSockets
                               /\ p = [kind |-> p.kind, socket |-> p.socket, n |-> p.n]
      /\ unity_closed_twice' \in BOOLEAN /\ SocketsInOrder'
      /\ Calm' => OneAtATime'
  BY <1>1, ClosesKeep
<1>3. UnityTypes'
  BY <1>2 DEF UnityTypes
<1>4. MessagesInTurn'
  BY SameMessages
<1>5. QED
  BY <1>2, <1>3, <1>4

\* An operation o that ends and does nothing else.
LEMMA EndsQuietly ==
    ASSUME ClientInv, NEW o \in unity_ops, unity_ops' = unity_ops \ {o}, ~Connecting(o) /\ ~Closing(o),
           UNCHANGED <<unity_state, unity_socket, unity_status, unity_eventQueue, unity_sendQueue, unity_recvBuffer,
                       unity_incoming, unity_units, unity_sent, unity_posted, unity_handled, unity_interrupted, redialed,
                       unity_closed_twice, unity_cut>>
    PROVE  ClientInv'
<1> USE DEF ClientInv, Calm
<1>1. UnityTypes'
  BY DEF UnityTypes
<1>2. SocketsInOrder'
  BY SocketsStay
<1>3. Calm' => OneAtATime'
  BY SameConnection
<1>4. MessagesInTurn'
  BY SameMessages
<1>5. QED
  BY <1>1, <1>2, <1>3, <1>4

\* Only the event of a read is added.
LEMMA ReadLeavesConnection ==
    ASSUME OneAtATime, UNCHANGED <<unity_state, unity_socket, unity_status, unity_ops>>,
           \A i \in Events' : unity_eventQueue'[i].kind # "receive" =>
             i \in Events /\ unity_eventQueue'[i] = unity_eventQueue[i]
    PROVE  OneAtATime'
<1>1. Live' = Live
  BY DEF Live
<1>2. \A i \in Events' : Connecting(unity_eventQueue'[i]) => unity_eventQueue'[i].kind # "receive"
  BY DEF Connecting
<1>3. \A i, j \in Events' :
        Connecting(unity_eventQueue'[i]) /\ unity_eventQueue'[j].kind # "receive" /\ i # j =>
          i < j /\ unity_eventQueue'[j].kind = "close"
  BY <1>2 DEF OneAtATime
<1>4. \A i \in Events' : unity_eventQueue'[i].kind = "close" =>
        /\ Live = {} /\ \A o \in unity_ops : ~Closing(o)
        /\ \A j \in Events' : unity_eventQueue'[j].kind = "close" => i = j
  BY DEF OneAtATime
<1>5. QED
  BY <1>1, <1>2, <1>3, <1>4 DEF OneAtATime

\* Update is given what the socket had.
LEMMA ReadsKeepClient ==
    ASSUME ClientInv, unity_socket \in 1..MaxSockets, NEW n \in 1..Len(unity_incoming[unity_socket]),
           unity_eventQueue' = Append(unity_eventQueue,
             Unity!Event("receive", SubSeq(unity_incoming[unity_socket], 1, n))),
           unity_incoming' = [unity_incoming EXCEPT ![unity_socket] = SubSeq(@, n + 1, Len(@))],
           UNCHANGED <<unity_state, unity_socket, unity_status, unity_ops, unity_sendQueue, unity_recvBuffer,
                       unity_units, unity_sent, unity_posted, unity_handled, unity_interrupted, redialed,
                       unity_closed_twice, unity_cut>>
    PROVE  ClientInv'
<1> USE DEF ClientInv, Calm
<1> DEFINE w == unity_incoming[unity_socket]
<1>1. w \in Seq(Unit) /\ n \in 0..Len(w)
  BY DEF UnityTypes
<1>2. SubSeq(w, 1, n) \in Seq(Unit) /\ SubSeq(w, n + 1, Len(w)) \in Seq(Unit)
  <2> HIDE DEF w
  <2>1. SubSeq(w, 1, n) \in Seq(Unit)
    BY <1>1
  <2>2. QED
    BY <1>1, <2>1, Rest
<1>3. /\ unity_eventQueue' \in Seq(ClientEvent)
      /\ Len(unity_eventQueue) \in Nat
      /\ Events = 1..Len(unity_eventQueue) /\ Events' = 1..(Len(unity_eventQueue) + 1)
      /\ \A i \in Events : unity_eventQueue'[i] = unity_eventQueue[i]
      /\ unity_eventQueue'[Len(unity_eventQueue) + 1].kind = "receive"
  BY <1>2, QueuesEvent
<1>4. unity_incoming' \in [1..MaxSockets -> Seq(Unit)]
  BY <1>2 DEF UnityTypes
<1>5. UnityTypes'
  BY <1>3, <1>4 DEF UnityTypes
<1>6. SocketsInOrder'
  BY SocketsStay
<1>7. ASSUME Calm' PROVE OneAtATime'
  <2>1. OneAtATime
    BY <1>7
  <2>2. \A i \in Events' : unity_eventQueue'[i].kind # "receive" =>
          i \in Events /\ unity_eventQueue'[i] = unity_eventQueue[i]
    BY <1>3
  <2>3. QED
    BY <2>1, <2>2, ReadLeavesConnection
<1>8. MessagesInTurn'
  BY SameMessages
<1>9. QED
  BY <1>5, <1>6, <1>7, <1>8

\* What Callback_OnReceive does, for the operation o.
LEMMA OnReceiveEffect ==
    ASSUME UnityTypes, Unity!Callback_OnReceive
    PROVE  /\ UNCHANGED <<unity_state, unity_socket, unity_sendQueue, unity_recvBuffer, unity_units, unity_sent,
                          unity_posted, unity_handled, unity_interrupted, redialed, torn, unity_cut>>
           /\ \E o \in unity_ops :
                /\ o.kind = "receive"
                /\ \/ /\ unity_socket \in Live
                      /\ \E n \in 1..Len(unity_incoming[unity_socket]) :
                           /\ unity_eventQueue' = Append(unity_eventQueue,
                                Unity!Event("receive", SubSeq(unity_incoming[unity_socket], 1, n)))
                           /\ unity_incoming' = [unity_incoming EXCEPT ![unity_socket] = SubSeq(@, n + 1, Len(@))]
                      /\ UNCHANGED <<unity_status, unity_ops, unity_closed_twice>>
                   \/ Unity!Close(unity_ops \ {o}) /\ UNCHANGED <<unity_eventQueue, unity_incoming>>
                   \/ /\ unity_ops' = unity_ops \ {o}
                      /\ UNCHANGED <<unity_status, unity_closed_twice, unity_eventQueue, unity_incoming>>
<1>1. UNCHANGED <<unity_state, unity_socket, unity_sendQueue, unity_recvBuffer, unity_units, unity_sent,
                  unity_posted, unity_handled, unity_interrupted, redialed, torn, unity_cut>>
  BY DEF Unity!Callback_OnReceive
<1>2. PICK o \in unity_ops :
        /\ o.kind = "receive"
        /\ \/ /\ Unity!Usable(unity_socket)
              /\ \E n \in 1..Len(unity_incoming[unity_socket]) :
                   /\ unity_eventQueue' = Append(unity_eventQueue,
                        Unity!Event("receive", SubSeq(unity_incoming[unity_socket], 1, n)))
                   /\ unity_incoming' = [unity_incoming EXCEPT ![unity_socket] = SubSeq(@, n + 1, Len(@))]
              /\ UNCHANGED <<unity_status, unity_ops, unity_closed_twice>>
           \/ Unity!Close(unity_ops \ {o}) /\ UNCHANGED <<unity_eventQueue, unity_incoming>>
           \/ /\ unity_ops' = unity_ops \ {o}
              /\ UNCHANGED <<unity_status, unity_closed_twice, unity_eventQueue, unity_incoming>>
  BY DEF Unity!Callback_OnReceive
<1>3. Unity!Usable(unity_socket) => unity_socket \in Live
  BY DEF Unity!Usable, Live, UnityTypes
<1>4. QED
  BY <1>1, <1>2, <1>3

LEMMA OnReceiveKeepsClient ==
    ASSUME ClientInv, Unity!Callback_OnReceive
    PROVE  ClientInv'
<1>1. UNCHANGED <<unity_state, unity_socket, unity_sendQueue, unity_recvBuffer, unity_units, unity_sent,
                  unity_posted, unity_handled, unity_interrupted, redialed, unity_cut>>
  BY OnReceiveEffect DEF ClientInv
<1>2. PICK o \in unity_ops :
        /\ o.kind = "receive"
        /\ \/ /\ unity_socket \in Live
              /\ \E n \in 1..Len(unity_incoming[unity_socket]) :
                   /\ unity_eventQueue' = Append(unity_eventQueue,
                        Unity!Event("receive", SubSeq(unity_incoming[unity_socket], 1, n)))
                   /\ unity_incoming' = [unity_incoming EXCEPT ![unity_socket] = SubSeq(@, n + 1, Len(@))]
              /\ UNCHANGED <<unity_status, unity_ops, unity_closed_twice>>
           \/ Unity!Close(unity_ops \ {o}) /\ UNCHANGED <<unity_eventQueue, unity_incoming>>
           \/ /\ unity_ops' = unity_ops \ {o}
              /\ UNCHANGED <<unity_status, unity_closed_twice, unity_eventQueue, unity_incoming>>
  BY OnReceiveEffect DEF ClientInv
<1>3. ~Connecting(o) /\ ~Closing(o)
  BY <1>2 DEF Connecting, Closing
<1>4. CASE /\ unity_socket \in Live
           /\ \E n \in 1..Len(unity_incoming[unity_socket]) :
                /\ unity_eventQueue' = Append(unity_eventQueue,
                     Unity!Event("receive", SubSeq(unity_incoming[unity_socket], 1, n)))
                /\ unity_incoming' = [unity_incoming EXCEPT ![unity_socket] = SubSeq(@, n + 1, Len(@))]
           /\ UNCHANGED <<unity_status, unity_ops, unity_closed_twice>>
  <2>1. unity_socket \in 1..MaxSockets
    BY <1>4 DEF Live
  <2>2. QED
    BY <1>1, <1>4, <2>1, ReadsKeepClient
<1>5. CASE Unity!Close(unity_ops \ {o}) /\ UNCHANGED <<unity_eventQueue, unity_incoming>>
  BY <1>1, <1>2, <1>5, EndsInClose
<1>6. CASE /\ unity_ops' = unity_ops \ {o}
           /\ UNCHANGED <<unity_status, unity_closed_twice, unity_eventQueue, unity_incoming>>
  BY <1>1, <1>3, <1>6, EndsQuietly
<1>7. QED
  BY <1>2, <1>4, <1>5, <1>6

\* An operation that goes on as d, which is neither a connect nor a Close.
LEMMA OpGoesOn ==
    ASSUME UnityTypes, SocketsInOrder, Calm => OneAtATime, NEW o \in unity_ops, ~Connecting(o) /\ ~Closing(o),
           NEW d, d.kind \in OpKinds, d.socket \in 1..MaxSockets, d.socket \in Unity!Created,
           d = [kind |-> d.kind, socket |-> d.socket, n |-> d.n], ~Connecting(d) /\ ~Closing(d),
           unity_ops' = (unity_ops \ {o}) \union {d},
           UNCHANGED <<unity_state, unity_socket, unity_status, unity_eventQueue, unity_closed_twice, redialed>>
    PROVE  /\ \A p \in unity_ops' : /\ p.kind \in OpKinds /\ p.socket \in 1..MaxSockets
                                    /\ p = [kind |-> p.kind, socket |-> p.socket, n |-> p.n]
           /\ SocketsInOrder' /\ (Calm' => OneAtATime')
<1>1. \A p \in unity_ops' : /\ p.kind \in OpKinds /\ p.socket \in 1..MaxSockets
                            /\ p = [kind |-> p.kind, socket |-> p.socket, n |-> p.n]
  BY DEF UnityTypes
<1>2. SocketsInOrder'
  <2>1. \A p \in unity_ops' : p.socket \in Unity!Created
    BY DEF SocketsInOrder
  <2>2. unity_socket' \in Unity!Created \union {0}
    BY DEF SocketsInOrder
  <2>3. QED
    BY <2>1, <2>2, CreatesNone
<1>3. Calm' => OneAtATime'
  <2>1. \A p : Connecting(p) \/ Closing(p) => (p \in unity_ops' <=> p \in unity_ops)
    OBVIOUS
  <2>2. QED
    BY <2>1, SameConnection DEF Calm
<1>4. QED
  BY <1>1, <1>2, <1>3

\* The rest of a message has no place in the order of messages.
LEMMA RestHasNoTurn ==
    ASSUME UnityTypes, MessagesInTurn, NEW x \in Int, x < 0,
           UNCHANGED <<unity_state, unity_sent, unity_interrupted>>,
           \/ unity_posted' = Append(unity_posted, x) /\ unity_sendQueue' = unity_sendQueue
           \/ unity_sendQueue' = Append(unity_sendQueue, x) /\ unity_posted' = unity_posted
    PROVE  MessagesInTurn' /\ unity_posted' \in Seq(Int) /\ unity_sendQueue' \in Seq(Int)
<1>1. /\ unity_posted \in Seq(Int) /\ unity_sendQueue \in Seq(Int) /\ unity_sent \in Nat
      /\ Len(unity_posted) \in Nat /\ Len(unity_sendQueue) \in Nat
  BY DEF UnityTypes
<1>2. ~(x > 0) /\ x <= unity_sent
  BY <1>1
<1>3. CASE unity_posted' = Append(unity_posted, x) /\ unity_sendQueue' = unity_sendQueue
  <2>1. /\ unity_posted' \in Seq(Int) /\ Len(unity_posted') = Len(unity_posted) + 1
        /\ \A i \in 1..(Len(unity_posted) + 1) :
             unity_posted'[i] = IF i = Len(unity_posted) + 1 THEN x ELSE unity_posted[i]
    BY <1>1, <1>3, Appended
  <2>2. \A i \in 1..Len(unity_posted') :
          (i \in 1..Len(unity_posted) /\ unity_posted'[i] = unity_posted[i]) \/ unity_posted'[i] = x
    BY <1>1, <2>1
  <2>3. QED
    BY <1>1, <1>2, <1>3, <2>1, <2>2 DEF MessagesInTurn
<1>4. CASE unity_sendQueue' = Append(unity_sendQueue, x) /\ unity_posted' = unity_posted
  <2>1. /\ unity_sendQueue' \in Seq(Int) /\ Len(unity_sendQueue') = Len(unity_sendQueue) + 1
        /\ \A i \in 1..(Len(unity_sendQueue) + 1) :
             unity_sendQueue'[i] = IF i = Len(unity_sendQueue) + 1 THEN x ELSE unity_sendQueue[i]
    BY <1>1, <1>4, Appended
  <2>2. \A i \in 1..Len(unity_sendQueue') :
          (i \in 1..Len(unity_sendQueue) /\ unity_sendQueue'[i] = unity_sendQueue[i]) \/ unity_sendQueue'[i] = x
    BY <1>1, <2>1
  <2>3. QED
    BY <1>1, <1>2, <1>4, <2>1, <2>2 DEF MessagesInTurn
<1>5. QED
  BY <1>3, <1>4

LEMMA EndSendKeepsClient ==
    ASSUME ClientInv, RestsBelow, Unity!Callback_OnSend, Unity!EndSend
    PROVE  ClientInv'
<1> USE DEF ClientInv
<1>1. /\ UNCHANGED <<unity_state, unity_socket, unity_eventQueue, unity_sendQueue, unity_recvBuffer, unity_incoming>>
      /\ UNCHANGED <<unity_units, unity_sent, unity_posted, unity_handled, unity_interrupted, redialed, unity_cut>>
  BY DEF Unity!Callback_OnSend, Unity!EndSend
<1>2. PICK o \in unity_ops :
        /\ o.kind = "send"
        /\ \/ unity_ops' = unity_ops \ {o} /\ UNCHANGED <<unity_status, unity_closed_twice>>
           \/ /\ Unity!Usable(unity_socket)
              /\ unity_ops' = (unity_ops \ {o}) \union {Unity!Op("part", unity_socket, -partials')}
              /\ UNCHANGED <<unity_status, unity_closed_twice>>
           \/ Unity!Close(unity_ops \ {o})
  BY DEF Unity!EndSend
<1>3. ~Connecting(o) /\ ~Closing(o)
  BY <1>2 DEF Connecting, Closing
<1>4. CASE /\ Unity!Usable(unity_socket)
           /\ unity_ops' = (unity_ops \ {o}) \union {Unity!Op("part", unity_socket, -partials')}
           /\ UNCHANGED <<unity_status, unity_closed_twice>>
  <2> DEFINE d == Unity!Op("part", unity_socket, -partials')
  <2>1. d.kind = "part" /\ d.socket = unity_socket /\ d = [kind |-> d.kind, socket |-> d.socket, n |-> d.n]
    BY DEF Unity!Op
  <2>2. unity_ops' = (unity_ops \ {o}) \union {d}
    BY <1>4
  <2> HIDE DEF d
  <2>3. unity_socket \in 1..MaxSockets /\ unity_socket \in Unity!Created
    BY <1>4 DEF Unity!Usable, UnityTypes, SocketsInOrder
  <2>4. d.kind \in OpKinds /\ ~Connecting(d) /\ ~Closing(d)
    BY <2>1 DEF OpKinds, RestKinds, Connecting, Closing
  <2>5. /\ \A p \in unity_ops' : /\ p.kind \in OpKinds /\ p.socket \in 1..MaxSockets
                                 /\ p = [kind |-> p.kind, socket |-> p.socket, n |-> p.n]
        /\ SocketsInOrder' /\ (Calm' => OneAtATime')
    BY <1>1, <1>3, <1>4, <2>1, <2>2, <2>3, <2>4, OpGoesOn
  <2>6. UnityTypes'
    BY <1>1, <1>4, <2>5 DEF UnityTypes
  <2>7. MessagesInTurn'
    BY <1>1, SameMessages
  <2>8. QED
    BY <2>5, <2>6, <2>7
<1>5. CASE unity_ops' = unity_ops \ {o} /\ UNCHANGED <<unity_status, unity_closed_twice>>
  BY <1>1, <1>3, <1>5, EndsQuietly
<1>6. CASE Unity!Close(unity_ops \ {o})
  BY <1>1, <1>2, <1>6, EndsInClose
<1>7. QED
  BY <1>2, <1>4, <1>5, <1>6

LEMMA SendRestKeepsClient ==
    ASSUME ClientInv, RestsBelow, Unity!Callback_OnSend, Unity!SendRest
    PROVE  ClientInv'
<1> USE DEF ClientInv
<1>1. /\ UNCHANGED <<unity_socket, unity_eventQueue, unity_recvBuffer, unity_incoming, unity_units>>
      /\ UNCHANGED <<unity_sent, unity_handled, unity_interrupted, unity_cut>>
  BY DEF Unity!Callback_OnSend
<1>2. PICK o \in unity_ops :
        \/ /\ o.kind \in {"part", "repost"}
           /\ \E k \in {"redial", "repost", "resend", "requeue"} : unity_ops' = Unity!Becomes(o, k)
           /\ UNCHANGED <<unity_state, unity_sendQueue, unity_posted, unity_status, unity_closed_twice, redialed>>
        \/ /\ o.kind = "redial" /\ Unity!Redial(Unity!Becomes(o, "repost"))
           /\ UNCHANGED <<unity_sendQueue, unity_posted, unity_closed_twice>>
        \/ /\ o.kind = "resend" /\ Unity!Writable(unity_socket)
           /\ unity_ops' = (unity_ops \ {o}) \union {Unity!Op("send", unity_socket, o.n)}
           /\ unity_posted' = Append(unity_posted, o.n)
           /\ UNCHANGED <<unity_state, unity_sendQueue, unity_status, unity_closed_twice, redialed>>
        \/ /\ o.kind = "resend" /\ Unity!Close(unity_ops \ {o})
           /\ UNCHANGED <<unity_state, unity_sendQueue, unity_posted, redialed>>
        \/ /\ o.kind = "requeue" /\ unity_ops' = unity_ops \ {o}
           /\ unity_sendQueue' = Append(unity_sendQueue, o.n)
           /\ UNCHANGED <<unity_state, unity_posted, unity_status, unity_closed_twice, redialed>>
  <2>1. PICK o \in unity_ops :
        \/ /\ o.kind = "part"
           /\ unity_ops' = Unity!Becomes(o, IF unity_state = "Disconnected" THEN "redial" ELSE "repost")
           /\ UNCHANGED <<unity_state, unity_sendQueue, unity_posted, unity_status, unity_closed_twice, redialed>>
        \/ /\ o.kind = "redial" /\ Unity!Redial(Unity!Becomes(o, "repost"))
           /\ UNCHANGED <<unity_sendQueue, unity_posted, unity_closed_twice>>
        \/ /\ o.kind = "repost"
           /\ unity_ops' = Unity!Becomes(o, IF unity_state = "Connected" THEN "resend" ELSE "requeue")
           /\ UNCHANGED <<unity_state, unity_sendQueue, unity_posted, unity_status, unity_closed_twice, redialed>>
        \/ /\ o.kind = "resend" /\ Unity!Writable(unity_socket)
           /\ unity_ops' = (unity_ops \ {o}) \union {Unity!Op("send", unity_socket, o.n)}
           /\ unity_posted' = Append(unity_posted, o.n)
           /\ UNCHANGED <<unity_state, unity_sendQueue, unity_status, unity_closed_twice, redialed>>
        \/ /\ o.kind = "resend" /\ ~Unity!Writable(unity_socket) /\ Unity!Close(unity_ops \ {o})
           /\ UNCHANGED <<unity_state, unity_sendQueue, unity_posted, redialed>>
        \/ /\ o.kind = "requeue"
           /\ unity_ops' = unity_ops \ {o} /\ unity_sendQueue' = Append(unity_sendQueue, o.n)
           /\ UNCHANGED <<unity_state, unity_posted, unity_status, unity_closed_twice, redialed>>
    BY Zenon DEF Unity!SendRest
  <2>2. QED
    BY <2>1
<1>3. o.kind \in RestKinds => o.n \in Int /\ o.n < 0
  BY DEF RestsBelow
<1>4. o.kind \in RestKinds => ~Connecting(o) /\ ~Closing(o)
  BY DEF RestKinds, Connecting, Closing
<1>5. CASE /\ o.kind \in {"part", "repost"}
           /\ \E k \in {"redial", "repost", "resend", "requeue"} : unity_ops' = Unity!Becomes(o, k)
           /\ UNCHANGED <<unity_state, unity_sendQueue, unity_posted, unity_status, unity_closed_twice, redialed>>
  <2>1. PICK k \in {"redial", "repost", "resend", "requeue"} : unity_ops' = Unity!Becomes(o, k)
    BY <1>5
  <2>2. PICK d : /\ d.kind = k /\ d.socket = o.socket /\ d.n = o.n
                 /\ d = [kind |-> d.kind, socket |-> d.socket, n |-> d.n]
                 /\ d.socket \in 1..MaxSockets /\ d.socket \in Unity!Created
                 /\ Unity!Becomes(o, k) = (unity_ops \ {o}) \union {d}
    BY OtherKind
  <2>3. d.kind \in OpKinds /\ ~Connecting(d) /\ ~Closing(d)
    BY <2>1, <2>2 DEF OpKinds, RestKinds, Connecting, Closing
  <2>4. ~Connecting(o) /\ ~Closing(o)
    BY <1>4, <1>5 DEF RestKinds
  <2>5. unity_ops' = (unity_ops \ {o}) \union {d}
    BY <2>1, <2>2
  <2>6. /\ \A p \in unity_ops' : /\ p.kind \in OpKinds /\ p.socket \in 1..MaxSockets
                                 /\ p = [kind |-> p.kind, socket |-> p.socket, n |-> p.n]
        /\ SocketsInOrder' /\ (Calm' => OneAtATime')
    BY <1>1, <1>5, <2>2, <2>3, <2>4, <2>5, OpGoesOn
  <2>7. UnityTypes'
    BY <1>1, <1>5, <2>6 DEF UnityTypes
  <2>8. MessagesInTurn'
    BY <1>1, <1>5, SameMessages
  <2>9. QED
    BY <2>6, <2>7, <2>8
<1>6. CASE /\ o.kind = "redial" /\ Unity!Redial(Unity!Becomes(o, "repost"))
           /\ UNCHANGED <<unity_sendQueue, unity_posted, unity_closed_twice>>
  <2>1. PICK d : /\ d.kind = "repost" /\ d.socket = o.socket /\ d.n = o.n
                 /\ d = [kind |-> d.kind, socket |-> d.socket, n |-> d.n]
                 /\ d.socket \in 1..MaxSockets /\ d.socket \in Unity!Created
                 /\ Unity!Becomes(o, "repost") = (unity_ops \ {o}) \union {d}
    BY OtherKind
  <2> DEFINE os == Unity!Becomes(o, "repost")
  <2>2. \A p \in os : /\ p.kind \in OpKinds /\ p.socket \in 1..MaxSockets /\ p.socket \in Unity!Created
                      /\ p = [kind |-> p.kind, socket |-> p.socket, n |-> p.n]
    BY <2>1 DEF UnityTypes, SocketsInOrder, OpKinds, RestKinds
  <2>3. Unity!Redial(os)
    BY <1>6
  <2> HIDE DEF os
  <2>4. /\ unity_state' = "OnConnecting" /\ redialed' = TRUE /\ ~Calm'
        /\ unity_status' \in [1..MaxSockets -> Statuses]
        /\ \A p \in unity_ops' : /\ p.kind \in OpKinds /\ p.socket \in 1..MaxSockets
                                 /\ p = [kind |-> p.kind, socket |-> p.socket, n |-> p.n]
        /\ SocketsInOrder'
    BY <1>1, <2>2, <2>3, RedialEffect
  <2>5. UnityTypes'
    BY <1>1, <1>6, <2>4 DEF UnityTypes
  <2>6. MessagesInTurn'
    BY <1>1, <1>6, <2>4, SameMessages
  <2>7. QED
    BY <2>4, <2>5, <2>6
<1>7. CASE /\ o.kind = "resend" /\ Unity!Writable(unity_socket)
           /\ unity_ops' = (unity_ops \ {o}) \union {Unity!Op("send", unity_socket, o.n)}
           /\ unity_posted' = Append(unity_posted, o.n)
           /\ UNCHANGED <<unity_state, unity_sendQueue, unity_status, unity_closed_twice, redialed>>
  <2> DEFINE d == Unity!Op("send", unity_socket, o.n)
  <2>1. d.kind = "send" /\ d.socket = unity_socket /\ d = [kind |-> d.kind, socket |-> d.socket, n |-> d.n]
    BY DEF Unity!Op
  <2>2. unity_ops' = (unity_ops \ {o}) \union {d}
    BY <1>7
  <2> HIDE DEF d
  <2>3. unity_socket \in 1..MaxSockets /\ unity_socket \in Unity!Created
    BY <1>7 DEF Unity!Writable, UnityTypes, SocketsInOrder
  <2>4. d.kind \in OpKinds /\ ~Connecting(d) /\ ~Closing(d)
    BY <2>1 DEF OpKinds, Connecting, Closing
  <2>5. o.n \in Int /\ o.n < 0 /\ ~Connecting(o) /\ ~Closing(o)
    BY <1>3, <1>4, <1>7 DEF RestKinds
  <2>6. /\ \A p \in unity_ops' : /\ p.kind \in OpKinds /\ p.socket \in 1..MaxSockets
                                 /\ p = [kind |-> p.kind, socket |-> p.socket, n |-> p.n]
        /\ SocketsInOrder' /\ (Calm' => OneAtATime')
    BY <1>1, <1>7, <2>1, <2>2, <2>3, <2>4, <2>5, OpGoesOn
  <2>7. MessagesInTurn' /\ unity_posted' \in Seq(Int)
    BY <1>1, <1>7, <2>5, RestHasNoTurn
  <2>8. UnityTypes'
    BY <1>1, <1>7, <2>6, <2>7 DEF UnityTypes
  <2>9. QED
    BY <2>6, <2>7, <2>8
<1>8. CASE /\ o.kind = "resend" /\ Unity!Close(unity_ops \ {o})
           /\ UNCHANGED <<unity_state, unity_sendQueue, unity_posted, redialed>>
  BY <1>1, <1>8, EndsInClose
<1>9. CASE /\ o.kind = "requeue" /\ unity_ops' = unity_ops \ {o}
           /\ unity_sendQueue' = Append(unity_sendQueue, o.n)
           /\ UNCHANGED <<unity_state, unity_posted, unity_status, unity_closed_twice, redialed>>
  <2>1. o.n \in Int /\ o.n < 0 /\ ~Connecting(o) /\ ~Closing(o)
    BY <1>3, <1>4, <1>9 DEF RestKinds
  <2>2. MessagesInTurn' /\ unity_sendQueue' \in Seq(Int)
    BY <1>1, <1>9, <2>1, RestHasNoTurn
  <2>3. UnityTypes'
    BY <1>1, <1>9, <2>2 DEF UnityTypes
  <2>4. SocketsInOrder'
    BY <1>1, <1>9, SocketsStay
  <2>5. Calm' => OneAtATime'
    BY <1>1, <1>9, <2>1, SameConnection DEF Calm
  <2>6. QED
    BY <2>2, <2>3, <2>4, <2>5
<1>10. QED
  BY <1>2, <1>5, <1>6, <1>7, <1>8, <1>9

LEMMA OnSendKeepsClient ==
    ASSUME ClientInv, RestsBelow, Unity!Callback_OnSend
    PROVE  ClientInv'
BY EndSendKeepsClient, SendRestKeepsClient DEF Unity!Callback_OnSend

\* What the three steps of Callback_OnClose do, for the operation o.
LEMMA OnCloseEffect ==
    ASSUME UnityTypes, Unity!Callback_OnClose
    PROVE  /\ UNCHANGED <<unity_state, unity_sendQueue, unity_recvBuffer, unity_incoming, unity_units, unity_sent,
                          unity_posted, unity_handled, unity_interrupted, redialed, torn, unity_closed_twice>>
           /\ \E o \in unity_ops :
                /\ Closing(o)
                /\ \/ /\ unity_ops' = unity_ops \ {o}
                      /\ UNCHANGED <<unity_socket, unity_status, unity_eventQueue, unity_cut>>
                   \/ /\ o.kind = "disconnect"
                      /\ unity_ops' = (unity_ops \ {o}) \union {[o EXCEPT !.kind = "ended"]}
                      /\ UNCHANGED <<unity_socket, unity_status, unity_eventQueue, unity_cut>>
                   \/ /\ o.kind = "ended" /\ unity_socket # 0
                      /\ unity_ops' = (unity_ops \ {o}) \union {[o EXCEPT !.kind = "closed"]}
                      /\ unity_status' = [unity_status EXCEPT ![unity_socket] = "closed"]
                      /\ unity_cut' = (unity_cut \/ (unity_status' # unity_status /\
                           (unity_incoming[unity_socket] # <<>> \/ unity_units[unity_socket] % 2 = 1)))
                      /\ UNCHANGED <<unity_socket, unity_eventQueue>>
                   \/ /\ o.kind = "closed" /\ unity_ops' = unity_ops \ {o} /\ unity_socket' = 0
                      /\ unity_eventQueue' = Append(unity_eventQueue, Unity!Event("close", <<>>))
                      /\ UNCHANGED <<unity_status, unity_cut>>
<1>1. UNCHANGED <<unity_state, unity_sendQueue, unity_recvBuffer, unity_incoming, unity_units, unity_sent,
                  unity_posted, unity_handled, unity_interrupted, redialed, torn, unity_closed_twice>>
  BY DEF Unity!Callback_OnClose
<1> DEFINE Goes(o, k) == (unity_ops \ {o}) \union {[o EXCEPT !.kind = k]}
<1>2. PICK o \in unity_ops :
        /\ Closing(o)
        /\ CASE o.kind = "disconnect" ->
                   unity_ops' = (IF unity_socket = o.socket /\ unity_status[unity_socket] # "closed"
                                 THEN Goes(o, "ended") ELSE unity_ops \ {o})
             [] o.kind = "ended" -> unity_ops' = (IF unity_socket # 0 THEN Goes(o, "closed") ELSE unity_ops \ {o})
             [] o.kind = "closed" -> unity_ops' = unity_ops \ {o}
        /\ unity_status' = IF o.kind = "ended" /\ unity_socket # 0
                           THEN [unity_status EXCEPT ![unity_socket] = "closed"] ELSE unity_status
        /\ unity_socket' = IF o.kind = "closed" THEN 0 ELSE unity_socket
        /\ unity_eventQueue' = IF o.kind = "closed" THEN Append(unity_eventQueue, Unity!Event("close", <<>>))
                               ELSE unity_eventQueue
        /\ unity_cut' = (unity_cut \/ (unity_status' # unity_status /\
             (unity_incoming[unity_socket] # <<>> \/ unity_units[unity_socket] % 2 = 1)))
  BY DEF Unity!Callback_OnClose, Unity!Disconnects, Unity!Becomes, Closing
<1>3. unity_cut \in BOOLEAN
  BY DEF UnityTypes
<1>4. o.kind \in {"disconnect", "ended", "closed"}
  BY <1>2 DEF Closing
<1>5. unity_status' = unity_status => unity_cut' = unity_cut
  BY <1>2, <1>3
<1>6. CASE o.kind = "disconnect"
  <2>1. UNCHANGED <<unity_socket, unity_status, unity_eventQueue, unity_cut>>
    BY <1>2, <1>5, <1>6
  <2>2. unity_ops' = unity_ops \ {o} \/ unity_ops' = Goes(o, "ended")
    BY <1>2, <1>6
  <2>3. QED
    BY <1>1, <1>2, <1>6, <2>1, <2>2
<1>7. CASE o.kind = "ended" /\ unity_socket # 0
  <2>1. unity_ops' = Goes(o, "closed")
    BY <1>2, <1>7
  <2>2. /\ unity_status' = [unity_status EXCEPT ![unity_socket] = "closed"]
        /\ UNCHANGED <<unity_socket, unity_eventQueue>>
    BY <1>2, <1>7
  <2>3. QED
    BY <1>1, <1>2, <1>7, <2>1, <2>2
<1>8. CASE o.kind = "ended" /\ unity_socket = 0
  <2>1. UNCHANGED <<unity_socket, unity_status, unity_eventQueue, unity_cut>>
    BY <1>2, <1>5, <1>8
  <2>2. unity_ops' = unity_ops \ {o}
    BY <1>2, <1>8
  <2>3. QED
    BY <1>1, <1>2, <2>1, <2>2
<1>9. CASE o.kind = "closed"
  <2>1. UNCHANGED <<unity_status, unity_cut>> /\ unity_socket' = 0
    BY <1>2, <1>5, <1>9
  <2>2. /\ unity_ops' = unity_ops \ {o}
        /\ unity_eventQueue' = Append(unity_eventQueue, Unity!Event("close", <<>>))
    BY <1>2, <1>9
  <2>3. QED
    BY <1>1, <1>2, <1>9, <2>1, <2>2
<1>10. QED
  BY <1>4, <1>6, <1>7, <1>8, <1>9

\* One Close goes a step further, or ends.
LEMMA CloseGoesOn ==
    ASSUME UnityTypes, OneAtATime, NEW o \in unity_ops, Closing(o),
           UNCHANGED <<unity_state, unity_socket, unity_eventQueue>>, Live' \subseteq Live,
           \/ unity_ops' = unity_ops \ {o}
           \/ \E d : /\ Closing(d) /\ d.socket = o.socket /\ (d.kind = "closed" => Live' = {})
                    /\ unity_ops' = (unity_ops \ {o}) \union {d}
    PROVE  OneAtATime'
<1>1. Events' = Events
  BY DEF Events
<1>2. \A p \in unity_ops : Closing(p) => p = o
  BY DEF OneAtATime
<1>3. \A p \in unity_ops : ~Connecting(p)
  BY DEF OneAtATime
<1>4. \A p : Closing(p) => ~Connecting(p)
  BY DEF Connecting, Closing
<1>5. /\ \A p \in unity_ops' : ~Connecting(p)
      /\ \A p, q \in unity_ops' : Closing(p) /\ Closing(q) => p = q
  BY <1>2, <1>3, <1>4
<1>6. \A p \in unity_ops' : Closing(p) => p.socket = unity_socket /\ (p.kind = "closed" => Live' = {})
  BY <1>2 DEF OneAtATime
<1>7. unity_state # "Disconnected" /\ \A i \in Events : unity_eventQueue[i].kind # "close"
  BY DEF OneAtATime
<1>8. Live' \subseteq {unity_socket}
  BY DEF OneAtATime
<1>9. QED
  BY <1>1, <1>5, <1>6, <1>7, <1>8 DEF OneAtATime

LEMMA OnCloseKeepsClient ==
    ASSUME ClientInv, Unity!Callback_OnClose
    PROVE  ClientInv'
<1> USE DEF ClientInv, Calm
<1>1. UNCHANGED <<unity_state, unity_sendQueue, unity_recvBuffer, unity_incoming, unity_units, unity_sent,
                  unity_posted, unity_handled, unity_interrupted, redialed, unity_closed_twice>>
  BY OnCloseEffect
<1>2. PICK o \in unity_ops :
        /\ Closing(o)
        /\ \/ /\ unity_ops' = unity_ops \ {o}
              /\ UNCHANGED <<unity_socket, unity_status, unity_eventQueue, unity_cut>>
           \/ /\ o.kind = "disconnect"
              /\ unity_ops' = (unity_ops \ {o}) \union {[o EXCEPT !.kind = "ended"]}
              /\ UNCHANGED <<unity_socket, unity_status, unity_eventQueue, unity_cut>>
           \/ /\ o.kind = "ended" /\ unity_socket # 0
              /\ unity_ops' = (unity_ops \ {o}) \union {[o EXCEPT !.kind = "closed"]}
              /\ unity_status' = [unity_status EXCEPT ![unity_socket] = "closed"]
              /\ unity_cut' = (unity_cut \/ (unity_status' # unity_status /\
                   (unity_incoming[unity_socket] # <<>> \/ unity_units[unity_socket] % 2 = 1)))
              /\ UNCHANGED <<unity_socket, unity_eventQueue>>
           \/ /\ o.kind = "closed" /\ unity_ops' = unity_ops \ {o} /\ unity_socket' = 0
              /\ unity_eventQueue' = Append(unity_eventQueue, Unity!Event("close", <<>>))
              /\ UNCHANGED <<unity_status, unity_cut>>
  BY OnCloseEffect
<1>3. MessagesInTurn'
  BY <1>1, SameMessages
<1>4. \A k \in {"ended", "closed"} :
        LET d == [o EXCEPT !.kind = k] IN
        /\ d.kind = k /\ d.socket = o.socket /\ d = [kind |-> d.kind, socket |-> d.socket, n |-> d.n]
        /\ d.kind \in OpKinds /\ d.socket \in 1..MaxSockets /\ Closing(d)
  <2>1. o = [kind |-> o.kind, socket |-> o.socket, n |-> o.n] /\ o.socket \in 1..MaxSockets
    BY DEF UnityTypes
  <2>2. QED
    BY <2>1 DEF OpKinds, Closing
<1>5. CASE unity_ops' = unity_ops \ {o} /\ UNCHANGED <<unity_socket, unity_status, unity_eventQueue, unity_cut>>
  <2>1. UnityTypes'
    BY <1>1, <1>5 DEF UnityTypes
  <2>2. Live' = Live
    BY <1>5 DEF Live
  <2>3. Calm' => OneAtATime'
    BY <1>1, <1>2, <1>5, <2>2, CloseGoesOn
  <2>4. QED
    BY <1>3, <1>5, <2>1, <2>3, SocketsStay
<1>6. CASE /\ o.kind = "disconnect"
           /\ unity_ops' = (unity_ops \ {o}) \union {[o EXCEPT !.kind = "ended"]}
           /\ UNCHANGED <<unity_socket, unity_status, unity_eventQueue, unity_cut>>
  <2>1. PICK d : /\ d.kind = "ended" /\ d.socket = o.socket /\ d = [kind |-> d.kind, socket |-> d.socket, n |-> d.n]
                 /\ d.kind \in OpKinds /\ d.socket \in 1..MaxSockets /\ Closing(d)
                 /\ unity_ops' = (unity_ops \ {o}) \union {d}
    BY <1>4, <1>6
  <2>2. UnityTypes'
    BY <1>1, <1>6, <2>1 DEF UnityTypes
  <2>3. Live' = Live
    BY <1>6 DEF Live
  <2>4. Calm' => OneAtATime'
    BY <1>1, <1>2, <1>6, <2>1, <2>3, CloseGoesOn
  <2>5. SocketsInOrder'
    <3>1. \A p \in unity_ops' : p.socket \in Unity!Created
      BY <2>1 DEF SocketsInOrder
    <3>2. unity_socket' \in Unity!Created \union {0}
      BY <1>6 DEF SocketsInOrder
    <3>3. QED
      BY <1>6, <3>1, <3>2, CreatesNone
  <2>6. QED
    BY <1>3, <2>2, <2>4, <2>5
<1>7. CASE /\ o.kind = "ended" /\ unity_socket # 0
           /\ unity_ops' = (unity_ops \ {o}) \union {[o EXCEPT !.kind = "closed"]}
           /\ unity_status' = [unity_status EXCEPT ![unity_socket] = "closed"]
           /\ unity_cut' = (unity_cut \/ (unity_status' # unity_status /\
                (unity_incoming[unity_socket] # <<>> \/ unity_units[unity_socket] % 2 = 1)))
           /\ UNCHANGED <<unity_socket, unity_eventQueue>>
  <2>1. PICK d : /\ d.kind = "closed" /\ d.socket = o.socket /\ d = [kind |-> d.kind, socket |-> d.socket, n |-> d.n]
                 /\ d.kind \in OpKinds /\ d.socket \in 1..MaxSockets /\ Closing(d)
                 /\ unity_ops' = (unity_ops \ {o}) \union {d}
    BY <1>4, <1>7
  <2>2. unity_socket \in 1..MaxSockets /\ unity_socket \in Unity!Created
    BY <1>7 DEF UnityTypes, SocketsInOrder
  <2>3. unity_cut' \in BOOLEAN
    BY <1>7 DEF UnityTypes
  <2>4. unity_status' \in [1..MaxSockets -> Statuses]
    BY <1>7 DEF UnityTypes, Statuses
  <2>5. UnityTypes'
    BY <1>1, <1>7, <2>1, <2>3, <2>4 DEF UnityTypes
  <2>6. ASSUME Calm' PROVE OneAtATime'
    <3>1. OneAtATime
      BY <1>1, <2>6
    <3>2. Live' = Live \ {unity_socket}
      BY <1>7, <2>2 DEF Live, UnityTypes
    <3>3. Live' = {}
      BY <3>1, <3>2 DEF OneAtATime
    <3>4. QED
      BY <1>1, <1>2, <1>7, <2>1, <3>1, <3>3, CloseGoesOn
  <2>7. SocketsInOrder'
    <3>1. \A s \in 1..MaxSockets : unity_status'[s] = "none" <=> unity_status[s] = "none"
      BY <1>7, <2>2 DEF UnityTypes, Unity!Created
    <3>2. \A p \in unity_ops' : p.socket \in Unity!Created
      BY <2>1 DEF SocketsInOrder
    <3>3. QED
      BY <1>7, <2>2, <3>1, <3>2, CreatesNone
  <2>8. QED
    BY <1>3, <2>5, <2>6, <2>7
<1>8. CASE /\ o.kind = "closed" /\ unity_ops' = unity_ops \ {o} /\ unity_socket' = 0
           /\ unity_eventQueue' = Append(unity_eventQueue, Unity!Event("close", <<>>))
           /\ UNCHANGED <<unity_status, unity_cut>>
  <2>1. <<>> \in Seq(Unit)
    OBVIOUS
  <2>2. /\ unity_eventQueue' \in Seq(ClientEvent)
        /\ Len(unity_eventQueue) \in Nat
        /\ Events = 1..Len(unity_eventQueue) /\ Events' = 1..(Len(unity_eventQueue) + 1)
        /\ \A i \in Events : unity_eventQueue'[i] = unity_eventQueue[i]
        /\ unity_eventQueue'[Len(unity_eventQueue) + 1].kind = "close"
    BY <1>8, <2>1, QueuesEvent
  <2>3. UnityTypes'
    BY <1>1, <1>8, <2>2, UnityAssumption DEF UnityTypes
  <2>4. SocketsInOrder'
    <3>1. \A p \in unity_ops' : p.socket \in Unity!Created
      BY <1>8 DEF SocketsInOrder
    <3>2. QED
      BY <1>8, <3>1, CreatesNone
  <2>5. ASSUME Calm' PROVE OneAtATime'
    <3>1. OneAtATime
      BY <1>1, <2>5
    <3>2. Live = {} /\ Live' = {}
      BY <1>2, <1>8, <3>1 DEF OneAtATime, Live
    <3>3. /\ \A p \in unity_ops' : ~Connecting(p) /\ ~Closing(p)
          /\ unity_state # "Disconnected"
          /\ \A i \in Events : unity_eventQueue[i].kind # "close"
      BY <1>2, <1>8, <3>1 DEF OneAtATime
    <3>4. \A i \in Events : unity_state # "OnConnecting" => ~Connecting(unity_eventQueue[i])
      BY <3>1 DEF OneAtATime
    <3>5. \A i \in Events, j \in Events :
            Connecting(unity_eventQueue[i]) /\ unity_eventQueue[j].kind # "receive" => i = j
      BY <3>1, <3>3 DEF OneAtATime
    <3> DEFINE last == Len(unity_eventQueue) + 1
    <3>6. \A i \in Events' :
            \/ i \in Events /\ i < last /\ unity_eventQueue'[i] = unity_eventQueue[i]
            \/ i = last /\ unity_eventQueue'[i].kind = "close" /\ ~Connecting(unity_eventQueue'[i])
      BY <2>2 DEF Connecting
    <3> HIDE DEF last
    <3>7. \A i, j \in Events' :
            Connecting(unity_eventQueue'[i]) /\ unity_eventQueue'[j].kind # "receive" /\ i # j =>
              i < j /\ unity_eventQueue'[j].kind = "close"
      BY <3>5, <3>6
    <3>8. \A i, j \in Events' : unity_eventQueue'[i].kind = "close" /\ unity_eventQueue'[j].kind = "close" => i = j
      BY <3>3, <3>6
    <3>9. unity_state' # "OnConnecting" => \A i \in Events' : ~Connecting(unity_eventQueue'[i])
      BY <1>1, <3>4, <3>6
    <3>10. QED
      BY <1>1, <3>2, <3>3, <3>7, <3>8, <3>9 DEF OneAtATime
  <2>6. QED
    BY <1>3, <2>3, <2>4, <2>5
<1>9. QED
  BY <1>2, <1>5, <1>6, <1>7, <1>8

-----------------------------------------------------------------------------
(* The server and the network. *)

\* The status of a socket that is connected changes.
LEMMA StatusChanges ==
    ASSUME ClientInv, NEW s \in Live, NEW t \in {"eof", "dead"}, unity_status' = [unity_status EXCEPT ![s] = t],
           UNCHANGED <<unity_state, unity_socket, unity_ops, unity_eventQueue>>
    PROVE  /\ unity_status' \in [1..MaxSockets -> Statuses] /\ SocketsInOrder'
           /\ Calm => OneAtATime'
<1> USE DEF ClientInv, Calm
<1>1. unity_status' \in [1..MaxSockets -> Statuses]
  BY DEF UnityTypes, Statuses
<1>2. SocketsInOrder'
  <2>1. \A r \in 1..MaxSockets : unity_status'[r] = "none" <=> unity_status[r] = "none"
    BY DEF UnityTypes, Live
  <2>2. Unity!Created' = Unity!Created
    BY <2>1 DEF Unity!Created
  <2>3. QED
    BY <2>2 DEF SocketsInOrder
<1>3. ASSUME Calm PROVE OneAtATime'
  <2>1. Live' \subseteq Live /\ Live # {}
    BY DEF Live, UnityTypes
  <2>2. Events' = Events
    BY DEF Events
  <2>3. OneAtATime
    BY <1>3
  <2>4. /\ unity_state # "Disconnected" /\ \A o \in unity_ops : ~Connecting(o)
        /\ \A i \in Events : unity_eventQueue[i].kind # "close"
        /\ \A o \in unity_ops : Closing(o) => o.kind # "closed"
    BY <2>1, <2>3 DEF OneAtATime
  <2>5. QED
    BY <2>1, <2>2, <2>3, <2>4 DEF OneAtATime
<1>4. QED
  BY <1>1, <1>2, <1>3

LEMMA NetworkKeepsClient ==
    ASSUME ClientInv, Unity!ServerSends \/ Unity!ServerCloses \/ Unity!Reset
    PROVE  ClientInv'
<1> USE DEF ClientInv, Calm
<1>1. UNCHANGED <<unity_state, unity_socket, unity_eventQueue, unity_sendQueue, unity_recvBuffer, unity_ops,
                  unity_sent, unity_posted, unity_handled, unity_interrupted, redialed, unity_closed_twice>>
  BY DEF Unity!ServerSends, Unity!ServerCloses, Unity!Reset, Unity!client, Unity!history
<1>2. MessagesInTurn'
  BY <1>1, SameMessages
<1>3. CASE Unity!ServerSends
  <2>1. PICK s \in 1..MaxSockets :
          /\ unity_units' = [unity_units EXCEPT ![s] = @ + 1]
          /\ unity_incoming' = [unity_incoming EXCEPT ![s] = Append(@, <<s, unity_units'[s]>>)]
          /\ UNCHANGED <<unity_status, unity_cut>>
    BY <1>3 DEF Unity!ServerSends, Unity!history
  <2>2. unity_units' \in [1..MaxSockets -> Nat]
    BY <2>1 DEF UnityTypes
  <2>3. <<s, unity_units'[s]>> \in Unit
    BY <2>2 DEF Unit
  <2>4. unity_incoming' \in [1..MaxSockets -> Seq(Unit)]
    <3>1. unity_incoming[s] \in Seq(Unit)
      BY DEF UnityTypes
    <3>2. Append(unity_incoming[s], <<s, unity_units'[s]>>) \in Seq(Unit)
      BY <2>3, <3>1, Appended
    <3>3. QED
      BY <2>1, <3>2 DEF UnityTypes
  <2>5. UnityTypes'
    BY <1>1, <2>1, <2>2, <2>4 DEF UnityTypes
  <2>6. SocketsInOrder'
    BY <1>1, <2>1, SocketsStay
  <2>7. Calm' => OneAtATime'
    BY <1>1, <2>1, SameConnection
  <2>8. QED
    BY <1>2, <2>5, <2>6, <2>7
<1>4. CASE Unity!ServerCloses \/ Unity!Reset
  <2>1. PICK s \in Live, t \in {"eof", "dead"} : unity_status' = [unity_status EXCEPT ![s] = t]
    BY <1>4 DEF Unity!ServerCloses, Unity!Reset, Unity!Usable, Live
  <2>2. unity_cut' \in BOOLEAN /\ UNCHANGED <<unity_incoming, unity_units>>
    BY <1>4 DEF Unity!ServerCloses, Unity!Reset, Unity!history, UnityTypes
  <2>3. /\ unity_status' \in [1..MaxSockets -> Statuses] /\ SocketsInOrder'
        /\ Calm => OneAtATime'
    BY <1>1, <2>1, StatusChanges
  <2>4. UnityTypes'
    BY <1>1, <2>2, <2>3 DEF UnityTypes
  <2>5. QED
    BY <1>1, <1>2, <2>3, <2>4
<1>5. QED
  BY <1>3, <1>4

LEMMA ClientKeeps == ClientInv /\ RestsBelow /\ [Unity!Next]_(Unity!vars) => ClientInv'
<1> SUFFICES ASSUME ClientInv, RestsBelow, [Unity!Next]_(Unity!vars) PROVE ClientInv'
  OBVIOUS
<1>1. CASE UNCHANGED Unity!vars
  <2>1. /\ UNCHANGED <<unity_state, unity_socket, unity_status, unity_ops, unity_eventQueue, unity_sendQueue,
                       unity_recvBuffer, unity_incoming, unity_units>>
        /\ UNCHANGED <<unity_sent, unity_posted, unity_handled, unity_interrupted, redialed, unity_closed_twice, unity_cut>>
    BY <1>1 DEF Unity!vars, Unity!client, Unity!network, Unity!history
  <2>2. UnityTypes'
    BY <2>1 DEF UnityTypes, ClientInv
  <2>3. SocketsInOrder'
    BY <2>1, SocketsStay DEF ClientInv
  <2>4. Calm' => OneAtATime'
    BY <2>1, SameConnection DEF ClientInv, Calm
  <2>5. MessagesInTurn'
    BY <2>1, SameMessages DEF ClientInv
  <2>6. QED
    BY <2>2, <2>3, <2>4, <2>5 DEF ClientInv
<1>2. CASE Unity!Callback_OnConnect \/ Unity!Callback_OnReconnect
  <2>1. PICK o \in unity_ops : o.kind \in {"connect", "reconnect"} /\ Unity!Connected(o)
    BY <1>2 DEF Unity!Callback_OnConnect, Unity!Callback_OnReconnect
  <2>2. QED
    BY <2>1, ConnectedKeepsClient
<1>3. QED
  BY <1>1, <1>2, ConnectKeepsClient, SendKeepsClient, CloseByGameKeepsClient, ConnectEventKeepsClient,
     ReconnectEventKeepsClient, ReconnectEventLoopsKeepsClient, CloseEventKeepsClient, ReceiveEventKeepsClient,
     OnReceiveKeepsClient, OnSendKeepsClient, OnCloseKeepsClient, NetworkKeepsClient
  DEF Unity!Next, Unity!Update, Unity!Callback

-----------------------------------------------------------------------------
(* What is left of messages that were sent in parts. *)

LEMMA RestsBegin == Unity!Init => RestsBelow
BY DEF Unity!Init, RestsBelow

\* Operations come that are not rests.
LEMMA NoRestComes ==
    ASSUME RestsBelow, partials' = partials,
           \A p \in unity_ops' : p \in unity_ops \/ p.kind \notin RestKinds
    PROVE  RestsBelow'
BY DEF RestsBelow

LEMMA CloseLeavesRests ==
    ASSUME UnityTypes, RestsBelow, partials' = partials, NEW os \in SUBSET unity_ops, Unity!Close(os)
    PROVE  RestsBelow'
<1>1. \A p \in unity_ops' : p \in unity_ops \/ p.kind = "disconnect"
  BY CloseEffect
<1>2. QED
  BY <1>1, NoRestComes DEF RestKinds

\* Another operation that a rest has become.
LEMMA RestGoesOn ==
    ASSUME UnityTypes, SocketsInOrder, RestsBelow, NEW o \in unity_ops, o.kind \in RestKinds, NEW k
    PROVE  \A p \in Unity!Becomes(o, k) : p.kind \in RestKinds => p.n \in Int /\ p.n < 0
<1>1. PICK d : /\ d.n = o.n
               /\ Unity!Becomes(o, k) = (unity_ops \ {o}) \union {d}
  BY OtherKind
<1>2. QED
  BY <1>1 DEF RestsBelow

LEMMA RedialLeavesRests ==
    ASSUME NEW os, Unity!Redial(os)
    PROVE  \A p \in unity_ops' : p \in os \/ p.kind = "reconnect"
BY DEF Unity!Redial, Unity!Op

LEMMA RestsKeep == UnityTypes /\ SocketsInOrder /\ RestsBelow /\ [Unity!Next]_(Unity!vars) => RestsBelow'
<1> SUFFICES ASSUME UnityTypes, SocketsInOrder, RestsBelow, [Unity!Next]_(Unity!vars) PROVE RestsBelow'
  OBVIOUS
<1>1. CASE UNCHANGED Unity!vars
  BY <1>1 DEF Unity!vars, Unity!network, RestsBelow
<1>2. CASE Unity!Connect
  <2>1. partials' = partials /\ \A p \in unity_ops' : p \in unity_ops \/ p.kind = "connect"
    BY <1>2 DEF Unity!Connect, Unity!Op
  <2>2. QED
    BY <2>1, NoRestComes DEF RestKinds
<1>3. CASE Unity!AsyncSend
  <2>1. partials' = partials
    BY <1>3 DEF Unity!AsyncSend
  <2>2. CASE Unity!Close(unity_ops)
    BY <2>1, <2>2, CloseLeavesRests
  <2>3. CASE \A p \in unity_ops' : p \in unity_ops \/ p.kind \in {"reconnect", "send"}
    BY <2>1, <2>3, NoRestComes DEF RestKinds
  <2>4. QED
    BY <1>3, <2>2, <2>3 DEF Unity!AsyncSend, Unity!Reconnect, Unity!PostSend, Unity!Op
<1>4. CASE Unity!CloseByGame
  BY <1>4, CloseLeavesRests DEF Unity!CloseByGame
<1>5. CASE Unity!ConnectEvent \/ Unity!CloseEvent \/ Unity!ReceiveEvent
  BY <1>5, NoRestComes DEF Unity!ConnectEvent, Unity!CloseEvent, Unity!ReceiveEvent, Unity!network
<1>6. CASE Unity!ReconnectEvent
  <2>1. partials' = partials /\ \A p \in unity_ops' : p \in unity_ops \/ p.kind = "send"
    BY <1>6 DEF Unity!ReconnectEvent, Unity!Sends, Unity!Op
  <2>2. QED
    BY <2>1, NoRestComes DEF RestKinds
<1>7. CASE Unity!ReconnectEventLoops
  <2>1. PICK o \in unity_ops, n \in 0..(Len(unity_sendQueue) - 1) :
          o.kind = "redial" /\ Unity!Redial(Unity!Becomes(o, "repost") \union Unity!Sends(n))
    BY <1>7 DEF Unity!ReconnectEventLoops
  <2>2. \A p \in Unity!Sends(n) : p.kind = "send"
    BY DEF Unity!Sends, Unity!Op
  <2>3. \A p \in Unity!Becomes(o, "repost") : p.kind \in RestKinds => p.n \in Int /\ p.n < 0
    BY <2>1, RestGoesOn DEF RestKinds
  <2>4. \A p \in unity_ops' : p \in Unity!Becomes(o, "repost") \/ p.kind \in {"send", "reconnect"}
    BY <2>1, <2>2, RedialLeavesRests
  <2>5. partials' = partials
    BY <1>7 DEF Unity!ReconnectEventLoops
  <2>6. QED
    BY <2>3, <2>4, <2>5 DEF RestsBelow, RestKinds
<1>8. CASE Unity!Callback_OnConnect \/ Unity!Callback_OnReconnect
  <2>1. partials' = partials /\ \A p \in unity_ops' : p \in unity_ops \/ p.kind = "receive"
    BY <1>8 DEF Unity!Callback_OnConnect, Unity!Callback_OnReconnect, Unity!Connected, Unity!Op
  <2>2. QED
    BY <2>1, NoRestComes DEF RestKinds
<1>9. CASE Unity!Callback_OnReceive
  <2>1. partials' = partials
    BY <1>9 DEF Unity!Callback_OnReceive
  <2>2. \/ \E o \in unity_ops : Unity!Close(unity_ops \ {o})
        \/ \A p \in unity_ops' : p \in unity_ops
    BY <1>9 DEF Unity!Callback_OnReceive
  <2>3. QED
    BY <2>1, <2>2, CloseLeavesRests, NoRestComes
<1>10. CASE Unity!EndSend /\ Unity!Callback_OnSend
  <2>1. PICK o \in unity_ops :
          \/ unity_ops' = unity_ops \ {o} /\ partials' = partials
          \/ /\ partials' = partials + 1
             /\ unity_ops' = (unity_ops \ {o}) \union {Unity!Op("part", unity_socket, -partials')}
          \/ Unity!Close(unity_ops \ {o}) /\ partials' = partials
    BY <1>10 DEF Unity!EndSend
  <2>2. CASE /\ partials' = partials + 1
             /\ unity_ops' = (unity_ops \ {o}) \union {Unity!Op("part", unity_socket, -partials')}
    <3> DEFINE d == Unity!Op("part", unity_socket, -partials')
    <3>1. d.n = -partials'
      BY DEF Unity!Op
    <3>2. unity_ops' = (unity_ops \ {o}) \union {d}
      BY <2>2
    <3> HIDE DEF d
    <3>3. partials' \in Nat /\ -partials' \in Int /\ -partials' < 0
      BY <2>2 DEF RestsBelow
    <3>4. QED
      BY <3>1, <3>2, <3>3 DEF RestsBelow
  <2>3. QED
    BY <2>1, <2>2, CloseLeavesRests, NoRestComes
<1>11. CASE Unity!SendRest /\ UNCHANGED partials
  <2>1. PICK o \in unity_ops :
          \/ o.kind \in RestKinds /\ \E k : unity_ops' = Unity!Becomes(o, k)
          \/ o.kind \in RestKinds /\ Unity!Redial(Unity!Becomes(o, "repost"))
          \/ unity_ops' = (unity_ops \ {o}) \union {Unity!Op("send", unity_socket, o.n)}
          \/ Unity!Close(unity_ops \ {o})
          \/ unity_ops' = unity_ops \ {o}
    BY <1>11 DEF Unity!SendRest, RestKinds
  <2>2. CASE o.kind \in RestKinds /\ \E k : unity_ops' = Unity!Becomes(o, k)
    BY <1>11, <2>2, RestGoesOn DEF RestsBelow
  <2>3. CASE o.kind \in RestKinds /\ Unity!Redial(Unity!Becomes(o, "repost"))
    <3>1. \A p \in Unity!Becomes(o, "repost") : p.kind \in RestKinds => p.n \in Int /\ p.n < 0
      BY <2>3, RestGoesOn
    <3>2. \A p \in unity_ops' : p \in Unity!Becomes(o, "repost") \/ p.kind = "reconnect"
      BY <2>3, RedialLeavesRests
    <3>3. QED
      BY <1>11, <3>1, <3>2 DEF RestsBelow, RestKinds
  <2>4. CASE unity_ops' = (unity_ops \ {o}) \union {Unity!Op("send", unity_socket, o.n)}
    <3>1. \A p \in unity_ops' : p \in unity_ops \/ p.kind = "send"
      BY <2>4 DEF Unity!Op
    <3>2. QED
      BY <1>11, <3>1, NoRestComes DEF RestKinds
  <2>5. QED
    BY <1>11, <2>1, <2>2, <2>3, <2>4, CloseLeavesRests, NoRestComes
<1>12. CASE Unity!Callback_OnClose
  <2>1. partials' = partials
    BY <1>12 DEF Unity!Callback_OnClose
  <2>2. PICK o \in unity_ops :
          \/ unity_ops' = unity_ops \ {o}
          \/ \E k \in {"ended", "closed"} : unity_ops' = (unity_ops \ {o}) \union {[o EXCEPT !.kind = k]}
    BY <1>12, OnCloseEffect
  <2>3. o = [kind |-> o.kind, socket |-> o.socket, n |-> o.n]
    BY DEF UnityTypes
  <2>4. \A k \in {"ended", "closed"} : [o EXCEPT !.kind = k].kind = k
    BY <2>3
  <2>5. \A p \in unity_ops' : p \in unity_ops \/ p.kind \in {"ended", "closed"}
    BY <2>2, <2>4
  <2>6. QED
    BY <2>1, <2>5, NoRestComes DEF RestKinds
<1>13. CASE Unity!ServerSends \/ Unity!ServerCloses \/ Unity!Reset
  BY <1>13, NoRestComes DEF Unity!ServerSends, Unity!ServerCloses, Unity!Reset
<1>14. QED
  BY <1>1, <1>2, <1>3, <1>4, <1>5, <1>6, <1>7, <1>8, <1>9, <1>10, <1>11, <1>12, <1>13
  DEF Unity!Next, Unity!Update, Unity!Callback, Unity!Callback_OnSend

\* A length that fits is the sum, and one that does not is too long or cut.
LEMMA PackedWholeHolds == Unity!PackedWhole
<1> SUFFICES ASSUME NEW size \in Sizes
             PROVE  Unity!IsPacked(size) <=> PACKET_HEADER_SIZE + size <= UNITY_BUFFER_SIZE
  BY DEF Unity!PackedWhole
<1> DEFINE M == 2 ^ LengthBits
           x == PACKET_HEADER_SIZE + size
<1>1. M \in Nat /\ UNITY_BUFFER_SIZE \in Nat /\ UNITY_BUFFER_SIZE < M /\ x \in Nat
  BY UnityAssumption
<1>2. Unity!IsPacked(size) <=> x % M <= UNITY_BUFFER_SIZE /\ x % M >= x
  BY DEF Unity!IsPacked, Unity!PacketLength
<1> HIDE DEF M, x
<1>3. x < M => x % M = x
  BY <1>1
<1>4. x % M \in Nat /\ x % M < M
  BY <1>1
<1>5. Unity!IsPacked(size) <=> x <= UNITY_BUFFER_SIZE
  BY <1>1, <1>2, <1>3, <1>4
<1>6. QED
  BY <1>5 DEF x

LEMMA QueueHolds == ClientInv => UnityQueue
<1> SUFFICES ASSUME ClientInv PROVE UnityQueue
  OBVIOUS
<1>1. Unity!OneConnection
  <2>1. SUFFICES ASSUME Calm PROVE Unity!OneConnection
    BY DEF Unity!OneConnection, Calm
  <2>2. OneAtATime
    BY <2>1 DEF ClientInv
  <2>3. Live = {} \/ Live = {unity_socket}
    BY <2>2 DEF OneAtATime
  <2>4. Cardinality(Live) <= 1
    <3>1. Cardinality({}) = 0 /\ Cardinality({unity_socket}) = 1
      BY FS_EmptySet, FS_Singleton
    <3>2. CASE Live = {}
      BY <3>1, <3>2
    <3>3. CASE Live = {unity_socket}
      BY <3>1, <3>3
    <3>4. QED
      BY <2>3, <3>2, <3>3
  <2>5. Unity!Cardinality(Live) <= 1
    BY <2>4, UnityCardinality
  <2>6. unity_state = "Disconnected" => \A s \in 1..MaxSockets : ~Unity!Usable(s)
    BY <2>2 DEF OneAtATime, Unity!Usable, Live
  <2>7. QED
    BY <2>5, <2>6 DEF Unity!OneConnection, Live
<1>2. Unity!SentInOrder
  <2>1. DOMAIN unity_posted = 1..Len(unity_posted)
    BY DEF ClientInv, UnityTypes
  <2>2. QED
    BY <2>1 DEF ClientInv, MessagesInTurn, Unity!SentInOrder, Unity!Message
<1>3. Unity!QueueWaitsForConnection
  <2>1. DOMAIN unity_sendQueue = 1..Len(unity_sendQueue)
    BY DEF ClientInv, UnityTypes
  <2>2. QED
    BY <2>1 DEF ClientInv, MessagesInTurn, Unity!QueueWaitsForConnection, Unity!Message
<1>4. QED
  BY <1>1, <1>2, <1>3, PackedWholeHolds DEF UnityQueue

LEMMA ClientHolds == Unity!Spec => []ClientInv
<1>1. Unity!Init => ClientInv /\ RestsBelow
  BY ClientBegins, RestsBegin
<1>2. (ClientInv /\ RestsBelow) /\ [Unity!Next]_(Unity!vars) => (ClientInv /\ RestsBelow)'
  BY ClientKeeps, RestsKeep DEF ClientInv
<1>3. QED
  BY <1>1, <1>2, PTL DEF Unity!Spec

\* Session.cs:43: over any number of connections, until Close is called twice,
\* the pool reconnects or an exception leaves the queue, there is one
\* connection; and messages leave in the order of the game, sent in one part or
\* in several.
THEOREM MessagesGoInOrder == Unity!Spec => []UnityQueue
BY ClientHolds, QueueHolds, PTL

-----------------------------------------------------------------------------
(* The old Unity client: what it reads. *)

Busy == {"connecting", "up", "eof", "shut"}
Ended == {"failed", "dead", "closed"}
ReadOf(s) == unity_units[s] - Len(unity_incoming[s])

\* What the server sends waits on a connection that may be read, of which only
\* the newest is one; nothing waits when a connection has ended.
Traffic ==
  /\ \A s \in 1..MaxSockets :
       /\ unity_status[s] \in {"none", "connecting", "failed"} => unity_units[s] = 0 /\ unity_incoming[s] = <<>>
       /\ unity_status[s] \in {"dead", "closed"} => unity_units[s] % 2 = 0 /\ unity_incoming[s] = <<>>
       /\ ReadOf(s) \in Nat
       /\ \A i \in 1..Len(unity_incoming[s]) : unity_incoming[s][i] = <<s, ReadOf(s) + i>>
  /\ \A s, t \in 1..MaxSockets : s < t /\ unity_status[t] # "none" => unity_status[s] \in Ended
  /\ \A o \in unity_ops : Connecting(o) => unity_status[o.socket] = "connecting"
  /\ \A s \in 1..MaxSockets : unity_status[s] = "connecting" =>
       \E o \in unity_ops : Connecting(o) /\ o.socket = s

\* R, all units read so far, is what was handled, what is left of it, and what
\* the events hold, of which at says where it is.
EventFits(e, R, from, to) ==
  /\ from + Len(e.buffer) = to /\ to <= Len(R)
  /\ e.kind # "receive" => e.buffer = <<>>
  /\ \A j \in 1..Len(e.buffer) : e.buffer[j] = R[from + j]
Stream(R, at) ==
  /\ at[1] = 2 * Len(unity_handled) + Len(unity_recvBuffer) /\ at[Len(unity_eventQueue) + 1] = Len(R)
  /\ \A i \in Events : EventFits(unity_eventQueue[i], R, at[i], at[i + 1])
  /\ at[1] <= Len(R)
  /\ \A i \in 1..Len(unity_recvBuffer) : unity_recvBuffer[i] = R[2 * Len(unity_handled) + i]
  /\ \A i \in 1..Len(unity_handled) : unity_handled[i] = <<R[2 * i - 1], R[2 * i]>>

\* The units of a connection follow each other, and connections do.
Ordered(R) ==
  /\ \A i \in 1..Len(R) :
       /\ R[i][2] > 0 /\ R[i][2] % 2 = i % 2
       /\ R[i][2] > 1 => i > 1 /\ R[i - 1] = <<R[i][1], R[i][2] - 1>>
  /\ \A i, j \in 1..Len(R) : i < j => R[i][1] < R[j][1] \/ (R[i][1] = R[j][1] /\ R[i][2] < R[j][2])

\* The next unit is one of a packet of this connection or of a new one.
NextFits(R) ==
  /\ \A s \in 1..MaxSockets :
       /\ unity_status[s] = "none" => \A i \in 1..Len(R) : R[i][1] < s
       /\ unity_status[s] \in Busy /\ ReadOf(s) = 0 => Len(R) % 2 = 0 /\ \A i \in 1..Len(R) : R[i][1] < s
       /\ unity_status[s] \in Busy /\ ReadOf(s) > 0 => Len(R) > 0 /\ R[Len(R)] = <<s, ReadOf(s)>>
  /\ (\A s \in 1..MaxSockets : unity_status[s] \notin Busy) => Len(R) % 2 = 0

Offsets == [Nat \ {0} -> Nat]
PacketsInv ==
  ~unity_cut /\ ~torn /\ ~unity_closed_twice /\ ~redialed =>
    Traffic /\ \E R \in Seq(Unit), at \in Offsets : Stream(R, at) /\ Ordered(R) /\ NextFits(R)

LEMMA StreamStays ==
    ASSUME NEW R, NEW at, Stream(R, at), UNCHANGED <<unity_eventQueue, unity_recvBuffer, unity_handled>>
    PROVE  Stream(R, at)'
<1>1. Events' = Events
  BY DEF Events
<1>2. QED
  BY <1>1 DEF Stream

LEMMA ReadStays ==
    ASSUME UNCHANGED <<unity_units, unity_incoming>>
    PROVE  \A s \in 1..MaxSockets : ReadOf(s)' = ReadOf(s)
BY DEF ReadOf

LEMMA PacketsBegin == Unity!Init => PacketsInv
<1> SUFFICES ASSUME Unity!Init PROVE PacketsInv
  OBVIOUS
<1>1. /\ unity_ops = {} /\ unity_status = [s \in 1..MaxSockets |-> "none"]
      /\ unity_units = [s \in 1..MaxSockets |-> 0] /\ unity_incoming = [s \in 1..MaxSockets |-> <<>>]
      /\ unity_eventQueue = <<>> /\ unity_recvBuffer = <<>> /\ unity_handled = <<>>
  BY DEF Unity!Init
<1>2. \A s \in 1..MaxSockets : /\ unity_units[s] = 0 /\ unity_incoming[s] = <<>> /\ Len(unity_incoming[s]) = 0
                              /\ unity_status[s] = "none" /\ ReadOf(s) = 0
  BY <1>1 DEF ReadOf
<1>3. Traffic
  BY <1>1, <1>2 DEF Traffic, Ended
<1> DEFINE at == [i \in Nat \ {0} |-> 0]
<1>4. at \in Offsets /\ <<>> \in Seq(Unit) /\ at[1] = 0
  BY DEF Offsets
<1>5. Len(unity_eventQueue) = 0 /\ Len(unity_recvBuffer) = 0 /\ Len(unity_handled) = 0 /\ Events = {}
  BY <1>1 DEF Events
<1>6. Stream(<<>>, at)
  BY <1>4, <1>5 DEF Stream
<1>7. Ordered(<<>>) /\ NextFits(<<>>)
  BY <1>2 DEF Ordered, NextFits, Busy
<1> HIDE DEF at
<1>8. QED
  BY <1>3, <1>4, <1>6, <1>7 DEF PacketsInv

-----------------------------------------------------------------------------
(* Steps that read nothing and leave the events. *)

LEMMA NothingMoves ==
    ASSUME PacketsInv, UNCHANGED <<unity_status, unity_units, unity_incoming, unity_eventQueue, unity_recvBuffer,
                                   unity_handled, unity_cut, unity_closed_twice, redialed, torn>>,
           \A o : Connecting(o) => (o \in unity_ops' <=> o \in unity_ops)
    PROVE  PacketsInv'
<1> SUFFICES ASSUME ~unity_cut, ~torn, ~unity_closed_twice, ~redialed
             PROVE  Traffic' /\ \E R \in Seq(Unit), at \in Offsets : (Stream(R, at) /\ Ordered(R) /\ NextFits(R))'
  BY DEF PacketsInv
<1>1. Traffic'
  BY ReadStays DEF PacketsInv, Traffic
<1>2. PICK R \in Seq(Unit), at \in Offsets : Stream(R, at) /\ Ordered(R) /\ NextFits(R)
  BY DEF PacketsInv
<1>3. NextFits(R)'
  BY <1>2, ReadStays DEF NextFits
<1>4. Stream(R, at)' /\ Ordered(R)'
  BY <1>2, StreamStays DEF Ordered
<1>5. QED
  BY <1>1, <1>3, <1>4

\* Of the sockets that are used one at most is not ended.
LEMMA OthersEnded ==
    ASSUME UnityTypes, Traffic, NEW s \in 1..MaxSockets, unity_status[s] \in Busy,
           NEW r \in 1..MaxSockets, r # s
    PROVE  unity_status[r] \in Ended \/ unity_status[r] = "none"
<1>1. unity_status[s] \notin Ended /\ unity_status[s] # "none"
  BY DEF Busy, Ended
<1>2. unity_status[r] # "none" => r < s
  BY <1>1, UnityAssumption DEF Traffic
<1>3. QED
  BY <1>1, <1>2 DEF Traffic

\* A socket that is used goes on.
LEMMA BusyGoesOn ==
    ASSUME UnityTypes, PacketsInv, ~unity_cut, ~torn, ~unity_closed_twice, ~redialed,
           NEW s \in 1..MaxSockets, NEW t \in Busy \ {"connecting"}, unity_status[s] \in Busy,
           unity_status' = [unity_status EXCEPT ![s] = t], UNCHANGED <<unity_units, unity_incoming>>,
           \A o : Connecting(o) => (o \in unity_ops' <=> o \in unity_ops /\ o.socket # s)
    PROVE  /\ Traffic' /\ \A R : NextFits(R) => NextFits(R)'
<1>1. Traffic
  BY DEF PacketsInv
<1>2. \A r \in 1..MaxSockets : unity_status'[r] = IF r = s THEN t ELSE unity_status[r]
  BY DEF UnityTypes
<1>3. \A r \in 1..MaxSockets : ReadOf(r)' = ReadOf(r)
  BY ReadStays
<1>4. /\ t \notin {"none", "connecting", "failed", "dead", "closed"}
      /\ unity_status[s] # "none" /\ unity_status[s] \notin Ended
  BY DEF Busy, Ended
<1>5. \A r \in 1..MaxSockets :
       /\ unity_status'[r] \in {"none", "connecting", "failed"} => unity_units'[r] = 0 /\ unity_incoming'[r] = <<>>
       /\ unity_status'[r] \in {"dead", "closed"} => unity_units'[r] % 2 = 0 /\ unity_incoming'[r] = <<>>
  BY <1>1, <1>2, <1>4 DEF Traffic
<1>6. \A q, r \in 1..MaxSockets : q < r /\ unity_status'[r] # "none" => unity_status'[q] \in Ended
  BY <1>1, <1>2, <1>4 DEF Traffic
<1>7. \A o \in unity_ops' : Connecting(o) => unity_status'[o.socket] = "connecting"
  BY <1>1, <1>2 DEF Traffic, UnityTypes
<1>8. \A r \in 1..MaxSockets : unity_status'[r] = "connecting" =>
        \E o \in unity_ops' : Connecting(o) /\ o.socket = r
  <2>1. SUFFICES ASSUME NEW r \in 1..MaxSockets, unity_status'[r] = "connecting"
                 PROVE  \E o \in unity_ops' : Connecting(o) /\ o.socket = r
    OBVIOUS
  <2>2. r # s /\ unity_status[r] = "connecting"
    BY <1>2, <1>4, <2>1
  <2>3. PICK o \in unity_ops : Connecting(o) /\ o.socket = r
    BY <1>1, <2>2 DEF Traffic
  <2>4. QED
    BY <2>2, <2>3
<1>9. Traffic'
  BY <1>1, <1>3, <1>5, <1>6, <1>7, <1>8 DEF Traffic
<1>10. ASSUME NEW R, NextFits(R) PROVE NextFits(R)'
  BY <1>2, <1>3, <1>4, <1>10 DEF NextFits
<1>11. QED
  BY <1>9, <1>10

\* A socket ends, after whole packets.
LEMMA SocketEnds ==
    ASSUME UnityTypes, PacketsInv, ~unity_cut, ~torn, ~unity_closed_twice, ~redialed,
           NEW s \in 1..MaxSockets, NEW t \in Ended, unity_status[s] # "none",
           unity_status' = [unity_status EXCEPT ![s] = t], UNCHANGED <<unity_units, unity_incoming>>,
           unity_incoming[s] = <<>>, unity_units[s] % 2 = 0, t = "failed" => unity_units[s] = 0,
           \A o : Connecting(o) => (o \in unity_ops' <=> o \in unity_ops /\ o.socket # s)
    PROVE  /\ Traffic' /\ \A R \in Seq(Unit) : NextFits(R) /\ Ordered(R) => NextFits(R)'
<1>1. Traffic
  BY DEF PacketsInv
<1>2. \A r \in 1..MaxSockets : unity_status'[r] = IF r = s THEN t ELSE unity_status[r]
  BY DEF UnityTypes
<1>3. \A r \in 1..MaxSockets : ReadOf(r)' = ReadOf(r)
  BY ReadStays
<1>4. t \notin Busy /\ t # "none" /\ t # "connecting" /\ t \in {"failed", "dead", "closed"}
  BY DEF Busy, Ended
<1>5. \A r \in 1..MaxSockets :
       /\ unity_status'[r] \in {"none", "connecting", "failed"} => unity_units'[r] = 0 /\ unity_incoming'[r] = <<>>
       /\ unity_status'[r] \in {"dead", "closed"} => unity_units'[r] % 2 = 0 /\ unity_incoming'[r] = <<>>
  BY <1>1, <1>2, <1>4 DEF Traffic
<1>6. \A q, r \in 1..MaxSockets : q < r /\ unity_status'[r] # "none" => unity_status'[q] \in Ended
  BY <1>1, <1>2, <1>4 DEF Traffic
<1>7. \A o \in unity_ops' : Connecting(o) => unity_status'[o.socket] = "connecting"
  BY <1>1, <1>2 DEF Traffic, UnityTypes
<1>8. \A r \in 1..MaxSockets : unity_status'[r] = "connecting" =>
        \E o \in unity_ops' : Connecting(o) /\ o.socket = r
  <2>1. SUFFICES ASSUME NEW r \in 1..MaxSockets, unity_status'[r] = "connecting"
                 PROVE  \E o \in unity_ops' : Connecting(o) /\ o.socket = r
    OBVIOUS
  <2>2. r # s /\ unity_status[r] = "connecting"
    BY <1>2, <1>4, <2>1
  <2>3. PICK o \in unity_ops : Connecting(o) /\ o.socket = r
    BY <1>1, <2>2 DEF Traffic
  <2>4. QED
    BY <2>2, <2>3
<1>9. Traffic'
  BY <1>1, <1>3, <1>5, <1>6, <1>7, <1>8 DEF Traffic
<1>10. ASSUME NEW R \in Seq(Unit), NextFits(R), Ordered(R) PROVE NextFits(R)'
  <2>1. \A r \in 1..MaxSockets :
          /\ unity_status'[r] = "none" => \A i \in 1..Len(R) : R[i][1] < r
          /\ unity_status'[r] \in Busy /\ ReadOf(r)' = 0 => Len(R) % 2 = 0 /\ \A i \in 1..Len(R) : R[i][1] < r
          /\ unity_status'[r] \in Busy /\ ReadOf(r)' > 0 => Len(R) > 0 /\ R[Len(R)] = <<r, ReadOf(r)'>>
    BY <1>2, <1>3, <1>4, <1>10 DEF NextFits
  <2>2. ASSUME \A r \in 1..MaxSockets : unity_status'[r] \notin Busy PROVE Len(R) % 2 = 0
    <3>1. CASE unity_status[s] \in Busy
      <4>1. ReadOf(s) = unity_units[s] /\ ReadOf(s) \in Nat
        BY <1>1 DEF Traffic, ReadOf, UnityTypes
      <4>2. CASE ReadOf(s) = 0
        BY <1>10, <3>1, <4>2 DEF NextFits
      <4>3. CASE ReadOf(s) > 0
        <5>1. Len(R) > 0 /\ R[Len(R)] = <<s, ReadOf(s)>> /\ Len(R) \in 1..Len(R)
          BY <1>10, <3>1, <4>3 DEF NextFits
        <5>2. R[Len(R)][2] % 2 = Len(R) % 2
          BY <1>10, <5>1 DEF Ordered
        <5>3. QED
          BY <4>1, <5>1, <5>2
      <4>4. QED
        BY <4>1, <4>2, <4>3
    <3>2. CASE unity_status[s] \notin Busy
      BY <1>2, <1>10, <2>2, <3>2 DEF NextFits
    <3>3. QED
      BY <3>1, <3>2
  <2>3. QED
    BY <2>1, <2>2 DEF NextFits
<1>11. QED
  BY <1>9, <1>10

\* A socket begins, when all that are used have ended.
LEMMA SocketBegins ==
    ASSUME UnityTypes, SocketsInOrder, PacketsInv, ~unity_cut, ~torn, ~unity_closed_twice, ~redialed,
           Unity!Fresh \in 1..MaxSockets, NEW d, Connecting(d), d.socket = Unity!Fresh,
           unity_status' = [unity_status EXCEPT ![Unity!Fresh] = "connecting"],
           UNCHANGED <<unity_units, unity_incoming>>,
           Live = {}, \A o \in unity_ops : ~Connecting(o), unity_ops' = unity_ops \union {d}
    PROVE  /\ Traffic' /\ \A R : NextFits(R) => NextFits(R)'
<1> DEFINE s == Unity!Fresh
<1>0. s \in 1..MaxSockets /\ unity_status[s] = "none"
  BY FreshFollows DEF Unity!Created
<1>1. Traffic
  BY DEF PacketsInv
<1>2. \A r \in 1..MaxSockets : unity_status'[r] = IF r = s THEN "connecting" ELSE unity_status[r]
  BY DEF UnityTypes
<1>3. \A r \in 1..MaxSockets : ReadOf(r)' = ReadOf(r)
  BY ReadStays
<1>4. \A r \in 1..MaxSockets : unity_status[r] \in Ended \/ unity_status[r] = "none"
  <2>1. \A r \in 1..MaxSockets : unity_status[r] # "connecting"
    BY <1>1 DEF Traffic
  <2>2. QED
    BY <2>1 DEF UnityTypes, Statuses, Live, Ended
<1>5. \A r \in 1..MaxSockets : unity_status[r] # "none" <=> r < s
  BY FreshFollows DEF Unity!Created
<1>6. unity_units[s] = 0 /\ unity_incoming[s] = <<>> /\ ReadOf(s) = 0
  <2>1. unity_units[s] = 0 /\ unity_incoming[s] = <<>>
    BY <1>0, <1>1 DEF Traffic
  <2>2. Len(unity_incoming[s]) = 0
    BY <2>1
  <2>3. ReadOf(s) = unity_units[s] - Len(unity_incoming[s])
    BY DEF ReadOf
  <2>4. QED
    BY <2>1, <2>2, <2>3
<1> HIDE DEF s
<1>7. \A r \in 1..MaxSockets :
       /\ unity_status'[r] \in {"none", "connecting", "failed"} => unity_units'[r] = 0 /\ unity_incoming'[r] = <<>>
       /\ unity_status'[r] \in {"dead", "closed"} => unity_units'[r] % 2 = 0 /\ unity_incoming'[r] = <<>>
  BY <1>1, <1>2, <1>6 DEF Traffic
<1>8. \A q, r \in 1..MaxSockets : q < r /\ unity_status'[r] # "none" => unity_status'[q] \in Ended
  <2>1. SUFFICES ASSUME NEW q \in 1..MaxSockets, NEW r \in 1..MaxSockets, q < r, unity_status'[r] # "none"
                 PROVE  unity_status'[q] \in Ended
    OBVIOUS
  <2>2. r <= s
    BY <1>0, <1>2, <1>5, <2>1
  <2>3. q < s /\ q # s
    BY <1>0, <2>1, <2>2
  <2>4. QED
    BY <1>2, <1>4, <1>5, <2>3
<1>9. \A o \in unity_ops' : Connecting(o) => unity_status'[o.socket] = "connecting"
  BY <1>0, <1>2 DEF s
<1>10. \A r \in 1..MaxSockets : unity_status'[r] = "connecting" =>
        \E o \in unity_ops' : Connecting(o) /\ o.socket = r
  <2>1. \A r \in 1..MaxSockets : unity_status'[r] = "connecting" => r = s
    BY <1>2, <1>4 DEF Ended
  <2>2. QED
    BY <2>1 DEF s
<1>11. Traffic'
  BY <1>1, <1>3, <1>7, <1>8, <1>9, <1>10 DEF Traffic
<1>12. ASSUME NEW R, NextFits(R) PROVE NextFits(R)'
  <2>1. \A r \in 1..MaxSockets : unity_status[r] \notin Busy
    BY <1>4 DEF Busy, Ended
  <2>2. Len(R) % 2 = 0 /\ \A i \in 1..Len(R) : R[i][1] < s
    BY <1>0, <1>12, <2>1 DEF NextFits
  <2>3. "connecting" \in Busy /\ "connecting" # "none"
    BY DEF Busy
  <2>4. QED
    BY <1>0, <1>2, <1>3, <1>6, <1>12, <2>1, <2>2, <2>3 DEF NextFits
<1>13. QED
  BY <1>11, <1>12

-----------------------------------------------------------------------------
(* Events come and go. *)

\* The sequence of all units grows by those of the new event, if any.
LEMMA StreamGrows ==
    ASSUME UnityTypes, NEW R \in Seq(Unit), NEW at \in Offsets, Stream(R, at),
           NEW k \in {"connect", "reconnect", "close", "receive"}, NEW b \in Seq(Unit),
           k # "receive" => b = <<>>, NEW S, S = R \o b,
           unity_eventQueue' = Append(unity_eventQueue, Unity!Event(k, b)),
           UNCHANGED <<unity_recvBuffer, unity_handled>>
    PROVE  \E to \in Offsets : Stream(S, to)'
<1> DEFINE q == Len(unity_eventQueue)
           h == Len(unity_handled)
           r == Len(unity_recvBuffer)
<1>1. /\ q \in Nat /\ Events = 1..q /\ Events' = 1..(q + 1) /\ Len(unity_eventQueue') = q + 1
      /\ \A i \in Events : unity_eventQueue'[i] = unity_eventQueue[i]
      /\ unity_eventQueue'[q + 1].kind = k /\ unity_eventQueue'[q + 1].buffer = b
  BY QueuesEvent
<1>2. /\ S \in Seq(Unit) /\ Len(S) = Len(R) + Len(b) /\ Len(R) \in Nat /\ Len(b) \in Nat
      /\ \A i \in 1..Len(R) : S[i] = R[i]
      /\ \A i \in 1..Len(b) : S[Len(R) + i] = b[i]
  BY JoinedOf
<1>3. PICK to \in Offsets : to[q + 2] = Len(S) /\ \A i \in 1..(q + 1) : to[i] = at[i] /\ at[i] \in Nat
  <2> DEFINE more == [at EXCEPT ![q + 2] = Len(S)]
  <2>1. /\ more \in Offsets /\ more[q + 2] = Len(S)
        /\ \A i \in 1..(q + 1) : more[i] = at[i] /\ at[i] \in Nat
    BY <1>1, <1>2 DEF Offsets
  <2> HIDE DEF more
  <2>2. QED
    BY <2>1
<1>4. r \in Nat /\ h \in Nat
  BY DEF UnityTypes
<1>5. at[1] = 2 * h + r /\ at[q + 1] = Len(R) /\ at[1] <= Len(R)
  BY DEF Stream
<1>6. /\ \A i \in 1..r : unity_recvBuffer[i] = R[2 * h + i]
      /\ \A i \in 1..h : unity_handled[i] = <<R[2 * i - 1], R[2 * i]>>
  BY DEF Stream
<1> HIDE DEF q, h, r
<1>7. to[1] = 2 * h + r /\ to[1] <= Len(S) /\ to[q + 1] = Len(R)
  <2>1. 1 \in 1..(q + 1) /\ q + 1 \in 1..(q + 1)
    BY <1>1
  <2>2. to[1] = at[1] /\ to[q + 1] = at[q + 1]
    BY <1>3, <2>1
  <2>3. QED
    BY <1>2, <1>4, <1>5, <2>2
<1>8. ASSUME NEW i \in Events' PROVE EventFits(unity_eventQueue'[i], S, to[i], to[i + 1])
  <2>1. CASE i \in Events
    <3> DEFINE e == unity_eventQueue[i]
    <3>1. to[i] = at[i] /\ to[i + 1] = at[i + 1] /\ at[i] \in Nat /\ at[i + 1] \in Nat
      BY <1>1, <1>3, <2>1
    <3>2. e.buffer \in Seq(Unit) /\ Len(e.buffer) \in Nat
      BY <2>1, EventKinds
    <3>3. EventFits(e, R, at[i], at[i + 1]) /\ unity_eventQueue'[i] = e
      BY <1>1, <2>1 DEF Stream
    <3> HIDE DEF e
    <3>4. at[i] + Len(e.buffer) = at[i + 1] /\ at[i + 1] <= Len(R) /\ (e.kind # "receive" => e.buffer = <<>>)
      BY <3>3 DEF EventFits
    <3>5. \A j \in 1..Len(e.buffer) : at[i] + j \in 1..Len(R)
      BY <1>2, <3>1, <3>2, <3>4
    <3>6. \A j \in 1..Len(e.buffer) : e.buffer[j] = S[at[i] + j]
      <4>1. \A j \in 1..Len(e.buffer) : e.buffer[j] = R[at[i] + j]
        BY <3>3 DEF EventFits
      <4>2. QED
        BY <1>2, <3>5, <4>1
    <3>7. at[i + 1] <= Len(S)
      BY <1>2, <3>1, <3>4
    <3>8. EventFits(e, S, at[i], at[i + 1])
      BY <3>4, <3>6, <3>7 DEF EventFits
    <3>9. QED
      BY <3>1, <3>3, <3>8
  <2>2. CASE i = q + 1
    <3>1. to[i] = Len(R) /\ to[i + 1] = Len(S)
      BY <1>1, <1>3, <1>7, <2>2
    <3>2. unity_eventQueue'[i].kind = k /\ unity_eventQueue'[i].buffer = b
      BY <1>1, <2>2
    <3>3. QED
      BY <1>2, <3>1, <3>2 DEF EventFits
  <2>3. QED
    BY <1>1, <2>1, <2>2
<1>9. /\ \A i \in 1..r : unity_recvBuffer[i] = S[2 * h + i]
      /\ \A i \in 1..h : unity_handled[i] = <<S[2 * i - 1], S[2 * i]>>
  <2>1. \A i \in 1..r : 2 * h + i \in 1..Len(R)
    BY <1>2, <1>4, <1>5
  <2>2. \A i \in 1..h : 2 * i - 1 \in 1..Len(R) /\ 2 * i \in 1..Len(R)
    BY <1>2, <1>4, <1>5
  <2>3. QED
    BY <1>2, <1>6, <2>1, <2>2
<1>10. to[Len(unity_eventQueue') + 1] = Len(S)
  <2>1. Len(unity_eventQueue') + 1 = q + 2
    BY <1>1
  <2>2. QED
    BY <1>3, <2>1
<1>11. Stream(S, to)'
  <2>1. Len(unity_handled') = h /\ Len(unity_recvBuffer') = r
    BY DEF h, r
  <2>2. /\ \A i \in 1..r : unity_recvBuffer'[i] = S[2 * h + i]
        /\ \A i \in 1..h : unity_handled'[i] = <<S[2 * i - 1], S[2 * i]>>
    BY <1>9
  <2>3. QED
    BY <1>7, <1>8, <1>10, <2>1, <2>2 DEF Stream
<1>12. QED
  BY <1>3, <1>11

\* An event that Update takes moves all behind it to the front.
LEMMA StreamMoves ==
    ASSUME UnityTypes, NEW R \in Seq(Unit), NEW at \in Offsets, Stream(R, at),
           unity_eventQueue # <<>>, unity_eventQueue' = Tail(unity_eventQueue),
           2 * Len(unity_handled') + Len(unity_recvBuffer') = at[2],
           \A i \in 1..Len(unity_recvBuffer') : unity_recvBuffer'[i] = R[2 * Len(unity_handled') + i],
           \A i \in 1..Len(unity_handled') : unity_handled'[i] = <<R[2 * i - 1], R[2 * i]>>
    PROVE  \E to \in Offsets : Stream(R, to)'
<1> DEFINE to == [i \in Nat \ {0} |-> at[i + 1]]
           q == Len(unity_eventQueue)
<1>1. /\ q \in Nat \ {0} /\ 1 \in Events /\ Events = 1..q /\ Events' = 1..(q - 1)
      /\ Len(unity_eventQueue') = q - 1
      /\ \A i \in Events' : i + 1 \in Events /\ unity_eventQueue'[i] = unity_eventQueue[i + 1]
  BY TakesHead, Tailed DEF Events, UnityTypes
<1>2. to \in Offsets /\ \A i \in 1..q : to[i] = at[i + 1]
  BY <1>1 DEF Offsets
<1>3. at[q + 1] = Len(R) /\ \A i \in Events : EventFits(unity_eventQueue[i], R, at[i], at[i + 1])
  BY DEF Stream
<1> HIDE DEF to, q
<1>4. to[1] = at[2] /\ at[2] <= Len(R)
  <2>1. EventFits(unity_eventQueue[1], R, at[1], at[1 + 1]) /\ to[1] = at[1 + 1]
    BY <1>1, <1>2, <1>3
  <2>2. 1 + 1 = 2
    OBVIOUS
  <2>3. QED
    BY <2>1, <2>2 DEF EventFits
<1>5. ASSUME NEW i \in Events' PROVE EventFits(unity_eventQueue'[i], R, to[i], to[i + 1])
  <2>2. i \in 1..q /\ i + 1 \in 1..q /\ i + 1 \in Events /\ unity_eventQueue'[i] = unity_eventQueue[i + 1]
    BY <1>1
  <2>3. to[i] = at[i + 1] /\ to[i + 1] = at[(i + 1) + 1]
    BY <1>2, <2>2
  <2>4. EventFits(unity_eventQueue[i + 1], R, at[i + 1], at[(i + 1) + 1])
    BY <1>3, <2>2
  <2>5. QED
    BY <2>2, <2>3, <2>4
<1>6. to[Len(unity_eventQueue') + 1] = Len(R)
  <2>1. Len(unity_eventQueue') + 1 = q /\ q \in 1..q
    BY <1>1
  <2>2. to[q] = at[q + 1]
    BY <1>2, <2>1
  <2>3. QED
    BY <1>3, <2>1, <2>2
<1>7. Stream(R, to)'
  BY <1>4, <1>5, <1>6 DEF Stream
<1>8. QED
  BY <1>2, <1>7

LEMMA SumsOfThree == \A h, r, e \in Nat : (2 * h + r) + e = 2 * h + (r + e)
OBVIOUS

\* OnReceive takes whole packets off the front of what it has.
LEMMA StreamHandled ==
    ASSUME UnityTypes, NEW R \in Seq(Unit), NEW at \in Offsets, Stream(R, at), Unity!ReceiveEvent, ~torn'
    PROVE  \E to \in Offsets : Stream(R, to)'
<1> DEFINE b == unity_recvBuffer \o unity_eventQueue[1].buffer
           h == Len(unity_handled)
<1>1. unity_eventQueue # <<>> /\ unity_eventQueue' = Tail(unity_eventQueue) /\ b \in Seq(Unit)
  BY ReceiveEventEffect
<1>2. PICK known \in Nat, f \in Seq(Packet), rest \in Seq(Unit) :
        /\ 2 * known <= Len(b) /\ Len(f) = known /\ Len(rest) = Len(b) - 2 * known
        /\ \A i \in 1..known : f[i] = <<b[2 * i - 1], b[2 * i]>>
        /\ \A i \in 1..(Len(b) - 2 * known) : rest[i] = b[2 * known + i]
        /\ unity_handled' = unity_handled \o f /\ unity_recvBuffer' = rest
  <2>1. PICK known \in Nat :
          /\ 2 * known <= Len(b)
          /\ unity_handled' = unity_handled \o [i \in 1..known |-> <<b[2 * i - 1], b[2 * i]>>]
          /\ unity_recvBuffer' = SubSeq(b, 2 * known + 1, Len(b))
    BY ReceiveEventEffect
  <2> DEFINE f == [i \in 1..known |-> <<b[2 * i - 1], b[2 * i]>>]
             rest == SubSeq(b, 2 * known + 1, Len(b))
  <2> HIDE DEF b
  <2>2. /\ known \in Nat /\ 2 * known <= Len(b)
        /\ rest \in Seq(Unit) /\ Len(rest) = Len(b) - 2 * known
        /\ \A i \in 1..(Len(b) - 2 * known) : rest[i] = b[2 * known + i]
        /\ f \in Seq(Packet) /\ Len(f) = known
    BY <1>1, <2>1, Cuts DEF Packet
  <2>3. \A i \in 1..known : f[i] = <<b[2 * i - 1], b[2 * i]>>
    OBVIOUS
  <2>4. unity_handled' = unity_handled \o f /\ unity_recvBuffer' = rest
    BY <2>1
  <2> HIDE DEF f, rest
  <2>5. QED
    BY <2>2, <2>3, <2>4
<1>3. 1 \in Events /\ unity_recvBuffer \in Seq(Unit) /\ unity_eventQueue[1].buffer \in Seq(Unit) /\ h \in Nat
  BY <1>1, TakesHead, EventKinds DEF UnityTypes
<1>4. /\ Len(b) = Len(unity_recvBuffer) + Len(unity_eventQueue[1].buffer)
      /\ Len(unity_recvBuffer) \in Nat /\ Len(unity_eventQueue[1].buffer) \in Nat
      /\ \A i \in 1..Len(unity_recvBuffer) : b[i] = unity_recvBuffer[i]
      /\ \A i \in 1..Len(unity_eventQueue[1].buffer) : b[Len(unity_recvBuffer) + i] = unity_eventQueue[1].buffer[i]
  BY <1>3, JoinedOf
<1> HIDE DEF b
<1>5. /\ Len(unity_handled') = h + known
      /\ \A i \in 1..h : unity_handled'[i] = unity_handled[i]
      /\ \A i \in 1..known : unity_handled'[h + i] = f[i]
  <2> DEFINE all == unity_handled \o f
  <2>1. unity_handled \in Seq(Packet) /\ f \in Seq(Packet)
    BY <1>2 DEF UnityTypes
  <2>2. /\ Len(all) = Len(unity_handled) + Len(f)
        /\ \A i \in 1..Len(unity_handled) : all[i] = unity_handled[i]
        /\ \A i \in 1..Len(f) : all[Len(unity_handled) + i] = f[i]
    BY <2>1, JoinedOf
  <2>3. unity_handled' = all
    BY <1>2
  <2> HIDE DEF all
  <2>4. QED
    BY <1>2, <2>2, <2>3
<1> HIDE DEF h
<1>6. at[1] = 2 * h + Len(unity_recvBuffer) /\ at[2] = 2 * h + Len(b)
  <2>1. at[1] = 2 * h + Len(unity_recvBuffer)
    BY DEF Stream, h
  <2>2. at[1] + Len(unity_eventQueue[1].buffer) = at[2]
    <3>1. EventFits(unity_eventQueue[1], R, at[1], at[1 + 1])
      BY <1>3 DEF Stream
    <3>2. 1 + 1 = 2
      OBVIOUS
    <3>3. QED
      BY <3>1, <3>2 DEF EventFits
  <2>3. at[1] \in Nat
    BY DEF Offsets
  <2>4. /\ Len(b) = Len(unity_recvBuffer) + Len(unity_eventQueue[1].buffer)
        /\ Len(unity_recvBuffer) \in Nat /\ Len(unity_eventQueue[1].buffer) \in Nat /\ h \in Nat
    BY <1>3, <1>4 DEF h
  <2>5. (2 * h + Len(unity_recvBuffer)) + Len(unity_eventQueue[1].buffer) =
          2 * h + (Len(unity_recvBuffer) + Len(unity_eventQueue[1].buffer))
    BY <2>4, SumsOfThree
  <2>6. QED
    BY <2>1, <2>2, <2>4, <2>5
<1>7. \A i \in 1..Len(b) : b[i] = R[2 * h + i]
  <2>1. SUFFICES ASSUME NEW i \in 1..Len(b) PROVE b[i] = R[2 * h + i]
    OBVIOUS
  <2>2. CASE i <= Len(unity_recvBuffer)
    <3>1. i \in 1..Len(unity_recvBuffer)
      BY <1>4, <2>2
    <3>2. QED
      BY <1>4, <3>1 DEF Stream, h
  <2>3. CASE i > Len(unity_recvBuffer)
    <3> DEFINE j == i - Len(unity_recvBuffer)
    <3>1. j \in 1..Len(unity_eventQueue[1].buffer) /\ Len(unity_recvBuffer) + j = i /\ at[1] + j = 2 * h + i
      BY <1>3, <1>4, <1>6, <2>3
    <3> HIDE DEF j
    <3>2. unity_eventQueue[1].buffer[j] = R[at[1] + j]
      <4>1. EventFits(unity_eventQueue[1], R, at[1], at[1 + 1])
        BY <1>3 DEF Stream
      <4>2. QED
        BY <3>1, <4>1 DEF EventFits
    <3>3. b[Len(unity_recvBuffer) + j] = unity_eventQueue[1].buffer[j]
      BY <1>4, <3>1
    <3>4. QED
      BY <3>1, <3>2, <3>3
  <2>4. QED
    BY <1>4, <2>2, <2>3
<1>8. h \in Nat /\ known \in Nat /\ Len(b) \in Nat /\ 2 * known <= Len(b)
  BY <1>3, <1>4, <1>2 DEF h
<1>9. 2 * Len(unity_handled') + Len(unity_recvBuffer') = at[2]
  <2>1. Len(unity_recvBuffer') = Len(b) - 2 * known
    BY <1>2
  <2>2. Len(unity_handled') = h + known
    BY <1>5
  <2>3. 2 * (h + known) + (Len(b) - 2 * known) = 2 * h + Len(b)
    BY <1>8
  <2>4. QED
    BY <1>6, <2>1, <2>2, <2>3
<1>10. \A i \in 1..Len(unity_recvBuffer') : unity_recvBuffer'[i] = R[2 * Len(unity_handled') + i]
  <2>1. SUFFICES ASSUME NEW i \in 1..(Len(b) - 2 * known) PROVE rest[i] = R[2 * (h + known) + i]
    BY <1>2, <1>5
  <2>2. 2 * known + i \in 1..Len(b) /\ 2 * h + (2 * known + i) = 2 * (h + known) + i
    BY <1>8, <2>1
  <2>3. QED
    BY <1>2, <1>7, <2>2
<1>11. \A i \in 1..Len(unity_handled') : unity_handled'[i] = <<R[2 * i - 1], R[2 * i]>>
  <2>1. SUFFICES ASSUME NEW i \in 1..(h + known) PROVE unity_handled'[i] = <<R[2 * i - 1], R[2 * i]>>
    BY <1>5
  <2>2. CASE i <= h
    <3>1. i \in 1..h
      BY <1>8, <2>1, <2>2
    <3>2. QED
      BY <1>5, <3>1 DEF Stream, h
  <2>3. CASE i > h
    <3> DEFINE j == i - h
    <3>1. /\ j \in 1..known /\ h + j = i /\ 2 * j - 1 \in 1..Len(b) /\ 2 * j \in 1..Len(b)
          /\ 2 * h + (2 * j - 1) = 2 * i - 1 /\ 2 * h + 2 * j = 2 * i
      <4>1. j \in 1..known /\ h + j = i
        BY <1>8, <2>1, <2>3
      <4> HIDE DEF j
      <4>2. QED
        BY <1>8, <4>1
    <3> HIDE DEF j
    <3>2. unity_handled'[h + j] = <<b[2 * j - 1], b[2 * j]>>
      BY <1>2, <1>5, <3>1
    <3>3. b[2 * j - 1] = R[2 * h + (2 * j - 1)] /\ b[2 * j] = R[2 * h + 2 * j]
      BY <1>7, <3>1
    <3>4. QED
      BY <3>1, <3>2, <3>3
  <2>4. QED
    BY <1>8, <2>1, <2>2, <2>3
<1>12. QED
  BY <1>1, <1>9, <1>10, <1>11, StreamMoves

-----------------------------------------------------------------------------
(* What is read. *)

LEMMA Parity ==
    ASSUME NEW a \in Nat, NEW c \in Nat, NEW j \in Nat, a % 2 = c % 2
    PROVE  (a + j) % 2 = (c + j) % 2
OBVIOUS

\* Units of s that follow those that were read of it.
LEMMA OrderedGrows ==
    ASSUME NEW R \in Seq(Unit), NEW b \in Seq(Unit), NEW s \in 1..MaxSockets, NEW r \in Nat, Ordered(R),
           \A j \in 1..Len(b) : b[j] = <<s, r + j>>,
           r = 0 => Len(R) % 2 = 0 /\ \A i \in 1..Len(R) : R[i][1] < s,
           r > 0 => Len(R) > 0 /\ R[Len(R)] = <<s, r>>
    PROVE  Ordered(R \o b)
<1> DEFINE S == R \o b
           L == Len(R)
<1>1. /\ S \in Seq(Unit) /\ Len(S) = L + Len(b) /\ L \in Nat /\ Len(b) \in Nat
      /\ \A i \in 1..L : S[i] = R[i]
      /\ \A i \in 1..Len(b) : S[L + i] = b[i]
  BY JoinedOf
<1>2. \A i \in 1..L : R[i][1] \in Nat /\ R[i][2] \in Nat
  <2>1. \A i \in 1..L : R[i] \in Unit
    OBVIOUS
  <2>2. QED
    BY <2>1, UnityAssumption DEF Unit
<1>3. \A i \in 1..L :
        /\ R[i][2] > 0 /\ R[i][2] % 2 = i % 2
        /\ R[i][2] > 1 => i > 1 /\ R[i - 1] = <<R[i][1], R[i][2] - 1>>
  BY DEF Ordered
<1>4. \A i, j \in 1..L : i < j => R[i][1] < R[j][1] \/ (R[i][1] = R[j][1] /\ R[i][2] < R[j][2])
  BY DEF Ordered
<1>5. r > 0 => L \in 1..L /\ R[L][1] = s /\ R[L][2] = r
  BY <1>1
<1>6. r % 2 = L % 2
  <2>1. CASE r = 0
    <3>1. L % 2 = 0
      BY <2>1
    <3>2. QED
      BY <2>1, <3>1
  <2>2. CASE r > 0
    <3>1. L \in 1..L /\ R[L][2] = r
      BY <1>5, <2>2
    <3>2. R[L][2] % 2 = L % 2
      BY <1>3, <3>1
    <3>3. QED
      BY <3>1, <3>2
  <2>3. QED
    BY <2>1, <2>2
<1>7. s \in Nat
  BY UnityAssumption
<1> HIDE DEF S, L
<1>8. \A j \in 1..Len(b) : S[L + j] = <<s, r + j>> /\ S[L + j][1] = s /\ S[L + j][2] = r + j
  <2>1. SUFFICES ASSUME NEW j \in 1..Len(b) PROVE S[L + j] = <<s, r + j>>
    OBVIOUS
  <2>2. S[L + j] = b[j] /\ b[j] = <<s, r + j>>
    BY <1>1
  <2>3. QED
    BY <2>2
<1>9. \A i \in 1..Len(S) : i \in 1..L \/ \E j \in 1..Len(b) : i = L + j
  <2>1. SUFFICES ASSUME NEW i \in 1..Len(S), i \notin 1..L PROVE \E j \in 1..Len(b) : i = L + j
    OBVIOUS
  <2>2. i - L \in 1..Len(b) /\ i = L + (i - L)
    BY <1>1, <2>1
  <2>3. QED
    BY <2>2
<1>10. ASSUME NEW i \in 1..Len(S)
       PROVE  /\ S[i][2] > 0 /\ S[i][2] % 2 = i % 2
              /\ S[i][2] > 1 => i > 1 /\ S[i - 1] = <<S[i][1], S[i][2] - 1>>
  <2>1. CASE i \in 1..L
    <3>1. i > 1 => i - 1 \in 1..L
      BY <1>1, <2>1
    <3>2. QED
      BY <1>1, <1>3, <2>1, <3>1
  <2>2. CASE i \notin 1..L
    <3>1. PICK j \in 1..Len(b) : i = L + j
      BY <1>9, <2>2
    <3>2. S[i][1] = s /\ S[i][2] = r + j
      BY <1>8, <3>1
    <3>3. (r + j) % 2 = i % 2 /\ r + j > 0
      <4>1. j \in Nat /\ j > 0
        BY <1>1, <3>1
      <4>2. (r + j) % 2 = (L + j) % 2
        BY <1>1, <1>6, <4>1, Parity
      <4>3. QED
        BY <3>1, <4>1, <4>2
    <3>4. CASE j = 1 /\ r > 0
      <4>1. i - 1 = L /\ i > 1
        BY <1>1, <1>5, <3>1, <3>4
      <4>2. S[L] = <<s, r>>
        BY <1>1, <1>5, <3>4 DEF L
      <4>3. r = r + j - 1
        BY <3>4
      <4>4. QED
        BY <3>2, <3>3, <4>1, <4>2, <4>3
    <3>5. CASE j = 1 /\ r = 0
      BY <3>2, <3>3, <3>5
    <3>6. CASE j > 1
      <4>1. j - 1 \in 1..Len(b) /\ i - 1 = L + (j - 1) /\ r + (j - 1) = r + j - 1 /\ i > 1
        BY <1>1, <3>1, <3>6
      <4>2. S[L + (j - 1)] = <<s, r + (j - 1)>>
        BY <1>8, <4>1
      <4>3. QED
        BY <3>2, <3>3, <4>1, <4>2
    <3>7. QED
      BY <1>1, <3>1, <3>4, <3>5, <3>6
  <2>3. QED
    BY <2>1, <2>2
<1>11. ASSUME NEW i \in 1..Len(S), NEW k \in 1..Len(S), i < k
       PROVE  S[i][1] < S[k][1] \/ (S[i][1] = S[k][1] /\ S[i][2] < S[k][2])
  <2>1. CASE k \in 1..L
    <3>1. i \in 1..L
      BY <1>1, <1>11, <2>1
    <3>2. S[i] = R[i] /\ S[k] = R[k]
      BY <1>1, <2>1, <3>1
    <3>3. QED
      BY <1>4, <1>11, <2>1, <3>1, <3>2
  <2>2. CASE k \notin 1..L
    <3>1. PICK j \in 1..Len(b) : k = L + j
      BY <1>9, <2>2
    <3>2. S[k][1] = s /\ S[k][2] = r + j
      BY <1>8, <3>1
    <3>3. CASE i \in 1..L
      <4>1. S[i] = R[i] /\ R[i][1] \in Nat /\ R[i][2] \in Nat
        BY <1>1, <1>2, <3>3
      <4>2. CASE r = 0
        BY <3>2, <3>3, <4>1, <4>2 DEF L
      <4>3. CASE r > 0
        <5>1. R[i][1] < s \/ (R[i][1] = s /\ R[i][2] <= r)
          <6>1. L \in 1..L /\ R[L][1] = s /\ R[L][2] = r
            BY <1>5, <4>3
          <6>2. i = L \/ i < L
            BY <1>1, <3>3
          <6>3. CASE i = L
            BY <4>1, <6>1, <6>3
          <6>4. CASE i < L
            <7>1. R[i][1] < R[L][1] \/ (R[i][1] = R[L][1] /\ R[i][2] < R[L][2])
              BY <1>4, <3>3, <6>1, <6>4
            <7>2. QED
              BY <4>1, <6>1, <7>1
          <6>5. QED
            BY <6>2, <6>3, <6>4
        <5>2. QED
          BY <1>1, <3>1, <3>2, <4>1, <5>1
      <4>4. QED
        BY <4>2, <4>3
    <3>4. CASE i \notin 1..L
      <4>1. PICK h \in 1..Len(b) : i = L + h
        BY <1>9, <3>4
      <4>2. S[i][1] = s /\ S[i][2] = r + h /\ h < j
        BY <1>1, <1>8, <1>11, <3>1, <4>1
      <4>3. QED
        BY <1>1, <3>1, <3>2, <4>1, <4>2
    <3>5. QED
      BY <3>3, <3>4
  <2>3. QED
    BY <2>1, <2>2
<1>12. Ordered(S)
  BY <1>10, <1>11 DEF Ordered
<1>13. QED
  BY <1>12 DEF S

LEMMA ReadsKeepPackets ==
    ASSUME ClientInv, PacketsInv, unity_socket \in Live, NEW n \in 1..Len(unity_incoming[unity_socket]),
           unity_eventQueue' = Append(unity_eventQueue,
             Unity!Event("receive", SubSeq(unity_incoming[unity_socket], 1, n))),
           unity_incoming' = [unity_incoming EXCEPT ![unity_socket] = SubSeq(@, n + 1, Len(@))],
           UNCHANGED <<unity_status, unity_ops, unity_recvBuffer, unity_units, unity_handled,
                       unity_closed_twice, unity_cut, redialed, torn>>
    PROVE  PacketsInv'
<1> SUFFICES ASSUME ~unity_cut, ~torn, ~unity_closed_twice, ~redialed
             PROVE  Traffic' /\ \E R \in Seq(Unit), at \in Offsets : (Stream(R, at) /\ Ordered(R) /\ NextFits(R))'
  BY DEF PacketsInv
<1> USE DEF ClientInv
<1>1. Traffic
  BY DEF PacketsInv
<1>2. PICK s \in 1..MaxSockets : s = unity_socket /\ unity_status[s] \in {"up", "eof", "shut"}
  BY DEF Live
<1>3. PICK w \in Seq(Unit) : w = unity_incoming[s]
  BY DEF UnityTypes
<1>4. PICK r \in Nat : r = ReadOf(s)
  BY <1>1 DEF Traffic
<1>5. n \in 1..Len(w) /\ Len(w) \in Nat /\ r = unity_units[s] - Len(w) /\ unity_units[s] \in Nat
  BY <1>2, <1>3, <1>4 DEF ReadOf, UnityTypes
<1>6. /\ SubSeq(w, 1, n) \in Seq(Unit) /\ Len(SubSeq(w, 1, n)) = n
      /\ \A i \in 1..n : SubSeq(w, 1, n)[i] = w[i]
  BY <1>5
<1>7. /\ SubSeq(w, n + 1, Len(w)) \in Seq(Unit) /\ Len(SubSeq(w, n + 1, Len(w))) = Len(w) - n
      /\ \A i \in 1..(Len(w) - n) : SubSeq(w, n + 1, Len(w))[i] = w[n + i]
  BY <1>5, Rest
<1>8. PICK b \in Seq(Unit) : b = SubSeq(w, 1, n)
  BY <1>6
<1>9. PICK c \in Seq(Unit) : c = SubSeq(w, n + 1, Len(w))
  BY <1>7
<1>10. /\ Len(b) = n /\ \A i \in 1..n : b[i] = w[i]
       /\ Len(c) = Len(w) - n /\ \A i \in 1..(Len(w) - n) : c[i] = w[n + i]
  BY <1>6, <1>7, <1>8, <1>9
<1>11. \A q \in 1..MaxSockets : unity_incoming'[q] = IF q = s THEN c ELSE unity_incoming[q]
  BY <1>2, <1>3, <1>9 DEF UnityTypes
<1>12. unity_eventQueue' = Append(unity_eventQueue, Unity!Event("receive", b))
  BY <1>2, <1>3, <1>8
<1>13. \A q \in 1..MaxSockets : q # s => ReadOf(q)' = ReadOf(q)
  BY <1>11 DEF ReadOf
<1>14. ReadOf(s)' = r + n
  <2>1. ReadOf(s)' = unity_units[s] - Len(c)
    BY <1>11 DEF ReadOf
  <2>2. QED
    BY <1>5, <1>10, <2>1
<1>15. \A i \in 1..Len(w) : w[i] = <<s, r + i>>
  BY <1>1, <1>3, <1>4 DEF Traffic
<1>16. \A j \in 1..Len(b) : b[j] = <<s, r + j>>
  <2>1. SUFFICES ASSUME NEW j \in 1..Len(b) PROVE b[j] = <<s, r + j>>
    OBVIOUS
  <2>2. j \in 1..n /\ j \in 1..Len(w)
    BY <1>5, <1>10
  <2>3. b[j] = w[j] /\ w[j] = <<s, r + j>>
    BY <1>10, <1>15, <2>2
  <2>4. QED
    BY <2>3
<1>17. \A j \in 1..Len(c) : c[j] = <<s, (r + n) + j>>
  <2>1. SUFFICES ASSUME NEW j \in 1..Len(c) PROVE c[j] = <<s, (r + n) + j>>
    OBVIOUS
  <2>2. j \in 1..(Len(w) - n) /\ n + j \in 1..Len(w) /\ r + (n + j) = (r + n) + j
    BY <1>5, <1>10, <2>1
  <2>3. c[j] = w[n + j] /\ w[n + j] = <<s, r + (n + j)>>
    BY <1>10, <1>15, <2>2
  <2>4. QED
    BY <2>2, <2>3
<1>18. unity_status[s] \in Busy /\ unity_status[s] \notin {"none", "connecting", "failed", "dead", "closed"}
  BY <1>2 DEF Busy
<1>19. Traffic'
  <2>1. \A q \in 1..MaxSockets :
          /\ unity_status'[q] \in {"none", "connecting", "failed"} => unity_units'[q] = 0 /\ unity_incoming'[q] = <<>>
          /\ unity_status'[q] \in {"dead", "closed"} => unity_units'[q] % 2 = 0 /\ unity_incoming'[q] = <<>>
    BY <1>1, <1>11, <1>18 DEF Traffic
  <2>2. \A q \in 1..MaxSockets : ReadOf(q)' \in Nat
    BY <1>1, <1>5, <1>13, <1>14 DEF Traffic
  <2>3. ASSUME NEW q \in 1..MaxSockets, NEW i \in 1..Len(unity_incoming'[q])
        PROVE  unity_incoming'[q][i] = <<q, ReadOf(q)' + i>>
    <3>1. CASE q = s
      <4>1. unity_incoming'[q] = c /\ i \in 1..Len(c)
        BY <1>11, <2>3, <3>1
      <4>2. ReadOf(q)' = r + n
        BY <1>14, <3>1
      <4>3. c[i] = <<s, (r + n) + i>>
        BY <1>17, <4>1
      <4>4. QED
        BY <3>1, <4>1, <4>2, <4>3
    <3>2. CASE q # s
      <4>1. unity_incoming'[q] = unity_incoming[q] /\ i \in 1..Len(unity_incoming[q])
        BY <1>11, <2>3, <3>2
      <4>2. ReadOf(q)' = ReadOf(q)
        BY <1>13, <3>2
      <4>3. unity_incoming[q][i] = <<q, ReadOf(q) + i>>
        BY <1>1, <4>1 DEF Traffic
      <4>4. QED
        BY <4>1, <4>2, <4>3
    <3>3. QED
      BY <3>1, <3>2
  <2>4. QED
    BY <1>1, <2>1, <2>2, <2>3 DEF Traffic
<1>20. PICK R \in Seq(Unit), at \in Offsets : Stream(R, at) /\ Ordered(R) /\ NextFits(R)
  BY DEF PacketsInv
<1>21. /\ r = 0 => Len(R) % 2 = 0 /\ \A i \in 1..Len(R) : R[i][1] < s
       /\ r > 0 => Len(R) > 0 /\ R[Len(R)] = <<s, r>>
  BY <1>4, <1>18, <1>20 DEF NextFits
<1>22. PICK S \in Seq(Unit) : S = R \o b
  BY JoinedOf
<1>23. /\ Len(S) = Len(R) + Len(b) /\ Len(R) \in Nat /\ Len(b) \in Nat
       /\ \A i \in 1..Len(R) : S[i] = R[i]
       /\ \A i \in 1..Len(b) : S[Len(R) + i] = b[i]
  BY <1>22, JoinedOf
<1>24. Ordered(S)
  BY <1>16, <1>20, <1>21, <1>22, OrderedGrows
<1>25. \E to \in Offsets : Stream(S, to)'
  BY <1>12, <1>20, <1>22, StreamGrows
<1>26. NextFits(S)'
  <2>1. Len(S) > 0 /\ S[Len(S)] = <<s, r + n>>
    <3>1. n \in 1..Len(b) /\ Len(R) + n = Len(S) /\ Len(S) > 0
      BY <1>5, <1>10, <1>23
    <3>2. S[Len(R) + n] = b[n] /\ b[n] = <<s, r + n>>
      BY <1>16, <1>23, <3>1
    <3>3. QED
      BY <3>1, <3>2
  <2>2. ASSUME NEW q \in 1..MaxSockets, unity_status[q] = "none"
        PROVE  \A i \in 1..Len(S) : S[i][1] < q
    <3>1. s < q
      <4>1. q # s /\ ~(q < s)
        BY <1>1, <1>18, <2>2 DEF Traffic, Ended
      <4>2. QED
        BY <4>1, UnityAssumption
    <3>2. \A i \in 1..Len(R) : R[i][1] < q
      BY <1>20, <2>2 DEF NextFits
    <3>3. SUFFICES ASSUME NEW i \in 1..Len(S) PROVE S[i][1] < q
      OBVIOUS
    <3>4. CASE i \in 1..Len(R)
      BY <1>23, <3>2, <3>4
    <3>5. CASE i \notin 1..Len(R)
      <4>1. i - Len(R) \in 1..Len(b) /\ Len(R) + (i - Len(R)) = i
        BY <1>23, <3>3, <3>5
      <4>2. S[i] = <<s, r + (i - Len(R))>>
        BY <1>16, <1>23, <4>1
      <4>3. QED
        BY <3>1, <4>2
    <3>6. QED
      BY <3>4, <3>5
  <2>3. \A q \in 1..MaxSockets : q # s => unity_status[q] \notin Busy
    BY <1>1, <1>18, OthersEnded DEF Ended, Busy
  <2>4. r + n # 0
    BY <1>5
  <2>5. \A q \in 1..MaxSockets :
          /\ unity_status[q] \in Busy /\ ReadOf(q)' = 0 => Len(S) % 2 = 0 /\ \A i \in 1..Len(S) : S[i][1] < q
          /\ unity_status[q] \in Busy /\ ReadOf(q)' > 0 => Len(S) > 0 /\ S[Len(S)] = <<q, ReadOf(q)'>>
    BY <1>14, <2>1, <2>3, <2>4
  <2>6. QED
    BY <1>18, <2>2, <2>5 DEF NextFits
<1>27. Ordered(S)'
  BY <1>24 DEF Ordered
<1>28. QED
  BY <1>19, <1>25, <1>26, <1>27

\* The server sends the next unit.
LEMMA ServerSendsKeepsPackets ==
    ASSUME ClientInv, PacketsInv, Unity!ServerSends
    PROVE  PacketsInv'
<1> USE DEF ClientInv
<1>1. PICK s \in 1..MaxSockets :
        /\ unity_status[s] = "up"
        /\ unity_units' = [unity_units EXCEPT ![s] = @ + 1]
        /\ unity_incoming' = [unity_incoming EXCEPT ![s] = Append(@, <<s, unity_units'[s]>>)]
        /\ UNCHANGED <<unity_status, unity_ops, unity_eventQueue, unity_recvBuffer, unity_handled,
                       unity_cut, unity_closed_twice, redialed, torn>>
  BY DEF Unity!ServerSends, Unity!history, Unity!client
<1> SUFFICES ASSUME ~unity_cut, ~torn, ~unity_closed_twice, ~redialed
             PROVE  Traffic' /\ \E R \in Seq(Unit), at \in Offsets : (Stream(R, at) /\ Ordered(R) /\ NextFits(R))'
  BY <1>1 DEF PacketsInv
<1>2. Traffic
  BY DEF PacketsInv
<1>3. PICK w \in Seq(Unit) : w = unity_incoming[s]
  BY DEF UnityTypes
<1>4. PICK u \in Nat : u = unity_units[s]
  BY DEF UnityTypes
<1>5. \A q \in 1..MaxSockets : unity_units'[q] = IF q = s THEN u + 1 ELSE unity_units[q]
  BY <1>1, <1>4 DEF UnityTypes
<1>6. <<s, u + 1>> \in Unit
  BY <1>4 DEF Unit
<1>7. PICK v \in Seq(Unit) : v = Append(w, <<s, u + 1>>)
  BY <1>6, Appended
<1>8. /\ Len(v) = Len(w) + 1 /\ Len(w) \in Nat
      /\ \A i \in 1..(Len(w) + 1) : v[i] = IF i = Len(w) + 1 THEN <<s, u + 1>> ELSE w[i]
  BY <1>6, <1>7, Appended
<1>9. \A q \in 1..MaxSockets : unity_incoming'[q] = IF q = s THEN v ELSE unity_incoming[q]
  BY <1>1, <1>3, <1>5, <1>7 DEF UnityTypes
<1>10. ReadOf(s) = u - Len(w) /\ ReadOf(s) \in Nat
  BY <1>2, <1>3, <1>4 DEF ReadOf, Traffic
<1>11. \A q \in 1..MaxSockets : ReadOf(q)' = ReadOf(q)
  <2>1. ReadOf(s)' = (u + 1) - (Len(w) + 1)
    BY <1>5, <1>8, <1>9 DEF ReadOf
  <2>2. (u + 1) - (Len(w) + 1) = u - Len(w)
    BY <1>4, <1>8
  <2>3. \A q \in 1..MaxSockets : q # s => ReadOf(q)' = ReadOf(q)
    BY <1>5, <1>9 DEF ReadOf
  <2>4. QED
    BY <1>10, <2>1, <2>2, <2>3
<1>12. \A i \in 1..Len(v) : v[i] = <<s, ReadOf(s) + i>>
  <2>1. \A i \in 1..Len(w) : w[i] = <<s, ReadOf(s) + i>>
    BY <1>2, <1>3 DEF Traffic
  <2>2. ReadOf(s) + (Len(w) + 1) = u + 1
    BY <1>4, <1>8, <1>10
  <2>3. QED
    BY <1>8, <2>1, <2>2
<1>13. Traffic'
  <2>1. \A q \in 1..MaxSockets :
          /\ unity_status'[q] \in {"none", "connecting", "failed"} => unity_units'[q] = 0 /\ unity_incoming'[q] = <<>>
          /\ unity_status'[q] \in {"dead", "closed"} => unity_units'[q] % 2 = 0 /\ unity_incoming'[q] = <<>>
    BY <1>1, <1>2, <1>5, <1>9 DEF Traffic
  <2>2. \A q \in 1..MaxSockets : ReadOf(q)' \in Nat
    BY <1>2, <1>11 DEF Traffic
  <2>3. ASSUME NEW q \in 1..MaxSockets, NEW i \in 1..Len(unity_incoming'[q])
        PROVE  unity_incoming'[q][i] = <<q, ReadOf(q)' + i>>
    <3>1. CASE q = s
      BY <1>9, <1>11, <1>12, <2>3, <3>1
    <3>2. CASE q # s
      BY <1>2, <1>9, <1>11, <2>3, <3>2 DEF Traffic
    <3>3. QED
      BY <3>1, <3>2
  <2>4. QED
    BY <1>1, <1>2, <2>1, <2>2, <2>3 DEF Traffic
<1>14. PICK R \in Seq(Unit), at \in Offsets : Stream(R, at) /\ Ordered(R) /\ NextFits(R)
  BY DEF PacketsInv
<1>15. NextFits(R)'
  BY <1>1, <1>11, <1>14 DEF NextFits
<1>16. Stream(R, at)' /\ Ordered(R)'
  BY <1>1, <1>14, StreamStays DEF Ordered
<1>17. QED
  BY <1>13, <1>15, <1>16

-----------------------------------------------------------------------------
(* Every step of the old Unity client. *)

LEMMA SameTraffic ==
    ASSUME Traffic, UNCHANGED <<unity_status, unity_units, unity_incoming>>,
           \A o : Connecting(o) => (o \in unity_ops' <=> o \in unity_ops)
    PROVE  Traffic' /\ \A R : NextFits(R) => NextFits(R)'
<1>1. Traffic'
  BY ReadStays DEF Traffic
<1>2. ASSUME NEW R, NextFits(R) PROVE NextFits(R)'
  BY <1>2, ReadStays DEF NextFits
<1>3. QED
  BY <1>1, <1>2

LEMMA PacketsGoOn ==
    ASSUME UNCHANGED <<unity_eventQueue, unity_recvBuffer, unity_handled>>, Traffic',
           NEW R \in Seq(Unit), NEW at \in Offsets, Stream(R, at), Ordered(R), NextFits(R)'
    PROVE  PacketsInv'
<1>1. Stream(R, at)' /\ Ordered(R)'
  BY StreamStays DEF Ordered
<1>2. QED
  BY <1>1 DEF PacketsInv

LEMMA CloseKeepsPackets ==
    ASSUME ClientInv, PacketsInv, NEW os \in SUBSET unity_ops, Unity!Close(os),
           \A o \in unity_ops \ os : ~Connecting(o),
           UNCHANGED <<unity_incoming, unity_units, unity_eventQueue, unity_recvBuffer, unity_handled,
                       unity_cut, redialed, torn>>
    PROVE  PacketsInv'
<1> USE DEF ClientInv
<1>1. CASE unity_ops' = os /\ UNCHANGED <<unity_status, unity_closed_twice>>
  BY <1>1, NothingMoves
<1>2. CASE /\ unity_socket \in Live
           /\ unity_status' = [unity_status EXCEPT ![unity_socket] = "shut"]
           /\ \E d : /\ d.kind = "disconnect" /\ d.socket = unity_socket
                    /\ d = [kind |-> d.kind, socket |-> d.socket, n |-> d.n]
                    /\ unity_ops' = os \union {d}
           /\ unity_closed_twice' = (unity_closed_twice \/ \E o \in os : Closing(o))
  <2>1. SUFFICES ASSUME ~unity_cut, ~torn, ~unity_closed_twice, ~redialed PROVE PacketsInv'
    BY <1>2 DEF PacketsInv
  <2>2. PICK s \in 1..MaxSockets : s = unity_socket /\ unity_status[s] \in {"up", "eof", "shut"}
    BY <1>2 DEF Live
  <2>3. PICK d : d.kind = "disconnect" /\ unity_ops' = os \union {d}
    BY <1>2
  <2>4. ~Connecting(d)
    BY <2>3 DEF Connecting
  <2>5. \A o \in unity_ops : Connecting(o) => o.socket # s
    BY <2>1, <2>2 DEF PacketsInv, Traffic
  <2>6. \A o : Connecting(o) => (o \in unity_ops' <=> o \in unity_ops /\ o.socket # s)
    BY <2>3, <2>4, <2>5
  <2>7. unity_status[s] \in Busy /\ "shut" \in Busy \ {"connecting"}
    BY <2>2 DEF Busy
  <2>8. unity_status' = [unity_status EXCEPT ![s] = "shut"]
    BY <1>2, <2>2
  <2>9. Traffic' /\ \A R : NextFits(R) => NextFits(R)'
    BY <2>1, <2>6, <2>7, <2>8, BusyGoesOn
  <2>10. PICK R \in Seq(Unit), at \in Offsets : Stream(R, at) /\ Ordered(R) /\ NextFits(R)
    BY <2>1 DEF PacketsInv
  <2>11. QED
    BY <2>9, <2>10, PacketsGoOn
<1>3. QED
  BY <1>1, <1>2, CloseEffect

LEMMA BeginsKeepPackets ==
    ASSUME ClientInv, PacketsInv, unity_state = "Disconnected", Unity!Fresh \in 1..MaxSockets,
           NEW d, Connecting(d), d.socket = Unity!Fresh, unity_ops' = unity_ops \union {d},
           unity_status' = [unity_status EXCEPT ![Unity!Fresh] = "connecting"],
           UNCHANGED <<unity_incoming, unity_units, unity_eventQueue, unity_recvBuffer, unity_handled,
                       unity_cut, unity_closed_twice, redialed, torn>>
    PROVE  PacketsInv'
<1> USE DEF ClientInv
<1>1. SUFFICES ASSUME ~unity_cut, ~torn, ~unity_closed_twice, ~redialed PROVE PacketsInv'
  BY DEF PacketsInv
<1>2. Live = {} /\ \A o \in unity_ops : ~Connecting(o)
  BY <1>1 DEF OneAtATime, Calm
<1>3. Traffic' /\ \A R : NextFits(R) => NextFits(R)'
  BY <1>1, <1>2, SocketBegins
<1>4. PICK R \in Seq(Unit), at \in Offsets : Stream(R, at) /\ Ordered(R) /\ NextFits(R)
  BY <1>1 DEF PacketsInv
<1>5. QED
  BY <1>3, <1>4, PacketsGoOn

LEMMA ConnectKeepsPackets ==
    ASSUME ClientInv, PacketsInv, Unity!Connect
    PROVE  PacketsInv'
<1>1. /\ unity_state = "Disconnected" /\ Unity!Created = {}
      /\ UNCHANGED <<unity_incoming, unity_units, unity_eventQueue, unity_recvBuffer, unity_handled,
                     unity_cut, unity_closed_twice, redialed, torn>>
  BY DEF Unity!Connect, Unity!history
<1>2. CASE UNCHANGED <<unity_ops, unity_status>>
  BY <1>1, <1>2, NothingMoves
<1>3. CASE /\ unity_ops' = unity_ops \union {Unity!Op("connect", Unity!Fresh, 0)}
           /\ unity_status' = [unity_status EXCEPT ![Unity!Fresh] = "connecting"]
  <2>1. Unity!Fresh \in 1..MaxSockets
    BY <1>1, UnityAssumption, FreshFollows DEF ClientInv
  <2>2. Connecting(Unity!Op("connect", Unity!Fresh, 0)) /\ Unity!Op("connect", Unity!Fresh, 0).socket = Unity!Fresh
    BY DEF Connecting, Unity!Op
  <2>3. QED
    BY <1>1, <1>3, <2>1, <2>2, BeginsKeepPackets
<1>4. QED
  BY <1>2, <1>3 DEF Unity!Connect

LEMMA SendKeepsPackets ==
    ASSUME ClientInv, PacketsInv, Unity!AsyncSend
    PROVE  PacketsInv'
<1>1. /\ Unity!Reconnect(unity_sent') \/ Unity!PostSend(unity_sent')
      /\ UNCHANGED <<unity_socket, unity_eventQueue, unity_recvBuffer, unity_incoming, unity_units,
                     unity_handled, unity_cut, redialed, torn>>
  BY DEF Unity!AsyncSend
<1> DEFINE m == unity_sent'
           sends == Unity!Op("send", unity_socket, m)
           begins == Unity!Op("reconnect", Unity!Fresh, 0)
<1>2. ~Connecting(sends) /\ Connecting(begins) /\ begins.socket = Unity!Fresh
  BY DEF Connecting, Unity!Op
<1>3. CASE Unity!Reconnect(m)
  <2>1. /\ unity_state = "Disconnected" /\ Unity!Fresh \in 1..MaxSockets
        /\ unity_ops' = unity_ops \union {begins}
        /\ unity_status' = [unity_status EXCEPT ![Unity!Fresh] = "connecting"]
        /\ UNCHANGED unity_closed_twice
    BY <1>3 DEF Unity!Reconnect
  <2> HIDE DEF begins
  <2>2. QED
    BY <1>1, <1>2, <2>1, BeginsKeepPackets
<1>4. CASE unity_ops' = unity_ops /\ UNCHANGED <<unity_status, unity_closed_twice>>
  BY <1>1, <1>4, NothingMoves
<1>5. CASE unity_ops' = unity_ops \union {sends} /\ UNCHANGED <<unity_status, unity_closed_twice>>
  <2> HIDE DEF sends
  <2>1. \A o : Connecting(o) => (o \in unity_ops' <=> o \in unity_ops)
    BY <1>2, <1>5
  <2>2. QED
    BY <1>1, <1>5, <2>1, NothingMoves
<1>6. CASE Unity!Close(unity_ops)
  BY <1>1, <1>6, CloseKeepsPackets
<1>7. CASE Unity!PostSend(m)
  BY <1>4, <1>5, <1>6, <1>7 DEF Unity!PostSend
<1>8. QED
  BY <1>1, <1>3, <1>7

LEMMA TakenKeepsPackets ==
    ASSUME ClientInv, PacketsInv, unity_eventQueue # <<>>, Head(unity_eventQueue).kind # "receive",
           unity_eventQueue' = Tail(unity_eventQueue),
           UNCHANGED <<unity_status, unity_units, unity_incoming, unity_recvBuffer, unity_handled,
                       unity_cut, unity_closed_twice, redialed, torn>>,
           \A o : Connecting(o) => (o \in unity_ops' <=> o \in unity_ops)
    PROVE  PacketsInv'
<1> USE DEF ClientInv
<1>1. SUFFICES ASSUME ~unity_cut, ~torn, ~unity_closed_twice, ~redialed PROVE PacketsInv'
  BY DEF PacketsInv
<1>2. PICK R \in Seq(Unit), at \in Offsets : Stream(R, at) /\ Ordered(R) /\ NextFits(R)
  BY <1>1 DEF PacketsInv
<1>3. Traffic' /\ NextFits(R)'
  BY <1>1, <1>2, SameTraffic DEF PacketsInv
<1>4. 1 \in Events /\ Head(unity_eventQueue) = unity_eventQueue[1]
  BY TakesHead
<1>5. at[1] \in Nat /\ at[1] = 2 * Len(unity_handled) + Len(unity_recvBuffer)
  BY <1>2 DEF Offsets, Stream
<1>6. at[2] = at[1]
  <2>1. EventFits(unity_eventQueue[1], R, at[1], at[1 + 1])
    BY <1>2, <1>4 DEF Stream
  <2>2. unity_eventQueue[1].buffer = <<>> /\ at[1] + Len(unity_eventQueue[1].buffer) = at[1 + 1]
    BY <1>4, <2>1 DEF EventFits
  <2>3. Len(unity_eventQueue[1].buffer) = 0 /\ 1 + 1 = 2
    BY <2>2
  <2>4. QED
    BY <1>5, <2>2, <2>3
<1>7. /\ 2 * Len(unity_handled') + Len(unity_recvBuffer') = at[2]
      /\ \A i \in 1..Len(unity_recvBuffer') : unity_recvBuffer'[i] = R[2 * Len(unity_handled') + i]
      /\ \A i \in 1..Len(unity_handled') : unity_handled'[i] = <<R[2 * i - 1], R[2 * i]>>
  BY <1>2, <1>5, <1>6 DEF Stream
<1>8. \E to \in Offsets : Stream(R, to)'
  BY <1>2, <1>7, StreamMoves
<1>9. Ordered(R)'
  BY <1>2 DEF Ordered
<1>10. QED
  BY <1>3, <1>8, <1>9 DEF PacketsInv

LEMMA UpdateKeepsPackets ==
    ASSUME ClientInv, PacketsInv, Unity!Update
    PROVE  PacketsInv'
<1>1. CASE Unity!ConnectEvent \/ Unity!CloseEvent
  <2>1. /\ unity_eventQueue # <<>> /\ Head(unity_eventQueue).kind # "receive"
        /\ unity_eventQueue' = Tail(unity_eventQueue)
        /\ UNCHANGED <<unity_status, unity_units, unity_incoming, unity_recvBuffer, unity_handled,
                       unity_cut, unity_closed_twice, unity_ops, redialed, torn>>
    BY <1>1 DEF Unity!ConnectEvent, Unity!CloseEvent, Unity!Takes, Unity!network, Unity!history
  <2>2. QED
    BY <2>1, TakenKeepsPackets
<1>2. CASE Unity!ReconnectEvent
  <2>1. /\ unity_eventQueue # <<>> /\ Head(unity_eventQueue).kind # "receive"
        /\ unity_eventQueue' = Tail(unity_eventQueue)
        /\ UNCHANGED <<unity_status, unity_units, unity_incoming, unity_recvBuffer, unity_handled,
                       unity_cut, unity_closed_twice, redialed, torn>>
    BY <1>2 DEF Unity!ReconnectEvent, Unity!Takes
  <2>2. PICK n : unity_ops' = unity_ops \union {Unity!Op("send", unity_socket, unity_sendQueue[i]) : i \in 1..n}
    BY <1>2 DEF Unity!ReconnectEvent, Unity!Sends
  <2>3. \A i : ~Connecting(Unity!Op("send", unity_socket, unity_sendQueue[i]))
    BY DEF Connecting, Unity!Op
  <2>4. \A o : Connecting(o) => (o \in unity_ops' <=> o \in unity_ops)
    BY <2>2, <2>3
  <2>5. QED
    BY <2>1, <2>4, TakenKeepsPackets
<1>3. CASE Unity!ReceiveEvent
  <2>1. /\ UNCHANGED <<unity_status, unity_ops, unity_incoming, unity_units, unity_closed_twice, unity_cut, redialed>>
        /\ ~torn' => ~torn
    BY <1>3, ReceiveEventEffect DEF ClientInv
  <2>2. SUFFICES ASSUME ~unity_cut, ~torn', ~unity_closed_twice, ~redialed PROVE PacketsInv'
    BY <2>1 DEF PacketsInv
  <2>3. PICK R \in Seq(Unit), at \in Offsets : Stream(R, at) /\ Ordered(R) /\ NextFits(R)
    BY <2>1, <2>2 DEF PacketsInv
  <2>4. Traffic' /\ NextFits(R)'
    BY <2>1, <2>2, <2>3, SameTraffic DEF PacketsInv
  <2>5. \E to \in Offsets : Stream(R, to)'
    BY <1>3, <2>2, <2>3, StreamHandled DEF ClientInv
  <2>6. Ordered(R)'
    BY <2>3 DEF Ordered
  <2>7. QED
    BY <2>4, <2>5, <2>6 DEF PacketsInv
<1>4. CASE Unity!ReconnectEventLoops
  BY <1>4 DEF Unity!ReconnectEventLoops, Unity!Redial, PacketsInv
<1>5. QED
  BY <1>1, <1>2, <1>3, <1>4 DEF Unity!Update

\* An event without units is queued.
LEMMA QueuedKeepsPackets ==
    ASSUME UnityTypes, NEW R \in Seq(Unit), NEW at \in Offsets, Stream(R, at), Ordered(R), NextFits(R)', Traffic',
           NEW k \in {"connect", "reconnect", "close"},
           unity_eventQueue' = Append(unity_eventQueue, Unity!Event(k, <<>>)),
           UNCHANGED <<unity_recvBuffer, unity_handled>>
    PROVE  PacketsInv'
<1>1. <<>> \in Seq(Unit) /\ R = R \o <<>>
  OBVIOUS
<1>2. \E to \in Offsets : Stream(R, to)'
  BY <1>1, StreamGrows
<1>3. Ordered(R)'
  BY DEF Ordered
<1>4. QED
  BY <1>2, <1>3 DEF PacketsInv

LEMMA ConnectedKeepsPackets ==
    ASSUME ClientInv, PacketsInv, NEW o \in unity_ops, o.kind \in {"connect", "reconnect"}, Unity!Connected(o)
    PROVE  PacketsInv'
<1> USE DEF ClientInv
<1>1. UNCHANGED <<unity_recvBuffer, unity_incoming, unity_units, unity_handled, unity_closed_twice, unity_cut,
                  redialed, torn>>
  BY DEF Unity!Connected, Unity!history
<1>2. SUFFICES ASSUME ~unity_cut, ~torn, ~unity_closed_twice, ~redialed PROVE PacketsInv'
  BY <1>1 DEF PacketsInv
<1>3. PICK s \in 1..MaxSockets : s = o.socket
  BY DEF UnityTypes
<1>4. Connecting(o) /\ unity_status[s] = "connecting"
  BY <1>2, <1>3 DEF PacketsInv, Traffic, Connecting
<1>5. \A p \in unity_ops : Connecting(p) => p = o
  BY <1>2, <1>4 DEF OneAtATime, Calm
<1>6. PICK R \in Seq(Unit), at \in Offsets : Stream(R, at) /\ Ordered(R) /\ NextFits(R)
  BY <1>2 DEF PacketsInv
<1>7. CASE /\ unity_status' = [unity_status EXCEPT ![o.socket] = "up"]
           /\ unity_eventQueue' = Append(unity_eventQueue, Unity!Event(o.kind, <<>>))
           /\ unity_ops' = (unity_ops \ {o}) \union {Unity!Op("receive", o.socket, 0)}
  <2> DEFINE d == Unity!Op("receive", o.socket, 0)
  <2>1. ~Connecting(d)
    BY DEF Connecting, Unity!Op
  <2> HIDE DEF d
  <2>2. unity_ops' = (unity_ops \ {o}) \union {d}
    BY <1>7 DEF d
  <2>3. \A p : Connecting(p) => (p \in unity_ops' <=> p \in unity_ops /\ p.socket # s)
    BY <1>3, <1>5, <2>1, <2>2
  <2>4. unity_status[s] \in Busy /\ "up" \in Busy \ {"connecting"}
    BY <1>4 DEF Busy
  <2>5. unity_status' = [unity_status EXCEPT ![s] = "up"]
    BY <1>3, <1>7
  <2>6. Traffic' /\ NextFits(R)'
    BY <1>1, <1>2, <1>6, <2>3, <2>4, <2>5, BusyGoesOn
  <2>7. PICK k \in {"connect", "reconnect", "close"} : k = o.kind
    OBVIOUS
  <2>8. QED
    BY <1>1, <1>6, <1>7, <2>6, <2>7, QueuedKeepsPackets
<1>8. CASE /\ unity_status' = [unity_status EXCEPT ![o.socket] = "failed"] /\ unity_ops' = unity_ops \ {o}
           /\ UNCHANGED unity_eventQueue
  <2>1. \A p : Connecting(p) => (p \in unity_ops' <=> p \in unity_ops /\ p.socket # s)
    BY <1>3, <1>5, <1>8
  <2>2. unity_units[s] = 0 /\ unity_incoming[s] = <<>> /\ unity_status[s] # "none"
    BY <1>2, <1>4 DEF PacketsInv, Traffic
  <2>3. unity_units[s] % 2 = 0
    BY <2>2
  <2>4. unity_status' = [unity_status EXCEPT ![s] = "failed"] /\ "failed" \in Ended
    BY <1>3, <1>8 DEF Ended
  <2>5. Traffic' /\ NextFits(R)'
    BY <1>1, <1>2, <1>6, <2>1, <2>2, <2>3, <2>4, SocketEnds
  <2>6. QED
    BY <1>1, <1>6, <1>8, <2>5, PacketsGoOn
<1>9. QED
  BY <1>7, <1>8 DEF Unity!Connected

LEMMA OnReceiveKeepsPackets ==
    ASSUME ClientInv, PacketsInv, Unity!Callback_OnReceive
    PROVE  PacketsInv'
<1>1. UNCHANGED <<unity_state, unity_socket, unity_sendQueue, unity_recvBuffer, unity_units, unity_sent,
                  unity_posted, unity_handled, unity_interrupted, unity_cut, redialed, torn>>
  BY OnReceiveEffect DEF ClientInv
<1>2. PICK o \in unity_ops :
        /\ o.kind = "receive"
        /\ \/ /\ unity_socket \in Live
              /\ \E n \in 1..Len(unity_incoming[unity_socket]) :
                   /\ unity_eventQueue' = Append(unity_eventQueue,
                        Unity!Event("receive", SubSeq(unity_incoming[unity_socket], 1, n)))
                   /\ unity_incoming' = [unity_incoming EXCEPT ![unity_socket] = SubSeq(@, n + 1, Len(@))]
              /\ UNCHANGED <<unity_status, unity_ops, unity_closed_twice>>
           \/ Unity!Close(unity_ops \ {o}) /\ UNCHANGED <<unity_eventQueue, unity_incoming>>
           \/ /\ unity_ops' = unity_ops \ {o}
              /\ UNCHANGED <<unity_status, unity_closed_twice, unity_eventQueue, unity_incoming>>
  BY OnReceiveEffect DEF ClientInv
<1>3. ~Connecting(o)
  BY <1>2 DEF Connecting
<1>4. CASE /\ unity_socket \in Live
           /\ \E n \in 1..Len(unity_incoming[unity_socket]) :
                /\ unity_eventQueue' = Append(unity_eventQueue,
                     Unity!Event("receive", SubSeq(unity_incoming[unity_socket], 1, n)))
                /\ unity_incoming' = [unity_incoming EXCEPT ![unity_socket] = SubSeq(@, n + 1, Len(@))]
           /\ UNCHANGED <<unity_status, unity_ops, unity_closed_twice>>
  BY <1>1, <1>4, ReadsKeepPackets
<1>5. CASE Unity!Close(unity_ops \ {o}) /\ UNCHANGED <<unity_eventQueue, unity_incoming>>
  BY <1>1, <1>3, <1>5, CloseKeepsPackets
<1>6. CASE /\ unity_ops' = unity_ops \ {o}
           /\ UNCHANGED <<unity_status, unity_closed_twice, unity_eventQueue, unity_incoming>>
  BY <1>1, <1>3, <1>6, NothingMoves
<1>7. QED
  BY <1>2, <1>4, <1>5, <1>6

\* Callback_OnSend, unless it reconnects.
LEMMA OnSendKeepsPackets ==
    ASSUME ClientInv, PacketsInv, Unity!Callback_OnSend
    PROVE  PacketsInv'
<1>1. UNCHANGED <<unity_eventQueue, unity_recvBuffer, unity_incoming, unity_units, unity_handled, unity_cut, torn>>
  BY DEF Unity!Callback_OnSend
<1>2. ASSUME NEW o \in unity_ops, ~Connecting(o), Unity!Close(unity_ops \ {o}), UNCHANGED redialed
      PROVE  PacketsInv'
  BY <1>1, <1>2, CloseKeepsPackets
<1>3. ASSUME NEW o \in unity_ops, ~Connecting(o), unity_ops' = unity_ops \ {o},
             UNCHANGED <<unity_status, unity_closed_twice, redialed>>
      PROVE  PacketsInv'
  BY <1>1, <1>3, NothingMoves
<1>4. ASSUME NEW o \in unity_ops, ~Connecting(o), NEW d, ~Connecting(d), unity_ops' = (unity_ops \ {o}) \union {d},
             UNCHANGED <<unity_status, unity_closed_twice, redialed>>
      PROVE  PacketsInv'
  BY <1>1, <1>4, NothingMoves
<1>5. CASE Unity!EndSend
  <2>1. PICK o \in unity_ops :
          /\ o.kind = "send"
          /\ \/ unity_ops' = unity_ops \ {o} /\ UNCHANGED <<unity_status, unity_closed_twice>>
             \/ /\ unity_ops' = (unity_ops \ {o}) \union {Unity!Op("part", unity_socket, -(partials'))}
                /\ UNCHANGED <<unity_status, unity_closed_twice>>
             \/ Unity!Close(unity_ops \ {o})
          /\ UNCHANGED redialed
    BY <1>5 DEF Unity!EndSend
  <2>2. ~Connecting(o) /\ ~Connecting(Unity!Op("part", unity_socket, -(partials')))
    BY <2>1 DEF Connecting, Unity!Op
  <2>3. QED
    BY <1>2, <1>3, <1>4, <2>1, <2>2
<1>6. CASE Unity!SendRest
  <2>1. PICK o \in unity_ops :
          /\ o.kind \in {"part", "redial", "repost", "resend", "requeue"}
          /\ \/ redialed' = TRUE
             \/ /\ \/ /\ \E k \in {"redial", "repost", "resend", "requeue"} : unity_ops' = Unity!Becomes(o, k)
                      /\ UNCHANGED <<unity_status, unity_closed_twice>>
                   \/ /\ unity_ops' = (unity_ops \ {o}) \union {Unity!Op("send", unity_socket, o.n)}
                      /\ UNCHANGED <<unity_status, unity_closed_twice>>
                   \/ Unity!Close(unity_ops \ {o})
                   \/ unity_ops' = unity_ops \ {o} /\ UNCHANGED <<unity_status, unity_closed_twice>>
                /\ UNCHANGED redialed
    BY <1>6 DEF Unity!SendRest, Unity!Redial
  <2>2. ~Connecting(o) /\ ~Connecting(Unity!Op("send", unity_socket, o.n))
    BY <2>1 DEF Connecting, Unity!Op
  <2>3. ASSUME NEW k \in {"redial", "repost", "resend", "requeue"}, unity_ops' = Unity!Becomes(o, k),
               UNCHANGED <<unity_status, unity_closed_twice, redialed>>
        PROVE  PacketsInv'
    <3>1. o = [kind |-> o.kind, socket |-> o.socket, n |-> o.n]
      BY DEF ClientInv, UnityTypes
    <3> DEFINE d == [o EXCEPT !.kind = k]
    <3>2. d.kind = k /\ unity_ops' = (unity_ops \ {o}) \union {d}
      BY <2>3, <3>1 DEF Unity!Becomes
    <3>3. ~Connecting(d)
      BY <3>2 DEF Connecting
    <3> HIDE DEF d
    <3>4. QED
      BY <1>4, <2>2, <2>3, <3>2, <3>3
  <2>4. CASE redialed' = TRUE
    BY <2>4 DEF PacketsInv
  <2>5. QED
    BY <1>2, <1>3, <1>4, <2>1, <2>2, <2>3, <2>4
<1>7. QED
  BY <1>5, <1>6 DEF Unity!Callback_OnSend

LEMMA OnCloseKeepsPackets ==
    ASSUME ClientInv, PacketsInv, Unity!Callback_OnClose
    PROVE  PacketsInv'
<1> USE DEF ClientInv
<1>1. UNCHANGED <<unity_recvBuffer, unity_incoming, unity_units, unity_handled, unity_closed_twice, redialed, torn>>
  BY OnCloseEffect
<1>2. PICK o \in unity_ops :
        /\ Closing(o)
        /\ \/ /\ unity_ops' = unity_ops \ {o}
              /\ UNCHANGED <<unity_socket, unity_status, unity_eventQueue, unity_cut>>
           \/ /\ o.kind = "disconnect"
              /\ unity_ops' = (unity_ops \ {o}) \union {[o EXCEPT !.kind = "ended"]}
              /\ UNCHANGED <<unity_socket, unity_status, unity_eventQueue, unity_cut>>
           \/ /\ o.kind = "ended" /\ unity_socket # 0
              /\ unity_ops' = (unity_ops \ {o}) \union {[o EXCEPT !.kind = "closed"]}
              /\ unity_status' = [unity_status EXCEPT ![unity_socket] = "closed"]
              /\ unity_cut' = (unity_cut \/ (unity_status' # unity_status /\
                   (unity_incoming[unity_socket] # <<>> \/ unity_units[unity_socket] % 2 = 1)))
              /\ UNCHANGED <<unity_socket, unity_eventQueue>>
           \/ /\ o.kind = "closed" /\ unity_ops' = unity_ops \ {o} /\ unity_socket' = 0
              /\ unity_eventQueue' = Append(unity_eventQueue, Unity!Event("close", <<>>))
              /\ UNCHANGED <<unity_status, unity_cut>>
  BY OnCloseEffect
<1>3. ~Connecting(o)
  BY <1>2 DEF Connecting, Closing
<1>4. CASE unity_ops' = unity_ops \ {o} /\ UNCHANGED <<unity_status, unity_eventQueue, unity_cut>>
  BY <1>1, <1>3, <1>4, NothingMoves
<1>5. ASSUME NEW k \in {"ended", "closed"}, unity_ops' = (unity_ops \ {o}) \union {[o EXCEPT !.kind = k]}
      PROVE  \A p : Connecting(p) => (p \in unity_ops' <=> p \in unity_ops)
  <2>1. o = [kind |-> o.kind, socket |-> o.socket, n |-> o.n]
    BY DEF UnityTypes
  <2> DEFINE d == [o EXCEPT !.kind = k]
  <2>2. d.kind = k
    BY <2>1
  <2>3. ~Connecting(d)
    BY <2>2 DEF Connecting
  <2> HIDE DEF d
  <2>4. unity_ops' = (unity_ops \ {o}) \union {d}
    BY <1>5 DEF d
  <2>5. QED
    BY <1>3, <2>3, <2>4
<1>6. CASE /\ unity_ops' = (unity_ops \ {o}) \union {[o EXCEPT !.kind = "ended"]}
           /\ UNCHANGED <<unity_socket, unity_status, unity_eventQueue, unity_cut>>
  BY <1>1, <1>5, <1>6, NothingMoves
<1>7. CASE /\ o.kind = "ended" /\ unity_socket # 0
           /\ unity_ops' = (unity_ops \ {o}) \union {[o EXCEPT !.kind = "closed"]}
           /\ unity_status' = [unity_status EXCEPT ![unity_socket] = "closed"]
           /\ unity_cut' = (unity_cut \/ (unity_status' # unity_status /\
                (unity_incoming[unity_socket] # <<>> \/ unity_units[unity_socket] % 2 = 1)))
           /\ UNCHANGED <<unity_socket, unity_eventQueue>>
  <2>1. SUFFICES ASSUME ~unity_cut', ~torn, ~unity_closed_twice, ~redialed PROVE PacketsInv'
    BY <1>1 DEF PacketsInv
  <2>2. ~unity_cut
    BY <1>7, <2>1 DEF UnityTypes
  <2>3. \A p : Connecting(p) => (p \in unity_ops' <=> p \in unity_ops)
    BY <1>5, <1>7
  <2>4. CASE unity_status' = unity_status
    <3>1. unity_cut' = unity_cut
      BY <1>7, <2>4 DEF UnityTypes
    <3>2. UNCHANGED <<unity_status, unity_eventQueue>>
      BY <1>7, <2>4
    <3>3. QED
      BY <1>1, <2>3, <3>1, <3>2, NothingMoves
  <2>5. CASE unity_status' # unity_status
    <3>1. PICK s \in 1..MaxSockets : s = unity_socket
      BY <1>7 DEF UnityTypes
    <3>2. unity_incoming[s] = <<>> /\ unity_units[s] % 2 # 1
      BY <1>7, <2>1, <2>5, <3>1
    <3>3. unity_units[s] % 2 = 0
      <4>1. unity_units[s] \in Nat
        BY DEF UnityTypes
      <4>2. QED
        BY <3>2, <4>1
    <3>4. unity_status[s] # "none"
      BY <1>7, <3>1 DEF SocketsInOrder, Unity!Created
    <3>5. \A p \in unity_ops : ~Connecting(p)
      BY <1>2, <2>1 DEF OneAtATime, Calm
    <3>6. \A p : Connecting(p) => (p \in unity_ops' <=> p \in unity_ops /\ p.socket # s)
      BY <2>3, <3>5
    <3>7. unity_status' = [unity_status EXCEPT ![s] = "closed"] /\ "closed" \in Ended
      BY <1>7, <3>1 DEF Ended
    <3>8. PICK R \in Seq(Unit), at \in Offsets : Stream(R, at) /\ Ordered(R) /\ NextFits(R)
      BY <2>1, <2>2 DEF PacketsInv
    <3>9. Traffic' /\ NextFits(R)'
      BY <1>1, <2>1, <2>2, <3>2, <3>3, <3>4, <3>6, <3>7, <3>8, SocketEnds
    <3>10. QED
      BY <1>1, <1>7, <3>8, <3>9, PacketsGoOn
  <2>6. QED
    BY <2>4, <2>5
<1>8. CASE /\ o.kind = "closed" /\ unity_ops' = unity_ops \ {o} /\ unity_socket' = 0
           /\ unity_eventQueue' = Append(unity_eventQueue, Unity!Event("close", <<>>))
           /\ UNCHANGED <<unity_status, unity_cut>>
  <2>1. SUFFICES ASSUME ~unity_cut, ~torn, ~unity_closed_twice, ~redialed PROVE PacketsInv'
    BY <1>1, <1>8 DEF PacketsInv
  <2>2. PICK R \in Seq(Unit), at \in Offsets : Stream(R, at) /\ Ordered(R) /\ NextFits(R)
    BY <2>1 DEF PacketsInv
  <2>3. Traffic' /\ NextFits(R)'
    BY <1>1, <1>3, <1>8, <2>1, <2>2, SameTraffic DEF PacketsInv
  <2>4. QED
    BY <1>1, <1>8, <2>2, <2>3, QueuedKeepsPackets
<1>9. QED
  BY <1>2, <1>4, <1>6, <1>7, <1>8

LEMMA ServerClosesKeepsPackets ==
    ASSUME ClientInv, PacketsInv, Unity!ServerCloses
    PROVE  PacketsInv'
<1> USE DEF ClientInv
<1>1. PICK s \in 1..MaxSockets : unity_status[s] = "up" /\ unity_status' = [unity_status EXCEPT ![s] = "eof"]
  BY DEF Unity!ServerCloses
<1>2. UNCHANGED <<unity_eventQueue, unity_recvBuffer, unity_ops, unity_incoming, unity_units, unity_handled,
                  unity_closed_twice, unity_cut, redialed, torn>>
  BY DEF Unity!ServerCloses, Unity!client, Unity!history
<1>3. SUFFICES ASSUME ~unity_cut, ~torn, ~unity_closed_twice, ~redialed PROVE PacketsInv'
  BY <1>2 DEF PacketsInv
<1>4. \A p : Connecting(p) => (p \in unity_ops' <=> p \in unity_ops /\ p.socket # s)
  BY <1>1, <1>2, <1>3 DEF PacketsInv, Traffic
<1>5. unity_status[s] \in Busy /\ "eof" \in Busy \ {"connecting"}
  BY <1>1 DEF Busy
<1>6. PICK R \in Seq(Unit), at \in Offsets : Stream(R, at) /\ Ordered(R) /\ NextFits(R)
  BY <1>3 DEF PacketsInv
<1>7. Traffic' /\ NextFits(R)'
  BY <1>1, <1>2, <1>3, <1>4, <1>5, <1>6, BusyGoesOn
<1>8. QED
  BY <1>2, <1>6, <1>7, PacketsGoOn

LEMMA ResetKeepsPackets ==
    ASSUME ClientInv, PacketsInv, Unity!Reset
    PROVE  PacketsInv'
<1> USE DEF ClientInv
<1>1. PICK s \in 1..MaxSockets :
        /\ Unity!Usable(s) /\ unity_status' = [unity_status EXCEPT ![s] = "dead"]
        /\ unity_cut' = (unity_cut \/ unity_incoming[s] # <<>> \/ unity_units[s] % 2 = 1)
        /\ UNCHANGED <<unity_eventQueue, unity_recvBuffer, unity_ops, unity_incoming, unity_units, unity_handled,
                       unity_closed_twice, redialed, torn>>
  BY DEF Unity!Reset, Unity!client
<1>2. SUFFICES ASSUME ~unity_cut', ~torn, ~unity_closed_twice, ~redialed PROVE PacketsInv'
  BY <1>1 DEF PacketsInv
<1>3. ~unity_cut /\ unity_incoming[s] = <<>> /\ unity_units[s] % 2 # 1 /\ unity_units[s] \in Nat
  BY <1>1, <1>2 DEF UnityTypes
<1>4. unity_units[s] % 2 = 0
  BY <1>3
<1>5. unity_status[s] \in {"up", "eof", "shut"} /\ unity_status[s] # "none"
  BY <1>1 DEF Unity!Usable
<1>6. \A p : Connecting(p) => (p \in unity_ops' <=> p \in unity_ops /\ p.socket # s)
  BY <1>1, <1>2, <1>3, <1>5 DEF PacketsInv, Traffic
<1>7. PICK R \in Seq(Unit), at \in Offsets : Stream(R, at) /\ Ordered(R) /\ NextFits(R)
  BY <1>2, <1>3 DEF PacketsInv
<1>8. "dead" \in Ended
  BY DEF Ended
<1>9. Traffic' /\ NextFits(R)'
  BY <1>1, <1>2, <1>3, <1>4, <1>5, <1>6, <1>7, <1>8, SocketEnds
<1>10. QED
  BY <1>1, <1>7, <1>9, PacketsGoOn

LEMMA PacketsKeep == ClientInv /\ PacketsInv /\ [Unity!Next]_(Unity!vars) => PacketsInv'
<1> SUFFICES ASSUME ClientInv, PacketsInv, [Unity!Next]_(Unity!vars) PROVE PacketsInv'
  OBVIOUS
<1>1. CASE UNCHANGED Unity!vars
  BY <1>1, NothingMoves DEF Unity!vars, Unity!client, Unity!network, Unity!history
<1>2. CASE Unity!Callback_OnConnect \/ Unity!Callback_OnReconnect
  <2>1. PICK o \in unity_ops : o.kind \in {"connect", "reconnect"} /\ Unity!Connected(o)
    BY <1>2 DEF Unity!Callback_OnConnect, Unity!Callback_OnReconnect
  <2>2. QED
    BY <2>1, ConnectedKeepsPackets
<1>3. CASE Unity!CloseByGame
  <2>1. /\ Unity!Close(unity_ops)
        /\ UNCHANGED <<unity_incoming, unity_units, unity_eventQueue, unity_recvBuffer, unity_handled, unity_cut,
                       redialed, torn>>
    BY <1>3 DEF Unity!CloseByGame, Unity!client
  <2>2. QED
    BY <2>1, CloseKeepsPackets
<1>4. QED
  BY <1>1, <1>2, <1>3, ConnectKeepsPackets, SendKeepsPackets, UpdateKeepsPackets, OnReceiveKeepsPackets,
     OnSendKeepsPackets, OnCloseKeepsPackets, ServerSendsKeepsPackets, ServerClosesKeepsPackets, ResetKeepsPackets
  DEF Unity!Next, Unity!Callback

\* What was handled are the first packets of all that was read.
LEMMA PacketsHold == UnityTypes /\ PacketsInv => UnityPacketsWhole
<1> SUFFICES ASSUME UnityTypes, PacketsInv, ~unity_cut, ~torn, ~unity_closed_twice, ~redialed
             PROVE  UnityPacketsWhole
  BY DEF UnityPacketsWhole, Unity!PacketsWhole
<1>1. PICK R \in Seq(Unit), at \in Offsets : Stream(R, at) /\ Ordered(R) /\ NextFits(R)
  BY DEF PacketsInv
<1> DEFINE h == Len(unity_handled)
<1>2. h \in Nat /\ DOMAIN unity_handled = 1..h /\ Len(R) \in Nat /\ Len(unity_recvBuffer) \in Nat
  BY DEF UnityTypes
<1>3. 2 * h <= Len(R)
  <2>1. 2 * h + Len(unity_recvBuffer) <= Len(R)
    BY <1>1 DEF Stream
  <2> HIDE DEF h
  <2>2. QED
    BY <1>2, <2>1
<1>4. \A i \in 1..h : unity_handled[i] = <<R[2 * i - 1], R[2 * i]>>
  BY <1>1 DEF Stream
<1> HIDE DEF h
<1>5. \A i \in 1..h : /\ 2 * i - 1 \in 1..Len(R) /\ 2 * i \in 1..Len(R) /\ 2 * i > 1
                      /\ (2 * i - 1) % 2 = 1 /\ (2 * i) % 2 = 0
  BY <1>2, <1>3
<1>6. \A i \in 1..Len(R) : R[i] = <<R[i][1], R[i][2]>> /\ R[i][1] \in Nat /\ R[i][2] \in Nat
  <2>1. \A i \in 1..Len(R) : R[i] \in Unit
    OBVIOUS
  <2>2. QED
    BY <2>1, UnityAssumption DEF Unit
<1>7. /\ \A i \in 1..Len(R) :
           /\ R[i][2] > 0 /\ R[i][2] % 2 = i % 2
           /\ R[i][2] > 1 => i > 1 /\ R[i - 1] = <<R[i][1], R[i][2] - 1>>
      /\ \A i, j \in 1..Len(R) : i < j => R[i][1] < R[j][1] \/ (R[i][1] = R[j][1] /\ R[i][2] < R[j][2])
  BY <1>1 DEF Ordered
<1>8. ASSUME NEW i \in 1..h
      PROVE  LET a == unity_handled[i][1] IN
             /\ a[2] % 2 = 1 /\ unity_handled[i][2] = <<a[1], a[2] + 1>>
             /\ a[2] > 1 => i > 1 /\ unity_handled[i - 1][2] = <<a[1], a[2] - 1>>
             /\ \A j \in 1..(i - 1) : unity_handled[j] # unity_handled[i]
  <2>1. PICK k \in 1..Len(R) : k = 2 * i - 1 /\ k + 1 = 2 * i /\ k + 1 \in 1..Len(R) /\ k % 2 = 1 /\ (k + 1) % 2 = 0
    BY <1>2, <1>5
  <2>2. unity_handled[i] = <<R[k], R[k + 1]>> /\ unity_handled[i][1] = R[k] /\ unity_handled[i][2] = R[k + 1]
    BY <1>4, <2>1
  <2>3. R[k][2] % 2 = 1 /\ R[k + 1][2] % 2 = 0
    BY <1>7, <2>1
  <2>4. R[k + 1] = <<R[k][1], R[k][2] + 1>>
    <3>1. R[k + 1][2] > 1
      <4>1. R[k + 1][2] \in Nat /\ R[k + 1][2] > 0
        BY <1>6, <1>7, <2>1
      <4>2. R[k + 1][2] # 1
        BY <2>3
      <4>3. QED
        BY <4>1, <4>2
    <3>2. R[(k + 1) - 1] = <<R[k + 1][1], R[k + 1][2] - 1>> /\ (k + 1) - 1 = k
      BY <1>7, <2>1, <3>1
    <3>3. R[k][1] = R[k + 1][1] /\ R[k][2] = R[k + 1][2] - 1
      BY <3>2
    <3>4. R[k][2] + 1 = R[k + 1][2]
      BY <1>6, <2>1, <3>3
    <3>5. R[k + 1] = <<R[k + 1][1], R[k + 1][2]>>
      BY <1>6, <2>1
    <3>6. QED
      BY <3>3, <3>4, <3>5
  <2>5. ASSUME R[k][2] > 1 PROVE i > 1 /\ unity_handled[i - 1][2] = <<R[k][1], R[k][2] - 1>>
    <3>1. k > 1 /\ R[k - 1] = <<R[k][1], R[k][2] - 1>>
      BY <1>7, <2>5
    <3>2. i > 1 /\ i - 1 \in 1..h /\ 2 * (i - 1) = k - 1
      <4>1. i > 1
        BY <1>2, <2>1, <3>1
      <4>2. QED
        BY <1>2, <2>1, <4>1
    <3>3. unity_handled[i - 1] = <<R[2 * (i - 1) - 1], R[2 * (i - 1)]>>
      BY <1>4, <3>2
    <3>4. QED
      BY <3>1, <3>2, <3>3
  <2>6. ASSUME NEW j \in 1..(i - 1) PROVE unity_handled[j] # unity_handled[i]
    <3>1. j \in 1..h /\ 2 * j \in 1..Len(R) /\ 2 * j < k + 1
      BY <1>2, <1>5, <2>1
    <3>2. unity_handled[j] = <<R[2 * j - 1], R[2 * j]>>
      BY <1>4, <3>1
    <3>3. R[2 * j][1] < R[k + 1][1] \/ R[2 * j][2] < R[k + 1][2]
      BY <1>7, <2>1, <3>1
    <3>4. R[2 * j] # R[k + 1]
      <4>1. ~(R[k + 1][1] < R[k + 1][1]) /\ ~(R[k + 1][2] < R[k + 1][2])
        BY <1>6, <2>1
      <4>2. QED
        BY <3>3, <4>1
    <3>5. QED
      BY <2>2, <3>2, <3>4
  <2>7. QED
    BY <2>2, <2>3, <2>4, <2>5, <2>6
<1>9. QED
  BY <1>2, <1>8 DEF UnityPacketsWhole, Unity!PacketsWhole

\* StreamSession.cs:134: over any number of connections, as long as none ends
\* inside a packet, each read has room in recvBuffer, no handler throws, Close
\* is not called twice and the pool does not reconnect, every header is handled
\* with its own body, in the order in which they were sent, none twice or left
\* out.
THEOREM PacketsStayWhole == Unity!Spec => []UnityPacketsWhole
<1>1. Unity!Spec => []ClientInv
  BY ClientHolds
<1>2. Unity!Spec => []PacketsInv
  BY <1>1, PacketsBegin, PacketsKeep, PTL DEF Unity!Spec
<1>3. ClientInv => UnityTypes
  BY DEF ClientInv
<1>4. QED
  BY <1>1, <1>2, <1>3, PacketsHold, PTL
=============================================================================
