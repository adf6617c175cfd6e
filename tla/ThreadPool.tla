----------------------------- MODULE ThreadPool -----------------------------
(***************************************************************************)
(* Library/ThreadPool.h: workers that wait on one condition variable for   *)
(* the tasks of one queue, and the destructor that stops them.             *)
(*                                                                         *)
(* A worker holds mutex_ from Acquire to Sleep, Take or Leave, and tests   *)
(* stop_ and tasks_ (Test) in a step of its own: mutex_ keeps PostTask out *)
(* between the test and the wait, but not the destructor, which takes no   *)
(* lock.  A task is named by its number.                                   *)
(***************************************************************************)
EXTENDS Naturals, Sequences, FiniteSets

CONSTANTS
    Workers,        \* the threads of the pool
    MaxTasks        \* bound of the model: calls of PostTask

VARIABLES
    pc,             \* where each worker is in Worker::operator()
    task,           \* the task each worker has taken last, 0 before the first
    mutex_,         \* the worker that holds the lock, as a set
    tasks_,         \* the queue
    stop_,
    owner,          \* what the thread that owns the pool does
    posted,         \* tasks handed to PostTask
    deaf            \* the workers between their test and their wait when
                    \* notify_all was called

poolVars == <<pc, task, mutex_, tasks_, stop_, owner, posted, deaf>>

Points == {"outside", "locked", "sleepy", "waiting", "running", "ended"}

PoolTypeOK ==
    /\ pc \in [Workers -> Points]
    /\ task \in [Workers -> Nat]
    /\ mutex_ \in SUBSET Workers
    /\ tasks_ \in Seq(Nat)
    /\ stop_ \in BOOLEAN
    /\ owner \in {"posting", "stopping", "joining", "destroyed"}
    /\ posted \in Nat
    /\ deaf \in SUBSET Workers

PoolInit ==
    /\ pc = [w \in Workers |-> "outside"]
    /\ task = [w \in Workers |-> 0]
    /\ mutex_ = {}
    /\ tasks_ = <<>>
    /\ stop_ = FALSE
    /\ owner = "posting"
    /\ posted = 0
    /\ deaf = {}

-----------------------------------------------------------------------------

Waiting == {w \in Workers : pc[w] = "waiting"}

\* Workers that will look at the queue before they wait.
Attentive == {w \in Workers : pc[w] \in {"outside", "locked"}}

(* unique_lock, at the head of the loop and again when the wait returns. *)
Acquire(w) ==
    /\ pc[w] = "outside"
    /\ mutex_ = {}
    /\ mutex_' = {w}
    /\ pc' = [pc EXCEPT ![w] = "locked"]
    /\ UNCHANGED <<task, tasks_, stop_, owner, posted, deaf>>

(* The condition of the while: the queue is empty and the pool goes on. *)
Test(w) ==
    /\ pc[w] = "locked"
    /\ ~stop_
    /\ tasks_ = <<>>
    /\ pc' = [pc EXCEPT ![w] = "sleepy"]
    /\ UNCHANGED <<task, mutex_, tasks_, stop_, owner, posted, deaf>>

(* condition_.wait gives the lock back and blocks in one step. *)
Sleep(w) ==
    /\ pc[w] = "sleepy"
    /\ mutex_' = {}
    /\ pc' = [pc EXCEPT ![w] = "waiting"]
    /\ UNCHANGED <<task, tasks_, stop_, owner, posted, deaf>>

(* A wait may return for no reason. *)
WakeSpuriously(w) ==
    /\ pc[w] = "waiting"
    /\ pc' = [pc EXCEPT ![w] = "outside"]
    /\ UNCHANGED <<task, mutex_, tasks_, stop_, owner, posted, deaf>>

(* The front of the queue is copied and removed under the lock. *)
Take(w) ==
    /\ pc[w] = "locked"
    /\ ~stop_
    /\ tasks_ # <<>>
    /\ task' = [task EXCEPT ![w] = Head(tasks_)]
    /\ tasks_' = Tail(tasks_)
    /\ mutex_' = {}
    /\ pc' = [pc EXCEPT ![w] = "running"]
    /\ UNCHANGED <<stop_, owner, posted, deaf>>

(* f() returns, and the loop starts again. *)
Finish(w) ==
    /\ pc[w] = "running"
    /\ pc' = [pc EXCEPT ![w] = "outside"]
    /\ UNCHANGED <<task, mutex_, tasks_, stop_, owner, posted, deaf>>

(* return, with the tasks that are still queued left behind. *)
Leave(w) ==
    /\ pc[w] = "locked"
    /\ stop_
    /\ mutex_' = {}
    /\ pc' = [pc EXCEPT ![w] = "ended"]
    /\ UNCHANGED <<task, tasks_, stop_, owner, posted, deaf>>

\* A mutant: the lock is not taken, so that a task can be queued between the
\* test and the wait.
PostUnlocked ==
    /\ owner = "posting"
    /\ posted < MaxTasks
    /\ posted' = posted + 1
    /\ tasks_' = Append(tasks_, posted + 1)
    /\ IF Waiting = {}
       THEN pc' = pc
       ELSE \E w \in Waiting : pc' = [pc EXCEPT ![w] = "outside"]
    /\ UNCHANGED <<task, mutex_, stop_, owner, deaf>>

(* PostTask queues under the lock and wakes one of the waiting workers. *)
PostTask ==
    /\ owner = "posting"
    /\ posted < MaxTasks
    /\ mutex_ = {}
    /\ posted' = posted + 1
    /\ tasks_' = Append(tasks_, posted + 1)
    /\ IF Waiting = {}
       THEN pc' = pc
       ELSE \E w \in Waiting : pc' = [pc EXCEPT ![w] = "outside"]
    /\ UNCHANGED <<task, mutex_, stop_, owner, deaf>>

(* ~ThreadPool sets stop_ without the lock ... *)
Stop ==
    /\ owner = "posting"
    /\ owner' = "stopping"
    /\ stop_' = TRUE
    /\ UNCHANGED <<pc, task, mutex_, tasks_, posted, deaf>>

(* ... and wakes whoever waits at that moment. *)
NotifyAll ==
    /\ owner = "stopping"
    /\ owner' = "joining"
    /\ deaf' = {w \in Workers : pc[w] = "sleepy"}
    /\ pc' = [w \in Workers |-> IF w \in Waiting THEN "outside" ELSE pc[w]]
    /\ UNCHANGED <<task, mutex_, tasks_, stop_, posted>>

(* The joins return when every worker has. *)
Join ==
    /\ owner = "joining"
    /\ \A w \in Workers : pc[w] = "ended"
    /\ owner' = "destroyed"
    /\ UNCHANGED <<pc, task, mutex_, tasks_, stop_, posted, deaf>>

Step(w) ==
    \/ Acquire(w) \/ Test(w) \/ Sleep(w) \/ Take(w) \/ Finish(w) \/ Leave(w)

PoolNext ==
    \/ \E w \in Workers : Step(w) \/ WakeSpuriously(w)
    \/ PostTask
    \/ Stop \/ NotifyAll \/ Join

\* A thread that can run does, a task ends, and a lock that is free again and again is
\* given to each thread that wants it; nothing is assumed of the caller of
\* PostTask, nor that a wait returns for no reason.
PoolFairness ==
    /\ \A w \in Workers : SF_poolVars(Acquire(w)) /\ WF_poolVars(Step(w))
    /\ WF_poolVars(NotifyAll) /\ WF_poolVars(Join)

PoolSpec == PoolInit /\ [][PoolNext]_poolVars

PoolFairSpec == PoolSpec /\ PoolFairness

-----------------------------------------------------------------------------
(***************************************************************************)
(* Safety.                                                                 *)
(***************************************************************************)

\* At most one thread is between taking the lock and giving it back, and no
\* task is queued while a worker has decided to wait for one.
TestHolds ==
    \A w \in Workers :
        /\ pc[w] \in {"locked", "sleepy"} <=> w \in mutex_
        /\ pc[w] = "sleepy" => tasks_ = <<>>
        /\ \A v \in Workers : {v, w} \subseteq mutex_ => v = w

\* No wakeup of PostTask is lost: as long as a worker waits, there are at
\* least as many workers on their way to the queue as there are tasks in it,
\* so that no task is left behind a long one while a thread sleeps.
NoLostWakeup ==
    Waiting # {} /\ ~stop_ => Len(tasks_) <= Cardinality(Attentive)

\* The tasks not yet taken are the last ones posted, in the order in which
\* they were posted; no two workers have taken the same task.
TakenOnceInOrder ==
    /\ \A i \in DOMAIN tasks_ : tasks_[i] = posted - Len(tasks_) + i
    /\ \A w \in Workers : task[w] <= posted - Len(tasks_)
    /\ \A v, w \in Workers : v # w /\ task[v] = task[w] => task[w] = 0

\* ThreadPool.h:70: no wakeup of PostTask is lost and no task is taken twice or
\* before an older one, whatever the workers are doing.
TasksGoOn == PoolTypeOK /\ TestHolds /\ NoLostWakeup /\ TakenOnceInOrder

(***************************************************************************)
(* Liveness.                                                               *)
(***************************************************************************)

\* A task is taken sooner or later, unless the pool is destroyed first.
TaskIsTaken ==
    \A n \in 1 .. MaxTasks :
        posted >= n ~> stop_ \/ posted - Len(tasks_) >= n

\* The destructor returns, unless a worker was between its test and its wait
\* when the others were told to stop: that one was not waiting yet, sleeps
\* through the notification and is waited for by join for ever.
Joins == owner = "joining" /\ deaf = {} ~> owner = "destroyed"
=============================================================================
