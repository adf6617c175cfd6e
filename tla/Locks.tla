------------------------------- MODULE Locks --------------------------------
(***************************************************************************)
(* Library/MultiLock.h: threads that take several mutexes at once, named   *)
(* in any order.  A lock is a number, its address; the set of the          *)
(* implementation is ordered by it.                                        *)
(***************************************************************************)
EXTENDS Naturals, FiniteSets, FiniteSetsExt, Functions

CONSTANTS Addresses, Threads

VARIABLES
    setLocks,       \* the locks of the MultiLock each thread has, {} for none
    held,           \* those of them that it holds
    copies          \* the MultiLocks that share the implementation: the one
                    \* constructed and the copy made of it, if any

lockVars == <<setLocks, held, copies>>

Init ==
    /\ setLocks = [t \in Threads |-> {}]
    /\ held = [t \in Threads |-> {}]
    /\ copies = [t \in Threads |-> 0]

Taken == UNION {held[t] : t \in Threads}

(* The arguments go into a set, one that is named twice but once; the     *)
(* MultiLock is copied once or never.                                      *)
Construct(t) ==
    /\ setLocks[t] = {}
    /\ \E locks \in [1 .. 3 -> Addresses] :
           setLocks' = [setLocks EXCEPT ![t] = Range(locks)]
    /\ \E n \in {1, 2} : copies' = [copies EXCEPT ![t] = n]
    /\ UNCHANGED held

\* A mutant: the locks are taken in the order of the arguments, here any.
LockAny(t) ==
    /\ copies[t] > 0
    /\ \E l \in setLocks[t] \ held[t] :
           /\ l \notin Taken
           /\ held' = [held EXCEPT ![t] = @ \union {l}]
    /\ UNCHANGED <<setLocks, copies>>

(* The constructor locks them from the lowest address on, one by one. *)
Lock(t) ==
    /\ copies[t] > 0
    /\ setLocks[t] \ held[t] # {}
    /\ LET l == Min(setLocks[t] \ held[t])
       IN  /\ l \notin Taken
           /\ held' = [held EXCEPT ![t] = @ \union {l}]
    /\ UNCHANGED <<setLocks, copies>>

Owns(t) == setLocks[t] # {} /\ held[t] = setLocks[t]

(* The last copy destroys it ... *)
Destroy(t) ==
    /\ Owns(t)
    /\ copies[t] > 0
    /\ copies' = [copies EXCEPT ![t] = @ - 1]
    /\ UNCHANGED <<setLocks, held>>

(* ... and with it every lock is given back. *)
Unlock(t) ==
    /\ copies[t] = 0
    /\ held[t] # {}
    /\ held' = [held EXCEPT ![t] = @ \ {Min(@)}]
    /\ setLocks' = [setLocks EXCEPT ![t] = @ \ {Min(held[t])}]
    /\ UNCHANGED copies

Next ==
    \E t \in Threads :
        Construct(t) \/ Lock(t) \/ Destroy(t) \/ Unlock(t)

\* A lock that is free again and again is given to whoever waits for it, and
\* no thread keeps its MultiLock for ever.
Fairness ==
    \A t \in Threads :
        SF_lockVars(Lock(t)) /\ WF_lockVars(Destroy(t)) /\ WF_lockVars(Unlock(t))

FairSpec == Init /\ [][Next]_lockVars /\ Fairness

-----------------------------------------------------------------------------

\* Whoever has all the locks of its MultiLock keeps them until the last copy
\* of it is gone.
KeptToTheLastCopy ==
    [][\A t \in Threads : Owns(t) /\ copies'[t] > 0 => Owns(t)']_lockVars

\* Threads that want the same locks in whatever order do not wait for each
\* other in a circle: each of them gets all of its locks.
Served == \A t \in Threads : setLocks[t] # {} ~> Owns(t)
=============================================================================
