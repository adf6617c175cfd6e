-------------------------------- MODULE Pool --------------------------------
(***************************************************************************)
(* A Pool as its owners use it: objects come from a factory that may throw *)
(* (a database connect), go out as shared_ptrs whose deleter puts them     *)
(* back, and the capacity is set at any time (LinkManager::Listen sets it   *)
(* when links may be out already).  Every call holds lock_ except          *)
(* Capacity, which is one assignment.                                      *)
(***************************************************************************)
EXTENDS Integers, Sequences, FiniteSets, SequencesExt

CONSTANTS Capacities,            \* what a pool may be made with, or set to
          SizeBits,              \* the width of size_t
          MaxObjects, MaxCalls   \* bounds: objects and failures, calls of Create and Capacity

VARIABLES
  lstObjectPtr_, cur_size_, max_size_,
  out,        \* the objects that a shared_ptr holds
  failures,   \* history: how often the factory has thrown
  creates     \* history: calls of Create and Capacity
poolVars == <<lstObjectPtr_, cur_size_, max_size_, out, failures, creates>>

PoolInit ==
  /\ lstObjectPtr_ = <<>> /\ cur_size_ = 0 /\ max_size_ \in Capacities
  /\ out = {} /\ failures = 0 /\ creates = 0

Made == out \union Range(lstObjectPtr_)

\* What may still be asked of the pool.
Call == creates < MaxCalls /\ creates' = creates + 1

(* NULL: nothing changes. *)
CreateNull ==
  /\ Call
  /\ lstObjectPtr_ = <<>> /\ cur_size_ >= max_size_
  /\ UNCHANGED <<lstObjectPtr_, cur_size_, max_size_, out, failures>>

(* cur_size_ is increased before the factory is called. *)
CreateNew ==
  /\ Call
  /\ lstObjectPtr_ = <<>> /\ cur_size_ < max_size_ /\ cur_size_ < MaxObjects
  /\ cur_size_' = cur_size_ + 1
  /\ \/ failures' = failures + 1 /\ UNCHANGED out
     \/ \E o \in (1..MaxObjects) \ Made : out' = out \union {o} /\ UNCHANGED failures
  /\ UNCHANGED <<lstObjectPtr_, max_size_>>

CreatePooled ==
  /\ Call
  /\ lstObjectPtr_ # <<>>
  /\ out' = out \union {Head(lstObjectPtr_)} /\ lstObjectPtr_' = Tail(lstObjectPtr_)
  /\ UNCHANGED <<cur_size_, max_size_, failures>>

(* The deleter of the last shared_ptr. *)
Restitute(o) ==
  /\ o \in out
  /\ out' = out \ {o} /\ lstObjectPtr_' = <<o>> \o lstObjectPtr_
  /\ UNCHANGED <<cur_size_, max_size_, failures, creates>>

Capacity(capacity) ==
  /\ Call
  /\ max_size_' = capacity
  /\ UNCHANGED <<lstObjectPtr_, cur_size_, out, failures>>

PoolNext ==
  \/ CreateNull \/ CreateNew \/ CreatePooled
  \/ \E o \in out : Restitute(o)
  \/ \E capacity \in Capacities : Capacity(capacity)

PoolSpec == PoolInit /\ [][PoolNext]_poolVars

\* size_t: below zero it is a large number.
Available == (Len(lstObjectPtr_) + (max_size_ - cur_size_)) % 2^SizeBits

-----------------------------------------------------------------------------
(* An object is out or in the pool, never both nor twice, and every object  *)
(* there is can come back.  Unless the capacity was set below what there    *)
(* is, Available says how many calls of Create will get one: the capacity   *)
(* without what is out and without a place for each failure of the factory, *)
(* which is lost for good (Pool.h:124).                                     *)
PoolAccounts ==
  /\ Cardinality(Range(lstObjectPtr_)) = Len(lstObjectPtr_)
  /\ out \intersect Range(lstObjectPtr_) = {}
  /\ Cardinality(Made) + failures = cur_size_
  /\ cur_size_ <= max_size_ => Available = max_size_ - failures - Cardinality(out)
=============================================================================
