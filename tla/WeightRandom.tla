---------------------------- MODULE WeightRandom ----------------------------
(***************************************************************************)
(* WeightRandom: values with cumulative weights, from which Random picks   *)
(* the first whose cumulative weight exceeds a random number.              *)
(***************************************************************************)
EXTENDS Integers, Sequences, FiniteSets

CONSTANTS Weights,                 \* the weights that are set
          MAX_WEIGHT_CONSTRAINT,
          MaxValues                \* bound: calls of SetWeight; the values are their numbers

VARIABLES totalWeight_, valWeight_,
          weights,      \* history: the weight of each value, 0 of one that was refused
          overflowed,   \* history: SetWeight has thrown
          picked        \* what the last Random returned, 0 for an exception
weightVars == <<totalWeight_, valWeight_, weights, overflowed, picked>>

WeightInit ==
  totalWeight_ = 0 /\ valWeight_ = <<>> /\ weights = <<>> /\ overflowed = FALSE /\ picked = 0

(* The sum is increased before it is tested. *)
SetWeight ==
  /\ Len(weights) < MaxValues
  /\ \E weight \in Weights :
       /\ totalWeight_' = totalWeight_ + weight
       /\ IF weight # 0 /\ totalWeight_' > MAX_WEIGHT_CONSTRAINT
          THEN overflowed' = TRUE /\ weights' = Append(weights, 0) /\ UNCHANGED valWeight_
          ELSE /\ weights' = Append(weights, weight) /\ UNCHANGED overflowed
               /\ valWeight_' = IF weight = 0 THEN valWeight_
                                ELSE Append(valWeight_, <<totalWeight_', Len(weights')>>)
  /\ UNCHANGED picked

(* The value for the random number r, the last one if no weight exceeds it. *)
Pick(r) ==
  IF \E i \in DOMAIN valWeight_ : r < valWeight_[i][1]
  THEN valWeight_[CHOOSE i \in DOMAIN valWeight_ :
         r < valWeight_[i][1] /\ \A j \in 1..(i - 1) : r >= valWeight_[j][1]][2]
  ELSE valWeight_[Len(valWeight_)][2]

Random ==
  /\ IF valWeight_ = <<>> THEN picked' = 0
     ELSE \E r \in 0..(totalWeight_ - 1) : picked' = Pick(r)
  /\ UNCHANGED <<totalWeight_, valWeight_, weights, overflowed>>

WeightNext == SetWeight \/ Random
WeightSpec == WeightInit /\ [][WeightNext]_weightVars

-----------------------------------------------------------------------------
(* Each value is picked by as many of the random numbers as its weight      *)
(* says; after a SetWeight that threw, the last value takes the share of    *)
(* the refused one as well, but no value loses any of its own.              *)
PickedByWeight ==
  valWeight_ # <<>> =>
    \A v \in DOMAIN weights :
      LET share == Cardinality({r \in 0..(totalWeight_ - 1) : Pick(r) = v}) IN
      /\ share >= weights[v]
      /\ ~overflowed => share = weights[v]
=============================================================================
