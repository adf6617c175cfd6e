------------------------- MODULE TransactionProofs -------------------------
(***************************************************************************)
(* Proofs about Transaction: for any number of handlers and connections,   *)
(* no connection is shared, every Transaction is in the database whole or  *)
(* not at all, and the pool holds no open transaction.                     *)
(***************************************************************************)
EXTENDS Transaction, FiniteSetTheorems, TLAPS

Elements(s) == {s[i] : i \in DOMAIN s}
Injective(s) == \A i, j \in DOMAIN s : s[i] = s[j] => i = j

-----------------------------------------------------------------------------
(* Who has which connection. *)

\* A Transaction and its ResultSet hold the same connection.
SameConnection ==
    \A t \in Transactions :
        connection[t] # None /\ result[t] # None => connection[t] = result[t]

\* Every connection that exists was counted by the pool.
Counted == Cardinality(Created) <= cur_size_

\* The stages in which a Transaction has its connection.
Holding == {"starting", "open", "unwinding", "unknown"}
StageHolds ==
    \A t \in Transactions :
        /\ stage[t] \in Holding => connection[t] # None
        /\ stage[t] = "new" => connection[t] = None
        /\ stage[t] \in {"new", "starting"} => result[t] = None /\ executed[t] = 0

Holds == TypeOK /\ Exclusive /\ SameConnection /\ Counted /\ StageHolds

-----------------------------------------------------------------------------
(* What the server has of it. *)

Began == {"open", "unwinding", "unknown"}

\* A session without an open transaction has no work to commit.
NoWorkUnopened == \A c \in Connections : ~session[c].open => session[c].work = {}

\* A connection is held with an open transaction only by the Transaction that
\* has begun it.
ClosedOf(t) ==
    ~crash /\ stage[t] \notin Began =>
        \A c \in Connections : c \in Handles(t) => ~session[c].open

\* The work of an open Transaction is what it has executed, or is lost, which
\* the client library has not noticed.
OpenOf(t) ==
    stage[t] = "open" =>
        /\ in_trans[connection[t]]
        /\ session[connection[t]].alive =>
             /\ session[connection[t]].open
             /\ session[connection[t]].work = {<<t, i>> : i \in 1..executed[t]}

\* Atomic, of one Transaction.
Done(t) == {i \in 1..Statements : <<t, i>> \in applied}
AtomicOf(t) ==
    /\ stage[t] = "committed" => Done(t) = 1..executed[t]
    /\ stage[t] \in {"unknown", "maybe"} => Done(t) \in {{}, 1..executed[t]}
    /\ stage[t] \notin {"committed", "unknown", "maybe"} => Done(t) = {}

Serves ==
    /\ NoWorkUnopened /\ CleanInPool
    /\ \A t \in Transactions : ClosedOf(t) /\ OpenOf(t) /\ AtomicOf(t)

IInv == Holds /\ Serves

-----------------------------------------------------------------------------
(* Sequences without repetition. *)

LEMMA PutInFront ==
    ASSUME NEW S, NEW s \in Seq(S), NEW c \in S
    PROVE  /\ <<c>> \o s \in Seq(S)
           /\ Elements(<<c>> \o s) = Elements(s) \cup {c}
           /\ Injective(s) /\ c \notin Elements(s) => Injective(<<c>> \o s)
<1> DEFINE r == <<c>> \o s
<1>1. /\ r \in Seq(S) /\ Len(r) = Len(s) + 1 /\ r[1] = c
      /\ \A i \in 1..Len(s) : r[i + 1] = s[i]
      /\ \A i \in 2..Len(r) : r[i] = s[i - 1]
      /\ DOMAIN r = 1..Len(r) /\ DOMAIN s = 1..Len(s) /\ Len(s) \in Nat
  OBVIOUS
<1> HIDE DEF r
<1>2. Elements(r) = Elements(s) \cup {c}
  <2>1. \A x \in Elements(r) : x \in Elements(s) \cup {c}
    <3> SUFFICES ASSUME NEW i \in DOMAIN r PROVE r[i] \in Elements(s) \cup {c}
      BY DEF Elements
    <3>1. CASE i = 1
      BY <3>1, <1>1
    <3>2. CASE i # 1
      <4>1. i \in 2..Len(r) /\ i - 1 \in 1..Len(s)
        BY <3>2, <1>1
      <4>2. QED
        BY <4>1, <1>1 DEF Elements
    <3>3. QED
      BY <3>1, <3>2
  <2>2. c \in Elements(r)
    <3>1. 1 \in DOMAIN r
      BY <1>1
    <3>2. QED
      BY <3>1, <1>1 DEF Elements
  <2>3. \A x \in Elements(s) : x \in Elements(r)
    <3> SUFFICES ASSUME NEW i \in DOMAIN s PROVE s[i] \in Elements(r)
      BY DEF Elements
    <3>1. i + 1 \in DOMAIN r /\ r[i + 1] = s[i]
      BY <1>1
    <3>2. QED
      BY <3>1 DEF Elements
  <2>4. QED
    BY <2>1, <2>2, <2>3
<1>3. ASSUME Injective(s), c \notin Elements(s)
      PROVE  Injective(r)
  <2> SUFFICES ASSUME NEW i \in DOMAIN r, NEW j \in DOMAIN r, r[i] = r[j]
               PROVE  i = j
    BY DEF Injective
  <2>1. \A k \in 2..Len(r) : r[k] # c
    <3> SUFFICES ASSUME NEW k \in 2..Len(r) PROVE r[k] # c
      OBVIOUS
    <3>1. k - 1 \in DOMAIN s /\ r[k] = s[k - 1]
      BY <1>1
    <3>2. QED
      BY <3>1, <1>3 DEF Elements
  <2>2. CASE i = 1 \/ j = 1
    BY <2>1, <2>2, <1>1
  <2>3. CASE i # 1 /\ j # 1
    <3>1. i - 1 \in DOMAIN s /\ j - 1 \in DOMAIN s /\ s[i - 1] = s[j - 1]
      BY <2>3, <1>1
    <3>2. i - 1 = j - 1
      BY <3>1, <1>3 DEF Injective
    <3>3. QED
      BY <3>2, <1>1
  <2>4. QED
    BY <2>2, <2>3
<1>4. QED
  BY <1>1, <1>2, <1>3 DEF r

LEMMA TakeFromFront ==
    ASSUME NEW S, NEW s \in Seq(S), s # <<>>
    PROVE  /\ Head(s) \in S /\ Tail(s) \in Seq(S)
           /\ Elements(s) = Elements(Tail(s)) \cup {Head(s)}
           /\ Injective(s) => Head(s) \notin Elements(Tail(s)) /\ Injective(Tail(s))
<1>1. /\ Head(s) \in S /\ Tail(s) \in Seq(S) /\ Head(s) = s[1]
      /\ Len(s) \in Nat /\ Len(s) >= 1 /\ Len(Tail(s)) = Len(s) - 1
      /\ \A i \in 1..Len(Tail(s)) : Tail(s)[i] = s[i + 1]
      /\ DOMAIN s = 1..Len(s) /\ DOMAIN Tail(s) = 1..Len(Tail(s))
  OBVIOUS
<1>2. Elements(s) = Elements(Tail(s)) \cup {Head(s)}
  <2>1. \A x \in Elements(s) : x \in Elements(Tail(s)) \cup {Head(s)}
    <3> SUFFICES ASSUME NEW i \in DOMAIN s
                 PROVE  s[i] \in Elements(Tail(s)) \cup {Head(s)}
      BY DEF Elements
    <3>1. CASE i = 1
      BY <3>1, <1>1
    <3>2. CASE i # 1
      <4>1. i - 1 \in DOMAIN Tail(s) /\ Tail(s)[i - 1] = s[i]
        BY <3>2, <1>1
      <4>2. QED
        BY <4>1 DEF Elements
    <3>3. QED
      BY <3>1, <3>2
  <2>2. Head(s) \in Elements(s)
    <3>1. 1 \in DOMAIN s
      BY <1>1
    <3>2. QED
      BY <3>1, <1>1 DEF Elements
  <2>3. \A x \in Elements(Tail(s)) : x \in Elements(s)
    <3> SUFFICES ASSUME NEW i \in DOMAIN Tail(s) PROVE Tail(s)[i] \in Elements(s)
      BY DEF Elements
    <3>1. i + 1 \in DOMAIN s /\ Tail(s)[i] = s[i + 1]
      BY <1>1
    <3>2. QED
      BY <3>1 DEF Elements
  <2>4. QED
    BY <2>1, <2>2, <2>3
<1>3. ASSUME Injective(s)
      PROVE  Head(s) \notin Elements(Tail(s)) /\ Injective(Tail(s))
  <2>1. \A i \in DOMAIN Tail(s) : i + 1 \in DOMAIN s /\ Tail(s)[i] = s[i + 1] /\ i \in Nat
    BY <1>1
  <2>2. Head(s) \notin Elements(Tail(s))
    <3> SUFFICES ASSUME NEW i \in DOMAIN Tail(s), Tail(s)[i] = s[1] PROVE FALSE
      BY <1>1 DEF Elements
    <3>1. i + 1 \in DOMAIN s /\ 1 \in DOMAIN s /\ s[i + 1] = s[1]
      BY <2>1, <1>1
    <3>2. i + 1 = 1
      BY <3>1, <1>3 DEF Injective
    <3>3. QED
      BY <3>2, <1>1
  <2>3. Injective(Tail(s))
    <3> SUFFICES ASSUME NEW i \in DOMAIN Tail(s), NEW j \in DOMAIN Tail(s),
                        Tail(s)[i] = Tail(s)[j]
                 PROVE  i = j
      BY DEF Injective
    <3>1. i + 1 = j + 1
      BY <2>1, <1>3 DEF Injective
    <3>2. QED
      BY <3>1, <2>1
  <2>4. QED
    BY <2>2, <2>3
<1>4. QED
  BY <1>1, <1>2, <1>3

-----------------------------------------------------------------------------
(* What a step does to the holders of connections. *)

LEMMA NoneIsNoConnection == None \notin Connections
BY TransactionAssumption DEF TransactionAssumption

\* What is created is finite, so that less of it still counts.
LEMMA CountedStays ==
    ASSUME Holds, Created' \subseteq Created, cur_size_' = cur_size_
    PROVE  Counted'
<1>1. IsFiniteSet(Created)
  BY FS_Subset, TransactionAssumption DEF Created, TransactionAssumption
<1>2. Cardinality(Created') <= Cardinality(Created)
  BY <1>1, FS_Subset
<1>3. IsFiniteSet(Created') /\ Cardinality(Created) \in Nat
  BY <1>1, FS_Subset, FS_CardinalityType
<1>4. Cardinality(Created') \in Nat
  BY <1>3, FS_CardinalityType
<1>5. cur_size_ \in Nat /\ Cardinality(Created) <= cur_size_
  BY TransactionAssumption DEF Holds, Counted, TypeOK, TransactionAssumption
<1>6. QED
  BY <1>2, <1>3, <1>4, <1>5 DEF Counted

\* A Transaction lets go of its connection, or of its ResultSet.
LEMMA HandlesShrink ==
    ASSUME Holds, NEW t \in Transactions, cur_size_' = cur_size_,
           connection' \in [Transactions -> Connections \cup {None}],
           result' \in [Transactions -> Connections \cup {None}],
           \A u \in Transactions \ {t} :
               connection'[u] = connection[u] /\ result'[u] = result[u],
           Handles(t)' \subseteq Handles(t),
           \/ lstObjectPtr_' = lstObjectPtr_
           \/ \E c \in Handles(t) \ Handles(t)' : lstObjectPtr_' = <<c>> \o lstObjectPtr_
    PROVE  /\ lstObjectPtr_' \in Seq(Connections)
           /\ Exclusive' /\ SameConnection' /\ Counted'
           /\ Pooled' \subseteq Pooled \cup (Handles(t) \ Handles(t)')
<1>1. /\ lstObjectPtr_ \in Seq(Connections) /\ Injective(lstObjectPtr_)
      /\ Pooled = Elements(lstObjectPtr_) /\ Pooled' = Elements(lstObjectPtr_')
      /\ connection \in [Transactions -> Connections \cup {None}]
      /\ result \in [Transactions -> Connections \cup {None}]
  BY DEF Holds, TypeOK, Exclusive, Injective, Pooled, Elements
<1>2. /\ \A u \in Transactions : Handles(u) \subseteq Held /\ Handles(u) \subseteq Connections
      /\ Pooled \cap Held = {}
  BY <1>1 DEF Handles, Held, Holds, Exclusive
<1>3. /\ lstObjectPtr_' \in Seq(Connections) /\ Injective(lstObjectPtr_')
      /\ Pooled' \subseteq Pooled \cup (Handles(t) \ Handles(t)')
  <2>1. CASE lstObjectPtr_' = lstObjectPtr_
    BY <2>1, <1>1
  <2>2. ASSUME NEW c \in Handles(t) \ Handles(t)', lstObjectPtr_' = <<c>> \o lstObjectPtr_
        PROVE  /\ lstObjectPtr_' \in Seq(Connections) /\ Injective(lstObjectPtr_')
               /\ Pooled' \subseteq Pooled \cup (Handles(t) \ Handles(t)')
    <3>1. c \in Connections /\ c \notin Elements(lstObjectPtr_)
      BY <1>1, <1>2
    <3>2. /\ lstObjectPtr_' \in Seq(Connections) /\ Injective(lstObjectPtr_')
          /\ Elements(lstObjectPtr_') = Elements(lstObjectPtr_) \cup {c}
      BY <3>1, <2>2, <1>1, PutInFront
    <3>3. QED
      BY <3>2, <1>1
  <2>3. QED
    BY <2>1, <2>2
<1>4. \A u \in Transactions : Handles(u)' \subseteq Handles(u)
  BY DEF Handles
<1>5. Pooled' \cap Held' = {}
  <2> SUFFICES ASSUME NEW c \in Pooled', c \in Held' PROVE FALSE
    OBVIOUS
  <2>1. c \in Connections
    BY <1>2, <1>3, <1>1 DEF Elements
  <2>2. PICK u \in Transactions : c \in Handles(u)'
    BY <2>1, NoneIsNoConnection DEF Held, Handles
  <2>3. CASE c \in Pooled
    BY <2>2, <2>3, <1>2, <1>4
  <2>4. CASE c \in Handles(t) \ Handles(t)'
    <3>1. u # t /\ c \in Handles(u)
      BY <2>2, <2>4, <1>4
    <3>2. QED
      BY <3>1, <2>4 DEF Holds, Exclusive
  <2>5. QED
    BY <2>3, <2>4, <1>3
<1>6. \A u, v \in Transactions : u # v => Handles(u)' \cap Handles(v)' = {}
  BY <1>4 DEF Holds, Exclusive
<1>7. Exclusive'
  BY <1>3, <1>5, <1>6 DEF Exclusive, Injective
<1>8. SameConnection'
  <2> SUFFICES ASSUME NEW u \in Transactions, connection'[u] # None, result'[u] # None
               PROVE  connection'[u] = result'[u]
    BY DEF SameConnection
  <2>1. connection'[u] \in Handles(u) /\ result'[u] \in Handles(u)
    BY <1>4 DEF Handles
  <2>2. QED
    BY <2>1 DEF Handles, Holds, SameConnection
<1>9. Created' \subseteq Created
  <2> SUFFICES ASSUME NEW c \in Connections, c \in Held' \/ c \in Pooled'
               PROVE  c \in Held \/ c \in Pooled
    BY DEF Created
  <2>1. CASE c \in Held'
    <3>1. PICK u \in Transactions : c \in Handles(u)'
      BY <2>1, NoneIsNoConnection DEF Held, Handles
    <3>2. QED
      BY <3>1, <1>4, <1>2
  <2>2. CASE c \in Pooled'
    BY <2>2, <1>3, <1>2
  <2>3. QED
    BY <2>1, <2>2
<1>10. QED
  BY <1>3, <1>7, <1>8, <1>9, CountedStays

\* A Transaction without a connection is given one that nobody has.
LEMMA HandlesGrow ==
    ASSUME Holds, NEW t \in Transactions, connection[t] = None, result[t] = None,
           NEW c \in Connections, c \notin Held,
           connection' = [connection EXCEPT ![t] = c], result' = result,
           Injective(lstObjectPtr_'), Pooled' \subseteq Pooled, c \notin Pooled'
    PROVE  Exclusive' /\ SameConnection' /\ Held' \subseteq Held \cup {c}
<1>1. /\ connection \in [Transactions -> Connections \cup {None}]
      /\ result \in [Transactions -> Connections \cup {None}]
  BY DEF Holds, TypeOK
<1>2. /\ Handles(t)' = {c}
      /\ \A u \in Transactions \ {t} : Handles(u)' = Handles(u)
      /\ \A u \in Transactions : c \notin Handles(u)
  BY <1>1, NoneIsNoConnection DEF Handles, Held
<1>3. Held' \subseteq Held \cup {c}
  BY <1>1 DEF Held
<1>4. Pooled' \cap Held' = {}
  BY <1>3 DEF Holds, Exclusive
<1>5. \A u, v \in Transactions : u # v => Handles(u)' \cap Handles(v)' = {}
  BY <1>2 DEF Holds, Exclusive
<1>6. Exclusive'
  BY <1>4, <1>5 DEF Exclusive, Injective
<1>7. SameConnection'
  BY <1>1 DEF Holds, SameConnection
<1>8. QED
  BY <1>3, <1>6, <1>7

\* There is a connection to create as long as the pool has not counted them all.
LEMMA SomeLeft ==
    ASSUME Holds, MayCreate
    PROVE  \E c \in Connections : c \notin Created
<1> SUFFICES ASSUME Created = Connections PROVE FALSE
  BY DEF Created
<1>1. IsFiniteSet(Connections) /\ max_size <= Cardinality(Connections) /\ max_size \in Nat
  BY TransactionAssumption DEF TransactionAssumption
<1>2. Cardinality(Connections) \in Nat /\ cur_size_ \in Nat
  BY <1>1, FS_CardinalityType DEF Holds, TypeOK
<1>3. QED
  BY <1>1, <1>2 DEF Holds, Counted, MayCreate

-----------------------------------------------------------------------------
(* What a step does to the work in the database. *)

\* A step of one Transaction on a connection that no other one has leaves to
\* the others what they have; what it must show is said of it alone.
LEMMA OthersKeep ==
    ASSUME IInv, ~crash, NEW t \in Transactions, NEW c,
           \A u \in Transactions \ {t} : c \notin Handles(u),
           \A d \in Connections \ {c} :
               session'[d] = session[d] /\ in_trans'[d] = in_trans[d],
           \A u \in Transactions \ {t} :
               /\ stage'[u] = stage[u] /\ executed'[u] = executed[u]
               /\ connection'[u] = connection[u] /\ result'[u] = result[u]
               /\ \A i \in 1..Statements : <<u, i>> \in applied' <=> <<u, i>> \in applied,
           Pooled' \subseteq (Pooled \cup {c}) \cap Connections,
           c \in Connections =>
               /\ ~session'[c].open => session'[c].work = {}
               /\ c \in Pooled' => ~session'[c].open,
           ClosedOf(t)', OpenOf(t)', AtomicOf(t)'
    PROVE  Serves'
<1>1. NoWorkUnopened'
  BY DEF IInv, Serves, NoWorkUnopened
<1>2. CleanInPool'
  <2> SUFFICES ASSUME NEW d \in Pooled' PROVE ~session'[d].open
    BY DEF CleanInPool
  <2>0. Pooled \subseteq Connections
    BY DEF IInv, Holds, TypeOK, Pooled
  <2>1. CASE d \in Connections /\ d = c
    BY <2>1
  <2>2. CASE d # c
    BY <2>0, <2>2 DEF IInv, Serves, CleanInPool
  <2>3. QED
    BY <2>1, <2>2
<1>3. ASSUME NEW u \in Transactions \ {t}
      PROVE  ClosedOf(u)' /\ OpenOf(u)' /\ AtomicOf(u)'
  <2>1. Handles(u)' = Handles(u) /\ c \notin Handles(u)
    BY DEF Handles
  <2>2. ClosedOf(u) /\ OpenOf(u) /\ AtomicOf(u)
    BY DEF IInv, Serves
  <2>3. ClosedOf(u)'
    BY <2>1, <2>2 DEF ClosedOf
  <2>4. OpenOf(u)'
    <3> SUFFICES ASSUME stage[u] = "open"
                 PROVE  /\ in_trans'[connection[u]]
                        /\ session'[connection[u]].alive =>
                             /\ session'[connection[u]].open
                             /\ session'[connection[u]].work = {<<u, i>> : i \in 1..executed[u]}
      BY DEF OpenOf
    <3>1. connection[u] \in Handles(u) /\ connection[u] \in Connections \ {c}
      BY <2>1 DEF IInv, Holds, StageHolds, Holding, TypeOK, Handles
    <3>2. QED
      BY <3>1, <2>2 DEF OpenOf
  <2>5. Done(u)' = Done(u)
    BY DEF Done
  <2>6. AtomicOf(u)'
    BY <2>2, <2>5 DEF AtomicOf
  <2>7. QED
    BY <2>3, <2>4, <2>6
<1>4. QED
  BY <1>1, <1>2, <1>3 DEF Serves

-----------------------------------------------------------------------------
(* One lemma for each action. *)

ServerSession == [alive : BOOLEAN, open : BOOLEAN, work : SUBSET (Transactions \X (1..Statements))]

LEMMA SessionTypes ==
    /\ NoSession \in ServerSession /\ Fresh \in ServerSession
    /\ ~NoSession.alive /\ ~NoSession.open /\ NoSession.work = {}
    /\ Fresh.alive /\ ~Fresh.open /\ Fresh.work = {}
    /\ \A c : SessionFor(c) = IF session[c].alive THEN session[c] ELSE Fresh
    /\ Holds => session \in [Connections -> ServerSession]
BY DEF NoSession, Fresh, ServerSession, SessionFor, Holds, TypeOK

LEMMA HolderHas ==
    ASSUME Holds, NEW t \in Transactions, stage[t] \in Holding
    PROVE  /\ connection[t] \in Connections /\ connection[t] # None
           /\ connection[t] \notin Pooled
           /\ result[t] \in {None, connection[t]} /\ Handles(t) = {connection[t]}
           /\ \A u \in Transactions \ {t} : connection[t] \notin Handles(u)
<1>1. connection[t] \in Connections /\ connection[t] # None
  BY DEF Holds, TypeOK, StageHolds
<1>2. result[t] \in {None, connection[t]} /\ Handles(t) = {connection[t]}
  BY <1>1 DEF Holds, SameConnection, Handles
<1>3. connection[t] \in Held
  BY DEF Held
<1>4. QED
  BY <1>1, <1>2, <1>3 DEF Holds, Exclusive

LEMMA TakesPooled ==
    ASSUME IInv, ~crash, NEW t \in Transactions, stage[t] = "new", lstObjectPtr_ # <<>>,
           connection' = [connection EXCEPT ![t] = Head(lstObjectPtr_)],
           lstObjectPtr_' = Tail(lstObjectPtr_),
           stage' = [stage EXCEPT ![t] = "starting"],
           UNCHANGED <<cur_size_, session, in_trans, up, result, executed, applied, crash>>
    PROVE  IInv'
<1> DEFINE c == Head(lstObjectPtr_)
<1>1. /\ Holds /\ connection[t] = None /\ result[t] = None /\ executed[t] = 0
      /\ lstObjectPtr_ \in Seq(Connections) /\ Injective(lstObjectPtr_)
      /\ Pooled = Elements(lstObjectPtr_) /\ Pooled' = Elements(lstObjectPtr_')
  BY DEF IInv, Holds, TypeOK, StageHolds, Exclusive, Injective, Pooled, Elements
<1>2. /\ c \in Connections /\ lstObjectPtr_' \in Seq(Connections)
      /\ Pooled = Pooled' \cup {c} /\ c \notin Pooled' /\ Injective(lstObjectPtr_')
  BY <1>1, TakeFromFront
<1>3. c \notin Held /\ \A u \in Transactions : c \notin Handles(u)
  BY <1>1, <1>2 DEF Holds, Exclusive, Held, Handles
<1> HIDE DEF c
<1>4. connection' = [connection EXCEPT ![t] = c]
  BY DEF c
<1>5. Exclusive' /\ SameConnection' /\ Held' \subseteq Held \cup {c}
  BY <1>1, <1>2, <1>3, <1>4, HandlesGrow
<1>6. Counted'
  <2>1. Created' \subseteq Created
    BY <1>2, <1>5 DEF Created
  <2>2. QED
    BY <2>1, <1>1, CountedStays
<1>7. TypeOK'
  BY <1>1, <1>2, <1>4 DEF Holds, TypeOK
<1>8. StageHolds'
  BY <1>1, <1>2, <1>4, NoneIsNoConnection DEF Holds, TypeOK, StageHolds, Holding
<1>9. Serves'
  <2>1. /\ stage'[t] = "starting" /\ connection'[t] = c /\ result'[t] = None
        /\ \A u \in Transactions \ {t} : stage'[u] = stage[u] /\ connection'[u] = connection[u]
    BY <1>1, <1>4 DEF Holds, TypeOK
  <2>2. ~session[c].open /\ (~session[c].open => session[c].work = {})
    BY <1>2 DEF IInv, Serves, CleanInPool, NoWorkUnopened
  <2>3. ClosedOf(t)'
    BY <2>1, <2>2 DEF ClosedOf, Handles
  <2>4. OpenOf(t)'
    BY <2>1 DEF OpenOf
  <2>5. AtomicOf(t)'
    BY <2>1 DEF AtomicOf, Done, IInv, Serves
  <2>6. Pooled' \subseteq Connections
    BY <1>1, <1>2 DEF Elements
  <2>7. QED
    BY <1>2, <1>3, <2>1, <2>2, <2>3, <2>4, <2>5, <2>6, OthersKeep
<1>10. QED
  BY <1>5, <1>6, <1>7, <1>8, <1>9 DEF IInv, Holds

LEMMA CreatesConnection ==
    ASSUME IInv, ~crash, NEW t \in Transactions, stage[t] = "new", lstObjectPtr_ = <<>>,
           MayCreate, cur_size_' = cur_size_ + 1,
           NEW c \in Connections, c \notin Created,
           connection' = [connection EXCEPT ![t] = c],
           session' = [session EXCEPT ![c] = Fresh],
           in_trans' = [in_trans EXCEPT ![c] = FALSE],
           stage' = [stage EXCEPT ![t] = "starting"],
           UNCHANGED <<lstObjectPtr_, up, result, executed, applied, crash>>
    PROVE  IInv'
<1>1. /\ Holds /\ connection[t] = None /\ result[t] = None
      /\ Pooled = {} /\ Pooled' = {} /\ Injective(lstObjectPtr_')
  BY DEF IInv, Holds, StageHolds, Injective, Pooled
<1>2. c \notin Held /\ \A u \in Transactions : c \notin Handles(u)
  BY DEF Created, Held, Handles
<1>3. Exclusive' /\ SameConnection' /\ Held' \subseteq Held \cup {c}
  BY <1>1, <1>2, HandlesGrow
<1>4. cur_size_ \in Nat /\ cur_size_' \in 0..max_size
  BY <1>1, TransactionAssumption DEF Holds, TypeOK, MayCreate, TransactionAssumption
<1>5. Counted'
  <2>1. IsFiniteSet(Created) /\ IsFiniteSet(Created \cup {c})
    BY FS_Subset, FS_AddElement, TransactionAssumption DEF Created, TransactionAssumption
  <2>2. Cardinality(Created \cup {c}) = Cardinality(Created) + 1
    BY <2>1, FS_AddElement
  <2>3. Created' \subseteq Created \cup {c}
    BY <1>1, <1>3 DEF Created
  <2>4. Cardinality(Created') <= Cardinality(Created \cup {c}) /\ IsFiniteSet(Created')
    BY <2>1, <2>3, FS_Subset
  <2>5. Cardinality(Created) \in Nat /\ Cardinality(Created') \in Nat
    BY <2>1, <2>4, FS_CardinalityType
  <2>6. QED
    BY <2>2, <2>4, <2>5, <1>1, <1>4 DEF Holds, Counted
<1>6. TypeOK'
  BY <1>1, <1>4, SessionTypes DEF Holds, TypeOK, ServerSession
<1>7. StageHolds'
  BY <1>1, NoneIsNoConnection DEF Holds, TypeOK, StageHolds, Holding
<1>8. Serves'
  <2>1. /\ stage'[t] = "starting" /\ connection'[t] = c /\ result'[t] = None
        /\ \A u \in Transactions \ {t} : stage'[u] = stage[u] /\ connection'[u] = connection[u]
        /\ session'[c] = Fresh
        /\ \A d \in Connections \ {c} : session'[d] = session[d] /\ in_trans'[d] = in_trans[d]
    BY <1>1 DEF Holds, TypeOK
  <2>2. ClosedOf(t)'
    BY <2>1, SessionTypes DEF ClosedOf, Handles
  <2>3. OpenOf(t)'
    BY <2>1 DEF OpenOf
  <2>4. AtomicOf(t)'
    BY <2>1 DEF AtomicOf, Done, IInv, Serves
  <2>5. QED
    BY <1>1, <1>2, <2>1, <2>2, <2>3, <2>4, SessionTypes, OthersKeep
<1>9. QED
  BY <1>3, <1>5, <1>6, <1>7, <1>8 DEF IInv, Holds

LEMMA FindsNone ==
    ASSUME IInv, ~crash, NEW t \in Transactions, stage[t] = "new",
           \/ MayCreate /\ cur_size_' = cur_size_ + 1
           \/ UNCHANGED cur_size_,
           stage' = [stage EXCEPT ![t] = "ended"],
           UNCHANGED <<lstObjectPtr_, connection, session, in_trans, up, result,
                       executed, applied, crash>>
    PROVE  IInv'
<1>1. Holds /\ connection[t] = None /\ result[t] = None /\ Pooled' = Pooled /\ Held' = Held
  BY DEF IInv, Holds, StageHolds, Pooled, Held
<1>2. cur_size_ \in Nat /\ cur_size_' \in 0..max_size /\ cur_size_' >= cur_size_
  BY <1>1, TransactionAssumption DEF Holds, TypeOK, MayCreate, TransactionAssumption
<1>3. Exclusive' /\ SameConnection'
  BY <1>1 DEF Holds, Exclusive, SameConnection, Handles
<1>4. Counted'
  <2>1. Created' = Created
    BY <1>1 DEF Created
  <2>2. IsFiniteSet(Created)
    BY FS_Subset, TransactionAssumption DEF Created, TransactionAssumption
  <2>3. Cardinality(Created) \in Nat
    BY <2>2, FS_CardinalityType
  <2>4. QED
    BY <1>1, <1>2, <2>1, <2>3 DEF Holds, Counted
<1>5. TypeOK' /\ StageHolds'
  BY <1>1, <1>2 DEF Holds, TypeOK, StageHolds, Holding
<1>6. Serves'
  <2>1. /\ stage'[t] = "ended"
        /\ \A u \in Transactions \ {t} : stage'[u] = stage[u]
    BY <1>1 DEF Holds, TypeOK
  <2>2. ClosedOf(t)' /\ OpenOf(t)'
    BY <1>1, <2>1, NoneIsNoConnection DEF ClosedOf, OpenOf, Handles
  <2>3. AtomicOf(t)'
    BY <2>1 DEF AtomicOf, Done, IInv, Serves
  <2>4. Pooled' \subseteq Connections /\ \A u \in Transactions : None \notin Handles(u)
    BY <1>1 DEF Holds, TypeOK, Pooled, Handles
  <2>5. QED
    BY <1>1, <2>1, <2>2, <2>3, <2>4, NoneIsNoConnection, OthersKeep
<1>7. QED
  BY <1>3, <1>4, <1>5, <1>6 DEF IInv, Holds

LEMMA GetConnectionKeeps ==
    ASSUME IInv, ~crash, NEW t \in Transactions, GetConnection(t)
    PROVE  IInv'
<1>1. stage[t] = "new" /\ UNCHANGED <<up, result, executed, applied, crash>>
  BY DEF GetConnection
<1>2. CASE lstObjectPtr_ # <<>>
  BY <1>1, <1>2, TakesPooled DEF GetConnection
<1>3. CASE lstObjectPtr_ = <<>> /\ MayCreate /\ up
  <2> DEFINE c == CHOOSE c \in Connections : c \notin Created
  <2>1. c \in Connections /\ c \notin Created
    BY <1>3, SomeLeft DEF IInv
  <2>2. /\ connection' = [connection EXCEPT ![t] = c]
        /\ session' = [session EXCEPT ![c] = Fresh]
        /\ in_trans' = [in_trans EXCEPT ![c] = FALSE]
        /\ stage' = [stage EXCEPT ![t] = "starting"]
        /\ UNCHANGED lstObjectPtr_ /\ cur_size_' = cur_size_ + 1
    BY <1>3 DEF GetConnection
  <2> HIDE DEF c
  <2>3. QED
    BY <1>1, <1>3, <2>1, <2>2, CreatesConnection
<1>4. CASE lstObjectPtr_ = <<>> /\ ~(MayCreate /\ up)
  BY <1>1, <1>4, FindsNone DEF GetConnection
<1>5. QED
  BY <1>2, <1>3, <1>4

\* A Transaction keeps its connection; its ResultSet may come to share it.
LEMMA HolderKeeps ==
    ASSUME Holds, NEW t \in Transactions, stage[t] \in Holding,
           UNCHANGED <<lstObjectPtr_, cur_size_, connection>>,
           \/ result' = result
           \/ result' = [result EXCEPT ![t] = connection[t]]
    PROVE  /\ lstObjectPtr_' \in Seq(Connections) /\ cur_size_' \in 0..max_size
           /\ connection' \in [Transactions -> Connections \cup {None}]
           /\ result' \in [Transactions -> Connections \cup {None}]
           /\ \A u \in Transactions \ {t} : result'[u] = result[u]
           /\ Exclusive' /\ SameConnection' /\ Counted'
           /\ Pooled' = Pooled /\ Pooled \subseteq Connections
           /\ Handles(t)' = {connection[t]}
<1> DEFINE c == connection[t]
<1>1. /\ lstObjectPtr_ \in Seq(Connections) /\ cur_size_ \in 0..max_size
      /\ connection \in [Transactions -> Connections \cup {None}]
      /\ result \in [Transactions -> Connections \cup {None}]
  BY DEF Holds, TypeOK
<1>2. /\ c \in Connections /\ c # None /\ result[t] \in {None, c} /\ Handles(t) = {c}
  BY HolderHas
<1>3. /\ result' \in [Transactions -> Connections \cup {None}]
      /\ \A u \in Transactions \ {t} : result'[u] = result[u]
      /\ result'[t] \in {None, c}
  BY <1>1, <1>2
<1>4. Handles(t)' = {c}
  BY <1>2, <1>3 DEF Handles
<1> HIDE DEF c
<1>5. Exclusive' /\ SameConnection' /\ Counted'
  BY <1>1, <1>2, <1>3, <1>4, HandlesShrink
<1>6. Pooled' = Pooled /\ Pooled \subseteq Connections
  BY <1>1 DEF Pooled
<1>7. QED
  BY <1>1, <1>3, <1>4, <1>5, <1>6 DEF c

\* A Transaction lets its connection go, to its ResultSet or to the pool.
LEMMA HolderLetsGo ==
    ASSUME Holds, NEW t \in Transactions, stage[t] \in Holding,
           connection' = [connection EXCEPT ![t] = None], cur_size_' = cur_size_,
           \/ result' = result
           \/ result' = [result EXCEPT ![t] = connection[t]],
           lstObjectPtr_' = IF result'[t] = connection[t] THEN lstObjectPtr_
                            ELSE <<connection[t]>> \o lstObjectPtr_
    PROVE  /\ lstObjectPtr_' \in Seq(Connections) /\ cur_size_' \in 0..max_size
           /\ connection' \in [Transactions -> Connections \cup {None}]
           /\ result' \in [Transactions -> Connections \cup {None}]
           /\ \A u \in Transactions \ {t} :
                connection'[u] = connection[u] /\ result'[u] = result[u]
           /\ connection'[t] = None
           /\ Exclusive' /\ SameConnection' /\ Counted'
           /\ Pooled' \subseteq (Pooled \cup {connection[t]}) \cap Connections
           /\ Handles(t)' \subseteq {connection[t]}
<1> DEFINE c == connection[t]
<1>1. /\ lstObjectPtr_ \in Seq(Connections) /\ cur_size_ \in 0..max_size
      /\ connection \in [Transactions -> Connections \cup {None}]
      /\ result \in [Transactions -> Connections \cup {None}]
  BY DEF Holds, TypeOK
<1>2. /\ c \in Connections /\ c # None /\ result[t] \in {None, c} /\ Handles(t) = {c}
  BY HolderHas
<1>3. /\ result' \in [Transactions -> Connections \cup {None}]
      /\ connection' \in [Transactions -> Connections \cup {None}]
      /\ \A u \in Transactions \ {t} :
           connection'[u] = connection[u] /\ result'[u] = result[u]
      /\ result'[t] \in {None, c} /\ connection'[t] = None
  BY <1>1, <1>2
<1>4. Handles(t)' = {result'[t]} \ {None}
  BY <1>3 DEF Handles
<1> HIDE DEF c
<1>5. \/ lstObjectPtr_' = lstObjectPtr_
      \/ \E d \in Handles(t) \ Handles(t)' : lstObjectPtr_' = <<d>> \o lstObjectPtr_
  <2>1. CASE result'[t] = c
    BY <2>1 DEF c
  <2>2. CASE result'[t] # c
    <3>1. c \in Handles(t) \ Handles(t)'
      BY <2>2, <1>2, <1>3, <1>4
    <3>2. lstObjectPtr_' = <<c>> \o lstObjectPtr_
      BY <2>2 DEF c
    <3>3. QED
      BY <3>1, <3>2
  <2>3. QED
    BY <2>1, <2>2
<1>6. /\ lstObjectPtr_' \in Seq(Connections) /\ Exclusive' /\ SameConnection' /\ Counted'
      /\ Pooled' \subseteq Pooled \cup (Handles(t) \ Handles(t)')
  <2>1. Handles(t)' \subseteq Handles(t)
    BY <1>2, <1>3, <1>4
  <2>2. QED
    BY <1>3, <1>5, <2>1, HandlesShrink
<1>7. Pooled' \subseteq (Pooled \cup {c}) \cap Connections
  <2>1. Pooled' \subseteq Connections
    BY <1>6 DEF Pooled
  <2>2. QED
    BY <2>1, <1>2, <1>6
<1>8. QED
  BY <1>1, <1>2, <1>3, <1>4, <1>6, <1>7 DEF c

LEMMA StartKeeps ==
    ASSUME IInv, ~crash, NEW t \in Transactions, Start(t)
    PROVE  IInv'
<1> DEFINE c == connection[t]
<1>1. /\ Holds /\ stage[t] = "starting" /\ stage[t] \in Holding
      /\ result[t] = None /\ executed[t] = 0
      /\ UNCHANGED <<up, cur_size_, result, executed, applied, crash>>
  BY DEF Start, IInv, Holds, StageHolds, Holding, QueryFails, server, pool
<1>2. /\ c \in Connections /\ c # None
      /\ \A u \in Transactions \ {t} : c \notin Handles(u)
      /\ Handles(t) = {c}
  BY <1>1, HolderHas
<1>3. ~session[c].open /\ session[c].work = {}
  BY <1>1, <1>2 DEF IInv, Serves, ClosedOf, NoWorkUnopened, Began
<1>4. /\ stage \in [Transactions -> {"new", "starting", "open", "unwinding", "unknown",
                                     "committed", "maybe", "ended"}]
      /\ session \in [Connections -> ServerSession] /\ in_trans \in [Connections -> BOOLEAN]
      /\ session[c] \in ServerSession
  BY <1>1, <1>2, SessionTypes DEF Holds, TypeOK
<1>5. AtomicOf(t)' \/ stage'[t] \notin {"open", "ended"}
  BY <1>1 DEF IInv, Serves, AtomicOf, Done
<1> HIDE DEF c
<1>6. CASE /\ session' = [session EXCEPT ![c] = [SessionFor(c) EXCEPT !.open = TRUE]]
           /\ in_trans' = [in_trans EXCEPT ![c] = TRUE]
           /\ stage' = [stage EXCEPT ![t] = "open"]
           /\ UNCHANGED <<pool, connection>>
  <2>1. /\ lstObjectPtr_' \in Seq(Connections) /\ cur_size_' \in 0..max_size
        /\ connection' \in [Transactions -> Connections \cup {None}]
        /\ result' \in [Transactions -> Connections \cup {None}]
        /\ Exclusive' /\ SameConnection' /\ Counted'
        /\ Pooled' = Pooled /\ Pooled \subseteq Connections
        /\ Handles(t)' = {c} /\ connection'[t] = c
    BY <1>1, <1>6, HolderKeeps DEF c, pool
  <2>2. /\ SessionFor(c) \in ServerSession /\ SessionFor(c).work = {}
    BY <1>3, <1>4, SessionTypes
  <2>3. /\ session'[c] \in ServerSession /\ session'[c].open /\ session'[c].work = {}
        /\ in_trans'[c] = TRUE
        /\ \A d \in Connections \ {c} : session'[d] = session[d] /\ in_trans'[d] = in_trans[d]
        /\ session' \in [Connections -> ServerSession] /\ in_trans' \in [Connections -> BOOLEAN]
    BY <1>2, <1>4, <1>6, <2>2 DEF ServerSession
  <2>4. /\ stage'[t] = "open" /\ \A u \in Transactions \ {t} : stage'[u] = stage[u]
        /\ stage' \in [Transactions -> {"new", "starting", "open", "unwinding", "unknown",
                                       "committed", "maybe", "ended"}]
    BY <1>4, <1>6
  <2>5. TypeOK'
    BY <1>1, <2>1, <2>3, <2>4 DEF Holds, TypeOK, ServerSession
  <2>6. StageHolds'
    BY <1>1, <1>2, <1>6, <2>1, <2>4 DEF Holds, StageHolds, Holding
  <2>7. ClosedOf(t)'
    BY <2>4 DEF ClosedOf, Began
  <2>8. OpenOf(t)'
    BY <1>1, <2>1, <2>3 DEF OpenOf
  <2>9. Pooled' \subseteq (Pooled \cup {c}) \cap Connections /\ c \notin Pooled'
    BY <1>1, <2>1, HolderHas DEF c
  <2>10. \A u \in Transactions \ {t} : connection'[u] = connection[u]
    BY <1>6
  <2>11. Serves'
    BY <1>1, <1>2, <1>5, <2>3, <2>4, <2>7, <2>8, <2>9, <2>10, OthersKeep
  <2>12. QED
    BY <2>1, <2>5, <2>6, <2>11 DEF IInv, Holds
<1>7. CASE /\ QueryFails(c)
           /\ stage' = [stage EXCEPT ![t] = "ended"]
           /\ connection' = [connection EXCEPT ![t] = None]
           /\ Restitute(c, {})
  <2>1. lstObjectPtr_' = IF result'[t] = c THEN lstObjectPtr_ ELSE <<c>> \o lstObjectPtr_
    BY <1>1, <1>2, <1>7 DEF Restitute
  <2>2. /\ lstObjectPtr_' \in Seq(Connections) /\ cur_size_' \in 0..max_size
        /\ connection' \in [Transactions -> Connections \cup {None}]
        /\ result' \in [Transactions -> Connections \cup {None}]
        /\ \A u \in Transactions \ {t} :
             connection'[u] = connection[u] /\ result'[u] = result[u]
        /\ Exclusive' /\ SameConnection' /\ Counted' /\ connection'[t] = None
        /\ Pooled' \subseteq (Pooled \cup {c}) \cap Connections
        /\ Handles(t)' \subseteq {c}
    BY <1>1, <1>7, <2>1, HolderLetsGo DEF c
  <2>3. /\ session' = session /\ in_trans' \in [Connections -> BOOLEAN]
        /\ \A d \in Connections \ {c} : in_trans'[d] = in_trans[d]
    BY <1>4, <1>7 DEF QueryFails, server, ServerSession
  <2>4. /\ stage'[t] = "ended" /\ \A u \in Transactions \ {t} : stage'[u] = stage[u]
        /\ stage' \in [Transactions -> {"new", "starting", "open", "unwinding", "unknown",
                                       "committed", "maybe", "ended"}]
    BY <1>4, <1>7
  <2>5. TypeOK'
    BY <1>1, <2>2, <2>3, <2>4 DEF Holds, TypeOK
  <2>6. StageHolds'
    BY <1>1, <2>2, <2>4 DEF Holds, StageHolds, Holding
  <2>7. ClosedOf(t)'
    BY <1>3, <2>2, <2>3 DEF ClosedOf
  <2>8. OpenOf(t)'
    BY <2>4 DEF OpenOf
  <2>9. Serves'
    BY <1>1, <1>2, <1>3, <1>5, <2>2, <2>3, <2>4, <2>7, <2>8, OthersKeep
  <2>10. QED
    BY <2>2, <2>5, <2>6, <2>9 DEF IInv, Holds
<1>8. QED
  BY <1>6, <1>7 DEF Start, c

\* A query without a Transaction: on a connection that nobody has, in a session
\* without an open transaction, its statement is applied at once.
LEMMA QueryKeeps ==
    ASSUME IInv, ~crash, NEW t \in Transactions, Query(t)
    PROVE  IInv'
<1> DEFINE c == connection[t]
<1>1. /\ Holds /\ stage[t] = "starting" /\ stage[t] \in Holding /\ Statements > 0
      /\ result[t] = None /\ executed[t] = 0 /\ Statements \in Nat
      /\ connection' = [connection EXCEPT ![t] = None]
      /\ UNCHANGED <<up, cur_size_, crash>>
  BY TransactionAssumption
     DEF Query, IInv, Holds, StageHolds, Holding, QueryFails, server, pool, TransactionAssumption
<1>2. /\ c \in Connections /\ c # None
      /\ \A u \in Transactions \ {t} : c \notin Handles(u)
      /\ Handles(t) = {c}
  BY <1>1, HolderHas
<1>3. ~session[c].open /\ session[c].work = {}
  BY <1>1, <1>2 DEF IInv, Serves, ClosedOf, NoWorkUnopened, Began
<1>4. /\ stage \in [Transactions -> {"new", "starting", "open", "unwinding", "unknown",
                                     "committed", "maybe", "ended"}]
      /\ session \in [Connections -> ServerSession] /\ in_trans \in [Connections -> BOOLEAN]
      /\ session[c] \in ServerSession
      /\ result \in [Transactions -> Connections \cup {None}]
      /\ executed \in [Transactions -> 0..Statements]
      /\ applied \subseteq Transactions \X (1..Statements)
  BY <1>1, <1>2, SessionTypes DEF Holds, TypeOK
<1>5. Done(t) = {}
  BY <1>1 DEF IInv, Serves, AtomicOf
\* What the three outcomes have in common.
<1>6. ASSUME stage' = [stage EXCEPT ![t] = stage'[t]],
             stage'[t] \in {"committed", "maybe", "ended"},
             \/ result' = result
             \/ result' = [result EXCEPT ![t] = connection[t]],
             lstObjectPtr_' = IF result'[t] = c THEN lstObjectPtr_ ELSE <<c>> \o lstObjectPtr_,
             session' = [session EXCEPT ![c] = session'[c]],
             session'[c] \in ServerSession, ~session'[c].open, session'[c].work = {},
             in_trans' \in [Connections -> BOOLEAN],
             \A d \in Connections \ {c} : in_trans'[d] = in_trans[d],
             \/ stage'[t] = "ended" /\ UNCHANGED <<executed, applied>>
             \/ /\ stage'[t] \in {"committed", "maybe"}
                /\ executed' = [executed EXCEPT ![t] = 1]
                /\ applied' = applied \cup {<<t, 1>>}
      PROVE  IInv'
  <2>1. /\ lstObjectPtr_' \in Seq(Connections) /\ cur_size_' \in 0..max_size
        /\ connection' \in [Transactions -> Connections \cup {None}]
        /\ result' \in [Transactions -> Connections \cup {None}]
        /\ \A u \in Transactions \ {t} :
             connection'[u] = connection[u] /\ result'[u] = result[u]
        /\ Exclusive' /\ SameConnection' /\ Counted' /\ connection'[t] = None
        /\ Pooled' \subseteq (Pooled \cup {c}) \cap Connections
        /\ Handles(t)' \subseteq {c}
    BY <1>1, <1>6, HolderLetsGo
  <2> HIDE DEF c
  <2>2. /\ session' \in [Connections -> ServerSession]
        /\ \A d \in Connections \ {c} : session'[d] = session[d]
    BY <1>2, <1>4, <1>6
  <2>3. /\ \A u \in Transactions \ {t} : stage'[u] = stage[u]
        /\ stage' \in [Transactions -> {"new", "starting", "open", "unwinding", "unknown",
                                       "committed", "maybe", "ended"}]
    BY <1>4, <1>6
  <2>4. /\ executed' \in [Transactions -> 0..Statements]
        /\ applied' \subseteq Transactions \X (1..Statements)
        /\ \A u \in Transactions \ {t} : executed'[u] = executed[u]
        /\ \A u \in Transactions \ {t} : \A i \in 1..Statements :
             <<u, i>> \in applied' <=> <<u, i>> \in applied
    BY <1>1, <1>4, <1>6
  <2>5. TypeOK'
    BY <1>1, <1>6, <2>1, <2>2, <2>3, <2>4 DEF Holds, TypeOK, ServerSession
  <2>6. StageHolds'
    BY <1>1, <1>6, <2>1, <2>3, <2>4 DEF Holds, StageHolds, Holding
  <2>7. ClosedOf(t)'
    BY <1>6, <2>1 DEF ClosedOf
  <2>8. OpenOf(t)'
    BY <1>6 DEF OpenOf
  <2>9. AtomicOf(t)'
    <3>1. CASE stage'[t] = "ended" /\ UNCHANGED <<executed, applied>>
      BY <1>5, <3>1 DEF AtomicOf, Done
    <3>2. CASE /\ stage'[t] \in {"committed", "maybe"}
               /\ executed' = [executed EXCEPT ![t] = 1]
               /\ applied' = applied \cup {<<t, 1>>}
      <4>1. executed'[t] = 1 /\ 1..1 = {1} /\ 1 \in 1..Statements
        BY <1>1, <1>4, <3>2
      <4>2. Done(t)' = {1}
        BY <1>5, <3>2, <4>1 DEF Done
      <4>3. QED
        BY <3>2, <4>1, <4>2 DEF AtomicOf
    <3>3. QED
      BY <1>6, <3>1, <3>2
  <2>10. Serves'
    BY <1>1, <1>2, <1>6, <2>1, <2>2, <2>3, <2>4, <2>7, <2>8, <2>9, OthersKeep
  <2>11. QED
    BY <2>1, <2>5, <2>6, <2>10 DEF IInv, Holds
<1> HIDE DEF c
<1>7. CASE /\ session' = [session EXCEPT ![c] = SessionFor(c)]
           /\ applied' = IF SessionFor(c).open THEN applied ELSE applied \cup {<<t, 1>>}
           /\ executed' = [executed EXCEPT ![t] = 1]
           /\ result' = [result EXCEPT ![t] = c]
           /\ stage' = [stage EXCEPT ![t] = "committed"]
           /\ UNCHANGED <<pool, in_trans>>
  <2>1. /\ SessionFor(c) \in ServerSession /\ ~SessionFor(c).open /\ SessionFor(c).work = {}
    BY <1>3, <1>4, SessionTypes
  <2>2. /\ session'[c] = SessionFor(c) /\ result'[t] = c /\ stage'[t] = "committed"
        /\ lstObjectPtr_' = lstObjectPtr_
    BY <1>2, <1>4, <1>7 DEF pool
  <2>3. result' = [result EXCEPT ![t] = connection[t]]
    BY <1>7 DEF c
  <2>4. QED
    BY <1>4, <1>6, <1>7, <2>1, <2>2, <2>3
<1>8. CASE /\ session' = [session EXCEPT ![c] = NoSession]
           /\ applied' = applied \cup {<<t, 1>>}
           /\ executed' = [executed EXCEPT ![t] = 1]
           /\ stage' = [stage EXCEPT ![t] = "maybe"]
           /\ Restitute(c, {}) /\ UNCHANGED <<in_trans, result>>
  <2>1. /\ session'[c] = NoSession /\ stage'[t] = "maybe" /\ result'[t] = None
        /\ lstObjectPtr_' = IF result'[t] = c THEN lstObjectPtr_ ELSE <<c>> \o lstObjectPtr_
    BY <1>1, <1>2, <1>4, <1>8 DEF Restitute
  <2>2. QED
    BY <1>4, <1>6, <1>8, <2>1, SessionTypes
<1>9. CASE /\ QueryFails(c)
           /\ stage' = [stage EXCEPT ![t] = "ended"]
           /\ Restitute(c, {}) /\ UNCHANGED <<executed, applied, result>>
  <2>1. /\ stage'[t] = "ended" /\ result'[t] = None
        /\ lstObjectPtr_' = IF result'[t] = c THEN lstObjectPtr_ ELSE <<c>> \o lstObjectPtr_
    BY <1>1, <1>2, <1>4, <1>9 DEF Restitute
  <2>2. /\ session' = session /\ in_trans' \in [Connections -> BOOLEAN]
        /\ \A d \in Connections \ {c} : in_trans'[d] = in_trans[d]
    BY <1>4, <1>9 DEF QueryFails, server, ServerSession
  <2>3. session' = [session EXCEPT ![c] = session'[c]]
    BY <1>2, <1>4, <2>2
  <2>4. QED
    BY <1>3, <1>4, <1>6, <1>9, <2>1, <2>2, <2>3
<1>10. QED
  BY <1>7, <1>8, <1>9 DEF Query, c

Stages == {"new", "starting", "open", "unwinding", "unknown", "committed", "maybe", "ended"}

\* A step of a Transaction that keeps its connection.
LEMMA KeepsConnection ==
    ASSUME IInv, ~crash, NEW t \in Transactions, stage[t] \in Began,
           UNCHANGED <<lstObjectPtr_, cur_size_, up, connection>>, crash' \in BOOLEAN,
           \/ result' = result
           \/ result' = [result EXCEPT ![t] = connection[t]],
           NEW st \in Stages, stage' = [stage EXCEPT ![t] = st],
           st \in Began \/ (crash' /\ st \notin {"new", "starting"}),
           NEW ses \in ServerSession, session' = [session EXCEPT ![connection[t]] = ses],
           ~ses.open => ses.work = {},
           in_trans' \in [Connections -> BOOLEAN],
           \A d \in Connections \ {connection[t]} : in_trans'[d] = in_trans[d],
           NEW n \in 0..Statements, executed' = [executed EXCEPT ![t] = n],
           applied' \subseteq Transactions \X (1..Statements),
           \A u \in Transactions \ {t} : \A i \in 1..Statements :
               <<u, i>> \in applied' <=> <<u, i>> \in applied,
           OpenOf(t)', AtomicOf(t)'
    PROVE  IInv'
<1> DEFINE c == connection[t]
<1>1. Holds /\ stage[t] \in Holding
  BY DEF IInv, Began, Holding
<1>2. /\ c \in Connections /\ c # None /\ c \notin Pooled
      /\ \A u \in Transactions \ {t} : c \notin Handles(u)
  BY <1>1, HolderHas
<1>3. /\ lstObjectPtr_' \in Seq(Connections) /\ cur_size_' \in 0..max_size
      /\ connection' \in [Transactions -> Connections \cup {None}]
      /\ result' \in [Transactions -> Connections \cup {None}]
      /\ \A u \in Transactions \ {t} : result'[u] = result[u]
      /\ Exclusive' /\ SameConnection' /\ Counted'
      /\ Pooled' = Pooled /\ Pooled \subseteq Connections
  BY <1>1, HolderKeeps
<1> HIDE DEF c
<1>4. /\ session' \in [Connections -> ServerSession] /\ session'[c] = ses
      /\ \A d \in Connections \ {c} : session'[d] = session[d] /\ in_trans'[d] = in_trans[d]
  BY <1>1, <1>2, SessionTypes DEF c
<1>5. /\ stage' \in [Transactions -> Stages] /\ stage'[t] = st
      /\ \A u \in Transactions \ {t} : stage'[u] = stage[u]
      /\ executed' \in [Transactions -> 0..Statements]
      /\ \A u \in Transactions \ {t} : executed'[u] = executed[u]
  BY <1>1 DEF Holds, TypeOK, Stages
<1>6. TypeOK'
  BY <1>1, <1>3, <1>4, <1>5 DEF Holds, TypeOK, ServerSession, Stages
<1>7. StageHolds'
  <2>1. connection'[t] # None /\ connection' = connection
    BY <1>2 DEF c
  <2>2. st \notin {"new", "starting"}
    BY DEF Began
  <2>3. QED
    BY <1>1, <1>3, <1>5, <2>1, <2>2 DEF Holds, StageHolds, Holding
<1>8. ClosedOf(t)'
  BY <1>5 DEF ClosedOf
<1>9. Serves'
  BY <1>2, <1>3, <1>4, <1>5, <1>8, OthersKeep
<1>10. QED
  BY <1>3, <1>6, <1>7, <1>9 DEF IInv, Holds

\* A step of a Transaction that lets its connection go, rolled back or committed.
LEMMA LetsConnectionGo ==
    ASSUME IInv, ~crash, NEW t \in Transactions, stage[t] \in Began,
           UNCHANGED <<cur_size_, up, result, executed, crash>>,
           connection' = [connection EXCEPT ![t] = None],
           Restitute(connection[t], {result[t]}),
           NEW st \in {"committed", "maybe", "ended"}, stage' = [stage EXCEPT ![t] = st],
           session' = [session EXCEPT ![connection[t]] = Fresh],
           in_trans' = [in_trans EXCEPT ![connection[t]] = FALSE],
           applied' \subseteq Transactions \X (1..Statements),
           \A u \in Transactions \ {t} : \A i \in 1..Statements :
               <<u, i>> \in applied' <=> <<u, i>> \in applied,
           AtomicOf(t)'
    PROVE  IInv'
<1> DEFINE c == connection[t]
<1>1. Holds /\ stage[t] \in Holding
  BY DEF IInv, Began, Holding
<1>2. /\ c \in Connections /\ c # None /\ c \notin Pooled
      /\ \A u \in Transactions \ {t} : c \notin Handles(u)
  BY <1>1, HolderHas
<1>3. lstObjectPtr_' = IF result'[t] = c THEN lstObjectPtr_ ELSE <<c>> \o lstObjectPtr_
  BY <1>2 DEF Restitute
<1>4. /\ lstObjectPtr_' \in Seq(Connections) /\ cur_size_' \in 0..max_size
      /\ connection' \in [Transactions -> Connections \cup {None}]
      /\ result' \in [Transactions -> Connections \cup {None}]
      /\ \A u \in Transactions \ {t} :
           connection'[u] = connection[u] /\ result'[u] = result[u]
      /\ Exclusive' /\ SameConnection' /\ Counted' /\ connection'[t] = None
      /\ Pooled' \subseteq (Pooled \cup {c}) \cap Connections
      /\ Handles(t)' \subseteq {c}
  BY <1>1, <1>3, HolderLetsGo
<1> HIDE DEF c
<1>5. /\ session' \in [Connections -> ServerSession] /\ session'[c] = Fresh
      /\ in_trans' \in [Connections -> BOOLEAN]
      /\ \A d \in Connections \ {c} : session'[d] = session[d] /\ in_trans'[d] = in_trans[d]
  <2>1. /\ session \in [Connections -> ServerSession] /\ Fresh \in ServerSession
        /\ in_trans \in [Connections -> BOOLEAN]
    BY <1>1, SessionTypes DEF Holds, TypeOK
  <2>2. QED
    BY <1>2, <2>1 DEF c
<1>6. /\ stage' \in [Transactions -> Stages] /\ stage'[t] = st
      /\ \A u \in Transactions \ {t} : stage'[u] = stage[u]
  BY <1>1 DEF Holds, TypeOK, Stages
<1>7. TypeOK'
  BY <1>1, <1>4, <1>5, <1>6 DEF Holds, TypeOK, ServerSession, Stages
<1>8. StageHolds'
  BY <1>1, <1>4, <1>6 DEF Holds, StageHolds, Holding
<1>9. ClosedOf(t)'
  BY <1>4, <1>5, SessionTypes DEF ClosedOf
<1>10. OpenOf(t)'
  BY <1>6 DEF OpenOf
<1>11. Serves'
  <2>1. \A u \in Transactions \ {t} :
          /\ stage'[u] = stage[u] /\ executed'[u] = executed[u]
          /\ connection'[u] = connection[u] /\ result'[u] = result[u]
          /\ \A i \in 1..Statements : <<u, i>> \in applied' <=> <<u, i>> \in applied
    BY <1>4, <1>6
  <2>2. ~session'[c].open /\ session'[c].work = {}
    BY <1>5, SessionTypes
  <2>3. QED
    BY <1>2, <1>4, <1>5, <1>9, <1>10, <2>1, <2>2, OthersKeep
<1>12. QED
  BY <1>4, <1>7, <1>8, <1>11 DEF IInv, Holds

\* An open Transaction has its connection, its work and nothing in the database.
LEMMA OpenHas ==
    ASSUME IInv, NEW t \in Transactions, stage[t] = "open"
    PROVE  LET c == connection[t]
           IN  /\ c \in Connections /\ session[c] \in ServerSession
               /\ Reaches(c) <=> session[c].alive
               /\ session[c].alive =>
                    session[c].open /\ session[c].work = {<<t, i>> : i \in 1..executed[t]}
               /\ executed[t] \in 0..Statements /\ Statements \in Nat
               /\ applied \subseteq Transactions \X (1..Statements)
               /\ Done(t) = {}
<1>1. /\ connection[t] \in Connections /\ session \in [Connections -> ServerSession]
      /\ executed[t] \in 0..Statements /\ Statements \in Nat
      /\ applied \subseteq Transactions \X (1..Statements)
  <2>1. Holds /\ stage[t] \in Holding
    BY DEF IInv, Holding
  <2>2. QED
    BY <2>1, HolderHas, SessionTypes, TransactionAssumption
       DEF Holds, TypeOK, TransactionAssumption
<1>2. /\ in_trans[connection[t]]
      /\ session[connection[t]].alive =>
           /\ session[connection[t]].open
           /\ session[connection[t]].work = {<<t, i>> : i \in 1..executed[t]}
  BY DEF IInv, Serves, OpenOf
<1>3. Done(t) = {}
  BY DEF IInv, Serves, AtomicOf
<1>4. QED
  BY <1>1, <1>2, <1>3 DEF Reaches

LEMMA QueryFailsTypes ==
    ASSUME Holds, NEW c \in Connections, QueryFails(c)
    PROVE  /\ UNCHANGED <<up, session>> /\ in_trans' \in [Connections -> BOOLEAN]
           /\ \A d \in Connections \ {c} : in_trans'[d] = in_trans[d]
           /\ session[c].alive => in_trans'[c] = in_trans[c]
<1>1. /\ session \in [Connections -> ServerSession] /\ session[c] \in ServerSession
      /\ in_trans \in [Connections -> BOOLEAN]
  BY SessionTypes DEF Holds, TypeOK
<1>2. session[c].alive \in BOOLEAN
  BY <1>1 DEF ServerSession
<1>3. QED
  BY <1>1, <1>2 DEF QueryFails, server

LEMMA WithWork ==
    ASSUME NEW r \in ServerSession, NEW w
    PROVE  [r EXCEPT !.work = w] = [alive |-> r.alive, open |-> r.open, work |-> w]
BY DEF ServerSession

LEMMA ExecuteKeeps ==
    ASSUME IInv, ~crash, NEW t \in Transactions, Execute(t)
    PROVE  IInv'
<1> DEFINE c == connection[t]
<1> DEFINE n == executed[t]
<1>1. /\ Holds /\ stage[t] = "open" /\ n < Statements
      /\ UNCHANGED <<lstObjectPtr_, cur_size_, up, connection, crash>>
  BY DEF Execute, IInv, QueryFails, server, pool
<1>2. /\ c \in Connections /\ session[c] \in ServerSession
      /\ Reaches(c) <=> session[c].alive
      /\ session[c].alive => session[c].open /\ session[c].work = {<<t, i>> : i \in 1..n}
      /\ n \in 0..Statements /\ Statements \in Nat
      /\ applied \subseteq Transactions \X (1..Statements)
      /\ Done(t) = {}
  BY <1>1, OpenHas
<1>3. /\ stage \in [Transactions -> Stages] /\ in_trans \in [Connections -> BOOLEAN]
      /\ session \in [Connections -> ServerSession]
      /\ executed \in [Transactions -> 0..Statements]
      /\ crash' \in BOOLEAN
  BY <1>1, SessionTypes DEF Holds, TypeOK, Stages
<1>4. in_trans[c]
  BY <1>1 DEF IInv, Serves, OpenOf
<1> HIDE DEF c, n
<1>5. CASE /\ Reaches(c)
           /\ session' = [session EXCEPT ![c] =
                    [SessionFor(c) EXCEPT !.work =
                        IF SessionFor(c).open THEN @ \cup {<<t, n + 1>>} ELSE @]]
           /\ executed' = [executed EXCEPT ![t] = @ + 1]
           /\ applied' = IF SessionFor(c).open THEN applied ELSE applied \cup {<<t, n + 1>>}
           /\ result' = [result EXCEPT ![t] = c]
           /\ UNCHANGED <<in_trans, stage>>
  <2> DEFINE ses == [alive |-> session[c].alive, open |-> session[c].open,
                     work |-> session[c].work \cup {<<t, n + 1>>}]
  <2>1. SessionFor(c) = session[c] /\ session[c].open /\ session[c].alive
    BY <1>2, <1>5, SessionTypes
  <2>2. /\ session' = [session EXCEPT ![c] = ses] /\ applied' = applied
        /\ executed' = [executed EXCEPT ![t] = n + 1]
    <3>1. [session[c] EXCEPT !.work = @ \cup {<<t, n + 1>>}] = ses
      BY <1>2, WithWork
    <3>2. session' = [session EXCEPT ![c] =
                        [session[c] EXCEPT !.work = @ \cup {<<t, n + 1>>}]]
      BY <1>5, <2>1
    <3>3. applied' = applied
      BY <1>5, <2>1
    <3>4. executed' = [executed EXCEPT ![t] = n + 1]
      BY <1>3, <1>5 DEF n
    <3>5. QED
      BY <3>1, <3>2, <3>3, <3>4
  <2>3. n + 1 \in 1..Statements /\ n + 1 \in 0..Statements
    BY <1>1, <1>2
  <2>4. ses \in ServerSession /\ ses.open
    BY <1>2, <2>1, <2>3 DEF ServerSession
  <2>5. ses.work = {<<t, i>> : i \in 1..(n + 1)}
    <3>1. 1..(n + 1) = 1..n \cup {n + 1}
      BY <1>2
    <3>2. QED
      BY <1>2, <2>1, <3>1
  <2> HIDE DEF ses
  <2>6. OpenOf(t)'
    <3>1. /\ connection'[t] = c /\ session'[c] = ses /\ executed'[t] = n + 1
          /\ in_trans'[c]
      BY <1>1, <1>2, <1>3, <1>4, <1>5, <2>2 DEF c
    <3>2. QED
      BY <2>4, <2>5, <3>1 DEF OpenOf
  <2>7. AtomicOf(t)'
    BY <1>1, <1>2, <1>5, <2>2 DEF AtomicOf, Done
  <2>8. stage' = [stage EXCEPT ![t] = "open"] /\ "open" \in Began /\ "open" \in Stages
    BY <1>1, <1>3, <1>5 DEF Began, Stages
  <2>9. result' = [result EXCEPT ![t] = connection[t]]
    BY <1>5 DEF c
  <2>10. QED
    BY <1>1, <1>2, <1>3, <1>5, <2>2, <2>3, <2>4, <2>6, <2>7, <2>8, <2>9, KeepsConnection DEF c
<1>6. CASE /\ QueryFails(c)
           /\ stage' = [stage EXCEPT ![t] = "unwinding"]
           /\ UNCHANGED <<executed, applied, result>>
  <2>1. /\ UNCHANGED <<up, session>> /\ in_trans' \in [Connections -> BOOLEAN]
        /\ \A d \in Connections \ {c} : in_trans'[d] = in_trans[d]
    BY <1>1, <1>2, <1>6, QueryFailsTypes
  <2>2. /\ session' = [session EXCEPT ![c] = session[c]]
        /\ ~session[c].open => session[c].work = {}
        /\ executed' = [executed EXCEPT ![t] = n]
    BY <1>2, <1>3, <1>6, <2>1 DEF n, IInv, Serves, NoWorkUnopened
  <2>3. stage'[t] = "unwinding" /\ "unwinding" \in Began /\ "unwinding" \in Stages
    BY <1>3, <1>6 DEF Began, Stages
  <2>4. OpenOf(t)' /\ AtomicOf(t)'
    BY <1>2, <1>6, <2>3 DEF OpenOf, AtomicOf, Done
  <2>5. stage[t] \in Began
    BY <1>1 DEF Began
  <2>6. QED
    BY <1>1, <1>2, <1>3, <1>6, <2>1, <2>2, <2>3, <2>4, <2>5, KeepsConnection DEF c
<1>7. QED
  BY <1>5, <1>6 DEF Execute, c, n

LEMMA LeaveKeeps ==
    ASSUME IInv, ~crash, NEW t \in Transactions, Leave(t)
    PROVE  IInv'
<1>1. /\ Holds /\ stage[t] = "open" /\ stage' = [stage EXCEPT ![t] = "unwinding"]
      /\ UNCHANGED <<lstObjectPtr_, cur_size_, up, session, in_trans, connection, result,
                     executed, applied, crash>>
  BY DEF Leave, IInv, server, pool
<1>2. /\ connection[t] \in Connections /\ session[connection[t]] \in ServerSession
      /\ executed[t] \in 0..Statements
      /\ applied \subseteq Transactions \X (1..Statements) /\ Done(t) = {}
  BY <1>1, OpenHas
<1>3. /\ stage \in [Transactions -> Stages] /\ in_trans \in [Connections -> BOOLEAN]
      /\ session \in [Connections -> ServerSession]
      /\ executed \in [Transactions -> 0..Statements]
      /\ crash' \in BOOLEAN
  BY <1>1, SessionTypes DEF Holds, TypeOK, Stages
<1>4. /\ stage'[t] = "unwinding" /\ "unwinding" \in Began /\ "unwinding" \in Stages
      /\ stage[t] \in Began
  BY <1>1, <1>3 DEF Began, Stages
<1>5. OpenOf(t)' /\ AtomicOf(t)'
  BY <1>1, <1>2, <1>4 DEF OpenOf, AtomicOf, Done
<1>6. /\ session' = [session EXCEPT ![connection[t]] = session[connection[t]]]
      /\ ~session[connection[t]].open => session[connection[t]].work = {}
      /\ executed' = [executed EXCEPT ![t] = executed[t]]
  BY <1>1, <1>2, <1>3 DEF IInv, Serves, NoWorkUnopened
<1>7. QED
  BY <1>1, <1>2, <1>3, <1>4, <1>5, <1>6, KeepsConnection

LEMMA CommitKeeps ==
    ASSUME IInv, ~crash, NEW t \in Transactions, Commit(t)
    PROVE  IInv'
<1> DEFINE c == connection[t]
<1> DEFINE n == executed[t]
<1>1. /\ Holds /\ stage[t] = "open" /\ stage[t] \in Began
      /\ UNCHANGED <<cur_size_, up, result, executed, crash>>
  BY DEF Commit, IInv, QueryFails, server, pool, Began
<1>2. /\ c \in Connections /\ session[c] \in ServerSession
      /\ Reaches(c) <=> session[c].alive
      /\ session[c].alive => session[c].open /\ session[c].work = {<<t, i>> : i \in 1..n}
      /\ n \in 0..Statements /\ Statements \in Nat
      /\ applied \subseteq Transactions \X (1..Statements)
      /\ Done(t) = {}
  BY <1>1, OpenHas
<1>3. /\ stage \in [Transactions -> Stages] /\ in_trans \in [Connections -> BOOLEAN]
      /\ session \in [Connections -> ServerSession]
      /\ executed \in [Transactions -> 0..Statements]
      /\ crash' \in BOOLEAN /\ executed' = [executed EXCEPT ![t] = n]
  BY <1>1, SessionTypes DEF Holds, TypeOK, Stages
<1> HIDE DEF c, n
\* The server commits the work of t, all of it and nothing else.
<1>4. ASSUME session[c].alive, applied' = applied \cup session[c].work
      PROVE  /\ applied' \subseteq Transactions \X (1..Statements)
             /\ \A u \in Transactions \ {t} : \A i \in 1..Statements :
                  <<u, i>> \in applied' <=> <<u, i>> \in applied
             /\ Done(t)' = 1..n
  <2>1. session[c].work = {<<t, i>> : i \in 1..n} /\ 1..n \subseteq 1..Statements
    BY <1>2, <1>4
  <2>2. applied' = applied \cup {<<t, i>> : i \in 1..n}
    BY <1>4, <2>1
  <2>3. Done(t)' = 1..n
    BY <1>2, <2>1, <2>2 DEF Done
  <2>4. applied' \subseteq Transactions \X (1..Statements)
    BY <1>2, <2>1, <2>2
  <2>5. \A u \in Transactions \ {t} : \A i \in 1..Statements :
                  <<u, i>> \in applied' <=> <<u, i>> \in applied
    BY <2>2
  <2>6. QED
    BY <2>3, <2>4, <2>5
<1>5. executed'[t] = n
  BY <1>1 DEF n
<1>6. CASE /\ Reaches(c)
           /\ applied' = applied \cup session[c].work
           /\ session' = [session EXCEPT ![c] = Fresh]
           /\ in_trans' = [in_trans EXCEPT ![c] = FALSE]
           /\ stage' = [stage EXCEPT ![t] = "committed"]
           /\ connection' = [connection EXCEPT ![t] = None]
           /\ Restitute(c, {result[t]})
  <2>1. stage'[t] = "committed"
    BY <1>3, <1>6
  <2>2. AtomicOf(t)'
    BY <1>2, <1>4, <1>5, <1>6, <2>1 DEF AtomicOf
  <2>3. QED
    BY <1>1, <1>2, <1>4, <1>6, <2>2, LetsConnectionGo DEF c
<1>7. CASE /\ session[c].alive
           /\ applied' = applied \cup session[c].work
           /\ session' = [session EXCEPT ![c] = NoSession]
           /\ in_trans' = [in_trans EXCEPT ![c] = FALSE]
           /\ stage' = [stage EXCEPT ![t] = "unknown"]
           /\ UNCHANGED <<pool, connection>>
  <2>1. stage'[t] = "unknown" /\ "unknown" \in Began /\ "unknown" \in Stages
    BY <1>3, <1>7 DEF Began, Stages
  <2>2. OpenOf(t)' /\ AtomicOf(t)'
    BY <1>4, <1>5, <1>7, <2>1 DEF OpenOf, AtomicOf
  <2>3. /\ in_trans' \in [Connections -> BOOLEAN]
        /\ \A d \in Connections \ {c} : in_trans'[d] = in_trans[d]
    BY <1>3, <1>7
  <2>4. UNCHANGED <<lstObjectPtr_, cur_size_, connection>>
    BY <1>7 DEF pool
  <2>5. QED
    BY <1>1, <1>2, <1>3, <1>4, <1>7, <2>1, <2>2, <2>3, <2>4, SessionTypes, KeepsConnection
       DEF c
<1>8. CASE /\ QueryFails(c)
           /\ stage' = [stage EXCEPT ![t] = "unwinding"]
           /\ UNCHANGED <<pool, connection, applied>>
  <2>1. /\ UNCHANGED <<up, session>> /\ in_trans' \in [Connections -> BOOLEAN]
        /\ \A d \in Connections \ {c} : in_trans'[d] = in_trans[d]
    BY <1>1, <1>2, <1>8, QueryFailsTypes
  <2>2. /\ session' = [session EXCEPT ![c] = session[c]]
        /\ ~session[c].open => session[c].work = {}
    BY <1>2, <1>3, <2>1 DEF IInv, Serves, NoWorkUnopened
  <2>3. stage'[t] = "unwinding" /\ "unwinding" \in Began /\ "unwinding" \in Stages
    BY <1>3, <1>8 DEF Began, Stages
  <2>4. OpenOf(t)' /\ AtomicOf(t)'
    BY <1>2, <1>8, <2>3 DEF OpenOf, AtomicOf, Done
  <2>5. UNCHANGED <<lstObjectPtr_, cur_size_, connection>>
    BY <1>8 DEF pool
  <2>6. QED
    BY <1>1, <1>2, <1>3, <1>8, <2>1, <2>2, <2>3, <2>4, <2>5, KeepsConnection DEF c
<1>9. QED
  BY <1>6, <1>7, <1>8 DEF Commit, c

LEMMA DestroyKeeps ==
    ASSUME IInv, ~crash, NEW t \in Transactions, Destroy(t)
    PROVE  IInv'
<1> DEFINE c == connection[t]
<1> DEFINE st == IF stage[t] = "unknown" THEN "maybe" ELSE "ended"
<1>1. /\ Holds /\ stage[t] \in {"unwinding", "unknown"} /\ stage[t] \in Began
      /\ stage[t] \in Holding
      /\ UNCHANGED <<cur_size_, up, result, executed, applied>>
  BY DEF Destroy, IInv, QueryFails, server, pool, Began, Holding
<1>2. /\ c \in Connections /\ stage \in [Transactions -> Stages]
      /\ session \in [Connections -> ServerSession] /\ in_trans \in [Connections -> BOOLEAN]
      /\ executed \in [Transactions -> 0..Statements]
      /\ applied \subseteq Transactions \X (1..Statements)
  BY <1>1, SessionTypes, HolderHas DEF Holds, TypeOK, Stages
<1>3. /\ stage' = [stage EXCEPT ![t] = st] /\ stage'[t] = st
      /\ st \in {"maybe", "ended"} /\ st \in Stages
  BY <1>1, <1>2 DEF Destroy, Stages
<1>4. AtomicOf(t)' /\ OpenOf(t)'
  <2>1. stage[t] = "unknown" => Done(t) \in {{}, 1..executed[t]}
    BY DEF IInv, Serves, AtomicOf
  <2>2. stage[t] = "unwinding" => Done(t) = {}
    BY DEF IInv, Serves, AtomicOf
  <2>3. QED
    BY <1>1, <1>3, <2>1, <2>2 DEF AtomicOf, OpenOf, Done
<1> HIDE DEF c, st
<1>5. CASE /\ session' = [session EXCEPT ![c] = Fresh]
           /\ in_trans' = [in_trans EXCEPT ![c] = FALSE]
           /\ connection' = [connection EXCEPT ![t] = None]
           /\ Restitute(c, {result[t]})
           /\ UNCHANGED crash
  <2>1. st \in {"committed", "maybe", "ended"}
    BY <1>3
  <2>2. QED
    BY <1>1, <1>2, <1>3, <1>4, <1>5, <2>1, LetsConnectionGo DEF c
<1>6. CASE /\ QueryFails(c)
           /\ crash' = TRUE
           /\ UNCHANGED <<pool, connection>>
  <2>1. /\ UNCHANGED <<up, session>> /\ in_trans' \in [Connections -> BOOLEAN]
        /\ \A d \in Connections \ {c} : in_trans'[d] = in_trans[d]
    BY <1>1, <1>2, <1>6, QueryFailsTypes
  <2>2. /\ session' = [session EXCEPT ![c] = session[c]] /\ session[c] \in ServerSession
        /\ ~session[c].open => session[c].work = {}
        /\ executed' = [executed EXCEPT ![t] = executed[t]] /\ executed[t] \in 0..Statements
    BY <1>1, <1>2, <2>1 DEF IInv, Serves, NoWorkUnopened
  <2>3. UNCHANGED <<lstObjectPtr_, cur_size_, connection>>
    BY <1>6 DEF pool
  <2>4. QED
    BY <1>1, <1>2, <1>3, <1>4, <1>6, <2>1, <2>2, <2>3, KeepsConnection DEF c
<1>7. QED
  BY <1>1, <1>5, <1>6 DEF Destroy, c

LEMMA DropResultKeeps ==
    ASSUME IInv, ~crash, NEW t \in Transactions, DropResult(t)
    PROVE  IInv'
<1> DEFINE c == result[t]
<1>1. /\ Holds /\ c # None /\ result' = [result EXCEPT ![t] = None]
      /\ UNCHANGED <<cur_size_, up, session, in_trans, stage, connection, executed, applied, crash>>
      /\ connection \in [Transactions -> Connections \cup {None}]
      /\ result \in [Transactions -> Connections \cup {None}]
      /\ lstObjectPtr_' = IF c = None \/ c \in {connection[t]} THEN lstObjectPtr_
                          ELSE <<c>> \o lstObjectPtr_
  BY DEF DropResult, Restitute, IInv, Holds, TypeOK, server
<1>2. /\ c \in Connections /\ c \in Handles(t) /\ connection[t] \in {None, c}
      /\ c \in Held /\ c \notin Pooled
      /\ \A u \in Transactions \ {t} : c \notin Handles(u)
  <2>1. c \in Connections /\ c \in Handles(t) /\ c \in Held
    BY <1>1 DEF Handles, Held
  <2>2. connection[t] \in {None, c}
    BY <1>1 DEF Holds, SameConnection
  <2>3. c \notin Pooled
    BY <1>1, <2>1 DEF Holds, Exclusive
  <2>4. \A u \in Transactions \ {t} : c \notin Handles(u)
    BY <1>1, <2>1 DEF Holds, Exclusive
  <2>5. QED
    BY <2>1, <2>2, <2>3, <2>4
<1>3. /\ result' \in [Transactions -> Connections \cup {None}] /\ result'[t] = None
      /\ \A u \in Transactions \ {t} : result'[u] = result[u]
  BY <1>1
<1>4. Handles(t)' = {connection[t]} \ {None} /\ Handles(t)' \subseteq Handles(t)
  BY <1>1, <1>3 DEF Handles
<1> HIDE DEF c
<1>5. \/ connection[t] = c /\ lstObjectPtr_' = lstObjectPtr_
      \/ connection[t] = None /\ lstObjectPtr_' = <<c>> \o lstObjectPtr_
         /\ c \in Handles(t) \ Handles(t)'
  BY <1>1, <1>2, <1>4
<1>6. /\ lstObjectPtr_' \in Seq(Connections) /\ Exclusive' /\ SameConnection' /\ Counted'
      /\ Pooled' \subseteq Pooled \cup (Handles(t) \ Handles(t)')
  <2>1. \/ lstObjectPtr_' = lstObjectPtr_
        \/ \E d \in Handles(t) \ Handles(t)' : lstObjectPtr_' = <<d>> \o lstObjectPtr_
    BY <1>5
  <2>2. connection' \in [Transactions -> Connections \cup {None}]
    BY <1>1
  <2>3. QED
    BY <1>1, <1>3, <1>4, <2>1, <2>2, HandlesShrink
<1>7. TypeOK' /\ StageHolds'
  BY <1>1, <1>3, <1>6 DEF Holds, TypeOK, StageHolds, Holding
<1>8. Handles(t) \subseteq {c}
  BY <1>2 DEF Handles, c
<1>9. Pooled' \subseteq (Pooled \cup {c}) \cap Connections
  <2>1. Pooled' \subseteq Connections
    BY <1>6 DEF Pooled
  <2>2. QED
    BY <2>1, <1>6, <1>8
<1>10. c \in Pooled' => ~session'[c].open
  <2> SUFFICES ASSUME c \in Pooled' PROVE ~session[c].open
    BY <1>1
  <2>1. connection[t] = None
    BY <1>1, <1>2, <1>5 DEF Pooled
  <2>2. stage[t] \notin Began
    BY <1>1, <2>1 DEF Holds, StageHolds, Holding, Began
  <2>3. QED
    BY <1>2, <2>2 DEF IInv, Serves, ClosedOf
<1>11. ClosedOf(t)' /\ OpenOf(t)' /\ AtomicOf(t)'
  <2>1. ClosedOf(t) /\ OpenOf(t) /\ AtomicOf(t)
    BY DEF IInv, Serves
  <2>2. QED
    BY <1>1, <1>4, <2>1 DEF ClosedOf, OpenOf, AtomicOf, Done
<1>12. ~session'[c].open => session'[c].work = {}
  BY <1>1, <1>2 DEF IInv, Serves, NoWorkUnopened
<1>13. Serves'
  BY <1>1, <1>2, <1>3, <1>9, <1>10, <1>11, <1>12, OthersKeep
<1>14. QED
  BY <1>6, <1>7, <1>13 DEF IInv, Holds

\* Connections are lost, the database goes away or comes back.
LEMMA OutsideKeeps ==
    ASSUME IInv, up' \in BOOLEAN,
           session' \in [Connections -> ServerSession],
           \A d \in Connections : session'[d] \in {session[d], NoSession},
           UNCHANGED <<lstObjectPtr_, cur_size_, in_trans, stage, connection, result,
                       executed, applied, crash>>
    PROVE  IInv'
<1>1. Pooled' = Pooled /\ Held' = Held /\ Created' = Created
      /\ \A t \in Transactions : Handles(t)' = Handles(t) /\ Done(t)' = Done(t)
  BY DEF Pooled, Held, Created, Handles, Done
<1>2. TypeOK'
  BY DEF IInv, Holds, TypeOK, ServerSession
<1>3. Exclusive' /\ SameConnection' /\ Counted' /\ StageHolds'
  BY <1>1 DEF IInv, Holds, Exclusive, SameConnection, Counted, StageHolds
<1>4. NoWorkUnopened' /\ CleanInPool'
  <2>1. \A d \in Connections :
          \/ session'[d] = session[d]
          \/ ~session'[d].open /\ session'[d].work = {}
    BY SessionTypes
  <2>2. NoWorkUnopened /\ CleanInPool
    BY DEF IInv, Serves
  <2>3. Pooled \subseteq Connections
    BY DEF IInv, Holds, TypeOK, Pooled
  <2>4. NoWorkUnopened'
    BY <2>1, <2>2 DEF NoWorkUnopened
  <2>5. CleanInPool'
    BY <1>1, <2>1, <2>2, <2>3 DEF CleanInPool
  <2>6. QED
    BY <2>4, <2>5
<1>5. ASSUME NEW t \in Transactions
      PROVE  ClosedOf(t)' /\ OpenOf(t)' /\ AtomicOf(t)'
  <2>1. ClosedOf(t) /\ OpenOf(t) /\ AtomicOf(t)
    BY DEF IInv, Serves
  <2>2. ClosedOf(t)'
    BY <1>1, <2>1, SessionTypes DEF ClosedOf
  <2>3. OpenOf(t)'
    <3> SUFFICES ASSUME stage[t] = "open" PROVE OpenOf(t)'
      BY DEF OpenOf
    <3>1. connection[t] \in Connections
      BY OpenHas
    <3>2. QED
      BY <2>1, <3>1, SessionTypes DEF OpenOf
  <2>4. AtomicOf(t)'
    BY <1>1, <2>1 DEF AtomicOf
  <2>5. QED
    BY <2>2, <2>3, <2>4
<1>6. QED
  BY <1>2, <1>3, <1>4, <1>5 DEF IInv, Holds, Serves

LEMMA InitHolds == Init => IInv
<1> SUFFICES ASSUME Init PROVE IInv
  OBVIOUS
<1> DEFINE first == CHOOSE c \in Connections : TRUE
<1>1. first \in Connections
  <2>1. Connections # {}
    BY TransactionAssumption, FS_EmptySet DEF TransactionAssumption
  <2>2. QED
    BY <2>1
<1>2. /\ cur_size_ = 1 /\ lstObjectPtr_ = <<first>> /\ up = TRUE
      /\ session = [c \in Connections |-> IF c = first THEN Fresh ELSE NoSession]
  BY DEF Init
<1> HIDE DEF first
<1>3. /\ \A t \in Transactions :
           /\ stage[t] = "new" /\ connection[t] = None /\ result[t] = None
           /\ executed[t] = 0 /\ Handles(t) = {}
      /\ applied = {} /\ crash = FALSE /\ \A c \in Held : c = None
  BY DEF Init, Handles, Held
<1>4. Pooled = {first} /\ \A i \in DOMAIN lstObjectPtr_ : i = 1
  BY <1>2 DEF Pooled
<1>5. TypeOK
  <2>1. lstObjectPtr_ \in Seq(Connections) /\ cur_size_ \in 0..max_size /\ Statements \in Nat
    BY <1>1, <1>2, TransactionAssumption DEF TransactionAssumption
  <2>2. session \in [Connections -> ServerSession]
    BY <1>2, SessionTypes
  <2>3. QED
    <3>1. /\ up \in BOOLEAN /\ in_trans \in [Connections -> BOOLEAN] /\ crash \in BOOLEAN
          /\ stage \in [Transactions -> Stages]
          /\ connection \in [Transactions -> Connections \cup {None}]
          /\ result \in [Transactions -> Connections \cup {None}]
      BY DEF Init, Stages
    <3>2. executed \in [Transactions -> 0..Statements] /\ applied \subseteq Transactions \X (1..Statements)
      BY <2>1 DEF Init
    <3>3. QED
      BY <2>1, <2>2, <3>1, <3>2 DEF TypeOK, ServerSession, Stages
<1>6. Exclusive /\ SameConnection /\ StageHolds
  BY <1>1, <1>3, <1>4, NoneIsNoConnection DEF Exclusive, SameConnection, StageHolds, Holding
<1>7. Counted
  <2>1. Created \subseteq {first}
    BY <1>3, <1>4, NoneIsNoConnection DEF Created
  <2>2. IsFiniteSet({first}) /\ Cardinality({first}) = 1
    BY FS_Singleton
  <2>3. Cardinality(Created) <= 1
    BY <2>1, <2>2, FS_Subset
  <2>4. QED
    BY <1>2, <2>3 DEF Counted
<1>8. NoWorkUnopened /\ CleanInPool
  BY <1>1, <1>2, <1>4, SessionTypes DEF NoWorkUnopened, CleanInPool
<1>9. \A t \in Transactions : ClosedOf(t) /\ OpenOf(t) /\ AtomicOf(t)
  BY <1>3 DEF ClosedOf, OpenOf, AtomicOf, Done
<1>10. QED
  BY <1>5, <1>6, <1>7, <1>8, <1>9 DEF IInv, Holds, Serves

LEMMA NextKeeps == IInv /\ [Next]_vars => IInv'
<1> SUFFICES ASSUME IInv, [Next]_vars PROVE IInv'
  OBVIOUS
<1>1. /\ session \in [Connections -> ServerSession] /\ up \in BOOLEAN
      /\ NoSession \in ServerSession
  BY SessionTypes DEF IInv, Holds, TypeOK
<1>2. ASSUME NEW t \in Transactions, Handler(t), ~crash PROVE IInv'
  BY <1>2, GetConnectionKeeps, StartKeeps, QueryKeeps, ExecuteKeeps, CommitKeeps,
     LeaveKeeps, DestroyKeeps, DropResultKeeps DEF Handler
<1>3. ASSUME NEW c \in Connections, Lose(c) PROVE IInv'
  BY <1>1, <1>3, OutsideKeeps DEF Lose, pool
<1>4. CASE GoesDown
  BY <1>1, <1>4, OutsideKeeps DEF GoesDown, pool
<1>5. CASE ComesBack
  BY <1>1, <1>5, OutsideKeeps DEF ComesBack, pool
<1>6. CASE UNCHANGED vars
  BY <1>1, <1>6, OutsideKeeps DEF vars, pool, server
<1>7. QED
  BY <1>2, <1>3, <1>4, <1>5, <1>6 DEF Next

LEMMA Invariant == Spec => []IInv
<1>1. QED
  BY InitHolds, NextKeeps, PTL DEF Spec

\* The variables keep their types, and the pool never creates more connections
\* than max_size.
THEOREM TypesAreKept == Spec => []TypeOK
<1>1. IInv => TypeOK
  BY DEF IInv, Holds
<1>2. QED
  BY <1>1, Invariant, PTL

\* Pool::Create and Pool::Destroy with the copies of the shared_ptr: however
\* many handlers and connections there are, two handlers never share one.
THEOREM NobodyShares == Spec => []Exclusive
<1>1. IInv => Exclusive
  BY DEF IInv, Holds
<1>2. QED
  BY <1>1, Invariant, PTL

\* Transaction::Commit and ~Transaction: whatever connections are lost, the
\* statements of a Transaction are in the database together or not at all.
THEOREM AllOrNothing == Spec => []Atomic
<1>1. IInv => Atomic
  BY DEF IInv, Serves, AtomicOf, Done, Atomic
<1>2. QED
  BY <1>1, Invariant, PTL

\* ~Transaction before Pool::Destroy: a connection in the pool has no open
\* transaction for the next handler to write into.
THEOREM PoolIsClean == Spec => []CleanInPool
<1>1. IInv => CleanInPool
  BY DEF IInv, Serves
<1>2. QED
  BY <1>1, Invariant, PTL
=============================================================================
