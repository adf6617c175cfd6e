---------------------------- MODULE RouterProofs ----------------------------
(***************************************************************************)
(* Proofs about Router: routes lead to links that are up, and the three    *)
(* tables hold the same sessions, for any number of servers, sessions,     *)
(* users and requests.                                                     *)
(***************************************************************************)
EXTENDS Router, TLAPS

Routed == {uni[a] : a \in Addresses} \ {None}

\* A link has another end, and the address a session answers with is that of
\* the other end: the registration that follows takes it from the session.
Placed == \A s \in Sessions :
    /\ phase[s] # "free" => peer[s] \in Addresses
    /\ phase[s] = "answered" => address[s] = peer[s]

IInv == TypeOK /\ Placed /\ RoutedIsUp /\ TablesAgree

-----------------------------------------------------------------------------
(* Sequences without repetition. *)

LEMMA RemoveAtFacts ==
    ASSUME NEW S, NEW q \in Seq(S), NEW i \in DOMAIN q
    PROVE  /\ RemoveAt(q, i) \in Seq(S)
           /\ Len(RemoveAt(q, i)) = Len(q) - 1
           /\ \A j \in 1..Len(q) - 1 :
                 RemoveAt(q, i)[j] = IF j < i THEN q[j] ELSE q[j + 1]
<1> DEFINE front == SubSeq(q, 1, i - 1)
<1> DEFINE back == SubSeq(q, i + 1, Len(q))
<1>1. i \in 1..Len(q) /\ Len(q) \in Nat
  OBVIOUS
<1>2. /\ front \in Seq(S) /\ Len(front) = i - 1
      /\ \A j \in 1..i - 1 : front[j] = q[j]
  BY <1>1
<1>3. /\ back \in Seq(S) /\ Len(back) = Len(q) - i
      /\ \A j \in 1..Len(q) - i : back[j] = q[i + j]
  BY <1>1
<1>4. RemoveAt(q, i) = front \o back
  BY DEF RemoveAt
<1> HIDE DEF front, back
<1>5. QED
  BY <1>1, <1>2, <1>3, <1>4

LEMMA ErasedFacts ==
    ASSUME NEW q \in Seq(Sessions), IsInjective(q), NEW a,
           NEW i \in DOMAIN q, Matches(q, a) = {i}
    PROVE  /\ Erased(q, a) \in Seq(Sessions)
           /\ IsInjective(Erased(q, a))
           /\ ToSet(Erased(q, a)) = ToSet(q) \ {q[i]}
<1>1. Erased(q, a) = RemoveAt(q, i)
  <2> DEFINE k == CHOOSE k \in DOMAIN q : Matches(q, a) = {k}
  <2>1. k = i
    OBVIOUS
  <2>2. OneMatches(q, a)
    BY DEF OneMatches
  <2>3. QED
    BY <2>1, <2>2 DEF Erased
<1> DEFINE r == RemoveAt(q, i)
<1>2. /\ r \in Seq(Sessions) /\ Len(r) = Len(q) - 1
      /\ \A j \in 1..Len(q) - 1 : r[j] = IF j < i THEN q[j] ELSE q[j + 1]
  BY RemoveAtFacts
<1> HIDE DEF r
<1>3. i \in 1..Len(q) /\ Len(q) \in Nat
  OBVIOUS
<1>4. \A j, k \in 1..Len(q) : q[j] = q[k] => j = k
  BY DEF IsInjective
<1>5. \A j, k \in 1..Len(r) : r[j] = r[k] => j = k
  BY <1>2, <1>3, <1>4
<1>6. IsInjective(r)
  BY <1>2, <1>5 DEF IsInjective
<1>7. ToSet(r) = ToSet(q) \ {q[i]}
  <2>1. ASSUME NEW x \in ToSet(r) PROVE x \in ToSet(q) \ {q[i]}
    <3>1. PICK j \in 1..Len(r) : x = r[j]
      BY <1>2 DEF ToSet
    <3>2. QED
      <4>1. PICK m \in 1..Len(q) : x = q[m] /\ m # i
        <5>1. CASE j < i
          BY <5>1, <3>1, <1>2, <1>3
        <5>2. CASE ~(j < i)
          <6>1. j + 1 \in 1..Len(q) /\ j + 1 # i /\ x = q[j + 1]
            BY <5>2, <3>1, <1>2, <1>3
          <6>2. QED
            BY <6>1
        <5>3. QED
          BY <5>1, <5>2
      <4>2. x # q[i]
        BY <4>1, <1>3, <1>4
      <4>3. QED
        BY <4>1, <4>2 DEF ToSet
  <2>2. ASSUME NEW x \in ToSet(q), x # q[i] PROVE x \in ToSet(r)
    <3>1. PICK j \in 1..Len(q) : x = q[j]
      BY DEF ToSet
    <3>2. CASE j < i
      BY <3>1, <3>2, <1>2, <1>3 DEF ToSet
    <3>3. CASE j > i
      <4>1. j - 1 \in 1..Len(r) /\ r[j - 1] = q[j]
        BY <3>1, <3>3, <1>2, <1>3
      <4>2. QED
        BY <3>1, <4>1, <1>2 DEF ToSet
    <3>4. QED
      BY <2>2, <3>1, <3>2, <3>3, <1>3
  <2>3. QED
    BY <2>1, <2>2
<1>8. QED
  BY <1>1, <1>2, <1>6, <1>7 DEF r

LEMMA AppendFacts ==
    ASSUME NEW q \in Seq(Sessions), IsInjective(q), NEW s \in Sessions, s \notin ToSet(q)
    PROVE  /\ Append(q, s) \in Seq(Sessions)
           /\ IsInjective(Append(q, s))
           /\ ToSet(Append(q, s)) = ToSet(q) \cup {s}
<1> DEFINE r == Append(q, s)
<1>1. /\ r \in Seq(Sessions) /\ Len(r) = Len(q) + 1 /\ Len(q) \in Nat
      /\ r[Len(q) + 1] = s /\ \A j \in 1..Len(q) : r[j] = q[j]
  OBVIOUS
<1>2. \A j \in 1..Len(q) : q[j] # s
  BY DEF ToSet
<1>3. \A j, k \in 1..Len(q) : q[j] = q[k] => j = k
  BY DEF IsInjective
<1> HIDE DEF r
<1>4. 1..Len(r) = 1..Len(q) \cup {Len(q) + 1}
  BY <1>1
<1>5. \A j, k \in 1..Len(r) : r[j] = r[k] => j = k
  BY <1>1, <1>2, <1>3, <1>4
<1>6. IsInjective(r)
  BY <1>1, <1>5 DEF IsInjective
<1>7. ToSet(r) = ToSet(q) \cup {s}
  <2>1. ASSUME NEW x \in ToSet(r) PROVE x \in ToSet(q) \cup {s}
    <3>1. PICK j \in 1..Len(r) : x = r[j]
      BY <1>1 DEF ToSet
    <3>2. QED
      BY <3>1, <1>1, <1>4 DEF ToSet
  <2>2. ASSUME NEW x \in ToSet(q) PROVE x \in ToSet(r)
    <3>1. PICK j \in 1..Len(q) : x = q[j]
      BY DEF ToSet
    <3>2. j \in 1..Len(r) /\ r[j] = x
      BY <3>1, <1>1, <1>4
    <3>3. QED
      BY <3>2, <1>1 DEF ToSet
  <2>3. Len(q) + 1 \in 1..Len(r) /\ r[Len(q) + 1] = s
    BY <1>1
  <2>4. s \in ToSet(r)
    BY <2>3, <1>1 DEF ToSet
  <2>5. QED
    BY <2>1, <2>2, <2>4
<1>8. QED
  BY <1>1, <1>6, <1>7 DEF r

-----------------------------------------------------------------------------
(* The tables. *)

\* Where the sessions of the tables are left alone, so is the rest.
LEMMA TablesStay ==
    ASSUME IInv, UNCHANGED tables, crash' # "erase",
           \A s \in Routed : phase'[s] = phase[s] /\ peer'[s] = peer[s] /\ address'[s] = address[s]
    PROVE  RoutedIsUp' /\ TablesAgree'
<1>1. RoutedIsUp'
  BY DEF IInv, RoutedIsUp, Routed, tables
<1>2. TablesAgree'
  BY DEF IInv, TablesAgree, tables
<1>3. QED
  BY <1>1, <1>2

\* A session is in the tables only while its link is up.
LEMMA RoutedIsUpNow ==
    ASSUME IInv, NEW s \in Routed
    PROVE  s \in Sessions /\ phase[s] = "up" /\ uni[address[s]] = s /\ address[s] = peer[s]
<1>1. PICK a \in Addresses : uni[a] = s /\ uni[a] # None
  BY DEF Routed
<1>2. phase[s] = "up" /\ peer[s] = a /\ address[s] = a
  BY <1>1 DEF IInv, RoutedIsUp
<1>3. s \in Sessions
  BY <1>1 DEF IInv, TypeOK
<1>4. QED
  BY <1>1, <1>2, <1>3

\* An address of the tables is that of exactly one session of each list.
LEMMA OneOfEach ==
    ASSUME IInv, NEW a \in Addresses, uni[a] # None, NEW q \in Seq(Sessions),
           IsInjective(q), ToSet(q) = Routed
    PROVE  \E i \in DOMAIN q : Matches(q, a) = {i} /\ q[i] = uni[a]
<1>1. uni[a] \in ToSet(q) /\ address[uni[a]] = a
  BY DEF Routed, IInv, RoutedIsUp
<1>2. PICK i \in DOMAIN q : q[i] = uni[a]
  BY <1>1 DEF ToSet
<1>3. ASSUME NEW j \in DOMAIN q, address[q[j]] = a PROVE j = i
  <2>1. q[j] \in Routed
    BY DEF ToSet
  <2>2. q[j] = uni[a]
    BY <2>1, <1>3, RoutedIsUpNow
  <2>3. QED
    BY <2>2, <1>2 DEF IsInjective
<1>4. Matches(q, a) = {i}
  BY <1>1, <1>2, <1>3 DEF Matches
<1>5. QED
  BY <1>2, <1>4

LEMMA ListsAreRouted ==
    ASSUME IInv
    PROVE  /\ multi \in Seq(Sessions) /\ IsInjective(multi) /\ ToSet(multi) = Routed
           /\ any.list \in Seq(Sessions) /\ IsInjective(any.list) /\ ToSet(any.list) = Routed
           /\ any.next \in Nat
  BY DEF IInv, TypeOK, TablesAgree, Routed

LEMMA Unregisters ==
    ASSUME IInv, NEW a \in Addresses \cup {None}, UnregisterAddress(a)
    PROVE  /\ uni' \in [Addresses -> Sessions \cup {None}]
           /\ a # None => uni'[a] = None
           /\ \A b \in Addresses \ {a} : uni'[b] = uni[b]
           /\ multi' \in Seq(Sessions) /\ any' \in [next : Nat, list : Seq(Sessions)]
           /\ TablesAgree' /\ crash' = crash
<1>0. uni \in [Addresses -> Sessions \cup {None}] /\ None \notin Addresses
  BY RouterAssumption DEF IInv, TypeOK, RouterAssumption, Addresses
<1>1. CASE a = None \/ uni[a] = None
  <2>1. UNCHANGED <<uni, multi, any, crash>>
    BY <1>1 DEF UnregisterAddress
  <2>2. TablesAgree'
    BY <2>1 DEF IInv, TablesAgree
  <2>3. \A b \in Addresses : uni'[b] = uni[b]
    BY <2>1
  <2>4. multi' \in Seq(Sessions) /\ any' \in [next : Nat, list : Seq(Sessions)]
    BY <2>1 DEF IInv, TypeOK
  <2>5. a # None => uni'[a] = None
    BY <2>1, <1>1
  <2>6. QED
    BY <2>1, <2>2, <2>3, <2>4, <2>5, <1>0
<1>2. CASE ~(a = None \/ uni[a] = None)
  <2>1. /\ uni' = [uni EXCEPT ![a] = None]
        /\ multi' = Erased(multi, a)
        /\ any' = [any EXCEPT !.list = Erased(@, a)]
        /\ crash' = IF OneMatches(multi, a) /\ OneMatches(any.list, a) THEN crash ELSE "erase"
    BY <1>2 DEF UnregisterAddress
  <2>2. a \in Addresses /\ uni[a] # None
    BY <1>2
  <2>3. PICK i \in DOMAIN multi : Matches(multi, a) = {i} /\ multi[i] = uni[a]
    BY <2>2, ListsAreRouted, OneOfEach
  <2>4. PICK k \in DOMAIN any.list : Matches(any.list, a) = {k} /\ any.list[k] = uni[a]
    BY <2>2, ListsAreRouted, OneOfEach
  <2>5. crash' = crash
    BY <2>1, <2>3, <2>4 DEF OneMatches
  <2>6. /\ multi' \in Seq(Sessions) /\ IsInjective(multi')
        /\ ToSet(multi') = Routed \ {uni[a]}
    <3>1. /\ Erased(multi, a) \in Seq(Sessions) /\ IsInjective(Erased(multi, a))
          /\ ToSet(Erased(multi, a)) = Routed \ {uni[a]}
      BY <2>3, ListsAreRouted, ErasedFacts
    <3>2. QED
      BY <3>1, <2>1
  <2>7. any' = [next |-> any.next, list |-> Erased(any.list, a)]
    BY <2>1 DEF IInv, TypeOK
  <2>8. /\ Erased(any.list, a) \in Seq(Sessions) /\ IsInjective(Erased(any.list, a))
        /\ ToSet(Erased(any.list, a)) = Routed \ {uni[a]}
    BY <2>4, ListsAreRouted, ErasedFacts
  <2>9. {uni'[b] : b \in Addresses} \ {None} = Routed \ {uni[a]}
    <3>1. \A b \in Addresses \ {a} : uni'[b] = uni[b] /\ (uni[b] # None => uni[b] # uni[a])
      BY <2>1, <2>2, <1>0 DEF IInv, RoutedIsUp
    <3>2. uni'[a] = None
      BY <2>1, <2>2, <1>0
    <3>3. QED
      BY <3>1, <3>2, <2>2 DEF Routed
  <2>10. any'.list = Erased(any.list, a) /\ any' \in [next : Nat, list : Seq(Sessions)]
    BY <2>7, <2>8, ListsAreRouted
  <2>11. crash' # "erase"
    BY <2>5 DEF IInv, TablesAgree
  <2>12. TablesAgree'
    BY <2>6, <2>8, <2>9, <2>10, <2>11 DEF TablesAgree
  <2>13. QED
    BY <2>1, <2>2, <2>5, <2>6, <2>10, <2>12, <1>0
<1>3. QED
  BY <1>1, <1>2

\* The first table refuses an address that another link has registered; the
\* others then have it too.
LEMMA Registers ==
    ASSUME IInv, NEW a \in Peers, NEW s \in Sessions, phase[s] # "up",
           RegisterAddress(a, s), phase' = [phase EXCEPT ![s] = "up"],
           UNCHANGED <<peer, crash>>, peer[s] = a
    PROVE  /\ uni' \in [Addresses -> Sessions \cup {None}]
           /\ multi' \in Seq(Sessions) /\ any' \in [next : Nat, list : Seq(Sessions)]
           /\ address' \in [Sessions -> Peers \cup {None}]
           /\ \A x \in Sessions \ {s} : address'[x] = address[x]
           /\ RoutedIsUp' /\ TablesAgree'
<1>0. /\ uni \in [Addresses -> Sessions \cup {None}] /\ a \in Addresses
      /\ phase \in [Sessions -> {"free", "accepted", "connecting", "asking",
                              "answered", "refused", "up"}]
      /\ address \in [Sessions -> Peers \cup {None}] /\ s # None
  BY RouterAssumption DEF IInv, TypeOK, RouterAssumption, Addresses
<1>1. s \notin Routed
  BY RoutedIsUpNow
<1>2. \A x \in Routed : x # s /\ x \in Sessions
  BY <1>1, RoutedIsUpNow
<1>3. CASE uni[a] # None
  <2>1. UNCHANGED tables /\ UNCHANGED address
    BY <1>3 DEF RegisterAddress, tables
  <2>2. \A x \in Routed : phase'[x] = phase[x] /\ peer'[x] = peer[x] /\ address'[x] = address[x]
    BY <2>1, <1>0, <1>2
  <2>3. RoutedIsUp' /\ TablesAgree'
    BY <2>1, <2>2, TablesStay DEF IInv, TablesAgree
  <2>4. QED
    BY <2>1, <2>3, <1>0, ListsAreRouted DEF tables, IInv, TypeOK
<1>4. CASE uni[a] = None
  <2>1. ~HasAddress(multi, a) /\ ~HasAddress(any.list, a)
    <3>1. \A x \in Routed : address[x] # a
      BY <1>4, RoutedIsUpNow DEF Routed
    <3>2. \A i \in DOMAIN multi : multi[i] \in Routed
      BY ListsAreRouted DEF ToSet
    <3>3. \A i \in DOMAIN any.list : any.list[i] \in Routed
      BY ListsAreRouted DEF ToSet
    <3>4. QED
      BY <3>1, <3>2, <3>3 DEF HasAddress
  <2>2. /\ uni' = [uni EXCEPT ![a] = s] /\ multi' = Append(multi, s)
        /\ any' = [next |-> Len(any.list), list |-> Append(any.list, s)]
        /\ address' = [address EXCEPT ![s] = a]
    BY <1>4, <2>1 DEF RegisterAddress
  <2>3. /\ multi' \in Seq(Sessions) /\ IsInjective(multi')
        /\ ToSet(multi') = Routed \cup {s}
    BY <2>2, <1>1, ListsAreRouted, AppendFacts
  <2>4. /\ any'.list \in Seq(Sessions) /\ IsInjective(any'.list)
        /\ ToSet(any'.list) = Routed \cup {s}
    BY <2>2, <1>1, ListsAreRouted, AppendFacts
  <2>5. any' \in [next : Nat, list : Seq(Sessions)]
    BY <2>2, <2>4, ListsAreRouted
  <2>6. \A b \in Addresses : uni'[b] = IF b = a THEN s ELSE uni[b]
    BY <2>2, <1>0
  <2>7. {uni'[b] : b \in Addresses} \ {None} = Routed \cup {s}
    BY <2>6, <1>0, <1>4 DEF Routed
  <2>8. TablesAgree'
    BY <2>3, <2>4, <2>7 DEF TablesAgree, IInv
  <2>9. RoutedIsUp'
    <3>1. ASSUME NEW b \in Addresses, uni'[b] # None
          PROVE  phase'[uni'[b]] = "up" /\ peer'[uni'[b]] = b /\ address'[uni'[b]] = b
      <4>1. CASE b = a
        BY <4>1, <2>2, <2>6, <1>0
      <4>2. CASE b # a
        <5>1. uni'[b] = uni[b] /\ uni[b] \in Routed
          BY <4>2, <3>1, <2>6 DEF Routed
        <5>2. uni[b] # s /\ uni[b] \in Sessions
          BY <5>1, <1>2
        <5>3. phase[uni[b]] = "up" /\ peer[uni[b]] = b /\ address[uni[b]] = b
          BY <5>1, <3>1 DEF IInv, RoutedIsUp
        <5>4. QED
          BY <5>1, <5>2, <5>3, <2>2, <1>0
      <4>3. QED
        BY <4>1, <4>2
    <3>2. QED
      BY <3>1 DEF RoutedIsUp
  <2>10. QED
    BY <2>2, <2>3, <2>5, <2>8, <2>9, <1>0
<1>5. QED
  BY <1>3, <1>4
-----------------------------------------------------------------------------
(* The actions. *)

Phases == {"free", "accepted", "connecting", "asking", "answered", "refused", "up"}

\* A step of the handshake of a session that is not in the tables.
LEMMA HandshakeStep ==
    ASSUME IInv, NEW s \in Sessions, phase[s] # "up",
           NEW p \in Phases \ {"up"}, phase' = [phase EXCEPT ![s] = p],
           NEW o \in Addresses \cup {None}, peer' = [peer EXCEPT ![s] = o], p # "free" => o # None,
           NEW a \in Peers \cup {None}, address' = [address EXCEPT ![s] = a],
           p = "answered" => a = o,
           waiting' \in [Sessions -> SUBSET Requests],
           UNCHANGED <<tables, msg_seq, inflight, users, crash>>
    PROVE  IInv'
<1>0. /\ phase \in [Sessions -> Phases] /\ peer \in [Sessions -> Addresses \cup {None}]
      /\ address \in [Sessions -> Peers \cup {None}]
  BY DEF IInv, TypeOK, Phases
<1>1. TypeOK'
  <2>1. /\ phase' \in [Sessions -> Phases] /\ peer' \in [Sessions -> Addresses \cup {None}]
        /\ address' \in [Sessions -> Peers \cup {None}]
    BY <1>0
  <2>2. QED
    BY <2>1 DEF IInv, TypeOK, Phases, tables, users
<1>2. Placed'
  BY <1>0 DEF IInv, Placed
<1>3. \A x \in Routed : x # s /\ x \in Sessions
  BY RoutedIsUpNow
<1>4. \A x \in Routed : phase'[x] = phase[x] /\ peer'[x] = peer[x] /\ address'[x] = address[x]
  BY <1>0, <1>3
<1>5. RoutedIsUp' /\ TablesAgree'
  BY <1>4, TablesStay DEF IInv, TablesAgree
<1>6. QED
  BY <1>1, <1>2, <1>5 DEF IInv

\* Neither an address nor the phase of a link changes.
LEMMA LinksStay ==
    ASSUME IInv, UNCHANGED <<phase, peer, address, uni, multi>>,
           any' \in [next : Nat, list : Seq(Sessions)], any'.list = any.list,
           crash' # "erase"
    PROVE  Placed' /\ RoutedIsUp' /\ TablesAgree'
<1>1. Placed'
  BY DEF IInv, Placed
<1>2. RoutedIsUp'
  BY DEF IInv, RoutedIsUp
<1>3. TablesAgree'
  BY DEF IInv, TablesAgree
<1>4. QED
  BY <1>1, <1>2, <1>3

LEMMA OnAcceptKeeps == ASSUME IInv, NEW s \in Sessions, NEW p \in Addresses, OnAccept(s, p) PROVE IInv'
<1>1. /\ phase[s] = "free" /\ phase' = [phase EXCEPT ![s] = "accepted"]
      /\ peer' = [peer EXCEPT ![s] = p] /\ p # None
      /\ UNCHANGED <<address, waiting, tables, msg_seq, inflight, users, crash>>
  BY RouterAssumption DEF OnAccept, RouterAssumption, Addresses
<1>2. address' = [address EXCEPT ![s] = address[s]] /\ address[s] \in Peers \cup {None}
  BY <1>1 DEF IInv, TypeOK
<1>3. waiting' \in [Sessions -> SUBSET Requests]
  BY <1>1 DEF IInv, TypeOK
<1>4. "accepted" \in Phases \ {"up"} /\ "accepted" # "answered" /\ phase[s] # "up"
  BY <1>1 DEF Phases
<1>5. p \in Addresses \cup {None}
  OBVIOUS
<1>6. QED
  BY <1>1, <1>2, <1>3, <1>4, <1>5, HandshakeStep, ZenonT(30)

LEMMA ConnectKeeps == ASSUME IInv, NEW s \in Sessions, NEW p \in Addresses, Connect(s, p) PROVE IInv'
<1>1. /\ phase[s] = "free" /\ phase' = [phase EXCEPT ![s] = "connecting"]
      /\ peer' = [peer EXCEPT ![s] = p] /\ p # None
      /\ UNCHANGED <<address, waiting, tables, msg_seq, inflight, users, crash>>
  BY RouterAssumption DEF Connect, RouterAssumption, Addresses
<1>2. address' = [address EXCEPT ![s] = address[s]] /\ address[s] \in Peers \cup {None}
  BY <1>1 DEF IInv, TypeOK
<1>3. waiting' \in [Sessions -> SUBSET Requests]
  BY <1>1 DEF IInv, TypeOK
<1>4. "connecting" \in Phases \ {"up"} /\ "connecting" # "answered" /\ phase[s] # "up"
  BY <1>1 DEF Phases
<1>5. p \in Addresses \cup {None}
  OBVIOUS
<1>6. QED
  BY <1>1, <1>2, <1>3, <1>4, <1>5, HandshakeStep, ZenonT(30)

LEMMA OnConnectKeeps == ASSUME IInv, NEW s \in Sessions, OnConnect(s) PROVE IInv'
<1>1. /\ phase[s] = "connecting" /\ phase' = [phase EXCEPT ![s] = "asking"]
      /\ waiting' = [waiting EXCEPT ![s] = {}]
      /\ UNCHANGED <<peer, address, tables, msg_seq, inflight, users, crash>>
  BY DEF OnConnect
<1>2. /\ address' = [address EXCEPT ![s] = address[s]] /\ address[s] \in Peers \cup {None}
      /\ peer' = [peer EXCEPT ![s] = peer[s]]
  BY <1>1 DEF IInv, TypeOK
<1>3. peer[s] \in Addresses /\ peer[s] # None
  BY <1>1, RouterAssumption DEF IInv, Placed, RouterAssumption, Addresses
<1>4. waiting' \in [Sessions -> SUBSET Requests]
  BY <1>1 DEF IInv, TypeOK
<1>5. "asking" \in Phases \ {"up"} /\ "asking" # "answered" /\ phase[s] # "up"
  BY <1>1 DEF Phases
<1>6. peer[s] \in Addresses \cup {None}
  BY <1>3
<1>7. phase' = [phase EXCEPT ![s] = "asking"] /\ UNCHANGED <<tables, msg_seq, inflight, users, crash>>
  BY <1>1
<1>8. QED
  BY <1>2, <1>3, <1>4, <1>5, <1>6, <1>7, HandshakeStep

LEMMA SetAddressReqKeeps == ASSUME IInv, NEW s \in Sessions, Recv_SetAddress_Req(s) PROVE IInv'
<1>1. /\ phase[s] = "accepted"
      /\ UNCHANGED <<peer, waiting, tables, msg_seq, inflight, users, crash>>
  BY DEF Recv_SetAddress_Req
<1>2. /\ peer' = [peer EXCEPT ![s] = peer[s]] /\ waiting' \in [Sessions -> SUBSET Requests]
      /\ address[s] \in Peers \cup {None} /\ address = [address EXCEPT ![s] = address[s]]
  BY <1>1 DEF IInv, TypeOK
<1>3. peer[s] \in Addresses /\ peer[s] # None
  BY <1>1, RouterAssumption DEF IInv, Placed, RouterAssumption, Addresses
<1>4. {"refused", "answered"} \subseteq Phases \ {"up"}
  BY DEF Phases
<1>5. CASE peer[s] = Local
  <2>1. phase' = [phase EXCEPT ![s] = "refused"] /\ address' = [address EXCEPT ![s] = address[s]]
    BY <1>5, <1>2 DEF Recv_SetAddress_Req
  <2>2. QED
    BY <2>1, <1>1, <1>2, <1>3, <1>4, HandshakeStep
<1>6. CASE peer[s] # Local
  <2>1. phase' = [phase EXCEPT ![s] = "answered"] /\ address' = [address EXCEPT ![s] = peer[s]]
    BY <1>6 DEF Recv_SetAddress_Req
  <2>2. peer[s] \in Peers
    BY <1>3, <1>6 DEF Addresses
  <2>3. QED
    BY <2>1, <2>2, <1>1, <1>2, <1>3, <1>4, HandshakeStep
<1>7. QED
  BY <1>5, <1>6

\* A session registers the address of the server at the other end.
LEMMA UpKeeps ==
    ASSUME IInv, NEW s \in Sessions, phase[s] \in {"answered", "asking"}, peer[s] \in Peers,
           phase' = [phase EXCEPT ![s] = "up"], RegisterAddress(peer[s], s),
           UNCHANGED <<peer, waiting, msg_seq, inflight, users, crash>>
    PROVE  IInv'
<1>0. phase \in [Sessions -> Phases]
  BY DEF IInv, TypeOK, Phases
<1>1. /\ uni' \in [Addresses -> Sessions \cup {None}]
      /\ multi' \in Seq(Sessions) /\ any' \in [next : Nat, list : Seq(Sessions)]
      /\ address' \in [Sessions -> Peers \cup {None}]
      /\ \A x \in Sessions \ {s} : address'[x] = address[x]
      /\ RoutedIsUp' /\ TablesAgree'
  BY Registers
<1>2. phase' \in [Sessions -> Phases]
  BY <1>0 DEF Phases
<1>3. TypeOK'
  BY <1>1, <1>2 DEF IInv, TypeOK, Phases, users
<1>4. Placed'
  <2>1. ASSUME NEW x \in Sessions
        PROVE  /\ phase'[x] # "free" => peer'[x] \in Addresses
               /\ phase'[x] = "answered" => address'[x] = peer'[x]
    <3>1. CASE x = s
      BY <3>1, <1>0 DEF Addresses
    <3>2. CASE x # s
      <4>1. phase'[x] = phase[x] /\ peer'[x] = peer[x] /\ address'[x] = address[x]
        BY <3>2, <1>0, <1>1
      <4>2. QED
        BY <4>1 DEF IInv, Placed
    <3>3. QED
      BY <3>1, <3>2
  <2>2. QED
    BY <2>1 DEF Placed
<1>5. QED
  BY <1>1, <1>3, <1>4 DEF IInv

LEMMA SetAddressNtfKeeps == ASSUME IInv, NEW s \in Sessions, Recv_SetAddress_Ntf(s) PROVE IInv'
<1>1. /\ phase[s] = "answered" /\ phase' = [phase EXCEPT ![s] = "up"]
      /\ RegisterAddress(address[s], s)
      /\ UNCHANGED <<peer, waiting, msg_seq, inflight, users, crash>>
  BY DEF Recv_SetAddress_Ntf
<1>2. address[s] = peer[s] /\ peer[s] \in Addresses /\ address[s] \in Peers \cup {None}
  BY <1>1 DEF IInv, Placed, TypeOK
<1>3. peer[s] \in Peers
  BY <1>2, RouterAssumption DEF RouterAssumption, Addresses
<1>4. QED
  BY <1>1, <1>2, <1>3, UpKeeps

LEMMA SetAddressAnsKeeps == ASSUME IInv, NEW s \in Sessions, Recv_SetAddress_Ans(s) PROVE IInv'
<1>1. /\ phase[s] = "asking" /\ peer[s] # Local /\ phase' = [phase EXCEPT ![s] = "up"]
      /\ RegisterAddress(peer[s], s)
      /\ UNCHANGED <<peer, waiting, msg_seq, inflight, users, crash>>
  BY DEF Recv_SetAddress_Ans
<1>2. peer[s] \in Peers
  BY <1>1 DEF IInv, Placed, Addresses
<1>3. QED
  BY <1>1, <1>2, UpKeeps

\* The address is unregistered before the session is used again, and with it
\* goes the session, if it was in the tables.
LEMMA OnCloseKeeps == ASSUME IInv, NEW s \in Sessions, OnClose(s) PROVE IInv'
<1>0. /\ phase \in [Sessions -> Phases] /\ peer \in [Sessions -> Addresses \cup {None}]
      /\ address[s] \in Addresses \cup {None}
  BY DEF IInv, TypeOK, Phases, Addresses
<1>1. /\ phase' = [phase EXCEPT ![s] = "free"] /\ peer' = [peer EXCEPT ![s] = None]
      /\ UnregisterAddress(address[s]) /\ waiting' = [waiting EXCEPT ![s] = {}]
      /\ UNCHANGED <<address, msg_seq, inflight, users>>
  BY DEF OnClose
<1>2. /\ uni' \in [Addresses -> Sessions \cup {None}]
      /\ address[s] # None => uni'[address[s]] = None
      /\ \A b \in Addresses \ {address[s]} : uni'[b] = uni[b]
      /\ multi' \in Seq(Sessions) /\ any' \in [next : Nat, list : Seq(Sessions)]
      /\ TablesAgree' /\ crash' = crash
  BY <1>0, <1>1, Unregisters
<1>3. TypeOK'
  <2>1. /\ phase' \in [Sessions -> Phases] /\ peer' \in [Sessions -> Addresses \cup {None}]
    BY <1>0, <1>1 DEF Phases
  <2>2. waiting' \in [Sessions -> SUBSET Requests]
    BY <1>1 DEF IInv, TypeOK
  <2>3. QED
    BY <2>1, <2>2, <1>1, <1>2 DEF IInv, TypeOK, Phases, users
<1>4. Placed'
  BY <1>0, <1>1 DEF IInv, Placed
<1>5. RoutedIsUp'
  <2>1. ASSUME NEW b \in Addresses, uni'[b] # None
        PROVE  phase'[uni'[b]] = "up" /\ peer'[uni'[b]] = b /\ address'[uni'[b]] = b
    <3>1. b # address[s]
      BY <2>1, <1>2, RouterAssumption DEF RouterAssumption, Addresses
    <3>2. uni'[b] = uni[b]
      BY <3>1, <1>2
    <3>3. phase[uni[b]] = "up" /\ peer[uni[b]] = b /\ address[uni[b]] = b
      BY <2>1, <3>2 DEF IInv, RoutedIsUp
    <3>4. uni[b] # s /\ uni[b] \in Sessions
      BY <2>1, <3>1, <3>2, <3>3 DEF IInv, TypeOK
    <3>5. QED
      BY <3>2, <3>3, <3>4, <1>0, <1>1
  <2>2. QED
    BY <2>1 DEF RoutedIsUp
<1>6. QED
  BY <1>2, <1>3, <1>4, <1>5 DEF IInv

\* A message goes to sessions of the tables only.
LEMMA RoutesLead ==
    ASSUME IInv, NEW cast \in {"uni", "multi", "any"}, NEW a \in Peers
    PROVE  Routes(cast, a) \subseteq Routed
<1>1. UniRoute(a) \subseteq Routed
  BY DEF UniRoute, Routed, Addresses
<1>2. MultiRoute \subseteq Routed
  BY ListsAreRouted DEF MultiRoute
<1>3. AnyRoute \subseteq Routed
  <2>1. CASE any.list = <<>>
    BY <2>1 DEF AnyRoute
  <2>2. CASE any.list # <<>>
    <3> DEFINE n == Len(any.list)
    <3>1. n \in Nat /\ n > 0 /\ any.next \in Nat /\ any.list \in Seq(Sessions)
      BY <2>2, ListsAreRouted
    <3>2. any.next % n \in 0..n - 1
      BY <3>1
    <3>3. (any.next % n) + 1 \in DOMAIN any.list
      BY <3>1, <3>2
    <3>4. any.list[(any.next % n) + 1] \in ToSet(any.list)
      BY <3>3 DEF ToSet
    <3>5. AnyRoute = {any.list[(any.next % n) + 1]}
      BY <2>2 DEF AnyRoute
    <3> HIDE DEF n
    <3>6. QED
      BY <3>4, <3>5, ListsAreRouted
  <2>3. QED
    BY <2>1, <2>2
<1>4. CASE cast = "uni"
  BY <1>1, <1>4 DEF Routes
<1>5. CASE cast = "multi"
  BY <1>2, <1>5 DEF Routes
<1>6. CASE cast = "any"
  BY <1>3, <1>6 DEF Routes
<1>7. QED
  BY <1>4, <1>5, <1>6

LEMMA SendMsgKeeps ==
    ASSUME IInv, crash = "no", NEW u \in Users, NEW cast \in {"uni", "multi", "any"}, NEW a \in Peers,
           SendMsg(u, cast, a)
    PROVE  IInv'
<1> DEFINE n == msg_seq + 1
<1> DEFINE to == Routes(cast, a)
<1>1. /\ msg_seq < MaxSends /\ msg_seq' = n
      /\ asker' = [asker EXCEPT ![n] = u] /\ container' = [container EXCEPT ![u] = n]
      /\ waiting' = [s \in Sessions |-> IF s \in to THEN waiting[s] \cup {n} ELSE waiting[s]]
      /\ inflight' = inflight \cup {[request |-> n, peer |-> peer[s]] : s \in to}
      /\ any' = IF cast = "any" /\ any.list # <<>> THEN [any EXCEPT !.next = @ + 1] ELSE any
      /\ UNCHANGED <<phase, peer, address, uni, multi, connected, strand, got, crash>>
  BY DEF SendMsg
<1>2. n \in Requests /\ n \in 0..MaxSends
  BY <1>1, RouterAssumption DEF IInv, TypeOK, Requests, RouterAssumption
<1>3. to \subseteq Routed
  BY RoutesLead
<1> HIDE DEF n, to
<1>4. any' \in [next : Nat, list : Seq(Sessions)] /\ any'.list = any.list
  <2>1. CASE cast = "any" /\ any.list # <<>>
    <3>1. any' = [next |-> any.next + 1, list |-> any.list]
      BY <2>1, <1>1 DEF IInv, TypeOK
    <3>2. QED
      BY <3>1, ListsAreRouted
  <2>2. CASE ~(cast = "any" /\ any.list # <<>>)
    BY <2>2, <1>1 DEF IInv, TypeOK
  <2>3. QED
    BY <2>1, <2>2
<1>5. inflight' \subseteq [request : Requests, peer : Peers]
  <2>1. \A s \in to : peer[s] \in Peers
    <3>1. \A s \in to : s \in Sessions /\ address[s] = peer[s] /\ phase[s] = "up"
      BY <1>3, RoutedIsUpNow
    <3>2. \A s \in to : peer[s] \in Addresses /\ address[s] \in Peers \cup {None}
      BY <3>1 DEF IInv, Placed, TypeOK
    <3>3. QED
      BY <3>1, <3>2, RouterAssumption DEF RouterAssumption, Addresses
  <2>2. QED
    BY <2>1, <1>1, <1>2 DEF IInv, TypeOK
<1>6. waiting' \in [Sessions -> SUBSET Requests]
  BY <1>1, <1>2 DEF IInv, TypeOK
<1>7. asker' \in [Requests -> Users \cup {None}] /\ container' \in [Users -> 0..MaxSends]
  BY <1>1, <1>2 DEF IInv, TypeOK
<1>8. TypeOK'
  BY <1>1, <1>2, <1>4, <1>5, <1>6, <1>7 DEF IInv, TypeOK
<1>9. Placed' /\ RoutedIsUp' /\ TablesAgree'
  BY <1>1, <1>4, LinksStay
<1>10. QED
  BY <1>8, <1>9 DEF IInv

LEMMA SendMsgNtfKeeps ==
    ASSUME IInv, crash = "no", NEW s \in Sessions, NEW r \in inflight, Recv_SendMsg_Ntf(s, r)
    PROVE  IInv'
<1> DEFINE router_session == IF address[s] = None THEN None ELSE uni[address[s]]
<1> DEFINE u == asker[r.request]
<1>1. /\ inflight' = inflight \ {r}
      /\ IF router_session = None \/ r.request \notin waiting[router_session]
         THEN UNCHANGED <<waiting, strand, crash>>
         ELSE /\ waiting' = [waiting EXCEPT ![router_session] = @ \ {r.request}]
              /\ IF u \in connected
                 THEN strand' = [strand EXCEPT ![u] = Append(@, r.request)] /\ UNCHANGED crash
                 ELSE crash' = "null link" /\ UNCHANGED strand
      /\ UNCHANGED <<phase, peer, address, tables, msg_seq, asker, connected, container, got>>
  BY DEF Recv_SendMsg_Ntf
<1> HIDE DEF router_session
<1>2. r.request \in Requests
  BY DEF IInv, TypeOK
<1>3. waiting' \in [Sessions -> SUBSET Requests]
  <2>1. waiting \in [Sessions -> SUBSET Requests]
    BY DEF IInv, TypeOK
  <2>2. CASE UNCHANGED waiting
    BY <2>1, <2>2
  <2>3. CASE waiting' = [waiting EXCEPT ![router_session] = @ \ {r.request}]
    BY <2>1, <2>3
  <2>4. QED
    BY <1>1, <2>2, <2>3
<1>4. strand' \in [Users -> Seq(Requests)]
  <2>1. CASE UNCHANGED strand
    BY <2>1 DEF IInv, TypeOK
  <2>2. CASE u \in connected /\ strand' = [strand EXCEPT ![u] = Append(@, r.request)]
    <3>1. u \in Users /\ strand \in [Users -> Seq(Requests)]
      BY <2>2 DEF IInv, TypeOK
    <3>2. Append(strand[u], r.request) \in Seq(Requests)
      BY <3>1, <1>2
    <3> HIDE DEF u
    <3>3. QED
      BY <2>2, <3>1, <3>2
  <2>3. QED
    BY <1>1, <2>1, <2>2
<1>5. crash' \in {"no", "null link"}
  BY <1>1
<1>6. TypeOK'
  BY <1>1, <1>3, <1>4, <1>5 DEF IInv, TypeOK, tables
<1>7. any' \in [next : Nat, list : Seq(Sessions)] /\ any'.list = any.list
  BY <1>1 DEF IInv, TypeOK, tables
<1>8. Placed' /\ RoutedIsUp' /\ TablesAgree'
  BY <1>1, <1>5, <1>7, LinksStay DEF tables
<1>9. QED
  BY <1>6, <1>8 DEF IInv

\* What only changes requests, users and handlers.
LEMMA AnswerKeeps == ASSUME IInv, crash = "no", NEW u \in Users, Answer(u) PROVE IInv'
<1>1. /\ strand[u] # <<>> /\ strand' = [strand EXCEPT ![u] = Tail(@)]
      /\ container' = [container EXCEPT ![u] = 0]
      /\ UNCHANGED <<sessions, tables, msg_seq, inflight, asker, connected, crash>>
  BY DEF Answer
<1>2. strand \in [Users -> Seq(Requests)] /\ container \in [Users -> 0..MaxSends] /\ 0 \in 0..MaxSends
  BY RouterAssumption DEF IInv, TypeOK, RouterAssumption
<1>3. Tail(strand[u]) \in Seq(Requests)
  BY <1>1, <1>2
<1>4. strand' \in [Users -> Seq(Requests)] /\ container' \in [Users -> 0..MaxSends]
  BY <1>1, <1>2, <1>3
<1>5. TypeOK'
  BY <1>1, <1>4 DEF IInv, TypeOK, sessions, tables
<1>6. any' \in [next : Nat, list : Seq(Sessions)] /\ any'.list = any.list
  BY <1>1 DEF IInv, TypeOK, tables
<1>7. QED
  BY <1>1, <1>5, <1>6, LinksStay DEF IInv, sessions, tables

LEMMA TimeoutKeeps == ASSUME IInv, crash = "no", NEW s \in Sessions, Timeout(s) PROVE IInv'
<1>1. PICK old \in SUBSET waiting[s] : waiting' = [waiting EXCEPT ![s] = @ \ old]
  BY DEF Timeout
<1>2. UNCHANGED <<phase, peer, address, tables, msg_seq, inflight, users, crash>>
  BY DEF Timeout
<1>3. waiting' \in [Sessions -> SUBSET Requests]
  BY <1>1 DEF IInv, TypeOK
<1>4. TypeOK'
  BY <1>2, <1>3 DEF IInv, TypeOK, tables, users
<1>5. any' \in [next : Nat, list : Seq(Sessions)] /\ any'.list = any.list
  BY <1>2 DEF IInv, TypeOK, tables
<1>6. QED
  BY <1>2, <1>4, <1>5, LinksStay DEF IInv, tables

LEMMA UserClosesKeeps == ASSUME IInv, crash = "no", NEW u \in Users, UserCloses(u) PROVE IInv'
<1>1. /\ connected' = connected \ {u}
      /\ UNCHANGED <<sessions, tables, msg_seq, inflight, asker, container, strand, got, crash>>
  BY DEF UserCloses
<1>2. TypeOK'
  BY <1>1 DEF IInv, TypeOK, sessions, tables
<1>3. any' \in [next : Nat, list : Seq(Sessions)] /\ any'.list = any.list
  BY <1>1 DEF IInv, TypeOK, tables
<1>4. QED
  BY <1>1, <1>2, <1>3, LinksStay DEF IInv, sessions, tables

-----------------------------------------------------------------------------
LEMMA InitHolds == Init => IInv
<1> SUFFICES ASSUME Init PROVE IInv
  OBVIOUS
<1>1. TypeOK
  <2>1. msg_seq \in 0..MaxSends /\ container \in [Users -> 0..MaxSends]
    BY RouterAssumption DEF Init, RouterAssumption
  <2>2. /\ phase \in [Sessions -> {"free", "accepted", "connecting", "asking",
                              "answered", "refused", "up"}]
        /\ peer \in [Sessions -> Addresses \cup {None}]
        /\ address \in [Sessions -> Peers \cup {None}]
        /\ waiting \in [Sessions -> SUBSET Requests]
        /\ uni \in [Addresses -> Sessions \cup {None}]
    BY DEF Init
  <2>3. multi \in Seq(Sessions) /\ any \in [next : Nat, list : Seq(Sessions)]
    BY DEF Init
  <2>4. /\ asker \in [Requests -> Users \cup {None}] /\ connected \subseteq Users
        /\ inflight \subseteq [request : Requests, peer : Peers]
        /\ strand \in [Users -> Seq(Requests)] /\ crash \in {"no", "erase", "null link"}
    BY DEF Init
  <2>5. QED
    BY <2>1, <2>2, <2>3, <2>4 DEF TypeOK
<1>2. Placed /\ RoutedIsUp
  BY DEF Init, Placed, RoutedIsUp
<1>3. TablesAgree
  <2>1. multi = <<>> /\ any.list = <<>> /\ \A a \in Addresses : uni[a] = None
    BY DEF Init
  <2>2. ToSet(multi) = {} /\ ToSet(any.list) = {} /\ {uni[a] : a \in Addresses} \ {None} = {}
    BY <2>1 DEF ToSet
  <2>3. IsInjective(multi) /\ IsInjective(any.list)
    BY <2>1 DEF IsInjective
  <2>4. QED
    BY <2>2, <2>3 DEF TablesAgree, Init
<1>4. QED
  BY <1>1, <1>2, <1>3 DEF IInv

LEMMA NextKeeps == IInv /\ [Next]_vars => IInv'
<1> SUFFICES ASSUME IInv, [Next]_vars PROVE IInv'
  OBVIOUS
<1>1. ASSUME crash = "no", NEW s \in Sessions, Handler(s) PROVE IInv'
  <2>1. CASE OnClose(s) \/ Recv_SetAddress_AnsError(s)
    BY <2>1, OnCloseKeeps DEF Recv_SetAddress_AnsError
  <2>2. CASE OnConnect(s) \/ Recv_SetAddress_Req(s) \/ Recv_SetAddress_Ntf(s) \/ Recv_SetAddress_Ans(s)
    BY <2>2, OnConnectKeeps, SetAddressReqKeeps, SetAddressNtfKeeps, SetAddressAnsKeeps
  <2>3. CASE Timeout(s)
    BY <2>3, <1>1, TimeoutKeeps
  <2>4. CASE \E r \in inflight : Recv_SendMsg_Ntf(s, r)
    BY <2>4, <1>1, SendMsgNtfKeeps
  <2>5. CASE \E p \in Addresses : OnAccept(s, p) \/ Connect(s, p)
    BY <2>5, OnAcceptKeeps, ConnectKeeps
  <2>6. QED
    BY <1>1, <2>1, <2>2, <2>3, <2>4, <2>5 DEF Handler
<1>2. ASSUME crash = "no", NEW u \in Users, User(u) PROVE IInv'
  BY <1>2, AnswerKeeps, UserClosesKeeps, SendMsgKeeps DEF User
<1>3. CASE UNCHANGED vars
  <2>1. TypeOK'
    BY <1>3 DEF vars, sessions, tables, users, IInv, TypeOK
  <2>2. Placed' /\ RoutedIsUp' /\ TablesAgree'
    BY <1>3 DEF vars, sessions, tables, users, IInv, Placed, RoutedIsUp, TablesAgree
  <2>3. QED
    BY <2>1, <2>2 DEF IInv
<1>4. QED
  BY <1>1, <1>2, <1>3 DEF Next

LEMMA AlwaysIInv == Spec => []IInv
<1>1. QED
  BY InitHolds, NextKeeps, PTL DEF Spec

\* RouterCaster.cpp:24: whatever the order of handshakes, closes and uses of
\* pooled sessions, a message to a server is put on a link that is up and
\* leads to it.
THEOREM RoutesAreUp == Spec => []RoutedIsUp
<1>1. IInv => RoutedIsUp
  BY DEF IInv
<1>2. QED
  BY AlwaysIInv, <1>1, PTL

\* RouterCaster.cpp:109: the three tables have the same sessions, each once,
\* so that the erase of one iterator removes what it should and nothing else.
THEOREM TablesAlwaysAgree == Spec => []TablesAgree
<1>1. IInv => TablesAgree
  BY DEF IInv
<1>2. QED
  BY AlwaysIInv, <1>1, PTL

\* Router/Session.h:45: the variables keep their types; no session ever has the own address.
THEOREM RouterTypes == Spec => []TypeOK
<1>1. IInv => TypeOK
  BY DEF IInv
<1>2. QED
  BY AlwaysIInv, <1>1, PTL

-----------------------------------------------------------------------------
(* Answers. *)

\* A session of the pool waits for nothing, and no request has a number yet
\* to come.
OnlyLinksWait == \A s \in Sessions : waiting[s] # {} => phase[s] # "free"
Numbered ==
    /\ \A s \in Sessions : \A n \in waiting[s] : n <= msg_seq
    /\ \A u \in Users : \A i \in DOMAIN strand[u] : strand[u][i] <= msg_seq

\* The handler a user has bound is that of each of its requests whose answer
\* may still come.
HandlerFits ==
    OneAtATime =>
        \A u \in Users :
            /\ \A s \in Sessions : \A n \in waiting[s] : asker[n] = u => container[u] \in {0, n}
            /\ \A i \in DOMAIN strand[u] : container[u] \in {0, strand[u][i]}

AInv == OnlyLinksWait /\ Numbered /\ HandlerFits /\ OwnAnswer

\* Links come and go, and requests are dropped: no user is concerned.
LEMMA FewerWait ==
    ASSUME AInv, UNCHANGED <<msg_seq, asker, container, strand, got>>,
           \A s \in Sessions : waiting'[s] \subseteq waiting[s],
           \A s \in Sessions : waiting'[s] # {} => phase'[s] # "free"
    PROVE  AInv'
<1>1. OnlyLinksWait'
  BY DEF OnlyLinksWait
<1>2. Numbered'
  BY DEF AInv, Numbered
<1>3. HandlerFits'
  BY DEF AInv, HandlerFits
<1>4. OwnAnswer'
  BY DEF AInv, OwnAnswer
<1>5. QED
  BY <1>1, <1>2, <1>3, <1>4 DEF AInv

LEMMA LinkStepFits ==
    ASSUME IInv, AInv, NEW s \in Sessions,
           \/ OnConnect(s) \/ OnClose(s) \/ Timeout(s)
           \/ Recv_SetAddress_Req(s) \/ Recv_SetAddress_Ntf(s) \/ Recv_SetAddress_Ans(s)
           \/ \E p \in Addresses : OnAccept(s, p) \/ Connect(s, p)
    PROVE  AInv'
<1>1. /\ phase \in [Sessions -> Phases] /\ waiting \in [Sessions -> SUBSET Requests]
  BY DEF IInv, TypeOK, Phases
<1>2. UNCHANGED <<msg_seq, users>>
  BY DEF OnConnect, OnClose, Timeout, Recv_SetAddress_Req, Recv_SetAddress_Ntf,
         Recv_SetAddress_Ans, OnAccept, Connect
<1>3. UNCHANGED <<msg_seq, asker, container, strand, got>>
  BY <1>2 DEF users
<1>4. CASE OnClose(s) \/ OnConnect(s)
  <2>1. waiting' = [waiting EXCEPT ![s] = {}] /\ \A x \in Sessions \ {s} : phase'[x] = phase[x]
    BY <1>1, <1>4 DEF OnClose, OnConnect
  <2>2. QED
    BY <1>1, <1>3, <2>1, FewerWait DEF AInv, OnlyLinksWait
<1>5. CASE Timeout(s)
  <2>1. phase' = phase /\ \A x \in Sessions : waiting'[x] \subseteq waiting[x]
    BY <1>1, <1>5 DEF Timeout
  <2>2. \A x \in Sessions : waiting'[x] # {} => phase'[x] # "free"
    BY <2>1 DEF AInv, OnlyLinksWait
  <2>3. QED
    BY <1>3, <2>1, <2>2, FewerWait
<1>6. CASE \/ Recv_SetAddress_Req(s) \/ Recv_SetAddress_Ntf(s) \/ Recv_SetAddress_Ans(s)
           \/ \E p \in Addresses : OnAccept(s, p) \/ Connect(s, p)
  <2>1. waiting' = waiting /\ phase'[s] # "free" /\ \A x \in Sessions \ {s} : phase'[x] = phase[x]
    BY <1>1, <1>6 DEF Recv_SetAddress_Req, Recv_SetAddress_Ntf, Recv_SetAddress_Ans, OnAccept, Connect
  <2>2. \A x \in Sessions : waiting'[x] # {} => phase'[x] # "free"
    BY <2>1 DEF AInv, OnlyLinksWait
  <2>3. QED
    BY <1>3, <2>1, <2>2, FewerWait
<1>7. QED
  BY <1>4, <1>5, <1>6

\* A new request goes to links that are up, with a number nobody waits for.
LEMMA SendMsgFits ==
    ASSUME IInv, AInv, NEW u \in Users, NEW cast \in {"uni", "multi", "any"}, NEW a \in Peers,
           SendMsg(u, cast, a)
    PROVE  AInv'
<1> DEFINE n == msg_seq + 1
<1> DEFINE to == Routes(cast, a)
<1>1. /\ msg_seq < MaxSends /\ msg_seq' = n
      /\ asker' = [asker EXCEPT ![n] = u] /\ container' = [container EXCEPT ![u] = n]
      /\ waiting' = [s \in Sessions |-> IF s \in to THEN waiting[s] \cup {n} ELSE waiting[s]]
      /\ UNCHANGED <<phase, strand, got>>
      /\ OneAtATime => ~Outstanding(u)
  BY DEF SendMsg
<1>2. /\ msg_seq \in Nat /\ asker \in [Requests -> Users \cup {None}]
      /\ container \in [Users -> 0..MaxSends] /\ waiting \in [Sessions -> SUBSET Requests]
      /\ strand \in [Users -> Seq(Requests)] /\ MaxSends \in Nat
  <2>1. MaxSends \in Nat /\ msg_seq \in 0..MaxSends
    BY RouterAssumption DEF IInv, TypeOK, RouterAssumption
  <2>2. /\ asker \in [Requests -> Users \cup {None}] /\ container \in [Users -> 0..MaxSends]
        /\ waiting \in [Sessions -> SUBSET Requests] /\ strand \in [Users -> Seq(Requests)]
    BY DEF IInv, TypeOK
  <2>3. QED
    BY <2>1, <2>2
<1>3. n \in Requests /\ n > msg_seq /\ \A m \in Requests : m \in Nat
  BY <1>1, <1>2 DEF Requests
<1>4. \A s \in to : phase[s] = "up"
  BY RoutesLead, RoutedIsUpNow
<1>5. \A s \in Sessions : waiting'[s] = IF s \in to THEN waiting[s] \cup {n} ELSE waiting[s]
  BY <1>1
<1> HIDE DEF to
<1>6. OnlyLinksWait'
  BY <1>1, <1>4, <1>5 DEF AInv, OnlyLinksWait
<1>7. Numbered'
  <2>1. ASSUME NEW s \in Sessions, NEW m \in waiting'[s]
        PROVE  m <= n
    <3>1. CASE m = n
      BY <3>1, <1>2
    <3>2. CASE m # n
      <4>1. m \in waiting[s] /\ m \in Requests
        BY <2>1, <3>2, <1>5, <1>2
      <4>2. m <= msg_seq
        BY <4>1 DEF AInv, Numbered
      <4>3. QED
        BY <4>1, <4>2, <1>2, <1>3
    <3>3. QED
      BY <3>1, <3>2
  <2>2. ASSUME NEW v \in Users, NEW i \in DOMAIN strand[v]
        PROVE  strand[v][i] <= n
    <3>1. strand[v] \in Seq(Requests)
      BY <1>2
    <3>2. strand[v][i] \in Requests
      BY <3>1
    <3>3. strand[v][i] <= msg_seq
      BY DEF AInv, Numbered
    <3>4. QED
      BY <3>2, <3>3, <1>2, <1>3
  <2>3. QED
    BY <2>1, <2>2, <1>1 DEF Numbered
<1>8. HandlerFits'
  <2>1. ASSUME OneAtATime, NEW v \in Users, NEW s \in Sessions, NEW m \in waiting'[s], asker'[m] = v
        PROVE  container'[v] \in {0, m}
    <3>1. CASE m = n
      <4>1. v = u
        BY <2>1, <3>1, <1>1, <1>2, <1>3
      <4>2. QED
        BY <3>1, <4>1, <1>1, <1>2
    <3>2. CASE m # n
      <4>1. m \in waiting[s] /\ asker[m] = v
        BY <2>1, <3>2, <1>1, <1>2, <1>5
      <4>2. v # u
        BY <4>1, <2>1, <1>1 DEF Outstanding, AInv, OnlyLinksWait
      <4>3. container'[v] = container[v]
        BY <4>2, <1>1, <1>2
      <4>4. QED
        BY <4>1, <4>3, <2>1 DEF AInv, HandlerFits
    <3>3. QED
      BY <3>1, <3>2
  <2>2. ASSUME OneAtATime, NEW v \in Users, NEW i \in DOMAIN strand'[v]
        PROVE  container'[v] \in {0, strand'[v][i]}
    <3>1. strand[v] # <<>>
      BY <2>2, <1>1, <1>2
    <3>2. v # u
      BY <3>1, <2>2, <1>1 DEF Outstanding
    <3>3. container'[v] = container[v]
      BY <3>2, <1>1, <1>2
    <3>4. QED
      BY <3>3, <2>2, <1>1 DEF AInv, HandlerFits
  <2>3. QED
    BY <2>1, <2>2 DEF HandlerFits
<1>9. OwnAnswer'
  BY <1>1 DEF AInv, OwnAnswer
<1>10. QED
  BY <1>6, <1>7, <1>8, <1>9 DEF AInv

\* An answer reaches the strand of its user while its request is waited for.
LEMMA SendMsgNtfFits ==
    ASSUME IInv, AInv, NEW s \in Sessions, NEW r \in inflight, Recv_SendMsg_Ntf(s, r)
    PROVE  AInv'
<1>1. /\ phase' = phase /\ waiting \in [Sessions -> SUBSET Requests]
      /\ strand \in [Users -> Seq(Requests)] /\ connected \subseteq Users
      /\ address \in [Sessions -> Peers \cup {None}]
      /\ UNCHANGED <<msg_seq, asker, container, got>>
  BY DEF Recv_SendMsg_Ntf, IInv, TypeOK
<1>2. CASE UNCHANGED <<waiting, strand>>
  BY <1>1, <1>2, FewerWait DEF AInv, OnlyLinksWait
<1>3. CASE \E x \in Sessions :
             /\ r.request \in waiting[x]
             /\ waiting' = [waiting EXCEPT ![x] = @ \ {r.request}]
             /\ \/ UNCHANGED strand
                \/ /\ asker[r.request] \in connected
                   /\ strand' = [strand EXCEPT ![asker[r.request]] = Append(@, r.request)]
  <2> DEFINE n == r.request
             u == asker[n]
  <2>1. PICK x \in Sessions :
             /\ n \in waiting[x]
             /\ waiting' = [waiting EXCEPT ![x] = @ \ {n}]
             /\ \/ UNCHANGED strand
                \/ /\ u \in connected
                   /\ strand' = [strand EXCEPT ![u] = Append(@, n)]
    BY <1>3
  <2>2. /\ \A y \in Sessions : waiting'[y] \subseteq waiting[y]
        /\ \A y \in Sessions : waiting'[y] # {} => phase'[y] # "free"
    BY <2>1, <1>1 DEF AInv, OnlyLinksWait
  <2>3. CASE UNCHANGED strand
    BY <2>2, <2>3, <1>1, FewerWait
  <2>4. CASE u \in connected /\ strand' = [strand EXCEPT ![u] = Append(@, n)]
    <3> HIDE DEF u, n
    <3>1. /\ u \in Users /\ n \in Requests /\ strand[u] \in Seq(Requests)
          /\ \A v \in Users \ {u} : strand'[v] = strand[v]
          /\ strand'[u] = Append(strand[u], n)
      BY <2>1, <2>4, <1>1
    <3>2. /\ n <= msg_seq /\ asker[n] = u
          /\ OneAtATime => container[u] \in {0, n}
      BY <3>1, <2>1 DEF AInv, Numbered, HandlerFits, u
    <3>3. \A i \in DOMAIN strand'[u] : strand'[u][i] = n \/ (i \in DOMAIN strand[u] /\ strand'[u][i] = strand[u][i])
      BY <3>1
    <3>4. Numbered'
      BY <3>1, <3>2, <3>3, <2>2, <1>1 DEF AInv, Numbered
    <3>5. HandlerFits'
      BY <3>1, <3>2, <3>3, <2>2, <1>1 DEF AInv, HandlerFits
    <3>6. OnlyLinksWait' /\ OwnAnswer'
      BY <2>2, <1>1 DEF AInv, OnlyLinksWait, OwnAnswer
    <3>7. QED
      BY <3>4, <3>5, <3>6 DEF AInv
  <2>5. QED
    BY <2>1, <2>3, <2>4
<1>4. QED
  <2> DEFINE x == IF address[s] = None THEN None ELSE uni[address[s]]
  <2>1. x # None => x \in Sessions
    BY RouterAssumption DEF IInv, TypeOK, Addresses, RouterAssumption
  <2>2. \/ UNCHANGED <<waiting, strand>>
        \/ /\ x # None /\ r.request \in waiting[x]
           /\ waiting' = [waiting EXCEPT ![x] = @ \ {r.request}]
           /\ \/ UNCHANGED strand
              \/ /\ asker[r.request] \in connected
                 /\ strand' = [strand EXCEPT ![asker[r.request]] = Append(@, r.request)]
    BY DEF Recv_SendMsg_Ntf
  <2> HIDE DEF x
  <2>3. QED
    BY <2>1, <2>2, <1>2, <1>3

LEMMA TailOf ==
    ASSUME NEW S, NEW q \in Seq(S), q # <<>>
    PROVE  /\ 1 \in DOMAIN q /\ Head(q) = q[1]
           /\ \A i \in DOMAIN Tail(q) : i + 1 \in DOMAIN q /\ Tail(q)[i] = q[i + 1]
<1>1. Len(q) \in Nat \ {0} /\ DOMAIN q = 1..Len(q)
  OBVIOUS
<1>2. Len(Tail(q)) = Len(q) - 1 /\ DOMAIN Tail(q) = 1..(Len(q) - 1)
  BY <1>1
<1>3. \A i \in 1..(Len(q) - 1) : i + 1 \in 1..Len(q) /\ Tail(q)[i] = q[i + 1]
  BY <1>1
<1>4. QED
  BY <1>1, <1>2, <1>3

\* What the handler gets is the answer to what it has asked.
LEMMA AnswerFits ==
    ASSUME IInv, AInv, NEW u \in Users, Answer(u)
    PROVE  AInv'
<1>1. /\ strand[u] # <<>> /\ strand' = [strand EXCEPT ![u] = Tail(@)]
      /\ container' = [container EXCEPT ![u] = 0]
      /\ got' = IF container[u] = 0 THEN got
                ELSE got \cup {[user |-> u, handler |-> container[u], answer |-> Head(strand[u])]}
      /\ UNCHANGED <<phase, waiting, msg_seq, asker>>
  BY DEF Answer, sessions
<1>2. /\ strand \in [Users -> Seq(Requests)] /\ container \in [Users -> 0..MaxSends]
  BY DEF IInv, TypeOK
<1>3. /\ strand[u] \in Seq(Requests) /\ strand'[u] = Tail(strand[u])
      /\ \A v \in Users \ {u} : strand'[v] = strand[v] /\ container'[v] = container[v]
      /\ container'[u] = 0
  BY <1>1, <1>2
<1>4. /\ 1 \in DOMAIN strand[u] /\ Head(strand[u]) = strand[u][1]
      /\ \A i \in DOMAIN strand'[u] : i + 1 \in DOMAIN strand[u] /\ strand'[u][i] = strand[u][i + 1]
  <2> DEFINE q == strand[u]
  <2>1. q \in Seq(Requests) /\ q # <<>> /\ strand'[u] = Tail(q)
    BY <1>1, <1>3
  <2> HIDE DEF q
  <2>2. /\ 1 \in DOMAIN q /\ Head(q) = q[1]
        /\ \A i \in DOMAIN Tail(q) : i + 1 \in DOMAIN q /\ Tail(q)[i] = q[i + 1]
    BY <2>1, TailOf, Zenon
  <2>3. QED
    BY <2>1, <2>2 DEF q
<1>5. OnlyLinksWait'
  BY <1>1 DEF AInv, OnlyLinksWait
<1>6. Numbered'
  BY <1>1, <1>3, <1>4 DEF AInv, Numbered
<1>7. HandlerFits'
  BY <1>1, <1>3 DEF AInv, HandlerFits
<1>8. OwnAnswer'
  <2>1. OneAtATime => container[u] \in {0, Head(strand[u])}
    BY <1>4 DEF AInv, HandlerFits
  <2>2. QED
    BY <2>1, <1>1 DEF AInv, OwnAnswer
<1>9. QED
  BY <1>5, <1>6, <1>7, <1>8 DEF AInv

LEMMA NextFits == IInv /\ AInv /\ [Next]_vars => AInv'
<1> SUFFICES ASSUME IInv, AInv, [Next]_vars PROVE AInv'
  OBVIOUS
<1>1. ASSUME NEW s \in Sessions, Handler(s) PROVE AInv'
  BY <1>1, LinkStepFits, SendMsgNtfFits DEF Handler, Recv_SetAddress_AnsError
<1>2. ASSUME NEW u \in Users, User(u) PROVE AInv'
  <2>1. CASE UserCloses(u)
    <3>1. UNCHANGED <<phase, waiting, msg_seq, asker, container, strand, got>>
      BY <2>1 DEF UserCloses, sessions
    <3>2. QED
      BY <3>1, FewerWait DEF AInv, OnlyLinksWait
  <2>2. QED
    BY <1>2, <2>1, AnswerFits, SendMsgFits DEF User
<1>3. CASE UNCHANGED vars
  <2>1. UNCHANGED <<phase, waiting, msg_seq, asker, container, strand, got>>
    BY <1>3 DEF vars, sessions, users
  <2>2. QED
    BY <2>1, FewerWait DEF AInv, OnlyLinksWait
<1>4. QED
  BY <1>1, <1>2, <1>3 DEF Next

LEMMA InitFits == Init => AInv
BY DEF Init, AInv, OnlyLinksWait, Numbered, HandlerFits, OwnAnswer

\* RouterHandler.cpp:45, HandlerContainer.h: with any number of servers, links
\* and requests, a handler that asks one thing at a time never gets the answer
\* to another request, although answers are found by message id only, may come
\* late or several times, and sessions are used again.
THEOREM AnswersAreOwn == Spec => []OwnAnswer
<1>1. AInv => OwnAnswer
  BY DEF AInv
<1>2. Spec => []AInv
  BY InitFits, NextFits, AlwaysIInv, PTL DEF Spec
<1>3. QED
  BY <1>1, <1>2, PTL
=============================================================================
