-------------------------- MODULE TcpSessionProofs --------------------------
(***************************************************************************)
(* Proofs about TcpSession: for any number of threads, connections and     *)
(* sessions, Session::link never leads to a link with another session or   *)
(* to a closed one; each session is attached to at most the link it points *)
(* at, but for one on which a reconnect has met another handler; and no    *)
(* token is good more often than there are threads.                        *)
(***************************************************************************)
EXTENDS TcpSession, FiniteSetTheorems, TLAPS

\* The types the argument needs.
Types ==
    /\ conn \in [Links -> {"new", "open", "closed"}]
    /\ link_session \in [Links -> Sessions \cup {None}]
    /\ session_link \in [Sessions -> Links \cup {None}]
    /\ task \in [Links -> {"none", "message", "close", "detach", "attach"}]
    /\ other \in [Links -> Sessions \cup {None}]
    /\ sessions \subseteq Sessions
    /\ \A l \in Links : task[l] \in {"detach", "attach"} => other[l] \in Sessions

\* A handler runs on an open link only, and only an open link has a session.
BusyIsOpen == \A l \in Links : task[l] # "none" => conn[l] = "open"
AttachedIsOpen == \A l \in Links : link_session[l] # None => conn[l] = "open"

IInv == Types /\ PointsHome /\ BusyIsOpen /\ AttachedIsOpen

LEMMA NoneIsNothing == None \notin Links /\ None \notin Sessions
BY TcpSessionAssumption DEF TcpSessionAssumption

\* AttachSession keeps both pointers together, whatever was attached before.
LEMMA AttachKeepsHome ==
    ASSUME IInv, NEW l \in Links, NEW session \in Sessions \cup {None},
           AttachSession(l, session)
    PROVE  /\ link_session' \in [Links -> Sessions \cup {None}]
           /\ session_link' \in [Sessions -> Links \cup {None}]
           /\ PointsHome'
           /\ \A k \in Links : link_session'[k] = IF k = l THEN session ELSE link_session[k]
<1>1. /\ link_session \in [Links -> Sessions \cup {None}]
      /\ session_link \in [Sessions -> Links \cup {None}]
  BY DEF IInv, Types
<1>2. /\ link_session' \in [Links -> Sessions \cup {None}]
      /\ \A k \in Links : link_session'[k] = IF k = l THEN session ELSE link_session[k]
  BY <1>1 DEF AttachSession
<1>3. /\ session_link' \in [Sessions -> Links \cup {None}]
      /\ \A s \in Sessions : session_link'[s] =
            IF s = session THEN l
            ELSE IF s = link_session[l] THEN None ELSE session_link[s]
  BY <1>1 DEF AttachSession
<1>4. ASSUME NEW s \in Sessions, NEW k \in Links, session_link'[s] = k
      PROVE  link_session'[k] = s
  <2>1. CASE s = session
    BY <1>2, <1>3, <1>4, <2>1
  <2>2. CASE s # session
    <3>1. s # link_session[l] /\ session_link[s] = k
      BY <1>3, <1>4, <2>2, NoneIsNothing
    <3>2. link_session[k] = s
      BY <3>1 DEF IInv, PointsHome
    <3>3. QED
      BY <1>2, <3>1, <3>2
  <2>3. QED
    BY <2>1, <2>2
<1>5. QED
  BY <1>2, <1>3, <1>4 DEF PointsHome

\* Taking a session away disturbs nothing else.
LEMMA DetachKeeps ==
    ASSUME IInv, NEW l \in Links, AttachSession(l, None)
    PROVE  /\ link_session' \in [Links -> Sessions \cup {None}]
           /\ session_link' \in [Sessions -> Links \cup {None}]
           /\ PointsHome'
           /\ \A k \in Links : link_session'[k] # None => link_session[k] # None /\ k # l
BY AttachKeepsHome

LEMMA SamePointers ==
    ASSUME IInv, UNCHANGED <<link_session, session_link>>
    PROVE  /\ link_session' \in [Links -> Sessions \cup {None}]
           /\ session_link' \in [Sessions -> Links \cup {None}]
           /\ PointsHome'
           /\ \A k \in Links : link_session'[k] # None => link_session[k] # None
BY DEF IInv, Types, PointsHome

LEMMA DetachOther ==
    ASSUME IInv, NEW s \in Sessions, Detach(s)
    PROVE  /\ link_session' \in [Links -> Sessions \cup {None}]
           /\ session_link' \in [Sessions -> Links \cup {None}]
           /\ PointsHome'
           /\ \A k \in Links : link_session'[k] # None => link_session[k] # None
<1>1. session_link[s] \in Links \cup {None}
  BY DEF IInv, Types
<1>2. CASE UNCHANGED <<link_session, session_link>>
  BY <1>2, SamePointers
<1>3. CASE session_link[s] # None /\ AttachSession(session_link[s], None)
  BY <1>1, <1>3, DetachKeeps
<1>4. QED
  BY <1>2, <1>3, NoneIsNothing DEF Detach, Resting

\* A step that attaches no session, opens and closes no link and starts
\* handlers on open links only.
LEMMA QuietStep ==
    ASSUME IInv, conn' = conn, NEW l \in Links, conn[l] = "open",
           NEW t \in {"none", "message", "close", "detach", "attach"},
           NEW o \in Sessions \cup {None},
           task' = [task EXCEPT ![l] = t], other' = [other EXCEPT ![l] = o],
           t \in {"detach", "attach"} => o \in Sessions, sessions' \subseteq Sessions,
           link_session' \in [Links -> Sessions \cup {None}],
           session_link' \in [Sessions -> Links \cup {None}],
           PointsHome',
           \A k \in Links : link_session'[k] # None => link_session[k] # None
    PROVE  IInv'
<1>1. Types'
  BY DEF IInv, Types
<1>2. BusyIsOpen'
  BY DEF IInv, Types, BusyIsOpen
<1>3. AttachedIsOpen'
  BY DEF IInv, AttachedIsOpen
<1>4. QED
  BY <1>1, <1>2, <1>3 DEF IInv

-----------------------------------------------------------------------------
LEMMA InitStep ==
    ASSUME Init
    PROVE  IInv
<1>1. Types
  BY DEF Init, Types
<1>2. PointsHome
  BY NoneIsNothing DEF Init, PointsHome
<1>3. BusyIsOpen /\ AttachedIsOpen
  BY DEF Init, BusyIsOpen, AttachedIsOpen
<1>4. QED
  BY <1>1, <1>2, <1>3 DEF IInv

LEMMA OnAcceptStep ==
    ASSUME IInv, NEW l \in Links, OnAccept(l)
    PROVE  IInv'
<1>1. PICK s \in Sessions : AttachSession(l, s)
  BY DEF OnAccept
<1>2. /\ link_session' \in [Links -> Sessions \cup {None}]
      /\ session_link' \in [Sessions -> Links \cup {None}]
      /\ PointsHome'
      /\ \A k \in Links : link_session'[k] = IF k = l THEN s ELSE link_session[k]
  BY <1>1, AttachKeepsHome
<1>3. /\ conn' = [conn EXCEPT ![l] = "open"] /\ task' = task /\ other' = other
      /\ sessions' = sessions
  BY DEF OnAccept
<1>4. Types'
  BY <1>2, <1>3 DEF IInv, Types
<1>5. BusyIsOpen' /\ AttachedIsOpen'
  BY <1>2, <1>3 DEF IInv, Types, BusyIsOpen, AttachedIsOpen
<1>6. QED
  BY <1>2, <1>4, <1>5 DEF IInv

LEMMA BeginStep ==
    ASSUME IInv, NEW l \in Links,
           MessageBegins(l) \/ MessageEnds(l) \/ CloseBegins(l)
    PROVE  IInv'
<1>1. PICK t \in {"none", "message", "close"} : task' = [task EXCEPT ![l] = t]
  BY DEF MessageBegins, MessageEnds, CloseBegins
<1>2. conn[l] = "open"
  BY DEF MessageBegins, MessageEnds, CloseBegins, IInv, BusyIsOpen
<1>3. UNCHANGED <<conn, link_session, session_link, other, sessions>>
  BY DEF MessageBegins, MessageEnds, CloseBegins
<1>4. /\ other[l] \in Sessions \cup {None} /\ other' = [other EXCEPT ![l] = other[l]]
      /\ sessions' \subseteq Sessions
  BY <1>3 DEF IInv, Types
<1>5. QED
  BY <1>1, <1>2, <1>3, <1>4, SamePointers, QuietStep

LEMMA KickOutStep ==
    ASSUME IInv, NEW l \in Links, KickOut(l)
    PROVE  IInv'
<1>1. PICK s \in Sessions : Detach(s)
  BY DEF KickOut, IInv, Types
<1>2. /\ conn[l] = "open" /\ conn' = conn /\ task' = [task EXCEPT ![l] = "none"]
      /\ other[l] \in Sessions \cup {None} /\ other' = [other EXCEPT ![l] = other[l]]
      /\ sessions' \subseteq Sessions
  BY DEF KickOut, IInv, BusyIsOpen, Types
<1>3. QED
  BY <1>1, <1>2, DetachOther, QuietStep

LEMMA ConnectReqStep ==
    ASSUME IInv, NEW l \in Links, Recv_Connect_Req(l)
    PROVE  IInv'
<1>1. /\ UNCHANGED <<conn, link_session, session_link, task, other>>
      /\ sessions' \subseteq Sessions
  BY DEF Recv_Connect_Req, IInv, Types
<1>2. QED
  BY <1>1 DEF IInv, Types, PointsHome, BusyIsOpen, AttachedIsOpen

\* A reconnect that is refused takes the session of its own link away; one that
\* is accepted remembers the session it found.
LEMMA ReconnectReqStep ==
    ASSUME IInv, NEW l \in Links, Recv_Reconnect_Req(l)
    PROVE  IInv'
<1>1. conn[l] = "open" /\ conn' = conn /\ sessions' \subseteq Sessions
  BY DEF Recv_Reconnect_Req, IInv, Types
<1>2. CASE \E o \in Sessions :
              /\ other' = [other EXCEPT ![l] = o]
              /\ task' = [task EXCEPT ![l] = "detach"]
              /\ UNCHANGED <<link_session, session_link>>
  BY <1>1, <1>2, SamePointers, QuietStep
<1>3. CASE AttachSession(l, None) /\ UNCHANGED <<other, task>>
  <2>1. /\ other[l] \in Sessions \cup {None}
        /\ task[l] \in {"none", "message", "close", "detach", "attach"}
        /\ task[l] \in {"detach", "attach"} => other[l] \in Sessions
        /\ other' = [other EXCEPT ![l] = other[l]]
        /\ task' = [task EXCEPT ![l] = task[l]]
    BY <1>3 DEF IInv, Types
  <2>2. QED
    BY <1>1, <1>3, <2>1, DetachKeeps, QuietStep
<1>4. QED
  BY <1>2, <1>3 DEF Recv_Reconnect_Req

LEMMA ReconnectDetachesStep ==
    ASSUME IInv, NEW l \in Links, ReconnectDetaches(l), other[l] \in Sessions
    PROVE  IInv'
<1>1. /\ conn[l] = "open" /\ conn' = conn /\ sessions' \subseteq Sessions
      /\ task' = [task EXCEPT ![l] = "attach"]
      /\ other' = [other EXCEPT ![l] = other[l]]
      /\ Detach(other[l])
  BY DEF ReconnectDetaches, IInv, BusyIsOpen, Types
<1>2. QED
  BY <1>1, DetachOther, QuietStep

LEMMA ReconnectAttachesStep ==
    ASSUME IInv, NEW l \in Links, ReconnectAttaches(l)
    PROVE  IInv'
<1>1. /\ task[l] = "attach" /\ conn[l] = "open" /\ conn' = conn
      /\ sessions' \subseteq Sessions
      /\ task' = [task EXCEPT ![l] = "none"]
      /\ other' = [other EXCEPT ![l] = None]
      /\ other[l] \in Sessions /\ AttachSession(l, other[l])
  BY DEF ReconnectAttaches, IInv, BusyIsOpen, Types
<1>2. /\ link_session' \in [Links -> Sessions \cup {None}]
      /\ session_link' \in [Sessions -> Links \cup {None}]
      /\ PointsHome'
      /\ \A k \in Links : link_session'[k] = IF k = l THEN other[l] ELSE link_session[k]
  BY <1>1, AttachKeepsHome
<1>3. Types'
  BY <1>1, <1>2 DEF IInv, Types
<1>4. BusyIsOpen' /\ AttachedIsOpen'
  BY <1>1, <1>2 DEF IInv, Types, BusyIsOpen, AttachedIsOpen
<1>5. QED
  BY <1>2, <1>3, <1>4 DEF IInv

LEMMA RunDetachStep ==
    ASSUME IInv, NEW l \in Links, RunDetach(l)
    PROVE  IInv'
<1>1. AttachSession(l, None) /\ UNCHANGED <<conn, task, other, sessions>>
  BY DEF RunDetach
<1>2. /\ link_session' \in [Links -> Sessions \cup {None}]
      /\ session_link' \in [Sessions -> Links \cup {None}]
      /\ PointsHome'
      /\ \A k \in Links : link_session'[k] # None => link_session[k] # None
  BY <1>1, DetachKeeps
<1>3. QED
  BY <1>1, <1>2 DEF IInv, Types, BusyIsOpen, AttachedIsOpen

LEMMA CloseEndsStep ==
    ASSUME IInv, NEW l \in Links, CloseEnds(l)
    PROVE  IInv'
<1>1. /\ AttachSession(l, None) /\ UNCHANGED <<other, sessions>>
      /\ conn' = [conn EXCEPT ![l] = "closed"]
      /\ task' = [task EXCEPT ![l] = "none"]
  BY DEF CloseEnds
<1>2. /\ link_session' \in [Links -> Sessions \cup {None}]
      /\ session_link' \in [Sessions -> Links \cup {None}]
      /\ PointsHome'
      /\ \A k \in Links : link_session'[k] # None => link_session[k] # None /\ k # l
  BY <1>1, DetachKeeps
<1>3. Types'
  BY <1>1, <1>2 DEF IInv, Types
<1>4. BusyIsOpen' /\ AttachedIsOpen'
  BY <1>1, <1>2 DEF IInv, Types, BusyIsOpen, AttachedIsOpen
<1>5. QED
  BY <1>2, <1>3, <1>4 DEF IInv

LEMMA IdleTimerStep ==
    ASSUME IInv, NEW s \in Sessions, IdleTimer(s)
    PROVE  IInv'
<1>1. /\ UNCHANGED <<conn, link_session, session_link, task, other>>
      /\ sessions' \subseteq Sessions
  BY DEF IdleTimer, IInv, Types
<1>2. QED
  BY <1>1 DEF IInv, Types, PointsHome, BusyIsOpen, AttachedIsOpen

LEMMA NextStep ==
    ASSUME IInv, [Next]_vars
    PROVE  IInv'
<1>1. ASSUME NEW l \in Links, Thread(l)
      PROVE  IInv'
  <2>1. ReconnectDetaches(l) => other[l] \in Sessions
    BY DEF ReconnectDetaches, IInv, Types
  <2>2. QED
    BY <1>1, <2>1, BeginStep, ReconnectDetachesStep, ReconnectAttachesStep,
       RunDetachStep, CloseEndsStep DEF Thread
<1>2. CASE UNCHANGED vars
  BY <1>2 DEF vars, IInv, Types, PointsHome, BusyIsOpen, AttachedIsOpen
<1>3. QED
  BY <1>1, <1>2, OnAcceptStep, BeginStep, KickOutStep, ConnectReqStep,
     ReconnectReqStep, IdleTimerStep DEF Next

LEMMA Inductive == Spec => []IInv
BY InitStep, NextStep, PTL DEF Spec

\* A session that points at a link is the session of that link, however many
\* reconnects, kick-outs and closes race on different threads: AsyncSend
\* through Session::link never writes to somebody else's connection.
THEOREM SendsGoHome == Spec => []PointsHome
<1>1. IInv => PointsHome
  BY DEF IInv
<1>2. QED
  BY <1>1, Inductive, PTL

\* Neither a closed link nor one that was never opened has a session, and no
\* session points at one.
THEOREM ClosedIsEmpty == Spec => []ClosedHasNoSession
<1>1. IInv => ClosedHasNoSession
  BY NoneIsNothing DEF IInv, PointsHome, AttachedIsOpen, ClosedHasNoSession
<1>2. QED
  BY <1>1, Inductive, PTL
-----------------------------------------------------------------------------
(* Types. *)

\* One more use of a token.
LEMMA OneMore ==
    ASSUME NEW D, NEW g \in [D -> Nat], NEW t \in D
    PROVE  /\ [g EXCEPT ![t] = @ + 1] \in [D -> Nat]
           /\ \A n \in D : [g EXCEPT ![t] = @ + 1][n] = IF n = t THEN g[t] + 1 ELSE g[n]
<1>1. g[t] + 1 \in Nat
  OBVIOUS
<1>2. [g EXCEPT ![t] = g[t] + 1] \in [D -> Nat]
  BY <1>1
<1>3. QED
  BY <1>2

LEMMA AttachTypes ==
    ASSUME TypeOK, NEW l \in Links, NEW s \in Sessions \cup {None}, AttachSession(l, s)
    PROVE  /\ link_session' \in [Links -> Sessions \cup {None}]
           /\ session_link' \in [Sessions -> Links \cup {None}]
BY DEF TypeOK, AttachSession

LEMMA DetachTypes ==
    ASSUME TypeOK, NEW s \in Sessions, Detach(s)
    PROVE  /\ link_session' \in [Links -> Sessions \cup {None}]
           /\ session_link' \in [Sessions -> Links \cup {None}]
           /\ detaching' \subseteq Links
<1> DEFINE old == session_link[s]
<1>1. /\ old \in Links \cup {None} /\ detaching \subseteq Links
      /\ link_session \in [Links -> Sessions \cup {None}]
      /\ session_link \in [Sessions -> Links \cup {None}]
  BY DEF TypeOK
<1>2. CASE UNCHANGED <<link_session, session_link, detaching>>
  BY <1>1, <1>2
<1>3. CASE old \in Links /\ AttachSession(old, None) /\ UNCHANGED detaching
  BY <1>1, <1>3, AttachTypes
<1>4. CASE /\ old # None /\ detaching' = detaching \cup {old}
           /\ UNCHANGED <<link_session, session_link>>
  BY <1>1, <1>4
<1>5. QED
  BY <1>1, <1>2, <1>3, <1>4 DEF Detach, Resting

LEMMA AcceptTypes ==
    ASSUME TypeOK, NEW l \in Links, OnAccept(l), UNCHANGED threads
    PROVE TypeOK'
<1>1. PICK s \in Sessions : AttachSession(l, s)
  BY DEF OnAccept
<1>2. /\ link_session' \in [Links -> Sessions \cup {None}]
      /\ session_link' \in [Sessions -> Links \cup {None}]
  BY <1>1, AttachTypes
<1>3. QED
  BY <1>2 DEF TypeOK, OnAccept

LEMMA BeginTypes ==
    ASSUME TypeOK, NEW l \in Links, MessageBegins(l), UNCHANGED threads
    PROVE TypeOK'
BY TcpSessionAssumption DEF TypeOK, TcpSessionAssumption, MessageBegins, Idle

LEMMA EndTypes ==
    ASSUME TypeOK, NEW l \in Links, MessageEnds(l), UNCHANGED threads
    PROVE TypeOK'
BY TcpSessionAssumption DEF TypeOK, TcpSessionAssumption, MessageEnds

LEMMA KickTypes ==
    ASSUME TypeOK, NEW l \in Links, KickOut(l), UNCHANGED threads
    PROVE TypeOK'
<1>1. PICK s \in Sessions : Detach(s)
  BY DEF KickOut, TypeOK
<1>2. /\ link_session' \in [Links -> Sessions \cup {None}]
      /\ session_link' \in [Sessions -> Links \cup {None}]
      /\ detaching' \subseteq Links
  BY <1>1, DetachTypes
<1>3. task[l] = "message" /\ task' = [task EXCEPT ![l] = "none"]
  BY DEF KickOut
<1>4. UNCHANGED <<conn, sessions, token, other, used, crossed, destroyed>>
  BY DEF KickOut
<1>5. /\ task' \in [Links -> {"none", "message", "close", "detach", "attach"}]
      /\ \A k \in Links : other'[k] # None <=> task'[k] \in {"detach", "attach"}
  BY <1>3, <1>4 DEF TypeOK
<1>6. QED
  BY <1>2, <1>4, <1>5 DEF TypeOK

LEMMA ReconnectReqTypes ==
    ASSUME TypeOK, NEW l \in Links, Recv_Reconnect_Req(l), UNCHANGED threads
    PROVE TypeOK'
<1>1. PICK s \in Sessions, o \in Sessions, t \in 1..MaxToken :
         \/ /\ other' = [other EXCEPT ![l] = o]
            /\ task' = [task EXCEPT ![l] = "detach"]
            /\ used' = [used EXCEPT ![o][t] = @ + 1]
            /\ crossed' \in {crossed, crossed \cup {o}}
            /\ UNCHANGED <<link_session, session_link>>
         \/ /\ AttachSession(l, None)
            /\ UNCHANGED <<other, task, used, crossed>>
  BY DEF Recv_Reconnect_Req
<1>2. UNCHANGED <<conn, sessions, token, detaching, destroyed>>
  BY DEF Recv_Reconnect_Req
<1>3. MaxToken \in Nat /\ None \notin Sessions
  BY TcpSessionAssumption DEF TcpSessionAssumption
<1>4. CASE /\ other' = [other EXCEPT ![l] = o]
           /\ task' = [task EXCEPT ![l] = "detach"]
           /\ used' = [used EXCEPT ![o][t] = @ + 1]
           /\ crossed' \in {crossed, crossed \cup {o}}
           /\ UNCHANGED <<link_session, session_link>>
  <2>1. /\ other' \in [Links -> Sessions \cup {None}]
        /\ task' \in [Links -> {"none", "message", "close", "detach", "attach"}]
        /\ \A k \in Links : other'[k] # None <=> task'[k] \in {"detach", "attach"}
    BY <1>3, <1>4 DEF TypeOK
  <2>2. used' \in [Sessions -> [0..MaxToken -> Nat]]
    <3>1. used[o] \in [0..MaxToken -> Nat] /\ t \in 0..MaxToken
      BY <1>3 DEF TypeOK
    <3>2. [used[o] EXCEPT ![t] = @ + 1] \in [0..MaxToken -> Nat]
      BY <3>1, OneMore
    <3>3. used' = [used EXCEPT ![o] = [used[o] EXCEPT ![t] = @ + 1]]
      BY <1>4
    <3>4. QED
      BY <3>2, <3>3 DEF TypeOK
  <2>3. crossed' \subseteq Sessions
    BY <1>4 DEF TypeOK
  <2>4. QED
    BY <1>2, <1>4, <2>1, <2>2, <2>3 DEF TypeOK
<1>5. CASE AttachSession(l, None) /\ UNCHANGED <<other, task, used, crossed>>
  <2>1. /\ link_session' \in [Links -> Sessions \cup {None}]
        /\ session_link' \in [Sessions -> Links \cup {None}]
    BY <1>5, AttachTypes
  <2>2. QED
    BY <1>2, <1>5, <2>1 DEF TypeOK
<1>6. QED
  BY <1>1, <1>4, <1>5

LEMMA DetachesTypes ==
    ASSUME TypeOK, NEW l \in Links, ReconnectDetaches(l), UNCHANGED threads
    PROVE TypeOK'
<1>1. /\ task[l] = "detach" /\ task' = [task EXCEPT ![l] = "attach"]
      /\ Detach(other[l]) /\ UNCHANGED <<conn, sessions, token, other, used, destroyed>>
      /\ crossed' \in {crossed, crossed \cup {other[l]}}
  BY DEF ReconnectDetaches
<1>2. other[l] \in Sessions
  BY <1>1 DEF TypeOK
<1>3. /\ link_session' \in [Links -> Sessions \cup {None}]
      /\ session_link' \in [Sessions -> Links \cup {None}]
      /\ detaching' \subseteq Links
  BY <1>1, <1>2, DetachTypes
<1>4. /\ task' \in [Links -> {"none", "message", "close", "detach", "attach"}]
      /\ \A k \in Links : other'[k] # None <=> task'[k] \in {"detach", "attach"}
  BY <1>1 DEF TypeOK
<1>5. crossed' \subseteq Sessions
  BY <1>1, <1>2 DEF TypeOK
<1>6. QED
  BY <1>1, <1>3, <1>4, <1>5 DEF TypeOK

LEMMA AttachesTypes ==
    ASSUME TypeOK, NEW l \in Links, ReconnectAttaches(l), UNCHANGED threads
    PROVE TypeOK'
<1>1. /\ task[l] = "attach" /\ token[other[l]] < MaxToken
      /\ token' = [token EXCEPT ![other[l]] = @ + 1] /\ AttachSession(l, other[l])
      /\ task' = [task EXCEPT ![l] = "none"] /\ other' = [other EXCEPT ![l] = None]
      /\ UNCHANGED <<conn, sessions, detaching, used, crossed, destroyed>>
  BY DEF ReconnectAttaches
<1>2. other[l] \in Sessions
  BY <1>1 DEF TypeOK
<1>3. /\ link_session' \in [Links -> Sessions \cup {None}]
      /\ session_link' \in [Sessions -> Links \cup {None}]
  BY <1>1, <1>2, AttachTypes
<1>4. /\ task' \in [Links -> {"none", "message", "close", "detach", "attach"}]
      /\ other' \in [Links -> Sessions \cup {None}]
      /\ \A k \in Links : other'[k] # None <=> task'[k] \in {"detach", "attach"}
  BY <1>1 DEF TypeOK
<1>5. token' \in [Sessions -> 0..MaxToken] /\ \A s \in sessions : token'[s] > 0
  <2>1. MaxToken \in Nat /\ token \in [Sessions -> 0..MaxToken]
    BY TcpSessionAssumption DEF TcpSessionAssumption, TypeOK
  <2>2. token[other[l]] + 1 \in 0..MaxToken /\ token[other[l]] + 1 > 0
    BY <1>1, <1>2, <2>1
  <2>3. QED
    BY <1>1, <2>1, <2>2 DEF TypeOK
<1>6. QED
  BY <1>1, <1>3, <1>4, <1>5 DEF TypeOK

LEMMA RunDetachTypes ==
    ASSUME TypeOK, NEW l \in Links, RunDetach(l), UNCHANGED threads
    PROVE TypeOK'
<1>1. AttachSession(l, None)
  BY DEF RunDetach
<1>2. /\ link_session' \in [Links -> Sessions \cup {None}]
      /\ session_link' \in [Sessions -> Links \cup {None}]
  BY <1>1, AttachTypes
<1>3. QED
  BY <1>2 DEF TypeOK, RunDetach

LEMMA CloseBeginsTypes ==
    ASSUME TypeOK, NEW l \in Links, CloseBegins(l), UNCHANGED threads
    PROVE TypeOK'
BY TcpSessionAssumption DEF TypeOK, TcpSessionAssumption, CloseBegins, Idle

LEMMA CloseEndsTypes ==
    ASSUME TypeOK, NEW l \in Links, CloseEnds(l), UNCHANGED threads
    PROVE TypeOK'
<1>1. AttachSession(l, None)
  BY DEF CloseEnds
<1>2. /\ link_session' \in [Links -> Sessions \cup {None}]
      /\ session_link' \in [Sessions -> Links \cup {None}]
  BY <1>1, AttachTypes
<1>3. QED
  BY <1>2 DEF TypeOK, CloseEnds

LEMMA ConnectReqTypes ==
    ASSUME TypeOK, NEW l \in Links, Recv_Connect_Req(l), UNCHANGED threads
    PROVE TypeOK'
<1>1. PICK s \in Sessions : sessions' = sessions \cup {s} /\ token' = [token EXCEPT ![s] = 1]
  BY DEF Recv_Connect_Req
<1>2. 1 \in 0..MaxToken
  BY TcpSessionAssumption DEF TcpSessionAssumption
<1>3. /\ sessions' \subseteq Sessions /\ token' \in [Sessions -> 0..MaxToken]
      /\ \A x \in sessions' : token'[x] > 0
  BY <1>1, <1>2 DEF TypeOK
<1>4. UNCHANGED <<conn, link_session, session_link, task, other, detaching, used, crossed, destroyed>>
  BY DEF Recv_Connect_Req
<1>5. QED
  BY <1>3, <1>4 DEF TypeOK

LEMMA TimerTypes ==
    ASSUME TypeOK, NEW s \in Sessions, IdleTimer(s), UNCHANGED threads
    PROVE TypeOK'
BY DEF TypeOK, IdleTimer

LEMMA InitTypes == Init => TypeOK
<1> SUFFICES ASSUME Init PROVE TypeOK
  OBVIOUS
<1>1. 0 \in 0..MaxToken
  BY TcpSessionAssumption DEF TcpSessionAssumption
<1>2. QED
  BY <1>1 DEF Init, TypeOK

LEMMA NextTypes == TypeOK /\ [Next]_vars => TypeOK'
<1> SUFFICES ASSUME TypeOK, [Next]_vars PROVE TypeOK'
  OBVIOUS
<1>1. ASSUME NEW l \in Links, UNCHANGED threads,
             \/ OnAccept(l) \/ MessageBegins(l) \/ KickOut(l) \/ CloseBegins(l)
             \/ Recv_Connect_Req(l) \/ Recv_Reconnect_Req(l) \/ Thread(l)
      PROVE  TypeOK'
  BY <1>1, AcceptTypes, BeginTypes, EndTypes, KickTypes, ConnectReqTypes, ReconnectReqTypes,
     DetachesTypes, AttachesTypes, RunDetachTypes, CloseBeginsTypes, CloseEndsTypes DEF Thread
<1>2. CASE UNCHANGED vars
  BY <1>2 DEF vars, TypeOK
<1>3. QED
  BY <1>1, <1>2, TimerTypes DEF Next

-----------------------------------------------------------------------------
(* Where the pointers of a session may part: only where a reconnect crosses *)
(* another handler of the same session.                                     *)

\* A found session has a token; two reconnects have found one only if it is
\* crossed; and one that has been detached is on no link.
FoundHasToken == \A l \in Links : other[l] # None => token[other[l]] > 0
FoundOnce ==
    \A k, l \in Links : k # l /\ other[l] # None /\ other[k] = other[l] => other[l] \in crossed
Apart ==
    \A l \in Links : task[l] = "attach" /\ other[l] \notin crossed =>
        \A k \in Links : link_session[k] # other[l]

Meets == IInv /\ TypeOK /\ PointersAgree /\ FoundHasToken /\ FoundOnce /\ Apart

\* A link loses its session, and nothing else changes.
LEMMA LosesOne ==
    ASSUME Meets, NEW l \in Links, AttachSession(l, None)
    PROVE  /\ \A k \in Links : link_session'[k] = IF k = l THEN None ELSE link_session[k]
           /\ \A k \in Links, s \in Sessions :
                 link_session'[k] = s /\ s \notin crossed => session_link'[s] = k
<1>1. /\ link_session \in [Links -> Sessions \cup {None}]
      /\ session_link \in [Sessions -> Links \cup {None}]
  BY DEF Meets, TypeOK
<1>2. \A k \in Links : link_session'[k] = IF k = l THEN None ELSE link_session[k]
  BY <1>1 DEF AttachSession
<1>3. \A s \in Sessions : session_link'[s] = IF s = link_session[l] THEN None ELSE session_link[s]
  BY <1>1, NoneIsNothing DEF AttachSession
<1>4. ASSUME NEW k \in Links, NEW s \in Sessions, link_session'[k] = s, s \notin crossed
      PROVE  session_link'[s] = k
  <2>1. k # l /\ link_session[k] = s
    BY <1>2, <1>4, NoneIsNothing
  <2>2. session_link[s] = k
    BY <1>4, <2>1 DEF Meets, PointersAgree
  <2>3. s # link_session[l]
    BY <1>4, <2>1, <2>2 DEF Meets, PointersAgree
  <2>4. QED
    BY <1>3, <2>2, <2>3
<1>5. QED
  BY <1>2, <1>4

\* A step in which links at most lose sessions, and no reconnect goes on.
LEMMA LosingMeets ==
    ASSUME Meets, crossed \subseteq crossed',
           \A k \in Links : link_session'[k] \in {link_session[k], None},
           \A k \in Links, s \in Sessions :
              link_session'[k] = s /\ s \notin crossed => session_link'[s] = k,
           \A k \in Links : task'[k] = "attach" => task[k] = "attach",
           other' = other, \A s \in Sessions : token[s] > 0 => token'[s] > 0
    PROVE  PointersAgree' /\ FoundHasToken' /\ FoundOnce' /\ Apart'
<1>1. PointersAgree'
  BY DEF PointersAgree
<1>2. \A k \in Links : other[k] # None => other[k] \in Sessions
  BY DEF Meets, TypeOK
<1>3. FoundHasToken' /\ FoundOnce'
  BY <1>2 DEF Meets, FoundHasToken, FoundOnce
<1>4. Apart'
  <2>1. SUFFICES ASSUME NEW l \in Links, task'[l] = "attach", other[l] \notin crossed', NEW k \in Links
                 PROVE  link_session'[k] # other[l]
    BY DEF Apart
  <2>2. task[l] = "attach" /\ link_session[k] # other[l]
    BY <2>1 DEF Meets, Apart
  <2>3. other[l] # None
    BY <2>2 DEF Meets, TypeOK
  <2>4. QED
    BY <2>2, <2>3
<1>5. QED
  BY <1>1, <1>3, <1>4

\* A step that leaves the pointers where they are.
LEMMA SamePointersMeet ==
    ASSUME Meets, UNCHANGED <<link_session, session_link, other, crossed>>,
           \A k \in Links : task'[k] = "attach" => task[k] = "attach",
           \A s \in Sessions : token[s] > 0 => token'[s] > 0
    PROVE  PointersAgree' /\ FoundHasToken' /\ FoundOnce' /\ Apart'
BY LosingMeets DEF Meets, PointersAgree

\* AttachSession(NULL) on the link of a session: the session is on no link, or
\* the strand of that link is at work.
LEMMA DetachLoses ==
    ASSUME Meets, NEW s \in Sessions, Detach(s)
    PROVE  /\ \A k \in Links : link_session'[k] \in {link_session[k], None}
           /\ \A k \in Links, x \in Sessions :
                 link_session'[k] = x /\ x \notin crossed => session_link'[x] = k
           /\ session_link[s] \in {None} \cup Resting /\ s \notin crossed =>
                 \A k \in Links : link_session'[k] # s
<1> DEFINE old == session_link[s]
<1>1. old \in Links \cup {None}
  BY DEF Meets, TypeOK
<1>2. CASE UNCHANGED <<link_session, session_link>> /\ old \notin Resting
  <2>1. old = None /\ s \notin crossed => \A k \in Links : link_session[k] # s
    BY NoneIsNothing DEF Meets, PointersAgree
  <2>2. QED
    BY <1>2, <2>1 DEF Meets, PointersAgree
<1>3. CASE old \in Resting /\ AttachSession(old, None)
  <2>1. old \in Links
    BY <1>3 DEF Resting
  <2>2. \A k \in Links : link_session'[k] = IF k = old THEN None ELSE link_session[k]
    BY <1>3, <2>1, LosesOne
  <2>3. s \notin crossed => \A k \in Links : link_session'[k] # s
    BY <2>2, NoneIsNothing DEF Meets, PointersAgree
  <2>4. QED
    BY <1>3, <2>1, <2>2, <2>3, LosesOne
<1>4. QED
  BY <1>2, <1>3, NoneIsNothing DEF Detach, Resting

-----------------------------------------------------------------------------
LEMMA AcceptMeets ==
    ASSUME Meets, NEW l \in Links, OnAccept(l)
    PROVE  PointersAgree' /\ FoundHasToken' /\ FoundOnce' /\ Apart'
<1>1. PICK s \in Sessions :
         /\ token[s] = 0 /\ \A k \in Links : link_session[k] # s
         /\ AttachSession(l, s)
  BY DEF OnAccept
<1>2. link_session[l] = None
  BY DEF OnAccept, Meets, IInv, AttachedIsOpen
<1>3. UNCHANGED <<token, task, other, crossed>>
  BY DEF OnAccept
<1>4. /\ link_session \in [Links -> Sessions \cup {None}]
      /\ session_link \in [Sessions -> Links \cup {None}]
  BY DEF Meets, TypeOK
<1>5. \A k \in Links : link_session'[k] = IF k = l THEN s ELSE link_session[k]
  BY <1>1, <1>4 DEF AttachSession
<1>6. \A x \in Sessions : session_link'[x] = IF x = s THEN l ELSE session_link[x]
  BY <1>1, <1>2, <1>4, NoneIsNothing DEF AttachSession
<1>7. PointersAgree'
  BY <1>1, <1>3, <1>5, <1>6 DEF Meets, PointersAgree
<1>8. FoundHasToken' /\ FoundOnce'
  BY <1>3 DEF Meets, FoundHasToken, FoundOnce
<1>9. Apart'
  <2>1. \A k \in Links : task[k] = "attach" => other[k] # s
    BY <1>1 DEF Meets, TypeOK, FoundHasToken
  <2>2. QED
    BY <1>3, <1>5, <2>1 DEF Meets, Apart
<1>10. QED
  BY <1>7, <1>8, <1>9

LEMMA StartMeets ==
    ASSUME Meets, NEW l \in Links, MessageBegins(l) \/ MessageEnds(l) \/ CloseBegins(l)
    PROVE  PointersAgree' /\ FoundHasToken' /\ FoundOnce' /\ Apart'
<1>1. UNCHANGED <<link_session, session_link, token, other, crossed>>
  BY DEF MessageBegins, MessageEnds, CloseBegins
<1>2. PICK t \in {"none", "message", "close"} : task' = [task EXCEPT ![l] = t]
  BY DEF MessageBegins, MessageEnds, CloseBegins
<1>3. \A k \in Links : task'[k] = "attach" => task[k] = "attach"
  BY <1>2 DEF Meets, TypeOK
<1>4. QED
  BY <1>1, <1>3, SamePointersMeet

LEMMA KickOutMeets ==
    ASSUME Meets, NEW l \in Links, KickOut(l)
    PROVE  PointersAgree' /\ FoundHasToken' /\ FoundOnce' /\ Apart'
<1>1. PICK s \in Sessions : Detach(s)
  BY DEF KickOut, Meets, TypeOK
<1>2. UNCHANGED <<token, other, crossed>> /\ task' = [task EXCEPT ![l] = "none"]
  BY DEF KickOut
<1>3. \A k \in Links : task'[k] = "attach" => task[k] = "attach"
  BY <1>2 DEF Meets, TypeOK
<1>4. QED
  BY <1>1, <1>2, <1>3, DetachLoses, LosingMeets

LEMMA ConnectReqMeets ==
    ASSUME Meets, NEW l \in Links, Recv_Connect_Req(l)
    PROVE  PointersAgree' /\ FoundHasToken' /\ FoundOnce' /\ Apart'
<1>1. PICK s \in Sessions : token' = [token EXCEPT ![s] = 1]
  BY DEF Recv_Connect_Req
<1>2. \A x \in Sessions : token[x] > 0 => token'[x] > 0
  BY <1>1 DEF Meets, TypeOK
<1>3. UNCHANGED <<link_session, session_link, task, other, crossed>>
  BY DEF Recv_Connect_Req
<1>4. QED
  BY <1>2, <1>3, SamePointersMeet

LEMMA ReconnectReqMeets ==
    ASSUME Meets, NEW l \in Links, Recv_Reconnect_Req(l)
    PROVE  PointersAgree' /\ FoundHasToken' /\ FoundOnce' /\ Apart'
<1>1. PICK o \in Sessions, t \in 1..MaxToken :
         \/ /\ token[o] = t
            /\ other' = [other EXCEPT ![l] = o]
            /\ task' = [task EXCEPT ![l] = "detach"]
            /\ crossed' = IF \E k \in Links : other[k] = o THEN crossed \cup {o} ELSE crossed
            /\ UNCHANGED <<link_session, session_link>>
         \/ AttachSession(l, None) /\ UNCHANGED <<other, task, crossed>>
  BY DEF Recv_Reconnect_Req
<1>2. UNCHANGED token
  BY DEF Recv_Reconnect_Req
<1>3. CASE /\ token[o] = t
           /\ other' = [other EXCEPT ![l] = o]
           /\ task' = [task EXCEPT ![l] = "detach"]
           /\ crossed' = IF \E k \in Links : other[k] = o THEN crossed \cup {o} ELSE crossed
           /\ UNCHANGED <<link_session, session_link>>
  <2>1. /\ crossed \subseteq crossed'
        /\ \A k \in Links : other'[k] = IF k = l THEN o ELSE other[k]
        /\ \A k \in Links : task'[k] = IF k = l THEN "detach" ELSE task[k]
    BY <1>3 DEF Meets, TypeOK
  <2>2. PointersAgree'
    BY <1>3, <2>1 DEF Meets, PointersAgree
  <2>3. FoundHasToken'
    BY <1>2, <1>3, <2>1 DEF Meets, FoundHasToken
  <2>4. FoundOnce'
    <3>1. (\E k \in Links : other[k] = o) => o \in crossed'
      BY <1>3
    <3>2. QED
      BY <2>1, <3>1 DEF Meets, FoundOnce
  <2>5. Apart'
    BY <1>3, <2>1 DEF Meets, Apart
  <2>6. QED
    BY <2>2, <2>3, <2>4, <2>5
<1>4. CASE AttachSession(l, None) /\ UNCHANGED <<other, task, crossed>>
  <2>1. \A k \in Links : link_session'[k] \in {link_session[k], None}
    BY <1>4, LosesOne
  <2>2. QED
    BY <1>2, <1>4, <2>1, LosesOne, LosingMeets
<1>5. QED
  BY <1>1, <1>3, <1>4

LEMMA ReconnectDetachesMeets ==
    ASSUME Meets, NEW l \in Links, ReconnectDetaches(l)
    PROVE  PointersAgree' /\ FoundHasToken' /\ FoundOnce' /\ Apart'
<1> DEFINE o == other[l]
<1>1. /\ task[l] = "detach" /\ task' = [task EXCEPT ![l] = "attach"]
      /\ Detach(o) /\ UNCHANGED <<token, other>>
      /\ crossed' = IF session_link[o] \in {None} \cup Resting THEN crossed ELSE crossed \cup {o}
  BY DEF ReconnectDetaches
<1>2. o \in Sessions
  BY <1>1 DEF Meets, TypeOK
<1> HIDE DEF o
<1>3. /\ \A k \in Links : link_session'[k] \in {link_session[k], None}
      /\ \A k \in Links, x \in Sessions :
            link_session'[k] = x /\ x \notin crossed => session_link'[x] = k
      /\ o \notin crossed' => \A k \in Links : link_session'[k] # o
  BY <1>1, <1>2, DetachLoses
<1>4. PointersAgree' /\ FoundHasToken' /\ FoundOnce'
  <2>1. crossed \subseteq crossed'
    BY <1>1
  <2>2. QED
    BY <1>1, <1>3, <2>1 DEF Meets, PointersAgree, FoundHasToken, FoundOnce
<1>5. Apart'
  <2>1. SUFFICES ASSUME NEW k \in Links, task'[k] = "attach", other[k] \notin crossed', NEW j \in Links
                 PROVE  link_session'[j] # other[k]
    BY <1>1 DEF Apart
  <2>2. CASE k = l
    BY <1>3, <2>1, <2>2 DEF o
  <2>3. CASE k # l
    <3>1. task[k] = "attach" /\ other[k] \notin crossed
      BY <1>1, <2>1, <2>3 DEF Meets, TypeOK
    <3>2. link_session[j] # other[k] /\ other[k] # None
      BY <3>1 DEF Meets, Apart, TypeOK
    <3>3. QED
      BY <1>3, <3>2
  <2>4. QED
    BY <2>2, <2>3
<1>6. QED
  BY <1>4, <1>5

LEMMA ReconnectAttachesMeets ==
    ASSUME Meets, NEW l \in Links, ReconnectAttaches(l)
    PROVE  PointersAgree' /\ FoundHasToken' /\ FoundOnce' /\ Apart'
<1> DEFINE o == other[l]
<1>1. /\ task[l] = "attach" /\ task' = [task EXCEPT ![l] = "none"]
      /\ token' = [token EXCEPT ![o] = @ + 1] /\ other' = [other EXCEPT ![l] = None]
      /\ AttachSession(l, o) /\ UNCHANGED crossed
  BY DEF ReconnectAttaches
<1>2. o \in Sessions /\ o # None
  BY <1>1, NoneIsNothing DEF Meets, TypeOK
<1>3. /\ link_session \in [Links -> Sessions \cup {None}]
      /\ session_link \in [Sessions -> Links \cup {None}]
      /\ other \in [Links -> Sessions \cup {None}] /\ token \in [Sessions -> 0..MaxToken]
      /\ DOMAIN task = Links
  BY DEF Meets, TypeOK
<1>4. o \notin crossed => \A k \in Links : link_session[k] # o
  BY <1>1 DEF Meets, Apart
<1>5. \A k \in Links : k # l /\ other[k] = o => o \in crossed
  BY <1>2 DEF Meets, FoundOnce
<1> HIDE DEF o
<1>6. \A k \in Links : link_session'[k] = IF k = l THEN o ELSE link_session[k]
  BY <1>1, <1>3 DEF AttachSession
<1>7. \A s \in Sessions : session_link'[s] =
         IF s = o THEN l ELSE IF s = link_session[l] THEN None ELSE session_link[s]
  BY <1>1, <1>3 DEF AttachSession
<1>8. \A k \in Links : /\ other'[k] = IF k = l THEN None ELSE other[k]
                       /\ task'[k] = IF k = l THEN "none" ELSE task[k]
  BY <1>1, <1>3
<1>9. PointersAgree'
  <2>1. SUFFICES ASSUME NEW k \in Links, NEW s \in Sessions, link_session'[k] = s, s \notin crossed
                 PROVE  session_link'[s] = k
    BY <1>1 DEF PointersAgree
  <2>2. CASE s = o
    BY <1>4, <1>6, <1>7, <2>1, <2>2
  <2>3. CASE s # o
    <3>1. k # l /\ link_session[k] = s /\ session_link[s] = k
      BY <1>6, <2>1, <2>3 DEF Meets, PointersAgree
    <3>2. s # link_session[l]
      BY <2>1, <3>1 DEF Meets, PointersAgree
    <3>3. QED
      BY <1>7, <2>3, <3>1, <3>2
  <2>4. QED
    BY <2>2, <2>3
<1>10. FoundHasToken'
  <2>1. \A s \in Sessions : token[s] > 0 => token'[s] > 0
    BY <1>1, <1>3
  <2>2. QED
    BY <1>3, <1>8, <2>1 DEF Meets, FoundHasToken
<1>11. FoundOnce'
  BY <1>1, <1>8 DEF Meets, FoundOnce
<1>12. Apart'
  <2>1. SUFFICES ASSUME NEW k \in Links, task'[k] = "attach", other'[k] \notin crossed, NEW j \in Links
                 PROVE  link_session'[j] # other'[k]
    BY <1>1 DEF Apart
  <2>2. k # l /\ task[k] = "attach" /\ other'[k] = other[k] /\ other[k] \notin crossed
    BY <1>8, <2>1
  <2>3. link_session[j] # other[k] /\ other[k] # o
    BY <1>5, <2>2 DEF Meets, Apart
  <2>4. QED
    BY <1>6, <2>2, <2>3
<1>13. QED
  BY <1>9, <1>10, <1>11, <1>12

LEMMA LeavesMeet ==
    ASSUME Meets, NEW l \in Links, RunDetach(l) \/ CloseEnds(l)
    PROVE  PointersAgree' /\ FoundHasToken' /\ FoundOnce' /\ Apart'
<1>1. AttachSession(l, None) /\ UNCHANGED <<token, other, crossed>>
  BY DEF RunDetach, CloseEnds
<1>2. \A k \in Links : task'[k] = "attach" => task[k] = "attach"
  BY DEF RunDetach, CloseEnds, Meets, TypeOK
<1>3. \A k \in Links : link_session'[k] \in {link_session[k], None}
  BY <1>1, LosesOne
<1>4. QED
  BY <1>1, <1>2, <1>3, LosesOne, LosingMeets

LEMMA NextMeets == Meets /\ [Next]_vars => Meets'
<1> SUFFICES ASSUME Meets, [Next]_vars PROVE Meets'
  OBVIOUS
<1>1. IInv' /\ TypeOK'
  BY NextStep, NextTypes DEF Meets
<1> DEFINE Together == PointersAgree' /\ FoundHasToken' /\ FoundOnce' /\ Apart'
<1>2. ASSUME NEW l \in Links, Thread(l) PROVE Together
  BY <1>2, StartMeets, ReconnectDetachesMeets, ReconnectAttachesMeets, LeavesMeet DEF Thread
<1>3. ASSUME NEW l \in Links,
             \/ OnAccept(l) \/ MessageBegins(l) \/ KickOut(l) \/ CloseBegins(l)
             \/ Recv_Connect_Req(l) \/ Recv_Reconnect_Req(l)
      PROVE  Together
  BY <1>3, AcceptMeets, StartMeets, KickOutMeets, ConnectReqMeets, ReconnectReqMeets
<1>4. ASSUME (\E s \in Sessions : IdleTimer(s)) \/ UNCHANGED vars PROVE Together
  <2>1. UNCHANGED <<link_session, session_link, token, task, other, crossed>>
    BY <1>4 DEF IdleTimer, vars
  <2>2. QED
    BY <2>1, SamePointersMeet
<1>5. Together
  <2> HIDE DEF Together
  <2>1. QED
    BY <1>2, <1>3, <1>4 DEF Next
<1>6. QED
  BY <1>1, <1>5 DEF Meets

LEMMA InitMeets == Init => Meets
<1> SUFFICES ASSUME Init PROVE Meets
  OBVIOUS
<1>1. IInv /\ TypeOK
  BY InitStep, InitTypes
<1>2. PointersAgree /\ FoundHasToken /\ FoundOnce /\ Apart
  BY NoneIsNothing DEF Init, PointersAgree, FoundHasToken, FoundOnce, Apart
<1>3. QED
  BY <1>1, <1>2 DEF Meets

LEMMA AlwaysMeets == Spec => []Meets
<1>1. QED
  BY InitMeets, NextMeets, PTL DEF Spec

-----------------------------------------------------------------------------
(* How often a token is good: for the reconnects that run at once.          *)

Finders(s) == {l \in Links : other[l] = s}
Spent ==
    /\ Cardinality(Busy) <= threads
    /\ \A s \in Sessions : \A t \in 1..MaxToken :
          /\ t > token[s] => used[s][t] = 0
          /\ t = token[s] => used[s][t] <= Cardinality(Finders(s))
          /\ used[s][t] <= threads

\* Finite sets of links; those that have found a session are at work.
LEMMA LinksFinite ==
    ASSUME TypeOK
    PROVE  /\ IsFiniteSet(Busy) /\ Cardinality(Busy) \in Nat
           /\ \A s \in Sessions : /\ IsFiniteSet(Finders(s)) /\ Cardinality(Finders(s)) \in Nat
                                  /\ Cardinality(Finders(s)) <= Cardinality(Busy)
<1>1. IsFiniteSet(Links)
  BY TcpSessionAssumption DEF TcpSessionAssumption
<1>2. Busy \subseteq Links /\ \A s \in Sessions : Finders(s) \subseteq Busy
  BY NoneIsNothing DEF Busy, Finders, TypeOK
<1>3. IsFiniteSet(Busy)
  BY <1>1, <1>2, FS_Subset
<1>4. \A s \in Sessions : /\ IsFiniteSet(Finders(s))
                          /\ Cardinality(Finders(s)) <= Cardinality(Busy)
  BY <1>2, <1>3, FS_Subset
<1>5. QED
  BY <1>3, <1>4, FS_CardinalityType

\* One more handler, of one more free thread.
LEMMA OneMoreBusy ==
    ASSUME TypeOK, NEW l \in Links, task[l] = "none", Cardinality(Busy) < threads,
           NEW t \in {"message", "close", "detach"}, task' = [task EXCEPT ![l] = t]
    PROVE  Cardinality(Busy') <= threads
<1>1. Busy' = Busy \cup {l} /\ l \notin Busy
  BY DEF Busy, TypeOK
<1>2. Cardinality(Busy \cup {l}) = Cardinality(Busy) + 1
  BY <1>1, LinksFinite, FS_AddElement
<1>3. threads \in Nat /\ Cardinality(Busy) \in Nat
  BY LinksFinite, TcpSessionAssumption DEF TypeOK, TcpSessionAssumption
<1>4. QED
  BY <1>1, <1>2, <1>3

LEMMA FewerBusy ==
    ASSUME TypeOK, Spent, threads' = threads, Busy' \subseteq Busy
    PROVE  Cardinality(Busy') <= threads'
<1>1. IsFiniteSet(Busy) /\ Cardinality(Busy) \in Nat /\ Cardinality(Busy) <= threads /\ threads \in Nat
  BY LinksFinite, TcpSessionAssumption DEF Spent, TypeOK, TcpSessionAssumption
<1>2. Cardinality(Busy') <= Cardinality(Busy) /\ IsFiniteSet(Busy')
  BY <1>1, FS_Subset
<1>3. Cardinality(Busy') \in Nat
  BY <1>2, FS_CardinalityType
<1>4. QED
  BY <1>1, <1>2, <1>3

\* A step that finds no session and makes no token.
LEMMA NoneFinds ==
    ASSUME TypeOK, Spent, Cardinality(Busy') <= threads, threads' = threads, UNCHANGED <<token, used, other>>
    PROVE  Spent'
BY DEF Spent, Finders

LEMMA ReconnectReqSpends ==
    ASSUME TypeOK, Spent, NEW l \in Links, Recv_Reconnect_Req(l), threads' = threads
    PROVE  Spent'
<1>1. PICK o \in Sessions, t \in 1..MaxToken :
         \/ /\ token[o] = t
            /\ other' = [other EXCEPT ![l] = o]
            /\ task' = [task EXCEPT ![l] = "detach"]
            /\ used' = [used EXCEPT ![o][t] = @ + 1]
         \/ UNCHANGED <<other, task, used>>
  BY DEF Recv_Reconnect_Req
<1>2. UNCHANGED token /\ task[l] = "none" /\ Cardinality(Busy) < threads
  BY DEF Recv_Reconnect_Req, Idle, ThreadFree
<1>3. CASE UNCHANGED <<other, task, used>>
  BY <1>2, <1>3, FewerBusy, NoneFinds DEF Busy
<1>4. CASE /\ token[o] = t
           /\ other' = [other EXCEPT ![l] = o]
           /\ task' = [task EXCEPT ![l] = "detach"]
           /\ used' = [used EXCEPT ![o][t] = @ + 1]
  <2>1. Cardinality(Busy') <= threads
    BY <1>2, <1>4, OneMoreBusy
  <2>2. other[l] = None /\ other \in [Links -> Sessions \cup {None}]
    BY <1>2 DEF TypeOK
  <2>3. /\ Finders(o)' = Finders(o) \cup {l} /\ l \notin Finders(o)
        /\ \A x \in Sessions : x # o => Finders(x)' = Finders(x)
    BY <1>4, <2>2, NoneIsNothing DEF Finders
  <2>4. Cardinality(Finders(o) \cup {l}) = Cardinality(Finders(o)) + 1
    BY <2>3, LinksFinite, FS_AddElement
  <2>5. /\ threads \in Nat /\ Cardinality(Busy) \in Nat /\ Cardinality(Finders(o)) \in Nat
        /\ Cardinality(Finders(o)) <= Cardinality(Busy)
    BY LinksFinite, TcpSessionAssumption DEF TypeOK, TcpSessionAssumption
  <2>6. used[o] \in [0..MaxToken -> Nat] /\ t \in 0..MaxToken /\ used \in [Sessions -> [0..MaxToken -> Nat]]
    BY TcpSessionAssumption DEF TypeOK, TcpSessionAssumption
  <2>7. used[o][t] \in Nat /\ used[o][t] <= Cardinality(Finders(o))
    BY <1>4, <2>6 DEF Spent
  <2>8. \A x \in Sessions : \A n \in 1..MaxToken :
           used'[x][n] = IF x = o /\ n = t THEN used[o][t] + 1 ELSE used[x][n]
    <3>1. used' = [used EXCEPT ![o] = [used[o] EXCEPT ![t] = @ + 1]]
      BY <1>4
    <3>2. \A n \in 0..MaxToken : [used[o] EXCEPT ![t] = @ + 1][n] = IF n = t THEN used[o][t] + 1 ELSE used[o][n]
      BY <2>6, OneMore
    <3>3. \A x \in Sessions : used'[x] = IF x = o THEN [used[o] EXCEPT ![t] = @ + 1] ELSE used[x]
      BY <3>1, <2>6
    <3>4. \A n \in 1..MaxToken : n \in 0..MaxToken
      OBVIOUS
    <3>5. QED
      BY <3>2, <3>3, <3>4
  <2>9. used[o][t] + 1 <= Cardinality(Finders(o)') /\ used[o][t] + 1 <= threads
    BY <1>2, <2>3, <2>4, <2>5, <2>7
  <2>10. ASSUME NEW x \in Sessions, NEW n \in 1..MaxToken
         PROVE  /\ n > token'[x] => used'[x][n] = 0
                /\ n = token'[x] => used'[x][n] <= Cardinality(Finders(x)')
                /\ used'[x][n] <= threads
    <3>1. CASE x = o /\ n = t
      BY <1>2, <1>4, <2>8, <2>9, <3>1
    <3>2. CASE x # o
      BY <1>2, <2>3, <2>8, <3>2 DEF Spent
    <3>3. CASE x = o /\ n # t
      BY <1>2, <1>4, <2>8, <3>3 DEF Spent
    <3>4. QED
      BY <3>1, <3>2, <3>3
  <2>11. QED
    BY <2>1, <2>10 DEF Spent
<1>5. QED
  BY <1>1, <1>3, <1>4

\* The token is another one when the session is attached.
LEMMA ReconnectAttachesSpends ==
    ASSUME TypeOK, Spent, NEW l \in Links, ReconnectAttaches(l), threads' = threads
    PROVE  Spent'
<1> DEFINE o == other[l]
<1>1. /\ task[l] = "attach" /\ task' = [task EXCEPT ![l] = "none"]
      /\ token' = [token EXCEPT ![o] = @ + 1] /\ other' = [other EXCEPT ![l] = None]
      /\ UNCHANGED used
  BY DEF ReconnectAttaches
<1>2. o \in Sessions /\ o # None
  BY <1>1, NoneIsNothing DEF TypeOK
<1>3. /\ other \in [Links -> Sessions \cup {None}] /\ token \in [Sessions -> 0..MaxToken]
      /\ \A x \in Sessions : \A n \in 1..MaxToken : used[x][n] \in Nat
  BY TcpSessionAssumption DEF TypeOK, TcpSessionAssumption
<1>4. Cardinality(Busy') <= threads
  <2>1. Busy' \subseteq Busy
    BY <1>1 DEF Busy, TypeOK
  <2>2. QED
    BY <2>1, FewerBusy
<1>5. \A x \in Sessions : x # o => Finders(x)' = Finders(x)
  BY <1>1, <1>3, NoneIsNothing DEF Finders
<1> HIDE DEF o
<1>6. \A x \in Sessions : token'[x] = IF x = o THEN token[o] + 1 ELSE token[x]
  BY <1>1, <1>2, <1>3
<1>7. ASSUME NEW x \in Sessions, NEW n \in 1..MaxToken
      PROVE  /\ n > token'[x] => used'[x][n] = 0
             /\ n = token'[x] => used'[x][n] <= Cardinality(Finders(x)')
             /\ used'[x][n] <= threads
  <2>1. CASE x # o
    BY <1>1, <1>5, <1>6, <2>1 DEF Spent
  <2>2. CASE x = o
    <3>1. n >= token'[x] => n > token[x]
      BY <1>2, <1>3, <1>6, <2>2
    <3>2. n >= token'[x] => used'[x][n] = 0
      BY <1>1, <3>1 DEF Spent
    <3>3. Cardinality(Finders(x)') \in Nat
      <4>1. IsFiniteSet(Links)
        BY TcpSessionAssumption DEF TcpSessionAssumption
      <4>2. Finders(x)' \subseteq Links
        BY DEF Finders
      <4>3. QED
        BY <4>1, <4>2, FS_Subset, FS_CardinalityType
    <3>4. token'[x] \in Nat /\ n \in Nat
      BY <1>2, <1>3, <1>6, <2>2
    <3>5. used'[x][n] <= threads
      BY <1>1 DEF Spent
    <3>6. QED
      BY <3>2, <3>3, <3>4, <3>5
  <2>3. QED
    BY <2>1, <2>2
<1>8. QED
  BY <1>4, <1>7 DEF Spent

LEMMA ConnectReqSpends ==
    ASSUME TypeOK, Spent, NEW l \in Links, Recv_Connect_Req(l), threads' = threads
    PROVE  Spent'
<1>1. PICK s \in Sessions : token[s] = 0 /\ token' = [token EXCEPT ![s] = 1]
  BY DEF Recv_Connect_Req
<1>2. UNCHANGED <<task, other, used>>
  BY DEF Recv_Connect_Req
<1>3. Cardinality(Busy') <= threads /\ \A x \in Sessions : Finders(x)' = Finders(x)
  BY <1>2, FewerBusy DEF Busy, Finders
<1>4. token \in [Sessions -> 0..MaxToken] /\ \A n \in 1..MaxToken : used[s][n] = 0
  BY <1>1 DEF Spent, TypeOK
<1>5. \A x \in Sessions : token'[x] = IF x = s THEN 1 ELSE token[x]
  BY <1>1, <1>4
<1>6. Cardinality(Finders(s)) \in Nat
  BY LinksFinite
<1>7. QED
  BY <1>2, <1>3, <1>4, <1>5, <1>6 DEF Spent

LEMMA NextSpends == TypeOK /\ Spent /\ [Next]_vars => Spent'
<1> SUFFICES ASSUME TypeOK, Spent, [Next]_vars PROVE Spent'
  OBVIOUS
<1>1. threads' = threads
  BY DEF Next, vars
<1>2. ASSUME NEW l \in Links, MessageBegins(l) \/ CloseBegins(l) PROVE Spent'
  <2>1. Cardinality(Busy') <= threads
    BY <1>2, OneMoreBusy DEF MessageBegins, CloseBegins, Idle, ThreadFree
  <2>2. UNCHANGED <<token, used, other>>
    BY <1>2 DEF MessageBegins, CloseBegins
  <2>3. QED
    BY <1>1, <2>1, <2>2, NoneFinds
<1>3. ASSUME NEW l \in Links, OnAccept(l) \/ MessageEnds(l) \/ KickOut(l) \/ ReconnectDetaches(l)
                              \/ RunDetach(l) \/ CloseEnds(l)
      PROVE  Spent'
  <2>1. Busy' \subseteq Busy
    BY <1>3 DEF OnAccept, MessageEnds, KickOut, ReconnectDetaches, RunDetach, CloseEnds, Busy, TypeOK
  <2>2. UNCHANGED <<token, used, other>>
    BY <1>3 DEF OnAccept, MessageEnds, KickOut, ReconnectDetaches, RunDetach, CloseEnds
  <2>3. QED
    BY <1>1, <2>1, <2>2, FewerBusy, NoneFinds
<1>4. CASE (\E s \in Sessions : IdleTimer(s)) \/ UNCHANGED vars
  <2>1. UNCHANGED <<token, used, other, task>>
    BY <1>4 DEF IdleTimer, vars
  <2>2. QED
    BY <1>1, <2>1, FewerBusy, NoneFinds DEF Busy
<1>5. QED
  BY <1>1, <1>2, <1>3, <1>4, ReconnectReqSpends, ReconnectAttachesSpends, ConnectReqSpends DEF Next, Thread

LEMMA InitSpends == Init => Spent
<1> SUFFICES ASSUME Init PROVE Spent
  OBVIOUS
<1>1. Busy = {} /\ \A s \in Sessions : Finders(s) = {}
  BY NoneIsNothing DEF Init, Busy, Finders
<1>2. threads \in Nat /\ MaxToken \in Nat
  BY TcpSessionAssumption DEF Init, TcpSessionAssumption
<1>3. Cardinality({}) = 0
  BY FS_EmptySet
<1>4. \A s \in Sessions : \A t \in 1..MaxToken : used[s][t] = 0
  BY <1>2 DEF Init
<1>5. QED
  BY <1>1, <1>2, <1>3, <1>4 DEF Spent

\* Tcp/LinkManager.h:190, Link.cpp:229: on any number of threads a session that
\* a link has points back at it, so that it has one link and can be sent to;
\* but for a session that one reconnect found while another was at work on it,
\* or of which it found the old link at work.
THEOREM PointersStayTogether == Spec => []PointersAgree
<1>1. Meets => PointersAgree
  BY DEF Meets
<1>2. QED
  BY AlwaysMeets, <1>1, PTL

\* Tcp/LinkManager.h:190: no token is accepted more often than there are threads
\* in io_service::run, however often and by whomever Reconnect_Req is sent; with
\* one thread not twice.
THEOREM TokensAreSpent == Spec => []TokenUsedOncePerThread
<1>1. Spec => []TypeOK
  BY InitTypes, NextTypes, PTL DEF Spec
<1>2. Spec => []Spent
  BY <1>1, InitSpends, NextSpends, PTL DEF Spec
<1>3. Spent => TokenUsedOncePerThread
  BY DEF Spent, TokenUsedOncePerThread
<1>4. QED
  BY <1>2, <1>3, PTL

\* Tcp/LinkManager.h:190: on any number of threads a running reconnect has found
\* a session, and every session in SessionManager::_sessions has a token.
THEOREM SessionTypes == Spec => []TypeOK
<1>1. QED
  BY InitTypes, NextTypes, PTL DEF Spec
=============================================================================
