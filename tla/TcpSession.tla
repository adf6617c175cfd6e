----------------------------- MODULE TcpSession -----------------------------
(***************************************************************************)
(* Sessions and links of a Tcp listener: Tcp::LinkManager with its         *)
(* MsgHandler, Link::AttachSession and the SessionManager.                 *)
(*                                                                         *)
(* Link::session and Session::link point at each other.  A link's pointer  *)
(* is changed in the strand of that link only; a session's by the strands  *)
(* of all links it is or was attached to, and a reconnect moves a session  *)
(* between two links, whose strands run on different threads.  A handler   *)
(* is cut where another thread's step makes a difference; AttachSession is *)
(* one step.  Each element of Links is one connection and each element of  *)
(* Sessions one session_key; reuse by the pools is in Link.                *)
(***************************************************************************)
EXTENDS Naturals, FiniteSets

CONSTANTS
    Links,     \* connections
    Sessions,  \* session keys
    None,      \* the NULL pointer
    Threads,   \* the numbers of threads Gamnet::Run is called with
    MaxToken   \* bound: tokens generated for one session

ASSUME TcpSessionAssumption ==
    /\ IsFiniteSet(Links) /\ IsFiniteSet(Sessions)
    /\ None \notin Links \cup Sessions
    /\ Threads \subseteq Nat \ {0}
    /\ MaxToken \in Nat \ {0}

VARIABLES
    threads,      \* threads in io_service::run
    conn,         \* the socket of each link
    link_session, \* Link::session
    session_link, \* Session::link
    sessions,     \* SessionManager::_sessions
    token,        \* Session::session_token: 0 is "", else how many were made
    task,         \* what the strand of each link is executing
    other,        \* the session a running Recv_Reconnect_Req has found
    detaching,    \* links whose strand has AttachSession(NULL) queued
    used,         \* history: reconnects each token of each session was good for
    crossed,      \* history: sessions on which a reconnect met another handler
    destroyed     \* history: sessions given OnDestroy

vars == <<threads, conn, link_session, session_link, sessions, token, task, other,
          detaching, used, crossed, destroyed>>

\* Types; a handler keeps what it found in a local variable while it runs, and
\* every session in _sessions was given a token.
TypeOK ==
    /\ threads \in Threads
    /\ conn \in [Links -> {"new", "open", "closed"}]
    /\ link_session \in [Links -> Sessions \cup {None}]
    /\ session_link \in [Sessions -> Links \cup {None}]
    /\ sessions \subseteq Sessions
    /\ token \in [Sessions -> 0..MaxToken]
    /\ task \in [Links -> {"none", "message", "close", "detach", "attach"}]
    /\ other \in [Links -> Sessions \cup {None}]
    /\ detaching \subseteq Links
    /\ used \in [Sessions -> [0..MaxToken -> Nat]]
    /\ crossed \subseteq Sessions /\ destroyed \subseteq Sessions
    /\ \A l \in Links : other[l] # None <=> task[l] \in {"detach", "attach"}
    /\ \A s \in sessions : token[s] > 0

Init ==
    /\ threads \in Threads
    /\ conn = [l \in Links |-> "new"]
    /\ link_session = [l \in Links |-> None]
    /\ session_link = [s \in Sessions |-> None]
    /\ sessions = {}
    /\ token = [s \in Sessions |-> 0]
    /\ task = [l \in Links |-> "none"]
    /\ other = [l \in Links |-> None]
    /\ detaching = {}
    /\ used = [s \in Sessions |-> [t \in 0..MaxToken |-> 0]]
    /\ crossed = {} /\ destroyed = {}

\* A strand runs one function at a time, on a thread that is free.
Busy == {l \in Links : task[l] # "none"}
ThreadFree == Cardinality(Busy) < threads
Idle(l) == task[l] = "none" /\ ThreadFree

-----------------------------------------------------------------------------
\* Link::AttachSession: pointers before and after the function that runs in
\* the strand of l.

\* A mutant: the session keeps pointing at the link it leaves.
AttachSessionForgets(l, session) ==
    /\ link_session' = [link_session EXCEPT ![l] = session]
    /\ session_link' = [s \in Sessions |->
          IF s = session THEN l ELSE session_link[s]]

AttachSession(l, session) ==
    /\ link_session' = [link_session EXCEPT ![l] = session]
    /\ session_link' = [s \in Sessions |->
          IF s = session THEN l
          ELSE IF s = link_session[l] THEN None
          ELSE session_link[s]]

\* Callback_Accept and OnAccept: a new session for a new connection.
OnAccept(l) ==
    /\ conn[l] = "new"
    /\ Idle(l)
    /\ \E s \in Sessions :
          /\ s \notin sessions \cup destroyed /\ token[s] = 0
          /\ \A k \in Links : link_session[k] # s
          /\ AttachSession(l, s)
    /\ conn' = [conn EXCEPT ![l] = "open"]
    /\ UNCHANGED <<sessions, token, task, other, detaching, used, crossed, destroyed>>

\* OnRecvMsg of a link with a session: a message of the application occupies
\* the strand for a while.
MessageBegins(l) ==
    /\ conn[l] = "open"
    /\ Idle(l)
    /\ link_session[l] # None
    /\ task' = [task EXCEPT ![l] = "message"]
    /\ UNCHANGED <<conn, link_session, session_link, sessions, token, other,
                   detaching, used, crossed, destroyed>>

MessageEnds(l) ==
    /\ task[l] = "message"
    /\ task' = [task EXCEPT ![l] = "none"]
    /\ UNCHANGED <<conn, link_session, session_link, sessions, token, other,
                   detaching, used, crossed, destroyed>>

\* AttachSession(NULL) on the link a session has, called from the strand of
\* another link: executed at once when the strand of that link is idle, queued
\* when it is not.
Resting == {l \in Links : task[l] = "none" /\ l \notin detaching}
Detach(session) ==
    LET old == session_link[session] IN
    \/ /\ old = None
       /\ UNCHANGED <<link_session, session_link, detaching>>
    \/ /\ old \in Resting
       /\ AttachSession(old, None)
       /\ UNCHANGED detaching
    \/ /\ old \notin {None} \cup Resting
       /\ detaching' = detaching \cup {old}
       /\ UNCHANGED <<link_session, session_link>>

\* The handler of a login kicks out the session the user has elsewhere
\* (example/server/Handler_Login.cpp).
KickOut(l) ==
    /\ task[l] = "message"
    /\ \E s \in sessions : s # link_session[l] /\ Detach(s)
    /\ task' = [task EXCEPT ![l] = "none"]
    /\ UNCHANGED <<conn, sessions, token, other, used, crossed, destroyed>>

\* Recv_Connect_Req, the first message of a new client: SessionManager::Add.
Recv_Connect_Req(l) ==
    /\ conn[l] = "open"
    /\ Idle(l)
    /\ \E s \in Sessions :
          /\ link_session[l] = s
          /\ token[s] = 0
          /\ sessions' = sessions \cup {s}
          /\ token' = [token EXCEPT ![s] = 1]
    /\ UNCHANGED <<conn, link_session, session_link, task, other, detaching,
                   used, crossed, destroyed>>

-----------------------------------------------------------------------------
\* Recv_Reconnect_Req, the first message of a client that comes back, with the
\* key of its session and a token it was given.

\* SessionManager::Find and the comparison of the tokens.  When they fail the
\* new connection loses its session.  Nothing tells that another reconnect has
\* found the same session and not yet given it a new token.
Recv_Reconnect_Req(l) ==
    /\ conn[l] = "open"
    /\ Idle(l)
    /\ \E s, o \in Sessions :
          /\ link_session[l] = s /\ token[s] = 0
          /\ \E t \in 1..MaxToken :
                /\ t <= token[o]
                /\ \/ /\ o \in sessions /\ token[o] = t
                      /\ other' = [other EXCEPT ![l] = o]
                      /\ task' = [task EXCEPT ![l] = "detach"]
                      /\ used' = [used EXCEPT ![o][t] = @ + 1]
                      /\ crossed' = IF \E k \in Links : other[k] = o
                                    THEN crossed \cup {o} ELSE crossed
                      /\ UNCHANGED <<link_session, session_link>>
                   \/ /\ o \notin sessions \/ token[o] # t
                      /\ AttachSession(l, None)
                      /\ UNCHANGED <<other, task, used, crossed>>
    /\ UNCHANGED <<conn, sessions, token, detaching, destroyed>>

\* A mutant: the old link keeps the session.
ReconnectSteals(l) ==
    /\ task[l] = "detach"
    /\ task' = [task EXCEPT ![l] = "attach"]
    /\ UNCHANGED <<conn, link_session, session_link, sessions, token, other,
                   detaching, used, crossed, destroyed>>

\* _link->AttachSession(NULL), which may have to wait for the strand of _link.
ReconnectDetaches(l) ==
    /\ task[l] = "detach"
    /\ task' = [task EXCEPT ![l] = "attach"]
    /\ Detach(other[l])
    /\ crossed' = IF session_link[other[l]] \in {None} \cup Resting
                  THEN crossed ELSE crossed \cup {other[l]}
    /\ UNCHANGED <<conn, sessions, token, other, used, destroyed>>

\* A mutant: the session keeps its token.
ReconnectKeepsToken(l) ==
    /\ task[l] = "attach"
    /\ AttachSession(l, other[l])
    /\ task' = [task EXCEPT ![l] = "none"]
    /\ other' = [other EXCEPT ![l] = None]
    /\ UNCHANGED <<conn, sessions, token, detaching, used, crossed, destroyed>>

\* A new token, link->AttachSession(other) and the answer.
ReconnectAttaches(l) ==
    /\ task[l] = "attach"
    /\ token[other[l]] < MaxToken
    /\ token' = [token EXCEPT ![other[l]] = @ + 1]
    /\ AttachSession(l, other[l])
    /\ task' = [task EXCEPT ![l] = "none"]
    /\ other' = [other EXCEPT ![l] = None]
    /\ UNCHANGED <<conn, sessions, detaching, used, crossed, destroyed>>

\* The AttachSession(NULL) that was queued.
RunDetach(l) ==
    /\ l \in detaching
    /\ Idle(l)
    /\ AttachSession(l, None)
    /\ detaching' = detaching \ {l}
    /\ UNCHANGED <<conn, sessions, token, task, other, used, crossed, destroyed>>

-----------------------------------------------------------------------------
\* Link::OnError and OnClose: Session::OnClose, then AttachSession(NULL).
\* Also what OnRecvMsg does with a link without a session.
CloseBegins(l) ==
    /\ conn[l] = "open"
    /\ Idle(l)
    /\ task' = [task EXCEPT ![l] = "close"]
    /\ UNCHANGED <<conn, link_session, session_link, sessions, token, other,
                   detaching, used, crossed, destroyed>>

\* A mutant: OnClose leaves the session on the link.
CloseKeepsSession(l) ==
    /\ task[l] = "close"
    /\ conn' = [conn EXCEPT ![l] = "closed"]
    /\ task' = [task EXCEPT ![l] = "none"]
    /\ UNCHANGED <<link_session, session_link, sessions, token, other,
                   detaching, used, crossed, destroyed>>

CloseEnds(l) ==
    /\ task[l] = "close"
    /\ AttachSession(l, None)
    /\ conn' = [conn EXCEPT ![l] = "closed"]
    /\ task' = [task EXCEPT ![l] = "none"]
    /\ UNCHANGED <<sessions, token, other, detaching, used, crossed, destroyed>>

\* The timer of SessionManager::Init finds the session without a link and
\* expired: it forgets it and calls OnDestroy.
IdleTimer(s) ==
    /\ ThreadFree
    /\ s \in sessions
    /\ session_link[s] = None
    /\ sessions' = sessions \ {s}
    /\ destroyed' = destroyed \cup {s}
    /\ UNCHANGED <<conn, link_session, session_link, token, task, other,
                   detaching, used, crossed>>

-----------------------------------------------------------------------------
\* What a thread has begun, or finds in a queue, it executes.
Thread(l) ==
    \/ MessageEnds(l) \/ ReconnectDetaches(l) \/ ReconnectAttaches(l)
    \/ RunDetach(l) \/ CloseEnds(l)

Next ==
    /\ \/ \E l \in Links :
             \/ OnAccept(l) \/ MessageBegins(l) \/ KickOut(l) \/ CloseBegins(l)
             \/ Recv_Connect_Req(l) \/ Recv_Reconnect_Req(l)
             \/ Thread(l)
       \/ \E s \in Sessions : IdleTimer(s)
    /\ UNCHANGED threads

Spec == Init /\ [][Next]_vars

FairSpec ==
    /\ Spec
    /\ \A l \in Links : SF_vars(Thread(l) /\ UNCHANGED threads)
    /\ \A s \in Sessions : SF_vars(IdleTimer(s) /\ UNCHANGED threads)

-----------------------------------------------------------------------------
\* Properties.

\* Session::AsyncSend writes to the link Session::link points at: on whatever
\* threads sessions move between links, that link is one whose session it is.
PointsHome ==
    \A s \in Sessions, l \in Links : session_link[s] = l => link_session[l] = s

\* No session is left on a connection that is gone.
ClosedHasNoSession ==
    \A l \in Links :
        conn[l] # "open" => /\ link_session[l] = None
                            /\ \A s \in Sessions : session_link[s] # l

\* On whatever threads, a session attached to a link can be sent to, and has
\* one link only; unless a reconnect has found a session that another one had
\* found and not yet attached, or the strand of its old link at work: closes,
\* kick-outs and the reconnects of other sessions never part its pointers.
PointersAgree ==
    \A l \in Links, s \in Sessions :
        link_session[l] = s /\ s \notin crossed => session_link[s] = l

\* However often a client repeats its request, a token brings its session back
\* once for each thread and no more: two handlers may take the same token, but
\* only while both run, and none takes it when one of them has returned.
TokenUsedOncePerThread ==
    \A s \in Sessions : \A t \in 1..MaxToken : used[s][t] <= threads

\* A session nobody has come back for is destroyed.
AbandonedIsDestroyed ==
    \A s \in Sessions :
        (s \in sessions /\ \A l \in Links : link_session[l] # s)
            ~> (s \in destroyed \/ \E l \in Links : link_session[l] = s)

\* Only idle sessions are destroyed: none is attached to a connection later.
DestroyedIsIdle ==
    \A s \in destroyed, l \in Links : link_session[l] # s
=============================================================================
