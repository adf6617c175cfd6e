-------------------------------- MODULE Link --------------------------------
(***************************************************************************)
(* One link: the socket, strand, timer and send queue behind a connection  *)
(* (Network/Link.cpp), with the part of LinkManager that starts it, keeps  *)
(* it in _links and times it out.  The link is a pool object: it lives     *)
(* through several connections, numbered by "connection", and may be taken *)
(* again as soon as nothing refers to it.                                  *)
(*                                                                         *)
(* Every handler below runs inside the link's strand, hence atomically     *)
(* with respect to the others.  asio's strand.dispatch runs a function at  *)
(* once when the strand is idle and queues it otherwise: both are          *)
(* "append to the strand, then run its head".  The operations the kernel   *)
(* and the timer complete are in "pending"; a completion moves to the      *)
(* strand, possibly behind functions already queued there.                 *)
(***************************************************************************)
EXTENDS Naturals, Sequences, SequencesExt

CONSTANTS
    Manager,        \* the LinkManager: "Tcp" (keep-alive, detached sessions)
                    \* or "Router" (outbound connections as well)
    MaxConnections, \* bound: connections made through this link object
    MaxCalls,       \* bound: AsyncSend calls per sender and connection
    MaxReconnects,  \* bound: sessions that come back to one connection
    TimeoutSet,     \* the values of "0 < timeout" that Connect is called with
    Failures        \* rare failures of the environment that may happen

ASSUME LinkAssumption ==
    /\ Manager \in {"Tcp", "Router"}
    /\ MaxConnections \in Nat
    /\ MaxCalls \in Nat
    /\ MaxReconnects \in Nat
    /\ TimeoutSet \subseteq BOOLEAN
    /\ Failures \subseteq {"endpoint", "session pool", "resolve", "callback"}

\* AsyncSend is called by other threads ("app") and by the message handlers
\* that already run in the strand ("handler").
Senders == {"app", "handler"}

Message == [from : Senders, number : Nat \ {0}, connection : Nat]
NoMessage == [from |-> "none", number |-> 0, connection |-> 0]

Operations == {"accept", "connect", "read", "write", "timer"}
Functions == Operations \cup {"send", "keepalive", "detach"}
FunctionRecord ==
    [op : Functions \ {"send"}, ok : BOOLEAN, message : {NoMessage}]
    \cup [op : {"send"}, ok : {TRUE}, message : Message]

VARIABLES
    socket,       \* is_open() is TRUE for all but "closed"
    manager,      \* Link::manager is not NULL
    session,      \* Link::session is not NULL
    registered,   \* LinkManager::_links holds the link
    send_buffers, \* Link::send_buffers
    timer_entry,  \* Timer::entry_ holds a functor, which holds the link
    pending,      \* how many operations of each kind are not completed yet
    strand,       \* functions waiting for the strand, in order
    crashed,      \* a NULL pointer was dereferenced: the process is gone
    connection,   \* number of the current connection
    calls,        \* AsyncSend calls of each sender on this connection
    pushed,       \* history: messages pushed to send_buffers
    wire,         \* history: messages written to the socket
    opened,       \* sessions attached to the link on this connection
    closed,       \* Session::OnClose calls on this connection
    detached,     \* sessions taken away by AttachSession(NULL)
    replaced      \* history: sessions displaced by AttachSession(other)

linkVars == <<socket, manager, session, registered, timer_entry>>
sendVars == <<send_buffers, calls, pushed>>
countVars == <<opened, closed, detached, replaced>>
vars == <<linkVars, sendVars, countVars, pending, strand, crashed,
          connection, wire>>

Function(op, ok) == [op |-> op, ok |-> ok, message |-> NoMessage]

TypeOK ==
    /\ socket \in {"closed", "connecting", "open"}
    /\ manager \in BOOLEAN
    /\ session \in BOOLEAN
    /\ registered \in BOOLEAN
    /\ send_buffers \in Seq(Message)
    /\ timer_entry \in BOOLEAN
    /\ pending \in [Operations -> {0, 1}]
    /\ strand \in Seq(FunctionRecord)
    /\ crashed \in BOOLEAN
    /\ connection \in 0..MaxConnections
    /\ calls \in [Senders -> Nat]
    /\ pushed \in Seq(Message)
    /\ wire \in Seq(Message)
    /\ opened \in Nat
    /\ closed \in Nat
    /\ detached \in Nat
    /\ replaced \in Nat

\* No shared_ptr to the link is left, so the pool's deleter has taken it back:
\* the handlers of pending operations and queued functions, _links, the
\* session attached to it and the timer's functor all hold one.
Free ==
    /\ \A op \in Operations : pending[op] = 0
    /\ strand = <<>>
    /\ ~registered /\ ~session /\ ~timer_entry

Init ==
    /\ socket = "closed"
    /\ manager = FALSE
    /\ session = FALSE
    /\ registered = FALSE
    /\ send_buffers = <<>>
    /\ timer_entry = FALSE
    /\ pending = [op \in Operations |-> 0]
    /\ strand = <<>>
    /\ crashed = FALSE
    /\ connection = 0
    /\ calls = [s \in Senders |-> 0]
    /\ pushed = <<>>
    /\ wire = <<>>
    /\ opened = 0
    /\ closed = 0
    /\ detached = 0
    /\ replaced = 0

-----------------------------------------------------------------------------
\* Taking the link from the pool.

\* LinkManager::Create with Link::Init: the socket is left as it is.
Create ==
    /\ Free
    /\ ~crashed
    /\ connection < MaxConnections
    /\ connection' = connection + 1
    /\ send_buffers' = <<>>
    /\ calls' = [s \in Senders |-> 0]
    /\ pushed' = <<>>
    /\ wire' = <<>>

\* LinkManager::Accept: async_accept with the link's socket as the peer.
Accept ==
    /\ Create
    /\ manager' = FALSE
    /\ opened' = 0 /\ closed' = 0 /\ detached' = 0 /\ replaced' = 0
    /\ pending' = [pending EXCEPT !["accept"] = 1]
    /\ UNCHANGED <<socket, session, registered, timer_entry, strand, crashed>>

\* Router::LinkManager::Connect and Link::Connect.  An exception leaves the
\* link attached to its manager, and also to its session when the session
\* pool was not the cause.
Connect ==
    /\ Manager = "Router"
    /\ Create
    /\ manager' = TRUE
    /\ registered' = TRUE
    /\ closed' = 0 /\ detached' = 0 /\ replaced' = 0
    /\ \/ /\ \E timeout \in TimeoutSet :
                /\ timer_entry' = timeout
                /\ pending' = [pending EXCEPT !["connect"] = 1,
                                  !["timer"] = IF timeout THEN 1 ELSE 0]
          /\ socket' = "connecting"
          /\ session' = TRUE
          /\ opened' = 1
       \/ /\ "session pool" \in Failures
          /\ opened' = 0
          /\ UNCHANGED <<socket, session, timer_entry, pending>>
       \/ /\ "resolve" \in Failures
          /\ session' = TRUE
          /\ opened' = 1
          /\ UNCHANGED <<socket, timer_entry, pending>>
    /\ UNCHANGED <<strand, crashed>>

-----------------------------------------------------------------------------
\* The io_service completes operations; a closed socket aborts them.

Completed(op, ok) ==
    /\ ~crashed
    /\ pending[op] = 1
    /\ pending' = [pending EXCEPT ![op] = 0]
    /\ strand' = Append(strand, Function(op, ok))
    /\ UNCHANGED <<manager, session, registered, timer_entry, sendVars,
                   countVars, crashed, connection>>

\* async_accept refuses a peer socket that is open already.
AcceptCompletes ==
    \E ok \in BOOLEAN :
        /\ ok => socket = "closed"
        /\ socket' = IF ok THEN "open" ELSE socket
        /\ Completed("accept", ok)
        /\ UNCHANGED wire

ConnectCompletes ==
    \E ok \in BOOLEAN :
        /\ ok => socket = "connecting"
        /\ socket' = IF ok THEN "open" ELSE socket
        /\ Completed("connect", ok)
        /\ UNCHANGED wire

\* Data arrives, or the peer closes or resets the connection.
ReadCompletes ==
    \E ok \in BOOLEAN :
        /\ ok => socket = "open"
        /\ Completed("read", ok)
        /\ UNCHANGED <<socket, wire>>

\* async_write has written the whole front buffer, or failed.
WriteCompletes ==
    \E ok \in BOOLEAN :
        /\ ok => socket = "open"
        /\ Completed("write", ok)
        /\ wire' = IF ok THEN Append(wire, Head(send_buffers)) ELSE wire
        /\ UNCHANGED socket

TimerExpires ==
    /\ Completed("timer", TRUE)
    /\ UNCHANGED <<socket, wire>>

Abort(op) ==
    /\ socket = "closed"
    /\ Completed(op, FALSE)
    /\ UNCHANGED <<socket, wire>>

-----------------------------------------------------------------------------
\* Calls from outside the strand.

Dispatch(function) ==
    /\ ~crashed
    /\ strand' = Append(strand, function)
    /\ UNCHANGED <<socket, manager, session, timer_entry, send_buffers, pushed,
                   pending, countVars, crashed, connection, wire>>

\* Session::AsyncSend through Link::AsyncSend: the session is found attached.
AsyncSend ==
    /\ session
    /\ calls["app"] < MaxCalls
    /\ calls' = [calls EXCEPT !["app"] = @ + 1]
    /\ Dispatch([op |-> "send", ok |-> TRUE,
                 message |-> [from |-> "app", number |-> calls["app"] + 1,
                              connection |-> connection]])
    /\ UNCHANGED registered

\* The keep-alive timer of LinkManager::Listen finds the link idle: it erases
\* it from _links and dispatches OnError.
KeepAlive ==
    /\ Manager = "Tcp"
    /\ registered
    /\ registered' = FALSE
    /\ Dispatch(Function("keepalive", TRUE))
    /\ UNCHANGED calls

\* Another link's strand calls AttachSession(NULL) on this one: a reconnect
\* moves its session away, or a login kicks it out.
DetachSession ==
    /\ Manager = "Tcp"
    /\ session
    /\ \A i \in DOMAIN strand : strand[i].op # "detach" \* bound: one at a time
    /\ Dispatch(Function("detach", TRUE))
    /\ UNCHANGED <<registered, calls>>

-----------------------------------------------------------------------------
\* The functions that run in the strand.

Run(op) ==
    /\ ~crashed
    /\ strand # <<>>
    /\ Head(strand).op = op
    /\ strand' = Tail(strand)
    /\ UNCHANGED <<connection, wire>>

Ok == Head(strand).ok

\* Mutants: LinkManager::OnClose forgets AttachSession(NULL); OnError forgets
\* AttachManager(NULL).
OnErrorKeepsSession(attached) ==
    \/ /\ socket = "closed"
       /\ session' = attached
       /\ UNCHANGED <<socket, manager, registered, closed>>
    \/ /\ socket # "closed"
       /\ socket' = "closed"
       /\ manager' = FALSE
       /\ registered' = (registered /\ ~manager)
       /\ session' = attached
       /\ closed' = IF manager /\ attached THEN closed + 1 ELSE closed

OnErrorKeepsManager(attached) ==
    \/ /\ socket = "closed"
       /\ session' = attached
       /\ UNCHANGED <<socket, manager, registered, closed>>
    \/ /\ socket # "closed"
       /\ socket' = "closed"
       /\ session' = (attached /\ ~manager)
       /\ closed' = IF manager /\ attached THEN closed + 1 ELSE closed
       /\ UNCHANGED <<manager, registered>>

\* Link::OnError with LinkManager::OnClose and AttachManager(NULL), of a link
\* that has a session when "attached".  When Session::OnClose throws, only the
\* socket is closed.
OnErrorOf(attached) ==
    \/ /\ socket = "closed"
       /\ session' = attached
       /\ UNCHANGED <<socket, manager, registered, closed>>
    \/ /\ socket # "closed"
       /\ socket' = "closed"
       /\ manager' = FALSE
       /\ registered' = (registered /\ ~manager)
       /\ session' = (attached /\ ~manager)
       /\ closed' = IF manager /\ attached THEN closed + 1 ELSE closed
    \/ /\ socket # "closed" /\ manager /\ attached
       /\ "callback" \in Failures
       /\ socket' = "closed"
       /\ closed' = closed + 1
       /\ session' = attached
       /\ UNCHANGED <<manager, registered>>

OnError ==
    /\ OnErrorOf(session)
    /\ UNCHANGED <<opened, detached, replaced>>

\* LinkManager::Callback_Accept: set_option or remote_endpoint may throw before
\* anything is attached.  Without a session OnAccept closes the link; the
\* exception the Router then throws leaves io_service::run.
RunAccept ==
    /\ Run("accept")
    /\ \/ /\ ~Ok \/ "endpoint" \in Failures
          /\ UNCHANGED <<socket, manager, session, registered, pending, opened,
                         crashed>>
       \/ /\ Ok
          /\ manager' = TRUE
          /\ registered' = TRUE
          /\ session' = TRUE
          /\ opened' = opened + 1
          /\ pending' = [pending EXCEPT !["read"] = @ + 1]
          /\ UNCHANGED <<socket, crashed>>
       \/ /\ Ok /\ "session pool" \in Failures
          /\ socket' = "closed"
          /\ pending' = [pending EXCEPT !["read"] = @ + 1]
          /\ crashed' = (Manager = "Router")
          /\ UNCHANGED <<manager, session, registered, opened>>
    /\ UNCHANGED <<timer_entry, sendVars, closed, detached, replaced>>

\* The completion handler of Link::Connect.
RunConnect ==
    /\ Run("connect")
    /\ \/ /\ ~Ok \/ ~session
          /\ OnError
          /\ pending' = [pending EXCEPT !["timer"] = 0]
       \/ /\ Ok /\ session
          /\ "endpoint" \in Failures
          /\ pending' = [pending EXCEPT !["timer"] = 0]
          /\ UNCHANGED <<socket, manager, session, registered, countVars>>
       \/ /\ Ok /\ session
          /\ pending' = [pending EXCEPT !["timer"] = 0, !["read"] = @ + 1]
          /\ UNCHANGED <<socket, manager, session, registered, countVars>>
    /\ UNCHANGED <<timer_entry, sendVars, crashed>>

\* The connect timeout of Link::Connect logs the key of the session, which is
\* read when warnings are logged.
RunTimer ==
    /\ Run("timer")
    /\ \/ /\ OnError
          /\ UNCHANGED crashed
       \/ /\ ~session
          /\ crashed' = TRUE
          /\ UNCHANGED <<socket, manager, session, registered, countVars>>
    /\ UNCHANGED <<timer_entry, sendVars, pending>>

\* The strand's part of Link::AsyncSend.
Push(message) ==
    /\ send_buffers' = Append(send_buffers, message)
    /\ pushed' = Append(pushed, message)

\* A mutant: every push flushes.
NeedFlushAlways == 1

NeedFlush == IF send_buffers = <<>> THEN 1 ELSE 0

\* Recv_Reconnect_Req on a link of the Tcp manager, whose session is attached
\* afterwards or not.  It attaches the session the client comes back to in the
\* place of the one the connection was given, which gets no OnClose; or the
\* two are the same, and it is taken off the link first.  A request that fails
\* takes the session off.
Recv_Reconnect_Req(attached) ==
    /\ Manager = "Tcp"
    /\ \/ /\ attached = TRUE
          /\ opened <= MaxReconnects
          /\ opened' = opened + 1
          /\ \/ replaced' = replaced + 1 /\ UNCHANGED detached
             \/ detached' = detached + 1 /\ UNCHANGED replaced
       \/ /\ attached = FALSE
          /\ detached' = detached + 1
          /\ UNCHANGED <<opened, replaced>>

\* OnRecvMsg handles the bytes: a reconnect may change the session, a message
\* may be answered, and it may close the link.  The next read is started
\* whatever happened.
OnRecvMsg ==
    /\ \E attached \in BOOLEAN :
          /\ \/ attached = session /\ UNCHANGED <<opened, detached, replaced>>
             \/ Recv_Reconnect_Req(attached)
          /\ \/ session' = attached
                /\ UNCHANGED <<socket, manager, registered, closed>>
             \/ OnErrorOf(attached)
    /\ \/ /\ pending' = [pending EXCEPT !["read"] = @ + 1]
          /\ UNCHANGED sendVars
       \/ /\ calls["handler"] < MaxCalls
          /\ calls' = [calls EXCEPT !["handler"] = @ + 1]
          /\ Push([from |-> "handler", number |-> calls["handler"] + 1,
                   connection |-> connection])
          /\ pending' = [pending EXCEPT !["read"] = @ + 1,
                                        !["write"] = @ + NeedFlush]

\* The completion handler of Link::AsyncRead.
RunRead ==
    /\ Run("read")
    /\ \/ /\ ~Ok
          /\ OnError
          /\ UNCHANGED <<pending, sendVars, crashed>>
       \/ /\ Ok /\ manager /\ session
          /\ OnRecvMsg
          /\ UNCHANGED crashed
       \/ /\ Ok /\ manager /\ ~session
          /\ OnError
          /\ pending' = [pending EXCEPT !["read"] = @ + 1]
          /\ UNCHANGED <<sendVars, crashed>>
       \/ /\ Ok /\ ~manager
          /\ crashed' = TRUE
          /\ UNCHANGED <<socket, manager, session, registered, countVars,
                         pending, sendVars>>
    /\ UNCHANGED timer_entry

\* The function AsyncSend dispatches, and FlushSend.
RunSend ==
    /\ Run("send")
    /\ Push(Head(strand).message)
    /\ pending' = [pending EXCEPT !["write"] = @ + NeedFlush]
    /\ UNCHANGED <<linkVars, calls, countVars, crashed>>

\* A mutant: the completion handler pops the other end of the queue.
RunWritePopsBack ==
    /\ Run("write")
    /\ \/ /\ ~Ok
          /\ OnError
          /\ UNCHANGED <<send_buffers, pending>>
       \/ /\ Ok
          /\ send_buffers' = Front(send_buffers)
          /\ pending' = [pending EXCEPT !["write"] =
                            IF Len(send_buffers) > 1 THEN @ + 1 ELSE @]
          /\ UNCHANGED <<socket, manager, session, registered, countVars>>
    /\ UNCHANGED <<timer_entry, calls, pushed, crashed>>

\* The completion handler of FlushSend.
RunWrite ==
    /\ Run("write")
    /\ \/ /\ ~Ok
          /\ OnError
          /\ UNCHANGED <<send_buffers, pending>>
       \/ /\ Ok
          /\ send_buffers' = Tail(send_buffers)
          /\ pending' = [pending EXCEPT !["write"] =
                            IF Len(send_buffers) > 1 THEN @ + 1 ELSE @]
          /\ UNCHANGED <<socket, manager, session, registered, countVars>>
    /\ UNCHANGED <<timer_entry, calls, pushed, crashed>>

RunKeepAlive ==
    /\ Run("keepalive")
    /\ OnError
    /\ UNCHANGED <<timer_entry, sendVars, pending, crashed>>

\* Link::AttachSession(NULL): no OnClose.
RunDetach ==
    /\ Run("detach")
    /\ session' = FALSE
    /\ detached' = IF session THEN detached + 1 ELSE detached
    /\ UNCHANGED <<socket, manager, registered, timer_entry, sendVars, pending,
                   crashed, opened, closed, replaced>>

-----------------------------------------------------------------------------
RunStrand ==
    \/ RunAccept \/ RunConnect \/ RunTimer \/ RunRead \/ RunSend \/ RunWrite
    \/ RunKeepAlive \/ RunDetach

Aborts == \E op \in {"connect", "read", "write"} : Abort(op)

Next ==
    \/ Accept \/ Connect
    \/ AcceptCompletes \/ ConnectCompletes \/ ReadCompletes \/ WriteCompletes
    \/ TimerExpires \/ Aborts
    \/ AsyncSend \/ KeepAlive \/ DetachSession
    \/ RunStrand

Spec == Init /\ [][Next]_vars

\* The threads of Gamnet::Run keep running what is ready; the peer, the
\* application and the network owe nothing.
FairSpec == Spec /\ WF_vars(RunStrand) /\ WF_vars(Aborts) /\ WF_vars(TimerExpires)

-----------------------------------------------------------------------------
\* Properties.

Queued(op) == \E i \in DOMAIN strand : strand[i].op = op

\* FlushSend writes one buffer at a time: an async_write is outstanding, or its
\* completion waits for the strand, at most once, and then send_buffers holds
\* the buffer that the completion pops.
OneWriteInFlight ==
    /\ \A i, j \in DOMAIN strand :
          strand[i].op = "write" /\ strand[j].op = "write" => i = j
    /\ Queued("write") => pending["write"] = 0
    /\ pending["write"] = 1 \/ Queued("write") => send_buffers # <<>>

\* Whatever threads call AsyncSend, the peer receives the calls of each sender
\* in order, each once, none of them left over from an earlier connection of
\* the same pooled link (Link::Init clears send_buffers).
WireInOrder ==
    \A i \in DOMAIN wire :
        /\ wire[i].connection = connection
        /\ \A j \in 1 .. i - 1 :
              wire[j].from = wire[i].from => wire[j].number < wire[i].number
        /\ \A n \in 1 .. wire[i].number - 1 :
              \E j \in 1 .. i - 1 : wire[j].from = wire[i].from /\ wire[j].number = n

\* Errors reach Link::OnError from the read, the write, the keep-alive and the
\* connect timeout, and requests of the peer move sessions on and off the link:
\* still each session attached is given exactly one OnClose, unless
\* AttachSession(NULL) took it away before or the session of a reconnect took
\* its place.
SessionClosedOnce ==
    opened = closed + detached + replaced + (IF session THEN 1 ELSE 0)

\* Whoever closes the link takes it out of LinkManager::_links.
RegisteredIsOpen == registered => socket # "closed"

\* A link whose socket is closed goes back to the pool: no handler, container
\* or session keeps the last shared_ptr.
ClosedIsReleased ==
    (socket = "closed" /\ pending["accept"] = 0) ~> (Free \/ crashed)

\* No handler dereferences a NULL manager or session.
NoCrash == ~crashed
=============================================================================
