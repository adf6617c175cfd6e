------------------------------ MODULE MCThreads ------------------------------
(***************************************************************************)
(* The parts of the framework that wait for each other or for the other    *)
(* end, and must go on, for model checking.  They do not meet: a behaviour *)
(* is one of one of them, which "of" says from the start, and the others   *)
(* stay as they are.  One instance checks them all, each with the          *)
(* constants given here and the fairness its own module states.            *)
(***************************************************************************)
EXTENDS PacketReader, ThreadPool, Integers

(* Requests with a handler and without; a parameter that is there twice, is *)
(* empty, or has an "&" in it.                                              *)
Param(name, value) == <<<<name>>, value>>
SomeRequests ==
  { [uri |-> <<"x", "/", "a">>, params |-> <<>>],
    [uri |-> <<"a">>, params |-> <<Param("k", <<"1">>), Param("x", <<"1", "1">>), Param("k", <<"x">>)>>],
    [uri |-> <<"1">>, params |-> <<Param("k", <<>>)>>],
    [uri |-> <<"a">>, params |-> <<Param("k", <<"1", "&", "1">>)>>] }

-----------------------------------------------------------------------------
VARIABLE of      \* the part that takes the steps of this behaviour

VARIABLES setLocks, held, copies
locksVars == <<setLocks, held, copies>>
Multi == INSTANCE Locks WITH
    Addresses <- 1..3, Threads <- 1..2

VARIABLES open, request, incoming, session, received, line_read, called,
          connections
httpVars == <<open, request, incoming, session, received, line_read, called,
              connections>>
Http == INSTANCE HttpServer WITH
    Requests <- SomeRequests, Handlers <- {<<"a">>, <<"x", "/", "a">>},
    MaxConnections <- 2

VARIABLES state, socket, unity_status, ops, eventQueue, sendQueue,
          recvBuffer, unity_incoming, units, unity_sent, unity_posted,
          unity_handled, interrupted, closed_twice, cut, looping, partials,
          redialed, torn
unityVars == <<state, socket, unity_status, ops, eventQueue, sendQueue,
               recvBuffer, unity_incoming, units, unity_sent, unity_posted,
               unity_handled, interrupted, closed_twice, cut, looping, partials,
               redialed, torn>>
Unity == INSTANCE UnityClient WITH
    status <- unity_status, incoming <- unity_incoming, sent <- unity_sent,
    posted <- unity_posted, handled <- unity_handled, MaxMessages <- 1,
    Sockets <- 1..2, MaxUnits <- 0, MaxTraffic <- 1,
    MaxPartials <- 1, BufferUnits <- 2,
    Sizes <- 0..80, PACKET_HEADER_SIZE <- 6, BUFFER_SIZE <- 16, LengthBits <- 5

allVars == <<of, vars, poolVars, locksVars, httpVars, unityVars>>

-----------------------------------------------------------------------------
Parts == {"packets", "pool", "locks", "http", "unity"}

(* Where a part stays when its initial states are many and another moves. *)
SumInit ==
  /\ of \in Parts
  /\ Init
  /\ PoolInit
  /\ Multi!Init
  /\ Http!Init
  /\ Unity!Init

SumNext ==
  /\ UNCHANGED of
  /\ IF of = "packets" THEN Next ELSE UNCHANGED vars
  /\ IF of = "pool" THEN PoolNext ELSE UNCHANGED poolVars
  /\ IF of = "locks" THEN Multi!Next ELSE UNCHANGED locksVars
  /\ IF of = "http" THEN Http!Next ELSE UNCHANGED httpVars
  /\ IF of = "unity" THEN Unity!Next ELSE UNCHANGED unityVars

SumSpec ==
  /\ SumInit /\ [][SumNext]_allVars
  /\ WF_vars(of = "packets" /\ Read)
  /\ WF_vars(of = "packets" /\ OnRecvMsg)
  /\ \A w \in Workers :
       /\ SF_poolVars(of = "pool" /\ Acquire(w))
       /\ WF_poolVars(of = "pool" /\ Step(w))
  /\ WF_poolVars(of = "pool" /\ NotifyAll)
  /\ WF_poolVars(of = "pool" /\ Join)
  /\ \A t \in 1..2 :
       /\ SF_locksVars(of = "locks" /\ Multi!Lock(t))
       /\ WF_locksVars(of = "locks" /\ Multi!Destroy(t))
       /\ WF_locksVars(of = "locks" /\ Multi!Unlock(t))
  /\ WF_httpVars(of = "http" /\ Http!Disconnect)
  /\ WF_unityVars(of = "unity" /\ Unity!Update)
  /\ WF_unityVars(of = "unity" /\ Unity!Callback_OnConnect)
  /\ WF_unityVars(of = "unity" /\ Unity!Callback_OnReconnect)
  /\ WF_unityVars(of = "unity" /\ Unity!Callback_OnReceive)
  /\ WF_unityVars(of = "unity" /\ Unity!Callback_OnSend)
  /\ WF_unityVars(of = "unity" /\ Unity!Callback_OnClose)

-----------------------------------------------------------------------------
(* ThreadPool.h:110, MultiLock.h:31, Http/LinkManager.cpp:60: a task is      *)
(* taken, and the destructor joins; whoever wants several locks gets them,  *)
(* and keeps them until the last copy of its MultiLock is gone; a use of a  *)
(* Http link ends.                                                          *)
EverybodyGoesOn ==
  /\ of = "pool" => TaskIsTaken /\ Joins
  /\ of = "locks" => Multi!Served
  /\ of = "http" => Http!LinkComesBack
  /\ Multi!KeptToTheLastCopy

(* Http/LinkManager.cpp:17: a client gets the answer to its own request.    *)
HttpAnswers == of = "http" => Http!OwnResponse /\ Http!CalledOnce

(* Session.cs:245: the old Unity client notices that the server closes.     *)
UnityCloses == of = "unity" => Unity!CloseIsNoticed
=============================================================================
