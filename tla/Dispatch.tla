------------------------------ MODULE Dispatch ------------------------------
(***************************************************************************)
(* Network::HandlerFactory, HandlerContainer and Tcp::Dispatcher: which     *)
(* object handles a message.  A message id is registered with a factory    *)
(* that creates a handler for each message, has one for all of them, or    *)
(* finds the one that a handler has bound to the id in its session.        *)
(*                                                                         *)
(* A handler is a number: up to Capacity one of a pool, above it the one   *)
(* of the static factory of an id.  A session handles one message at a     *)
(* time, in its strand.                                                    *)
(***************************************************************************)
EXTENDS Naturals, Sequences, FiniteSets

CONSTANTS Messages,      \* ids, numbers from 1 on
          Sessions,      \* objects of the session pool
          Capacity,      \* of pool_, 65535
          MaxBindings,   \* bound: calls of BindMessage
          MaxClients     \* bound: clients that have one Session after the other

VARIABLES
  mapHandlerFunction_,   \* the factory of each id: "none", "create", "static" or "find"
  mapHandler_,           \* of each session and id: what is bound, or Nobody
  running,               \* of each session: the handler that runs, or Nobody
  client,                \* of each session: the number of its client, 0 before the first
  bindings,              \* history: session, client and id of each call of BindMessage
  answered,              \* history: the same of each message that found a handler, and its binding
  left                   \* history: sessions whose client has left with a handler bound
dispatchVars == <<mapHandlerFunction_, mapHandler_, running, client, bindings, answered, left>>

Nobody == [handler |-> 0, binding |-> 0]

DispatchInit ==
  /\ mapHandlerFunction_ = [m \in Messages |-> "none"]
  /\ mapHandler_ = [s \in Sessions |-> [m \in Messages |-> Nobody]]
  /\ running = [s \in Sessions |-> Nobody] /\ client = [s \in Sessions |-> 0]
  /\ bindings = <<>> /\ answered = <<>> /\ left = {}

(* The shared_ptrs to handlers of pools: of calls, and of containers.       *)
Holds(s) ==
  {h.handler : h \in {running[s]} \union {mapHandler_[s][m] : m \in Messages}} \intersect (1..Capacity)
InUse == UNION {Holds(s) : s \in Sessions}

-----------------------------------------------------------------------------
(* insert leaves what there is for the id, and RegisterHandler throws then; *)
(* the server registers before it listens.                                  *)
RegisterHandler(m, factory) ==
  /\ \A s \in Sessions : client[s] = 0
  /\ mapHandlerFunction_[m] = "none"
  /\ mapHandlerFunction_' = [mapHandlerFunction_ EXCEPT ![m] = factory]
  /\ UNCHANGED <<mapHandler_, running, client, bindings, answered, left>>

(* A client gets the Session from session_pool, whose Session::Init resets   *)
(* the members of Session but not its handler_container.                    *)
Accept(s) ==
  /\ client[s] < MaxClients /\ running[s] = Nobody
  /\ client' = [client EXCEPT ![s] = @ + 1]
  /\ left' = IF \E m \in Messages : mapHandler_[s][m] # Nobody THEN left \union {s} ELSE left
  /\ UNCHANGED <<mapHandlerFunction_, mapHandler_, running, bindings, answered>>

(* HandlerCreate: one that came back to pool_, or a new one.  When there is *)
(* none GetHandler returns NULL, and OnRecvMsg calls link->OnError.         *)
Create(s) ==
  \E h \in (1..Capacity) \ InUse : running' = [running EXCEPT ![s] = [handler |-> h, binding |-> 0]]

(* HandlerStatic. *)
Static(s, m) == running' = [running EXCEPT ![s] = [handler |-> Capacity + m, binding |-> 0]]

\* A mutant: the handler stays bound.
FindKeeps(s, m) ==
  /\ mapHandler_[s][m] # Nobody
  /\ running' = [running EXCEPT ![s] = mapHandler_[s][m]]
  /\ answered' = Append(answered, [session |-> s, client |-> client[s], message |-> m,
                                   binding |-> mapHandler_[s][m].binding])
  /\ UNCHANGED mapHandler_

(* HandlerFind: the handler is taken out of the container, if there is one. *)
Find(s, m) ==
  /\ mapHandler_[s][m] # Nobody
  /\ running' = [running EXCEPT ![s] = mapHandler_[s][m]]
  /\ mapHandler_' = [mapHandler_ EXCEPT ![s][m] = Nobody]
  /\ answered' = Append(answered, [session |-> s, client |-> client[s], message |-> m,
                                   binding |-> mapHandler_[s][m].binding])

(* Without a factory for the id, or a handler, the link gets an OnError.    *)
OnRecvMsg(s, m) ==
  /\ client[s] > 0 /\ running[s] = Nobody
  /\ \/ mapHandlerFunction_[m] = "create" /\ Create(s) /\ UNCHANGED <<mapHandler_, answered>>
     \/ mapHandlerFunction_[m] = "static" /\ Static(s, m) /\ UNCHANGED <<mapHandler_, answered>>
     \/ mapHandlerFunction_[m] = "find" /\ Find(s, m)
  /\ UNCHANGED <<mapHandlerFunction_, client, bindings, left>>

(* IHandler::BindMessage in the handler that runs, over one that waits.     *)
BindMessage(s, m) ==
  /\ running[s] # Nobody /\ Len(bindings) < MaxBindings
  /\ bindings' = Append(bindings, [session |-> s, client |-> client[s], message |-> m])
  /\ mapHandler_' = [mapHandler_ EXCEPT ![s][m] = [running[s] EXCEPT !.binding = Len(bindings')]]
  /\ UNCHANGED <<mapHandlerFunction_, running, client, answered, left>>

(* function_ returns or throws; a handler that is not bound goes back.      *)
Return(s) ==
  /\ running[s] # Nobody
  /\ running' = [running EXCEPT ![s] = Nobody]
  /\ UNCHANGED <<mapHandlerFunction_, mapHandler_, client, bindings, answered, left>>

DispatchNext ==
  \/ \E m \in Messages, factory \in {"create", "static", "find"} : RegisterHandler(m, factory)
  \/ \E s \in Sessions :
       Accept(s) \/ Return(s) \/ \E m \in Messages : OnRecvMsg(s, m) \/ BindMessage(s, m)

DispatchSpec == DispatchInit /\ [][DispatchNext]_dispatchVars

-----------------------------------------------------------------------------
(* A handler of a pool works for one session at a time, also while it waits  *)
(* in a container.                                                          *)
HandlerOfOneSession == \A s, t \in Sessions : s # t => Holds(s) \intersect Holds(t) = {}

(* A message that finds a handler finds one that was bound to its id in its  *)
(* session, each binding once and later ones later; and bound for the same  *)
(* client, unless one has left the Session with a handler in it.            *)
BoundOnceFoundOnce ==
  \A i \in DOMAIN answered :
    LET a == answered[i]
        b == bindings[a.binding] IN
    /\ a.session = b.session /\ a.message = b.message
    /\ a.session \in left \/ a.client = b.client
    /\ \A j \in 1..(i - 1) :
         answered[j].session = a.session /\ answered[j].message = a.message => answered[j].binding < a.binding
=============================================================================
