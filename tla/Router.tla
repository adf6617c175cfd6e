------------------------------- MODULE Router -------------------------------
(***************************************************************************)
(* The router of one server: its sessions with other servers, the          *)
(* SetAddress handshake of RouterHandler, the route tables of RouterCaster *)
(* and the requests that users' handlers send to other servers, whose      *)
(* answers Router::Dispatcher gives back to the waiting handler.           *)
(*                                                                         *)
(* The other servers run the same code: a peer sends SetAddress_Req on a   *)
(* link it made and SetAddress_Ntf after our answer, answers our Req, and  *)
(* answers a request at most once, on any link it has with us.  Links      *)
(* close at any time, and a peer can connect again before the end of its   *)
(* old link is seen.  Handlers of one session run in its strand and        *)
(* RouterCaster has a lock, so each handler is a step.  A session is a     *)
(* pooled object and keeps its address.  All addresses have one service    *)
(* name; the tables of two names share nothing.                            *)
(***************************************************************************)
EXTENDS Naturals, Sequences, FiniteSets, SequencesExt

CONSTANTS
    Peers,      \* addresses of other servers
    Local,      \* local_address: a server may be told to connect to itself
    Sessions,   \* Router::Session objects of the pool
    Users,      \* Tcp sessions of this server whose handlers send requests
    None,
    MaxSends,   \* bound: RouterCaster::msg_seq
    OneAtATime  \* does a user's handler wait for its answer or the timeout
                \* before it sends the next request?

ASSUME RouterAssumption ==
    /\ IsFiniteSet(Peers) /\ IsFiniteSet(Sessions) /\ IsFiniteSet(Users)
    /\ None \notin Peers \cup {Local} \cup Sessions /\ Local \notin Peers
    /\ MaxSends \in Nat /\ OneAtATime \in BOOLEAN

VARIABLES
    phase,     \* how far the handshake of each session's link is
    peer,      \* the server at the other end of the link
    address,   \* Router::Session::address
    waiting,   \* watingSessionManager_: numbers of requests, for their users
    uni,       \* RouterCasterImpl_Uni: the session of an address
    multi,     \* RouterCasterImpl_Multi: sessions
    any,       \* RouterCasterImpl_Any: sessions and the next to take
    msg_seq,   \* RouterCaster::msg_seq - 1
    asker,     \* the user of each request
    inflight,  \* requests that peers have not answered
    connected, \* users that have a link
    container, \* HandlerContainer: the request whose handler waits, 0 for none
    strand,    \* answers queued for each user
    got,       \* history: answers given to handlers
    crash      \* "no", or what stopped the process

sessions == <<phase, peer, address, waiting>>
tables == <<uni, multi, any>>
users == <<asker, connected, container, strand, got>>
vars == <<sessions, tables, msg_seq, inflight, users, crash>>

Addresses == Peers \cup {Local}
Requests == 1..MaxSends

Init ==
    /\ phase = [s \in Sessions |-> "free"] /\ peer = [s \in Sessions |-> None]
    /\ address = [s \in Sessions |-> None] /\ waiting = [s \in Sessions |-> {}]
    /\ uni = [a \in Addresses |-> None] /\ multi = <<>>
    /\ any = [next |-> 0, list |-> <<>>]
    /\ msg_seq = 0 /\ asker = [n \in Requests |-> None] /\ inflight = {}
    /\ connected = Users /\ container = [u \in Users |-> 0]
    /\ strand = [u \in Users |-> <<>>] /\ got = {} /\ crash = "no"

-----------------------------------------------------------------------------
\* The route tables.

HasAddress(list, a) == \E i \in DOMAIN list : address[list[i]] = a

\* A mutant: the session does not learn its address.
RegisterAddressOnly(a, s) ==
    /\ UNCHANGED address
    /\ IF uni[a] # None THEN UNCHANGED tables
       ELSE /\ uni' = [uni EXCEPT ![a] = s]
            /\ multi' = Append(multi, s)
            /\ any' = [next |-> Len(any.list), list |-> Append(any.list, s)]

\* RegisterAddress: each table in turn, the first that refuses ends it.
RegisterAddress(a, s) ==
    LET inUni   == uni[a] = None
        inMulti == inUni /\ ~HasAddress(multi, a)
        inAny   == inMulti /\ ~HasAddress(any.list, a)
    IN  /\ uni' = IF inUni THEN [uni EXCEPT ![a] = s] ELSE uni
        /\ multi' = IF inMulti THEN Append(multi, s) ELSE multi
        /\ any' = IF inAny THEN [next |-> Len(any.list), list |-> Append(any.list, s)] ELSE any
        /\ address' = IF inAny THEN [address EXCEPT ![s] = a] ELSE address

\* erase(remove_if(...)) with one iterator: right if one element matches.
Matches(list, a) == {i \in DOMAIN list : address[list[i]] = a}
OneMatches(list, a) == \E i \in DOMAIN list : Matches(list, a) = {i}
Erased(list, a) ==
    IF OneMatches(list, a)
    THEN RemoveAt(list, CHOOSE i \in DOMAIN list : Matches(list, a) = {i})
    ELSE list

\* A mutant: the lists keep the session.
UnregisterAddressUni(a) ==
    IF a = None \/ uni[a] = None
    THEN UNCHANGED <<uni, multi, any, crash>>
    ELSE /\ uni' = [uni EXCEPT ![a] = None]
         /\ UNCHANGED <<multi, any, crash>>

\* UnregisterAddress, whoever has registered the address.
UnregisterAddress(a) ==
    IF a = None \/ uni[a] = None
    THEN UNCHANGED <<uni, multi, any, crash>>
    ELSE /\ uni' = [uni EXCEPT ![a] = None]
         /\ multi' = Erased(multi, a)
         /\ any' = [any EXCEPT !.list = Erased(@, a)]
         /\ crash' = IF OneMatches(multi, a) /\ OneMatches(any.list, a)
                     THEN crash ELSE "erase"

-----------------------------------------------------------------------------
\* Links of the router.

\* OnAccept: a session of the pool; its address is the one it last had.
OnAccept(s, p) ==
    /\ phase[s] = "free"
    /\ phase' = [phase EXCEPT ![s] = "accepted"]
    /\ peer' = [peer EXCEPT ![s] = p]
    /\ UNCHANGED <<address, waiting, tables, msg_seq, inflight, users, crash>>

Connect(s, p) ==
    /\ phase[s] = "free"
    /\ phase' = [phase EXCEPT ![s] = "connecting"]
    /\ peer' = [peer EXCEPT ![s] = p]
    /\ UNCHANGED <<address, waiting, tables, msg_seq, inflight, users, crash>>

\* OnConnect sends SetAddress_Req.
OnConnect(s) ==
    /\ phase[s] = "connecting"
    /\ phase' = [phase EXCEPT ![s] = "asking"]
    /\ waiting' = [waiting EXCEPT ![s] = {}]
    /\ UNCHANGED <<peer, address, tables, msg_seq, inflight, users, crash>>

\* A mutant: the requests of the link stay in the pooled session.
OnCloseKeepsWaiting(s) ==
    /\ phase[s] # "free"
    /\ phase' = [phase EXCEPT ![s] = "free"]
    /\ peer' = [peer EXCEPT ![s] = None]
    /\ UnregisterAddress(address[s])
    /\ UNCHANGED <<waiting, address, msg_seq, inflight, users>>

\* The link is closed, or could not connect: Session::OnClose.
OnClose(s) ==
    /\ phase[s] # "free"
    /\ phase' = [phase EXCEPT ![s] = "free"]
    /\ peer' = [peer EXCEPT ![s] = None]
    /\ UnregisterAddress(address[s])
    /\ waiting' = [waiting EXCEPT ![s] = {}]
    /\ UNCHANGED <<address, msg_seq, inflight, users>>

\* The address is stored before it is registered; our own is refused, and
\* the peer closes the link.
Recv_SetAddress_Req(s) ==
    /\ phase[s] = "accepted"
    /\ IF peer[s] = Local
       THEN phase' = [phase EXCEPT ![s] = "refused"] /\ UNCHANGED address
       ELSE /\ phase' = [phase EXCEPT ![s] = "answered"]
            /\ address' = [address EXCEPT ![s] = peer[s]]
    /\ UNCHANGED <<peer, waiting, tables, msg_seq, inflight, users, crash>>

\* Whether the address could be registered is not asked.
Recv_SetAddress_Ntf(s) ==
    /\ phase[s] = "answered"
    /\ phase' = [phase EXCEPT ![s] = "up"]
    /\ RegisterAddress(address[s], s)
    /\ UNCHANGED <<peer, waiting, msg_seq, inflight, users, crash>>

Recv_SetAddress_Ans(s) ==
    /\ phase[s] = "asking" /\ peer[s] # Local
    /\ phase' = [phase EXCEPT ![s] = "up"]
    /\ RegisterAddress(peer[s], s)
    /\ UNCHANGED <<peer, waiting, msg_seq, inflight, users, crash>>

\* An answer with an error code closes the link.
Recv_SetAddress_AnsError(s) ==
    /\ phase[s] = "asking" /\ peer[s] = Local
    /\ OnClose(s)

-----------------------------------------------------------------------------
\* Requests of users.

\* The sessions a message goes to: the one of the address, all of the service,
\* or the next of the service in turn.
UniRoute(a) == {uni[a]} \ {None}
MultiRoute == ToSet(multi)
AnyRoute == IF any.list = <<>> THEN {}
            ELSE {any.list[(any.next % Len(any.list)) + 1]}

Routes(cast, a) ==
    CASE cast = "uni"   -> UniRoute(a)
      [] cast = "multi" -> MultiRoute
      [] cast = "any"   -> AnyRoute

\* A request is under way as long as an answer could still come.
Outstanding(u) ==
    \/ \E s \in Sessions : phase[s] # "free" /\ \E n \in waiting[s] : asker[n] = u
    \/ strand[u] # <<>>

\* A handler of user u binds itself to the answer and sends a request.
SendMsg(u, cast, a) ==
    /\ u \in connected /\ msg_seq < MaxSends
    /\ OneAtATime => ~Outstanding(u)
    /\ LET n == msg_seq + 1
           to == Routes(cast, a)
       IN  /\ msg_seq' = n
           /\ asker' = [asker EXCEPT ![n] = u]
           /\ container' = [container EXCEPT ![u] = n]
           /\ waiting' = [s \in Sessions |-> IF s \in to THEN waiting[s] \cup {n} ELSE waiting[s]]
           /\ inflight' = inflight \cup {[request |-> n, peer |-> peer[s]] : s \in to}
    /\ any' = IF cast = "any" /\ any.list # <<>> THEN [any EXCEPT !.next = @ + 1] ELSE any
    /\ UNCHANGED <<phase, peer, address, uni, multi, connected, strand, got, crash>>

\* An answer arrives on session s.  Recv_SendMsg_Ntf drops it unless the
\* address of s is registered; OnRecvMsg asks the registered session for the
\* user, and uses the link the user's session has.
Recv_SendMsg_Ntf(s, r) ==
    /\ phase[s] = "up" /\ r \in inflight /\ r.peer = peer[s]
    /\ inflight' = inflight \ {r}
    /\ LET router_session == IF address[s] = None THEN None ELSE uni[address[s]]
           u == asker[r.request]
       IN  IF router_session = None \/ r.request \notin waiting[router_session]
           THEN UNCHANGED <<waiting, strand, crash>>
           ELSE /\ waiting' = [waiting EXCEPT ![router_session] = @ \ {r.request}]
                /\ IF u \in connected
                   THEN strand' = [strand EXCEPT ![u] = Append(@, r.request)] /\ UNCHANGED crash
                   ELSE crash' = "null link" /\ UNCHANGED strand
    /\ UNCHANGED <<phase, peer, address, tables, msg_seq, asker, connected, container, got>>

\* The function in the user's strand takes the handler out of the container.
Answer(u) ==
    /\ strand[u] # <<>>
    /\ strand' = [strand EXCEPT ![u] = Tail(@)]
    /\ container' = [container EXCEPT ![u] = 0]
    /\ got' = IF container[u] = 0 THEN got
              ELSE got \cup {[user |-> u, handler |-> container[u], answer |-> Head(strand[u])]}
    /\ UNCHANGED <<sessions, tables, msg_seq, inflight, asker, connected, crash>>

\* The timer of watingSessionManager_ drops what is older than five seconds.
Timeout(s) ==
    /\ waiting[s] # {}
    /\ \E old \in SUBSET waiting[s] \ {{}} :
          waiting' = [waiting EXCEPT ![s] = @ \ old]
    /\ UNCHANGED <<phase, peer, address, tables, msg_seq, inflight, users, crash>>

UserCloses(u) ==
    /\ u \in connected
    /\ connected' = connected \ {u}
    /\ UNCHANGED <<sessions, tables, msg_seq, inflight, asker, container, strand, got, crash>>

-----------------------------------------------------------------------------
Handler(s) ==
    \/ OnConnect(s) \/ OnClose(s) \/ Timeout(s)
    \/ Recv_SetAddress_Req(s) \/ Recv_SetAddress_Ntf(s)
    \/ Recv_SetAddress_Ans(s) \/ Recv_SetAddress_AnsError(s)
    \/ \E r \in inflight : Recv_SendMsg_Ntf(s, r)
    \/ \E p \in Addresses : OnAccept(s, p) \/ Connect(s, p)

User(u) ==
    \/ Answer(u) \/ UserCloses(u)
    \/ \E cast \in {"uni", "multi", "any"}, a \in Peers : SendMsg(u, cast, a)

Next ==
    /\ crash = "no"
    /\ \/ \E s \in Sessions : Handler(s)
       \/ \E u \in Users : User(u)

Spec == Init /\ [][Next]_vars

-----------------------------------------------------------------------------
\* The types.  The own address is never that of a session.
TypeOK ==
    /\ phase \in [Sessions -> {"free", "accepted", "connecting", "asking",
                              "answered", "refused", "up"}]
    /\ peer \in [Sessions -> Addresses \cup {None}]
    /\ address \in [Sessions -> Peers \cup {None}]
    /\ waiting \in [Sessions -> SUBSET Requests]
    /\ uni \in [Addresses -> Sessions \cup {None}]
    /\ multi \in Seq(Sessions) /\ any \in [next : Nat, list : Seq(Sessions)]
    /\ msg_seq \in 0..MaxSends /\ asker \in [Requests -> Users \cup {None}]
    /\ inflight \subseteq [request : Requests, peer : Peers]
    /\ connected \subseteq Users /\ container \in [Users -> 0..MaxSends]
    /\ strand \in [Users -> Seq(Requests)]
    /\ crash \in {"no", "erase", "null link"}

\* RouterCaster::FindSession and SendMsg lead to a link whose handshake is
\* complete and whose other end is the server that was asked for, although
\* sessions are pooled with their old address, two links to one server can be
\* set up at once and the close of either unregisters the address.
RoutedIsUp ==
    \A a \in Addresses : uni[a] # None =>
        phase[uni[a]] = "up" /\ peer[uni[a]] = a /\ address[uni[a]] = a

\* The three tables hold the same sessions, each once, and erase(remove_if())
\* always has exactly one element to erase.
TablesAgree ==
    /\ ToSet(multi) = {uni[a] : a \in Addresses} \ {None}
    /\ ToSet(any.list) = ToSet(multi)
    /\ IsInjective(multi) /\ IsInjective(any.list)
    /\ crash # "erase"

\* HandlerContainer finds a handler by message id, not by request.  A user who
\* sends a request when no answer can come any more to an earlier one still
\* gets to each handler the answer to its own request: a late answer finds
\* nobody waiting.
OwnAnswer == OneAtATime => \A g \in got : g.handler = g.answer
=============================================================================
