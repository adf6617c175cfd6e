--------------------------- MODULE ReliableSession ---------------------------
(***************************************************************************)
(* One client (Session.cs of the Unity client) and a Tcp server: the       *)
(* client's send queue, msg_seq, reconnect and acknowledgements, and the   *)
(* server's OnRecvMsg with its MsgHandler.                                 *)
(*                                                                         *)
(* Connections are numbered; the server makes session number c when it     *)
(* accepts connection c, and the client's own session is the one of its    *)
(* first connection.  A message that is not read before its link closes is *)
(* lost.  A read returns any number of whole packets: the bytes of a       *)
(* packet that is not complete stay where they are.  OnRecvMsg handles a   *)
(* packet per step and no other handler of the server runs meanwhile, as   *)
(* with one thread; what more threads do to the pointers is in TcpSession. *)
(* The blocks under the client's _sync_obj are one step, and so is the     *)
(* assignment of _state with the block that follows it.                    *)
(*                                                                         *)
(* Three things can spoil the delivery of reliable messages: a heartbeat   *)
(* or Connect_Req is queued before a packet with a smaller number; an old  *)
(* Reconnect_Req, still in the queue, is sent again; BeginSend throws      *)
(* while Callback_Reconnect has the queue in a local copy.                 *)
(***************************************************************************)
EXTENDS Integers, SequencesExt

CONSTANTS
    MaxConnections,    \* bound: connections that are established
    MaxSeq,            \* bound: packets the client numbers
    HeartBeatInterval, \* SendMsg adds a heartbeat to every such msg_seq (10)
    Serial,            \* do the threads of the client never overtake each other
                       \* between taking a number and queueing the packet?
    SendFails          \* may BeginSend throw?

ASSUME ReliableSessionAssumption ==
    /\ MaxConnections \in Nat \ {0} /\ MaxSeq \in Nat
    /\ HeartBeatInterval \in Nat \ {0}
    /\ Serial \in BOOLEAN /\ SendFails \in BOOLEAN

VARIABLES
    state,         \* client: _state, with OnConnecting split by who connects
    conn,          \* client: number of the connection _socket is
    msg_seq,       \* client: _msg_seq
    numbered,      \* client: packet of a SendMsg call that is not queued yet
    queue,         \* client: _send_queue
    idx,           \* client: _send_queue_idx
    writing,       \* client: is a BeginSend outstanding?
    known,         \* client: _session_key and _session_token
    events,        \* client: received answers in _event_queue
    crashed,       \* client: an exception has left a callback
    up, down,      \* packets and answers on each connection
    link,          \* server: the link of each connection
    link_session,  \* server: Link::session, 0 for NULL
    recv_packet,   \* server: whole packets in Session::recv_packet
    session_seq,   \* server: Session::msg_seq
    session_token, \* server: Session::session_token, 0 for ""
    sessions,      \* server: SessionManager::_sessions
    tokens,        \* server: tokens generated so far
    reading,       \* server: the link and the session of a running OnRecvMsg
    sent, handled, \* history: reliable messages sent, and handled by session
    spoiled        \* history: has one of the three things happened?

client == <<state, conn, msg_seq, numbered, queue, idx, writing, known, events,
            crashed, sent, spoiled>>
server == <<link, link_session, recv_packet, session_seq, session_token, sessions,
            tokens, reading, handled>>
vars == <<client, up, down, server>>

Keys == 1..MaxConnections
Link(s) == {c \in Keys : link_session[c] = s}

Unknown == [key |-> 0, token |-> 0]
Idle == [link |-> 0, session |-> 0]

Packet(id, seq, reliable) ==
    [msg_id |-> id, msg_seq |-> seq, reliable |-> reliable,
     session |-> IF id = "Reconnect_Req" THEN known ELSE Unknown]
NoPacket == [msg_id |-> "none"]
Answer(id, error, session, seq) ==
    [msg_id |-> id, error |-> error, session |-> session, msg_seq |-> seq]

SessionRecord == [key : Nat, token : Nat]
PacketRecord == [msg_id : {"Message", "HeartBeat_Req", "Connect_Req", "Reconnect_Req"},
                 msg_seq : Nat \ {0}, reliable : BOOLEAN, session : SessionRecord]
AnswerRecord == [msg_id : {"Connect_Ans", "Reconnect_Ans", "HeartBeat_Ans"},
                 error : BOOLEAN, session : SessionRecord, msg_seq : Nat]

TypeOK ==
    /\ state \in {"Connecting", "Reconnecting", "Connected", "Disconnected"}
    /\ conn \in 0 .. MaxConnections
    /\ msg_seq \in Nat /\ idx \in Int
    /\ numbered \in PacketRecord \cup {NoPacket}
    /\ queue \in Seq(PacketRecord) /\ events \in Seq(AnswerRecord)
    /\ known \in SessionRecord
    /\ writing \in BOOLEAN /\ crashed \in BOOLEAN /\ spoiled \in BOOLEAN
    /\ sent \in Seq(Nat)
    /\ up \in [Keys -> Seq(PacketRecord)] /\ down \in [Keys -> Seq(AnswerRecord)]
    /\ link \in [Keys -> {"none", "open", "closed"}]
    /\ link_session \in [Keys -> 0 .. MaxConnections]
    /\ recv_packet \in [Keys -> Seq(PacketRecord)]
    /\ session_seq \in [Keys -> Nat] /\ session_token \in [Keys -> Nat]
    /\ sessions \in SUBSET Keys /\ tokens \in Nat
    /\ reading \in [link : Keys, session : Keys] \cup {Idle}
    /\ handled \in [Keys -> Seq(Nat)]

Init ==
    /\ state = "Connecting" /\ conn = 0 /\ msg_seq = 0 /\ numbered = NoPacket
    /\ queue = <<>> /\ idx = 0 /\ writing = FALSE /\ known = Unknown
    /\ events = <<>> /\ crashed = FALSE
    /\ up = [c \in Keys |-> <<>>] /\ down = [c \in Keys |-> <<>>]
    /\ link = [c \in Keys |-> "none"] /\ link_session = [c \in Keys |-> 0]
    /\ recv_packet = [s \in Keys |-> <<>>] /\ session_seq = [s \in Keys |-> 0]
    /\ session_token = [s \in Keys |-> 0] /\ sessions = {} /\ tokens = 0
    /\ reading = Idle
    /\ sent = <<>> /\ handled = [s \in Keys |-> <<>>] /\ spoiled = FALSE

-----------------------------------------------------------------------------
\* The client's queue.

\* BeginSend: the packet is on its way, or an exception has been caught.
BeginSend(packet, c) ==
    \/ /\ writing' = TRUE
       /\ up' = [up EXCEPT ![c] = Append(@, packet)]
    \/ SendFails /\ writing' = FALSE /\ UNCHANGED up

\* SendMsg(packet) for each of packets, while connection c is in state st.
SendPackets(packets, st, c) ==
    /\ queue' = queue \o packets
    /\ IF idx = Len(queue) /\ st = "Connected"
       THEN BeginSend(Head(packets), c)
       ELSE UNCHANGED <<writing, up>>

\* A packet is numbered while a SendMsg call is between its number and the queue.
Overtakes == numbered # NoPacket

\* SendMsg(msg): reconnects if it must and takes a number, without the lock.
SendMsg(reliable) ==
    /\ numbered = NoPacket
    /\ msg_seq < MaxSeq
    /\ state' = IF state = "Disconnected" THEN "Reconnecting" ELSE state
    /\ msg_seq' = msg_seq + 1
    /\ numbered' = Packet("Message", msg_seq + 1, reliable)
    /\ sent' = IF reliable THEN Append(sent, msg_seq + 1) ELSE sent
    /\ UNCHANGED <<conn, queue, idx, writing, known, events, crashed, up, down, server, spoiled>>

\* ... and then queues its packet, and a heartbeat after every tenth.
SendMsgQueues ==
    /\ numbered # NoPacket
    /\ numbered' = NoPacket
    /\ IF msg_seq % HeartBeatInterval = 0 /\ state = "Connected"
       THEN /\ msg_seq' = msg_seq + 1
            /\ SendPackets(<<numbered, Packet("HeartBeat_Req", msg_seq + 1, TRUE)>>, state, conn)
       ELSE /\ SendPackets(<<numbered>>, state, conn)
            /\ UNCHANGED msg_seq
    /\ UNCHANGED <<state, conn, idx, known, events, crashed, down, server, sent, spoiled>>

\* The heartbeat timer of a connection.
Send_HeartBeat_Req ==
    /\ state = "Connected"
    /\ Serial => ~Overtakes
    /\ msg_seq < MaxSeq
    /\ msg_seq' = msg_seq + 1
    /\ spoiled' = (spoiled \/ Overtakes)
    /\ SendPackets(<<Packet("HeartBeat_Req", msg_seq + 1, TRUE)>>, state, conn)
    /\ UNCHANGED <<state, conn, numbered, idx, known, events, crashed, down, server, sent>>

\* A mutant: a packet leaves the queue when it is written.
Callback_SendMsgForgets ==
    /\ writing
    /\ idx \in 0 .. Len(queue) - 1
    /\ queue' = RemoveAt(queue, idx + 1)
    /\ IF idx < Len(queue') /\ state = "Connected"
       THEN BeginSend(queue'[idx + 1], conn)
       ELSE writing' = FALSE /\ UNCHANGED up
    /\ UNCHANGED <<crashed, idx, state, conn, msg_seq, numbered, known, events, down,
                   server, sent, spoiled>>

\* A write has ended: a reliable packet stays in the queue until it is
\* acknowledged.  An index that an old acknowledgement has moved below the
\* queue throws an exception nobody catches.
Callback_SendMsg ==
    /\ writing
    /\ IF idx \notin 0 .. Len(queue) - 1
       THEN /\ crashed' = TRUE /\ writing' = FALSE
            /\ UNCHANGED <<queue, idx, up>>
       ELSE /\ IF queue[idx + 1].reliable
               THEN idx' = idx + 1 /\ UNCHANGED queue
               ELSE queue' = RemoveAt(queue, idx + 1) /\ UNCHANGED idx
            /\ IF idx' < Len(queue') /\ state = "Connected"
               THEN BeginSend(queue'[idx' + 1], conn)
               ELSE writing' = FALSE /\ UNCHANGED up
            /\ UNCHANGED crashed
    /\ UNCHANGED <<state, conn, msg_seq, numbered, known, events, down, server, sent, spoiled>>

-----------------------------------------------------------------------------
\* The client's connections.

\* The server accepts connection c, OnAccept gives it a new session.
Accepted(c) ==
    /\ link' = [link EXCEPT ![c] = "open"]
    /\ link_session' = [link_session EXCEPT ![c] = c]

\* An exception in the first BeginSend is an error, and Close.
Callback_Connect ==
    /\ state = "Connecting"
    /\ Serial => ~Overtakes
    /\ conn' = conn + 1
    /\ Accepted(conn')
    /\ msg_seq' = msg_seq + 1
    /\ SendPackets(<<Packet("Connect_Req", msg_seq + 1, FALSE)>>, "Connected", conn')
    /\ state' = IF queue = <<>> /\ ~writing' THEN "Disconnected" ELSE "Connected"
    /\ spoiled' = (spoiled \/ Overtakes)
    /\ UNCHANGED <<numbered, idx, known, events, crashed, down, recv_packet, session_seq,
                   session_token, sessions, tokens, reading, sent, handled>>

\* Reconnect_Req comes first, then everything that is still in the queue; an
\* exception in BeginSend leaves the copy of the queue behind.
Callback_Reconnect ==
    /\ state = "Reconnecting"
    /\ Serial => ~Overtakes
    /\ conn < MaxConnections
    /\ conn' = conn + 1
    /\ Accepted(conn')
    /\ msg_seq' = msg_seq + 1
    /\ idx' = 0
    /\ LET req == Packet("Reconnect_Req", msg_seq + 1, FALSE)
       IN  /\ BeginSend(req, conn')
           /\ queue' = IF writing' THEN <<req>> \o queue ELSE <<req>>
    /\ state' = IF writing' THEN "Connected" ELSE "Disconnected"
    /\ spoiled' = (\/ spoiled
                   \/ \E i \in DOMAIN queue : queue[i].msg_id = "Reconnect_Req"
                   \/ ~writing' /\ queue # <<>>)
    /\ UNCHANGED <<numbered, known, events, crashed, down, recv_packet, session_seq,
                   session_token, sessions, tokens, reading, sent, handled>>

\* Close: an error, the end of the stream, a connect timeout, Kickout_Ntf.
Close ==
    /\ state # "Disconnected"
    /\ state' = "Disconnected"
    /\ UNCHANGED <<conn, msg_seq, numbered, queue, idx, writing, known, events, crashed,
                   up, down, server, sent, spoiled>>

Callback_Receive ==
    /\ state = "Connected" /\ down[conn] # <<>>
    /\ events' = Append(events, Head(down[conn]))
    /\ down' = [down EXCEPT ![conn] = Tail(@)]
    /\ UNCHANGED <<state, conn, msg_seq, numbered, queue, idx, writing, known, crashed,
                   up, server, sent, spoiled>>

\* RemoveSentPacket for each acknowledgement among events: n packets leave the
\* front of the queue.
RemoveSentPacket(n) ==
    LET acked(p) == \E i \in DOMAIN events : /\ events[i].msg_id = "HeartBeat_Ans"
                                             /\ p.msg_seq <= events[i].msg_seq
    IN  /\ \A i \in 1 .. n : acked(queue[i])
        /\ n < Len(queue) => ~acked(queue[n + 1])
        /\ queue' = SubSeq(queue, n + 1, Len(queue))
        /\ idx' = idx - n

\* Update handles all received answers: Recv_Connect_Ans, Recv_Reconnect_Ans
\* and Recv_HeartBeat_Ans; one with an error code changes nothing.
Update ==
    /\ events # <<>>
    /\ events' = <<>>
    /\ LET news == {i \in DOMAIN events :
                       events[i].msg_id # "HeartBeat_Ans" /\ ~events[i].error}
       IN  \/ news = {} /\ UNCHANGED known
           \/ \E i \in news : /\ \A j \in news : j <= i
                             /\ known' = events[i].session
    /\ \E n \in 0 .. Len(queue) : RemoveSentPacket(n)
    /\ UNCHANGED <<state, conn, msg_seq, numbered, writing, crashed, up, down, server, sent, spoiled>>

-----------------------------------------------------------------------------
\* The server.

\* Session::Send: an answer on the link the session has, if any.
Send(s, answer) ==
    down' = [c \in Keys |-> IF c \in Link(s) THEN Append(down[c], answer) ELSE down[c]]

\* OnRecvMsg with the bytes of some packets; a link without session is closed.
Read(c) ==
    /\ link[c] = "open" /\ up[c] # <<>> /\ reading = Idle
    /\ IF link_session[c] = 0
       THEN /\ link' = [link EXCEPT ![c] = "closed"]
            /\ UNCHANGED <<up, recv_packet, reading>>
       ELSE /\ \E n \in 1 .. Len(up[c]) :
                  /\ recv_packet' = [recv_packet EXCEPT ![link_session[c]] =
                                        @ \o SubSeq(up[c], 1, n)]
                  /\ up' = [up EXCEPT ![c] = SubSeq(@, n + 1, Len(@))]
            /\ reading' = [link |-> c, session |-> link_session[c]]
            /\ UNCHANGED link
    /\ UNCHANGED <<client, down, link_session, session_seq, session_token, sessions,
                   tokens, handled>>

\* OnRecvMsg is at a packet of session s.
AtPacket(s, p) ==
    /\ reading # Idle /\ reading.session = s
    /\ recv_packet[s] # <<>> /\ p = Head(recv_packet[s])

\* The end of the loop for this packet; packets is what recv_packet held.
Consume(s, packets) ==
    /\ recv_packet' = [packets EXCEPT ![s] = Tail(@)]
    /\ reading' = IF Len(packets[s]) = 1 THEN Idle ELSE reading

HandledBefore(s, p) == p.msg_seq <= session_seq[s]

Discard(s, p) ==
    /\ HandledBefore(s, p)
    /\ Consume(s, recv_packet)
    /\ UNCHANGED <<down, link_session, session_seq, session_token, sessions, tokens, handled>>

Handled(s, p) == session_seq' = [session_seq EXCEPT ![s] = p.msg_seq]

Recv_Connect_Req(s, p) ==
    /\ p.msg_id = "Connect_Req" /\ ~HandledBefore(s, p)
    /\ tokens' = tokens + 1
    /\ session_token' = [session_token EXCEPT ![s] = tokens']
    /\ sessions' = sessions \cup {s}
    /\ Send(s, Answer("Connect_Ans", FALSE, [key |-> s, token |-> tokens'], 0))
    /\ Handled(s, p) /\ Consume(s, recv_packet)
    /\ UNCHANGED <<link_session, handled>>

\* A mutant: what was read with the request stays with the session of the link.
HandOverNothing(s, other) == [recv_packet EXCEPT ![other] = <<>>]

\* other->recv_packet = session->recv_packet, which is at the request; other may
\* be the session itself.
HandOver(s, other) ==
    [recv_packet EXCEPT ![other] = IF other = s THEN @ ELSE Tail(recv_packet[s])]

\* The session of a reconnect takes over the link and the packets read from
\* it; the loop goes on with the session the link had.
Reconnects(s, p) ==
    LET c == reading.link
        other == p.session.key
    IN  /\ other \in sessions /\ session_token[other] = p.session.token
        /\ link_session' = [d \in Keys |->
              IF d = c THEN other ELSE IF link_session[d] = other THEN 0 ELSE link_session[d]]
        /\ tokens' = tokens + 1
        /\ session_token' = [session_token EXCEPT ![other] = tokens']
        /\ Consume(s, HandOver(s, other))
        /\ down' = [down EXCEPT ![c] = Append(@, Answer("Reconnect_Ans", FALSE,
                       [key |-> other, token |-> tokens'], session_seq[other]))]

\* No such session, or the token is not its last: the link loses its session.
ReconnectFails(s, p) ==
    LET c == reading.link
        other == p.session.key
    IN  /\ other \in sessions => session_token[other] # p.session.token
        /\ link_session' = [link_session EXCEPT ![c] = 0]
        /\ down' = [down EXCEPT ![c] = Append(@, Answer("Reconnect_Ans", TRUE, Unknown, 0))]
        /\ Consume(s, recv_packet)
        /\ UNCHANGED <<session_token, tokens>>

Recv_Reconnect_Req(s, p) ==
    /\ p.msg_id = "Reconnect_Req" /\ ~HandledBefore(s, p)
    /\ Reconnects(s, p) \/ ReconnectFails(s, p)
    /\ Handled(s, p)
    /\ UNCHANGED <<sessions, handled>>

\* The answer carries the number of the message before this one.
Recv_HeartBeat_Req(s, p) ==
    /\ p.msg_id = "HeartBeat_Req" /\ ~HandledBefore(s, p)
    /\ Send(s, Answer("HeartBeat_Ans", FALSE, Unknown, session_seq[s]))
    /\ Handled(s, p) /\ Consume(s, recv_packet)
    /\ UNCHANGED <<link_session, session_token, sessions, tokens, handled>>

\* A message of the application is given to its handler.
Recv_Message(s, p) ==
    /\ p.msg_id = "Message" /\ ~HandledBefore(s, p)
    /\ handled' = [handled EXCEPT ![s] = IF p.reliable THEN Append(@, p.msg_seq) ELSE @]
    /\ Handled(s, p) /\ Consume(s, recv_packet)
    /\ UNCHANGED <<down, link_session, session_token, sessions, tokens>>

OnRecvMsg(s) ==
    /\ \E p \in {recv_packet[s][i] : i \in DOMAIN recv_packet[s]} :
          /\ AtPacket(s, p)
          /\ \/ Discard(s, p) \/ Recv_Connect_Req(s, p) \/ Recv_Reconnect_Req(s, p)
             \/ Recv_HeartBeat_Req(s, p) \/ Recv_Message(s, p)
    /\ UNCHANGED <<client, up, link>>

\* A link is closed by an error, the peer or the keep-alive: OnClose.
LinkCloses(c) ==
    /\ link[c] = "open" /\ reading = Idle
    /\ link' = [link EXCEPT ![c] = "closed"]
    /\ link_session' = [link_session EXCEPT ![c] = 0]
    /\ UNCHANGED <<client, up, down, recv_packet, session_seq, session_token, sessions,
                   tokens, reading, handled>>

\* The idle timer destroys a session without link.
IdleTimer(s) ==
    /\ s \in sessions /\ Link(s) = {} /\ reading = Idle
    /\ sessions' = sessions \ {s}
    /\ UNCHANGED <<client, up, down, link, link_session, recv_packet, session_seq,
                   session_token, tokens, reading, handled>>

-----------------------------------------------------------------------------
Client ==
    \/ \E reliable \in BOOLEAN : SendMsg(reliable)
    \/ SendMsgQueues \/ Send_HeartBeat_Req \/ Callback_SendMsg
    \/ Callback_Connect \/ Callback_Reconnect \/ Close \/ Callback_Receive \/ Update

Server == \E c \in Keys : Read(c) \/ OnRecvMsg(c) \/ LinkCloses(c) \/ IdleTimer(c)

\* A crashed client does nothing.
Next == (~crashed /\ Client) \/ Server

Spec == Init /\ [][Next]_vars

-----------------------------------------------------------------------------
Numbers == 0 .. MaxSeq + MaxConnections + 1

\* What the client's session has handled: the one a Connect_Req was answered for.
HandledByOwn ==
    LET own == {s \in Keys : session_token[s] # 0}
    IN  IF own = {} THEN <<>> ELSE handled[CHOOSE s \in own : TRUE]

\* Session.cs:448 "handOverRelility" and Handler_HeartBeat.cpp:27 "expect: ack_seq + 1":
\* every reliable message is handled once and in order by the client's session,
\* across reconnects, lost packets, repeated packets and coalesced reads.
InOrder == IsPrefix(HandledByOwn, sent)

Queue == INSTANCE ReliableQueue WITH
             Messages <- Numbers, sent <- sent, handled <- HandledByOwn

\* The same, as an implementation of ReliableQueue, until it is spoiled.
ExactlyOnce ==
    Queue!Init /\ [][Queue!Send \/ Queue!Handle \/ spoiled']_<<sent, HandledByOwn>>

\* A reliable message is in the client's queue until its session has handled it:
\* RemoveSentPacket and Callback_SendMsg drop no other, whatever connection the
\* acknowledgement comes from.
QueuedUntilHandled ==
    spoiled \/ \A i \in DOMAIN sent :
        \/ sent[i] \in {queue[j].msg_seq : j \in DOMAIN queue}
        \/ sent[i] \in {HandledByOwn[j] : j \in DOMAIN HandledByOwn}
        \/ numbered # NoPacket /\ numbered.msg_seq = sent[i]
=============================================================================
