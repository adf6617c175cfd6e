----------------------------- MODULE UnityClient -----------------------------
(***************************************************************************)
(* Client/Unity: Session and StreamSession.  The game's thread connects,   *)
(* sends and runs the events that Update finds in the queue; the callbacks *)
(* of the socket operations run on other threads, in any order, and use    *)
(* the field _socket, whatever socket that is by then.                     *)
(*                                                                         *)
(* A message of the game is its number, and what is sent again of one that *)
(* a socket has taken only a part of is a number below 0.  What the server *)
(* sends on a connection is a sequence of units, of which two make a       *)
(* packet, its header and its body.  An ErrorEvent only tells the game; it *)
(* is left out.                                                            *)
(***************************************************************************)
EXTENDS Integers, Sequences, FiniteSets, SequencesExt

CONSTANTS MaxMessages,   \* bound: messages the game sends
          Sockets,       \* bound: 1..n, the sockets that can be created
          MaxUnits,      \* bound: units the server sends on a connection
          MaxTraffic,    \* bound: messages, their rests and units of one connection
          MaxPartials,   \* bound: sends of which the socket takes a part
          BufferUnits,   \* units that fit into a Buffer, which a read fills
          Sizes,         \* sizes of the messages of the game
          PACKET_HEADER_SIZE, BUFFER_SIZE,
          LengthBits     \* of the ushort that is the length of a packet

VARIABLES
  state,        \* Session.state
  socket,       \* Session._socket, 0 for null
  status,       \* of each socket: what the network and Close have made of it
  ops,          \* asynchronous operations whose callback has not run to its end
  eventQueue, sendQueue,
  recvBuffer,   \* units received and not handled
  incoming,     \* units the server has sent on each socket and that were not read
  units,        \* units it has sent so far on each
  looping,      \* the game's thread is in a ReconnectEvent that does not end
  partials,     \* sends so far of which the socket took a part
  sent,         \* history: messages the game has sent
  posted,       \* history: messages handed to a socket, in order
  handled,      \* history: what handlers got, as pairs of units
  interrupted,  \* history: an exception left the event that empties sendQueue
  closed_twice, \* history: Close while a disconnect was under way
  redialed,     \* history: a thread of the pool called Reconnect
  cut,          \* history: a connection ended inside a packet
  torn          \* history: a read had no room, or a handler left its body
client == <<state, socket, eventQueue, sendQueue, recvBuffer, looping>>
network == <<status, ops, incoming, units, partials>>
history == <<sent, posted, handled, interrupted, closed_twice, redialed, cut, torn>>
vars == <<client, network, history>>

Usable(s) == s # 0 /\ status[s] \in {"up", "eof", "shut"}
Writable(s) == s # 0 /\ status[s] \in {"up", "eof"}
Op(k, s, n) == [kind |-> k, socket |-> s, n |-> n]
Created == {s \in Sockets : status[s] # "none"}
Fresh == Cardinality(Created) + 1
(* Bounds: rests are in behaviours in which the server sends nothing.       *)
Traffic(s) == sent + partials + units[s]
MayBePartial == \A s \in Sockets : units[s] = 0 /\ Traffic(s) < MaxTraffic

Init ==
  /\ state = "Disconnected" /\ socket = 0 /\ status = [s \in Sockets |-> "none"]
  /\ ops = {} /\ eventQueue = <<>> /\ sendQueue = <<>> /\ recvBuffer = <<>>
  /\ incoming = [s \in Sockets |-> <<>>] /\ units = [s \in Sockets |-> 0]
  /\ looping = FALSE /\ partials = 0
  /\ sent = 0 /\ posted = <<>> /\ handled = <<>>
  /\ interrupted = FALSE /\ closed_twice = FALSE /\ redialed = FALSE
  /\ cut = FALSE /\ torn = FALSE

-----------------------------------------------------------------------------
(* Close: Shutdown throws unless the socket is connected, and then there is *)
(* no BeginDisconnect.  os are the operations under way.                    *)
Disconnects(os) == {o \in os : o.kind \in {"disconnect", "ended", "closed"}}
Close(os) ==
  IF Usable(socket)
  THEN /\ status' = [status EXCEPT ![socket] = "shut"]
       /\ ops' = os \union {Op("disconnect", socket, Cardinality(Disconnects(os)))}
       /\ closed_twice' = (closed_twice \/ Disconnects(os) # {})
  ELSE ops' = os /\ UNCHANGED <<status, closed_twice>>

(* Session.Connect, which the game calls once.  Resolving the host fails,   *)
(* or the connect is under way.                                             *)
Connect ==
  /\ state = "Disconnected" /\ Created = {}
  /\ state' = "OnConnecting"
  /\ \/ ops' = ops \union {Op("connect", Fresh, 0)} /\ status' = [status EXCEPT ![Fresh] = "connecting"]
     \/ UNCHANGED <<ops, status>>
  /\ UNCHANGED <<socket, eventQueue, sendQueue, recvBuffer, looping, incoming, units, partials, history>>

(* Reconnect, of a message m without a connection.                          *)
Reconnect(m) ==
  /\ state = "Disconnected" /\ Fresh \in Sockets
  /\ state' = "OnConnecting" /\ sendQueue' = Append(sendQueue, m)
  /\ ops' = ops \union {Op("reconnect", Fresh, 0)} /\ status' = [status EXCEPT ![Fresh] = "connecting"]
  /\ UNCHANGED <<posted, closed_twice>>

(* PostSend of m.  A BeginSend on a socket that is gone throws; the message *)
(* is lost and Close called.                                                *)
PostSend(m) ==
  \/ /\ state = "OnConnecting"
     /\ sendQueue' = Append(sendQueue, m)
     /\ UNCHANGED <<state, ops, status, posted, closed_twice>>
  \/ /\ state = "Connected" /\ Writable(socket)
     /\ ops' = ops \union {Op("send", socket, m)}
     /\ posted' = Append(posted, m)
     /\ UNCHANGED <<state, sendQueue, status, closed_twice>>
  \/ /\ state = "Connected" /\ ~Writable(socket)
     /\ Close(ops)
     /\ UNCHANGED <<state, sendQueue, posted>>

(* SendMsg: the length is cut to a ushort before it is compared, but then    *)
(* the header or the body has no room in the array that is made of it.      *)
PacketLength(size) == (PACKET_HEADER_SIZE + size) % 2 ^ LengthBits
IsPacked(size) ==
  /\ PacketLength(size) <= BUFFER_SIZE
  /\ PacketLength(size) >= PACKET_HEADER_SIZE + size

AsyncSend ==
  /\ ~looping /\ sent < MaxMessages /\ \A s \in Sockets : Traffic(s) < MaxTraffic
  /\ sent' = sent + 1
  /\ Created # {}
  /\ \E size \in Sizes : IsPacked(size)
  /\ Reconnect(sent') \/ PostSend(sent')
  /\ UNCHANGED <<socket, eventQueue, recvBuffer, looping, incoming, units, partials, handled, interrupted, redialed, cut, torn>>

(* The game closes the connection, or sends a message that is too long, for  *)
(* which SendMsg closes it; bound: not while two closes are going on.       *)
CloseByGame ==
  /\ ~looping /\ Usable(socket) /\ Cardinality(Disconnects(ops)) < 2 /\ Close(ops)
  /\ UNCHANGED <<client, incoming, units, partials, sent, posted, handled, interrupted, redialed, cut, torn>>

-----------------------------------------------------------------------------
(* Update: the event at the head of the queue.                              *)
Takes(kind) ==
  /\ ~looping /\ eventQueue # <<>> /\ Head(eventQueue).kind = kind
  /\ eventQueue' = Tail(eventQueue)

ConnectEvent ==
  /\ Takes("connect")
  /\ state' = "Connected" /\ sendQueue' = <<>>
  /\ UNCHANGED <<socket, recvBuffer, looping, network, history>>

(* The operations of the first n messages of the queue.                     *)
Sends(n) == {Op("send", socket, sendQueue[i]) : i \in 1..n}

\* A mutant: the queue is sent, and kept.
ReconnectEventKeeps ==
  /\ Takes("reconnect")
  /\ state' = "Connected"
  /\ ops' = ops \union Sends(Len(sendQueue))
  /\ posted' = posted \o sendQueue
  /\ UNCHANGED <<socket, sendQueue, recvBuffer, looping, status, incoming, units, partials>>
  /\ UNCHANGED <<sent, handled, interrupted, closed_twice, redialed, cut, torn>>

(* The queue is sent, up to the BeginSend that throws.                      *)
ReconnectEvent ==
  /\ Takes("reconnect")
  /\ state' = "Connected"
  /\ \E n \in 0..Len(sendQueue) :
       /\ n > 0 => socket # 0 /\ (n = Len(sendQueue) => Writable(socket))
       /\ ops' = ops \union Sends(n)
       /\ posted' = posted \o SubSeq(sendQueue, 1, n)
       /\ IF n = Len(sendQueue) THEN sendQueue' = <<>> /\ UNCHANGED interrupted
          ELSE /\ ~Writable(socket)
               /\ sendQueue' = SubSeq(sendQueue, n + 2, Len(sendQueue)) /\ interrupted' = TRUE
  /\ UNCHANGED <<socket, recvBuffer, looping, status, incoming, units, partials>>
  /\ UNCHANGED <<sent, handled, closed_twice, redialed, cut, torn>>

(* Reconnect in a thread of the pool, which has found Disconnected before:   *)
(* the connect is under way, or BeginConnect throws.  os are the other      *)
(* operations.                                                              *)
Redial(os) ==
  /\ state' = "OnConnecting" /\ redialed' = TRUE
  /\ \/ /\ Fresh \in Sockets
        /\ ops' = os \union {Op("reconnect", Fresh, 0)} /\ status' = [status EXCEPT ![Fresh] = "connecting"]
     \/ ops' = os /\ UNCHANGED status
Becomes(o, k) == (ops \ {o}) \union {[o EXCEPT !.kind = k]}

(* The same event, when that thread sets state between two messages: from   *)
(* then on PostSend puts each message back that the loop takes.             *)
ReconnectEventLoops ==
  /\ Takes("reconnect")
  /\ \E o \in ops, n \in 0..(Len(sendQueue) - 1) :
       /\ o.kind = "redial"
       /\ n > 0 => socket # 0
       /\ Redial(Becomes(o, "repost") \union Sends(n))
       /\ posted' = posted \o SubSeq(sendQueue, 1, n)
       /\ sendQueue' = SubSeq(sendQueue, n + 1, Len(sendQueue))
  /\ looping' = TRUE
  /\ UNCHANGED <<socket, recvBuffer, incoming, units, partials>>
  /\ UNCHANGED <<sent, handled, interrupted, closed_twice, cut, torn>>

CloseEvent ==
  /\ Takes("close")
  /\ state' = "Disconnected"
  /\ UNCHANGED <<socket, sendQueue, recvBuffer, looping, network, history>>

\* A mutant: a packet that is handled stays at the front of the buffer.
ReceiveEventKeeps ==
  /\ Takes("receive")
  /\ LET b == recvBuffer \o Head(eventQueue).buffer
         whole == Len(b) \div 2 IN
     /\ handled' = handled \o [i \in 1..whole |-> <<b[2 * i - 1], b[2 * i]>>]
     /\ recvBuffer' = b
  /\ UNCHANGED <<state, socket, sendQueue, looping, network>>
  /\ UNCHANGED <<sent, posted, interrupted, closed_twice, redialed, cut, torn>>

(* StreamSession.OnReceive: packets are taken from the front of recvBuffer, *)
(* which no connection clears, in rounds: a handler takes the body, or it   *)
(* throws, which is caught, and the body is taken for the next header.  The *)
(* loop ends where a body is not there; at an id without a handler, or at a *)
(* length above BUFFER_SIZE, which throws; and then the header stays where  *)
(* it is, and so does all behind it.                                        *)
At(takes, i) == i + Cardinality({j \in 1..(i - 1) : takes[j]})
Rounds(b) ==
  \E n \in 0..Len(b) : \E takes \in [1..n -> BOOLEAN] :
    /\ \A i \in 1..n : At(takes, i) < Len(b)
    /\ handled' = handled \o [i \in 1..n |-> <<b[At(takes, i)], b[At(takes, i) + 1]>>]
    /\ recvBuffer' = SubSeq(b, At(takes, n + 1), Len(b))
    /\ torn' = (torn \/ \E i \in 1..n : ~takes[i])

(* What has been read is put behind recvBuffer in a new Buffer; when there   *)
(* is no room, BlockCopy throws, and what has been read is gone.            *)
ReceiveEvent ==
  /\ Takes("receive")
  /\ LET b == recvBuffer \o Head(eventQueue).buffer IN
     IF Len(b) <= BufferUnits THEN Rounds(b)
     ELSE torn' = TRUE /\ UNCHANGED <<recvBuffer, handled>>
  /\ UNCHANGED <<state, socket, sendQueue, looping, network>>
  /\ UNCHANGED <<sent, posted, interrupted, closed_twice, redialed, cut>>

-----------------------------------------------------------------------------
(* The callbacks.  Callback_OnConnect and Callback_OnReconnect: _socket is  *)
(* set before EndConnect may throw, and then Close throws, too.             *)
Event(k, b) == [kind |-> k, buffer |-> b]
Connected(o) ==
  /\ socket' = o.socket
  /\ \/ /\ status' = [status EXCEPT ![o.socket] = "up"]
        /\ eventQueue' = Append(eventQueue, Event(o.kind, <<>>))
        /\ ops' = (ops \ {o}) \union {Op("receive", o.socket, 0)}
     \/ /\ status' = [status EXCEPT ![o.socket] = "failed"] /\ ops' = ops \ {o}
        /\ UNCHANGED eventQueue
  /\ UNCHANGED <<state, sendQueue, recvBuffer, looping, incoming, units, partials, history>>

Callback_OnConnect == \E o \in ops : o.kind = "connect" /\ Connected(o)
Callback_OnReconnect == \E o \in ops : o.kind = "reconnect" /\ Connected(o)

\* A mutant: the end of the stream is taken for nothing read.
Callback_OnReceiveIgnoresEnd ==
  \E o \in ops :
    /\ o.kind = "receive"
    /\ socket = o.socket /\ Usable(socket) /\ incoming[socket] # <<>>
    /\ \E n \in 1..Len(incoming[socket]) :
         /\ n <= BufferUnits
         /\ eventQueue' = Append(eventQueue, Event("receive", SubSeq(incoming[socket], 1, n)))
         /\ incoming' = [incoming EXCEPT ![socket] = SubSeq(@, n + 1, Len(@))]
    /\ UNCHANGED <<state, socket, sendQueue, recvBuffer, looping, network, history>>

(* Callback_OnReceive: some units, the end of the stream, or an exception:  *)
(* of a reset, or because _socket is another one by now.                    *)
Callback_OnReceive ==
  \E o \in ops :
    /\ o.kind = "receive"
    /\ \/ /\ socket = o.socket /\ Usable(socket) /\ incoming[socket] # <<>>
          /\ \E n \in 1..Len(incoming[socket]) :
               /\ n <= BufferUnits
               /\ eventQueue' = Append(eventQueue, Event("receive", SubSeq(incoming[socket], 1, n)))
               /\ incoming' = [incoming EXCEPT ![socket] = SubSeq(@, n + 1, Len(@))]
          /\ UNCHANGED <<status, ops, closed_twice>>
       \/ /\ socket = o.socket /\ incoming[socket] = <<>> /\ status[socket] \in {"eof", "shut"}
          /\ Close(ops \ {o})
          /\ UNCHANGED <<eventQueue, incoming>>
       \/ /\ socket # o.socket \/ status[o.socket] \in {"dead", "closed"}
          /\ ops' = ops \ {o}
          /\ UNCHANGED <<status, closed_twice, eventQueue, incoming>>
  /\ UNCHANGED <<state, socket, sendQueue, recvBuffer, looping, units, partials>>
  /\ UNCHANGED <<sent, posted, handled, interrupted, redialed, cut, torn>>

(* Callback_OnSend: an exception, of this socket or because _socket is      *)
(* another one, closes the connection that there is now.  When the socket   *)
(* has taken a part of the message, the rest goes to AsyncSend, with the    *)
(* whole of the array that it is copied to.                                 *)
EndSend ==
  \E o \in ops :
    /\ o.kind = "send"
    /\ IF socket = o.socket /\ status[socket] # "dead"
       THEN /\ \/ ops' = ops \ {o} /\ UNCHANGED partials
               \/ /\ Usable(socket) /\ partials < MaxPartials /\ MayBePartial
                  /\ partials' = partials + 1
                  /\ ops' = (ops \ {o}) \union {Op("part", socket, -partials')}
            /\ UNCHANGED <<status, closed_twice>>
       ELSE Close(ops \ {o}) /\ UNCHANGED partials
    /\ UNCHANGED <<state, sendQueue, posted, redialed>>

(* AsyncSend in this thread, while the game has its own: the two tests of   *)
(* state, of Reconnect and of PostSend, and what is done after each.        *)
SendRest ==
  \E o \in ops :
    \/ /\ o.kind = "part"
       /\ ops' = Becomes(o, IF state = "Disconnected" THEN "redial" ELSE "repost")
       /\ UNCHANGED <<state, sendQueue, posted, status, closed_twice, redialed>>
    \/ /\ o.kind = "redial" /\ Redial(Becomes(o, "repost"))
       /\ UNCHANGED <<sendQueue, posted, closed_twice>>
    \/ /\ o.kind = "repost"
       /\ ops' = Becomes(o, IF state = "Connected" THEN "resend" ELSE "requeue")
       /\ UNCHANGED <<state, sendQueue, posted, status, closed_twice, redialed>>
    \/ /\ o.kind = "resend" /\ Writable(socket)
       /\ ops' = (ops \ {o}) \union {Op("send", socket, o.n)}
       /\ posted' = Append(posted, o.n)
       /\ UNCHANGED <<state, sendQueue, status, closed_twice, redialed>>
    \/ /\ o.kind = "resend" /\ ~Writable(socket) /\ Close(ops \ {o})
       /\ UNCHANGED <<state, sendQueue, posted, redialed>>
    \/ /\ o.kind = "requeue"
       /\ ops' = ops \ {o} /\ sendQueue' = Append(sendQueue, o.n)
       /\ UNCHANGED <<state, posted, status, closed_twice, redialed>>

Callback_OnSend ==
  /\ EndSend \/ (SendRest /\ UNCHANGED partials)
  /\ UNCHANGED <<socket, eventQueue, recvBuffer, looping, incoming, units>>
  /\ UNCHANGED <<sent, handled, interrupted, cut, torn>>

(* Callback_OnClose runs in three steps, which those of a second Close may  *)
(* come between: EndDisconnect, Close, and _socket is null and the event    *)
(* queued.  A step that does not find its socket throws.                    *)
Callback_OnClose ==
  \E o \in Disconnects(ops) :
    /\ CASE o.kind = "disconnect" -> ops' = (IF socket = o.socket /\ status[socket] # "closed"
                                             THEN Becomes(o, "ended") ELSE ops \ {o})
         [] o.kind = "ended" -> ops' = (IF socket # 0 THEN Becomes(o, "closed") ELSE ops \ {o})
         [] o.kind = "closed" -> ops' = ops \ {o}
    /\ status' = IF o.kind = "ended" /\ socket # 0 THEN [status EXCEPT ![socket] = "closed"] ELSE status
    /\ socket' = IF o.kind = "closed" THEN 0 ELSE socket
    /\ eventQueue' = IF o.kind = "closed" THEN Append(eventQueue, Event("close", <<>>)) ELSE eventQueue
    /\ cut' = (cut \/ (status' # status /\ (incoming[socket] # <<>> \/ units[socket] % 2 = 1)))
  /\ UNCHANGED <<state, sendQueue, recvBuffer, looping, incoming, units, partials>>
  /\ UNCHANGED <<sent, posted, handled, interrupted, closed_twice, redialed, torn>>

-----------------------------------------------------------------------------
(* The server and the network. *)
ServerSends ==
  \E s \in Sockets :
    /\ status[s] = "up" /\ units[s] < MaxUnits /\ Traffic(s) < MaxTraffic /\ partials = 0
    /\ units' = [units EXCEPT ![s] = @ + 1]
    /\ incoming' = [incoming EXCEPT ![s] = Append(@, <<s, units'[s]>>)]
    /\ UNCHANGED <<client, status, ops, partials, history>>
ServerCloses ==
  \E s \in Sockets :
    /\ status[s] = "up" /\ status' = [status EXCEPT ![s] = "eof"]
    /\ UNCHANGED <<client, ops, incoming, units, partials, history>>
Reset ==
  \E s \in Sockets :
    /\ Usable(s) /\ status' = [status EXCEPT ![s] = "dead"]
    /\ cut' = (cut \/ incoming[s] # <<>> \/ units[s] % 2 = 1)
    /\ UNCHANGED <<client, ops, incoming, units, partials>>
    /\ UNCHANGED <<sent, posted, handled, interrupted, closed_twice, redialed, torn>>

Update == ConnectEvent \/ ReconnectEvent \/ ReconnectEventLoops \/ CloseEvent \/ ReceiveEvent
Callback == Callback_OnConnect \/ Callback_OnReconnect \/ Callback_OnReceive \/ Callback_OnSend \/ Callback_OnClose
Next == Connect \/ AsyncSend \/ CloseByGame \/ Update \/ Callback \/ ServerSends \/ ServerCloses \/ Reset
(* The game calls Update in every frame, and the pool has threads.          *)
Spec == Init /\ [][Next]_vars /\ WF_vars(Update)
  /\ WF_vars(Callback_OnConnect) /\ WF_vars(Callback_OnReconnect)
  /\ WF_vars(Callback_OnReceive) /\ WF_vars(Callback_OnSend) /\ WF_vars(Callback_OnClose)

-----------------------------------------------------------------------------
(* The game has one connection at a time, and while it is not connected     *)
(* there is none that it has forgotten; until Close is called twice, or the *)
(* pool reconnects for what is left of a message, as the game may, too.     *)
OneConnection ==
  ~closed_twice /\ ~redialed =>
    /\ Cardinality({s \in Sockets : status[s] \in {"up", "eof", "shut"}}) <= 1
    /\ state = "Disconnected" => \A s \in Sockets : ~Usable(s)

(* Messages reach the sockets in the order in which the game sent them, and *)
(* none from its start twice, over however many connections, and whichever  *)
(* of them are sent in parts; the rest of one has no place in this order.   *)
Message(m) == m > 0
SentInOrder ==
  ~interrupted => \A i, j \in DOMAIN posted :
    i < j /\ Message(posted[i]) /\ Message(posted[j]) => posted[i] < posted[j]

(* What SendMsg makes of a message is a whole packet, or nothing: the length *)
(* in a header is never that of another packet.                             *)
PackedWhole == \A size \in Sizes : IsPacked(size) <=> PACKET_HEADER_SIZE + size <= BUFFER_SIZE

(* No message waits in the queue behind a live connection; the rest of one  *)
(* may, when the test of state in PostSend came before the ReconnectEvent.  *)
QueueWaitsForConnection ==
  ~interrupted /\ state = "Connected" => \A i \in DOMAIN sendQueue : ~Message(sendQueue[i])

(* A handler gets the body that belongs to its header, and the packets of a *)
(* connection in order, none of them twice and none left out, as long as no *)
(* connection ends inside a packet, each read has room behind the part of a *)
(* packet that waits, and no handler throws; and until Close is called      *)
(* twice or the pool reconnects, after which two connections may be read.   *)
PacketsWhole ==
  ~cut /\ ~torn /\ ~closed_twice /\ ~redialed => \A i \in DOMAIN handled :
    LET h == handled[i][1] IN
    /\ h[2] % 2 = 1 /\ handled[i][2] = <<h[1], h[2] + 1>>
    /\ h[2] > 1 => i > 1 /\ handled[i - 1][2] = <<h[1], h[2] - 1>>
    /\ \A j \in 1..(i - 1) : handled[j] # handled[i]

(* When the server closes the connection the game is told, so that its next *)
(* message connects again; unless the connection is reset in the meantime,  *)
(* which the client never gets over, Close is called twice, or the pool     *)
(* reconnects.                                                              *)
CloseIsNoticed ==
  \A s \in Sockets :
    status[s] = "eof" ~> state = "Disconnected" \/ status[s] = "dead" \/ closed_twice \/ redialed
=============================================================================
