------------------------ MODULE ReliableSessionProofs ------------------------
(***************************************************************************)
(* Proofs about ReliableSession: the types, and, for every value of the    *)
(* constants, that a reliable message stays in the client's queue until it *)
(* is handled and is handled once and in order, until one of the three     *)
(* things happens that spoil delivery.                                     *)
(*                                                                         *)
(* The argument follows a stream: what a link's session has read from it   *)
(* and what is still on the connection.  Every reliable message before a   *)
(* packet of a stream is earlier in the stream or not above Mark, the last *)
(* number the client's own session has handled.  So the next packet that   *)
(* OnRecvMsg does not discard is the next of sent, whichever connection it *)
(* comes from.  On a new connection the stream starts with a               *)
(* Reconnect_Req, and then the whole queue is written again; an            *)
(* acknowledgement is never above Mark, so that what RemoveSentPacket      *)
(* takes from the queue has been handled.                                  *)
(***************************************************************************)
EXTENDS ReliableSession, SequenceTheorems, TLAPS

-----------------------------------------------------------------------------
(* Types. *)

\* The stages of the client that its numbers of connections depend on.
Stages == /\ state = "Connecting" => conn = 0
          /\ state = "Connected" => conn # 0

TInv == TypeOK /\ Stages

ClientTypes ==
    /\ state \in {"Connecting", "Reconnecting", "Connected", "Disconnected"}
    /\ conn \in 0 .. MaxConnections
    /\ msg_seq \in Nat /\ idx \in Int
    /\ numbered \in PacketRecord \cup {NoPacket}
    /\ queue \in Seq(PacketRecord) /\ events \in Seq(AnswerRecord)
    /\ known \in SessionRecord
    /\ writing \in BOOLEAN /\ crashed \in BOOLEAN /\ spoiled \in BOOLEAN
    /\ sent \in Seq(Nat)
WireTypes == up \in [Keys -> Seq(PacketRecord)] /\ down \in [Keys -> Seq(AnswerRecord)]
ServerTypes ==
    /\ link \in [Keys -> {"none", "open", "closed"}]
    /\ link_session \in [Keys -> 0 .. MaxConnections]
    /\ recv_packet \in [Keys -> Seq(PacketRecord)]
    /\ session_seq \in [Keys -> Nat] /\ session_token \in [Keys -> Nat]
    /\ sessions \in SUBSET Keys /\ tokens \in Nat
    /\ reading \in [link : Keys, session : Keys] \cup {Idle}
    /\ handled \in [Keys -> Seq(Nat)]

LEMMA TypesSplit ==
    /\ TypeOK <=> ClientTypes /\ WireTypes /\ ServerTypes
    /\ TypeOK' <=> ClientTypes' /\ WireTypes' /\ ServerTypes'
BY Zenon DEF TypeOK, ClientTypes, WireTypes, ServerTypes

LEMMA FirstKey == 1 \in Keys /\ Keys \subseteq Nat /\ MaxConnections \in Nat \ {0} /\ 0 \notin Keys
BY ReliableSessionAssumption DEF ReliableSessionAssumption, Keys

LEMMA NewPacket ==
    ASSUME TypeOK, NEW id \in {"Message", "HeartBeat_Req", "Connect_Req", "Reconnect_Req"},
           NEW reliable \in BOOLEAN
    PROVE  Packet(id, msg_seq + 1, reliable) \in PacketRecord
<1>1. known \in SessionRecord /\ Unknown \in SessionRecord
  BY DEF TypeOK, Unknown, SessionRecord
<1>2. msg_seq + 1 \in Nat \ {0}
  BY DEF TypeOK
<1>3. QED
  BY <1>1, <1>2 DEF Packet, PacketRecord

\* Sequences that only get packets of a set S.
LEMMA AppendAtIn ==
    ASSUME NEW S, NEW f \in [Keys -> Seq(S)], NEW p \in S, NEW c
    PROVE  [f EXCEPT ![c] = Append(@, p)] \in [Keys -> Seq(S)]
<1>1. \A d \in Keys : Append(f[d], p) \in Seq(S)
  BY AppendProperties
<1>2. QED
  BY <1>1

LEMMA BeginSendIn ==
    ASSUME NEW S, up \in [Keys -> Seq(S)], NEW p \in S, NEW c, BeginSend(p, c)
    PROVE  writing' \in BOOLEAN /\ up' \in [Keys -> Seq(S)]
<1>1. writing' \in BOOLEAN
  BY Zenon DEF BeginSend
<1>2. up' = [up EXCEPT ![c] = Append(@, p)] \/ up' = up
  BY Zenon DEF BeginSend
<1>3. [up EXCEPT ![c] = Append(@, p)] \in [Keys -> Seq(S)]
  BY AppendAtIn
<1>4. up' \in [Keys -> Seq(S)]
  BY <1>2, <1>3
<1>5. QED
  BY <1>1, <1>4

LEMMA SendPacketsIn ==
    ASSUME NEW S, up \in [Keys -> Seq(S)], queue \in Seq(S), writing \in BOOLEAN,
           NEW packets \in Seq(S), packets # <<>>, NEW st, NEW c,
           SendPackets(packets, st, c)
    PROVE  /\ queue' \in Seq(S)
           /\ writing' \in BOOLEAN /\ up' \in [Keys -> Seq(S)]
<1>1. Head(packets) \in S
  BY HeadTailProperties
<1>2. queue' \in Seq(S)
  BY ConcatProperties DEF SendPackets
<1>3. writing' \in BOOLEAN /\ up' \in [Keys -> Seq(S)]
  <2>1. CASE BeginSend(Head(packets), c)
    BY <1>1, <2>1, BeginSendIn
  <2>2. CASE UNCHANGED <<writing, up>>
    BY <2>2
  <2>3. QED
    BY <2>1, <2>2, Zenon DEF SendPackets
<1>4. QED
  BY <1>2, <1>3

LEMMA RemoveAtIn ==
    ASSUME NEW S, NEW q \in Seq(S), NEW i \in 1 .. Len(q)
    PROVE  /\ RemoveAt(q, i) \in Seq(S)
           /\ Len(RemoveAt(q, i)) = Len(q) - 1
           /\ \A j \in 1 .. Len(q) - 1 : RemoveAt(q, i)[j] = IF j < i THEN q[j] ELSE q[j + 1]
<1> DEFINE a == SubSeq(q, 1, i - 1)
           b == SubSeq(q, i + 1, Len(q))
<1>1. Len(q) \in Nat /\ i \in Int /\ \A j \in 1 .. Len(q) : q[j] \in S
  BY LenProperties, ElementOfSeq
<1>2. /\ a \in Seq(S) /\ Len(a) = i - 1
      /\ \A j \in 1 .. i - 1 : a[j] = q[j]
  <2>1. \A j \in 1 .. i - 1 : q[j] \in S
    BY <1>1
  <2>2. /\ a \in Seq(S) /\ Len(a) = IF 1 <= i - 1 THEN i - 1 - 1 + 1 ELSE 0
        /\ \A j \in 1 .. i - 1 - 1 + 1 : a[j] = q[1 + j - 1]
    BY <1>1, <2>1, SubSeqProperties, 1 \in Int, i - 1 \in Int
  <2>3. QED
    BY <1>1, <2>2
<1>3. /\ b \in Seq(S) /\ Len(b) = Len(q) - i
      /\ \A j \in 1 .. Len(q) - i : b[j] = q[i + j]
  <2>1. \A j \in i + 1 .. Len(q) : q[j] \in S
    BY <1>1
  <2>2. /\ b \in Seq(S) /\ Len(b) = IF i + 1 <= Len(q) THEN Len(q) - (i + 1) + 1 ELSE 0
        /\ \A j \in 1 .. Len(q) - (i + 1) + 1 : b[j] = q[i + 1 + j - 1]
    BY <1>1, <2>1, SubSeqProperties, i + 1 \in Int, Len(q) \in Int
  <2>3. QED
    BY <1>1, <2>2
<1>4. RemoveAt(q, i) = a \o b
  BY DEF RemoveAt
<1> HIDE DEF a, b
<1>5. /\ a \o b \in Seq(S) /\ Len(a \o b) = Len(a) + Len(b)
      /\ \A j \in 1 .. Len(a) + Len(b) : (a \o b)[j] = IF j <= Len(a) THEN a[j] ELSE b[j - Len(a)]
  BY <1>2, <1>3, ConcatProperties
<1>6. Len(a \o b) = Len(q) - 1
  BY <1>1, <1>2, <1>3, <1>5
<1>7. ASSUME NEW j \in 1 .. Len(q) - 1
      PROVE  (a \o b)[j] = IF j < i THEN q[j] ELSE q[j + 1]
  <2>1. (a \o b)[j] = IF j <= i - 1 THEN a[j] ELSE b[j - (i - 1)]
    BY <1>1, <1>2, <1>3, <1>5
  <2>2. CASE j < i
    BY <1>1, <1>2, <2>1, <2>2
  <2>3. CASE ~(j < i)
    <3>1. j - (i - 1) \in 1 .. Len(q) - i /\ i + (j - (i - 1)) = j + 1
      BY <1>1, <2>3
    <3>2. QED
      BY <1>1, <1>3, <2>1, <2>3, <3>1
  <2>4. QED
    BY <2>2, <2>3
<1>8. QED
  BY <1>4, <1>5, <1>6, <1>7

LEMMA NextIndex ==
    ASSUME NEW i \in Nat, NEW n \in Nat, i < n
    PROVE  i + 1 \in 1 .. n
OBVIOUS

LEMMA CallbackSendIn ==
    ASSUME NEW S, up \in [Keys -> Seq(S)], queue \in Seq(S), idx \in Int, writing \in BOOLEAN,
           Callback_SendMsg
    PROVE  /\ queue' \in Seq(S) /\ idx' \in Int
           /\ writing' \in BOOLEAN /\ up' \in [Keys -> Seq(S)]
<1>1. CASE idx \notin 0 .. Len(queue) - 1
  BY <1>1 DEF Callback_SendMsg
<1>2. CASE idx \in 0 .. Len(queue) - 1
  <2>1. Len(queue) \in Nat /\ idx \in Nat /\ idx + 1 \in 1 .. Len(queue)
    BY <1>2, LenProperties
  <2>2. \/ idx' = idx + 1 /\ queue' = queue
        \/ queue' = RemoveAt(queue, idx + 1) /\ idx' = idx
    BY <1>2, Zenon DEF Callback_SendMsg
  <2>3. queue' \in Seq(S)
    BY <2>1, <2>2, RemoveAtIn
  <2>8. idx' \in Nat
    BY <2>1, <2>2
  <2>4. CASE idx' < Len(queue') /\ BeginSend(queue'[idx' + 1], conn)
    <3>0. Len(queue') \in Nat /\ idx' < Len(queue')
      <4>1. Len(queue') \in Nat
        BY <2>3, LenProperties
      <4>2. idx' < Len(queue')
        BY <2>4, Zenon
      <4>3. QED
        BY <4>1, <4>2
    <3>1. idx' + 1 \in 1 .. Len(queue')
      BY <2>8, <3>0, NextIndex, Zenon
    <3>2. queue'[idx' + 1] \in S
      BY <2>3, <3>1, ElementOfSeq
    <3>3. BeginSend(queue'[idx' + 1], conn)
      BY <2>4, Zenon
    <3>4. QED
      BY <2>3, <2>8, <3>2, <3>3, BeginSendIn
  <2>5. CASE writing' = FALSE /\ UNCHANGED up
    <3>1. idx' \in Int
      BY <2>8
    <3>2. writing' \in BOOLEAN
      BY <2>5, Zenon
    <3>3. up' \in [Keys -> Seq(S)]
      BY <2>5
    <3>4. QED
      BY <2>3, <3>1, <3>2, <3>3, Zenon
  <2>6. \/ idx' < Len(queue') /\ BeginSend(queue'[idx' + 1], conn)
        \/ writing' = FALSE /\ UNCHANGED up
    BY <1>2, Zenon DEF Callback_SendMsg
  <2>7. QED
    BY <2>4, <2>5, <2>6
<1>3. QED
  BY <1>1, <1>2

\* A part of a sequence that ends where the sequence does, and one that starts so.
LEMMA Parts ==
    ASSUME NEW S, NEW q \in Seq(S), NEW n \in 0 .. Len(q)
    PROVE  /\ SubSeq(q, 1, n) \in Seq(S) /\ Len(SubSeq(q, 1, n)) = n
           /\ SubSeq(q, n + 1, Len(q)) \in Seq(S)
           /\ Len(SubSeq(q, n + 1, Len(q))) = Len(q) - n
           /\ \A i \in 1 .. Len(q) - n : SubSeq(q, n + 1, Len(q))[i] = q[n + i]
           /\ SubSeq(q, 1, n) \o SubSeq(q, n + 1, Len(q)) = q
<1>1. Len(q) \in Nat /\ n \in Nat /\ n <= Len(q) /\ \A i \in 1 .. Len(q) : q[i] \in S
  BY LenProperties, ElementOfSeq
<1>2. SubSeq(q, 1, n) \in Seq(S) /\ Len(SubSeq(q, 1, n)) = n
  <2>1. \A i \in 1 .. n : q[i] \in S
    BY <1>1
  <2>2. /\ SubSeq(q, 1, n) \in Seq(S)
        /\ Len(SubSeq(q, 1, n)) = IF 1 <= n THEN n - 1 + 1 ELSE 0
    BY <1>1, <2>1, SubSeqProperties, 1 \in Int, n \in Int
  <2>3. QED
    BY <1>1, <2>2
<1>3. /\ SubSeq(q, n + 1, Len(q)) \in Seq(S)
      /\ Len(SubSeq(q, n + 1, Len(q))) = Len(q) - n
      /\ \A i \in 1 .. Len(q) - n : SubSeq(q, n + 1, Len(q))[i] = q[n + i]
  <2>1. \A i \in n + 1 .. Len(q) : q[i] \in S
    BY <1>1
  <2>2. /\ SubSeq(q, n + 1, Len(q)) \in Seq(S)
        /\ Len(SubSeq(q, n + 1, Len(q))) = IF n + 1 <= Len(q) THEN Len(q) - (n + 1) + 1 ELSE 0
        /\ \A i \in 1 .. Len(q) - (n + 1) + 1 : SubSeq(q, n + 1, Len(q))[i] = q[n + 1 + i - 1]
    BY <1>1, <2>1, SubSeqProperties, n + 1 \in Int, Len(q) \in Int
  <2>3. QED
    BY <1>1, <2>2
<1>4. SubSeq(q, 1, n) \o SubSeq(q, n + 1, Len(q)) = SubSeq(q, 1, Len(q))
  <2>1. 1 \in 1 .. Len(q) + 1 /\ n \in 1 - 1 .. Len(q) /\ Len(q) \in n .. Len(q)
    BY <1>1
  <2>2. QED
    BY <2>1, ConcatAdjacentSubSeq
<1>5. SubSeq(q, 1, Len(q)) = q
  BY SubSeqFull
<1>6. QED
  BY <1>2, <1>3, <1>4, <1>5

LEMMA UpdateIn ==
    ASSUME NEW S, queue \in Seq(S), idx \in Int, Update
    PROVE  queue' \in Seq(S) /\ idx' \in Int
<1>1. PICK n \in 0 .. Len(queue) : RemoveSentPacket(n)
  BY Zenon DEF Update
<1>2. queue' = SubSeq(queue, n + 1, Len(queue)) /\ idx' = idx - n
  BY <1>1, Zenon DEF RemoveSentPacket
<1>3. queue' \in Seq(S)
  BY <1>2, Parts
<1>4. QED
  BY <1>2, <1>3, LenProperties

LEMMA ReadIn ==
    ASSUME NEW S, up \in [Keys -> Seq(S)], recv_packet \in [Keys -> Seq(S)],
           link_session \in [Keys -> 0 .. MaxConnections], NEW c \in Keys, Read(c)
    PROVE  up' \in [Keys -> Seq(S)] /\ recv_packet' \in [Keys -> Seq(S)]
<1>1. CASE link_session[c] = 0
  BY <1>1 DEF Read
<1>2. CASE link_session[c] # 0
  <2>1. PICK n \in 1 .. Len(up[c]) :
          /\ recv_packet' = [recv_packet EXCEPT ![link_session[c]] = @ \o SubSeq(up[c], 1, n)]
          /\ up' = [up EXCEPT ![c] = SubSeq(@, n + 1, Len(@))]
    BY <1>2, Zenon DEF Read
  <2>2. up[c] \in Seq(S) /\ n \in 0 .. Len(up[c])
    BY LenProperties
  <2>3. SubSeq(up[c], 1, n) \in Seq(S) /\ SubSeq(up[c], n + 1, Len(up[c])) \in Seq(S)
    BY <2>2, Parts
  <2>4. \A s \in Keys : recv_packet[s] \o SubSeq(up[c], 1, n) \in Seq(S)
    BY <2>3, ConcatProperties
  <2>5. QED
    BY <2>1, <2>3, <2>4
<1>3. QED
  BY <1>1, <1>2

LEMMA TailAtIn ==
    ASSUME NEW S, NEW f \in [Keys -> Seq(S)], NEW s \in Keys, f[s] # <<>>
    PROVE  [f EXCEPT ![s] = Tail(@)] \in [Keys -> Seq(S)]
<1>1. Tail(f[s]) \in Seq(S)
  BY HeadTailProperties
<1>2. QED
  BY <1>1

LEMMA Tuples ==
    ASSUME NEW S, NEW a \in S, NEW b \in S
    PROVE  /\ <<a>> \in Seq(S) /\ <<a>> # <<>> /\ Len(<<a>>) = 1 /\ Head(<<a>>) = a
           /\ <<a, b>> \in Seq(S) /\ <<a, b>> # <<>> /\ Len(<<a, b>>) = 2 /\ Head(<<a, b>>) = a
OBVIOUS

LEMMA ServerSame ==
    ASSUME TypeOK, UNCHANGED server
    PROVE  ServerTypes'
BY DEF TypeOK, ServerTypes, server

LEMMA ClientSame ==
    ASSUME TypeOK, UNCHANGED client
    PROVE  ClientTypes'
<1>1. UNCHANGED <<state, conn, msg_seq, numbered, queue, idx, writing, known, events,
                  crashed, sent, spoiled>>
  BY DEF client
<1>2. ClientTypes
  BY Zenon DEF TypeOK, ClientTypes
<1>3. ClientTypes' <=> ClientTypes
  BY <1>1, Zenon DEF ClientTypes
<1>4. QED
  BY <1>2, <1>3

LEMMA SendMsgTypes ==
    ASSUME TInv, NEW reliable \in BOOLEAN, SendMsg(reliable)
    PROVE  TInv'
<1>0. TypeOK /\ ClientTypes /\ WireTypes /\ Stages
  BY TypesSplit DEF TInv
<1>1. numbered' \in PacketRecord \cup {NoPacket}
  BY <1>0, NewPacket, Zenon DEF SendMsg
<1>2. msg_seq' \in Nat
  BY <1>0 DEF ClientTypes, SendMsg
<1>3. sent' \in Seq(Nat)
  <2>1. sent \in Seq(Nat) /\ Append(sent, msg_seq + 1) \in Seq(Nat)
    BY <1>0, AppendProperties DEF ClientTypes
  <2>2. sent' \in {sent, Append(sent, msg_seq + 1)}
    BY Zenon DEF SendMsg
  <2>3. QED
    BY <2>1, <2>2
<1>4. state' \in {"Connecting", "Reconnecting", "Connected", "Disconnected"}
  BY <1>0 DEF ClientTypes, SendMsg
<1>5. UNCHANGED <<conn, queue, idx, writing, known, events, crashed, spoiled, up, down, server>>
  BY Zenon DEF SendMsg
<1>6. ClientTypes'
  BY <1>0, <1>1, <1>2, <1>3, <1>4, <1>5, Zenon DEF ClientTypes
<1>7. WireTypes' /\ ServerTypes'
  BY <1>0, <1>5, ServerSame DEF WireTypes
<1>8. Stages'
  BY <1>0, <1>5 DEF Stages, SendMsg
<1>9. QED
  BY <1>6, <1>7, <1>8, TypesSplit, Zenon DEF TInv

LEMMA SendMsgQueuesTypes ==
    ASSUME TInv, SendMsgQueues
    PROVE  TInv'
<1>0. TypeOK /\ ClientTypes /\ WireTypes /\ Stages
  BY TypesSplit DEF TInv
<1>1. numbered \in PacketRecord
  BY <1>0 DEF ClientTypes, SendMsgQueues
<1>2. Packet("HeartBeat_Req", msg_seq + 1, TRUE) \in PacketRecord
  BY <1>0, NewPacket
<1>3. PICK packets \in {<<numbered>>, <<numbered, Packet("HeartBeat_Req", msg_seq + 1, TRUE)>>} :
          SendPackets(packets, state, conn)
  BY Zenon DEF SendMsgQueues
<1>4. packets \in Seq(PacketRecord) /\ packets # <<>>
  <2>1. CASE packets = <<numbered>>
    BY <1>1, <2>1, Tuples
  <2>2. CASE packets = <<numbered, Packet("HeartBeat_Req", msg_seq + 1, TRUE)>>
    BY <1>1, <1>2, <2>2, Tuples
  <2>3. QED
    BY <1>3, <2>1, <2>2
<1>5. /\ queue' \in Seq(PacketRecord)
      /\ writing' \in BOOLEAN /\ up' \in [Keys -> Seq(PacketRecord)]
  <2>1. up \in [Keys -> Seq(PacketRecord)] /\ queue \in Seq(PacketRecord) /\ writing \in BOOLEAN
    BY <1>0, Zenon DEF ClientTypes, WireTypes
  <2>2. QED
    BY <1>3, <1>4, <2>1, SendPacketsIn
<1>6. UNCHANGED <<state, conn, idx, known, events, crashed, sent, spoiled, down, server>>
  BY Zenon DEF SendMsgQueues
<1>7. numbered' \in PacketRecord \cup {NoPacket}
  BY Zenon DEF SendMsgQueues
<1>8. msg_seq' \in Nat
  BY <1>0 DEF ClientTypes, SendMsgQueues
<1>9. ClientTypes'
  BY <1>0, <1>5, <1>6, <1>7, <1>8, Zenon DEF ClientTypes
<1>10. WireTypes' /\ ServerTypes'
  BY <1>0, <1>5, <1>6, ServerSame DEF WireTypes
<1>11. Stages'
  BY <1>0, <1>6 DEF Stages
<1>12. QED
  BY <1>9, <1>10, <1>11, TypesSplit, Zenon DEF TInv

LEMMA HeartBeatTypes ==
    ASSUME TInv, Send_HeartBeat_Req
    PROVE  TInv'
<1>0. TypeOK /\ ClientTypes /\ WireTypes /\ Stages
  BY TypesSplit DEF TInv
<1>1. DEFINE packets == <<Packet("HeartBeat_Req", msg_seq + 1, TRUE)>>
<1>2. packets \in Seq(PacketRecord) /\ packets # <<>>
  <2>1. Packet("HeartBeat_Req", msg_seq + 1, TRUE) \in PacketRecord
    BY <1>0, NewPacket
  <2>2. QED
    BY <2>1, Tuples
<1>3. /\ queue' \in Seq(PacketRecord)
      /\ writing' \in BOOLEAN /\ up' \in [Keys -> Seq(PacketRecord)]
  <2>1. up \in [Keys -> Seq(PacketRecord)] /\ queue \in Seq(PacketRecord) /\ writing \in BOOLEAN
    BY <1>0, Zenon DEF ClientTypes, WireTypes
  <2>2. SendPackets(packets, state, conn)
    BY Zenon DEF Send_HeartBeat_Req
  <2>3. QED
    BY <1>2, <2>1, <2>2, SendPacketsIn
<1>4. UNCHANGED <<state, conn, numbered, idx, known, events, crashed, sent, down, server>>
  BY Zenon DEF Send_HeartBeat_Req
<1>5. msg_seq' \in Nat
  BY <1>0 DEF ClientTypes, Send_HeartBeat_Req
<1>6. spoiled' \in BOOLEAN
  BY Zenon DEF Send_HeartBeat_Req
<1>7. ClientTypes'
  BY <1>0, <1>3, <1>4, <1>5, <1>6, Zenon DEF ClientTypes
<1>8. WireTypes' /\ ServerTypes'
  BY <1>0, <1>3, <1>4, ServerSame DEF WireTypes
<1>9. Stages'
  BY <1>0, <1>4 DEF Stages
<1>10. QED
  BY <1>7, <1>8, <1>9, TypesSplit, Zenon DEF TInv

LEMMA CallbackSendTypes ==
    ASSUME TInv, Callback_SendMsg
    PROVE  TInv'
<1>0. TypeOK /\ ClientTypes /\ WireTypes /\ Stages
  BY TypesSplit DEF TInv
<1>1. /\ queue' \in Seq(PacketRecord) /\ idx' \in Int
      /\ writing' \in BOOLEAN /\ up' \in [Keys -> Seq(PacketRecord)]
  <2>1. /\ up \in [Keys -> Seq(PacketRecord)] /\ queue \in Seq(PacketRecord)
        /\ writing \in BOOLEAN /\ idx \in Int
    BY <1>0, Zenon DEF ClientTypes, WireTypes
  <2>2. QED
    BY <2>1, CallbackSendIn
<1>2. UNCHANGED <<state, conn, msg_seq, numbered, known, events, sent, spoiled, down, server>>
  BY Zenon DEF Callback_SendMsg
<1>3. crashed' \in BOOLEAN
  BY <1>0, Zenon DEF Callback_SendMsg, ClientTypes
<1>4. ClientTypes'
  BY <1>0, <1>1, <1>2, <1>3, Zenon DEF ClientTypes
<1>5. WireTypes' /\ ServerTypes'
  BY <1>0, <1>1, <1>2, ServerSame DEF WireTypes
<1>6. Stages'
  BY <1>0, <1>2 DEF Stages
<1>7. QED
  BY <1>4, <1>5, <1>6, TypesSplit, Zenon DEF TInv

LEMMA CloseTypes ==
    ASSUME TInv, Close
    PROVE  TInv'
<1>0. TypeOK /\ ClientTypes /\ WireTypes /\ Stages
  BY TypesSplit DEF TInv
<1>1. UNCHANGED <<conn, msg_seq, numbered, queue, idx, writing, known, events, crashed,
                  up, down, server, sent, spoiled>>
      /\ state' = "Disconnected"
  BY Zenon DEF Close
<1>2. ClientTypes'
  <2>1. state' \in {"Connecting", "Reconnecting", "Connected", "Disconnected"}
    BY <1>1
  <2>2. QED
    BY <1>0, <1>1, <2>1, Zenon DEF ClientTypes
<1>3. WireTypes' /\ ServerTypes'
  BY <1>0, <1>1, ServerSame DEF WireTypes
<1>4. Stages'
  BY <1>1 DEF Stages
<1>5. QED
  BY <1>2, <1>3, <1>4, TypesSplit, Zenon DEF TInv

LEMMA CallbackReceiveTypes ==
    ASSUME TInv, Callback_Receive
    PROVE  TInv'
<1>0. TypeOK /\ ClientTypes /\ WireTypes /\ Stages
  BY TypesSplit DEF TInv
<1>1. UNCHANGED <<state, conn, msg_seq, numbered, queue, idx, writing, known, crashed,
                  up, server, sent, spoiled>>
  BY Zenon DEF Callback_Receive
<1>2. conn \in Keys /\ down[conn] \in Seq(AnswerRecord) /\ down[conn] # <<>>
  BY <1>0 DEF Callback_Receive, Stages, ClientTypes, WireTypes, Keys
<1>3. /\ Head(down[conn]) \in AnswerRecord /\ Tail(down[conn]) \in Seq(AnswerRecord)
  BY <1>2, HeadTailProperties
<1>4. events' \in Seq(AnswerRecord)
  BY <1>0, <1>3, AppendProperties DEF ClientTypes, Callback_Receive
<1>5. down' \in [Keys -> Seq(AnswerRecord)]
  BY <1>0, <1>2, <1>3 DEF WireTypes, Callback_Receive
<1>6. ClientTypes'
  BY <1>0, <1>1, <1>4, Zenon DEF ClientTypes
<1>7. WireTypes' /\ ServerTypes'
  BY <1>0, <1>1, <1>5, ServerSame DEF WireTypes
<1>8. Stages'
  BY <1>0, <1>1 DEF Stages
<1>9. QED
  BY <1>6, <1>7, <1>8, TypesSplit, Zenon DEF TInv

LEMMA UpdateTypes ==
    ASSUME TInv, Update
    PROVE  TInv'
<1>0. TypeOK /\ ClientTypes /\ WireTypes /\ Stages
  BY TypesSplit DEF TInv
<1>1. UNCHANGED <<state, conn, msg_seq, numbered, writing, crashed, up, down, server, sent, spoiled>>
  BY Zenon DEF Update
<1>2. queue' \in Seq(PacketRecord) /\ idx' \in Int
  BY <1>0, UpdateIn DEF ClientTypes
<1>3. events' \in Seq(AnswerRecord)
  BY DEF Update
<1>4. known' \in SessionRecord
  <2>1. \A i \in DOMAIN events : events[i].session \in SessionRecord
    <3>1. events \in Seq(AnswerRecord)
      BY <1>0 DEF ClientTypes
    <3>2. \A i \in DOMAIN events : events[i] \in AnswerRecord
      BY <3>1
    <3>3. QED
      BY <3>2 DEF AnswerRecord
  <2>2. known' = known \/ \E i \in DOMAIN events : known' = events[i].session
    BY Zenon DEF Update
  <2>3. QED
    BY <1>0, <2>1, <2>2 DEF ClientTypes
<1>5. ClientTypes'
  BY <1>0, <1>1, <1>2, <1>3, <1>4, Zenon DEF ClientTypes
<1>6. WireTypes' /\ ServerTypes'
  BY <1>0, <1>1, ServerSame DEF WireTypes
<1>7. Stages'
  BY <1>0, <1>1 DEF Stages
<1>8. QED
  BY <1>5, <1>6, <1>7, TypesSplit, Zenon DEF TInv

\* The server accepts the next connection.
LEMMA AcceptedTypes ==
    ASSUME TypeOK, conn < MaxConnections, conn' = conn + 1, Accepted(conn'),
           UNCHANGED <<recv_packet, session_seq, session_token, sessions, tokens, reading, handled>>
    PROVE  ServerTypes' /\ conn' \in Keys /\ conn' \in 0 .. MaxConnections
<1>1. conn + 1 \in Keys /\ conn + 1 \in 0 .. MaxConnections
  BY FirstKey DEF TypeOK, Keys
<1>2. /\ link' = [link EXCEPT ![conn + 1] = "open"]
      /\ link_session' = [link_session EXCEPT ![conn + 1] = conn + 1]
  BY DEF Accepted
<1>3. /\ link \in [Keys -> {"none", "open", "closed"}]
      /\ link_session \in [Keys -> 0 .. MaxConnections]
  BY DEF TypeOK
<1>4. link' \in [Keys -> {"none", "open", "closed"}]
  BY <1>2, <1>3
<1>5. link_session' \in [Keys -> 0 .. MaxConnections]
  BY <1>1, <1>2, <1>3
<1>6. ServerTypes
  BY TypesSplit
<1>7. ServerTypes'
  BY <1>4, <1>5, <1>6, Zenon DEF ServerTypes
<1>8. QED
  BY <1>1, <1>7

LEMMA ConnectTypes ==
    ASSUME TInv, Callback_Connect
    PROVE  TInv'
<1>0. TypeOK /\ ClientTypes /\ WireTypes /\ Stages
  BY TypesSplit DEF TInv
<1>1. /\ conn' = conn + 1 /\ Accepted(conn')
      /\ UNCHANGED <<numbered, idx, known, events, crashed, down, sent>>
      /\ UNCHANGED <<recv_packet, session_seq, session_token, sessions, tokens, reading, handled>>
  BY Zenon DEF Callback_Connect
<1>2. conn < MaxConnections
  BY <1>0, FirstKey DEF Callback_Connect, Stages
<1>3. ServerTypes' /\ conn' \in 0 .. MaxConnections
  BY <1>0, <1>1, <1>2, AcceptedTypes
<1>4. DEFINE packets == <<Packet("Connect_Req", msg_seq + 1, FALSE)>>
<1>5. /\ queue' \in Seq(PacketRecord)
      /\ writing' \in BOOLEAN /\ up' \in [Keys -> Seq(PacketRecord)]
  <2>1. up \in [Keys -> Seq(PacketRecord)] /\ queue \in Seq(PacketRecord) /\ writing \in BOOLEAN
    BY <1>0, Zenon DEF ClientTypes, WireTypes
  <2>2. SendPackets(packets, "Connected", conn')
    BY Zenon DEF Callback_Connect
  <2>3. Packet("Connect_Req", msg_seq + 1, FALSE) \in PacketRecord
    BY <1>0, NewPacket
  <2>4. packets \in Seq(PacketRecord) /\ packets # <<>>
    BY <2>3, Tuples
  <2>5. QED
    BY <2>1, <2>2, <2>4, SendPacketsIn
<1>6. msg_seq' \in Nat
  BY <1>0 DEF ClientTypes, Callback_Connect
<1>7. spoiled' \in BOOLEAN
  BY Zenon DEF Callback_Connect
<1>8. state' \in {"Disconnected", "Connected"}
  BY Zenon DEF Callback_Connect
<1>9. state' \in {"Connecting", "Reconnecting", "Connected", "Disconnected"}
  BY <1>8
<1>10. ClientTypes'
  BY <1>0, <1>1, <1>3, <1>5, <1>6, <1>7, <1>9, Zenon DEF ClientTypes
<1>11. WireTypes'
  BY <1>0, <1>1, <1>5 DEF WireTypes
<1>12. Stages'
  BY <1>0, <1>1, <1>8 DEF Stages, ClientTypes
<1>13. QED
  BY <1>3, <1>10, <1>11, <1>12, TypesSplit, Zenon DEF TInv

LEMMA ReconnectTypes ==
    ASSUME TInv, Callback_Reconnect
    PROVE  TInv'
<1>0. TypeOK /\ ClientTypes /\ WireTypes /\ Stages
  BY TypesSplit DEF TInv
<1>1. /\ conn < MaxConnections /\ conn' = conn + 1 /\ Accepted(conn') /\ idx' = 0
      /\ UNCHANGED <<numbered, known, events, crashed, down, sent>>
      /\ UNCHANGED <<recv_packet, session_seq, session_token, sessions, tokens, reading, handled>>
  BY Zenon DEF Callback_Reconnect
<1>2. ServerTypes' /\ conn' \in 0 .. MaxConnections
  BY <1>0, <1>1, AcceptedTypes
<1>3. DEFINE req == Packet("Reconnect_Req", msg_seq + 1, FALSE)
<1>4. req \in PacketRecord
  BY <1>0, NewPacket
<1>5. writing' \in BOOLEAN /\ up' \in [Keys -> Seq(PacketRecord)]
  <2>1. up \in [Keys -> Seq(PacketRecord)]
    BY <1>0 DEF WireTypes
  <2>2. BeginSend(req, conn')
    BY Zenon DEF Callback_Reconnect
  <2>3. QED
    BY <1>4, <2>1, <2>2, BeginSendIn
<1>6. queue' \in Seq(PacketRecord)
  <2>1. queue \in Seq(PacketRecord) /\ <<req>> \in Seq(PacketRecord)
    BY <1>0, <1>4, Tuples DEF ClientTypes
  <2>2. <<req>> \o queue \in Seq(PacketRecord)
    BY <2>1, ConcatProperties
  <2>3. queue' = <<req>> \o queue \/ queue' = <<req>>
    BY Zenon DEF Callback_Reconnect
  <2>4. QED
    BY <2>1, <2>2, <2>3
<1>7. msg_seq' \in Nat
  BY <1>0 DEF ClientTypes, Callback_Reconnect
<1>8. spoiled' \in BOOLEAN
  BY Zenon DEF Callback_Reconnect
<1>9. state' \in {"Disconnected", "Connected"}
  BY Zenon DEF Callback_Reconnect
<1>10. state' \in {"Connecting", "Reconnecting", "Connected", "Disconnected"}
  BY <1>9
<1>11. idx' \in Int
  BY <1>1
<1>12. ClientTypes'
  BY <1>0, <1>1, <1>2, <1>5, <1>6, <1>7, <1>8, <1>10, <1>11, Zenon DEF ClientTypes
<1>13. WireTypes'
  BY <1>0, <1>1, <1>5 DEF WireTypes
<1>14. Stages'
  BY <1>0, <1>1, <1>9 DEF Stages, ClientTypes
<1>15. QED
  BY <1>2, <1>12, <1>13, <1>14, TypesSplit, Zenon DEF TInv

\* The server's steps leave the client alone.
LEMMA ServerStepTypes ==
    ASSUME TInv, UNCHANGED client, WireTypes', ServerTypes'
    PROVE  TInv'
<1>1. ClientTypes' /\ Stages'
  BY ClientSame DEF TInv, Stages, client
<1>2. QED
  BY <1>1, TypesSplit, Zenon DEF TInv

LEMMA ReadTypes ==
    ASSUME TInv, NEW c \in Keys, Read(c)
    PROVE  TInv'
<1>0. TypeOK /\ WireTypes /\ ServerTypes
  BY TypesSplit DEF TInv
<1>1. up' \in [Keys -> Seq(PacketRecord)] /\ recv_packet' \in [Keys -> Seq(PacketRecord)]
  BY <1>0, ReadIn DEF WireTypes, ServerTypes
<1>2. UNCHANGED <<client, down, link_session, session_seq, session_token, sessions, tokens, handled>>
  BY Zenon DEF Read
<1>3. link' \in [Keys -> {"none", "open", "closed"}]
  <2>1. link' = [link EXCEPT ![c] = "closed"] \/ link' = link
    BY Zenon DEF Read
  <2>2. QED
    BY <1>0, <2>1 DEF ServerTypes
<1>4. reading' \in [link : Keys, session : Keys] \cup {Idle}
  <2>1. CASE link_session[c] = 0
    BY <1>0, <2>1 DEF Read, ServerTypes
  <2>2. CASE link_session[c] # 0
    <3>1. link_session[c] \in Keys
      BY <1>0, <2>2 DEF ServerTypes, Keys
    <3>2. reading' = [link |-> c, session |-> link_session[c]]
      BY <2>2, Zenon DEF Read
    <3>3. QED
      BY <3>1, <3>2
  <2>3. QED
    BY <2>1, <2>2
<1>5. WireTypes'
  BY <1>0, <1>1, <1>2 DEF WireTypes
<1>6. ServerTypes'
  BY <1>0, <1>1, <1>2, <1>3, <1>4, Zenon DEF ServerTypes
<1>7. QED
  BY <1>2, <1>5, <1>6, ServerStepTypes

LEMMA LinkClosesTypes ==
    ASSUME TInv, NEW c \in Keys, LinkCloses(c)
    PROVE  TInv'
<1>0. TypeOK /\ WireTypes /\ ServerTypes
  BY TypesSplit DEF TInv
<1>1. UNCHANGED <<client, up, down, recv_packet, session_seq, session_token, sessions,
                  tokens, reading, handled>>
  BY Zenon DEF LinkCloses
<1>2. /\ link' = [link EXCEPT ![c] = "closed"]
      /\ link_session' = [link_session EXCEPT ![c] = 0]
  BY Zenon DEF LinkCloses
<1>3. link' \in [Keys -> {"none", "open", "closed"}]
  BY <1>0, <1>2 DEF ServerTypes
<1>4. link_session' \in [Keys -> 0 .. MaxConnections]
  BY <1>0, <1>2, FirstKey DEF ServerTypes
<1>5. WireTypes'
  BY <1>0, <1>1 DEF WireTypes
<1>6. ServerTypes'
  BY <1>0, <1>1, <1>3, <1>4, Zenon DEF ServerTypes
<1>7. QED
  BY <1>1, <1>5, <1>6, ServerStepTypes

LEMMA IdleTimerTypes ==
    ASSUME TInv, NEW s \in Keys, IdleTimer(s)
    PROVE  TInv'
<1>0. TypeOK /\ WireTypes /\ ServerTypes
  BY TypesSplit DEF TInv
<1>1. UNCHANGED <<client, up, down, link, link_session, recv_packet, session_seq,
                  session_token, tokens, reading, handled>>
  BY Zenon DEF IdleTimer
<1>2. sessions' \in SUBSET Keys
  BY <1>0 DEF ServerTypes, IdleTimer
<1>3. WireTypes'
  BY <1>0, <1>1 DEF WireTypes
<1>4. ServerTypes'
  BY <1>0, <1>1, <1>2, Zenon DEF ServerTypes
<1>5. QED
  BY <1>1, <1>3, <1>4, ServerStepTypes

LEMMA ConsumeIn ==
    ASSUME NEW S, NEW packets \in [Keys -> Seq(S)], NEW s \in Keys, packets[s] # <<>>,
           Consume(s, packets)
    PROVE  recv_packet' \in [Keys -> Seq(S)] /\ reading' \in {Idle, reading}
<1>1. recv_packet' = [packets EXCEPT ![s] = Tail(@)]
  BY Zenon DEF Consume
<1>2. reading' = IF Len(packets[s]) = 1 THEN Idle ELSE reading
  BY Zenon DEF Consume
<1>3. QED
  BY <1>1, <1>2, TailAtIn

LEMMA HandOverIn ==
    ASSUME NEW S, recv_packet \in [Keys -> Seq(S)], NEW s \in Keys, NEW other \in Keys,
           recv_packet[s] # <<>>
    PROVE  HandOver(s, other) \in [Keys -> Seq(S)] /\ HandOver(s, other)[s] = recv_packet[s]
<1>1. Tail(recv_packet[s]) \in Seq(S) /\ recv_packet[other] \in Seq(S)
  BY HeadTailProperties
<1>2. QED
  BY <1>1 DEF HandOver

LEMMA AnswerTypes ==
    ASSUME NEW id \in {"Connect_Ans", "Reconnect_Ans", "HeartBeat_Ans"}, NEW error \in BOOLEAN,
           NEW k \in Nat, NEW t \in Nat, NEW n \in Nat
    PROVE  /\ Answer(id, error, [key |-> k, token |-> t], n) \in AnswerRecord
           /\ Answer(id, error, Unknown, n) \in AnswerRecord
<1>1. [key |-> k, token |-> t] \in SessionRecord /\ Unknown \in SessionRecord
  BY DEF SessionRecord, Unknown
<1>2. QED
  BY <1>1 DEF Answer, AnswerRecord

LEMMA SendTypes ==
    ASSUME down \in [Keys -> Seq(AnswerRecord)], NEW s, NEW answer \in AnswerRecord, Send(s, answer)
    PROVE  down' \in [Keys -> Seq(AnswerRecord)]
<1>1. \A c \in Keys : Append(down[c], answer) \in Seq(AnswerRecord)
  BY AppendProperties
<1>2. QED
  BY <1>1 DEF Send

\* What the server's state is when OnRecvMsg is at a packet.
LEMMA AtPacketTypes ==
    ASSUME TypeOK, NEW s \in Keys, NEW p, AtPacket(s, p)
    PROVE  /\ p \in PacketRecord /\ p.msg_seq \in Nat \ {0} /\ p.session \in SessionRecord
           /\ recv_packet[s] \in Seq(PacketRecord) /\ recv_packet[s] # <<>>
           /\ reading \in [link : Keys, session : Keys] /\ reading.link \in Keys
<1>1. /\ recv_packet[s] \in Seq(PacketRecord) /\ recv_packet[s] # <<>> /\ p = Head(recv_packet[s])
      /\ reading \in [link : Keys, session : Keys]
  BY DEF TypeOK, AtPacket
<1>2. p \in PacketRecord
  BY <1>1, HeadTailProperties
<1>3. QED
  BY <1>1, <1>2 DEF PacketRecord

LEMMA HandledTypes ==
    ASSUME TypeOK, NEW s \in Keys, NEW p, p.msg_seq \in Nat, Handled(s, p)
    PROVE  session_seq' \in [Keys -> Nat]
BY DEF TypeOK, Handled

LEMMA OnRecvMsgTypes ==
    ASSUME TInv, NEW s \in Keys, OnRecvMsg(s)
    PROVE  TInv'
<1>0. TypeOK /\ WireTypes /\ ServerTypes
  BY TypesSplit DEF TInv
<1>1. PICK p : /\ AtPacket(s, p)
               /\ \/ Discard(s, p) \/ Recv_Connect_Req(s, p) \/ Recv_Reconnect_Req(s, p)
                  \/ Recv_HeartBeat_Req(s, p) \/ Recv_Message(s, p)
  BY Zenon DEF OnRecvMsg
<1>2. UNCHANGED <<client, up, link>>
  BY Zenon DEF OnRecvMsg
<1>3. /\ p \in PacketRecord /\ p.msg_seq \in Nat /\ p.session \in SessionRecord
      /\ recv_packet[s] \in Seq(PacketRecord) /\ recv_packet[s] # <<>>
      /\ reading \in [link : Keys, session : Keys] /\ reading.link \in Keys
  BY <1>0, <1>1, AtPacketTypes
<1>4. /\ recv_packet \in [Keys -> Seq(PacketRecord)] /\ down \in [Keys -> Seq(AnswerRecord)]
      /\ reading \in [link : Keys, session : Keys] \cup {Idle}
      /\ session_seq \in [Keys -> Nat] /\ session_token \in [Keys -> Nat] /\ tokens \in Nat
      /\ sessions \in SUBSET Keys /\ handled \in [Keys -> Seq(Nat)]
      /\ link_session \in [Keys -> 0 .. MaxConnections] /\ tokens + 1 \in Nat
  BY <1>0 DEF WireTypes, ServerTypes
\* Most of them consume the packet.
<1>5. ASSUME Consume(s, recv_packet)
      PROVE  /\ recv_packet' \in [Keys -> Seq(PacketRecord)]
             /\ reading' \in [link : Keys, session : Keys] \cup {Idle}
  BY <1>3, <1>4, <1>5, ConsumeIn
<1>6. /\ recv_packet' \in [Keys -> Seq(PacketRecord)]
      /\ reading' \in [link : Keys, session : Keys] \cup {Idle}
      /\ down' \in [Keys -> Seq(AnswerRecord)]
      /\ session_seq' \in [Keys -> Nat] /\ session_token' \in [Keys -> Nat] /\ tokens' \in Nat
      /\ sessions' \in SUBSET Keys /\ handled' \in [Keys -> Seq(Nat)]
      /\ link_session' \in [Keys -> 0 .. MaxConnections]
  <2>1. CASE Discard(s, p)
    <3>1. /\ Consume(s, recv_packet)
          /\ UNCHANGED <<down, link_session, session_seq, session_token, sessions, tokens, handled>>
      BY <2>1, Zenon DEF Discard
    <3>2. QED
      BY <1>4, <1>5, <3>1
  <2>2. CASE Recv_Connect_Req(s, p)
    <3>1. /\ Consume(s, recv_packet) /\ Handled(s, p)
          /\ UNCHANGED <<link_session, handled>>
          /\ tokens' = tokens + 1 /\ session_token' = [session_token EXCEPT ![s] = tokens']
          /\ sessions' = sessions \cup {s}
          /\ Send(s, Answer("Connect_Ans", FALSE, [key |-> s, token |-> tokens'], 0))
      BY <2>2, Zenon DEF Recv_Connect_Req
    <3>2. session_token' \in [Keys -> Nat] /\ tokens' \in Nat
      BY <1>4, <3>1
    <3>3. down' \in [Keys -> Seq(AnswerRecord)]
      <4>1. Answer("Connect_Ans", FALSE, [key |-> s, token |-> tokens'], 0) \in AnswerRecord
        BY <3>2, FirstKey, AnswerTypes
      <4>2. QED
        BY <1>4, <3>1, <4>1, SendTypes
    <3>4. session_seq' \in [Keys -> Nat]
      BY <1>0, <1>3, <3>1, HandledTypes
    <3>5. sessions' \in SUBSET Keys
      BY <1>4, <3>1
    <3>6. QED
      BY <1>4, <1>5, <3>1, <3>2, <3>3, <3>4, <3>5
  <2>3. CASE Recv_Reconnect_Req(s, p)
    <3>1. session_seq' \in [Keys -> Nat]
      <4>1. Handled(s, p)
        BY <2>3, Zenon DEF Recv_Reconnect_Req
      <4>2. QED
        BY <1>0, <1>3, <4>1, HandledTypes
    <3>2. UNCHANGED <<sessions, handled>>
      BY <2>3, Zenon DEF Recv_Reconnect_Req
    <3>3. CASE Reconnects(s, p)
      <4> DEFINE other == p.session.key
      <4>1. /\ other \in sessions
            /\ link_session' = [d \in Keys |-> IF d = reading.link THEN other
                                ELSE IF link_session[d] = other THEN 0 ELSE link_session[d]]
            /\ tokens' = tokens + 1
            /\ session_token' = [session_token EXCEPT ![other] = tokens']
            /\ Consume(s, HandOver(s, other))
            /\ down' = [down EXCEPT ![reading.link] = Append(@, Answer("Reconnect_Ans", FALSE,
                       [key |-> other, token |-> tokens'], session_seq[other]))]
        BY <3>3, Zenon DEF Reconnects
      <4>2. other \in Keys /\ other \in 0 .. MaxConnections /\ other \in Nat
        <5>1. other \in sessions
          BY <4>1, Zenon
        <5>2. other \in Keys
          BY <1>4, <5>1
        <5>3. QED
          BY <5>2 DEF Keys
      <4> HIDE DEF other
      <4>3. session_token' \in [Keys -> Nat] /\ tokens' \in Nat
        BY <1>4, <4>1
      <4>4. link_session' \in [Keys -> 0 .. MaxConnections]
        BY <1>4, <4>1, <4>2, FirstKey
      <4>5. /\ recv_packet' \in [Keys -> Seq(PacketRecord)]
            /\ reading' \in [link : Keys, session : Keys] \cup {Idle}
        <5>1. HandOver(s, other) \in [Keys -> Seq(PacketRecord)] /\ HandOver(s, other)[s] # <<>>
          BY <1>3, <1>4, <4>2, HandOverIn
        <5>2. QED
          BY <1>4, <4>1, <5>1, ConsumeIn
      <4>6. down' \in [Keys -> Seq(AnswerRecord)]
        <5>1. Answer("Reconnect_Ans", FALSE, [key |-> other, token |-> tokens'], session_seq[other])
              \in AnswerRecord
          <6>1. session_seq[other] \in Nat
            BY <1>4, <4>2
          <6>2. QED
            BY <4>2, <4>3, <6>1, AnswerTypes
        <5>2. QED
          BY <1>4, <4>1, <5>1, AppendProperties
      <4>7. QED
        BY <1>4, <3>1, <3>2, <4>3, <4>4, <4>5, <4>6
    <3>4. CASE ReconnectFails(s, p)
      <4>1. /\ link_session' = [link_session EXCEPT ![reading.link] = 0]
            /\ down' = [down EXCEPT ![reading.link] = Append(@, Answer("Reconnect_Ans", TRUE, Unknown, 0))]
            /\ Consume(s, recv_packet)
            /\ UNCHANGED <<session_token, tokens>>
        BY <3>4, Zenon DEF ReconnectFails
      <4>2. link_session' \in [Keys -> 0 .. MaxConnections]
        <5>1. link_session' = [link_session EXCEPT ![reading.link] = 0]
          BY <4>1, Zenon
        <5>2. 0 \in 0 .. MaxConnections
          BY FirstKey
        <5>3. QED
          BY <1>4, <5>1, <5>2
      <4>3. down' \in [Keys -> Seq(AnswerRecord)]
        <5>1. Answer("Reconnect_Ans", TRUE, Unknown, 0) \in AnswerRecord
          BY AnswerTypes
        <5>2. QED
          BY <1>4, <4>1, <5>1, AppendProperties
      <4>4. QED
        BY <1>4, <1>5, <3>1, <3>2, <4>1, <4>2, <4>3
    <3>5. QED
      BY <2>3, <3>3, <3>4, Zenon DEF Recv_Reconnect_Req
  <2>4. CASE Recv_HeartBeat_Req(s, p)
    <3>1. /\ Consume(s, recv_packet) /\ Handled(s, p)
          /\ Send(s, Answer("HeartBeat_Ans", FALSE, Unknown, session_seq[s]))
          /\ UNCHANGED <<link_session, session_token, sessions, tokens, handled>>
      BY <2>4, Zenon DEF Recv_HeartBeat_Req
    <3>2. down' \in [Keys -> Seq(AnswerRecord)]
      <4>1. Answer("HeartBeat_Ans", FALSE, Unknown, session_seq[s]) \in AnswerRecord
        BY <1>4, AnswerTypes
      <4>2. QED
        BY <1>4, <3>1, <4>1, SendTypes
    <3>3. session_seq' \in [Keys -> Nat]
      BY <1>0, <1>3, <3>1, HandledTypes
    <3>4. QED
      BY <1>4, <1>5, <3>1, <3>2, <3>3
  <2>5. CASE Recv_Message(s, p)
    <3>1. /\ Consume(s, recv_packet) /\ Handled(s, p)
          /\ handled' = [handled EXCEPT ![s] = IF p.reliable THEN Append(@, p.msg_seq) ELSE @]
          /\ UNCHANGED <<down, link_session, session_token, sessions, tokens>>
      BY <2>5, Zenon DEF Recv_Message
    <3>2. session_seq' \in [Keys -> Nat]
      BY <1>0, <1>3, <3>1, HandledTypes
    <3>3. handled' \in [Keys -> Seq(Nat)]
      <4>1. Append(handled[s], p.msg_seq) \in Seq(Nat)
        BY <1>3, <1>4, AppendProperties
      <4>2. QED
        BY <1>4, <3>1, <4>1
    <3>4. QED
      BY <1>4, <1>5, <3>1, <3>2, <3>3
  <2>6. QED
    BY <1>1, <2>1, <2>2, <2>3, <2>4, <2>5, Zenon
<1>7. WireTypes'
  BY <1>0, <1>2, <1>6 DEF WireTypes
<1>8. ServerTypes'
  BY <1>0, <1>2, <1>6, Zenon DEF ServerTypes
<1>9. QED
  BY <1>2, <1>7, <1>8, ServerStepTypes

LEMMA TInvInit == Init => TInv
<1> SUFFICES ASSUME Init PROVE TInv
  OBVIOUS
<1>1. Unknown \in SessionRecord
  BY DEF Unknown, SessionRecord
<1>2. ClientTypes
  <2>1. conn \in 0 .. MaxConnections
    BY FirstKey DEF Init
  <2>2. /\ state \in {"Connecting", "Reconnecting", "Connected", "Disconnected"}
        /\ msg_seq \in Nat /\ idx \in Int /\ numbered \in PacketRecord \cup {NoPacket}
        /\ queue \in Seq(PacketRecord) /\ events \in Seq(AnswerRecord)
        /\ known \in SessionRecord /\ sent \in Seq(Nat)
    BY <1>1 DEF Init
  <2>3. writing \in BOOLEAN /\ crashed \in BOOLEAN /\ spoiled \in BOOLEAN
    BY Zenon DEF Init
  <2>4. QED
    BY <2>1, <2>2, <2>3, Zenon DEF ClientTypes
<1>3. WireTypes
  BY DEF Init, WireTypes
<1>4. ServerTypes
  BY FirstKey DEF Init, ServerTypes
<1>5. Stages
  BY DEF Init, Stages
<1>6. QED
  BY <1>2, <1>3, <1>4, <1>5, TypesSplit, Zenon DEF TInv

LEMMA TInvNext == TInv /\ [Next]_vars => TInv'
<1> SUFFICES ASSUME TInv, [Next]_vars PROVE TInv'
  OBVIOUS
<1>1. CASE Next
  <2>1. CASE Client
    BY <2>1, SendMsgTypes, SendMsgQueuesTypes, HeartBeatTypes, CallbackSendTypes, ConnectTypes,
       ReconnectTypes, CloseTypes, CallbackReceiveTypes, UpdateTypes, Zenon DEF Client
  <2>2. CASE Server
    BY <2>2, ReadTypes, OnRecvMsgTypes, LinkClosesTypes, IdleTimerTypes, Zenon DEF Server
  <2>3. QED
    BY <1>1, <2>1, <2>2, Zenon DEF Next
<1>2. CASE UNCHANGED vars
  <2>1. UNCHANGED <<client, up, down, server>>
    BY <1>2, Zenon DEF vars
  <2>2. TypeOK
    BY DEF TInv
  <2>3. ServerTypes'
    BY <2>1, <2>2, ServerSame
  <2>4. WireTypes'
    BY <2>1, <2>2, TypesSplit DEF WireTypes
  <2>5. QED
    BY <2>1, <2>3, <2>4, ServerStepTypes
<1>3. QED
  BY <1>1, <1>2

\* Every variable has its type.  A packet is taken from recv_packet only where
\* there is one, and a session that takes over its own link keeps its packets.
THEOREM Types == Spec => []TypeOK
<1>1. TInv => TypeOK
  BY DEF TInv
<1>2. QED
  BY <1>1, TInvInit, TInvNext, PTL DEF Spec
-----------------------------------------------------------------------------
(* The inductive invariant.  n is the number of the client's Connect_Req.  *)

Own == session_token[1] # 0
\* No reliable message above Mark has been handled by the client's session.
Mark == IF Own THEN session_seq[1] ELSE 0
OwnHandled == IF Own THEN handled[1] ELSE <<>>

Sent == {sent[i] : i \in DOMAIN sent}
IsConnect(p) == p.msg_id = "Connect_Req"
IsReconnect(p) == p.msg_id = "Reconnect_Req"
In(m, q) == \E i \in 1 .. Len(q) : q[i].msg_seq = m

\* The packets the client has made: only a reliable message has a number of sent,
\* and there is one Connect_Req, before any Reconnect_Req.
Fits(n) == {p \in PacketRecord :
               /\ p.msg_seq <= msg_seq
               /\ p.msg_seq \in Sent <=> p.msg_id = "Message" /\ p.reliable
               /\ IsConnect(p) => p.msg_seq = n
               /\ IsReconnect(p) => n < p.msg_seq /\ ~p.reliable}

NumbersGrow ==
    /\ \A i \in DOMAIN sent : sent[i] \in 1 .. msg_seq
    /\ \A i, j \in DOMAIN sent : i < j => sent[i] < sent[j]
    /\ \A s \in Keys : session_seq[s] <= msg_seq

ClientFits(n) ==
    /\ queue \in Seq(Fits(n))
    /\ numbered # NoPacket => numbered \in Fits(n) /\ numbered.msg_id = "Message"
WireFits(n) == up \in [Keys -> Seq(Fits(n))] /\ recv_packet \in [Keys -> Seq(Fits(n))]

\* Before its first connection the client has only queued messages, and a
\* connection that is not established yet has left no trace.
Unconnected ==
    conn = 0 => /\ idx = 0 /\ ~writing /\ events = <<>>
                /\ \A i \in DOMAIN queue : queue[i].msg_id = "Message"
Untouched(c) == /\ up[c] = <<>> /\ recv_packet[c] = <<>> /\ link_session[c] = 0
                /\ session_seq[c] = 0 /\ session_token[c] = 0 /\ handled[c] = <<>>
Unused == \A c \in Keys : c > conn => Untouched(c)

\* The sessions: only that of the first connection ever has a token.
SessionsOK(n) ==
    /\ \A c \in Keys : link_session[c] \in {0, 1, c}
    /\ \A c, d \in Keys : link_session[c] = 1 /\ link_session[d] = 1 => c = d
    /\ \A c \in Keys : link_session[c] = 1 => c = 1 \/ Own
    /\ \A s \in Keys : session_token[s] # 0 => s = 1
    /\ \A s \in sessions : s = 1 /\ Own
    /\ Own => n <= session_seq[1]
    /\ reading # Idle /\ reading.session = 1 /\ Own => link_session[reading.link] = 1

\* What is read from a link and what is still to be read, in the order it was
\* written: a fresh link's starts with the request that gives it its session.
Fresh(c) == link_session[c] = c /\ (c = 1 => ~Own)
Stream(c) == recv_packet[link_session[c]] \o up[c]
Plain(q) == \A i \in 1 .. Len(q) : ~IsReconnect(q[i])
Opening(q, c) ==
    /\ q # <<>> => IsReconnect(q[1]) \/ (c = 1 /\ IsConnect(q[1]))
    /\ \A i \in 2 .. Len(q) : ~IsReconnect(q[i])
\* Every reliable message before a packet is handled or earlier in the stream.
Gapless(q, S, mark) ==
    \A i \in 1 .. Len(q) : IsReconnect(q[i]) \/
        \A m \in S : m < q[i].msg_seq =>
            m <= mark \/ \E j \in 1 .. i - 1 : q[j].msg_seq = m

FreshOK == \A c \in Keys : Fresh(c) =>
    /\ session_seq[c] = 0 /\ handled[c] = <<>>
    /\ recv_packet[c] # <<>> => reading = [link |-> c, session |-> c]
    /\ Opening(Stream(c), c)
UsedOK(n) == \A s \in Keys : Fresh(s) \/ recv_packet[s] = <<>> \/
    (Plain(recv_packet[s]) /\ n <= session_seq[s])
OwnPlain == \A c \in Keys : Own /\ link_session[c] = 1 => Plain(Stream(c))
GaplessOK == \A c \in Keys : link_session[c] # 0 => Gapless(Stream(c), Sent, Mark)

\* The client's queue is in the order of its numbers, but for a Reconnect_Req in front.
QueueOrder ==
    /\ \A i \in 1 .. Len(queue) : IsReconnect(queue[i]) => i = 1 /\ idx = 0
    /\ \A i, j \in 1 .. Len(queue) :
          i < j => IsReconnect(queue[i]) \/ queue[i].msg_seq < queue[j].msg_seq
    /\ numbered # NoPacket => \A i \in 1 .. Len(queue) :
          IsReconnect(queue[i]) \/ queue[i].msg_seq < numbered.msg_seq
    /\ idx <= Len(queue)
    /\ writing => idx < Len(queue)

\* An acknowledgement is about what the client's session has handled.
AcksOK ==
    /\ \A c \in Keys : \A i \in DOMAIN down[c] :
          down[c][i].msg_id = "HeartBeat_Ans" => down[c][i].msg_seq <= Mark
    /\ \A i \in DOMAIN events : events[i].msg_id = "HeartBeat_Ans" => events[i].msg_seq <= Mark

PrefixOK ==
    /\ \A k \in DOMAIN sent : sent[k] <= Mark <=> k <= Len(OwnHandled)
    /\ \A k \in DOMAIN OwnHandled : k <= Len(sent) /\ OwnHandled[k] = sent[k]

QueuedOK == \A m \in Sent :
    In(m, queue) \/ (numbered # NoPacket /\ numbered.msg_seq = m) \/ m <= Mark

\* What has been written on the open connection is in its stream.
Written == IF writing THEN idx + 1 ELSE idx
WrittenOK == state = "Connected" /\ link_session[conn] # 0 =>
    \A j \in 1 .. Len(queue) : j <= Written /\ queue[j].msg_seq \in Sent =>
        queue[j].msg_seq <= Mark \/ In(queue[j].msg_seq, Stream(conn))
SilentOK == state = "Connected" /\ Fresh(conn) /\ Stream(conn) = <<>> =>
    ~writing /\ idx < Len(queue)

Good(n) ==
    /\ n <= msg_seq /\ NumbersGrow /\ ClientFits(n) /\ WireFits(n)
    /\ Unconnected /\ Unused /\ SessionsOK(n)
    /\ FreshOK /\ UsedOK(n) /\ OwnPlain /\ GaplessOK
    /\ QueueOrder /\ AcksOK /\ PrefixOK /\ QueuedOK /\ WrittenOK /\ SilentOK

IInv == TInv /\ (spoiled \/ \E n \in Nat : Good(n))

-----------------------------------------------------------------------------
(* Streams. *)

LEMMA AppendToStream ==
    ASSUME NEW S, NEW r \in Seq(S), NEW u \in Seq(S), NEW x \in S
    PROVE  r \o Append(u, x) = Append(r \o u, x)
<1>1. r \o u \in Seq(S) /\ <<x>> \in Seq(S)
  BY ConcatProperties, Tuples
<1>2. Append(u, x) = u \o <<x>> /\ Append(r \o u, x) = (r \o u) \o <<x>>
  BY <1>1, AppendIsConcat
<1>3. (r \o u) \o <<x>> = r \o (u \o <<x>>)
  BY <1>1, ConcatAssociative
<1>4. QED
  BY <1>2, <1>3

LEMMA ReadOfStream ==
    ASSUME NEW S, NEW r \in Seq(S), NEW u \in Seq(S), NEW n \in 0 .. Len(u)
    PROVE  (r \o SubSeq(u, 1, n)) \o SubSeq(u, n + 1, Len(u)) = r \o u
<1> DEFINE a == SubSeq(u, 1, n)
           b == SubSeq(u, n + 1, Len(u))
<1>1. a \in Seq(S) /\ b \in Seq(S)
  BY Parts
<1>2. a \o b = u
  BY Parts
<1> HIDE DEF a, b
<1>3. (r \o a) \o b = r \o (a \o b)
  BY <1>1, ConcatAssociative
<1>4. r \o (a \o b) = r \o u
  BY <1>2
<1>5. (r \o a) \o b = r \o u
  BY <1>3, <1>4
<1>6. QED
  BY <1>5 DEF a, b

LEMMA TailOfStream ==
    ASSUME NEW S, NEW r \in Seq(S), NEW u \in Seq(S), r # <<>>
    PROVE  /\ Tail(r) \o u = Tail(r \o u)
           /\ r \o u # <<>> /\ (r \o u)[1] = Head(r) /\ Head(r) = r[1]
<1>1. /\ r \o u \in Seq(S) /\ Len(r \o u) = Len(r) + Len(u)
      /\ \A i \in 1 .. Len(r) + Len(u) : (r \o u)[i] = IF i <= Len(r) THEN r[i] ELSE u[i - Len(r)]
  BY ConcatProperties
<1>2. Len(r) \in Nat /\ Len(u) \in Nat /\ Len(r) # 0
  BY LenProperties, EmptySeq
<1>3. r \o u # <<>>
  BY ConcatEqualIffEmpty
<1>4. /\ Tail(r) \in Seq(S) /\ Len(Tail(r)) = Len(r) - 1
      /\ \A i \in 1 .. Len(r) - 1 : Tail(r)[i] = r[i + 1]
  BY HeadTailProperties
<1>5. /\ Tail(r \o u) \in Seq(S) /\ Len(Tail(r \o u)) = Len(r) + Len(u) - 1
      /\ \A i \in 1 .. Len(r) + Len(u) - 1 : Tail(r \o u)[i] = (r \o u)[i + 1]
  BY <1>1, <1>3, HeadTailProperties
<1>6. /\ Tail(r) \o u \in Seq(S) /\ Len(Tail(r) \o u) = Len(r) - 1 + Len(u)
      /\ \A i \in 1 .. Len(r) - 1 + Len(u) :
            (Tail(r) \o u)[i] = IF i <= Len(r) - 1 THEN Tail(r)[i] ELSE u[i - (Len(r) - 1)]
  BY <1>4, ConcatProperties
<1>7. ASSUME NEW i \in 1 .. Len(r) + Len(u) - 1
      PROVE  (Tail(r) \o u)[i] = Tail(r \o u)[i]
  <2>1. i + 1 \in 1 .. Len(r) + Len(u) /\ i \in 1 .. Len(r) - 1 + Len(u)
    BY <1>2
  <2>2. Tail(r \o u)[i] = IF i + 1 <= Len(r) THEN r[i + 1] ELSE u[i + 1 - Len(r)]
    BY <1>1, <1>5, <2>1
  <2>3. CASE i + 1 <= Len(r)
    BY <1>2, <1>4, <1>6, <2>1, <2>2, <2>3
  <2>4. CASE ~(i + 1 <= Len(r))
    <3>1. i - (Len(r) - 1) = i + 1 - Len(r) /\ ~(i <= Len(r) - 1)
      BY <1>2, <2>4
    <3>2. QED
      BY <1>6, <2>1, <2>2, <2>4, <3>1
  <2>5. QED
    BY <2>3, <2>4
<1>8. Tail(r) \o u = Tail(r \o u)
  <2>1. Len(Tail(r) \o u) = Len(Tail(r \o u))
    BY <1>2, <1>5, <1>6
  <2>2. \A i \in 1 .. Len(Tail(r) \o u) : (Tail(r) \o u)[i] = Tail(r \o u)[i]
    BY <1>2, <1>6, <1>7
  <2>3. QED
    BY <1>5, <1>6, <2>1, <2>2, SeqEqual
<1>9. Head(r) = r[1] /\ (r \o u)[1] = r[1]
  BY <1>1, <1>2
<1>10. QED
  BY <1>3, <1>8, <1>9

\* A packet is written at the end of a stream.
LEMMA StreamAppend ==
    ASSUME NEW q \in Seq(PacketRecord), NEW x \in PacketRecord, NEW M, NEW k,
           Gapless(q, M, k),
           IsReconnect(x) \/ \A m \in M : m < x.msg_seq => m <= k \/ In(m, q)
    PROVE  Gapless(Append(q, x), M, k)
<1>1. /\ Len(Append(q, x)) = Len(q) + 1 /\ Len(q) \in Nat
      /\ \A i \in 1 .. Len(q) : Append(q, x)[i] = q[i]
      /\ Append(q, x)[Len(q) + 1] = x
  BY AppendProperties, LenProperties
<1>2. SUFFICES ASSUME NEW i \in 1 .. Len(q) + 1, ~IsReconnect(Append(q, x)[i]),
                      NEW m \in M, m < Append(q, x)[i].msg_seq, ~(m <= k)
               PROVE  \E j \in 1 .. i - 1 : Append(q, x)[j].msg_seq = m
  BY <1>1 DEF Gapless
<1>3. CASE i <= Len(q)
  <2>1. PICK j \in 1 .. i - 1 : q[j].msg_seq = m
    BY <1>1, <1>2, <1>3 DEF Gapless
  <2>2. Append(q, x)[j].msg_seq = m
    BY <1>1, <1>3, <2>1
  <2>3. QED
    BY <2>2
<1>4. CASE i = Len(q) + 1
  <2>1. PICK j \in 1 .. Len(q) : q[j].msg_seq = m
    BY <1>1, <1>2, <1>4 DEF In
  <2>2. Append(q, x)[j].msg_seq = m /\ j \in 1 .. i - 1
    BY <1>1, <1>4, <2>1
  <2>3. QED
    BY <2>2
<1>5. QED
  BY <1>1, <1>3, <1>4

\* The first packet of a stream is handled: nothing is missing before it, nor after it.
LEMMA StreamTail ==
    ASSUME NEW q \in Seq(PacketRecord), q # <<>>, NEW M, NEW k, NEW l,
           Gapless(q, M, k),
           \A m \in M : m <= k \/ m = q[1].msg_seq => m <= l
    PROVE  Gapless(Tail(q), M, l)
<1>1. /\ Len(q) \in Nat /\ Len(Tail(q)) = Len(q) - 1
      /\ \A i \in 1 .. Len(q) - 1 : Tail(q)[i] = q[i + 1]
  BY HeadTailProperties, LenProperties
<1>2. SUFFICES ASSUME NEW i \in 1 .. Len(q) - 1, ~IsReconnect(Tail(q)[i]),
                      NEW m \in M, m < Tail(q)[i].msg_seq, ~(m <= l)
               PROVE  \E j \in 1 .. i - 1 : Tail(q)[j].msg_seq = m
  BY <1>1 DEF Gapless
<1>3. i + 1 \in 1 .. Len(q) /\ Tail(q)[i] = q[i + 1] /\ (i + 1) - 1 = i
  BY <1>1
<1>4. PICK j \in 1 .. i : q[j].msg_seq = m
  <2>1. ~(m <= k)
    BY <1>2
  <2>2. \E j \in 1 .. (i + 1) - 1 : q[j].msg_seq = m
    BY <1>2, <1>3, <2>1 DEF Gapless
  <2>3. QED
    BY <1>3, <2>2
<1>5. j # 1
  BY <1>2, <1>4
<1>6. j - 1 \in 1 .. i - 1 /\ j - 1 \in 1 .. Len(q) - 1 /\ (j - 1) + 1 = j
  BY <1>1, <1>5
<1>7. Tail(q)[j - 1].msg_seq = m
  BY <1>1, <1>4, <1>6
<1>8. QED
  BY <1>6, <1>7

\* A message is sent that no packet of the stream comes after.
LEMMA StreamSent ==
    ASSUME NEW q \in Seq(PacketRecord), NEW M, NEW k, NEW N,
           Gapless(q, M, k),
           \A m \in N : m \in M \/ \A i \in 1 .. Len(q) : ~(m < q[i].msg_seq)
    PROVE  Gapless(q, N, k)
BY DEF Gapless

LEMMA PlainParts ==
    ASSUME NEW r \in Seq(PacketRecord), NEW u \in Seq(PacketRecord)
    PROVE  Plain(r \o u) <=> Plain(r) /\ Plain(u)
<1>1. /\ Len(r \o u) = Len(r) + Len(u) /\ Len(r) \in Nat /\ Len(u) \in Nat
      /\ \A i \in 1 .. Len(r) + Len(u) : (r \o u)[i] = IF i <= Len(r) THEN r[i] ELSE u[i - Len(r)]
  BY ConcatProperties, LenProperties
<1>2. ASSUME Plain(r), Plain(u) PROVE Plain(r \o u)
  <2>1. SUFFICES ASSUME NEW i \in 1 .. Len(r) + Len(u) PROVE ~IsReconnect((r \o u)[i])
    BY <1>1 DEF Plain
  <2>2. CASE i <= Len(r)
    BY <1>1, <1>2, <2>2 DEF Plain
  <2>3. CASE ~(i <= Len(r))
    <3>1. i - Len(r) \in 1 .. Len(u)
      BY <1>1, <2>3
    <3>2. QED
      BY <1>1, <1>2, <2>3, <3>1 DEF Plain
  <2>4. QED
    BY <2>2, <2>3
<1>3. ASSUME Plain(r \o u) PROVE Plain(r) /\ Plain(u)
  <2>1. ASSUME NEW i \in 1 .. Len(r) PROVE ~IsReconnect(r[i])
    <3>1. i \in 1 .. Len(r) + Len(u) /\ (r \o u)[i] = r[i]
      BY <1>1
    <3>2. QED
      BY <1>1, <1>3, <3>1 DEF Plain
  <2>2. ASSUME NEW i \in 1 .. Len(u) PROVE ~IsReconnect(u[i])
    <3>1. i + Len(r) \in 1 .. Len(r) + Len(u) /\ ~(i + Len(r) <= Len(r)) /\ (i + Len(r)) - Len(r) = i
      BY <1>1
    <3>2. (r \o u)[i + Len(r)] = u[i]
      BY <1>1, <3>1
    <3>3. QED
      BY <1>1, <1>3, <3>1, <3>2 DEF Plain
  <2>3. QED
    BY <2>1, <2>2 DEF Plain
<1>4. QED
  BY <1>2, <1>3

LEMMA AppendStarts ==
    ASSUME NEW q \in Seq(PacketRecord), NEW x \in PacketRecord, ~IsReconnect(x), NEW c
    PROVE  /\ Plain(q) => Plain(Append(q, x))
           /\ Opening(q, c) /\ q # <<>> => Opening(Append(q, x), c)
<1>1. /\ Len(Append(q, x)) = Len(q) + 1 /\ Len(q) \in Nat
      /\ \A i \in 1 .. Len(q) : Append(q, x)[i] = q[i]
      /\ Append(q, x)[Len(q) + 1] = x
      /\ q # <<>> => 1 \in 1 .. Len(q)
  BY AppendProperties, LenProperties, EmptySeq
<1>2. Plain(q) => Plain(Append(q, x))
  <2>1. SUFFICES ASSUME Plain(q), NEW i \in 1 .. Len(q) + 1 PROVE ~IsReconnect(Append(q, x)[i])
    BY <1>1 DEF Plain
  <2>2. CASE i <= Len(q)
    BY <1>1, <2>1, <2>2 DEF Plain
  <2>3. CASE i = Len(q) + 1
    BY <1>1, <2>3
  <2>4. QED
    BY <1>1, <2>2, <2>3
<1>3. Opening(q, c) /\ q # <<>> => Opening(Append(q, x), c)
  <2>1. SUFFICES ASSUME Opening(q, c), q # <<>> PROVE Opening(Append(q, x), c)
    OBVIOUS
  <2>2. Append(q, x)[1] = q[1]
    BY <1>1, <2>1
  <2>3. ASSUME NEW i \in 2 .. Len(q) + 1 PROVE ~IsReconnect(Append(q, x)[i])
    <3>1. CASE i <= Len(q)
      BY <1>1, <2>1, <3>1 DEF Opening
    <3>2. CASE i = Len(q) + 1
      BY <1>1, <3>2
    <3>3. QED
      BY <1>1, <3>1, <3>2
  <2>4. QED
    BY <1>1, <2>1, <2>2, <2>3 DEF Opening
<1>4. QED
  BY <1>2, <1>3

LEMMA TailPlain ==
    ASSUME NEW q \in Seq(PacketRecord), q # <<>>, NEW c, Plain(q) \/ Opening(q, c)
    PROVE  Plain(Tail(q))
<1>1. /\ Len(q) \in Nat /\ Len(Tail(q)) = Len(q) - 1
      /\ \A i \in 1 .. Len(q) - 1 : Tail(q)[i] = q[i + 1]
  BY HeadTailProperties, LenProperties
<1>2. ASSUME NEW i \in 1 .. Len(q) - 1 PROVE ~IsReconnect(Tail(q)[i])
  <2>1. i + 1 \in 1 .. Len(q) /\ i + 1 \in 2 .. Len(q)
    BY <1>1
  <2>2. QED
    BY <1>1, <2>1 DEF Plain, Opening
<1>3. QED
  BY <1>1, <1>2 DEF Plain

\* One packet alone.
LEMMA StreamOne ==
    ASSUME NEW x \in PacketRecord, NEW M, NEW k, NEW c,
           IsReconnect(x) \/ (c = 1 /\ IsConnect(x)),
           IsReconnect(x) \/ \A m \in M : m < x.msg_seq => m <= k
    PROVE  Gapless(<<x>>, M, k) /\ Opening(<<x>>, c)
<1>1. Len(<<x>>) = 1 /\ <<x>>[1] = x /\ 1 .. 1 = {1} /\ 2 .. 1 = {}
  OBVIOUS
<1>2. QED
  BY <1>1 DEF Gapless, Opening

-----------------------------------------------------------------------------
(* What the steps leave alone. *)

LEMMA ServerFrame ==
    ASSUME UNCHANGED server
    PROVE  /\ Own' <=> Own
           /\ Mark' = Mark /\ OwnHandled' = OwnHandled
           /\ \A c : Fresh(c)' <=> Fresh(c)
BY DEF server, Own, Mark, OwnHandled, Fresh

LEMMA SentFrame == sent' = sent => Sent' = Sent
BY DEF Sent

LEMMA SessionsFrame ==
    ASSUME UNCHANGED server, NEW n, SessionsOK(n), UsedOK(n)
    PROVE  SessionsOK(n)' /\ UsedOK(n)'
<1>1. SessionsOK(n)'
  BY DEF server, SessionsOK, Own
<1>2. UsedOK(n)'
  BY ServerFrame DEF server, UsedOK
<1>3. QED
  BY <1>1, <1>2

LEMMA StreamsFrame ==
    ASSUME UNCHANGED <<server, up, sent>>, FreshOK, OwnPlain, GaplessOK
    PROVE  FreshOK' /\ OwnPlain' /\ GaplessOK' /\ \A c : Stream(c)' = Stream(c)
<1>1. \A c : Stream(c)' = Stream(c)
  BY DEF server, Stream
<1>2. UNCHANGED <<link_session, session_seq, handled, recv_packet, reading>>
  BY DEF server
<1>3. FreshOK'
  BY <1>1, <1>2, ServerFrame, Zenon DEF FreshOK
<1>4. OwnPlain'
  BY <1>1, <1>2, ServerFrame, Zenon DEF OwnPlain
<1>5. GaplessOK'
  BY <1>1, <1>2, ServerFrame, SentFrame, Zenon DEF GaplessOK
<1>6. QED
  BY <1>1, <1>3, <1>4, <1>5

LEMMA PrefixFrame ==
    ASSUME UNCHANGED <<server, sent>>, PrefixOK
    PROVE  PrefixOK'
BY ServerFrame, Zenon DEF PrefixOK

LEMMA UnusedFrame ==
    ASSUME UNCHANGED <<conn, server>>, Unused,
           \A c \in Keys : c > conn => up'[c] = up[c]
    PROVE  Unused'
BY DEF Unused, Untouched, server

\* A link with a session has a stream of packets.
LEMMA StreamTypes ==
    ASSUME TypeOK, NEW c \in Keys, link_session[c] # 0
    PROVE  /\ link_session[c] \in Keys /\ up[c] \in Seq(PacketRecord)
           /\ recv_packet[link_session[c]] \in Seq(PacketRecord)
           /\ Stream(c) \in Seq(PacketRecord)
<1>1. link_session[c] \in Keys
  BY DEF TypeOK, Keys
<1>2. up[c] \in Seq(PacketRecord) /\ recv_packet[link_session[c]] \in Seq(PacketRecord)
  BY <1>1 DEF TypeOK
<1>3. QED
  BY <1>1, <1>2, ConcatProperties DEF Stream

LEMMA InAppend ==
    ASSUME NEW q \in Seq(PacketRecord), NEW x \in PacketRecord
    PROVE  /\ \A m : In(m, q) => In(m, Append(q, x))
           /\ In(x.msg_seq, Append(q, x))
<1>1. /\ Len(Append(q, x)) = Len(q) + 1 /\ Len(q) \in Nat
      /\ \A i \in 1 .. Len(q) : Append(q, x)[i] = q[i]
      /\ Append(q, x)[Len(q) + 1] = x
  BY AppendProperties, LenProperties
<1>2. ASSUME NEW m, In(m, q) PROVE In(m, Append(q, x))
  <2>1. PICK i \in 1 .. Len(q) : q[i].msg_seq = m
    BY <1>2 DEF In
  <2>2. i \in 1 .. Len(q) + 1 /\ Append(q, x)[i].msg_seq = m
    BY <1>1, <2>1
  <2>3. QED
    BY <1>1, <2>2 DEF In
<1>3. Len(q) + 1 \in 1 .. Len(Append(q, x))
  BY <1>1
<1>4. QED
  BY <1>1, <1>2, <1>3 DEF In

\* The client writes a packet on a connection: the stream of that link grows.
LEMMA Writes ==
    ASSUME TypeOK, FreshOK, OwnPlain, GaplessOK, \A d \in Keys : link_session[d] \in {0, 1, d},
           UNCHANGED <<server, sent>>,
           NEW c \in Keys, NEW x \in PacketRecord, up' = [up EXCEPT ![c] = Append(@, x)],
           ~IsReconnect(x), Fresh(c) => Stream(c) # <<>>,
           link_session[c] # 0 =>
               \A m \in Sent : m < x.msg_seq => m <= Mark \/ In(m, Stream(c))
    PROVE  /\ FreshOK' /\ OwnPlain' /\ GaplessOK'
           /\ link_session[c] # 0 => Stream(c)' = Append(Stream(c), x)
<1>1. UNCHANGED <<link_session, session_seq, handled, recv_packet, reading>>
  BY DEF server
<1>2. /\ Own' <=> Own
      /\ Mark' = Mark /\ Sent' = Sent /\ \A d : Fresh(d)' <=> Fresh(d)
  BY ServerFrame, SentFrame
<1>3. up \in [Keys -> Seq(PacketRecord)]
  BY DEF TypeOK
<1>4. ASSUME NEW d \in Keys, d # c PROVE Stream(d)' = Stream(d)
  <2>1. up'[d] = up[d]
    BY <1>3, <1>4
  <2>2. QED
    BY <1>1, <2>1 DEF Stream
<1>5. ASSUME link_session[c] # 0
      PROVE  /\ Stream(c)' = Append(Stream(c), x) /\ Stream(c) \in Seq(PacketRecord)
             /\ Append(Stream(c), x) # <<>>
  <2>1. /\ recv_packet[link_session[c]] \in Seq(PacketRecord) /\ up[c] \in Seq(PacketRecord)
        /\ Stream(c) \in Seq(PacketRecord)
    BY <1>5, StreamTypes
  <2>2. Stream(c)' = recv_packet[link_session[c]] \o Append(up[c], x)
    <3>1. up'[c] = Append(up[c], x)
      BY <1>3
    <3>2. QED
      BY <1>1, <3>1 DEF Stream
  <2>3. Stream(c)' = Append(Stream(c), x)
    <3>1. recv_packet[link_session[c]] \o Append(up[c], x)
            = Append(recv_packet[link_session[c]] \o up[c], x)
      <4>1. \A r, u \in Seq(PacketRecord) : r \o Append(u, x) = Append(r \o u, x)
        BY AppendToStream
      <4>2. QED
        BY <2>1, <4>1
    <3>2. QED
      BY <2>2, <3>1 DEF Stream
  <2>4. QED
    BY <2>1, <2>3, AppendProperties
<1>6. FreshOK'
  <2>1. SUFFICES ASSUME NEW d \in Keys, Fresh(d) PROVE Opening(Stream(d)', d)
    BY <1>1, <1>2, Zenon DEF FreshOK
  <2>2. Opening(Stream(d), d)
    BY <2>1 DEF FreshOK
  <2>3. CASE d # c
    BY <1>4, <2>2, <2>3
  <2>4. CASE d = c
    <3>1. link_session[c] # 0
      BY <2>1, <2>4, FirstKey DEF Fresh
    <3>2. QED
      BY <1>5, <2>1, <2>2, <2>4, <3>1, AppendStarts
  <2>5. QED
    BY <2>3, <2>4
<1>7. OwnPlain'
  <2>1. SUFFICES ASSUME NEW d \in Keys, Own, link_session[d] = 1 PROVE Plain(Stream(d)')
    BY <1>1, <1>2, Zenon DEF OwnPlain
  <2>2. Plain(Stream(d))
    BY <2>1 DEF OwnPlain
  <2>3. CASE d # c
    BY <1>4, <2>2, <2>3
  <2>4. CASE d = c
    <3>1. link_session[c] # 0
      BY <2>1, <2>4
    <3>2. QED
      BY <1>5, <2>2, <2>4, <3>1, AppendStarts
  <2>5. QED
    BY <2>3, <2>4
<1>8. GaplessOK'
  <2>1. SUFFICES ASSUME NEW d \in Keys, link_session[d] # 0
                 PROVE  Gapless(Stream(d)', Sent, Mark)
    BY <1>1, <1>2, Zenon DEF GaplessOK
  <2>2. Gapless(Stream(d), Sent, Mark)
    BY <2>1 DEF GaplessOK
  <2>3. CASE d # c
    BY <1>4, <2>2, <2>3
  <2>4. CASE d = c
    <3>1. Gapless(Append(Stream(c), x), Sent, Mark)
      BY <1>5, <2>1, <2>2, <2>4, StreamAppend
    <3>2. QED
      BY <1>5, <2>1, <2>4, <3>1
  <2>5. QED
    BY <2>3, <2>4
<1>9. QED
  BY <1>5, <1>6, <1>7, <1>8

-----------------------------------------------------------------------------
(* The client numbers packets. *)

LEMMA SentTypes == TypeOK /\ NumbersGrow => \A m \in Sent : m \in Nat /\ m <= msg_seq
BY DEF TypeOK, NumbersGrow, Sent

LEMMA MarkTypes == TypeOK /\ NumbersGrow => Mark \in Nat /\ Mark <= msg_seq /\ session_seq[1] \in Nat
BY FirstKey DEF TypeOK, NumbersGrow, Mark

LEMMA SentGrows ==
    ASSUME TypeOK, NEW m \in Nat, sent' = Append(sent, m)
    PROVE  Sent' = Sent \cup {m}
<1>1. /\ sent \in Seq(Nat) /\ Len(sent') = Len(sent) + 1 /\ Len(sent) \in Nat
      /\ DOMAIN sent = 1 .. Len(sent) /\ DOMAIN sent' = 1 .. Len(sent) + 1
      /\ \A i \in 1 .. Len(sent) : sent'[i] = sent[i]
      /\ sent'[Len(sent) + 1] = m
  BY AppendProperties, LenProperties DEF TypeOK
<1>2. Sent' \subseteq Sent \cup {m}
  BY <1>1 DEF Sent
<1>3. Sent \cup {m} \subseteq Sent'
  <2>1. ASSUME NEW i \in 1 .. Len(sent) PROVE sent[i] \in Sent'
    <3>1. i \in 1 .. Len(sent) + 1 /\ sent'[i] = sent[i]
      BY <1>1
    <3>2. QED
      BY <1>1, <3>1 DEF Sent
  <2>2. m \in Sent'
    <3>1. Len(sent) + 1 \in 1 .. Len(sent) + 1
      BY <1>1
    <3>2. QED
      BY <1>1, <3>1 DEF Sent
  <2>3. QED
    BY <1>1, <2>1, <2>2 DEF Sent
<1>4. QED
  BY <1>2, <1>3

\* A packet of the client stays one.
LEMMA FitsGrow ==
    ASSUME TypeOK, NumbersGrow, NEW n \in Nat,
           msg_seq' = msg_seq \/ msg_seq' = msg_seq + 1,
           sent' = sent \/ sent' = Append(sent, msg_seq + 1)
    PROVE  Fits(n) \subseteq Fits(n)'
<1>1. SUFFICES ASSUME NEW p \in Fits(n) PROVE p \in Fits(n)'
  BY Zenon
<1>2. p \in PacketRecord /\ p.msg_seq \in Nat /\ p.msg_seq <= msg_seq /\ msg_seq \in Nat
  BY DEF Fits, PacketRecord, TypeOK
<1>3. p.msg_seq <= msg_seq'
  BY <1>2
<1>4. p.msg_seq \in Sent' <=> p.msg_seq \in Sent
  <2>1. CASE sent' = sent
    BY <2>1, SentFrame
  <2>2. CASE sent' = Append(sent, msg_seq + 1)
    <3>1. Sent' = Sent \cup {msg_seq + 1}
      BY <1>2, <2>2, SentGrows
    <3>2. QED
      BY <1>2, <3>1
  <2>3. QED
    BY <2>1, <2>2
<1>5. QED
  BY <1>2, <1>3, <1>4, Zenon DEF Fits

LEMMA FitsTypes == ASSUME NEW n PROVE Fits(n) \subseteq PacketRecord
BY DEF Fits

LEMMA NumberedFits ==
    ASSUME TypeOK, NumbersGrow, NEW n \in Nat, msg_seq' = msg_seq + 1,
           NEW id \in {"Message", "HeartBeat_Req", "Connect_Req", "Reconnect_Req"},
           NEW reliable \in BOOLEAN,
           msg_seq + 1 \in Sent' <=> id = "Message" /\ reliable,
           id = "Connect_Req" => n = msg_seq + 1,
           id = "Reconnect_Req" => n <= msg_seq /\ ~reliable
    PROVE  Packet(id, msg_seq + 1, reliable) \in Fits(n)'
<1> DEFINE p == Packet(id, msg_seq + 1, reliable)
<1>1. p \in PacketRecord
  BY NewPacket
<1>2. p.msg_id = id /\ p.msg_seq = msg_seq + 1 /\ p.reliable = reliable
  BY DEF Packet
<1>3. msg_seq \in Nat /\ n \in Nat
  BY DEF TypeOK
<1> HIDE DEF p
<1>4. p.msg_seq <= msg_seq'
  BY <1>2, <1>3
<1>5. IsReconnect(p) => n < p.msg_seq /\ ~p.reliable
  <2>1. SUFFICES ASSUME id = "Reconnect_Req" PROVE n < msg_seq + 1 /\ ~p.reliable
    BY <1>2, Zenon DEF IsReconnect
  <2>2. n < msg_seq + 1
    BY <1>3, <2>1
  <2>3. ~p.reliable
    BY <1>2, <2>1, Zenon
  <2>4. QED
    BY <2>2, <2>3
<1>6. IsConnect(p) => p.msg_seq = n
  BY <1>2 DEF IsConnect
<1>7. p.msg_seq \in Sent' <=> p.msg_id = "Message" /\ p.reliable
  BY <1>2, Zenon
<1>8. p \in Fits(n)'
  BY <1>1, <1>4, <1>5, <1>6, <1>7, Zenon DEF Fits
<1>9. QED
  BY <1>8 DEF p

LEMMA NotSentYet == TypeOK /\ NumbersGrow => msg_seq + 1 \notin Sent
<1> SUFFICES ASSUME TypeOK, NumbersGrow, NEW m \in Sent PROVE m # msg_seq + 1
  BY Zenon
<1>1. m \in Nat /\ m <= msg_seq /\ msg_seq \in Nat
  BY SentTypes DEF TypeOK
<1>2. QED
  BY <1>1

LEMMA WrittenTypes ==
    TypeOK /\ QueueOrder => /\ Written \in Int /\ Written <= Len(queue) /\ Len(queue) \in Nat
                            /\ idx \in Int /\ idx <= Written
<1> SUFFICES ASSUME TypeOK, QueueOrder
             PROVE  /\ Written \in Int /\ Written <= Len(queue) /\ Len(queue) \in Nat
                    /\ idx \in Int /\ idx <= Written
  OBVIOUS
<1>1. Len(queue) \in Nat /\ idx \in Int
  BY LenProperties DEF TypeOK
<1>2. idx <= Len(queue) /\ (writing => idx < Len(queue))
  BY Zenon DEF QueueOrder
<1>3. CASE writing
  <2>1. Written = idx + 1 /\ idx < Len(queue)
    BY <1>2, <1>3, Zenon DEF Written
  <2>2. QED
    BY <1>1, <2>1
<1>4. CASE ~writing
  <2>1. Written = idx
    BY <1>4, Zenon DEF Written
  <2>2. QED
    BY <1>1, <1>2, <2>1
<1>5. QED
  BY <1>3, <1>4

LEMMA QueueTypes ==
    ASSUME TypeOK
    PROVE  /\ queue \in Seq(PacketRecord) /\ Len(queue) \in Nat
           /\ \A i \in 1 .. Len(queue) : queue[i] \in PacketRecord /\ queue[i].msg_seq \in Nat
<1>1. queue \in Seq(PacketRecord)
  BY DEF TypeOK
<1>2. \A i \in 1 .. Len(queue) : queue[i] \in PacketRecord
  BY <1>1, ElementOfSeq
<1>3. QED
  BY <1>1, <1>2, LenProperties DEF PacketRecord

\* Packets are put at the end of the queue, and the first is written if all others are.
LEMMA Enqueue ==
    ASSUME TInv, NEW n \in Nat, Good(n),
           NEW packets \in Seq(PacketRecord), packets # <<>>,
           SendPackets(packets, state, conn),
           UNCHANGED <<state, conn, idx, server, sent>>, numbered' = NoPacket,
           \A i \in 1 .. Len(packets) : ~IsReconnect(packets[i]),
           \A i \in 1 .. Len(packets), j \in 1 .. Len(queue) :
               IsReconnect(queue[j]) \/ queue[j].msg_seq < packets[i].msg_seq,
           \A i, j \in 1 .. Len(packets) : i < j => packets[i].msg_seq < packets[j].msg_seq,
           \A m \in Sent : m < packets[1].msg_seq => In(m, queue) \/ m <= Mark
    PROVE  /\ FreshOK' /\ OwnPlain' /\ GaplessOK' /\ QueueOrder' /\ WrittenOK' /\ SilentOK'
           /\ \A c \in Keys : c > conn => up'[c] = up[c]
           /\ \A i \in 1 .. Len(queue) : queue'[i] = queue[i]
           /\ \A i \in 1 .. Len(packets) : queue'[Len(queue) + i] = packets[i]
           /\ Len(queue') = Len(queue) + Len(packets)
<1>0. /\ TypeOK /\ FreshOK /\ OwnPlain /\ GaplessOK /\ QueueOrder /\ WrittenOK /\ SilentOK
      /\ \A d \in Keys : link_session[d] \in {0, 1, d}
  BY Zenon DEF TInv, Good, SessionsOK
<1>1. /\ queue \in Seq(PacketRecord) /\ Len(queue) \in Nat /\ Len(packets) \in Nat /\ 1 <= Len(packets)
      /\ \A i \in 1 .. Len(queue) : queue[i] \in PacketRecord /\ queue[i].msg_seq \in Nat
      /\ Head(packets) = packets[1] /\ packets[1] \in PacketRecord
  BY <1>0, QueueTypes, EmptySeq, LenProperties, ElementOfSeq
<1>2. queue' = queue \o packets
  BY Zenon DEF SendPackets
<1>3. /\ Len(queue') = Len(queue) + Len(packets)
      /\ \A i \in 1 .. Len(queue) : queue'[i] = queue[i]
      /\ \A i \in 1 .. Len(packets) : queue'[Len(queue) + i] = packets[i]
  <2>1. /\ Len(queue \o packets) = Len(queue) + Len(packets)
        /\ \A i \in 1 .. Len(queue) + Len(packets) : (queue \o packets)[i] =
              IF i <= Len(queue) THEN queue[i] ELSE packets[i - Len(queue)]
    BY <1>1, ConcatProperties
  <2>2. ASSUME NEW i \in 1 .. Len(packets) PROVE (queue \o packets)[Len(queue) + i] = packets[i]
    <3>1. /\ Len(queue) + i \in 1 .. Len(queue) + Len(packets)
          /\ ~(Len(queue) + i <= Len(queue)) /\ (Len(queue) + i) - Len(queue) = i
      BY <1>1
    <3>2. QED
      BY <2>1, <3>1
  <2>3. \A i \in 1 .. Len(queue) : (queue \o packets)[i] = queue[i]
    BY <1>1, <2>1
  <2>4. QED
    BY <1>2, <2>1, <2>2, <2>3
<1>4. idx \in Int /\ idx <= Len(queue) /\ (writing => idx < Len(queue))
  BY <1>0, Zenon DEF QueueOrder, TypeOK
<1>5. /\ (writing' => writing \/ idx = Len(queue))
      /\ \/ /\ idx = Len(queue) /\ state = "Connected" /\ writing' = TRUE
            /\ up' = [up EXCEPT ![conn] = Append(@, packets[1])]
         \/ /\ up' = up /\ (writing' => writing)
            /\ idx < Len(queue) => writing' = writing
  <2>1. CASE idx = Len(queue) /\ state = "Connected"
    <3>1. BeginSend(packets[1], conn)
      BY <1>1, <2>1, Zenon DEF SendPackets
    <3>2. \/ writing' = TRUE /\ up' = [up EXCEPT ![conn] = Append(@, packets[1])]
          \/ writing' = FALSE /\ up' = up
      BY <3>1, Zenon DEF BeginSend
    <3>3. ~(idx < Len(queue))
      BY <1>1, <2>1
    <3>4. QED
      BY <2>1, <3>2, <3>3, Zenon
  <2>2. CASE ~(idx = Len(queue) /\ state = "Connected")
    BY <2>2, Zenon DEF SendPackets
  <2>3. QED
    BY <2>1, <2>2
\* The order of the queue.
<1>6. ASSUME NEW i \in 1 .. Len(queue')
      PROVE  \/ i \in 1 .. Len(queue) /\ queue'[i] = queue[i]
             \/ \E k \in 1 .. Len(packets) : i = Len(queue) + k /\ queue'[i] = packets[k]
  <2>1. CASE i <= Len(queue)
    BY <1>1, <1>3, <2>1
  <2>2. CASE ~(i <= Len(queue))
    <3>1. i - Len(queue) \in 1 .. Len(packets) /\ i = Len(queue) + (i - Len(queue))
      BY <1>1, <1>3, <2>2
    <3>2. QED
      BY <1>3, <3>1
  <2>3. QED
    BY <2>1, <2>2
<1>7. QueueOrder'
  <2>1. \A i \in 1 .. Len(queue') : IsReconnect(queue'[i]) => i = 1 /\ idx = 0
    BY <1>0, <1>6 DEF QueueOrder
  <2>2. ASSUME NEW i \in 1 .. Len(queue'), NEW j \in 1 .. Len(queue'), i < j
        PROVE  IsReconnect(queue'[i]) \/ queue'[i].msg_seq < queue'[j].msg_seq
    <3>1. CASE j \in 1 .. Len(queue) /\ queue'[j] = queue[j]
      <4>1. i \in 1 .. Len(queue) /\ queue'[i] = queue[i]
        BY <1>1, <1>3, <2>2, <3>1
      <4>2. QED
        BY <1>0, <2>2, <3>1, <4>1 DEF QueueOrder
    <3>2. ASSUME NEW k \in 1 .. Len(packets), j = Len(queue) + k, queue'[j] = packets[k]
          PROVE  IsReconnect(queue'[i]) \/ queue'[i].msg_seq < queue'[j].msg_seq
      <4>1. CASE i \in 1 .. Len(queue) /\ queue'[i] = queue[i]
        BY <3>2, <4>1
      <4>2. ASSUME NEW h \in 1 .. Len(packets), i = Len(queue) + h, queue'[i] = packets[h]
            PROVE  queue'[i].msg_seq < queue'[j].msg_seq
        <5>1. h < k
          BY <1>1, <2>2, <3>2, <4>2
        <5>2. QED
          BY <3>2, <4>2, <5>1
      <4>3. QED
        BY <1>6, <4>1, <4>2
    <3>3. QED
      BY <1>6, <3>1, <3>2
  <2>3. idx <= Len(queue')
    BY <1>1, <1>3, <1>4
  <2>4. writing' => idx < Len(queue')
    <3>1. idx < Len(queue) + Len(packets)
      BY <1>1, <1>4, <1>5
    <3>2. QED
      BY <1>3, <3>1
  <2>5. idx' = idx /\ ~(numbered' # NoPacket)
    OBVIOUS
  <2>6. QED
    BY <2>1, <2>2, <2>3, <2>4, <2>5, Zenon DEF QueueOrder
<1>8. CASE /\ up' = up /\ (writing' => writing)
           /\ idx < Len(queue) => writing' = writing
  <2>1. FreshOK' /\ OwnPlain' /\ GaplessOK' /\ Stream(conn)' = Stream(conn)
    BY <1>0, <1>8, StreamsFrame
  <2>2. /\ Mark' = Mark /\ Sent' = Sent
        /\ Fresh(conn)' <=> Fresh(conn)
        /\ link_session' = link_session
    <3>1. Fresh(conn)' <=> Fresh(conn)
      BY DEF server, Fresh, Own
    <3>2. QED
      BY <3>1, ServerFrame, SentFrame DEF server
  <2>3. /\ Written' <= Written /\ Written' \in Int /\ Written \in Int /\ Written <= Len(queue)
    <3>1. Written \in Int /\ Written <= Len(queue)
      BY <1>0, WrittenTypes
    <3>2. CASE writing'
      <4>1. Written' = Written
        BY <1>8, <3>2, Zenon DEF Written
      <4>2. QED
        BY <3>1, <4>1
    <3>3. CASE ~writing'
      <4>1. Written' = idx
        BY <3>3, Zenon DEF Written
      <4>2. idx <= Written
        BY <1>0, WrittenTypes
      <4>3. QED
        BY <1>4, <3>1, <4>1, <4>2
    <3>4. QED
      BY <3>2, <3>3
  <2>4. WrittenOK'
    <3>1. SUFFICES ASSUME state = "Connected", link_session[conn] # 0,
                          NEW j \in 1 .. Len(queue'), j <= Written', queue'[j].msg_seq \in Sent
                   PROVE  queue'[j].msg_seq <= Mark \/ In(queue'[j].msg_seq, Stream(conn))
      BY <2>1, <2>2, Zenon DEF WrittenOK
    <3>2. j \in 1 .. Len(queue) /\ j <= Written
      BY <1>1, <1>3, <2>3, <3>1
    <3>3. QED
      BY <1>0, <1>3, <3>1, <3>2 DEF WrittenOK
  <2>5. SilentOK'
    <3>1. SUFFICES ASSUME state = "Connected", Fresh(conn), Stream(conn) = <<>>
                   PROVE  ~writing' /\ idx < Len(queue')
      BY <2>1, <2>2, Zenon DEF SilentOK
    <3>2. ~writing /\ idx < Len(queue)
      BY <1>0, <3>1, Zenon DEF SilentOK
    <3>3. idx < Len(queue')
      BY <1>1, <1>3, <1>4, <3>2
    <3>4. QED
      BY <1>8, <3>2, <3>3, Zenon
  <2>6. QED
    BY <1>3, <1>7, <1>8, <2>1, <2>4, <2>5
<1>9. CASE /\ idx = Len(queue) /\ state = "Connected" /\ writing' = TRUE
           /\ up' = [up EXCEPT ![conn] = Append(@, packets[1])]
  <2>1. conn \in Keys /\ conn \in Nat /\ conn # 0
    BY <1>0, <1>9 DEF TInv, Stages, TypeOK, Keys
  <2>2. Written = Len(queue)
    <3>1. ~writing
      BY <1>1, <1>4, <1>9
    <3>2. QED
      BY <1>9, <3>1, Zenon DEF Written
  <2>3. ASSUME link_session[conn] # 0, NEW m \in Sent, m < packets[1].msg_seq
        PROVE  m <= Mark \/ In(m, Stream(conn))
    <3>1. CASE In(m, queue)
      <4>1. PICK j \in 1 .. Len(queue) : queue[j].msg_seq = m
        BY <3>1 DEF In
      <4>2. j <= Written
        BY <2>2, <4>1
      <4>3. QED
        BY <1>0, <1>9, <2>3, <4>1, <4>2 DEF WrittenOK
    <3>2. QED
      BY <2>3, <3>1
  <2>4. Fresh(conn) => Stream(conn) # <<>>
    <3>1. ~(idx < Len(queue))
      BY <1>1, <1>9
    <3>2. QED
      BY <1>0, <1>9, <3>1, Zenon DEF SilentOK
  <2>5. ~IsReconnect(packets[1])
    BY <1>1
  <2>6. /\ FreshOK' /\ OwnPlain' /\ GaplessOK'
        /\ link_session[conn] # 0 => Stream(conn)' = Append(Stream(conn), packets[1])
    BY <1>0, <1>1, <1>9, <2>1, <2>3, <2>4, <2>5, Writes
  <2>7. /\ Mark' = Mark /\ Sent' = Sent
        /\ Fresh(conn)' <=> Fresh(conn)
        /\ link_session' = link_session
    <3>1. Fresh(conn)' <=> Fresh(conn)
      BY DEF server, Fresh, Own
    <3>2. QED
      BY <3>1, ServerFrame, SentFrame DEF server
  <2>8. link_session[conn] # 0 => Stream(conn) \in Seq(PacketRecord)
    BY <1>0, <2>1, StreamTypes
  <2>9. WrittenOK'
    <3>1. SUFFICES ASSUME link_session[conn] # 0, NEW j \in 1 .. Len(queue'), j <= Written',
                          queue'[j].msg_seq \in Sent
                   PROVE  \/ queue'[j].msg_seq <= Mark
                          \/ In(queue'[j].msg_seq, Append(Stream(conn), packets[1]))
      BY <2>6, <2>7, Zenon DEF WrittenOK
    <3>2. Written' = Len(queue) + 1
      BY <1>9, Zenon DEF Written
    <3>3. CASE j <= Len(queue)
      <4>1. j \in 1 .. Len(queue) /\ queue'[j] = queue[j] /\ j <= Written
        BY <1>1, <1>3, <2>2, <3>3
      <4>2. queue[j].msg_seq <= Mark \/ In(queue[j].msg_seq, Stream(conn))
        BY <1>0, <1>9, <3>1, <4>1 DEF WrittenOK
      <4>3. QED
        BY <1>1, <2>8, <3>1, <4>1, <4>2, InAppend
    <3>4. CASE ~(j <= Len(queue))
      <4>1. j = Len(queue) + 1
        BY <1>1, <1>3, <3>1, <3>2, <3>4
      <4>2. queue'[j] = packets[1]
        BY <1>1, <1>3, <4>1
      <4>3. QED
        BY <1>1, <2>8, <3>1, <4>2, InAppend
    <3>5. QED
      BY <3>3, <3>4
  <2>10. SilentOK'
    <3>1. Fresh(conn) => Append(Stream(conn), packets[1]) # <<>> /\ link_session[conn] # 0
      <4>1. Fresh(conn) => link_session[conn] # 0
        BY <2>1 DEF Fresh
      <4>2. QED
        BY <1>1, <2>8, <4>1, AppendProperties
    <3>2. QED
      BY <2>6, <2>7, <3>1, Zenon DEF SilentOK
  <2>11. \A c \in Keys : c > conn => up'[c] = up[c]
    BY <1>0, <1>9, <2>1, FirstKey DEF TypeOK
  <2>12. QED
    BY <1>3, <1>7, <2>6, <2>9, <2>10, <2>11
<1>10. QED
  BY <1>5, <1>8, <1>9, Zenon

LEMMA FitsMonotonic ==
    ASSUME NEW S, NEW T, S \subseteq T
    PROVE  Seq(S) \subseteq Seq(T) /\ [Keys -> Seq(S)] \subseteq [Keys -> Seq(T)]
<1>1. \A q \in Seq(S) : q \in Seq(T)
  BY SeqMonotonic
<1>2. QED
  BY <1>1

LEMMA WireFitsGrow ==
    ASSUME NEW n, WireFits(n), Fits(n) \subseteq Fits(n)', UNCHANGED <<up, recv_packet>>
    PROVE  WireFits(n)'
<1>1. [Keys -> Seq(Fits(n))] \subseteq [Keys -> Seq(Fits(n)')]
  BY FitsMonotonic
<1>2. QED
  BY <1>1 DEF WireFits

LEMMA StreamFits ==
    ASSUME TypeOK, NEW n, WireFits(n), NEW c \in Keys, link_session[c] # 0
    PROVE  Stream(c) \in Seq(Fits(n))
<1>1. link_session[c] \in Keys
  BY StreamTypes
<1>2. recv_packet[link_session[c]] \in Seq(Fits(n)) /\ up[c] \in Seq(Fits(n))
  BY <1>1 DEF WireFits
<1>3. QED
  BY <1>2, ConcatProperties DEF Stream

LEMMA FitsNumbers ==
    ASSUME TypeOK, NEW n, NEW q \in Seq(Fits(n))
    PROVE  \A i \in 1 .. Len(q) : q[i] \in Fits(n) /\ q[i].msg_seq \in Nat /\ q[i].msg_seq <= msg_seq
<1>1. \A i \in 1 .. Len(q) : q[i] \in Fits(n)
  BY ElementOfSeq
<1>2. \A p \in Fits(n) : p.msg_seq \in Nat /\ p.msg_seq <= msg_seq
  BY DEF Fits, PacketRecord
<1>3. QED
  BY <1>1, <1>2

LEMMA NumbersGrowKept ==
    ASSUME TypeOK, NumbersGrow, UNCHANGED <<sent, session_seq>>,
           msg_seq' = msg_seq \/ msg_seq' = msg_seq + 1
    PROVE  NumbersGrow'
<1>1. msg_seq \in Nat /\ sent \in Seq(Nat) /\ \A s \in Keys : session_seq[s] \in Nat
  BY DEF TypeOK
<1>2. CASE msg_seq' = msg_seq
  BY <1>2 DEF NumbersGrow
<1>3. CASE msg_seq' = msg_seq + 1
  <2>1. \A i \in DOMAIN sent : sent[i] \in 1 .. msg_seq + 1
    BY <1>1 DEF NumbersGrow
  <2>2. \A s \in Keys : session_seq[s] <= msg_seq + 1
    BY <1>1 DEF NumbersGrow
  <2>3. QED
    BY <1>3, <2>1, <2>2 DEF NumbersGrow
<1>4. QED
  BY <1>2, <1>3

LEMMA SendMsgGood ==
    ASSUME TInv, NEW n \in Nat, Good(n), NEW reliable \in BOOLEAN, SendMsg(reliable)
    PROVE  Good(n)'
<1>0. TypeOK
  BY DEF TInv
<1>1. /\ n <= msg_seq /\ NumbersGrow /\ ClientFits(n) /\ WireFits(n)
      /\ Unconnected /\ Unused /\ SessionsOK(n)
      /\ FreshOK /\ UsedOK(n) /\ OwnPlain /\ GaplessOK
      /\ QueueOrder /\ AcksOK /\ PrefixOK /\ QueuedOK /\ WrittenOK /\ SilentOK
  BY Zenon DEF Good
<1>2. /\ numbered = NoPacket /\ msg_seq' = msg_seq + 1
      /\ numbered' = Packet("Message", msg_seq + 1, reliable)
      /\ state' = "Connected" => state = "Connected"
      /\ UNCHANGED <<conn, queue, idx, writing, known, events, crashed, up, down, server, spoiled>>
  BY DEF SendMsg
<1>3. UNCHANGED <<link_session, session_seq, recv_packet, session_token, sessions, reading, handled>>
  BY <1>2 DEF server
<1>4. \/ reliable /\ sent' = Append(sent, msg_seq + 1) /\ Sent' = Sent \cup {msg_seq + 1}
      \/ ~reliable /\ sent' = sent /\ Sent' = Sent
  <2>1. CASE reliable
    <3>1. sent' = Append(sent, msg_seq + 1)
      BY <2>1, Zenon DEF SendMsg
    <3>2. msg_seq + 1 \in Nat
      BY <1>0 DEF TypeOK
    <3>3. QED
      BY <1>0, <2>1, <3>1, <3>2, SentGrows
  <2>2. CASE ~reliable
    <3>1. sent' = sent
      BY <2>2, Zenon DEF SendMsg
    <3>2. QED
      BY <2>2, <3>1, SentFrame
  <2>3. QED
    BY <2>1, <2>2
<1>5. msg_seq \in Nat /\ msg_seq + 1 \notin Sent /\ n \in Nat
  BY <1>0, <1>1, NotSentYet DEF TypeOK
<1>6. Fits(n) \subseteq Fits(n)'
  BY <1>0, <1>1, <1>2, <1>4, FitsGrow
<1>7. Mark' = Mark /\ OwnHandled' = OwnHandled /\ \A c : Fresh(c)' <=> Fresh(c)
  BY <1>2, ServerFrame
<1>8. Mark \in Nat /\ Mark <= msg_seq
  BY <1>0, <1>1, MarkTypes
<1>9. n <= msg_seq'
  BY <1>1, <1>2, <1>5
<1>10. NumbersGrow'
  <2>1. CASE sent' = sent
    BY <1>0, <1>1, <1>2, <1>3, <2>1, NumbersGrowKept
  <2>2. CASE sent' = Append(sent, msg_seq + 1)
    <3>1. /\ sent \in Seq(Nat) /\ Len(sent) \in Nat /\ DOMAIN sent = 1 .. Len(sent)
          /\ DOMAIN sent' = 1 .. Len(sent) + 1
          /\ \A i \in 1 .. Len(sent) : sent'[i] = sent[i]
          /\ sent'[Len(sent) + 1] = msg_seq + 1
      BY <1>0, <1>5, <2>2, AppendProperties, LenProperties DEF TypeOK
    <3>2. \A i \in 1 .. Len(sent) : sent[i] \in 1 .. msg_seq
      BY <1>1, <3>1 DEF NumbersGrow
    <3>3. ASSUME NEW i \in 1 .. Len(sent) + 1 PROVE sent'[i] \in 1 .. msg_seq + 1
      BY <1>5, <3>1, <3>2
    <3>4. ASSUME NEW i \in 1 .. Len(sent) + 1, NEW j \in 1 .. Len(sent) + 1, i < j
          PROVE  sent'[i] < sent'[j]
      <4>1. i \in 1 .. Len(sent) /\ sent'[i] = sent[i] /\ sent[i] \in 1 .. msg_seq
        BY <3>1, <3>2, <3>4
      <4>2. CASE j = Len(sent) + 1
        BY <1>5, <3>1, <4>1, <4>2
      <4>3. CASE j \in 1 .. Len(sent)
        BY <1>1, <3>1, <3>4, <4>1, <4>3 DEF NumbersGrow
      <4>4. QED
        BY <3>1, <4>2, <4>3
    <3>5. \A s \in Keys : session_seq[s] <= msg_seq + 1
      BY <1>0, <1>1, <1>5 DEF NumbersGrow, TypeOK
    <3>6. QED
      BY <1>2, <1>3, <3>1, <3>3, <3>4, <3>5 DEF NumbersGrow
  <2>3. QED
    BY <1>4, <2>1, <2>2
<1>11. ClientFits(n)'
  <2>1. queue' \in Seq(Fits(n)')
    BY <1>1, <1>2, <1>6, FitsMonotonic DEF ClientFits
  <2>2. numbered' \in Fits(n)'
    <3>1. msg_seq + 1 \in Sent' <=> "Message" = "Message" /\ reliable
      BY <1>4, <1>5
    <3>2. QED
      BY <1>0, <1>1, <1>2, <3>1, NumberedFits
  <2>3. numbered'.msg_id = "Message"
    BY <1>2 DEF Packet
  <2>4. QED
    BY <2>1, <2>2, <2>3, Zenon DEF ClientFits
<1>12. WireFits(n)'
  BY <1>1, <1>2, <1>3, <1>6, WireFitsGrow
<1>13. Unconnected'
  BY <1>1, <1>2, Zenon DEF Unconnected
<1>14. Unused'
  BY <1>1, <1>2, UnusedFrame
<1>15. SessionsOK(n)' /\ UsedOK(n)'
  BY <1>1, <1>2, SessionsFrame
<1>16. \A c : Stream(c)' = Stream(c)
  BY <1>2, <1>3 DEF Stream
<1>17. FreshOK' /\ OwnPlain'
  <2>1. FreshOK'
    BY <1>1, <1>3, <1>7, <1>16, Zenon DEF FreshOK
  <2>2. Own' <=> Own
    BY <1>3 DEF Own
  <2>3. OwnPlain'
    BY <1>1, <1>3, <1>16, <2>2, Zenon DEF OwnPlain
  <2>4. QED
    BY <2>1, <2>3
<1>18. GaplessOK'
  <2>1. SUFFICES ASSUME NEW c \in Keys, link_session[c] # 0
                 PROVE  Gapless(Stream(c), Sent', Mark)
    BY <1>3, <1>7, <1>16, Zenon DEF GaplessOK
  <2>2. Stream(c) \in Seq(PacketRecord) /\ Gapless(Stream(c), Sent, Mark)
    BY <1>0, <1>1, <2>1, StreamTypes DEF GaplessOK
  <2>3. \A i \in 1 .. Len(Stream(c)) : Stream(c)[i].msg_seq \in Nat /\ Stream(c)[i].msg_seq <= msg_seq
    BY <1>0, <1>1, <2>1, StreamFits, FitsNumbers
  <2>4. \A m \in Sent' : m \in Sent \/ \A i \in 1 .. Len(Stream(c)) : ~(m < Stream(c)[i].msg_seq)
    BY <1>4, <1>5, <2>3
  <2>5. QED
    BY <2>2, <2>4, StreamSent
<1>19. QueueOrder'
  <2>1. \A i \in 1 .. Len(queue) : queue[i].msg_seq < numbered'.msg_seq
    <3>1. \A i \in 1 .. Len(queue) : queue[i].msg_seq \in Nat /\ queue[i].msg_seq <= msg_seq
      BY <1>0, <1>1, FitsNumbers DEF ClientFits
    <3>2. numbered'.msg_seq = msg_seq + 1
      BY <1>2 DEF Packet
    <3>3. QED
      BY <1>5, <3>1, <3>2
  <2>2. QED
    BY <1>1, <1>2, <2>1, Zenon DEF QueueOrder
<1>20. AcksOK'
  BY <1>1, <1>2, <1>7, Zenon DEF AcksOK
<1>21. PrefixOK'
  <2>1. CASE sent' = sent
    BY <1>1, <1>2, <2>1, PrefixFrame
  <2>2. CASE sent' = Append(sent, msg_seq + 1)
    <3>1. /\ sent \in Seq(Nat) /\ Len(sent) \in Nat /\ DOMAIN sent = 1 .. Len(sent)
          /\ DOMAIN sent' = 1 .. Len(sent) + 1 /\ Len(sent') = Len(sent) + 1
          /\ \A i \in 1 .. Len(sent) : sent'[i] = sent[i]
          /\ sent'[Len(sent) + 1] = msg_seq + 1
      BY <1>0, <1>5, <2>2, AppendProperties, LenProperties DEF TypeOK
    <3>2. /\ OwnHandled \in Seq(Nat) /\ Len(OwnHandled) \in Nat
          /\ DOMAIN OwnHandled = 1 .. Len(OwnHandled)
      <4>1. OwnHandled \in Seq(Nat)
        BY <1>0, FirstKey DEF TypeOK, OwnHandled
      <4>2. QED
        BY <4>1, LenProperties
    <3>3. Len(OwnHandled) <= Len(sent)
      <4>1. CASE Len(OwnHandled) = 0
        BY <3>1, <4>1
      <4>2. CASE Len(OwnHandled) # 0
        <5>1. Len(OwnHandled) \in DOMAIN OwnHandled
          BY <3>2, <4>2
        <5>2. QED
          BY <1>1, <5>1 DEF PrefixOK
      <4>3. QED
        BY <4>1, <4>2
    <3>4. ASSUME NEW k \in 1 .. Len(sent) + 1
          PROVE  sent'[k] <= Mark <=> k <= Len(OwnHandled)
      <4>1. CASE k \in 1 .. Len(sent)
        BY <1>1, <3>1, <4>1 DEF PrefixOK
      <4>2. CASE k = Len(sent) + 1
        BY <1>5, <1>8, <3>1, <3>2, <3>3, <4>2
      <4>3. QED
        BY <3>1, <4>1, <4>2
    <3>5. ASSUME NEW k \in DOMAIN OwnHandled
          PROVE  k <= Len(sent) + 1 /\ OwnHandled[k] = sent'[k]
      <4>1. k <= Len(sent) /\ OwnHandled[k] = sent[k] /\ k \in 1 .. Len(sent)
        BY <1>1, <3>1, <3>2 DEF PrefixOK
      <4>2. QED
        BY <3>1, <4>1
    <3>6. QED
      BY <1>7, <3>1, <3>4, <3>5, Zenon DEF PrefixOK
  <2>3. QED
    BY <1>4, <2>1, <2>2
<1>22. QueuedOK'
  <2>1. numbered'.msg_seq = msg_seq + 1 /\ numbered' # NoPacket
    BY <1>2 DEF Packet, NoPacket
  <2>2. ASSUME NEW m \in Sent PROVE In(m, queue) \/ m <= Mark
    BY <1>1, <1>2 DEF QueuedOK
  <2>3. ASSUME NEW m \in Sent'
        PROVE  In(m, queue) \/ (numbered' # NoPacket /\ numbered'.msg_seq = m) \/ m <= Mark
    BY <1>4, <2>1, <2>2
  <2>4. QED
    BY <1>2, <1>7, <2>3, Zenon DEF QueuedOK
<1>23. WrittenOK'
  <2>1. SUFFICES ASSUME state = "Connected", link_session[conn] # 0,
                        NEW j \in 1 .. Len(queue), j <= Written, queue[j].msg_seq \in Sent'
                 PROVE  queue[j].msg_seq <= Mark \/ In(queue[j].msg_seq, Stream(conn))
    <3>1. Written' = Written
      BY <1>2 DEF Written
    <3>2. QED
      BY <1>2, <1>3, <1>7, <1>16, <3>1, Zenon DEF WrittenOK
  <2>2. queue[j].msg_seq \in Nat /\ queue[j].msg_seq <= msg_seq
    BY <1>0, <1>1, FitsNumbers DEF ClientFits
  <2>3. queue[j].msg_seq \in Sent
    BY <1>4, <1>5, <2>1, <2>2
  <2>4. QED
    BY <1>1, <2>1, <2>3 DEF WrittenOK
<1>24. SilentOK'
  BY <1>1, <1>2, <1>7, <1>16, Zenon DEF SilentOK
<1>25. QED
  BY <1>9, <1>10, <1>11, <1>12, <1>13, <1>14, <1>15, <1>17, <1>18, <1>19, <1>20, <1>21, <1>22,
     <1>23, <1>24, Zenon DEF Good

LEMMA EnqueueGood ==
    ASSUME TInv, NEW n \in Nat, Good(n),
           NEW packets \in Seq(PacketRecord), packets # <<>>, packets \in Seq(Fits(n)'),
           SendPackets(packets, state, conn),
           UNCHANGED <<state, conn, idx, server, sent, down, events>>, numbered' = NoPacket,
           msg_seq' = msg_seq \/ msg_seq' = msg_seq + 1,
           conn = 0 => \A i \in 1 .. Len(packets) : packets[i].msg_id = "Message",
           \A i \in 1 .. Len(packets) : ~IsReconnect(packets[i]),
           \A i \in 1 .. Len(packets), j \in 1 .. Len(queue) :
               IsReconnect(queue[j]) \/ queue[j].msg_seq < packets[i].msg_seq,
           \A i, j \in 1 .. Len(packets) : i < j => packets[i].msg_seq < packets[j].msg_seq,
           \A m \in Sent : m < packets[1].msg_seq => In(m, queue) \/ m <= Mark,
           \A m \in Sent : In(m, queue) \/ In(m, packets) \/ m <= Mark
    PROVE  Good(n)'
<1>0. TypeOK
  BY DEF TInv
<1>1. /\ n <= msg_seq /\ NumbersGrow /\ ClientFits(n) /\ WireFits(n)
      /\ Unconnected /\ Unused /\ SessionsOK(n)
      /\ FreshOK /\ UsedOK(n) /\ OwnPlain /\ GaplessOK
      /\ QueueOrder /\ AcksOK /\ PrefixOK /\ QueuedOK /\ WrittenOK /\ SilentOK
  BY Zenon DEF Good
<1>2. /\ FreshOK' /\ OwnPlain' /\ GaplessOK' /\ QueueOrder' /\ WrittenOK' /\ SilentOK'
      /\ \A c \in Keys : c > conn => up'[c] = up[c]
      /\ \A i \in 1 .. Len(queue) : queue'[i] = queue[i]
      /\ \A i \in 1 .. Len(packets) : queue'[Len(queue) + i] = packets[i]
      /\ Len(queue') = Len(queue) + Len(packets)
  BY Enqueue
<1>3. Len(queue) \in Nat /\ Len(packets) \in Nat /\ queue \in Seq(PacketRecord)
  BY <1>0, QueueTypes, LenProperties
<1>4. Fits(n) \subseteq Fits(n)'
  BY <1>0, <1>1, FitsGrow
<1>5. n <= msg_seq'
  <2>1. msg_seq \in Nat
    BY <1>0 DEF TypeOK
  <2>2. QED
    BY <1>1, <2>1
<1>6. UNCHANGED <<session_seq, recv_packet>>
  BY DEF server
<1>7. NumbersGrow'
  BY <1>0, <1>1, <1>6, NumbersGrowKept
<1>8. queue' \in Seq(Fits(n)') /\ up' \in [Keys -> Seq(Fits(n)')]
  <2>1. queue \in Seq(Fits(n)') /\ up \in [Keys -> Seq(Fits(n)')] /\ writing \in BOOLEAN
    <3>1. queue \in Seq(Fits(n)')
      BY <1>1, <1>4, FitsMonotonic DEF ClientFits
    <3>2. up \in [Keys -> Seq(Fits(n)')]
      BY <1>1, <1>4, FitsMonotonic DEF WireFits
    <3>3. writing \in BOOLEAN
      BY <1>0, Zenon DEF TypeOK
    <3>4. QED
      BY <3>1, <3>2, <3>3
  <2>2. QED
    BY <2>1, SendPacketsIn
<1>9. ClientFits(n)'
  BY <1>8, Zenon DEF ClientFits
<1>10. WireFits(n)'
  <2>1. recv_packet \in [Keys -> Seq(Fits(n)')]
    BY <1>1, <1>4, FitsMonotonic DEF WireFits
  <2>2. QED
    BY <1>6, <1>8, <2>1 DEF WireFits
<1>11. Unconnected'
  <2>1. SUFFICES ASSUME conn = 0
                 PROVE  /\ idx = 0 /\ ~writing' /\ events = <<>>
                        /\ \A i \in DOMAIN queue' : queue'[i].msg_id = "Message"
    BY Zenon DEF Unconnected
  <2>2. /\ idx = 0 /\ ~writing /\ events = <<>>
        /\ \A i \in DOMAIN queue : queue[i].msg_id = "Message"
    BY <1>1, <2>1, Zenon DEF Unconnected
  <2>3. state # "Connected"
    BY <2>1 DEF TInv, Stages
  <2>4. writing' = writing
    BY <2>3, Zenon DEF SendPackets
  <2>5. DOMAIN queue = 1 .. Len(queue) /\ DOMAIN queue' = 1 .. Len(queue) + Len(packets)
    BY <1>2, <1>3, <1>8, LenProperties
  <2>6. ASSUME NEW i \in 1 .. Len(queue) + Len(packets) PROVE queue'[i].msg_id = "Message"
    <3>1. CASE i <= Len(queue)
      BY <1>2, <1>3, <2>2, <2>5, <3>1
    <3>2. CASE ~(i <= Len(queue))
      <4>1. i - Len(queue) \in 1 .. Len(packets) /\ i = Len(queue) + (i - Len(queue))
        BY <1>3, <3>2
      <4>2. QED
        BY <1>2, <2>1, <4>1
    <3>3. QED
      BY <3>1, <3>2
  <2>7. QED
    BY <2>2, <2>4, <2>5, <2>6
<1>12. Unused'
  BY <1>1, <1>2, UnusedFrame
<1>13. SessionsOK(n)' /\ UsedOK(n)'
  BY <1>1, SessionsFrame
<1>14. AcksOK'
  BY <1>1, ServerFrame, Zenon DEF AcksOK
<1>15. PrefixOK'
  BY <1>1, PrefixFrame
<1>16. QueuedOK'
  <2>1. ASSUME NEW m \in Sent PROVE In(m, queue') \/ m <= Mark
    <3>1. CASE In(m, queue)
      <4>1. PICK i \in 1 .. Len(queue) : queue[i].msg_seq = m
        BY <3>1 DEF In
      <4>2. i \in 1 .. Len(queue') /\ queue'[i].msg_seq = m
        BY <1>2, <1>3, <4>1
      <4>3. QED
        BY <4>2 DEF In
    <3>2. CASE In(m, packets)
      <4>1. PICK i \in 1 .. Len(packets) : packets[i].msg_seq = m
        BY <3>2 DEF In
      <4>2. Len(queue) + i \in 1 .. Len(queue') /\ queue'[Len(queue) + i].msg_seq = m
        BY <1>2, <1>3, <4>1
      <4>3. QED
        BY <4>2 DEF In
    <3>3. QED
      BY <3>1, <3>2
  <2>2. QED
    BY <2>1, ServerFrame, SentFrame, Zenon DEF QueuedOK
<1>17. QED
  BY <1>2, <1>5, <1>7, <1>9, <1>10, <1>11, <1>12, <1>13, <1>14, <1>15, <1>16, Zenon DEF Good

LEMMA SendMsgQueuesGood ==
    ASSUME TInv, NEW n \in Nat, Good(n), SendMsgQueues
    PROVE  Good(n)'
<1>0. TypeOK
  BY DEF TInv
<1>1. NumbersGrow /\ ClientFits(n) /\ QueueOrder /\ QueuedOK /\ n <= msg_seq
  BY Zenon DEF Good
<1>2. /\ numbered # NoPacket /\ numbered \in Fits(n) /\ numbered \in PacketRecord
      /\ numbered.msg_id = "Message" /\ numbered.msg_seq \in Nat /\ numbered.msg_seq <= msg_seq
      /\ msg_seq \in Nat
  <2>1. numbered # NoPacket
    BY Zenon DEF SendMsgQueues
  <2>2. numbered \in Fits(n) /\ numbered.msg_id = "Message" /\ msg_seq \in Nat
    BY <1>0, <1>1, <2>1 DEF ClientFits, TypeOK
  <2>3. QED
    BY <2>1, <2>2 DEF Fits, PacketRecord
<1>3. UNCHANGED <<state, conn, idx, events, down, server, sent>> /\ numbered' = NoPacket
  BY Zenon DEF SendMsgQueues
<1>4. ~IsReconnect(numbered)
  BY <1>2 DEF IsReconnect
<1>5. \A j \in 1 .. Len(queue) : IsReconnect(queue[j]) \/ queue[j].msg_seq < numbered.msg_seq
  BY <1>1, <1>2, Zenon DEF QueueOrder
<1>6. \A m \in Sent : In(m, queue) \/ m = numbered.msg_seq \/ m <= Mark
  BY <1>1 DEF QueuedOK
<1>7. \A m \in Sent : m < numbered.msg_seq => In(m, queue) \/ m <= Mark
  <2>1. \A m \in Sent : m \in Nat
    BY <1>0, <1>1, SentTypes
  <2>2. QED
    BY <1>2, <1>6, <2>1
<1>8. CASE SendPackets(<<numbered>>, state, conn) /\ msg_seq' = msg_seq
  <2> DEFINE packets == <<numbered>>
  <2>1. Fits(n) \subseteq Fits(n)'
    BY <1>0, <1>1, <1>3, <1>8, FitsGrow
  <2>2. packets \in Seq(PacketRecord) /\ packets # <<>> /\ packets \in Seq(Fits(n)')
    BY <1>2, <2>1, Tuples
  <2>3. Len(packets) = 1 /\ packets[1] = numbered /\ \A i \in 1 .. Len(packets) : i = 1
    OBVIOUS
  <2>4. In(numbered.msg_seq, packets)
    BY <2>3 DEF In
  <2>5. SendPackets(packets, state, conn)
    BY <1>8
  <2> HIDE DEF packets
  <2>6. \A i \in 1 .. Len(packets) : packets[i] = numbered
    BY <2>3
  <2>7. \A i, j \in 1 .. Len(packets) : i < j => packets[i].msg_seq < packets[j].msg_seq
    BY <2>3
  <2>8. \A m \in Sent : In(m, queue) \/ In(m, packets) \/ m <= Mark
    BY <1>6, <2>4
  <2>9. \A m \in Sent : m < packets[1].msg_seq => In(m, queue) \/ m <= Mark
    BY <1>7, <2>3
  <2>10. /\ \A i \in 1 .. Len(packets) : ~IsReconnect(packets[i])
         /\ \A i \in 1 .. Len(packets), j \in 1 .. Len(queue) :
               IsReconnect(queue[j]) \/ queue[j].msg_seq < packets[i].msg_seq
         /\ conn = 0 => \A i \in 1 .. Len(packets) : packets[i].msg_id = "Message"
    BY <1>2, <1>4, <1>5, <2>6
  <2>11. QED
    BY <1>3, <1>8, <2>2, <2>5, <2>7, <2>8, <2>9, <2>10, EnqueueGood
<1>9. CASE /\ SendPackets(<<numbered, Packet("HeartBeat_Req", msg_seq + 1, TRUE)>>, state, conn)
           /\ msg_seq' = msg_seq + 1 /\ state = "Connected"
  <2> DEFINE hb == Packet("HeartBeat_Req", msg_seq + 1, TRUE)
             packets == <<numbered, hb>>
  <2>1. Fits(n) \subseteq Fits(n)'
    BY <1>0, <1>1, <1>3, <1>9, FitsGrow
  <2>2. hb \in Fits(n)' /\ hb \in PacketRecord /\ hb.msg_seq = msg_seq + 1 /\ ~IsReconnect(hb)
    <3>1. msg_seq + 1 \notin Sent'
      BY <1>0, <1>1, <1>3, NotSentYet, SentFrame
    <3>2. hb \in Fits(n)'
      BY <1>0, <1>1, <1>9, <3>1, NumberedFits
    <3>3. hb \in PacketRecord
      BY <1>0, NewPacket
    <3>4. QED
      BY <3>2, <3>3 DEF Packet, IsReconnect
  <2>3. SendPackets(packets, state, conn)
    BY <1>9
  <2> HIDE DEF hb
  <2>4. packets \in Seq(PacketRecord) /\ packets # <<>> /\ packets \in Seq(Fits(n)')
    BY <1>2, <2>1, <2>2, Tuples
  <2>5. /\ Len(packets) = 2 /\ packets[1] = numbered /\ packets[2] = hb
        /\ \A i \in 1 .. Len(packets) : i = 1 \/ i = 2
    OBVIOUS
  <2> HIDE DEF packets
  <2>6. In(numbered.msg_seq, packets)
    BY <2>5 DEF In
  <2>7. numbered.msg_seq < hb.msg_seq
    BY <1>2, <2>2
  <2>8. \A i, j \in 1 .. Len(packets) : i < j => packets[i].msg_seq < packets[j].msg_seq
    BY <2>5, <2>7
  <2>9. \A m \in Sent : In(m, queue) \/ In(m, packets) \/ m <= Mark
    BY <1>6, <2>6
  <2>10. \A m \in Sent : m < packets[1].msg_seq => In(m, queue) \/ m <= Mark
    BY <1>7, <2>5
  <2>11. conn # 0
    BY <1>9 DEF TInv, Stages
  <2>12. \A j \in 1 .. Len(queue) : IsReconnect(queue[j]) \/ queue[j].msg_seq < hb.msg_seq
    <3>1. \A j \in 1 .. Len(queue) : queue[j].msg_seq \in Nat /\ queue[j].msg_seq <= msg_seq
      BY <1>0, <1>1, FitsNumbers DEF ClientFits
    <3>2. QED
      BY <1>2, <2>2, <3>1
  <2>13. /\ \A i \in 1 .. Len(packets) : ~IsReconnect(packets[i])
         /\ \A i \in 1 .. Len(packets), j \in 1 .. Len(queue) :
               IsReconnect(queue[j]) \/ queue[j].msg_seq < packets[i].msg_seq
    BY <1>4, <1>5, <2>2, <2>5, <2>12
  <2>14. QED
    BY <1>3, <1>9, <2>3, <2>4, <2>8, <2>9, <2>10, <2>11, <2>13, EnqueueGood
<1>10. QED
  BY <1>8, <1>9, Zenon DEF SendMsgQueues

LEMMA HeartBeatGood ==
    ASSUME TInv, NEW n \in Nat, Good(n), Send_HeartBeat_Req, ~spoiled'
    PROVE  Good(n)'
<1>0. TypeOK
  BY DEF TInv
<1>1. NumbersGrow /\ ClientFits(n) /\ QueueOrder /\ QueuedOK /\ n <= msg_seq
  BY Zenon DEF Good
<1>2. /\ numbered = NoPacket /\ numbered' = NoPacket /\ msg_seq' = msg_seq + 1
      /\ state = "Connected" /\ UNCHANGED <<state, conn, idx, events, down, server, sent>>
      /\ SendPackets(<<Packet("HeartBeat_Req", msg_seq + 1, TRUE)>>, state, conn)
  BY Zenon DEF Send_HeartBeat_Req, Overtakes
<1> DEFINE hb == Packet("HeartBeat_Req", msg_seq + 1, TRUE)
           packets == <<hb>>
<1>3. hb \in Fits(n)' /\ hb \in PacketRecord /\ hb.msg_seq = msg_seq + 1 /\ ~IsReconnect(hb)
  <2>1. msg_seq + 1 \notin Sent'
    BY <1>0, <1>1, <1>2, NotSentYet, SentFrame
  <2>2. hb \in Fits(n)'
    BY <1>0, <1>1, <1>2, <2>1, NumberedFits
  <2>3. hb \in PacketRecord
    BY <1>0, NewPacket
  <2>4. QED
    BY <2>2, <2>3 DEF Packet, IsReconnect
<1>4. SendPackets(packets, state, conn)
  BY <1>2
<1> HIDE DEF hb
<1>5. packets \in Seq(PacketRecord) /\ packets # <<>> /\ packets \in Seq(Fits(n)')
  BY <1>3, Tuples
<1>6. Len(packets) = 1 /\ packets[1] = hb /\ \A i \in 1 .. Len(packets) : i = 1
  OBVIOUS
<1> HIDE DEF packets
<1>7. \A m \in Sent : In(m, queue) \/ m <= Mark
  BY <1>1, <1>2 DEF QueuedOK
<1>8. conn # 0
  BY <1>2 DEF TInv, Stages
<1>9. \A j \in 1 .. Len(queue) : queue[j].msg_seq < hb.msg_seq
  <2>1. \A j \in 1 .. Len(queue) : queue[j].msg_seq \in Nat /\ queue[j].msg_seq <= msg_seq
    BY <1>0, <1>1, FitsNumbers DEF ClientFits
  <2>2. msg_seq \in Nat
    BY <1>0 DEF TypeOK
  <2>3. QED
    BY <1>3, <2>1, <2>2
<1>10. /\ \A i \in 1 .. Len(packets) : ~IsReconnect(packets[i])
       /\ \A i \in 1 .. Len(packets), j \in 1 .. Len(queue) :
               IsReconnect(queue[j]) \/ queue[j].msg_seq < packets[i].msg_seq
       /\ \A i, j \in 1 .. Len(packets) : i < j => packets[i].msg_seq < packets[j].msg_seq
  BY <1>3, <1>6, <1>9
<1>11. QED
  BY <1>2, <1>4, <1>5, <1>7, <1>8, <1>10, EnqueueGood

\* The rest of the queue after a write: the packets that are left, in their order.
LEMMA CallbackQueue ==
    ASSUME TInv, NEW n \in Nat, Good(n), Callback_SendMsg, idx \in 0 .. Len(queue) - 1
    PROVE  /\ queue' \in Seq(PacketRecord) /\ Len(queue') \in Nat
           /\ idx' \in Int /\ 0 <= idx' /\ idx' <= Len(queue')
           /\ \A i \in 1 .. Len(queue') : ~IsReconnect(queue'[i])
           /\ \A i, j \in 1 .. Len(queue') : i < j => queue'[i].msg_seq < queue'[j].msg_seq
           /\ numbered # NoPacket =>
                 \A i \in 1 .. Len(queue') : queue'[i].msg_seq < numbered.msg_seq
           /\ \A m \in Sent : In(m, queue) => In(m, queue')
           /\ \A j \in 1 .. Len(queue') : j <= idx' =>
                 \E i \in 1 .. Len(queue) : i <= Written /\ queue'[j] = queue[i]
<1>0. TypeOK /\ ClientFits(n) /\ QueueOrder /\ writing
  BY Zenon DEF TInv, Good, Callback_SendMsg
<1>1. /\ queue \in Seq(PacketRecord) /\ Len(queue) \in Nat /\ idx \in Nat /\ idx < Len(queue)
      /\ \A i \in 1 .. Len(queue) : queue[i] \in PacketRecord /\ queue[i].msg_seq \in Nat
      /\ idx + 1 \in 1 .. Len(queue)
  BY <1>0, QueueTypes
<1>2. Written = idx + 1
  BY <1>0, Zenon DEF Written
<1>3. /\ \A i \in 1 .. Len(queue) : IsReconnect(queue[i]) => i = 1 /\ idx = 0
      /\ \A i, j \in 1 .. Len(queue) :
            i < j => IsReconnect(queue[i]) \/ queue[i].msg_seq < queue[j].msg_seq
      /\ numbered # NoPacket => \A i \in 1 .. Len(queue) :
            IsReconnect(queue[i]) \/ queue[i].msg_seq < numbered.msg_seq
  BY <1>0, Zenon DEF QueueOrder
<1>4. queue[idx + 1] \in Fits(n)
  BY <1>0, <1>1, ElementOfSeq DEF ClientFits
<1>5. CASE queue[idx + 1].reliable
  <2>1. idx' = idx + 1 /\ queue' = queue
    BY <1>5, Zenon DEF Callback_SendMsg
  <2>2. \A i \in 1 .. Len(queue) : ~IsReconnect(queue[i])
    <3>1. ~IsReconnect(queue[idx + 1])
      BY <1>4, <1>5, Zenon DEF Fits
    <3>2. SUFFICES ASSUME NEW i \in 1 .. Len(queue), IsReconnect(queue[i]) PROVE FALSE
      OBVIOUS
    <3>3. i = idx + 1
      BY <1>3, <3>2
    <3>4. QED
      BY <3>1, <3>2, <3>3
  <2>3. \A j \in 1 .. Len(queue') : j <= idx' =>
                 \E i \in 1 .. Len(queue) : i <= Written /\ queue'[j] = queue[i]
    BY <1>2, <2>1
  <2>4. idx + 1 \in Int /\ 0 <= idx + 1 /\ idx + 1 <= Len(queue)
    BY <1>1
  <2>5. QED
    BY <1>1, <1>3, <2>1, <2>2, <2>3, <2>4
<1>6. CASE ~queue[idx + 1].reliable
  <2>1. idx' = idx /\ queue' = RemoveAt(queue, idx + 1)
    BY <1>6, Zenon DEF Callback_SendMsg
  <2>2. /\ queue' \in Seq(PacketRecord) /\ Len(queue') = Len(queue) - 1
        /\ \A j \in 1 .. Len(queue) - 1 : queue'[j] = IF j < idx + 1 THEN queue[j] ELSE queue[j + 1]
    BY <1>1, <2>1, RemoveAtIn
  <2> DEFINE old(j) == IF j < idx + 1 THEN j ELSE j + 1
  <2>3. ASSUME NEW j \in 1 .. Len(queue')
        PROVE  old(j) \in 1 .. Len(queue) /\ queue'[j] = queue[old(j)] /\ old(j) # idx + 1
    BY <1>1, <2>2
  <2>4. ASSUME NEW i \in 1 .. Len(queue'), NEW j \in 1 .. Len(queue'), i < j
        PROVE  old(i) < old(j)
    BY <1>1, <2>2, <2>4
  <2>5. ASSUME NEW j \in 1 .. Len(queue'), j <= idx PROVE old(j) <= idx + 1
    BY <1>1, <2>5
  <2> HIDE DEF old
  <2>6. ASSUME NEW i \in 1 .. Len(queue') PROVE ~IsReconnect(queue'[i])
    <3>1. SUFFICES ASSUME IsReconnect(queue'[i]) PROVE FALSE
      OBVIOUS
    <3>2. old(i) = 1 /\ idx = 0
      BY <1>3, <2>3, <3>1
    <3>3. QED
      BY <2>3, <3>2
  <2>7. ASSUME NEW i \in 1 .. Len(queue'), NEW j \in 1 .. Len(queue'), i < j
        PROVE  queue'[i].msg_seq < queue'[j].msg_seq
    BY <1>3, <2>3, <2>4, <2>6, <2>7
  <2>8. numbered # NoPacket => \A i \in 1 .. Len(queue') : queue'[i].msg_seq < numbered.msg_seq
    BY <1>3, <2>3, <2>6
  <2>9. ASSUME NEW m \in Sent, In(m, queue) PROVE In(m, queue')
    <3>1. PICK j \in 1 .. Len(queue) : queue[j].msg_seq = m
      BY <2>9 DEF In
    <3>2. j # idx + 1
      <4>1. queue[idx + 1].msg_seq \notin Sent
        BY <1>4, <1>6, Zenon DEF Fits
      <4>2. QED
        BY <2>9, <3>1, <4>1
    <3>3. CASE j < idx + 1
      <4>1. j \in 1 .. Len(queue') /\ queue'[j] = queue[j]
        BY <1>1, <2>2, <3>3
      <4>2. QED
        BY <3>1, <4>1 DEF In
    <3>4. CASE ~(j < idx + 1)
      <4>1. /\ j - 1 \in 1 .. Len(queue) - 1 /\ ~(j - 1 < idx + 1) /\ (j - 1) + 1 = j
        BY <1>1, <3>2, <3>4
      <4>2. j - 1 \in 1 .. Len(queue') /\ queue'[j - 1] = queue[j]
        BY <2>2, <4>1
      <4>3. QED
        BY <3>1, <4>2 DEF In
    <3>5. QED
      BY <3>3, <3>4
  <2>10. \A j \in 1 .. Len(queue') : j <= idx' =>
                 \E i \in 1 .. Len(queue) : i <= Written /\ queue'[j] = queue[i]
    BY <1>2, <2>1, <2>3, <2>5
  <2>11. /\ idx' \in Int /\ 0 <= idx' /\ idx' <= Len(queue') /\ Len(queue') \in Nat
    <3>1. idx \in Int /\ 0 <= idx /\ idx <= Len(queue) - 1 /\ Len(queue) - 1 \in Nat
      BY <1>1
    <3>2. QED
      BY <2>1, <2>2, <3>1
  <2>12. QED
    BY <2>2, <2>6, <2>7, <2>8, <2>9, <2>10, <2>11
<1>7. QED
  BY <1>5, <1>6

LEMMA CallbackSendGood ==
    ASSUME TInv, NEW n \in Nat, Good(n), Callback_SendMsg
    PROVE  Good(n)'
<1>0. TypeOK
  BY DEF TInv
<1>1. /\ n <= msg_seq /\ NumbersGrow /\ ClientFits(n) /\ WireFits(n)
      /\ Unconnected /\ Unused /\ SessionsOK(n)
      /\ FreshOK /\ UsedOK(n) /\ OwnPlain /\ GaplessOK
      /\ QueueOrder /\ AcksOK /\ PrefixOK /\ QueuedOK /\ WrittenOK /\ SilentOK
  BY Zenon DEF Good
<1>2. writing /\ UNCHANGED <<state, conn, msg_seq, numbered, known, events, down, server, sent, spoiled>>
  BY Zenon DEF Callback_SendMsg
<1>3. UNCHANGED <<link_session, session_seq, recv_packet>>
  BY <1>2 DEF server
<1>4. conn # 0 /\ conn \in Keys
  <2>1. conn # 0
    BY <1>1, <1>2, Zenon DEF Unconnected
  <2>2. QED
    BY <1>0, <2>1 DEF TypeOK, Keys
<1>5. Fits(n)' = Fits(n) /\ n <= msg_seq'
  BY <1>1, <1>2, SentFrame, Zenon DEF Fits
<1>6. NumbersGrow'
  BY <1>0, <1>1, <1>2, <1>3, NumbersGrowKept
<1>7. queue' \in Seq(Fits(n)) /\ up' \in [Keys -> Seq(Fits(n))]
  <2>1. queue \in Seq(Fits(n)) /\ up \in [Keys -> Seq(Fits(n))] /\ writing \in BOOLEAN /\ idx \in Int
    BY <1>0, <1>1, Zenon DEF ClientFits, WireFits, TypeOK
  <2>2. QED
    BY <2>1, CallbackSendIn
<1>8. ClientFits(n)' /\ WireFits(n)'
  BY <1>1, <1>2, <1>3, <1>5, <1>7, Zenon DEF ClientFits, WireFits
<1>9. Unconnected'
  BY <1>2, <1>4, Zenon DEF Unconnected
<1>10. SessionsOK(n)' /\ UsedOK(n)' /\ PrefixOK'
  BY <1>1, <1>2, SessionsFrame, PrefixFrame
<1>11. AcksOK'
  BY <1>1, <1>2, ServerFrame, Zenon DEF AcksOK
<1>12. ~(state = "Connected" /\ Fresh(conn) /\ Stream(conn) = <<>>)
  BY <1>1, <1>2, Zenon DEF SilentOK
<1>13. Mark' = Mark /\ Sent' = Sent /\ (Fresh(conn)' <=> Fresh(conn))
  <2>1. Fresh(conn)' <=> Fresh(conn)
    BY <1>2 DEF server, Fresh, Own
  <2>2. QED
    BY <1>2, <2>1, ServerFrame, SentFrame
<1>14. CASE idx \notin 0 .. Len(queue) - 1
  <2>1. writing' = FALSE /\ UNCHANGED <<queue, idx, up>>
    BY <1>14, Zenon DEF Callback_SendMsg
  <2>2. FreshOK' /\ OwnPlain' /\ GaplessOK' /\ Stream(conn)' = Stream(conn)
    BY <1>1, <1>2, <2>1, StreamsFrame
  <2>3. Unused'
    BY <1>1, <1>2, <2>1, UnusedFrame
  <2>4. QueueOrder'
    BY <1>1, <1>2, <2>1, Zenon DEF QueueOrder
  <2>5. QueuedOK'
    BY <1>1, <1>2, <1>13, <2>1, Zenon DEF QueuedOK
  <2>6. WrittenOK'
    <3>1. Written' = idx /\ idx <= Written /\ Written \in Int /\ idx \in Int
      <4>1. Written' = idx
        BY <2>1, Zenon DEF Written
      <4>2. QED
        BY <1>0, <1>1, <4>1, WrittenTypes
    <3>2. SUFFICES ASSUME state = "Connected", link_session[conn] # 0,
                          NEW j \in 1 .. Len(queue), j <= idx, queue[j].msg_seq \in Sent
                   PROVE  queue[j].msg_seq <= Mark \/ In(queue[j].msg_seq, Stream(conn))
      BY <1>2, <1>3, <1>13, <2>1, <2>2, <3>1, Zenon DEF WrittenOK
    <3>3. j <= Written
      BY <3>1, <3>2
    <3>4. QED
      BY <1>1, <3>2, <3>3 DEF WrittenOK
  <2>7. SilentOK'
    BY <1>2, <1>12, <1>13, <2>2, Zenon DEF SilentOK
  <2>8. QED
    BY <1>5, <1>6, <1>8, <1>9, <1>10, <1>11, <2>2, <2>3, <2>4, <2>5, <2>6, <2>7, Zenon DEF Good
<1>15. CASE idx \in 0 .. Len(queue) - 1
  <2>1. /\ queue' \in Seq(PacketRecord) /\ Len(queue') \in Nat
        /\ idx' \in Int /\ 0 <= idx' /\ idx' <= Len(queue')
        /\ \A i \in 1 .. Len(queue') : ~IsReconnect(queue'[i])
        /\ \A i, j \in 1 .. Len(queue') : i < j => queue'[i].msg_seq < queue'[j].msg_seq
        /\ numbered # NoPacket =>
              \A i \in 1 .. Len(queue') : queue'[i].msg_seq < numbered.msg_seq
        /\ \A m \in Sent : In(m, queue) => In(m, queue')
        /\ \A j \in 1 .. Len(queue') : j <= idx' =>
              \E i \in 1 .. Len(queue) : i <= Written /\ queue'[j] = queue[i]
    BY <1>15, CallbackQueue
  <2>2. QueuedOK'
    <3>1. \A m \in Sent : In(m, queue') \/ (numbered # NoPacket /\ numbered.msg_seq = m) \/ m <= Mark
      BY <1>1, <2>1, Zenon DEF QueuedOK
    <3>2. QED
      BY <1>2, <1>13, <3>1, Zenon DEF QueuedOK
  <2>3. ASSUME writing' => idx' < Len(queue') PROVE QueueOrder'
    BY <1>2, <2>1, <2>3, Zenon DEF QueueOrder
  \* What was written is in the stream.
  <2>4. ASSUME state = "Connected", link_session[conn] # 0,
               NEW j \in 1 .. Len(queue'), j <= idx', queue'[j].msg_seq \in Sent
        PROVE  queue'[j].msg_seq <= Mark \/ In(queue'[j].msg_seq, Stream(conn))
    <3>1. PICK i \in 1 .. Len(queue) : i <= Written /\ queue'[j] = queue[i]
      BY <2>1, <2>4
    <3>2. QED
      BY <1>1, <2>4, <3>1 DEF WrittenOK
  <2>5. \/ /\ idx' < Len(queue') /\ state = "Connected"
           /\ writing' = TRUE /\ up' = [up EXCEPT ![conn] = Append(@, queue'[idx' + 1])]
        \/ writing' = FALSE /\ up' = up
    <3>1. \/ idx' < Len(queue') /\ state = "Connected" /\ BeginSend(queue'[idx' + 1], conn)
          \/ writing' = FALSE /\ UNCHANGED up
      BY <1>15, Zenon DEF Callback_SendMsg
    <3>2. QED
      BY <3>1, Zenon DEF BeginSend
  <2>6. CASE writing' = FALSE /\ up' = up
    <3>1. FreshOK' /\ OwnPlain' /\ GaplessOK' /\ Stream(conn)' = Stream(conn)
      BY <1>1, <1>2, <2>6, StreamsFrame
    <3>2. Unused'
      BY <1>1, <1>2, <2>6, UnusedFrame
    <3>3. QueueOrder'
      BY <2>3, <2>6
    <3>4. WrittenOK'
      <4>1. Written' = idx'
        BY <2>6, Zenon DEF Written
      <4>2. QED
        BY <1>2, <1>3, <1>13, <2>4, <3>1, <4>1, Zenon DEF WrittenOK
    <3>5. SilentOK'
      BY <1>2, <1>12, <1>13, <3>1, Zenon DEF SilentOK
    <3>6. QED
      BY <1>5, <1>6, <1>8, <1>9, <1>10, <1>11, <2>2, <3>1, <3>2, <3>3, <3>4, <3>5, Zenon DEF Good
  <2>7. CASE /\ idx' < Len(queue') /\ state = "Connected"
             /\ writing' = TRUE /\ up' = [up EXCEPT ![conn] = Append(@, queue'[idx' + 1])]
    <3> DEFINE k == idx' + 1
               x == queue'[k]
    <3>1. k \in 1 .. Len(queue') /\ \A j \in 1 .. Len(queue') : j < k => j <= idx'
      <4>1. \A i, l \in Int : 0 <= i /\ i < l => i + 1 \in 1 .. l /\ \A j \in 1 .. l : j < i + 1 => j <= i
        OBVIOUS
      <4>2. idx' \in Int /\ Len(queue') \in Int /\ 0 <= idx' /\ idx' < Len(queue')
        BY <2>1, <2>7
      <4>3. QED
        BY <4>1, <4>2, Zenon
    <3>2. up' = [up EXCEPT ![conn] = Append(@, x)]
      BY <2>7, Zenon
    <3>3. Written' = k
      BY <2>7, Zenon DEF Written
    <3> HIDE DEF k
    <3>4. x \in PacketRecord /\ ~IsReconnect(x) /\ x.msg_seq \in Nat
      <4>1. x \in PacketRecord
        BY <2>1, <3>1, ElementOfSeq
      <4>2. QED
        BY <2>1, <3>1, <4>1 DEF PacketRecord
    <3>5. ASSUME link_session[conn] # 0, NEW m \in Sent, m < x.msg_seq
          PROVE  m <= Mark \/ In(m, Stream(conn))
      <4>1. m \in Nat
        BY <1>0, <1>1, SentTypes
      <4>2. \/ m <= Mark \/ In(m, queue') \/ (numbered # NoPacket /\ numbered.msg_seq = m)
        BY <1>1, <2>1, Zenon DEF QueuedOK
      <4>3. CASE In(m, queue')
        <5>1. PICK j \in 1 .. Len(queue') : queue'[j].msg_seq = m
          BY <4>3 DEF In
        <5>2. j < k
          <6>1. j # k
            BY <3>4, <3>5, <4>1, <5>1
          <6>2. ~(k < j)
            <7>1. SUFFICES ASSUME k < j PROVE FALSE
              OBVIOUS
            <7>2. x.msg_seq < m
              BY <2>1, <3>1, <5>1, <7>1
            <7>3. QED
              BY <3>4, <3>5, <4>1, <7>2
          <6>3. k \in Int /\ j \in Int
            BY <3>1
          <6>4. QED
            BY <6>1, <6>2, <6>3
        <5>3. j <= idx'
          BY <3>1, <5>2
        <5>4. QED
          BY <2>4, <2>7, <3>5, <5>1, <5>3
      <4>4. CASE numbered # NoPacket /\ numbered.msg_seq = m
        <5>1. x.msg_seq < m
          BY <2>1, <3>1, <4>4
        <5>2. QED
          BY <3>4, <3>5, <4>1, <5>1
      <4>5. QED
        BY <4>2, <4>3, <4>4
    <3> HIDE DEF x
    <3>6. Fresh(conn) => Stream(conn) # <<>>
      BY <1>12, <2>7
    <3>7. /\ FreshOK' /\ OwnPlain' /\ GaplessOK'
          /\ link_session[conn] # 0 => Stream(conn)' = Append(Stream(conn), x)
      <4>1. \A d \in Keys : link_session[d] \in {0, 1, d}
        BY <1>1, Zenon DEF SessionsOK
      <4>2. QED
        BY <1>0, <1>1, <1>2, <1>4, <3>2, <3>4, <3>5, <3>6, <4>1, Writes
    <3>8. Unused'
      <4>1. \A c \in Keys : c > conn => up'[c] = up[c]
        BY <1>0, <1>4, <3>2, FirstKey DEF TypeOK
      <4>2. QED
        BY <1>1, <1>2, <4>1, UnusedFrame
    <3>9. QueueOrder'
      BY <2>3, <2>7
    <3>10. link_session[conn] # 0 => Stream(conn) \in Seq(PacketRecord)
      BY <1>0, <1>4, StreamTypes
    <3>11. WrittenOK'
      <4>1. SUFFICES ASSUME link_session[conn] # 0, NEW j \in 1 .. Len(queue'), j <= k,
                            queue'[j].msg_seq \in Sent
                     PROVE  \/ queue'[j].msg_seq <= Mark
                            \/ In(queue'[j].msg_seq, Append(Stream(conn), x))
        BY <1>2, <1>3, <1>13, <2>7, <3>3, <3>7, Zenon DEF WrittenOK
      <4>2. CASE j = k
        <5>1. In(x.msg_seq, Append(Stream(conn), x))
          BY <3>4, <3>10, <4>1, InAppend
        <5>2. QED
          BY <4>2, <5>1 DEF x
      <4>3. CASE j # k
        <5>1. j <= idx'
          BY <3>1, <4>1, <4>3
        <5>2. queue'[j].msg_seq <= Mark \/ In(queue'[j].msg_seq, Stream(conn))
          BY <2>4, <2>7, <4>1, <5>1
        <5>3. QED
          BY <3>4, <3>10, <4>1, <5>2, InAppend
      <4>4. QED
        BY <4>2, <4>3
    <3>12. SilentOK'
      <4>1. Fresh(conn) => link_session[conn] # 0
        BY <1>4 DEF Fresh
      <4>2. Fresh(conn) => Append(Stream(conn), x) # <<>>
        BY <3>4, <3>10, <4>1, AppendProperties
      <4>3. QED
        BY <1>2, <1>13, <3>7, <4>1, <4>2, Zenon DEF SilentOK
    <3>13. QED
      BY <1>5, <1>6, <1>8, <1>9, <1>10, <1>11, <2>2, <3>7, <3>8, <3>9, <3>11, <3>12, Zenon DEF Good
  <2>8. QED
    BY <2>5, <2>6, <2>7, Zenon
<1>16. QED
  BY <1>14, <1>15

LEMMA CloseGood ==
    ASSUME TInv, NEW n \in Nat, Good(n), Close
    PROVE  Good(n)'
<1>1. /\ n <= msg_seq /\ NumbersGrow /\ ClientFits(n) /\ WireFits(n)
      /\ Unconnected /\ Unused /\ SessionsOK(n)
      /\ FreshOK /\ UsedOK(n) /\ OwnPlain /\ GaplessOK
      /\ QueueOrder /\ AcksOK /\ PrefixOK /\ QueuedOK
  BY Zenon DEF Good
<1>2. /\ state' = "Disconnected"
      /\ UNCHANGED <<conn, msg_seq, numbered, queue, idx, writing, events, up, down, server, sent>>
  BY DEF Close
<1>3. UNCHANGED <<session_seq, recv_packet>>
  BY <1>2 DEF server
<1>4. Fits(n)' = Fits(n) /\ Mark' = Mark /\ Sent' = Sent
  BY <1>2, ServerFrame, SentFrame, Zenon DEF Fits
<1>5. n <= msg_seq' /\ NumbersGrow' /\ ClientFits(n)' /\ WireFits(n)'
  BY <1>1, <1>2, <1>3, <1>4, Zenon DEF NumbersGrow, ClientFits, WireFits
<1>6. Unconnected' /\ QueueOrder'
  BY <1>1, <1>2, Zenon DEF Unconnected, QueueOrder
<1>7. Unused'
  BY <1>1, <1>2, UnusedFrame
<1>8. SessionsOK(n)' /\ UsedOK(n)' /\ PrefixOK'
  BY <1>1, <1>2, SessionsFrame, PrefixFrame
<1>9. FreshOK' /\ OwnPlain' /\ GaplessOK'
  BY <1>1, <1>2, StreamsFrame
<1>10. AcksOK' /\ QueuedOK'
  BY <1>1, <1>2, <1>4, Zenon DEF AcksOK, QueuedOK
<1>11. WrittenOK' /\ SilentOK'
  BY <1>2 DEF WrittenOK, SilentOK
<1>12. QED
  BY <1>5, <1>6, <1>7, <1>8, <1>9, <1>10, <1>11, Zenon DEF Good

LEMMA CallbackReceiveGood ==
    ASSUME TInv, NEW n \in Nat, Good(n), Callback_Receive
    PROVE  Good(n)'
<1>0. TypeOK /\ Stages
  BY DEF TInv
<1>1. /\ n <= msg_seq /\ NumbersGrow /\ ClientFits(n) /\ WireFits(n)
      /\ Unconnected /\ Unused /\ SessionsOK(n)
      /\ FreshOK /\ UsedOK(n) /\ OwnPlain /\ GaplessOK
      /\ QueueOrder /\ AcksOK /\ PrefixOK /\ QueuedOK /\ WrittenOK /\ SilentOK
  BY Zenon DEF Good
<1>2. /\ state = "Connected" /\ down[conn] # <<>>
      /\ events' = Append(events, Head(down[conn]))
      /\ down' = [down EXCEPT ![conn] = Tail(@)]
      /\ UNCHANGED <<state, conn, msg_seq, numbered, queue, idx, writing, up, server, sent>>
  BY DEF Callback_Receive
<1>3. UNCHANGED <<session_seq, recv_packet, link_session>>
  BY <1>2 DEF server
<1>4. /\ Fits(n)' = Fits(n) /\ Mark' = Mark /\ Sent' = Sent
      /\ \A c : Fresh(c)' <=> Fresh(c)
  BY <1>2, ServerFrame, SentFrame, Zenon DEF Fits
<1>5. n <= msg_seq' /\ NumbersGrow' /\ ClientFits(n)' /\ WireFits(n)'
  BY <1>1, <1>2, <1>3, <1>4, Zenon DEF NumbersGrow, ClientFits, WireFits
<1>6. conn \in Keys /\ conn # 0
  BY <1>0, <1>2 DEF Stages, TypeOK, Keys
<1>7. Unconnected'
  BY <1>2, <1>6, Zenon DEF Unconnected
<1>8. QueueOrder'
  BY <1>1, <1>2, Zenon DEF QueueOrder
<1>9. Unused'
  BY <1>1, <1>2, UnusedFrame
<1>10. SessionsOK(n)' /\ UsedOK(n)' /\ PrefixOK'
  BY <1>1, <1>2, SessionsFrame, PrefixFrame
<1>11. FreshOK' /\ OwnPlain' /\ GaplessOK' /\ \A c : Stream(c)' = Stream(c)
  BY <1>1, <1>2, StreamsFrame
<1>12. QueuedOK'
  BY <1>1, <1>2, <1>4, Zenon DEF QueuedOK
<1>13. WrittenOK' /\ SilentOK'
  <2>1. Written' = Written
    BY <1>2 DEF Written
  <2>2. WrittenOK'
    BY <1>1, <1>2, <1>3, <1>4, <1>11, <2>1, Zenon DEF WrittenOK
  <2>3. SilentOK'
    BY <1>1, <1>2, <1>4, <1>11, Zenon DEF SilentOK
  <2>4. QED
    BY <2>2, <2>3
<1>14. AcksOK'
  <2> DEFINE ok(x) == x.msg_id = "HeartBeat_Ans" => x.msg_seq <= Mark
  <2>1. /\ \A c \in Keys : \A i \in DOMAIN down[c] : ok(down[c][i])
        /\ \A i \in DOMAIN events : ok(events[i])
    BY <1>1, Zenon DEF AcksOK
  <2>2. SUFFICES /\ \A c \in Keys : \A i \in DOMAIN down'[c] : ok(down'[c][i])
                 /\ \A i \in DOMAIN events' : ok(events'[i])
    BY <1>4, Zenon DEF AcksOK
  <2>3. /\ down[conn] \in Seq(AnswerRecord) /\ events \in Seq(AnswerRecord)
        /\ down \in [Keys -> Seq(AnswerRecord)]
    BY <1>0, <1>6 DEF TypeOK
  <2> HIDE DEF ok
  <2>4. /\ Len(down[conn]) \in Nat /\ Len(down[conn]) # 0
        /\ DOMAIN down[conn] = 1 .. Len(down[conn])
        /\ Tail(down[conn]) \in Seq(AnswerRecord) /\ Head(down[conn]) \in AnswerRecord
        /\ DOMAIN Tail(down[conn]) = 1 .. Len(down[conn]) - 1
        /\ Head(down[conn]) = down[conn][1]
        /\ \A i \in 1 .. Len(down[conn]) - 1 : Tail(down[conn])[i] = down[conn][i + 1]
    BY <1>2, <2>3, HeadTailProperties, LenProperties, EmptySeq
  <2>5. ASSUME NEW c \in Keys, NEW i \in DOMAIN down'[c] PROVE ok(down'[c][i])
    <3>1. CASE c = conn
      <4>1. down'[c] = Tail(down[conn])
        BY <1>2, <2>3, <3>1
      <4>2. i + 1 \in 1 .. Len(down[conn]) /\ down'[c][i] = down[conn][i + 1]
        BY <2>4, <2>5, <4>1
      <4>3. QED
        BY <1>6, <2>1, <2>4, <4>2
    <3>2. CASE c # conn
      <4>1. down'[c] = down[c]
        BY <1>2, <2>3, <3>2
      <4>2. QED
        BY <2>1, <2>5, <4>1
    <3>3. QED
      BY <3>1, <3>2
  <2>6. ASSUME NEW i \in DOMAIN events' PROVE ok(events'[i])
    <3>1. /\ DOMAIN events' = 1 .. Len(events) + 1 /\ Len(events) \in Nat
          /\ DOMAIN events = 1 .. Len(events)
          /\ \A j \in 1 .. Len(events) : events'[j] = events[j]
          /\ events'[Len(events) + 1] = Head(down[conn])
      BY <1>2, <2>3, <2>4, AppendProperties, LenProperties
    <3>2. ok(Head(down[conn]))
      <4>1. 1 \in 1 .. Len(down[conn])
        BY <2>4
      <4>2. QED
        BY <1>6, <2>1, <2>4, <4>1
    <3>3. QED
      BY <2>1, <2>6, <3>1, <3>2
  <2>7. QED
    BY <2>5, <2>6
<1>15. QED
  BY <1>5, <1>7, <1>8, <1>9, <1>10, <1>11, <1>12, <1>13, <1>14, Zenon DEF Good

\* The acknowledged packets leave the front of the queue.
LEMMA UpdateGood ==
    ASSUME TInv, NEW n \in Nat, Good(n), Update
    PROVE  Good(n)'
<1>0. TypeOK
  BY DEF TInv
<1>1. /\ n <= msg_seq /\ NumbersGrow /\ ClientFits(n) /\ WireFits(n)
      /\ Unconnected /\ Unused /\ SessionsOK(n)
      /\ FreshOK /\ UsedOK(n) /\ OwnPlain /\ GaplessOK
      /\ QueueOrder /\ AcksOK /\ PrefixOK /\ QueuedOK /\ WrittenOK /\ SilentOK
  BY Zenon DEF Good
<1>2. /\ events # <<>> /\ events' = <<>>
      /\ UNCHANGED <<state, conn, msg_seq, numbered, writing, up, down, server, sent>>
  BY Zenon DEF Update
<1>3. UNCHANGED <<session_seq, recv_packet, link_session>>
  BY <1>2 DEF server
<1>4. /\ Fits(n)' = Fits(n) /\ Mark' = Mark /\ Sent' = Sent
      /\ \A c : Fresh(c)' <=> Fresh(c)
  BY <1>2, ServerFrame, SentFrame, Zenon DEF Fits
<1>5. PICK k \in 0 .. Len(queue) : RemoveSentPacket(k)
  BY Zenon DEF Update
<1>6. /\ queue \in Seq(PacketRecord) /\ Len(queue) \in Nat /\ k \in Nat /\ k <= Len(queue)
      /\ idx \in Int
      /\ \A i \in 1 .. Len(queue) : queue[i] \in PacketRecord /\ queue[i].msg_seq \in Nat
  <2>1. idx \in Int
    BY <1>0, Zenon DEF TypeOK
  <2>2. /\ queue \in Seq(PacketRecord) /\ Len(queue) \in Nat
        /\ \A i \in 1 .. Len(queue) : queue[i] \in PacketRecord /\ queue[i].msg_seq \in Nat
    BY <1>0, QueueTypes, Zenon
  <2>3. k \in Nat /\ k <= Len(queue)
    BY <2>2
  <2>4. QED
    BY <2>1, <2>2, <2>3, Zenon
<1>7. queue' = SubSeq(queue, k + 1, Len(queue)) /\ idx' = idx - k
  BY <1>5, Zenon DEF RemoveSentPacket
<1>8. /\ queue' \in Seq(PacketRecord) /\ Len(queue') = Len(queue) - k
      /\ \A i \in 1 .. Len(queue) - k : queue'[i] = queue[k + i]
  BY <1>6, <1>7, Parts
<1>9. ASSUME NEW i \in 1 .. Len(queue'), NEW m, m = k + i
      PROVE  m \in 1 .. Len(queue) /\ queue'[i] = queue[m]
  BY <1>6, <1>8, <1>9
<1>10. ASSUME NEW i \in 1 .. k PROVE queue[i].msg_seq <= Mark
  <2>1. PICK j \in DOMAIN events : /\ events[j].msg_id = "HeartBeat_Ans"
                                   /\ queue[i].msg_seq <= events[j].msg_seq
    BY <1>5 DEF RemoveSentPacket
  <2>2. events[j].msg_seq <= Mark
    BY <1>1, <2>1 DEF AcksOK
  <2>3. queue[i].msg_seq \in Nat /\ Mark \in Nat /\ events[j].msg_seq \in Nat
    <3>1. events[j] \in AnswerRecord
      BY <1>0 DEF TypeOK
    <3>2. i \in 1 .. Len(queue)
      BY <1>6
    <3>3. QED
      BY <1>0, <1>1, <1>6, <3>1, <3>2, MarkTypes DEF AnswerRecord
  <2>4. QED
    BY <2>1, <2>2, <2>3
<1>11. n <= msg_seq' /\ NumbersGrow' /\ WireFits(n)'
  BY <1>1, <1>2, <1>3, <1>4, Zenon DEF NumbersGrow, WireFits
<1>12. ClientFits(n)'
  <2>1. queue' \in Seq(Fits(n))
    BY <1>1, <1>5, <1>7, Parts DEF ClientFits
  <2>2. QED
    BY <1>1, <1>2, <1>4, <2>1, Zenon DEF ClientFits
<1>13. Unconnected'
  BY <1>1, <1>2, Zenon DEF Unconnected
<1>14. Unused'
  BY <1>1, <1>2, UnusedFrame
<1>15. SessionsOK(n)' /\ UsedOK(n)' /\ PrefixOK'
  BY <1>1, <1>2, SessionsFrame, PrefixFrame
<1>16. FreshOK' /\ OwnPlain' /\ GaplessOK' /\ \A c : Stream(c)' = Stream(c)
  BY <1>1, <1>2, StreamsFrame
<1>17. AcksOK'
  BY <1>1, <1>2, <1>4 DEF AcksOK
<1>18. QueueOrder'
  <2>1. ASSUME NEW i \in 1 .. Len(queue'), IsReconnect(queue'[i]) PROVE i = 1 /\ idx' = 0
    <3>1. k + i \in 1 .. Len(queue) /\ queue'[i] = queue[k + i]
      BY <1>9
    <3>2. k + i = 1 /\ idx = 0
      BY <1>1, <2>1, <3>1 DEF QueueOrder
    <3>3. QED
      BY <1>6, <1>7, <3>2
  <2>2. ASSUME NEW i \in 1 .. Len(queue'), NEW j \in 1 .. Len(queue'), i < j
        PROVE  IsReconnect(queue'[i]) \/ queue'[i].msg_seq < queue'[j].msg_seq
    <3>1. /\ k + i \in 1 .. Len(queue) /\ queue'[i] = queue[k + i]
          /\ k + j \in 1 .. Len(queue) /\ queue'[j] = queue[k + j]
          /\ k + i < k + j
      BY <1>6, <1>9, <2>2
    <3>2. QED
      BY <1>1, <3>1 DEF QueueOrder
  <2>3. ASSUME numbered # NoPacket, NEW i \in 1 .. Len(queue')
        PROVE  IsReconnect(queue'[i]) \/ queue'[i].msg_seq < numbered.msg_seq
    <3>1. k + i \in 1 .. Len(queue) /\ queue'[i] = queue[k + i]
      BY <1>9
    <3>2. QED
      BY <1>1, <2>3, <3>1 DEF QueueOrder
  <2>4. idx' <= Len(queue') /\ (writing => idx' < Len(queue'))
    <3>1. idx <= Len(queue) /\ (writing => idx < Len(queue))
      BY <1>1, Zenon DEF QueueOrder
    <3>2. idx' <= Len(queue')
      BY <1>6, <1>7, <1>8, <3>1
    <3>3. idx < Len(queue) => idx' < Len(queue')
      BY <1>6, <1>7, <1>8
    <3>4. QED
      BY <3>1, <3>2, <3>3, Zenon
  <2>5. QED
    BY <1>2, <2>1, <2>2, <2>3, <2>4, Zenon DEF QueueOrder
<1>19. QueuedOK'
  <2>1. ASSUME NEW m \in Sent, In(m, queue) PROVE In(m, queue') \/ m <= Mark
    <3>1. PICK i \in 1 .. Len(queue) : queue[i].msg_seq = m
      BY <2>1 DEF In
    <3>2. CASE i <= k
      <4>1. i \in 1 .. k
        BY <1>6, <3>2
      <4>2. QED
        BY <1>10, <3>1, <4>1
    <3>3. CASE ~(i <= k)
      <4>1. i - k \in 1 .. Len(queue) - k /\ k + (i - k) = i
        BY <1>6, <3>3
      <4>2. i - k \in 1 .. Len(queue') /\ queue'[i - k].msg_seq = m
        BY <1>8, <3>1, <4>1
      <4>3. QED
        BY <4>2 DEF In
    <3>4. QED
      BY <3>2, <3>3
  <2>2. \A m \in Sent : In(m, queue') \/ (numbered # NoPacket /\ numbered.msg_seq = m) \/ m <= Mark
    BY <1>1, <2>1, Zenon DEF QueuedOK
  <2>3. QED
    BY <1>2, <1>4, <2>2, Zenon DEF QueuedOK
<1>20. WrittenOK'
  <2>1. Written' = Written - k /\ Written \in Int
    <3>1. Written \in Int
      BY <1>0, <1>1, WrittenTypes
    <3>2. CASE writing
      <4>1. Written' = idx' + 1 /\ Written = idx + 1
        BY <1>2, <3>2, Zenon DEF Written
      <4>2. QED
        BY <1>6, <1>7, <3>1, <4>1
    <3>3. CASE ~writing
      <4>1. Written' = idx' /\ Written = idx
        BY <1>2, <3>3, Zenon DEF Written
      <4>2. QED
        BY <1>6, <1>7, <3>1, <4>1
    <3>4. QED
      BY <3>2, <3>3
  <2>2. SUFFICES ASSUME state = "Connected", link_session[conn] # 0,
                        NEW j \in 1 .. Len(queue'), j <= Written', queue'[j].msg_seq \in Sent
                 PROVE  queue'[j].msg_seq <= Mark \/ In(queue'[j].msg_seq, Stream(conn))
    BY <1>2, <1>3, <1>4, <1>16, Zenon DEF WrittenOK
  <2>3. k + j \in 1 .. Len(queue) /\ queue'[j] = queue[k + j]
    BY <1>9
  <2>4. k + j <= Written
    BY <1>6, <2>1, <2>2
  <2>5. QED
    BY <1>1, <2>2, <2>3, <2>4 DEF WrittenOK
<1>21. SilentOK'
  <2>1. SUFFICES ASSUME state = "Connected", Fresh(conn), Stream(conn) = <<>>
                 PROVE  ~writing /\ idx' < Len(queue')
    BY <1>2, <1>4, <1>16, Zenon DEF SilentOK
  <2>2. ~writing /\ idx < Len(queue)
    BY <1>1, <2>1, Zenon DEF SilentOK
  <2>3. idx' < Len(queue')
    BY <1>6, <1>7, <1>8, <2>2
  <2>4. QED
    BY <2>2, <2>3
<1>22. QED
  BY <1>11, <1>12, <1>13, <1>14, <1>15, <1>16, <1>17, <1>18, <1>19, <1>20, <1>21, Zenon DEF Good

\* The server accepts the next connection: no trace of it was there, and its stream
\* is empty or has the request that comes first.
LEMMA AcceptGood ==
    ASSUME TInv, NEW n \in Nat, Good(n), NEW k \in Nat, k = n \/ conn = 0,
           NEW c \in Keys, c = conn + 1, conn' = c, Accepted(c), msg_seq' = msg_seq + 1,
           UNCHANGED <<sent, recv_packet, session_seq, session_token, sessions, tokens,
                       reading, handled>>,
           NEW x \in PacketRecord, x \in Fits(k)',
           IsReconnect(x) \/ (conn = 0 /\ IsConnect(x)),
           up' = up \/ (/\ up' = [up EXCEPT ![c] = Append(@, x)]
                        /\ IsReconnect(x) \/ \A m \in Sent : m <= Mark)
    PROVE  /\ WireFits(k)' /\ Unused' /\ SessionsOK(k)'
           /\ FreshOK' /\ UsedOK(k)' /\ OwnPlain' /\ GaplessOK'
           /\ Mark' = Mark /\ OwnHandled' = OwnHandled
           /\ Fresh(c)' /\ (up' # up => Stream(c)' = <<x>>)
           /\ link_session'[c] = c
<1>0. TypeOK
  BY DEF TInv
<1>1. /\ n <= msg_seq /\ NumbersGrow /\ WireFits(n) /\ Unused /\ SessionsOK(n)
      /\ FreshOK /\ UsedOK(n) /\ OwnPlain /\ GaplessOK
  BY Zenon DEF Good
<1>2. c > conn /\ c \in Nat /\ c # 0 /\ conn \in Nat
  BY <1>0, FirstKey DEF TypeOK, Keys
<1>3. link_session' = [link_session EXCEPT ![c] = c]
  BY Zenon DEF Accepted
<1>4. /\ link_session \in [Keys -> 0 .. MaxConnections] /\ up \in [Keys -> Seq(PacketRecord)]
      /\ recv_packet \in [Keys -> Seq(PacketRecord)] /\ msg_seq \in Nat
  BY <1>0 DEF TypeOK
<1>7. /\ up[c] = <<>> /\ recv_packet[c] = <<>> /\ link_session[c] = 0
      /\ session_seq[c] = 0 /\ session_token[c] = 0 /\ handled[c] = <<>>
  BY <1>1, <1>2 DEF Unused, Untouched
<1>8. /\ link_session'[c] = c
      /\ \A d \in Keys : d # c => link_session'[d] = link_session[d] /\ up'[d] = up[d]
  BY <1>2, <1>3, <1>4
<1>9. up'[c] = <<>> \/ (up'[c] = <<x>> /\ (IsReconnect(x) \/ \A m \in Sent : m <= Mark))
  BY <1>2, <1>4, <1>7
<1>10. up' # up => up'[c] = <<x>>
  BY <1>2, <1>4, <1>7
<1>11. /\ Own' <=> Own
       /\ Mark' = Mark /\ OwnHandled' = OwnHandled /\ Sent' = Sent
  BY SentFrame DEF Own, Mark, OwnHandled
<1>12. c = 1 => ~Own
  BY <1>7 DEF Own
<1>13. /\ \A d \in Keys : d # c => (Fresh(d)' <=> Fresh(d))
       /\ Fresh(c)' /\ ~Fresh(c)
  BY <1>2, <1>7, <1>8, <1>11, <1>12 DEF Fresh
<1>14. ASSUME NEW d \in Keys, d # c PROVE Stream(d)' = Stream(d)
  BY <1>8, <1>14 DEF Stream
<1>15. Stream(c)' = up'[c]
  <2>1. Stream(c)' = <<>> \o up'[c]
    BY <1>7, <1>8 DEF Stream
  <2>2. QED
    BY <1>9, <2>1
\* Before the first connection everything is empty.
<1>16. conn = 0 => /\ c = 1 /\ ~Own
                   /\ \A d \in Keys : up[d] = <<>> /\ recv_packet[d] = <<>> /\ link_session[d] = 0
  <2>1. SUFFICES ASSUME conn = 0
                 PROVE  /\ c = 1 /\ ~Own
                        /\ \A d \in Keys : up[d] = <<>> /\ recv_packet[d] = <<>> /\ link_session[d] = 0
    OBVIOUS
  <2>2. \A d \in Keys : d > conn
    BY <2>1 DEF Keys
  <2>3. c = 1
    BY <2>1
  <2>4. QED
    BY <1>1, <1>12, <2>2, <2>3, Zenon DEF Unused, Untouched
<1>17. WireFits(k)'
  <2>1. up \in [Keys -> Seq(Fits(k)')] /\ recv_packet \in [Keys -> Seq(Fits(k)')]
    <3>1. CASE k = n
      <4>1. Fits(n) \subseteq Fits(n)'
        BY <1>0, <1>1, FitsGrow
      <4>2. QED
        BY <1>1, <3>1, <4>1, FitsMonotonic DEF WireFits
    <3>2. CASE conn = 0
      <4>1. \A d \in Keys : up[d] = <<>> /\ recv_packet[d] = <<>>
        BY <1>16, <3>2, Zenon
      <4>2. <<>> \in Seq(Fits(k)')
        OBVIOUS
      <4>3. QED
        BY <1>4, <4>1, <4>2
    <3>3. QED
      BY <3>1, <3>2
  <2>2. [up EXCEPT ![c] = Append(@, x)] \in [Keys -> Seq(Fits(k)')]
    BY <2>1, AppendAtIn
  <2>3. up' \in [Keys -> Seq(Fits(k)')]
    BY <2>1, <2>2
  <2>4. QED
    BY <2>1, <2>3 DEF WireFits
<1>18. Unused'
  <2>1. SUFFICES ASSUME NEW d \in Keys, d > c PROVE Untouched(d)'
    BY Zenon DEF Unused
  <2>2. d > conn /\ d # c
    <3>1. d \in Nat
      BY FirstKey
    <3>2. QED
      BY <1>2, <2>1, <3>1
  <2>3. Untouched(d)
    BY <1>1, <2>2 DEF Unused
  <2>4. QED
    BY <1>8, <2>2, <2>3, Zenon DEF Untouched
<1>19. SessionsOK(k)'
  <2>1. \A d \in Keys : link_session'[d] \in {0, 1, d}
    BY <1>1, <1>8 DEF SessionsOK
  <2>2. \A d, e \in Keys : link_session'[d] = 1 /\ link_session'[e] = 1 => d = e
    <3>1. CASE c = 1
      <4>1. conn = 0
        BY <1>2, <3>1
      <4>2. \A d \in Keys : d # c => link_session'[d] = 0
        BY <1>8, <1>16, <4>1
      <4>3. QED
        BY <4>2
    <3>2. CASE c # 1
      BY <1>1, <1>8, <3>2 DEF SessionsOK
    <3>3. QED
      BY <3>1, <3>2
  <2>3. \A d \in Keys : link_session'[d] = 1 => d = 1 \/ Own
    BY <1>1, <1>8 DEF SessionsOK
  <2>4. /\ \A s \in Keys : session_token[s] # 0 => s = 1
        /\ \A s \in sessions : s = 1 /\ Own
    BY <1>1, Zenon DEF SessionsOK
  <2>5. Own => k <= session_seq[1]
    BY <1>1, <1>16 DEF SessionsOK
  <2>6. reading # Idle /\ reading.session = 1 /\ Own => link_session'[reading.link] = 1
    <3>1. SUFFICES ASSUME reading # Idle, reading.session = 1, Own
                   PROVE  link_session'[reading.link] = 1
      OBVIOUS
    <3>2. link_session[reading.link] = 1
      BY <1>1, <3>1 DEF SessionsOK
    <3>3. reading.link \in Keys /\ reading.link # c
      <4>1. reading.link \in Keys
        BY <1>0, <3>1 DEF TypeOK
      <4>2. QED
        BY <1>7, <3>2, <4>1
    <3>4. QED
      BY <1>8, <3>2, <3>3
  <2>7. QED
    BY <1>11, <2>1, <2>2, <2>3, <2>4, <2>5, <2>6, Zenon DEF SessionsOK
<1>20. FreshOK'
  <2>1. ASSUME NEW d \in Keys, d # c, Fresh(d)
        PROVE  /\ session_seq[d] = 0 /\ handled[d] = <<>>
               /\ recv_packet[d] # <<>> => reading = [link |-> d, session |-> d]
               /\ Opening(Stream(d)', d)
    BY <1>1, <1>14, <2>1 DEF FreshOK
  <2>2. Opening(Stream(c)', c)
    <3>1. CASE up'[c] = <<>>
      BY <1>15, <3>1 DEF Opening
    <3>2. CASE up'[c] = <<x>>
      <4>1. IsReconnect(x) \/ (c = 1 /\ IsConnect(x))
        BY <1>16
      <4>2. Len(<<x>>) = 1 /\ <<x>>[1] = x /\ 2 .. 1 = {}
        OBVIOUS
      <4>3. QED
        BY <1>15, <3>2, <4>1, <4>2 DEF Opening
    <3>3. QED
      BY <1>9, <3>1, <3>2
  <2>3. SUFFICES ASSUME NEW d \in Keys, Fresh(d)'
                 PROVE  /\ session_seq[d] = 0 /\ handled[d] = <<>>
                        /\ recv_packet[d] # <<>> => reading = [link |-> d, session |-> d]
                        /\ Opening(Stream(d)', d)
    BY Zenon DEF FreshOK
  <2>4. CASE d = c
    BY <1>7, <2>2, <2>4
  <2>5. CASE d # c
    BY <1>13, <2>1, <2>3, <2>5
  <2>6. QED
    BY <2>4, <2>5
<1>21. UsedOK(k)'
  <2>1. SUFFICES ASSUME NEW s \in Keys
                 PROVE  Fresh(s)' \/ recv_packet[s] = <<>> \/ (Plain(recv_packet[s]) /\ k <= session_seq[s])
    BY Zenon DEF UsedOK
  <2>2. CASE s = c
    BY <1>13, <2>2
  <2>3. CASE conn = 0
    BY <1>16, <2>3
  <2>4. CASE s # c /\ k = n
    BY <1>1, <1>13, <2>4 DEF UsedOK
  <2>5. QED
    BY <2>2, <2>3, <2>4
<1>22. OwnPlain'
  <2>1. SUFFICES ASSUME NEW d \in Keys, Own, link_session'[d] = 1 PROVE Plain(Stream(d)')
    BY <1>11, Zenon DEF OwnPlain
  <2>2. d # c
    BY <1>8, <1>12, <2>1
  <2>3. QED
    BY <1>1, <1>8, <1>14, <2>1, <2>2 DEF OwnPlain
<1>23. GaplessOK'
  <2>1. SUFFICES ASSUME NEW d \in Keys, link_session'[d] # 0 PROVE Gapless(Stream(d)', Sent, Mark)
    BY <1>11, Zenon DEF GaplessOK
  <2>2. CASE d # c
    BY <1>1, <1>8, <1>14, <2>1, <2>2 DEF GaplessOK
  <2>3. CASE d = c
    <3>1. CASE up'[c] = <<>>
      BY <1>15, <2>3, <3>1 DEF Gapless
    <3>2. CASE up'[c] = <<x>> /\ (IsReconnect(x) \/ \A m \in Sent : m <= Mark)
      <4>1. Len(<<x>>) = 1 /\ <<x>>[1] = x /\ 1 .. 1 = {1}
        OBVIOUS
      <4>2. QED
        BY <1>15, <2>3, <3>2, <4>1 DEF Gapless
    <3>3. QED
      BY <1>9, <3>1, <3>2
  <2>4. QED
    BY <2>2, <2>3
<1>24. up' # up => Stream(c)' = <<x>>
  BY <1>10, <1>15
<1>25. QED
  BY <1>8, <1>11, <1>13, <1>17, <1>18, <1>19, <1>20, <1>21, <1>22, <1>23, <1>24

\* What the client's variables say when a connection is new: only a request has been
\* written, if anything, and it is in the stream.
LEMMA ConnectedFrame ==
    ASSUME NEW c \in Keys, conn' = c, link_session'[c] = c, Sent' = Sent, Mark' = Mark,
           idx' = 0, Len(queue') \in Nat, Len(queue') # 0,
           NEW x \in PacketRecord, x.msg_seq \notin Sent,
           writing' => up' # up /\ queue'[1] = x,
           ~writing' => up' = up, up' # up => Stream(c)' = <<x>>
    PROVE  WrittenOK' /\ SilentOK'
<1>1. Stream(conn)' = Stream(c)' /\ link_session'[conn'] = c /\ (Fresh(conn)' <=> Fresh(c)')
  BY DEF Stream, Fresh, Own
<1>2. WrittenOK'
  <2>1. SUFFICES ASSUME NEW j \in 1 .. Len(queue'), j <= Written', queue'[j].msg_seq \in Sent
                 PROVE  FALSE
    BY Zenon DEF WrittenOK
  <2>2. CASE writing'
    <3>1. Written' = 1
      BY <2>2 DEF Written
    <3>2. j = 1
      BY <2>1, <3>1
    <3>3. QED
      BY <2>1, <2>2, <3>2
  <2>3. CASE ~writing'
    <3>1. Written' = 0
      BY <2>3, Zenon DEF Written
    <3>2. QED
      BY <2>1, <3>1
  <2>4. QED
    BY <2>2, <2>3
<1>3. SilentOK'
  <2>1. writing' => Stream(conn)' # <<>>
    <3>1. <<x>> # <<>>
      OBVIOUS
    <3>2. QED
      BY <1>1, <3>1
  <2>2. idx' < Len(queue')
    OBVIOUS
  <2>3. QED
    BY <2>1, <2>2, Zenon DEF SilentOK
<1>4. QED
  BY <1>2, <1>3

LEMMA ConnectGood ==
    ASSUME TInv, NEW n \in Nat, Good(n), Callback_Connect, ~spoiled'
    PROVE  \E k \in Nat : Good(k)'
<1>0. TypeOK /\ Stages
  BY DEF TInv
<1>1. /\ n <= msg_seq /\ NumbersGrow /\ ClientFits(n) /\ WireFits(n)
      /\ Unconnected /\ Unused /\ SessionsOK(n)
      /\ FreshOK /\ UsedOK(n) /\ OwnPlain /\ GaplessOK
      /\ QueueOrder /\ AcksOK /\ PrefixOK /\ QueuedOK /\ WrittenOK /\ SilentOK
  BY Zenon DEF Good
<1>2. /\ state = "Connecting" /\ numbered = NoPacket /\ numbered' = NoPacket
      /\ conn' = conn + 1 /\ Accepted(conn') /\ msg_seq' = msg_seq + 1
      /\ SendPackets(<<Packet("Connect_Req", msg_seq + 1, FALSE)>>, "Connected", conn')
      /\ UNCHANGED <<idx, events, down, recv_packet, session_seq, session_token, sessions,
                     tokens, reading, sent, handled>>
  BY Zenon DEF Callback_Connect, Overtakes
<1>3. conn = 0 /\ idx = 0 /\ ~writing /\ events = <<>>
      /\ \A i \in DOMAIN queue : queue[i].msg_id = "Message"
  <2>1. conn = 0
    BY <1>0, <1>2 DEF Stages
  <2>2. QED
    BY <1>1, <2>1, Zenon DEF Unconnected
<1>4. msg_seq \in Nat /\ conn' = 1 /\ 1 \in Keys /\ 1 = conn + 1
  BY <1>0, <1>2, <1>3, FirstKey DEF TypeOK
<1>5. PICK k \in Nat : k = msg_seq + 1
  BY <1>4
<1>6. PICK x : x = Packet("Connect_Req", msg_seq + 1, FALSE)
  OBVIOUS
<1>7. /\ x \in Fits(k)' /\ x \in PacketRecord /\ x.msg_seq = msg_seq + 1 /\ x.msg_id = "Connect_Req"
      /\ x.msg_seq \notin Sent
  <2>1. msg_seq + 1 \notin Sent /\ msg_seq + 1 \notin Sent'
    BY <1>0, <1>1, <1>2, NotSentYet, SentFrame
  <2>2. x \in Fits(k)'
    BY <1>0, <1>1, <1>2, <1>5, <1>6, <2>1, NumberedFits
  <2>3. x \in PacketRecord
    BY <1>0, <1>6, NewPacket
  <2>4. x.msg_seq = msg_seq + 1 /\ x.msg_id = "Connect_Req"
    BY <1>6 DEF Packet
  <2>5. QED
    BY <2>1, <2>2, <2>3, <2>4
<1>8. IsConnect(x) /\ ~IsReconnect(x)
  BY <1>7 DEF IsConnect, IsReconnect
\* The queue.
<1>9. /\ queue \in Seq(PacketRecord) /\ Len(queue) \in Nat /\ DOMAIN queue = 1 .. Len(queue)
      /\ Len(queue') = Len(queue) + 1 /\ DOMAIN queue' = 1 .. Len(queue) + 1
      /\ \A i \in 1 .. Len(queue) : queue'[i] = queue[i]
      /\ queue'[Len(queue) + 1] = x /\ queue' = Append(queue, x)
  <2>1. queue \in Seq(PacketRecord)
    BY <1>0, QueueTypes
  <2>2. queue' = queue \o <<x>>
    BY <1>2, <1>6, Zenon DEF SendPackets
  <2>3. queue' = Append(queue, x)
    BY <1>7, <2>1, <2>2, AppendIsConcat
  <2>4. QED
    BY <1>7, <2>1, <2>3, AppendProperties, LenProperties
<1>10. \A i \in 1 .. Len(queue) : /\ queue[i] \in Fits(n) /\ queue[i].msg_seq \in Nat
                                  /\ queue[i].msg_seq <= msg_seq
  BY <1>0, <1>1, FitsNumbers DEF ClientFits
<1>11. \A i \in 1 .. Len(queue) : ~IsReconnect(queue[i]) /\ ~IsConnect(queue[i])
  BY <1>3, <1>9 DEF IsReconnect, IsConnect
\* The wire.
<1>12. \/ writing' = TRUE /\ queue = <<>> /\ up' = [up EXCEPT ![1] = Append(@, x)]
       \/ ~writing' /\ up' = up
  <2>1. Head(<<x>>) = x
    OBVIOUS
  <2>2. CASE idx = Len(queue)
    <3>1. BeginSend(x, 1)
      BY <1>2, <1>4, <1>6, <2>1, <2>2, Zenon DEF SendPackets
    <3>2. queue = <<>>
      BY <1>3, <1>9, <2>2, EmptySeq
    <3>3. QED
      BY <3>1, <3>2, Zenon DEF BeginSend
  <2>3. CASE idx # Len(queue)
    BY <1>2, <1>3, <2>3, Zenon DEF SendPackets
  <2>4. QED
    BY <2>2, <2>3
<1>13. queue = <<>> => \A m \in Sent : m <= Mark
  <2>1. SUFFICES ASSUME queue = <<>>, NEW m \in Sent PROVE m <= Mark
    OBVIOUS
  <2>2. ~In(m, queue)
    BY <2>1 DEF In
  <2>3. QED
    BY <1>1, <1>2, <2>2, Zenon DEF QueuedOK
<1>14. /\ WireFits(k)' /\ Unused' /\ SessionsOK(k)'
       /\ FreshOK' /\ UsedOK(k)' /\ OwnPlain' /\ GaplessOK'
       /\ Mark' = Mark /\ OwnHandled' = OwnHandled
       /\ Fresh(1)' /\ (up' # up => Stream(1)' = <<x>>)
       /\ link_session'[1] = 1
  <2>1. Accepted(1)
    BY <1>2, <1>4, Zenon
  <2>2. up' = up \/ (/\ up' = [up EXCEPT ![1] = Append(@, x)]
                     /\ IsReconnect(x) \/ \A m \in Sent : m <= Mark)
    BY <1>12, <1>13, Zenon
  <2>3. QED
    BY <1>2, <1>3, <1>4, <1>7, <1>8, <2>1, <2>2, AcceptGood
<1>15. Sent' = Sent
  BY <1>2, SentFrame
<1>16. k <= msg_seq' /\ NumbersGrow'
  BY <1>0, <1>1, <1>2, <1>4, <1>5, NumbersGrowKept
<1>17. ClientFits(k)'
  <2>1. Fits(n) \subseteq Fits(n)'
    BY <1>0, <1>1, <1>2, FitsGrow
  <2>2. \A p \in Fits(n)' : ~IsReconnect(p) /\ ~IsConnect(p) => p \in Fits(k)'
    BY DEF Fits
  <2>3. \A i \in 1 .. Len(queue) : queue[i] \in Fits(k)'
    BY <1>10, <1>11, <2>1, <2>2
  <2>4. \A i \in 1 .. Len(queue') : queue'[i] \in Fits(k)'
    BY <1>7, <1>9, <2>3
  <2>5. queue \in Seq(Fits(k)')
    <3>1. queue = [i \in 1 .. Len(queue) |-> queue[i]]
      BY <1>9
    <3>2. QED
      BY <1>9, <2>3, <3>1
  <2>6. queue' \in Seq(Fits(k)')
    BY <1>7, <1>9, <2>5, AppendProperties
  <2>7. QED
    BY <1>2, <2>6, Zenon DEF ClientFits
<1>18. Unconnected'
  BY <1>4 DEF Unconnected
<1>19. QueueOrder'
  <2>1. ASSUME NEW i \in 1 .. Len(queue') PROVE ~IsReconnect(queue'[i])
    <3>1. CASE i \in 1 .. Len(queue)
      BY <1>9, <1>11, <3>1
    <3>2. CASE i = Len(queue) + 1
      BY <1>8, <1>9, <3>2
    <3>3. QED
      BY <1>9, <3>1, <3>2
  <2>2. ASSUME NEW i \in 1 .. Len(queue'), NEW j \in 1 .. Len(queue'), i < j
        PROVE  queue'[i].msg_seq < queue'[j].msg_seq
    <3>1. i \in 1 .. Len(queue) /\ queue'[i] = queue[i]
      BY <1>9, <2>2
    <3>2. CASE j \in 1 .. Len(queue)
      <4>1. queue[i].msg_seq < queue[j].msg_seq
        BY <1>1, <1>11, <2>2, <3>1, <3>2 DEF QueueOrder
      <4>2. QED
        BY <1>9, <3>1, <3>2, <4>1
    <3>3. CASE j = Len(queue) + 1
      BY <1>4, <1>7, <1>9, <1>10, <3>1, <3>3
    <3>4. QED
      BY <1>9, <3>2, <3>3
  <2>3. idx' <= Len(queue') /\ idx' < Len(queue')
    BY <1>2, <1>3, <1>9
  <2>4. QED
    BY <1>2, <2>1, <2>2, <2>3, Zenon DEF QueueOrder
<1>20. AcksOK'
  BY <1>1, <1>2, <1>14, Zenon DEF AcksOK
<1>21. PrefixOK'
  BY <1>1, <1>2, <1>14, Zenon DEF PrefixOK
<1>22. QueuedOK'
  <2>1. ASSUME NEW m \in Sent PROVE In(m, queue') \/ m <= Mark
    BY <1>1, <1>2, <1>7, <1>9, InAppend DEF QueuedOK
  <2>2. QED
    BY <1>14, <1>15, <2>1, Zenon DEF QueuedOK
<1>23. WrittenOK' /\ SilentOK'
  <2>1. idx' = 0 /\ Len(queue') \in Nat /\ Len(queue') # 0
    BY <1>2, <1>3, <1>9
  <2>2. writing' => up' # up /\ queue'[1] = x
    <3>1. SUFFICES ASSUME writing' PROVE up' # up /\ queue'[1] = x
      OBVIOUS
    <3>2. queue = <<>> /\ up' = [up EXCEPT ![1] = Append(@, x)]
      BY <1>12, <3>1
    <3>3. up[1] = <<>> /\ up \in [Keys -> Seq(PacketRecord)]
      BY <1>0, <1>1, <1>3, <1>4 DEF Unused, Untouched, TypeOK
    <3>4. up'[1] # up[1]
      BY <1>4, <3>2, <3>3
    <3>5. Len(queue) = 0
      BY <3>2
    <3>6. QED
      BY <1>9, <3>4, <3>5
  <2>3. ~writing' => up' = up
    BY <1>12
  <2>4. QED
    BY <1>4, <1>7, <1>14, <1>15, <2>1, <2>2, <2>3, ConnectedFrame
<1>24. Good(k)'
  BY <1>14, <1>16, <1>17, <1>18, <1>19, <1>20, <1>21, <1>22, <1>23, Zenon DEF Good
<1>25. QED
  BY <1>24

LEMMA ReconnectGood ==
    ASSUME TInv, NEW n \in Nat, Good(n), Callback_Reconnect, ~spoiled'
    PROVE  Good(n)'
<1>0. TypeOK
  BY DEF TInv
<1>1. /\ n <= msg_seq /\ NumbersGrow /\ ClientFits(n) /\ WireFits(n)
      /\ Unconnected /\ Unused /\ SessionsOK(n)
      /\ FreshOK /\ UsedOK(n) /\ OwnPlain /\ GaplessOK
      /\ QueueOrder /\ AcksOK /\ PrefixOK /\ QueuedOK /\ WrittenOK /\ SilentOK
  BY Zenon DEF Good
<1>2. PICK x : x = Packet("Reconnect_Req", msg_seq + 1, FALSE)
  OBVIOUS
<1>3. /\ conn < MaxConnections /\ conn' = conn + 1 /\ Accepted(conn') /\ msg_seq' = msg_seq + 1
      /\ idx' = 0 /\ BeginSend(x, conn')
      /\ queue' = IF writing' THEN <<x>> \o queue ELSE <<x>>
      /\ UNCHANGED <<numbered, events, down, recv_packet, session_seq, session_token, sessions,
                     tokens, reading, sent, handled>>
  BY <1>2, Zenon DEF Callback_Reconnect
<1>4. /\ \A i \in DOMAIN queue : ~IsReconnect(queue[i])
      /\ writing' \/ queue = <<>>
      /\ state' = IF writing' THEN "Connected" ELSE "Disconnected"
  BY Zenon DEF Callback_Reconnect, IsReconnect
<1>5. PICK c \in Keys : c = conn + 1
  BY <1>0, <1>3, FirstKey DEF TypeOK, Keys
<1>6. msg_seq \in Nat /\ conn' = c /\ Accepted(c) /\ BeginSend(x, c) /\ conn' # 0 /\ c > conn
  BY <1>0, <1>3, <1>5, FirstKey DEF TypeOK
<1>7. /\ x \in Fits(n)' /\ x \in PacketRecord /\ x.msg_seq = msg_seq + 1 /\ IsReconnect(x)
      /\ x.msg_seq \notin Sent
  <2>1. msg_seq + 1 \notin Sent /\ msg_seq + 1 \notin Sent'
    BY <1>0, <1>1, <1>3, NotSentYet, SentFrame
  <2>2. x \in Fits(n)'
    BY <1>0, <1>1, <1>2, <1>3, <2>1, NumberedFits
  <2>3. x \in PacketRecord
    BY <1>0, <1>2, NewPacket
  <2>4. x.msg_seq = msg_seq + 1 /\ IsReconnect(x)
    BY <1>2 DEF Packet, IsReconnect
  <2>5. QED
    BY <2>1, <2>2, <2>3, <2>4
\* The queue.
<1>8. /\ queue \in Seq(PacketRecord) /\ Len(queue) \in Nat /\ DOMAIN queue = 1 .. Len(queue)
      /\ queue' \in Seq(PacketRecord) /\ queue' \in Seq(Fits(n)')
      /\ Len(queue') = Len(queue) + 1 /\ queue'[1] = x
      /\ \A i \in 1 .. Len(queue) : queue'[i + 1] = queue[i]
      /\ \A i \in 2 .. Len(queue') : queue'[i] = queue[i - 1] /\ i - 1 \in 1 .. Len(queue)
  <2>1. queue \in Seq(PacketRecord) /\ Len(queue) \in Nat /\ DOMAIN queue = 1 .. Len(queue)
    BY <1>0, QueueTypes, LenProperties
  <2>2. queue' = <<x>> \o queue
    <3>1. CASE writing'
      BY <1>3, <3>1, Zenon
    <3>2. CASE queue = <<>>
      <4>1. <<x>> \o queue = <<x>>
        BY <3>2
      <4>2. QED
        BY <1>3, <4>1, Zenon
    <3>3. QED
      BY <1>4, <3>1, <3>2
  <2>3. queue \in Seq(Fits(n)') /\ <<x>> \in Seq(Fits(n)') /\ <<x>> \in Seq(PacketRecord)
    <3>1. Fits(n) \subseteq Fits(n)'
      BY <1>0, <1>1, <1>3, FitsGrow
    <3>2. QED
      BY <1>1, <1>7, <3>1, FitsMonotonic DEF ClientFits
  <2>4. /\ queue' \in Seq(PacketRecord) /\ queue' \in Seq(Fits(n)')
        /\ Len(queue') = Len(<<x>>) + Len(queue)
        /\ \A i \in 1 .. Len(<<x>>) + Len(queue) :
              queue'[i] = IF i <= Len(<<x>>) THEN <<x>>[i] ELSE queue[i - Len(<<x>>)]
    BY <2>1, <2>2, <2>3, ConcatProperties
  <2>5. Len(<<x>>) = 1 /\ <<x>>[1] = x
    OBVIOUS
  <2>6. /\ Len(queue') = Len(queue) + 1
        /\ \A i \in 1 .. Len(queue) + 1 : queue'[i] = IF i <= 1 THEN x ELSE queue[i - 1]
    BY <2>1, <2>4, <2>5
  <2>7. queue'[1] = x
    BY <2>1, <2>6
  <2>8. \A i \in 1 .. Len(queue) : queue'[i + 1] = queue[i]
    BY <2>1, <2>6
  <2>9. \A i \in 2 .. Len(queue') : queue'[i] = queue[i - 1] /\ i - 1 \in 1 .. Len(queue)
    BY <2>1, <2>6
  <2>10. QED
    BY <2>1, <2>4, <2>6, <2>7, <2>8, <2>9
\* The wire.
<1>9. \/ writing' = TRUE /\ up' = [up EXCEPT ![c] = Append(@, x)]
      \/ ~writing' /\ up' = up
  BY <1>6, Zenon DEF BeginSend
<1>10. /\ WireFits(n)' /\ Unused' /\ SessionsOK(n)'
       /\ FreshOK' /\ UsedOK(n)' /\ OwnPlain' /\ GaplessOK'
       /\ Mark' = Mark /\ OwnHandled' = OwnHandled
       /\ Fresh(c)' /\ (up' # up => Stream(c)' = <<x>>)
       /\ link_session'[c] = c
  <2>1. up' = up \/ (/\ up' = [up EXCEPT ![c] = Append(@, x)]
                     /\ IsReconnect(x) \/ \A m \in Sent : m <= Mark)
    BY <1>7, <1>9, Zenon
  <2>2. QED
    BY <1>3, <1>5, <1>6, <1>7, <2>1, AcceptGood
<1>11. Sent' = Sent
  BY <1>3, SentFrame
<1>12. n <= msg_seq' /\ NumbersGrow'
  BY <1>0, <1>1, <1>3, <1>6, NumbersGrowKept
<1>13. ClientFits(n)'
  <2>1. Fits(n) \subseteq Fits(n)'
    BY <1>0, <1>1, <1>3, FitsGrow
  <2>2. numbered' # NoPacket => numbered' \in Fits(n)' /\ numbered'.msg_id = "Message"
    BY <1>1, <1>3, <2>1 DEF ClientFits
  <2>3. QED
    BY <1>8, <2>2, Zenon DEF ClientFits
<1>14. Unconnected'
  BY <1>6, Zenon DEF Unconnected
<1>15. QueueOrder'
  <2>1. ASSUME NEW i \in 1 .. Len(queue'), IsReconnect(queue'[i]) PROVE i = 1
    <3>1. CASE i \in 2 .. Len(queue')
      BY <1>4, <1>8, <2>1, <3>1
    <3>2. CASE i = 1
      BY <3>2
    <3>3. QED
      BY <1>8, <3>1, <3>2
  <2>2. ASSUME NEW i \in 1 .. Len(queue'), NEW j \in 1 .. Len(queue'), i < j
        PROVE  IsReconnect(queue'[i]) \/ queue'[i].msg_seq < queue'[j].msg_seq
    <3>1. CASE i = 1
      BY <1>7, <1>8, <3>1
    <3>2. CASE i # 1
      <4>1. i \in 2 .. Len(queue') /\ j \in 2 .. Len(queue') /\ i - 1 < j - 1
        BY <1>8, <2>2, <3>2
      <4>2. QED
        BY <1>1, <1>8, <4>1 DEF QueueOrder
    <3>3. QED
      BY <3>1, <3>2
  <2>3. ASSUME numbered' # NoPacket, NEW i \in 1 .. Len(queue')
        PROVE  IsReconnect(queue'[i]) \/ queue'[i].msg_seq < numbered'.msg_seq
    <3>1. CASE i = 1
      BY <1>7, <1>8, <3>1
    <3>2. CASE i # 1
      <4>1. i \in 2 .. Len(queue') /\ numbered' = numbered
        BY <1>3, <1>8, <2>3, <3>2
      <4>2. QED
        BY <1>1, <1>8, <2>3, <4>1 DEF QueueOrder
    <3>3. QED
      BY <3>1, <3>2
  <2>4. idx' <= Len(queue') /\ idx' < Len(queue')
    BY <1>3, <1>8
  <2>5. QED
    BY <1>3, <2>1, <2>2, <2>3, <2>4, Zenon DEF QueueOrder
<1>16. AcksOK'
  BY <1>1, <1>3, <1>10, Zenon DEF AcksOK
<1>17. PrefixOK'
  BY <1>1, <1>3, <1>10, Zenon DEF PrefixOK
<1>18. QueuedOK'
  <2>1. ASSUME NEW m \in Sent, In(m, queue) PROVE In(m, queue')
    <3>1. PICK i \in 1 .. Len(queue) : queue[i].msg_seq = m
      BY <2>1 DEF In
    <3>2. i + 1 \in 1 .. Len(queue') /\ queue'[i + 1].msg_seq = m
      BY <1>8, <3>1
    <3>3. QED
      BY <3>2 DEF In
  <2>2. \A m \in Sent : In(m, queue') \/ (numbered # NoPacket /\ numbered.msg_seq = m) \/ m <= Mark
    BY <1>1, <2>1, Zenon DEF QueuedOK
  <2>3. QED
    BY <1>3, <1>10, <1>11, <2>2, Zenon DEF QueuedOK
<1>19. WrittenOK' /\ SilentOK'
  <2>1. idx' = 0 /\ Len(queue') \in Nat /\ Len(queue') # 0
    BY <1>3, <1>8
  <2>2. writing' => up' # up /\ queue'[1] = x
    <3>1. SUFFICES ASSUME writing' PROVE up' # up
      BY <1>8
    <3>2. up' = [up EXCEPT ![c] = Append(@, x)]
      BY <1>9, <3>1
    <3>3. up[c] = <<>> /\ up \in [Keys -> Seq(PacketRecord)]
      BY <1>0, <1>1, <1>6 DEF Unused, Untouched, TypeOK
    <3>4. up'[c] # up[c]
      BY <3>2, <3>3
    <3>5. QED
      BY <3>4
  <2>3. ~writing' => up' = up
    BY <1>9
  <2>4. QED
    BY <1>6, <1>7, <1>10, <1>11, <2>1, <2>2, <2>3, ConnectedFrame
<1>20. QED
  BY <1>10, <1>12, <1>13, <1>14, <1>15, <1>16, <1>17, <1>18, <1>19, Zenon DEF Good

-----------------------------------------------------------------------------
(* The server's steps. *)

LEMMA ClientKept ==
    ASSUME TInv, NEW n \in Nat, Good(n), UNCHANGED client
    PROVE  /\ n <= msg_seq' /\ ClientFits(n)' /\ Unconnected' /\ QueueOrder'
           /\ Fits(n)' = Fits(n) /\ Sent' = Sent /\ Written' = Written
           /\ UNCHANGED <<state, conn, msg_seq, numbered, queue, idx, writing, events, sent>>
<1>1. n <= msg_seq /\ ClientFits(n) /\ Unconnected /\ QueueOrder
  BY Zenon DEF Good
<1>2. UNCHANGED <<state, conn, msg_seq, numbered, queue, idx, writing, events, sent>>
  BY DEF client
<1>3. Sent' = Sent /\ Written' = Written
  BY <1>2 DEF Sent, Written
<1>4. Fits(n)' = Fits(n)
  BY <1>2, <1>3, Zenon DEF Fits
<1>5. QED
  BY <1>1, <1>2, <1>3, <1>4, Zenon DEF ClientFits, Unconnected, QueueOrder

\* The streams stay as they are, but for links that lose their session.
LEMMA StreamsKept ==
    ASSUME TInv, NEW n \in Nat, Good(n), UNCHANGED client, Own' <=> Own, Mark' = Mark,
           \A d \in Keys : link_session'[d] # 0 =>
               link_session'[d] = link_session[d] /\ Stream(d)' = Stream(d)
    PROVE  /\ OwnPlain' /\ GaplessOK' /\ WrittenOK' /\ SilentOK' /\ QueuedOK'
           /\ \A d \in Keys : Fresh(d)' => Fresh(d) /\ Opening(Stream(d)', d)
<1>1. OwnPlain /\ GaplessOK /\ WrittenOK /\ SilentOK /\ QueuedOK /\ FreshOK
  BY Zenon DEF Good
<1>2. /\ Sent' = Sent /\ Written' = Written
      /\ UNCHANGED <<state, conn, msg_seq, numbered, queue, idx, writing, events, sent>>
  BY ClientKept
<1>3. \A d \in Keys : Fresh(d)' => Fresh(d) /\ link_session'[d] # 0
  BY FirstKey DEF Fresh
<1>4. \A d \in Keys : Fresh(d)' => Fresh(d) /\ Opening(Stream(d)', d)
  BY <1>1, <1>3, Zenon DEF FreshOK
<1>5. OwnPlain'
  <2>1. SUFFICES ASSUME NEW d \in Keys, Own, link_session'[d] = 1 PROVE Plain(Stream(d)')
    BY Zenon DEF OwnPlain
  <2>2. link_session'[d] # 0
    BY <2>1
  <2>3. QED
    BY <1>1, <2>1, <2>2 DEF OwnPlain
<1>6. GaplessOK'
  BY <1>1, <1>2, Zenon DEF GaplessOK
<1>7. state = "Connected" => conn \in Keys
  BY DEF TInv, TypeOK, Stages, Keys
<1>8. WrittenOK'
  <2>1. SUFFICES ASSUME state = "Connected", link_session'[conn] # 0,
                        NEW j \in 1 .. Len(queue), j <= Written, queue[j].msg_seq \in Sent
                 PROVE  queue[j].msg_seq <= Mark \/ In(queue[j].msg_seq, Stream(conn)')
    BY <1>2, Zenon DEF WrittenOK
  <2>2. link_session[conn] # 0 /\ Stream(conn)' = Stream(conn)
    BY <1>2, <1>7, <2>1, Zenon
  <2>3. QED
    BY <1>1, <2>1, <2>2 DEF WrittenOK
<1>9. SilentOK'
  <2>1. SUFFICES ASSUME state = "Connected", Fresh(conn)', Stream(conn)' = <<>>
                 PROVE  ~writing /\ idx < Len(queue)
    BY <1>2, Zenon DEF SilentOK
  <2>2. Fresh(conn) /\ Stream(conn)' = Stream(conn)
    BY <1>2, <1>3, <1>7, <2>1, Zenon
  <2>3. QED
    BY <1>1, <2>1, <2>2, Zenon DEF SilentOK
<1>10. QueuedOK'
  BY <1>1, <1>2, Zenon DEF QueuedOK
<1>11. QED
  BY <1>4, <1>5, <1>6, <1>8, <1>9, <1>10

\* A session has one link at most, and one that is not its first has a token.
LEMMA OneLink ==
    ASSUME TypeOK, NEW n, SessionsOK(n), NEW c \in Keys, link_session[c] # 0
    PROVE  /\ \A d \in Keys : link_session[d] = link_session[c] => d = c
           /\ link_session[c] = 1 \/ link_session[c] = c
           /\ Fresh(link_session[c]) \/ (link_session[c] = 1 /\ Own)
           /\ Fresh(link_session[c]) => link_session[c] = c
<1>1. /\ \A d \in Keys : link_session[d] \in {0, 1, d}
      /\ \A d, e \in Keys : link_session[d] = 1 /\ link_session[e] = 1 => d = e
      /\ \A d \in Keys : link_session[d] = 1 => d = 1 \/ Own
  BY Zenon DEF SessionsOK
<1>2. \A d \in Keys : link_session[d] = link_session[c] => d = c
  BY <1>1
<1>3. link_session[c] = 1 \/ link_session[c] = c
  BY <1>1
<1>4. Fresh(link_session[c]) \/ (link_session[c] = 1 /\ Own)
  BY <1>1, <1>3 DEF Fresh
<1>5. Fresh(link_session[c]) => link_session[c] = c
  <2>1. link_session[c] \in Keys
    BY StreamTypes
  <2>2. QED
    BY <1>2, <2>1 DEF Fresh
<1>6. QED
  BY <1>2, <1>3, <1>4, <1>5

LEMMA LinkClosesGood ==
    ASSUME TInv, NEW n \in Nat, Good(n), NEW c \in Keys, LinkCloses(c)
    PROVE  Good(n)'
<1>0. TypeOK
  BY DEF TInv
<1>1. /\ NumbersGrow /\ WireFits(n) /\ Unused /\ SessionsOK(n)
      /\ FreshOK /\ UsedOK(n) /\ AcksOK /\ PrefixOK
  BY Zenon DEF Good
<1>2. /\ reading = Idle /\ link_session' = [link_session EXCEPT ![c] = 0]
      /\ UNCHANGED client
      /\ UNCHANGED <<up, down, recv_packet, session_seq, session_token, sessions, tokens,
                     reading, handled>>
  BY Zenon DEF LinkCloses
<1>3. link_session'[c] = 0 /\ \A d \in Keys : d # c => link_session'[d] = link_session[d]
  BY <1>0, <1>2 DEF TypeOK
<1>4. /\ Own' <=> Own
      /\ Mark' = Mark /\ OwnHandled' = OwnHandled
  BY <1>2 DEF Own, Mark, OwnHandled
<1>5. /\ n <= msg_seq' /\ ClientFits(n)' /\ Unconnected' /\ QueueOrder'
      /\ Fits(n)' = Fits(n) /\ Sent' = Sent
      /\ UNCHANGED <<conn, msg_seq, events, sent>>
  BY <1>2, ClientKept
<1>6. \A d \in Keys : link_session'[d] # 0 =>
               link_session'[d] = link_session[d] /\ Stream(d)' = Stream(d)
  BY <1>2, <1>3 DEF Stream
<1>7. /\ OwnPlain' /\ GaplessOK' /\ WrittenOK' /\ SilentOK' /\ QueuedOK'
      /\ \A d \in Keys : Fresh(d)' => Fresh(d) /\ Opening(Stream(d)', d)
  BY <1>2, <1>4, <1>6, StreamsKept
<1>8. NumbersGrow' /\ WireFits(n)' /\ AcksOK' /\ PrefixOK'
  BY <1>1, <1>2, <1>4, <1>5, Zenon DEF NumbersGrow, WireFits, AcksOK, PrefixOK
<1>9. Unused'
  <2>1. \A d \in Keys : link_session[d] = 0 => link_session'[d] = 0
    BY <1>3
  <2>2. QED
    BY <1>1, <1>2, <1>5, <2>1, Zenon DEF Unused, Untouched
<1>10. SessionsOK(n)'
  <2>1. \A d \in Keys : link_session'[d] = 0 \/ link_session'[d] = link_session[d]
    BY <1>3
  <2>2. \A d \in Keys : link_session'[d] \in {0, 1, d}
    BY <1>1, <2>1 DEF SessionsOK
  <2>3. \A d, e \in Keys : link_session'[d] = 1 /\ link_session'[e] = 1 => d = e
    BY <1>1, <2>1 DEF SessionsOK
  <2>4. \A d \in Keys : link_session'[d] = 1 => d = 1 \/ Own
    BY <1>1, <2>1 DEF SessionsOK
  <2>5. QED
    BY <1>1, <1>2, <1>4, <2>2, <2>3, <2>4, Zenon DEF SessionsOK
<1>11. FreshOK'
  BY <1>1, <1>2, <1>7, Zenon DEF FreshOK
<1>12. UsedOK(n)'
  <2>1. SUFFICES ASSUME NEW s \in Keys, ~Fresh(s)', recv_packet[s] # <<>>
                 PROVE  Plain(recv_packet[s]) /\ n <= session_seq[s]
    BY <1>2, Zenon DEF UsedOK
  <2>2. ~Fresh(s)
    <3>1. SUFFICES ASSUME Fresh(s) PROVE FALSE
      OBVIOUS
    <3>2. reading = [link |-> s, session |-> s]
      BY <1>1, <2>1, <3>1 DEF FreshOK
    <3>3. s # 0
      BY FirstKey
    <3>4. QED
      BY <1>2, <3>2, <3>3 DEF Idle
  <2>3. QED
    BY <1>1, <2>1, <2>2 DEF UsedOK
<1>13. QED
  BY <1>5, <1>7, <1>8, <1>9, <1>10, <1>11, <1>12, Zenon DEF Good

LEMMA IdleTimerGood ==
    ASSUME TInv, NEW n \in Nat, Good(n), NEW s \in Keys, IdleTimer(s)
    PROVE  Good(n)'
<1>1. /\ NumbersGrow /\ WireFits(n) /\ Unused /\ SessionsOK(n)
      /\ FreshOK /\ UsedOK(n) /\ AcksOK /\ PrefixOK
  BY Zenon DEF Good
<1>2. /\ UNCHANGED client /\ sessions' \subseteq sessions
      /\ UNCHANGED <<up, down, link_session, recv_packet, session_seq, session_token,
                     reading, handled>>
  BY DEF IdleTimer
<1>3. /\ Own' <=> Own
      /\ Mark' = Mark /\ OwnHandled' = OwnHandled
      /\ \A d : Fresh(d)' <=> Fresh(d)
      /\ \A d : Stream(d)' = Stream(d)
  BY <1>2 DEF Own, Mark, OwnHandled, Fresh, Stream
<1>4. /\ n <= msg_seq' /\ ClientFits(n)' /\ Unconnected' /\ QueueOrder'
      /\ Fits(n)' = Fits(n) /\ Sent' = Sent
      /\ UNCHANGED <<conn, msg_seq, events, sent>>
  BY <1>2, ClientKept
<1>5. /\ OwnPlain' /\ GaplessOK' /\ WrittenOK' /\ SilentOK' /\ QueuedOK'
      /\ \A d \in Keys : Fresh(d)' => Fresh(d) /\ Opening(Stream(d)', d)
  BY <1>2, <1>3, StreamsKept
<1>6. NumbersGrow' /\ WireFits(n)' /\ AcksOK' /\ PrefixOK'
  BY <1>1, <1>2, <1>3, <1>4, Zenon DEF NumbersGrow, WireFits, AcksOK, PrefixOK
<1>7. Unused'
  BY <1>1, <1>2, <1>4, Zenon DEF Unused, Untouched
<1>8. SessionsOK(n)'
  <2>1. \A t \in sessions' : t = 1 /\ Own
    BY <1>1, <1>2 DEF SessionsOK
  <2>2. QED
    BY <1>1, <1>2, <1>3, <2>1, Zenon DEF SessionsOK
<1>9. FreshOK' /\ UsedOK(n)'
  BY <1>1, <1>2, <1>3, <1>5, Zenon DEF FreshOK, UsedOK
<1>10. QED
  BY <1>4, <1>5, <1>6, <1>7, <1>8, <1>9, Zenon DEF Good

LEMMA ReadGood ==
    ASSUME TInv, NEW n \in Nat, Good(n), NEW c \in Keys, Read(c)
    PROVE  Good(n)'
<1>0. TypeOK /\ Stages
  BY DEF TInv
<1>1. /\ NumbersGrow /\ WireFits(n) /\ Unused /\ SessionsOK(n)
      /\ FreshOK /\ UsedOK(n) /\ OwnPlain /\ AcksOK /\ PrefixOK
  BY Zenon DEF Good
<1>2. /\ reading = Idle /\ up[c] # <<>>
      /\ UNCHANGED client
      /\ UNCHANGED <<down, link_session, session_seq, session_token, sessions, tokens, handled>>
  BY Zenon DEF Read
<1>3. /\ Own' <=> Own
      /\ Mark' = Mark /\ OwnHandled' = OwnHandled
      /\ \A d : Fresh(d)' <=> Fresh(d)
  BY <1>2 DEF Own, Mark, OwnHandled, Fresh
<1>4. /\ n <= msg_seq' /\ ClientFits(n)' /\ Unconnected' /\ QueueOrder'
      /\ Fits(n)' = Fits(n) /\ Sent' = Sent
      /\ UNCHANGED <<conn, msg_seq, events, sent>>
  BY <1>2, ClientKept
<1>5. NumbersGrow' /\ AcksOK' /\ PrefixOK'
  BY <1>1, <1>2, <1>3, <1>4, Zenon DEF NumbersGrow, AcksOK, PrefixOK
<1>6. WireFits(n)'
  <2>1. link_session \in [Keys -> 0 .. MaxConnections]
    BY <1>0 DEF TypeOK
  <2>2. up' \in [Keys -> Seq(Fits(n))] /\ recv_packet' \in [Keys -> Seq(Fits(n))]
    BY <1>1, <2>1, ReadIn DEF WireFits
  <2>3. QED
    BY <1>4, <2>2, Zenon DEF WireFits
\* A link without session is closed.
<1>7. CASE link_session[c] = 0
  <2>1. UNCHANGED <<up, recv_packet, reading>>
    BY <1>7, Zenon DEF Read
  <2>2. \A d : Stream(d)' = Stream(d)
    BY <1>2, <2>1 DEF Stream
  <2>3. /\ OwnPlain' /\ GaplessOK' /\ WrittenOK' /\ SilentOK' /\ QueuedOK'
        /\ \A d \in Keys : Fresh(d)' => Fresh(d) /\ Opening(Stream(d)', d)
    BY <1>2, <1>3, <2>2, StreamsKept
  <2>4. Unused' /\ SessionsOK(n)'
    BY <1>1, <1>2, <1>3, <1>4, <2>1, Zenon DEF Unused, Untouched, SessionsOK
  <2>5. FreshOK' /\ UsedOK(n)'
    BY <1>1, <1>2, <1>3, <2>1, <2>3, Zenon DEF FreshOK, UsedOK
  <2>6. QED
    BY <1>4, <1>5, <1>6, <2>3, <2>4, <2>5, Zenon DEF Good
<1>8. CASE link_session[c] # 0
  <2>1. PICK s : s = link_session[c]
    OBVIOUS
  <2>2. PICK i \in 1 .. Len(up[c]) :
          /\ recv_packet' = [recv_packet EXCEPT ![s] = @ \o SubSeq(up[c], 1, i)]
          /\ up' = [up EXCEPT ![c] = SubSeq(@, i + 1, Len(@))]
    BY <1>8, <2>1, Zenon DEF Read
  <2>3. reading' = [link |-> c, session |-> s]
    BY <1>8, <2>1, Zenon DEF Read
  <2>4. /\ s \in Keys /\ s # 0 /\ up[c] \in Seq(PacketRecord)
        /\ recv_packet[s] \in Seq(PacketRecord) /\ Stream(c) \in Seq(PacketRecord)
        /\ Stream(c) = recv_packet[s] \o up[c]
    BY <1>0, <1>8, <2>1, StreamTypes DEF Stream
  <2>5. /\ \A d \in Keys : link_session[d] = s => d = c
        /\ s = 1 \/ s = c
        /\ Fresh(s) \/ (s = 1 /\ Own)
        /\ Fresh(s) => s = c
    BY <1>0, <1>1, <1>8, <2>1, OneLink
  <2>6. /\ recv_packet \in [Keys -> Seq(PacketRecord)] /\ up \in [Keys -> Seq(PacketRecord)]
        /\ link_session \in [Keys -> 0 .. MaxConnections] /\ i \in 0 .. Len(up[c])
    <3>1. i \in 0 .. Len(up[c])
      BY <2>4, LenProperties
    <3>2. QED
      BY <1>0, <3>1 DEF TypeOK
  <2>7. /\ recv_packet'[s] = recv_packet[s] \o SubSeq(up[c], 1, i)
        /\ up'[c] = SubSeq(up[c], i + 1, Len(up[c]))
        /\ \A d \in Keys : d # s => recv_packet'[d] = recv_packet[d]
        /\ \A d \in Keys : d # c => up'[d] = up[d]
    BY <2>2, <2>4, <2>6
  <2>8. /\ Stream(c)' = Stream(c) /\ Stream(c) = recv_packet'[s] \o up'[c]
        /\ recv_packet'[s] \in Seq(PacketRecord) /\ up'[c] \in Seq(PacketRecord)
    <3>1. (recv_packet[s] \o SubSeq(up[c], 1, i)) \o SubSeq(up[c], i + 1, Len(up[c]))
            = recv_packet[s] \o up[c]
      BY <2>4, <2>6, ReadOfStream
    <3>2. recv_packet'[s] \o up'[c] = Stream(c)
      BY <2>4, <2>7, <3>1
    <3>3. Stream(c)' = recv_packet'[s] \o up'[c]
      BY <1>2, <2>1 DEF Stream
    <3>4. recv_packet'[s] \in Seq(PacketRecord) /\ up'[c] \in Seq(PacketRecord)
      BY <2>4, <2>6, <2>7, Parts, ConcatProperties
    <3>5. QED
      BY <3>2, <3>3, <3>4
  <2>9. ASSUME NEW d \in Keys, link_session[d] # 0 PROVE Stream(d)' = Stream(d)
    <3>1. CASE d = c
      BY <2>8, <3>1
    <3>2. CASE d # c
      <4>1. link_session[d] \in Keys /\ link_session[d] # s
        BY <1>0, <2>5, <2>9, <3>2, StreamTypes
      <4>2. QED
        BY <1>2, <2>7, <3>2, <4>1 DEF Stream
    <3>3. QED
      BY <3>1, <3>2
  <2>10. /\ OwnPlain' /\ GaplessOK' /\ WrittenOK' /\ SilentOK' /\ QueuedOK'
         /\ \A d \in Keys : Fresh(d)' => Fresh(d) /\ Opening(Stream(d)', d)
    <3>1. \A d \in Keys : link_session'[d] # 0 =>
               link_session'[d] = link_session[d] /\ Stream(d)' = Stream(d)
      BY <1>2, <2>9
    <3>2. QED
      BY <1>2, <1>3, <3>1, StreamsKept
  <2>11. Unused'
    <3>1. SUFFICES ASSUME NEW d \in Keys, d > conn PROVE Untouched(d)'
      BY <1>4, Zenon DEF Unused
    <3>2. Untouched(d)
      BY <1>1, <3>1 DEF Unused
    <3>3. d # c
      BY <1>2, <3>2 DEF Untouched
    <3>4. d # s
      <4>1. ~(c > conn)
        BY <1>1, <1>2 DEF Unused, Untouched
      <4>2. c \in Nat /\ 1 <= c /\ conn \in Nat /\ d \in Nat
        BY <1>0 DEF TypeOK, Keys
      <4>3. QED
        BY <2>5, <3>1, <4>1, <4>2
    <3>5. QED
      BY <1>2, <2>7, <3>2, <3>3, <3>4, Zenon DEF Untouched
  <2>12. SessionsOK(n)'
    <3>1. reading'.session = 1 => link_session[reading'.link] = 1
      BY <2>1, <2>3
    <3>2. QED
      BY <1>1, <1>2, <1>3, <3>1, Zenon DEF SessionsOK
  <2>13. FreshOK'
    <3>1. SUFFICES ASSUME NEW d \in Keys, Fresh(d), recv_packet'[d] # <<>>
                   PROVE  reading' = [link |-> d, session |-> d]
      BY <1>1, <1>2, <1>3, <2>10, Zenon DEF FreshOK
    <3>2. CASE d = s
      BY <2>3, <2>5, <3>1, <3>2
    <3>3. CASE d # s
      <4>1. reading = [link |-> d, session |-> d]
        BY <1>1, <2>7, <3>1, <3>3 DEF FreshOK
      <4>2. QED
        BY <1>2, <4>1, FirstKey DEF Idle
    <3>4. QED
      BY <3>2, <3>3
  <2>14. UsedOK(n)'
    <3>1. SUFFICES ASSUME NEW d \in Keys, ~Fresh(d), recv_packet'[d] # <<>>
                   PROVE  Plain(recv_packet'[d]) /\ n <= session_seq[d]
      BY <1>2, <1>3, Zenon DEF UsedOK
    <3>2. CASE d = s
      <4>1. s = 1 /\ Own
        BY <2>5, <3>1, <3>2
      <4>2. Plain(recv_packet'[s] \o up'[c])
        BY <1>1, <2>1, <2>8, <4>1 DEF OwnPlain
      <4>3. Plain(recv_packet'[s])
        BY <2>8, <4>2, PlainParts
      <4>4. n <= session_seq[1]
        BY <1>1, <4>1 DEF SessionsOK
      <4>5. QED
        BY <3>2, <4>1, <4>3, <4>4
    <3>3. CASE d # s
      BY <1>1, <2>7, <3>1, <3>3 DEF UsedOK
    <3>4. QED
      BY <3>2, <3>3
  <2>15. QED
    BY <1>4, <1>5, <1>6, <2>10, <2>11, <2>12, <2>13, <2>14, Zenon DEF Good
<1>9. QED
  BY <1>7, <1>8

LEMMA InTail ==
    ASSUME NEW q \in Seq(PacketRecord), q # <<>>, NEW m, In(m, q)
    PROVE  m = q[1].msg_seq \/ In(m, Tail(q))
<1>1. /\ Len(q) \in Nat /\ Len(Tail(q)) = Len(q) - 1
      /\ \A i \in 1 .. Len(q) - 1 : Tail(q)[i] = q[i + 1]
  BY HeadTailProperties, LenProperties
<1>2. PICK i \in 1 .. Len(q) : q[i].msg_seq = m
  BY DEF In
<1>3. CASE i = 1
  BY <1>2, <1>3
<1>4. CASE i # 1
  <2>1. i - 1 \in 1 .. Len(q) - 1 /\ (i - 1) + 1 = i
    BY <1>1, <1>4
  <2>2. i - 1 \in 1 .. Len(Tail(q)) /\ Tail(q)[i - 1].msg_seq = m
    BY <1>1, <1>2, <2>1
  <2>3. QED
    BY <2>2 DEF In
<1>5. QED
  BY <1>3, <1>4

\* OnRecvMsg is at a packet of session s: what the session and its stream look like.
LEMMA AtPacketGood ==
    ASSUME TInv, NEW n \in Nat, Good(n), NEW s \in Keys, NEW p, AtPacket(s, p)
    PROVE  /\ p \in Fits(n) /\ p \in PacketRecord /\ p.msg_seq \in Nat \ {0} /\ p.msg_seq <= msg_seq
           /\ reading \in [link : Keys, session : Keys] /\ reading.link \in Keys
           /\ reading # Idle /\ reading.session = s
           /\ recv_packet[s] # <<>> /\ Tail(recv_packet[s]) \in Seq(Fits(n))
           /\ \A d \in Keys : link_session[d] = s =>
                 /\ Stream(d) \in Seq(PacketRecord) /\ Stream(d) # <<>> /\ Stream(d)[1] = p
                 /\ Tail(recv_packet[s]) \o up[d] = Tail(Stream(d))
           /\ ~(s > conn) /\ Plain(Tail(recv_packet[s]))
           /\ Fresh(s) => /\ reading = [link |-> s, session |-> s]
                          /\ session_seq[s] = 0 /\ handled[s] = <<>> /\ link_session[s] = s
                          /\ IsReconnect(p) \/ (s = 1 /\ IsConnect(p))
                          /\ Plain(Tail(Stream(s)))
           /\ ~Fresh(s) => ~IsReconnect(p) /\ n <= session_seq[s]
<1>0. TypeOK
  BY DEF TInv
<1>1. /\ WireFits(n) /\ Unused /\ SessionsOK(n) /\ FreshOK /\ UsedOK(n) /\ OwnPlain
  BY Zenon DEF Good
<1>2. /\ p \in PacketRecord /\ p.msg_seq \in Nat \ {0}
      /\ recv_packet[s] \in Seq(PacketRecord) /\ recv_packet[s] # <<>>
      /\ reading \in [link : Keys, session : Keys] /\ reading.link \in Keys
  BY <1>0, AtPacketTypes
<1>3. reading # Idle /\ reading.session = s /\ p = Head(recv_packet[s])
  BY Zenon DEF AtPacket
<1>4. recv_packet[s] \in Seq(Fits(n))
  BY <1>1 DEF WireFits
<1>5. p \in Fits(n) /\ Tail(recv_packet[s]) \in Seq(Fits(n)) /\ Head(recv_packet[s]) = recv_packet[s][1]
  BY <1>2, <1>3, <1>4, HeadTailProperties
<1>6. p.msg_seq <= msg_seq
  BY <1>5 DEF Fits
<1>7. ASSUME NEW d \in Keys, link_session[d] = s
      PROVE  /\ Stream(d) \in Seq(PacketRecord) /\ Stream(d) # <<>> /\ Stream(d)[1] = p
             /\ Tail(recv_packet[s]) \o up[d] = Tail(Stream(d)) /\ up[d] \in Seq(PacketRecord)
  <2>1. s # 0
    BY FirstKey
  <2>2. /\ up[d] \in Seq(PacketRecord) /\ Stream(d) \in Seq(PacketRecord)
        /\ Stream(d) = recv_packet[s] \o up[d]
    BY <1>0, <1>7, <2>1, StreamTypes DEF Stream
  <2>3. /\ Tail(recv_packet[s]) \o up[d] = Tail(recv_packet[s] \o up[d])
        /\ recv_packet[s] \o up[d] # <<>>
        /\ (recv_packet[s] \o up[d])[1] = Head(recv_packet[s])
    BY <1>2, <2>2, TailOfStream
  <2>4. QED
    BY <1>3, <2>2, <2>3
<1>8. ~(s > conn)
  BY <1>1, <1>2 DEF Unused, Untouched
<1>9. ASSUME Fresh(s)
      PROVE  /\ reading = [link |-> s, session |-> s]
             /\ session_seq[s] = 0 /\ handled[s] = <<>> /\ link_session[s] = s
             /\ IsReconnect(p) \/ (s = 1 /\ IsConnect(p))
             /\ Plain(Tail(Stream(s))) /\ Plain(Tail(recv_packet[s]))
  <2>1. /\ session_seq[s] = 0 /\ handled[s] = <<>> /\ Opening(Stream(s), s)
        /\ reading = [link |-> s, session |-> s]
    BY <1>1, <1>2, <1>9 DEF FreshOK
  <2>2. link_session[s] = s
    BY <1>9 DEF Fresh
  <2>3. IsReconnect(p) \/ (s = 1 /\ IsConnect(p))
    BY <1>7, <2>1, <2>2 DEF Opening
  <2>4. Plain(Tail(Stream(s)))
    BY <1>7, <2>1, <2>2, TailPlain
  <2>5. Plain(Tail(recv_packet[s]))
    <3>1. Plain(Tail(recv_packet[s]) \o up[s])
      BY <1>7, <2>2, <2>4
    <3>2. Tail(recv_packet[s]) \in Seq(PacketRecord) /\ up[s] \in Seq(PacketRecord)
      BY <1>2, <1>7, <2>2, HeadTailProperties
    <3>3. QED
      BY <3>1, <3>2, PlainParts
  <2>6. QED
    BY <2>1, <2>2, <2>3, <2>4, <2>5
<1>10. ASSUME ~Fresh(s) PROVE ~IsReconnect(p) /\ n <= session_seq[s] /\ Plain(Tail(recv_packet[s]))
  <2>1. Plain(recv_packet[s]) /\ n <= session_seq[s]
    BY <1>1, <1>2, <1>10 DEF UsedOK
  <2>2. Plain(Tail(recv_packet[s]))
    BY <1>2, <2>1, TailPlain
  <2>3. 1 \in 1 .. Len(recv_packet[s])
    BY <1>2, LenProperties, EmptySeq
  <2>4. QED
    BY <1>3, <1>5, <2>1, <2>2, <2>3 DEF Plain
<1>11. QED
  BY <1>2, <1>3, <1>5, <1>6, <1>7, <1>8, <1>9, <1>10

\* Streams lose their first packet, which is handled, and links get another session.
LEMMA StreamsConsumed ==
    ASSUME TInv, NEW n \in Nat, Good(n), UNCHANGED client, Own => Own',
           Mark' \in Nat, Mark <= Mark',
           \A d \in Keys : link_session'[d] # 0 =>
               /\ link_session[d] # 0
               /\ \/ link_session'[d] = link_session[d] /\ Stream(d)' = Stream(d)
                  \/ /\ ~Fresh(d)' /\ Stream(d) # <<>> /\ Stream(d)' = Tail(Stream(d))
                     /\ Stream(d)[1].msg_seq \in Sent => Stream(d)[1].msg_seq <= Mark'
    PROVE  /\ GaplessOK' /\ WrittenOK' /\ SilentOK' /\ QueuedOK'
           /\ \A d \in Keys : Fresh(d)' => Fresh(d) /\ Opening(Stream(d)', d)
<1>0. TypeOK
  BY DEF TInv
<1>1. GaplessOK /\ WrittenOK /\ SilentOK /\ QueuedOK /\ FreshOK /\ NumbersGrow
  BY Zenon DEF Good
<1>2. /\ Sent' = Sent /\ Written' = Written
      /\ UNCHANGED <<state, conn, msg_seq, numbered, queue, idx, writing, events, sent>>
  BY ClientKept
<1>3. Mark \in Nat /\ \A m \in Sent : m \in Nat
  BY <1>0, <1>1, MarkTypes, SentTypes
<1>4. \A m \in Sent : m <= Mark => m <= Mark'
  BY <1>3
<1>5. \A d \in Keys : Fresh(d)' => /\ Fresh(d) /\ Stream(d)' = Stream(d)
  <2>1. SUFFICES ASSUME NEW d \in Keys, Fresh(d)' PROVE Fresh(d) /\ Stream(d)' = Stream(d)
    OBVIOUS
  <2>2. link_session'[d] = d /\ d # 0 /\ (d = 1 => ~Own)
    BY <2>1, FirstKey DEF Fresh
  <2>3. link_session'[d] = link_session[d] /\ Stream(d)' = Stream(d)
    BY <2>1, <2>2
  <2>4. QED
    BY <2>2, <2>3 DEF Fresh
<1>6. \A d \in Keys : Fresh(d)' => Fresh(d) /\ Opening(Stream(d)', d)
  BY <1>1, <1>5, Zenon DEF FreshOK
<1>7. GaplessOK'
  <2>1. SUFFICES ASSUME NEW d \in Keys, link_session'[d] # 0
                 PROVE  Gapless(Stream(d)', Sent, Mark')
    BY <1>2, Zenon DEF GaplessOK
  <2>2. link_session[d] # 0 /\ Gapless(Stream(d), Sent, Mark) /\ Stream(d) \in Seq(PacketRecord)
    BY <1>0, <1>1, <2>1, StreamTypes DEF GaplessOK
  <2>3. CASE Stream(d)' = Stream(d)
    BY <1>4, <2>2, <2>3 DEF Gapless
  <2>4. CASE /\ Stream(d) # <<>> /\ Stream(d)' = Tail(Stream(d))
             /\ Stream(d)[1].msg_seq \in Sent => Stream(d)[1].msg_seq <= Mark'
    <3>1. \A m \in Sent : m <= Mark \/ m = Stream(d)[1].msg_seq => m <= Mark'
      BY <1>4, <2>4
    <3>2. Gapless(Tail(Stream(d)), Sent, Mark')
      BY <2>2, <2>4, <3>1, StreamTail
    <3>3. QED
      BY <2>4, <3>2
  <2>5. QED
    BY <2>1, <2>3, <2>4
<1>8. state = "Connected" => conn \in Keys
  BY DEF TInv, TypeOK, Stages, Keys
<1>9. WrittenOK'
  <2>1. SUFFICES ASSUME state = "Connected", link_session'[conn] # 0,
                        NEW j \in 1 .. Len(queue), j <= Written, queue[j].msg_seq \in Sent
                 PROVE  queue[j].msg_seq <= Mark' \/ In(queue[j].msg_seq, Stream(conn)')
    BY <1>2, Zenon DEF WrittenOK
  <2>2. conn \in Keys /\ link_session[conn] # 0
    BY <1>8, <2>1
  <2>3. /\ queue[j].msg_seq <= Mark \/ In(queue[j].msg_seq, Stream(conn))
        /\ Stream(conn) \in Seq(PacketRecord)
    BY <1>0, <1>1, <2>1, <2>2, StreamTypes DEF WrittenOK
  <2>4. \/ Stream(conn)' = Stream(conn)
        \/ /\ Stream(conn) # <<>> /\ Stream(conn)' = Tail(Stream(conn))
           /\ Stream(conn)[1].msg_seq \in Sent => Stream(conn)[1].msg_seq <= Mark'
    BY <1>2, <2>1, <2>2, Zenon
  <2>5. CASE queue[j].msg_seq <= Mark
    BY <1>4, <2>1, <2>5
  <2>6. CASE In(queue[j].msg_seq, Stream(conn))
    <3>1. CASE Stream(conn)' = Stream(conn)
      BY <2>6, <3>1
    <3>2. CASE /\ Stream(conn) # <<>> /\ Stream(conn)' = Tail(Stream(conn))
               /\ Stream(conn)[1].msg_seq \in Sent => Stream(conn)[1].msg_seq <= Mark'
      <4>1. queue[j].msg_seq = Stream(conn)[1].msg_seq \/ In(queue[j].msg_seq, Tail(Stream(conn)))
        BY <2>3, <2>6, <3>2, InTail
      <4>2. QED
        BY <2>1, <3>2, <4>1
    <3>3. QED
      BY <2>4, <3>1, <3>2
  <2>7. QED
    BY <2>3, <2>5, <2>6
<1>10. SilentOK'
  <2>1. SUFFICES ASSUME state = "Connected", Fresh(conn)', Stream(conn)' = <<>>
                 PROVE  ~writing /\ idx < Len(queue)
    BY <1>2, Zenon DEF SilentOK
  <2>2. Fresh(conn) /\ Stream(conn)' = Stream(conn)
    BY <1>2, <1>5, <1>8, <2>1, Zenon
  <2>3. QED
    BY <1>1, <2>1, <2>2, Zenon DEF SilentOK
<1>11. QueuedOK'
  BY <1>1, <1>2, <1>4, Zenon DEF QueuedOK
<1>12. QED
  BY <1>6, <1>7, <1>9, <1>10, <1>11

\* An answer is put on a connection: an acknowledgement of what has been handled.
LEMMA AcksKept ==
    ASSUME TInv, NEW n \in Nat, Good(n), UNCHANGED events, Mark' \in Nat, Mark <= Mark',
           NEW C, NEW a,
           down' = [c \in Keys |-> IF c \in C THEN Append(down[c], a) ELSE down[c]],
           a.msg_id = "HeartBeat_Ans" /\ C \cap Keys # {} => a.msg_seq <= Mark'
    PROVE  AcksOK'
<1>1. AcksOK /\ TypeOK /\ Mark \in Nat
  BY MarkTypes DEF TInv, Good
<1>2. ASSUME NEW i \in DOMAIN events, events[i].msg_id = "HeartBeat_Ans"
      PROVE  events[i].msg_seq <= Mark'
  <2>1. events[i].msg_seq <= Mark
    BY <1>1, <1>2 DEF AcksOK
  <2>2. events[i] \in AnswerRecord
    BY <1>1 DEF TypeOK
  <2>4. events[i].msg_seq \in Nat
    BY <2>2 DEF AnswerRecord
  <2>3. QED
    BY <1>1, <2>1, <2>4
<1>3. ASSUME NEW c \in Keys, NEW i \in DOMAIN down'[c], down'[c][i].msg_id = "HeartBeat_Ans"
      PROVE  down'[c][i].msg_seq <= Mark'
  <2>1. down[c] \in Seq(AnswerRecord) /\ DOMAIN down[c] = 1 .. Len(down[c]) /\ Len(down[c]) \in Nat
    BY <1>1, LenProperties DEF TypeOK
  <2>2. ASSUME NEW j \in DOMAIN down[c], down[c][j].msg_id = "HeartBeat_Ans"
        PROVE  down[c][j].msg_seq <= Mark'
    <3>1. down[c][j].msg_seq <= Mark
      BY <1>1, <2>2 DEF AcksOK
    <3>2. down[c][j] \in AnswerRecord
      BY <2>1
    <3>3. down[c][j].msg_seq \in Nat
      BY <3>2 DEF AnswerRecord
    <3>4. QED
      BY <1>1, <3>1, <3>3
  <2>3. CASE c \in C
    <3>1. down'[c] = Append(down[c], a)
      BY <2>3
    <3>2. /\ DOMAIN Append(down[c], a) = 1 .. Len(down[c]) + 1
          /\ \A j \in 1 .. Len(down[c]) : Append(down[c], a)[j] = down[c][j]
          /\ Append(down[c], a)[Len(down[c]) + 1] = a
      BY <2>1
    <3>3. CASE i = Len(down[c]) + 1
      BY <1>3, <2>3, <3>1, <3>2, <3>3
    <3>4. CASE i \in 1 .. Len(down[c])
      BY <1>3, <2>1, <2>2, <3>1, <3>2, <3>4
    <3>5. QED
      BY <2>1, <3>1, <3>2, <3>3, <3>4
  <2>4. CASE c \notin C
    BY <1>3, <2>2, <2>4
  <2>5. QED
    BY <2>3, <2>4
<1>4. QED
  BY <1>2, <1>3, Zenon DEF AcksOK

\* A packet of a session that is not fresh: it has been handled before, or its number
\* is now the session's.
LEMMA UsedPacketGood ==
    ASSUME TInv, NEW n \in Nat, Good(n), UNCHANGED client, UNCHANGED up,
           UNCHANGED <<link_session, session_token, sessions>>,
           NEW s \in Keys, NEW p, AtPacket(s, p), Consume(s, recv_packet), ~Fresh(s),
           NEW v \in Nat, session_seq' = [session_seq EXCEPT ![s] = v],
           (v = session_seq[s] /\ p.msg_seq <= v) \/ (v = p.msg_seq /\ session_seq[s] <= v),
           AcksOK' , s = 1 /\ Own => PrefixOK', \A d \in Keys : d # s => handled'[d] = handled[d]
    PROVE  Good(n)'
<1>0. TypeOK
  BY DEF TInv
<1>1. /\ NumbersGrow /\ WireFits(n) /\ Unused /\ SessionsOK(n)
      /\ FreshOK /\ UsedOK(n) /\ OwnPlain /\ PrefixOK
  BY Zenon DEF Good
<1>2. /\ p \in Fits(n) /\ p.msg_seq \in Nat \ {0} /\ p.msg_seq <= msg_seq
      /\ reading # Idle /\ reading.session = s
      /\ recv_packet[s] # <<>> /\ Tail(recv_packet[s]) \in Seq(Fits(n))
      /\ \A d \in Keys : link_session[d] = s =>
            /\ Stream(d) \in Seq(PacketRecord) /\ Stream(d) # <<>> /\ Stream(d)[1] = p
            /\ Tail(recv_packet[s]) \o up[d] = Tail(Stream(d))
      /\ ~(s > conn) /\ Plain(Tail(recv_packet[s])) /\ n <= session_seq[s]
  BY AtPacketGood
<1>3. /\ recv_packet \in [Keys -> Seq(PacketRecord)] /\ session_seq \in [Keys -> Nat]
      /\ recv_packet \in [Keys -> Seq(Fits(n))] /\ msg_seq \in Nat
  BY <1>0, <1>1 DEF TypeOK, WireFits
<1>4. /\ recv_packet' = [recv_packet EXCEPT ![s] = Tail(@)]
      /\ reading' = IF Len(recv_packet[s]) = 1 THEN Idle ELSE reading
  BY Zenon DEF Consume
<1>5. /\ recv_packet'[s] = Tail(recv_packet[s])
      /\ \A d \in Keys : d # s => recv_packet'[d] = recv_packet[d]
      /\ session_seq'[s] = v
      /\ \A d \in Keys : d # s => session_seq'[d] = session_seq[d]
  BY <1>3, <1>4
<1>6. v <= msg_seq /\ session_seq[s] <= v /\ p.msg_seq <= v /\ session_seq[s] \in Nat
  BY <1>1, <1>2, <1>3 DEF NumbersGrow
<1>7. /\ Own' <=> Own
      /\ \A d : Fresh(d)' <=> Fresh(d)
  BY DEF Own, Fresh
<1>8. /\ Mark \in Nat /\ Mark' \in Nat /\ Mark <= Mark'
      /\ s = 1 /\ Own => Mark' = v /\ Mark = session_seq[1]
      /\ ~(s = 1 /\ Own) => Mark' = Mark /\ OwnHandled' = OwnHandled
  <2>1. Mark \in Nat
    BY <1>0, <1>1, MarkTypes
  <2>2. CASE s = 1 /\ Own
    <3>1. Mark' = v /\ Mark = session_seq[1]
      BY <1>5, <1>7, <2>2 DEF Mark
    <3>2. QED
      BY <1>6, <2>1, <2>2, <3>1
  <2>3. CASE ~(s = 1 /\ Own)
    <3>1. Mark' = Mark
      <4>1. CASE Own
        BY <1>5, <1>7, <2>3, <4>1, FirstKey DEF Mark
      <4>2. CASE ~Own
        BY <1>7, <4>2 DEF Mark
      <4>3. QED
        BY <4>1, <4>2
    <3>2. OwnHandled' = OwnHandled
      <4>1. CASE Own
        BY <1>7, <2>3, <4>1, FirstKey DEF OwnHandled
      <4>2. CASE ~Own
        BY <1>7, <4>2 DEF OwnHandled
      <4>3. QED
        BY <4>1, <4>2
    <3>3. QED
      BY <2>1, <2>3, <3>1, <3>2
  <2>4. QED
    BY <2>2, <2>3
<1>9. /\ n <= msg_seq' /\ ClientFits(n)' /\ Unconnected' /\ QueueOrder'
      /\ Fits(n)' = Fits(n) /\ Sent' = Sent
      /\ UNCHANGED <<conn, msg_seq, events, sent>>
  BY ClientKept
<1>10. NumbersGrow'
  <2>1. \A d \in Keys : session_seq'[d] <= msg_seq
    BY <1>1, <1>5, <1>6 DEF NumbersGrow
  <2>2. QED
    BY <1>1, <1>9, <2>1, Zenon DEF NumbersGrow
<1>11. WireFits(n)'
  <2>1. recv_packet' \in [Keys -> Seq(Fits(n))]
    BY <1>2, <1>3, <1>4
  <2>2. QED
    BY <1>1, <1>9, <2>1, Zenon DEF WireFits
<1>12. Unused'
  <2>1. SUFFICES ASSUME NEW d \in Keys, d > conn PROVE Untouched(d)'
    BY <1>9, Zenon DEF Unused
  <2>2. d # s
    BY <1>2, <2>1
  <2>3. Untouched(d)
    BY <1>1, <2>1 DEF Unused
  <2>4. QED
    BY <1>5, <2>2, <2>3, Zenon DEF Untouched
<1>13. SessionsOK(n)'
  <2>1. Own => n <= session_seq'[1]
    <3>1. CASE s = 1
      BY <1>2, <1>5, <1>6, <3>1
    <3>2. CASE s # 1
      BY <1>1, <1>5, <3>2, FirstKey DEF SessionsOK
    <3>3. QED
      BY <3>1, <3>2
  <2>2. reading' = Idle \/ reading' = reading
    BY <1>4
  <2>3. reading' # Idle /\ reading'.session = 1 /\ Own => link_session[reading'.link] = 1
    BY <1>1, <2>2 DEF SessionsOK
  <2>4. QED
    BY <1>1, <1>7, <2>1, <2>3, Zenon DEF SessionsOK
\* The streams.
<1>14. \A d \in Keys : link_session'[d] # 0 =>
               /\ link_session[d] # 0
               /\ \/ link_session'[d] = link_session[d] /\ Stream(d)' = Stream(d)
                  \/ /\ ~Fresh(d)' /\ Stream(d) # <<>> /\ Stream(d)' = Tail(Stream(d))
                     /\ Stream(d)[1].msg_seq \in Sent => Stream(d)[1].msg_seq <= Mark'
  <2>1. SUFFICES ASSUME NEW d \in Keys, link_session[d] # 0
                 PROVE  \/ Stream(d)' = Stream(d)
                        \/ /\ ~Fresh(d)' /\ Stream(d) # <<>> /\ Stream(d)' = Tail(Stream(d))
                           /\ Stream(d)[1].msg_seq \in Sent => Stream(d)[1].msg_seq <= Mark'
    BY Zenon
  <2>2. CASE link_session[d] # s
    <3>1. link_session[d] \in Keys
      BY <1>0, <2>1, StreamTypes
    <3>2. QED
      BY <1>5, <2>2, <3>1 DEF Stream
  <2>3. CASE link_session[d] = s
    <3>1. Stream(d)' = Tail(Stream(d)) /\ Stream(d) # <<>> /\ Stream(d)[1] = p
      BY <1>2, <1>5, <2>3 DEF Stream
    <3>2. s = 1 /\ Own
      BY <1>0, <1>1, <2>1, <2>3, OneLink
    <3>3. ~Fresh(d)'
      BY <1>7, <2>3 DEF Fresh
    <3>4. QED
      BY <1>6, <1>8, <3>1, <3>2, <3>3
  <2>4. QED
    BY <2>2, <2>3
<1>15. /\ GaplessOK' /\ WrittenOK' /\ SilentOK' /\ QueuedOK'
       /\ \A d \in Keys : Fresh(d)' => Fresh(d) /\ Opening(Stream(d)', d)
  BY <1>7, <1>8, <1>14, StreamsConsumed
<1>16. OwnPlain'
  <2>1. SUFFICES ASSUME NEW d \in Keys, Own, link_session[d] = 1 PROVE Plain(Stream(d)')
    BY <1>7, Zenon DEF OwnPlain
  <2>2. Plain(Stream(d)) /\ link_session[d] # 0
    BY <1>1, <2>1 DEF OwnPlain
  <2>3. Stream(d)' = Stream(d) \/ (Stream(d) # <<>> /\ Stream(d)' = Tail(Stream(d)))
    BY <1>14, <2>1, <2>2
  <2>4. Stream(d) \in Seq(PacketRecord)
    BY <1>0, <2>2, StreamTypes
  <2>5. Stream(d) # <<>> => Plain(Tail(Stream(d)))
    BY <2>2, <2>4, TailPlain
  <2>6. QED
    BY <2>2, <2>3, <2>5
<1>17. FreshOK'
  <2>1. SUFFICES ASSUME NEW d \in Keys, Fresh(d)
                 PROVE  /\ session_seq'[d] = 0 /\ handled'[d] = <<>>
                        /\ recv_packet'[d] # <<>> => reading' = [link |-> d, session |-> d]
    BY <1>7, <1>15, Zenon DEF FreshOK
  <2>2. d # s
    BY <2>1
  <2>3. /\ session_seq[d] = 0 /\ handled[d] = <<>>
        /\ recv_packet[d] # <<>> => reading = [link |-> d, session |-> d]
    BY <1>1, <2>1 DEF FreshOK
  <2>4. reading # [link |-> d, session |-> d]
    BY <1>2, <2>2
  <2>5. QED
    BY <1>5, <2>2, <2>3, <2>4
<1>18. UsedOK(n)'
  <2>1. SUFFICES ASSUME NEW d \in Keys, ~Fresh(d), recv_packet'[d] # <<>>
                 PROVE  Plain(recv_packet'[d]) /\ n <= session_seq'[d]
    BY <1>7, Zenon DEF UsedOK
  <2>2. CASE d = s
    BY <1>2, <1>5, <1>6, <2>2
  <2>3. CASE d # s
    BY <1>1, <1>5, <2>1, <2>3 DEF UsedOK
  <2>4. QED
    BY <2>2, <2>3
<1>19. PrefixOK'
  <2>1. CASE s = 1 /\ Own
    BY <2>1
  <2>2. CASE ~(s = 1 /\ Own)
    BY <1>1, <1>8, <1>9, <2>2, Zenon DEF PrefixOK
  <2>3. QED
    BY <2>1, <2>2
<1>20. QED
  BY <1>9, <1>10, <1>11, <1>12, <1>13, <1>15, <1>16, <1>17, <1>18, <1>19, Zenon DEF Good

\* The packet that the client's session handles next: every reliable message before it
\* has been handled.
LEMMA HandlePrefix ==
    ASSUME TInv, NEW n \in Nat, Good(n), Own, Own', NEW p, AtPacket(1, p), ~HandledBefore(1, p),
           ~Fresh(1), sent' = sent, session_seq'[1] = p.msg_seq,
           \/ p.msg_seq \notin Sent /\ handled'[1] = handled[1]
           \/ p.msg_seq \in Sent /\ handled'[1] = Append(handled[1], p.msg_seq)
    PROVE  PrefixOK'
<1>0. TypeOK
  BY DEF TInv
<1>1. SessionsOK(n) /\ GaplessOK /\ PrefixOK /\ NumbersGrow
  BY Zenon DEF Good
<1>2. /\ p.msg_seq \in Nat \ {0} /\ reading # Idle /\ reading.session = 1 /\ reading.link \in Keys
      /\ link_session[reading.link] = 1 => /\ Stream(reading.link) \in Seq(PacketRecord)
                                          /\ Stream(reading.link) # <<>> /\ Stream(reading.link)[1] = p
      /\ ~IsReconnect(p)
  BY FirstKey, AtPacketGood
<1>3. link_session[reading.link] = 1
  BY <1>1, <1>2 DEF SessionsOK
<1>4. Gapless(Stream(reading.link), Sent, Mark)
  BY <1>1, <1>2, <1>3 DEF GaplessOK
<1>5. ASSUME NEW m \in Sent, m < p.msg_seq PROVE m <= Mark
  <2>1. 1 \in 1 .. Len(Stream(reading.link)) /\ 1 .. (1 - 1) = {}
    BY <1>2, <1>3, LenProperties, EmptySeq
  <2>2. QED
    BY <1>2, <1>3, <1>4, <1>5, <2>1 DEF Gapless
<1>6. /\ sent \in Seq(Nat) /\ Len(sent) \in Nat /\ DOMAIN sent = 1 .. Len(sent)
      /\ \A k \in 1 .. Len(sent) : sent[k] \in Nat /\ sent[k] \in Sent
      /\ \A k, l \in 1 .. Len(sent) : k < l => sent[k] < sent[l]
  BY <1>0, <1>1, LenProperties DEF TypeOK, NumbersGrow, Sent
<1>7. /\ Mark = session_seq[1] /\ Mark \in Nat /\ Mark < p.msg_seq /\ Mark' = p.msg_seq
      /\ OwnHandled = handled[1] /\ OwnHandled' = handled'[1]
  <2>1. Mark = session_seq[1] /\ Mark' = p.msg_seq /\ OwnHandled = handled[1] /\ OwnHandled' = handled'[1]
    BY DEF Mark, OwnHandled
  <2>2. Mark \in Nat
    BY <1>0, <1>1, MarkTypes
  <2>3. Mark < p.msg_seq
    BY <1>2, <2>1, <2>2 DEF HandledBefore
  <2>4. QED
    BY <2>1, <2>2, <2>3
<1>8. /\ handled[1] \in Seq(Nat) /\ Len(handled[1]) \in Nat /\ DOMAIN handled[1] = 1 .. Len(handled[1])
      /\ \A k \in 1 .. Len(sent) : sent[k] <= Mark <=> k <= Len(handled[1])
      /\ \A k \in 1 .. Len(handled[1]) : k <= Len(sent) /\ handled[1][k] = sent[k]
  <2>1. handled[1] \in Seq(Nat)
    BY <1>0, FirstKey DEF TypeOK
  <2>2. Len(handled[1]) \in Nat /\ DOMAIN handled[1] = 1 .. Len(handled[1])
    BY <2>1, LenProperties
  <2>3. QED
    BY <1>1, <1>6, <1>7, <2>1, <2>2 DEF PrefixOK
<1>9. CASE p.msg_seq \notin Sent /\ handled'[1] = handled[1]
  <2>1. \A k \in 1 .. Len(sent) : sent[k] <= p.msg_seq <=> sent[k] <= Mark
    BY <1>2, <1>5, <1>6, <1>7, <1>9
  <2>2. QED
    BY <1>6, <1>7, <1>8, <1>9, <2>1 DEF PrefixOK
<1>10. CASE p.msg_seq \in Sent /\ handled'[1] = Append(handled[1], p.msg_seq)
  <2>1. PICK k \in 1 .. Len(sent) : sent[k] = p.msg_seq
    BY <1>6, <1>10 DEF Sent
  <2>2. ~(k <= Len(handled[1]))
    BY <1>7, <1>8, <2>1
  <2>3. \A j \in 1 .. Len(sent) : j < k => j <= Len(handled[1])
    BY <1>5, <1>6, <1>8, <2>1
  <2>4. k = Len(handled[1]) + 1
    <3>1. ASSUME k - 1 \in 1 .. Len(sent) PROVE k - 1 <= Len(handled[1])
      <4>1. k - 1 < k
        BY <1>6
      <4>2. QED
        BY <2>3, <3>1, <4>1
    <3>2. QED
      BY <1>6, <1>8, <2>2, <3>1
  <2>5. /\ DOMAIN handled'[1] = 1 .. Len(handled[1]) + 1 /\ Len(handled'[1]) = Len(handled[1]) + 1
        /\ \A j \in 1 .. Len(handled[1]) : handled'[1][j] = handled[1][j]
        /\ handled'[1][Len(handled[1]) + 1] = p.msg_seq
    BY <1>2, <1>8, <1>10, AppendProperties
  <2>6. \A j \in 1 .. Len(sent) : sent[j] <= p.msg_seq <=> j <= Len(handled[1]) + 1
    <3>1. SUFFICES ASSUME NEW j \in 1 .. Len(sent)
                   PROVE  sent[j] <= p.msg_seq <=> j <= k
      BY <2>4
    <3>2. CASE j < k
      BY <1>6, <2>1, <3>2
    <3>3. CASE j = k
      BY <1>6, <2>1, <3>3
    <3>4. CASE j > k
      <4>1. sent[k] < sent[j]
        BY <1>6, <2>1, <3>4
      <4>2. sent[j] \in Nat /\ sent[k] \in Nat /\ p.msg_seq \in Nat
        BY <1>2, <1>6, <2>1
      <4>3. ~(sent[j] <= p.msg_seq)
        BY <2>1, <4>1, <4>2
      <4>4. QED
        BY <3>4, <4>3
    <3>5. QED
      BY <3>2, <3>3, <3>4
  <2>7. ASSUME NEW j \in 1 .. Len(handled[1]) + 1
        PROVE  j <= Len(sent) /\ handled'[1][j] = sent[j]
    <3>1. CASE j \in 1 .. Len(handled[1])
      <4>1. handled'[1][j] = handled[1][j]
        BY <2>5, <3>1
      <4>2. j <= Len(sent) /\ handled[1][j] = sent[j]
        BY <1>8, <3>1
      <4>3. QED
        BY <4>1, <4>2
    <3>2. CASE j = Len(handled[1]) + 1
      <4>1. j = k /\ handled'[1][j] = p.msg_seq
        BY <2>4, <2>5, <3>2
      <4>2. k <= Len(sent)
        BY <1>6
      <4>3. QED
        BY <2>1, <4>1, <4>2
    <3>3. j \in 1 .. Len(handled[1]) \/ j = Len(handled[1]) + 1
      <4>1. \A l \in Nat : \A i \in 1 .. l + 1 : i \in 1 .. l \/ i = l + 1
        OBVIOUS
      <4>2. QED
        BY <1>8, <4>1, Zenon
    <3>4. QED
      BY <3>1, <3>2, <3>3
  <2>8. QED
    BY <1>6, <1>7, <2>5, <2>6, <2>7 DEF PrefixOK
<1>11. QED
  BY <1>9, <1>10

LEMMA DiscardGood ==
    ASSUME TInv, NEW n \in Nat, Good(n), UNCHANGED client, UNCHANGED up,
           NEW s \in Keys, NEW p, AtPacket(s, p), Discard(s, p)
    PROVE  Good(n)'
<1>0. TypeOK
  BY DEF TInv
<1>1. AcksOK /\ PrefixOK
  BY Zenon DEF Good
<1>2. /\ p.msg_seq <= session_seq[s] /\ Consume(s, recv_packet)
      /\ UNCHANGED <<down, link_session, session_seq, session_token, sessions, tokens, handled>>
  BY Zenon DEF Discard, HandledBefore
<1>3. /\ p.msg_seq \in Nat \ {0}
      /\ Fresh(s) => session_seq[s] = 0
  BY AtPacketGood
<1>4. ~Fresh(s)
  BY <1>2, <1>3
<1>5. session_seq' = [session_seq EXCEPT ![s] = session_seq[s]] /\ session_seq[s] \in Nat
  BY <1>0, <1>2 DEF TypeOK
<1>6. Mark' = Mark /\ OwnHandled' = OwnHandled
  BY <1>2 DEF Mark, OwnHandled, Own
<1>7. UNCHANGED <<events, sent>>
  BY DEF client
<1>8. AcksOK' /\ PrefixOK'
  BY <1>1, <1>2, <1>6, <1>7, Zenon DEF AcksOK, PrefixOK
<1>9. \A d \in Keys : d # s => handled'[d] = handled[d]
  BY <1>2
<1>10. SUFFICES ASSUME NEW v \in Nat, v = session_seq[s] PROVE Good(n)'
  BY <1>5
<1>11. /\ session_seq' = [session_seq EXCEPT ![s] = v]
       /\ (v = session_seq[s] /\ p.msg_seq <= v) \/ (v = p.msg_seq /\ session_seq[s] <= v)
       /\ AcksOK' /\ (s = 1 /\ Own => PrefixOK') /\ Consume(s, recv_packet) /\ ~Fresh(s)
       /\ UNCHANGED <<link_session, session_token, sessions>>
  BY <1>2, <1>4, <1>5, <1>8, <1>10
<1>12. QED
  BY <1>9, <1>11, UsedPacketGood

\* The session that a link has answers on it: a fresh one only to its request.
LEMMA HeartBeatReqGood ==
    ASSUME TInv, NEW n \in Nat, Good(n), UNCHANGED client, UNCHANGED up,
           NEW s \in Keys, NEW p, AtPacket(s, p), Recv_HeartBeat_Req(s, p)
    PROVE  Good(n)'
<1>0. TypeOK
  BY DEF TInv
<1>1. AcksOK /\ PrefixOK /\ SessionsOK(n) /\ NumbersGrow
  BY Zenon DEF Good
<1>2. /\ p.msg_id = "HeartBeat_Req" /\ ~HandledBefore(s, p)
      /\ Send(s, Answer("HeartBeat_Ans", FALSE, Unknown, session_seq[s]))
      /\ Handled(s, p) /\ Consume(s, recv_packet)
      /\ UNCHANGED <<link_session, session_token, sessions, tokens, handled>>
  BY Zenon DEF Recv_HeartBeat_Req
<1>3. /\ p.msg_seq \in Nat \ {0} /\ p \in Fits(n)
      /\ Fresh(s) => IsReconnect(p) \/ (s = 1 /\ IsConnect(p))
  BY AtPacketGood
<1>4. ~Fresh(s)
  BY <1>2, <1>3 DEF IsReconnect, IsConnect
<1>5. /\ session_seq' = [session_seq EXCEPT ![s] = p.msg_seq]
      /\ session_seq[s] \in Nat /\ session_seq[s] <= p.msg_seq /\ session_seq'[s] = p.msg_seq
  BY <1>0, <1>2, <1>3 DEF TypeOK, Handled, HandledBefore
<1>6. Own' <=> Own
  BY <1>2 DEF Own
<1>7. UNCHANGED <<events, sent>>
  BY DEF client
<1>8. p.msg_seq \notin Sent
  BY <1>2, <1>3 DEF Fits
<1>9. s = 1 /\ Own => PrefixOK'
  BY <1>2, <1>4, <1>5, <1>6, <1>7, <1>8, HandlePrefix
<1>10. /\ Mark \in Nat /\ Mark' \in Nat /\ Mark <= Mark'
       /\ s = 1 /\ Own => session_seq[s] <= Mark'
  <2>1. Mark \in Nat
    BY <1>0, <1>1, MarkTypes
  <2>2. CASE s = 1 /\ Own
    BY <1>3, <1>5, <1>6, <2>1, <2>2 DEF Mark
  <2>3. CASE ~(s = 1 /\ Own)
    <3>1. session_seq'[1] = session_seq[1] \/ ~Own
      BY <1>0, <1>5, <2>3, FirstKey DEF TypeOK
    <3>2. Mark' = Mark
      BY <1>6, <3>1 DEF Mark
    <3>3. QED
      BY <2>1, <2>3, <3>2
  <2>4. QED
    BY <2>2, <2>3
<1>11. AcksOK'
  <2>1. PICK a : a = Answer("HeartBeat_Ans", FALSE, Unknown, session_seq[s])
    OBVIOUS
  <2>2. down' = [c \in Keys |-> IF c \in Link(s) THEN Append(down[c], a) ELSE down[c]]
    BY <1>2, <2>1 DEF Send
  <2>3. a.msg_seq = session_seq[s]
    BY <2>1 DEF Answer
  <2>4. Link(s) \cap Keys # {} => a.msg_seq <= Mark'
    <3>1. SUFFICES ASSUME NEW c \in Keys, link_session[c] = s PROVE a.msg_seq <= Mark'
      BY DEF Link
    <3>2. s # 0
      BY FirstKey
    <3>3. s = 1 /\ Own
      BY <1>0, <1>1, <1>4, <3>1, <3>2, OneLink
    <3>4. QED
      BY <1>10, <2>3, <3>3
  <2>5. QED
    BY <1>7, <1>10, <2>2, <2>4, AcksKept
<1>12. QED
  BY <1>2, <1>3, <1>4, <1>5, <1>9, <1>11, UsedPacketGood

LEMMA MessageGood ==
    ASSUME TInv, NEW n \in Nat, Good(n), UNCHANGED client, UNCHANGED up,
           NEW s \in Keys, NEW p, AtPacket(s, p), Recv_Message(s, p)
    PROVE  Good(n)'
<1>0. TypeOK
  BY DEF TInv
<1>1. AcksOK /\ PrefixOK /\ SessionsOK(n) /\ NumbersGrow
  BY Zenon DEF Good
<1>2. /\ p.msg_id = "Message" /\ ~HandledBefore(s, p)
      /\ handled' = [handled EXCEPT ![s] = IF p.reliable THEN Append(@, p.msg_seq) ELSE @]
      /\ Handled(s, p) /\ Consume(s, recv_packet)
      /\ UNCHANGED <<down, link_session, session_token, sessions, tokens>>
  BY Zenon DEF Recv_Message
<1>3. /\ p.msg_seq \in Nat \ {0} /\ p \in Fits(n)
      /\ Fresh(s) => IsReconnect(p) \/ (s = 1 /\ IsConnect(p))
  BY AtPacketGood
<1>4. ~Fresh(s)
  BY <1>2, <1>3 DEF IsReconnect, IsConnect
<1>5. /\ session_seq' = [session_seq EXCEPT ![s] = p.msg_seq]
      /\ session_seq[s] \in Nat /\ session_seq[s] <= p.msg_seq /\ session_seq'[s] = p.msg_seq
  BY <1>0, <1>2, <1>3 DEF TypeOK, Handled, HandledBefore
<1>6. Own' <=> Own
  BY <1>2 DEF Own
<1>7. UNCHANGED <<events, sent>>
  BY DEF client
<1>8. /\ p.msg_seq \in Sent <=> p.reliable
      /\ \/ p.reliable /\ handled'[s] = Append(handled[s], p.msg_seq)
         \/ ~p.reliable /\ handled'[s] = handled[s]
      /\ \A d \in Keys : d # s => handled'[d] = handled[d]
  <2>1. p.msg_seq \in Sent <=> p.reliable
    BY <1>2, <1>3, Zenon DEF Fits
  <2>2. handled \in [Keys -> Seq(Nat)]
    BY <1>0 DEF TypeOK
  <2>3. \A d \in Keys : d # s => handled'[d] = handled[d]
    BY <1>2, <2>2
  <2>4. handled'[s] = IF p.reliable THEN Append(handled[s], p.msg_seq) ELSE handled[s]
    BY <1>2, <2>2, Zenon
  <2>5. QED
    BY <2>1, <2>3, <2>4, Zenon
<1>9. s = 1 /\ Own => PrefixOK'
  <2>1. SUFFICES ASSUME s = 1, Own PROVE PrefixOK'
    OBVIOUS
  <2>2. \/ p.msg_seq \notin Sent /\ handled'[1] = handled[1]
        \/ p.msg_seq \in Sent /\ handled'[1] = Append(handled[1], p.msg_seq)
    BY <1>8, <2>1, Zenon
  <2>3. QED
    BY <1>2, <1>4, <1>5, <1>6, <1>7, <2>1, <2>2, HandlePrefix
<1>10. Mark \in Nat /\ Mark' \in Nat /\ Mark <= Mark'
  <2>1. Mark \in Nat
    BY <1>0, <1>1, MarkTypes
  <2>2. CASE s = 1 /\ Own
    BY <1>3, <1>5, <1>6, <2>1, <2>2 DEF Mark
  <2>3. CASE ~(s = 1 /\ Own)
    <3>1. session_seq'[1] = session_seq[1] \/ ~Own
      BY <1>0, <1>5, <2>3, FirstKey DEF TypeOK
    <3>2. Mark' = Mark
      BY <1>6, <3>1 DEF Mark
    <3>3. QED
      BY <2>1, <3>2
  <2>4. QED
    BY <2>2, <2>3
<1>11. AcksOK'
  <2>1. PICK C : C = {}
    OBVIOUS
  <2>2. down' = [c \in Keys |-> IF c \in C THEN Append(down[c], p) ELSE down[c]]
    BY <1>0, <1>2, <2>1 DEF TypeOK
  <2>3. C \cap Keys = {}
    BY <2>1
  <2>4. QED
    BY <1>7, <1>10, <2>2, <2>3, AcksKept
<1>12. QED
  BY <1>2, <1>3, <1>4, <1>5, <1>8, <1>9, <1>11, UsedPacketGood

\* The first packet of a fresh session: a Connect_Req or a Reconnect_Req.
LEMMA FreshPacketGood ==
    ASSUME TInv, NEW n \in Nat, Good(n), UNCHANGED client, UNCHANGED up,
           NEW s \in Keys, NEW p, AtPacket(s, p), Fresh(s), n <= p.msg_seq,
           session_seq' = [session_seq EXCEPT ![s] = p.msg_seq], handled' = handled,
           recv_packet' \in [Keys -> Seq(Fits(n))],
           recv_packet'[s] = Tail(recv_packet[s]),
           \A d \in Keys : d # s => \/ recv_packet'[d] = recv_packet[d]
                                    \/ d = 1 /\ Own /\ recv_packet'[d] = Tail(recv_packet[s]),
           Own => Own', Mark' \in Nat, Mark <= Mark', ~Fresh(s)',
           \A d \in Keys : link_session'[d] # 0 =>
               /\ link_session[d] # 0
               /\ \/ link_session'[d] = link_session[d] /\ Stream(d)' = Stream(d)
                  \/ /\ ~Fresh(d)' /\ Stream(d) # <<>> /\ Stream(d)' = Tail(Stream(d))
                     /\ Stream(d)[1].msg_seq \in Sent => Stream(d)[1].msg_seq <= Mark',
           Unused', SessionsOK(n)', OwnPlain', PrefixOK', AcksOK'
    PROVE  Good(n)'
<1>0. TypeOK
  BY DEF TInv
<1>1. NumbersGrow /\ WireFits(n) /\ SessionsOK(n) /\ FreshOK /\ UsedOK(n)
  BY Zenon DEF Good
<1>2. /\ p.msg_seq \in Nat \ {0} /\ p.msg_seq <= msg_seq
      /\ reading = [link |-> s, session |-> s] /\ Plain(Tail(recv_packet[s]))
  BY AtPacketGood
<1>3. /\ n <= msg_seq' /\ ClientFits(n)' /\ Unconnected' /\ QueueOrder'
      /\ Fits(n)' = Fits(n) /\ Sent' = Sent /\ UNCHANGED <<msg_seq, sent>>
  BY ClientKept
<1>4. /\ session_seq'[s] = p.msg_seq
      /\ \A d \in Keys : d # s => session_seq'[d] = session_seq[d]
  BY <1>0 DEF TypeOK
<1>5. /\ GaplessOK' /\ WrittenOK' /\ SilentOK' /\ QueuedOK'
      /\ \A d \in Keys : Fresh(d)' => Fresh(d) /\ Opening(Stream(d)', d)
  BY StreamsConsumed
<1>6. NumbersGrow'
  <2>1. \A d \in Keys : session_seq'[d] <= msg_seq
    BY <1>1, <1>2, <1>4 DEF NumbersGrow
  <2>2. QED
    BY <1>1, <1>3, <2>1, Zenon DEF NumbersGrow
<1>7. WireFits(n)'
  BY <1>1, <1>3, Zenon DEF WireFits
<1>8. \A d \in Keys : Fresh(d) /\ d # s => recv_packet[d] = <<>> /\ recv_packet'[d] = <<>>
  <2>1. SUFFICES ASSUME NEW d \in Keys, Fresh(d), d # s
                 PROVE  recv_packet[d] = <<>> /\ recv_packet'[d] = <<>>
    OBVIOUS
  <2>2. recv_packet[d] # <<>> => reading = [link |-> d, session |-> d]
    BY <1>1, <2>1 DEF FreshOK
  <2>3. recv_packet[d] = <<>>
    BY <1>2, <2>1, <2>2
  <2>4. ~(d = 1 /\ Own)
    BY <2>1 DEF Fresh
  <2>5. QED
    BY <2>1, <2>3, <2>4
<1>9. FreshOK'
  <2>1. SUFFICES ASSUME NEW d \in Keys, Fresh(d)'
                 PROVE  session_seq'[d] = 0 /\ handled'[d] = <<>> /\ recv_packet'[d] = <<>>
    BY <1>5, Zenon DEF FreshOK
  <2>2. Fresh(d) /\ d # s
    BY <1>5, <2>1
  <2>3. session_seq[d] = 0 /\ handled[d] = <<>>
    BY <1>1, <2>2 DEF FreshOK
  <2>4. QED
    BY <1>4, <1>8, <2>2, <2>3
<1>10. UsedOK(n)'
  <2>1. SUFFICES ASSUME NEW d \in Keys, recv_packet'[d] # <<>>
                 PROVE  Plain(recv_packet'[d]) /\ n <= session_seq'[d]
    BY Zenon DEF UsedOK
  <2>2. CASE d = s
    BY <1>2, <1>4, <2>2
  <2>3. CASE d # s /\ recv_packet'[d] = recv_packet[d]
    <3>1. ~Fresh(d)
      BY <1>8, <2>1, <2>3
    <3>2. Plain(recv_packet[d]) /\ n <= session_seq[d]
      BY <1>1, <2>1, <2>3, <3>1 DEF UsedOK
    <3>3. QED
      BY <1>4, <2>3, <3>2
  <2>4. CASE d # s /\ d = 1 /\ Own /\ recv_packet'[d] = Tail(recv_packet[s])
    <3>1. n <= session_seq[1]
      BY <1>1, <2>4 DEF SessionsOK
    <3>2. QED
      BY <1>2, <1>4, <2>4, <3>1
  <2>5. QED
    BY <2>2, <2>3, <2>4
<1>11. QED
  BY <1>3, <1>5, <1>6, <1>7, <1>9, <1>10, Zenon DEF Good

\* A Connect_Req that is handled is the first packet of session 1, which has no token yet.
LEMMA ConnectIsFirst ==
    ASSUME TInv, NEW n \in Nat, Good(n),
           NEW s \in Keys, NEW p, AtPacket(s, p), Recv_Connect_Req(s, p)
    PROVE  /\ Fresh(s) /\ s = 1 /\ ~Own /\ handled[1] = <<>>
           /\ p.msg_seq = n /\ p.msg_seq \notin Sent /\ ~IsReconnect(p)
<1>0. TypeOK
  BY DEF TInv
<1>1. p.msg_id = "Connect_Req" /\ ~HandledBefore(s, p)
  BY Zenon DEF Recv_Connect_Req
<1>2. /\ p \in Fits(n) /\ p.msg_seq \in Nat
      /\ Fresh(s) => handled[s] = <<>> /\ (IsReconnect(p) \/ (s = 1 /\ IsConnect(p)))
      /\ ~Fresh(s) => n <= session_seq[s]
  BY AtPacketGood
<1>3. p.msg_seq = n /\ p.msg_seq \notin Sent /\ ~IsReconnect(p)
  BY <1>1, <1>2 DEF Fits, IsConnect, IsReconnect
<1>4. Fresh(s)
  <2>1. session_seq[s] \in Nat
    BY <1>0 DEF TypeOK
  <2>2. ~(p.msg_seq <= session_seq[s])
    BY <1>1 DEF HandledBefore
  <2>3. QED
    BY <1>2, <1>3, <2>1, <2>2
<1>5. s = 1 /\ ~Own /\ handled[1] = <<>>
  BY <1>2, <1>3, <1>4 DEF Fresh
<1>6. QED
  BY <1>3, <1>4, <1>5

\* The Connect_Req makes session 1 the client's own: no reliable message is before it.
LEMMA ConnectReqGood ==
    ASSUME TInv, NEW n \in Nat, Good(n), UNCHANGED client, UNCHANGED up,
           NEW s \in Keys, NEW p, AtPacket(s, p), Recv_Connect_Req(s, p)
    PROVE  Good(n)'
<1>0. TypeOK
  BY DEF TInv
<1>1. /\ NumbersGrow /\ WireFits(n) /\ Unused /\ SessionsOK(n)
      /\ FreshOK /\ GaplessOK /\ PrefixOK
  BY Zenon DEF Good
<1>2. /\ p.msg_id = "Connect_Req" /\ ~HandledBefore(s, p)
      /\ tokens' = tokens + 1 /\ session_token' = [session_token EXCEPT ![s] = tokens']
      /\ sessions' = sessions \cup {s}
      /\ Send(s, Answer("Connect_Ans", FALSE, [key |-> s, token |-> tokens'], 0))
      /\ Handled(s, p) /\ Consume(s, recv_packet)
      /\ UNCHANGED <<link_session, handled>>
  BY Zenon DEF Recv_Connect_Req
<1>3. /\ p \in Fits(n) /\ p.msg_seq \in Nat \ {0} /\ p.msg_seq <= msg_seq
      /\ recv_packet[s] # <<>> /\ ~(s > conn)
      /\ \A d \in Keys : link_session[d] = s =>
            /\ Stream(d) \in Seq(PacketRecord) /\ Stream(d) # <<>> /\ Stream(d)[1] = p
            /\ Tail(recv_packet[s]) \o up[d] = Tail(Stream(d))
      /\ Fresh(s) => /\ reading = [link |-> s, session |-> s]
                     /\ session_seq[s] = 0 /\ handled[s] = <<>> /\ link_session[s] = s
                     /\ IsReconnect(p) \/ (s = 1 /\ IsConnect(p))
                     /\ Plain(Tail(Stream(s)))
  BY AtPacketGood
<1>4. p.msg_seq = n /\ p.msg_seq \notin Sent /\ ~IsReconnect(p)
  BY ConnectIsFirst
<1>5. Fresh(s)
  BY ConnectIsFirst
<1>6. /\ s = 1 /\ ~Own /\ session_seq[1] = 0 /\ handled[1] = <<>> /\ link_session[1] = 1
      /\ reading = [link |-> 1, session |-> 1] /\ Plain(Tail(Stream(1)))
  BY <1>3, <1>4, <1>5 DEF Fresh
<1>7. /\ session_token'[1] # 0
      /\ \A d \in Keys : d # 1 => session_token'[d] = session_token[d]
      /\ session_seq' = [session_seq EXCEPT ![1] = n]
      /\ session_seq'[1] = n
  <2>1. tokens + 1 # 0
    BY <1>0 DEF TypeOK
  <2>2. QED
    BY <1>0, <1>2, <1>4, <1>6, <2>1, FirstKey DEF TypeOK, Handled
<1>8. Own' /\ Mark = 0 /\ OwnHandled = <<>> /\ Mark' = n /\ OwnHandled' = <<>>
  BY <1>2, <1>6, <1>7 DEF Own, Mark, OwnHandled
<1>9. /\ recv_packet' = [recv_packet EXCEPT ![1] = Tail(@)]
      /\ reading' \in {Idle, reading}
  BY <1>2, <1>6 DEF Consume
<1>10. /\ recv_packet'[1] = Tail(recv_packet[1])
       /\ \A d \in Keys : d # 1 => recv_packet'[d] = recv_packet[d]
       /\ recv_packet' \in [Keys -> Seq(Fits(n))]
  <2>1. recv_packet \in [Keys -> Seq(Fits(n))]
    BY <1>1 DEF WireFits
  <2>2. [recv_packet EXCEPT ![1] = Tail(@)] \in [Keys -> Seq(Fits(n))]
    BY <1>3, <1>6, <2>1, TailAtIn, FirstKey
  <2>3. QED
    BY <1>9, <2>1, <2>2, FirstKey
<1>11. \A d \in Keys : link_session[d] = 1 => d = 1
  BY <1>1, <1>6, FirstKey DEF SessionsOK
<1>12. /\ UNCHANGED <<conn, sent, events, msg_seq>> /\ Sent' = Sent
  BY ClientKept
<1>13. ~Fresh(1)'
  BY <1>8 DEF Fresh
<1>14. Stream(1)' = Tail(Stream(1)) /\ Stream(1) # <<>> /\ Stream(1)[1] = p
  <2>1. Stream(1)' = Tail(recv_packet[1]) \o up[1]
    BY <1>2, <1>6, <1>10 DEF Stream
  <2>2. QED
    BY <1>3, <1>6, <2>1, FirstKey
<1>15. \A d \in Keys : link_session'[d] # 0 =>
               /\ link_session[d] # 0
               /\ \/ link_session'[d] = link_session[d] /\ Stream(d)' = Stream(d)
                  \/ /\ ~Fresh(d)' /\ Stream(d) # <<>> /\ Stream(d)' = Tail(Stream(d))
                     /\ Stream(d)[1].msg_seq \in Sent => Stream(d)[1].msg_seq <= Mark'
  <2>1. SUFFICES ASSUME NEW d \in Keys, link_session[d] # 0
                 PROVE  \/ Stream(d)' = Stream(d)
                        \/ /\ ~Fresh(d)' /\ Stream(d) # <<>> /\ Stream(d)' = Tail(Stream(d))
                           /\ Stream(d)[1].msg_seq \in Sent => Stream(d)[1].msg_seq <= Mark'
    BY <1>2, Zenon
  <2>2. CASE d = 1
    BY <1>4, <1>13, <1>14, <2>2
  <2>3. CASE d # 1
    <3>1. link_session[d] \in Keys /\ link_session[d] # 1
      BY <1>0, <1>11, <2>1, <2>3, StreamTypes
    <3>2. Stream(d)' = Stream(d)
      BY <1>2, <1>10, <3>1 DEF Stream
    <3>3. QED
      BY <3>2
  <2>4. QED
    BY <2>2, <2>3
<1>16. Unused'
  <2>1. SUFFICES ASSUME NEW d \in Keys, d > conn PROVE Untouched(d)'
    BY <1>12, Zenon DEF Unused
  <2>2. d # 1
    BY <1>3, <1>6, <2>1
  <2>3. Untouched(d)
    BY <1>1, <2>1 DEF Unused
  <2>4. session_seq'[d] = session_seq[d]
    BY <1>0, <1>7, <2>2 DEF TypeOK
  <2>5. QED
    BY <1>2, <1>7, <1>10, <2>2, <2>3, <2>4, Zenon DEF Untouched
<1>17. SessionsOK(n)'
  <2>1. \A d \in Keys : session_token'[d] # 0 => d = 1
    BY <1>1, <1>7 DEF SessionsOK
  <2>2. \A d \in sessions' : d = 1 /\ Own'
    BY <1>1, <1>2, <1>6, <1>8 DEF SessionsOK
  <2>3. n <= session_seq'[1]
    BY <1>7
  <2>4. reading' # Idle => link_session'[reading'.link] = 1
    BY <1>2, <1>6, <1>9
  <2>5. QED
    BY <1>1, <1>2, <1>8, <2>1, <2>2, <2>3, <2>4, Zenon DEF SessionsOK
<1>18. OwnPlain'
  BY <1>2, <1>6, <1>11, <1>14, Zenon DEF OwnPlain
<1>19. PrefixOK'
  <2>1. Gapless(Stream(1), Sent, 0)
    BY <1>1, <1>6, <1>8, FirstKey DEF GaplessOK
  <2>2. 1 \in 1 .. Len(Stream(1)) /\ 1 .. (1 - 1) = {}
    BY <1>3, <1>6, <1>14, FirstKey, LenProperties, EmptySeq
  <2>3. \A m \in Sent : m < n => m <= 0
    BY <1>4, <1>14, <2>1, <2>2 DEF Gapless
  <2>4. \A k \in DOMAIN sent : sent[k] \in Sent /\ sent[k] \in 1 .. msg_seq
    BY <1>1 DEF Sent, NumbersGrow
  <2>5. \A k \in DOMAIN sent : ~(sent[k] <= n)
    <3>1. msg_seq \in Nat
      BY <1>0 DEF TypeOK
    <3>2. QED
      BY <1>4, <2>3, <2>4, <3>1
  <2>6. sent \in Seq(Nat) /\ Len(<<>>) = 0
    BY <1>0 DEF TypeOK
  <2>7. \A k \in DOMAIN sent : ~(k <= Len(OwnHandled'))
    <3>1. DOMAIN sent = 1 .. Len(sent) /\ Len(sent) \in Nat
      BY <2>6, LenProperties
    <3>2. QED
      BY <1>8, <2>6, <3>1
  <2>8. DOMAIN OwnHandled' = {}
    BY <1>8
  <2>9. QED
    BY <1>8, <1>12, <2>5, <2>7, <2>8, Zenon DEF PrefixOK
<1>20. AcksOK'
  <2>1. PICK a : a = Answer("Connect_Ans", FALSE, [key |-> s, token |-> tokens + 1], 0)
    OBVIOUS
  <2>2. PICK C : C = Link(s)
    OBVIOUS
  <2>3. down' = [c \in Keys |-> IF c \in C THEN Append(down[c], a) ELSE down[c]]
    BY <1>2, <2>1, <2>2 DEF Send
  <2>4. a.msg_id # "HeartBeat_Ans"
    BY <2>1 DEF Answer
  <2>5. Mark' \in Nat /\ Mark <= Mark'
    BY <1>8
  <2>6. QED
    BY <1>12, <2>3, <2>4, <2>5, AcksKept
<1>21. /\ session_seq' = [session_seq EXCEPT ![s] = p.msg_seq] /\ n <= p.msg_seq
       /\ recv_packet'[s] = Tail(recv_packet[s]) /\ ~Fresh(s)' /\ handled' = handled
       /\ \A d \in Keys : d # s => \/ recv_packet'[d] = recv_packet[d]
                                   \/ d = 1 /\ Own /\ recv_packet'[d] = Tail(recv_packet[s])
  BY <1>2, <1>4, <1>6, <1>7, <1>10, <1>13
<1>22. (Own => Own') /\ Mark' \in Nat /\ Mark <= Mark'
  BY <1>8
<1>23. recv_packet' \in [Keys -> Seq(Fits(n))]
  BY <1>10
<1>24. QED
  BY <1>5, <1>15, <1>16, <1>17, <1>18, <1>19, <1>20, <1>21, <1>22, <1>23, FreshPacketGood

\* What a Reconnect_Req finds: the fresh session of the link it is read from.
LEMMA AtReconnect ==
    ASSUME TInv, NEW n \in Nat, Good(n), UNCHANGED client, UNCHANGED up,
           NEW s \in Keys, NEW p, AtPacket(s, p), Recv_Reconnect_Req(s, p)
    PROVE  /\ Fresh(s) /\ reading = [link |-> s, session |-> s] /\ link_session[s] = s
           /\ p.msg_seq \in Nat /\ n <= p.msg_seq /\ p.msg_seq <= msg_seq /\ p.msg_seq \notin Sent
           /\ recv_packet[s] # <<>> /\ ~(s > conn)
           /\ Stream(s) \in Seq(PacketRecord) /\ Stream(s) # <<>> /\ Stream(s)[1] = p
           /\ Tail(recv_packet[s]) \o up[s] = Tail(Stream(s)) /\ Plain(Tail(Stream(s)))
           /\ session_seq' = [session_seq EXCEPT ![s] = p.msg_seq]
           /\ UNCHANGED <<sessions, handled>> /\ (Reconnects(s, p) \/ ReconnectFails(s, p))
           /\ UNCHANGED <<conn, sent, events, msg_seq>> /\ Sent' = Sent
           /\ \A d \in Keys : link_session[d] = s => d = s
<1>0. TypeOK
  BY DEF TInv
<1>1. /\ p.msg_id = "Reconnect_Req" /\ (Reconnects(s, p) \/ ReconnectFails(s, p))
      /\ Handled(s, p) /\ UNCHANGED <<sessions, handled>>
  BY Zenon DEF Recv_Reconnect_Req
<1>2. IsReconnect(p)
  BY <1>1 DEF IsReconnect
<1>3. /\ p \in Fits(n) /\ p.msg_seq \in Nat /\ p.msg_seq <= msg_seq
      /\ recv_packet[s] # <<>> /\ ~(s > conn)
      /\ \A d \in Keys : link_session[d] = s =>
            /\ Stream(d) \in Seq(PacketRecord) /\ Stream(d) # <<>> /\ Stream(d)[1] = p
            /\ Tail(recv_packet[s]) \o up[d] = Tail(Stream(d))
      /\ Fresh(s) => /\ reading = [link |-> s, session |-> s] /\ link_session[s] = s
                     /\ Plain(Tail(Stream(s)))
      /\ ~Fresh(s) => ~IsReconnect(p)
  BY AtPacketGood
<1>4. n < p.msg_seq /\ p.msg_seq \notin Sent
  BY <1>1, <1>2, <1>3 DEF Fits
<1>5. n <= p.msg_seq
  BY <1>3, <1>4
<1>6. UNCHANGED <<conn, sent, events, msg_seq>> /\ Sent' = Sent
  BY ClientKept
<1>7. SessionsOK(n)
  BY Zenon DEF Good
<1>8. link_session[s] = s /\ s # 0
  BY <1>2, <1>3, FirstKey
<1>9. \A d \in Keys : link_session[d] = s => d = s
  BY <1>0, <1>7, <1>8, OneLink
<1>10. session_seq' = [session_seq EXCEPT ![s] = p.msg_seq]
  BY <1>1 DEF Handled
<1>11. QED
  BY <1>1, <1>2, <1>3, <1>4, <1>5, <1>6, <1>8, <1>9, <1>10

\* A link that changes to the client's session brings what was read from it.
LEMMA ReconnectsGood ==
    ASSUME TInv, NEW n \in Nat, Good(n), UNCHANGED client, UNCHANGED up,
           NEW s \in Keys, NEW p, AtPacket(s, p), Recv_Reconnect_Req(s, p), Reconnects(s, p)
    PROVE  Good(n)'
<1>0. TypeOK
  BY DEF TInv
<1>1. /\ NumbersGrow /\ WireFits(n) /\ Unused /\ SessionsOK(n) /\ PrefixOK
  BY Zenon DEF Good
<1>2. /\ Fresh(s) /\ reading = [link |-> s, session |-> s] /\ link_session[s] = s
      /\ p.msg_seq \in Nat /\ n <= p.msg_seq /\ p.msg_seq \notin Sent
      /\ recv_packet[s] # <<>> /\ ~(s > conn)
      /\ Stream(s) \in Seq(PacketRecord) /\ Stream(s) # <<>> /\ Stream(s)[1] = p
      /\ Tail(recv_packet[s]) \o up[s] = Tail(Stream(s)) /\ Plain(Tail(Stream(s)))
      /\ session_seq' = [session_seq EXCEPT ![s] = p.msg_seq]
      /\ UNCHANGED <<sessions, handled>>
      /\ UNCHANGED <<conn, sent, events, msg_seq>> /\ Sent' = Sent
      /\ \A d \in Keys : link_session[d] = s => d = s
  BY AtReconnect
<1>3. p.session.key = 1 /\ Own
  <2>1. p.session.key \in sessions
    BY Zenon DEF Reconnects
  <2>2. QED
    BY <1>1, <2>1 DEF SessionsOK
<1>4. s # 1 /\ s # 0
  BY <1>2, <1>3, FirstKey DEF Fresh
<1>5. /\ link_session' = [d \in Keys |->
              IF d = s THEN 1 ELSE IF link_session[d] = 1 THEN 0 ELSE link_session[d]]
      /\ tokens' = tokens + 1
      /\ session_token' = [session_token EXCEPT ![1] = tokens']
      /\ Consume(s, HandOver(s, 1))
      /\ down' = [down EXCEPT ![s] = Append(@, Answer("Reconnect_Ans", FALSE,
                       [key |-> 1, token |-> tokens'], session_seq[1]))]
  BY <1>2, <1>3 DEF Reconnects
<1>6. /\ recv_packet'[s] = Tail(recv_packet[s]) /\ recv_packet'[1] = Tail(recv_packet[s])
      /\ \A d \in Keys : d # s /\ d # 1 => recv_packet'[d] = recv_packet[d]
      /\ recv_packet' \in [Keys -> Seq(Fits(n))]
      /\ reading' \in {Idle, reading}
  <2>1. recv_packet \in [Keys -> Seq(Fits(n))]
    BY <1>1 DEF WireFits
  <2>2. HandOver(s, 1) \in [Keys -> Seq(Fits(n))] /\ HandOver(s, 1)[s] = recv_packet[s]
    BY <1>2, <2>1, FirstKey, HandOverIn
  <2>3. recv_packet' \in [Keys -> Seq(Fits(n))] /\ reading' \in {Idle, reading}
    BY <1>2, <1>5, <2>2, ConsumeIn
  <2>4. HandOver(s, 1) = [recv_packet EXCEPT ![1] = Tail(recv_packet[s])]
    BY <1>4 DEF HandOver
  <2>5. recv_packet' = [HandOver(s, 1) EXCEPT ![s] = Tail(@)]
    BY <1>5 DEF Consume
  <2>6. QED
    BY <1>4, <2>1, <2>2, <2>3, <2>4, <2>5, FirstKey
<1>7. /\ session_token'[1] # 0
      /\ \A d \in Keys : d # 1 => session_token'[d] = session_token[d]
      /\ session_seq'[s] = p.msg_seq
      /\ \A d \in Keys : d # s => session_seq'[d] = session_seq[d]
  <2>1. tokens + 1 # 0
    BY <1>0 DEF TypeOK
  <2>2. QED
    BY <1>0, <1>2, <1>5, <2>1, FirstKey DEF TypeOK
<1>8. /\ Own' /\ Mark' = Mark /\ OwnHandled' = OwnHandled
      /\ Mark \in Nat
  <2>1. Own' /\ session_seq'[1] = session_seq[1]
    BY <1>4, <1>7, FirstKey DEF Own
  <2>2. Mark' = Mark /\ OwnHandled' = OwnHandled
    BY <1>2, <1>3, <2>1 DEF Mark, OwnHandled
  <2>3. QED
    BY <1>0, <1>1, <2>1, <2>2, MarkTypes
<1>9. /\ link_session'[s] = 1
      /\ \A d \in Keys : link_session'[d] = 1 => d = s
      /\ \A d \in Keys : d # s /\ link_session'[d] # 0 =>
            link_session'[d] = link_session[d] /\ link_session[d] # 1 /\ link_session[d] # s
  BY <1>2, <1>4, <1>5
<1>10. ~Fresh(s)' /\ Stream(s)' = Tail(Stream(s))
  <2>1. Stream(s)' = recv_packet'[1] \o up[s]
    BY <1>9 DEF Stream
  <2>2. QED
    BY <1>2, <1>4, <1>6, <1>9, <2>1 DEF Fresh
<1>11. \A d \in Keys : link_session'[d] # 0 =>
               /\ link_session[d] # 0
               /\ \/ link_session'[d] = link_session[d] /\ Stream(d)' = Stream(d)
                  \/ /\ ~Fresh(d)' /\ Stream(d) # <<>> /\ Stream(d)' = Tail(Stream(d))
                     /\ Stream(d)[1].msg_seq \in Sent => Stream(d)[1].msg_seq <= Mark'
  <2>1. SUFFICES ASSUME NEW d \in Keys, link_session'[d] # 0
                 PROVE  /\ link_session[d] # 0
                        /\ \/ link_session'[d] = link_session[d] /\ Stream(d)' = Stream(d)
                           \/ /\ ~Fresh(d)' /\ Stream(d) # <<>> /\ Stream(d)' = Tail(Stream(d))
                              /\ Stream(d)[1].msg_seq \in Sent => Stream(d)[1].msg_seq <= Mark'
    BY Zenon
  <2>2. CASE d = s
    BY <1>2, <1>4, <1>10, <2>2
  <2>3. CASE d # s
    <3>1. link_session'[d] = link_session[d] /\ link_session[d] # 1 /\ link_session[d] # s
      BY <1>9, <2>1, <2>3
    <3>2. link_session[d] # 0 /\ link_session[d] \in Keys
      BY <1>0, <2>1, <3>1, StreamTypes
    <3>3. Stream(d)' = Stream(d)
      BY <1>6, <3>1, <3>2 DEF Stream
    <3>4. QED
      BY <3>1, <3>2, <3>3
  <2>4. QED
    BY <2>2, <2>3
<1>12. Unused'
  <2>1. SUFFICES ASSUME NEW d \in Keys, d > conn PROVE Untouched(d)'
    BY <1>2, Zenon DEF Unused
  <2>2. Untouched(d) /\ session_token[d] = 0 /\ link_session[d] = 0
    BY <1>1, <2>1 DEF Unused, Untouched
  <2>3. d # s /\ d # 1
    BY <1>2, <1>3, <2>1, <2>2 DEF Own
  <2>4. link_session'[d] = 0
    BY <1>5, <2>2, <2>3
  <2>5. QED
    BY <1>2, <1>6, <1>7, <2>2, <2>3, <2>4, Zenon DEF Untouched
<1>13. SessionsOK(n)'
  <2>1. \A d \in Keys : link_session'[d] \in {0, 1, d}
    BY <1>1, <1>5 DEF SessionsOK
  <2>2. \A c, d \in Keys : link_session'[c] = 1 /\ link_session'[d] = 1 => c = d
    BY <1>9
  <2>3. \A d \in Keys : session_token'[d] # 0 => d = 1
    BY <1>1, <1>7 DEF SessionsOK
  <2>4. \A d \in sessions' : d = 1 /\ Own'
    BY <1>1, <1>2, <1>8 DEF SessionsOK
  <2>5. n <= session_seq'[1]
    BY <1>1, <1>3, <1>4, <1>7, FirstKey DEF SessionsOK
  <2>6. reading' # Idle => reading'.session # 1
    BY <1>2, <1>4, <1>6
  <2>7. QED
    BY <1>8, <2>1, <2>2, <2>3, <2>4, <2>5, <2>6, Zenon DEF SessionsOK
<1>14. OwnPlain'
  BY <1>2, <1>9, <1>10, Zenon DEF OwnPlain
<1>15. PrefixOK'
  BY <1>1, <1>2, <1>8, Zenon DEF PrefixOK
<1>16. AcksOK'
  <2>1. PICK a : a = Answer("Reconnect_Ans", FALSE, [key |-> 1, token |-> tokens + 1], session_seq[1])
    OBVIOUS
  <2>2. PICK C : C = {s}
    OBVIOUS
  <2>3. down' = [down EXCEPT ![s] = Append(@, a)]
    BY <1>5, <2>1
  <2>4. down \in [Keys -> Seq(AnswerRecord)]
    BY <1>0 DEF TypeOK
  <2>5. down' = [c \in Keys |-> IF c \in C THEN Append(down[c], a) ELSE down[c]]
    BY <2>2, <2>3, <2>4
  <2>6. a.msg_id # "HeartBeat_Ans"
    BY <2>1 DEF Answer
  <2>7. UNCHANGED events /\ Mark' \in Nat /\ Mark <= Mark'
    BY <1>2, <1>8
  <2>8. QED
    BY <2>5, <2>6, <2>7, AcksKept
<1>17. \A d \in Keys : d # s => \/ recv_packet'[d] = recv_packet[d]
                                \/ d = 1 /\ Own /\ recv_packet'[d] = Tail(recv_packet[s])
  BY <1>3, <1>6
<1>18. Mark' \in Nat /\ Mark <= Mark' /\ Own' /\ handled' = handled
  BY <1>2, <1>8
<1>19. QED
  BY <1>2, <1>6, <1>10, <1>11, <1>12, <1>13, <1>14, <1>15, <1>16, <1>17, <1>18, FreshPacketGood

\* A link whose Reconnect_Req is refused has no session any more.
LEMMA ReconnectFailsGood ==
    ASSUME TInv, NEW n \in Nat, Good(n), UNCHANGED client, UNCHANGED up,
           NEW s \in Keys, NEW p, AtPacket(s, p), Recv_Reconnect_Req(s, p), ReconnectFails(s, p)
    PROVE  Good(n)'
<1>0. TypeOK
  BY DEF TInv
<1>1. /\ NumbersGrow /\ WireFits(n) /\ Unused /\ SessionsOK(n) /\ PrefixOK /\ OwnPlain
  BY Zenon DEF Good
<1>2. /\ Fresh(s) /\ reading = [link |-> s, session |-> s] /\ link_session[s] = s
      /\ p.msg_seq \in Nat /\ n <= p.msg_seq
      /\ recv_packet[s] # <<>> /\ ~(s > conn)
      /\ session_seq' = [session_seq EXCEPT ![s] = p.msg_seq]
      /\ UNCHANGED <<sessions, handled>>
      /\ UNCHANGED <<conn, sent, events, msg_seq>> /\ Sent' = Sent
      /\ \A d \in Keys : link_session[d] = s => d = s
  BY AtReconnect
<1>3. /\ link_session' = [link_session EXCEPT ![s] = 0]
      /\ down' = [down EXCEPT ![s] = Append(@, Answer("Reconnect_Ans", TRUE, Unknown, 0))]
      /\ Consume(s, recv_packet)
      /\ UNCHANGED <<session_token, tokens>>
  BY <1>2 DEF ReconnectFails
<1>4. s # 0 /\ (s = 1 => ~Own)
  BY <1>2, FirstKey DEF Fresh
<1>5. /\ recv_packet'[s] = Tail(recv_packet[s])
      /\ \A d \in Keys : d # s => recv_packet'[d] = recv_packet[d]
      /\ recv_packet' \in [Keys -> Seq(Fits(n))]
      /\ reading' \in {Idle, reading}
  <2>1. recv_packet \in [Keys -> Seq(Fits(n))]
    BY <1>1 DEF WireFits
  <2>2. recv_packet' \in [Keys -> Seq(Fits(n))] /\ reading' \in {Idle, reading}
    BY <1>2, <1>3, <2>1, ConsumeIn
  <2>3. recv_packet' = [recv_packet EXCEPT ![s] = Tail(@)]
    BY <1>3 DEF Consume
  <2>4. QED
    BY <2>1, <2>2, <2>3
<1>6. /\ session_seq'[s] = p.msg_seq
      /\ \A d \in Keys : d # s => session_seq'[d] = session_seq[d]
      /\ link_session'[s] = 0
      /\ \A d \in Keys : d # s => link_session'[d] = link_session[d]
  BY <1>0, <1>2, <1>3 DEF TypeOK
<1>7. /\ (Own' <=> Own) /\ Mark' = Mark /\ OwnHandled' = OwnHandled
      /\ Mark \in Nat
  <2>1. Own' <=> Own
    BY <1>3 DEF Own
  <2>2. Own => session_seq'[1] = session_seq[1]
    BY <1>4, <1>6, FirstKey
  <2>3. Mark' = Mark /\ OwnHandled' = OwnHandled
    BY <1>2, <2>1, <2>2 DEF Mark, OwnHandled
  <2>4. QED
    BY <1>0, <1>1, <2>1, <2>3, MarkTypes
<1>8. ~Fresh(s)'
  BY <1>4, <1>6 DEF Fresh
<1>9. \A d \in Keys : link_session'[d] # 0 =>
          link_session'[d] = link_session[d] /\ Stream(d)' = Stream(d)
  <2>1. SUFFICES ASSUME NEW d \in Keys, link_session'[d] # 0
                 PROVE  link_session'[d] = link_session[d] /\ Stream(d)' = Stream(d)
    OBVIOUS
  <2>2. d # s /\ link_session'[d] = link_session[d] /\ link_session[d] # s
    BY <1>2, <1>6, <2>1
  <2>3. link_session[d] \in Keys
    BY <1>0, <2>1, <2>2, StreamTypes
  <2>4. recv_packet'[link_session'[d]] = recv_packet[link_session[d]]
    BY <1>5, <2>2, <2>3
  <2>5. Stream(d)' = Stream(d)
    BY <2>4, Zenon DEF Stream
  <2>6. QED
    BY <2>2, <2>5
<1>10. Unused'
  <2>1. SUFFICES ASSUME NEW d \in Keys, d > conn PROVE Untouched(d)'
    BY <1>2, Zenon DEF Unused
  <2>2. Untouched(d) /\ d # s
    BY <1>1, <1>2, <2>1 DEF Unused
  <2>3. QED
    BY <1>2, <1>3, <1>5, <1>6, <2>2, Zenon DEF Untouched
<1>11. SessionsOK(n)'
  <2>1. \A d \in Keys : link_session'[d] = 0 \/ (d # s /\ link_session'[d] = link_session[d])
    BY <1>6
  <2>2. /\ \A d \in Keys : link_session'[d] \in {0, 1, d}
        /\ \A c, d \in Keys : link_session'[c] = 1 /\ link_session'[d] = 1 => c = d
        /\ \A c \in Keys : link_session'[c] = 1 => c = 1 \/ Own
    BY <1>1, <2>1 DEF SessionsOK
  <2>3. Own => n <= session_seq'[1]
    BY <1>1, <1>4, <1>6, FirstKey DEF SessionsOK
  <2>4. reading' # Idle /\ reading'.session = 1 => ~Own
    BY <1>2, <1>4, <1>5
  <2>5. \A x \in Keys : session_token'[x] # 0 => x = 1
    BY <1>1, <1>3 DEF SessionsOK
  <2>6. \A x \in sessions' : x = 1 /\ Own
    BY <1>1, <1>2 DEF SessionsOK
  <2>7. QED
    BY <1>7, <2>2, <2>3, <2>4, <2>5, <2>6, Zenon DEF SessionsOK
<1>12. OwnPlain'
  <2>1. SUFFICES ASSUME NEW d \in Keys, Own, link_session'[d] = 1 PROVE Plain(Stream(d)')
    BY <1>7, Zenon DEF OwnPlain
  <2>2. link_session[d] = 1 /\ Stream(d)' = Stream(d)
    BY <1>9, <2>1
  <2>3. QED
    BY <1>1, <2>1, <2>2 DEF OwnPlain
<1>13. PrefixOK'
  BY <1>1, <1>2, <1>7, Zenon DEF PrefixOK
<1>14. AcksOK'
  <2>1. PICK a : a = Answer("Reconnect_Ans", TRUE, Unknown, 0)
    OBVIOUS
  <2>2. PICK C : C = {s}
    OBVIOUS
  <2>3. down' = [down EXCEPT ![s] = Append(@, a)]
    BY <1>3, <2>1
  <2>4. down \in [Keys -> Seq(AnswerRecord)]
    BY <1>0 DEF TypeOK
  <2>5. down' = [c \in Keys |-> IF c \in C THEN Append(down[c], a) ELSE down[c]]
    BY <2>2, <2>3, <2>4
  <2>6. a.msg_id # "HeartBeat_Ans"
    BY <2>1 DEF Answer
  <2>7. UNCHANGED events /\ Mark' \in Nat /\ Mark <= Mark'
    BY <1>2, <1>7
  <2>8. QED
    BY <2>5, <2>6, <2>7, AcksKept
<1>15. \A d \in Keys : link_session'[d] # 0 =>
               /\ link_session[d] # 0
               /\ \/ link_session'[d] = link_session[d] /\ Stream(d)' = Stream(d)
                  \/ /\ ~Fresh(d)' /\ Stream(d) # <<>> /\ Stream(d)' = Tail(Stream(d))
                     /\ Stream(d)[1].msg_seq \in Sent => Stream(d)[1].msg_seq <= Mark'
  BY <1>9
<1>16. \A d \in Keys : d # s => \/ recv_packet'[d] = recv_packet[d]
                                \/ d = 1 /\ Own /\ recv_packet'[d] = Tail(recv_packet[s])
  BY <1>5
<1>17. Mark' \in Nat /\ Mark <= Mark' /\ (Own => Own') /\ handled' = handled
  BY <1>2, <1>7
<1>18. QED
  BY <1>2, <1>5, <1>8, <1>10, <1>11, <1>12, <1>13, <1>14, <1>15, <1>16, <1>17, FreshPacketGood

LEMMA OnRecvMsgGood ==
    ASSUME TInv, NEW n \in Nat, Good(n), NEW s \in Keys, OnRecvMsg(s)
    PROVE  Good(n)'
<1>1. PICK p : /\ AtPacket(s, p)
               /\ \/ Discard(s, p) \/ Recv_Connect_Req(s, p) \/ Recv_Reconnect_Req(s, p)
                  \/ Recv_HeartBeat_Req(s, p) \/ Recv_Message(s, p)
  BY Zenon DEF OnRecvMsg
<1>2. UNCHANGED client /\ UNCHANGED up
  BY Zenon DEF OnRecvMsg
<1>3. CASE Discard(s, p)
  BY <1>1, <1>2, <1>3, DiscardGood
<1>4. CASE Recv_Connect_Req(s, p)
  BY <1>1, <1>2, <1>4, ConnectReqGood
<1>5. CASE Recv_Reconnect_Req(s, p)
  <2>1. Reconnects(s, p) \/ ReconnectFails(s, p)
    BY <1>5 DEF Recv_Reconnect_Req
  <2>2. QED
    BY <1>1, <1>2, <1>5, <2>1, ReconnectsGood, ReconnectFailsGood
<1>6. CASE Recv_HeartBeat_Req(s, p)
  BY <1>1, <1>2, <1>6, HeartBeatReqGood
<1>7. CASE Recv_Message(s, p)
  BY <1>1, <1>2, <1>7, MessageGood
<1>8. QED
  BY <1>1, <1>3, <1>4, <1>5, <1>6, <1>7

-----------------------------------------------------------------------------
(* The theorems. *)

LEMMA GoodInit == Init => Good(0)
<1> SUFFICES ASSUME Init PROVE Good(0)
  OBVIOUS
<1>1. /\ msg_seq = 0 /\ conn = 0 /\ idx = 0 /\ ~writing /\ numbered = NoPacket /\ state = "Connecting"
      /\ queue = <<>> /\ events = <<>> /\ sent = <<>> /\ sessions = {} /\ reading = Idle
      /\ \A c \in Keys : /\ up[c] = <<>> /\ down[c] = <<>> /\ recv_packet[c] = <<>>
                         /\ link_session[c] = 0 /\ session_seq[c] = 0 /\ session_token[c] = 0
                         /\ handled[c] = <<>>
      /\ up = [c \in Keys |-> <<>>] /\ recv_packet = [c \in Keys |-> <<>>]
  BY DEF Init
<1>2. DOMAIN sent = {} /\ DOMAIN queue = {} /\ DOMAIN events = {} /\ 1 .. Len(queue) = {}
      /\ Len(queue) = 0 /\ \A c \in Keys : DOMAIN down[c] = {}
  BY <1>1
<1>3. ~Own /\ Mark = 0 /\ OwnHandled = <<>> /\ \A c \in Keys : ~Fresh(c)
  BY <1>1, FirstKey DEF Own, Mark, OwnHandled, Fresh
<1>4. 0 <= msg_seq /\ NumbersGrow
  BY <1>1, <1>2 DEF NumbersGrow
<1>5. ClientFits(0)
  BY <1>1 DEF ClientFits
<1>6. WireFits(0)
  BY <1>1 DEF WireFits
<1>7. Unconnected /\ Unused
  BY <1>1, <1>2 DEF Unconnected, Unused, Untouched
<1>8. SessionsOK(0)
  BY <1>1, <1>3 DEF SessionsOK
<1>9. FreshOK /\ UsedOK(0) /\ OwnPlain /\ GaplessOK
  BY <1>1, <1>3 DEF FreshOK, UsedOK, OwnPlain, GaplessOK
<1>10. QueueOrder
  BY <1>1, <1>2 DEF QueueOrder
<1>11. AcksOK
  BY <1>1, <1>2 DEF AcksOK
<1>12. PrefixOK
  BY <1>2, <1>3 DEF PrefixOK
<1>13. QueuedOK
  BY <1>2 DEF QueuedOK, Sent
<1>14. WrittenOK /\ SilentOK
  BY <1>1 DEF WrittenOK, SilentOK
<1>15. QED
  BY <1>4, <1>5, <1>6, <1>7, <1>8, <1>9, <1>10, <1>11, <1>12, <1>13, <1>14, Zenon DEF Good

\* What has been spoiled stays spoiled.
LEMMA SpoiledStays == [Next]_vars /\ spoiled => spoiled'
<1> SUFFICES ASSUME [Next]_vars, spoiled PROVE spoiled'
  OBVIOUS
<1>1. CASE UNCHANGED vars
  BY <1>1 DEF vars, client
<1>2. CASE Client
  BY <1>2, Zenon DEF Client, SendMsg, SendMsgQueues, Send_HeartBeat_Req, Callback_SendMsg,
     Callback_Connect, Callback_Reconnect, Close, Callback_Receive, Update
<1>3. CASE Server
  <2>1. UNCHANGED client
    BY <1>3, Zenon DEF Server, Read, OnRecvMsg, LinkCloses, IdleTimer
  <2>2. QED
    BY <2>1 DEF client
<1>4. QED
  BY <1>1, <1>2, <1>3, Zenon DEF Next

\* A step of the server or of the client that does not spoil delivery.
LEMMA GoodNext ==
    ASSUME TInv, NEW n \in Nat, Good(n), [Next]_vars, ~spoiled'
    PROVE  \E k \in Nat : Good(k)'
<1>1. CASE UNCHANGED vars
  <2>1. UNCHANGED client /\ UNCHANGED server /\ UNCHANGED <<up, down>>
    BY <1>1, Zenon DEF vars
  <2>2. /\ n <= msg_seq' /\ ClientFits(n)' /\ Unconnected' /\ QueueOrder'
        /\ Fits(n)' = Fits(n) /\ Sent' = Sent
        /\ UNCHANGED <<state, conn, msg_seq, numbered, queue, idx, writing, events, sent>>
    BY <2>1, ClientKept
  <2>3. /\ (Own' <=> Own) /\ Mark' = Mark /\ OwnHandled' = OwnHandled
    BY <2>1, ServerFrame
  <2>4. UNCHANGED <<link_session, recv_packet, session_seq, session_token, sessions, handled, reading>>
    BY <2>1 DEF server
  <2>5. /\ NumbersGrow /\ WireFits(n) /\ Unused /\ SessionsOK(n) /\ FreshOK /\ UsedOK(n)
        /\ OwnPlain /\ GaplessOK /\ AcksOK /\ PrefixOK
    BY Zenon DEF Good
  <2>6. \A d \in Keys : link_session'[d] # 0 => link_session'[d] = link_session[d] /\ Stream(d)' = Stream(d)
    BY <2>1, <2>4, Zenon DEF Stream
  <2>7. WrittenOK' /\ SilentOK' /\ QueuedOK' /\ OwnPlain' /\ GaplessOK'
    BY <2>1, <2>3, <2>6, StreamsKept
  <2>8. FreshOK'
    BY <2>1, <2>2, <2>5, StreamsFrame
  <2>9. SessionsOK(n)' /\ UsedOK(n)'
    BY <2>1, <2>5, SessionsFrame
  <2>10. NumbersGrow' /\ WireFits(n)' /\ AcksOK' /\ PrefixOK'
    BY <2>1, <2>2, <2>3, <2>4, <2>5, Zenon DEF NumbersGrow, WireFits, AcksOK, PrefixOK
  <2>11. Unused'
    BY <2>1, <2>2, <2>5, UnusedFrame
  <2>12. Good(n)'
    BY <2>2, <2>7, <2>8, <2>9, <2>10, <2>11, Zenon DEF Good
  <2>13. QED
    BY <2>12
<1>2. CASE Client
  <2>1. CASE Callback_Connect
    BY <2>1, ConnectGood
  <2>2. CASE ~Callback_Connect
    <3>1. Good(n)'
      BY <1>2, <2>2, SendMsgGood, SendMsgQueuesGood, HeartBeatGood, CallbackSendGood,
         ReconnectGood, CloseGood, CallbackReceiveGood, UpdateGood, Zenon DEF Client
    <3>2. QED
      BY <3>1
  <2>3. QED
    BY <2>1, <2>2
<1>3. CASE Server
  <2>1. Good(n)'
    BY <1>3, ReadGood, OnRecvMsgGood, LinkClosesGood, IdleTimerGood, Zenon DEF Server
  <2>2. QED
    BY <2>1
<1>4. QED
  BY <1>1, <1>2, <1>3, Zenon DEF Next

LEMMA IInvInit == Init => IInv
BY TInvInit, GoodInit, Zenon DEF IInv

LEMMA IInvNext == IInv /\ [Next]_vars => IInv'
<1> SUFFICES ASSUME IInv, [Next]_vars PROVE IInv'
  OBVIOUS
<1>1. TInv /\ TInv'
  BY TInvNext DEF IInv
<1>2. CASE spoiled'
  BY <1>1, <1>2 DEF IInv
<1>3. CASE ~spoiled'
  <2>1. ~spoiled
    BY <1>3, SpoiledStays
  <2>2. PICK n \in Nat : Good(n)
    BY <2>1 DEF IInv
  <2>3. \E k \in Nat : Good(k)'
    BY <1>1, <1>3, <2>2, GoodNext
  <2>4. QED
    BY <1>1, <2>3 DEF IInv
<1>4. QED
  BY <1>2, <1>3

\* Only session 1 ever has a token: what it has handled is what the client's has.
LEMMA HandledOwn ==
    ASSUME NEW n
    PROVE  /\ TypeOK /\ SessionsOK(n) => HandledByOwn = OwnHandled
           /\ TypeOK' /\ SessionsOK(n)' => HandledByOwn' = OwnHandled'
<1>1. ASSUME TypeOK, SessionsOK(n) PROVE HandledByOwn = OwnHandled
  <2>1. {s \in Keys : session_token[s] # 0} = IF Own THEN {1} ELSE {}
    BY <1>1, FirstKey DEF SessionsOK, Own
  <2>2. Own => (CHOOSE s \in {s \in Keys : session_token[s] # 0} : TRUE) = 1
    BY <2>1
  <2>3. QED
    BY <2>1, <2>2 DEF HandledByOwn, OwnHandled
<1>2. ASSUME TypeOK', SessionsOK(n)' PROVE HandledByOwn' = OwnHandled'
  <2>1. {s \in Keys : session_token'[s] # 0} = IF Own' THEN {1} ELSE {}
    BY <1>2, FirstKey DEF SessionsOK, Own
  <2>2. Own' => (CHOOSE s \in {s \in Keys : session_token'[s] # 0} : TRUE) = 1
    BY <2>1
  <2>3. QED
    BY <2>1, <2>2 DEF HandledByOwn, OwnHandled
<1>3. QED
  BY <1>1, <1>2

LEMMA QueuedInv == IInv => QueuedUntilHandled
<1> SUFFICES ASSUME IInv, ~spoiled, NEW i \in DOMAIN sent
             PROVE  \/ sent[i] \in {queue[j].msg_seq : j \in DOMAIN queue}
                    \/ sent[i] \in {HandledByOwn[j] : j \in DOMAIN HandledByOwn}
                    \/ numbered # NoPacket /\ numbered.msg_seq = sent[i]
  BY DEF QueuedUntilHandled
<1>1. PICK n \in Nat : Good(n)
  BY DEF IInv
<1>2. TypeOK /\ SessionsOK(n) /\ QueuedOK /\ PrefixOK
  BY <1>1, Zenon DEF Good, IInv, TInv
<1>3. HandledByOwn = OwnHandled
  BY <1>2, HandledOwn
<1>4. sent[i] \in Sent
  BY DEF Sent
<1>5. CASE In(sent[i], queue)
  <2>1. DOMAIN queue = 1 .. Len(queue)
    BY <1>2, LenProperties DEF TypeOK
  <2>2. QED
    BY <1>5, <2>1 DEF In
<1>6. CASE sent[i] <= Mark
  <2>1. i <= Len(OwnHandled) /\ \A k \in DOMAIN OwnHandled : OwnHandled[k] = sent[k]
    BY <1>2, <1>6 DEF PrefixOK
  <2>2. OwnHandled \in Seq(Nat) /\ sent \in Seq(Nat)
    BY <1>2, FirstKey DEF TypeOK, OwnHandled
  <2>3. i \in 1 .. Len(OwnHandled) /\ DOMAIN OwnHandled = 1 .. Len(OwnHandled)
    BY <2>1, <2>2, LenProperties
  <2>4. QED
    BY <1>3, <2>1, <2>3
<1>7. QED
  BY <1>2, <1>4, <1>5, <1>6 DEF QueuedOK

\* A packet handled: nothing, or the next reliable message of sent, is handled by the
\* client's session.
LEMMA PacketHandles ==
    ASSUME TInv, TInv', NEW n \in Nat, Good(n), NEW k \in Nat, Good(k)', sent' = sent,
           NEW s \in Keys, NEW p, AtPacket(s, p),
           \/ Discard(s, p) \/ Recv_Connect_Req(s, p) \/ Recv_Reconnect_Req(s, p)
           \/ Recv_HeartBeat_Req(s, p) \/ Recv_Message(s, p)
    PROVE  \/ OwnHandled' = OwnHandled
           \/ /\ Len(OwnHandled) < Len(sent)
              /\ OwnHandled' = Append(OwnHandled, sent[Len(OwnHandled) + 1])
<1>0. TypeOK /\ TypeOK' /\ SessionsOK(n) /\ PrefixOK'
  BY Zenon DEF Good, TInv
<1>1. (Own' <=> Own) /\ (Own => handled'[1] = handled[1]) => OwnHandled' = OwnHandled
  BY DEF OwnHandled
<1>2. CASE Discard(s, p) \/ Recv_HeartBeat_Req(s, p)
  <2>1. UNCHANGED <<session_token, handled>>
    BY <1>2, Zenon DEF Discard, Recv_HeartBeat_Req
  <2>2. QED
    BY <1>1, <2>1 DEF Own
<1>3. CASE Recv_Connect_Req(s, p)
  <2>1. s = 1 /\ ~Own /\ handled[1] = <<>>
    BY <1>3, ConnectIsFirst
  <2>2. handled' = handled
    BY <1>3, Zenon DEF Recv_Connect_Req
  <2>3. QED
    BY <2>1, <2>2 DEF OwnHandled
<1>4. CASE Recv_Reconnect_Req(s, p)
  <2>1. handled' = handled /\ (Reconnects(s, p) \/ ReconnectFails(s, p))
    BY <1>4, Zenon DEF Recv_Reconnect_Req
  <2>2. CASE Reconnects(s, p)
    <3>1. /\ p.session.key \in sessions
          /\ session_token' = [session_token EXCEPT ![p.session.key] = tokens']
          /\ tokens' = tokens + 1
      BY <2>2, Zenon DEF Reconnects
    <3>2. p.session.key = 1 /\ Own
      BY <1>0, <3>1 DEF SessionsOK
    <3>3. tokens + 1 # 0
      BY <1>0 DEF TypeOK
    <3>4. Own'
      BY <1>0, <3>1, <3>2, <3>3, FirstKey DEF TypeOK, Own
    <3>5. QED
      BY <1>1, <2>1, <3>2, <3>4
  <2>3. CASE ReconnectFails(s, p)
    <3>1. session_token' = session_token
      BY <2>3, Zenon DEF ReconnectFails
    <3>2. QED
      BY <1>1, <2>1, <3>1 DEF Own
  <2>4. QED
    BY <2>1, <2>2, <2>3
<1>5. CASE Recv_Message(s, p)
  <2>1. /\ handled' = [handled EXCEPT ![s] = IF p.reliable THEN Append(@, p.msg_seq) ELSE @]
        /\ session_token' = session_token
    BY <1>5, Zenon DEF Recv_Message
  <2>2. Own' <=> Own
    BY <2>1 DEF Own
  <2>3. handled \in [Keys -> Seq(Nat)] /\ sent \in Seq(Nat) /\ p.msg_seq \in Nat
    BY <1>0, AtPacketTypes DEF TypeOK
  <2>4. CASE Own /\ s = 1 /\ p.reliable
    <3>1. OwnHandled = handled[1] /\ OwnHandled' = Append(OwnHandled, p.msg_seq)
      BY <2>1, <2>2, <2>3, <2>4, FirstKey DEF OwnHandled
    <3>2. OwnHandled \in Seq(Nat) /\ Len(OwnHandled) \in Nat
      BY <2>3, <3>1, FirstKey, LenProperties
    <3>3. PICK l \in Nat : l = Len(OwnHandled) + 1
      BY <3>2
    <3>4. l \in DOMAIN OwnHandled' /\ OwnHandled'[l] = p.msg_seq
      BY <2>3, <3>1, <3>2, <3>3, AppendProperties
    <3>5. l <= Len(sent) /\ sent[l] = p.msg_seq
      BY <1>0, <3>4 DEF PrefixOK
    <3>6. Len(sent) \in Nat
      BY <2>3, LenProperties
    <3>7. QED
      BY <3>1, <3>2, <3>3, <3>5, <3>6
  <2>5. CASE ~(Own /\ s = 1 /\ p.reliable)
    <3>1. Own => handled'[1] = handled[1]
      BY <2>1, <2>3, <2>5, FirstKey
    <3>2. QED
      BY <1>1, <2>2, <3>1
  <2>6. QED
    BY <2>4, <2>5
<1>6. QED
  BY <1>2, <1>3, <1>4, <1>5

LEMMA QueueStep ==
    IInv /\ IInv' /\ [Next]_vars =>
        [Queue!Send \/ Queue!Handle \/ spoiled']_<<sent, HandledByOwn>>
<1> SUFFICES ASSUME IInv, IInv', [Next]_vars, ~spoiled'
             PROVE  Queue!Send \/ Queue!Handle \/ UNCHANGED <<sent, HandledByOwn>>
  OBVIOUS
<1>1. ~spoiled
  BY SpoiledStays
<1>2. PICK n \in Nat : Good(n)
  BY <1>1 DEF IInv
<1>3. PICK k \in Nat : Good(k)'
  BY DEF IInv
<1>4. /\ TInv /\ TInv' /\ TypeOK /\ TypeOK'
      /\ HandledByOwn = OwnHandled /\ HandledByOwn' = OwnHandled'
  <2>1. TInv /\ TInv' /\ TypeOK /\ TypeOK'
    BY Zenon DEF IInv, TInv
  <2>2. SessionsOK(n) /\ SessionsOK(k)'
    BY <1>2, <1>3, Zenon DEF Good
  <2>3. QED
    BY <2>1, <2>2, HandledOwn
<1>5. UNCHANGED <<session_token, handled>> => HandledByOwn' = HandledByOwn
  BY DEF HandledByOwn
<1>6. CASE UNCHANGED vars
  BY <1>5, <1>6 DEF vars, client, server
<1>7. CASE Client
  <2>1. CASE \E reliable \in BOOLEAN : SendMsg(reliable)
    <3>1. PICK reliable \in BOOLEAN : SendMsg(reliable)
      BY <2>1
    <3>2. /\ msg_seq < MaxSeq /\ UNCHANGED server
          /\ sent' = IF reliable THEN Append(sent, msg_seq + 1) ELSE sent
      BY <3>1, Zenon DEF SendMsg
    <3>3. HandledByOwn' = HandledByOwn
      BY <1>5, <3>2 DEF server
    <3>4. msg_seq + 1 \in Numbers
      BY <1>4, <3>2, ReliableSessionAssumption DEF TypeOK, Numbers, ReliableSessionAssumption
    <3>5. QED
      BY <3>2, <3>3, <3>4 DEF Queue!Send
  <2>2. CASE ~\E reliable \in BOOLEAN : SendMsg(reliable)
    <3>1. UNCHANGED <<sent, session_token, handled>>
      <4>1. CASE SendMsgQueues \/ Send_HeartBeat_Req \/ Callback_SendMsg
        BY <4>1 DEF SendMsgQueues, Send_HeartBeat_Req, Callback_SendMsg, server
      <4>2. CASE Close \/ Callback_Receive \/ Update
        BY <4>2 DEF Close, Callback_Receive, Update, server
      <4>3. CASE Callback_Connect \/ Callback_Reconnect
        BY <4>3 DEF Callback_Connect, Callback_Reconnect
      <4>4. QED
        BY <1>7, <2>2, <4>1, <4>2, <4>3, Zenon DEF Client
    <3>2. QED
      BY <1>5, <3>1
  <2>3. QED
    BY <2>1, <2>2
<1>8. CASE Server
  <2>1. sent' = sent
    <3>1. UNCHANGED client
      BY <1>8, Zenon DEF Server, Read, OnRecvMsg, LinkCloses, IdleTimer
    <3>2. QED
      BY <3>1 DEF client
  <2>2. PICK c \in Keys : Read(c) \/ OnRecvMsg(c) \/ LinkCloses(c) \/ IdleTimer(c)
    BY <1>8, Zenon DEF Server
  <2>3. CASE Read(c) \/ LinkCloses(c) \/ IdleTimer(c)
    <3>1. UNCHANGED <<session_token, handled>>
      BY <2>3 DEF Read, LinkCloses, IdleTimer
    <3>2. QED
      BY <1>5, <2>1, <3>1
  <2>4. CASE OnRecvMsg(c)
    <3>1. PICK p : /\ AtPacket(c, p)
                   /\ \/ Discard(c, p) \/ Recv_Connect_Req(c, p) \/ Recv_Reconnect_Req(c, p)
                      \/ Recv_HeartBeat_Req(c, p) \/ Recv_Message(c, p)
      BY <2>4, Zenon DEF OnRecvMsg
    <3>2. \/ OwnHandled' = OwnHandled
          \/ /\ Len(OwnHandled) < Len(sent)
             /\ OwnHandled' = Append(OwnHandled, sent[Len(OwnHandled) + 1])
      BY <1>2, <1>3, <1>4, <2>1, <3>1, PacketHandles
    <3>3. QED
      BY <1>4, <2>1, <3>2 DEF Queue!Handle
  <2>5. QED
    BY <2>2, <2>3, <2>4
<1>9. QED
  BY <1>6, <1>7, <1>8, Zenon DEF Next

\* Until delivery is spoiled, a reliable message is in the client's queue, or about to be,
\* until its session has handled it: RemoveSentPacket and Callback_SendMsg (Session.cs) drop
\* no other, for any number of connections and messages and any heartbeat interval, with
\* and without BeginSend failing and threads overtaking each other.
THEOREM NothingIsDropped == Spec => []QueuedUntilHandled
BY QueuedInv, IInvInit, IInvNext, PTL DEF Spec

\* OnRecvMsg with the client's reconnects implements ReliableQueue until delivery is
\* spoiled: every step is a Send, a Handle of the next message of sent, or stutters.
THEOREM ReliableOnce == Spec => ExactlyOnce
<1>1. Init => Queue!Init
  <2>1. SUFFICES ASSUME Init PROVE Queue!Init
    OBVIOUS
  <2>2. \A s \in Keys : session_token[s] = 0
    BY <2>1 DEF Init
  <2>3. {s \in Keys : session_token[s] # 0} = {}
    BY <2>2
  <2>4. HandledByOwn = <<>>
    BY <2>3 DEF HandledByOwn
  <2>5. QED
    BY <2>1, <2>4 DEF Init, Queue!Init
<1>2. QED
  BY <1>1, QueueStep, IInvInit, IInvNext, PTL DEF Spec, ExactlyOnce
=============================================================================
