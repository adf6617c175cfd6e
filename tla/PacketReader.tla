---------------------------- MODULE PacketReader ----------------------------
(***************************************************************************)
(* Packets cut out of the byte stream of a link: Link::AsyncRead appends   *)
(* what the socket has to Session::recv_packet, and the loop of OnRecvMsg  *)
(* takes whole packets from its front.  A read may end anywhere in a       *)
(* packet, and one read may hold many.                                     *)
(*                                                                         *)
(* A byte is its position in the stream, from 1.  The buffer has its       *)
(* cursors: Packet::GetLength reads the beginning of data while the        *)
(* handler reads from ReadPtr(), so they must not differ when a packet is  *)
(* parsed.                                                                 *)
(***************************************************************************)
EXTENDS Naturals, Sequences

CONSTANTS
    HEADER_SIZE,
    MAX_SIZE,     \* Buffer::MAX_SIZE, of read_buffer and of recv_packet
    MaxPackets    \* bound: packets written by the sender

ASSUME PacketAssumption ==
    /\ HEADER_SIZE \in Nat \ {0} /\ MAX_SIZE \in Nat /\ HEADER_SIZE < MAX_SIZE
    /\ MaxPackets \in Nat

VARIABLES
    sent,        \* packets in the stream: where each starts and its length
    delivered,   \* bytes that have been read from the socket
    recv_packet, \* Session::recv_packet: data and the two cursors
    handled,     \* history: the bytes of each packet given to Dispatcher
    status       \* "reading", "parsing", "closed" by OnError, or "overflow",
                 \* the exception of Append that ends the process

vars == <<sent, delivered, recv_packet, handled, status>>

\* Where the stream ends.
Written == IF sent = <<>> THEN 0
           ELSE LET last == sent[Len(sent)] IN last.start + last.length - 1

-----------------------------------------------------------------------------
\* Buffer.

Empty == [data |-> [i \in 0..(MAX_SIZE - 1) |-> 0], readCursor_ |-> 0, writeCursor_ |-> 0]

Size(b) == b.writeCursor_ - b.readCursor_
Available(b) == MAX_SIZE - Size(b)

RemoveReadBuffer(b) ==
    [data |-> [i \in 0..(MAX_SIZE - 1) |->
                  IF i < Size(b) THEN b.data[i + b.readCursor_] ELSE b.data[i]],
     readCursor_ |-> 0, writeCursor_ |-> Size(b)]

\* n bytes of the stream after position p are copied to the write cursor.
Append_(b, p, n) ==
    LET c == IF n > MAX_SIZE - b.writeCursor_ THEN RemoveReadBuffer(b) ELSE b
    IN  [c EXCEPT !.data = [i \in 0..(MAX_SIZE - 1) |->
                               IF i \in c.writeCursor_..(c.writeCursor_ + n - 1)
                               THEN p + 1 + i - c.writeCursor_ ELSE @[i]],
                  !.writeCursor_ = @ + n]

Remove(b, n) ==
    LET r == IF b.readCursor_ + n > b.writeCursor_ THEN b.writeCursor_ ELSE b.readCursor_ + n
    IN  IF r = b.writeCursor_ THEN [data |-> b.data, readCursor_ |-> 0, writeCursor_ |-> 0]
        ELSE [b EXCEPT !.readCursor_ = r]

Bytes(b, n) == [i \in 1..n |-> b.data[b.readCursor_ + i - 1]]

\* A mutant: what is left stays behind the read cursor.
RestKept(b) == b

\* What is left goes to the front of a new packet.
Rest(b) ==
    IF Size(b) = 0 THEN b
    ELSE [data |-> [i \in 0..(MAX_SIZE - 1) |->
                       IF i < Size(b) THEN b.data[b.readCursor_ + i] ELSE 0],
          readCursor_ |-> 0, writeCursor_ |-> Size(b)]

\* The length field of the header, at the beginning of data whatever the read
\* cursor is: any number if those bytes are not the header of a packet.
GetLength(b) ==
    LET packets == {k \in DOMAIN sent : sent[k].start = b.data[0]}
    IN  IF packets # {} THEN {sent[k].length : k \in packets} ELSE 0..MAX_SIZE

-----------------------------------------------------------------------------
Init ==
    /\ sent = <<>> /\ delivered = 0 /\ recv_packet = Empty
    /\ handled = <<>> /\ status = "reading"

\* Packet::Write refuses what would fill a buffer.
Write(length) ==
    /\ Len(sent) < MaxPackets
    /\ HEADER_SIZE <= length /\ length < MAX_SIZE
    /\ sent' = Append(sent, [start |-> Written + 1, length |-> length])
    /\ UNCHANGED <<delivered, recv_packet, handled, status>>

\* The socket has n bytes for read_buffer, and OnRecvMsg appends them.
AsyncRead(n) ==
    /\ status = "reading"
    /\ n <= MAX_SIZE /\ delivered + n <= Written
    /\ delivered' = delivered + n
    /\ IF Available(recv_packet) < n
       THEN status' = "overflow" /\ UNCHANGED recv_packet
       ELSE /\ status' = "parsing"
            /\ recv_packet' = Append_(recv_packet, delivered, n)
    /\ UNCHANGED <<sent, handled>>

\* The loop's three tests of the length field.
Valid(length) == HEADER_SIZE <= length /\ length < MAX_SIZE

\* A mutant: a packet that ends with the read waits for the next one.
CompleteWithMore(length) == length < Size(recv_packet)

Complete(length) == length <= Size(recv_packet)

HasHeader == HEADER_SIZE <= Size(recv_packet)

\* One round of the loop: a packet is dispatched and removed.
Dispatch ==
    /\ status = "parsing" /\ HasHeader
    /\ \E length \in GetLength(recv_packet) :
          /\ Valid(length) /\ Complete(length)
          /\ handled' = Append(handled, Bytes(recv_packet, length))
          /\ recv_packet' = Rest(Remove(recv_packet, length))
    /\ UNCHANGED <<sent, delivered, status>>

\* The loop ends: AsyncRead is called again, or OnError if the field is bad.
EndOfLoop ==
    /\ status = "parsing"
    /\ \/ ~HasHeader /\ status' = "reading"
       \/ /\ HasHeader
          /\ \E length \in GetLength(recv_packet) :
                /\ ~Valid(length) \/ ~Complete(length)
                /\ status' = IF Valid(length) THEN "reading" ELSE "closed"
    /\ UNCHANGED <<sent, delivered, recv_packet, handled>>

Read == \E n \in 1..MAX_SIZE : AsyncRead(n)
OnRecvMsg == Dispatch \/ EndOfLoop

Next == Read \/ OnRecvMsg \/ \E length \in HEADER_SIZE..MAX_SIZE : Write(length)

\* The network delivers what was sent and a handler that runs ends.
Spec == Init /\ [][Next]_vars /\ WF_vars(Read) /\ WF_vars(OnRecvMsg)

-----------------------------------------------------------------------------
\* The types: the cursors stay in the buffer, and each other's order.
TypeOK ==
    /\ sent \in Seq([start : Nat \ {0}, length : HEADER_SIZE..(MAX_SIZE - 1)])
    /\ Len(sent) <= MaxPackets
    /\ delivered \in 0..Written
    /\ recv_packet.data \in [0..(MAX_SIZE - 1) -> 0..Written]
    /\ recv_packet.writeCursor_ \in 0..MAX_SIZE
    /\ recv_packet.readCursor_ \in 0..recv_packet.writeCursor_
    /\ handled \in Seq(Seq(1..Written))
    /\ status \in {"reading", "parsing", "closed", "overflow"}

\* However the stream is cut into reads, Dispatcher gets the packets that were
\* sent, whole, in order and each once, and a stream of good packets is never
\* taken for a bad one (OnRecvMsg's OnError).
Framed ==
    /\ Len(handled) <= Len(sent)
    /\ \A k \in DOMAIN handled :
          handled[k] = [i \in 1..sent[k].length |-> sent[k].start + i - 1]
    /\ status # "closed"

\* A packet does not wait in recv_packet for bytes of a later one: every packet
\* sent is handled, unless Append finds no space.
EverythingHandled ==
    \A k \in 1..MaxPackets :
        Len(sent) >= k ~> Len(handled) >= k \/ status = "overflow"

\* "buffer overflow" is found by OnRecvMsg, which closes this link, and not by
\* Append, whose exception nobody catches.
NoOverflow == status # "overflow"
=============================================================================
