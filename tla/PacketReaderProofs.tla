------------------------- MODULE PacketReaderProofs -------------------------
(***************************************************************************)
(* Proofs about PacketReader: for any header size, buffer size and number  *)
(* of packets, the packets that are handled are the packets that were      *)
(* sent, however the stream was cut into reads.                            *)
(***************************************************************************)
EXTENDS PacketReader, Integers, TLAPS

\* The last byte of the first k packets, and of those that were handled.
EndOf(k) == IF k = 0 THEN 0 ELSE sent[k].start + sent[k].length - 1
Consumed == EndOf(Len(handled))

\* The stream is one packet after the other.
Stream ==
    /\ sent \in Seq([start : Nat \ {0}, length : HEADER_SIZE..(MAX_SIZE - 1)])
    /\ \A k \in 1..Len(sent) : sent[k].start = EndOf(k - 1) + 1
    /\ \A j, k \in 1..Len(sent) : j < k => sent[j].start < sent[k].start

\* recv_packet begins with the first byte that was not handled, at data[0].
Front ==
    /\ recv_packet \in [data : [0..(MAX_SIZE - 1) -> Nat], readCursor_ : {0},
                        writeCursor_ : 0..MAX_SIZE]
    /\ delivered \in Nat /\ delivered <= EndOf(Len(sent))
    /\ status # "overflow" => delivered = Consumed + recv_packet.writeCursor_
    /\ \A i \in 0..(recv_packet.writeCursor_ - 1) : recv_packet.data[i] = Consumed + 1 + i

IInv ==
    /\ Stream /\ Front
    /\ handled \in Seq(Seq(Nat))
    /\ status \in {"reading", "parsing", "overflow"}
    /\ Framed

-----------------------------------------------------------------------------
\* A packet that was sent has a first byte and a header.
LEMMA SentPacket ==
    ASSUME Stream, NEW k \in 1..Len(sent)
    PROVE  /\ sent[k].start \in Nat /\ sent[k].start >= 1
           /\ sent[k].length \in HEADER_SIZE..(MAX_SIZE - 1)
           /\ sent[k].length \in Nat /\ sent[k].length >= 1
<1>1. sent[k] \in [start : Nat \ {0}, length : HEADER_SIZE..(MAX_SIZE - 1)]
  <2> DEFINE Packets == [start : Nat \ {0}, length : HEADER_SIZE..(MAX_SIZE - 1)]
  <2>1. sent \in Seq(Packets)
    BY DEF Stream
  <2> HIDE DEF Packets
  <2>2. sent[k] \in Packets
    BY <2>1
  <2>3. QED
    BY <2>2 DEF Packets
<1>2. HEADER_SIZE \in Nat \ {0} /\ MAX_SIZE \in Nat
  BY PacketAssumption DEF PacketAssumption
<1>3. sent[k].start \in Nat \ {0} /\ sent[k].length \in HEADER_SIZE..(MAX_SIZE - 1)
  BY <1>1
<1>4. QED
  BY <1>2, <1>3

\* A whole packet at the front of recv_packet is the next one that was sent,
\* and the length field is read from its header.
LEMMA NextPacket ==
    ASSUME IInv, status = "parsing", HasHeader
    PROVE  /\ Len(handled) + 1 \in 1..Len(sent)
           /\ sent[Len(handled) + 1].start = Consumed + 1
           /\ GetLength(recv_packet) = {sent[Len(handled) + 1].length}
<1> DEFINE n == Len(handled)
<1>1. n \in Nat /\ Len(sent) \in Nat /\ n <= Len(sent) /\ HEADER_SIZE \in Nat \ {0} /\ MAX_SIZE \in Nat
  BY PacketAssumption DEF PacketAssumption, IInv, Framed, Stream
<1>2. recv_packet.writeCursor_ \in Nat /\ recv_packet.writeCursor_ >= 1
  BY <1>1 DEF IInv, Front, HasHeader, Size
<1>3. delivered = Consumed + recv_packet.writeCursor_ /\ delivered <= EndOf(Len(sent))
  BY DEF IInv, Front
<1>4. \A k \in 1..Len(sent) : sent[k].start \in Nat /\ sent[k].length \in Nat
  BY SentPacket DEF IInv
<1>5. EndOf(n) \in Int
  BY <1>1, <1>4 DEF EndOf
<1>6. n # Len(sent)
  BY <1>1, <1>2, <1>3, <1>5 DEF Consumed
<1>7. n + 1 \in 1..Len(sent)
  BY <1>1, <1>6
<1>8. sent[n + 1].start = Consumed + 1
  <2>1. sent[n + 1].start = EndOf((n + 1) - 1) + 1
    BY <1>7 DEF IInv, Stream
  <2>2. (n + 1) - 1 = n
    BY <1>1
  <2>3. QED
    BY <2>1, <2>2 DEF Consumed
<1>9. recv_packet.data[0] = sent[n + 1].start
  <2>1. recv_packet.data[0] = Consumed + 1 + 0
    BY <1>2 DEF IInv, Front
  <2>2. QED
    BY <2>1, <1>8, <1>5 DEF Consumed
<1>10. {k \in DOMAIN sent : sent[k].start = recv_packet.data[0]} = {n + 1}
  <2>1. DOMAIN sent = 1..Len(sent)
    BY DEF IInv, Stream
  <2>2. ASSUME NEW k \in 1..Len(sent), sent[k].start = recv_packet.data[0]
        PROVE  k = n + 1
    <3>1. k < n + 1 => sent[k].start < sent[n + 1].start
      BY <1>7 DEF IInv, Stream
    <3>2. n + 1 < k => sent[n + 1].start < sent[k].start
      BY <1>7 DEF IInv, Stream
    <3>3. QED
      BY <3>1, <3>2, <2>2, <1>4, <1>7, <1>9, <1>1
  <2>3. QED
    BY <2>1, <2>2, <1>7, <1>9
<1>11. GetLength(recv_packet) = {sent[n + 1].length}
  BY <1>10 DEF GetLength
<1>12. QED
  BY <1>7, <1>8, <1>11

-----------------------------------------------------------------------------
LEMMA InitIInv == Init => IInv
BY PacketAssumption DEF PacketAssumption, Init, IInv, Stream, Front, Framed, Empty, EndOf, Consumed

\* A packet that is written goes to the end of the stream: nothing that was
\* there changes.
LEMMA WriteKeeps ==
    ASSUME IInv, NEW length \in HEADER_SIZE..MAX_SIZE, Write(length)
    PROVE  IInv'
<1> DEFINE n == Len(sent)
           new == [start |-> Written + 1, length |-> length]
<1>1. /\ n \in Nat /\ HEADER_SIZE \in Nat \ {0} /\ MAX_SIZE \in Nat
      /\ length \in HEADER_SIZE..(MAX_SIZE - 1)
  BY PacketAssumption DEF PacketAssumption, IInv, Stream, Write
<1>2. \A k \in 1..n : /\ sent[k].start \in Nat /\ sent[k].start >= 1
                     /\ sent[k].length \in Nat /\ sent[k].length >= 1
  BY SentPacket DEF IInv
<1>3. Written = EndOf(n) /\ Written \in Nat
  <2>1. CASE n = 0
    BY <2>1 DEF Written, EndOf, IInv, Stream
  <2>2. CASE n # 0
    <3>1. sent # <<>> /\ n \in 1..n
      BY <1>1, <2>2
    <3>2. QED
      BY <3>1, <2>2, <1>2 DEF Written, EndOf
  <2>3. QED
    BY <2>1, <2>2
<1>4. /\ sent' = Append(sent, new) /\ Len(sent') = n + 1
      /\ \A k \in 1..n : sent'[k] = sent[k]
      /\ sent'[n + 1] = new
  BY <1>1 DEF Write, IInv, Stream
<1>5. \A k \in 0..n : EndOf(k)' = EndOf(k)
  BY <1>1, <1>4 DEF EndOf
<1>6. Stream'
  <2>1. sent' \in Seq([start : Nat \ {0}, length : HEADER_SIZE..(MAX_SIZE - 1)])
    BY <1>1, <1>3, <1>4 DEF IInv, Stream
  <2>2. ASSUME NEW k \in 1..(n + 1)
        PROVE  sent'[k].start = EndOf(k - 1)' + 1
    <3>1. CASE k = n + 1
      <4>1. k - 1 = n /\ n \in 0..n
        BY <3>1, <1>1
      <4>2. QED
        BY <4>1, <3>1, <1>3, <1>4, <1>5
    <3>2. CASE k # n + 1
      <4>1. k \in 1..n /\ k - 1 \in 0..n
        BY <3>2, <1>1
      <4>2. sent[k].start = EndOf(k - 1) + 1
        BY <4>1 DEF IInv, Stream
      <4>3. QED
        BY <4>1, <4>2, <1>4, <1>5
    <3>3. QED
      BY <3>1, <3>2
  <2>3. \A k \in 1..n : sent[k].start < new.start
    <3>1. ASSUME NEW k \in 1..n
          PROVE  sent[k].start <= sent[n].start
      <4>1. n \in 1..n
        BY <1>1
      <4>2. k < n => sent[k].start < sent[n].start
        BY <4>1 DEF IInv, Stream
      <4>3. QED
        BY <4>1, <4>2, <1>1, <1>2
    <3>2. n # 0 => sent[n].start <= EndOf(n)
      <4>1. n # 0 => n \in 1..n /\ sent[n].length >= 1
        BY <1>1, <1>2
      <4>2. QED
        BY <4>1, <1>2 DEF EndOf
    <3>3. QED
      BY <3>1, <3>2, <1>1, <1>2, <1>3
  <2>4. ASSUME NEW j \in 1..(n + 1), NEW k \in 1..(n + 1), j < k
        PROVE  sent'[j].start < sent'[k].start
    <3>1. j \in 1..n
      BY <2>4, <1>1
    <3>2. CASE k = n + 1
      BY <3>1, <3>2, <2>3, <1>4
    <3>3. CASE k # n + 1
      <4>1. k \in 1..n
        BY <3>3, <1>1
      <4>2. sent[j].start < sent[k].start
        BY <3>1, <4>1, <2>4 DEF IInv, Stream
      <4>3. QED
        BY <3>1, <4>1, <4>2, <1>4
    <3>4. QED
      BY <3>2, <3>3
  <2>5. QED
    BY <2>1, <2>2, <2>4, <1>4 DEF Stream
<1>7. UNCHANGED <<delivered, recv_packet, handled, status>>
  BY DEF Write
<1>8. Len(handled) \in 0..n
  BY <1>1 DEF IInv, Framed
<1>9. Consumed' = Consumed
  BY <1>5, <1>7, <1>8 DEF Consumed
<1>10. EndOf(Len(sent))' \in Nat /\ EndOf(n) <= EndOf(Len(sent))'
  <2>1. EndOf(Len(sent))' = sent'[Len(sent')].start + sent'[Len(sent')].length - 1
    BY <1>1, <1>4 DEF EndOf
  <2>2. EndOf(Len(sent))' = Written + length
    BY <1>1, <1>3, <1>4, <2>1
  <2>3. QED
    BY <1>1, <1>3, <2>2
<1>11. Front'
  BY <1>3, <1>7, <1>9, <1>10 DEF IInv, Front
<1>12. Framed'
  <2>1. DOMAIN handled = 1..Len(handled) /\ Len(handled) <= n
    BY DEF IInv, Framed
  <2>2. \A k \in 1..Len(handled) : k \in 1..n
    BY <1>8, <1>1
  <2>3. Len(handled) <= Len(sent')
    BY <1>1, <1>4, <1>8
  <2>4. QED
    BY <2>1, <2>2, <2>3, <1>4, <1>7 DEF IInv, Framed
<1>13. QED
  BY <1>6, <1>7, <1>11, <1>12 DEF IInv

\* Bytes that are read continue what recv_packet holds.
LEMMA AsyncReadKeeps ==
    ASSUME IInv, NEW n \in 1..MAX_SIZE, AsyncRead(n)
    PROVE  IInv'
<1> DEFINE b == recv_packet
           w == recv_packet.writeCursor_
<1>1. UNCHANGED <<sent, handled>> /\ delivered' = delivered + n
  BY DEF AsyncRead
<1>2. Stream' /\ Framed' /\ Consumed' = Consumed /\ EndOf(Len(sent))' = EndOf(Len(sent))
  <2>1. status' # "closed"
    BY DEF AsyncRead
  <2>2. QED
    BY <1>1, <2>1 DEF IInv, Stream, Framed, Consumed, EndOf
<1>3. /\ MAX_SIZE \in Nat /\ n \in Nat /\ w \in 0..MAX_SIZE /\ b.readCursor_ = 0
      /\ b = [data |-> b.data, readCursor_ |-> 0, writeCursor_ |-> w]
      /\ b.data \in [0..(MAX_SIZE - 1) -> Nat]
  BY PacketAssumption DEF PacketAssumption, IInv, Front
<1>4. delivered' \in Nat /\ delivered' <= EndOf(Len(sent))
  <2>1. Written = EndOf(Len(sent))
    <3>1. CASE sent = <<>>
      BY <3>1 DEF Written, EndOf
    <3>2. CASE sent # <<>>
      <4>1. Len(sent) # 0
        BY <3>2 DEF IInv, Stream
      <4>2. QED
        BY <3>2, <4>1 DEF Written, EndOf
    <3>3. QED
      BY <3>1, <3>2
  <2>2. QED
    BY <1>1, <1>3, <2>1 DEF AsyncRead, IInv, Front
<1>5. CASE Available(b) < n
  <2>1. status' = "overflow" /\ recv_packet' = recv_packet
    BY <1>5 DEF AsyncRead
  <2>2. Front'
    BY <1>2, <1>4, <2>1 DEF IInv, Front
  <2>3. QED
    BY <1>1, <1>2, <2>1, <2>2 DEF IInv
<1>6. CASE ~(Available(b) < n)
  <2>1. status' = "parsing" /\ recv_packet' = Append_(b, delivered, n)
    BY <1>6 DEF AsyncRead
  <2>2. w + n <= MAX_SIZE /\ ~(n > MAX_SIZE - w)
    BY <1>3, <1>6 DEF Available, Size
  <2>3. /\ recv_packet'.writeCursor_ = w + n
        /\ recv_packet'.readCursor_ = 0
        /\ recv_packet'.data = [i \in 0..(MAX_SIZE - 1) |->
                                  IF i \in w..(w + n - 1) THEN delivered + 1 + i - w ELSE b.data[i]]
        /\ recv_packet' = [data |-> recv_packet'.data, readCursor_ |-> 0, writeCursor_ |-> w + n]
    BY <1>3, <2>1, <2>2 DEF Append_
  <2>4. delivered = Consumed + w /\ delivered \in Nat
    BY DEF IInv, Front, AsyncRead
  <2>5. Consumed \in Int
    <3>1. Len(handled) \in 0..Len(sent)
      BY DEF IInv, Framed
    <3>2. CASE Len(handled) = 0
      BY <3>2 DEF Consumed, EndOf
    <3>3. CASE Len(handled) # 0
      <4>1. Len(handled) \in 1..Len(sent)
        BY <3>1, <3>3 DEF IInv, Stream
      <4>2. sent[Len(handled)].start \in Nat /\ sent[Len(handled)].length \in Nat
        BY <4>1, SentPacket DEF IInv
      <4>3. QED
        BY <3>3, <4>2 DEF Consumed, EndOf
    <3>4. QED
      BY <3>2, <3>3
  <2>6. recv_packet'.data \in [0..(MAX_SIZE - 1) -> Nat]
    <3>1. ASSUME NEW i \in 0..(MAX_SIZE - 1)
          PROVE  (IF i \in w..(w + n - 1) THEN delivered + 1 + i - w ELSE b.data[i]) \in Nat
      BY <1>3, <2>4
    <3>2. QED
      BY <2>3, <3>1
  <2>7. ASSUME NEW i \in 0..(w + n - 1)
        PROVE  recv_packet'.data[i] = Consumed + 1 + i
    <3>1. i \in 0..(MAX_SIZE - 1)
      BY <1>3, <2>2
    <3>2. CASE i \in w..(w + n - 1)
      BY <3>1, <3>2, <2>3, <2>4, <2>5, <1>3
    <3>3. CASE i \notin w..(w + n - 1)
      <4>1. i \in 0..(w - 1)
        BY <3>3, <1>3
      <4>2. b.data[i] = Consumed + 1 + i
        BY <4>1 DEF IInv, Front
      <4>3. QED
        BY <3>1, <3>3, <4>2, <2>3
    <3>4. QED
      BY <3>2, <3>3
  <2>8. Front'
    <3>1. w + n \in 0..MAX_SIZE
      BY <1>3, <2>2
    <3>2. recv_packet' \in [data : [0..(MAX_SIZE - 1) -> Nat], readCursor_ : {0},
                            writeCursor_ : 0..MAX_SIZE]
      BY <2>3, <2>6, <3>1
    <3>3. delivered' = Consumed + (w + n)
      BY <1>1, <1>3, <2>4, <2>5
    <3>4. recv_packet'.writeCursor_ = w + n
      BY <2>3
    <3>5. \A i \in 0..(recv_packet'.writeCursor_ - 1) : recv_packet'.data[i] = Consumed' + 1 + i
      <4>1. 0..(recv_packet'.writeCursor_ - 1) = 0..(w + n - 1)
        BY <3>4, <1>3
      <4>2. QED
        BY <4>1, <2>7, <1>2
    <3>6. delivered' <= EndOf(Len(sent))'
      BY <1>2, <1>4
    <3>7. QED
      BY <3>2, <3>3, <3>5, <3>6, <1>2, <1>4, <2>3 DEF Front
  <2>9. QED
    BY <1>1, <1>2, <2>1, <2>8 DEF IInv
<1>7. QED
  BY <1>5, <1>6

-----------------------------------------------------------------------------
\* Buffer::Remove on a buffer that nothing was removed from.
LEMMA RemoveFront ==
    ASSUME NEW data, NEW w \in Nat, NEW n \in Nat, n <= w
    PROVE  Remove([data |-> data, readCursor_ |-> 0, writeCursor_ |-> w], n) =
             IF n = w THEN [data |-> data, readCursor_ |-> 0, writeCursor_ |-> 0]
             ELSE [data |-> data, readCursor_ |-> n, writeCursor_ |-> w]
<1> DEFINE b == [data |-> data, readCursor_ |-> 0, writeCursor_ |-> w]
<1>1. b.readCursor_ + n = n /\ b.writeCursor_ = w /\ ~(n > w)
  OBVIOUS
<1>2. [b EXCEPT !.readCursor_ = n] = [data |-> data, readCursor_ |-> n, writeCursor_ |-> w]
  OBVIOUS
<1>3. QED
  BY <1>1, <1>2 DEF Remove

\* The loop takes the next packet and leaves the bytes after it at the front.
LEMMA DispatchKeeps ==
    ASSUME IInv, Dispatch
    PROVE  IInv'
<1> DEFINE b == recv_packet
           w == recv_packet.writeCursor_
           n == Len(handled)
           length == sent[n + 1].length
<1>1. status = "parsing" /\ HasHeader /\ UNCHANGED <<sent, delivered, status>>
  BY DEF Dispatch
<1>2. /\ n + 1 \in 1..Len(sent) /\ sent[n + 1].start = Consumed + 1
      /\ GetLength(b) = {length}
  BY <1>1, NextPacket
<1>3. /\ Complete(length)
      /\ handled' = Append(handled, Bytes(b, length))
      /\ recv_packet' = Rest(Remove(b, length))
  BY <1>2 DEF Dispatch
<1>4. /\ MAX_SIZE \in Nat /\ w \in 0..MAX_SIZE /\ b.readCursor_ = 0 /\ n \in Nat
      /\ b = [data |-> b.data, readCursor_ |-> 0, writeCursor_ |-> w]
      /\ b.data \in [0..(MAX_SIZE - 1) -> Nat]
      /\ handled \in Seq(Seq(Nat))
  BY PacketAssumption DEF PacketAssumption, IInv, Front
<1>5. /\ length \in Nat /\ length >= 1 /\ length <= w
      /\ sent[n + 1].start \in Nat /\ sent[n + 1].start >= 1
  <2>1. length \in Nat /\ length >= 1 /\ sent[n + 1].start \in Nat /\ sent[n + 1].start >= 1
    BY <1>2, SentPacket DEF IInv
  <2>2. length <= w
    BY <2>1, <1>3, <1>4 DEF Complete, Size
  <2>3. QED
    BY <2>1, <2>2
<1>6. Consumed \in Nat
  <2>1. Consumed \in Int
    <3>1. CASE n = 0
      BY <3>1 DEF Consumed, EndOf
    <3>2. CASE n # 0
      <4>1. n \in 1..Len(sent)
        BY <1>2, <1>4, <3>2
      <4>2. sent[n].start \in Nat /\ sent[n].length \in Nat
        BY <4>1, SentPacket DEF IInv
      <4>3. QED
        BY <3>2, <4>2 DEF Consumed, EndOf
    <3>3. QED
      BY <3>1, <3>2
  <2>2. QED
    BY <2>1, <1>2, <1>5
<1>7. \A i \in 0..(w - 1) : i \in 0..(MAX_SIZE - 1) /\ b.data[i] = Consumed + 1 + i
  BY <1>4 DEF IInv, Front
<1>8. Bytes(b, length) = [i \in 1..length |-> sent[n + 1].start + i - 1]
  <2>1. ASSUME NEW i \in 1..length
        PROVE  b.data[b.readCursor_ + i - 1] = sent[n + 1].start + i - 1
    <3>1. b.readCursor_ + i - 1 = i - 1 /\ i - 1 \in 0..(w - 1)
      BY <1>4, <1>5
    <3>2. QED
      BY <3>1, <1>2, <1>5, <1>6, <1>7
  <2>2. QED
    BY <2>1 DEF Bytes
<1>9. Bytes(b, length) \in Seq(Nat)
  <2>1. [i \in 1..length |-> sent[n + 1].start + i - 1] \in [1..length -> Nat]
    BY <1>5
  <2>2. QED
    BY <2>1, <1>5, <1>8
<1>10. /\ handled' \in Seq(Seq(Nat)) /\ Len(handled') = n + 1
       /\ \A k \in 1..n : handled'[k] = handled[k]
       /\ handled'[n + 1] = Bytes(b, length)
  BY <1>3, <1>4, <1>9
<1>11. Framed'
  <2>1. ASSUME NEW k \in 1..(n + 1)
        PROVE  handled'[k] = [i \in 1..sent[k].length |-> sent[k].start + i - 1]
    <3>1. CASE k = n + 1
      BY <3>1, <1>8, <1>10
    <3>2. CASE k # n + 1
      <4>1. k \in 1..n /\ k \in DOMAIN handled
        BY <3>2, <1>4
      <4>2. QED
        BY <4>1, <1>10 DEF IInv, Framed
    <3>3. QED
      BY <3>1, <3>2
  <2>2. DOMAIN handled' = 1..(n + 1)
    BY <1>4, <1>10
  <2>3. n + 1 <= Len(sent)
    BY <1>2, <1>4
  <2>4. QED
    BY <2>1, <2>2, <2>3, <1>1, <1>10 DEF Framed
<1>12. Consumed' = Consumed + length
  <2>1. Consumed' = sent[n + 1].start + length - 1
    BY <1>1, <1>4, <1>10 DEF Consumed, EndOf
  <2>2. QED
    BY <2>1, <1>2, <1>5, <1>6
<1>13. /\ recv_packet' \in [data : [0..(MAX_SIZE - 1) -> Nat], readCursor_ : {0},
                            writeCursor_ : 0..MAX_SIZE]
       /\ recv_packet'.writeCursor_ = w - length
       /\ \A i \in 0..(w - length - 1) : recv_packet'.data[i] = b.data[length + i]
  <2>1. CASE length = w
    <3>1. Remove(b, length) = [data |-> b.data, readCursor_ |-> 0, writeCursor_ |-> 0]
      <4>1. w \in Nat
        BY <1>4
      <4>2. Remove([data |-> b.data, readCursor_ |-> 0, writeCursor_ |-> w], length) =
               IF length = w THEN [data |-> b.data, readCursor_ |-> 0, writeCursor_ |-> 0]
               ELSE [data |-> b.data, readCursor_ |-> length, writeCursor_ |-> w]
        BY <4>1, <1>5, RemoveFront
      <4>3. QED
        BY <4>2, <2>1, <1>4
    <3>2. recv_packet' = [data |-> b.data, readCursor_ |-> 0, writeCursor_ |-> 0]
      BY <3>1, <1>3 DEF Rest, Size
    <3>3. QED
      BY <3>2, <2>1, <1>4, <1>5
  <2>2. CASE length # w
    <3>1. Remove(b, length) = [data |-> b.data, readCursor_ |-> length, writeCursor_ |-> w]
      <4>1. w \in Nat
        BY <1>4
      <4>2. Remove([data |-> b.data, readCursor_ |-> 0, writeCursor_ |-> w], length) =
              [data |-> b.data, readCursor_ |-> length, writeCursor_ |-> w]
        BY <4>1, <2>2, <1>5, RemoveFront
      <4>3. QED
        BY <4>2, <1>4
    <3>2. w - length \in 1..MAX_SIZE
      BY <2>2, <1>4, <1>5
    <3>3. recv_packet' = [data |-> [i \in 0..(MAX_SIZE - 1) |->
                                      IF i < w - length THEN b.data[length + i] ELSE 0],
                          readCursor_ |-> 0, writeCursor_ |-> w - length]
      <4>1. Size(Remove(b, length)) = w - length /\ w - length # 0
        BY <3>1, <3>2 DEF Size
      <4>2. QED
        BY <3>1, <4>1, <1>3 DEF Rest
    <3>4. ASSUME NEW i \in 0..(MAX_SIZE - 1)
          PROVE  (IF i < w - length THEN b.data[length + i] ELSE 0) \in Nat
      <4>1. i < w - length => length + i \in 0..(MAX_SIZE - 1)
        BY <1>4, <1>5
      <4>2. QED
        BY <4>1, <1>4
    <3>5. \A i \in 0..(w - length - 1) : i \in 0..(MAX_SIZE - 1) /\ i < w - length
      BY <1>4, <1>5, <3>2
    <3>6. QED
      BY <3>2, <3>3, <3>4, <3>5
  <2>3. QED
    BY <2>1, <2>2
<1>14. Front'
  <2>1. delivered = Consumed + w
    BY <1>1 DEF IInv, Front
  <2>2. delivered' = Consumed' + recv_packet'.writeCursor_
    BY <2>1, <1>1, <1>4, <1>5, <1>6, <1>12, <1>13
  <2>3. ASSUME NEW i \in 0..(w - length - 1)
        PROVE  recv_packet'.data[i] = Consumed' + 1 + i
    <3>1. length + i \in 0..(w - 1)
      BY <1>4, <1>5
    <3>2. b.data[length + i] = Consumed + 1 + (length + i)
      BY <3>1, <1>7
    <3>3. i \in Int /\ recv_packet'.data[i] = b.data[length + i]
      BY <1>13
    <3>4. Consumed + 1 + (length + i) = (Consumed + length) + 1 + i
      BY <3>3, <1>5, <1>6
    <3>5. QED
      BY <3>2, <3>3, <3>4, <1>12
  <2>4. EndOf(Len(sent))' = EndOf(Len(sent))
    BY <1>1 DEF EndOf
  <2>5. QED
    BY <1>1, <1>13, <2>2, <2>3, <2>4 DEF IInv, Front
<1>15. Stream'
  BY <1>1 DEF IInv, Stream, EndOf
<1>16. QED
  BY <1>1, <1>10, <1>11, <1>14, <1>15 DEF IInv

\* The loop does not end with an error: the field is the length of a packet
\* that Packet::Write made.
LEMMA EndOfLoopKeeps ==
    ASSUME IInv, EndOfLoop
    PROVE  IInv'
<1>1. UNCHANGED <<sent, delivered, recv_packet, handled>> /\ status = "parsing"
  BY DEF EndOfLoop
<1>2. status' = "reading"
  <2>1. CASE ~HasHeader
    BY <2>1 DEF EndOfLoop
  <2>2. CASE HasHeader
    <3> DEFINE length == sent[Len(handled) + 1].length
    <3>1. Len(handled) + 1 \in 1..Len(sent) /\ GetLength(recv_packet) = {length}
      BY <1>1, <2>2, NextPacket
    <3>2. length \in HEADER_SIZE..(MAX_SIZE - 1)
      BY <3>1, SentPacket DEF IInv
    <3>3. Valid(length)
      BY <3>2, PacketAssumption DEF PacketAssumption, Valid
    <3>4. QED
      BY <2>2, <3>1, <3>3 DEF EndOfLoop
  <2>3. QED
    BY <2>1, <2>2
<1>3. QED
  BY <1>1, <1>2 DEF IInv, Stream, Front, Framed, EndOf, Consumed

LEMMA Inductive == Spec => []IInv
<1>1. Init => IInv
  BY InitIInv
<1>2. IInv /\ [Next]_vars => IInv'
  <2> SUFFICES ASSUME IInv, [Next]_vars
               PROVE  IInv'
    OBVIOUS
  <2>1. CASE Read
    BY <2>1, AsyncReadKeeps DEF Read
  <2>2. CASE OnRecvMsg
    BY <2>2, DispatchKeeps, EndOfLoopKeeps DEF OnRecvMsg
  <2>3. CASE \E length \in HEADER_SIZE..MAX_SIZE : Write(length)
    BY <2>3, WriteKeeps
  <2>4. CASE UNCHANGED vars
    BY <2>4 DEF vars, IInv, Stream, Front, Framed, EndOf, Consumed
  <2>5. QED
    BY <2>1, <2>2, <2>3, <2>4 DEF Next
<1>3. QED
  BY <1>1, <1>2, PTL DEF Spec

\* Tcp::LinkManager::OnRecvMsg and Packet::GetLength: in every behaviour the
\* packets given to Dispatcher are the packets that Packet::Write made, whole,
\* in order and each once, and OnError is not called for a good stream.
THEOREM PacketsAreFramed == Spec => []Framed
<1>1. IInv => Framed
  BY DEF IInv
<1>2. QED
  BY <1>1, Inductive, PTL

-----------------------------------------------------------------------------
(* Types: no buffer holds a byte that was not sent.                        *)

OnlySent == \A i \in 0..(MAX_SIZE - 1) : recv_packet.data[i] <= Written

Bounded == Len(sent) <= MaxPackets /\ OnlySent

LEMMA WrittenIsEnd ==
    ASSUME IInv
    PROVE  /\ Written = EndOf(Len(sent)) /\ Written \in Nat /\ Len(sent) \in Nat
           /\ delivered \in 0..Written
<1>1. Len(sent) \in Nat /\ (sent = <<>> <=> Len(sent) = 0)
  BY DEF IInv, Stream
<1>2. Written = EndOf(Len(sent))
  BY <1>1 DEF Written, EndOf
<1>3. Written \in Nat
  <2>1. CASE Len(sent) = 0
    BY <1>1, <2>1 DEF Written
  <2>2. CASE Len(sent) # 0
    <3>1. Len(sent) \in 1..Len(sent)
      BY <1>1, <2>2
    <3>2. /\ sent[Len(sent)].start \in Nat
          /\ sent[Len(sent)].length \in Nat /\ sent[Len(sent)].length >= 1
      BY <3>1, SentPacket DEF IInv
    <3>3. QED
      BY <1>1, <2>2, <3>2 DEF Written
  <2>3. QED
    BY <2>1, <2>2
<1>4. QED
  BY <1>1, <1>2, <1>3 DEF IInv, Front

LEMMA WriteBounded ==
    ASSUME IInv, Bounded, NEW length \in HEADER_SIZE..MAX_SIZE, Write(length)
    PROVE  Bounded'
<1>1. /\ Written \in Nat /\ length \in Nat /\ MAX_SIZE \in Nat /\ MaxPackets \in Nat
      /\ Len(sent) \in Nat
  BY WrittenIsEnd, PacketAssumption DEF PacketAssumption
<1>2. /\ sent' = Append(sent, [start |-> Written + 1, length |-> length])
      /\ recv_packet' = recv_packet /\ Len(sent) < MaxPackets
  BY DEF Write
<1>3. /\ Len(sent') = Len(sent) + 1 /\ sent' # <<>>
      /\ sent'[Len(sent')] = [start |-> Written + 1, length |-> length]
  BY <1>2 DEF IInv, Stream
<1>4. Written' = Written + length
  BY <1>1, <1>3 DEF Written
<1>5. \A i \in 0..(MAX_SIZE - 1) : recv_packet.data[i] \in Nat
  BY DEF IInv, Front
<1>6. OnlySent'
  BY <1>1, <1>2, <1>4, <1>5 DEF Bounded, OnlySent
<1>7. QED
  BY <1>1, <1>2, <1>3, <1>6 DEF Bounded

LEMMA AsyncReadBounded ==
    ASSUME IInv, Bounded, NEW n \in 1..MAX_SIZE, AsyncRead(n)
    PROVE  Bounded'
<1> DEFINE w == recv_packet.writeCursor_
<1>1. sent' = sent /\ Written' = Written
  BY DEF AsyncRead, Written
<1>2. /\ delivered + n <= Written /\ delivered \in Nat /\ n \in Nat /\ Written \in Nat
      /\ MAX_SIZE \in Nat /\ w \in Nat
  BY WrittenIsEnd, PacketAssumption DEF PacketAssumption, AsyncRead, IInv, Front
<1>3. CASE recv_packet' = recv_packet
  BY <1>1, <1>3 DEF Bounded, OnlySent
<1>4. CASE ~(Available(recv_packet) < n) /\ recv_packet' = Append_(recv_packet, delivered, n)
  <2>1. ~(n > MAX_SIZE - w)
    BY <1>2, <1>4 DEF Available, Size, IInv, Front
  <2>2. recv_packet = [data |-> recv_packet.data, readCursor_ |-> 0, writeCursor_ |-> w]
    BY DEF IInv, Front
  <2>3. recv_packet'.data = [i \in 0..(MAX_SIZE - 1) |->
           IF i \in w..(w + n - 1) THEN delivered + 1 + i - w ELSE recv_packet.data[i]]
    BY <1>4, <2>1, <2>2 DEF Append_
  <2>4. ASSUME NEW i \in 0..(MAX_SIZE - 1)
        PROVE  recv_packet'.data[i] <= Written
    <3>1. CASE i \in w..(w + n - 1)
      <4>1. recv_packet'.data[i] = delivered + 1 + i - w
        BY <2>3, <3>1
      <4>2. QED
        BY <4>1, <3>1, <1>2
    <3>2. CASE i \notin w..(w + n - 1)
      BY <2>3, <3>2 DEF Bounded, OnlySent
    <3>3. QED
      BY <3>1, <3>2
  <2>5. OnlySent'
    BY <2>4, <1>1 DEF OnlySent
  <2>6. QED
    BY <2>5, <1>1 DEF Bounded
<1>5. QED
  BY <1>3, <1>4 DEF AsyncRead

LEMMA DispatchBounded ==
    ASSUME IInv, Bounded, Dispatch
    PROVE  Bounded'
<1> DEFINE w == recv_packet.writeCursor_
<1>1. sent' = sent /\ Written' = Written
  BY DEF Dispatch, Written
<1>2. PICK length \in GetLength(recv_packet) :
         /\ Valid(length) /\ Complete(length)
         /\ recv_packet' = Rest(Remove(recv_packet, length))
  BY DEF Dispatch
<1>3. /\ recv_packet = [data |-> recv_packet.data, readCursor_ |-> 0, writeCursor_ |-> w]
      /\ w \in 0..MAX_SIZE /\ MAX_SIZE \in Nat /\ Written \in Nat /\ HEADER_SIZE \in Nat
  BY WrittenIsEnd, PacketAssumption DEF PacketAssumption, IInv, Front
<1>4. length \in Nat /\ length <= w
  <2>1. Len(handled) + 1 \in 1..Len(sent) /\ GetLength(recv_packet) = {sent[Len(handled) + 1].length}
    BY NextPacket DEF Dispatch
  <2>2. length \in Nat
    BY <2>1, SentPacket DEF IInv
  <2>3. Size(recv_packet) = w
    BY <1>3 DEF Size
  <2>4. QED
    BY <1>2, <2>2, <2>3 DEF Complete
<1>5. Remove(recv_packet, length) =
         IF length = w THEN [data |-> recv_packet.data, readCursor_ |-> 0, writeCursor_ |-> 0]
         ELSE [data |-> recv_packet.data, readCursor_ |-> length, writeCursor_ |-> w]
  <2>1. w \in Nat
    BY <1>3
  <2>2. Remove([data |-> recv_packet.data, readCursor_ |-> 0, writeCursor_ |-> w], length) =
           IF length = w THEN [data |-> recv_packet.data, readCursor_ |-> 0, writeCursor_ |-> 0]
           ELSE [data |-> recv_packet.data, readCursor_ |-> length, writeCursor_ |-> w]
    BY <2>1, <1>4, RemoveFront
  <2>3. QED
    BY <2>2, <1>3
<1>6. CASE length = w
  <2>1. recv_packet'.data = recv_packet.data
    BY <1>2, <1>5, <1>6 DEF Rest, Size
  <2>2. QED
    BY <1>1, <2>1 DEF Bounded, OnlySent
<1>7. CASE length # w
  <2>1. recv_packet'.data = [i \in 0..(MAX_SIZE - 1) |->
           IF i < w - length THEN recv_packet.data[length + i] ELSE 0]
    <3> DEFINE r == [data |-> recv_packet.data, readCursor_ |-> length, writeCursor_ |-> w]
    <3>1. Remove(recv_packet, length) = r
      BY <1>5, <1>7
    <3>2. /\ Size(r) = w - length /\ w - length # 0
          /\ r.data = recv_packet.data /\ r.readCursor_ = length
      BY <1>3, <1>4, <1>7 DEF Size
    <3>3. recv_packet' = Rest(r)
      BY <1>2, <3>1
    <3> HIDE DEF r
    <3>4. Rest(r).data = [i \in 0..(MAX_SIZE - 1) |->
                            IF i < w - length THEN recv_packet.data[length + i] ELSE 0]
      BY <3>2 DEF Rest
    <3>5. QED
      BY <3>3, <3>4
  <2>2. ASSUME NEW i \in 0..(MAX_SIZE - 1)
        PROVE  recv_packet'.data[i] <= Written
    <3>1. CASE i < w - length
      <4>1. length + i \in 0..(MAX_SIZE - 1)
        BY <1>3, <1>4, <3>1
      <4>2. QED
        BY <2>1, <3>1, <4>1 DEF Bounded, OnlySent
    <3>2. CASE ~(i < w - length)
      BY <2>1, <3>2, <1>3
    <3>3. QED
      BY <3>1, <3>2
  <2>3. OnlySent'
    BY <2>2, <1>1 DEF OnlySent
  <2>4. QED
    BY <2>3, <1>1 DEF Bounded
<1>8. QED
  BY <1>6, <1>7

\* What was handled was sent.
LEMMA HandledWasSent ==
    ASSUME IInv
    PROVE  handled \in Seq(Seq(1..Written))
<1>1. /\ Written = EndOf(Len(sent)) /\ Written \in Nat /\ Len(sent) \in Nat
      /\ Len(handled) \in Nat /\ Len(handled) <= Len(sent)
  BY WrittenIsEnd DEF IInv, Framed
<1>2. ASSUME NEW k \in 1..Len(handled)
      PROVE  handled[k] \in Seq(1..Written)
  <2>1. k \in 1..Len(sent) /\ Len(sent) \in 1..Len(sent)
    BY <1>1
  <2>2. /\ sent[k].start \in Nat /\ sent[k].start >= 1 /\ sent[k].length \in Nat
        /\ sent[Len(sent)].start \in Nat
        /\ sent[Len(sent)].length \in Nat /\ sent[Len(sent)].length >= 1
    BY <2>1, SentPacket DEF IInv
  <2>3. sent[k].start + sent[k].length - 1 <= Written
    <3>1. CASE k = Len(sent)
      BY <3>1, <1>1, <2>1, <2>2 DEF EndOf
    <3>2. CASE k # Len(sent)
      <4>1. k + 1 \in 1..Len(sent) /\ (k + 1) - 1 = k /\ k # 0
        BY <3>2, <2>1, <1>1
      <4>2. sent[k + 1].start = EndOf((k + 1) - 1) + 1
        BY <4>1 DEF IInv, Stream
      <4>3. sent[k + 1].start = sent[k].start + sent[k].length - 1 + 1
        BY <4>1, <4>2 DEF EndOf
      <4>4. k + 1 < Len(sent) => sent[k + 1].start < sent[Len(sent)].start
        BY <4>1, <2>1 DEF IInv, Stream
      <4>5. Written = sent[Len(sent)].start + sent[Len(sent)].length - 1
        BY <1>1, <2>1 DEF EndOf
      <4>6. sent[k + 1].start <= sent[Len(sent)].start
        <5>1. CASE k + 1 = Len(sent)
          BY <5>1, <2>2
        <5>2. CASE k + 1 # Len(sent)
          <6>1. k + 1 < Len(sent) /\ sent[k + 1].start \in Nat
            BY <5>2, <4>1, <1>1, SentPacket DEF IInv
          <6>2. QED
            BY <6>1, <4>4, <2>2
        <5>3. QED
          BY <5>1, <5>2
      <4>7. sent[k].start + sent[k].length - 1 < sent[k + 1].start
        BY <4>3, <2>2
      <4>8. sent[Len(sent)].start <= Written
        BY <4>5, <2>2, <1>1
      <4>9. sent[k + 1].start \in Nat
        BY <4>1, SentPacket DEF IInv
      <4>10. QED
        <5> DEFINE e == sent[k].start + sent[k].length - 1
                   m == sent[k + 1].start
                   n == sent[Len(sent)].start
        <5>1. e \in Int /\ m \in Int /\ n \in Int /\ Written \in Int
          BY <4>9, <2>2, <1>1
        <5>2. e < m /\ m <= n /\ n <= Written
          BY <4>6, <4>7, <4>8
        <5> HIDE DEF e, m, n
        <5>3. e <= Written
          BY <5>1, <5>2
        <5>4. QED
          BY <5>3 DEF e
    <3>3. QED
      BY <3>1, <3>2
  <2>4. handled[k] = [i \in 1..sent[k].length |-> sent[k].start + i - 1]
    <3>1. k \in DOMAIN handled
      BY DEF IInv
    <3>2. QED
      BY <3>1 DEF IInv, Framed
  <2>5. \A i \in 1..sent[k].length : sent[k].start + i - 1 \in 1..Written
    BY <2>2, <2>3, <1>1
  <2>6. [i \in 1..sent[k].length |-> sent[k].start + i - 1] \in [1..sent[k].length -> 1..Written]
    BY <2>5
  <2>7. handled[k] \in [1..sent[k].length -> 1..Written]
    BY <2>4, <2>6
  <2>8. \A S : \A m \in Nat : \A h \in [1..m -> S] : h \in Seq(S)
    OBVIOUS
  <2>9. QED
    BY <2>2, <2>7, <2>8, Zenon
<1>3. handled \in Seq(Seq(Nat)) /\ handled = [k \in 1..Len(handled) |-> handled[k]]
  BY DEF IInv
<1>4. handled \in [1..Len(handled) -> Seq(1..Written)]
  BY <1>2, <1>3
<1>5. QED
  BY <1>1, <1>4

\* Buffer: the cursors stay in the buffer, what it holds and what was handled
\* are bytes of the stream, and OnRecvMsg has read no more than was sent.
THEOREM BufferTypes == Spec => []TypeOK
<1>1. Init => Bounded
  BY PacketAssumption DEF PacketAssumption, Init, Bounded, OnlySent, Empty, Written
<1>2. IInv /\ Bounded /\ [Next]_vars => Bounded'
  <2> SUFFICES ASSUME IInv, Bounded, [Next]_vars
               PROVE  Bounded'
    OBVIOUS
  <2>1. CASE Read
    BY <2>1, AsyncReadBounded DEF Read
  <2>2. CASE Dispatch
    BY <2>2, DispatchBounded
  <2>3. CASE EndOfLoop
    BY <2>3 DEF EndOfLoop, Bounded, OnlySent, Written
  <2>4. CASE \E length \in HEADER_SIZE..MAX_SIZE : Write(length)
    BY <2>4, WriteBounded
  <2>5. CASE UNCHANGED vars
    BY <2>5 DEF vars, Bounded, OnlySent, Written
  <2>6. QED
    BY <2>1, <2>2, <2>3, <2>4, <2>5 DEF Next, OnRecvMsg
<1>3. IInv /\ Bounded => TypeOK
  <2> SUFFICES ASSUME IInv, Bounded
               PROVE  TypeOK
    OBVIOUS
  <2>1. handled \in Seq(Seq(1..Written)) /\ delivered \in 0..Written /\ Written \in Nat
    BY HandledWasSent, WrittenIsEnd
  <2>2. recv_packet.data \in [0..(MAX_SIZE - 1) -> 0..Written]
    <3>1. recv_packet.data \in [0..(MAX_SIZE - 1) -> Nat]
      BY DEF IInv, Front
    <3>2. ASSUME NEW i \in 0..(MAX_SIZE - 1)
          PROVE  recv_packet.data[i] \in 0..Written
      <4>1. recv_packet.data[i] \in Nat
        BY <3>1
      <4>2. recv_packet.data[i] <= Written
        BY DEF Bounded, OnlySent
      <4>3. QED
        BY <4>1, <4>2, <2>1
    <3>3. QED
      BY <3>1, <3>2
  <2>3. recv_packet.writeCursor_ \in 0..MAX_SIZE /\ recv_packet.readCursor_ \in 0..recv_packet.writeCursor_
    BY PacketAssumption DEF PacketAssumption, IInv, Front
  <2>4. QED
    BY <2>1, <2>2, <2>3 DEF IInv, Stream, Bounded, TypeOK
<1>4. QED
  BY <1>1, <1>2, <1>3, Inductive, PTL DEF Spec
=============================================================================
