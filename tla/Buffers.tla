------------------------------- MODULE Buffers -------------------------------
(***************************************************************************)
(* The byte buffers: Library/Buffer.cpp, of which Packet is one, and the   *)
(* Buffer of the old Unity client.  Any sequence of their calls is made on *)
(* two buffers.  A byte is its number, 0 the fill of a new array.          *)
(*                                                                         *)
(* The library moves what it holds to the front when the room behind the   *)
(* write cursor is short; the client never does, except by making a new    *)
(* buffer.  read and write are readCursor_ and writeCursor_, readIndex and *)
(* writeIndex; the length of data is bufSize_, BUFFER_SIZE.                *)
(***************************************************************************)
EXTENDS Integers, Sequences

CONSTANTS BUFFER_SIZE,       \* of a new buffer: Buffer::MAX_SIZE and Buffer.BUFFER_SIZE
          MaxSize, MaxBytes  \* bounds: of Resize, and of the bytes stored

VARIABLES
  side,      \* whose buffers they are: "library" or "unity"
  buffers,
  contents,  \* history: what was stored in each buffer and not taken out
  stored     \* how many bytes were stored
bufferVars == <<side, buffers, contents, stored>>

Names == {1, 2}
Zeros(n) == [i \in 1..n |-> 0]
Fresh == [data |-> Zeros(BUFFER_SIZE), read |-> 0, write |-> 0]

Size(b) == b.write - b.read
Available(b) == Len(b.data) - Size(b)
Held(b) == SubSeq(b.data, b.read + 1, b.write)

\* memcpy(data + at, bytes), BlockCopy(bytes, 0, data, at)
Put(data, at, bytes) ==
  [i \in DOMAIN data |-> IF i - at \in DOMAIN bytes THEN bytes[i - at] ELSE data[i]]

\* An array to which what b holds has been moved.
Moved(b, data) == [data |-> Put(data, 0, Held(b)), read |-> 0, write |-> Size(b)]

RemoveReadBuffer(b) == Moved(b, b.data)
Cleared(b) == [b EXCEPT !.read = 0, !.write = 0]
Stored(b, bytes) == [b EXCEPT !.data = Put(@, b.write, bytes), !.write = @ + Len(bytes)]

-----------------------------------------------------------------------------
BufferInit ==
  /\ side \in {"library", "unity"}
  /\ buffers = [k \in Names |-> Fresh] /\ contents = [k \in Names |-> <<>>] /\ stored = 0

\* A call after which buffer k is b and should hold c.
Becomes(k, b, c) ==
  buffers' = [buffers EXCEPT ![k] = b] /\ contents' = [contents EXCEPT ![k] = c]

\* The n bytes that are stored next.
New(n) == [i \in 1..n |-> stored + i]
Bytes(n) == stored + n <= MaxBytes /\ stored' = stored + n

Appended(b, bytes) ==
  IF Available(b) < Len(bytes) THEN b \* the exception
  ELSE Stored(IF Len(bytes) > Len(b.data) - b.write THEN RemoveReadBuffer(b) ELSE b, bytes)

Append_(k) ==
  \E n \in 1..MaxBytes :
    /\ Bytes(n)
    /\ Becomes(k, Appended(buffers[k], New(n)),
               contents[k] \o (IF Len(contents[k]) + n <= Len(buffers[k].data) THEN New(n) ELSE <<>>))

(* Link::AsyncRead: the socket stores at WritePtr as much as Available says.*)
WritePtr(b) == RemoveReadBuffer(b)
ReadSome(k) ==
  \E n \in 1..Available(buffers[k]) :
    /\ Bytes(n)
    /\ Becomes(k, Stored(WritePtr(buffers[k]), New(n)), contents[k] \o New(n))

(* Remove takes what there is when it is asked for more.                    *)
Remove(k) ==
  \E n \in 1..BUFFER_SIZE :
    LET b == buffers[k]
        read == IF b.read + n > b.write THEN b.write ELSE b.read + n IN
    /\ Becomes(k, IF read = b.write THEN Cleared(b) ELSE [b EXCEPT !.read = read],
               SubSeq(contents[k], n + 1, Len(contents[k])))
    /\ UNCHANGED stored

(* Resize: with less than it holds it would write behind the new array.     *)
Resized(b, size) == Moved(b, Zeros(size))
Resize(k) ==
  \E size \in Size(buffers[k])..MaxSize :
    Becomes(k, Resized(buffers[k], size), contents[k]) /\ UNCHANGED stored

(* Copy: the cursors are reset first, so that there is nothing to move.     *)
Copy(k) ==
  \E j \in Names \ {k} :
    LET b == Cleared(buffers[k])
        n == Size(buffers[j]) IN
    /\ Becomes(k, Stored(IF Available(b) < n THEN Resized(b, n) ELSE b, Held(buffers[j])), contents[j])
    /\ UNCHANGED stored

(* Swap exchanges all four fields. *)
Swap ==
  /\ buffers' = [k \in Names |-> buffers[3 - k]] /\ contents' = [k \in Names |-> contents[3 - k]]
  /\ UNCHANGED stored

Clear(k) == Becomes(k, Cleared(buffers[k]), <<>>) /\ UNCHANGED stored

Library ==
  \/ Swap
  \/ \E k \in Names : Append_(k) \/ ReadSome(k) \/ Remove(k) \/ Resize(k) \/ Copy(k) \/ Clear(k)

-----------------------------------------------------------------------------
(* The client's Append to b, which holds c: BlockCopy refuses what does not *)
(* fit behind the write index.  The array behind a stream is longer than    *)
(* what was written to the stream, and all of it is appended.               *)
Fits(b, n) == b.write + n <= Len(b.data)

AppendTo(k, b, c) ==
  \/ \E n \in 1..MaxBytes, slack \in 0..BUFFER_SIZE :
       LET array == New(n) \o Zeros(slack) IN
       /\ Bytes(n)
       /\ IF Fits(b, Len(array)) THEN Becomes(k, Stored(b, array), c \o array) ELSE Becomes(k, b, c)
  \/ \E j \in Names \ {k} :
       /\ IF Fits(b, Size(buffers[j]))
          THEN Becomes(k, Stored(b, Held(buffers[j])), c \o contents[j])
          ELSE Becomes(k, b, c)
       /\ UNCHANGED stored

AppendBytes(k) == AppendTo(k, buffers[k], contents[k])

(* Copy of what is too long leaves an empty buffer: the indices are reset   *)
(* before BlockCopy throws.                                                 *)
CopyBytes(k) == AppendTo(k, Cleared(buffers[k]), <<>>)

BlockCopy(k) ==
  \E j \in Names \ {k} :
    /\ Becomes(k, Moved(buffers[j], buffers[k].data), contents[j])
    /\ UNCHANGED stored

(* recvBuffer += buf: a new buffer, or recvBuffer as it was if they do not  *)
(* fit in one.                                                              *)
Plus(lhs, rhs) == Stored(Stored(Fresh, Held(lhs)), Held(rhs))
Add(k) ==
  \E j \in Names \ {k} :
    /\ Fits(Stored(Fresh, Held(buffers[k])), Size(buffers[j]))
    /\ Becomes(k, Plus(buffers[k], buffers[j]), contents[k] \o contents[j])
    /\ UNCHANGED stored

(* A handler moves readIndex; what was sent is taken from the front.        *)
Take(k) ==
  \E n \in 1..Size(buffers[k]) :
    /\ Becomes(k, [buffers[k] EXCEPT !.read = @ + n], SubSeq(contents[k], n + 1, Len(contents[k])))
    /\ UNCHANGED stored

Unity ==
  \E k \in Names :
    AppendBytes(k) \/ CopyBytes(k) \/ BlockCopy(k) \/ Add(k) \/ Take(k)

BufferNext ==
  /\ UNCHANGED side
  /\ \/ side = "library" /\ Library
     \/ side = "unity" /\ Unity

BufferSpec == BufferInit /\ [][BufferNext]_bufferVars

-----------------------------------------------------------------------------
(* Whatever calls are made in whatever order, each buffer holds what was    *)
(* stored in it and not taken out, in order, with its cursors in the array; *)
(* and the library refuses an Append only if all of its room is taken.      *)
HoldsWhatWasStored ==
  \A k \in Names :
    LET b == buffers[k] IN
    /\ 0 <= b.read /\ b.read <= b.write /\ b.write <= Len(b.data)
    /\ Held(b) = contents[k]
=============================================================================
