------------------------------- MODULE Digest -------------------------------
(***************************************************************************)
(* The class MD5: a message that comes in pieces is gathered in blocks,    *)
(* each complete block is transformed, and finalize adds the padding and   *)
(* the length.  What transform computes is a function of the blocks it was *)
(* given, in order; state is the sequence of these blocks.  The bytes of a *)
(* message are its first, second, third...                                 *)
(*                                                                         *)
(* Sizes are parameters, 64, 8 and 32 in the code: a block of few bytes    *)
(* and a counter of few bits meet the same boundaries after few bytes.     *)
(* One byte of the length stands for the four bytes of a counter word.     *)
(***************************************************************************)
EXTENDS Integers, Sequences, SequencesExt

CONSTANTS blocksize,
          WordBits,    \* bits of the two words of count
          MaxPiece, MaxUpdates   \* bounds: bytes of a piece, calls of update

VARIABLES
  buffer,      \* the bytes of an incomplete block, and what earlier ones left behind them
  count,       \* <<low, high>> word of the number of bits
  state, digest, finalized,
  message,     \* history: the bytes of all pieces before finalize
  updates      \* how many there were
digestVars == <<buffer, count, state, digest, finalized, message, updates>>

Word == 2 ^ WordBits
Padding == [i \in 1..blocksize |-> IF i = 1 THEN 128 ELSE 0]
Zeros == [i \in 1..blocksize |-> 0]
Start == [buffer |-> Zeros, count |-> <<0, 0>>, state |-> <<>>]

(* memcpy(&buffer[index], input + from, n) *)
Copied(b, index, input, from, n) ==
  [i \in 1..blocksize |-> IF i > index /\ i <= index + n THEN input[from + i - index] ELSE b[i]]

(* The number of bits modulo the square of Word. *)
Counted(c, length) ==
  LET bits == (length * 8) % Word
      low == (c[1] + bits) % Word
  IN <<low, (c[2] + (IF low < bits THEN 1 ELSE 0) + length \div (Word \div 8)) % Word>>

Fills(length, firstpart) == length >= firstpart

(* transform: what the state becomes is a function of it and of the blocks. *)
Transformed(s, blocks) == s \o blocks

(* update: fill the buffer and transform it, then every whole block of the  *)
(* piece; the rest of the piece stays in the buffer.                        *)
Updated(o, input) ==
  LET index == (o.count[1] \div 8) % blocksize
      firstpart == blocksize - index
      length == Len(input)
      rest == IF Fills(length, firstpart) THEN (length - firstpart) % blocksize ELSE length
      blocks == IF Fills(length, firstpart) THEN 1 + (length - firstpart) \div blocksize ELSE 0
      full(k) == IF k = 1 THEN Copied(o.buffer, index, input, 0, firstpart)
                 ELSE [i \in 1..blocksize |-> input[firstpart + (k - 2) * blocksize + i]]
      b == IF blocks = 0 THEN o.buffer ELSE full(1)
  IN [count |-> Counted(o.count, length),
      state |-> Transformed(o.state, [k \in 1..blocks |-> full(k)]),
      buffer |-> Copied(b, IF blocks = 0 THEN index ELSE 0, input, length - rest, rest)]

-----------------------------------------------------------------------------
Object == [buffer |-> buffer, count |-> count, state |-> state]
Becomes(o) == buffer' = o.buffer /\ count' = o.count /\ state' = o.state

DigestInit ==
  /\ buffer = Zeros /\ count = <<0, 0>> /\ state = <<>> /\ digest = <<>>
  /\ finalized = FALSE /\ message = <<>> /\ updates = 0

update ==
  /\ updates < MaxUpdates /\ updates' = updates + 1
  /\ \E n \in 0..MaxPiece :
       LET input == [i \in 1..n |-> Len(message) + i] IN
       /\ Becomes(Updated(Object, input))
       /\ message' = IF finalized THEN message ELSE message \o input
  /\ UNCHANGED <<digest, finalized>>

(* finalize saves the length, pads, appends the length and clears the       *)
(* object, once.                                                            *)
finalize ==
  /\ ~finalized /\ finalized' = TRUE
  /\ LET bits == count
         index == (count[1] \div 8) % blocksize
         room == blocksize - 2
         padLen == IF index < room THEN room - index ELSE room + blocksize - index
         padded == Updated(Object, SubSeq(Padding, 1, padLen))
         ended == Updated(padded, bits)
     IN digest' = ended.state /\ state' = ended.state
  /\ buffer' = Zeros /\ count' = <<0, 0>>
  /\ UNCHANGED <<message, updates>>

DigestNext == update \/ finalize
DigestSpec == DigestInit /\ [][DigestNext]_digestVars

-----------------------------------------------------------------------------
(* RFC 1321: the message, a 1 bit, zeros up to two places before the end of *)
(* a block, and the number of bits of the message.                          *)
Padded(m) ==
  LET n == Len(m)
      zeros == CHOOSE z \in 0..(blocksize - 1) : (n + 1 + z + 2) % blocksize = 0
      bits == n * 8
  IN m \o <<128>> \o [i \in 1..zeros |-> 0] \o <<bits % Word, (bits \div Word) % Word>>
InBlocks(m) == [k \in 1..(Len(m) \div blocksize) |-> SubSeq(m, (k - 1) * blocksize + 1, k * blocksize)]

(* In whatever pieces a message comes, empty ones among them, its digest is *)
(* that of the whole padded message; what is added later changes nothing.   *)
DigestOfWhole == finalized => digest = InBlocks(Padded(message))
=============================================================================
