------------------------------- MODULE Base64 -------------------------------
(***************************************************************************)
(* Base64Encode and Base64Decode.  A character of the alphabet is its      *)
(* place in base64_chars, 64 is "=", and any higher number a character     *)
(* that is_base64 refuses.                                                 *)
(***************************************************************************)
EXTENDS Integers, Sequences, SequencesExt

CONSTANTS Octets,    \* the values of the bytes
          MaxLen,    \* bound: bytes of a string
          Endings    \* what a text may have behind the encoding

VARIABLES bytes, text, ret
base64Vars == <<bytes, text, ret>>

Equals == 64
At(s, i) == IF i <= Len(s) THEN s[i] ELSE 0

(* char_array_4 of char_array_3 at the i-th group of three, missing bytes   *)
(* being '\0', and how many of its characters are written.                  *)
Group(b, i) ==
  LET x == At(b, 3 * i - 2)  y == At(b, 3 * i - 1)  z == At(b, 3 * i) IN
  <<x \div 4, (x % 4) * 16 + (y \div 16), (y % 16) * 4 + (z \div 64), z % 64>>
Count(b, i) == IF Len(b) >= 3 * i THEN 3 ELSE Len(b) % 3
Encode(b) ==
  FlattenSeq([i \in 1..((Len(b) + 2) \div 3) |->
    SubSeq(Group(b, i), 1, Count(b, i) + 1) \o [j \in 1..(3 - Count(b, i)) |-> Equals]])

(* How many bytes an incomplete group of i characters decodes to. *)
Taken(i) == i - 1

(* char_array_3 of a group of four.  For a missing character find has no    *)
(* result, and char_array_4 becomes 255.                                    *)
Triple(c) ==
  LET d(i) == IF i <= Len(c) THEN c[i] ELSE 255 IN
  <<(d(1) * 4 + ((d(2) \div 16) % 4)) % 256,
    ((d(2) % 16) * 16 + ((d(3) \div 4) % 16)) % 256,
    ((d(3) % 4) * 64 + d(4)) % 256>>

(* The loop ends at the first character outside the alphabet. *)
Characters(t) ==
  IF \E i \in DOMAIN t : t[i] >= Equals
  THEN SubSeq(t, 1, (CHOOSE i \in DOMAIN t : t[i] >= Equals /\ \A j \in 1..(i - 1) : t[j] < Equals) - 1)
  ELSE t
Decode(t) ==
  LET c == Characters(t)
      whole == Len(c) \div 4
      i == Len(c) % 4 IN
  FlattenSeq([k \in 1..whole |-> Triple(SubSeq(c, 4 * k - 3, 4 * k))])
    \o (IF i = 0 THEN <<>> ELSE SubSeq(Triple(SubSeq(c, 4 * whole + 1, Len(c))), 1, Taken(i)))

-----------------------------------------------------------------------------
Base64Init == bytes = <<>> /\ text = <<>> /\ ret = <<>>

Base64Encode ==
  /\ bytes = <<>> /\ ret = <<>>
  /\ \E n \in 0..MaxLen : \E b \in [1..n -> Octets] : \E e \in Endings :
       bytes' = b /\ text' = Encode(b) \o e /\ UNCHANGED ret

Base64Decode == ret' = Decode(text) /\ UNCHANGED <<bytes, text>>

Base64Next == Base64Encode \/ Base64Decode
Base64Spec == Base64Init /\ [][Base64Next]_base64Vars

-----------------------------------------------------------------------------
(* RFC 4648 as arithmetic: three bytes and four digits are the same number. *)
Standard(b, t) ==
  /\ Len(t) = 4 * ((Len(b) + 2) \div 3)
  /\ \A i \in 1..(Len(t) \div 4) :
       LET d(j) == IF t[4 * i - 4 + j] = Equals THEN 0 ELSE t[4 * i - 4 + j] IN
       /\ d(1) * 262144 + d(2) * 4096 + d(3) * 64 + d(4)
            = At(b, 3 * i - 2) * 65536 + At(b, 3 * i - 1) * 256 + At(b, 3 * i)
       /\ \A j \in 1..4 : t[4 * i - 4 + j] = Equals <=> 3 * i - 4 + j > Len(b)

(* Every string is encoded as the standard says and decoded to itself, also *)
(* when a line end or a second padding follows the text.                    *)
DecodedIsEncoded == Standard(bytes, Encode(bytes)) /\ Decode(text) = bytes
=============================================================================
