--------------------------- MODULE RedisConnection ---------------------------
(***************************************************************************)
(* Redis::Connection: one socket on which Execute writes a command and     *)
(* waits for the reply.  The reply is cut into whitespace-separated tokens *)
(* while it arrives; reading stops at the first read whose data ends with  *)
(* a line end, whatever the reply still lacks.  The callers of a           *)
(* connection take turns: ConnectionPool lends it to one at a time.        *)
(*                                                                         *)
(* The bytes are characters of a small alphabet, a token is a sequence of  *)
(* them.  A reply of the server is a record of its kind and content.       *)
(***************************************************************************)
EXTENDS Integers, Sequences, FiniteSets, SequencesExt

CONSTANTS Replies,      \* the replies the server may give to a command
          MaxCommands   \* bound: commands executed on the connection

VARIABLES
  pc,           \* the caller in Execute: "idle", "reading", "returned"
  wire,         \* bytes of the server that read_until has not taken
  owed,         \* what the server still has to send of the current reply
  streambuf,    \* the buffer of this read_until
  tokens, token,
  result,       \* the result set of the last Execute
  asked,        \* the reply that the server gave to it
  executed,     \* how many commands were written
  broken        \* history: a read ended elsewhere than inside a word of a reply
vars == <<pc, wire, owed, streambuf, tokens, token, result, asked, executed, broken>>

Sigils == {"+", "-", ":", "$", "*"}
Blanks == {" ", "CR", "LF"}
CRLF == <<"CR", "LF">>

-----------------------------------------------------------------------------
(* The Redis protocol: what the server sends, and what it means.            *)
Status(w)   == [kind |-> "status", word |-> w]
Integer(w)  == [kind |-> "integer", word |-> w]
Error(ws)   == [kind |-> "error", words |-> ws]
Bulk(w)     == [kind |-> "bulk", word |-> w]
Nil         == [kind |-> "nil"]
Array(es)   == [kind |-> "array", elements |-> es]
Digit(n)    == IF n = 0 THEN "0" ELSE IF n = 1 THEN "1" ELSE IF n = 2 THEN "2" ELSE "3"

RECURSIVE Encode(_)
Encode(r) ==
  CASE r.kind = "status"  -> <<"+">> \o r.word \o CRLF
    [] r.kind = "integer" -> <<":">> \o r.word \o CRLF
    [] r.kind = "error"   -> <<"-">> \o FlattenSeq([i \in DOMAIN r.words |->
                                (IF i > 1 THEN <<" ">> ELSE <<>>) \o r.words[i]]) \o CRLF
    [] r.kind = "bulk"    -> <<"$", Digit(Len(r.word))>> \o CRLF \o r.word \o CRLF
    [] r.kind = "nil"     -> <<"$", "-", "1">> \o CRLF
    [] r.kind = "array"   -> <<"*", Digit(Len(r.elements))>> \o CRLF
                               \o FlattenSeq([i \in DOMAIN r.elements |-> Encode(r.elements[i])])

(* The values a result set has of a reply, and its error. *)
Result(vs, es) == [values |-> vs, error |-> es, past_end |-> FALSE]
RECURSIVE Meaning(_)
Meaning(r) ==
  CASE r.kind \in {"status", "integer", "bulk"} -> Result(<<r.word>>, <<>>)
    [] r.kind = "nil"   -> Result(<<>>, <<>>)
    [] r.kind = "error" -> Result(<<>>, [r.words EXCEPT ![1] = <<"-">> \o @])
    [] r.kind = "array" -> Result(FlattenSeq([i \in DOMAIN r.elements |-> Meaning(r.elements[i]).values]), <<>>)

-----------------------------------------------------------------------------
(* The words of istream_iterator<std::string>. *)
RECURSIVE Words(_, _)
Words(cs, word) ==
  LET done == IF word = <<>> THEN <<>> ELSE <<word>> IN
  IF cs = <<>> THEN done
  ELSE IF Head(cs) \in Blanks THEN done \o Words(Tail(cs), <<>>)
  ELSE Words(Tail(cs), Append(word, Head(cs)))

\* A mutant: the word carried over is never completed.
TokenizeApart(ts, carried, words) ==
  [tokens |-> ts \o (IF carried = <<>> THEN <<>> ELSE <<carried>>) \o words, token |-> <<>>]

(* The loop of Execute over the words of one read: the word carried over    *)
(* from the read before is completed by the first one, unless that starts   *)
(* with the mark of a reply.                                                *)
Tokenize(ts, carried, words) ==
  IF words = <<>> THEN [tokens |-> ts, token |-> carried]
  ELSE IF carried # <<>> /\ words[1][1] \notin Sigils
       THEN [tokens |-> ts \o <<carried \o words[1]>> \o Tail(words), token |-> <<>>]
       ELSE [tokens |-> ts \o (IF carried = <<>> THEN <<>> ELSE <<carried>>) \o words, token |-> <<>>]

(* Parse: the reply at position i of the tokens, and the position of its    *)
(* last token.  past_end: the iterator was dereferenced at the end.         *)
Count(t) == CASE Tail(t) = <<"1">> -> 1 [] Tail(t) = <<"2">> -> 2 [] Tail(t) = <<"3">> -> 3 [] OTHER -> 0
RECURSIVE Parse(_, _, _), ParseMany(_, _, _, _)
Parse(ts, i, res) ==
  IF i > Len(ts) THEN [i |-> i, res |-> [res EXCEPT !.past_end = TRUE]]
  ELSE LET t == ts[i]
           pushed(v) == [res EXCEPT !.values = Append(@, v)] IN
  CASE t[1] \in {"+", ":"} -> [i |-> i, res |-> pushed(Tail(t))]
    [] t[1] = "-" -> [i |-> i, res |-> [res EXCEPT !.error = <<t>>]]
    [] t = <<"$", "-", "1">> -> [i |-> i, res |-> res]
    [] t[1] = "$" /\ t # <<"$", "-", "1">> ->
         IF i = Len(ts) THEN [i |-> i + 1, res |-> [res EXCEPT !.past_end = TRUE]]
         ELSE [i |-> i + 1, res |-> pushed(ts[i + 1])]
    [] t[1] = "*" -> ParseMany(ts, i, Count(t), res)
    [] OTHER -> [i |-> i, res |-> [res EXCEPT !.error = Append(@, t)]]
ParseMany(ts, i, n, res) ==
  IF n = 0 \/ res.past_end THEN [i |-> i, res |-> res]
  ELSE LET one == Parse(ts, i + 1, res) IN ParseMany(ts, one.i, n - 1, one.res)

RECURSIVE ParseAll(_, _, _)
ParseAll(ts, i, res) ==
  IF i > Len(ts) \/ res.past_end THEN res
  ELSE LET one == Parse(ts, i, res) IN ParseAll(ts, one.i + 1, one.res)

-----------------------------------------------------------------------------
Init ==
  /\ pc = "idle" /\ wire = <<>> /\ owed = <<>> /\ streambuf = <<>>
  /\ tokens = <<>> /\ token = <<>>
  /\ result = Result(<<>>, <<>>) /\ asked = Nil /\ executed = 0 /\ broken = FALSE

(* Execute writes the command; the server will answer it after the rest of  *)
(* what it still owes. *)
Execute ==
  /\ pc \in {"idle", "returned"} /\ executed < MaxCommands
  /\ \E r \in Replies : asked' = r /\ owed' = owed \o Encode(r)
  /\ executed' = executed + 1
  /\ pc' = "reading" /\ streambuf' = <<>> /\ tokens' = <<>> /\ token' = <<>>
  /\ UNCHANGED <<wire, result, broken>>

(* The network brings some more bytes, as one segment. *)
Arrive ==
  /\ owed # <<>>
  /\ \E n \in 1..Len(owed) :
       /\ wire' = wire \o SubSeq(owed, 1, n)
       /\ owed' = SubSeq(owed, n + 1, Len(owed))
  /\ UNCHANGED <<pc, streambuf, tokens, token, result, asked, executed, broken>>

HasCRLF(b) == \E i \in 1..(Len(b) - 1) : b[i] = "CR" /\ b[i + 1] = "LF"

(* read_until takes all that has arrived until it holds a line end, and the *)
(* loop goes on or ends.                                                    *)
InsideWord(b) == Last(b) \notin Blanks /\ owed # <<>> /\ Head(owed) \notin Blanks \union Sigils
Read ==
  /\ pc = "reading" /\ wire # <<>>
  /\ wire' = <<>>
  /\ LET b == streambuf \o wire
         r == Tokenize(tokens, token, Words(b, <<>>)) IN
     IF ~HasCRLF(b)
     THEN streambuf' = b /\ UNCHANGED <<pc, tokens, token, result, broken>>
     ELSE /\ streambuf' = <<>>
          /\ broken' = (broken \/ (owed # <<>> /\ ~InsideWord(b)))
          /\ IF r.tokens = <<>> \/ Last(b) = "LF"
             THEN /\ pc' = "returned"
                  /\ result' = ParseAll(r.tokens, 1, Result(<<>>, <<>>))
                  /\ tokens' = <<>> /\ token' = <<>>
             ELSE /\ tokens' = Front(r.tokens) /\ token' = Last(r.tokens)
                  /\ UNCHANGED <<pc, result>>
  /\ UNCHANGED <<owed, asked, executed>>

Next == Execute \/ Arrive \/ Read
Spec == Init /\ [][Next]_vars

-----------------------------------------------------------------------------
(* Cutting a reply at its blanks loses an empty string and breaks up one    *)
(* with a blank in it; no result set can hold either.                       *)
RECURSIVE Representable(_)
Representable(r) ==
  CASE r.kind = "bulk"  -> r.word # <<>> /\ \A i \in DOMAIN r.word : r.word[i] \notin Blanks
    [] r.kind = "array" -> \A i \in DOMAIN r.elements : Representable(r.elements[i])
    [] OTHER -> TRUE

(* Execute returns what the server answered to its own command, in however  *)
(* many segments the reply came, as long as no read of this connection      *)
(* ended in a blank, or before a blank or the mark of a reply; after such a *)
(* read this command and all later ones may get anything.                   *)
OwnReply == pc = "returned" /\ ~broken /\ Representable(asked) => result = Meaning(asked)

(* Until then nothing of a reply stays behind for the next command, which   *)
(* would take it for its own.                                               *)
NothingLeft == pc = "returned" /\ ~broken => owed = <<>> /\ wire = <<>>

(* Execute never waits for a line end that the server has already sent: the *)
(* deadline that should end such a wait is never set.                       *)
NeverWaitsInVain == pc = "reading" /\ ~broken => owed # <<>> \/ wire # <<>>
=============================================================================
