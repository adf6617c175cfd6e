----------------------------- MODULE HttpServer -----------------------------
(***************************************************************************)
(* Http::LinkManager on one pooled link: every read is searched for a      *)
(* request line, the first one found is dispatched to the handler of its   *)
(* URI, and the link is closed behind the answer.  What a read brings      *)
(* without a line end is dropped when the buffer is cleared.               *)
(*                                                                         *)
(* A request of a client has a URI and parameters; its bytes are           *)
(* characters of a small alphabet, in which "%26" is an escaped "&".       *)
(* Everything happens in the strand of the link, except what a handler     *)
(* does with a session that it has kept.                                   *)
(***************************************************************************)
EXTENDS Integers, Sequences, FiniteSets, SequencesExt

CONSTANTS Requests,        \* what clients ask for: [uri, params]
          Handlers,        \* the URIs with a registered handler
          MaxConnections   \* bound: how often the link is used

VARIABLES
  open,         \* socket.is_open()
  request,      \* what the client of this connection asked for
  incoming,     \* its bytes that the link has not read
  session,      \* the handler's session: whether its link is set, and who keeps it
  received,     \* what this client got: responses, whole or cut off
  line_read,    \* history: how the reads of this connection cut its request line
  called,       \* history: the handlers this connection ran, with their arguments
  connections
vars == <<open, request, incoming, session, received, line_read, called, connections>>

-----------------------------------------------------------------------------
(* The bytes of a request. *)
Escape(v) == [i \in DOMAIN v |-> IF v[i] = "&" THEN "%26" ELSE v[i]]
Pair(p, i) == (IF i = 1 THEN <<"?">> ELSE <<"&">>) \o p[1] \o <<"=">> \o Escape(p[2])
RequestLine(r) ==
  <<"G", " ", "/">> \o r.uri \o FlattenSeq([i \in DOMAIN r.params |-> Pair(r.params[i], i)])
    \o <<" ", "H", "/", "1", "CR", "LF">>
Sent(r) == RequestLine(r) \o <<"H", "CR", "LF">>
SlashAt == 3

(* std::string::find, 0 for npos; substr from a position, up to another. *)
Find(s, c) == IF \E i \in DOMAIN s : s[i] = c THEN Min({i \in DOMAIN s : s[i] = c}) ELSE 0
From(s, i) == SubSeq(s, i, Len(s))
(* substr(first, last - first) with unsigned arithmetic: a last that is     *)
(* npos or before first leaves the rest of the string.                      *)
Slice(s, first, last) == IF last = 0 \/ last < first THEN From(s, first) ELSE SubSeq(s, first, last - 1)
Unescape(s) == [i \in DOMAIN s |-> IF s[i] = "%26" THEN "&" ELSE s[i]]

(* Request::Request: the parameters by name; the first of a name stays. *)
RECURSIVE Params(_, _)
Params(param, done) ==
  LET equal_pos == Find(param, "=")
      delim_pos == Find(param, "&")
      name == SubSeq(param, 1, equal_pos - 1)
      value == Slice(param, equal_pos + 1, delim_pos)
      more == IF name \in DOMAIN done THEN done
              ELSE [n \in DOMAIN done \union {name} |-> IF n = name THEN value ELSE done[n]] IN
  IF equal_pos = 0 THEN done
  ELSE IF delim_pos = 0 THEN more ELSE Params(From(param, delim_pos + 1), more)

NoParams == [n \in {} |-> <<>>]

(* The URI and parameters of the bytes up to the line end at i. *)
ParseRequest(b, i) ==
  LET request_ == SubSeq(b, 1, i)
      init_line == Slice(request_, 1, Find(request_, "LF"))
      uri == From(init_line, Find(init_line, "/") + 1)
      param_start == Find(uri, "?")
      param_end == Find(uri, " ")
      uri_end == IF param_start = 0 THEN param_end ELSE param_start
  IN [uri |-> Slice(uri, 1, uri_end),
      params |-> IF param_start = 0 THEN NoParams
                 ELSE Params(Unescape(Slice(uri, param_start + 1, param_end)), NoParams)]

(* What the client is to get for its request. *)
Ok(uri, params) == [code |-> 200, uri |-> uri, params |-> params]
NotFound == [code |-> 404, uri |-> <<>>, params |-> NoParams]
Asked(r) ==
  LET names == {r.params[i][1] : i \in DOMAIN r.params}
      first(n) == r.params[Min({i \in DOMAIN r.params : r.params[i][1] = n})][2]
  IN IF r.uri \in Handlers THEN Ok(r.uri, [n \in names |-> first(n)]) ELSE NotFound

-----------------------------------------------------------------------------
NoSession == [link |-> FALSE, kept |-> FALSE, params |-> NoParams]
Init ==
  /\ open = FALSE /\ request = [uri |-> <<>>, params |-> <<>>]
  /\ incoming = <<>> /\ session = NoSession
  /\ received = <<>> /\ line_read = "whole" /\ called = <<>> /\ connections = 0

(* A link of the pool is accepted: no session holds it any more. *)
Accept ==
  /\ ~open /\ ~session.link /\ connections < MaxConnections
  /\ \E r \in Requests : request' = r /\ incoming' = Sent(r)
  /\ open' = TRUE /\ connections' = connections + 1
  /\ received' = <<>> /\ line_read' = "whole" /\ called' = <<>>
  /\ UNCHANGED session

(* Session::Send: what the socket takes at once goes out; the rest has to   *)
(* wait for a completion that the close comes before, and so has every      *)
(* response after the first.                                                *)
Written(responses) ==
  {IF responses = <<>> THEN <<>> ELSE <<[response |-> Head(responses), whole |-> w]>> : w \in BOOLEAN}

\* A mutant: the link stays open behind the answer, and the session on it.
DispatchKeepsAlive(req) ==
  LET ok == Ok(req.uri, req.params) IN
  /\ \E answers \in IF req.uri \in Handlers THEN {<<ok>>, <<ok, ok>>, <<>>} ELSE {<<NotFound>>} :
       \E out \in Written(answers) :
         /\ received' = received \o out
         /\ session' = [link |-> TRUE, kept |-> answers = <<>>, params |-> req.params]
  /\ called' = IF req.uri \in Handlers THEN Append(called, req) ELSE called
  /\ UNCHANGED open

(* Dispatcher::OnRecvMsg, then AttachSession(NULL) and OnError.  The        *)
(* handler answers once or twice, throws, or keeps the session for later.   *)
Dispatch(req) ==
  LET ok == Ok(req.uri, req.params) IN
  /\ \E answers \in IF req.uri \in Handlers THEN {<<ok>>, <<ok, ok>>, <<>>} ELSE {<<NotFound>>} :
       \E out \in Written(answers) :
         /\ received' = received \o out
         /\ session' = [link |-> FALSE, kept |-> answers = <<>>, params |-> req.params]
  /\ called' = IF req.uri \in Handlers THEN Append(called, req) ELSE called
  /\ open' = FALSE

(* The byte behind the last one of a read is whatever the memory holds, an  *)
(* earlier read's line end perhaps.                                         *)
LineEnds(b, next) == {i \in DOMAIN b : b[i] = "CR" /\ (IF i = Len(b) THEN next ELSE b[i + 1]) = "LF"}

(* A completion of AsyncRead with the first n bytes. *)
OnRecvMsg ==
  /\ open /\ incoming # <<>>
  /\ \E n \in 1..Len(incoming) : \E next \in {"LF", "0"} :
       LET b == SubSeq(incoming, 1, n)
           at == Len(Sent(request)) - Len(incoming)   \* bytes read before
           ends == LineEnds(b, next) IN
       /\ incoming' = From(incoming, n + 1)
       /\ line_read' = IF at + n >= SlashAt /\ at + n < Len(RequestLine(request)) THEN "cut" ELSE line_read
       /\ IF ends = {} THEN UNCHANGED <<open, session, received, called>>
          ELSE Dispatch(ParseRequest(b, Min(ends)))
  /\ UNCHANGED <<request, connections>>

(* A handler answers with the session it kept. *)
LateSend ==
  /\ session.kept
  /\ session' = [session EXCEPT !.kept = FALSE]
  /\ IF session.link /\ open
     THEN \E out \in Written(<<Ok(<<>>, session.params)>>) : received' = received \o out
     ELSE UNCHANGED received
  /\ UNCHANGED <<open, request, incoming, line_read, called, connections>>

(* The client hangs up, or the keep-alive closes the link. *)
Disconnect ==
  /\ open /\ open' = FALSE
  /\ UNCHANGED <<request, incoming, session, received, line_read, called, connections>>

Next == Accept \/ OnRecvMsg \/ LateSend \/ Disconnect
Spec == Init /\ [][Next]_vars /\ WF_vars(Disconnect)

-----------------------------------------------------------------------------
Escaped(r) == \E i \in DOMAIN r.params : \E j \in DOMAIN r.params[i][2] : r.params[i][2][j] = "&"

(* A client gets at most one response, and it is the one to its own         *)
(* request: its URI's handler and all its parameters, or a 404; never what  *)
(* an earlier client of the link asked for, never what a handler sends      *)
(* late.  Not so if a read ended inside the request line, after the "/", or *)
(* if a parameter has an escaped "&", which is split once it is unescaped.  *)
OwnResponse ==
  /\ Len(received) <= 1
  /\ line_read = "whole" /\ ~Escaped(request) =>
       \A i \in DOMAIN received : received[i].response = Asked(request)

(* However the line is cut, no request runs two handlers, and none runs     *)
(* with parameters that its client did not send.                            *)
CalledOnce ==
  /\ Len(called) <= 1
  /\ ~Escaped(request) => \A i \in DOMAIN called :
       \A n \in DOMAIN called[i].params :
         \E j \in DOMAIN request.params : request.params[j] = <<n, called[i].params[n]>>

(* Each use of the link ends: it is closed behind every answer, and a       *)
(* client whose request line was lost waits only for the keep-alive.        *)
LinkComesBack == open ~> ~open /\ ~session.link
=============================================================================
