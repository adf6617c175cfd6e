----------------------------- MODULE HttpClient -----------------------------
(***************************************************************************)
(* Http::HttpClient: one curl handle, on which the calls of a program set  *)
(* options and perform a request.  Options stay set on the handle, and the *)
(* string that collects the response is never cleared, so that a call      *)
(* depends on the calls before it.                                         *)
(*                                                                         *)
(* Parameters are sequences of bytes, a response body is the number of the *)
(* call that it answers.                                                   *)
(***************************************************************************)
EXTENDS Integers, Sequences, FiniteSets, SequencesExt

CONSTANTS Params,       \* the param arguments of the calls
          MaxCalls,     \* bound: calls on one object
          MaxPerforms   \* bound: requests of one call that are answered 304

VARIABLES
  calls,        \* the calls so far: verb and param
  running,      \* is the last of them still in HttpRequest?
  options,      \* the options of the curl handle
  request,      \* what its last perform sent
  performs,     \* performs of this call that were answered 304
  resData_,
  callback      \* arguments of the last callback
vars == <<calls, running, options, request, performs, resData_, callback>>

Unset == -1
Fresh == [custom |-> "none", post |-> FALSE, fields |-> <<>>, owner |-> 0, size |-> Unset, follow |-> FALSE]
NoRequest == [method |-> "none", body |-> <<>>]

Init ==
  /\ calls = <<>> /\ running = FALSE /\ options = Fresh /\ request = NoRequest
  /\ performs = 0 /\ resData_ = <<>> /\ callback = [code |-> 0, data |-> <<>>]

-----------------------------------------------------------------------------
\* A mutant: the size of the fields is set, the fields are not.
PostFieldsOnce(o, param) ==
  IF param = <<>> \/ o.post THEN o
  ELSE [o EXCEPT !.post = TRUE, !.fields = param, !.owner = Len(calls) + 1]

(* CURLOPT_POSTFIELDS: the handle keeps the pointer, and is a POST from now *)
(* on; the memory belongs to the call that gave it.                         *)
PostFields(o, param) ==
  IF param = <<>> THEN o
  ELSE [o EXCEPT !.post = TRUE, !.fields = param, !.owner = Len(calls) + 1]

Get(param) == options' = options          \* param goes into the URL

Post(param) ==
  LET o == PostFields(options, param) IN options' = [o EXCEPT !.size = Len(param)]

Put(param) ==
  LET o == PostFields(options, param) IN options' = [o EXCEPT !.custom = "PUT"]

Delete(param) ==
  LET o == PostFields(options, param) IN options' = [o EXCEPT !.custom = "DELETE"]

Call ==
  /\ ~running /\ Len(calls) < MaxCalls
  /\ \E param \in Params : \E verb \in {"GET", "POST", "PUT", "DELETE"} :
       /\ CASE verb = "GET"    -> Get(param)
            [] verb = "POST"   -> Post(param)
            [] verb = "PUT"    -> Put(param)
            [] verb = "DELETE" -> Delete(param)
       /\ calls' = Append(calls, [verb |-> verb, param |-> param])
  /\ running' = TRUE /\ performs' = 0
  /\ UNCHANGED <<request, resData_, callback>>

(* What curl_easy_perform sends with the options.  Memory of an earlier     *)
(* call, or beyond the string, may hold anything.                           *)
Body ==
  LET n == IF options.size = Unset THEN Len(options.fields) ELSE options.size IN
  IF ~options.post THEN <<>>
  ELSE [i \in 1..n |-> IF options.owner = Len(calls) /\ i <= Len(options.fields)
                       THEN options.fields[i] ELSE "garbage"]
Request ==
  [method |-> IF options.custom # "none" THEN options.custom ELSE IF options.post THEN "POST" ELSE "GET",
   body |-> Body]

(* HttpClient::Callback appends a chunk as a C string, which curl does not  *)
(* end with a zero: what follows it in memory may be appended, too.         *)
Callback(what) ==
  \E junk \in {<<>>, << <<"garbage", 0>> >>} : resData_' = resData_ \o <<what>> \o junk

Return(code) ==
  /\ running' = FALSE
  /\ callback' = [code |-> code, data |-> resData_']

(* One turn of the loop of HttpRequest. *)
Answered ==
  /\ running /\ request' = Request
  /\ \E code \in {200, 404} : Callback(<<"body", Len(calls)>>) /\ Return(code)
  /\ UNCHANGED <<calls, options, performs>>

(* A redirection is followed by curl itself the second time. *)
Redirected ==
  /\ running /\ request' = Request
  /\ ~options.follow
  /\ options' = [options EXCEPT !.follow = TRUE]
  /\ Callback(<<"moved", Len(calls)>>)
  /\ UNCHANGED <<calls, running, performs, callback>>

(* A 304 has no location to follow: the loop asks again and again. *)
NotModified ==
  /\ running /\ request' = Request
  /\ performs < MaxPerforms /\ performs' = performs + 1
  /\ options' = [options EXCEPT !.follow = TRUE]
  /\ UNCHANGED <<calls, running, resData_, callback>>

(* curl_easy_perform fails, perhaps in the middle of the body. *)
Failed ==
  /\ running /\ request' = Request
  /\ UNCHANGED resData_ \/ Callback(<<"body", Len(calls)>>)
  /\ Return(500)
  /\ UNCHANGED <<calls, options, performs>>

Next == Call \/ Answered \/ Redirected \/ NotModified \/ Failed
Spec == Init /\ [][Next]_vars

-----------------------------------------------------------------------------
Verbs == {calls[i].verb : i \in DOMAIN calls}

(* An object that is used for one verb only, and always with parameters,    *)
(* sends that verb and the parameters of this call.  With two verbs the     *)
(* options of the one stay set for the other: a Get after a Post is a POST  *)
(* of freed memory, a Post after a Put is a PUT.                            *)
SameVerb ==
  request # NoRequest /\ Cardinality(Verbs) = 1 /\ ~running
    /\ (\A i \in DOMAIN calls : calls[i].param # <<>>) =>
       LET c == Last(calls) IN
       request = [method |-> c.verb, body |-> IF c.verb = "GET" THEN <<>> ELSE c.param]

(* Whatever was called before, a Put or a Delete sends its own verb, and    *)
(* with parameters never those of an earlier call.                          *)
CustomVerb ==
  request # NoRequest /\ ~running /\ Last(calls).verb \in {"PUT", "DELETE"} =>
    /\ request.method = Last(calls).verb
    /\ Last(calls).param # <<>> =>
         \A i \in DOMAIN request.body : i <= Len(Last(calls).param) => request.body[i] = Last(calls).param[i]

(* The data of a callback ends with the body of this call's response, after *)
(* those of all the calls before it and of the redirections, in order.      *)
OwnDataLast ==
  ~running /\ callback.code \in {200, 404} =>
    LET d == callback.data
        told == {i \in DOMAIN d : d[i][1] # "garbage"} IN
    /\ \E i \in told : d[i] = <<"body", Len(calls)>> /\ \A j \in told : j <= i
    /\ \A i, j \in told : i < j => d[i][2] <= d[j][2]
=============================================================================
