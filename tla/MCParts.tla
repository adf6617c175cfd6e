------------------------------- MODULE MCParts -------------------------------
(***************************************************************************)
(* The parts of the framework that answer one question at a time, for      *)
(* model checking: what is in the database, what has been read, converted, *)
(* generated or logged.  They do not meet: a behaviour is one of one of    *)
(* them, which "of" says from the start, and the others stay as they are.  *)
(* One instance checks them all, each with the constants given here.       *)
(***************************************************************************)
EXTENDS Transaction, Parts

CONSTANT Null     \* a C# string that was never assigned, a NULL column of a row

(* The replies of a Redis server: each kind, a bulk string that is empty,    *)
(* has a blank or looks like an integer, and arrays of several kinds.       *)
Bulk(w) == [kind |-> "bulk", word |-> w]
Integer7 == [kind |-> "integer", word |-> <<"7">>]
Nil == [kind |-> "nil"]
SomeReplies ==
  { [kind |-> "status", word |-> <<"o", "k">>], Integer7, Nil,
    [kind |-> "error", words |-> <<<<"e">>, <<"a", "b">>>>],
    Bulk(<<"a", "b">>), Bulk(<<>>),
    [kind |-> "array", elements |-> <<Bulk(<<"a", " ", "b">>)>>],
    [kind |-> "array", elements |-> <<Bulk(<<":", "a">>), Integer7, Nil>>] }

(* What queries return: no result, that of an UPDATE, and up to three rows   *)
(* with a NULL in either column.                                            *)
Row(i, n) == [id |-> i, n |-> n]
SomeResults ==
  {[kind |-> k] : k \in {"empty", "changed"}}
    \union {[kind |-> "rows", rows |-> rs] :
             rs \in {<<>>, <<Row(1, -3)>>, <<Row(Null, 2), Row(2, Null)>>, <<Row(0, 7), Row(2, 3), Row(3, -1)>>}}

(* .idl files with every kind of statement, and comments that would be      *)
(* something else outside of a comment.                                     *)
SomeFiles ==
  { <<"message", "A", ":", "7", "{", "int32", "b", ";", "list", "<", "A", ">", "b", ";", "}", ";",
      "struct", "B", "(", "A", ")", "{", "}", ";">>,
    <<"enum", "A", "{", "a", "=", "7", ",", "b", "}", ";",
      "typedef", "array", "<", "map", "<", "int16", ",", "string", ">", ">", "B", ";",
      "struct", "A", "{", "B", "b", ";", "}", ";">>,
    <<".cpp", "%%", "text", "%%", ".cs", "%%", "text", "%%",
      "message", "A", "(", "B", ")", ":", "7", "{", "array", "<", "byte", ",", "7", ">", "a", ";", "}", ";">> }
SomeComments == {<<"/*", "message", "%%", "//", "*/">>, <<"//", "}", "/*", "newline">>}

(* Json values: leaves, containers of two leaves, and one level more, with  *)
(* comments of both kinds in all places.                                    *)
JsonComments == {<<>>, <<"//", "c">>, <<"/*", "c", "*/">>}
JsonValue(k, symbols) ==
  [kind |-> k, of |-> symbols, names |-> <<>>, elems |-> <<>>, before |-> <<>>, same |-> <<>>, after |-> <<>>]
JsonArray(es) == [JsonValue("array", <<>>) EXCEPT !.elems = es]
JsonObject(es) == [JsonValue("object", <<>>) EXCEPT !.elems = es, !.names = <<<<"a">>, <<"b">>>>]
One == JsonValue("literal", <<"1">>)
Leaves ==
  { One, JsonValue("string", <<"a", "q", "b", "n", "ctl", "0">>), JsonValue("string", <<>>),
    JsonValue("array", <<>>), JsonValue("object", <<>>) }
Commented(vs) == {[v EXCEPT !.before = b, !.same = s] : v \in vs, b, s \in JsonComments}
Containers(vs) ==
  {JsonArray(<<x, y>>) : x, y \in vs} \union {JsonObject(<<x, y>>) : x, y \in vs}
    \union {JsonArray(<<x>>) : x \in vs}
JsonValues ==
  LET commented == Commented({One, JsonValue("string", <<"x">>)})
      inner == Commented(Containers({One})) IN
  Leaves \union commented \union Containers(Leaves) \union Containers(commented)
    \union {[v EXCEPT !.after = c] : v \in inner, c \in JsonComments \ {<<"/*", "c", "*/">>}}
    \union Containers(inner \union {One})

Types == INSTANCE IdlMessages

(* The parameters of calls of Http, and what ReadXml reads. *)
SomeParams == {<<>>, <<"a">>, <<"a", "b">>}
SomeConfigurations == {<<>>, <<"no", "yes">>, <<"missing">>}

-----------------------------------------------------------------------------
VARIABLES pc, wire, owed, streambuf, tokens, token, redis_result, asked,
          redis_executed, broken
redisVars == <<pc, wire, owed, streambuf, tokens, token, redis_result, asked,
               redis_executed, broken>>
Redis == INSTANCE RedisConnection WITH
    result <- redis_result, executed <- redis_executed,
    Replies <- SomeReplies, MaxCommands <- 2

VARIABLES rows_result, cursor, rows_itr, rows_got, seen, disturbed, moves
rowsVars == <<rows_result, cursor, rows_itr, rows_got, seen, disturbed, moves>>
Rows == INSTANCE ResultSet WITH
    result <- rows_result, itr <- rows_itr, got <- rows_got,
    Results <- SomeResults, Columns <- <<"id", "n">>, Unknown <- "x",
    Iterators <- {1, 2}, Bits <- {2, 3}, MaxMoves <- 5

VARIABLES phase, writer, reader, wold, rold, wtype, rtype, value, idl_wire,
          size, got
idlVars == <<phase, writer, reader, wold, rold, wtype, rtype, value,
             idl_wire, size, got>>
Idl == INSTANCE IdlCodec WITH
    wire <- idl_wire, Messages <- Types!AllMessages

VARIABLES file, mode, idlc_tokens, option, outcome, output, original
idlcVars == <<file, mode, idlc_tokens, option, outcome, output, original>>
Idlc == INSTANCE IdlParser WITH
    tokens <- idlc_tokens, Files <- SomeFiles, Comments <- SomeComments,
    VarNames <- {"A", "B", "a", "b"}, Numbers <- {"7"}

VARIABLES json_value, text, tail, root, compact
jsonVars == <<json_value, text, tail, root, compact>>
JsonCpp == INSTANCE Json WITH
    value <- json_value, Values <- JsonValues,
    Tails <- {<<>>, <<"//", "x">>, <<"q">>}, Literals <- {"1"},
    rightMargin_ <- 12

VARIABLES buffer, count, digest_state, digest, finalized, message, updates
digestVars == <<buffer, count, digest_state, digest, finalized, message,
                updates>>
Md5 == INSTANCE Digest WITH
    state <- digest_state, blocksize <- 4, WordBits <- 6, MaxPiece <- 9,
    MaxUpdates <- 3

VARIABLES bytes, base64_text, ret
base64Vars == <<bytes, base64_text, ret>>
Base == INSTANCE Base64 WITH
    text <- base64_text, Octets <- {0, 3, 90, 192, 255}, MaxLen <- 4,
    Endings <- {<<>>, <<65>>, <<64>>, <<65, 1>>}

VARIABLES inits_calls, throws, setInitCompleted, itr, stack, returned, inits,
          inits_broken
initsVars == <<inits_calls, throws, setInitCompleted, itr, stack, returned,
               inits, inits_broken>>
Inits == INSTANCE InitOrder WITH
    calls <- inits_calls, broken <- inits_broken, Names <- {1, 2, 3},
    Unknown <- 9, MaxCalls <- 2, MaxInits <- 1

VARIABLES again_calls, again_throws, again_setInitCompleted, again_itr,
          again_stack, again_returned, again_inits, again_broken
againVars == <<again_calls, again_throws, again_setInitCompleted, again_itr,
               again_stack, again_returned, again_inits, again_broken>>
Again == INSTANCE InitOrder WITH
    calls <- again_calls, throws <- again_throws,
    setInitCompleted <- again_setInitCompleted, itr <- again_itr,
    stack <- again_stack, returned <- again_returned, inits <- again_inits,
    broken <- again_broken, Names <- {1, 2, 3}, Unknown <- 9, MaxCalls <- 1,
    MaxInits <- 2

VARIABLES totalWeight_, valWeight_, weights, overflowed, picked
weightVars == <<totalWeight_, valWeight_, weights, overflowed, picked>>
Weighted == INSTANCE WeightRandom WITH
    Weights <- {0, 1, 2, 3}, MAX_WEIGHT_CONSTRAINT <- 6, MaxValues <- 4

VARIABLES side, buffers, contents, stored
bufferVars == <<side, buffers, contents, stored>>
Bufs == INSTANCE Buffers WITH
    BUFFER_SIZE <- 2, MaxSize <- 3, MaxBytes <- 4

allVars == <<of, vars, redisVars, rowsVars, curlVars, unityVars, loadVars, idlVars, idlcVars, jsonVars, digestVars, base64Vars, initsVars, againVars, logsVars, weightVars, bufferVars, objectVars,
  dispatchVars>>

-----------------------------------------------------------------------------
Parts == {"transactions", "redis", "rows", "curl", "unity", "load", "idl", "idlc", "json", "digest", "base64", "inits", "again", "logs", "weight", "buffers", "pool", "dispatch"}

(* Where a part stays when its initial states are many and another moves. *)
SumInit ==
  /\ of \in Parts
  /\ Init
  /\ Redis!Init
  /\ IF of = "rows" THEN Rows!ResultInit
     ELSE /\ rows_result = <<>> /\ cursor = <<>> /\ rows_itr = <<>>
          /\ rows_got = <<>> /\ seen = <<>> /\ disturbed = <<>>
          /\ moves = <<>>
  /\ Curl!Init
  /\ Unity!Init
  /\ Load!Init
  /\ IF of = "idl" THEN Idl!Init
     ELSE /\ phase = <<>> /\ writer = <<>> /\ reader = <<>> /\ wold = <<>>
          /\ rold = <<>> /\ wtype = <<>> /\ rtype = <<>> /\ value = <<>>
          /\ idl_wire = <<>> /\ size = <<>> /\ got = <<>>
  /\ IF of = "idlc" THEN Idlc!Init
     ELSE /\ file = <<>> /\ mode = <<>> /\ idlc_tokens = <<>>
          /\ option = <<>> /\ outcome = <<>> /\ output = <<>>
          /\ original = <<>>
  /\ IF of = "json" THEN JsonCpp!Init
     ELSE /\ json_value = <<>> /\ text = <<>> /\ tail = <<>> /\ root = <<>>
          /\ compact = <<>>
  /\ Md5!DigestInit
  /\ Base!Base64Init
  /\ IF of = "inits" THEN Inits!Init
     ELSE /\ inits_calls = <<>> /\ throws = <<>> /\ setInitCompleted = <<>>
          /\ itr = <<>> /\ stack = <<>> /\ returned = <<>> /\ inits = <<>>
          /\ inits_broken = <<>>
  /\ IF of = "again" THEN Again!Init
     ELSE /\ again_calls = <<>> /\ again_throws = <<>>
          /\ again_setInitCompleted = <<>> /\ again_itr = <<>>
          /\ again_stack = <<>> /\ again_returned = <<>>
          /\ again_inits = <<>> /\ again_broken = <<>>
  /\ IF of = "logs" THEN Logs!Init
     ELSE /\ now = <<>> /\ slash = <<>> /\ init = <<>> /\ Property_ = <<>>
          /\ xml = <<>> /\ when = <<>> /\ today_ = <<>> /\ filename_ = <<>>
          /\ ofstream_ = <<>> /\ files = <<>> /\ writes = <<>>
          /\ refused = <<>>
          /\ dropped = <<>>
  /\ Weighted!WeightInit
  /\ IF of = "buffers" THEN Bufs!BufferInit
     ELSE side = <<>> /\ buffers = <<>> /\ contents = <<>> /\ stored = <<>>
  /\ IF of = "pool" THEN Pooling!PoolInit
     ELSE /\ pool_list = <<>> /\ pool_cur = <<>> /\ max_size_ = <<>>
          /\ out = {} /\ failures = <<>> /\ creates = <<>>
  /\ Disp!DispatchInit

SumNext ==
  /\ UNCHANGED of
  /\ IF of = "transactions" THEN Next ELSE UNCHANGED vars
  /\ IF of = "redis" THEN Redis!Next ELSE UNCHANGED redisVars
  /\ IF of = "rows" THEN Rows!ResultNext ELSE UNCHANGED rowsVars
  /\ IF of = "curl" THEN Curl!Next ELSE UNCHANGED curlVars
  /\ IF of = "unity" THEN Unity!Next ELSE UNCHANGED unityVars
  /\ IF of = "load" THEN Load!Next ELSE UNCHANGED loadVars
  /\ IF of = "idl" THEN Idl!Next ELSE UNCHANGED idlVars
  /\ IF of = "idlc" THEN Idlc!Next ELSE UNCHANGED idlcVars
  /\ IF of = "json" THEN JsonCpp!Next ELSE UNCHANGED jsonVars
  /\ IF of = "digest" THEN Md5!DigestNext ELSE UNCHANGED digestVars
  /\ IF of = "base64" THEN Base!Base64Next ELSE UNCHANGED base64Vars
  /\ IF of = "inits" THEN Inits!Next ELSE UNCHANGED initsVars
  /\ IF of = "again" THEN Again!Next ELSE UNCHANGED againVars
  /\ IF of = "logs" THEN Logs!Next ELSE UNCHANGED logsVars
  /\ IF of = "weight" THEN Weighted!WeightNext ELSE UNCHANGED weightVars
  /\ IF of = "buffers" THEN Bufs!BufferNext ELSE UNCHANGED bufferVars
  /\ IF of = "pool" THEN Pooling!PoolNext ELSE UNCHANGED objectVars
  /\ IF of = "dispatch" THEN Disp!DispatchNext ELSE UNCHANGED dispatchVars

(* The old Unity client after Close was called twice: TLC follows it until  *)
(* another of its hazards happens.                                          *)
UnityGoesOn == ~(unity_closed_twice /\ (redialed \/ unity_interrupted \/ torn \/ unity_cut))

SumSpec == SumInit /\ [][SumNext]_allVars

-----------------------------------------------------------------------------
(* Connection.cpp:50: Execute returns what the server answered to its own    *)
(* command, leaves nothing of it behind and does not wait for more, however *)
(* the network cuts the reply, until one read ends in a wrong place.        *)
(* ResultSet.cpp:87: the rows of a query come in order and all of them.     *)
RepliesAreRead ==
  /\ of = "redis" => Redis!OwnReply /\ Redis!NothingLeft /\ Redis!NeverWaitsInVain
  /\ of = "rows" => Rows!RowsInOrder /\ Rows!EndsBehindLast /\ Rows!ReadsItsRow

(* generate_rule_cpp.cpp, _csharp.cpp and _python.cpp: the programs that     *)
(* idlc generates for two languages, or for two versions of a message,      *)
(* understand each other.                                                   *)
GeneratedCodeAgrees == of = "idl" => Idl!RoundTrip /\ Idl!SizeOfStored /\ Idl!VersionsMeet

(* parser.y:31: a comment never changes what idlc generates.                *)
CommentsAreComments == of = "idlc" => Idlc!CommentsChangeNothing /\ Idlc!CommentsWhereExpected

(* jsoncpp.cpp:4419, MD5.cpp:233, Base64.cpp:21, Random.h:41, Buffer.cpp:68:  *)
(* Reader reads what the writers wrote, and the small utilities compute what *)
(* their definitions say, at every boundary of blocks, sums and arrays.      *)
UtilitiesCompute ==
  /\ of = "json" => JsonCpp!ReadAsWritten
  /\ Md5!DigestOfWhole /\ Base!DecodedIsEncoded /\ Weighted!PickedByWeight
  /\ of = "buffers" => Bufs!HoldsWhatWasStored

(* Singleton.h:18: each registered function runs once and finds what it     *)
(* calls set up, whatever they call and whichever of them throws.           *)
InitsInOrder ==
  /\ of = "inits" => Inits!CalledOnce /\ Inits!DependenciesFirst /\ Inits!AllInitialised
  /\ of = "again" => Again!CalledOnce /\ Again!DependenciesFirst /\ Again!AllInitialised

=============================================================================
