-------------------------------- MODULE Parts --------------------------------
(***************************************************************************)
(* Parts of the framework that do not meet, each an instance with its      *)
(* variables and its constants, and what is said of each of them.  A       *)
(* behaviour of the model is one of one part, which "of" says from the     *)
(* start (MCParts); a theorem is about one part on its own (PartsProofs).   *)
(***************************************************************************)
EXTENDS Integers, Sequences, FiniteSets

VARIABLE of      \* the part that takes the steps of this behaviour

-----------------------------------------------------------------------------
(* One curl handle. *)
CONSTANTS CurlBytes, CurlParams,           \* the arguments param, sequences of bytes
          CurlCalls, CurlPerforms      \* bounds
ASSUME CurlAssumption == CurlParams \subseteq Seq(CurlBytes)

VARIABLES calls, running, options, request, performs, resData_, callback
curlVars == <<calls, running, options, request, performs, resData_, callback>>
Curl == INSTANCE HttpClient WITH
    Params <- CurlParams, MaxCalls <- CurlCalls, MaxPerforms <- CurlPerforms

(* HttpClient.cpp:138: what the options of earlier calls leave of a call.   *)
OwnRequest == of = "curl" => Curl!SameVerb /\ Curl!CustomVerb /\ Curl!OwnDataLast

-----------------------------------------------------------------------------
(* The old Unity client. *)
CONSTANTS MaxSockets, UnityMessages, UnityUnits, UnityTraffic, MaxPartials,   \* bounds
          BufferUnits, Sizes, PACKET_HEADER_SIZE, UNITY_BUFFER_SIZE, LengthBits
ASSUME UnityAssumption ==
  /\ MaxSockets \in Nat \ {0} /\ MaxPartials \in Nat /\ BufferUnits \in Nat
  /\ Sizes \subseteq Nat /\ PACKET_HEADER_SIZE \in Nat
  /\ UNITY_BUFFER_SIZE \in Nat /\ 2 ^ LengthBits \in Nat
  /\ UNITY_BUFFER_SIZE < 2 ^ LengthBits

VARIABLES unity_state, unity_socket, unity_status, unity_ops,
          unity_eventQueue, unity_sendQueue, unity_recvBuffer,
          unity_incoming, unity_units, unity_sent, unity_posted,
          unity_handled, unity_interrupted, unity_closed_twice, unity_cut,
          looping, partials, redialed, torn
unityVars == <<unity_state, unity_socket, unity_status, unity_ops,
               unity_eventQueue, unity_sendQueue, unity_recvBuffer,
               unity_incoming, unity_units, unity_sent, unity_posted,
               unity_handled, unity_interrupted, unity_closed_twice,
               unity_cut, looping, partials, redialed, torn>>
Unity == INSTANCE UnityClient WITH
    state <- unity_state, socket <- unity_socket, status <- unity_status,
    ops <- unity_ops, eventQueue <- unity_eventQueue,
    sendQueue <- unity_sendQueue, recvBuffer <- unity_recvBuffer,
    incoming <- unity_incoming, units <- unity_units, sent <- unity_sent,
    posted <- unity_posted, handled <- unity_handled,
    interrupted <- unity_interrupted, closed_twice <- unity_closed_twice,
    cut <- unity_cut, MaxMessages <- UnityMessages, Sockets <- 1..MaxSockets,
    MaxUnits <- UnityUnits, MaxTraffic <- UnityTraffic, BUFFER_SIZE <- UNITY_BUFFER_SIZE

(* StreamSession.cs:134: the old Unity client gives its handlers whole       *)
(* packets, in order and once, over all its connections.                    *)
UnityPacketsWhole == of = "unity" => Unity!PacketsWhole

(* Session.cs:43: the old Unity client has one connection and sends its     *)
(* messages over it in order, also those that waited for it.                *)
UnityQueue ==
  of = "unity" =>
    Unity!OneConnection /\ Unity!SentInOrder /\ Unity!QueueWaitsForConnection /\ Unity!PackedWhole

-----------------------------------------------------------------------------
(* The load test. *)
CONSTANTS LoadSessions, session_count, loop_count, Tests, MaxNotices
ASSUME LoadAssumption ==
  /\ IsFiniteSet(LoadSessions) /\ session_count \in Nat /\ loop_count \in Nat \ {0}
  /\ Tests \in Nat \ {0} /\ MaxNotices \in Nat

VARIABLES timer, load_i, execute_count, report, tasks, load_state, test_seq,
          load_sent, load_answered, noticed, inbox, counted
loadVars == <<timer, load_i, execute_count, report, tasks, load_state, test_seq,
              load_sent, load_answered, noticed, inbox, counted>>
Load == INSTANCE TestClient WITH
    i <- load_i, state <- load_state, sent <- load_sent, answered <- load_answered,
    Sessions <- LoadSessions

(* Test/LinkManager.h:178: a session of the load test sends each test once, *)
(* and the counts of the report are what was sent.                          *)
LoadIsCounted == of = "load" => Load!OneAhead /\ Load!StartsBounded /\ Load!CountsAgree

-----------------------------------------------------------------------------
(* A log file. *)
CONSTANTS LogThreads, PerDay, filesize_, Configurations,
          MaxTime, MaxWrites      \* bounds
ASSUME LogAssumption ==
  /\ IsFiniteSet(LogThreads) /\ PerDay \in Nat \ {0} /\ filesize_ \in Nat /\ MaxTime \in Nat

VARIABLES now, slash, init, Property_, xml, when, today_, filename_, ofstream_,
          files, writes, refused, dropped
logsVars == <<now, slash, init, Property_, xml, when, today_, filename_,
              ofstream_, files, writes, refused, dropped>>
Logs == INSTANCE LogFile WITH Threads <- LogThreads

(* File.cpp:17, Logger.h:59: every line written is in one file, of its own  *)
(* day, and files are bounded, whatever threads do about midnight.          *)
LinesAreLogged == of = "logs" => Logs!FileOfItsDay /\ Logs!Bounded /\ Logs!NothingLost

-----------------------------------------------------------------------------
(* An object pool, and the handlers of messages. *)
CONSTANTS Capacities, SizeBits,
          MaxObjects, PoolCalls      \* bounds
ASSUME PoolAssumption ==
  2 ^ SizeBits \in Nat /\ Capacities \subseteq 0..(2 ^ SizeBits - 1) /\ MaxObjects \in Nat

VARIABLES pool_list, pool_cur, max_size_, out, failures, creates
objectVars == <<pool_list, pool_cur, max_size_, out, failures, creates>>
Pooling == INSTANCE Pool WITH
    lstObjectPtr_ <- pool_list, cur_size_ <- pool_cur, MaxCalls <- PoolCalls

CONSTANTS Messages, Sessions, HandlerCapacity,
          MaxBindings, MaxClients      \* bounds
ASSUME DispatchAssumption == HandlerCapacity \in Nat /\ Messages \subseteq Nat \ {0}

VARIABLES mapHandlerFunction_, mapHandler_, handling, client, bindings, answered, left
dispatchVars == <<mapHandlerFunction_, mapHandler_, handling, client, bindings, answered, left>>
Disp == INSTANCE Dispatch WITH running <- handling, Capacity <- HandlerCapacity

(* Pool.h:114, HandlerFactory.h:66: objects are where their pool says, and   *)
(* a message is handled by the object that is for it.                       *)
ObjectsInPlace ==
  /\ of = "pool" => Pooling!PoolAccounts
  /\ of = "dispatch" => Disp!HandlerOfOneSession /\ Disp!BoundOnceFoundOnce
=============================================================================
