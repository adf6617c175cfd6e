---------------------------- MODULE Transaction ----------------------------
(***************************************************************************)
(* Database transactions over a pool of connections.  A Transaction takes  *)
(* a connection from the Pool of its database, runs statements on it, and  *)
(* commits, or rolls back in its destructor.  The shared_ptr's of the      *)
(* Transaction and of its ResultSet decide when the connection goes back.  *)
(*                                                                         *)
(* Handlers on several threads do this at once.  The database server can   *)
(* go away and come back, and drops the open transaction of a connection   *)
(* that is lost.  The client library connects again by itself              *)
(* (MYSQL_OPT_RECONNECT), except inside a transaction, where the query     *)
(* fails.  A query that fails throws, and the handler lets the exception   *)
(* out: it catches nothing between Execute and the end of the Transaction. *)
(***************************************************************************)
EXTENDS Naturals, Sequences, FiniteSets

CONSTANTS
    Transactions, \* Transaction objects and single queries, of any threads
    Connections,  \* Connection objects that could be created
    None,
    max_size,     \* of the pool
    Statements    \* statements a transaction executes, at most

ASSUME TransactionAssumption ==
    /\ IsFiniteSet(Transactions) /\ IsFiniteSet(Connections)
    /\ None \notin Connections
    /\ max_size \in Nat \ {0} /\ max_size <= Cardinality(Connections)
    /\ Statements \in Nat

VARIABLES
    lstObjectPtr_, \* free connections of the pool
    cur_size_,     \* Create calls that ran the factory
    up,            \* is the database server there?
    session,       \* the server's side of each connection
    in_trans,      \* SERVER_STATUS_IN_TRANS as the client library knows it
    stage,         \* of each Transaction
    connection,    \* Transaction::connection
    result,        \* the connection of the ResultSet that is still held
    executed,      \* statements that returned without an exception
    applied,       \* statements that are in the database, with their owner
    crash          \* an exception left a destructor

pool == <<lstObjectPtr_, cur_size_>>
server == <<up, session>>
vars == <<pool, server, in_trans, stage, connection, result, executed, applied, crash>>

\* A session of the server: a statement in it is applied by the commit.
NoSession == [alive |-> FALSE, open |-> FALSE, work |-> {}]
Fresh == [alive |-> TRUE, open |-> FALSE, work |-> {}]

\* ConnectionPool::Connect has tried the database with one connection.
Init ==
    /\ cur_size_ = 1
    /\ LET first == CHOOSE c \in Connections : TRUE
       IN  /\ lstObjectPtr_ = <<first>>
           /\ session = [c \in Connections |-> IF c = first THEN Fresh ELSE NoSession]
    /\ up = TRUE
    /\ in_trans = [c \in Connections |-> FALSE]
    /\ stage = [t \in Transactions |-> "new"]
    /\ connection = [t \in Transactions |-> None]
    /\ result = [t \in Transactions |-> None]
    /\ executed = [t \in Transactions |-> 0]
    /\ applied = {} /\ crash = FALSE

Held == {connection[t] : t \in Transactions} \cup {result[t] : t \in Transactions}
Pooled == {lstObjectPtr_[i] : i \in DOMAIN lstObjectPtr_}
Created == {c \in Connections : c \in Held \/ c \in Pooled}

-----------------------------------------------------------------------------
\* Pool.

\* A mutant: the deleter runs when the Transaction lets go.
RestituteAtOnce(c, others) == lstObjectPtr_' = <<c>> \o lstObjectPtr_

\* The last shared_ptr gives the object back.
Restitute(c, others) ==
    lstObjectPtr_' = IF c = None \/ c \in others THEN lstObjectPtr_
                     ELSE <<c>> \o lstObjectPtr_

MayCreate == cur_size_ < max_size

\* GetConnection: an object of the pool, or one the factory connects.  If the
\* pool is exhausted, or Connect fails, Create returns NULL and it throws;
\* cur_size_ has counted the connection that failed.
GetConnection(t) ==
    /\ stage[t] = "new"
    /\ \/ /\ lstObjectPtr_ # <<>>
          /\ connection' = [connection EXCEPT ![t] = Head(lstObjectPtr_)]
          /\ lstObjectPtr_' = Tail(lstObjectPtr_)
          /\ stage' = [stage EXCEPT ![t] = "starting"]
          /\ UNCHANGED <<cur_size_, session, in_trans>>
       \/ /\ lstObjectPtr_ = <<>> /\ MayCreate /\ up
          /\ cur_size_' = cur_size_ + 1
          /\ LET c == CHOOSE c \in Connections : c \notin Created
             IN  /\ connection' = [connection EXCEPT ![t] = c]
                 /\ session' = [session EXCEPT ![c] = Fresh]
                 /\ in_trans' = [in_trans EXCEPT ![c] = FALSE]
          /\ stage' = [stage EXCEPT ![t] = "starting"]
          /\ UNCHANGED lstObjectPtr_
       \/ /\ lstObjectPtr_ = <<>>
          /\ \/ MayCreate /\ ~up /\ cur_size_' = cur_size_ + 1
             \/ ~MayCreate /\ UNCHANGED cur_size_
          /\ stage' = [stage EXCEPT ![t] = "ended"]
          /\ UNCHANGED <<lstObjectPtr_, connection, session, in_trans>>
    /\ UNCHANGED <<up, result, executed, applied, crash>>

-----------------------------------------------------------------------------
\* The client library and the server.

\* The session a query would run in.
SessionFor(c) == IF session[c].alive THEN session[c] ELSE Fresh

\* mysql_real_query returns 0.
Reaches(c) == session[c].alive \/ (up /\ ~in_trans[c])

\* It fails, for the statement's own reasons or because the connection is gone;
\* the library then no longer believes that a transaction is open.
QueryFails(c) ==
    /\ UNCHANGED server
    /\ in_trans' = [in_trans EXCEPT ![c] = session[c].alive /\ @]

\* The connection is lost, and what its transaction has done with it.
Lose(c) ==
    /\ session[c].alive
    /\ session' = [session EXCEPT ![c] = NoSession]
    /\ UNCHANGED <<pool, up, in_trans, stage, connection, result, executed, applied, crash>>

GoesDown ==
    /\ up /\ up' = FALSE
    /\ session' = [c \in Connections |-> NoSession]
    /\ UNCHANGED <<pool, in_trans, stage, connection, result, executed, applied, crash>>

ComesBack ==
    /\ ~up /\ up' = TRUE
    /\ UNCHANGED <<pool, session, in_trans, stage, connection, result, executed, applied, crash>>

-----------------------------------------------------------------------------
\* Transaction.

\* A mutant: the constructor only takes a connection.
StartWithoutQuery(t) ==
    /\ stage[t] = "starting"
    /\ stage' = [stage EXCEPT ![t] = "open"]
    /\ UNCHANGED <<pool, server, in_trans, connection, result, executed, applied, crash>>

\* The constructor's "start transaction"; if it fails there is no Transaction
\* and the connection goes back.
Start(t) ==
    LET c == connection[t]
    IN  /\ stage[t] = "starting"
        /\ \/ /\ Reaches(c)
              /\ session' = [session EXCEPT ![c] = [SessionFor(c) EXCEPT !.open = TRUE]]
              /\ in_trans' = [in_trans EXCEPT ![c] = TRUE]
              /\ stage' = [stage EXCEPT ![t] = "open"]
              /\ UNCHANGED <<up, pool, connection>>
           \/ /\ QueryFails(c)
              /\ stage' = [stage EXCEPT ![t] = "ended"]
              /\ connection' = [connection EXCEPT ![t] = None]
              /\ Restitute(c, {}) /\ UNCHANGED cur_size_
        /\ UNCHANGED <<result, executed, applied, crash>>

\* ConnectionPool::Execute: one query without a Transaction; the connection
\* belongs to the ResultSet.  Its answer, too, may be lost.
Query(t) ==
    LET c == connection[t]
    IN  /\ stage[t] = "starting" /\ Statements > 0
        /\ connection' = [connection EXCEPT ![t] = None]
        /\ \/ /\ Reaches(c)
              /\ session' = [session EXCEPT ![c] = SessionFor(c)]
              /\ applied' = IF SessionFor(c).open THEN applied ELSE applied \cup {<<t, 1>>}
              /\ executed' = [executed EXCEPT ![t] = 1]
              /\ result' = [result EXCEPT ![t] = c]
              /\ stage' = [stage EXCEPT ![t] = "committed"]
              /\ UNCHANGED <<pool, up, in_trans>>
           \/ /\ session[c].alive /\ ~session[c].open
              /\ session' = [session EXCEPT ![c] = NoSession]
              /\ applied' = applied \cup {<<t, 1>>}
              /\ executed' = [executed EXCEPT ![t] = 1]
              /\ stage' = [stage EXCEPT ![t] = "maybe"]
              /\ Restitute(c, {}) /\ UNCHANGED <<up, cur_size_, in_trans, result>>
           \/ /\ QueryFails(c)
              /\ stage' = [stage EXCEPT ![t] = "ended"]
              /\ Restitute(c, {}) /\ UNCHANGED <<cur_size_, executed, applied, result>>
        /\ UNCHANGED crash

\* A statement in a session without an open transaction is applied at once.
Execute(t) ==
    LET c == connection[t]
        work == {<<t, executed[t] + 1>>}
    IN  /\ stage[t] = "open" /\ executed[t] < Statements
        /\ \/ /\ Reaches(c)
              /\ executed' = [executed EXCEPT ![t] = @ + 1]
              /\ session' = [session EXCEPT ![c] =
                    [SessionFor(c) EXCEPT !.work = IF SessionFor(c).open THEN @ \cup work ELSE @]]
              /\ applied' = IF SessionFor(c).open THEN applied ELSE applied \cup work
              /\ result' = [result EXCEPT ![t] = c]
              /\ UNCHANGED <<up, in_trans, stage>>
           \/ /\ QueryFails(c)
              /\ stage' = [stage EXCEPT ![t] = "unwinding"]
              /\ UNCHANGED <<executed, applied, result>>
        /\ UNCHANGED <<pool, connection, crash>>

\* "commit", then the Transaction lets its connection go.  If the connection is
\* lost before the answer comes the server may have committed.
Commit(t) ==
    LET c == connection[t]
    IN  /\ stage[t] = "open"
        /\ \/ /\ Reaches(c)
              /\ applied' = applied \cup session[c].work
              /\ session' = [session EXCEPT ![c] = Fresh]
              /\ in_trans' = [in_trans EXCEPT ![c] = FALSE]
              /\ stage' = [stage EXCEPT ![t] = "committed"]
              /\ connection' = [connection EXCEPT ![t] = None]
              /\ Restitute(c, {result[t]}) /\ UNCHANGED <<up, cur_size_>>
           \/ /\ session[c].alive
              /\ applied' = applied \cup session[c].work
              /\ session' = [session EXCEPT ![c] = NoSession]
              /\ in_trans' = [in_trans EXCEPT ![c] = FALSE]
              /\ stage' = [stage EXCEPT ![t] = "unknown"]
              /\ UNCHANGED <<pool, up, connection>>
           \/ /\ QueryFails(c)
              /\ stage' = [stage EXCEPT ![t] = "unwinding"]
              /\ UNCHANGED <<pool, connection, applied>>
        /\ UNCHANGED <<result, executed, crash>>

\* The handler returns without Commit, or throws.
Leave(t) ==
    /\ stage[t] = "open"
    /\ stage' = [stage EXCEPT ![t] = "unwinding"]
    /\ UNCHANGED <<pool, server, in_trans, connection, result, executed, applied, crash>>

\* A mutant: the connection goes back as it is.
DestroyWithoutRollback(t) ==
    LET c == connection[t]
    IN  /\ stage[t] \in {"unwinding", "unknown"}
        /\ stage' = [stage EXCEPT ![t] = "ended"]
        /\ connection' = [connection EXCEPT ![t] = None]
        /\ Restitute(c, {result[t]})
        /\ UNCHANGED <<cur_size_, server, in_trans, result, executed, applied, crash>>

\* ~Transaction: "rollback", whose exception ends the process.
Destroy(t) ==
    LET c == connection[t]
    IN  /\ stage[t] \in {"unwinding", "unknown"}
        /\ stage' = [stage EXCEPT ![t] = IF @ = "unknown" THEN "maybe" ELSE "ended"]
        /\ \/ /\ Reaches(c)
              /\ session' = [session EXCEPT ![c] = Fresh]
              /\ in_trans' = [in_trans EXCEPT ![c] = FALSE]
              /\ connection' = [connection EXCEPT ![t] = None]
              /\ Restitute(c, {result[t]})
              /\ UNCHANGED <<up, cur_size_, crash>>
           \/ /\ QueryFails(c)
              /\ crash' = TRUE
              /\ UNCHANGED <<pool, connection>>
        /\ UNCHANGED <<result, executed, applied>>

\* The last copy of the ResultSet is destroyed.
DropResult(t) ==
    /\ result[t] # None
    /\ result' = [result EXCEPT ![t] = None]
    /\ Restitute(result[t], {connection[t]})
    /\ UNCHANGED <<cur_size_, server, in_trans, stage, connection, executed, applied, crash>>

Handler(t) ==
    \/ GetConnection(t) \/ Query(t) \/ Start(t) \/ Execute(t) \/ Commit(t)
    \/ Leave(t) \/ Destroy(t) \/ DropResult(t)

Next ==
    /\ ~crash
    /\ \/ \E t \in Transactions : Handler(t)
       \/ \E c \in Connections : Lose(c)
       \/ GoesDown \/ ComesBack

Spec == Init /\ [][Next]_vars

-----------------------------------------------------------------------------
\* The types; the factory has run at most max_size times.
TypeOK ==
    /\ lstObjectPtr_ \in Seq(Connections) /\ cur_size_ \in 0..max_size
    /\ up \in BOOLEAN /\ in_trans \in [Connections -> BOOLEAN]
    /\ session \in [Connections -> [alive : BOOLEAN, open : BOOLEAN,
                       work : SUBSET (Transactions \X (1..Statements))]]
    /\ stage \in [Transactions -> {"new", "starting", "open", "unwinding", "unknown",
                                  "committed", "maybe", "ended"}]
    /\ connection \in [Transactions -> Connections \cup {None}]
    /\ result \in [Transactions -> Connections \cup {None}]
    /\ executed \in [Transactions -> 0..Statements]
    /\ applied \subseteq Transactions \X (1..Statements)
    /\ crash \in BOOLEAN

Handles(t) == {connection[t], result[t]} \ {None}

\* A connection is in the pool once and held by nobody, or belongs to one
\* Transaction and its ResultSet: no query and no row of one handler goes over
\* the connection of another.
Exclusive ==
    /\ \A i, j \in DOMAIN lstObjectPtr_ : lstObjectPtr_[i] = lstObjectPtr_[j] => i = j
    /\ Pooled \cap Held = {}
    /\ \A t, u \in Transactions : t # u => Handles(t) \cap Handles(u) = {}

\* All statements of a Transaction are in the database or none: all once Commit
\* (or a single query) has returned, none if it was not called, although
\* connections are lost and connected again behind the handler's back.
Atomic ==
    \A t \in Transactions :
        LET done == {i \in 1..Statements : <<t, i>> \in applied}
            all  == 1..executed[t]
        IN  CASE stage[t] = "committed"          -> done = all
              [] stage[t] \in {"unknown", "maybe"} -> done \in {{}, all}
              [] OTHER                          -> done = {}

\* Nobody takes from the pool a connection with another's open transaction.
CleanInPool == \A c \in Pooled : ~session[c].open
=============================================================================
