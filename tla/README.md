# Gamnet: a verification project

Gamnet (`src/Gamnet`) is a TCP server framework on top of boost asio, with its
clients, its message compiler `idlc` and a small library. This directory models
it in TLA+, checks the models with TLC and proves the properties that matter
most with TLAPS. File and line references are to `src/`; `PROJECT.json` maps
every definition to the lines it stands for.

## Inventory

| component | state | operations | interacts by | what is hard |
|---|---|---|---|---|
| **Link** (`Network/Link.cpp`) | socket, strand, timer, `send_buffers`, pointers to manager and session | Connect, AsyncRead, AsyncSend/FlushSend, OnError, AttachManager, AttachSession | asio completions queued in the strand; calls from other threads; shared_ptr in every handler | completions that overtake each other in the strand, several causes of close, reuse by the pool |
| **LinkManager** (`Network/LinkManager.cpp`) | `_links`, `_link_pool`, `_is_acceptable`, `_lock`, keep-alive timer | Listen, Accept, Callback_Accept, OnClose, Add, Remove | accept chain through the strands of the links; OnClose from every closing link | the flag is read without its lock; the chain ends when the pool is empty and has to be started again |
| **Tcp sessions** (`Network/Session.cpp`, `Tcp/LinkManager.h`) | `Link::session`, `Session::link`, `_sessions`, token, `msg_seq`, `recv_packet` | OnAccept, OnRecvMsg, Connect_Req, Reconnect_Req, HeartBeat_Req, idle timer | a reconnect moves a session between the strands of two links | two pointers changed on different threads, tests that are stale when used |
| **Tcp client** (`example/unity_client/Assets/Session.cs`) | send queue, sequence numbers, key and token | connect, reconnect, resend, acknowledge | Reconnect_Ans and HeartBeat_Ans carry the server's `msg_seq` | messages lost or repeated around a reconnect |
| **Old Unity client** (`Client/Unity`) | socket, event and send queue, receive buffer | Connect, SendMsg, Close, Update | callbacks on pool threads queue events for the game's thread | callbacks of an old socket that use the fields of the new one |
| **Router** (`Network/Router`) | three route tables, address of each session, waiting requests | SetAddress handshake, SendMsg, OnClose, request/answer with timeout | messages between servers, one-shot handlers | both ends register independently; late answers |
| **Dispatch** (`HandlerFactory`, `HandlerContainer`, `Dispatcher`) | factory of each message number, handlers bound in a session | RegisterHandler, OnRecvMsg, BindMessage, Find | per session, used by OnRecvMsg; handlers of a pool | Find erases, Register overwrites; a session that is used again keeps its handlers |
| **Pool, Timer, Buffer, Packet** (`Library`) | free list and counters; one-shot entry; cursors | Create/Restitute; SetTimer/OnExpire/Resume; Append/Remove | shared_ptr deleter; io_service | objects that never come back, counters after a failure |
| **Database** (`Database/ConnectionPool.h`, `MySQL`) | pool of connections, open transaction; cursor of a result | Execute, Transaction, Commit, destructor; iterators and conversions | shared_ptr of Transaction and ResultSet; exceptions | connections that are lost and come back, what a pooled connection still holds; iterators that share a cursor |
| **Redis** (`Database/Redis`) | socket, tokens of a reply | Execute | read_until on one socket, callers in turn | replies cut by the network |
| **ThreadPool, MultiLock, Singleton** (`Library`) | task queue, stop flag; set of locks; names already run | PostTask, worker, destructor; construct, copy, destroy; Init, CallInitFunc | mutex and condition variable; copies; nested calls | lost notifications, circles of waiting, circles of calls and exceptions |
| **Http server and client** (`Network/Http`) | a session per link; options of one curl handle | OnRecvMsg, Send; Get, Post, Put, Delete | the link is closed behind the answer | a request line cut anywhere, late answers, options left by earlier calls |
| **Test client** (`Test`) | counts of sessions, tasks and messages | timer, tasks, OnConnect, OnRecvMsg, OnClose | timers, a ThreadPool and links on different threads | three counts of one thing; sessions that do not come back |
| **Log** (`Log`) | the open file, its day and size | Init, ReadXml, Write | a mutex inside File | the time is taken before the mutex |
| **idlc** (`idlc/src`) | token stream; parse tree | lexer, grammar, three generators | the generated programs meet on the wire | comments anywhere; three languages and two versions of one format |
| **Json, MD5, Base64, Random** (`Library`) | reader and writer state; block buffer; sums | write and read; update, finalize; encode, decode; SetWeight, Random | called by sessions, handlers and tests | boundaries: ends of blocks, texts and sums |

What makes each correct: a link has one write in flight, delivers the calls of a
sender in order, reports its end once and goes back to the pool; a listener has
exactly one pending accept whenever it says it has; a session points only at a
link that has it; a message of a client is handled once and in order across
reconnects; a route leads to a link that is up, and an answer to the request it
answers; packets are cut out of the stream as they were sent; a transaction is
applied whole or not at all; a pool gets everything back; a reply is read whole
and by the one who asked; a task is run once; whoever wants locks gets them; an
Http client gets its own answer; a line of the log is in the file of its day;
what one generated program stores another one loads; what is written or encoded
is read or decoded the same.

Threads: `Gamnet::Run(n)` (`Gamnet.cpp:13-24`) runs `n + 1` threads in one
io_service. A strand serialises the handlers of one link; everything that two
links share is protected by a lock or by nothing. An exception that leaves a
handler ends the process.

## Modules

| module | models | proofs |
|---|---|---|
| `Link` | one link through several connections | `LinkProofs` |
| `LinkManager` | the listener: all links of a pool, accept chain, keep-alive sweep | `LinkManagerProofs` |
| `TcpSession` | sessions moving between links, on several threads | `TcpSessionProofs` |
| `ReliableQueue` | abstract: messages handled once and in order | |
| `ReliableSession` | the Unity client and the server's `msg_seq`; implements `ReliableQueue` | `ReliableSessionProofs` |
| `PacketReader` | Buffer, Packet and the loop of OnRecvMsg | `PacketReaderProofs` |
| `Router` | router sessions, route tables, requests and answers | `RouterProofs` |
| `Transaction` | connection pool and transactions of the database | `TransactionProofs` |
| `ResultSet` | rows, iterators and conversions of one MySQL result | |
| `RedisConnection` | a command and its reply, in any pieces | |
| `UnityClient` | the old client: game thread, callbacks, events, framing | `PartsProofs` |
| `ThreadPool`, `Locks`, `InitOrder` | workers and their end; MultiLock; the registered initialisers | `PartsProofs` |
| `HttpServer`, `HttpClient` | a pooled Http link; one curl handle | `PartsProofs` (`HttpClient`) |
| `TestClient` | the load test | `PartsProofs` |
| `LogFile` | Logger and File about midnight | `PartsProofs` |
| `IdlMessages`, `IdlCodec` | the messages of the repository; Store, Load and Size of three languages | |
| `IdlParser` | lexer, grammar and what is written for each language | |
| `Buffers`, `Pool` | every operation of both Buffer classes; one object pool whose capacity changes | `PartsProofs` (`Pool`) |
| `Dispatch` | the factories and the bound handlers of sessions that are used again | `PartsProofs` |
| `Parts` | instances of the six modules that `PartsProofs` and `MCParts` are both about | `PartsProofs` |
| `Json` | StyledWriter, FastWriter, Reader | |
| `Digest`, `Base64`, `WeightRandom` | buffering of MD5; the codec; the weighted choice | |
| `MC...` | instances for TLC with their `.cfg` files | |

`Link` is the lowest level: it shows what the modules above take for granted, that
the handlers of one link are atomic, that a close runs OnClose once and removes
the link from `_links`, and that the object then returns to the pool.
`LinkManager` keeps of a link only its place (`pooled`, `accepting`, `attached`,
`closing`, `closed`) and cuts the handlers where other threads can interfere.
`TcpSession` keeps only the session pointers and cuts the handlers likewise.
`ReliableSession` has one server thread, on which the pointers of a session agree
(`PointersAgree` of `TcpSession`; no reconnect crosses another handler there), and
adds what travels over them: packets that are whole and in
order, which is what `WireInOrder` of `Link` and `Framed` of `PacketReader` say, both
proved.
`Router` and `HttpServer` stand beside it on the same links. `Transaction`, with
`ResultSet` on what it returns, `RedisConnection` and `HttpClient` are used by
handlers. The other modules stand alone, as their code does.

`MCParts` and `MCThreads` are only a way to check parts that do not meet in one
run each: the variable `of` is chosen initially and never changes, the part it
names takes the steps, and the others stay in one of their initial states. Each
invariant of theirs is that of a part, or the conjunction of those of its module,
under `of = "..."`. `Parts` has the instances and the invariants of the parts that
are proved about, so that the run and the theorems state the same formulas; `MCParts`
extends it. `MCParts` has the parts that only need an answer to be right,
`MCThreads` those that must also go on, with the fairness of the part's module.

### Link

The strand is a sequence of functions. `strand.wrap(f)()` runs `f` at once if
the strand is idle and queues it if not; both are "append, then run the head",
so every call from outside is `Dispatch` and every handler is a `Run...` action
that consumes the head. An asynchronous operation is in `pending` until
it completes, its completion handler is in `strand` until it runs; between the
two other functions may run, which is where the difficulties of this class are.
Calls made by a handler in its own strand (AttachSession in OnAccept, OnError in
OnRecvMsg) are part of the handler's action. `Manager` chooses between the Tcp
listener (keep-alive, AttachSession(NULL) from other links) and the router
(outbound `Connect`, no keep-alive). `Failures` turns on rare failures of the
environment: `endpoint` (a socket call throws after accept or connect),
`session pool` (no session left), `resolve` (Connect throws), `callback`
(`Session::OnClose` throws). `OnRecvMsg` of a Tcp link may run Recv_Reconnect_Req:
when it succeeds, `link->AttachSession(other)` (Tcp/LinkManager.h:209) puts the session
the client comes back to in the place of the one OnAccept made, which gets neither
OnClose nor AttachSession(NULL) (`replaced`); when the two are the same the session is
taken off first (`detached`), and a request that fails leaves the link without one.
`MaxReconnects` bounds those that succeed. A read brings at most one such request: a
second one behind it would use the link pointer of a session that has none, and is not
modelled. `pushed`, `wire`, `opened`, `closed`, `detached` and `replaced` are history. `connection` numbers the uses of the pooled object.

A NULL dereference is the state `crashed`, in which nothing happens any more; in
`RunTimer` it is one of two outcomes, because the pointer is read only when
warnings are logged.

### LinkManager

`task[l]` is what the strand of link `l` executes next, up to the next access to
shared state: `accept` and `full` are `Accept()` before and after
`Create()` returned NULL; `check`, `recheck` and `remove` are OnError: the test
of `_is_acceptable` without the lock, the test with it, and AttachManager(NULL).
`lock` is the recursive `_lock`. It is held across steps in two places only:
OnClose calls `Accept` with it, and the keep-alive timer holds it for a whole
pass, during which it runs OnError inline (`inline`) for a link whose strand is
idle and queues it (`queued`) for one that is busy. The sweep may visit the
links in any order; the code does so by key. A link becomes `pooled` when its
last handler has ended (`Release`), any time after its close: this delay is what
`Available()` sees. `KeepAlive` and `Outbound` say whether the listener has the
timer and whether links are also taken from the pool to connect. An accept that
fails, and one whose session pool is empty, closes the link at once; OnClose does
nothing then because the chain is alive.

### TcpSession

`link_session` is `Link::session`, changed in the strand of the link;
`session_link` is `Session::link`, changed in the strands of all links the
session meets. Recv_Reconnect_Req is three steps: find the session and compare
the token, AttachSession(NULL) on its old link (inline if that link's strand is
idle, queued in `detaching` if not), new token and AttachSession on the own link.
`threads`, chosen from `Threads` at the start, bounds how many strands run at
once. An element of `Links` is one connection and one of `Sessions` one session
key, so nothing is reused. The three steps interleave on more than one thread, and
then two reconnects may both take one session. The history variable `crossed` has
the sessions to which this has happened: a reconnect compared the token while
another one had found the session, or found its old link's strand at work, so that
AttachSession(NULL) waits there. For all others both pointers agree on any number of
threads (`PointersAgree`), and a token is good once for each thread at most
(`TokenUsedOncePerThread`), which is as often as the code lets it be.

### ReliableSession

The client's variables are those of `Session.cs`; `numbered` is the packet of a
SendMsg call that has its number and waits for `_sync_obj`. Callbacks, the
heartbeat timer and SendMsg run on different threads of the client, and a block
under the lock is a step. `up` and `down` are the streams of each connection:
what has not been read when a link closes is lost. A server read takes any
number of packets, and OnRecvMsg handles one per step; the server has one thread
here, so nothing else runs meanwhile. Session `c` is the one that OnAccept makes
for connection `c`; the client's own is the one whose token it was given.
The late callback of an old socket counts as failed, a connect that was given up
does not complete later, and a SendMsg between the assignment of `_state` and
the lock that follows it is not modelled.

`ExactlyOnce` says that every step is one of `ReliableQueue` or a stutter, with
the handled messages of all sessions taken together. It is stated until one of three
things has happened, because each of them loses a message; the history variable
`spoiled` is set by them and by nothing else: a number taken without the lock is
overtaken (Session.cs:446), a BeginSend throws while Callback_Reconnect has the
queue in a local variable (298), an unsent Reconnect_Req is sent again (295). The
third is the finding `reliable_lost`.

### PacketReader

A byte is its position in the stream, so what a handler sees can be compared
with what was sent. `data`, `readCursor_` and `writeCursor_` are kept apart
because GetLength reads from the start of `data` and the handler from `ReadPtr()`.
One action is one read with its Append, or one round of the loop. A length field
that is not the first bytes of a packet may be any number. `Append` without
space is the status `overflow`, the end of the process: a packet that is nearly
complete and a full read are more than the 65535 bytes of recv_packet.

### Router

`phase` is how far the handshake of a session's link is: `asking` has sent
SetAddress_Req, `answered` has stored the peer's address and answered, `up` has
registered, or tried to. The other servers are the environment: they follow the
same protocol on each link and answer a request once, on any link that is up.
Messages of one link keep their order, so the next message a phase can receive
is determined, and the network needs no variable of its own. The tables are a
function for unicast and lists for the others, as their erase and round robin
work on lists. `OneAtATime` is a discipline of the application: a handler sends
its next request when no answer to the last one can come any more; without it
HandlerContainer, which keeps one handler for a message id, mixes them up.

### Transaction

A session of the database server holds the work of an open transaction;
the client library's `SERVER_STATUS_IN_TRANS` decides whether it connects
again by itself. A query may fail for any reason at any time, a connection may
be lost and the server may be away. Commit's and a single query's answer may be
lost after the server has done it: then the caller cannot know (`unknown`,
`maybe`). The handler lets exceptions out. A connection goes back to the pool
with the last shared_ptr, of the Transaction or of a ResultSet.

### Buffers and Pool

`Buffers` makes any sequence of calls on two buffers and remembers what each should
hold. `side` is whose they are. The library's buffer moves what it holds to the
front when the room behind its write cursor is short, so an Append fails only when
all of the room is taken; the old client's never does. There `Append(MemoryStream)`
takes the whole array behind the stream, and `Copy` of an array that is too long
leaves an empty buffer, because the indices are reset before BlockCopy throws.
`Resize` to less than is held would write behind the new array; nothing calls it
so, and the model does not.

`Pool` is one pool with a factory that may throw. `Capacity` may be set at any
time, as `Listen` does. A failure costs one place for good; a capacity below what
there is makes `Available()` wrap (Pool.h:139), and only then does it say more than
Create will give.

### Dispatch

`mapHandlerFunction_` has a factory for each message number, `mapHandler_` what is
bound in each session. A handler of a pool (`Create`) is its number, those of all
factories in one pool; it is out of it while a call (`running`) or a container
holds it (`Holds`). OnRecvMsg of a session runs in its strand, so `running` is one
handler, which may bind itself to numbers any number of times before it returns.
`Accept` is the next client of a Session object: Session::Init (Session.h:20-33)
does not empty `handler_container`, so `left` remembers the sessions whose client has
left a handler there, and only in these a message may find what another client has
bound.

### UnityClient

The callbacks of BeginConnect, BeginReceive, BeginSend and BeginDisconnect are
operations in `ops`: each may run at any time after it was started, on a thread
of the pool, and takes the socket from the field `_socket`, whatever that is by
then. What they tell the game's thread goes through `eventQueue`, which Update
empties one event at a time. `Callback_OnClose` is three steps, because it runs
on a pool thread without a lock. A connection may be reset at any time.

EndSend may report that the socket took a part of a message. Then `Callback_OnSend`
gives the rest, in an array as long as a Buffer, to AsyncSend, on its own thread
(Session.cs:278): `SendRest` cuts it at the two tests of `state`, of Reconnect and of
PostSend, so that it may reconnect (`redialed`), queue the rest or send it, while the game
does the same. When it reconnects between two messages of a ReconnectEvent, the loop
of that event puts each message back that it takes and never ends (`looping`).

OnReceive puts what was read behind `recvBuffer` in a Buffer of fixed size
(`BufferUnits`): when there is no room, BlockCopy throws and the read is lost
(Buffer.cs:112). A header with a length above the size of a Buffer, or with an id
without a handler, leaves the loop and stays where it is. A handler that throws
before it has taken its body leaves it to be read as the next header
(StreamSession.cs:167). All three are outcomes of `ReceiveEvent`.

The history variables `interrupted` (an exception left the event that empties
`sendQueue`), `closed_twice` (Close while a disconnect is under way), `redialed`, `cut` (a
connection ended inside a packet) and `torn` (a read had no room or a handler left its
body) mark what the properties are not stated for, each of them a hazard of the code;
`PacketsWhole` needs `closed_twice` and `redialed` because after them two connections may
be read. What is sent and what is received share one bound,
`MaxTraffic`. It is instantiated in `Parts`, for its safety, and in `MCThreads`, for the
end of a connection.

### RedisConnection and ResultSet

A reply is a sequence of characters that arrives in pieces; `Read` is one
read_until with the tokenizer and, at the end, the parser. `broken` becomes TRUE
when a read ends in a blank, or before a blank or a mark: from then on answers
are shifted, which is why the properties stop there. `Representable` excludes the
two kinds of string that tokens cannot carry. `ResultSet` has one cursor for all
iterators; `disturbed` says how others have moved it. A NULL column and an
iterator without rows are a crash or an exception. `begin()` of a result without
`impl_` leaves `row_` uninitialised (`Garbage`), so comparing it with `end()` may say
either.

### ThreadPool, Locks, InitOrder

A worker holds `mutex_` from `Acquire` to `Sleep`, `Take` or `Leave`; its test
of `stop_` and `tasks_` is a step of its own, because the destructor sets `stop_`
without the mutex. The worker that is between test and wait at that moment is
`deaf` and may sleep for ever: `Joins` is stated for destructors that no worker
slept through. `NoLostWakeup` and `TakenOnceInOrder` hold always. In `Locks` a
MultiLock may be copied, and its last copy unlocks. `InitOrder` runs every
function the map has, which may call others, in a circle too, or throw; a
second Init passes over those that failed.

### HttpServer and HttpClient

One pooled link is used by one client after another. A read brings any number of
bytes; the first line end in it is taken as the end of the request line, and what
a read without one brought is dropped. A handler answers once, twice, never, or
later with the session it has kept. `HttpClient` is the state of one curl handle:
which verb, which body and whose body an option points at, after any sequence of
calls.

### TestClient

The timers, the tasks of the pool and the messages of each session are steps. A
notification counts as an answer, as in the code. `Expire` counts sessions as the
code does, from the pool's capacity and what is available in it; the sessions of
closed links never return.

### LogFile

Time is a number, a few of which make a day. A thread takes the time (`when`),
then the mutex, in two steps: between them another thread may have opened the
file of the next day, or SetLevelProperty or ReadXml may have turned the level off. Write
tests it again under the mutex (Logger.h:85) and then writes nothing (`dropped`). Configurations with a missing or a wrong element, and a path
ending in a slash, are among the initial states.

### idlc

`IdlParser` takes a file as lexemes: `Lex` is one of them, `Compile` the grammar,
a recursive operator for each rule, and what each generator writes. A comment is
inserted at every place of every file of the run. `IdlMessages` holds the
messages of the repository as each language's program has them in the generated
files beside the `.idl`. `IdlCodec` says what the generated Store, Load and Size
do with a value of each type: widths, length prefixes, the order of members, what
a reader does with too few bytes and with a duplicate key. A writer and a reader
are any two languages, or any two versions that differ by one member.

### Json, Digest, Base64, WeightRandom

`Json` writes a value with its comments and reads the text again, followed by
what the buffer of a reader holds behind it; `Reader` is one operator for each
member function, and a read result is a tree by paths with the comments that were
attached. `Digest` keeps the arithmetic of `count` and `buffer` with smaller
blocks and words; a transform appends its block to `state`, so that comparing
digests compares which blocks were transformed. `Base64` and `WeightRandom` are
direct.

## Runs

| run | instance | shows |
|---|---|---|
| `link` | an accepted link used twice, 2 calls per sender, a reconnect; an outbound and inbound router link with all failures | the send discipline and the order on the wire, under every failure; for the accepted link one OnClose for each session, nothing left in `_links`, release (liveness) |
| `listener` | 3 links, keep-alive and outbound connections | one accept chain that closes start again; the sweep; no deadlock |
| `session` | 3 connections, 2 sessions, 1 to 3 threads | pointers lead home and, unless a reconnect crossed another handler, agree; a token is good once per thread; abandoned sessions are destroyed |
| `reliable` | 3 connections, 4 numbered packets, failing writes | exactly once and in order up to the three causes; nothing leaves the queue early |
| `router` | 3 pooled sessions, 2 peers and itself, 2 requests | routes lead to links that are up, tables agree, answers fit |
| `parts` | eighteen parts that only need an answer to be right, see below | transactions, replies, rows, curl options, the old client's packets and queue, the load test's counts, idlc, Json, small utilities, buffers, an object pool, initialisers, log files, the handlers of messages |
| `threads` | five parts that must also go on, see below | framing, the ThreadPool, MultiLocks, the Http server, the old client's end (safety and liveness) |
| `link_crash`, `listener_stall`, `session_destroy`, `reliable_lost`, `test_stalls` | violations | see Findings |

What the invariants of `parts` and `threads` stand for: `Exclusive`, `Atomic` and
`CleanInPool` are those of `Transaction`, `Framed` and `EverythingHandled` those of
`PacketReader`. The others join the properties of one module, or of the modules of
one file of hazards, and their comments say of which. `parts` uses two instances of
`InitOrder` (`inits` with two calls from each function, `again` with a second
Init).

### Bounds

`MaxConnections` and `MaxCalls` of `Link` bound uses of the link object and
messages; two messages per sender make the queue reach length four, more than
the one buffer in flight plus one waiting that FlushSend distinguishes, and
taking the object twice is what a leftover needs. One reconnect displaces or takes
off a session; a second one would do the same to the next. In `DetachSession` one queued
AttachSession(NULL) at a time is enough, the second finds no session. Three links
are the fewest for two concurrent closes and an accept. In `TcpSession` a
connection sends one Connect_Req or Reconnect_Req, its first message, so
`MaxToken` = number of connections never blocks a step. Two reconnects of one
session need three connections, and three threads for all of them to be at work
at once. In `ReliableSession` three connections are two
reconnects, so that a packet is written up to three times and an acknowledgement
can be two connections old; four numbers are a request of each connection and a
message, or a message and a heartbeat that overtakes it. `HeartBeatInterval` is 3
instead of 10 to happen at all, and out of reach in `reliable_lost`. TLC follows
no behaviour further once it is spoiled, as the properties say no more of it.
Three router sessions are two links to one server and one to another; the second
request of a user is what a late answer would be mistaken for.

In `threads` a partial packet of four bytes and a full read of six overflow the
buffer, and a read of six can hold three packets. Three workers are one that
waits, one that runs and one between its test and its wait, and three tasks one
for each. Two threads with sets out of three addresses can hold one and want
another each. Two Http connections are enough for a link to be used again with
what the first has left. The old client has two sockets, the old and the new.

In `parts`, two connections for three transactions exhaust the pool and reuse what
one has left behind. Two Redis commands are the least for what one leaves to the
next. Three rows and two iterators with five moves reach the end, pass each other
and go on behind it. Two curl calls are a call and what it finds left. For packing, the old
client's Buffer has 16 instead of 8192 bytes and its length field 5 bits, so
that lengths wrap and packets end at the end of the buffer; for receiving it has room
for a packet of two units, so that a read behind the part of a packet may overflow
it. TLC follows the old client after Close was
called twice only until another of its hazards happens (`UnityGoesOn`); the theorems
have no such limit. One send is taken in part, in behaviours in which the server sends nothing: what is
received does not depend on it. The load test starts
three sessions of a pool of two, with two messages and a notification each. MD5
has blocks of 4 bytes and a length of two words of 6 bits instead of 64 and 32,
pieces up to 9 bytes, so two whole blocks and a rest, and three updates. Base64
is tried on every text of at most four octets out of five, with four endings that
are not of the alphabet. Three registered functions make a chain and a circle,
and each may call two. Log time runs through two days and the start of a third.
Two buffers of 2 bytes, resized to 3 at most, with 4 bytes stored, fill, wrap and
overflow. The pool has a capacity of at most 3, is asked six times and counts in 4 bits. Two
sessions with two clients each, two message numbers, two handlers in the pool and two calls
of BindMessage are enough to bind over a handler, to leave one behind and to run
out of handlers. A packet is two units of the old client's
server, and a connection carries three messages and units together: a packet on each of
two sockets and a message between them, or two messages and a packet that is cut.
The Json values are all arrays and objects of one or two leaves, with comments of
both kinds in every place, and one level more. The `.idl` files have every
statement once; the messages of `IdlMessages` are those of the repository and of
every type of the language.

### Deadlock

Only `listener` can always do something, and checks for it. The other instances
stop when their bounds are used up, when the program of a part has ended, or when
the process has crashed.

### Fairness

The threads of `Gamnet::Run` execute whatever is ready, so queued functions,
aborted operations, expired timers and begun handlers get weak fairness. Clients
and the application get none, and the network only in `PacketReader`, where bytes
that were written are eventually read. In `LinkManager` and `TcpSession` a step may
have to wait for `_lock` or for a thread that becomes free again and again:
strong fairness says that it gets its turn. The timer holds `_lock` for one pass
every five seconds, and a thread runs one short handler after another. For the
same reason a worker that wants `mutex_` (`ThreadPool`) and a thread that wants a
lock others hold for a while (`Locks`) get strong fairness, and weak fairness for
what they do with it. Destructors end, as nothing can stop them but the join. A
use of a Http link ends at the latest when the keep-alive closes it (`Disconnect`). The old client's game calls Update in every
frame, and its callbacks run once the operation has ended; the server has none. In the load test timers expire, posted tasks run and the
server answers. In `MCThreads` and `MCLink` the same formulas are restricted to
the part the behaviour is of: `WF_vars(of = "..." /\ A)`.

## Proofs

* `LinkProofs`: `TypeCorrect` and `WriteDiscipline`, for any number of
  connections and messages and all failures. `OneWriteInFlight` is not
  inductive: FlushSend's callers test only whether `send_buffers` is empty. The
  invariant `IInv` adds that every operation is live (pending or queued) at most
  once, that a link being accepted or connected is not read
  from, and that a live write has its buffer at the front. The last part ties the
  test for emptiness to the absence of a write; the second keeps a
  second read from being started. Lemmas say what appending to and running from the
  strand does to the operations in it; one lemma per action follows.
  `AcceptedClosedOnce` and `AcceptedListedOpen` are for links of Tcp::LinkManager
  whose OnClose does not throw, with all other failures: `AcceptedFirst` says that
  until Callback_Accept has run nobody else knows the link, so a pooled link brings
  neither a session nor an operation along, and `ListedIsManaged` that a link in
  `_links` has a manager, through which OnError takes it out. A Reconnect_Req adds a
  session and takes one away in one step, as `replaced` or as `detached`. `BothClosedOnce` and
  `BothListedOpen` say it of `MCLink`, the accepted and the router link together, as the run
  checks it. `WrittenInCallOrder` is the order on the wire, with all failures.
  `WireInOrder` speaks only of what was written; `OInv` adds where everything else is.
  `pushed`, the calls in the order in which the strand took them, is for each sender
  its calls 1, 2, ... without a gap (`InOrder`, `UpTo`); the calls after them wait in the
  strand in order (`Waiting`); `wire` is a beginning of `pushed` and `send_buffers` an
  end, and between them is nothing, or one buffer while the completion of its
  successful write is still to run (`BuffersInOrder`). That a write takes the front needs
  `WriteDiscipline`.
* `LinkManagerProofs`: `SingleAcceptChain`, for any finite set of links. `IInv`
  says that the chain is one link when the flag is set and empty when not, and
  that a link in `Accept` is neither pooled nor being accepted. The second test
  in OnClose is the step that needs the flag's negation.
  `TimeoutIsOfThisConnection`, `ConnectionsAreListed` and `LockHasItsOwner` are about
  the sweep. `LInv` is `TypeOK`, the two properties, `TaskFitsLink` (a handler runs
  only on a link whose place admits it) and `Sweeping` (what the pass still has to
  visit is in `_links` while the timer owns `_lock`; the link whose OnError it runs
  inline is closing). Nobody else takes a link out of `_links` during the pass, which is
  why the sweep never visits a link of an earlier use.
* `TcpSessionProofs`: `SendsGoHome` and `ClosedIsEmpty`, for any number of
  threads, connections and sessions. `AttachSession` keeps `PointsHome` because
  it clears the pointer of the session it displaces; the second theorem needs in
  addition that a handler runs only on an open link. `PointersStayTogether` and
  `TokensAreSpent` are for any number of threads, too. `Meets` adds to the types and
  to `PointersAgree` that a session a running reconnect has found has a token
  (`FoundHasToken`), that two reconnects have found one session only if it is `crossed`
  (`FoundOnce`), and that between the second step and the third no link has the session
  (`Apart`): the third step would otherwise leave a link behind that still has it. `Spent`
  counts: the uses of the current token are at most as many as the reconnects that have
  found the session and not returned (`Finders`), those of an old one at most `threads`,
  as many as may run at once. `SessionTypes` is `TypeOK`, which is inductive.
* `ReliableSessionProofs`: `ReliableOnce`, that `ReliableSession` implements
  `ReliableQueue`, `NothingIsDropped` and `Types`, for any number of connections and
  numbers and any heartbeat interval, until `spoiled`. Nothing in `ExactlyOnce` is
  inductive: why a server may handle the next number it does not discard depends on what
  all connections still carry. `IInv` is about streams, what the session of a link has
  read and not handled followed by what is on the connection. `Mark` is the last number
  the client's own session has handled. `Gapless` says of each stream whose link has a
  session that every reliable message before a packet is earlier in that stream or not
  above `Mark`; so the packet that OnRecvMsg takes is either discarded or the next of
  `sent` (`PrefixOK`). A new stream begins with one Connect_Req or Reconnect_Req
  (`FreshOK`), and behind a Reconnect_Req the queue is written in its order
  (`QueueOrder`, `WrittenOK`). `AcksOK` says that no acknowledgement, on its way or
  read, is above `Mark`, so what RemoveSentPacket takes has been handled, and `QueuedOK`
  that everything above it is in the queue. A step that hands recv_packet to another
  session (Tcp/LinkManager.h:207) gives the packets read behind the Reconnect_Req to the
  client's session: `UsedOK` and `OwnPlain` say that what it holds then is none that
  starts a session. `n` in `Good(n)` is the number of the client's Connect_Req. The
  refinement follows step by step: Send is a number under the lock, Handle is the step
  that moves `Mark`, everything else is a stutter.
* `PacketReaderProofs`: `PacketsAreFramed` and `BufferTypes`, for any header size, buffer size and
  number of packets. `Framed` alone says nothing of bytes that wait in the
  buffer. `IInv` adds that sent packets are adjacent and their starts ordered,
  that the read cursor is 0 between rounds of the loop, and that `data[0]`
  onwards holds the stream from the first byte not handled up to what was
  delivered. So the length field is read from the header of the next
  packet (`NextPacket`): the first byte identifies it. `BufferTypes` adds that no
  buffer and no handled packet has a byte that was not sent.
* `TransactionProofs`: `NobodyShares`, `AllOrNothing`, `PoolIsClean` and
  `TypesAreKept`, for any finite sets of transactions and connections, any size of
  the pool and any number of statements. `IInv` is `Holds` and `Serves`. `Holds`
  ties what the client has: a transaction and its ResultSets have the same
  connection (`SameConnection`), `cur_size_` counts at least the connections that
  exist (`Counted`), which is what makes the factory's choice one that nobody
  has, and only some stages hold a connection (`StageHolds`). `Serves` ties it to
  the server: a session without an open transaction has no work
  (`NoWorkUnopened`), a connection has an open transaction only if its holder has
  begun it (`ClosedOf`), and the work of an open transaction is what its owner has
  executed, unless it is lost and then never committed (`OpenOf`). Without the last
  part Commit could not be shown to apply the whole. The lemmas `HandlesShrink`, `HandlesGrow`,
  `OthersKeep`, `KeepsConnection` and `LetsConnectionGo` say what the end of a
  shared_ptr does; each action is a lemma.
* `RouterProofs`: `RoutesAreUp`, `TablesAlwaysAgree` and `RouterTypes`, for any
  finite sets of servers, sessions, users and any number of requests. `IInv`
  is the types, the two properties and `Placed`: a session that is not free has
  another end, and one that has answered SetAddress_Req has the address of that
  end, which it registers later without looking at the message again. Lemmas on
  sequences without repetition say what erasing one element and appending one do
  to the set of members (`ErasedFacts`, `AppendFacts`); `Unregisters` and
  `Registers` are the effect on all three tables, and `OneOfEach` shows that
  `remove_if` finds exactly one session there, so the crash of
  RouterCaster.cpp:109 cannot happen. `AnswersAreOwn` is `OwnAnswer`, under the
  same premise `OneAtATime` as the run: `HandlerFits` says that the handler bound
  to a number is that of every request with that number whose answer may still
  come, `Numbered` that no live request has the next number, and `OnlyLinksWait`
  that a session of the pool waits for nothing.
* `PartsProofs`, of `ThreadPool`: `OneHolds`, `TakenInOrder` and `NoWakeupIsLost`, and
  `TasksAreTaken`, which is `TasksGoOn` with all of them, for any number of tasks. `PoolIInv` is the types, `TestHolds`
  and `TakenOnceInOrder`; `NoLostWakeup` counts `Attentive` workers on both sides of
  a step, for a finite set of workers: a notification makes a waiting worker one of
  them, and a worker that takes a task leaves one task and one of them less.
* `PartsProofs`, of the parts in `Parts`, each from its own initial states and with
  any values of the constants:
  * `ObjectsStayInPlace`: `EachInOnePlace` adds to `PoolAccounts` that the list has
    no object twice and none that is out. For `Dispatch`, `WaitsWhereBound` says that
    what waits in a container was bound in this session, to this number, and after
    everything that was found there: that is why a binding is found once and later
    ones later. That two sessions do not share a handler needs only that Create
    takes one nobody holds (`HoldsStay`).
  * `LoadCounts`: `TestsInTurn` (a session that is not connected has done nothing)
    and `RoomToStart` (while the timer or its loop may start a session not enough
    were started). `CountsAgree` moves one session from one side of a cardinality to
    the other.
  * `LinesStayLogged`: a line that Write took waits, is in a file, was refused or was
    `dropped`; `NamedByDay`, that the open file is of the day of the last line,
    and that the set of lines is finite, which counting them needs.
  * `CallsSendTheirOwn`: `SentByOptions` (a request is what the options on the
    handle say), `OneVerbOptions` (what calls with one verb never set),
    `LastCallOptions` (what the last call has set) and `ToldInOrder` with
    `ChunksInOrder` for the data.
  * `MessagesGoInOrder`: until Close is called twice or a thread of the pool reconnects
    (`Calm`), `OneAtATime` says that of
    connects, connections and ends one is under way, counting the callbacks that have
    not run and the events that Update has not seen; `MessagesInTurn` that what waits
    in `sendQueue` is later than what was posted. What is
    left of a message is a number below 0 (`RestsBelow`): it has no place in the order, and
    may wait in the queue of a connection.
  * `PacketsStayWhole`: `PacketsInv` says that there is a sequence `R`, all the units
    that were read, and a position `at` of each event in it, such that the handled
    packets, `recvBuffer` and the buffers of the events are consecutive pieces of
    `R` (`Stream`), the units of a connection follow each other in `R` and
    connections too (`Ordered`), and the next unit to be read belongs behind the
    last (`NextFits`). `R` is not a variable: each step that reads gives a longer
    one. The invariant ends with the first read that has no room and the first handler
    that leaves its body (`torn`). `Traffic` says which sockets may still be read.

The invariants `OInv` and `IInv` of `ReliableSessionProofs` were checked by TLC on
the instances of the runs `link` and `reliable` before they were proved, and `PacketsInv` on
that of `parts`, with `R` computed from the variables. The
assumptions are the named ASSUMEs of the modules.

Only model-checked: liveness (out of TLAPS's reach), the violations, and six
invariants. `RepliesAreRead`, `GeneratedCodeAgrees`, `CommentsAreComments` and
`UtilitiesCompute` are about what recursive operators or loops compute of every input,
which needs induction over data; `InitsInOrder` has a recursive definition of what is
reached. `HttpAnswers` reaches the recursive parser of parameters in `HttpServer`,
which takes its safety out of the prover's reach too.

## Findings

* `link_crash`: `Link::AsyncRead` (Link.cpp:117) uses `manager` without a test. A
  keep-alive OnError dispatched while a read completion waits in the strand
  clears it.
* `listener_stall`: OnClose (LinkManager.cpp:99-113) cannot count the closing
  link as available; if the last links close together, or one returns its link
  between the Create that found none and the store to `_is_acceptable` (57-62),
  the server never accepts again. The trace ends in accepts that fail; clients
  that leave do the same. With a capacity of one this happens after the first client.
* `session_destroy`: the idle timer (Session.cpp:95) destroys a session between
  the moment a reconnect finds it and the moment it is attached.
* `reliable_lost`: Callback_Reconnect (Session.cs:295) sends again a
  Reconnect_Req that an earlier connection has left in the queue. The server
  refuses its stale token after the good one was accepted on the same link, and
  its number makes the server discard the reliable messages that follow.
* `test_stalls`: Test::LinkManager::OnClose (Test/LinkManager.h:157) does not take
  the session off the link, so it never returns to its pool, and the number in
  use never falls. A test with a `loop_count` above `session_count` never reports
  that it has finished.

The models show more that no text of the repository speaks about. The list
`hazards` of PROJECT.json has what the properties are about; what follows was met
besides, in the order of the modules.

* Links and sessions: a link connected with a timeout never returns to its pool
  (Link.cpp:75). An exception between async_accept and AsyncRead leaves a pooled
  link with an open socket (LinkManager.cpp:83), and a Connect that throws leaves
  a router's link in `_links` (Router/LinkManager.cpp:66). Two large packets
  overflow recv_packet (Tcp/LinkManager.h:78). A lost Reconnect_Ans leaves the
  client with an old token, and the session that OnAccept made for the connection of a
  reconnect gets no OnClose (Tcp/LinkManager.h:209). A failed factory shrinks its
  pool for ever (Pool.h:124).
* Client: a stale acknowledgement moves the queue index to -1 (Session.cs:510), a
  number is taken without the lock (446), an exception of BeginSend loses the
  copy of the queue (298).
* Router: a link that is up can be without a route (RouterHandler.cpp:105), an
  answer for a user that has left uses a NULL link (Router/Dispatcher.h:72).
* Old Unity client: a first connect that fails stays OnConnecting; a reset is
  never noticed; a stale callback closes the new connection; Close twice posts two
  CloseEvents; ConnectEvent clears the queue; a message sent between the death of
  a connection and its CloseEvent is lost; recvBuffer is not cleared; a read that
  has no room behind it is lost (Buffer.cs:112); an
  unknown message stops the reading; a handler that throws leaves its body; the rest of a
  partly sent message is sent as a whole array of 8192 bytes (Session.cs:278), on a
  thread of the pool, which may reconnect beside the game's, and a ReconnectEvent that
  this thread meets never ends (49); UnsetTimeout does not stop its timer
  (StreamSession.cs:63).
* Databases: a failed rollback ends the process (Transaction.cpp:48). A Redis reply
  cut at a wrong place shifts the answers of all later calls
  (Redis/Connection.cpp:88-95), an empty or blank string cannot be read, and the
  deadline is never armed. begin() of an UPDATE's result dereferences NULL
  (ResultSet.cpp:91), a first row with a NULL first column looks empty (93), a
  NULL column ends in std::string(NULL) (169), a negative number wraps in an
  unsigned getter (174). begin() of a ResultSet without a result does not initialise
  `row_` (87), so a loop over it may enter.
* Dispatch: a Session that is used again keeps the handlers of the client before
  (Session.h:20), which the next client's messages find.
* Http: a request line that is cut is lost or finds another handler
  (Http/LinkManager.cpp:19); an escaped "&" is unescaped before the split
  (Request.cpp:24); a parameter without "=" swallows the next; the response may be cut
  by the close behind it (Http/LinkManager.cpp:60); mapErrorCode[] is used by several threads
  (Response.cpp:33). On the client, POSTFIELDS points at a body that is gone,
  `resData_` is never cleared, a 304 is tried for ever (HttpClient.cpp:333), and a
  chunk is appended as a C string (359).
* Library: `stop_` is set without the mutex, so the destructor of a ThreadPool may
  never join (ThreadPool.h:113), and tasks in its queue are dropped. CallInitFunc
  marks a function before it runs it (Singleton.h:66), so a circle gets one that
  is not set up. A refused weight stays in the sum (Random.h:59).
* Log: a failing Init leaves `Property_` set (Logger.cpp:33); a path that ends in a
  slash loses its lines (28-30); rotations within a second share a file; a
  `max_file_size` of 2048 or more overflows an int; ReadXml knows no "wrn"
  element (Log.cpp:33-44).
* idlc: Python cannot load a map inside another type nor store a static array
  outside a message; the C++ load of a static array of numbers does not test the
  length (generate_rule_cpp.cpp:229); a loaded list is appended to; the C# of a
  static array of strings, the C++ of a typedef of a static array, and the C# of a
  typedef of a typedef (members 7 and 8 of `IdlExample` in `IdlMessages`: a `using` alias does not see
  the other aliases of its namespace) do not compile; a message number that is no decimal number becomes 0; an
  unterminated comment drops the rest of the file silently.
* Json: a comment behind a value on its line that ends in a blank swallows the
  next member (jsoncpp.cpp:4566); a comment in an empty array is an error; of two
  comments on a line only the last is kept; names are cut at NUL.
* Load test: tasks that wait are not counted as in use; a notification counts as
  an answer; `execute_count` counts starts that found no session.

## Plan

1. Core with proofs, sessions, router, transactions (done).
2. The old client, Redis, MySQL results, ThreadPool, locks, initialisers, Http, load
   test, log, idlc, Json, buffers, pool, dispatch and the utilities; the proofs of
   `Transaction`, `Router`, `ReliableSession`, `ThreadPool` and of the parts (done).
3. Left: two servers with a `Router` each instead of one with its environment; the
   client's recovery after a lost Reconnect_Ans; `Channel`, an abstract ordered
   channel that opens and closes, implemented by `Link`, with queue and delivered
   messages as functions of `pushed` and `wire`.
4. Every safety property of the runs `link`, `listener`, `session`, `reliable` and
   `router` is proved, and of `parts` and `threads` all but six. Proofs left: `Locks`, the
   part of `HttpServer` that does not parse, `ResultSet` and the refinement of `Channel`.

## Not modelled

String, Exception and Atomic have no protocol: they format, carry and wrap. Of
Json the StyledStreamWriter, Path and the accessors of Value, and numbers beyond
their literal; of MD5 the round function, which `Digest` leaves uninterpreted; of
Random the library's distributions; of idlc the layout of the generated text and
the tables that bison and flex generate. Contents of messages, addresses, log
output and the values of keys are abstracted everywhere. TimeoutMonitor of both
Unity clients closes a session whose answer is late, which the models allow at any
time. `Link::SyncSend` writes outside the strand and is called only by
Session::SyncSend, which the framework does not use. `Resize`, `Copy` and `Swap` of
Packet are on no path of the framework. Conversions of MySQL columns to floating
point are left out. A message whose packet would be longer than 65535 bytes,
whose length field Packet::Write truncates, is not sent in `PacketReader`. That
`uint32_t` link keys truncate a 64-bit counter is noted here only: it needs 2^32
connections.
