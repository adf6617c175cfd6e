----------------------------- MODULE LinkProofs -----------------------------
(***************************************************************************)
(* Proofs about Link: type correctness, with at most one operation of each *)
(* kind outstanding, and the discipline of FlushSend, for any number of    *)
(* connections, messages and failures.  The second part is about links of  *)
(* Tcp::LinkManager: one OnClose for each session, no closed link listed.  *)
(* The third is the order of what is written to the socket.                *)
(***************************************************************************)
EXTENDS MCLink, TLAPS

In(op, queue) == \E i \in DOMAIN queue : queue[i].op = op
Unique(op, queue) ==
    \A i, j \in DOMAIN queue : queue[i].op = op /\ queue[j].op = op => i = j

\* An operation is live from its start to the run of its completion handler.
Live(op) == pending[op] = 1 \/ In(op, strand)

\* Of each operation at most one is live, pending or queued but not both.
OneOfEach ==
    \A op \in Operations :
        /\ Unique(op, strand)
        /\ In(op, strand) => pending[op] = 0

\* While a link is being accepted or connected nothing reads from it.
StartsAlone ==
    /\ Live("accept") => ~Live("connect") /\ ~Live("read")
    /\ Live("connect") => ~Live("read")

\* The buffer of a live write is the front of send_buffers.
WriteHasBuffer == Live("write") => send_buffers # <<>>

IInv == TypeOK /\ OneOfEach /\ StartsAlone /\ WriteHasBuffer

-----------------------------------------------------------------------------
\* What the strand holds after a function is queued or run.

\* Queueing a function adds its operation and no other.
LEMMA QueuedFunction ==
    ASSUME NEW q \in Seq(FunctionRecord), NEW f \in FunctionRecord, NEW op,
           Unique(op, q)
    PROVE  /\ Append(q, f) \in Seq(FunctionRecord)
           /\ In(op, Append(q, f)) <=> In(op, q) \/ f.op = op
           /\ (f.op = op => ~In(op, q)) => Unique(op, Append(q, f))
<1>1. /\ Append(q, f) \in Seq(FunctionRecord)
      /\ Len(Append(q, f)) = Len(q) + 1
      /\ DOMAIN Append(q, f) = 1..(Len(q) + 1)
      /\ DOMAIN q = 1..Len(q)
      /\ Len(q) \in Nat
      /\ \A i \in 1..Len(q) : Append(q, f)[i] = q[i]
      /\ Append(q, f)[Len(q) + 1] = f
  OBVIOUS
<1>2. In(op, Append(q, f)) <=> In(op, q) \/ f.op = op
  BY <1>1 DEF In
<1>3. (f.op = op => ~In(op, q)) => Unique(op, Append(q, f))
  <2> SUFFICES ASSUME f.op = op => ~In(op, q),
                      NEW i \in 1..(Len(q) + 1), NEW j \in 1..(Len(q) + 1),
                      Append(q, f)[i].op = op, Append(q, f)[j].op = op
               PROVE  i = j
    BY <1>1 DEF Unique
  <2>1. CASE f.op = op
    BY <2>1, <1>1 DEF In
  <2>2. CASE f.op # op
    BY <2>2, <1>1 DEF Unique
  <2>3. QED
    BY <2>1, <2>2
<1>4. QED
  BY <1>1, <1>2, <1>3

\* Running the head takes its operation out of the strand and no other.
LEMMA RunFunction ==
    ASSUME NEW q \in Seq(FunctionRecord), q # <<>>, NEW op, Unique(op, q)
    PROVE  /\ Head(q) \in FunctionRecord
           /\ Tail(q) \in Seq(FunctionRecord)
           /\ Unique(op, Tail(q))
           /\ Head(q).op = op => In(op, q) /\ ~In(op, Tail(q))
           /\ Head(q).op # op => (In(op, Tail(q)) <=> In(op, q))
<1>1. /\ Tail(q) \in Seq(FunctionRecord)
      /\ Head(q) = q[1]
      /\ DOMAIN q = 1..Len(q)
      /\ Len(q) \in Nat /\ Len(q) >= 1
      /\ DOMAIN Tail(q) = 1..(Len(q) - 1)
      /\ \A i \in 1..(Len(q) - 1) : Tail(q)[i] = q[i + 1]
      /\ \A i \in 1..Len(q) : q[i] \in FunctionRecord
  OBVIOUS
<1>2. Unique(op, Tail(q))
  <2> SUFFICES ASSUME NEW i \in 1..(Len(q) - 1), NEW j \in 1..(Len(q) - 1),
                      Tail(q)[i].op = op, Tail(q)[j].op = op
               PROVE  i = j
    BY <1>1 DEF Unique
  <2>1. q[i + 1].op = op /\ q[j + 1].op = op /\ i + 1 \in 1..Len(q) /\ j + 1 \in 1..Len(q)
    BY <1>1
  <2>2. i + 1 = j + 1
    BY <2>1, <1>1 DEF Unique
  <2>3. QED
    BY <2>2
<1>3. Head(q).op = op => In(op, q) /\ ~In(op, Tail(q))
  <2> SUFFICES ASSUME q[1].op = op
               PROVE  In(op, q) /\ ~In(op, Tail(q))
    BY <1>1
  <2>1. In(op, q)
    BY <1>1 DEF In
  <2>2. ASSUME NEW i \in 1..(Len(q) - 1), Tail(q)[i].op = op
        PROVE  FALSE
    <3>1. q[i + 1].op = op /\ i + 1 \in 1..Len(q) /\ 1 \in 1..Len(q) /\ i + 1 # 1
      BY <2>2, <1>1
    <3>2. QED
      BY <3>1, <1>1 DEF Unique
  <2>3. QED
    BY <2>1, <2>2, <1>1 DEF In
<1>4. Head(q).op # op => (In(op, Tail(q)) <=> In(op, q))
  <2> SUFFICES ASSUME q[1].op # op
               PROVE  In(op, Tail(q)) <=> In(op, q)
    BY <1>1
  <2>1. ASSUME NEW i \in 1..Len(q), q[i].op = op
        PROVE  i - 1 \in 1..(Len(q) - 1) /\ Tail(q)[i - 1].op = op
    <3>1. i # 1
      BY <2>1
    <3>2. i - 1 \in 1..(Len(q) - 1)
      BY <3>1, <1>1
    <3>3. Tail(q)[i - 1] = q[(i - 1) + 1]
      BY <3>2, <1>1
    <3>4. QED
      BY <3>2, <3>3, <2>1
  <2>2. ASSUME NEW i \in 1..(Len(q) - 1), Tail(q)[i].op = op
        PROVE  i + 1 \in 1..Len(q) /\ q[i + 1].op = op
    BY <2>2, <1>1
  <2>3. QED
    BY <2>1, <2>2, <1>1 DEF In
<1>5. QED
  BY <1>1, <1>2, <1>3, <1>4

-----------------------------------------------------------------------------
\* The inductive step, action by action.

\* A completion moves a live operation from pending to the strand.
LEMMA CompletedStep ==
    ASSUME IInv, NEW op \in Operations, NEW ok \in BOOLEAN, Completed(op, ok)
    PROVE  /\ strand' \in Seq(FunctionRecord)
           /\ pending' \in [Operations -> {0, 1}]
           /\ OneOfEach' /\ StartsAlone' /\ WriteHasBuffer'
<1>1. /\ strand \in Seq(FunctionRecord)
      /\ Function(op, ok) \in FunctionRecord
      /\ Function(op, ok).op = op
      /\ strand' = Append(strand, Function(op, ok))
      /\ pending[op] = 1
      /\ pending \in [Operations -> {0, 1}]
      /\ pending' = [pending EXCEPT ![op] = 0]
      /\ send_buffers' = send_buffers
  <2>1. /\ Function(op, ok) \in FunctionRecord
        /\ Function(op, ok).op = op
    BY DEF FunctionRecord, Function, Functions, Operations
  <2>2. strand \in Seq(FunctionRecord) /\ pending \in [Operations -> {0, 1}]
    BY DEF IInv, TypeOK
  <2>3. QED
    BY <2>1, <2>2 DEF Completed, sendVars
<1>2. \A o \in Operations :
         /\ Unique(o, strand')
         /\ In(o, strand') <=> In(o, strand) \/ o = op
  <2> SUFFICES ASSUME NEW o \in Operations
               PROVE  /\ Unique(o, strand')
                      /\ In(o, strand') <=> In(o, strand) \/ o = op
    OBVIOUS
  <2>1. Unique(o, strand) /\ (In(o, strand) => pending[o] = 0)
    BY DEF IInv, OneOfEach
  <2>2. QED
    BY <1>1, <2>1, QueuedFunction
<1>3. \A o \in Operations : (pending[o] = 1 \/ In(o, strand)) <=> (pending'[o] = 1 \/ In(o, strand'))
  BY <1>1, <1>2
<1>4. \A o \in Operations : In(o, strand') => pending'[o] = 0
  BY <1>1, <1>2 DEF IInv, OneOfEach
<1>5. QED
  BY <1>1, <1>2, <1>3, <1>4
     DEF IInv, OneOfEach, StartsAlone, WriteHasBuffer, Live, Operations

\* A function from outside completes nothing.
LEMMA DispatchStep ==
    ASSUME IInv, NEW f \in FunctionRecord, f.op \notin Operations, Dispatch(f)
    PROVE  /\ strand' \in Seq(FunctionRecord)
           /\ OneOfEach' /\ StartsAlone' /\ WriteHasBuffer'
<1>1. /\ strand \in Seq(FunctionRecord)
      /\ strand' = Append(strand, f)
      /\ pending' = pending
      /\ send_buffers' = send_buffers
  BY DEF Dispatch, IInv, TypeOK, FunctionRecord
<1>2. \A o \in Operations :
         Unique(o, strand') /\ (In(o, strand') <=> In(o, strand))
  BY <1>1, QueuedFunction DEF IInv, OneOfEach
<1>3. QED
  BY <1>1, <1>2 DEF IInv, OneOfEach, StartsAlone, WriteHasBuffer, Live, Operations

\* A handler that runs leaves the strand; the operation it completes is live
\* no more.
LEMMA RunStep ==
    ASSUME IInv, NEW op \in Functions, Run(op)
    PROVE  /\ Head(strand) \in FunctionRecord
           /\ strand' \in Seq(FunctionRecord)
           /\ \A o \in Operations : Unique(o, strand')
           /\ op \in Operations =>
                 pending[op] = 0 /\ In(op, strand) /\ ~In(op, strand')
           /\ \A o \in Operations \ {op} : In(o, strand') <=> In(o, strand)
<1>1. /\ strand \in Seq(FunctionRecord) /\ strand # <<>>
      /\ strand' = Tail(strand)
      /\ Head(strand).op = op
  BY DEF Run, IInv, TypeOK, FunctionRecord
<1>2. \A o \in Operations : Unique(o, strand) /\ (In(o, strand) => pending[o] = 0)
  BY DEF IInv, OneOfEach
<1>3. QED
  BY <1>1, <1>2, RunFunction

\* OnError keeps the types of what it assigns.
LEMMA OnErrorTypes ==
    ASSUME TypeOK, NEW attached \in BOOLEAN, OnErrorOf(attached)
    PROVE  /\ socket' \in {"closed", "connecting", "open"}
           /\ manager' \in BOOLEAN /\ session' \in BOOLEAN
           /\ registered' \in BOOLEAN /\ closed' \in Nat
<1>1. socket' \in {"closed", "connecting", "open"}
  BY DEF TypeOK, OnErrorOf
<1>2. manager' \in BOOLEAN /\ session' \in BOOLEAN /\ registered' \in BOOLEAN
  BY Zenon DEF TypeOK, OnErrorOf
<1>3. closed' \in Nat
  <2>1. closed \in Nat /\ closed' \in {closed, closed + 1}
    BY Zenon DEF TypeOK, OnErrorOf
  <2>2. QED
    BY <2>1
<1>4. QED
  BY <1>1, <1>2, <1>3

\* Nothing is live in a link the pool can hand out.
LEMMA FreeIsIdle ==
    ASSUME TypeOK, Free
    PROVE  strand = <<>> /\ \A op \in Operations : pending[op] = 0 /\ ~In(op, strand)
BY DEF TypeOK, Free, In

\* The strengthened invariant holds initially and every action keeps it.
LEMMA IInvInit ==
    ASSUME Init
    PROVE  IInv
<1>1. TypeOK
  <2>1. /\ manager \in BOOLEAN /\ session \in BOOLEAN /\ registered \in BOOLEAN
        /\ timer_entry \in BOOLEAN /\ crashed \in BOOLEAN
    BY Zenon DEF Init
  <2>2. /\ send_buffers \in Seq(Message) /\ pushed \in Seq(Message)
        /\ wire \in Seq(Message)
        /\ strand \in Seq(FunctionRecord)
    BY DEF Init
  <2>3. /\ socket \in {"closed", "connecting", "open"}
        /\ pending \in [Operations -> {0, 1}]
        /\ calls \in [Senders -> Nat]
    BY DEF Init
  <2>4. connection \in 0..MaxConnections
    <3>1. MaxConnections \in Nat
      BY LinkAssumption DEF LinkAssumption
    <3>2. connection = 0
      BY DEF Init
    <3>3. QED
      BY <3>1, <3>2
  <2>5. opened \in Nat /\ closed \in Nat /\ detached \in Nat /\ replaced \in Nat
    BY DEF Init
  <2>6. QED
    BY <2>1, <2>2, <2>3, <2>4, <2>5 DEF TypeOK
<1>2. \A op : ~In(op, strand) /\ Unique(op, strand)
  <2>1. strand = <<>> /\ DOMAIN strand = {}
    BY DEF Init
  <2>2. QED
    BY <2>1 DEF In, Unique
<1>3. \A op \in Operations : ~Live(op)
  BY <1>2 DEF Init, Live
<1>4. QED
  BY <1>1, <1>2, <1>3
     DEF IInv, OneOfEach, StartsAlone, WriteHasBuffer, Operations

\* The numbers in a message are natural.
LEMMA CountsAreNat ==
    ASSUME IInv
    PROVE  connection \in Nat /\ calls["app"] \in Nat /\ calls["handler"] \in Nat
<1>1. MaxConnections \in Nat
  BY LinkAssumption DEF LinkAssumption
<1>2. connection \in 0..MaxConnections /\ calls \in [Senders -> Nat]
  BY DEF IInv, TypeOK
<1>3. connection \in Nat
  BY <1>1, <1>2
<1>4. QED
  BY <1>2, <1>3 DEF Senders

LEMMA StartStep ==
    ASSUME IInv, Accept \/ Connect
    PROVE  IInv'
<1>1. /\ strand = <<>> /\ strand' = strand
      /\ \A op \in Operations : pending[op] = 0 /\ ~In(op, strand)
      /\ connection' \in 0..MaxConnections
      /\ send_buffers' = <<>> /\ pushed' = <<>> /\ wire' = <<>>
      /\ calls' = [s \in Senders |-> 0]
      /\ crashed' = crashed
  <2>1. Free /\ strand' = strand /\ crashed' = crashed /\ Create
    BY DEF Accept, Connect, Create
  <2>2. connection' \in 0..MaxConnections
    <3>1. connection' = connection + 1 /\ connection < MaxConnections
      BY <2>1 DEF Create
    <3>2. connection \in 0..MaxConnections /\ MaxConnections \in Nat
      BY LinkAssumption DEF IInv, TypeOK, LinkAssumption
    <3>3. QED
      BY <3>1, <3>2
  <2>3. QED
    BY <2>1, <2>2, FreeIsIdle DEF IInv, Create
<1>2. /\ pending' \in [Operations -> {0, 1}]
      /\ \A op \in Operations : pending'[op] = 1 => op \in {"accept", "connect", "timer"}
      /\ pending'["accept"] = 1 => pending'["connect"] = 0
  <2>1. CASE Accept
    BY <2>1, <1>1 DEF Accept, IInv, TypeOK, Operations
  <2>2. CASE Connect
    <3>1. PICK t \in {0, 1} : pending' = [pending EXCEPT !["connect"] = 1, !["timer"] = t]
                               \/ pending' = pending
      BY <2>2 DEF Connect
    <3>2. QED
      BY <3>1, <1>1 DEF IInv, TypeOK, Operations
  <2>3. QED
    BY <2>1, <2>2
<1>3. /\ socket' \in {"closed", "connecting", "open"}
      /\ opened' \in Nat /\ closed' \in Nat /\ detached' \in Nat /\ replaced' \in Nat
  <2>1. socket' \in {socket, "connecting"}
    BY Zenon DEF Accept, Connect
  <2>2. opened' \in {0, 1} /\ closed' = 0 /\ detached' = 0 /\ replaced' = 0
    BY Zenon DEF Accept, Connect
  <2>3. QED
    BY <2>1, <2>2 DEF IInv, TypeOK
<1>4. /\ manager' \in BOOLEAN /\ session' \in BOOLEAN /\ registered' \in BOOLEAN
      /\ timer_entry' \in BOOLEAN /\ crashed' \in BOOLEAN
  <2>1. TimeoutSet \subseteq BOOLEAN
    BY LinkAssumption DEF LinkAssumption
  <2>2. QED
    BY <2>1, Zenon DEF Accept, Connect, IInv, TypeOK
<1>5. TypeOK'
  BY <1>1, <1>2, <1>3, <1>4 DEF IInv, TypeOK
<1>6. \A op \in Operations : ~In(op, strand') /\ Unique(op, strand')
  BY <1>1 DEF IInv, OneOfEach
<1>7. QED
  BY <1>2, <1>5, <1>6
     DEF IInv, OneOfEach, StartsAlone, WriteHasBuffer, Live, Operations

LEMMA CompletionStep ==
    ASSUME IInv, AcceptCompletes \/ ConnectCompletes \/ ReadCompletes
                 \/ WriteCompletes \/ TimerExpires \/ Aborts
    PROVE  IInv'
<1>1. PICK op \in Operations, ok \in BOOLEAN :
         /\ Completed(op, ok)
         /\ socket' \in {"open", socket}
         /\ \/ wire' = wire
            \/ op = "write" /\ wire' = Append(wire, Head(send_buffers))
  BY DEF AcceptCompletes, ConnectCompletes, ReadCompletes, WriteCompletes,
         TimerExpires, Aborts, Abort, Operations
<1>2. /\ strand' \in Seq(FunctionRecord)
      /\ pending' \in [Operations -> {0, 1}]
      /\ OneOfEach' /\ StartsAlone' /\ WriteHasBuffer'
  BY <1>1, CompletedStep
<1>3. wire' \in Seq(Message)
  <2>1. CASE wire' = wire
    BY <2>1 DEF IInv, TypeOK
  <2>2. CASE op = "write" /\ wire' = Append(wire, Head(send_buffers))
    <3>1. send_buffers # <<>>
      BY <2>2, <1>1 DEF IInv, WriteHasBuffer, Live, Completed
    <3>2. send_buffers \in Seq(Message) /\ wire \in Seq(Message)
      BY DEF IInv, TypeOK
    <3>3. Head(send_buffers) \in Message
      BY <3>1, <3>2
    <3>4. QED
      BY <2>2, <3>2, <3>3
  <2>3. QED
    BY <1>1, <2>1, <2>2
<1>4. socket' \in {"closed", "connecting", "open"}
  BY <1>1 DEF IInv, TypeOK
<1>5. UNCHANGED <<manager, session, registered, timer_entry, send_buffers,
                  calls, pushed, opened, closed, detached, replaced, crashed, connection>>
  BY <1>1 DEF Completed, sendVars, countVars
<1>6. TypeOK'
  BY <1>2, <1>3, <1>4, <1>5 DEF IInv, TypeOK, FunctionRecord
<1>7. QED
  BY <1>2, <1>6 DEF IInv

LEMMA OutsideStep ==
    ASSUME IInv, AsyncSend \/ KeepAlive \/ DetachSession
    PROVE  IInv'
<1>1. PICK f \in FunctionRecord : f.op \notin Operations /\ Dispatch(f)
  <2>1. CASE AsyncSend
    <3> DEFINE f == [op |-> "send", ok |-> TRUE,
                     message |-> [from |-> "app", number |-> calls["app"] + 1,
                                  connection |-> connection]]
    <3>1. calls["app"] \in Nat /\ connection \in Nat
      BY CountsAreNat
    <3>2. f \in FunctionRecord /\ f.op \notin Operations
      BY <3>1 DEF FunctionRecord, Operations, Message, Senders
    <3>3. Dispatch(f)
      BY <2>1 DEF AsyncSend
    <3>4. QED
      BY <3>2, <3>3
  <2>2. ASSUME NEW op \in {"keepalive", "detach"}, Dispatch(Function(op, TRUE))
        PROVE  \E f \in FunctionRecord : f.op \notin Operations /\ Dispatch(f)
    <3>1. Function(op, TRUE) \in FunctionRecord /\ Function(op, TRUE).op \notin Operations
      BY DEF Function, FunctionRecord, Functions, Operations
    <3>2. QED
      BY <3>1, <2>2
  <2>3. QED
    BY <2>1, <2>2 DEF KeepAlive, DetachSession
<1>2. /\ strand' \in Seq(FunctionRecord)
      /\ OneOfEach' /\ StartsAlone' /\ WriteHasBuffer'
  BY <1>1, DispatchStep
<1>3. UNCHANGED <<socket, manager, session, timer_entry, send_buffers, pushed,
                  pending, opened, closed, detached, replaced, crashed, connection, wire>>
  BY <1>1 DEF Dispatch, countVars
<1>4. calls' \in [Senders -> Nat]
  <2>1. \/ calls' = calls
        \/ calls' = [calls EXCEPT !["app"] = @ + 1]
    BY Zenon DEF AsyncSend, KeepAlive, DetachSession
  <2>2. calls \in [Senders -> Nat] /\ calls["app"] + 1 \in Nat
    BY CountsAreNat DEF IInv, TypeOK
  <2>3. QED
    BY <2>1, <2>2
<1>5. registered' \in BOOLEAN
  BY Zenon DEF AsyncSend, KeepAlive, DetachSession, IInv, TypeOK
<1>6. TypeOK'
  BY <1>2, <1>3, <1>4, <1>5 DEF IInv, TypeOK, FunctionRecord
<1>7. QED
  BY <1>2, <1>6 DEF IInv

-----------------------------------------------------------------------------
\* The handlers that run in the strand.

\* What a handler may start: a read after an accept, a connect or a read; a
\* write when none is queued.
Starts(op, o) == \/ o = "read" /\ op \in {"accept", "connect", "read"}
                 \/ o = "write" /\ ~In("write", strand')

\* A handler that starts no more than that keeps the live operations apart.
LEMMA RunLive ==
    ASSUME IInv, NEW op \in Functions, Run(op),
           pending' \in [Operations -> {0, 1}],
           \A o \in Operations : pending'[o] = 1 => pending[o] = 1 \/ Starts(op, o)
    PROVE  /\ OneOfEach' /\ StartsAlone'
           /\ pending'["write"] = 0 => (Live("write")' => Live("write"))
<1>1. /\ \A o \in Operations : Unique(o, strand')
      /\ op \in Operations =>
            pending[op] = 0 /\ In(op, strand) /\ ~In(op, strand')
      /\ \A o \in Operations \ {op} : In(o, strand') <=> In(o, strand)
  BY RunStep
<1>2. \A o \in Operations : In(o, strand) => pending[o] = 0
  BY DEF IInv, OneOfEach
<1>3. op \in {"accept", "connect", "read"} => ~In("read", strand')
  <2>1. op \in {"accept", "connect"} => ~In("read", strand)
    BY <1>1 DEF IInv, StartsAlone, Live, Operations
  <2>2. QED
    BY <2>1, <1>1 DEF Operations
<1>4. \A o \in Operations : In(o, strand') => pending'[o] = 0
  <2> SUFFICES ASSUME NEW o \in Operations, In(o, strand'), pending'[o] = 1
               PROVE  FALSE
    OBVIOUS
  <2>1. CASE pending[o] = 1
    BY <2>1, <1>1, <1>2
  <2>2. CASE Starts(op, o)
    BY <2>2, <1>3 DEF Starts
  <2>3. QED
    BY <2>1, <2>2
<1>5. \A o \in Operations : Live(o)' => \/ Live(o) /\ o # op
                                        \/ Starts(op, o) /\ pending'[o] = 1
  BY <1>1 DEF Live
<1>6. StartsAlone'
  <2>1. op \in {"accept", "connect", "read"} => Live(op)
    BY <1>1 DEF Live, Operations
  <2>2. op \in {"accept", "connect", "read"} => ~Live("accept")' /\ ~Live("connect")'
    BY <1>5, <2>1 DEF IInv, StartsAlone, Starts, Operations
  <2>3. CASE op \in {"accept", "connect", "read"}
    BY <2>2, <2>3 DEF StartsAlone
  <2>4. CASE op \notin {"accept", "connect", "read"}
    <3>1. \A o \in {"accept", "connect", "read"} : Live(o)' => Live(o)
      BY <1>5, <2>4 DEF Starts, Operations
    <3>2. QED
      BY <3>1 DEF IInv, StartsAlone
  <2>5. QED
    BY <2>3, <2>4
<1>7. pending'["write"] = 0 => (Live("write")' => Live("write"))
  BY <1>5 DEF Operations
<1>8. QED
  BY <1>1, <1>4, <1>6, <1>7 DEF OneOfEach

\* A handler that leaves the send queue alone.
LEMMA QuietStep ==
    ASSUME IInv, NEW op \in Functions, Run(op),
           pending' \in [Operations -> {0, 1}],
           \A o \in Operations :
              pending'[o] = 1 => pending[o] = 1 \/ (o = "read" /\ Starts(op, o)),
           send_buffers' = send_buffers
    PROVE  OneOfEach' /\ StartsAlone' /\ WriteHasBuffer'
<1>1. OneOfEach' /\ StartsAlone' /\ (pending'["write"] = 0 => (Live("write")' => Live("write")))
  BY RunLive
<1>2. pending'["write"] = 1 => Live("write")
  BY DEF Live, Operations
<1>3. pending'["write"] \in {0, 1}
  BY DEF Operations
<1>4. QED
  BY <1>1, <1>2, <1>3 DEF IInv, WriteHasBuffer

\* The types of what handlers assign.
LinkTypes ==
    /\ socket \in {"closed", "connecting", "open"}
    /\ manager \in BOOLEAN /\ session \in BOOLEAN /\ registered \in BOOLEAN
    /\ timer_entry \in BOOLEAN /\ crashed \in BOOLEAN
CountTypes == opened \in Nat /\ closed \in Nat /\ detached \in Nat /\ replaced \in Nat
SendTypes ==
    /\ send_buffers \in Seq(Message) /\ pushed \in Seq(Message)
    /\ calls \in [Senders -> Nat]

LEMMA TypesNow ==
    ASSUME IInv
    PROVE  LinkTypes /\ CountTypes /\ SendTypes /\ TypeOK
           /\ pending \in [Operations -> {0, 1}]
BY DEF IInv, TypeOK, LinkTypes, CountTypes, SendTypes

LEMMA TypesNext ==
    ASSUME IInv, NEW op \in Functions, Run(op),
           LinkTypes', CountTypes', SendTypes', pending' \in [Operations -> {0, 1}]
    PROVE  TypeOK'
<1>1. strand' \in Seq(FunctionRecord)
  BY RunStep
<1>2. connection' = connection /\ wire' = wire
  BY DEF Run
<1>3. connection \in 0..MaxConnections /\ wire \in Seq(Message)
  BY DEF IInv, TypeOK
<1>4. QED
  BY <1>1, <1>2, <1>3 DEF TypeOK, LinkTypes, CountTypes, SendTypes, FunctionRecord

LEMMA OnErrorLinkTypes ==
    ASSUME IInv, NEW attached \in BOOLEAN, OnErrorOf(attached),
           crashed' \in BOOLEAN, timer_entry' = timer_entry,
           opened' \in Nat, detached' \in Nat, replaced' \in Nat
    PROVE  LinkTypes' /\ CountTypes'
<1>1. /\ socket' \in {"closed", "connecting", "open"}
      /\ manager' \in BOOLEAN /\ session' \in BOOLEAN
      /\ registered' \in BOOLEAN /\ closed' \in Nat
  BY TypesNow, OnErrorTypes
<1>2. timer_entry \in BOOLEAN
  BY TypesNow DEF LinkTypes
<1>3. QED
  BY <1>1, <1>2 DEF LinkTypes, CountTypes

\* Link::OnError of the link as it is, or nothing.
LEMMA SameLinkTypes ==
    ASSUME IInv, crashed' \in BOOLEAN, timer_entry' = timer_entry,
           OnError \/ UNCHANGED <<socket, manager, session, registered, countVars>>
    PROVE  LinkTypes' /\ CountTypes'
<1>1. /\ session \in BOOLEAN
      /\ opened \in Nat /\ detached \in Nat /\ replaced \in Nat
  BY TypesNow DEF LinkTypes, CountTypes
<1>2. CASE OnError
  BY <1>1, <1>2, OnErrorLinkTypes DEF OnError
<1>3. CASE UNCHANGED <<socket, manager, session, registered, countVars>>
  BY <1>3, TypesNow DEF LinkTypes, CountTypes, countVars
<1>4. QED
  BY <1>2, <1>3

LEMMA SameSendTypes ==
    ASSUME IInv, UNCHANGED sendVars
    PROVE  SendTypes' /\ send_buffers' = send_buffers
BY TypesNow DEF SendTypes, sendVars

-----------------------------------------------------------------------------
LEMMA RunAcceptStep ==
    ASSUME IInv, RunAccept
    PROVE  IInv'
<1>1. /\ Run("accept") /\ "accept" \in Functions
      /\ pending["accept"] = 0 /\ ~Live("read")
  <2>1. Run("accept") /\ "accept" \in Functions /\ "accept" \in Operations
    BY DEF RunAccept, Functions, Operations
  <2>2. pending["accept"] = 0 /\ In("accept", strand)
    BY <2>1, RunStep
  <2>3. QED
    BY <2>1, <2>2 DEF IInv, StartsAlone, Live
<1>2. /\ pending' \in [Operations -> {0, 1}]
      /\ \A o \in Operations : pending'[o] = 1 => pending[o] = 1 \/ o = "read"
  <2>1. pending' = pending \/ pending' = [pending EXCEPT !["read"] = @ + 1]
    BY Zenon DEF RunAccept
  <2>2. pending["read"] # 1 /\ pending \in [Operations -> {0, 1}]
    BY <1>1, TypesNow DEF Live
  <2>3. QED
    BY <2>1, <2>2 DEF Operations
<1>3. UNCHANGED sendVars
  BY DEF RunAccept
<1>4. OneOfEach' /\ StartsAlone' /\ WriteHasBuffer'
  BY <1>1, <1>2, <1>3, SameSendTypes, QuietStep DEF Starts
<1>5. LinkTypes'
  <2>1. socket' \in {socket, "closed"}
    BY Zenon DEF RunAccept
  <2>2. socket' \in {"closed", "connecting", "open"}
    BY <2>1, TypesNow DEF LinkTypes
  <2>3. crashed' \in BOOLEAN /\ timer_entry' \in BOOLEAN
    <3>1. crashed' = crashed \/ crashed' = (Manager = "Router")
      BY Zenon DEF RunAccept
    <3>2. crashed \in BOOLEAN /\ timer_entry \in BOOLEAN
      BY TypesNow DEF LinkTypes
    <3>3. timer_entry' = timer_entry
      BY DEF RunAccept
    <3>4. QED
      BY <3>1, <3>2, <3>3, Zenon
  <2>4. manager' \in BOOLEAN /\ session' \in BOOLEAN /\ registered' \in BOOLEAN
    BY TypesNow, Zenon DEF RunAccept, LinkTypes
  <2>5. QED
    BY <2>2, <2>3, <2>4 DEF LinkTypes
<1>6. CountTypes'
  <2>1. opened' \in {opened, opened + 1} /\ UNCHANGED <<closed, detached, replaced>>
    BY Zenon DEF RunAccept
  <2>2. QED
    BY <2>1, TypesNow DEF CountTypes
<1>7. QED
  BY <1>1, <1>2, <1>3, <1>4, <1>5, <1>6, SameSendTypes, TypesNext DEF IInv

LEMMA RunConnectStep ==
    ASSUME IInv, RunConnect
    PROVE  IInv'
<1>1. /\ Run("connect") /\ "connect" \in Functions
      /\ pending["connect"] = 0 /\ ~Live("read")
  <2>1. Run("connect") /\ "connect" \in Functions /\ "connect" \in Operations
    BY DEF RunConnect, Functions, Operations
  <2>2. pending["connect"] = 0 /\ In("connect", strand)
    BY <2>1, RunStep
  <2>3. QED
    BY <2>1, <2>2 DEF IInv, StartsAlone, Live
<1>2. /\ pending' \in [Operations -> {0, 1}]
      /\ \A o \in Operations : pending'[o] = 1 => pending[o] = 1 \/ o = "read"
  <2>1. \/ pending' = [pending EXCEPT !["timer"] = 0]
        \/ pending' = [pending EXCEPT !["timer"] = 0, !["read"] = @ + 1]
    BY Zenon DEF RunConnect
  <2>2. pending["read"] # 1 /\ pending \in [Operations -> {0, 1}]
    BY <1>1, TypesNow DEF Live
  <2>3. QED
    BY <2>1, <2>2 DEF Operations
<1>3. /\ UNCHANGED sendVars
      /\ UNCHANGED <<timer_entry, crashed>>
      /\ OnError \/ UNCHANGED <<socket, manager, session, registered, countVars>>
  BY DEF RunConnect
<1>4. OneOfEach' /\ StartsAlone' /\ WriteHasBuffer'
  BY <1>1, <1>2, <1>3, SameSendTypes, QuietStep DEF Starts
<1>5. crashed' \in BOOLEAN
  BY <1>3, TypesNow DEF LinkTypes
<1>6. LinkTypes' /\ CountTypes'
  BY <1>3, <1>5, SameLinkTypes
<1>7. QED
  BY <1>1, <1>2, <1>3, <1>4, <1>6, SameSendTypes, TypesNext DEF IInv

LEMMA RunTimerStep ==
    ASSUME IInv, RunTimer
    PROVE  IInv'
<1>1. /\ Run("timer") /\ "timer" \in Functions
      /\ pending' = pending /\ UNCHANGED sendVars
      /\ timer_entry' = timer_entry
      /\ OnError \/ UNCHANGED <<socket, manager, session, registered, countVars>>
  BY DEF RunTimer, Functions, Operations
<1>2. crashed' \in BOOLEAN
  <2>1. crashed' = crashed \/ crashed' = TRUE
    BY Zenon DEF RunTimer
  <2>2. QED
    BY <2>1, TypesNow, Zenon DEF LinkTypes
<1>3. OneOfEach' /\ StartsAlone' /\ WriteHasBuffer'
  BY <1>1, TypesNow, SameSendTypes, QuietStep
<1>4. LinkTypes' /\ CountTypes'
  BY <1>1, <1>2, SameLinkTypes
<1>5. QED
  BY <1>1, <1>3, <1>4, TypesNow, SameSendTypes, TypesNext DEF IInv

LEMMA RunKeepAliveStep ==
    ASSUME IInv, RunKeepAlive
    PROVE  IInv'
<1>1. /\ Run("keepalive") /\ "keepalive" \in Functions
      /\ pending' = pending /\ UNCHANGED sendVars
      /\ UNCHANGED <<timer_entry, crashed>>
      /\ OnError
  BY DEF RunKeepAlive, Functions
<1>2. OneOfEach' /\ StartsAlone' /\ WriteHasBuffer'
  BY <1>1, TypesNow, SameSendTypes, QuietStep
<1>3. crashed' \in BOOLEAN
  BY <1>1, TypesNow DEF LinkTypes
<1>4. LinkTypes' /\ CountTypes'
  BY <1>1, <1>3, SameLinkTypes
<1>5. QED
  BY <1>1, <1>2, <1>4, TypesNow, SameSendTypes, TypesNext DEF IInv

LEMMA RunDetachStep ==
    ASSUME IInv, RunDetach
    PROVE  IInv'
<1>1. /\ Run("detach") /\ "detach" \in Functions
      /\ pending' = pending /\ UNCHANGED sendVars
      /\ UNCHANGED <<socket, manager, registered, timer_entry, opened, closed, replaced,
                     crashed>>
      /\ session' = FALSE
      /\ detached' = IF session THEN detached + 1 ELSE detached
  BY DEF RunDetach, Functions
<1>2. OneOfEach' /\ StartsAlone' /\ WriteHasBuffer'
  BY <1>1, TypesNow, SameSendTypes, QuietStep
<1>3. LinkTypes'
  BY <1>1, TypesNow, Zenon DEF LinkTypes
<1>4. CountTypes'
  <2>1. detached' \in {detached, detached + 1}
    BY <1>1, Zenon
  <2>2. QED
    BY <1>1, <2>1, TypesNow DEF CountTypes
<1>5. QED
  BY <1>1, <1>2, <1>3, <1>4, TypesNow, SameSendTypes, TypesNext DEF IInv

-----------------------------------------------------------------------------
\* A push puts a message in send_buffers, and starts a write only when none is
\* live: the one case in which FlushSend is called finds the queue empty.
LEMMA PushStep ==
    ASSUME IInv, NEW message \in Message, Push(message)
    PROVE  /\ send_buffers' \in Seq(Message) /\ pushed' \in Seq(Message)
           /\ send_buffers' # <<>>
           /\ NeedFlush \in {0, 1}
           /\ NeedFlush = 1 => ~Live("write")
<1>1. send_buffers \in Seq(Message) /\ pushed \in Seq(Message)
  BY TypesNow DEF SendTypes
<1>2. send_buffers' = Append(send_buffers, message) /\ pushed' = Append(pushed, message)
  BY DEF Push
<1>3. NeedFlush = 1 => send_buffers = <<>>
  BY DEF NeedFlush
<1>4. NeedFlush \in {0, 1}
  BY DEF NeedFlush
<1>5. QED
  BY <1>1, <1>2, <1>3, <1>4 DEF IInv, WriteHasBuffer

LEMMA RunSendStep ==
    ASSUME IInv, RunSend
    PROVE  IInv'
<1>1. /\ Run("send") /\ "send" \in Functions /\ "send" \notin Operations
      /\ Push(Head(strand).message)
      /\ pending' = [pending EXCEPT !["write"] = @ + NeedFlush]
      /\ UNCHANGED <<socket, manager, session, registered, timer_entry,
                     calls, opened, closed, detached, replaced, crashed>>
  BY DEF RunSend, Functions, Operations, linkVars, countVars
<1>2. Head(strand).message \in Message
  <2>1. Head(strand) \in FunctionRecord /\ Head(strand).op = "send"
    BY <1>1, RunStep DEF Run
  <2>2. QED
    BY <2>1 DEF FunctionRecord
<1>3. /\ send_buffers' \in Seq(Message) /\ pushed' \in Seq(Message)
      /\ send_buffers' # <<>>
      /\ NeedFlush \in {0, 1}
      /\ NeedFlush = 1 => ~Live("write")
  BY <1>1, <1>2, PushStep
<1>4. SendTypes'
  BY <1>1, <1>3, TypesNow DEF SendTypes
<1>5. /\ pending' \in [Operations -> {0, 1}]
      /\ \A o \in Operations : pending'[o] = 1 => pending[o] = 1 \/ (o = "write" /\ ~In("write", strand'))
  <2>1. NeedFlush = 1 => pending["write"] = 0 /\ ~In("write", strand')
    <3>1. In("write", strand') <=> In("write", strand)
      BY <1>1, RunStep DEF Operations
    <3>2. QED
      BY <3>1, <1>3, TypesNow DEF Live, Operations
  <2>2. QED
    BY <1>1, <1>3, <2>1, TypesNow DEF Operations
<1>6. OneOfEach' /\ StartsAlone'
  BY <1>1, <1>5, RunLive DEF Starts
<1>7. WriteHasBuffer'
  BY <1>3 DEF WriteHasBuffer
<1>8. LinkTypes' /\ CountTypes'
  BY <1>1, TypesNow DEF LinkTypes, CountTypes
<1>9. QED
  BY <1>1, <1>4, <1>5, <1>6, <1>7, <1>8, TypesNext DEF IInv

\* FlushSend's completion handler starts the next write only when a buffer is
\* left behind the one it pops.
LEMMA RunWriteStep ==
    ASSUME IInv, RunWrite
    PROVE  IInv'
<1>1. /\ Run("write") /\ "write" \in Functions /\ "write" \in Operations
      /\ UNCHANGED <<timer_entry, calls, pushed, crashed>>
      /\ OnError \/ UNCHANGED <<socket, manager, session, registered, countVars>>
  BY DEF RunWrite, Functions, Operations
<1>2. pending["write"] = 0 /\ In("write", strand) /\ ~In("write", strand')
  BY <1>1, RunStep
<1>3. send_buffers \in Seq(Message) /\ send_buffers # <<>>
  BY <1>2, TypesNow DEF SendTypes, IInv, WriteHasBuffer, Live
<1>4. /\ send_buffers' \in Seq(Message)
      /\ pending' \in [Operations -> {0, 1}]
      /\ \A o \in Operations : pending'[o] = 1 => pending[o] = 1 \/ o = "write"
      /\ pending'["write"] = 1 => send_buffers' # <<>>
  <2>1. CASE UNCHANGED <<send_buffers, pending>>
    BY <2>1, <1>3, <1>2, TypesNow
  <2>2. CASE /\ send_buffers' = Tail(send_buffers)
             /\ pending' = [pending EXCEPT !["write"] =
                               IF Len(send_buffers) > 1 THEN @ + 1 ELSE @]
    <3>1. /\ Tail(send_buffers) \in Seq(Message)
          /\ Len(send_buffers) > 1 => Tail(send_buffers) # <<>>
      <4>1. /\ Tail(send_buffers) \in Seq(Message)
            /\ Len(Tail(send_buffers)) = Len(send_buffers) - 1
            /\ Len(send_buffers) \in Nat
        BY <1>3
      <4>2. Len(<<>>) = 0
        OBVIOUS
      <4>3. ASSUME Len(send_buffers) > 1, Tail(send_buffers) = <<>>
            PROVE  FALSE
        <5>1. Len(send_buffers) - 1 = 0
          BY <4>1, <4>2, <4>3
        <5>2. \A n \in Nat : n > 1 => n - 1 # 0
          OBVIOUS
        <5>3. QED
          BY <4>1, <4>3, <5>1, <5>2
      <4>4. QED
        BY <4>1, <4>3
    <3>2. pending \in [Operations -> {0, 1}]
      BY TypesNow
    <3>3. CASE Len(send_buffers) > 1
      BY <2>2, <3>1, <3>2, <3>3, <1>2 DEF Operations
    <3>4. CASE ~(Len(send_buffers) > 1)
      BY <2>2, <3>1, <3>2, <3>4, <1>2 DEF Operations
    <3>5. QED
      BY <3>3, <3>4
  <2>3. QED
    BY <2>1, <2>2 DEF RunWrite
<1>5. OneOfEach' /\ StartsAlone'
  BY <1>1, <1>2, <1>4, RunLive DEF Starts
<1>6. WriteHasBuffer'
  BY <1>2, <1>4 DEF WriteHasBuffer, Live
<1>7. crashed' \in BOOLEAN
  BY <1>1, TypesNow DEF LinkTypes
<1>8. LinkTypes' /\ CountTypes'
  BY <1>1, <1>7, SameLinkTypes
<1>9. SendTypes'
  BY <1>1, <1>4, TypesNow DEF SendTypes
<1>10. QED
  BY <1>1, <1>4, <1>5, <1>6, <1>8, <1>9, TypesNext DEF IInv

\* A read that was handled starts the next read, and at most one write.
LEMMA OnRecvMsgStep ==
    ASSUME IInv, Run("read"), OnRecvMsg
    PROVE  /\ SendTypes' /\ WriteHasBuffer' /\ OneOfEach' /\ StartsAlone'
           /\ pending' \in [Operations -> {0, 1}]
<1>1. /\ "read" \in Functions /\ "read" \in Operations
      /\ pending["read"] = 0 /\ pending \in [Operations -> {0, 1}]
      /\ In("write", strand') <=> In("write", strand)
  <2>1. "read" \in Functions /\ "read" \in Operations /\ "write" \in Operations \ {"read"}
    BY DEF Functions, Operations
  <2>2. QED
    BY <2>1, RunStep, TypesNow
<1>2. CASE /\ pending' = [pending EXCEPT !["read"] = @ + 1]
           /\ UNCHANGED sendVars
  <2>1. /\ pending' \in [Operations -> {0, 1}]
        /\ \A o \in Operations : pending'[o] = 1 => pending[o] = 1 \/ o = "read"
    BY <1>1, <1>2
  <2>2. QED
    BY <1>1, <1>2, <2>1, SameSendTypes, QuietStep DEF Starts
<1>3. CASE /\ calls' = [calls EXCEPT !["handler"] = @ + 1]
           /\ Push([from |-> "handler", number |-> calls["handler"] + 1,
                    connection |-> connection])
           /\ pending' = [pending EXCEPT !["read"] = @ + 1,
                                         !["write"] = @ + NeedFlush]
  <2>1. [from |-> "handler", number |-> calls["handler"] + 1,
         connection |-> connection] \in Message
    BY CountsAreNat DEF Message, Senders
  <2>2. /\ send_buffers' \in Seq(Message) /\ pushed' \in Seq(Message)
        /\ send_buffers' # <<>>
        /\ NeedFlush \in {0, 1}
        /\ NeedFlush = 1 => ~Live("write")
    BY <1>3, <2>1, PushStep
  <2>3. SendTypes'
    <3>1. calls \in [Senders -> Nat] /\ calls["handler"] + 1 \in Nat
      BY TypesNow, CountsAreNat DEF SendTypes
    <3>2. QED
      BY <1>3, <2>2, <3>1 DEF SendTypes
  <2>4. NeedFlush = 1 => pending["write"] = 0 /\ ~In("write", strand')
    BY <1>1, <2>2 DEF Live, Operations
  <2>5. /\ pending' \in [Operations -> {0, 1}]
        /\ \A o \in Operations : pending'[o] = 1 =>
              pending[o] = 1 \/ o = "read" \/ (o = "write" /\ ~In("write", strand'))
    BY <1>1, <1>3, <2>2, <2>4 DEF Operations
  <2>6. OneOfEach' /\ StartsAlone'
    BY <1>1, <2>5, RunLive DEF Starts
  <2>7. QED
    BY <2>2, <2>3, <2>5, <2>6 DEF WriteHasBuffer
<1>4. QED
  BY <1>2, <1>3 DEF OnRecvMsg

\* What a read does to the session and the socket: a reconnect may have changed
\* the session before OnError closes the link.
Handled(attached) ==
    /\ \/ attached = session /\ UNCHANGED <<opened, detached, replaced>>
       \/ session /\ Recv_Reconnect_Req(attached)
    /\ \/ session' = attached /\ UNCHANGED <<socket, manager, registered, closed>>
       \/ OnErrorOf(attached)

LEMMA ReadHandled ==
    ASSUME IInv, RunRead
    PROVE  \E attached \in BOOLEAN : Handled(attached)
<1>1. session \in BOOLEAN
  BY TypesNow DEF LinkTypes
<1>2. CASE session /\ OnRecvMsg
  BY <1>2 DEF OnRecvMsg, Handled
<1>3. CASE OnError
  BY <1>1, <1>3 DEF OnError, Handled
<1>4. CASE UNCHANGED <<socket, manager, session, registered, countVars>>
  BY <1>1, <1>4 DEF Handled, countVars
<1>5. QED
  BY <1>2, <1>3, <1>4 DEF RunRead

LEMMA RunReadStep ==
    ASSUME IInv, RunRead
    PROVE  IInv'
<1>1. /\ Run("read") /\ "read" \in Functions /\ "read" \in Operations
      /\ timer_entry' = timer_entry
  BY DEF RunRead, Functions, Operations
<1>2. crashed' \in BOOLEAN
  <2>1. crashed' = crashed \/ crashed' = TRUE
    BY Zenon DEF RunRead
  <2>2. QED
    BY <2>1, TypesNow, Zenon DEF LinkTypes
<1>3. LinkTypes' /\ CountTypes'
  <2>1. PICK attached \in BOOLEAN : Handled(attached)
    BY ReadHandled
  <2>2. opened' \in Nat /\ detached' \in Nat /\ replaced' \in Nat
    <3>1. /\ opened' \in {opened, opened + 1} /\ detached' \in {detached, detached + 1}
          /\ replaced' \in {replaced, replaced + 1}
      BY <2>1, Zenon DEF Handled, Recv_Reconnect_Req
    <3>2. QED
      BY <3>1, TypesNow DEF CountTypes
  <2>3. CASE OnErrorOf(attached)
    BY <1>1, <1>2, <2>2, <2>3, OnErrorLinkTypes
  <2>4. CASE session' = attached /\ UNCHANGED <<socket, manager, registered, closed>>
    BY <1>1, <1>2, <2>2, <2>4, TypesNow, Zenon DEF LinkTypes, CountTypes
  <2>5. QED
    BY <2>1, <2>3, <2>4 DEF Handled
<1>4. /\ SendTypes' /\ WriteHasBuffer' /\ OneOfEach' /\ StartsAlone'
      /\ pending' \in [Operations -> {0, 1}]
  <2>1. CASE OnRecvMsg
    BY <2>1, <1>1, OnRecvMsgStep
  <2>2. CASE /\ UNCHANGED sendVars
             /\ pending' = pending \/ pending' = [pending EXCEPT !["read"] = @ + 1]
    <3>1. pending["read"] = 0 /\ pending \in [Operations -> {0, 1}]
      BY <1>1, RunStep, TypesNow
    <3>2. /\ pending' \in [Operations -> {0, 1}]
          /\ \A o \in Operations : pending'[o] = 1 => pending[o] = 1 \/ o = "read"
      BY <2>2, <3>1
    <3>3. QED
      BY <1>1, <2>2, <3>2, SameSendTypes, QuietStep DEF Starts
  <2>3. QED
    BY <2>1, <2>2 DEF RunRead
<1>5. QED
  BY <1>1, <1>3, <1>4, TypesNext DEF IInv

-----------------------------------------------------------------------------
\* Every step keeps the strengthened invariant.
LEMMA IInvNext ==
    ASSUME IInv, [Next]_vars
    PROVE  IInv'
<1>1. CASE Accept \/ Connect
  BY <1>1, StartStep
<1>2. CASE AcceptCompletes \/ ConnectCompletes \/ ReadCompletes
           \/ WriteCompletes \/ TimerExpires \/ Aborts
  BY <1>2, CompletionStep
<1>3. CASE AsyncSend \/ KeepAlive \/ DetachSession
  BY <1>3, OutsideStep
<1>4. CASE RunStrand
  BY <1>4, RunAcceptStep, RunConnectStep, RunTimerStep, RunReadStep,
     RunSendStep, RunWriteStep, RunKeepAliveStep, RunDetachStep DEF RunStrand
<1>5. CASE UNCHANGED vars
  BY <1>5 DEF vars, linkVars, sendVars, countVars, IInv, TypeOK, OneOfEach,
     StartsAlone, WriteHasBuffer, Live
<1>6. QED
  BY <1>1, <1>2, <1>3, <1>4, <1>5 DEF Next

\* The variables of a link keep their types; no operation is ever outstanding
\* twice on its socket or timer, whatever the strand interleaves.
THEOREM TypeCorrect == Spec => []TypeOK
<1>1. Init => IInv
  BY IInvInit
<1>2. IInv /\ [Next]_vars => IInv'
  BY IInvNext
<1>3. IInv => TypeOK
  BY DEF IInv
<1>4. QED
  BY <1>1, <1>2, <1>3, PTL DEF Spec

\* FlushSend never has two writes outstanding, and a write's completion finds
\* the buffer it pops: send_buffers is shared by AsyncSend's function and the
\* completion handler without a lock, and only the strand protects it.
THEOREM WriteDiscipline == Spec => []OneWriteInFlight
<1>1. Init => IInv
  BY IInvInit
<1>2. IInv /\ [Next]_vars => IInv'
  BY IInvNext
<1>3. IInv => OneWriteInFlight
  BY DEF IInv, OneOfEach, WriteHasBuffer, Live, Unique, In, Queued,
         OneWriteInFlight, Operations
<1>4. QED
  BY <1>1, <1>2, <1>3, PTL DEF Spec
-----------------------------------------------------------------------------
\* Accepted links: one OnClose for each session, and no closed link in _links.

\* Until Callback_Accept has run nobody else knows the link.
AcceptedFirst ==
    Live("accept") =>
        /\ ~registered /\ ~session
        /\ \A i \in DOMAIN strand :
              strand[i].op = "accept" /\ (strand[i].ok => socket = "open")
        /\ \A op \in Operations \ {"accept"} : pending[op] = 0

\* A link in _links still has its manager, so OnError takes it out.
ListedIsManaged == registered => manager

TInv == IInv /\ AcceptedFirst /\ ListedIsManaged /\ RegisteredIsOpen /\ SessionClosedOnce

LEMMA TInvInit ==
    ASSUME Init
    PROVE  TInv
<1>1. /\ ~registered /\ ~session /\ strand = <<>> /\ DOMAIN strand = {}
      /\ \A op \in Operations : pending[op] = 0
      /\ opened = 0 /\ closed = 0 /\ detached = 0 /\ replaced = 0
  BY DEF Init
<1>2. ListedIsManaged /\ RegisteredIsOpen
  BY <1>1 DEF ListedIsManaged, RegisteredIsOpen
<1>3. SessionClosedOnce
  BY <1>1 DEF SessionClosedOnce
<1>4. AcceptedFirst
  BY <1>1 DEF AcceptedFirst
<1>5. QED
  BY <1>2, <1>3, <1>4, IInvInit DEF TInv

\* A pooled link starts its next connection with nothing attached.
LEMMA AcceptTcp ==
    ASSUME TInv, Accept
    PROVE  TInv'
<1>1. /\ strand = <<>> /\ strand' = strand /\ ~registered /\ ~session
      /\ \A op \in Operations : pending[op] = 0
  BY DEF Accept, Create, Free
<1>2. /\ UNCHANGED <<registered, session>>
      /\ opened' = 0 /\ closed' = 0 /\ detached' = 0 /\ replaced' = 0
      /\ pending' = [pending EXCEPT !["accept"] = 1]
  BY DEF Accept
<1>3. ListedIsManaged' /\ RegisteredIsOpen'
  BY <1>1, <1>2 DEF ListedIsManaged, RegisteredIsOpen
<1>4. SessionClosedOnce'
  BY <1>1, <1>2 DEF SessionClosedOnce
<1>5. AcceptedFirst'
  <2>1. DOMAIN strand' = {}
    BY <1>1
  <2>2. pending \in [Operations -> {0, 1}]
    BY DEF TInv, IInv, TypeOK
  <2>3. \A op \in Operations \ {"accept"} : pending'[op] = 0
    BY <1>1, <1>2, <2>2
  <2>4. ~registered' /\ ~session'
    BY <1>1, <1>2
  <2>5. QED
    BY <2>1, <2>3, <2>4 DEF AcceptedFirst
<1>6. QED
  BY <1>3, <1>4, <1>5, StartStep DEF TInv

\* A completion closes nothing; that of the accept finds the strand empty.
LEMMA CompletionTcp ==
    ASSUME TInv, AcceptCompletes \/ ConnectCompletes \/ ReadCompletes
                 \/ WriteCompletes \/ TimerExpires \/ Aborts
    PROVE  TInv'
<1>1. PICK op \in Operations, ok \in BOOLEAN :
         /\ Completed(op, ok)
         /\ socket' \in {"open", socket}
         /\ op = "accept" /\ ok => socket' = "open"
  BY DEF AcceptCompletes, ConnectCompletes, ReadCompletes, WriteCompletes,
         TimerExpires, Aborts, Abort, Operations
<1>2. /\ pending[op] = 1 /\ pending' = [pending EXCEPT ![op] = 0]
      /\ strand' = Append(strand, Function(op, ok))
      /\ UNCHANGED <<manager, session, registered, opened, closed, detached, replaced>>
  BY <1>1 DEF Completed, countVars
<1>3. /\ pending \in [Operations -> {0, 1}] /\ strand \in Seq(FunctionRecord)
      /\ Function(op, ok).op = op /\ Function(op, ok).ok = ok
      /\ Function(op, ok) \in FunctionRecord
  BY DEF TInv, IInv, TypeOK, Function, FunctionRecord, Functions, Operations
<1>4. ListedIsManaged' /\ RegisteredIsOpen'
  BY <1>1, <1>2 DEF TInv, ListedIsManaged, RegisteredIsOpen
<1>5. SessionClosedOnce'
  BY <1>2 DEF TInv, SessionClosedOnce
<1>6. AcceptedFirst'
  <2>1. In("accept", strand') <=> In("accept", strand) \/ op = "accept"
    <3>1. Unique("accept", strand)
      BY DEF TInv, IInv, OneOfEach, Operations
    <3>2. QED
      BY <1>2, <1>3, <3>1, QueuedFunction
  <2>2. CASE op = "accept"
    <3>1. Live("accept") /\ ~In("accept", strand)
      BY <2>2, <1>2 DEF TInv, IInv, OneOfEach, Live
    <3>2. /\ ~registered /\ ~session
          /\ \A i \in DOMAIN strand : strand[i].op = "accept"
          /\ \A o \in Operations \ {"accept"} : pending[o] = 0
      BY <3>1 DEF TInv, AcceptedFirst
    <3>3. DOMAIN strand = {}
      BY <3>1, <3>2 DEF In
    <3>4. \A i \in DOMAIN strand' : strand'[i] = Function(op, ok)
      BY <1>2, <1>3, <3>3
    <3>5. \A o \in Operations \ {"accept"} : pending'[o] = 0
      BY <1>2, <1>3, <2>2, <3>2
    <3>6. ~registered' /\ ~session'
      BY <3>2, <1>2
    <3>7. \A i \in DOMAIN strand' : strand'[i].op = "accept" /\ (strand'[i].ok => socket' = "open")
      <4>1. Function(op, ok).ok => socket' = "open"
        BY <1>1, <1>3, <2>2, Zenon
      <4>2. QED
        BY <1>3, <2>2, <3>4, <4>1, Zenon
    <3>8. QED
      BY <3>5, <3>6, <3>7 DEF AcceptedFirst
  <2>3. CASE op # "accept"
    <3>1. ~Live("accept")
      BY <2>3, <1>2 DEF TInv, AcceptedFirst
    <3>2. pending'["accept"] # 1 /\ ~In("accept", strand')
      BY <2>1, <2>3, <3>1, <1>2, <1>3 DEF Live, Operations
    <3>3. QED
      BY <3>2 DEF AcceptedFirst, Live
  <2>4. QED
    BY <2>2, <2>3
<1>7. QED
  BY <1>4, <1>5, <1>6, CompletionStep DEF TInv

\* Only a link that has a session, or is in _links, is called from outside.
LEMMA OutsideTcp ==
    ASSUME TInv, AsyncSend \/ KeepAlive \/ DetachSession
    PROVE  TInv'
<1>1. PICK f \in FunctionRecord :
         f.op \notin Operations /\ Dispatch(f) /\ (session \/ registered)
  <2>1. CASE AsyncSend
    <3> DEFINE g == [op |-> "send", ok |-> TRUE,
                     message |-> [from |-> "app", number |-> calls["app"] + 1,
                                  connection |-> connection]]
    <3>1. calls["app"] \in Nat /\ connection \in Nat
      BY CountsAreNat DEF TInv
    <3>2. g \in FunctionRecord /\ g.op \notin Operations
      BY <3>1 DEF FunctionRecord, Operations, Message, Senders
    <3>3. Dispatch(g) /\ session
      BY <2>1 DEF AsyncSend
    <3>4. QED
      BY <3>2, <3>3
  <2>2. ASSUME NEW op \in {"keepalive", "detach"}, Dispatch(Function(op, TRUE)),
               session \/ registered
        PROVE  \E f \in FunctionRecord :
                  f.op \notin Operations /\ Dispatch(f) /\ (session \/ registered)
    <3>1. Function(op, TRUE) \in FunctionRecord /\ Function(op, TRUE).op \notin Operations
      BY DEF Function, FunctionRecord, Functions, Operations
    <3>2. QED
      BY <3>1, <2>2
  <2>3. QED
    BY <2>1, <2>2 DEF KeepAlive, DetachSession
<1>2. /\ strand' = Append(strand, f) /\ pending' = pending
      /\ UNCHANGED <<socket, manager, session, opened, closed, detached, replaced>>
  BY <1>1 DEF Dispatch, countVars
<1>3. registered' => registered
  BY Zenon DEF AsyncSend, KeepAlive, DetachSession
<1>4. ListedIsManaged' /\ RegisteredIsOpen'
  BY <1>2, <1>3 DEF TInv, ListedIsManaged, RegisteredIsOpen
<1>5. SessionClosedOnce'
  BY <1>2 DEF TInv, SessionClosedOnce
<1>6. AcceptedFirst'
  <2>1. ~Live("accept")
    BY <1>1 DEF TInv, AcceptedFirst
  <2>2. Unique("accept", strand) /\ strand \in Seq(FunctionRecord)
    BY DEF TInv, IInv, OneOfEach, TypeOK, Operations, FunctionRecord
  <2>3. In("accept", strand') <=> In("accept", strand)
    <3>1. f.op # "accept"
      BY <1>1 DEF Operations
    <3>2. QED
      BY <1>2, <2>2, <3>1, QueuedFunction
  <2>4. QED
    BY <2>1, <2>3, <1>2 DEF AcceptedFirst, Live
<1>7. QED
  BY <1>4, <1>5, <1>6, OutsideStep DEF TInv

-----------------------------------------------------------------------------
\* While the link is being accepted only Callback_Accept can run.
LEMMA LaterRun ==
    ASSUME TInv, NEW op \in Functions, Run(op), op # "accept",
           pending'["accept"] = pending["accept"]
    PROVE  AcceptedFirst'
<1>1. strand \in Seq(FunctionRecord) /\ strand # <<>> /\ Head(strand).op = op
  BY DEF TInv, IInv, TypeOK, FunctionRecord, Run
<1>2. 1 \in DOMAIN strand /\ strand[1].op = op
  BY <1>1
<1>3. ~Live("accept")
  BY <1>2 DEF TInv, AcceptedFirst
<1>4. In("accept", strand') <=> In("accept", strand)
  <2>1. "accept" \in Operations \ {op}
    BY DEF Operations
  <2>2. QED
    BY <2>1, RunStep DEF TInv
<1>5. QED
  BY <1>3, <1>4 DEF AcceptedFirst, Live

\* OnError of a link with a manager takes it out of _links and closes the
\* session that is attached then, once.
LEMMA OnErrorTcp ==
    ASSUME TInv, "callback" \notin Failures, NEW attached \in BOOLEAN, OnErrorOf(attached),
           opened' \in Nat, detached' \in Nat, replaced' \in Nat,
           opened' = closed + detached' + replaced' + (IF attached THEN 1 ELSE 0)
    PROVE  ListedIsManaged' /\ RegisteredIsOpen' /\ SessionClosedOnce'
<1>1. closed \in Nat
  BY DEF TInv, IInv, TypeOK
<1>2. CASE session' = attached /\ UNCHANGED <<socket, manager, registered, closed>>
  BY <1>2 DEF TInv, ListedIsManaged, RegisteredIsOpen, SessionClosedOnce
<1>3. CASE /\ registered' = (registered /\ ~manager)
           /\ session' = (attached /\ ~manager)
           /\ closed' = IF manager /\ attached THEN closed + 1 ELSE closed
  <2>1. ~registered'
    BY <1>3, Zenon DEF TInv, ListedIsManaged
  <2>2. CASE manager /\ attached
    <3>1. closed' = closed + 1 /\ ~session'
      BY <1>3, <2>2, Zenon
    <3>2. opened' = closed + detached' + replaced' + 1
      BY <2>2
    <3>3. opened' = closed' + detached' + replaced' + 0
      <4>1. \A c, d, r \in Nat : c + d + r + 1 = (c + 1) + d + r + 0
        OBVIOUS
      <4>2. closed + detached' + replaced' + 1 = (closed + 1) + detached' + replaced' + 0
        BY <1>1, <4>1
      <4>3. QED
        BY <3>1, <3>2, <4>2
    <3>4. QED
      BY <2>1, <3>1, <3>3 DEF ListedIsManaged, RegisteredIsOpen, SessionClosedOnce
  <2>3. CASE ~(manager /\ attached)
    <3>1. closed' = closed /\ (session' <=> attached)
      BY <1>3, <2>3, Zenon
    <3>2. opened' = closed + detached' + replaced' + (IF session' THEN 1 ELSE 0)
      BY <3>1
    <3>3. QED
      BY <2>1, <3>1, <3>2 DEF ListedIsManaged, RegisteredIsOpen, SessionClosedOnce
  <2>4. QED
    BY <2>2, <2>3
<1>4. QED
  BY <1>2, <1>3 DEF OnErrorOf

\* A read: Recv_Reconnect_Req counts what it takes off the link.
LEMMA HandledTcp ==
    ASSUME TInv, "callback" \notin Failures, NEW attached \in BOOLEAN, Handled(attached)
    PROVE  ListedIsManaged' /\ RegisteredIsOpen' /\ SessionClosedOnce'
<1>1. /\ opened \in Nat /\ closed \in Nat /\ detached \in Nat /\ replaced \in Nat
      /\ opened = closed + detached + replaced + (IF session THEN 1 ELSE 0)
  BY DEF TInv, IInv, TypeOK, SessionClosedOnce
<1>2. /\ opened' \in Nat /\ detached' \in Nat /\ replaced' \in Nat
      /\ opened' = closed + detached' + replaced' + (IF attached THEN 1 ELSE 0)
  <2>1. CASE attached = session /\ UNCHANGED <<opened, detached, replaced>>
    <3>1. attached <=> session
      BY <2>1
    <3>2. QED
      BY <1>1, <2>1, <3>1
  <2>2. CASE session /\ Recv_Reconnect_Req(attached)
    <3>1. opened = closed + detached + replaced + 1
      BY <1>1, <2>2
    <3>2. CASE /\ attached /\ opened' = opened + 1
               /\ \/ replaced' = replaced + 1 /\ UNCHANGED detached
                  \/ detached' = detached + 1 /\ UNCHANGED replaced
      BY <1>1, <3>1, <3>2
    <3>3. CASE ~attached /\ detached' = detached + 1 /\ UNCHANGED <<opened, replaced>>
      BY <1>1, <3>1, <3>3
    <3>4. QED
      BY <2>2, <3>2, <3>3, Zenon DEF Recv_Reconnect_Req
  <2>3. QED
    BY <2>1, <2>2 DEF Handled
<1>3. CASE OnErrorOf(attached)
  BY <1>2, <1>3, OnErrorTcp
<1>4. CASE session' = attached /\ UNCHANGED <<socket, manager, registered, closed>>
  BY <1>2, <1>4 DEF TInv, ListedIsManaged, RegisteredIsOpen, SessionClosedOnce
<1>5. QED
  BY <1>3, <1>4 , Zenon DEF Handled

\* Callback_Accept attaches the first session, or closes a link nobody knows.
LEMMA RunAcceptTcp ==
    ASSUME TInv, RunAccept
    PROVE  TInv'
<1>1. Run("accept") /\ "accept" \in Functions /\ "accept" \in Operations
  BY DEF RunAccept, Functions, Operations
<1>2. /\ strand \in Seq(FunctionRecord) /\ strand # <<>>
      /\ In("accept", strand) /\ ~In("accept", strand')
      /\ pending["accept"] = 0 /\ pending \in [Operations -> {0, 1}]
  BY <1>1, RunStep DEF TInv, IInv, TypeOK, Run, FunctionRecord
<1>3. /\ ~registered /\ ~session
      /\ Ok => socket = "open"
  <2>1. Live("accept")
    BY <1>2 DEF Live
  <2>2. 1 \in DOMAIN strand /\ Head(strand) = strand[1]
    BY <1>2
  <2>3. QED
    BY <2>1, <2>2 DEF TInv, AcceptedFirst, Ok
<1>4. UNCHANGED <<closed, detached, replaced>>
  BY DEF RunAccept
<1>5. AcceptedFirst'
  <2>1. pending' = pending \/ pending' = [pending EXCEPT !["read"] = @ + 1]
    BY Zenon DEF RunAccept
  <2>2. pending'["accept"] = pending["accept"]
    BY <2>1, <1>2 DEF Operations
  <2>3. QED
    BY <1>2, <2>2 DEF AcceptedFirst, Live
<1>6. ListedIsManaged' /\ RegisteredIsOpen' /\ SessionClosedOnce'
  <2>1. CASE UNCHANGED <<session, registered, opened>>
    <3>1. ~registered' /\ ~session' /\ opened = closed + detached + replaced + (IF session THEN 1 ELSE 0)
      BY <2>1, <1>3 DEF TInv, SessionClosedOnce
    <3>2. QED
      BY <2>1, <3>1, <1>3, <1>4 DEF ListedIsManaged, RegisteredIsOpen, SessionClosedOnce
  <2>2. CASE Ok /\ manager' = TRUE /\ session' = TRUE /\ opened' = opened + 1
             /\ socket' = socket
    <3>1. socket' = "open" /\ opened = closed + detached + replaced
      BY <2>2, <1>3 DEF TInv, SessionClosedOnce, IInv, TypeOK
    <3>2. ListedIsManaged' /\ RegisteredIsOpen'
      BY <2>2, <3>1 DEF ListedIsManaged, RegisteredIsOpen
    <3>3. SessionClosedOnce'
      BY <2>2, <3>1, <1>4 DEF SessionClosedOnce
    <3>4. QED
      BY <3>2, <3>3
  <2>3. QED
    BY <2>1, <2>2 DEF RunAccept
<1>7. QED
  BY <1>5, <1>6, RunAcceptStep DEF TInv

\* The other handlers reach the session and _links only through OnError or
\* AttachSession(NULL).
LEMMA RunOtherTcp ==
    ASSUME TInv, "callback" \notin Failures,
           RunConnect \/ RunTimer \/ RunRead \/ RunSend \/ RunWrite
           \/ RunKeepAlive \/ RunDetach
    PROVE  TInv'
<1>1. IInv'
  BY RunConnectStep, RunTimerStep, RunReadStep, RunSendStep, RunWriteStep,
     RunKeepAliveStep, RunDetachStep DEF TInv
<1>2. PICK op \in Functions : op # "accept" /\ Run(op)
  BY DEF RunConnect, RunTimer, RunRead, RunSend, RunWrite, RunKeepAlive,
         RunDetach, Functions, Operations
<1>3. pending'["accept"] = pending["accept"]
  <2>1. pending \in [Operations -> {0, 1}]
    BY DEF TInv, IInv, TypeOK
  <2>2. QED
    BY <2>1 DEF RunConnect, RunTimer, RunRead, RunSend, RunWrite, RunKeepAlive,
                RunDetach, OnRecvMsg, Operations
<1>4. AcceptedFirst'
  BY <1>2, <1>3, LaterRun
<1>5. ListedIsManaged' /\ RegisteredIsOpen' /\ SessionClosedOnce'
  <2>1. CASE RunDetach
    <3>1. /\ UNCHANGED <<socket, manager, registered, opened, closed, replaced>>
          /\ session' = FALSE
          /\ detached' = IF session THEN detached + 1 ELSE detached
      BY <2>1 DEF RunDetach
    <3>2. opened \in Nat /\ closed \in Nat /\ detached \in Nat /\ replaced \in Nat
      BY DEF TInv, IInv, TypeOK
    <3>3. ListedIsManaged' /\ RegisteredIsOpen'
      BY <3>1 DEF TInv, ListedIsManaged, RegisteredIsOpen
    <3>4. SessionClosedOnce'
      <4>1. CASE session
        BY <4>1, <3>1, <3>2 DEF TInv, SessionClosedOnce
      <4>2. CASE ~session
        BY <4>2, <3>1, <3>2 DEF TInv, SessionClosedOnce
      <4>3. QED
        BY <4>1, <4>2
    <3>5. QED
      BY <3>3, <3>4
  <2>2. PICK attached \in BOOLEAN : Handled(attached) \/ RunDetach
    <3>1. session \in BOOLEAN
      BY TypesNow DEF TInv, LinkTypes
    <3>2. CASE RunRead
      BY <3>2, ReadHandled DEF TInv
    <3>3. CASE RunConnect \/ RunTimer \/ RunSend \/ RunWrite \/ RunKeepAlive
      <4>1. OnError \/ UNCHANGED <<socket, manager, session, registered, countVars>>
        BY <3>3 DEF RunConnect, RunTimer, RunSend, RunWrite, RunKeepAlive, linkVars
      <4>2. Handled(session)
        BY <4>1 DEF OnError, Handled, countVars
      <4>3. QED
        BY <3>1, <4>2
    <3>4. QED
      BY <3>1, <3>2, <3>3
  <2>3. QED
    BY <2>1, <2>2, HandledTcp
<1>6. QED
  BY <1>1, <1>4, <1>5 DEF TInv

LEMMA TInvNext ==
    ASSUME TInv, Manager = "Tcp", "callback" \notin Failures, [Next]_vars
    PROVE  TInv'
<1>1. CASE Accept \/ Connect
  <2>1. ~Connect
    BY DEF Connect
  <2>2. QED
    BY <1>1, <2>1, AcceptTcp
<1>2. CASE AcceptCompletes \/ ConnectCompletes \/ ReadCompletes
           \/ WriteCompletes \/ TimerExpires \/ Aborts
  BY <1>2, CompletionTcp
<1>3. CASE AsyncSend \/ KeepAlive \/ DetachSession
  BY <1>3, OutsideTcp
<1>4. CASE RunStrand
  BY <1>4, RunAcceptTcp, RunOtherTcp DEF RunStrand
<1>5. CASE UNCHANGED vars
  <2>1. IInv'
    BY <1>5, IInvNext DEF TInv
  <2>2. UNCHANGED <<socket, manager, session, registered, pending, strand,
                    opened, closed, detached, replaced>>
    BY <1>5 DEF vars, linkVars, sendVars, countVars
  <2>3. QED
    BY <2>1, <2>2 DEF TInv, AcceptedFirst, Live, ListedIsManaged,
       RegisteredIsOpen, SessionClosedOnce
<1>6. QED
  BY <1>1, <1>2, <1>3, <1>4, <1>5 DEF Next

\* An accepted link gives each session attached to it exactly one OnClose
\* (Link.cpp:84), whoever reports an error first, when OnClose does not throw;
\* unless AttachSession(NULL) took it away before, or AttachSession(other) of a
\* Recv_Reconnect_Req displaced it (Tcp/LinkManager.h:209).
THEOREM AcceptedClosedOnce ==
    ASSUME Manager = "Tcp", "callback" \notin Failures
    PROVE  Spec => []SessionClosedOnce
<1>1. Init => TInv
  BY TInvInit
<1>2. TInv /\ [Next]_vars => TInv'
  BY TInvNext
<1>3. TInv => SessionClosedOnce
  BY DEF TInv
<1>4. QED
  BY <1>1, <1>2, <1>3, PTL DEF Spec

\* Whoever closes an accepted link takes it out of LinkManager::_links
\* (Link.cpp:84, LinkManager.cpp:126), when OnClose does not throw.
THEOREM AcceptedListedOpen ==
    ASSUME Manager = "Tcp", "callback" \notin Failures
    PROVE  Spec => []RegisteredIsOpen
<1>1. Init => TInv
  BY TInvInit
<1>2. TInv /\ [Next]_vars => TInv'
  BY TInvNext
<1>3. TInv => RegisteredIsOpen
  BY DEF TInv
<1>4. QED
  BY <1>1, <1>2, <1>3, PTL DEF Spec

\* The same of the links of a MCLink behaviour that are a Tcp::LinkManager's.
LEMMA BothInvariant ==
    ASSUME Manager = "Tcp", "callback" \notin Failures
    PROVE  /\ BothInit => (of = "Tcp" => TInv)
           /\ (of = "Tcp" => TInv) /\ [BothNext]_<<vars, of>> => (of = "Tcp" => TInv)'
<1>1. BothInit => (of = "Tcp" => TInv)
  BY TInvInit DEF BothInit
<1>2. ASSUME of = "Tcp" => TInv, [BothNext]_<<vars, of>>, of' = "Tcp" PROVE TInv'
  <2>1. of = "Tcp"
    BY <1>2 DEF BothNext
  <2>2. [Next]_vars
    BY <1>2, <2>1 DEF BothNext
  <2>3. QED
    BY <1>2, <2>1, <2>2, TInvNext
<1>3. QED
  BY <1>1, <1>2

\* Link.cpp:84, LinkManager.cpp:88: of the two kinds of links that MCLink checks together,
\* an accepted one gives each session that is neither taken off nor displaced
\* exactly one OnClose.
THEOREM BothClosedOnce ==
    ASSUME Manager = "Tcp", "callback" \notin Failures
    PROVE  BothSpec => []AcceptedIsClosedOnce
<1>1. (of = "Tcp" => TInv) => AcceptedIsClosedOnce
  BY DEF TInv, AcceptedIsClosedOnce
<1>2. QED
  BY <1>1, BothInvariant, PTL DEF BothSpec

\* ... and is in LinkManager::_links only while its socket is open.
THEOREM BothListedOpen ==
    ASSUME Manager = "Tcp", "callback" \notin Failures
    PROVE  BothSpec => []AcceptedIsListedOpen
<1>1. (of = "Tcp" => TInv) => AcceptedIsListedOpen
  BY DEF TInv, AcceptedIsListedOpen
<1>2. QED
  BY <1>1, BothInvariant, PTL DEF BothSpec

-----------------------------------------------------------------------------
(* The order of what is written: pushed is the order in which the strand took *)
(* the calls, wire is its beginning and send_buffers its end.                 *)

InOrder(q, c) ==
    \A i \in DOMAIN q :
        /\ q[i].connection = c
        /\ \A j \in 1 .. i - 1 : q[j].from = q[i].from => q[j].number < q[i].number
        /\ \A n \in 1 .. q[i].number - 1 :
              \E j \in 1 .. i - 1 : q[j].from = q[i].from /\ q[j].number = n

\* The calls 1 .. k of sender s are in q, and no other of its.
UpTo(q, s, k) ==
    /\ \A i \in DOMAIN q : q[i].from = s => q[i].number <= k
    /\ \A n \in 1 .. k : \E i \in DOMAIN q : q[i].from = s /\ q[i].number = n

\* The calls a + 1 .. k of the other threads wait in the strand, in order.
Waiting(q, a, k, c) ==
    /\ \A i \in DOMAIN q : q[i].op = "send" =>
          /\ q[i].message.from = "app" /\ q[i].message.connection = c
          /\ a < q[i].message.number /\ q[i].message.number <= k
    /\ \A i, j \in DOMAIN q : q[i].op = "send" /\ q[j].op = "send" /\ i < j =>
          q[i].message.number < q[j].message.number
    /\ \A n \in a + 1 .. k : \E i \in DOMAIN q : q[i].op = "send" /\ q[i].message.number = n

CallsInOrder(a) ==
    /\ a <= calls["app"] /\ InOrder(pushed, connection)
    /\ UpTo(pushed, "app", a) /\ UpTo(pushed, "handler", calls["handler"])
    /\ Waiting(strand, a, calls["app"], connection)

\* A write has succeeded and its buffer is still to be popped.
Wrote(q) == \E i \in DOMAIN q : q[i].op = "write" /\ q[i].ok

Popped == Len(pushed) - Len(send_buffers)
BuffersInOrder ==
    /\ 0 <= Popped
    /\ \A i \in 1 .. Len(send_buffers) : send_buffers[i] = pushed[Popped + i]
    /\ Len(wire) = IF Wrote(strand) THEN Popped + 1 ELSE Popped
    /\ \A i \in 1 .. Len(wire) : wire[i] = pushed[i]

OInv == IInv /\ BuffersInOrder /\ \E a \in Nat : CallsInOrder(a)

LEMMA NextInOrder ==
    ASSUME NEW q \in Seq(Message), NEW c, NEW s, NEW k \in Nat, NEW m \in Message,
           InOrder(q, c), UpTo(q, s, k), m.from = s, m.number = k + 1, m.connection = c
    PROVE  /\ InOrder(Append(q, m), c) /\ UpTo(Append(q, m), s, k + 1)
           /\ \A t, l : t # s /\ UpTo(q, t, l) => UpTo(Append(q, m), t, l)
<1>1. /\ Len(q) \in Nat /\ DOMAIN q = 1 .. Len(q)
      /\ DOMAIN Append(q, m) = 1 .. Len(q) + 1
      /\ \A i \in 1 .. Len(q) : Append(q, m)[i] = q[i]
      /\ Append(q, m)[Len(q) + 1] = m
      /\ \A i \in 1 .. Len(q) : q[i] \in Message
  OBVIOUS
<1>2. \A i \in 1 .. Len(q) + 1 : i \in 1 .. Len(q) \/ i = Len(q) + 1
  BY <1>1
<1>3. \A i \in 1 .. Len(q) : q[i].number \in Nat
  BY <1>1 DEF Message
<1>4. InOrder(Append(q, m), c)
  <2>1. ASSUME NEW i \in 1 .. Len(q)
        PROVE  /\ Append(q, m)[i].connection = c
               /\ \A j \in 1 .. i - 1 : Append(q, m)[j].from = Append(q, m)[i].from =>
                                            Append(q, m)[j].number < Append(q, m)[i].number
               /\ \A n \in 1 .. Append(q, m)[i].number - 1 : \E j \in 1 .. i - 1 :
                     Append(q, m)[j].from = Append(q, m)[i].from /\ Append(q, m)[j].number = n
    <3>1. /\ q[i].connection = c
          /\ \A j \in 1 .. i - 1 : q[j].from = q[i].from => q[j].number < q[i].number
          /\ \A n \in 1 .. q[i].number - 1 :
                \E j \in 1 .. i - 1 : q[j].from = q[i].from /\ q[j].number = n
      BY <1>1 DEF InOrder
    <3>2. \A j \in 1 .. i - 1 : j \in 1 .. Len(q)
      BY <1>1
    <3>3. \A j \in 1 .. i - 1 : Append(q, m)[j] = q[j]
      BY <1>1, <3>2
    <3>4. Append(q, m)[i] = q[i]
      BY <1>1
    <3>5. QED
      BY <3>1, <3>3, <3>4
  <2>2. /\ \A j \in 1 .. Len(q) : Append(q, m)[j].from = m.from => Append(q, m)[j].number < m.number
        /\ \A n \in 1 .. m.number - 1 : \E j \in 1 .. Len(q) :
              Append(q, m)[j].from = m.from /\ Append(q, m)[j].number = n
    <3>1. \A j \in 1 .. Len(q) : q[j].from = s => q[j].number < k + 1
      BY <1>1, <1>3 DEF UpTo
    <3>2. \A n \in 1 .. k : \E j \in 1 .. Len(q) : q[j].from = s /\ q[j].number = n
      BY <1>1 DEF UpTo
    <3>3. m.number - 1 = k
      OBVIOUS
    <3>4. QED
      BY <1>1, <3>1, <3>2, <3>3
  <2>3. (Len(q) + 1) - 1 = Len(q)
    BY <1>1
  <2>4. ASSUME NEW i, i = Len(q) + 1
        PROVE  /\ Append(q, m)[i].connection = c
               /\ \A j \in 1 .. i - 1 : Append(q, m)[j].from = Append(q, m)[i].from =>
                                            Append(q, m)[j].number < Append(q, m)[i].number
               /\ \A n \in 1 .. Append(q, m)[i].number - 1 : \E j \in 1 .. i - 1 :
                     Append(q, m)[j].from = Append(q, m)[i].from /\ Append(q, m)[j].number = n
    <3>1. i - 1 = Len(q) /\ Append(q, m)[i] = m
      BY <1>1, <2>3, <2>4
    <3>2. QED
      BY <2>2, <3>1, Zenon
  <2>5. QED
    BY <1>1, <1>2, <2>1, <2>4, Zenon DEF InOrder
<1>5. UpTo(Append(q, m), s, k + 1)
  <2>1. ASSUME NEW i \in 1 .. Len(q) + 1, Append(q, m)[i].from = s
        PROVE  Append(q, m)[i].number <= k + 1
    <3>1. CASE i \in 1 .. Len(q)
      BY <1>1, <1>3, <2>1, <3>1 DEF UpTo
    <3>2. CASE i = Len(q) + 1
      BY <1>1, <3>2
    <3>3. QED
      BY <1>2, <3>1, <3>2
  <2>2. ASSUME NEW n \in 1 .. k + 1
        PROVE  \E i \in 1 .. Len(q) + 1 : Append(q, m)[i].from = s /\ Append(q, m)[i].number = n
    <3>1. CASE n = k + 1
      <4>1. Len(q) + 1 \in 1 .. Len(q) + 1
        BY <1>1
      <4>2. QED
        BY <1>1, <3>1, <4>1
    <3>2. CASE n \in 1 .. k
      <4>1. PICK i \in 1 .. Len(q) : q[i].from = s /\ q[i].number = n
        BY <1>1, <3>2 DEF UpTo
      <4>2. i \in 1 .. Len(q) + 1 /\ Append(q, m)[i] = q[i]
        BY <1>1
      <4>3. QED
        BY <4>1, <4>2
    <3>3. QED
      BY <3>1, <3>2
  <2>3. QED
    BY <1>1, <2>1, <2>2 DEF UpTo
<1>6. ASSUME NEW t, NEW l, t # s, UpTo(q, t, l) PROVE UpTo(Append(q, m), t, l)
  <2>1. \A i \in 1 .. Len(q) + 1 : Append(q, m)[i].from = t => Append(q, m)[i].number <= l
    BY <1>1, <1>2, <1>6 DEF UpTo
  <2>2. ASSUME NEW n \in 1 .. l
        PROVE  \E i \in 1 .. Len(q) + 1 : Append(q, m)[i].from = t /\ Append(q, m)[i].number = n
    <3>1. PICK i \in 1 .. Len(q) : q[i].from = t /\ q[i].number = n
      BY <1>1, <1>6 DEF UpTo
    <3>2. i \in 1 .. Len(q) + 1 /\ Append(q, m)[i] = q[i]
      BY <1>1
    <3>3. QED
      BY <3>1, <3>2
  <2>3. QED
    BY <1>1, <2>1, <2>2 DEF UpTo
<1>7. QED
  BY <1>4, <1>5, <1>6

\* What waits in the strand when a function is queued: a call is the next of its threads.
LEMMA WaitingAppend ==
    ASSUME NEW q \in Seq(FunctionRecord), NEW a, NEW k \in Nat, NEW c, Waiting(q, a, k, c),
           NEW f \in FunctionRecord, NEW l \in Nat, a \in Nat, a <= k,
           \/ f.op # "send" /\ l = k
           \/ /\ f.op = "send" /\ l = k + 1
              /\ f.message.from = "app" /\ f.message.connection = c /\ f.message.number = l
    PROVE  Waiting(Append(q, f), a, l, c)
<1>1. /\ Len(q) \in Nat /\ DOMAIN q = 1 .. Len(q)
      /\ DOMAIN Append(q, f) = 1 .. Len(q) + 1
      /\ \A i \in 1 .. Len(q) : Append(q, f)[i] = q[i]
      /\ Append(q, f)[Len(q) + 1] = f
      /\ \A i \in 1 .. Len(q) : q[i] \in FunctionRecord
  OBVIOUS
<1>2. \A i \in 1 .. Len(q) + 1 : i \in 1 .. Len(q) \/ i = Len(q) + 1
  BY <1>1
<1>3. /\ \A i \in 1 .. Len(q) : q[i].op = "send" =>
            /\ q[i].message.from = "app" /\ q[i].message.connection = c
            /\ a < q[i].message.number /\ q[i].message.number <= k
      /\ \A i, j \in 1 .. Len(q) : q[i].op = "send" /\ q[j].op = "send" /\ i < j =>
            q[i].message.number < q[j].message.number
      /\ \A n \in a + 1 .. k : \E i \in 1 .. Len(q) : q[i].op = "send" /\ q[i].message.number = n
  BY <1>1 DEF Waiting
<1>4. \A i \in 1 .. Len(q) : q[i].op = "send" => q[i].message.number \in Nat
  <2>1. SUFFICES ASSUME NEW i \in 1 .. Len(q), q[i].op = "send" PROVE q[i].message.number \in Nat
    OBVIOUS
  <2>2. q[i] \in FunctionRecord
    BY <1>1
  <2>3. q[i].message \in Message
    BY <2>1, <2>2 DEF FunctionRecord
  <2>4. QED
    BY <2>3 DEF Message
<1>5. ASSUME NEW i \in 1 .. Len(q) + 1, Append(q, f)[i].op = "send"
      PROVE  /\ Append(q, f)[i].message.from = "app" /\ Append(q, f)[i].message.connection = c
             /\ a < Append(q, f)[i].message.number /\ Append(q, f)[i].message.number <= l
  <2>1. CASE i \in 1 .. Len(q)
    BY <1>1, <1>3, <1>4, <1>5, <2>1
  <2>2. CASE i = Len(q) + 1
    BY <1>1, <1>5, <2>2
  <2>3. QED
    BY <1>2, <2>1, <2>2
<1>6. ASSUME NEW i \in 1 .. Len(q) + 1, NEW j \in 1 .. Len(q) + 1,
             Append(q, f)[i].op = "send", Append(q, f)[j].op = "send", i < j
      PROVE  Append(q, f)[i].message.number < Append(q, f)[j].message.number
  <2>1. i \in 1 .. Len(q) /\ Append(q, f)[i] = q[i]
    BY <1>1, <1>6
  <2>2. CASE j \in 1 .. Len(q)
    BY <1>1, <1>3, <1>6, <2>1, <2>2
  <2>3. CASE j = Len(q) + 1
    <3>1. Append(q, f)[j].message.number = k + 1
      BY <1>1, <1>6, <2>3
    <3>2. q[i].message.number <= k /\ q[i].message.number \in Nat
      BY <1>3, <1>4, <1>6, <2>1
    <3>3. QED
      BY <2>1, <3>1, <3>2
  <2>4. QED
    BY <1>2, <2>2, <2>3
<1>7. ASSUME NEW n \in a + 1 .. l
      PROVE  \E i \in 1 .. Len(q) + 1 : Append(q, f)[i].op = "send" /\ Append(q, f)[i].message.number = n
  <2>1. CASE n \in a + 1 .. k
    <3>1. PICK i \in 1 .. Len(q) : q[i].op = "send" /\ q[i].message.number = n
      BY <1>3, <2>1
    <3>2. i \in 1 .. Len(q) + 1 /\ Append(q, f)[i] = q[i]
      BY <1>1
    <3>3. QED
      BY <3>1, <3>2
  <2>2. CASE n = k + 1 /\ l = k + 1
    <3>1. Len(q) + 1 \in 1 .. Len(q) + 1 /\ f.op = "send" /\ f.message.number = n
      BY <1>1, <2>2
    <3>2. QED
      BY <1>1, <3>1
  <2>3. QED
    BY <2>1, <2>2
<1>8. QED
  BY <1>1, <1>5, <1>6, <1>7 DEF Waiting

\* What waits when the head of the strand runs: a call that runs is the next one.
LEMMA WaitingTail ==
    ASSUME NEW q \in Seq(FunctionRecord), q # <<>>, NEW a \in Nat, NEW k \in Nat, NEW c,
           Waiting(q, a, k, c)
    PROVE  /\ Head(q).op # "send" => Waiting(Tail(q), a, k, c)
           /\ Head(q).op = "send" => /\ Head(q).message.number = a + 1 /\ a + 1 <= k
                                     /\ Head(q).message.from = "app"
                                     /\ Head(q).message.connection = c
                                     /\ Waiting(Tail(q), a + 1, k, c)
<1>1. /\ Tail(q) \in Seq(FunctionRecord)
      /\ Head(q) = q[1]
      /\ DOMAIN q = 1..Len(q)
      /\ Len(q) \in Nat /\ Len(q) >= 1
      /\ DOMAIN Tail(q) = 1..(Len(q) - 1)
      /\ \A i \in 1..(Len(q) - 1) : Tail(q)[i] = q[i + 1]
      /\ \A i \in 1..Len(q) : q[i] \in FunctionRecord
  OBVIOUS
<1>2. \A i \in 1 .. Len(q) - 1 : i + 1 \in 1 .. Len(q)
  BY <1>1
<1>3. /\ \A i \in 1 .. Len(q) : q[i].op = "send" =>
            /\ q[i].message.from = "app" /\ q[i].message.connection = c
            /\ a < q[i].message.number /\ q[i].message.number <= k
      /\ \A i, j \in 1 .. Len(q) : q[i].op = "send" /\ q[j].op = "send" /\ i < j =>
            q[i].message.number < q[j].message.number
      /\ \A n \in a + 1 .. k : \E i \in 1 .. Len(q) : q[i].op = "send" /\ q[i].message.number = n
  BY <1>1 DEF Waiting
<1>4. \A i \in 1 .. Len(q) : q[i].op = "send" => q[i].message.number \in Nat
  <2>1. SUFFICES ASSUME NEW i \in 1 .. Len(q), q[i].op = "send" PROVE q[i].message.number \in Nat
    OBVIOUS
  <2>2. q[i] \in FunctionRecord
    BY <1>1
  <2>3. q[i].message \in Message
    BY <2>1, <2>2 DEF FunctionRecord
  <2>4. QED
    BY <2>3 DEF Message
<1>5. 1 \in 1 .. Len(q)
  BY <1>1
<1>6. ASSUME q[1].op = "send" PROVE q[1].message.number = a + 1 /\ a + 1 <= k
  <2>1. a < q[1].message.number /\ q[1].message.number <= k /\ q[1].message.number \in Nat
    BY <1>3, <1>4, <1>5, <1>6
  <2>2. a + 1 \in a + 1 .. k
    BY <2>1
  <2>3. PICK i \in 1 .. Len(q) : q[i].op = "send" /\ q[i].message.number = a + 1
    BY <1>3, <2>2
  <2>4. i = 1
    <3>1. SUFFICES ASSUME 1 < i PROVE FALSE
      BY <1>1
    <3>2. q[1].message.number < q[i].message.number
      BY <1>3, <1>5, <1>6, <2>3, <3>1
    <3>3. QED
      BY <2>1, <2>3, <3>2
  <2>5. QED
    BY <2>1, <2>3, <2>4
\* b is a, or one more when a call runs.
<1>7. ASSUME NEW b \in Nat, a <= b,
             \A i \in 1 .. Len(q) : q[i].op = "send" /\ i # 1 => b < q[i].message.number,
             q[1].op = "send" => q[1].message.number \notin b + 1 .. k
      PROVE  Waiting(Tail(q), b, k, c)
  <2>1. ASSUME NEW i \in 1 .. Len(q) - 1, Tail(q)[i].op = "send"
        PROVE  /\ Tail(q)[i].message.from = "app" /\ Tail(q)[i].message.connection = c
               /\ b < Tail(q)[i].message.number /\ Tail(q)[i].message.number <= k
    <3>1. Tail(q)[i] = q[i + 1] /\ i + 1 \in 1 .. Len(q) /\ i + 1 # 1
      BY <1>1, <1>2
    <3>2. QED
      BY <1>3, <1>7, <2>1, <3>1
  <2>2. ASSUME NEW i \in 1 .. Len(q) - 1, NEW j \in 1 .. Len(q) - 1,
               Tail(q)[i].op = "send", Tail(q)[j].op = "send", i < j
        PROVE  Tail(q)[i].message.number < Tail(q)[j].message.number
    <3>1. Tail(q)[i] = q[i + 1] /\ i + 1 \in 1 .. Len(q) /\ Tail(q)[j] = q[j + 1] /\ j + 1 \in 1 .. Len(q)
      BY <1>1, <1>2
    <3>2. i + 1 < j + 1
      BY <1>1, <2>2
    <3>3. QED
      BY <1>3, <2>2, <3>1, <3>2
  <2>3. ASSUME NEW n \in b + 1 .. k
        PROVE  \E i \in 1 .. Len(q) - 1 : Tail(q)[i].op = "send" /\ Tail(q)[i].message.number = n
    <3>1. n \in a + 1 .. k
      BY <1>7
    <3>2. PICK i \in 1 .. Len(q) : q[i].op = "send" /\ q[i].message.number = n
      BY <1>3, <3>1
    <3>3. i # 1
      BY <1>7, <2>3, <3>2
    <3>4. i - 1 \in 1 .. Len(q) - 1 /\ (i - 1) + 1 = i
      BY <1>1, <3>3
    <3>5. Tail(q)[i - 1] = q[i]
      BY <1>1, <3>4
    <3>6. QED
      BY <3>2, <3>4, <3>5
  <2>4. QED
    BY <1>1, <2>1, <2>2, <2>3 DEF Waiting
<1>8. q[1].op # "send" => Waiting(Tail(q), a, k, c)
  BY <1>3, <1>7
<1>9. ASSUME q[1].op = "send" PROVE Waiting(Tail(q), a + 1, k, c)
  <2>1. ASSUME NEW i \in 1 .. Len(q), q[i].op = "send", i # 1 PROVE a + 1 < q[i].message.number
    <3>1. 1 < i
      BY <1>1, <2>1
    <3>2. q[1].message.number < q[i].message.number
      BY <1>3, <1>5, <1>9, <2>1, <3>1
    <3>3. QED
      BY <1>6, <1>9, <3>2
  <2>2. q[1].message.number \notin (a + 1) + 1 .. k
    BY <1>6, <1>9
  <2>3. a + 1 \in Nat /\ a <= a + 1
    OBVIOUS
  <2>4. QED
    BY <1>7, <2>1, <2>2, <2>3
<1>10. QED
  BY <1>1, <1>3, <1>5, <1>6, <1>8, <1>9

\* What is written is the beginning of what was pushed.
LEMMA WireIsPrefix ==
    ASSUME OInv
    PROVE  /\ Len(wire) \in Nat /\ Len(wire) <= Len(pushed) /\ WireInOrder
           /\ Popped \in Nat /\ Len(pushed) = Popped + Len(send_buffers)
           /\ Len(pushed) \in Nat /\ Len(send_buffers) \in Nat
           /\ Wrote(strand) => send_buffers # <<>>
<1>0. IInv /\ BuffersInOrder /\ \E a \in Nat : CallsInOrder(a)
  BY DEF OInv
<1>1. /\ wire \in Seq(Message) /\ pushed \in Seq(Message) /\ send_buffers \in Seq(Message)
      /\ Len(wire) \in Nat /\ Len(pushed) \in Nat /\ Len(send_buffers) \in Nat
      /\ DOMAIN wire = 1 .. Len(wire) /\ DOMAIN pushed = 1 .. Len(pushed)
  BY <1>0 DEF IInv, TypeOK
<1>2. Popped \in Nat /\ Len(pushed) = Popped + Len(send_buffers)
  <2>1. 0 <= Len(pushed) - Len(send_buffers)
    BY <1>0 DEF BuffersInOrder, Popped
  <2>2. QED
    BY <1>1, <2>1 DEF Popped
<1>3. Wrote(strand) => send_buffers # <<>>
  BY <1>0 DEF IInv, WriteHasBuffer, Live, Wrote, In
<1>4. Wrote(strand) => Len(send_buffers) >= 1
  BY <1>1, <1>3
<1>5. Len(wire) <= Len(pushed)
  BY <1>0, <1>1, <1>2, <1>4 DEF BuffersInOrder
<1>6. \A i \in 1 .. Len(wire) : i \in 1 .. Len(pushed) /\ wire[i] = pushed[i]
  BY <1>0, <1>1, <1>5 DEF BuffersInOrder
<1>7. InOrder(pushed, connection)
  BY <1>0 DEF CallsInOrder
<1>8. WireInOrder
  <2>1. SUFFICES ASSUME NEW i \in 1 .. Len(wire)
        PROVE  /\ wire[i].connection = connection
               /\ \A j \in 1 .. i - 1 : wire[j].from = wire[i].from => wire[j].number < wire[i].number
               /\ \A n \in 1 .. wire[i].number - 1 :
                     \E j \in 1 .. i - 1 : wire[j].from = wire[i].from /\ wire[j].number = n
    BY <1>1, Zenon DEF WireInOrder
  <2>2. /\ pushed[i].connection = connection
        /\ \A j \in 1 .. i - 1 : pushed[j].from = pushed[i].from => pushed[j].number < pushed[i].number
        /\ \A n \in 1 .. pushed[i].number - 1 :
              \E j \in 1 .. i - 1 : pushed[j].from = pushed[i].from /\ pushed[j].number = n
    BY <1>1, <1>6, <1>7 DEF InOrder
  <2>3. \A j \in 1 .. i - 1 : wire[j] = pushed[j]
    <3>1. \A j \in 1 .. i - 1 : j \in 1 .. Len(wire)
      BY <1>1
    <3>2. QED
      BY <1>6, <3>1
  <2>4. wire[i] = pushed[i]
    BY <1>6
  <2>5. QED
    BY <2>2, <2>3, <2>4
<1>9. QED
  BY <1>1, <1>2, <1>3, <1>5, <1>8

\* An empty strand and empty sequences are in order.
LEMMA StartInOrder ==
    ASSUME IInv', strand' = <<>>, send_buffers' = <<>>, pushed' = <<>>, wire' = <<>>,
           calls' = [s \in Senders |-> 0]
    PROVE  OInv'
<1>1. DOMAIN strand' = {} /\ DOMAIN pushed' = {} /\ Len(pushed') = 0 /\ Len(send_buffers') = 0
      /\ Len(wire') = 0 /\ 1 .. 0 = {}
  OBVIOUS
<1>2. calls'["app"] = 0 /\ calls'["handler"] = 0
  BY DEF Senders
<1>3. CallsInOrder(0)'
  BY <1>1, <1>2 DEF CallsInOrder, InOrder, UpTo, Waiting
<1>4. ~Wrote(strand')
  BY <1>1 DEF Wrote
<1>5. Popped' = 0
  BY <1>1 DEF Popped
<1>6. BuffersInOrder'
  BY <1>1, <1>4, <1>5 DEF BuffersInOrder
<1>7. QED
  BY <1>3, <1>6 DEF OInv

\* A function other than a write that succeeded is queued.
LEMMA QueuedInOrder ==
    ASSUME OInv, IInv', NEW f \in FunctionRecord, strand' = Append(strand, f),
           UNCHANGED <<send_buffers, pushed, wire, connection>>, calls'["handler"] = calls["handler"],
           ~(f.op = "write" /\ f.ok),
           \/ f.op # "send" /\ calls'["app"] = calls["app"]
           \/ /\ f.op = "send" /\ calls'["app"] = calls["app"] + 1
              /\ f.message.from = "app" /\ f.message.connection = connection
              /\ f.message.number = calls'["app"]
    PROVE  OInv'
<1>0. IInv /\ BuffersInOrder /\ strand \in Seq(FunctionRecord)
  BY DEF OInv, IInv, TypeOK
<1>1. calls["app"] \in Nat /\ calls'["app"] \in Nat
  BY <1>0, CountsAreNat
<1>2. PICK a \in Nat : CallsInOrder(a)
  BY DEF OInv
<1>3. /\ a <= calls["app"] /\ InOrder(pushed, connection)
      /\ UpTo(pushed, "app", a) /\ UpTo(pushed, "handler", calls["handler"])
      /\ Waiting(strand, a, calls["app"], connection)
  BY <1>2 DEF CallsInOrder
<1>4. PICK k \in Nat, l \in Nat : k = calls["app"] /\ l = calls'["app"]
  BY <1>1
<1>5. Waiting(strand, a, k, connection) /\ a <= k
  BY <1>3, <1>4
<1>6. PICK c : c = connection
  OBVIOUS
<1>7. \/ f.op # "send" /\ l = k
      \/ /\ f.op = "send" /\ l = k + 1
         /\ f.message.from = "app" /\ f.message.connection = c /\ f.message.number = l
  BY <1>4, <1>6
<1>8. PICK q \in Seq(FunctionRecord) : q = strand
  BY <1>0
<1>9. Waiting(Append(q, f), a, l, c)
  <2>1. Waiting(q, a, k, c)
    BY <1>5, <1>6, <1>8
  <2>2. QED
    BY <1>5, <1>7, <2>1, WaitingAppend
<1>10. Waiting(strand', a, calls'["app"], connection')
  BY <1>4, <1>6, <1>8, <1>9
<1>11. a <= calls'["app"]
  BY <1>1, <1>3
<1>12. CallsInOrder(a)'
  BY <1>3, <1>10, <1>11, Zenon DEF CallsInOrder
<1>13. Wrote(strand') <=> Wrote(strand)
  <2>1. /\ DOMAIN strand' = 1 .. Len(strand) + 1 /\ DOMAIN strand = 1 .. Len(strand)
        /\ Len(strand) \in Nat /\ strand'[Len(strand) + 1] = f
        /\ \A i \in 1 .. Len(strand) : strand'[i] = strand[i]
    BY <1>0
  <2>2. \A i \in 1 .. Len(strand) + 1 : i \in 1 .. Len(strand) \/ i = Len(strand) + 1
    BY <2>1
  <2>3. QED
    BY <2>1, <2>2 DEF Wrote
<1>14. BuffersInOrder'
  BY <1>0, <1>13 DEF BuffersInOrder, Popped
<1>15. QED
  BY <1>12, <1>14 DEF OInv

\* async_write has written the front of send_buffers.
LEMMA WrittenInOrder ==
    ASSUME OInv, IInv', pending["write"] = 1, strand' = Append(strand, Function("write", TRUE)),
           wire' = Append(wire, Head(send_buffers)),
           UNCHANGED <<send_buffers, pushed, calls, connection>>
    PROVE  OInv'
<1>0. IInv /\ BuffersInOrder /\ strand \in Seq(FunctionRecord)
  BY DEF OInv, IInv, TypeOK
<1>1. PICK a \in Nat : CallsInOrder(a)
  BY DEF OInv
<1>2. Function("write", TRUE) \in FunctionRecord /\ Function("write", TRUE).op = "write"
      /\ Function("write", TRUE).ok
  BY DEF Function, FunctionRecord, Functions, Operations
<1>3. PICK k \in Nat : k = calls["app"]
  BY <1>0, CountsAreNat
<1>4. PICK f \in FunctionRecord : f = Function("write", TRUE)
  BY <1>2
<1>5. Waiting(strand', a, calls'["app"], connection')
  <2>1. PICK c : c = connection
    OBVIOUS
  <2>2. PICK q \in Seq(FunctionRecord) : q = strand
    BY <1>0
  <2>3. Waiting(q, a, k, c) /\ a <= k
    BY <1>1, <1>3, <2>1, <2>2 DEF CallsInOrder
  <2>4. Waiting(Append(q, f), a, k, c)
    BY <1>2, <1>4, <2>3, WaitingAppend
  <2>5. QED
    BY <1>3, <1>4, <2>1, <2>2, <2>4
<1>6. CallsInOrder(a)'
  BY <1>1, <1>5, Zenon DEF CallsInOrder
<1>7. ~Wrote(strand)
  BY <1>0 DEF IInv, OneOfEach, Wrote, In, Operations
<1>8. Wrote(strand')
  <2>1. Len(strand) + 1 \in DOMAIN strand' /\ strand'[Len(strand) + 1] = Function("write", TRUE)
    <3>1. PICK q \in Seq(FunctionRecord) : q = strand
      BY <1>0
    <3>2. Len(q) + 1 \in DOMAIN Append(q, f) /\ Append(q, f)[Len(q) + 1] = f
      OBVIOUS
    <3>3. strand' = Append(q, f) /\ Len(q) = Len(strand)
      BY <1>4, <3>1
    <3>4. QED
      BY <1>4, <3>2, <3>3
  <2>2. QED
    BY <1>2, <2>1 DEF Wrote
<1>9. /\ Len(wire) \in Nat /\ Popped \in Nat /\ Len(pushed) = Popped + Len(send_buffers)
      /\ Len(send_buffers) \in Nat /\ Len(wire) = Popped
  BY <1>0, <1>7, WireIsPrefix DEF BuffersInOrder
<1>10. /\ send_buffers # <<>> /\ send_buffers \in Seq(Message) /\ wire \in Seq(Message)
  BY <1>0 DEF IInv, WriteHasBuffer, Live, TypeOK
<1>11. Head(send_buffers) = pushed[Len(wire) + 1] /\ Head(send_buffers) \in Message
  <2>1. Len(send_buffers) >= 1 /\ Head(send_buffers) = send_buffers[1]
    BY <1>9, <1>10
  <2>2. send_buffers[1] = pushed[Popped + 1]
    BY <1>0, <1>9, <2>1 DEF BuffersInOrder
  <2>3. QED
    BY <1>9, <1>10, <2>1, <2>2
<1>12. /\ Len(wire') = Len(wire) + 1
       /\ \A i \in 1 .. Len(wire) : wire'[i] = wire[i]
       /\ wire'[Len(wire) + 1] = pushed[Len(wire) + 1]
  BY <1>10, <1>11
<1>13. \A i \in 1 .. Len(wire) + 1 : i \in 1 .. Len(wire) \/ i = Len(wire) + 1
  BY <1>9
<1>14. \A i \in 1 .. Len(wire') : wire'[i] = pushed[i]
  BY <1>0, <1>12, <1>13 DEF BuffersInOrder
<1>15. Popped' = Popped
  BY DEF Popped
<1>16. BuffersInOrder'
  BY <1>0, <1>8, <1>9, <1>12, <1>14, <1>15 DEF BuffersInOrder
<1>17. QED
  BY <1>6, <1>16 DEF OInv

\* What the run of the head takes out of the strand.
LEMMA WroteTail ==
    ASSUME NEW q \in Seq(FunctionRecord), q # <<>>, Unique("write", q)
    PROVE  /\ Head(q).op = "write" => ~Wrote(Tail(q)) /\ (Wrote(q) <=> Head(q).ok)
           /\ Head(q).op # "write" => (Wrote(Tail(q)) <=> Wrote(q))
<1>1. /\ Head(q) = q[1]
      /\ DOMAIN q = 1..Len(q)
      /\ Len(q) \in Nat /\ Len(q) >= 1
      /\ DOMAIN Tail(q) = 1..(Len(q) - 1)
      /\ \A i \in 1..(Len(q) - 1) : Tail(q)[i] = q[i + 1]
  OBVIOUS
<1>2. 1 \in 1 .. Len(q)
  BY <1>1
<1>3. ASSUME Head(q).op = "write" PROVE ~Wrote(Tail(q)) /\ (Wrote(q) <=> Head(q).ok)
  <2>1. ~In("write", Tail(q))
    BY <1>3, RunFunction
  <2>2. ~Wrote(Tail(q))
    BY <2>1 DEF In, Wrote
  <2>3. \A i \in 1 .. Len(q) : q[i].op = "write" => i = 1
    BY <1>1, <1>2, <1>3 DEF Unique
  <2>4. QED
    BY <1>1, <1>2, <1>3, <2>2, <2>3 DEF Wrote
<1>4. ASSUME Head(q).op # "write" PROVE Wrote(Tail(q)) <=> Wrote(q)
  <2>1. ASSUME NEW i \in 1 .. Len(q), q[i].op = "write", q[i].ok PROVE Wrote(Tail(q))
    <3>1. i - 1 \in 1 .. Len(q) - 1 /\ (i - 1) + 1 = i
      BY <1>1, <1>4, <2>1
    <3>2. Tail(q)[i - 1] = q[i]
      BY <1>1, <3>1
    <3>3. QED
      BY <1>1, <2>1, <3>1, <3>2 DEF Wrote
  <2>2. ASSUME NEW i \in 1 .. Len(q) - 1, Tail(q)[i].op = "write", Tail(q)[i].ok PROVE Wrote(q)
    <3>1. i + 1 \in 1 .. Len(q) /\ Tail(q)[i] = q[i + 1]
      BY <1>1
    <3>2. QED
      BY <1>1, <2>2, <3>1 DEF Wrote
  <2>3. QED
    BY <1>1, <2>1, <2>2 DEF Wrote
<1>5. QED
  BY <1>3, <1>4

\* What OInv says when the head of the strand runs.
LEMMA RunOrder ==
    ASSUME OInv, NEW op, Run(op)
    PROVE  /\ strand \in Seq(FunctionRecord) /\ strand # <<>> /\ Head(strand).op = op
           /\ op = "write" => ~Wrote(strand') /\ (Wrote(strand) <=> Ok)
           /\ op # "write" => (Wrote(strand') <=> Wrote(strand))
           /\ connection' = connection /\ wire' = wire
           /\ \E a \in Nat : /\ CallsInOrder(a)
                             /\ op # "send" => Waiting(strand', a, calls["app"], connection)
                             /\ op = "send" => /\ Head(strand).message.number = a + 1
                                               /\ a + 1 <= calls["app"]
                                               /\ Head(strand).message.from = "app"
                                               /\ Head(strand).message.connection = connection
                                               /\ Waiting(strand', a + 1, calls["app"], connection)
<1>1. /\ strand \in Seq(FunctionRecord) /\ strand # <<>> /\ Head(strand).op = op
      /\ strand' = Tail(strand) /\ connection' = connection /\ wire' = wire
  BY DEF OInv, IInv, TypeOK, Run
<1>2. Unique("write", strand)
  BY DEF OInv, IInv, OneOfEach, Operations
<1>3. PICK q \in Seq(FunctionRecord) : q = strand
  BY <1>1
<1>4. /\ op = "write" => ~Wrote(strand') /\ (Wrote(strand) <=> Ok)
      /\ op # "write" => (Wrote(strand') <=> Wrote(strand))
  BY <1>1, <1>2, <1>3, WroteTail DEF Ok
<1>5. PICK a \in Nat : CallsInOrder(a)
  BY DEF OInv
<1>6. PICK k \in Nat : k = calls["app"]
  BY CountsAreNat DEF OInv
<1>7. PICK c : c = connection
  OBVIOUS
<1>8. Waiting(q, a, k, c)
  BY <1>3, <1>5, <1>6, <1>7 DEF CallsInOrder
<1>9. /\ Head(q).op # "send" => Waiting(Tail(q), a, k, c)
      /\ Head(q).op = "send" => /\ Head(q).message.number = a + 1 /\ a + 1 <= k
                                /\ Head(q).message.from = "app"
                                /\ Head(q).message.connection = c
                                /\ Waiting(Tail(q), a + 1, k, c)
  BY <1>1, <1>3, <1>8, WaitingTail
<1>10. QED
  BY <1>1, <1>3, <1>4, <1>5, <1>6, <1>7, <1>9

\* A function runs that sends nothing and ends no successful write.
LEMMA QuietRun ==
    ASSUME OInv, IInv', NEW op, Run(op), op # "send", ~(op = "write" /\ Ok),
           UNCHANGED sendVars
    PROVE  OInv'
<1>1. /\ UNCHANGED <<send_buffers, pushed, calls, connection, wire>>
      /\ Wrote(strand') <=> Wrote(strand)
  BY RunOrder DEF sendVars
<1>2. BuffersInOrder'
  BY <1>1 DEF OInv, BuffersInOrder, Popped
<1>3. PICK a \in Nat : CallsInOrder(a) /\ Waiting(strand', a, calls["app"], connection)
  BY RunOrder
<1>4. CallsInOrder(a)'
  BY <1>1, <1>3 DEF CallsInOrder
<1>5. QED
  BY <1>2, <1>4 DEF OInv

\* The numbers of a message are natural numbers.
LEMMA NumbersAreNat ==
    ASSUME OInv
    PROVE  calls \in [Senders -> Nat] /\ connection \in Nat
<1>1. calls \in [Senders -> Nat] /\ connection \in 0 .. MaxConnections
  BY DEF OInv, IInv, TypeOK
<1>2. MaxConnections \in Nat
  BY LinkAssumption
<1>3. QED
  BY <1>1, <1>2

\* A push leaves what was written, and what waits to be, where it is.
LEMMA PushBuffers ==
    ASSUME OInv, IInv', NEW m \in Message, Push(m), wire' = wire,
           Wrote(strand') <=> Wrote(strand)
    PROVE  BuffersInOrder'
<1>1. /\ send_buffers \in Seq(Message) /\ pushed \in Seq(Message)
      /\ Popped \in Nat /\ Len(pushed) = Popped + Len(send_buffers)
      /\ Len(pushed) \in Nat /\ Len(send_buffers) \in Nat
      /\ Len(wire) \in Nat /\ Len(wire) <= Len(pushed)
  BY WireIsPrefix DEF OInv, IInv, TypeOK
<1>2. BuffersInOrder
  BY DEF OInv
<1>3. /\ Len(pushed') = Len(pushed) + 1 /\ Len(send_buffers') = Len(send_buffers) + 1
      /\ \A i \in 1 .. Len(pushed) : pushed'[i] = pushed[i]
      /\ \A i \in 1 .. Len(send_buffers) : send_buffers'[i] = send_buffers[i]
      /\ pushed'[Len(pushed) + 1] = m /\ send_buffers'[Len(send_buffers) + 1] = m
  <2>1. ASSUME NEW q \in Seq(Message)
        PROVE  /\ Len(Append(q, m)) = Len(q) + 1
               /\ \A i \in 1 .. Len(q) : Append(q, m)[i] = q[i]
               /\ Append(q, m)[Len(q) + 1] = m
    OBVIOUS
  <2>2. PICK p \in Seq(Message), b \in Seq(Message) : p = pushed /\ b = send_buffers
    BY <1>1
  <2>3. pushed' = Append(p, m) /\ send_buffers' = Append(b, m)
    BY <2>2 DEF Push
  <2>4. QED
    BY <2>1, <2>2, <2>3, Zenon
<1>4. Popped' = Popped
  BY <1>1, <1>3 DEF Popped
<1>5. \A i \in 1 .. Len(send_buffers') : send_buffers'[i] = pushed'[Popped + i]
  <2>1. ASSUME NEW i \in 1 .. Len(send_buffers) PROVE send_buffers'[i] = pushed'[Popped + i]
    <3>1. Popped + i \in 1 .. Len(pushed)
      BY <1>1
    <3>2. QED
      BY <1>2, <1>3, <3>1 DEF BuffersInOrder
  <2>2. send_buffers'[Len(send_buffers) + 1] = pushed'[Popped + (Len(send_buffers) + 1)]
    <3>1. Popped + (Len(send_buffers) + 1) = Len(pushed) + 1
      BY <1>1
    <3>2. QED
      BY <1>3, <3>1
  <2>3. \A i \in 1 .. Len(send_buffers) + 1 : i \in 1 .. Len(send_buffers) \/ i = Len(send_buffers) + 1
    BY <1>1
  <2>4. QED
    BY <1>3, <2>1, <2>2, <2>3
<1>6. \A i \in 1 .. Len(wire) : wire[i] = pushed'[i]
  <2>1. \A i \in 1 .. Len(wire) : i \in 1 .. Len(pushed) /\ wire[i] = pushed[i]
    BY <1>1, <1>2 DEF BuffersInOrder
  <2>2. QED
    BY <1>3, <2>1
<1>7. /\ 0 <= Popped'
      /\ Len(wire') = IF Wrote(strand') THEN Popped' + 1 ELSE Popped'
  BY <1>1, <1>2, <1>4 DEF BuffersInOrder
<1>8. QED
  BY <1>4, <1>5, <1>6, <1>7 DEF BuffersInOrder

\* Link::FlushSend: the call at the head of the strand is the next of its threads.
LEMMA RunSendOrder ==
    ASSUME OInv, IInv', RunSend
    PROVE  OInv'
<1>1. /\ Run("send") /\ Push(Head(strand).message) /\ calls' = calls
  BY DEF RunSend
<1>2. PICK a \in Nat : /\ CallsInOrder(a)
                       /\ Head(strand).message.number = a + 1
                       /\ a + 1 <= calls["app"]
                       /\ Head(strand).message.from = "app"
                       /\ Head(strand).message.connection = connection
                       /\ Waiting(strand', a + 1, calls["app"], connection)
  BY <1>1, RunOrder
<1>3. /\ strand \in Seq(FunctionRecord) /\ strand # <<>> /\ Head(strand).op = "send"
      /\ connection' = connection /\ wire' = wire
      /\ Wrote(strand') <=> Wrote(strand)
  BY <1>1, RunOrder
<1>4. Head(strand).message \in Message
  <2>1. Head(strand) \in FunctionRecord
    BY <1>3
  <2>2. QED
    BY <1>3, <2>1 DEF FunctionRecord
<1>5. PICK m \in Message : m = Head(strand).message
  BY <1>4
<1>6. BuffersInOrder'
  BY <1>1, <1>3, <1>5, PushBuffers
<1>7. PICK c : c = connection
  OBVIOUS
<1>8. PICK p \in Seq(Message) : p = pushed
  BY DEF OInv, IInv, TypeOK
<1>9. PICK h \in Nat : h = calls["handler"]
  BY CountsAreNat DEF OInv
<1>10. InOrder(p, c) /\ UpTo(p, "app", a) /\ UpTo(p, "handler", h)
  BY <1>2, <1>7, <1>8, <1>9 DEF CallsInOrder
<1>11. /\ InOrder(Append(p, m), c) /\ UpTo(Append(p, m), "app", a + 1)
       /\ \A t, l : t # "app" /\ UpTo(p, t, l) => UpTo(Append(p, m), t, l)
  BY <1>2, <1>5, <1>7, <1>10, NextInOrder
<1>12. UpTo(Append(p, m), "handler", h)
  BY <1>10, <1>11
<1>13. pushed' = Append(p, m)
  BY <1>1, <1>5, <1>8 DEF Push
<1>14. /\ InOrder(pushed', connection') /\ UpTo(pushed', "app", a + 1)
       /\ UpTo(pushed', "handler", calls'["handler"])
  BY <1>1, <1>3, <1>7, <1>9, <1>11, <1>12, <1>13
<1>15. a + 1 <= calls'["app"] /\ Waiting(strand', a + 1, calls'["app"], connection')
  BY <1>1, <1>2, <1>3
<1>16. a + 1 \in Nat
  OBVIOUS
<1>17. \E b \in Nat : CallsInOrder(b)'
  BY <1>14, <1>15, <1>16, Zenon DEF CallsInOrder
<1>18. QED
  BY <1>6, <1>17 DEF OInv

\* A message handler that answers: its call is the next of the handlers.
LEMMA HandlerOrder ==
    ASSUME OInv, IInv', Run("read"), calls' = [calls EXCEPT !["handler"] = @ + 1],
           Push([from |-> "handler", number |-> calls["handler"] + 1,
                 connection |-> connection])
    PROVE  OInv'
<1>1. PICK a \in Nat : /\ CallsInOrder(a)
                       /\ Waiting(strand', a, calls["app"], connection)
  BY RunOrder
<1>2. /\ connection' = connection /\ wire' = wire
      /\ Wrote(strand') <=> Wrote(strand)
  BY RunOrder
<1>3. PICK h \in Nat : h = calls["handler"]
  BY CountsAreNat DEF OInv
<1>4. PICK c \in Nat : c = connection
  BY NumbersAreNat
<1>5. PICK m \in Message : /\ m = [from |-> "handler", number |-> calls["handler"] + 1,
                                   connection |-> connection]
                           /\ m.from = "handler" /\ m.number = h + 1 /\ m.connection = c
  BY <1>3, <1>4 DEF Message, Senders
<1>6. BuffersInOrder'
  BY <1>2, <1>5, PushBuffers
<1>7. PICK p \in Seq(Message) : p = pushed
  BY DEF OInv, IInv, TypeOK
<1>8. InOrder(p, c) /\ UpTo(p, "app", a) /\ UpTo(p, "handler", h)
  BY <1>1, <1>3, <1>4, <1>7 DEF CallsInOrder
<1>9. /\ InOrder(Append(p, m), c) /\ UpTo(Append(p, m), "handler", h + 1)
      /\ \A t, l : t # "handler" /\ UpTo(p, t, l) => UpTo(Append(p, m), t, l)
  BY <1>5, <1>8, NextInOrder
<1>10. UpTo(Append(p, m), "app", a)
  BY <1>8, <1>9
<1>11. pushed' = Append(p, m)
  BY <1>5, <1>7 DEF Push
<1>12. calls'["handler"] = h + 1 /\ calls'["app"] = calls["app"]
  BY <1>3 DEF OInv, IInv, TypeOK, Senders
<1>13. /\ InOrder(pushed', connection') /\ UpTo(pushed', "app", a)
       /\ UpTo(pushed', "handler", calls'["handler"])
  BY <1>2, <1>4, <1>9, <1>10, <1>11, <1>12
<1>14. a <= calls'["app"] /\ Waiting(strand', a, calls'["app"], connection')
  BY <1>1, <1>2, <1>12 DEF CallsInOrder
<1>15. \E b \in Nat : CallsInOrder(b)'
  BY <1>13, <1>14, Zenon DEF CallsInOrder
<1>16. QED
  BY <1>6, <1>15 DEF OInv

\* A read handler pushes an answer or nothing.
LEMMA RunReadOrder ==
    ASSUME OInv, IInv', RunRead
    PROVE  OInv'
<1>1. Run("read")
  BY DEF RunRead
<1>2. CASE UNCHANGED sendVars
  BY <1>1, <1>2, QuietRun
<1>3. CASE ~UNCHANGED sendVars
  <2>1. /\ calls' = [calls EXCEPT !["handler"] = @ + 1]
        /\ Push([from |-> "handler", number |-> calls["handler"] + 1,
                 connection |-> connection])
    BY <1>3, Zenon DEF RunRead, OnRecvMsg
  <2>2. QED
    BY <1>1, <2>1, HandlerOrder
<1>4. QED
  BY <1>2, <1>3

\* The completion handler of FlushSend pops the buffer that was written.
LEMMA RunWriteOrder ==
    ASSUME OInv, IInv', RunWrite
    PROVE  OInv'
<1>1. /\ Run("write") /\ calls' = calls /\ pushed' = pushed
      /\ ~Ok => send_buffers' = send_buffers
      /\ send_buffers' # send_buffers => Ok
      /\ \/ send_buffers' = send_buffers /\ ~Ok
         \/ send_buffers' = Tail(send_buffers) /\ Ok
  BY DEF RunWrite
<1>2. CASE ~Ok
  BY <1>1, <1>2, QuietRun DEF sendVars
<1>3. CASE Ok
  <2>1. /\ ~Wrote(strand') /\ Wrote(strand) /\ connection' = connection /\ wire' = wire
    BY <1>1, <1>3, RunOrder
  <2>2. /\ send_buffers \in Seq(Message) /\ send_buffers # <<>>
        /\ Popped \in Nat /\ Len(pushed) = Popped + Len(send_buffers)
        /\ Len(pushed) \in Nat /\ Len(send_buffers) \in Nat
    BY <2>1, WireIsPrefix DEF OInv, IInv, TypeOK
  <2>3. /\ Len(send_buffers') = Len(send_buffers) - 1 /\ Len(send_buffers) >= 1
        /\ \A i \in 1 .. Len(send_buffers) - 1 : send_buffers'[i] = send_buffers[i + 1]
    BY <1>1, <1>3, <2>2
  <2>4. Popped' = Popped + 1
    BY <1>1, <2>2, <2>3 DEF Popped
  <2>5. ASSUME NEW i \in 1 .. Len(send_buffers')
        PROVE  send_buffers'[i] = pushed'[Popped' + i]
    <3>1. i + 1 \in 1 .. Len(send_buffers)
      BY <2>2, <2>3
    <3>2. send_buffers[i + 1] = pushed[Popped + (i + 1)]
      BY <3>1 DEF OInv, BuffersInOrder
    <3>3. Popped + (i + 1) = Popped' + i
      BY <2>2, <2>3, <2>4
    <3>4. QED
      BY <1>1, <2>3, <3>2, <3>3
  <2>6. /\ 0 <= Popped' /\ Len(wire') = Popped'
        /\ \A i \in 1 .. Len(wire') : wire'[i] = pushed'[i]
    BY <1>1, <2>1, <2>2, <2>4 DEF OInv, BuffersInOrder
  <2>7. BuffersInOrder'
    BY <2>1, <2>5, <2>6 DEF BuffersInOrder
  <2>8. PICK a \in Nat : CallsInOrder(a) /\ Waiting(strand', a, calls["app"], connection)
    BY <1>1, RunOrder
  <2>9. CallsInOrder(a)'
    BY <1>1, <2>1, <2>8 DEF CallsInOrder
  <2>10. QED
    BY <2>7, <2>9 DEF OInv
<1>4. QED
  BY <1>2, <1>3

\* What a completion queues.
LEMMA FunctionIsRecord ==
    ASSUME NEW op \in Functions \ {"send"}, NEW ok \in BOOLEAN
    PROVE  /\ Function(op, ok) \in FunctionRecord
           /\ Function(op, ok).op = op /\ Function(op, ok).ok = ok
  BY DEF Function, FunctionRecord

\* A completion queues its handler; that of a write has written the front buffer.
LEMMA CompletionOrder ==
    ASSUME OInv, IInv',
           \/ AcceptCompletes \/ ConnectCompletes \/ ReadCompletes \/ WriteCompletes
           \/ TimerExpires \/ Aborts
    PROVE  OInv'
<1>1. ASSUME NEW op \in Operations, NEW ok \in BOOLEAN, Completed(op, ok),
             wire' = wire, ~(op = "write" /\ ok)
      PROVE  OInv'
  <2>1. PICK f \in FunctionRecord : f = Function(op, ok) /\ f.op = op /\ f.ok = ok
    BY FunctionIsRecord DEF Functions, Operations
  <2>2. /\ strand' = Append(strand, f) /\ f.op # "send"
        /\ UNCHANGED <<send_buffers, pushed, wire, connection>>
        /\ calls'["handler"] = calls["handler"] /\ calls'["app"] = calls["app"]
    BY <1>1, <2>1 DEF Completed, sendVars, Operations
  <2>3. ~(f.op = "write" /\ f.ok)
    BY <1>1, <2>1
  <2>4. QED
    BY <2>2, <2>3, QueuedInOrder
<1>2. CASE WriteCompletes
  <2>1. PICK ok \in BOOLEAN : /\ Completed("write", ok)
                              /\ wire' = IF ok THEN Append(wire, Head(send_buffers)) ELSE wire
    BY <1>2 DEF WriteCompletes
  <2>2. CASE ~ok
    BY <1>1, <2>1, <2>2 DEF Operations
  <2>3. CASE ok
    <3>1. ok = TRUE
      BY <2>3
    <3>2. /\ pending["write"] = 1 /\ strand' = Append(strand, Function("write", TRUE))
          /\ UNCHANGED <<send_buffers, pushed, calls, connection>>
      BY <2>1, <3>1 DEF Completed, sendVars
    <3>3. wire' = Append(wire, Head(send_buffers))
      BY <2>1, <3>1
    <3>4. QED
      BY <3>2, <3>3, WrittenInOrder
  <2>4. QED
    BY <2>2, <2>3
<1>3. CASE AcceptCompletes
  <2>1. PICK ok \in BOOLEAN : Completed("accept", ok) /\ wire' = wire
    BY <1>3 DEF AcceptCompletes
  <2>2. QED
    BY <1>1, <2>1 DEF Operations
<1>4. CASE ConnectCompletes
  <2>1. PICK ok \in BOOLEAN : Completed("connect", ok) /\ wire' = wire
    BY <1>4 DEF ConnectCompletes
  <2>2. QED
    BY <1>1, <2>1 DEF Operations
<1>5. CASE ReadCompletes
  <2>1. PICK ok \in BOOLEAN : Completed("read", ok) /\ wire' = wire
    BY <1>5 DEF ReadCompletes
  <2>2. QED
    BY <1>1, <2>1 DEF Operations
<1>6. CASE TimerExpires
  BY <1>1, <1>6 DEF TimerExpires, Operations
<1>7. CASE Aborts
  <2>1. PICK op \in {"connect", "read", "write"} : Completed(op, FALSE) /\ wire' = wire
    BY <1>7 DEF Aborts, Abort
  <2>2. QED
    BY <1>1, <2>1 DEF Operations
<1>8. QED
  BY <1>2, <1>3, <1>4, <1>5, <1>6, <1>7

\* A call of AsyncSend is the next of the other threads.
LEMMA OutsideOrder ==
    ASSUME OInv, IInv', AsyncSend \/ KeepAlive \/ DetachSession
    PROVE  OInv'
<1>0. calls \in [Senders -> Nat] /\ connection \in Nat
  BY NumbersAreNat
<1>1. ASSUME NEW op \in {"keepalive", "detach"}, Dispatch(Function(op, TRUE)), calls' = calls
      PROVE  OInv'
  <2>1. PICK f \in FunctionRecord : f = Function(op, TRUE) /\ f.op = op
    BY FunctionIsRecord DEF Functions
  <2>2. /\ strand' = Append(strand, f) /\ f.op # "send" /\ f.op # "write"
        /\ UNCHANGED <<send_buffers, pushed, wire, connection>>
    BY <1>1, <2>1 DEF Dispatch
  <2>3. QED
    BY <1>1, <2>2, QueuedInOrder
<1>2. CASE AsyncSend
  <2>1. PICK f : f = [op |-> "send", ok |-> TRUE,
                      message |-> [from |-> "app", number |-> calls["app"] + 1,
                                   connection |-> connection]]
    OBVIOUS
  <2>2. /\ f.op = "send" /\ f.message.from = "app" /\ f.message.connection = connection
        /\ f.message.number = calls["app"] + 1 /\ f \in FunctionRecord
    <3>1. calls["app"] + 1 \in Nat \ {0}
      BY <1>0 DEF Senders
    <3>2. [from |-> "app", number |-> calls["app"] + 1, connection |-> connection] \in Message
      BY <1>0, <3>1 DEF Message, Senders
    <3>3. QED
      BY <2>1, <3>2 DEF FunctionRecord
  <2>3. /\ strand' = Append(strand, f)
        /\ UNCHANGED <<send_buffers, pushed, wire, connection>>
        /\ calls' = [calls EXCEPT !["app"] = @ + 1]
    BY <1>2, <2>1 DEF AsyncSend, Dispatch
  <2>4. calls'["app"] = calls["app"] + 1 /\ calls'["handler"] = calls["handler"]
    BY <1>0, <2>3 DEF Senders
  <2>5. ~(f.op = "write" /\ f.ok)
    BY <2>2
  <2>6. QED
    BY <2>2, <2>3, <2>4, <2>5, QueuedInOrder
<1>3. CASE KeepAlive
  BY <1>1, <1>3 DEF KeepAlive
<1>4. CASE DetachSession
  BY <1>1, <1>4 DEF DetachSession
<1>5. QED
  BY <1>2, <1>3, <1>4

LEMMA OInvInit == Init => OInv
<1>1. SUFFICES ASSUME Init PROVE OInv
  OBVIOUS
<1>2. IInv
  BY <1>1, IInvInit
<1>3. /\ strand = <<>> /\ send_buffers = <<>> /\ pushed = <<>> /\ wire = <<>>
      /\ calls["app"] = 0 /\ calls["handler"] = 0
  BY <1>1 DEF Init, Senders
<1>4. DOMAIN strand = {} /\ DOMAIN pushed = {} /\ Len(pushed) = 0 /\ Len(send_buffers) = 0
      /\ Len(wire) = 0 /\ 1 .. 0 = {}
  BY <1>3
<1>5. CallsInOrder(0)
  BY <1>3, <1>4 DEF CallsInOrder, InOrder, UpTo, Waiting
<1>6. BuffersInOrder
  BY <1>4 DEF BuffersInOrder, Wrote, Popped
<1>7. QED
  BY <1>2, <1>5, <1>6 DEF OInv

LEMMA OInvNext ==
    ASSUME OInv, [Next]_vars
    PROVE  OInv'
<1>1. IInv'
  BY IInvNext DEF OInv
<1>2. CASE Accept \/ Connect
  <2>1. /\ strand = <<>> /\ strand' = strand /\ send_buffers' = <<>> /\ pushed' = <<>>
        /\ wire' = <<>> /\ calls' = [s \in Senders |-> 0]
    BY <1>2 DEF Accept, Connect, Create, Free
  <2>2. QED
    BY <1>1, <2>1, StartInOrder
<1>3. CASE AcceptCompletes \/ ConnectCompletes \/ ReadCompletes
           \/ WriteCompletes \/ TimerExpires \/ Aborts
  BY <1>1, <1>3, CompletionOrder
<1>4. CASE AsyncSend \/ KeepAlive \/ DetachSession
  BY <1>1, <1>4, OutsideOrder
<1>5. CASE RunAccept \/ RunConnect \/ RunTimer \/ RunKeepAlive \/ RunDetach
  <2>1. PICK op \in {"accept", "connect", "timer", "keepalive", "detach"} : Run(op)
    BY <1>5 DEF RunAccept, RunConnect, RunTimer, RunKeepAlive, RunDetach
  <2>2. UNCHANGED sendVars
    BY <1>5, Zenon DEF RunAccept, RunConnect, RunTimer, RunKeepAlive, RunDetach
  <2>3. QED
    BY <1>1, <2>1, <2>2, QuietRun
<1>6. CASE RunRead \/ RunSend \/ RunWrite
  BY <1>1, <1>6, RunReadOrder, RunSendOrder, RunWriteOrder
<1>7. CASE UNCHANGED vars
  <2>1. UNCHANGED <<strand, pushed, wire, send_buffers, calls, connection>>
    BY <1>7 DEF vars, sendVars
  <2>2. QED
    BY <1>1, <2>1 DEF OInv, CallsInOrder, BuffersInOrder, Popped
<1>8. QED
  BY <1>2, <1>3, <1>4, <1>5, <1>6, <1>7 DEF Next, RunStrand

\* Link::AsyncSend, FlushSend: whatever threads call AsyncSend and wherever their functions
\* and the completions of writes meet in the strand, what is written to the socket is, for
\* each sender, its calls of this connection in order, each once and none skipped.
THEOREM WrittenInCallOrder == Spec => []WireInOrder
<1>1. OInv => WireInOrder
  BY WireIsPrefix
<1>2. QED
  BY <1>1, OInvInit, OInvNext, PTL DEF Spec
=============================================================================
